--------------------------- MODULE MCAuthSessions ---------------------------
(* Five jtis let a login be followed by three refreshes, or by a second      *)
(* login and a refresh, before and after a password changes; they are uuids  *)
(* and nothing tells one from another.                                       *)
EXTENDS AuthSessions, Passwords, TLC

Symmetry == Permutations(Jtis)
=============================================================================

----------------------------- MODULE Passwords -----------------------------
(***************************************************************************)
(* Which passwords the program takes.  A password is its length and which  *)
(* of the four classes of characters it has.                               *)
(***************************************************************************)
EXTENDS Naturals, FiniteSets

Classes == {"upper", "lower", "digit", "special"}
Passwords == [length: Nat, classes: SUBSET Classes]
Written == {p \in Passwords : Cardinality(p.classes) <= p.length}
Short == {p \in [length: 0..18, classes: SUBSET Classes] : Cardinality(p.classes) <= p.length}

Points(p, class, n) == IF class \in p.classes THEN n ELSE 0
get_password_strength_score(p) ==
    LET score == (IF p.length >= 12 THEN 20 ELSE 0) + (IF p.length >= 16 THEN 10 ELSE 0)
                 + Points(p, "upper", 20) + Points(p, "lower", 20)
                 + Points(p, "digit", 15) + Points(p, "special", 15)
    IN IF score > 100 THEN 100 ELSE score
is_password_strong(p) == p.length >= 12 /\ get_password_strength_score(p) >= 60

\* The prompts of create and reset-password, --password, and the API.
PromptTakes(p) == is_password_strong(p) /\ p.length >= 12
OptionTakes(p) == p.length >= 12
ChangePasswordRequest(p) == p.length >= 12 /\ {"upper", "lower", "digit"} \subseteq p.classes
ApiTakes(p) == ChangePasswordRequest(p) /\ is_password_strong(p)

-----------------------------------------------------------------------------
(***************************************************************************)
(* What the score of 60 means: from 16 characters on, any two classes;     *)
(* below, upper and lower case or one of them with digits and specials.    *)
(***************************************************************************)
StrongMeans(p) == is_password_strong(p) <=>
    \/ p.length >= 16 /\ Cardinality(p.classes) >= 2
    \/ p.length >= 12 /\ {"upper", "lower"} \subseteq p.classes
    \/ p.length >= 12 /\ {"digit", "special"} \subseteq p.classes /\ Cardinality(p.classes) >= 3

(***************************************************************************)
(* What the API lets a user change to, the prompts take as well, and the   *)
(* request alone decides: the score refuses nothing that it let pass.      *)
(***************************************************************************)
ApiIsStricter(p) ==
    /\ ApiTakes(p) => PromptTakes(p)
    /\ ChangePasswordRequest(p) => is_password_strong(p)

(***************************************************************************)
(* More characters and more classes never make a password weaker, and the  *)
(* cap of 100 is met exactly by the strongest.                             *)
(***************************************************************************)
ScoreGrows(p, q) == p.length <= q.length /\ p.classes \subseteq q.classes =>
    get_password_strength_score(p) <= get_password_strength_score(q)
FullScore(p) ==
    get_password_strength_score(p) = 100 <=> p.length >= 16 /\ p.classes = Classes

\* TLC evaluates all four for the passwords up to 18 characters.
ASSUME ShortPasswords ==
    /\ \A p \in Short : StrongMeans(p) /\ ApiIsStricter(p) /\ FullScore(p)
    /\ \A p, q \in Short : ScoreGrows(p, q)
=============================================================================

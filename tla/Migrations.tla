----------------------------- MODULE Migrations -----------------------------
(***************************************************************************)
(* The two migrations as the tables they create, in their order, with the  *)
(* tables and the columns that the other modules rely on: foreign keys,    *)
(* which fail a deletion, and unique keys, which fail a second row.        *)
(***************************************************************************)
EXTENDS Naturals, Sequences, SequencesExt

Table(name, references, unique) == [name |-> name, references |-> references, unique |-> unique]
Owner == {"customers", "customer_phones"}

Phase5 == <<
    Table("customers", {}, {"external_user_id"}),
    Table("customer_phones", {"customers"}, {"phone_e164"}),
    Table("consents", Owner, {}),
    Table("suppression_list", {}, {}),
    Table("message_templates", {}, {"name"}),
    Table("segments", {}, {"name"}),
    Table("campaigns", {"message_templates", "segments"}, {"name"}),
    Table("segment_members", Owner \cup {"segments"}, {}),
    Table("campaign_members", Owner \cup {"campaigns"}, {}),
    Table("message_events", {"customers"}, {"idempotency_key"}),
    Table("message_jobs", Owner \cup {"message_events", "message_templates", "campaigns"}, {}),
    Table("message_attempts", {"message_jobs"}, {}),
    Table("inbound_messages", {}, {"twilio_message_sid"}),
    Table("review_actions", {"message_jobs"}, {}),
    Table("alert_events", {}, {})>>
Phase5Drops == <<"alert_events", "review_actions", "inbound_messages", "message_attempts",
    "message_jobs", "message_events", "campaign_members", "segment_members", "campaigns",
    "segments", "message_templates", "suppression_list", "consents", "customer_phones",
    "customers">>
Auth == <<
    Table("admin_users", {}, {"username", "email"}),
    Table("user_sessions", {"admin_users"}, {"token_jti"}),
    Table("auth_audit_logs", {"admin_users"}, {})>>
AuthDrops == <<"auth_audit_logs", "user_sessions", "admin_users">>

\* The revisions, each after its down_revision.
Upgrade == Phase5 \o Auth
Downgrade == AuthDrops \o Phase5Drops
Created(n) == {Upgrade[i] : i \in 1..n}
Names(tables) == {t.name : t \in tables}
Left(n) == {t \in ToSet(Upgrade) : \A i \in 1..n : t.name # Downgrade[i]}

\* What the handlers count on the database to refuse.
Deletes == {"segment_members", "campaign_members", "message_jobs"}
Keys == {<<"message_events", "idempotency_key">>, <<"inbound_messages", "twilio_message_sid">>,
         <<"user_sessions", "token_jti">>, <<"admin_users", "username">>}

-----------------------------------------------------------------------------
(***************************************************************************)
(* Every table is created after those it refers to and dropped before      *)
(* them, once, whichever revision the downgrade stops at.                  *)
(***************************************************************************)
ASSUME CreatedInOrder == \A n \in 1..Len(Upgrade) :
    /\ Upgrade[n].references \subseteq Names(Created(n - 1))
    /\ Upgrade[n].name \notin Names(Created(n - 1))
ASSUME DroppedInOrder ==
    /\ ToSet(Downgrade) = Names(ToSet(Upgrade)) /\ Len(Downgrade) = Len(Upgrade)
    /\ \A n \in 1..Len(Downgrade) : \A t \in Left(n) : Downgrade[n] \notin t.references
    /\ Left(Len(AuthDrops)) = ToSet(Phase5)

(***************************************************************************)
(* Of the rows that a handler deletes only jobs are referred to, by their  *)
(* attempts and reviews (MessageJobs, Audience); and a second row of an    *)
(* idempotency key, of an inbound message id, of a jti or of a username is *)
(* refused (Intake, OptOut, AuthSessions).                                 *)
(***************************************************************************)
ASSUME RefusedDeletes == \A t \in ToSet(Upgrade) :
    IF t.name \in {"message_attempts", "review_actions"}
    THEN t.references \cap Deletes = {"message_jobs"} ELSE t.references \cap Deletes = {}
ASSUME RefusedRows == \A k \in Keys :
    \E t \in ToSet(Upgrade) : t.name = k[1] /\ k[2] \in t.unique
=============================================================================

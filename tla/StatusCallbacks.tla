-------------------------- MODULE StatusCallbacks --------------------------
(***************************************************************************)
(* The status of a MessageAttempt after its message left: the worker       *)
(* commits the row with the provider's id and "sent", and the provider     *)
(* reports what became of the message to the webhook process, which        *)
(* overwrites the status of the row with that id.  A report is a callback  *)
(* the provider repeats until it is answered with 200; callbacks overtake  *)
(* each other, come before the worker's commit, and come in the format of  *)
(* a provider that the process is no longer configured for.                *)
(***************************************************************************)
EXTENDS Integers, Sequences

CONSTANTS
    Attempts,      \* primary keys of MessageAttempt rows, and ids of their messages
    Providers,     \* values of settings.sms_provider
    Earlier,       \* attempts of the time before this release, sent through Twilio
    MaxReports,    \* bound: reports on one message
    MaxFaults,     \* bound: crashes, failed commits, lost answers
    MaxSwitches    \* bound: restarts with another provider

ASSUME CallbackAssumption ==
    /\ Earlier \subseteq Attempts
    /\ MaxReports \in Nat \ {0} /\ MaxFaults \in Nat /\ MaxSwitches \in Nat

VARIABLES
    setting,     \* the provider each process was started with
    sender,      \* the provider an attempt was given to
    run,         \* the worker's transaction that holds the attempt
    row,         \* the committed row: whether it has the id, and its status
    reports,     \* what the provider found out of a message, in this order
    unanswered,  \* callbacks, by number, the provider sends or repeats
    applied,     \* history: number of the report the row's status is from
    missed,      \* history: reports answered without effect
    overlapped,  \* history: messages reported on before the last report was answered
    faults, switches

vars == <<setting, sender, run, row, reports, unanswered, applied, missed, overlapped,
          faults, switches>>
worker == <<sender, run>>
provider == <<reports, unanswered, overlapped>>
history == <<applied, missed>>
bounds == <<faults, switches>>

Processes == {"worker", "webhook"}
Interim == {"enroute"}
Final == {"delivered", "undelivered"}
None == [known |-> FALSE, status |-> "created"]
Numbers == 1..MaxReports

TypeOK ==
    /\ setting \in [Processes -> Providers]
    /\ sender \in [Attempts -> Providers \cup {"twilio"}]
    /\ run \in [Attempts -> {"idle", "flushed", "accepted", "nameless", "failed", "done"}]
    /\ row \in [Attempts -> [known: BOOLEAN,
                             status: {"created", "sent", "failed"} \cup Interim \cup Final]]
    /\ reports \in [Attempts -> Seq(Interim \cup Final)]
    /\ unanswered \subseteq Attempts \X Numbers /\ applied \in [Attempts -> 0..MaxReports]
    /\ missed \subseteq Attempts \X Numbers /\ overlapped \subseteq Attempts
    /\ faults \in Nat /\ switches \in Nat

Sent == [known |-> TRUE, status |-> "sent"]
Init ==
    /\ \E p \in Providers : /\ setting = [x \in Processes |-> p]
                            /\ sender = [a \in Attempts |-> IF a \in Earlier THEN "twilio" ELSE p]
    /\ run = [a \in Attempts |-> IF a \in Earlier THEN "done" ELSE "idle"]
    /\ row = [a \in Attempts |-> IF a \in Earlier THEN Sent ELSE None]
    /\ reports = [a \in Attempts |-> <<>>] /\ unanswered = {}
    /\ applied = [a \in Attempts |-> 0] /\ missed = {} /\ overlapped = {}
    /\ faults = 0 /\ switches = 0

-----------------------------------------------------------------------------
(* send_message_job from db.flush() on: no other process sees the row      *)
(* before the commit, which brings the id and the status at once.          *)
Goto(a, pc) == run' = [run EXCEPT ![a] = pc]
Fault == faults < MaxFaults /\ faults' = faults + 1 /\ UNCHANGED switches

Flush(a) ==
    /\ run[a] = "idle" /\ Goto(a, "flushed")
    /\ sender' = [sender EXCEPT ![a] = setting["worker"]]
    /\ UNCHANGED <<setting, row, provider, history, bounds>>

\* The provider has the message; its answer may name no id ("" is kept), or
\* not arrive in time.  The first report is on its way.
Accept(a) ==
    /\ run[a] = "flushed" /\ \E pc \in {"accepted", "nameless", "failed"} : Goto(a, pc)
    /\ \E s \in Interim \cup Final : reports' = [reports EXCEPT ![a] = <<s>>]
    /\ unanswered' = unanswered \cup {<<a, 1>>}
    /\ UNCHANGED <<setting, sender, row, overlapped, history, bounds>>

Refuse(a) ==
    /\ run[a] = "flushed" /\ Goto(a, "failed")
    /\ UNCHANGED <<setting, sender, row, provider, history, bounds>>

\* Variants: the status is the provider's; the id is committed before it.
CommitProviderStatus(a) ==
    /\ run[a] \in {"accepted", "nameless", "failed"} /\ Goto(a, "done")
    /\ row' = [row EXCEPT ![a] =
           [known |-> run[a] = "accepted",
            status |-> IF run[a] = "failed" THEN "failed" ELSE "simulated"]]
    /\ UNCHANGED <<setting, sender, provider, history, bounds>>
CommitTwice(a) ==
    /\ run[a] \in {"accepted", "nameless", "failed"} /\ (Goto(a, "done") \/ UNCHANGED run)
    /\ row' = [row EXCEPT ![a] =
           [known |-> run[a] = "accepted",
            status |-> IF run[a] = "failed" THEN "failed" ELSE "sent"]]
    /\ applied' = [applied EXCEPT ![a] = 0]
    /\ UNCHANGED <<setting, sender, provider, missed, bounds>>
Commit(a) ==
    /\ run[a] \in {"accepted", "nameless", "failed"} /\ Goto(a, "done")
    /\ row' = [row EXCEPT ![a] =
           [known |-> run[a] = "accepted",
            status |-> IF run[a] = "failed" THEN "failed" ELSE "sent"]]
    /\ UNCHANGED <<setting, sender, provider, history, bounds>>

WorkerCrash(a) ==
    /\ run[a] \in {"flushed", "accepted", "nameless", "failed"} /\ Goto(a, "done") /\ Fault
    /\ UNCHANGED <<setting, sender, row, provider, history>>

-----------------------------------------------------------------------------
(* What the provider does: it reports on a message it has, and repeats a    *)
(* callback until it gets its answer.                                       *)
Latest(a) == IF reports[a] = <<>> THEN "none" ELSE reports[a][Len(reports[a])]
Report(a, s) ==
    /\ IF reports[a] = <<>> THEN a \in Earlier
       ELSE Len(reports[a]) < MaxReports /\ Latest(a) \notin Final
    /\ reports' = [reports EXCEPT ![a] = Append(@, s)]
    /\ unanswered' = unanswered \cup {<<a, Len(reports[a]) + 1>>}
    /\ overlapped' = IF \E i \in Numbers : <<a, i>> \in unanswered
                     THEN overlapped \cup {a} ELSE overlapped
    /\ UNCHANGED <<setting, worker, row, history, bounds>>

-----------------------------------------------------------------------------
(* The handlers of POST /webhooks/provider/status and .../twilio/status:    *)
(* nothing is awaited between the query and the commit, so that callbacks   *)
(* take effect one after the other.                                         *)
\* normalize_status_webhook: who reads which fields of the payload; of another
\* provider's payload neither the id nor the status is found.  The status of a
\* Telnyx report is looked for outside of "data", where its id is: the row is
\* found, nothing is written, and the answer is {"ok": True} all the same.
Format(p) == IF p \in {"plivo", "telnyx", "twilio"} THEN p ELSE "base"
Understood(a) ==
    \/ sender[a] = "twilio"
    \/ sender[a] # "telnyx" /\ Format(sender[a]) = Format(setting["webhook"])
Matches(a) == Understood(a) /\ row[a].known

\* Variants: the query finds any row; only an attempt that says "sent" is updated.
ApplyToAny(a, i) ==
    /\ \E b \in Attempts : row' = IF row[b].known THEN [row EXCEPT ![b].status = reports[a][i]]
                                                    ELSE row
    /\ applied' = [applied EXCEPT ![a] = i] /\ UNCHANGED missed
ApplyOnce(a, i) ==
    IF Matches(a) /\ row[a].status = "sent"
    THEN /\ row' = [row EXCEPT ![a].status = reports[a][i]]
         /\ applied' = [applied EXCEPT ![a] = i] /\ missed' = missed \ {<<a, i>>}
    ELSE missed' = missed /\ UNCHANGED <<row, applied>>
Apply(a, i) ==
    IF Matches(a)
    THEN /\ row' = [row EXCEPT ![a].status = reports[a][i]]
         /\ applied' = [applied EXCEPT ![a] = i] /\ missed' = missed \ {<<a, i>>}
    ELSE missed' = missed \cup {<<a, i>>} /\ UNCHANGED <<row, applied>>

\* The answer, {"ok": True} whether a row matched or not, may be lost.
Callback(a, i) ==
    /\ <<a, i>> \in unanswered /\ Apply(a, i)
    /\ \/ unanswered' = unanswered \ {<<a, i>>} /\ UNCHANGED bounds
       \/ Fault /\ UNCHANGED unanswered
    /\ UNCHANGED <<setting, worker, reports, overlapped>>

\* Variant: the error is caught and the callback answered.
CallbackFailsQuietly(a, i) ==
    /\ <<a, i>> \in unanswered /\ Fault /\ unanswered' = unanswered \ {<<a, i>>}
    /\ UNCHANGED <<setting, worker, row, reports, overlapped, history>>
\* The commit fails, or the process is down: no 200.
CallbackFails(a, i) ==
    /\ <<a, i>> \in unanswered /\ Fault
    /\ UNCHANGED <<setting, worker, row, provider, history>>

\* A process is started again with another SMS_PROVIDER.
SwitchProvider(x, p) ==
    /\ p # setting[x] /\ switches < MaxSwitches /\ switches' = switches + 1
    /\ setting' = [setting EXCEPT ![x] = p]
    /\ UNCHANGED <<worker, row, provider, history, faults>>

-----------------------------------------------------------------------------
WorkerStep(a) == Flush(a) \/ Accept(a) \/ Refuse(a) \/ Commit(a) \/ WorkerCrash(a)
ProviderStep(a) == \E s \in Interim \cup Final : Report(a, s)
CallbackStep(a) == \E i \in Numbers : Callback(a, i) \/ CallbackFails(a, i)
Next ==
    \/ \E a \in Attempts : WorkerStep(a) \/ ProviderStep(a) \/ CallbackStep(a)
    \/ \E x \in Processes, p \in Providers : SwitchProvider(x, p)

Spec == Init /\ [][Next]_vars

\* The provider repeats a callback until it is answered.
FairSpec == Spec /\ \A a \in Attempts, i \in Numbers : WF_vars(Callback(a, i))

-----------------------------------------------------------------------------
(***************************************************************************)
(* The dashboard shows of a message what its own provider reported of it,  *)
(* or "sent": no callback, repeated, late or in another format, changes    *)
(* the row of another message.                                             *)
(***************************************************************************)
StatusWasReported == \A a \in Attempts : row[a].known =>
    row[a].status = IF applied[a] = 0 THEN "sent" ELSE reports[a][applied[a]]

(***************************************************************************)
(* A report that was answered is not lost: its status, or a later one, is  *)
(* in the row, unless the callback found no row or no status (it came      *)
(* before the worker's commit, or in a format the process does not read)   *)
(* or reports on the message overlapped.                                   *)
(***************************************************************************)
AnsweredIsApplied == \A a \in Attempts : \A i \in 1..Len(reports[a]) :
    <<a, i>> \in unanswered \cup missed \/ applied[a] >= i \/ a \in overlapped

(***************************************************************************)
(* A status is not taken back: repeated callbacks, after lost answers and  *)
(* failed commits, replace a status by an earlier one only if the provider *)
(* reported again before the report in between was answered.               *)
(***************************************************************************)
StatusMovesForward ==
    [][\A a \in Attempts : applied'[a] >= applied[a] \/ a \in overlapped]_vars

(***************************************************************************)
(* The final report of a message whose row has the id reaches the row, as  *)
(* long as the provider repeats what is not answered, with the exceptions  *)
(* of AnsweredIsApplied.                                                   *)
(***************************************************************************)
FinalStatusRecorded == \A a \in Attempts :
    (row[a].known /\ Latest(a) \in Final)
    ~> \/ row[a].status = Latest(a) \/ <<a, Len(reports[a])>> \in missed
       \/ a \in overlapped
=============================================================================

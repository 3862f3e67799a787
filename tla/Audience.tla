------------------------------ MODULE Audience ------------------------------
(***************************************************************************)
(* Whom a campaign writes to: OptOut with the segments and the campaigns   *)
(* of the dashboard.  A segment's members are chosen phone by phone, one   *)
(* query of the consents each, while consents are recorded; a campaign     *)
(* takes the members of its segment; its jobs go through the policy, any   *)
(* time later.  The handlers of the dashboard are coroutines that never    *)
(* await, so that no two of them overlap; the endpoint of the consents     *)
(* runs in threads, the workers in processes of their own.                 *)
(***************************************************************************)
EXTENDS OptOut

CONSTANTS
    Segments, NoSegment, Campaigns, NoCampaign,
    Matching,         \* phones whose customer has the segment's country_code, if any
    RequiresConsent,  \* segments that ask for a consent
    SegmentOf,        \* segment_id of a campaign, or NoSegment
    CategoryOf,       \* category of a campaign
    MaxRequests       \* bound: requests that generate members

ASSUME AudienceAssumption ==
    /\ NoSegment \notin Segments /\ NoCampaign \notin Campaigns
    /\ Matching \in [Segments -> SUBSET Phones]
    /\ RequiresConsent \subseteq Segments
    /\ SegmentOf \in [Campaigns -> Segments \cup {NoSegment}]
    /\ CategoryOf \in [Campaigns -> Categories] /\ MaxRequests \in Nat

VARIABLES
    eligible,   \* phones with a marketing or transactional consent of their own customer
    made,       \* segments and campaigns with a row
    members,    \* phones of a segment's SegmentMember rows
    audience,   \* phones of a campaign's CampaignMember and MessageJob rows
    round,      \* how often these were generated: the generation's jobs have ids of their own
    attempted,  \* campaigns with a MessageAttempt on one of the jobs
    generation, \* the open transaction of generate_segment_members
    job,        \* the campaign and round of the job a worker runs, or NoJob
    reached,    \* history: campaign messages the provider took
    complete,   \* history: per segment, what each whole generation had to and could choose
    requests

rows == <<made, members, audience, round, attempted>>
dashboard == <<rows, generation, complete, requests>>
avars == <<vars, eligible, dashboard, job, reached>>

NoJob == [campaign |-> NoCampaign, round |-> 0]
NoGeneration == [segment |-> NoSegment, left |-> {}, chosen |-> {}, owed |-> {}]
Wanted(s) == Matching[s] \cap (IF s \in RequiresConsent THEN eligible ELSE Phones)

AInit ==
    /\ Init /\ eligible \in SUBSET consented /\ made = {}
    /\ members = [s \in Segments |-> {}] /\ audience = [c \in Campaigns |-> {}]
    /\ round = [c \in Campaigns |-> 0] /\ attempted = {}
    /\ generation = NoGeneration /\ job = [w \in Workers |-> NoJob]
    /\ reached = {} /\ complete = [s \in Segments |-> {[owed |-> {}, allowed |-> {}]}]
    /\ requests = 0

-----------------------------------------------------------------------------
(* The dashboard. *)
NoRequest == generation.segment = NoSegment
Request == NoRequest /\ requests < MaxRequests /\ requests' = requests + 1
Keep == UNCHANGED <<vars, eligible, job, reached>>

CreateSegment(s) ==
    /\ NoRequest /\ s \notin made /\ made' = made \cup {s}
    /\ UNCHANGED <<members, audience, round, attempted, generation, complete, requests>> /\ Keep

CreateCampaign(c) ==
    /\ NoRequest /\ c \notin made /\ SegmentOf[c] \in made \cup {NoSegment}
    /\ made' = made \cup {c}
    /\ UNCHANGED <<members, audience, round, attempted, generation, complete, requests>> /\ Keep

\* The old members are deleted in the same transaction; the join is one query.
GenerateSegmentMembers(s) ==
    /\ Request /\ s \in made
    /\ generation' = [segment |-> s, left |-> Matching[s], chosen |-> {}, owed |-> Wanted(s)]
    /\ UNCHANGED <<rows, complete>> /\ Keep

\* Variants: no look at the consents; a commit for each member.
CheckNoMember(p) ==
    /\ p \in generation.left
    /\ generation' = [generation EXCEPT !.left = @ \ {p}, !.chosen = @ \cup {p}]
    /\ UNCHANGED <<rows, complete, requests>> /\ Keep
CheckAndCommitMember(p) ==
    LET s == generation.segment
        chosen == generation.chosen \cup (IF p \in Wanted(s) THEN {p} ELSE {}) IN
    /\ p \in generation.left
    /\ generation' = [generation EXCEPT !.left = @ \ {p}, !.chosen = chosen]
    /\ members' = [members EXCEPT ![s] = chosen]
    /\ UNCHANGED <<made, audience, round, attempted, complete, requests>> /\ Keep
CheckMember(p) ==
    /\ p \in generation.left
    /\ generation' = [generation EXCEPT !.left = @ \ {p},
           !.chosen = IF p \in Wanted(generation.segment) THEN @ \cup {p} ELSE @]
    /\ UNCHANGED <<rows, complete, requests>> /\ Keep

CommitMembers ==
    LET g == generation s == g.segment IN
    /\ s # NoSegment /\ g.left = {} /\ generation' = NoGeneration
    /\ members' = [members EXCEPT ![s] = g.chosen]
    /\ complete' = [complete EXCEPT ![s] = @ \cup {[owed |-> g.owed, allowed |-> Wanted(s)]}]
    /\ UNCHANGED <<made, audience, round, attempted, requests>> /\ Keep

\* The API process ends, or the database: the transaction is rolled back.
GenerationInterrupted ==
    /\ generation.segment # NoSegment /\ generation' = NoGeneration
    /\ UNCHANGED <<rows, complete, requests>> /\ Keep

\* The DELETE fails on a job that an attempt refers to.
GenerateCampaignMembers(c) ==
    /\ Request /\ c \in made /\ SegmentOf[c] # NoSegment /\ c \notin attempted
    /\ audience' = [audience EXCEPT ![c] = members[SegmentOf[c]]]
    /\ round' = [round EXCEPT ![c] = @ + 1]
    /\ UNCHANGED <<made, members, attempted, generation, complete>> /\ Keep

-----------------------------------------------------------------------------
(* The other processes: OptOut with the jobs of campaigns. *)
ACreateConsent(p) ==
    /\ CreateConsent(p) /\ eligible' \in {eligible, eligible \cup {p}}
    /\ UNCHANGED <<dashboard, job, reached>>

Webhook(m) ==
    /\ HandleReply(m) \/ HandleMisread(m) \/ HandleDuplicate(m)
    /\ UNCHANGED <<eligible, dashboard, job, reached>>

StartJob(w, c, p) ==
    /\ p \in audience[c] /\ StartRun(w, p, CategoryOf[c])
    /\ job' = [job EXCEPT ![w] = [campaign |-> c, round |-> round[c]]]
    /\ UNCHANGED <<eligible, dashboard, reached>>

StartTransactional(w, p, category) ==
    /\ StartRun(w, p, category) /\ job' = [job EXCEPT ![w] = NoJob]
    /\ UNCHANGED <<eligible, dashboard, reached>>

\* A worker that returns has no job.
Leave(w) == job' = [job EXCEPT ![w] = IF run'[w] = Idle THEN NoJob ELSE @]

CheckPolicy(w) ==
    (CheckSuppression(w) \/ CheckConsent(w)) /\ Leave(w) /\ UNCHANGED <<eligible, dashboard, reached>>

\* The attempt is recorded, unless the worker ends before its commit.
Recorded(w) ==
    /\ attempted' \in {attempted, attempted \cup ({job[w].campaign} \cap Campaigns)}
    /\ UNCHANGED <<eligible, made, members, audience, round, generation, complete, requests>>
\* A job that was deleted in the meantime has no attempt and is not sent.
HasJob(w) == job[w] # NoJob => job[w].round = round[job[w].campaign]

NotSent(w) ==
    /\ Throttle(w) /\ Leave(w) /\ UNCHANGED reached
    /\ IF HasJob(w) THEN Recorded(w) ELSE UNCHANGED <<eligible, dashboard>>
Sent(w) ==
    /\ Send(w) /\ HasJob(w) /\ Recorded(w) /\ Leave(w)
    /\ reached' = IF job[w] = NoJob THEN reached
                  ELSE reached \cup {<<job[w].campaign, run[w].phone>>}

-----------------------------------------------------------------------------
DashboardStep ==
    \/ \E s \in Segments : CreateSegment(s) \/ GenerateSegmentMembers(s)
    \/ \E c \in Campaigns : CreateCampaign(c) \/ GenerateCampaignMembers(c)
    \/ \E p \in Phones : CheckMember(p)
    \/ CommitMembers \/ GenerationInterrupted
ARunStep(w) ==
    \/ \E c \in Campaigns, p \in Phones : StartJob(w, c, p)
    \/ \E p \in Phones, category \in Categories : StartTransactional(w, p, category)
    \/ CheckPolicy(w) \/ NotSent(w) \/ Sent(w)
ANext ==
    \/ DashboardStep \/ \E w \in Workers : ARunStep(w)
    \/ \E p \in Phones : ACreateConsent(p)
    \/ \E m \in Replies : Webhook(m)
ASpec == AInit /\ [][ANext]_avars

\* As in OptOut.
AFairSpec == ASpec /\ \A m \in Replies :
    WF_avars((HandleReply(m) \/ HandleMisread(m)) /\ UNCHANGED <<eligible, dashboard, job, reached>>)

-----------------------------------------------------------------------------
(***************************************************************************)
(* A campaign's audience is what one whole generation of its segment may   *)
(* choose: all who were eligible when it began, nobody who was not when it *)
(* ended; neither half of a generation nor a mixture of two, whatever      *)
(* consents arrive between its queries and wherever it is interrupted.     *)
(***************************************************************************)
AudienceIsOneGeneration == \A c \in Campaigns : SegmentOf[c] # NoSegment =>
    \E g \in complete[SegmentOf[c]] : g.owed \subseteq audience[c] /\ audience[c] \subseteq g.allowed

(***************************************************************************)
(* No campaign reaches anybody outside of its segment; one that asks for   *)
(* the consent reaches nobody without, even if the campaign has a category *)
(* that the policy lets pass unasked, and every other nobody who never     *)
(* consented to anything.                                                  *)
(***************************************************************************)
CampaignReachesConsented == \A m \in reached :
    /\ m[2] \in Matching[SegmentOf[m[1]]]
    /\ SegmentOf[m[1]] \in RequiresConsent => m[2] \in eligible
    /\ CategoryOf[m[1]] # "otp" => m[2] \in consented
=============================================================================

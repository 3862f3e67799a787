---------------------------- MODULE OptOutProofs ----------------------------
(***************************************************************************)
(* OptOut for any number of phones, workers and replies, and Audience.     *)
(***************************************************************************)
EXTENDS Audience, TLAPS

(***************************************************************************)
(* A worker that moves on keeps the phone and the category of its run.     *)
(***************************************************************************)
LEMMA GotoRun ==
    ASSUME TypeOK, NEW w \in Workers, run[w].pc # "idle",
           NEW pc \in {"started", "unsuppressed", "allowed"}, Goto(w, pc)
    PROVE  /\ run' \in [Workers -> Runs] /\ run[w].phone \in Phones
           /\ run'[w].pc = pc /\ run'[w].phone = run[w].phone
           /\ \A v \in Workers \ {w} : run'[v] = run[v]
<1>1. run[w] \in Busy
  BY DEF TypeOK, Runs, Idle
<1> DEFINE r == [run[w] EXCEPT !.pc = pc]
<1>2. r \in Busy /\ r.pc = pc /\ r.phone = run[w].phone /\ run[w].phone \in Phones
  BY <1>1 DEF Busy
<1>3. run' = [run EXCEPT ![w] = r]
  BY DEF Goto
<1> HIDE DEF r
<1> QED BY <1>2, <1>3 DEF TypeOK, Runs

LEMMA ReturnRun ==
    ASSUME TypeOK, NEW w \in Workers, Return(w)
    PROVE  /\ run' \in [Workers -> Runs] /\ run'[w].pc = "idle"
           /\ \A v \in Workers \ {w} : run'[v] = run[v]
BY DEF TypeOK, Return, Runs, Idle

(***************************************************************************)
(* Type correctness of a run of the policy and of the webhook.             *)
(***************************************************************************)
LEMMA TypeStep == TypeOK /\ [Next]_vars => TypeOK'
<1> SUFFICES ASSUME TypeOK, [Next]_vars PROVE TypeOK'
  OBVIOUS
<1> USE OptOutAssumption
<1>1. ASSUME NEW m \in Replies, HandleReply(m) PROVE TypeOK'
  <2>1. Text(m) \in {"unsubscribed", "help", "ok"}
    BY DEF Text
  <2> QED
    BY <1>1, <2>1 DEF TypeOK, HandleReply, New, Answer, Taken, Loss, policy
<1>2. ASSUME NEW m \in Replies, HandleDuplicate(m) PROVE TypeOK'
  BY <1>2 DEF TypeOK, HandleDuplicate, policy
<1>2a. ASSUME NEW m \in Replies, HandleMisread(m) PROVE TypeOK'
  <2>1. Text(m) \in {"unsubscribed", "help", "ok"}
    BY DEF Text
  <2> QED
    BY <1>2a, <2>1 DEF TypeOK, HandleMisread, New, Taken, Loss, policy
<1>3. ASSUME NEW p \in Phones, CreateConsent(p) PROVE TypeOK'
  BY <1>3 DEF TypeOK, CreateConsent, webhook
<1>4. ASSUME NEW w \in Workers, RunStep(w) PROVE TypeOK'
  <2>1. ASSUME NEW p \in Phones, NEW c \in Categories, StartRun(w, p, c) PROVE TypeOK'
    <3>1. run' \in [Workers -> Runs]
      BY <2>1 DEF TypeOK, StartRun, Runs, Busy
    <3> QED
      BY <2>1, <3>1 DEF TypeOK, StartRun, webhook
  <2>2. CASE CheckSuppression(w)
    <3>1. run' \in [Workers -> Runs]
      BY <2>2, GotoRun, ReturnRun DEF CheckSuppression
    <3> QED
      BY <2>2, <3>1 DEF TypeOK, CheckSuppression, webhook
  <2>3. CASE CheckConsent(w)
    <3>1. run' \in [Workers -> Runs]
      BY <2>3, GotoRun, ReturnRun DEF CheckConsent
    <3> QED
      BY <2>3, <3>1 DEF TypeOK, CheckConsent, webhook
  <2>4. CASE Throttle(w)
    BY <2>4 DEF TypeOK, Throttle, Return, Runs, webhook
  <2>5. CASE Send(w)
    <3>1. run' \in [Workers -> Runs] /\ run[w].phone \in Phones
      BY <2>5 DEF TypeOK, Send, Return, Runs, Busy, Idle
    <3>2. lateBy' \in [Phones -> [Workers -> Nat]]
      BY <2>5, <3>1 DEF TypeOK, Send
    <3> QED
      BY <2>5, <3>1, <3>2 DEF TypeOK, Send, webhook
  <2> QED
    BY <1>4, <2>1, <2>2, <2>3, <2>4, <2>5 DEF RunStep
<1>5. CASE UNCHANGED vars
  BY <1>5 DEF TypeOK, vars
<1> QED
  BY <1>1, <1>2, <1>2a, <1>3, <1>4, <1>5 DEF Next

(***************************************************************************)
(* Every variable keeps its type in every behaviour of the policy and the  *)
(* webhook.                                                                *)
(***************************************************************************)
THEOREM OptOutTypes == Spec => []TypeOK
<1>1. Init => TypeOK
  BY DEF Init, TypeOK, Runs
<1> QED
  BY <1>1, TypeStep, PTL DEF Spec

-----------------------------------------------------------------------------
(***************************************************************************)
(* The strengthening: a late message presupposes the suppression, and a    *)
(* worker past its suppression check has sent none to its phone yet.       *)
(***************************************************************************)
PastSuppressionCheck(w) == run[w].pc \in {"unsuppressed", "allowed"}
LateInv ==
    /\ \A p \in Phones, w \in Workers :
           lateBy[p][w] <= 1 /\ (lateBy[p][w] # 0 => p \in suppressed)
    /\ \A w \in Workers : PastSuppressionCheck(w) => lateBy[run[w].phone][w] = 0

LEMMA LateStep == TypeOK /\ LateInv /\ [Next]_vars => LateInv'
<1> SUFFICES ASSUME TypeOK, LateInv, [Next]_vars PROVE LateInv'
  OBVIOUS
<1> USE OptOutAssumption
<1>0. ASSUME NEW w \in Workers, run[w].pc # "idle" PROVE run[w].phone \in Phones
  BY <1>0 DEF TypeOK, Runs, Busy, Idle
\* The steps of the webhook and of the API only add suppressions.
<1>1. CASE UNCHANGED <<run, lateBy>> /\ suppressed \subseteq suppressed'
  BY <1>1 DEF LateInv, PastSuppressionCheck
<1>2. ASSUME NEW m \in Replies, HandleReply(m) PROVE LateInv'
  BY <1>1, <1>2 DEF HandleReply, policy
<1>3. ASSUME NEW m \in Replies, HandleDuplicate(m) PROVE LateInv'
  BY <1>1, <1>3 DEF HandleDuplicate, policy
<1>3a. ASSUME NEW m \in Replies, HandleMisread(m) PROVE LateInv'
  BY <1>1, <1>3a DEF HandleMisread, policy
<1>4. ASSUME NEW p \in Phones, CreateConsent(p) PROVE LateInv'
  BY <1>1, <1>4 DEF CreateConsent, webhook
<1>5. ASSUME NEW w \in Workers, RunStep(w) PROVE LateInv'
  <2>1. ASSUME NEW p \in Phones, NEW c \in Categories, StartRun(w, p, c) PROVE LateInv'
    BY <2>1 DEF TypeOK, LateInv, PastSuppressionCheck, StartRun, webhook
  <2>2. CASE CheckSuppression(w)
    <3>1. UNCHANGED <<suppressed, lateBy>> /\ run[w].pc = "started"
      BY <2>2 DEF CheckSuppression, webhook
    <3>2. CASE Return(w)
      BY <3>1, <3>2, ReturnRun DEF LateInv, PastSuppressionCheck
    <3>3. CASE run[w].phone \notin suppressed /\ Goto(w, "unsuppressed")
      <4>1. lateBy[run[w].phone][w] = 0
        BY <3>1, <3>3, <1>0 DEF LateInv
      <4> QED
        BY <3>1, <3>3, <4>1, GotoRun DEF LateInv, PastSuppressionCheck
    <3> QED
      BY <2>2, <3>2, <3>3 DEF CheckSuppression
  <2>3. CASE CheckConsent(w)
    <3>1. UNCHANGED <<suppressed, lateBy>> /\ run[w].pc = "unsuppressed"
      BY <2>3 DEF CheckConsent, webhook
    <3>2. CASE Return(w)
      BY <3>1, <3>2, ReturnRun DEF LateInv, PastSuppressionCheck
    <3>3. CASE Goto(w, "allowed")
      <4>1. lateBy[run[w].phone][w] = 0
        BY <3>1 DEF LateInv, PastSuppressionCheck
      <4> QED
        BY <3>1, <3>3, <4>1, GotoRun DEF LateInv, PastSuppressionCheck
    <3> QED
      BY <2>3, <3>2, <3>3 DEF CheckConsent
  <2>4. CASE Throttle(w)
    BY <2>4 DEF TypeOK, LateInv, PastSuppressionCheck, Throttle, Return, Idle, webhook
  <2>5. CASE Send(w)
    <3> DEFINE p == run[w].phone
    <3>1. p \in Phones /\ lateBy[p][w] = 0
      BY <2>5, <1>0 DEF Send, LateInv, PastSuppressionCheck
    <3>2. Return(w) /\ UNCHANGED suppressed
      BY <2>5 DEF Send, webhook
    <3>3. CASE lateBy' = lateBy
      BY <3>2, <3>3, ReturnRun DEF LateInv, PastSuppressionCheck
    <3>4. CASE p \in suppressed /\ lateBy' = [lateBy EXCEPT ![p][w] = @ + 1]
      <4>1. lateBy'[p][w] = 1
        BY <3>1, <3>4 DEF TypeOK
      <4>2. \A q \in Phones, v \in Workers : v # w \/ q # p => lateBy'[q][v] = lateBy[q][v]
        BY <3>1, <3>4 DEF TypeOK
      <4>3. \A v \in Workers : PastSuppressionCheck(v)' =>
                v # w /\ PastSuppressionCheck(v) /\ run'[v] = run[v] /\ run[v].phone \in Phones
        BY <3>2, <1>0, ReturnRun DEF PastSuppressionCheck
      <4> HIDE DEF p
      <4> QED
        BY <3>1, <3>2, <3>4, <4>1, <4>2, <4>3 DEF LateInv
    <3> QED
      BY <2>5, <3>3, <3>4 DEF Send
  <2> QED
    BY <1>5, <2>1, <2>2, <2>3, <2>4, <2>5 DEF RunStep
<1>6. CASE UNCHANGED vars
  BY <1>1, <1>6 DEF vars
<1> QED
  BY <1>2, <1>3, <1>3a, <1>4, <1>5, <1>6 DEF Next

(***************************************************************************)
(* After a STOP each worker sends at most the one message whose            *)
(* suppression check it had passed, for any number of workers.             *)
(***************************************************************************)
THEOREM LateMessagesBounded == Spec => []OneLateMessagePerWorker
<1>1. Init => LateInv
  BY DEF Init, LateInv, PastSuppressionCheck, Idle
<1>2. LateInv => OneLateMessagePerWorker
  BY DEF LateInv, OneLateMessagePerWorker
<1> QED
  BY <1>1, <1>2, LateStep, OptOutTypes, PTL DEF Spec

-----------------------------------------------------------------------------
LEMMA StopStep == TypeOK /\ StopIsKept /\ [Next]_vars => StopIsKept'
<1> SUFFICES ASSUME TypeOK, StopIsKept, [Next]_vars PROVE StopIsKept'
  OBVIOUS
<1> USE OptOutAssumption
<1>1. CASE UNCHANGED <<recorded, told, suppressed, misread>>
  BY <1>1 DEF StopIsKept
<1>2. ASSUME NEW m \in Replies, HandleReply(m) PROVE StopIsKept'
  <2>1. suppressed \subseteq suppressed'
    BY <1>2 DEF HandleReply
  <2>2. IntentOf[m] = "stop" => SenderOf[m] \in suppressed'
    BY <1>2 DEF HandleReply
  <2>3. recorded' = recorded \cup {m} /\ \A r \in Replies \ {m} : told'[r] = told[r]
    BY <1>2 DEF HandleReply, Answer, Taken, TypeOK
  <2>4. misread' = misread \ {m}
    BY <1>2 DEF HandleReply
  <2> QED
    BY <2>1, <2>2, <2>3, <2>4 DEF StopIsKept
<1>3. ASSUME NEW m \in Replies, HandleDuplicate(m) PROVE StopIsKept'
  BY <1>1, <1>3 DEF HandleDuplicate
\* What is misread is exempt, unless an earlier delivery was understood.
<1>3a. ASSUME NEW m \in Replies, HandleMisread(m) PROVE StopIsKept'
  <2>1. /\ suppressed' = suppressed /\ misread' = misread \cup ({m} \ recorded)
        /\ recorded' \subseteq recorded \cup {m}
        /\ \A r \in Replies \ {m} : told'[r] = told[r]
    BY <1>3a DEF HandleMisread, Taken, TypeOK
  <2> QED
    BY <2>1 DEF StopIsKept
<1>4. ASSUME NEW p \in Phones, CreateConsent(p) PROVE StopIsKept'
  BY <1>1, <1>4 DEF CreateConsent, webhook
<1>5. ASSUME NEW w \in Workers, RunStep(w) PROVE StopIsKept'
  BY <1>1, <1>5 DEF RunStep, StartRun, CheckSuppression, CheckConsent, Throttle, Send, webhook
<1>6. CASE UNCHANGED vars
  BY <1>1, <1>6 DEF vars
<1> QED
  BY <1>2, <1>3, <1>3a, <1>4, <1>5, <1>6 DEF Next

(***************************************************************************)
(* A recorded or answered STOP keeps its sender on the suppression list,   *)
(* for any set of replies and any order of their deliveries.               *)
(***************************************************************************)
THEOREM StopsAreKept == Spec => []StopIsKept
<1>1. Init => StopIsKept
  BY DEF Init, StopIsKept
<1> QED
  BY <1>1, StopStep, OptOutTypes, PTL DEF Spec

-----------------------------------------------------------------------------
(***************************************************************************)
(* Audience, for any segments, campaigns and consents.  Every step of it   *)
(* is a step of OptOut or leaves what OptOut speaks of alone.              *)
(***************************************************************************)
LEMMA AudienceStepImplements == ASSUME [ANext]_avars PROVE [Next]_vars
<1>1. CASE DashboardStep
  BY <1>1 DEF DashboardStep, CreateSegment, CreateCampaign, GenerateSegmentMembers,
              CheckMember, CommitMembers, GenerationInterrupted, GenerateCampaignMembers, Keep
<1>2. ASSUME NEW w \in Workers, ARunStep(w) PROVE [Next]_vars
  <2>1. ASSUME NEW c \in Campaigns, NEW p \in Phones, StartJob(w, c, p) PROVE RunStep(w)
    BY <2>1, AudienceAssumption DEF StartJob, RunStep
  <2>2. RunStep(w)
    BY <1>2, <2>1 DEF ARunStep, StartTransactional, CheckPolicy, NotSent, Sent, RunStep
  <2> QED BY <2>2 DEF Next
<1>3. CASE \/ \E p \in Phones : ACreateConsent(p)
           \/ \E m \in Replies : Webhook(m)
  BY <1>3 DEF ACreateConsent, Webhook, Next
<1> QED
  BY <1>1, <1>2, <1>3 DEF ANext, avars

(***************************************************************************)
(* Audience implements OptOut: a STOP is kept, and at most one message is  *)
(* late, also where campaigns write to generated audiences.                *)
(***************************************************************************)
THEOREM AudienceImplements == ASpec => Spec
<1>1. AInit => Init
  BY DEF AInit
<1> QED
  BY <1>1, AudienceStepImplements, PTL DEF ASpec, Spec

LEMMA AudienceTypeCorrect == ASpec => []TypeOK
BY AudienceImplements, OptOutTypes, PTL

-----------------------------------------------------------------------------
(***************************************************************************)
(* The rows of the dashboard and the open generation.  Consents are only   *)
(* added, so that who is wanted once is wanted later.                      *)
(***************************************************************************)
Range(a, g) == g.owed \subseteq a /\ a \subseteq g.allowed
Open == generation.segment # NoSegment
RowTypes ==
    /\ eligible \subseteq consented
    /\ members \in [Segments -> SUBSET Phones] /\ audience \in [Campaigns -> SUBSET Phones]
    /\ complete \in [Segments -> SUBSET [owed: SUBSET Phones, allowed: SUBSET Phones]]
    /\ generation \in [segment: Segments \cup {NoSegment}, left: SUBSET Phones,
                       chosen: SUBSET Phones, owed: SUBSET Phones]
GenerationGoesOn == Open =>
    LET s == generation.segment IN
    /\ generation.chosen \subseteq Wanted(s) /\ generation.left \subseteq Matching[s]
    /\ generation.owed \subseteq generation.chosen \cup generation.left
    /\ generation.owed \subseteq Wanted(s)
MembersAreOneGeneration == \A s \in Segments :
    /\ members[s] \subseteq Wanted(s)
    /\ \E g \in complete[s] : Range(members[s], g)
AudienceIsWanted == \A c \in Campaigns :
    IF SegmentOf[c] = NoSegment THEN audience[c] = {} ELSE audience[c] \subseteq Wanted(SegmentOf[c])
RowInv ==
    /\ RowTypes /\ GenerationGoesOn /\ MembersAreOneGeneration /\ AudienceIsWanted
    /\ AudienceIsOneGeneration

LEMMA WantedGrows ==
    ASSUME eligible \subseteq eligible', NEW s PROVE Wanted(s) \subseteq Wanted(s)'
BY DEF Wanted

(***************************************************************************)
(* A step of another process only adds consents.                           *)
(***************************************************************************)
LEMMA RowFrame ==
    ASSUME RowInv, UNCHANGED <<members, audience, complete, generation>>,
           eligible \subseteq eligible', eligible' \subseteq consented'
    PROVE  RowInv'
<1>1. RowTypes'
  BY DEF RowInv, RowTypes
<1>2. GenerationGoesOn'
  BY WantedGrows DEF RowInv, GenerationGoesOn, Open
<1>3. MembersAreOneGeneration'
  BY WantedGrows DEF RowInv, MembersAreOneGeneration, Range
<1>4. AudienceIsWanted'
  BY WantedGrows DEF RowInv, AudienceIsWanted
<1>5. AudienceIsOneGeneration'
  BY DEF RowInv, AudienceIsOneGeneration
<1> QED BY <1>1, <1>2, <1>3, <1>4, <1>5 DEF RowInv

LEMMA DashboardRows == ASSUME TypeOK, RowInv, DashboardStep PROVE RowInv'
<1> USE AudienceAssumption DEF Keep, rows, vars
<1>0. /\ RowTypes /\ GenerationGoesOn /\ MembersAreOneGeneration /\ AudienceIsWanted
      /\ AudienceIsOneGeneration
  BY DEF RowInv
<1>1. UNCHANGED <<eligible, consented>> /\ \A s \in Segments : Wanted(s)' = Wanted(s)
  BY DEF DashboardStep, CreateSegment, CreateCampaign, GenerateSegmentMembers, CheckMember,
         CommitMembers, GenerationInterrupted, GenerateCampaignMembers, Wanted
<1>2. \A s \in Segments : Wanted(s) \subseteq Phones /\ Wanted(s) \subseteq Matching[s]
  BY DEF Wanted
<1>3. ASSUME NEW s \in Segments, CreateSegment(s) PROVE RowInv'
  BY <1>1, <1>3, RowFrame DEF CreateSegment, RowInv, RowTypes
<1>4. ASSUME NEW c \in Campaigns, CreateCampaign(c) PROVE RowInv'
  BY <1>1, <1>4, RowFrame DEF CreateCampaign, RowInv, RowTypes
<1>5. ASSUME UNCHANGED <<members, audience, complete>>, RowTypes', GenerationGoesOn'
      PROVE  RowInv'
  <2>1. MembersAreOneGeneration'
    BY <1>0, <1>1, <1>5 DEF MembersAreOneGeneration, Range
  <2>2. AudienceIsWanted' /\ AudienceIsOneGeneration'
    BY <1>0, <1>1, <1>5 DEF AudienceIsWanted, AudienceIsOneGeneration
  <2> QED BY <1>5, <2>1, <2>2 DEF RowInv
<1>6. ASSUME NEW s \in Segments, GenerateSegmentMembers(s) PROVE RowInv'
  <2>1. /\ generation' = [segment |-> s, left |-> Matching[s], chosen |-> {}, owed |-> Wanted(s)]
        /\ UNCHANGED <<members, audience, complete>>
    BY <1>6 DEF GenerateSegmentMembers
  <2>2. RowTypes'
    BY <1>0, <1>1, <1>2, <2>1 DEF RowTypes
  <2>3. GenerationGoesOn'
    BY <1>1, <1>2, <2>1 DEF GenerationGoesOn
  <2> QED BY <1>5, <2>1, <2>2, <2>3
<1>7. ASSUME NEW p \in Phones, CheckMember(p) PROVE RowInv'
  <2> DEFINE s == generation.segment
             chosen == IF p \in Wanted(s) THEN generation.chosen \cup {p} ELSE generation.chosen
             g == [generation EXCEPT !.left = @ \ {p}, !.chosen = chosen]
  <2>1. generation' = g /\ UNCHANGED <<members, audience, complete>> /\ p \in generation.left
    BY <1>7 DEF CheckMember
  <2>2. /\ g.segment = s /\ g.left = generation.left \ {p} /\ g.chosen = chosen
        /\ g.owed = generation.owed
        /\ g \in [segment: Segments \cup {NoSegment}, left: SUBSET Phones,
                  chosen: SUBSET Phones, owed: SUBSET Phones]
    BY <1>0 DEF RowTypes
  <2> HIDE DEF g
  <2>3. RowTypes'
    BY <1>0, <1>1, <2>1, <2>2 DEF RowTypes
  <2>4. ASSUME Open' PROVE GenerationGoesOn'
    <3>1. Open /\ s \in Segments /\ s' = s
      BY <1>0, <2>1, <2>2, <2>4 DEF Open, RowTypes
    <3>2. chosen \subseteq Wanted(s) /\ g.left \subseteq Matching[s]
      BY <1>0, <2>2, <3>1 DEF GenerationGoesOn
    <3>3. p \in generation.owed => p \in chosen
      <4>1. generation.owed \subseteq Wanted(s)
        BY <1>0, <3>1 DEF GenerationGoesOn
      <4> QED BY <4>1
    <3>4. g.owed \subseteq chosen \cup g.left
      BY <1>0, <2>2, <3>1, <3>3 DEF GenerationGoesOn
    <3>5. PICK t \in Segments : t = generation.segment /\ t = generation'.segment
      BY <2>1, <2>2, <3>1
    <3>6. Wanted(t)' = Wanted(t) /\ Wanted(t) = Wanted(s)
      BY <1>1, <3>5
    <3>7. /\ generation'.chosen \subseteq Wanted(t)'
          /\ generation'.owed \subseteq generation'.chosen \cup generation'.left
          /\ generation'.left \subseteq Matching[t] /\ generation'.owed \subseteq Wanted(t)'
      BY <1>0, <2>1, <2>2, <3>1, <3>2, <3>4, <3>5, <3>6 DEF GenerationGoesOn
    <3> QED BY <3>5, <3>7, <2>4 DEF GenerationGoesOn
  <2> QED BY <1>5, <2>1, <2>3, <2>4 DEF GenerationGoesOn
<1>8. CASE GenerationInterrupted
  <2>1. generation' = NoGeneration /\ UNCHANGED <<members, audience, complete>>
    BY <1>8 DEF GenerationInterrupted
  <2> QED BY <1>0, <1>1, <1>5, <2>1 DEF RowTypes, GenerationGoesOn, Open, NoGeneration
<1>9. CASE CommitMembers
  <2> DEFINE s == generation.segment
             h == [owed |-> generation.owed, allowed |-> Wanted(s)]
  <2>1. /\ s \in Segments /\ Open /\ generation.left = {} /\ generation' = NoGeneration
        /\ members' = [members EXCEPT ![s] = generation.chosen]
        /\ complete' = [complete EXCEPT ![s] = complete[s] \cup {h}]
        /\ UNCHANGED audience
    BY <1>0, <1>9 DEF CommitMembers, RowTypes, Open
  <2>2. /\ h \in [owed: SUBSET Phones, allowed: SUBSET Phones]
        /\ generation.chosen \subseteq Wanted(s) /\ generation.owed \subseteq generation.chosen
        /\ Range(generation.chosen, h)
    BY <1>0, <1>2, <2>1 DEF GenerationGoesOn, RowTypes, Range
  <2> HIDE DEF h
  <2>3. /\ members'[s] = generation.chosen /\ h \in complete'[s]
        /\ \A t \in Segments : complete[t] \subseteq complete'[t]
        /\ \A t \in Segments \ {s} : members'[t] = members[t]
    BY <1>0, <2>1 DEF RowTypes
  <2>4. RowTypes'
    BY <1>0, <1>1, <2>1, <2>2 DEF RowTypes, NoGeneration
  <2>5. GenerationGoesOn'
    BY <2>1 DEF GenerationGoesOn, Open, NoGeneration
  <2>6. MembersAreOneGeneration'
    BY <1>0, <1>1, <2>2, <2>3 DEF MembersAreOneGeneration, Range
  <2>7. AudienceIsWanted' /\ AudienceIsOneGeneration'
    BY <1>0, <1>1, <2>1, <2>3 DEF AudienceIsWanted, AudienceIsOneGeneration
  <2> QED BY <2>4, <2>5, <2>6, <2>7 DEF RowInv
<1>10. ASSUME NEW c \in Campaigns, GenerateCampaignMembers(c) PROVE RowInv'
  <2>1. /\ SegmentOf[c] \in Segments /\ audience' = [audience EXCEPT ![c] = members[SegmentOf[c]]]
        /\ UNCHANGED <<members, complete, generation>>
    BY <1>10 DEF GenerateCampaignMembers
  <2>2. /\ audience'[c] = members[SegmentOf[c]]
        /\ \A d \in Campaigns \ {c} : audience'[d] = audience[d]
    BY <1>0, <2>1 DEF RowTypes
  <2>3. RowTypes'
    BY <1>0, <1>1, <2>1 DEF RowTypes
  <2>4. GenerationGoesOn'
    BY <1>0, <1>1, <2>1 DEF GenerationGoesOn, Open, RowTypes
  <2>5. MembersAreOneGeneration'
    BY <1>0, <1>1, <2>1 DEF MembersAreOneGeneration, Range
  <2>6. AudienceIsWanted' /\ AudienceIsOneGeneration'
    BY <1>0, <1>1, <2>1, <2>2
       DEF AudienceIsWanted, AudienceIsOneGeneration, MembersAreOneGeneration, Range
  <2> QED BY <2>3, <2>4, <2>5, <2>6 DEF RowInv
<1> QED
  BY <1>3, <1>4, <1>6, <1>7, <1>8, <1>9, <1>10 DEF DashboardStep

LEMMA RowStep == ASSUME TypeOK, RowInv, [ANext]_avars PROVE RowInv'
<1>1. CASE DashboardStep
  BY <1>1, DashboardRows
<1>2. ASSUME NEW w \in Workers, ARunStep(w) PROVE RowInv'
  BY <1>2, RowFrame
     DEF ARunStep, StartJob, StartTransactional, CheckPolicy, NotSent, Sent, Recorded, StartRun,
         CheckSuppression, CheckConsent, Throttle, Send, RowInv, RowTypes, dashboard, rows, webhook
<1>3. ASSUME NEW p \in Phones, ACreateConsent(p) PROVE RowInv'
  <2>1. eligible \subseteq eligible' /\ eligible' \subseteq consented'
    BY <1>3 DEF ACreateConsent, CreateConsent, RowInv, RowTypes
  <2> QED BY <1>3, <2>1, RowFrame DEF ACreateConsent, dashboard, rows
<1>4. ASSUME NEW m \in Replies, Webhook(m) PROVE RowInv'
  BY <1>4, RowFrame
     DEF Webhook, HandleReply, HandleMisread, HandleDuplicate, policy, RowInv, RowTypes, dashboard, rows
<1>5. CASE UNCHANGED avars
  BY <1>5, RowFrame DEF avars, vars, dashboard, rows, RowInv, RowTypes
<1> QED BY <1>1, <1>2, <1>3, <1>4, <1>5 DEF ANext

LEMMA RowsStay == ASpec => []RowInv
<1>1. AInit => RowInv
  <2> SUFFICES ASSUME AInit PROVE RowInv
    OBVIOUS
  <2> USE AudienceAssumption DEF AInit
  <2>1. RowTypes /\ GenerationGoesOn
    BY DEF RowTypes, GenerationGoesOn, Open, NoGeneration, Init
  <2>2. MembersAreOneGeneration /\ AudienceIsWanted /\ AudienceIsOneGeneration
    BY DEF MembersAreOneGeneration, Range, AudienceIsWanted, AudienceIsOneGeneration
  <2> QED BY <2>1, <2>2 DEF RowInv
<1> QED BY <1>1, RowStep, AudienceTypeCorrect, PTL DEF ASpec

(***************************************************************************)
(* For any segments, campaigns and consents, an audience is what one whole *)
(* generation of its segment may choose.                                   *)
(***************************************************************************)
THEOREM AudienceChosen == ASpec => []AudienceIsOneGeneration
<1>1. RowInv => AudienceIsOneGeneration
  BY DEF RowInv
<1> QED BY <1>1, RowsStay, PTL

-----------------------------------------------------------------------------
(***************************************************************************)
(* A run that carries a campaign's job has a phone that the segment still  *)
(* wants, and past the policy a consent, unless it is a one-time password. *)
(***************************************************************************)
Takes(c, p) == c \in Campaigns /\ SegmentOf[c] \in Segments /\ p \in Wanted(SegmentOf[c])
JobRun(w) == run[w].pc # "idle" /\ job[w] # NoJob =>
    Takes(job[w].campaign, run[w].phone) /\ run[w].category = CategoryOf[job[w].campaign]
Allowed(w) == run[w].pc = "allowed" => run[w].phone \in consented \/ run[w].category = "otp"
Consented(m) == Takes(m[1], m[2]) /\ (CategoryOf[m[1]] # "otp" => m[2] \in consented)
RunInv ==
    /\ DOMAIN job = Workers /\ job = [w \in Workers |-> job[w]]
    /\ \A w \in Workers : JobRun(w) /\ Allowed(w)
    /\ \A m \in reached : Consented(m)

\* What a run of another kind of step keeps.
LEMMA RunFrame ==
    ASSUME RunInv, eligible \subseteq eligible', consented \subseteq consented',
           UNCHANGED <<run, job, reached>>
    PROVE  RunInv'
<1>1. \A c, p : Takes(c, p) => Takes(c, p)'
  BY WantedGrows DEF Takes
<1>2. \A w \in Workers : JobRun(w)' /\ Allowed(w)'
  BY <1>1 DEF RunInv, JobRun, Allowed
<1>3. \A m \in reached' : Consented(m)'
  BY <1>1 DEF RunInv, Consented
<1> QED BY <1>2, <1>3 DEF RunInv

\* One worker's step: it is enough to look at that worker.
LEMMA OneRun ==
    ASSUME RunInv, NEW w \in Workers, UNCHANGED <<eligible, consented, reached>>,
           \A v \in Workers \ {w} : run'[v] = run[v], NEW j, job' = [job EXCEPT ![w] = j],
           run'[w].pc # "idle" /\ j # NoJob =>
               /\ Takes(j.campaign, run'[w].phone)
               /\ run'[w].category = CategoryOf[j.campaign],
           run'[w].pc = "allowed" => run'[w].phone \in consented \/ run'[w].category = "otp"
    PROVE  RunInv'
<1>1. \A c, p : Takes(c, p) <=> Takes(c, p)'
  BY DEF Takes, Wanted
<1>2. DOMAIN job' = Workers /\ job' = [v \in Workers |-> job'[v]] /\ job'[w] = j
      /\ \A v \in Workers \ {w} : job'[v] = job[v]
  BY DEF RunInv
<1>3. ASSUME NEW v \in Workers PROVE JobRun(v)' /\ Allowed(v)'
  <2>1. CASE v = w
    BY <1>1, <1>2, <2>1 DEF JobRun, Allowed
  <2>2. CASE v # w
    BY <1>1, <1>2, <2>2 DEF RunInv, JobRun, Allowed
  <2> QED BY <2>1, <2>2
<1>4. \A m \in reached' : Consented(m)'
  BY <1>1 DEF RunInv, Consented
<1> QED BY <1>2, <1>3, <1>4 DEF RunInv

LEMMA StartJobRun ==
    ASSUME TypeOK, RowInv, RunInv, NEW w \in Workers, NEW c \in Campaigns, NEW p \in Phones,
           StartJob(w, c, p)
    PROVE  RunInv'
<1>1. Takes(c, p)
  BY AudienceAssumption DEF StartJob, RowInv, AudienceIsWanted, Takes
<1> DEFINE j == [campaign |-> c, round |-> round[c]]
           r == [pc |-> "started", phone |-> p, category |-> CategoryOf[c]]
<1>2. run' = [run EXCEPT ![w] = r] /\ job' = [job EXCEPT ![w] = j]
      /\ UNCHANGED <<eligible, consented, reached>>
  BY DEF StartJob, StartRun
<1>3. /\ run'[w] = r /\ \A v \in Workers \ {w} : run'[v] = run[v]
      /\ r.pc = "started" /\ r.phone = p /\ r.category = CategoryOf[c] /\ j.campaign = c
  BY <1>2 DEF TypeOK
<1> HIDE DEF j, r
<1> QED BY <1>1, <1>2, <1>3, OneRun

LEMMA StartTransactionalRun ==
    ASSUME TypeOK, RunInv, NEW w \in Workers, NEW p \in Phones, NEW category \in Categories,
           StartTransactional(w, p, category)
    PROVE  RunInv'
<1> DEFINE r == [pc |-> "started", phone |-> p, category |-> category]
<1>1. run' = [run EXCEPT ![w] = r] /\ job' = [job EXCEPT ![w] = NoJob]
      /\ UNCHANGED <<eligible, consented, reached>>
  BY DEF StartTransactional, StartRun
<1>2. run'[w] = r /\ r.pc = "started" /\ \A v \in Workers \ {w} : run'[v] = run[v]
  BY <1>1 DEF TypeOK
<1> HIDE DEF r
<1> QED BY <1>1, <1>2, OneRun

\* A step that goes on keeps the phone, the category and the job; one that
\* returns leaves the worker idle.
LEMMA LeaveRun ==
    ASSUME TypeOK, RunInv, NEW w \in Workers, run[w].pc # "idle",
           UNCHANGED <<eligible, consented, reached>>, Leave(w),
           \/ Return(w)
           \/ Goto(w, "unsuppressed")
           \/ Goto(w, "allowed") /\ (run[w].phone \in consented \/ run[w].category = "otp")
    PROVE  RunInv'
<1>1. run[w] \in Busy
  BY DEF TypeOK, Runs, Idle
<1>2. /\ \A v \in Workers \ {w} : run'[v] = run[v]
      /\ \/ run'[w] = Idle
         \/ /\ run'[w].phone = run[w].phone /\ run'[w].category = run[w].category
            /\ run'[w].pc \in {"unsuppressed", "allowed"}
            /\ run'[w].pc = "allowed" => run[w].phone \in consented \/ run[w].category = "otp"
  BY <1>1 DEF TypeOK, Return, Goto, Busy
<1> DEFINE j == IF run'[w] = Idle THEN NoJob ELSE job[w]
<1>3. job' = [job EXCEPT ![w] = j]
  BY DEF Leave
<1>4. run'[w].pc # "idle" /\ j # NoJob =>
          Takes(j.campaign, run'[w].phone) /\ run'[w].category = CategoryOf[j.campaign]
  BY <1>2 DEF Idle, RunInv, JobRun
<1>5. run'[w].pc = "allowed" => run'[w].phone \in consented \/ run'[w].category = "otp"
  BY <1>2 DEF Idle
<1> HIDE DEF j
<1> QED BY <1>2, <1>3, <1>4, <1>5, OneRun

LEMMA SentRun ==
    ASSUME TypeOK, RunInv, NEW w \in Workers, Sent(w)
    PROVE  RunInv'
<1>1. /\ UNCHANGED <<eligible, consented>> /\ Return(w) /\ run[w].pc = "allowed" /\ Leave(w)
      /\ reached' = IF job[w] = NoJob THEN reached
                    ELSE reached \cup {<<job[w].campaign, run[w].phone>>}
  BY DEF Sent, Send, webhook, Recorded
<1>2. \A c, p : Takes(c, p) <=> Takes(c, p)'
  BY <1>1 DEF Takes, Wanted
<1>3. \A m \in reached' : Consented(m)'
  <2>1. ASSUME NEW m \in reached PROVE Consented(m)'
    BY <1>1, <1>2, <2>1 DEF RunInv, Consented
  <2>2. CASE job[w] # NoJob
    <3>1. ASSUME NEW m, m = <<job[w].campaign, run[w].phone>> PROVE Consented(m)'
      BY <1>1, <1>2, <2>2, <3>1 DEF RunInv, JobRun, Allowed, Consented
    <3> QED BY <1>1, <2>1, <2>2, <3>1
  <2> QED BY <1>1, <2>1, <2>2
<1>4. /\ run'[w] = Idle /\ \A v \in Workers \ {w} : run'[v] = run[v]
      /\ job' = [job EXCEPT ![w] = NoJob]
  BY <1>1 DEF Return, Leave, TypeOK
<1>5. \A v \in Workers : JobRun(v)' /\ Allowed(v)'
  BY <1>1, <1>2, <1>4 DEF RunInv, JobRun, Allowed, Idle
<1> QED BY <1>3, <1>4, <1>5 DEF RunInv

LEMMA RunStay == ASSUME TypeOK, RowInv, [ANext]_avars, RunInv PROVE RunInv'
<1>1. CASE DashboardStep
  BY <1>1, RunFrame
     DEF DashboardStep, CreateSegment, CreateCampaign, GenerateSegmentMembers, CheckMember,
         CommitMembers, GenerationInterrupted, GenerateCampaignMembers, Keep, vars
<1>2. ASSUME NEW w \in Workers, ARunStep(w) PROVE RunInv'
  <2>1. CASE CheckPolicy(w)
    <3>1. /\ UNCHANGED <<eligible, consented, reached>> /\ Leave(w)
          /\ run[w].pc \in {"started", "unsuppressed"}
          /\ \/ Return(w) \/ Goto(w, "unsuppressed")
             \/ Goto(w, "allowed") /\ (run[w].phone \in consented \/ run[w].category = "otp")
      BY <2>1 DEF CheckPolicy, CheckSuppression, CheckConsent, webhook
    <3> QED BY <3>1, LeaveRun
  <2>2. CASE NotSent(w)
    BY <2>2, LeaveRun DEF NotSent, Throttle, Recorded, webhook
  <2> QED
    BY <1>2, <2>1, <2>2, StartJobRun, StartTransactionalRun, SentRun DEF ARunStep
<1>3. ASSUME NEW p \in Phones, ACreateConsent(p) PROVE RunInv'
  BY <1>3, RunFrame DEF ACreateConsent, CreateConsent, dashboard
<1>4. ASSUME NEW m \in Replies, Webhook(m) PROVE RunInv'
  BY <1>4, RunFrame DEF Webhook, HandleReply, HandleMisread, HandleDuplicate, policy
<1>5. CASE UNCHANGED avars
  BY <1>5, RunFrame DEF avars, vars
<1> QED BY <1>1, <1>2, <1>3, <1>4, <1>5 DEF ANext

(***************************************************************************)
(* For any segments, campaigns, consents and workers, a campaign reaches   *)
(* only its segment, and nobody without the consent that is asked for.     *)
(***************************************************************************)
THEOREM CampaignsReach == ASpec => []CampaignReachesConsented
<1>1. AInit => RunInv
  BY DEF AInit, Init, RunInv, JobRun, Allowed, NoJob, Idle
<1>2. RunInv => CampaignReachesConsented
  BY DEF RunInv, CampaignReachesConsented, Consented, Takes, Wanted
<1> QED BY <1>1, <1>2, RunStay, RowsStay, AudienceTypeCorrect, PTL DEF ASpec
=============================================================================

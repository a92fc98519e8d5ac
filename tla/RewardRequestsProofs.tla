------------------------ MODULE RewardRequestsProofs ------------------------
(***************************************************************************)
(* Proofs about RewardRequests, for every set of users, rewards, requests  *)
(* and handlers.                                                           *)
(***************************************************************************)
EXTENDS RewardRequests, FiniteSetTheorems, FunctionTheorems, TLAPS

-----------------------------------------------------------------------------
(***************************************************************************)
(* Types                                                                   *)
(***************************************************************************)

\* What the program counter of a handler says about its locals.
LEMMA CallShape ==
    ASSUME TypeOK, NEW h \in Handlers
    PROVE  /\ call[h].pc \in {"findRewards", "findExisting", "save"}
                => call[h] \in Submission
           /\ call[h].pc \in {"issueRead", "issue", "count", "write"}
                => /\ call[h] \in Decision
                   /\ call[h].id \in DOMAIN requests
           /\ call[h] # Idle => call[h] \in Submission \cup Decision
  BY DEF TypeOK, Submission, Decision, Idle

\* Moving to another await point keeps the locals.
LEMMA MoveSubmission ==
    ASSUME NEW c \in Submission, NEW pc \in {"findRewards", "findExisting", "save"}
    PROVE  [c EXCEPT !.pc = pc] \in Submission
  BY DEF Submission

LEMMA MoveDecision ==
    ASSUME NEW c \in Decision, NEW pc \in {"issueRead", "issue", "count", "write"}
    PROVE  /\ [c EXCEPT !.pc = pc] \in Decision
           /\ [c EXCEPT !.pc = pc].id = c.id
  BY DEF Decision

\* The two ways in which a handler's step leaves the types of call intact.
LEMMA GotoType ==
    ASSUME TypeOK, NEW h \in Handlers, NEW pc, Goto(h, pc),
           \/ call[h] \in Submission /\ pc \in {"findRewards", "findExisting", "save"}
           \/ call[h] \in Decision /\ pc \in {"issueRead", "issue", "count", "write"}
    PROVE  /\ call' \in [Handlers -> {Idle} \cup Submission \cup Decision]
           /\ \A g \in Handlers : call'[g] \in Decision => call'[g].id \in DOMAIN requests
<1>1. call' = [call EXCEPT ![h] = [call[h] EXCEPT !.pc = pc]]
  BY DEF Goto, TypeOK
<1>2. CASE call[h] \in Submission /\ pc \in {"findRewards", "findExisting", "save"}
  <2>1. [call[h] EXCEPT !.pc = pc] \in Submission
    BY <1>2, MoveSubmission
  <2> QED
    BY <1>1, <2>1 DEF TypeOK, Submission, Decision
<1>3. CASE call[h] \in Decision /\ pc \in {"issueRead", "issue", "count", "write"}
  <2>1. [call[h] EXCEPT !.pc = pc] \in Decision /\ [call[h] EXCEPT !.pc = pc].id = call[h].id
    BY <1>3, MoveDecision
  <2> QED
    BY <1>1, <1>3, <2>1 DEF TypeOK
<1> QED
  BY <1>2, <1>3

LEMMA ReturnType ==
    ASSUME TypeOK, NEW h \in Handlers, Return(h)
    PROVE  /\ call' \in [Handlers -> {Idle} \cup Submission \cup Decision]
           /\ \A g \in Handlers : call'[g] \in Decision => call'[g].id \in DOMAIN requests
  BY DEF TypeOK, Return, Decision, Idle

LEMMA IncrementType ==
    ASSUME NEW S, NEW f \in [S -> Nat], NEW x
    PROVE  [f EXCEPT ![x] = @ + 1] \in [S -> Nat]
<1>1. CASE x \in S
  BY <1>1
<1>2. CASE x \notin S
  <2>1. \A v : [f EXCEPT ![x] = v] = f
    BY <1>2
  <2> QED
    BY <2>1
<1> QED
  BY <1>1, <1>2

\* Every reachable state is well typed: the documents keep their shape and each
\* decision in flight is about a stored request.
THEOREM TypeCorrect == Spec => []TypeOK
<1>1. Init => TypeOK
  BY InputAssumption DEF Init, TypeOK, RewardRequest, Decision, Idle
<1>2. TypeOK /\ [Next]_vars => TypeOK'
  <2> SUFFICES ASSUME TypeOK, [Next]_vars
               PROVE  TypeOK'
    OBVIOUS
  <2> USE InputAssumption
  <2>1. ASSUME NEW h \in Handlers, NEW u \in Users, NEW e \in Events,
               NEW ids \in RewardLists, NEW d \in Evidence,
               CreateRewardRequest(h, u, e, ids, d)
        PROVE  TypeOK'
    BY <2>1 DEF TypeOK, CreateRewardRequest, Submission, Decision, Idle, history
  <2>2. ASSUME NEW h \in Handlers, NEW q \in RequestIds,
               NEW to \in OperatorStatuses,
               UpdateRewardRequest(h, q, to)
        PROVE  TypeOK'
    <3>1. to \in RequestStatus \cup {NoStatus}
      BY DEF RequestStatus
    <3>2. reopened' \subseteq DOMAIN requests'
      BY <2>2 DEF TypeOK, UpdateRewardRequest
    <3> QED
      BY <2>2, <3>1, <3>2
      DEF TypeOK, UpdateRewardRequest, AfterRead, Submission, Decision
  <2>3. ASSUME NEW h \in Handlers, FindRewards(h)
        PROVE  TypeOK'
    BY <2>3, CallShape, GotoType, ReturnType DEF TypeOK, FindRewards, history
  <2>4. ASSUME NEW h \in Handlers, FindExisting(h)
        PROVE  TypeOK'
    BY <2>4, CallShape, GotoType, ReturnType DEF TypeOK, FindExisting, history
  <2>5. ASSUME NEW h \in Handlers, NEW q \in RequestIds, SaveRequest(h, q)
        PROVE  TypeOK'
    <3>1. NewRequest(call[h]) \in RewardRequest
      BY <2>5, CallShape
      DEF SaveRequest, NewRequest, RewardRequest, Submission, RequestStatus
    <3> QED
      BY <2>5, <3>1, ReturnType DEF TypeOK, SaveRequest, history
  <2>6. ASSUME NEW h \in Handlers, IssueRewards(h)
        PROVE  TypeOK'
    BY <2>6, CallShape, GotoType DEF TypeOK, IssueRewards, AfterReread, history
  <2>7. ASSUME NEW h \in Handlers, IssueReward(h)
        PROVE  TypeOK'
    <3>1. call[h] \in Decision /\ call[h].id \in DOMAIN requests
      BY <2>7, CallShape DEF IssueReward
    <3> DEFINE f == userRewards[call[h].id]
               x == IdsOf(h)[call[h].next]
    <3>2. userRewards' \in [RequestIds -> [Rewards -> Nat]]
      <4>1. f \in [Rewards -> Nat]
        BY <3>1 DEF TypeOK
      <4>2. [f EXCEPT ![x] = @ + 1] \in [Rewards -> Nat]
        BY <4>1, IncrementType
      <4>3. userRewards' = [userRewards EXCEPT ![call[h].id] = [f EXCEPT ![x] = @ + 1]]
        BY <2>7 DEF IssueReward
      <4> QED
        BY <4>2, <4>3 DEF TypeOK
    <3> DEFINE c == [pc |-> AfterIssue(h), id |-> call[h].id,
                     to |-> call[h].to, next |-> call[h].next + 1]
    <3>3. c \in Decision /\ c.id = call[h].id
      BY <3>1 DEF Decision, AfterIssue
    <3>4. call' = [call EXCEPT ![h] = c]
      BY <2>7 DEF IssueReward
    <3> HIDE DEF c
    <3>5. call' \in [Handlers -> {Idle} \cup Submission \cup Decision]
      BY <3>3, <3>4 DEF TypeOK
    <3>6. \A g \in Handlers : call'[g] \in Decision => call'[g].id \in DOMAIN requests
      BY <3>1, <3>3, <3>4 DEF TypeOK
    <3> QED
      BY <2>7, <3>2, <3>5, <3>6 DEF TypeOK, IssueReward, history
  <2>8. ASSUME NEW h \in Handlers, CountIssued(h)
        PROVE  TypeOK'
    BY <2>8, CallShape, GotoType DEF TypeOK, CountIssued, Incremented, history
  <2>9. ASSUME NEW h \in Handlers, CountFails(h)
        PROVE  TypeOK'
    BY <2>9, ReturnType DEF TypeOK, CountFails, Incremented, history
  <2>10. ASSUME NEW h \in Handlers, WriteStatus(h)
         PROVE  TypeOK'
    <3>1. call[h] \in Decision /\ call[h].id \in DOMAIN requests
      BY <2>10, CallShape DEF WriteStatus
    <3>2. requests' \in [DOMAIN requests -> RewardRequest]
      <4> DEFINE d == [requests[call[h].id] EXCEPT !.status = Written(@, call[h].to)]
      <4>1. Written(requests[call[h].id].status, call[h].to) \in RequestStatus
        BY <3>1 DEF TypeOK, RewardRequest, Decision, Written
      <4>2. d \in RewardRequest
        BY <3>1, <4>1, ZenonT(60) DEF TypeOK, RewardRequest
      <4>3. requests' = [requests EXCEPT ![call[h].id] = d]
        BY <2>10 DEF WriteStatus
      <4> QED
        BY <4>2, <4>3 DEF TypeOK
    <3> QED
      BY <2>10, <3>1, <3>2, ReturnType DEF TypeOK, WriteStatus, history
  <2>11. ASSUME NEW h \in Handlers, Fail(h)
         PROVE  TypeOK'
    BY <2>11, ReturnType DEF TypeOK, Fail, history
  <2>12. ASSUME NEW e \in Events, NEW s \in EventStates, ChangeEvent(e, s)
         PROVE  TypeOK'
    BY <2>12 DEF TypeOK, ChangeEvent, history
  <2>13. ASSUME NEW r \in Rewards, NEW dto \in RewardEdits, UpdateReward(r, dto)
         PROVE  TypeOK'
    BY <2>13 DEF TypeOK, UpdateReward
  <2>14. CASE Tick
    BY <2>14 DEF TypeOK, Tick, history
  <2>15. CASE UNCHANGED vars
    BY <2>15 DEF TypeOK, vars, history
  <2> QED
    BY <2>1, <2>2, <2>3, <2>4, <2>5, <2>6, <2>7, <2>8, <2>9, <2>10, <2>11,
       <2>12, <2>13, <2>14, <2>15 DEF Next, HandlerStep
<1> QED
  BY <1>1, <1>2, PTL DEF Spec

-----------------------------------------------------------------------------
(***************************************************************************)
(* Approved requests are issued                                            *)
(***************************************************************************)
\* What an approval in flight has issued by the time it awaits each call.
ProgressOf(h) ==
    /\ call[h].pc \in {"issueRead", "issue", "count"} => call[h].to = "APPROVED"
    /\ call[h].pc = "issueRead" => call[h].next = 1
    /\ call[h].pc = "issue" =>
          \A i \in DOMAIN IdsOf(h) :
              i < call[h].next => userRewards[call[h].id][IdsOf(h)[i]] > 0
    /\ call[h].pc = "count" => AllIssued(call[h].id)
    /\ call[h].pc = "write" /\ call[h].to = "APPROVED" =>
          AllIssued(call[h].id) \/ call[h].id \in reopened

\* The strengthening of ApprovedIsIssued: an APPROVED status is only written by
\* a handler that issued the rewards, or read APPROVED itself, or reopened the
\* request.
IssueInv ==
    /\ \A q \in DOMAIN requests :
          requests[q].status = "APPROVED" => AllIssued(q) \/ q \in reopened
    /\ \A h \in Handlers : call[h] \in Decision => ProgressOf(h)

\* No step takes a UserReward away, changes what a stored request asks for or
\* forgets that it was reopened.
RewardsKept ==
    /\ reopened \subseteq reopened'
    /\ \A q \in DOMAIN requests :
          q \in DOMAIN requests' /\ requests'[q].rewardIds = requests[q].rewardIds
    /\ \A q \in DOMAIN requests, r \in Rewards :
          userRewards'[q][r] >= userRewards[q][r]

LEMMA RewardSetType ==
    ASSUME TypeOK, NEW q \in DOMAIN requests
    PROVE  /\ requests[q].rewardIds \in Seq(Rewards)
           /\ Len(requests[q].rewardIds) \in Nat
           /\ DOMAIN requests[q].rewardIds = 1..Len(requests[q].rewardIds)
           /\ \A i \in DOMAIN requests[q].rewardIds : requests[q].rewardIds[i] \in Rewards
           /\ RewardSet(requests[q].rewardIds) \subseteq Rewards
<1>1. requests[q].rewardIds \in Seq(Rewards)
  BY InputAssumption DEF TypeOK, RewardRequest
<1> QED
  BY <1>1 DEF RewardSet

LEMMA AllIssuedKept ==
    ASSUME TypeOK, TypeOK', RewardsKept, NEW q \in DOMAIN requests, AllIssued(q)
    PROVE  AllIssued(q)'
<1> SUFFICES ASSUME NEW r \in RewardSet(requests[q].rewardIds)
             PROVE  userRewards'[q][r] > 0
  BY DEF AllIssued, RewardsKept, RewardSet
<1>1. userRewards[q][r] > 0 /\ r \in Rewards
  BY RewardSetType DEF AllIssued
<1>2. userRewards'[q][r] >= userRewards[q][r]
  BY <1>1 DEF RewardsKept
<1>3. userRewards[q][r] \in Nat /\ userRewards'[q][r] \in Nat
  BY <1>1, SMTT(60) DEF TypeOK, RewardsKept
<1> QED
  BY <1>1, <1>2, <1>3

\* A handler that a step leaves alone keeps its progress.
LEMMA ProgressKept ==
    ASSUME TypeOK, TypeOK', RewardsKept, NEW g \in Handlers,
           call'[g] = call[g], call[g] \in Decision, ProgressOf(g)
    PROVE  ProgressOf(g)'
<1>1. call[g].id \in DOMAIN requests
  BY DEF TypeOK
<1>2. IdsOf(g)' = IdsOf(g)
  BY <1>1 DEF RewardsKept, IdsOf
<1>3. AllIssued(call[g].id) => AllIssued(call[g].id)'
  BY <1>1, AllIssuedKept
<1>4. ASSUME call[g].pc = "issue", NEW i \in DOMAIN IdsOf(g), i < call[g].next
      PROVE  userRewards'[call[g].id][IdsOf(g)[i]] > 0
  <2>1. IdsOf(g)[i] \in Rewards
    BY <1>1, <1>4, RewardSetType DEF IdsOf
  <2>2. userRewards[call[g].id][IdsOf(g)[i]] > 0
    BY <1>4 DEF ProgressOf
  <2>3. userRewards'[call[g].id][IdsOf(g)[i]] >= userRewards[call[g].id][IdsOf(g)[i]]
    BY <1>1, <2>1 DEF RewardsKept
  <2>4. /\ userRewards[call[g].id][IdsOf(g)[i]] \in Nat
        /\ userRewards'[call[g].id][IdsOf(g)[i]] \in Nat
    BY <1>1, <2>1 DEF TypeOK, RewardsKept
  <2> QED
    BY <2>2, <2>3, <2>4
<1>5. reopened \subseteq reopened'
  BY DEF RewardsKept
<1> QED
  BY <1>2, <1>3, <1>4, <1>5 DEF ProgressOf, AllIssued, IdsOf

LEMMA StepKeepsRewards ==
    ASSUME TypeOK, [Next]_vars
    PROVE  RewardsKept
<1>1. \A q \in DOMAIN requests, r \in Rewards : userRewards[q][r] \in Nat
  BY DEF TypeOK
<1>2. ASSUME UNCHANGED <<requests, userRewards>>, reopened \subseteq reopened'
      PROVE  RewardsKept
  BY <1>1, <1>2 DEF RewardsKept
<1>3. ASSUME NEW h \in Handlers, NEW q \in RequestIds, SaveRequest(h, q)
      PROVE  RewardsKept
  BY <1>1, <1>3 DEF RewardsKept, SaveRequest, history
<1>4. ASSUME NEW h \in Handlers, IssueReward(h)
      PROVE  RewardsKept
  <2> DEFINE f == userRewards[call[h].id]
             x == IdsOf(h)[call[h].next]
  <2>1. userRewards' = [userRewards EXCEPT ![call[h].id] = [f EXCEPT ![x] = @ + 1]]
    BY <1>4 DEF IssueReward
  <2>2. call[h].id \in DOMAIN requests /\ call[h].id \in RequestIds
    BY <1>4, CallShape DEF IssueReward, TypeOK
  <2>3. \A r \in Rewards : f[r] \in Nat /\ [f EXCEPT ![x] = @ + 1][r] >= f[r]
    BY <1>1, <2>2 DEF TypeOK
  <2> HIDE DEF x
  <2> QED
    BY <1>1, <1>4, <2>1, <2>2, <2>3 DEF RewardsKept, IssueReward, TypeOK, history
<1>5. ASSUME NEW h \in Handlers, WriteStatus(h)
      PROVE  RewardsKept
  <2>1. requests[call[h].id] \in RewardRequest
    BY <1>5, CallShape DEF WriteStatus, TypeOK
  <2> QED
    BY <1>1, <1>5, <2>1 DEF RewardsKept, WriteStatus, TypeOK, RewardRequest, history
<1> QED
  BY <1>2, <1>3, <1>4, <1>5
  DEF Next, HandlerStep, vars, history, CreateRewardRequest, UpdateRewardRequest,
      FindRewards, FindExisting, IssueRewards, CountIssued, CountFails, Fail,
      ChangeEvent, UpdateReward, Tick

\* The step of a handler other than g leaves what g remembers alone, and so does
\* a step of the environment: what is left to show is the handler that moves.
LEMMA OneHandlerMoves ==
    ASSUME TypeOK, TypeOK', RewardsKept, IssueInv, NEW h \in Handlers,
           \A g \in Handlers \ {h} : call'[g] = call[g],
           call'[h] \in Decision => ProgressOf(h)'
    PROVE  \A g \in Handlers : call'[g] \in Decision => ProgressOf(g)'
  BY ProgressKept DEF IssueInv

LEMMA ApprovedKept ==
    ASSUME TypeOK, TypeOK', RewardsKept, IssueInv,
           \A q \in DOMAIN requests' :
              requests'[q].status = "APPROVED" =>
                 q \in DOMAIN requests /\ requests[q].status = "APPROVED"
    PROVE  \A q \in DOMAIN requests' :
              requests'[q].status = "APPROVED" => AllIssued(q)' \/ q \in reopened'
  BY AllIssuedKept DEF IssueInv, RewardsKept

LEMMA IssueInvStep ==
    ASSUME TypeOK, TypeOK', IssueInv, [Next]_vars
    PROVE  IssueInv'
<1>0. RewardsKept
  BY StepKeepsRewards
<1>1. ASSUME NEW h \in Handlers,
             \/ \E u \in Users, e \in Events, ids \in RewardLists, d \in Evidence :
                   CreateRewardRequest(h, u, e, ids, d)
             \/ FindRewards(h) \/ FindExisting(h)
             \/ CountFails(h) \/ Fail(h)
      PROVE  IssueInv'
  <2>1. UNCHANGED requests /\ \A g \in Handlers \ {h} : call'[g] = call[g]
    BY <1>1 DEF TypeOK, CreateRewardRequest, FindRewards, FindExisting, CountFails,
                Fail, Goto, Return
  <2>2. call'[h] \notin Decision
    BY <1>1, CallShape
    DEF TypeOK, CreateRewardRequest, FindRewards, FindExisting, CountFails,
        Fail, Goto, Return, Submission, Decision, Idle
  <2> QED
    BY <1>0, <2>1, <2>2, OneHandlerMoves, ApprovedKept DEF IssueInv
<1>2. ASSUME NEW h \in Handlers, NEW q \in RequestIds, SaveRequest(h, q)
      PROVE  IssueInv'
  <2>1. \A g \in Handlers \ {h} : call'[g] = call[g]
    BY <1>2 DEF TypeOK, SaveRequest, Return
  <2>2. call'[h] \notin Decision
    BY <1>2 DEF TypeOK, SaveRequest, Return, Decision, Idle
  <2>3. \A x \in DOMAIN requests' :
           requests'[x].status = "APPROVED" =>
              x \in DOMAIN requests /\ requests[x].status = "APPROVED"
    BY <1>2 DEF SaveRequest, NewRequest
  <2> QED
    BY <1>0, <2>1, <2>2, <2>3, OneHandlerMoves, ApprovedKept DEF IssueInv
<1>3. ASSUME NEW h \in Handlers, NEW q \in RequestIds,
             NEW to \in OperatorStatuses, UpdateRewardRequest(h, q, to)
      PROVE  IssueInv'
  <2>1. UNCHANGED <<requests, userRewards>> /\ \A g \in Handlers \ {h} : call'[g] = call[g]
    BY <1>3 DEF TypeOK, UpdateRewardRequest
  <2>2. /\ call'[h].id = q /\ call'[h].to = to /\ call'[h].next = 1
        /\ call'[h].pc = AfterRead(requests[q].status, to)
    BY <1>3 DEF TypeOK, UpdateRewardRequest
  <2>3. to = "APPROVED" => requests[q].status \in OpenStatuses \/ q \in reopened'
    BY <1>3 DEF UpdateRewardRequest, Reopens, OpenStatuses
  <2>4. ProgressOf(h)'
    BY <1>0, <1>3, <2>1, <2>2, <2>3
    DEF IssueInv, ProgressOf, AfterRead, AllIssued, OpenStatuses, UpdateRewardRequest,
        RewardsKept
  <2> QED
    BY <1>0, <2>1, <2>4, OneHandlerMoves, ApprovedKept DEF IssueInv
<1>4. ASSUME NEW h \in Handlers, IssueRewards(h)
      PROVE  IssueInv'
  <2>1. UNCHANGED <<requests, userRewards>> /\ \A g \in Handlers \ {h} : call'[g] = call[g]
    BY <1>4 DEF TypeOK, IssueRewards, Goto
  <2>2. call[h] \in Decision /\ call[h].id \in DOMAIN requests
    BY <1>4, CallShape DEF IssueRewards
  <2>3. ProgressOf(h)
    BY <2>2 DEF IssueInv
  <2>4. /\ call'[h].id = call[h].id /\ call'[h].to = call[h].to
        /\ call'[h].next = call[h].next
        /\ call'[h].pc = AfterReread(requests[call[h].id].status)
    BY <1>4, <2>2 DEF TypeOK, IssueRewards, Goto, Decision
  <2>5. IdsOf(h)' = IdsOf(h) /\ \A i \in DOMAIN IdsOf(h) : ~(i < 1)
    BY <2>1, <2>2, <2>4, RewardSetType DEF IdsOf
  <2>6. requests[call[h].id].status = "APPROVED" =>
           AllIssued(call[h].id)' \/ call[h].id \in reopened'
    BY <1>0, <2>1, <2>2, <2>4 DEF IssueInv, AllIssued, RewardsKept
  <2>7. call[h].to = "APPROVED" /\ call[h].next = 1
    BY <1>4, <2>3 DEF IssueRewards, ProgressOf
  <2>8. ProgressOf(h)'
    BY <2>4, <2>5, <2>6, <2>7 DEF ProgressOf, AfterReread
  <2> QED
    BY <1>0, <2>1, <2>8, OneHandlerMoves, ApprovedKept DEF IssueInv
<1>5. ASSUME NEW h \in Handlers, IssueReward(h)
      PROVE  IssueInv'
  <2>1. UNCHANGED requests /\ \A g \in Handlers \ {h} : call'[g] = call[g]
    BY <1>5 DEF TypeOK, IssueReward
  <2>2. call[h] \in Decision /\ call[h].id \in DOMAIN requests /\ call[h].next \in Nat
    BY <1>5, CallShape, SMTT(60) DEF IssueReward, Decision
  <2> DEFINE q == call[h].id
             n == call[h].next
             ids == IdsOf(h)
  <2>3. /\ call'[h].id = q /\ call'[h].to = call[h].to /\ call'[h].next = n + 1
        /\ call'[h].pc = AfterIssue(h) /\ IdsOf(h)' = ids
    BY <1>5, <2>1 DEF TypeOK, IssueReward, IdsOf
  <2>4. ASSUME NEW i \in DOMAIN ids, i < n + 1
        PROVE  userRewards'[q][ids[i]] > 0
    <3>1. ids[i] \in Rewards /\ i \in Nat /\ q \in RequestIds
      <4>1. ids = requests[q].rewardIds
        BY DEF IdsOf
      <4>2. ids[i] \in Rewards /\ i \in Nat
        BY <2>2, <4>1, RewardSetType
      <4> QED
        BY <2>2, <4>2 DEF TypeOK
    <3>2. userRewards[q][ids[i]] \in Nat /\ userRewards'[q][ids[i]] \in Nat
      BY <2>2, <3>1 DEF TypeOK
    <3>3. CASE i = n
      <4>1. userRewards'[q] = [userRewards[q] EXCEPT ![ids[n]] = @ + 1]
        BY <1>5, <3>1 DEF TypeOK, IssueReward
      <4>2. userRewards'[q][ids[i]] = userRewards[q][ids[i]] + 1
        BY <3>1, <3>3, <4>1 DEF TypeOK
      <4> QED
        BY <3>2, <4>2
    <3>4. CASE i < n
      <4>1. userRewards[q][ids[i]] > 0
        BY <1>5, <2>2, <3>4 DEF IssueInv, ProgressOf, IssueReward
      <4>2. userRewards'[q][ids[i]] >= userRewards[q][ids[i]]
        BY <1>0, <2>2, <3>1, SMTT(60) DEF RewardsKept
      <4> QED
        BY <3>2, <4>1, <4>2
    <3> QED
      BY <2>2, <2>4, <3>1, <3>3, <3>4
  <2>5. n = Len(ids) => AllIssued(q)'
    <3>1. ids = requests[q].rewardIds /\ DOMAIN ids = 1..Len(ids) /\ Len(ids) \in Nat
      BY <2>2, RewardSetType DEF IdsOf
    <3> HIDE DEF ids
    <3>2. n = Len(ids) => \A i \in DOMAIN ids : i < n + 1
      BY <2>2, <3>1
    <3> QED
      BY <2>1, <2>3, <2>4, <3>1, <3>2 DEF AllIssued, RewardSet
  <2>6. ProgressOf(h)'
    <3>1. call[h].to = "APPROVED"
      BY <1>5, <2>2 DEF IssueInv, ProgressOf, IssueReward
    <3> QED
      BY <2>3, <2>4, <2>5, <3>1 DEF ProgressOf, AfterIssue
  <2> QED
    BY <1>0, <2>1, <2>6, OneHandlerMoves, ApprovedKept DEF IssueInv
<1>6. ASSUME NEW h \in Handlers, CountIssued(h)
      PROVE  IssueInv'
  <2>1. UNCHANGED <<requests, userRewards>> /\ \A g \in Handlers \ {h} : call'[g] = call[g]
    BY <1>6 DEF TypeOK, CountIssued, Goto
  <2>2. call[h] \in Decision /\ call[h].pc = "count"
    BY <1>6, CallShape DEF CountIssued
  <2>3. call'[h].pc = "write" /\ call'[h].id = call[h].id /\ call'[h].to = call[h].to
    BY <1>6, <2>2 DEF TypeOK, CountIssued, Goto, Decision
  <2>4. ProgressOf(h)'
    BY <2>1, <2>2, <2>3 DEF IssueInv, ProgressOf, AllIssued
  <2> QED
    BY <1>0, <2>1, <2>4, OneHandlerMoves, ApprovedKept DEF IssueInv
<1>7. ASSUME NEW h \in Handlers, WriteStatus(h)
      PROVE  IssueInv'
  <2>1. UNCHANGED userRewards /\ \A g \in Handlers \ {h} : call'[g] = call[g]
    BY <1>7 DEF TypeOK, WriteStatus, Return
  <2>2. call'[h] \notin Decision
    BY <1>7 DEF TypeOK, WriteStatus, Return, Decision, Idle
  <2>3. /\ call[h] \in Decision /\ call[h].pc = "write"
        /\ call[h].id \in DOMAIN requests
        /\ requests[call[h].id] \in RewardRequest
    BY <1>7, CallShape DEF WriteStatus, TypeOK
  <2>4. ASSUME NEW x \in DOMAIN requests', requests'[x].status = "APPROVED"
        PROVE  AllIssued(x)' \/ x \in reopened'
    <3>1. x \in DOMAIN requests
      BY <1>7, <2>4 DEF WriteStatus
    <3>2. requests[x].status = "APPROVED" \/ (x = call[h].id /\ call[h].to = "APPROVED")
      BY <1>7, <2>3, <2>4, <3>1 DEF WriteStatus, Written, RewardRequest, TypeOK
    <3>3. AllIssued(x) \/ x \in reopened
      BY <2>3, <3>1, <3>2 DEF IssueInv, ProgressOf
    <3> QED
      BY <1>0, <3>1, <3>3, AllIssuedKept DEF RewardsKept
  <2> QED
    BY <1>0, <2>1, <2>2, <2>4, OneHandlerMoves DEF IssueInv
<1>8. CASE UNCHANGED <<requests, userRewards, call, reopened>>
  BY <1>8 DEF IssueInv, ProgressOf, AllIssued, IdsOf
<1> QED
  BY <1>1, <1>2, <1>3, <1>4, <1>5, <1>6, <1>7, <1>8
  DEF Next, HandlerStep, vars, history, ChangeEvent, UpdateReward, Tick

\* An APPROVED request has had every reward issued, with any number of handlers
\* in flight and with failures, unless an operator reopened it: sent APPROVED or
\* PENDING for it and found it closed.
THEOREM ApprovedIssued == Spec => []ApprovedIsIssued
<1>1. Init => IssueInv
  BY DEF Init, IssueInv, Decision, Idle
<1>2. TypeOK /\ TypeOK' /\ IssueInv /\ [Next]_vars => IssueInv'
  BY IssueInvStep
<1>3. IssueInv => ApprovedIsIssued
  BY DEF IssueInv, ApprovedIsIssued
<1> QED
  BY <1>1, <1>2, <1>3, TypeCorrect, PTL DEF Spec

-----------------------------------------------------------------------------
(***************************************************************************)
(* Open requests are bounded by the calls in flight                        *)
(***************************************************************************)
Deciders == {h \in Handlers : call[h] \in Decision}

\* Requests of u for r that are open, or that a handler may still open again
\* since it read them as open before another call closed them.  Those that an
\* operator reopened do not count.
Claims(u, e, r) ==
    {q \in DOMAIN requests \ reopened :
        /\ requests[q].user = u /\ requests[q].event = e
        /\ r \in RewardSet(requests[q].rewardIds)
        /\ \/ requests[q].status \in OpenStatuses
           \/ \E h \in Deciders : call[h].id = q /\ call[h].to \in OpenStatuses}

\* Submissions of u for r that passed the duplicate check.
Saving(u, e, r) ==
    {h \in Handlers :
        /\ call[h].pc = "save" /\ call[h].user = u /\ call[h].event = e
        /\ r \in RewardSet(call[h].rewardIds)}

Bounded(u, e, r) ==
    Cardinality(Claims(u, e, r)) + Cardinality(Saving(u, e, r))
        <= Cardinality(Handlers)

\* The strengthening of OpenRequestsBounded: when a submission passes its check
\* no matching request is open, so each claim is held by a decision in flight,
\* and a handler holds one claim or is one submission.
OpenInv == \A u \in Users, e \in Events, r \in Rewards : Bounded(u, e, r)

LEMMA ClaimsFinite ==
    ASSUME TypeOK, NEW u, NEW e, NEW r
    PROVE  /\ IsFiniteSet(Claims(u, e, r)) /\ Cardinality(Claims(u, e, r)) \in Nat
           /\ IsFiniteSet(Saving(u, e, r)) /\ Cardinality(Saving(u, e, r)) \in Nat
           /\ Cardinality(Handlers) \in Nat
<1>1. Claims(u, e, r) \subseteq RequestIds /\ Saving(u, e, r) \subseteq Handlers
  BY DEF Claims, Saving, TypeOK
<1> QED
  BY <1>1, FiniteAssumption, FS_Subset, FS_CardinalityType

\* Steps that neither pass the check nor save shrink both sets.
LEMMA BoundedShrinks ==
    ASSUME TypeOK, NEW u, NEW e, NEW r, Bounded(u, e, r),
           NEW C \in SUBSET Claims(u, e, r), NEW S \in SUBSET Saving(u, e, r)
    PROVE  Cardinality(C) + Cardinality(S) <= Cardinality(Handlers)
<1>1. /\ Cardinality(C) <= Cardinality(Claims(u, e, r)) /\ Cardinality(C) \in Nat
      /\ Cardinality(S) <= Cardinality(Saving(u, e, r)) /\ Cardinality(S) \in Nat
  BY ClaimsFinite, FS_Subset, FS_CardinalityType
<1> QED
  BY <1>1, ClaimsFinite DEF Bounded

\* When no matching request is open, the claims are held by distinct deciders.
LEMMA ClaimsHeld ==
    ASSUME TypeOK, NEW u, NEW e, NEW r,
           \A q \in Claims(u, e, r) : requests[q].status \notin OpenStatuses
    PROVE  Cardinality(Claims(u, e, r)) <= Cardinality(Deciders)
<1> DEFINE holder == [q \in Claims(u, e, r) |->
                        CHOOSE h \in Deciders : call[h].id = q]
<1>1. \A q \in Claims(u, e, r) : holder[q] \in Deciders /\ call[holder[q]].id = q
  BY DEF Claims
<1>2. holder \in Injection(Claims(u, e, r), Deciders)
  BY <1>1 DEF Injection, IsInjective
<1>3. IsFiniteSet(Deciders)
  BY FiniteAssumption, FS_Subset DEF Deciders
<1> QED
  BY <1>2, <1>3, FS_Injection

\* The check: the submission joins Saving, and every claim is a decider's.
LEMMA CheckKeepsBound ==
    ASSUME TypeOK, NEW u, NEW e, NEW r, NEW h \in Handlers,
           call[h].pc = "findExisting", ExistingRequests(call[h]) = {},
           call[h].user = u, call[h].event = e, r \in RewardSet(call[h].rewardIds)
    PROVE  Cardinality(Claims(u, e, r)) + Cardinality(Saving(u, e, r) \cup {h})
              <= Cardinality(Handlers)
<1> DEFINE S == Saving(u, e, r) \cup {h}
<1>1. Cardinality(Claims(u, e, r)) <= Cardinality(Deciders)
  <2>1. \A q \in Claims(u, e, r) : requests[q].status \notin OpenStatuses
    BY DEF Claims, ExistingRequests, Overlaps
  <2> QED
    BY <2>1, ClaimsHeld
<1>2. S \subseteq Handlers /\ Deciders \subseteq Handlers /\ S \cap Deciders = {}
  BY DEF Saving, Deciders, Decision
<1>3. /\ IsFiniteSet(S) /\ IsFiniteSet(Deciders) /\ IsFiniteSet(S \cup Deciders)
      /\ Cardinality(S) \in Nat /\ Cardinality(Deciders) \in Nat
      /\ Cardinality(S \cup Deciders) <= Cardinality(Handlers)
      /\ Cardinality(S \cup Deciders) \in Nat
  BY <1>2, FiniteAssumption, FS_Subset, FS_CardinalityType
<1>4. Cardinality(S \cup Deciders) = Cardinality(S) + Cardinality(Deciders)
  <2>1. Cardinality(S \cup Deciders)
          = Cardinality(S) + Cardinality(Deciders) - Cardinality(S \cap Deciders)
    BY <1>3, FS_Union
  <2>2. Cardinality(S \cap Deciders) = 0
    BY <1>2, FS_EmptySet
  <2> QED
    BY <1>3, <2>1, <2>2
<1> QED
  BY <1>1, <1>3, <1>4, ClaimsFinite

LEMMA OpenInvStep ==
    ASSUME TypeOK, TypeOK', OpenInv, [Next]_vars
    PROVE  OpenInv'
<1> SUFFICES ASSUME NEW u \in Users, NEW e \in Events, NEW r \in Rewards
             PROVE  Bounded(u, e, r)'
  BY DEF OpenInv
<1>0. Bounded(u, e, r)
  BY DEF OpenInv
<1>1. ASSUME Claims(u, e, r)' \subseteq Claims(u, e, r),
             Saving(u, e, r)' \subseteq Saving(u, e, r)
      PROVE  Bounded(u, e, r)'
  BY <1>0, <1>1, BoundedShrinks DEF Bounded
<1>2. ASSUME NEW h \in Handlers, FindExisting(h)
      PROVE  Bounded(u, e, r)'
  <2>1. call[h] \in Submission /\ call[h].pc = "findExisting"
    BY <1>2, CallShape DEF FindExisting
  <2>2. Claims(u, e, r)' \subseteq Claims(u, e, r)
    BY <1>2, <2>1, SMTT(60)
    DEF TypeOK, FindExisting, Goto, Return, Claims, Deciders, Submission, Decision, Idle,
        history
  <2>3. CASE /\ ExistingRequests(call[h]) = {}
             /\ call[h].user = u /\ call[h].event = e
             /\ r \in RewardSet(call[h].rewardIds)
    <3>1. Saving(u, e, r)' \subseteq Saving(u, e, r) \cup {h}
      BY <1>2 DEF TypeOK, FindExisting, Goto, Return, Saving, Idle
    <3>2. Cardinality(Claims(u, e, r)) + Cardinality(Saving(u, e, r) \cup {h})
             <= Cardinality(Handlers)
      BY <2>1, <2>3, CheckKeepsBound
    <3>3. IsFiniteSet(Saving(u, e, r) \cup {h})
      BY ClaimsFinite, FS_AddElement
    <3>4. /\ Cardinality(Saving(u, e, r)') <= Cardinality(Saving(u, e, r) \cup {h})
          /\ Cardinality(Claims(u, e, r)') <= Cardinality(Claims(u, e, r))
          /\ Cardinality(Saving(u, e, r)') \in Nat
          /\ Cardinality(Claims(u, e, r)') \in Nat
          /\ Cardinality(Saving(u, e, r) \cup {h}) \in Nat
      BY <2>2, <3>1, <3>3, ClaimsFinite, FS_Subset, FS_CardinalityType
    <3> QED
      BY <3>2, <3>4, ClaimsFinite DEF Bounded
  <2>4. CASE ~ (/\ ExistingRequests(call[h]) = {}
                /\ call[h].user = u /\ call[h].event = e
                /\ r \in RewardSet(call[h].rewardIds))
    <3>1. \A g \in Handlers \ {h} : call'[g] = call[g]
      BY <1>2 DEF TypeOK, FindExisting, Goto, Return
    <3>2. \/ call'[h] = Idle
          \/ /\ ExistingRequests(call[h]) = {}
             /\ call'[h].user = call[h].user /\ call'[h].event = call[h].event
             /\ call'[h].rewardIds = call[h].rewardIds
      BY <1>2, <2>1 DEF TypeOK, FindExisting, Goto, Return, Submission
    <3>3. h \notin Saving(u, e, r)'
      BY <2>4, <3>2 DEF Saving, Idle
    <3>4. Saving(u, e, r)' \subseteq Saving(u, e, r)
      BY <3>1, <3>3 DEF Saving
    <3> QED
      BY <1>1, <2>2, <3>4
  <2> QED
    BY <2>3, <2>4
<1>3. ASSUME NEW h \in Handlers, NEW q \in RequestIds, SaveRequest(h, q)
      PROVE  Bounded(u, e, r)'
  <2>1. call[h] \in Submission /\ call[h].pc = "save" /\ call'[h] = Idle
    BY <1>3, CallShape DEF SaveRequest, Return, TypeOK
  <2>2. \A g \in Handlers \ {h} : call'[g] = call[g]
    BY <1>3 DEF SaveRequest, Return, TypeOK
  <2>3. \A x \in DOMAIN requests : requests'[x] = requests[x]
    BY <1>3 DEF SaveRequest
  <2>4. Claims(u, e, r)' \subseteq Claims(u, e, r) \cup {q}
    BY <1>3, <2>1, <2>2, <2>3 DEF SaveRequest, Claims, Deciders, Decision, Idle, history
  <2>5. CASE h \in Saving(u, e, r)
    <3>1. Saving(u, e, r)' \subseteq Saving(u, e, r) \ {h}
      BY <2>1, <2>2 DEF Saving, Idle
    <3>2. /\ Cardinality(Saving(u, e, r)') \in Nat
          /\ Cardinality(Saving(u, e, r)') <= Cardinality(Saving(u, e, r)) - 1
      <4>1. /\ IsFiniteSet(Saving(u, e, r) \ {h})
            /\ Cardinality(Saving(u, e, r) \ {h}) = Cardinality(Saving(u, e, r)) - 1
        BY <2>5, ClaimsFinite, FS_RemoveElement
      <4> QED
        BY <3>1, <4>1, FS_Subset, FS_CardinalityType
    <3>3. /\ Cardinality(Claims(u, e, r)') \in Nat
          /\ Cardinality(Claims(u, e, r)') <= Cardinality(Claims(u, e, r)) + 1
      <4>1. /\ IsFiniteSet(Claims(u, e, r) \cup {q})
            /\ Cardinality(Claims(u, e, r) \cup {q}) \in Nat
            /\ Cardinality(Claims(u, e, r) \cup {q}) <= Cardinality(Claims(u, e, r)) + 1
        <5> DEFINE C == Claims(u, e, r)
        <5>1. IsFiniteSet(C) /\ Cardinality(C) \in Nat
          BY ClaimsFinite
        <5> HIDE DEF C
        <5>2. /\ IsFiniteSet(C \cup {q})
              /\ Cardinality(C \cup {q}) =
                    IF q \in C THEN Cardinality(C) ELSE Cardinality(C) + 1
          BY <5>1, FS_AddElement
        <5>3. Cardinality(C \cup {q}) \in Nat /\ Cardinality(C \cup {q}) <= Cardinality(C) + 1
          BY <5>1, <5>2
        <5> QED
          BY <5>2, <5>3 DEF C
      <4>2. /\ Cardinality(Claims(u, e, r)') \in Nat
            /\ Cardinality(Claims(u, e, r)') <= Cardinality(Claims(u, e, r) \cup {q})
        BY <2>4, <4>1, FS_Subset, FS_CardinalityType
      <4> QED
        BY <4>1, <4>2, ClaimsFinite
    <3> QED
      BY <1>0, <3>2, <3>3, ClaimsFinite DEF Bounded
  <2>6. CASE h \notin Saving(u, e, r)
    <3>1. Claims(u, e, r)' \subseteq Claims(u, e, r)
      <4>1. q \notin Claims(u, e, r)'
        BY <1>3, <2>1, <2>6 DEF SaveRequest, NewRequest, Claims, Saving
      <4> QED
        BY <2>4, <4>1
    <3>2. Saving(u, e, r)' \subseteq Saving(u, e, r)
      BY <2>1, <2>2 DEF Saving, Idle
    <3> QED
      BY <1>1, <3>1, <3>2
  <2> QED
    BY <2>5, <2>6
<1>4. ASSUME NEW h \in Handlers, NEW q \in RequestIds,
             NEW to \in OperatorStatuses, UpdateRewardRequest(h, q, to)
      PROVE  Bounded(u, e, r)'
  <2>1. to \in OpenStatuses => requests[q].status \in OpenStatuses \/ q \in reopened'
    BY <1>4 DEF UpdateRewardRequest, Reopens
  <2>2. reopened \subseteq reopened'
    BY <1>4 DEF UpdateRewardRequest
  <2>3. Claims(u, e, r)' \subseteq Claims(u, e, r)
    BY <1>4, <2>1, <2>2 DEF TypeOK, UpdateRewardRequest, Claims, Deciders
  <2>4. Saving(u, e, r)' \subseteq Saving(u, e, r)
    BY <1>4 DEF TypeOK, UpdateRewardRequest, AfterRead, Saving
  <2> QED
    BY <1>1, <2>3, <2>4
<1>5. ASSUME NEW h \in Handlers, WriteStatus(h)
      PROVE  Bounded(u, e, r)'
  <2>1. /\ call[h] \in Decision /\ call[h].id \in DOMAIN requests
        /\ requests[call[h].id] \in RewardRequest
    BY <1>5, CallShape DEF WriteStatus, TypeOK
  <2>2. Saving(u, e, r)' \subseteq Saving(u, e, r)
    BY <1>5 DEF TypeOK, WriteStatus, Return, Saving, Idle
  <2>3. ASSUME NEW x \in Claims(u, e, r)'
        PROVE  x \in Claims(u, e, r)
    <3>1. /\ x \in DOMAIN requests \ reopened
          /\ requests'[x].user = requests[x].user
          /\ requests'[x].event = requests[x].event
          /\ requests'[x].rewardIds = requests[x].rewardIds
      BY <1>5, <2>1 DEF TypeOK, WriteStatus, Claims, RewardRequest, history
    <3>2. /\ Deciders' \subseteq Deciders
          /\ \A g \in Deciders' : call'[g] = call[g]
      BY <1>5 DEF TypeOK, WriteStatus, Return, Deciders, Decision, Idle
    <3>3. \/ requests'[x].status = requests[x].status
          \/ x = call[h].id /\ requests'[x].status = call[h].to
      BY <1>5, <2>1, <3>1 DEF TypeOK, WriteStatus, Written, RewardRequest
    <3>4. h \in Deciders
      BY <2>1 DEF Deciders
    <3> QED
      BY <3>1, <3>2, <3>3, <3>4 DEF Claims
  <2> QED
    BY <1>1, <2>2, <2>3
<1>6. ASSUME NEW h \in Handlers,
             \/ \E v \in Users, f \in Events, ids \in RewardLists, d \in Evidence :
                   CreateRewardRequest(h, v, f, ids, d)
             \/ FindRewards(h) \/ CountFails(h) \/ Fail(h)
      PROVE  Bounded(u, e, r)'
  <2>1. /\ UNCHANGED <<requests, reopened>>
        /\ \A g \in Handlers \ {h} : call'[g] = call[g]
    BY <1>6 DEF TypeOK, CreateRewardRequest, FindRewards, CountFails, Fail, Goto, Return,
                history
  <2>2. call'[h] \notin Decision /\ call'[h].pc # "save"
    BY <1>6, CallShape
    DEF TypeOK, CreateRewardRequest, FindRewards, CountFails, Fail, Goto, Return,
        Submission, Decision, Idle
  <2>3. Claims(u, e, r)' \subseteq Claims(u, e, r)
    BY <2>1, <2>2 DEF Claims, Deciders
  <2>4. Saving(u, e, r)' \subseteq Saving(u, e, r)
    BY <2>1, <2>2 DEF Saving
  <2> QED
    BY <1>1, <2>3, <2>4
<1>7. ASSUME NEW h \in Handlers, IssueRewards(h) \/ IssueReward(h) \/ CountIssued(h)
      PROVE  Bounded(u, e, r)'
  <2>1. call[h] \in Decision
    BY <1>7, CallShape DEF IssueRewards, IssueReward, CountIssued
  <2>2. /\ UNCHANGED <<requests, reopened>>
        /\ \A g \in Handlers \ {h} : call'[g] = call[g]
    BY <1>7 DEF TypeOK, IssueRewards, IssueReward, CountIssued, Goto, history
  <2>3. /\ call'[h].id = call[h].id /\ call'[h].to = call[h].to
        /\ call'[h].pc # "save"
    BY <1>7, <2>1
    DEF TypeOK, IssueRewards, IssueReward, CountIssued, Goto, AfterReread,
        AfterIssue, Decision
  <2>4. Claims(u, e, r)' \subseteq Claims(u, e, r)
    BY <2>1, <2>2, <2>3 DEF Claims, Deciders
  <2>5. Saving(u, e, r)' \subseteq Saving(u, e, r)
    BY <2>2, <2>3 DEF Saving
  <2> QED
    BY <1>1, <2>4, <2>5
<1>8. CASE UNCHANGED <<requests, call, reopened>>
  BY <1>1, <1>8 DEF Claims, Saving, Deciders
<1> QED
  BY <1>2, <1>3, <1>4, <1>5, <1>6, <1>7, <1>8
  DEF Next, HandlerStep, vars, history, ChangeEvent, UpdateReward, Tick

\* However many submissions, approvals, rejections and failures there are, a user
\* has no more open requests for a reward of an event than calls run together, not
\* counting those that an operator reopened.
THEOREM OpenBounded == Spec => []OpenRequestsBounded
<1>1. Init => OpenInv
  <2> SUFFICES ASSUME Init, NEW u \in Users, NEW e \in Events, NEW r \in Rewards
               PROVE  Bounded(u, e, r)
    BY DEF OpenInv
  <2>1. Claims(u, e, r) = {} /\ Saving(u, e, r) = {}
    BY DEF Init, Claims, Saving, Idle
  <2> QED
    BY <2>1, FiniteAssumption, FS_EmptySet, FS_CardinalityType DEF Bounded
<1>2. TypeOK /\ TypeOK' /\ OpenInv /\ [Next]_vars => OpenInv'
  BY OpenInvStep
<1>3. TypeOK /\ OpenInv => OpenRequestsBounded
  <2> SUFFICES ASSUME TypeOK, OpenInv,
                      NEW u \in Users, NEW e \in Events, NEW r \in Rewards
               PROVE  Cardinality(OpenRequests(u, e, r) \ reopened) <= Cardinality(Handlers)
    BY DEF OpenRequestsBounded
  <2>1. OpenRequests(u, e, r) \ reopened \subseteq Claims(u, e, r)
    BY DEF OpenRequests, Claims
  <2>2. Bounded(u, e, r)
    BY DEF OpenInv
  <2>3. /\ Cardinality(OpenRequests(u, e, r) \ reopened) <= Cardinality(Claims(u, e, r))
        /\ Cardinality(OpenRequests(u, e, r) \ reopened) \in Nat
    BY <2>1, ClaimsFinite, FS_Subset, FS_CardinalityType
  <2> QED
    BY <2>2, <2>3, ClaimsFinite DEF Bounded
<1> QED
  BY <1>1, <1>2, <1>3, TypeCorrect, PTL DEF Spec

-----------------------------------------------------------------------------
(***************************************************************************)
(* The lists of rewards that are stored                                    *)
(***************************************************************************)

\* What the count check leaves of a list: it is not empty, names each reward once
\* and only rewards that belong to event e or have belonged to it.
ListValid(ids, e, at) ==
    /\ Len(ids) > 0
    /\ Len(ids) = Cardinality(RewardSet(ids))
    /\ \A r \in RewardSet(ids) : e \in at[r]

ListsValid ==
    /\ \A r \in Rewards : rewardEvent[r] \in belonged[r]
    /\ \A q \in DOMAIN requests :
          ListValid(requests[q].rewardIds, requests[q].event, belonged)
    /\ \A h \in Handlers :
          call[h].pc \in {"findExisting", "save"} =>
              ListValid(call[h].rewardIds, call[h].event, belonged)

\* A list names at most as many rewards as it is long.
LEMMA RewardSetCardinality ==
    ASSUME NEW ids \in Seq(Rewards)
    PROVE  /\ IsFiniteSet(RewardSet(ids)) /\ Cardinality(RewardSet(ids)) \in Nat
           /\ Cardinality(RewardSet(ids)) <= Len(ids)
<1>1. Len(ids) \in Nat /\ DOMAIN ids = 1..Len(ids)
  OBVIOUS
<1>2. IsFiniteSet(1..Len(ids)) /\ Cardinality(1..Len(ids)) = Len(ids)
  BY <1>1, FS_Interval, SMTT(60)
<1>3. ids \in Surjection(1..Len(ids), RewardSet(ids))
  BY <1>1 DEF Surjection, RewardSet
<1> QED
  BY <1>2, <1>3, FS_Surjection, FS_CardinalityType

\* The check compares the length of the list with the rewards found: equality
\* means that no id is repeated and no reward belongs to another event.
LEMMA AcceptedValid ==
    ASSUME TypeOK, ListsValid, NEW c \in Submission, RewardsAccepted(c)
    PROVE  ListValid(c.rewardIds, c.event, belonged)
<1>1. c.rewardIds \in Seq(Rewards)
  BY InputAssumption DEF Submission
<1>2. /\ IsFiniteSet(RewardSet(c.rewardIds)) /\ Cardinality(RewardSet(c.rewardIds)) \in Nat
      /\ Cardinality(RewardSet(c.rewardIds)) <= Len(c.rewardIds)
  BY <1>1, RewardSetCardinality
<1>3. FoundRewards(c) \subseteq RewardSet(c.rewardIds)
  BY DEF FoundRewards
<1>4. Cardinality(FoundRewards(c)) = Len(c.rewardIds) /\ Len(c.rewardIds) > 0
  BY DEF RewardsAccepted
<1>5. /\ Cardinality(FoundRewards(c)) <= Cardinality(RewardSet(c.rewardIds))
      /\ Cardinality(FoundRewards(c)) = Cardinality(RewardSet(c.rewardIds))
            => FoundRewards(c) = RewardSet(c.rewardIds)
  BY <1>2, <1>3, FS_Subset
<1>6. Len(c.rewardIds) \in Nat
  BY <1>1
<1>7. Cardinality(RewardSet(c.rewardIds)) = Len(c.rewardIds)
  BY <1>2, <1>4, <1>5, <1>6
<1>8. FoundRewards(c) = RewardSet(c.rewardIds)
  BY <1>4, <1>5, <1>7
<1>9. \A r \in RewardSet(c.rewardIds) : c.event \in belonged[r]
  <2>1. RewardSet(c.rewardIds) \subseteq Rewards
    BY <1>1 DEF RewardSet
  <2> QED
    BY <1>8, <2>1 DEF FoundRewards, ListsValid
<1> QED
  BY <1>4, <1>7, <1>9 DEF ListValid

\* A list of rewards stays valid, wherever they are moved.
LEMMA ListKept ==
    ASSUME NEW ids \in Seq(Rewards), NEW e, NEW at, NEW later, ListValid(ids, e, at),
           \A r \in Rewards : at[r] \subseteq later[r]
    PROVE  ListValid(ids, e, later)
<1>1. RewardSet(ids) \subseteq Rewards
  BY DEF RewardSet
<1> QED
  BY <1>1 DEF ListValid

\* No step breaks it.
LEMMA ListsStep ==
    ASSUME TypeOK, ListsValid, [Next]_vars
    PROVE  ListsValid'
<1>0. /\ \A r \in Rewards : belonged[r] \subseteq belonged'[r]
      /\ \A r \in Rewards : rewardEvent'[r] \in belonged'[r]
  <2>1. CASE UNCHANGED <<rewardEvent, belonged>>
    BY <2>1 DEF ListsValid
  <2>2. ASSUME NEW r \in Rewards, NEW dto \in RewardEdits, UpdateReward(r, dto),
               NEW s \in Rewards
        PROVE  belonged[s] \subseteq belonged'[s] /\ rewardEvent'[s] \in belonged'[s]
    BY <2>2 DEF UpdateReward, ListsValid, TypeOK
  <2> QED
    BY <2>1, <2>2, ZenonT(60)
    DEF Next, HandlerStep, vars, history, CreateRewardRequest, UpdateRewardRequest,
        FindRewards, FindExisting, SaveRequest, IssueRewards, IssueReward,
        CountIssued, CountFails, WriteStatus, Fail, ChangeEvent, Tick
<1>1. ASSUME NEW q \in DOMAIN requests
      PROVE  ListValid(requests[q].rewardIds, requests[q].event, belonged')
  BY <1>0, <1>1, RewardSetType, ListKept DEF ListsValid
<1>2. ASSUME NEW g \in Handlers, call[g].pc \in {"findExisting", "save"}
       PROVE  ListValid(call[g].rewardIds, call[g].event, belonged')
  <2>1. call[g].rewardIds \in Seq(Rewards)
    BY <1>2, CallShape, InputAssumption DEF Submission
  <2> QED
    BY <1>0, <1>2, <2>1, ListKept DEF ListsValid
<1>3. ASSUME NEW h \in Handlers, UNCHANGED requests,
             \A g \in Handlers \ {h} : call'[g] = call[g],
             call'[h].pc \in {"findExisting", "save"} =>
                 ListValid(call'[h].rewardIds, call'[h].event, belonged')
      PROVE  ListsValid'
  BY <1>0, <1>3, <1>1, <1>2 DEF ListsValid
<1>4. ASSUME NEW h \in Handlers,
             \/ \E u \in Users, e \in Events, ids \in RewardLists, d \in Evidence :
                   CreateRewardRequest(h, u, e, ids, d)
             \/ \E q \in RequestIds, to \in OperatorStatuses :
                   UpdateRewardRequest(h, q, to)
             \/ CountFails(h) \/ Fail(h)
      PROVE  ListsValid'
  <2>1. UNCHANGED requests /\ \A g \in Handlers \ {h} : call'[g] = call[g]
    BY <1>4 DEF TypeOK, CreateRewardRequest, UpdateRewardRequest, CountFails, Fail, Return
  <2>2. call'[h].pc \in {"findRewards", "issueRead", "write", "idle"}
    <3>1. ASSUME NEW u \in Users, NEW e \in Events, NEW ids \in RewardLists,
                 NEW d \in Evidence, CreateRewardRequest(h, u, e, ids, d)
          PROVE  call'[h].pc = "findRewards"
      BY <3>1 DEF TypeOK, CreateRewardRequest
    <3>2. ASSUME NEW q \in RequestIds, NEW to \in OperatorStatuses,
                 UpdateRewardRequest(h, q, to)
          PROVE  call'[h].pc \in {"issueRead", "write"}
      BY <3>2 DEF TypeOK, UpdateRewardRequest, AfterRead
    <3>3. ASSUME Return(h)
          PROVE  call'[h].pc = "idle"
      BY <3>3 DEF TypeOK, Return, Idle
    <3> QED
      BY <1>4, <3>1, <3>2, <3>3 DEF CountFails, Fail
  <2> QED
    BY <1>3, <2>1, <2>2
<1>5. ASSUME NEW h \in Handlers, FindRewards(h)
      PROVE  ListsValid'
  <2>1. UNCHANGED requests /\ \A g \in Handlers \ {h} : call'[g] = call[g]
    BY <1>5 DEF TypeOK, FindRewards, Goto, Return
  <2>2. call[h] \in Submission
    BY <1>5, CallShape DEF FindRewards
  <2>3. CASE RewardsAccepted(call[h])
    <3>1. ListValid(call[h].rewardIds, call[h].event, belonged')
      <4>1. call[h].rewardIds \in Seq(Rewards)
        BY <2>2, InputAssumption DEF Submission
      <4> QED
        BY <1>0, <2>2, <2>3, <4>1, AcceptedValid, ListKept
    <3>2. CASE Return(h)
      BY <1>3, <2>1, <3>2 DEF Return, TypeOK, Idle
    <3>3. CASE Goto(h, "findExisting")
      <4>1. call'[h].rewardIds = call[h].rewardIds /\ call'[h].event = call[h].event
        BY <2>2, <3>3 DEF Goto, TypeOK, Submission
      <4> QED
        BY <1>3, <2>1, <3>1, <4>1
    <3> QED
      BY <1>5, <3>2, <3>3 DEF FindRewards
  <2>4. CASE ~RewardsAccepted(call[h])
    <3>1. call'[h].pc = "idle"
      BY <1>5, <2>4 DEF FindRewards, Return, TypeOK, Idle
    <3> QED
      BY <1>3, <2>1, <3>1
  <2> QED
    BY <2>3, <2>4
<1>6. ASSUME NEW h \in Handlers, FindExisting(h)
      PROVE  ListsValid'
  <2>1. UNCHANGED requests /\ \A g \in Handlers \ {h} : call'[g] = call[g]
    BY <1>6 DEF TypeOK, FindExisting, Goto, Return
  <2>2. call[h] \in Submission /\ ListValid(call[h].rewardIds, call[h].event, belonged')
    BY <1>6, <1>2, CallShape DEF FindExisting
  <2>3. CASE Return(h)
    BY <1>3, <2>1, <2>3 DEF Return, TypeOK, Idle
  <2>4. CASE Goto(h, "save")
    <3>1. call'[h].rewardIds = call[h].rewardIds /\ call'[h].event = call[h].event
      BY <2>2, <2>4 DEF Goto, TypeOK, Submission
    <3> QED
      BY <1>3, <2>1, <2>2, <3>1
  <2> QED
    BY <1>6, <2>3, <2>4 DEF FindExisting
<1>7. ASSUME NEW h \in Handlers, NEW q \in RequestIds, SaveRequest(h, q)
      PROVE  ListsValid'
  <2>1. \A g \in Handlers \ {h} : call'[g] = call[g]
    BY <1>7 DEF TypeOK, SaveRequest, Return
  <2>2. call'[h].pc = "idle"
    BY <1>7 DEF TypeOK, SaveRequest, Return, Idle
  <2>3. ListValid(call[h].rewardIds, call[h].event, belonged')
    BY <1>7, <1>2 DEF SaveRequest
  <2>4. /\ DOMAIN requests' = DOMAIN requests \cup {q}
        /\ requests'[q].rewardIds = call[h].rewardIds /\ requests'[q].event = call[h].event
        /\ \A x \in DOMAIN requests : requests'[x] = requests[x]
    BY <1>7 DEF SaveRequest, NewRequest
  <2> QED
    BY <1>0, <1>1, <1>2, <2>1, <2>2, <2>3, <2>4 DEF ListsValid
<1>8. ASSUME NEW h \in Handlers, IssueRewards(h) \/ IssueReward(h) \/ CountIssued(h)
      PROVE  ListsValid'
  <2>1. UNCHANGED requests /\ \A g \in Handlers \ {h} : call'[g] = call[g]
    BY <1>8 DEF TypeOK, IssueRewards, IssueReward, CountIssued, Goto
  <2>2. call[h] \in Decision
    BY <1>8, CallShape DEF IssueRewards, IssueReward, CountIssued
  <2>3. call'[h].pc \notin {"findExisting", "save"}
    BY <1>8, <2>2 DEF TypeOK, IssueRewards, AfterReread, IssueReward, AfterIssue,
                      CountIssued, Goto, Decision
  <2> QED
    BY <1>3, <2>1, <2>3
<1>9. ASSUME NEW h \in Handlers, WriteStatus(h)
      PROVE  ListsValid'
  <2>1. \A g \in Handlers \ {h} : call'[g] = call[g]
    BY <1>9 DEF TypeOK, WriteStatus, Return
  <2>2. call'[h].pc = "idle"
    BY <1>9 DEF TypeOK, WriteStatus, Return, Idle
  <2>3. requests[call[h].id] \in RewardRequest
    BY <1>9, CallShape DEF WriteStatus, TypeOK
  <2>4. /\ DOMAIN requests' = DOMAIN requests
        /\ \A x \in DOMAIN requests :
              requests'[x].rewardIds = requests[x].rewardIds
              /\ requests'[x].event = requests[x].event
    BY <1>9, <2>3 DEF WriteStatus, RewardRequest
  <2> QED
    BY <1>0, <1>1, <1>2, <2>1, <2>2, <2>4 DEF ListsValid
<1>10. CASE UNCHANGED <<requests, call>>
  BY <1>0, <1>10, <1>1, <1>2 DEF ListsValid
<1> QED
  BY <1>4, <1>5, <1>6, <1>7, <1>8, <1>9, <1>10
  DEF Next, HandlerStep, vars, ChangeEvent, UpdateReward, Tick

\* Whatever lists users send and whoever moves rewards meanwhile, a stored request
\* names at least one reward, each one once, and only rewards that belong to its
\* event or have belonged to it.
THEOREM StoredIdsValid == Spec => []StoredRewardIdsValid
<1>1. Init => ListsValid
  BY InputAssumption DEF Init, ListsValid, Idle
<1>2. TypeOK /\ ListsValid /\ [Next]_vars => ListsValid'
  BY ListsStep
<1>3. ListsValid => StoredRewardIdsValid
  BY DEF ListsValid, ListValid, StoredRewardIdsValid
<1> QED
  BY <1>1, <1>2, <1>3, TypeCorrect, PTL DEF Spec

-----------------------------------------------------------------------------
(***************************************************************************)
(* The loop that issues rewards                                            *)
(***************************************************************************)

\* The loop never runs past its list, which is not empty.
LoopInside ==
    \A h \in Handlers :
        call[h].pc \in {"issueRead", "issue"} => call[h].next \in DOMAIN IdsOf(h)

\* No step breaks it.
LEMMA LoopStep ==
    ASSUME TypeOK, TypeOK', ListsValid, LoopInside, [Next]_vars
    PROVE  LoopInside'
<1>0. RewardsKept
  BY StepKeepsRewards
<1>1. ASSUME NEW g \in Handlers, call'[g] = call[g],
             call'[g].pc \in {"issueRead", "issue"}
      PROVE  call'[g].next \in DOMAIN IdsOf(g)'
  <2>1. call[g].id \in DOMAIN requests /\ call[g].next \in DOMAIN IdsOf(g)
    BY <1>1, CallShape DEF LoopInside
  <2> QED
    BY <1>0, <1>1, <2>1 DEF IdsOf, RewardsKept
<1>2. ASSUME NEW h \in Handlers, \A g \in Handlers \ {h} : call'[g] = call[g],
             call'[h].pc \in {"issueRead", "issue"} => call'[h].next \in DOMAIN IdsOf(h)'
      PROVE  LoopInside'
  BY <1>1, <1>2 DEF LoopInside
<1>3. ASSUME NEW h \in Handlers, NEW u \in Users, NEW e \in Events,
             NEW ids \in RewardLists, NEW d \in Evidence,
             CreateRewardRequest(h, u, e, ids, d)
      PROVE  LoopInside'
  BY <1>2, <1>3 DEF CreateRewardRequest, TypeOK
<1>4. ASSUME NEW h \in Handlers, NEW q \in RequestIds,
             NEW to \in OperatorStatuses, UpdateRewardRequest(h, q, to)
      PROVE  LoopInside'
  <2>1. q \in DOMAIN requests /\ ListValid(requests[q].rewardIds, requests[q].event, belonged)
    BY <1>4 DEF UpdateRewardRequest, ListsValid
  <2>2. 1 \in DOMAIN requests[q].rewardIds
    BY <2>1, RewardSetType DEF ListValid
  <2>3. call'[h].next = 1 /\ call'[h].id = q /\ requests' = requests
    BY <1>4 DEF UpdateRewardRequest, TypeOK
  <2>4. call'[h].next \in DOMAIN IdsOf(h)'
    BY <2>2, <2>3 DEF IdsOf
  <2> QED
    BY <1>2, <1>4, <2>4 DEF UpdateRewardRequest, TypeOK
<1>5. ASSUME NEW h \in Handlers,
             FindRewards(h) \/ FindExisting(h) \/ CountIssued(h) \/ CountFails(h)
             \/ WriteStatus(h) \/ Fail(h) \/ \E q \in RequestIds : SaveRequest(h, q)
      PROVE  LoopInside'
  <2>1. \A g \in Handlers \ {h} : call'[g] = call[g]
    BY <1>5 DEF FindRewards, FindExisting, CountIssued, CountFails, WriteStatus, Fail,
                SaveRequest, Goto, Return, TypeOK
  <2>2. call[h].pc # "idle" => call[h] \in Submission \cup Decision
    BY CallShape DEF Idle
  <2>3. ASSUME Return(h)
        PROVE  call'[h].pc = "idle"
    BY <2>3 DEF Return, TypeOK, Idle
  <2>4. ASSUME NEW pc, Goto(h, pc), call[h].pc # "idle"
        PROVE  call'[h].pc = pc
    BY <2>2, <2>4 DEF Goto, TypeOK, Submission, Decision
  <2>5. call'[h].pc \notin {"issueRead", "issue"}
    BY <1>5, <2>3, <2>4
    DEF FindRewards, FindExisting, CountIssued, CountFails, WriteStatus, Fail, SaveRequest
  <2> QED
    BY <1>2, <2>1, <2>5
<1>6. ASSUME NEW h \in Handlers, IssueRewards(h)
      PROVE  LoopInside'
  <2>1. call[h] \in Decision /\ call[h].next \in DOMAIN IdsOf(h)
    BY <1>6, CallShape, SMTT(60) DEF IssueRewards, LoopInside
  <2>2. call'[h].next = call[h].next /\ IdsOf(h)' = IdsOf(h)
    BY <1>6, <2>1 DEF IssueRewards, Goto, IdsOf, TypeOK, Decision
  <2> QED
    BY <1>2, <1>6, <2>1, <2>2 DEF IssueRewards, Goto, TypeOK
<1>7. ASSUME NEW h \in Handlers, IssueReward(h)
      PROVE  LoopInside'
  <2>1. /\ call[h] \in Decision /\ call[h].id \in DOMAIN requests
        /\ call[h].next \in DOMAIN IdsOf(h)
    BY <1>7, CallShape, SMTT(60) DEF IssueReward, LoopInside
  <2>2. /\ call'[h].next = call[h].next + 1 /\ call'[h].pc = AfterIssue(h)
        /\ IdsOf(h)' = IdsOf(h)
    BY <1>7 DEF IssueReward, IdsOf, TypeOK
  <2>3. DOMAIN IdsOf(h) = 1..Len(IdsOf(h)) /\ Len(IdsOf(h)) \in Nat
    BY <2>1, RewardSetType DEF IdsOf
  <2>4. AfterIssue(h) \in {"issueRead", "issue"} => call[h].next # Len(IdsOf(h))
    BY DEF AfterIssue
  <2>5. call'[h].pc \in {"issueRead", "issue"} => call'[h].next \in DOMAIN IdsOf(h)'
    BY <2>1, <2>2, <2>3, <2>4
  <2> QED
    BY <1>2, <1>7, <2>5 DEF IssueReward, TypeOK
<1>8. CASE UNCHANGED call
  BY <1>1, <1>8 DEF LoopInside
<1> QED
  BY <1>3, <1>4, <1>5, <1>6, <1>7, <1>8
  DEF Next, HandlerStep, vars, ChangeEvent, UpdateReward, Tick

\* A handler that does not move has granted what it had granted.
LEMMA GrantedKept ==
    ASSUME TypeOK, RewardsKept, NEW g \in Handlers, call'[g] = call[g], NEW q, NEW r
    PROVE  Granted(g, q, r)' <=> Granted(g, q, r)
<1>1. CASE Decides(g, q)
  <2>1. q \in DOMAIN requests
    BY <1>1, CallShape DEF Decides
  <2>2. requests'[q].rewardIds = requests[q].rewardIds /\ Decides(g, q)'
    BY <1>1, <2>1 DEF RewardsKept, Decides
  <2> QED
    BY <1>1, <2>2 DEF Granted
<1>2. CASE ~Decides(g, q)
  BY <1>2 DEF Granted, Decides
<1> QED
  BY <1>1, <1>2

\* What a handler has gone past in its loop is issued.
GrantedIssued ==
    \A h \in Handlers, q \in RequestIds, r \in Rewards :
        Granted(h, q, r) => userRewards[q][r] > 0

\* No step breaks it.
LEMMA GrantedIssuedStep ==
    ASSUME TypeOK, TypeOK', LoopInside, GrantedIssued, [Next]_vars
    PROVE  GrantedIssued'
<1>0. RewardsKept
  BY StepKeepsRewards
<1>1. ASSUME NEW g \in Handlers, NEW q \in RequestIds, NEW r \in Rewards, Granted(g, q, r)
      PROVE  userRewards'[q][r] > 0
  <2>1. q \in DOMAIN requests /\ userRewards[q][r] > 0
    BY <1>1, CallShape DEF GrantedIssued, Granted, Decides
  <2>2. userRewards'[q][r] >= userRewards[q][r]
    BY <1>0, <2>1 DEF RewardsKept
  <2>3. userRewards'[q][r] \in Nat /\ userRewards[q][r] \in Nat
    BY DEF TypeOK
  <2> QED
    BY <2>1, <2>2, <2>3
<1>2. ASSUME NEW h \in Handlers, \A g \in Handlers \ {h} : call'[g] = call[g],
             \A q \in RequestIds, r \in Rewards :
                Granted(h, q, r)' => Granted(h, q, r) \/ userRewards'[q][r] > 0
      PROVE  GrantedIssued'
  <2>1. ASSUME NEW g \in Handlers, NEW q \in RequestIds, NEW r \in Rewards,
               Granted(g, q, r)'
        PROVE  userRewards'[q][r] > 0
    <3>1. CASE g = h
      BY <1>1, <1>2, <2>1, <3>1
    <3>2. CASE g # h
      <4>1. Granted(g, q, r)
        BY <1>0, <1>2, <2>1, <3>2, GrantedKept
      <4> QED
        BY <1>1, <4>1
    <3> QED
      BY <3>1, <3>2
  <2> QED
    BY <2>1 DEF GrantedIssued
<1>3. ASSUME NEW h \in Handlers, NEW u \in Users, NEW e \in Events,
             NEW ids \in RewardLists, NEW d \in Evidence,
             CreateRewardRequest(h, u, e, ids, d)
      PROVE  GrantedIssued'
  BY <1>2, <1>3 DEF CreateRewardRequest, Granted, Decides, TypeOK
<1>4. ASSUME NEW h \in Handlers, NEW x \in RequestIds,
             NEW to \in OperatorStatuses, UpdateRewardRequest(h, x, to)
      PROVE  GrantedIssued'
  <2>1. call'[h].next = 1 /\ \A g \in Handlers \ {h} : call'[g] = call[g]
    BY <1>4 DEF UpdateRewardRequest, TypeOK
  <2> QED
    BY <1>2, <2>1 DEF Granted
<1>5. ASSUME NEW h \in Handlers,
             FindRewards(h) \/ FindExisting(h) \/ CountFails(h) \/ WriteStatus(h)
             \/ Fail(h) \/ \E q \in RequestIds : SaveRequest(h, q)
      PROVE  GrantedIssued'
  <2>1. \A g \in Handlers \ {h} : call'[g] = call[g]
    BY <1>5 DEF FindRewards, FindExisting, CountFails, WriteStatus, Fail, SaveRequest,
                Goto, Return, TypeOK
  <2>2. ASSUME Return(h)
        PROVE  call'[h].pc = "idle"
    BY <2>2 DEF Return, TypeOK, Idle
  <2>3. ASSUME NEW pc, Goto(h, pc), call[h] \in Submission
        PROVE  call'[h].pc = pc
    BY <2>3 DEF Goto, TypeOK, Submission
  <2>4. call'[h].pc \in {"idle", "findExisting", "save"}
    BY <1>5, <2>2, <2>3, CallShape
    DEF FindRewards, FindExisting, CountFails, WriteStatus, Fail, SaveRequest
  <2> QED
    BY <1>2, <2>1, <2>4 DEF Granted, Decides
<1>6. ASSUME NEW h \in Handlers, IssueRewards(h) \/ CountIssued(h)
      PROVE  GrantedIssued'
  <2>1. /\ call[h] \in Decision /\ call[h].pc \in {"issueRead", "count"}
    BY <1>6, CallShape DEF IssueRewards, CountIssued
  <2>2. /\ call'[h].next = call[h].next /\ call'[h].id = call[h].id
        /\ \A g \in Handlers \ {h} : call'[g] = call[g]
        /\ requests' = requests
    BY <1>6, <2>1 DEF IssueRewards, CountIssued, Goto, TypeOK, Decision
  <2> QED
    BY <1>2, <2>1, <2>2 DEF Granted, Decides
<1>7. ASSUME NEW h \in Handlers, IssueReward(h)
      PROVE  GrantedIssued'
  <2>1. /\ call[h] \in Decision /\ call[h].id \in DOMAIN requests /\ call[h].pc = "issue"
        /\ call[h].id \in RequestIds /\ call[h].next \in DOMAIN IdsOf(h)
    BY <1>7, CallShape DEF IssueReward, TypeOK, LoopInside
  <2>2. /\ call'[h].next = call[h].next + 1 /\ call'[h].id = call[h].id
        /\ requests' = requests
        /\ \A g \in Handlers \ {h} : call'[g] = call[g]
    BY <1>7 DEF IssueReward, TypeOK
  <2>3. call[h].next \in Nat
    BY <2>1 DEF Decision
  <2>4. ASSUME NEW q \in RequestIds, NEW r \in Rewards, Granted(h, q, r)'
        PROVE  Granted(h, q, r) \/ userRewards'[q][r] > 0
    <3>1. PICK i \in 1..(call'[h].next - 1) : requests'[q].rewardIds[i] = r
      BY <2>4 DEF Granted
    <3>2. q = call[h].id
      BY <2>2, <2>4 DEF Granted, Decides
    <3>3. CASE i \in 1..(call[h].next - 1)
      BY <2>1, <2>2, <3>1, <3>2, <3>3 DEF Granted, Decides
    <3>4. CASE i = call[h].next
      <4>1. userRewards'[q][r] = userRewards[q][r] + 1
        BY <1>7, <2>1, <2>2, <3>1, <3>2, <3>4 DEF IssueReward, IdsOf, TypeOK
      <4>2. userRewards[q][r] \in Nat
        BY DEF TypeOK
      <4> QED
        BY <4>1, <4>2, SMTT(60)
    <3> QED
      BY <2>2, <2>3, <3>1, <3>3, <3>4
  <2> QED
    BY <1>2, <2>2, <2>4
<1>8. CASE UNCHANGED call
  BY <1>0, <1>1, <1>8, GrantedKept DEF GrantedIssued
<1> QED
  BY <1>3, <1>4, <1>5, <1>6, <1>7, <1>8
  DEF Next, HandlerStep, vars, ChangeEvent, UpdateReward, Tick

\* Without failures a request whose rewards are issued in part is one that a handler
\* is in the loop of, and a request that is not stored has none issued.
PartsHeld ==
    /\ \A q \in DOMAIN requests : \A r \in RewardSet(requests[q].rewardIds) :
          userRewards[q][r] > 0 =>
              \/ AllIssued(q)
              \/ \E h \in Handlers : call[h].pc = "issue" /\ call[h].id = q
    /\ \A q \in RequestIds \ DOMAIN requests, r \in Rewards : userRewards[q][r] = 0

\* A step that issues nothing and takes no handler out of the loop keeps it.
LEMMA PartsKept ==
    ASSUME TypeOK, TypeOK', RewardsKept, PartsHeld,
           UNCHANGED userRewards, DOMAIN requests' = DOMAIN requests,
           \A g \in Handlers : call[g].pc = "issue" =>
              call'[g].pc = "issue" /\ call'[g].id = call[g].id
    PROVE  PartsHeld'
<1>1. ASSUME NEW q \in DOMAIN requests', NEW r \in RewardSet(requests'[q].rewardIds),
             userRewards'[q][r] > 0
      PROVE  \/ AllIssued(q)'
             \/ \E h \in Handlers : call'[h].pc = "issue" /\ call'[h].id = q
  <2>1. r \in RewardSet(requests[q].rewardIds) /\ userRewards[q][r] > 0
    BY <1>1 DEF RewardsKept
  <2> QED
    BY <1>1, <2>1, AllIssuedKept DEF PartsHeld
<1> QED
  BY <1>1 DEF PartsHeld

\* No step breaks it.
LEMMA PartsStep ==
    ASSUME ~Failures, TypeOK, TypeOK', LoopInside, GrantedIssued, PartsHeld, [Next]_vars
    PROVE  PartsHeld'
<1>0. RewardsKept
  BY StepKeepsRewards
<1>1. ASSUME NEW h \in Handlers, NEW q \in RequestIds, SaveRequest(h, q)
      PROVE  PartsHeld'
  <2>1. \A g \in Handlers : call[g].pc = "issue" => call'[g] = call[g]
    BY <1>1 DEF SaveRequest, Return, TypeOK
  <2>2. ASSUME NEW x \in DOMAIN requests', NEW r \in RewardSet(requests'[x].rewardIds),
               userRewards'[x][r] > 0
        PROVE  \/ AllIssued(x)'
               \/ \E g \in Handlers : call'[g].pc = "issue" /\ call'[g].id = x
    <3>1. r \in Rewards
      <4>1. requests'[x].rewardIds \in Seq(Rewards)
        BY InputAssumption DEF TypeOK, RewardRequest
      <4> QED
        BY <4>1 DEF RewardSet
    <3>2. x \in DOMAIN requests
      BY <1>1, <2>2, <3>1 DEF SaveRequest, PartsHeld
    <3>3. r \in RewardSet(requests[x].rewardIds) /\ userRewards[x][r] > 0
      BY <1>0, <1>1, <2>2, <3>2 DEF RewardsKept, SaveRequest
    <3> QED
      BY <1>0, <2>1, <3>2, <3>3, AllIssuedKept DEF PartsHeld
  <2>3. ASSUME NEW x \in RequestIds \ DOMAIN requests', NEW r \in Rewards
        PROVE  userRewards'[x][r] = 0
    BY <1>1, <2>3 DEF PartsHeld, SaveRequest
  <2>4. \A x \in DOMAIN requests' : \A r \in RewardSet(requests'[x].rewardIds) :
          userRewards'[x][r] > 0 =>
              \/ AllIssued(x)'
              \/ \E g \in Handlers : call'[g].pc = "issue" /\ call'[g].id = x
    BY <2>2
  <2> QED
    BY <2>3, <2>4 DEF PartsHeld
<1>2. ASSUME NEW h \in Handlers, IssueReward(h)
      PROVE  PartsHeld'
  <2>1. /\ call[h] \in Decision /\ call[h].id \in DOMAIN requests
        /\ call[h].id \in RequestIds
    BY <1>2, CallShape DEF IssueReward, TypeOK
  <2>2. \A x \in RequestIds \ {call[h].id} : userRewards'[x] = userRewards[x]
    BY <1>2 DEF IssueReward, TypeOK
  <2>3. /\ \A g \in Handlers \ {h} : call'[g] = call[g]
        /\ call'[h].id = call[h].id /\ call'[h].pc = AfterIssue(h)
        /\ requests' = requests
    BY <1>2 DEF IssueReward, TypeOK
  <2>4. ASSUME NEW x \in DOMAIN requests, NEW r \in RewardSet(requests[x].rewardIds),
               userRewards'[x][r] > 0
        PROVE  \/ AllIssued(x)'
               \/ \E g \in Handlers : call'[g].pc = "issue" /\ call'[g].id = x
    <3>1. CASE x = call[h].id
      <4>1. CASE AfterIssue(h) = "issue"
        BY <2>3, <3>1, <4>1
      <4>2. CASE AfterIssue(h) # "issue"
        <5>1. call[h].next = Len(IdsOf(h))
          BY <4>2 DEF AfterIssue
        <5>2. ASSUME NEW i \in DOMAIN IdsOf(h)
              PROVE  userRewards'[x][IdsOf(h)[i]] > 0
          <6>1. /\ DOMAIN IdsOf(h) = 1..Len(IdsOf(h)) /\ Len(IdsOf(h)) \in Nat
                /\ IdsOf(h)[i] \in Rewards
            BY <2>1, <5>2, RewardSetType DEF IdsOf
          <6>2. /\ userRewards[x][IdsOf(h)[i]] \in Nat /\ userRewards'[x][IdsOf(h)[i]] \in Nat
                /\ userRewards'[x][IdsOf(h)[i]] >= userRewards[x][IdsOf(h)[i]]
            BY <1>0, <2>4, <6>1 DEF TypeOK, RewardsKept
          <6>3. CASE i = call[h].next
            <7>1. userRewards'[x][IdsOf(h)[i]] = userRewards[x][IdsOf(h)[i]] + 1
              BY <1>2, <2>1, <3>1, <6>1, <6>3 DEF IssueReward, TypeOK
            <7> QED
              BY <6>2, <7>1
          <6>4. CASE i # call[h].next
            <7>1. i \in 1..(call[h].next - 1)
              BY <5>1, <6>1, <6>4
            <7>2. Granted(h, x, IdsOf(h)[i])
              BY <1>2, <3>1, <7>1 DEF Granted, Decides, IssueReward, IdsOf
            <7>3. userRewards[x][IdsOf(h)[i]] > 0
              BY <2>1, <3>1, <6>1, <7>2 DEF GrantedIssued
            <7> QED
              BY <6>2, <7>3
          <6> QED
            BY <6>3, <6>4
        <5> QED
          BY <2>3, <3>1, <5>2 DEF AllIssued, RewardSet, IdsOf
      <4> QED
        BY <4>1, <4>2
    <3>2. CASE x # call[h].id
      <4>1. userRewards[x][r] > 0
        BY <2>2, <2>4, <3>2 DEF TypeOK
      <4>2. CASE AllIssued(x)
        BY <1>0, <4>2, AllIssuedKept
      <4>3. CASE \E g \in Handlers : call[g].pc = "issue" /\ call[g].id = x
        BY <2>3, <3>2, <4>3
      <4> QED
        BY <4>1, <4>2, <4>3 DEF PartsHeld
    <3> QED
      BY <3>1, <3>2
  <2> QED
    BY <2>1, <2>2, <2>3, <2>4 DEF PartsHeld
<1>3. ASSUME NEW h \in Handlers,
             \/ \E u \in Users, e \in Events, ids \in RewardLists, d \in Evidence :
                   CreateRewardRequest(h, u, e, ids, d)
             \/ \E q \in RequestIds, to \in OperatorStatuses :
                   UpdateRewardRequest(h, q, to)
             \/ FindRewards(h) \/ FindExisting(h) \/ IssueRewards(h)
             \/ CountIssued(h) \/ WriteStatus(h)
      PROVE  PartsHeld'
  <2>1. call[h].pc # "issue"
    <3>1. call[h] = Idle \/ call[h].pc \in {"findRewards", "findExisting", "issueRead",
                                           "count", "write"}
      BY <1>3, Zenon DEF CreateRewardRequest, UpdateRewardRequest, FindRewards,
                         FindExisting, IssueRewards, CountIssued, WriteStatus
    <3> QED
      BY <3>1 DEF Idle
  <2>2. \A g \in Handlers \ {h} : call'[g] = call[g]
    <3>1. ASSUME NEW pc, Goto(h, pc)
          PROVE  \A g \in Handlers \ {h} : call'[g] = call[g]
      BY <3>1 DEF Goto, TypeOK
    <3>2. ASSUME NEW u \in Users, NEW e \in Events, NEW ids \in RewardLists,
                 NEW d \in Evidence, CreateRewardRequest(h, u, e, ids, d)
          PROVE  \A g \in Handlers \ {h} : call'[g] = call[g]
      BY <3>2 DEF CreateRewardRequest, TypeOK
    <3>3. ASSUME NEW q \in RequestIds, NEW to \in OperatorStatuses,
                 UpdateRewardRequest(h, q, to)
          PROVE  \A g \in Handlers \ {h} : call'[g] = call[g]
      BY <3>3 DEF UpdateRewardRequest, TypeOK
    <3>4. ASSUME Return(h)
          PROVE  \A g \in Handlers \ {h} : call'[g] = call[g]
      BY <3>4 DEF Return, TypeOK
    <3> QED
      BY <1>3, <3>1, <3>2, <3>3, <3>4
      DEF FindRewards, FindExisting, IssueRewards, CountIssued, WriteStatus
  <2>3. UNCHANGED userRewards /\ DOMAIN requests' = DOMAIN requests
    BY <1>3 DEF CreateRewardRequest, UpdateRewardRequest, FindRewards, FindExisting,
                IssueRewards, CountIssued, WriteStatus
  <2> QED
    BY <1>0, <2>1, <2>2, <2>3, PartsKept
<1>4. CASE UNCHANGED <<requests, userRewards, call>>
  BY <1>0, <1>4, PartsKept
<1> QED
  BY <1>1, <1>2, <1>3, <1>4
  DEF Next, HandlerStep, vars, ChangeEvent, UpdateReward, Tick, CountFails, Fail

\* As long as no call fails, the rewards of a request are issued all or none unless
\* an approval of it is running, whatever interleaves with it.
THEOREM IssuedTogether == ~Failures => (Spec => []IssuedAtomically)
<1> SUFFICES ASSUME ~Failures
             PROVE  Spec => []IssuedAtomically
  OBVIOUS
<1>1. Init => ListsValid /\ LoopInside /\ GrantedIssued /\ PartsHeld
  BY InputAssumption
  DEF Init, ListsValid, LoopInside, GrantedIssued, Granted, Decides, PartsHeld, Idle
<1>2. /\ TypeOK /\ TypeOK' /\ ListsValid /\ LoopInside /\ GrantedIssued /\ PartsHeld
      /\ [Next]_vars
      => ListsValid' /\ LoopInside' /\ GrantedIssued' /\ PartsHeld'
  BY ListsStep, LoopStep, GrantedIssuedStep, PartsStep
<1>3. PartsHeld => IssuedAtomically
  <2> SUFFICES ASSUME PartsHeld, NEW q \in DOMAIN requests,
                      \A h \in Handlers : ~Decides(h, q),
                      NEW r \in RewardSet(requests[q].rewardIds),
                      NEW s \in RewardSet(requests[q].rewardIds), userRewards[q][r] > 0
               PROVE  userRewards[q][s] > 0
    BY DEF IssuedAtomically
  <2> QED
    BY DEF PartsHeld, AllIssued, Decides
<1> QED
  BY <1>1, <1>2, <1>3, TypeCorrect, PTL DEF Spec

-----------------------------------------------------------------------------
(***************************************************************************)
(* How often a reward is issued                                            *)
(***************************************************************************)

\* The handlers that have issued r for q, and those that are going to.
Giving(q, r) == {h \in Handlers : Granted(h, q, r)}
Owing(q, r) ==
    {h \in Handlers :
        /\ call[h].pc \in {"issueRead", "issue"} /\ call[h].id = q
        /\ ~Granted(h, q, r)}

\* Nothing is issued for a request that is not stored.  While a request is PENDING
\* its UserReward documents are those of approvals that still run; from then on,
\* the documents and the approvals that still owe one are no more than calls run
\* together.
GrantsAt(q, r) ==
    /\ q \notin DOMAIN requests => userRewards[q][r] = 0
    /\ q \in DOMAIN requests /\ requests[q].status = "PENDING" =>
          userRewards[q][r] = Cardinality(Giving(q, r))
    /\ userRewards[q][r] + Cardinality(Owing(q, r)) <= Cardinality(Handlers)

\* Only an approval issues, and no handler is about to write PENDING.
Approving ==
    \A h \in Handlers :
        /\ \/ call[h].pc \in {"issueRead", "issue", "count"}
           \/ call[h].pc = "write" /\ call[h].next > 1
           => call[h].to = "APPROVED"
        /\ call[h].pc = "write" => call[h].to # "PENDING"

GrantInv == \A q \in RequestIds, r \in Rewards : GrantsAt(q, r)

LEMMA HandlersFinite ==
    ASSUME NEW A \in SUBSET Handlers
    PROVE  IsFiniteSet(A) /\ Cardinality(A) \in Nat /\ Cardinality(A) <= Cardinality(Handlers)
  BY FiniteAssumption, FS_Subset, FS_CardinalityType

LEMMA DisjointHandlers ==
    ASSUME NEW A \in SUBSET Handlers, NEW B \in SUBSET Handlers, A \cap B = {}
    PROVE  Cardinality(A) + Cardinality(B) <= Cardinality(Handlers)
<1>1. Cardinality(A \cup B) = Cardinality(A) + Cardinality(B) - Cardinality(A \cap B)
  BY HandlersFinite, FS_Union
<1>2. Cardinality(A \cap B) = 0
  BY FS_EmptySet
<1>3. Cardinality(A \cup B) <= Cardinality(Handlers)
  BY HandlersFinite
<1>4. Cardinality(A) \in Nat /\ Cardinality(B) \in Nat
  BY HandlersFinite
<1> QED
  BY <1>1, <1>2, <1>3, <1>4

\* A list as long as its set names no reward twice.
LEMMA NamedOnce ==
    ASSUME NEW ids \in Seq(Rewards), Len(ids) = Cardinality(RewardSet(ids)),
           NEW i \in DOMAIN ids, NEW j \in DOMAIN ids, ids[i] = ids[j]
    PROVE  i = j
<1> SUFFICES ASSUME i # j
             PROVE  FALSE
  OBVIOUS
<1> DEFINE S == (1..Len(ids)) \ {j}
           f == [k \in S |-> ids[k]]
<1>1. Len(ids) \in Nat /\ DOMAIN ids = 1..Len(ids)
  OBVIOUS
<1>2. IsFiniteSet(1..Len(ids)) /\ Cardinality(1..Len(ids)) = Len(ids)
  BY <1>1, FS_Interval
<1>3. IsFiniteSet(S) /\ Cardinality(S) = Len(ids) - 1
  <2> HIDE DEF S
  <2>1. j \in 1..Len(ids)
    BY <1>1
  <2>2. S = (1..Len(ids)) \ {j}
    BY DEF S
  <2> QED
    BY <1>2, <2>1, <2>2, FS_RemoveElement, Zenon
<1>4. \A r \in RewardSet(ids) : \E k \in S : ids[k] = r
  BY <1>1 DEF RewardSet
<1>5. \A k \in S : ids[k] \in RewardSet(ids)
  BY <1>1 DEF RewardSet
<1>6. f \in Surjection(S, RewardSet(ids))
  BY <1>4, <1>5 DEF Surjection
<1>7. Cardinality(RewardSet(ids)) <= Cardinality(S)
  BY <1>3, <1>6, FS_Surjection
<1> QED
  BY <1>1, <1>3, <1>7

LEMMA SetsKept ==
    ASSUME TypeOK, RewardsKept, NEW h \in Handlers,
           \A g \in Handlers \ {h} : call'[g] = call[g], NEW q, NEW r
    PROVE  /\ (Granted(h, q, r)' <=> Granted(h, q, r)) => Giving(q, r)' = Giving(q, r)
           /\ (h \in Owing(q, r)' => h \in Owing(q, r))
                 => Owing(q, r)' \subseteq Owing(q, r)
<1>1. \A g \in Handlers \ {h} : Granted(g, q, r)' <=> Granted(g, q, r)
  BY GrantedKept
<1>2. \A g \in Handlers \ {h} : g \in Owing(q, r)' <=> g \in Owing(q, r)
  BY <1>1 DEF Owing
<1>3. (Granted(h, q, r)' <=> Granted(h, q, r)) => Giving(q, r)' = Giving(q, r)
  BY <1>1 DEF Giving
<1>4. Owing(q, r)' \subseteq Handlers
  BY DEF Owing
<1> QED
  BY <1>2, <1>3, <1>4

\* A step of h that issues no r for q keeps the counts if it opens no debt, unless
\* q is PENDING, and if q is PENDING afterwards only when h granted as much before.
LEMMA GrantsKept ==
    ASSUME TypeOK, TypeOK', RewardsKept, NEW q \in RequestIds, NEW r \in Rewards,
           GrantsAt(q, r), NEW h \in Handlers,
           \A g \in Handlers \ {h} : call'[g] = call[g],
           userRewards'[q][r] = userRewards[q][r],
           q \in DOMAIN requests' => q \in DOMAIN requests,
           q \in DOMAIN requests' /\ requests'[q].status = "PENDING" =>
              /\ requests[q].status = "PENDING"
              /\ Granted(h, q, r)' <=> Granted(h, q, r),
           ~(q \in DOMAIN requests' /\ requests'[q].status = "PENDING") =>
              (h \in Owing(q, r)' => h \in Owing(q, r))
    PROVE  GrantsAt(q, r)'
<1>1. q \notin DOMAIN requests' => userRewards'[q][r] = 0
  BY DEF RewardsKept, GrantsAt
<1>2. q \in DOMAIN requests' /\ requests'[q].status = "PENDING"
      => userRewards'[q][r] = Cardinality(Giving(q, r))'
  BY SetsKept DEF GrantsAt
<1>3. CASE q \in DOMAIN requests' /\ requests'[q].status = "PENDING"
  <2>1. /\ Giving(q, r)' \in SUBSET Handlers /\ Owing(q, r)' \in SUBSET Handlers
        /\ Giving(q, r)' \cap Owing(q, r)' = {}
    BY DEF Giving, Owing
  <2> QED
    BY <1>1, <1>2, <1>3, <2>1, DisjointHandlers DEF GrantsAt
<1>4. CASE ~(q \in DOMAIN requests' /\ requests'[q].status = "PENDING")
  <2>1. Owing(q, r)' \subseteq Owing(q, r) /\ Owing(q, r) \in SUBSET Handlers
    BY <1>4, SetsKept DEF Owing
  <2>2. Cardinality(Owing(q, r)') <= Cardinality(Owing(q, r))
    BY <2>1, HandlersFinite, FS_Subset
  <2>3. /\ Cardinality(Owing(q, r)') \in Nat /\ Cardinality(Owing(q, r)) \in Nat
        /\ Cardinality(Handlers) \in Nat /\ userRewards[q][r] \in Nat
    BY <2>1, HandlersFinite DEF TypeOK
  <2> QED
    BY <1>1, <1>4, <2>2, <2>3 DEF GrantsAt
<1> QED
  BY <1>3, <1>4

\* No step breaks it.
LEMMA ApprovingStep ==
    ASSUME SteadyOperation, TypeOK, Approving, [Next]_vars
    PROVE  Approving'
<1> DEFINE Fits(c) ==
              /\ \/ c.pc \in {"issueRead", "issue", "count"}
                 \/ c.pc = "write" /\ c.next > 1
                 => c.to = "APPROVED"
              /\ c.pc = "write" => c.to # "PENDING"
<1>1. ASSUME NEW h \in Handlers, \A g \in Handlers \ {h} : call'[g] = call[g],
             Fits(call'[h])
      PROVE  Approving'
  BY <1>1 DEF Approving
<1>2. ASSUME NEW h \in Handlers, NEW u \in Users, NEW e \in Events,
             NEW ids \in RewardLists, NEW d \in Evidence,
             CreateRewardRequest(h, u, e, ids, d)
      PROVE  Approving'
  BY <1>1, <1>2 DEF CreateRewardRequest, TypeOK
<1>3. ASSUME NEW h \in Handlers, NEW q \in RequestIds,
             NEW to \in OperatorStatuses, UpdateRewardRequest(h, q, to)
      PROVE  Approving'
  <2>1. to # "PENDING"
    BY <1>3 DEF UpdateRewardRequest, SteadyOperation
  <2>2. call'[h] = [pc |-> AfterRead(requests[q].status, to), id |-> q, to |-> to,
                    next |-> 1]
    BY <1>3 DEF UpdateRewardRequest, TypeOK
  <2>3. Fits(call'[h])
    BY <2>1, <2>2 DEF AfterRead
  <2> QED
    BY <1>1, <1>3, <2>3 DEF UpdateRewardRequest, TypeOK
<1>4. ASSUME NEW h \in Handlers,
             FindRewards(h) \/ FindExisting(h) \/ WriteStatus(h)
             \/ \E q \in RequestIds : SaveRequest(h, q)
      PROVE  Approving'
  <2>1. \A g \in Handlers \ {h} : call'[g] = call[g]
    BY <1>4 DEF FindRewards, FindExisting, WriteStatus, SaveRequest, Goto, Return, TypeOK
  <2>2. ASSUME Return(h)
        PROVE  call'[h].pc = "idle"
    BY <2>2 DEF Return, TypeOK, Idle
  <2>3. ASSUME NEW pc, Goto(h, pc), call[h] \in Submission
        PROVE  call'[h].pc = pc
    BY <2>3 DEF Goto, TypeOK, Submission
  <2>4. call'[h].pc \in {"idle", "findExisting", "save"}
    BY <1>4, <2>2, <2>3, CallShape DEF FindRewards, FindExisting, WriteStatus, SaveRequest
  <2> QED
    BY <1>1, <2>1, <2>4
<1>5. ASSUME NEW h \in Handlers, IssueRewards(h) \/ IssueReward(h) \/ CountIssued(h)
      PROVE  Approving'
  <2>1. call[h] \in Decision /\ call[h].to = "APPROVED"
    BY <1>5, CallShape DEF IssueRewards, IssueReward, CountIssued, Approving
  <2>2. call'[h].to = call[h].to /\ \A g \in Handlers \ {h} : call'[g] = call[g]
    BY <1>5, <2>1 DEF IssueRewards, IssueReward, CountIssued, Goto, TypeOK, Decision
  <2> QED
    BY <1>1, <2>1, <2>2
<1>6. CASE UNCHANGED call
  BY <1>6 DEF Approving
<1> QED
  BY <1>2, <1>3, <1>4, <1>5, <1>6
  DEF Next, HandlerStep, vars, ChangeEvent, UpdateReward, Tick, CountFails, Fail,
      SteadyOperation

\* One turn of the loop moves its handler from those that owe the reward to those
\* that have issued it.
LEMMA IssueCounted ==
    ASSUME TypeOK, TypeOK', RewardsKept, ListsValid, LoopInside,
           NEW q \in RequestIds, NEW r \in Rewards, GrantsAt(q, r),
           NEW h \in Handlers, IssueReward(h)
    PROVE  GrantsAt(q, r)'
<1>1. /\ call[h] \in Decision /\ call[h].id \in DOMAIN requests
      /\ call[h].next \in DOMAIN IdsOf(h) /\ call[h].pc = "issue"
  BY CallShape DEF IssueReward, LoopInside
<1>2. /\ call'[h].next = call[h].next + 1 /\ call'[h].id = call[h].id
      /\ call'[h].pc \in {"issue", "count"} /\ call'[h].pc = AfterIssue(h)
      /\ requests' = requests
      /\ \A g \in Handlers \ {h} : call'[g] = call[g]
  BY DEF IssueReward, TypeOK, AfterIssue
<1>3. /\ call[h].next \in Nat /\ IdsOf(h) \in Seq(Rewards)
      /\ DOMAIN IdsOf(h) = 1..Len(IdsOf(h)) /\ Len(IdsOf(h)) \in Nat
      /\ IdsOf(h)[call[h].next] \in Rewards
  BY <1>1, RewardSetType DEF IdsOf, Decision
<1>4. CASE call[h].id = q /\ IdsOf(h)[call[h].next] = r
  <2>1. userRewards'[q][r] = userRewards[q][r] + 1
    BY <1>1, <1>4 DEF IssueReward, TypeOK
  <2>2. \A i, j \in DOMAIN IdsOf(h) : IdsOf(h)[i] = IdsOf(h)[j] => i = j
    <3>1. Len(IdsOf(h)) = Cardinality(RewardSet(IdsOf(h)))
      BY <1>1 DEF ListsValid, ListValid, IdsOf
    <3> QED
      BY <1>3, <3>1, NamedOnce
  <2>3. ~Granted(h, q, r)
    BY <1>1, <1>3, <1>4, <2>2 DEF Granted, IdsOf
  <2>4. Granted(h, q, r)'
    <3>1. call[h].next \in 1..(call'[h].next - 1)
      BY <1>1, <1>2, <1>3
    <3>2. requests'[q].rewardIds[call[h].next] = r /\ Decides(h, q)'
      BY <1>2, <1>4 DEF Decides, IdsOf
    <3> QED
      BY <3>1, <3>2 DEF Granted
  <2>5. \A g \in Handlers \ {h} : Granted(g, q, r)' <=> Granted(g, q, r)
    BY <1>2, GrantedKept
  <2>6. Giving(q, r)' = Giving(q, r) \cup {h} /\ h \notin Giving(q, r)
    BY <2>3, <2>4, <2>5 DEF Giving
  <2>7. Owing(q, r)' = Owing(q, r) \ {h} /\ h \in Owing(q, r)
    BY <1>1, <1>2, <1>4, <2>3, <2>4, <2>5 DEF Owing
  <2>8. /\ Giving(q, r) \in SUBSET Handlers /\ Owing(q, r) \in SUBSET Handlers
        /\ IsFiniteSet(Giving(q, r)) /\ IsFiniteSet(Owing(q, r))
        /\ Cardinality(Owing(q, r)) \in Nat /\ Cardinality(Handlers) \in Nat
    BY HandlersFinite DEF Giving, Owing
  <2>9. Cardinality(Giving(q, r)') = Cardinality(Giving(q, r)) + 1
    BY <2>6, <2>8, FS_AddElement
  <2>10. Cardinality(Owing(q, r)') = Cardinality(Owing(q, r)) - 1
    BY <2>7, <2>8, FS_RemoveElement
  <2>11. userRewards[q][r] \in Nat
    BY DEF TypeOK
  <2> QED
    BY <1>1, <1>2, <1>4, <2>1, <2>8, <2>9, <2>10, <2>11 DEF GrantsAt
<1>5. CASE ~(call[h].id = q /\ IdsOf(h)[call[h].next] = r)
  <2>1. userRewards'[q][r] = userRewards[q][r]
    BY <1>1, <1>3, <1>5, SMTT(60) DEF IssueReward, TypeOK
  <2>2. Granted(h, q, r)' <=> Granted(h, q, r)
    <3>1. CASE call[h].id # q
      BY <1>2, <3>1 DEF Granted, Decides
    <3>2. CASE call[h].id = q
      <4>1. \A i : i \in 1..(call'[h].next - 1)
                     <=> i \in 1..(call[h].next - 1) \/ i = call[h].next
        BY <1>1, <1>2, <1>3
      <4>2. requests[q].rewardIds[call[h].next] # r
        BY <1>5, <3>2 DEF IdsOf
      <4>3. Decides(h, q)' /\ Decides(h, q) /\ requests'[q] = requests[q]
        BY <1>1, <1>2, <3>2 DEF Decides
      <4> QED
        BY <4>1, <4>2, <4>3 DEF Granted
    <3> QED
      BY <3>1, <3>2
  <2>3. h \in Owing(q, r)' => h \in Owing(q, r)
    BY <1>1, <1>2, <2>2 DEF Owing
  <2> QED
    BY <1>2, <2>1, <2>2, <2>3, GrantsKept
<1> QED
  BY <1>4, <1>5

\* No step breaks it.
LEMMA GrantStep ==
    ASSUME SteadyOperation, TypeOK, TypeOK', ListsValid, LoopInside, Approving,
           GrantInv, [Next]_vars
    PROVE  GrantInv'
<1> SUFFICES ASSUME NEW q \in RequestIds, NEW r \in Rewards
             PROVE  GrantsAt(q, r)'
  BY DEF GrantInv
<1>0. RewardsKept /\ GrantsAt(q, r)
  BY StepKeepsRewards DEF GrantInv
<1>1. ASSUME NEW h \in Handlers, NEW x \in RequestIds,
             NEW to \in OperatorStatuses, UpdateRewardRequest(h, x, to)
      PROVE  GrantsAt(q, r)'
  <2>1. /\ call'[h] = [pc |-> AfterRead(requests[x].status, to), id |-> x, to |-> to,
                       next |-> 1]
        /\ \A g \in Handlers \ {h} : call'[g] = call[g]
        /\ x \in DOMAIN requests /\ call[h] = Idle
        /\ requests' = requests /\ userRewards' = userRewards
    BY <1>1 DEF UpdateRewardRequest, TypeOK
  <2>2. ~Granted(h, q, r)' /\ ~Granted(h, q, r)
    BY <2>1 DEF Granted, Decides, Idle
  <2>3. h \in Owing(q, r)' => q \in DOMAIN requests /\ requests[q].status = "PENDING"
    BY <2>1 DEF Owing, AfterRead
  <2> QED
    BY <1>0, <2>1, <2>2, <2>3, GrantsKept
<1>2. ASSUME NEW h \in Handlers,
             \/ \E u \in Users, e \in Events, ids \in RewardLists, d \in Evidence :
                   CreateRewardRequest(h, u, e, ids, d)
             \/ FindRewards(h) \/ FindExisting(h)
      PROVE  GrantsAt(q, r)'
  <2>1. /\ \A g \in Handlers \ {h} : call'[g] = call[g]
        /\ requests' = requests /\ userRewards' = userRewards
    BY <1>2 DEF CreateRewardRequest, FindRewards, FindExisting, Goto, Return, TypeOK
  <2>2. call[h].pc \in {"idle", "findRewards", "findExisting"}
    BY <1>2 DEF CreateRewardRequest, FindRewards, FindExisting, Idle
  <2>3. ASSUME Return(h)
        PROVE  call'[h].pc = "idle"
    BY <2>3 DEF Return, TypeOK, Idle
  <2>4. ASSUME NEW pc, Goto(h, pc), call[h] \in Submission
        PROVE  call'[h].pc = pc
    BY <2>4 DEF Goto, TypeOK, Submission
  <2>5. call'[h].pc \in {"idle", "findRewards", "findExisting", "save"}
    BY <1>2, <2>3, <2>4, CallShape DEF CreateRewardRequest, FindRewards, FindExisting, TypeOK
  <2>6. ~Granted(h, q, r)' /\ ~Granted(h, q, r) /\ h \notin Owing(q, r)'
    BY <2>2, <2>5 DEF Granted, Decides, Owing
  <2> QED
    BY <1>0, <2>1, <2>6, GrantsKept
<1>3. ASSUME NEW h \in Handlers, NEW x \in RequestIds, SaveRequest(h, x)
      PROVE  GrantsAt(q, r)'
  <2>1. /\ \A g \in Handlers \ {h} : call'[g] = call[g]
        /\ call[h].pc = "save" /\ call'[h].pc = "idle"
        /\ x \notin DOMAIN requests /\ DOMAIN requests' = DOMAIN requests \cup {x}
        /\ requests'[x].status = "PENDING"
        /\ \A y \in DOMAIN requests : requests'[y] = requests[y]
        /\ userRewards' = userRewards
    BY <1>3 DEF SaveRequest, NewRequest, Return, TypeOK, Idle
  <2>2. ~Granted(h, q, r)' /\ ~Granted(h, q, r) /\ h \notin Owing(q, r)'
    BY <2>1 DEF Granted, Decides, Owing
  <2>3. CASE x # q
    BY <1>0, <2>1, <2>2, <2>3, GrantsKept
  <2>4. CASE x = q
    <3>1. \A g \in Handlers : ~Decides(g, q)
      BY <2>1, <2>4, CallShape DEF Decides
    <3>2. Giving(q, r)' = {} /\ Owing(q, r)' = {}
      BY <2>1, <2>2, <3>1 DEF Giving, Owing, Granted, Decides
    <3>3. userRewards'[q][r] = 0
      BY <1>0, <2>1, <2>4 DEF GrantsAt
    <3>4. Cardinality(Handlers) \in Nat
      BY HandlersFinite
    <3> QED
      BY <2>1, <2>4, <3>2, <3>3, <3>4, FS_EmptySet DEF GrantsAt
  <2> QED
    BY <2>3, <2>4
<1>4. ASSUME NEW h \in Handlers, IssueRewards(h) \/ CountIssued(h)
      PROVE  GrantsAt(q, r)'
  <2>1. /\ call[h] \in Decision /\ call[h].id \in DOMAIN requests
        /\ call[h].pc \in {"issueRead", "count"}
    BY <1>4, CallShape DEF IssueRewards, CountIssued
  <2>2. /\ call'[h].next = call[h].next /\ call'[h].id = call[h].id
        /\ call'[h].pc \in {"issue", "write"}
        /\ call[h].pc = "count" => call'[h].pc = "write"
        /\ \A g \in Handlers \ {h} : call'[g] = call[g]
        /\ requests' = requests /\ userRewards' = userRewards
    BY <1>4, <2>1 DEF IssueRewards, CountIssued, AfterReread, Goto, TypeOK, Decision
  <2>3. Granted(h, q, r)' <=> Granted(h, q, r)
    BY <2>1, <2>2 DEF Granted, Decides
  <2>4. h \in Owing(q, r)' => h \in Owing(q, r)
    BY <2>1, <2>2, <2>3 DEF Owing
  <2> QED
    BY <1>0, <2>2, <2>3, <2>4, GrantsKept
<1>5. ASSUME NEW h \in Handlers, WriteStatus(h)
      PROVE  GrantsAt(q, r)'
  <2>1. /\ call[h] \in Decision /\ call[h].id \in DOMAIN requests /\ call[h].pc = "write"
        /\ call[h].to # "PENDING"
        /\ call[h].next > 1 => call[h].to = "APPROVED"
        /\ call[h].next \in Nat \ {0}
    BY <1>5, CallShape DEF WriteStatus, Approving, Decision
  <2>2. requests[call[h].id] \in RewardRequest
    BY <2>1 DEF TypeOK
  <2>3. /\ DOMAIN requests' = DOMAIN requests /\ userRewards' = userRewards
        /\ requests'[call[h].id].status = Written(requests[call[h].id].status, call[h].to)
        /\ \A y \in DOMAIN requests : y # call[h].id => requests'[y] = requests[y]
        /\ call'[h].pc = "idle" /\ \A g \in Handlers \ {h} : call'[g] = call[g]
    BY <1>5, <2>1, <2>2 DEF WriteStatus, Return, TypeOK, Idle, RewardRequest
  <2>4. ~Granted(h, q, r)' /\ h \notin Owing(q, r)'
    BY <2>3 DEF Granted, Decides, Owing
  <2>5. ASSUME q \in DOMAIN requests', requests'[q].status = "PENDING"
        PROVE  requests[q].status = "PENDING" /\ ~Granted(h, q, r)
    <3>1. CASE q # call[h].id
      BY <2>3, <2>5, <3>1 DEF Granted, Decides
    <3>2. CASE q = call[h].id
      <4>1. call[h].to = NoStatus /\ requests[q].status = "PENDING"
        BY <2>1, <2>3, <2>5, <3>2 DEF Written
      <4>2. call[h].next = 1
        BY <2>1, <4>1 DEF NoStatus
      <4> QED
        BY <4>1, <4>2 DEF Granted
    <3> QED
      BY <3>1, <3>2
  <2> QED
    BY <1>0, <2>3, <2>4, <2>5, GrantsKept
<1>6. ASSUME NEW h \in Handlers, IssueReward(h)
      PROVE  GrantsAt(q, r)'
  BY <1>0, <1>6, IssueCounted
<1>7. CASE UNCHANGED <<requests, userRewards, call>>
  <2>1. Giving(q, r)' = Giving(q, r) /\ Owing(q, r)' = Owing(q, r)
    BY <1>7 DEF Giving, Owing, Granted, Decides
  <2> QED
    BY <1>0, <1>7, <2>1 DEF GrantsAt
<1> QED
  BY <1>1, <1>2, <1>3, <1>4, <1>5, <1>6, <1>7
  DEF Next, HandlerStep, vars, ChangeEvent, UpdateReward, Tick, CountFails, Fail,
      SteadyOperation

\* They hold throughout.
LEMMA GrantsInvariant ==
    SteadyOperation => (Spec => [](ListsValid /\ LoopInside /\ Approving /\ GrantInv))
<1> SUFFICES ASSUME SteadyOperation
             PROVE  Spec => [](ListsValid /\ LoopInside /\ Approving /\ GrantInv)
  OBVIOUS
<1>1. Init => Approving /\ ListsValid /\ LoopInside
  BY InputAssumption DEF Init, Approving, ListsValid, LoopInside, Idle
<1>2. Init => GrantInv
  <2> SUFFICES ASSUME Init, NEW q \in RequestIds, NEW r \in Rewards
               PROVE  GrantsAt(q, r)
    BY DEF GrantInv
  <2>1. userRewards[q][r] = 0 /\ Owing(q, r) = {} /\ q \notin DOMAIN requests
    BY DEF Init, Owing, Idle
  <2>2. Cardinality(Handlers) \in Nat
    BY HandlersFinite
  <2> QED
    BY <2>1, <2>2, FS_EmptySet DEF GrantsAt
<1>3. /\ TypeOK /\ TypeOK' /\ ListsValid /\ LoopInside /\ Approving /\ GrantInv
      /\ [Next]_vars
      => ListsValid' /\ LoopInside' /\ Approving' /\ GrantInv'
  BY ListsStep, LoopStep, ApprovingStep, GrantStep
<1> QED
  BY <1>1, <1>2, <1>3, TypeCorrect, PTL DEF Spec

\* However approvals overlap, a reward of a request is issued at most as often as
\* calls run together, as long as no call fails and no operator sends PENDING.
THEOREM GrantsBound == Spec => []GrantsBounded
<1>1. CASE SteadyOperation
  <2>1. TypeOK /\ GrantInv => GrantsBounded
    <3> SUFFICES ASSUME TypeOK, GrantInv, NEW q \in RequestIds, NEW r \in Rewards
                 PROVE  userRewards[q][r] <= Cardinality(Handlers)
      BY DEF GrantsBounded
    <3>1. Owing(q, r) \in SUBSET Handlers
      BY DEF Owing
    <3>2. /\ Cardinality(Owing(q, r)) \in Nat /\ Cardinality(Handlers) \in Nat
          /\ userRewards[q][r] \in Nat
      BY <3>1, HandlersFinite DEF TypeOK
    <3> QED
      BY <3>2 DEF GrantInv, GrantsAt
  <2>2. Spec => [](ListsValid /\ LoopInside /\ Approving /\ GrantInv)
    BY <1>1, GrantsInvariant
  <2> QED
    BY <2>1, <2>2, TypeCorrect, PTL
<1>2. CASE ~SteadyOperation
  <2>1. GrantsBounded
    BY <1>2 DEF GrantsBounded
  <2> QED
    BY <2>1, PTL
<1> QED
  BY <1>1, <1>2

-----------------------------------------------------------------------------
(***************************************************************************)
(* RewardRequests implements RewardLedger                                  *)
(***************************************************************************)

\* The variables of RewardLedger as RewardRequests computes them.
AskedMap == [q \in DOMAIN requests |-> Asked(q)]
StatusMap == [q \in DOMAIN requests |-> requests[q].status]
IssuedMap == [q \in RequestIds |-> {r \in Rewards : userRewards[q][r] > 0}]

\* The limit of the ledger is the bound on open requests.
LEMMA LimitKept ==
    ASSUME OpenRequestsBounded'
    PROVE  Ledger!WithinLimit'
<1>1. \A u \in Users, e \in Events, r \in Rewards :
         Ledger!OpenFor(u, e, r)' = (OpenRequests(u, e, r) \ reopened)'
  BY DEF Ledger!OpenFor, OpenRequests, Asked, Ledger!Open, OpenStatuses
<1>2. \A S : Ledger!Cardinality(S) = Cardinality(S)
  BY Zenon DEF Ledger!Cardinality, Cardinality
<1> QED
  BY <1>1, <1>2 DEF Ledger!WithinLimit, OpenRequestsBounded

\* What a document says is one of the ledger's requests.
LEMMA AskedType ==
    ASSUME TypeOK, NEW q \in DOMAIN requests
    PROVE  Asked(q) \in Ledger!Asked
<1>1. requests[q].user \in Users /\ requests[q].event \in Events
  BY DEF TypeOK, RewardRequest
<1> QED
  BY <1>1, RewardSetType DEF Asked, Ledger!Asked

\* Each step of a handler is one of the ledger.
LEMMA LedgerSimulated ==
    ASSUME TypeOK, TypeOK', LoopInside, OpenRequestsBounded', ApprovedIsIssued',
           [Next]_vars
    PROVE  [Ledger!Next]_<<AskedMap, StatusMap, IssuedMap, reopened>>
<1>0. Ledger!WithinLimit'
  BY LimitKept
<1>1. ASSUME NEW h \in Handlers, NEW q \in RequestIds, SaveRequest(h, q)
      PROVE  Ledger!Next
  <2>1. /\ DOMAIN requests' = DOMAIN requests \cup {q} /\ q \notin DOMAIN requests
        /\ requests'[q] = NewRequest(call[h])
        /\ \A x \in DOMAIN requests : requests'[x] = requests[x]
        /\ UNCHANGED <<userRewards, reopened>>
    BY <1>1 DEF SaveRequest, history
  <2> DEFINE new == [user |-> call[h].user, event |-> call[h].event,
                     rewards |-> RewardSet(call[h].rewardIds)]
  <2>2. new \in Ledger!Asked
    <3>1. call[h] \in Submission
      BY <1>1, CallShape DEF SaveRequest
    <3>2. call[h].rewardIds \in Seq(Rewards)
      BY <3>1, InputAssumption DEF Submission
    <3>3. RewardSet(call[h].rewardIds) \subseteq Rewards
      BY <3>2 DEF RewardSet
    <3> QED
      BY <3>1, <3>3 DEF Submission, Ledger!Asked
  <2> PICK a \in Ledger!Asked : a = new
    BY <2>2
  <2>3. AskedMap' = [x \in DOMAIN AskedMap \cup {q} |-> IF x = q THEN a ELSE AskedMap[x]]
    BY <2>1 DEF AskedMap, Asked, NewRequest
  <2>4. StatusMap' =
          [x \in DOMAIN AskedMap \cup {q} |-> IF x = q THEN "PENDING" ELSE StatusMap[x]]
    BY <2>1 DEF AskedMap, StatusMap, NewRequest
  <2>5. Ledger!Submit(q, a)
    BY <1>0, <2>1, <2>3, <2>4 DEF Ledger!Submit, AskedMap, StatusMap, IssuedMap
  <2> QED
    BY <2>5 DEF Ledger!Next
<1>2. ASSUME NEW h \in Handlers, IssueReward(h)
      PROVE  Ledger!Next
  <2>1. /\ call[h] \in Decision /\ call[h].id \in DOMAIN requests
        /\ call[h].id \in RequestIds /\ call[h].next \in DOMAIN IdsOf(h)
    BY <1>2, CallShape DEF IssueReward, LoopInside, TypeOK
  <2>2. IdsOf(h)[call[h].next] \in RewardSet(requests[call[h].id].rewardIds)
    BY <2>1 DEF IdsOf, RewardSet
  <2>3. IdsOf(h)[call[h].next] \in Rewards
    BY <2>1, <2>2, RewardSetType
  <2> PICK q \in RequestIds : q = call[h].id
    BY <2>1
  <2> PICK r \in Rewards : r = IdsOf(h)[call[h].next]
    BY <2>3
  <2>4. \A x \in RequestIds, s \in Rewards :
           userRewards'[x][s] = IF x = q /\ s = r THEN userRewards[x][s] + 1
                                ELSE userRewards[x][s]
    BY <1>2 DEF IssueReward, TypeOK
  <2>5. \A x \in RequestIds, s \in Rewards : userRewards[x][s] \in Nat
    BY DEF TypeOK
  <2>6. \A x \in RequestIds :
           IssuedMap'[x] = IF x = q THEN IssuedMap[x] \cup {r} ELSE IssuedMap[x]
    BY <2>4, <2>5 DEF IssuedMap
  <2>7. IssuedMap' = [IssuedMap EXCEPT ![q] = @ \cup {r}]
    <3>1. /\ IssuedMap \in [RequestIds -> SUBSET Rewards]
          /\ IssuedMap' \in [RequestIds -> SUBSET Rewards]
      BY DEF IssuedMap
    <3> QED
      BY <2>6, <3>1
  <2>8. r \in Asked(q).rewards /\ UNCHANGED <<requests, reopened>>
    BY <1>2, <2>2 DEF Asked, IssueReward, history
  <2>9. UNCHANGED <<AskedMap, StatusMap>>
    BY <2>8 DEF AskedMap, StatusMap, Asked
  <2>10. Ledger!Issue(q, r)
    BY <2>1, <2>7, <2>8, <2>9 DEF Ledger!Issue, AskedMap, StatusMap, IssuedMap, Asked
  <2> QED
    BY <2>10 DEF Ledger!Next
<1>3. ASSUME NEW h \in Handlers, WriteStatus(h)
      PROVE  Ledger!Next
  <2>1. /\ call[h] \in Decision /\ call[h].id \in DOMAIN requests
        /\ call[h].id \in RequestIds
    BY <1>3, CallShape DEF WriteStatus, TypeOK
  <2> PICK q \in RequestIds : q = call[h].id
    BY <2>1
  <2>2. /\ requests[q] \in RewardRequest /\ requests'[q] \in RewardRequest
        /\ DOMAIN requests' = DOMAIN requests
    BY <1>3, <2>1 DEF WriteStatus, TypeOK
  <2>3. requests'[q].status \in Ledger!Status
    BY <2>2 DEF RewardRequest, RequestStatus, Ledger!Status
  <2> PICK s \in Ledger!Status : s = requests'[q].status
    BY <2>3
  <2>4. /\ requests'[q].user = requests[q].user /\ requests'[q].event = requests[q].event
        /\ requests'[q].rewardIds = requests[q].rewardIds
        /\ \A x \in DOMAIN requests \ {q} : requests'[x] = requests[x]
    BY <1>3, <2>1, <2>2 DEF WriteStatus, RewardRequest
  <2>5. AskedMap' = AskedMap
    BY <2>2, <2>4 DEF AskedMap, Asked
  <2>6. StatusMap' = [StatusMap EXCEPT ![q] = s]
    BY <2>2, <2>4 DEF StatusMap
  <2>7. UNCHANGED <<userRewards, reopened>>
    BY <1>3 DEF WriteStatus, history
  <2>8. s = "APPROVED" =>
           \/ Asked(q).rewards \subseteq {r \in Rewards : userRewards[q][r] > 0}
           \/ q \in reopened
    <3> SUFFICES ASSUME s = "APPROVED", q \notin reopened, NEW r \in RewardSet(requests[q].rewardIds)
                 PROVE  r \in Rewards /\ userRewards[q][r] > 0
      BY DEF Asked
    <3>1. r \in Rewards
      BY <2>1, RewardSetType
    <3>2. userRewards'[q][r] > 0
      BY <2>1, <2>2, <2>4, <2>7 DEF ApprovedIsIssued, AllIssued
    <3> QED
      BY <2>7, <3>1, <3>2
  <2>9. Ledger!Decide(q, s)
    BY <1>0, <2>1, <2>5, <2>6, <2>7, <2>8
    DEF Ledger!Decide, AskedMap, StatusMap, IssuedMap, Asked
  <2> QED
    BY <2>9 DEF Ledger!Next
<1>4. CASE UNCHANGED <<requests, userRewards, reopened>>
  BY <1>4 DEF AskedMap, StatusMap, IssuedMap, Asked
<1>5. ASSUME NEW h \in Handlers, NEW q \in RequestIds, NEW to \in OperatorStatuses,
             UpdateRewardRequest(h, q, to)
      PROVE  Ledger!Next \/ UNCHANGED <<AskedMap, StatusMap, IssuedMap, reopened>>
  <2>1. UNCHANGED <<AskedMap, StatusMap, IssuedMap>>
    BY <1>5 DEF UpdateRewardRequest, AskedMap, StatusMap, IssuedMap, Asked
  <2>2. CASE Reopens(q, to)
    <3>1. q \in DOMAIN requests /\ requests[q].status \notin OpenStatuses
          /\ reopened' = reopened \cup {q}
      BY <1>5, <2>2 DEF UpdateRewardRequest, Reopens
    <3>2. Ledger!Reopen(q)
      BY <2>1, <3>1
      DEF Ledger!Reopen, Ledger!Open, OpenStatuses, AskedMap, StatusMap, IssuedMap
    <3> QED
      BY <3>2 DEF Ledger!Next
  <2>3. CASE ~Reopens(q, to)
    BY <1>5, <2>1, <2>3 DEF UpdateRewardRequest
  <2> QED
    BY <2>2, <2>3
<1> QED
  BY <1>1, <1>2, <1>3, <1>4, <1>5
  DEF Next, HandlerStep, vars, history, CreateRewardRequest, FindRewards,
      FindExisting, IssueRewards, CountIssued, CountFails, Fail, ChangeEvent,
      UpdateReward, Tick

\* RewardRequests implements RewardLedger: submissions, approvals and other
\* decisions that interleave and fail are its steps, an operator who sends an open
\* status for a closed request takes its step Reopen.
THEOREM LedgerRefined == Spec => LedgerSpec
<1>1. Init => Ledger!Init
  BY DEF Init, Ledger!Init
<1>2. Init => ListsValid /\ LoopInside
  BY InputAssumption DEF Init, ListsValid, LoopInside, Idle
<1>3. TypeOK /\ TypeOK' /\ ListsValid /\ LoopInside /\ [Next]_vars
        => ListsValid' /\ LoopInside'
  BY ListsStep, LoopStep
<1>4. /\ TypeOK /\ TypeOK' /\ LoopInside /\ OpenRequestsBounded' /\ ApprovedIsIssued'
      /\ [Next]_vars
      => [Ledger!Next]_<<AskedMap, StatusMap, IssuedMap, reopened>>
  BY LedgerSimulated
<1> QED
  BY <1>1, <1>2, <1>3, <1>4, TypeCorrect, OpenBounded, ApprovedIssued, PTL
  DEF Spec, LedgerSpec, Ledger!Spec, AskedMap, StatusMap, IssuedMap
=============================================================================

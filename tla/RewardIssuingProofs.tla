------------------------ MODULE RewardIssuingProofs ------------------------
(***************************************************************************)
(* More proofs about RewardRequests: what the counters of issued rewards   *)
(* have to do with the UserReward documents, in which order rewards are    *)
(* issued, what the documentation says of duplicates, under the conditions *)
(* in which it is true, and that every call ends.                          *)
(***************************************************************************)
EXTENDS RewardRequestsProofs

-----------------------------------------------------------------------------
(***************************************************************************)
(* The documents of a reward                                               *)
(***************************************************************************)

\* There are finitely many.
LEMMA DocumentsFinite ==
    ASSUME TypeOK, NEW r \in Rewards
    PROVE  IsFiniteSet(Documents(r)) /\ Cardinality(Documents(r)) \in Nat
<1> DEFINE Of(q) == {q} \X (1..userRewards[q][r])
           Parts == {Of(q) : q \in RequestIds}
<1>1. \A q \in RequestIds : IsFiniteSet(Of(q))
  <2> SUFFICES ASSUME NEW q \in RequestIds
               PROVE  IsFiniteSet(Of(q))
    OBVIOUS
  <2>1. PICK n \in Nat : userRewards[q][r] = n
    BY DEF TypeOK
  <2>2. IsFiniteSet(1..n)
    BY FS_Interval
  <2>3. IsFiniteSet({q})
    BY FS_Singleton
  <2> QED
    BY <2>1, <2>2, <2>3, FS_Product
<1>2. IsFiniteSet(Parts)
  <2>1. [q \in RequestIds |-> Of(q)] \in Surjection(RequestIds, Parts)
    BY DEF Surjection
  <2> HIDE DEF Parts, Of
  <2> QED
    BY <2>1, FiniteAssumption, FS_Surjection
<1>3. \A P \in Parts : IsFiniteSet(P)
  BY <1>1
<1>4. IsFiniteSet(UNION Parts)
  <2> HIDE DEF Parts
  <2> QED
    BY <1>2, <1>3, FS_UNION
<1>5. Documents(r) = UNION Parts
  BY DEF Documents
<1> HIDE DEF Parts
<1> QED
  BY <1>4, <1>5, FS_CardinalityType

\* A document of one more request and reward is one more document of the reward.
LEMMA DocumentAdded ==
    ASSUME TypeOK, NEW r \in Rewards, NEW q \in RequestIds,
           userRewards'[q][r] = userRewards[q][r] + 1,
           \A x \in RequestIds \ {q} : userRewards'[x][r] = userRewards[x][r]
    PROVE  Cardinality(Documents(r)') = Cardinality(Documents(r)) + 1
<1> DEFINE n == userRewards[q][r] + 1
<1>1. userRewards[q][r] \in Nat
  BY DEF TypeOK
<1>2. 1..userRewards'[q][r] = (1..userRewards[q][r]) \cup {n}
  BY <1>1
<1>3. \A d : d \in Documents(r)' <=> d \in Documents(r) \/ d = <<q, n>>
  BY <1>2 DEF Documents
<1>4. <<q, n>> \notin Documents(r)
  BY <1>1 DEF Documents
<1>5. Documents(r)' = Documents(r) \cup {<<q, n>>}
  BY <1>3
<1> QED
  BY <1>4, <1>5, DocumentsFinite, FS_AddElement, ZenonT(60)

LEMMA DocumentsKept ==
    ASSUME NEW r \in Rewards,
           \A q \in RequestIds : userRewards'[q][r] = userRewards[q][r]
    PROVE  Documents(r)' = Documents(r)
  BY DEF Documents

-----------------------------------------------------------------------------
(***************************************************************************)
(* The counter of issued rewards                                           *)
(***************************************************************************)

\* The loop starts at the head of its list, and has issued all of it when it ends.
LoopDone ==
    \A h \in Handlers :
        /\ call[h].pc = "issueRead" => call[h].next = 1
        /\ call[h].pc = "count" => call[h].next = Len(IdsOf(h)) + 1

\* What a handler between the loop and the counter has issued: its list.
LEMMA GrantedAll ==
    ASSUME TypeOK, LoopDone, NEW h \in Handlers, call[h].pc = "count", NEW r
    PROVE  Granted(h, call[h].id, r) <=> r \in RewardSet(IdsOf(h))
<1>1. call[h] \in Decision /\ call[h].id \in DOMAIN requests
  BY CallShape
<1>2. DOMAIN IdsOf(h) = 1..Len(IdsOf(h)) /\ Len(IdsOf(h)) \in Nat
  BY <1>1, RewardSetType DEF IdsOf
<1>3. 1..(call[h].next - 1) = DOMAIN IdsOf(h)
  BY <1>2 DEF LoopDone
<1> QED
  BY <1>3 DEF Granted, Decides, RewardSet, IdsOf

\* No step breaks it.
LEMMA LoopDoneStep ==
    ASSUME TypeOK, TypeOK', LoopDone, [Next]_vars
    PROVE  LoopDone'
<1>0. RewardsKept
  BY StepKeepsRewards
<1>1. ASSUME NEW g \in Handlers, call'[g] = call[g], call'[g].pc = "count"
      PROVE  call'[g].next = Len(IdsOf(g))' + 1
  <2>1. call[g].id \in DOMAIN requests /\ call[g].next = Len(IdsOf(g)) + 1
    BY <1>1, CallShape DEF LoopDone
  <2> QED
    BY <1>0, <1>1, <2>1 DEF IdsOf, RewardsKept
<1>2. ASSUME NEW h \in Handlers, \A g \in Handlers \ {h} : call'[g] = call[g],
             call'[h].pc = "issueRead" => call'[h].next = 1,
             call'[h].pc = "count" => call'[h].next = Len(IdsOf(h))' + 1
      PROVE  LoopDone'
  BY <1>1, <1>2 DEF LoopDone
<1>3. ASSUME NEW h \in Handlers, NEW u \in Users, NEW e \in Events,
             NEW ids \in RewardLists, NEW d \in Evidence,
             CreateRewardRequest(h, u, e, ids, d)
      PROVE  LoopDone'
  BY <1>2, <1>3 DEF CreateRewardRequest, TypeOK
<1>4. ASSUME NEW h \in Handlers, NEW q \in RequestIds,
             NEW to \in OperatorStatuses, UpdateRewardRequest(h, q, to)
      PROVE  LoopDone'
  BY <1>2, <1>4 DEF UpdateRewardRequest, AfterRead, TypeOK
<1>5. ASSUME NEW h \in Handlers,
             FindRewards(h) \/ FindExisting(h) \/ IssueRewards(h) \/ CountIssued(h)
             \/ CountFails(h) \/ WriteStatus(h) \/ Fail(h)
             \/ \E q \in RequestIds : SaveRequest(h, q)
      PROVE  LoopDone'
  <2>1. \A g \in Handlers \ {h} : call'[g] = call[g]
    BY <1>5 DEF FindRewards, FindExisting, IssueRewards, CountIssued, CountFails,
                WriteStatus, Fail, SaveRequest, Goto, Return, TypeOK
  <2>2. call[h].pc # "idle" => call[h] \in Submission \cup Decision
    BY CallShape DEF Idle
  <2>3. ASSUME Return(h)
        PROVE  call'[h].pc = "idle"
    BY <2>3 DEF Return, TypeOK, Idle
  <2>4. ASSUME NEW pc, Goto(h, pc), call[h].pc # "idle"
        PROVE  call'[h].pc = pc
    BY <2>2, <2>4 DEF Goto, TypeOK, Submission, Decision
  <2>5. call'[h].pc \notin {"issueRead", "count"}
    BY <1>5, <2>3, <2>4
    DEF FindRewards, FindExisting, IssueRewards, AfterReread, CountIssued, CountFails,
        WriteStatus, Fail, SaveRequest
  <2> QED
    BY <1>2, <2>1, <2>5
<1>6. ASSUME NEW h \in Handlers, IssueReward(h)
      PROVE  LoopDone'
  <2>1. /\ call'[h].next = call[h].next + 1 /\ call'[h].pc = AfterIssue(h)
        /\ IdsOf(h)' = IdsOf(h) /\ \A g \in Handlers \ {h} : call'[g] = call[g]
    BY <1>6, ZenonT(60) DEF IssueReward, IdsOf, TypeOK
  <2>2. /\ AfterIssue(h) # "issueRead"
        /\ AfterIssue(h) = "count" => call[h].next = Len(IdsOf(h))
    BY DEF AfterIssue
  <2> QED
    BY <1>2, <2>1, <2>2
<1>7. CASE UNCHANGED call
  BY <1>1, <1>7 DEF LoopDone
<1> QED
  BY <1>3, <1>4, <1>5, <1>6, <1>7
  DEF Next, HandlerStep, vars, ChangeEvent, UpdateReward, Tick

\* QuantityLedger for one reward.
Balanced(r) ==
    /\ issuedQuantity[r] + Cardinality(InFlight(r)) <= Cardinality(Documents(r))
    /\ ~Failures =>
          issuedQuantity[r] + Cardinality(InFlight(r)) = Cardinality(Documents(r))

AllBalanced == \A r \in Rewards : Balanced(r)

LEMMA InFlightFinite ==
    ASSUME NEW r
    PROVE  IsFiniteSet(InFlight(r)) /\ Cardinality(InFlight(r)) \in Nat
  BY HandlersFinite DEF InFlight

\* The step of one handler leaves it open only whether that one is in flight.
LEMMA InFlightKept ==
    ASSUME TypeOK, RewardsKept, NEW h \in Handlers,
           \A g \in Handlers \ {h} : call'[g] = call[g], NEW r
    PROVE  /\ InFlight(r)' \ {h} = InFlight(r) \ {h}
           /\ (h \in InFlight(r)' <=> h \in InFlight(r)) => InFlight(r)' = InFlight(r)
<1>1. \A g \in Handlers \ {h} :
          Granted(g, call[g].id, r)' <=> Granted(g, call[g].id, r)
  <2> SUFFICES ASSUME NEW g \in Handlers \ {h}
               PROVE  Granted(g, call[g].id, r)' <=> Granted(g, call[g].id, r)
    OBVIOUS
  <2>1. PICK q : q = call[g].id /\ call'[g] = call[g]
    OBVIOUS
  <2>2. Granted(g, q, r)' <=> Granted(g, q, r)
    BY <2>1, GrantedKept
  <2> QED
    BY <2>1, <2>2 DEF Granted, Decides
<1>2. \A g \in Handlers \ {h} : g \in InFlight(r)' <=> g \in InFlight(r)
  BY <1>1 DEF InFlight
<1>3. InFlight(r) \subseteq Handlers /\ InFlight(r)' \subseteq Handlers
  BY DEF InFlight
<1> QED
  BY <1>2, <1>3

\* A step that neither issues nor counts keeps the balance if the same handlers
\* are in flight, or fewer after a failure.
LEMMA BalanceKept ==
    ASSUME TypeOK, NEW r \in Rewards, Balanced(r),
           issuedQuantity'[r] = issuedQuantity[r],
           \A q \in RequestIds : userRewards'[q][r] = userRewards[q][r],
           InFlight(r)' \subseteq InFlight(r),
           ~Failures => InFlight(r)' = InFlight(r)
    PROVE  Balanced(r)'
<1>1. Documents(r)' = Documents(r)
  BY DocumentsKept
<1>2. Cardinality(InFlight(r)') <= Cardinality(InFlight(r))
  BY InFlightFinite, FS_Subset
<1>3. Cardinality(InFlight(r)') \in Nat
  BY InFlightFinite, FS_Subset, FS_CardinalityType
<1>4. issuedQuantity[r] \in Int /\ Cardinality(Documents(r)) \in Nat
  BY DocumentsFinite DEF TypeOK
<1> QED
  BY <1>1, <1>2, <1>3, <1>4, InFlightFinite DEF Balanced

\* One turn of the loop adds a document of the reward at its position, and puts its
\* handler among those in flight for this reward and for no other.
LEMMA IssueBalanced ==
    ASSUME TypeOK, TypeOK', RewardsKept, ListsValid, LoopInside,
           NEW r \in Rewards, Balanced(r), NEW h \in Handlers, IssueReward(h)
    PROVE  Balanced(r)'
<1>1. /\ call[h] \in Decision /\ call[h].id \in DOMAIN requests
      /\ call[h].id \in RequestIds
      /\ call[h].next \in DOMAIN IdsOf(h) /\ call[h].pc = "issue"
  BY CallShape DEF IssueReward, LoopInside, TypeOK
<1>2. /\ call'[h].next = call[h].next + 1 /\ call'[h].id = call[h].id
      /\ call'[h].pc \in {"issue", "count"} /\ requests' = requests
      /\ \A g \in Handlers \ {h} : call'[g] = call[g]
      /\ issuedQuantity' = issuedQuantity
  BY DEF IssueReward, TypeOK, AfterIssue
<1>3. /\ call[h].next \in Nat /\ IdsOf(h) \in Seq(Rewards)
      /\ DOMAIN IdsOf(h) = 1..Len(IdsOf(h)) /\ Len(IdsOf(h)) \in Nat
      /\ IdsOf(h)[call[h].next] \in Rewards
  BY <1>1, RewardSetType DEF IdsOf, Decision
<1>4. \A i : i \in 1..(call'[h].next - 1)
               <=> i \in 1..(call[h].next - 1) \/ i = call[h].next
  BY <1>1, <1>2, <1>3
<1>5. Decides(h, call[h].id) /\ Decides(h, call[h].id)'
  BY <1>1, <1>2 DEF Decides
<1>6. h \in InFlight(r)' <=> Granted(h, call[h].id, r)'
  BY <1>2 DEF InFlight, Granted, Decides
<1>7. h \in InFlight(r) <=> Granted(h, call[h].id, r)
  BY <1>1 DEF InFlight
<1>8. h \in InFlight(r)' <=> h \in InFlight(r) \/ IdsOf(h)[call[h].next] = r
  BY <1>2, <1>4, <1>5, <1>6, <1>7 DEF Granted, IdsOf
<1>9. CASE IdsOf(h)[call[h].next] = r
  <2>1. \A i, j \in DOMAIN IdsOf(h) : IdsOf(h)[i] = IdsOf(h)[j] => i = j
    <3>1. Len(IdsOf(h)) = Cardinality(RewardSet(IdsOf(h)))
      BY <1>1 DEF ListsValid, ListValid, IdsOf
    <3> QED
      BY <1>3, <3>1, NamedOnce
  <2>2. h \notin InFlight(r)
    BY <1>1, <1>3, <1>7, <1>9, <2>1, SMTT(60) DEF Granted, IdsOf
  <2>3. InFlight(r)' = InFlight(r) \cup {h}
    BY <1>2, <1>8, <1>9, <2>2, InFlightKept
  <2>4. Cardinality(InFlight(r)') = Cardinality(InFlight(r)) + 1
    BY <2>2, <2>3, InFlightFinite, FS_AddElement
  <2>5. /\ userRewards'[call[h].id][r] = userRewards[call[h].id][r] + 1
        /\ \A x \in RequestIds \ {call[h].id} : userRewards'[x][r] = userRewards[x][r]
    BY <1>1, <1>9 DEF IssueReward, TypeOK
  <2>6. Cardinality(Documents(r)') = Cardinality(Documents(r)) + 1
    BY <1>1, <2>5, DocumentAdded
  <2>7. issuedQuantity[r] \in Int /\ Cardinality(Documents(r)) \in Nat
    BY DocumentsFinite DEF TypeOK
  <2> QED
    BY <1>2, <2>4, <2>6, <2>7, InFlightFinite DEF Balanced
<1>10. CASE IdsOf(h)[call[h].next] # r
  <2>1. \A q \in RequestIds : userRewards'[q][r] = userRewards[q][r]
    BY <1>1, <1>3, <1>10, SMTT(60) DEF IssueReward, TypeOK
  <2>2. InFlight(r)' = InFlight(r)
    BY <1>2, <1>8, <1>10, InFlightKept
  <2> QED
    BY <1>2, <2>1, <2>2, BalanceKept
<1> QED
  BY <1>9, <1>10

\* Counting a reward takes its handler out of those in flight for it; a handler in
\* flight that counts another reward only was not in flight for this one, unless
\* its updateMany failed.
LEMMA CountBalanced ==
    ASSUME TypeOK, TypeOK', RewardsKept, LoopDone, NEW r \in Rewards, Balanced(r),
           NEW h \in Handlers, call[h].pc = "count",
           NEW S \in SUBSET RewardSet(IdsOf(h)),
           Failures \/ S = RewardSet(IdsOf(h)),
           issuedQuantity' = Incremented(S), userRewards' = userRewards,
           \A g \in Handlers \ {h} : call'[g] = call[g],
           call'[h].pc \notin {"issue", "count"}
    PROVE  Balanced(r)'
<1>1. h \notin InFlight(r)' /\ InFlight(r)' \subseteq InFlight(r) \ {h}
  <2>1. h \notin InFlight(r)'
    BY DEF InFlight
  <2> QED
    BY <2>1, InFlightKept
<1>2. h \in InFlight(r) <=> r \in RewardSet(IdsOf(h))
  BY GrantedAll DEF InFlight
<1>3. issuedQuantity[r] \in Int /\ Cardinality(Documents(r)) \in Nat
  BY DocumentsFinite DEF TypeOK
<1>4. CASE r \in S
  <2>1. issuedQuantity'[r] = issuedQuantity[r] + 1
    BY <1>4 DEF Incremented
  <2>2. InFlight(r)' = InFlight(r) \ {h} /\ h \in InFlight(r)
    BY <1>1, <1>2, <1>4, InFlightKept
  <2>3. Cardinality(InFlight(r)') = Cardinality(InFlight(r)) - 1
    BY <2>2, InFlightFinite, FS_RemoveElement
  <2>4. Documents(r)' = Documents(r)
    BY DocumentsKept
  <2> QED
    BY <1>3, <2>1, <2>3, <2>4, InFlightFinite DEF Balanced
<1>5. CASE r \notin S
  <2>1. issuedQuantity'[r] = issuedQuantity[r]
    BY <1>3, <1>5 DEF Incremented
  <2>2. ~Failures => h \notin InFlight(r)
    BY <1>2, <1>5
  <2>3. ~Failures => InFlight(r)' = InFlight(r)
    BY <1>1, <2>2, InFlightKept
  <2> QED
    BY <1>1, <2>1, <2>3, BalanceKept
<1> QED
  BY <1>4, <1>5

\* No step breaks the balance, unless an operator writes the counter.
LEMMA BalanceStep ==
    ASSUME NoOverwrites, TypeOK, TypeOK', ListsValid, LoopInside, LoopDone,
           AllBalanced, [Next]_vars
    PROVE  AllBalanced'
<1> SUFFICES ASSUME NEW r \in Rewards
             PROVE  Balanced(r)'
  BY DEF AllBalanced
<1>0. RewardsKept /\ Balanced(r)
  BY StepKeepsRewards DEF AllBalanced
<1>1. ASSUME NEW h \in Handlers,
             \/ \E u \in Users, e \in Events, ids \in RewardLists, d \in Evidence :
                   CreateRewardRequest(h, u, e, ids, d)
             \/ \E q \in RequestIds, to \in OperatorStatuses :
                   UpdateRewardRequest(h, q, to)
             \/ FindRewards(h) \/ FindExisting(h) \/ IssueRewards(h) \/ WriteStatus(h)
             \/ \E q \in RequestIds : SaveRequest(h, q)
      PROVE  Balanced(r)'
  <2>1. issuedQuantity' = issuedQuantity /\ userRewards' = userRewards
    BY <1>1 DEF CreateRewardRequest, UpdateRewardRequest, FindRewards, FindExisting,
                IssueRewards, WriteStatus, SaveRequest
  <2>2. call[h].pc \notin {"issue", "count"}
    <3>1. call[h] = Idle \/ call[h].pc \in {"findRewards", "findExisting", "issueRead",
                                           "save", "write"}
      BY <1>1, Zenon DEF CreateRewardRequest, UpdateRewardRequest, FindRewards,
                         FindExisting, IssueRewards, WriteStatus, SaveRequest
    <3> QED
      BY <3>1 DEF Idle
  <2>3. \A g \in Handlers \ {h} : call'[g] = call[g]
    <3>1. ASSUME NEW pc, Goto(h, pc)
          PROVE  \A g \in Handlers \ {h} : call'[g] = call[g]
      BY <3>1 DEF Goto, TypeOK
    <3>2. ASSUME NEW u \in Users, NEW e \in Events, NEW ids \in RewardLists,
                 NEW d \in Evidence, CreateRewardRequest(h, u, e, ids, d)
          PROVE  \A g \in Handlers \ {h} : call'[g] = call[g]
      BY <3>2 DEF CreateRewardRequest, TypeOK
    <3>3. ASSUME NEW q \in RequestIds, NEW to \in OperatorStatuses,
                 UpdateRewardRequest(h, q, to)
          PROVE  \A g \in Handlers \ {h} : call'[g] = call[g]
      BY <3>3 DEF UpdateRewardRequest, TypeOK
    <3>4. ASSUME Return(h)
          PROVE  \A g \in Handlers \ {h} : call'[g] = call[g]
      BY <3>4 DEF Return, TypeOK
    <3> QED
      BY <1>1, <3>1, <3>2, <3>3, <3>4
      DEF FindRewards, FindExisting, IssueRewards, WriteStatus, SaveRequest
  <2>4. h \notin InFlight(r)'
    <3>1. ASSUME Return(h)
          PROVE  h \notin InFlight(r)'
      BY <3>1 DEF Return, Idle, InFlight, TypeOK
    <3>2. ASSUME NEW pc \in {"findExisting", "save"}, Goto(h, pc), call[h] \in Submission
          PROVE  h \notin InFlight(r)'
      BY <3>2 DEF Goto, InFlight, TypeOK, Submission
    <3>3. CASE IssueRewards(h)
      <4>1. call[h] \in Decision /\ call[h].next = 1
        BY <3>3, CallShape, SMTT(60) DEF IssueRewards, LoopDone
      <4>2. call'[h].next = 1
        BY <3>3, <4>1 DEF IssueRewards, Goto, TypeOK, Decision
      <4> QED
        BY <4>2 DEF InFlight, Granted
    <3>4. ASSUME NEW u \in Users, NEW e \in Events, NEW ids \in RewardLists,
                 NEW d \in Evidence, CreateRewardRequest(h, u, e, ids, d)
          PROVE  h \notin InFlight(r)'
      BY <3>4 DEF CreateRewardRequest, InFlight, TypeOK
    <3>5. ASSUME NEW q \in RequestIds, NEW to \in OperatorStatuses,
                 UpdateRewardRequest(h, q, to)
          PROVE  h \notin InFlight(r)'
      BY <3>5 DEF UpdateRewardRequest, AfterRead, InFlight, TypeOK
    <3> QED
      BY <1>1, <3>1, <3>2, <3>3, <3>4, <3>5, CallShape
      DEF FindRewards, FindExisting, WriteStatus, SaveRequest
  <2>5. InFlight(r)' = InFlight(r)
    BY <1>0, <2>2, <2>3, <2>4, InFlightKept DEF InFlight
  <2> QED
    BY <1>0, <2>1, <2>5, BalanceKept
<1>2. ASSUME NEW h \in Handlers, IssueReward(h)
      PROVE  Balanced(r)'
  BY <1>0, <1>2, IssueBalanced
<1>3. ASSUME NEW h \in Handlers, CountIssued(h)
      PROVE  Balanced(r)'
  <2>1. call[h] \in Decision /\ call[h].pc = "count"
    BY <1>3, CallShape DEF CountIssued
  <2>2. call'[h].pc = "write" /\ \A g \in Handlers \ {h} : call'[g] = call[g]
    BY <1>3, <2>1 DEF CountIssued, Goto, TypeOK, Decision
  <2> QED
    BY <1>0, <1>3, <2>1, <2>2, CountBalanced DEF CountIssued
<1>4. ASSUME NEW h \in Handlers, CountFails(h)
      PROVE  Balanced(r)'
  <2>1. call'[h].pc = "idle" /\ \A g \in Handlers \ {h} : call'[g] = call[g]
    BY <1>4 DEF CountFails, Return, TypeOK, Idle
  <2>2. PICK S \in SUBSET RewardSet(IdsOf(h)) : issuedQuantity' = Incremented(S)
    BY <1>4 DEF CountFails
  <2>3. Failures /\ call[h].pc = "count" /\ userRewards' = userRewards
    BY <1>4 DEF CountFails
  <2> QED
    BY <1>0, <2>1, <2>2, <2>3, CountBalanced
<1>5. ASSUME NEW h \in Handlers, Fail(h)
      PROVE  Balanced(r)'
  <2>1. call'[h].pc = "idle" /\ \A g \in Handlers \ {h} : call'[g] = call[g]
    BY <1>5 DEF Fail, Return, TypeOK, Idle
  <2>2. InFlight(r)' \subseteq InFlight(r)
    <3>1. h \notin InFlight(r)'
      BY <2>1 DEF InFlight
    <3> QED
      BY <1>0, <2>1, <3>1, InFlightKept
  <2> QED
    BY <1>0, <1>5, <2>2, BalanceKept DEF Fail
<1>6. ASSUME NEW x \in Rewards, NEW dto \in RewardEdits, UpdateReward(x, dto)
      PROVE  Balanced(r)'
  <2>1. issuedQuantity' = issuedQuantity /\ UNCHANGED <<userRewards, call, requests>>
    BY <1>6 DEF UpdateReward, NoOverwrites
  <2>2. InFlight(r)' = InFlight(r)
    BY <2>1 DEF InFlight, Granted, Decides
  <2> QED
    BY <1>0, <2>1, <2>2, BalanceKept
<1>7. CASE UNCHANGED <<requests, userRewards, issuedQuantity, call>>
  <2>1. InFlight(r)' = InFlight(r)
    BY <1>7 DEF InFlight, Granted, Decides
  <2> QED
    BY <1>0, <1>7, <2>1, BalanceKept
<1> QED
  BY <1>1, <1>2, <1>3, <1>4, <1>5, <1>6, <1>7
  DEF Next, HandlerStep, vars, ChangeEvent, Tick

\* Unless operators write the counter themselves, issuedQuantity is the number of
\* UserReward documents less those of approvals between their loop and their count;
\* failures only ever make it less.
THEOREM QuantitiesCounted == Spec => []QuantityLedger
<1>1. CASE NoOverwrites
  <2>1. Init => ListsValid /\ LoopInside /\ LoopDone
    BY InputAssumption DEF Init, ListsValid, LoopInside, LoopDone, Idle
  <2>2. Init => AllBalanced
    <3> SUFFICES ASSUME Init, NEW r \in Rewards
                 PROVE  Balanced(r)
      BY DEF AllBalanced
    <3>1. InFlight(r) = {} /\ issuedQuantity[r] = 0
      BY DEF Init, InFlight, Idle
    <3>2. Documents(r) = {}
      BY DEF Init, Documents
    <3> QED
      BY <3>1, <3>2, FS_EmptySet DEF Balanced
  <2>3. /\ TypeOK /\ TypeOK' /\ ListsValid /\ LoopInside /\ LoopDone /\ AllBalanced
        /\ [Next]_vars
        => ListsValid' /\ LoopInside' /\ LoopDone' /\ AllBalanced'
    BY <1>1, ListsStep, LoopStep, LoopDoneStep, BalanceStep
  <2>4. AllBalanced => QuantityLedger
    BY DEF AllBalanced, Balanced, QuantityLedger
  <2> QED
    BY <2>1, <2>2, <2>3, <2>4, TypeCorrect, PTL DEF Spec
<1>2. CASE ~NoOverwrites
  <2>1. QuantityLedger
    BY <1>2 DEF QuantityLedger
  <2> QED
    BY <2>1, PTL
<1> QED
  BY <1>1, <1>2

-----------------------------------------------------------------------------
(***************************************************************************)
(* The loop walks its list in order                                        *)
(***************************************************************************)

\* Reward b, next to a at position i of the list of q, is issued after it.
Ordered(q, a, b, i) ==
    /\ userRewards[q][b] + Cardinality(Between(q, i)) <= userRewards[q][a]
    /\ ~Failures => userRewards[q][b] + Cardinality(Between(q, i)) = userRewards[q][a]

\* The strengthening of IssuedInOrder: nothing is issued for what is not stored.
OrderInv ==
    /\ \A q \in DOMAIN requests : \A i \in 1..(Len(requests[q].rewardIds) - 1) :
          Ordered(q, requests[q].rewardIds[i], requests[q].rewardIds[i + 1], i)
    /\ \A q \in RequestIds \ DOMAIN requests, r \in Rewards : userRewards[q][r] = 0

LEMMA BetweenFinite ==
    ASSUME NEW q, NEW i
    PROVE  IsFiniteSet(Between(q, i)) /\ Cardinality(Between(q, i)) \in Nat
  BY HandlersFinite DEF Between

\* The step of one handler leaves it open only whether that one is between the two.
LEMMA BetweenKept ==
    ASSUME NEW h \in Handlers, \A g \in Handlers \ {h} : call'[g] = call[g],
           NEW q, NEW i
    PROVE  /\ Between(q, i)' \ {h} = Between(q, i) \ {h}
           /\ (h \in Between(q, i)' <=> h \in Between(q, i))
                 => Between(q, i)' = Between(q, i)
<1>1. \A g \in Handlers \ {h} : g \in Between(q, i)' <=> g \in Between(q, i)
  BY DEF Between
<1>2. Between(q, i) \subseteq Handlers /\ Between(q, i)' \subseteq Handlers
  BY DEF Between
<1> QED
  BY <1>1, <1>2

\* A step that issues neither reward keeps their order if the same handlers are
\* between them, or fewer after a failure.
LEMMA OrderKept ==
    ASSUME TypeOK, NEW q \in RequestIds, NEW a \in Rewards, NEW b \in Rewards, NEW i,
           Ordered(q, a, b, i),
           userRewards'[q][a] = userRewards[q][a],
           userRewards'[q][b] = userRewards[q][b],
           Between(q, i)' \subseteq Between(q, i),
           ~Failures => Between(q, i)' = Between(q, i)
    PROVE  Ordered(q, a, b, i)'
<1>1. /\ Cardinality(Between(q, i)') <= Cardinality(Between(q, i))
      /\ Cardinality(Between(q, i)') \in Nat
  BY BetweenFinite, FS_Subset, FS_CardinalityType
<1>2. userRewards[q][a] \in Nat /\ userRewards[q][b] \in Nat
  BY DEF TypeOK
<1> QED
  BY <1>1, <1>2, BetweenFinite DEF Ordered

\* One turn of the loop puts its handler between the reward that it issues and the
\* next one, and takes it from between that reward and the one before.
LEMMA OrderIssued ==
    ASSUME TypeOK, TypeOK', ListsValid, LoopInside, NEW q \in DOMAIN requests,
           NEW i \in Nat \ {0}, i + 1 <= Len(requests[q].rewardIds),
           NEW a \in Rewards, a = requests[q].rewardIds[i],
           NEW b \in Rewards, b = requests[q].rewardIds[i + 1],
           Ordered(q, a, b, i), NEW h \in Handlers, IssueReward(h)
    PROVE  Ordered(q, a, b, i)'
<1>1. /\ call[h] \in Decision /\ call[h].id \in DOMAIN requests
      /\ call[h].next \in DOMAIN IdsOf(h) /\ call[h].pc = "issue"
      /\ call[h].next \in Nat /\ q \in RequestIds
  BY CallShape DEF IssueReward, LoopInside, TypeOK, Decision
<1>2. /\ call'[h].next = call[h].next + 1 /\ call'[h].id = call[h].id
      /\ call'[h].pc = AfterIssue(h)
      /\ \A g \in Handlers \ {h} : call'[g] = call[g]
  BY DEF IssueReward, TypeOK
<1>3. h \in Between(q, i) <=> call[h].id = q /\ call[h].next = i + 1
  BY <1>1 DEF Between
<1>4. h \in Between(q, i)' <=> call[h].id = q /\ call[h].next = i
  <2>1. h \in Between(q, i)' <=>
           AfterIssue(h) = "issue" /\ call[h].id = q /\ call[h].next + 1 = i + 1
    BY <1>2 DEF Between
  <2>2. call[h].id = q /\ call[h].next = i => AfterIssue(h) = "issue"
    <3> SUFFICES ASSUME call[h].id = q, call[h].next = i
                 PROVE  AfterIssue(h) = "issue"
      OBVIOUS
    <3>1. Len(IdsOf(h)) \in Nat /\ IdsOf(h) = requests[q].rewardIds
      BY RewardSetType DEF IdsOf
    <3>2. call[h].next # Len(IdsOf(h))
      BY <3>1
    <3> QED
      BY <3>2 DEF AfterIssue
  <2> QED
    BY <1>1, <2>1, <2>2
<1>5. userRewards[q][a] \in Nat /\ userRewards[q][b] \in Nat
  BY <1>1, ZenonT(60) DEF TypeOK
<1>6. /\ requests[q].rewardIds \in Seq(Rewards)
      /\ \A j, k \in DOMAIN requests[q].rewardIds :
            requests[q].rewardIds[j] = requests[q].rewardIds[k] => j = k
      /\ i \in DOMAIN requests[q].rewardIds /\ i + 1 \in DOMAIN requests[q].rewardIds
  <2>1. /\ requests[q].rewardIds \in Seq(Rewards)
        /\ Len(requests[q].rewardIds) = Cardinality(RewardSet(requests[q].rewardIds))
    BY RewardSetType DEF ListsValid, ListValid
  <2> QED
    BY <2>1, NamedOnce
<1>7. \A r \in Rewards :
          userRewards'[q][r] = IF call[h].id = q /\ IdsOf(h)[call[h].next] = r
                               THEN userRewards[q][r] + 1 ELSE userRewards[q][r]
  BY <1>1, ZenonT(60) DEF IssueReward, TypeOK
<1>8. a # b /\ Cardinality(Between(q, i)) \in Nat
  BY <1>6, BetweenFinite
<1>9. /\ userRewards[q][b] + Cardinality(Between(q, i)) <= userRewards[q][a]
      /\ ~Failures => userRewards[q][b] + Cardinality(Between(q, i)) = userRewards[q][a]
  BY DEF Ordered
<1>10. CASE call[h].id = q /\ call[h].next = i
  <2>1. /\ userRewards'[q][a] = userRewards[q][a] + 1
        /\ userRewards'[q][b] = userRewards[q][b]
    BY <1>7, <1>8, <1>10 DEF IdsOf
  <2>2. h \notin Between(q, i) /\ h \in Between(q, i)'
    BY <1>3, <1>4, <1>10
  <2>3. Between(q, i)' = Between(q, i) \cup {h}
    BY <1>2, <2>2, BetweenKept
  <2>4. Cardinality(Between(q, i)') = Cardinality(Between(q, i)) + 1
    BY <2>2, <2>3, BetweenFinite, FS_AddElement
  <2>5. PICK k \in Nat, n \in Nat, m \in Nat :
           k = userRewards[q][b] /\ n = Cardinality(Between(q, i)) /\ m = userRewards[q][a]
    BY <1>5, <1>8
  <2>6. PICK k1, n1, m1 :
           /\ k1 = userRewards'[q][b] /\ n1 = Cardinality(Between(q, i)')
           /\ m1 = userRewards'[q][a]
    OBVIOUS
  <2>7. k + n <= m /\ (~Failures => k + n = m)
    BY <1>9, <2>5
  <2>8. k1 = k /\ n1 = n + 1 /\ m1 = m + 1
    BY <2>1, <2>4, <2>5, <2>6
  <2>9. k1 + n1 <= m1 /\ (~Failures => k1 + n1 = m1)
    BY <2>7, <2>8
  <2> QED
    BY <2>6, <2>9 DEF Ordered
<1>11. CASE call[h].id = q /\ call[h].next = i + 1
  <2>1. /\ userRewards'[q][b] = userRewards[q][b] + 1
        /\ userRewards'[q][a] = userRewards[q][a]
    BY <1>7, <1>8, <1>11 DEF IdsOf
  <2>2. h \in Between(q, i) /\ h \notin Between(q, i)'
    BY <1>3, <1>4, <1>11
  <2>3. Between(q, i)' = Between(q, i) \ {h}
    BY <1>2, <2>2, BetweenKept
  <2>4. Cardinality(Between(q, i)') = Cardinality(Between(q, i)) - 1
    BY <2>2, <2>3, BetweenFinite, FS_RemoveElement, ZenonT(60)
  <2>5. PICK k \in Nat, n \in Nat, m \in Nat :
           k = userRewards[q][b] /\ n = Cardinality(Between(q, i)) /\ m = userRewards[q][a]
    BY <1>5, <1>8
  <2>6. PICK k1, n1, m1 :
           /\ k1 = userRewards'[q][b] /\ n1 = Cardinality(Between(q, i)')
           /\ m1 = userRewards'[q][a]
    OBVIOUS
  <2>7. k + n <= m /\ (~Failures => k + n = m)
    BY <1>9, <2>5
  <2>8. k1 = k + 1 /\ n1 = n - 1 /\ m1 = m
    BY <2>1, <2>4, <2>5, <2>6
  <2>9. k1 + n1 <= m1 /\ (~Failures => k1 + n1 = m1)
    BY <2>7, <2>8
  <2> QED
    BY <2>6, <2>9 DEF Ordered
<1>12. CASE ~(call[h].id = q /\ call[h].next \in {i, i + 1})
  <2>1. userRewards'[q][a] = userRewards[q][a] /\ userRewards'[q][b] = userRewards[q][b]
    BY <1>1, <1>6, <1>7, <1>12 DEF IdsOf
  <2>2. Between(q, i)' = Between(q, i)
    BY <1>2, <1>3, <1>4, <1>12, BetweenKept
  <2> QED
    BY <1>1, <2>1, <2>2, OrderKept
<1> QED
  BY <1>10, <1>11, <1>12

\* No step breaks the order of two rewards of a stored request.
LEMMA OrderedStep ==
    ASSUME TypeOK, TypeOK', ListsValid, LoopInside, LoopDone, NEW q \in DOMAIN requests,
           NEW i \in Nat \ {0}, i + 1 <= Len(requests[q].rewardIds),
           NEW a \in Rewards, a = requests[q].rewardIds[i],
           NEW b \in Rewards, b = requests[q].rewardIds[i + 1],
           Ordered(q, a, b, i), [Next]_vars
    PROVE  Ordered(q, a, b, i)'
<1>0. q \in RequestIds
  BY DEF TypeOK
<1>1. ASSUME NEW h \in Handlers, \A g \in Handlers \ {h} : call'[g] = call[g],
             UNCHANGED userRewards, h \notin Between(q, i)',
             Failures \/ h \notin Between(q, i)
      PROVE  Ordered(q, a, b, i)'
  <2>1. /\ Between(q, i)' \subseteq Between(q, i)
        /\ ~Failures => Between(q, i)' = Between(q, i)
    BY <1>1, BetweenKept
  <2> QED
    BY <1>0, <1>1, <2>1, OrderKept
<1>2. ASSUME NEW h \in Handlers, NEW u \in Users, NEW e \in Events,
             NEW ids \in RewardLists, NEW d \in Evidence,
             CreateRewardRequest(h, u, e, ids, d)
      PROVE  Ordered(q, a, b, i)'
  <2>1. call[h] = Idle /\ call'[h].pc = "findRewards"
    BY <1>2 DEF CreateRewardRequest, TypeOK
  <2> QED
    BY <1>1, <1>2, <2>1 DEF CreateRewardRequest, TypeOK, Between, Idle
<1>3. ASSUME NEW h \in Handlers, NEW x \in RequestIds, NEW to \in OperatorStatuses,
             UpdateRewardRequest(h, x, to)
      PROVE  Ordered(q, a, b, i)'
  <2>1. /\ call[h] = Idle /\ call'[h].pc \in {"issueRead", "write"}
        /\ \A g \in Handlers \ {h} : call'[g] = call[g]
        /\ UNCHANGED userRewards
    BY <1>3 DEF UpdateRewardRequest, AfterRead, TypeOK
  <2> QED
    BY <1>1, <2>1 DEF Between, Idle
<1>4. ASSUME NEW h \in Handlers,
             FindRewards(h) \/ FindExisting(h) \/ CountIssued(h) \/ CountFails(h)
             \/ WriteStatus(h) \/ \E x \in RequestIds : SaveRequest(h, x)
      PROVE  Ordered(q, a, b, i)'
  <2>1. /\ \A g \in Handlers \ {h} : call'[g] = call[g]
        /\ UNCHANGED userRewards
    BY <1>4 DEF FindRewards, FindExisting, CountIssued, CountFails, WriteStatus,
                SaveRequest, Goto, Return, TypeOK
  <2>2. call[h].pc \in {"findRewards", "findExisting", "save", "count", "write"}
    BY <1>4 DEF FindRewards, FindExisting, CountIssued, CountFails, WriteStatus, SaveRequest
  <2>3. ASSUME Return(h)
        PROVE  call'[h].pc = "idle"
    BY <2>3 DEF Return, TypeOK, Idle
  <2>4. ASSUME NEW pc, Goto(h, pc)
        PROVE  call'[h].pc = pc
    BY <2>2, <2>4, CallShape DEF Goto, TypeOK, Submission, Decision
  <2>5. call'[h].pc # "issue"
    BY <1>4, <2>3, <2>4
    DEF FindRewards, FindExisting, CountIssued, CountFails, WriteStatus, SaveRequest
  <2> QED
    BY <1>1, <2>1, <2>2, <2>5 DEF Between
<1>5. ASSUME NEW h \in Handlers, Fail(h)
      PROVE  Ordered(q, a, b, i)'
  <2>1. call'[h].pc = "idle" /\ \A g \in Handlers \ {h} : call'[g] = call[g]
    BY <1>5 DEF Fail, Return, TypeOK, Idle
  <2> QED
    BY <1>1, <1>5, <2>1 DEF Fail, Between
<1>6. ASSUME NEW h \in Handlers, IssueRewards(h)
      PROVE  Ordered(q, a, b, i)'
  <2>1. call[h] \in Decision /\ call[h].pc = "issueRead" /\ call[h].next = 1
    BY <1>6, CallShape, SMTT(60) DEF IssueRewards, LoopDone
  <2>2. call'[h].next = 1 /\ \A g \in Handlers \ {h} : call'[g] = call[g]
    BY <1>6, <2>1 DEF IssueRewards, Goto, TypeOK, Decision
  <2> QED
    BY <1>1, <1>6, <2>1, <2>2 DEF IssueRewards, Between
<1>7. ASSUME NEW h \in Handlers, IssueReward(h)
      PROVE  Ordered(q, a, b, i)'
  BY <1>7, OrderIssued
<1>8. CASE UNCHANGED <<userRewards, call>>
  <2>1. Between(q, i)' = Between(q, i)
    BY <1>8 DEF Between
  <2> QED
    BY <1>0, <1>8, <2>1, OrderKept
<1> QED
  BY <1>2, <1>3, <1>4, <1>5, <1>6, <1>7, <1>8
  DEF Next, HandlerStep, vars, ChangeEvent, UpdateReward, Tick

\* A request that is being stored has nothing issued, and no handler decides it.
LEMMA SavedOrdered ==
    ASSUME TypeOK, OrderInv, NEW h \in Handlers, NEW q \in RequestIds, SaveRequest(h, q),
           NEW a \in Rewards, NEW b \in Rewards, NEW i
    PROVE  Ordered(q, a, b, i)'
<1>1. userRewards[q][a] = 0 /\ userRewards[q][b] = 0 /\ userRewards' = userRewards
  BY DEF SaveRequest, OrderInv
<1>2. \A g \in Handlers : call'[g] = call[g] \/ call'[g].pc = "idle"
  BY DEF SaveRequest, Return, TypeOK, Idle
<1>3. \A g \in Handlers : call[g].pc = "issue" => call[g].id # q
  BY CallShape DEF SaveRequest
<1>4. Between(q, i)' = {}
  BY <1>2, <1>3 DEF Between
<1>5. Cardinality(Between(q, i)') = 0
  BY <1>4, FS_EmptySet
<1> QED
  BY <1>1, <1>5 DEF Ordered

\* No step breaks the order of any two, and none issues for what is not stored.
LEMMA OrderStep ==
    ASSUME TypeOK, TypeOK', ListsValid, LoopInside, LoopDone, OrderInv, [Next]_vars
    PROVE  OrderInv'
<1>0. RewardsKept
  BY StepKeepsRewards
<1>1. ASSUME NEW q \in DOMAIN requests', NEW i \in 1..(Len(requests'[q].rewardIds) - 1),
             NEW a, a = requests'[q].rewardIds[i], NEW b, b = requests'[q].rewardIds[i + 1]
      PROVE  Ordered(q, a, b, i)'
  <2>1. /\ requests'[q].rewardIds \in Seq(Rewards) /\ q \in RequestIds
    BY InputAssumption DEF TypeOK, RewardRequest
  <2>2. /\ i \in Nat \ {0} /\ i + 1 <= Len(requests'[q].rewardIds)
        /\ a \in Rewards /\ b \in Rewards
    BY <1>1, <2>1
  <2>3. CASE q \in DOMAIN requests
    <3>1. requests'[q].rewardIds = requests[q].rewardIds
      BY <1>0, <2>3 DEF RewardsKept
    <3>2. Ordered(q, a, b, i)
      BY <1>1, <2>3, <3>1 DEF OrderInv
    <3> QED
      BY <1>1, <2>2, <2>3, <3>1, <3>2, OrderedStep, SMT
  <2>4. CASE q \notin DOMAIN requests
    <3>1. \/ DOMAIN requests' = DOMAIN requests
          \/ \E h \in Handlers, x \in RequestIds : SaveRequest(h, x)
      <4>1. \A h \in Handlers : WriteStatus(h) => DOMAIN requests' = DOMAIN requests
        BY SMTT(60) DEF WriteStatus
      <4>2. \/ requests' = requests
            \/ \E h \in Handlers : WriteStatus(h)
            \/ \E h \in Handlers, x \in RequestIds : SaveRequest(h, x)
        BY ZenonT(60) DEF Next, HandlerStep, vars, CreateRewardRequest, UpdateRewardRequest,
               FindRewards, FindExisting, IssueRewards, IssueReward,
               CountIssued, CountFails, Fail, ChangeEvent, UpdateReward, Tick
      <4> QED
        BY <4>1, <4>2
    <3>2. PICK h \in Handlers, x \in RequestIds : SaveRequest(h, x)
      BY <1>1, <2>4, <3>1
    <3>3. DOMAIN requests' = DOMAIN requests \cup {x}
      BY <3>2 DEF SaveRequest
    <3>4. SaveRequest(h, q)
      <4>1. x = q
        BY <1>1, <2>4, <3>3
      <4> QED
        BY <3>2, <4>1
    <3> QED
      BY <2>1, <2>2, <3>4, SavedOrdered
  <2> QED
    BY <2>3, <2>4
<1>2. ASSUME NEW q \in RequestIds \ DOMAIN requests', NEW r \in Rewards
      PROVE  userRewards'[q][r] = 0
  <2>1. q \notin DOMAIN requests
    BY <1>0, <1>2 DEF RewardsKept
  <2>2. userRewards[q][r] = 0
    BY <1>2, <2>1 DEF OrderInv
  <2>3. ASSUME NEW h \in Handlers, IssueReward(h)
        PROVE  userRewards'[q][r] = userRewards[q][r]
    <3>1. call[h].id # q
      BY <2>1, <2>3, CallShape DEF IssueReward
    <3> QED
      BY <1>2, <2>3, <3>1 DEF IssueReward, TypeOK
  <2>4. userRewards' = userRewards \/ \E h \in Handlers : IssueReward(h)
    BY DEF Next, HandlerStep, vars, CreateRewardRequest, UpdateRewardRequest,
           FindRewards, FindExisting, SaveRequest, IssueRewards,
           CountIssued, CountFails, WriteStatus, Fail, ChangeEvent, UpdateReward, Tick
  <2> QED
    BY <2>2, <2>3, <2>4
<1> QED
  BY <1>1, <1>2 DEF OrderInv

\* However approvals overlap, fail and are repeated, a reward of a request is issued
\* at least as often as the next one in its list and the handlers on their way to
\* that one: the loop issues in order and begins again at the head.
THEOREM IssuedOrdered == Spec => []IssuedInOrder
<1>1. Init => ListsValid /\ LoopInside /\ LoopDone /\ OrderInv
  BY InputAssumption DEF Init, ListsValid, LoopInside, LoopDone, OrderInv, Idle
<1>2. /\ TypeOK /\ TypeOK' /\ ListsValid /\ LoopInside /\ LoopDone /\ OrderInv
      /\ [Next]_vars
      => ListsValid' /\ LoopInside' /\ LoopDone' /\ OrderInv'
  BY ListsStep, LoopStep, LoopDoneStep, OrderStep
<1>3. OrderInv => IssuedInOrder
  BY DEF OrderInv, Ordered, IssuedInOrder
<1> QED
  BY <1>1, <1>2, <1>3, TypeCorrect, PTL DEF Spec

-----------------------------------------------------------------------------
(***************************************************************************)
(* The documentation promises one open request and one issue of a reward   *)
(* per user.  Calls that overlap or fail break this, and operators who     *)
(* reopen a request, reject what was approved, or move rewards.  Without   *)
(* them it is true.                                                        *)
(***************************************************************************)
OneAtATime == \A g, h \in Handlers : g = h

\* Operators reopen no request, keep what is APPROVED and move no reward to another
\* event.
CarefulStep ==
    /\ UNCHANGED rewardEvent
    /\ \A h \in Handlers, q \in RequestIds, to \in OperatorStatuses :
          UpdateRewardRequest(h, q, to) =>
              /\ ~Reopens(q, to)
              /\ requests[q].status = "APPROVED" => to \in {"APPROVED", NoStatus}

\* Finite sets with at most one element are those whose elements are all equal.
LEMMA AtMostOne ==
    ASSUME NEW S, \A x, y \in S : x = y
    PROVE  Cardinality(S) <= 1
<1>1. CASE S = {}
  BY <1>1, FS_EmptySet
<1>2. CASE S # {}
  <2>1. PICK x \in S : S = {x}
    BY <1>2
  <2>2. Cardinality({x}) = 1
    BY FS_Singleton
  <2> QED
    BY <2>1, <2>2
<1> QED
  BY <1>1, <1>2

LEMMA AllEqual ==
    ASSUME NEW S, IsFiniteSet(S), Cardinality(S) <= 1, NEW x \in S, NEW y \in S
    PROVE  x = y
<1> SUFFICES ASSUME x # y
             PROVE  FALSE
  OBVIOUS
<1>1. IsFiniteSet({x}) /\ Cardinality({x}) = 1
  BY FS_Singleton
<1>2. Cardinality({x} \cup {y}) = 2
  BY <1>1, FS_AddElement, SMTT(60)
<1>3. {x} \cup {y} \subseteq S
  OBVIOUS
<1>4. Cardinality({x} \cup {y}) <= Cardinality(S) /\ Cardinality(S) \in Nat
  BY <1>3, FS_Subset, FS_CardinalityType
<1> QED
  BY <1>2, <1>4

LEMMA OneHandler ==
    ASSUME OneAtATime
    PROVE  Cardinality(Handlers) <= 1
  BY AtMostOne DEF OneAtATime

\* If calls run one at a time, a user has one open request for a reward, until an
\* operator reopens a request.
THEOREM NoDuplicates ==
    OneAtATime => (Spec => [](reopened = {} => NoDuplicateRequests))
<1> SUFFICES ASSUME OneAtATime
             PROVE  Spec => [](reopened = {} => NoDuplicateRequests)
  OBVIOUS
<1>1. ASSUME TypeOK, OpenRequestsBounded, reopened = {}, NEW u \in Users,
             NEW e \in Events, NEW r \in Rewards
      PROVE  Cardinality(OpenRequests(u, e, r)) <= 1
  <2>1. OpenRequests(u, e, r) \subseteq RequestIds
    BY <1>1 DEF OpenRequests, TypeOK
  <2>2. Cardinality(OpenRequests(u, e, r)) \in Nat
    BY <2>1, FiniteAssumption, FS_Subset, FS_CardinalityType
  <2>3. OpenRequests(u, e, r) \ reopened = OpenRequests(u, e, r)
    BY <1>1
  <2>4. Cardinality(OpenRequests(u, e, r)) <= Cardinality(Handlers)
    BY <1>1, <2>3 DEF OpenRequestsBounded
  <2>5. Cardinality(Handlers) \in Nat /\ Cardinality(Handlers) <= 1
    BY OneHandler, HandlersFinite
  <2> QED
    BY <2>2, <2>4, <2>5
<1>2. TypeOK /\ OpenRequestsBounded => (reopened = {} => NoDuplicateRequests)
  BY <1>1 DEF NoDuplicateRequests
<1> QED
  BY <1>2, TypeCorrect, OpenBounded, PTL

\* A request with a UserReward asks for its reward and is open, and the only call
\* there is writes over the status that it read.
OnceInv ==
    /\ reopened = {}
    /\ \A r \in Rewards : belonged[r] = {rewardEvent[r]}
    /\ \A h \in Handlers :
          call[h].pc \in {"issueRead", "issue", "count", "write"} =>
              /\ call[h].pc # "write" => requests[call[h].id].status = "PENDING"
              /\ requests[call[h].id].status = "APPROVED" =>
                    call[h].to \in {"APPROVED", NoStatus}
    /\ \A q \in DOMAIN requests, r \in Rewards :
          userRewards[q][r] > 0 =>
              r \in RewardSet(requests[q].rewardIds) /\ requests[q].status \in OpenStatuses

\* No step breaks it.
LEMMA OnceStep ==
    ASSUME OneAtATime, SteadyOperation, TypeOK, TypeOK', LoopInside, Approving,
           GrantInv, OnceInv, [Next]_vars, [CarefulStep]_vars
    PROVE  OnceInv'
<1> DEFINE Reads(h) ==
              call[h].pc \in {"issueRead", "issue", "count", "write"} =>
                  /\ call[h].pc # "write" => requests[call[h].id].status = "PENDING"
                  /\ requests[call[h].id].status = "APPROVED" =>
                        call[h].to \in {"APPROVED", NoStatus}
           OpenIfIssued(q, r) ==
              userRewards[q][r] > 0 =>
                  r \in RewardSet(requests[q].rewardIds)
                  /\ requests[q].status \in OpenStatuses
<1>0. reopened' = {} /\ \A r \in Rewards : belonged'[r] = {rewardEvent'[r]}
  <2>1. CASE UNCHANGED <<rewardEvent, belonged, reopened>>
    BY <2>1 DEF OnceInv
  <2>2. ASSUME NEW h \in Handlers, NEW q \in RequestIds, NEW to \in OperatorStatuses,
               UpdateRewardRequest(h, q, to), CarefulStep
        PROVE  UNCHANGED <<rewardEvent, belonged, reopened>>
    BY <2>2 DEF UpdateRewardRequest, CarefulStep
  <2>3. ASSUME NEW r \in Rewards, NEW dto \in RewardEdits, UpdateReward(r, dto),
               UNCHANGED rewardEvent
        PROVE  reopened' = {} /\ \A x \in Rewards : belonged'[x] = {rewardEvent'[x]}
    BY <2>3 DEF UpdateReward, OnceInv, TypeOK
  <2>4. CASE CarefulStep /\ Next
    <3>1. UNCHANGED rewardEvent
      BY <2>4 DEF CarefulStep
    <3> QED
      BY <2>1, <2>2, <2>3, <2>4, <3>1
      DEF Next, HandlerStep, history, CreateRewardRequest, FindRewards, FindExisting,
          SaveRequest, IssueRewards, IssueReward, CountIssued, CountFails, WriteStatus,
          Fail, ChangeEvent, Tick
  <2>5. CASE UNCHANGED vars
    BY <2>1, <2>5 DEF vars, history
  <2> QED
    BY <2>4, <2>5
<1>1. ASSUME NEW h \in Handlers, Reads(h)',
             UNCHANGED <<requests, userRewards>>
      PROVE  OnceInv'
  BY <1>0, <1>1 DEF OnceInv, OneAtATime
<1>2. ASSUME NEW h \in Handlers, NEW u \in Users, NEW e \in Events,
             NEW ids \in RewardLists, NEW d \in Evidence,
             CreateRewardRequest(h, u, e, ids, d)
      PROVE  OnceInv'
  BY <1>1, <1>2 DEF CreateRewardRequest, TypeOK
<1>3. ASSUME NEW h \in Handlers, NEW q \in RequestIds,
             NEW to \in OperatorStatuses, UpdateRewardRequest(h, q, to)
      PROVE  OnceInv'
  <2>1. call'[h] = [pc |-> AfterRead(requests[q].status, to), id |-> q, to |-> to,
                    next |-> 1]
        /\ requests' = requests /\ call[h] = Idle
    BY <1>3 DEF UpdateRewardRequest, TypeOK
  <2>2. requests[q].status = "APPROVED" => to \in {"APPROVED", NoStatus}
    <3>1. call'[h] # call[h]
      BY <2>1 DEF Idle, AfterRead
    <3> QED
      BY <1>3, <3>1 DEF CarefulStep, vars
  <2>3. Reads(h)'
    BY <2>1, <2>2 DEF AfterRead
  <2> QED
    BY <1>1, <1>3, <2>3 DEF UpdateRewardRequest
<1>4. ASSUME NEW h \in Handlers, FindRewards(h) \/ FindExisting(h)
      PROVE  OnceInv'
  <2>1. ASSUME Return(h)
        PROVE  call'[h].pc = "idle"
    BY <2>1 DEF Return, TypeOK, Idle
  <2>2. ASSUME NEW pc, Goto(h, pc), call[h] \in Submission
        PROVE  call'[h].pc = pc
    BY <2>2 DEF Goto, TypeOK, Submission
  <2>3. call'[h].pc \in {"idle", "findExisting", "save"}
    BY <1>4, <2>1, <2>2, CallShape DEF FindRewards, FindExisting
  <2> QED
    BY <1>1, <1>4, <2>3 DEF FindRewards, FindExisting
<1>5. ASSUME NEW h \in Handlers, IssueRewards(h) \/ CountIssued(h)
      PROVE  OnceInv'
  <2>1. call[h] \in Decision /\ call[h].pc \in {"issueRead", "count"}
    BY <1>5, CallShape DEF IssueRewards, CountIssued
  <2>2. requests[call[h].id].status = "PENDING"
    BY <2>1 DEF OnceInv
  <2>3. /\ call'[h].id = call[h].id /\ call'[h].to = call[h].to
        /\ requests' = requests /\ userRewards' = userRewards
    BY <1>5, <2>1 DEF IssueRewards, CountIssued, Goto, TypeOK, Decision
  <2>4. Reads(h)'
    BY <2>2, <2>3
  <2> QED
    BY <1>1, <2>3, <2>4
<1>6. ASSUME NEW h \in Handlers, IssueReward(h)
      PROVE  OnceInv'
  <2>1. /\ call[h] \in Decision /\ call[h].id \in DOMAIN requests /\ call[h].pc = "issue"
        /\ call[h].id \in RequestIds /\ call[h].next \in DOMAIN IdsOf(h)
    BY <1>6, CallShape DEF IssueReward, TypeOK, LoopInside
  <2>2. requests[call[h].id].status = "PENDING"
    BY <2>1 DEF OnceInv
  <2>3. /\ call'[h].id = call[h].id /\ call'[h].to = call[h].to /\ requests' = requests
    BY <1>6 DEF IssueReward, TypeOK
  <2>4. Reads(h)'
    BY <2>2, <2>3
  <2>5. ASSUME NEW q \in DOMAIN requests, NEW r \in Rewards
        PROVE  OpenIfIssued(q, r)'
    <3>1. CASE q = call[h].id /\ r = IdsOf(h)[call[h].next]
      BY <2>1, <2>2, <2>3, <3>1 DEF RewardSet, IdsOf, OpenStatuses
    <3>2. CASE ~(q = call[h].id /\ r = IdsOf(h)[call[h].next])
      <4>1. userRewards'[q][r] = userRewards[q][r]
        BY <1>6, <2>1, <2>5, <3>2 DEF IssueReward, TypeOK
      <4> QED
        BY <2>3, <2>5, <4>1 DEF OnceInv
    <3> QED
      BY <3>1, <3>2
  <2> QED
    BY <1>0, <2>3, <2>4, <2>5 DEF OnceInv, OneAtATime
<1>7. ASSUME NEW h \in Handlers, NEW x \in RequestIds, SaveRequest(h, x)
      PROVE  OnceInv'
  <2>1. /\ call'[h].pc = "idle" /\ x \notin DOMAIN requests
        /\ DOMAIN requests' = DOMAIN requests \cup {x}
        /\ \A q \in DOMAIN requests : requests'[q] = requests[q]
        /\ userRewards' = userRewards
    BY <1>7 DEF SaveRequest, Return, TypeOK, Idle
  <2>2. \A r \in Rewards : userRewards[x][r] = 0
    BY <2>1 DEF GrantInv, GrantsAt
  <2>3. ASSUME NEW q \in DOMAIN requests', NEW r \in Rewards
        PROVE  OpenIfIssued(q, r)'
    BY <2>1, <2>2, <2>3 DEF OnceInv
  <2> QED
    BY <1>0, <2>1, <2>3 DEF OnceInv, OneAtATime
<1>8. ASSUME NEW h \in Handlers, WriteStatus(h)
      PROVE  OnceInv'
  <2>1. /\ call[h] \in Decision /\ call[h].id \in DOMAIN requests /\ call[h].pc = "write"
        /\ requests[call[h].id].status = "APPROVED" =>
              call[h].to \in {"APPROVED", NoStatus}
        /\ call[h].next > 1 => call[h].to = "APPROVED"
        /\ call[h].next \in Nat
    BY <1>8, CallShape DEF WriteStatus, Approving, OnceInv, Decision
  <2>2. requests[call[h].id] \in RewardRequest
    BY <2>1 DEF TypeOK
  <2>3. /\ DOMAIN requests' = DOMAIN requests /\ userRewards' = userRewards
        /\ requests'[call[h].id].status = Written(requests[call[h].id].status, call[h].to)
        /\ requests'[call[h].id].rewardIds = requests[call[h].id].rewardIds
        /\ \A q \in DOMAIN requests : q # call[h].id => requests'[q] = requests[q]
        /\ call'[h].pc = "idle"
    BY <1>8, <2>1, <2>2 DEF WriteStatus, Return, TypeOK, Idle, RewardRequest
  <2>4. ASSUME NEW q \in DOMAIN requests, NEW r \in Rewards
        PROVE  OpenIfIssued(q, r)'
    <3>1. CASE q # call[h].id \/ ~(userRewards[q][r] > 0)
      BY <2>3, <2>4, <3>1 DEF OnceInv
    <3>2. CASE q = call[h].id /\ userRewards[q][r] > 0
      <4>1. r \in RewardSet(requests[q].rewardIds) /\ requests[q].status \in OpenStatuses
        BY <2>4, <3>2 DEF OnceInv
      <4>2. CASE requests[q].status = "PENDING"
        <5>1. userRewards[q][r] = Cardinality(Giving(q, r))
          BY <2>1, <3>2, <4>2 DEF GrantInv, GrantsAt, TypeOK
        <5>2. Giving(q, r) # {}
          BY <3>2, <5>1, FS_EmptySet
        <5>3. Granted(h, q, r)
          BY <5>2 DEF Giving, OneAtATime
        <5>4. call[h].next > 1
          BY <2>1, <5>3 DEF Granted
        <5> QED
          BY <2>1, <2>3, <3>2, <4>1, <5>4 DEF Written, OpenStatuses, NoStatus
      <4>3. CASE requests[q].status = "APPROVED"
        <5>1. call[h].to \in {"APPROVED", NoStatus}
          BY <2>1, <3>2, <4>3
        <5> QED
          BY <2>3, <3>2, <4>1, <4>3, <5>1 DEF Written, OpenStatuses
      <4> QED
        BY <4>1, <4>2, <4>3 DEF OpenStatuses
    <3> QED
      BY <3>1, <3>2
  <2> QED
    BY <1>0, <2>3, <2>4 DEF OnceInv, OneAtATime
<1>9. CASE UNCHANGED <<requests, userRewards, call>>
  BY <1>0, <1>9 DEF OnceInv
<1> QED
  BY <1>2, <1>3, <1>4, <1>5, <1>6, <1>7, <1>8, <1>9
  DEF Next, HandlerStep, vars, ChangeEvent, UpdateReward, Tick, CountFails, Fail,
      SteadyOperation

\* If calls run one at a time and never fail, nobody sends PENDING and operators are
\* careful, no user is issued a reward twice, whatever requests they send.
THEOREM IssuedOnce ==
    OneAtATime /\ SteadyOperation =>
        (Spec /\ [][CarefulStep]_vars => []IssuedOncePerUser)
<1> SUFFICES ASSUME OneAtATime, SteadyOperation
             PROVE  Spec /\ [][CarefulStep]_vars => []IssuedOncePerUser
  OBVIOUS
<1>1. Init => OnceInv
  BY InputAssumption DEF Init, OnceInv, Idle
<1>2. /\ TypeOK /\ TypeOK' /\ LoopInside /\ Approving /\ GrantInv /\ OnceInv /\ [Next]_vars
      /\ [CarefulStep]_vars
      => OnceInv'
  BY OnceStep
<1>3. Spec => [](ListsValid /\ LoopInside /\ Approving /\ GrantInv)
  BY GrantsInvariant
<1>4. Spec => [](reopened = {} => NoDuplicateRequests)
  BY NoDuplicates
<1>5. OnceInv => reopened = {}
  BY DEF OnceInv
<1>6. ASSUME TypeOK, GrantsBounded, StoredRewardIdsValid, NoDuplicateRequests, GrantInv,
             OnceInv, NEW u \in Users, NEW r \in Rewards
      PROVE  Cardinality({d \in Documents(r) :
                d[1] \in DOMAIN requests /\ requests[d[1]].user = u}) <= 1
  <2> DEFINE D == {d \in Documents(r) :
                      d[1] \in DOMAIN requests /\ requests[d[1]].user = u}
             Mine == OpenRequests(u, rewardEvent[r], r)
  <2>1. rewardEvent[r] \in Events
    BY <1>6 DEF TypeOK
  <2>2. IsFiniteSet(Mine) /\ Cardinality(Mine) <= 1
    <3>1. Mine \subseteq RequestIds
      BY <1>6 DEF OpenRequests, TypeOK
    <3>2. Cardinality(Mine) <= 1
      BY <1>6, <2>1 DEF NoDuplicateRequests
    <3> QED
      BY <3>1, <3>2, FiniteAssumption, FS_Subset
  <2>3. ASSUME NEW d \in D
        PROVE  d = <<d[1], 1>> /\ d[1] \in Mine
    <3>1. PICK q \in RequestIds : d \in {q} \X (1..userRewards[q][r])
      BY DEF Documents
    <3>2. PICK n \in 1..userRewards[q][r] : d = <<q, n>>
      BY <3>1
    <3>3. userRewards[q][r] \in Nat /\ userRewards[q][r] <= 1
      <4>1. userRewards[q][r] <= Cardinality(Handlers)
        BY <1>6 DEF GrantsBounded
      <4>2. Cardinality(Handlers) \in Nat /\ Cardinality(Handlers) <= 1
        BY OneHandler, HandlersFinite
      <4> QED
        BY <1>6, <4>1, <4>2 DEF TypeOK
    <3>4. n = 1 /\ userRewards[q][r] > 0
      BY <3>2, <3>3
    <3>5. q \in DOMAIN requests /\ requests[q].user = u
      BY <3>2
    <3>6. r \in RewardSet(requests[q].rewardIds) /\ requests[q].status \in OpenStatuses
      BY <1>6, <3>4, <3>5 DEF OnceInv
    <3>7. rewardEvent[r] = requests[q].event
      BY <1>6, <3>5, <3>6 DEF StoredRewardIdsValid, OnceInv
    <3>8. q \in Mine
      BY <3>5, <3>6, <3>7 DEF OpenRequests
    <3> QED
      BY <3>2, <3>4, <3>8
  <2>4. \A c, d \in D : c = d
    <3> SUFFICES ASSUME NEW c \in D, NEW d \in D
                 PROVE  c = d
      OBVIOUS
    <3>1. /\ c = <<c[1], 1>> /\ c[1] \in Mine
          /\ d = <<d[1], 1>> /\ d[1] \in Mine
      BY <2>3
    <3>2. c[1] = d[1]
      <4> HIDE DEF Mine
      <4> QED
        BY <2>2, <3>1, AllEqual
    <3> QED
      BY <3>1, <3>2
  <2> HIDE DEF D
  <2>5. Cardinality(D) <= 1
    BY <2>4, AtMostOne
  <2> QED
    BY <2>5 DEF D
<1>7. TypeOK /\ GrantsBounded /\ StoredRewardIdsValid /\ NoDuplicateRequests /\ GrantInv
      /\ OnceInv => IssuedOncePerUser
  BY <1>6 DEF IssuedOncePerUser
<1> QED
  BY <1>1, <1>2, <1>3, <1>4, <1>5, <1>7, TypeCorrect, GrantsBound, StoredIdsValid, PTL
  DEF Spec

-----------------------------------------------------------------------------
(***************************************************************************)
(* Handlers end                                                            *)
(***************************************************************************)

\* A call that is under way has a step left.
LEMMA StepsPositive ==
    ASSUME TypeOK, LoopInside, NEW h \in Handlers, call[h] # Idle
    PROVE  StepsLeft(h) \in Nat \ {0}
<1>1. call[h].pc \in {"findRewards", "findExisting", "save",
                      "issueRead", "issue", "count", "write"}
  BY CallShape DEF Submission, Decision
<1>2. CASE call[h].pc \in {"issueRead", "issue"}
  <2>1. IdsOf(h) \in Seq(Rewards) /\ call[h].next \in DOMAIN IdsOf(h)
    BY <1>2, CallShape, RewardSetType DEF IdsOf, LoopInside
  <2>2. Len(IdsOf(h)) \in Nat /\ call[h].next \in 1..Len(IdsOf(h))
    BY <2>1
  <2> QED
    BY <1>2, <2>2 DEF StepsLeft
<1>3. CASE call[h].pc \notin {"issueRead", "issue"}
  BY <1>1, <1>3 DEF StepsLeft
<1> QED
  BY <1>2, <1>3

\* Whatever else moves, a call that stays where it is has the same steps left.
LEMMA StepsKept ==
    ASSUME TypeOK, RewardsKept, NEW h \in Handlers, call'[h] = call[h]
    PROVE  StepsLeft(h)' = StepsLeft(h)
<1>1. CASE call[h].pc \in {"issueRead", "issue"}
  <2>1. IdsOf(h)' = IdsOf(h)
    BY <1>1, CallShape DEF IdsOf, RewardsKept
  <2> QED
    BY <1>1, <2>1 DEF StepsLeft
<1>2. CASE call[h].pc \notin {"issueRead", "issue"}
  BY <1>2 DEF StepsLeft
<1> QED
  BY <1>1, <1>2

\* Each step of a call under way leaves it fewer.
LEMMA StepsFall ==
    ASSUME TypeOK, LoopInside, NEW h \in Handlers, call[h] # Idle,
           HandlerStep(h) \/ CountFails(h) \/ Fail(h)
    PROVE  StepsLeft(h)' \in 0..(StepsLeft(h) - 1)
<1>1. StepsLeft(h) \in Nat \ {0}
  BY StepsPositive
<1>2. ASSUME Return(h)
      PROVE  StepsLeft(h)' \in 0..(StepsLeft(h) - 1)
  <2>1. StepsLeft(h)' = 0
    BY <1>2 DEF Return, TypeOK, Idle, StepsLeft
  <2> QED
    BY <1>1, <2>1
<1>3. ASSUME NEW pc, Goto(h, pc)
      PROVE  call'[h].pc = pc
  BY <1>3, CallShape DEF Goto, TypeOK, Submission, Decision
<1>4. CASE FindRewards(h)
  BY <1>2, <1>3, <1>4 DEF FindRewards, StepsLeft
<1>5. CASE FindExisting(h)
  BY <1>2, <1>3, <1>5 DEF FindExisting, StepsLeft
<1>6. CASE IssueRewards(h)
  <2>1. IdsOf(h) \in Seq(Rewards) /\ call[h].next \in DOMAIN IdsOf(h)
    BY <1>6, CallShape, RewardSetType DEF IssueRewards, IdsOf, LoopInside
  <2>2. Len(IdsOf(h)) \in Nat /\ call[h].next \in 1..Len(IdsOf(h))
    BY <2>1
  <2>3. /\ IdsOf(h)' = IdsOf(h) /\ call'[h].next = call[h].next
        /\ call'[h].pc \in {"write", "issue"}
    BY <1>3, <1>6, CallShape DEF IssueRewards, AfterReread, Goto, IdsOf, TypeOK, Decision
  <2> QED
    BY <1>6, <2>2, <2>3 DEF IssueRewards, StepsLeft
<1>7. CASE IssueReward(h)
  <2>1. IdsOf(h) \in Seq(Rewards) /\ call[h].next \in DOMAIN IdsOf(h)
    BY <1>7, CallShape, RewardSetType DEF IssueReward, IdsOf, LoopInside
  <2>2. Len(IdsOf(h)) \in Nat /\ call[h].next \in 1..Len(IdsOf(h))
    BY <2>1
  <2>3. /\ IdsOf(h)' = IdsOf(h) /\ call'[h].next = call[h].next + 1
        /\ call'[h].pc = AfterIssue(h)
    BY <1>7 DEF IssueReward, IdsOf, TypeOK
  <2> QED
    BY <1>7, <2>2, <2>3, SMTT(60) DEF IssueReward, AfterIssue, StepsLeft
<1>8. CASE CountIssued(h)
  BY <1>3, <1>8 DEF CountIssued, StepsLeft
<1>9. CASE WriteStatus(h) \/ CountFails(h) \/ Fail(h) \/ \E q \in RequestIds : SaveRequest(h, q)
  BY <1>2, <1>9 DEF WriteStatus, CountFails, Fail, SaveRequest
<1> QED
  BY <1>4, <1>5, <1>6, <1>7, <1>8, <1>9 DEF HandlerStep

\* Every call ends after at most as many of its own steps as it had left when it
\* began: none waits for another, and none can prolong another.
THEOREM CallsEnd == Spec => CallsAdvance
<1>1. Init => ListsValid /\ LoopInside
  BY InputAssumption DEF Init, ListsValid, LoopInside, Idle
<1>2. TypeOK /\ TypeOK' /\ ListsValid /\ LoopInside /\ [Next]_vars
        => ListsValid' /\ LoopInside'
  BY ListsStep, LoopStep
<1>3. TypeOK /\ LoopInside /\ [Next]_vars
        => [\A h \in Handlers :
              call[h] # Idle =>
                 \/ call'[h] = call[h] /\ StepsLeft(h)' = StepsLeft(h)
                 \/ StepsLeft(h)' \in 0..(StepsLeft(h) - 1)]_vars
  <2> SUFFICES ASSUME TypeOK, LoopInside, Next, NEW h \in Handlers, call[h] # Idle
               PROVE  \/ call'[h] = call[h] /\ StepsLeft(h)' = StepsLeft(h)
                      \/ StepsLeft(h)' \in 0..(StepsLeft(h) - 1)
    OBVIOUS
  <2>1. CASE HandlerStep(h) \/ CountFails(h) \/ Fail(h)
    BY <2>1, StepsFall
  <2>2. CASE ~(HandlerStep(h) \/ CountFails(h) \/ Fail(h))
    <3>1. ASSUME NEW g \in Handlers \ {h},
                 HandlerStep(g) \/ CountFails(g) \/ Fail(g)
          PROVE  call'[h] = call[h]
      BY <3>1 DEF HandlerStep, CountFails, Fail, FindRewards, FindExisting, SaveRequest,
                  IssueRewards, IssueReward, CountIssued, WriteStatus, Goto, Return, TypeOK
    <3>2. ASSUME NEW g \in Handlers,
                 \/ \E u \in Users, e \in Events, ids \in RewardLists, d \in Evidence :
                       CreateRewardRequest(g, u, e, ids, d)
                 \/ \E q \in RequestIds, to \in OperatorStatuses :
                       UpdateRewardRequest(g, q, to)
          PROVE  call'[h] = call[h]
      <4>1. g # h
        BY <3>2 DEF CreateRewardRequest, UpdateRewardRequest
      <4> QED
        BY <3>2, <4>1 DEF CreateRewardRequest, UpdateRewardRequest, TypeOK
    <3>3. call'[h] = call[h]
      BY <2>2, <3>1, <3>2 DEF Next, ChangeEvent, UpdateReward, Tick
    <3> QED
      BY <3>3, StepsKept, StepKeepsRewards
  <2> QED
    BY <2>1, <2>2
<1> QED
  BY <1>1, <1>2, <1>3, TypeCorrect, PTL DEF Spec, CallsAdvance
=============================================================================

------------------------- MODULE EventServiceProofs -------------------------
(***************************************************************************)
(* Theorem about EventService, checked by TLAPS.                           *)
(***************************************************************************)
EXTENDS EventService, RewardRequestsProofs

\* The two counters as Participation sees them.
RequestedMap == [e \in Events |-> Cardinality(RequestsOf(e))]
ApprovedMap == [e \in Events |-> Cardinality(ApprovedOf(e))]

LEMMA CountsFinite ==
    ASSUME TypeOK, NEW e
    PROVE  /\ IsFiniteSet(RequestsOf(e)) /\ Cardinality(RequestsOf(e)) \in Nat
           /\ IsFiniteSet(ApprovedOf(e)) /\ Cardinality(ApprovedOf(e)) \in Nat
           /\ RequestsOf(e) \subseteq RequestIds
<1>1. RequestsOf(e) \subseteq RequestIds /\ ApprovedOf(e) \subseteq RequestsOf(e)
  BY DEF TypeOK, RequestsOf, ApprovedOf
<1>2. IsFiniteSet(RequestsOf(e))
  BY <1>1, FiniteAssumption, FS_Subset
<1>3. IsFiniteSet(ApprovedOf(e))
  BY <1>1, <1>2, FS_Subset
<1> QED
  BY <1>1, <1>2, <1>3, FS_CardinalityType

\* A step that leaves the clock and the events alone and moves one counter.
LEMMA CountedStep ==
    ASSUME NEW e \in Events, UNCHANGED <<now, events>>,
           \/ /\ RequestedMap[e] < Cardinality(RequestIds)
              /\ RequestedMap' = [RequestedMap EXCEPT ![e] = @ + 1]
              /\ ApprovedMap' = ApprovedMap
           \/ /\ ApprovedMap[e] < RequestedMap[e]
              /\ ApprovedMap' = [ApprovedMap EXCEPT ![e] = @ + 1]
              /\ RequestedMap' = RequestedMap
           \/ /\ ApprovedMap[e] > 0
              /\ ApprovedMap' = [ApprovedMap EXCEPT ![e] = @ - 1]
              /\ RequestedMap' = RequestedMap
    PROVE  Statistics!Next
  BY DEF RequestedMap, ApprovedMap, Statistics!Next, Statistics!RequestSaved,
         Statistics!RequestApproved, Statistics!RequestRejected

LEMMA MapsKept ==
    ASSUME UNCHANGED requests
    PROVE  RequestedMap' = RequestedMap /\ ApprovedMap' = ApprovedMap
  BY DEF RequestedMap, ApprovedMap, RequestsOf, ApprovedOf

LEMMA SavedCounted ==
    ASSUME TypeOK, NEW h \in Handlers, NEW q \in RequestIds, SaveRequest(h, q)
    PROVE  Statistics!Next
<1>1. PICK e \in Events : e = call[h].event
  BY CallShape DEF SaveRequest, Submission
<1>2. /\ DOMAIN requests' = DOMAIN requests \cup {q} /\ q \notin DOMAIN requests
      /\ requests'[q].event = e /\ requests'[q].status = "PENDING"
      /\ \A x \in DOMAIN requests : requests'[x] = requests[x]
  BY <1>1 DEF SaveRequest, NewRequest
<1>3. RequestsOf(e)' = RequestsOf(e) \cup {q} /\ q \notin RequestsOf(e)
  BY <1>2 DEF RequestsOf
<1>4. \A x \in Events \ {e} : RequestsOf(x)' = RequestsOf(x)
  BY <1>2 DEF RequestsOf
<1>5. \A x \in Events : ApprovedOf(x)' = ApprovedOf(x)
  BY <1>2 DEF RequestsOf, ApprovedOf
<1>6. Cardinality(RequestsOf(e))' = Cardinality(RequestsOf(e)) + 1
  BY <1>3, CountsFinite, FS_AddElement
<1>7. Cardinality(RequestsOf(e)) < Cardinality(RequestIds)
  <2>1. RequestsOf(e) \subseteq RequestIds /\ RequestsOf(e) # RequestIds
    BY <1>3, CountsFinite
  <2>2. /\ Cardinality(RequestsOf(e)) <= Cardinality(RequestIds)
        /\ Cardinality(RequestsOf(e)) # Cardinality(RequestIds)
    BY <2>1, FiniteAssumption, FS_Subset
  <2>3. Cardinality(RequestsOf(e)) \in Nat /\ Cardinality(RequestIds) \in Nat
    BY CountsFinite, FiniteAssumption, FS_CardinalityType
  <2> QED
    BY <2>2, <2>3
<1>8. RequestedMap' = [RequestedMap EXCEPT ![e] = @ + 1]
  BY <1>4, <1>6 DEF RequestedMap
<1>9. ApprovedMap' = ApprovedMap
  BY <1>5 DEF ApprovedMap
<1>10. RequestedMap[e] < Cardinality(RequestIds)
  BY <1>1, <1>7 DEF RequestedMap
<1> QED
  BY <1>1, <1>8, <1>9, <1>10, CountedStep DEF SaveRequest

LEMMA WrittenCounted ==
    ASSUME TypeOK, NEW h \in Handlers, WriteStatus(h)
    PROVE  [Statistics!Next]_Statistics!vars
<1>0. PICK q \in DOMAIN requests : q = call[h].id
  BY CallShape DEF WriteStatus
<1>1. PICK e \in Events : e = requests[q].event
  BY <1>0 DEF TypeOK, RewardRequest
<1>2. /\ DOMAIN requests' = DOMAIN requests
      /\ \A x \in DOMAIN requests : requests'[x].event = requests[x].event
      /\ \A x \in DOMAIN requests \ {q} : requests'[x] = requests[x]
  BY <1>0 DEF WriteStatus, TypeOK, RewardRequest
<1>3. \A x \in Events : RequestsOf(x)' = RequestsOf(x)
  BY <1>2 DEF RequestsOf
<1>4. RequestedMap' = RequestedMap
  BY <1>3 DEF RequestedMap
<1>5. \A x \in Events \ {e} : ApprovedOf(x)' = ApprovedOf(x)
  BY <1>1, <1>2, <1>3 DEF RequestsOf, ApprovedOf
<1>6. q \in RequestsOf(e)
  BY <1>0, <1>1 DEF RequestsOf
<1>7. UNCHANGED <<now, events>>
  BY DEF WriteStatus
<1>8. CASE (requests'[q].status = "APPROVED") = (requests[q].status = "APPROVED")
  <2>1. ApprovedOf(e)' = ApprovedOf(e)
    BY <1>2, <1>3, <1>8 DEF RequestsOf, ApprovedOf
  <2>2. ApprovedMap' = ApprovedMap
    BY <1>5, <2>1 DEF ApprovedMap
  <2> QED
    BY <1>4, <1>7, <2>2 DEF Statistics!vars, RequestedMap, ApprovedMap
<1>9. CASE requests'[q].status = "APPROVED" /\ requests[q].status # "APPROVED"
  <2>1. ApprovedOf(e)' = ApprovedOf(e) \cup {q} /\ q \notin ApprovedOf(e)
    BY <1>1, <1>2, <1>9 DEF RequestsOf, ApprovedOf
  <2>2. Cardinality(ApprovedOf(e))' = Cardinality(ApprovedOf(e)) + 1
    BY <2>1, CountsFinite, FS_AddElement
  <2>3. ApprovedMap' = [ApprovedMap EXCEPT ![e] = @ + 1]
    BY <1>5, <2>2 DEF ApprovedMap
  <2>4. ApprovedOf(e) \subseteq RequestsOf(e) /\ ApprovedOf(e) # RequestsOf(e)
    BY <1>6, <2>1 DEF ApprovedOf
  <2>5. /\ Cardinality(ApprovedOf(e)) <= Cardinality(RequestsOf(e))
        /\ Cardinality(ApprovedOf(e)) # Cardinality(RequestsOf(e))
    BY <2>4, CountsFinite, FS_Subset
  <2>6. ApprovedMap[e] < RequestedMap[e]
    BY <1>1, <2>5, CountsFinite DEF ApprovedMap, RequestedMap
  <2> QED
    BY <1>1, <1>4, <1>7, <2>3, <2>6, CountedStep
<1>10. CASE requests'[q].status # "APPROVED" /\ requests[q].status = "APPROVED"
  <2>1. ApprovedOf(e)' = ApprovedOf(e) \ {q} /\ q \in ApprovedOf(e)
    BY <1>1, <1>2, <1>10 DEF RequestsOf, ApprovedOf
  <2>2. /\ Cardinality(ApprovedOf(e))' = Cardinality(ApprovedOf(e)) - 1
        /\ Cardinality(ApprovedOf(e)) # 0
    BY <2>1, CountsFinite, FS_RemoveElement, FS_EmptySet
  <2>3. ApprovedMap' = [ApprovedMap EXCEPT ![e] = @ - 1]
    BY <1>5, <2>2 DEF ApprovedMap
  <2>4. ApprovedMap[e] > 0
    BY <1>1, <2>2, CountsFinite DEF ApprovedMap
  <2> QED
    BY <1>1, <1>4, <1>7, <2>3, <2>4, CountedStep
<1> QED
  BY <1>8, <1>9, <1>10

LEMMA CountsSimulated ==
    ASSUME TypeOK, [Next]_vars
    PROVE  [Statistics!Next]_Statistics!vars
<1>1. CASE UNCHANGED <<now, events, requests>>
  BY <1>1, MapsKept DEF Statistics!vars, RequestedMap, ApprovedMap
<1>2. ASSUME NEW h \in Handlers, NEW q \in RequestIds, SaveRequest(h, q)
      PROVE  [Statistics!Next]_Statistics!vars
  BY <1>2, SavedCounted
<1>3. ASSUME NEW h \in Handlers, WriteStatus(h)
      PROVE  [Statistics!Next]_Statistics!vars
  BY <1>3, WrittenCounted
<1>4. ASSUME NEW e \in Events, NEW s \in EventStates, ChangeEvent(e, s)
      PROVE  [Statistics!Next]_Statistics!vars
  <2>1. Statistics!ChangeEvent(e, s)
    BY <1>4, MapsKept DEF ChangeEvent, Statistics!ChangeEvent, RequestedMap, ApprovedMap
  <2> QED
    BY <2>1 DEF Statistics!Next
<1>5. CASE Tick
  <2>1. Statistics!Tick
    BY <1>5, MapsKept, SMTT(60) DEF Tick, Statistics!Tick, RequestedMap, ApprovedMap
  <2> QED
    BY <2>1 DEF Statistics!Next
<1>6. \/ UNCHANGED <<now, events, requests>>
      \/ \E h \in Handlers : (\E q \in RequestIds : SaveRequest(h, q)) \/ WriteStatus(h)
      \/ \E e \in Events, s \in EventStates : ChangeEvent(e, s)
      \/ Tick
  BY ZenonT(60) DEF Next, HandlerStep, vars, CreateRewardRequest, UpdateRewardRequest,
         FindRewards, FindExisting, IssueRewards, IssueReward, CountIssued,
         CountFails, Fail, UpdateReward
<1> QED
  BY <1>1, <1>2, <1>3, <1>4, <1>5, <1>6

\* Requests are the environment that Participation assumes of the requests of an
\* event (event.service.ts:712-721): every step that submissions, decisions and
\* edits take is one that its statistics allow for.
THEOREM RequestsAreCounted == Spec => RequestsCounted
<1>1. Init => Statistics!Init
  <2> SUFFICES ASSUME Init
               PROVE  Statistics!Init
    OBVIOUS
  <2>1. \A e \in Events : RequestsOf(e) = {} /\ ApprovedOf(e) = {}
    BY DEF Init, RequestsOf, ApprovedOf
  <2>2. /\ RequestedMap = [e \in Events |-> 0]
        /\ ApprovedMap = [e \in Events |-> 0]
    BY <2>1, FS_EmptySet DEF RequestedMap, ApprovedMap
  <2> QED
    BY <2>2 DEF Init, Statistics!Init, RequestedMap, ApprovedMap, Idle, Statistics!Idle
<1>2. TypeOK /\ [Next]_vars => [Statistics!Next]_Statistics!vars
  BY CountsSimulated
<1> QED
  BY <1>1, <1>2, TypeCorrect, PTL DEF Spec, RequestsCounted, Statistics!Spec
=============================================================================

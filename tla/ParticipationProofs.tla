------------------------ MODULE ParticipationProofs ------------------------
(***************************************************************************)
(* Proofs about Participation, for every set of users, events, records and *)
(* handlers.                                                               *)
(***************************************************************************)
EXTENDS Participation, FiniteSetTheorems, TLAPS

-----------------------------------------------------------------------------
(***************************************************************************)
(* Types                                                                   *)
(***************************************************************************)
Calls == {Idle} \cup Entry \cup Report

EntrySteps == {"findExisting", "save", "count"}
ReportSteps == {"unique", "byDay", "requests", "approved", "respond"}

\* What the program counter of a handler says about its locals.
LEMMA CallShape ==
    ASSUME TypeOK, NEW h \in Handlers
    PROVE  /\ call[h] \in Calls
           /\ call[h].pc \in EntrySteps => call[h] \in Entry
           /\ call[h].pc \in ReportSteps => call[h] \in Report
  BY DEF TypeOK, Calls, Entry, Report, Idle, EntrySteps, ReportSteps

\* What the queries count is finite, and every user counted has a record.
LEMMA CountsFinite ==
    ASSUME TypeOK, NEW e
    PROVE  /\ IsFiniteSet(RecordsOf(e)) /\ TotalOf(e) \in Nat
           /\ UniqueOf(e) \in Nat /\ UniqueOf(e) <= TotalOf(e)
<1> DEFINE R == RecordsOf(e)
           U == {participations[p].user : p \in R}
           f == [p \in R |-> participations[p].user]
<1>1. IsFiniteSet(R)
  BY FiniteAssumption, FS_Subset DEF RecordsOf, TypeOK
<1>2. f \in Surjection(R, U)
  BY DEF Surjection
<1> HIDE DEF f, R
<1>3. IsFiniteSet(U) /\ Cardinality(U) <= Cardinality(R)
  BY <1>1, <1>2, FS_Surjection
<1>4. Cardinality(U) \in Nat /\ Cardinality(R) \in Nat
  BY <1>1, <1>3, FS_CardinalityType
<1> QED
  BY <1>1, <1>3, <1>4 DEF TotalOf, UniqueOf, R

\* A query stores a count in the locals of a report.
LEMMA QueryType ==
    ASSUME TypeOK, NEW h \in Handlers, NEW at \in ReportSteps, NEW next \in ReportSteps,
           NEW field \in {"unique", "byDay", "requests", "approved"}, NEW value \in Nat,
           Query(h, at, field, value, next)
    PROVE  /\ call' \in [Handlers -> Calls]
           /\ call'[h] \in Report
<1>1. call[h] \in Report
  BY CallShape DEF Query
<1>2. [[call[h] EXCEPT ![field] = value] EXCEPT !.pc = next] \in Report
  BY <1>1 DEF Report, ReportSteps
<1> QED
  BY <1>2 DEF Query, TypeOK, Calls

\* A query belongs to a report before and after it, and moves no other handler.
LEMMA ReportMoves ==
    ASSUME TypeOK, NEW h \in Handlers,
           CountUnique(h) \/ CountByDay(h) \/ CountRequests(h) \/ CountApproved(h)
    PROVE  /\ call[h] \in Report /\ call'[h] \in Report
           /\ \A g \in Handlers \ {h} : call'[g] = call[g]
           /\ call' \in [Handlers -> Calls]
<1>1. call[h] \in Report
  BY CallShape DEF CountUnique, CountByDay, CountRequests, CountApproved, Query, ReportSteps
<1>2. /\ UniqueOf(call[h].event) \in Nat /\ ByDayOf(call[h].event) \in Nat
      /\ requested[call[h].event] \in Nat /\ approved[call[h].event] \in Nat
  BY <1>1, CountsFinite DEF TypeOK, ByDayOf, Report
<1>3. call' \in [Handlers -> Calls] /\ call'[h] \in Report
  BY <1>2, QueryType DEF CountUnique, CountByDay, CountRequests, CountApproved, ReportSteps
<1>4. \A g \in Handlers \ {h} : call'[g] = call[g]
  BY DEF CountUnique, CountByDay, CountRequests, CountApproved, Query, TypeOK
<1> QED
  BY <1>1, <1>3, <1>4

\* Every reachable state is well typed: records stay what they were saved as, no
\* count is negative, and locals have the shape of their step.
THEOREM TypeCorrect == Spec => []TypeOK
<1> USE InputAssumption
<1>1. Init => TypeOK
  BY DEF Init, TypeOK, Idle
<1>2. TypeOK /\ [Next]_vars => TypeOK'
  <2> SUFFICES ASSUME TypeOK, [Next]_vars
               PROVE  TypeOK'
    OBVIOUS
  <2>1. ASSUME NEW h \in Handlers, NEW u \in Users, NEW e \in Events, NEW d \in Evidence,
               CreateParticipation(h, u, e, d)
        PROVE  TypeOK'
    <3>1. [pc |-> "findExisting", user |-> u, event |-> e, seen |-> events[e]] \in Calls
      BY DEF Calls, Entry, TypeOK
    <3> QED
      BY <2>1, <3>1 DEF CreateParticipation, TypeOK, Calls
  <2>2. ASSUME NEW h \in Handlers, NEW e \in Events, GetParticipationStats(h, e)
        PROVE  TypeOK'
    <3>1. [pc |-> "unique", event |-> e, total |-> TotalOf(e), unique |-> 0,
           byDay |-> 0, requests |-> 0, approved |-> 0] \in Calls
      BY CountsFinite DEF Calls, Report
    <3> QED
      BY <2>2, <3>1 DEF GetParticipationStats, TypeOK, Calls
  <2>3. ASSUME NEW h \in Handlers, FindExisting(h)
        PROVE  TypeOK'
    <3>1. [call[h] EXCEPT !.pc = "save"] \in Calls
      BY <2>3, CallShape DEF FindExisting, EntrySteps, Entry, Calls
    <3> QED
      BY <2>3, <3>1 DEF FindExisting, Goto, Return, TypeOK, Calls
  <2>4. ASSUME NEW h \in Handlers, NEW p \in ParticipationIds, SaveParticipation(h, p)
        PROVE  TypeOK'
    <3>1. call[h] \in Entry /\ [call[h] EXCEPT !.pc = "count"] \in Calls
      BY <2>4, CallShape DEF SaveParticipation, EntrySteps, Entry, Calls
    <3>2. /\ DOMAIN participations' = DOMAIN participations \cup {p}
          /\ participations' \in [DOMAIN participations' -> Record]
      BY <2>4, <3>1 DEF SaveParticipation, TypeOK, Entry, Record
    <3>3. limited' \subseteq DOMAIN participations'
      BY <2>4, <3>2 DEF SaveParticipation, TypeOK
    <3> QED
      BY <2>4, <3>1, <3>2, <3>3 DEF SaveParticipation, Goto, TypeOK, Calls
  <2>5. ASSUME NEW h \in Handlers, CountParticipant(h)
        PROVE  TypeOK'
    <3>1. call[h].event \in Events
      BY <2>5, CallShape DEF CountParticipant, EntrySteps, Entry
    <3> QED
      BY <2>5, <3>1 DEF CountParticipant, Counted, Return, TypeOK
  <2>6. ASSUME NEW h \in Handlers,
               CountUnique(h) \/ CountByDay(h) \/ CountRequests(h) \/ CountApproved(h)
        PROVE  TypeOK'
    <3>1. call' \in [Handlers -> Calls]
      BY <2>6, ReportMoves
    <3> QED
      BY <2>6, <3>1
      DEF CountUnique, CountByDay, CountRequests, CountApproved, Query, TypeOK, Calls
  <2>7. ASSUME NEW h \in Handlers, Respond(h)
        PROVE  TypeOK'
    BY <2>7 DEF Respond, Return, TypeOK
  <2>8. ASSUME NEW h \in Handlers, Fail(h)
        PROVE  TypeOK'
    <3>1. lost' \in [Events -> Nat]
      <4>1. CASE call[h].pc = "count"
        <5>1. call[h].event \in Events
          BY <4>1, CallShape DEF EntrySteps, Entry
        <5> QED
          BY <2>8, <4>1, <5>1 DEF Fail, TypeOK
      <4>2. CASE call[h].pc # "count"
        BY <2>8, <4>2 DEF Fail, TypeOK
      <4> QED
        BY <4>1, <4>2
    <3> QED
      BY <2>8, <3>1 DEF Fail, Return, TypeOK
  <2>9. ASSUME NEW e \in Events, RequestSaved(e) \/ RequestApproved(e) \/ RequestRejected(e)
        PROVE  TypeOK'
    BY <2>9 DEF RequestSaved, RequestApproved, RequestRejected, TypeOK
  <2>10. ASSUME NEW e \in Events, NEW s \in EventStates, ChangeEvent(e, s)
         PROVE  TypeOK'
    BY <2>10 DEF ChangeEvent, TypeOK
  <2>11. CASE Tick
    BY <2>11 DEF Tick, TypeOK
  <2>12. CASE UNCHANGED vars
    BY <2>12 DEF vars, TypeOK
  <2> QED
    BY <2>1, <2>2, <2>3, <2>4, <2>5, <2>6, <2>7, <2>8, <2>9, <2>10, <2>11, <2>12 DEF Next
<1> QED
  BY <1>1, <1>2, PTL DEF Spec

-----------------------------------------------------------------------------
(***************************************************************************)
(* Participations of one user                                              *)
(***************************************************************************)
\* Two finite sets that shrink do not grow together.
LEMMA SumShrinks ==
    ASSUME NEW A, NEW B, IsFiniteSet(A), IsFiniteSet(B),
           NEW C \in SUBSET A, NEW D \in SUBSET B
    PROVE  Cardinality(C) + Cardinality(D) <= Cardinality(A) + Cardinality(B)
<1>1. /\ Cardinality(A) \in Nat /\ Cardinality(B) \in Nat
      /\ Cardinality(C) \in Nat /\ Cardinality(D) \in Nat
  BY FS_Subset, FS_CardinalityType
<1>2. Cardinality(C) <= Cardinality(A) /\ Cardinality(D) <= Cardinality(B)
  BY FS_Subset
<1> QED
  BY <1>1, <1>2

\* An element that one set loses pays for the one that the other gains.
LEMMA SumMoves ==
    ASSUME NEW A, NEW B, IsFiniteSet(A), IsFiniteSet(B), NEW x, NEW y \in B,
           NEW C \in SUBSET (A \cup {x}), NEW D \in SUBSET (B \ {y})
    PROVE  Cardinality(C) + Cardinality(D) <= Cardinality(A) + Cardinality(B)
<1> DEFINE A1 == A \cup {x}
           B1 == B \ {y}
<1>1. IsFiniteSet(A1) /\ Cardinality(A1) <= Cardinality(A) + 1
  <2>1. Cardinality(A) \in Nat
    BY FS_CardinalityType
  <2>2. /\ IsFiniteSet(A1)
        /\ Cardinality(A1) = IF x \in A THEN Cardinality(A) ELSE Cardinality(A) + 1
    BY FS_AddElement
  <2> HIDE DEF A1
  <2> QED
    BY <2>1, <2>2
<1>2. IsFiniteSet(B1) /\ Cardinality(B1) = Cardinality(B) - 1
  BY FS_RemoveElement
<1>3. /\ Cardinality(A) \in Nat /\ Cardinality(B) \in Nat
      /\ Cardinality(A1) \in Nat /\ Cardinality(B1) \in Nat
  BY <1>1, <1>2, FS_CardinalityType
<1> HIDE DEF A1, B1
<1>4. C \in SUBSET A1 /\ D \in SUBSET B1
  BY DEF A1, B1
<1>5. /\ Cardinality(C) + Cardinality(D) <= Cardinality(A1) + Cardinality(B1)
      /\ Cardinality(C) \in Nat /\ Cardinality(D) \in Nat
  BY <1>1, <1>2, <1>4, SumShrinks, FS_Subset, FS_CardinalityType
<1> QED
  BY <1>1, <1>2, <1>3, <1>5

\* The calls about to save a participation, having read a limit of one.
Saving(e, u) ==
    {h \in Handlers : /\ call[h].pc = "save"
                      /\ call[h].event = e /\ call[h].user = u
                      /\ ~call[h].seen.allowMultipleParticipation}

\* The strengthening: such a call already holds the place of its record.
LimitCounted ==
    \A e \in Events, u \in Users :
        Cardinality(LimitedOf(e, u)) + Cardinality(Saving(e, u)) <= Cardinality(Handlers)

\* Both sets that the invariant counts are finite.
LEMMA LimitFinite ==
    ASSUME TypeOK, NEW e, NEW u
    PROVE  /\ IsFiniteSet(LimitedOf(e, u)) /\ Cardinality(LimitedOf(e, u)) \in Nat
           /\ IsFiniteSet(Saving(e, u)) /\ Cardinality(Saving(e, u)) \in Nat
           /\ Cardinality(Saving(e, u)) <= Cardinality(Handlers)
           /\ Cardinality(Handlers) \in Nat
<1>1. LimitedOf(e, u) \subseteq ParticipationIds /\ Saving(e, u) \subseteq Handlers
  BY DEF LimitedOf, Saving, TypeOK
<1> QED
  BY <1>1, FiniteAssumption, FS_Subset, FS_CardinalityType

\* A step that saves nothing and lets no call pass the check keeps the bound.
LEMMA LimitShrinks ==
    ASSUME TypeOK, TypeOK', LimitCounted, NEW e \in Events, NEW u \in Users,
           LimitedOf(e, u)' \subseteq LimitedOf(e, u), Saving(e, u)' \subseteq Saving(e, u)
    PROVE  Cardinality(LimitedOf(e, u)') + Cardinality(Saving(e, u)') <= Cardinality(Handlers)
<1>1. /\ Cardinality(LimitedOf(e, u)') \in Nat /\ Cardinality(Saving(e, u)') \in Nat
  BY LimitFinite, FS_Subset, FS_CardinalityType
<1>2. Cardinality(LimitedOf(e, u)') + Cardinality(Saving(e, u)')
         <= Cardinality(LimitedOf(e, u)) + Cardinality(Saving(e, u))
  BY LimitFinite, SumShrinks
<1> QED
  BY <1>1, <1>2, LimitFinite DEF LimitCounted

\* No step breaks the count.
LEMMA LimitStep == TypeOK /\ TypeOK' /\ LimitCounted /\ [Next]_vars => LimitCounted'
<1> SUFFICES ASSUME TypeOK, TypeOK', LimitCounted, [Next]_vars,
                    NEW e \in Events, NEW u \in Users
             PROVE  Cardinality(LimitedOf(e, u)') + Cardinality(Saving(e, u)')
                       <= Cardinality(Handlers)
  BY DEF LimitCounted
<1> DEFINE Kept == Cardinality(LimitedOf(e, u)') + Cardinality(Saving(e, u)')
                      <= Cardinality(Handlers)
<1>1. ASSUME UNCHANGED <<participations, limited>>
      PROVE  LimitedOf(e, u)' = LimitedOf(e, u)
  BY <1>1 DEF LimitedOf
<1>2. ASSUME NEW h \in Handlers, \A g \in Handlers \ {h} : call'[g] = call[g],
             call'[h].pc # "save"
      PROVE  Saving(e, u)' \subseteq Saving(e, u) \ {h}
  BY <1>2 DEF Saving
<1>3. ASSUME NEW h \in Handlers, NEW v \in Users, NEW f \in Events, NEW d \in Evidence,
             CreateParticipation(h, v, f, d)
      PROVE  Saving(e, u)' \subseteq Saving(e, u)
  BY <1>3 DEF CreateParticipation, Saving, TypeOK
<1>4. ASSUME NEW h \in Handlers, FindExisting(h)
      PROVE  Kept
  <2>1. LimitedOf(e, u)' = LimitedOf(e, u)
    BY <1>1, <1>4 DEF FindExisting
  <2>2. CASE Conflicts(call[h])
    <3>1. Saving(e, u)' \subseteq Saving(e, u)
      BY <1>4, <2>2 DEF FindExisting, Return, Idle, Saving, TypeOK
    <3> QED
      BY <2>1, <3>1, LimitShrinks
  <2>3. CASE ~Conflicts(call[h]) /\ h \in Saving(e, u)'
    <3>1. call'[h] = [call[h] EXCEPT !.pc = "save"]
      BY <1>4, <2>3 DEF FindExisting, Goto, TypeOK
    <3>2. /\ call[h].event = e /\ call[h].user = u
          /\ ~call[h].seen.allowMultipleParticipation
      <4>1. call[h] \in Entry
        BY <1>4, CallShape DEF FindExisting, EntrySteps
      <4> QED
        BY <2>3, <3>1, <4>1 DEF Saving, Entry
    <3>3. LimitedOf(e, u) = {}
      BY <2>3, <3>2 DEF Conflicts, Existing, RecordsOf, LimitedOf, TypeOK
    <3>4. /\ Cardinality(Saving(e, u)') \in Nat
          /\ Cardinality(Saving(e, u)') <= Cardinality(Handlers)
      <4>1. Saving(e, u)' \subseteq Handlers
        BY DEF Saving
      <4> QED
        BY <4>1, FiniteAssumption, FS_Subset, FS_CardinalityType
    <3> QED
      BY <2>1, <3>3, <3>4, LimitFinite, FS_EmptySet
  <2>4. CASE ~Conflicts(call[h]) /\ h \notin Saving(e, u)'
    <3>1. \A g \in Handlers \ {h} : call'[g] = call[g]
      BY <1>4, <2>4 DEF FindExisting, Goto, TypeOK
    <3>2. Saving(e, u)' \subseteq Saving(e, u)
      BY <2>4, <3>1 DEF Saving
    <3> QED
      BY <2>1, <3>2, LimitShrinks
  <2> QED
    BY <2>2, <2>3, <2>4
<1>5. ASSUME NEW h \in Handlers, NEW p \in ParticipationIds, SaveParticipation(h, p)
      PROVE  Kept
  <2>1. call[h] \in Entry
    BY <1>5, CallShape DEF SaveParticipation, EntrySteps
  <2>2. call'[h].pc = "count" /\ \A g \in Handlers \ {h} : call'[g] = call[g]
    BY <1>5, <2>1 DEF SaveParticipation, Goto, TypeOK, Entry
  <2>3. Saving(e, u)' \subseteq Saving(e, u) \ {h}
    BY <1>2, <2>2
  <2>4. LimitedOf(e, u)' \subseteq LimitedOf(e, u) \cup {p}
    BY <1>5 DEF SaveParticipation, LimitedOf, TypeOK
  <2>5. CASE h \in Saving(e, u)
    <3>1. Cardinality(LimitedOf(e, u)') + Cardinality(Saving(e, u)')
             <= Cardinality(LimitedOf(e, u)) + Cardinality(Saving(e, u))
      BY <2>3, <2>4, <2>5, LimitFinite, SumMoves
    <3>2. Cardinality(LimitedOf(e, u)') \in Nat /\ Cardinality(Saving(e, u)') \in Nat
      BY LimitFinite, FS_AddElement, <2>3, <2>4, FS_Subset, FS_CardinalityType
    <3> QED
      BY <3>1, <3>2, LimitFinite DEF LimitCounted
  <2>6. CASE h \notin Saving(e, u)
    <3>1. LimitedOf(e, u)' \subseteq LimitedOf(e, u)
      BY <1>5, <2>1, <2>6 DEF SaveParticipation, LimitedOf, Saving, TypeOK, Entry
    <3> QED
      BY <2>3, <3>1, LimitShrinks
  <2> QED
    BY <2>5, <2>6
<1>6. ASSUME NEW h \in Handlers,
             \/ CountParticipant(h) \/ Respond(h) \/ Fail(h)
             \/ \E f \in Events : GetParticipationStats(h, f)
      PROVE  Saving(e, u)' \subseteq Saving(e, u)
  BY <1>6 DEF CountParticipant, Respond, Fail, GetParticipationStats, Return, Idle, Saving, TypeOK
<1>7. ASSUME NEW h \in Handlers,
             CountUnique(h) \/ CountByDay(h) \/ CountRequests(h) \/ CountApproved(h)
      PROVE  Saving(e, u)' \subseteq Saving(e, u)
  <2>1. call'[h] \in Report /\ \A g \in Handlers \ {h} : call'[g] = call[g]
    BY <1>7, ReportMoves
  <2> QED
    BY <1>2, <2>1 DEF Report
<1>8. ASSUME UNCHANGED call
      PROVE  Saving(e, u)' = Saving(e, u)
  BY <1>8 DEF Saving
<1>9. CASE UNCHANGED <<participations, limited>> /\ Saving(e, u)' \subseteq Saving(e, u)
  BY <1>1, <1>9, LimitShrinks
<1> QED
  BY <1>3, <1>4, <1>5, <1>6, <1>7, <1>8, <1>9, ZenonT(60)
  DEF Next, vars, CreateParticipation, CountParticipant, Respond, Fail, GetParticipationStats,
      CountUnique, CountByDay, CountRequests, CountApproved, Query,
      RequestSaved, RequestApproved, RequestRejected, ChangeEvent, Tick

\* However calls interleave and whoever switches the limit of an event meanwhile,
\* the calls that read it as one leave no more records of a user than handlers.
THEOREM ParticipationsBound == Spec => []ParticipationsBounded
<1>1. Init => LimitCounted
  <2> SUFFICES ASSUME Init, NEW e \in Events, NEW u \in Users
               PROVE  Cardinality(LimitedOf(e, u)) + Cardinality(Saving(e, u))
                         <= Cardinality(Handlers)
    BY DEF LimitCounted
  <2>1. LimitedOf(e, u) = {} /\ Saving(e, u) = {}
    BY DEF Init, LimitedOf, Saving, Idle
  <2> QED
    BY <2>1, FiniteAssumption, FS_EmptySet, FS_CardinalityType
<1>2. TypeOK /\ LimitCounted => ParticipationsBounded
  BY LimitFinite DEF LimitCounted, ParticipationsBounded
<1> QED
  BY <1>1, <1>2, TypeCorrect, LimitStep, PTL DEF Spec

-----------------------------------------------------------------------------
(***************************************************************************)
(* The counter of participants.  ParticipantLedger is inductive: a record  *)
(* is in the sum as long as its call has neither counted it nor failed.    *)
(***************************************************************************)
\* The calls that are about to count are finite.
LEMMA CountingFinite ==
    ASSUME TypeOK, NEW e
    PROVE  IsFiniteSet(Counting(e)) /\ Cardinality(Counting(e)) \in Nat
<1>1. Counting(e) \subseteq Handlers
  BY DEF Counting
<1> QED
  BY <1>1, FiniteAssumption, FS_Subset, FS_CardinalityType

\* A call that counts or fails leaves Counting.
LEMMA CountingLeft ==
    ASSUME TypeOK, NEW h \in Handlers, NEW e, Return(h)
    PROVE  Counting(e)' = Counting(e) \ {h}
  BY DEF Return, Idle, Counting, TypeOK

\* No step breaks the ledger.
LEMMA LedgerStep ==
    TypeOK /\ TypeOK' /\ ParticipantLedger /\ [Next]_vars => ParticipantLedger'
<1> SUFFICES ASSUME TypeOK, TypeOK', ParticipantLedger, [Next]_vars, NEW e \in Events
             PROVE  participantCount'[e] + Cardinality(Counting(e)') + lost'[e] = TotalOf(e)'
  BY DEF ParticipantLedger
<1> DEFINE Balanced ==
       participantCount'[e] + Cardinality(Counting(e)') + lost'[e] = TotalOf(e)'
<1>0. participantCount[e] + Cardinality(Counting(e)) + lost[e] = TotalOf(e)
  BY DEF ParticipantLedger
<1>1. CASE UNCHANGED <<participantCount, participations, lost>> /\ Counting(e)' = Counting(e)
  BY <1>0, <1>1 DEF TotalOf, RecordsOf
<1>2. ASSUME NEW h \in Handlers, \A g \in Handlers \ {h} : call'[g] = call[g],
             call[h].pc # "count", call'[h].pc # "count"
      PROVE  Counting(e)' = Counting(e)
  BY <1>2 DEF Counting
<1>3. ASSUME NEW h \in Handlers, NEW v \in Users, NEW f \in Events, NEW d \in Evidence,
             CreateParticipation(h, v, f, d)
      PROVE  Counting(e)' = Counting(e)
  BY <1>3 DEF CreateParticipation, Counting, TypeOK, Idle
<1>4. ASSUME NEW h \in Handlers, FindExisting(h)
      PROVE  Counting(e)' = Counting(e)
  <2>1. call[h] \in Entry
    BY <1>4, CallShape DEF FindExisting, EntrySteps
  <2> QED
    BY <1>2, <1>4, <2>1 DEF FindExisting, Goto, Return, Idle, TypeOK, Entry
<1>5. ASSUME NEW h \in Handlers, NEW p \in ParticipationIds, SaveParticipation(h, p)
      PROVE  Balanced
  <2>1. call[h] \in Entry
    BY <1>5, CallShape DEF SaveParticipation, EntrySteps
  <2>2. /\ call'[h].pc = "count" /\ call'[h].event = call[h].event
        /\ \A g \in Handlers \ {h} : call'[g] = call[g]
    BY <1>5, <2>1 DEF SaveParticipation, Goto, TypeOK, Entry
  <2>3. CASE call[h].event = e
    <3>1. Counting(e)' = Counting(e) \cup {h} /\ h \notin Counting(e)
      BY <1>5, <2>2, <2>3 DEF SaveParticipation, Counting
    <3>2. RecordsOf(e)' = RecordsOf(e) \cup {p} /\ p \notin RecordsOf(e)
      BY <1>5, <2>3 DEF SaveParticipation, RecordsOf, TypeOK
    <3>3. Cardinality(Counting(e)') = Cardinality(Counting(e)) + 1
      BY <3>1, CountingFinite, FS_AddElement
    <3>4. TotalOf(e)' = TotalOf(e) + 1
      BY <3>2, CountsFinite, FS_AddElement DEF TotalOf
    <3> QED
      BY <1>0, <1>5, <3>3, <3>4, CountingFinite, CountsFinite DEF SaveParticipation, TypeOK
  <2>4. CASE call[h].event # e
    <3>1. Counting(e)' = Counting(e)
      BY <1>5, <2>2, <2>4 DEF SaveParticipation, Counting
    <3>2. RecordsOf(e)' = RecordsOf(e)
      BY <1>5, <2>4 DEF SaveParticipation, RecordsOf, TypeOK
    <3> QED
      BY <1>0, <1>5, <3>1, <3>2 DEF SaveParticipation, TotalOf
  <2> QED
    BY <2>3, <2>4
<1>6. ASSUME NEW h \in Handlers, CountParticipant(h)
      PROVE  Balanced
  <2>1. Counting(e)' = Counting(e) \ {h} /\ TotalOf(e)' = TotalOf(e)
    BY <1>6, CountingLeft DEF CountParticipant, TotalOf, RecordsOf
  <2>2. call[h].event = e <=> h \in Counting(e)
    BY <1>6 DEF CountParticipant, Counting
  <2>3. Cardinality(Counting(e)') =
           IF call[h].event = e THEN Cardinality(Counting(e)) - 1 ELSE Cardinality(Counting(e))
    BY <2>1, <2>2, CountingFinite, FS_RemoveElement, ZenonT(60)
  <2>4. /\ participantCount'[e] = IF call[h].event = e THEN participantCount[e] + 1
                                  ELSE participantCount[e]
        /\ lost' = lost
    BY <1>6 DEF CountParticipant, Counted, TypeOK
  <2> QED
    BY <1>0, <2>1, <2>3, <2>4, CountingFinite, CountsFinite DEF TypeOK
<1>7. ASSUME NEW h \in Handlers, Fail(h)
      PROVE  Balanced
  <2>1. Counting(e)' = Counting(e) \ {h} /\ TotalOf(e)' = TotalOf(e)
    BY <1>7, CountingLeft DEF Fail, TotalOf, RecordsOf
  <2>2. Cardinality(Counting(e)') =
           IF h \in Counting(e) THEN Cardinality(Counting(e)) - 1 ELSE Cardinality(Counting(e))
    BY <2>1, CountingFinite, FS_RemoveElement
  <2>3. /\ lost'[e] = IF h \in Counting(e) THEN lost[e] + 1 ELSE lost[e]
        /\ participantCount' = participantCount
    BY <1>7 DEF Fail, Counting, TypeOK
  <2> QED
    BY <1>0, <2>1, <2>2, <2>3, CountingFinite, CountsFinite DEF TypeOK
<1>8. ASSUME NEW h \in Handlers, Respond(h) \/ \E f \in Events : GetParticipationStats(h, f)
      PROVE  Counting(e)' = Counting(e)
  BY <1>8 DEF Respond, GetParticipationStats, Return, Counting, Idle, TypeOK
<1>9. ASSUME NEW h \in Handlers,
             CountUnique(h) \/ CountByDay(h) \/ CountRequests(h) \/ CountApproved(h)
      PROVE  Counting(e)' = Counting(e)
  <2>1. /\ call[h] \in Report /\ call'[h] \in Report
        /\ \A g \in Handlers \ {h} : call'[g] = call[g]
    BY <1>9, ReportMoves
  <2> QED
    BY <1>2, <2>1 DEF Report
<1>10. ASSUME UNCHANGED call
       PROVE  Counting(e)' = Counting(e)
  BY <1>10 DEF Counting
<1> QED
  BY <1>1, <1>3, <1>4, <1>5, <1>6, <1>7, <1>8, <1>9, <1>10, ZenonT(60)
  DEF Next, vars, CreateParticipation, FindExisting, Respond, GetParticipationStats,
      CountUnique, CountByDay, CountRequests, CountApproved, Query,
      RequestSaved, RequestApproved, RequestRejected, ChangeEvent, Tick

\* participantCount is the number of records less the calls that have saved one
\* and not counted it: those still under way and those that failed in between.
THEOREM LedgerBalanced == Spec => []ParticipantLedger
<1>1. Init => ParticipantLedger
  <2> SUFFICES ASSUME Init, NEW e \in Events
               PROVE  participantCount[e] + Cardinality(Counting(e)) + lost[e] = TotalOf(e)
    BY DEF ParticipantLedger
  <2>1. Counting(e) = {} /\ RecordsOf(e) = {}
    BY DEF Init, Counting, Idle, RecordsOf
  <2> QED
    BY <2>1, FS_EmptySet DEF Init, TotalOf
<1> QED
  BY <1>1, TypeCorrect, LedgerStep, PTL DEF Spec

-----------------------------------------------------------------------------
(***************************************************************************)
(* The report.  Its order follows from how each number was ordered to the  *)
(* records when it was counted, and that records are only added.           *)
(***************************************************************************)
\* What a report has counted so far is no more than what is stored by now.
Underestimates(h) ==
    /\ call[h].pc \in ReportSteps => call[h].total <= TotalOf(call[h].event)
    /\ call[h].pc \in ReportSteps \ {"unique"} => call[h].unique <= TotalOf(call[h].event)

ReportsCounted == ReportOrdered /\ \A h \in Handlers : Underestimates(h)

\* Records are only added.
LEMMA TotalGrows ==
    ASSUME TypeOK, TypeOK', [Next]_vars, NEW e
    PROVE  TotalOf(e) <= TotalOf(e)' /\ TotalOf(e)' \in Nat
<1>1. RecordsOf(e) \subseteq RecordsOf(e)'
  <2>1. CASE UNCHANGED participations
    BY <2>1 DEF RecordsOf
  <2>2. ASSUME NEW h \in Handlers, NEW p \in ParticipationIds, SaveParticipation(h, p)
        PROVE  RecordsOf(e) \subseteq RecordsOf(e)'
    BY <2>2 DEF SaveParticipation, RecordsOf
  <2> QED
    BY <2>1, <2>2
    DEF Next, vars, CreateParticipation, FindExisting, CountParticipant, Respond, Fail,
        GetParticipationStats, CountUnique, CountByDay, CountRequests, CountApproved, Query,
        RequestSaved, RequestApproved, RequestRejected, ChangeEvent, Tick
<1>2. IsFiniteSet(RecordsOf(e)')
  <2>1. RecordsOf(e)' \subseteq ParticipationIds
    BY DEF RecordsOf, TypeOK
  <2> QED
    BY <2>1, FiniteAssumption, FS_Subset
<1> QED
  BY <1>1, <1>2, FS_Subset, FS_CardinalityType DEF TotalOf

\* ReportOrdered, for one handler.
OrderedAt(h) ==
    call[h].pc \in {"requests", "approved", "respond"} =>
        call[h].total <= call[h].byDay /\ call[h].unique <= call[h].byDay

\* A handler that a step leaves alone, or whose step is not one of a report, keeps
\* its part of the invariant.
LEMMA ReportKept ==
    ASSUME TypeOK, TypeOK', [Next]_vars, NEW h \in Handlers, OrderedAt(h), Underestimates(h),
           call'[h] = call[h] \/ call'[h].pc \in {"idle"} \cup EntrySteps
    PROVE  OrderedAt(h)' /\ Underestimates(h)'
<1>1. CASE call'[h] = call[h]
  <2>1. CASE call[h].pc \in ReportSteps
    <3>1. call[h].total \in Nat /\ call[h].unique \in Nat
      BY <2>1, CallShape DEF Report
    <3>2. PICK f : f = call[h].event /\ f = call'[h].event
      BY <1>1
    <3>3. TotalOf(f) \in Nat /\ TotalOf(f)' \in Nat /\ TotalOf(f) <= TotalOf(f)'
      BY CountsFinite, TotalGrows
    <3>4. TotalOf(call[h].event) = TotalOf(f) /\ TotalOf(call[h].event)' = TotalOf(f)'
      BY <3>2 DEF TotalOf, RecordsOf
    <3>5. Underestimates(h)'
      BY <1>1, <2>1, <3>1, <3>3, <3>4 DEF Underestimates
    <3> QED
      BY <1>1, <3>5 DEF OrderedAt
  <2>2. CASE call[h].pc \notin ReportSteps
    BY <1>1, <2>2 DEF OrderedAt, Underestimates, ReportSteps
  <2> QED
    BY <2>1, <2>2
<1>2. CASE call'[h].pc \in {"idle"} \cup EntrySteps
  BY <1>2 DEF OrderedAt, Underestimates, ReportSteps, EntrySteps
<1> QED
  BY <1>1, <1>2

\* No step breaks the order.
LEMMA ReportStep ==
    TypeOK /\ TypeOK' /\ ReportsCounted /\ [Next]_vars => ReportsCounted'
<1> SUFFICES ASSUME TypeOK, TypeOK', ReportsCounted, [Next]_vars, NEW g \in Handlers
             PROVE  OrderedAt(g)' /\ Underestimates(g)'
  BY DEF ReportsCounted, ReportOrdered, OrderedAt
<1> DEFINE Kept == OrderedAt(g)' /\ Underestimates(g)'
           e == call[g].event
<1>0. OrderedAt(g) /\ Underestimates(g)
  BY DEF ReportsCounted, ReportOrdered, OrderedAt
<1>1. CASE call'[g] = call[g]
  BY <1>0, <1>1, ReportKept
<1>2. CASE call'[g].pc \in {"idle"} \cup EntrySteps
  BY <1>0, <1>2, ReportKept
<1>3. ASSUME NEW f \in Events, GetParticipationStats(g, f)
      PROVE  Kept
  <2>1. /\ call'[g].pc = "unique" /\ call'[g].event = f
        /\ call'[g].total = TotalOf(f) /\ TotalOf(f)' = TotalOf(f)
    BY <1>3 DEF GetParticipationStats, TypeOK, TotalOf, RecordsOf
  <2> QED
    BY <2>1, CountsFinite DEF OrderedAt, Underestimates
<1>4. ASSUME CountUnique(g)
      PROVE  Kept
  <2>1. call[g] \in Report /\ call[g].total <= TotalOf(e)
    BY <1>0, <1>4, ReportMoves DEF CountUnique, Query, Underestimates, ReportSteps
  <2>2. /\ call'[g].pc = "byDay" /\ call'[g].event = e /\ call'[g].total = call[g].total
        /\ call'[g].unique = UniqueOf(e) /\ TotalOf(e)' = TotalOf(e)
    BY <1>4, <2>1 DEF CountUnique, Query, TypeOK, Report, TotalOf, RecordsOf
  <2> QED
    BY <2>1, <2>2, CountsFinite DEF OrderedAt, Underestimates
<1>5. ASSUME CountByDay(g)
      PROVE  Kept
  <2>1. /\ call[g] \in Report
        /\ call[g].total <= TotalOf(e) /\ call[g].unique <= TotalOf(e)
    BY <1>0, <1>5, ReportMoves DEF CountByDay, Query, Underestimates, ReportSteps
  <2>2. /\ call'[g].pc = "requests" /\ call'[g].event = e /\ call'[g].total = call[g].total
        /\ call'[g].unique = call[g].unique /\ call'[g].byDay = TotalOf(e)
        /\ TotalOf(e)' = TotalOf(e)
    BY <1>5, <2>1 DEF CountByDay, ByDayOf, Query, TypeOK, Report, TotalOf, RecordsOf
  <2> QED
    BY <2>1, <2>2 DEF OrderedAt, Underestimates
<1>6. ASSUME CountRequests(g) \/ CountApproved(g)
      PROVE  Kept
  <2>1. /\ call[g] \in Report /\ call[g].pc \in {"requests", "approved"}
        /\ call[g].total <= TotalOf(e) /\ call[g].unique <= TotalOf(e)
        /\ call[g].total <= call[g].byDay /\ call[g].unique <= call[g].byDay
    BY <1>0, <1>6, ReportMoves
    DEF CountRequests, CountApproved, Query, Underestimates, OrderedAt, ReportSteps
  <2>2. /\ call'[g].event = e /\ call'[g].total = call[g].total
        /\ call'[g].unique = call[g].unique /\ call'[g].byDay = call[g].byDay
        /\ TotalOf(e)' = TotalOf(e)
    <3>1. CASE CountRequests(g)
      <4>1. call' = [call EXCEPT ![g] = [@ EXCEPT !.requests = requested[e], !.pc = "approved"]]
        BY <3>1 DEF CountRequests, Query
      <4>2. /\ call'[g].event = call[g].event /\ call'[g].total = call[g].total
            /\ call'[g].unique = call[g].unique /\ call'[g].byDay = call[g].byDay
        BY <2>1, <4>1 DEF TypeOK, Report
      <4>3. participations' = participations
        BY <3>1 DEF CountRequests, Query
      <4> QED
        BY <4>2, <4>3 DEF TotalOf, RecordsOf
    <3>2. CASE CountApproved(g)
      <4>1. call' = [call EXCEPT ![g] = [@ EXCEPT !.approved = approved[e], !.pc = "respond"]]
        BY <3>2 DEF CountApproved, Query
      <4>2. /\ call'[g].event = call[g].event /\ call'[g].total = call[g].total
            /\ call'[g].unique = call[g].unique /\ call'[g].byDay = call[g].byDay
        BY <2>1, <4>1 DEF TypeOK, Report
      <4>3. participations' = participations
        BY <3>2 DEF CountApproved, Query
      <4> QED
        BY <4>2, <4>3 DEF TotalOf, RecordsOf
    <3> QED
      BY <1>6, <3>1, <3>2
  <2> QED
    BY <2>1, <2>2 DEF OrderedAt, Underestimates
<1>7. ASSUME NEW h \in Handlers, NEW u \in Users, NEW f \in Events, NEW d \in Evidence,
             CreateParticipation(h, u, f, d)
      PROVE  call'[g] = call[g] \/ call'[g].pc \in {"idle"} \cup EntrySteps
  BY <1>7 DEF CreateParticipation, TypeOK, EntrySteps
<1>8. ASSUME NEW h \in Handlers,
             FindExisting(h) \/ \E p \in ParticipationIds : SaveParticipation(h, p)
      PROVE  call'[g] = call[g] \/ call'[g].pc \in {"idle"} \cup EntrySteps
  <2>1. call[h] \in Entry
    BY <1>8, CallShape DEF FindExisting, SaveParticipation, EntrySteps
  <2>2. CASE Return(h)
    BY <2>2 DEF Return, Idle, TypeOK
  <2>3. ASSUME NEW pc \in EntrySteps, Goto(h, pc)
        PROVE  call'[g] = call[g] \/ call'[g].pc \in EntrySteps
    BY <2>1, <2>3 DEF Goto, TypeOK, Entry
  <2> QED
    BY <1>8, <2>2, <2>3 DEF FindExisting, SaveParticipation, EntrySteps
<1>9. ASSUME NEW h \in Handlers, CountParticipant(h) \/ Respond(h) \/ Fail(h)
      PROVE  call'[g] = call[g] \/ call'[g].pc \in {"idle"} \cup EntrySteps
  BY <1>9 DEF CountParticipant, Respond, Fail, Return, Idle, TypeOK
<1>10. ASSUME NEW h \in Handlers \ {g},
              \/ \E f \in Events : GetParticipationStats(h, f)
              \/ CountUnique(h) \/ CountByDay(h) \/ CountRequests(h) \/ CountApproved(h)
       PROVE  call'[g] = call[g]
  BY <1>10
  DEF GetParticipationStats, CountUnique, CountByDay, CountRequests, CountApproved, Query, TypeOK
<1> QED
  BY <1>1, <1>2, <1>3, <1>4, <1>5, <1>6, <1>7, <1>8, <1>9, <1>10
  DEF Next, vars, RequestSaved, RequestApproved, RequestRejected, ChangeEvent, Tick

\* A report never has fewer participations by day than in total, or than unique
\* participants, although each number was counted at its own moment.
THEOREM ReportsOrdered == Spec => []ReportOrdered
<1>1. Init => ReportsCounted
  BY DEF Init, ReportsCounted, ReportOrdered, Underestimates, Idle, ReportSteps
<1>2. ReportsCounted => ReportOrdered
  BY DEF ReportsCounted
<1> QED
  BY <1>1, <1>2, TypeCorrect, ReportStep, PTL DEF Spec
=============================================================================

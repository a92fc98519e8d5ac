--------------------------- MODULE Participation ---------------------------
(***************************************************************************)
(* Participation in events (createParticipation) and its statistics (get-  *)
(* ParticipationStats) in the Event service.  The duplicate check, the     *)
(* insert and the increment of participantCount are three calls to the     *)
(* database; the statistics are five queries with no common snapshot.      *)
(* Reward requests, which the statistics count, come from the environment. *)
(***************************************************************************)
EXTENDS EventRules, FiniteSets

CONSTANTS
    Users, Events,
    Handlers,           \* bound: the calls that are in flight together
    ParticipationIds,   \* bound: ids for the records stored or in submission
    MaxRequests,        \* bound: reward requests of an event
    MaxTime,            \* bound: the last value of the clock
    Evidence,           \* the verificationData that users send
    EventStates,        \* the documents that an event goes through
    Failures            \* whether a call to the database can fail

ASSUME FiniteAssumption == IsFiniteSet(Handlers) /\ IsFiniteSet(ParticipationIds)
ASSUME InputAssumption ==
    /\ Evidence \subseteq VerificationData
    /\ EventStates \subseteq EventDocument
    /\ MaxTime \in Nat /\ MaxRequests \in Nat
    /\ Failures \in BOOLEAN

VARIABLES
    now,              \* the clock that new Date() reads
    events,           \* the events collection, without participantCount
    participantCount, \* the participantCount field of each event
    participations,   \* the event_participations collection
    limited,          \* history: the records of calls that read a limit of one
    lost,             \* history: the calls that failed before they counted
    requested,        \* how many reward requests each event has
    approved,         \* how many of them are APPROVED
    call              \* the state of each handler

vars == <<now, events, participantCount, participations, limited, lost, requested, approved, call>>

\* A record.  Nothing changes or deletes one, so its status stays PARTICIPATED.
Record == [event : Events, user : Users]

Idle == [pc |-> "idle"]
Entry ==
    [pc : {"findExisting", "save", "count"}, user : Users, event : Events,
     seen : EventStates]
Report ==
    [pc : {"unique", "byDay", "requests", "approved", "respond"}, event : Events,
     total : Nat, unique : Nat, byDay : Nat, requests : Nat, approved : Nat]

RecordsOf(e) == {p \in DOMAIN participations : participations[p].event = e}
TotalOf(e) == Cardinality(RecordsOf(e))
UniqueOf(e) == Cardinality({participations[p].user : p \in RecordsOf(e)})

Init ==
    /\ now = 0
    /\ events \in [Events -> EventStates]
    /\ participantCount = [e \in Events |-> 0]
    /\ participations = [p \in {} |-> Idle]
    /\ limited = {}
    /\ lost = [e \in Events |-> 0]
    /\ requested = [e \in Events |-> 0]
    /\ approved = [e \in Events |-> 0]
    /\ call = [h \in Handlers |-> Idle]

-----------------------------------------------------------------------------
(***************************************************************************)
(* createParticipation                                                     *)
(***************************************************************************)
Goto(h, pc) == call' = [call EXCEPT ![h].pc = pc]
Return(h) == call' = [call EXCEPT ![h] = Idle]

Entering == {h \in Handlers : call[h].pc \in {"findExisting", "save"}}

\* The event is read and judged in one go: no call lies between.
CreateParticipation(h, u, e, data) ==
    /\ call[h] = Idle
    /\ Cardinality(DOMAIN participations) + Cardinality(Entering)
          < Cardinality(ParticipationIds)
    /\ call' = IF VerifyEventCondition(events[e], data, now)
               THEN [call EXCEPT ![h] = [pc |-> "findExisting", user |-> u,
                                         event |-> e, seen |-> events[e]]]
               ELSE call
    /\ UNCHANGED <<now, events, participantCount, participations, limited, lost, requested, approved>>

\* The records of the user of c for its event.
Existing(c) == {p \in RecordsOf(c.event) : participations[p].user = c.user}

\* Mutant: the flag is read the wrong way round.
ConflictsInverted(c) == Existing(c) # {} /\ c.seen.allowMultipleParticipation

Conflicts(c) == Existing(c) # {} /\ ~c.seen.allowMultipleParticipation

FindExisting(h) ==
    /\ call[h].pc = "findExisting"
    /\ IF Conflicts(call[h]) THEN Return(h) ELSE Goto(h, "save")
    /\ UNCHANGED <<now, events, participantCount, participations, limited, lost, requested, approved>>

SaveParticipation(h, p) ==
    /\ call[h].pc = "save"
    /\ p \in ParticipationIds \ DOMAIN participations
    /\ participations' = [x \in DOMAIN participations \cup {p} |->
                             IF x = p THEN [event |-> call[h].event, user |-> call[h].user]
                             ELSE participations[x]]
    /\ limited' = IF call[h].seen.allowMultipleParticipation THEN limited
                  ELSE limited \cup {p}
    /\ Goto(h, "count")
    /\ UNCHANGED <<now, events, participantCount, lost, requested, approved>>

\* Mutant: the increment has the wrong sign.
CountedDown(e) == [participantCount EXCEPT ![e] = @ - 1]

\* Mutant: the count is recomputed from what is stored by now.
CountedStored(e) == [participantCount EXCEPT ![e] = TotalOf(e)]

Counted(e) == [participantCount EXCEPT ![e] = @ + 1]

CountParticipant(h) ==
    /\ call[h].pc = "count"
    /\ participantCount' = Counted(call[h].event)
    /\ Return(h)
    /\ UNCHANGED <<now, events, participations, limited, lost, requested, approved>>

-----------------------------------------------------------------------------
(***************************************************************************)
(* getParticipationStats: five queries, then the response.                 *)
(***************************************************************************)
GetParticipationStats(h, e) ==
    /\ call[h] = Idle
    /\ call' = [call EXCEPT ![h] =
            [pc |-> "unique", event |-> e, total |-> TotalOf(e),
             unique |-> 0, byDay |-> 0, requests |-> 0, approved |-> 0]]
    /\ UNCHANGED <<now, events, participantCount, participations, limited, lost, requested, approved>>

\* Mutant: the daily counts are grouped by user as well.
ByDayOfUsers(e) == UniqueOf(e)

\* The sum over the days: each participation falls on one day.
ByDayOf(e) == TotalOf(e)

Query(h, at, field, value, next) ==
    /\ call[h].pc = at
    /\ call' = [call EXCEPT ![h] = [@ EXCEPT ![field] = value, !.pc = next]]
    /\ UNCHANGED <<now, events, participantCount, participations, limited, lost, requested, approved>>

CountUnique(h) == Query(h, "unique", "unique", UniqueOf(call[h].event), "byDay")
CountByDay(h) == Query(h, "byDay", "byDay", ByDayOf(call[h].event), "requests")
CountRequests(h) == Query(h, "requests", "requests", requested[call[h].event], "approved")
CountApproved(h) == Query(h, "approved", "approved", approved[call[h].event], "respond")

Respond(h) ==
    /\ call[h].pc = "respond"
    /\ Return(h)
    /\ UNCHANGED <<now, events, participantCount, participations, limited, lost, requested, approved>>

-----------------------------------------------------------------------------
(***************************************************************************)
(* The environment: users and operators work on reward requests, a call    *)
(* fails, an event is edited, the clock advances.                          *)
(***************************************************************************)
RequestSaved(e) ==
    /\ requested[e] < MaxRequests
    /\ requested' = [requested EXCEPT ![e] = @ + 1]
    /\ UNCHANGED <<now, events, participantCount, participations, limited, lost, approved, call>>

RequestApproved(e) ==
    /\ approved[e] < requested[e]
    /\ approved' = [approved EXCEPT ![e] = @ + 1]
    /\ UNCHANGED <<now, events, participantCount, participations, limited, lost, requested, call>>

RequestRejected(e) ==
    /\ approved[e] > 0
    /\ approved' = [approved EXCEPT ![e] = @ - 1]
    /\ UNCHANGED <<now, events, participantCount, participations, limited, lost, requested, call>>

Fail(h) ==
    /\ Failures
    /\ call[h] # Idle
    /\ lost' = IF call[h].pc = "count"
               THEN [lost EXCEPT ![call[h].event] = @ + 1] ELSE lost
    /\ Return(h)
    /\ UNCHANGED <<now, events, participantCount, participations, limited, requested, approved>>

ChangeEvent(e, s) ==
    /\ s # events[e]
    /\ events' = [events EXCEPT ![e] = s]
    /\ UNCHANGED <<now, participantCount, participations, limited, lost, requested, approved, call>>

Tick ==
    /\ now < MaxTime
    /\ now' = now + 1
    /\ UNCHANGED <<events, participantCount, participations, limited, lost, requested, approved, call>>

Next ==
    \/ \E h \in Handlers :
          \/ \E u \in Users, e \in Events, d \in Evidence : CreateParticipation(h, u, e, d)
          \/ \E e \in Events : GetParticipationStats(h, e)
          \/ FindExisting(h)
          \/ \E p \in ParticipationIds : SaveParticipation(h, p)
          \/ CountParticipant(h)
          \/ CountUnique(h)
          \/ CountByDay(h)
          \/ CountRequests(h)
          \/ CountApproved(h)
          \/ Respond(h)
          \/ Fail(h)
    \/ \E e \in Events :
          \/ RequestSaved(e)
          \/ RequestApproved(e)
          \/ RequestRejected(e)
          \/ \E s \in EventStates : ChangeEvent(e, s)
    \/ Tick

Spec == Init /\ [][Next]_vars

-----------------------------------------------------------------------------
(***************************************************************************)
(* Properties                                                              *)
(***************************************************************************)

\* Documents and locals have the shape the code gives them.
TypeOK ==
    /\ now \in 0..MaxTime
    /\ events \in [Events -> EventStates]
    /\ participantCount \in [Events -> Nat]
    /\ DOMAIN participations \subseteq ParticipationIds
    /\ participations \in [DOMAIN participations -> Record]
    /\ limited \subseteq DOMAIN participations
    /\ lost \in [Events -> Nat]
    /\ requested \in [Events -> Nat] /\ approved \in [Events -> Nat]
    /\ call \in [Handlers -> {Idle} \cup Entry \cup Report]

\* The records of a user for an event that calls saved which allow only one.
LimitedOf(e, u) == {p \in limited : participations[p] = [event |-> e, user |-> u]}

\* The duplicate check and the insert of createParticipation are two calls, so
\* attempts in flight can pass each other.  But the calls that read an event as
\* allowing one participation never leave more records of a user than calls run
\* together, whoever switches that flag meanwhile, and at most one if they run
\* one at a time.
ParticipationsBounded ==
    \A e \in Events, u \in Users : Cardinality(LimitedOf(e, u)) <= Cardinality(Handlers)

Counting(e) == {h \in Handlers : call[h].pc = "count" /\ call[h].event = e}

\* participantCount, incremented after the insert, is neither early nor twice:
\* it lags behind the records by the calls between the two and by those that
\* failed there, and by nothing else.
ParticipantLedger ==
    \A e \in Events :
        participantCount[e] + Cardinality(Counting(e)) + lost[e] = TotalOf(e)

\* Records are only added, and the daily counts are queried last: a report never
\* has fewer participations by day than in total or than unique participants.
ReportOrdered ==
    \A h \in Handlers :
        call[h].pc \in {"requests", "approved", "respond"} =>
            /\ call[h].total <= call[h].byDay
            /\ call[h].unique <= call[h].byDay

-----------------------------------------------------------------------------
(***************************************************************************)
(* What a comment says of the report.                                      *)
(***************************************************************************)

\* "The share of the reward requests that were approved" is at most one.
SuccessRateIsShare ==
    \A h \in Handlers :
        call[h].pc = "respond" /\ call[h].requests > 0 => call[h].approved <= call[h].requests
=============================================================================

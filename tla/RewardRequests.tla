--------------------------- MODULE RewardRequests ---------------------------
(***************************************************************************)
(* Reward requests of the Event service: a user asks for rewards of an     *)
(* event (createRewardRequest), an operator decides the request (update-   *)
(* RewardRequest), and an approval writes one UserReward per reward        *)
(* (issueRewards).  No transaction or lock spans a handler, so each call   *)
(* to the database is one action, and the steps of the handlers in flight  *)
(* interleave.  EventLog writes are left out: nothing reads the log and    *)
(* its errors are swallowed.                                               *)
(***************************************************************************)
EXTENDS EventRules, Sequences, FiniteSets

CONSTANTS
    Users, Events, Rewards,
    RequestIds,         \* bound: ids for the requests stored or in submission
    Handlers,           \* bound: the calls that are in flight together
    MaxApprovals,       \* bound: approvals begin while fewer grants exist
    MaxTime,            \* bound: the last value of the clock
    EventOf,            \* the event each reward is created for
    RewardEdits,        \* the fields that operators write over in rewards
    RewardLists,        \* the rewardIds arrays that users send
    Evidence,           \* the verificationData that users send
    EventStates,        \* the documents that an event goes through
    OperatorStatuses,   \* bound: the statuses that operators send
    Failures            \* whether a call to the database can fail

RequestStatus == {"PENDING", "APPROVED", "REJECTED", "ISSUED", "CANCELLED"}
NoStatus == "NONE"      \* an UpdateRewardRequestDto without a status

ASSUME FiniteAssumption == IsFiniteSet(RequestIds) /\ IsFiniteSet(Handlers)
ASSUME InputAssumption ==
    /\ EventOf \in [Rewards -> Events]
    /\ RewardLists \subseteq Seq(Rewards)
    /\ Evidence \subseteq VerificationData
    /\ EventStates \subseteq EventDocument
    /\ \A dto \in RewardEdits :
          /\ "eventId" \in DOMAIN dto => dto.eventId \in Events
          /\ "issuedQuantity" \in DOMAIN dto => dto.issuedQuantity \in Int
    /\ OperatorStatuses \subseteq RequestStatus \cup {NoStatus}
    /\ MaxTime \in Nat
    /\ MaxApprovals \in Nat
    /\ Failures \in BOOLEAN

VARIABLES
    now,            \* the clock that new Date() reads
    events,         \* the events collection
    rewardEvent,    \* the eventId field of each reward
    requests,       \* the reward requests stored so far, by id
    userRewards,    \* how many UserReward documents each request and reward has
    issuedQuantity, \* the issuedQuantity field of each reward
    call,           \* the state of each handler: where it awaits and its locals
    belonged,       \* history: the events each reward has ever belonged to
    reopened        \* history: the requests that an operator read as closed when
                    \* sending an open status for them

history == <<belonged, reopened>>

vars ==
    <<now, events, rewardEvent, requests, userRewards, issuedQuantity, call, history>>

(***************************************************************************)
(* Documents and handler states.                                           *)
(***************************************************************************)
RewardRequest ==
    [user : Users, event : Events, rewardIds : RewardLists,
     verificationData : Evidence, status : RequestStatus]

Idle == [pc |-> "idle"]

Submission ==
    [pc : {"findRewards", "findExisting", "save"},
     user : Users, event : Events, rewardIds : RewardLists,
     verificationData : Evidence, seen : EventStates]

Decision ==
    [pc : {"issueRead", "issue", "count", "write"},
     id : RequestIds, to : RequestStatus \cup {NoStatus},
     next : Nat \ {0}]

RewardSet(rewardIds) == {rewardIds[i] : i \in DOMAIN rewardIds}

OpenStatuses == {"PENDING", "APPROVED"}

Goto(h, pc) == call' = [call EXCEPT ![h].pc = pc]
Return(h) == call' = [call EXCEPT ![h] = Idle]

Init ==
    /\ now = 0
    /\ events \in [Events -> EventStates]
    /\ rewardEvent = EventOf
    /\ requests = [q \in {} |-> Idle]
    /\ userRewards = [q \in RequestIds |-> [r \in Rewards |-> 0]]
    /\ issuedQuantity = [r \in Rewards |-> 0]
    /\ call = [h \in Handlers |-> Idle]
    /\ belonged = [r \in Rewards |-> {EventOf[r]}]
    /\ reopened = {}

-----------------------------------------------------------------------------
(***************************************************************************)
(* createRewardRequest                                                     *)
(***************************************************************************)
Submitting == {h \in Handlers : call[h].pc \in {"findRewards", "findExisting", "save"}}

CreateRewardRequest(h, u, e, rewardIds, data) ==
    /\ call[h] = Idle
    /\ Cardinality(DOMAIN requests) + Cardinality(Submitting)
          < Cardinality(RequestIds)
    /\ call' = [call EXCEPT ![h] =
            [pc |-> "findRewards", user |-> u, event |-> e,
             rewardIds |-> rewardIds, verificationData |-> data,
             seen |-> events[e]]]
    /\ UNCHANGED <<now, events, rewardEvent, requests, userRewards, issuedQuantity, history>>

\* rewardModel.find returns each matching document once.
FoundRewards(c) ==
    {r \in RewardSet(c.rewardIds) : rewardEvent[r] = c.event}

\* Mutant: the ids are deduplicated before they are counted.
RewardsAcceptedDistinct(c) ==
    /\ Len(c.rewardIds) > 0
    /\ Cardinality(FoundRewards(c)) = Cardinality(RewardSet(c.rewardIds))

RewardsAccepted(c) ==
    /\ Len(c.rewardIds) > 0
    /\ Cardinality(FoundRewards(c)) = Len(c.rewardIds)

FindRewards(h) ==
    /\ call[h].pc = "findRewards"
    /\ IF /\ RewardsAccepted(call[h])
          /\ VerifyEventCondition(call[h].seen, call[h].verificationData, now)
       THEN Goto(h, "findExisting")
       ELSE Return(h)
    /\ UNCHANGED <<now, events, rewardEvent, requests, userRewards, issuedQuantity, history>>

\* Mutant: only a request for exactly the same rewards counts.
OverlapsExactly(q, c) ==
    /\ requests[q].user = c.user
    /\ requests[q].event = c.event
    /\ RewardSet(requests[q].rewardIds) = RewardSet(c.rewardIds)

Overlaps(q, c) ==
    /\ requests[q].user = c.user
    /\ requests[q].event = c.event
    /\ RewardSet(requests[q].rewardIds) \cap RewardSet(c.rewardIds) # {}

\* Mutant: the filter names PENDING only.
ExistingPending(c) ==
    {q \in DOMAIN requests : Overlaps(q, c) /\ requests[q].status = "PENDING"}

ExistingRequests(c) ==
    {q \in DOMAIN requests :
        Overlaps(q, c) /\ requests[q].status \in OpenStatuses}

FindExisting(h) ==
    /\ call[h].pc = "findExisting"
    /\ IF ExistingRequests(call[h]) = {} THEN Goto(h, "save") ELSE Return(h)
    /\ UNCHANGED <<now, events, rewardEvent, requests, userRewards, issuedQuantity, history>>

\* Mutant: a request whose condition is met is approved at once.
NewApproved(c) ==
    [user |-> c.user, event |-> c.event, rewardIds |-> c.rewardIds,
     verificationData |-> c.verificationData, status |-> "APPROVED"]

NewRequest(c) ==
    [user |-> c.user, event |-> c.event, rewardIds |-> c.rewardIds,
     verificationData |-> c.verificationData, status |-> "PENDING"]

SaveRequest(h, q) ==
    /\ call[h].pc = "save"
    /\ q \in RequestIds \ DOMAIN requests
    /\ requests' = [x \in DOMAIN requests \cup {q} |->
                       IF x = q THEN NewRequest(call[h]) ELSE requests[x]]
    /\ Return(h)
    /\ UNCHANGED <<now, events, rewardEvent, userRewards, issuedQuantity, history>>

-----------------------------------------------------------------------------
(***************************************************************************)
(* updateRewardRequest and issueRewards                                    *)
(***************************************************************************)
\* Mutant: every approval issues, whatever the status read.
AfterAnyRead(status, to) == IF to = "APPROVED" THEN "issueRead" ELSE "write"

AfterRead(status, to) ==
    IF status = "PENDING" /\ to = "APPROVED" THEN "issueRead" ELSE "write"

Reopens(q, to) == to \in OpenStatuses /\ requests[q].status \notin OpenStatuses

\* An operator may send any status, whatever the one that the handler reads.
UpdateRewardRequest(h, q, to) ==
    /\ call[h] = Idle
    /\ q \in DOMAIN requests
    /\ AfterRead(requests[q].status, to) = "issueRead" =>
          \A r \in Rewards : userRewards[q][r] < MaxApprovals
    /\ call' = [call EXCEPT ![h] =
            [pc |-> AfterRead(requests[q].status, to),
             id |-> q, to |-> to, next |-> 1]]
    /\ reopened' = IF Reopens(q, to) THEN reopened \cup {q} ELSE reopened
    /\ UNCHANGED <<now, events, rewardEvent, requests, userRewards, issuedQuantity, belonged>>

\* issueRewards reads the request a second time.
\* Mutant: issueRewards skips every request that is not PENDING any more.
AfterRereadPending(status) == IF status # "PENDING" THEN "write" ELSE "issue"

AfterReread(status) == IF status = "APPROVED" THEN "write" ELSE "issue"

IssueRewards(h) ==
    /\ call[h].pc = "issueRead"
    /\ Goto(h, AfterReread(requests[call[h].id].status))
    /\ UNCHANGED <<now, events, rewardEvent, requests, userRewards, issuedQuantity, history>>

\* Mutant: the loop walks the list from its end.
IdsReversed(h) ==
    LET ids == requests[call[h].id].rewardIds
    IN  [i \in DOMAIN ids |-> ids[Len(ids) + 1 - i]]

IdsOf(h) == requests[call[h].id].rewardIds

\* Mutant: the loop stops after its first reward.
AfterFirst(h) == "count"

\* Mutant: the updateMany after the loop is missing.
AfterIssueUncounted(h) ==
    IF call[h].next = Len(IdsOf(h)) THEN "write" ELSE "issue"

\* Mutant: after the loop the request is read once more, to see that all is issued.
AfterIssueRechecked(h) ==
    IF call[h].next = Len(IdsOf(h)) THEN "issueRead" ELSE "issue"

AfterIssue(h) == IF call[h].next = Len(IdsOf(h)) THEN "count" ELSE "issue"

\* One turn of the loop: rewardModel.findById, then userReward.save.
IssueReward(h) ==
    /\ call[h].pc = "issue"
    /\ userRewards' =
         [userRewards EXCEPT ![call[h].id][IdsOf(h)[call[h].next]] = @ + 1]
    /\ call' = [call EXCEPT ![h] =
            [pc |-> AfterIssue(h),
             id |-> @.id, to |-> @.to, next |-> @.next + 1]]
    /\ UNCHANGED <<now, events, rewardEvent, requests, issuedQuantity, history>>

\* Mutant: updateMany without its filter.
IncrementedAll(S) == [r \in Rewards |-> issuedQuantity[r] + 1]

Incremented(S) ==
    [r \in Rewards |-> issuedQuantity[r] + (IF r \in S THEN 1 ELSE 0)]

CountIssued(h) ==
    /\ call[h].pc = "count"
    /\ issuedQuantity' = Incremented(RewardSet(IdsOf(h)))
    /\ Goto(h, "write")
    /\ UNCHANGED <<now, events, rewardEvent, requests, userRewards, history>>

\* updateMany is atomic for each reward only: it can stop halfway.
CountFails(h) ==
    /\ Failures
    /\ call[h].pc = "count"
    /\ \E S \in SUBSET RewardSet(IdsOf(h)) :
          issuedQuantity' = Incremented(S)
    /\ Return(h)
    /\ UNCHANGED <<now, events, rewardEvent, requests, userRewards, history>>

\* Mutant: an update without a status overwrites the stored one.
WrittenAlways(status, to) == to

Written(status, to) == IF to = NoStatus THEN status ELSE to

WriteStatus(h) ==
    /\ call[h].pc = "write"
    /\ requests' = [requests EXCEPT ![call[h].id].status =
                       Written(@, call[h].to)]
    /\ Return(h)
    /\ UNCHANGED <<now, events, rewardEvent, userRewards, issuedQuantity, history>>

-----------------------------------------------------------------------------
(***************************************************************************)
(* The environment: a failed call or a crash ends a handler where it is,   *)
(* an operator edits an event or a reward, the clock advances.             *)
(***************************************************************************)
Fail(h) ==
    /\ Failures
    /\ call[h] # Idle
    /\ Return(h)
    /\ UNCHANGED <<now, events, rewardEvent, requests, userRewards, issuedQuantity, history>>

ChangeEvent(e, s) ==
    /\ s # events[e]
    /\ events' = [events EXCEPT ![e] = s]
    /\ UNCHANGED <<now, rewardEvent, requests, userRewards, issuedQuantity, call, history>>

\* updateReward writes the fields that the operator sent over the stored ones;
\* it reads the reward before only to see that it exists.
UpdateReward(r, dto) ==
    /\ rewardEvent' = IF "eventId" \in DOMAIN dto
                      THEN [rewardEvent EXCEPT ![r] = dto.eventId] ELSE rewardEvent
    /\ issuedQuantity' = IF "issuedQuantity" \in DOMAIN dto
                         THEN [issuedQuantity EXCEPT ![r] = dto.issuedQuantity]
                         ELSE issuedQuantity
    /\ belonged' = IF "eventId" \in DOMAIN dto
                   THEN [belonged EXCEPT ![r] = @ \cup {dto.eventId}] ELSE belonged
    /\ UNCHANGED <<now, events, requests, userRewards, call, reopened>>

Tick ==
    /\ now < MaxTime
    /\ now' = now + 1
    /\ UNCHANGED <<events, rewardEvent, requests, userRewards, issuedQuantity, call, history>>

HandlerStep(h) ==
    \/ FindRewards(h)
    \/ FindExisting(h)
    \/ \E q \in RequestIds : SaveRequest(h, q)
    \/ IssueRewards(h)
    \/ IssueReward(h)
    \/ CountIssued(h)
    \/ WriteStatus(h)

Next ==
    \/ \E h \in Handlers :
          \/ \E u \in Users, e \in Events, ids \in RewardLists, d \in Evidence :
                CreateRewardRequest(h, u, e, ids, d)
          \/ \E q \in RequestIds, to \in OperatorStatuses :
                UpdateRewardRequest(h, q, to)
          \/ HandlerStep(h)
          \/ CountFails(h)
          \/ Fail(h)
    \/ \E e \in Events, s \in EventStates : ChangeEvent(e, s)
    \/ \E r \in Rewards, dto \in RewardEdits : UpdateReward(r, dto)
    \/ Tick

Spec == Init /\ [][Next]_vars

\* The driver answers or fails every call, so a handler's next step is taken.
Fairness == \A h \in Handlers : WF_vars(HandlerStep(h))
FairSpec == Spec /\ Fairness

-----------------------------------------------------------------------------
(***************************************************************************)
(* Properties                                                              *)
(***************************************************************************)

\* Every document and every handler's locals have the shape the code gives them.
TypeOK ==
    /\ now \in 0..MaxTime
    /\ events \in [Events -> EventStates]
    /\ rewardEvent \in [Rewards -> Events]
    /\ DOMAIN requests \subseteq RequestIds
    /\ requests \in [DOMAIN requests -> RewardRequest]
    /\ userRewards \in [RequestIds -> [Rewards -> Nat]]
    /\ issuedQuantity \in [Rewards -> Int]
    /\ call \in [Handlers -> {Idle} \cup Submission \cup Decision]
    /\ belonged \in [Rewards -> SUBSET Events]
    /\ reopened \subseteq DOMAIN requests
    /\ \A h \in Handlers : call[h] \in Decision => call[h].id \in DOMAIN requests

Decides(h, q) ==
    call[h].pc \in {"issueRead", "issue", "count", "write"} /\ call[h].id = q

\* A stored request asks for at least one reward, for each one once, and only for
\* rewards that belong to its event or did so at some time: the count check at
\* event.service.ts:269 is the only guard, it must also catch a reward that is
\* named twice, and an operator may move the reward before or after the save.
StoredRewardIdsValid ==
    \A q \in DOMAIN requests :
        /\ Len(requests[q].rewardIds) > 0
        /\ Len(requests[q].rewardIds) = Cardinality(RewardSet(requests[q].rewardIds))
        /\ \A r \in RewardSet(requests[q].rewardIds) : requests[q].event \in belonged[r]

OpenRequests(u, e, r) ==
    {q \in DOMAIN requests :
        /\ requests[q].user = u /\ requests[q].event = e
        /\ r \in RewardSet(requests[q].rewardIds)
        /\ requests[q].status \in OpenStatuses}

\* The duplicate check of createRewardRequest and its insert are two calls, so
\* submissions in flight can pass each other.  But never more open requests of
\* a user for a reward exist than calls run together, however long the history
\* of submissions, approvals and rejections is; calls that run one at a time
\* leave at most one.  Requests that an operator reopened do not count: that runs
\* no duplicate check, and adds to what users opened.
OpenRequestsBounded ==
    \A u \in Users, e \in Events, r \in Rewards :
        Cardinality(OpenRequests(u, e, r) \ reopened) <= Cardinality(Handlers)

AllIssued(q) ==
    \A r \in RewardSet(requests[q].rewardIds) : userRewards[q][r] > 0

\* updateRewardRequest issues only on PENDING -> APPROVED, and skips the issue
\* when issueRewards rereads APPROVED.  So a request can become APPROVED with
\* nothing issued, and two operators who decide it together can do that: one
\* rejects it, and the APPROVED of the other finds it REJECTED.  That is the only
\* way: whatever else interleaves and whichever calls fail, each reward of an
\* APPROVED request is issued unless an operator's APPROVED or PENDING for it
\* found it closed at some time.
ApprovedIsIssued ==
    \A q \in DOMAIN requests :
        requests[q].status = "APPROVED" => AllIssued(q) \/ q \in reopened

\* Every call succeeds, and no operator sends PENDING, not even for a request
\* that was read as PENDING: another call may have decided it by now.
SteadyOperation == ~Failures /\ "PENDING" \notin OperatorStatuses

\* Handlers that have saved the UserReward of r for q but not yet the status.
Granted(h, q, r) ==
    /\ Decides(h, q)
    /\ \E i \in 1..(call[h].next - 1) : requests[q].rewardIds[i] = r

\* Two operators may approve a request together and issue its rewards twice.
\* But no reward of a request is issued more often than calls run together: a
\* request that is PENDING has no UserReward except those of approvals that
\* still run, and once it is decided no approval begins that issues.
GrantsBounded ==
    SteadyOperation =>
        \A q \in RequestIds, r \in Rewards :
            userRewards[q][r] <= Cardinality(Handlers)

\* Handlers between the issue of the reward at position i of q and of the next.
Between(q, i) ==
    {h \in Handlers : call[h].pc = "issue" /\ call[h].id = q /\ call[h].next = i + 1}

\* A save that fails in the issuing loop leaves the rewards before it issued and
\* those after it not; an approval that is repeated starts again at the first.
\* However approvals overlap, fail and are repeated, a reward is then issued at
\* least as often as the one after it in the request, also counting the approvals
\* that are about to issue that one; just as often as long as no call can fail.
IssuedInOrder ==
    \A q \in DOMAIN requests :
        LET ids == requests[q].rewardIds
        IN  \A i \in 1..(Len(ids) - 1) :
                /\ userRewards[q][ids[i + 1]] + Cardinality(Between(q, i))
                       <= userRewards[q][ids[i]]
                /\ ~Failures =>
                      userRewards[q][ids[i + 1]] + Cardinality(Between(q, i))
                         = userRewards[q][ids[i]]

\* The UserReward documents of a reward, those of each request numbered.
Documents(r) == UNION {{q} \X (1..userRewards[q][r]) : q \in RequestIds}

InFlight(r) ==
    {h \in Handlers :
        /\ call[h].pc \in {"issue", "count"}
        /\ Granted(h, call[h].id, r)}

\* Operators set no issuedQuantity.
NoOverwrites == \A dto \in RewardEdits : "issuedQuantity" \notin DOMAIN dto

\* issuedQuantity, incremented in one updateMany after the loop of saves, never
\* runs ahead of the UserReward documents, and lags only by the approvals that
\* are between the two, or by those that failed there; unless an operator sets
\* it, which loses what it counted.
QuantityLedger ==
    NoOverwrites =>
        \A r \in Rewards :
            /\ issuedQuantity[r] + Cardinality(InFlight(r)) <= Cardinality(Documents(r))
            /\ ~Failures =>
                  issuedQuantity[r] + Cardinality(InFlight(r))
                     = Cardinality(Documents(r))

\* The calls to the database that a handler makes at most before it answers.
StepsLeft(h) ==
    CASE call[h].pc \in {"save", "write"} -> 1
      [] call[h].pc \in {"findExisting", "count"} -> 2
      [] call[h].pc = "findRewards" -> 3
      [] call[h].pc = "issue" -> Len(IdsOf(h)) - call[h].next + 3
      [] call[h].pc = "issueRead" -> Len(IdsOf(h)) + 3
      [] OTHER -> 0

\* Every call ends after a number of its own steps that is fixed when it begins:
\* each of them leaves fewer, and what other handlers, operators and the clock do
\* adds none.  The list that the loop walks is read from a document others write.
CallsAdvance ==
    [][\A h \in Handlers :
          call[h] # Idle =>
             \/ call'[h] = call[h] /\ StepsLeft(h)' = StepsLeft(h)
             \/ StepsLeft(h)' \in 0..(StepsLeft(h) - 1)]_vars

-----------------------------------------------------------------------------
(***************************************************************************)
(* What the documentation says, and concurrent or failing calls break.     *)
(***************************************************************************)

\* "Prevents duplicate requests": a user has one open request for a reward.
NoDuplicateRequests ==
    \A u \in Users, e \in Events, r \in Rewards :
        Cardinality(OpenRequests(u, e, r)) <= 1

\* "Guarantees that issuing rewards is atomic": once no call decides a request any
\* more, its rewards are issued all or none.
IssuedAtomically ==
    \A q \in DOMAIN requests :
        (\A h \in Handlers : ~Decides(h, q)) =>
            \A r, s \in RewardSet(requests[q].rewardIds) :
                userRewards[q][r] > 0 => userRewards[q][s] > 0

\* "Prevents duplicate rewards", per user: a user gets a reward once.
IssuedOncePerUser ==
    \A u \in Users, r \in Rewards :
        Cardinality({d \in Documents(r) :
            d[1] \in DOMAIN requests /\ requests[d[1]].user = u}) <= 1

-----------------------------------------------------------------------------
(***************************************************************************)
(* Refinement                                                              *)
(***************************************************************************)
Asked(q) ==
    [user |-> requests[q].user, event |-> requests[q].event,
     rewards |-> RewardSet(requests[q].rewardIds)]

Ledger == INSTANCE RewardLedger WITH
    Ids <- RequestIds,
    Limit <- Cardinality(Handlers),
    asked <- [q \in DOMAIN requests |-> Asked(q)],
    status <- [q \in DOMAIN requests |-> requests[q].status],
    issued <- [q \in RequestIds |-> {r \in Rewards : userRewards[q][r] > 0}]

\* Seen from outside, submissions, approvals and edits that interleave and fail
\* are steps of the ledger, with as many open requests for a reward as calls run
\* together, but for those that operators reopen.
LedgerSpec == Ledger!Spec

-----------------------------------------------------------------------------
(***************************************************************************)
(* Liveness                                                                *)
(***************************************************************************)

\* An approval that began reaches a state where its request is decided and all
\* its rewards are issued: no interleaving with other calls leaves it halfway.
\* The issue is skipped only for a request that an operator reopened.
ApprovalCompletes ==
    \A q \in RequestIds :
        (\E h \in Handlers : Decides(h, q) /\ call[h].to = "APPROVED")
            ~> /\ q \in DOMAIN requests
               /\ requests[q].status # "PENDING"
               /\ AllIssued(q) \/ q \in reopened
=============================================================================

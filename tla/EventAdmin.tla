----------------------------- MODULE EventAdmin -----------------------------
(***************************************************************************)
(* The administration of events and rewards in the Event service, and the  *)
(* log it writes.  createEvent and createReward insert a document and log  *)
(* it; updateEvent and updateReward read the document, write the fields    *)
(* that the operator sent over it, and log what the write returned.  A     *)
(* change of status is logged beforehand, as the difference to what was    *)
(* read.  A log entry that cannot be saved is given up (createEventLog).   *)
(* Participations count on the same documents meanwhile.                   *)
(***************************************************************************)
EXTENDS Integers, FiniteSets

CONSTANTS
    Events, Rewards, Operators,
    Handlers,           \* bound: the calls that are in flight together
    Statuses, Bodies,   \* the values of the fields; a body stands for all others
    MaxEntries,         \* bound: calls begin while fewer entries were saved or lost
    MaxParticipants,    \* bound: the participations of an event
    Failures            \* whether a call to the database can fail

NoOperator == "none"    \* the updatedBy of a document that was only created

ASSUME BoundsAssumption ==
    /\ NoOperator \notin Operators
    /\ Failures \in BOOLEAN
    /\ MaxEntries \in Nat /\ MaxParticipants \in Nat

VARIABLES
    events,     \* the events collection
    rewards,    \* the rewards collection
    log,        \* the entries of the event log that were saved
    lost,       \* history: the entries that were to be saved and were not
    joined,     \* history: the participations counted on each event
    call        \* the state of each handler

vars == <<events, rewards, log, lost, joined, call>>

Author == Operators \cup {NoOperator}
EventDocument ==
    [status : Statuses, body : Bodies, updatedBy : Author, participantCount : Nat]
RewardDocument == [eventId : Events, body : Bodies, updatedBy : Author]

\* The DTOs: the fields sent with their values.
UpdateEventDto ==
    [status : Statuses] \cup [body : Bodies] \cup [status : Statuses, body : Bodies]
UpdateRewardDto ==
    [eventId : Events] \cup [body : Bodies] \cup [eventId : Events, body : Bodies]

\* What a document says without its counter, which no entry is about.
EventVersion == [status : Statuses, body : Bodies, updatedBy : Author]
Version(doc) == [status |-> doc.status, body |-> doc.body, updatedBy |-> doc.updatedBy]

\* EVENT_CREATED, EVENT_UPDATED; EVENT_STATUS_CHANGED; REWARD_CREATED, REWARD_UPDATED.
EventEntry == [type : {"created", "updated"}, event : Events, version : EventVersion]
StatusEntry ==
    [type : {"status"}, event : Events, previous : Statuses, new : Statuses,
     user : Operators]
RewardEntry ==
    [type : {"reward"}, event : Events, reward : Rewards, version : RewardDocument]

Idle == [pc |-> "idle"]
EventUpdate ==
    [pc : {"logStatus", "writeEvent"}, event : Events, dto : UpdateEventDto,
     user : Operators, read : EventDocument]
RewardCreation ==
    [pc : {"saveReward"}, event : Events, reward : Rewards, body : Bodies]
RewardUpdate ==
    [pc : {"writeReward"}, event : Events, reward : Rewards, dto : UpdateRewardDto,
     user : Operators]
Logging == [pc : {"log"}, entry : EventEntry \cup RewardEntry]

Goto(h, c) == call' = [call EXCEPT ![h] = c]
Return(h) == Goto(h, Idle)
Log(h, entry) == Goto(h, [pc |-> "log", entry |-> entry])

\* f with x mapped to v.
Put(f, x, v) == [y \in DOMAIN f \cup {x} |-> IF y = x THEN v ELSE f[y]]

Init ==
    /\ events = [e \in {} |-> Idle]
    /\ rewards = [r \in {} |-> Idle]
    /\ log = {}
    /\ lost = {}
    /\ joined = [e \in Events |-> 0]
    /\ call = [h \in Handlers |-> Idle]

-----------------------------------------------------------------------------
(***************************************************************************)
(* Events                                                                  *)
(***************************************************************************)
Begin(h) == call[h] = Idle /\ Cardinality(log \cup lost) < MaxEntries

EventLogged(h, type, e, doc) ==
    Log(h, [type |-> type, event |-> e, version |-> Version(doc)])

CreateEvent(h, e, status, body) ==
    /\ Begin(h)
    /\ e \notin DOMAIN events
    /\ LET doc == [status |-> status, body |-> body, updatedBy |-> NoOperator,
                   participantCount |-> 0]
       IN  /\ events' = Put(events, e, doc)
           /\ EventLogged(h, "created", e, doc)
    /\ UNCHANGED <<rewards, log, lost, joined>>

\* Mutant: the comparison is inverted.
StatusLoggedSame(dto, read) == "status" \in DOMAIN dto /\ dto.status = read.status

\* A status was sent, and it differs from the one read.
StatusLogged(dto, read) == "status" \in DOMAIN dto /\ dto.status # read.status

UpdateEvent(h, e, dto, user) ==
    /\ Begin(h)
    /\ e \in DOMAIN events
    /\ Goto(h, [pc |-> IF StatusLogged(dto, events[e]) THEN "logStatus" ELSE "writeEvent",
                event |-> e, dto |-> dto, user |-> user, read |-> events[e]])
    /\ UNCHANGED <<events, rewards, log, lost, joined>>

StatusChange(c) ==
    [type |-> "status", event |-> c.event, previous |-> c.read.status,
     new |-> c.dto.status, user |-> c.user]

\* createEventLog swallows its errors.
LogStatus(h) ==
    /\ call[h].pc = "logStatus"
    /\ \/ log' = log \cup {StatusChange(call[h])} /\ UNCHANGED lost
       \/ Failures /\ lost' = lost \cup {StatusChange(call[h])} /\ UNCHANGED log
    /\ Goto(h, [call[h] EXCEPT !.pc = "writeEvent"])
    /\ UNCHANGED <<events, rewards, joined>>

\* The fields of dto over those of doc, by user.
Assign(doc, dto, user) ==
    [f \in DOMAIN doc |->
        IF f \in DOMAIN dto THEN dto[f]
        ELSE IF f = "updatedBy" THEN user ELSE doc[f]]

\* Mutant: the document that was read is saved.
UpdatedRead(c) == Assign(c.read, c.dto, c.user)

Updated(c) == Assign(events[c.event], c.dto, c.user)

\* Mutant: findByIdAndUpdate answers with the document as it was.
ReturnedOld(c) == events[c.event]

\* new: true
Returned(c) == Updated(c)

WriteEvent(h) ==
    /\ call[h].pc = "writeEvent"
    /\ events' = [events EXCEPT ![call[h].event] = Updated(call[h])]
    /\ EventLogged(h, "updated", call[h].event, Returned(call[h]))
    /\ UNCHANGED <<rewards, log, lost, joined>>

\* createParticipation's $inc.
CountParticipant(e) ==
    /\ e \in DOMAIN events
    /\ joined[e] < MaxParticipants
    /\ events' = [events EXCEPT ![e].participantCount = @ + 1]
    /\ joined' = [joined EXCEPT ![e] = @ + 1]
    /\ UNCHANGED <<rewards, log, lost, call>>

-----------------------------------------------------------------------------
(***************************************************************************)
(* Rewards                                                                 *)
(***************************************************************************)

\* Mutant: the event is not looked for.
FindsAny(e) == TRUE

Finds(e) == e \in DOMAIN events

CreateReward(h, r, e, body) ==
    /\ Begin(h)
    /\ r \notin DOMAIN rewards
    /\ \A g \in Handlers : call[g].pc = "saveReward" => call[g].reward # r
    /\ Finds(e)
    /\ Goto(h, [pc |-> "saveReward", event |-> e, reward |-> r, body |-> body])
    /\ UNCHANGED <<events, rewards, log, lost, joined>>

RewardLogged(h, e, r, doc) ==
    Log(h, [type |-> "reward", event |-> e, reward |-> r, version |-> doc])

SaveReward(h) ==
    /\ call[h].pc = "saveReward"
    /\ LET c == call[h]
           doc == [eventId |-> c.event, body |-> c.body, updatedBy |-> NoOperator]
       IN  /\ rewards' = Put(rewards, c.reward, doc)
           /\ RewardLogged(h, c.event, c.reward, doc)
    /\ UNCHANGED <<events, log, lost, joined>>

UpdateReward(h, r, dto, user) ==
    /\ Begin(h)
    /\ r \in DOMAIN rewards
    /\ Goto(h, [pc |-> "writeReward", event |-> rewards[r].eventId, reward |-> r,
                dto |-> dto, user |-> user])
    /\ UNCHANGED <<events, rewards, log, lost, joined>>

\* The entry is filed under the event that the reward was read with.
WriteReward(h) ==
    /\ call[h].pc = "writeReward"
    /\ LET c == call[h]
           doc == Assign(rewards[c.reward], c.dto, c.user)
       IN  /\ rewards' = [rewards EXCEPT ![c.reward] = doc]
           /\ RewardLogged(h, c.event, c.reward, doc)
    /\ UNCHANGED <<events, log, lost, joined>>

\* An id that is unknown: updateEvent, createReward and updateReward answer with
\* an error.
NotFound(h) ==
    /\ call[h] = Idle
    /\ UNCHANGED vars

-----------------------------------------------------------------------------
(***************************************************************************)
(* The log, and failures                                                   *)
(***************************************************************************)
SaveLog(h) ==
    /\ call[h].pc = "log"
    /\ log' = log \cup {call[h].entry}
    /\ Return(h)
    /\ UNCHANGED <<events, rewards, lost, joined>>

\* A failed call or a crash ends a handler; so does a failed entry at its end.
Fail(h) ==
    /\ Failures
    /\ call[h] # Idle
    /\ lost' = IF call[h].pc = "log" THEN lost \cup {call[h].entry} ELSE lost
    /\ Return(h)
    /\ UNCHANGED <<events, rewards, log, joined>>

Next ==
    \/ \E h \in Handlers :
          \/ \E e \in Events, s \in Statuses, b \in Bodies : CreateEvent(h, e, s, b)
          \/ \E e \in Events, dto \in UpdateEventDto, user \in Operators :
                UpdateEvent(h, e, dto, user)
          \/ \E r \in Rewards, e \in Events, b \in Bodies : CreateReward(h, r, e, b)
          \/ \E r \in Rewards, dto \in UpdateRewardDto, user \in Operators :
                UpdateReward(h, r, dto, user)
          \/ NotFound(h)
          \/ LogStatus(h)
          \/ WriteEvent(h)
          \/ SaveReward(h)
          \/ WriteReward(h)
          \/ SaveLog(h)
          \/ Fail(h)
    \/ \E e \in Events : CountParticipant(e)

Spec == Init /\ [][Next]_vars

-----------------------------------------------------------------------------
(***************************************************************************)
(* Properties                                                              *)
(***************************************************************************)

\* Documents, entries and locals have the shape the code gives them, and the
\* locals name documents that are stored.
TypeOK ==
    /\ DOMAIN events \subseteq Events
    /\ events \in [DOMAIN events -> EventDocument]
    /\ DOMAIN rewards \subseteq Rewards
    /\ rewards \in [DOMAIN rewards -> RewardDocument]
    /\ log \subseteq EventEntry \cup StatusEntry \cup RewardEntry
    /\ lost \subseteq EventEntry \cup StatusEntry \cup RewardEntry
    /\ joined \in [Events -> Nat]
    /\ call \in [Handlers -> {Idle} \cup EventUpdate \cup RewardCreation
                               \cup RewardUpdate \cup Logging]
    /\ \A h \in Handlers :
          /\ call[h].pc \in {"logStatus", "writeEvent", "saveReward"} =>
                call[h].event \in DOMAIN events
          /\ call[h].pc = "logStatus" => "status" \in DOMAIN call[h].dto
          /\ call[h].pc = "writeReward" => call[h].reward \in DOMAIN rewards

\* Entries that handlers are about to save.
Pending == {call[h].entry : h \in {g \in Handlers : call[g].pc = "log"}}

\* However updates of a document overlap, the version that is stored has an entry
\* of its own: saved, about to be, or lost to a failure.  With no call in flight
\* and none failed, the log tells every event and reward as it is.
VersionsLogged ==
    /\ \A e \in DOMAIN events :
          \E x \in log \cup lost \cup Pending :
             /\ x.type \in {"created", "updated"}
             /\ x.event = e /\ x.version = Version(events[e])
    /\ \A r \in DOMAIN rewards :
          \E x \in log \cup lost \cup Pending :
             x.type = "reward" /\ x.reward = r /\ x.version = rewards[r]

\* The log announces the status s of event e: by the creation, or by a change.
Announced(e, s) ==
    \E x \in log \cup lost \cup Pending :
        /\ x.event = e
        /\ \/ x.type = "created" /\ x.version.status = s
           \/ x.type = "status" /\ x.new = s

\* Updates that overlap leave changes of status out of the log, or log one that
\* never was.  But no event ever shows a status that it was not created with and
\* no change was logged to beforehand, crashes between the two included; an entry
\* is missing only if its own save failed.
StatusAnnounced == \A e \in DOMAIN events : Announced(e, events[e].status)

\* No participation counted while updates of its event are under way is lost.
CountKept == \A e \in DOMAIN events : events[e].participantCount = joined[e]
=============================================================================

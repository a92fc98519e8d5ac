-------------------------- MODULE EventAdminProofs --------------------------
(***************************************************************************)
(* Proofs about EventAdmin, for every set of events, rewards, operators    *)
(* and handlers, and with or without failures.                             *)
(***************************************************************************)
EXTENDS EventAdmin, TLAPS

-----------------------------------------------------------------------------
(***************************************************************************)
(* Types                                                                   *)
(***************************************************************************)
Calls == {Idle} \cup EventUpdate \cup RewardCreation \cup RewardUpdate \cup Logging
Entry == EventEntry \cup StatusEntry \cup RewardEntry

\* What the program counter of a handler says about its locals.
LEMMA CallShape ==
    ASSUME TypeOK, NEW h \in Handlers
    PROVE  /\ call[h].pc \in {"logStatus", "writeEvent"} => call[h] \in EventUpdate
           /\ call[h].pc = "saveReward" => call[h] \in RewardCreation
           /\ call[h].pc = "writeReward" => call[h] \in RewardUpdate
           /\ call[h].pc = "log" => call[h] \in Logging
  BY DEF TypeOK, EventUpdate, RewardCreation, RewardUpdate, Logging, Idle

\* What an update writes into an event: the fields sent, the operator, and the
\* rest as it was.
LEMMA AssignEvent ==
    ASSUME NEW doc \in EventDocument, NEW dto \in UpdateEventDto, NEW user \in Operators
    PROVE  /\ Assign(doc, dto, user) \in EventDocument
           /\ Assign(doc, dto, user).participantCount = doc.participantCount
           /\ "status" \in DOMAIN dto => /\ dto.status \in Statuses
                                         /\ Assign(doc, dto, user).status = dto.status
           /\ "status" \notin DOMAIN dto => Assign(doc, dto, user).status = doc.status
<1>1. /\ DOMAIN doc = {"status", "body", "updatedBy", "participantCount"}
      /\ doc.status \in Statuses /\ doc.body \in Bodies
      /\ doc.updatedBy \in Author /\ doc.participantCount \in Nat
  BY DEF EventDocument
<1>2. /\ DOMAIN dto \subseteq {"status", "body"}
      /\ "status" \in DOMAIN dto => dto["status"] \in Statuses
      /\ "body" \in DOMAIN dto => dto["body"] \in Bodies
  BY DEF UpdateEventDto
<1>3. user \in Author
  BY DEF Author
<1>4. Assign(doc, dto, user) =
         [status |-> IF "status" \in DOMAIN dto THEN dto["status"] ELSE doc.status,
          body |-> IF "body" \in DOMAIN dto THEN dto["body"] ELSE doc.body,
          updatedBy |-> user, participantCount |-> doc.participantCount]
  BY <1>1, <1>2 DEF Assign
<1> QED
  BY <1>1, <1>2, <1>3, <1>4 DEF EventDocument

\* The same for a reward.
LEMMA AssignReward ==
    ASSUME NEW doc \in RewardDocument, NEW dto \in UpdateRewardDto, NEW user \in Operators
    PROVE  Assign(doc, dto, user) \in RewardDocument
<1>1. /\ DOMAIN doc = {"eventId", "body", "updatedBy"}
      /\ doc.eventId \in Events /\ doc.body \in Bodies /\ doc.updatedBy \in Author
  BY DEF RewardDocument
<1>2. /\ DOMAIN dto \subseteq {"eventId", "body"}
      /\ "eventId" \in DOMAIN dto => dto["eventId"] \in Events
      /\ "body" \in DOMAIN dto => dto["body"] \in Bodies
  BY DEF UpdateRewardDto
<1>3. user \in Author
  BY DEF Author
<1>4. Assign(doc, dto, user) =
         [eventId |-> IF "eventId" \in DOMAIN dto THEN dto["eventId"] ELSE doc.eventId,
          body |-> IF "body" \in DOMAIN dto THEN dto["body"] ELSE doc.body,
          updatedBy |-> user]
  BY <1>1, <1>2 DEF Assign
<1> QED
  BY <1>1, <1>2, <1>3, <1>4 DEF RewardDocument

\* The version that an entry holds of a document.
LEMMA VersionType ==
    ASSUME NEW doc \in EventDocument
    PROVE  Version(doc) \in EventVersion
  BY DEF EventDocument, EventVersion, Version
\* What a handler's next locals must be for its step to keep the types of call.
LEMMA GotoType ==
    ASSUME TypeOK, NEW h \in Handlers, NEW c \in Calls, Goto(h, c),
           DOMAIN events \subseteq DOMAIN events', DOMAIN rewards \subseteq DOMAIN rewards',
           c.pc \in {"logStatus", "writeEvent", "saveReward"} => c.event \in DOMAIN events,
           c.pc = "logStatus" => "status" \in DOMAIN c.dto,
           c.pc = "writeReward" => c.reward \in DOMAIN rewards
    PROVE  /\ call' \in [Handlers -> Calls]
           /\ \A g \in Handlers :
                 /\ call'[g].pc \in {"logStatus", "writeEvent", "saveReward"} =>
                       call'[g].event \in DOMAIN events'
                 /\ call'[g].pc = "logStatus" => "status" \in DOMAIN call'[g].dto
                 /\ call'[g].pc = "writeReward" => call'[g].reward \in DOMAIN rewards'
<1>1. /\ call' \in [Handlers -> Calls] /\ call'[h] = c
      /\ \A g \in Handlers \ {h} : call'[g] = call[g]
  BY DEF Goto, TypeOK, Calls
<1> QED
  BY <1>1 DEF TypeOK

\* Every reachable state is well typed: documents, log entries and locals keep the
\* shape that the code gives them, and handlers write only documents that are stored.
THEOREM TypeCorrect == Spec => []TypeOK
<1>1. Init => TypeOK
  BY DEF Init, TypeOK, Idle
<1>2. TypeOK /\ [Next]_vars => TypeOK'
  <2> SUFFICES ASSUME TypeOK, [Next]_vars
               PROVE  TypeOK'
    OBVIOUS
  <2> DEFINE CallOK ==
        /\ call' \in [Handlers -> Calls]
        /\ \A g \in Handlers :
              /\ call'[g].pc \in {"logStatus", "writeEvent", "saveReward"} =>
                    call'[g].event \in DOMAIN events'
              /\ call'[g].pc = "logStatus" => "status" \in DOMAIN call'[g].dto
              /\ call'[g].pc = "writeReward" => call'[g].reward \in DOMAIN rewards'
  <2>0. Idle \in Calls /\ Idle.pc = "idle"
    BY DEF Calls, Idle
  <2>1. ASSUME NEW h \in Handlers, NEW e \in Events, NEW s \in Statuses, NEW b \in Bodies,
               CreateEvent(h, e, s, b)
        PROVE  TypeOK'
    <3> DEFINE doc == [status |-> s, body |-> b, updatedBy |-> NoOperator,
                       participantCount |-> 0]
               c == [pc |-> "log", entry |-> [type |-> "created", event |-> e,
                                              version |-> Version(doc)]]
    <3>1. doc \in EventDocument
      BY DEF EventDocument, Author
    <3> HIDE DEF doc
    <3>2. c \in Calls /\ c.pc = "log"
      BY <3>1, VersionType DEF Calls, Logging, EventEntry
    <3>3. events' = Put(events, e, doc) /\ Goto(h, c)
      BY <2>1 DEF CreateEvent, EventLogged, Log, doc
    <3>4. /\ DOMAIN events' = DOMAIN events \cup {e}
          /\ events' \in [DOMAIN events' -> EventDocument]
      <4>1. events \in [DOMAIN events -> EventDocument] /\ doc \in EventDocument
        BY <3>1, <3>3 DEF TypeOK
      <4>2. /\ DOMAIN Put(events, e, doc) = DOMAIN events \cup {e}
            /\ Put(events, e, doc) \in [DOMAIN events \cup {e} -> EventDocument]
        BY <4>1 DEF Put
      <4> QED
        BY <3>1, <3>3, <4>2
    <3> HIDE DEF c
    <3>5. CallOK
      BY <2>1, <3>2, <3>3, <3>4, GotoType DEF CreateEvent
    <3> QED
      BY <2>1, <3>4, <3>5 DEF CreateEvent, TypeOK, Calls
  <2>2. ASSUME NEW h \in Handlers, NEW e \in Events, NEW dto \in UpdateEventDto,
               NEW user \in Operators, UpdateEvent(h, e, dto, user)
        PROVE  TypeOK'
    <3> DEFINE pc == IF StatusLogged(dto, events[e]) THEN "logStatus" ELSE "writeEvent"
               c == [pc |-> pc, event |-> e, dto |-> dto, user |-> user, read |-> events[e]]
    <3>1. pc \in {"logStatus", "writeEvent"} /\ (pc = "logStatus" => "status" \in DOMAIN dto)
      BY DEF StatusLogged
    <3>2. Goto(h, c) /\ events[e] \in EventDocument /\ e \in DOMAIN events
      BY <2>2 DEF UpdateEvent, TypeOK
    <3> HIDE DEF pc
    <3>3. c \in Calls
      BY <3>1, <3>2 DEF Calls, EventUpdate
    <3>4. c.pc = pc /\ c.event = e /\ c.dto = dto
      OBVIOUS
    <3> HIDE DEF c
    <3>5. CallOK
      BY <2>2, <3>1, <3>2, <3>3, <3>4, GotoType DEF UpdateEvent
    <3> QED
      BY <2>2, <3>5 DEF UpdateEvent, TypeOK, Calls
  <2>3. ASSUME NEW h \in Handlers, NEW r \in Rewards, NEW e \in Events, NEW b \in Bodies,
               CreateReward(h, r, e, b)
        PROVE  TypeOK'
    <3> DEFINE c == [pc |-> "saveReward", event |-> e, reward |-> r, body |-> b]
    <3>1. c \in Calls /\ c.pc = "saveReward" /\ c.event = e
      BY DEF Calls, RewardCreation
    <3>2. Goto(h, c) /\ e \in DOMAIN events
      BY <2>3 DEF CreateReward, Finds
    <3> HIDE DEF c
    <3>3. CallOK
      BY <2>3, <3>1, <3>2, GotoType DEF CreateReward
    <3> QED
      BY <2>3, <3>3 DEF CreateReward, TypeOK, Calls
  <2>4. ASSUME NEW h \in Handlers, NEW r \in Rewards, NEW dto \in UpdateRewardDto,
               NEW user \in Operators, UpdateReward(h, r, dto, user)
        PROVE  TypeOK'
    <3> DEFINE c == [pc |-> "writeReward", event |-> rewards[r].eventId, reward |-> r,
                     dto |-> dto, user |-> user]
    <3>1. r \in DOMAIN rewards /\ Goto(h, c)
      BY <2>4 DEF UpdateReward
    <3>2. c \in Calls /\ c.pc = "writeReward" /\ c.reward = r
      BY <3>1 DEF Calls, RewardUpdate, TypeOK, RewardDocument
    <3> HIDE DEF c
    <3>3. CallOK
      BY <2>4, <3>1, <3>2, GotoType DEF UpdateReward
    <3> QED
      BY <2>4, <3>3 DEF UpdateReward, TypeOK, Calls
  <2>5. ASSUME NEW h \in Handlers, LogStatus(h)
        PROVE  TypeOK'
    <3> DEFINE c == [call[h] EXCEPT !.pc = "writeEvent"]
    <3>1. call[h] \in EventUpdate /\ "status" \in DOMAIN call[h].dto
          /\ call[h].event \in DOMAIN events
      BY <2>5, CallShape DEF LogStatus, TypeOK
    <3>2. c \in Calls /\ c.pc = "writeEvent" /\ c.event = call[h].event /\ Goto(h, c)
      BY <2>5, <3>1 DEF Calls, EventUpdate, LogStatus
    <3>3. StatusChange(call[h]) \in StatusEntry
      BY <3>1, AssignEvent DEF StatusChange, StatusEntry, EventUpdate, EventDocument
    <3> HIDE DEF c
    <3>4. CallOK
      BY <2>5, <3>1, <3>2, GotoType DEF LogStatus
    <3> QED
      BY <2>5, <3>3, <3>4 DEF LogStatus, TypeOK, Calls
  <2>6. ASSUME NEW h \in Handlers, WriteEvent(h)
        PROVE  TypeOK'
    <3> DEFINE e == call[h].event
               doc == Updated(call[h])
               c == [pc |-> "log", entry |-> [type |-> "updated", event |-> e,
                                              version |-> Version(doc)]]
    <3>1. call[h] \in EventUpdate /\ e \in DOMAIN events /\ e \in Events
      BY <2>6, CallShape DEF WriteEvent, TypeOK
    <3>2. doc \in EventDocument
      BY <3>1, AssignEvent DEF Updated, EventUpdate, TypeOK
    <3>3. events' = [events EXCEPT ![e] = doc] /\ Goto(h, c)
      BY <2>6 DEF WriteEvent, EventLogged, Log, Returned
    <3> HIDE DEF doc, e
    <3>4. c \in Calls /\ c.pc = "log"
      BY <3>1, <3>2, VersionType DEF Calls, Logging, EventEntry
    <3>5. DOMAIN events' = DOMAIN events /\ events' \in [DOMAIN events' -> EventDocument]
      BY <3>1, <3>2, <3>3 DEF TypeOK
    <3> HIDE DEF c
    <3>6. CallOK
      BY <2>6, <3>3, <3>4, <3>5, GotoType DEF WriteEvent
    <3> QED
      BY <2>6, <3>5, <3>6 DEF WriteEvent, TypeOK, Calls
  <2>7. ASSUME NEW h \in Handlers, SaveReward(h)
        PROVE  TypeOK'
    <3> DEFINE doc == [eventId |-> call[h].event, body |-> call[h].body,
                       updatedBy |-> NoOperator]
               c == [pc |-> "log", entry |-> [type |-> "reward", event |-> call[h].event,
                                              reward |-> call[h].reward, version |-> doc]]
    <3>1. call[h] \in RewardCreation
      BY <2>7, CallShape DEF SaveReward
    <3>2. doc \in RewardDocument /\ call[h].reward \in Rewards /\ call[h].event \in Events
      BY <3>1 DEF RewardDocument, Author, RewardCreation
    <3>3. rewards' = Put(rewards, call[h].reward, doc) /\ Goto(h, c)
      BY <2>7 DEF SaveReward, RewardLogged, Log
    <3> HIDE DEF doc
    <3>4. c \in Calls /\ c.pc = "log"
      BY <3>2 DEF Calls, Logging, RewardEntry
    <3>5. /\ DOMAIN rewards' = DOMAIN rewards \cup {call[h].reward}
          /\ rewards' \in [DOMAIN rewards' -> RewardDocument]
      <4>1. rewards \in [DOMAIN rewards -> RewardDocument] /\ doc \in RewardDocument
        BY <3>2, <3>3 DEF TypeOK
      <4>2. /\ DOMAIN Put(rewards, call[h].reward, doc) = DOMAIN rewards \cup {call[h].reward}
            /\ Put(rewards, call[h].reward, doc) \in [DOMAIN rewards \cup {call[h].reward} -> RewardDocument]
        BY <4>1 DEF Put
      <4> QED
        BY <3>2, <3>3, <4>2
    <3> HIDE DEF c
    <3>6. CallOK
      BY <2>7, <3>3, <3>4, <3>5, GotoType DEF SaveReward
    <3> QED
      BY <2>7, <3>2, <3>5, <3>6 DEF SaveReward, TypeOK, Calls
  <2>8. ASSUME NEW h \in Handlers, WriteReward(h)
        PROVE  TypeOK'
    <3> DEFINE r == call[h].reward
               doc == Assign(rewards[r], call[h].dto, call[h].user)
               c == [pc |-> "log", entry |-> [type |-> "reward", event |-> call[h].event,
                                              reward |-> r, version |-> doc]]
    <3>1. /\ call[h] \in RewardUpdate /\ r \in DOMAIN rewards /\ r \in Rewards
          /\ call[h].event \in Events
      BY <2>8, CallShape DEF WriteReward, TypeOK, RewardUpdate
    <3>2. doc \in RewardDocument
      BY <3>1, AssignReward DEF RewardUpdate, TypeOK
    <3>3. rewards' = [rewards EXCEPT ![r] = doc] /\ Goto(h, c)
      BY <2>8 DEF WriteReward, RewardLogged, Log
    <3> HIDE DEF doc, r
    <3>4. c \in Calls /\ c.pc = "log"
      BY <3>1, <3>2 DEF Calls, Logging, RewardEntry
    <3>5. DOMAIN rewards' = DOMAIN rewards /\ rewards' \in [DOMAIN rewards' -> RewardDocument]
      BY <3>1, <3>2, <3>3 DEF TypeOK
    <3> HIDE DEF c
    <3>6. CallOK
      BY <2>8, <3>3, <3>4, <3>5, GotoType DEF WriteReward
    <3> QED
      BY <2>8, <3>5, <3>6 DEF WriteReward, TypeOK, Calls
  <2>9. ASSUME NEW h \in Handlers, SaveLog(h)
        PROVE  TypeOK'
    <3>1. call[h].entry \in EventEntry \cup RewardEntry
      BY <2>9, CallShape DEF SaveLog, Logging
    <3>2. CallOK
      BY <2>9, <2>0, GotoType DEF SaveLog, Return
    <3> QED
      BY <2>9, <3>1, <3>2 DEF SaveLog, TypeOK, Calls
  <2>10. ASSUME NEW h \in Handlers, Fail(h)
         PROVE  TypeOK'
    <3>1. call[h].pc = "log" => call[h].entry \in EventEntry \cup RewardEntry
      BY CallShape DEF Logging
    <3>2. CallOK
      BY <2>10, <2>0, GotoType DEF Fail, Return
    <3> QED
      BY <2>10, <3>1, <3>2 DEF Fail, TypeOK, Calls
  <2>11. ASSUME NEW e \in Events, CountParticipant(e)
         PROVE  TypeOK'
    <3> DEFINE doc == [events[e] EXCEPT !.participantCount = @ + 1]
    <3>1. events[e] \in EventDocument /\ e \in DOMAIN events
      BY <2>11 DEF CountParticipant, TypeOK
    <3>2. doc \in EventDocument
      BY <3>1 DEF EventDocument
    <3>3. events' = [events EXCEPT ![e] = doc] /\ joined' \in [Events -> Nat]
      BY <2>11 DEF CountParticipant, TypeOK
    <3> HIDE DEF doc
    <3>4. DOMAIN events' = DOMAIN events /\ events' \in [DOMAIN events' -> EventDocument]
      BY <3>1, <3>2, <3>3 DEF TypeOK
    <3> QED
      BY <2>11, <3>3, <3>4 DEF CountParticipant, TypeOK
  <2>12. CASE UNCHANGED vars
    BY <2>12 DEF vars, TypeOK
  <2> QED
    BY <2>1, <2>2, <2>3, <2>4, <2>5, <2>6, <2>7, <2>8, <2>9, <2>10, <2>11, <2>12
    DEF Next, NotFound
<1> QED
  BY <1>1, <1>2, PTL DEF Spec
-----------------------------------------------------------------------------
(***************************************************************************)
(* The log                                                                 *)
(***************************************************************************)
Entries == log \cup lost \cup Pending

\* A handler's step leaves the entries that the others are about to save.
LEMMA OthersPending ==
    ASSUME NEW h \in Handlers, \A g \in Handlers \ {h} : call'[g] = call[g],
           log \subseteq log', lost \subseteq lost',
           call[h].pc = "log" => call[h].entry \in log' \cup lost'
    PROVE  Entries \subseteq Entries'
<1> SUFFICES ASSUME NEW x \in Pending
             PROVE  x \in log' \cup lost' \cup Pending'
  BY DEF Entries
<1>1. PICK g \in Handlers : call[g].pc = "log" /\ call[g].entry = x
  BY DEF Pending
<1>2. CASE g = h
  BY <1>1, <1>2
<1>3. CASE g # h
  <2>1. call'[g].pc = "log" /\ call'[g].entry = x
    BY <1>1, <1>3
  <2> QED
    BY <2>1 DEF Pending
<1> QED
  BY <1>2, <1>3

\* An entry that a handler turns to is pending.
LEMMA LogPending ==
    ASSUME TypeOK, NEW h \in Handlers, NEW entry, Log(h, entry)
    PROVE  /\ entry \in Entries'
           /\ \A g \in Handlers \ {h} : call'[g] = call[g]
           /\ call'[h].pc = "log"
<1>1. /\ call'[h].pc = "log" /\ call'[h].entry = entry
      /\ \A g \in Handlers \ {h} : call'[g] = call[g]
  BY DEF Log, Goto, TypeOK
<1>2. entry \in Pending'
  BY <1>1 DEF Pending
<1> QED
  BY <1>1, <1>2 DEF Entries

\* No entry is forgotten: one that is saved, lost, or about to be saved is still one
\* of these after any step.
LEMMA EntriesGrow ==
    ASSUME TypeOK, [Next]_vars
    PROVE  Entries \subseteq Entries'
<1>1. ASSUME NEW h \in Handlers,
             \/ \E e \in Events, s \in Statuses, b \in Bodies : CreateEvent(h, e, s, b)
             \/ \E e \in Events, dto \in UpdateEventDto, user \in Operators :
                   UpdateEvent(h, e, dto, user)
             \/ \E r \in Rewards, e \in Events, b \in Bodies : CreateReward(h, r, e, b)
             \/ \E r \in Rewards, dto \in UpdateRewardDto, user \in Operators :
                   UpdateReward(h, r, dto, user)
      PROVE  Entries \subseteq Entries'
  <2>1. call[h] = Idle /\ log' = log /\ lost' = lost
    BY <1>1 DEF CreateEvent, UpdateEvent, CreateReward, UpdateReward, Begin
  <2>2. \A g \in Handlers \ {h} : call'[g] = call[g]
    BY <1>1
    DEF CreateEvent, UpdateEvent, CreateReward, UpdateReward, EventLogged, Log, Goto, TypeOK
  <2> QED
    BY <2>1, <2>2, OthersPending DEF Idle
<1>2. ASSUME NEW h \in Handlers, WriteEvent(h) \/ SaveReward(h) \/ WriteReward(h)
      PROVE  Entries \subseteq Entries'
  <2>1. call[h].pc # "log" /\ log' = log /\ lost' = lost
    BY <1>2 DEF WriteEvent, SaveReward, WriteReward
  <2>2. \A g \in Handlers \ {h} : call'[g] = call[g]
    BY <1>2 DEF WriteEvent, SaveReward, WriteReward, EventLogged, RewardLogged, Log, Goto,
                TypeOK
  <2> QED
    BY <2>1, <2>2, OthersPending
<1>3. ASSUME NEW h \in Handlers, LogStatus(h) \/ SaveLog(h) \/ Fail(h)
      PROVE  Entries \subseteq Entries'
  <2>1. /\ log \subseteq log' /\ lost \subseteq lost'
        /\ call[h].pc = "log" => call[h].entry \in log' \cup lost'
    BY <1>3 DEF LogStatus, SaveLog, Fail
  <2>2. \A g \in Handlers \ {h} : call'[g] = call[g]
    BY <1>3 DEF LogStatus, SaveLog, Fail, Return, Goto, TypeOK
  <2> QED
    BY <2>1, <2>2, OthersPending
<1>4. CASE \/ \E e \in Events : CountParticipant(e)
           \/ \E h \in Handlers : NotFound(h)
           \/ UNCHANGED vars
  BY <1>4 DEF CountParticipant, NotFound, vars, Entries, Pending
<1> QED
  BY <1>1, <1>2, <1>3, <1>4 DEF Next

-----------------------------------------------------------------------------
(***************************************************************************)
(* Changes of status are announced                                         *)
(***************************************************************************)


AnnouncedIn(E, e, s) ==
    \E x \in E :
        /\ x.event = e
        /\ \/ x.type = "created" /\ x.version.status = s
           \/ x.type = "status" /\ x.new = s

\* The strengthening: what an update is about to write is announced already.
AnnouncedInv ==
    /\ \A e \in DOMAIN events : AnnouncedIn(Entries, e, events[e].status)
    /\ \A h \in Handlers :
          call[h].pc = "writeEvent" /\ "status" \in DOMAIN call[h].dto =>
              AnnouncedIn(Entries, call[h].event, call[h].dto.status)

\* No step breaks the strengthening.
LEMMA AnnouncedStep == TypeOK /\ TypeOK' /\ AnnouncedInv /\ [Next]_vars => AnnouncedInv'
<1> SUFFICES ASSUME TypeOK, TypeOK', AnnouncedInv, [Next]_vars
             PROVE  AnnouncedInv'
  OBVIOUS
<1>1. \A e, s : AnnouncedIn(Entries, e, s) => AnnouncedIn(Entries', e, s)
  BY EntriesGrow DEF AnnouncedIn
<1> DEFINE
    StatusOK(e) == AnnouncedIn(Entries', e, events'[e].status)
    WriteOK(h) == call'[h].pc = "writeEvent" /\ "status" \in DOMAIN call'[h].dto =>
                     AnnouncedIn(Entries', call'[h].event, call'[h].dto.status)
<1>2. ASSUME NEW e \in DOMAIN events, events'[e].status = events[e].status
      PROVE  StatusOK(e)
  <2>1. AnnouncedIn(Entries, e, events[e].status)
    BY DEF AnnouncedInv
  <2> QED
    BY <1>1, <1>2, <2>1
<1>3. ASSUME NEW h \in Handlers, call'[h] = call[h]
      PROVE  WriteOK(h)
  <2>1. call[h].pc = "writeEvent" /\ "status" \in DOMAIN call[h].dto =>
           AnnouncedIn(Entries, call[h].event, call[h].dto.status)
    BY DEF AnnouncedInv
  <2> QED
    BY <1>1, <1>3, <2>1
<1>4. ASSUME \A e \in DOMAIN events' : StatusOK(e), \A h \in Handlers : WriteOK(h)
      PROVE  AnnouncedInv'
  BY <1>4 DEF AnnouncedInv
<1> HIDE DEF StatusOK
<1>5. ASSUME events' = events
      PROVE  \A e \in DOMAIN events' : StatusOK(e)
  BY <1>2, <1>5
<1>6. ASSUME NEW h \in Handlers, \A g \in Handlers \ {h} : call'[g] = call[g],
             call'[h].pc # "writeEvent"
      PROVE  \A g \in Handlers : WriteOK(g)
  BY <1>3, <1>6
<1> HIDE DEF WriteOK
<1>7. ASSUME NEW h \in Handlers, NEW e \in Events, NEW s \in Statuses, NEW b \in Bodies,
             CreateEvent(h, e, s, b)
      PROVE  AnnouncedInv'
  <2> DEFINE doc == [status |-> s, body |-> b, updatedBy |-> NoOperator,
                     participantCount |-> 0]
             entry == [type |-> "created", event |-> e, version |-> Version(doc)]
  <2>1. Log(h, entry) /\ events' = Put(events, e, doc) /\ e \notin DOMAIN events
    BY <1>7 DEF CreateEvent, EventLogged
  <2>2. entry.event = e /\ entry.type = "created" /\ entry.version.status = s /\ doc.status = s
    BY DEF Version
  <2> HIDE DEF entry, doc
  <2>3. /\ entry \in Entries' /\ call'[h].pc = "log"
        /\ \A g \in Handlers \ {h} : call'[g] = call[g]
    BY <2>1, LogPending
  <2>4. StatusOK(e)
    BY <2>1, <2>2, <2>3 DEF StatusOK, AnnouncedIn, Put
  <2>5. ASSUME NEW f \in DOMAIN events', f # e
        PROVE  StatusOK(f)
    BY <1>2, <2>1, <2>5 DEF Put
  <2> QED
    BY <1>4, <1>6, <2>3, <2>4, <2>5
<1>8. ASSUME NEW h \in Handlers, NEW e \in Events, NEW dto \in UpdateEventDto,
             NEW user \in Operators, UpdateEvent(h, e, dto, user)
      PROVE  AnnouncedInv'
  <2> DEFINE pc == IF StatusLogged(dto, events[e]) THEN "logStatus" ELSE "writeEvent"
             c == [pc |-> pc, event |-> e, dto |-> dto, user |-> user, read |-> events[e]]
  <2>1. /\ events' = events /\ e \in DOMAIN events /\ call'[h] = c
        /\ \A g \in Handlers \ {h} : call'[g] = call[g]
    BY <1>8 DEF UpdateEvent, Goto, TypeOK
  <2>2. AnnouncedIn(Entries', e, events[e].status)
    BY <1>1, <2>1 DEF AnnouncedInv
  <2>3. c.pc = "writeEvent" /\ "status" \in DOMAIN dto => dto.status = events[e].status
    BY DEF StatusLogged
  <2>4. WriteOK(h)
    <3> c.event = e /\ c.dto = dto
      OBVIOUS
    <3> HIDE DEF c
    <3> QED
      BY <2>1, <2>2, <2>3 DEF WriteOK
  <2> QED
    BY <1>3, <1>4, <1>5, <2>1, <2>4
<1>9. ASSUME NEW h \in Handlers, LogStatus(h)
      PROVE  AnnouncedInv'
  <2>1. /\ call[h] \in EventUpdate /\ StatusChange(call[h]) \in log' \cup lost'
        /\ events' = events /\ "status" \in DOMAIN call[h].dto
        /\ \A g \in Handlers \ {h} : call'[g] = call[g]
    BY <1>9, CallShape DEF LogStatus, Goto, TypeOK
  <2>2. call'[h].event = call[h].event /\ call'[h].dto = call[h].dto
    BY <1>9, <2>1 DEF LogStatus, Goto, TypeOK, EventUpdate
  <2>3. AnnouncedIn(Entries', call[h].event, call[h].dto.status)
    BY <2>1 DEF AnnouncedIn, Entries, StatusChange
  <2>4. WriteOK(h)
    BY <2>2, <2>3 DEF WriteOK
  <2> QED
    BY <1>3, <1>4, <1>5, <2>1, <2>4
<1>10. ASSUME NEW h \in Handlers, WriteEvent(h)
       PROVE  AnnouncedInv'
  <2> DEFINE e == call[h].event
             doc == Updated(call[h])
             entry == [type |-> "updated", event |-> e, version |-> Version(doc)]
  <2>1. /\ call[h] \in EventUpdate /\ e \in DOMAIN events /\ call[h].pc = "writeEvent"
        /\ events' = [events EXCEPT ![e] = doc] /\ Log(h, entry)
    BY <1>10, CallShape DEF WriteEvent, EventLogged, Returned, TypeOK
  <2>2. /\ "status" \in DOMAIN call[h].dto => doc.status = call[h].dto.status
        /\ "status" \notin DOMAIN call[h].dto => doc.status = events[e].status
    BY <2>1, AssignEvent DEF Updated, EventUpdate, TypeOK
  <2> HIDE DEF doc, entry
  <2>3. /\ call'[h].pc = "log"
        /\ \A g \in Handlers \ {h} : call'[g] = call[g]
    BY <2>1, LogPending
  <2>4. StatusOK(e)
    <3>1. CASE "status" \in DOMAIN call[h].dto
      <4>1. AnnouncedIn(Entries, e, doc.status)
        BY <2>1, <2>2, <3>1 DEF AnnouncedInv
      <4> QED
        BY <1>1, <2>1, <4>1 DEF StatusOK
    <3>2. CASE "status" \notin DOMAIN call[h].dto
      BY <1>2, <2>1, <2>2, <3>2
    <3> QED
      BY <3>1, <3>2
  <2>5. ASSUME NEW f \in DOMAIN events', f # e
        PROVE  StatusOK(f)
    BY <1>2, <2>1, <2>5
  <2> QED
    BY <1>4, <1>6, <2>3, <2>4, <2>5
<1>11. ASSUME NEW e \in Events, CountParticipant(e)
       PROVE  AnnouncedInv'
  <2>1. DOMAIN events' = DOMAIN events /\ call' = call
    BY <1>11 DEF CountParticipant
  <2>2. ASSUME NEW f \in DOMAIN events
        PROVE  events'[f].status = events[f].status
    BY <1>11 DEF CountParticipant, TypeOK, EventDocument
  <2> QED
    BY <1>2, <1>3, <1>4, <2>1, <2>2
<1>12. ASSUME NEW h \in Handlers,
              \/ \E r \in Rewards, e \in Events, b \in Bodies : CreateReward(h, r, e, b)
              \/ \E r \in Rewards, dto \in UpdateRewardDto, user \in Operators :
                    UpdateReward(h, r, dto, user)
              \/ SaveReward(h) \/ WriteReward(h)
       PROVE  AnnouncedInv'
  <2>1. events' = events
    BY <1>12 DEF CreateReward, UpdateReward, SaveReward, WriteReward
  <2>2. /\ \A g \in Handlers \ {h} : call'[g] = call[g]
        /\ call'[h].pc # "writeEvent"
    BY <1>12
    DEF CreateReward, UpdateReward, SaveReward, WriteReward, RewardLogged, Log, Goto, TypeOK
  <2> QED
    BY <1>4, <1>5, <1>6, <2>1, <2>2
<1>13. ASSUME NEW h \in Handlers, SaveLog(h) \/ Fail(h)
       PROVE  AnnouncedInv'
  <2>1. /\ events' = events /\ call'[h].pc # "writeEvent"
        /\ \A g \in Handlers \ {h} : call'[g] = call[g]
    BY <1>13 DEF SaveLog, Fail, Return, Goto, TypeOK, Idle
  <2> QED
    BY <1>4, <1>5, <1>6, <2>1
<1>14. CASE UNCHANGED vars \/ \E h \in Handlers : NotFound(h)
  <2>1. events' = events /\ call' = call
    BY <1>14 DEF vars, NotFound
  <2> QED
    BY <1>3, <1>4, <1>5, <2>1
<1> QED
  BY <1>7, <1>8, <1>9, <1>10, <1>11, <1>12, <1>13, <1>14 DEF Next

\* No event ever shows a status that it was not created with and that no entry
\* announced beforehand, whatever updates overlap, fail or crash.
THEOREM ChangesAnnounced == Spec => []StatusAnnounced
<1>1. Init => AnnouncedInv
  BY DEF Init, AnnouncedInv, Idle
<1>2. AnnouncedInv => StatusAnnounced
  BY DEF AnnouncedInv, AnnouncedIn, StatusAnnounced, Announced, Entries
<1> QED
  BY <1>1, <1>2, AnnouncedStep, TypeCorrect, PTL DEF Spec

-----------------------------------------------------------------------------
(***************************************************************************)
(* The latest version is logged                                            *)
(***************************************************************************)
VersionIn(E, e, v) ==
    \E x \in E : x.type \in {"created", "updated"} /\ x.event = e /\ x.version = v
RewardIn(E, r, v) == \E x \in E : x.type = "reward" /\ x.reward = r /\ x.version = v

\* VersionsLogged in terms of the entries as one set; it is inductive by itself.
LoggedInv ==
    /\ \A e \in DOMAIN events : VersionIn(Entries, e, Version(events[e]))
    /\ \A r \in DOMAIN rewards : RewardIn(Entries, r, rewards[r])

\* Every step that stores a version is about to log it, and none forgets an entry.
LEMMA LoggedStep == TypeOK /\ TypeOK' /\ LoggedInv /\ [Next]_vars => LoggedInv'
<1> SUFFICES ASSUME TypeOK, TypeOK', LoggedInv, [Next]_vars
             PROVE  LoggedInv'
  OBVIOUS
<1> DEFINE
    EventOK(e) == VersionIn(Entries', e, Version(events'[e]))
    RewardOK(r) == RewardIn(Entries', r, rewards'[r])
<1>1. ASSUME NEW e \in DOMAIN events, Version(events'[e]) = Version(events[e])
      PROVE  EventOK(e)
  BY <1>1, EntriesGrow DEF VersionIn, LoggedInv
<1>2. ASSUME NEW r \in DOMAIN rewards, rewards'[r] = rewards[r]
      PROVE  RewardOK(r)
  BY <1>2, EntriesGrow DEF RewardIn, LoggedInv
<1>3. ASSUME \A e \in DOMAIN events' : EventOK(e), \A r \in DOMAIN rewards' : RewardOK(r)
      PROVE  LoggedInv'
  BY <1>3 DEF LoggedInv
<1> HIDE DEF EventOK, RewardOK
<1>4. ASSUME rewards' = rewards
      PROVE  \A r \in DOMAIN rewards' : RewardOK(r)
  BY <1>2, <1>4
<1>5. ASSUME events' = events
      PROVE  \A e \in DOMAIN events' : EventOK(e)
  BY <1>1, <1>5
<1>6. ASSUME NEW h \in Handlers, NEW e \in Events, NEW s \in Statuses, NEW b \in Bodies,
             CreateEvent(h, e, s, b)
      PROVE  LoggedInv'
  <2> DEFINE doc == [status |-> s, body |-> b, updatedBy |-> NoOperator,
                     participantCount |-> 0]
             entry == [type |-> "created", event |-> e, version |-> Version(doc)]
  <2>1. Log(h, entry) /\ events' = Put(events, e, doc) /\ rewards' = rewards
    BY <1>6 DEF CreateEvent, EventLogged
  <2> HIDE DEF doc
  <2>2. EventOK(e)
    <3>1. entry \in Entries'
      BY <2>1, LogPending
    <3>2. events'[e] = doc
      BY <2>1 DEF Put
    <3> QED
      BY <3>1, <3>2 DEF EventOK, VersionIn
  <2>3. ASSUME NEW f \in DOMAIN events', f # e
        PROVE  EventOK(f)
    <3>1. f \in DOMAIN events /\ events'[f] = events[f]
      BY <2>1, <2>3 DEF Put
    <3> QED
      BY <1>1, <3>1
  <2> QED
    BY <1>3, <1>4, <2>1, <2>2, <2>3
<1>7. ASSUME NEW h \in Handlers, WriteEvent(h)
      PROVE  LoggedInv'
  <2> DEFINE e == call[h].event
             doc == Updated(call[h])
             entry == [type |-> "updated", event |-> e, version |-> Version(doc)]
  <2>1. /\ e \in DOMAIN events /\ rewards' = rewards
        /\ events' = [events EXCEPT ![e] = doc] /\ Log(h, entry)
    BY <1>7, CallShape DEF WriteEvent, EventLogged, Returned, TypeOK
  <2> HIDE DEF doc, e
  <2>2. EventOK(e)
    <3>1. entry \in Entries'
      BY <2>1, LogPending
    <3>2. events'[e] = doc
      BY <2>1
    <3> QED
      BY <3>1, <3>2 DEF EventOK, VersionIn
  <2>3. ASSUME NEW f \in DOMAIN events', f # e
        PROVE  EventOK(f)
    BY <1>1, <2>1, <2>3
  <2> QED
    BY <1>3, <1>4, <2>1, <2>2, <2>3
<1>8. ASSUME NEW h \in Handlers, SaveReward(h)
      PROVE  LoggedInv'
  <2> DEFINE r == call[h].reward
             doc == [eventId |-> call[h].event, body |-> call[h].body,
                     updatedBy |-> NoOperator]
             entry == [type |-> "reward", event |-> call[h].event, reward |-> r,
                       version |-> doc]
  <2>1. Log(h, entry) /\ rewards' = Put(rewards, r, doc) /\ events' = events
    BY <1>8 DEF SaveReward, RewardLogged
  <2> HIDE DEF doc, r
  <2>2. RewardOK(r)
    <3>1. entry \in Entries'
      BY <2>1, LogPending
    <3>2. rewards'[r] = doc
      BY <2>1 DEF Put
    <3> QED
      BY <3>1, <3>2 DEF RewardOK, RewardIn
  <2>3. ASSUME NEW f \in DOMAIN rewards', f # r
        PROVE  RewardOK(f)
    <3>1. f \in DOMAIN rewards /\ rewards'[f] = rewards[f]
      BY <2>1, <2>3 DEF Put
    <3> QED
      BY <1>2, <3>1
  <2> QED
    BY <1>3, <1>5, <2>1, <2>2, <2>3
<1>9. ASSUME NEW h \in Handlers, WriteReward(h)
      PROVE  LoggedInv'
  <2> DEFINE r == call[h].reward
             doc == Assign(rewards[r], call[h].dto, call[h].user)
             entry == [type |-> "reward", event |-> call[h].event, reward |-> r,
                       version |-> doc]
  <2>1. /\ r \in DOMAIN rewards /\ events' = events
        /\ rewards' = [rewards EXCEPT ![r] = doc] /\ Log(h, entry)
    BY <1>9 DEF WriteReward, RewardLogged, TypeOK
  <2> HIDE DEF doc, r
  <2>2. RewardOK(r)
    <3>1. entry \in Entries'
      BY <2>1, LogPending
    <3>2. rewards'[r] = doc
      BY <2>1
    <3> QED
      BY <3>1, <3>2 DEF RewardOK, RewardIn
  <2>3. ASSUME NEW f \in DOMAIN rewards', f # r
        PROVE  RewardOK(f)
    BY <1>2, <2>1, <2>3
  <2> QED
    BY <1>3, <1>5, <2>1, <2>2, <2>3
<1>10. ASSUME NEW e \in Events, CountParticipant(e)
       PROVE  LoggedInv'
  <2>1. DOMAIN events' = DOMAIN events /\ rewards' = rewards
    BY <1>10 DEF CountParticipant
  <2>2. ASSUME NEW f \in DOMAIN events
        PROVE  Version(events'[f]) = Version(events[f])
    BY <1>10 DEF CountParticipant, TypeOK, EventDocument, Version
  <2> QED
    BY <1>1, <1>3, <1>4, <2>1, <2>2
<1>11. ASSUME UNCHANGED <<events, rewards>>
       PROVE  LoggedInv'
  BY <1>3, <1>4, <1>5, <1>11
<1>12. ASSUME NEW h \in Handlers,
              \/ \E e \in Events, dto \in UpdateEventDto, user \in Operators :
                    UpdateEvent(h, e, dto, user)
              \/ \E r \in Rewards, e \in Events, b \in Bodies : CreateReward(h, r, e, b)
              \/ \E r \in Rewards, dto \in UpdateRewardDto, user \in Operators :
                    UpdateReward(h, r, dto, user)
              \/ LogStatus(h) \/ SaveLog(h) \/ Fail(h) \/ NotFound(h)
       PROVE  LoggedInv'
  BY <1>11, <1>12
  DEF UpdateEvent, CreateReward, UpdateReward, LogStatus, SaveLog, Fail, NotFound, vars
<1>13. CASE UNCHANGED vars
  BY <1>11, <1>13 DEF vars
<1> QED
  BY <1>6, <1>7, <1>8, <1>9, <1>10, <1>12, <1>13 DEF Next

\* The version of every event and reward that is stored has a log entry of its own,
\* saved, about to be, or lost to a failure of its save.
THEOREM LatestLogged == Spec => []VersionsLogged
<1>1. Init => LoggedInv
  BY DEF Init, LoggedInv
<1>2. LoggedInv => VersionsLogged
  BY DEF LoggedInv, VersionIn, RewardIn, VersionsLogged, Entries
<1> QED
  BY <1>1, <1>2, LoggedStep, TypeCorrect, PTL DEF Spec

-----------------------------------------------------------------------------
(***************************************************************************)
(* Participations are counted                                              *)
(***************************************************************************)

\* The strengthening: an event that is not stored has no participations.
CountedInv ==
    \A e \in Events :
        joined[e] = IF e \in DOMAIN events THEN events[e].participantCount ELSE 0

\* An update never writes the counter that it has read.
LEMMA CountedStep == TypeOK /\ TypeOK' /\ CountedInv /\ [Next]_vars => CountedInv'
<1> SUFFICES ASSUME TypeOK, TypeOK', CountedInv, [Next]_vars
             PROVE  CountedInv'
  OBVIOUS
<1>1. ASSUME NEW h \in Handlers, NEW e \in Events, NEW s \in Statuses, NEW b \in Bodies,
             CreateEvent(h, e, s, b)
      PROVE  CountedInv'
  BY <1>1 DEF CreateEvent, CountedInv, Put
<1>2. ASSUME NEW h \in Handlers, WriteEvent(h)
      PROVE  CountedInv'
  <2> DEFINE e == call[h].event
             doc == Updated(call[h])
  <2>1. /\ call[h] \in EventUpdate /\ e \in DOMAIN events /\ joined' = joined
        /\ events' = [events EXCEPT ![e] = doc]
    BY <1>2, CallShape DEF WriteEvent, TypeOK
  <2>2. doc.participantCount = events[e].participantCount
    BY <2>1, AssignEvent DEF Updated, EventUpdate, TypeOK
  <2> HIDE DEF doc, e
  <2> QED
    BY <2>1, <2>2 DEF CountedInv
<1>3. ASSUME NEW e \in Events, CountParticipant(e)
      PROVE  CountedInv'
  <2>1. /\ events[e] \in EventDocument /\ DOMAIN events' = DOMAIN events
        /\ events'[e].participantCount = events[e].participantCount + 1
        /\ joined'[e] = joined[e] + 1
        /\ \A f \in DOMAIN events \ {e} : events'[f] = events[f]
        /\ \A f \in Events \ {e} : joined'[f] = joined[f]
    BY <1>3 DEF CountParticipant, TypeOK, EventDocument
  <2> QED
    BY <1>3, <2>1 DEF CountedInv, CountParticipant
<1>4. ASSUME UNCHANGED <<events, joined>>
      PROVE  CountedInv'
  BY <1>4 DEF CountedInv
<1>5. ASSUME NEW h \in Handlers,
             \/ \E e \in Events, dto \in UpdateEventDto, user \in Operators :
                   UpdateEvent(h, e, dto, user)
             \/ \E r \in Rewards, e \in Events, b \in Bodies : CreateReward(h, r, e, b)
             \/ \E r \in Rewards, dto \in UpdateRewardDto, user \in Operators :
                   UpdateReward(h, r, dto, user)
             \/ LogStatus(h) \/ SaveReward(h) \/ WriteReward(h) \/ SaveLog(h) \/ Fail(h)
             \/ NotFound(h)
      PROVE  CountedInv'
  BY <1>4, <1>5
  DEF UpdateEvent, CreateReward, UpdateReward, LogStatus, SaveReward, WriteReward, SaveLog,
      Fail, NotFound, vars
<1>6. CASE UNCHANGED vars
  BY <1>4, <1>6 DEF vars
<1> QED
  BY <1>1, <1>2, <1>3, <1>5, <1>6 DEF Next

\* No participation that is counted while updates of its event overlap is lost.
THEOREM CountsKept == Spec => []CountKept
<1>1. Init => CountedInv
  BY DEF Init, CountedInv
<1>2. TypeOK /\ CountedInv => CountKept
  BY DEF TypeOK, CountedInv, CountKept
<1> QED
  BY <1>1, <1>2, CountedStep, TypeCorrect, PTL DEF Spec
=============================================================================

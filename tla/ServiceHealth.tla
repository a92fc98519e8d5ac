---------------------------- MODULE ServiceHealth ----------------------------
(***************************************************************************)
(* The status that the gateway keeps of the Auth and the Event service.    *)
(* The startup check asks both for their health, one after the other, with *)
(* a limit on the wait; every proxied call writes the status of its        *)
(* service when it ends, as its kind demands.  Only validateToken limits   *)
(* how long it waits.  The proxied calls of a service share one TCP        *)
(* connection, which keeps the order of the answers; the startup check has *)
(* connections of its own.  The health endpoints read both statuses in one *)
(* go and change nothing.                                                  *)
(***************************************************************************)
EXTENDS SequencesExt

CONSTANTS
    Handlers,   \* bound: the proxied calls in flight together
    Operations  \* the kinds of calls that clients make

Service == {"auth", "event"}

\* EventsService proxies every operation alike.  Of UsersService, account is
\* create, updateUserRole, findAllUsers or getUserRole.
Operation == {"event", "login", "refreshToken", "account", "validateToken", "logout"}

ASSUME OperationsAssumption == Operations \subseteq Operation

VARIABLES
    serviceStatus,  \* the flag of each service
    startup,        \* the startup check: the service it asks, and the answer
    running,        \* whether each service runs
    wire,           \* the calls whose answers are under way, in order
    call,           \* the state of each proxied call
    latest          \* history: the last answer that the Event service sent since
                    \* the startup check ended

vars == <<serviceStatus, startup, running, wire, call, latest>>

\* A positive answer, one that says success: false or isValid: false, an error.
Answer == {"ok", "refused", "error"}
NoAnswer == "none"

Idle == [pc |-> "idle"]
Proxied == [pc : {"wait"}, op : Operation, answer : Answer \cup {NoAnswer}]

ServiceOf(op) == IF op = "event" THEN "event" ELSE "auth"

\* The answers that the controllers of the services give to each operation; an
\* exception, such as a wrong password or an unknown event, is an error.
AuthAnswers(op) ==
    CASE op = "login" -> {"ok", "error"}
      [] op = "account" -> Answer
      [] op \in {"refreshToken", "validateToken", "logout"} -> {"ok", "refused"}

AnswersTo(op) == IF op = "event" THEN {"ok", "error"} ELSE AuthAnswers(op)

\* Mutant: only calls of validateToken find out that a service is back.
SetsUpValidated(op, answer) == answer = "ok" /\ op = "validateToken"

SetsUp(op, answer) ==
    answer = "ok" /\ op \in {"event", "login", "validateToken"}

\* Mutant: errors of event calls are passed on only.
SetsDownAuth(op, answer) ==
    \/ answer = "error" /\ op \in {"login", "refreshToken", "account", "validateToken"}
    \/ answer = "refused" /\ op \in {"refreshToken", "validateToken"}

SetsDown(op, answer) ==
    \/ answer = "error" /\ op # "logout"
    \/ answer = "refused" /\ op \in {"refreshToken", "validateToken"}

Awaits(h, s) ==
    /\ call[h].pc = "wait" /\ ServiceOf(call[h].op) = s
    /\ call[h].answer = NoAnswer

Init ==
    /\ serviceStatus = [s \in Service |-> FALSE]
    /\ startup = [pc |-> "auth", answer |-> NoAnswer]
    /\ running \in [Service -> BOOLEAN]
    /\ wire = [s \in Service |-> <<>>]
    /\ call = [h \in Handlers |-> Idle]
    /\ latest = NoAnswer

-----------------------------------------------------------------------------
(***************************************************************************)
(* checkServicesHealth                                                     *)
(***************************************************************************)

\* The service that is asked next.
AfterProbe(s) == IF s = "auth" THEN "event" ELSE "done"

NextProbe(s) == startup' = [pc |-> AfterProbe(s), answer |-> NoAnswer]

\* The service answers; if it does not run, the connection fails.
AnswerProbe(s) ==
    /\ startup = [pc |-> s, answer |-> NoAnswer]
    /\ startup' = [startup EXCEPT !.answer = IF running[s] THEN "ok" ELSE "error"]
    /\ UNCHANGED <<serviceStatus, running, wire, call, latest>>

ReceiveProbe(s) ==
    /\ startup.pc = s
    /\ startup.answer # NoAnswer
    /\ serviceStatus' = [serviceStatus EXCEPT ![s] = startup.answer = "ok"]
    /\ NextProbe(s)
    /\ UNCHANGED <<running, wire, call, latest>>

\* timeout, catchError and the assignment after it run in one turn.
TimeOutProbe(s) ==
    /\ startup.pc = s
    /\ serviceStatus' = [serviceStatus EXCEPT ![s] = FALSE]
    /\ NextProbe(s)
    /\ UNCHANGED <<running, wire, call, latest>>

-----------------------------------------------------------------------------
(***************************************************************************)
(* Proxied calls                                                           *)
(***************************************************************************)
Send(h, op) ==
    /\ call[h] = Idle
    /\ call' = [call EXCEPT ![h] = [pc |-> "wait", op |-> op, answer |-> NoAnswer]]
    /\ UNCHANGED <<serviceStatus, startup, running, wire, latest>>

AnswerCall(s, h, answer) ==
    /\ Awaits(h, s)
    /\ call' = [call EXCEPT ![h].answer = answer]
    /\ wire' = [wire EXCEPT ![s] = Append(@, h)]
    /\ latest' = IF s = "event" /\ startup.pc = "done" THEN answer ELSE latest
    /\ UNCHANGED <<serviceStatus, startup, running>>

\* A service answers the calls that wait in any order, or never.
Reply(s, h) ==
    /\ running[s]
    /\ Awaits(h, s)
    /\ \E answer \in AnswersTo(call[h].op) : AnswerCall(s, h, answer)

\* A connection that is closed or refused fails the calls that wait on it.
Disconnect(s, h) ==
    /\ ~running[s]
    /\ AnswerCall(s, h, "error")

\* The status that a call leaves: a positive answer, an error, or neither.
Updated(s, op, answer) ==
    IF SetsUp(op, answer) THEN TRUE
    ELSE IF SetsDown(op, answer) THEN FALSE
    ELSE serviceStatus[s]

Receive(s) ==
    /\ wire[s] # <<>>
    /\ LET h == Head(wire[s])
       IN  /\ serviceStatus' =
                 [serviceStatus EXCEPT ![s] = Updated(s, call[h].op, call[h].answer)]
           /\ call' = [call EXCEPT ![h] = Idle]
    /\ wire' = [wire EXCEPT ![s] = Tail(@)]
    /\ UNCHANGED <<startup, running, latest>>

\* Promise.race with a timer of 5 seconds.
Limited(h) == call[h].pc = "wait" /\ call[h].op = "validateToken"

\* Mutant: the answer that comes late is handled all the same.
WithoutNone(seq, h) == seq

Without(seq, h) ==
    IF h \in ToSet(seq) THEN RemoveAt(seq, CHOOSE i \in DOMAIN seq : seq[i] = h)
    ELSE seq

\* The timer wins the race; a late answer changes nothing.
TimeOut(h) ==
    /\ Limited(h)
    /\ serviceStatus' = [serviceStatus EXCEPT !["auth"] = FALSE]
    /\ call' = [call EXCEPT ![h] = Idle]
    /\ wire' = [wire EXCEPT !["auth"] = Without(@, h)]
    /\ UNCHANGED <<startup, running, latest>>

-----------------------------------------------------------------------------
(***************************************************************************)
(* The services stop and start.                                            *)
(***************************************************************************)
Stop(s) ==
    /\ running[s]
    /\ running' = [running EXCEPT ![s] = FALSE]
    /\ UNCHANGED <<serviceStatus, startup, wire, call, latest>>

\* A restart takes longer than the gateway needs to see that connections closed.
Start(s) ==
    /\ ~running[s]
    /\ startup # [pc |-> s, answer |-> NoAnswer]
    /\ \A h \in Handlers : ~Awaits(h, s)
    /\ running' = [running EXCEPT ![s] = TRUE]
    /\ UNCHANGED <<serviceStatus, startup, wire, call, latest>>

Next ==
    \/ \E s \in Service :
          \/ AnswerProbe(s)
          \/ ReceiveProbe(s)
          \/ TimeOutProbe(s)
          \/ \E h \in Handlers : Reply(s, h) \/ Disconnect(s, h)
          \/ Receive(s)
          \/ Stop(s)
          \/ Start(s)
    \/ \E h \in Handlers :
          \/ \E op \in Operations : Send(h, op)
          \/ TimeOut(h)

Spec == Init /\ [][Next]_vars

\* The gateway's timers fire, and its event loop handles what the connections
\* deliver, a closed connection included.  Services need not answer.
Fairness ==
    /\ \A s \in Service :
          /\ WF_vars(ReceiveProbe(s) \/ TimeOutProbe(s))
          /\ WF_vars(Receive(s))
          /\ \A h \in Handlers : WF_vars(Disconnect(s, h))
    /\ \A h \in Handlers : WF_vars(TimeOut(h))
FairSpec == Spec /\ Fairness

-----------------------------------------------------------------------------
(***************************************************************************)
(* Properties                                                              *)
(***************************************************************************)
\* Each answer under way belongs to one call that waits for it, on the
\* connection of its service.
TypeOK ==
    /\ serviceStatus \in [Service -> BOOLEAN]
    /\ startup \in [pc : Service \cup {"done"}, answer : {NoAnswer, "ok", "error"}]
    /\ running \in [Service -> BOOLEAN]
    /\ wire \in [Service -> Seq(Handlers)]
    /\ call \in [Handlers -> {Idle} \cup Proxied]
    /\ latest \in {NoAnswer, "ok", "error"}
    /\ \A s \in Service :
          /\ ToSet(wire[s]) =
                {h \in Handlers : /\ call[h].pc = "wait" /\ ServiceOf(call[h].op) = s
                                  /\ call[h].answer # NoAnswer}
          /\ \A i, j \in DOMAIN wire[s] : wire[s][i] = wire[s][j] => i = j

\* The startup check can overwrite what later answers said.  But once it is over
\* and no answer of the Event service is under way, the status is what the last
\* answer says that the service sent since, however the calls overlapped.
LatestAnswerCounts ==
    startup.pc = "done" /\ wire["event"] = <<>> /\ latest # NoAnswer =>
        serviceStatus["event"] = (latest = "ok")

\* A service that stops while a call waits, other than a logout, is marked down:
\* also when it has started again, and the startup check has found it up, before
\* the error of the connection that was closed is handled.
OutageNoticed ==
    \A s \in Service :
        (~running[s] /\ \E h \in Handlers : Awaits(h, s) /\ call[h].op # "logout")
            ~> ~serviceStatus[s]

Answered(h, s, answer) ==
    /\ call[h].pc = "wait" /\ ServiceOf(call[h].op) = s
    /\ call[h].answer = answer

\* A refused login, an unknown event, a timer: whatever marked a service down
\* does not stick.  If from some time on it answers every call positively and in
\* time, and event calls, logins or validations recur, it is up for good.
Recovers ==
    \A s \in Service :
        /\ <>[](\A h \in Handlers : ~Answered(h, s, "refused") /\ ~Answered(h, s, "error"))
        /\ <>[][\A h \in Handlers : ~TimeOut(h)]_vars
        /\ []<>(\E h \in Handlers :
                  Answered(h, s, "ok") /\ call[h].op \in {"event", "login", "validateToken"})
        => <>[]serviceStatus[s]
=============================================================================

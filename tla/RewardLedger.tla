----------------------------- MODULE RewardLedger -----------------------------
(***************************************************************************)
(* What the Event service promises of reward requests, whatever happens    *)
(* inside it: a request keeps its user, event and rewards from the moment  *)
(* it is stored, what was issued for it stays issued and is among what it  *)
(* asked for, it is APPROVED only once everything it asks for is issued,   *)
(* and a user has no more than Limit open requests for a reward.  Of a     *)
(* request that an operator reopens after it was closed, the last two are  *)
(* not promised.                                                           *)
(***************************************************************************)
EXTENDS FiniteSets, Integers

CONSTANTS
    Ids, Rewards, Users, Events,
    Limit       \* how many open requests a user can have for a reward

Status == {"PENDING", "APPROVED", "REJECTED", "ISSUED", "CANCELLED"}
Open == {"PENDING", "APPROVED"}

VARIABLES
    asked,      \* who asks for what: the request with its rewards, by id
    status,     \* the status of each request
    issued,     \* the rewards issued for each id
    reopened    \* the requests that an operator sent an open status when closed

Asked == [user : Users, event : Events, rewards : SUBSET Rewards]

Init ==
    /\ asked = [q \in {} |-> {}]
    /\ status = [q \in {} |-> {}]
    /\ issued = [q \in Ids |-> {}]
    /\ reopened = {}

OpenFor(u, e, r) ==
    {q \in DOMAIN asked \ reopened :
        /\ asked[q].user = u /\ asked[q].event = e /\ r \in asked[q].rewards
        /\ status[q] \in Open}

WithinLimit ==
    \A u \in Users, e \in Events, r \in Rewards :
        Cardinality(OpenFor(u, e, r)) <= Limit

\* A request is stored as PENDING.
Submit(q, a) ==
    /\ q \notin DOMAIN asked
    /\ asked' = [x \in DOMAIN asked \cup {q} |-> IF x = q THEN a ELSE asked[x]]
    /\ status' = [x \in DOMAIN asked \cup {q} |-> IF x = q THEN "PENDING" ELSE status[x]]
    /\ WithinLimit'
    /\ UNCHANGED <<issued, reopened>>

\* A reward that the request asks for is issued, whatever its status by now.
Issue(q, r) ==
    /\ q \in DOMAIN asked
    /\ r \in asked[q].rewards
    /\ issued' = [issued EXCEPT ![q] = @ \cup {r}]
    /\ UNCHANGED <<asked, status, reopened>>

Decide(q, s) ==
    /\ q \in DOMAIN asked
    /\ s = "APPROVED" => asked[q].rewards \subseteq issued[q] \/ q \in reopened
    /\ status' = [status EXCEPT ![q] = s]
    /\ WithinLimit'
    /\ UNCHANGED <<asked, issued, reopened>>

\* An operator sends an open status for a request that is closed.
Reopen(q) ==
    /\ q \in DOMAIN asked
    /\ status[q] \notin Open
    /\ reopened' = reopened \cup {q}
    /\ UNCHANGED <<asked, status, issued>>

Next ==
    \E q \in Ids :
        \/ \E a \in Asked : Submit(q, a)
        \/ \E r \in Rewards : Issue(q, r)
        \/ \E s \in Status : Decide(q, s)
        \/ Reopen(q)

Spec == Init /\ [][Next]_<<asked, status, issued, reopened>>
=============================================================================

--------------------------- MODULE MCRewardRequests ---------------------------
(***************************************************************************)
(* Instances of RewardRequests and EventService for TLC.  Operators send   *)
(* no ISSUED and no CANCELLED: to every handler these are what REJECTED    *)
(* is, a status that is neither PENDING nor APPROVED.                      *)
(***************************************************************************)
EXTENDS EventService, TLC

CONSTANTS u1, u2, e1, e2, r1, r2, q1, q2, q3, h1, h2, h3

OneEvent == [r \in Rewards |-> e1]

OneReward == {<<r1>>}
BothRewards == {<<r1, r2>>}
AnyRewards == {<<>>, <<r1, r1>>, <<r1, r2>>, <<r2>>}

NoEdits == {}
\* Operators move a reward to another event.
Move == {[eventId |-> e2]}

NoEvidence == {{}}
AnyEvidence == {{}, {"purchaseId"}}

Document(status, type, end) ==
    [status |-> status, conditionType |-> type, startDate |-> 0,
     endDate |-> end, allowMultipleParticipation |-> FALSE]

ActiveEvent == {Document("ACTIVE", "ATTENDANCE", 1)}
PurchaseEvents ==
    {Document(status, "PURCHASE_AMOUNT", 0) : status \in {"ACTIVE", "PAUSED"}}

\* Ids of requests and handlers are interchangeable in every safety property.
Symmetric == Permutations(RequestIds) \cup Permutations(Handlers)
=============================================================================

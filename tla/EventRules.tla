----------------------------- MODULE EventRules -----------------------------
(***************************************************************************)
(* The rules of the Event service that read no database: when an event is  *)
(* active and when its participation condition is met.  The createReward-  *)
(* Request and createParticipation handlers evaluate them on the event     *)
(* document they read at their start, not on the one stored by then.       *)
(***************************************************************************)
EXTENDS Integers

EventStatus == {"DRAFT", "ACTIVE", "PAUSED", "ENDED"}

EventConditionType ==
    {"LOGIN_DAYS", "INVITE_FRIENDS", "PURCHASE_AMOUNT",
     "QUEST_COMPLETION", "ATTENDANCE", "CUSTOM"}

(***************************************************************************)
(* An event document, reduced to the fields that the handlers read.        *)
(***************************************************************************)
EventDocument ==
    [status : EventStatus, conditionType : EventConditionType,
     startDate : Int, endDate : Int,
     allowMultipleParticipation : BOOLEAN]

(***************************************************************************)
(* verificationData is the set of proofs that a caller attaches: a truthy  *)
(* purchaseId, a non-empty invitedUsers array.                             *)
(***************************************************************************)
VerificationData == SUBSET {"purchaseId", "invitedUsers"}

IsActive(event, now) ==
    /\ event.status = "ACTIVE"
    /\ event.startDate <= now
    /\ now <= event.endDate

(***************************************************************************)
(* QUEST_COMPLETION and CUSTOM have no branch: the default refuses them.   *)
(***************************************************************************)
VerifyEventCondition(event, verificationData, now) ==
    /\ IsActive(event, now)
    /\ \/ event.conditionType \in {"LOGIN_DAYS", "ATTENDANCE"}
       \/ /\ event.conditionType = "PURCHASE_AMOUNT"
          /\ "purchaseId" \in verificationData
       \/ /\ event.conditionType = "INVITE_FRIENDS"
          /\ "invitedUsers" \in verificationData
=============================================================================

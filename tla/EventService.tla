---------------------------- MODULE EventService ----------------------------
(***************************************************************************)
(* Reward requests and the statistics share one process and its documents. *)
(* The statistics, modelled in Participation, count the requests of an     *)
(* event and those that are APPROVED, and see two counters that their      *)
(* environment moves.  Here RewardRequests is shown to be such an          *)
(* environment, so that what Participation shows of the reports holds of   *)
(* the requests that createRewardRequest and updateRewardRequest write.    *)
(***************************************************************************)
EXTENDS RewardRequests

RequestsOf(e) == {q \in DOMAIN requests : requests[q].event = e}

\* What countDocuments finds for the event, and for the event and APPROVED.
ApprovedOf(e) == {q \in RequestsOf(e) : requests[q].status = "APPROVED"}

\* Nobody participates and no report is asked for: what is left of Participation
\* is what its reports see.
Statistics == INSTANCE Participation WITH
    ParticipationIds <- {},
    MaxRequests <- Cardinality(RequestIds),
    participations <- [p \in {} |-> Idle],
    participantCount <- [e \in Events |-> 0],
    limited <- {},
    lost <- [e \in Events |-> 0],
    requested <- [e \in Events |-> Cardinality(RequestsOf(e))],
    approved <- [e \in Events |-> Cardinality(ApprovedOf(e))],
    call <- [h \in Handlers |-> Idle]

\* Whatever operators write over a status and whichever calls overlap or fail,
\* a query finds one request more at a time, which is not APPROVED yet, and then
\* one that is APPROVED more or less; a request never leaves its event.
RequestsCounted == Statistics!Spec
=============================================================================

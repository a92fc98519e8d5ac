--------------------------- MODULE MCParticipation ---------------------------
(***************************************************************************)
(* Instances of Participation for TLC.                                     *)
(***************************************************************************)
EXTENDS Participation, TLC

Document(status, type, many) ==
    [status |-> status, conditionType |-> type, startDate |-> 0,
     endDate |-> 0, allowMultipleParticipation |-> many]

OpenEvent == {Document("ACTIVE", "ATTENDANCE", TRUE)}
\* An operator pauses the event, and switches the limit of one participation.
SwitchedEvents ==
    {Document("ACTIVE", "INVITE_FRIENDS", FALSE),
     Document("ACTIVE", "INVITE_FRIENDS", TRUE),
     Document("PAUSED", "INVITE_FRIENDS", FALSE)}

NoEvidence == {{}}
AnyEvidence == {{}, {"invitedUsers"}}

\* Users, records and handlers are interchangeable in every safety property.
Symmetric ==
    Permutations(Users) \cup Permutations(ParticipationIds) \cup Permutations(Handlers)
=============================================================================

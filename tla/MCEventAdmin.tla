----------------------------- MODULE MCEventAdmin -----------------------------
(***************************************************************************)
(* Instances of EventAdmin for TLC.                                        *)
(***************************************************************************)
EXTENDS EventAdmin, TLC

\* Every set of ids and values is symmetric in every safety property.
Symmetric ==
    Permutations(Events) \cup Permutations(Operators) \cup Permutations(Handlers)
        \cup Permutations(Statuses) \cup Permutations(Bodies)
=============================================================================

------------------------------ MODULE MCAccess ------------------------------
(***************************************************************************)
(* Instances of Access for TLC.                                            *)
(***************************************************************************)
EXTENDS Access, TLC

CONSTANTS u1, u2

\* One admin is stored; the other users register, some of them as admins.
SoleAdmin == [u \in {u1} |-> "ADMIN"]

\* Handlers are interchangeable in every property.
Symmetric == Permutations(Handlers)
=============================================================================

--------------------------- MODULE MCRefreshTokens ---------------------------
(***************************************************************************)
(* Instances of RefreshTokens for TLC.                                     *)
(***************************************************************************)
EXTENDS RefreshTokens, TLC

\* Users, tokens and handlers are interchangeable in every safety property.
Symmetric ==
    Permutations(Users) \cup Permutations(Tokens) \cup Permutations(Handlers)
=============================================================================

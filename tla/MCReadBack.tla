----------------------------- MODULE MCReadBack -----------------------------
(***************************************************************************)
(* Instances of ReadBack for TLC: the endpoints each run considers.        *)
(***************************************************************************)
EXTENDS ReadBack

CONSTANTS c1, c2

\* Every endpoint, for one caller at a time.
EveryEndpoint == AllEndpoints

\* For two callers.
SharedEndpoints == {GlobalSettings}

AzureOnly == {AzureAuthModule}
=============================================================================

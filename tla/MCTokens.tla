------------------------------ MODULE MCTokens ------------------------------
(* Two callers of one account, and two refreshes that can be in flight.      *)
EXTENDS TokenRefreshProperties
=============================================================================

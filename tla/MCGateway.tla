----------------------------- MODULE MCGateway -----------------------------
(* Three requests with the same token, to a group of a provider with a     *)
(* token source and one without.                                           *)
EXTENDS Gateway

MCGroup == <<"copilot", "anthropic">>
=============================================================================

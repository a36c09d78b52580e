------------------------- MODULE MCProviderReconnect -------------------------
(* Small instances of ProviderReconnect, whose constants are numbers.        *)
EXTENDS ProviderReconnect
=============================================================================

-------------------------- MODULE MCProviderCapacity --------------------------
(* A terminal with two turns, and one with a single turn whose model hands   *)
(* work off: enough for a successor, a lost wake and a lent slot.              *)
EXTENDS ProviderCapacity
CONSTANTS a, b
TwoAndOne == [t \in Terminals |-> IF t = a THEN 2 ELSE 1]
===============================================================================

---------------------------- MODULE EffectPromise ----------------------------
(***************************************************************************)
(* What the effect ledger promises, without rows, tokens or processes: an  *)
(* execution (a logical turn) may enter an effect once and make it once,   *)
(* and an execution that carries on an earlier one may not make what that  *)
(* one has entered.  WorkflowEffects implements this module.               *)
(***************************************************************************)
EXTENDS Naturals

CONSTANTS Turns, Keys

VARIABLES running,  \* executions that have begun
          promise,  \* per execution and effect: may it still be made here?
          times     \* how often it was made here

pvars == <<running, promise, times>>

PInit == /\ running = {}
         /\ promise = [t \in Turns |-> [k \in Keys |-> "free"]]
         /\ times = [t \in Turns |-> [k \in Keys |-> 0]]

(* Execution t begins and carries on all of S; nothing, if S is empty.       *)
Begins(t, S) ==
    /\ t \notin running /\ S \subseteq running
    /\ running' = running \cup {t}
    /\ promise' = [promise EXCEPT ![t] = [k \in Keys |->
                      IF \A s \in S : promise[s][k] = "free" THEN "free" ELSE "sealed"]]
    /\ UNCHANGED times

Enters(t, k) ==
    /\ t \in running /\ promise[t][k] = "free"
    /\ promise' = [promise EXCEPT ![t][k] = "entered"]
    /\ UNCHANGED <<running, times>>

Makes(t, k) ==
    /\ promise[t][k] = "entered"
    /\ promise' = [promise EXCEPT ![t][k] = "made"]
    /\ times' = [times EXCEPT ![t][k] = @ + 1]
    /\ UNCHANGED running

(* It is proven that the effect was not made and will not be.                *)
Withdraws(t, k) ==
    /\ promise[t][k] = "entered"
    /\ promise' = [promise EXCEPT ![t][k] = "free"]
    /\ UNCHANGED <<running, times>>

PNext == \/ \E t \in Turns : \E S \in SUBSET running : Begins(t, S)
         \/ \E t \in Turns, k \in Keys : Enters(t, k) \/ Makes(t, k) \/ Withdraws(t, k)

PSpec == PInit /\ [][PNext]_pvars
=============================================================================

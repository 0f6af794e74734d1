-------------------------- MODULE MCCircuitBreaker --------------------------
(***************************************************************************)
(* CircuitBreaker on a small instance.  Three calls in flight are enough   *)
(* for a probe, a call left over from before the circuit opened and one    *)
(* from an earlier trial to overlap; a threshold and a quota of two are    *)
(* the smallest that tell "one" from "enough".                             *)
(***************************************************************************)
EXTENDS CircuitBreaker, TLC

=============================================================================

-------------------------- MODULE MCCircuitBreaker --------------------------
(***************************************************************************)
(* CircuitBreaker with four callers and a threshold of three: room for the *)
(* circuit to open, half-open and admit a probe while calls admitted       *)
(* before it opened are still out.                                         *)
(***************************************************************************)
EXTENDS CircuitBreaker

=============================================================================

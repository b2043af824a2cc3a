---------------------------- MODULE MCSellerCall ----------------------------
(***************************************************************************)
(* SellerCall with two coroutines on one session: each can trip or close   *)
(* the circuit under the other's call.  No control depends on which        *)
(* context ids there are, so the run of all properties has none.           *)
(***************************************************************************)
EXTENDS SellerCall

=============================================================================

--------------------------- MODULE MCBuyingSystem ---------------------------
(***************************************************************************)
(* BuyingSystem with one operation and the coroutines of a .cfg.           *)
(***************************************************************************)
EXTENDS BuyingSystem

MCWorkers == Buyers \cup Background \cup ApiPollers \cup Handlers \cup Humans

=============================================================================

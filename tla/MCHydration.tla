---------------------------- MODULE MCHydration -----------------------------
(***************************************************************************)
(* A dump of two blocks, a larger one, and a smaller one again.            *)
(***************************************************************************)
EXTENDS Hydration

MCSize == <<2, 3, 2>>

=============================================================================

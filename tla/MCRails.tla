-------------------------------- MODULE MCRails --------------------------------
(***************************************************************************)
(* The payout priority of a deployment that pays through eConfirm, with    *)
(* the simulated rail behind it, and two sessions that take turns or not.  *)
(***************************************************************************)
EXTENDS RailBreaker, TLC

MCPriority == <<"econfirm", "simulated">>

ServedAlike == Permutations(Sessions)
=============================================================================

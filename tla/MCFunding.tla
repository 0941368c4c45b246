------------------------------ MODULE MCFunding ------------------------------
(***************************************************************************)
(* Two orders, one of them perhaps of before issue #222, served by two     *)
(* sessions beside the poller and the administrator.                       *)
(***************************************************************************)
EXTENDS CustodyFunding, TLC

ServedAlike == Permutations(Buyers)
=============================================================================

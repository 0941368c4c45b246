------------------------------ MODULE MCListings ------------------------------
(***************************************************************************)
(* One item, two orders for it, two requests.                              *)
(***************************************************************************)
EXTENDS Listings, TLC

MCChanges ==
    {"price" :> 2, "is_serialized" :> TRUE, "unique_id" :> FALSE, "dispute_policy" :> FALSE}

Alike == Permutations(Requests) \cup Permutations(Orders)
=============================================================================

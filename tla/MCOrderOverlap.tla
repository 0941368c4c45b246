--------------------------- MODULE MCOrderOverlap ---------------------------
(***************************************************************************)
(* One order served by sessions that overlap, as the code allows.  The     *)
(* configurations choose the kind of order and the sessions.               *)
(***************************************************************************)
EXTENDS OrderLifecycle, TLC
CONSTANTS phone

MCOrders    == {phone}
MCSellerMay == [o \in MCOrders |-> {"refund", "ship"}]
Sessions    == Permutations(Workers)
=============================================================================

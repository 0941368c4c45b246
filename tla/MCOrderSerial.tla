---------------------------- MODULE MCOrderSerial ----------------------------
(***************************************************************************)
(* Two orders served one request at a time each: a serialized item paid    *)
(* through the callback and a non-serialized one paid through eConfirm.    *)
(***************************************************************************)
EXTENDS OrderLifecycle, TLC
CONSTANTS phone, shirt

MCOrders     == {phone, shirt}
MCSerialized == {phone}
MCEconfirm   == {shirt}
MCSellerMay  == [o \in MCOrders |-> {"refund", "ship"}]
Sessions     == Permutations(Workers)
=============================================================================

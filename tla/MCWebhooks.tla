------------------------------ MODULE MCWebhooks ------------------------------
(***************************************************************************)
(* A genuine and a forged callback of one LOOP collection, and Pesapal's   *)
(* with and without a reference, each delivered any number of times and    *)
(* served by two worker processes.                                         *)
(***************************************************************************)
EXTENDS CollectionWebhooks

CONSTANTS r1, e1

Loop(i, direct, nested, sign) ==
    [id |-> i, rail |-> "loop", direct |-> direct, nested |-> nested,
     event |-> NoRef, sign |-> sign]
Pesapal(i, direct, event_) ==
    [id |-> i, rail |-> "pesapal", direct |-> direct, nested |-> NoRef,
     event |-> event_, sign |-> "missing"]

MCMessages == {Loop(1, NoRef, r1, "good"), Loop(2, r1, NoRef, "forged"),
               Pesapal(3, r1, NoRef), Pesapal(4, NoRef, e1)}
=============================================================================

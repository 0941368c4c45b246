---------------------------- MODULE EscrowPromise ----------------------------
(***************************************************************************)
(* What the escrow promises about each order's money, whatever happens to  *)
(* the order in between: it is not there until the buyer pays, it is then  *)
(* held, and it leaves escrow once, either to the seller, back to the      *)
(* buyer, or shared between them, and that is final.                       *)
(***************************************************************************)
CONSTANT Orders
VARIABLE money

Places == {"unpaid", "held", "to_seller", "to_buyer", "shared"}

Moves == {<<"unpaid", "held">>, <<"held", "to_seller">>,
          <<"held", "to_buyer">>, <<"held", "shared">>}

Init == money = [o \in Orders |-> "unpaid"]

\* One commit may settle several orders: the timeout sweep does.
Next ==
    /\ money' \in [Orders -> Places]
    /\ \A o \in Orders : money'[o] = money[o] \/ <<money[o], money'[o]>> \in Moves

Spec == Init /\ [][Next]_money
=============================================================================

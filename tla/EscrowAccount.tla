---------------------------- MODULE EscrowAccount ----------------------------
(***************************************************************************)
(* What the ledger promises of each escrow's ESCROW_HELD account, however  *)
(* the sessions that post to it overlap and die: the funding is booked in  *)
(* once, every payout is booked out at most once, after the funding, by    *)
(* its own amount and never beyond what is held, and nothing else moves    *)
(* the balance.                                                            *)
(***************************************************************************)
EXTENDS Naturals

CONSTANTS
    Escrows,   \* the accounts
    Payouts,   \* what may be paid out
    EscrowOf,  \* per payout, its escrow
    Amount,    \* per payout, its amount
    Total      \* per escrow, what is booked in

VARIABLES
    balance,   \* per escrow, what is held
    booked,    \* the escrows whose funding is booked in
    paid       \* the payouts that are booked out

Init ==
    /\ balance = [e \in Escrows |-> 0]
    /\ booked = {}
    /\ paid = {}

BookIn(e) ==
    /\ e \notin booked
    /\ booked' = booked \cup {e}
    /\ balance' = [balance EXCEPT ![e] = @ + Total[e]]
    /\ UNCHANGED paid

BookOut(p) ==
    LET e == EscrowOf[p] IN
    /\ p \notin paid /\ e \in booked
    /\ Amount[p] <= balance[e]
    /\ paid' = paid \cup {p}
    /\ balance' = [balance EXCEPT ![e] = @ - Amount[p]]
    /\ UNCHANGED booked

Next == (\E e \in Escrows : BookIn(e)) \/ (\E p \in Payouts : BookOut(p))

Spec == Init /\ [][Next]_<<balance, booked, paid>>
=============================================================================

------------------------------- MODULE MCAnchors -------------------------------
(***************************************************************************)
(* An order older than the log, a new order and a new funding event that   *)
(* matches the older order, written by live sessions, two open at a time,  *)
(* while the backfill runs; and the Merkle tree of the committed leaves.   *)
(***************************************************************************)
EXTENDS AnchorChains, MerkleTree

CONSTANTS o1, o2, g1

MCChainOf   == [r \in Rows |-> IF r \in Orders THEN r ELSE IF r = g1 THEN Global ELSE o1]
MCMatchOf   == [r \in Rows |-> IF r = g1 THEN o1 ELSE None]
MCWrittenAt == [r \in Rows |-> IF r \in Orders THEN 0 ELSE 1]

\* A batch of what is committed, chain by chain, looked at when no session is
\* open: every session can be rolled back without changing the batch.
Batch ==
    LET leavesOf(c) == [i \in 1..Len(chain[c]) |-> LeafHash(<<c, chain[c][i].leaf>>)]
    IN  leavesOf(Global) \o leavesOf(o1) \o leavesOf(o2)

(* Whatever sessions and the backfill committed, each event can be proved a   *)
(* member of the batch's root, at its own position only                      *)
(* (merkle.py: MerkleTree.proof, verify_inclusion).                          *)
LeavesProvable ==
    (\A s \in Clients : ~Busy(s)) /\ Batch # <<>> => Provable(Batch)

SessionsAlike == Permutations(Sessions)
=============================================================================

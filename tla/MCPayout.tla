------------------------------ MODULE MCPayout ------------------------------
(***************************************************************************)
(* A LOOP order of 3 cents that is split in halves (a release of 2 and a   *)
(* refund of 1) and, with three attempts, an eConfirm order that is        *)
(* released.                                                               *)
(***************************************************************************)
EXTENDS PayoutExecutor, TLC
CONSTANTS split, whole

MCEscrowOf == [a \in Attempts |-> IF a = 3 THEN whole ELSE split]
MCEscrows  == {MCEscrowOf[a] : a \in Attempts}
MCKind     == [a \in Attempts |-> IF a = 2 THEN "refund" ELSE "release"]
MCAmount   == [a \in Attempts |-> IF a = 3 THEN 2 ELSE Shares(3, 5000)[MCKind[a]]]
MCTotal    == [e \in MCEscrows |-> IF e = split THEN 3 ELSE 2]
MCRailOf   == [e \in MCEscrows |-> IF e = split THEN "keyed" ELSE "whole"]
Sessions   == Permutations(Executors)
=============================================================================

------------------------------ MODULE MCAccounts ------------------------------
(***************************************************************************)
(* Two requests at a time for one phone.  Where they overlap, all happens  *)
(* within one tick: no code is sent twice and nothing expires.             *)
(***************************************************************************)
EXTENDS AccountAccess, TLC

MCMaxTime == [overlapping \in BOOLEAN |-> IF overlapping THEN 0 ELSE 2]

RequestsAlike == Permutations(Requests)
=============================================================================

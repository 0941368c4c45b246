------------------------------- MODULE MCNotices -------------------------------
(***************************************************************************)
(* Two sessions that tell of at most two transitions, a pool of two.       *)
(***************************************************************************)
EXTENDS Notices, TLC

MCHappening == {Arrival, AdminDecision, PayoutAlert}

MCMutes == {{}, {"delivery", "support"}}
=============================================================================

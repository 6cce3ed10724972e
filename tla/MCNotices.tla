------------------------------ MODULE MCNotices ------------------------------
(***************************************************************************)
(* Instances of Notices for TLC: a seen set of 1 id instead of 256 and     *)
(* replays of 2 events instead of 100, so that both overflow.              *)
(***************************************************************************)
EXTENDS Notices
=============================================================================

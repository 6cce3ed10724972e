------------------------------ MODULE MCStream ------------------------------
(***************************************************************************)
(* Instances of Stream for TLC.  u1 opens the connections; u2 stands for   *)
(* every other user.                                                       *)
(***************************************************************************)
EXTENDS Stream, TLC

CONSTANTS r1, r2, c1, c2, u1, u2

MCOneReplica == {r1}
MCOneClient == {c1}
MCOneReplicaOf == c1 :> r1
MCUsers == {u1, u2}
MCTargets == {Nobody, u2}
MCNobodyElse == {u1}
MCBroadcast == {Nobody}
MCOneUserOf == c1 :> u1
=============================================================================

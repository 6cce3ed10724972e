------------------------------- MODULE MCHub -------------------------------
(***************************************************************************)
(* Instances of Hub for TLC: two connections, of one user while the other  *)
(* user is offline, or of one user each.                                   *)
(***************************************************************************)
EXTENDS Hub, TLC

CONSTANTS c1, c2, u1, u2

MCClients == {c1, c2}
MCUsers == {u1, u2}
MCSameUser == c1 :> u1 @@ c2 :> u1
MCTwoUsers == c1 :> u1 @@ c2 :> u2
=============================================================================

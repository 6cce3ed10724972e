---------------------------- MODULE MCConnection ----------------------------
(***************************************************************************)
(* Instances of Connection for TLC.                                        *)
(***************************************************************************)
EXTENDS Connection, TLC

CONSTANTS c1, c2, u1, u2

MCOneClient == {c1}
MCUsers == {u1, u2}
MCOneUserOf == c1 :> u1
=============================================================================

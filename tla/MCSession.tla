----------------------------- MODULE MCSession -----------------------------
(***************************************************************************)
(* Instances of Session for TLC: two requests from the first tab, one from *)
(* the second.                                                             *)
(***************************************************************************)
EXTENDS Session, TLC

CONSTANTS t1, t2, r1, r2, r3, u1, u2

MCUsers == {u1, u2}
MCTabs == {t1, t2}
MCRequests == {r1, r2, r3}
MCTabOf == r1 :> t1 @@ r2 :> t1 @@ r3 :> t2
MCTwoRequests == {r1, r2}
MCTwoTabOf == r1 :> t1 @@ r2 :> t1
=============================================================================

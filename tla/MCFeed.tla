------------------------------- MODULE MCFeed -------------------------------
(***************************************************************************)
(* An instance of Feed for TLC: pages of two videos instead of 10, next to *)
(* cached ones of three instead of 20.                                     *)
(***************************************************************************)
EXTENDS Feed

MCCacheSizes == {2, 3}
=============================================================================

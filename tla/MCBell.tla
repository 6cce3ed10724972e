------------------------------- MODULE MCBell -------------------------------
(***************************************************************************)
(* An instance of Bell for TLC: the user shares the second of the rows.    *)
(***************************************************************************)
EXTENDS Bell

MCMine == {2}
=============================================================================

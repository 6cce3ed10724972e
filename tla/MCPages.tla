------------------------------- MODULE MCPages -------------------------------
(***************************************************************************)
(* The instance of Pages for TLC: see pages.cfg.                           *)
(***************************************************************************)
EXTENDS Pages
=============================================================================

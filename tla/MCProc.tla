------------------------------- MODULE MCProc -------------------------------
(***************************************************************************)
(* Instances of Proc for TLC: the configuration MCProc.cfg.                *)
(***************************************************************************)
EXTENDS Proc, TLC
=============================================================================

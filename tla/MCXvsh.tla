------------------------------- MODULE MCXvsh -------------------------------
(* Xvsh for TLC: the configuration MCXvsh.cfg.                             *)
EXTENDS Xvsh
=============================================================================

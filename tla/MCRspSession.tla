---------------------------- MODULE MCRspSession -----------------------------
(***************************************************************************)
(* The RSP thread, the monitor thread and GDB; the configurations differ   *)
(* in whether there is a listener besides, and in the bounds.              *)
(***************************************************************************)
EXTENDS RspSession
=============================================================================

---------------------------- MODULE MCRspRequests -----------------------------
(***************************************************************************)
(* RspRequests for TLC, in a setting chosen for good: accesses to the CPU  *)
(* succeed (the constants of the configuration), or fail while registers   *)
(* are read and written, or while the CPU is started and stopped.          *)
(***************************************************************************)
EXTENDS RspRequests

VARIABLE setting

Failing == INSTANCE RspRequests
             WITH MayFail <- TRUE, Kinds <- {"p", "P", "g", "G", "readspr", "writespr"}
Stopping == INSTANCE RspRequests
              WITH MayFail <- TRUE, Kinds <- {"p", "c", "s", "readspr", "D"}

MCInit == setting \in {"requests", "failing", "stopping"} /\ Init

In(s) == setting = s /\ setting' = s

RequestStep == In("requests") /\ Next
FailingStep == In("failing") /\ Failing!Next
StoppingStep == In("stopping") /\ Stopping!Next

MCNext == RequestStep \/ FailingStep \/ StoppingStep

MCSpec == MCInit /\ [][MCNext]_<<setting, vars>>
=============================================================================

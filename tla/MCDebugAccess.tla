---------------------------- MODULE MCDebugAccess -----------------------------
(***************************************************************************)
(* DebugAccess for TLC: two threads, and for good one of two settings, in  *)
(* which scans fail on the legacy debug unit (the constants of the         *)
(* configuration), or none does on the advanced one.                       *)
(***************************************************************************)
EXTENDS DebugAccess

CONSTANTS t1, t2

VARIABLE setting

Threads == {t1, t2}

\* Blocks, the control register of a processor, and the serial port.
Mixed == WishboneReadBlock \union WishboneWriteBlock
         \union Cpu0Control \union SerialTransact

\* Two processors, and blocks in several words.
Registers == Cpu0Registers \union Cpu1Read

Advanced == INSTANCE DebugAccess
              WITH DEBUG_HARDWARE <- "advanced", MayFail <- FALSE, Calls <- Mixed

In(s) == setting = s /\ setting' = s

MCInit ==
    \/ setting = "legacy" /\ Init
    \/ setting = "advanced" /\ Advanced!Init

LegacyStep == In("legacy") /\ Next
AdvancedStep == In("advanced") /\ Advanced!Next

MCNext == LegacyStep \/ AdvancedStep

\* DebugAccess' fairness, of the holder of the mutex.
MCSpec ==
    /\ MCInit /\ [][MCNext]_<<setting, vars>>
    /\ \A t \in Thread : WF_vars(In("legacy") /\ HolderStep(t))
    /\ \A t \in Thread : WF_vars(In("advanced") /\ Advanced!HolderStep(t))
=============================================================================

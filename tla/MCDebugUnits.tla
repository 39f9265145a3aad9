----------------------------- MODULE MCDebugUnits -----------------------------
(***************************************************************************)
(* The two debug units for TLC, in a setting chosen for good.  To the      *)
(* advanced unit there are bursts with everything going wrong, all words   *)
(* in one stream ("hispeed", the constants of the configuration) or word   *)
(* by word, and on Xilinx parts with everything but errors of the bus.  To *)
(* the legacy unit there are accesses without a retry ("legacy") or with   *)
(* one ("retry", the constants of the configuration).  The other unit      *)
(* stays as it is at first.                                                *)
(***************************************************************************)
EXTENDS DebugUnits

VARIABLE setting

mcvars == <<setting, vars, legacyVars>>

WordByWord == INSTANCE BurstTransfer WITH HISPEED <- FALSE
Xilinx == INSTANCE BurstTransfer WITH XILINX <- TRUE, Faults <- Faults \ {"bus"}
NoRetry == INSTANCE LegacyUnit
             WITH NUM_SOFT_RETRIES <- 0, MaxCalls <- 4,
                  pc <- lpc, err <- lerr, tap <- ltap, current_chain <- lchain

ASSUME UnitSettings ==
    WordByWord!BurstAssumption /\ Xilinx!BurstAssumption /\ NoRetry!LegacyAssumption

MCInit ==
    /\ Init /\ Legacy!Init
    /\ \/ setting \in {"hispeed", "word by word", "xilinx"}
       \/ setting \in {"legacy", "retry"} /\ fun = "read" /\ start = 0 /\ count = 1

In(s) == setting = s /\ setting' = s

HispeedStep == In("hispeed") /\ Next /\ UNCHANGED legacyVars
WordByWordStep == In("word by word") /\ WordByWord!Next /\ UNCHANGED legacyVars
XilinxStep == In("xilinx") /\ Xilinx!Next /\ UNCHANGED legacyVars
LegacyStep == In("legacy") /\ NoRetry!Next /\ UNCHANGED vars
RetryStep == In("retry") /\ Legacy!Next /\ UNCHANGED vars

MCNext ==
    \/ HispeedStep \/ WordByWordStep \/ XilinxStep
    \/ LegacyStep \/ RetryStep

\* The bridge takes the next step of a burst.
CallStep == In("hispeed") /\ Step /\ UNCHANGED legacyVars

MCSpec == MCInit /\ [][MCNext]_mcvars /\ WF_mcvars(CallStep)

-----------------------------------------------------------------------------
\* A burst call returns, however often the bus fails and whatever is damaged
\* (adbg_wb_burst_read, adbg_wb_burst_write).
BurstsReturn == setting = "hispeed" => CallReturns

=============================================================================

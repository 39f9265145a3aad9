------------------------------ MODULE DebugUnits ------------------------------
(***************************************************************************)
(* What the commands of the two debug units promise, of which a target has *)
(* one (DEBUG_HARDWARE): the bursts of the advanced one (BurstTransfer)    *)
(* and the accesses of the legacy one (LegacyUnit), beside each other.     *)
(***************************************************************************)
EXTENDS BurstTransfer

CONSTANTS Chains, NUM_SOFT_RETRIES, MayFail, MaxCalls

VARIABLES
    lpc, lerr, ltap, lchain,  \* pc, err, tap, current_chain of LegacyUnit
    call, calls, got, desired_chain, soft_retry_no, ir, selected, prepared,
    word, ctrl

legacyVars == <<lpc, lerr, ltap, lchain, call, calls, got, desired_chain,
                soft_retry_no, ir, selected, prepared, word, ctrl>>

Legacy == INSTANCE LegacyUnit
            WITH pc <- lpc, err <- lerr, tap <- ltap, current_chain <- lchain

ASSUME LegacyUnitAssumption == Legacy!LegacyAssumption

\* With retries and without, an access to the legacy unit that returns no error
\* has done what it says (legacy_dbg_go, legacy_dbg_ctrl).
ResultIsTrue == Legacy!TypeOK /\ Legacy!ResultIsTrue

\* Whatever fails, an access changes nothing but what it was asked to; and while
\* the TAP is out of step none reaches the unit (legacy_dbg_set_chain and its
\* callers return without resetting it).
OnlyAsAsked == [][Legacy!AsAsked /\ Legacy!StaysLost]_legacyVars
=============================================================================

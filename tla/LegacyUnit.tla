------------------------------ MODULE LegacyUnit ------------------------------
(***************************************************************************)
(* The commands of the legacy debug unit (legacy_dbg_commands.c), as the   *)
(* accesses of dbg_api.c call them: select the chain; prepare a transfer   *)
(* and go, or write or read the control register.  Each is an exchange of  *)
(* streams that leaves the TAP in EXIT1_DR; after a failure a command may  *)
(* be tried again, or is given up with the TAP left where it is.           *)
(*                                                                         *)
(* A chain holds one word and one control register.  CRCs are modelled by  *)
(* whether they match; what comes from a unit that does not listen never   *)
(* has the right one.                                                      *)
(***************************************************************************)
EXTENDS Integers

CONSTANTS
    Chains,            \* DC_WISHBONE, DC_CPU0, DC_CPU1
    NUM_SOFT_RETRIES,  \* 0 in chain_commands.h
    MayFail,           \* bits of a stream flip
    MaxCalls           \* bound on the number of accesses

NoChain == "none"

LegacyAssumption ==
    /\ NUM_SOFT_RETRIES \in Nat /\ MaxCalls \in Nat
    /\ MayFail \in BOOLEAN
    /\ NoChain \notin Chains

Junk == -1
Kinds == {"read", "write", "ctrl", "ctrl_read"}

VARIABLES
    pc,             \* the function that runs, or "idle", "returned"
    call, calls,    \* the access, and how many there were
    got, err,       \* what it returns
    desired_chain, current_chain,
    soft_retry_no,
    tap,            \* state of the TAP
    ir,             \* the instruction: "debug" or "other"
    selected,       \* the unit: its chain,
    prepared,       \* for each chain the transfer that is prepared,
    word, ctrl      \* the word and the control register

callVars == <<call, calls, desired_chain>>
unitVars == <<selected, prepared, word, ctrl>>
vars == <<pc, callVars, got, err, current_chain, soft_retry_no, tap, ir, unitVars>>

None == [kind |-> "none", val |-> 0]

Init ==
    /\ pc = "idle"
    /\ call = [kind |-> "read", chain |-> NoChain, val |-> 0] /\ calls = 0
    /\ got = Junk /\ err = "NONE"
    /\ desired_chain = NoChain /\ current_chain = NoChain
    /\ soft_retry_no = 0
    /\ tap = "idle" /\ ir = "debug"
    /\ selected = NoChain
    /\ prepared = [c \in Chains |-> None]
    /\ word = [c \in Chains |-> 0] /\ ctrl = [c \in Chains |-> 0]

-----------------------------------------------------------------------------
(* The TAP.                                                                *)

\* tap_set_shift_dr(): TMS, and twice nothing.
SetShiftDr ==
    [idle |-> "shift_dr", exit1_dr |-> "idle", select_dr |-> "shift_ir",
     exit1_ir |-> "idle"]

\* Streams, with TMS at the last bit.
Streams == [shift_dr |-> "exit1_dr", idle |-> "select_dr", shift_ir |-> "exit1_ir"]

\* Where an exchange that fails leaves the TAP.
AfterFailure == Streams[SetShiftDr[tap]]

\* Leaving EXIT1_IR loads what was shifted through the instruction register.
IrAfter == IF tap = "exit1_ir" THEN "other" ELSE ir

\* The unit listens.
Heard == SetShiftDr[tap] = "shift_dr" /\ ir = "debug"

\* What becomes of an exchange: the unit finds the CRC wrong and says so in its
\* status, or it obeys and the answer is garbled, or there is no answer.
Outcomes ==
    IF ~Heard THEN {"silent"}
    ELSE IF MayFail THEN {"ok", "refused", "garbled"} ELSE {"ok"}

Obeyed(o) == o \in {"ok", "garbled"}

-----------------------------------------------------------------------------
(* The end of an exchange.                                                 *)

\* Mutant: CRCs are not compared.
StatusOnly(o) == o = "refused"

\* Mutant: the status is not looked at.
CrcOnly(o) == o \in {"garbled", "silent"}

\* "CRCs must match", "we should read expected status value".
Failed(o) == o # "ok"

Error(o) == IF o = "refused" THEN "BAD_PARAM" ELSE "CRC"

\* retry_do(): the TAP is reset and the debug instruction loaded again.
Retry ==
    /\ soft_retry_no < NUM_SOFT_RETRIES
    /\ soft_retry_no' = soft_retry_no + 1
    /\ tap' = "idle" /\ ir' = "debug"
    /\ UNCHANGED <<pc, err>>

\* A return without tap_exit_to_idle().
GiveUp(o) ==
    /\ pc' = "returned" /\ err' = Error(o)
    /\ tap' = AfterFailure /\ ir' = IrAfter
    /\ UNCHANGED soft_retry_no

\* tap_exit_to_idle() and retry_ok(): what comes next.
Succeed(next) ==
    /\ pc' = next
    /\ tap' = "idle" /\ ir' = IrAfter
    /\ soft_retry_no' = 0
    /\ UNCHANGED err

Conclude(o, next) ==
    IF ~Failed(o) THEN Succeed(next)
    ELSE IF soft_retry_no < NUM_SOFT_RETRIES THEN Retry
    ELSE GiveUp(o)

-----------------------------------------------------------------------------
(* The functions.                                                          *)

Function(kind) == IF kind \in {"read", "write"} THEN "command" ELSE kind

\* What is written: a new word, or the two bits "Reset, Stall".
Data(kind) == IF kind = "ctrl" THEN 0 .. 3 ELSE {calls + 1}

\* An access of dbg_api.c begins with legacy_dbg_set_chain().
Begin(kind, chain, val) ==
    /\ pc = "idle" /\ calls < MaxCalls
    /\ call' = [kind |-> kind, chain |-> chain, val |-> val]
    /\ calls' = calls + 1
    /\ desired_chain' = chain
    /\ pc' = "set_chain"
    /\ got' = Junk /\ err' = "NONE"
    /\ UNCHANGED <<current_chain, soft_retry_no, tap, ir, unitVars>>

AlreadySelected == current_chain = desired_chain

SelectedBefore ==
    /\ pc = "set_chain" /\ AlreadySelected
    /\ pc' = Function(call.kind)
    /\ UNCHANGED <<callVars, got, err, current_chain, soft_retry_no, tap, ir, unitVars>>

SetChain ==
    /\ pc = "set_chain" /\ ~AlreadySelected
    /\ \E o \in Outcomes :
         /\ selected' = IF Obeyed(o) THEN desired_chain ELSE selected
         /\ current_chain' = IF Failed(o) THEN NoChain ELSE desired_chain
         /\ Conclude(o, Function(call.kind))
    /\ UNCHANGED <<callVars, got, prepared, word, ctrl>>

\* The other functions select the desired chain again, whatever comes of it: it is
\* selected already.
Command ==
    /\ pc = "command" /\ current_chain = desired_chain
    /\ \E o \in Outcomes :
         /\ prepared' = IF Obeyed(o) /\ selected \in Chains
                        THEN [prepared EXCEPT ![selected] =
                                  [kind |-> call.kind, val |-> call.val]]
                        ELSE prepared
         /\ Conclude(o, "go")
    /\ UNCHANGED <<callVars, got, current_chain, selected, word, ctrl>>

\* The bits of legacy_dbg_ctrl(data & 2, data & 1), each sent as bit 0 of its
\* argument.
CtrlBits(data) ==
    LET reset == (data \div 2) * 2
        stall == data % 2
    IN  (reset % 2) * 2 + (stall % 2)

Ctrl ==
    /\ pc = "ctrl" /\ current_chain = desired_chain
    /\ \E o \in Outcomes :
         /\ ctrl' = IF Obeyed(o) /\ selected \in Chains
                    THEN [ctrl EXCEPT ![selected] = CtrlBits(call.val)] ELSE ctrl
         /\ Conclude(o, "returned")
    /\ UNCHANGED <<callVars, got, current_chain, selected, prepared, word>>

CtrlRead ==
    /\ pc = "ctrl_read" /\ current_chain = desired_chain
    /\ \E o \in Outcomes :
         /\ got' = IF o = "ok" /\ selected \in Chains THEN ctrl[selected] ELSE Junk
         /\ Conclude(o, "returned")
    /\ UNCHANGED <<callVars, current_chain, unitVars>>

\* The unit is to write.
Writes == Heard /\ selected \in Chains /\ prepared[selected].kind = "write"

\* The data of a write is there before its CRC is: it may be junk.  "No point in
\* re-trying without sending the command again first".
Go ==
    /\ pc = "go" /\ current_chain = desired_chain
    /\ \E o \in Outcomes :
         /\ \/ /\ Writes
               /\ word' = [word EXCEPT ![selected] =
                               IF Obeyed(o) THEN prepared[selected].val ELSE Junk]
               /\ got' = Junk
            \/ /\ ~Writes
               /\ got' = IF o = "ok" /\ selected \in Chains THEN word[selected] ELSE Junk
               /\ UNCHANGED word
         /\ IF Failed(o) THEN GiveUp(o) ELSE Succeed("returned")
    /\ UNCHANGED <<callVars, current_chain, selected, prepared, ctrl>>

End ==
    /\ pc = "returned"
    /\ pc' = "idle"
    /\ UNCHANGED <<callVars, got, err, current_chain, soft_retry_no, tap, ir, unitVars>>

\* No more accesses.
Stop == pc = "idle" /\ calls = MaxCalls /\ UNCHANGED vars

Step == SelectedBefore \/ SetChain \/ Command \/ Ctrl \/ CtrlRead \/ Go \/ End

Next ==
    \/ \E kind \in Kinds, chain \in Chains : \E val \in Data(kind) : Begin(kind, chain, val)
    \/ Step
    \/ Stop

Spec == Init /\ [][Next]_vars

-----------------------------------------------------------------------------
Values == 0 .. MaxCalls

TypeOK ==
    /\ pc \in {"idle", "set_chain", "command", "ctrl", "ctrl_read", "go", "returned"}
    /\ soft_retry_no \in 0 .. NUM_SOFT_RETRIES
    /\ tap \in {"idle", "exit1_dr", "select_dr", "exit1_ir"}
    /\ ir \in {"debug", "other"}
    /\ current_chain \in {NoChain, selected}
    /\ pc \in {"command", "ctrl", "ctrl_read", "go"} => current_chain = desired_chain
    /\ word \in [Chains -> Values \union {Junk}] /\ ctrl \in [Chains -> 0 .. 3]

\* An access that returns no error has done what it says, in the chain it names: of
\* a control register, the bit that stalls.
ResultIsTrue ==
    pc = "returned" /\ err = "NONE" =>
        CASE call.kind = "write"     -> word[call.chain] = call.val
          [] call.kind = "read"      -> got = word[call.chain]
          [] call.kind = "ctrl"      -> ctrl[call.chain] % 2 = call.val % 2
          [] call.kind = "ctrl_read" -> got = ctrl[call.chain]

\* Whatever fails, an access touches no chain but its own, reads change nothing,
\* and a transfer is the one that was asked for.
AsAsked ==
    \A c \in Chains :
        /\ word'[c] # word[c] =>
               /\ call.kind = "write" /\ call.chain = c
               /\ word'[c] \in {call.val, Junk}
        /\ ctrl'[c] # ctrl[c] =>
               call.kind = "ctrl" /\ call.chain = c /\ ctrl'[c] % 2 = call.val % 2

\* While the TAP is out of step no access reaches the unit, and nothing but a retry
\* brings it back: without retries it is lost for good.
StaysLost ==
    tap # "idle" =>
        /\ UNCHANGED unitVars
        /\ tap' # "idle" \/ soft_retry_no' > soft_retry_no
=============================================================================

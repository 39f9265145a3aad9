---------------------------- MODULE BurstTransfer -----------------------------
(***************************************************************************)
(* A burst of words to or from the Wishbone module (adv_dbg_commands.c):   *)
(* the command, the words with their CRC, and the error register, after    *)
(* which the words from the failed one on are transferred again.           *)
(*                                                                         *)
(* Words are counted from 0.  Word k of the data to be written is k; what  *)
(* an address holds before is Old(a).  With NUM_SOFT_RETRIES 0, as it is,  *)
(* retry_do() always refuses.                                              *)
(*                                                                         *)
(* A CRC protects the words, and nothing the rest: the command, the bit    *)
(* that says that the CRC of a write matched, and the error register.  One *)
(* of these that is damaged is seen by nobody; the model remembers it.     *)
(***************************************************************************)
EXTENDS Integers, Sequences

CONSTANTS
    HISPEED,         \* ADBG_OPT_HISPEED: all words in one stream
    XILINX,          \* global_xilinx_bscan
    Size,            \* words of the memory
    MAX_BUS_ERRORS,  \* 10 in the code
    MAX_STATUS,      \* MAX_READ_STATUS_WAIT: 100
    Faults,          \* what goes wrong
    MaxFaults        \* bound on how often, errors of the bus not counted

ASSUME BurstAssumption ==
    /\ {HISPEED, XILINX} \subseteq BOOLEAN
    /\ {Size, MAX_STATUS} \subseteq Nat \ {0}
    /\ {MAX_BUS_ERRORS, MaxFaults} \subseteq Nat
    /\ Faults \subseteq {"bus", "flip", "cable", "timeout", "busy"}

Addresses == 0 .. Size - 1
Old(a) == 100 + a
Junk == -1
NoAddress == -1

VARIABLES
    pc, fun, start, count,   \* the call
    data,         \* what a read has put into the caller's buffer
    i, addr,      \* word and address the next burst begins with
    polls,        \* status bits read in vain
    crc,          \* the CRC computed is the unit's
    bus_errors,   \* bus_error_retries
    current_chain,
    err,          \* errors to be returned
    tap,          \* state of the TAP
    unit,         \* the burst in the unit: its next address, words left
    error_reg,    \* address of its first bus error
    memory,
    garbled,      \* something that no CRC protects was damaged (model only)
    faults        \* faults so far

callVars == <<fun, start, count>>
vars == <<pc, callVars, data, i, addr, polls, crc, bus_errors, current_chain, err,
          tap, unit, error_reg, memory, garbled, faults>>

Init ==
    /\ pc = "command"
    /\ fun \in {"read", "write"}
    /\ start \in Addresses
    /\ count \in 1 .. Size - start
    /\ data = [k \in 0 .. count - 1 |-> Junk]
    /\ i = 0 /\ addr = start
    /\ polls = 0 /\ crc = TRUE /\ bus_errors = 0
    /\ current_chain = "DC_WISHBONE"
    /\ err = {}
    /\ tap = "idle"
    /\ unit = [addr |-> 0, left |-> 0]
    /\ error_reg = NoAddress
    /\ memory = [a \in Addresses |-> Old(a)]
    /\ garbled = FALSE
    /\ faults = 0

Fault(kind) == kind \in Faults /\ faults < MaxFaults /\ faults' = faults + 1

Return(e) == pc' = "returned" /\ err' = err \union e

\* The bridge is gone: exit(1), or a word beside the caller's buffer.
Exit == pc' = "exited" /\ err' = err

-----------------------------------------------------------------------------
(* The command.                                                            *)

\* "word_count-i in case of partial retry".
BurstLength == count - i

\* What Xilinx parts need before data can be shifted also forgets the module.
ChainAfterCommand == IF XILINX THEN "none" ELSE current_chain

\* Word by word, no word is left if the burst begins beyond the block.
AfterCommand ==
    IF ~HISPEED /\ i >= count THEN "crc" ELSE IF fun = "read" THEN "status" ELSE "write"

\* A command that is damaged is one for another burst, or for none; so is one with
\* a negative length, which runs into the address.
OtherBursts == {[addr |-> a, left |-> n] : a \in Addresses, n \in 0 .. Size}

\* adbg_burst_command(), and the way to the data: with a start bit, to write.
BurstCommand ==
    /\ pc = "command"
    /\ \/ /\ \/ /\ i <= count
                /\ unit' = [addr |-> addr, left |-> BurstLength]
                /\ UNCHANGED <<garbled, faults>>
             \/ /\ Fault("flip") \/ (i > count /\ UNCHANGED faults)
                /\ unit' \in OtherBursts
                /\ garbled' = TRUE
          /\ tap' = "shift_dr"
          /\ polls' = 0 /\ crc' = TRUE
          /\ current_chain' = IF fun = "read" THEN ChainAfterCommand ELSE current_chain
          /\ pc' = AfterCommand
          /\ UNCHANGED err
       \/ /\ Fault("cable")
          /\ Return({"COMM"})
          /\ UNCHANGED <<unit, tap, polls, crc, current_chain, garbled>>
    /\ UNCHANGED <<callVars, data, i, addr, bus_errors, error_reg, memory>>

-----------------------------------------------------------------------------
(* The unit: one word on the bus.                                          *)

\* The first bus error since it was reset is kept.
FirstError(a) == IF error_reg = NoAddress THEN a ELSE error_reg

\* Words that go over the bus for a stream of n, beginning with the burst.
OnBus(n) == IF n < unit.left THEN n ELSE unit.left

Advanced(n) == [addr |-> unit.addr + n, left |-> unit.left - n]

\* Reading n words: bad is the set of those that fail.
BusRead(n, bad) ==
    [k \in 0 .. n - 1 |->
        IF k < unit.left /\ k \notin bad /\ unit.addr + k \in Addresses
        THEN memory[unit.addr + k] ELSE Junk]

\* Writing the words from word first of the data on.
BusWrite(n, first, bad) ==
    [a \in Addresses |->
        IF a \in unit.addr .. unit.addr + OnBus(n) - 1 /\ a - unit.addr \notin bad
        THEN first + (a - unit.addr) ELSE memory[a]]

\* A bit of word k of a stream flips on its way to the unit.
WriteFlipped(n, first, k) ==
    [BusWrite(n, first, {}) EXCEPT ![unit.addr + k] = Junk]

\* What the error register may hold after a transfer of which the words bad fail.
ErrorAfter(bad) ==
    IF bad = {} THEN {error_reg}
    ELSE {FirstError(unit.addr + k) : k \in {k \in bad : \A l \in bad : k <= l}}

\* The words of a transfer of n that fail.
BusErrors(n) ==
    {bad \in SUBSET (0 .. OnBus(n) - 1) : bad # {} => "bus" \in Faults}

-----------------------------------------------------------------------------
(* adbg_wb_burst_read().                                                   *)

TimedOut(n) == n > MAX_STATUS

\* A status bit: whether the unit has a word.
PollStatus ==
    /\ pc = "status"
    /\ \/ /\ pc' = "read"
          /\ UNCHANGED <<polls, err>>
       \/ /\ polls < MAX_STATUS \/ "timeout" \in Faults
          /\ polls' = polls + 1
          /\ IF TimedOut(polls') THEN Return({"MAX_RETRY"})
                                    ELSE UNCHANGED <<pc, err>>
    /\ UNCHANGED <<callVars, data, i, addr, crc, bus_errors, current_chain, tap,
                   unit, error_reg, memory, garbled, faults>>

\* All words and the CRC in one stream, whatever the length of the burst.
ReadStream ==
    /\ pc = "read" /\ HISPEED
    /\ \/ \E bad \in BusErrors(count) :
            /\ data' = BusRead(count, bad)
            /\ crc' = (unit.left = count)
            /\ error_reg' \in ErrorAfter(bad)
            /\ unit' = Advanced(OnBus(count))
            /\ UNCHANGED <<faults, err>>
       \/ /\ data' = [k \in DOMAIN data |-> Junk]
          /\ crc' = FALSE
          /\ unit' = Advanced(OnBus(count))
          /\ \/ Fault("flip") /\ err' = err
             \/ Fault("cable") /\ err' = err \union {"COMM"}
          /\ UNCHANGED error_reg
    /\ pc' = "crc"
    /\ UNCHANGED <<callVars, i, addr, polls, bus_errors, current_chain, tap, memory,
                   garbled>>

\* One word; an error of the cable ends the burst.
ReadWord ==
    /\ pc = "read" /\ ~HISPEED
    /\ \/ \E bad \in BusErrors(1), flip \in BOOLEAN :
            /\ flip => "flip" \in Faults /\ faults < MaxFaults /\ bad = {}
            /\ data' = [data EXCEPT ![i] = IF flip THEN Junk ELSE BusRead(1, bad)[0]]
            /\ crc' = (crc /\ ~flip)
            /\ error_reg' \in ErrorAfter(bad)
            /\ unit' = Advanced(1)
            /\ i' = i + 1 /\ polls' = 0
            /\ pc' = IF i' < count THEN "status" ELSE "crc"
            /\ faults' = faults + (IF flip THEN 1 ELSE 0)
            /\ err' = err
       \/ /\ Fault("cable")
          /\ Return({"COMM", "MAX_RETRY"})
          /\ UNCHANGED <<data, crc, error_reg, unit, i, polls>>
       \/ /\ i < 0
          /\ Exit
          /\ UNCHANGED <<data, crc, error_reg, unit, i, polls, faults>>
    /\ UNCHANGED <<callVars, addr, bus_errors, current_chain, tap, memory, garbled>>

-----------------------------------------------------------------------------
(* adbg_wb_burst_write().                                                  *)

\* The words from the first one on, and their CRC, in one stream.
WriteStream ==
    /\ pc = "write" /\ HISPEED
    /\ \/ \E bad \in BusErrors(count) :
            /\ memory' = BusWrite(count, 0, bad)
            /\ error_reg' \in ErrorAfter(bad)
            /\ crc' = (unit.left = count)
            /\ UNCHANGED <<faults, err>>
       \/ /\ \E k \in 0 .. OnBus(count) - 1 : memory' = WriteFlipped(count, 0, k)
          /\ crc' = FALSE
          /\ \/ Fault("flip") /\ err' = err
             \/ Fault("cable") /\ err' = err \union {"COMM"}
          /\ UNCHANGED error_reg
    /\ unit' = Advanced(OnBus(count))
    /\ pc' = "crc"
    /\ UNCHANGED <<callVars, data, i, addr, polls, bus_errors, current_chain, tap,
                   garbled>>

\* The word a burst that was begun again goes on with.
NextWord == i

\* One word, and the status bit that says that the unit was ready for it.
WriteWord ==
    /\ pc = "write" /\ ~HISPEED
    /\ \/ /\ \/ \E bad \in BusErrors(1) :
                  /\ memory' = BusWrite(1, NextWord, bad)
                  /\ error_reg' \in ErrorAfter(bad)
                  /\ UNCHANGED <<faults, crc>>
             \/ /\ Fault("flip")
                /\ \E k \in 0 .. OnBus(1) - 1 : memory' = WriteFlipped(1, NextWord, k)
                /\ crc' = FALSE
                /\ UNCHANGED error_reg
          /\ unit' = Advanced(1)
          /\ i' = i + 1
          /\ pc' = IF i' < count THEN "write" ELSE "crc"
          /\ err' = err
       \/ /\ Fault("busy")
          /\ Exit
          /\ UNCHANGED <<memory, error_reg, unit, i, crc>>
       \/ /\ Fault("cable")
          /\ Return({"COMM", "MAX_RETRY"})
          /\ UNCHANGED <<memory, error_reg, unit, i, crc>>
       \/ /\ i < 0
          /\ Exit
          /\ UNCHANGED <<memory, error_reg, unit, i, crc, faults>>
    /\ UNCHANGED <<callVars, data, addr, polls, bus_errors, current_chain, tap, garbled>>

-----------------------------------------------------------------------------
(* The CRC and the error register.                                         *)

\* Mutant: a CRC that does not match is only reported.
CrcIgnored == TRUE

\* The unit sends its CRC when the burst is complete ...
ReadCrcMatches == crc /\ unit.left = 0

\* ... or compares the one it is sent.  If it expects more words it takes the CRC
\* for one; the bit that is read then, or after fewer words, is any.
WriteCrcMatches == crc /\ unit.left = 0

MatchBits == IF unit.left = 0 THEN {WriteCrcMatches} ELSE BOOLEAN

WithCrcWritten ==
    IF fun = "write" /\ unit.left > 0 THEN [memory EXCEPT ![unit.addr] = Junk] ELSE memory

Goes(match) ==
    /\ pc' = IF match THEN IF current_chain = "DC_WISHBONE" THEN "error" ELSE "returned"
             ELSE IF fun = "read" THEN "returned" ELSE "exited"
    /\ err' = IF ~match /\ fun = "read" THEN err \union {"CRC"} ELSE err

\* A CRC that does not match: a read returns, a write ends the bridge.
CheckCrc ==
    /\ pc = "crc"
    /\ tap' = "idle"
    /\ memory' = WithCrcWritten
    /\ \/ fun = "read" /\ Goes(ReadCrcMatches) /\ UNCHANGED <<garbled, faults>>
       \/ /\ fun = "write"
          /\ \E match \in MatchBits :
                \/ Goes(match) /\ UNCHANGED <<garbled, faults>>
                \/ Fault("flip") /\ Goes(~match) /\ garbled' = TRUE
    /\ UNCHANGED <<callVars, data, i, addr, polls, crc, bus_errors, current_chain,
                   unit, error_reg>>

\* Mutant: bus errors are not counted.
NotCounted == bus_errors

Counted == bus_errors + 1

\* Another burst, from the address the error register is said to hold.  "Don't call
\* retry_do(), a JTAG reset won't help a WB bus error".
BeginAgain(a) ==
    /\ addr' = a
    /\ i' = a - start
    /\ bus_errors' = Counted
    /\ IF bus_errors' > MAX_BUS_ERRORS THEN Return({"MAX_BUS_ERR"})
       ELSE pc' = "command" /\ err' = err

\* adbg_ctrl_read() of the error register, and adbg_ctrl_write() to reset it.  The
\* bit may be read as 0 when it is 1, or as 1, and the address or the reset may be
\* damaged.
ReadError ==
    /\ pc = "error"
    /\ \/ /\ error_reg = NoAddress
          /\ Return({})
          /\ UNCHANGED <<addr, i, bus_errors, error_reg, garbled, faults>>
       \/ /\ error_reg # NoAddress
          /\ BeginAgain(error_reg)
          /\ error_reg' = IF pc' = "command" THEN NoAddress ELSE error_reg
          /\ UNCHANGED <<garbled, faults>>
       \/ /\ Fault("flip") /\ garbled' = TRUE
          /\ \/ Return({}) /\ UNCHANGED <<addr, i, bus_errors, error_reg>>
             \/ /\ \E a \in Addresses : BeginAgain(a)
                /\ error_reg' \in {error_reg, NoAddress}
       \/ /\ Fault("cable")
          /\ Return({"COMM"})
          /\ UNCHANGED <<addr, i, bus_errors, error_reg, garbled>>
    /\ UNCHANGED <<callVars, data, polls, crc, current_chain, tap, unit, memory>>

Step ==
    \/ BurstCommand \/ PollStatus \/ ReadStream \/ ReadWord
    \/ WriteStream \/ WriteWord \/ CheckCrc \/ ReadError

Done == pc \in {"returned", "exited"} /\ UNCHANGED vars

Next == Step \/ Done

Spec == Init /\ [][Next]_vars

\* The caller is scheduled, and scans of the register end.
FairSpec == Spec /\ WF_vars(Step)

-----------------------------------------------------------------------------
Block == start .. start + count - 1

TypeOK ==
    /\ pc \in {"command", "status", "read", "write", "crc", "error", "returned",
               "exited"}
    /\ i \in Nat /\ addr \in Nat
    /\ polls \in 0 .. MAX_STATUS + 1
    /\ bus_errors \in 0 .. MAX_BUS_ERRORS + 1
    /\ unit.left \in 0 .. count
    /\ DOMAIN data = 0 .. count - 1
    /\ error_reg \in Nat \union {NoAddress}

Succeeded(f) == pc = "returned" /\ err = {} /\ fun = f

\* "read the error register, and retry/recompute as necessary".  A read that
\* returns no error has put into the buffer what the memory holds, whatever was
\* read again after errors.
ReadIsRight ==
    Succeeded("read") => \A k \in 0 .. count - 1 : data[k] = Old(start + k)

\* A write that returns no error has written every word of the block.
WriteIsRight ==
    Succeeded("write") => \A k \in 0 .. count - 1 : memory[start + k] = k

\* No burst, the first or another after an error, writes outside the block.
WriteStaysInside == \A a \in Addresses \ Block : memory[a] = Old(a)

\* "WB bus error during burst write, address 0x%lX (index 0x%X), retrying!":
\* if nothing else goes wrong, errors of the bus are made good as long as there
\* are not too many of them.  (In one stream all words are sent again from the
\* first, and if fewer are expected the CRC is wrong.)
BusErrorsAreRetried ==
    /\ pc \in {"returned", "exited"}
    /\ faults = 0 /\ ~TimedOut(polls) /\ crc
    /\ bus_errors <= MAX_BUS_ERRORS
    => pc = "returned" /\ err = {}

\* Although words are damaged, the bus and the cable fail and status bits do not
\* come, a burst that reports no error has read the memory or written every word,
\* and none writes outside its block; errors of the bus alone are made good
\* (adbg_wb_burst_read, adbg_wb_burst_write).  Nothing is said once the command,
\* the CRC's match bit or the error register was damaged: without a CRC of their
\* own (adbg_burst_command, adbg_ctrl_read) the code cannot tell.
BurstIsRight ==
    ~garbled =>
        /\ TypeOK
        /\ ReadIsRight
        /\ WriteIsRight
        /\ WriteStaysInside
        /\ BusErrorsAreRetried

\* A call returns, however often the bus fails and whatever is damaged.
CallReturns == <>(pc \in {"returned", "exited"})
=============================================================================

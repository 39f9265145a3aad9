------------------------------- MODULE TapChain -------------------------------
(***************************************************************************)
(* The JTAG chain (chain_commands.c): operations as the packets they send, *)
(* one per clock, and the chain that receives them: the TAP controller,    *)
(* the instruction registers and the data registers of all devices.        *)
(*                                                                         *)
(* Of the chain, the devices after the bridge's own towards TDO are the    *)
(* postfix, those before it the prefix.  A register is a sequence of bits, *)
(* the one that comes out next first; a word of the program is the set of  *)
(* its bits that are 1.                                                    *)
(***************************************************************************)
EXTENDS Integers, Sequences

CONSTANTS
    WORD,         \* bits of a word: 32 in the code
    Geometries,   \* lengths of the chain
    IDCODE, DEBUG, VIR,  \* instructions, as sets of bits
    DrLen,        \* bits of the debug unit's register
    VirLen,       \* bits of the virtual instruction register
    IdLen,        \* bits of an IDCODE: 32
    MayFail,      \* packets are lost
    MaxOps        \* bound on the number of operations

\* IR_size, IR_prefix, IR_postfix, DR_prefix and DR_postfix of chain_commands.c.
GeometryOK(g) ==
    /\ {g.size, g.pre, g.post, g.drpre, g.drpost} \subseteq Nat
    /\ g.size > 0

TapAssumption ==
    /\ {WORD, DrLen, VirLen, IdLen, MaxOps} \subseteq Nat \ {0}
    /\ \A g \in Geometries : GeometryOK(g)
    /\ IDCODE # DEBUG /\ VIR # DEBUG /\ VIR # IDCODE
    /\ MayFail \in BOOLEAN

VARIABLES
    geo,       \* the chain
    tap,       \* state of the TAP controllers
    ir,        \* instruction registers
    ir_shift,  \* the registers IR is shifted through
    dr,        \* data registers
    op,        \* the operation: its name and data
    queue,     \* packets it has yet to send
    got,       \* bits it has read
    captured,  \* what the selected register held when it was captured
    updated,   \* what it held when it was updated
    lost,      \* a packet was lost since the last reset
    err,       \* of the operation
    ops

opVars == <<op, queue, got, err, ops>>
vars == <<geo, tap, ir, ir_shift, dr, opVars, captured, updated, lost>>

-----------------------------------------------------------------------------
(* The chain.                                                              *)

\* The TAP controller of IEEE 1149.1: the state after a clock without and with
\* TMS.
TapNext ==
    [reset |-> <<"idle", "reset">>, idle |-> <<"idle", "select_dr">>,
     select_dr |-> <<"capture_dr", "select_ir">>,
     capture_dr |-> <<"shift_dr", "exit1_dr">>,
     shift_dr |-> <<"shift_dr", "exit1_dr">>,
     exit1_dr |-> <<"pause_dr", "update_dr">>,
     pause_dr |-> <<"pause_dr", "exit2_dr">>,
     exit2_dr |-> <<"shift_dr", "update_dr">>,
     update_dr |-> <<"idle", "select_dr">>,
     select_ir |-> <<"capture_ir", "reset">>,
     capture_ir |-> <<"shift_ir", "exit1_ir">>,
     shift_ir |-> <<"shift_ir", "exit1_ir">>,
     exit1_ir |-> <<"pause_ir", "update_ir">>,
     pause_ir |-> <<"pause_ir", "exit2_ir">>,
     exit2_ir |-> <<"shift_ir", "update_ir">>,
     update_ir |-> <<"idle", "select_dr">>]

Ones(n) == [i \in 1 .. n |-> 1]
Zeros(n) == [i \in 1 .. n |-> 0]

\* The n bits of a word, bit 0 first.
BitsOf(word, n) == [i \in 1 .. n |-> IF i - 1 \in word THEN 1 ELSE 0]

IrLen == geo.size + geo.pre + geo.post

Ours(regs) == SubSeq(regs, geo.post + 1, geo.post + geo.size)

\* The instruction registers with one of ours and BYPASS in all others.
Loaded(cmd) == Ones(geo.post) \o BitsOf(cmd, geo.size) \o Ones(geo.pre)

\* The register of our device that the instruction selects.
OwnLen ==
    CASE Ours(ir) = BitsOf(DEBUG, geo.size)  -> DrLen
      [] Ours(ir) = BitsOf(IDCODE, geo.size) -> IdLen
      [] Ours(ir) = BitsOf(VIR, geo.size)    -> VirLen
      [] OTHER                               -> 1

Own(n) == SubSeq(dr, geo.drpost + 1, geo.drpost + n)

Shift(reg, bit) == Append(Tail(reg), bit)

-----------------------------------------------------------------------------
(* Packets and streams.                                                    *)

Packet(tms, tdi, rd) == [tms |-> tms, tdi |-> tdi, rd |-> rd, trst |-> FALSE]
Zero == Packet(FALSE, 0, FALSE)
TMS == Packet(TRUE, 0, FALSE)
TRST == [Zero EXCEPT !.trst = TRUE]

Times(n, packet) == [i \in 1 .. n |-> packet]

Stream(data, rd, last) ==
    [i \in DOMAIN data |-> Packet(last /\ i = Len(data), data[i], rd)]

\* Mutant: TMS goes with the last bit of the data.
NoPrefix(data, rd) == Stream(data, rd, TRUE)

\* jtag_write_stream(), and the end of jtag_read_write_stream(): TMS goes past
\* the prefix.
WithTMS(data, rd) ==
    IF geo.drpre = 0 THEN Stream(data, rd, TRUE)
    ELSE Stream(data, rd, FALSE) \o Times(geo.drpre - 1, Zero) \o <<TMS>>

\* jtag_read_write_stream(): the postfix comes out first.
Burned == Times(geo.drpost, Zero)

\* tap_set_shift_dr(), from idle; tap_exit_to_idle(), from exit1.
SetShiftDr == <<TMS, Zero, Zero>>
ExitToIdle == <<TMS, Zero>>

\* tap_reset().
Reset == <<Zero>> \o Times(8, TMS) \o <<TRST, Zero>>

-----------------------------------------------------------------------------
(* tap_set_ir(): the words shifted into the instruction registers.         *)

Word == 0 .. WORD - 1

\* A count of WORD or more, undefined in C, is taken modulo WORD by the
\* processors the bridge runs on.
Left(word, n) == {i + (n % WORD) : i \in word} \intersect Word
Right(word, n) == {i - (n % WORD) : i \in word} \intersect Word

FirstWord(cmd, shift) ==
    Left(cmd, shift)
    \union (Word \ Left(Word, shift))
    \union Left(Word, shift + geo.size)

SecondWord(cmd, shift) ==
    Right(cmd, WORD - shift) \union Left(Word, geo.size - (WORD - shift))

IrChain(cmd) ==
    LET start == geo.post \div WORD
        shift == geo.post % WORD
    IN [w \in 0 .. IrLen \div WORD |->
          CASE w = start -> FirstWord(cmd, shift)
            [] w = start + 1 /\ shift + geo.size > WORD -> SecondWord(cmd, shift)
            [] OTHER -> Word]

IrStream(cmd) ==
    LET chain == IrChain(cmd) IN
    [i \in 1 .. IrLen |->
        IF (i - 1) % WORD \in chain[(i - 1) \div WORD] THEN 1 ELSE 0]

SetIr(cmd) ==
    <<TMS, TMS, Zero, Zero>> \o Stream(IrStream(cmd), FALSE, TRUE) \o <<TMS, Zero>>

-----------------------------------------------------------------------------
Init ==
    /\ geo \in Geometries
    /\ tap \in DOMAIN TapNext
    /\ ir = Loaded(IDCODE)
    /\ ir_shift = Ones(IrLen)
    /\ dr = Zeros(geo.drpost + IdLen + geo.drpre)
    /\ op = [name |-> "none", cmd |-> {}, data |-> <<>>]
    /\ queue = <<>> /\ got = <<>>
    /\ captured = <<>> /\ updated = <<>>
    /\ lost = TRUE
    /\ err = FALSE
    /\ ops = 0

Begin(name, cmd, data, packets) ==
    /\ queue = <<>> /\ ops < MaxOps
    /\ op' = [name |-> name, cmd |-> cmd, data |-> data]
    /\ queue' = packets
    /\ got' = <<>>
    /\ err' = FALSE
    /\ ops' = ops + 1
    /\ lost' = (lost /\ name # "reset")
    /\ UNCHANGED <<geo, tap, ir, ir_shift, dr, captured, updated>>

TapReset == Begin("reset", {}, <<>>, Reset)

\* tap_enable_debug_module(), for a TAP of its own.
EnableDebugModule == Begin("set_ir", DEBUG, <<>>, SetIr(DEBUG))

\* tap_enable_debug_module(), for a virtual TAP: the virtual instruction is the
\* data of a scan, and what is DEBUG here is then the virtual data register.
EnableVirtualModule ==
    \E data \in [1 .. VirLen -> {0, 1}] :
        Begin("virtual", DEBUG, data,
              SetIr(VIR) \o SetShiftDr \o WithTMS(data, FALSE) \o ExitToIdle
              \o SetIr(DEBUG))

\* A transaction of the debug unit that writes, or reads as it writes.  It is
\* made with the module enabled.
Write ==
    \E data \in [1 .. DrLen -> {0, 1}] :
        /\ OwnLen = DrLen
        /\ Begin("write", {}, data, SetShiftDr \o WithTMS(data, FALSE) \o ExitToIdle)

ReadWrite ==
    \E data \in [1 .. DrLen -> {0, 1}] :
        /\ OwnLen = DrLen
        /\ Begin("read", {}, data,
                 SetShiftDr \o Burned \o WithTMS(data, TRUE) \o ExitToIdle)

\* jtag_get_idcode().
GetIdcode ==
    Begin("idcode", IDCODE, <<>>,
          SetIr(IDCODE) \o SetShiftDr \o Burned \o WithTMS(Zeros(IdLen), TRUE)
          \o ExitToIdle)

-----------------------------------------------------------------------------
\* The chain at a clock: shift states shift, capture and update states act as
\* they are left.  A TAP without TRST takes that packet as one without TMS.
Clocked(p) ==
    /\ \/ tap' = TapNext[tap][IF p.tms THEN 2 ELSE 1]
       \/ p.trst /\ tap' = "reset"
    /\ ir' = CASE tap' = "reset" -> Loaded(IDCODE)
               [] tap = "update_ir" -> ir_shift
               [] OTHER -> ir
    /\ ir_shift' = IF tap = "shift_ir" THEN Shift(ir_shift, p.tdi) ELSE ir_shift
    /\ \/ /\ tap = "capture_dr"
          /\ \E v \in [1 .. OwnLen -> {0, 1}] :
                /\ captured' = v
                /\ dr' = Zeros(geo.drpost) \o v \o Zeros(geo.drpre)
       \/ /\ tap # "capture_dr"
          /\ dr' = IF tap = "shift_dr" THEN Shift(dr, p.tdi) ELSE dr
          /\ captured' = captured
    /\ updated' = IF tap = "update_dr" THEN Own(OwnLen) ELSE updated

\* cable_write_bit(), cable_read_write_bit(): the bit read is the one at the end
\* of the chain before the clock.  A packet is lost with an error, or without one:
\* a driver may not hear of it, or forget it.
Send ==
    LET p == Head(queue) IN
    /\ queue # <<>>
    /\ queue' = Tail(queue)
    /\ \/ /\ Clocked(p)
          /\ got' = IF p.rd THEN Append(got, Head(dr)) ELSE got
          /\ UNCHANGED <<lost, err>>
       \/ /\ MayFail
          /\ lost' = TRUE /\ err' \in {err, TRUE}
          /\ UNCHANGED <<tap, ir, ir_shift, dr, captured, updated, got>>
    /\ UNCHANGED <<geo, op, ops>>

\* All operations are made.
Done == queue = <<>> /\ ops = MaxOps /\ UNCHANGED vars

\* Nothing but a reset is done before the first one.
Operation ==
    \/ TapReset
    \/ /\ op.name # "none"
       /\ \/ EnableDebugModule \/ EnableVirtualModule
          \/ Write \/ ReadWrite \/ GetIdcode

Next == Operation \/ Send \/ Done

Spec == Init /\ [][Next]_vars

-----------------------------------------------------------------------------
TypeOK ==
    /\ geo \in Geometries
    /\ tap \in DOMAIN TapNext
    /\ Len(ir) = IrLen /\ Len(ir_shift) = IrLen
    /\ \A i \in DOMAIN dr : dr[i] \in {0, 1}
    /\ lost \in BOOLEAN /\ err \in BOOLEAN
    /\ err => lost

Ended(name) == queue = <<>> /\ ~lost /\ op.name = name

\* "In case we don't have TRST reset it manually": a reset of which no packet is
\* lost ends in idle, from any state of the TAP and with or without TRST, and
\* operations leave the TAP in the state that the next assumes.
InStep == queue = <<>> /\ ~lost => tap = "idle"

\* The instruction ends before its word does, and does not spill into the next.
Fits == (geo.post % WORD) + geo.size < WORD

\* "Adjust desired IR with prefix, postfix bits to set other devices in the
\* chain to BYPASS": BYPASS is in the registers of all other devices, and the
\* instruction in ours, unless it reaches the end of a word or spills into the
\* next.  Then the 1's put "back in MSB positions" are shifted by the whole width
\* of a word or more, and overwrite it.
IrIsLoaded ==
    Ended("set_ir") \/ Ended("virtual") =>
        /\ \A i \in 1 .. IrLen : i - geo.post \notin 1 .. geo.size => ir[i] = 1
        /\ Fits => Ours(ir) = BitsOf(op.cmd, geo.size)

\* The data written, and no bit of it more or less, is what our device's
\* register holds when it is updated, whatever is before and after it.
DataArrives ==
    Ended("write") \/ Ended("read") \/ (Ended("virtual") /\ Fits) => updated = op.data

\* "(they are shifted through before the read starts)": what is read is what
\* our device's register held.
ReadsOwnRegister ==
    Ended("read") \/ (Ended("idcode") /\ Fits) => got = captured
=============================================================================

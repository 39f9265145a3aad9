----------------------------- MODULE Watchpoints ------------------------------
(***************************************************************************)
(* Matchpoints of GDB and hardware watchpoints of the CPU: the RSP         *)
(* thread's Z and z packets (rsp-server.c), the HWP thread's p and P       *)
(* packets (hwp_server.c), and the array hwp_in_use which the two threads  *)
(* share without a lock.  The HWP client asks whether the target runs,     *)
(* then reads or writes registers, one packet each.  What it writes is up  *)
(* to its user, and it may write back a condition it has read at any time  *)
(* before: AdvancedWatchpointControl reads all registers and later writes  *)
(* all of them (mainControl.java).                                         *)
(*                                                                         *)
(* An access to the CPU is one step: dbg_access_mutex makes it so.  It     *)
(* succeeds; almost no caller here looks at the result.                    *)
(*                                                                         *)
(* A definition whose comment begins with "Mutant" is no part of the       *)
(* model, as in HardwareMonitor.tla.                                       *)
(***************************************************************************)
EXTENDS Integers, FiniteSets

CONSTANTS
    HWP_MAX_WP,   \* watchpoints the bridge keeps track of
    Present,      \* those the CPU has
    Addr,         \* addresses GDB uses
    Elsewhere,    \* any other address
    MatchTypes,   \* the types of matchpoint GDB uses, of enum mp_type
    Instrs,       \* instructions a program may have at an address
    TRAP,         \* OR1K_TRAP_INSTR
    NoEntry,      \* a key the table has no entry for
    Overlap       \* whether the HWP client may be served while GDB has
                  \* hardware matchpoints or is setting one

Wp == 0 .. HWP_MAX_WP - 1
NoWp == -1
NoKey == <<"none", Elsewhere>>
HardwareTypes == MatchTypes \ {"BP_MEMORY"}

ASSUME WatchpointsAssumption ==
    /\ HWP_MAX_WP \in Nat
    /\ Present \subseteq Wp
    /\ MatchTypes \subseteq {"BP_MEMORY", "BP_HARDWARE", "WP_WRITE",
                             "WP_READ", "WP_ACCESS"}
    /\ Elsewhere \notin Addr
    /\ Instrs # {}
    /\ TRAP \notin Instrs
    /\ NoEntry \notin Wp \union Instrs \union {TRAP}
    /\ Overlap \in BOOLEAN

VARIABLES
    hwp_in_use,   \* the shared array
    marked,       \* history: watchpoints of the CPU that were marked in it
                  \* since hwp_init() filled it in
    mp_hash,      \* per type and address: a watchpoint or an instruction
    program,      \* history: what GDB last wrote to each address
    overwritten,  \* history: addresses it wrote over an entry of the table
    memory,       \* what is there
    dvr, dcr,     \* per watchpoint: the address and the condition to match
    dmr1,         \* watchpoints chained to their neighbour
    dmr2,         \* watchpoints that generate breakpoints
    running,      \* whether GDB has resumed the target
    repeated,     \* history: whether GDB has set a matchpoint that was set
    rpc,          \* where the RSP thread is in a matchpoint packet
    key,          \* its type and address
    hwp,          \* its watchpoint
    regdata,      \* what it last read of DMR2 or DMR1
    hpc,          \* where the HWP thread is in a P packet
    dcridx, val,  \* the watchpoint and condition of that packet
    told,         \* whether the HWP client was told the target is stopped,
                  \* and is reading or writing registers
    seen          \* conditions of GDB's that it has read

regVars    == <<dvr, dcr, dmr1, dmr2>>
poolVars   == <<hwp_in_use, marked>>
memVars    == <<program, overwritten, memory>>
gdbVars    == <<running, repeated>>
rspVars    == <<rpc, key, hwp, regdata>>
hwpVars    == <<hpc, dcridx, val>>
clientVars == <<told, seen>>
vars == <<poolVars, mp_hash, memVars, regVars, gdbVars, rspVars, hwpVars,
          clientVars>>

Keys == MatchTypes \X Addr
HardwareKeys == HardwareTypes \X Addr

\* Values of a DCR: matching disabled, no such watchpoint (all bits zero), a
\* condition of the client's, or GDB's condition for a type of matchpoint.
Conditions == {"off", "absent", "client"} \union HardwareTypes

\* hwp_write_reg()'s test on the fields cc and ct.
Enables(v) == v \notin {"off", "absent"}

-----------------------------------------------------------------------------
(* hwp_init() reads the DCRs and writes none: a condition may be left from *)
(* before.  A watchpoint that is there is free whatever its condition, in  *)
(* use if the read failed; one that is missing is in use.  No client is    *)
(* connected yet.                                                          *)
Init ==
    /\ hwp_in_use \in [Wp -> BOOLEAN]
    /\ \A w \in Wp \ Present : hwp_in_use[w]
    /\ marked = {}
    /\ mp_hash = [k \in Keys |-> NoEntry]
    /\ program \in [Addr -> Instrs]
    /\ overwritten = {}
    /\ memory = program
    /\ dvr \in [Wp -> Addr \union {Elsewhere}]
    /\ dcr \in [Wp -> {"off", "client", "absent"}]
    /\ \A w \in Wp : dcr[w] = "absent" <=> w \notin Present
    /\ \A w \in Wp \ Present : dvr[w] = Elsewhere
    /\ dmr1 \in SUBSET Wp
    /\ dmr2 \in SUBSET Wp
    /\ running = FALSE
    /\ repeated = FALSE
    /\ rpc = "idle"
    /\ key = NoKey
    /\ hwp = NoWp
    /\ regdata = {}
    /\ hpc = "idle"
    /\ dcridx = NoWp
    /\ val = "off"
    /\ told = FALSE
    /\ seen = {}

-----------------------------------------------------------------------------
(* The RSP thread.  It serves matchpoint packets while the target is       *)
(* stopped.                                                                *)

GdbHasHardware == \E k \in HardwareKeys : mp_hash[k] # NoEntry

\* The handler returns; its local variables are gone.
Return ==
    /\ rpc' = "idle"
    /\ key' = NoKey
    /\ hwp' = NoWp
    /\ regdata' = {}

MayServeGdb == ~running /\ rpc = "idle"

\* Without Overlap, GDB sets and removes no hardware matchpoint while the HWP
\* thread is in a packet.
MayServeHardware == MayServeGdb /\ (Overlap \/ hpc = "idle")

\* Mutant: mp_hash_add() replaces the entry it finds.
Replace(k, v) == [mp_hash EXCEPT ![k] = v]

\* mp_hash_add(): an entry that is there stays as it is.
Add(k, v) == [mp_hash EXCEPT ![k] = IF @ = NoEntry THEN v ELSE @]

\* Z0: remember the instruction, put a trap in its place.
InsertMemory(a) ==
    LET k == <<"BP_MEMORY", a>> IN
    /\ MayServeGdb
    /\ k \in Keys
    /\ repeated' = (repeated \/ mp_hash[k] # NoEntry)
    /\ mp_hash' = Add(k, memory[a])
    /\ memory' = [memory EXCEPT ![a] = TRAP]
    /\ UNCHANGED <<poolVars, program, overwritten, regVars, running,
                   rspVars, hwpVars, clientVars>>

\* z0: put the instruction back.  (If there is no entry nothing changes.)
RemoveMemory(a) ==
    LET k == <<"BP_MEMORY", a>> IN
    /\ MayServeGdb
    /\ k \in Keys
    /\ mp_hash[k] # NoEntry
    /\ mp_hash' = [mp_hash EXCEPT ![k] = NoEntry]
    /\ memory' = [memory EXCEPT ![a] = mp_hash[k]]
    /\ UNCHANGED <<poolVars, program, overwritten, regVars, gdbVars,
                   rspVars, hwpVars, clientVars>>

\* M and X: GDB writes code.  The table is not looked at; it outlives a
\* client, so that GDB may write where an earlier one had a breakpoint.
WriteMemory(a, instr) ==
    LET k == <<"BP_MEMORY", a>> IN
    /\ MayServeGdb
    /\ program' = [program EXCEPT ![a] = instr]
    /\ overwritten' = IF k \in Keys /\ mp_hash[k] # NoEntry
                       THEN overwritten \union {a} ELSE overwritten \ {a}
    /\ memory' = [memory EXCEPT ![a] = instr]
    /\ UNCHANGED <<poolVars, mp_hash, regVars, gdbVars, rspVars, hwpVars,
                   clientVars>>

Unused == {w \in Wp : ~hwp_in_use[w]}

\* Z1 to Z4, from here to WriteDmr1: hwp_get_available_watchpoint() finds the
\* first watchpoint that is not in use (the loop is taken as one look at the
\* array).  If there is none GDB is told so, and nothing changes.
FindWatchpoint(k) ==
    /\ MayServeHardware
    /\ repeated' = (repeated \/ mp_hash[k] # NoEntry)
    /\ key' = k
    /\ \E w \in Unused : (\A v \in Unused : w <= v) /\ hwp' = w
    /\ rpc' = "take"
    /\ UNCHANGED <<poolVars, mp_hash, memVars, regVars, running, regdata,
                   hwpVars, clientVars>>

\* Mutant: hwp_get_available_watchpoint() does not mark what it returns.
TakeUnmarked ==
    /\ rpc = "take"
    /\ mp_hash' = Add(key, hwp)
    /\ rpc' = "dvr"
    /\ UNCHANGED <<poolVars, memVars, regVars, gdbVars, key, hwp, regdata,
                   hwpVars, clientVars>>

\* It marks the watchpoint, and mp_hash_add() records it.
TakeWatchpoint ==
    /\ rpc = "take"
    /\ hwp_in_use' = [hwp_in_use EXCEPT ![hwp] = TRUE]
    /\ marked' = marked \union ({hwp} \intersect Present)
    /\ mp_hash' = Add(key, hwp)
    /\ rpc' = "dvr"
    /\ UNCHANGED <<memVars, regVars, gdbVars, key, hwp, regdata, hwpVars,
                   clientVars>>

\* A write to the DVR or DCR of a watchpoint the CPU does not have is lost.
SetReg(reg, w, v) == IF w \in Present THEN [reg EXCEPT ![w] = v] ELSE reg

WriteDvr ==
    /\ rpc = "dvr"
    /\ dvr' = SetReg(dvr, hwp, key[2])
    /\ rpc' = "dcr"
    /\ UNCHANGED <<poolVars, mp_hash, memVars, dcr, dmr1, dmr2, gdbVars,
                   key, hwp, regdata, hwpVars, clientVars>>

WriteDcr ==
    /\ rpc = "dcr"
    /\ dcr' = SetReg(dcr, hwp, key[1])
    /\ rpc' = "readDmr2"
    /\ UNCHANGED <<poolVars, mp_hash, memVars, dvr, dmr1, dmr2, gdbVars,
                   key, hwp, regdata, hwpVars, clientVars>>

\* DMR2 and DMR1 are read, changed and written back.
ReadDmr2 ==
    /\ rpc = "readDmr2"
    /\ regdata' = dmr2 \union {hwp}
    /\ rpc' = "writeDmr2"
    /\ UNCHANGED <<poolVars, mp_hash, memVars, regVars, gdbVars, key, hwp,
                   hwpVars, clientVars>>

WriteDmr2 ==
    /\ rpc = "writeDmr2"
    /\ dmr2' = regdata
    /\ rpc' = "readDmr1"
    /\ UNCHANGED <<poolVars, mp_hash, memVars, dvr, dcr, dmr1, gdbVars,
                   key, hwp, regdata, hwpVars, clientVars>>

\* Mutant: the watchpoint stays chained.
ReadDmr1Chained ==
    /\ rpc = "readDmr1"
    /\ regdata' = dmr1
    /\ rpc' = "writeDmr1"
    /\ UNCHANGED <<poolVars, mp_hash, memVars, regVars, gdbVars, key, hwp,
                   hwpVars, clientVars>>

ReadDmr1 ==
    /\ rpc = "readDmr1"
    /\ regdata' = dmr1 \ {hwp}
    /\ rpc' = "writeDmr1"
    /\ UNCHANGED <<poolVars, mp_hash, memVars, regVars, gdbVars, key, hwp,
                   hwpVars, clientVars>>

WriteDmr1 ==
    /\ rpc = "writeDmr1"
    /\ dmr1' = regdata
    /\ Return
    /\ UNCHANGED <<poolVars, mp_hash, memVars, dvr, dcr, dmr2, gdbVars,
                   hwpVars, clientVars>>

\* z1 to z4, from here to ReturnWatchpoint: take the entry out and read DMR2
\* without the watchpoint.  (If there is no entry GDB is told OK.)
RemoveHardware(k) ==
    /\ MayServeHardware
    /\ mp_hash[k] # NoEntry
    /\ mp_hash' = [mp_hash EXCEPT ![k] = NoEntry]
    /\ key' = k
    /\ hwp' = mp_hash[k]
    /\ regdata' = dmr2 \ {mp_hash[k]}
    /\ rpc' = "clearDmr2"
    /\ UNCHANGED <<poolVars, memVars, regVars, gdbVars, hwpVars, clientVars>>

ClearDmr2 ==
    /\ rpc = "clearDmr2"
    /\ dmr2' = regdata
    /\ rpc' = "clearDcr"
    /\ UNCHANGED <<poolVars, mp_hash, memVars, dvr, dcr, dmr1, gdbVars,
                   key, hwp, regdata, hwpVars, clientVars>>

\* Mutant: DCR is left as it is, "this isn't strictly necessary".
KeepDcr ==
    /\ rpc = "clearDcr"
    /\ rpc' = "return"
    /\ UNCHANGED <<poolVars, mp_hash, memVars, regVars, gdbVars, key, hwp,
                   regdata, hwpVars, clientVars>>

ClearDcr ==
    /\ rpc = "clearDcr"
    /\ dcr' = SetReg(dcr, hwp, "off")
    /\ rpc' = "return"
    /\ UNCHANGED <<poolVars, mp_hash, memVars, dvr, dmr1, dmr2, gdbVars,
                   key, hwp, regdata, hwpVars, clientVars>>

\* hwp_return_watchpoint(): only complains if it is not in use.
ReturnWatchpoint ==
    /\ rpc = "return"
    /\ hwp_in_use' = [hwp_in_use EXCEPT ![hwp] = FALSE]
    /\ marked' = marked \union ({hwp} \intersect Present)
    /\ Return
    /\ UNCHANGED <<mp_hash, memVars, regVars, gdbVars, hwpVars, clientVars>>

\* c or s, and a stop.  RspSession models how they happen.
ResumeOrStop ==
    /\ rpc = "idle"
    /\ running' = ~running
    /\ UNCHANGED <<poolVars, mp_hash, memVars, regVars, repeated, rspVars,
                   hwpVars, clientVars>>

-----------------------------------------------------------------------------
(* The HWP client and the thread that serves it.  The client asks whether  *)
(* the target runs before a series of packets, not in between.             *)

MayServeClient ==
    /\ hpc = "idle"
    /\ Overlap \/ (rpc = "idle" /\ ~GdbHasHardware)

Asks ==
    /\ MayServeClient
    /\ ~told
    /\ ~running
    /\ told' = TRUE
    /\ UNCHANGED <<poolVars, mp_hash, memVars, regVars, gdbVars, rspVars,
                   hwpVars, seen>>

\* The series ends, or the connection does in the middle of it.
Ends ==
    /\ hpc = "idle"
    /\ told
    /\ told' = FALSE
    /\ UNCHANGED <<poolVars, mp_hash, memVars, regVars, gdbVars, rspVars,
                   hwpVars, seen>>

\* p packet, hwp_read_reg(), for a DCR.  What the client reads in the others
\* does not matter.  (Nothing sets use_cached_dmr2.)
ReadRegister(w) ==
    /\ MayServeClient
    /\ told
    /\ seen' = seen \union ({dcr[w]} \intersect HardwareTypes)
    /\ UNCHANGED <<poolVars, mp_hash, memVars, regVars, gdbVars, rspVars,
                   hwpVars, told>>

\* P packet, hwp_write_reg(), for a DVR, DMR1 or DMR2.
WriteRegister ==
    /\ MayServeClient
    /\ told
    /\ \/ /\ \E w \in Wp, a \in Addr \union {Elsewhere} :
               dvr' = SetReg(dvr, w, a)
          /\ UNCHANGED <<dmr1, dmr2>>
       \/ dmr1' \in SUBSET Wp /\ UNCHANGED <<dvr, dmr2>>
       \/ dmr2' \in SUBSET Wp /\ UNCHANGED <<dvr, dmr1>>
    /\ UNCHANGED <<poolVars, mp_hash, memVars, dcr, gdbVars, rspVars,
                   hwpVars, clientVars>>

\* P packet for a DCR, up to the answer.
WriteCondition(w, v) ==
    /\ MayServeClient
    /\ told
    /\ dcr' = SetReg(dcr, w, v)
    /\ hpc' = "mark"
    /\ dcridx' = w
    /\ val' = v
    /\ UNCHANGED <<poolVars, mp_hash, memVars, dvr, dmr1, dmr2, gdbVars,
                   rspVars, clientVars>>

\* Mutant: a watchpoint is marked when it is enabled, never unmarked.
MarkOnly ==
    /\ hpc = "mark"
    /\ hwp_in_use' = [hwp_in_use EXCEPT ![dcridx] = @ \/ Enables(val)]
    /\ marked' = marked \union ({dcridx} \intersect Present)
    /\ hpc' = "idle"
    /\ dcridx' = NoWp
    /\ val' = "off"
    /\ UNCHANGED <<mp_hash, memVars, regVars, gdbVars, rspVars, clientVars>>

\* The rest of hwp_write_reg() for a DCR: hwp_set_in_use().
MarkInUse ==
    /\ hpc = "mark"
    /\ hwp_in_use' = [hwp_in_use EXCEPT ![dcridx] = Enables(val)]
    /\ marked' = marked \union ({dcridx} \intersect Present)
    /\ hpc' = "idle"
    /\ dcridx' = NoWp
    /\ val' = "off"
    /\ UNCHANGED <<mp_hash, memVars, regVars, gdbVars, rspVars, clientVars>>

-----------------------------------------------------------------------------
RspStep ==
    \/ \E a \in Addr : InsertMemory(a)
    \/ \E a \in Addr : RemoveMemory(a)
    \/ \E a \in Addr, instr \in Instrs : WriteMemory(a, instr)
    \/ \E k \in HardwareKeys : FindWatchpoint(k)
    \/ TakeWatchpoint
    \/ WriteDvr
    \/ WriteDcr
    \/ ReadDmr2
    \/ WriteDmr2
    \/ ReadDmr1
    \/ WriteDmr1
    \/ \E k \in HardwareKeys : RemoveHardware(k)
    \/ ClearDmr2
    \/ ClearDcr
    \/ ReturnWatchpoint
    \/ ResumeOrStop

HwpStep ==
    \/ Asks
    \/ Ends
    \/ \E w \in Wp : ReadRegister(w)
    \/ WriteRegister
    \/ \E w \in Wp, v \in {"off", "client"} \union seen : WriteCondition(w, v)
    \/ MarkInUse

Next == RspStep \/ HwpStep

Spec == Init /\ [][Next]_vars

-----------------------------------------------------------------------------
(* Properties.                                                             *)

\* Every variable has its type.  In particular the table never records the
\* result -1 of hwp_get_available_watchpoint() as a watchpoint.
TypeOK ==
    /\ hwp_in_use \in [Wp -> BOOLEAN]
    /\ marked \subseteq Present
    /\ mp_hash \in [Keys -> Wp \union Instrs \union {TRAP, NoEntry}]
    /\ \A k \in Keys : IF k \in HardwareKeys
                        THEN mp_hash[k] \in Wp \union {NoEntry}
                        ELSE mp_hash[k] \in Instrs \union {TRAP, NoEntry}
    /\ program \in [Addr -> Instrs]
    /\ overwritten \subseteq Addr
    /\ memory \in [Addr -> Instrs \union {TRAP}]
    /\ dvr \in [Wp -> Addr \union {Elsewhere}]
    /\ dcr \in [Wp -> Conditions]
    /\ dmr1 \subseteq Wp
    /\ dmr2 \subseteq Wp
    /\ running \in BOOLEAN
    /\ repeated \in BOOLEAN
    /\ rpc \in {"idle", "take", "dvr", "dcr", "readDmr2", "writeDmr2",
                "readDmr1", "writeDmr1", "clearDmr2", "clearDcr", "return"}
    /\ IF rpc = "idle" THEN key = NoKey /\ hwp = NoWp
                       ELSE key \in HardwareKeys /\ hwp \in Wp
    /\ regdata \subseteq Wp
    /\ hpc \in {"idle", "mark"}
    /\ dcridx \in Wp \union {NoWp}
    /\ hpc = "mark" => dcridx \in Wp
    /\ val \in Conditions
    /\ told \in BOOLEAN
    /\ seen \subseteq HardwareTypes

\* A hardware watchpoint belongs to one matchpoint of GDB at most, and one
\* that does is in use, so that it is not granted again.
OwnedOnce ==
    \A k \in HardwareKeys : mp_hash[k] # NoEntry =>
        /\ hwp_in_use[mp_hash[k]]
        /\ \A j \in HardwareKeys : mp_hash[j] = mp_hash[k] => j = k

\* The registers of the watchpoint that GDB's matchpoint k has make it stop
\* the CPU there: address, condition, enabled, not chained to another.
Armed(k) ==
    LET w == mp_hash[k] IN
    /\ dvr[w] = k[2]
    /\ dcr[w] = k[1]
    /\ w \in dmr2 \ dmr1

\* Every hardware matchpoint GDB was told is set is armed and stays so, while
\* others are set and removed and whatever the client wrote before.
MatchpointsAreArmed ==
    \A k \in HardwareKeys :
        mp_hash[k] \in Present /\ k # key => Armed(k)

\* From the first time the bridge itself marks a watchpoint, because it grants
\* it or because the client writes its DCR, the mark is between packets true
\* of the hardware: in use exactly when the DCR has a condition.  (What
\* hwp_init() fills in need not be, nor the mark of a watchpoint that is
\* missing: a client may free it.)
PoolIsTrue ==
    rpc = "idle" /\ hpc = "idle" =>
        \A w \in marked :
            hwp_in_use[w] <=> Enables(dcr[w])

\* As long as GDB sets no matchpoint that is set, between packets each
\* watchpoint the bridge has marked as in use has a user, who can give it
\* back: a matchpoint of GDB, or the client
\* (hwp_get_available_watchpoint, hwp_return_watchpoint).
NothingIsLostOnce ==
    ~repeated /\ rpc = "idle" /\ hpc = "idle" =>
        \A w \in marked : hwp_in_use[w] =>
            dcr[w] = "client" \/ \E k \in HardwareKeys : mp_hash[k] = w

\* Memory holds a trap where GDB has a memory breakpoint and the table the
\* instruction it replaced; everywhere else memory holds the program.  Z0
\* may be repeated.  It is so wherever GDB has not written over an address
\* that had an entry of the table: mp_hash outlives a client, and what a later
\* one loads there is replaced by the older instruction at z0.
ProgramIsKept ==
    \A a \in Addr \ overwritten :
        LET k == <<"BP_MEMORY", a>> IN
        IF k \in Keys /\ mp_hash[k] # NoEntry
        THEN memory[a] = TRAP /\ mp_hash[k] = program[a]
        ELSE memory[a] = program[a]

=============================================================================

----------------------------- MODULE DebugAccess ------------------------------
(***************************************************************************)
(* The debug API (dbg_api.c): threads that access modules of the debug     *)
(* unit, one at a time under dbg_access_mutex, and what is kept from one   *)
(* access to the next: the module and the registers believed selected      *)
(* (adv_dbg_commands.c, legacy_dbg_commands.c).                            *)
(*                                                                         *)
(* A step of the holder of the mutex is one scan of the data register.     *)
(* How a scan works is the subject of TapChain.tla and BurstTransfer.tla.  *)
(* Each module of the unit holds MaxLen words.                             *)
(***************************************************************************)
EXTENDS Integers, Sequences

CONSTANTS
    Thread,
    Value,            \* what a word may be
    MaxLen,           \* bound on the words of a block
    Calls,            \* the calls the threads make
    DEBUG_HARDWARE,   \* which unit the bridge is compiled for
    NoOne,
    MayFail           \* whether scans fail

Modules == {"DC_WISHBONE", "DC_CPU0", "DC_CPU1", "DC_JSP"}

\* The functions of the API: the module in the name of a function, the one it
\* selects, what it does there, and to how many words.
Function(unit, selects, does, lens) ==
    [unit : {unit}, selects : {selects}, does : does, len : lens]

WishboneSingle == Function("DC_WISHBONE", "DC_WISHBONE", {"read", "write"}, {1})

WishboneReadBlock == Function("DC_WISHBONE", "DC_WISHBONE", {"read"}, 0 .. MaxLen)

WishboneWriteBlock == Function("DC_WISHBONE", "DC_WISHBONE", {"write"}, 0 .. MaxLen)

Cpu0Registers == Function("DC_CPU0", "DC_CPU0", {"read", "write"}, 1 .. MaxLen)

Cpu0Control == Function("DC_CPU0", "DC_CPU0", {"read_ctrl", "write_ctrl"}, {1})

Cpu1Read == Function("DC_CPU1", "DC_CPU1", {"read"}, {1})

\* Of the legacy unit it selects the module named.
Cpu1Write ==
    Function("DC_CPU1",
             IF DEBUG_HARDWARE = "advanced" THEN "DC_CPU0" ELSE "DC_CPU1",
             {"write"}, {1})

Cpu1Control == Function("DC_CPU1", "DC_CPU1", {"read_ctrl", "write_ctrl"}, {1})

SerialTransact == Function("DC_JSP", "DC_JSP", {"transact"}, {1})

Functions ==
    UNION {WishboneSingle, WishboneReadBlock, WishboneWriteBlock, Cpu0Registers,
           Cpu0Control, Cpu1Read, Cpu1Write, Cpu1Control, SerialTransact}

ASSUME AccessAssumption ==
    /\ DEBUG_HARDWARE \in {"advanced", "legacy"}
    /\ MaxLen \in Nat \ {0}
    /\ Calls \subseteq Functions
    /\ \E f \in Calls : f.len > 0
    /\ NoOne \notin Thread
    /\ Value # {}
    /\ MayFail \in BOOLEAN

VARIABLES
    pc,              \* where each thread is
    call,            \* the function it is in, and the value it writes
    index,           \* words of the call that are done
    read,            \* the words it has read
    holder,          \* of dbg_access_mutex
    current_chain, desired_chain,
    current_reg_idx, \* modules whose register is believed selected
    module_id,       \* the module the hardware has selected
    words,           \* what the modules hold
    whole            \* history: every call so far was made in one burst, and
                     \* no scan has failed

callVars == <<call, index, read>>
cacheVars == <<current_chain, desired_chain, current_reg_idx>>
unitVars == <<module_id, words>>
vars == <<pc, callVars, holder, cacheVars, unitVars, whole>>

Uninitialized == CHOOSE v \in Value : TRUE

NoCall == [fun |-> CHOOSE f \in Calls : f.len > 0, value |-> Uninitialized]

Init ==
    /\ pc = [t \in Thread |-> "idle"]
    /\ call = [t \in Thread |-> NoCall]
    /\ index = [t \in Thread |-> 0]
    /\ read = [t \in Thread |-> <<>>]
    /\ holder = NoOne
    /\ current_chain = "none" /\ desired_chain = "none"
    /\ current_reg_idx = {}
    /\ module_id = "DC_WISHBONE"
    /\ words = [m \in Modules |-> [a \in 1 .. MaxLen |-> Uninitialized]]
    /\ whole = TRUE

Goto(t, place) == pc' = [pc EXCEPT ![t] = place]

WritingCalls == {"write", "write_ctrl", "transact"}
ReadingCalls == {"read", "read_ctrl", "transact"}
Writes(t) == call[t].fun.does \in WritingCalls
Reads(t) == call[t].fun.does \in ReadingCalls

-----------------------------------------------------------------------------
(* The API.                                                                *)

\* Blocks of registers go to the legacy unit one register at a time.
OneByOne(f) == DEBUG_HARDWARE = "legacy" /\ f.unit = "DC_CPU0"

\* A block of no words returns at once.
Call(t) ==
    \E f \in Calls, v \in Value :
        /\ pc[t] = "idle"
        /\ f.len > 0
        /\ f.does \notin WritingCalls => v = Uninitialized
        /\ call' = [call EXCEPT ![t] = [fun |-> f, value |-> v]]
        /\ index' = [index EXCEPT ![t] = 0]
        /\ read' = [read EXCEPT ![t] = <<>>]
        /\ Goto(t, "lock")
        /\ whole' = (whole /\ (OneByOne(f) => f.len = 1))
        /\ UNCHANGED <<holder, cacheVars, unitVars>>

\* Mutant: the mutex does not keep threads out.
LockAnyway(t) ==
    /\ pc[t] = "lock"
    /\ holder' = t
    /\ Goto(t, "select")
    /\ UNCHANGED <<callVars, cacheVars, unitVars, whole>>

\* pthread_mutex_lock().
Lock(t) ==
    /\ pc[t] = "lock"
    /\ holder = NoOne
    /\ holder' = t
    /\ Goto(t, "select")
    /\ UNCHANGED <<callVars, cacheVars, unitVars, whole>>

Finished(t, n) == n >= call[t].fun.len

\* Mutant: the call is made again with the mutex still locked.
RepeatLocked(t) ==
    /\ pc[t] = "unlock"
    /\ index' = [index EXCEPT ![t] = 0]
    /\ read' = [read EXCEPT ![t] = <<>>]
    /\ Goto(t, "select")
    /\ UNCHANGED <<call, holder, cacheVars, unitVars, whole>>

\* cable_flush() and pthread_mutex_unlock().
Unlock(t) ==
    /\ pc[t] = "unlock"
    /\ holder' = NoOne
    /\ Goto(t, IF Finished(t, index[t]) THEN "idle" ELSE "lock")
    /\ UNCHANGED <<callVars, cacheVars, unitVars, whole>>

-----------------------------------------------------------------------------
(* The debug unit.                                                         *)

\* A scan fails: an error is reported, whether or not the unit has seen it
\* (what it has seen is up to the scan).  Words not read stay uninitialized.
Fails(t) ==
    LET n == IF OneByOne(call[t].fun) THEN index[t] + 1 ELSE call[t].fun.len IN
    /\ MayFail
    /\ index' = [index EXCEPT ![t] = n]
    /\ read' = [read EXCEPT ![t] =
                   IF Reads(t) THEN [a \in 1 .. n |-> IF a \in DOMAIN @ THEN @[a]
                                                     ELSE Uninitialized]
                               ELSE @]
    /\ whole' = FALSE
    /\ Goto(t, "unlock")

\* It succeeds, or all that it would do to the unit is in doubt.
Scan(t, place) ==
    \/ Goto(t, place) /\ UNCHANGED <<index, read, whole>>
    \/ Fails(t)

\* Mutant: any selection will do.
AnySelected(chain) == current_chain # "none"

Cached(chain) == current_chain = chain

\* The scan after the selection.
FirstScan(t) ==
    CASE call[t].fun.does \in {"read", "write"} -> "command"
      [] call[t].fun.does = "read_ctrl" /\ DEBUG_HARDWARE = "advanced"
           /\ call[t].fun.selects \notin current_reg_idx -> "register"
      [] OTHER -> "words"

\* What is believed selected after an error.
AfterFailedSelect(chain) ==
    IF DEBUG_HARDWARE = "advanced" THEN chain ELSE "none"

\* adbg_select_module(), legacy_dbg_set_chain().
Select(t) ==
    LET chain == call[t].fun.selects IN
    /\ pc[t] = "select"
    /\ desired_chain' = IF DEBUG_HARDWARE = "advanced" /\ Cached(chain)
                        THEN desired_chain ELSE chain
    /\ \/ /\ Cached(chain)
          /\ Goto(t, FirstScan(t))
          /\ UNCHANGED <<index, read, whole, current_chain, module_id>>
       \/ /\ ~Cached(chain)
          /\ Goto(t, FirstScan(t))
          /\ module_id' = chain
          /\ current_chain' = chain
          /\ UNCHANGED <<index, read, whole>>
       \/ /\ ~Cached(chain)
          /\ Fails(t)
          /\ module_id' \in {module_id, chain}
          /\ current_chain' = AfterFailedSelect(chain)
    /\ UNCHANGED <<call, holder, current_reg_idx, words>>

\* adbg_select_ctrl_reg(): the register is believed selected even after an
\* error.
SelectRegister(t) ==
    /\ pc[t] = "register"
    /\ Scan(t, "words")
    /\ current_reg_idx' = current_reg_idx \union {current_chain}
    /\ UNCHANGED <<call, holder, current_chain, desired_chain, unitVars>>

\* adbg_burst_command(), legacy_dbg_command().
Command(t) ==
    /\ pc[t] = "command"
    /\ Scan(t, "words")
    /\ UNCHANGED <<call, holder, cacheVars, unitVars>>

\* What a call does after n words.
NextScan(t, n) ==
    CASE ~Finished(t, n) /\ ~OneByOne(call[t].fun) -> "words"
      [] Finished(t, n) /\ DEBUG_HARDWARE = "advanced"
           /\ call[t].fun.selects = "DC_WISHBONE" -> "error"
      [] OTHER -> "unlock"

\* The next word of a burst, of legacy_dbg_go(), of a control register or of
\* the serial port.
Transfer(t) ==
    LET n == index[t] + 1
        into == IF Writes(t) THEN [words EXCEPT ![module_id][n] = call[t].value]
                             ELSE words
    IN /\ pc[t] = "words"
       /\ current_reg_idx' = IF call[t].fun.does = "write_ctrl"
                               /\ DEBUG_HARDWARE = "advanced"
                             THEN current_reg_idx \union {current_chain}
                             ELSE current_reg_idx
       /\ \/ /\ words' = into
             /\ index' = [index EXCEPT ![t] = n]
             /\ read' = IF Reads(t)
                        THEN [read EXCEPT ![t] = Append(@, words[module_id][n])]
                        ELSE read
             /\ Goto(t, NextScan(t, n))
             /\ whole' = whole
          \/ /\ words' \in {words, into}
             /\ Fails(t)
       /\ UNCHANGED <<call, holder, current_chain, desired_chain, module_id>>

\* After a burst, the error register of the Wishbone module, selected first if
\* need be.
ReadError(t) ==
    /\ pc[t] = "error"
    /\ Scan(t, "unlock")
    /\ current_reg_idx' = current_reg_idx \union {current_chain}
    /\ UNCHANGED <<call, holder, current_chain, desired_chain, unitVars>>

HolderStep(t) ==
    \/ Select(t)
    \/ SelectRegister(t)
    \/ Command(t)
    \/ Transfer(t)
    \/ ReadError(t)
    \/ Unlock(t)

Next == \E t \in Thread : Call(t) \/ Lock(t) \/ HolderStep(t)

Spec == Init /\ [][Next]_vars

\* A thread that holds the mutex is scheduled.
FairSpec == Spec /\ \A t \in Thread : WF_vars(HolderStep(t))

-----------------------------------------------------------------------------
Inside == {"select", "register", "command", "words", "error", "unlock"}

\* Everything has its type; the words of a call stay in its block, and only
\* the holder of the mutex is inside the API.
TypeOK ==
    /\ pc \in [Thread -> {"idle", "lock"} \union Inside]
    /\ call \in [Thread -> [fun : Functions, value : Value]]
    /\ \A t \in Thread : /\ index[t] \in 0 .. call[t].fun.len
                         /\ read[t] \in Seq(Value)
                         /\ Len(read[t]) <= index[t]
    /\ holder \in Thread \union {NoOne}
    /\ \A t \in Thread : pc[t] \in Inside <=> holder = t
    /\ current_chain \in Modules \union {"none"}
    /\ desired_chain \in Modules \union {"none"}
    /\ current_reg_idx \subseteq Modules
    /\ module_id \in Modules
    /\ words \in [Modules -> [1 .. MaxLen -> Value]]
    /\ whole \in BOOLEAN

\* chain_commands.c: "Currently selected scan chain in the debug unit - just to
\* prevent unnecessary transfers".  The module believed selected, which calls
\* of other threads find, is the one the unit has selected.
CacheIsTrue == current_chain # "none" => module_id = current_chain

\* dbg_api.c: "CPU1 Functions".  Whatever a call does, it does to the module in
\* the name of its function, whichever module another thread used before.
ReachesNamedModule ==
    \A t \in Thread :
        pc[t] \in {"register", "command", "words", "error"} =>
            module_id = call[t].fun.unit

\* The mutex is always released again, on the ways out after an error too.
LockIsReleased == \A t \in Thread : holder = t ~> holder # t

-----------------------------------------------------------------------------
(* As long as calls are whole they are atomic: a block is written or read  *)
(* as if at its first word.                                                *)

\* The holder of the mutex has begun to write, and will write this word too.
Writing(m, a) ==
    LET t == holder IN
    /\ t # NoOne
    /\ pc[t] = "words" /\ index[t] > 0 /\ Writes(t)
    /\ call[t].fun.unit = m /\ a <= call[t].fun.len

AbstractWords ==
    [m \in Modules |-> [a \in 1 .. MaxLen |->
        IF Writing(m, a) THEN call[holder].value ELSE words[m][a]]]

AbstractRead ==
    [t \in Thread |->
        IF index[t] = 0 \/ ~Reads(t) THEN <<>>
        ELSE [a \in 1 .. call[t].fun.len |->
                 IF a <= index[t] THEN read[t][a]
                 ELSE words[call[t].fun.unit][a]]]

AbstractStage ==
    [t \in Thread |-> IF pc[t] = "idle" THEN "idle"
                      ELSE IF index[t] = 0 THEN "called" ELSE "done"]

Atomic ==
    INSTANCE AtomicUnit
        WITH Module <- Modules, Calls <- Functions,
             words <- AbstractWords, read <- AbstractRead,
             stage <- AbstractStage

\* dbg_api.c: threads see the debug unit as memory that each of their calls
\* accesses in one step, until a call is made in several parts or a scan
\* fails.
ImplementsAtomicUnit ==
    /\ Atomic!Init
    /\ [][whole' => Atomic!Next]_(Atomic!vars)
=============================================================================

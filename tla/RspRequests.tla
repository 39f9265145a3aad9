----------------------------- MODULE RspRequests ------------------------------
(***************************************************************************)
(* What GDB's requests do to the registers of the CPU and what GDB is told *)
(* (rsp-server.c: the handlers of p P g G c s R vRun and qRcmd, the part   *)
(* of handle_rsp that looks for the cause of a stop, and the copy of the   *)
(* NPC kept because the CPU shows 0 after a write of it).                  *)
(*                                                                         *)
(* The RSP thread touches registers only while the target stands still,    *)
(* and only then does GDB send requests: RspSession is about that, and a   *)
(* handler is one step here.  A word has two digits instead of eight; of   *)
(* the general registers there is one, the first.                          *)
(***************************************************************************)
EXTENDS Integers

CONSTANTS
    Base,         \* values of a digit
    Breakpoints,  \* memory breakpoints in mp_hash
    MayFail,      \* whether accesses to the CPU may fail
    Kinds         \* requests GDB sends: see Next

ASSUME RequestAssumption ==
    /\ Base \in Nat \ {0}
    /\ Breakpoints \subseteq 0..(Base * Base - 1)
    /\ MayFail \in BOOLEAN
    /\ Kinds \subseteq {"p", "P", "g", "G", "c", "s", "R", "D",
                     "readspr", "writespr"}

VARIABLES
    gpr, npc, ppc,   \* the registers,
    hidden,          \* whether the NPC was written and reads 0 until an
                     \* instruction is executed,
    drr, wbs,        \* cause of a stop, and "a watchpoint has hit" in DMR2
    cpu,             \* "stopped", "stopping" ("H" is on its way), "running",
                     \* "stepping"
    cause,           \* why the CPU stopped last
    use_cached_npc, cached_npc, sigval, client_waiting,
    client,          \* whether there is a client
    answer,          \* the last thing GDB was told, as long as nothing changes
                     \* (history: and whether it rests on an access that failed)
    undisturbed      \* history: no access has failed, set_npc() alone has
                     \* written the NPC, and GDB has not detached

cpuVars == <<gpr, npc, ppc, hidden, drr, wbs, cpu, cause>>
rspVars == <<use_cached_npc, cached_npc, sigval, client_waiting, client>>
vars == <<cpuVars, rspVars, answer, undisturbed>>

Words == 0..(Base * Base - 1)
After(p) == (p + 1) % (Base * Base)
Registers == {"gpr", "npc", "ppc"}
Drrs == {"none", "trap", "illegal", "several"}
Causes == {"break", "step", "memory", "hardware", "illegal", "several"}

\* EXCEPT_RESET, which rsp.start_addr never changes from.
StartAddr == 0

Outcomes == IF MayFail THEN BOOLEAN ELSE {TRUE}

\* What a word that is read holds: anything if the read failed.
ReadWord(ok, value, words) == IF ok THEN {value} ELSE words

Answer(kind, reg, value, failed) ==
    [kind |-> kind, reg |-> reg, value |-> value, failed |-> failed]

Told(kind, reg, value) == answer' = Answer(kind, reg, value, FALSE)
ToldError == Told("E01", "none", 0)
ToldNothing == Told("none", "none", 0)

Stopped == client /\ cpu = "stopped"

-----------------------------------------------------------------------------
(* Registers.                                                              *)

Content(reg) == CASE reg = "gpr" -> gpr
                  [] reg = "ppc" -> ppc
                  [] reg = "npc" -> IF hidden THEN 0 ELSE npc

\* Mutant: the copy is not kept.
SetNpcUncached(addr, ok) ==
    /\ npc' = IF ok THEN addr ELSE npc
    /\ hidden' = (hidden \/ ok)
    /\ UNCHANGED <<use_cached_npc, cached_npc>>

\* set_npc(): the copy is kept whether or not the write succeeds.
SetNpc(addr, ok) ==
    /\ npc' = IF ok THEN addr ELSE npc
    /\ hidden' = (hidden \/ ok)
    /\ cached_npc' = addr
    /\ use_cached_npc' = TRUE

ReadReg(reg, ok) ==
    /\ Stopped
    /\ IF reg = "npc" /\ use_cached_npc
       THEN Told("value", reg, cached_npc)
       ELSE IF ok THEN Told("value", reg, Content(reg)) ELSE ToldError
    /\ UNCHANGED <<cpuVars, rspVars>>

\* Mutant: the result of the write is not looked at.
WriteRegUnchecked(reg, value, ok) ==
    /\ Stopped
    /\ IF reg = "npc" THEN SetNpc(value, ok)
       ELSE UNCHANGED <<npc, hidden, cached_npc, use_cached_npc>>
    /\ gpr' = IF reg = "gpr" /\ ok THEN value ELSE gpr
    /\ ppc' = IF reg = "ppc" /\ ok THEN value ELSE ppc
    /\ Told("OK", reg, value)
    /\ UNCHANGED <<drr, wbs, cpu, cause, sigval, client_waiting, client>>

WriteReg(reg, value, ok) ==
    /\ Stopped
    /\ IF reg = "npc" THEN SetNpc(value, ok)
       ELSE UNCHANGED <<npc, hidden, cached_npc, use_cached_npc>>
    /\ gpr' = IF reg = "gpr" /\ ok THEN value ELSE gpr
    /\ ppc' = IF reg = "ppc" /\ ok THEN value ELSE ppc
    /\ IF ok THEN Told("OK", reg, value) ELSE ToldError
    /\ UNCHANGED <<drr, wbs, cpu, cause, sigval, client_waiting, client>>

\* All registers, in two bursts; reg is one of those GDB is told.
ReadAll(reg, ok1, ok2) ==
    /\ Stopped
    /\ IF ok1 /\ ok2
       THEN Told("value", reg, IF reg = "npc" /\ use_cached_npc THEN cached_npc
                               ELSE Content(reg))
       ELSE ToldError
    /\ UNCHANGED <<cpuVars, rspVars>>

\* hex2reg() on the digits of a "G" packet, where the letter is taken for the
\* first digit: a word gets the last digit of the word before it, before, and
\* all but its own last.
Shifted(word, before) == (before % Base) * Base + word \div Base

\* All registers, in two bursts: the copy of the NPC is left as it was.  The
\* letter, as a digit, is all ones.
WriteAll(value, at, addr, ok1, ok2) ==
    /\ Stopped
    /\ gpr' = IF ok1 THEN Shifted(value, Base - 1) ELSE gpr
    /\ \E before \in 0..(Base - 1) : ppc' = IF ok2 THEN Shifted(at, before) ELSE ppc
    /\ npc' = IF ok2 THEN Shifted(addr, at) ELSE npc
    /\ hidden' = (hidden \/ ok2)
    /\ IF ok1 /\ ok2 THEN Told("OK", "all", value) ELSE ToldError
    /\ UNCHANGED <<drr, wbs, cpu, cause, rspVars>>

\* rsp_restart(), for R and vRun: the latter says "S05".
Restart(ok) ==
    /\ Stopped
    /\ SetNpc(StartAddr, ok)
    /\ ToldNothing
    /\ UNCHANGED <<gpr, ppc, drr, wbs, cpu, cause, sigval, client_waiting, client>>

\* qRcmd: no result is looked at.  After a failed read GDB gets what was in tmp,
\* after any write "OK".  The copy of the NPC is not used, nor kept.
ReadSpr(reg, ok) ==
    /\ Stopped
    /\ \E word \in ReadWord(ok, Content(reg), Words) :
          answer' = Answer("spr", reg, word, ~ok)
    /\ UNCHANGED <<cpuVars, rspVars>>

WriteSpr(reg, value, ok) ==
    /\ Stopped
    /\ gpr' = IF reg = "gpr" /\ ok THEN value ELSE gpr
    /\ ppc' = IF reg = "ppc" /\ ok THEN value ELSE ppc
    /\ npc' = IF reg = "npc" /\ ok THEN value ELSE npc
    /\ hidden' = (hidden \/ (reg = "npc" /\ ok))
    /\ answer' = Answer("OK", reg, value, ~ok)
    /\ UNCHANGED <<drr, wbs, cpu, cause, rspVars>>

-----------------------------------------------------------------------------
(* Running and stopping.                                                   *)

\* Clear DRR, and the indication of a hit in DMR2 by writing it.
ClearCause(ok) ==
    /\ drr' = IF ok THEN "none" ELSE drr
    /\ \E hit \in ReadWord(ok, wbs, BOOLEAN) : wbs' = (wbs /\ ~(hit /\ ok))

\* set_stall_state(0) drops the copy of the NPC.
Resumes(how, ok) ==
    /\ ClearCause(ok)
    /\ cpu' = how
    /\ use_cached_npc' = FALSE
    /\ client_waiting' = TRUE
    /\ ToldNothing
    /\ UNCHANGED <<gpr, ppc, cause, sigval, client>>

\* Without an address, or from one.
Continue(ok) ==
    /\ Stopped
    /\ Resumes("running", ok)
    /\ UNCHANGED <<npc, hidden, cached_npc>>

ContinueFrom(addr, ok) ==
    /\ Stopped
    /\ npc' = IF ok THEN addr ELSE npc
    /\ hidden' = (hidden \/ ok)
    /\ cached_npc' = addr
    /\ Resumes("running", ok)

\* An address is read from the packet and not used.
Step(ok) ==
    /\ Stopped
    /\ Resumes("stepping", ok)
    /\ UNCHANGED <<npc, hidden, cached_npc>>

\* The CPU has executed the instruction at p, or trapped there, and stands.
CpuStops(why, p) ==
    /\ \/ cpu = "running"
       \/ cpu = "stepping" /\ p = npc /\ why # "break"
    /\ why = "step" => cpu = "stepping"
    /\ why = "memory" <=> p \in Breakpoints
    /\ ppc' = p /\ npc' = After(p) /\ hidden' = FALSE
    /\ drr' = CASE why \in {"memory", "hardware"} -> "trap"
                [] why \in {"illegal", "several"} -> why
                [] OTHER -> drr
    /\ wbs' = (wbs \/ why = "hardware")
    /\ cause' = why
    /\ cpu' = "stopping"
    /\ ToldNothing
    /\ UNCHANGED <<gpr, rspVars>>

\* rsp_exception(): the signal, or the one before if the cause is unknown.
SignalOf(word, before) == CASE word \in {"none", "trap"} -> "TRAP"
                            [] word = "illegal" -> "ILL"
                            [] OTHER -> before

\* "H": the cause is noted.  If GDB waits and a breakpoint was hit, of either
\* kind, the NPC is set back to it first.
Halted(ok) ==
    /\ client /\ cpu = "stopping"
    /\ cpu' = "stopped"
    /\ \E word \in ReadWord(ok, drr, Drrs) : sigval' = SignalOf(word, sigval)
    /\ \E at \in ReadWord(ok, ppc, Words), hit \in ReadWord(ok, wbs, BOOLEAN) :
          IF client_waiting /\ sigval' = "TRAP" /\ (at \in Breakpoints \/ hit)
          THEN SetNpc(at, ok)
          ELSE UNCHANGED <<npc, hidden, use_cached_npc, cached_npc>>
    /\ IF client_waiting THEN Told("stop", sigval', 0) ELSE ToldNothing
    /\ client_waiting' = FALSE
    /\ UNCHANGED <<gpr, ppc, drr, wbs, cause, client>>

\* The client closes: the "U" that follows goes nowhere, but the copy is
\* dropped.
Detach ==
    /\ Stopped
    /\ client' = FALSE
    /\ use_cached_npc' = FALSE
    /\ ToldNothing
    /\ UNCHANGED <<cpuVars, cached_npc, sigval, client_waiting>>

Connect ==
    /\ ~client
    /\ client' = TRUE
    /\ client_waiting' = FALSE
    /\ ToldNothing
    /\ UNCHANGED <<cpuVars, use_cached_npc, cached_npc, sigval>>

-----------------------------------------------------------------------------
(* The specification.                                                      *)

\* A client has just connected, and the target has been stalled somewhere.
Init ==
    /\ gpr = 0
    /\ ppc \in Words /\ npc = After(ppc)
    /\ hidden = FALSE
    /\ drr = "none" /\ wbs \in BOOLEAN
    /\ cpu = "stopped" /\ cause = "break"
    /\ use_cached_npc = FALSE /\ cached_npc = 0
    /\ sigval = "NONE"
    /\ client_waiting = FALSE /\ client = TRUE
    /\ answer = Answer("none", "none", 0, FALSE)
    /\ undisturbed = TRUE

\* One access, or several of which none or all fail.
Request(ok) ==
    \/ "p" \in Kinds /\ \E reg \in Registers : ReadReg(reg, ok)
    \/ "P" \in Kinds /\ \E reg \in Registers, v \in Words : WriteReg(reg, v, ok)
    \/ "R" \in Kinds /\ Restart(ok)
    \/ "readspr" \in Kinds /\ \E reg \in Registers : ReadSpr(reg, ok)
    \/ /\ "writespr" \in Kinds
       /\ \E reg \in {"gpr", "ppc"}, v \in Words : WriteSpr(reg, v, ok)
    \/ "c" \in Kinds /\ (Continue(ok) \/ \E a \in Words : ContinueFrom(a, ok))
    \/ "s" \in Kinds /\ Step(ok)

\* Requests that write the NPC or drop its copy elsewhere than in set_npc().
Disturbs(ok1, ok2) ==
    \/ "writespr" \in Kinds /\ \E a \in Words : WriteSpr("npc", a, ok1)
    \/ "G" \in Kinds /\ \E v, at, a \in Words : WriteAll(v, at, a, ok1, ok2)
    \/ "D" \in Kinds /\ Detach

Next ==
    \/ \E ok \in Outcomes :
         /\ Request(ok) \/ Halted(ok)
         /\ undisturbed' = (undisturbed /\ ok)
    \/ \E ok1, ok2 \in Outcomes, reg \in Registers :
         /\ "g" \in Kinds /\ ReadAll(reg, ok1, ok2)
         /\ undisturbed' = (undisturbed /\ ok1 /\ ok2)
    \/ \E ok1, ok2 \in Outcomes : Disturbs(ok1, ok2) /\ undisturbed' = FALSE
    \/ Connect /\ UNCHANGED undisturbed
    \/ \E why \in Causes, p \in Words : CpuStops(why, p) /\ UNCHANGED undisturbed

Spec == Init /\ [][Next]_vars

-----------------------------------------------------------------------------
(* Properties.                                                             *)

TypeOK ==
    /\ gpr \in Words /\ npc \in Words /\ ppc \in Words
    /\ {hidden, wbs, use_cached_npc, client_waiting, client} \subseteq BOOLEAN
    /\ drr \in Drrs /\ cause \in Causes
    /\ cpu \in {"stopped", "stopping", "running", "stepping"}
    /\ cached_npc \in Words
    /\ sigval \in {"NONE", "TRAP", "ILL"}
    /\ undisturbed \in BOOLEAN

Register(reg) == CASE reg = "gpr" -> gpr [] reg = "npc" -> npc [] reg = "ppc" -> ppc

\* The NPC GDB reads is where the CPU will go on, although the CPU itself
\* shows 0 (set_npc, set_stall_state).
NpcIsTrue ==
    answer.kind = "value" /\ answer.reg = "npc" => answer.value = npc

\* Whatever fails: a value of a general register or the PPC that GDB reads is
\* the register's, and "OK" to a write of a single register, the NPC included,
\* says that it holds what GDB gave (rsp_read_all_regs, rsp_read_reg,
\* rsp_write_reg).  Three answers are left out because they may be untrue: to
\* a qRcmd whose access failed (rsp_command looks at no result), "OK" to G
\* (which writes other digits), and values of the NPC (see NpcIsTrue).
AnswersAreTrue ==
    /\ answer.kind \in {"value", "spr"} /\ answer.reg \in {"gpr", "ppc"}
          => answer.failed \/ answer.value = Register(answer.reg)
    /\ answer.kind = "OK" /\ answer.reg # "all"
          => answer.failed \/ answer.value = Register(answer.reg)

\* A GDB that is told of a stop finds the NPC at the breakpoint that was hit,
\* and after any other stop where the CPU left it (handle_rsp).
NpcAfterStop ==
    answer.kind = "stop"
        => npc = IF cause \in {"memory", "hardware"} THEN ppc ELSE After(ppc)

\* GDB is told the cause of this stop, not of one before it (rsp_exception).
SignalIsTrue ==
    answer.kind = "stop" /\ cause # "several"
        => answer.reg = IF cause = "illegal" THEN "ILL" ELSE "TRAP"

\* As long as accesses succeed and set_npc() alone writes the NPC, what GDB is
\* told of a stop is so: its cause, and where the CPU will go on.
StopsAreTold == undisturbed => NpcIsTrue /\ NpcAfterStop /\ SignalIsTrue

\* Whatever fails and whatever GDB does: p, P and g tell GDB of a failure instead
\* of an untrue value or "OK", and an answer to qRcmd is untrue only if its own
\* access has failed, not because of what went before; words that were not read
\* do not become signals or addresses that do not exist (rsp_read_all_regs,
\* rsp_write_reg, rsp_exception).
FailuresAreTold == TypeOK /\ AnswersAreTrue
=============================================================================

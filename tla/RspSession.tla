----------------------------- MODULE RspSession ------------------------------
(***************************************************************************)
(* The RSP server thread (rsp-server.c: handle_rsp, rsp_server_request,    *)
(* rsp_client_request, rsp_client_close) driving the target monitor for    *)
(* one GDB client after another.                                           *)
(*                                                                         *)
(* The server never asks the CPU anything about running or stopping: it    *)
(* writes "S" and "U" to the monitor and learns of the outcome later, from *)
(* the "H" and "R" bytes it reads when GDB has sent nothing.  What it does *)
(* with a packet depends on target_running, its view of the past.          *)
(*                                                                         *)
(* GDB is the environment: it resumes or detaches only while it thinks the *)
(* target is stopped, breaks only while it waits for a stop, and may leave *)
(* or send any other request at any time.  pipe() does not fail here.      *)
(***************************************************************************)
EXTENDS HardwareMonitor

CONSTANTS
    Rsp,        \* the RSP server, the only commander there is
    MaxPackets  \* bound on connections and packets of GDB in one behaviour

ASSUME SessionAssumption ==
    /\ Commanders = {Rsp}
    /\ MaxPackets \in Nat
    /\ ~PipesMayFail

VARIABLES
    rpc,               \* where the RSP thread is
    target_running,    \* rsp.target_running
    client_waiting,    \* rsp.client_waiting
    single_step_mode,  \* rsp.single_step_mode
    dsr,               \* whether DSR makes the CPU stop on traps
    dmr1_st,           \* the single-step trigger in DMR1
    gdb,               \* what GDB thinks: see GdbStates
    fromGdb,           \* packets on their way to the server
    sent               \* connections and packets so far, to bound the model

rspVars == <<rpc, target_running, client_waiting, single_step_mode>>
sprVars == <<dsr, dmr1_st>>
gdbVars == <<gdb, fromGdb, sent>>
sessionVars == <<vars, rspVars, sprVars, gdbVars>>

\* "c" and "s" resume, "brk" is the 0x03 byte, "D" detaches, "q" is any
\* request that reads or writes registers or memory.
Packets == {"c", "s", "brk", "D", "q", "eof"}
GdbStates == {"none", "stopped", "waiting", "leaving"}
RspPCs == {"accept", "register", "stall", "enable", "serve", "resume",
           "close", "clearDsr", "restart", "unregister"}

SessionInit ==
    /\ Init
    /\ rpc = "accept"
    /\ target_running = FALSE
    /\ client_waiting = FALSE
    /\ single_step_mode = FALSE
    /\ dsr = FALSE
    /\ dmr1_st = FALSE
    /\ gdb = "none"
    /\ fromGdb = << >>
    /\ sent = 0

-----------------------------------------------------------------------------
(* GDB.                                                                    *)

GdbSends(p) ==
    /\ sent < MaxPackets
    /\ \/ p \in {"c", "s", "D"} /\ gdb = "stopped"
       \/ p = "brk" /\ gdb = "waiting"
       \/ p \in {"q", "eof"} /\ gdb \in {"stopped", "waiting"}
    /\ gdb' = CASE p \in {"c", "s"} -> "waiting"
                [] p \in {"D", "eof"} -> "leaving"
                [] OTHER -> gdb
    /\ fromGdb' = Append(fromGdb, p)
    /\ sent' = sent + 1
    /\ UNCHANGED <<vars, rspVars, sprVars>>

-----------------------------------------------------------------------------
(* The CPU stops by itself only while DSR hands traps to the debug unit.   *)

CpuBreaks ==
    /\ dsr
    /\ CpuStops
    /\ UNCHANGED <<rspVars, sprVars, gdbVars>>

-----------------------------------------------------------------------------
(* A new client: rsp_server_request().                                     *)

\* accept() returns a client, and registration with the monitor begins.
Accept ==
    /\ rpc = "accept"
    /\ gdb = "none"
    /\ sent < MaxPackets
    /\ RegisterCheck(Rsp)
    /\ rpc' = "register"
    /\ gdb' = "stopped"
    /\ sent' = sent + 1
    /\ UNCHANGED <<target_running, client_waiting, single_step_mode, sprVars,
                   fromGdb>>

RegisterClient ==
    /\ rpc = "register"
    /\ RegisterLocked(Rsp)
    /\ rpc' = "stall"
    /\ UNCHANGED <<target_running, client_waiting, single_step_mode, sprVars,
                   gdbVars>>

\* Mutant: target_running is left as the last client had it.
StallForClientKeepsFlag ==
    /\ rpc = "stall"
    /\ SendCommand(Rsp, "S")
    /\ single_step_mode' = FALSE
    /\ rpc' = "enable"
    /\ UNCHANGED <<target_running, client_waiting, sprVars, gdbVars>>

\* The stall is only requested; target_running is cleared at once all the
\* same, so that the "H" to come is not reported to GDB.
StallForClient ==
    /\ rpc = "stall"
    /\ SendCommand(Rsp, "S")
    /\ target_running' = FALSE
    /\ single_step_mode' = FALSE
    /\ rpc' = "enable"
    /\ UNCHANGED <<client_waiting, sprVars, gdbVars>>

\* Mutant: the old client's outstanding report is not forgotten.
EnableStopsKeepsWaiting ==
    /\ rpc = "enable"
    /\ dsr' = TRUE
    /\ rpc' = "serve"
    /\ UNCHANGED <<vars, target_running, client_waiting, single_step_mode,
                   dmr1_st, gdbVars>>

\* Set DSR and SR for debugging; handle_rsp() then forgets the old client's
\* outstanding report.
EnableStops ==
    /\ rpc = "enable"
    /\ dsr' = TRUE
    /\ client_waiting' = FALSE
    /\ rpc' = "serve"
    /\ UNCHANGED <<vars, target_running, single_step_mode, dmr1_st, gdbVars>>

-----------------------------------------------------------------------------
(* Packets: rsp_client_request().  They go before statuses of the monitor. *)

Receive(p) ==
    /\ rpc = "serve"
    /\ fromGdb # << >>
    /\ Head(fromGdb) = p
    /\ fromGdb' = Tail(fromGdb)
    /\ UNCHANGED <<gdb, sent>>

\* End of file: get_packet() returns NULL and the client is closed.
ClientGone ==
    /\ Receive("eof")
    /\ rpc' = "close"
    /\ UNCHANGED <<vars, target_running, client_waiting, single_step_mode,
                   sprVars>>

\* A break while target_running: ask for a stall.
BreakRunning ==
    /\ target_running
    /\ Receive("brk")
    /\ SendCommand(Rsp, "S")
    /\ UNCHANGED <<rspVars, sprVars>>

\* Any other packet while target_running gets "Target not stopped".
RefuseRunning ==
    /\ target_running
    /\ \E p \in {"c", "s", "D", "q"} : Receive(p)
    /\ UNCHANGED <<vars, rspVars, sprVars>>

\* A break while not target_running gets a warning.
BreakStopped ==
    /\ ~target_running
    /\ Receive("brk")
    /\ UNCHANGED <<vars, rspVars, sprVars>>

\* Registers and memory are read and written and GDB is answered.
Query ==
    /\ ~target_running
    /\ Receive("q")
    /\ UNCHANGED <<vars, rspVars, sprVars>>

\* Detach answers "OK" and closes the client as if it had gone.  The "U"
\* written after that goes to pipe_fds[0], which unregister set to -1.
DetachClient ==
    /\ ~target_running
    /\ Receive("D")
    /\ rpc' = "close"
    /\ UNCHANGED <<vars, target_running, client_waiting, single_step_mode,
                   sprVars>>

\* rsp_continue_generic() up to set_stall_state().
Continue ==
    /\ ~target_running
    /\ Receive("c")
    /\ dmr1_st' = FALSE
    /\ single_step_mode' = FALSE
    /\ rpc' = "resume"
    /\ UNCHANGED <<vars, target_running, client_waiting, dsr>>

\* Mutant: the test of single_step_mode is inverted.
SetTriggerAgain ==
    IF single_step_mode THEN dmr1_st' = TRUE /\ dsr' = TRUE
                        ELSE UNCHANGED sprVars

\* The trigger is written only when single_step_mode does not say it is set.
SetTrigger ==
    IF single_step_mode THEN UNCHANGED sprVars
                        ELSE dmr1_st' = TRUE /\ dsr' = TRUE

\* rsp_step_generic() up to set_stall_state().
Step ==
    /\ ~target_running
    /\ Receive("s")
    /\ SetTrigger
    /\ single_step_mode' = TRUE
    /\ rpc' = "resume"
    /\ UNCHANGED <<vars, target_running, client_waiting>>

\* The unstall command, after which GDB is owed a stop reply.
Resume ==
    /\ rpc = "resume"
    /\ SendCommand(Rsp, "U")
    /\ client_waiting' = TRUE
    /\ rpc' = "serve"
    /\ UNCHANGED <<target_running, single_step_mode, sprVars, gdbVars>>

-----------------------------------------------------------------------------
(* Statuses: the pipe's side of handle_rsp()'s poll().                     *)

ReadStatusOf(status) ==
    /\ rpc = "serve"
    /\ fromGdb = << >>
    /\ ReadStatus(Rsp)
    /\ Head(toServer[Rsp]) = status

Running ==
    /\ ReadStatusOf("R")
    /\ target_running' = TRUE
    /\ UNCHANGED <<rpc, client_waiting, single_step_mode, sprVars, gdbVars>>

\* Mutant: duplicates are not ignored.
AnyStopIsNew == TRUE

\* An "H" is a duplicate event unless the target was running.
IsNewStop == target_running

\* A first "H": log the exception and, if GDB is owed a reply, report it.
Halted ==
    /\ ReadStatusOf("H")
    /\ IsNewStop
    /\ target_running' = FALSE
    /\ client_waiting' = FALSE
    /\ gdb' = IF client_waiting /\ gdb = "waiting" THEN "stopped" ELSE gdb
    /\ UNCHANGED <<rpc, single_step_mode, sprVars, fromGdb, sent>>

HaltedAgain ==
    /\ ReadStatusOf("H")
    /\ ~IsNewStop
    /\ UNCHANGED <<rspVars, sprVars, gdbVars>>

-----------------------------------------------------------------------------
(* The end of a client: rsp_client_close().                                *)

\* If the target is running, stop it so that SPRs can be modified.
StallToClose ==
    /\ rpc = "close"
    /\ IF target_running THEN SendCommand(Rsp, "S") ELSE UNCHANGED vars
    /\ rpc' = "clearDsr"
    /\ UNCHANGED <<target_running, client_waiting, single_step_mode, sprVars,
                   gdbVars>>

ClearDsr ==
    /\ rpc = "clearDsr"
    /\ dsr' = FALSE
    /\ rpc' = "restart"
    /\ UNCHANGED <<vars, target_running, client_waiting, single_step_mode,
                   dmr1_st, gdbVars>>

\* Mutant: the server itself clears the STALL bit.
RestartBehindMonitor ==
    /\ rpc = "restart"
    /\ cpuStalled' = IF target_running THEN FALSE ELSE cpuStalled
    /\ rpc' = "unregister"
    /\ UNCHANGED <<monitorVars, pipes_mutex, tableVars, lostStall, attached,
                   pipeVars, target_running, client_waiting, single_step_mode,
                   sprVars, gdbVars>>

\* If the target was running, restart it.
RestartToClose ==
    /\ rpc = "restart"
    /\ IF target_running THEN SendCommand(Rsp, "U") ELSE UNCHANGED vars
    /\ rpc' = "unregister"
    /\ UNCHANGED <<target_running, client_waiting, single_step_mode, sprVars,
                   gdbVars>>

\* Mutant: a client that never resumed the target is not unregistered.
CloseClientQuietly ==
    /\ rpc = "unregister"
    /\ IF client_waiting THEN Unregister(Rsp) ELSE UNCHANGED vars
    /\ rpc' = "accept"
    /\ gdb' = "none"
    /\ fromGdb' = << >>
    /\ UNCHANGED <<target_running, client_waiting, single_step_mode, sprVars,
                   sent>>

\* Unregister, close the socket, and poll for the next client.
CloseClient ==
    /\ rpc = "unregister"
    /\ Unregister(Rsp)
    /\ rpc' = "accept"
    /\ gdb' = "none"
    /\ fromGdb' = << >>
    /\ UNCHANGED <<target_running, client_waiting, single_step_mode, sprVars,
                   sent>>

-----------------------------------------------------------------------------
RspStep ==
    \/ RegisterClient \/ StallForClient \/ EnableStops
    \/ ClientGone \/ BreakRunning \/ RefuseRunning \/ BreakStopped
    \/ Query \/ DetachClient \/ Continue \/ Step \/ Resume
    \/ Running \/ Halted \/ HaltedAgain
    \/ StallToClose \/ ClearDsr \/ RestartToClose \/ CloseClient

ListenerReads(s) == ReadStatus(s) /\ UNCHANGED <<rspVars, sprVars, gdbVars>>

ListenerClients(s) ==
    /\ Attach(s) \/ Detach(s)
    /\ UNCHANGED <<rspVars, sprVars, gdbVars>>

Monitor == MonitorStep /\ UNCHANGED <<rspVars, sprVars, gdbVars>>

SessionNext ==
    \/ Monitor
    \/ RspStep
    \/ Accept
    \/ \E p \in Packets : GdbSends(p)
    \/ CpuBreaks
    \/ \E s \in Listeners : ListenerReads(s) \/ ListenerClients(s)

SessionSpec == SessionInit /\ [][SessionNext]_sessionVars

\* All threads are scheduled; a CPU told to step executes an instruction.
\* Nothing makes GDB send anything or a listener's client connect or stay.
SessionFairness ==
    /\ WF_sessionVars(Monitor)
    /\ WF_sessionVars(RspStep)
    /\ \A s \in Listeners : WF_sessionVars(ListenerReads(s))
    /\ WF_sessionVars(dmr1_st /\ CpuBreaks)

FairSessionSpec == SessionSpec /\ SessionFairness

-----------------------------------------------------------------------------
(* Properties.                                                             *)

\* Type correctness of the session; the server has its pipes whenever it
\* may use them, and has none, nor a client, when it waits for the next.
SessionTypeOK ==
    /\ rpc \in RspPCs
    /\ target_running \in BOOLEAN
    /\ client_waiting \in BOOLEAN
    /\ single_step_mode \in BOOLEAN
    /\ dsr \in BOOLEAN
    /\ dmr1_st \in BOOLEAN
    /\ gdb \in GdbStates
    /\ fromGdb \in Seq(Packets)
    /\ sent \in 0..MaxPackets
    /\ state[Rsp] = CASE rpc = "accept"   -> "out"
                      [] rpc = "register" -> "registering"
                      [] OTHER            -> "registered"
    /\ rpc = "accept" <=> gdb = "none"

\* A stop GDB was told of is a stop: while GDB thinks the target is stopped,
\* and everything it and the server asked for has been taken in, the CPU is
\* stalled.  Stalls, breakpoints found by the poll and breaks overlap, so
\* this is what "ignore if a duplicate event" must get right: a second "H"
\* of the last stop must never be reported as the answer to a new resume.
StopsAreReal ==
    rpc = "serve" /\ gdb = "stopped" /\ fromGdb = << >>
        /\ toMonitor[Rsp] = << >>
    => cpuStalled

\* A client that was told of a stop, or has not resumed yet, is never told
\* "Target not stopped": a leftover "R" cannot set target_running again.
NeverRefused == rpc = "serve" /\ gdb = "stopped" => ~target_running

\* client_waiting is set only for a client that waits (or has left since): a
\* stop reply is never sent to one that did not resume the target, not even
\* when the client before it left while it was owed one.
ReportsAreOwed == rpc = "serve" /\ client_waiting => gdb # "stopped"

\* The session uses the monitor only as HardwareMonitor lets commanders do.
UsesMonitor == Spec

\* The monitor always lets go of pipes_mutex, even when a descriptor number
\* reused by a new connection makes it wait in read() with the lock held:
\* a new registration is at once followed by a command.
MutexReleased == pipes_mutex = "monitor" ~> pipes_mutex = "free"

\* A client that waits is answered once the CPU has stopped, or leaves, or
\* has asked for the CPU to go on.
StopIsReported ==
    gdb = "waiting" /\ client_waiting /\ cpuStalled
    ~> gdb # "waiting" \/ ~cpuStalled

\* A step request is answered, unless the client leaves: the trigger in
\* DMR1 is set whenever single_step_mode says it is.
StepIsReported == rpc = "resume" /\ single_step_mode ~> gdb # "waiting"

\* A break that finds target_running set stops the CPU and is answered.
BreakIsReported ==
    rpc = "serve" /\ target_running /\ fromGdb # << >> /\ Head(fromGdb) = "brk"
    ~> gdb # "waiting"

\* GDB waits for no stop in vain, whether it comes of itself, after a step or
\* after a break, and no thread waits for pipes_mutex for ever
\* (rsp_report_exception, rsp_step_generic, handle_rsp, check_int_pipes).
GdbIsAnswered ==
    MutexReleased /\ StopIsReported /\ StepIsReported /\ BreakIsReported

-----------------------------------------------------------------------------
(* What comments in the code say and the code does not do.                 *)

\* "If target was running, restart it": after the client is closed, a target
\* that it left running runs (it cannot have hit a breakpoint, as DSR was
\* cleared first).  The stall and the restart are two bytes in a pipe that
\* unregister closes next, with whatever is still unread in it.
RestartedAtClose ==
    rpc = "restart" /\ target_running /\ ~cpuStalled
    ~> rpc = "accept" /\ ~cpuStalled

=============================================================================

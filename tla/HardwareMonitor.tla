--------------------------- MODULE HardwareMonitor ---------------------------
(***************************************************************************)
(* The target monitor of adv_jtag_bridge (hardware_monitor.c): the thread  *)
(* that alone starts, stops and polls the CPU, and the pipes over which    *)
(* the RSP, JSP and HWP servers command it and hear from it.               *)
(*                                                                         *)
(* The servers appear here only as users of the interface declared in      *)
(* hardware_monitor.h.  Commanders register while a client is connected,   *)
(* send stall and unstall commands and unregister again, as the RSP server *)
(* does; Listeners are registered at start-up, as the JSP and HWP servers  *)
(* are.  RspSession.tla replaces the commander by the RSP server's code.   *)
(*                                                                         *)
(* A definition whose comment begins with "Mutant" is no part of the       *)
(* model: it is the definition after it with a bug planted in it, to show  *)
(* that a property checked on the model can fail.                          *)
(***************************************************************************)
EXTENDS Naturals, Sequences, FiniteSets

CONSTANTS
    Commanders,      \* servers that register, command and unregister
    Listeners,       \* servers registered before any thread serves a client
    MaxConnections,  \* MAX_MONITOR_CONNECTIONS
    NoServer,        \* the owner of an unused slot of connections[]
    Fds,             \* descriptors the read ends of command pipes can get
    NoFd,            \* -1, a server's descriptor outside a registration
    PipeCap,         \* bytes a pipe holds before a write to it blocks
    MaxCommands,     \* bound on the commands sent in one behaviour
    PipesMayFail,    \* whether pipe() may fail
    AccessMayFail    \* whether a debug access to the CPU may fail

Servers == Commanders \union Listeners

ASSUME ServersAssumption ==
    /\ Commanders \intersect Listeners = {}
    /\ NoServer \notin Servers
    /\ IsFiniteSet(Servers)
    /\ MaxConnections \in Nat
    /\ Cardinality(Servers) <= MaxConnections

ASSUME PipesAssumption ==
    /\ NoFd \notin Fds
    /\ PipeCap \in Nat \ {0}
    /\ MaxCommands \in Nat
    /\ PipesMayFail \in BOOLEAN
    /\ AccessMayFail \in BOOLEAN

VARIABLES
    pc,                 \* where the monitor thread is in target_handler()
    pipes_mutex,        \* "free", "monitor", or "abandoned" by a failed call
    connections,        \* the array of pipe pairs, by the server owning each
    num,                \* num_monitor_connections
    fd,                 \* the read end of each server's command pipe
    readset,            \* the descriptors select() was given, then returned
    i,                  \* the scan's index into connections
    n,                  \* notify_listeners()'s index into connections
    note,               \* the status notify_listeners() is writing
    target_is_running,  \* the monitor's belief about the CPU
    cpuStalled,         \* the CPU's STALL bit itself
    lostStall,          \* history: the last access of stall_cpu() was to
                        \* stall the CPU, and failed
    state,              \* where each server is with its registration
    attached,           \* listeners that are serving a client
    toMonitor,          \* command bytes in each server-to-monitor pipe
    toServer,           \* status bytes in each monitor-to-server pipe
    heard,              \* the last status each server read
    issued              \* commands sent so far, to bound the model

monitorVars == <<pc, readset, i, n, note, target_is_running>>
tableVars   == <<connections, num, fd, state>>
pipeVars    == <<toMonitor, toServer, heard, issued>>
cpuVars     == <<cpuStalled, lostStall>>
vars == <<monitorVars, pipes_mutex, tableVars, cpuVars, attached, pipeVars>>

Commands == {"S", "U"}
Statuses == {"H", "R"}

PCs == {"snapshot", "select", "lockScan", "scan", "notifyCmd",
        "poll", "lockPoll", "notifyPoll"}

Slots == 1..MaxConnections

\* A server owns a connection when one of the first num slots names it.
Registered(s) == \E k \in 1..num : connections[k] = s

-----------------------------------------------------------------------------
(* main() registers the listeners before any server runs.  The monitor     *)
(* thread is already polling, with target_is_running set; the CPU may be   *)
(* in either state.  No status has been sent to anyone.                    *)
Init ==
    /\ pc = "snapshot"
    /\ pipes_mutex = "free"
    /\ connections \in [Slots -> Listeners \union {NoServer}]
    /\ num = Cardinality(Listeners)
    /\ \A k \in Slots : connections[k] = NoServer <=> k > num
    /\ \A j, k \in 1..num : connections[j] = connections[k] => j = k
    /\ \A s \in Listeners : Registered(s)
    /\ fd \in [Servers -> Fds \union {NoFd}]
    /\ \A s \in Servers : fd[s] = NoFd <=> s \in Commanders
    /\ \A s, t \in Listeners : fd[s] = fd[t] => s = t
    /\ readset = {}
    /\ i = 1
    /\ n = 1
    /\ note = "H"
    /\ target_is_running = TRUE
    /\ cpuStalled \in BOOLEAN
    /\ lostStall = FALSE
    /\ state = [s \in Servers |->
                    IF s \in Listeners THEN "registered" ELSE "out"]
    /\ attached = {}
    /\ toMonitor = [s \in Servers |-> << >>]
    /\ toServer = [s \in Servers |-> << >>]
    /\ heard = [s \in Servers |-> "none"]
    /\ issued = 0

-----------------------------------------------------------------------------
(* The servers' side.  pipes_mutex is held throughout the two registration *)
(* calls, neither of which blocks once it has the lock, so each critical   *)
(* section is one step.                                                    *)

\* Mutant: pipes_mutex is not locked.
LockNothing == TRUE

\* pthread_mutex_lock(&pipes_mutex) returns.
LockPipes == pipes_mutex = "free"

\* register_with_monitor_thread() tests for room before it takes the lock.
RegisterCheck(s) ==
    /\ state[s] = "out"
    /\ num < MaxConnections
    /\ state' = [state EXCEPT ![s] = "registering"]
    /\ UNCHANGED <<monitorVars, pipes_mutex, connections, num, fd, cpuVars,
                   attached, pipeVars>>

\* With the lock held the pipes are created in the slot after the last one.
\* A descriptor number that unregister closed may be handed out again.
RegisterLocked(s) ==
    /\ state[s] = "registering"
    /\ LockPipes
    /\ \E f \in Fds \ {fd[t] : t \in Servers} : fd' = [fd EXCEPT ![s] = f]
    /\ connections' = [connections EXCEPT ![num + 1] = s]
    /\ num' = num + 1
    /\ state' = [state EXCEPT ![s] = "registered"]
    /\ UNCHANGED <<monitorVars, pipes_mutex, cpuVars, attached, pipeVars>>

\* When pipe() fails the call returns 0 and leaves pipes_mutex locked.
RegisterFails(s) ==
    /\ PipesMayFail
    /\ state[s] = "registering"
    /\ LockPipes
    /\ pipes_mutex' = "abandoned"
    /\ state' = [state EXCEPT ![s] = "out"]
    /\ UNCHANGED <<monitorVars, connections, num, fd, cpuVars, attached,
                   pipeVars>>

\* Mutant: the last entry is removed whichever was to be.
RemoveLast(k) ==
    /\ connections' = [connections EXCEPT ![num] = NoServer]
    /\ num' = num - 1

\* The last entry is moved to the vacated spot.  (The code leaves the slot
\* that was the last as it is; nothing reads it.)
RemoveEntry(k) ==
    /\ connections' = [connections EXCEPT ![k] = connections[num],
                                         ![num] = NoServer]
    /\ num' = num - 1

\* unregister_with_monitor_thread() closes the four descriptors, which
\* discards what the pipes hold, and removes the entry.
Unregister(s) ==
    /\ state[s] = "registered"
    /\ LockPipes
    /\ \E k \in 1..num : connections[k] = s /\ RemoveEntry(k)
    /\ fd' = [fd EXCEPT ![s] = NoFd]
    /\ state' = [state EXCEPT ![s] = "out"]
    /\ toMonitor' = [toMonitor EXCEPT ![s] = << >>]
    /\ toServer' = [toServer EXCEPT ![s] = << >>]
    /\ heard' = [heard EXCEPT ![s] = "none"]
    /\ UNCHANGED <<monitorVars, pipes_mutex, cpuVars, attached, issued>>

\* A server writes a command byte; the write blocks while the pipe is full.
SendCommand(s, c) ==
    /\ state[s] = "registered"
    /\ issued < MaxCommands
    /\ Len(toMonitor[s]) < PipeCap
    /\ toMonitor' = [toMonitor EXCEPT ![s] = Append(@, c)]
    /\ issued' = issued + 1
    /\ UNCHANGED <<monitorVars, pipes_mutex, tableVars, cpuVars, attached,
                   toServer, heard>>

\* A server reads one status byte.  A listener's thread is blocked in
\* accept(), and reads nothing, until it has a client.
ReadStatus(s) ==
    /\ state[s] = "registered"
    /\ s \in Listeners => s \in attached
    /\ toServer[s] # << >>
    /\ heard' = [heard EXCEPT ![s] = Head(toServer[s])]
    /\ toServer' = [toServer EXCEPT ![s] = Tail(@)]
    /\ UNCHANGED <<monitorVars, pipes_mutex, tableVars, cpuVars, attached,
                   toMonitor, issued>>

\* accept() returns in a listener's thread.
Attach(s) ==
    /\ s \in Listeners \ attached
    /\ attached' = attached \union {s}
    /\ UNCHANGED <<monitorVars, pipes_mutex, tableVars, cpuVars, pipeVars>>

\* The listener's client goes away and its thread returns to accept().
Detach(s) ==
    /\ s \in attached
    /\ attached' = attached \ {s}
    /\ UNCHANGED <<monitorVars, pipes_mutex, tableVars, cpuVars, pipeVars>>

\* The CPU stops by itself: a breakpoint, a step done, an exception.
CpuStops ==
    /\ ~cpuStalled
    /\ cpuStalled' = TRUE
    /\ UNCHANGED <<monitorVars, pipes_mutex, tableVars, lostStall, attached,
                   pipeVars>>

-----------------------------------------------------------------------------
(* The monitor thread.                                                     *)

OpenFds == {fd[connections[k]] : k \in 1..num}

HasCommand(f) == \E s \in Servers : fd[s] = f /\ toMonitor[s] # << >>

\* Collect the descriptors of the connections, under the lock.
Snapshot ==
    /\ pc = "snapshot"
    /\ LockPipes
    /\ readset' = OpenFds
    /\ pc' = "select"
    /\ UNCHANGED <<i, n, note, target_is_running, pipes_mutex, tableVars,
                   cpuVars, attached, pipeVars>>

\* select() returns the descriptors that have a command to read.  It may also
\* report one that was closed since the snapshot, as being at end of file.
SelectReady ==
    /\ pc = "select"
    /\ \E ready \in SUBSET readset \ {{}} :
           /\ {f \in readset : HasCommand(f)} \subseteq ready
           /\ \A f \in ready : HasCommand(f) \/ f \notin OpenFds
           /\ readset' = ready
    /\ pc' = "lockScan"
    /\ UNCHANGED <<i, n, note, target_is_running, pipes_mutex, tableVars,
                   cpuVars, attached, pipeVars>>

\* select() times out after a quarter of a second, or fails with EBADF on a
\* descriptor closed since the snapshot.
SelectNothing ==
    /\ pc = "select"
    /\ \/ \A f \in readset : ~HasCommand(f)
       \/ \E f \in readset : f \notin OpenFds
    /\ pc' = "poll"
    /\ UNCHANGED <<readset, i, n, note, target_is_running, pipes_mutex,
                   tableVars, cpuVars, attached, pipeVars>>

LockScan ==
    /\ pc = "lockScan"
    /\ LockPipes
    /\ pipes_mutex' = "monitor"
    /\ i' = 1
    /\ pc' = "scan"
    /\ UNCHANGED <<readset, n, note, target_is_running, tableVars, cpuVars,
                   attached, pipeVars>>

\* FD_ISSET() is false for the connection under the scan.
ScanSkip ==
    /\ pc = "scan"
    /\ i <= num
    /\ fd[connections[i]] \notin readset
    /\ i' = i + 1
    /\ UNCHANGED <<pc, readset, n, note, target_is_running, pipes_mutex,
                   tableVars, cpuVars, attached, pipeVars>>

\* Mutant: stall_cpu() returns when the access fails.
StallCpuOrReturn(stall) ==
    \/ /\ cpuStalled' = stall
       /\ lostStall' = FALSE
       /\ target_is_running' = ~stall
    \/ /\ AccessMayFail
       /\ UNCHANGED <<cpuVars, target_is_running>>

\* stall_cpu() writes the STALL bit, reports a failed access, and records
\* the state it asked for either way.
StallCpu(stall) ==
    /\ \/ /\ cpuStalled' = stall
          /\ lostStall' = FALSE
       \/ /\ AccessMayFail
          /\ lostStall' = stall
          /\ UNCHANGED cpuStalled
    /\ target_is_running' = ~stall

\* Mutant: the test of target_is_running is that of the other command.
StallCommandInverted ==
    /\ Head(toMonitor[connections[i]]) = "S"
    /\ IF target_is_running THEN UNCHANGED <<cpuVars, target_is_running>>
                            ELSE StallCpu(TRUE)
    /\ note' = "H"

\* The byte read is "S": stall unless believed stalled, then notify "H".
StallCommand ==
    /\ Head(toMonitor[connections[i]]) = "S"
    /\ IF target_is_running THEN StallCpu(TRUE)
                            ELSE UNCHANGED <<cpuVars, target_is_running>>
    /\ note' = "H"

\* Mutant: target_is_running is not tested.
UnstallCommandAlways ==
    /\ Head(toMonitor[connections[i]]) = "U"
    /\ StallCpu(FALSE)
    /\ note' = "R"

\* The byte read is "U": unstall unless believed running, then notify "R".
UnstallCommand ==
    /\ Head(toMonitor[connections[i]]) = "U"
    /\ IF target_is_running THEN UNCHANGED <<cpuVars, target_is_running>>
                            ELSE StallCpu(FALSE)
    /\ note' = "R"

\* read() of one byte from a descriptor that FD_ISSET() reports.  It blocks,
\* with pipes_mutex held, while that pipe is empty.
ReadCommand ==
    /\ pc = "scan"
    /\ i <= num
    /\ fd[connections[i]] \in readset
    /\ toMonitor[connections[i]] # << >>
    /\ StallCommand \/ UnstallCommand
    /\ toMonitor' = [toMonitor EXCEPT ![connections[i]] = Tail(@)]
    /\ n' = 1
    /\ pc' = "notifyCmd"
    /\ UNCHANGED <<readset, i, pipes_mutex, tableVars, attached, toServer,
                   heard, issued>>

\* notify_listeners() writes to one connection; a full pipe blocks it.
NotifyOne ==
    /\ pc \in {"notifyCmd", "notifyPoll"}
    /\ n <= num
    /\ Len(toServer[connections[n]]) < PipeCap
    /\ toServer' = [toServer EXCEPT ![connections[n]] = Append(@, note)]
    /\ n' = n + 1
    /\ UNCHANGED <<pc, readset, i, note, target_is_running, pipes_mutex,
                   tableVars, cpuVars, attached, toMonitor, heard, issued>>

\* Every connection is notified of a command: the scan goes on.
NotifiedCmd ==
    /\ pc = "notifyCmd"
    /\ n > num
    /\ i' = i + 1
    /\ pc' = "scan"
    /\ UNCHANGED <<readset, n, note, target_is_running, pipes_mutex, tableVars,
                   cpuVars, attached, pipeVars>>

\* The scan ends; the hardware is not polled in this round.
ScanDone ==
    /\ pc = "scan"
    /\ i > num
    /\ pipes_mutex' = "free"
    /\ pc' = "snapshot"
    /\ UNCHANGED <<readset, i, n, note, target_is_running, tableVars,
                   cpuVars, attached, pipeVars>>

\* Nothing to poll for, a CPU still running, or a status read that failed.
PollNothing ==
    /\ pc = "poll"
    /\ target_is_running => ~cpuStalled \/ AccessMayFail
    /\ pc' = "snapshot"
    /\ UNCHANGED <<readset, i, n, note, target_is_running, pipes_mutex,
                   tableVars, cpuVars, attached, pipeVars>>

\* The poll finds the STALL bit set.  The belief changes before the lock.
PollStopped ==
    /\ pc = "poll"
    /\ target_is_running
    /\ cpuStalled
    /\ target_is_running' = FALSE
    /\ pc' = "lockPoll"
    /\ UNCHANGED <<readset, i, n, note, pipes_mutex, tableVars, cpuVars,
                   attached, pipeVars>>

LockPoll ==
    /\ pc = "lockPoll"
    /\ LockPipes
    /\ pipes_mutex' = "monitor"
    /\ note' = "H"
    /\ n' = 1
    /\ pc' = "notifyPoll"
    /\ UNCHANGED <<readset, i, target_is_running, tableVars, cpuVars,
                   attached, pipeVars>>

NotifiedPoll ==
    /\ pc = "notifyPoll"
    /\ n > num
    /\ pipes_mutex' = "free"
    /\ pc' = "snapshot"
    /\ UNCHANGED <<readset, i, n, note, target_is_running, tableVars,
                   cpuVars, attached, pipeVars>>

MonitorStep ==
    \/ Snapshot \/ SelectReady \/ SelectNothing
    \/ LockScan \/ ScanSkip \/ ReadCommand \/ NotifiedCmd \/ ScanDone
    \/ PollNothing \/ PollStopped \/ LockPoll \/ NotifiedPoll
    \/ NotifyOne

CommanderStep(s) ==
    \/ RegisterCheck(s) \/ RegisterLocked(s) \/ RegisterFails(s)
    \/ Unregister(s)
    \/ \E c \in Commands : SendCommand(s, c)

Next ==
    \/ MonitorStep
    \/ CpuStops
    \/ \E s \in Commanders : CommanderStep(s)
    \/ \E s \in Servers : ReadStatus(s)
    \/ \E s \in Listeners : Attach(s) \/ Detach(s)

Spec == Init /\ [][Next]_vars

-----------------------------------------------------------------------------
(* Properties.                                                             *)

\* Type correctness of the monitor, its table of connections and its pipes.
TypeOK ==
    /\ pc \in PCs
    /\ pipes_mutex \in {"free", "monitor", "abandoned"}
    /\ connections \in [Slots -> Servers \union {NoServer}]
    /\ \A k \in Slots : connections[k] = NoServer <=> k > num
    /\ num \in 0..MaxConnections
    /\ fd \in [Servers -> Fds \union {NoFd}]
    /\ readset \subseteq Fds
    /\ i \in 1..(MaxConnections + 1)
    /\ n \in 1..(MaxConnections + 1)
    /\ note \in Statuses
    /\ target_is_running \in BOOLEAN
    /\ cpuStalled \in BOOLEAN
    /\ lostStall \in BOOLEAN
    /\ state \in [Servers -> {"out", "registering", "registered"}]
    /\ attached \subseteq Listeners
    /\ toMonitor \in [Servers -> Seq(Commands)]
    /\ toServer \in [Servers -> Seq(Statuses)]
    /\ heard \in [Servers -> Statuses \union {"none"}]
    /\ issued \in Nat

\* The table and the count stay consistent with each other and with what
\* the servers hold: exactly the registered servers own a slot, each owns
\* one, and each has a descriptor no other connection has.  This is what
\* the comment on pipes_mutex asks of every holder of the lock, across the
\* swap with which unregister fills a hole.
TableConsistent ==
    /\ \A s \in Servers : state[s] = "registered" <=> Registered(s)
    /\ \A j, k \in 1..num : connections[j] = connections[k] => j = k
    /\ \A s \in Servers : state[s] = "registered" <=> fd[s] # NoFd
    /\ \A s, t \in Servers : fd[s] = fd[t] /\ fd[s] # NoFd => s = t

\* register_with_monitor_thread() tests for room before it locks: between
\* test and lock others may register, and still the slot it then writes is
\* inside the array.
SlotInBounds ==
    \A s \in Servers : state[s] = "registering" => num < MaxConnections

\* The status a server is told of by the last byte on its way to it, or by
\* the last one it read.
LastWord(s) ==
    IF toServer[s] = << >> THEN heard[s] ELSE toServer[s][Len(toServer[s])]

\* Whether the broadcast in progress, if any, has reached s.
Settled(s) ==
    pc \in {"notifyCmd", "notifyPoll"} =>
        \E k \in 1..num : k < n /\ connections[k] = s

\* What the monitor believes, until the poll's discovery is broadcast.
Told == IF target_is_running \/ pc = "lockPoll" THEN "R" ELSE "H"

\* Whatever servers come and go, a registered server that was told anything
\* was last told what the monitor believes: commands of other servers and
\* the poll never leave it with an outdated status once its pipe is drained.
StatusIsCurrent ==
    \A s \in Servers :
        state[s] = "registered" /\ Settled(s) =>
            LastWord(s) \in {"none", Told}

\* A server that was last told "H", with no broadcast still to reach it, is
\* talking to a CPU whose STALL bit is set: the servers read and write the
\* CPU's registers on the strength of that byte.  The one exception is a
\* stall_cpu() whose access failed: it reports the error and goes on.
HaltIsTrue ==
    \A s \in Servers :
        state[s] = "registered" /\ Settled(s) /\ LastWord(s) = "H" =>
            cpuStalled \/ lostStall

\* The monitor resumes the CPU only in answer to a command byte "U" it took
\* from a pipe, and never while the servers have not been told that it had
\* stopped: a stop found by the poll is broadcast before it is undone.
ResumeOnlyOnCommand ==
    [][cpuStalled /\ ~cpuStalled' =>
          /\ ~target_is_running
          /\ pipes_mutex = "monitor"
          /\ \E s \in Servers :
                 /\ toMonitor[s] # << >>
                 /\ Head(toMonitor[s]) = "U"
                 /\ toMonitor'[s] = Tail(toMonitor[s])
          /\ \A s \in Servers :
                 state[s] = "registered" => LastWord(s) \in {"none", "H"}]_vars

-----------------------------------------------------------------------------
(* The monitor implements an atomic broadcast.                             *)

\* The status a broadcast in progress still owes a server.
Owed(s) == IF state[s] = "registered" /\ ~Settled(s) THEN <<note>> ELSE << >>

\* In the abstract view a stop found by the poll happens when it is about to
\* be broadcast, and a broadcast reaches all servers when it begins.
targetRuns == target_is_running \/ pc = "lockPoll"
joinedServers == {s \in Servers : state[s] = "registered"}
inboxes == [s \in Servers |-> toServer[s] \o Owed(s)]

Broadcast == INSTANCE StatusBroadcast WITH
    running <- targetRuns, joined <- joinedServers,
    requests <- toMonitor, inbox <- inboxes

\* The monitor thread, its lock and its pipes implement an atomic broadcast:
\* notify_listeners() writes to one pipe at a time while servers read, send
\* and wait to register, and no server can tell.
ImplementsBroadcast == Broadcast!Spec
=============================================================================

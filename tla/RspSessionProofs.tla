-------------------------- MODULE RspSessionProofs ---------------------------
(***************************************************************************)
(* Proofs about the target monitor, for any number of servers, slots and   *)
(* descriptors and any capacity of the pipes, and about the RSP server's   *)
(* sessions with GDB.                                                      *)
(*                                                                         *)
(* The monitor's type invariant is not inductive alone: that a             *)
(* registration finds a free slot follows from TableConsistent by          *)
(* counting, and that the scan's index stays in range from what the        *)
(* monitor knows while it holds the lock.  IInv collects what the steps    *)
(* preserve together.                                                      *)
(*                                                                         *)
(* A session is one of the monitor's users: each of its steps is one that  *)
(* HardwareMonitor allows, so all that is proved of the monitor holds in   *)
(* every session.  What a session adds needs an invariant of its own:      *)
(* target_running and client_waiting are right only together with all that *)
(* is still on its way between the two threads, commands, statuses and a   *)
(* broadcast in progress.  SessionInv says what can be there.              *)
(***************************************************************************)
EXTENDS RspSession, FiniteSetTheorems, SequenceTheorems, TLAPS

-----------------------------------------------------------------------------
(* The target monitor.                                                     *)

\* The monitor holds pipes_mutex exactly in the scan and the broadcasts.
LockInv == pipes_mutex = "monitor" <=> pc \in {"scan", "notifyCmd", "notifyPoll"}

\* What a broadcast in progress, or about to start, says is what the monitor
\* believes; a broadcast for a command happens inside the scan.
BroadcastInv ==
    /\ pc = "lockPoll" => ~target_is_running
    /\ pc = "notifyPoll" => note = "H" /\ ~target_is_running
    /\ pc = "notifyCmd" => i <= num /\ (note = "R" <=> target_is_running)

\* The monitor believes the CPU stopped only if it is, or could not be.
StopInv == ~target_is_running => cpuStalled \/ lostStall

\* A server outside a registration has nothing in its pipes.
FreshPipes ==
    \A s \in Servers : state[s] # "registered" =>
        toMonitor[s] = << >> /\ toServer[s] = << >> /\ heard[s] = "none"

IInv ==
    /\ TypeOK
    /\ TableConsistent
    /\ LockInv
    /\ BroadcastInv
    /\ StopInv
    /\ FreshPipes
    /\ StatusIsCurrent

-----------------------------------------------------------------------------
(* The frame of a step: which actions change which part of the state.      *)

\* Only the registration calls touch the table.
LEMMA TableFrame ==
    ASSUME [Next]_vars
    PROVE  \/ UNCHANGED tableVars
           \/ \E s \in Commanders : \/ RegisterCheck(s) \/ RegisterLocked(s)
                                    \/ RegisterFails(s) \/ Unregister(s)
BY DEF Next, vars, MonitorStep, CommanderStep, tableVars, Snapshot, SelectReady,
       SelectNothing, LockScan, ScanSkip, ReadCommand, NotifyOne, NotifiedCmd,
       ScanDone, PollNothing, PollStopped, LockPoll, NotifiedPoll, SendCommand,
       ReadStatus, Attach, Detach, CpuStops

\* Pipes change when they are closed, written or read.
LEMMA PipeFrame ==
    ASSUME [Next]_vars
    PROVE  \/ UNCHANGED pipeVars
           \/ ReadCommand \/ NotifyOne
           \/ \E s \in Commanders : Unregister(s)
           \/ \E s \in Commanders, c \in Commands : SendCommand(s, c)
           \/ \E s \in Servers : ReadStatus(s)
BY DEF Next, vars, MonitorStep, CommanderStep, pipeVars, Snapshot, SelectReady,
       SelectNothing, LockScan, ScanSkip, NotifiedCmd, ScanDone, PollNothing,
       PollStopped, LockPoll, NotifiedPoll, RegisterCheck, RegisterLocked,
       RegisterFails, Attach, Detach, CpuStops

\* Only the monitor moves itself, and only the monitor and a registration
\* that fails take or release pipes_mutex.
LEMMA MonitorFrame ==
    ASSUME [Next]_vars
    PROVE  \/ MonitorStep
           \/ UNCHANGED <<monitorVars, pipes_mutex>>
           \/ UNCHANGED monitorVars /\ \E s \in Commanders : RegisterFails(s)
BY DEF Next, vars, CommanderStep, monitorVars, RegisterCheck, RegisterLocked,
       RegisterFails, Unregister, SendCommand, ReadStatus, Attach, Detach,
       CpuStops

\* A registered server owns a slot, and a server that is not, none: there is
\* always room for one more.  (The pigeonhole principle.)
LEMMA RoomForOne ==
    ASSUME TypeOK, TableConsistent, NEW s \in Servers, state[s] # "registered"
    PROVE  num < MaxConnections
<1> DEFINE f == [k \in 1..num |-> connections[k]]
           T == Servers \ {s}
<1>1. IsFiniteSet(T) /\ Cardinality(T) = Cardinality(Servers) - 1
  BY FS_RemoveElement, ServersAssumption
<1>2. f \in Injection(1..num, T)
  <2>1. ASSUME NEW k \in 1..num PROVE connections[k] \in T
    <3>1. k \in Slots /\ ~(k > num)
      BY ServersAssumption DEF TypeOK, Slots
    <3>2. connections[k] \in Servers
      BY <3>1 DEF TypeOK
    <3>3. connections[k] # s
      BY DEF TableConsistent, Registered
    <3>4. QED
      BY <3>2, <3>3
  <2>2. f \in [1..num -> T]
    BY <2>1
  <2>3. \A j, k \in 1..num : f[j] = f[k] => j = k
    BY DEF TableConsistent
  <2>4. QED
    BY <2>2, <2>3 DEF Injection, IsInjective
<1>3. Cardinality(1..num) <= Cardinality(T)
  BY <1>1, <1>2, FS_Injection
<1>4. Cardinality(1..num) = num
  BY FS_Interval DEF TypeOK
<1>5. Cardinality(Servers) \in Nat
  BY FS_CardinalityType, ServersAssumption
<1>6. QED
  BY <1>1, <1>3, <1>4, <1>5, ServersAssumption DEF TypeOK

-----------------------------------------------------------------------------
(* The initial states.                                                     *)

LEMMA InitInv == Init => IInv
<1> SUFFICES ASSUME Init PROVE IInv
  OBVIOUS
<1>1. num \in 0..MaxConnections
  <2>1. IsFiniteSet(Listeners) /\ Cardinality(Listeners) <= Cardinality(Servers)
    BY FS_Subset, ServersAssumption DEF Servers
  <2>2. Cardinality(Listeners) \in Nat /\ Cardinality(Servers) \in Nat
    BY <2>1, FS_CardinalityType, ServersAssumption
  <2>3. QED
    BY <2>1, <2>2, ServersAssumption DEF Init
<1>2. TypeOK
  <2>1. connections \in [Slots -> Servers \union {NoServer}]
    BY DEF Init, Servers
  <2>2. /\ toMonitor \in [Servers -> Seq(Commands)]
        /\ toServer \in [Servers -> Seq(Statuses)]
    BY EmptySeq DEF Init
  <2>3. /\ i \in 1..(MaxConnections + 1)
        /\ n \in 1..(MaxConnections + 1)
        /\ issued \in Nat
    BY ServersAssumption DEF Init
  <2>4. /\ state \in [Servers -> {"out", "registering", "registered"}]
        /\ heard \in [Servers -> Statuses \union {"none"}]
    BY DEF Init
  <2>5. /\ pc \in PCs
        /\ pipes_mutex \in {"free", "monitor", "abandoned"}
        /\ note \in Statuses
        /\ target_is_running \in BOOLEAN
        /\ cpuStalled \in BOOLEAN
        /\ lostStall \in BOOLEAN
    BY DEF Init, PCs, Statuses
  <2>6. /\ \A k \in Slots : connections[k] = NoServer <=> k > num
        /\ fd \in [Servers -> Fds \union {NoFd}]
        /\ readset \subseteq Fds
        /\ attached \subseteq Listeners
    BY DEF Init
  <2>7. QED
    BY <1>1, <2>1, <2>2, <2>3, <2>4, <2>5, <2>6 DEF TypeOK
<1>3. TableConsistent
  <2>1. ASSUME NEW s \in Servers
        PROVE  s \in Listeners <=> Registered(s)
    <3>1. ASSUME NEW k \in 1..num PROVE connections[k] \in Listeners
      BY <1>1, ServersAssumption DEF Init, Slots
    <3>2. QED
      BY <3>1 DEF Init, Registered
  <2>2. \A s \in Servers : state[s] = "registered" <=> s \in Listeners
    BY DEF Init
  <2>3. \A s \in Servers : s \in Listeners <=> fd[s] # NoFd
    BY ServersAssumption DEF Init, Servers
  <2>4. QED
    BY <2>1, <2>2, <2>3 DEF Init, TableConsistent
<1>4. LockInv /\ BroadcastInv /\ StopInv /\ FreshPipes
  BY DEF Init, LockInv, BroadcastInv, StopInv, FreshPipes
<1>5. StatusIsCurrent
  BY DEF Init, StatusIsCurrent, LastWord
<1>6. QED
  BY <1>2, <1>3, <1>4, <1>5 DEF IInv

-----------------------------------------------------------------------------
(* The table of connections: TableConsistent is preserved.                 *)

LEMMA TableStep ==
    ASSUME TypeOK, TableConsistent, [Next]_vars
    PROVE  TableConsistent'
<1>1. CASE UNCHANGED tableVars
  BY <1>1 DEF tableVars, TableConsistent, Registered
<1>2. ASSUME NEW s \in Commanders, RegisterCheck(s) \/ RegisterFails(s)
      PROVE  TableConsistent'
  BY SMTT(40), <1>2 DEF RegisterCheck, RegisterFails, LockPipes, TypeOK,
                        TableConsistent, Registered, Servers
<1>3. ASSUME NEW s \in Commanders, RegisterLocked(s)
      PROVE  TableConsistent'
  <2>1. s \in Servers /\ state[s] # "registered"
    BY <1>3 DEF RegisterLocked, Servers
  <2>2. num < MaxConnections /\ num \in Nat /\ MaxConnections \in Nat
    BY <2>1, RoomForOne, ServersAssumption DEF TypeOK
  <2>3. num + 1 \in Slots
    BY <2>2 DEF Slots
  <2>4. /\ connections'[num + 1] = s
        /\ \A k \in 1..num : connections'[k] = connections[k]
        /\ num' = num + 1
    BY <1>3, <2>2, <2>3 DEF RegisterLocked, TypeOK, Slots
  <2>5. \A t \in Servers : Registered(t)' <=> Registered(t) \/ t = s
    BY <2>2, <2>4 DEF Registered
  <2>6. \A t \in Servers :
            state'[t] = "registered" <=> state[t] = "registered" \/ t = s
    BY <1>3 DEF RegisterLocked, TypeOK
  <2>7. \A j, k \in 1..num' : connections'[j] = connections'[k] => j = k
    <3>1. \A k \in 1..num : connections[k] # s
      BY <2>1 DEF TableConsistent, Registered
    <3>2. QED
      BY <2>2, <2>4, <3>1 DEF TableConsistent
  <2>8. PICK f \in Fds \ {fd[t] : t \in Servers} : fd' = [fd EXCEPT ![s] = f]
    BY <1>3 DEF RegisterLocked
  <2>9. /\ fd'[s] = f /\ f # NoFd
        /\ \A t \in Servers : t # s => fd'[t] = fd[t] /\ fd[t] # f
    BY <2>1, <2>8, PipesAssumption DEF TypeOK
  <2>10. \A t, u \in Servers : fd'[t] = fd'[u] /\ fd'[t] # NoFd => t = u
    BY <2>1, <2>9 DEF TableConsistent
  <2>11. \A t \in Servers : state'[t] = "registered" <=> fd'[t] # NoFd
    BY <2>1, <2>6, <2>9 DEF TableConsistent
  <2>12. \A t \in Servers : state'[t] = "registered" <=> Registered(t)'
    BY <2>5, <2>6 DEF TableConsistent
  <2>13. QED
    BY <2>7, <2>10, <2>11, <2>12 DEF TableConsistent
<1>4. ASSUME NEW s \in Commanders, Unregister(s)
      PROVE  TableConsistent'
  <2>1. s \in Servers /\ state[s] = "registered"
    BY <1>4 DEF Unregister, Servers
  <2>2. PICK k \in 1..num :
            /\ connections[k] = s
            /\ connections' = [connections EXCEPT ![k] = connections[num],
                                                  ![num] = NoServer]
            /\ num' = num - 1
    BY <1>4 DEF Unregister, RemoveEntry
  <2>3. num \in 1..MaxConnections /\ num' = num - 1
    BY <2>2, ServersAssumption DEF TypeOK
  <2>4. \A j \in 1..(num - 1) :
            connections'[j] = IF j = k THEN connections[num] ELSE connections[j]
    <3>1. ASSUME NEW j \in 1..(num - 1) PROVE j \in Slots /\ j # num
      BY <2>3, ServersAssumption DEF Slots
    <3>2. k \in Slots /\ num \in Slots
      BY <2>3, ServersAssumption DEF Slots
    <3>3. QED
      BY <2>2, <3>1, <3>2 DEF TypeOK
  <2>5. \A j, l \in 1..num : connections[j] = connections[l] => j = l
    BY DEF TableConsistent
  <2>6. \A j, l \in 1..num' : connections'[j] = connections'[l] => j = l
    BY <2>3, <2>4, <2>5
  <2>7. \A t \in Servers : Registered(t)' <=> Registered(t) /\ t # s
    <3> SUFFICES ASSUME NEW t \in Servers
                 PROVE  Registered(t)' <=> Registered(t) /\ t # s
      OBVIOUS
    <3>1. ASSUME Registered(t)' PROVE Registered(t) /\ t # s
      <4>1. PICK j \in 1..(num - 1) : connections'[j] = t
        BY <2>3, <3>1 DEF Registered
      <4>2. CASE j = k
        <5>1. connections[num] = t /\ num \in 1..num /\ num # k
          BY <2>3, <2>4, <4>1, <4>2
        <5>2. QED
          BY <2>2, <2>5, <5>1 DEF Registered
      <4>3. CASE j # k
        <5>1. connections[j] = t /\ j \in 1..num
          BY <2>3, <2>4, <4>1, <4>3
        <5>2. QED
          BY <2>2, <2>5, <4>3, <5>1 DEF Registered
      <4>4. QED
        BY <4>2, <4>3
    <3>2. ASSUME Registered(t), t # s PROVE Registered(t)'
      <4>1. PICK j \in 1..num : connections[j] = t
        BY <3>2 DEF Registered
      <4>2. j # k
        BY <2>2, <3>2, <4>1
      <4>3. CASE j = num
        <5>1. k \in 1..(num - 1)
          BY <2>2, <2>3, <4>2, <4>3
        <5>2. connections'[k] = t
          BY <2>4, <4>1, <4>3, <5>1
        <5>3. QED
          BY <2>3, <5>1, <5>2 DEF Registered
      <4>4. CASE j # num
        <5>1. j \in 1..(num - 1)
          BY <2>3, <4>4
        <5>2. connections'[j] = t
          BY <2>4, <4>1, <4>2, <5>1
        <5>3. QED
          BY <2>3, <5>1, <5>2 DEF Registered
      <4>5. QED
        BY <4>3, <4>4
    <3>3. QED
      BY <3>1, <3>2
  <2>8. \A t \in Servers :
            state'[t] = "registered" <=> state[t] = "registered" /\ t # s
    BY <1>4, <2>1 DEF Unregister, TypeOK
  <2>9. \A t \in Servers : fd'[t] = IF t = s THEN NoFd ELSE fd[t]
    BY <1>4 DEF Unregister, TypeOK
  <2>10. \A t \in Servers : state'[t] = "registered" <=> Registered(t)'
    BY <2>7, <2>8 DEF TableConsistent
  <2>11. \A t \in Servers : state'[t] = "registered" <=> fd'[t] # NoFd
    BY <2>8, <2>9 DEF TableConsistent
  <2>12. \A t, u \in Servers : fd'[t] = fd'[u] /\ fd'[t] # NoFd => t = u
    BY <2>9 DEF TableConsistent
  <2>13. QED
    BY <2>6, <2>10, <2>11, <2>12 DEF TableConsistent
<1>5. QED
  BY <1>1, <1>2, <1>3, <1>4, TableFrame

-----------------------------------------------------------------------------
(* Type correctness is preserved.                                          *)

LEMMA TableTypes ==
    ASSUME TypeOK, TableConsistent, [Next]_vars
    PROVE  /\ connections' \in [Slots -> Servers \union {NoServer}]
           /\ \A k \in Slots : connections'[k] = NoServer <=> k > num'
           /\ num' \in 0..MaxConnections
           /\ fd' \in [Servers -> Fds \union {NoFd}]
           /\ state' \in [Servers -> {"out", "registering", "registered"}]
<1>1. CASE UNCHANGED tableVars
  BY <1>1 DEF tableVars, TypeOK
<1>2. CASE \E s \in Commanders : RegisterCheck(s) \/ RegisterFails(s)
  BY ZenonT(40), <1>2 DEF RegisterCheck, RegisterFails, TypeOK, Servers
<1>3. ASSUME NEW s \in Commanders, RegisterLocked(s)
      PROVE  /\ connections' \in [Slots -> Servers \union {NoServer}]
             /\ \A k \in Slots : connections'[k] = NoServer <=> k > num'
             /\ num' \in 0..MaxConnections
             /\ fd' \in [Servers -> Fds \union {NoFd}]
             /\ state' \in [Servers -> {"out", "registering", "registered"}]
  <2>1. s \in Servers /\ state[s] # "registered" /\ s # NoServer
    BY <1>3, ServersAssumption DEF RegisterLocked, Servers
  <2>2. num < MaxConnections /\ num \in Nat /\ MaxConnections \in Nat
    BY <2>1, RoomForOne, ServersAssumption DEF TypeOK
  <2>3. num' \in 0..MaxConnections
    BY <1>3, <2>2 DEF RegisterLocked
  <2>4. \A k \in Slots : connections'[k] = NoServer <=> k > num'
    BY <1>3, <2>1, <2>2 DEF RegisterLocked, TypeOK, Slots
  <2>5. QED
    BY ZenonT(40), <1>3, <2>1, <2>3, <2>4 DEF RegisterLocked, TypeOK
<1>4. ASSUME NEW s \in Commanders, Unregister(s)
      PROVE  /\ connections' \in [Slots -> Servers \union {NoServer}]
             /\ \A k \in Slots : connections'[k] = NoServer <=> k > num'
             /\ num' \in 0..MaxConnections
             /\ fd' \in [Servers -> Fds \union {NoFd}]
             /\ state' \in [Servers -> {"out", "registering", "registered"}]
  <2>1. PICK k \in 1..num :
            /\ connections' = [connections EXCEPT ![k] = connections[num],
                                                  ![num] = NoServer]
            /\ num' = num - 1
    BY <1>4 DEF Unregister, RemoveEntry
  <2>2. /\ num \in 1..MaxConnections /\ num' = num - 1
        /\ k \in Slots /\ num \in Slots
    BY <2>1, ServersAssumption DEF TypeOK, Slots
  <2>3. connections[num] \in Servers \union {NoServer} /\ connections[num] # NoServer
    <3>1. ~(num > num)
      BY <2>2
    <3>2. QED
      BY <2>2, <3>1 DEF TypeOK
  <2>4. \A l \in Slots : connections'[l] = NoServer <=> l > num'
    BY <2>1, <2>2, <2>3 DEF TypeOK, Slots
  <2>5. connections' \in [Slots -> Servers \union {NoServer}]
    BY <2>1, <2>2, <2>3 DEF TypeOK
  <2>6. num' \in 0..MaxConnections
    BY <2>2, ServersAssumption
  <2>7. QED
    BY <1>4, <2>4, <2>5, <2>6 DEF Unregister, TypeOK
<1>5. QED
  BY <1>1, <1>2, <1>3, <1>4, TableFrame

LEMMA PipeTypes ==
    ASSUME TypeOK, TableConsistent, [Next]_vars
    PROVE  /\ toMonitor' \in [Servers -> Seq(Commands)]
           /\ toServer' \in [Servers -> Seq(Statuses)]
           /\ heard' \in [Servers -> Statuses \union {"none"}]
           /\ issued' \in Nat
<1>1. CASE UNCHANGED pipeVars
  BY <1>1 DEF pipeVars, TypeOK
<1>2. CASE ReadCommand
  <2>1. connections[i] \in Servers
    BY <1>2, ServersAssumption DEF ReadCommand, TypeOK, Slots
  <2>2. Tail(toMonitor[connections[i]]) \in Seq(Commands)
    BY <1>2, <2>1, HeadTailProperties DEF ReadCommand, TypeOK
  <2>3. QED
    BY <1>2, <2>2 DEF ReadCommand, TypeOK
<1>3. CASE NotifyOne
  <2>1. connections[n] \in Servers
    BY <1>3, ServersAssumption DEF NotifyOne, TypeOK, Slots
  <2>2. Append(toServer[connections[n]], note) \in Seq(Statuses)
    BY <2>1, AppendProperties DEF TypeOK
  <2>3. QED
    BY <1>3, <2>2 DEF NotifyOne, TypeOK
<1>4. CASE \E s \in Commanders : Unregister(s)
  <2>1. << >> \in Seq(Commands)
    BY EmptySeq
  <2>2. << >> \in Seq(Statuses)
    BY EmptySeq
  <2>3. PICK s \in Commanders : Unregister(s)
    BY <1>4
  <2>4. toMonitor' \in [Servers -> Seq(Commands)]
    BY <2>1, <2>3 DEF Unregister, TypeOK
  <2>5. toServer' \in [Servers -> Seq(Statuses)]
    BY <2>2, <2>3 DEF Unregister, TypeOK
  <2>6. heard' \in [Servers -> Statuses \union {"none"}] /\ issued' \in Nat
    BY <2>3 DEF Unregister, TypeOK
  <2>7. QED
    BY <2>4, <2>5, <2>6
<1>5. ASSUME NEW s \in Commanders, NEW c \in Commands, SendCommand(s, c)
      PROVE  /\ toMonitor' \in [Servers -> Seq(Commands)]
             /\ toServer' \in [Servers -> Seq(Statuses)]
             /\ heard' \in [Servers -> Statuses \union {"none"}]
             /\ issued' \in Nat
  <2>1. Append(toMonitor[s], c) \in Seq(Commands)
    BY AppendProperties DEF TypeOK, Servers
  <2>2. issued' \in Nat
    BY <1>5 DEF SendCommand, TypeOK
  <2>3. toMonitor' \in [Servers -> Seq(Commands)]
    BY <1>5, <2>1 DEF SendCommand, TypeOK
  <2>4. QED
    BY <1>5, <2>2, <2>3 DEF SendCommand, TypeOK
<1>6. ASSUME NEW s \in Servers, ReadStatus(s)
      PROVE  /\ toMonitor' \in [Servers -> Seq(Commands)]
             /\ toServer' \in [Servers -> Seq(Statuses)]
             /\ heard' \in [Servers -> Statuses \union {"none"}]
             /\ issued' \in Nat
  <2>1. Tail(toServer[s]) \in Seq(Statuses) /\ Head(toServer[s]) \in Statuses
    BY <1>6, HeadTailProperties DEF ReadStatus, TypeOK
  <2>2. QED
    BY <1>6, <2>1 DEF ReadStatus, TypeOK
<1>7. QED
  BY <1>1, <1>2, <1>3, <1>4, <1>5, <1>6, PipeFrame

LEMMA MonitorTypes ==
    ASSUME TypeOK, TableConsistent, BroadcastInv, [Next]_vars
    PROVE  /\ pc' \in PCs
           /\ pipes_mutex' \in {"free", "monitor", "abandoned"}
           /\ readset' \subseteq Fds
           /\ i' \in 1..(MaxConnections + 1)
           /\ n' \in 1..(MaxConnections + 1)
           /\ note' \in Statuses
           /\ target_is_running' \in BOOLEAN
<1>1. CASE UNCHANGED <<monitorVars, pipes_mutex>>
  BY <1>1 DEF monitorVars, TypeOK
<1>2. CASE UNCHANGED monitorVars /\ \E s \in Commanders : RegisterFails(s)
  BY <1>2 DEF RegisterFails, monitorVars, TypeOK
<1>3. CASE MonitorStep
  <2>1. pc' \in PCs /\ pipes_mutex' \in {"free", "monitor", "abandoned"}
    BY <1>3 DEF MonitorStep, TypeOK, PCs, Snapshot, SelectReady, SelectNothing,
                LockScan, ScanSkip, ReadCommand, NotifyOne, NotifiedCmd,
                ScanDone, PollNothing, PollStopped, LockPoll, NotifiedPoll
  <2>2. note' \in Statuses /\ target_is_running' \in BOOLEAN
    BY <1>3 DEF MonitorStep, TypeOK, Statuses, Snapshot, SelectReady,
                SelectNothing, LockScan, ScanSkip, ReadCommand, NotifyOne,
                NotifiedCmd, ScanDone, PollNothing, PollStopped, LockPoll,
                NotifiedPoll, StallCommand, UnstallCommand, StallCpu
  <2>3. OpenFds \subseteq Fds
    <3>1. ASSUME NEW k \in 1..num PROVE fd[connections[k]] \in Fds
      <4>1. connections[k] \in Servers
        BY ServersAssumption DEF TypeOK, Slots
      <4>2. Registered(connections[k])
        BY DEF Registered
      <4>3. QED
        BY <4>1, <4>2 DEF TypeOK, TableConsistent
    <3>2. QED
      BY <3>1 DEF OpenFds
  <2>4. readset' \subseteq Fds
    BY <1>3, <2>3 DEF MonitorStep, TypeOK, Snapshot, SelectReady, SelectNothing,
                LockScan, ScanSkip, ReadCommand, NotifyOne, NotifiedCmd,
                ScanDone, PollNothing, PollStopped, LockPoll, NotifiedPoll
  <2>5. i' \in 1..(MaxConnections + 1) /\ n' \in 1..(MaxConnections + 1)
    <3>1. CASE ScanSkip \/ NotifiedCmd
      BY <1>3, <3>1, ServersAssumption
         DEF TypeOK, ScanSkip, NotifiedCmd, BroadcastInv
    <3>2. CASE NotifyOne
      BY <1>3, <3>2, ServersAssumption DEF TypeOK, NotifyOne
    <3>3. CASE i' \in {i, 1} /\ n' \in {n, 1}
      BY <3>3, ServersAssumption DEF TypeOK
    <3>4. QED
      BY <1>3, <3>1, <3>2, <3>3 DEF MonitorStep, Snapshot, SelectReady,
         SelectNothing, LockScan, ReadCommand, ScanDone, PollNothing,
         PollStopped, LockPoll, NotifiedPoll
  <2>6. QED
    BY <2>1, <2>2, <2>4, <2>5
<1>4. QED
  BY <1>1, <1>2, <1>3, MonitorFrame

LEMMA TypeStep ==
    ASSUME TypeOK, TableConsistent, BroadcastInv, [Next]_vars
    PROVE  TypeOK'
<1>1. cpuStalled' \in BOOLEAN /\ lostStall' \in BOOLEAN
  BY DEF TypeOK, Next, vars, cpuVars, MonitorStep, CommanderStep, Snapshot,
         SelectReady, SelectNothing, LockScan, ScanSkip, ReadCommand, NotifyOne,
         NotifiedCmd, ScanDone, PollNothing, PollStopped, LockPoll,
         NotifiedPoll, StallCommand, UnstallCommand, StallCpu, RegisterCheck,
         RegisterLocked, RegisterFails, Unregister, SendCommand, ReadStatus,
         Attach, Detach, CpuStops
<1>2. attached' \subseteq Listeners
  BY DEF TypeOK, Next, vars, MonitorStep, CommanderStep, Snapshot, SelectReady,
         SelectNothing, LockScan, ScanSkip, ReadCommand, NotifyOne, NotifiedCmd,
         ScanDone, PollNothing, PollStopped, LockPoll, NotifiedPoll,
         RegisterCheck, RegisterLocked, RegisterFails, Unregister, SendCommand,
         ReadStatus, Attach, Detach, CpuStops
<1>3. QED
  BY <1>1, <1>2, TableTypes, PipeTypes, MonitorTypes DEF TypeOK

-----------------------------------------------------------------------------
(* What the monitor knows is preserved.                                    *)

LEMMA LockStep ==
    ASSUME TypeOK, LockInv, [Next]_vars
    PROVE  LockInv'
<1>1. CASE UNCHANGED <<monitorVars, pipes_mutex>>
  BY <1>1 DEF monitorVars, LockInv
<1>2. CASE UNCHANGED monitorVars /\ \E s \in Commanders : RegisterFails(s)
  BY <1>2 DEF RegisterFails, LockPipes, monitorVars, LockInv
<1>3. CASE MonitorStep
  BY <1>3 DEF MonitorStep, TypeOK, LockInv, LockPipes, Snapshot, SelectReady,
     SelectNothing, LockScan, ScanSkip, ReadCommand, NotifyOne, NotifiedCmd,
     ScanDone, PollNothing, PollStopped, LockPoll, NotifiedPoll
<1>4. QED
  BY <1>1, <1>2, <1>3, MonitorFrame

\* The table cannot change under a broadcast: its steps need a free lock.
LEMMA TableIsLocked ==
    ASSUME LockInv, pc \in {"scan", "notifyCmd", "notifyPoll"}, [Next]_vars
    PROVE  UNCHANGED <<connections, num, fd>>
BY TableFrame DEF LockInv, LockPipes, tableVars, RegisterCheck, RegisterLocked,
   RegisterFails, Unregister

LEMMA BroadcastStep ==
    ASSUME TypeOK, LockInv, BroadcastInv, [Next]_vars
    PROVE  BroadcastInv'
<1>1. pc = "notifyCmd" => num' = num
  BY TableIsLocked
<1>2. CASE UNCHANGED monitorVars
  BY <1>1, <1>2 DEF monitorVars, BroadcastInv
<1>3. CASE ReadCommand
  <2>1. i' <= num'
    BY <1>3 DEF ReadCommand, tableVars
  <2>2. note' = "R" <=> target_is_running'
    BY <1>3 DEF ReadCommand, StallCommand, UnstallCommand, StallCpu, TypeOK
  <2>3. QED
    BY <1>3, <2>1, <2>2 DEF ReadCommand, BroadcastInv
<1>4. CASE MonitorStep /\ ~ReadCommand
  BY <1>1, <1>4 DEF MonitorStep, BroadcastInv, tableVars, Snapshot, SelectReady,
     SelectNothing, LockScan, ScanSkip, NotifyOne, NotifiedCmd, ScanDone,
     PollNothing, PollStopped, LockPoll, NotifiedPoll
<1>5. QED
  BY <1>2, <1>3, <1>4, MonitorFrame DEF monitorVars

LEMMA StopStep ==
    ASSUME TypeOK, StopInv, [Next]_vars
    PROVE  StopInv'
<1>1. CASE ReadCommand
  <2>1. CASE StallCommand /\ target_is_running
    BY <2>1 DEF StallCommand, StallCpu, StopInv
  <2>2. CASE UnstallCommand /\ ~target_is_running
    BY <2>2 DEF UnstallCommand, StallCpu, StopInv
  <2>3. CASE UNCHANGED <<cpuVars, target_is_running>>
    BY <2>3 DEF StopInv, cpuVars
  <2>4. QED
    BY <1>1, <2>1, <2>2, <2>3 DEF ReadCommand, StallCommand, UnstallCommand
<1>2. CASE PollStopped
  BY <1>2 DEF PollStopped, StopInv, cpuVars
<1>3. CASE CpuStops
  BY <1>3 DEF CpuStops, StopInv
<1>4. CASE UNCHANGED <<target_is_running, cpuVars>>
  BY <1>4 DEF StopInv, cpuVars
<1>5. QED
  BY <1>1, <1>2, <1>3, <1>4 DEF Next, vars, monitorVars, MonitorStep,
     CommanderStep, Snapshot, SelectReady, SelectNothing, LockScan, ScanSkip,
     NotifyOne, NotifiedCmd, ScanDone, PollNothing, LockPoll, NotifiedPoll,
     RegisterCheck, RegisterLocked, RegisterFails, Unregister, SendCommand,
     ReadStatus, Attach, Detach

LEMMA FreshStep ==
    ASSUME TypeOK, TableConsistent, FreshPipes, [Next]_vars
    PROVE  FreshPipes'
<1>1. CASE UNCHANGED pipeVars /\ \A s \in Commanders : ~Unregister(s)
  <2>1. \A s \in Servers : state'[s] # "registered" => state[s] # "registered"
    BY <1>1, TableFrame DEF tableVars, RegisterCheck, RegisterLocked,
       RegisterFails, TypeOK, Servers
  <2>2. QED
    BY <1>1, <2>1 DEF pipeVars, FreshPipes
<1>2. CASE ReadCommand
  <2>1. state[connections[i]] = "registered"
    <3>1. i \in 1..num /\ connections[i] \in Servers
      BY <1>2, ServersAssumption DEF ReadCommand, TypeOK, Slots
    <3>2. QED
      BY <3>1 DEF TableConsistent, Registered
  <2>2. QED
    BY <1>2, <2>1 DEF ReadCommand, FreshPipes, tableVars, TypeOK
<1>3. CASE NotifyOne
  <2>1. state[connections[n]] = "registered"
    <3>1. n \in 1..num /\ connections[n] \in Servers
      BY <1>3, ServersAssumption DEF NotifyOne, TypeOK, Slots
    <3>2. QED
      BY <3>1 DEF TableConsistent, Registered
  <2>2. QED
    BY <1>3, <2>1 DEF NotifyOne, FreshPipes, tableVars, TypeOK
<1>4. CASE \E s \in Commanders : Unregister(s)
  BY <1>4 DEF Unregister, FreshPipes, TypeOK, Servers
<1>5. CASE \E s \in Commanders, c \in Commands : SendCommand(s, c)
  BY <1>5 DEF SendCommand, FreshPipes, tableVars, TypeOK, Servers
<1>6. CASE \E s \in Servers : ReadStatus(s)
  BY <1>6 DEF ReadStatus, FreshPipes, tableVars, TypeOK
<1>7. QED
  BY <1>1, <1>2, <1>3, <1>4, <1>5, <1>6, PipeFrame

-----------------------------------------------------------------------------
(* Every settled server was last told what the monitor believes.           *)

\* The last element of a queue survives the removal of the first, or is it.
LEMMA LastAfterTail ==
    ASSUME NEW S, NEW q \in Seq(S), q # << >>
    PROVE  q[Len(q)] = IF Tail(q) = << >> THEN Head(q)
                                          ELSE Tail(q)[Len(Tail(q))]
<1> DEFINE r == Tail(q)
<1>1. /\ r \in Seq(S)
      /\ Len(r) = Len(q) - 1
      /\ \A k \in 1..Len(r) : r[k] = q[k + 1]
  BY HeadTailProperties
<1>2. Len(q) \in Nat \ {0}
  BY EmptySeq
<1>3. Head(q) = q[1]
  OBVIOUS
<1>4. Len(r) \in Nat /\ (r # << >> => Len(r) # 0)
  BY <1>1, EmptySeq
<1>5. r = << >> => Len(r) = 0
  BY EmptySeq
<1> HIDE DEF r
<1>6. CASE r = << >>
  <2>1. Len(q) = 1
    BY <1>1, <1>2, <1>5, <1>6
  <2>2. QED
    BY <1>3, <1>6, <2>1 DEF r
<1>7. CASE r # << >>
  <2>1. Len(r) \in 1..Len(r)
    BY <1>4, <1>7
  <2>2. r[Len(r)] = q[Len(r) + 1]
    BY <1>1, <2>1
  <2>3. Len(r) + 1 = Len(q)
    BY <1>1, <1>2, <1>4
  <2>4. q[Len(q)] = r[Len(r)]
    BY <2>2, <2>3
  <2>5. QED
    BY <1>7, <2>4 DEF r
<1>8. QED
  BY <1>6, <1>7

\* Reading a status does not change the last word.
LEMMA ReadKeepsLastWord ==
    ASSUME TypeOK, NEW t \in Servers, ReadStatus(t), NEW s \in Servers
    PROVE  LastWord(s)' = LastWord(s)
<1>1. CASE s # t
  BY <1>1 DEF ReadStatus, TypeOK, LastWord
<1>2. CASE s = t
  <2>1. toServer[t] \in Seq(Statuses) /\ toServer[t] # << >>
    BY DEF ReadStatus, TypeOK
  <2>2. toServer'[t] = Tail(toServer[t]) /\ heard'[t] = Head(toServer[t])
    BY DEF ReadStatus, TypeOK
  <2>3. LastWord(t) = toServer[t][Len(toServer[t])]
    BY <2>1 DEF LastWord
  <2>4. LastWord(t)' = IF Tail(toServer[t]) = << >>
                       THEN Head(toServer[t])
                       ELSE Tail(toServer[t])[Len(Tail(toServer[t]))]
    BY <2>2 DEF LastWord
  <2>5. QED
    BY <1>2, <2>1, <2>3, <2>4, LastAfterTail
<1>3. QED
  BY <1>1, <1>2

\* A broadcast makes its status the last word of the server it writes to.
LEMMA NotifySetsLastWord ==
    ASSUME TypeOK, TableConsistent, NotifyOne, NEW s \in Servers
    PROVE  LastWord(s)' = IF s = connections[n] THEN note ELSE LastWord(s)
<1>1. CASE s # connections[n]
  BY <1>1 DEF NotifyOne, TypeOK, LastWord
<1>2. CASE s = connections[n]
  <2>1. toServer'[s] = Append(toServer[s], note)
    BY <1>2 DEF NotifyOne, TypeOK
  <2>2. toServer[s] \in Seq(Statuses) /\ note \in Statuses
    BY DEF TypeOK
  <2>3. /\ toServer'[s] # << >>
        /\ toServer'[s][Len(toServer'[s])] = note
    BY <2>1, <2>2, AppendProperties
  <2>4. QED
    BY <1>2, <2>3 DEF LastWord
<1>3. QED
  BY <1>1, <1>2

LEMMA StatusStep ==
    ASSUME TypeOK, TableConsistent, LockInv, BroadcastInv, FreshPipes,
           StatusIsCurrent, [Next]_vars
    PROVE  StatusIsCurrent'
<1> SUFFICES ASSUME NEW s \in Servers, (state[s] = "registered")', Settled(s)'
             PROVE  (LastWord(s) \in {"none", Told})'
  BY DEF StatusIsCurrent
<1>1. CASE NotifyOne
  <2>1. Told' = Told /\ note = Told
    BY <1>1 DEF NotifyOne, Told, BroadcastInv, TypeOK, Statuses
  <2>2. CASE s = connections[n]
    BY <1>1, <2>1, <2>2, NotifySetsLastWord
  <2>3. CASE s # connections[n]
    <3>1. PICK k \in 1..num : k < n + 1 /\ connections[k] = s
      BY <1>1 DEF NotifyOne, tableVars, Settled
    <3>2. k < n
      BY <2>3, <3>1 DEF TypeOK
    <3>3. Settled(s) /\ state[s] = "registered"
      BY <1>1, <3>1, <3>2 DEF Settled, NotifyOne, tableVars
    <3>4. QED
      BY <1>1, <2>1, <2>3, <3>3, NotifySetsLastWord DEF StatusIsCurrent
  <2>4. QED
    BY <2>2, <2>3
<1>2. CASE NotifiedCmd \/ NotifiedPoll
  <2>1. state[s] = "registered" /\ LastWord(s)' = LastWord(s)
    BY <1>2 DEF NotifiedCmd, NotifiedPoll, tableVars, pipeVars, LastWord
  <2>2. Settled(s)
    <3>1. PICK k \in 1..num : connections[k] = s
      BY <2>1 DEF TableConsistent, Registered
    <3>2. k < n
      BY <1>2 DEF NotifiedCmd, NotifiedPoll, TypeOK
    <3>3. QED
      BY <3>1, <3>2 DEF Settled
  <2>3. Told' = Told
    BY <1>2 DEF NotifiedCmd, NotifiedPoll, Told
  <2>4. QED
    BY <2>1, <2>2, <2>3 DEF StatusIsCurrent
<1>3. CASE ReadCommand \/ LockPoll
  <2>1. pc' \in {"notifyCmd", "notifyPoll"} /\ n' = 1
    BY <1>3 DEF ReadCommand, LockPoll
  <2>2. QED
    BY <2>1 DEF Settled
<1>4. CASE PollStopped
  BY <1>4 DEF PollStopped, StatusIsCurrent, Settled, LastWord, Told, tableVars,
              pipeVars
<1>5. CASE \/ Snapshot \/ SelectReady \/ SelectNothing \/ LockScan \/ ScanSkip
           \/ ScanDone \/ PollNothing
  <2>1. Settled(s) /\ state[s] = "registered" /\ LastWord(s)' = LastWord(s)
    BY <1>5 DEF Snapshot, SelectReady, SelectNothing, LockScan, ScanSkip,
       ScanDone, PollNothing, Settled, LastWord, tableVars, pipeVars
  <2>2. Told' = Told
    BY <1>5 DEF Snapshot, SelectReady, SelectNothing, LockScan, ScanSkip,
       ScanDone, PollNothing, Told
  <2>3. QED
    BY <2>1, <2>2 DEF StatusIsCurrent
<1>6. ASSUME NEW t \in Commanders, RegisterLocked(t) \/ Unregister(t)
      PROVE  (LastWord(s) \in {"none", Told})'
  <2>1. pc' = pc /\ pc \notin {"notifyCmd", "notifyPoll"} /\ Told' = Told
    BY <1>6 DEF RegisterLocked, Unregister, LockPipes, monitorVars, LockInv, Told
  <2>2. Settled(s)
    BY <2>1 DEF Settled
  <2>3. CASE s = t
    BY <1>6, <2>3 DEF RegisterLocked, Unregister, pipeVars, FreshPipes, LastWord,
                      TypeOK, Servers
  <2>4. CASE s # t
    <3>1. state[s] = "registered" /\ LastWord(s)' = LastWord(s)
      BY <1>6, <2>4 DEF RegisterLocked, Unregister, pipeVars, LastWord, TypeOK
    <3>2. QED
      BY <2>1, <2>2, <3>1 DEF StatusIsCurrent
  <2>5. QED
    BY <2>3, <2>4
<1>7. ASSUME NEW t \in Servers, ReadStatus(t)
      PROVE  (LastWord(s) \in {"none", Told})'
  <2>1. Settled(s) /\ state[s] = "registered" /\ Told' = Told
    BY <1>7 DEF ReadStatus, tableVars, monitorVars, Settled, Told
  <2>2. QED
    BY <1>7, <2>1, ReadKeepsLastWord DEF StatusIsCurrent
<1>8. CASE UNCHANGED <<monitorVars, connections, num, toServer, heard>>
           /\ (state[s] = "registered")
  BY <1>8 DEF StatusIsCurrent, Settled, LastWord, Told, monitorVars
<1>9. ASSUME NEW t \in Commanders, RegisterCheck(t) \/ RegisterFails(t)
                                   \/ \E c \in Commands : SendCommand(t, c)
      PROVE  /\ UNCHANGED <<monitorVars, connections, num, toServer, heard>>
             /\ state[s] = "registered"
  BY <1>9 DEF RegisterCheck, RegisterFails, SendCommand, pipeVars, tableVars,
              TypeOK
<1>10. CASE (\E t \in Listeners : Attach(t) \/ Detach(t)) \/ CpuStops
            \/ UNCHANGED vars
  <2>1. /\ UNCHANGED <<monitorVars, connections, num, toServer, heard>>
        /\ state[s] = "registered"
    BY <1>10 DEF Attach, Detach, CpuStops, vars, pipeVars, tableVars
  <2>2. QED
    BY <1>8, <2>1
<1>11. QED
  BY <1>1, <1>2, <1>3, <1>4, <1>5, <1>6, <1>7, <1>8, <1>9, <1>10
     DEF Next, MonitorStep, CommanderStep

-----------------------------------------------------------------------------
(* The theorems.                                                           *)

\* The inductive invariant holds of the specification.
THEOREM InductiveInvariant == Spec => []IInv
<1>1. IInv /\ [Next]_vars => IInv'
  BY TableStep, TypeStep, LockStep, BroadcastStep, StopStep, FreshStep,
     StatusStep DEF IInv
<1>2. QED
  BY InitInv, <1>1, PTL DEF Spec

\* The monitor's variables keep their types: every index into connections[]
\* and every count stays within the array.
THEOREM TypeCorrect == Spec => []TypeOK
<1>1. IInv => TypeOK
  BY DEF IInv
<1>2. QED
  BY InductiveInvariant, <1>1, PTL

\* connections[], num and the servers' descriptors agree in every state.
THEOREM TableIsConsistent == Spec => []TableConsistent
<1>1. IInv => TableConsistent
  BY DEF IInv
<1>2. QED
  BY InductiveInvariant, <1>1, PTL

\* A registration that passed the unlocked test still finds room when it has
\* the lock, as long as there are at most as many servers as slots.
THEOREM RegistrationFits == Spec => []SlotInBounds
<1>1. IInv => SlotInBounds
  BY RoomForOne DEF IInv, SlotInBounds
<1>2. QED
  BY InductiveInvariant, <1>1, PTL

\* The last status sent to a server is what the monitor believes.
THEOREM StatusStaysCurrent == Spec => []StatusIsCurrent
<1>1. IInv => StatusIsCurrent
  BY DEF IInv
<1>2. QED
  BY InductiveInvariant, <1>1, PTL

\* A server last told "H" talks to a CPU that is stalled, failed accesses
\* apart: it follows from StatusIsCurrent and StopInv.
THEOREM HaltStaysTrue == Spec => []HaltIsTrue
<1>1. IInv => HaltIsTrue
  BY DEF IInv, HaltIsTrue, StatusIsCurrent, StopInv, Told
<1>2. QED
  BY InductiveInvariant, <1>1, PTL

\* The monitor resumes the CPU only for a "U" it reads, under the lock, when
\* every server was told of the stop.
THEOREM ResumeIsCommanded == Spec => ResumeOnlyOnCommand
<1> DEFINE A == cpuStalled /\ ~cpuStalled' =>
          /\ ~target_is_running
          /\ pipes_mutex = "monitor"
          /\ \E s \in Servers :
                 /\ toMonitor[s] # << >>
                 /\ Head(toMonitor[s]) = "U"
                 /\ toMonitor'[s] = Tail(toMonitor[s])
          /\ \A s \in Servers :
                 state[s] = "registered" => LastWord(s) \in {"none", "H"}
<1>1. IInv /\ [Next]_vars => [A]_vars
  <2> SUFFICES ASSUME IInv, [Next]_vars, cpuStalled, ~cpuStalled' PROVE A
    OBVIOUS
  <2>1. ReadCommand
    BY DEF Next, vars, cpuVars, MonitorStep, CommanderStep, Snapshot,
       SelectReady, SelectNothing, LockScan, ScanSkip, NotifyOne, NotifiedCmd,
       ScanDone, PollNothing, PollStopped, LockPoll, NotifiedPoll,
       RegisterCheck, RegisterLocked, RegisterFails, Unregister, SendCommand,
       ReadStatus, Attach, Detach, CpuStops
  <2>2. UnstallCommand /\ ~target_is_running
    BY <2>1 DEF ReadCommand, StallCommand, UnstallCommand, StallCpu, cpuVars
  <2>3. pipes_mutex = "monitor" /\ pc = "scan"
    BY <2>1 DEF ReadCommand, IInv, LockInv
  <2>4. connections[i] \in Servers
    BY <2>1, ServersAssumption DEF ReadCommand, IInv, TypeOK, Slots
  <2>5. /\ toMonitor[connections[i]] # << >>
        /\ Head(toMonitor[connections[i]]) = "U"
        /\ toMonitor'[connections[i]] = Tail(toMonitor[connections[i]])
    BY <2>1, <2>2, <2>4 DEF ReadCommand, UnstallCommand, IInv, TypeOK
  <2>6. \A s \in Servers :
            state[s] = "registered" => LastWord(s) \in {"none", "H"}
    BY <2>2, <2>3 DEF IInv, StatusIsCurrent, Settled, Told
  <2>7. QED
    BY <2>2, <2>3, <2>4, <2>5, <2>6
<1>2. QED
  BY InductiveInvariant, <1>1, PTL DEF Spec, ResumeOnlyOnCommand

-----------------------------------------------------------------------------
(* The monitor implements the atomic broadcast of StatusBroadcast.tla.     *)
(*                                                                         *)
(* A step that begins a broadcast is the abstract step that serves it: the *)
(* status a server has not been sent yet is owed to it and counts as being *)
(* in its inbox.  The writes of notify_listeners() pay what is owed and    *)
(* are stutters.  Registration, which needs the lock, meets no broadcast.  *)

\* Nothing is owed outside a broadcast.
LEMMA NothingOwed ==
    ASSUME pc \notin {"notifyCmd", "notifyPoll"}, NEW s
    PROVE  Owed(s) = << >>
BY DEF Owed, Settled

LEMMA InitRefines == Init => Broadcast!Init
<1> SUFFICES ASSUME Init PROVE Broadcast!Init
  OBVIOUS
<1>1. targetRuns = TRUE /\ toMonitor = [s \in Servers |-> << >>]
  BY DEF Init, targetRuns
<1>2. joinedServers = Listeners
  BY DEF Init, joinedServers, Servers
<1>3. inboxes = [s \in Servers |-> << >>]
  <2>1. ASSUME NEW s \in Servers PROVE toServer[s] \o Owed(s) = << >>
    <3>1. toServer[s] = << >> /\ Owed(s) = << >>
      BY NothingOwed DEF Init
    <3>2. << >> \in Seq({})
      BY EmptySeq
    <3>3. QED
      BY <3>1, <3>2, ConcatEmptySeq
  <2>2. QED
    BY <2>1 DEF inboxes
<1>4. QED
  BY <1>1, <1>2, <1>3 DEF Broadcast!Init

\* A sequence with nothing or one status owed after it: paying what is owed
\* and taking the first element commute with each other.
LEMMA OwedOne ==
    ASSUME NEW S, NEW q \in Seq(S), NEW e \in S
    PROVE  /\ Append(q \o << >>, e) = q \o <<e>>
           /\ Append(q, e) \o << >> = q \o <<e>>
<1>1. q \o << >> = q /\ Append(q, e) \o << >> = Append(q, e)
  BY ConcatEmptySeq, AppendProperties
<1>2. Append(q, e) = q \o <<e>>
  BY AppendIsConcat
<1>3. QED
  BY <1>1, <1>2

LEMMA TailBeforeOwed ==
    ASSUME NEW S, NEW q \in Seq(S), q # << >>, NEW e \in S
    PROVE  /\ q \o << >> # << >> /\ q \o <<e>> # << >>
           /\ Tail(q \o << >>) = Tail(q) \o << >>
           /\ Tail(q \o <<e>>) = Tail(q) \o <<e>>
<1>1. Tail(q) \in Seq(S)
  BY HeadTailProperties
<1>2. q \o << >> = q /\ Tail(q) \o << >> = Tail(q)
  BY <1>1, ConcatEmptySeq
<1>3. q \o <<e>> = Append(q, e) /\ Tail(q) \o <<e>> = Append(Tail(q), e)
  BY <1>1, AppendIsConcat
<1>4. Append(q, e) # << >>
  BY AppendProperties
<1>5. Tail(Append(q, e)) = Append(Tail(q), e)
  BY HeadTailAppend
<1>6. QED
  BY <1>2, <1>3, <1>4, <1>5

\* A step is invisible if it moves no pipe, no membership and no belief, and
\* stays outside the broadcasts.
LEMMA QuietStep ==
    ASSUME pc \notin {"notifyCmd", "notifyPoll"},
           pc' \notin {"notifyCmd", "notifyPoll"},
           UNCHANGED <<toMonitor, toServer, joinedServers, targetRuns>>
    PROVE  UNCHANGED Broadcast!vars
<1>1. \A s \in Servers : Owed(s) = << >> /\ Owed(s)' = << >>
  BY DEF Owed, Settled
<1>2. inboxes' = inboxes
  BY <1>1 DEF inboxes
<1>3. QED
  BY <1>2 DEF Broadcast!vars

\* The steps of the scan, the poll and select().
LEMMA LoopRefines ==
    ASSUME TypeOK,
           \/ Snapshot \/ SelectReady \/ SelectNothing \/ LockScan \/ ScanSkip
           \/ ScanDone \/ PollNothing \/ PollStopped
    PROVE  UNCHANGED Broadcast!vars
<1>1. /\ pc \notin {"notifyCmd", "notifyPoll"}
      /\ pc' \notin {"notifyCmd", "notifyPoll"}
  BY DEF Snapshot, SelectReady, SelectNothing, LockScan, ScanSkip, ScanDone,
         PollNothing, PollStopped
<1>2. UNCHANGED <<toMonitor, toServer, state>>
  BY DEF Snapshot, SelectReady, SelectNothing, LockScan, ScanSkip, ScanDone,
         PollNothing, PollStopped, pipeVars, tableVars
<1>3. targetRuns' = targetRuns
  BY DEF Snapshot, SelectReady, SelectNothing, LockScan, ScanSkip, ScanDone,
         PollNothing, PollStopped, targetRuns, TypeOK
<1>4. QED
  BY <1>1, <1>2, <1>3, QuietStep DEF joinedServers

\* A write of notify_listeners() pays what is owed to one server.
LEMMA NotifyRefines ==
    ASSUME IInv, NotifyOne
    PROVE  UNCHANGED Broadcast!vars
<1>1. UNCHANGED <<toMonitor, joinedServers, targetRuns>>
  BY DEF NotifyOne, joinedServers, targetRuns, tableVars
<1>2. ASSUME NEW s \in Servers
      PROVE  toServer'[s] \o Owed(s)' = toServer[s] \o Owed(s)
  <2>1. n \in 1..num /\ pc' = pc /\ pc \in {"notifyCmd", "notifyPoll"}
    BY DEF NotifyOne, IInv, TypeOK
  <2>2. CASE s = connections[n]
    <3>1. toServer'[s] = Append(toServer[s], note)
      BY <2>2 DEF NotifyOne, IInv, TypeOK
    <3>2. state[s] = "registered" /\ state'[s] = "registered"
      BY <2>1, <2>2 DEF NotifyOne, tableVars, IInv, TableConsistent, Registered
    <3>3. ~Settled(s)
      <4>1. \A k \in 1..num : connections[k] = s => k = n
        BY <2>1, <2>2 DEF IInv, TableConsistent
      <4>2. ~(n < n)
        BY <2>1 DEF IInv, TypeOK
      <4>3. QED
        BY <2>1, <4>1, <4>2 DEF Settled
    <3>4. Settled(s)'
      BY <2>1, <2>2 DEF Settled, NotifyOne, tableVars, IInv, TypeOK
    <3>5. Owed(s) = <<note>> /\ Owed(s)' = << >>
      BY <3>2, <3>3, <3>4 DEF Owed
    <3>6. toServer[s] \in Seq(Statuses) /\ note \in Statuses
      BY DEF IInv, TypeOK
    <3>7. QED
      BY <3>1, <3>5, <3>6, OwedOne
  <2>3. CASE s # connections[n]
    <3>1. toServer'[s] = toServer[s]
      BY <2>3 DEF NotifyOne, IInv, TypeOK
    <3>2. UNCHANGED <<connections, num, state, note>>
      BY DEF NotifyOne, tableVars
    <3>3. Settled(s)' <=> Settled(s)
      <4>1. \A k \in 1..num : connections[k] = s => (k < n + 1 <=> k < n)
        BY <2>1, <2>3 DEF IInv, TypeOK
      <4>2. QED
        BY <2>1, <3>2, <4>1 DEF Settled, NotifyOne
    <3>4. QED
      BY <3>1, <3>2, <3>3 DEF Owed
  <2>4. QED
    BY <2>2, <2>3
<1>3. inboxes' = inboxes
  BY <1>2 DEF inboxes
<1>4. QED
  BY <1>1, <1>3 DEF Broadcast!vars

\* When notify_listeners() returns nothing is owed any more.
LEMMA NotifiedRefines ==
    ASSUME IInv, NotifiedCmd \/ NotifiedPoll
    PROVE  UNCHANGED Broadcast!vars
<1>1. UNCHANGED <<toMonitor, toServer, state, targetRuns>>
  BY DEF NotifiedCmd, NotifiedPoll, targetRuns, tableVars, pipeVars
<1>2. \A s \in Servers : Owed(s) = << >>
  <2> SUFFICES ASSUME NEW s \in Servers, state[s] = "registered"
               PROVE  Settled(s)
    BY DEF Owed
  <2>1. PICK k \in 1..num : connections[k] = s
    BY DEF IInv, TableConsistent, Registered
  <2>2. k < n
    BY DEF NotifiedCmd, NotifiedPoll, IInv, TypeOK
  <2>3. QED
    BY <2>1, <2>2 DEF Settled
<1>3. \A s \in Servers : Owed(s)' = << >>
  BY DEF Owed, Settled, NotifiedCmd, NotifiedPoll
<1>4. inboxes' = inboxes
  BY <1>1, <1>2, <1>3 DEF inboxes
<1>5. QED
  BY <1>1, <1>4 DEF Broadcast!vars, joinedServers

\* Reading a command that is in the pipe begins a broadcast: the abstract
\* step serves the request and tells everyone.
LEMMA ReadCommandRefines ==
    ASSUME IInv, ReadCommand
    PROVE  \E s \in Servers : Broadcast!ServeStop(s) \/ Broadcast!ServeStart(s)
<1> DEFINE c == connections[i]
<1>1. i \in 1..num /\ c \in Servers
  BY ServersAssumption DEF ReadCommand, IInv, TypeOK, Slots
<1>2. c \in joinedServers
  BY <1>1 DEF IInv, TableConsistent, Registered, joinedServers
<1>3. /\ toMonitor[c] # << >>
      /\ toMonitor' = [toMonitor EXCEPT ![c] = Tail(@)]
      /\ joinedServers' = joinedServers
  BY DEF ReadCommand, tableVars, joinedServers
<1>4. ASSUME NEW s \in Servers
      PROVE  inboxes'[s] = IF s \in joinedServers THEN Append(inboxes[s], note')
                                                  ELSE inboxes[s]
  <2>1. toServer' = toServer /\ state' = state
    BY DEF ReadCommand, tableVars
  <2>2. Owed(s) = << >>
    BY DEF Owed, Settled, ReadCommand
  <2>3. ~Settled(s)'
    BY DEF Settled, ReadCommand
  <2>4. Owed(s)' = IF s \in joinedServers THEN <<note'>> ELSE << >>
    BY <2>1, <2>3 DEF Owed, joinedServers
  <2>5. note' \in Statuses
    BY DEF ReadCommand, StallCommand, UnstallCommand, Statuses
  <2>6. toServer[s] \in Seq(Statuses)
    BY DEF IInv, TypeOK
  <2>7. inboxes[s] = toServer[s] \o << >>
    BY <2>2 DEF inboxes
  <2>8. inboxes'[s] = toServer[s] \o (Owed(s)')
    BY <2>1 DEF inboxes
  <2>9. Append(toServer[s] \o << >>, note') = toServer[s] \o <<note'>>
    BY <2>5, <2>6, OwedOne
  <2>10. QED
    BY <2>4, <2>7, <2>8, <2>9
<1>5. ASSUME NEW status, note' = status PROVE Broadcast!Tell(status)
  BY <1>4, <1>5 DEF Broadcast!Tell, inboxes
<1>6. CASE StallCommand
  <2>1. Head(toMonitor[c]) = "S" /\ note' = "H"
    BY <1>6 DEF StallCommand
  <2>2. targetRuns' = FALSE
    BY <1>6 DEF StallCommand, StallCpu, ReadCommand, targetRuns, IInv, TypeOK
  <2>3. Broadcast!ServeStop(c)
    BY <1>2, <1>3, <1>5, <2>1, <2>2 DEF Broadcast!ServeStop
  <2>4. QED
    BY <1>1, <2>3
<1>7. CASE UnstallCommand
  <2>1. Head(toMonitor[c]) = "U" /\ note' = "R"
    BY <1>7 DEF UnstallCommand
  <2>2. targetRuns' = TRUE
    BY <1>7 DEF UnstallCommand, StallCpu, ReadCommand, targetRuns, IInv, TypeOK
  <2>3. Broadcast!ServeStart(c)
    BY <1>2, <1>3, <1>5, <2>1, <2>2 DEF Broadcast!ServeStart
  <2>4. QED
    BY <1>1, <2>3
<1>8. QED
  BY <1>6, <1>7 DEF ReadCommand

\* The poll's discovery becomes visible when its broadcast begins.
LEMMA LockPollRefines ==
    ASSUME IInv, LockPoll
    PROVE  Broadcast!FoundStopped
<1>1. UNCHANGED <<toMonitor, toServer, state, joinedServers>>
  BY DEF LockPoll, tableVars, pipeVars, joinedServers
<1>2. targetRuns = TRUE /\ targetRuns' = FALSE
  BY DEF LockPoll, targetRuns, IInv, BroadcastInv
<1>3. ASSUME NEW s \in Servers
      PROVE  inboxes'[s] = IF s \in joinedServers THEN Append(inboxes[s], "H")
                                                  ELSE inboxes[s]
  <2>1. Owed(s) = << >>
    BY DEF Owed, Settled, LockPoll
  <2>2. ~Settled(s)' /\ note' = "H"
    BY DEF Settled, LockPoll
  <2>3. Owed(s)' = IF s \in joinedServers THEN <<"H">> ELSE << >>
    BY <1>1, <2>2 DEF Owed, joinedServers
  <2>4. toServer[s] \in Seq(Statuses) /\ "H" \in Statuses
    BY DEF IInv, TypeOK, Statuses
  <2>5. inboxes[s] = toServer[s] \o << >>
    BY <2>1 DEF inboxes
  <2>6. inboxes'[s] = toServer[s] \o (Owed(s)')
    BY <1>1 DEF inboxes
  <2>7. Append(toServer[s] \o << >>, "H") = toServer[s] \o <<"H">>
    BY <2>4, OwedOne
  <2>8. QED
    BY <2>3, <2>5, <2>6, <2>7
<1>4. Broadcast!Tell("H")
  BY <1>3 DEF Broadcast!Tell, inboxes
<1>5. QED
  BY <1>1, <1>2, <1>4 DEF Broadcast!FoundStopped

\* The monitor thread implements the abstract system's own steps.
LEMMA MonitorRefines ==
    ASSUME IInv, MonitorStep
    PROVE  [Broadcast!Next]_(Broadcast!vars)
<1>1. CASE \/ Snapshot \/ SelectReady \/ SelectNothing \/ LockScan \/ ScanSkip
           \/ ScanDone \/ PollNothing \/ PollStopped
  BY <1>1, LoopRefines DEF IInv
<1>2. CASE NotifyOne
  BY <1>2, NotifyRefines
<1>3. CASE NotifiedCmd \/ NotifiedPoll
  BY <1>3, NotifiedRefines
<1>4. CASE ReadCommand
  BY <1>4, ReadCommandRefines DEF Broadcast!Next
<1>5. CASE LockPoll
  BY <1>5, LockPollRefines DEF Broadcast!Next
<1>6. QED
  BY <1>1, <1>2, <1>3, <1>4, <1>5 DEF MonitorStep

-----------------------------------------------------------------------------
(* The servers' steps.                                                     *)

\* Registering and leaving need a lock that no broadcast holds.
LEMMA RegistrationRefines ==
    ASSUME IInv, NEW s \in Commanders,
           \/ RegisterCheck(s) \/ RegisterLocked(s) \/ RegisterFails(s)
           \/ Unregister(s)
    PROVE  [Broadcast!Next]_(Broadcast!vars)
<1>1. s \in Servers
  BY DEF Servers
<1>2. UNCHANGED <<pc, note, targetRuns>>
  BY DEF RegisterCheck, RegisterLocked, RegisterFails, Unregister, monitorVars,
         targetRuns
<1>3. CASE RegisterCheck(s) \/ RegisterFails(s)
  <2>1. UNCHANGED <<toMonitor, toServer, connections, num, n>>
    BY <1>3 DEF RegisterCheck, RegisterFails, pipeVars, monitorVars
  <2>2. \A t \in Servers : state'[t] = "registered" <=> state[t] = "registered"
    BY <1>3 DEF RegisterCheck, RegisterFails, IInv, TypeOK
  <2>3. joinedServers' = joinedServers
    BY <2>2 DEF joinedServers
  <2>4. ASSUME NEW t \in Servers PROVE Owed(t)' = Owed(t)
    <3>1. Settled(t)' <=> Settled(t)
      BY <1>2, <2>1 DEF Settled
    <3>2. QED
      BY <1>2, <2>2, <3>1 DEF Owed
  <2>5. inboxes' = inboxes
    BY <2>1, <2>4 DEF inboxes
  <2>6. QED
    BY <1>2, <2>1, <2>3, <2>5 DEF Broadcast!vars
<1>4. CASE RegisterLocked(s)
  <2>1. pc \notin {"notifyCmd", "notifyPoll"} /\ pc' \notin {"notifyCmd", "notifyPoll"}
    BY <1>2, <1>4 DEF RegisterLocked, LockPipes, IInv, LockInv
  <2>2. \A t \in Servers : Owed(t) = << >> /\ Owed(t)' = << >>
    BY <2>1 DEF Owed, Settled
  <2>3. UNCHANGED <<toMonitor, toServer>>
    BY <1>4 DEF RegisterLocked, pipeVars
  <2>4. inboxes' = inboxes
    BY <2>2, <2>3 DEF inboxes
  <2>5. s \notin joinedServers /\ joinedServers' = joinedServers \union {s}
    BY <1>1, <1>4 DEF RegisterLocked, joinedServers, IInv, TypeOK
  <2>6. Broadcast!Join(s)
    BY <1>1, <1>2, <2>3, <2>4, <2>5 DEF Broadcast!Join
  <2>7. QED
    BY <1>1, <2>6 DEF Broadcast!Next
<1>5. CASE Unregister(s)
  <2>1. pc \notin {"notifyCmd", "notifyPoll"} /\ pc' \notin {"notifyCmd", "notifyPoll"}
    BY <1>2, <1>5 DEF Unregister, LockPipes, IInv, LockInv
  <2>2. \A t \in Servers : Owed(t) = << >> /\ Owed(t)' = << >>
    BY <2>1 DEF Owed, Settled
  <2>3. /\ toMonitor' = [toMonitor EXCEPT ![s] = << >>]
        /\ toServer' = [toServer EXCEPT ![s] = << >>]
    BY <1>5 DEF Unregister
  <2>4. << >> \o << >> = << >>
    <3>1. << >> \in Seq({})
      BY EmptySeq
    <3>2. QED
      BY <3>1, ConcatEmptySeq
  <2>5. inboxes' = [inboxes EXCEPT ![s] = << >>]
    <3>1. \A t \in Servers :
              inboxes'[t] = IF t = s THEN << >> ELSE inboxes[t]
      BY <1>1, <2>2, <2>3, <2>4 DEF inboxes, IInv, TypeOK
    <3>2. QED
      BY <3>1 DEF inboxes
  <2>6. s \in joinedServers /\ joinedServers' = joinedServers \ {s}
    BY <1>1, <1>5 DEF Unregister, joinedServers, IInv, TypeOK
  <2>7. Broadcast!Leave(s)
    BY <1>2, <2>3, <2>5, <2>6 DEF Broadcast!Leave
  <2>8. QED
    BY <1>1, <2>7 DEF Broadcast!Next
<1>6. QED
  BY <1>3, <1>4, <1>5

\* What is owed depends on the monitor, the table and memberships only.
LEMMA OwedFrame ==
    ASSUME UNCHANGED <<monitorVars, tableVars>>, NEW s
    PROVE  Owed(s)' = Owed(s)
<1>1. UNCHANGED <<pc, n, note, connections, num, state>>
  BY DEF monitorVars, tableVars
<1>2. Settled(s)' <=> Settled(s)
  BY <1>1 DEF Settled
<1>3. QED
  BY <1>1, <1>2 DEF Owed

LEMMA SendRefines ==
    ASSUME NEW s \in Commanders, NEW c \in Commands, SendCommand(s, c)
    PROVE  Broadcast!Next
<1>1. UNCHANGED <<monitorVars, tableVars, toServer>>
  BY DEF SendCommand
<1>2. inboxes' = inboxes
  BY <1>1, OwedFrame DEF inboxes
<1>3. UNCHANGED <<targetRuns, joinedServers>>
  BY <1>1 DEF monitorVars, tableVars, targetRuns, joinedServers
<1>4. s \in Servers /\ s \in joinedServers
  BY DEF SendCommand, joinedServers, Servers
<1>5. Broadcast!Request(s, c)
  BY <1>2, <1>3, <1>4 DEF SendCommand, Broadcast!Request
<1>6. QED
  BY <1>4, <1>5 DEF Broadcast!Next, Commands

\* A server reads the oldest status of its inbox, never one still owed.
LEMMA ReadRefines ==
    ASSUME IInv, NEW s \in Servers, ReadStatus(s)
    PROVE  Broadcast!Next
<1>1. UNCHANGED <<monitorVars, tableVars, toMonitor>>
  BY DEF ReadStatus
<1>2. UNCHANGED <<targetRuns, joinedServers>>
  BY <1>1 DEF monitorVars, tableVars, targetRuns, joinedServers
<1>3. /\ toServer[s] # << >>
      /\ toServer' = [toServer EXCEPT ![s] = Tail(@)]
      /\ toServer[s] \in Seq(Statuses)
      /\ note \in Statuses
      /\ Owed(s) = << >> \/ Owed(s) = <<note>>
  BY DEF ReadStatus, Owed, IInv, TypeOK
<1>4. /\ toServer[s] \o Owed(s) # << >>
      /\ Tail(toServer[s] \o Owed(s)) = Tail(toServer[s]) \o Owed(s)
  <2>1. /\ toServer[s] \o << >> # << >> /\ toServer[s] \o <<note>> # << >>
        /\ Tail(toServer[s] \o << >>) = Tail(toServer[s]) \o << >>
        /\ Tail(toServer[s] \o <<note>>) = Tail(toServer[s]) \o <<note>>
    BY <1>3, TailBeforeOwed
  <2>2. CASE Owed(s) = << >>
    BY <2>1, <2>2
  <2>3. CASE Owed(s) = <<note>>
    BY <2>1, <2>3
  <2>4. QED
    BY <1>3, <2>2, <2>3
<1>5. inboxes' = [inboxes EXCEPT ![s] = Tail(@)]
  <2>1. \A t \in Servers :
            inboxes'[t] = IF t = s THEN Tail(inboxes[t]) ELSE inboxes[t]
    <3>1. \A t \in Servers : Owed(t)' = Owed(t)
      BY <1>1, OwedFrame
    <3>2. \A t \in Servers :
              toServer'[t] = IF t = s THEN Tail(toServer[t]) ELSE toServer[t]
      BY <1>3 DEF IInv, TypeOK
    <3>3. \A t \in Servers : /\ inboxes[t] = toServer[t] \o Owed(t)
                              /\ inboxes'[t] = toServer'[t] \o Owed(t)
      BY <3>1 DEF inboxes
    <3>4. QED
      BY <1>4, <3>2, <3>3
  <2>2. QED
    BY <2>1 DEF inboxes
<1>6. Broadcast!Read(s)
  BY <1>1, <1>2, <1>4, <1>5 DEF Broadcast!Read, inboxes
<1>7. QED
  BY <1>6 DEF Broadcast!Next

\* Clients of listeners, and the CPU, do nothing the servers could notice.
LEMMA SurroundingsRefine ==
    ASSUME (\E s \in Listeners : Attach(s) \/ Detach(s)) \/ CpuStops
           \/ UNCHANGED vars
    PROVE  UNCHANGED Broadcast!vars
<1>1. UNCHANGED <<monitorVars, tableVars, pipeVars>>
  BY DEF Attach, Detach, CpuStops, vars
<1>2. UNCHANGED <<targetRuns, joinedServers, toMonitor, toServer>>
  BY <1>1 DEF monitorVars, tableVars, pipeVars, targetRuns, joinedServers
<1>3. inboxes' = inboxes
  BY <1>1, <1>2, OwedFrame DEF inboxes
<1>4. QED
  BY <1>2, <1>3 DEF Broadcast!vars

-----------------------------------------------------------------------------
\* The monitor implements the broadcast: what the servers see, for any
\* number of them, is one target whose stops and starts are announced to
\* all of them at once and in one order.
THEOREM MonitorImplementsBroadcast == Spec => ImplementsBroadcast
<1>1. IInv /\ [Next]_vars => [Broadcast!Next]_(Broadcast!vars)
  <2> SUFFICES ASSUME IInv, [Next]_vars
               PROVE  [Broadcast!Next]_(Broadcast!vars)
    OBVIOUS
  <2>1. CASE MonitorStep
    BY <2>1, MonitorRefines
  <2>2. CASE \E s \in Commanders : CommanderStep(s)
    BY <2>2, RegistrationRefines, SendRefines DEF CommanderStep
  <2>3. CASE \E s \in Servers : ReadStatus(s)
    BY <2>3, ReadRefines
  <2>4. CASE (\E s \in Listeners : Attach(s) \/ Detach(s)) \/ CpuStops
             \/ UNCHANGED vars
    BY <2>4, SurroundingsRefine
  <2>5. QED
    BY <2>1, <2>2, <2>3, <2>4 DEF Next
<1>2. QED
  BY InitRefines, InductiveInvariant, <1>1, PTL
     DEF Spec, ImplementsBroadcast, Broadcast!Spec

-----------------------------------------------------------------------------
(* The sessions.                                                           *)


LEMMA RspIsCommander == Rsp \in Commanders /\ Rsp \in Servers
BY SessionAssumption DEF Servers

\* The RSP thread's own steps, by the call into the monitor each one makes.
LEMMA RspStepUsesMonitor ==
    ASSUME RspStep \/ Accept
    PROVE  [Next]_vars
<1>1. CASE Accept \/ RegisterClient \/ CloseClient
  BY <1>1, RspIsCommander
     DEF Accept, RegisterClient, CloseClient, Next, CommanderStep
<1>2. CASE \/ StallForClient \/ BreakRunning \/ Resume
           \/ StallToClose \/ RestartToClose
  <2>1. SendCommand(Rsp, "S") \/ SendCommand(Rsp, "U") \/ UNCHANGED vars
    BY <1>2 DEF StallForClient, BreakRunning, Resume, StallToClose,
                RestartToClose
  <2>2. QED
    BY <2>1, RspIsCommander DEF Next, CommanderStep, Commands
<1>3. CASE Running \/ Halted \/ HaltedAgain
  BY <1>3, RspIsCommander
     DEF Running, Halted, HaltedAgain, ReadStatusOf, Next
<1>4. CASE \/ EnableStops \/ ClientGone \/ RefuseRunning \/ BreakStopped
           \/ Query \/ DetachClient \/ Continue \/ Step \/ ClearDsr
  BY <1>4 DEF EnableStops, ClientGone, RefuseRunning, BreakStopped, Query,
              DetachClient, Continue, Step, ClearDsr
<1>5. QED
  BY <1>1, <1>2, <1>3, <1>4 DEF RspStep

\* Every step of a session is one that HardwareMonitor allows.
LEMMA SessionStepUsesMonitor ==
    ASSUME [SessionNext]_sessionVars
    PROVE  [Next]_vars
<1>1. CASE RspStep \/ Accept
  BY <1>1, RspStepUsesMonitor
<1>2. CASE Monitor \/ CpuBreaks
  BY <1>2 DEF Monitor, CpuBreaks, Next
<1>3. CASE \E p \in Packets : GdbSends(p)
  BY <1>3 DEF GdbSends
<1>4. CASE \E s \in Listeners : ListenerReads(s) \/ ListenerClients(s)
  BY <1>4 DEF ListenerReads, ListenerClients, Next, Servers
<1>5. CASE UNCHANGED sessionVars
  BY <1>5 DEF sessionVars
<1>6. QED
  BY <1>1, <1>2, <1>3, <1>4, <1>5 DEF SessionNext

\* A session is a behaviour of the monitor and its users.
THEOREM SessionUsesMonitor == SessionSpec => UsesMonitor
<1>1. SessionInit => Init
  BY DEF SessionInit
<1>2. QED
  BY <1>1, SessionStepUsesMonitor, PTL DEF SessionSpec, UsesMonitor, Spec

\* In every session the RSP server, last told "H", talks to a stalled CPU.
THEOREM SessionHaltIsTrue == SessionSpec => []HaltIsTrue
BY SessionUsesMonitor, HaltStaysTrue, PTL DEF UsesMonitor

-----------------------------------------------------------------------------
(* What the two pipes of the RSP server can hold.  All that is still to be *)
(* heard from the monitor is in three places: status bytes in the one pipe,*)
(* a broadcast that has not reached the server, and commands in the other. *)

\* No byte of a queue is x; exactly one is; the last one is, and no other.
NoneIs(x, q) == \A k \in 1..Len(q) : q[k] # x

OneIs(x, q) ==
    \E k \in 1..Len(q) : \A j \in 1..Len(q) : q[j] = x <=> j = k

LastIs(x, q) == q # << >> /\ \A j \in 1..Len(q) : q[j] = x <=> j = Len(q)

\* The monitor is telling its listeners "R" and has not told the server.
OwesRunning == note = "R" /\ ~Settled(Rsp)

\* No resume is on its way: nothing will set target_running.
Quiet ==
    /\ NoneIs("U", toMonitor[Rsp])
    /\ NoneIs("R", toServer[Rsp])
    /\ ~OwesRunning

\* Nothing is on its way but stalls, and a target believed to run will be
\* stopped by one of them.
Settling == Quiet /\ (target_is_running => toMonitor[Rsp] # << >>)

\* Exactly one resume is on its way, with no command after it: as the last
\* command, in a broadcast, or as a status.
Resuming ==
    \/ /\ LastIs("U", toMonitor[Rsp])
       /\ NoneIs("R", toServer[Rsp])
       /\ ~OwesRunning
    \/ /\ toMonitor[Rsp] = << >>
       /\ NoneIs("R", toServer[Rsp])
       /\ OwesRunning
    \/ /\ toMonitor[Rsp] = << >>
       /\ OneIs("R", toServer[Rsp])
       /\ ~OwesRunning

\* No request to resume is on its way from GDB.
NoResumeSent == NoneIs("c", fromGdb) /\ NoneIs("s", fromGdb)

\* At most one is, and none while GDB thinks that the target is stopped.
GdbAsksOnce ==
    /\ gdb \in {"none", "stopped"} => NoResumeSent
    /\ \A j, k \in 1..Len(fromGdb) :
           fromGdb[j] \in {"c", "s"} /\ fromGdb[k] \in {"c", "s"} => j = k

\* A client is served in one of three ways: it waits for nothing, its resume
\* is on its way through the monitor, or the target runs for it.
Serving ==
    \/ ~target_running /\ ~client_waiting /\ Settling
    \/ /\ gdb # "stopped" /\ NoResumeSent /\ client_waiting
       /\ \/ ~target_running /\ Resuming
          \/ target_running /\ Quiet

SessionInv ==
    /\ \A s \in Listeners : toMonitor[s] = << >>
    /\ GdbAsksOnce
    /\ rpc = "stall" => Quiet
    /\ rpc = "enable" => ~target_running /\ Settling
    /\ rpc = "resume" => /\ ~target_running /\ Quiet
                         /\ gdb # "stopped" /\ NoResumeSent
    /\ rpc = "serve" => Serving

-----------------------------------------------------------------------------
\* The first byte of a queue and the rest of it.
LEMMA TailBytes ==
    ASSUME NEW S, NEW q \in Seq(S), q # << >>
    PROVE  /\ Tail(q) \in Seq(S)
           /\ Len(q) \in Nat \ {0}
           /\ Len(Tail(q)) = Len(q) - 1
           /\ \A k \in 1..Len(Tail(q)) : Tail(q)[k] = q[k + 1]
           /\ Head(q) = q[1]
BY HeadTailProperties, EmptySeq

\* A queue without x: taking its first byte,
LEMMA NoneTail ==
    ASSUME NEW S, NEW q \in Seq(S), q # << >>, NEW x, NoneIs(x, q)
    PROVE  Head(q) # x /\ NoneIs(x, Tail(q))
<1> DEFINE r == Tail(q)
<1>1. /\ Len(q) \in Nat \ {0}
      /\ Len(r) = Len(q) - 1
      /\ \A k \in 1..Len(r) : r[k] = q[k + 1]
      /\ Head(q) = q[1]
  BY TailBytes
<1> HIDE DEF r
<1>2. NoneIs(x, r)
  BY <1>1 DEF NoneIs
<1>3. QED
  BY <1>1, <1>2 DEF NoneIs, r

\* and adding another.
LEMMA NoneAppend ==
    ASSUME NEW S, NEW q \in Seq(S), NEW y \in S, NEW x, x # y, NoneIs(x, q)
    PROVE  NoneIs(x, Append(q, y))
BY AppendProperties, LenProperties DEF NoneIs

\* A queue that ends in its only x: how it comes about,
LEMMA LastAppend ==
    ASSUME NEW S, NEW q \in Seq(S), NEW x \in S, NoneIs(x, q)
    PROVE  LastIs(x, Append(q, x))
BY AppendProperties, LenProperties DEF NoneIs, LastIs

\* and what taking its first byte leaves.
LEMMA LastTail ==
    ASSUME NEW S, NEW q \in Seq(S), NEW x, LastIs(x, q)
    PROVE  IF Head(q) = x THEN Tail(q) = << >> ELSE LastIs(x, Tail(q))
<1> DEFINE r == Tail(q)
<1>1. /\ Len(q) \in Nat \ {0}
      /\ Len(r) = Len(q) - 1
      /\ \A k \in 1..Len(r) : r[k] = q[k + 1]
      /\ Head(q) = q[1]
  BY TailBytes DEF LastIs
<1>2. r = << >> <=> Len(r) = 0
  BY TailBytes, EmptySeq DEF LastIs
<1>3. 1 \in 1..Len(q)
  BY <1>1
<1>4. Head(q) = x <=> 1 = Len(q)
  BY <1>1, <1>3 DEF LastIs
<1> HIDE DEF r
<1>5. CASE Len(q) = 1
  BY <1>1, <1>2, <1>4, <1>5 DEF r
<1>6. CASE Len(q) # 1
  <2>1. ASSUME NEW j \in 1..Len(r) PROVE r[j] = x <=> j = Len(r)
    <3>1. j + 1 \in 1..Len(q) /\ r[j] = q[j + 1]
      BY <1>1
    <3>2. QED
      BY <3>1, <1>1 DEF LastIs
  <2>2. LastIs(x, r)
    BY <1>1, <1>2, <1>6, <2>1 DEF LastIs
  <2>3. QED
    BY <1>4, <1>6, <2>2 DEF r
<1>7. QED
  BY <1>5, <1>6

\* A queue with exactly one x: adding a byte,
LEMMA OneAppend ==
    ASSUME NEW S, NEW q \in Seq(S), NEW x \in S, NEW y \in S
    PROVE  /\ NoneIs(x, q) => OneIs(x, Append(q, x))
           /\ OneIs(x, q) /\ y # x => OneIs(x, Append(q, y))
<1>1. Len(q) \in Nat
  BY LenProperties
<1>2. ASSUME NoneIs(x, q) PROVE OneIs(x, Append(q, x))
  <2> DEFINE r == Append(q, x)
  <2>1. /\ Len(r) = Len(q) + 1
        /\ \A k \in 1..Len(q) : r[k] = q[k]
        /\ r[Len(q) + 1] = x
    BY AppendProperties
  <2> HIDE DEF r
  <2>2. \A j \in 1..Len(r) : r[j] = x <=> j = Len(q) + 1
    BY <1>1, <1>2, <2>1 DEF NoneIs
  <2>3. OneIs(x, r)
    BY SMTT(40), <1>1, <2>1, <2>2 DEF OneIs
  <2>4. QED
    BY <2>3 DEF r
<1>3. ASSUME OneIs(x, q), y # x PROVE OneIs(x, Append(q, y))
  <2> DEFINE r == Append(q, y)
  <2>1. /\ Len(r) = Len(q) + 1
        /\ \A k \in 1..Len(q) : r[k] = q[k]
        /\ r[Len(q) + 1] = y
    BY AppendProperties
  <2> HIDE DEF r
  <2>2. PICK k \in 1..Len(q) : \A j \in 1..Len(q) : q[j] = x <=> j = k
    BY <1>3 DEF OneIs
  <2>3. \A j \in 1..Len(r) : r[j] = x <=> j = k
    BY <1>1, <1>3, <2>1, <2>2
  <2>4. OneIs(x, r)
    BY <1>1, <2>1, <2>3 DEF OneIs
  <2>5. QED
    BY <2>4 DEF r
<1>4. QED
  BY <1>2, <1>3

\* and taking the first.
LEMMA OneTail ==
    ASSUME NEW S, NEW q \in Seq(S), q # << >>, NEW x, OneIs(x, q)
    PROVE  IF Head(q) = x THEN NoneIs(x, Tail(q)) ELSE OneIs(x, Tail(q))
<1> DEFINE r == Tail(q)
<1>1. /\ Len(q) \in Nat \ {0}
      /\ Len(r) = Len(q) - 1
      /\ \A k \in 1..Len(r) : r[k] = q[k + 1]
      /\ Head(q) = q[1]
  BY TailBytes
<1>2. PICK k \in 1..Len(q) : \A j \in 1..Len(q) : q[j] = x <=> j = k
  BY DEF OneIs
<1> HIDE DEF r
<1>3. CASE k = 1
  <2>1. Head(q) = x
    BY <1>1, <1>2, <1>3
  <2>2. NoneIs(x, r)
    BY <1>1, <1>2, <1>3 DEF NoneIs
  <2>3. QED
    BY <2>1, <2>2 DEF r
<1>4. CASE k # 1
  <2>1. Head(q) # x
    BY <1>1, <1>2, <1>4
  <2>2. k - 1 \in 1..Len(r) /\ \A j \in 1..Len(r) : r[j] = x <=> j = k - 1
    BY <1>1, <1>2, <1>4
  <2>3. OneIs(x, r)
    BY <2>2 DEF OneIs
  <2>4. QED
    BY <2>1, <2>3 DEF r
<1>5. QED
  BY <1>3, <1>4
-----------------------------------------------------------------------------
(* How the monitor and the server move what is on its way.                 *)

\* What is on its way is a matter of these variables only.
LEMMA NothingMoves ==
    ASSUME UNCHANGED <<pc, n, note, num, connections, target_is_running,
                       toMonitor[Rsp], toServer[Rsp]>>
    PROVE  /\ Quiet' = Quiet
           /\ Settling' = Settling
           /\ Resuming' = Resuming
BY DEF Quiet, Settling, Resuming, OwesRunning, Settled

\* A step of the monitor that neither takes a command nor tells a server
\* begins or ends no broadcast that owes the server anything.
LEMMA MonitorMoves ==
    ASSUME IInv, state[Rsp] = "registered", MonitorStep, ~ReadCommand,
           ~NotifyOne
    PROVE  /\ ~OwesRunning /\ ~OwesRunning'
           /\ toMonitor' = toMonitor
           /\ toServer' = toServer
           /\ target_is_running' => target_is_running
<1>1. CASE NotifiedCmd \/ NotifiedPoll
  <2>1. PICK k \in 1..num : connections[k] = Rsp
    BY RspIsCommander DEF IInv, TableConsistent, Registered
  <2>2. Settled(Rsp)
    BY <1>1, <2>1 DEF NotifiedCmd, NotifiedPoll, IInv, TypeOK, Settled
  <2>3. Settled(Rsp)'
    BY <1>1 DEF NotifiedCmd, NotifiedPoll, Settled
  <2>4. QED
    BY <1>1, <2>2, <2>3
       DEF NotifiedCmd, NotifiedPoll, OwesRunning, pipeVars
<1>2. CASE LockPoll
  BY <1>2 DEF LockPoll, OwesRunning, Settled, pipeVars
<1>3. CASE \/ Snapshot \/ SelectReady \/ SelectNothing \/ LockScan
           \/ ScanSkip \/ ScanDone \/ PollNothing \/ PollStopped
  <2>1. Settled(Rsp) /\ Settled(Rsp)'
    BY <1>3 DEF Snapshot, SelectReady, SelectNothing, LockScan, ScanSkip,
                ScanDone, PollNothing, PollStopped, Settled
  <2>2. UNCHANGED pipeVars
    BY <1>3 DEF Snapshot, SelectReady, SelectNothing, LockScan, ScanSkip,
                ScanDone, PollNothing, PollStopped
  <2>3. target_is_running' => target_is_running
    BY <1>3 DEF Snapshot, SelectReady, SelectNothing, LockScan, ScanSkip,
                ScanDone, PollNothing, PollStopped
  <2>4. QED
    BY <2>1, <2>2, <2>3 DEF OwesRunning, pipeVars
<1>4. QED
  BY <1>1, <1>2, <1>3 DEF MonitorStep

\* The command the monitor takes is the server's, and a broadcast of its
\* outcome begins that the server has not heard.
LEMMA CommandTaken ==
    ASSUME IInv, \A s \in Listeners : toMonitor[s] = << >>, ReadCommand
    PROVE  /\ ~OwesRunning
           /\ toServer' = toServer
           /\ toMonitor[Rsp] # << >>
           /\ toMonitor'[Rsp] = Tail(toMonitor[Rsp])
           /\ Head(toMonitor[Rsp]) = "S" =>
                  ~OwesRunning' /\ target_is_running' = FALSE
           /\ Head(toMonitor[Rsp]) = "U" => OwesRunning'
           /\ Head(toMonitor[Rsp]) \in Commands
<1>1. connections[i] \in Servers
  <2>1. i \in Slots /\ ~(i > num)
    BY ServersAssumption DEF ReadCommand, IInv, TypeOK, Slots
  <2>2. QED
    BY <2>1 DEF IInv, TypeOK
<1>2. connections[i] = Rsp
  BY <1>1, SessionAssumption DEF ReadCommand, Servers
<1>3. toMonitor[Rsp] # << >> /\ toMonitor'[Rsp] = Tail(toMonitor[Rsp])
  BY <1>2, RspIsCommander DEF ReadCommand, IInv, TypeOK
<1>4. Settled(Rsp) /\ ~Settled(Rsp)' /\ toServer' = toServer
  BY DEF ReadCommand, Settled
<1>5. CASE Head(toMonitor[Rsp]) = "S"
  BY <1>2, <1>3, <1>4, <1>5
     DEF ReadCommand, StallCommand, UnstallCommand, StallCpu, OwesRunning,
         IInv, TypeOK, Commands
<1>6. CASE Head(toMonitor[Rsp]) = "U"
  <2>1. note' = "R"
    BY <1>2, <1>6 DEF ReadCommand, StallCommand, UnstallCommand
  <2>2. QED
    BY <1>3, <1>4, <1>6, <2>1 DEF OwesRunning, Commands
<1>7. QED
  BY <1>2, <1>5, <1>6 DEF ReadCommand, StallCommand, UnstallCommand

\* A write of a broadcast reaches the server once, or is not to it.
LEMMA StatusWritten ==
    ASSUME IInv, NotifyOne
    PROVE  /\ toMonitor' = toMonitor
           /\ target_is_running' = target_is_running
           /\ \/ /\ toServer'[Rsp] = toServer[Rsp]
                 /\ OwesRunning' = OwesRunning
              \/ /\ toServer'[Rsp] = Append(toServer[Rsp], note)
                 /\ OwesRunning <=> note = "R"
                 /\ ~OwesRunning'
<1>1. n \in 1..num /\ n \in Slots
  BY ServersAssumption DEF NotifyOne, IInv, TypeOK, Slots
<1>2. UNCHANGED <<pc, num, connections, note, toMonitor, target_is_running>>
      /\ n' = n + 1
  BY DEF NotifyOne, tableVars
<1>3. CASE connections[n] = Rsp
  <2>1. ~Settled(Rsp)
    <3>1. ASSUME NEW k \in 1..num, connections[k] = Rsp PROVE ~(k < n)
      <4>1. k = n
        BY <1>1, <1>3, <3>1 DEF IInv, TableConsistent
      <4>2. QED
        BY <1>1, <4>1
    <3>2. QED
      BY <3>1 DEF NotifyOne, Settled
  <2>2. Settled(Rsp)'
    BY <1>1, <1>2, <1>3 DEF Settled
  <2>3. toServer'[Rsp] = Append(toServer[Rsp], note)
    BY <1>3, RspIsCommander DEF NotifyOne, IInv, TypeOK
  <2>4. QED
    BY <1>2, <2>1, <2>2, <2>3 DEF OwesRunning
<1>4. CASE connections[n] # Rsp
  <2>1. Settled(Rsp)' = Settled(Rsp)
    BY <1>1, <1>2, <1>4 DEF Settled
  <2>2. toServer'[Rsp] = toServer[Rsp]
    BY <1>4, RspIsCommander DEF NotifyOne, IInv, TypeOK
  <2>3. QED
    BY <1>2, <2>1, <2>2 DEF OwesRunning
<1>5. QED
  BY <1>3, <1>4

\* The monitor's steps keep each way of what is coming.
LEMMA MonitorKeeps ==
    ASSUME IInv, \A s \in Listeners : toMonitor[s] = << >>,
           state[Rsp] = "registered", MonitorStep
    PROVE  /\ Quiet => Quiet'
           /\ Settling => Settling'
           /\ Resuming => Resuming'
<1> DEFINE tm == toMonitor[Rsp]
           ts == toServer[Rsp]
<1>t. /\ tm \in Seq(Commands) /\ ts \in Seq(Statuses)
      /\ note \in Statuses /\ "R" \in Statuses
  BY RspIsCommander DEF IInv, TypeOK, Statuses
<1>1. CASE ~ReadCommand /\ ~NotifyOne
  BY <1>1, MonitorMoves DEF Quiet, Settling, Resuming
<1>2. CASE ReadCommand
  <2>1. CASE Head(tm) = "S"
    <3>1. /\ ~OwesRunning /\ ~OwesRunning' /\ toServer' = toServer
          /\ tm # << >> /\ toMonitor'[Rsp] = Tail(tm)
          /\ target_is_running' = FALSE
      BY <1>2, <2>1, CommandTaken
    <3>2. NoneIs("U", tm) => NoneIs("U", Tail(tm))
      BY <1>t, <3>1, NoneTail
    <3>3. LastIs("U", tm) => LastIs("U", Tail(tm))
      BY <1>t, <2>1, LastTail
    <3>4. QED
      BY <3>1, <3>2, <3>3 DEF Quiet, Settling, Resuming
  <2>2. CASE Head(tm) = "U"
    <3>1. /\ ~OwesRunning /\ OwesRunning' /\ toServer' = toServer
          /\ tm # << >> /\ toMonitor'[Rsp] = Tail(tm)
      BY <1>2, <2>2, CommandTaken
    <3>2. ~NoneIs("U", tm)
      BY <1>t, <2>2, <3>1, NoneTail
    <3>3. LastIs("U", tm) => Tail(tm) = << >>
      BY <1>t, <2>2, LastTail
    <3>4. QED
      BY <3>1, <3>2, <3>3 DEF Quiet, Settling, Resuming
  <2>3. QED
    BY <1>2, <2>1, <2>2, CommandTaken DEF Commands
<1>3. CASE NotifyOne
  <2>1. CASE toServer'[Rsp] = ts /\ OwesRunning' = OwesRunning
    BY <1>3, <2>1, StatusWritten DEF Quiet, Settling, Resuming
  <2>2. CASE /\ toServer'[Rsp] = Append(ts, note)
             /\ OwesRunning <=> note = "R"
             /\ ~OwesRunning'
    <3>1. toMonitor' = toMonitor /\ target_is_running' = target_is_running
      BY <1>3, StatusWritten
    <3>2. NoneIs("R", ts) /\ note # "R" => NoneIs("R", Append(ts, note))
      BY <1>t, NoneAppend
    <3>3. /\ NoneIs("R", ts) /\ note = "R" => OneIs("R", Append(ts, note))
          /\ OneIs("R", ts) /\ note # "R" => OneIs("R", Append(ts, note))
      BY <1>t, OneAppend
    <3>4. QED
      BY <2>2, <3>1, <3>2, <3>3 DEF Quiet, Settling, Resuming
  <2>3. QED
    BY <1>3, <2>1, <2>2, StatusWritten
<1>4. QED
  BY <1>1, <1>2, <1>3

\* Reading a status takes it off the pipe and moves nothing else.
LEMMA StatusTaken ==
    ASSUME IInv, ReadStatus(Rsp)
    PROVE  /\ toServer[Rsp] # << >>
           /\ toServer'[Rsp] = Tail(toServer[Rsp])
           /\ toServer[Rsp] \in Seq(Statuses)
           /\ UNCHANGED <<pc, n, note, num, connections, target_is_running,
                          toMonitor>>
           /\ OwesRunning' = OwesRunning
BY RspIsCommander
   DEF ReadStatus, IInv, TypeOK, monitorVars, tableVars, OwesRunning, Settled

\* An "H" off the pipe leaves what is coming as it is.
LEMMA HaltRead ==
    ASSUME IInv, ReadStatus(Rsp), Head(toServer[Rsp]) = "H"
    PROVE  /\ Quiet => Quiet'
           /\ Settling => Settling'
           /\ Resuming => Resuming'
<1>1. NoneIs("R", toServer[Rsp]) => NoneIs("R", toServer'[Rsp])
  BY StatusTaken, NoneTail
<1>2. OneIs("R", toServer[Rsp]) => OneIs("R", toServer'[Rsp])
  BY StatusTaken, OneTail
<1>3. QED
  BY <1>1, <1>2, StatusTaken DEF Quiet, Settling, Resuming

\* An "R" is read only when a resume is on its way, and it is the only one.
LEMMA RunningRead ==
    ASSUME IInv, ReadStatus(Rsp), Head(toServer[Rsp]) = "R"
    PROVE  ~Quiet /\ (Resuming => Quiet')
<1>1. ~NoneIs("R", toServer[Rsp])
  BY StatusTaken, NoneTail
<1>2. OneIs("R", toServer[Rsp]) => NoneIs("R", toServer'[Rsp])
  BY StatusTaken, OneTail
<1>3. NoneIs("U", << >>)
  BY DEF NoneIs
<1>4. QED
  BY <1>1, <1>2, <1>3, StatusTaken DEF Quiet, Resuming

\* With no resume on its way, a status to be read is "H", and the monitor
\* believes what it says.
LEMMA HaltBelieved ==
    ASSUME IInv, state[Rsp] = "registered", Quiet, toServer[Rsp] # << >>
    PROVE  ~target_is_running
<1>1. /\ Rsp \in Servers
      /\ toServer[Rsp] \in Seq(Statuses)
      /\ Len(toServer[Rsp]) \in Nat \ {0}
      /\ note \in Statuses
  BY RspIsCommander, EmptySeq DEF IInv, TypeOK
<1>2. CASE Settled(Rsp)
  <2>1. toServer[Rsp][Len(toServer[Rsp])] \in Statuses
    BY <1>1, ElementOfSeq
  <2>2. LastWord(Rsp) = "H"
    BY <1>1, <2>1 DEF Quiet, NoneIs, LastWord, Statuses
  <2>3. QED
    BY <1>1, <1>2, <2>2 DEF IInv, StatusIsCurrent, Told
<1>3. CASE ~Settled(Rsp)
  BY <1>1, <1>3 DEF Quiet, OwesRunning, Settled, Statuses, IInv, BroadcastInv
<1>4. QED
  BY <1>2, <1>3

\* A stall settles what is quiet, and a resume is then the only one.
LEMMA CommandSent ==
    ASSUME IInv, Quiet
    PROVE  /\ SendCommand(Rsp, "S") => Settling'
           /\ SendCommand(Rsp, "U") => Resuming'
<1>1. /\ toMonitor[Rsp] \in Seq(Commands)
      /\ "S" \in Commands /\ "U" \in Commands
  BY RspIsCommander DEF IInv, TypeOK, Commands
<1>2. ASSUME NEW c \in Commands, SendCommand(Rsp, c)
      PROVE  /\ toMonitor'[Rsp] = Append(toMonitor[Rsp], c)
             /\ toServer' = toServer
             /\ OwesRunning' = OwesRunning
  BY <1>2, RspIsCommander
     DEF SendCommand, IInv, TypeOK, monitorVars, tableVars, OwesRunning, Settled
<1>3. ASSUME SendCommand(Rsp, "S") PROVE Settling'
  <2>1. /\ NoneIs("U", Append(toMonitor[Rsp], "S"))
        /\ Append(toMonitor[Rsp], "S") # << >>
    BY <1>1, NoneAppend, AppendProperties DEF Quiet
  <2>2. QED
    BY <1>1, <1>2, <1>3, <2>1 DEF Quiet, Settling
<1>4. ASSUME SendCommand(Rsp, "U") PROVE Resuming'
  <2>1. LastIs("U", Append(toMonitor[Rsp], "U"))
    BY <1>1, LastAppend DEF Quiet
  <2>2. QED
    BY <1>1, <1>2, <1>4, <2>1 DEF Quiet, Resuming
<1>5. QED
  BY <1>3, <1>4

\* A new registration finds both pipes empty and no broadcast in progress.
LEMMA RegisteredQuiet ==
    ASSUME IInv, RegisterLocked(Rsp)
    PROVE  Quiet'
<1>1. UNCHANGED <<pc, toMonitor, toServer>> /\ Settled(Rsp)'
  BY DEF RegisterLocked, monitorVars, pipeVars, LockPipes, IInv, LockInv, Settled
<1>2. toMonitor[Rsp] = << >> /\ toServer[Rsp] = << >>
  BY RspIsCommander DEF RegisterLocked, IInv, FreshPipes
<1>3. QED
  BY <1>1, <1>2 DEF Quiet, NoneIs, OwesRunning

-----------------------------------------------------------------------------
(* Type correctness.                                                       *)

\* Which calls change the registration of the server, and where it is.
LEMMA RegistrationFrame ==
    ASSUME IInv, SessionTypeOK, [SessionNext]_sessionVars
    PROVE  state'[Rsp] = CASE rpc' = "accept"   -> "out"
                           [] rpc' = "register" -> "registering"
                           [] OTHER             -> "registered"
<1>1. state \in [Servers -> {"out", "registering", "registered"}]
      /\ Rsp \in Servers
  BY RspIsCommander DEF IInv, TypeOK
<1>2. CASE Accept
  BY <1>1, <1>2 DEF Accept, RegisterCheck
<1>3. CASE RegisterClient
  BY <1>1, <1>3 DEF RegisterClient, RegisterLocked
<1>4. CASE CloseClient
  BY <1>1, <1>4 DEF CloseClient, Unregister
<1>5. CASE \/ StallForClient \/ EnableStops \/ ClientGone \/ BreakRunning
           \/ RefuseRunning \/ BreakStopped \/ Query \/ DetachClient
           \/ Continue \/ Step \/ Resume \/ Running \/ Halted \/ HaltedAgain
           \/ StallToClose \/ ClearDsr \/ RestartToClose
  <2>1. state' = state
    BY <1>5 DEF StallForClient, EnableStops, ClientGone, BreakRunning,
       RefuseRunning, BreakStopped, Query, DetachClient, Continue, Step, Resume,
       Running, Halted, HaltedAgain, StallToClose, ClearDsr, RestartToClose,
       SendCommand, ReadStatusOf, ReadStatus, vars, tableVars
  <2>2. rpc \notin {"accept", "register"} /\ rpc' \notin {"accept", "register"}
    BY <1>5 DEF StallForClient, EnableStops, ClientGone, BreakRunning,
       RefuseRunning, BreakStopped, Query, DetachClient, Continue, Step, Resume,
       Running, Halted, HaltedAgain, StallToClose, ClearDsr, RestartToClose,
       Receive, ReadStatusOf, rspVars
  <2>3. QED
    BY <2>1, <2>2 DEF SessionTypeOK
<1>6. CASE UNCHANGED <<rpc, state>>
  BY <1>6 DEF SessionTypeOK
<1>7. CASE \/ Monitor \/ CpuBreaks \/ (\E p \in Packets : GdbSends(p))
           \/ (\E s \in Listeners : ListenerReads(s) \/ ListenerClients(s))
           \/ UNCHANGED sessionVars
  <2>1. rpc' = rpc
    BY <1>7 DEF Monitor, CpuBreaks, GdbSends, ListenerReads, ListenerClients,
                sessionVars, rspVars
  <2>2. state' = state
    <3>1. CASE Monitor
      <4>1. UNCHANGED tableVars
        BY <3>1 DEF Monitor, MonitorStep, Snapshot, SelectReady, SelectNothing,
           LockScan, ScanSkip, ReadCommand, NotifyOne, NotifiedCmd, ScanDone,
           PollNothing, PollStopped, LockPoll, NotifiedPoll
      <4>2. QED
        BY <4>1 DEF tableVars
    <3>2. CASE CpuBreaks
      BY <3>2 DEF CpuBreaks, CpuStops, tableVars
    <3>3. CASE \/ \E p \in Packets : GdbSends(p)
               \/ UNCHANGED sessionVars
      BY <3>3 DEF GdbSends, sessionVars, vars, tableVars
    <3>4. CASE \E s \in Listeners : ListenerReads(s) \/ ListenerClients(s)
      BY <3>4 DEF ListenerReads, ListenerClients, ReadStatus, Attach, Detach,
                  tableVars
    <3>5. QED
      BY <1>7, <3>1, <3>2, <3>3, <3>4
  <2>3. QED
    BY <1>6, <2>1, <2>2
<1>8. QED
  BY <1>2, <1>3, <1>4, <1>5, <1>7 DEF SessionNext, RspStep

\* Packets are added by GDB, taken by the server and dropped at the end.
LEMMA PacketTypes ==
    ASSUME SessionTypeOK, [SessionNext]_sessionVars
    PROVE  fromGdb' \in Seq(Packets) /\ sent' \in 0..MaxPackets
<1>1. CASE \E p \in Packets : GdbSends(p)
  <2>1. PICK p \in Packets : GdbSends(p)
    BY <1>1
  <2>2. fromGdb' \in Seq(Packets)
    BY <2>1, AppendProperties DEF GdbSends, SessionTypeOK
  <2>3. sent' \in 0..MaxPackets
    BY <2>1, SessionAssumption DEF GdbSends, SessionTypeOK
  <2>4. QED
    BY <2>2, <2>3
<1>2. CASE Accept
  BY <1>2, SessionAssumption DEF Accept, SessionTypeOK
<1>3. CASE CloseClient
  BY <1>3, EmptySeq DEF CloseClient, SessionTypeOK
<1>4. CASE UNCHANGED <<fromGdb, sent>>
  BY <1>4 DEF SessionTypeOK
<1>5. ASSUME NEW p, Receive(p)
      PROVE  fromGdb' \in Seq(Packets) /\ sent' \in 0..MaxPackets
  BY <1>5, HeadTailProperties DEF Receive, SessionTypeOK
<1>6. CASE \/ ClientGone \/ BreakRunning \/ RefuseRunning \/ BreakStopped
           \/ Query \/ DetachClient \/ Continue \/ Step
  <2>1. \E p : Receive(p)
    BY <1>6 DEF ClientGone, BreakRunning, RefuseRunning, BreakStopped, Query,
                DetachClient, Continue, Step
  <2>2. QED
    BY <1>5, <2>1
<1>7. CASE \/ RegisterClient \/ StallForClient \/ EnableStops \/ Resume
           \/ Running \/ Halted \/ HaltedAgain \/ StallToClose \/ ClearDsr
           \/ RestartToClose \/ Monitor \/ CpuBreaks
           \/ (\E s \in Listeners : ListenerReads(s) \/ ListenerClients(s))
           \/ UNCHANGED sessionVars
  <2>1. UNCHANGED <<fromGdb, sent>>
    BY <1>7 DEF RegisterClient, StallForClient, EnableStops, Resume, Running,
       Halted, HaltedAgain, StallToClose, ClearDsr, RestartToClose, Monitor,
       CpuBreaks, ListenerReads, ListenerClients, sessionVars, gdbVars
  <2>2. QED
    BY <1>4, <2>1
<1>8. QED
  BY <1>1, <1>2, <1>3, <1>6, <1>7 DEF SessionNext, RspStep

\* What GDB thinks, and whether there is a client.
LEMMA GdbTypes ==
    ASSUME SessionTypeOK, [SessionNext]_sessionVars
    PROVE  gdb' \in GdbStates /\ (rpc' = "accept" <=> gdb' = "none")
           /\ rpc' \in RspPCs
<1>1. CASE \E p \in Packets : GdbSends(p)
  BY <1>1 DEF GdbSends, SessionTypeOK, rspVars, GdbStates
<1>2. CASE Accept \/ CloseClient \/ Halted
  BY <1>2 DEF Accept, CloseClient, Halted, ReadStatusOf, SessionTypeOK,
              GdbStates, RspPCs
<1>3. CASE \/ RegisterClient \/ StallForClient \/ EnableStops
           \/ ClientGone \/ BreakRunning \/ RefuseRunning \/ BreakStopped
           \/ Query \/ DetachClient \/ Continue \/ Step \/ Resume
           \/ Running \/ HaltedAgain
           \/ StallToClose \/ ClearDsr \/ RestartToClose
  <2>1. gdb' = gdb
    BY <1>3 DEF RegisterClient, StallForClient, EnableStops, ClientGone,
       BreakRunning, RefuseRunning, BreakStopped, Query, DetachClient, Continue,
       Step, Resume, Running, HaltedAgain, StallToClose, ClearDsr,
       RestartToClose, Receive, gdbVars
  <2>2. rpc # "accept" /\ rpc' \in RspPCs \ {"accept"}
    BY <1>3 DEF RegisterClient, StallForClient, EnableStops, ClientGone,
       BreakRunning, RefuseRunning, BreakStopped, Query, DetachClient, Continue,
       Step, Resume, Running, HaltedAgain, StallToClose, ClearDsr,
       RestartToClose, Receive, ReadStatusOf, rspVars, RspPCs
  <2>3. QED
    BY <2>1, <2>2 DEF SessionTypeOK
<1>4. CASE \/ Monitor \/ CpuBreaks
           \/ (\E s \in Listeners : ListenerReads(s) \/ ListenerClients(s))
           \/ UNCHANGED sessionVars
  <2>1. UNCHANGED <<rpc, gdb>>
    BY <1>4 DEF Monitor, CpuBreaks, ListenerReads, ListenerClients, sessionVars,
                rspVars, gdbVars
  <2>2. QED
    BY <2>1 DEF SessionTypeOK
<1>5. QED
  BY <1>1, <1>2, <1>3, <1>4 DEF SessionNext, RspStep

\* The flags stay Booleans.
LEMMA FlagTypes ==
    ASSUME SessionTypeOK, [SessionNext]_sessionVars
    PROVE  /\ target_running' \in BOOLEAN
           /\ client_waiting' \in BOOLEAN
           /\ single_step_mode' \in BOOLEAN
           /\ dsr' \in BOOLEAN
           /\ dmr1_st' \in BOOLEAN
<1>1. CASE RspStep \/ Accept
  BY <1>1 DEF SessionTypeOK, RspStep, Accept, RegisterClient, StallForClient,
     EnableStops, ClientGone, BreakRunning, RefuseRunning, BreakStopped, Query,
     DetachClient, Continue, Step, Resume, Running, Halted, HaltedAgain,
     StallToClose, ClearDsr, RestartToClose, CloseClient, SetTrigger, rspVars,
     sprVars
<1>2. CASE UNCHANGED <<target_running, client_waiting, single_step_mode, dsr,
                       dmr1_st>>
  BY <1>2 DEF SessionTypeOK
<1>3. CASE ~RspStep /\ ~Accept
  BY <1>2, <1>3 DEF SessionNext, Monitor, CpuBreaks, GdbSends, ListenerReads,
     ListenerClients, sessionVars, rspVars, sprVars
<1>4. QED
  BY <1>1, <1>3

\* Every step keeps the types.
LEMMA SessionTypeStep ==
    ASSUME IInv, SessionTypeOK, [SessionNext]_sessionVars
    PROVE  SessionTypeOK'
BY RegistrationFrame, PacketTypes, GdbTypes, FlagTypes DEF SessionTypeOK

-----------------------------------------------------------------------------
(* The session's invariant.                                                *)

\* Only the server sends commands.
LEMMA SilentStep ==
    ASSUME IInv, [Next]_vars, \A s \in Listeners : toMonitor[s] = << >>
    PROVE  \A s \in Listeners : toMonitor'[s] = << >>
<1> SUFFICES ASSUME NEW s \in Listeners PROVE toMonitor'[s] = << >>
  OBVIOUS
<1>1. /\ s \in Servers /\ s \notin Commanders
      /\ toMonitor \in [Servers -> Seq(Commands)]
      /\ toMonitor[s] = << >>
  BY ServersAssumption DEF Servers, IInv, TypeOK
<1>2. CASE ReadCommand
  BY <1>1, <1>2 DEF ReadCommand
<1>3. CASE UNCHANGED pipeVars \/ NotifyOne \/ \E t \in Servers : ReadStatus(t)
  BY <1>1, <1>3 DEF pipeVars, NotifyOne, ReadStatus
<1>4. CASE \E t \in Commanders : Unregister(t)
  BY <1>1, <1>4 DEF Unregister
<1>5. CASE \E t \in Commanders, c \in Commands : SendCommand(t, c)
  BY <1>1, <1>5 DEF SendCommand
<1>6. QED
  BY <1>2, <1>3, <1>4, <1>5, PipeFrame

\* A packet taken off the queue, as far as requests to resume go.
LEMMA PacketTaken ==
    ASSUME SessionTypeOK, GdbAsksOnce, NEW p, Receive(p)
    PROVE  /\ GdbAsksOnce'
           /\ NoResumeSent => NoResumeSent'
           /\ p \in {"c", "s"} => NoResumeSent' /\ ~NoResumeSent
<1> DEFINE r == Tail(fromGdb)
<1>1. /\ fromGdb \in Seq(Packets)
      /\ fromGdb # << >> /\ fromGdb' = r /\ gdb' = gdb
      /\ Head(fromGdb) = p
  BY DEF Receive, SessionTypeOK
<1>2. /\ Len(fromGdb) \in Nat \ {0}
      /\ Len(r) = Len(fromGdb) - 1
      /\ \A k \in 1..Len(r) : r[k] = fromGdb[k + 1]
      /\ fromGdb[1] = p
  BY <1>1, TailBytes
<1>3. NoResumeSent => NoResumeSent'
  BY <1>1, NoneTail DEF NoResumeSent
<1> HIDE DEF r
<1>4. GdbAsksOnce'
  <2>1. ASSUME NEW j \in 1..Len(r), NEW k \in 1..Len(r),
               r[j] \in {"c", "s"}, r[k] \in {"c", "s"}
        PROVE  j = k
    <3>1. /\ j + 1 \in 1..Len(fromGdb) /\ fromGdb[j + 1] = r[j]
          /\ k + 1 \in 1..Len(fromGdb) /\ fromGdb[k + 1] = r[k]
      BY <1>2
    <3>2. j + 1 = k + 1
      BY <2>1, <3>1 DEF GdbAsksOnce
    <3>3. QED
      BY <3>2
  <2>2. QED
    BY <1>1, <1>3, <2>1 DEF GdbAsksOnce
<1>5. ASSUME p \in {"c", "s"} PROVE NoResumeSent' /\ ~NoResumeSent
  <2>1. 1 \in 1..Len(fromGdb)
    BY <1>2
  <2>2. ASSUME NEW k \in 1..Len(r) PROVE r[k] \notin {"c", "s"}
    <3>1. k + 1 \in 1..Len(fromGdb) /\ k + 1 # 1 /\ r[k] = fromGdb[k + 1]
      BY <1>2
    <3>2. QED
      BY <1>2, <1>5, <2>1, <3>1 DEF GdbAsksOnce
  <2>3. NoneIs("c", r) /\ NoneIs("s", r)
    BY <2>2 DEF NoneIs
  <2>4. ~(NoneIs("c", fromGdb) /\ NoneIs("s", fromGdb))
    BY <1>2, <1>5, <2>1 DEF NoneIs
  <2>5. QED
    BY <1>1, <2>3, <2>4 DEF NoResumeSent
<1>6. QED
  BY <1>3, <1>4, <1>5

\* A packet sent, as far as requests to resume go.
LEMMA PacketSent ==
    ASSUME SessionTypeOK, GdbAsksOnce, NEW p \in Packets, GdbSends(p)
    PROVE  /\ GdbAsksOnce'
           /\ gdb # "stopped" /\ NoResumeSent =>
                  gdb' # "stopped" /\ NoResumeSent'
<1> DEFINE r == Append(fromGdb, p)
<1>1. /\ fromGdb \in Seq(Packets) /\ fromGdb' = r
      /\ Len(fromGdb) \in Nat
  BY LenProperties DEF GdbSends, SessionTypeOK
<1>2. /\ Len(r) = Len(fromGdb) + 1
      /\ \A k \in 1..Len(fromGdb) : r[k] = fromGdb[k]
      /\ r[Len(fromGdb) + 1] = p
  BY <1>1, AppendProperties
<1> HIDE DEF r
<1>3. CASE p \in {"c", "s"}
  <2>1. gdb = "stopped" /\ gdb' = "waiting"
    BY <1>3 DEF GdbSends
  <2>2. \A k \in 1..Len(fromGdb) : fromGdb[k] \notin {"c", "s"}
    BY <2>1 DEF GdbAsksOnce, NoResumeSent, NoneIs
  <2>3. \A k \in 1..Len(r) : r[k] \in {"c", "s"} => k = Len(fromGdb) + 1
    BY <1>1, <1>2, <2>2
  <2>4. QED
    BY <1>1, <2>1, <2>3 DEF GdbAsksOnce
<1>4. CASE p \notin {"c", "s"}
  <2>1. gdb' = gdb \/ gdb' = "leaving"
    BY <1>4 DEF GdbSends
  <2>2. NoResumeSent => NoResumeSent'
    BY <1>1, <1>2, <1>4 DEF NoResumeSent, NoneIs
  <2>3. \A k \in 1..Len(r) : r[k] \in {"c", "s"} =>
            k \in 1..Len(fromGdb) /\ r[k] = fromGdb[k]
    BY <1>1, <1>2, <1>4
  <2>4. QED
    BY <1>1, <2>1, <2>2, <2>3 DEF GdbAsksOnce
<1>5. QED
  BY <1>3, <1>4

\* GDB never has two requests to resume on their way.
LEMMA AsksStep ==
    ASSUME SessionTypeOK, GdbAsksOnce, [SessionNext]_sessionVars
    PROVE  GdbAsksOnce'
<1>1. CASE \E p \in Packets : GdbSends(p)
  BY <1>1, PacketSent
<1>2. CASE \/ ClientGone \/ BreakRunning \/ RefuseRunning \/ BreakStopped
           \/ Query \/ DetachClient \/ Continue \/ Step
  <2>1. \E p : Receive(p)
    BY <1>2 DEF ClientGone, BreakRunning, RefuseRunning, BreakStopped, Query,
                DetachClient, Continue, Step
  <2>2. QED
    BY <2>1, PacketTaken
<1>3. CASE Accept
  BY <1>3 DEF Accept, GdbAsksOnce, NoResumeSent
<1>4. CASE CloseClient \/ Halted
  <2>1. fromGdb' = << >>
    BY <1>4 DEF CloseClient, Halted, ReadStatusOf
  <2>2. QED
    BY <2>1 DEF GdbAsksOnce, NoResumeSent, NoneIs
<1>5. CASE \/ RegisterClient \/ StallForClient \/ EnableStops \/ Resume
           \/ Running \/ HaltedAgain \/ StallToClose \/ ClearDsr
           \/ RestartToClose \/ Monitor \/ CpuBreaks
           \/ (\E s \in Listeners : ListenerReads(s) \/ ListenerClients(s))
           \/ UNCHANGED sessionVars
  <2>1. UNCHANGED <<fromGdb, gdb>>
    BY <1>5 DEF RegisterClient, StallForClient, EnableStops, Resume, Running,
       HaltedAgain, StallToClose, ClearDsr, RestartToClose, Monitor, CpuBreaks,
       ListenerReads, ListenerClients, sessionVars, gdbVars
  <2>2. QED
    BY <2>1 DEF GdbAsksOnce, NoResumeSent
<1>6. QED
  BY <1>1, <1>2, <1>3, <1>4, <1>5 DEF SessionNext, RspStep

\* What a step leaves to be shown of the server's ways.
RspInv ==
    /\ rpc = "stall" => Quiet
    /\ rpc = "enable" => ~target_running /\ Settling
    /\ rpc = "resume" => /\ ~target_running /\ Quiet
                         /\ gdb # "stopped" /\ NoResumeSent
    /\ rpc = "serve" => Serving

\* Steps of other threads and of GDB.
LEMMA OthersKeep ==
    ASSUME IInv, SessionTypeOK, SessionInv,
           \/ Monitor \/ CpuBreaks \/ (\E p \in Packets : GdbSends(p))
           \/ (\E s \in Listeners : ListenerReads(s) \/ ListenerClients(s))
           \/ UNCHANGED sessionVars
    PROVE  RspInv'
<1>1. CASE Monitor
  <2>1. UNCHANGED <<rspVars, gdbVars>> /\ MonitorStep
    BY <1>1 DEF Monitor
  <2>2. CASE state[Rsp] = "registered"
    <3>1. /\ Quiet => Quiet'
          /\ Settling => Settling'
          /\ Resuming => Resuming'
      BY <2>1, <2>2, MonitorKeeps DEF SessionInv
    <3>2. QED
      BY <2>1, <3>1 DEF SessionInv, RspInv, Serving, NoResumeSent, rspVars,
                        gdbVars
  <2>3. CASE state[Rsp] # "registered"
    BY <2>1, <2>3 DEF SessionTypeOK, RspInv, rspVars
  <2>4. QED
    BY <2>2, <2>3
<1>2. CASE \/ CpuBreaks \/ UNCHANGED sessionVars
           \/ (\E s \in Listeners : ListenerReads(s) \/ ListenerClients(s))
  <2>1. UNCHANGED <<rspVars, gdbVars>>
    BY <1>2 DEF CpuBreaks, sessionVars, ListenerReads, ListenerClients
  <2>2. UNCHANGED <<pc, n, note, num, connections, target_is_running,
                    toMonitor[Rsp], toServer[Rsp]>>
    <3>1. CASE CpuBreaks \/ UNCHANGED sessionVars
      BY <3>1 DEF CpuBreaks, CpuStops, sessionVars, vars, monitorVars,
                  tableVars, pipeVars
    <3>2. ASSUME NEW s \in Listeners, ListenerReads(s) \/ ListenerClients(s)
          PROVE  UNCHANGED <<pc, n, note, num, connections, target_is_running,
                             toMonitor[Rsp], toServer[Rsp]>>
      <4>1. s # Rsp /\ toServer \in [Servers -> Seq(Statuses)]
        BY SessionAssumption, ServersAssumption DEF IInv, TypeOK
      <4>2. QED
        BY <3>2, <4>1, RspIsCommander
           DEF ListenerReads, ListenerClients, ReadStatus, Attach, Detach,
               monitorVars, tableVars, pipeVars
    <3>3. QED
      BY <1>2, <3>1, <3>2
  <2>3. QED
    BY <2>1, <2>2, NothingMoves
       DEF SessionInv, RspInv, Serving, NoResumeSent, rspVars, gdbVars
<1>3. ASSUME NEW p \in Packets, GdbSends(p) PROVE RspInv'
  <2>1. UNCHANGED <<vars, rspVars>>
    BY <1>3 DEF GdbSends
  <2>2. Quiet' = Quiet /\ Settling' = Settling /\ Resuming' = Resuming
    BY <2>1, NothingMoves DEF vars, monitorVars, tableVars, pipeVars
  <2>3. gdb # "stopped" /\ NoResumeSent => gdb' # "stopped" /\ NoResumeSent'
    BY <1>3, PacketSent DEF SessionInv
  <2>4. QED
    BY <2>1, <2>2, <2>3 DEF SessionInv, RspInv, Serving, rspVars
<1>4. QED
  BY <1>1, <1>2, <1>3

\* The server's steps between clients, and to the first packet of one.
LEMMA ConnectionSteps ==
    ASSUME IInv, SessionTypeOK, SessionInv,
           \/ Accept \/ RegisterClient \/ StallForClient \/ EnableStops
           \/ StallToClose \/ ClearDsr \/ RestartToClose \/ CloseClient
    PROVE  RspInv'
<1>1. CASE RegisterClient
  BY <1>1, RegisteredQuiet DEF RegisterClient, RspInv
<1>2. CASE StallForClient
  BY <1>2, CommandSent DEF StallForClient, SessionInv, RspInv
<1>3. CASE EnableStops
  <2>1. Settling'
    BY <1>3, NothingMoves DEF EnableStops, SessionInv, vars, monitorVars,
       tableVars, pipeVars
  <2>2. QED
    BY <1>3, <2>1 DEF EnableStops, SessionInv, RspInv, Serving
<1>4. CASE Accept \/ StallToClose \/ ClearDsr \/ RestartToClose \/ CloseClient
  BY <1>4 DEF Accept, StallToClose, ClearDsr, RestartToClose, CloseClient, RspInv
<1>5. QED
  BY <1>1, <1>2, <1>3, <1>4

\* The packets of a client.
LEMMA PacketSteps ==
    ASSUME IInv, SessionTypeOK, SessionInv,
           \/ ClientGone \/ BreakRunning \/ RefuseRunning \/ BreakStopped
           \/ Query \/ DetachClient \/ Continue \/ Step \/ Resume
    PROVE  RspInv'
<1>1. CASE ClientGone \/ DetachClient
  BY <1>1 DEF ClientGone, DetachClient, RspInv
<1>2. CASE RefuseRunning \/ BreakStopped \/ Query
  <2>1. PICK p : Receive(p)
    BY <1>2 DEF RefuseRunning, BreakStopped, Query
  <2>2. UNCHANGED <<vars, rspVars, gdb>> /\ rpc = "serve"
    BY <1>2 DEF RefuseRunning, BreakStopped, Query, Receive
  <2>3. NoResumeSent => NoResumeSent'
    BY <2>1, PacketTaken DEF SessionInv
  <2>4. Quiet' = Quiet /\ Settling' = Settling /\ Resuming' = Resuming
    BY <2>2, NothingMoves DEF vars, monitorVars, tableVars, pipeVars
  <2>5. QED
    BY <2>2, <2>3, <2>4 DEF SessionInv, RspInv, Serving, rspVars
<1>3. CASE BreakRunning
  <2>1. /\ Receive("brk") /\ SendCommand(Rsp, "S") /\ target_running
        /\ UNCHANGED <<rspVars, gdb>> /\ rpc = "serve"
    BY <1>3 DEF BreakRunning, Receive
  <2>2. NoResumeSent => NoResumeSent'
    BY <2>1, PacketTaken DEF SessionInv
  <2>3. Quiet => Quiet'
    BY <2>1, CommandSent DEF Settling
  <2>4. QED
    BY <2>1, <2>2, <2>3 DEF SessionInv, RspInv, Serving, rspVars
<1>4. CASE Continue \/ Step
  <2>1. PICK p \in {"c", "s"} : Receive(p)
    BY <1>4 DEF Continue, Step
  <2>2. /\ ~target_running /\ ~target_running' /\ rpc = "serve"
        /\ rpc' = "resume" /\ gdb' = gdb /\ UNCHANGED vars
    BY <1>4 DEF Continue, Step, Receive
  <2>3. NoResumeSent' /\ ~NoResumeSent
    BY <2>1, PacketTaken DEF SessionInv
  <2>4. Quiet' = Quiet
    BY <2>2, NothingMoves DEF vars, monitorVars, tableVars, pipeVars
  <2>5. QED
    BY <2>2, <2>3, <2>4
       DEF SessionInv, RspInv, Serving, Settling, GdbAsksOnce
<1>5. CASE Resume
  <2>1. UNCHANGED <<target_running, gdbVars>> /\ client_waiting' = TRUE
        /\ rpc = "resume" /\ rpc' = "serve"
    BY <1>5 DEF Resume
  <2>2. Resuming'
    BY <1>5, <2>1, CommandSent DEF Resume, SessionInv
  <2>3. QED
    BY <2>1, <2>2 DEF SessionInv, RspInv, Serving, NoResumeSent, gdbVars
<1>6. QED
  BY <1>1, <1>2, <1>3, <1>4, <1>5

\* The statuses of the monitor.
LEMMA StatusSteps ==
    ASSUME IInv, SessionTypeOK, SessionInv, Running \/ Halted \/ HaltedAgain
    PROVE  RspInv'
<1>1. /\ rpc = "serve" /\ rpc' = "serve" /\ ReadStatus(Rsp) /\ Serving
      /\ fromGdb' = fromGdb /\ fromGdb = << >>
  BY DEF Running, Halted, HaltedAgain, ReadStatusOf, SessionInv, rspVars, gdbVars
<1>2. CASE Running
  <2>1. ~Quiet /\ (Resuming => Quiet')
    BY <1>1, <1>2, RunningRead DEF Running, ReadStatusOf
  <2>2. QED
    BY <1>1, <1>2, <2>1
       DEF Running, RspInv, Serving, Settling, NoResumeSent, gdbVars
<1>3. CASE Halted
  <2>1. Quiet /\ target_running
    BY <1>1, <1>3 DEF Halted, IsNewStop, Serving
  <2>2. state[Rsp] = "registered" /\ toServer[Rsp] # << >>
    BY <1>1 DEF ReadStatus
  <2>3. ~target_is_running'
    BY <1>1, <2>1, <2>2, HaltBelieved, StatusTaken
  <2>4. Quiet'
    BY <1>1, <1>3, <2>1, HaltRead DEF Halted, ReadStatusOf
  <2>5. QED
    BY <1>1, <1>3, <2>3, <2>4 DEF Halted, RspInv, Serving, Settling
<1>4. CASE HaltedAgain
  <2>1. /\ Quiet => Quiet'
        /\ Settling => Settling'
        /\ Resuming => Resuming'
    BY <1>1, <1>4, HaltRead DEF HaltedAgain, ReadStatusOf
  <2>2. QED
    BY <1>1, <1>4, <2>1
       DEF HaltedAgain, RspInv, Serving, NoResumeSent, rspVars, gdbVars
<1>5. QED
  BY <1>2, <1>3, <1>4

\* Every step keeps the invariant.
LEMMA SessionStep ==
    ASSUME IInv, SessionTypeOK, SessionInv, [SessionNext]_sessionVars
    PROVE  SessionInv'
<1>1. \A s \in Listeners : toMonitor'[s] = << >>
  BY SessionStepUsesMonitor, SilentStep DEF SessionInv
<1>2. GdbAsksOnce'
  BY AsksStep DEF SessionInv
<1>3. RspInv'
  BY OthersKeep, ConnectionSteps, PacketSteps, StatusSteps
     DEF SessionNext, RspStep
<1>4. QED
  BY <1>1, <1>2, <1>3 DEF SessionInv, RspInv

\* It holds at first.
LEMMA SessionStarts == SessionInit => SessionTypeOK /\ SessionInv
<1> SUFFICES ASSUME SessionInit PROVE SessionTypeOK /\ SessionInv
  OBVIOUS
<1>1. SessionTypeOK
  <2>1. fromGdb \in Seq(Packets) /\ sent \in 0..MaxPackets
    BY EmptySeq, SessionAssumption DEF SessionInit
  <2>2. state[Rsp] = "out"
    BY RspIsCommander, SessionAssumption, ServersAssumption
       DEF SessionInit, Init
  <2>3. QED
    BY <2>1, <2>2 DEF SessionInit, SessionTypeOK, RspPCs, GdbStates
<1>2. \A s \in Listeners : toMonitor[s] = << >>
  BY DEF SessionInit, Init, Servers
<1>3. QED
  BY <1>1, <1>2 DEF SessionInit, SessionInv, GdbAsksOnce, NoResumeSent, NoneIs

-----------------------------------------------------------------------------
(* The theorems about sessions.                                            *)

\* The session's invariant holds, together with the monitor's.
THEOREM SessionInvariant ==
    SessionSpec => [](IInv /\ SessionTypeOK /\ SessionInv)
<1>1. SessionSpec => []IInv
  BY SessionUsesMonitor, InductiveInvariant, PTL DEF UsesMonitor
<1>2. SessionTypeOK /\ SessionInv /\ IInv /\ [SessionNext]_sessionVars
          => SessionTypeOK' /\ SessionInv'
  BY SessionTypeStep, SessionStep
<1>3. QED
  BY <1>1, <1>2, SessionStarts, PTL DEF SessionSpec

\* The session keeps its types; the server is registered exactly while it
\* has a client that it has not begun to close or to accept.
THEOREM SessionTypeCorrect == SessionSpec => []SessionTypeOK
BY SessionInvariant, PTL

\* A stop GDB was told of is a stop, unless the access that was to stall the
\* CPU failed, however stalls, breakpoints and breaks overlap.
THEOREM StopsAreBelieved ==
    SessionSpec =>
        [](/\ rpc = "serve" /\ gdb = "stopped" /\ fromGdb = << >>
           /\ toMonitor[Rsp] = << >>
           => cpuStalled \/ lostStall)
<1>1. IInv /\ SessionInv =>
          (/\ rpc = "serve" /\ gdb = "stopped" /\ fromGdb = << >>
           /\ toMonitor[Rsp] = << >>
           => cpuStalled \/ lostStall)
  BY DEF IInv, StopInv, SessionInv, Serving, Settling
<1>2. QED
  BY <1>1, SessionInvariant, PTL

\* Where accesses to the CPU do not fail, no stall is lost.
LEMMA NoStallIsLost ==
    ASSUME ~AccessMayFail
    PROVE  SessionSpec => [](lostStall = FALSE)
<1>1. SessionInit => lostStall = FALSE
  BY DEF SessionInit, Init
<1>2. lostStall = FALSE /\ [Next]_vars => lostStall' = FALSE
  BY DEF Next, vars, cpuVars, MonitorStep, CommanderStep, Snapshot, SelectReady,
     SelectNothing, LockScan, ScanSkip, ReadCommand, NotifyOne, NotifiedCmd,
     ScanDone, PollNothing, PollStopped, LockPoll, NotifiedPoll, StallCommand,
     UnstallCommand, StallCpu, RegisterCheck, RegisterLocked, RegisterFails,
     Unregister, SendCommand, ReadStatus, Attach, Detach, CpuStops
<1>3. lostStall = FALSE /\ [SessionNext]_sessionVars => (lostStall = FALSE)'
  BY <1>2, SessionStepUsesMonitor
<1>4. QED
  BY <1>1, <1>3, PTL DEF SessionSpec

\* Then a stop GDB was told of is a stop, without exception.
THEOREM StopsStayReal ==
    ASSUME ~AccessMayFail
    PROVE  SessionSpec => []StopsAreReal
<1>1. IInv /\ SessionInv /\ lostStall = FALSE => StopsAreReal
  BY DEF IInv, StopInv, SessionInv, Serving, Settling, StopsAreReal
<1>2. QED
  BY <1>1, SessionInvariant, NoStallIsLost, PTL

\* No client is told "Target not stopped" that was told of a stop or has not
\* resumed the target yet.
THEOREM ClientsAreNotRefused == SessionSpec => []NeverRefused
<1>1. SessionInv => NeverRefused
  BY DEF SessionInv, Serving, NeverRefused
<1>2. QED
  BY <1>1, SessionInvariant, PTL

\* The server owes a stop reply only to a client that waits or has left.
THEOREM ReportsStayOwed == SessionSpec => []ReportsAreOwed
<1>1. SessionInv => ReportsAreOwed
  BY DEF SessionInv, Serving, ReportsAreOwed
<1>2. QED
  BY <1>1, SessionInvariant, PTL

=============================================================================

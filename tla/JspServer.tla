------------------------------ MODULE JspServer -------------------------------
(***************************************************************************)
(* The serial console: the JSP thread (jsp_server.c) between a TCP client  *)
(* and the two byte FIFOs of the JTAG serial port (adbg_jsp_transact in    *)
(* adv_dbg_commands.c, adbg_jsp_module.v), with a ring buffer for each     *)
(* direction and the statuses of the target monitor in a pipe.             *)
(*                                                                         *)
(* The bytes of each direction are numbered in the order they are sent.    *)
(* One transaction with the hardware is one step: the thread holds         *)
(* dbg_access_mutex, and the hardware fixes both counts at its start.      *)
(*                                                                         *)
(* A definition whose comment begins with "Mutant" is no part of the       *)
(* model, as in HardwareMonitor.tla.                                       *)
(***************************************************************************)
EXTENDS Integers, Sequences

CONSTANTS
    JSP_BUFFER_SIZE,
    Burst,       \* bytes a transaction sends at most
    FifoSize,    \* bytes each FIFO of the hardware holds
    Room,        \* bytes the socket holds that the client has not read
    MaxIn,       \* bound on the bytes the client sends
    MaxOut,      \* bound on the bytes the program on the CPU writes
    MayLeave,    \* whether the client may close its connection
    MaxFailures  \* bound on the transactions that fail

ASSUME JspAssumption ==
    /\ {JSP_BUFFER_SIZE, Burst, FifoSize, Room} \subseteq Nat \ {0}
    /\ FifoSize <= JSP_BUFFER_SIZE
    /\ MaxIn \in Nat /\ MaxOut \in Nat
    /\ MaxFailures \in Nat
    /\ MayLeave \in BOOLEAN

VARIABLES
    jpc,         \* where the JSP thread is
    tohw,        \* ring buffer, to the hardware
    fromhw,      \* ring buffer, from the hardware
    jsp_target_is_running,
    pipe,        \* statuses of the monitor not read yet
    cpuRuns,     \* what the monitor last saw
    client,      \* the connection: "none", "open", "gone"
    rx,          \* bytes from the client that the server has not received
    tx,          \* bytes to the client that it has not read
    infifo, outfifo,  \* the FIFOs of the hardware
    sent,        \* history: bytes the client has sent,
    arrived,     \* bytes the hardware has taken,
    written,     \* bytes the program has written,
    received,    \* and bytes the client has read
    overrun,     \* history: whether the ring from the hardware was given more
                 \* than it had room for
    failures     \* transactions that failed, to bound the model

serverVars == <<jpc, tohw, fromhw, jsp_target_is_running>>
cpuVars    == <<pipe, cpuRuns>>
fifoVars   == <<infifo, outfifo, arrived, written>>
clientVars == <<client, rx, tx, sent, received>>
historyVars == <<overrun, failures>>
vars == <<serverVars, cpuVars, fifoVars, clientVars, historyVars>>

Lesser(m, n) == IF m <= n THEN m ELSE n
FirstOf(s, n) == SubSeq(s, 1, n)
Without(s, n) == SubSeq(s, n + 1, Len(s))

EmptyRing == [rd |-> 0, wr |-> 0, count |-> 0,
              buf |-> [i \in 0 .. JSP_BUFFER_SIZE - 1 |-> 0]]

\* The ring r with the bytes s written at the write index on.
Put(r, s) ==
    [r EXCEPT
        !.buf = [i \in DOMAIN @ |->
                    LET n == ((i - r.wr) % JSP_BUFFER_SIZE) + 1
                    IN IF n <= Len(s) THEN s[n] ELSE @[i]],
        !.wr = (@ + Len(s)) % JSP_BUFFER_SIZE,
        !.count = @ + Len(s)]

\* The ring r without its first n bytes.
Drop(r, n) == [r EXCEPT !.rd = (@ + n) % JSP_BUFFER_SIZE, !.count = @ - n]

\* The first n bytes at the read index.
Peek(r, n) == [i \in 1 .. n |-> r.buf[(r.rd + i - 1) % JSP_BUFFER_SIZE]]

Init ==
    /\ jpc = "accept"
    /\ tohw = EmptyRing
    /\ fromhw = EmptyRing
    /\ jsp_target_is_running = 0
    /\ pipe = <<"R">>
    /\ cpuRuns = TRUE
    /\ client = "none"
    /\ rx = <<>> /\ tx = <<>>
    /\ infifo = <<>> /\ outfifo = <<>>
    /\ sent = 0 /\ arrived = <<>>
    /\ written = 0 /\ received = <<>>
    /\ overrun = FALSE
    /\ failures = 0

-----------------------------------------------------------------------------
(* The thread.  It accepts a client and then serves it; nothing in the     *)
(* loop sets jsp_client_fd to -1 again.                                    *)

Accept ==
    /\ jpc = "accept"
    /\ client' = "open"
    /\ tohw' = EmptyRing
    /\ fromhw' = EmptyRing
    /\ jpc' = "select"
    /\ UNCHANGED <<jsp_target_is_running, cpuVars, fifoVars, rx, tx, sent,
                   received, historyVars>>

ClientReadable == rx # <<>> \/ client = "gone"

\* Mutant: select() is never given a time-out.
NeverPolls == FALSE

\* While the target runs select() is given a time-out of zero.
Polls == jsp_target_is_running = 1

\* select() and the status.
Select ==
    /\ jpc = "select"
    /\ Polls \/ pipe # <<>> \/ ClientReadable
    /\ IF pipe # <<>>
       THEN /\ jsp_target_is_running' = IF Head(pipe) = "R" THEN 1 ELSE 0
            /\ pipe' = Tail(pipe)
       ELSE UNCHANGED <<jsp_target_is_running, pipe>>
    /\ jpc' = IF ClientReadable THEN "recv" ELSE "send"
    /\ UNCHANGED <<tohw, fromhw, cpuRuns, fifoVars, clientVars, historyVars>>

\* Up to the end of the array or to the read index.
SpaceAvailable(r) == Lesser(JSP_BUFFER_SIZE - r.wr, JSP_BUFFER_SIZE - r.count)

\* jsp_queue_data_from_client(), once for each recv().  At end of file, and if
\* there is no space, recv() returns 0.
Receive(from, to) ==
    LET n == Lesser(SpaceAvailable(tohw), Len(rx)) IN
    /\ jpc = from
    /\ tohw' = Put(tohw, FirstOf(rx, n))
    /\ rx' = Without(rx, n)
    /\ jpc' = to
    /\ UNCHANGED <<fromhw, jsp_target_is_running, cpuVars, fifoVars, client, tx,
                   sent, received, historyVars>>

\* Bytes a non-blocking send() of n takes.
Takes(n) == Lesser(n, Room - Len(tx))

\* Mutant: the whole of what was available is dropped after a partial send.
DropAll(r, available, taken) == Drop(r, available)

DropTaken(r, available, taken) == Drop(r, taken)

\* jsp_send_data_to_client(), once for each send(), of what is linear in the
\* array.  If the client is gone, the socket takes the bytes for nobody, or
\* the process gets a SIGPIPE, which nothing handles.
Send(from, to) ==
    LET available == Lesser(fromhw.count, JSP_BUFFER_SIZE - fromhw.rd) IN
    /\ jpc = from
    /\ \/ /\ client = "open" \/ available = 0
          /\ tx' = tx \o Peek(fromhw, Takes(available))
          /\ fromhw' = DropTaken(fromhw, available, Takes(available))
          /\ jpc' = to
       \/ /\ client = "gone" /\ available > 0
          /\ \/ fromhw' = Drop(fromhw, available) /\ jpc' = to
             \/ fromhw' = fromhw /\ jpc' = "killed"
          /\ tx' = tx
    /\ UNCHANGED <<tohw, jsp_target_is_running, cpuVars, fifoVars, client, rx,
                   sent, received, historyVars>>

AfterSend == IF jsp_target_is_running = 1 THEN "transact" ELSE "select"

\* bytes_to_send as the transaction returns it: adbg_jsp_transact() computes
\* what the hardware takes from the number of free bytes it reads.
Accepted(offered) == Lesser(offered, FifoSize - Len(infifo))

\* What a transaction does in the hardware: it takes bytes while it has room
\* and gives all it has.
Exchange(offer) ==
    LET n == Lesser(Len(offer), FifoSize - Len(infifo)) IN
    /\ infifo' = infifo \o FirstOf(offer, n)
    /\ arrived' = arrived \o FirstOf(offer, n)
    /\ outfifo' = <<>>

\* jsp_hardware_transact().  What is received goes into the ring without a
\* test for space: if there is none, over bytes that were not sent yet.
Transact ==
    LET offer == Peek(tohw, Lesser(tohw.count, Burst)) IN
    /\ jpc = "transact"
    /\ Exchange(offer)
    /\ tohw' = Drop(tohw, Accepted(Len(offer)))
    /\ fromhw' = Put(fromhw, outfifo)
    /\ overrun' = (overrun \/ fromhw.count + Len(outfifo) > JSP_BUFFER_SIZE)
    /\ jpc' = "select"
    /\ UNCHANGED <<jsp_target_is_running, cpuVars, written, clientVars, failures>>

\* The transaction fails, before or after the hardware has done its part.
TransactFails ==
    /\ jpc = "transact"
    /\ failures < MaxFailures
    /\ failures' = failures + 1
    /\ \/ Exchange(Peek(tohw, Lesser(tohw.count, Burst)))
       \/ UNCHANGED <<infifo, outfifo, arrived>>
    /\ jpc' = "select"
    /\ UNCHANGED <<tohw, fromhw, jsp_target_is_running, cpuVars, written,
                   clientVars, overrun>>

ServerStep ==
    \/ Accept
    \/ Select
    \/ Receive("recv", "recv2")
    \/ Receive("recv2", "send")
    \/ Send("send", "send2")
    \/ Send("send2", AfterSend)
    \/ Transact
    \/ TransactFails

-----------------------------------------------------------------------------
(* The target with its monitor, and the client.                            *)

StopOrStart ==
    /\ Len(pipe) < 2
    /\ cpuRuns' = ~cpuRuns
    /\ pipe' = Append(pipe, IF cpuRuns THEN "H" ELSE "R")
    /\ UNCHANGED <<serverVars, fifoVars, clientVars, historyVars>>

CpuReads ==
    /\ cpuRuns
    /\ infifo # <<>>
    /\ infifo' = Tail(infifo)
    /\ UNCHANGED <<serverVars, cpuVars, outfifo, arrived, written, clientVars, historyVars>>

CpuWrites ==
    /\ cpuRuns
    /\ Len(outfifo) < FifoSize
    /\ written < MaxOut
    /\ written' = written + 1
    /\ outfifo' = Append(outfifo, written + 1)
    /\ UNCHANGED <<serverVars, cpuVars, infifo, arrived, clientVars, historyVars>>

ClientSends ==
    /\ client = "open"
    /\ sent < MaxIn
    /\ sent' = sent + 1
    /\ rx' = Append(rx, sent + 1)
    /\ UNCHANGED <<serverVars, cpuVars, fifoVars, client, tx, received, historyVars>>

ClientReads ==
    /\ client = "open"
    /\ tx # <<>>
    /\ received' = Append(received, Head(tx))
    /\ tx' = Tail(tx)
    /\ UNCHANGED <<serverVars, cpuVars, fifoVars, client, rx, sent, historyVars>>

ClientLeaves ==
    /\ MayLeave
    /\ client = "open"
    /\ client' = "gone"
    /\ UNCHANGED <<serverVars, cpuVars, fifoVars, rx, tx, sent, received, historyVars>>

Next ==
    \/ ServerStep
    \/ StopOrStart
    \/ CpuReads
    \/ CpuWrites
    \/ ClientSends
    \/ ClientReads
    \/ ClientLeaves

Spec == Init /\ [][Next]_vars

\* The thread is scheduled, the program reads its serial port, and the client
\* its socket.
JspFairness ==
    /\ WF_vars(ServerStep)
    /\ WF_vars(CpuReads)
    /\ WF_vars(ClientReads)

FairSpec == Spec /\ JspFairness

-----------------------------------------------------------------------------
RingWith(counts, max) ==
    [rd : 0 .. JSP_BUFFER_SIZE - 1, wr : 0 .. JSP_BUFFER_SIZE - 1,
     count : counts, buf : [0 .. JSP_BUFFER_SIZE - 1 -> 0 .. max]]

Ring(max) == RingWith(0 .. JSP_BUFFER_SIZE, max)

\* Indices stay in the arrays: recv() and send() are given no memory outside of
\* them; the FIFOs keep their size and the rings their counts, that of the ring
\* from the hardware until it is overrun.
TypeOK ==
    /\ jpc \in {"accept", "select", "recv", "recv2", "send", "send2",
                "transact", "killed"}
    /\ tohw \in Ring(MaxIn)
    /\ fromhw \in RingWith(Nat, MaxOut)
    /\ overrun \in BOOLEAN
    /\ ~overrun => fromhw \in Ring(MaxOut)
    /\ jsp_target_is_running \in {0, 1}
    /\ pipe \in Seq({"H", "R"})
    /\ cpuRuns \in BOOLEAN
    /\ client \in {"none", "open", "gone"}
    /\ rx \in Seq(1 .. MaxIn)
    /\ tx \in Seq(0 .. MaxOut) /\ Len(tx) <= Room
    /\ infifo \in Seq(0 .. MaxIn) /\ Len(infifo) <= FifoSize
    /\ outfifo \in Seq(1 .. MaxOut) /\ Len(outfifo) <= FifoSize
    /\ sent \in 0 .. MaxIn
    /\ arrived \in Seq(0 .. MaxIn)
    /\ written \in 0 .. MaxOut
    /\ received \in Seq(0 .. MaxOut)
    /\ failures \in 0 .. MaxFailures

UpTo(n) == [i \in 1 .. n |-> i]
BytesOf(s) == {s[i] : i \in DOMAIN s}

\* The bytes of each direction, from the first.
InBytes == arrived \o Peek(tohw, tohw.count) \o rx
OutBytes == received \o tx \o Peek(fromhw, fromhw.count) \o outfifo

\* What the hardware has taken, what is in the ring and what is in the socket
\* are the bytes the client has sent, each once and in order, wherever the
\* ring wraps and however few bytes the hardware takes.
InputInOrder == failures = 0 => InBytes = UpTo(sent)

\* The same for the other direction, while the client is there and the program
\* has not run ahead of it by more than the ring holds: partial sends neither
\* lose nor repeat a byte.
OutputInOrder ==
    failures = 0 /\ client # "gone" /\ ~overrun => OutBytes = UpTo(written)

\* A failed transaction may repeat bytes to the hardware, but loses none.
InputNotLost == BytesOf(InBytes) = 1 .. sent

\* It may lose bytes from the hardware, but neither repeats nor reorders them.
OutputNotRepeated ==
    client # "gone" /\ ~overrun =>
        \A i, j \in DOMAIN OutBytes : i < j => OutBytes[i] < OutBytes[j]

\* However the rings wrap and whatever part of them is taken, bytes arrive each
\* once and in order; transactions that fail lose none on its way to the hardware
\* and neither repeat nor reorder one from it; the rings keep their bounds
\* (jsp_hardware_transact, jsp_send_to_client).  From the hardware this is so
\* until the ring is given more than it has room for, which nothing prevents.
BytesInOrder ==
    TypeOK /\ InputInOrder /\ OutputInOrder /\ InputNotLost /\ OutputNotRepeated

\* As soon as the target runs for good, each byte the client has sent reaches
\* the hardware, failing transactions or not, if the client stays.
InputArrives ==
    <>[]cpuRuns /\ [](client # "gone") =>
        \A n \in 1 .. MaxIn : sent >= n ~> n \in BytesOf(arrived)

\* The same for what the program has written, if no transaction fails.
OutputArrives ==
    <>[]cpuRuns /\ [](client # "gone") /\ [](failures = 0) =>
        \A n \in 1 .. MaxOut : written >= n ~> Len(received) >= n

=============================================================================

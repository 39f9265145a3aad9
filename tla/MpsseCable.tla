------------------------------ MODULE MpsseCable ------------------------------
(***************************************************************************)
(* The FT2232 driver (cable_ft2232.c).  A stream becomes commands for the  *)
(* MPSSE: whole bytes, single bits, and the last bit if TMS goes with it.  *)
(* Commands are kept in a buffer until they must go, and the bytes they    *)
(* will be answered with are counted (to_recv) so that a flush can fetch   *)
(* them.                                                                   *)
(*                                                                         *)
(* As in CableStream.tla a bit is named by its place in the stream.        *)
(***************************************************************************)
EXTENDS Integers, Sequences
LOCAL INSTANCE SequencesExt

CONSTANTS
    BYTE,         \* bits of a byte: 8 in the code
    CHUNK,        \* bytes of a command: 65536
    MAXRECV,      \* FTDI_MAXRECV: 256
    MAXSEND,      \* FTDX_MAXSEND: 4096
    Lengths,      \* lengths of the streams, in bits
    Reads,        \* whether streams are read, too
    Failures,     \* how writes to the device fail
    MayPart,      \* a read may return fewer bytes than it asks for
    MaxCalls      \* bound on the number of calls

MpsseAssumption ==
    /\ {BYTE, CHUNK, MAXRECV, MAXSEND, MaxCalls} \subseteq Nat \ {0}
    /\ Lengths \subseteq Nat \ {0}
    /\ Failures \subseteq {"short", "error"}
    /\ MayPart \in BOOLEAN /\ Reads \subseteq BOOLEAN

\* A byte nobody has written.
Garbage == -1

VARIABLES
    pc,             \* "idle", "send", "buffer", "flush", "receive", "copy", "direct"
    back,           \* where a flush returns to
    bad,            \* the flush has failed
    postread, len, with_tms,     \* the call
    next,           \* the command to be sent, then the answer to be read
    send,           \* send_buf: commands
    send_buffered,  \* its bytes
    to_recv,
    recv,           \* recv_buf
    got,            \* bytes of the present read
    device,         \* answers in the device
    instream,
    wire,           \* what the call has clocked into the chain
    calls

callVars == <<postread, len, with_tms, calls>>
sendVars == <<send, send_buffered>>
vars == <<pc, back, bad, callVars, next, sendVars, to_recv, recv, got, device,
          instream, wire>>

-----------------------------------------------------------------------------
(* The commands of a stream.                                               *)

\* The bits without the one that TMS goes with.
PlainBits == len - (IF with_tms THEN 1 ELSE 0)

LowestOf(a, b) == IF a < b THEN a ELSE b

Command(kind, first, n, recvs, size) ==
    [kind |-> kind, first |-> first, bits |-> n, recv |-> recvs, size |-> size]

\* cable_ft2232_write_bytes(): chunks of at most CHUNK bytes.
ByteCommands ==
    LET bytes == PlainBits \div BYTE IN
    [k \in 1 .. (bytes + CHUNK - 1) \div CHUNK |->
        LET n == LowestOf(CHUNK, bytes - (k - 1) * CHUNK) IN
        Command("bytes", (k - 1) * CHUNK * BYTE, n * BYTE,
                IF postread THEN n ELSE 0, n + 3)]

\* cable_ft2232_write_bits(): one command, or one for the bit with TMS.
BitCommands ==
    LET bits == PlainBits % BYTE
        one == IF postread THEN 1 ELSE 0
    IN (IF bits > 0
        THEN <<Command("bits", PlainBits - bits, bits, one, 3)>> ELSE <<>>)
       \o (IF with_tms THEN <<Command("tms", len - 1, 1, one, 3)>> ELSE <<>>)

\* cable_ft2232_write_stream().
Commands == ByteCommands \o BitCommands

\* What the device does with a command, and the bytes it answers with.
Clocks(c) ==
    [i \in 1 .. c.bits |-> [bit |-> c.first + i - 1, tms |-> c.kind = "tms"]]

Answers(c) ==
    [k \in 1 .. c.recv |->
        IF c.kind = "bytes" THEN [j \in 1 .. BYTE |-> c.first + (k - 1) * BYTE + j - 1]
                            ELSE [j \in 1 .. c.bits |-> c.first + j - 1]]

Execute(cmds) ==
    /\ wire' = wire \o FlattenSeq([k \in DOMAIN cmds |-> Clocks(cmds[k])])
    /\ device' = device \o FlattenSeq([k \in DOMAIN cmds |-> Answers(cmds[k])])

-----------------------------------------------------------------------------
Init ==
    /\ pc = "idle" /\ back = "idle" /\ bad = FALSE
    /\ postread = FALSE /\ len = 1 /\ with_tms = FALSE
    /\ next = 1
    /\ send = <<>> /\ send_buffered = 0
    /\ to_recv = 0 /\ recv = <<>> /\ got = <<>> /\ device = <<>>
    /\ instream = <<>> /\ wire = <<>>
    /\ calls = 0

\* cable_ftdi_write_stream(), _read_stream(), _write_bit(), _read_write_bit().
Call(post, n, tms) ==
    /\ pc = "idle" /\ calls < MaxCalls
    /\ pc' = "send"
    /\ postread' = post /\ len' = n /\ with_tms' = tms
    /\ next' = 1
    /\ instream' = [i \in 0 .. n - 1 |-> Garbage]
    /\ wire' = <<>>
    /\ device' = [k \in DOMAIN device |-> <<Garbage>>]
    /\ calls' = calls + 1
    /\ UNCHANGED <<back, bad, sendVars, to_recv, recv, got>>

Flush(place) == pc' = "flush" /\ back' = place /\ bad' = FALSE

\* After command or answer next: the following one, or, when all are sent, the
\* answers of a read or the flush of a write.
Advance(k) ==
    /\ next' = IF k > Len(Commands) THEN 1 ELSE k
    /\ IF k <= Len(Commands) THEN pc' = "send" /\ UNCHANGED <<back, bad>>
       ELSE Flush(IF postread THEN "copy" ELSE "idle")

\* "this write function will try to buffer write data buffering will be ceased
\* and a flush triggered in two cases."
MustFlush(c) ==
    \/ to_recv + c.recv > MAXRECV
    \/ send_buffered > MAXSEND /\ to_recv = 0

\* usbconn_ftdi_write().
Send ==
    /\ pc = "send"
    /\ IF MustFlush(Commands[next]) THEN Flush("buffer")
                                    ELSE pc' = "buffer" /\ bad' = FALSE /\ back' = back
    /\ UNCHANGED <<callVars, next, sendVars, to_recv, recv, got, device,
                   instream, wire>>

\* The first command after k of another function.
AfterFailed(k) ==
    IF \E n \in k .. Len(Commands) : Commands[n].kind # Commands[k].kind
    THEN CHOOSE n \in k .. Len(Commands) :
            /\ Commands[n].kind # Commands[k].kind
            /\ \A m \in k .. n - 1 : Commands[m].kind = Commands[k].kind
    ELSE Len(Commands) + 1

Buffer ==
    LET c == Commands[next] IN
    /\ pc = "buffer"
    /\ IF bad THEN UNCHANGED <<sendVars, to_recv>> /\ Advance(AfterFailed(next))
       ELSE /\ send' = Append(send, c)
            /\ send_buffered' = send_buffered + c.size
            /\ to_recv' = to_recv + c.recv
            /\ Advance(next + 1)
    /\ UNCHANGED <<callVars, recv, got, device, instream, wire>>

\* Mutant: a single byte is left to the read.
MoreThanOne == to_recv > 1

SomeToFetch == to_recv > 0

\* usbconn_ftdi_flush(): the commands.  When the device takes only some, all
\* stay in the buffer; when the write fails, its negative result, compared as
\* an unsigned number, counts as success and the commands are dropped.
FlushSend ==
    /\ pc = "flush"
    /\ \/ /\ send = <<>>
          /\ pc' = back
          /\ UNCHANGED <<bad, sendVars, wire, device>>
       \/ /\ send # <<>>
          /\ Execute(send)
          /\ send' = <<>> /\ send_buffered' = 0
          /\ pc' = IF SomeToFetch THEN "receive" ELSE back
          /\ bad' = bad
       \/ /\ send # <<>> /\ "short" \in Failures
          /\ \E k \in 0 .. Len(send) - 1 : Execute(SubSeq(send, 1, k))
          /\ bad' = TRUE
          /\ pc' = back
          /\ UNCHANGED sendVars
       \/ /\ send # <<>> /\ "error" \in Failures
          /\ send' = <<>> /\ send_buffered' = 0
          /\ bad' = TRUE
          /\ pc' = IF SomeToFetch THEN "receive" ELSE back
          /\ UNCHANGED <<wire, device>>
    /\ UNCHANGED <<callVars, back, next, to_recv, recv, got, instream>>

\* ftdi_read_data(): some of n bytes, as soon as there is one.
Fetch(n, take(_)) ==
    \E k \in 1 .. LowestOf(n, Len(device)) :
        /\ MayPart \/ k = n
        /\ take(SubSeq(device, 1, k))
        /\ device' = SubSeq(device, k + 1, Len(device))

\* "now read all scheduled receive bytes".
FlushReceive ==
    /\ pc = "receive"
    /\ Fetch(to_recv, LAMBDA b : recv' = recv \o b /\ to_recv' = to_recv - Len(b))
    /\ pc' = back
    /\ UNCHANGED <<callVars, back, bad, next, sendVars, got, instream, wire>>

\* The bytes of all commands of a kind are read at once.
Wanted ==
    IF Commands[next].kind = "bytes" THEN PlainBits \div BYTE ELSE 1

Offset(c) == c.first

\* cable_ft2232_read_packed_bits(): the bits of the bytes, each at its place;
\* bytes that did not come are whatever malloc() returned.
Placed(bs) ==
    LET c == Commands[next]
        size == IF c.kind = "bytes" THEN BYTE ELSE c.bits
    IN [i \in DOMAIN instream |->
          LET at == i - Offset(c)
              k == at \div size + 1
          IN IF at \notin 0 .. Wanted * size - 1 THEN instream[i]
             ELSE IF k <= Len(bs) /\ (at % size) < Len(bs[k])
                  THEN bs[k][(at % size) + 1] ELSE Garbage]

MoreToRead(k) == k <= Len(Commands)

\* cable_ft2232_read_stream(): the next answer, or the end of the call.
AfterAnswer ==
    LET k == IF Commands[next].kind = "bytes" THEN Len(ByteCommands) + 1
                                              ELSE next + 1
    IN /\ next' = k
       /\ IF MoreToRead(k) THEN Flush("copy")
                           ELSE pc' = "idle" /\ UNCHANGED <<back, bad>>

\* usbconn_ftdi_read(): from the receive buffer, and what is missing directly
\* from the device.
Copy ==
    LET n == LowestOf(Wanted, Len(recv)) IN
    /\ pc = "copy"
    /\ IF bad THEN AfterAnswer /\ UNCHANGED <<got, recv, instream>>
       ELSE /\ got' = SubSeq(recv, 1, n)
            /\ recv' = SubSeq(recv, n + 1, Len(recv))
            /\ IF n = Wanted THEN AfterAnswer /\ instream' = Placed(got')
               ELSE pc' = "direct" /\ UNCHANGED <<next, back, bad, instream>>
    /\ UNCHANGED <<callVars, sendVars, to_recv, device, wire>>

\* "need to get more data directly from the device".  However little comes, the
\* read counts as complete.
Direct ==
    /\ pc = "direct"
    /\ Fetch(Wanted - Len(got), LAMBDA b : instream' = Placed(got \o b))
    /\ AfterAnswer
    /\ UNCHANGED <<callVars, sendVars, to_recv, recv, got, wire>>

Step == Send \/ Buffer \/ FlushSend \/ FlushReceive \/ Copy \/ Direct

Calling ==
    \E post \in Reads, n \in Lengths, tms \in BOOLEAN : Call(post, n, tms)

\* All calls are made.
Done == pc = "idle" /\ calls = MaxCalls /\ UNCHANGED vars

Next == Calling \/ Step \/ Done

Spec == Init /\ [][Next]_vars

\* The thread in the call is scheduled.
FairSpec == Spec /\ WF_vars(Step)

-----------------------------------------------------------------------------
TypeOK ==
    /\ pc \in {"idle", "send", "buffer", "flush", "receive", "copy", "direct"}
    /\ back \in {"idle", "buffer", "copy"}
    /\ pc \in {"send", "buffer", "copy", "direct"} => next \in DOMAIN Commands
    /\ to_recv \in Nat
    /\ \A i \in DOMAIN instream : instream[i] \in {Garbage} \union 0 .. len - 1

\* When a call has returned, exactly its stream has been clocked, with TMS at
\* its last bit only, however it was cut into commands and flushes.
StreamIsClocked ==
    pc = "idle" /\ calls > 0 =>
        wire = [i \in 1 .. len |-> [bit |-> i - 1, tms |-> with_tms /\ i = len]]

\* When a read has returned, each bit is where it belongs.
ReadIsPlaced ==
    pc = "idle" /\ calls > 0 /\ postread =>
        \A i \in DOMAIN instream : instream[i] = i

\* "now read all scheduled receive bytes": to_recv counts the bytes that the
\* commands in the buffer will be answered with and those the device still
\* holds, so that no read waits for bytes that were read already.
ScheduledIsTrue ==
    to_recv = Len(device) + FoldLeft(LAMBDA n, c : n + c.recv, 0, send)

\* "Written fewer bytes than requested.": commands the device did not take at
\* all are lost, but no bit is clocked twice or out of its turn.
BitsInOrder ==
    \A i, j \in DOMAIN wire : i < j => wire[i].bit < wire[j].bit

\* A call returns: a stream that cannot be written is given up.
CallReturns == pc # "idle" ~> pc = "idle"
=============================================================================

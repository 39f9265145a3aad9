----------------------------- MODULE CableStream ------------------------------
(***************************************************************************)
(* Bit streams through a USB-Blaster (cable_usbblaster.c, cable_ft245.c):  *)
(* whole bytes in byte-shift packets, the rest bit by bit with the common  *)
(* functions of cable_common.c.                                            *)
(*                                                                         *)
(* A bit of a stream is named by its place in it: the chain answers bit i  *)
(* with the bit named i, and the words read hold, where a bit belongs, the *)
(* set of the bits or-ed together there.                                   *)
(***************************************************************************)
EXTENDS Integers, Sequences

CONSTANTS
    DRIVER,      \* which of the two drivers
    BYTE,        \* bits of a byte: 8 in the code
    LANES,       \* bytes of a word: 4
    MAX_WRITE,   \* USBBLASTER_MAX_WRITE: 63
    MAX_READ,    \* USBBLASTER_MAX_READ: 62
    RETRIES,     \* empty reads before a packet is given up: 15
    Lengths,     \* lengths of the streams, in bits
    MayFail,     \* transfers fail
    MayPart,     \* answers come in parts, or late
    MaxCalls     \* bound on the number of calls

CableAssumption ==
    /\ DRIVER \in {"usbblaster", "ft245"}
    /\ {BYTE, LANES, MAX_WRITE, MAX_READ, RETRIES, MaxCalls} \subseteq Nat \ {0}
    /\ Lengths \subseteq Nat \ {0}
    /\ {MayFail, MayPart} \subseteq BOOLEAN

WordBits == BYTE * LANES

\* What the fifo of the cable may hold from an earlier call, and a word of the
\* caller before it is cleared.
Stale == -1

VARIABLES
    pc,        \* "idle", "low", "packet", "answer", "bits" or "crashed"
    fun, len_bits, set_last_bit,   \* the call
    done,      \* bytes shifted so far
    bit,       \* bits clocked one by one so far
    xfer,      \* bytes of the packet to be answered
    received,  \* bytes received for it
    total,     \* bytes received for all packets
    retries,
    short,     \* an answer of the call had less than its two bytes of status, which
               \* are taken off the unsigned counts all the same (model only)
    instream,
    err,
    tck,       \* level of the clock line
    wire,      \* what the call has clocked into the chain
    fifo,      \* answers in the cable, each the bits of a byte
    lost,      \* a transfer of the call failed or its answer was late or in part, or
               \* what it reads comes after answers of an earlier call (model only)
    calls

callVars == <<fun, len_bits, set_last_bit, calls>>
answerVars == <<xfer, received, total, retries, short>>
vars == <<pc, callVars, done, bit, answerVars, instream, err, tck, wire, fifo, lost>>

-----------------------------------------------------------------------------
(* The split of a stream.                                                  *)

\* The last bit goes by itself if TMS goes with it.
BytesToTransfer(len, last) ==
    len \div BYTE - (IF last /\ len % BYTE = 0 THEN 1 ELSE 0)

bytes == BytesToTransfer(len_bits, set_last_bit)
leftover == len_bits - bytes * BYTE

\* Byte n of the stream, as the bits it consists of.
ByteOf(n) == [j \in 1 .. BYTE |-> n * BYTE + j - 1]

WordsOf(len) == 0 .. ((len + WordBits - 1) \div WordBits) * WordBits - 1

Clocked(i) == [bit |-> i, tms |-> set_last_bit /\ i = len_bits - 1]

Init ==
    /\ pc = "idle" /\ fun = "write" /\ len_bits = 1 /\ set_last_bit = FALSE
    /\ done = 0 /\ bit = 0
    /\ xfer = 0 /\ received = 0 /\ total = 0 /\ retries = 0 /\ short = FALSE
    /\ instream = <<>>
    /\ err = TRUE
    /\ tck = TRUE
    /\ wire = <<>> /\ fifo = <<>>
    /\ lost = FALSE
    /\ calls = 0

\* cable_write_stream(), cable_read_write_stream().
Call(f, len, last) ==
    /\ pc = "idle" /\ calls < MaxCalls
    /\ fun' = f /\ len_bits' = len /\ set_last_bit' = last
    /\ pc' = IF BytesToTransfer(len, last) = 0 THEN "bits" ELSE "low"
    /\ done' = 0 /\ bit' = 0
    /\ xfer' = 0 /\ received' = 0 /\ total' = 0 /\ retries' = 0 /\ short' = FALSE
    /\ instream' = [i \in WordsOf(len) |-> {Stale}]
    /\ err' = FALSE
    /\ wire' = <<>>
    /\ fifo' = [k \in DOMAIN fifo |-> [j \in DOMAIN fifo[k] |-> Stale]]
    /\ lost' = (f = "read" /\ fifo # <<>>)
    /\ calls' = calls + 1
    /\ UNCHANGED tck

Return(e) == pc' = "idle" /\ err' = e

\* Mutant: the clock stays as the last bit left it.
StaysHigh ==
    /\ pc = "low"
    /\ pc' = "packet"
    /\ instream' = [i \in DOMAIN instream |-> {}]
    /\ UNCHANGED <<callVars, done, bit, answerVars, tck, err, wire, fifo, lost>>

\* cable_usbblaster_out(0), cable_ft245_out(0), and the words to be or-ed into
\* are cleared.  One driver does not hear of a failure; the other may also be
\* unable to open the cable again, and returns.
LowerClock ==
    /\ pc = "low"
    /\ \/ pc' = "packet" /\ tck' = FALSE /\ UNCHANGED <<err, lost>>
       \/ /\ MayFail /\ lost' = TRUE /\ tck' = tck
          /\ \/ pc' = "packet" /\ err' = (DRIVER = "usbblaster")
             \/ DRIVER = "usbblaster" /\ Return(TRUE)
    /\ instream' = IF fun = "read" THEN [i \in DOMAIN instream |-> {}] ELSE instream
    /\ UNCHANGED <<callVars, done, bit, answerVars, wire, fifo>>

-----------------------------------------------------------------------------
(* Byte-shift packets.                                                     *)

LowestOf(a, b) == IF a < b THEN a ELSE b

\* With the clock high, the first bit is out before its turn.
Shifted(n) == IF tck THEN [j \in 1 .. BYTE |-> Stale] ELSE ByteOf(n)

\* n bytes go through the chain.
Shift(n) ==
    wire' = wire \o [k \in 1 .. n * BYTE |->
                        [bit |-> Shifted(done + (k - 1) \div BYTE)[((k - 1) % BYTE) + 1],
                         tms |-> FALSE]]

\* After the last packet, the bits that are left.  A write forgets the error.
AfterPackets(e) ==
    IF leftover = 0 THEN Return(e)
    ELSE pc' = "bits" /\ err' = (fun = "read" /\ e)

WritePacket ==
    LET n == LowestOf(MAX_WRITE, bytes - done) IN
    /\ pc = "packet" /\ fun = "write"
    /\ \/ /\ Shift(n)
          /\ done' = done + n
          /\ IF done' = bytes THEN AfterPackets(err) ELSE UNCHANGED <<pc, err>>
          /\ UNCHANGED lost
       \/ /\ MayFail /\ lost' = TRUE
          /\ AfterPackets(TRUE)
          /\ UNCHANGED <<done, wire>>
    /\ UNCHANGED <<callVars, bit, answerVars, instream, tck, fifo>>

ReadPacket ==
    LET n == LowestOf(MAX_READ, bytes - done) IN
    /\ pc = "packet" /\ fun = "read"
    /\ \/ /\ Shift(n)
          /\ fifo' = fifo \o [k \in 1 .. n |-> Shifted(done + k - 1)]
          /\ xfer' = n /\ received' = 0 /\ retries' = 0
          /\ pc' = "answer" /\ UNCHANGED <<err, lost>>
       \/ /\ MayFail /\ lost' = TRUE
          /\ Return(TRUE)
          /\ UNCHANGED <<wire, fifo, xfer, received, retries>>
    /\ UNCHANGED <<callVars, done, bit, total, short, instream, tck>>

\* Mutant: every byte goes into the word after its own.
NextWord(i) == ((total + i) \div LANES + 1) * LANES + (i % LANES)

\* Where byte i of an answer is put: the word counts all bytes received, the
\* lane only those of this answer.
PlaceOf(i) == ((total + i) \div LANES) * LANES + (i % LANES)

\* The words read with the first n answers of the fifo or-ed in.
WithAnswers(n) ==
    [b \in DOMAIN instream |-> instream[b] \union
        {fifo[i + 1][(b % BYTE) + 1] : i \in {k \in 0 .. n - 1 : PlaceOf(k) = b \div BYTE}}]

\* Mutant: the count of empty reads wraps before it reaches the limit.
WrapsAround(n) == IF n > 0 THEN 0 ELSE (retries + 1) % RETRIES

RetriesAfter(n) == IF n > 0 THEN 0 ELSE retries + 1

\* The packet is answered when all of it has come, or when a count below zero,
\* which is unsigned, looks like more than that; after too many empty reads it
\* counts as answered, too.
GoOn ==
    IF received' \in 0 .. xfer - 1 /\ retries' < RETRIES
    THEN UNCHANGED <<pc, err, done>>
    ELSE /\ done' = done + xfer
         /\ IF done' = bytes THEN AfterPackets(err)
                             ELSE pc' = "packet" /\ err' = err

\* What the cable has, up to what is wanted.
TakeAnswers(n) ==
    /\ MayPart \/ n = xfer - received
    /\ lost' = (lost \/ n # xfer - received)
    /\ instream' = WithAnswers(n)
    /\ fifo' = SubSeq(fifo, n + 1, Len(fifo))
    /\ received' = received + n
    /\ total' = total + n
    /\ retries' = RetriesAfter(n)
    /\ GoOn
    /\ UNCHANGED short

\* s bytes of the status are missing: rv - 2 is below zero.  The code of the other
\* driver that takes the status off is not its own.
TakeShort(s) ==
    /\ MayPart /\ DRIVER = "usbblaster"
    /\ short' = TRUE /\ lost' = TRUE
    /\ received' = received - s
    /\ total' = total - s
    /\ retries' = RetriesAfter(0)
    /\ GoOn
    /\ UNCHANGED <<instream, fifo>>

\* usb_bulk_read(), usb_blaster_buf_read().  A byte whose place is below zero goes
\* to memory far beyond the caller's words, where the bridge may have none.
Answer ==
    /\ pc = "answer"
    /\ \/ \E n \in 0 .. LowestOf(Len(fifo), xfer - received) : TakeAnswers(n)
       \/ \E s \in 1 .. 2 : TakeShort(s)
       \/ /\ total < 0 /\ fifo # <<>>
          /\ pc' = "crashed"
          /\ UNCHANGED <<err, lost, instream, fifo, received, total, retries, short, done>>
       \/ /\ MayFail /\ lost' = TRUE
          /\ Return(TRUE)
          /\ UNCHANGED <<instream, fifo, received, total, retries, short, done>>
    /\ UNCHANGED <<callVars, bit, xfer, tck, wire>>

-----------------------------------------------------------------------------
(* Bit by bit.                                                             *)

\* Whether an error of the driver is seen: cable_ft245_out() has none.
Heard == DRIVER = "usbblaster"

LastBit == bit + 1 = leftover

AfterBit(e) ==
    /\ bit' = bit + 1
    /\ IF LastBit THEN Return(e) ELSE pc' = pc /\ err' = e

\* cable_common_write_bit(): data with the clock low, then with the clock high.
\* If either is lost, nothing is clocked.
WriteBit ==
    /\ pc = "bits" /\ fun = "write"
    /\ \/ /\ wire' = Append(wire, Clocked(bytes * BYTE + bit))
          /\ tck' = TRUE
          /\ AfterBit(err)
          /\ UNCHANGED lost
       \/ /\ MayFail /\ lost' = TRUE
          /\ tck' \in BOOLEAN
          /\ wire' = wire
          /\ AfterBit(err \/ Heard)
    /\ UNCHANGED <<callVars, done, answerVars, instream, fifo>>

\* Or-ed into the bit's place; a stream that is bit by bit from its start
\* clears each word as it comes to it.
WithBit(b, i) ==
    [k \in DOMAIN instream |->
        LET old == IF bytes = 0 /\ k \div WordBits = i \div WordBits /\ i % WordBits = 0
                   THEN {} ELSE instream[k]
        IN IF k = i THEN old \union b ELSE old]

\* cable_usbblaster_inout(): the answer is the first byte of the fifo.  When it
\* does not come in time the bit is taken as 0.
TakeBit(i) ==
    LET answers == Append(fifo, [j \in 1 .. BYTE |-> IF j = 1 THEN i ELSE Stale]) IN
    \/ instream' = WithBit({Head(answers)[1]}, i) /\ fifo' = Tail(answers) /\ lost' = lost
    \/ MayPart /\ instream' = WithBit({}, i) /\ fifo' = answers /\ lost' = TRUE

\* cable_common_read_write_bit(); a bit that is lost reads as 0, too.
ReadBit ==
    LET i == bytes * BYTE + bit IN
    /\ pc = "bits" /\ fun = "read"
    /\ \/ /\ wire' = Append(wire, Clocked(i))
          /\ tck' = TRUE
          /\ TakeBit(i)
          /\ AfterBit(err)
       \/ /\ MayFail /\ lost' = TRUE
          /\ tck' \in BOOLEAN
          /\ instream' = WithBit({}, i)
          /\ UNCHANGED <<wire, fifo>>
          /\ AfterBit(err \/ Heard)
    /\ UNCHANGED <<callVars, done, answerVars>>

Step == LowerClock \/ WritePacket \/ ReadPacket \/ Answer \/ WriteBit \/ ReadBit

Calling ==
    \E f \in {"write", "read"}, len \in Lengths, last \in BOOLEAN : Call(f, len, last)

\* All calls are made, or nobody is left to make them.
Done == pc = "crashed" \/ (pc = "idle" /\ calls = MaxCalls)

Next == Calling \/ Step \/ (Done /\ UNCHANGED vars)

Spec == Init /\ [][Next]_vars

\* The thread in the call is scheduled, and transfers end: they have a timeout.
FairSpec == Spec /\ WF_vars(Step)

-----------------------------------------------------------------------------
Tokens == {Stale} \union 0 .. len_bits

TypeOK ==
    /\ pc \in {"idle", "low", "packet", "answer", "bits", "crashed"}
    /\ done \in 0 .. bytes /\ bit \in 0 .. leftover
    /\ {received, total} \subseteq Int /\ received <= xfer /\ total <= bytes
    /\ received < 0 \/ total < 0 => short
    /\ retries \in 0 .. RETRIES
    /\ \A i \in DOMAIN instream : instream[i] \subseteq Tokens
    /\ \A k \in DOMAIN wire : wire[k].bit \in Tokens

Returned(f) == pc = "idle" /\ ~err /\ fun = f

AllClocked == wire = [k \in 1 .. len_bits |-> Clocked(k - 1)]

\* cable_usbblaster.c: "TMS (the last bit) cannot be set by 'byte shift mode'.
\* So we need at least 8 bits to transfer, plus one bit to send along with TMS."
\* A read that returns no error has clocked the whole stream, in order, with TMS at
\* its last bit only: whatever has failed or came late or short with the driver
\* that hears of failures, and if nothing has with the other.
ReadClocksStream == Returned("read") /\ (Heard \/ ~lost) => AllClocked

\* The same of a write, in whatever way it was split, if nothing failed: a write
\* forgets the error of its packets when it goes on to the bits that are left.
WriteClocksStream == Returned("write") /\ ~lost => AllClocked

\* "Put the received bytes into the return stream.  Works for either endian."
\* After a read of one packet that was answered at once, each bit of the stream is
\* where it belongs, and nothing else is.  An answer in parts, and the packets
\* after the first, are put where the lane of the code does not belong.
ReadIsPlaced ==
    Returned("read") /\ ~lost /\ bytes <= MAX_READ =>
        \A i \in 0 .. len_bits - 1 : instream[i] = {i}

\* What a call that returns no error has done (cable_usbblaster_*_stream,
\* cable_ft245_*_stream): a read clocked its stream although transfers failed or
\* were answered in parts, a write clocked its own if none failed, and a read of
\* one packet that was answered at once holds each bit where it belongs.  Nothing
\* is said of a write with a failure, of which the code may not tell, nor of what
\* a read in several parts or packets holds.
StreamsAreRight == ReadClocksStream /\ WriteClocksStream /\ ReadIsPlaced

\* "retry until we get at least 3 bytes (with real data), for a reasonable
\* number of retries."  A call returns, whatever the cable answers, unless an
\* answer without its status has made the bridge write where it has no memory.
CallReturns == pc # "idle" ~> pc = "idle" \/ (pc = "crashed" /\ short)
=============================================================================

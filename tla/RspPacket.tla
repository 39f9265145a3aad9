------------------------------ MODULE RspPacket -------------------------------
(***************************************************************************)
(* Packets between GDB and the RSP server (rsp-server.c: get_packet,       *)
(* put_packet and the loop of handle_rsp around them), as characters of a  *)
(* TCP stream: framing, checksum, escapes, "+" and "-", the 0x03 byte, and *)
(* what the server does instead of reading the statuses of the monitor.    *)
(*                                                                         *)
(* GDB is the environment.  It sends one request at a time, repeats it on  *)
(* "-", throws away (and acknowledges) packets that come instead of an     *)
(* acknowledgement, refuses damaged replies, and may time out, press       *)
(* Ctrl-C while it waits for a stop, or leave.  The line may damage a      *)
(* character; TCP does not, a serial line behind it would.                 *)
(***************************************************************************)
EXTENDS Integers, Sequences

LOCAL INSTANCE SequencesExt

CONSTANTS
    GDB_BUF_MAX,  \* characters rsp_buf holds
    Kinds,        \* requests GDB sends: "m", "X", "c"
    Payloads,     \* data of the "X" requests
    Noise,        \* what a damaged character may become
    DataOnly,     \* whether only the data and checksum of packets are damaged
    MaxRequests, MaxDamages, MaxTimeouts, MaxBreaks,  \* bounds
    MayLeave      \* whether GDB may close the connection

PacketAssumption ==
    /\ GDB_BUF_MAX \in Nat
    /\ Kinds \subseteq {"m", "X", "c"}
    /\ Payloads \subseteq Seq(0..255) /\ Noise \subseteq 0..255
    /\ {MaxRequests, MaxDamages, MaxTimeouts, MaxBreaks} \subseteq Nat
    /\ {DataOnly, MayLeave} \subseteq BOOLEAN

VARIABLES
    pc,              \* where the RSP thread is
    open,            \* client_fd # -1
    buf,             \* data of the packet being read, or the request read
    reply,           \* frame that awaits its acknowledgement
    target_running, client_waiting,
    toRsp,           \* characters from GDB not read yet; Eof ends them
    toGdb,           \* acknowledgements and frames GDB has not read
    pipe,            \* statuses of the monitor not read yet
    cpuRuns,
    gdb,             \* what GDB waits for: see TypeOK
    requests,        \* requests of GDB in order,
    answers,         \* and the replies it took for answers
    obeyed,          \* history: what rsp_client_request() was given
    damages, timeouts, breaks  \* so far, to bound the model

rspVars == <<pc, open, buf, reply, target_running, client_waiting, obeyed>>
cpuVars == <<pipe, cpuRuns>>
gdbVars == <<gdb, requests, answers, timeouts, breaks>>
vars == <<rspVars, cpuVars, gdbVars, toRsp, toGdb, damages>>

Eof == -1
Break == 3
Hash == 35    \* #
Dollar == 36  \* $
Star == 42    \* *
Plus == 43    \* +
Minus == 45   \* -
Brace == 125  \* }

-----------------------------------------------------------------------------
(* Frames.                                                                 *)

\* ch ^ 0x20
Flip(ch) == IF (ch \div 32) % 2 = 0 THEN ch + 32 ELSE ch - 32

Escape(data, special) ==
    FlattenSeq([i \in 1..Len(data) |->
        IF data[i] \in special THEN <<Brace, Flip(data[i])>> ELSE <<data[i]>>])

Unescape(data) ==
    LET Next1(acc, ch) ==
            CASE acc.escaped -> [escaped |-> FALSE, out |-> Append(acc.out, Flip(ch))]
              [] ~acc.escaped /\ ch = Brace -> [acc EXCEPT !.escaped = TRUE]
              [] OTHER -> [acc EXCEPT !.out = Append(@, ch)]
        end == FoldLeft(Next1, [escaped |-> FALSE, out |-> << >>], data)
    IN  IF end.escaped THEN Append(end.out, Flip(0)) ELSE end.out

CheckSum(data) == FoldLeft(LAMBDA sum, ch : (sum + ch) % 256, 0, data)

\* hexchars[], and hex(), whose -1 is 255 in an unsigned char.
HexChar(d) == IF d < 10 THEN 48 + d ELSE 87 + d
Hex(ch) == CASE ch \in 97..102 -> ch - 87
             [] ch \in 48..57 -> ch - 48
             [] ch \in 65..70 -> ch - 55
             [] OTHER -> 255

Framed(data) ==
    LET sum == CheckSum(data)
    IN  <<Dollar>> \o data \o <<Hash, HexChar(sum \div 16), HexChar(sum % 16)>>

\* What put_packet() writes.
Frame(data) == Framed(Escape(data, {Dollar, Hash, Star, Brace}))

SumMatches(data, hi, lo) == (16 * Hex(hi) + Hex(lo)) % 256 = CheckSum(data)

-----------------------------------------------------------------------------
(* The line: it delivers in order, and may damage a character.             *)

Places(text) == IF DataOnly THEN {i \in 2..Len(text) : i # Len(text) - 2}
                            ELSE 1..Len(text)

\* text is sent, and damages is how many damages there have been then.
Arrivals(text) ==
    {[text |-> text, damages |-> damages]}
    \union {[text |-> [text EXCEPT ![i] = ch], damages |-> damages + 1] :
              i \in {j \in Places(text) : damages < MaxDamages /\ text[j] # Eof},
              ch \in Noise}

\* GDB writes text after pending, which it has not read of the characters.
Sends(text) == \E a \in Arrivals(text) : /\ toRsp' = toRsp \o a.text
                                         /\ damages' = a.damages

\* The server writes text, with put_rsp_char().  When GDB has left this may
\* fail, which closes the connection, and what follows goes nowhere.
Writes(text) ==
    \/ /\ open
       /\ \E a \in Arrivals(text) : /\ toGdb' = Append(toGdb, a.text)
                                    /\ damages' = a.damages
       /\ UNCHANGED open
    \/ /\ open => gdb = "gone"
       /\ open' = FALSE
       /\ UNCHANGED <<toGdb, damages>>

-----------------------------------------------------------------------------
(* GDB.                                                                    *)

\* Requests are told apart by a digit, as by an address.
Request(kind, digit, payload) ==
    CASE kind = "m" -> <<109, digit>>
      [] kind = "c" -> <<99, digit>>
      [] kind = "X" -> <<88, digit>> \o payload

\* The answer to a request: the word read, "S" for a stop, "OK".
Answer(request) == CASE request[1] = 109 -> <<request[2]>>
                     [] request[1] = 99  -> <<83>>
                     [] OTHER            -> <<79, 75>>

GdbFrame(request) == Framed(Escape(request, {Dollar, Hash, Brace}))

GdbSends ==
    /\ gdb = "idle"
    /\ Len(requests) < MaxRequests
    /\ \E kind \in Kinds, payload \in Payloads :
          LET request == Request(kind, 49 + Len(requests), payload) IN
          /\ Sends(GdbFrame(request))
          /\ requests' = Append(requests, request)
    /\ gdb' = "ack"
    /\ UNCHANGED <<rspVars, cpuVars, answers, timeouts, breaks, toGdb>>

IsFrame(text) ==
    LET n == Len(text) IN n > 3 /\ text[1] = Dollar /\ text[n - 2] = Hash

DataOf(text) == SubSeq(text, 2, Len(text) - 3)

IsSound(text) == LET n == Len(text)
                 IN  SumMatches(DataOf(text), text[n - 1], text[n])

\* GDB waits for an acknowledgement: packets are leftovers, "-" asks for the
\* request again, and anything else is noise.
GdbReadsAck ==
    /\ gdb = "ack"
    /\ toGdb # << >>
    /\ toGdb' = Tail(toGdb)
    /\ LET text == Head(toGdb)
           request == requests[Len(requests)]
       IN  \/ /\ text = <<Plus>>
              /\ gdb' = IF request[1] = 99 THEN "stop" ELSE "reply"
              /\ UNCHANGED <<toRsp, damages>>
           \/ /\ text = <<Minus>>
              /\ Sends(GdbFrame(request))
              /\ UNCHANGED gdb
           \/ /\ IsFrame(text)
              /\ Sends(<<Plus>>)
              /\ UNCHANGED gdb
           \/ /\ text \notin {<<Plus>>, <<Minus>>} /\ ~IsFrame(text)
              /\ UNCHANGED <<gdb, toRsp, damages>>
    /\ UNCHANGED <<rspVars, cpuVars, requests, answers, timeouts, breaks>>

\* GDB waits for a reply.  While it waits for a stop, "O" is only output.
GdbReadsReply ==
    /\ gdb \in {"reply", "stop"}
    /\ toGdb # << >>
    /\ toGdb' = Tail(toGdb)
    /\ LET text == Head(toGdb)
           data == Unescape(DataOf(text))
       IN  \/ /\ IsFrame(text) /\ IsSound(text)
              /\ Sends(<<Plus>>)
              /\ IF gdb = "stop" /\ data[1] = 79
                 THEN UNCHANGED <<gdb, answers>>
                 ELSE gdb' = "idle" /\ answers' = Append(answers, data)
           \/ /\ IsFrame(text) /\ ~IsSound(text)
              /\ Sends(<<Minus>>)
              /\ UNCHANGED <<gdb, answers>>
           \/ /\ ~IsFrame(text)
              /\ UNCHANGED <<gdb, answers, toRsp, damages>>
    /\ UNCHANGED <<rspVars, cpuVars, requests, timeouts, breaks>>

\* No acknowledgement, or no reply: ask again.
GdbTimesOut ==
    /\ gdb \in {"ack", "reply"}
    /\ timeouts < MaxTimeouts
    /\ timeouts' = timeouts + 1
    /\ Sends(IF gdb = "ack" THEN GdbFrame(requests[Len(requests)]) ELSE <<Minus>>)
    /\ UNCHANGED <<rspVars, cpuVars, gdb, requests, answers, breaks, toGdb>>

GdbBreaks ==
    /\ gdb = "stop"
    /\ breaks < MaxBreaks
    /\ breaks' = breaks + 1
    /\ toRsp' = Append(toRsp, Break)
    /\ UNCHANGED <<rspVars, cpuVars, gdb, requests, answers, timeouts, toGdb, damages>>

GdbLeaves ==
    /\ MayLeave
    /\ gdb # "gone"
    /\ gdb' = "gone"
    /\ toRsp' = Append(toRsp, Eof)
    /\ UNCHANGED <<rspVars, cpuVars, requests, answers, timeouts, breaks, toGdb, damages>>

-----------------------------------------------------------------------------
(* The server: reading characters.                                         *)

\* What a step reads: both digits of a checksum, or one character.
Wanted == IF pc = "sum" THEN 2 ELSE 1
Failed == ~open \/ \E i \in 1..Wanted : i <= Len(toRsp) /\ toRsp[i] = Eof
HasChar == ~Failed /\ Len(toRsp) >= Wanted

\* The next character is read: get_rsp_char() spins until there is one.
Takes(ch) == HasChar /\ ch = Head(toRsp) /\ toRsp' = Tail(toRsp)

\* handle_rsp() takes packets before statuses.
PollClient ==
    /\ pc = "poll"
    /\ open /\ toRsp # << >>
    /\ pc' = "start"
    /\ UNCHANGED <<open, buf, reply, target_running, client_waiting, obeyed,
                   cpuVars, gdbVars, toRsp, toGdb, damages>>

\* Characters before a packet are ignored, but for the 0x03 byte.
AwaitStart ==
    /\ pc = "start"
    /\ HasChar
    /\ LET ch == Head(toRsp) IN
          /\ Takes(ch)
          /\ buf' = IF ch = Break THEN <<Break>> ELSE << >>
          /\ pc' = CASE ch = Break  -> "serve"
                     [] ch = Dollar -> "body"
                     [] OTHER       -> "start"
    /\ UNCHANGED <<open, reply, target_running, client_waiting, obeyed, cpuVars,
                   gdbVars, toGdb, damages>>

\* "$" begins all over again, "#" ends the data, and a packet that fills the
\* buffer is dropped without an answer.
ReadBody ==
    /\ pc = "body"
    /\ HasChar
    /\ LET ch == Head(toRsp) IN
          /\ Takes(ch)
          /\ buf' = CASE ch = Dollar -> << >>
                      [] ch = Hash   -> buf
                      [] OTHER       -> Append(buf, ch)
          /\ pc' = CASE ch = Hash -> "sum"
                     [] ch # Hash /\ Len(buf') = GDB_BUF_MAX - 1 -> "start"
                     [] OTHER -> "body"
    /\ UNCHANGED <<open, reply, target_running, client_waiting, obeyed, cpuVars,
                   gdbVars, toGdb, damages>>

\* Mutant: only the first digit of the checksum is compared.
ReadSumHalf ==
    /\ pc = "sum"
    /\ HasChar
    /\ toRsp' = SubSeq(toRsp, 3, Len(toRsp))
    /\ IF Hex(toRsp[1]) = CheckSum(buf) \div 16
       THEN Writes(<<Plus>>) /\ pc' = "serve"
       ELSE Writes(<<Minus>>) /\ pc' = "start"
    /\ UNCHANGED <<buf, reply, target_running, client_waiting, obeyed, cpuVars, gdbVars>>

\* Mutant: a packet with a wrong checksum is dropped in silence.
ReadSumSilent ==
    /\ pc = "sum"
    /\ HasChar
    /\ toRsp' = SubSeq(toRsp, 3, Len(toRsp))
    /\ IF SumMatches(buf, toRsp[1], toRsp[2])
       THEN Writes(<<Plus>>) /\ pc' = "serve"
       ELSE pc' = "start" /\ UNCHANGED <<open, toGdb, damages>>
    /\ UNCHANGED <<buf, reply, target_running, client_waiting, obeyed, cpuVars, gdbVars>>

\* Both digits, which no other action of the thread comes between.
ReadSum ==
    /\ pc = "sum"
    /\ HasChar
    /\ toRsp' = SubSeq(toRsp, 3, Len(toRsp))
    /\ IF SumMatches(buf, toRsp[1], toRsp[2])
       THEN Writes(<<Plus>>) /\ pc' = "serve"
       ELSE Writes(<<Minus>>) /\ pc' = "start"
    /\ UNCHANGED <<buf, reply, target_running, client_waiting, obeyed, cpuVars, gdbVars>>

\* End of file, or a connection closed by a failed write: get_packet() gives
\* up, put_packet() does so silently, and the client is closed.
ConnectionFails ==
    /\ pc \in {"poll", "start", "body", "sum", "ack"}
    /\ Failed
    /\ pc' = "closed"
    /\ open' = FALSE
    /\ UNCHANGED <<buf, reply, target_running, client_waiting, obeyed, cpuVars,
                   gdbVars, toRsp, toGdb, damages>>

-----------------------------------------------------------------------------
(* The server: requests, replies and statuses.                             *)

\* Mutant: the first reply stays in the buffer that is sent again.
PutsOld(data) ==
    /\ reply' = IF reply = << >> THEN Frame(data) ELSE reply
    /\ Writes(Frame(data))
    /\ pc' = "ack"

\* put_packet() begins.
Puts(data) ==
    /\ reply' = Frame(data)
    /\ Writes(Frame(data))
    /\ pc' = "ack"

\* rsp_write_mem_bin() alone removes escapes.
RequestRead == IF buf[1] = 88 THEN Unescape(buf) ELSE buf

Obeys == /\ pc = "serve"
         /\ obeyed' = Append(obeyed, RequestRead)
         /\ UNCHANGED <<buf, gdbVars, toRsp>>

\* set_stall_state(), and the monitor that does as it is told and tells; a
\* closed connection has no pipe to the monitor.
StallState(stall) ==
    IF open THEN /\ cpuRuns' = ~stall
                 /\ pipe' = Append(pipe, IF stall THEN "H" ELSE "R")
            ELSE UNCHANGED cpuVars

BreakRunning ==
    /\ Obeys
    /\ target_running /\ buf = <<Break>>
    /\ StallState(TRUE)
    /\ pc' = "poll"
    /\ UNCHANGED <<open, reply, target_running, client_waiting, toGdb, damages>>

\* "Target not stopped", as output for the user of GDB.
RefuseRunning ==
    /\ Obeys
    /\ target_running /\ buf # <<Break>>
    /\ Puts(<<79, 54>>)
    /\ UNCHANGED <<target_running, client_waiting, cpuVars>>

BreakStopped ==
    /\ Obeys
    /\ ~target_running /\ buf = <<Break>>
    /\ pc' = "poll"
    /\ UNCHANGED <<open, reply, target_running, client_waiting, cpuVars, toGdb, damages>>

Resume ==
    /\ Obeys
    /\ ~target_running /\ buf[1] = 99
    /\ StallState(FALSE)
    /\ client_waiting' = TRUE
    /\ pc' = "poll"
    /\ UNCHANGED <<open, reply, target_running, toGdb, damages>>

Reply ==
    /\ Obeys
    /\ ~target_running /\ buf[1] \notin {Break, 99}
    /\ Puts(Answer(buf))
    /\ UNCHANGED <<target_running, client_waiting, cpuVars>>

\* The reply is sent again for every character that is not "+".
AwaitAck ==
    /\ pc = "ack"
    /\ HasChar
    /\ LET ch == Head(toRsp) IN
          /\ Takes(ch)
          /\ IF ch = Plus THEN pc' = "poll" /\ UNCHANGED <<open, toGdb, damages>>
                          ELSE Writes(reply) /\ UNCHANGED pc
    /\ UNCHANGED <<buf, reply, target_running, client_waiting, obeyed, cpuVars, gdbVars>>

\* A status is read only when GDB has sent nothing.
ReadsStatus(status) ==
    /\ pc = "poll"
    /\ open /\ toRsp = << >>
    /\ pipe # << >> /\ Head(pipe) = status
    /\ pipe' = Tail(pipe)
    /\ UNCHANGED <<buf, obeyed, cpuRuns, gdbVars, toRsp>>

Running ==
    /\ ReadsStatus("R")
    /\ target_running' = TRUE
    /\ UNCHANGED <<pc, open, reply, client_waiting, toGdb, damages>>

\* rsp_report_exception(), if a client waits for it.
Halted ==
    /\ ReadsStatus("H")
    /\ target_running /\ target_running' = FALSE
    /\ IF client_waiting THEN Puts(<<83>>)
                         ELSE UNCHANGED <<pc, open, reply, toGdb, damages>>
    /\ client_waiting' = FALSE

HaltedAgain ==
    /\ ReadsStatus("H")
    /\ ~target_running
    /\ UNCHANGED <<pc, open, reply, target_running, client_waiting, toGdb, damages>>

\* The CPU stops by itself, and the monitor finds it so.
CpuStops ==
    /\ cpuRuns
    /\ cpuRuns' = FALSE
    /\ pipe' = Append(pipe, "H")
    /\ UNCHANGED <<rspVars, gdbVars, toRsp, toGdb, damages>>

-----------------------------------------------------------------------------
(* The specification.                                                      *)

Init ==
    /\ pc = "poll" /\ open = TRUE
    /\ buf = << >> /\ reply = << >>
    /\ target_running = FALSE /\ client_waiting = FALSE
    /\ toRsp = << >> /\ toGdb = << >>
    /\ pipe = << >> /\ cpuRuns = FALSE
    /\ gdb = "idle"
    /\ requests = << >> /\ answers = << >> /\ obeyed = << >>
    /\ damages = 0 /\ timeouts = 0 /\ breaks = 0

RspStep ==
    \/ PollClient \/ AwaitStart \/ ReadBody \/ ReadSum \/ ConnectionFails
    \/ BreakRunning \/ RefuseRunning \/ BreakStopped \/ Resume \/ Reply
    \/ AwaitAck \/ Running \/ Halted \/ HaltedAgain

GdbReads == GdbReadsAck \/ GdbReadsReply

Next ==
    \/ RspStep \/ CpuStops
    \/ GdbReads \/ GdbSends \/ GdbTimesOut \/ GdbBreaks \/ GdbLeaves

Spec == Init /\ [][Next]_vars

\* A thread that can go on does, and GDB reads what it waits for.
FairSpec == Spec /\ WF_vars(RspStep) /\ WF_vars(GdbReads)

-----------------------------------------------------------------------------
(* Properties.                                                             *)

TypeOK ==
    /\ pc \in {"poll", "start", "body", "sum", "serve", "ack", "closed"}
    /\ {open, target_running, client_waiting, cpuRuns} \subseteq BOOLEAN
    /\ buf \in Seq(0..255) /\ Len(buf) < GDB_BUF_MAX
    /\ reply \in Seq(0..255)
    /\ toRsp \in Seq(-1..255) /\ toGdb \in Seq(Seq(0..255))
    /\ pipe \in Seq({"H", "R"})
    /\ gdb \in {"idle", "ack", "reply", "stop", "gone"}
    /\ {requests, answers, obeyed} \subseteq Seq(Seq(0..255))
    /\ damages \in 0..MaxDamages
    /\ timeouts \in 0..MaxTimeouts /\ breaks \in 0..MaxBreaks

\* What the server was asked, without the breaks.
Obeyed == SelectSeq(obeyed, LAMBDA request : request # <<Break>>)

\* Every request is obeyed once, in order and with the data GDB gave, however
\* often packets are damaged and repeated (get_packet).
RequestsInOrder == IsPrefix(Obeyed, requests)

\* Whatever the line damages, and whenever GDB asks again: nothing GDB did not
\* send is obeyed, and no request after a later one (get_packet).
NothingForged ==
    /\ Range(Obeyed) \subseteq Range(requests)
    /\ \A i \in 1..(Len(Obeyed) - 1) : Obeyed[i][2] <= Obeyed[i + 1][2]

\* What GDB takes for the answer to a request is the answer to that request
\* (put_packet, rsp_report_exception).
RepliesMatch ==
    /\ Len(answers) <= Len(requests)
    /\ \A i \in 1..Len(answers) : answers[i] = Answer(requests[i])

\* A GDB that was told of a stop is right: the target stands still until it
\* asks for more (handle_rsp).
GdbIsRight == gdb = "idle" => ~cpuRuns

\* A request is acknowledged and answered in the end (get_packet, put_packet).
AnswersArrive == gdb \in {"ack", "reply"} ~> gdb \notin {"ack", "reply"}

\* The CPU has stopped since the request GDB waits for made it run.
HasStopped ==
    /\ gdb = "stop" /\ ~cpuRuns
    /\ Obeyed # << >> /\ Last(Obeyed) = Last(requests)

\* A GDB that waits for a stop hears of it: the thread watches the client and
\* the monitor at once (handle_rsp).
StopIsReported == HasStopped ~> gdb # "stop"

=============================================================================

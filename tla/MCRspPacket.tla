----------------------------- MODULE MCRspPacket ------------------------------
(***************************************************************************)
(* RspPacket for TLC, in a setting chosen for good: data of packets is     *)
(* damaged in both directions, GDB breaks while it waits, or any character *)
(* is damaged and GDB times out, breaks and leaves.                        *)
(***************************************************************************)
EXTENDS Integers, Sequences

CONSTANT GDB_BUF_MAX

VARIABLES
    setting,
    pc, open, buf, reply, target_running, client_waiting, toRsp, toGdb, pipe,
    cpuRuns, gdb, requests, answers, obeyed, damages, timeouts, breaks

\* Data of "X" requests: an escape with data after it, and a "#".
SomePayloads == {<<125, 65>>, <<35>>}

\* A digit, and the characters that mean something.
Digit == {50}
AnyNoise == {35, 36, 43}

Damaged == INSTANCE RspPacket
             WITH Kinds <- {"m", "X", "c"},
                  Payloads <- SomePayloads, Noise <- Digit, DataOnly <- TRUE,
                  MaxRequests <- 3, MaxDamages <- 1, MaxTimeouts <- 0,
                  MaxBreaks <- 0, MayLeave <- FALSE
Breaking == INSTANCE RspPacket
              WITH Kinds <- {"m", "c"}, Payloads <- {<<>>},
                   Noise <- Digit, DataOnly <- TRUE,
                   MaxRequests <- 3, MaxDamages <- 0, MaxTimeouts <- 0,
                   MaxBreaks <- 2, MayLeave <- FALSE
Noisy == INSTANCE RspPacket
           WITH Kinds <- {"X", "c"}, Payloads <- SomePayloads,
                Noise <- AnyNoise, DataOnly <- FALSE,
                MaxRequests <- 2, MaxDamages <- 1, MaxTimeouts <- 1,
                MaxBreaks <- 1, MayLeave <- TRUE

ASSUME PacketSettings ==
    Damaged!PacketAssumption /\ Breaking!PacketAssumption /\ Noisy!PacketAssumption

vars == <<setting, Damaged!vars>>

In(s) == setting = s /\ setting' = s

Init ==
    \/ setting = "damaged" /\ Damaged!Init
    \/ setting = "breaking" /\ Breaking!Init
    \/ setting = "noisy" /\ Noisy!Init

DamagedStep == In("damaged") /\ Damaged!Next
BreakingStep == In("breaking") /\ Breaking!Next
NoisyStep == In("noisy") /\ Noisy!Next

Next == DamagedStep \/ BreakingStep \/ NoisyStep

\* The RSP thread goes on, and GDB reads what it is sent.
Fairness ==
    /\ WF_vars(In("damaged") /\ Damaged!RspStep)
    /\ WF_vars(In("damaged") /\ Damaged!GdbReads)

Spec == Init /\ [][Next]_vars /\ Fairness

-----------------------------------------------------------------------------
\* Every request is obeyed once, in order and as sent, if only data is damaged;
\* whatever the line damages, nothing GDB did not send is obeyed, and the packet
\* buffer keeps its bound (get_packet).
RequestsInOrder ==
    /\ setting = "damaged" => Damaged!RequestsInOrder
    /\ setting = "noisy" => Noisy!TypeOK /\ Noisy!NothingForged

\* GDB takes no answer for that to another request (put_packet), and one that was
\* told of a stop is right, although it broke (handle_rsp).
RepliesMatch ==
    /\ setting = "damaged" => Damaged!RepliesMatch
    /\ setting = "breaking" => Breaking!GdbIsRight

\* A request is acknowledged and answered in the end (get_packet, put_packet),
\* and a GDB that waits for a stop hears of it (handle_rsp).
AnswersArrive ==
    setting = "damaged" => Damaged!AnswersArrive /\ Damaged!StopIsReported

=============================================================================

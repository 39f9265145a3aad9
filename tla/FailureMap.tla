------------------------------ MODULE FailureMap ------------------------------
(***************************************************************************)
(* A pass of the schedule for each of a row of growing delays; flash holds *)
(* the first delay at which each word (overlapped.c) or each bit of a word *)
(* (overlappedBits.c) failed.                                              *)
(***************************************************************************)
EXTENDS DecaySchedule

CONSTANTS Capacity    \* words flash has room for: to SEGMENT_DATA_END

\* The numbers of the delays are bytes, and none is that of erased flash.
MapAssumption ==
    /\ Capacity \in Nat /\ (BY_ROWS => Capacity >= Rows * Cols)
    /\ Len(Delays) < 255

VARIABLE flash    \* for each bit, or at each word: the number of a delay

vars == <<scheduleVars, flash>>

\* A byte that was never written.
Erased == 255

Stored == 0 .. Capacity - 1

Init ==
    /\ ScheduleInit
    /\ flash = [n \in Stored |-> [b \in IF BY_ROWS THEN {0} ELSE Bits |-> Erased]]

WriteWord == WriteHalf(AllCharged(nextWrite)) /\ UNCHANGED flash

Skip == SkipHalf /\ UNCHANGED flash

\* The bits, or the whole word, that do not hold what was written.
FailedBits ==
    LET wrong == {b \in Bits : (b \in DataFromDRAM) # (b \in AllCharged(nextRead))}
    IN IF ~BY_ROWS THEN wrong ELSE IF wrong # {} THEN {0} ELSE {}

\* "If this is the first failure (something other than 0xFF in Flash)".
FirstFailure(b) == flash[nextRead][b] = Erased

\* "Make sure that Flash has enough space to store the results".
ReadWord ==
    /\ ReadHalf
    /\ flash' = [n \in Stored |-> [b \in DOMAIN flash[n] |->
                    IF n = nextRead /\ b \in FailedBits /\ FirstFailure(b)
                    THEN pass ELSE flash[n][b]]]

Done == ~Running /\ UNCHANGED vars

Next == WriteWord \/ Skip \/ ReadWord \/ Done

Spec == Init /\ [][Next]_vars

-----------------------------------------------------------------------------
TypeOK ==
    /\ ScheduleTypeOK
    /\ \A n \in Stored : \A b \in DOMAIN flash[n] :
         flash[n][b] \in 1 .. Len(Delays) \union {Erased}

\* Whether the cell, or one of the word, fails within the delay of pass p.
FailsIn(p, n, b) ==
    IF BY_ROWS THEN \E c \in Bits : retention[n][c] <= Decays(p)
    ELSE retention[n][b] <= Decays(p)

\* "Store the failing delay if this is the first failure for this bit": after
\* each pass, flash has the first of the delays at which the cell fails.
FirstFailureIsLogged ==
    nextRead = 0 /\ half = "write" =>
        \A n \in Stored \intersect Words : \A b \in DOMAIN flash[n] :
            flash[n][b] =
                IF \A p \in 1 .. pass - 1 : ~FailsIn(p, n, b) THEN Erased
                ELSE CHOOSE p \in 1 .. pass - 1 :
                         FailsIn(p, n, b) /\ \A q \in 1 .. p - 1 : ~FailsIn(q, n, b)
=============================================================================

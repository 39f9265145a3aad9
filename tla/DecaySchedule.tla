---------------------------- MODULE DecaySchedule -----------------------------
(***************************************************************************)
(* The schedule of the DRAM experiments: in every block of time one word   *)
(* is written, until all are, and after a delay one word is read, so that  *)
(* writing and reading overlap.  An access refreshes the whole row: its    *)
(* cells decay from the last one.                                          *)
(*                                                                         *)
(* Rows and columns are those of the word's number, counted from 0.  A     *)
(* word is the set of its bits that are 1; charged cells are 1 in even     *)
(* rows and 0 in odd ones, and fail to the other value.                    *)
(***************************************************************************)
EXTENDS Integers, Sequences

CONSTANTS
    Rows, Cols,    \* DRAM_NUM_ROWS, DRAM_NUM_COLS: 256
    Bits,          \* of a word: 4
    Delays,        \* of the passes, in blocks
    Retentions,    \* blocks a cell may keep its charge
    BY_ROWS        \* the delay is counted in rows (overlapped.c)

ScheduleAssumption ==
    /\ {Rows, Cols} \subseteq Nat \ {0}
    /\ Delays \in Seq(Nat)
    /\ Retentions \subseteq Nat \ {0}
    /\ BY_ROWS \in BOOLEAN

Words == 0 .. Rows * Cols - 1
Row(n) == n \div Cols
Col(n) == n % Cols

VARIABLES
    pass,              \* number of the delay in use
    blockCounter,      \* blocks of the pass
    nextWrite, nextRead,   \* words
    half,              \* of the block: "write" or "read"
    now,               \* blocks since the first pass
    retention,         \* the chip: how long each cell keeps its charge
    charged,           \* cells of each word that are charged
    refreshed          \* when each row was last accessed

scheduleVars == <<pass, blockCounter, nextWrite, nextRead, half, now, retention,
                  charged, refreshed>>

ScheduleInit ==
    /\ pass = 1 /\ blockCounter = 0
    /\ nextWrite = 0 /\ nextRead = 0
    /\ half = "write" /\ now = 0
    /\ retention \in [Words -> [Bits -> Retentions]]
    /\ charged = [n \in Words |-> {}]
    /\ refreshed = [r \in 0 .. Rows - 1 |-> 0]

Delay == Delays[pass]

Running == pass <= Len(Delays)

-----------------------------------------------------------------------------
(* The memory.                                                             *)

\* The bits that are 1 when these are charged, and the other way round.
Value(n, bits) == IF Row(n) % 2 = 0 THEN bits ELSE Bits \ bits

\* The word of all charged cells.
AllCharged(n) == Value(n, Bits)

\* The cells of row r as an access at time t finds them, and leaves them.
AfterAccess(r, t) ==
    [n \in Words |->
        IF Row(n) = r THEN {b \in charged[n] : t - refreshed[r] < retention[n][b]}
        ELSE charged[n]]

-----------------------------------------------------------------------------
(* A block.                                                                *)

\* "Avoid writing when all of DRAM written".
MoreToWrite == nextWrite \in Words

\* "Update the global sense of time".
Tick == 1

\* dram_wb() of the next word, or nothing when all are written.  Time goes on.
WriteHalf(value) ==
    /\ half = "write" /\ Running
    /\ half' = "read"
    /\ blockCounter' = blockCounter + Tick
    /\ now' = now + Tick
    /\ IF MoreToWrite
       THEN /\ charged' = [AfterAccess(Row(nextWrite), now')
                               EXCEPT ![nextWrite] = Value(nextWrite, value)]
            /\ refreshed' = [refreshed EXCEPT ![Row(nextWrite)] = now']
            /\ nextWrite' = nextWrite + 1
       ELSE UNCHANGED <<charged, refreshed, nextWrite>>
    /\ UNCHANGED <<pass, nextRead, retention>>

\* "Add the number of columns to result to account for refresh of entire row when
\* writing any word in the row", or a row, where rows are the sense of time.
PastDelay ==
    IF BY_ROWS THEN blockCounter \div Cols >= Delay \div Cols + 1
    ELSE blockCounter >= Delay + Cols

\* What dram_rb() of the next word gives.
DataFromDRAM == Value(nextRead, AfterAccess(Row(nextRead), now)[nextRead])

EndOfPass == nextRead + 1 \notin Words

\* Nothing is read before the delay.
SkipHalf ==
    /\ half = "read" /\ ~PastDelay
    /\ half' = "write"
    /\ UNCHANGED <<pass, blockCounter, nextWrite, nextRead, now, retention, charged,
                   refreshed>>

\* dram_rb(); after the last word the next pass begins.
ReadHalf ==
    /\ half = "read" /\ PastDelay
    /\ half' = "write"
    /\ charged' = AfterAccess(Row(nextRead), now)
    /\ refreshed' = [refreshed EXCEPT ![Row(nextRead)] = now]
    /\ IF EndOfPass
       THEN pass' = pass + 1 /\ blockCounter' = 0 /\ nextWrite' = 0 /\ nextRead' = 0
       ELSE nextRead' = nextRead + 1 /\ UNCHANGED <<pass, blockCounter, nextWrite>>
    /\ UNCHANGED <<now, retention>>

-----------------------------------------------------------------------------
\* How long the rows decay before they are read: the delay, in whole rows where
\* it is counted in rows.
Decays(p) == IF BY_ROWS THEN (Delays[p] \div Cols) * Cols ELSE Delays[p]

\* Cells outlast a block, so that accessing a row block by block refreshes it, or
\* fail in any of the delays.
RefreshAssumption == \A p \in DOMAIN Delays : Decays(p) > 0 \/ 1 \notin Retentions

ScheduleTypeOK ==
    /\ pass \in 1 .. Len(Delays) + 1
    /\ nextWrite \in 0 .. Rows * Cols /\ nextRead \in Words
    /\ half \in {"write", "read"}
    /\ charged \in [Words -> SUBSET Bits]
    /\ \A r \in 0 .. Rows - 1 : refreshed[r] \in 0 .. now

\* When the first word of a row is read, the whole row has been written, and then
\* left alone for exactly the delay.
RowsDecayForTheDelay ==
    half = "read" /\ PastDelay /\ Col(nextRead) = 0 =>
        /\ nextWrite >= nextRead + Cols
        /\ now - refreshed[Row(nextRead)] = Decays(pass)
=============================================================================

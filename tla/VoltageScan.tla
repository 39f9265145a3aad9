----------------------------- MODULE VoltageScan ------------------------------
(***************************************************************************)
(* The DRAM experiments at reduced voltage: all words are written at full  *)
(* voltage, left for a while at the test voltage, and read; for longer and *)
(* longer delays, until more than a tenth of the words have decayed.  Two  *)
(* programs log how many words are valid (main.c, sequentialFlips.c, which *)
(* tries one voltage after the other), one the first delay at which each   *)
(* word fails (sequentialBits.c).                                          *)
(*                                                                         *)
(* Words are numbered row by row, and charged as 0xF in even rows and 0x0  *)
(* in odd ones.  dram_wb_hr() and dram_rb_hr() refresh the "entire DRAM",  *)
(* so that writing or reading all of it takes no time.  sequentialBits.c   *)
(* reads with dram_rb(), which refreshes only the row it reads, and at the *)
(* test voltage: rows decay until they are read, the later the longer.     *)
(***************************************************************************)
EXTENDS Integers, Sequences, FiniteSets

CONSTANTS
    Rows, Cols,        \* 256
    PROGRAM,           \* "dram_voltage", "sequentialFlips" or "sequentialBits"
    MAX_DELAY,         \* in steps of STEP_DELAY: 15
    STEP,              \* STEP_DELAY, in units of time
    MAX_LATE,          \* units that dram_rb() of all words takes at most
    Retentions,        \* units a word may keep its charge
    Voltages,          \* how many are tried: 1, or 11 in sequentialFlips.c
    PERCENT            \* of the words must be valid to go on: 90

ScanAssumption ==
    /\ {Rows, Cols} \subseteq Nat \ {0, 1}
    /\ PROGRAM \in {"dram_voltage", "sequentialFlips", "sequentialBits"}
    /\ MAX_DELAY \in 1 .. 254 /\ {STEP, Voltages} \subseteq Nat \ {0}
    /\ MAX_LATE \in Nat /\ Retentions \subseteq Nat \ {0}
    /\ PROGRAM # "sequentialFlips" => Voltages = 1
    /\ PERCENT \in 0 .. 100

Words == 0 .. Rows * Cols - 1
Number == Cardinality(Words)
Steps == 1 .. MAX_DELAY

VARIABLES
    retention,      \* the chip: how long each word keeps its charge at each voltage
    mem,            \* what the words hold; after the delay, when they are read
    pc,             \* "write", "decay", "read" or "returned"
    voltage, delay,
    log,            \* flash: the records of six bytes, one behind the other
    first           \* flash: a byte for each word; 0xFF is erased

vars == <<retention, mem, pc, voltage, delay, log, first>>

Row(n) == n \div Cols

Charged(n) == IF Row(n) % 2 = 0 THEN "0xF" ELSE "0x0"
Erased == 255

\* dram_init_chip(): "DRAM needs a garbage write to work correctly after being
\* powered-up".
AfterPowerOn(m) == [m EXCEPT ![1] = "0xF", ![Cols + 1] = "0xF"]

Init ==
    /\ retention \in [1 .. Voltages -> [Words -> Retentions]]
    /\ mem = AfterPowerOn([n \in Words |-> "decayed"])
    /\ pc = "write"
    /\ voltage = 1 /\ delay = 1
    /\ log = <<>>
    /\ first = [n \in Words |-> Erased]

\* writeRow < DRAM_NUM_ROWS.
AllRows == Words

\* dram_wb_hr() of every word.
WriteAll ==
    /\ pc = "write"
    /\ mem' = [n \in Words |-> IF n \in AllRows THEN Charged(n) ELSE mem[n]]
    /\ pc' = "decay"
    /\ UNCHANGED <<retention, voltage, delay, log, first>>

\* How long after the delay each row is read: in sequentialBits.c when the rows
\* before it have been.
Lateness ==
    IF PROGRAM = "sequentialBits"
    THEN {late \in [0 .. Rows - 1 -> 0 .. MAX_LATE] :
            late[0] = 0 /\ \A r \in 1 .. Rows - 1 : late[r - 1] <= late[r]}
    ELSE {[r \in 0 .. Rows - 1 |-> 0]}

\* The words that do not keep their charge until they are read.
Fail(late) ==
    {n \in Words : retention[voltage][n] <= delay * STEP + late[Row(n)]}

\* set_voltage(TEST_VOLTAGE), the delay, and dram_power_on() where it is not
\* commented out.
Decay ==
    /\ pc = "decay"
    /\ \E late \in Lateness :
          LET left == [n \in Words |-> IF n \in Fail(late) THEN "decayed" ELSE mem[n]]
          IN mem' = IF PROGRAM = "sequentialBits" THEN left ELSE AfterPowerOn(left)
    /\ pc' = "read"
    /\ UNCHANGED <<retention, voltage, delay, log, first>>

\* Words that are not what was written.
Differ == {n \in Words : mem[n] # Charged(n)}

\* Mutant: the last failure is kept.
Failing == Differ

\* "this is the first failure (something other than 0xFF in Flash) and the data
\* read from DRAM doesn't match what we wrote".
FirstFailures == {n \in Differ : first[n] = Erased}

\* validWords is an unsigned int, and begins at 0xFFFF for 0x10000 words.
validWords == (Number - 1 - Cardinality(Differ)) % Number

\* "Count the number of valid words".
flipCounter == Number - Cardinality(Differ)

\* "Quit when more than 10% words decayed".
TooManyDecayed ==
    IF PROGRAM = "sequentialBits"
    THEN 100 * validWords < PERCENT * (Number - 1)
    ELSE 100 * flipCounter < PERCENT * Number

\* Reading every word with dram_rb() or dram_rb_hr(), and what is logged of it;
\* then the next delay, or the next voltage, or the end.  sequentialBits.c powers
\* the chip on before it writes, the others have done so.
ReadAll ==
    /\ pc = "read"
    /\ IF PROGRAM = "sequentialBits"
       THEN /\ first' = [n \in Words |-> IF n \in FirstFailures THEN delay ELSE first[n]]
            /\ UNCHANGED log
       ELSE /\ log' = Append(log, [voltage |-> voltage, delay |-> delay,
                                   valid |-> flipCounter])
            /\ UNCHANGED first
    /\ \/ /\ TooManyDecayed
          /\ pc' = "returned"
          /\ UNCHANGED <<mem, voltage, delay>>
       \/ /\ ~TooManyDecayed /\ delay < MAX_DELAY
          /\ pc' = "write" /\ delay' = delay + 1
          /\ mem' = IF PROGRAM = "sequentialBits" THEN AfterPowerOn(mem) ELSE mem
          /\ UNCHANGED voltage
       \/ /\ ~TooManyDecayed /\ delay = MAX_DELAY /\ voltage < Voltages
          /\ pc' = "write" /\ delay' = 1 /\ voltage' = voltage + 1
          /\ UNCHANGED mem
       \/ /\ ~TooManyDecayed /\ delay = MAX_DELAY /\ voltage = Voltages
          /\ pc' = "returned"
          /\ UNCHANGED <<mem, voltage, delay>>
    /\ UNCHANGED retention

\* main() has returned.
Returned == pc = "returned" /\ UNCHANGED vars

Next == WriteAll \/ Decay \/ ReadAll \/ Returned

Spec == Init /\ [][Next]_vars

-----------------------------------------------------------------------------
Contents == {"0xF", "0x0", "decayed"}

TypeOK ==
    /\ mem \in [Words -> Contents]
    /\ pc \in {"write", "decay", "read", "returned"}
    /\ voltage \in 1 .. Voltages /\ delay \in Steps
    /\ pc = "decay" => Differ = {}

\* The words that are still charged after delay d at voltage v.
Valid(v, d) == {n \in Words : retention[v][n] > d * STEP}

\* The two words that the garbage write hits after the delay.
Garbage == {1, Cols + 1}

\* Each record counts the words that kept their charge, but for the two words of
\* the garbage write: the one is charged anew, the other never valid.
RecordsAreMeasured ==
    \A i \in DOMAIN log :
        log[i].valid = Cardinality(Valid(log[i].voltage, log[i].delay) \ Garbage) + 1

\* How long after the delay a word is read at most.
LateBy(n) == IF Row(n) = 0 THEN 0 ELSE MAX_LATE

\* "this is the first failure": a word has survived the delay before the one that
\* flash has for it, and not this one with the reading of the rows before its own;
\* and a word that flash has nothing for has survived all that were tried.
FirstFailureIsLogged ==
    pc = "returned" /\ PROGRAM = "sequentialBits" =>
        \A n \in Words :
            IF first[n] = Erased THEN n \in Valid(1, delay)
            ELSE /\ first[n] \in 1 .. delay
                 /\ n \in Valid(1, first[n] - 1)
                 /\ retention[1][n] <= first[n] * STEP + LateBy(n)
=============================================================================

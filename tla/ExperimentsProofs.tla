--------------------------- MODULE ExperimentsProofs ---------------------------
(***************************************************************************)
(* What the experiments on the chip find out is true, whatever the size of *)
(* the memory, the delays and the chip.                                    *)
(*                                                                         *)
(* The binary search of dram_bst always comes closer, what it finds is     *)
(* near enough, and it gives up only where it has to.                      *)
(*                                                                         *)
(* The other programs log what the cells did when left alone for exactly   *)
(* the delay, or in sequentialBits.c until they were read.  What has to be *)
(* known of the schedule of those that write and read at once is when each *)
(* row was last accessed (RowTimes) and which of its cells are still       *)
(* charged (Cells); of flash, which of it is still erased (Results,        *)
(* Firsts, FirstSteps).                                                    *)
(***************************************************************************)
EXTENDS DelaySearch, Experiments, FiniteSetTheorems, TLAPS

-----------------------------------------------------------------------------
(* The binary search.                                                      *)

\* What the bounds have moved to was seen to be too short, or too long.
BoundsAreSeen ==
    /\ currentMinDelay # MIN_DELAY =>
           left[currentMinDelay] >= TARGET_ACCURACY + MARGIN_OF_ERROR
    /\ currentMaxDelay # MAX_DELAY =>
           left[currentMaxDelay] <= TARGET_ACCURACY - MARGIN_OF_ERROR

\* The search goes on only where there is room between the bounds.
RoomToSearch == result = "searching" => currentMinDelay + 3 <= currentMaxDelay

IInv ==
    /\ TypeOK
    /\ left \in Chips
    /\ log \in Seq([delay : Int, left : Int])
    /\ BoundsAreSeen
    /\ RoomToSearch
    /\ FoundIsTrue

\* The delay that is tried lies between the bounds: halving each of them loses at
\* most one, and there is room for it.
LEMMA DelayBetween ==
    ASSUME NEW low \in Nat, NEW high \in Nat, low + 3 <= high
    PROVE  /\ low < low \div 2 + high \div 2
           /\ low \div 2 + high \div 2 < high
  <1> DEFINE a == low \div 2
             b == high \div 2
  <1>1. a \in Nat /\ (low = 2 * a \/ low = 2 * a + 1)
    BY Z3
  <1>2. b \in Nat /\ (high = 2 * b \/ high = 2 * b + 1)
    BY Z3
  <1> HIDE DEF a, b
  <1>3. low < a + b /\ a + b < high
    BY <1>1, <1>2
  <1> QED
    BY <1>3 DEF a, b

\* Where the search is on, a pass tries a delay of the range.
LEMMA DelayIsTried ==
    ASSUME IInv, result = "searching"
    PROVE  /\ delay \in AllDelays
           /\ currentMinDelay < delay /\ delay < currentMaxDelay
           /\ left[delay] \in 0 .. TotalBits
  <1>1. currentMinDelay \in Nat /\ currentMaxDelay \in Nat
    BY DelayAssumption DEF IInv, TypeOK, AllDelays
  <1>2. currentMinDelay < delay /\ delay < currentMaxDelay
    BY <1>1, DelayBetween DEF IInv, RoomToSearch, delay
  <1>3. delay \in Int
    BY <1>1 DEF delay
  <1>4. delay \in AllDelays
    BY <1>2, <1>3, DelayAssumption DEF IInv, TypeOK, AllDelays
  <1>5. left \in [AllDelays -> 0 .. TotalBits]
    BY ChipsAssumption DEF IInv
  <1> QED
    BY <1>2, <1>4, <1>5

\* No unsigned int wraps around: the test for room is exact.
LEMMA RoomIsExact ==
    ASSUME NEW low \in AllDelays, NEW high \in AllDelays, ~Oscillates(low, high)
    PROVE  low + 3 <= high
  BY DelayAssumption DEF AllDelays, Oscillates, Uint

LEMMA InitIInv ==
    ASSUME Init PROVE IInv
  <1>1. /\ currentMinDelay = MIN_DELAY /\ currentMaxDelay = MAX_DELAY
        /\ result = "searching" /\ left \in Chips /\ log = <<>>
    BY DEF Init
  <1>2. TypeOK
    BY <1>1, DelayAssumption DEF TypeOK, AllDelays
  <1> QED
    BY <1>1, <1>2, DelayAssumption
    DEF IInv, BoundsAreSeen, RoomToSearch, FoundIsTrue

\* A pass: near enough, too long, or too short.
LEMMA PassIInv ==
    ASSUME IInv, Pass PROVE IInv'
  <1> DEFINE n == left[delay]
  <1>1. /\ result = "searching" /\ left' = left
        /\ delay \in AllDelays /\ n \in 0 .. TotalBits
        /\ currentMinDelay < delay /\ delay < currentMaxDelay
        /\ delay \in Int /\ n \in Int
    BY DelayIsTried, DelayAssumption, TargetAssumption DEF Pass, AllDelays
  <1>2. Record(n) \in [delay : Int, left : Int]
    BY <1>1 DEF Record
  <1>3. (left \in Chips)'
    BY <1>1 DEF IInv
  <1>4. (log \in Seq([delay : Int, left : Int]))'
    <2>1. \/ log' = log \o <<Record(n), Record(n)>>
          \/ log' = Append(log, Record(n))
      BY DEF Pass
    <2> DEFINE R == [delay : Int, left : Int]
               rec == Record(n)
    <2>2. rec \in R /\ log \in Seq(R)
      BY <1>2 DEF IInv
    <2> HIDE DEF R, rec
    <2>3. <<rec, rec>> \in Seq(R)
      BY <2>2
    <2>4. log \o <<rec, rec>> \in Seq(R) /\ Append(log, rec) \in Seq(R)
      BY <2>2, <2>3
    <2> QED
      BY <2>1, <2>4 DEF R, rec
  <1>5. CASE WithinMargin(n)
    <2>1. /\ result' = "found" /\ log' = log \o <<Record(n), Record(n)>>
          /\ UNCHANGED <<currentMinDelay, currentMaxDelay>>
      BY <1>5 DEF Pass
    <2>2. Last' = Record(n)
      BY <1>2, <2>1 DEF IInv, Last
    <2>3. delay' = delay
      BY <2>1 DEF delay
    <2>4. n - TARGET_ACCURACY < MARGIN_OF_ERROR /\ TARGET_ACCURACY - n < MARGIN_OF_ERROR
      BY <1>1, <1>5, TargetAssumption DEF WithinMargin
    <2>5. FoundIsTrue'
      BY <1>1, <2>2, <2>3, <2>4 DEF FoundIsTrue, Record
    <2> QED
      BY <1>1, <1>3, <1>4, <2>1, <2>5
      DEF IInv, TypeOK, BoundsAreSeen, RoomToSearch, AllDelays
  <1>6. CASE ~WithinMargin(n) /\ TooFew(n)
    <2>1. /\ currentMaxDelay' = delay /\ currentMinDelay' = currentMinDelay
          /\ result' \in {"searching", "stopped"}
          /\ result' = "searching" => ~Oscillates(currentMinDelay', currentMaxDelay')
      BY <1>6 DEF Pass
    <2>2. n <= TARGET_ACCURACY - MARGIN_OF_ERROR
      BY <1>1, <1>6, TargetAssumption DEF WithinMargin, TooFew
    <2>3. TypeOK'
      BY <1>1, <2>1 DEF IInv, TypeOK, AllDelays
    <2>4. BoundsAreSeen'
      BY <1>1, <2>1, <2>2 DEF IInv, BoundsAreSeen
    <2>5. RoomToSearch'
      BY <2>1, <2>3, RoomIsExact DEF TypeOK, RoomToSearch
    <2> QED
      BY <1>3, <1>4, <2>1, <2>3, <2>4, <2>5 DEF IInv, FoundIsTrue
  <1>7. CASE ~WithinMargin(n) /\ ~TooFew(n)
    <2>1. /\ currentMinDelay' = delay /\ currentMaxDelay' = currentMaxDelay
          /\ result' \in {"searching", "stopped"}
          /\ result' = "searching" => ~Oscillates(currentMinDelay', currentMaxDelay')
      BY <1>7 DEF Pass
    <2>2. n >= TARGET_ACCURACY + MARGIN_OF_ERROR
      BY <1>1, <1>7, TargetAssumption DEF WithinMargin, TooFew
    <2>3. TypeOK'
      BY <1>1, <2>1 DEF IInv, TypeOK, AllDelays
    <2>4. BoundsAreSeen'
      BY <1>1, <2>1, <2>2 DEF IInv, BoundsAreSeen
    <2>5. RoomToSearch'
      BY <2>1, <2>3, RoomIsExact DEF TypeOK, RoomToSearch
    <2> QED
      BY <1>3, <1>4, <2>1, <2>3, <2>4, <2>5 DEF IInv, FoundIsTrue
  <1> QED
    BY <1>5, <1>6, <1>7

LEMMA StutterIInv ==
    ASSUME IInv, UNCHANGED vars PROVE IInv'
  BY DEF IInv, vars, TypeOK, BoundsAreSeen, RoomToSearch, FoundIsTrue, Last, delay

LEMMA Invariance == Spec => []IInv
  <1>1. Init => IInv
    BY InitIInv
  <1>2. IInv /\ [Next]_vars => IInv'
    BY PassIInv, StutterIInv DEF Next, Stopped
  <1> QED
    BY <1>1, <1>2, PTL DEF Spec

-----------------------------------------------------------------------------
\* The bounds of the search are delays of the range, in order, for every range of
\* at least four delays that leaves room for the test of main.cpp:163.
THEOREM TypeCorrect == Spec => []TypeOK
  <1>1. IInv => TypeOK
    BY DEF IInv
  <1> QED
    BY <1>1, Invariance, PTL

\* What is found leaves a number of bits within the margin, and is what flash says.
THEOREM FoundIsCorrect == Spec => []FoundIsTrue
  <1>1. IInv => FoundIsTrue
    BY DEF IInv
  <1> QED
    BY <1>1, Invariance, PTL

\* Every pass brings the bounds closer, so that main() returns after at most as many
\* passes as there are delays.
THEOREM SearchEnds == Spec => AlwaysCloser
  <1>1. IInv /\ [Next]_vars =>
          [currentMaxDelay' - currentMinDelay' < currentMaxDelay - currentMinDelay
             \/ result' # "searching"]_vars
    <2> SUFFICES ASSUME IInv, Pass, result' = "searching"
                 PROVE  currentMaxDelay' - currentMinDelay'
                            < currentMaxDelay - currentMinDelay
      BY DEF Next, Stopped
    <2>1. currentMinDelay < delay /\ delay < currentMaxDelay /\ delay \in AllDelays
      BY DelayIsTried DEF Pass
    <2>2. \/ currentMaxDelay' = delay /\ currentMinDelay' = currentMinDelay
          \/ currentMinDelay' = delay /\ currentMaxDelay' = currentMaxDelay
      BY DEF Pass
    <2> QED
      BY <2>1, <2>2, DelayAssumption DEF IInv, TypeOK, AllDelays
  <1> QED
    BY <1>1, Invariance, PTL DEF Spec, AlwaysCloser

\* When the search gives up, the delays up to the lower bound leave too many bits
\* and those from the upper bound too few, the untried ends of the range apart.
THEOREM StopIsCorrect == Spec => []StopIsJustified
  <1>1. IInv => StopIsJustified
    <2> SUFFICES ASSUME IInv, NEW d \in AllDelays, WithinMargin(left[d]),
                        d \notin {MIN_DELAY, MAX_DELAY}
                 PROVE  currentMinDelay < d /\ d < currentMaxDelay
      BY DEF StopIsJustified
    <2>1. /\ left \in [AllDelays -> 0 .. TotalBits]
          /\ \A e, f \in AllDelays : e <= f => left[f] <= left[e]
          /\ currentMinDelay \in AllDelays /\ currentMaxDelay \in AllDelays
      BY ChipsAssumption DEF IInv, TypeOK
    <2>2. /\ left[d] < TARGET_ACCURACY + MARGIN_OF_ERROR
          /\ left[d] > TARGET_ACCURACY - MARGIN_OF_ERROR
          /\ left[d] \in Int
      BY <2>1, TargetAssumption DEF WithinMargin
    <2>3. d \in Int /\ MIN_DELAY < d /\ d < MAX_DELAY
      BY DelayAssumption DEF AllDelays
    <2>4. currentMinDelay < d
      <3>1. CASE currentMinDelay = MIN_DELAY
        BY <2>3, <3>1
      <3>2. CASE currentMinDelay # MIN_DELAY
        <4>1. left[currentMinDelay] >= TARGET_ACCURACY + MARGIN_OF_ERROR
          BY <3>2 DEF IInv, BoundsAreSeen
        <4>2. ~(d <= currentMinDelay)
          BY <2>1, <2>2, <4>1, TargetAssumption
        <4> QED
          BY <2>1, <2>3, <4>2, DelayAssumption DEF AllDelays
      <3> QED
        BY <3>1, <3>2
    <2>5. d < currentMaxDelay
      <3>1. CASE currentMaxDelay = MAX_DELAY
        BY <2>3, <3>1
      <3>2. CASE currentMaxDelay # MAX_DELAY
        <4>1. left[currentMaxDelay] <= TARGET_ACCURACY - MARGIN_OF_ERROR
          BY <3>2 DEF IInv, BoundsAreSeen
        <4>2. ~(currentMaxDelay <= d)
          BY <2>1, <2>2, <4>1, TargetAssumption
        <4> QED
          BY <2>1, <2>3, <4>2, DelayAssumption DEF AllDelays
      <3> QED
        BY <3>1, <3>2
    <2> QED
      BY <2>4, <2>5
  <1> QED
    BY <1>1, Invariance, PTL

\* For every chip whose bits only decay, and whatever the range of delays, the result
\* of main() is right: what it found is within the margin, and what it missed it could
\* not have found.
THEOREM SearchIsCorrect == Spec => []SearchIsRight
  BY FoundIsCorrect, StopIsCorrect, PTL DEF SearchIsRight

-----------------------------------------------------------------------------
(* Words and rows.                                                         *)

LEMMA Division ==
    ASSUME NEW C \in Nat \ {0}, NEW n \in Nat
    PROVE  /\ n \div C \in Nat /\ n % C \in 0 .. C - 1
           /\ n = C * (n \div C) + (n % C)
  OBVIOUS

LEMMA Multiples ==
    ASSUME NEW C \in Nat \ {0}, NEW q \in Nat, NEW r \in Nat, q < r
    PROVE  C * q + C <= C * r /\ C * q \in Nat
  <1>1. r - q - 1 \in Nat /\ C * (r - q - 1) >= 0
    OBVIOUS
  <1>2. C * r = C * q + C + C * (r - q - 1)
    OBVIOUS
  <1> QED
    BY <1>1, <1>2

\* In rows of an even number of words the parities of column and word agree.
LEMMA Parity ==
    ASSUME NEW C \in Nat \ {0}, C % 2 = 0, NEW n \in Nat
    PROVE  (n % C) % 2 = n % 2
  <1> DEFINE q == n \div C
             c == n % C
             h == C \div 2
             p == h * q
  <1>1. q \in Nat /\ c \in Nat /\ n = C * q + c
    BY Division
  <1>2. h \in Nat /\ C = 2 * h
    OBVIOUS
  <1> HIDE DEF q, c, h
  <1>3. p \in Nat /\ n = 2 * p + c
    BY <1>1, <1>2
  <1> HIDE DEF p
  <1> QED
    BY <1>1, <1>3 DEF c

\* A number of whole rows has gone by after that many rows of words.
LEMMA WholeRows ==
    ASSUME NEW C \in Nat \ {0}, NEW n \in Nat, NEW q \in Nat
    PROVE  n \div C >= q + 1 <=> n >= q * C + C
  <1> DEFINE p == n \div C
             c == n % C
  <1>1. p \in Nat /\ c \in 0 .. C - 1 /\ n = C * p + c
    BY Division
  <1> HIDE DEF p, c
  <1>2. C * p \in Nat /\ C * q \in Nat /\ q * C = C * q
    BY <1>1
  <1>3. CASE p >= q + 1
    BY <1>1, <1>2, <1>3, Multiples
  <1>4. CASE p = q
    BY <1>1, <1>2, <1>4
  <1>5. CASE p < q
    BY <1>1, <1>2, <1>5, Multiples
  <1> QED
    BY <1>1, <1>3, <1>4, <1>5 DEF p

Number == Rows * Cols

\* The first word of the row of word n.
RowStart(n) == n - Log!Col(n)

LEMMA WordsInRows ==
    ASSUME Log!ScheduleAssumption, NEW n \in Log!Words
    PROVE  /\ n \in Nat /\ Number \in Nat /\ n < Number
           /\ Log!Row(n) \in 0 .. Rows - 1
           /\ Log!Col(n) \in 0 .. Cols - 1
           /\ RowStart(n) = Cols * Log!Row(n)
           /\ RowStart(n) \in Nat /\ RowStart(n) <= n /\ n < RowStart(n) + Cols
           /\ RowStart(n) + Cols <= Number
  <1> DEFINE q == n \div Cols
             c == n % Cols
  <1>1. Rows \in Nat \ {0} /\ Cols \in Nat \ {0}
    BY DEF Log!ScheduleAssumption
  <1>2. Number = Cols * Rows /\ Number \in Nat
    BY <1>1 DEF Number
  <1>3. n \in Nat /\ n < Number
    BY <1>2 DEF Log!Words, Number
  <1>4. q \in Nat /\ c \in 0 .. Cols - 1 /\ n = Cols * q + c
    BY <1>1, <1>3, Division
  <1>5. Log!Row(n) = q /\ Log!Col(n) = c
    BY DEF Log!Row, Log!Col
  <1> HIDE DEF q, c
  <1>6. Cols * q \in Nat
    BY <1>1, <1>4
  <1>7. q < Rows
    <2>1. CASE q = Rows
      BY <1>1, <1>2, <1>3, <1>4, <1>6, <2>1
    <2>2. CASE Rows < q
      BY <1>1, <1>2, <1>3, <1>4, <1>6, <2>2, Multiples
    <2> QED
      BY <1>1, <1>4, <2>1, <2>2
  <1>8. Cols * q + Cols <= Number
    BY <1>1, <1>2, <1>4, <1>7, Multiples
  <1>9. RowStart(n) = Cols * q
    BY <1>4, <1>5, <1>6 DEF RowStart
  <1> QED
    BY <1>1, <1>2, <1>3, <1>4, <1>5, <1>6, <1>7, <1>8, <1>9

LEMMA RowsApart ==
    ASSUME Log!ScheduleAssumption, NEW m \in Log!Words, NEW n \in Log!Words
    PROVE  /\ Log!Row(m) = Log!Row(n) => RowStart(m) = RowStart(n)
           /\ Log!Row(m) # Log!Row(n) =>
                  \/ RowStart(m) + Cols <= RowStart(n)
                  \/ RowStart(n) + Cols <= RowStart(m)
  <1> DEFINE p == Log!Row(m)
             q == Log!Row(n)
  <1>1. p \in Nat /\ q \in Nat /\ RowStart(m) = Cols * p /\ RowStart(n) = Cols * q
    BY WordsInRows DEF Log!ScheduleAssumption
  <1>2. Cols \in Nat \ {0}
    BY DEF Log!ScheduleAssumption
  <1> HIDE DEF p, q
  <1>3. CASE p < q
    BY <1>1, <1>2, <1>3, Multiples DEF p, q
  <1>4. CASE q < p
    BY <1>1, <1>2, <1>4, Multiples DEF p, q
  <1>5. CASE p = q
    BY <1>1, <1>5 DEF p, q
  <1> QED
    BY <1>1, <1>3, <1>4, <1>5 DEF p, q

-----------------------------------------------------------------------------
(* The schedule.                                                           *)

\* The first word is read in the block with this number.
Threshold == Log!Decays(pass) + Cols

\* The block whose word is read next.
Block == IF half = "read" THEN blockCounter ELSE blockCounter + 1

AtMost(n, max) == IF n < max THEN n ELSE max

\* Words are written and read one in each block, those from when the threshold is
\* reached.
Counters ==
    Log!Running =>
        /\ nextWrite = AtMost(blockCounter, Number)
        /\ nextRead = IF Block < Threshold THEN 0 ELSE Block - Threshold

\* A row that has not been read was last accessed when its last word was written, or
\* the last word so far; one that has, by the last read.
RowTimes ==
    Log!Running => \A m \in Log!Words :
        /\ RowStart(m) < nextWrite /\ nextRead <= RowStart(m) =>
               refreshed[Log!Row(m)]
                   = now - blockCounter + AtMost(nextWrite, RowStart(m) + Cols)
        /\ RowStart(m) < nextRead /\ nextRead < RowStart(m) + Cols =>
               refreshed[Log!Row(m)] = now - blockCounter + Threshold + nextRead - 1

\* The cells of word m that were charged when it was written.
Wrote(m) ==
    IF PROGRAM = "dram_imgdecay" THEN Log!Value(m, Log!Half(m, m \div 2)) ELSE Bits

\* Those that keep their charge for the delay.
Kept(m) == {b \in Wrote(m) : retention[m][b] > Log!Decays(pass)}

\* Words that are written and not read have at least the cells left that keep their
\* charge for the delay, and no others once their row was accessed by a read.
Cells ==
    Log!Running => \A m \in Log!Words :
        nextRead <= m /\ m < nextWrite =>
            /\ charged[m] \subseteq Wrote(m)
            /\ Kept(m) \subseteq charged[m]
            /\ RowStart(m) < nextRead => charged[m] \subseteq Kept(m)

ScheduleInv ==
    /\ Log!ScheduleTypeOK
    /\ now \in Nat /\ blockCounter \in Nat
    /\ retention \in [Log!Words -> [Bits -> Retentions]]
    /\ refreshed \in [0 .. Rows - 1 -> Nat]
    /\ half = "read" => Log!Running
    /\ Counters /\ RowTimes /\ Cells

\* What is written does not change while it decays.
WroteSame ==
    \A m \in Log!Words : Wrote(m) \subseteq Bits /\ Wrote(m)' = Wrote(m)

LEMMA Thresholds ==
    ASSUME Log!ScheduleAssumption, Log!RefreshAssumption, Log!Running,
           pass \in 1 .. Len(Delays) + 1, blockCounter \in Nat
    PROVE  /\ Log!Decays(pass) \in Nat /\ Cols \in Nat \ {0}
           /\ Threshold \in Nat /\ Threshold = Log!Decays(pass) + Cols
           /\ Log!PastDelay <=> blockCounter >= Threshold
           /\ \A t \in Retentions : t \in Nat \ {0} /\ (t > Log!Decays(pass) => t > 1)
  <1> DEFINE D == Delays[pass]
             q == D \div Cols
  <1>1. Cols \in Nat \ {0} /\ pass \in DOMAIN Delays /\ D \in Nat
    BY DEF Log!ScheduleAssumption, Log!Running
  <1>2. q \in Nat /\ q * Cols \in Nat
    BY <1>1
  <1>3. Log!Decays(pass) \in Nat
    BY <1>1, <1>2 DEF Log!Decays
  <1>4. Log!PastDelay <=> blockCounter >= Threshold
    <2>1. CASE PROGRAM = "overlapped"
      <3>1. Log!PastDelay <=> blockCounter \div Cols >= q + 1
        BY <2>1 DEF Log!PastDelay, Log!Delay
      <3>2. Threshold = q * Cols + Cols
        BY <2>1 DEF Threshold, Log!Decays
      <3> HIDE DEF q
      <3> QED
        BY <1>1, <1>2, <3>1, <3>2, WholeRows
    <2>2. CASE PROGRAM # "overlapped"
      BY <2>2 DEF Log!PastDelay, Log!Delay, Threshold, Log!Decays
    <2> QED
      BY <2>1, <2>2
  <1>5. \A t \in Retentions : t \in Nat \ {0} /\ (t > Log!Decays(pass) => t > 1)
    BY <1>1, <1>3 DEF Log!RefreshAssumption, Log!ScheduleAssumption
  <1> QED
    BY <1>1, <1>3, <1>4, <1>5 DEF Threshold

\* What an access to row r at time t leaves of a word of the row.
LEMMA Accessed ==
    ASSUME NEW r, NEW t, NEW n \in Log!Words, Log!Row(n) = r
    PROVE  \A b : b \in Log!AfterAccess(r, t)[n] <=>
                    b \in charged[n] /\ t - refreshed[r] < retention[n][b]
  BY DEF Log!AfterAccess

\* Nothing of a row that is still written has been read.
LEMMA WrittenFirst ==
    ASSUME Log!ScheduleAssumption, Log!RefreshAssumption, ScheduleInv,
           Log!Running, half = "write", nextWrite \in Log!Words
    PROVE  nextWrite = blockCounter /\ nextRead <= RowStart(nextWrite)
  <1> DEFINE s == RowStart(nextWrite)
             D == Log!Decays(pass)
             C == Cols
  <1>1. D \in Nat /\ C \in Nat \ {0} /\ Threshold = D + C
    BY Thresholds DEF ScheduleInv, Log!ScheduleTypeOK
  <1>2. /\ s \in Nat /\ s <= nextWrite /\ nextWrite < s + C
        /\ nextWrite \in Nat /\ nextWrite < Number /\ Number \in Nat
    BY WordsInRows
  <1>3. nextWrite = blockCounter
    BY <1>2 DEF ScheduleInv, Counters, AtMost
  <1>4. nextRead = IF blockCounter + 1 < D + C THEN 0 ELSE blockCounter + 1 - (D + C)
    BY <1>1 DEF ScheduleInv, Counters, Block
  <1> HIDE DEF s, D, C
  <1>5. nextRead <= s
    BY <1>1, <1>2, <1>3, <1>4
  <1> QED
    BY <1>3, <1>5 DEF s

\* What WriteHalf changes, and what it leaves.
LEMMA WriteChanges ==
    ASSUME NEW value, Log!WriteHalf(value)
    PROVE  /\ half = "write" /\ half' = "read" /\ Log!Running
           /\ blockCounter' = blockCounter + 1 /\ now' = now + 1
           /\ UNCHANGED <<pass, nextRead, retention>>
           /\ nextWrite \notin Log!Words => UNCHANGED <<charged, refreshed, nextWrite>>
           /\ nextWrite \in Log!Words =>
                  /\ charged' = [Log!AfterAccess(Log!Row(nextWrite), now + 1)
                                   EXCEPT ![nextWrite] = Log!Value(nextWrite, value)]
                  /\ refreshed' = [refreshed EXCEPT ![Log!Row(nextWrite)] = now + 1]
                  /\ nextWrite' = nextWrite + 1
  BY DEF Log!WriteHalf, Log!Tick, Log!MoreToWrite

LEMMA WriteTypes ==
    ASSUME Log!ScheduleAssumption, ScheduleInv, NEW value \in SUBSET Bits,
           Log!WriteHalf(value)
    PROVE  /\ Log!ScheduleTypeOK'
           /\ (now \in Nat /\ blockCounter \in Nat)'
           /\ (retention \in [Log!Words -> [Bits -> Retentions]])'
           /\ (refreshed \in [0 .. Rows - 1 -> Nat])'
           /\ (half = "read" => Log!Running)'
  <1>1. (now \in Nat /\ blockCounter \in Nat)'
    BY WriteChanges DEF ScheduleInv
  <1>2. (pass \in 1 .. Len(Delays) + 1 /\ nextRead \in Log!Words
           /\ half \in {"write", "read"})'
    BY WriteChanges DEF ScheduleInv, Log!ScheduleTypeOK, Log!Words
  <1>3. (nextWrite \in 0 .. Rows * Cols)'
    <2>1. Rows * Cols \in Nat
      BY DEF Log!ScheduleAssumption
    <2> QED
      BY <2>1, WriteChanges DEF ScheduleInv, Log!ScheduleTypeOK, Log!Words
  <1>4. charged' \in [Log!Words -> SUBSET Bits]
    <2>1. charged \in [Log!Words -> SUBSET Bits]
      BY DEF ScheduleInv, Log!ScheduleTypeOK
    <2>2. CASE nextWrite \notin Log!Words
      BY <2>1, <2>2, WriteChanges
    <2>3. CASE nextWrite \in Log!Words
      <3> DEFINE a == Log!AfterAccess(Log!Row(nextWrite), now + 1)
                 v == Log!Value(nextWrite, value)
      <3>1. a \in [Log!Words -> SUBSET Bits]
        BY <2>1 DEF Log!AfterAccess
      <3>2. v \in SUBSET Bits
        BY DEF Log!Value
      <3>3. charged' = [a EXCEPT ![nextWrite] = v]
        BY <2>3, WriteChanges
      <3> HIDE DEF a, v
      <3> QED
        BY <3>1, <3>2, <3>3
    <2> QED
      BY <2>2, <2>3
  <1>5. /\ refreshed' \in [0 .. Rows - 1 -> Nat]
        /\ \A r \in 0 .. Rows - 1 : refreshed'[r] \in 0 .. now'
    <2>1. /\ now \in Nat /\ refreshed \in [0 .. Rows - 1 -> Nat]
          /\ \A r \in 0 .. Rows - 1 : refreshed[r] \in 0 .. now
      BY DEF ScheduleInv, Log!ScheduleTypeOK
    <2>2. now' = now + 1
      BY WriteChanges
    <2>3. CASE nextWrite \notin Log!Words
      <3>1. refreshed' = refreshed
        BY <2>3, WriteChanges
      <3> QED
        BY <2>1, <2>2, <3>1
    <2>4. CASE nextWrite \in Log!Words
      <3> DEFINE t == now + 1
      <3>1. refreshed' = [refreshed EXCEPT ![Log!Row(nextWrite)] = t]
        BY <2>4, WriteChanges
      <3>2. refreshed' \in [0 .. Rows - 1 -> Nat]
        <4>1. t \in Nat
          BY <2>1
        <4> HIDE DEF t
        <4> QED
          BY <2>1, <3>1, <4>1
      <3>3. ASSUME NEW r \in 0 .. Rows - 1
            PROVE  refreshed'[r] \in {refreshed[r], now + 1}
        BY <2>1, <3>1
      <3> QED
        BY <2>1, <2>2, <3>2, <3>3
    <2> QED
      BY <2>3, <2>4
  <1>6. (retention \in [Log!Words -> [Bits -> Retentions]])'
    BY WriteChanges DEF ScheduleInv, Log!Words
  <1>7. (charged \in [Log!Words -> SUBSET Bits])'
    BY <1>4 DEF Log!Words
  <1>8. /\ (refreshed \in [0 .. Rows - 1 -> Nat])'
        /\ (\A r \in 0 .. Rows - 1 : refreshed[r] \in 0 .. now)'
    BY <1>5
  <1>9. Log!Running'
    BY WriteChanges DEF Log!Running
  <1> QED
    BY <1>1, <1>2, <1>3, <1>6, <1>7, <1>8, <1>9 DEF Log!ScheduleTypeOK

LEMMA WriteSchedule ==
    ASSUME Log!ScheduleAssumption, Log!RefreshAssumption, ScheduleInv, WroteSame,
           NEW value \in SUBSET Bits, Log!WriteHalf(value),
           nextWrite \in Log!Words =>
               Log!Value(nextWrite, value) = Wrote(nextWrite)
    PROVE  ScheduleInv'
  <1> DEFINE D == Log!Decays(pass)
             C == Cols
             w == nextWrite
             s == RowStart(nextWrite)
  <1>1. /\ half = "write" /\ half' = "read" /\ Log!Running /\ Log!Running'
        /\ blockCounter' = blockCounter + 1 /\ now' = now + 1
        /\ pass' = pass /\ nextRead' = nextRead /\ retention' = retention
    BY WriteChanges DEF Log!Running
  <1>2. /\ D \in Nat /\ C \in Nat \ {0} /\ Threshold = D + C /\ Threshold' = D + C
        /\ \A t \in Retentions : t \in Nat \ {0} /\ (t > D => t > 1)
    BY <1>1, Thresholds DEF ScheduleInv, Log!ScheduleTypeOK, Threshold, Log!Decays
  <1>3. /\ now \in Nat /\ blockCounter \in Nat /\ Number \in Nat
        /\ nextWrite \in Nat /\ nextRead \in Nat
    BY <1>2 DEF ScheduleInv, Log!ScheduleTypeOK, Log!ScheduleAssumption, Number, Log!Words
  <1>4. /\ nextWrite = AtMost(blockCounter, Number)
        /\ nextRead = IF blockCounter + 1 < D + C THEN 0
                      ELSE blockCounter + 1 - (D + C)
    BY <1>1, <1>2 DEF ScheduleInv, Counters, Block
  <1>5. nextWrite' = IF blockCounter < Number THEN nextWrite + 1 ELSE nextWrite
    <2>1. nextWrite \in Log!Words <=> blockCounter < Number
      BY <1>3, <1>4 DEF AtMost, Log!Words, Number
    <2> QED
      BY <2>1, WriteChanges
  <1>6. Counters'
    <2>1. nextWrite' = AtMost(blockCounter', Number)
      BY <1>1, <1>3, <1>4, <1>5 DEF AtMost
    <2>2. nextRead' = IF blockCounter' < D + C THEN 0 ELSE blockCounter' - (D + C)
      <3> HIDE DEF D, C
      <3> QED
        BY <1>1, <1>2, <1>3, <1>4
    <2> QED
      BY <1>1, <1>2, <2>1, <2>2 DEF Counters, Block, AtMost, Number
  <1>7. CASE nextWrite \notin Log!Words
    <2>1. nextWrite = Number /\ blockCounter >= Number
      BY <1>3, <1>4, <1>7 DEF AtMost, Log!Words, Number
    <2>2. UNCHANGED <<charged, refreshed, nextWrite>>
      BY <1>7, WriteChanges
    <2>3. now' - blockCounter' = now - blockCounter
      BY <1>1, <1>3
    <2>4. RowTimes'
      BY <1>1, <1>2, <2>2, <2>3
      DEF ScheduleInv, RowTimes, AtMost, RowStart, Log!Row, Log!Col, Log!Words
    <2>5. \A m \in Log!Words : Kept(m)' = Kept(m) /\ Wrote(m)' = Wrote(m)
      BY <1>1 DEF WroteSame, Kept, Log!Decays
    <2>6. Cells'
      BY <1>1, <2>2, <2>5 DEF ScheduleInv, Cells, RowStart, Log!Col, Log!Words
    <2> QED
      BY <1>6, <2>4, <2>6, WriteTypes DEF ScheduleInv
  <1>8. CASE nextWrite \in Log!Words
    <2>1. /\ w = blockCounter /\ nextRead <= s
          /\ s \in Nat /\ s <= w /\ w < s + C /\ nextWrite' = w + 1
      BY <1>8, WrittenFirst, WordsInRows, WriteChanges
    <2>2. /\ charged' = [Log!AfterAccess(Log!Row(w), now + 1)
                           EXCEPT ![w] = Log!Value(w, value)]
          /\ refreshed' = [refreshed EXCEPT ![Log!Row(w)] = now + 1]
      BY <1>8, WriteChanges
    <2>3. ASSUME NEW m \in Log!Words
          PROVE  /\ m \in Nat /\ RowStart(m) \in Nat
                 /\ RowStart(m) <= m /\ m < RowStart(m) + C
                 /\ Log!Row(m) = Log!Row(w) => RowStart(m) = s
                 /\ Log!Row(m) # Log!Row(w) =>
                        RowStart(m) + C <= s \/ s + C <= RowStart(m)
                 /\ refreshed'[Log!Row(m)] = IF Log!Row(m) = Log!Row(w) THEN now + 1
                                             ELSE refreshed[Log!Row(m)]
      <3>1. Log!Row(m) \in 0 .. Rows - 1 /\ Log!Row(w) \in 0 .. Rows - 1
        BY <1>8, WordsInRows
      <3>2. refreshed'[Log!Row(m)] = IF Log!Row(m) = Log!Row(w) THEN now + 1
                                     ELSE refreshed[Log!Row(m)]
        BY <2>2, <3>1 DEF ScheduleInv
      <3> QED
        BY <1>8, <3>2, WordsInRows, RowsApart
    <2>4. RowTimes'
      <3> SUFFICES ASSUME NEW m \in Log!Words
                   PROVE  /\ RowStart(m) < w + 1 /\ nextRead <= RowStart(m) =>
                                 refreshed'[Log!Row(m)]
                                   = now - blockCounter + AtMost(w + 1, RowStart(m) + C)
                          /\ RowStart(m) < nextRead /\ nextRead < RowStart(m) + C =>
                                 refreshed'[Log!Row(m)]
                                   = now - blockCounter + (D + C) + nextRead - 1
        <4>1. now' - blockCounter' = now - blockCounter
          BY <1>1, <1>3
        <4> QED
          BY <1>1, <1>2, <2>1, <4>1
          DEF RowTimes, AtMost, RowStart, Log!Row, Log!Col, Log!Words
      <3> DEFINE t == RowStart(m)
                 x == refreshed[Log!Row(m)]
                 y == refreshed'[Log!Row(m)]
      <3>1. /\ t < w /\ nextRead <= t => x = now - blockCounter + AtMost(w, t + C)
            /\ t < nextRead /\ nextRead < t + C =>
                   x = now - blockCounter + (D + C) + nextRead - 1
        BY <1>1, <1>2 DEF ScheduleInv, RowTimes
      <3>2. m \in Nat /\ t \in Nat /\ t <= m /\ m < t + C
        BY <2>3
      <3>3. CASE Log!Row(m) = Log!Row(w)
        <4>1. t = s /\ y = now + 1
          BY <2>3, <3>3
        <4> HIDE DEF t, y, x, s, w, D, C
        <4> QED
          BY <1>2, <1>3, <2>1, <3>2, <4>1 DEF AtMost, t, y, w, C, D
      <3>4. CASE Log!Row(m) # Log!Row(w)
        <4>1. y = x /\ (t + C <= s \/ s + C <= t)
          BY <2>3, <3>4
        <4> HIDE DEF t, y, x, s, w, D, C
        <4>2. t < w + 1 => t < w /\ t + C <= w
          BY <1>2, <1>3, <2>1, <3>2, <4>1
        <4>3. t < w + 1 => AtMost(w + 1, t + C) = AtMost(w, t + C)
          BY <1>2, <1>3, <2>1, <3>2, <4>2 DEF AtMost
        <4> QED
          BY <3>1, <4>1, <4>2, <4>3 DEF t, y, w, C, D
      <3> QED
        BY <3>3, <3>4
    <2>5. ASSUME NEW m \in Log!Words, nextRead <= m, m < w + 1
          PROVE  /\ charged'[m] \subseteq Wrote(m)
                 /\ Kept(m) \subseteq charged'[m]
                 /\ RowStart(m) < nextRead => charged'[m] \subseteq Kept(m)
      <3>1. charged'[m] = IF m = w THEN Log!Value(w, value)
                          ELSE Log!AfterAccess(Log!Row(w), now + 1)[m]
        BY <2>2 DEF Log!AfterAccess
      <3>2. CASE m = w
        <4>1. charged'[m] = Wrote(m)
          BY <1>8, <3>1, <3>2
        <4>2. ~(RowStart(m) < nextRead)
          BY <1>3, <2>1, <3>2
        <4> QED
          BY <4>1, <4>2 DEF Kept
      <3>3. CASE m # w
        <4>1. m < w
          BY <1>3, <2>3, <2>5, <3>3
        <4>2. /\ charged[m] \subseteq Wrote(m)
              /\ Kept(m) \subseteq charged[m]
              /\ RowStart(m) < nextRead => charged[m] \subseteq Kept(m)
          BY <1>1, <2>5, <4>1 DEF ScheduleInv, Cells
        <4>3. CASE Log!Row(m) # Log!Row(w)
          <5>1. charged'[m] = charged[m]
            BY <3>1, <3>3, <4>3 DEF Log!AfterAccess
          <5> QED
            BY <4>2, <5>1
        <4>4. CASE Log!Row(m) = Log!Row(w)
          <5>1. RowStart(m) = s /\ s < w
            BY <1>3, <2>1, <2>3, <4>1, <4>4
          <5>2. refreshed[Log!Row(w)] = now - blockCounter + AtMost(w, s + C)
            BY <1>1, <2>1, <4>4, <5>1 DEF ScheduleInv, RowTimes
          <5> DEFINE t == now + 1
          <5>3. /\ t - refreshed[Log!Row(w)] = 1
                /\ charged'[m] = Log!AfterAccess(Log!Row(w), t)[m]
            BY <1>3, <2>1, <3>1, <3>3, <5>2 DEF AtMost
          <5>4. \A b : b \in charged'[m] <=> b \in charged[m] /\ 1 < retention[m][b]
            <6> HIDE DEF t, w
            <6> QED
              BY <4>4, <5>3, Accessed
          <5>5. ASSUME NEW b \in Kept(m)
                PROVE  b \in charged'[m]
            <6>1. b \in charged[m] /\ b \in Bits /\ retention[m][b] > D
              BY <4>2, <5>5 DEF Kept, WroteSame
            <6>2. retention[m][b] \in Retentions
              BY <6>1 DEF ScheduleInv
            <6> QED
              BY <1>2, <5>4, <6>1, <6>2
          <5> QED
            BY <1>3, <2>1, <4>2, <5>1, <5>4, <5>5
        <4> QED
          BY <4>3, <4>4
      <3> QED
        BY <3>2, <3>3
    <2>6. Cells'
      <3>1. \A m \in Log!Words : Kept(m)' = Kept(m) /\ Wrote(m)' = Wrote(m)
        BY <1>1 DEF WroteSame, Kept, Log!Decays
      <3> QED
        BY <1>1, <2>1, <2>5, <3>1 DEF Cells, RowStart, Log!Col, Log!Words
    <2> QED
      BY <1>6, <2>4, <2>6, WriteTypes DEF ScheduleInv
  <1> QED
    BY <1>7, <1>8

LEMMA SkipSchedule ==
    ASSUME Log!ScheduleAssumption, Log!RefreshAssumption, ScheduleInv, WroteSame,
           Log!SkipHalf
    PROVE  ScheduleInv'
  <1>1. /\ half = "read" /\ half' = "write" /\ ~Log!PastDelay
        /\ UNCHANGED <<pass, blockCounter, nextWrite, nextRead, now, retention,
                       charged, refreshed>>
    BY DEF Log!SkipHalf
  <1>2. \A m \in Log!Words : Kept(m)' = Kept(m) /\ Wrote(m)' = Wrote(m)
    BY <1>1 DEF WroteSame, Kept, Log!Decays
  <1>3. Threshold' = Threshold /\ (Log!Running' <=> Log!Running)
    BY <1>1 DEF Threshold, Log!Decays, Log!Running
  <1>4. Counters'
    <2>1. AtMost(blockCounter, Number)' = AtMost(blockCounter, Number)
      BY <1>1 DEF AtMost, Number
    <2>2. ASSUME Log!Running
          PROVE  nextRead' = IF Block' < Threshold' THEN 0 ELSE Block' - Threshold'
      <3>1. blockCounter < Threshold /\ Threshold \in Nat /\ blockCounter \in Nat
        BY <1>1, <2>2, Thresholds DEF ScheduleInv, Log!ScheduleTypeOK
      <3>2. Block' = blockCounter + 1 /\ Threshold' = Threshold
        BY <1>1, <1>3 DEF Block
      <3>3. nextRead' = 0
        BY <1>1, <2>2, <3>1 DEF ScheduleInv, Counters, Block
      <3> QED
        BY <3>1, <3>2, <3>3
    <2>3. nextWrite' = nextWrite
      BY <1>1
    <2> QED
      BY <1>3, <2>1, <2>2, <2>3 DEF ScheduleInv, Counters
  <1>5. RowTimes'
    BY <1>1, <1>3
    DEF ScheduleInv, RowTimes, AtMost, RowStart, Log!Row, Log!Col, Log!Words
  <1>6. Cells'
    BY <1>1, <1>2, <1>3 DEF ScheduleInv, Cells, RowStart, Log!Col, Log!Words
  <1>7. Log!ScheduleTypeOK'
    BY <1>1 DEF ScheduleInv, Log!ScheduleTypeOK, Log!Words
  <1> QED
    BY <1>1, <1>4, <1>5, <1>6, <1>7 DEF ScheduleInv, Log!Words

\* Where the program and the memory are when a word is read.
LEMMA AtRead ==
    ASSUME Log!ScheduleAssumption, Log!RefreshAssumption, ScheduleInv,
           Log!Running, half = "read", Log!PastDelay
    PROVE  /\ blockCounter = Threshold + nextRead
           /\ nextRead < nextWrite
           /\ RowStart(nextRead) + Cols <= nextWrite
           /\ RowStart(nextRead) = nextRead =>
                  now - refreshed[Log!Row(nextRead)] = Log!Decays(pass)
           /\ RowStart(nextRead) # nextRead =>
                  /\ RowStart(nextRead) < nextRead
                  /\ now - refreshed[Log!Row(nextRead)] = 1
  <1> DEFINE D == Log!Decays(pass)
             C == Cols
             r == nextRead
             s == RowStart(nextRead)
             x == refreshed[Log!Row(nextRead)]
  <1>1. /\ D \in Nat /\ C \in Nat \ {0} /\ Threshold = D + C
        /\ blockCounter \in Nat /\ blockCounter >= D + C
    BY Thresholds DEF ScheduleInv, Log!ScheduleTypeOK
  <1>2. /\ r \in Log!Words /\ r \in Nat /\ Number \in Nat /\ r < Number
        /\ s \in Nat /\ s <= r /\ r < s + C /\ s + C <= Number
        /\ now \in Nat /\ x \in Int /\ nextWrite \in Nat
    <2>1. r \in Log!Words /\ now \in Nat /\ nextWrite \in 0 .. Rows * Cols
      BY DEF ScheduleInv, Log!ScheduleTypeOK
    <2>2. Log!Row(r) \in 0 .. Rows - 1
      BY <2>1, WordsInRows
    <2> QED
      BY <2>1, <2>2, WordsInRows DEF ScheduleInv, Number
  <1>3. /\ nextWrite = AtMost(blockCounter, Number)
        /\ r = IF blockCounter < D + C THEN 0 ELSE blockCounter - (D + C)
    BY <1>1 DEF ScheduleInv, Counters, Block
  <1>4. /\ s < nextWrite /\ r <= s => x = now - blockCounter + AtMost(nextWrite, s + C)
        /\ s < r /\ r < s + C => x = now - blockCounter + (D + C) + r - 1
    BY <1>1, <1>2 DEF ScheduleInv, RowTimes
  <1> HIDE DEF D, C, r, s, x
  <1>5. blockCounter = D + C + r
    BY <1>1, <1>2, <1>3
  <1>6. s + C <= nextWrite /\ r < nextWrite
    BY <1>1, <1>2, <1>3, <1>5 DEF AtMost
  <1>7. s = r => now - x = D
    BY <1>1, <1>2, <1>4, <1>5, <1>6 DEF AtMost
  <1>8. s # r => s < r /\ now - x = 1
    BY <1>1, <1>2, <1>4, <1>5
  <1> QED
    BY <1>1, <1>5, <1>6, <1>7, <1>8 DEF D, C, r, s, x

\* A read refreshes those cells of its row that keep their charge for the delay, and
\* no others.
LEMMA ReadFinds ==
    ASSUME Log!ScheduleAssumption, Log!RefreshAssumption, ScheduleInv, WroteSame,
           Log!Running, half = "read", Log!PastDelay,
           NEW m \in Log!Words, nextRead <= m, m < nextWrite,
           Log!Row(m) = Log!Row(nextRead)
    PROVE  Log!AfterAccess(Log!Row(nextRead), now)[m] = Kept(m)
  <1> DEFINE D == Log!Decays(pass)
             x == refreshed[Log!Row(nextRead)]
             t == now
  <1>1. D \in Nat /\ \A u \in Retentions : u \in Nat \ {0} /\ (u > D => u > 1)
    BY Thresholds DEF ScheduleInv, Log!ScheduleTypeOK
  <1>2. RowStart(m) = RowStart(nextRead) /\ nextRead \in Log!Words
    BY RowsApart DEF ScheduleInv, Log!ScheduleTypeOK
  <1>3. /\ charged[m] \subseteq Wrote(m)
        /\ Kept(m) \subseteq charged[m]
        /\ RowStart(m) < nextRead => charged[m] \subseteq Kept(m)
    BY DEF ScheduleInv, Cells
  <1>4. \/ t - x = D
        \/ t - x = 1 /\ charged[m] \subseteq Kept(m)
    BY <1>2, <1>3, AtRead
  <1>5. \A b : b \in Log!AfterAccess(Log!Row(nextRead), t)[m] <=>
                   b \in charged[m] /\ t - x < retention[m][b]
    BY Accessed
  <1>6. \A b \in charged[m] : retention[m][b] \in Retentions
    BY <1>3 DEF WroteSame, ScheduleInv
  <1>7. \A b : b \in Kept(m) <=> b \in Wrote(m) /\ retention[m][b] > D
    BY DEF Kept
  <1> HIDE DEF t, x, D
  <1>8. ASSUME NEW b PROVE b \in Log!AfterAccess(Log!Row(nextRead), t)[m] <=> b \in Kept(m)
    <2>1. CASE b \notin charged[m]
      BY <1>3, <1>5, <2>1
    <2>2. CASE b \in charged[m]
      <3>1. retention[m][b] \in Nat /\ (retention[m][b] > D => retention[m][b] > 1)
        BY <1>1, <1>6, <2>2
      <3> QED
        BY <1>1, <1>3, <1>4, <1>5, <1>7, <2>2, <3>1
    <2> QED
      BY <2>1, <2>2
  <1> QED
    BY <1>8 DEF t

LEMMA DecaysAreNumbers ==
    ASSUME Log!ScheduleAssumption, NEW p \in 1 .. Len(Delays)
    PROVE  Log!Decays(p) \in Nat
  <1>1. Cols \in Nat \ {0} /\ Delays[p] \in Nat
    BY DEF Log!ScheduleAssumption
  <1>2. Delays[p] \div Cols \in Nat
    BY <1>1
  <1> QED
    BY <1>1, <1>2 DEF Log!Decays

\* What ReadHalf changes, and what it leaves.
LEMMA ReadChanges ==
    ASSUME Log!ReadHalf
    PROVE  /\ half = "read" /\ half' = "write" /\ Log!PastDelay
           /\ charged' = Log!AfterAccess(Log!Row(nextRead), now)
           /\ refreshed' = [refreshed EXCEPT ![Log!Row(nextRead)] = now]
           /\ Log!EndOfPass => /\ pass' = pass + 1 /\ blockCounter' = 0
                               /\ nextWrite' = 0 /\ nextRead' = 0
           /\ ~Log!EndOfPass => /\ nextRead' = nextRead + 1
                                /\ UNCHANGED <<pass, blockCounter, nextWrite>>
           /\ UNCHANGED <<now, retention>>
  BY DEF Log!ReadHalf

LEMMA ReadTypes ==
    ASSUME Log!ScheduleAssumption, ScheduleInv, Log!Running, Log!ReadHalf
    PROVE  /\ Log!ScheduleTypeOK'
           /\ (now \in Nat /\ blockCounter \in Nat)'
           /\ (retention \in [Log!Words -> [Bits -> Retentions]])'
           /\ (refreshed \in [0 .. Rows - 1 -> Nat])'
           /\ (half = "read" => Log!Running)'
  <1>1. Rows \in Nat \ {0} /\ Cols \in Nat \ {0} /\ Rows * Cols \in Nat
        /\ Len(Delays) \in Nat
    BY DEF Log!ScheduleAssumption
  <1>2. /\ nextRead \in Log!Words /\ nextRead \in Nat /\ nextRead < Rows * Cols
        /\ 0 \in Log!Words
    BY <1>1, WordsInRows DEF ScheduleInv, Log!ScheduleTypeOK, Number, Log!Words
  <1>3. (/\ now \in Nat /\ blockCounter \in Nat /\ nextWrite \in 0 .. Rows * Cols
         /\ nextRead \in Log!Words /\ half \in {"write", "read"}
         /\ pass \in 1 .. Len(Delays) + 1)'
    <2>1. CASE Log!EndOfPass
      <3>1. pass \in 1 .. Len(Delays)
        BY DEF ScheduleInv, Log!ScheduleTypeOK, Log!Running
      <3>2. pass' \in 1 .. Len(Delays) + 1
        BY <1>1, <2>1, <3>1, ReadChanges
      <3> QED
        BY <1>1, <1>2, <2>1, <3>2, ReadChanges DEF ScheduleInv, Log!Words
    <2>2. CASE ~Log!EndOfPass
      <3>1. nextRead + 1 \in Log!Words
        BY <2>2 DEF Log!EndOfPass
      <3> QED
        BY <2>2, <3>1, ReadChanges DEF ScheduleInv, Log!ScheduleTypeOK, Log!Words
    <2> QED
      BY <2>1, <2>2
  <1>4. charged' \in [Log!Words -> SUBSET Bits]
    <2>1. charged \in [Log!Words -> SUBSET Bits]
      BY DEF ScheduleInv, Log!ScheduleTypeOK
    <2> QED
      BY <2>1, ReadChanges DEF Log!AfterAccess
  <1>5. /\ refreshed' \in [0 .. Rows - 1 -> Nat]
        /\ \A r \in 0 .. Rows - 1 : refreshed'[r] \in 0 .. now'
    <2>1. /\ now \in Nat /\ now' = now /\ refreshed \in [0 .. Rows - 1 -> Nat]
          /\ \A r \in 0 .. Rows - 1 : refreshed[r] \in 0 .. now
      BY ReadChanges DEF ScheduleInv, Log!ScheduleTypeOK
    <2>2. refreshed' = [refreshed EXCEPT ![Log!Row(nextRead)] = now]
      BY ReadChanges
    <2>3. refreshed' \in [0 .. Rows - 1 -> Nat]
      BY <2>1, <2>2
    <2>4. ASSUME NEW r \in 0 .. Rows - 1
          PROVE  refreshed'[r] \in {refreshed[r], now}
      BY <2>1, <2>2
    <2> QED
      BY <2>1, <2>3, <2>4
  <1>6. (retention \in [Log!Words -> [Bits -> Retentions]])'
    BY ReadChanges DEF ScheduleInv, Log!Words
  <1>7. (charged \in [Log!Words -> SUBSET Bits])'
    BY <1>4 DEF Log!Words
  <1>8. /\ (refreshed \in [0 .. Rows - 1 -> Nat])'
        /\ (\A r \in 0 .. Rows - 1 : refreshed[r] \in 0 .. now)'
    BY <1>5
  <1>9. half' # "read"
    BY ReadChanges
  <1> QED
    BY <1>3, <1>6, <1>7, <1>8, <1>9 DEF Log!ScheduleTypeOK

LEMMA EndOfPassSchedule ==
    ASSUME Log!ScheduleAssumption, Log!RefreshAssumption, ScheduleInv,
           Log!Running, Log!ReadHalf, Log!EndOfPass
    PROVE  ScheduleInv'
  <1>1. /\ half' = "write" /\ blockCounter' = 0 /\ nextWrite' = 0 /\ nextRead' = 0
    BY ReadChanges
  <1>2. Number \in Nat \ {0} /\ Cols \in Nat \ {0} /\ Rows * Cols \in Nat
    BY DEF Number, Log!ScheduleAssumption
  <1>3. Counters'
    <2>1. ASSUME Log!Running'
          PROVE  /\ nextWrite' = AtMost(0, Number)
                 /\ nextRead' = IF 1 < Threshold' THEN 0 ELSE 1 - Threshold'
      <3>1. pass' \in 1 .. Len(Delays)
        <4>1. pass' \in 1 .. Len(Delays) + 1
          BY ReadTypes DEF Log!ScheduleTypeOK
        <4> QED
          BY <2>1, <4>1 DEF Log!Running, Log!ScheduleAssumption
      <3>2. Log!Decays(pass') \in Nat
        BY <3>1, DecaysAreNumbers
      <3>3. Threshold' = Log!Decays(pass') + Cols
        BY DEF Threshold, Log!Decays
      <3> QED
        BY <1>1, <1>2, <3>2, <3>3 DEF AtMost
    <2>2. AtMost(blockCounter, Number)' = AtMost(0, Number)
      BY <1>1 DEF AtMost, Number
    <2>3. Block' = 1
      BY <1>1 DEF Block
    <2> QED
      BY <2>1, <2>2, <2>3 DEF Counters
  <1>4. \A m \in Log!Words : RowStart(m) \in Nat /\ m \in Nat
    BY WordsInRows
  <1>5. RowTimes'
    <2>1. ASSUME NEW m \in Log!Words
          PROVE  ~(RowStart(m) < nextWrite') /\ ~(RowStart(m) < nextRead')
      BY <1>1, <1>4
    <2> QED
      BY <2>1 DEF RowTimes, RowStart, Log!Col, Log!Words
  <1>6. Cells'
    <2>1. ASSUME NEW m \in Log!Words PROVE ~(m < nextWrite')
      BY <1>1, <1>4
    <2> QED
      BY <2>1 DEF Cells, Log!Words
  <1> QED
    BY <1>3, <1>5, <1>6, ReadTypes DEF ScheduleInv

LEMMA ReadOnSchedule ==
    ASSUME Log!ScheduleAssumption, Log!RefreshAssumption, ScheduleInv, WroteSame,
           Log!Running, Log!ReadHalf, ~Log!EndOfPass
    PROVE  ScheduleInv'
  <1> DEFINE D == Log!Decays(pass)
             C == Cols
             r == nextRead
             s == RowStart(nextRead)
  <1>1. /\ half = "read" /\ half' = "write" /\ Log!Running' /\ Log!PastDelay
        /\ blockCounter' = blockCounter /\ now' = now /\ nextWrite' = nextWrite
        /\ pass' = pass /\ nextRead' = r + 1 /\ retention' = retention
        /\ charged' = Log!AfterAccess(Log!Row(r), now)
        /\ refreshed' = [refreshed EXCEPT ![Log!Row(r)] = now]
    BY ReadChanges DEF Log!Running
  <1>2. /\ D \in Nat /\ C \in Nat \ {0} /\ Threshold = D + C /\ Threshold' = D + C
    BY <1>1, Thresholds DEF ScheduleInv, Log!ScheduleTypeOK, Threshold, Log!Decays
  <1>3. /\ now \in Nat /\ blockCounter \in Nat /\ Number \in Nat
        /\ nextWrite \in Nat /\ r \in Nat /\ r \in Log!Words
        /\ s \in Nat /\ s <= r /\ r < s + C
    <2>1. r \in Log!Words /\ nextWrite \in 0 .. Rows * Cols
      BY DEF ScheduleInv, Log!ScheduleTypeOK
    <2> QED
      BY <2>1, WordsInRows DEF ScheduleInv, Number
  <1>4. blockCounter = D + C + r /\ nextWrite = AtMost(blockCounter, Number)
    BY <1>1, <1>2, AtRead DEF ScheduleInv, Counters
  <1>5. Counters'
    <2>1. AtMost(blockCounter, Number)' = AtMost(blockCounter, Number)
      BY <1>1 DEF AtMost, Number
    <2>2. Block' = blockCounter + 1
      BY <1>1 DEF Block
    <2>3. nextRead' = IF Block' < D + C THEN 0 ELSE Block' - (D + C)
      <3> HIDE DEF D, C, r
      <3> QED
        BY <1>1, <1>2, <1>3, <1>4, <2>2
    <2> QED
      BY <1>1, <1>2, <1>4, <2>1, <2>3 DEF Counters
  <1>6. ASSUME NEW m \in Log!Words
        PROVE  /\ m \in Nat /\ RowStart(m) \in Nat
               /\ RowStart(m) <= m /\ m < RowStart(m) + C
               /\ Log!Row(m) = Log!Row(r) => RowStart(m) = s
               /\ Log!Row(m) # Log!Row(r) =>
                      RowStart(m) + C <= s \/ s + C <= RowStart(m)
               /\ refreshed'[Log!Row(m)] = IF Log!Row(m) = Log!Row(r) THEN now
                                           ELSE refreshed[Log!Row(m)]
    <2>1. Log!Row(m) \in 0 .. Rows - 1 /\ Log!Row(r) \in 0 .. Rows - 1
      BY <1>3, WordsInRows
    <2>2. refreshed'[Log!Row(m)] = IF Log!Row(m) = Log!Row(r) THEN now
                                   ELSE refreshed[Log!Row(m)]
      BY <1>1, <2>1 DEF ScheduleInv
    <2> QED
      BY <1>3, <2>2, WordsInRows, RowsApart
  <1>7. RowTimes'
    <2> SUFFICES ASSUME NEW m \in Log!Words
                 PROVE  /\ RowStart(m) < nextWrite /\ r + 1 <= RowStart(m) =>
                               refreshed'[Log!Row(m)]
                                 = now - blockCounter + AtMost(nextWrite, RowStart(m) + C)
                        /\ RowStart(m) < r + 1 /\ r + 1 < RowStart(m) + C =>
                               refreshed'[Log!Row(m)]
                                 = now - blockCounter + (D + C) + (r + 1) - 1
      BY <1>1, <1>2 DEF RowTimes, AtMost, RowStart, Log!Row, Log!Col, Log!Words
    <2> DEFINE t == RowStart(m)
               x == refreshed[Log!Row(m)]
               y == refreshed'[Log!Row(m)]
    <2>1. t < nextWrite /\ r <= t => x = now - blockCounter + AtMost(nextWrite, t + C)
      BY <1>1, <1>2 DEF ScheduleInv, RowTimes
    <2>2. m \in Nat /\ t \in Nat /\ t <= m /\ m < t + C
      BY <1>6
    <2>3. CASE Log!Row(m) = Log!Row(r)
      <3>1. t = s /\ y = now
        BY <1>6, <2>3
      <3> HIDE DEF t, y, x, s, r, D, C
      <3> QED
        BY <1>2, <1>3, <1>4, <2>2, <3>1 DEF t, y, r, C, D
    <2>4. CASE Log!Row(m) # Log!Row(r)
      <3>1. y = x /\ (t + C <= s \/ s + C <= t)
        BY <1>6, <2>4
      <3> HIDE DEF t, y, x, s, r, D, C
      <3>2. ~(t < r + 1 /\ r + 1 < t + C) /\ (r + 1 <= t => r <= t)
        BY <1>2, <1>3, <2>2, <3>1
      <3> QED
        BY <2>1, <3>1, <3>2 DEF t, y, r, C, D
    <2> QED
      BY <2>3, <2>4
  <1>8. ASSUME NEW m \in Log!Words, r + 1 <= m, m < nextWrite
        PROVE  /\ charged'[m] \subseteq Wrote(m)
               /\ Kept(m) \subseteq charged'[m]
               /\ RowStart(m) < r + 1 => charged'[m] \subseteq Kept(m)
    <2>1. r <= m
      BY <1>3, <1>6, <1>8
    <2>2. CASE Log!Row(m) = Log!Row(r)
      <3>1. charged'[m] = Kept(m)
        BY <1>1, <1>8, <2>1, <2>2, ReadFinds
      <3> QED
        BY <3>1 DEF Kept
    <2>3. CASE Log!Row(m) # Log!Row(r)
      <3>1. charged'[m] = charged[m]
        BY <1>1, <2>3 DEF Log!AfterAccess
      <3>2. ~(RowStart(m) < r + 1)
        <4> DEFINE t == RowStart(m)
        <4>1. /\ m \in Nat /\ t \in Nat /\ m < t + C
              /\ (t + C <= s \/ s + C <= t)
          BY <1>6, <2>3
        <4> HIDE DEF t, s, r, C
        <4> QED
          BY <1>2, <1>3, <1>8, <4>1 DEF t
      <3> QED
        BY <1>1, <1>8, <2>1, <3>1, <3>2 DEF ScheduleInv, Cells
    <2> QED
      BY <2>2, <2>3
  <1>9. Cells'
    <2>1. \A m \in Log!Words : Kept(m)' = Kept(m) /\ Wrote(m)' = Wrote(m)
      BY <1>1 DEF WroteSame, Kept, Log!Decays
    <2> QED
      BY <1>1, <1>8, <2>1 DEF Cells, RowStart, Log!Col, Log!Words
  <1> QED
    BY <1>5, <1>7, <1>9, ReadTypes DEF ScheduleInv

\* When the first word of a row is read, the row has been left alone for the delay.
LEMMA RowsAreLeft ==
    ASSUME Log!ScheduleAssumption, Log!RefreshAssumption, ScheduleInv
    PROVE  Log!RowsDecayForTheDelay
  <1> SUFFICES ASSUME half = "read", Log!PastDelay, Log!Col(nextRead) = 0
               PROVE  /\ nextWrite >= nextRead + Cols
                      /\ now - refreshed[Log!Row(nextRead)] = Log!Decays(pass)
    BY DEF Log!RowsDecayForTheDelay
  <1>1. nextRead \in Log!Words
    BY DEF ScheduleInv, Log!ScheduleTypeOK
  <1>2. nextRead \in Nat /\ RowStart(nextRead) = nextRead
    BY <1>1, WordsInRows DEF RowStart
  <1>3. nextWrite \in Nat /\ Cols \in Nat
    BY DEF ScheduleInv, Log!ScheduleTypeOK, Log!ScheduleAssumption
  <1> QED
    BY <1>2, <1>3, AtRead DEF ScheduleInv

LEMMA ScheduleStarts ==
    ASSUME Log!ScheduleAssumption, Log!RefreshAssumption, Log!ScheduleInit
    PROVE  ScheduleInv
  <1>1. /\ pass = 1 /\ blockCounter = 0 /\ nextWrite = 0 /\ nextRead = 0
        /\ half = "write" /\ now = 0
        /\ retention \in [Log!Words -> [Bits -> Retentions]]
        /\ charged = [n \in Log!Words |-> {}]
        /\ refreshed = [r \in 0 .. Rows - 1 |-> 0]
    BY DEF Log!ScheduleInit
  <1>2. /\ Number \in Nat \ {0} /\ Cols \in Nat \ {0} /\ Rows \in Nat \ {0}
        /\ Rows * Cols \in Nat \ {0} /\ Len(Delays) \in Nat
    BY DEF Number, Log!ScheduleAssumption
  <1>3. 0 \in Log!Words
    BY <1>2 DEF Log!Words
  <1>4. Log!ScheduleTypeOK
    BY <1>1, <1>2, <1>3 DEF Log!ScheduleTypeOK
  <1>5. Counters
    <2>1. ASSUME Log!Running
          PROVE  Threshold \in Nat \ {0}
      BY <1>1, <1>2, <1>4, <2>1, Thresholds DEF Log!ScheduleTypeOK
    <2> QED
      BY <1>1, <1>2, <2>1 DEF Counters, Block, AtMost
  <1>6. \A m \in Log!Words : RowStart(m) \in Nat /\ m \in Nat
    BY WordsInRows
  <1>7. RowTimes
    BY <1>1, <1>6 DEF RowTimes
  <1>8. Cells
    BY <1>1, <1>6 DEF Cells
  <1>9. now \in Nat /\ blockCounter \in Nat /\ refreshed \in [0 .. Rows - 1 -> Nat]
    BY <1>1
  <1> QED
    BY <1>1, <1>4, <1>5, <1>7, <1>8, <1>9 DEF ScheduleInv

LEMMA ScheduleStays ==
    ASSUME Log!ScheduleAssumption, ScheduleInv, WroteSame, UNCHANGED Log!scheduleVars
    PROVE  ScheduleInv'
  <1>1. UNCHANGED <<pass, blockCounter, nextWrite, nextRead, half, now, retention,
                    charged, refreshed>>
    BY DEF Log!scheduleVars
  <1>2. \A m \in Log!Words : Kept(m)' = Kept(m) /\ Wrote(m)' = Wrote(m)
    BY <1>1 DEF WroteSame, Kept, Log!Decays
  <1>3. Threshold' = Threshold /\ (Log!Running' <=> Log!Running) /\ Block' = Block
    BY <1>1 DEF Threshold, Log!Decays, Log!Running, Block
  <1>4. Counters'
    <2>1. AtMost(blockCounter, Number)' = AtMost(blockCounter, Number)
      BY <1>1 DEF AtMost, Number
    <2> QED
      BY <1>1, <1>3, <2>1 DEF ScheduleInv, Counters
  <1>5. RowTimes'
    BY <1>1, <1>3
    DEF ScheduleInv, RowTimes, AtMost, RowStart, Log!Row, Log!Col, Log!Words
  <1>6. Cells'
    BY <1>1, <1>2, <1>3 DEF ScheduleInv, Cells, RowStart, Log!Col, Log!Words
  <1>7. Log!ScheduleTypeOK'
    BY <1>1 DEF ScheduleInv, Log!ScheduleTypeOK, Log!Words
  <1> QED
    BY <1>1, <1>3, <1>4, <1>5, <1>6, <1>7 DEF ScheduleInv, Log!Words

-----------------------------------------------------------------------------
(* The fingerprint, and the decay of an image.                             *)

LEMMA Halves ==
    ASSUME NEW n \in Nat
    PROVE  /\ n \div 2 \in Nat /\ n % 2 \in {0, 1}
           /\ n = 2 * (n \div 2) + (n % 2)
           /\ (n + 1) \div 2 = n \div 2 + (n % 2)
           /\ (n + 1) % 2 = 1 - (n % 2)
  BY Z3

\* Bits that are 1 are charged, or those that are 0.
LEMMA Values ==
    ASSUME NEW n \in Log!Words, NEW bits \in SUBSET Bits
    PROVE  /\ Log!Value(n, bits) \in SUBSET Bits
           /\ Log!Value(n, Log!Value(n, bits)) = bits
  BY DEF Log!Value

\* What is logged of word n when it is read.
Result(n) ==
    IF PROGRAM = "dram_imgdecay" THEN Log!Left(n) ELSE Log!Value(n, Log!Left(n))

LogShape ==
    /\ flash \in [0 .. Log!Base + Log!Bytes - 1 -> Log!Byte]
    /\ img \in Log!Byte
    /\ Log!ImageIsKept

\* The addresses go with the words, and the byte in use is the one of the next word.
Addresses ==
    Log!Running =>
        /\ pass = 1
        /\ flashAddressWrite = Log!Base + nextRead \div 2
        /\ PROGRAM = "dram_imgdecay" =>
               /\ flashAddressRead = (nextWrite + 1) \div 2
               /\ nextWrite % 2 = 1 => img = flash[nextWrite \div 2]

Results ==
    \A n \in Log!Words :
        Log!Logged(n) = IF Log!Running /\ nextRead <= n THEN Bits ELSE Result(n)

LogInv == ScheduleInv /\ LogShape /\ Addresses /\ Results

LogAssumptions ==
    Log!ScheduleAssumption /\ Log!RefreshAssumption /\ Log!LogAssumption

\* Where the halves of the bytes are.
LEMMA Places ==
    ASSUME LogAssumptions, NEW n \in Log!Words
    PROVE  /\ n \in Nat /\ Log!Col(n) % 2 = n % 2
           /\ n \div 2 \in Nat /\ n \div 2 < Log!Bytes
           /\ Log!Bytes \in Nat /\ Log!Base \in {0, Log!Bytes}
           /\ Number = 2 * Log!Bytes
           /\ PROGRAM = "dram_imgdecay" => Log!Base = Log!Bytes
  <1>1. n \in Nat /\ Number \in Nat /\ n < Number
    BY WordsInRows DEF LogAssumptions
  <1>2. Rows \in Nat \ {0} /\ Cols \in Nat \ {0} /\ Cols % 2 = 0
    BY DEF LogAssumptions, Log!ScheduleAssumption, Log!LogAssumption
  <1>3. Log!Col(n) % 2 = n % 2
    BY <1>1, <1>2, Parity DEF Log!Col
  <1>4. Number = 2 * Log!Bytes /\ Log!Bytes \in Nat
    <2> DEFINE h == Cols \div 2
               p == Rows * h
    <2>1. h \in Nat /\ Cols = 2 * h
      BY <1>2
    <2> HIDE DEF h
    <2>2. p \in Nat /\ Number = 2 * p
      BY <1>2, <2>1 DEF Number
    <2> HIDE DEF p
    <2>3. Log!Bytes = Number \div 2
      BY DEF Log!Bytes, Number
    <2> QED
      BY <2>2, <2>3
  <1>5. n \div 2 \in Nat /\ n \div 2 < Log!Bytes
    <2> DEFINE k == n \div 2
               B == Log!Bytes
    <2>1. k \in Nat /\ (n = 2 * k \/ n = 2 * k + 1)
      BY <1>1, Halves
    <2>2. B \in Nat /\ n < 2 * B
      BY <1>1, <1>4
    <2> HIDE DEF k, B
    <2>3. k < B
      BY <2>1, <2>2
    <2> QED
      BY <2>1, <2>3 DEF k, B
  <1> QED
    BY <1>1, <1>3, <1>4, <1>5 DEF Log!Base

\* What was written of a word is as wide as the word.
LEMMA WroteBits ==
    ASSUME LogAssumptions, LogShape, NEW n \in Log!Words
    PROVE  /\ Log!Half(n, n \div 2) \in SUBSET Bits
           /\ Log!Half(n, Log!Base + n \div 2) \in SUBSET Bits
           /\ Wrote(n) \in SUBSET Bits
           /\ Log!Value(n, Log!Written(n)) = Wrote(n)
  <1>1. /\ n \div 2 \in 0 .. Log!Base + Log!Bytes - 1
        /\ Log!Base + n \div 2 \in 0 .. Log!Base + Log!Bytes - 1
    <2> DEFINE k == n \div 2
               B == Log!Bytes
               a == Log!Base
    <2>1. k \in Nat /\ k < B /\ B \in Nat /\ (a = 0 \/ a = B)
      BY Places
    <2> HIDE DEF k, B, a
    <2>2. k \in 0 .. a + B - 1 /\ a + k \in 0 .. a + B - 1
      BY <2>1
    <2> QED
      BY <2>2 DEF k, B, a
  <1>2. flash[n \div 2] \in Log!Byte /\ flash[Log!Base + n \div 2] \in Log!Byte
    BY <1>1 DEF LogShape
  <1>3. /\ Log!Half(n, n \div 2) \in SUBSET Bits
        /\ Log!Half(n, Log!Base + n \div 2) \in SUBSET Bits
    BY <1>2 DEF Log!Half, Log!Byte
  <1>4. CASE PROGRAM = "dram_imgdecay"
    BY <1>3, <1>4, Values DEF Wrote, Log!Written
  <1>5. CASE PROGRAM # "dram_imgdecay"
    <2>1. Log!Value(n, Log!Written(n)) = Bits
      BY <1>5, Values DEF Log!Written, Log!AllCharged
    <2> QED
      BY <1>3, <1>5, <2>1 DEF Wrote
  <1> QED
    BY <1>3, <1>4, <1>5

\* What is left of a word after the delay are the cells that are kept.
LEMMA ResultIs ==
    ASSUME LogAssumptions, LogShape, pass = 1, NEW n \in Log!Words
    PROVE  Result(n) = IF PROGRAM = "dram_imgdecay" THEN Log!Value(n, Kept(n))
                       ELSE Kept(n)
  <1>1. Kept(n) = {b \in Log!Value(n, Log!Written(n)) : retention[n][b] > Log!Decays(1)}
    BY WroteBits DEF Kept
  <1>2. Log!Left(n) = Log!Value(n, Kept(n))
    BY <1>1 DEF Log!Left
  <1>3. Kept(n) \in SUBSET Bits
    BY WroteBits DEF Kept
  <1> QED
    BY <1>2, <1>3, Values DEF Result

LEMMA LogStarts ==
    ASSUME LogAssumptions, Log!Init
    PROVE  LogInv
  <1>1. ScheduleInv
    BY ScheduleStarts DEF LogAssumptions, Log!Init
  <1>2. PICK image \in [0 .. Log!Bytes - 1 ->
                           IF PROGRAM = "dram_imgdecay" THEN Images ELSE {Log!Erased}] :
            flash = [a \in 0 .. Log!Base + Log!Bytes - 1 |->
                        IF a < Log!Base THEN image[a] ELSE Log!Erased]
    BY DEF Log!Init
  <1>3. /\ pass = 1 /\ nextWrite = 0 /\ nextRead = 0 /\ half = "write"
        /\ flashAddressRead = 0 /\ flashAddressWrite = Log!FlashStart /\ img = Log!Erased
    BY DEF Log!Init, Log!ScheduleInit
  <1>4. Log!Erased \in Log!Byte /\ Images \subseteq Log!Byte
    BY DEF Log!Erased, Log!Byte, LogAssumptions, Log!LogAssumption
  <1>5. /\ Log!Bytes \in Nat /\ Log!Base \in {0, Log!Bytes}
        /\ PROGRAM = "dram_imgdecay" => Log!Base = Log!Bytes
        /\ PROGRAM # "dram_imgdecay" => Log!Base = 0
    <2>1. 0 \in Log!Words
      BY <1>1, <1>3 DEF ScheduleInv, Log!ScheduleTypeOK
    <2> QED
      BY <2>1, Places DEF Log!Base
  <1>6. LogShape
    <2>1. ASSUME NEW a \in 0 .. Log!Base - 1
          PROVE  flash[a] \in Images
      <3>1. Log!Base = Log!Bytes /\ PROGRAM = "dram_imgdecay"
        BY <1>5
      <3>2. a \in 0 .. Log!Bytes - 1 /\ a \in 0 .. Log!Base + Log!Bytes - 1 /\ a < Log!Base
        BY <1>5, <3>1
      <3> QED
        BY <1>2, <3>1, <3>2
    <2>2. ASSUME NEW a \in 0 .. Log!Base + Log!Bytes - 1
          PROVE  flash[a] \in Log!Byte
      <3>1. CASE a < Log!Base
        <4>1. a \in 0 .. Log!Base - 1
          BY <1>5, <3>1
        <4> QED
          BY <1>4, <2>1, <4>1
      <3>2. CASE ~(a < Log!Base)
        BY <1>2, <1>4, <3>2
      <3> QED
        BY <3>1, <3>2
    <2>3. flash \in [0 .. Log!Base + Log!Bytes - 1 -> Log!Byte]
      BY <1>2, <2>2
    <2> QED
      BY <1>3, <1>4, <2>1, <2>3 DEF LogShape, Log!ImageIsKept
  <1>7. Addresses
    <2>1. flashAddressWrite = Log!Base + 0
      BY <1>3, <1>5 DEF Log!FlashStart, Log!Base
    <2>2. 0 \div 2 = 0 /\ (0 + 1) \div 2 = 0 /\ 0 % 2 = 0
      OBVIOUS
    <2> QED
      BY <1>3, <1>5, <2>1, <2>2 DEF Addresses
  <1>8. Results
    <2> SUFFICES ASSUME NEW n \in Log!Words
                 PROVE  Log!Logged(n) = Bits /\ Log!Running /\ nextRead <= n
      BY DEF Results
    <2>1. n \in Nat /\ n \div 2 \in Nat /\ n \div 2 < Log!Bytes
      BY Places
    <2>2. flash[Log!Base + n \div 2] = Log!Erased
      <3> DEFINE k == n \div 2
                 B == Log!Bytes
                 a == Log!Base
      <3>1. k \in Nat /\ k < B /\ B \in Nat /\ (a = 0 \/ a = B)
        BY <1>5, <2>1
      <3> HIDE DEF k, B, a
      <3>2. a + k \in 0 .. a + B - 1 /\ ~(a + k < a)
        BY <3>1
      <3> QED
        BY <1>2, <3>2 DEF k, B, a
    <2>3. Log!Logged(n) = Bits
      BY <2>2 DEF Log!Logged, Log!Half, Log!Erased
    <2>4. Log!Running
      BY <1>3 DEF Log!Running, LogAssumptions, Log!LogAssumption
    <2> QED
      BY <1>3, <2>1, <2>3, <2>4
  <1> QED
    BY <1>1, <1>6, <1>7, <1>8 DEF LogInv

LEMMA ResultsStay ==
    ASSUME Results, UNCHANGED <<flash, retention, nextRead>>, Log!Running' <=> Log!Running
    PROVE  Results'
  <1>1. ASSUME NEW n \in Log!Words
        PROVE  Log!Logged(n)' = Log!Logged(n) /\ Result(n)' = Result(n)
    <2>1. Log!Logged(n)' = Log!Logged(n)
      BY DEF Log!Logged, Log!Half, Log!Base, Log!Bytes
    <2>2. Log!Left(n)' = Log!Left(n)
      BY DEF Log!Left, Log!Value, Log!Written, Log!AllCharged, Log!Half, Log!Row,
         Log!Decays
    <2>3. Log!Value(n, Log!Left(n))' = Log!Value(n, Log!Left(n))
      BY <2>2 DEF Log!Value, Log!Row
    <2> QED
      BY <2>1, <2>2, <2>3 DEF Result
  <1> QED
    BY <1>1 DEF Results, Log!Words

LEMMA ShapeStays ==
    ASSUME LogShape, flash' = flash, img' \in Log!Byte
    PROVE  LogShape'
  BY DEF LogShape, Log!ImageIsKept, Log!Base, Log!Bytes, Log!Byte

\* The halves of the bytes in turn are what is written to the words in turn.
LEMMA LogWrites ==
    ASSUME LogAssumptions, LogInv, Log!WriteWord
    PROVE  LogInv'
  <1>1. /\ UNCHANGED <<flash, flashAddressWrite>> /\ half = "write"
        /\ Log!Running /\ Log!Running' /\ pass' = pass /\ nextRead' = nextRead
        /\ retention' = retention
        /\ nextWrite' = IF nextWrite \in Log!Words THEN nextWrite + 1 ELSE nextWrite
    BY WriteChanges DEF Log!WriteWord, Log!Running
  <1>2. /\ pass = 1 /\ flashAddressWrite = Log!Base + nextRead \div 2
        /\ PROGRAM = "dram_imgdecay" =>
               /\ flashAddressRead = (nextWrite + 1) \div 2
               /\ nextWrite % 2 = 1 => img = flash[nextWrite \div 2]
    BY <1>1 DEF LogInv, Addresses
  <1>3. \A n \in Log!Words : Wrote(n) \in SUBSET Bits /\ Wrote(n)' = Wrote(n)
    <2>1. \A n \in Log!Words : Wrote(n)' = Wrote(n)
      BY <1>1 DEF Wrote, Log!Half, Log!Value, Log!Row
    <2> QED
      BY <2>1, WroteBits DEF LogInv
  <1>4. WroteSame
    BY <1>3 DEF WroteSame
  <1>5. ASSUME PROGRAM = "dram_imgdecay" /\ nextWrite \in Log!Words
        PROVE  ScheduleInv' /\ Addresses' /\ img' \in Log!Byte
    <2> DEFINE k == nextWrite \div 2
               even == Log!Col(nextWrite) % 2 = 0
               value == IF even THEN img'.hi ELSE img.lo
    <2>1. /\ img' = IF even THEN flash[flashAddressRead] ELSE img
          /\ flashAddressRead' = flashAddressRead + (IF even THEN 1 ELSE 0)
          /\ Log!WriteHalf(value)
      BY <1>5 DEF Log!WriteWord
    <2>2. /\ nextWrite \in Nat /\ k \in Nat /\ k < Log!Bytes /\ Log!Base = Log!Bytes
          /\ Log!Bytes \in Nat
          /\ even <=> nextWrite % 2 = 0
      BY <1>5, Places
    <2>3. /\ nextWrite % 2 \in {0, 1}
          /\ (nextWrite + 1) \div 2 = k + (nextWrite % 2)
          /\ (nextWrite + 1) % 2 = 1 - (nextWrite % 2)
          /\ (nextWrite + 1) \div 2 \in Nat
          /\ ((nextWrite + 1) + 1) \div 2
                 = (nextWrite + 1) \div 2 + ((nextWrite + 1) % 2)
      <3>1. nextWrite + 1 \in Nat
        BY <2>2
      <3> QED
        BY <2>2, <3>1, Halves
    <2>4. flash[k] \in Log!Byte
      <3>1. k \in 0 .. Log!Base + Log!Bytes - 1
        BY <2>2
      <3> QED
        BY <3>1 DEF LogInv, LogShape
    <2> DEFINE h == nextWrite % 2
    <2>5. /\ value = Log!Half(nextWrite, k)
          /\ img' \in Log!Byte
          /\ flashAddressRead' = k + 1
          /\ (nextWrite + 1) % 2 = 1 => img' = flash[(nextWrite + 1) \div 2]
          /\ ((nextWrite + 1) + 1) \div 2 = k + 1
      <3>1. CASE h = 0
        <4>1. even /\ flashAddressRead = k /\ (nextWrite + 1) \div 2 = k
              /\ (nextWrite + 1) % 2 = 1
          BY <1>2, <1>5, <2>2, <2>3, <3>1
        <4>2. img' = flash[k] /\ flashAddressRead' = k + 1 /\ value = flash[k].hi
          BY <2>1, <4>1
        <4>3. Log!Half(nextWrite, k) = flash[k].hi
          BY <3>1 DEF Log!Half
        <4>4. ((nextWrite + 1) + 1) \div 2 = k + 1
          BY <2>3, <4>1
        <4> QED
          BY <2>4, <4>1, <4>2, <4>3, <4>4
      <3>2. CASE h = 1
        <4>1. ~even /\ flashAddressRead = k + 1 /\ (nextWrite + 1) \div 2 = k + 1
              /\ (nextWrite + 1) % 2 = 0 /\ img = flash[k]
          BY <1>2, <1>5, <2>2, <2>3, <3>2
        <4>2. img' = flash[k] /\ value = flash[k].lo
          BY <2>1, <4>1
        <4>3. flashAddressRead' = k + 1
          BY <2>1, <2>2, <4>1
        <4>4. Log!Half(nextWrite, k) = flash[k].lo
          BY <3>2 DEF Log!Half
        <4>5. ((nextWrite + 1) + 1) \div 2 = k + 1
          BY <2>2, <2>3, <4>1
        <4> QED
          BY <2>4, <4>1, <4>2, <4>3, <4>4, <4>5
      <3> QED
        BY <2>3, <3>1, <3>2
    <2>6. value \in SUBSET Bits /\ Log!Value(nextWrite, value) = Wrote(nextWrite)
      BY <1>5, <2>5, WroteBits DEF LogInv, Wrote
    <2> HIDE DEF value, even
    <2>7. ScheduleInv'
      BY <1>4, <2>1, <2>6, WriteSchedule DEF LogInv, LogAssumptions
    <2>8. Addresses'
      <3>1. nextWrite' = nextWrite + 1
        BY <1>1, <1>5
      <3>2. flashAddressRead' = (nextWrite' + 1) \div 2
        BY <2>5, <3>1
      <3>3. nextWrite' % 2 = 1 => img' = flash'[nextWrite' \div 2]
        BY <1>1, <2>5, <3>1
      <3>4. flashAddressWrite' = Log!Base + nextRead' \div 2 /\ pass' = 1
        BY <1>1, <1>2
      <3> QED
        BY <3>2, <3>3, <3>4 DEF Addresses, Log!Base, Log!Bytes
    <2> QED
      BY <1>5, <2>5, <2>7, <2>8
  <1>6. ASSUME ~(PROGRAM = "dram_imgdecay" /\ nextWrite \in Log!Words)
        PROVE  ScheduleInv' /\ Addresses' /\ img' \in Log!Byte
    <2>1. /\ Log!WriteHalf(Log!AllCharged(nextWrite))
          /\ UNCHANGED <<img, flashAddressRead>>
      BY <1>6 DEF Log!WriteWord
    <2>2. /\ Log!AllCharged(nextWrite) \in SUBSET Bits
          /\ Log!Value(nextWrite, Log!AllCharged(nextWrite)) = Bits
      BY DEF Log!AllCharged, Log!Value
    <2>3. nextWrite \in Log!Words => Bits = Wrote(nextWrite)
      BY <1>6 DEF Wrote
    <2>4. ScheduleInv'
      BY <1>4, <2>1, <2>2, <2>3, WriteSchedule DEF LogInv, LogAssumptions
    <2>5. Addresses'
      <3>1. flashAddressWrite' = Log!Base + nextRead' \div 2 /\ pass' = 1
        BY <1>1, <1>2
      <3>2. PROGRAM = "dram_imgdecay" => nextWrite' = nextWrite
        BY <1>1, <1>6
      <3>3. PROGRAM = "dram_imgdecay" =>
               /\ flashAddressRead' = (nextWrite' + 1) \div 2
               /\ nextWrite' % 2 = 1 => img' = flash'[nextWrite' \div 2]
        BY <1>1, <1>2, <2>1, <3>2
      <3> QED
        BY <3>1, <3>3 DEF Addresses, Log!Base, Log!Bytes
    <2>6. img' \in Log!Byte
      BY <2>1 DEF LogInv, LogShape
    <2> QED
      BY <1>6, <2>4, <2>5, <2>6
  <1>7. ScheduleInv' /\ Addresses' /\ img' \in Log!Byte
    BY <1>5, <1>6
  <1>8. LogShape'
    BY <1>1, <1>7, ShapeStays DEF LogInv
  <1>9. Results'
    BY <1>1, ResultsStay DEF LogInv
  <1> QED
    BY <1>7, <1>8, <1>9 DEF LogInv

LEMMA LogSkips ==
    ASSUME LogAssumptions, LogInv, Log!Skip
    PROVE  LogInv'
  <1>1. /\ Log!SkipHalf /\ UNCHANGED Log!logVars
        /\ UNCHANGED <<pass, nextWrite, nextRead, retention>>
    BY DEF Log!Skip, Log!SkipHalf
  <1>2. UNCHANGED <<flash, flashAddressRead, flashAddressWrite, img>>
    BY <1>1 DEF Log!logVars
  <1>3. WroteSame
    <2>1. \A n \in Log!Words : Wrote(n)' = Wrote(n)
      BY <1>2 DEF Wrote, Log!Half, Log!Value, Log!Row
    <2> QED
      BY <2>1, WroteBits DEF WroteSame, LogInv
  <1>4. ScheduleInv'
    BY <1>1, <1>3, SkipSchedule DEF LogInv, LogAssumptions
  <1>5. LogShape'
    BY <1>2, ShapeStays DEF LogInv, LogShape
  <1>6. Addresses'
    BY <1>1, <1>2 DEF LogInv, Addresses, Log!Running, Log!Base, Log!Bytes
  <1>7. Results'
    BY <1>1, <1>2, ResultsStay DEF LogInv, Log!Running
  <1> QED
    BY <1>4, <1>5, <1>6, <1>7 DEF LogInv

\* What is logged of the word that is read.
LEMMA DataIsResult ==
    ASSUME LogAssumptions, LogInv, WroteSame, Log!Running, half = "read",
           Log!PastDelay
    PROVE  /\ nextRead \in Log!Words
           /\ Log!DataToWrite = Result(nextRead)
           /\ Log!DataToWrite \in SUBSET Bits
  <1> DEFINE r == nextRead
             found == Log!AfterAccess(Log!Row(r), now)[r]
  <1>1. r \in Log!Words /\ r \in Nat
    BY WordsInRows DEF LogInv, ScheduleInv, Log!ScheduleTypeOK, LogAssumptions
  <1>2. r < nextWrite /\ r <= r
    BY <1>1, AtRead DEF LogInv, LogAssumptions
  <1>3. found = Kept(r)
    BY <1>1, <1>2, ReadFinds DEF LogInv, LogAssumptions
  <1>4. Kept(r) \in SUBSET Bits
    BY <1>1 DEF Kept, WroteSame
  <1>5. Log!DataFromDRAM = Log!Value(r, Kept(r))
    BY <1>3 DEF Log!DataFromDRAM
  <1>6. Log!DataToWrite = IF PROGRAM = "dram_imgdecay" THEN Log!Value(r, Kept(r))
                          ELSE Kept(r)
    BY <1>1, <1>4, <1>5, Values DEF Log!DataToWrite
  <1>7. pass = 1
    BY DEF LogInv, Addresses
  <1> QED
    BY <1>1, <1>4, <1>6, <1>7, ResultIs, Values DEF LogInv

\* Reading a word changes its half of a byte, and no other.
LEMMA FlashAfterRead ==
    ASSUME LogAssumptions, LogInv, Log!Running, Log!ReadWord,
           nextRead \in Log!Words, Log!DataToWrite \in SUBSET Bits
    PROVE  /\ flash' \in [0 .. Log!Base + Log!Bytes - 1 -> Log!Byte]
           /\ \A a \in 0 .. Log!Base - 1 : flash'[a] = flash[a]
           /\ \A n \in Log!Words :
                 Log!Logged(n)' = IF n = nextRead THEN Log!DataToWrite ELSE Log!Logged(n)
  <1> DEFINE r == nextRead
             h == r % 2
             k == r \div 2
             a == Log!Base + k
             data == Log!DataToWrite
  <1>1. /\ r \in Nat /\ k \in Nat /\ k < Log!Bytes /\ Log!Bytes \in Nat
        /\ Log!Base \in {0, Log!Bytes} /\ h \in {0, 1} /\ Log!Col(r) % 2 = h
    BY Places, Halves
  <1>2. a \in 0 .. Log!Base + Log!Bytes - 1 /\ Log!Base <= a
    <2> DEFINE x == Log!Base
               y == Log!Bytes
    <2>1. (x = 0 \/ x = y) /\ k < y /\ y \in Nat /\ k \in Nat
      BY <1>1
    <2> HIDE DEF k, x, y
    <2>2. x + k \in 0 .. x + y - 1 /\ x <= x + k
      BY <2>1
    <2> QED
      BY <2>2 DEF x, y
  <1>3. flash \in [0 .. Log!Base + Log!Bytes - 1 -> Log!Byte] /\ flash[a] \in Log!Byte
    BY <1>2 DEF LogInv, LogShape
  <1> DEFINE byte == Log!Aggregate(h, data)
             new == [hi |-> flash[a].hi \intersect byte.hi,
                     lo |-> flash[a].lo \intersect byte.lo]
  <1>4. flash' = [flash EXCEPT ![a] = new]
    <2>1. flashAddressWrite = a
      BY DEF LogInv, Addresses
    <2> QED
      BY <1>1, <2>1 DEF Log!ReadWord, Log!FlashWrite
  <1>5. Log!Half(r, a) = Bits
    BY <1>1 DEF LogInv, Results, Log!Logged
  <1>6. /\ new \in Log!Byte
        /\ h = 0 => new.hi = data /\ new.lo = flash[a].lo
        /\ h = 1 => new.lo = data /\ new.hi = flash[a].hi
    <2>1. CASE h = 0
      <3>1. byte = [hi |-> data, lo |-> Bits] /\ flash[a].hi = Bits
        BY <1>5, <2>1 DEF Log!Aggregate, Log!Half
      <3>2. new.hi = data /\ new.lo = flash[a].lo
        BY <1>3, <3>1 DEF Log!Byte
      <3> QED
        BY <1>3, <2>1, <3>2 DEF Log!Byte
    <2>2. CASE h = 1
      <3>1. byte = [hi |-> Bits, lo |-> data] /\ flash[a].lo = Bits
        BY <1>5, <2>2 DEF Log!Aggregate, Log!Half
      <3>2. new.lo = data /\ new.hi = flash[a].hi
        BY <1>3, <3>1 DEF Log!Byte
      <3> QED
        BY <1>3, <2>2, <3>2 DEF Log!Byte
    <2> QED
      BY <1>1, <2>1, <2>2
  <1> HIDE DEF new
  <1>7. flash' \in [0 .. Log!Base + Log!Bytes - 1 -> Log!Byte] /\ flash'[a] = new
    BY <1>2, <1>3, <1>4, <1>6
  <1>8. ASSUME NEW b \in 0 .. Log!Base + Log!Bytes - 1, b # a
        PROVE  flash'[b] = flash[b]
    BY <1>3, <1>4, <1>8
  <1>9. ASSUME NEW b \in 0 .. Log!Base - 1
        PROVE  flash'[b] = flash[b]
    <2> DEFINE x == Log!Base
               y == Log!Bytes
    <2>1. (x = 0 \/ x = y) /\ y \in Nat /\ b \in 0 .. x - 1 /\ x <= a /\ a \in Int
      BY <1>1, <1>2, <1>9
    <2> HIDE DEF x, y, a
    <2>2. b \in 0 .. x + y - 1 /\ b # a
      BY <2>1
    <2> QED
      BY <1>8, <2>2 DEF x, y
  <1>10. ASSUME NEW n \in Log!Words
         PROVE  Log!Logged(n)' = IF n = r THEN data ELSE Log!Logged(n)
    <2> DEFINE j == n \div 2
               b == Log!Base + j
    <2>1. Log!Logged(n)' = IF n % 2 = 0 THEN flash'[b].hi ELSE flash'[b].lo
      BY DEF Log!Logged, Log!Half, Log!Base, Log!Bytes
    <2>2. Log!Logged(n) = IF n % 2 = 0 THEN flash[b].hi ELSE flash[b].lo
      BY DEF Log!Logged, Log!Half
    <2>3. /\ n \in Nat /\ j \in Nat /\ j < Log!Bytes /\ n % 2 \in {0, 1}
          /\ n = 2 * j + (n % 2) /\ r = 2 * k + h
      BY <1>1, Places, Halves
    <2>4. CASE n = r
      BY <1>1, <1>6, <1>7, <2>1, <2>4
    <2>5. CASE n # r /\ j = k
      <3>1. n % 2 = 1 - h /\ b = a
        <4> DEFINE g == n % 2
        <4>1. g \in {0, 1} /\ n = 2 * k + g
          BY <2>3, <2>5
        <4> HIDE DEF g, h, k
        <4> QED
          BY <1>1, <2>3, <2>5, <4>1 DEF g, k
      <3> QED
        BY <1>1, <1>6, <1>7, <2>1, <2>2, <2>5, <3>1
    <2>6. CASE j # k
      <3>1. b # a /\ b \in 0 .. Log!Base + Log!Bytes - 1 /\ n # r
        <4> DEFINE x == Log!Base
                   y == Log!Bytes
        <4>1. /\ (x = 0 \/ x = y) /\ j \in Nat /\ k \in Nat /\ j < y /\ y \in Nat
              /\ j # k
          BY <1>1, <2>3, <2>6
        <4> HIDE DEF j, k, x, y
        <4>2. x + j \in 0 .. x + y - 1 /\ x + j # x + k
          BY <4>1
        <4> QED
          BY <2>6, <4>2 DEF x, y, j, k
      <3> QED
        BY <1>8, <2>1, <2>2, <3>1
    <2> QED
      BY <2>4, <2>5, <2>6
  <1> QED
    BY <1>7, <1>9, <1>10

LEMMA LogReads ==
    ASSUME LogAssumptions, LogInv, Log!ReadWord
    PROVE  LogInv'
  <1> DEFINE r == nextRead
             a == Log!Base + r \div 2
  <1>1. /\ Log!ReadHalf /\ half = "read" /\ Log!PastDelay /\ Log!Running
        /\ pass = 1 /\ retention' = retention
        /\ UNCHANGED <<flashAddressRead, img>>
        /\ flashAddressWrite' = flashAddressWrite + Log!Step(Log!Col(nextRead) % 2)
        /\ Log!EndOfPass => pass' = pass + 1
        /\ ~Log!EndOfPass => nextRead' = r + 1 /\ UNCHANGED <<pass, nextWrite>>
    <2>1. Log!ReadHalf
      BY DEF Log!ReadWord
    <2>2. half = "read" /\ Log!Running
      BY <2>1, ReadChanges DEF LogInv, ScheduleInv
    <2> QED
      BY <2>1, <2>2, ReadChanges DEF Log!ReadWord, LogInv, Addresses
  <1>2. r \in Log!Words
    BY DEF LogInv, ScheduleInv, Log!ScheduleTypeOK
  <1>3. /\ r \in Nat /\ Log!Col(r) % 2 = r % 2 /\ r % 2 \in {0, 1}
        /\ (r + 1) \div 2 = r \div 2 + (r % 2)
        /\ r \div 2 \in Nat
        /\ Log!Bytes \in Nat /\ Log!Base \in {0, Log!Bytes}
        /\ Number = 2 * Log!Bytes
        /\ PROGRAM = "dram_imgdecay" => Log!Base = Log!Bytes
    BY <1>2, Places, Halves
  <1>4. Log!DataToWrite \in SUBSET Bits
    <2>1. Log!AfterAccess(Log!Row(r), now)[r] \in SUBSET Bits
      BY <1>2 DEF LogInv, ScheduleInv, Log!ScheduleTypeOK, Log!AfterAccess
    <2> QED
      BY <1>2, <2>1, Values DEF Log!DataToWrite, Log!DataFromDRAM
  <1>5. /\ flash' \in [0 .. Log!Base + Log!Bytes - 1 -> Log!Byte]
        /\ \A b \in 0 .. Log!Base - 1 : flash'[b] = flash[b]
        /\ \A n \in Log!Words :
              Log!Logged(n)' = IF n = r THEN Log!DataToWrite ELSE Log!Logged(n)
    BY <1>1, <1>2, <1>4, FlashAfterRead
  <1>6. ASSUME NEW n \in Log!Words, PROGRAM = "dram_imgdecay"
        PROVE  Log!Half(n, n \div 2)' = Log!Half(n, n \div 2)
    <2>1. n \div 2 \in 0 .. Log!Base - 1
      BY <1>6, Places
    <2> QED
      BY <1>5, <2>1 DEF Log!Half
  <1>7. WroteSame
    <2>1. \A n \in Log!Words : Wrote(n)' = Wrote(n)
      BY <1>6 DEF Wrote, Log!Value, Log!Row
    <2> QED
      BY <2>1, WroteBits DEF WroteSame, LogInv
  <1>8. ScheduleInv'
    BY <1>1, <1>7, EndOfPassSchedule, ReadOnSchedule DEF LogInv, LogAssumptions
  <1>9. LogShape'
    <2>1. \A b \in 0 .. Log!Base - 1 : flash'[b] \in Images
      BY <1>5 DEF LogInv, LogShape, Log!ImageIsKept
    <2> QED
      BY <1>1, <1>5, <2>1
      DEF LogInv, LogShape, Log!ImageIsKept, Log!Base, Log!Bytes, Log!Byte
  <1>10. Addresses'
    <2> SUFFICES ASSUME Log!Running'
                 PROVE  /\ pass' = 1
                        /\ flashAddressWrite' = Log!Base + nextRead' \div 2
                        /\ PROGRAM = "dram_imgdecay" =>
                               /\ flashAddressRead' = (nextWrite' + 1) \div 2
                               /\ nextWrite' % 2 = 1 =>
                                      img' = flash'[nextWrite' \div 2]
      BY DEF Addresses, Log!Base, Log!Bytes
    <2>1. ~Log!EndOfPass
      <3>1. Len(Delays) = 1 /\ pass' \in Nat
        BY <1>8 DEF LogAssumptions, Log!LogAssumption, ScheduleInv,
           Log!ScheduleTypeOK
      <3>2. pass' <= 1
        BY <3>1 DEF Log!Running
      <3> QED
        BY <1>1, <3>2
    <2>2. nextRead' = r + 1 /\ nextWrite' = nextWrite /\ pass' = 1
      BY <1>1, <2>1
    <2>3. flashAddressWrite' = Log!Base + (r + 1) \div 2
      <3> DEFINE k == r \div 2
                 h == r % 2
                 x == Log!Base
      <3>1. flashAddressWrite = x + k /\ Log!Step(Log!Col(r) % 2) = h
        BY <1>1, <1>3 DEF LogInv, Addresses, Log!Step
      <3>2. flashAddressWrite' = (x + k) + h /\ (r + 1) \div 2 = k + h
        BY <1>1, <1>3, <3>1
      <3>3. x \in Int /\ k \in Int /\ h \in Int
        BY <1>3
      <3> HIDE DEF k, h, x
      <3>4. (x + k) + h = x + (k + h)
        BY <3>3
      <3> QED
        BY <3>2, <3>4 DEF x
    <2>4. ASSUME PROGRAM = "dram_imgdecay", nextWrite % 2 = 1
          PROVE  nextWrite \div 2 \in 0 .. Log!Base - 1
      <3> DEFINE k == nextWrite \div 2
                 B == Log!Bytes
      <3>1. nextWrite \in 0 .. Number
        BY DEF LogInv, ScheduleInv, Log!ScheduleTypeOK, Number
      <3>2. /\ nextWrite \in Nat /\ nextWrite <= 2 * B /\ B \in Nat /\ Log!Base = B
            /\ k \in Nat /\ nextWrite = 2 * k + 1
        BY <1>3, <2>4, <3>1, Halves
      <3> HIDE DEF k, B
      <3>3. k \in 0 .. B - 1
        BY <3>2
      <3> QED
        BY <3>2, <3>3 DEF k
    <2>5. PROGRAM = "dram_imgdecay" =>
             /\ flashAddressRead' = (nextWrite' + 1) \div 2
             /\ nextWrite' % 2 = 1 => img' = flash'[nextWrite' \div 2]
      BY <1>1, <1>5, <2>2, <2>4 DEF LogInv, Addresses
    <2> QED
      BY <2>2, <2>3, <2>5
  <1>11. Results'
    <2>1. ASSUME NEW n \in Log!Words
          PROVE  Result(n)' = Result(n)
      <3>1. Log!Written(n)' = Log!Written(n)
        BY <1>6 DEF Log!Written, Log!AllCharged, Log!Value, Log!Row
      <3>2. Log!Left(n)' = Log!Left(n)
        BY <1>1, <3>1 DEF Log!Left, Log!Value, Log!Row, Log!Decays
      <3> QED
        BY <3>2 DEF Result, Log!Value, Log!Row
    <2>2. Log!DataToWrite = Result(r)
      BY <1>1, <1>7, DataIsResult
    <2>3. ASSUME NEW n \in Log!Words
          PROVE  Log!Logged(n)' = IF Log!Running' /\ nextRead' <= n THEN Bits
                                  ELSE Result(n)
      <3>1. n \in Nat /\ Log!Logged(n) = IF r <= n THEN Bits ELSE Result(n)
        BY <1>1, Places DEF LogInv, Results
      <3>2. CASE Log!EndOfPass
        <4>1. ~Log!Running'
          <5>1. pass' = 2 /\ Len(Delays) = 1
            BY <1>1, <3>2 DEF LogAssumptions, Log!LogAssumption
          <5> QED
            BY <5>1 DEF Log!Running
        <4>2. n <= r
          <5>1. n < Number /\ Number \in Nat /\ r + 1 \notin 0 .. Number - 1
            BY <3>2, WordsInRows DEF Log!EndOfPass, Log!Words, Number, LogAssumptions
          <5> QED
            BY <1>3, <3>1, <5>1
        <4>3. n # r => ~(r <= n)
          BY <1>3, <3>1, <4>2
        <4> QED
          BY <1>5, <2>2, <3>1, <4>1, <4>3
      <3>3. CASE ~Log!EndOfPass
        <4>1. nextRead' = r + 1 /\ Log!Running'
          BY <1>1, <3>3 DEF Log!Running
        <4>2. /\ r + 1 <= n <=> r <= n /\ n # r
          BY <1>3, <3>1
        <4> QED
          BY <1>5, <2>2, <3>1, <4>1, <4>2
      <3> QED
        BY <3>2, <3>3
    <2> QED
      BY <2>1, <2>3 DEF Results, Log!Words
  <1> QED
    BY <1>8, <1>9, <1>10, <1>11 DEF LogInv

LEMMA LogKeeps ==
    ASSUME LogAssumptions, LogInv, [Log!Next]_(Log!vars)
    PROVE  LogInv'
  <1>1. CASE Log!WriteWord
    BY <1>1, LogWrites
  <1>2. CASE Log!Skip
    BY <1>2, LogSkips
  <1>3. CASE Log!ReadWord
    BY <1>3, LogReads
  <1>4. CASE UNCHANGED Log!vars
    <2>1. UNCHANGED Log!scheduleVars /\ UNCHANGED Log!logVars
      BY <1>4 DEF Log!vars
    <2>2. UNCHANGED <<pass, nextWrite, nextRead, retention>>
      BY <2>1 DEF Log!scheduleVars
    <2>3. UNCHANGED <<flash, flashAddressRead, flashAddressWrite, img>>
      BY <2>1 DEF Log!logVars
    <2>4. WroteSame
      <3>1. \A n \in Log!Words : Wrote(n)' = Wrote(n)
        BY <2>3 DEF Wrote, Log!Half, Log!Value, Log!Row
      <3> QED
        BY <3>1, WroteBits DEF WroteSame, LogInv
    <2>5. ScheduleInv'
      BY <2>1, <2>4, ScheduleStays DEF LogInv, LogAssumptions
    <2>6. LogShape'
      BY <2>3, ShapeStays DEF LogInv, LogShape
    <2>7. Addresses'
      BY <2>2, <2>3 DEF LogInv, Addresses, Log!Running, Log!Base, Log!Bytes
    <2>8. Results'
      BY <2>2, <2>3, ResultsStay DEF LogInv, Log!Running
    <2> QED
      BY <2>5, <2>6, <2>7, <2>8 DEF LogInv
  <1> QED
    BY <1>1, <1>2, <1>3, <1>4 DEF Log!Next, Log!Done

LEMMA LogInvariance ==
    ASSUME LogAssumptions
    PROVE  Log!Spec => []LogInv
  <1>1. Log!Init => LogInv
    BY LogStarts
  <1>2. LogInv /\ [Log!Next]_(Log!vars) => LogInv'
    BY LogKeeps
  <1> QED
    BY <1>1, <1>2, PTL DEF Log!Spec

LEMMA LogInvSaysSo ==
    ASSUME LogAssumptions, LogInv
    PROVE  /\ Log!TypeOK /\ Log!RowsDecayForTheDelay
           /\ Log!LogIsTrue /\ Log!ImageIsKept
  <1>1. Log!TypeOK
    BY DEF LogInv, LogShape, ScheduleInv, Log!TypeOK
  <1>2. Log!RowsDecayForTheDelay
    BY RowsAreLeft DEF LogInv, LogAssumptions
  <1>3. Log!LogIsTrue
    BY DEF LogInv, Results, Result, Log!LogIsTrue
  <1> QED
    BY <1>1, <1>2, <1>3 DEF LogInv, LogShape

-----------------------------------------------------------------------------
(* The map of failures.                                                    *)

\* The schedule is the same.
LEMMA MapSchedule ==
    /\ Map!Words = Log!Words /\ Map!scheduleVars = Log!scheduleVars
    /\ Map!Running <=> Log!Running
    /\ Map!PastDelay <=> Log!PastDelay
    /\ Map!EndOfPass <=> Log!EndOfPass
    /\ \A p : Map!Decays(p) = Log!Decays(p)
    /\ \A n : Map!AllCharged(n) = Log!AllCharged(n)
    /\ Map!DataFromDRAM = Log!DataFromDRAM
  BY DEF Map!Words, Map!scheduleVars, Map!Running, Map!PastDelay, Map!EndOfPass,
     Map!Decays, Map!AllCharged, Map!DataFromDRAM, Map!AfterAccess, Map!Row,
     Map!Value, Map!Delay,
     Log!Words, Log!scheduleVars, Log!Running, Log!PastDelay, Log!EndOfPass,
     Log!Decays, Log!AllCharged, Log!DataFromDRAM, Log!AfterAccess, Log!Row,
     Log!Value, Log!Delay

LEMMA MapAssumptionsAreLogs ==
    /\ Map!ScheduleAssumption <=> Log!ScheduleAssumption
    /\ Map!RefreshAssumption <=> Log!RefreshAssumption
    /\ Map!ScheduleInit <=> Log!ScheduleInit
    /\ Map!ScheduleTypeOK <=> Log!ScheduleTypeOK
    /\ Map!RowsDecayForTheDelay <=> Log!RowsDecayForTheDelay
  BY MapSchedule DEF Map!ScheduleAssumption, Map!RefreshAssumption,
     Map!ScheduleInit, Map!ScheduleTypeOK, Map!RowsDecayForTheDelay, Map!Row, Map!Col,
     Log!ScheduleAssumption, Log!RefreshAssumption,
     Log!ScheduleInit, Log!ScheduleTypeOK, Log!RowsDecayForTheDelay, Log!Row, Log!Col

LEMMA MapStepsAreLogs ==
    /\ \A value : Map!WriteHalf(value) <=> Log!WriteHalf(value)
    /\ Map!SkipHalf <=> Log!SkipHalf
    /\ Map!ReadHalf <=> Log!ReadHalf
  BY MapSchedule DEF Map!WriteHalf, Map!SkipHalf, Map!ReadHalf, Map!MoreToWrite,
     Map!Tick, Map!AfterAccess, Map!Row, Map!Value,
     Log!WriteHalf, Log!SkipHalf, Log!ReadHalf, Log!MoreToWrite, Log!Tick,
     Log!AfterAccess, Log!Row, Log!Value

MapAssumptions ==
    /\ IsMap
    /\ Map!ScheduleAssumption /\ Map!RefreshAssumption /\ Map!MapAssumption

\* Only whole words, or bits, have a place in flash.
Place == IF PROGRAM = "overlapped" THEN {0} ELSE Bits

\* The least of the delays up to d at which it fails, if any.
IsFirst(v, n, b, d) ==
    \/ v = Map!Erased /\ \A p \in 1 .. d : ~Map!FailsIn(p, n, b)
    \/ /\ v \in 1 .. d /\ Map!FailsIn(v, n, b)
       /\ \A p \in 1 .. v - 1 : ~Map!FailsIn(p, n, b)

\* The delays after which word n has been read.
Tried(n) == IF n < nextRead THEN pass ELSE pass - 1

Firsts ==
    \A n \in Map!Stored \intersect Log!Words : \A b \in Place :
        IsFirst(flash[n][b], n, b, Tried(n))

MapShape ==
    /\ DOMAIN flash = Map!Stored
    /\ \A n \in Map!Stored :
         /\ DOMAIN flash[n] = Place
         /\ \A b \in Place : flash[n][b] \in 1 .. Len(Delays) \union {Map!Erased}

MapInv == ScheduleInv /\ MapShape /\ Firsts

LEMMA MapWroteSame ==
    ASSUME IsMap
    PROVE  WroteSame /\ \A n : Wrote(n) = Bits
  BY DEF IsMap, WroteSame, Wrote

LEMMA MapStarts ==
    ASSUME MapAssumptions, Map!Init
    PROVE  MapInv
  <1>1. ScheduleInv
    BY ScheduleStarts, MapAssumptionsAreLogs DEF MapAssumptions, Map!Init
  <1>2. flash = [n \in Map!Stored |-> [b \in Place |-> Map!Erased]]
    BY DEF Map!Init, Place
  <1>3. MapShape
    BY <1>2 DEF MapShape
  <1>4. pass = 1 /\ nextRead = 0
    BY DEF Map!Init, Map!ScheduleInit
  <1>5. Firsts
    <2> SUFFICES ASSUME NEW n \in Map!Stored \intersect Log!Words, NEW b \in Place
                 PROVE  IsFirst(flash[n][b], n, b, Tried(n))
      BY DEF Firsts
    <2>1. n \in Nat
      BY WordsInRows, MapAssumptionsAreLogs DEF MapAssumptions
    <2>2. Tried(n) = 0
      BY <1>4, <2>1 DEF Tried
    <2>3. flash[n][b] = Map!Erased
      BY <1>2
    <2> QED
      BY <2>2, <2>3 DEF IsFirst
  <1> QED
    BY <1>1, <1>3, <1>5 DEF MapInv

\* The chip is the same in all passes.
LEMMA FailuresStay ==
    ASSUME retention' = retention
    PROVE  \A p, n, b : Map!FailsIn(p, n, b)' <=> Map!FailsIn(p, n, b)
  BY DEF Map!FailsIn, Map!Decays

LEMMA MapStays ==
    ASSUME MapInv, UNCHANGED <<flash, retention, pass, nextRead>>
    PROVE  MapShape' /\ Firsts'
  <1>1. MapShape'
    BY DEF MapInv, MapShape, Map!Stored, Place, Map!Erased
  <1>2. \A p, n, b : Map!FailsIn(p, n, b)' <=> Map!FailsIn(p, n, b)
    BY FailuresStay
  <1>3. ASSUME NEW n \in Map!Stored \intersect Log!Words, NEW b \in Place
        PROVE  IsFirst(flash[n][b], n, b, Tried(n))'
    <2>1. IsFirst(flash[n][b], n, b, Tried(n))
      BY DEF MapInv, Firsts
    <2>2. Tried(n)' = Tried(n) /\ flash'[n][b] = flash[n][b]
      BY DEF Tried
    <2> QED
      BY <1>2, <2>1, <2>2 DEF IsFirst, Map!Erased
  <1>4. Firsts'
    BY <1>3 DEF Firsts, Map!Stored, Log!Words, Place
  <1> QED
    BY <1>1, <1>4

LEMMA MapWrites ==
    ASSUME MapAssumptions, MapInv, Map!WriteWord
    PROVE  MapInv'
  <1>1. Log!WriteHalf(Log!AllCharged(nextWrite)) /\ flash' = flash
    BY MapStepsAreLogs, MapSchedule DEF Map!WriteWord
  <1>2. UNCHANGED <<retention, pass, nextRead>>
    BY <1>1, WriteChanges
  <1>3. /\ Log!AllCharged(nextWrite) \in SUBSET Bits
        /\ Log!Value(nextWrite, Log!AllCharged(nextWrite)) = Bits
    BY DEF Log!AllCharged, Log!Value
  <1>4. WroteSame /\ Wrote(nextWrite) = Bits
    BY MapWroteSame DEF MapAssumptions
  <1>5. ScheduleInv'
    BY <1>1, <1>3, <1>4, WriteSchedule, MapAssumptionsAreLogs DEF MapInv, MapAssumptions
  <1>6. MapShape' /\ Firsts'
    BY <1>1, <1>2, MapStays
  <1> QED
    BY <1>5, <1>6 DEF MapInv

LEMMA MapSkips ==
    ASSUME MapAssumptions, MapInv, Map!Skip
    PROVE  MapInv'
  <1>1. Log!SkipHalf /\ flash' = flash
    BY MapStepsAreLogs DEF Map!Skip
  <1>2. UNCHANGED <<retention, pass, nextRead>>
    BY <1>1 DEF Log!SkipHalf
  <1>3. WroteSame
    BY MapWroteSame DEF MapAssumptions
  <1>4. ScheduleInv'
    BY <1>1, <1>3, SkipSchedule, MapAssumptionsAreLogs DEF MapInv, MapAssumptions
  <1>5. MapShape' /\ Firsts'
    BY <1>1, <1>2, MapStays
  <1> QED
    BY <1>4, <1>5 DEF MapInv

\* The bits that fail are those that do not keep their charge for the delay.
LEMMA FailuresAreSeen ==
    ASSUME MapAssumptions, ScheduleInv, Log!Running, half = "read", Log!PastDelay,
           NEW b \in Place
    PROVE  b \in Map!FailedBits <=> Map!FailsIn(pass, nextRead, b)
  <1> DEFINE r == nextRead
             D == Log!Decays(pass)
             data == Log!DataFromDRAM
             all == Log!AllCharged(r)
  <1>1. Log!ScheduleAssumption /\ Log!RefreshAssumption
    BY MapAssumptionsAreLogs DEF MapAssumptions
  <1>2. r \in Log!Words /\ r \in Nat
    BY <1>1, WordsInRows DEF ScheduleInv, Log!ScheduleTypeOK
  <1>3. WroteSame /\ Wrote(r) = Bits
    BY MapWroteSame DEF MapAssumptions
  <1>4. r < nextWrite /\ r <= r
    BY <1>1, <1>2, AtRead
  <1>5. data = Log!Value(r, Kept(r))
    BY <1>1, <1>2, <1>3, <1>4, ReadFinds DEF Log!DataFromDRAM
  <1>6. D \in Nat
    BY <1>1, Thresholds DEF ScheduleInv, Log!ScheduleTypeOK
  <1>7. ASSUME NEW c \in Bits
        PROVE  (c \in data) # (c \in all) <=> retention[r][c] <= D
    <2>1. retention[r][c] \in Nat
      BY <1>1, <1>2 DEF ScheduleInv, Log!ScheduleAssumption
    <2>2. c \in Kept(r) <=> retention[r][c] > D
      BY <1>3 DEF Kept
    <2>3. c \in Kept(r) <=> ~(retention[r][c] <= D)
      BY <1>6, <2>1, <2>2
    <2>4. CASE Log!Row(r) % 2 = 0
      <3>1. (c \in data <=> c \in Kept(r)) /\ c \in all
        BY <1>5, <2>4 DEF Log!Value, Log!AllCharged
      <3> QED
        BY <2>3, <3>1
    <2>5. CASE ~(Log!Row(r) % 2 = 0)
      <3>1. (c \in data <=> c \notin Kept(r)) /\ c \notin all
        BY <1>5, <2>5 DEF Log!Value, Log!AllCharged
      <3> QED
        BY <2>3, <3>1
    <2> QED
      BY <2>4, <2>5
  <1> DEFINE wrong == {c \in Bits : (c \in data) # (c \in all)}
  <1>8. Map!FailedBits = IF PROGRAM # "overlapped" THEN wrong
                         ELSE IF wrong # {} THEN {0} ELSE {}
    BY MapSchedule DEF Map!FailedBits
  <1>9. \A c : c \in wrong <=> c \in Bits /\ retention[r][c] <= D
    BY <1>7
  <1>10. Map!FailsIn(pass, r, b) <=> IF PROGRAM = "overlapped"
                                     THEN \E c \in Bits : retention[r][c] <= D
                                     ELSE retention[r][b] <= D
    BY MapSchedule DEF Map!FailsIn
  <1> HIDE DEF wrong, D
  <1> QED
    BY <1>8, <1>9, <1>10 DEF Place

LEMMA MapReads ==
    ASSUME MapAssumptions, MapInv, Map!ReadWord
    PROVE  MapInv'
  <1> DEFINE r == nextRead
  <1>1. Log!ScheduleAssumption /\ Log!RefreshAssumption
    BY MapAssumptionsAreLogs DEF MapAssumptions
  <1>2. Log!ReadHalf /\ Log!Running
    <2>1. Log!ReadHalf
      BY MapStepsAreLogs DEF Map!ReadWord
    <2> QED
      BY <2>1, ReadChanges DEF MapInv, ScheduleInv
  <1>3. /\ half = "read" /\ Log!PastDelay /\ retention' = retention
        /\ Log!EndOfPass => pass' = pass + 1 /\ nextRead' = 0
        /\ ~Log!EndOfPass => nextRead' = r + 1 /\ pass' = pass
    BY <1>2, ReadChanges
  <1>4. /\ r \in Log!Words /\ r \in Nat
        /\ pass \in 1 .. Len(Delays) /\ Len(Delays) \in Nat /\ Len(Delays) < 255
    BY <1>1, <1>2, WordsInRows
    DEF MapInv, ScheduleInv, Log!ScheduleTypeOK, Log!Running, MapAssumptions,
        Map!MapAssumption, Log!ScheduleAssumption
  <1>5. ScheduleInv'
    <2>1. WroteSame
      BY MapWroteSame DEF MapAssumptions
    <2> QED
      BY <1>1, <1>2, <2>1, EndOfPassSchedule, ReadOnSchedule DEF MapInv
  <1>6. /\ DOMAIN flash' = Map!Stored
        /\ \A n \in Map!Stored :
             /\ DOMAIN flash'[n] = Place
             /\ \A b \in Place :
                  flash'[n][b] = IF /\ n = r /\ Map!FailsIn(pass, r, b)
                                    /\ flash[n][b] = Map!Erased
                                 THEN pass ELSE flash[n][b]
    <2>1. flash' = [n \in Map!Stored |-> [b \in DOMAIN flash[n] |->
                      IF n = r /\ b \in Map!FailedBits /\ Map!FirstFailure(b)
                      THEN pass ELSE flash[n][b]]]
      BY DEF Map!ReadWord
    <2>2. \A n \in Map!Stored : DOMAIN flash[n] = Place
      BY DEF MapInv, MapShape
    <2>3. \A b \in Place : b \in Map!FailedBits <=> Map!FailsIn(pass, r, b)
      BY <1>2, <1>3, FailuresAreSeen DEF MapInv
    <2> QED
      BY <2>1, <2>2, <2>3 DEF Map!FirstFailure
  <1>7. MapShape'
    <2>1. ASSUME NEW n \in Map!Stored, NEW b \in Place
          PROVE  flash'[n][b] \in 1 .. Len(Delays) \union {Map!Erased}
      BY <1>4, <1>6 DEF MapInv, MapShape
    <2> QED
      BY <1>6, <2>1 DEF MapShape, Map!Stored, Place, Map!Erased
  <1>8. ASSUME NEW n \in Log!Words
        PROVE  /\ n # r => Tried(n)' = Tried(n)
               /\ n = r => Tried(n) = pass - 1 /\ Tried(n)' = pass
    <2>1. n \in Nat /\ n < Number /\ Number \in Nat
      BY <1>1, WordsInRows
    <2>2. n = r => Tried(n) = pass - 1
      BY <1>4 DEF Tried
    <2>3. CASE Log!EndOfPass
      <3>1. n <= r
        <4>1. r + 1 \notin 0 .. Number - 1
          BY <2>3 DEF Log!EndOfPass, Log!Words, Number
        <4> QED
          BY <1>4, <2>1, <4>1
      <3>2. Tried(n)' = pass
        BY <1>3, <1>4, <2>1, <2>3 DEF Tried
      <3>3. n # r => Tried(n) = pass
        BY <1>4, <2>1, <3>1 DEF Tried
      <3> QED
        BY <2>2, <3>2, <3>3
    <2>4. CASE ~Log!EndOfPass
      <3>1. nextRead' = r + 1 /\ pass' = pass
        BY <1>3, <2>4
      <3>2. n < r + 1 <=> n < r \/ n = r
        BY <1>4, <2>1
      <3> QED
        BY <2>2, <3>1, <3>2 DEF Tried
    <2> QED
      BY <2>3, <2>4
  <1>9. Firsts'
    <2>1. \A p, n, b : Map!FailsIn(p, n, b)' <=> Map!FailsIn(p, n, b)
      BY <1>3, FailuresStay
    <2>2. ASSUME NEW n \in Map!Stored \intersect Log!Words, NEW b \in Place
          PROVE  IsFirst(flash[n][b], n, b, Tried(n))'
      <3> DEFINE v == flash[n][b]
                 F(p) == Map!FailsIn(p, n, b)
      <3>1. IsFirst(v, n, b, Tried(n))
        BY DEF MapInv, Firsts
      <3>2. CASE n # r
        <4>1. flash'[n][b] = flash[n][b] /\ Tried(n)' = Tried(n)
          BY <1>6, <1>8, <3>2
        <4> QED
          BY <2>1, <3>1, <4>1 DEF IsFirst, Map!Erased
      <3>3. CASE n = r
        <4>1. /\ Tried(n) = pass - 1 /\ Tried(n)' = pass
              /\ flash'[n][b] = IF F(pass) /\ v = 255 THEN pass ELSE v
          <5>1. Tried(n) = pass - 1 /\ Tried(n)' = pass
            BY <1>8, <3>3
          <5>2. flash'[n][b] = IF F(pass) /\ v = 255 THEN pass ELSE v
            BY <1>6, <3>3 DEF Map!Erased
          <5> QED
            BY <5>1, <5>2
        <4>2. \/ v = 255 /\ \A p \in 1 .. pass - 1 : ~F(p)
              \/ v \in 1 .. pass - 1 /\ F(v) /\ \A p \in 1 .. v - 1 : ~F(p)
          BY <3>1, <4>1 DEF IsFirst, Map!Erased
        <4> DEFINE w == flash'[n][b]
        <4> HIDE DEF F, v, w
        <4>3. \/ w = 255 /\ \A p \in 1 .. pass : ~F(p)
              \/ w \in 1 .. pass /\ F(w) /\ \A p \in 1 .. w - 1 : ~F(p)
          <5>1. w = IF F(pass) /\ v = 255 THEN pass ELSE v
            BY <4>1 DEF w
          <5>2. CASE v = 255 /\ \A p \in 1 .. pass - 1 : ~F(p)
            BY <1>4, <5>1, <5>2
          <5>3. CASE v \in 1 .. pass - 1 /\ F(v) /\ \A p \in 1 .. v - 1 : ~F(p)
            <6>1. v # 255 /\ v \in 1 .. pass
              BY <1>4, <5>3
            <6> QED
              BY <5>1, <5>3, <6>1
          <5> QED
            BY <4>2, <5>2, <5>3
        <4> QED
          BY <2>1, <4>1, <4>3 DEF IsFirst, Map!Erased, F, w
      <3> QED
        BY <3>2, <3>3
    <2> QED
      BY <2>2 DEF Firsts, Map!Stored, Log!Words, Place
  <1> QED
    BY <1>5, <1>7, <1>9 DEF MapInv

LEMMA MapKeeps ==
    ASSUME MapAssumptions, MapInv, [Map!Next]_(Map!vars)
    PROVE  MapInv'
  <1>1. CASE UNCHANGED Map!vars
    <2>1. UNCHANGED Log!scheduleVars /\ UNCHANGED flash
      BY <1>1 DEF Map!vars, Map!scheduleVars, Log!scheduleVars
    <2>2. UNCHANGED <<retention, pass, nextRead>>
      BY <2>1 DEF Log!scheduleVars
    <2>3. ScheduleInv'
      BY <2>1, ScheduleStays, MapWroteSame, MapAssumptionsAreLogs
      DEF MapInv, MapAssumptions
    <2>4. MapShape' /\ Firsts'
      BY <2>1, <2>2, MapStays
    <2> QED
      BY <2>3, <2>4 DEF MapInv
  <1> QED
    BY <1>1, MapWrites, MapSkips, MapReads DEF Map!Next, Map!Done

LEMMA MapInvariance ==
    ASSUME MapAssumptions
    PROVE  Map!Spec => []MapInv
  <1>1. Map!Init => MapInv
    BY MapStarts
  <1>2. MapInv /\ [Map!Next]_(Map!vars) => MapInv'
    BY MapKeeps
  <1> QED
    BY <1>1, <1>2, PTL DEF Map!Spec

LEMMA MapInvSaysSo ==
    ASSUME MapAssumptions, MapInv
    PROVE  Map!TypeOK /\ Map!RowsDecayForTheDelay /\ Map!FirstFailureIsLogged
  <1>1. Map!TypeOK
    BY MapAssumptionsAreLogs DEF MapInv, MapShape, ScheduleInv, Map!TypeOK
  <1>2. Map!RowsDecayForTheDelay
    BY RowsAreLeft, MapAssumptionsAreLogs DEF MapInv, MapAssumptions
  <1>3. Map!FirstFailureIsLogged
    <2> SUFFICES ASSUME nextRead = 0,
                        NEW n \in Map!Stored \intersect Log!Words, NEW b \in Place
                 PROVE  flash[n][b] =
                          IF \A p \in 1 .. pass - 1 : ~Map!FailsIn(p, n, b)
                          THEN Map!Erased
                          ELSE CHOOSE p \in 1 .. pass - 1 :
                                   /\ Map!FailsIn(p, n, b)
                                   /\ \A q \in 1 .. p - 1 : ~Map!FailsIn(q, n, b)
      <3>1. \A n \in Map!Stored : DOMAIN flash[n] = Place
        BY DEF MapInv, MapShape
      <3> QED
        BY <3>1, MapSchedule DEF Map!FirstFailureIsLogged
    <2> DEFINE v == flash[n][b]
               d == pass - 1
               F(p) == Map!FailsIn(p, n, b)
               First(p) == F(p) /\ \A q \in 1 .. p - 1 : ~F(q)
    <2>1. n \in Nat /\ pass \in Nat
      <3>1. Log!ScheduleAssumption
        BY MapAssumptionsAreLogs DEF MapAssumptions
      <3>2. n \in Nat
        BY <3>1, WordsInRows
      <3> QED
        BY <3>2 DEF MapInv, ScheduleInv, Log!ScheduleTypeOK
    <2>2. \/ v = Map!Erased /\ \A p \in 1 .. d : ~F(p)
          \/ v \in 1 .. d /\ F(v) /\ \A p \in 1 .. v - 1 : ~F(p)
      <3>1. Tried(n) = d
        BY <2>1 DEF Tried
      <3> QED
        BY <3>1 DEF MapInv, Firsts, IsFirst
    <2> HIDE DEF F, v
    <2>3. CASE v = Map!Erased /\ \A p \in 1 .. d : ~F(p)
      BY <2>3 DEF F, v
    <2>4. CASE v \in 1 .. d /\ First(v)
      <3>1. ~ \A p \in 1 .. d : ~F(p)
        BY <2>4
      <3>2. ASSUME NEW p \in 1 .. d, First(p)
            PROVE  p = v
        <4>1. ~(p < v) /\ ~(v < p)
          BY <2>1, <2>4, <3>2
        <4> QED
          BY <2>1, <2>4, <4>1
      <3>3. v = CHOOSE p \in 1 .. d : First(p)
        BY <2>4, <3>2
      <3> QED
        BY <3>1, <3>3 DEF F, v
    <2> QED
      BY <2>2, <2>3, <2>4
  <1> QED
    BY <1>1, <1>2, <1>3

-----------------------------------------------------------------------------
(* The scan at reduced voltage.                                            *)

\* The module counts as its instance does.
LEMMA SameCount ==
    \A S : Scan!Cardinality(S) = Cardinality(S)
  BY DEF Cardinality, Scan!Cardinality

\* One word of the garbage write is charged by it, the other is not.
LEMMA GarbageWords ==
    ASSUME Scan!ScanAssumption
    PROVE  /\ 1 \in Scan!Words /\ Cols + 1 \in Scan!Words /\ 1 # Cols + 1
           /\ Scan!Charged(1) = "0xF" /\ Scan!Charged(Cols + 1) = "0x0"
  <1>1. Rows \in Nat /\ Rows > 1 /\ Cols \in Nat /\ Cols > 1
    BY DEF Scan!ScanAssumption
  <1>2. Rows * Cols \in Nat /\ Cols + Cols <= Rows * Cols
    <2>1. Cols * 1 + Cols <= Cols * Rows
      BY <1>1, Multiples
    <2>2. Rows * Cols = Cols * Rows /\ Cols * 1 = Cols /\ Rows * Cols \in Nat
      BY <1>1
    <2> QED
      BY <2>1, <2>2
  <1>3. 1 \in Scan!Words /\ Cols + 1 \in Scan!Words /\ 1 # Cols + 1
    <2> DEFINE p == Rows * Cols
    <2>1. p \in Nat /\ Cols + Cols <= p
      BY <1>2
    <2> HIDE DEF p
    <2>2. 1 \in 0 .. p - 1 /\ Cols + 1 \in 0 .. p - 1
      BY <1>1, <2>1
    <2> QED
      BY <1>1, <2>2 DEF Scan!Words, p
  <1>4. 1 \div Cols = 0 /\ (Cols + 1) \div Cols = 1
    BY <1>1
  <1> QED
    BY <1>3, <1>4 DEF Scan!Charged, Scan!Row

\* Words are in rows.
LEMMA ScanRows ==
    ASSUME Scan!ScanAssumption, NEW n \in Scan!Words
    PROVE  Scan!Row(n) \in 0 .. Rows - 1
  <1> DEFINE q == n \div Cols
             c == n % Cols
  <1>1. Rows \in Nat \ {0} /\ Cols \in Nat \ {0}
    BY DEF Scan!ScanAssumption
  <1>2. Rows * Cols = Cols * Rows /\ Cols * Rows \in Nat
    BY <1>1
  <1>3. n \in Nat /\ n < Cols * Rows
    BY <1>2 DEF Scan!Words
  <1>4. q \in Nat /\ c \in 0 .. Cols - 1 /\ n = Cols * q + c
    BY <1>1, <1>3, Division
  <1> HIDE DEF q, c
  <1>5. Cols * q \in Nat
    BY <1>1, <1>4
  <1>6. ~(q = Rows)
    BY <1>1, <1>3, <1>4, <1>5
  <1>7. ~(Rows < q)
    <2> SUFFICES ASSUME Rows < q PROVE FALSE
      OBVIOUS
    <2> QED
      BY <1>1, <1>3, <1>4, <1>5, Multiples
  <1>8. q \in 0 .. Rows - 1
    BY <1>1, <1>4, <1>6, <1>7
  <1> QED
    BY <1>8 DEF Scan!Row, q

\* A word is read no later than its row may be.
LEMMA LateEnough ==
    ASSUME Scan!ScanAssumption, NEW late \in Scan!Lateness, NEW n \in Scan!Words
    PROVE  /\ late[Scan!Row(n)] \in Nat
           /\ late[Scan!Row(n)] <= Scan!LateBy(n) /\ Scan!LateBy(n) \in Nat
           /\ PROGRAM # "sequentialBits" => late[Scan!Row(n)] = 0
  <1>1. Scan!Row(n) \in 0 .. Rows - 1 /\ MAX_LATE \in Nat
    BY ScanRows DEF Scan!ScanAssumption
  <1>2. CASE PROGRAM = "sequentialBits"
    <2>1. late \in [0 .. Rows - 1 -> 0 .. MAX_LATE] /\ late[0] = 0
      BY <1>2 DEF Scan!Lateness
    <2> QED
      BY <1>1, <1>2, <2>1 DEF Scan!LateBy
  <1>3. CASE PROGRAM # "sequentialBits"
    <2>1. late[Scan!Row(n)] = 0
      BY <1>1, <1>3 DEF Scan!Lateness
    <2> QED
      BY <1>1, <1>3, <2>1 DEF Scan!LateBy
  <1> QED
    BY <1>2, <1>3

\* What the programs find that power the chip on after the delay, ...
Lost == Scan!Words \ ((Scan!Valid(voltage, scanDelay) \ Scan!Garbage) \union {1})

\* ... and what sequentialBits.c finds.
LateLost ==
    \A n \in Scan!Words :
        IF n \in Scan!Differ THEN retention[1][n] <= scanDelay * STEP + Scan!LateBy(n)
        ELSE n \in Scan!Valid(1, scanDelay)

ScanShape ==
    /\ retention \in [1 .. Voltages -> [Scan!Words -> Retentions]]
    /\ Scan!TypeOK
    /\ scanLog \in Seq([voltage : 1 .. Voltages, delay : Scan!Steps, valid : Int])

\* The delays after which the words have been read.
StepsTried == IF pc = "returned" THEN scanDelay ELSE scanDelay - 1

\* What flash may have for word n after d delays.
IsFirstOf(n, x, d) ==
    IF x = Scan!Erased THEN n \in Scan!Valid(1, d)
    ELSE /\ x \in 1 .. d
         /\ n \in Scan!Valid(1, x - 1)
         /\ retention[1][n] <= x * STEP + Scan!LateBy(n)

FirstSteps ==
    PROGRAM = "sequentialBits" =>
        \A n \in Scan!Words : IsFirstOf(n, first[n], StepsTried)

Found ==
    pc = "read" =>
        IF PROGRAM = "sequentialBits" THEN LateLost ELSE Scan!Differ = Lost

ScanInv ==
    /\ ScanShape
    /\ Found
    /\ Scan!RecordsAreMeasured
    /\ FirstSteps

\* The words that are valid are counted.
LEMMA ValidWords ==
    ASSUME Scan!ScanAssumption, PROGRAM # "sequentialBits", Scan!Differ = Lost
    PROVE  /\ Scan!flipCounter
                = Cardinality(Scan!Valid(voltage, scanDelay) \ Scan!Garbage) + 1
           /\ Scan!flipCounter \in Int
  <1> DEFINE W == Scan!Words
             V == Scan!Valid(voltage, scanDelay) \ Scan!Garbage
             U == V \union {1}
  <1>1. IsFiniteSet(W)
    <2>1. 0 \in Int /\ Rows * Cols - 1 \in Int
      BY DEF Scan!ScanAssumption
    <2> QED
      BY <2>1, FS_Interval DEF Scan!Words
  <1>2. V \subseteq W /\ 1 \in W /\ 1 \notin V /\ U \subseteq W
    BY GarbageWords DEF Scan!Valid, Scan!Garbage
  <1>3. IsFiniteSet(V) /\ IsFiniteSet(U)
    BY <1>1, <1>2, FS_Subset
  <1>4. Cardinality(U) = Cardinality(V) + 1
    BY <1>2, <1>3, FS_AddElement
  <1>5. Scan!Differ = W \ U
    BY DEF Lost
  <1>6. /\ Cardinality(W \ U) = Cardinality(W) - Cardinality(W \intersect U)
        /\ W \intersect U = U
    BY <1>1, <1>2, FS_Difference
  <1>7. Cardinality(W) \in Nat /\ Cardinality(V) \in Nat /\ Cardinality(U) \in Nat
    BY <1>1, <1>3, FS_CardinalityType
  <1> HIDE DEF U, V, W
  <1>8. Scan!flipCounter = Cardinality(W) - (Cardinality(W) - Cardinality(U))
    BY <1>5, <1>6, SameCount DEF Scan!flipCounter, Scan!Number, W
  <1> QED
    BY <1>4, <1>7, <1>8 DEF V

LEMMA ScanStarts ==
    ASSUME Scan!ScanAssumption, Scan!Init
    PROVE  ScanInv
  <1>1. /\ retention \in [1 .. Voltages -> [Scan!Words -> Retentions]]
        /\ mem = Scan!AfterPowerOn([n \in Scan!Words |-> "decayed"])
        /\ pc = "write" /\ voltage = 1 /\ scanDelay = 1 /\ scanLog = <<>>
        /\ first = [n \in Scan!Words |-> Scan!Erased]
    BY DEF Scan!Init
  <1>2. mem \in [Scan!Words -> Scan!Contents]
    BY <1>1 DEF Scan!AfterPowerOn, Scan!Contents
  <1>3. /\ 1 \in 1 .. Voltages /\ 1 \in Scan!Steps
        /\ STEP \in Nat /\ Retentions \subseteq Nat \ {0}
    BY DEF Scan!ScanAssumption, Scan!Steps
  <1>4. ScanShape
    BY <1>1, <1>2, <1>3 DEF ScanShape, Scan!TypeOK
  <1>5. FirstSteps
    <2>1. StepsTried = 0 /\ 0 * STEP = 0
      BY <1>1, <1>3 DEF StepsTried
    <2>2. ASSUME NEW n \in Scan!Words
          PROVE  n \in Scan!Valid(1, 0)
      <3>1. retention[1][n] \in Nat \ {0}
        BY <1>1, <1>3
      <3> QED
        BY <2>1, <3>1 DEF Scan!Valid
    <2> QED
      BY <1>1, <2>1, <2>2 DEF FirstSteps, IsFirstOf
  <1> QED
    BY <1>1, <1>4, <1>5 DEF ScanInv, Found, Scan!RecordsAreMeasured

LEMMA ScanWrites ==
    ASSUME Scan!ScanAssumption, ScanInv, Scan!WriteAll
    PROVE  ScanInv'
  <1>1. /\ pc = "write" /\ pc' = "decay"
        /\ mem' = [n \in Scan!Words |-> Scan!Charged(n)]
        /\ UNCHANGED <<retention, voltage, scanDelay, scanLog, first>>
    BY DEF Scan!WriteAll, Scan!AllRows
  <1>2. mem' \in [Scan!Words -> Scan!Contents] /\ Scan!Differ' = {}
    BY <1>1 DEF Scan!Charged, Scan!Contents, Scan!Differ, Scan!Words
  <1>3. ScanShape'
    BY <1>1, <1>2
    DEF ScanInv, ScanShape, Scan!TypeOK, Scan!Words, Scan!Contents, Scan!Steps
  <1>4. Scan!RecordsAreMeasured'
    BY <1>1 DEF ScanInv, Scan!RecordsAreMeasured, Scan!Valid, Scan!Garbage, Scan!Words
  <1>5. FirstSteps'
    BY <1>1 DEF ScanInv, FirstSteps, IsFirstOf, StepsTried, Scan!Words, Scan!Erased,
                Scan!Valid, Scan!LateBy, Scan!Row
  <1> QED
    BY <1>1, <1>3, <1>4, <1>5 DEF ScanInv, Found

\* Words are read that kept their charge, the garbage apart, or that may have kept it
\* until their row is read.
LEMMA ScanDecays ==
    ASSUME Scan!ScanAssumption, ScanInv, Scan!Decay
    PROVE  ScanInv'
  <1> DEFINE W == Scan!Words
             V == Scan!Valid(voltage, scanDelay)
             Decayed(late) ==
                 [n \in W |-> IF n \in Scan!Fail(late) THEN "decayed" ELSE mem[n]]
  <1>0. PICK late \in Scan!Lateness :
            mem' = IF PROGRAM = "sequentialBits" THEN Decayed(late)
                   ELSE Scan!AfterPowerOn(Decayed(late))
    BY DEF Scan!Decay
  <1> DEFINE decayed == Decayed(late)
             t == scanDelay * STEP
  <1>1. /\ pc = "decay" /\ pc' = "read"
        /\ mem' = IF PROGRAM = "sequentialBits" THEN decayed ELSE Scan!AfterPowerOn(decayed)
        /\ UNCHANGED <<retention, voltage, scanDelay, scanLog, first>>
    BY <1>0 DEF Scan!Decay
  <1>2. \A n \in W : mem[n] = Scan!Charged(n)
    BY <1>1 DEF ScanInv, ScanShape, Scan!TypeOK, Scan!Differ
  <1>3. t \in Nat /\ (PROGRAM = "sequentialBits" => voltage = 1)
    BY DEF ScanInv, ScanShape, Scan!TypeOK, Scan!Steps, Scan!ScanAssumption
  <1>4. ASSUME NEW n \in W
        PROVE  /\ PROGRAM # "sequentialBits" => (n \in V <=> n \notin Scan!Fail(late))
               /\ n \in Scan!Fail(late) => retention[voltage][n] <= t + Scan!LateBy(n)
               /\ n \notin Scan!Fail(late) => n \in V
    <2> DEFINE x == retention[voltage][n]
               a == late[Scan!Row(n)]
    <2>1. x \in Nat
      <3>1. /\ retention \in [1 .. Voltages -> [W -> Retentions]]
            /\ voltage \in 1 .. Voltages /\ Retentions \subseteq Nat
        BY DEF ScanInv, ScanShape, Scan!TypeOK, Scan!ScanAssumption
      <3> QED
        BY <3>1
    <2>2. /\ a \in Nat /\ a <= Scan!LateBy(n) /\ Scan!LateBy(n) \in Nat
          /\ PROGRAM # "sequentialBits" => a = 0
      BY LateEnough
    <2>3. n \in V <=> x > t
      BY DEF Scan!Valid
    <2>4. n \in Scan!Fail(late) <=> x <= t + a
      BY DEF Scan!Fail
    <2> HIDE DEF x, a, t, V
    <2>5. /\ x <= t + a => x <= t + Scan!LateBy(n)
          /\ ~(x <= t + a) => x > t
          /\ a = 0 => (x > t <=> ~(x <= t + a))
      BY <1>3, <2>1, <2>2
    <2> QED
      BY <2>2, <2>3, <2>4, <2>5 DEF x
  <1>5. /\ decayed \in [W -> Scan!Contents]
        /\ \A n \in W : decayed[n] = Scan!Charged(n) <=> n \notin Scan!Fail(late)
    BY <1>2 DEF Scan!Contents, Scan!Charged
  <1> HIDE DEF Decayed, decayed, t, V
  <1>6. mem' \in [W -> Scan!Contents]
    BY <1>1, <1>5 DEF Scan!AfterPowerOn, Scan!Contents
  <1>7. Scan!Differ' = {n \in W : mem'[n] # Scan!Charged(n)}
    BY DEF Scan!Differ, Scan!Words, Scan!Charged, Scan!Row
  <1>8. Found'
    <2>1. CASE PROGRAM = "sequentialBits"
      <3>1. ASSUME NEW n \in W
            PROVE  IF n \in Scan!Differ' THEN retention[1][n] <= t + Scan!LateBy(n)
                   ELSE n \in Scan!Valid(1, scanDelay)
        <4>1. n \in Scan!Differ' <=> n \in Scan!Fail(late)
          BY <1>1, <1>5, <1>7, <2>1
        <4> QED
          BY <1>3, <1>4, <2>1, <4>1 DEF V
      <3>2. LateLost'
        BY <1>1, <3>1
        DEF LateLost, Scan!Words, Scan!LateBy, Scan!Row, Scan!Valid, t
      <3> QED
        BY <2>1, <3>2 DEF Found
    <2>2. CASE PROGRAM # "sequentialBits"
      <3>1. mem' = [decayed EXCEPT ![1] = "0xF", ![Cols + 1] = "0xF"]
        BY <1>1, <2>2 DEF Scan!AfterPowerOn
      <3>2. /\ 1 \in W /\ Cols + 1 \in W /\ 1 # Cols + 1
            /\ Scan!Charged(1) = "0xF" /\ Scan!Charged(Cols + 1) = "0x0"
        BY GarbageWords
      <3>3. ASSUME NEW n \in W
            PROVE  mem'[n] = Scan!Charged(n) <=>
                       n \in (V \ Scan!Garbage) \union {1}
        <4>1. CASE n = 1
          <5>1. mem'[n] = "0xF"
            BY <1>5, <3>1, <3>2, <4>1
          <5> QED
            BY <3>2, <4>1, <5>1
        <4>2. CASE n = Cols + 1
          <5>1. mem'[n] = "0xF"
            BY <1>5, <3>1, <3>2, <4>2
          <5> QED
            BY <3>2, <4>2, <5>1 DEF Scan!Garbage
        <4>3. CASE n # 1 /\ n # Cols + 1
          <5>1. mem'[n] = decayed[n]
            BY <1>5, <3>1, <4>3
          <5> QED
            BY <1>4, <1>5, <2>2, <4>3, <5>1 DEF Scan!Garbage
        <4> QED
          BY <4>1, <4>2, <4>3
      <3>4. Scan!Differ' = Lost
        BY <1>7, <3>3 DEF Lost, V
      <3>5. Lost' = Lost
        BY <1>1 DEF Lost, Scan!Valid, Scan!Garbage, Scan!Words
      <3> QED
        BY <2>2, <3>4, <3>5 DEF Found
    <2> QED
      BY <2>1, <2>2
  <1>9. ScanShape'
    BY <1>1, <1>6
    DEF ScanInv, ScanShape, Scan!TypeOK, Scan!Words, Scan!Contents, Scan!Steps
  <1>10. Scan!RecordsAreMeasured'
    BY <1>1 DEF ScanInv, Scan!RecordsAreMeasured, Scan!Valid, Scan!Garbage, Scan!Words
  <1>11. FirstSteps'
    BY <1>1 DEF ScanInv, FirstSteps, IsFirstOf, StepsTried, Scan!Words, Scan!Erased,
                Scan!Valid, Scan!LateBy, Scan!Row
  <1> QED
    BY <1>8, <1>9, <1>10, <1>11 DEF ScanInv

\* Each record is measured when it is written.
LEMMA RecordsStay ==
    ASSUME ScanInv, retention' = retention,
           \/ scanLog' = scanLog
           \/ /\ scanLog' = Append(scanLog, [voltage |-> voltage, delay |-> scanDelay,
                                             valid |-> Scan!flipCounter])
              /\ Scan!flipCounter
                   = Cardinality(Scan!Valid(voltage, scanDelay) \ Scan!Garbage) + 1
              /\ Scan!flipCounter \in Int
    PROVE  /\ Scan!RecordsAreMeasured'
           /\ scanLog' \in Seq([voltage : 1 .. Voltages, delay : Scan!Steps, valid : Int])
  <1> DEFINE Entry == [voltage : 1 .. Voltages, delay : Scan!Steps, valid : Int]
             Count(v, d) == Cardinality(Scan!Valid(v, d) \ Scan!Garbage) + 1
             new == [voltage |-> voltage, delay |-> scanDelay,
                     valid |-> Scan!flipCounter]
  <1>1. /\ scanLog \in Seq(Entry)
        /\ voltage \in 1 .. Voltages /\ scanDelay \in Scan!Steps
        /\ \A i \in DOMAIN scanLog :
              scanLog[i].valid = Count(scanLog[i].voltage, scanLog[i].delay)
    BY SameCount DEF ScanInv, ScanShape, Scan!TypeOK, Scan!RecordsAreMeasured
  <1>2. Scan!RecordsAreMeasured' <=>
          \A i \in DOMAIN scanLog' :
              scanLog'[i].valid = Count(scanLog'[i].voltage, scanLog'[i].delay)
    <2>1. \A v, d : Scan!Valid(v, d)' = Scan!Valid(v, d)
      BY DEF Scan!Valid, Scan!Words
    <2> QED
      BY <2>1, SameCount DEF Scan!RecordsAreMeasured, Scan!Garbage, Scan!Valid, Scan!Words
  <1> HIDE DEF Count, Entry
  <1>3. CASE scanLog' = scanLog
    BY <1>1, <1>2, <1>3 DEF Entry
  <1>4. CASE /\ scanLog' = Append(scanLog, new)
             /\ new.valid = Count(voltage, scanDelay)
             /\ Scan!flipCounter \in Int
    <2>1. /\ new \in Entry
          /\ new.valid = Count(new.voltage, new.delay)
      BY <1>1, <1>4 DEF Entry
    <2> HIDE DEF new
    <2>2. scanLog' \in Seq(Entry)
      BY <1>1, <1>4, <2>1
    <2>3. ASSUME NEW i \in DOMAIN scanLog'
          PROVE  scanLog'[i].valid = Count(scanLog'[i].voltage, scanLog'[i].delay)
      <3>1. \/ scanLog'[i] = new
            \/ i \in DOMAIN scanLog /\ scanLog'[i] = scanLog[i]
        <4>1. i \in 1 .. Len(scanLog) + 1
          BY <1>1, <1>4
        <4>2. CASE i \in DOMAIN scanLog
          BY <1>1, <1>4, <4>2
        <4>3. CASE i = Len(scanLog) + 1
          BY <1>1, <1>4, <4>3
        <4> QED
          BY <1>1, <4>1, <4>2, <4>3
      <3> QED
        BY <1>1, <2>1, <3>1
    <2> QED
      BY <1>2, <2>2, <2>3 DEF Entry
  <1> QED
    BY <1>3, <1>4 DEF Count

LEMMA ScanReads ==
    ASSUME Scan!ScanAssumption, ScanInv, Scan!ReadAll
    PROVE  ScanInv'
  <1>1. /\ pc = "read" /\ retention' = retention
        /\ PROGRAM = "sequentialBits" =>
              /\ first' = [n \in Scan!Words |-> IF n \in Scan!FirstFailures
                                                THEN scanDelay ELSE first[n]]
              /\ scanLog' = scanLog
        /\ PROGRAM # "sequentialBits" =>
              scanLog' = Append(scanLog, [voltage |-> voltage, delay |-> scanDelay,
                                          valid |-> Scan!flipCounter])
    BY DEF Scan!ReadAll
  <1>2. \/ /\ pc' = "returned"
           /\ UNCHANGED <<mem, voltage, scanDelay>>
        \/ /\ scanDelay < MaxSteps
           /\ pc' = "write" /\ scanDelay' = scanDelay + 1 /\ voltage' = voltage
           /\ mem' = IF PROGRAM = "sequentialBits" THEN Scan!AfterPowerOn(mem) ELSE mem
        \/ /\ voltage < Voltages
           /\ pc' = "write" /\ scanDelay' = 1 /\ voltage' = voltage + 1 /\ mem' = mem
    BY DEF Scan!ReadAll
  <1>3. /\ mem \in [Scan!Words -> Scan!Contents]
        /\ voltage \in 1 .. Voltages /\ scanDelay \in 1 .. MaxSteps
        /\ Voltages \in Nat \ {0} /\ MaxSteps \in 1 .. 254
        /\ IF PROGRAM = "sequentialBits" THEN LateLost ELSE Scan!Differ = Lost
        /\ retention \in [1 .. Voltages -> [Scan!Words -> Retentions]]
    BY <1>1 DEF ScanInv, ScanShape, Found, Scan!TypeOK, Scan!ScanAssumption, Scan!Steps
  <1>4. Scan!RecordsAreMeasured'
        /\ scanLog' \in Seq([voltage : 1 .. Voltages, delay : Scan!Steps, valid : Int])
    BY <1>1, <1>3, RecordsStay, ValidWords
  <1>5. ScanShape'
    <2>1. mem' \in [Scan!Words -> Scan!Contents]
      <3>1. Scan!AfterPowerOn(mem) \in [Scan!Words -> Scan!Contents]
        BY <1>3 DEF Scan!AfterPowerOn, Scan!Contents
      <3> QED
        BY <1>2, <1>3, <3>1
    <2>2. /\ voltage' \in 1 .. Voltages /\ scanDelay' \in 1 .. MaxSteps
          /\ pc' \in {"write", "returned"}
      BY <1>2, <1>3
    <2> QED
      BY <1>1, <1>3, <1>4, <2>1, <2>2
      DEF ScanShape, Scan!TypeOK, Scan!Words, Scan!Contents, Scan!Steps
  <1>6. FirstSteps'
    <2> SUFFICES ASSUME PROGRAM = "sequentialBits"
                 PROVE  \A n \in Scan!Words : IsFirstOf(n, first'[n], scanDelay)
      <3>1. PROGRAM = "sequentialBits" => StepsTried' = scanDelay
        <4>1. CASE pc' = "returned" /\ scanDelay' = scanDelay
          BY <4>1 DEF StepsTried
        <4>2. CASE pc' = "write" /\ scanDelay' = scanDelay + 1
          BY <1>3, <4>2 DEF StepsTried
        <4>3. PROGRAM = "sequentialBits" => ~(voltage < Voltages)
          BY <1>3 DEF Scan!ScanAssumption
        <4> QED
          BY <1>2, <4>1, <4>2, <4>3
      <3> QED
        BY <1>1, <3>1 DEF FirstSteps, IsFirstOf, Scan!Words, Scan!Erased, Scan!Valid,
                          Scan!LateBy, Scan!Row
    <2>1. ASSUME NEW n \in Scan!Words
          PROVE  IsFirstOf(n, first'[n], scanDelay)
      <3>1. IsFirstOf(n, first[n], scanDelay - 1)
        BY <1>1 DEF ScanInv, FirstSteps, StepsTried
      <3>2. first'[n] = IF n \in Scan!Differ /\ first[n] = Scan!Erased THEN scanDelay
                        ELSE first[n]
        BY <1>1 DEF Scan!FirstFailures
      <3>3. IF n \in Scan!Differ
            THEN retention[1][n] <= scanDelay * STEP + Scan!LateBy(n)
            ELSE n \in Scan!Valid(1, scanDelay)
        BY <1>3 DEF LateLost
      <3>4. scanDelay # Scan!Erased /\ scanDelay \in 1 .. scanDelay
        BY <1>3 DEF Scan!Erased
      <3>5. CASE first[n] = Scan!Erased /\ n \in Scan!Differ
        BY <3>1, <3>2, <3>3, <3>4, <3>5 DEF IsFirstOf
      <3>6. CASE first[n] = Scan!Erased /\ n \notin Scan!Differ
        BY <3>2, <3>3, <3>6 DEF IsFirstOf
      <3>7. CASE first[n] # Scan!Erased
        <4>1. first[n] \in 1 .. scanDelay
          BY <1>3, <3>1, <3>7 DEF IsFirstOf
        <4> QED
          BY <3>1, <3>2, <3>7, <4>1 DEF IsFirstOf
      <3> QED
        BY <3>5, <3>6, <3>7
    <2> QED
      BY <2>1
  <1> QED
    BY <1>2, <1>4, <1>5, <1>6 DEF ScanInv, Found

LEMMA ScanStays ==
    ASSUME ScanInv, UNCHANGED Scan!vars
    PROVE  ScanInv'
  <1>1. UNCHANGED <<retention, mem, pc, voltage, scanDelay, scanLog, first>>
    BY DEF Scan!vars
  <1>2. Found'
    BY <1>1 DEF ScanInv, Found, LateLost, Lost, Scan!Differ, Scan!Words, Scan!Charged,
                Scan!Row, Scan!Valid, Scan!Garbage, Scan!LateBy
  <1>3. ScanShape'
    BY <1>1 DEF ScanInv, ScanShape, Scan!TypeOK, Scan!Words, Scan!Contents, Scan!Steps,
                Scan!Differ, Scan!Charged, Scan!Row
  <1>4. Scan!RecordsAreMeasured'
    BY <1>1 DEF ScanInv, Scan!RecordsAreMeasured, Scan!Valid, Scan!Garbage, Scan!Words
  <1>5. FirstSteps'
    BY <1>1 DEF ScanInv, FirstSteps, IsFirstOf, StepsTried, Scan!Words, Scan!Erased,
                Scan!Valid, Scan!LateBy, Scan!Row
  <1> QED
    BY <1>2, <1>3, <1>4, <1>5 DEF ScanInv

LEMMA ScanInvariance ==
    ASSUME Scan!ScanAssumption
    PROVE  Scan!Spec => []ScanInv
  <1>1. Scan!Init => ScanInv
    BY ScanStarts
  <1>2. ScanInv /\ [Scan!Next]_(Scan!vars) => ScanInv'
    BY ScanWrites, ScanDecays, ScanReads, ScanStays DEF Scan!Next, Scan!Returned
  <1> QED
    BY <1>1, <1>2, PTL DEF Scan!Spec

LEMMA ScanInvSaysSo ==
    ASSUME Scan!ScanAssumption, ScanInv
    PROVE  /\ Scan!TypeOK
           /\ Scan!RecordsAreMeasured /\ Scan!FirstFailureIsLogged
  <1>1. Scan!FirstFailureIsLogged
    BY DEF ScanInv, FirstSteps, IsFirstOf, StepsTried, Scan!FirstFailureIsLogged
  <1> QED
    BY <1>1 DEF ScanInv, ScanShape

-----------------------------------------------------------------------------
(* Whichever program runs.                                                 *)

\* What is in flash is what the cells did when left alone for exactly the delay:
\* the fingerprint, what is left of the image, the first delays at which words or
\* bits fail, or how many words are valid; only of sequentialBits.c, which does not
\* refresh while it reads, when left alone for the delay and no longer than reading
\* takes; for all sizes, delays and chips (the loops of the programs).
THEOREM LogsAreTrue ==
    ASSUME ExperimentAssumption
    PROVE  ExperimentSpec => []LogIsTrue
  <1>1. CASE IsLog
    <2>1. LogAssumptions /\ ~IsMap /\ ~IsScan
      BY <1>1 DEF ExperimentAssumption, LogAssumptions, IsLog, IsMap, IsScan
    <2>2. Log!Spec => []LogInv
      BY <2>1, LogInvariance
    <2>3. LogInv => LogIsTrue
      BY <2>1, LogInvSaysSo DEF LogIsTrue
    <2>4. ExperimentSpec => Log!Spec
      BY <1>1 DEF ExperimentSpec
    <2> QED
      BY <2>2, <2>3, <2>4, PTL
  <1>2. CASE IsMap
    <2>1. MapAssumptions /\ ~IsLog /\ ~IsScan
      BY <1>2 DEF ExperimentAssumption, MapAssumptions, IsLog, IsMap, IsScan
    <2>2. Map!Spec => []MapInv
      BY <2>1, MapInvariance
    <2>3. MapInv => LogIsTrue
      BY <2>1, MapInvSaysSo DEF LogIsTrue
    <2>4. ExperimentSpec => Map!Spec
      BY <1>2 DEF ExperimentSpec
    <2> QED
      BY <2>2, <2>3, <2>4, PTL
  <1>3. CASE IsScan
    <2>1. Scan!ScanAssumption /\ ~IsLog /\ ~IsMap
      BY <1>3 DEF ExperimentAssumption, IsLog, IsMap, IsScan
    <2>2. Scan!Spec => []ScanInv
      BY <2>1, ScanInvariance
    <2>3. ScanInv => LogIsTrue
      BY <2>1, ScanInvSaysSo DEF LogIsTrue
    <2>4. ExperimentSpec => Scan!Spec
      BY <1>3 DEF ExperimentSpec
    <2> QED
      BY <2>2, <2>3, <2>4, PTL
  <1> QED
    BY <1>1, <1>2, <1>3 DEF ExperimentAssumption
===============================================================================

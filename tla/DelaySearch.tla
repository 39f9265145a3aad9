----------------------------- MODULE DelaySearch ------------------------------
(***************************************************************************)
(* dram_bst: the delay after which a given share of the bits of the chip   *)
(* is left, found by binary search and logged in flash with the number of  *)
(* bits left after each delay that was tried.                              *)
(*                                                                         *)
(* A pass over the memory (DecaySchedule has its schedule) is one step: it *)
(* gives the number of bits left after the delay.                          *)
(***************************************************************************)
EXTENDS Integers, Sequences

CONSTANTS
    MIN_DELAY, MAX_DELAY,    \* 0 and 60000 hundredths of a second
    UintRange,               \* an unsigned int is below it: 65536
    TotalBits,               \* of the memory
    TARGET_ACCURACY,         \* bits that are to be left
    MARGIN_OF_ERROR,         \* and how far from it is near enough
    Chips                    \* for each chip, the bits left after each delay

ASSUME DelayAssumption ==
    /\ MIN_DELAY \in Nat /\ MAX_DELAY \in Nat
    /\ MIN_DELAY + 3 <= MAX_DELAY
    /\ UintRange \in Nat /\ MAX_DELAY + 3 < UintRange

ASSUME TargetAssumption ==
    /\ TotalBits \in Nat
    /\ TARGET_ACCURACY \in 0 .. TotalBits
    /\ MARGIN_OF_ERROR \in Nat \ {0}

AllDelays == MIN_DELAY .. MAX_DELAY

\* The longer the delay the fewer bits are left.
ASSUME ChipsAssumption ==
    \A f \in Chips :
        /\ f \in [AllDelays -> 0 .. TotalBits]
        /\ \A d, e \in AllDelays : d <= e => f[e] <= f[d]

VARIABLES
    left,                  \* the chip
    currentMinDelay, currentMaxDelay,
    log,                   \* flash: six bytes each, one behind the other
    result                 \* of main()

vars == <<left, currentMinDelay, currentMaxDelay, log, result>>

Init ==
    /\ left \in Chips
    /\ currentMinDelay = MIN_DELAY
    /\ currentMaxDelay = MAX_DELAY
    /\ log = <<>>
    /\ result = "searching"

\* The sum of two unsigned ints, as one.
Uint(n) == IF n < UintRange THEN n ELSE n - UintRange

\* Mutant: the sum is halved, not the bounds.
HalfOfSum == Uint(currentMinDelay + currentMaxDelay) \div 2

\* The delay of the pass.
delay == currentMinDelay \div 2 + currentMaxDelay \div 2

\* "the number of bit flips is within range".
WithinMargin(n) ==
    (IF n > TARGET_ACCURACY THEN n - TARGET_ACCURACY ELSE TARGET_ACCURACY - n)
        < MARGIN_OF_ERROR

\* Mutant: the bound on the other side moves.
TooMany(n) == n > TARGET_ACCURACY

\* Too few bits are left: the delay is too long.
TooFew(n) == n < TARGET_ACCURACY

\* "Stop the system from oscillating around a value not within the margin".
Oscillates(low, high) == Uint(low + 3) > high

\* writeDelayFlipsToFlash() after each pass, and once more at the end.
Record(n) == [delay |-> delay, left |-> n]

\* A pass, and what follows from it.
Pass ==
    /\ result = "searching"
    /\ LET n == left[delay] IN
       \/ /\ WithinMargin(n)
          /\ result' = "found"
          /\ log' = log \o <<Record(n), Record(n)>>
          /\ UNCHANGED <<currentMinDelay, currentMaxDelay>>
       \/ /\ ~WithinMargin(n)
          /\ IF TooFew(n)
             THEN currentMaxDelay' = delay /\ UNCHANGED currentMinDelay
             ELSE currentMinDelay' = delay /\ UNCHANGED currentMaxDelay
          /\ IF Oscillates(currentMinDelay', currentMaxDelay')
             THEN result' = "stopped" /\ log' = log \o <<Record(n), Record(n)>>
             ELSE result' = "searching" /\ log' = Append(log, Record(n))
    /\ UNCHANGED left

\* main() has returned.
Stopped == result # "searching" /\ UNCHANGED vars

Next == Pass \/ Stopped

Spec == Init /\ [][Next]_vars

-----------------------------------------------------------------------------
\* The bounds are delays, in order.
TypeOK ==
    /\ currentMinDelay \in AllDelays /\ currentMaxDelay \in AllDelays
    /\ currentMinDelay < currentMaxDelay
    /\ result \in {"searching", "found", "stopped"}

Last == log[Len(log)]

\* "Stop searching for a delay when the number of bit flips is within range": what
\* is found is near enough, and the last record says so.
FoundIsTrue ==
    result = "found" =>
        /\ Last = [delay |-> delay, left |-> left[delay]]
        /\ Last.left - TARGET_ACCURACY < MARGIN_OF_ERROR
        /\ TARGET_ACCURACY - Last.left < MARGIN_OF_ERROR

\* The search gives up only if no delay would do, those apart that it cannot try:
\* the ends of the range, and the one that may be left between the bounds.
StopIsJustified ==
    result = "stopped" =>
        \A d \in AllDelays :
            WithinMargin(left[d]) =>
                \/ d \in {MIN_DELAY, MAX_DELAY}
                \/ currentMinDelay < d /\ d < currentMaxDelay

\* What main() returns with is so: the delay it found, or that there is none it
\* could have found.
SearchIsRight == FoundIsTrue /\ StopIsJustified

\* Every pass tries a delay that lies between the bounds: the search ends.
AlwaysCloser ==
    [][currentMaxDelay' - currentMinDelay' < currentMaxDelay - currentMinDelay
         \/ result' # "searching"]_vars
=============================================================================

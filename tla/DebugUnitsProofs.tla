--------------------------- MODULE DebugUnitsProofs ---------------------------
(***************************************************************************)
(* Proofs about the bursts of the advanced debug unit and the accesses of  *)
(* the legacy one, for any memory, chains, faults and numbers of retries.  *)
(***************************************************************************)
EXTENDS DebugUnits, TLAPS

-----------------------------------------------------------------------------
(* Bursts.  A word is right when a read has put it into the buffer, or a   *)
(* write into the memory.                                                  *)

Right(k) ==
    IF fun = "read" THEN data[k] = Old(start + k) ELSE memory[start + k] = k

\* The first n words are right, or there is a sign that one is not: the CRC, or
\* the error register at or before it.
RightOrTold(n) ==
    \A k \in 0 .. n - 1 :
        \/ Right(k)
        \/ ~crc
        \/ error_reg # NoAddress /\ error_reg <= start + k

BurstShape ==
    /\ pc \in {"command", "status", "read", "write", "crc", "error", "returned",
               "exited"}
    /\ fun \in {"read", "write"}
    /\ start \in Addresses /\ count \in 1 .. Size - start
    /\ i \in 0 .. count /\ addr \in Nat
    /\ polls \in 0 .. MAX_STATUS + 1
    /\ crc \in BOOLEAN
    /\ bus_errors \in 0 .. MAX_BUS_ERRORS + 1
    /\ current_chain = "DC_WISHBONE" \/ XILINX
    /\ unit.left \in 0 .. count
    /\ error_reg \in Block \union {NoAddress}
    /\ XILINX => error_reg = NoAddress
    /\ data \in [0 .. count - 1 -> Int]
    /\ memory \in [Addresses -> Int]
    /\ faults \in Nat

\* Where the unit is when words are transferred: where the program is.
Position ==
    /\ pc = "command" => i < count /\ addr = start + i /\ error_reg = NoAddress
    /\ pc \in {"status", "read", "write"} =>
           /\ pc = "write" <=> fun = "write"
           /\ i < count
           /\ unit = [addr |-> start + i, left |-> count - i]
           /\ error_reg # NoAddress => ~HISPEED /\ error_reg < start + i
    /\ pc = "crc" => unit.left = 0
    /\ pc = "error" => crc
    /\ pc \notin {"returned", "exited"} =>
           bus_errors <= MAX_BUS_ERRORS /\ polls <= MAX_STATUS

WordsRight ==
    /\ fun = "read" => \A a \in Addresses : memory[a] = Old(a)
    /\ WriteStaysInside
    /\ pc = "command" => \A k \in 0 .. i - 1 : Right(k)
    /\ pc \in {"status", "read", "write"} => RightOrTold(i)
    /\ pc \in {"crc", "error"} => RightOrTold(count)
    /\ pc = "returned" /\ err = {} => \A k \in 0 .. count - 1 : Right(k)

\* An error is returned only after a fault, a time-out, a CRC that is wrong or
\* too many errors of the bus.
ErrorsHaveCauses ==
    faults = 0 =>
        /\ pc \notin {"returned", "exited"} => err = {}
        /\ pc = "exited" => ~crc
        /\ pc = "returned" /\ err # {} =>
               polls > MAX_STATUS \/ ~crc \/ bus_errors > MAX_BUS_ERRORS

BurstInv == BurstShape /\ Position /\ WordsRight /\ ErrorsHaveCauses

\* Until something that no CRC protects is damaged.
UntilGarbled == garbled \/ BurstInv

\* Reads on Xilinx parts return without a look at the error register.
NoBusOnXilinx == XILINX => "bus" \notin Faults

-----------------------------------------------------------------------------
(* The word on the bus.                                                    *)

\* The numbers of a call.
LEMMA Numbers ==
    ASSUME BurstShape
    PROVE  /\ Size \in Nat /\ MAX_STATUS \in Nat /\ MAX_BUS_ERRORS \in Nat
           /\ start \in Nat /\ count \in Nat /\ count >= 1 /\ start + count <= Size
           /\ i \in Nat /\ i <= count
           /\ unit.left \in Nat /\ unit.left <= count
           /\ error_reg # NoAddress => error_reg \in Nat /\ start <= error_reg
                                      /\ error_reg < start + count
<1>1. Size \in Nat \ {0} /\ MAX_STATUS \in Nat /\ MAX_BUS_ERRORS \in Nat
  BY BurstAssumption
<1>2. start \in 0 .. Size - 1 /\ count \in 1 .. Size - start
  BY DEF BurstShape, Addresses
<1>3. i \in 0 .. count /\ unit.left \in 0 .. count
  BY DEF BurstShape
<1>4. error_reg # NoAddress => error_reg \in start .. start + count - 1
  BY DEF BurstShape, Block
<1>5. QED
  BY <1>1, <1>2, <1>3, <1>4 DEF Addresses, Block, NoAddress

\* A transfer of n words of which the words bad fail leaves the error register as
\* it was, or holding the address of the first error, within the burst.
LEMMA ErrorsAreNoted ==
    ASSUME BurstShape, NoBusOnXilinx, NEW n \in Nat, NEW bad \in BusErrors(n),
           NEW e \in ErrorAfter(bad), unit.addr \in Nat,
           unit.addr >= start, unit.addr + unit.left = start + count
    PROVE  /\ e \in Block \union {NoAddress}
           /\ XILINX => e = NoAddress
           /\ error_reg # NoAddress => e = error_reg
           /\ error_reg = NoAddress /\ e # NoAddress => e >= unit.addr
           /\ error_reg = NoAddress => \A k \in bad : e # NoAddress /\ e <= unit.addr + k
           /\ OnBus(n) \in 0 .. unit.left /\ OnBus(n) <= n
           /\ bad \subseteq 0 .. OnBus(n) - 1
<1>1. OnBus(n) \in 0 .. unit.left /\ OnBus(n) <= n
  <2>1. unit.left \in Nat
    BY Numbers
  <2>2. CASE n < unit.left
    BY <2>1, <2>2 DEF OnBus
  <2>3. CASE ~(n < unit.left)
    BY <2>1, <2>3 DEF OnBus
  <2>4. QED
    BY <2>2, <2>3
<1>2. bad \subseteq 0 .. OnBus(n) - 1 /\ (bad # {} => "bus" \in Faults)
  BY DEF BusErrors
<1>3. CASE bad = {}
  BY <1>1, <1>2, <1>3 DEF ErrorAfter, BurstShape
<1>4. CASE bad # {}
  <2>1. PICK k \in bad : (\A l \in bad : k <= l) /\ e = FirstError(unit.addr + k)
    BY <1>4 DEF ErrorAfter
  <2>2. k \in 0 .. OnBus(n) - 1 /\ unit.addr + k \in Block /\ unit.addr + k # NoAddress
    <3>1. k \in 0 .. OnBus(n) - 1
      BY <1>2
    <3> DEFINE m == OnBus(n)
               u == unit.addr
               l == unit.left
    <3>2. /\ m \in 0 .. l /\ k \in 0 .. m - 1 /\ u \in Nat /\ l \in Nat
          /\ u >= start /\ u + l = start + count
          /\ start \in Nat /\ count \in Nat
      BY <1>1, <3>1, Numbers
    <3> HIDE DEF m, u, l
    <3>3. /\ u + k >= start /\ u + k <= start + count - 1 /\ u + k \in Nat
      BY <3>2
    <3>4. u + k \in Block /\ u + k # NoAddress
      BY <3>2, <3>3, Numbers DEF Block, NoAddress
    <3>5. QED
      BY <3>1, <3>4 DEF u
  <2>3. ~XILINX
    BY <1>2, <1>4 DEF NoBusOnXilinx
  <2>4. CASE error_reg = NoAddress
    <3>1. e = unit.addr + k
      BY <2>1, <2>4 DEF FirstError
    <3>2. \A l \in bad : e <= unit.addr + l
      BY <1>1, <1>2, <2>1, <2>2, <3>1
    <3>3. QED
      BY <1>1, <1>2, <2>2, <2>3, <2>4, <3>1, <3>2
  <2>5. CASE error_reg # NoAddress
    BY <1>1, <1>2, <2>1, <2>3, <2>5 DEF FirstError, BurstShape
  <2>6. QED
    BY <2>4, <2>5
<1>5. QED
  BY <1>3, <1>4

\* The unit is where the program is: what one word does, or the whole stream.
LEMMA UnitFollows ==
    ASSUME BurstShape, i < count, unit = [addr |-> start + i, left |-> count - i]
    PROVE  /\ unit.addr = start + i /\ unit.left = count - i
           /\ unit.addr \in Nat /\ unit.addr >= start
           /\ unit.addr + unit.left = start + count
           /\ unit.left = count => i = 0 /\ unit.addr = start
           /\ OnBus(1) = 1 /\ OnBus(count) = unit.left
           /\ Advanced(1) = [addr |-> start + (i + 1), left |-> count - (i + 1)]
           /\ Advanced(OnBus(count)).left = 0
           /\ unit.addr .. unit.addr + OnBus(1) - 1 \subseteq Block
           /\ unit.addr .. unit.addr + OnBus(count) - 1 \subseteq Block
<1> DEFINE a == unit.addr
           l == unit.left
<1>1. /\ a = start + i /\ l = count - i
      /\ start \in Nat /\ i \in Nat /\ count \in Nat /\ i < count
  BY Numbers
<1>2. /\ OnBus(1) = IF 1 < l THEN 1 ELSE l
      /\ OnBus(count) = IF count < l THEN count ELSE l
      /\ Advanced(1) = [addr |-> a + 1, left |-> l - 1]
      /\ Advanced(OnBus(count)).left = l - OnBus(count)
  BY DEF OnBus, Advanced
<1> HIDE DEF a, l
<1>3. a \in Nat /\ l \in Nat /\ l >= 1 /\ l <= count
  BY <1>1
<1>4. OnBus(1) = 1
  BY <1>2, <1>3
<1>5. OnBus(count) = l
  BY <1>1, <1>2, <1>3
<1>6. l = count => i = 0 /\ a = start
  BY <1>1
<1>7. a + 1 = start + (i + 1) /\ l - 1 = count - (i + 1) /\ l - l = 0
      /\ a >= start /\ a + l = start + count
  BY <1>1, <1>3
<1>8. Advanced(1) = [addr |-> start + (i + 1), left |-> count - (i + 1)]
  BY <1>2, <1>7
<1>9. Advanced(OnBus(count)).left = 0
  BY <1>2, <1>5, <1>7
<1>10. a .. a + 1 - 1 \subseteq Block /\ a .. a + l - 1 \subseteq Block
  <2>1. Block = start .. start + count - 1
    BY DEF Block
  <2>2. QED
    BY <1>1, <1>3, <2>1
<1>11. QED
  BY <1>1, <1>3, <1>4, <1>5, <1>6, <1>7, <1>8, <1>9, <1>10 DEF a, l

\* Words read are words of the memory, or junk.
LEMMA ReadsAreWords ==
    ASSUME BurstShape, NEW n, NEW bad
    PROVE  BusRead(n, bad) \in [0 .. n - 1 -> Int]
<1>1. ASSUME NEW k \in 0 .. n - 1
      PROVE  (IF k < unit.left /\ k \notin bad /\ unit.addr + k \in Addresses
              THEN memory[unit.addr + k] ELSE Junk) \in Int
  BY DEF BurstShape, Junk
<1>2. QED
  BY <1>1 DEF BusRead

\* A transfer of one word: an error is noted at its address, unless one was noted
\* before it.
LEMMA WordErrors ==
    ASSUME BurstShape, NoBusOnXilinx, NEW bad \in BusErrors(1), NEW e \in ErrorAfter(bad),
           i < count, unit = [addr |-> start + i, left |-> count - i],
           error_reg # NoAddress => error_reg < start + i
    PROVE  /\ e \in Block \union {NoAddress}
           /\ XILINX => e = NoAddress
           /\ error_reg # NoAddress => e = error_reg
           /\ e # NoAddress => e < start + (i + 1)
           /\ bad # {} => e # NoAddress /\ e <= start + i
           /\ bad = {} \/ bad = {0}
<1>1. /\ unit.addr = start + i /\ unit.addr \in Nat /\ unit.addr >= start
      /\ unit.addr + unit.left = start + count /\ OnBus(1) = 1
  BY UnitFollows
<1>2. /\ e \in Block \union {NoAddress}
      /\ XILINX => e = NoAddress
      /\ error_reg # NoAddress => e = error_reg
      /\ error_reg = NoAddress => \A k \in bad : e # NoAddress /\ e <= unit.addr + k
      /\ bad \subseteq 0 .. 1 - 1
  BY <1>1, ErrorsAreNoted
<1>3. 0 .. 1 - 1 = {0} /\ unit.addr + 0 = start + i /\ start + i \in Nat
      /\ start \in Nat /\ i \in Nat
  BY <1>1, Numbers
<1>4. bad = {} \/ bad = {0}
  BY <1>2, <1>3
<1>5. bad = {} /\ error_reg = NoAddress => e = NoAddress
  BY DEF ErrorAfter
<1>6. error_reg = NoAddress /\ bad # {} => e # NoAddress /\ e <= start + i
  BY <1>2, <1>3, <1>4
<1>7. error_reg # NoAddress => e = error_reg /\ e \in Nat /\ e < start + i
  BY <1>2, Numbers
<1>8. e # NoAddress => e \in Nat
  BY <1>2, Numbers DEF Block, NoAddress
<1>9. /\ e # NoAddress => e < start + (i + 1)
      /\ bad # {} => e # NoAddress /\ e <= start + i
  BY <1>3, <1>5, <1>6, <1>7, <1>8
<1>10. QED
  BY <1>2, <1>4, <1>9

\* What is written are numbers, where the burst is.
LEMMA WritesAreWords ==
    ASSUME BurstShape, unit.addr \in Nat, NEW n, NEW first \in Nat, NEW bad,
           OnBus(n) \in Nat
    PROVE  /\ BusWrite(n, first, bad) \in [Addresses -> Int]
           /\ \A a \in Addresses : a \notin unit.addr .. unit.addr + OnBus(n) - 1 =>
                  BusWrite(n, first, bad)[a] = memory[a]
<1> DEFINE New(a) ==
        IF a \in unit.addr .. unit.addr + OnBus(n) - 1 /\ a - unit.addr \notin bad
        THEN first + (a - unit.addr) ELSE memory[a]
<1>1. BusWrite(n, first, bad) = [a \in Addresses |-> New(a)]
  BY DEF BusWrite
<1>2. ASSUME NEW a \in Addresses
      PROVE  New(a) \in Int
  <2>1. a \in Nat
    BY Numbers DEF Addresses
  <2>2. memory[a] \in Int
    BY DEF BurstShape
  <2>3. first + (a - unit.addr) \in Int
    BY <2>1
  <2>4. QED
    BY <2>2, <2>3
<1>3. \A a \in Addresses : a \notin unit.addr .. unit.addr + OnBus(n) - 1 =>
          New(a) = memory[a]
  OBVIOUS
<1> HIDE DEF New
<1>4. QED
  BY <1>1, <1>2, <1>3

\* So is what is written when a bit flips.
LEMMA FlippedWordsAreWords ==
    ASSUME BurstShape, unit.addr \in Nat, NEW n, NEW first \in Nat,
           NEW k \in 0 .. OnBus(n) - 1, OnBus(n) \in Nat
    PROVE  /\ WriteFlipped(n, first, k) \in [Addresses -> Int]
           /\ \A a \in Addresses : a \notin unit.addr .. unit.addr + OnBus(n) - 1 =>
                  WriteFlipped(n, first, k)[a] = memory[a]
<1>1. unit.addr + k \in unit.addr .. unit.addr + OnBus(n) - 1
  OBVIOUS
<1> DEFINE w == BusWrite(n, first, {})
           b == unit.addr + k
<1>2. w \in [Addresses -> Int] /\ WriteFlipped(n, first, k) = [w EXCEPT ![b] = Junk]
  BY WritesAreWords DEF WriteFlipped
<1>3. \A a \in Addresses : a \notin unit.addr .. unit.addr + OnBus(n) - 1 =>
          a # b /\ w[a] = memory[a]
  BY <1>1, WritesAreWords
<1> HIDE DEF w, b
<1>4. Junk \in Int
  BY DEF Junk
<1>5. QED
  BY <1>2, <1>3, <1>4

-----------------------------------------------------------------------------
(* The steps of a burst.                                                   *)

\* What is right stays right while data and memory do.
LEMMA RightStays ==
    ASSUME UNCHANGED <<fun, start, data, memory>>, NEW k
    PROVE  Right(k)' <=> Right(k)
BY DEF Right

LEMMA CommandStep ==
    ASSUME BurstInv, BurstCommand, ~garbled'
    PROVE  BurstInv'
<1> USE DEF BurstInv
<1>1. /\ pc = "command" /\ UNCHANGED <<fun, start, count, data, i, addr, bus_errors,
                                      error_reg, memory>>
  BY DEF BurstCommand, callVars
<1>2. i < count /\ addr = start + i /\ error_reg = NoAddress
      /\ bus_errors <= MAX_BUS_ERRORS /\ polls <= MAX_STATUS
  BY <1>1 DEF Position
<1>3. \A k \in 0 .. i - 1 : Right(k)'
  BY <1>1, RightStays DEF WordsRight
<1>4. CASE /\ unit' = [addr |-> addr, left |-> BurstLength]
           /\ polls' = 0 /\ crc' = TRUE
           /\ current_chain' = IF fun = "read" THEN ChainAfterCommand ELSE current_chain
           /\ pc' = AfterCommand
           /\ UNCHANGED <<err, faults>>
  <2> i < count /\ i \in Nat /\ count \in Nat
    BY <1>2, Numbers
  <2>0. AfterCommand = IF fun = "read" THEN "status" ELSE "write"
    BY DEF AfterCommand
  <2>1. BurstShape'
    <3>1. unit'.left \in 0 .. count /\ 0 \in 0 .. MAX_STATUS + 1
      BY <1>2, <1>4, Numbers DEF BurstLength
    <3>2. current_chain' = "DC_WISHBONE" \/ XILINX
      BY <1>4 DEF BurstShape, ChainAfterCommand
    <3>3. QED
      BY <1>1, <1>4, <2>0, <3>1, <3>2 DEF BurstShape, Block
  <2>2. Position'
    <3>1. unit' = [addr |-> start + i, left |-> count - i] /\ polls' <= MAX_STATUS
      BY <1>2, <1>4, Numbers DEF BurstLength
    <3>2. pc' \in {"status", "write"} /\ (pc' = "write" <=> fun = "write")
      BY <1>4, <2>0 DEF BurstShape
    <3>3. QED
      BY <1>1, <1>2, <3>1, <3>2 DEF Position
  <2>3. WordsRight'
    BY <1>1, <1>3, <1>4, <2>0 DEF WordsRight, RightOrTold, WriteStaysInside, Block
  <2>4. ErrorsHaveCauses'
    BY <1>1, <1>4, <2>0 DEF ErrorsHaveCauses
  <2>5. QED
    BY <2>1, <2>2, <2>3, <2>4
<1>5. CASE /\ Fault("cable")
           /\ Return({"COMM"})
           /\ UNCHANGED <<unit, tap, polls, crc, current_chain>>
  <2>1. faults' = faults + 1 /\ pc' = "returned" /\ err' # {}
    BY <1>5 DEF Fault, Return
  <2>2. BurstShape' /\ faults' # 0
    BY <1>1, <1>5, <2>1 DEF BurstShape, Block
  <2>3. QED
    BY <1>1, <1>5, <2>1, <2>2
       DEF Position, WordsRight, WriteStaysInside, Block, ErrorsHaveCauses
<1>6. QED
  BY <1>4, <1>5 DEF BurstCommand

LEMMA StatusStep ==
    ASSUME BurstInv, PollStatus
    PROVE  BurstInv'
<1> USE DEF BurstInv
<1>1. /\ pc = "status"
      /\ UNCHANGED <<fun, start, count, data, i, addr, crc, bus_errors, current_chain,
                     unit, error_reg, memory, faults>>
  BY DEF PollStatus, callVars
<1>2. \A k : Right(k)' <=> Right(k)
  BY <1>1, RightStays
<1>3. RightOrTold(i)' /\ (fun = "read" => \A a \in Addresses : memory'[a] = Old(a))
      /\ WriteStaysInside'
  BY <1>1, <1>2 DEF WordsRight, RightOrTold, WriteStaysInside, Block
<1>4. polls \in Nat /\ polls <= MAX_STATUS /\ MAX_STATUS \in Nat
      /\ bus_errors <= MAX_BUS_ERRORS
  BY <1>1, Numbers DEF BurstShape, Position
<1>5. CASE pc' = "read" /\ UNCHANGED <<polls, err>>
  <2>1. BurstShape' /\ Position'
    BY <1>1, <1>4, <1>5 DEF BurstShape, Position, Block
  <2>2. QED
    BY <1>1, <1>3, <1>5, <2>1 DEF WordsRight, ErrorsHaveCauses
<1>6. CASE polls' = polls + 1 /\ ~TimedOut(polls') /\ UNCHANGED <<pc, err>>
  <2>1. polls' \in 0 .. MAX_STATUS + 1 /\ polls' <= MAX_STATUS
    BY <1>4, <1>6 DEF TimedOut
  <2>2. BurstShape' /\ Position'
    BY <1>1, <1>4, <1>6, <2>1 DEF BurstShape, Position, Block
  <2>3. QED
    BY <1>1, <1>3, <1>6, <2>2 DEF WordsRight, ErrorsHaveCauses
<1>7. CASE polls' = polls + 1 /\ TimedOut(polls') /\ Return({"MAX_RETRY"})
  <2>1. polls' \in 0 .. MAX_STATUS + 1 /\ polls' > MAX_STATUS
    BY <1>4, <1>7 DEF TimedOut
  <2>2. pc' = "returned" /\ err' # {}
    BY <1>7 DEF Return
  <2>3. BurstShape' /\ Position'
    BY <1>1, <2>1, <2>2 DEF BurstShape, Position, Block
  <2>4. QED
    BY <1>1, <1>3, <2>1, <2>2, <2>3 DEF WordsRight, ErrorsHaveCauses
<1>8. QED
  BY <1>5, <1>6, <1>7 DEF PollStatus

\* All words in one stream: only if the burst has as many does its CRC match.
LEMMA StreamReads ==
    ASSUME BurstInv, NoBusOnXilinx, ReadStream
    PROVE  BurstInv'
<1> USE DEF BurstInv
<1>1. /\ pc = "read" /\ HISPEED /\ pc' = "crc"
      /\ UNCHANGED <<fun, start, count, i, addr, polls, bus_errors, current_chain,
                     memory>>
      /\ unit' = Advanced(OnBus(count))
  BY DEF ReadStream, callVars
<1>2. /\ fun = "read" /\ i < count /\ error_reg = NoAddress
      /\ unit = [addr |-> start + i, left |-> count - i]
      /\ bus_errors <= MAX_BUS_ERRORS /\ polls <= MAX_STATUS
      /\ \A a \in Addresses : memory[a] = Old(a)
  BY <1>1 DEF Position, WordsRight, BurstShape
<1>3. /\ unit.addr = start + i /\ unit.left = count - i
      /\ unit.addr \in Nat /\ unit.addr >= start
      /\ unit.addr + unit.left = start + count
  BY <1>2, UnitFollows
<1>4. unit'.left = 0
  BY <1>1, <1>2, UnitFollows
<1>5. WriteStaysInside' /\ \A a \in Addresses : memory'[a] = Old(a)
  BY <1>1, <1>2 DEF WordsRight, WriteStaysInside, Block
<1>6. ASSUME data' \in [0 .. count - 1 -> Int], crc' \in BOOLEAN,
             error_reg' \in Block \union {NoAddress}, XILINX => error_reg' = NoAddress,
             faults' \in Nat, RightOrTold(count)', faults' = 0 => err' = err /\ faults = 0
      PROVE  BurstInv'
  <2>1. BurstShape'
    <3>1. unit'.left \in 0 .. count
      BY <1>4, Numbers
    <3>2. QED
      BY <1>1, <1>6, <3>1 DEF BurstShape, Block
  <2>2. Position'
    BY <1>1, <1>2, <1>4 DEF Position
  <2>3. WordsRight'
    BY <1>1, <1>2, <1>5, <1>6 DEF WordsRight
  <2>4. ErrorsHaveCauses'
    BY <1>1, <1>6 DEF ErrorsHaveCauses
  <2>5. QED
    BY <2>1, <2>2, <2>3, <2>4
<1>7. ASSUME NEW bad \in BusErrors(count),
             data' = BusRead(count, bad), crc' = (unit.left = count),
             error_reg' \in ErrorAfter(bad), UNCHANGED <<faults, err>>
      PROVE  BurstInv'
  <2>1. /\ error_reg' \in Block \union {NoAddress} /\ (XILINX => error_reg' = NoAddress)
        /\ \A k \in bad : error_reg' # NoAddress /\ error_reg' <= unit.addr + k
    BY <1>2, <1>3, <1>7, Numbers, ErrorsAreNoted
  <2>2. data' \in [0 .. count - 1 -> Int]
    BY <1>7, ReadsAreWords
  <2>3. ASSUME NEW k \in 0 .. count - 1, i = 0, k \notin bad
        PROVE  Right(k)'
    <3>1. unit.addr + k \in Addresses /\ k < unit.left /\ unit.addr + k = start + k
      BY <1>3, <2>3, Numbers DEF Addresses
    <3>2. data'[k] = Old(start + k)
      BY <1>2, <1>7, <2>3, <3>1 DEF BusRead
    <3>3. QED
      BY <1>1, <1>2, <3>2 DEF Right
  <2>4. crc' => i = 0 /\ unit.addr = start
    <3>1. crc' => unit.left = count
      BY <1>7
    <3>2. unit.left = count => i = 0 /\ unit.addr = start
      BY <1>2, UnitFollows
    <3>3. QED
      BY <3>1, <3>2
  <2>5. RightOrTold(count)'
    BY <1>1, <2>1, <2>3, <2>4 DEF RightOrTold
  <2>6. QED
    BY <1>6, <1>7, <2>1, <2>2, <2>5 DEF BurstShape
<1>8. ASSUME data' = [k \in DOMAIN data |-> Junk], crc' = FALSE, UNCHANGED error_reg,
             faults' = faults + 1
      PROVE  BurstInv'
  <2>1. data' \in [0 .. count - 1 -> Int] /\ faults' \in Nat /\ faults' # 0
    BY <1>8 DEF BurstShape, Junk
  <2>2. error_reg' \in Block \union {NoAddress} /\ (XILINX => error_reg' = NoAddress)
    BY <1>8 DEF BurstShape
  <2>3. RightOrTold(count)'
    BY <1>8 DEF RightOrTold
  <2>4. QED
    BY <1>6, <1>8, <2>1, <2>2, <2>3
<1>9. QED
  BY <1>7, <1>8 DEF ReadStream, Fault

\* One word, which is read again if it is not the last.
LEMMA WordReads ==
    ASSUME BurstInv, NoBusOnXilinx, ReadWord
    PROVE  BurstInv'
<1> USE DEF BurstInv
<1>1. /\ pc = "read" /\ ~HISPEED
      /\ UNCHANGED <<fun, start, count, addr, bus_errors, current_chain, memory>>
  BY DEF ReadWord, callVars
<1>2. /\ fun = "read" /\ i < count /\ RightOrTold(i)
      /\ unit = [addr |-> start + i, left |-> count - i]
      /\ error_reg # NoAddress => error_reg < start + i
      /\ bus_errors <= MAX_BUS_ERRORS /\ polls <= MAX_STATUS
      /\ \A a \in Addresses : memory[a] = Old(a)
  BY <1>1 DEF Position, WordsRight, BurstShape
<1>3. /\ unit.addr = start + i /\ unit.left = count - i
      /\ unit.addr \in Nat /\ unit.addr >= start
      /\ unit.addr + unit.left = start + count
  BY <1>2, UnitFollows
<1>4. WriteStaysInside' /\ \A a \in Addresses : memory'[a] = Old(a)
  BY <1>1, <1>2 DEF WordsRight, WriteStaysInside, Block
<1>5. ASSUME Fault("cable"), Return({"COMM", "MAX_RETRY"}),
             UNCHANGED <<data, crc, error_reg, unit, i, polls>>
      PROVE  BurstInv'
  <2>1. faults' = faults + 1 /\ pc' = "returned" /\ err' # {}
    BY <1>5 DEF Fault, Return
  <2>2. BurstShape' /\ faults' # 0
    BY <1>1, <1>5, <2>1 DEF BurstShape, Block
  <2>3. QED
    BY <1>1, <1>4, <1>5, <2>1, <2>2 DEF Position, WordsRight, ErrorsHaveCauses
<1>6. ASSUME NEW bad \in BusErrors(1), NEW flip \in BOOLEAN,
             flip => bad = {},
             data' = [data EXCEPT ![i] = IF flip THEN Junk ELSE BusRead(1, bad)[0]],
             crc' = (crc /\ ~flip),
             error_reg' \in ErrorAfter(bad),
             unit' = Advanced(1), i' = i + 1, polls' = 0,
             pc' = IF i' < count THEN "status" ELSE "crc",
             faults' = faults + (IF flip THEN 1 ELSE 0), err' = err
      PROVE  BurstInv'
  <2>1. /\ error_reg' \in Block \union {NoAddress} /\ (XILINX => error_reg' = NoAddress)
        /\ error_reg # NoAddress => error_reg' = error_reg
        /\ error_reg' # NoAddress => error_reg' < start + (i + 1)
        /\ bad # {} => error_reg' # NoAddress /\ error_reg' <= start + i
        /\ bad = {} \/ bad = {0}
    BY <1>2, <1>6, WordErrors
  <2>2. unit' = [addr |-> start + i', left |-> count - i'] /\ i' \in 0 .. count
    <3>1. unit' = [addr |-> start + (i + 1), left |-> count - (i + 1)] /\ i' = i + 1
      BY <1>2, <1>6, UnitFollows
    <3>2. i + 1 \in 0 .. count
      BY <1>2, Numbers
    <3>3. QED
      BY <3>1, <3>2
  <2>3. BusRead(1, bad)[0] \in Int
    BY ReadsAreWords
  <2>4. BurstShape'
    <3>1. data' \in [0 .. count - 1 -> Int]
      <4>1. (IF flip THEN Junk ELSE BusRead(1, bad)[0]) \in Int
        BY <2>3 DEF Junk
      <4>2. QED
        BY <1>6, <4>1 DEF BurstShape
    <3>2. unit'.left \in 0 .. count
      BY <2>2, Numbers
    <3>3. faults' \in Nat /\ crc' \in BOOLEAN /\ polls' \in 0 .. MAX_STATUS + 1
      BY <1>6, Numbers DEF BurstShape
    <3>4. QED
      BY <1>1, <1>6, <2>1, <2>2, <3>1, <3>2, <3>3 DEF BurstShape, Block
  <2>5. error_reg' # NoAddress => error_reg' < start + i'
    BY <1>6, <2>1
  <2>6. \A k \in 0 .. i - 1 : data'[k] = data[k]
    BY <1>6, Numbers DEF BurstShape
  <2>7. ASSUME NEW k \in 0 .. i - 1
        PROVE  \/ Right(k)'
               \/ ~crc'
               \/ error_reg' # NoAddress /\ error_reg' <= start + k
    <3>1. Right(k)' <=> Right(k)
      BY <1>1, <1>2, <2>6 DEF Right
    <3>2. QED
      BY <1>2, <1>6, <2>1, <3>1 DEF RightOrTold
  <2>8. ASSUME NEW k, k = i
        PROVE  \/ Right(k)'
               \/ ~crc'
               \/ error_reg' # NoAddress /\ error_reg' <= start + k
    <3>1. CASE flip
      BY <1>6, <3>1
    <3>2. CASE bad # {}
      BY <2>1, <2>8, <3>2
    <3>3. CASE ~flip /\ bad = {}
      <4>1. 0 < unit.left /\ unit.addr + 0 = start + i /\ start + i \in Addresses
        <5>1. unit.left = count - i /\ start \in Nat /\ count \in Nat /\ i \in Nat
              /\ unit.addr = start + i /\ start + count <= Size
          BY <1>3, Numbers
        <5>2. 0 < count - i /\ start + i + 0 = start + i /\ start + i \in 0 .. Size - 1
          BY <1>2, <5>1, Numbers
        <5>3. QED
          BY <5>1, <5>2, Numbers DEF Addresses
      <4>2. BusRead(1, bad)[0] = Old(start + i)
        BY <1>2, <3>3, <4>1 DEF BusRead
      <4>3. data'[i] = Old(start + i)
        BY <1>2, <1>6, <3>3, <4>2, Numbers DEF BurstShape
      <4>4. QED
        BY <1>1, <1>2, <2>8, <4>3 DEF Right
    <3>4. QED
      BY <3>1, <3>2, <3>3
  <2>9. RightOrTold(i)'
    <3>1. \A k \in 0 .. i' - 1 : k \in 0 .. i - 1 \/ k = i
      BY <1>6, Numbers
    <3>2. QED
      BY <1>1, <2>7, <2>8, <3>1 DEF RightOrTold
  <2>10. Position'
    <3>1. i' < count => pc' = "status"
      BY <1>6
    <3>2. ~(i' < count) => pc' = "crc" /\ i' = count /\ unit'.left = 0
      <4>1. ~(i' < count) => pc' = "crc" /\ i' = count
        BY <1>6, <2>2, Numbers
      <4>2. count - count = 0
        BY Numbers
      <4>3. QED
        BY <2>2, <4>1, <4>2
    <3>3. QED
      BY <1>1, <1>2, <1>6, <2>2, <2>5, <3>1, <3>2, Numbers DEF Position
  <2>11. WordsRight'
    <3>1. ~(i' < count) => pc' = "crc" /\ i' = count
      BY <1>6, <2>2, Numbers
    <3>2. QED
      BY <1>1, <1>2, <1>4, <1>6, <2>9, <3>1 DEF WordsRight
  <2>12. ErrorsHaveCauses'
    <3>1. faults' = 0 => faults = 0
      BY <1>6 DEF BurstShape
    <3>2. QED
      BY <1>1, <1>6, <3>1 DEF ErrorsHaveCauses
  <2>13. QED
    BY <2>4, <2>10, <2>11, <2>12
<1>7. ~(i < 0)
  BY Numbers
<1>8. QED
  BY <1>5, <1>6, <1>7 DEF ReadWord

\* All words in one stream: as for a read.
LEMMA StreamWrites ==
    ASSUME BurstInv, NoBusOnXilinx, WriteStream
    PROVE  BurstInv'
<1> USE DEF BurstInv
<1>1. /\ pc = "write" /\ HISPEED /\ pc' = "crc"
      /\ UNCHANGED <<fun, start, count, data, i, addr, polls, bus_errors, current_chain>>
      /\ unit' = Advanced(OnBus(count))
  BY DEF WriteStream, callVars
<1>2. /\ fun = "write" /\ i < count /\ error_reg = NoAddress
      /\ unit = [addr |-> start + i, left |-> count - i]
      /\ bus_errors <= MAX_BUS_ERRORS /\ polls <= MAX_STATUS
      /\ WriteStaysInside
  BY <1>1 DEF Position, WordsRight, BurstShape
<1>3. /\ unit.addr = start + i /\ unit.left = count - i
      /\ unit.addr \in Nat /\ unit.addr >= start
      /\ unit.addr + unit.left = start + count
      /\ OnBus(count) = unit.left
  BY <1>2, UnitFollows
<1>4. unit'.left = 0
  BY <1>1, <1>2, UnitFollows
<1>5. unit.addr .. unit.addr + OnBus(count) - 1 \subseteq Block /\ OnBus(count) \in Nat
  BY <1>2, <1>3, UnitFollows, Numbers
<1>6. ASSUME memory' \in [Addresses -> Int],
             \A a \in Addresses \ Block : memory'[a] = memory[a],
             crc' \in BOOLEAN,
             error_reg' \in Block \union {NoAddress}, XILINX => error_reg' = NoAddress,
             faults' \in Nat, RightOrTold(count)', faults' = 0 => err' = err /\ faults = 0
      PROVE  BurstInv'
  <2>1. BurstShape'
    <3>1. unit'.left \in 0 .. count
      BY <1>4, Numbers
    <3>2. QED
      BY <1>1, <1>6, <3>1 DEF BurstShape, Block
  <2>2. Position'
    BY <1>1, <1>2, <1>4 DEF Position
  <2>3. WordsRight'
    BY <1>1, <1>2, <1>6 DEF WordsRight, WriteStaysInside, Block
  <2>4. ErrorsHaveCauses'
    BY <1>1, <1>6 DEF ErrorsHaveCauses
  <2>5. QED
    BY <2>1, <2>2, <2>3, <2>4
<1>7. ASSUME NEW bad \in BusErrors(count),
             memory' = BusWrite(count, 0, bad), crc' = (unit.left = count),
             error_reg' \in ErrorAfter(bad), UNCHANGED <<faults, err>>
      PROVE  BurstInv'
  <2>1. /\ error_reg' \in Block \union {NoAddress} /\ (XILINX => error_reg' = NoAddress)
        /\ \A k \in bad : error_reg' # NoAddress /\ error_reg' <= unit.addr + k
    BY <1>2, <1>3, <1>7, Numbers, ErrorsAreNoted
  <2>2. /\ memory' \in [Addresses -> Int]
        /\ \A a \in Addresses \ Block : memory'[a] = memory[a]
    BY <1>3, <1>5, <1>7, WritesAreWords
  <2>3. ASSUME NEW k \in 0 .. count - 1, i = 0, k \notin bad
        PROVE  Right(k)'
    <3>1. /\ start + k \in Addresses
          /\ start + k \in unit.addr .. unit.addr + OnBus(count) - 1
          /\ (start + k) - unit.addr = k /\ 0 + k = k
      BY <1>3, <2>3, Numbers DEF Addresses
    <3>2. memory'[start + k] = k
      BY <1>7, <2>3, <3>1 DEF BusWrite
    <3>3. QED
      BY <1>1, <1>2, <3>2 DEF Right
  <2>4. crc' => i = 0 /\ unit.addr = start
    <3>1. crc' => unit.left = count
      BY <1>7
    <3>2. unit.left = count => i = 0 /\ unit.addr = start
      BY <1>2, UnitFollows
    <3>3. QED
      BY <3>1, <3>2
  <2>5. RightOrTold(count)'
    BY <1>1, <2>1, <2>3, <2>4 DEF RightOrTold
  <2>6. QED
    BY <1>6, <1>7, <2>1, <2>2, <2>5 DEF BurstShape
<1>8. ASSUME NEW k \in 0 .. OnBus(count) - 1, memory' = WriteFlipped(count, 0, k),
             crc' = FALSE, UNCHANGED error_reg, faults' = faults + 1
      PROVE  BurstInv'
  <2>1. /\ memory' \in [Addresses -> Int]
        /\ \A a \in Addresses \ Block : memory'[a] = memory[a]
    <3>1. /\ WriteFlipped(count, 0, k) \in [Addresses -> Int]
          /\ \A a \in Addresses : a \notin unit.addr .. unit.addr + OnBus(count) - 1 =>
                 WriteFlipped(count, 0, k)[a] = memory[a]
      BY <1>3, <1>5, FlippedWordsAreWords
    <3>2. QED
      BY <1>5, <1>8, <3>1
  <2>2. faults' \in Nat /\ faults' # 0
    BY <1>8 DEF BurstShape
  <2>3. error_reg' \in Block \union {NoAddress} /\ (XILINX => error_reg' = NoAddress)
    BY <1>8 DEF BurstShape
  <2>4. RightOrTold(count)'
    BY <1>8 DEF RightOrTold
  <2>5. QED
    BY <1>6, <1>8, <2>1, <2>2, <2>3, <2>4
<1>9. QED
  BY <1>7, <1>8 DEF WriteStream, Fault

\* One word, after which the next is due.
LEMMA WordWrites ==
    ASSUME BurstInv, NoBusOnXilinx, WriteWord
    PROVE  BurstInv'
<1> USE DEF BurstInv
<1>1. /\ pc = "write" /\ ~HISPEED
      /\ UNCHANGED <<fun, start, count, data, addr, polls, bus_errors, current_chain>>
  BY DEF WriteWord, callVars
<1>2. /\ fun = "write" /\ i < count /\ RightOrTold(i)
      /\ unit = [addr |-> start + i, left |-> count - i]
      /\ error_reg # NoAddress => error_reg < start + i
      /\ bus_errors <= MAX_BUS_ERRORS /\ polls <= MAX_STATUS
      /\ WriteStaysInside
  BY <1>1 DEF Position, WordsRight, BurstShape
<1>3. /\ unit.addr = start + i /\ unit.addr \in Nat /\ OnBus(1) = 1
      /\ unit.addr .. unit.addr + OnBus(1) - 1 \subseteq Block
      /\ unit.addr .. unit.addr + OnBus(1) - 1 = {start + i}
      /\ i \in Nat /\ 1 \in Nat
  <2>1. /\ unit.addr = start + i /\ unit.addr \in Nat /\ OnBus(1) = 1
        /\ unit.addr .. unit.addr + OnBus(1) - 1 \subseteq Block
    BY <1>2, UnitFollows
  <2>2. QED
    BY <2>1, Numbers
<1>4. ASSUME Fault("busy") \/ Fault("cable"), Exit \/ Return({"COMM", "MAX_RETRY"}),
             UNCHANGED <<memory, error_reg, unit, i, crc>>
      PROVE  BurstInv'
  <2>1. /\ faults' = faults + 1
        /\ pc' = "exited" \/ (pc' = "returned" /\ err' # {})
    BY <1>4 DEF Fault, Return, Exit
  <2>2. BurstShape' /\ faults' # 0
    BY <1>1, <1>4, <2>1 DEF BurstShape, Block
  <2>3. Position'
    BY <2>1 DEF Position
  <2>4. WordsRight'
    BY <1>1, <1>2, <1>4, <2>1 DEF WordsRight, WriteStaysInside, Block
  <2>5. QED
    BY <2>2, <2>3, <2>4 DEF ErrorsHaveCauses
<1>5. ASSUME memory' \in [Addresses -> Int],
             \A a \in Addresses : a # start + i => memory'[a] = memory[a],
             crc' \in BOOLEAN, crc' => crc,
             error_reg' \in Block \union {NoAddress}, XILINX => error_reg' = NoAddress,
             error_reg # NoAddress => error_reg' = error_reg,
             error_reg' # NoAddress => error_reg' < start + (i + 1),
             \/ memory'[start + i] = i
             \/ ~crc'
             \/ error_reg' # NoAddress /\ error_reg' <= start + i,
             faults' \in Nat, faults' = 0 => faults = 0,
             unit' = Advanced(1), i' = i + 1,
             pc' = IF i' < count THEN "write" ELSE "crc", err' = err
      PROVE  BurstInv'
  <2>1. unit' = [addr |-> start + i', left |-> count - i'] /\ i' \in 0 .. count
    <3>1. unit' = [addr |-> start + (i + 1), left |-> count - (i + 1)] /\ i' = i + 1
      BY <1>2, <1>5, UnitFollows
    <3>2. i + 1 \in 0 .. count
      BY <1>2, Numbers
    <3>3. QED
      BY <3>1, <3>2
  <2>2. ~(i' < count) => pc' = "crc" /\ i' = count /\ unit'.left = 0
    <3>1. ~(i' < count) => pc' = "crc" /\ i' = count
      BY <1>5, <2>1, Numbers
    <3>2. count - count = 0
      BY Numbers
    <3>3. QED
      BY <2>1, <3>1, <3>2
  <2>3. BurstShape'
    <3>1. unit'.left \in 0 .. count
      BY <2>1, Numbers
    <3>2. QED
      BY <1>1, <1>5, <2>1, <3>1 DEF BurstShape, Block
  <2>4. Position'
    <3>1. i' < count => pc' = "write"
      BY <1>5
    <3>2. error_reg' # NoAddress => error_reg' < start + i'
      BY <1>5
    <3>3. QED
      BY <1>1, <1>2, <2>1, <2>2, <3>1, <3>2 DEF Position
  <2>5. RightOrTold(i)'
    <3>1. ASSUME NEW k \in 0 .. i - 1
          PROVE  \/ Right(k)'
                 \/ ~crc'
                 \/ error_reg' # NoAddress /\ error_reg' <= start + k
      <4>1. start + k \in Addresses /\ start + k # start + i
        BY <1>2, Numbers DEF Addresses
      <4>2. Right(k)' <=> Right(k)
        BY <1>1, <1>2, <1>5, <4>1 DEF Right
      <4>3. QED
        BY <1>2, <1>5, <4>2 DEF RightOrTold
    <3>2. ASSUME NEW k, k = i
          PROVE  \/ Right(k)'
                 \/ ~crc'
                 \/ error_reg' # NoAddress /\ error_reg' <= start + k
      BY <1>1, <1>2, <1>5, <3>2 DEF Right
    <3>3. \A k \in 0 .. i' - 1 : k \in 0 .. i - 1 \/ k = i
      BY <1>5, Numbers
    <3>4. QED
      BY <1>1, <3>1, <3>2, <3>3 DEF RightOrTold
  <2>6. WriteStaysInside'
    <3>1. start + i \in Block
      BY <1>3
    <3>2. QED
      BY <1>1, <1>2, <1>5, <3>1 DEF WriteStaysInside, Block
  <2>7. WordsRight'
    BY <1>1, <1>2, <1>5, <2>2, <2>5, <2>6 DEF WordsRight
  <2>8. ErrorsHaveCauses'
    BY <1>1, <1>5 DEF ErrorsHaveCauses
  <2>9. QED
    BY <2>3, <2>4, <2>7, <2>8
<1>6. ASSUME NEW bad \in BusErrors(1),
             memory' = BusWrite(1, NextWord, bad), error_reg' \in ErrorAfter(bad),
             UNCHANGED <<faults, crc>>,
             unit' = Advanced(1), i' = i + 1,
             pc' = IF i' < count THEN "write" ELSE "crc", err' = err
      PROVE  BurstInv'
  <2>1. /\ error_reg' \in Block \union {NoAddress} /\ (XILINX => error_reg' = NoAddress)
        /\ error_reg # NoAddress => error_reg' = error_reg
        /\ error_reg' # NoAddress => error_reg' < start + (i + 1)
        /\ bad # {} => error_reg' # NoAddress /\ error_reg' <= start + i
    BY <1>2, <1>6, WordErrors
  <2>2. /\ memory' \in [Addresses -> Int]
        /\ \A a \in Addresses : a # start + i => memory'[a] = memory[a]
    BY <1>3, <1>6, WritesAreWords DEF NextWord
  <2>3. bad = {} => memory'[start + i] = i
    <3>1. /\ start + i \in Addresses
          /\ start + i \in unit.addr .. unit.addr + OnBus(1) - 1
          /\ i + ((start + i) - unit.addr) = i
      BY <1>2, <1>3, Numbers DEF Addresses
    <3>2. QED
      BY <1>6, <3>1 DEF BusWrite, NextWord
  <2>4. QED
    BY <1>5, <1>6, <2>1, <2>2, <2>3 DEF BurstShape
<1>7. ASSUME NEW k \in 0 .. OnBus(1) - 1,
             memory' = WriteFlipped(1, NextWord, k), Fault("flip"), crc' = FALSE,
             UNCHANGED error_reg,
             unit' = Advanced(1), i' = i + 1,
             pc' = IF i' < count THEN "write" ELSE "crc", err' = err
      PROVE  BurstInv'
  <2>1. /\ memory' \in [Addresses -> Int]
        /\ \A a \in Addresses : a # start + i => memory'[a] = memory[a]
    <3>1. /\ WriteFlipped(1, i, k) \in [Addresses -> Int]
          /\ \A a \in Addresses : a \notin unit.addr .. unit.addr + OnBus(1) - 1 =>
                 WriteFlipped(1, i, k)[a] = memory[a]
      BY <1>3, FlippedWordsAreWords
    <3>2. QED
      BY <1>3, <1>7, <3>1 DEF NextWord
  <2>2. error_reg' # NoAddress => error_reg' < start + (i + 1)
    BY <1>2, <1>7, Numbers
  <2>3. faults' \in Nat /\ faults' # 0
    BY <1>7 DEF BurstShape, Fault
  <2>4. QED
    BY <1>5, <1>7, <2>1, <2>2, <2>3 DEF BurstShape
<1>8. ~(i < 0)
  BY Numbers
<1>9. QED
  BY <1>4, <1>6, <1>7, <1>8 DEF WriteWord

\* A CRC that matches says that the words are right, or the error register will.
LEMMA CrcStep ==
    ASSUME BurstInv, CheckCrc, ~garbled'
    PROVE  BurstInv'
<1> USE DEF BurstInv
<1>1. /\ pc = "crc"
      /\ UNCHANGED <<fun, start, count, data, i, addr, polls, crc, bus_errors,
                     current_chain, unit, error_reg, memory, faults>>
      /\ Goes(crc)
  <2>1. /\ pc = "crc" /\ unit.left = 0
        /\ UNCHANGED <<fun, start, count, data, i, addr, polls, crc, bus_errors,
                       current_chain, unit, error_reg>>
    BY DEF CheckCrc, callVars, Position
  <2>2. memory' = memory
    BY <2>1 DEF CheckCrc, WithCrcWritten
  <2>3. MatchBits = {crc} /\ (ReadCrcMatches <=> crc) /\ crc \in BOOLEAN
    BY <2>1 DEF MatchBits, WriteCrcMatches, ReadCrcMatches, BurstShape
  <2>4. CASE fun = "read" /\ Goes(ReadCrcMatches) /\ UNCHANGED <<garbled, faults>>
    BY <2>1, <2>2, <2>3, <2>4 DEF Goes
  <2>5. CASE \E match \in MatchBits : Goes(match) /\ UNCHANGED <<garbled, faults>>
    BY <2>1, <2>2, <2>3, <2>5
  <2>6. QED
    BY <2>4, <2>5 DEF CheckCrc
<1>2. /\ unit.left = 0 /\ RightOrTold(count)
      /\ bus_errors <= MAX_BUS_ERRORS /\ polls <= MAX_STATUS
  BY <1>1 DEF Position, WordsRight
<1>3. \A k : Right(k)' <=> Right(k)
  BY <1>1, RightStays
<1>4. RightOrTold(count)' /\ WriteStaysInside'
      /\ (fun = "read" => \A a \in Addresses : memory'[a] = Old(a))
  BY <1>1, <1>2, <1>3 DEF RightOrTold, WordsRight, WriteStaysInside, Block
<1>5. CASE ~crc
  <2>1. pc' = "exited" \/ (pc' = "returned" /\ err' # {})
    BY <1>1, <1>5 DEF Goes
  <2>2. BurstShape' /\ Position'
    BY <1>1, <2>1 DEF BurstShape, Position, Block
  <2>3. QED
    BY <1>1, <1>4, <1>5, <2>1, <2>2 DEF WordsRight, ErrorsHaveCauses
<1>6. CASE crc
  <2>0. /\ pc' = (IF current_chain = "DC_WISHBONE" THEN "error" ELSE "returned")
        /\ err' = err
    BY <1>1, <1>6 DEF Goes
  <2>1. BurstShape' /\ Position'
    BY <1>1, <1>2, <1>6, <2>0 DEF BurstShape, Position, Block
  <2>2. pc' = "returned" => error_reg = NoAddress
    BY <2>0 DEF BurstShape
  <2>3. pc' = "returned" => \A k \in 0 .. count - 1 : Right(k)'
    BY <1>2, <1>3, <1>6, <2>2 DEF RightOrTold
  <2>4. WordsRight'
    BY <1>1, <1>4, <2>0, <2>3 DEF WordsRight
  <2>5. QED
    BY <1>1, <2>0, <2>1, <2>4 DEF ErrorsHaveCauses
<1>7. QED
  BY <1>5, <1>6

\* The words before the first error are right, and the next burst begins there.
LEMMA ErrorStep ==
    ASSUME BurstInv, ReadError, ~garbled'
    PROVE  BurstInv'
<1> USE DEF BurstInv
<1>1. /\ pc = "error"
      /\ UNCHANGED <<fun, start, count, data, polls, crc, current_chain, unit, memory>>
  BY DEF ReadError, callVars
<1>2. /\ crc /\ RightOrTold(count)
      /\ bus_errors <= MAX_BUS_ERRORS /\ polls <= MAX_STATUS
      /\ bus_errors \in Nat /\ MAX_BUS_ERRORS \in Nat
  BY <1>1, Numbers DEF Position, WordsRight, BurstShape
<1>3. \A k : Right(k)' <=> Right(k)
  BY <1>1, RightStays
<1>4. WriteStaysInside' /\ (fun = "read" => \A a \in Addresses : memory'[a] = Old(a))
  BY <1>1 DEF WordsRight, WriteStaysInside, Block
<1>5. CASE /\ error_reg = NoAddress /\ Return({})
           /\ UNCHANGED <<addr, i, bus_errors, error_reg, faults>>
  <2>1. pc' = "returned" /\ err' = err
    BY <1>5 DEF Return
  <2>2. BurstShape' /\ Position'
    BY <1>1, <1>5, <2>1 DEF BurstShape, Position, Block
  <2>3. \A k \in 0 .. count - 1 : Right(k)'
    BY <1>2, <1>3, <1>5 DEF RightOrTold
  <2>4. QED
    BY <1>1, <1>4, <1>5, <2>1, <2>2, <2>3 DEF WordsRight, ErrorsHaveCauses
<1>6. CASE Fault("cable") /\ Return({"COMM"})
           /\ UNCHANGED <<addr, i, bus_errors, error_reg>>
  <2>1. pc' = "returned" /\ err' # {} /\ faults' = faults + 1
    BY <1>6 DEF Return, Fault
  <2>2. BurstShape' /\ Position' /\ faults' # 0
    BY <1>1, <1>6, <2>1 DEF BurstShape, Position, Block
  <2>3. QED
    BY <1>1, <1>4, <2>1, <2>2 DEF WordsRight, ErrorsHaveCauses
<1>7. CASE /\ error_reg # NoAddress /\ addr' = error_reg /\ i' = error_reg - start
           /\ bus_errors' = bus_errors + 1 /\ faults' = faults
           /\ IF bus_errors' > MAX_BUS_ERRORS THEN Return({"MAX_BUS_ERR"})
              ELSE pc' = "command" /\ err' = err
           /\ error_reg' = IF pc' = "command" THEN NoAddress ELSE error_reg
  <2>1. /\ addr' \in Nat /\ i' \in 0 .. count /\ i' < count /\ addr' = start + i'
        /\ bus_errors' \in 0 .. MAX_BUS_ERRORS + 1
    <3>1. error_reg \in Nat /\ start <= error_reg /\ error_reg < start + count
          /\ start \in Nat /\ count \in Nat
      BY <1>7, Numbers
    <3>2. QED
      BY <1>2, <1>7, <3>1
  <2>2. CASE bus_errors' > MAX_BUS_ERRORS
    <3>1. pc' = "returned" /\ err' # {} /\ error_reg' = error_reg
      BY <1>7, <2>2 DEF Return
    <3>2. BurstShape' /\ Position'
      BY <1>1, <1>7, <2>1, <3>1 DEF BurstShape, Position, Block
    <3>3. QED
      BY <1>1, <1>4, <2>2, <3>1, <3>2 DEF WordsRight, ErrorsHaveCauses
  <2>3. CASE ~(bus_errors' > MAX_BUS_ERRORS)
    <3>1. pc' = "command" /\ err' = err /\ error_reg' = NoAddress
      BY <1>7, <2>3
    <3>2. bus_errors' <= MAX_BUS_ERRORS
      BY <1>2, <2>1, <2>3
    <3>3. BurstShape' /\ Position'
      BY <1>1, <1>2, <1>7, <2>1, <3>1, <3>2 DEF BurstShape, Position, Block
    <3>4. ASSUME NEW k \in 0 .. i' - 1
          PROVE  Right(k)'
      <4>1. k \in 0 .. count - 1 /\ ~(error_reg <= start + k)
        <5>1. /\ error_reg \in Nat /\ start \in Nat /\ count \in Nat
              /\ start <= error_reg /\ error_reg < start + count
          BY <1>7, Numbers
        <5>2. i' = error_reg - start
          BY <1>7
        <5>3. k \in 0 .. (error_reg - start) - 1
          BY <5>2
        <5>4. QED
          BY <5>1, <5>3
      <4>2. QED
        BY <1>2, <1>3, <4>1 DEF RightOrTold
    <3>5. WordsRight'
      BY <1>1, <1>4, <3>1, <3>4 DEF WordsRight
    <3>6. QED
      BY <1>1, <1>7, <3>1, <3>3, <3>5 DEF ErrorsHaveCauses
  <2>4. QED
    BY <2>2, <2>3
<1>8. QED
  BY <1>5, <1>6, <1>7 DEF ReadError, BeginAgain, Counted

LEMMA BurstStarts == Init => BurstInv
<1> SUFFICES ASSUME Init PROVE BurstInv
  OBVIOUS
<1>1. /\ Size \in Nat \ {0} /\ MAX_STATUS \in Nat /\ MAX_BUS_ERRORS \in Nat
      /\ start \in 0 .. Size - 1 /\ count \in 1 .. Size - start
  BY BurstAssumption DEF Init, Addresses
<1>2. i = 0 /\ polls = 0 /\ bus_errors = 0 /\ faults = 0 /\ unit.left = 0 /\ addr = start
  BY DEF Init
<1>3. /\ i \in 0 .. count /\ i < count /\ addr \in Nat /\ addr = start + i
      /\ polls \in 0 .. MAX_STATUS + 1 /\ polls <= MAX_STATUS
      /\ bus_errors \in 0 .. MAX_BUS_ERRORS + 1 /\ bus_errors <= MAX_BUS_ERRORS
      /\ unit.left \in 0 .. count /\ faults \in Nat
  BY <1>1, <1>2
<1>4. data \in [0 .. count - 1 -> Int] /\ memory \in [Addresses -> Int]
  <2>1. \A a \in Addresses : Old(a) \in Int
    BY <1>1 DEF Addresses, Old
  <2>2. QED
    BY <2>1 DEF Init, Junk
<1>5. BurstShape
  BY <1>3, <1>4 DEF Init, BurstShape
<1>6. Position
  BY <1>3 DEF Init, Position
<1>7. \A a \in Addresses : memory[a] = Old(a)
  BY DEF Init
<1>8. WordsRight
  <2>1. 0 .. i - 1 = {}
    BY <1>2
  <2>2. QED
    BY <1>7, <2>1 DEF Init, WordsRight, WriteStaysInside
<1>9. QED
  BY <1>5, <1>6, <1>8 DEF Init, BurstInv, ErrorsHaveCauses

LEMMA BurstStep ==
    ASSUME NoBusOnXilinx
    PROVE  UntilGarbled /\ [Next]_vars => UntilGarbled'
<1> SUFFICES ASSUME UntilGarbled, [Next]_vars, ~garbled' PROVE BurstInv'
  BY DEF UntilGarbled
<1> BurstInv
  BY DEF UntilGarbled, Next, Done, Step, BurstCommand, PollStatus, ReadStream, ReadWord,
         WriteStream, WriteWord, CheckCrc, ReadError, vars
<1>1. CASE UNCHANGED vars
  BY <1>1 DEF vars, callVars, BurstInv, BurstShape, Position, WordsRight, RightOrTold,
              Right, WriteStaysInside, ErrorsHaveCauses, Block
<1>2. CASE Step
  BY <1>2, CommandStep, StatusStep, StreamReads, WordReads, StreamWrites, WordWrites,
     CrcStep, ErrorStep DEF Step
<1>3. QED
  BY <1>1, <1>2 DEF Next, Done

\* What the runs check of a burst follows.
LEMMA InvIsRight == UntilGarbled => BurstIsRight
<1> SUFFICES ASSUME UntilGarbled, ~garbled PROVE BurstIsRight
  BY DEF BurstIsRight
<1> BurstInv
  BY DEF UntilGarbled
<1> USE DEF BurstInv
<1>1. TypeOK
  BY Numbers DEF BurstShape, TypeOK
<1>2. Succeeded("read") => \A k \in 0 .. count - 1 : data[k] = Old(start + k)
  BY DEF Succeeded, WordsRight, Right
<1>3. Succeeded("write") => \A k \in 0 .. count - 1 : memory[start + k] = k
  BY DEF Succeeded, WordsRight, Right
<1>4. BusErrorsAreRetried
  <2>1. CASE pc = "exited" /\ faults = 0
    BY <2>1 DEF ErrorsHaveCauses, BusErrorsAreRetried
  <2>2. CASE pc = "returned" /\ faults = 0 /\ err # {}
    <3>1. polls > MAX_STATUS \/ ~crc \/ bus_errors > MAX_BUS_ERRORS
      BY <2>2 DEF ErrorsHaveCauses
    <3>2. bus_errors \in Nat /\ MAX_BUS_ERRORS \in Nat
      BY Numbers DEF BurstShape
    <3>3. QED
      BY <3>1, <3>2 DEF BusErrorsAreRetried, TimedOut
  <2>3. QED
    BY <2>1, <2>2 DEF BusErrorsAreRetried
<1>5. QED
  BY <1>1, <1>2, <1>3, <1>4 DEF WordsRight, BurstIsRight, ReadIsRight, WriteIsRight

\* Although words are damaged and the bus, the cable and the status bits fail, a burst
\* that reports no error has transferred every word, retries included, none writes
\* outside its block, and errors of the bus alone are made good (adbg_wb_burst_read,
\* adbg_wb_burst_write): for any memory, block, faults and bounds on errors, in one
\* stream or word by word, as long as nothing was damaged that no CRC protects (the
\* command, the match bit and the error register), and on Xilinx parts as long as the
\* bus, whose errors are not looked at there, works.
THEOREM BurstsAreRight == ASSUME NoBusOnXilinx PROVE Spec => []BurstIsRight
<1>1. Init => UntilGarbled
  BY BurstStarts DEF UntilGarbled
<1>2. UntilGarbled /\ [Next]_vars => UntilGarbled'
  BY BurstStep
<1>3. QED
  BY <1>1, <1>2, InvIsRight, PTL DEF Spec

-----------------------------------------------------------------------------
(* Accesses to the legacy unit.  From the moment the chain is selected     *)
(* until the access returns the unit is on the chain of the access; and    *)
(* when the transfer goes, it is the one that was prepared.                *)

LegacyShape ==
    /\ lpc \in {"idle", "set_chain", "command", "ctrl", "ctrl_read", "go", "returned"}
    /\ soft_retry_no \in 0 .. NUM_SOFT_RETRIES
    /\ ltap \in {"idle", "exit1_dr", "select_dr", "exit1_ir"}
    /\ ir \in {"debug", "other"}
    /\ lchain \in {Legacy!NoChain, selected}
    /\ calls \in 0 .. MaxCalls
    /\ word \in [Chains -> Legacy!Values \union {Legacy!Junk}]
    /\ ctrl \in [Chains -> 0 .. 3]
    /\ prepared \in [Chains -> [kind : Legacy!Kinds \union {"none"}, val : Int]]

\* The access that runs, and the function that carries it out.
Asked ==
    lpc # "idle" =>
        /\ call.kind \in Legacy!Kinds /\ call.chain \in Chains
        /\ call.val \in IF call.kind = "ctrl" THEN 0 .. 3 ELSE Legacy!Values
        /\ desired_chain = call.chain
        /\ lpc \in {"command", "go"} => call.kind \in {"read", "write"}
        /\ lpc \in {"ctrl", "ctrl_read"} => call.kind = lpc
        /\ lpc # "returned" => lerr = "NONE"

OnItsChain ==
    /\ lpc \in {"command", "ctrl", "ctrl_read", "go"} =>
           lchain = desired_chain /\ selected = desired_chain
    /\ lpc = "go" => prepared[selected] = [kind |-> call.kind, val |-> call.val]

Obtained ==
    lpc = "returned" /\ lerr = "NONE" =>
        /\ call.kind = "write" => word[call.chain] = call.val
        /\ call.kind = "read" => got = word[call.chain]
        /\ call.kind = "ctrl" => ctrl[call.chain] % 2 = call.val % 2
        /\ call.kind = "ctrl_read" => got = ctrl[call.chain]

LegacyInv == LegacyShape /\ Asked /\ OnItsChain /\ Obtained

\* An access that is given up returns an error, and leaves the TAP in the state
\* after a stream; from one that is not idle it stays out of step.
LEMMA GivenUp ==
    ASSUME LegacyShape, NEW o \in {"refused", "garbled", "silent"}, Legacy!GiveUp(o)
    PROVE  /\ lpc' = "returned" /\ lerr' # "NONE"
           /\ soft_retry_no' = soft_retry_no
           /\ ltap' \in {"exit1_dr", "select_dr", "exit1_ir"}
           /\ ir' \in {"debug", "other"}
BY DEF LegacyShape, Legacy!GiveUp, Legacy!Error, Legacy!AfterFailure, Legacy!Streams,
       Legacy!SetShiftDr, Legacy!IrAfter

\* How an exchange can end: it succeeds, is tried again, or the access is given up.
LEMMA Conclusions ==
    ASSUME LegacyShape, NEW next,
           NEW o \in {"ok", "refused", "garbled", "silent"}, Legacy!Conclude(o, next)
    PROVE  /\ \/ o = "ok" /\ lpc' = next /\ lerr' = lerr
              \/ o # "ok" /\ lpc' = lpc /\ lerr' = lerr
              \/ o # "ok" /\ lpc' = "returned" /\ lerr' # "NONE"
           /\ soft_retry_no' \in 0 .. NUM_SOFT_RETRIES
           /\ ltap' \in {"idle", "exit1_dr", "select_dr", "exit1_ir"}
           /\ ir' \in {"debug", "other"}
           /\ o # "ok" /\ ltap # "idle" => ltap' # "idle" \/ soft_retry_no' > soft_retry_no
<1>1. NUM_SOFT_RETRIES \in Nat
  BY LegacyUnitAssumption DEF Legacy!LegacyAssumption
<1>2. CASE o = "ok"
  BY <1>1, <1>2 DEF LegacyShape, Legacy!Conclude, Legacy!Failed, Legacy!Succeed,
                    Legacy!IrAfter
<1>3. CASE o # "ok" /\ soft_retry_no < NUM_SOFT_RETRIES
  BY <1>1, <1>3 DEF LegacyShape, Legacy!Conclude, Legacy!Failed, Legacy!Retry
<1>4. CASE o # "ok" /\ ~(soft_retry_no < NUM_SOFT_RETRIES)
  <2>1. Legacy!GiveUp(o)
    BY <1>4 DEF Legacy!Conclude, Legacy!Failed
  <2>2. QED
    BY <1>4, <2>1, GivenUp DEF LegacyShape
<1>5. QED
  BY <1>2, <1>3, <1>4

\* Every outcome of an exchange is one of these; without the unit listening, there
\* is no answer.
LEMMA OutcomesAre ==
    ASSUME NEW o \in Legacy!Outcomes
    PROVE  /\ o \in {"ok", "refused", "garbled", "silent"}
           /\ ltap # "idle" /\ LegacyShape => o = "silent"
BY DEF Legacy!Outcomes, Legacy!Heard, LegacyShape, Legacy!SetShiftDr

\* Writing the control register keeps the bit that stalls.
LEMMA ControlBits ==
    ASSUME NEW d \in 0 .. 3
    PROVE  Legacy!CtrlBits(d) \in 0 .. 3 /\ Legacy!CtrlBits(d) % 2 = d % 2
<1>1. CASE d = 0
  BY <1>1 DEF Legacy!CtrlBits
<1>2. CASE d = 1
  BY <1>2 DEF Legacy!CtrlBits
<1>3. CASE d = 2
  BY <1>3 DEF Legacy!CtrlBits
<1>4. CASE d = 3
  BY <1>4 DEF Legacy!CtrlBits
<1>5. QED
  BY <1>1, <1>2, <1>3, <1>4

LEMMA LegacyStarts == Legacy!Init => LegacyInv
<1>1. NUM_SOFT_RETRIES \in Nat /\ MaxCalls \in Nat
  BY LegacyUnitAssumption DEF Legacy!LegacyAssumption
<1>2. QED
  BY <1>1 DEF Legacy!Init, LegacyInv, LegacyShape, Asked, OnItsChain, Obtained,
              Legacy!Values, Legacy!None, Legacy!Junk

LEMMA BeginStep ==
    ASSUME LegacyInv, NEW kind \in Legacy!Kinds, NEW chain \in Chains,
           NEW val \in Legacy!Data(kind), Legacy!Begin(kind, chain, val)
    PROVE  LegacyInv'
<1>1. MaxCalls \in Nat /\ calls \in 0 .. MaxCalls /\ calls < MaxCalls
  BY LegacyUnitAssumption DEF LegacyInv, LegacyShape, Legacy!LegacyAssumption, Legacy!Begin
<1>2. calls' \in 0 .. MaxCalls /\ (kind # "ctrl" => val \in Legacy!Values)
  BY <1>1 DEF Legacy!Begin, Legacy!Data, Legacy!Values
<1>3. LegacyShape'
  BY <1>2 DEF LegacyInv, LegacyShape, Legacy!Begin, Legacy!unitVars
<1>4. Asked'
  BY <1>2 DEF Asked, Legacy!Begin, Legacy!Data
<1>5. lpc' = "set_chain"
  BY DEF Legacy!Begin
<1>6. QED
  BY <1>3, <1>4, <1>5 DEF LegacyInv, OnItsChain, Obtained

LEMMA SelectedBeforeStep ==
    ASSUME LegacyInv, Legacy!SelectedBefore
    PROVE  LegacyInv'
<1> USE DEF Legacy!SelectedBefore, Legacy!callVars, Legacy!unitVars, LegacyInv
<1>1. /\ call.kind \in Legacy!Kinds /\ call.chain \in Chains /\ desired_chain = call.chain
      /\ lerr = "NONE"
  BY DEF Asked
<1>2. lchain = desired_chain /\ selected = desired_chain
  BY <1>1, LegacyUnitAssumption DEF Legacy!LegacyAssumption, LegacyShape,
                                    Legacy!AlreadySelected
<1>3. /\ lpc' \in {"command", "ctrl", "ctrl_read"}
      /\ lpc' = "command" => call.kind \in {"read", "write"}
      /\ lpc' \in {"ctrl", "ctrl_read"} => call.kind = lpc'
  BY <1>1 DEF Legacy!Function, Legacy!Kinds
<1>4. LegacyShape'
  BY <1>3 DEF LegacyShape
<1>5. Asked'
  BY <1>1, <1>3 DEF Asked
<1>6. OnItsChain' /\ Obtained'
  BY <1>2, <1>3 DEF OnItsChain, Obtained
<1>7. QED
  BY <1>4, <1>5, <1>6

LEMMA SetChainStep ==
    ASSUME LegacyInv, Legacy!SetChain
    PROVE  LegacyInv'
<1> USE DEF LegacyInv
<1>1. PICK o \in Legacy!Outcomes :
          /\ selected' = IF Legacy!Obeyed(o) THEN desired_chain ELSE selected
          /\ lchain' = IF Legacy!Failed(o) THEN Legacy!NoChain ELSE desired_chain
          /\ Legacy!Conclude(o, Legacy!Function(call.kind))
  BY DEF Legacy!SetChain
<1>2. /\ lpc = "set_chain"
      /\ UNCHANGED <<call, calls, desired_chain, got, prepared, word, ctrl>>
  BY DEF Legacy!SetChain, Legacy!callVars
<1>3. /\ call.kind \in Legacy!Kinds /\ call.chain \in Chains /\ desired_chain = call.chain
      /\ lerr = "NONE"
  BY <1>2 DEF Asked
<1>4. /\ \/ o = "ok" /\ lpc' = Legacy!Function(call.kind) /\ lerr' = lerr
         \/ o # "ok" /\ lpc' = lpc /\ lerr' = lerr
         \/ o # "ok" /\ lpc' = "returned" /\ lerr' # "NONE"
      /\ soft_retry_no' \in 0 .. NUM_SOFT_RETRIES
      /\ ltap' \in {"idle", "exit1_dr", "select_dr", "exit1_ir"}
      /\ ir' \in {"debug", "other"}
  BY <1>1, Conclusions, OutcomesAre
<1>5. o = "ok" => lchain' = desired_chain /\ selected' = desired_chain
  BY <1>1 DEF Legacy!Failed, Legacy!Obeyed
<1>6. lchain' \in {Legacy!NoChain, selected'}
  BY <1>1, <1>5 DEF Legacy!Failed
<1>7. /\ Legacy!Function(call.kind) \in {"command", "ctrl", "ctrl_read"}
      /\ Legacy!Function(call.kind) = "command" => call.kind \in {"read", "write"}
      /\ Legacy!Function(call.kind) \in {"ctrl", "ctrl_read"} =>
             call.kind = Legacy!Function(call.kind)
  BY <1>3 DEF Legacy!Function, Legacy!Kinds
<1>8. LegacyShape'
  BY <1>2, <1>4, <1>6, <1>7 DEF LegacyShape
<1>9. Asked'
  BY <1>2, <1>3, <1>4, <1>7 DEF Asked
<1>10. OnItsChain' /\ Obtained'
  BY <1>2, <1>4, <1>5, <1>7 DEF OnItsChain, Obtained
<1>11. QED
  BY <1>8, <1>9, <1>10

\* The chain while a function runs.
LEMMA ItsChain ==
    ASSUME LegacyInv, lpc \in {"command", "ctrl", "ctrl_read", "go"}
    PROVE  /\ call.kind \in Legacy!Kinds /\ call.chain \in Chains
           /\ desired_chain = call.chain /\ selected = call.chain /\ lchain = call.chain
           /\ lerr = "NONE"
           /\ lpc \in {"command", "go"} => call.kind \in {"read", "write"}
           /\ lpc \in {"ctrl", "ctrl_read"} => call.kind = lpc
           /\ call.val \in Int
BY LegacyUnitAssumption DEF LegacyInv, Asked, OnItsChain, Legacy!Values,
                            Legacy!LegacyAssumption

LEMMA PrepareStep ==
    ASSUME LegacyInv, Legacy!Command
    PROVE  LegacyInv'
<1> USE DEF LegacyInv
<1>1. PICK o \in Legacy!Outcomes :
          /\ prepared' = IF Legacy!Obeyed(o) /\ selected \in Chains
                         THEN [prepared EXCEPT ![selected] =
                                   [kind |-> call.kind, val |-> call.val]]
                         ELSE prepared
          /\ Legacy!Conclude(o, "go")
  BY DEF Legacy!Command
<1>2. /\ lpc = "command"
      /\ UNCHANGED <<call, calls, desired_chain, got, lchain, selected, word, ctrl>>
  BY DEF Legacy!Command, Legacy!callVars
<1>3. /\ call.kind \in {"read", "write"} /\ call.kind \in Legacy!Kinds
      /\ call.chain \in Chains /\ selected = call.chain /\ desired_chain = call.chain
      /\ lchain = call.chain /\ lerr = "NONE" /\ call.val \in Int
  BY <1>2, ItsChain
<1>4. /\ \/ o = "ok" /\ lpc' = "go" /\ lerr' = lerr
         \/ o # "ok" /\ lpc' = lpc /\ lerr' = lerr
         \/ o # "ok" /\ lpc' = "returned" /\ lerr' # "NONE"
      /\ soft_retry_no' \in 0 .. NUM_SOFT_RETRIES
      /\ ltap' \in {"idle", "exit1_dr", "select_dr", "exit1_ir"}
      /\ ir' \in {"debug", "other"}
  BY <1>1, Conclusions, OutcomesAre
<1>5. prepared' \in [Chains -> [kind : Legacy!Kinds \union {"none"}, val : Int]]
  BY <1>1, <1>3 DEF LegacyShape
<1>6. o = "ok" => prepared'[selected] = [kind |-> call.kind, val |-> call.val]
  BY <1>1, <1>3 DEF LegacyShape, Legacy!Obeyed
<1>7. LegacyShape'
  BY <1>2, <1>4, <1>5 DEF LegacyShape
<1>8. Asked'
  BY <1>2, <1>3, <1>4 DEF Asked
<1>9. OnItsChain' /\ Obtained'
  BY <1>2, <1>3, <1>4, <1>6 DEF OnItsChain, Obtained
<1>10. QED
  BY <1>7, <1>8, <1>9

LEMMA CtrlStep ==
    ASSUME LegacyInv, Legacy!Ctrl
    PROVE  LegacyInv'
<1> USE DEF LegacyInv
<1>1. PICK o \in Legacy!Outcomes :
          /\ ctrl' = IF Legacy!Obeyed(o) /\ selected \in Chains
                     THEN [ctrl EXCEPT ![selected] = Legacy!CtrlBits(call.val)] ELSE ctrl
          /\ Legacy!Conclude(o, "returned")
  BY DEF Legacy!Ctrl
<1>2. /\ lpc = "ctrl"
      /\ UNCHANGED <<call, calls, desired_chain, got, lchain, selected, prepared, word>>
  BY DEF Legacy!Ctrl, Legacy!callVars
<1>3. /\ call.kind = "ctrl" /\ call.kind \in Legacy!Kinds /\ call.chain \in Chains
      /\ selected = call.chain /\ desired_chain = call.chain /\ lchain = call.chain
      /\ lerr = "NONE"
  BY <1>2, ItsChain
<1>4. /\ \/ o = "ok" /\ lpc' = "returned" /\ lerr' = lerr
         \/ o # "ok" /\ lpc' = lpc /\ lerr' = lerr
         \/ o # "ok" /\ lpc' = "returned" /\ lerr' # "NONE"
      /\ soft_retry_no' \in 0 .. NUM_SOFT_RETRIES
      /\ ltap' \in {"idle", "exit1_dr", "select_dr", "exit1_ir"}
      /\ ir' \in {"debug", "other"}
  BY <1>1, Conclusions, OutcomesAre
<1>5. /\ Legacy!CtrlBits(call.val) \in 0 .. 3
      /\ Legacy!CtrlBits(call.val) % 2 = call.val % 2
  <2>1. call.val \in 0 .. 3
    BY <1>2, <1>3 DEF Asked
  <2>2. QED
    BY <2>1, ControlBits
<1>6. ctrl' \in [Chains -> 0 .. 3]
  BY <1>1, <1>5 DEF LegacyShape
<1>7. o = "ok" => ctrl'[call.chain] % 2 = call.val % 2
  <2>1. o = "ok" => ctrl'[call.chain] = Legacy!CtrlBits(call.val)
    BY <1>1, <1>3 DEF LegacyShape, Legacy!Obeyed
  <2>2. QED
    BY <1>5, <2>1
<1>8. LegacyShape'
  BY <1>2, <1>4, <1>6 DEF LegacyShape
<1>9. Asked'
  BY <1>2, <1>3, <1>4 DEF Asked
<1>10. OnItsChain' /\ Obtained'
  BY <1>2, <1>3, <1>4, <1>7 DEF OnItsChain, Obtained
<1>11. QED
  BY <1>8, <1>9, <1>10

LEMMA CtrlReadStep ==
    ASSUME LegacyInv, Legacy!CtrlRead
    PROVE  LegacyInv'
<1> USE DEF LegacyInv
<1>1. PICK o \in Legacy!Outcomes :
          /\ got' = IF o = "ok" /\ selected \in Chains THEN ctrl[selected] ELSE Legacy!Junk
          /\ Legacy!Conclude(o, "returned")
  BY DEF Legacy!CtrlRead
<1>2. /\ lpc = "ctrl_read"
      /\ UNCHANGED <<call, calls, desired_chain, lchain, selected, prepared, word, ctrl>>
  BY DEF Legacy!CtrlRead, Legacy!callVars, Legacy!unitVars
<1>3. /\ call.kind = "ctrl_read" /\ call.kind \in Legacy!Kinds /\ call.chain \in Chains
      /\ selected = call.chain /\ desired_chain = call.chain /\ lchain = call.chain
      /\ lerr = "NONE"
  BY <1>2, ItsChain
<1>4. /\ \/ o = "ok" /\ lpc' = "returned" /\ lerr' = lerr
         \/ o # "ok" /\ lpc' = lpc /\ lerr' = lerr
         \/ o # "ok" /\ lpc' = "returned" /\ lerr' # "NONE"
      /\ soft_retry_no' \in 0 .. NUM_SOFT_RETRIES
      /\ ltap' \in {"idle", "exit1_dr", "select_dr", "exit1_ir"}
      /\ ir' \in {"debug", "other"}
  BY <1>1, Conclusions, OutcomesAre
<1>5. o = "ok" => got' = ctrl'[call.chain]
  BY <1>1, <1>2, <1>3
<1>6. LegacyShape'
  BY <1>2, <1>4 DEF LegacyShape
<1>7. Asked'
  BY <1>2, <1>3, <1>4 DEF Asked
<1>8. OnItsChain' /\ Obtained'
  BY <1>2, <1>3, <1>4, <1>5 DEF OnItsChain, Obtained
<1>9. QED
  BY <1>6, <1>7, <1>8

LEMMA GoStep ==
    ASSUME LegacyInv, Legacy!Go
    PROVE  LegacyInv'
<1> USE DEF LegacyInv
<1>1. PICK o \in Legacy!Outcomes :
          /\ \/ /\ Legacy!Writes
                /\ word' = [word EXCEPT ![selected] =
                                IF Legacy!Obeyed(o) THEN prepared[selected].val
                                ELSE Legacy!Junk]
                /\ got' = Legacy!Junk
             \/ /\ ~Legacy!Writes
                /\ got' = IF o = "ok" /\ selected \in Chains THEN word[selected]
                          ELSE Legacy!Junk
                /\ UNCHANGED word
          /\ IF Legacy!Failed(o) THEN Legacy!GiveUp(o) ELSE Legacy!Succeed("returned")
  BY DEF Legacy!Go
<1>2. /\ lpc = "go"
      /\ UNCHANGED <<call, calls, desired_chain, lchain, selected, prepared, ctrl>>
  BY DEF Legacy!Go, Legacy!callVars
<1>3. /\ call.kind \in {"read", "write"} /\ call.kind \in Legacy!Kinds
      /\ call.chain \in Chains /\ selected = call.chain /\ desired_chain = call.chain
      /\ lchain = call.chain /\ lerr = "NONE"
  BY <1>2, ItsChain
<1>4. prepared[call.chain] = [kind |-> call.kind, val |-> call.val]
      /\ call.val \in Legacy!Values
  BY <1>2, <1>3 DEF OnItsChain, Asked
<1>5. NUM_SOFT_RETRIES \in Nat
  BY LegacyUnitAssumption DEF Legacy!LegacyAssumption
<1>6. /\ lpc' = "returned"
      /\ \/ o = "ok" /\ lerr' = lerr
         \/ o # "ok" /\ lerr' # "NONE"
      /\ soft_retry_no' \in 0 .. NUM_SOFT_RETRIES
      /\ ltap' \in {"idle", "exit1_dr", "select_dr", "exit1_ir"}
      /\ ir' \in {"debug", "other"}
  <2>1. CASE o = "ok"
    BY <1>1, <1>5, <2>1 DEF Legacy!Failed, Legacy!Succeed, Legacy!IrAfter, LegacyShape
  <2>2. CASE o # "ok"
    <3>1. Legacy!GiveUp(o)
      BY <1>1, <2>2 DEF Legacy!Failed
    <3>2. o \in {"refused", "garbled", "silent"}
      BY <2>2, OutcomesAre
    <3>3. QED
      BY <2>2, <3>1, <3>2, GivenUp DEF LegacyShape
  <2>3. QED
    BY <2>1, <2>2
<1>7. o = "ok" => Legacy!Heard
  BY DEF Legacy!Outcomes
<1>8. word' \in [Chains -> Legacy!Values \union {Legacy!Junk}]
  BY <1>1, <1>3, <1>4 DEF LegacyShape
<1>9. o = "ok" /\ call.kind = "write" => word'[call.chain] = call.val
  BY <1>1, <1>3, <1>4, <1>7 DEF Legacy!Writes, Legacy!Obeyed, LegacyShape
<1>10. o = "ok" /\ call.kind = "read" => got' = word'[call.chain]
  BY <1>1, <1>3, <1>4 DEF Legacy!Writes
<1>11. LegacyShape'
  BY <1>2, <1>6, <1>8 DEF LegacyShape
<1>12. Asked'
  BY <1>2, <1>3, <1>4, <1>6 DEF Asked
<1>13. OnItsChain' /\ Obtained'
  BY <1>2, <1>3, <1>6, <1>9, <1>10 DEF OnItsChain, Obtained
<1>14. QED
  BY <1>11, <1>12, <1>13

LEMMA LegacyStep == LegacyInv /\ [Legacy!Next]_(Legacy!vars) => LegacyInv'
<1> SUFFICES ASSUME LegacyInv, [Legacy!Next]_(Legacy!vars) PROVE LegacyInv'
  OBVIOUS
<1>1. CASE UNCHANGED Legacy!vars
  BY <1>1 DEF Legacy!vars, Legacy!callVars, Legacy!unitVars, LegacyInv, LegacyShape,
              Asked, OnItsChain, Obtained
<1>2. CASE Legacy!End
  BY <1>2 DEF Legacy!End, Legacy!callVars, Legacy!unitVars, LegacyInv, LegacyShape,
              Asked, OnItsChain, Obtained
<1>3. CASE Legacy!Step
  BY <1>2, <1>3, SelectedBeforeStep, SetChainStep, PrepareStep, CtrlStep, CtrlReadStep,
     GoStep DEF Legacy!Step
<1>4. QED
  BY <1>1, <1>3, BeginStep DEF Legacy!Next, Legacy!Stop

\* What the runs check of a result follows.
LEMMA LegacyIsTrue == LegacyInv => ResultIsTrue
<1> SUFFICES ASSUME LegacyInv PROVE ResultIsTrue
  OBVIOUS
<1>1. Legacy!TypeOK
  BY DEF LegacyInv, LegacyShape, OnItsChain, Legacy!TypeOK
<1>2. CASE lpc = "returned" /\ lerr = "NONE"
  <2>1. call.kind \in Legacy!Kinds
    BY <1>2 DEF LegacyInv, Asked
  <2>2. QED
    BY <1>1, <1>2, <2>1 DEF LegacyInv, Obtained, ResultIsTrue, Legacy!ResultIsTrue,
                            Legacy!Kinds
<1>3. QED
  BY <1>1, <1>2 DEF ResultIsTrue, Legacy!ResultIsTrue

\* With retries and without, whatever fails and in whatever order, an access to the
\* legacy unit that returns no error has done what it says, in the chain it names
\* (legacy_dbg_go, legacy_dbg_ctrl and their callers): for any chains, number of
\* retries and number of accesses.
THEOREM LegacyResultsAreTrue == Legacy!Spec => []ResultIsTrue
<1>1. LegacyInv /\ [Legacy!Next]_(Legacy!vars) => LegacyInv'
  BY LegacyStep
<1>2. QED
  BY <1>1, LegacyStarts, LegacyIsTrue, PTL DEF Legacy!Spec

-----------------------------------------------------------------------------
(* What an access changes.                                                 *)

\* The words and the control registers: only those the access names change.
LEMMA ChangesAreAsked ==
    ASSUME LegacyInv, Legacy!Step
    PROVE  Legacy!AsAsked
<1> USE DEF LegacyInv, Legacy!callVars, Legacy!unitVars
<1>1. CASE UNCHANGED <<word, ctrl>>
  BY <1>1 DEF Legacy!AsAsked
<1>2. CASE Legacy!Ctrl
  <2>1. UNCHANGED <<call, word>>
    BY <1>2 DEF Legacy!Ctrl
  <2>2. lpc = "ctrl" /\ call.kind = "ctrl" /\ selected = call.chain
    BY <1>2, ItsChain DEF Legacy!Ctrl
  <2>3. Legacy!CtrlBits(call.val) % 2 = call.val % 2
    BY <2>2, ControlBits DEF Asked
  <2>4. ctrl' = [ctrl EXCEPT ![call.chain] = Legacy!CtrlBits(call.val)] \/ ctrl' = ctrl
    BY <1>2, <2>2 DEF Legacy!Ctrl
  <2>5. \A c \in Chains : ctrl'[c] # ctrl[c] =>
            c = call.chain /\ ctrl'[c] = Legacy!CtrlBits(call.val)
    BY <2>4 DEF LegacyShape
  <2>6. QED
    BY <2>1, <2>2, <2>3, <2>5 DEF Legacy!AsAsked
<1>3. CASE Legacy!Go
  <2>1. UNCHANGED <<call, ctrl>>
    BY <1>3 DEF Legacy!Go
  <2>2. /\ lpc = "go" /\ selected = call.chain
        /\ prepared[selected] = [kind |-> call.kind, val |-> call.val]
    BY <1>3, ItsChain DEF Legacy!Go, OnItsChain
  <2>3. \/ word' = word
        \/ /\ call.kind = "write"
           /\ \/ word' = [word EXCEPT ![call.chain] = call.val]
              \/ word' = [word EXCEPT ![call.chain] = Legacy!Junk]
    BY <1>3, <2>2 DEF Legacy!Go, Legacy!Writes
  <2>4. \A c \in Chains : word'[c] # word[c] =>
            /\ call.kind = "write" /\ call.chain = c
            /\ word'[c] \in {call.val, Legacy!Junk}
    BY <2>3 DEF LegacyShape
  <2>5. QED
    BY <2>1, <2>4 DEF Legacy!AsAsked
<1>4. QED
  BY <1>1, <1>2, <1>3 DEF Legacy!Step, Legacy!SelectedBefore, Legacy!SetChain,
                          Legacy!Command, Legacy!CtrlRead, Legacy!End

\* An exchange with the TAP out of step has no answer.
LEMMA OutOfStep ==
    ASSUME LegacyInv, Legacy!Step, ltap # "idle"
    PROVE  Legacy!StaysLost
<1> USE DEF LegacyInv, Legacy!callVars, Legacy!unitVars
<1>1. CASE Legacy!SelectedBefore \/ Legacy!End
  BY <1>1 DEF Legacy!SelectedBefore, Legacy!End, Legacy!StaysLost
<1>2. CASE Legacy!Go
  <2>1. ~Legacy!Writes
    BY DEF Legacy!Writes, Legacy!Heard, Legacy!SetShiftDr, LegacyShape
  <2>2. PICK o \in Legacy!Outcomes :
            IF Legacy!Failed(o) THEN Legacy!GiveUp(o) ELSE Legacy!Succeed("returned")
    BY <1>2 DEF Legacy!Go
  <2>3. o = "silent"
    BY OutcomesAre
  <2>4. ltap' # "idle"
    BY <2>2, <2>3, GivenUp DEF Legacy!Failed
  <2>5. UNCHANGED <<selected, prepared, word, ctrl>>
    BY <1>2, <2>1 DEF Legacy!Go
  <2>6. QED
    BY <2>4, <2>5 DEF Legacy!StaysLost
<1>3. ASSUME NEW o \in Legacy!Outcomes, NEW next, Legacy!Conclude(o, next)
      PROVE  o = "silent" /\ (ltap' # "idle" \/ soft_retry_no' > soft_retry_no)
  BY <1>3, OutcomesAre, Conclusions
<1>4. CASE Legacy!SetChain
  BY <1>3, <1>4 DEF Legacy!SetChain, Legacy!Obeyed, Legacy!StaysLost
<1>5. CASE Legacy!Command
  BY <1>3, <1>5 DEF Legacy!Command, Legacy!Obeyed, Legacy!StaysLost
<1>6. CASE Legacy!Ctrl
  BY <1>3, <1>6 DEF Legacy!Ctrl, Legacy!Obeyed, Legacy!StaysLost
<1>7. CASE Legacy!CtrlRead
  BY <1>3, <1>7 DEF Legacy!CtrlRead, Legacy!StaysLost
<1>8. QED
  BY <1>1, <1>2, <1>4, <1>5, <1>6, <1>7 DEF Legacy!Step

LEMMA EveryStepIsAsked ==
    LegacyInv /\ [Legacy!Next]_(Legacy!vars) =>
        [Legacy!AsAsked /\ Legacy!StaysLost]_legacyVars
<1> SUFFICES ASSUME LegacyInv, [Legacy!Next]_(Legacy!vars)
             PROVE  [Legacy!AsAsked /\ Legacy!StaysLost]_legacyVars
  OBVIOUS
<1>1. CASE UNCHANGED Legacy!vars
  BY <1>1 DEF Legacy!vars, Legacy!callVars, Legacy!unitVars, legacyVars
<1>2. CASE Legacy!Step
  <2>1. Legacy!StaysLost
    BY <1>2, OutOfStep DEF Legacy!StaysLost
  <2>2. QED
    BY <1>2, <2>1, ChangesAreAsked
<1>3. ASSUME NEW kind \in Legacy!Kinds, NEW chain \in Chains,
             NEW val \in Legacy!Data(kind), Legacy!Begin(kind, chain, val)
      PROVE  Legacy!AsAsked /\ Legacy!StaysLost
  BY <1>3 DEF Legacy!Begin, Legacy!unitVars, Legacy!AsAsked, Legacy!StaysLost
<1>4. QED
  BY <1>1, <1>2, <1>3 DEF Legacy!Next, Legacy!Stop

\* Whatever fails, an access to the legacy unit changes only the word or the control
\* register it names, to what it was given or to a word that was garbled; and while
\* the TAP is out of step nothing reaches the unit, and only a retry, which resets
\* the TAP, brings it back (the returns without tap_exit_to_idle).
THEOREM AccessesAreAsAsked == Legacy!Spec => OnlyAsAsked
<1>1. LegacyInv /\ [Legacy!Next]_(Legacy!vars) => LegacyInv'
  BY LegacyStep
<1>2. LegacyInv /\ [Legacy!Next]_(Legacy!vars) =>
          [Legacy!AsAsked /\ Legacy!StaysLost]_legacyVars
  BY EveryStepIsAsked
<1>3. QED
  BY <1>1, <1>2, LegacyStarts, PTL DEF Legacy!Spec, OnlyAsAsked

=============================================================================

-------------------------- MODULE CableStreamProofs ---------------------------
(***************************************************************************)
(* Proofs about CableStream, for bytes, words and packets of any size,     *)
(* streams of any length, and both drivers: what is clocked into the chain *)
(* is the stream, and what comes back is put where it belongs.             *)
(***************************************************************************)
EXTENDS CableStream, SequenceTheorems, TLAPS

\* The first n bits of the stream, as the chain is to see them.
ClockedBits(n) == [k \in 1 .. n |-> Clocked(k - 1)]

Calls ==
    /\ fun \in {"write", "read"} /\ len_bits \in Nat \ {0} /\ set_last_bit \in BOOLEAN
    /\ err \in BOOLEAN /\ tck \in BOOLEAN /\ lost \in BOOLEAN

\* How far a call has come, by place.
Progress ==
    /\ done \in 0 .. bytes /\ bit \in 0 .. leftover
    /\ pc = "low" => done = 0 /\ total = 0 /\ bytes > 0
    /\ pc \in {"low", "packet", "answer"} => bit = 0
    /\ pc = "packet" => done < bytes /\ total <= done
    /\ pc = "answer" => /\ fun = "read"
                        /\ xfer \in 1 .. bytes - done /\ total <= done + received
                        /\ received >= 0 /\ retries < RETRIES
    /\ pc = "bits" => bit < leftover

\* Only an answer without its status takes a count below zero.
Counts ==
    /\ xfer \in Nat /\ received \in Int /\ received <= xfer
    /\ total \in Int /\ total <= bytes
    /\ received < 0 \/ total < 0 => short
    /\ retries \in 0 .. RETRIES

\* What the chain has seen, and what it answers, is made of bits of the stream.
Clocks == [bit : Tokens, tms : BOOLEAN]
Octets == [1 .. BYTE -> Tokens]

Bits ==
    /\ wire \in Seq(Clocks) /\ fifo \in Seq(Octets)
    /\ \A i \in DOMAIN instream : instream[i] \subseteq Tokens
    /\ pc # "idle" => DOMAIN instream = WordsOf(len_bits)

TypeInv ==
    /\ pc \in {"idle", "low", "packet", "answer", "bits", "crashed"}
    /\ Calls /\ Progress /\ Counts /\ Bits

\* No failure is forgotten: there was none, or it is remembered as an error.
Honest == ~lost \/ (Heard /\ fun = "read" /\ ~err)

\* The bits of the stream that are clocked by now.
Sent ==
    IF pc = "low" THEN 0
    ELSE IF pc = "packet" THEN done * BYTE
    ELSE IF pc = "answer" THEN (done + xfer) * BYTE
    ELSE IF pc = "bits" THEN bytes * BYTE + bit
    ELSE len_bits

ClockInv ==
    Honest /\ pc # "crashed" /\ (pc = "idle" => ~err) =>
        /\ wire = ClockedBits(Sent)
        /\ pc \in {"packet", "answer"} => ~tck

\* The words are clear, or those the first bits go to are.
AllClear == \A i \in DOMAIN instream : instream[i] = {}

PlaceInv ==
    fun = "read" /\ ~lost /\ bytes <= MAX_READ =>
        /\ ~short
        /\ pc # "answer" => fifo = <<>>
        /\ pc = "packet" => done = 0 /\ AllClear
        /\ pc = "answer" => /\ done = 0 /\ received = 0 /\ total = 0 /\ xfer = bytes
                            /\ fifo = [k \in 1 .. bytes |-> ByteOf(k - 1)]
                            /\ AllClear
        /\ pc = "bits" => \A i \in DOMAIN instream :
               /\ i < bytes * BYTE + bit => instream[i] = {i}
               /\ i >= bytes * BYTE + bit /\ bytes + bit > 0 => instream[i] = {}
        /\ pc = "idle" /\ ~err => \A i \in 0 .. len_bits - 1 : instream[i] = {i}

CableInv == TypeInv /\ ClockInv /\ PlaceInv

-----------------------------------------------------------------------------
(* Bits and bytes.                                                         *)

LEMMA Division ==
    ASSUME NEW C \in Nat \ {0}, NEW n \in Nat
    PROVE  /\ n \div C \in Nat /\ n % C \in 0 .. C - 1
           /\ n = C * (n \div C) + (n % C)
  OBVIOUS

LEMMA Multiples ==
    ASSUME NEW C \in Nat \ {0}, NEW q \in Nat, NEW r \in Nat, q < r
    PROVE  C * q + C <= C * r /\ C * q \in Nat
  <1>1. r - q - 1 \in Nat /\ C * (r - q - 1) >= 0
    OBVIOUS
  <1>2. C * r = C * q + C + C * (r - q - 1)
    OBVIOUS
  <1> QED
    BY <1>1, <1>2

\* All bytes of a stream but what is left over, which is at most a byte, and at
\* least a bit if TMS goes with the last one.
LEMMA Split ==
    ASSUME CableAssumption, NEW len \in Nat \ {0}, NEW last \in BOOLEAN
    PROVE  /\ BytesToTransfer(len, last) \in Nat
           /\ BytesToTransfer(len, last) * BYTE \in Nat
           /\ BytesToTransfer(len, last) * BYTE <= len
           /\ last => BytesToTransfer(len, last) * BYTE < len
           /\ len - BytesToTransfer(len, last) * BYTE <= BYTE
  <1> DEFINE q == len \div BYTE
             m == len % BYTE
  <1>1. BYTE \in Nat \ {0}
    BY DEF CableAssumption
  <1>2. q \in Nat /\ m \in 0 .. BYTE - 1 /\ len = BYTE * q + m
    BY <1>1, Division
  <1>3. BytesToTransfer(len, last) = q - (IF last /\ m = 0 THEN 1 ELSE 0)
    BY DEF BytesToTransfer
  <1> HIDE DEF q, m
  <1>4. BYTE * q \in Nat
    BY <1>1, <1>2
  <1>5. CASE last /\ m = 0
    <2>1. q > 0
      BY <1>1, <1>2, <1>5
    <2>2. (q - 1) * BYTE = BYTE * q - BYTE /\ (q - 1) * BYTE \in Nat
      BY <1>1, <1>2, <2>1
    <2>3. q - 1 \in Nat
      BY <1>2, <2>1
    <2>4. BytesToTransfer(len, last) = q - 1
      BY <1>2, <1>3, <1>5
    <2>5. len = (q - 1) * BYTE + BYTE
      BY <1>1, <1>2, <1>4, <1>5, <2>2
    <2> DEFINE p == (q - 1) * BYTE
    <2> HIDE DEF p
    <2>6. p \in Nat /\ p <= len /\ p < len /\ len - p <= BYTE
      BY <1>1, <2>2, <2>5 DEF p
    <2> QED
      BY <2>3, <2>4, <2>6 DEF p
  <1>6. CASE ~(last /\ m = 0)
    <2>1. BytesToTransfer(len, last) = q
      BY <1>2, <1>3, <1>6
    <2>2. q * BYTE = BYTE * q
      BY <1>1, <1>2
    <2> QED
      BY <1>1, <1>2, <1>4, <1>6, <2>1, <2>2
  <1> QED
    BY <1>5, <1>6

LEMMA Parts ==
    ASSUME CableAssumption, Calls
    PROVE  /\ BYTE \in Nat \ {0}
           /\ bytes \in Nat /\ bytes * BYTE \in Nat /\ leftover \in Nat
           /\ len_bits = bytes * BYTE + leftover /\ leftover <= BYTE
           /\ set_last_bit => leftover > 0
  <1>1. BYTE \in Nat \ {0}
    BY DEF CableAssumption
  <1> QED
    BY <1>1, Split DEF Calls, bytes, leftover

\* Byte n of the stream is made of bits of the stream.
LEMMA BitsOfByte ==
    ASSUME CableAssumption, Calls, NEW n \in 0 .. bytes - 1, NEW j \in 0 .. BYTE - 1
    PROVE  /\ n * BYTE + j \in Nat /\ n * BYTE + j < bytes * BYTE
           /\ ByteOf(n) \in [1 .. BYTE -> Tokens]
           /\ ByteOf(n)[j + 1] = n * BYTE + j
  <1>1. BYTE \in Nat \ {0} /\ bytes \in Nat /\ n \in Nat /\ bytes * BYTE \in Nat
        /\ leftover \in Nat /\ len_bits = bytes * BYTE + leftover
    BY Parts
  <1>2. n * BYTE + BYTE <= bytes * BYTE /\ n * BYTE \in Nat
    <2> DEFINE b == bytes
    <2>1. n < b /\ b \in Nat
      BY <1>1
    <2> HIDE DEF b
    <2>2. BYTE * n + BYTE <= BYTE * b /\ BYTE * n \in Nat
      BY <1>1, <2>1, Multiples
    <2>3. BYTE * n = n * BYTE /\ BYTE * b = b * BYTE
      BY <1>1, <2>1
    <2> QED
      BY <2>2, <2>3 DEF b
  <1>3. n * BYTE + j \in Nat /\ n * BYTE + j < bytes * BYTE
    BY <1>1, <1>2
  <1>4. ASSUME NEW i \in 1 .. BYTE
        PROVE  n * BYTE + i - 1 \in Tokens
    BY <1>1, <1>2 DEF Tokens
  <1>5. ByteOf(n) \in [1 .. BYTE -> Tokens]
    BY <1>4 DEF ByteOf
  <1>6. ByteOf(n)[j + 1] = n * BYTE + j
    <2>1. j + 1 \in 1 .. BYTE /\ n * BYTE + (j + 1) - 1 = n * BYTE + j
      BY <1>1, <1>2
    <2> QED
      BY <2>1 DEF ByteOf
  <1> QED
    BY <1>3, <1>5, <1>6

LEMMA ShiftedType ==
    ASSUME CableAssumption, Calls, NEW n \in 0 .. bytes - 1
    PROVE  Shifted(n) \in [1 .. BYTE -> Tokens]
  <1>1. 0 \in 0 .. BYTE - 1
    BY Parts
  <1>2. Stale \in Tokens
    BY DEF Tokens
  <1> QED
    BY <1>1, <1>2, BitsOfByte DEF Shifted

-----------------------------------------------------------------------------
(* Types.                                                                  *)

LEMMA SameCall ==
    ASSUME UNCHANGED callVars
    PROVE  /\ bytes' = bytes /\ leftover' = leftover /\ Tokens' = Tokens
           /\ Clocks' = Clocks /\ Octets' = Octets
           /\ WordsOf(len_bits)' = WordsOf(len_bits)
           /\ fun' = fun /\ len_bits' = len_bits /\ set_last_bit' = set_last_bit
           /\ \A i : Clocked(i)' = Clocked(i)
  BY DEF callVars, bytes, leftover, BytesToTransfer, Tokens, Clocks, Octets, WordsOf,
         Clocked

LEMMA AfterPacketsType ==
    ASSUME CableAssumption, TypeInv, UNCHANGED callVars,
           NEW e \in BOOLEAN, AfterPackets(e), bit' = bit, bit = 0, done' \in 0 .. bytes
    PROVE  /\ pc' \in {"idle", "bits"} /\ err' \in BOOLEAN
           /\ Progress'
  <1>1. pc' \in {"idle", "bits"} /\ err' \in BOOLEAN
    BY DEF AfterPackets, Return
  <1>2. pc' = "bits" => leftover # 0
    BY DEF AfterPackets, Return
  <1>3. leftover \in Nat /\ bytes' = bytes /\ leftover' = leftover
    BY Parts, SameCall DEF TypeInv
  <1> QED
    BY <1>1, <1>2, <1>3 DEF Progress

LEMMA TypeInit ==
    ASSUME CableAssumption, Init
    PROVE  TypeInv
  <1>1. Calls
    <2>1. len_bits \in Nat \ {0} /\ fun \in {"write", "read"}
      BY DEF Init
    <2>2. /\ set_last_bit \in BOOLEAN /\ err \in BOOLEAN
          /\ tck \in BOOLEAN /\ lost \in BOOLEAN
      BY Zenon DEF Init
    <2> QED
      BY <2>1, <2>2 DEF Calls
  <1>2. bytes \in Nat /\ leftover \in Nat
    BY <1>1, Parts
  <1>3. Progress
    BY <1>2 DEF Init, Progress
  <1>4. Counts
    BY <1>2 DEF Init, Counts, CableAssumption
  <1>5. Bits
    <2>1. wire = <<>> /\ fifo = <<>> /\ instream = <<>> /\ pc = "idle"
      BY DEF Init
    <2> QED
      BY <2>1, EmptySeq DEF Bits
  <1> QED
    BY <1>1, <1>3, <1>4, <1>5 DEF TypeInv, Init

LEMMA CallType ==
    ASSUME CableAssumption, TypeInv, NEW f \in {"write", "read"},
           NEW len \in Lengths, NEW last \in BOOLEAN, Call(f, len, last)
    PROVE  TypeInv'
  <1>1. Calls'
    BY DEF Calls, Call, CableAssumption, TypeInv
  <1>2. bytes' = BytesToTransfer(len, last) /\ len_bits' = len /\ len \in Nat \ {0}
    BY DEF bytes, BytesToTransfer, Call, CableAssumption
  <1>3. bytes' \in Nat /\ leftover' \in Nat /\ leftover' = len - bytes' * BYTE
    BY <1>2, Split DEF leftover
  <1>4. Progress'
    <2>1. bytes' = 0 => leftover' > 0
      <3>1. BYTE \in Nat /\ 0 * BYTE = 0
        BY DEF CableAssumption
      <3> QED
        BY <1>2, <1>3, <3>1
    <2> QED
      BY <1>2, <1>3, <2>1 DEF Progress, Call
  <1>5. Counts'
    BY <1>3 DEF Call, Counts, CableAssumption
  <1>6. Bits'
    <2>1. Stale \in Tokens'
      BY DEF Tokens
    <2>2. wire' \in Seq(Clocks')
      BY EmptySeq DEF Call
    <2>3. fifo' \in Seq(Octets')
      <3>1. fifo \in Seq(Octets)
        BY DEF TypeInv, Bits
      <3>2. Len(fifo) \in Nat /\ fifo \in [1 .. Len(fifo) -> Octets]
        BY <3>1, LenProperties
      <3>3. fifo' = [k \in 1 .. Len(fifo) |-> [j \in 1 .. BYTE |-> Stale]]
        BY <3>2 DEF Call, Octets
      <3>4. fifo' \in [1 .. Len(fifo) -> Octets']
        BY <2>1, <3>3 DEF Octets
      <3> QED
        BY <3>2, <3>4, SeqDef
    <2>4. /\ \A i \in DOMAIN instream' : instream'[i] \subseteq Tokens'
          /\ DOMAIN instream' = WordsOf(len_bits')
      BY <1>2, <2>1 DEF Call
    <2> QED
      BY <2>2, <2>3, <2>4 DEF Bits, WordsOf
  <1>7. pc' \in {"low", "bits"}
    BY DEF Call
  <1> QED
    BY <1>1, <1>4, <1>5, <1>6, <1>7 DEF TypeInv

LEMMA ClockedBitsSeq ==
    ASSUME Calls, NEW n \in 0 .. len_bits
    PROVE  /\ ClockedBits(n) \in Seq(Clocks) /\ Len(ClockedBits(n)) = n
           /\ \A k \in 1 .. n : ClockedBits(n)[k] = Clocked(k - 1)
  <1>1. n \in Nat /\ len_bits \in Nat
    BY DEF Calls
  <1>2. ASSUME NEW k \in 1 .. n
        PROVE  Clocked(k - 1) \in Clocks
    <2>1. k - 1 \in Tokens
      BY <1>1 DEF Tokens
    <2>2. (set_last_bit /\ k - 1 = len_bits - 1) \in BOOLEAN
      OBVIOUS
    <2> QED
      BY <2>1, <2>2 DEF Clocked, Clocks
  <1>3. ClockedBits(n) \in [1 .. n -> Clocks]
    BY <1>2 DEF ClockedBits
  <1>4. ClockedBits(n) \in Seq(Clocks) /\ Len(ClockedBits(n)) = n
    <2> DEFINE c == ClockedBits(n)
    <2>1. c \in [1 .. n -> Clocks]
      BY <1>3
    <2> HIDE DEF c
    <2>2. c \in Seq(Clocks) /\ Len(c) = n
      BY <1>1, <2>1, SeqDef
    <2> QED
      BY <2>2 DEF c
  <1> QED
    BY <1>4 DEF ClockedBits

\* Bytes that are shifted with the clock low are the next ones of the stream, and
\* its last bit is none of theirs if TMS goes with it.
LEMMA ShiftSends ==
    ASSUME CableAssumption, Calls, wire \in Seq(Clocks),
           done \in Nat, NEW n \in Nat \ {0}, done + n <= bytes, Shift(n)
    PROVE  /\ wire' \in Seq(Clocks)
           /\ ~tck /\ wire = ClockedBits(done * BYTE) =>
                  wire' = ClockedBits((done + n) * BYTE)
  <1> DEFINE place(k) == done + (k - 1) \div BYTE
             at(k) == ((k - 1) % BYTE) + 1
             add == [k \in 1 .. n * BYTE |-> [bit |-> Shifted(place(k))[at(k)], tms |-> FALSE]]
             m == n * BYTE
             d == done * BYTE
  <1>1. /\ BYTE \in Nat \ {0} /\ bytes \in Nat /\ bytes * BYTE \in Nat /\ leftover \in Nat
        /\ len_bits = bytes * BYTE + leftover /\ (set_last_bit => leftover > 0)
    BY Parts
  <1>2. m \in Nat /\ d \in Nat /\ (done + n) * BYTE = d + m
    BY <1>1
  <1>3. d + m <= bytes * BYTE
    <2> DEFINE b == bytes
               p == done + n
    <2>1. p \in Nat /\ b \in Nat /\ p <= b
      BY <1>1
    <2> HIDE DEF p, b
    <2>2. p * BYTE <= b * BYTE
      <3>1. CASE p = b
        BY <1>1, <2>1, <3>1
      <3>2. CASE p < b
        <4>1. BYTE * p + BYTE <= BYTE * b /\ BYTE * p \in Nat
          BY <1>1, <2>1, <3>2, Multiples
        <4>2. BYTE * p = p * BYTE /\ BYTE * b = b * BYTE /\ BYTE * b \in Nat
          BY <1>1, <2>1
        <4> DEFINE x == BYTE * p
                   y == BYTE * b
        <4> HIDE DEF x, y
        <4>3. x + BYTE <= y /\ x \in Nat /\ y \in Nat /\ BYTE \in Nat
          BY <1>1, <4>1, <4>2 DEF x, y
        <4>4. x <= y
          BY <4>3
        <4> QED
          BY <4>2, <4>4 DEF x, y
      <3> QED
        BY <2>1, <3>1, <3>2
    <2> QED
      BY <1>2, <2>2 DEF b, p
  <1>4. ASSUME NEW k \in 1 .. m
        PROVE  /\ place(k) \in 0 .. bytes - 1 /\ at(k) \in 1 .. BYTE
               /\ place(k) * BYTE + (at(k) - 1) = d + k - 1
               /\ Shifted(place(k))[at(k)] \in Tokens
               /\ ~tck => Shifted(place(k))[at(k)] = d + k - 1
    <2> DEFINE q == (k - 1) \div BYTE
               r == (k - 1) % BYTE
               p == done + q
    <2>1. q \in Nat /\ r \in 0 .. BYTE - 1 /\ k - 1 = BYTE * q + r
      <3> HIDE DEF m
      <3>1. k - 1 \in Nat
        BY <1>2
      <3> QED
        BY <1>1, <3>1, Division
    <2> HIDE DEF q, r
    <2>2. q < n
      <3>1. CASE q = n
        BY <1>1, <1>2, <2>1, <3>1
      <3>2. CASE q > n
        <4>1. BYTE * n + BYTE <= BYTE * q /\ BYTE * n \in Nat
          BY <1>1, <2>1, <3>2, Multiples
        <4>2. BYTE * n = m
          BY <1>1
        <4> QED
          BY <1>1, <1>2, <2>1, <4>1, <4>2
      <3> QED
        BY <2>1, <3>1, <3>2
    <2>3. p \in 0 .. bytes - 1
      BY <1>1, <2>1, <2>2
    <2>4. p * BYTE + r = d + k - 1
      <3>1. p * BYTE = d + q * BYTE /\ q * BYTE = BYTE * q
        BY <1>1, <2>1
      <3>2. BYTE * q \in Nat
        BY <1>1, <2>1
      <3> QED
        BY <1>2, <2>1, <3>1, <3>2
    <2>5. r + 1 \in 1 .. BYTE /\ (r + 1) - 1 = r
      BY <1>1, <2>1
    <2>6. place(k) = p /\ at(k) = r + 1
      BY DEF q, r
    <2> HIDE DEF p, place, at
    <2>7. Shifted(p)[r + 1] \in Tokens
      BY <2>3, <2>5, ShiftedType
    <2>8. ~tck => Shifted(p)[r + 1] = p * BYTE + r
      BY <2>1, <2>3, BitsOfByte DEF Shifted
    <2> QED
      BY <2>3, <2>4, <2>5, <2>6, <2>7, <2>8
  <1>5. wire' = wire \o add
    BY DEF Shift
  <1>6. add \in [1 .. m -> Clocks]
    BY <1>4 DEF Clocks
  <1>7. \A k \in 1 .. m : add[k] = [bit |-> Shifted(place(k))[at(k)], tms |-> FALSE]
    OBVIOUS
  <1> HIDE DEF add, m, d, place, at
  <1>8. add \in Seq(Clocks) /\ Len(add) = m
    BY <1>2, <1>6, SeqDef
  <1>9. wire' \in Seq(Clocks)
    BY <1>5, <1>8, ConcatProperties
  <1>10. ASSUME ~tck, wire = ClockedBits(d)
         PROVE  wire' = ClockedBits(d + m)
    <2>1. d \in 0 .. len_bits /\ d + m \in 0 .. len_bits
      BY <1>1, <1>2, <1>3
    <2>2. Len(wire) = d /\ \A k \in 1 .. d : wire[k] = Clocked(k - 1)
      BY <1>10, <2>1, ClockedBitsSeq
    <2>3. /\ ClockedBits(d + m) \in Seq(Clocks) /\ Len(ClockedBits(d + m)) = d + m
          /\ \A k \in 1 .. d + m : ClockedBits(d + m)[k] = Clocked(k - 1)
      BY <2>1, ClockedBitsSeq
    <2>4. /\ Len(wire') = d + m
          /\ \A k \in 1 .. d + m : wire'[k] = IF k <= d THEN wire[k] ELSE add[k - d]
      BY <1>5, <1>8, <2>2, ConcatProperties
    <2>5. ASSUME NEW k \in 1 .. d + m
          PROVE  wire'[k] = Clocked(k - 1)
      <3>1. CASE k <= d
        BY <1>2, <2>2, <2>4, <3>1
      <3>2. CASE k > d
        <4>1. k - d \in 1 .. m /\ d + (k - d) - 1 = k - 1
          BY <1>2, <3>2
        <4>2. wire'[k] = add[k - d]
          BY <1>2, <2>4, <3>2
        <4>3. add[k - d] = [bit |-> k - 1, tms |-> FALSE]
          BY <1>4, <1>7, <1>10, <4>1
        <4>4. ~(set_last_bit /\ k - 1 = len_bits - 1)
          <5>1. k - 1 < bytes * BYTE
            BY <1>1, <1>2, <1>3
          <5>2. ASSUME set_last_bit
                PROVE  k - 1 # len_bits - 1
            <6>1. leftover > 0
              BY <1>1, <5>2
            <6> QED
              BY <1>1, <1>2, <5>1, <6>1
          <5> QED
            BY <5>2
        <4> QED
          BY <4>2, <4>3, <4>4 DEF Clocked
      <3> QED
        BY <1>2, <3>1, <3>2
    <2> QED
      BY <1>9, <2>3, <2>4, <2>5, SeqEqual
  <1> QED
    BY <1>2, <1>9, <1>10 DEF d

LEMMA BitSends ==
    ASSUME Calls, wire \in Seq(Clocks), NEW i \in 0 .. len_bits - 1,
           wire' = Append(wire, Clocked(i))
    PROVE  /\ wire' \in Seq(Clocks)
           /\ wire = ClockedBits(i) => wire' = ClockedBits(i + 1)
  <1>1. len_bits \in Nat /\ i \in 0 .. len_bits /\ i + 1 \in 0 .. len_bits /\ i \in Nat
    BY DEF Calls
  <1>2. /\ ClockedBits(i + 1) \in Seq(Clocks) /\ Len(ClockedBits(i + 1)) = i + 1
        /\ \A k \in 1 .. i + 1 : ClockedBits(i + 1)[k] = Clocked(k - 1)
    BY <1>1, ClockedBitsSeq
  <1>3. Clocked(i) \in Clocks
    <2>1. ClockedBits(i + 1)[i + 1] = Clocked((i + 1) - 1) /\ (i + 1) - 1 = i
      BY <1>1, <1>2
    <2>2. ClockedBits(i + 1)[i + 1] \in Clocks
      BY <1>1, <1>2, ElementOfSeq
    <2> QED
      BY <2>1, <2>2
  <1>4. /\ wire' \in Seq(Clocks) /\ Len(wire') = Len(wire) + 1
        /\ \A k \in 1 .. Len(wire) : wire'[k] = wire[k]
        /\ wire'[Len(wire) + 1] = Clocked(i)
    BY <1>3, AppendProperties
  <1>5. ASSUME wire = ClockedBits(i)
        PROVE  wire' = ClockedBits(i + 1)
    <2>1. Len(wire) = i /\ \A k \in 1 .. i : wire[k] = Clocked(k - 1)
      BY <1>1, <1>5, ClockedBitsSeq
    <2>2. ASSUME NEW k \in 1 .. i + 1
          PROVE  wire'[k] = ClockedBits(i + 1)[k]
      <3>1. CASE k <= i
        BY <1>1, <1>2, <1>4, <2>1, <3>1
      <3>2. CASE k = i + 1
        <4>1. k - 1 = i
          BY <1>1, <3>2
        <4> QED
          BY <1>1, <1>2, <1>4, <2>1, <3>2, <4>1
      <3>3. k <= i \/ k = i + 1
        BY <1>1
      <3> QED
        BY <3>1, <3>2, <3>3
    <2> QED
      BY <1>2, <1>4, <2>1, <2>2, SeqEqual
  <1> QED
    BY <1>4, <1>5

LEMMA LowerClockType ==
    ASSUME CableAssumption, TypeInv, LowerClock
    PROVE  TypeInv'
  <1>1. /\ bytes' = bytes /\ leftover' = leftover /\ Tokens' = Tokens
        /\ Clocks' = Clocks /\ Octets' = Octets
        /\ WordsOf(len_bits)' = WordsOf(len_bits)
        /\ fun' = fun /\ len_bits' = len_bits /\ set_last_bit' = set_last_bit
    BY SameCall DEF LowerClock
  <1>2. pc = "low" /\ pc' \in {"packet", "idle"}
    BY DEF LowerClock, Return
  <1>3. err' \in BOOLEAN /\ tck' \in BOOLEAN /\ lost' \in BOOLEAN
    BY DEF LowerClock, Return, TypeInv, Calls
  <1>4. Calls'
    BY <1>1, <1>3 DEF TypeInv, Calls
  <1>5. /\ done' = done /\ bit' = bit /\ xfer' = xfer /\ received' = received
        /\ total' = total /\ retries' = retries /\ short' = short
        /\ wire' = wire /\ fifo' = fifo
    BY DEF LowerClock, answerVars
  <1>6. Progress' /\ Counts'
    BY <1>1, <1>2, <1>5 DEF TypeInv, Progress, Counts
  <1>7. Bits'
    <2>1. instream' = IF fun = "read" THEN [i \in DOMAIN instream |-> {}] ELSE instream
      BY DEF LowerClock
    <2>2. DOMAIN instream' = DOMAIN instream
      BY <2>1
    <2>3. \A i \in DOMAIN instream : instream'[i] \subseteq Tokens
      BY <2>1 DEF TypeInv, Bits
    <2> QED
      BY <1>1, <1>2, <1>5, <2>2, <2>3 DEF TypeInv, Bits
  <1> QED
    BY <1>2, <1>4, <1>6, <1>7 DEF TypeInv

LEMMA WritePacketType ==
    ASSUME CableAssumption, TypeInv, WritePacket
    PROVE  TypeInv'
  <1> DEFINE n == LowestOf(MAX_WRITE, bytes - done)
  <1>1. /\ bytes' = bytes /\ leftover' = leftover /\ Tokens' = Tokens
        /\ Clocks' = Clocks /\ Octets' = Octets
        /\ WordsOf(len_bits)' = WordsOf(len_bits)
        /\ fun' = fun /\ len_bits' = len_bits /\ set_last_bit' = set_last_bit
    BY SameCall DEF WritePacket
  <1>2. /\ pc = "packet" /\ bit' = bit /\ bit = 0
        /\ xfer' = xfer /\ received' = received /\ total' = total /\ retries' = retries
        /\ short' = short /\ instream' = instream /\ fifo' = fifo /\ tck' = tck
    BY DEF WritePacket, answerVars, TypeInv, Progress
  <1>3. bytes \in Nat /\ done \in 0 .. bytes - 1 /\ leftover \in Nat /\ total \in Int
        /\ total <= done
    BY <1>2, Parts DEF TypeInv, Progress, Counts
  <1>4. n \in Nat \ {0} /\ done + n <= bytes
    BY <1>3 DEF LowestOf, CableAssumption
  <1> HIDE DEF n
  <1>5. CASE Shift(n) /\ done' = done + n /\ lost' = lost
             /\ (IF done' = bytes THEN AfterPackets(err) ELSE UNCHANGED <<pc, err>>)
    <2>1. wire' \in Seq(Clocks)
      BY <1>3, <1>4, <1>5, ShiftSends DEF TypeInv, Bits
    <2>2. done' \in 0 .. bytes
      BY <1>3, <1>4, <1>5
    <2>3. pc' \in {"idle", "bits", "packet"} /\ err' \in BOOLEAN /\ Progress'
      <3>1. CASE done' = bytes
        BY <1>2, <1>5, <2>2, <3>1, AfterPacketsType DEF WritePacket, TypeInv, Calls
      <3>2. CASE done' # bytes
        <4>1. pc' = "packet" /\ err' = err
          BY <1>2, <1>5, <3>2
        <4>2. total' <= done' /\ done' < bytes'
          BY <1>1, <1>2, <1>3, <1>4, <1>5, <2>2, <3>2
        <4> QED
          BY <1>1, <1>2, <1>3, <2>2, <4>1, <4>2 DEF Progress, TypeInv, Calls
      <3> QED
        BY <3>1, <3>2
    <2>4. Calls'
      BY <1>1, <1>2, <1>5, <2>3 DEF TypeInv, Calls
    <2>5. Counts' /\ Bits'
      BY <1>1, <1>2, <2>1, <2>3 DEF TypeInv, Counts, Bits
    <2> QED
      BY <2>3, <2>4, <2>5 DEF TypeInv
  <1>6. CASE lost' = TRUE /\ AfterPackets(TRUE) /\ UNCHANGED <<done, wire>>
    <2>1. done' \in 0 .. bytes
      BY <1>3, <1>6
    <2>2. pc' \in {"idle", "bits"} /\ err' \in BOOLEAN /\ Progress'
      BY <1>2, <1>6, <2>1, AfterPacketsType DEF WritePacket
    <2>3. Calls'
      BY <1>1, <1>2, <1>6, <2>2 DEF TypeInv, Calls
    <2>4. Counts' /\ Bits'
      BY <1>1, <1>2, <1>6, <2>2 DEF TypeInv, Counts, Bits
    <2> QED
      BY <2>2, <2>3, <2>4 DEF TypeInv
  <1> QED
    BY <1>5, <1>6 DEF WritePacket, n

LEMMA ReadPacketType ==
    ASSUME CableAssumption, TypeInv, ReadPacket
    PROVE  TypeInv'
  <1> DEFINE n == LowestOf(MAX_READ, bytes - done)
             add == [k \in 1 .. n |-> Shifted(done + k - 1)]
  <1>1. /\ bytes' = bytes /\ leftover' = leftover /\ Tokens' = Tokens
        /\ Clocks' = Clocks /\ Octets' = Octets
        /\ WordsOf(len_bits)' = WordsOf(len_bits)
        /\ fun' = fun /\ len_bits' = len_bits /\ set_last_bit' = set_last_bit
    BY SameCall DEF ReadPacket
  <1>2. /\ pc = "packet" /\ fun = "read" /\ bit' = bit /\ bit = 0 /\ done' = done
        /\ total' = total /\ short' = short /\ instream' = instream /\ tck' = tck
    BY DEF ReadPacket, TypeInv, Progress
  <1>3. bytes \in Nat /\ done \in 0 .. bytes - 1 /\ leftover \in Nat /\ total \in Int
        /\ total <= done
    BY <1>2, Parts DEF TypeInv, Progress, Counts
  <1>4. n \in Nat \ {0} /\ done + n <= bytes
    BY <1>3 DEF LowestOf, CableAssumption
  <1>5. add \in [1 .. n -> Octets]
    <2>1. ASSUME NEW k \in 1 .. n
          PROVE  done + k - 1 \in 0 .. bytes - 1
      <3> HIDE DEF n
      <3> QED
        BY <1>3, <1>4
    <2> QED
      BY <2>1, ShiftedType DEF Octets, TypeInv
  <1>6. CASE /\ Shift(n) /\ fifo' = fifo \o add
             /\ xfer' = n /\ received' = 0 /\ retries' = 0
             /\ pc' = "answer" /\ UNCHANGED <<err, lost>>
    <2> HIDE DEF n, add
    <2>1. wire' \in Seq(Clocks)
      BY <1>3, <1>4, <1>6, ShiftSends DEF TypeInv, Bits
    <2>2. fifo' \in Seq(Octets)
      <3>1. add \in Seq(Octets)
        BY <1>4, <1>5, SeqDef
      <3> QED
        BY <1>6, <3>1, ConcatProperties DEF TypeInv, Bits
    <2>3. Calls'
      BY <1>1, <1>2, <1>6 DEF TypeInv, Calls
    <2>4. RETRIES \in Nat \ {0}
      BY DEF CableAssumption
    <2>5. Progress' /\ Counts'
      BY <1>1, <1>2, <1>3, <1>4, <1>6, <2>4 DEF TypeInv, Progress, Counts
    <2>6. Bits'
      BY <1>1, <1>2, <1>6, <2>1, <2>2 DEF TypeInv, Bits
    <2> QED
      BY <1>6, <2>3, <2>5, <2>6 DEF TypeInv
  <1>7. CASE /\ lost' = TRUE /\ Return(TRUE)
             /\ UNCHANGED <<wire, fifo, xfer, received, retries>>
    <2>1. pc' = "idle" /\ err' = TRUE
      BY <1>7 DEF Return
    <2>2. Calls'
      BY <1>1, <1>2, <1>7, <2>1 DEF TypeInv, Calls
    <2>3. Progress' /\ Counts' /\ Bits'
      BY <1>1, <1>2, <1>7, <2>1 DEF TypeInv, Progress, Counts, Bits
    <2> QED
      BY <2>1, <2>2, <2>3 DEF TypeInv
  <1> QED
    BY <1>6, <1>7 DEF ReadPacket

\* The packet goes on, or ends the same way however many of its bytes have come.
LEMMA GoOnType ==
    ASSUME CableAssumption, TypeInv, pc = "answer", GoOn,
           UNCHANGED <<callVars, bit, xfer>>,
           NEW k \in Int, received' = received + k, total' = total + k,
           received + k <= xfer, retries' \in 0 .. RETRIES
    PROVE  /\ pc' \in {"idle", "bits", "packet", "answer"} /\ err' \in BOOLEAN
           /\ Progress'
  <1>1. bytes' = bytes /\ leftover' = leftover /\ fun' = fun
    BY SameCall
  <1>2. /\ bytes \in Nat /\ leftover \in Nat /\ RETRIES \in Nat \ {0}
        /\ done \in 0 .. bytes /\ xfer \in 1 .. bytes - done /\ fun = "read"
        /\ bit = 0 /\ bit' = bit /\ xfer' = xfer
        /\ received \in Int /\ total \in Int /\ total <= done + received
    BY Parts DEF TypeInv, Progress, Counts, CableAssumption
  <1>5. err \in BOOLEAN
    BY DEF TypeInv, Calls
  <1>3. CASE received' \in 0 .. xfer - 1 /\ retries' < RETRIES
    <2>1. pc' = "answer" /\ done' = done
      BY <1>3 DEF GoOn
    <2>2. err' \in BOOLEAN
      BY <1>3, <1>5 DEF GoOn
    <2>3. received + k \in 0 .. xfer - 1 /\ total + k <= done + (received + k)
      BY <1>2, <1>3
    <2>4. Progress'
      BY <1>1, <1>2, <1>3, <2>1, <2>3 DEF Progress
    <2> QED
      BY <2>1, <2>2, <2>4
  <1>4. CASE ~(received' \in 0 .. xfer - 1 /\ retries' < RETRIES)
    <2>1. done' = done + xfer
      BY <1>4 DEF GoOn
    <2>2. done' \in 0 .. bytes
      BY <1>2, <2>1
    <2>5. total' <= done'
      BY <1>2, <2>1
    <2>3. CASE done' = bytes
      <3>1. AfterPackets(err)
        BY <1>4, <2>3 DEF GoOn
      <3> QED
        BY <1>2, <1>5, <2>2, <3>1, AfterPacketsType
    <2>4. CASE done' # bytes
      <3>1. pc' = "packet" /\ err' = err
        BY <1>4, <2>4 DEF GoOn
      <3>2. done' < bytes
        BY <1>2, <2>2, <2>4
      <3>3. Progress'
        BY <1>1, <1>2, <2>2, <2>5, <3>1, <3>2 DEF Progress
      <3> QED
        BY <1>5, <3>1, <3>3
    <2> QED
      BY <2>3, <2>4
  <1> QED
    BY <1>3, <1>4

LEMMA AnswerType ==
    ASSUME CableAssumption, TypeInv, Answer
    PROVE  TypeInv'
  <1>1. /\ bytes' = bytes /\ leftover' = leftover /\ Tokens' = Tokens
        /\ Clocks' = Clocks /\ Octets' = Octets
        /\ WordsOf(len_bits)' = WordsOf(len_bits)
        /\ fun' = fun /\ len_bits' = len_bits /\ set_last_bit' = set_last_bit
    BY SameCall DEF Answer
  <1>2. /\ pc = "answer" /\ fun = "read" /\ bit' = bit /\ bit = 0 /\ xfer' = xfer
        /\ wire' = wire /\ tck' = tck
    BY DEF Answer, TypeInv, Progress
  <1>3. /\ bytes \in Nat /\ leftover \in Nat /\ RETRIES \in Nat \ {0}
        /\ done \in 0 .. bytes /\ xfer \in 1 .. bytes - done
        /\ received \in 0 .. xfer /\ total \in Int /\ total <= bytes
        /\ (total < 0 => short) /\ total <= done + received /\ retries \in 0 .. RETRIES - 1
    BY <1>2, Parts DEF TypeInv, Progress, Counts, CableAssumption
  <1>4. fifo \in Seq(Octets) /\ Len(fifo) \in Nat
    BY LenProperties DEF TypeInv, Bits
  <1>5. ASSUME NEW n \in 0 .. LowestOf(Len(fifo), xfer - received),
               lost' = (lost \/ n # xfer - received),
               instream' = WithAnswers(n),
               fifo' = SubSeq(fifo, n + 1, Len(fifo)),
               received' = received + n, total' = total + n,
               retries' = RetriesAfter(n), GoOn, short' = short
        PROVE  TypeInv'
    <2>1. n \in Nat /\ n <= Len(fifo) /\ received + n <= xfer
      BY <1>3, <1>4 DEF LowestOf
    <2>2. fifo' \in Seq(Octets)
      <3>1. \A i \in n + 1 .. Len(fifo) : fifo[i] \in Octets
        BY <1>4, <2>1, ElementOfSeq
      <3> QED
        BY <1>4, <1>5, <2>1, <3>1, SubSeqProperties
    <2>3. /\ DOMAIN instream' = DOMAIN instream
          /\ \A b \in DOMAIN instream : instream'[b] \subseteq Tokens
      <3>1. DOMAIN instream = WordsOf(len_bits)
        BY <1>2 DEF TypeInv, Bits
      <3>2. ASSUME NEW b \in WordsOf(len_bits), NEW i \in 0 .. n - 1
            PROVE  fifo[i + 1][(b % BYTE) + 1] \in Tokens
        <4>1. (b % BYTE) + 1 \in 1 .. BYTE
          <5>1. b \in Nat /\ BYTE \in Nat \ {0}
            BY DEF WordsOf, CableAssumption
          <5> QED
            BY <5>1, Division
        <4>2. fifo[i + 1] \in Octets
          BY <1>4, <2>1, ElementOfSeq
        <4> QED
          BY <4>1, <4>2 DEF Octets
      <3>3. ASSUME NEW b \in DOMAIN instream
            PROVE  instream'[b] \subseteq Tokens
        <4>1. instream[b] \subseteq Tokens
          BY DEF TypeInv, Bits
        <4>2. instream'[b] = instream[b] \union
                {fifo[i + 1][(b % BYTE) + 1] :
                    i \in {k \in 0 .. n - 1 : PlaceOf(k) = b \div BYTE}}
          BY <1>5 DEF WithAnswers
        <4> QED
          BY <3>1, <3>2, <4>1, <4>2
      <3>4. DOMAIN instream' = DOMAIN instream
        BY <1>5 DEF WithAnswers
      <3> QED
        BY <3>3, <3>4
    <2>4. retries' \in 0 .. RETRIES
      BY <1>3, <1>5, <2>1 DEF RetriesAfter
    <2>5. Counts'
      BY <1>1, <1>2, <1>3, <1>5, <2>1, <2>4 DEF Counts
    <2>6. pc' \in {"idle", "bits", "packet", "answer"} /\ err' \in BOOLEAN /\ Progress'
      <3>1. n \in Int
        BY <2>1
      <3> QED
        BY <1>2, <1>5, <2>1, <2>4, <3>1, GoOnType DEF Answer
    <2>7. Calls'
      BY <1>1, <1>2, <1>5, <2>6 DEF TypeInv, Calls
    <2>8. Bits'
      BY <1>1, <1>2, <2>2, <2>3, <2>6 DEF TypeInv, Bits
    <2> QED
      BY <2>5, <2>6, <2>7, <2>8 DEF TypeInv
  <1>6. ASSUME NEW s \in 1 .. 2, TakeShort(s)
        PROVE  TypeInv'
    <2>1. received' = received - s /\ total' = total - s /\ short' = TRUE
          /\ retries' = retries + 1 /\ instream' = instream /\ fifo' = fifo /\ GoOn
          /\ lost' = TRUE
      BY <1>6 DEF TakeShort, RetriesAfter
    <2>2. /\ received' \in Int /\ received' <= xfer /\ total' \in Int /\ total' <= bytes
          /\ total' <= done + received' /\ retries' \in 0 .. RETRIES
      BY <1>3, <2>1
    <2>3. pc' \in {"idle", "bits", "packet", "answer"} /\ err' \in BOOLEAN /\ Progress'
      <3>1. /\ -s \in Int /\ received + (-s) <= xfer
            /\ received' = received + (-s) /\ total' = total + (-s)
        BY <1>3, <2>1
      <3> QED
        BY <1>2, <2>1, <2>2, <3>1, GoOnType DEF Answer
    <2>4. Counts'
      BY <1>1, <1>2, <1>3, <2>1, <2>2 DEF Counts
    <2>5. Calls'
      BY <1>1, <1>2, <2>1, <2>3 DEF TypeInv, Calls
    <2>6. Bits'
      BY <1>1, <1>2, <2>1, <2>3 DEF TypeInv, Bits
    <2> QED
      BY <2>3, <2>4, <2>5, <2>6 DEF TypeInv
  <1>7. CASE /\ pc' = "crashed"
             /\ UNCHANGED <<err, lost, instream, fifo, received, total, retries, short, done>>
    <2>1. Calls'
      BY <1>1, <1>2, <1>7 DEF TypeInv, Calls
    <2>2. Progress' /\ Counts' /\ Bits'
      BY <1>1, <1>2, <1>7 DEF TypeInv, Progress, Counts, Bits
    <2> QED
      BY <1>7, <2>1, <2>2 DEF TypeInv
  <1>8. CASE /\ lost' = TRUE /\ Return(TRUE)
             /\ UNCHANGED <<instream, fifo, received, total, retries, short, done>>
    <2>1. pc' = "idle" /\ err' = TRUE
      BY <1>8 DEF Return
    <2>2. Calls'
      BY <1>1, <1>2, <1>8, <2>1 DEF TypeInv, Calls
    <2>3. Progress' /\ Counts' /\ Bits'
      BY <1>1, <1>2, <1>8, <2>1 DEF TypeInv, Progress, Counts, Bits
    <2> QED
      BY <2>1, <2>2, <2>3 DEF TypeInv
  <1> QED
    BY <1>5, <1>6, <1>7, <1>8 DEF Answer, TakeAnswers

LEMMA BitType ==
    ASSUME CableAssumption, TypeInv, pc = "bits", UNCHANGED <<callVars, done, answerVars>>,
           NEW e \in BOOLEAN, AfterBit(e), tck' \in BOOLEAN, lost' \in BOOLEAN, Bits'
    PROVE  TypeInv'
  <1>1. /\ bytes' = bytes /\ leftover' = leftover
        /\ fun' = fun /\ len_bits' = len_bits /\ set_last_bit' = set_last_bit
    BY SameCall
  <1>2. bytes \in Nat /\ leftover \in Nat /\ bit \in 0 .. leftover - 1
    BY Parts DEF TypeInv, Progress
  <1>3. bit' = bit + 1 /\ pc' \in {"idle", "bits"} /\ err' \in BOOLEAN
    BY DEF AfterBit, Return
  <1>4. pc' = "bits" => bit' < leftover
    <2>1. pc' = "bits" => bit + 1 # leftover
      BY DEF AfterBit, Return, LastBit
    <2> QED
      BY <1>2, <1>3, <2>1
  <1>5. Calls'
    BY <1>1, <1>3 DEF TypeInv, Calls
  <1>6. Progress' /\ Counts'
    BY <1>1, <1>2, <1>3, <1>4 DEF TypeInv, Progress, Counts, answerVars
  <1> QED
    BY <1>3, <1>5, <1>6 DEF TypeInv

\* The number of the bit that is clocked.
LEMMA BitNumber ==
    ASSUME CableAssumption, TypeInv, pc = "bits"
    PROVE  /\ bytes * BYTE + bit \in 0 .. len_bits - 1
           /\ bytes * BYTE \in Nat /\ bit \in Nat
           /\ bit + 1 = leftover <=> bytes * BYTE + bit + 1 = len_bits
  <1>1. /\ bytes * BYTE \in Nat /\ leftover \in Nat
        /\ len_bits = bytes * BYTE + leftover /\ bit \in 0 .. leftover - 1
    BY Parts DEF TypeInv, Progress
  <1> QED
    BY <1>1

LEMMA WriteBitType ==
    ASSUME CableAssumption, TypeInv, WriteBit
    PROVE  TypeInv'
  <1>1. /\ Tokens' = Tokens /\ Clocks' = Clocks /\ Octets' = Octets
        /\ WordsOf(len_bits)' = WordsOf(len_bits)
    BY SameCall DEF WriteBit
  <1>2. pc = "bits" /\ instream' = instream /\ fifo' = fifo
    BY DEF WriteBit
  <1>3. err \in BOOLEAN /\ lost \in BOOLEAN /\ Heard \in BOOLEAN
    BY DEF TypeInv, Calls, Heard
  <1>4. CASE /\ wire' = Append(wire, Clocked(bytes * BYTE + bit)) /\ tck' = TRUE
             /\ AfterBit(err) /\ lost' = lost
    <2>1. wire' \in Seq(Clocks)
      BY <1>2, <1>4, BitNumber, BitSends DEF TypeInv, Bits
    <2>2. Bits'
      BY <1>1, <1>2, <2>1 DEF TypeInv, Bits
    <2> QED
      BY <1>2, <1>3, <1>4, <2>2, BitType DEF WriteBit
  <1>5. CASE /\ lost' = TRUE /\ tck' \in BOOLEAN /\ wire' = wire
             /\ AfterBit(err \/ Heard)
    <2>1. Bits'
      BY <1>1, <1>2, <1>5 DEF TypeInv, Bits
    <2>2. (err \/ Heard) \in BOOLEAN
      OBVIOUS
    <2> QED
      BY <1>2, <1>3, <1>5, <2>1, <2>2, BitType DEF WriteBit
  <1> QED
    BY <1>4, <1>5 DEF WriteBit

LEMMA WithBitType ==
    ASSUME TypeInv, NEW b, b \subseteq Tokens, NEW i
    PROVE  /\ DOMAIN WithBit(b, i) = DOMAIN instream
           /\ \A k \in DOMAIN instream : WithBit(b, i)[k] \subseteq Tokens
  BY DEF WithBit, TypeInv, Bits

LEMMA ReadBitType ==
    ASSUME CableAssumption, TypeInv, ReadBit
    PROVE  TypeInv'
  <1> DEFINE i == bytes * BYTE + bit
             octet == [j \in 1 .. BYTE |-> IF j = 1 THEN i ELSE Stale]
             answers == Append(fifo, octet)
  <1>1. /\ Tokens' = Tokens /\ Clocks' = Clocks /\ Octets' = Octets
        /\ WordsOf(len_bits)' = WordsOf(len_bits)
    BY SameCall DEF ReadBit
  <1>2. pc = "bits"
    BY DEF ReadBit
  <1>3. err \in BOOLEAN /\ lost \in BOOLEAN /\ Heard \in BOOLEAN
    BY DEF TypeInv, Calls, Heard
  <1>4. i \in 0 .. len_bits - 1 /\ len_bits \in Nat
    BY <1>2, BitNumber DEF TypeInv, Calls
  <1>5. octet \in Octets /\ BYTE \in Nat \ {0}
    BY <1>4 DEF Octets, Tokens, CableAssumption
  <1> HIDE DEF octet
  <1>6. /\ answers \in Seq(Octets) /\ answers # <<>>
        /\ Head(answers) \in Octets /\ Tail(answers) \in Seq(Octets)
    BY <1>5, AppendProperties, HeadTailProperties DEF TypeInv, Bits
  <1> HIDE DEF answers
  <1>7. {Head(answers)[1]} \subseteq Tokens /\ {} \subseteq Tokens
    BY <1>5, <1>6 DEF Octets
  <1>8. CASE /\ wire' = Append(wire, Clocked(i)) /\ tck' = TRUE
             /\ TakeBit(i) /\ AfterBit(err)
    <2>1. wire' \in Seq(Clocks)
      BY <1>4, <1>8, BitSends DEF TypeInv, Bits
    <2>2. PICK b \in SUBSET Tokens : instream' = WithBit(b, i)
      BY <1>7, <1>8 DEF TakeBit, answers, octet
    <2>3. fifo' \in Seq(Octets) /\ lost' \in BOOLEAN
      BY <1>3, <1>6, <1>8 DEF TakeBit, answers, octet
    <2>4. /\ DOMAIN instream' = DOMAIN instream
          /\ \A k \in DOMAIN instream : instream'[k] \subseteq Tokens
      BY <2>2, WithBitType
    <2>5. Bits'
      BY <1>1, <1>2, <2>1, <2>3, <2>4 DEF TypeInv, Bits
    <2> QED
      BY <1>2, <1>3, <1>8, <2>3, <2>5, BitType DEF ReadBit
  <1>9. CASE /\ lost' = TRUE /\ tck' \in BOOLEAN /\ instream' = WithBit({}, i)
             /\ UNCHANGED <<wire, fifo>> /\ AfterBit(err \/ Heard)
    <2>1. /\ DOMAIN instream' = DOMAIN instream
          /\ \A k \in DOMAIN instream : instream'[k] \subseteq Tokens
      BY <1>7, <1>9, WithBitType
    <2>2. Bits'
      BY <1>1, <1>2, <1>9, <2>1 DEF TypeInv, Bits
    <2>3. (err \/ Heard) \in BOOLEAN
      OBVIOUS
    <2> QED
      BY <1>2, <1>3, <1>9, <2>2, <2>3, BitType DEF ReadBit
  <1> QED
    BY <1>8, <1>9 DEF ReadBit

-----------------------------------------------------------------------------
(* What is clocked.                                                        *)

LEMMA SameBits ==
    ASSUME UNCHANGED callVars, NEW n
    PROVE  ClockedBits(n)' = ClockedBits(n)
  BY DEF callVars, ClockedBits, Clocked

\* While a call goes on, what has failed is remembered.
LEMMA Remembered ==
    ASSUME TypeInv, Step, Honest'
    PROVE  Honest
  <1>1. fun' = fun
    BY DEF Step, LowerClock, WritePacket, ReadPacket, Answer, WriteBit, ReadBit, callVars
  <1>2. ~lost' => ~lost
    BY DEF Step, LowerClock, WritePacket, ReadPacket, Answer, TakeAnswers, TakeShort,
           WriteBit, ReadBit, TakeBit
  <1>3. fun = "read" /\ ~err' => ~err
    <2>1. CASE LowerClock
      BY <2>1 DEF LowerClock, Return, Honest, Heard
    <2>2. CASE WritePacket \/ WriteBit
      BY <2>2 DEF WritePacket, WriteBit
    <2>3. CASE ReadPacket
      BY <2>3 DEF ReadPacket, Return
    <2>4. CASE Answer
      BY <2>4 DEF Answer, TakeAnswers, TakeShort, GoOn, AfterPackets, Return
    <2>5. CASE ReadBit
      BY <2>5 DEF ReadBit, AfterBit, Return
    <2> QED
      BY <2>1, <2>2, <2>3, <2>4, <2>5 DEF Step
  <1> QED
    BY <1>1, <1>2, <1>3 DEF Honest, Heard

LEMMA AfterPacketsClock ==
    ASSUME CableAssumption, Calls, UNCHANGED callVars, NEW e \in BOOLEAN, AfterPackets(e),
           bit' = 0, wire' = ClockedBits(bytes * BYTE)
    PROVE  ClockInv'
  <1>1. /\ bytes' = bytes /\ leftover' = leftover /\ len_bits' = len_bits
        /\ bytes * BYTE \in Nat /\ len_bits = bytes * BYTE + leftover
    BY SameCall, Parts
  <1>2. CASE leftover = 0
    <2>1. pc' = "idle" /\ len_bits = bytes * BYTE
      BY <1>1, <1>2 DEF AfterPackets, Return
    <2>2. Sent' = bytes * BYTE
      BY <1>1, <2>1 DEF Sent
    <2> QED
      BY <2>1, <2>2, SameBits DEF ClockInv
  <1>3. CASE leftover # 0
    <2>1. pc' = "bits" /\ bytes * BYTE + 0 = bytes * BYTE
      BY <1>1, <1>3 DEF AfterPackets
    <2>2. Sent' = bytes * BYTE
      BY <1>1, <2>1 DEF Sent
    <2> QED
      BY <2>1, <2>2, SameBits DEF ClockInv
  <1> QED
    BY <1>2, <1>3

LEMMA CallClock ==
    ASSUME CableAssumption, TypeInv, NEW f \in {"write", "read"},
           NEW len \in Lengths, NEW last \in BOOLEAN, Call(f, len, last)
    PROVE  ClockInv'
  <1>1. pc' \in {"low", "bits"} /\ wire' = <<>>
    BY DEF Call
  <1>2. Sent' = 0
    <2>1. CASE pc' = "low"
      BY <2>1 DEF Sent
    <2>2. CASE pc' = "bits"
      <3>1. bytes' = 0 /\ bit' = 0
        BY <2>2 DEF Call, bytes, BytesToTransfer
      <3>2. 0 * BYTE + 0 = 0
        BY DEF CableAssumption
      <3> QED
        BY <2>2, <3>1, <3>2 DEF Sent
    <2> QED
      BY <1>1, <2>1, <2>2
  <1>3. ClockedBits(0)' = <<>>
    <2>1. ClockedBits(0)' = [k \in 1 .. 0 |-> Clocked(k - 1)']
      BY DEF ClockedBits
    <2> QED
      BY <2>1
  <1> QED
    BY <1>1, <1>2, <1>3 DEF ClockInv

LEMMA LowerClockClock ==
    ASSUME CableAssumption, TypeInv, ClockInv, LowerClock
    PROVE  ClockInv'
  <1> SUFFICES ASSUME Honest', pc' = "idle" => ~err'
               PROVE  wire' = ClockedBits(Sent)' /\ (pc' \in {"packet", "answer"} => ~tck')
    BY DEF ClockInv
  <1>1. Honest /\ pc = "low" /\ UNCHANGED callVars /\ wire' = wire /\ done' = done
    BY Remembered DEF LowerClock, Step
  <1>2. pc' = "packet" /\ tck' = FALSE
    <2>1. ASSUME lost' = TRUE, \/ err' = (DRIVER = "usbblaster")
                               \/ Return(TRUE)
          PROVE  FALSE
      <3>1. Heard /\ ~err'
        BY <2>1 DEF Honest, Heard
      <3> QED
        BY <2>1, <3>1 DEF Return, Heard
    <2> QED
      BY <2>1 DEF LowerClock
  <1>3. Sent = 0 /\ Sent' = 0 * BYTE /\ 0 * BYTE = 0
    BY <1>1, <1>2 DEF Sent, TypeInv, Progress, CableAssumption
  <1>4. wire = ClockedBits(0)
    BY <1>1, <1>3 DEF ClockInv
  <1> QED
    BY <1>1, <1>2, <1>3, <1>4, SameBits

LEMMA WritePacketClock ==
    ASSUME CableAssumption, TypeInv, ClockInv, WritePacket
    PROVE  ClockInv'
  <1> DEFINE n == LowestOf(MAX_WRITE, bytes - done)
  <1> SUFFICES ASSUME Honest', pc' = "idle" => ~err'
               PROVE  ClockInv'
    BY DEF ClockInv
  <1>1. Honest /\ pc = "packet" /\ UNCHANGED callVars /\ fun = "write"
        /\ bit' = bit /\ bit = 0 /\ tck' = tck
    BY Remembered DEF WritePacket, Step, TypeInv, Progress
  <1>2. ~lost'
    BY <1>1 DEF Honest, callVars
  <1>3. /\ Shift(n) /\ done' = done + n
        /\ IF done' = bytes THEN AfterPackets(err) ELSE UNCHANGED <<pc, err>>
    BY <1>2 DEF WritePacket
  <1>4. bytes \in Nat /\ done \in 0 .. bytes - 1
    BY <1>1, Parts DEF TypeInv, Progress
  <1>5. n \in Nat \ {0} /\ done + n <= bytes
    BY <1>4 DEF LowestOf, CableAssumption
  <1> HIDE DEF n
  <1>6. wire = ClockedBits(done * BYTE) /\ ~tck
    BY <1>1 DEF ClockInv, Sent
  <1>7. wire' = ClockedBits(done' * BYTE)
    BY <1>3, <1>4, <1>5, <1>6, ShiftSends DEF TypeInv, Bits
  <1>8. CASE done' = bytes
    BY <1>1, <1>3, <1>7, <1>8, AfterPacketsClock DEF TypeInv, Calls
  <1>9. CASE done' # bytes
    <2>1. pc' = "packet" /\ Sent' = done' * BYTE
      BY <1>1, <1>3, <1>9 DEF Sent
    <2> QED
      BY <1>1, <1>6, <1>7, <2>1, SameBits DEF ClockInv
  <1> QED
    BY <1>8, <1>9

LEMMA ReadPacketClock ==
    ASSUME CableAssumption, TypeInv, ClockInv, ReadPacket
    PROVE  ClockInv'
  <1> DEFINE n == LowestOf(MAX_READ, bytes - done)
  <1> SUFFICES ASSUME Honest', pc' = "idle" => ~err'
               PROVE  ClockInv'
    BY DEF ClockInv
  <1>1. Honest /\ pc = "packet" /\ UNCHANGED callVars /\ done' = done /\ tck' = tck
    BY Remembered DEF ReadPacket, Step
  <1>2. Shift(n) /\ xfer' = n /\ pc' = "answer"
    BY DEF ReadPacket, Return
  <1>3. bytes \in Nat /\ done \in 0 .. bytes - 1
    BY <1>1, Parts DEF TypeInv, Progress
  <1>4. n \in Nat \ {0} /\ done + n <= bytes
    BY <1>3 DEF LowestOf, CableAssumption
  <1> HIDE DEF n
  <1>5. wire = ClockedBits(done * BYTE) /\ ~tck
    BY <1>1 DEF ClockInv, Sent
  <1>6. wire' = ClockedBits((done + n) * BYTE)
    BY <1>2, <1>3, <1>4, <1>5, ShiftSends DEF TypeInv, Bits
  <1>7. Sent' = (done + n) * BYTE
    BY <1>1, <1>2 DEF Sent
  <1> QED
    BY <1>1, <1>5, <1>6, <1>7, SameBits DEF ClockInv

LEMMA AnswerClock ==
    ASSUME CableAssumption, TypeInv, ClockInv, Answer
    PROVE  ClockInv'
  <1> SUFFICES ASSUME Honest', pc' # "crashed", pc' = "idle" => ~err'
               PROVE  ClockInv'
    BY DEF ClockInv
  <1>1. Honest /\ pc = "answer" /\ UNCHANGED callVars /\ wire' = wire /\ tck' = tck
        /\ xfer' = xfer /\ bit' = bit /\ bit = 0
    BY Remembered DEF Answer, Step, TypeInv, Progress
  <1>2. wire = ClockedBits((done + xfer) * BYTE) /\ ~tck
    BY <1>1 DEF ClockInv, Sent
  <1>3. \/ pc' = pc /\ done' = done
        \/ done' = done + xfer /\ done' = bytes /\ AfterPackets(err)
        \/ done' = done + xfer /\ pc' = "packet"
    BY DEF Answer, TakeAnswers, TakeShort, GoOn, Return
  <1>4. CASE pc' = pc /\ done' = done
    <2>1. Sent' = (done + xfer) * BYTE
      BY <1>1, <1>4 DEF Sent
    <2> QED
      BY <1>1, <1>2, <2>1, SameBits DEF ClockInv
  <1>5. CASE done' = done + xfer /\ done' = bytes /\ AfterPackets(err)
    BY <1>1, <1>2, <1>5, AfterPacketsClock DEF TypeInv, Calls
  <1>6. CASE done' = done + xfer /\ pc' = "packet"
    <2>1. Sent' = (done + xfer) * BYTE
      BY <1>1, <1>6 DEF Sent
    <2> QED
      BY <1>1, <1>2, <2>1, SameBits DEF ClockInv
  <1> QED
    BY <1>3, <1>4, <1>5, <1>6

\* After a bit that was clocked.
LEMMA BitClock ==
    ASSUME CableAssumption, TypeInv, ClockInv, pc = "bits", Honest,
           UNCHANGED callVars, AfterBit(err),
           wire' = Append(wire, Clocked(bytes * BYTE + bit))
    PROVE  ClockInv'
  <1> DEFINE i == bytes * BYTE + bit
  <1>1. /\ bytes' = bytes /\ leftover' = leftover /\ len_bits' = len_bits
    BY SameCall
  <1>2. /\ i \in 0 .. len_bits - 1 /\ bytes * BYTE \in Nat /\ bit \in Nat
        /\ bit + 1 = leftover <=> i + 1 = len_bits
    BY BitNumber
  <1>3. wire = ClockedBits(i)
    BY DEF ClockInv, Sent
  <1>4. wire' = ClockedBits(i + 1)
    BY <1>2, <1>3, BitSends DEF TypeInv, Bits
  <1>5. bytes * BYTE + (bit + 1) = i + 1
    BY <1>2
  <1>6. Sent' = i + 1
    <2>1. CASE LastBit
      <3>1. pc' = "idle" /\ i + 1 = len_bits
        BY <1>2, <2>1 DEF AfterBit, Return, LastBit
      <3> QED
        BY <1>1, <3>1 DEF Sent
    <2>2. CASE ~LastBit
      <3>1. pc' = "bits" /\ bit' = bit + 1
        BY <2>2 DEF AfterBit
      <3> QED
        BY <1>1, <1>5, <3>1 DEF Sent
    <2> QED
      BY <2>1, <2>2
  <1>7. pc' \in {"idle", "bits"}
    BY DEF AfterBit, Return
  <1> QED
    BY <1>4, <1>6, <1>7, SameBits DEF ClockInv

LEMMA WriteBitClock ==
    ASSUME CableAssumption, TypeInv, ClockInv, WriteBit
    PROVE  ClockInv'
  <1> SUFFICES ASSUME Honest', pc' = "idle" => ~err'
               PROVE  ClockInv'
    BY DEF ClockInv
  <1>1. Honest /\ pc = "bits" /\ UNCHANGED callVars /\ fun = "write"
    BY Remembered DEF WriteBit, Step
  <1>2. ~lost'
    BY <1>1 DEF Honest, callVars
  <1>3. wire' = Append(wire, Clocked(bytes * BYTE + bit)) /\ AfterBit(err)
    BY <1>2 DEF WriteBit
  <1> QED
    BY <1>1, <1>3, BitClock

LEMMA ReadBitClock ==
    ASSUME CableAssumption, TypeInv, ClockInv, ReadBit
    PROVE  ClockInv'
  <1> SUFFICES ASSUME Honest', pc' = "idle" => ~err'
               PROVE  ClockInv'
    BY DEF ClockInv
  <1>1. Honest /\ pc = "bits" /\ UNCHANGED callVars
    BY Remembered DEF ReadBit, Step
  <1>2. ASSUME lost' = TRUE, AfterBit(err \/ Heard)
        PROVE  FALSE
    <2>1. Heard /\ ~err'
      BY <1>2 DEF Honest, Heard
    <2> QED
      BY <1>2, <2>1 DEF AfterBit, Return
  <1>3. wire' = Append(wire, Clocked(bytes * BYTE + bit)) /\ AfterBit(err)
    BY <1>2 DEF ReadBit
  <1> QED
    BY <1>1, <1>3, BitClock

-----------------------------------------------------------------------------
(* Where it is put.                                                        *)

\* Words for all bits, and one is enough for a byte.
LEMMA Words ==
    ASSUME CableAssumption, NEW len \in Nat \ {0}
    PROVE  /\ WordBits \in Nat \ {0} /\ BYTE <= WordBits
           /\ 0 .. len - 1 \subseteq WordsOf(len) /\ WordsOf(len) \subseteq Nat
           /\ len <= WordBits => WordsOf(len) = 0 .. WordBits - 1
  <1> DEFINE W == WordBits
             q == (len + W - 1) \div W
             r == (len + W - 1) % W
             p == W * q
  <1>1. W \in Nat \ {0} /\ BYTE <= W
    <2>1. BYTE \in Nat \ {0} /\ LANES \in Nat \ {0}
      BY DEF CableAssumption
    <2>2. BYTE * LANES = BYTE + BYTE * (LANES - 1) /\ BYTE * (LANES - 1) \in Nat
      BY <2>1
    <2> DEFINE x == BYTE * (LANES - 1)
    <2> HIDE DEF x
    <2>3. W = BYTE + x /\ x \in Nat
      BY <2>2 DEF WordBits, x
    <2> QED
      BY <2>1, <2>3
  <1>2. WordsOf(len) = 0 .. q * W - 1
    BY DEF WordsOf
  <1> HIDE DEF W
  <1>3. q \in Nat /\ r \in 0 .. W - 1 /\ len + W - 1 = p + r
    <2>1. len + W - 1 \in Nat
      BY <1>1
    <2> QED
      BY <1>1, <2>1, Division
  <1> HIDE DEF q, r
  <1>4. q * W = p /\ p \in Nat
    BY <1>1, <1>3
  <1>5. ASSUME len <= W
        PROVE  p = W
    <2>1. q # 0
      <3>1. W * 0 = 0
        BY <1>1
      <3> QED
        BY <1>1, <1>3, <3>1
    <2>2. ~(q > 1)
      <3>1. ASSUME q > 1
            PROVE  FALSE
        <4>1. W * 1 + W <= p /\ W * 1 = W
          BY <1>1, <1>3, <3>1, Multiples
        <4> HIDE DEF p
        <4> QED
          BY <1>1, <1>3, <1>4, <1>5, <4>1
      <3> QED
        BY <3>1
    <2>3. q = 1 /\ W * 1 = W
      BY <1>1, <1>3, <2>1, <2>2
    <2> QED
      BY <2>3
  <1> HIDE DEF p
  <1>6. len <= p
    BY <1>1, <1>3, <1>4
  <1> QED
    BY <1>1, <1>2, <1>4, <1>5, <1>6 DEF W

LEMMA CallPlace ==
    ASSUME CableAssumption, TypeInv, NEW f \in {"write", "read"},
           NEW len \in Lengths, NEW last \in BOOLEAN, Call(f, len, last)
    PROVE  PlaceInv'
  <1> SUFFICES ASSUME fun' = "read", ~lost'
               PROVE  /\ fifo' = <<>> /\ ~short'
                      /\ pc' = "bits" => bytes' * BYTE + bit' = 0 /\ bytes' + bit' = 0
    <2>1. pc' \in {"low", "bits"}
      BY DEF Call
    <2>2. DOMAIN instream' \subseteq Nat
      BY Words DEF Call, CableAssumption
    <2> QED
      BY <2>1, <2>2 DEF PlaceInv
  <1>1. fifo = <<>>
    BY DEF Call
  <1>2. fifo' = <<>> /\ ~short'
    BY <1>1 DEF Call
  <1>3. ASSUME pc' = "bits"
        PROVE  bytes' = 0 /\ bit' = 0
    BY <1>3 DEF Call, bytes, BytesToTransfer
  <1>4. 0 * BYTE + 0 = 0
    BY DEF CableAssumption
  <1> QED
    BY <1>2, <1>3, <1>4

LEMMA LowerClockPlace ==
    ASSUME CableAssumption, TypeInv, PlaceInv, LowerClock
    PROVE  PlaceInv'
  <1> SUFFICES ASSUME fun' = "read", ~lost', bytes' <= MAX_READ
               PROVE  PlaceInv'
    BY DEF PlaceInv
  <1>1. bytes' = bytes /\ fun' = fun /\ fun = "read"
    BY SameCall DEF LowerClock
  <1>2. pc = "low" /\ pc' = "packet" /\ ~lost /\ fifo' = fifo /\ done' = done
        /\ short' = short /\ instream' = [i \in DOMAIN instream |-> {}]
    <2>1. lost' # TRUE
      OBVIOUS
    <2>2. pc' = "packet" /\ UNCHANGED lost
      BY <2>1 DEF LowerClock
    <2>3. ~lost
      BY <2>2
    <2> QED
      BY <1>1, <2>2, <2>3 DEF LowerClock, answerVars
  <1>3. fifo = <<>> /\ done = 0 /\ ~short
    BY <1>1, <1>2 DEF PlaceInv, TypeInv, Progress
  <1>4. AllClear'
    BY <1>2 DEF AllClear
  <1> QED
    BY <1>2, <1>3, <1>4 DEF PlaceInv

LEMMA ReadPacketPlace ==
    ASSUME CableAssumption, TypeInv, ClockInv, PlaceInv, ReadPacket
    PROVE  PlaceInv'
  <1> DEFINE n == LowestOf(MAX_READ, bytes - done)
             add == [k \in 1 .. n |-> Shifted(done + k - 1)]
  <1> SUFFICES ASSUME fun' = "read", ~lost', bytes' <= MAX_READ
               PROVE  PlaceInv'
    BY DEF PlaceInv
  <1>1. bytes' = bytes /\ fun' = fun /\ fun = "read"
    BY SameCall DEF ReadPacket
  <1>2. /\ pc = "packet" /\ ~lost /\ fifo' = fifo \o add
        /\ xfer' = n /\ received' = 0 /\ pc' = "answer"
        /\ done' = done /\ total' = total /\ short' = short /\ instream' = instream
    <2> HIDE DEF add
    <2>1. lost' # TRUE
      OBVIOUS
    <2>2. /\ fifo' = fifo \o add /\ xfer' = n /\ received' = 0 /\ pc' = "answer"
          /\ UNCHANGED lost
      BY <2>1 DEF ReadPacket, add
    <2>3. ~lost
      BY <2>2
    <2> QED
      BY <2>2, <2>3 DEF ReadPacket
  <1>3. fifo = <<>> /\ done = 0 /\ AllClear /\ ~short
    BY <1>1, <1>2 DEF PlaceInv
  <1>4. total = 0
    BY <1>2, <1>3 DEF TypeInv, Progress, Counts
  <1>5. ~tck
    BY <1>2 DEF ClockInv, Honest
  <1>6. n = bytes /\ bytes \in Nat
    <2>1. bytes \in Nat /\ bytes - 0 = bytes
      BY Parts DEF TypeInv
    <2> QED
      BY <1>1, <1>3, <2>1 DEF LowestOf, CableAssumption
  <1>7. add = [k \in 1 .. bytes |-> ByteOf(k - 1)]
    <2>1. \A k \in 1 .. bytes : 0 + k - 1 = k - 1
      BY <1>6
    <2> QED
      BY <1>3, <1>5, <1>6, <2>1 DEF Shifted
  <1>8. fifo' = add
    <2>1. add \in [1 .. bytes -> Octets]
      <3>1. \A k \in 1 .. bytes : k - 1 \in 0 .. bytes - 1 /\ 0 \in 0 .. BYTE - 1
        BY <1>6, Parts DEF TypeInv
      <3>2. \A k \in 1 .. bytes : ByteOf(k - 1) \in Octets
        BY <3>1, BitsOfByte DEF TypeInv, Octets
      <3> QED
        BY <1>7, <3>2
    <2> HIDE DEF add
    <2>2. add \in Seq(Octets)
      BY <1>6, <2>1, SeqDef
    <2> QED
      BY <1>2, <1>3, <2>2, ConcatEmptySeq
  <1>9. AllClear'
    BY <1>2, <1>3 DEF AllClear
  <1> HIDE DEF n, add
  <1> QED
    BY <1>1, <1>2, <1>3, <1>4, <1>6, <1>7, <1>8, <1>9 DEF PlaceInv, ByteOf

\* All answers at once, into words that are clear.
LEMMA AnswersPlaced ==
    ASSUME CableAssumption, Calls, total = 0, AllClear,
           fifo = [k \in 1 .. bytes |-> ByteOf(k - 1)],
           NEW b \in DOMAIN instream, b \in Nat
    PROVE  WithAnswers(bytes)[b] = IF b < bytes * BYTE THEN {b} ELSE {}
  <1> DEFINE q == b \div BYTE
             r == b % BYTE
             n == bytes
             from == {k \in 0 .. n - 1 : PlaceOf(k) = q}
  <1>1. BYTE \in Nat \ {0} /\ n \in Nat /\ LANES \in Nat \ {0} /\ n * BYTE \in Nat
    BY Parts DEF CableAssumption
  <1>2. q \in Nat /\ r \in 0 .. BYTE - 1 /\ b = BYTE * q + r
    BY <1>1, Division
  <1>3. WithAnswers(n)[b] = {fifo[i + 1][r + 1] : i \in from}
    <2>1. instream[b] = {}
      BY DEF AllClear
    <2> QED
      BY <2>1 DEF WithAnswers
  <1>4. ASSUME NEW k \in 0 .. n - 1
        PROVE  PlaceOf(k) = k
    <2> DEFINE l == k \div LANES
               m == k % LANES
    <2>1. k \in Nat
      BY <1>1
    <2>2. l \in Nat /\ m \in 0 .. LANES - 1 /\ k = LANES * l + m
      BY <1>1, <2>1, Division
    <2>3. PlaceOf(k) = l * LANES + m
      <3>1. 0 + k = k
        BY <2>1
      <3> QED
        BY <3>1 DEF PlaceOf
    <2> HIDE DEF l, m
    <2> QED
      BY <1>1, <2>2, <2>3
  <1> HIDE DEF q, r, n
  <1>5. b < n * BYTE <=> q < n
    <2>1. n * BYTE = BYTE * n /\ BYTE * q \in Nat /\ BYTE * n \in Nat
      BY <1>1, <1>2
    <2>2. CASE q < n
      <3>1. BYTE * q + BYTE <= BYTE * n
        BY <1>1, <1>2, <2>2, Multiples
      <3> QED
        BY <1>1, <1>2, <2>1, <2>2, <3>1
    <2>3. CASE q = n
      BY <1>1, <1>2, <2>1, <2>3
    <2>4. CASE n < q
      <3>1. BYTE * n + BYTE <= BYTE * q
        BY <1>1, <1>2, <2>4, Multiples
      <3> QED
        BY <1>1, <1>2, <2>1, <2>4, <3>1
    <2> QED
      BY <1>1, <1>2, <2>2, <2>3, <2>4
  <1>6. CASE q < n
    <2>1. q \in 0 .. n - 1
      BY <1>1, <1>2, <1>6
    <2>2. from = {q}
      BY <1>4, <2>1
    <2>3. fifo[q + 1] = ByteOf(q)
      <3>1. q + 1 \in 1 .. n /\ (q + 1) - 1 = q
        BY <1>1, <2>1
      <3> QED
        BY <3>1 DEF n
    <2>4. ByteOf(q)[r + 1] = q * BYTE + r
      BY <1>2, <2>1, BitsOfByte DEF n
    <2>5. q * BYTE + r = b
      <3>1. q * BYTE = BYTE * q
        BY <1>1, <1>2
      <3> QED
        BY <1>2, <3>1
    <2>6. WithAnswers(n)[b] = {b}
      <3> HIDE DEF from
      <3>1. WithAnswers(n)[b] = {fifo[q + 1][r + 1]}
        BY <1>3, <2>2
      <3> QED
        BY <2>3, <2>4, <2>5, <3>1
    <2> QED
      BY <1>5, <1>6, <2>6 DEF n
  <1>7. CASE ~(q < n)
    <2>1. from = {}
      BY <1>1, <1>2, <1>4, <1>7
    <2>2. WithAnswers(n)[b] = {}
      <3> HIDE DEF from
      <3> QED
        BY <1>3, <2>1
    <2> QED
      BY <1>5, <1>7, <2>2 DEF n
  <1> QED
    BY <1>6, <1>7

LEMMA AnswerPlace ==
    ASSUME CableAssumption, TypeInv, PlaceInv, Answer
    PROVE  PlaceInv'
  <1> SUFFICES ASSUME fun' = "read", ~lost', bytes' <= MAX_READ
               PROVE  PlaceInv'
    BY DEF PlaceInv
  <1>1. /\ bytes' = bytes /\ leftover' = leftover /\ len_bits' = len_bits
        /\ fun' = fun /\ fun = "read"
    BY SameCall DEF Answer
  <1>2. PICK n \in 0 .. LowestOf(Len(fifo), xfer - received) :
            /\ lost' = (lost \/ n # xfer - received)
            /\ instream' = WithAnswers(n)
            /\ fifo' = SubSeq(fifo, n + 1, Len(fifo))
            /\ received' = received + n
            /\ short' = short
            /\ GoOn
    <2>1. ~lost
      BY DEF Answer, TakeAnswers, TakeShort
    <2>2. ~short
      BY <1>1, <2>1 DEF PlaceInv
    <2>3. ~(total < 0)
      BY <2>2 DEF TypeInv, Counts
    <2>4. ASSUME NEW s \in 1 .. 2, TakeShort(s)
          PROVE  FALSE
      BY <2>4 DEF TakeShort
    <2>5. PICK n \in 0 .. LowestOf(Len(fifo), xfer - received) : TakeAnswers(n)
      <3>1. lost' # TRUE
        OBVIOUS
      <3> QED
        BY <2>3, <2>4, <3>1 DEF Answer
    <2> QED
      BY <2>5 DEF TakeAnswers
  <1>3. pc = "answer" /\ ~lost /\ n = xfer - received /\ bit' = bit /\ bit = 0
    BY <1>2 DEF Answer, TypeInv, Progress
  <1>4. /\ done = 0 /\ received = 0 /\ total = 0 /\ xfer = bytes
        /\ fifo = [k \in 1 .. bytes |-> ByteOf(k - 1)] /\ AllClear /\ ~short
    BY <1>1, <1>3 DEF PlaceInv
  <1>5. /\ bytes \in Nat /\ bytes * BYTE \in Nat /\ leftover \in Nat
        /\ len_bits = bytes * BYTE + leftover
    BY Parts DEF TypeInv
  <1>6. n = bytes /\ received' = bytes
    BY <1>2, <1>3, <1>4, <1>5
  <1>7. done' = bytes /\ AfterPackets(err)
    BY <1>2, <1>4, <1>5, <1>6 DEF GoOn
  <1>8. fifo' = <<>>
    <2>1. Len(fifo) = bytes
      BY <1>4, <1>5
    <2> QED
      BY <1>2, <1>5, <1>6, <2>1, SubSeqEmpty
  <1>9. DOMAIN instream = WordsOf(len_bits) /\ DOMAIN instream' = DOMAIN instream
    BY <1>2, <1>3 DEF TypeInv, Bits, WithAnswers
  <1>10. ASSUME NEW b \in DOMAIN instream
         PROVE  b \in Nat /\ instream'[b] = IF b < bytes * BYTE THEN {b} ELSE {}
    <2>1. b \in Nat
      BY <1>9, Words DEF TypeInv, Calls
    <2> QED
      BY <1>2, <1>4, <1>6, <2>1, AnswersPlaced DEF TypeInv
  <1>11. CASE leftover = 0
    <2>1. pc' = "idle" /\ len_bits = bytes * BYTE
      BY <1>5, <1>7, <1>11 DEF AfterPackets, Return
    <2>2. ASSUME NEW b \in 0 .. len_bits - 1
          PROVE  instream'[b] = {b}
      <3>1. b \in DOMAIN instream
        BY <1>9, Words DEF TypeInv, Calls
      <3>2. b < bytes * BYTE
        BY <1>5, <2>1
      <3> QED
        BY <1>10, <3>1, <3>2
    <2> QED
      BY <1>1, <1>2, <1>4, <1>8, <2>1, <2>2 DEF PlaceInv
  <1>12. CASE leftover # 0
    <2>1. pc' = "bits" /\ bytes * BYTE + 0 = bytes * BYTE
      BY <1>5, <1>7, <1>12 DEF AfterPackets
    <2>2. \A b \in DOMAIN instream' :
             /\ b < bytes * BYTE => instream'[b] = {b}
             /\ b >= bytes * BYTE => instream'[b] = {}
      BY <1>5, <1>9, <1>10
    <2>3. ~short' /\ fifo' = <<>> /\ bit' = 0
      BY <1>2, <1>3, <1>4, <1>8
    <2> QED
      BY <1>1, <2>1, <2>2, <2>3 DEF PlaceInv
  <1> QED
    BY <1>11, <1>12

LEMMA ReadBitPlace ==
    ASSUME CableAssumption, TypeInv, PlaceInv, ReadBit
    PROVE  PlaceInv'
  <1> DEFINE i == bytes * BYTE + bit
             octet == [j \in 1 .. BYTE |-> IF j = 1 THEN i ELSE Stale]
             answers == Append(fifo, octet)
  <1> SUFFICES ASSUME fun' = "read", ~lost', bytes' <= MAX_READ
               PROVE  PlaceInv'
    BY DEF PlaceInv
  <1>1. /\ bytes' = bytes /\ leftover' = leftover /\ len_bits' = len_bits
        /\ fun' = fun /\ fun = "read"
    BY SameCall DEF ReadBit
  <1>2. /\ pc = "bits" /\ ~lost /\ AfterBit(err)
        /\ instream' = WithBit({Head(answers)[1]}, i) /\ fifo' = Tail(answers)
    <2>1. lost' # TRUE
      OBVIOUS
    <2>2. TakeBit(i) /\ AfterBit(err)
      BY <2>1 DEF ReadBit
    <2> HIDE DEF i
    <2>3. /\ instream' = WithBit({Head(answers)[1]}, i) /\ fifo' = Tail(answers)
          /\ lost' = lost
      BY <2>1, <2>2 DEF TakeBit
    <2>4. ~lost /\ pc = "bits"
      BY <2>3 DEF ReadBit
    <2> QED
      BY <2>2, <2>3, <2>4
  <1>3. /\ fifo = <<>> /\ ~short'
        /\ \A k \in DOMAIN instream :
               /\ k < i => instream[k] = {k}
               /\ k >= i /\ bytes + bit > 0 => instream[k] = {}
    BY <1>1, <1>2 DEF PlaceInv, ReadBit, answerVars
  <1>4. /\ i \in 0 .. len_bits - 1 /\ bytes * BYTE \in Nat /\ bit \in Nat
        /\ bit + 1 = leftover <=> i + 1 = len_bits
    BY <1>2, BitNumber
  <1>5. /\ BYTE \in Nat \ {0} /\ bytes \in Nat /\ leftover \in Nat
        /\ len_bits = bytes * BYTE + leftover /\ leftover <= BYTE /\ len_bits \in Nat \ {0}
    BY Parts DEF TypeInv, Calls
  <1>6. Head(answers)[1] = i /\ fifo' = <<>>
    <2>1. octet[1] = i
      BY <1>5
    <2> HIDE DEF octet
    <2> QED
      BY <1>2, <1>3, <2>1
  <1> HIDE DEF answers, octet
  <1>7. /\ WordBits \in Nat \ {0} /\ BYTE <= WordBits
        /\ 0 .. len_bits - 1 \subseteq WordsOf(len_bits) /\ WordsOf(len_bits) \subseteq Nat
        /\ len_bits <= WordBits => WordsOf(len_bits) = 0 .. WordBits - 1
    BY <1>5, Words
  <1>8. DOMAIN instream = WordsOf(len_bits) /\ DOMAIN instream' = DOMAIN instream
    BY <1>2 DEF TypeInv, Bits, WithBit
  <1>9. ASSUME NEW k \in DOMAIN instream
        PROVE  /\ k \in Nat
               /\ k < i => instream'[k] = {k}
               /\ k = i => instream'[k] = {i}
               /\ k > i => instream'[k] = {}
    <2> DEFINE clear == bytes = 0 /\ k \div WordBits = i \div WordBits /\ i % WordBits = 0
               old == IF clear THEN {} ELSE instream[k]
    <2>1. k \in Nat
      BY <1>7, <1>8
    <2>2. instream'[k] = IF k = i THEN old \union {i} ELSE old
      BY <1>2, <1>6 DEF WithBit
    <2>3. CASE bytes + bit > 0
      <3>1. ~clear
        <4>1. ASSUME bytes = 0
              PROVE  i % WordBits # 0
          <5>1. 0 * BYTE = 0
            BY <1>5
          <5>2. i \in 1 .. WordBits - 1
            BY <1>4, <1>5, <1>7, <2>3, <4>1, <5>1
          <5> HIDE DEF i
          <5>3. i % WordBits = i
            BY <1>7, <5>2
          <5> QED
            BY <5>2, <5>3
        <4> QED
          BY <4>1
      <3>2. old = instream[k]
        BY <3>1
      <3> HIDE DEF old, clear, i
      <3>3. i \in Nat
        BY <1>4
      <3>4. k = i => instream'[k] = {i}
        BY <1>3, <2>2, <2>3, <3>2, <3>3
      <3> QED
        BY <1>3, <2>1, <2>2, <2>3, <3>2, <3>3, <3>4
    <2>4. CASE ~(bytes + bit > 0)
      <3>1. bytes = 0 /\ bit = 0 /\ 0 * BYTE + 0 = 0
        BY <1>4, <1>5, <2>4
      <3>2. i = 0
        BY <3>1
      <3>3. k \in 0 .. WordBits - 1
        <4>1. 0 * BYTE = 0
          BY <1>5
        <4>2. len_bits <= WordBits
          BY <1>5, <1>7, <3>1, <4>1
        <4> QED
          BY <1>7, <1>8, <4>2
      <3>4. k \div WordBits = 0 /\ 0 \div WordBits = 0 /\ 0 % WordBits = 0
        BY <1>7, <3>3
      <3>5. old = {}
        BY <3>1, <3>2, <3>4
      <3> HIDE DEF old, clear, i
      <3> QED
        BY <2>1, <2>2, <3>2, <3>5
    <2> QED
      BY <2>3, <2>4
  <1>10. CASE LastBit
    <2>1. pc' = "idle" /\ i + 1 = len_bits
      BY <1>2, <1>4, <1>10 DEF AfterBit, Return, LastBit
    <2>2. ASSUME NEW k \in 0 .. len_bits - 1
          PROVE  instream'[k] = {k}
      <3>1. k \in DOMAIN instream
        BY <1>7, <1>8
      <3> HIDE DEF i
      <3> QED
        BY <1>4, <1>5, <1>9, <2>1, <3>1
    <2> QED
      BY <1>1, <1>3, <1>6, <2>1, <2>2 DEF PlaceInv
  <1>11. CASE ~LastBit
    <2>1. pc' = "bits" /\ bit' = bit + 1 /\ bytes * BYTE + (bit + 1) = i + 1
      BY <1>2, <1>4, <1>11 DEF AfterBit
    <2>2. \A k \in DOMAIN instream' :
             /\ k < i + 1 => instream'[k] = {k}
             /\ k >= i + 1 => instream'[k] = {}
      <3> HIDE DEF i
      <3> QED
        BY <1>4, <1>5, <1>8, <1>9
    <2> QED
      BY <1>1, <1>3, <1>6, <2>1, <2>2 DEF PlaceInv
  <1> QED
    BY <1>10, <1>11

-----------------------------------------------------------------------------
(* The invariant.                                                          *)

LEMMA InitInv ==
    ASSUME CableAssumption, Init
    PROVE  CableInv
  <1>1. pc = "idle" /\ err = TRUE /\ fun = "write"
    BY DEF Init
  <1>2. ClockInv
    BY <1>1 DEF ClockInv
  <1>3. PlaceInv
    BY <1>1 DEF PlaceInv
  <1> QED
    BY <1>2, <1>3, TypeInit DEF CableInv

\* A write puts nothing anywhere.
LEMMA WritePlace ==
    ASSUME WritePacket \/ WriteBit
    PROVE  PlaceInv'
  <1>1. fun' = "write"
    BY DEF WritePacket, WriteBit, callVars
  <1> QED
    BY <1>1 DEF PlaceInv

LEMMA StutterInv ==
    ASSUME CableInv, UNCHANGED vars
    PROVE  CableInv'
  <1>1. UNCHANGED callVars
    BY DEF vars
  <1>2. /\ bytes' = bytes /\ leftover' = leftover /\ Tokens' = Tokens
        /\ Clocks' = Clocks /\ Octets' = Octets
        /\ WordsOf(len_bits)' = WordsOf(len_bits)
        /\ \A i : Clocked(i)' = Clocked(i)
    BY <1>1, SameCall
  <1>3. TypeInv'
    BY <1>2 DEF CableInv, TypeInv, Calls, Progress, Counts, Bits, vars, callVars, answerVars
  <1>4. ClockInv'
    <2>1. Sent' = Sent /\ Honest' = Honest
      BY <1>2 DEF Sent, Honest, vars, callVars, answerVars
    <2>2. ClockedBits(Sent)' = ClockedBits(Sent)
      BY <1>2, <2>1 DEF ClockedBits
    <2> QED
      BY <2>1, <2>2 DEF CableInv, ClockInv, vars
  <1>5. PlaceInv'
    BY <1>2 DEF CableInv, PlaceInv, AllClear, ByteOf, vars, callVars, answerVars
  <1> QED
    BY <1>3, <1>4, <1>5 DEF CableInv

LEMMA StepInv ==
    ASSUME CableAssumption, CableInv, [Next]_vars
    PROVE  CableInv'
  <1> USE DEF CableInv
  <1>1. CASE Calling
    BY <1>1, CallType, CallClock, CallPlace DEF Calling
  <1>2. CASE LowerClock
    BY <1>2, LowerClockType, LowerClockClock, LowerClockPlace
  <1>3. CASE WritePacket
    BY <1>3, WritePacketType, WritePacketClock, WritePlace
  <1>4. CASE ReadPacket
    BY <1>4, ReadPacketType, ReadPacketClock, ReadPacketPlace
  <1>5. CASE Answer
    BY <1>5, AnswerType, AnswerClock, AnswerPlace
  <1>6. CASE WriteBit
    BY <1>6, WriteBitType, WriteBitClock, WritePlace
  <1>7. CASE ReadBit
    BY <1>7, ReadBitType, ReadBitClock, ReadBitPlace
  <1>8. CASE UNCHANGED vars
    BY <1>8, StutterInv
  <1> QED
    BY <1>1, <1>2, <1>3, <1>4, <1>5, <1>6, <1>7, <1>8 DEF Next, Step, Done

\* In every call, as long as no failure is forgotten, the chain has seen the bits of
\* the stream that are due by now and no other, and the words hold what came back.
THEOREM CableInvariant ==
    ASSUME CableAssumption
    PROVE  Spec => []CableInv
  <1>1. Init => CableInv
    BY InitInv
  <1>2. CableInv /\ [Next]_vars => CableInv'
    BY StepInv
  <1> QED
    BY <1>1, <1>2, PTL DEF Spec

\* The counts of a call stay in range and, unless an answer of the cable has less
\* than its two bytes of status, do not go below zero; only bits of the stream are
\* clocked and read (cable_usbblaster_*_stream, cable_ft245_*_stream).
THEOREM TypeCorrect ==
    ASSUME CableAssumption
    PROVE  Spec => []TypeOK
  <1>1. CableInv => TypeOK
    <2> SUFFICES ASSUME CableInv
                 PROVE  TypeOK
      OBVIOUS
    <2>1. \A k \in DOMAIN wire : wire[k].bit \in Tokens
      <3>1. wire \in Seq(Clocks)
        BY DEF CableInv, TypeInv, Bits
      <3>2. \A k \in DOMAIN wire : wire[k] \in Clocks
        BY <3>1
      <3> QED
        BY <3>2 DEF Clocks
    <2>2. \A i \in DOMAIN instream : instream[i] \subseteq Tokens
      BY DEF CableInv, TypeInv, Bits
    <2>3. pc \in {"idle", "low", "packet", "answer", "bits", "crashed"}
      BY DEF CableInv, TypeInv
    <2>4. done \in 0 .. bytes /\ bit \in 0 .. leftover
      BY DEF CableInv, TypeInv, Progress
    <2>5. /\ {received, total} \subseteq Int /\ received <= xfer /\ total <= bytes
          /\ (received < 0 \/ total < 0 => short) /\ retries \in 0 .. RETRIES
      BY DEF CableInv, TypeInv, Counts
    <2> QED
      BY <2>1, <2>2, <2>3, <2>4, <2>5 DEF TypeOK
  <1> QED
    BY <1>1, CableInvariant, PTL

\* A stream of any length, split into packets of any size: a call that returns no
\* error has clocked the whole of it, in order and with TMS at its last bit only, if
\* nothing failed, and whatever failed, came late or short if it is a read and the
\* driver hears of failures; and a read of one packet that was answered at once has
\* put each bit into its place (cable_usbblaster_*_stream, cable_ft245_*_stream).
THEOREM StreamsStayRight ==
    ASSUME CableAssumption
    PROVE  Spec => []StreamsAreRight
  <1>1. CableInv => StreamsAreRight
    <2> SUFFICES ASSUME CableInv
                 PROVE  StreamsAreRight
      OBVIOUS
    <2>1. ASSUME pc = "idle", ~err, Honest
          PROVE  AllClocked
      <3>1. Sent = len_bits /\ wire = ClockedBits(Sent)
        BY <2>1 DEF CableInv, ClockInv, Sent
      <3> QED
        BY <3>1 DEF AllClocked, ClockedBits
    <2>2. ReadClocksStream
      BY <2>1 DEF ReadClocksStream, Returned, Honest
    <2>3. WriteClocksStream
      BY <2>1 DEF WriteClocksStream, Returned, Honest
    <2>4. ReadIsPlaced
      BY DEF ReadIsPlaced, Returned, CableInv, PlaceInv
    <2> QED
      BY <2>2, <2>3, <2>4 DEF StreamsAreRight
  <1> QED
    BY <1>1, CableInvariant, PTL

=============================================================================

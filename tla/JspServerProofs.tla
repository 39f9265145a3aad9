--------------------------- MODULE JspServerProofs ----------------------------
(***************************************************************************)
(* The bytes of the serial console stay in order, for every size of the    *)
(* rings, the FIFOs and the socket.                                        *)
(***************************************************************************)
EXTENDS JspServer, SequenceTheorems, TLAPS

-----------------------------------------------------------------------------
(* Indices modulo the size of a ring.                                      *)

LEMMA Wrap ==
    ASSUME NEW N \in Nat \ {0}, NEW a \in 0..(N - 1), NEW b \in 0..N
    PROVE  (a + b) % N = IF a + b < N THEN a + b ELSE a + b - N
OBVIOUS

LEMMA Unwrap ==
    ASSUME NEW N \in Nat \ {0}, NEW a \in 0..(N - 1), NEW b \in 0..(N - 1)
    PROVE  (a - b) % N = IF b <= a THEN a - b ELSE a - b + N
OBVIOUS

\* The read and the write index say how many bytes there are.
Sound(r) == r.wr = (r.rd + r.count) % JSP_BUFFER_SIZE

Bytes(r) == Peek(r, r.count)

\* The k-th byte that is written, or read, has the place after k - 1 others.
LEMMA Place ==
    ASSUME NEW max, NEW r \in Ring(max), NEW k \in 1..JSP_BUFFER_SIZE
    PROVE  /\ (r.rd + k - 1) % JSP_BUFFER_SIZE \in 0..(JSP_BUFFER_SIZE - 1)
           /\ Sound(r) =>
                (((r.rd + k - 1) % JSP_BUFFER_SIZE) - r.wr) % JSP_BUFFER_SIZE
                    = IF k <= r.count THEN k - 1 - r.count + JSP_BUFFER_SIZE
                                      ELSE k - 1 - r.count
<1> DEFINE N == JSP_BUFFER_SIZE
           rd == r.rd
           wr == r.wr
           c == r.count
           p == (rd + k - 1) % N
<1>1. N \in Nat \ {0} /\ rd \in 0..(N - 1) /\ wr \in 0..(N - 1) /\ c \in 0..N
  BY JspAssumption DEF Ring, RingWith
<1>2. k \in 1..N
  OBVIOUS
<1>3. p = IF rd + k - 1 < N THEN rd + k - 1 ELSE rd + k - 1 - N
  <2>1. (rd + (k - 1)) % N = IF rd + (k - 1) < N THEN rd + (k - 1) ELSE rd + (k - 1) - N
    <3> HIDE DEF N, rd
    <3>1. k - 1 \in 0..N
      BY <1>1, <1>2
    <3>2. QED
      BY <1>1, <3>1, Wrap
  <2>2. rd + (k - 1) = rd + k - 1
    BY <1>1, <1>2
  <2>3. QED
    BY <2>1, <2>2
<1>4. Sound(r) => wr = IF rd + c < N THEN rd + c ELSE rd + c - N
  <2>1. (rd + c) % N = IF rd + c < N THEN rd + c ELSE rd + c - N
    <3> HIDE DEF N, rd, c
    <3>1. QED
      BY <1>1, Wrap
  <2>2. QED
    BY <2>1 DEF Sound
<1> HIDE DEF N, rd, wr, c, p
<1>5. p \in 0..(N - 1)
  BY <1>1, <1>2, <1>3
<1>6. (p - wr) % N = IF wr <= p THEN p - wr ELSE p - wr + N
  BY <1>1, <1>5, Unwrap
<1>7. ASSUME Sound(r)
      PROVE  (p - wr) % N = IF k <= c THEN k - 1 - c + N ELSE k - 1 - c
  BY <1>1, <1>2, <1>3, <1>4, <1>6, <1>7
<1>8. QED
  BY <1>5, <1>7 DEF N, rd, wr, c, p

LEMMA PeekIsSeq ==
    ASSUME NEW max \in Nat, NEW r \in Ring(max), NEW n \in 0..JSP_BUFFER_SIZE
    PROVE  /\ Peek(r, n) \in Seq(0..max)
           /\ Len(Peek(r, n)) = n
           /\ \A k \in 1..n : Peek(r, n)[k] = r.buf[(r.rd + k - 1) % JSP_BUFFER_SIZE]
<1>1. n \in Nat /\ 1..n \subseteq 1..JSP_BUFFER_SIZE
  BY JspAssumption
<1>2. ASSUME NEW k \in 1..n
      PROVE  r.buf[(r.rd + k - 1) % JSP_BUFFER_SIZE] \in 0..max
  <2>1. (r.rd + k - 1) % JSP_BUFFER_SIZE \in 0..(JSP_BUFFER_SIZE - 1)
    BY <1>1, Place
  <2>2. QED
    BY <2>1 DEF Ring, RingWith
<1>3. \A k \in 1..n : Peek(r, n)[k] = r.buf[(r.rd + k - 1) % JSP_BUFFER_SIZE]
  BY DEF Peek
<1>4. Peek(r, n) \in [1..n -> 0..max]
  BY <1>2 DEF Peek
<1>5. Peek(r, n) \in Seq(0..max) /\ Len(Peek(r, n)) = n
  <2> DEFINE q == Peek(r, n)
  <2>1. q \in [1..n -> 0..max]
    BY <1>4
  <2> HIDE DEF q
  <2>2. q \in Seq(0..max) /\ Len(q) = n
    BY <1>1, <2>1
  <2>3. QED
    BY <2>2 DEF q
<1>6. QED
  BY <1>3, <1>5

\* What is put into a ring that has the space comes after what it held.
LEMMA PutBytes ==
    ASSUME NEW max \in Nat, NEW r \in Ring(max), Sound(r),
           NEW s \in Seq(0..max), r.count + Len(s) <= JSP_BUFFER_SIZE
    PROVE  /\ Put(r, s) \in Ring(max)
           /\ Sound(Put(r, s))
           /\ Put(r, s).count = r.count + Len(s)
           /\ Bytes(Put(r, s)) = Bytes(r) \o s
<1> DEFINE N == JSP_BUFFER_SIZE
           q == Put(r, s)
           buf == [i \in DOMAIN r.buf |->
                      LET n == ((i - r.wr) % N) + 1
                      IN IF n <= Len(s) THEN s[n] ELSE r.buf[i]]
<1>1. /\ N \in Nat \ {0}
      /\ r.rd \in 0..(N - 1) /\ r.wr \in 0..(N - 1) /\ r.count \in 0..N
      /\ r.buf \in [0..(N - 1) -> 0..max]
      /\ Len(s) \in Nat
  BY JspAssumption, LenProperties DEF Ring, RingWith
<1>2. q = [rd |-> r.rd, wr |-> (r.wr + Len(s)) % N, count |-> r.count + Len(s),
           buf |-> buf]
  <2>1. r = [rd |-> r.rd, wr |-> r.wr, count |-> r.count, buf |-> r.buf]
    BY DEF Ring, RingWith
  <2>2. q = [r EXCEPT !.buf = buf, !.wr = (r.wr + Len(s)) % N,
                      !.count = r.count + Len(s)]
    BY Zenon DEF Put
  <2> HIDE DEF q, buf, N
  <2>3. QED
    BY <2>1, <2>2
<1>3. buf \in [0..(N - 1) -> 0..max]
  <2>1. ASSUME NEW i \in 0..(N - 1)
        PROVE  (IF ((i - r.wr) % N) + 1 <= Len(s) THEN s[((i - r.wr) % N) + 1]
                                                  ELSE r.buf[i]) \in 0..max
    <3> DEFINE d == (i - r.wr) % N
    <3>1. d \in Nat
      <4>1. i - r.wr \in Int
        BY <1>1
      <4> HIDE DEF N
      <4>2. QED
        BY SMTT(40), <1>1, <4>1
    <3> HIDE DEF d
    <3>2. ASSUME d + 1 <= Len(s) PROVE s[d + 1] \in 0..max
      <4>1. d + 1 \in 1..Len(s)
        BY <1>1, <3>1, <3>2
      <4>2. QED
        BY <4>1, ElementOfSeq
    <3>3. r.buf[i] \in 0..max
      BY <1>1
    <3>4. QED
      BY <3>2, <3>3 DEF d
  <2>2. DOMAIN r.buf = 0..(N - 1)
    BY <1>1
  <2>3. QED
    BY <2>1, <2>2
<1>4. q \in Ring(max)
  <2>1. (r.wr + Len(s)) % N \in 0..(N - 1)
    BY SMTT(40), <1>1
  <2>2. r.count + Len(s) \in 0..N
    BY SMTT(40), <1>1
  <2> HIDE DEF q, buf, N
  <2>3. QED
    BY <1>1, <1>2, <1>3, <2>1, <2>2 DEF Ring, RingWith, N
<1>5. Sound(q)
  <2> DEFINE rd == r.rd  wr == r.wr  c == r.count  n == Len(s)
  <2>1. wr = (rd + c) % N
    BY DEF Sound
  <2>2. c + n \in 0..N
    BY SMTT(40), <1>1
  <2> HIDE DEF N, rd, wr, c, n
  <2>3. /\ N \in Nat \ {0} /\ rd \in 0..(N - 1) /\ wr \in 0..(N - 1)
        /\ c \in 0..N /\ n \in Nat /\ n \in 0..N
    BY <1>1, <2>2 DEF N, rd, wr, c, n
  <2>4. /\ wr = IF rd + c < N THEN rd + c ELSE rd + c - N
        /\ (rd + (c + n)) % N = IF rd + (c + n) < N THEN rd + (c + n)
                                                    ELSE rd + (c + n) - N
        /\ (wr + n) % N = IF wr + n < N THEN wr + n ELSE wr + n - N
    BY <2>1, <2>2, <2>3, Wrap
  <2>5. (wr + n) % N = (rd + (c + n)) % N
    BY <2>2, <2>3, <2>4
  <2>6. QED
    BY <1>2, <2>5 DEF Sound, N, rd, wr, c, n
<1>6. q.count = r.count + Len(s) /\ q.rd = r.rd /\ q.buf = buf
  BY <1>2
<1>7. Bytes(q) = Bytes(r) \o s
  <2> DEFINE old == Bytes(r)
             new == Bytes(q)
  <2>1. /\ old \in Seq(0..max) /\ Len(old) = r.count
        /\ \A k \in 1..r.count : old[k] = r.buf[(r.rd + k - 1) % N]
    BY ZenonT(40), <1>1, PeekIsSeq DEF Bytes
  <2>2. q.count \in 0..N
    BY <1>4 DEF Ring, RingWith
  <2>3. /\ new \in Seq(0..max) /\ Len(new) = q.count
        /\ \A k \in 1..q.count : new[k] = q.buf[(q.rd + k - 1) % N]
    BY <1>4, <2>2, PeekIsSeq DEF Bytes
  <2>4. ASSUME NEW k \in 1..Len(new)
        PROVE  new[k] = IF k <= Len(old) THEN old[k] ELSE s[k - Len(old)]
    <3> DEFINE p == (r.rd + k - 1) % N
    <3> HIDE DEF q, old, new
    <3>1. k \in 1..N /\ k \in 1..q.count
      BY <1>1, <2>2, <2>3
    <3>2. /\ p \in 0..(N - 1)
          /\ (p - r.wr) % N = IF k <= r.count THEN k - 1 - r.count + N
                                             ELSE k - 1 - r.count
      BY <3>1, Place
    <3>3. new[k] = q.buf[p]
      BY <1>6, <2>3, <3>1
    <3>4. q.buf[p] = IF ((p - r.wr) % N) + 1 <= Len(s)
                     THEN s[((p - r.wr) % N) + 1] ELSE r.buf[p]
      <4>1. p \in DOMAIN r.buf
        BY <1>1, <3>2
      <4> HIDE DEF p
      <4>2. QED
        BY <1>6, <4>1
    <3>5. k <= r.count => old[k] = r.buf[p]
      <4>1. k <= r.count => k \in 1..r.count
        BY <1>1, <3>1
      <4>2. QED
        BY <2>1, <4>1
    <3> DEFINE d == (p - r.wr) % N
    <3>6. q.buf[p] = IF d + 1 <= Len(s) THEN s[d + 1] ELSE r.buf[p]
      BY <3>4
    <3>7. d = IF k <= r.count THEN k - 1 - r.count + N ELSE k - 1 - r.count
      BY <3>2
    <3>8. r.count + Len(s) <= N
      OBVIOUS
    <3> HIDE DEF p, buf, d, N
    <3>9. CASE k <= r.count
      <4>1. ~(d + 1 <= Len(s))
        BY <1>1, <3>1, <3>7, <3>8, <3>9
      <4>2. QED
        BY <2>1, <3>3, <3>5, <3>6, <3>9, <4>1
    <3>10. CASE ~(k <= r.count)
      <4>1. d + 1 = k - r.count
        BY <1>1, <3>1, <3>7, <3>10
      <4>2. d + 1 <= Len(s)
        BY <1>1, <1>6, <3>1, <3>10, <4>1
      <4>3. new[k] = s[k - r.count]
        BY <3>3, <3>6, <4>1, <4>2
      <4>4. QED
        BY <2>1, <3>10, <4>3
    <3>11. QED
      BY <3>9, <3>10
  <2>5. /\ old \o s \in Seq(0..max)
        /\ Len(old \o s) = Len(old) + Len(s)
        /\ \A i \in 1..(Len(old) + Len(s)) :
               (old \o s)[i] = IF i <= Len(old) THEN old[i] ELSE s[i - Len(old)]
    <3> HIDE DEF old
    <3>1. QED
      BY <2>1, ConcatProperties
  <2> HIDE DEF old, new, q
  <2>6. Len(new) = Len(old \o s)
    BY <1>6, <2>1, <2>3, <2>5
  <2>7. \A k \in 1..Len(new) : new[k] = (old \o s)[k]
    BY <2>4, <2>5, <2>6
  <2>8. new = old \o s
    BY <2>3, <2>5, <2>6, <2>7, SeqEqual
  <2>9. QED
    BY <2>8 DEF old, new
<1>8. QED
  BY <1>4, <1>5, <1>6, <1>7

\* The first bytes of the first bytes.
LEMMA PeekFirst ==
    ASSUME NEW max \in Nat, NEW r \in Ring(max),
           NEW m \in 0..JSP_BUFFER_SIZE, NEW n \in 0..m
    PROVE  FirstOf(Peek(r, m), n) = Peek(r, n)
<1> DEFINE p == Peek(r, m)
           q == Peek(r, n)
           f == FirstOf(p, n)
<1>1. m \in Nat /\ n \in Nat /\ n <= m /\ n \in 0..JSP_BUFFER_SIZE
  BY JspAssumption
<1>2. /\ p \in Seq(0..max) /\ Len(p) = m
      /\ q \in Seq(0..max) /\ Len(q) = n
      /\ \A k \in 1..n : p[k] = q[k]
  BY <1>1, PeekIsSeq
<1> HIDE DEF p, q
<1>3. \A k \in 1..n : p[k] \in 0..max
  BY <1>1, <1>2, ElementOfSeq
<1>4. /\ f \in Seq(0..max)
      /\ Len(f) = IF 1 <= n THEN n - 1 + 1 ELSE 0
      /\ \A k \in 1..(n - 1 + 1) : f[k] = p[1 + k - 1]
  BY <1>1, <1>3, SubSeqProperties DEF FirstOf
<1> HIDE DEF f
<1>5. Len(f) = n /\ \A k \in 1..n : f[k] = q[k]
  BY <1>1, <1>2, <1>4
<1>6. f = q
  BY <1>2, <1>4, <1>5, SeqEqual
<1>7. QED
  BY <1>6 DEF f, p, q

\* A sequence is its first bytes and the others.
LEMMA FirstAndRest ==
    ASSUME NEW S, NEW s \in Seq(S), NEW n \in 0..Len(s)
    PROVE  /\ FirstOf(s, n) \in Seq(S) /\ Len(FirstOf(s, n)) = n
           /\ Without(s, n) \in Seq(S)
           /\ FirstOf(s, n) \o Without(s, n) = s
<1>1. Len(s) \in Nat /\ n \in Nat /\ n <= Len(s)
  BY LenProperties
<1>2. FirstOf(s, n) \in Seq(S) /\ Len(FirstOf(s, n)) = n
  <2>1. \A k \in 1..n : s[k] \in S
    BY <1>1, ElementOfSeq
  <2>2. QED
    BY <1>1, <2>1, SubSeqProperties DEF FirstOf
<1>3. Without(s, n) \in Seq(S)
  <2>1. \A k \in (n + 1)..Len(s) : s[k] \in S
    BY <1>1, ElementOfSeq
  <2>2. QED
    BY <1>1, <2>1, SubSeqProperties DEF Without
<1>4. SubSeq(s, 1, n) \o SubSeq(s, n + 1, Len(s)) = SubSeq(s, 1, Len(s))
  <2>1. 1 \in 1..(Len(s) + 1) /\ n \in (1 - 1)..Len(s) /\ Len(s) \in n..Len(s)
    BY <1>1
  <2>2. QED
    BY <2>1, ConcatAdjacentSubSeq
<1>5. QED
  BY <1>2, <1>3, <1>4, SubSeqFull DEF FirstOf, Without

\* What is dropped from a ring are its first bytes.
LEMMA DropBytes ==
    ASSUME NEW max \in Nat, NEW r \in Ring(max), Sound(r), NEW n \in 0..r.count
    PROVE  /\ Drop(r, n) \in Ring(max)
           /\ Sound(Drop(r, n))
           /\ Drop(r, n).count = r.count - n
           /\ Peek(r, n) \o Bytes(Drop(r, n)) = Bytes(r)
<1> DEFINE N == JSP_BUFFER_SIZE
           q == Drop(r, n)
           rd == r.rd
           c == r.count
           d == (rd + n) % N
<1>1. /\ N \in Nat \ {0}
      /\ rd \in 0..(N - 1) /\ r.wr \in 0..(N - 1) /\ c \in 0..N
      /\ r.buf \in [0..(N - 1) -> 0..max]
      /\ n \in 0..N /\ n \in Nat /\ n <= c
  BY JspAssumption DEF Ring, RingWith
<1>2. q = [rd |-> d, wr |-> r.wr, count |-> c - n, buf |-> r.buf]
  <2>1. r = [rd |-> r.rd, wr |-> r.wr, count |-> r.count, buf |-> r.buf]
    BY DEF Ring, RingWith
  <2>2. q = [r EXCEPT !.rd = d, !.count = c - n]
    BY Zenon DEF Drop
  <2> HIDE DEF q, d, N
  <2>3. QED
    BY <2>1, <2>2
<1>3. d = IF rd + n < N THEN rd + n ELSE rd + n - N
  <2> HIDE DEF N, rd
  <2>1. QED
    BY <1>1, Wrap
<1> HIDE DEF d, N, rd, c
<1>4. d \in 0..(N - 1) /\ c - n \in 0..N
  BY <1>1, <1>3
<1> HIDE DEF q
<1>5. q.rd = d /\ q.wr = r.wr /\ q.count = c - n /\ q.buf = r.buf
  BY <1>2
<1>6. q \in Ring(max)
  BY <1>1, <1>2, <1>4 DEF Ring, RingWith, N
<1>7. Sound(q)
  <2>1. r.wr = (rd + c) % N
    BY DEF Sound, rd, c, N
  <2>2. /\ (rd + c) % N = IF rd + c < N THEN rd + c ELSE rd + c - N
        /\ (d + (c - n)) % N = IF d + (c - n) < N THEN d + (c - n)
                                                  ELSE d + (c - n) - N
    BY <1>1, <1>4, Wrap
  <2>3. (d + (c - n)) % N = (rd + c) % N
    BY <1>1, <1>3, <1>4, <2>2
  <2>4. QED
    BY <1>5, <2>1, <2>3 DEF Sound, N
<1>8. Peek(r, n) \o Bytes(q) = Bytes(r)
  <2> DEFINE first == Peek(r, n)
             rest == Bytes(q)
             all == Bytes(r)
             both == first \o rest
  <2>1. q.count \in 0..JSP_BUFFER_SIZE /\ r.count \in 0..JSP_BUFFER_SIZE
        /\ n \in 0..JSP_BUFFER_SIZE
    BY <1>1, <1>6 DEF Ring, RingWith, N
  <2>2. /\ first \in Seq(0..max) /\ Len(first) = n
        /\ \A k \in 1..n : first[k] = r.buf[(rd + k - 1) % N]
    BY <2>1, PeekIsSeq DEF rd, N
  <2>3. /\ rest \in Seq(0..max) /\ Len(rest) = q.count
        /\ \A k \in 1..q.count : rest[k] = q.buf[(q.rd + k - 1) % N]
    BY <1>6, <2>1, PeekIsSeq DEF Bytes, N
  <2>4. /\ all \in Seq(0..max) /\ Len(all) = c
        /\ \A k \in 1..c : all[k] = r.buf[(rd + k - 1) % N]
    BY <2>1, PeekIsSeq DEF Bytes, rd, c, N
  <2> HIDE DEF first, rest, all
  <2>5. /\ both \in Seq(0..max)
        /\ Len(both) = Len(first) + Len(rest)
        /\ \A i \in 1..(Len(first) + Len(rest)) :
               both[i] = IF i <= Len(first) THEN first[i] ELSE rest[i - Len(first)]
    BY <2>2, <2>3, ConcatProperties
  <2> HIDE DEF both
  <2>6. Len(both) = c /\ Len(first) + Len(rest) = c
    BY <1>1, <1>5, <2>2, <2>3, <2>5
  <2>7. ASSUME NEW k \in 1..Len(both) PROVE both[k] = all[k]
    <3>1. k \in 1..c
      BY <2>6
    <3>2. CASE k <= n
      <4>1. k \in 1..n
        BY <1>1, <3>1, <3>2
      <4>2. both[k] = first[k]
        BY <2>2, <2>5, <2>6, <3>1, <3>2
      <4>3. first[k] = r.buf[(rd + k - 1) % N]
        BY <2>2, <4>1
      <4>4. QED
        BY <2>4, <3>1, <4>2, <4>3
    <3>3. CASE ~(k <= n)
      <4>1. k - n \in 1..q.count
        BY <1>1, <1>5, <3>1, <3>3
      <4>2. both[k] = r.buf[(d + (k - n) - 1) % N]
        <5>1. both[k] = rest[k - n]
          BY <2>2, <2>5, <2>6, <3>1, <3>3
        <5>2. rest[k - n] = q.buf[(q.rd + (k - n) - 1) % N]
          BY <2>3, <4>1
        <5>3. QED
          BY <1>5, <5>1, <5>2
      <4>3. (d + (k - n) - 1) % N = (rd + k - 1) % N
        <5>1. k - n - 1 \in 0..N /\ k - 1 \in 0..N
          BY <1>1, <1>5, <3>1, <3>3
        <5>2. /\ (d + (k - n - 1)) % N = IF d + (k - n - 1) < N THEN d + (k - n - 1)
                                         ELSE d + (k - n - 1) - N
              /\ (rd + (k - 1)) % N = IF rd + (k - 1) < N THEN rd + (k - 1)
                                      ELSE rd + (k - 1) - N
          BY <1>1, <1>4, <5>1, Wrap
        <5>3. d + (k - n) - 1 = d + (k - n - 1) /\ rd + k - 1 = rd + (k - 1)
          BY <1>1, <1>4, <3>1
        <5>4. (d + (k - n - 1)) % N = (rd + (k - 1)) % N
          BY <1>1, <1>3, <1>4, <3>1, <3>3, <5>2
        <5>5. QED
          BY <5>3, <5>4
      <4>4. all[k] = r.buf[(rd + k - 1) % N]
        BY <2>4, <3>1
      <4>5. QED
        BY <4>2, <4>3, <4>4
    <3>4. QED
      BY <3>2, <3>3
  <2>8. both = all
    BY <2>4, <2>5, <2>6, <2>7, SeqEqual
  <2>9. QED
    BY <2>8 DEF both, first, rest, all
<1>9. QED
  BY <1>5, <1>6, <1>7, <1>8 DEF q, c

-----------------------------------------------------------------------------
(* Sequences of bytes.                                                     *)

Ascending(s) == \A i, j \in DOMAIN s : i < j => s[i] < s[j]

LEMMA Widen ==
    ASSUME NEW lo \in Nat, NEW max \in Nat, NEW s \in Seq(lo..max)
    PROVE  s \in Seq(Nat)
<1>1. lo..max \subseteq Nat
  OBVIOUS
<1>2. QED
  BY <1>1, SeqMonotonic

LEMMA BytesOfConcat ==
    ASSUME NEW S, NEW s \in Seq(S), NEW t \in Seq(S)
    PROVE  BytesOf(s \o t) = BytesOf(s) \union BytesOf(t)
<1> DEFINE u == s \o t
<1>1. /\ Len(s) \in Nat /\ DOMAIN s = 1..Len(s)
      /\ Len(t) \in Nat /\ DOMAIN t = 1..Len(t)
  BY LenProperties
<1>2. /\ u \in Seq(S)
      /\ Len(u) = Len(s) + Len(t)
      /\ \A i \in 1..(Len(s) + Len(t)) :
             u[i] = IF i <= Len(s) THEN s[i] ELSE t[i - Len(s)]
  BY ConcatProperties
<1> HIDE DEF u
<1>3. DOMAIN u = 1..(Len(s) + Len(t))
  BY <1>2, LenProperties
<1>4. ASSUME NEW x \in BytesOf(u) PROVE x \in BytesOf(s) \union BytesOf(t)
  <2>1. PICK i \in 1..(Len(s) + Len(t)) : x = u[i]
    BY <1>3 DEF BytesOf
  <2>2. CASE i <= Len(s)
    BY SMTT(40), <1>1, <1>2, <2>1, <2>2 DEF BytesOf
  <2>3. CASE ~(i <= Len(s))
    <3>1. i - Len(s) \in 1..Len(t)
      BY <1>1, <2>1, <2>3
    <3>2. QED
      BY <1>1, <1>2, <2>1, <2>3, <3>1 DEF BytesOf
  <2>4. QED
    BY <2>2, <2>3
<1>5. ASSUME NEW x \in BytesOf(s) PROVE x \in BytesOf(u)
  <2>1. PICK i \in 1..Len(s) : x = s[i]
    BY <1>1 DEF BytesOf
  <2>2. i \in 1..(Len(s) + Len(t)) /\ u[i] = s[i]
    BY <1>1, <1>2
  <2>3. QED
    BY <1>3, <2>1, <2>2 DEF BytesOf
<1>6. ASSUME NEW x \in BytesOf(t) PROVE x \in BytesOf(u)
  <2>1. PICK i \in 1..Len(t) : x = t[i]
    BY <1>1 DEF BytesOf
  <2>2. i + Len(s) \in 1..(Len(s) + Len(t)) /\ ~(i + Len(s) <= Len(s))
        /\ i + Len(s) - Len(s) = i
    BY <1>1
  <2>3. u[i + Len(s)] = t[i]
    BY <1>2, <2>2
  <2>4. QED
    BY <1>3, <2>1, <2>2, <2>3 DEF BytesOf
<1>7. QED
  BY <1>4, <1>5, <1>6 DEF u

LEMMA BytesOfAppend ==
    ASSUME NEW S, NEW s \in Seq(S), NEW x \in S
    PROVE  BytesOf(Append(s, x)) = BytesOf(s) \union {x}
<1>1. <<x>> \in Seq(S) /\ Append(s, x) = s \o <<x>>
  BY AppendIsConcat
<1>2. BytesOf(<<x>>) = {x}
  <2>1. DOMAIN <<x>> = {1} /\ <<x>>[1] = x
    OBVIOUS
  <2>2. QED
    BY <2>1 DEF BytesOf
<1>3. BytesOf(s \o <<x>>) = BytesOf(s) \union BytesOf(<<x>>)
  BY ZenonT(40), <1>1, BytesOfConcat
<1>4. QED
  BY <1>1, <1>2, <1>3

\* A byte greater than all others keeps an ascending sequence ascending,
LEMMA AscendingAppend ==
    ASSUME NEW s \in Seq(Nat), Ascending(s), NEW n \in Nat,
           \A x \in BytesOf(s) : x < n
    PROVE  Ascending(Append(s, n))
<1> DEFINE t == Append(s, n)
<1>1. /\ t \in Seq(Nat) /\ Len(t) = Len(s) + 1
      /\ \A i \in 1..Len(s) : t[i] = s[i]
      /\ t[Len(s) + 1] = n
  BY AppendProperties
<1>2. Len(s) \in Nat /\ DOMAIN s = 1..Len(s)
  BY LenProperties
<1> HIDE DEF t
<1>3. DOMAIN t = 1..(Len(s) + 1)
  BY <1>1, LenProperties
<1>4. ASSUME NEW i \in DOMAIN t, NEW j \in DOMAIN t, i < j PROVE t[i] < t[j]
  <2>1. i \in 1..Len(s) /\ t[i] = s[i]
    BY <1>1, <1>2, <1>3, <1>4
  <2>2. CASE j \in 1..Len(s)
    BY <1>1, <1>2, <1>4, <2>1, <2>2 DEF Ascending
  <2>3. CASE j = Len(s) + 1
    BY <1>1, <1>2, <2>1, <2>3 DEF BytesOf
  <2>4. QED
    BY <1>2, <1>3, <2>2, <2>3
<1>5. QED
  BY <1>4 DEF Ascending, t

\* and so does leaving out its last bytes.
LEMMA AscendingFirst ==
    ASSUME NEW s \in Seq(Nat), NEW t \in Seq(Nat), Ascending(s \o t)
    PROVE  Ascending(s)
<1> DEFINE u == s \o t
<1>1. /\ Len(s) \in Nat /\ DOMAIN s = 1..Len(s) /\ Len(t) \in Nat
  BY LenProperties
<1>2. /\ u \in Seq(Nat)
      /\ Len(u) = Len(s) + Len(t)
      /\ \A i \in 1..(Len(s) + Len(t)) :
             u[i] = IF i <= Len(s) THEN s[i] ELSE t[i - Len(s)]
      /\ Ascending(u)
  BY ConcatProperties
<1> HIDE DEF u
<1>3. DOMAIN u = 1..(Len(s) + Len(t))
  BY <1>2, LenProperties
<1>4. \A i \in 1..Len(s) : i \in DOMAIN u /\ u[i] = s[i]
  BY <1>1, <1>2, <1>3
<1>5. QED
  BY <1>1, <1>2, <1>4 DEF Ascending

LEMMA UpToGrows ==
    ASSUME NEW n \in Nat
    PROVE  UpTo(n) \in Seq(Nat) /\ Append(UpTo(n), n + 1) = UpTo(n + 1)
<1>1. ASSUME NEW m \in Nat
      PROVE  /\ UpTo(m) \in Seq(Nat) /\ Len(UpTo(m)) = m
             /\ \A i \in 1..m : UpTo(m)[i] = i
  <2> DEFINE q == UpTo(m)
  <2>1. q \in [1..m -> Nat] /\ \A i \in 1..m : q[i] = i
    BY DEF UpTo
  <2> HIDE DEF q
  <2>2. q \in Seq(Nat) /\ Len(q) = m
    BY <2>1
  <2>3. QED
    BY <2>1, <2>2 DEF q
<1> DEFINE t == Append(UpTo(n), n + 1)
           u == UpTo(n + 1)
<1>2. /\ t \in Seq(Nat) /\ Len(t) = n + 1
      /\ \A i \in 1..n : t[i] = i
      /\ t[n + 1] = n + 1
  BY <1>1, AppendProperties
<1>3. u \in Seq(Nat) /\ Len(u) = n + 1 /\ \A i \in 1..(n + 1) : u[i] = i
  BY <1>1
<1> HIDE DEF t, u
<1>4. \A i \in 1..(n + 1) : t[i] = u[i]
  BY <1>2, <1>3
<1>5. t = u
  BY <1>2, <1>3, <1>4, SeqEqual
<1>6. QED
  BY <1>1, <1>5 DEF t, u

LEMMA Regroup ==
    \A a, b, c \in Seq(Nat) : (a \o b) \o c = a \o (b \o c)
<1> SUFFICES ASSUME NEW a \in Seq(Nat), NEW b \in Seq(Nat), NEW c \in Seq(Nat)
             PROVE  (a \o b) \o c = a \o (b \o c)
  OBVIOUS
<1>1. QED
  BY SMTT(40), ConcatAssociative

\* Concatenation under a name: the provers need no more of it than Grouped.
Cat(s, t) == s \o t

LEMMA Grouped ==
    \A a, b, c \in Seq(Nat) :
        Cat(a, b) \in Seq(Nat) /\ Cat(Cat(a, b), c) = Cat(a, Cat(b, c))
<1> SUFFICES ASSUME NEW a \in Seq(Nat), NEW b \in Seq(Nat), NEW c \in Seq(Nat)
             PROVE  a \o b \in Seq(Nat) /\ (a \o b) \o c = a \o (b \o c)
  BY DEF Cat
<1>1. a \o b \in Seq(Nat)
  BY ConcatProperties
<1>2. (a \o b) \o c = a \o (b \o c)
  BY Regroup
<1>3. QED
  BY <1>1, <1>2

\* Bytes move from the second part of a sequence to the first, or from the
\* third to the second.
LEMMA MoveDown ==
    \A a, b, c, d \in Seq(Nat) :
        /\ Cat(Cat(a, b), c) \in Seq(Nat)
        /\ Cat(Cat(a, Cat(b, c)), d) = Cat(Cat(a, b), Cat(c, d))
        /\ Cat(Cat(Cat(a, b), c), d) = Cat(Cat(a, Cat(b, c)), d)
<1> SUFFICES ASSUME NEW a \in Seq(Nat), NEW b \in Seq(Nat), NEW c \in Seq(Nat),
                    NEW d \in Seq(Nat)
             PROVE  /\ Cat(Cat(a, b), c) \in Seq(Nat)
                    /\ Cat(Cat(a, Cat(b, c)), d) = Cat(Cat(a, b), Cat(c, d))
                    /\ Cat(Cat(Cat(a, b), c), d) = Cat(Cat(a, Cat(b, c)), d)
  OBVIOUS
<1>1. Cat(a, b) \in Seq(Nat) /\ Cat(Cat(a, b), c) \in Seq(Nat)
  BY Grouped
<1>2. Cat(Cat(a, b), c) = Cat(a, Cat(b, c))
  BY Grouped
<1>3. Cat(Cat(Cat(a, b), c), d) = Cat(Cat(a, b), Cat(c, d))
  BY <1>1, Grouped
<1>4. QED
  BY <1>1, <1>2, <1>3

-----------------------------------------------------------------------------
(* What each step does to the bytes on their way.                          *)

\* The way from the client to the hardware,
InOK ==
    /\ tohw \in Ring(MaxIn) /\ Sound(tohw)
    /\ rx \in Seq(1..MaxIn)
    /\ arrived \in Seq(0..MaxIn)
    /\ infifo \in Seq(0..MaxIn) /\ Len(infifo) <= FifoSize
    /\ sent \in 0..MaxIn

\* and the way back, until the ring is overrun.
OutOK ==
    /\ fromhw \in Ring(MaxOut) /\ Sound(fromhw)
    /\ outfifo \in Seq(1..MaxOut) /\ Len(outfifo) <= FifoSize
    /\ tx \in Seq(0..MaxOut) /\ Len(tx) <= Room
    /\ received \in Seq(0..MaxOut)
    /\ written \in 0..MaxOut

\* What is left of that when it is.
OutLoose ==
    /\ fromhw \in RingWith(Nat, MaxOut)
    /\ outfifo \in Seq(1..MaxOut) /\ Len(outfifo) <= FifoSize
    /\ tx \in Seq(0..MaxOut) /\ Len(tx) <= Room
    /\ received \in Seq(0..MaxOut)
    /\ written \in 0..MaxOut
    /\ overrun \in BOOLEAN

LEMMA InParts ==
    ASSUME InOK
    PROVE  /\ tohw.count \in 0..JSP_BUFFER_SIZE
           /\ arrived \in Seq(Nat) /\ rx \in Seq(Nat) /\ infifo \in Seq(Nat)
           /\ Bytes(tohw) \in Seq(0..MaxIn) /\ Bytes(tohw) \in Seq(Nat)
           /\ Len(rx) \in Nat /\ Len(infifo) \in Nat
           /\ InBytes = (arrived \o Bytes(tohw)) \o rx
           /\ InBytes \in Seq(Nat)
<1>1. MaxIn \in Nat /\ tohw.count \in 0..JSP_BUFFER_SIZE
  BY JspAssumption DEF InOK, Ring, RingWith
<1>2. arrived \in Seq(Nat) /\ rx \in Seq(Nat) /\ infifo \in Seq(Nat)
  BY <1>1, Widen DEF InOK
<1>3. Bytes(tohw) \in Seq(0..MaxIn)
  BY <1>1, PeekIsSeq DEF InOK, Bytes
<1>4. Bytes(tohw) \in Seq(Nat)
  BY <1>1, <1>3, Widen
<1>5. Len(rx) \in Nat /\ Len(infifo) \in Nat
  BY <1>2, LenProperties
<1>6. InBytes = (arrived \o Bytes(tohw)) \o rx
  BY Zenon DEF InBytes, Bytes
<1>7. (arrived \o Bytes(tohw)) \o rx \in Seq(Nat)
  BY <1>2, <1>4, MoveDown DEF Cat
<1>8. QED
  BY <1>1, <1>2, <1>3, <1>4, <1>5, <1>6, <1>7

LEMMA OutParts ==
    ASSUME OutOK
    PROVE  /\ fromhw.count \in 0..JSP_BUFFER_SIZE
           /\ received \in Seq(Nat) /\ tx \in Seq(Nat) /\ outfifo \in Seq(Nat)
           /\ outfifo \in Seq(0..MaxOut)
           /\ Bytes(fromhw) \in Seq(0..MaxOut) /\ Bytes(fromhw) \in Seq(Nat)
           /\ Len(tx) \in Nat /\ Len(outfifo) \in Nat
           /\ OutBytes = ((received \o tx) \o Bytes(fromhw)) \o outfifo
           /\ received \o tx \in Seq(Nat)
           /\ (received \o tx) \o Bytes(fromhw) \in Seq(Nat)
           /\ OutBytes \in Seq(Nat)
<1>1. MaxOut \in Nat /\ fromhw.count \in 0..JSP_BUFFER_SIZE
  BY JspAssumption DEF OutOK, Ring, RingWith
<1>2. received \in Seq(Nat) /\ tx \in Seq(Nat) /\ outfifo \in Seq(Nat)
  BY <1>1, Widen DEF OutOK
<1>3. Bytes(fromhw) \in Seq(0..MaxOut)
  BY <1>1, PeekIsSeq DEF OutOK, Bytes
<1>4. Bytes(fromhw) \in Seq(Nat)
  BY <1>1, <1>3, Widen
<1>5. Len(tx) \in Nat /\ Len(outfifo) \in Nat
  BY <1>2, LenProperties
<1>6. outfifo \in Seq(0..MaxOut)
  <2>1. 1..MaxOut \subseteq 0..MaxOut
    BY <1>1
  <2>2. QED
    BY <2>1, SeqMonotonic DEF OutOK
<1>7. OutBytes = ((received \o tx) \o Bytes(fromhw)) \o outfifo
  BY Zenon DEF OutBytes, Bytes
<1>8. /\ received \o tx \in Seq(Nat)
      /\ (received \o tx) \o Bytes(fromhw) \in Seq(Nat)
  BY <1>2, <1>4, ConcatProperties, MoveDown DEF Cat
<1>9. ((received \o tx) \o Bytes(fromhw)) \o outfifo \in Seq(Nat)
  <2> DEFINE a == (received \o tx) \o Bytes(fromhw)
  <2>1. a \in Seq(Nat)
    BY <1>8
  <2> HIDE DEF a
  <2>2. a \o outfifo \in Seq(Nat)
    BY <1>2, <2>1, ConcatProperties
  <2>3. QED
    BY <2>2 DEF a
<1>10. QED
  BY <1>1, <1>2, <1>3, <1>4, <1>5, <1>6, <1>7, <1>8, <1>9

\* What recv() gives goes to the end of the ring: it has the space.
LEMMA ReceiveStep ==
    ASSUME InOK, NEW from, NEW to, Receive(from, to)
    PROVE  InOK' /\ InBytes' = InBytes
<1> DEFINE n == Lesser(SpaceAvailable(tohw), Len(rx))
           f == FirstOf(rx, n)
           w == Without(rx, n)
           old == Bytes(tohw)
           new == Bytes(tohw')
<1>1. /\ tohw' = Put(tohw, f) /\ rx' = w
      /\ UNCHANGED <<arrived, infifo, sent>>
  BY DEF Receive, fifoVars
<1>2. /\ MaxIn \in Nat /\ JSP_BUFFER_SIZE \in Nat \ {0}
      /\ tohw.count \in 0..JSP_BUFFER_SIZE /\ tohw.wr \in 0..(JSP_BUFFER_SIZE - 1)
      /\ Len(rx) \in Nat
  BY JspAssumption, InParts DEF InOK, Ring, RingWith
<1>3. n \in 0..Len(rx) /\ n + tohw.count <= JSP_BUFFER_SIZE
  BY <1>2 DEF Lesser, SpaceAvailable
<1> HIDE DEF n
<1>4. /\ f \in Seq(1..MaxIn) /\ Len(f) = n /\ w \in Seq(1..MaxIn)
      /\ f \o w = rx
  BY <1>3, FirstAndRest DEF InOK
<1> HIDE DEF f, w
<1>5. /\ f \in Seq(0..MaxIn) /\ f \in Seq(Nat) /\ w \in Seq(Nat)
  <2>1. 1..MaxIn \subseteq 0..MaxIn
    BY <1>2
  <2>2. QED
    BY <1>2, <1>4, <2>1, SeqMonotonic, Widen
<1>6. /\ tohw' \in Ring(MaxIn) /\ Sound(tohw')
      /\ new = old \o f
  <2>1. tohw.count + Len(f) <= JSP_BUFFER_SIZE
    BY <1>2, <1>3, <1>4
  <2>2. QED
    BY <1>1, <1>2, <1>5, <2>1, PutBytes DEF InOK
<1>7. InOK'
  BY <1>1, <1>4, <1>6 DEF InOK, Sound
<1>8. InBytes' = InBytes
  <2>1. /\ InBytes = (arrived \o old) \o rx
        /\ arrived \in Seq(Nat) /\ old \in Seq(Nat)
    BY InParts
  <2>2. InBytes' = (arrived \o new) \o w
    BY <1>1, Zenon DEF InBytes, Bytes
  <2> HIDE DEF old, new
  <2>3. Cat(Cat(arrived, Cat(old, f)), w) = Cat(Cat(arrived, old), Cat(f, w))
    BY <1>5, <2>1, MoveDown
  <2>4. QED
    BY <1>4, <1>6, <2>1, <2>2, <2>3 DEF Cat
<1>9. QED
  BY <1>7, <1>8

\* What the hardware takes of an offer is the beginning of the ring.
LEMMA OfferTaken ==
    ASSUME InOK
    PROVE  LET m == Lesser(tohw.count, Burst)
               n == Lesser(Len(Peek(tohw, m)), FifoSize - Len(infifo))
           IN  /\ Accepted(Len(Peek(tohw, m))) = n
               /\ n \in 0..tohw.count
               /\ FirstOf(Peek(tohw, m), n) = Peek(tohw, n)
               /\ Peek(tohw, n) \in Seq(0..MaxIn)
               /\ Len(Peek(tohw, n)) = n
               /\ Len(infifo) + n <= FifoSize
<1> DEFINE m == Lesser(tohw.count, Burst)
           n == Lesser(Len(Peek(tohw, m)), FifoSize - Len(infifo))
<1>1. /\ MaxIn \in Nat /\ JSP_BUFFER_SIZE \in Nat \ {0}
      /\ Burst \in Nat \ {0} /\ FifoSize \in Nat \ {0}
      /\ tohw.count \in 0..JSP_BUFFER_SIZE
      /\ Len(infifo) \in Nat /\ Len(infifo) <= FifoSize
  BY JspAssumption, InParts DEF InOK
<1>2. m \in 0..tohw.count /\ m \in 0..JSP_BUFFER_SIZE
  BY <1>1 DEF Lesser
<1> HIDE DEF m
<1>3. Len(Peek(tohw, m)) = m
  BY <1>1, <1>2, PeekIsSeq DEF InOK
<1>4. n \in 0..m /\ n \in 0..tohw.count /\ Len(infifo) + n <= FifoSize
  BY <1>1, <1>2, <1>3 DEF Lesser
<1>5. Accepted(Len(Peek(tohw, m))) = n
  BY DEF Accepted
<1> HIDE DEF n
<1>6. FirstOf(Peek(tohw, m), n) = Peek(tohw, n)
  BY <1>1, <1>2, <1>4, PeekFirst DEF InOK
<1>7. n \in 0..JSP_BUFFER_SIZE
  BY <1>1, <1>4
<1>8. Peek(tohw, n) \in Seq(0..MaxIn) /\ Len(Peek(tohw, n)) = n
  BY <1>1, <1>7, PeekIsSeq DEF InOK
<1>9. QED
  BY <1>4, <1>5, <1>6, <1>8 DEF m, n

\* The bytes that have arrived, and the FIFO, after an exchange of n bytes.
LEMMA Arrivals ==
    ASSUME InOK, NEW s \in Seq(0..MaxIn), Len(infifo) + Len(s) <= FifoSize
    PROVE  /\ arrived \o s \in Seq(0..MaxIn)
           /\ infifo \o s \in Seq(0..MaxIn)
           /\ Len(infifo \o s) <= FifoSize
BY ConcatProperties DEF InOK

\* A transaction moves bytes from the ring to the hardware,
LEMMA TransactIn ==
    ASSUME InOK, Transact
    PROVE  InOK' /\ InBytes' = InBytes
<1> DEFINE m == Lesser(tohw.count, Burst)
           offer == Peek(tohw, m)
           n == Lesser(Len(offer), FifoSize - Len(infifo))
           taken == Peek(tohw, n)
           old == Bytes(tohw)
           new == Bytes(tohw')
<1>1. /\ infifo' = infifo \o FirstOf(offer, n)
      /\ arrived' = arrived \o FirstOf(offer, n)
      /\ tohw' = Drop(tohw, Accepted(Len(offer)))
      /\ UNCHANGED <<rx, sent>>
  BY DEF Transact, Exchange, clientVars
<1>2. /\ Accepted(Len(offer)) = n
      /\ n \in 0..tohw.count
      /\ FirstOf(offer, n) = taken
      /\ taken \in Seq(0..MaxIn)
      /\ Len(taken) = n
      /\ Len(infifo) + n <= FifoSize
  BY OfferTaken
<1> HIDE DEF n, offer, taken
<1>3. infifo' = infifo \o taken /\ arrived' = arrived \o taken /\ tohw' = Drop(tohw, n)
  BY <1>1, <1>2
<1>4. MaxIn \in Nat /\ taken \in Seq(Nat)
  BY <1>2, JspAssumption, Widen
<1>5. tohw' \in Ring(MaxIn) /\ Sound(tohw') /\ taken \o new = old
  BY <1>2, <1>3, <1>4, DropBytes DEF InOK, taken
<1>6. InOK'
  BY <1>1, <1>2, <1>3, <1>5, Arrivals DEF InOK, Sound
<1>7. InBytes' = InBytes
  <2>1. /\ InBytes = (arrived \o old) \o rx
        /\ arrived \in Seq(Nat) /\ rx \in Seq(Nat)
    BY InParts
  <2>2. InBytes' = (arrived' \o new) \o rx
    BY <1>1, Zenon DEF InBytes, Bytes
  <2>3. new \in Seq(Nat)
    <3>1. tohw'.count \in 0..JSP_BUFFER_SIZE
      BY <1>5 DEF Ring, RingWith
    <3>2. new \in Seq(0..MaxIn)
      BY <1>4, <1>5, <3>1, PeekIsSeq DEF Bytes
    <3>3. QED
      BY <1>4, <3>2, Widen
  <2> HIDE DEF old, new
  <2>4. Cat(Cat(Cat(arrived, taken), new), rx)
            = Cat(Cat(arrived, Cat(taken, new)), rx)
    BY <1>4, <2>1, <2>3, MoveDown
  <2>5. QED
    BY <1>3, <1>5, <2>1, <2>2, <2>4 DEF Cat
<1>8. QED
  BY <1>6, <1>7

LEMMA AppendLast ==
    ASSUME NEW a \in Seq(Nat), NEW b \in Seq(Nat), NEW x \in Nat
    PROVE  a \o Append(b, x) = Append(a \o b, x)
<1> DEFINE e == <<x>>
           ab == a \o b
<1>1. e \in Seq(Nat) /\ ab \in Seq(Nat)
  BY ConcatProperties
<1>2. Append(b, x) = b \o e
  BY AppendIsConcat
<1>3. Append(ab, x) = ab \o e
  <2> HIDE DEF ab
  <2>1. QED
    BY <1>1, AppendIsConcat
<1> HIDE DEF e
<1>4. (a \o b) \o e = a \o (b \o e)
  BY <1>1, Regroup
<1>5. QED
  BY <1>2, <1>3, <1>4

\* and one that fails may bring bytes there that stay in the ring.
LEMMA FailsIn ==
    ASSUME InOK, TransactFails
    PROVE  InOK' /\ BytesOf(InBytes') = BytesOf(InBytes)
<1> DEFINE m == Lesser(tohw.count, Burst)
           offer == Peek(tohw, m)
           n == Lesser(Len(offer), FifoSize - Len(infifo))
           taken == Peek(tohw, n)
           b == Bytes(tohw)
<1>1. /\ \/ /\ infifo' = infifo \o FirstOf(offer, n)
            /\ arrived' = arrived \o FirstOf(offer, n)
         \/ infifo' = infifo /\ arrived' = arrived
      /\ UNCHANGED <<rx, sent, tohw>>
  BY DEF TransactFails, Exchange, clientVars
<1>2. /\ n \in 0..tohw.count
      /\ FirstOf(offer, n) = taken
      /\ taken \in Seq(0..MaxIn)
      /\ Len(taken) = n
      /\ Len(infifo) + n <= FifoSize
  BY OfferTaken
<1> HIDE DEF n, offer
<1>3. /\ MaxIn \in Nat /\ taken \in Seq(Nat) /\ b \in Seq(Nat)
      /\ arrived \in Seq(Nat) /\ rx \in Seq(Nat)
  <2> HIDE DEF taken
  <2>1. QED
    BY <1>2, JspAssumption, Widen, InParts
<1>4. BytesOf(taken) \subseteq BytesOf(b)
  <2> DEFINE rest == Bytes(Drop(tohw, n))
  <2>1. Drop(tohw, n) \in Ring(MaxIn) /\ taken \o rest = b
    BY <1>2, <1>3, DropBytes DEF InOK
  <2>2. rest \in Seq(Nat)
    <3>1. Drop(tohw, n).count \in 0..JSP_BUFFER_SIZE
      BY <2>1 DEF Ring, RingWith
    <3>2. rest \in Seq(0..MaxIn)
      BY <1>3, <2>1, <3>1, PeekIsSeq DEF Bytes
    <3>3. QED
      BY <1>3, <3>2, Widen
  <2> HIDE DEF taken, rest, b
  <2>3. BytesOf(taken \o rest) = BytesOf(taken) \union BytesOf(rest)
    BY <1>3, <2>2, BytesOfConcat
  <2>4. QED
    BY <2>1, <2>3
<1> HIDE DEF taken
<1>5. InOK'
  <2>1. CASE infifo' = infifo \o taken /\ arrived' = arrived \o taken
    BY <1>1, <1>2, <2>1, Arrivals DEF InOK, Sound
  <2>2. CASE infifo' = infifo /\ arrived' = arrived
    BY <1>1, <2>2 DEF InOK, Sound
  <2>3. QED
    BY <1>1, <1>2, <2>1, <2>2
<1>6. InBytes = (arrived \o b) \o rx /\ InBytes' = (arrived' \o b) \o rx
  <2>1. InBytes = (arrived \o Bytes(tohw)) \o rx
    BY InParts
  <2>2. InBytes' = (arrived' \o Bytes(tohw')) \o rx'
    BY Zenon DEF InBytes, Bytes
  <2>3. QED
    BY <1>1, <2>1, <2>2
<1> HIDE DEF b
<1>7. \A s \in Seq(Nat) :
          BytesOf((s \o b) \o rx) = BytesOf(s) \union BytesOf(b) \union BytesOf(rx)
  <2> SUFFICES ASSUME NEW s \in Seq(Nat)
               PROVE  BytesOf((s \o b) \o rx)
                          = BytesOf(s) \union BytesOf(b) \union BytesOf(rx)
    OBVIOUS
  <2> DEFINE t == s \o b
  <2>1. t \in Seq(Nat) /\ BytesOf(t) = BytesOf(s) \union BytesOf(b)
    BY <1>3, ConcatProperties, BytesOfConcat
  <2> HIDE DEF t
  <2>2. BytesOf(t \o rx) = BytesOf(t) \union BytesOf(rx)
    BY <1>3, <2>1, BytesOfConcat
  <2>3. QED
    BY <2>1, <2>2 DEF t
<1>8. CASE arrived' = arrived
  BY <1>5, <1>6, <1>8
<1>9. CASE arrived' = arrived \o taken
  <2>1. arrived' \in Seq(Nat) /\ BytesOf(arrived') = BytesOf(arrived) \union BytesOf(taken)
    BY <1>3, <1>9, ConcatProperties, BytesOfConcat
  <2>2. /\ BytesOf(InBytes') = BytesOf(arrived') \union BytesOf(b) \union BytesOf(rx)
        /\ BytesOf(InBytes) = BytesOf(arrived) \union BytesOf(b) \union BytesOf(rx)
    BY <1>3, <1>6, <1>7, <2>1
  <2>3. QED
    BY <1>4, <1>5, <2>1, <2>2
<1>10. QED
  BY <1>1, <1>2, <1>8, <1>9

LEMMA ClientSendsIn ==
    ASSUME InOK, ClientSends
    PROVE  InOK' /\ sent' = sent + 1 /\ InBytes' = Append(InBytes, sent + 1)
<1> DEFINE a == arrived \o Bytes(tohw)
<1>1. /\ sent < MaxIn /\ sent' = sent + 1 /\ rx' = Append(rx, sent + 1)
      /\ UNCHANGED <<tohw, arrived, infifo>>
  BY DEF ClientSends, serverVars, fifoVars
<1>2. sent \in 0..MaxIn /\ MaxIn \in Nat /\ sent + 1 \in 1..MaxIn
  BY <1>1, JspAssumption DEF InOK
<1>3. rx' \in Seq(1..MaxIn)
  BY <1>1, <1>2, AppendProperties DEF InOK
<1>4. InOK'
  BY <1>1, <1>2, <1>3 DEF InOK, Sound
<1>5. /\ arrived \in Seq(Nat) /\ Bytes(tohw) \in Seq(Nat) /\ rx \in Seq(Nat)
      /\ InBytes = a \o rx
  BY InParts
<1>6. InBytes' = a \o Append(rx, sent + 1)
  <2>1. InBytes' = (arrived' \o Bytes(tohw')) \o rx'
    BY Zenon DEF InBytes, Bytes
  <2>2. QED
    BY <1>1, <2>1
<1>7. a \in Seq(Nat)
  BY <1>5, ConcatProperties
<1> HIDE DEF a
<1>8. a \o Append(rx, sent + 1) = Append(a \o rx, sent + 1)
  BY SMTT(40), <1>2, <1>5, <1>7, AppendLast
<1>9. QED
  BY <1>1, <1>4, <1>5, <1>6, <1>8

\* A send() takes the first bytes of the ring; to a client that has left it
\* may take them for nobody.
LEMMA SendStep ==
    ASSUME OutOK, NEW from, NEW to, Send(from, to)
    PROVE  /\ OutOK' /\ written' = written
           /\ OutBytes' = OutBytes \/ client' = "gone"
<1> DEFINE available == Lesser(fromhw.count, JSP_BUFFER_SIZE - fromhw.rd)
           k == Takes(available)
<1>1. /\ UNCHANGED <<client, outfifo, received, written>>
      /\ \/ tx' = tx \o Peek(fromhw, k) /\ fromhw' = Drop(fromhw, k)
         \/ /\ client = "gone" /\ tx' = tx
            /\ fromhw' = Drop(fromhw, available) \/ fromhw' = fromhw
  BY DEF Send, DropTaken, fifoVars
<1>2. /\ MaxOut \in Nat /\ JSP_BUFFER_SIZE \in Nat \ {0} /\ Room \in Nat
      /\ fromhw.count \in 0..JSP_BUFFER_SIZE
      /\ fromhw.rd \in 0..(JSP_BUFFER_SIZE - 1)
      /\ Len(tx) \in Nat /\ Len(tx) <= Room /\ Len(outfifo) \in Nat
  BY JspAssumption, OutParts DEF OutOK, Ring, RingWith
<1>3. /\ available \in 0..fromhw.count
      /\ k \in 0..fromhw.count /\ k \in 0..JSP_BUFFER_SIZE /\ Len(tx) + k <= Room
  BY SMTT(40), <1>2 DEF Takes, Lesser
<1> HIDE DEF k, available
<1>4. \A n \in 0..fromhw.count :
          /\ Drop(fromhw, n) \in Ring(MaxOut) /\ Sound(Drop(fromhw, n))
          /\ Drop(fromhw, n).count = fromhw.count - n
          /\ Peek(fromhw, n) \o Bytes(Drop(fromhw, n)) = Bytes(fromhw)
  BY <1>2, DropBytes DEF OutOK
<1>5. CASE client = "gone" /\ tx' = tx /\ fromhw' = Drop(fromhw, available)
  <2>1. /\ fromhw' \in Ring(MaxOut) /\ Sound(fromhw')
        /\ fromhw'.count = fromhw.count - available
    BY <1>3, <1>4, <1>5
  <2>2. OutOK'
    BY <1>1, <1>5, <2>1 DEF OutOK, Sound
  <2>3. QED
    BY <1>1, <1>5, <2>2
<1>6. CASE client = "gone" /\ tx' = tx /\ fromhw' = fromhw
  BY <1>1, <1>6 DEF OutOK, Sound
<1>7. CASE tx' = tx \o Peek(fromhw, k) /\ fromhw' = Drop(fromhw, k)
  <2> DEFINE p == Peek(fromhw, k)
             old == Bytes(fromhw)
             new == Bytes(fromhw')
             a == received
  <2>1. p \in Seq(0..MaxOut) /\ Len(p) = k
    BY <1>2, <1>3, PeekIsSeq DEF OutOK
  <2> HIDE DEF p
  <2>2. tx' \in Seq(0..MaxOut) /\ Len(tx') <= Room
    <3>1. tx' = tx \o p
      BY <1>7 DEF p
    <3>2. tx \o p \in Seq(0..MaxOut) /\ Len(tx \o p) = Len(tx) + Len(p)
      BY <2>1, ConcatProperties DEF OutOK
    <3>3. QED
      BY <1>3, <2>1, <3>1, <3>2
  <2>3. fromhw' \in Ring(MaxOut) /\ Sound(fromhw') /\ p \o new = old
    BY <1>3, <1>4, <1>7 DEF p
  <2>4. fromhw'.count <= fromhw.count /\ fromhw'.count \in 0..JSP_BUFFER_SIZE
    <3>1. fromhw'.count = fromhw.count - k
      BY <1>3, <1>4, <1>7
    <3>2. QED
      BY <1>2, <1>3, <3>1
  <2>5. OutOK'
    BY SMTT(40), <1>1, <1>2, <2>2, <2>3, <2>4 DEF OutOK, Sound
  <2>6. /\ OutBytes = ((received \o tx) \o old) \o outfifo
        /\ received \in Seq(Nat) /\ tx \in Seq(Nat) /\ outfifo \in Seq(Nat)
        /\ received \o tx \in Seq(Nat)
    BY OutParts
  <2>7. OutBytes' = ((received \o (tx \o p)) \o new) \o outfifo
    <3>1. OutBytes' = ((received' \o tx') \o new) \o outfifo'
      BY Zenon DEF OutBytes, Bytes
    <3>2. tx' = tx \o p
      BY <1>7 DEF p
    <3>3. QED
      BY <1>1, <3>1, <3>2
  <2>8. p \in Seq(Nat) /\ new \in Seq(Nat)
    <3>1. new \in Seq(0..MaxOut)
      BY <1>2, <2>3, <2>4, PeekIsSeq DEF Bytes
    <3>2. QED
      BY <1>2, <2>1, <3>1, Widen
  <2> HIDE DEF old, new
  <2> DEFINE rt == received \o tx
  <2>9. Cat(received, Cat(tx, p)) = Cat(rt, p) /\ rt \in Seq(Nat)
    <3>1. Cat(received, Cat(tx, p)) = Cat(Cat(received, tx), p)
      BY <2>6, <2>8, Grouped
    <3>2. Cat(received, tx) = rt
      BY DEF Cat
    <3>3. QED
      BY <2>6, <3>1, <3>2
  <2> HIDE DEF rt
  <2>10. Cat(Cat(Cat(rt, p), new), outfifo) = Cat(Cat(rt, Cat(p, new)), outfifo)
    BY <2>6, <2>8, <2>9, MoveDown
  <2>11. OutBytes' = Cat(Cat(Cat(received, Cat(tx, p)), new), outfifo)
    BY <2>7 DEF Cat
  <2>12. OutBytes = Cat(Cat(rt, old), outfifo) /\ Cat(p, new) = old
    BY <2>3, <2>6 DEF Cat, rt
  <2>13. OutBytes' = OutBytes
    BY <2>9, <2>10, <2>11, <2>12
  <2>14. QED
    BY <1>1, <2>5, <2>13
<1>8. QED
  BY <1>1, <1>5, <1>6, <1>7

\* What the hardware gives goes to the end of the ring if it has the space.
LEMMA TransactOut ==
    ASSUME OutOK, Transact, ~overrun'
    PROVE  OutOK' /\ written' = written /\ OutBytes' = OutBytes
<1> DEFINE old == Bytes(fromhw)
           new == Bytes(fromhw')
           a == received \o tx
<1>1. /\ fromhw' = Put(fromhw, outfifo) /\ outfifo' = <<>>
      /\ UNCHANGED <<written, tx, received>>
  BY DEF Transact, Exchange, clientVars
<1>2. /\ MaxOut \in Nat /\ JSP_BUFFER_SIZE \in Nat
      /\ fromhw.count \in 0..JSP_BUFFER_SIZE
      /\ outfifo \in Seq(0..MaxOut) /\ outfifo \in Seq(Nat)
      /\ Len(outfifo) \in Nat /\ FifoSize \in Nat
      /\ old \in Seq(Nat) /\ a \in Seq(Nat)
      /\ OutBytes = (a \o old) \o outfifo
  BY JspAssumption, OutParts
<1>3. fromhw.count + Len(outfifo) <= JSP_BUFFER_SIZE
  <2>1. ~(fromhw.count + Len(outfifo) > JSP_BUFFER_SIZE)
    BY Zenon DEF Transact
  <2>2. QED
    BY <1>2, <2>1
<1>4. /\ fromhw' \in Ring(MaxOut) /\ Sound(fromhw')
      /\ fromhw'.count = fromhw.count + Len(outfifo)
      /\ new = old \o outfifo
  BY <1>1, <1>2, <1>3, PutBytes DEF OutOK
<1>5. OutOK'
  <2>1. <<>> \in Seq(1..MaxOut) /\ Len(<<>>) = 0
    BY EmptySeq
  <2>2. QED
    BY <1>1, <1>2, <1>4, <2>1 DEF OutOK, Sound
<1>6. OutBytes' = (a \o new) \o <<>>
  <2>1. OutBytes' = ((received' \o tx') \o new) \o outfifo'
    BY Zenon DEF OutBytes, Bytes
  <2>2. QED
    BY <1>1, <2>1
<1> HIDE DEF a, old, new
<1>7. a \o new \in Seq(Nat) /\ new \in Seq(Nat)
  BY <1>2, <1>4, ConcatProperties
<1>8. OutBytes' = a \o new
  <2> DEFINE t == a \o new
  <2>1. t \in Seq(Nat)
    BY <1>7
  <2> HIDE DEF t
  <2>2. t \o <<>> = t
    BY <2>1, ConcatEmptySeq
  <2>3. QED
    BY <1>6, <2>2 DEF t
<1>9. (a \o old) \o outfifo = a \o (old \o outfifo)
  BY <1>2, Regroup
<1>10. QED
  BY <1>1, <1>2, <1>4, <1>5, <1>8, <1>9

\* A transaction that fails may lose the last bytes of this way.
LEMMA FailsOut ==
    ASSUME OutOK, TransactFails
    PROVE  /\ OutOK' /\ written' = written
           /\ OutBytes' \in Seq(Nat)
           /\ \E lost \in Seq(Nat) : OutBytes = OutBytes' \o lost
<1> DEFINE t == (received \o tx) \o Bytes(fromhw)
<1>1. /\ outfifo' = <<>> \/ outfifo' = outfifo
      /\ UNCHANGED <<written, tx, received, fromhw>>
  BY DEF TransactFails, Exchange, clientVars
<1>2. /\ t \in Seq(Nat) /\ outfifo \in Seq(Nat)
      /\ OutBytes = t \o outfifo /\ OutBytes \in Seq(Nat)
      /\ fromhw.count \in 0..JSP_BUFFER_SIZE /\ JSP_BUFFER_SIZE \in Nat
      /\ FifoSize \in Nat
      /\ <<>> \in Seq(Nat) /\ <<>> \in Seq(1..MaxOut) /\ Len(<<>>) = 0
  BY JspAssumption, OutParts, EmptySeq
<1>3. OutBytes' = t \o outfifo'
  <2>1. OutBytes' = ((received' \o tx') \o Bytes(fromhw')) \o outfifo'
    BY Zenon DEF OutBytes, Bytes
  <2>2. QED
    BY <1>1, <2>1
<1>4. OutOK'
  <2>1. /\ outfifo' \in Seq(1..MaxOut) /\ Len(outfifo') <= FifoSize
    <3>1. CASE outfifo' = outfifo
      BY <3>1 DEF OutOK
    <3>2. CASE outfifo' = <<>>
      <4>1. 0 <= FifoSize
        BY <1>2
      <4>2. QED
        BY <1>2, <3>2, <4>1
    <3>3. QED
      BY <1>1, <3>1, <3>2
  <2>2. QED
    BY <1>1, <2>1 DEF OutOK, Sound
<1> HIDE DEF t
<1>5. CASE outfifo' = outfifo
  <2>1. OutBytes' = OutBytes
    BY <1>2, <1>3, <1>5
  <2>2. OutBytes = OutBytes' \o <<>>
    BY <1>2, <2>1, ConcatEmptySeq
  <2>3. QED
    BY <1>1, <1>2, <1>4, <2>1, <2>2
<1>6. CASE outfifo' = <<>>
  <2>1. t \o <<>> = t
    BY <1>2, ConcatEmptySeq
  <2>2. OutBytes' = t
    BY <1>3, <1>6, <2>1
  <2>3. QED
    BY <1>1, <1>2, <1>4, <2>2
<1>7. QED
  BY <1>1, <1>5, <1>6

LEMMA CpuWritesOut ==
    ASSUME OutOK, CpuWrites
    PROVE  /\ OutOK' /\ written' = written + 1
           /\ OutBytes' = Append(OutBytes, written + 1)
<1> DEFINE t == (received \o tx) \o Bytes(fromhw)
<1>1. /\ Len(outfifo) < FifoSize /\ written < MaxOut
      /\ written' = written + 1 /\ outfifo' = Append(outfifo, written + 1)
      /\ UNCHANGED <<fromhw, tx, received>>
  BY DEF CpuWrites, serverVars, clientVars
<1>2. /\ MaxOut \in Nat /\ written \in 0..MaxOut
      /\ JSP_BUFFER_SIZE \in Nat /\ FifoSize \in Nat
      /\ fromhw.count \in 0..JSP_BUFFER_SIZE
      /\ t \in Seq(Nat) /\ outfifo \in Seq(Nat) /\ Len(outfifo) \in Nat
      /\ OutBytes = t \o outfifo
  BY JspAssumption, OutParts DEF OutOK
<1>3. written + 1 \in 1..MaxOut /\ written + 1 \in Nat
  BY <1>1, <1>2
<1>4. outfifo' \in Seq(1..MaxOut) /\ Len(outfifo') = Len(outfifo) + 1
  BY <1>1, <1>3, AppendProperties DEF OutOK
<1>5. OutOK'
  BY <1>1, <1>2, <1>3, <1>4 DEF OutOK, Sound
<1>6. OutBytes' = t \o Append(outfifo, written + 1)
  <2>1. OutBytes' = ((received' \o tx') \o Bytes(fromhw')) \o outfifo'
    BY Zenon DEF OutBytes, Bytes
  <2>2. QED
    BY <1>1, <2>1
<1> HIDE DEF t
<1>7. t \o Append(outfifo, written + 1) = Append(t \o outfifo, written + 1)
  BY <1>2, <1>3, AppendLast
<1>8. QED
  BY <1>1, <1>2, <1>5, <1>6, <1>7

LEMMA ClientReadsOut ==
    ASSUME OutOK, ClientReads
    PROVE  OutOK' /\ written' = written /\ OutBytes' = OutBytes
<1> DEFINE h == Head(tx)
           l == Tail(tx)
           e == <<h>>
<1>1. /\ tx # <<>> /\ received' = Append(received, h) /\ tx' = l
      /\ UNCHANGED <<fromhw, outfifo, written>>
  BY DEF ClientReads, serverVars, fifoVars
<1>2. /\ received \in Seq(Nat) /\ tx \in Seq(Nat) /\ Len(tx) \in Nat
      /\ OutBytes = ((received \o tx) \o Bytes(fromhw)) \o outfifo
      /\ Room \in Nat
  BY JspAssumption, OutParts
<1>3. /\ h \in 0..MaxOut /\ l \in Seq(0..MaxOut) /\ Len(l) = Len(tx) - 1
      /\ h \in Nat /\ l \in Seq(Nat)
  BY <1>1, <1>2, HeadTailProperties DEF OutOK
<1>4. tx = e \o l
  <2>1. e \in Seq(Nat) /\ Len(e) = 1 /\ e[1] = h
    BY <1>3
  <2>2. h = tx[1] /\ \A i \in 1..Len(l) : l[i] = tx[i + 1]
    BY <1>1, <1>2, HeadTailProperties
  <2> DEFINE u == e \o l
  <2> HIDE DEF e, h, l
  <2>3. /\ u \in Seq(Nat) /\ Len(u) = Len(e) + Len(l)
        /\ \A i \in 1..(Len(e) + Len(l)) :
               u[i] = IF i <= Len(e) THEN e[i] ELSE l[i - Len(e)]
    BY <1>3, <2>1, ConcatProperties
  <2> HIDE DEF u
  <2>4. Len(u) = Len(tx)
    BY <1>2, <1>3, <2>1, <2>3
  <2>5. ASSUME NEW i \in 1..Len(u) PROVE u[i] = tx[i]
    <3>1. CASE i = 1
      BY <2>1, <2>2, <2>3, <3>1
    <3>2. CASE i # 1
      <4>1. i - 1 \in 1..Len(l) /\ ~(i <= Len(e)) /\ i - 1 + 1 = i
        BY <1>2, <1>3, <2>1, <2>3, <3>2
      <4>2. QED
        BY <2>1, <2>2, <2>3, <4>1
    <3>3. QED
      BY <3>1, <3>2
  <2>6. u = tx
    BY <1>2, <2>3, <2>4, <2>5, SeqEqual
  <2>7. QED
    BY <2>6 DEF u
<1>5. /\ received' \in Seq(0..MaxOut) /\ received' = received \o e
      /\ e \in Seq(Nat)
  BY <1>1, <1>3, AppendProperties, AppendIsConcat DEF OutOK
<1>6. OutOK'
  BY <1>1, <1>2, <1>3, <1>5 DEF OutOK, Sound
<1> HIDE DEF e, h, l
<1>7. received' \o tx' = received \o tx
  <2>1. (received \o e) \o l = received \o (e \o l)
    BY <1>2, <1>3, <1>5, Regroup
  <2>2. QED
    BY <1>1, <1>4, <1>5, <2>1
<1>8. OutBytes' = OutBytes
  <2>1. OutBytes' = ((received' \o tx') \o Bytes(fromhw')) \o outfifo'
    BY Zenon DEF OutBytes, Bytes
  <2>2. QED
    BY <1>1, <1>2, <1>7, <2>1
<1>9. QED
  BY <1>1, <1>6, <1>8

-----------------------------------------------------------------------------
(* The inductive invariant: besides what BytesInOrder says, the indices of *)
(* a ring agree with its count, the one to the client until it is overrun, *)
(* and nothing is in a ring before a client is there.                      *)

ControlOK ==
    /\ jpc \in {"accept", "select", "recv", "recv2", "send", "send2",
                "transact", "killed"}
    /\ jsp_target_is_running \in {0, 1}
    /\ pipe \in Seq({"H", "R"})
    /\ cpuRuns \in BOOLEAN
    /\ client \in {"none", "open", "gone"}
    /\ failures \in 0..MaxFailures
    /\ jpc = "accept" =>
           client = "none" /\ tohw = EmptyRing /\ fromhw = EmptyRing

\* No byte on its way to the client is newer than the last one written.
OutputIsOld ==
    client # "gone" /\ ~overrun => \A x \in BytesOf(OutBytes) : x <= written

OutputAscends == client # "gone" /\ ~overrun => Ascending(OutBytes)

JspInv ==
    /\ ControlOK
    /\ InOK
    /\ OutLoose
    /\ ~overrun => OutOK
    /\ InputInOrder
    /\ InputNotLost
    /\ OutputInOrder
    /\ OutputIsOld
    /\ OutputAscends

-----------------------------------------------------------------------------
(* What holds of the way back also when the ring is overrun.               *)

LEMMA RingIsLoose ==
    ASSUME NEW max, NEW r \in Ring(max) PROVE r \in RingWith(Nat, max)
<1>1. 0..JSP_BUFFER_SIZE \subseteq Nat
  BY JspAssumption
<1>2. QED
  BY <1>1 DEF Ring, RingWith

LEMMA LoosePut ==
    ASSUME NEW max \in Nat, NEW r \in RingWith(Nat, max), NEW s \in Seq(0..max)
    PROVE  Put(r, s) \in RingWith(Nat, max)
<1> DEFINE N == JSP_BUFFER_SIZE
           q == Put(r, s)
           buf == [i \in DOMAIN r.buf |->
                      LET n == ((i - r.wr) % N) + 1
                      IN IF n <= Len(s) THEN s[n] ELSE r.buf[i]]
<1>1. /\ N \in Nat \ {0}
      /\ r.rd \in 0..(N - 1) /\ r.wr \in 0..(N - 1) /\ r.count \in Nat
      /\ r.buf \in [0..(N - 1) -> 0..max]
      /\ Len(s) \in Nat
  BY JspAssumption, LenProperties DEF RingWith
<1>2. q = [rd |-> r.rd, wr |-> (r.wr + Len(s)) % N, count |-> r.count + Len(s),
           buf |-> buf]
  <2>1. r = [rd |-> r.rd, wr |-> r.wr, count |-> r.count, buf |-> r.buf]
    BY DEF RingWith
  <2>2. q = [r EXCEPT !.buf = buf, !.wr = (r.wr + Len(s)) % N,
                      !.count = r.count + Len(s)]
    BY Zenon DEF Put
  <2> HIDE DEF q, buf, N
  <2>3. QED
    BY <2>1, <2>2
<1>3. buf \in [0..(N - 1) -> 0..max]
  <2>1. ASSUME NEW i \in 0..(N - 1)
        PROVE  (IF ((i - r.wr) % N) + 1 <= Len(s) THEN s[((i - r.wr) % N) + 1]
                                                  ELSE r.buf[i]) \in 0..max
    <3> DEFINE d == (i - r.wr) % N
    <3>1. d \in Nat
      <4>1. i - r.wr \in Int
        BY <1>1
      <4> HIDE DEF N
      <4>2. QED
        BY SMTT(40), <1>1, <4>1
    <3> HIDE DEF d
    <3>2. ASSUME d + 1 <= Len(s) PROVE s[d + 1] \in 0..max
      <4>1. d + 1 \in 1..Len(s)
        BY <1>1, <3>1, <3>2
      <4>2. QED
        BY <4>1, ElementOfSeq
    <3>3. r.buf[i] \in 0..max
      BY <1>1
    <3>4. QED
      BY <3>2, <3>3 DEF d
  <2>2. DOMAIN r.buf = 0..(N - 1)
    BY <1>1
  <2>3. QED
    BY <2>1, <2>2
<1>4. (r.wr + Len(s)) % N \in 0..(N - 1) /\ r.count + Len(s) \in Nat
  BY SMTT(40), <1>1
<1> HIDE DEF q, buf, N
<1>5. q \in RingWith(Nat, max)
  BY <1>1, <1>2, <1>3, <1>4 DEF RingWith, N
<1>6. QED
  BY <1>5 DEF q

\* What is sent is linear in the array.
LEMMA LooseTake ==
    ASSUME NEW max \in Nat, NEW r \in RingWith(Nat, max),
           NEW n \in 0..r.count, n <= JSP_BUFFER_SIZE
    PROVE  /\ Drop(r, n) \in RingWith(Nat, max)
           /\ Peek(r, n) \in Seq(0..max) /\ Len(Peek(r, n)) = n
<1> DEFINE N == JSP_BUFFER_SIZE
           q == Drop(r, n)
           d == (r.rd + n) % N
<1>1. /\ N \in Nat \ {0} /\ n \in Nat
      /\ r.rd \in 0..(N - 1) /\ r.wr \in 0..(N - 1) /\ r.count \in Nat
      /\ r.buf \in [0..(N - 1) -> 0..max]
      /\ r.count - n \in Nat
  BY JspAssumption DEF RingWith
<1>2. q = [rd |-> d, wr |-> r.wr, count |-> r.count - n, buf |-> r.buf]
  <2>1. r = [rd |-> r.rd, wr |-> r.wr, count |-> r.count, buf |-> r.buf]
    BY DEF RingWith
  <2>2. q = [r EXCEPT !.rd = d, !.count = r.count - n]
    BY Zenon DEF Drop
  <2> HIDE DEF q, d, N
  <2>3. QED
    BY <2>1, <2>2
<1>3. d \in 0..(N - 1)
  <2> HIDE DEF N
  <2>1. QED
    BY SMTT(40), <1>1
<1>4. q \in RingWith(Nat, max)
  <2> HIDE DEF q, d
  <2>1. QED
    BY <1>1, <1>2, <1>3 DEF RingWith
<1>5. ASSUME NEW k \in 1..n
      PROVE  r.buf[(r.rd + k - 1) % N] \in 0..max
  <2>1. (r.rd + k - 1) % N \in 0..(N - 1)
    <3> HIDE DEF N
    <3>1. r.rd + k - 1 \in Nat
      BY <1>1
    <3>2. QED
      BY SMTT(40), <1>1, <3>1
  <2>2. QED
    BY <1>1, <2>1
<1>6. Peek(r, n) \in [1..n -> 0..max]
  BY <1>5 DEF Peek
<1>7. Peek(r, n) \in Seq(0..max) /\ Len(Peek(r, n)) = n
  <2> DEFINE t == Peek(r, n)
  <2>1. t \in [1..n -> 0..max]
    BY <1>6
  <2> HIDE DEF t
  <2>2. t \in Seq(0..max) /\ Len(t) = n
    BY <1>1, <2>1
  <2>3. QED
    BY <2>2 DEF t
<1>8. QED
  BY <1>4, <1>7

LEMMA OutLooseStep ==
    ASSUME ControlOK, OutLoose, [Next]_vars
    PROVE  OutLoose'
<1>1. /\ MaxOut \in Nat /\ JSP_BUFFER_SIZE \in Nat \ {0} /\ Room \in Nat
      /\ FifoSize \in Nat \ {0}
      /\ fromhw.count \in Nat /\ fromhw.rd \in 0..(JSP_BUFFER_SIZE - 1)
      /\ Len(tx) \in Nat /\ Len(tx) <= Room /\ Len(outfifo) \in Nat
  BY JspAssumption, LenProperties DEF OutLoose, RingWith
<1>2. ASSUME UNCHANGED <<fromhw, outfifo, tx, received, written, overrun>>
      PROVE  OutLoose'
  BY <1>2 DEF OutLoose
<1>3. CASE Accept
  BY <1>2, <1>3 DEF Accept, ControlOK, fifoVars, historyVars
<1>4. ASSUME NEW from, NEW to, Send(from, to)
      PROVE  OutLoose'
  <2> DEFINE available == Lesser(fromhw.count, JSP_BUFFER_SIZE - fromhw.rd)
             k == Takes(available)
  <2>1. /\ UNCHANGED <<outfifo, received, written, overrun>>
        /\ \/ tx' = tx \o Peek(fromhw, k) /\ fromhw' = Drop(fromhw, k)
           \/ tx' = tx /\ (fromhw' = Drop(fromhw, available) \/ fromhw' = fromhw)
    BY <1>4 DEF Send, DropTaken, fifoVars, historyVars
  <2>2. /\ available \in 0..fromhw.count /\ available <= JSP_BUFFER_SIZE
        /\ k \in 0..fromhw.count /\ k <= JSP_BUFFER_SIZE /\ Len(tx) + k <= Room
    BY SMTT(40), <1>1 DEF Takes, Lesser
  <2> HIDE DEF k, available
  <2>3. /\ Drop(fromhw, available) \in RingWith(Nat, MaxOut)
        /\ Drop(fromhw, k) \in RingWith(Nat, MaxOut)
        /\ Peek(fromhw, k) \in Seq(0..MaxOut) /\ Len(Peek(fromhw, k)) = k
    BY <1>1, <2>2, LooseTake DEF OutLoose
  <2> DEFINE p == Peek(fromhw, k)
  <2> HIDE DEF p
  <2>4. tx \o p \in Seq(0..MaxOut) /\ Len(tx \o p) = Len(tx) + k
    BY <2>3, ConcatProperties DEF OutLoose, p
  <2>5. tx' \in Seq(0..MaxOut) /\ Len(tx') <= Room
    BY <1>1, <2>1, <2>2, <2>4 DEF OutLoose, p
  <2>6. fromhw' \in RingWith(Nat, MaxOut)
    BY <2>1, <2>3 DEF OutLoose
  <2>7. QED
    BY <2>1, <2>5, <2>6 DEF OutLoose
<1>5. <<>> \in Seq(1..MaxOut) /\ Len(<<>>) = 0
  BY EmptySeq
<1>6. CASE Transact
  <2>1. /\ fromhw' = Put(fromhw, outfifo) /\ outfifo' = <<>>
        /\ UNCHANGED <<tx, received, written>> /\ overrun' \in BOOLEAN
    BY <1>6 DEF Transact, Exchange, clientVars, OutLoose
  <2>2. outfifo \in Seq(0..MaxOut)
    BY <1>1 DEF OutLoose
  <2>3. fromhw' \in RingWith(Nat, MaxOut)
    BY <1>1, <2>1, <2>2, LoosePut DEF OutLoose
  <2>4. QED
    BY <1>1, <1>5, <2>1, <2>3 DEF OutLoose
<1>7. CASE TransactFails
  <2>1. /\ outfifo' = <<>> \/ outfifo' = outfifo
        /\ UNCHANGED <<fromhw, tx, received, written, overrun>>
    BY <1>7 DEF TransactFails, Exchange, clientVars
  <2>2. outfifo' \in Seq(1..MaxOut) /\ Len(outfifo') <= FifoSize
    <3>1. CASE outfifo' = outfifo
      BY <3>1 DEF OutLoose
    <3>2. CASE outfifo' = <<>>
      <4>1. 0 <= FifoSize
        BY <1>1
      <4>2. QED
        BY <1>5, <3>2, <4>1
    <3>3. QED
      BY <2>1, <3>1, <3>2
  <2>3. QED
    BY <2>1, <2>2 DEF OutLoose
<1>8. CASE CpuWrites
  <2>1. /\ Len(outfifo) < FifoSize /\ written < MaxOut
        /\ written' = written + 1 /\ outfifo' = Append(outfifo, written + 1)
        /\ UNCHANGED <<fromhw, tx, received, overrun>>
    BY <1>8 DEF CpuWrites, serverVars, clientVars, historyVars
  <2>2. written \in 0..MaxOut /\ written + 1 \in 1..MaxOut
    BY <1>1, <2>1 DEF OutLoose
  <2>3. outfifo' \in Seq(1..MaxOut) /\ Len(outfifo') = Len(outfifo) + 1
    BY <2>1, <2>2, AppendProperties DEF OutLoose
  <2>4. QED
    BY <1>1, <2>1, <2>2, <2>3 DEF OutLoose
<1>9. CASE ClientReads
  <2>1. /\ tx # <<>> /\ received' = Append(received, Head(tx)) /\ tx' = Tail(tx)
        /\ UNCHANGED <<fromhw, outfifo, written, overrun>>
    BY <1>9 DEF ClientReads, serverVars, fifoVars, historyVars
  <2>2. /\ Head(tx) \in 0..MaxOut /\ Tail(tx) \in Seq(0..MaxOut)
        /\ Len(Tail(tx)) = Len(tx) - 1
    BY <2>1, HeadTailProperties DEF OutLoose
  <2>3. received' \in Seq(0..MaxOut)
    BY <2>1, <2>2, AppendProperties DEF OutLoose
  <2>4. QED
    BY <1>1, <2>1, <2>2, <2>3 DEF OutLoose
<1>10. CASE Select
  BY <1>2, <1>10 DEF Select, fifoVars, clientVars, historyVars
<1>11. CASE Receive("recv", "recv2") \/ Receive("recv2", "send")
  BY <1>2, <1>11 DEF Receive, fifoVars, historyVars
<1>12. CASE StopOrStart \/ CpuReads \/ ClientSends \/ ClientLeaves \/ UNCHANGED vars
  BY <1>2, <1>12 DEF StopOrStart, CpuReads, ClientSends, ClientLeaves,
                     serverVars, fifoVars, clientVars, historyVars, vars
<1>13. QED
  BY <1>3, <1>4, <1>6, <1>7, <1>8, <1>9, <1>10, <1>11, <1>12 DEF Next, ServerStep

\* A ring that was overrun is taken for overrun from then on.
LEMMA OverrunStays == ASSUME [Next]_vars, ~overrun' PROVE ~overrun
BY DEF Next, ServerStep, Accept, Select, Receive, Send, Transact, TransactFails,
       StopOrStart, CpuReads, CpuWrites, ClientSends, ClientReads,
       ClientLeaves, historyVars, vars

\* What a step may do to the bytes of each direction.
InputMoves ==
    /\ InOK'
    /\ \/ sent' = sent /\ InBytes' = InBytes
       \/ sent' = sent /\ failures' > 0 /\ BytesOf(InBytes') = BytesOf(InBytes)
       \/ sent' = sent + 1 /\ InBytes' = Append(InBytes, sent + 1)

OutputMoves ==
    /\ OutOK'
    /\ \/ client' = "gone"
       \/ written' = written /\ OutBytes' = OutBytes
       \/ /\ written' = written /\ failures' > 0
          /\ OutBytes' \in Seq(Nat)
          /\ \E lost \in Seq(Nat) : OutBytes = OutBytes' \o lost
       \/ written' = written + 1 /\ OutBytes' = Append(OutBytes, written + 1)

LEMMA InputStep ==
    ASSUME ControlOK, InOK, [Next]_vars
    PROVE  InputMoves
<1>1. ASSUME UNCHANGED <<tohw, rx, arrived, infifo, sent>> PROVE InputMoves
  <2>1. InBytes' = InBytes
    BY <1>1, Zenon DEF InBytes, Peek
  <2>2. InOK'
    BY <1>1 DEF InOK, Sound
  <2>3. QED
    BY <1>1, <2>1, <2>2 DEF InputMoves
<1>2. CASE Accept
  <2>1. UNCHANGED <<tohw, rx, arrived, infifo, sent>>
    BY <1>2 DEF Accept, ControlOK, fifoVars
  <2>2. QED
    BY <1>1, <2>1
<1>3. CASE Receive("recv", "recv2") \/ Receive("recv2", "send")
  <2>1. InOK' /\ InBytes' = InBytes
    BY <1>3, ReceiveStep
  <2>2. sent' = sent
    BY <1>3 DEF Receive
  <2>3. QED
    BY <2>1, <2>2 DEF InputMoves
<1>4. CASE Transact
  <2>1. InOK' /\ InBytes' = InBytes
    BY <1>4, TransactIn
  <2>2. sent' = sent
    BY <1>4 DEF Transact, clientVars
  <2>3. QED
    BY <2>1, <2>2 DEF InputMoves
<1>5. CASE TransactFails
  <2>1. InOK' /\ BytesOf(InBytes') = BytesOf(InBytes)
    BY <1>5, FailsIn
  <2>2. sent' = sent /\ failures' > 0
    BY <1>5 DEF TransactFails, clientVars, ControlOK
  <2>3. QED
    BY <2>1, <2>2 DEF InputMoves
<1>6. CASE ClientSends
  BY <1>6, ClientSendsIn DEF InputMoves
<1>7. CASE CpuReads
  <2>1. /\ UNCHANGED <<tohw, rx, arrived, sent>>
        /\ infifo # <<>> /\ infifo' = Tail(infifo)
    BY <1>7 DEF CpuReads, serverVars, clientVars
  <2>2. infifo' \in Seq(0..MaxIn) /\ Len(infifo') = Len(infifo) - 1
    BY <2>1, HeadTailProperties DEF InOK
  <2>3. Len(infifo') <= FifoSize
    BY <2>2, InParts, JspAssumption DEF InOK
  <2>4. InOK'
    BY <2>1, <2>2, <2>3 DEF InOK, Sound
  <2>5. InBytes' = InBytes
    BY <2>1, Zenon DEF InBytes, Peek
  <2>6. QED
    BY <2>1, <2>4, <2>5 DEF InputMoves
<1>8. CASE Select
  BY <1>1, <1>8 DEF Select, fifoVars, clientVars
<1>9. CASE Send("send", "send2") \/ Send("send2", AfterSend)
  BY <1>1, <1>9 DEF Send, fifoVars
<1>10. CASE StopOrStart \/ CpuWrites \/ ClientReads \/ ClientLeaves \/ UNCHANGED vars
  BY <1>1, <1>10 DEF StopOrStart, CpuWrites, ClientReads, ClientLeaves,
                     serverVars, fifoVars, clientVars, historyVars, vars
<1>11. QED
  BY <1>2, <1>3, <1>4, <1>5, <1>6, <1>7, <1>8, <1>9, <1>10 DEF Next, ServerStep

LEMMA OutputStep ==
    ASSUME ControlOK, OutOK, [Next]_vars, ~overrun'
    PROVE  OutputMoves
<1>1. ASSUME UNCHANGED <<fromhw, outfifo, tx, received, written>>
      PROVE  OutputMoves
  <2>1. OutBytes' = OutBytes
    BY <1>1, Zenon DEF OutBytes, Peek
  <2>2. OutOK'
    BY <1>1 DEF OutOK, Sound
  <2>3. QED
    BY <1>1, <2>1, <2>2 DEF OutputMoves
<1>2. CASE Accept
  <2>1. UNCHANGED <<fromhw, outfifo, tx, received, written>>
    BY <1>2 DEF Accept, ControlOK, fifoVars
  <2>2. QED
    BY <1>1, <2>1
<1>3. CASE Send("send", "send2") \/ Send("send2", AfterSend)
  BY <1>3, SendStep DEF OutputMoves
<1>4. CASE Transact
  BY <1>4, TransactOut DEF OutputMoves
<1>5. CASE TransactFails
  <2>1. failures' > 0
    BY <1>5 DEF TransactFails, ControlOK
  <2>2. QED
    BY <1>5, <2>1, FailsOut DEF OutputMoves
<1>6. CASE CpuWrites
  BY <1>6, CpuWritesOut DEF OutputMoves
<1>7. CASE ClientReads
  BY <1>7, ClientReadsOut DEF OutputMoves
<1>8. CASE Select
  BY <1>1, <1>8 DEF Select, fifoVars, clientVars
<1>9. CASE Receive("recv", "recv2") \/ Receive("recv2", "send")
  BY <1>1, <1>9 DEF Receive, fifoVars
<1>10. CASE StopOrStart \/ CpuReads \/ ClientSends \/ ClientLeaves \/ UNCHANGED vars
  BY <1>1, <1>10 DEF StopOrStart, CpuReads, ClientSends, ClientLeaves,
                     serverVars, fifoVars, clientVars, historyVars, vars
<1>11. QED
  BY <1>2, <1>3, <1>4, <1>5, <1>6, <1>7, <1>8, <1>9, <1>10 DEF Next, ServerStep

\* Bytes that move so stay in order,
LEMMA InputKept ==
    ASSUME InOK, InputInOrder, InputNotLost, InputMoves,
           failures \in Nat, failures' = failures \/ failures' = failures + 1
    PROVE  InputInOrder' /\ InputNotLost'
<1>1. InBytes \in Seq(Nat) /\ sent \in Nat /\ sent + 1 \in Nat
  BY InParts, JspAssumption DEF InOK
<1>2. failures' = 0 => failures = 0
  OBVIOUS
<1>3. CASE sent' = sent /\ InBytes' = InBytes
  BY <1>2, <1>3 DEF InputInOrder, InputNotLost
<1>4. CASE /\ sent' = sent /\ failures' > 0
           /\ BytesOf(InBytes') = BytesOf(InBytes)
  BY <1>4 DEF InputInOrder, InputNotLost
<1>5. CASE sent' = sent + 1 /\ InBytes' = Append(InBytes, sent + 1)
  <2>1. InputInOrder'
    <3>1. UpTo(sent') = Append(UpTo(sent), sent + 1)
      BY <1>1, <1>5, UpToGrows
    <3>2. QED
      BY <1>2, <1>5, <3>1 DEF InputInOrder
  <2>2. InputNotLost'
    <3>1. BytesOf(InBytes') = BytesOf(InBytes) \union {sent + 1}
      BY <1>1, <1>5, BytesOfAppend
    <3>2. (1..sent) \union {sent + 1} = 1..sent'
      BY <1>1, <1>5
    <3>3. QED
      BY <3>1, <3>2 DEF InputNotLost
  <2>3. QED
    BY <2>1, <2>2
<1>6. QED
  BY <1>3, <1>4, <1>5 DEF InputMoves

\* in both directions.
LEMMA OutputKept ==
    ASSUME OutOK, OutputInOrder, OutputIsOld, OutputAscends, OutputMoves,
           ~overrun,
           client' # "gone" => client # "gone",
           failures \in Nat, failures' = failures \/ failures' = failures + 1
    PROVE  OutputInOrder' /\ OutputIsOld' /\ OutputAscends'
<1>1. /\ OutBytes \in Seq(Nat) /\ written \in Nat /\ written + 1 \in Nat
  BY OutParts, JspAssumption DEF OutOK
<1>2. failures' = 0 => failures = 0
  OBVIOUS
<1>3. CASE client' = "gone"
  BY <1>3 DEF OutputInOrder, OutputIsOld, OutputAscends
<1>4. CASE client' # "gone" /\ written' = written /\ OutBytes' = OutBytes
  BY <1>2, <1>4 DEF OutputInOrder, OutputIsOld, OutputAscends
<1>5. CASE /\ client' # "gone" /\ written' = written /\ failures' > 0
           /\ OutBytes' \in Seq(Nat)
           /\ \E lost \in Seq(Nat) : OutBytes = OutBytes' \o lost
  <2> DEFINE new == OutBytes'
  <2>1. PICK lost \in Seq(Nat) : OutBytes = new \o lost
    BY <1>5
  <2>2. new \in Seq(Nat)
    BY <1>5
  <2> HIDE DEF new
  <2>3. BytesOf(new \o lost) = BytesOf(new) \union BytesOf(lost)
    BY <2>2, BytesOfConcat
  <2>4. Ascending(new)
    BY <1>5, <2>1, <2>2, AscendingFirst DEF OutputAscends
  <2>5. \A x \in BytesOf(new) : x <= written
    BY <1>5, <2>1, <2>3 DEF OutputIsOld
  <2>6. QED
    BY <1>5, <2>4, <2>5 DEF OutputInOrder, OutputIsOld, OutputAscends, new
<1>6. CASE /\ client' # "gone" /\ written' = written + 1
           /\ OutBytes' = Append(OutBytes, written + 1)
  <2>1. OutputInOrder'
    <3>1. UpTo(written') = Append(UpTo(written), written + 1)
      BY <1>1, <1>6, UpToGrows
    <3>2. QED
      BY <1>2, <1>6, <3>1 DEF OutputInOrder
  <2>2. \A x \in BytesOf(OutBytes) : x \in Nat /\ x <= written
    <3>1. \A x \in BytesOf(OutBytes) : x \in Nat
      BY <1>1, LenProperties, ElementOfSeq DEF BytesOf
    <3>2. QED
      BY <1>6, <3>1 DEF OutputIsOld
  <2>3. OutputIsOld'
    <3>1. BytesOf(OutBytes') = BytesOf(OutBytes) \union {written + 1}
      BY <1>1, <1>6, BytesOfAppend
    <3>2. \A x \in BytesOf(OutBytes') : x <= written'
      BY <1>1, <1>6, <2>2, <3>1
    <3>3. QED
      BY <3>2 DEF OutputIsOld
  <2>4. Ascending(Append(OutBytes, written + 1))
    <3>1. \A x \in BytesOf(OutBytes) : x < written + 1
      BY <1>1, <2>2
    <3>2. QED
      BY <1>1, <1>6, <3>1, AscendingAppend DEF OutputAscends
  <2>5. OutputAscends'
    <3>1. Ascending(OutBytes')
      BY <1>6, <2>4
    <3>2. QED
      BY <3>1 DEF OutputAscends
  <2>6. QED
    BY <2>1, <2>3, <2>5
<1>7. QED
  BY <1>3, <1>4, <1>5, <1>6 DEF OutputMoves

LEMMA ControlStep ==
    ASSUME ControlOK, [Next]_vars
    PROVE  /\ ControlOK'
           /\ client' # "gone" => client # "gone"
           /\ failures \in Nat
           /\ failures' = failures \/ failures' = failures + 1
<1>1. MaxFailures \in Nat /\ failures \in Nat
  BY JspAssumption DEF ControlOK
<1>2. CASE Accept
  BY <1>1, <1>2 DEF Accept, historyVars, ControlOK, cpuVars
<1>3. CASE Select
  <2>1. pipe' \in Seq({"H", "R"})
    BY <1>3, HeadTailProperties DEF Select, historyVars, ControlOK
  <2>2. jsp_target_is_running' \in {0, 1}
    BY <1>3 DEF Select, historyVars, ControlOK
  <2>3. jpc = "select" /\ jpc' \in {"recv", "send"}
    BY <1>3 DEF Select
  <2>4. UNCHANGED <<cpuRuns, client, failures>>
    BY <1>3 DEF Select, historyVars, clientVars
  <2>5. QED
    BY <1>1, <2>1, <2>2, <2>3, <2>4 DEF ControlOK
<1>4. CASE Receive("recv", "recv2") \/ Receive("recv2", "send")
  BY <1>1, <1>4 DEF Receive, historyVars, ControlOK, cpuVars
<1>5. CASE Send("send", "send2") \/ Send("send2", AfterSend)
  <2>1. /\ UNCHANGED <<jsp_target_is_running, pipe, cpuRuns, client, failures>>
        /\ jpc' \in {"send2", "transact", "select", "killed"}
    BY <1>5 DEF Send, historyVars, AfterSend, cpuVars
  <2>2. QED
    BY <1>1, <2>1 DEF ControlOK
<1>6. CASE Transact
  BY <1>1, <1>6 DEF Transact, historyVars, ControlOK, cpuVars, clientVars
<1>7. CASE TransactFails
  <2>1. /\ UNCHANGED <<jsp_target_is_running, pipe, cpuRuns, client>>
        /\ jpc' = "select" /\ failures < MaxFailures /\ failures' = failures + 1
    BY <1>7 DEF TransactFails, historyVars, cpuVars, clientVars
  <2>2. QED
    BY <1>1, <2>1 DEF ControlOK
<1>8. CASE StopOrStart
  <2>1. pipe' \in Seq({"H", "R"})
    BY <1>8, AppendProperties DEF StopOrStart, historyVars, ControlOK
  <2>2. cpuRuns' \in BOOLEAN
    BY <1>8 DEF StopOrStart, historyVars, ControlOK
  <2>3. UNCHANGED <<jpc, tohw, fromhw, jsp_target_is_running, client, failures>>
    BY <1>8 DEF StopOrStart, historyVars, serverVars, clientVars
  <2>4. QED
    BY <1>1, <2>1, <2>2, <2>3 DEF ControlOK
<1>9. CASE CpuReads \/ CpuWrites \/ ClientSends \/ ClientReads \/ UNCHANGED vars
  <2>1. UNCHANGED <<jpc, tohw, fromhw, jsp_target_is_running, pipe, cpuRuns,
                    client, failures>>
    BY <1>9 DEF CpuReads, historyVars, CpuWrites, ClientSends, ClientReads, serverVars,
                cpuVars, clientVars, vars
  <2>2. QED
    BY <1>1, <2>1 DEF ControlOK
<1>10. CASE ClientLeaves
  BY <1>1, <1>10 DEF ClientLeaves, historyVars, ControlOK, serverVars, cpuVars
<1>11. QED
  BY <1>2, <1>3, <1>4, <1>5, <1>6, <1>7, <1>8, <1>9, <1>10 DEF Next, ServerStep

LEMMA JspStarts == Init => JspInv
<1> SUFFICES ASSUME Init PROVE JspInv
  OBVIOUS
<1> DEFINE N == JSP_BUFFER_SIZE
<1>1. /\ N \in Nat \ {0} /\ MaxIn \in Nat /\ MaxOut \in Nat /\ MaxFailures \in Nat
      /\ Room \in Nat /\ FifoSize \in Nat
  BY JspAssumption
<1>2. ASSUME NEW max \in Nat
      PROVE  /\ EmptyRing \in Ring(max) /\ Sound(EmptyRing)
             /\ EmptyRing.count = 0
  <2>1. [i \in 0..(N - 1) |-> 0] \in [0..(N - 1) -> 0..max]
    OBVIOUS
  <2>2. 0 \in 0..(N - 1) /\ 0 \in 0..N
    BY <1>1
  <2>3. 0 % N = 0
    BY <1>1
  <2>4. QED
    BY <2>1, <2>2, <2>3 DEF EmptyRing, Ring, RingWith, Sound
<1>3. \A S : <<>> \in Seq(S) /\ Len(<<>>) = 0
  BY EmptySeq
<1>4. ControlOK
  <2>1. <<"R">> \in Seq({"H", "R"})
    OBVIOUS
  <2>2. QED
    BY <1>1, <2>1 DEF Init, ControlOK
<1>5. InOK
  BY <1>1, <1>2, <1>3 DEF Init, InOK
<1>6. OutOK /\ OutLoose
  <2>1. OutOK
    BY <1>1, <1>2, <1>3 DEF Init, OutOK
  <2>2. fromhw \in RingWith(Nat, MaxOut)
    BY <2>1, RingIsLoose DEF OutOK
  <2>3. QED
    BY <2>1, <2>2 DEF Init, OutOK, OutLoose
<1>7. ASSUME NEW max \in Nat PROVE Bytes(EmptyRing) = <<>>
  <2>1. Bytes(EmptyRing) \in Seq(0..max) /\ Len(Bytes(EmptyRing)) = 0
    <3>1. 0 \in 0..JSP_BUFFER_SIZE
      BY <1>1
    <3>2. QED
      BY <1>2, <3>1, PeekIsSeq DEF Bytes
  <2>2. QED
    BY <2>1, EmptySeq
<1>8. UpTo(0) = <<>> /\ BytesOf(<<>>) = {}
  BY DEF UpTo, BytesOf
<1>9. <<>> \o <<>> = <<>>
  BY EmptySeq, ConcatEmptySeq
<1>10. InBytes = <<>>
  <2>1. InBytes = (<<>> \o Bytes(EmptyRing)) \o <<>>
    BY DEF Init, InBytes, Bytes
  <2>2. QED
    BY <1>1, <1>7, <1>9, <2>1
<1>11. OutBytes = <<>>
  <2>1. OutBytes = ((<<>> \o <<>>) \o Bytes(EmptyRing)) \o <<>>
    BY DEF Init, OutBytes, Bytes
  <2>2. QED
    BY <1>1, <1>7, <1>9, <2>1
<1>12. InputInOrder /\ InputNotLost
  <2>1. sent = 0 /\ 1..0 = {}
    BY DEF Init
  <2>2. QED
    BY <1>8, <1>10, <2>1 DEF InputInOrder, InputNotLost
<1>13. OutputInOrder /\ OutputIsOld /\ OutputAscends
  <2>1. written = 0 /\ DOMAIN <<>> = {}
    BY DEF Init
  <2>2. QED
    BY <1>8, <1>11, <2>1 DEF OutputInOrder, OutputIsOld, OutputAscends, Ascending
<1>14. QED
  BY <1>4, <1>5, <1>6, <1>12, <1>13 DEF JspInv

\* The rings keep their counts and indices, and the bytes of each direction
\* their order, for every size of the rings, the FIFOs and the socket; from the
\* hardware until the ring is given more than it has room for, after which only
\* its indices stay in range (jsp_hardware_transact, jsp_send_data_to_client,
\* jsp_queue_data_from_client).
THEOREM JspInvariant == Spec => []JspInv
<1>1. JspInv /\ [Next]_vars => JspInv'
  <2> SUFFICES ASSUME JspInv, [Next]_vars PROVE JspInv'
    OBVIOUS
  <2> USE DEF JspInv
  <2>1. /\ ControlOK'
        /\ client' # "gone" => client # "gone"
        /\ failures \in Nat
        /\ failures' = failures \/ failures' = failures + 1
    BY ControlStep
  <2>2. InputMoves /\ InOK'
    BY InputStep DEF InputMoves
  <2>3. ~overrun' => ~overrun /\ OutputMoves /\ OutOK'
    BY OverrunStays, OutputStep DEF OutputMoves
  <2>7. OutLoose'
    BY OutLooseStep
  <2>4. InputInOrder' /\ InputNotLost'
    BY <2>1, <2>2, InputKept
  <2>5. OutputInOrder' /\ OutputIsOld' /\ OutputAscends'
    <3>1. CASE overrun'
      BY <3>1 DEF OutputInOrder, OutputIsOld, OutputAscends
    <3>2. CASE ~overrun'
      BY <2>1, <2>3, <3>2, OutputKept
    <3>3. QED
      BY <3>1, <3>2
  <2>6. QED
    BY <2>1, <2>2, <2>3, <2>4, <2>5, <2>7
<1>2. QED
  BY <1>1, JspStarts, PTL DEF Spec

\* However the rings wrap and whatever part of them is taken, the bytes of both
\* directions arrive each once and in order, and transactions that fail lose none
\* on its way to the hardware and neither repeat nor reorder one from it
\* (jsp_hardware_transact, jsp_send_data_to_client): for every size of the
\* rings, the FIFOs and the socket; from the hardware until the ring is given
\* more than it has room for.
THEOREM BytesStayInOrder == Spec => []BytesInOrder
<1>1. JspInv => BytesInOrder
  <2> SUFFICES ASSUME JspInv PROVE BytesInOrder
    OBVIOUS
  <2>1. TypeOK
    BY DEF JspInv, ControlOK, InOK, OutOK, OutLoose, TypeOK
  <2>2. OutputNotRepeated
    BY DEF JspInv, OutputAscends, Ascending, OutputNotRepeated
  <2>3. QED
    BY <2>1, <2>2 DEF JspInv, BytesInOrder
<1>2. QED
  BY <1>1, JspInvariant, PTL

=============================================================================

---------------------------- MODULE FingerprintLog ----------------------------
(***************************************************************************)
(* One pass of the schedule whose words are logged in flash, two to a      *)
(* byte: the fingerprint of the chip (dram_fingerprint), or the decay of   *)
(* an image that is in flash too (dram_imgdecay).  Flash can only change   *)
(* bits from 1 to 0.                                                       *)
(*                                                                         *)
(* A byte is its two halves, each the set of its bits that are 1.          *)
(***************************************************************************)
EXTENDS DecaySchedule

CONSTANTS IMAGE,    \* the image is written, not all cells charged
          Images    \* the bytes an image may be made of

\* Rows are made of bytes.
LogAssumption ==
    /\ IMAGE \in BOOLEAN /\ Images \subseteq [hi : SUBSET Bits, lo : SUBSET Bits]
    /\ Len(Delays) = 1
    /\ Cols % 2 = 0

VARIABLES
    flash,
    flashAddressRead, flashAddressWrite,
    img              \* byte of the image

logVars == <<flash, flashAddressRead, flashAddressWrite, img>>
vars == <<scheduleVars, logVars>>

Byte == [hi : SUBSET Bits, lo : SUBSET Bits]
Erased == [hi |-> Bits, lo |-> Bits]
Bytes == (Rows * Cols) \div 2

\* Where the results are.
Base == IF IMAGE THEN Bytes ELSE 0

\* "Start writing to Flash the size of DRAM from where you start reading".
FlashStart == IF IMAGE THEN flashAddressRead + Bytes ELSE flashAddressRead

Init ==
    /\ ScheduleInit
    /\ flashAddressRead = 0
    /\ flashAddressWrite = FlashStart
    /\ img = Erased
    /\ \E image \in [0 .. Bytes - 1 -> IF IMAGE THEN Images ELSE {Erased}] :
         flash = [a \in 0 .. Base + Bytes - 1 |-> IF a < Base THEN image[a] ELSE Erased]

\* flash_write_byte(): "write to flash can only change 1->0".
FlashWrite(a, byte) ==
    flash' = [flash EXCEPT ![a] = [hi |-> @.hi \intersect byte.hi,
                                   lo |-> @.lo \intersect byte.lo]]

\* "DRAM writes are 4 bits, but Flash reads are 8 bits".
WriteWord ==
    /\ IF IMAGE /\ nextWrite \in Words
       THEN /\ img' = IF Col(nextWrite) % 2 = 0 THEN flash[flashAddressRead] ELSE img
            /\ flashAddressRead' = flashAddressRead + (IF Col(nextWrite) % 2 = 0 THEN 1 ELSE 0)
            /\ WriteHalf(IF Col(nextWrite) % 2 = 0 THEN img'.hi ELSE img.lo)
       ELSE WriteHalf(AllCharged(nextWrite)) /\ UNCHANGED <<img, flashAddressRead>>
    /\ UNCHANGED <<flash, flashAddressWrite>>

Skip == SkipHalf /\ UNCHANGED logVars

\* "Normalize data from DRAM so that 0s mean failure", if it is no image.
DataToWrite == IF IMAGE THEN DataFromDRAM ELSE Value(nextRead, DataFromDRAM)

\* Mutant: the other half of the byte is written as 0.
Padded(h, data) ==
    IF h = 0 THEN [hi |-> data, lo |-> {}] ELSE [hi |-> {}, lo |-> data]

\* "Even cols in MSBs to match bit ordering", the other half all ones.
Aggregate(h, data) ==
    IF h = 0 THEN [hi |-> data, lo |-> Bits] ELSE [hi |-> Bits, lo |-> data]

\* "This only happens every other time because results from 2 dram reads are
\* aggeregated."
Step(h) == IF h = 1 THEN 1 ELSE 0

ReadWord ==
    /\ ReadHalf
    /\ FlashWrite(flashAddressWrite, Aggregate(Col(nextRead) % 2, DataToWrite))
    /\ flashAddressWrite' = flashAddressWrite + Step(Col(nextRead) % 2)
    /\ UNCHANGED <<flashAddressRead, img>>

Done == ~Running /\ UNCHANGED vars

Next == WriteWord \/ Skip \/ ReadWord \/ Done

Spec == Init /\ [][Next]_vars

FairSpec == Spec /\ WF_vars(Next)

-----------------------------------------------------------------------------
Half(n, a) == IF n % 2 = 0 THEN flash[a].hi ELSE flash[a].lo

\* The word that was written, and is written, at the place of word n.
Written(n) == IF IMAGE THEN Half(n, n \div 2) ELSE AllCharged(n)
Logged(n) == Half(n, Base + n \div 2)

\* What is left of it after the delay.
Left(n) ==
    Value(n, {b \in Value(n, Written(n)) : retention[n][b] > Decays(1)})

TypeOK ==
    /\ ScheduleTypeOK
    /\ \A a \in DOMAIN flash : flash[a] \in Byte
    /\ DOMAIN flash = 0 .. Base + Bytes - 1

\* "Write results in aggregate to Flash": when the pass has ended, flash holds
\* for each cell whether it kept its charge for the delay; for an image, what is
\* left of it.
LogIsTrue ==
    ~Running => \A n \in Words :
        Logged(n) = IF IMAGE THEN Left(n) ELSE Value(n, Left(n))

\* The results do not run into the image.
ImageIsKept == \A a \in 0 .. Base - 1 : flash[a] \in Images
=============================================================================

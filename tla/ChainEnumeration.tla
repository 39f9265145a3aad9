--------------------------- MODULE ChainEnumeration ---------------------------
(***************************************************************************)
(* How the bridge finds the devices of the chain                           *)
(* (jtag_enumerate_chain() in chain_commands.c): after a reset each device *)
(* has its IDCODE in the chain, which begins with a 1, or a 0.  A code no  *)
(* device has is shifted in behind them, to be known when it comes out.    *)
(***************************************************************************)
EXTENDS Integers, Sequences
LOCAL INSTANCE SequencesExt

CONSTANTS
    MANUF,        \* bits of a manufacturer's code: 11 in the code
    REST,         \* the other bits of an IDCODE but the first: 20
    INVALID,      \* ones of the invalid code: 7
    MaxChain,     \* bound on the number of devices
    MAX_DEVICES,  \* devices the program finds at most: 1024
    MayFail,      \* a transfer fails
    BROKEN        \* nothing but 0 comes out of the chain

EnumerationAssumption ==
    /\ {MANUF, REST, INVALID, MAX_DEVICES} \subseteq Nat \ {0}
    /\ INVALID <= MANUF + 1
    /\ MaxChain \in Nat
    /\ {MayFail, BROKEN} \subseteq BOOLEAN

\* The invalid code as bits, the first one first; the manufacturer's code in it.
InvalidCode == [i \in 1 .. 1 + MANUF + REST |-> IF i <= INVALID THEN 1 ELSE 0]

\* Mutant: the code is compared with its start bit.
WithStartBit == SubSeq(InvalidCode, 1, MANUF)

DoneCode == SubSeq(InvalidCode, 2, 1 + MANUF)

NoIdcode == <<0>>

\* No manufacturer has the invalid code.
Idcodes ==
    {id \in {<<1>> \o m \o r : m \in [1 .. MANUF -> {0, 1}], r \in [1 .. REST -> {0, 1}]} :
        SubSeq(id, 2, 1 + MANUF) # DoneCode}

Devices == UNION {[1 .. n -> Idcodes \union {NoIdcode}] : n \in 0 .. MaxChain}

VARIABLES
    pc,            \* "start", "manuf", "rest", "done" or "failed"
    devices,       \* the devices, the one next to TDO first
    chain,         \* the bits in the data registers, the next one first
    invalid_code,  \* what is still to be shifted in
    id,            \* the bits of the present device
    idcodes        \* the devices found

vars == <<pc, devices, chain, invalid_code, id, idcodes>>

Init ==
    /\ pc = "start"
    /\ devices \in Devices
    /\ chain = FlattenSeq(devices)
    /\ invalid_code = InvalidCode
    /\ id = <<>> /\ idcodes = <<>>

Pad(bits, n) == [i \in 1 .. n |-> IF i <= Len(bits) THEN bits[i] ELSE 0]

\* n bits of the invalid code go in, n bits come out.
Exchange(n) ==
    /\ chain' = SubSeq(chain \o Pad(invalid_code, n), n + 1, Len(chain) + n)
    /\ invalid_code' = SubSeq(invalid_code, n + 1, Len(invalid_code))

Out(n) ==
    IF BROKEN THEN [i \in 1 .. n |-> 0]
    ELSE SubSeq(chain \o Pad(invalid_code, n), 1, n)

Full(found) == Len(found) >= MAX_DEVICES

\* The loop goes on after a device, unless there are too many.
Found(device) ==
    /\ idcodes' = Append(idcodes, device)
    /\ id' = <<>>
    /\ pc' = IF Full(idcodes') THEN "done" ELSE "start"

NoCode == Found(NoIdcode)

\* "get 1 bit. 0 = BYPASS, 1 = start of IDCODE".
StartBit ==
    /\ pc = "start"
    /\ Exchange(1)
    /\ IF Out(1) = <<0>> THEN NoCode
       ELSE pc' = "manuf" /\ id' = Out(1) /\ UNCHANGED idcodes
    /\ UNCHANGED devices

\* "get 11 bit manufacturer code": the invalid code is the end.
Manufacturer ==
    /\ pc = "manuf"
    /\ Exchange(MANUF)
    /\ IF Out(MANUF) = DoneCode THEN pc' = "done" /\ id' = id
                                ELSE pc' = "rest" /\ id' = id \o Out(MANUF)
    /\ UNCHANGED <<devices, idcodes>>

\* "get 20 more bits, rest of ID".
RestOfId ==
    /\ pc = "rest"
    /\ Exchange(REST)
    /\ Found(id \o Out(REST))
    /\ UNCHANGED devices

\* "Don't try to keep probing if we get a comm. error": the caller is told, and
\* gets no array.
Fail ==
    /\ MayFail /\ pc \in {"start", "manuf", "rest"}
    /\ pc' = "failed"
    /\ UNCHANGED <<devices, chain, invalid_code, id, idcodes>>

Step == StartBit \/ Manufacturer \/ RestOfId \/ Fail

Done == pc \in {"done", "failed"} /\ UNCHANGED vars

Next == Step \/ Done

Spec == Init /\ [][Next]_vars

FairSpec == Spec /\ WF_vars(Step)

-----------------------------------------------------------------------------
TypeOK ==
    /\ pc \in {"start", "manuf", "rest", "done", "failed"}
    /\ devices \in Devices
    /\ \A i \in DOMAIN chain : chain[i] \in {0, 1}
    /\ Len(idcodes) <= MAX_DEVICES

\* "It can determine how many devices are present. If the devices support the
\* IDCODE command, it will be read and stored."  All devices are found, or, if
\* there are too many, the first of them, each with its own code.
FindsDevices ==
    pc = "done" =>
        idcodes = SubSeq(devices, 1, IF Len(devices) < MAX_DEVICES
                                     THEN Len(devices) ELSE MAX_DEVICES)

\* "insuring we still exit in error cases (we never get the 0x7f manuf. id)":
\* the search ends.
SearchEnds == <>(pc \in {"done", "failed"})
=============================================================================

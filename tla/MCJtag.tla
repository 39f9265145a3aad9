-------------------------------- MODULE MCJtag --------------------------------
(***************************************************************************)
(* The way down to the chip for TLC: one of the cable drivers              *)
(* (CableStream, MpsseCable), the operations on the TAP (TapChain) or the  *)
(* search for the devices of the chain (ChainEnumeration), in a setting    *)
(* chosen for good.  Variables of the modules with the same name are one   *)
(* variable; those a setting does not use are Unused.  The constants of    *)
(* the configuration are those of the USB-Blaster; no call of it has been  *)
(* made, or has succeeded, in the settings of the other modules.           *)
(***************************************************************************)
EXTENDS CableStream

CONSTANTS WORD, MANUF, REST, INVALID, Unused

VARIABLES
    setting, got,
    back, bad, postread, len, with_tms, next, send, send_buffered, to_recv,
    recv, device,
    geo, tap, ir, ir_shift, dr, op, queue, captured, updated, ops,
    devices, chain, invalid_code, id, idcodes

byteVars == <<fun, len_bits, set_last_bit, done, bit, xfer, received, total,
              retries, short, tck, fifo>>
mpsseVars == <<back, bad, postread, len, with_tms, next, send, send_buffered,
               to_recv, recv, device>>
tapVars == <<geo, tap, ir, ir_shift, dr, op, queue, captured, updated, ops>>
chainVars == <<devices, chain, invalid_code, id, idcodes>>

mcVars == <<setting, pc, instream, wire, calls, err, got, lost,
            byteVars, mpsseVars, tapVars, chainVars>>

NoByteVars ==
    /\ fun = Unused /\ len_bits = Unused /\ set_last_bit = Unused
    /\ done = Unused /\ bit = Unused /\ xfer = Unused /\ received = Unused
    /\ total = Unused /\ retries = Unused /\ short = Unused /\ tck = Unused
    /\ fifo = Unused
NoMpsseVars ==
    /\ back = Unused /\ bad = Unused /\ postread = Unused /\ len = Unused
    /\ with_tms = Unused /\ next = Unused /\ send = Unused
    /\ send_buffered = Unused /\ to_recv = Unused /\ recv = Unused
    /\ device = Unused
NoTapVars ==
    /\ geo = Unused /\ tap = Unused /\ ir = Unused /\ ir_shift = Unused
    /\ dr = Unused /\ op = Unused /\ queue = Unused /\ captured = Unused
    /\ updated = Unused /\ ops = Unused
NoChainVars ==
    /\ devices = Unused /\ chain = Unused /\ invalid_code = Unused
    /\ id = Unused /\ idcodes = Unused

In(s) == setting = s /\ setting' = s

-----------------------------------------------------------------------------
(* The drivers that shift bytes: answers come at once, in parts, late or   *)
(* without their status, and transfers fail.  The driver of the FT245 does *)
(* not hear of a bit that is lost: here none is.                           *)

\* A bit, less than a byte and a bit, two words in one packet, and two packets,
\* the first of them not a multiple of a word.
Streams == {1, 3, 4, 7, 8, 9}

Ft245 == INSTANCE CableStream
           WITH DRIVER <- "ft245", LANES <- 4, MAX_WRITE <- 7, MAX_READ <- 6,
                RETRIES <- 2, Lengths <- {3, 12, 13}, MayFail <- FALSE,
                MayPart <- TRUE, MaxCalls <- 1

ByteDriver(s) ==
    /\ setting = s
    /\ NoMpsseVars /\ NoTapVars /\ NoChainVars /\ got = Unused

ByteDriverInit ==
    \/ ByteDriver("blaster") /\ Init
    \/ ByteDriver("ft245") /\ Ft245!Init

NotByteDriver == <<got, mpsseVars, tapVars, chainVars>>

BlasterStep == In("blaster") /\ Next /\ UNCHANGED NotByteDriver
Ft245Step == In("ft245") /\ Ft245!Next /\ UNCHANGED NotByteDriver

-----------------------------------------------------------------------------
(* The driver that buffers commands: the device works, takes a part of a   *)
(* write, or drops one and answers in parts, so that a read may wait for   *)
(* ever.                                                                   *)

\* One bit, several bytes, and more bytes than a command takes.
Sizes == 1 .. 6 \union {11, 12, 13}

Mpsse == INSTANCE MpsseCable
           WITH CHUNK <- 2, MAXRECV <- 3, MAXSEND <- 5, Lengths <- Sizes,
                Reads <- BOOLEAN, Failures <- {}, MayPart <- FALSE, MaxCalls <- 2
MpsseShort == INSTANCE MpsseCable
                WITH CHUNK <- 2, MAXRECV <- 3, MAXSEND <- 5, Lengths <- Sizes,
                     Reads <- {FALSE}, Failures <- {"short"}, MayPart <- FALSE,
                     MaxCalls <- 2
MpsseDrops == INSTANCE MpsseCable
                WITH CHUNK <- 2, MAXRECV <- 3, MAXSEND <- 5, Lengths <- Sizes,
                     Reads <- BOOLEAN, Failures <- {"error"}, MayPart <- TRUE,
                     MaxCalls <- 2

MpsseDriver(s) ==
    /\ setting = s
    /\ NoByteVars /\ NoTapVars /\ NoChainVars /\ err = TRUE /\ lost = Unused

MpsseInit ==
    \/ MpsseDriver("mpsse") /\ Mpsse!Init
    \/ MpsseDriver("mpsse short") /\ MpsseShort!Init
    \/ MpsseDriver("mpsse drops") /\ MpsseDrops!Init

NotMpsse == <<err, lost, byteVars, tapVars, chainVars>>

MpsseStep == In("mpsse") /\ Mpsse!Next /\ UNCHANGED NotMpsse
MpsseShortStep == In("mpsse short") /\ MpsseShort!Next /\ UNCHANGED NotMpsse
MpsseDropsStep == In("mpsse drops") /\ MpsseDrops!Next /\ UNCHANGED NotMpsse

\* usb_bulk_read() again and again.
ReadsOn == setting = "mpsse drops" /\ pc \in {"receive", "direct"} /\ UNCHANGED mcVars

-----------------------------------------------------------------------------
(* The TAP, in chains of several devices, or losing packets.               *)

Chain(size, pre, post, drpre, drpost) ==
    [size |-> size, pre |-> pre, post |-> post, drpre |-> drpre, drpost |-> drpost]

\* Alone, and with devices before, after, and on both sides, the instruction
\* within a word; in the last two it ends with the word, or in the next.
Chains == {Chain(2, 0, 0, 0, 0), Chain(3, 2, 0, 1, 0), Chain(2, 0, 1, 0, 1),
           Chain(2, 3, 4, 2, 2), Chain(2, 3, 5, 1, 2), Chain(2, 1, 2, 0, 1),
           Chain(3, 2, 2, 1, 1)}

Tap == INSTANCE TapChain
         WITH DrLen <- 2, VirLen <- 3, IdLen <- 3, Geometries <- Chains,
              IDCODE <- {1}, DEBUG <- {0}, VIR <- {}, MayFail <- FALSE, MaxOps <- 3
TapFails == INSTANCE TapChain
              WITH DrLen <- 1, VirLen <- 1, IdLen <- 1,
                   Geometries <- {Chain(2, 1, 0, 1, 0)},
                   IDCODE <- {1}, DEBUG <- {0}, VIR <- {}, MayFail <- TRUE, MaxOps <- 2

TapOnly(s) ==
    /\ setting = s
    /\ NoByteVars /\ NoMpsseVars /\ NoChainVars
    /\ pc = Unused /\ instream = Unused /\ wire = Unused /\ calls = Unused

TapInit ==
    \/ TapOnly("tap") /\ Tap!Init
    \/ TapOnly("tap fails") /\ TapFails!Init

NotTap == <<pc, instream, wire, calls, byteVars, mpsseVars, chainVars>>

TapStep == In("tap") /\ Tap!Next /\ UNCHANGED NotTap
TapFailsStep == In("tap fails") /\ TapFails!Next /\ UNCHANGED NotTap

-----------------------------------------------------------------------------
(* The search: in all chains, with one device more than the program finds, *)
(* or in a chain out of which the invalid code never comes.                *)

Search == INSTANCE ChainEnumeration
            WITH MaxChain <- 3, MAX_DEVICES <- 2, MayFail <- TRUE, BROKEN <- FALSE
BrokenSearch == INSTANCE ChainEnumeration
                  WITH MaxChain <- 2, MAX_DEVICES <- 3, MayFail <- FALSE, BROKEN <- TRUE

SearchOnly(s) ==
    /\ setting = s
    /\ NoByteVars /\ NoMpsseVars /\ NoTapVars
    /\ instream = Unused /\ wire = Unused /\ calls = Unused
    /\ err = Unused /\ got = Unused /\ lost = Unused

SearchInit ==
    \/ SearchOnly("search") /\ Search!Init
    \/ SearchOnly("broken") /\ BrokenSearch!Init

NotSearch == <<instream, wire, calls, err, got, lost, byteVars, mpsseVars, tapVars>>

SearchStep == In("search") /\ Search!Next /\ UNCHANGED NotSearch
BrokenSearchStep == In("broken") /\ BrokenSearch!Next /\ UNCHANGED NotSearch

-----------------------------------------------------------------------------
ASSUME JtagSettings ==
    /\ CableAssumption /\ Ft245!CableAssumption
    /\ Mpsse!MpsseAssumption /\ MpsseShort!MpsseAssumption
    /\ MpsseDrops!MpsseAssumption
    /\ Tap!TapAssumption /\ TapFails!TapAssumption
    /\ Search!EnumerationAssumption /\ BrokenSearch!EnumerationAssumption

MCInit == ByteDriverInit \/ MpsseInit \/ TapInit \/ SearchInit

MCNext ==
    \/ BlasterStep \/ Ft245Step
    \/ MpsseStep \/ MpsseShortStep \/ MpsseDropsStep \/ ReadsOn
    \/ TapStep \/ TapFailsStep
    \/ SearchStep \/ BrokenSearchStep

\* The bridge takes the next step of a call.
CallStep ==
    \/ In("blaster") /\ Step /\ UNCHANGED NotByteDriver
    \/ In("ft245") /\ Ft245!Step /\ UNCHANGED NotByteDriver
    \/ In("mpsse short") /\ MpsseShort!Step /\ UNCHANGED NotMpsse
    \/ In("broken") /\ BrokenSearch!Step /\ UNCHANGED NotSearch

MCSpec == MCInit /\ [][MCNext]_mcVars /\ WF_mcVars(CallStep)

-----------------------------------------------------------------------------
\* The buffers of a driver keep their bounds.  With the FT2232 a call has clocked
\* the whole stream, after a read each bit is where it belongs, and to_recv counts
\* what is still to come; a command that is dropped makes no bit be clocked twice or
\* out of its turn (cable_ftdi_*_stream, usbconn_ftdi_flush).
CommandsAreRight ==
    /\ setting = "blaster" => TypeOK
    /\ setting = "ft245" => Ft245!TypeOK
    /\ setting = "mpsse" =>
           /\ Mpsse!TypeOK /\ Mpsse!StreamIsClocked
           /\ Mpsse!ReadIsPlaced /\ Mpsse!ScheduledIsTrue
    /\ setting = "mpsse drops" => MpsseDrops!BitsInOrder

\* A call returns although transfers fail, answers are late or writes short, if
\* no answer without its status makes the bridge write where it has no memory; and
\* so does the search for devices although the invalid code never comes out.
EveryCallReturns ==
    /\ setting = "blaster" => CallReturns
    /\ setting = "ft245" => Ft245!CallReturns
    /\ setting = "mpsse short" => MpsseShort!CallReturns
    /\ setting = "broken" => BrokenSearch!SearchEnds

\* In a chain of several devices BYPASS is in the others and the instruction in
\* ours, if it ends before its word does; with it there, just the data
\* written is in our register when it is updated, and what is read is what it
\* held.  A reset of which nothing is lost brings the TAP back into step, whatever
\* was lost before it, told or not (tap_set_ir, jtag_write_stream,
\* jtag_read_stream, tap_reset).
OurDeviceOnly ==
    /\ setting = "tap" =>
           Tap!TypeOK /\ Tap!IrIsLoaded /\ Tap!DataArrives /\ Tap!ReadsOwnRegister
    /\ setting = "tap fails" => TapFails!TypeOK /\ TapFails!InStep

\* All devices are found, each with its own code (jtag_enumerate_chain).
FindsDevices == setting = "search" => Search!TypeOK /\ Search!FindsDevices

=============================================================================

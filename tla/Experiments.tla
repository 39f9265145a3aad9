----------------------------- MODULE Experiments ------------------------------
(***************************************************************************)
(* What the experiments on the chip log in flash, by program: the          *)
(* fingerprint or the decay of an image (FingerprintLog), the map of       *)
(* failures by words or by bits (FailureMap), or the scan at reduced       *)
(* voltage (VoltageScan).  The microcontroller runs one of the programs;   *)
(* the constants are the settings of PROGRAM.                              *)
(***************************************************************************)
EXTENDS Integers, Sequences, FiniteSets

CONSTANTS
    PROGRAM,
    Rows, Cols, Bits,
    Delays, Retentions,
    Images, Capacity,
    MaxSteps, STEP, MAX_LATE, Voltages, PERCENT

VARIABLES
    program,       \* the one the microcontroller was loaded with
    retention,
    pass, blockCounter, nextWrite, nextRead, half, now, charged, refreshed,
    flash, flashAddressRead, flashAddressWrite, img,
    pc, mem, voltage, scanDelay, scanLog, first

Log == INSTANCE FingerprintLog
         WITH BY_ROWS <- PROGRAM = "overlapped", IMAGE <- PROGRAM = "dram_imgdecay"
Map == INSTANCE FailureMap WITH BY_ROWS <- PROGRAM = "overlapped"
Scan == INSTANCE VoltageScan
          WITH MAX_DELAY <- MaxSteps, delay <- scanDelay, log <- scanLog

IsLog == PROGRAM \in {"dram_fingerprint", "dram_imgdecay"}
IsMap == PROGRAM \in {"overlapped", "overlappedBits"}
IsScan == PROGRAM \in {"dram_voltage", "sequentialFlips", "sequentialBits"}

ExperimentAssumption ==
    /\ IsLog \/ IsMap \/ IsScan
    /\ IsLog => Log!ScheduleAssumption /\ Log!RefreshAssumption /\ Log!LogAssumption
    /\ IsMap => Map!ScheduleAssumption /\ Map!RefreshAssumption /\ Map!MapAssumption
    /\ IsScan => Scan!ScanAssumption

ExperimentSpec ==
    /\ program = PROGRAM /\ [][UNCHANGED program]_program
    /\ IsLog => Log!Spec
    /\ IsMap => Map!Spec
    /\ IsScan => Scan!Spec

-----------------------------------------------------------------------------
\* Flash holds what the cells did when left alone for exactly the delay: of each
\* whether it kept its charge, or what is left of the image, which is kept; of bits
\* and words the first delay at which they failed, as far as there is room; of the
\* words that kept their charge how many, but for the two that dram_power_on()
\* writes after the delay (the loops of the programs).  Only the first delays that
\* sequentialBits.c logs are of words that were left alone for longer, namely until
\* the rows before theirs had been read.
LogIsTrue ==
    program = PROGRAM =>
        /\ IsLog => /\ Log!TypeOK /\ Log!RowsDecayForTheDelay
                    /\ Log!LogIsTrue /\ Log!ImageIsKept
        /\ IsMap => /\ Map!TypeOK /\ Map!RowsDecayForTheDelay
                    /\ Map!FirstFailureIsLogged
        /\ IsScan => /\ Scan!TypeOK
                     /\ Scan!RecordsAreMeasured /\ Scan!FirstFailureIsLogged
=============================================================================

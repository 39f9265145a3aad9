---------------------------- MODULE MCExperiments -----------------------------
(***************************************************************************)
(* The experiments for TLC: one of the programs of the microcontroller, or *)
(* of the database of fingerprints, chosen for good.  These are the search *)
(* for a delay (DelaySearch, with the constants of the configuration), the *)
(* programs of Experiments, that is the fingerprint and the decay of an    *)
(* image, the map of failures by bits and by words, and the three scans at *)
(* reduced voltage, each with settings of its own, and the script that     *)
(* adds to the database, left alone or ended between two files             *)
(* (FingerprintDb).  Variables with the same name are one variable, but    *)
(* for the delay and the log of a scan; those that are not used are        *)
(* Unused, and the search stands at its beginning.                         *)
(***************************************************************************)
EXTENDS DelaySearch, Experiments

CONSTANTS MaxCalls, Unused

VARIABLES
    files, given, k, matches, chip, loc, queue, calls, stored, unmerged, merging, atRisk

imageVars == <<flashAddressRead, flashAddressWrite, img>>
scheduleVars == <<pass, blockCounter, nextWrite, nextRead, half, now, charged,
                  refreshed, flash>>
scanVars == <<mem, voltage, scanDelay, scanLog, first>>
dbVars == <<files, given, k, matches, chip, loc, queue, calls, stored, unmerged,
            merging, atRisk>>

mcVars == <<program, retention, pc, scheduleVars, imageVars, scanVars, dbVars, vars>>

NoImageVars ==
    flashAddressRead = Unused /\ flashAddressWrite = Unused /\ img = Unused
NoScheduleVars ==
    /\ pass = Unused /\ blockCounter = Unused /\ nextWrite = Unused
    /\ nextRead = Unused /\ half = Unused /\ now = Unused /\ charged = Unused
    /\ refreshed = Unused /\ flash = Unused
NoScanVars ==
    /\ mem = Unused /\ voltage = Unused /\ scanDelay = Unused
    /\ scanLog = Unused /\ first = Unused
NoDbVars ==
    /\ files = Unused /\ given = Unused /\ k = Unused /\ matches = Unused
    /\ chip = Unused /\ loc = Unused /\ queue = Unused /\ calls = Unused
    /\ stored = Unused /\ unmerged = Unused /\ merging = Unused /\ atRisk = Unused

In(p) == program = p /\ program' = p

-----------------------------------------------------------------------------
(* The search.  A chip is given by the delay after which each of its bits  *)
(* fails.                                                                  *)

MCChips ==
    {[d \in AllDelays |-> Cardinality({b \in 1 .. TotalBits : fails[b] > d})] :
        fails \in [1 .. TotalBits -> MIN_DELAY .. MAX_DELAY + 1]}

SearchInit ==
    /\ program = "dram_bst" /\ Init
    /\ retention = Unused /\ pc = Unused
    /\ NoImageVars /\ NoScheduleVars /\ NoScanVars /\ NoDbVars

AnyChip == CHOOSE f \in Chips : TRUE

NoSearch == left = AnyChip /\ Init

SearchStep ==
    /\ In("dram_bst") /\ Next
    /\ UNCHANGED <<retention, pc, scheduleVars, imageVars, scanVars, dbVars>>

-----------------------------------------------------------------------------
(* One pass, logged in full: cells that fail just before, at and just      *)
(* after the delay.                                                        *)

MCDelays == <<3>>
MCImages == {[hi |-> {1, 2}, lo |-> {2}], [hi |-> {}, lo |-> {1}]}

Image == INSTANCE Experiments WITH PROGRAM <- "dram_imgdecay", Retentions <- {3, 4}

LogInit ==
    /\ NoSearch /\ NoScanVars /\ NoDbVars /\ pc = Unused
    /\ \/ program = PROGRAM /\ Log!Init
       \/ program = "dram_imgdecay" /\ Image!Log!Init

NotLog == <<pc, scanVars, dbVars, vars>>

FingerprintStep == In(PROGRAM) /\ Log!Next /\ UNCHANGED NotLog
ImageStep == In("dram_imgdecay") /\ Image!Log!Next /\ UNCHANGED NotLog

-----------------------------------------------------------------------------
(* Three passes, with room for all words but one in flash, or with delays  *)
(* in rows of two words.                                                   *)

ThreeDelays == <<1, 3, 5>>

BitMap == INSTANCE Experiments
            WITH PROGRAM <- "overlappedBits", Delays <- ThreeDelays,
                 Retentions <- {1, 3, 6}, Capacity <- 3
WordMap == INSTANCE Experiments
             WITH PROGRAM <- "overlapped", Delays <- ThreeDelays,
                  Retentions <- {2, 3, 5}

MapInit ==
    /\ NoSearch /\ NoScanVars /\ NoImageVars /\ NoDbVars /\ pc = Unused
    /\ \/ program = "overlappedBits" /\ BitMap!Map!Init
       \/ program = "overlapped" /\ WordMap!Map!Init

NotMap == <<pc, imageVars, scanVars, dbVars, vars>>

BitMapStep == In("overlappedBits") /\ BitMap!Map!Next /\ UNCHANGED NotMap
WordMapStep == In("overlapped") /\ WordMap!Map!Next /\ UNCHANGED NotMap

-----------------------------------------------------------------------------
(* The scans: one voltage, two, and three rows, which take longer to read  *)
(* than a step of the delay or less.                                       *)

MainScan == INSTANCE Experiments
              WITH PROGRAM <- "dram_voltage", Retentions <- 1 .. 5
FlipScan == INSTANCE Experiments
              WITH PROGRAM <- "sequentialFlips", MaxSteps <- 2, Voltages <- 2,
                   PERCENT <- 25, Retentions <- 1 .. 3
BitScan == INSTANCE Experiments
             WITH PROGRAM <- "sequentialBits", Rows <- 3, STEP <- 2, MAX_LATE <- 3,
                  MaxSteps <- 3, Retentions <- {2, 3, 5, 8}

ScanInit ==
    /\ NoSearch /\ NoScheduleVars /\ NoImageVars /\ NoDbVars
    /\ \/ program = "dram_voltage" /\ MainScan!Scan!Init
       \/ program = "sequentialFlips" /\ FlipScan!Scan!Init
       \/ program = "sequentialBits" /\ BitScan!Scan!Init

NotScan == <<scheduleVars, imageVars, dbVars, vars>>

MainScanStep == In("dram_voltage") /\ MainScan!Scan!Next /\ UNCHANGED NotScan
FlipScanStep == In("sequentialFlips") /\ FlipScan!Scan!Next /\ UNCHANGED NotScan
BitScanStep == In("sequentialBits") /\ BitScan!Scan!Next /\ UNCHANGED NotScan

-----------------------------------------------------------------------------
(* The database: a chip of four pages and one of one page.  All their      *)
(* segments are added in calls that are not interrupted, or some are added *)
(* or checked by a script that may be ended, and runs out of numbers.      *)

MCTrueChips == {<<"a", "b", "c", "d">>, <<"x">>}

Segments ==
    UNION {{SubSeq(t, i, j) : i \in 1 .. Len(t), j \in 0 .. Len(t)} : t \in MCTrueChips}

Adding == INSTANCE FingerprintDb
            WITH Numbers <- 1 .. 3, Uploads <- Segments, TrueChips <- MCTrueChips,
                 MayCrash <- FALSE, MayCheck <- FALSE
Crashing == INSTANCE FingerprintDb
              WITH Numbers <- 1 .. 2, TrueChips <- MCTrueChips,
                   Uploads <- {<<"a", "b">>, <<"b", "c">>, <<"c", "d">>, <<"x">>},
                   MayCrash <- TRUE, MayCheck <- TRUE

DbInit ==
    /\ NoSearch /\ NoScheduleVars /\ NoImageVars /\ NoScanVars
    /\ retention = Unused
    /\ \/ program = "probableCause" /\ Adding!Init
       \/ program = "probableCause, ended" /\ Crashing!Init

NotDb == <<retention, scheduleVars, imageVars, scanVars, vars>>

AddingStep == In("probableCause") /\ Adding!Next /\ UNCHANGED NotDb
CrashingStep == In("probableCause, ended") /\ Crashing!Next /\ UNCHANGED NotDb

-----------------------------------------------------------------------------
ASSUME ExperimentSettings ==
    /\ Adding!DbAssumption /\ Crashing!DbAssumption
    /\ ExperimentAssumption /\ Image!ExperimentAssumption
    /\ BitMap!ExperimentAssumption /\ WordMap!ExperimentAssumption
    /\ MainScan!ExperimentAssumption /\ FlipScan!ExperimentAssumption
    /\ BitScan!ExperimentAssumption

MCInit == SearchInit \/ LogInit \/ MapInit \/ ScanInit \/ DbInit

MCNext ==
    \/ SearchStep \/ FingerprintStep \/ ImageStep \/ BitMapStep \/ WordMapStep
    \/ MainScanStep \/ FlipScanStep \/ BitScanStep \/ AddingStep \/ CrashingStep

\* The program, or the script, goes on.
GoesOn ==
    \/ FingerprintStep
    \/ In("probableCause") /\ Adding!Step /\ UNCHANGED NotDb
    \/ In("probableCause, ended") /\ Crashing!Step /\ UNCHANGED NotDb

MCSpec == MCInit /\ [][MCNext]_mcVars /\ WF_mcVars(GoesOn)

-----------------------------------------------------------------------------
\* The pass over the memory ends (dram_fingerprint).  A call of the script ends,
\* whatever earlier ones left behind, or it looks for ever for a number for its
\* pages, but only when all are taken, and never for those of a merge
\* (getChipNumber, chipMerge).
Ends ==
    /\ <>(program = PROGRAM => ~Log!Running)
    /\ program = "probableCause" => Adding!CallsEnd
    /\ program = "probableCause, ended" => Crashing!CallsEnd

\* What the other settings log is true as well (LogIsTrue of Experiments says of
\* what): words are written and read in turns, and every access refreshes their
\* row, but the cells are logged as if left alone for exactly the delay, or, where
\* reading takes time, until they are read.  And so is the database: after calls
\* that were not interrupted the pages of a chip are those of a real one, in their
\* places, no page is lost, and chips that a page links are one, but for what was
\* left behind by a call that could not shift its matches; not even a script that
\* is ended puts pages of two chips together, or loses any but of the two chips it
\* was merging (add, chipMerge).
ResultsAreTrue ==
    /\ Image!LogIsTrue
    /\ BitMap!LogIsTrue /\ WordMap!LogIsTrue
    /\ MainScan!LogIsTrue /\ FlipScan!LogIsTrue /\ BitScan!LogIsTrue
    /\ program = "probableCause" =>
           /\ Adding!TypeOK
           /\ Adding!PlacesAreTrue /\ Adding!PagesAreKept /\ Adding!LinkedAreMerged
    /\ program = "probableCause, ended" =>
           /\ Crashing!ChipsAreNotMixed /\ Crashing!OnlyMergesLose
=============================================================================

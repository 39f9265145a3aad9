\* Two rows of two words of two bits; for the search, all chips of four bits over
\* seventeen delays, and unsigned ints just wide enough; for the database, two
\* chips that a third call links.
CONSTANTS
    MIN_DELAY = 0
    MAX_DELAY = 16
    UintRange = 20
    TotalBits = 4
    TARGET_ACCURACY = 2
    MARGIN_OF_ERROR = 1
    Chips <- MCChips
    Rows = 2
    Cols = 2
    Bits = {1, 2}
    PROGRAM = "dram_fingerprint"
    Delays <- MCDelays
    Retentions = {2, 3, 4}
    Images <- MCImages
    Capacity = 4
    MaxSteps = 4
    STEP = 1
    MAX_LATE = 0
    Voltages = 1
    PERCENT = 50
    MaxCalls = 3
    Unused = Unused
SPECIFICATION MCSpec
INVARIANTS
    SearchIsRight
    LogIsTrue
    ResultsAreTrue
PROPERTIES
    AlwaysCloser
    Ends

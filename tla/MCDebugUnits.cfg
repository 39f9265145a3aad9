\* All blocks of a memory of four words; two chains of the legacy unit.
CONSTANTS
    HISPEED = TRUE
    XILINX = FALSE
    Size = 4
    MAX_BUS_ERRORS = 2
    MAX_STATUS = 2
    Faults = {"bus", "flip", "cable", "timeout", "busy"}
    MaxFaults = 2
    Chains = {"DC_WISHBONE", "DC_CPU0"}
    NUM_SOFT_RETRIES = 1
    MayFail = TRUE
    MaxCalls = 5
SPECIFICATION MCSpec
INVARIANTS
    BurstIsRight
    ResultIsTrue
PROPERTIES
    BurstsReturn
    OnlyAsAsked

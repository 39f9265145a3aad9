\* Two threads, blocks of one and two words.
CONSTANTS
    t1 = t1
    t2 = t2
    Thread <- Threads
    Value = {0, 1}
    MaxLen = 2
    Calls <- Registers
    DEBUG_HARDWARE = "legacy"
    NoOne = NoOne
    MayFail = TRUE
SPECIFICATION MCSpec
INVARIANTS
    ReachesNamedModule
PROPERTIES
    ImplementsAtomicUnit
    LockIsReleased

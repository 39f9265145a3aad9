\* Two watchpoints and a third that the CPU does not have.  The client is
\* served only while GDB has no hardware matchpoint.
CONSTANTS
    HWP_MAX_WP = 3
    Present <- FirstTwo
    MatchTypes = {"BP_MEMORY", "BP_HARDWARE", "WP_ACCESS"}
    Addr = {a1}
    Elsewhere = Elsewhere
    Instrs = {i1, i2}
    TRAP = TRAP
    NoEntry = NoEntry
    Overlap = FALSE
SPECIFICATION Spec
INVARIANTS
    OwnedOnce
    MatchpointsAreArmed
    PoolIsTrue
    ProgramIsKept
    NothingIsLostOnce
SYMMETRY Alike
CONSTRAINT OverwritesAlone

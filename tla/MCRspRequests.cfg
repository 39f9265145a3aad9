\* Words of two binary digits; one breakpoint.  In the first setting nothing
\* disturbs the NPC and its copy.
CONSTANTS
    Base = 2
    Breakpoints = {2}
    MayFail = FALSE
    Kinds = {"p", "P", "g", "c", "s", "R"}
SPECIFICATION MCSpec
INVARIANTS
    StopsAreTold
    FailuresAreTold

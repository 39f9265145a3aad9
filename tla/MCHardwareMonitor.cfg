\* Two commanders, one listener and as many slots as servers, so that every
\* slot is used and unregister() moves entries; one descriptor more than is
\* ever open, so that numbers are reused and also not reused; pipes that
\* fill; two commands, enough for one server's to be pending while another's
\* is served.  Both pipe() and accesses to the CPU may fail.
CONSTANTS
    c1 = c1
    c2 = c2
    l1 = l1
    f1 = f1
    f2 = f2
    f3 = f3
    Commanders = {c1, c2}
    Listeners = {l1}
    NoServer = NoServer
    Fds = {f1, f2, f3}
    NoFd = NoFd
    MaxConnections = 3
    PipeCap = 2
    MaxCommands = 2
    PipesMayFail = TRUE
    AccessMayFail = TRUE
SPECIFICATION Spec
SYMMETRY Symmetry
INVARIANTS
    TableConsistent
    StatusIsCurrent
    HaltIsTrue
PROPERTIES
    ResumeOnlyOnCommand
    ImplementsBroadcast
\* The monitor blocks for ever in a write to a full pipe, in a read of an
\* empty one, or on the mutex an unsuccessful registration abandoned.
CHECK_DEADLOCK FALSE

\* One GDB client after another, five connections and packets altogether: a
\* client that resumes, breaks and leaves needs four, and the next one
\* connects after it.  The pipes never fill (PipeCap) and the server never
\* runs out of commands (MaxCommands), as a client costs three and a packet
\* one.  A single slot, and descriptor numbers that are reused.
CONSTANTS
    Rsp = Rsp
    f1 = f1
    f2 = f2
    Commanders = {Rsp}
    Listeners = {}
    NoServer = NoServer
    Fds = {f1, f2}
    NoFd = NoFd
    MaxConnections = 1
    PipeCap = 16
    MaxCommands = 16
    MaxPackets = 5
    PipesMayFail = FALSE
    AccessMayFail = FALSE
SPECIFICATION FairSessionSpec
INVARIANTS
    SessionTypeOK
    StopsAreReal
    NeverRefused
    ReportsAreOwed
PROPERTIES
    GdbIsAnswered

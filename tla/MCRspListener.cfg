\* The session with one listener, attached at times, and pipes of two bytes,
\* so that the listener's fills and the monitor waits for it to be drained.
CONSTANTS
    Rsp = Rsp
    l1 = l1
    f1 = f1
    f2 = f2
    Commanders = {Rsp}
    Listeners = {l1}
    NoServer = NoServer
    Fds = {f1, f2}
    NoFd = NoFd
    MaxConnections = 2
    PipeCap = 2
    MaxCommands = 16
    MaxPackets = 4
    PipesMayFail = FALSE
    AccessMayFail = FALSE
SPECIFICATION SessionSpec
PROPERTIES
    UsesMonitor

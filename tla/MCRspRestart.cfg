\* One client that resumes the target and leaves while it runs is enough.
CONSTANTS
    Rsp = Rsp
    f1 = f1
    f2 = f2
    Commanders = {Rsp}
    Listeners = {}
    NoServer = NoServer
    Fds = {f1, f2}
    NoFd = NoFd
    MaxConnections = 1
    PipeCap = 16
    MaxCommands = 16
    MaxPackets = 5
    PipesMayFail = FALSE
    AccessMayFail = FALSE
SPECIFICATION FairSessionSpec
PROPERTIES
    RestartedAtClose

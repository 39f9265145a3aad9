\* Bytes of two bits, words of two bytes; chains of words of four bits, and
\* manufacturers' codes of three.
CONSTANTS
    DRIVER = "usbblaster"
    BYTE = 2
    LANES = 2
    MAX_WRITE = 3
    MAX_READ = 3
    RETRIES = 2
    Lengths <- Streams
    MayFail = TRUE
    MayPart = TRUE
    MaxCalls = 2
    WORD = 4
    MANUF = 3
    REST = 1
    INVALID = 3
    Unused = Unused
SPECIFICATION MCSpec
INVARIANTS
    StreamsAreRight
    CommandsAreRight
    OurDeviceOnly
    FindsDevices
PROPERTIES
    EveryCallReturns

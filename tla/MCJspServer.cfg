\* A ring of three bytes and FIFOs of two, so that the ring wraps at any place and
\* is taken in parts; a socket that fills; a program that may overrun the ring.
CONSTANTS
    JSP_BUFFER_SIZE = 3
    Burst = 2
    FifoSize = 2
    Room = 1
    MayLeave = TRUE
    MaxIn = 4
    MaxOut = 5
    MaxFailures = 1
    MaxBytes = 5
    MaxDelivered = 3
SPECIFICATION MCSpec
INVARIANTS
    BytesInOrder
PROPERTIES
    BytesArrive
\* The bytes the client and the program send are bounded.
CHECK_DEADLOCK FALSE

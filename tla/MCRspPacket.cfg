\* A buffer of nine characters, longer than some packets and shorter than others.
CONSTANT GDB_BUF_MAX = 9
SPECIFICATION Spec
INVARIANTS
    RequestsInOrder
    RepliesMatch
PROPERTIES
    AnswersArrive
\* The requests GDB sends are bounded, and the RSP thread may wait for ever.
CHECK_DEADLOCK FALSE

\* Two clients, four events, a buffer of two and queues of one; no symmetry
\* because of the liveness property.
CONSTANTS
    Client = {c1, c2}
    BUFFER_MAX_LEN = 2
    QUEUE_MAX = 1
    MaxEvents = 4
SPECIFICATION FairSpec
INVARIANTS
    NothingElseLost
PROPERTIES
    StreamSpec
    HandedOver

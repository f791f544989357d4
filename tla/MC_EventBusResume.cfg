\* A client resumes; nothing is evicted and no queue can be full.
CONSTANTS
    Client = {c1}
    BUFFER_MAX_LEN = 4
    QUEUE_MAX = 5
    MaxEvents = 4
SPECIFICATION Spec
INVARIANT
    ResumeMissesNothing

\* Two movers of one task.
CONSTANTS
    Task = {t1}
    NoTask = none
    Request = {r1}
    Mover = {m1, m2}
    MAX_BLOCKED_BY = 1
    MAX_CHAIN_DEPTH = 3
SPECIFICATION Spec
PROPERTY
    ClosedIsFinal

\* Two overlapping adds can close a cycle.
CONSTANTS
    Task = {t1, t2}
    Request = {r1, r2}
    MAX_BLOCKED_BY = 2
    MAX_CHAIN_DEPTH = 3
SPECIFICATION MCSpec
INVARIANT
    Acyclic

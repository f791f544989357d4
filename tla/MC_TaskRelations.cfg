\* Two overlapping requests on three tasks with one blocker each; no symmetry
\* because of the liveness property.
CONSTANTS
    Task = {t1, t2, t3}
    Request = {r1, r2}
    MAX_BLOCKED_BY = 1
    MAX_CHAIN_DEPTH = 3
SPECIFICATION MCSpec
INVARIANTS AcyclicUnlessRaced LimitUnlessRaced
PROPERTIES SearchEnds RefusalJustifiedUnlessCut

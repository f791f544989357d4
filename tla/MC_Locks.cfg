\* Three requests that compete for one project of up to four tasks (projects share
\* nothing); two instances, one address, two tasks, two alerts, two faults.  No
\* symmetry because of the liveness properties.
CONSTANTS
    Project = {p1}
    Request = {r1, r2, r3}
    NoRequest = none
    MaxTasks = 4
    Instance = {i1, i2}
    Nobody = Nobody
    Address = {a1}
    Task = {t1, t2}
    MAX_RETRIES = 2
    MaxAlerts = 2
    MaxFaults = 2
SPECIFICATION MCSpec
INVARIANTS NumbersDense CreateNeverConflicts NoUnexplainedDuplicate SentWasDelivered DecidedOnce
PROPERTIES SequenceSpec RequestsFinish EveryLogIsDecided

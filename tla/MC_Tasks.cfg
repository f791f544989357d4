\* Two requests on one task and what belongs to it; a walk over five tasks by pages
\* of two; a search that finds two tasks and a comment; two dashboards in a cache
\* for one; the two requests as movers of two tasks, beside one that changes relations.
CONSTANTS
    User = {u1, u2}
    Creator = u1
    Leader = {}
    Member = {u2}
    Tag = {x}
    Request = {r1, r2}
    MAX_FIELDS = 1
    NoUser = NoUser
    Comment = {c1, c2}
    NoComment = NoComment
    Label = {l1, l2}
    Name = {n1, n2}
    NoName = NoName
    File = {f1, f2}
    Content = {v1, v2}
    NoTemplate = NoTemplate
    MAX_TASKS = 5
    LIMIT = 2
    MAX_SHOWN = 6
    Sought = {t1, t2}
    MAX_OFFSET = 1
    Project = {p1, p2}
    MAX_SIZE = 1
    MAX_AGE = 1
    NoResult = NoResult
    Moved = {m1, m2}
    Writer = {w1}
    NotMoving = NotMoving
    MAX_BLOCKED_BY = 1
    MAX_CHAIN_DEPTH = 3
SPECIFICATION TasksSpec
SYMMETRY Symmetry
INVARIANTS PartsTypeOK TagsMatchUnlessPatched MentionedWatch RefusedOnlyIfOvertaken RowsAndFilesAgree WalkIsWhole PageIsWhole ToldUnlessMixedOrLate
PROPERTIES UpdateToldUnlessOvertaken UpdateIsKept LegalUnlessStale StartsUnblockedUnlessChanged

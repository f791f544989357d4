\* A team of three users and an invite for one use; two users and a project; two
\* creations at a time out of names whose slugs meet.  A team without a leader
\* and with a closed invite stands still, and so do the slugs at their bound.
CONSTANTS
    User = {u1, u2, u3}
    Creator = u1
    Request = {r1, r2}
    MAX_USES = 1
    NoUser = NoUser
    Staff = {u1, u2}
    Project = {p1}
    Base <- Bases
    MAX_SLUGS = 4
SPECIFICATION MCSpec
CHECK_DEADLOCK FALSE
INVARIANTS PartsTypeOK UsesCounted ArchivedWithTeam ChangesPermitted SlugFirstFree

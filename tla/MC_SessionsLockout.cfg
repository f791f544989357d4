\* One client that tries passwords: LIMIT of them are answered and the account
\* is not locked.
CONSTANTS
    Request = {r1}
    Token = {t1}
    ApiKey = {k1}
    LIMIT = 3
    MAX_WRONG = 3
SPECIFICATION Spec
INVARIANT LockedAfterLimit

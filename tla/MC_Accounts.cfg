\* Two users, two requests; one session holder with two tokens and one key; two
\* OAuth clients, of which one may be saved again with another secret and the other's
\* texts may be sent by PUT; three calls of a browser.
CONSTANTS
    User = {u1, u2}
    Request = {r1, r2}
    NoUser = NoUser
    NoRequest = NoRequest
    Token = {t1, t2}
    ApiKey = {k1}
    LIMIT = 2
    MAX_WRONG = 2
    Config = {a, b}
    Rotated = {a}
    Text = {b}
    Call = {c1, c2, c3}
SPECIFICATION MCSpec
INVARIANTS PartsTypeOK OneFounder ActsUnlessRevoked RefreshIsShared
PROPERTIES AdminRemainsUnlessRaced WholeUnlessOverlapped RequestsEnd CallsEnd

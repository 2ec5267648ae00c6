\* Two requests on two accounts: logins, logouts, keys, a request that breaks off.
SPECIFICATION AccessSpec
CONSTANTS
    Users = {u1, u2}
    Requests = {r1, r2}
    Ids = {i1, i2}
    API_KEYS_PER_USER = 1
    TokenLife = 2
    MaxClock = 2
    MaxFailures = 1
SYMMETRY AccessSymmetry
INVARIANTS
    SessionBound
    KeyBound
    SessionsHold
    LogoutEnds

SPECIFICATION LiveSpec
CONSTANTS
    Users = {u1, u2}
    Files = {f1, f2}
    Requests = {r1, r2}
    Archives = {a1, a2}
    Watchers = {w1}
    MaxIds = 2
    None = None
CHECK_DEADLOCK FALSE
INVARIANTS
    AcceptedIsOwned
    ToldIsTrue
PROPERTIES
    StayingIsTold
    LeavingReleases

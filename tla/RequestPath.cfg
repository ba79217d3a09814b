SPECIFICATION LiveSpec
CONSTANTS
    u1 = u1
    u2 = u2
    r1 = r1
    r2 = r2
    k1 = k1
    Users = {u1, u2}
    Requests = {r1, r2}
    None = none
    Keys <- MCKeys
    Wishes <- MCWishes
INVARIANTS
    ActsForItsUser
    AnsweredIsAsked
    RedirectedWriteIsLost
    RefusedLeavesWholeFiles
    CountedIsSeen
PROPERTIES
    AbandonedEnds
CHECK_DEADLOCK FALSE

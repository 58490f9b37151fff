SPECIFICATION PFairSpec
CONSTANTS
    u1 = u1
    u2 = u2
    s1 = s1
    s2 = s2
    s3 = s3
    r1 = r1
    p1 = p1
    Users <- TwoUsers
    Keys = {k1}
    NoKey = none
    Sends <- TwoSends
    Recalls <- NoRecall
    Ids = {2, 3}
    Followers <- OneFollower
    Pagers <- NoPager
    PageSize = 1
    Times = {1}
    Joined0 = FALSE
    MaxCommitErrors = 0
    MaxExpired = 0
    MaxToggles = 2
INVARIANTS
    Inv
PROPERTIES
    RequestsEnd
    Delivered
CHECK_DEADLOCK FALSE

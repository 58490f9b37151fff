SPECIFICATION PSpec
CONSTANTS
    u1 = u1
    u2 = u2
    s1 = s1
    s2 = s2
    s3 = s3
    r1 = r1
    p1 = p1
    Users <- TwoUsers
    Keys = {}
    NoKey = none
    Sends <- TwoSends
    Recalls <- OneRecall
    Ids = {2, 3, 4}
    Followers <- OneFollower
    Pagers <- OnePager
    PageSize = 1
    Times = {1, 2}
    Joined0 = TRUE
    MaxCommitErrors = 0
    MaxExpired = 0
    MaxToggles = 0
INVARIANTS
    FollowersHold
    PagingLosesTiesOnly
PROPERTIES
    Serialised
SYMMETRY Symmetry
CHECK_DEADLOCK FALSE

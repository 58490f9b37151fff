SPECIFICATION ASpec
CONSTANTS
    u1 = u1
    u2 = u2
    s1 = s1
    s2 = s2
    s3 = s3
    r1 = r1
    p1 = p1
    Users <- TwoUsers
    Keys = {k1}
    NoKey = none
    Sends <- ThreeSends
    Recalls <- NoRecall
    Ids = {2, 3, 4}
    Followers <- NoFollower
    Pagers <- NoPager
    PageSize = 1
    Times = {1}
    Alphabet = {2, 3, 4}
    Underscore = 3
    P = 2
    PublicIDLength = 1
    Joined0 = TRUE
    MaxCommitErrors = 1
    MaxExpired = 1
    MaxToggles = 0
INVARIANTS
    AnswersNameMessages
    NoMessageAfterAnswer
SYMMETRY Symmetry
CHECK_DEADLOCK FALSE

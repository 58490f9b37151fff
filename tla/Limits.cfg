SPECIFICATION FairSpec
CONSTANTS
    Clients = {k1, k2}
    Names = {k1, n1}
    Logins = {l1}
    NumShards = 2
    ShardOf <- MCShardOf
    Intervals = {1, 2}
    LoginInterval = 3
    LoginFailures = 1
    TTL = 2
    BatchSize = 1
    Wirings = {"main", "handler"}
    MaxTime = 4
    MaxLogins = 2
INVARIANTS
    Inv
PROPERTIES
    Forgotten
CHECK_DEADLOCK FALSE

SPECIFICATION Spec
CONSTANTS
    Clients = {k1, k2}
    Names = {n1}
    Logins = {l1}
    NumShards = 2
    ShardOf <- MCShardOf
    Intervals = {1, 2}
    LoginInterval = 3
    LoginFailures = 1
    TTL = 2
    BatchSize = 1
    Wirings = {"main"}
    MaxTime = 1
    MaxLogins = 2
INVARIANTS
    BadRequestsOnly
CHECK_DEADLOCK FALSE

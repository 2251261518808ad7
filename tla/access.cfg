\* Two operators, a role, a user, an agent: commands that overlap, lagging
\* reads, failing requests, crashes and a token that runs out.
SPECIFICATION FairSpec
CONSTANTS
    Operators = {o1, o2}
    Kinds = {"app_role", "basic_auth"}
    Ids <- Items
    Kind <- KindOf
    Served = {"app_role"}
    Secrets = {"s1", "s2"}
    Commands <- CommandSet
    Clients = {"a"}
    Credential <- Logins
    Stored <- First
    Documents <- Payloads
    Requests <- Asks
    Trusted <- Hosts
    TTL = 1
    MaxCommands = 2
    MaxFaults = 1
    Failing = {"get", "put", "query", "crash"}
    Editable = {"r2"}
    Lagging = {"r1"}
INVARIANTS TypeOK LoginExact FailuresAlike
PROPERTIES CommandsKeep RefreshHonest  SnapshotsConverge ClientsServed
CHECK_DEADLOCK FALSE

SPECIFICATION Spec
INVARIANTS WindowExact ReportWhole HighestSourceWins
PROPERTIES ShutsDownWhole
CHECK_DEADLOCK FALSE
CONSTANTS
    NoKey = NoKey
    NoHost = NoHost
    ApiKeys <- MCApiKeys
    Requests <- MCRequests
    MaxRequests = 2
    WindowSeconds = 1
    TicksPerSecond = 2
    MaxInstant = 5
    ProbeNames = {"first", "second"}
    Probes = {"disk", "cuda", "callable", "custom"}
    Readings = {4, 5, 14, 15, 90, 91, 97, 98}
    SlowAfter = 0
    ProbeTimeout = 1
    Checkers = {checker}
    MaxUptime = 2
    CallIds = {a, b}
    Gpus = 2
    Defaults <- MCDefaults
    YamlFiles <- MCYamlFiles
    FlatEnvs <- MCFlatEnvs
    NestedTrees <- MCNestedTrees
    OverrideTrees <- MCOverrideTrees
    Unset = Unset
    Blank = Blank
    MaxChanges = 1

SPECIFICATION Spec
CONSTANTS
    a = a  b = b  c = c  d = d
    S = S  T = T
    here = here  there = there
    Blocks = {a, b, c, d}
    Topologies = {S, T}
    Top = S
    Envs = {here, there}
    EnvOf <- MCEnvOf
    Domain <- MCDomain
    InputMode <- MCInputMode
    OutputMode <- MCOutputMode
    AutoPorts <- MCAutoPorts
    Connections <- MCConnections
    MaxEdits = 4
    MaxCommits = 2
    MaxFailures = 1
INVARIANTS
    FlatIsReachable
    SubscriptionsMatch
    CommitSucceeds
    NoDanglingSubscriber
    NoGap
PROPERTIES
    CommitEnds
CHECK_DEADLOCK FALSE

SPECIFICATION Spec
CONSTANTS
  d4 = d4
  d6 = d6
  Resolver = {d4, d6}
  FamilyOf <- Families
  Policies <- SentPolicies
  MaxTampering = 1
  MaxErrors = 1
  a1 = a1
  a2 = a2
  Address = {a1, a2}
  Configs <- TunnelConfigs
  Dummy = a0
  DnsArg = "auto"
  MaxCalls = 2
  MaxFailedParts = 1
  Nobody = Nobody
  eth = eth
  wifi = wifi
  Interface = {eth, wifi}
  Adapters <- AdapterList
  None = None
  NoRoute = NoRoute
  Unnamed = Unnamed
  MaxMetric = 1
  MaxFailures = 1
INVARIANTS SleepsOnlyWhenDone OkIsHonest AttemptsEveryPart ShutdownIsLast ClientUsesPreferred
PROPERTY RoutesFollowPolicy
CHECK_DEADLOCK FALSE

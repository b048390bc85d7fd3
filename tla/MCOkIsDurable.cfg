CONSTANTS
  MaxCalls = 2
  Budget = 2
  Asked = {0, 3}
  Origins = {o1, o2}
  Width = 2
  Public = {3}
  AllowedHosts = {o2}
  AllowedNets <- MCNets
  MaxRedirects = 2
  Callers = {a, b}
  MaxIds = 5
  BuiltinNames = {shell}
  Disabled = {off}
  Offered = {shell, off, own}
  ToolConfigs <- MCToolConfigs
  Offers <- MCOffers
  Capabilities = {"read", "write", "odd"}
  MaxOffers = 2
  Programs = {p1, p2}
  Tools = {t1, t2}
  Asking = {t2}
  Outcomes = {"success", "tool_failure"}
  Window = 1
  Vanishes = 1
  MaxSamples = 2
  MaxTime = 1
  Workers = {"w1", "w2", "w3"}
  Subject <- MCSubject
  RetryLimit <- MCRetryLimit
  Runtimes = {"w3"}
  Sizes = {2, 8}
  Retention = 2
  MaxEntries = 2
  BriefBudget = 12
  Header = 3
  Footer = 2
  Least = 1
  Plans <- MCPlans
  MaxParts = 3
  Logger = {a, b}
  PerTask = 2
  BufferSize = 1
  HistorySize = 1
  QueryLimit = 2
  MaxFaults = 2
  MaxQueries = 1
  Opener = {p, q}
  MaxKills = 2
  MaxSaves = 2
  Widths = {1, 2, 4}
  InputLimit = 5
  SearchLimit = 2
  MaxScroll = 1
SPECIFICATION MCSpec
INVARIANT OkIsDurable
CHECK_DEADLOCK FALSE

\* Each stateful part of the clients, on its own.
SPECIFICATION ClientsSpec
CONSTANTS
  Tabs = {t1}
  Users = {u1}
  None = None
  Deployments = {TRUE, FALSE}
  MaxIssue = 3
  MaxFaults = 1
  MaxLoads = 2
  ChatClients = {"AIChat", "useChat", "mobile"}
  OldExchanges = 3
  PageLimit = 2
  MaxSends = 2
  MaxTokens = 2
  MaxResets = 1
  Buildings = {"b1", "b2"}
  MaxAttempts = 2
  MaxSockets = 4
  MaxMoves = 2
  Notes = {"n1", "n2"}
  MaxChanges = 4
  PageSize = 1
  Longest = 3
  MaxPulls = 1
  MaxToasts = 2
  ToastBound = 3
  Providers = {"mock", "stripe"}
  MaxPayments = 3
  MaxMishaps = 1
  AnalysisApps = {"web", "mobile"}
  MaxPlans = 2
  MaxPolls = 3
  MaxErrors = 1
CHECK_DEADLOCK FALSE
INVARIANTS ClientsTypeOK NoReplay LogoutHolds ChatInOrder SocketInOrder PanelShowsBackend FeedInOrder ChargedOnce CallsArrive
PROPERTIES RejectedReachesLoginCrossSite WaitsEnd

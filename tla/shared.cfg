\* The lease: two schedulers on either store, tasks that fit their lease or not, crashes.
\* The clients: two reads of a list and a mutation, through each of the four.
\* The breakers: two callers of either; the LLM's calls have their three attempts.
SPECIFICATION SharedSpec
CONSTANTS
  Workers = {w1, w2}
  Interval = 2
  Backends = {"asyncpg", "supabase"}
  MaxTime = 6
  MaxCrashes = 1
  g1 = g1  g2 = g2  p1 = p1  list = list  act = act
  Reqs = {g1, g2, p1}
  Gets = {g1, g2}
  EndpointOf <- TwoReads
  Clients = {"web", "package", "fetch", "mobile"}
  None = None
  MaxRetries = 1
  Callers = {c1, c2}
  Kinds = {"gov", "llm"}
  Threshold = 3
  Cooldown = 3
  Attempts = 3
INVARIANTS SharedTypeOK MutualExclusion LeaseBounded RepeatsOnlyUnheard InflightIsLive CountAgrees
PROPERTIES TaskKeepsRunning CallersGoOn KeepsPromise ActsAsBreaker

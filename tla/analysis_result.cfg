\* The mobile app polls while the agent is at work.
SPECIFICATION AnalysisSpec
CONSTANTS
  AnalysisApps = {"mobile"}
  MaxPlans = 1
  MaxPolls = 3
  MaxErrors = 0
CHECK_DEADLOCK FALSE
INVARIANT ResultIsFinal

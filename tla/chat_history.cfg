\* More exchanges than a page of the history holds.
SPECIFICATION ChatSpec
CONSTANTS
  ChatClients = {"AIChat"}
  OldExchanges = 3
  PageLimit = 2
  MaxSends = 1
  MaxTokens = 1
  MaxResets = 0
CHECK_DEADLOCK FALSE
INVARIANT HistoryIsRecent

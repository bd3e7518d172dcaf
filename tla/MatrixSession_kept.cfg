SPECIFICATION Spec
CONSTANTS
  Accounts = {"alice", "bob"}
  Names = {"alice", "bob", "al"}
  Account <- MCAccount
  None = None
  LoginTimeout = 1
  SyncTimeout = 2
  Abandon = 2
  MaxLinks = 3
  MaxFaults = 1
  MaxStarts = 2
INVARIANT SessionKept
CHECK_DEADLOCK FALSE

SPECIFICATION Spec
CONSTANTS
  Execute <- replay_command
  Strip <- StripBook
  Logged <- MCLogged
  EmptyBook <- MCEmptyBook
  Books <- MCBooks
  Commands <- MCCommands
  Foreign <- MCForeign
  ArenaCapacity = 2
  Interval = 2
  NameBase = 3
  NameDigits = 2
  MaxCommands = 4
  MaxStarts = 3
  Faults = {"save", "recover", "snapshot", "cut tail", "foreign"}
INVARIANTS
  BookIsReplay
  SnapshotsArePrefixes
  LatestIsNewest
  SnapshotsKeepUp
\* When its commands and starts are used up the process is not started again.
CHECK_DEADLOCK FALSE

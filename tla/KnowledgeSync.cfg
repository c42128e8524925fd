SPECIFICATION SyncSpec
CONSTANTS
  Files <- MCFiles
  Kind <- MCKind
  Included <- MCFiles
  Skipped <- MCSkipped
  Trees <- MCTrees
  absent = absent
  Absent = absent
  Remote <- MCRemote
  Grammar <- MCGrammar
  OperatorVersion = 9
  BodyLimit = 2
  NoCommit = 0
  NoVersion = 0
  MaxCommits = 2
  MaxRelease = 2
  MaxIngests = 2
INVARIANTS
  NothingToDoIsSearchable
  OnlyCheckedIsSearched
  CachedLacksOnlyOverlapped
CONSTRAINT MCBound
CHECK_DEADLOCK FALSE

\* Every form the files may have; two troubles, one write of Serena's, and
\* commands in the same second or in the next.
CONSTANTS
  Disks <- MCDisks
  Generated <- MCGenerated
  MaxSeconds = 1
  MaxFaults = 2
  MaxSaves = 1
  Missing = Missing
  Torn = Torn
SPECIFICATION CommandSpec
INVARIANTS AllOrNothing OriginalsSurvive
CHECK_DEADLOCK FALSE

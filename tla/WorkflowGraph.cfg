\* Every shape of plan, with every answer of gates, checks, critics, tools
\* and workers, and the process restarted anywhere.
CONSTANTS
  Plans <- MCPlans
  Worlds <- MCWorlds
  Outputs <- MCOutputs
  Evidences <- MCEvidences
  LargeDiff = 0
  Machines <- MCMachines
  Replies <- MCReplies
  Files = {f1}
  MaxRestarts = 1
  WorkerLost = TRUE
  None = None
SPECIFICATION FairSpec
INVARIANTS NeverAsksOperator NothingRunsAfterALeak RejectedIsNotRecorded
PROPERTIES RefinesLedger RunEnds
CHECK_DEADLOCK FALSE

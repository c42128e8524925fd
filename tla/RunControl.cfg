\* One command at a time, killed anywhere, and a cancellation or a reaping beside
\* it; two steps, so that an answer about
\* the first could be mistaken for one about the second.
CONSTANTS
  p1 = p1
  p2 = p2
  Procs = {p1, p2}
  Pauses = {x1, x2, x3}
  Steps = 2
  Verdicts = {"proceed", "needs_operator", "block"}
  Commands <- MCCommands
  MaxKills = 2
  None = None
  Keys = {"geocode"}
  Paths = {"r1", "w1"}
  EnrolledAs <- MCEnrolled
  NameOf <- MCNames
  Disks <- MCDisks
  MaxInits = 2
  MaxOpens = 1
  NoRow = NoRow
  Project = "geocode"
  Requests <- MCRequests
  Governed = {"w1"}
  Budgets <- MCBudgets
SPECIFICATION StartSpec
INVARIANTS CompletedMeansExecuted StartIsRecorded OneHomePerProject EnrolledIsUsable
PROPERTIES ApprovedBeforeExecuted ClaimsAreCurrent RunSettles
CHECK_DEADLOCK FALSE

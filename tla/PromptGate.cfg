\* Two conversations, each started once and submitting two prompts or none.
CONSTANTS
  c1 = c1
  c2 = c2
  p1 = p1
  p2 = p2
  file = file
  Conversations = {c1, c2}
  Prompts = {p1, p2}
  MaySubmit <- MCMaySubmit
  Continuities = {TRUE}
  Payloads <- MCPayloads
  EnrolledLabels = {"agentcore"}
  CwdEnrolled = TRUE
  Tools <- MCTools
  Commands <- MCCommands
  Paths = {file}
  Inside = {file}
  Runtime = {}
  ClassOf <- MCClassOf
  Approved = FALSE
  Projector = FALSE
  MaxStarts <- MCMaxStarts
  MaxTurns <- MCMaxTurns
  MaxCalls <- MCMaxCalls
  MaxUuids = 1
  MaxKills = 1
  NoPrompt = NoPrompt
  NoTurn = NoTurn
  NoCapture = NoCapture
  NoGrant = NoGrant
  Absent = Absent
  Emptied = Emptied
  Garbled = Garbled
SPECIFICATION Spec
INVARIANTS CapturedBeforeTools OwnTurnOnly
CHECK_DEADLOCK FALSE

\* Two routers, two projects, two router clients and a hub; what may be begun together.
SPECIFICATION Spec
CONSTANTS
  r1 = r1
  r2 = r2
  p1 = p1
  p2 = p2
  Tools = {"read", "write"}
  Wild = "*"
  ChatTools <- MCChatTools
  Contract <- MCContract
  Families <- MCFamilies
  Server = "fs"
  Request <- MCRequest
  Results <- MCResults
  ToolList <- MCToolList
  MaxPending = 2
  Routers = {r1, r2}
  Projects = {p1, p2}
  Clients = {"fs", "cf"}
  NoProject = NoProject
  Registries <- MCRegistries
  Deployed <- MCDeployed
  NoIds = {"hub"}
  Budgets <- MCBudgets
  None = None
INVARIANTS AnswersAreEnveloped ChildrenFollowProject DeniedIsBlocked
SYMMETRY Alike
CHECK_DEADLOCK FALSE

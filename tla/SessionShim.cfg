\* Two calls, two children, one of each shim; Serena's process may be replaced once.
CONSTANTS
  c1 = c1
  c2 = c2
  s1 = s1
  p1 = p1
  p2 = p2
  m1 = m1
  m2 = m2
  t1 = t1
  t2 = t2
  sess = sess
  Calls = {c1, c2}
  Children = {s1, p1, p2}
  Serena = {s1}
  Forbidden = {p2}
  Sessions = {sess}
  MsgIds = {m1, m2}
  Times = {t1, t2}
  Room = 2
  MayName <- MCMayName
  MayHave <- MCMayHave
  NoName = NoName
  Foreign = Foreign
  MaxGen <- MCMaxGen
SPECIFICATION FairSpec
INVARIANTS OwnAnswerOrSameId QuietCallsSucceed
PROPERTIES CallsReturn
CHECK_DEADLOCK FALSE

\* One item that may be tried twice, one that may not, a crashing worker and
\* one recovery session, with a capability lease in the same transaction.
CONSTANTS
  i1 = i1
  i2 = i2
  Items = {i1, i2}
  Claims = {c1, c2, c3}
  Workers = {w1}
  Recoverers = {r1}
  Payloads = {p1}
  Leases = {l1}
  MaxAttempts <- MCMaxAttempts
  None = None
SPECIFICATION FairSpec
PROPERTIES NoStuckWork
CHECK_DEADLOCK FALSE

\* Two items, one of which may be tried twice: three claims use up every
\* attempt.  Two workers race; two recovery passes overlap.
CONSTANTS
  i1 = i1
  i2 = i2
  Items = {i1, i2}
  Claims = {c1, c2, c3}
  Workers = {w1, w2}
  Recoverers = {r1, r2}
  Payloads = {p1, p2}
  Leases = {}
  MaxAttempts <- MCMaxAttempts
  None = None
SYMMETRY MCSymmetry
SPECIFICATION Spec
INVARIANTS ClaimDiscipline DeadLettersFaithful TimelyCompletionIsFinal
PROPERTIES RefinesLifecycle
CHECK_DEADLOCK FALSE

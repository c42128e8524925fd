\* Two processes, two projects and two leases; the gateway knows one of two
\* tools; requests fail or processes are killed, twice in all.
CONSTANTS
  Projects = {j1, j2}
  Tools = {t1, t2}
  Bridged = {t1}
  Leases = {l1, l2}
  Procs = {p1, p2}
  MaxFaults = 2
  None = None
SPECIFICATION FairSpec
INVARIANTS ExposureHasLease
PROPERTIES ProfilesLapse
CHECK_DEADLOCK FALSE

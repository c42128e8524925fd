----------------------------- MODULE MCRunStart -----------------------------
EXTENDS RunStart

CONSTANTS p1, p2

\* One process goes on with the run, the other stops it, alone or meanwhile.
MCCommands ==
  [p \in Procs |-> IF p = p1 THEN {"start", "resume", "approve", "reject"}
                             ELSE {"cancel", "reconcile"}]

\* One project with a repository and a place for a worktree, which is empty,
\* or holds another repository.
MCEnrolled == [x \in Paths |-> "geocode"]
MCNames == [x \in Paths |-> "geocode"]
MCDisks ==
  {[x \in Paths |-> IF x = "r1" THEN CheckoutOf("r1") ELSE second] :
     second \in {Empty, CheckoutOf("w1")}}

\* Processes are killed, or the registry changes under the run, or two commands
\* overlap; but for that every write may fail.
Budget(k, i, o, c, f) == [kills |-> k, inits |-> i, opens |-> o, commands |-> c, faults |-> f]

MCBudgets ==
  {Budget(2, 1, 0, 1, 2), Budget(0, 2, 0, 1, 2), Budget(0, 1, 1, 1, 2), Budget(0, 1, 0, 2, 0)}

\* Work outside the catalogue, with two criteria.
MCRequests ==
  {[milestone |-> "G1", goal |-> <<"prose">>, acceptance |-> <<"text", "text">>,
    profile |-> "medium", override |-> FALSE, taint |-> {}]}
=============================================================================

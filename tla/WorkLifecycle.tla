--------------------------- MODULE WorkLifecycle ---------------------------
(***************************************************************************)
(* What the work queue promises about one submitted piece of work, without *)
(* claims, leases, locks or transactions: it is tried at most MaxAttempts  *)
(* times, it ends done or dead, dead is final, and work completed by the   *)
(* worker whose claim was still live (it is then "settled") is never tried *)
(* again.  The work of a worker that came back too late counts as done     *)
(* too, but a recovery pass may overrule it.                               *)
(***************************************************************************)
EXTENDS Naturals

CONSTANTS Items, MaxAttempts

VARIABLES status, attempts, settled

vars == <<status, attempts, settled>>

Init ==
  /\ status = [i \in Items |-> "absent"]
  /\ attempts = [i \in Items |-> 0]
  /\ settled = {}

Submit(i) ==
  /\ status[i] = "absent"
  /\ status' = [status EXCEPT ![i] = "pending"]
  /\ UNCHANGED <<attempts, settled>>

Take(i) ==
  /\ status[i] = "pending"
  /\ attempts[i] < MaxAttempts[i]
  /\ status' = [status EXCEPT ![i] = "claimed"]
  /\ attempts' = [attempts EXCEPT ![i] = @ + 1]
  /\ UNCHANGED settled

\* The worker with the live claim finishes, possibly after a late one did.
Settle(i) ==
  /\ status[i] \in {"claimed", "done"}
  /\ status' = [status EXCEPT ![i] = "done"]
  /\ settled' = settled \cup {i}
  /\ UNCHANGED attempts

\* A worker whose claim has been taken away finishes.
FinishLate(i) ==
  /\ status[i] = "claimed"
  /\ status' = [status EXCEPT ![i] = "done"]
  /\ UNCHANGED <<attempts, settled>>

\* A recovery pass over the rows S.
Recover(S) ==
  /\ \A i \in S : status[i] \in {"claimed", "done"} /\ i \notin settled
  /\ status' = [i \in Items |->
       IF i \notin S THEN status[i]
       ELSE IF attempts[i] < MaxAttempts[i] THEN "pending" ELSE "dead"]
  /\ UNCHANGED <<attempts, settled>>

Next ==
  \/ \E i \in Items : Submit(i) \/ Take(i) \/ Settle(i) \/ FinishLate(i)
  \/ \E S \in SUBSET Items : Recover(S)

Spec == Init /\ [][Next]_vars

============================================================================

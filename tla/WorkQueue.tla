----------------------------- MODULE WorkQueue -----------------------------
(***************************************************************************)
(* The durable work queue of migration m2.001: the tables work_queue,      *)
(* work_claims, dead_letters and capability_leases, and the functions      *)
(* enqueue_work, claim_work, complete_work, create_capability_lease and    *)
(* recover_expired_work that are the only way to change them.              *)
(*                                                                         *)
(* Each function body is one PostgreSQL transaction at READ COMMITTED.     *)
(* The first four lock what they read before they write it and are one     *)
(* step each.  recover_expired_work reads a set of rows in its FOR loop    *)
(* and updates them one by one, without looking at their status again, so  *)
(* it is modelled statement by statement: what it has written is kept in   *)
(* its own variables until it commits, and the rows it has written are     *)
(* locked against everybody else in between.                               *)
(***************************************************************************)
EXTENDS Naturals, Sequences, FiniteSets

CONSTANTS
  Items,        \* the (project_id, dedupe_key) pairs that may be submitted
  Claims,       \* claim ids; their number bounds the claims of a behaviour
  Workers,      \* processes that call claim_work and complete_work
  Recoverers,   \* database sessions that call recover_expired_work
  Payloads,     \* the payloads a caller of enqueue_work may submit
  Leases,       \* ids of capability leases
  MaxAttempts,  \* max_attempts of each item, fixed by its first submission
  None          \* SQL NULL

ASSUME MaxAttemptsAssumption == MaxAttempts \in [Items -> Nat \ {0}]
ASSUME NoneAssumption == None \notin Items \cup Claims \cup Payloads

VARIABLES
  status,       \* work_queue.status, "absent" before the row exists
  attempts,     \* work_queue.attempts
  payload,      \* work_queue.payload
  order,        \* the rows in the order of created_at
  deadLetter,   \* dead_letters.original_payload of each item, or None
  claimItem,    \* work_claims.work_item_id
  claimStatus,  \* work_claims.status, "unused" before the row exists
  overdue,      \* the claims whose lease_expires_at has passed
  held,         \* what each worker believes it is working on
  leaseStatus,  \* capability_leases.status
  leaseOverdue, \* the leases whose lease_expires_at has passed
  pc,           \* where each recovery transaction is
  due,          \* claims overdue at the transaction's now()
  dueLeases,    \* leases overdue at the transaction's now()
  expiring,     \* claims it has set to 'expired', uncommitted
  todo,         \* rows of the FOR loop not visited yet
  snap,         \* the attempts and payload columns the FOR loop read
  wrote         \* the status it has written to each row, uncommitted

queueVars == <<status, attempts, payload, order, deadLetter>>
claimVars == <<claimItem, claimStatus, overdue>>
leaseVars == <<leaseStatus, leaseOverdue>>
recVars   == <<pc, due, dueLeases, expiring, todo, snap, wrote>>
vars == <<queueVars, claimVars, held, leaseVars, recVars>>

QueueStatus == {"absent", "pending", "claimed", "done", "dead"}
ClaimStatus == {"unused", "active", "released", "expired"}
LeaseStatus == {"unused", "active", "expired"}

\* What a worker keeps of the row claim_work returned.
Holding == [item : Items, claim : Claims]

\* The columns of the loop record r that the loop body uses.
Row == [attempts : Nat, payload : Payloads \cup {None}]

TypeOK ==
  /\ status \in [Items -> QueueStatus]
  /\ attempts \in [Items -> Nat]
  /\ payload \in [Items -> Payloads \cup {None}]
  /\ order \in Seq(Items)
  /\ deadLetter \in [Items -> Payloads \cup {None}]
  /\ claimItem \in [Claims -> Items \cup {None}]
  /\ claimStatus \in [Claims -> ClaimStatus]
  /\ overdue \subseteq Claims
  /\ held \in [Workers -> Holding \cup {None}]
  /\ leaseStatus \in [Leases -> LeaseStatus]
  /\ leaseOverdue \subseteq Leases
  /\ pc \in [Recoverers -> {"idle", "started", "loop"}]
  /\ due \in [Recoverers -> SUBSET Claims]
  /\ dueLeases \in [Recoverers -> SUBSET Leases]
  /\ expiring \in [Recoverers -> SUBSET Claims]
  /\ todo \in [Recoverers -> SUBSET Items]
  /\ snap \in [Recoverers -> [Items -> Row]]
  /\ wrote \in [Recoverers -> [Items -> {"none", "pending", "dead"}]]

----------------------------------------------------------------------------

Active(c) == claimStatus[c] = "active"

\* c is an active claim of item i, as a committed read sees it.
ActiveClaim(c, i) == Active(c) /\ claimItem[c] = i

\* The row locks a recovery transaction holds until it ends.
RowLocked(i) == \E r \in Recoverers : wrote[r][i] # "none"
ClaimLocked(c) == \E r \in Recoverers : c \in expiring[r]

\* ORDER BY created_at: i is the first row of S.
IsOldest(i, S) ==
  \E n \in 1..Len(order) :
    /\ order[n] = i
    /\ i \in S
    /\ \A m \in 1..(n - 1) : order[m] \notin S

NoRow == [attempts |-> 0, payload |-> None]

Init ==
  /\ status = [i \in Items |-> "absent"]
  /\ attempts = [i \in Items |-> 0]
  /\ payload = [i \in Items |-> None]
  /\ order = <<>>
  /\ deadLetter = [i \in Items |-> None]
  /\ claimItem = [c \in Claims |-> None]
  /\ claimStatus = [c \in Claims |-> "unused"]
  /\ overdue = {}
  /\ held = [w \in Workers |-> None]
  /\ leaseStatus = [l \in Leases |-> "unused"]
  /\ leaseOverdue = {}
  /\ pc = [r \in Recoverers |-> "idle"]
  /\ due = [r \in Recoverers |-> {}]
  /\ dueLeases = [r \in Recoverers |-> {}]
  /\ expiring = [r \in Recoverers |-> {}]
  /\ todo = [r \in Recoverers |-> {}]
  /\ snap = [r \in Recoverers |-> [i \in Items |-> NoRow]]
  /\ wrote = [r \in Recoverers |-> [i \in Items |-> "none"]]

----------------------------------------------------------------------------
(* enqueue_work: INSERT ... ON CONFLICT DO UPDATE SET payload WHERE the    *)
(* row is still pending.  A call for a row in any other status returns its *)
(* id and changes nothing.                                                 *)

EnqueueNew(i, p) ==
  /\ status[i] = "absent"
  /\ status' = [status EXCEPT ![i] = "pending"]
  /\ payload' = [payload EXCEPT ![i] = p]
  /\ order' = Append(order, i)
  /\ UNCHANGED <<attempts, deadLetter, claimVars, held, leaseVars, recVars>>

EnqueueAgain(i, p) ==
  /\ status[i] = "pending"
  /\ ~RowLocked(i)
  /\ payload' = [payload EXCEPT ![i] = p]
  /\ UNCHANGED <<status, attempts, order, deadLetter, claimVars, held,
                 leaseVars, recVars>>

(* claim_work: the oldest pending row not locked by another transaction    *)
(* (FOR UPDATE SKIP LOCKED).  The INSERT of the claim raises               *)
(* unique_violation, and nothing changes, if the row still has an active   *)
(* claim (index uq_work_claims_one_active).                                *)

Claimable == {i \in Items : status[i] = "pending" /\ ~RowLocked(i)}

ClaimWork(w, i, c) ==
  /\ held[w] = None
  /\ IsOldest(i, Claimable)
  /\ claimStatus[c] = "unused"
  /\ \A d \in Claims : ~ActiveClaim(d, i)
  /\ status' = [status EXCEPT ![i] = "claimed"]
  /\ attempts' = [attempts EXCEPT ![i] = @ + 1]
  /\ claimItem' = [claimItem EXCEPT ![c] = i]
  /\ claimStatus' = [claimStatus EXCEPT ![c] = "active"]
  /\ held' = [held EXCEPT ![w] = [item |-> i, claim |-> c]]
  /\ UNCHANGED <<payload, order, deadLetter, overdue, leaseVars, recVars>>

(* complete_work(item, claim): two UPDATEs, each with its own WHERE.  The  *)
(* claim is released if it is the item's and active; the item becomes done *)
(* if it is claimed, whoever holds the claim.  An UPDATE waits for a row   *)
(* another transaction has locked.  The worker may repeat the call.        *)

Finish(s) == IF s = "claimed" THEN "done" ELSE s

CompleteWork(w) ==
  LET i == held[w].item
      c == held[w].claim
  IN /\ held[w] # None
     /\ ~ClaimLocked(c)
     /\ ~RowLocked(i)
     /\ claimStatus' = [claimStatus EXCEPT ![c] =
                          IF ActiveClaim(c, i) THEN "released" ELSE @]
     /\ status' = [status EXCEPT ![i] = Finish(@)]
     /\ UNCHANGED <<attempts, payload, order, deadLetter, claimItem, overdue,
                    held, leaseVars, recVars>>

\* A worker crashes, or goes on to other work.
Forget(w) ==
  /\ held[w] # None
  /\ held' = [held EXCEPT ![w] = None]
  /\ UNCHANGED <<queueVars, claimVars, leaseVars, recVars>>

\* create_capability_lease.
CreateLease(l) ==
  /\ leaseStatus[l] = "unused"
  /\ leaseStatus' = [leaseStatus EXCEPT ![l] = "active"]
  /\ UNCHANGED <<queueVars, claimVars, held, leaseOverdue, recVars>>

\* The clock passes lease_expires_at of a claim or of a capability lease.
ClaimRunsOut(c) ==
  /\ Active(c)
  /\ c \notin overdue
  /\ overdue' = overdue \cup {c}
  /\ UNCHANGED <<queueVars, claimItem, claimStatus, held, leaseVars, recVars>>

LeaseRunsOut(l) ==
  /\ leaseStatus[l] = "active"
  /\ l \notin leaseOverdue
  /\ leaseOverdue' = leaseOverdue \cup {l}
  /\ UNCHANGED <<queueVars, claimVars, held, leaseStatus, recVars>>

----------------------------------------------------------------------------
(* recover_expired_work, statement by statement.                           *)

\* The active claims whose lease is over at this moment.
LapsedSwapped == {c \in Claims \ overdue : Active(c)}
Lapsed == {c \in overdue : Active(c)}

\* BEGIN: now() is fixed here for the whole transaction.
RecoverStart(r) ==
  /\ pc[r] = "idle"
  /\ pc' = [pc EXCEPT ![r] = "started"]
  /\ due' = [due EXCEPT ![r] = Lapsed]
  /\ dueLeases' = [dueLeases EXCEPT ![r] =
                     {l \in leaseOverdue : leaseStatus[l] = "active"}]
  /\ UNCHANGED <<queueVars, claimVars, held, leaseVars,
                 expiring, todo, snap, wrote>>

\* The rows the FOR loop reads: claimed, with no active claim but those
\* this transaction has just expired.
OrphanedBeforeExpiry(S) == {i \in Items : /\ status[i] = "claimed"
                                          /\ \A c \in Claims : ~ActiveClaim(c, i)}
OrphanedUnchecked(S) == {i \in Items : status[i] = "claimed"}
Orphaned(S) == {i \in Items : /\ status[i] = "claimed"
                              /\ \A c \in Claims : ActiveClaim(c, i) => c \in S}

\* The UPDATE of the overdue claims, which waits for those another recovery
\* has locked, and the query of the FOR loop.
RecoverScan(r) ==
  LET S == {c \in due[r] : Active(c)}
  IN /\ pc[r] = "started"
     /\ \A c \in S : ~ClaimLocked(c)
     /\ pc' = [pc EXCEPT ![r] = "loop"]
     /\ expiring' = [expiring EXCEPT ![r] = S]
     /\ todo' = [todo EXCEPT ![r] = Orphaned(S)]
     /\ snap' = [snap EXCEPT ![r] =
          [i \in Items |-> [attempts |-> attempts[i], payload |-> payload[i]]]]
     /\ UNCHANGED <<queueVars, claimVars, held, leaseVars, due, dueLeases, wrote>>

\* max_attempts decides between the dead letter table and another try.
VerdictTooLate(r, i) ==
  IF snap[r][i].attempts > MaxAttempts[i] THEN "dead" ELSE "pending"
Verdict(r, i) ==
  IF snap[r][i].attempts >= MaxAttempts[i] THEN "dead" ELSE "pending"

\* One turn of the loop: UPDATE work_queue ... WHERE id = r.id.
RecoverRow(r, i) ==
  /\ pc[r] = "loop"
  /\ IsOldest(i, todo[r])
  /\ ~RowLocked(i)
  /\ wrote' = [wrote EXCEPT ![r][i] = Verdict(r, i)]
  /\ todo' = [todo EXCEPT ![r] = @ \ {i}]
  /\ UNCHANGED <<queueVars, claimVars, held, leaseVars,
                 pc, due, dueLeases, expiring, snap>>

\* The end of a transaction drops its locks and what it remembers.
EndRecovery(r) ==
  /\ pc' = [pc EXCEPT ![r] = "idle"]
  /\ due' = [due EXCEPT ![r] = {}]
  /\ dueLeases' = [dueLeases EXCEPT ![r] = {}]
  /\ expiring' = [expiring EXCEPT ![r] = {}]
  /\ todo' = [todo EXCEPT ![r] = {}]
  /\ snap' = [snap EXCEPT ![r] = [i \in Items |-> NoRow]]
  /\ wrote' = [wrote EXCEPT ![r] = [i \in Items |-> "none"]]

\* The status and the dead letter of row i once r has committed.
Committed(r, i) == IF wrote[r][i] = "none" THEN status[i] ELSE wrote[r][i]

LetterForEveryRow(r, i) ==
  IF wrote[r][i] # "none" /\ deadLetter[i] = None
  THEN snap[r][i].payload ELSE deadLetter[i]
LetterOf(r, i) ==
  IF wrote[r][i] = "dead" /\ deadLetter[i] = None
  THEN snap[r][i].payload ELSE deadLetter[i]

\* The UPDATE of the capability leases, and COMMIT.
RecoverCommit(r) ==
  /\ pc[r] = "loop"
  /\ todo[r] = {}
  /\ claimStatus' = [c \in Claims |->
       IF c \in expiring[r] THEN "expired" ELSE claimStatus[c]]
  /\ status' = [i \in Items |-> Committed(r, i)]
  /\ deadLetter' = [i \in Items |-> LetterOf(r, i)]
  /\ leaseStatus' = [l \in Leases |->
       IF l \in dueLeases[r] /\ leaseStatus[l] = "active"
       THEN "expired" ELSE leaseStatus[l]]
  /\ EndRecovery(r)
  /\ UNCHANGED <<attempts, payload, order, claimItem, overdue, held, leaseOverdue>>

\* The server stops or the connection drops: the transaction rolls back.
RecoverAbort(r) ==
  /\ pc[r] # "idle"
  /\ EndRecovery(r)
  /\ UNCHANGED <<queueVars, claimVars, held, leaseVars>>

----------------------------------------------------------------------------

Enqueue == \E i \in Items, p \in Payloads : EnqueueNew(i, p) \/ EnqueueAgain(i, p)
Claim   == \E w \in Workers, i \in Items, c \in Claims : ClaimWork(w, i, c)
Recover(r) == \/ RecoverStart(r)
              \/ RecoverScan(r)
              \/ \E i \in Items : RecoverRow(r, i)
              \/ RecoverCommit(r)

Next ==
  \/ Enqueue
  \/ Claim
  \/ \E w \in Workers : CompleteWork(w) \/ Forget(w)
  \/ \E c \in Claims : ClaimRunsOut(c)
  \/ \E l \in Leases : CreateLease(l) \/ LeaseRunsOut(l)
  \/ \E r \in Recoverers : Recover(r) \/ RecoverAbort(r)

Spec == Init /\ [][Next]_vars

(* Time passes; workers come back for more; somebody runs recovery again   *)
(* and again, and though the server may stop under it any number of times, *)
(* it does not always do so at the same statement.                         *)
Fairness ==
  /\ WF_vars(Claim)
  /\ \A w \in Workers : WF_vars(Forget(w))
  /\ \A c \in Claims : WF_vars(ClaimRunsOut(c))
  /\ \A r \in Recoverers :
       /\ WF_vars(RecoverStart(r))
       /\ SF_vars(RecoverScan(r))
       /\ \A i \in Items : SF_vars(RecoverRow(r, i))
       /\ SF_vars(RecoverCommit(r))

FairSpec == Spec /\ Fairness

----------------------------------------------------------------------------
(* What the queue keeps true.                                              *)

\* An item has at most one active claim, a claimed item has one, and an item
\* waiting to be claimed has none: the unique index never makes claim_work
\* fail on the oldest row, which would block every row behind it.
ClaimDiscipline ==
  /\ \A c, d \in Claims :
       Active(c) /\ Active(d) /\ claimItem[c] = claimItem[d] => c = d
  /\ \A c \in Claims : claimStatus[c] # "unused" => claimItem[c] \in Items
  /\ \A i \in Items :
       /\ status[i] = "claimed" => \E c \in Claims : ActiveClaim(c, i)
       /\ status[i] \in {"absent", "pending", "dead"} =>
            \A c \in Claims : ~ActiveClaim(c, i)

\* No item is tried more than max_attempts times, and one that has used up
\* its attempts is not offered again, whatever the recovery pass read.
AttemptsBounded ==
  \A i \in Items :
    /\ attempts[i] <= MaxAttempts[i]
    /\ status[i] \in {"absent", "pending"} => attempts[i] < MaxAttempts[i]

\* The items in the dead letter table are the dead ones, each with the
\* payload its last worker was given, though recover_expired_work copies the
\* payload from rows it read earlier.
DeadLettersFaithful ==
  \A i \in Items :
    /\ status[i] = "dead" => deadLetter[i] = payload[i]
    /\ deadLetter[i] # None => status[i] = "dead"

\* Work completed by the worker that held the active claim stays done: no
\* recovery pass, however it overlaps with complete_work, offers it again or
\* moves it to the dead letters.
TimelyCompletionIsFinal ==
  \A c \in Claims : claimStatus[c] = "released" => status[claimItem[c]] = "done"

\* What a recovery pass may rely on between two of its statements.
Owns(r, i) ==
  /\ pc[r] = "loop"
  /\ status[i] \in {"claimed", "done"}
  /\ \E c \in Claims : ActiveClaim(c, i)
  /\ \A c \in Claims : ActiveClaim(c, i) => c \in expiring[r]
  /\ \A c \in Claims : claimStatus[c] = "released" => claimItem[c] # i
  /\ snap[r][i].attempts = attempts[i] /\ snap[r][i].payload = payload[i]
  /\ deadLetter[i] = None
  /\ wrote[r][i] \in {"none", Verdict(r, i)}

\* The UPDATE of a recovery pass that does not look at the row again: a row it
\* has read or written is still claimed, or done by a worker that came late;
\* nobody has completed it in time; every active claim of it is one the pass
\* has locked; and the columns it read are the current ones.
RecoveryOwnsItsRows ==
  \A r \in Recoverers, i \in Items :
    i \in todo[r] \/ wrote[r][i] # "none" => Owns(r, i)

\* The claims two recovery passes have locked are different, still active, and
\* each belongs to a row its pass is working on unless that row is done: when
\* the pass commits, no claimed row is left without an active claim.
LocksAreOwned ==
  \A r \in Recoverers :
    /\ pc[r] # "loop" => expiring[r] = {}
    /\ \A q \in Recoverers \ {r} : expiring[r] \cap expiring[q] = {}
    /\ \A c \in expiring[r] :
         /\ Active(c)
         /\ status[claimItem[c]] = "claimed" =>
              \/ claimItem[c] \in todo[r]
              \/ wrote[r][claimItem[c]] # "none"

\* The durable queue has no permanently stuck work: under Fairness every
\* submitted item is done or dead for good, whichever workers crash.
NoStuckWork ==
  \A i \in Items : status[i] # "absent" ~> [](status[i] \in {"done", "dead"})

\* The queue as a whole implements the life of its items.
Lifecycle == INSTANCE WorkLifecycle WITH
  settled <- {i \in Items : \E c \in Claims :
                claimItem[c] = i /\ claimStatus[c] = "released"}

\* Whatever workers and recovery passes overlap, each item goes through the
\* life of WorkLifecycle: every step of the queue is a step of it, or none.
RefinesLifecycle == Lifecycle!Spec

============================================================================

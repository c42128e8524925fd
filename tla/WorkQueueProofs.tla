-------------------------- MODULE WorkQueueProofs --------------------------
(***************************************************************************)
(* Proofs that the work queue keeps its invariants for every set of items, *)
(* claims, workers and recovery sessions, however their steps interleave.  *)
(***************************************************************************)
EXTENDS WorkQueue, TLAPS

(***************************************************************************)
(* The type invariant.                                                     *)
(***************************************************************************)

\* EndRecovery leaves the recovery variables with their types.
LEMMA EndRecoveryType ==
  ASSUME TypeOK, NEW r \in Recoverers, EndRecovery(r)
  PROVE  /\ pc' \in [Recoverers -> {"idle", "started", "loop"}]
         /\ due' \in [Recoverers -> SUBSET Claims]
         /\ dueLeases' \in [Recoverers -> SUBSET Leases]
         /\ expiring' \in [Recoverers -> SUBSET Claims]
         /\ todo' \in [Recoverers -> SUBSET Items]
         /\ snap' \in [Recoverers -> [Items -> Row]]
         /\ wrote' \in [Recoverers -> [Items -> {"none", "pending", "dead"}]]
  BY DEF TypeOK, EndRecovery, NoRow, Row

\* The type invariant is preserved by every step.
LEMMA TypeStep ==
  ASSUME TypeOK, [Next]_vars
  PROVE  TypeOK'
<1> USE DEF TypeOK
<1>1. CASE Enqueue
  <2>1. PICK i \in Items, p \in Payloads : EnqueueNew(i, p) \/ EnqueueAgain(i, p)
    BY <1>1 DEF Enqueue
  <2>2. CASE EnqueueNew(i, p)
    BY <2>2 DEF EnqueueNew, QueueStatus, claimVars, leaseVars, recVars
  <2>3. CASE EnqueueAgain(i, p)
    BY <2>3 DEF EnqueueAgain, claimVars, leaseVars, recVars
  <2> QED BY <2>1, <2>2, <2>3
<1>2. CASE Claim
  BY <1>2 DEF Claim, ClaimWork, QueueStatus, ClaimStatus, Holding, leaseVars, recVars
<1>3. ASSUME NEW w \in Workers, CompleteWork(w)
      PROVE  TypeOK'
  BY <1>3 DEF CompleteWork, Finish, QueueStatus, ClaimStatus, leaseVars, recVars
<1>4. ASSUME NEW w \in Workers, Forget(w)
      PROVE  TypeOK'
  BY <1>4 DEF Forget, queueVars, claimVars, leaseVars, recVars
<1>5. ASSUME NEW c \in Claims, ClaimRunsOut(c)
      PROVE  TypeOK'
  BY <1>5 DEF ClaimRunsOut, queueVars, leaseVars, recVars
<1>6. ASSUME NEW l \in Leases, CreateLease(l) \/ LeaseRunsOut(l)
      PROVE  TypeOK'
  BY <1>6 DEF CreateLease, LeaseRunsOut, LeaseStatus, queueVars, claimVars, recVars
<1>7. ASSUME NEW r \in Recoverers, RecoverStart(r)
      PROVE  TypeOK'
  BY <1>7 DEF RecoverStart, Lapsed, queueVars, claimVars, leaseVars
<1>8. ASSUME NEW r \in Recoverers, RecoverScan(r)
      PROVE  TypeOK'
  BY <1>8 DEF RecoverScan, Orphaned, Row, queueVars, claimVars, leaseVars
<1>9. ASSUME NEW r \in Recoverers, NEW i \in Items, RecoverRow(r, i)
      PROVE  TypeOK'
  BY <1>9 DEF RecoverRow, Verdict, queueVars, claimVars, leaseVars
<1>10. ASSUME NEW r \in Recoverers, RecoverCommit(r)
       PROVE  TypeOK'
  <2>1. \A i \in Items : snap[r][i].payload \in Payloads \cup {None}
    BY DEF Row
  <2> QED
    BY <1>10, <2>1, EndRecoveryType DEF RecoverCommit, Committed, LetterOf, QueueStatus, ClaimStatus, LeaseStatus
<1>11. ASSUME NEW r \in Recoverers, RecoverAbort(r)
       PROVE  TypeOK'
  BY <1>11, EndRecoveryType DEF RecoverAbort, queueVars, claimVars, leaseVars
<1>12. CASE UNCHANGED vars
  BY <1>12 DEF vars, queueVars, claimVars, leaseVars, recVars
<1> QED
  BY <1>1, <1>2, <1>3, <1>4, <1>5, <1>6, <1>7, <1>8, <1>9, <1>10, <1>11, <1>12
  DEF Next, Recover

\* The variables of the queue keep their types, whoever calls what.
THEOREM TypeCorrect == Spec => []TypeOK
<1>1. Init => TypeOK
  BY DEF Init, TypeOK, QueueStatus, ClaimStatus, LeaseStatus, NoRow, Row
<1>2. TypeOK /\ [Next]_vars => TypeOK'
  BY TypeStep
<1> QED
  BY <1>1, <1>2, PTL DEF Spec

----------------------------------------------------------------------------
(***************************************************************************)
(* The safety invariants.  None is inductive alone: a recovery pass writes *)
(* what it decided from rows it read several steps earlier, so the         *)
(* invariants of the committed tables rest on what the pass still owns     *)
(* (RecoveryOwnsItsRows, LocksAreOwned), and the other way round.          *)
(***************************************************************************)

QueueInv ==
  /\ TypeOK
  /\ ClaimDiscipline
  /\ AttemptsBounded
  /\ DeadLettersFaithful
  /\ TimelyCompletionIsFinal
  /\ RecoveryOwnsItsRows
  /\ LocksAreOwned

\* Initially there are no rows and no claims.
LEMMA QueueInit == Init => QueueInv
<1> SUFFICES ASSUME Init PROVE QueueInv
  OBVIOUS
<1>1. TypeOK
  BY DEF Init, TypeOK, QueueStatus, ClaimStatus, LeaseStatus, NoRow, Row
<1>2. ClaimDiscipline /\ TimelyCompletionIsFinal /\ LocksAreOwned
  BY DEF Init, ClaimDiscipline, TimelyCompletionIsFinal, LocksAreOwned, Active, ActiveClaim
<1>3. AttemptsBounded /\ DeadLettersFaithful
  BY MaxAttemptsAssumption, NoneAssumption DEF Init, AttemptsBounded, DeadLettersFaithful
<1>4. RecoveryOwnsItsRows
  BY DEF Init, RecoveryOwnsItsRows
<1> QED BY <1>1, <1>2, <1>3, <1>4 DEF QueueInv

\* The steps that leave the rows of the queue, the claims and the recovery
\* passes alone, or only move the clock, cannot disturb any conjunct.
LEMMA QuietStep ==
  ASSUME QueueInv, TypeOK',
         UNCHANGED <<queueVars, claimItem, claimStatus, expiring, todo, snap, wrote>>,
         \A r \in Recoverers : pc'[r] = "loop" <=> pc[r] = "loop"
  PROVE  QueueInv'
<1> USE DEF QueueInv, queueVars, TypeOK
<1>1. ClaimDiscipline' /\ TimelyCompletionIsFinal' /\ LocksAreOwned'
  BY DEF ClaimDiscipline, TimelyCompletionIsFinal, LocksAreOwned, Active, ActiveClaim
<1>2. AttemptsBounded' /\ DeadLettersFaithful'
  BY DEF AttemptsBounded, DeadLettersFaithful
<1>3. RecoveryOwnsItsRows'
  BY DEF RecoveryOwnsItsRows, Owns, ActiveClaim, Active, Verdict
<1> QED BY <1>1, <1>2, <1>3

\* enqueue_work: the row is absent or pending, so no recovery pass has it.
LEMMA EnqueueStep ==
  ASSUME QueueInv, TypeOK', NEW i \in Items, NEW p \in Payloads,
         EnqueueNew(i, p) \/ EnqueueAgain(i, p)
  PROVE  QueueInv'
<1> USE DEF QueueInv, TypeOK
<1>0. /\ UNCHANGED <<attempts, deadLetter, claimItem, claimStatus, pc, expiring, todo, snap, wrote>>
      /\ status[i] \in {"absent", "pending"}
      /\ status' \in {status, [status EXCEPT ![i] = "pending"]}
      /\ payload' = [payload EXCEPT ![i] = p]
  BY DEF EnqueueNew, EnqueueAgain, claimVars, recVars
<1>1. /\ \A j \in Items : j # i => status'[j] = status[j] /\ payload'[j] = payload[j]
      /\ status'[i] \in {"absent", "pending"}
  BY <1>0
<1>2. ClaimDiscipline' /\ TimelyCompletionIsFinal' /\ LocksAreOwned'
  BY <1>0, <1>1 DEF ClaimDiscipline, TimelyCompletionIsFinal, LocksAreOwned, Active, ActiveClaim
<1>3. AttemptsBounded' /\ DeadLettersFaithful'
  BY <1>0, <1>1 DEF AttemptsBounded, DeadLettersFaithful
<1>4. RecoveryOwnsItsRows'
  <2> SUFFICES ASSUME NEW r \in Recoverers, NEW j \in Items,
                      j \in todo[r] \/ wrote[r][j] # "none"
               PROVE  Owns(r, j)'
    BY <1>0 DEF RecoveryOwnsItsRows
  <2>1. Owns(r, j) /\ j # i
    BY <1>0 DEF RecoveryOwnsItsRows, Owns
  <2> QED BY <1>0, <1>1, <2>1 DEF Owns, Verdict, ActiveClaim, Active
<1> QED BY <1>2, <1>3, <1>4

\* claim_work: the item was pending, so no claim of it was active and no
\* recovery pass had it.
LEMMA ClaimStep ==
  ASSUME QueueInv, TypeOK', NEW w \in Workers, NEW i \in Items, NEW c \in Claims,
         ClaimWork(w, i, c)
  PROVE  QueueInv'
<1> USE DEF QueueInv, TypeOK
<1>0. /\ status[i] = "pending" /\ claimStatus[c] = "unused"
      /\ \A d \in Claims : ~ActiveClaim(d, i)
  BY DEF ClaimWork, IsOldest, Claimable
<1>1. /\ status' = [status EXCEPT ![i] = "claimed"]
      /\ attempts' = [attempts EXCEPT ![i] = @ + 1]
      /\ claimItem' = [claimItem EXCEPT ![c] = i]
      /\ claimStatus' = [claimStatus EXCEPT ![c] = "active"]
      /\ UNCHANGED <<payload, deadLetter, pc, expiring, todo, snap, wrote>>
  BY DEF ClaimWork, recVars
<1>2. /\ claimItem'[c] = i /\ claimStatus'[c] = "active"
      /\ \A d \in Claims : d # c =>
           claimItem'[d] = claimItem[d] /\ claimStatus'[d] = claimStatus[d]
      /\ status'[i] = "claimed" /\ attempts'[i] = attempts[i] + 1
      /\ \A j \in Items : j # i => status'[j] = status[j] /\ attempts'[j] = attempts[j]
  BY <1>1
<1>3. ClaimDiscipline'
  <2>1. ActiveClaim(c, i)' /\ \A j \in Items : j # i => ~ActiveClaim(c, j)'
    BY <1>2 DEF ActiveClaim, Active
  <2>2. \A d \in Claims, j \in Items : d # c => (ActiveClaim(d, j)' <=> ActiveClaim(d, j))
    BY <1>2 DEF ActiveClaim, Active
  <2>3. \A d \in Claims : d # c /\ Active(d)' => Active(d) /\ claimItem'[d] # i
    BY <1>0, <1>2 DEF ActiveClaim, Active
  <2>4. ASSUME NEW d \in Claims, NEW e \in Claims,
               Active(d)', Active(e)', claimItem'[d] = claimItem'[e]
        PROVE  d = e
    <3>1. d # c /\ e # c => d = e
      BY <1>2, <2>3, <2>4 DEF ClaimDiscipline
    <3>2. d = c \/ e = c => d = e
      BY <1>2, <2>3, <2>4
    <3> QED BY <3>1, <3>2
  <2>5. \A d \in Claims : claimStatus'[d] # "unused" => claimItem'[d] \in Items
    BY <1>2 DEF ClaimDiscipline
  <2>6. \A j \in Items : ~ActiveClaim(c, j)
    BY <1>0 DEF ActiveClaim, Active
  <2>7. \A j \in Items :
          /\ status'[j] = "claimed" => \E d \in Claims : ActiveClaim(d, j)'
          /\ status'[j] \in {"absent", "pending", "dead"} =>
               \A d \in Claims : ~ActiveClaim(d, j)'
    <3> TAKE j \in Items
    <3>1. CASE j = i
      BY <1>2, <2>1, <3>1
    <3>2. CASE j # i
      <4>1. \A d \in Claims : ActiveClaim(d, j)' <=> ActiveClaim(d, j)
        BY <2>1, <2>2, <2>6, <3>2
      <4> QED BY <1>2, <3>2, <4>1 DEF ClaimDiscipline
    <3> QED BY <3>1, <3>2
  <2> QED BY <2>4, <2>5, <2>7 DEF ClaimDiscipline
<1>4. TimelyCompletionIsFinal'
  <2>1. \A d \in Claims : claimStatus'[d] = "released" =>
          d # c /\ claimStatus[d] = "released" /\ claimItem[d] \in Items \ {i}
    BY <1>0, <1>2 DEF TimelyCompletionIsFinal, ClaimDiscipline
  <2> QED BY <1>2, <2>1 DEF TimelyCompletionIsFinal
<1>5. LocksAreOwned'
  <2>1. \A r \in Recoverers : \A d \in expiring[r] :
          d # c /\ Active(d) /\ claimItem[d] \in Items /\ claimItem[d] # i
    BY <1>0 DEF LocksAreOwned, ClaimDiscipline, Active, ActiveClaim
  <2>2. \A r \in Recoverers : \A d \in expiring[r] :
          /\ Active(d)' /\ claimItem'[d] = claimItem[d]
          /\ status'[claimItem[d]] = status[claimItem[d]]
    BY <1>2, <2>1 DEF Active
  <2> SUFFICES ASSUME NEW r \in Recoverers
               PROVE  /\ pc[r] # "loop" => expiring[r] = {}
                      /\ \A q \in Recoverers \ {r} : expiring[r] \cap expiring[q] = {}
                      /\ \A d \in expiring[r] :
                           /\ Active(d)'
                           /\ status'[claimItem'[d]] = "claimed" =>
                                \/ claimItem'[d] \in todo[r]
                                \/ wrote[r][claimItem'[d]] # "none"
    BY <1>1 DEF LocksAreOwned
  <2> QED BY <2>2 DEF LocksAreOwned
<1>6. AttemptsBounded'
  <2>1. \A j \in Items : attempts[j] \in Nat /\ MaxAttempts[j] \in Nat
    BY MaxAttemptsAssumption
  <2>2. attempts'[i] <= MaxAttempts[i]
    BY <1>0, <1>2, <2>1 DEF AttemptsBounded
  <2>3. \A j \in Items : j # i =>
          /\ attempts'[j] <= MaxAttempts[j]
          /\ status'[j] \in {"absent", "pending"} => attempts'[j] < MaxAttempts[j]
    BY <1>2 DEF AttemptsBounded
  <2> QED BY <1>2, <2>2, <2>3 DEF AttemptsBounded
<1>7. DeadLettersFaithful'
  BY <1>0, <1>1, <1>2 DEF DeadLettersFaithful
<1>8. RecoveryOwnsItsRows'
  <2> SUFFICES ASSUME NEW r \in Recoverers, NEW j \in Items,
                      j \in todo[r] \/ wrote[r][j] # "none"
               PROVE  Owns(r, j)'
    BY <1>1 DEF RecoveryOwnsItsRows
  <2>1. Owns(r, j) /\ j # i
    BY <1>0 DEF RecoveryOwnsItsRows, Owns
  <2>2. \A d \in Claims : /\ ActiveClaim(d, j)' <=> ActiveClaim(d, j)
                          /\ claimStatus'[d] = "released" =>
                               claimStatus[d] = "released" /\ claimItem'[d] = claimItem[d]
    BY <1>0, <1>2, <2>1 DEF ActiveClaim, Active
  <2> QED BY <1>1, <1>2, <2>1, <2>2 DEF Owns, Verdict
<1> QED BY <1>3, <1>4, <1>5, <1>6, <1>7, <1>8

\* complete_work, by the holder of the active claim or by a late worker.
LEMMA CompleteStep ==
  ASSUME QueueInv, TypeOK', NEW w \in Workers, CompleteWork(w)
  PROVE  QueueInv'
<1> USE DEF QueueInv, TypeOK
<1>0. PICK i \in Items, c \in Claims : held[w] = [item |-> i, claim |-> c]
  BY DEF Holding, CompleteWork, Finish
<1>1. /\ \A r \in Recoverers : c \notin expiring[r] /\ wrote[r][i] = "none"
      /\ UNCHANGED <<attempts, payload, deadLetter, claimItem, recVars>>
  BY <1>0 DEF ClaimLocked, RowLocked, CompleteWork, Finish
<1>2. \A d \in Claims :
        claimStatus'[d] = IF d = c /\ ActiveClaim(c, i) THEN "released" ELSE claimStatus[d]
  BY <1>0 DEF CompleteWork, Finish
<1>3. \A j \in Items :
        status'[j] = IF j = i /\ status[j] = "claimed" THEN "done" ELSE status[j]
  BY <1>0 DEF CompleteWork, Finish
<1>4. ClaimDiscipline'
  <2>1. \A d \in Claims : /\ Active(d)' => Active(d)
                          /\ Active(d) /\ ~Active(d)' => d = c /\ claimItem[c] = i
                          /\ claimStatus'[d] # "unused" => claimStatus[d] # "unused"
    BY <1>2 DEF Active, ActiveClaim
  <2>2. claimItem' = claimItem /\ \A j \in Items :
          /\ status'[j] = "claimed" => status[j] = "claimed" /\ j # i
          /\ status'[j] \in {"absent", "pending", "dead"} => status[j] = status'[j]
    BY <1>1, <1>3
  <2>3. \A j \in Items, d \in Claims :
          /\ ActiveClaim(d, j)' => ActiveClaim(d, j)
          /\ j # i /\ ActiveClaim(d, j) => ActiveClaim(d, j)'
    BY <2>1, <2>2 DEF ActiveClaim
  <2> QED BY <2>1, <2>2, <2>3 DEF ClaimDiscipline
<1>5. TimelyCompletionIsFinal'
  <2>1. \A d \in Claims : claimStatus'[d] = "released" =>
          \/ claimStatus[d] = "released"
          \/ claimItem[d] = i /\ ActiveClaim(c, i)
    BY <1>2 DEF ActiveClaim
  <2>2. ActiveClaim(c, i) => status'[i] = "done"
    BY <1>3 DEF ClaimDiscipline, QueueStatus
  <2>3. \A d \in Claims : claimStatus[d] = "released" =>
          claimItem[d] \in Items /\ status[claimItem[d]] = "done"
    BY DEF ClaimDiscipline, TimelyCompletionIsFinal
  <2> QED
    BY <1>1, <1>3, <2>1, <2>2, <2>3 DEF TimelyCompletionIsFinal
<1>6. LocksAreOwned'
  BY <1>1, <1>2, <1>3 DEF LocksAreOwned, ClaimDiscipline, Active, recVars
<1>7. AttemptsBounded' /\ DeadLettersFaithful'
  BY <1>1, <1>3 DEF AttemptsBounded, DeadLettersFaithful
<1>8. RecoveryOwnsItsRows'
  <2> SUFFICES ASSUME NEW r \in Recoverers, NEW j \in Items,
                      j \in todo[r] \/ wrote[r][j] # "none"
               PROVE  Owns(r, j)'
    BY <1>1 DEF RecoveryOwnsItsRows, recVars
  <2>1. Owns(r, j)
    BY DEF RecoveryOwnsItsRows
  <2>2. c \notin expiring[r] /\ ~ActiveClaim(c, j)
    BY <1>1, <2>1 DEF Owns
  <2>3. \A d \in Claims : /\ ActiveClaim(d, j)' <=> ActiveClaim(d, j)
                          /\ (claimStatus'[d] = "released" /\ claimItem[d] = j) =>
                               claimStatus[d] = "released"
    BY <1>1, <1>2, <2>2 DEF ActiveClaim, Active
  <2>4. status'[j] \in {"claimed", "done"}
    BY <1>3, <2>1 DEF Owns
  <2> QED BY <1>1, <2>1, <2>3, <2>4 DEF Owns, Verdict, recVars
<1> QED BY <1>4, <1>5, <1>6, <1>7, <1>8

\* The first statements of a recovery pass: it locks the overdue claims, which
\* no other pass has, and reads the rows they leave without a claim.
LEMMA ScanStep ==
  ASSUME QueueInv, TypeOK', NEW r \in Recoverers, RecoverScan(r)
  PROVE  QueueInv'
<1> USE DEF QueueInv, RecoverScan, queueVars, claimVars, TypeOK
<1> DEFINE S == {c \in due[r] : Active(c)}
<1>0. /\ \A q \in Recoverers, c \in S : c \notin expiring[q]
      /\ \A i \in Items : wrote[r][i] = "none"
  BY DEF ClaimLocked, RecoveryOwnsItsRows, Owns
<1>1. ClaimDiscipline' /\ TimelyCompletionIsFinal'
  BY DEF ClaimDiscipline, TimelyCompletionIsFinal, Active, ActiveClaim
<1>2. LocksAreOwned'
  <2>1. \A c \in S : Active(c) /\ claimItem[c] \in Items /\
          (status[claimItem[c]] = "claimed" => claimItem[c] \in Orphaned(S))
    BY DEF ClaimDiscipline, Orphaned, Active, ActiveClaim
  <2> QED BY <1>0, <2>1 DEF LocksAreOwned, Active
<1>3. AttemptsBounded' /\ DeadLettersFaithful'
  BY DEF AttemptsBounded, DeadLettersFaithful
<1>4. RecoveryOwnsItsRows'
  <2> SUFFICES ASSUME NEW q \in Recoverers, NEW i \in Items,
                      i \in todo'[q] \/ wrote'[q][i] # "none"
               PROVE  Owns(q, i)'
    BY DEF RecoveryOwnsItsRows
  <2>1. CASE q = r
    <3>1. i \in Orphaned(S)
      BY <1>0, <2>1
    <3>2. /\ status[i] = "claimed" /\ deadLetter[i] = None
          /\ \E c \in Claims : ActiveClaim(c, i)
          /\ \A c \in Claims : ActiveClaim(c, i) => c \in S
          /\ \A c \in Claims : claimStatus[c] = "released" => claimItem[c] # i
      BY <3>1 DEF Orphaned, ClaimDiscipline, TimelyCompletionIsFinal, DeadLettersFaithful
    <3>3. /\ pc'[r] = "loop" /\ expiring'[r] = S /\ wrote'[r][i] = "none"
          /\ snap'[r][i].attempts = attempts[i] /\ snap'[r][i].payload = payload[i]
      BY <1>0
    <3> QED BY <2>1, <3>2, <3>3 DEF Owns, ActiveClaim, Active
  <2>2. CASE q # r
    <3>1. Owns(q, i)
      BY <2>2 DEF RecoveryOwnsItsRows
    <3>2. /\ pc'[q] = pc[q] /\ expiring'[q] = expiring[q]
          /\ wrote'[q] = wrote[q] /\ snap'[q] = snap[q]
      BY <2>2
    <3> QED BY <3>1, <3>2 DEF Owns, Verdict, ActiveClaim, Active
  <2> QED BY <2>1, <2>2
<1> QED BY <1>1, <1>2, <1>3, <1>4

\* One turn of the loop.
LEMMA RowStep ==
  ASSUME QueueInv, TypeOK', NEW r \in Recoverers, NEW i \in Items, RecoverRow(r, i)
  PROVE  QueueInv'
<1> USE DEF QueueInv, RecoverRow, queueVars, claimVars, TypeOK
<1>0. i \in todo[r] /\ Verdict(r, i) # "none"
  BY DEF IsOldest, Verdict
<1>1. ClaimDiscipline' /\ TimelyCompletionIsFinal'
  BY DEF ClaimDiscipline, TimelyCompletionIsFinal, Active, ActiveClaim
<1>2. LocksAreOwned'
  BY <1>0 DEF LocksAreOwned, Active
<1>3. AttemptsBounded' /\ DeadLettersFaithful'
  BY DEF AttemptsBounded, DeadLettersFaithful
<1>4. RecoveryOwnsItsRows'
  BY <1>0 DEF RecoveryOwnsItsRows, Owns, ActiveClaim, Active, Verdict
<1> QED BY <1>1, <1>2, <1>3, <1>4

\* COMMIT: the rows the pass wrote are those it still owns.
LEMMA CommitStep ==
  ASSUME QueueInv, TypeOK', NEW r \in Recoverers, RecoverCommit(r)
  PROVE  QueueInv'
<1> USE DEF QueueInv, TypeOK
<1> DEFINE W == {i \in Items : wrote[r][i] # "none"}
<1>1. \A i \in W :
        /\ Owns(r, i)
        /\ wrote[r][i] = IF attempts[i] >= MaxAttempts[i] THEN "dead" ELSE "pending"
  BY DEF RecoveryOwnsItsRows, Owns, Verdict
<1>2. \A c \in expiring[r] : Active(c) /\ (status[claimItem[c]] = "claimed" => claimItem[c] \in W)
  BY DEF LocksAreOwned, RecoverCommit, ClaimDiscipline, Active
<1>3. /\ \A c \in Claims :
           claimStatus'[c] = IF c \in expiring[r] THEN "expired" ELSE claimStatus[c]
      /\ \A i \in Items :
           status'[i] = IF i \in W THEN wrote[r][i] ELSE status[i]
      /\ \A i \in Items :
           deadLetter'[i] = IF i \in W /\ wrote[r][i] = "dead" THEN payload[i] ELSE deadLetter[i]
      /\ UNCHANGED <<attempts, payload, claimItem>>
  BY <1>1 DEF RecoverCommit, Committed, LetterOf, Owns
<1>4. \A q \in Recoverers \ {r} :
        /\ pc'[q] = pc[q] /\ expiring'[q] = expiring[q] /\ todo'[q] = todo[q]
        /\ snap'[q] = snap[q] /\ wrote'[q] = wrote[q]
  BY DEF RecoverCommit, EndRecovery
<1>5. pc'[r] = "idle" /\ expiring'[r] = {} /\ todo'[r] = {} /\ \A i \in Items : wrote'[r][i] = "none"
  BY DEF RecoverCommit, EndRecovery
<1>6. ClaimDiscipline'
  <2>1. \A c \in Claims : Active(c)' <=> Active(c) /\ c \notin expiring[r]
    BY <1>3 DEF Active
  <2>2. \A i \in Items : status'[i] = "claimed" => \E c \in Claims : ActiveClaim(c, i)'
    <3> SUFFICES ASSUME NEW i \in Items, status'[i] = "claimed"
                 PROVE  \E c \in Claims : ActiveClaim(c, i)'
      OBVIOUS
    <3>1. i \notin W /\ status[i] = "claimed"
      BY <1>1, <1>3
    <3>2. PICK c \in Claims : ActiveClaim(c, i)
      BY <3>1 DEF ClaimDiscipline
    <3>3. c \notin expiring[r]
      BY <1>2, <3>1, <3>2 DEF ActiveClaim
    <3> QED BY <1>3, <2>1, <3>2, <3>3 DEF ActiveClaim
  <2>3. \A i \in Items, c \in Claims :
          status'[i] \in {"absent", "pending", "dead"} => ~ActiveClaim(c, i)'
    <3> SUFFICES ASSUME NEW i \in Items, NEW c \in Claims, ActiveClaim(c, i),
                        c \notin expiring[r]
                 PROVE  status'[i] \notin {"absent", "pending", "dead"}
      BY <1>3, <2>1 DEF ActiveClaim
    <3>1. i \notin W
      BY <1>1 DEF Owns
    <3> QED BY <1>3, <3>1 DEF ClaimDiscipline
  <2>4. \A c \in Claims : claimStatus'[c] # "unused" => claimItem'[c] \in Items
    BY <1>2, <1>3 DEF ClaimDiscipline, Active
  <2>5. \A c, d \in Claims :
          Active(c)' /\ Active(d)' /\ claimItem'[c] = claimItem'[d] => c = d
    BY <1>3, <2>1 DEF ClaimDiscipline
  <2> QED BY <2>2, <2>3, <2>4, <2>5 DEF ClaimDiscipline
<1>7. TimelyCompletionIsFinal'
  <2>1. \A c \in Claims : claimStatus'[c] = "released" =>
          claimStatus[c] = "released" /\ claimItem[c] \in Items /\ claimItem[c] \notin W
    BY <1>1, <1>3 DEF Owns, ClaimDiscipline
  <2> QED BY <1>3, <2>1 DEF TimelyCompletionIsFinal
<1>8. AttemptsBounded'
  <2>1. \A i \in Items : attempts[i] \in Nat /\ MaxAttempts[i] \in Nat
    BY MaxAttemptsAssumption
  <2> QED BY <1>1, <1>3, <2>1 DEF AttemptsBounded
<1>9. DeadLettersFaithful'
  BY <1>1, <1>3 DEF DeadLettersFaithful, Owns
<1>10. \A q \in Recoverers \ {r}, i \in W : i \notin todo[q] /\ wrote[q][i] = "none"
  BY <1>1 DEF RecoveryOwnsItsRows, LocksAreOwned, Owns
<1>11. LocksAreOwned'
  <2> SUFFICES ASSUME NEW q \in Recoverers
               PROVE  /\ pc'[q] # "loop" => expiring'[q] = {}
                      /\ \A p \in Recoverers \ {q} : expiring'[q] \cap expiring'[p] = {}
                      /\ \A c \in expiring'[q] :
                           /\ Active(c)'
                           /\ status'[claimItem'[c]] = "claimed" =>
                                \/ claimItem'[c] \in todo'[q]
                                \/ wrote'[q][claimItem'[c]] # "none"
    BY DEF LocksAreOwned
  <2>1. CASE q = r
    BY <1>5, <2>1
  <2>2. CASE q # r
    <3>1. \A p \in Recoverers \ {q} : expiring'[q] \cap expiring'[p] = {}
      BY <1>4, <1>5, <2>2 DEF LocksAreOwned
    <3>2. \A c \in expiring[q] : Active(c)' /\ claimItem[c] \in Items
      BY <1>3, <2>2 DEF LocksAreOwned, ClaimDiscipline, Active
    <3>3. \A c \in expiring[q] : status'[claimItem[c]] = "claimed" => status[claimItem[c]] = "claimed"
      BY <1>1, <1>3, <3>2
    <3> QED BY <1>3, <1>4, <2>2, <3>1, <3>2, <3>3 DEF LocksAreOwned
  <2> QED BY <2>1, <2>2
<1>12. RecoveryOwnsItsRows'
  <2> SUFFICES ASSUME NEW q \in Recoverers, NEW i \in Items,
                      i \in todo'[q] \/ wrote'[q][i] # "none"
               PROVE  Owns(q, i)'
    BY DEF RecoveryOwnsItsRows
  <2>1. q # r /\ Owns(q, i) /\ i \notin W
    BY <1>4, <1>5, <1>10 DEF RecoveryOwnsItsRows
  <2>2. \A c \in Claims : ActiveClaim(c, i) => c \notin expiring[r]
    BY <2>1 DEF Owns, LocksAreOwned
  <2>3. \A c \in Claims : ActiveClaim(c, i)' <=> ActiveClaim(c, i)
    BY <1>3, <2>2 DEF ActiveClaim, Active
  <2>4. \A c \in Claims : claimStatus'[c] = "released" => claimStatus[c] = "released"
    BY <1>3
  <2>5. status'[i] = status[i] /\ deadLetter'[i] = deadLetter[i]
    BY <1>3, <2>1
  <2> QED BY <1>3, <1>4, <2>1, <2>3, <2>4, <2>5 DEF Owns, Verdict
<1> QED BY <1>6, <1>7, <1>8, <1>9, <1>11, <1>12

\* ROLLBACK.
LEMMA AbortStep ==
  ASSUME QueueInv, TypeOK', NEW r \in Recoverers, RecoverAbort(r)
  PROVE  QueueInv'
<1> USE DEF QueueInv, RecoverAbort, EndRecovery, queueVars, claimVars, TypeOK
<1>1. ClaimDiscipline' /\ TimelyCompletionIsFinal'
  BY DEF ClaimDiscipline, TimelyCompletionIsFinal, Active, ActiveClaim
<1>2. LocksAreOwned'
  BY DEF LocksAreOwned, Active
<1>3. AttemptsBounded' /\ DeadLettersFaithful'
  BY DEF AttemptsBounded, DeadLettersFaithful
<1>4. RecoveryOwnsItsRows'
  BY DEF RecoveryOwnsItsRows, Owns, ActiveClaim, Active, Verdict
<1> QED BY <1>1, <1>2, <1>3, <1>4

\* Every step of the queue keeps the invariant.
LEMMA QueueStep ==
  ASSUME QueueInv, [Next]_vars
  PROVE  QueueInv'
<1>1. TypeOK'
  BY TypeStep DEF QueueInv
<1>2. CASE Enqueue
  BY <1>1, <1>2, EnqueueStep DEF Enqueue
<1>3. CASE Claim
  BY <1>1, <1>3, ClaimStep DEF Claim
<1>4. ASSUME NEW w \in Workers, CompleteWork(w) PROVE QueueInv'
  BY <1>1, <1>4, CompleteStep
<1>5. ASSUME NEW w \in Workers, Forget(w) PROVE QueueInv'
  BY <1>1, <1>5, QuietStep DEF Forget, claimVars, recVars
<1>6. ASSUME NEW c \in Claims, ClaimRunsOut(c) PROVE QueueInv'
  BY <1>1, <1>6, QuietStep DEF ClaimRunsOut, recVars
<1>7. ASSUME NEW l \in Leases, CreateLease(l) \/ LeaseRunsOut(l) PROVE QueueInv'
  BY <1>1, <1>7, QuietStep DEF CreateLease, LeaseRunsOut, claimVars, recVars
<1>8. ASSUME NEW r \in Recoverers, RecoverStart(r) PROVE QueueInv'
  <2>1. \A q \in Recoverers : pc'[q] = "loop" <=> pc[q] = "loop"
    BY <1>8 DEF RecoverStart, Lapsed, QueueInv, TypeOK
  <2> QED BY <1>1, <1>8, <2>1, QuietStep DEF RecoverStart, Lapsed, claimVars
<1>9. ASSUME NEW r \in Recoverers, RecoverScan(r) PROVE QueueInv'
  BY <1>1, <1>9, ScanStep
<1>10. ASSUME NEW r \in Recoverers, NEW i \in Items, RecoverRow(r, i) PROVE QueueInv'
  BY <1>1, <1>10, RowStep
<1>11. ASSUME NEW r \in Recoverers, RecoverCommit(r) PROVE QueueInv'
  BY <1>1, <1>11, CommitStep
<1>12. ASSUME NEW r \in Recoverers, RecoverAbort(r) PROVE QueueInv'
  BY <1>1, <1>12, AbortStep
<1>13. CASE UNCHANGED vars
  BY <1>1, <1>13, QuietStep DEF vars, claimVars, recVars
<1> QED
  BY <1>2, <1>3, <1>4, <1>5, <1>6, <1>7, <1>8, <1>9, <1>10, <1>11, <1>12, <1>13
  DEF Next, Recover

\* QueueInv holds in every reachable state.
THEOREM QueueInvariant == Spec => []QueueInv
<1>1. QueueInv /\ [Next]_vars => QueueInv'
  BY QueueStep
<1> QED
  BY QueueInit, <1>1, PTL DEF Spec

\* At most one active claim for an item, exactly one while it is claimed, none
\* while it waits: claim_work is never refused by the unique index.
THEOREM ClaimsDisciplined == Spec => []ClaimDiscipline
  BY QueueInvariant, PTL DEF QueueInv

\* Work completed under a live claim is never offered again.
THEOREM TimelyCompletionFinal == Spec => []TimelyCompletionIsFinal
  BY QueueInvariant, PTL DEF QueueInv

\* max_attempts is never exceeded.
THEOREM AttemptsAreBounded == Spec => []AttemptsBounded
  BY QueueInvariant, PTL DEF QueueInv

\* The dead letter table holds exactly the dead items with their payloads.
THEOREM DeadLettersAreFaithful == Spec => []DeadLettersFaithful
  BY QueueInvariant, PTL DEF QueueInv

----------------------------------------------------------------------------
(***************************************************************************)
(* The refinement: each step of the queue is a step of WorkLifecycle for    *)
(* the items and their settled ones, or none of its steps.                  *)
(***************************************************************************)

\* The items that a worker has completed while its claim was live.
Settled == {i \in Items : \E c \in Claims : claimItem[c] = i /\ claimStatus[c] = "released"}

\* An empty queue is an empty life.
LEMMA LifecycleInit == Init => Lifecycle!Init
BY DEF Init, Lifecycle!Init

\* Statements that leave the rows and the released claims alone do not show.
LEMMA LifecycleStutters ==
  ASSUME UNCHANGED <<status, attempts, claimItem, claimStatus>>
  PROVE  UNCHANGED Lifecycle!vars
BY DEF Lifecycle!vars

\* enqueue_work submits the item, or changes a payload, of which the life says
\* nothing.
LEMMA EnqueueIsSubmit ==
  ASSUME NEW i \in Items, NEW p \in Payloads, EnqueueNew(i, p) \/ EnqueueAgain(i, p)
  PROVE  [Lifecycle!Next]_Lifecycle!vars
<1>1. CASE EnqueueNew(i, p)
  <2>1. Lifecycle!Submit(i)
    BY <1>1 DEF EnqueueNew, Lifecycle!Submit, claimVars
  <2> QED BY <2>1 DEF Lifecycle!Next
<1>2. CASE EnqueueAgain(i, p)
  BY <1>2, LifecycleStutters DEF EnqueueAgain, claimVars
<1> QED BY <1>1, <1>2

\* claim_work takes an item that has an attempt left; the claim is a new one.
LEMMA ClaimIsTake ==
  ASSUME QueueInv, NEW w \in Workers, NEW i \in Items, NEW c \in Claims, ClaimWork(w, i, c)
  PROVE  [Lifecycle!Next]_Lifecycle!vars
<1>1. status[i] = "pending" /\ claimStatus[c] = "unused" /\ attempts[i] < MaxAttempts[i]
  BY DEF ClaimWork, IsOldest, Claimable, QueueInv, AttemptsBounded
<1>2. \A d \in Claims : d # c =>
        claimItem'[d] = claimItem[d] /\ claimStatus'[d] = claimStatus[d]
  BY DEF ClaimWork, QueueInv, TypeOK
<1>3. claimStatus'[c] = "active"
  BY DEF ClaimWork, QueueInv, TypeOK
<1>4. Settled' = Settled
  BY <1>1, <1>2, <1>3 DEF Settled
<1>5. Lifecycle!Take(i)
  BY <1>1, <1>4 DEF ClaimWork, Lifecycle!Take, Settled
<1> QED BY <1>5 DEF Lifecycle!Next

\* complete_work settles the item if the claim was live, finishes it late if it
\* was not, and otherwise finds it already done, dead or offered again.
LEMMA CompleteIsFinish ==
  ASSUME QueueInv, NEW w \in Workers, CompleteWork(w)
  PROVE  [Lifecycle!Next]_Lifecycle!vars
<1>1. PICK i \in Items, c \in Claims : held[w] = [item |-> i, claim |-> c]
  BY DEF Holding, CompleteWork, QueueInv, TypeOK
<1>2. /\ claimStatus' = [claimStatus EXCEPT ![c] = IF ActiveClaim(c, i) THEN "released" ELSE @]
      /\ status' = [status EXCEPT ![i] = Finish(@)]
      /\ UNCHANGED <<attempts, claimItem>>
  BY <1>1 DEF CompleteWork
<1>3. claimStatus \in [Claims -> ClaimStatus] /\ status \in [Items -> QueueStatus]
  BY DEF QueueInv, TypeOK
<1>4. CASE ActiveClaim(c, i)
  <2>1. status[i] \in {"claimed", "done"}
    BY <1>3, <1>4 DEF QueueInv, ClaimDiscipline, QueueStatus
  <2>2. claimStatus'[c] = "released" /\ \A d \in Claims : d # c => claimStatus'[d] = claimStatus[d]
    BY <1>2, <1>3, <1>4
  <2>3. claimItem[c] = i /\ claimStatus[c] = "active"
    BY <1>4 DEF ActiveClaim, Active
  <2>4. Settled' = Settled \cup {i}
    BY <1>2, <2>2, <2>3 DEF Settled
  <2>5. status' = [status EXCEPT ![i] = "done"]
    BY <1>2, <2>1 DEF Finish
  <2>6. Lifecycle!Settle(i)
    BY <1>2, <2>1, <2>4, <2>5 DEF Lifecycle!Settle, Settled
  <2> QED BY <2>6 DEF Lifecycle!Next
<1>5. CASE ~ActiveClaim(c, i)
  <2>1. claimStatus' = claimStatus
    BY <1>2, <1>3, <1>5
  <2>2. CASE status[i] = "claimed"
    <3>1. Lifecycle!FinishLate(i)
      BY <1>2, <2>1, <2>2 DEF Lifecycle!FinishLate, Finish
    <3> QED BY <3>1 DEF Lifecycle!Next
  <2>3. CASE status[i] # "claimed"
    <3>1. status' = status
      BY <1>2, <1>3, <2>3 DEF Finish
    <3> QED BY <1>2, <2>1, <3>1, LifecycleStutters
  <2> QED BY <2>2, <2>3
<1> QED BY <1>4, <1>5

\* The commit of a recovery pass takes back, or buries, exactly the rows it has
\* written: it still owns them, so none of them is settled.
LEMMA CommitIsRecover ==
  ASSUME QueueInv, NEW r \in Recoverers, RecoverCommit(r)
  PROVE  [Lifecycle!Next]_Lifecycle!vars
<1> DEFINE W == {i \in Items : wrote[r][i] # "none"}
<1>1. \A i \in W :
        /\ status[i] \in {"claimed", "done"}
        /\ i \notin Settled
        /\ wrote[r][i] = IF attempts[i] < MaxAttempts[i] THEN "pending" ELSE "dead"
  <2> TAKE i \in W
  <2>1. Owns(r, i) /\ attempts[i] \in Nat /\ MaxAttempts[i] \in Nat
    BY MaxAttemptsAssumption DEF QueueInv, RecoveryOwnsItsRows, TypeOK
  <2> QED BY <2>1 DEF Owns, Verdict, Settled
<1>2. status' = [i \in Items |->
        IF i \notin W THEN status[i]
        ELSE IF attempts[i] < MaxAttempts[i] THEN "pending" ELSE "dead"]
  BY <1>1 DEF RecoverCommit, Committed
<1>3. UNCHANGED <<attempts, claimItem>>
  BY DEF RecoverCommit
<1>4. \A c \in Claims : claimStatus'[c] = "released" <=> claimStatus[c] = "released"
  <2>1. \A c \in expiring[r] : claimStatus[c] = "active"
    BY DEF QueueInv, LocksAreOwned, Active
  <2> QED BY <2>1 DEF RecoverCommit
<1>5. Settled' = Settled
  BY <1>3, <1>4 DEF Settled
<1>6. Lifecycle!Recover(W)
  BY <1>1, <1>2, <1>3, <1>5 DEF Lifecycle!Recover, Settled
<1> QED BY <1>6 DEF Lifecycle!Next

\* Every step of the queue, in a state that the invariant allows.
LEMMA LifecycleStep ==
  ASSUME QueueInv, [Next]_vars
  PROVE  [Lifecycle!Next]_Lifecycle!vars
<1>1. CASE Enqueue
  BY <1>1, EnqueueIsSubmit DEF Enqueue
<1>2. CASE Claim
  BY <1>2, ClaimIsTake DEF Claim
<1>3. ASSUME NEW w \in Workers, CompleteWork(w) PROVE [Lifecycle!Next]_Lifecycle!vars
  BY <1>3, CompleteIsFinish
<1>4. ASSUME NEW r \in Recoverers, RecoverCommit(r) PROVE [Lifecycle!Next]_Lifecycle!vars
  BY <1>4, CommitIsRecover
<1>5. CASE \/ \E w \in Workers : Forget(w)
           \/ \E c \in Claims : ClaimRunsOut(c)
           \/ \E l \in Leases : CreateLease(l) \/ LeaseRunsOut(l)
           \/ \E r \in Recoverers : \/ RecoverStart(r) \/ RecoverScan(r) \/ RecoverAbort(r)
                                    \/ \E i \in Items : RecoverRow(r, i)
           \/ UNCHANGED vars
  <2>1. UNCHANGED <<status, attempts, claimItem, claimStatus>>
    BY <1>5 DEF Forget, ClaimRunsOut, CreateLease, LeaseRunsOut, RecoverStart, RecoverScan,
                RecoverAbort, RecoverRow, vars, queueVars, claimVars
  <2> QED BY <2>1, LifecycleStutters
<1> QED BY <1>1, <1>2, <1>3, <1>4, <1>5 DEF Next, Recover

\* The queue implements the life of its items, however many workers and recovery
\* passes overlap: whatever is decided from rows read earlier is still right when
\* it is committed.
THEOREM QueueImplementsLifecycle == Spec => RefinesLifecycle
<1> SUFFICES Spec => Lifecycle!Spec
  BY DEF RefinesLifecycle
<1> QED BY LifecycleInit, LifecycleStep, QueueInvariant, PTL DEF Spec, Lifecycle!Spec

============================================================================

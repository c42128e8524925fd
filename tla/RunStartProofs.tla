--------------------------- MODULE RunStartProofs ---------------------------
(***************************************************************************)
(* Proofs about a run, its start and the registry.  The control of a run   *)
(* (RunControl): for any number of processes, pauses, steps and kills,     *)
(* whatever the judge says and whatever is commanded.  The composition     *)
(* with the start and the registry (RunStart): it implements RunControl,   *)
(* and whatever keys, paths, disks, sessions and commands there are, the   *)
(* registry's tables agree, and an enrolled project stays usable.          *)
(***************************************************************************)
EXTENDS RunStart, TLAPS, SequenceTheorems

Nodes == {"none", "start", "judge", "pause", "execute", "advance", "fail", "end"}

(************************** completed runs *********************************)
\* Before a position all steps are done; before the move to the next step this
\* one is, too.
DoneBefore(x) ==
  \A s \in StepNo : s < x.step \/ (x.node = "advance" /\ s = x.step) => s \in executed

Typed ==
  /\ at \in [Procs -> Position]
  /\ ckpt \in Position
  /\ executed \subseteq StepNo

DoneInv ==
  /\ Typed
  /\ \A p \in Procs : DoneBefore(at[p])
  /\ DoneBefore(ckpt)
  /\ CompletedMeansExecuted

LEMMA DoneInit == Init => DoneInv
<1> SUFFICES ASSUME Init PROVE DoneInv
  OBVIOUS
<1>1. Nowhere \in Position /\ DoneBefore(Nowhere)
  BY StepsAssumption DEF Nowhere, Position, StepNo, DoneBefore
<1>2. Typed
  BY <1>1 DEF Init, Typed
<1> QED BY <1>1, <1>2 DEF Init, DoneInv, CompletedMeansExecuted

\* Nobody has more to answer for when nobody moves on.
LEMMA DoneSame ==
  ASSUME DoneInv,
         at' \in [Procs -> Position], ckpt' \in Position, executed' = executed,
         \A p \in Procs : DoneBefore(at'[p]),
         DoneBefore(ckpt'),
         status' = "completed" => status = "completed" \/ executed = StepNo
  PROVE  DoneInv'
<1>1. \A x \in Position : DoneBefore(x)' = DoneBefore(x)
  BY DEF DoneBefore
<1> QED BY <1>1 DEF DoneInv, Typed, CompletedMeansExecuted, DoneBefore

\* A process moves to a position for which it has done enough.
LEMMA DoneMove ==
  ASSUME DoneInv, NEW p \in Procs, NEW x \in Position, DoneBefore(x),
         at' = [at EXCEPT ![p] = x],
         UNCHANGED <<ckpt, executed>>,
         status' = "completed" => status = "completed" \/ executed = StepNo
  PROVE  DoneInv'
<1>1. at' \in [Procs -> Position] /\ \A q \in Procs : DoneBefore(at'[q])
  BY DEF DoneInv, Typed
<1> QED BY <1>1, DoneSame DEF DoneInv, Typed

LEMMA NowhereIsDone == Nowhere \in Position /\ DoneBefore(Nowhere)
BY StepsAssumption DEF Nowhere, Position, StepNo, DoneBefore

\* A process stops.
LEMMA DoneStop ==
  ASSUME DoneInv, NEW p \in Procs, Stop(p), UNCHANGED <<ckpt, executed>>,
         status' # "completed" \/ status' = status
  PROVE  DoneInv'
BY NowhereIsDone, DoneMove DEF Stop

\* Steps that move no process in the graph.
LEMMA DoneStay ==
  ASSUME DoneInv, UNCHANGED <<at, ckpt, executed>>, status' # "completed" \/ status' = status
  PROVE  DoneInv'
BY DoneSame DEF DoneInv, Typed

\* A process goes on at another node of the same step.
LEMMA DoneThen ==
  ASSUME DoneInv, NEW p \in Procs, NEW n \in Nodes \ {"advance"}, Then(p, n),
         UNCHANGED <<ckpt, executed>>,
         status' = "completed" => status = "completed" \/ executed = StepNo
  PROVE  DoneInv'
<1> DEFINE x == [at[p] EXCEPT !.node = n]
<1>1. x \in Position /\ DoneBefore(x)
  BY DEF DoneInv, Typed, Position, Nodes, DoneBefore
<1>2. at' = [at EXCEPT ![p] = x]
  BY DEF Then
<1> QED BY <1>1, <1>2, DoneMove

LEMMA DoneCommand ==
  ASSUME DoneInv, NEW p \in Procs, CommandStep(p)
  PROVE  DoneInv'
<1>1. CASE Start(p)
  BY <1>1, DoneStay DEF Start, SetStatus, ckptVars, history
<1>2. CASE Attest(p)
  BY <1>2, DoneStay, DoneStop DEF Attest, SetStatus, Goto, ckptVars, history
<1>3. CASE \E c \in RunCommands : Begin(p, c)
  BY <1>3, DoneStay DEF Begin, ckptVars, history
<1>4. CASE LookForPause(p)
  BY <1>4, DoneStay, DoneStop DEF LookForPause, ckptVars, history
<1>5. CASE Claim(p)
  BY <1>5, DoneStay, DoneStop DEF Claim, SetStatus, Goto, ckptVars, history
<1>6. CASE ClaimRefused(p)
  BY <1>6, DoneStop DEF ClaimRefused, ckptVars, history
<1>7. CASE CancelLooks(p)
  BY <1>7, DoneStay, DoneStop DEF CancelLooks, rowVars, ckptVars, history
<1>8. CASE ResolveCheck(p)
  BY <1>8, DoneStay, DoneStop DEF ResolveCheck, Goto, rowVars, ckptVars, history
<1>9. CASE ResolveWrite(p)
  BY <1>9, DoneStay, DoneStop DEF ResolveWrite, ResolvePause, SetStatus, Goto, ckptVars
<1>10. CASE Reconcile(p)
  BY <1>10, DoneStay DEF Reconcile, rowVars, ckptVars, history
<1>11. CASE Reap(p)
  BY <1>11, DoneStop DEF Reap, SetStatus, rowVars, ckptVars, history
<1> QED
  BY <1>1, <1>2, <1>3, <1>4, <1>5, <1>6, <1>7, <1>8, <1>9, <1>10, <1>11 DEF CommandStep

LEMMA DoneExecute ==
  ASSUME DoneInv, NEW p \in Procs, NodeExecute(p)
  PROVE  DoneInv'
<1>1. /\ executed' = executed \cup {at[p].step} /\ UNCHANGED <<ckpt, status>>
      /\ at[p] \in Position /\ at[p].step \in StepNo
  BY DEF NodeExecute, rowVars, ckptVars, DoneInv, Typed, Position
<1>2. PICK n \in {"advance", "fail"} : at' = [at EXCEPT ![p].node = n]
  BY DEF NodeExecute, Then
<1>3. Typed'
  BY <1>1, <1>2 DEF DoneInv, Typed, Position
<1>4. \A x \in Position : DoneBefore(x) => DoneBefore(x)'
  BY <1>1 DEF DoneBefore
<1>5. \A q \in Procs : q # p => at'[q] = at[q]
  BY <1>2 DEF DoneInv, Typed
<1>6. at'[p].step = at[p].step
  BY <1>1, <1>2 DEF DoneInv, Typed, Position
<1>7. DoneBefore(at[p])
  BY DEF DoneInv
<1>8. DoneBefore(at[p])'
  BY <1>1, <1>6, <1>7 DEF DoneBefore
<1>9. \A q \in Procs : q # p => DoneBefore(at[q])'
  BY <1>1, <1>5 DEF DoneBefore, DoneInv
<1>10. DoneBefore(ckpt)'
  BY <1>1 DEF DoneBefore, DoneInv
<1>11. CompletedMeansExecuted'
  BY <1>1 DEF DoneInv, Typed, CompletedMeansExecuted
<1> QED BY <1>3, <1>8, <1>9, <1>10, <1>11 DEF DoneInv

LEMMA DoneAdvance ==
  ASSUME DoneInv, NEW p \in Procs, NodeAdvance(p)
  PROVE  DoneInv'
<1>1. at[p].node = "advance" /\ at[p].step \in StepNo /\ UNCHANGED <<ckpt, executed>>
  BY DEF NodeAdvance, AtNode, ckptVars, history, DoneInv, Typed, Position
<1>2. DoneBefore(at[p])
  BY DEF DoneInv
<1>3. \A s \in StepNo : s <= at[p].step => s \in executed
  BY <1>1, <1>2, StepsAssumption DEF DoneBefore, StepNo
<1>4. CASE LastStep(at[p].step)
  <2>1. executed = StepNo
    <3>1. \A s \in StepNo : s <= at[p].step
      BY <1>4, StepsAssumption DEF LastStep, StepNo
    <3>2. executed \subseteq StepNo
      BY DEF DoneInv, Typed
    <3> QED BY <1>3, <3>1, <3>2
  <2>2. Then(p, "end")
    BY <1>4 DEF NodeAdvance
  <2> QED BY <1>1, <2>1, <2>2, DoneThen DEF Nodes
<1>5. CASE ~LastStep(at[p].step)
  <2> DEFINE x == [node |-> "judge", step |-> at[p].step + 1]
  <2>1. at' = [at EXCEPT ![p] = x] /\ status' = status
    BY <1>5 DEF NodeAdvance, rowVars
  <2>2. x \in Position
    BY <1>1, <1>5, StepsAssumption DEF Position, StepNo, LastStep
  <2>3. DoneBefore(x)
    BY <1>1, <1>3, StepsAssumption DEF DoneBefore, StepNo
  <2> QED BY <1>1, <2>1, <2>2, <2>3, DoneMove
<1> QED BY <1>4, <1>5

LEMMA DoneGraph ==
  ASSUME DoneInv, NEW p \in Procs, GraphStep(p)
  PROVE  DoneInv'
<1>1. CASE Invoke(p)
  <2>1. UNCHANGED <<ckpt, executed, status>>
    BY <1>1 DEF Invoke, rowVars, history
  <2>2. CASE ckpt.node = "end"
    BY <1>1, <2>1, <2>2, DoneStop DEF Invoke
  <2>3. CASE ckpt.node = "none"
    <3> DEFINE x == [node |-> "start", step |-> 1]
    <3>1. x \in Position /\ DoneBefore(x)
      BY StepsAssumption DEF Position, StepNo, DoneBefore
    <3> QED BY <1>1, <2>1, <2>3, <3>1, DoneMove DEF Invoke
  <2>4. CASE ckpt.node \notin {"none", "end"}
    BY <1>1, <2>1, <2>4, DoneMove DEF Invoke, DoneInv, Typed
  <2> QED BY <2>2, <2>3, <2>4
<1>2. CASE NodeStart(p)
  BY <1>2, DoneThen DEF NodeStart, SetStatus, ckptVars, history, Nodes
<1>3. CASE Judge(p)
  <2>1. PICK v \in Verdicts \cup {"block"} : NodeJudge(p, v)
    BY <1>3 DEF Judge
  <2>2. PICK n \in {"execute", "pause", "fail"} : Then(p, n)
    BY <2>1, VerdictsAssumption DEF NodeJudge
  <2> QED BY <2>1, <2>2, DoneThen DEF NodeJudge, rowVars, ckptVars, Nodes
<1>4. CASE NodePause(p)
  BY <1>4, DoneStay DEF NodePause, CreatePause, SetStatus, ckptVars, history
<1>5. CASE NodePauseUnrecorded(p)
  BY <1>5, DoneStay DEF NodePauseUnrecorded, Goto, rowVars, ckptVars, history
<1>6. CASE Interrupt(p)
  BY <1>6, DoneStay, DoneStop DEF Interrupt, Goto, rowVars, ckptVars, history
<1>7. CASE PauseAnswered(p)
  <2>1. PICK n \in {"execute", "fail"} : Then(p, n)
    BY <1>7 DEF PauseAnswered, AfterPause
  <2> QED
    BY <1>7, <2>1, DoneThen
    DEF PauseAnswered, ResolvePause, SetStatus, rowVars, ckptVars, history, Nodes
<1>8. CASE NodeExecute(p)
  BY <1>8, DoneExecute
<1>9. CASE NodeAdvance(p)
  BY <1>9, DoneAdvance
<1>10. CASE NodeFail(p)
  BY <1>10, DoneThen DEF NodeFail, SetStatus, ckptVars, history, Nodes
<1>11. CASE Save(p)
  <2>1. at[p] \in Position /\ DoneBefore(at[p]) /\ ckpt' = at[p]
    BY <1>11 DEF Save, DoneInv, Typed
  <2>2. UNCHANGED <<status, executed>>
    BY <1>11 DEF Save, rowVars, history
  <2>3. at' = at \/ at' = [at EXCEPT ![p] = Nowhere]
    BY <1>11 DEF Save, Stop
  <2>4. at' \in [Procs -> Position] /\ \A q \in Procs : DoneBefore(at'[q])
    BY <2>3, NowhereIsDone DEF DoneInv, Typed
  <2> QED BY <2>1, <2>2, <2>4, DoneSame
<1> QED
  BY <1>1, <1>2, <1>3, <1>4, <1>5, <1>6, <1>7, <1>8, <1>9, <1>10, <1>11 DEF GraphStep

THEOREM DoneInvariant == Spec => []DoneInv
<1>1. ASSUME DoneInv, [Next]_vars PROVE DoneInv'
  <2>1. ASSUME NEW p \in Procs, Raise(p) PROVE DoneInv'
    BY <1>1, <2>1, DoneStop DEF Raise, SetStatus, ckptVars, history
  <2>2. ASSUME NEW p \in Procs, Kill(p) PROVE DoneInv'
    BY <1>1, <2>2, DoneStop DEF Kill, ckptVars, history
  <2>3. CASE Age
    BY <1>1, <2>3, DoneStay DEF Age, procVars, ckptVars, history
  <2>4. CASE UNCHANGED vars
    BY <1>1, <2>4, DoneStay DEF vars, rowVars, procVars, ckptVars, history
  <2> QED
    BY <1>1, <2>1, <2>2, <2>3, <2>4, DoneCommand, DoneGraph DEF Next
<1> QED BY <1>1, DoneInit, PTL DEF Spec

\* Whoever was killed, resumed or run beside another: a run reported completed
\* has executed every step (node_next_step).
THEOREM CompletedIsExecuted == Spec => []CompletedMeansExecuted
<1>1. DoneInv => CompletedMeansExecuted
  BY DEF DoneInv
<1> QED BY <1>1, DoneInvariant, PTL

(******************************** claims ***********************************)
\* What a command has found out about the pauses, while nobody has updated the
\* row since it read it.
FoundOut(p) ==
  /\ cmd[p] = "resume" => pending = <<>>
  /\ cmd[p] \in {"approve", "reject"} => IsPending(pauseId[p])

ClaimInv ==
  /\ pc = [p \in Procs |-> pc[p]]
  /\ cmd = [p \in Procs |-> cmd[p]]
  /\ pauseId = [p \in Procs |-> pauseId[p]]
  /\ pending \in Seq(Pauses)
  /\ \A p \in Procs :
       /\ pc[p] \in {"look", "claim"} => cmd[p] \in {"resume", "approve", "reject", "cancel"}
       /\ pc[p] = "look" => cmd[p] # "cancel"
       /\ pc[p] = "claim" /\ p \in fresh => FoundOut(p)

LEMMA WithoutIsSeq ==
  ASSUME pending \in Seq(Pauses), NEW x
  PROVE  PendingWithout(x) \in Seq(Pauses)
<1>1. CASE ~IsPending(x)
  BY <1>1 DEF PendingWithout
<1>2. CASE IsPending(x)
  <2> DEFINE n == CHOOSE n \in 1..Len(pending) : pending[n] = x
  <2>1. n \in 1..Len(pending)
    BY <1>2 DEF IsPending
  <2> HIDE DEF n
  <2>2. /\ SubSeq(pending, 1, n - 1) \in Seq(Pauses)
        /\ SubSeq(pending, n + 1, Len(pending)) \in Seq(Pauses)
    BY <2>1
  <2>3. SubSeq(pending, 1, n - 1) \o SubSeq(pending, n + 1, Len(pending)) \in Seq(Pauses)
    BY <2>2
  <2> QED BY <1>2, <2>3 DEF PendingWithout, n
<1> QED BY <1>1, <1>2

\* A process moves to a place where it holds no claim.
Moves(p) ==
  /\ pc' = [pc EXCEPT ![p] = pc'[p]]
  /\ cmd' = [cmd EXCEPT ![p] = cmd'[p]]
  /\ pauseId' = [pauseId EXCEPT ![p] = pauseId'[p]]
  /\ pc'[p] \notin {"look", "claim"}

\* An update of the row makes what everybody has found out void.
Voids ==
  \/ fresh' = {} /\ pending' \in Seq(Pauses)
  \/ fresh' \subseteq fresh /\ pending' = pending

LEMMA ClaimMove ==
  ASSUME ClaimInv, NEW p \in Procs, Moves(p), Voids
  PROVE  ClaimInv'
<1>1. /\ pc' = [q \in Procs |-> pc'[q]] /\ cmd' = [q \in Procs |-> cmd'[q]]
      /\ pauseId' = [q \in Procs |-> pauseId'[q]]
  BY DEF ClaimInv, Moves
<1>2. pc'[p] \notin {"look", "claim"}
  BY DEF Moves
<1>3. \A q \in Procs : q # p => pc'[q] = pc[q] /\ cmd'[q] = cmd[q] /\ pauseId'[q] = pauseId[q]
  BY DEF ClaimInv, Moves
<1>4. ASSUME NEW q \in Procs
      PROVE  /\ pc'[q] \in {"look", "claim"} => cmd'[q] \in {"resume", "approve", "reject", "cancel"}
             /\ pc'[q] = "look" => cmd'[q] # "cancel"
             /\ pc'[q] = "claim" /\ q \in fresh' => FoundOut(q)'
  BY <1>2, <1>3 DEF ClaimInv, FoundOut, IsPending, Voids
<1>5. pending' \in Seq(Pauses)
  BY DEF ClaimInv, Voids
<1> QED BY <1>1, <1>4, <1>5 DEF ClaimInv

\* Nobody's command changes.
LEMMA ClaimStay ==
  ASSUME ClaimInv, UNCHANGED <<pc, cmd, pauseId>>, Voids
  PROVE  ClaimInv'
BY DEF ClaimInv, FoundOut, IsPending, Voids

LEMMA ClaimInit == Init => ClaimInv
BY DEF Init, ClaimInv

LEMMA SetStatusVoids ==
  ASSUME NEW s, SetStatus(s), pending' \in Seq(Pauses)
  PROVE  Voids
BY DEF SetStatus, Voids

LEMMA StopMoves ==
  ASSUME ClaimInv, NEW p \in Procs, Stop(p)
  PROVE  Moves(p)
BY DEF Stop, Moves, ClaimInv

LEMMA GotoMoves ==
  ASSUME ClaimInv, NEW p \in Procs,
         NEW where \in {"invoke", "cancelling", "check", "write", "asking", "answered"},
         Goto(p, where)
  PROVE  Moves(p)
BY DEF Goto, Moves, ClaimInv

LEMMA ThenMoves ==
  ASSUME ClaimInv, NEW p \in Procs, NEW n, Then(p, n)
  PROVE  Moves(p)
BY DEF Then, Moves, ClaimInv

\* The command finds out about the pauses, and goes on to its claim.
LEMMA ClaimLook ==
  ASSUME ClaimInv, NEW p \in Procs, LookForPause(p)
  PROVE  ClaimInv'
<1>1. pc[p] = "look" /\ cmd[p] \in {"resume", "approve", "reject"} /\ pending' = pending
  BY DEF LookForPause, ClaimInv, pauseVars
<1>2. CASE ~MayClaim(p)
  BY <1>1, <1>2, StopMoves, ClaimMove DEF LookForPause, Voids
<1>3. CASE MayClaim(p)
  <2>1. /\ pc' = [pc EXCEPT ![p] = "claim"] /\ pauseId' = [pauseId EXCEPT ![p] = PendingPause]
        /\ UNCHANGED <<cmd, fresh>>
    BY <1>3 DEF LookForPause
  <2>2. pending # <<>> => PendingPause \in Pauses /\ IsPending(PendingPause)
    BY DEF ClaimInv, PendingPause, IsPending
  <2>3. PendingPause = None <=> pending = <<>>
    BY <2>2, NoneAssumption DEF PendingPause
  <2>4. /\ cmd[p] = "resume" => pending = <<>>
        /\ cmd[p] # "resume" => pending # <<>>
    BY <1>3, <2>3 DEF MayClaim
  <2>5. FoundOut(p)'
    BY <1>1, <2>1, <2>2, <2>4 DEF FoundOut, ClaimInv, IsPending
  <2>6. \A q \in Procs : q # p => pc'[q] = pc[q] /\ cmd'[q] = cmd[q] /\ pauseId'[q] = pauseId[q]
    BY <2>1 DEF ClaimInv
  <2>7. ASSUME NEW q \in Procs, q # p, pc'[q] = "claim", q \in fresh' PROVE FoundOut(q)'
    BY <1>1, <2>1, <2>6, <2>7 DEF ClaimInv, FoundOut, IsPending
  <2>8. pc'[p] = "claim"
    BY <2>1 DEF ClaimInv
  <2> QED BY <1>1, <2>1, <2>5, <2>6, <2>7, <2>8 DEF ClaimInv
<1> QED BY <1>2, <1>3

\* A command reads the row; only cancel goes on without a look at the pauses.
LEMMA ClaimBegin ==
  ASSUME ClaimInv, NEW p \in Procs, NEW c \in RunCommands, Begin(p, c)
  PROVE  ClaimInv'
<1>1. /\ c \in {"resume", "approve", "reject", "cancel"}
      /\ pc' = [pc EXCEPT ![p] = IF c = "cancel" THEN "claim" ELSE "look"]
      /\ cmd' = [cmd EXCEPT ![p] = c]
      /\ fresh' = fresh \cup {p} /\ UNCHANGED <<pauseId, pending>>
  BY DEF Begin, RunCommands, pauseVars
<1>2. /\ pc'[p] = IF c = "cancel" THEN "claim" ELSE "look"
      /\ cmd'[p] = c
      /\ \A q \in Procs : q # p => pc'[q] = pc[q] /\ cmd'[q] = cmd[q]
  BY <1>1 DEF ClaimInv
<1>3. ASSUME NEW q \in Procs, pc'[q] = "claim", q \in fresh' PROVE FoundOut(q)'
  <2>1. CASE q = p
    BY <1>1, <1>2, <1>3, <2>1 DEF FoundOut
  <2>2. CASE q # p
    BY <1>1, <1>2, <1>3, <2>2 DEF ClaimInv, FoundOut, IsPending
  <2> QED BY <2>1, <2>2
<1> QED BY <1>1, <1>2, <1>3 DEF ClaimInv

LEMMA ClaimCommand ==
  ASSUME ClaimInv, NEW p \in Procs, CommandStep(p)
  PROVE  ClaimInv'
<1>0. pending \in Seq(Pauses)
  BY DEF ClaimInv
<1>1. CASE Start(p)
  <2>1. Moves(p)
    BY <1>1 DEF Start, Moves, ClaimInv
  <2>2. Voids
    BY <1>0, <1>1, SetStatusVoids DEF Start, pauseVars
  <2> QED BY <2>1, <2>2, ClaimMove
<1>2. CASE Attest(p)
  <2>1. Moves(p)
    BY <1>2, GotoMoves, StopMoves DEF Attest
  <2>2. Voids
    BY <1>0, <1>2, SetStatusVoids DEF Attest, pauseVars
  <2> QED BY <2>1, <2>2, ClaimMove
<1>3. CASE \E c \in RunCommands : Begin(p, c)
  BY <1>3, ClaimBegin
<1>4. CASE LookForPause(p)
  BY <1>4, ClaimLook
<1>5. CASE Claim(p)
  <2>1. Moves(p)
    BY <1>5, GotoMoves, StopMoves DEF Claim
  <2>2. Voids
    BY <1>0, <1>5, SetStatusVoids DEF Claim, pauseVars, Voids
  <2> QED BY <2>1, <2>2, ClaimMove
<1>6. CASE ClaimRefused(p)
  <2>1. Moves(p)
    BY <1>6, StopMoves DEF ClaimRefused
  <2>2. Voids
    BY <1>0, <1>6 DEF ClaimRefused, pauseVars, Voids
  <2> QED BY <2>1, <2>2, ClaimMove
<1>7. CASE CancelLooks(p)
  <2>1. Moves(p)
    BY <1>7, StopMoves DEF CancelLooks, Moves, ClaimInv
  <2>2. Voids
    BY <1>0, <1>7 DEF CancelLooks, rowVars, pauseVars, Voids
  <2> QED BY <2>1, <2>2, ClaimMove
<1>8. CASE ResolveCheck(p)
  <2>1. Moves(p)
    BY <1>8, GotoMoves, StopMoves DEF ResolveCheck
  <2>2. Voids
    BY <1>0, <1>8 DEF ResolveCheck, rowVars, pauseVars, Voids
  <2> QED BY <2>1, <2>2, ClaimMove
<1>9. CASE ResolveWrite(p)
  <2>1. Moves(p)
    BY <1>9, GotoMoves, StopMoves DEF ResolveWrite
  <2>2. Voids
    BY <1>0, <1>9, WithoutIsSeq, SetStatusVoids DEF ResolveWrite, ResolvePause
  <2> QED BY <2>1, <2>2, ClaimMove
<1>10. CASE Reconcile(p)
  <2>1. Moves(p)
    BY <1>10 DEF Reconcile, Moves, ClaimInv
  <2>2. Voids
    BY <1>0, <1>10 DEF Reconcile, rowVars, pauseVars, Voids
  <2> QED BY <2>1, <2>2, ClaimMove
<1>11. CASE Reap(p)
  <2>1. Moves(p)
    BY <1>11, StopMoves DEF Reap
  <2>2. Voids
    BY <1>0, <1>11, SetStatusVoids DEF Reap, rowVars, pauseVars, Voids
  <2> QED BY <2>1, <2>2, ClaimMove
<1> QED
  BY <1>1, <1>2, <1>3, <1>4, <1>5, <1>6, <1>7, <1>8, <1>9, <1>10, <1>11 DEF CommandStep

LEMMA ClaimGraph ==
  ASSUME ClaimInv, NEW p \in Procs, GraphStep(p)
  PROVE  ClaimInv'
<1>0. pending \in Seq(Pauses)
  BY DEF ClaimInv
<1>1. CASE Invoke(p)
  <2>1. Moves(p)
    BY <1>1, StopMoves DEF Invoke, Moves, ClaimInv
  <2>2. Voids
    BY <1>0, <1>1 DEF Invoke, rowVars, pauseVars, Voids
  <2> QED BY <2>1, <2>2, ClaimMove
<1>2. CASE NodeStart(p)
  <2>1. Moves(p)
    BY <1>2, ThenMoves DEF NodeStart
  <2>2. Voids
    BY <1>0, <1>2, SetStatusVoids DEF NodeStart, pauseVars
  <2> QED BY <2>1, <2>2, ClaimMove
<1>3. CASE Judge(p)
  <2>1. PICK v \in Verdicts \cup {"block"} : NodeJudge(p, v)
    BY <1>3 DEF Judge
  <2>2. Moves(p)
    BY <2>1, ThenMoves DEF NodeJudge
  <2>3. Voids
    BY <2>1 DEF NodeJudge, rowVars, pauseVars, Voids
  <2> QED BY <2>2, <2>3, ClaimMove
<1>4. CASE NodePause(p)
  <2>1. PICK x \in Unused : CreatePause(x, at[p].step) /\ pauseId' = [pauseId EXCEPT ![p] = x]
    BY <1>4 DEF NodePause
  <2>2. Moves(p)
    BY <1>4, <2>1 DEF NodePause, Moves, ClaimInv
  <2>3. Voids
    BY <1>0, <2>1, SetStatusVoids DEF CreatePause, Unused
  <2> QED BY <2>2, <2>3, ClaimMove
<1>5. CASE NodePauseUnrecorded(p)
  <2>1. Moves(p)
    BY <1>5, GotoMoves DEF NodePauseUnrecorded
  <2>2. Voids
    BY <1>0, <1>5 DEF NodePauseUnrecorded, rowVars, pauseVars, Voids
  <2> QED BY <2>1, <2>2, ClaimMove
<1>6. CASE Interrupt(p)
  <2>1. Moves(p)
    BY <1>6, GotoMoves, StopMoves DEF Interrupt
  <2>2. Voids
    BY <1>0, <1>6 DEF Interrupt, rowVars, pauseVars, Voids
  <2> QED BY <2>1, <2>2, ClaimMove
<1>7. CASE PauseAnswered(p)
  <2>1. Moves(p)
    BY <1>7, ThenMoves DEF PauseAnswered
  <2>2. Voids
    BY <1>0, <1>7, WithoutIsSeq, SetStatusVoids DEF PauseAnswered, ResolvePause, rowVars, pauseVars, Voids
  <2> QED BY <2>1, <2>2, ClaimMove
<1>8. CASE NodeExecute(p)
  <2>1. Moves(p)
    BY <1>8, ThenMoves DEF NodeExecute
  <2>2. Voids
    BY <1>0, <1>8 DEF NodeExecute, rowVars, pauseVars, Voids
  <2> QED BY <2>1, <2>2, ClaimMove
<1>9. CASE NodeAdvance(p)
  <2>1. Moves(p)
    BY <1>9, ThenMoves DEF NodeAdvance, Moves, ClaimInv
  <2>2. Voids
    BY <1>0, <1>9, SetStatusVoids DEF NodeAdvance, rowVars, pauseVars, Voids
  <2> QED BY <2>1, <2>2, ClaimMove
<1>10. CASE NodeFail(p)
  <2>1. Moves(p)
    BY <1>10, ThenMoves DEF NodeFail
  <2>2. Voids
    BY <1>0, <1>10, SetStatusVoids DEF NodeFail, pauseVars
  <2> QED BY <2>1, <2>2, ClaimMove
<1>11. CASE Save(p)
  <2>1. Moves(p)
    BY <1>11, StopMoves DEF Save, Moves, ClaimInv
  <2>2. Voids
    BY <1>0, <1>11 DEF Save, rowVars, pauseVars, Voids
  <2> QED BY <2>1, <2>2, ClaimMove
<1> QED
  BY <1>1, <1>2, <1>3, <1>4, <1>5, <1>6, <1>7, <1>8, <1>9, <1>10, <1>11 DEF GraphStep

THEOREM ClaimInvariant == Spec => []ClaimInv
<1>1. ASSUME ClaimInv, [Next]_vars PROVE ClaimInv'
  <2>1. ASSUME NEW p \in Procs, Raise(p) PROVE ClaimInv'
    BY <1>1, <2>1, StopMoves, ClaimMove DEF Raise, SetStatus, pauseVars, ClaimInv, Voids
  <2>2. ASSUME NEW p \in Procs, Kill(p) PROVE ClaimInv'
    BY <1>1, <2>2, StopMoves, ClaimMove DEF Kill, pauseVars, Voids
  <2>3. CASE Age
    BY <1>1, <2>3, ClaimStay DEF Age, procVars, pauseVars, Voids
  <2>4. CASE UNCHANGED vars
    BY <1>1, <2>4, ClaimStay DEF vars, rowVars, procVars, pauseVars, Voids
  <2> QED
    BY <1>1, <2>1, <2>2, <2>3, <2>4, ClaimCommand, ClaimGraph DEF Next
<1> QED BY <1>1, ClaimInit, PTL DEF Spec

\* Of any number of commands at a time, one that gets hold of the row acts on
\* what it found out (_claim_authorized_run compares updated_at under the lock).
THEOREM ClaimsHold == Spec => ClaimsAreCurrent
<1> DEFINE Acts == \A p \in Procs : pc[p] = "claim" =>
                     /\ pc'[p] = "invoke" => pending = <<>>
                     /\ pc'[p] = "check" => IsPending(pauseId[p])
<1>1. ASSUME ClaimInv, [Next]_vars PROVE [Acts]_vars
  <2> SUFFICES ASSUME Next, NEW q \in Procs, pc[q] = "claim"
               PROVE  /\ pc'[q] = "invoke" => pending = <<>>
                      /\ pc'[q] = "check" => IsPending(pauseId[q])
    BY <1>1 DEF vars
  <2>1. pc'[q] \in {"claim", "idle"} \/ Claim(q)
    <3>1. \A p \in Procs : p # q /\ (CommandStep(p) \/ GraphStep(p) \/ Raise(p) \/ Kill(p))
            => pc'[q] = pc[q]
      BY <1>1 DEF ClaimInv, CommandStep, GraphStep, Raise, Kill, Stop, Goto, Then, Start, Attest,
           Begin, LookForPause, Claim, ClaimRefused, CancelLooks, ResolveCheck, ResolveWrite,
           Reconcile, Reap, Invoke, NodeStart, Judge, NodeJudge, NodePause,
           NodePauseUnrecorded, Interrupt, PauseAnswered, NodeExecute, NodeAdvance, NodeFail, Save
    <3>2. CommandStep(q) \/ GraphStep(q) \/ Raise(q) \/ Kill(q) =>
            Claim(q) \/ ClaimRefused(q) \/ Kill(q)
      BY DEF CommandStep, GraphStep, Raise, Start, Attest, Begin, LookForPause, CancelLooks,
             ResolveCheck, ResolveWrite, Reconcile, Reap, Invoke, NodeStart, Judge, NodeJudge,
             NodePause, NodePauseUnrecorded, Interrupt, PauseAnswered, NodeExecute, NodeAdvance,
             NodeFail, Save, AtNode
    <3>3. ClaimRefused(q) \/ Kill(q) => pc'[q] = "idle"
      BY <1>1 DEF ClaimInv, ClaimRefused, Kill, Stop
    <3>4. Age => pc'[q] = pc[q]
      BY DEF Age, procVars
    <3> QED BY <3>1, <3>2, <3>3, <3>4 DEF Next
  <2>2. CASE Claim(q)
    <3>1. CASE Current(q) /\ status \in Allowed(cmd[q])
      <4>1. FoundOut(q) /\ cmd[q] \in {"resume", "approve", "reject", "cancel"}
        BY <1>1, <3>1 DEF ClaimInv, Current
      <4>2. pc'[q] = CASE cmd[q] = "resume" -> "invoke"
                       [] cmd[q] = "cancel" -> "cancelling"
                       [] OTHER             -> "check"
        BY <1>1, <2>2, <3>1 DEF Claim, Goto, ClaimInv
      <4> QED BY <4>1, <4>2 DEF FoundOut
    <3>2. CASE ~(Current(q) /\ status \in Allowed(cmd[q]))
      <4>1. pc'[q] = "idle"
        BY <1>1, <2>2, <3>2 DEF Claim, Stop, ClaimInv
      <4> QED BY <4>1
    <3> QED BY <3>1, <3>2
  <2> QED BY <2>1, <2>2
<1>2. [][ClaimInv /\ [Next]_vars]_vars => [][Acts]_vars
  BY <1>1, PTL
<1> QED BY <1>1, ClaimInvariant, PTL DEF Spec, ClaimsAreCurrent

(************************* one command at a time ***************************)
\* A resume value that says yes.
Yes(d) == d # None /\ d = "approved"

\* The judge has not referred the step at x to the operator, or the operator
\* has said yes to it, before the work starts.
Cleared(x) == x.node = "execute" /\ x.step \in asked => x.step \in approved

\* The only pause that is waiting is about the step the checkpoint is at.
Waiting(x) == pending = <<x>> /\ ckpt.node = "pause" /\ scope[x] = ckpt.step

\* What the tables and the checkpoint hold between two commands.
Thread ==
  /\ pending = <<>> \/ \E x \in Pauses : Waiting(x)
  /\ status = "absent" => pending = <<>>
  /\ Yes(answer) => ckpt.node = "pause" /\ ckpt.step \in approved
  /\ Cleared(ckpt)

\* What a command knows of them on its way to the graph.
OnTheWay(p) ==
  /\ pc[p] \in {"attest", "invoke"} => pending = <<>>
  /\ pc[p] = "attest" => cmd[p] = "start"
  /\ pc[p] = "claim" /\ cmd[p] = "resume" => pending = <<>>
  /\ pc[p] \in {"claim", "check", "write"} /\ cmd[p] \in {"approve", "reject"} =>
       pending = <<pauseId[p]>>
  /\ pc[p] = "cancelling" => cmd[p] = "cancel"
  /\ pc[p] \in {"check", "write"} => cmd[p] \in {"approve", "reject", "cancel"}
  /\ pc[p] = "invoke" /\ cmd[p] = "approve" => ckpt.node = "pause" /\ ckpt.step \in approved

\* What it knows in the graph.
InNodes(p) ==
  /\ pc[p] \in {"node", "save"} => pending = <<>> /\ Cleared(at[p])
  /\ pc[p] = "node" => at[p] = ckpt \/ (ckpt.node = "none" /\ at[p].node = "start")
  /\ pc[p] \in {"asking", "answered"} =>
       at[p] = ckpt /\ at[p].node = "pause" /\ pending \in {<<>>, <<pauseId[p]>>}
  /\ pc[p] = "answered" => inbox[p] # None
  /\ pc[p] \in {"node", "asking", "answered"} /\ Yes(inbox[p]) =>
       at[p].node = "pause" /\ at[p].step \in approved

AloneInv ==
  /\ inbox = [p \in Procs |-> inbox[p]]
  /\ scope = [x \in Pauses |-> scope[x]]
  /\ Thread
  /\ \A p \in Procs : OnTheWay(p) /\ InNodes(p)

\* The invariants the steps of a process that is alone start from.
Known(p) ==
  /\ DoneInv
  /\ ClaimInv
  /\ AloneInv
  /\ \A q \in Procs : q = p

LEMMA AloneHere ==
  ASSUME NEW p \in Procs, Known(p),
         inbox' = [inbox EXCEPT ![p] = inbox'[p]],
         scope' = [x \in Pauses |-> scope'[x]],
         Thread', OnTheWay(p)', InNodes(p)'
  PROVE  AloneInv'
<1>1. \A q \in Procs : q = p
  BY DEF Known
<1>2. inbox' = [q \in Procs |-> inbox'[q]]
  BY DEF Known, AloneInv
<1>3. \A q \in Procs : OnTheWay(q)' /\ InNodes(q)'
  BY <1>1
<1> QED BY <1>2, <1>3 DEF AloneInv

\* A step that leaves the checkpoint alone, and the pause or none.
LEMMA ThreadStays ==
  ASSUME Thread, pending' \in {pending, <<>>}, asked' = asked, approved \subseteq approved',
         UNCHANGED <<scope, ckpt, answer>>, status' # "absent" \/ status' = status
  PROVE  Thread'
<1>1. pending' = <<>> \/ \E x \in Pauses : Waiting(x)'
  BY DEF Thread, Waiting
<1>2. status' = "absent" => pending' = <<>>
  BY DEF Thread
<1>3. Yes(answer)' => ckpt'.node = "pause" /\ ckpt'.step \in approved'
  BY DEF Thread, Yes
<1>4. Cleared(ckpt)'
  BY DEF Thread, Cleared
<1> QED BY <1>1, <1>2, <1>3, <1>4 DEF Thread

\* A process that has ended knows nothing.
LEMMA AloneStop ==
  ASSUME NEW p \in Procs, Known(p), Stop(p), scope' = scope, Thread'
  PROVE  AloneInv'
<1>1. pc'[p] = "idle" /\ inbox' = [inbox EXCEPT ![p] = inbox'[p]]
  BY DEF Stop, Known, ClaimInv, AloneInv
<1>2. OnTheWay(p)' /\ InNodes(p)'
  BY <1>1 DEF OnTheWay, InNodes
<1>3. scope' = [x \in Pauses |-> scope'[x]]
  BY DEF Known, AloneInv
<1> QED BY <1>1, <1>2, <1>3, AloneHere

\* Resolving a pause leaves none, or does nothing.
LEMMA NoneIsLeft ==
  ASSUME Thread, NEW y
  PROVE  /\ PendingWithout(y) \in {pending, <<>>}
         /\ pending = <<y>> => PendingWithout(y) = <<>>
<1>1. ASSUME NEW x, pending = <<x>>, x = y PROVE PendingWithout(y) = <<>>
  <2>1. Len(pending) = 1 /\ pending[1] = y
    BY <1>1
  <2>2. IsPending(y) /\ \A n \in 1..Len(pending) : n = 1
    BY <2>1 DEF IsPending
  <2> DEFINE n == CHOOSE n \in 1..Len(pending) : pending[n] = y
  <2>3. n = 1
    BY <2>2 DEF IsPending
  <2> HIDE DEF n
  <2>4. SubSeq(pending, 1, n - 1) = <<>> /\ SubSeq(pending, n + 1, Len(pending)) = <<>>
    BY <1>1, <2>1, <2>3
  <2> QED BY <2>2, <2>4 DEF PendingWithout, n
<1>2. ASSUME NEW x, pending = <<x>>, x # y PROVE PendingWithout(y) = pending
  BY <1>2 DEF PendingWithout, IsPending
<1>3. pending = <<>> => PendingWithout(y) = pending
  BY DEF PendingWithout, IsPending
<1> QED BY <1>1, <1>2, <1>3 DEF Thread, Waiting

\* A process goes on at the same place of the graph.
LEMMA AloneGoto ==
  ASSUME NEW p \in Procs, Known(p), NEW where, Goto(p, where), scope' = scope, Thread',
         pc'[p] = where => OnTheWay(p)' /\ InNodes(p)'
  PROVE  AloneInv'
<1>1. pc'[p] = where /\ inbox' = [inbox EXCEPT ![p] = inbox'[p]]
  BY DEF Goto, Known, ClaimInv, AloneInv
<1>2. scope' = [x \in Pauses |-> scope'[x]]
  BY DEF Known, AloneInv
<1> QED BY <1>1, <1>2, AloneHere

\* The command finds out about the pauses.
LEMMA AloneLook ==
  ASSUME NEW p \in Procs, Known(p), LookForPause(p)
  PROVE  AloneInv'
<1>1. Thread /\ Thread' /\ scope' = scope /\ pending' = pending
  BY ThreadStays DEF Known, AloneInv, LookForPause, pauseVars, ckptVars, history
<1>2. CASE ~MayClaim(p)
  BY <1>1, <1>2, AloneStop DEF LookForPause
<1>3. CASE MayClaim(p)
  <2>1. /\ pc'[p] = "claim" /\ cmd' = cmd /\ inbox' = inbox
        /\ pauseId'[p] = PendingPause
    BY <1>3 DEF LookForPause, Known, ClaimInv
  <2>2. cmd[p] = "resume" => pending = <<>>
    <3>1. \A x \in Pauses : pending = <<x>> => PendingPause = x
      BY DEF PendingPause
    <3> QED BY <1>1, <1>3, <3>1, NoneAssumption DEF MayClaim, Thread, Waiting
  <2>3. cmd[p] \in {"approve", "reject"} => pending = <<PendingPause>>
    <3>1. \A x : pending = <<x>> => PendingPause = x
      BY DEF PendingPause
    <3>2. pending = <<>> => PendingPause = None
      BY DEF PendingPause
    <3> QED BY <1>1, <1>3, <3>1, <3>2 DEF MayClaim, Thread, Waiting
  <2>4. OnTheWay(p)' /\ InNodes(p)'
    BY <1>1, <2>1, <2>2, <2>3 DEF OnTheWay, InNodes
  <2>5. /\ inbox' = [inbox EXCEPT ![p] = inbox'[p]]
        /\ scope' = [x \in Pauses |-> scope'[x]]
    BY <1>1, <2>1 DEF Known, AloneInv
  <2> QED BY <1>1, <2>4, <2>5, AloneHere
<1> QED BY <1>2, <1>3

\* It takes the run.
LEMMA AloneClaim ==
  ASSUME NEW p \in Procs, Known(p), Claim(p)
  PROVE  AloneInv'
<1>1. Thread /\ Thread' /\ scope' = scope /\ pending' = pending
  <2>1. status' # "absent" \/ status' = status
    BY DEF Claim, SetStatus
  <2> QED BY <2>1, ThreadStays DEF Known, AloneInv, Claim, pauseVars, ckptVars, history
<1>2. CASE ~(Current(p) /\ status \in Allowed(cmd[p]))
  BY <1>1, <1>2, AloneStop DEF Claim
<1>3. CASE Current(p) /\ status \in Allowed(cmd[p])
  <2> DEFINE where == CASE cmd[p] = "resume" -> "invoke"
                        [] cmd[p] = "cancel" -> "cancelling"
                        [] OTHER             -> "check"
  <2>1. Goto(p, where) /\ pc[p] = "claim"
    BY <1>3 DEF Claim
  <2>2. cmd' = cmd /\ pauseId' = pauseId
    BY <2>1 DEF Goto
  <2>3. pc'[p] = where => OnTheWay(p)' /\ InNodes(p)'
    <3>1. OnTheWay(p)
      BY DEF Known, AloneInv
    <3>2. cmd[p] \in {"resume", "approve", "reject", "cancel"}
      BY <2>1 DEF Known, ClaimInv
    <3>3. CASE cmd[p] = "resume"
      <4>1. where = "invoke"
        BY <3>3
      <4> QED BY <1>1, <2>1, <2>2, <3>1, <3>3, <4>1 DEF OnTheWay, InNodes
    <3>4. CASE cmd[p] = "cancel"
      <4>1. where = "cancelling"
        BY <3>4
      <4> QED BY <1>1, <2>2, <3>4, <4>1 DEF OnTheWay, InNodes
    <3>5. CASE cmd[p] \in {"approve", "reject"}
      <4>1. where = "check"
        BY <3>5
      <4> QED BY <1>1, <2>1, <2>2, <3>1, <3>5, <4>1 DEF OnTheWay, InNodes
    <3> QED BY <3>2, <3>3, <3>4, <3>5
  <2> QED BY <1>1, <2>1, <2>3, AloneGoto
<1> QED BY <1>2, <1>3

\* It answers the pause it has found.
LEMMA AloneWrite ==
  ASSUME NEW p \in Procs, Known(p), ResolveWrite(p)
  PROVE  AloneInv'
<1> DEFINE x == pauseId[p]
<1>1. /\ pc[p] = "write" /\ pending' = PendingWithout(x) /\ scope' = scope
      /\ status' = "running" /\ UNCHANGED <<ckpt, answer, asked>>
  BY DEF ResolveWrite, ResolvePause, SetStatus, ckptVars
<1>2. Thread /\ OnTheWay(p)
  BY DEF Known, AloneInv
<1>3. approved \subseteq approved'
  BY DEF ResolveWrite
<1>4. Thread'
  BY <1>1, <1>2, <1>3, NoneIsLeft, ThreadStays
<1>5. CASE cmd[p] = "cancel"
  BY <1>1, <1>4, <1>5, AloneStop DEF ResolveWrite
<1>6. CASE cmd[p] # "cancel"
  <2>1. Goto(p, "invoke") /\ cmd' = cmd
    BY <1>6 DEF ResolveWrite, Goto
  <2>2. cmd[p] \in {"approve", "reject"}
    BY <1>1, <1>2, <1>6 DEF OnTheWay
  <2>3. pending = <<x>> /\ pending' = <<>>
    BY <1>1, <1>2, <2>2, NoneIsLeft DEF OnTheWay
  <2>4. ckpt.node = "pause" /\ scope[x] = ckpt.step
    BY <1>2, <2>3 DEF Thread, Waiting
  <2>5. cmd[p] = "approve" => ckpt.step \in approved'
    BY <1>6, <2>4 DEF ResolveWrite
  <2>6. pc'[p] = "invoke" => OnTheWay(p)' /\ InNodes(p)'
    BY <1>1, <2>1, <2>3, <2>4, <2>5 DEF OnTheWay, InNodes
  <2> QED BY <1>1, <1>4, <2>1, <2>6, AloneGoto
<1> QED BY <1>5, <1>6

LEMMA AloneCommand ==
  ASSUME NEW p \in Procs, Known(p), CommandStep(p)
  PROVE  AloneInv'
<1>0. Thread /\ OnTheWay(p)
  BY DEF Known, AloneInv
<1>1. CASE Start(p)
  <2>1. Thread' /\ scope' = scope /\ pending' = <<>> /\ inbox' = inbox
    BY <1>0, <1>1, ThreadStays
    DEF Start, SetStatus, pauseVars, ckptVars, history, Thread
  <2>2. pc'[p] = "attest" /\ cmd'[p] = "start"
    BY <1>1 DEF Start, Known, ClaimInv
  <2>3. OnTheWay(p)' /\ InNodes(p)'
    BY <2>1, <2>2 DEF OnTheWay, InNodes
  <2>4. /\ inbox' = [inbox EXCEPT ![p] = inbox'[p]]
        /\ scope' = [x \in Pauses |-> scope'[x]]
    BY <2>1 DEF Known, AloneInv
  <2> QED BY <2>1, <2>3, <2>4, AloneHere
<1>2. CASE Attest(p)
  <2>1. Thread' /\ scope' = scope /\ pending' = <<>>
    BY <1>0, <1>2, ThreadStays
    DEF Attest, SetStatus, pauseVars, ckptVars, history, OnTheWay
  <2>2. CASE Goto(p, "invoke")
    <3>1. pc'[p] = "invoke" => OnTheWay(p)' /\ InNodes(p)'
      BY <1>0, <1>2, <2>1, <2>2 DEF Attest, Goto, OnTheWay, InNodes
    <3> QED BY <2>1, <2>2, <3>1, AloneGoto
  <2> QED BY <1>2, <2>1, <2>2, AloneStop DEF Attest
<1>3. ASSUME NEW c \in RunCommands, Begin(p, c) PROVE AloneInv'
  <2>1. Thread' /\ scope' = scope /\ inbox' = inbox
    BY <1>0, <1>3, ThreadStays DEF Begin, pauseVars, ckptVars, history
  <2>2. /\ pc'[p] = (IF c = "cancel" THEN "claim" ELSE "look")
        /\ cmd'[p] = c
    BY <1>3 DEF Begin, Known, ClaimInv
  <2>3. OnTheWay(p)' /\ InNodes(p)'
    BY <2>1, <2>2 DEF OnTheWay, InNodes
  <2>4. /\ inbox' = [inbox EXCEPT ![p] = inbox'[p]]
        /\ scope' = [x \in Pauses |-> scope'[x]]
    BY <2>1 DEF Known, AloneInv
  <2> QED BY <2>1, <2>3, <2>4, AloneHere
<1>4. CASE LookForPause(p)
  BY <1>4, AloneLook
<1>5. CASE Claim(p)
  BY <1>5, AloneClaim
<1>6. CASE ClaimRefused(p)
  BY <1>0, <1>6, ThreadStays, AloneStop DEF ClaimRefused, pauseVars, ckptVars, history
<1>7. CASE CancelLooks(p)
  <2>1. Thread' /\ scope' = scope /\ pending' = pending
    BY <1>0, <1>7, ThreadStays DEF CancelLooks, rowVars, pauseVars, ckptVars, history
  <2>2. CASE Stop(p)
    BY <2>1, <2>2, AloneStop
  <2>3. CASE ~Stop(p)
    <3>1. pc'[p] = "check" /\ cmd'[p] = cmd[p] /\ inbox' = inbox
      BY <1>7, <2>3 DEF CancelLooks, Known, ClaimInv
    <3>2. cmd[p] = "cancel"
      BY <1>0, <1>7 DEF OnTheWay, CancelLooks
    <3>3. OnTheWay(p)' /\ InNodes(p)'
      BY <3>1, <3>2 DEF OnTheWay, InNodes
    <3>4. /\ inbox' = [inbox EXCEPT ![p] = inbox'[p]]
          /\ scope' = [x \in Pauses |-> scope'[x]]
      BY <2>1, <3>1 DEF Known, AloneInv
    <3> QED BY <2>1, <3>3, <3>4, AloneHere
  <2> QED BY <2>2, <2>3
<1>8. CASE ResolveCheck(p)
  <2>1. Thread' /\ scope' = scope /\ pending' = pending
    BY <1>0, <1>8, ThreadStays DEF ResolveCheck, rowVars, pauseVars, ckptVars, history
  <2>2. CASE Goto(p, "write")
    <3>1. pc'[p] = "write" => OnTheWay(p)' /\ InNodes(p)'
      BY <1>0, <1>8, <2>1, <2>2 DEF ResolveCheck, Goto, OnTheWay, InNodes
    <3> QED BY <2>1, <2>2, <3>1, AloneGoto
  <2> QED BY <1>8, <2>1, <2>2, AloneStop DEF ResolveCheck
<1>9. CASE ResolveWrite(p)
  BY <1>9, AloneWrite
<1>10. CASE Reconcile(p)
  <2>1. Thread' /\ scope' = scope /\ inbox' = inbox
    BY <1>0, <1>10, ThreadStays DEF Reconcile, rowVars, pauseVars, ckptVars, history
  <2>2. pc'[p] = "reap"
    BY <1>10 DEF Reconcile, Known, ClaimInv
  <2>3. OnTheWay(p)' /\ InNodes(p)'
    BY <2>1, <2>2 DEF OnTheWay, InNodes
  <2>4. /\ inbox' = [inbox EXCEPT ![p] = inbox'[p]]
        /\ scope' = [x \in Pauses |-> scope'[x]]
    BY <2>1 DEF Known, AloneInv
  <2> QED BY <2>1, <2>3, <2>4, AloneHere
<1>11. CASE Reap(p)
  <2>1. Thread' /\ scope' = scope
    BY <1>0, <1>11, ThreadStays DEF Reap, SetStatus, rowVars, pauseVars, ckptVars, history
  <2> QED BY <1>11, <2>1, AloneStop DEF Reap
<1> QED
  BY <1>1, <1>2, <1>3, <1>4, <1>5, <1>6, <1>7, <1>8, <1>9, <1>10, <1>11 DEF CommandStep

\* The node has run, and no pause is waiting.
LEMMA AloneThen ==
  ASSUME NEW p \in Procs, Known(p), NEW n, Then(p, n), scope' = scope, Thread',
         pending' = <<>>,
         n = "execute" => (at[p].step \in asked' => at[p].step \in approved')
  PROVE  AloneInv'
<1>1. pc'[p] = "save" /\ inbox' = inbox
  BY DEF Then, Known, ClaimInv
<1>2. at'[p] = [at[p] EXCEPT !.node = n] /\ at[p] \in Position
  BY DEF Then, Known, DoneInv, Typed
<1>3. at'[p].node = n /\ at'[p].step = at[p].step
  BY <1>2 DEF Position
<1>4. OnTheWay(p)' /\ InNodes(p)'
  BY <1>1, <1>3 DEF OnTheWay, InNodes, Cleared
<1>5. /\ inbox' = [inbox EXCEPT ![p] = inbox'[p]]
      /\ scope' = [x \in Pauses |-> scope'[x]]
  BY <1>1 DEF Known, AloneInv
<1> QED BY <1>4, <1>5, AloneHere

LEMMA AloneInvoke ==
  ASSUME NEW p \in Procs, Known(p), Invoke(p)
  PROVE  AloneInv'
<1> DEFINE given == IF cmd[p] \in {"approve", "reject"} THEN DecisionOf(cmd[p]) ELSE answer
<1>1. /\ Thread /\ OnTheWay(p) /\ pending = <<>> /\ scope' = scope /\ answer' = given
      /\ UNCHANGED <<pending, scope, ckpt, status, asked, approved>>
  BY DEF Known, AloneInv, OnTheWay, Invoke, rowVars, pauseVars, history
<1>2. Yes(given) => ckpt.node = "pause" /\ ckpt.step \in approved
  BY <1>1 DEF Invoke, Thread, OnTheWay, Yes, DecisionOf
<1>3. Thread'
  <2>1. Cleared(ckpt)' = Cleared(ckpt)
    BY <1>1 DEF Cleared
  <2>2. Yes(answer)' => Yes(given)
    BY <1>1 DEF Yes
  <2> QED BY <1>1, <1>2, <2>1, <2>2 DEF Thread
<1>4. CASE ckpt.node = "end"
  BY <1>1, <1>3, <1>4, AloneStop DEF Invoke
<1>5. CASE ckpt.node # "end"
  <2>1. /\ pc'[p] = "node" /\ inbox'[p] = given
        /\ inbox' = [inbox EXCEPT ![p] = inbox'[p]]
    BY <1>5 DEF Invoke, Known, ClaimInv, AloneInv
  <2>2. at'[p] = IF ckpt.node = "none" THEN [node |-> "start", step |-> 1] ELSE ckpt
    BY <1>5 DEF Invoke, Known, DoneInv, Typed
  <2>3. Cleared(at[p])'
    BY <1>1, <2>2 DEF Cleared, Thread
  <2>4. OnTheWay(p)'
    BY <2>1 DEF OnTheWay
  <2>5. InNodes(p)'
    <3>1. Yes(inbox[p])' => at'[p].node = "pause" /\ at'[p].step \in approved'
      BY <1>1, <1>2, <2>1, <2>2 DEF Yes
    <3>2. at'[p] = ckpt' \/ (ckpt'.node = "none" /\ at'[p].node = "start")
      BY <1>1, <2>2
    <3> QED BY <1>1, <2>1, <2>3, <3>1, <3>2 DEF InNodes
  <2>6. scope' = [x \in Pauses |-> scope'[x]]
    BY <1>1 DEF Known, AloneInv
  <2> QED BY <1>3, <2>1, <2>4, <2>5, <2>6, AloneHere
<1> QED BY <1>4, <1>5

\* What is asked about a step is asked at its judge, before any work on it.
LEMMA AloneJudge ==
  ASSUME NEW p \in Procs, Known(p), NEW v \in Verdicts \cup {"block"}, NodeJudge(p, v)
  PROVE  AloneInv'
<1>1. /\ Thread /\ InNodes(p) /\ pc[p] = "node" /\ at[p].node = "judge"
      /\ UNCHANGED <<status, pending, scope, ckpt, answer, approved>>
  BY DEF Known, AloneInv, NodeJudge, AtNode, rowVars, pauseVars, ckptVars
<1>2. ckpt.node # "execute" /\ pending = <<>>
  BY <1>1 DEF InNodes
<1>3. Thread'
  BY <1>1, <1>2 DEF Thread, Cleared, Yes
<1>4. v \in {"proceed", "needs_operator", "block"}
  BY VerdictsAssumption
<1>5. CASE v = "proceed"
  <2>1. Then(p, "execute") /\ at[p].step \notin asked'
    BY <1>5 DEF NodeJudge
  <2> QED BY <1>1, <1>2, <1>3, <2>1, AloneThen
<1>6. CASE v = "needs_operator"
  <2>1. Then(p, "pause")
    BY <1>6 DEF NodeJudge
  <2> QED BY <1>1, <1>2, <1>3, <2>1, AloneThen
<1>7. CASE v = "block"
  <2>1. Then(p, "fail")
    BY <1>7 DEF NodeJudge
  <2> QED BY <1>1, <1>2, <1>3, <2>1, AloneThen
<1> QED BY <1>4, <1>5, <1>6, <1>7

\* The pause is about the step the checkpoint is at.
LEMMA AlonePause ==
  ASSUME NEW p \in Procs, Known(p), NodePause(p)
  PROVE  AloneInv'
<1>1. PICK x \in Pauses : CreatePause(x, at[p].step) /\ pauseId' = [pauseId EXCEPT ![p] = x]
  BY DEF NodePause, Unused
<1>2. /\ Thread /\ InNodes(p) /\ pc[p] = "node" /\ at[p].node = "pause" /\ pending = <<>>
      /\ at[p] = ckpt
      /\ UNCHANGED <<cmd, at, inbox, ckpt, answer, asked, approved>>
  BY DEF Known, AloneInv, NodePause, AtNode, ckptVars, history, InNodes
<1>3. /\ pending' = <<x>> /\ scope' = [scope EXCEPT ![x] = ckpt.step]
      /\ status' = "paused_human"
  BY <1>1, <1>2 DEF CreatePause, SetStatus
<1>4. scope' = [y \in Pauses |-> scope'[y]] /\ scope'[x] = ckpt.step
  BY <1>1, <1>3 DEF Known, AloneInv
<1>5. Thread'
  <2>1. Waiting(x)'
    BY <1>2, <1>3, <1>4 DEF Waiting
  <2>2. Cleared(ckpt)' = Cleared(ckpt) /\ Yes(answer)' = Yes(answer)
    BY <1>2 DEF Cleared, Yes
  <2> QED BY <1>1, <1>2, <1>3, <2>1, <2>2 DEF Thread
<1>6. pc'[p] = "asking" /\ pauseId'[p] = x
  BY <1>1 DEF NodePause, Known, ClaimInv
<1>7. OnTheWay(p)' /\ InNodes(p)'
  <2>1. Yes(inbox[p])' = Yes(inbox[p])
    BY <1>2 DEF Yes
  <2> QED BY <1>2, <1>3, <1>6, <2>1 DEF OnTheWay, InNodes
<1>8. inbox' = [inbox EXCEPT ![p] = inbox'[p]]
  BY <1>2 DEF Known, AloneInv
<1> QED BY <1>4, <1>5, <1>7, <1>8, AloneHere

\* The operator's yes is about the step that goes on to its execution.
LEMMA AloneAnswered ==
  ASSUME NEW p \in Procs, Known(p), PauseAnswered(p)
  PROVE  AloneInv'
<1>1. /\ Thread /\ InNodes(p) /\ pc[p] = "answered"
      /\ UNCHANGED <<ckpt, answer, asked, approved>>
  BY DEF Known, AloneInv, PauseAnswered, ckptVars, history
<1>2. pending' = <<>> /\ scope' = scope /\ (status' # "absent" \/ status' = status)
  <2>1. pending \in {<<>>, <<pauseId[p]>>}
    BY <1>1 DEF InNodes
  <2>2. CASE IsPending(pauseId[p])
    <3>1. pending # <<>>
      BY <2>2 DEF IsPending
    <3> QED BY <1>1, <2>1, <2>2, <3>1, NoneIsLeft DEF PauseAnswered, ResolvePause, SetStatus
  <2>3. CASE ~IsPending(pauseId[p])
    <3>1. pending = <<pauseId[p]>> => IsPending(pauseId[p])
      <4>1. ASSUME pending = <<pauseId[p]>> PROVE 1 \in 1..Len(pending) /\ pending[1] = pauseId[p]
        BY <4>1
      <4> QED BY <4>1 DEF IsPending
    <3> QED BY <2>1, <2>3, <3>1 DEF PauseAnswered, rowVars, pauseVars
  <2> QED BY <2>2, <2>3
<1>3. Thread'
  BY <1>1, <1>2, ThreadStays
<1>4. PICK n : Then(p, n) /\ n = AfterPause(inbox[p])
  BY DEF PauseAnswered
<1>5. n = "execute" => at[p].step \in approved'
  BY <1>1, <1>4 DEF InNodes, Yes, AfterPause
<1> QED BY <1>2, <1>3, <1>4, <1>5, AloneThen

LEMMA AloneSave ==
  ASSUME NEW p \in Procs, Known(p), Save(p)
  PROVE  AloneInv'
<1>1. /\ Thread /\ InNodes(p) /\ pc[p] = "save" /\ ckpt' = at[p] /\ answer' = None
      /\ UNCHANGED <<status, pending, scope, asked, approved>>
  BY DEF Known, AloneInv, Save, UseUpAnswer, rowVars, pauseVars, history
<1>2. pending = <<>> /\ Cleared(at[p])
  BY <1>1 DEF InNodes
<1>3. Thread'
  BY <1>1, <1>2 DEF Thread, Cleared, Yes
<1>4. CASE at[p].node \in {"pause", "end"}
  BY <1>1, <1>3, <1>4, AloneStop DEF Save
<1>5. CASE at[p].node \notin {"pause", "end"}
  <2>1. /\ pc'[p] = "node" /\ inbox'[p] = None /\ at' = at
        /\ inbox' = [inbox EXCEPT ![p] = inbox'[p]]
    BY <1>5 DEF Save, Known, ClaimInv, AloneInv
  <2>2. OnTheWay(p)' /\ InNodes(p)'
    BY <1>1, <1>2, <2>1 DEF OnTheWay, InNodes, Cleared, Yes
  <2>3. scope' = [x \in Pauses |-> scope'[x]]
    BY <1>1 DEF Known, AloneInv
  <2> QED BY <1>3, <2>1, <2>2, <2>3, AloneHere
<1> QED BY <1>4, <1>5

LEMMA AloneGraph ==
  ASSUME NEW p \in Procs, Known(p), GraphStep(p)
  PROVE  AloneInv'
<1>0. Thread /\ InNodes(p)
  BY DEF Known, AloneInv
<1>1. CASE Invoke(p)
  BY <1>1, AloneInvoke
<1>2. CASE NodeStart(p)
  <2>1. pending' = <<>> /\ scope' = scope /\ Thread'
    BY <1>0, <1>2, ThreadStays
    DEF NodeStart, AtNode, InNodes, SetStatus, pauseVars, ckptVars, history
  <2> QED BY <1>2, <2>1, AloneThen DEF NodeStart
<1>3. CASE Judge(p)
  BY <1>3, AloneJudge DEF Judge
<1>4. CASE NodePause(p)
  BY <1>4, AlonePause
<1>5. CASE NodePauseUnrecorded(p)
  <2>1. Thread' /\ scope' = scope /\ pending' = <<>>
    BY <1>0, <1>5, ThreadStays
    DEF NodePauseUnrecorded, AtNode, InNodes, rowVars, pauseVars, ckptVars, history
  <2>2. Goto(p, "asking") /\ UNCHANGED <<at, inbox, ckpt, approved>>
    BY <1>5 DEF NodePauseUnrecorded, Goto, ckptVars, history
  <2>3. Yes(inbox[p])' = Yes(inbox[p])
    BY <2>2 DEF Yes
  <2>4. pc'[p] = "asking" => OnTheWay(p)' /\ InNodes(p)'
    BY <1>0, <1>5, <2>1, <2>2, <2>3 DEF NodePauseUnrecorded, AtNode, OnTheWay, InNodes
  <2> QED BY <2>1, <2>2, <2>4, AloneGoto
<1>6. CASE Interrupt(p)
  <2>1. Thread' /\ scope' = scope /\ pending' = pending
    BY <1>0, <1>6, ThreadStays DEF Interrupt, rowVars, pauseVars, ckptVars, history
  <2>2. CASE inbox[p] = None
    BY <1>6, <2>1, <2>2, AloneStop DEF Interrupt
  <2>3. CASE inbox[p] # None
    <3>1. Goto(p, "answered") /\ UNCHANGED <<pauseId, at, inbox, ckpt, approved>>
      BY <1>6, <2>3 DEF Interrupt, Goto, ckptVars, history
    <3>2. Yes(inbox[p])' = Yes(inbox[p])
      BY <3>1 DEF Yes
    <3>3. pc'[p] = "answered" => OnTheWay(p)' /\ InNodes(p)'
      BY <1>0, <1>6, <2>1, <2>3, <3>1, <3>2 DEF Interrupt, OnTheWay, InNodes
    <3> QED BY <2>1, <3>1, <3>3, AloneGoto
  <2> QED BY <2>2, <2>3
<1>7. CASE PauseAnswered(p)
  BY <1>7, AloneAnswered
<1>8. CASE NodeExecute(p)
  <2>1. pending' = <<>> /\ scope' = scope /\ Thread'
    BY <1>0, <1>8, ThreadStays
    DEF NodeExecute, AtNode, InNodes, rowVars, pauseVars, ckptVars
  <2> QED BY <1>8, <2>1, AloneThen DEF NodeExecute
<1>9. CASE NodeAdvance(p)
  <2>1. pending' = <<>> /\ scope' = scope /\ Thread'
    BY <1>0, <1>9, ThreadStays
    DEF NodeAdvance, AtNode, InNodes, SetStatus, rowVars, pauseVars, ckptVars, history
  <2>2. CASE LastStep(at[p].step)
    BY <1>9, <2>1, <2>2, AloneThen DEF NodeAdvance
  <2>3. CASE ~LastStep(at[p].step)
    <3>1. /\ pc'[p] = "save" /\ inbox' = inbox
          /\ at'[p] = [node |-> "judge", step |-> at[p].step + 1]
      BY <1>9, <2>3 DEF NodeAdvance, Known, ClaimInv, DoneInv, Typed
    <3>2. OnTheWay(p)' /\ InNodes(p)'
      BY <2>1, <3>1 DEF OnTheWay, InNodes, Cleared
    <3>3. /\ inbox' = [inbox EXCEPT ![p] = inbox'[p]]
          /\ scope' = [x \in Pauses |-> scope'[x]]
      BY <2>1, <3>1 DEF Known, AloneInv
    <3> QED BY <2>1, <3>2, <3>3, AloneHere
  <2> QED BY <2>2, <2>3
<1>10. CASE NodeFail(p)
  <2>1. pending' = <<>> /\ scope' = scope /\ Thread'
    BY <1>0, <1>10, ThreadStays
    DEF NodeFail, AtNode, InNodes, SetStatus, pauseVars, ckptVars, history
  <2> QED BY <1>10, <2>1, AloneThen DEF NodeFail
<1>11. CASE Save(p)
  BY <1>11, AloneSave
<1> QED
  BY <1>1, <1>2, <1>3, <1>4, <1>5, <1>6, <1>7, <1>8, <1>9, <1>10, <1>11 DEF GraphStep

LEMMA AloneStart == Init => AloneInv
<1> SUFFICES ASSUME Init PROVE AloneInv
  OBVIOUS
<1>1. Thread
  BY DEF Init, Thread, Yes, Cleared, Nowhere
<1>2. \A p \in Procs : OnTheWay(p) /\ InNodes(p)
  BY DEF Init, OnTheWay, InNodes
<1> QED BY <1>1, <1>2 DEF Init, AloneInv

\* One process gives all the commands, one after the other.
OneProcess == \A p, q \in Procs : p = q

LEMMA AloneSteps ==
  ASSUME OneProcess, DoneInv, ClaimInv, AloneInv, [Next]_vars
  PROVE  AloneInv'
<1>1. \A p \in Procs : Known(p)
  BY DEF OneProcess, Known
<1>2. ASSUME NEW p \in Procs, Raise(p) PROVE AloneInv'
  <2>1. Thread' /\ scope' = scope
    BY <1>2, ThreadStays DEF Raise, SetStatus, pauseVars, ckptVars, history, AloneInv
  <2> QED BY <1>1, <1>2, <2>1, AloneStop DEF Raise
<1>3. ASSUME NEW p \in Procs, Kill(p) PROVE AloneInv'
  <2>1. Thread' /\ scope' = scope
    BY <1>3, ThreadStays DEF Kill, pauseVars, ckptVars, history, AloneInv
  <2> QED BY <1>1, <1>3, <2>1, AloneStop DEF Kill
<1>4. ASSUME UNCHANGED <<status, pauseVars, ckptVars, procVars, history>> PROVE AloneInv'
  BY <1>4 DEF pauseVars, ckptVars, procVars, history, AloneInv, Thread, Waiting, Yes, Cleared,
              OnTheWay, InNodes
<1>5. Age \/ UNCHANGED vars => UNCHANGED <<status, pauseVars, ckptVars, procVars, history>>
  BY DEF Age, vars, rowVars
<1> QED BY <1>1, <1>2, <1>3, <1>4, <1>5, AloneCommand, AloneGraph DEF Next

\* However often the one command at work is killed and another one given, the
\* work of a step the judge referred to the operator starts only after the
\* operator's yes to that very step (node_human_pause, cmd_approve).
THEOREM ApprovedWhenAlone == OneProcess /\ Spec => ApprovedBeforeExecuted
<1> DEFINE Acts == \A p \in Procs :
                     Executes(p) /\ at[p].step \in asked => at[p].step \in approved
<1> SUFFICES ASSUME OneProcess PROVE Spec => ApprovedBeforeExecuted
  OBVIOUS
<1>1. AloneInv => Acts
  BY DEF AloneInv, InNodes, Cleared, Executes, AtNode
<1>2. AloneInv /\ DoneInv /\ ClaimInv /\ [Next]_vars => AloneInv'
  BY AloneSteps
<1>3. Spec => []AloneInv
  BY <1>2, AloneStart, DoneInvariant, ClaimInvariant, PTL DEF Spec
<1>4. []AloneInv => [][Acts]_vars
  BY <1>1, PTL
<1> QED BY <1>3, <1>4, PTL DEF ApprovedBeforeExecuted

(**************************** the composition ******************************)
LEMMA StepsOfControl == StartNext => [Next]_vars
<1> SUFFICES ASSUME StartNext PROVE [Next]_vars
  OBVIOUS
<1>1. ASSUME NEW p \in Procs, ControlStep(p), UNCHANGED <<registry, kills>> PROVE Next
  <2>1. CASE \E r \in Requests : StartRun(p, r)
    BY <1>1, <2>1 DEF StartRun, CommandStep, Next
  <2>2. CASE AttestRun(p)
    BY <1>1, <2>2 DEF AttestRun, CommandStep, Next
  <2>3. CASE ClaimRun(p)
    BY <1>1, <2>3 DEF ClaimRun, CommandStep, Next
  <2>4. CASE InvokeRun(p)
    BY <1>1, <2>4 DEF InvokeRun, GraphStep, Next
  <2>5. CASE StartNode(p)
    BY <1>1, <2>5 DEF StartNode, GraphStep, Next
  <2>6. CASE RefuseWorktree(p)
    BY <1>1, <2>6 DEF RefuseWorktree, Next
  <2>7. CASE SaveRun(p)
    BY <1>1, <2>7 DEF SaveRun, GraphStep, Next
  <2>8. CASE JudgeRun(p)
    <3>1. Judge(p)
      BY <2>8 DEF JudgeRun, Judge
    <3> QED BY <1>1, <3>1 DEF GraphStep, Next
  <2>9. CASE OtherStep(p)
    BY <1>1, <2>9 DEF OtherStep, CommandStep, GraphStep, Next
  <2> QED
    BY <1>1, <2>1, <2>2, <2>3, <2>4, <2>5, <2>6, <2>7, <2>8, <2>9 DEF ControlStep
<1>2. ASSUME NEW p \in Procs, StartStep(p) PROVE UNCHANGED vars
  BY <1>2 DEF StartStep, WriteCharter, WriteCatalogue, OpenMemory, GoOn
<1>3. ASSUME NEW p \in Procs, RaiseRun(p), UNCHANGED <<registry, kills>> PROVE Next
  BY <1>3 DEF RaiseRun, Next
<1>4. ASSUME NEW p \in Procs, KillRun(p) PROVE Next
  BY <1>4 DEF KillRun, Next
<1> QED BY <1>1, <1>2, <1>3, <1>4 DEF StartNext, ProcessStep, Next

\* The registry, the request and the tables of node_start take nothing from the
\* control of the run: every behaviour of the composition is one of RunControl.
THEOREM StartIsRunControl == StartSpec => Spec
<1>1. StartInit => Init
  BY DEF StartInit
<1>2. UNCHANGED allVars => UNCHANGED vars
  BY DEF allVars
<1>3. [StartNext]_allVars => [Next]_vars
  BY <1>2, StepsOfControl
<1> QED BY <1>1, <1>3, PTL DEF StartSpec, Spec

(***************************** the registry ********************************)
\* init has made the worktree a checkout of the repository.
OnDisk(k, home) == Identity(k, home) /\ InGit(disk, home.worktree) /\ SameRepository(disk, home)

RegistryInv ==
  /\ RegistryTypeOK
  /\ OneHomePerProject
  /\ \A k \in Keys : projects[k] = NoRow => linked[k] = {}
  /\ \A k \in Keys : projects[k] # NoRow => EnrolledAs[projects[k].worktree] = k
  /\ \A i \in preparing : OnDisk(i.key, i.home) /\ InGit(disk, i.home.repository)
  /\ \A k \in enrolled : projects[k] # NoRow /\ OnDisk(k, projects[k])
                         /\ InGit(disk, projects[k].repository)

LEMMA RegistryStart == RegistryInit => RegistryInv
BY DisksAssumption, BoundsAssumption
DEF RegistryInit, RegistryInv, RegistryTypeOK, OneHomePerProject

\* Preparing a worktree changes no checkout.
LEMMA PrepareKeeps ==
  ASSUME RegistryInv, NEW k \in Keys, NEW home \in Home, Prepare(k, home)
  PROVE  RegistryInv'
<1>1. /\ disk' = Prepared(home) /\ preparing' = preparing \cup {[key |-> k, home |-> home]}
      /\ inits' = inits + 1 /\ inits < MaxInits
      /\ UNCHANGED <<repos, worktrees, projects, primary, linked, opens, enrolled>>
      /\ Identity(k, home) /\ CanPrepare(home)
  BY DEF Prepare, registryVars
<1>2. disk \in [Paths -> Content] /\ home.repository \in Paths /\ home.worktree \in Paths
  BY DEF RegistryInv, RegistryTypeOK, Home
<1>3. disk' \in [Paths -> Content]
  BY <1>1, <1>2 DEF Prepared
<1>4. \A x \in Paths : InGit(disk, x) => disk'[x] = disk[x]
  BY <1>1, <1>2 DEF Prepared, InGit
<1>5. RegistryTypeOK'
  BY <1>1, <1>3, BoundsAssumption DEF RegistryInv, RegistryTypeOK
<1>6. ASSUME NEW i \in preparing' PROVE OnDisk(i.key, i.home)' /\ InGit(disk, i.home.repository)'
  <2>1. CASE i \in preparing
    <3>1. i.home.repository \in Paths /\ i.home.worktree \in Paths
      BY <2>1 DEF RegistryInv, RegistryTypeOK, Home
    <3>2. OnDisk(i.key, i.home) /\ InGit(disk, i.home.repository)
      BY <2>1 DEF RegistryInv
    <3> QED BY <1>4, <3>1, <3>2 DEF OnDisk, Identity, InGit, SameRepository
  <2>2. CASE i = [key |-> k, home |-> home]
    BY <1>1, <1>2, <1>4, <2>2 DEF OnDisk, Identity, InGit, SameRepository, CanPrepare
  <2> QED BY <1>1, <2>1, <2>2
<1>7. ASSUME NEW j \in enrolled
      PROVE  OnDisk(j, projects[j])' /\ InGit(disk, projects[j].repository)'
  <2>1. j \in Keys /\ projects[j] \in Home
    BY DEF RegistryInv, RegistryTypeOK
  <2>2. projects[j].repository \in Paths /\ projects[j].worktree \in Paths
    BY <2>1 DEF Home
  <2>3. OnDisk(j, projects[j]) /\ InGit(disk, projects[j].repository)
    BY DEF RegistryInv
  <2> QED BY <1>1, <1>4, <2>2, <2>3 DEF OnDisk, Identity, InGit, SameRepository
<1> QED
  BY <1>1, <1>5, <1>6, <1>7 DEF RegistryInv, OneHomePerProject

\* init moves the worktree to its repository; nobody else lives there, because
\* the contract gives a path to one key.
LEMMA RegisterKeeps ==
  ASSUME RegistryInv, NEW i \in preparing, Register(i)
  PROVE  RegistryInv'
<1> DEFINE k == i.key
           home == i.home
<1>1. /\ k \in Keys /\ home \in Home /\ home.repository \in Paths /\ home.worktree \in Paths
      /\ OnDisk(k, home) /\ InGit(disk, home.repository)
  BY DEF RegistryInv, RegistryTypeOK, Home
<1>2. /\ worktrees' = [worktrees EXCEPT ![home.worktree] = home.repository]
      /\ projects' = [projects EXCEPT ![k] = home]
      /\ primary' = [primary EXCEPT ![k] = {home.worktree}]
      /\ linked' = [linked EXCEPT ![k] = @ \cup {home.worktree}]
      /\ preparing' = preparing \ {i} /\ enrolled' = enrolled \cup {k}
      /\ UNCHANGED <<disk, inits, opens>>
      /\ repos' = [repos EXCEPT ![home.repository] = IF @ = NoRow THEN InitName(k) ELSE @]
  BY DEF Register, Moved, RecordRepository
<1> HIDE DEF k, home
<1>3. RegistryTypeOK'
  <2>1. InitName(k) \in RepoKey
    BY <1>1 DEF RepoKey
  <2>2. repos' \in [Paths -> RepoKey \cup {NoRow}]
    BY <1>1, <1>2, <2>1 DEF RegistryInv, RegistryTypeOK
  <2>3. primary' \in [Keys -> SUBSET Paths] /\ linked' \in [Keys -> SUBSET Paths]
    BY <1>1, <1>2 DEF RegistryInv, RegistryTypeOK
  <2> QED BY <1>1, <1>2, <2>2, <2>3 DEF RegistryInv, RegistryTypeOK
<1>4. home # NoRow /\ EnrolledAs[home.worktree] = k
  BY <1>1, PathsAssumption DEF Home, OnDisk, Identity
<1>5. /\ projects'[k] = home /\ primary'[k] = {home.worktree}
      /\ worktrees'[home.worktree] = home.repository
      /\ \A j \in Keys : j # k =>
           projects'[j] = projects[j] /\ primary'[j] = primary[j] /\ linked'[j] = linked[j]
      /\ \A x \in Paths : x # home.worktree => worktrees'[x] = worktrees[x]
  BY <1>1, <1>2 DEF RegistryInv, RegistryTypeOK
<1>6. OneHomePerProject'
  <2> SUFFICES ASSUME NEW j \in Keys
               PROVE  IF projects'[j] = NoRow THEN primary'[j] = {}
                      ELSE /\ primary'[j] = {projects'[j].worktree}
                           /\ worktrees'[projects'[j].worktree] = projects'[j].repository
    BY DEF OneHomePerProject
  <2>1. CASE j = k
    BY <1>4, <1>5, <2>1
  <2>2. CASE j # k /\ projects[j] = NoRow
    BY <1>5, <2>2 DEF RegistryInv, OneHomePerProject
  <2>3. CASE j # k /\ projects[j] # NoRow
    <3>1. projects[j].worktree # home.worktree /\ projects[j].worktree \in Paths
      BY <1>4, <2>3 DEF RegistryInv, RegistryTypeOK, Home
    <3> QED BY <1>5, <2>3, <3>1 DEF RegistryInv, OneHomePerProject
  <2> QED BY <2>1, <2>2, <2>3
<1>7. \A j \in Keys : /\ projects'[j] = NoRow => linked'[j] = {}
                      /\ projects'[j] # NoRow => EnrolledAs[projects'[j].worktree] = j
  BY <1>4, <1>5 DEF RegistryInv
<1>8. \A j \in enrolled' : /\ projects'[j] # NoRow /\ OnDisk(j, projects[j])'
                           /\ InGit(disk, projects[j].repository)'
  <2>1. \A j \in enrolled : j \in Keys
    BY DEF RegistryInv, RegistryTypeOK
  <2>2. OnDisk(k, projects[k])' /\ InGit(disk, projects[k].repository)'
    BY <1>1, <1>2, <1>5 DEF OnDisk, Identity, InGit, SameRepository
  <2>3. \A j \in enrolled : j # k => /\ projects'[j] # NoRow /\ OnDisk(j, projects[j])'
                                     /\ InGit(disk, projects[j].repository)'
    BY <1>2, <1>5, <2>1 DEF RegistryInv, OnDisk, Identity, InGit, SameRepository
  <2> QED BY <1>2, <1>4, <1>5, <2>2, <2>3
<1>9. \A h \in preparing' : OnDisk(h.key, h.home)' /\ InGit(disk, h.home.repository)'
  BY <1>2 DEF RegistryInv, OnDisk, Identity, InGit, SameRepository
<1> QED BY <1>3, <1>6, <1>7, <1>8, <1>9 DEF RegistryInv

\* session_open leaves a worktree where it is, and gives a new project the home
\* its worktree has.
LEMMA SessionKeeps ==
  ASSUME RegistryInv, NEW k \in Keys, NEW home \in Home,
         SessionAccepted(k, home), RecordSession(k, home),
         UNCHANGED <<disk, preparing, inits, enrolled>>, opens' \in 0..MaxOpens
  PROVE  RegistryInv'
<1> DEFINE w == home.worktree
           created == IF projects[k] = NoRow THEN SessionHome(home) ELSE projects[k]
<1>1. home.repository \in Paths /\ w \in Paths /\ EnrolledAs[w] = k
  BY DEF Home, SessionAccepted, Identity
<1>2. /\ worktrees' = [worktrees EXCEPT ![w] = IF @ = NoRow THEN home.repository ELSE @]
      /\ projects' = [projects EXCEPT ![k] = created]
      /\ linked' = [linked EXCEPT ![k] = @ \cup {w}]
      /\ primary' = [primary EXCEPT ![k] =
                       IF w \notin linked[k] /\ w = created.worktree THEN @ \cup {w} ELSE @]
      /\ repos' = [repos EXCEPT ![home.repository] =
                     IF @ = NoRow THEN SessionName(home.repository) ELSE @]
  BY DEF RecordSession, Stays, RecordRepository
<1>3. created \in Home
  BY <1>1 DEF RegistryInv, RegistryTypeOK, SessionHome, Home
<1>4. projects[k] = NoRow =>
        created.worktree = w
        /\ created.repository = IF worktrees[w] = NoRow THEN home.repository ELSE worktrees[w]
  BY DEF SessionHome
<1>5. projects[k] # NoRow => created = projects[k]
  OBVIOUS
<1> HIDE DEF w, created
<1>6. created # NoRow
  BY <1>3, PathsAssumption DEF Home
<1>7. /\ projects'[k] = created
      /\ worktrees'[w] = IF worktrees[w] = NoRow THEN home.repository ELSE worktrees[w]
      /\ \A x \in Paths : worktrees[x] # NoRow => worktrees'[x] = worktrees[x]
      /\ \A j \in Keys : j # k =>
           projects'[j] = projects[j] /\ primary'[j] = primary[j] /\ linked'[j] = linked[j]
  BY <1>1, <1>2 DEF RegistryInv, RegistryTypeOK
<1>8. RegistryTypeOK'
  <2>1. SessionName(home.repository) \in RepoKey
    BY <1>1 DEF RepoKey
  <2>2. repos' \in [Paths -> RepoKey \cup {NoRow}]
    BY <1>1, <1>2, <2>1 DEF RegistryInv, RegistryTypeOK
  <2>3. primary' \in [Keys -> SUBSET Paths] /\ linked' \in [Keys -> SUBSET Paths]
    BY <1>1, <1>2 DEF RegistryInv, RegistryTypeOK
  <2> QED BY <1>1, <1>2, <1>3, <2>2, <2>3 DEF RegistryInv, RegistryTypeOK
<1>9. \A j \in Keys : projects[j] # NoRow =>
        /\ primary[j] = {projects[j].worktree} /\ projects[j] \in Home
        /\ worktrees'[projects[j].worktree] = projects[j].repository
  <2> SUFFICES ASSUME NEW j \in Keys, projects[j] # NoRow
               PROVE  /\ primary[j] = {projects[j].worktree} /\ projects[j] \in Home
                      /\ worktrees'[projects[j].worktree] = projects[j].repository
    OBVIOUS
  <2>1. projects[j] \in Home
    BY DEF RegistryInv, RegistryTypeOK
  <2>2. projects[j].worktree \in Paths /\ projects[j].repository \in Paths
    BY <2>1 DEF Home
  <2>3. /\ primary[j] = {projects[j].worktree}
        /\ worktrees[projects[j].worktree] = projects[j].repository
    BY DEF RegistryInv, OneHomePerProject
  <2> QED BY <1>7, <2>1, <2>2, <2>3, PathsAssumption
<1>10. primary'[k] = {created.worktree}
  <2>1. CASE projects[k] = NoRow
    <3>1. primary[k] = {} /\ linked[k] = {}
      BY <2>1 DEF RegistryInv, OneHomePerProject
    <3> QED BY <1>2, <1>4, <2>1, <3>1 DEF RegistryInv, RegistryTypeOK
  <2>2. CASE projects[k] # NoRow
    BY <1>2, <1>5, <1>9, <2>2 DEF RegistryInv, RegistryTypeOK
  <2> QED BY <2>1, <2>2
<1>11. worktrees'[created.worktree] = created.repository
  BY <1>4, <1>5, <1>7, <1>9
<1>12. OneHomePerProject'
  <2> SUFFICES ASSUME NEW j \in Keys
               PROVE  IF projects'[j] = NoRow THEN primary'[j] = {}
                      ELSE /\ primary'[j] = {projects'[j].worktree}
                           /\ worktrees'[projects'[j].worktree] = projects'[j].repository
    BY DEF OneHomePerProject
  <2>1. CASE j = k
    BY <1>6, <1>7, <1>10, <1>11, <2>1
  <2>2. CASE j # k
    BY <1>7, <1>9, <2>2 DEF RegistryInv, OneHomePerProject
  <2> QED BY <2>1, <2>2
<1>13. EnrolledAs[created.worktree] = k
  BY <1>1, <1>4, <1>5 DEF RegistryInv
<1>14. \A j \in Keys : /\ projects'[j] = NoRow => linked'[j] = {}
                       /\ projects'[j] # NoRow => EnrolledAs[projects'[j].worktree] = j
  BY <1>6, <1>7, <1>13 DEF RegistryInv
<1>15. \A j \in enrolled : projects'[j] = projects[j]
  <2>1. \A j \in enrolled : j \in Keys /\ projects[j] # NoRow
    BY DEF RegistryInv, RegistryTypeOK
  <2> QED BY <1>5, <1>7, <2>1
<1>16. \A j \in enrolled' : /\ projects'[j] # NoRow /\ OnDisk(j, projects[j])'
                            /\ InGit(disk, projects[j].repository)'
  BY <1>15 DEF RegistryInv, OnDisk, Identity, InGit, SameRepository
<1>17. \A i \in preparing' : OnDisk(i.key, i.home)' /\ InGit(disk, i.home.repository)'
  BY DEF RegistryInv, OnDisk, Identity, InGit, SameRepository
<1> QED BY <1>8, <1>12, <1>14, <1>16, <1>17 DEF RegistryInv

LEMMA RegistryStays ==
  ASSUME RegistryInv, UNCHANGED registry
  PROVE  RegistryInv'
BY DEF RegistryInv, RegistryTypeOK, OneHomePerProject, OnDisk, Identity, InGit, SameRepository,
       registry, registryVars

LEMMA RegistrySteps ==
  ASSUME RegistryInv, RegistryNext
  PROVE  RegistryInv'
<1>1. ASSUME NEW k \in Keys, NEW home \in Home, OpenSession(k, home) PROVE RegistryInv'
  <2>1. opens' \in 0..MaxOpens
    BY <1>1, BoundsAssumption DEF OpenSession, RegistryInv, RegistryTypeOK
  <2> QED BY <1>1, <2>1, SessionKeeps DEF OpenSession
<1>2. ASSUME NEW i \in preparing, Abandon(i) PROVE RegistryInv'
  BY <1>2
  DEF Abandon, RegistryInv, RegistryTypeOK, OneHomePerProject, OnDisk, Identity, InGit,
      SameRepository, registryVars
<1> QED BY <1>1, <1>2, PrepareKeeps, RegisterKeeps DEF RegistryNext

(************************* the inputs of a run *****************************)
\* A process works on a request and with the home of a project that has one, and
\* the thread holds those of the process that began it.
InputsAreGiven ==
  /\ pc = [p \in Procs |-> pc[p]]
  /\ own = [p \in Procs |-> own[p]]
  /\ \A p \in Procs :
       /\ pc[p] \in {"attest", "cancelling", "check", "write", "invoke"} => own[p] \in Input
       /\ pc[p] \in {"node", "asking", "answered", "save"} => held \in Input
  /\ ckpt.node # "none" \/ held # None => held \in Input
  /\ milestone \in Milestone \cup {None}

LEMMA InputsStart == StartInit => InputsAreGiven
BY DEF StartInit, Init, Nowhere, InputsAreGiven

\* Who has no input takes no step that needs one; who has one keeps it.
LEMMA InputsStay ==
  ASSUME InputsAreGiven, UNCHANGED held, NEW p \in Procs,
         pc' = [pc EXCEPT ![p] = pc'[p]], own' = [own EXCEPT ![p] = own'[p]],
         pc'[p] \in {"attest", "cancelling", "check", "write", "invoke"} => own'[p] \in Input,
         pc'[p] \in {"node", "asking", "answered", "save"} => held \in Input,
         ckpt'.node # "none" => held \in Input, milestone' \in Milestone \cup {None}
  PROVE  InputsAreGiven'
<1>1. \A q \in Procs : q # p => pc'[q] = pc[q] /\ own'[q] = own[q]
  BY DEF InputsAreGiven
<1>2. pc' = [q \in Procs |-> pc'[q]] /\ own' = [q \in Procs |-> own'[q]]
  BY DEF InputsAreGiven
<1> QED BY <1>1, <1>2 DEF InputsAreGiven

\* A process that ends forgets its input, any other keeps it.
LEMMA ForgetKeeps ==
  ASSUME InputsAreGiven, NEW p \in Procs, Forget(p)
  PROVE  /\ own' = [own EXCEPT ![p] = own'[p]]
         /\ pc'[p] # "idle" => own'[p] = own[p]
BY DEF InputsAreGiven, Forget

LEMMA InputsOther ==
  ASSUME InputsAreGiven, NEW p \in Procs, OtherStep(p)
  PROVE  InputsAreGiven'
<1>1. UNCHANGED held
  BY DEF OtherStep, thread
<1>2. /\ own' = [own EXCEPT ![p] = own'[p]]
      /\ pc'[p] # "idle" => own'[p] = own[p]
  BY ForgetKeeps DEF OtherStep
<1>3. ckpt' = ckpt
  BY DEF OtherStep, Begin, LookForPause, CancelLooks, ResolveCheck, ResolveWrite, Reconcile, Reap,
         NodePause, NodePauseUnrecorded, Interrupt, PauseAnswered, NodeExecute, NodeAdvance,
         NodeFail, ckptVars
<1>4. pc' = [pc EXCEPT ![p] = pc'[p]]
  BY DEF InputsAreGiven, OtherStep, Begin, LookForPause, CancelLooks, ResolveCheck, ResolveWrite,
         Reconcile, Reap, NodePause, NodePauseUnrecorded, Interrupt, PauseAnswered, NodeExecute,
         NodeAdvance, NodeFail, Stop, Goto, Then
<1>5. /\ pc'[p] \in {"check", "write", "invoke"} => pc[p] \in {"cancelling", "check", "write"}
      /\ pc'[p] \in {"asking", "answered", "save"} => pc[p] \in {"node", "asking", "answered"}
      /\ pc'[p] \notin {"attest", "cancelling", "node"}
  <2>1. ASSUME NEW c, Begin(p, c) PROVE pc'[p] \in {"claim", "look"}
    BY <2>1 DEF Begin, InputsAreGiven
  <2>2. CASE LookForPause(p) \/ CancelLooks(p) \/ ResolveCheck(p) \/ ResolveWrite(p)
    BY <2>2 DEF LookForPause, CancelLooks, ResolveCheck, ResolveWrite, Stop, Goto, InputsAreGiven
  <2>3. CASE Reconcile(p) \/ Reap(p)
    BY <2>3 DEF Reconcile, Reap, Stop, InputsAreGiven
  <2>4. CASE NodePause(p) \/ NodePauseUnrecorded(p) \/ Interrupt(p) \/ PauseAnswered(p)
    BY <2>4 DEF NodePause, NodePauseUnrecorded, Interrupt, PauseAnswered, AtNode, Stop, Goto, Then,
           InputsAreGiven
  <2>5. CASE NodeExecute(p) \/ NodeAdvance(p) \/ NodeFail(p)
    BY <2>5 DEF NodeExecute, NodeAdvance, NodeFail, AtNode, Then, InputsAreGiven
  <2> QED BY <2>1, <2>2, <2>3, <2>4, <2>5 DEF OtherStep
<1>6. /\ pc'[p] \in {"attest", "cancelling", "check", "write", "invoke"} => own'[p] \in Input
      /\ pc'[p] \in {"node", "asking", "answered", "save"} => held \in Input
  BY <1>2, <1>5 DEF InputsAreGiven
<1>7. milestone' \in Milestone \cup {None}
  BY DEF OtherStep, InputsAreGiven
<1> QED BY <1>1, <1>2, <1>3, <1>4, <1>6, <1>7, InputsStay DEF InputsAreGiven

\* A process that stops: its command is over.
LEMMA InputsStop ==
  ASSUME InputsAreGiven, NEW p \in Procs, Stop(p), Forget(p), UNCHANGED <<ckpt, held, milestone>>
  PROVE  InputsAreGiven'
<1>1. pc' = [pc EXCEPT ![p] = pc'[p]] /\ pc'[p] = "idle"
  BY DEF Stop, InputsAreGiven
<1> QED BY <1>1, ForgetKeeps, InputsStay DEF InputsAreGiven

\* The project of a validated worktree has a home.
LEMMA ValidatedHome ==
  ASSUME RegistryInv, Validated(Project)
  PROVE  projects[Project] \in Home
BY ProjectAssumption DEF RegistryInv, RegistryTypeOK, Validated

\* What resume, approve and reject hand over is a request.
LEMMA RememberedIsRequest ==
  ASSUME InputsAreGiven
  PROVE  Remembered \in Request(UNION {r.taint : r \in Requests})
<1>1. <<>> \in Seq({"item", "prose"}) /\ <<>> \in Seq({"text", "blank"})
  OBVIOUS
<1>2. (IF milestone = None THEN "M6" ELSE milestone) \in Milestone
  BY DEF InputsAreGiven, Milestone
<1>3. {} \in SUBSET UNION {r.taint : r \in Requests}
  OBVIOUS
<1>4. "medium" \in Profile /\ FALSE \in BOOLEAN
  BY DEF Profile, Risk
<1> QED BY <1>1, <1>2, <1>3, <1>4 DEF Remembered, Request

LEMMA InputsControl ==
  ASSUME InputsAreGiven, RegistryInv, NEW p \in Procs, ControlStep(p)
  PROVE  InputsAreGiven'
<1>1. CASE \E r \in Requests : StartRun(p, r)
  <2>1. PICK r \in Requests : StartRun(p, r)
    BY <1>1
  <2>2. /\ pc' = [pc EXCEPT ![p] = "attest"]
        /\ own' = [own EXCEPT ![p] = [request |-> r, home |-> projects[Project]]]
        /\ projects[Project] \in Home /\ UNCHANGED <<ckpt, held, milestone>>
    BY <2>1, ValidatedHome DEF StartRun, Start, ckptVars, thread
  <2>3. pc'[p] = "attest" /\ own'[p] \in Input
    BY <2>2, RequestsAssumption DEF InputsAreGiven, Input
  <2>4. pc' = [pc EXCEPT ![p] = pc'[p]] /\ own' = [own EXCEPT ![p] = own'[p]]
    BY <2>2 DEF InputsAreGiven
  <2> QED BY <2>2, <2>3, <2>4, InputsStay DEF InputsAreGiven
<1>2. CASE AttestRun(p)
  <2>1. CASE Stop(p) /\ SetStatus("failed")
    BY <1>2, <2>1, InputsStop DEF AttestRun, Attest, ckptVars, thread, SetStatus
  <2>2. CASE Goto(p, "invoke")
    <3>1. pc[p] = "attest" /\ Forget(p) /\ UNCHANGED <<ckpt, held>>
      BY <1>2 DEF AttestRun, Attest, ckptVars, thread
    <3>2. pc' = [pc EXCEPT ![p] = pc'[p]] /\ pc'[p] = "invoke"
      BY <2>2 DEF Goto, InputsAreGiven
    <3>3. own' = [own EXCEPT ![p] = own'[p]] /\ own'[p] \in Input
      BY <3>1, <3>2, ForgetKeeps DEF InputsAreGiven
    <3>4. milestone' \in Milestone \cup {None}
      BY <1>2, <3>1 DEF AttestRun, InputsAreGiven, Input, Request
    <3> QED BY <3>1, <3>2, <3>3, <3>4, InputsStay DEF InputsAreGiven
  <2> QED BY <1>2, <2>1, <2>2 DEF AttestRun, Attest
<1>3. CASE ClaimRun(p)
  <2>1. UNCHANGED <<ckpt, held, milestone>>
    BY <1>3 DEF ClaimRun, Claim, ClaimRefused, ckptVars, thread
  <2>2. CASE Validated(Project)
    <3>1. /\ Claim(p)
          /\ own' = [own EXCEPT ![p] = IF pc'[p] = "idle" THEN None
                                       ELSE [request |-> Remembered, home |-> projects[Project]]]
      BY <1>3, <2>2 DEF ClaimRun
    <3>2. pc' = [pc EXCEPT ![p] = pc'[p]] /\ pc'[p] \in {"idle", "invoke", "cancelling", "check"}
      BY <3>1 DEF Claim, Goto, Stop, InputsAreGiven
    <3>3. own' = [own EXCEPT ![p] = own'[p]] /\ (pc'[p] # "idle" => own'[p] \in Input)
      BY <2>2, <3>1, ValidatedHome, RememberedIsRequest DEF InputsAreGiven, Input
    <3> QED BY <2>1, <3>2, <3>3, InputsStay DEF InputsAreGiven
  <2>3. CASE ~Validated(Project)
    <3>1. Stop(p) /\ own' = own
      BY <1>3, <2>3 DEF ClaimRun, ClaimRefused
    <3>2. pc' = [pc EXCEPT ![p] = pc'[p]] /\ pc'[p] = "idle" /\ own' = [own EXCEPT ![p] = own'[p]]
      BY <3>1 DEF Stop, InputsAreGiven
    <3> QED BY <2>1, <3>2, InputsStay DEF InputsAreGiven
  <2> QED BY <2>2, <2>3
<1>4. CASE InvokeRun(p)
  <2>1. pc[p] = "invoke" /\ Invoke(p) /\ Forget(p) /\ UNCHANGED <<ckpt, milestone>>
    BY <1>4 DEF InvokeRun, Invoke
  <2>2. own[p] \in Input
    BY <2>1 DEF InputsAreGiven
  <2>3. held' \in Input
    BY <1>4, <2>2 DEF InvokeRun, InputOf, InputsAreGiven
  <2>4. pc' = [pc EXCEPT ![p] = pc'[p]] /\ pc'[p] \in {"idle", "node"}
    BY <2>1 DEF Invoke, Stop, InputsAreGiven
  <2>5. own' = [own EXCEPT ![p] = own'[p]]
    BY <2>1, ForgetKeeps
  <2>6. \A q \in Procs : q # p => pc'[q] = pc[q] /\ own'[q] = own[q]
    BY <2>4, <2>5 DEF InputsAreGiven
  <2>7. pc' = [q \in Procs |-> pc'[q]] /\ own' = [q \in Procs |-> own'[q]]
    BY <2>4, <2>5 DEF InputsAreGiven
  <2> QED BY <2>1, <2>3, <2>4, <2>6, <2>7 DEF InputsAreGiven
<1>5. CASE StartNode(p)
  <2>1. pc[p] = "node" /\ Then(p, "judge") /\ UNCHANGED <<ckpt, held, own>>
    BY <1>5 DEF StartNode, NodeStart, AtNode, ckptVars, thread
  <2>2. pc' = [pc EXCEPT ![p] = pc'[p]] /\ pc'[p] = "save" /\ own' = [own EXCEPT ![p] = own'[p]]
    BY <2>1 DEF Then, InputsAreGiven
  <2>3. milestone' \in Milestone \cup {None}
    BY <1>5, <2>1 DEF StartNode, InputsAreGiven, Input, Request
  <2> QED BY <2>1, <2>2, <2>3, InputsStay DEF InputsAreGiven
<1>6. CASE RefuseWorktree(p)
  BY <1>6, InputsStop DEF RefuseWorktree, Raise, ckptVars, thread
<1>7. CASE SaveRun(p)
  <2>1. /\ pc[p] = "save" /\ UNCHANGED <<held, milestone>>
        /\ own' = [own EXCEPT ![p] = IF pc'[p] = "idle" THEN None ELSE @]
    BY <1>7 DEF SaveRun, Save
  <2>2. held \in Input
    BY <2>1 DEF InputsAreGiven
  <2>3. pc' = [pc EXCEPT ![p] = pc'[p]] /\ pc'[p] \in {"idle", "node"}
    BY <1>7 DEF SaveRun, Save, Stop, InputsAreGiven
  <2>4. own' = [own EXCEPT ![p] = own'[p]]
    BY <2>1 DEF InputsAreGiven
  <2> QED BY <2>1, <2>2, <2>3, <2>4, InputsStay DEF InputsAreGiven
<1>8. CASE JudgeRun(p)
  <2>1. PICK v : NodeJudge(p, v)
    BY <1>8 DEF JudgeRun
  <2>2. pc[p] = "node" /\ UNCHANGED <<ckpt, held, own, milestone>>
    BY <1>8, <2>1 DEF JudgeRun, NodeJudge, AtNode, ckptVars, startVars
  <2>3. pc' = [pc EXCEPT ![p] = pc'[p]] /\ pc'[p] = "save" /\ own' = [own EXCEPT ![p] = own'[p]]
    BY <2>1, <2>2 DEF NodeJudge, Then, InputsAreGiven
  <2> QED BY <2>2, <2>3, InputsStay DEF InputsAreGiven
<1>9. CASE OtherStep(p)
  BY <1>9, InputsOther
<1> QED
  BY <1>1, <1>2, <1>3, <1>4, <1>5, <1>6, <1>7, <1>8, <1>9 DEF ControlStep

LEMMA InputsRest ==
  ASSUME InputsAreGiven, UNCHANGED <<pc, ckpt, own, held, milestone>>
  PROVE  InputsAreGiven'
BY DEF InputsAreGiven

StartInv == RegistryInv /\ InputsAreGiven

\* Every step of an operator, a run or a client keeps both parts.
THEOREM StartInvariant == StartSpec => []StartInv
<1>1. StartInit => StartInv
  BY RegistryStart, InputsStart DEF StartInit, StartInv
<1>2. ASSUME StartInv, [StartNext]_allVars PROVE StartInv'
  <2>1. ASSUME NEW p \in Procs, ControlStep(p), UNCHANGED <<registry, kills>> PROVE StartInv'
    BY <1>2, <2>1, InputsControl, RegistryStays DEF StartInv
  <2>2. ASSUME NEW p \in Procs, WriteCharter(p) \/ WriteCatalogue(p) PROVE StartInv'
    <3>1. UNCHANGED <<registry, pc, ckpt, own, held, milestone>>
      BY <2>2 DEF WriteCharter, WriteCatalogue, GoOn, vars, procVars, ckptVars, thread
    <3> QED BY <1>2, <3>1, InputsRest, RegistryStays DEF StartInv
  <2>3. ASSUME NEW p \in Procs, OpenMemory(p) PROVE StartInv'
    <3>1. UNCHANGED <<pc, ckpt, own, held, milestone>>
      BY <2>3 DEF OpenMemory, vars, procVars, ckptVars, thread
    <3>2. held.home \in Home
      BY <1>2, <2>3 DEF StartInv, InputsAreGiven, OpenMemory, InStart, Input
    <3>3. CASE UNCHANGED registry
      BY <1>2, <3>1, <3>3, InputsRest, RegistryStays DEF StartInv
    <3>4. CASE /\ SessionAccepted(Project, held.home)
               /\ RecordSession(Project, held.home)
               /\ UNCHANGED <<disk, preparing, inits, opens, enrolled>>
      <4>1. opens' \in 0..MaxOpens
        BY <1>2, <3>4 DEF StartInv, RegistryInv, RegistryTypeOK
      <4>2. RegistryInv'
        BY <1>2, <3>2, <3>4, <4>1, SessionKeeps, ProjectAssumption DEF StartInv
      <4> QED BY <1>2, <3>1, <4>2, InputsRest DEF StartInv
    <3> QED BY <2>3, <3>3, <3>4 DEF OpenMemory
  <2>4. ASSUME NEW p \in Procs, RaiseRun(p) \/ KillRun(p), UNCHANGED registry PROVE StartInv'
    <3>1. Stop(p) /\ Forget(p) /\ UNCHANGED <<ckpt, held, milestone>>
      BY <2>4 DEF RaiseRun, KillRun, Raise, Kill, ckptVars, thread
    <3> QED BY <1>2, <2>4, <3>1, InputsStop, RegistryStays DEF StartInv
  <2>5. CASE Age /\ UNCHANGED <<registry, startVars>>
    BY <1>2, <2>5, InputsRest, RegistryStays DEF Age, procVars, ckptVars, startVars, StartInv
  <2>6. CASE RegistryNext /\ UNCHANGED <<vars, startVars>>
    BY <1>2, <2>6, InputsRest, RegistrySteps DEF vars, procVars, ckptVars, startVars, StartInv
  <2>7. CASE UNCHANGED allVars
    BY <1>2, <2>7, InputsRest, RegistryStays
    DEF allVars, vars, procVars, ckptVars, startVars, StartInv
  <2> QED
    BY <1>2, <2>1, <2>2, <2>3, <2>4, <2>5, <2>6, <2>7 DEF StartNext, ProcessStep, StartStep
<1> QED BY <1>1, <1>2, PTL DEF StartSpec

\* Whichever of init and session_open writes last, for any number of keys,
\* worktrees, sessions and runs: a project has one home (_ensure_project,
\* session_open).
THEOREM ProjectsHaveOneHome == StartSpec => []OneHomePerProject
<1>1. StartInv => OneHomePerProject
  BY DEF StartInv, RegistryInv
<1> QED BY <1>1, StartInvariant, PTL

\* A key that init has enrolled keeps a worktree that start and resume accept.
THEOREM EnrolledStaysUsable == StartSpec => []EnrolledIsUsable
<1>1. StartInv => EnrolledIsUsable
  BY DEF StartInv, RegistryInv, EnrolledIsUsable, Validated, OnDisk
<1> QED BY <1>1, StartInvariant, PTL

(************************* the tables of node_start ************************)
InGraph(p) == pc[p] \in {"node", "asking", "answered", "save"}

Whole == rows = RowsOf(Plan.macros)
CharterOwed == IF Synthesized THEN {held.request} ELSE {}

\* A process in the graph is at a node; until the first checkpoint that node is
\* node_start, so that every first checkpoint is one that node_start has noted
\* its errors in.
AtStart(p) ==
  /\ InGraph(p) => at[p].node # "none"
  /\ sub[p] # "none" => pc[p] = "save"
  /\ ckpt.node = "none" =>
       /\ pc[p] \notin {"asking", "answered"}
       /\ pc[p] = "node" => at[p].node = "start"
       /\ pc[p] = "save" => sub[p] # "none"

\* What a process has behind it in node_start is in the tables or in its notes.
Written(p) ==
  /\ sub[p] = "charter" => Synthesized
  /\ sub[p] \in {"session", "done"} /\ "catalogue" \notin noted[p] => Whole
  /\ sub[p] \in {"catalogue", "session", "done"} /\ "charter" \notin noted[p] => charters = CharterOwed

\* The tables hold nothing but parts of the one plan, and nothing before there
\* is one.
PartsOfPlan ==
  IF held = None THEN rows = {} /\ charters = {}
  ELSE rows \subseteq RowsOf(Plan.macros) /\ charters \subseteq CharterOwed

RecordInv ==
  /\ sub = [p \in Procs |-> sub[p]] /\ noted = [p \in Procs |-> noted[p]]
  /\ \A p \in Procs : AtStart(p) /\ Written(p)
  /\ PartsOfPlan
  /\ StartIsRecorded

LEMMA RecordStart == StartInit => RecordInv
BY DEF StartInit, Init, Nowhere, RecordInv, InGraph, AtStart, Written, PartsOfPlan, StartIsRecorded


\* What is written of the plan is of the plan.
LEMMA PlanIsSeq ==
  ASSUME held \in Input
  PROVE  \E S : Plan.macros \in Seq(S)
<1> DEFINE r == held.request
           m == Plan.macros
<1>1. r.goal \in Seq({"item", "prose"})
  BY DEF Input, Request
<1>2. m = CASE UseM6HardcodedCatalogue(r) -> M6Catalogue
            [] ~UseM6HardcodedCatalogue(r) /\ r.goal = <<>> -> <<>>
            [] OTHER -> SynthesizeFromGoal(r)
  BY DEF Plan, PlanOf
<1> HIDE DEF m, r
<1>3. m = M6Catalogue => m \in Seq(Seq({"low", "medium", "high"}))
  BY DEF M6Catalogue
<1>4. m = <<>> => m \in Seq({})
  OBVIOUS
<1>5. ASSUME m = SynthesizeFromGoal(r) PROVE \E S : m \in Seq(S)
  <2> DEFINE n == AtMost(5, SplitGoalBullets(r.goal))
  <2>1. n \in Nat
    <3>1. Len(r.goal) \in Nat
      BY <1>1
    <3> QED BY <3>1 DEF AtMost, SplitGoalBullets
  <2>2. m = [a \in 1..n |-> m[a]]
    BY <1>5 DEF SynthesizeFromGoal
  <2> HIDE DEF n
  <2> DEFINE S == {m[a] : a \in 1..n}
  <2>3. m \in [1..n -> S]
    BY <2>2
  <2> HIDE DEF S
  <2> QED BY <2>1, <2>3
<1>6. \E S : m \in Seq(S)
  BY <1>2, <1>3, <1>4, <1>5
<1> QED BY <1>6 DEF m

LEMMA PartOfRows ==
  ASSUME held \in Input, NEW n \in {0, Len(Plan.macros) - 1}, Plan.macros # <<>>
  PROVE  RowsOf(SubSeq(Plan.macros, 1, n)) \subseteq RowsOf(Plan.macros)
<1> DEFINE m == Plan.macros
           part == SubSeq(m, 1, n)
<1>1. PICK S : m \in Seq(S)
  BY PlanIsSeq
<1> HIDE DEF m
<1>2. Len(m) \in Nat /\ DOMAIN m = 1..Len(m) /\ Len(m) # 0
  BY <1>1 DEF m
<1>3. n \in Nat /\ n <= Len(m)
  BY <1>2 DEF m
<1>4. \A i \in 1..n : m[i] \in S
  BY <1>1, <1>2, <1>3
<1>5. part \in Seq(S) /\ Len(part) = n /\ \A i \in 1..n : part[i] = m[i]
  <2>1. /\ part \in Seq(S)
        /\ Len(part) = IF 1 <= n THEN n - 1 + 1 ELSE 0
        /\ \A i \in 1..n - 1 + 1 : part[i] = m[1 + i - 1]
    BY <1>3, <1>4, SubSeqProperties
  <2> HIDE DEF part
  <2> QED BY <1>3, <2>1
<1> HIDE DEF part
<1>6. DOMAIN part = 1..n
  BY <1>5
<1>7. \A a \in DOMAIN part : a \in DOMAIN m /\ part[a] = m[a]
  BY <1>2, <1>3, <1>5, <1>6
<1>8. RowsOf(part) \subseteq RowsOf(m)
  BY <1>7 DEF RowsOf
<1> QED BY <1>8 DEF part, m

\* A process that leaves the tables alone, and is not on its way through
\* node_start, or ends.
LEMMA RecordMove ==
  ASSUME RecordInv, NEW p \in Procs, UNCHANGED <<ckpt, held, errors, rows, charters>>,
         at' = [at EXCEPT ![p] = at'[p]], pc' = [pc EXCEPT ![p] = pc'[p]],
         at = [q \in Procs |-> at[q]], pc = [q \in Procs |-> pc[q]],
         sub' = [sub EXCEPT ![p] = sub'[p]], noted' = [noted EXCEPT ![p] = noted'[p]],
         sub'[p] = "none" \/ Written(p)',
         AtStart(p)'
  PROVE  RecordInv'
<1>1. \A q \in Procs : q # p =>
        pc'[q] = pc[q] /\ at'[q] = at[q] /\ sub'[q] = sub[q] /\ noted'[q] = noted[q]
  BY DEF RecordInv
<1>2. sub' = [q \in Procs |-> sub'[q]] /\ noted' = [q \in Procs |-> noted'[q]]
  BY DEF RecordInv
<1>3. \A m : RowsOf(m)' = RowsOf(m)
  BY DEF RowsOf
<1>4. Plan' = Plan /\ Synthesized' = Synthesized /\ CharterOwed' = CharterOwed
  BY DEF Plan, Synthesized, CharterOwed
<1>5. Whole' = Whole
  BY <1>3, <1>4 DEF Whole
<1>6. ASSUME NEW q \in Procs, q # p PROVE AtStart(q)' /\ Written(q)'
  BY <1>1, <1>4, <1>5, <1>6 DEF RecordInv, AtStart, InGraph, Written
<1>7. Written(p)'
  BY DEF Written
<1>8. PartsOfPlan' /\ StartIsRecorded'
  BY <1>3, <1>4 DEF RecordInv, PartsOfPlan, StartIsRecorded, CharterOwed
<1> QED BY <1>2, <1>6, <1>7, <1>8 DEF RecordInv

\* A process that is forgotten about when it ends, and is not in node_start.
LEMMA RecordForget ==
  ASSUME RecordInv, NEW p \in Procs, Forget(p), pc'[p] = "idle" \/ pc[p] # "save"
  PROVE  /\ sub' = [sub EXCEPT ![p] = sub'[p]] /\ noted' = [noted EXCEPT ![p] = noted'[p]]
         /\ sub'[p] = "none"
BY DEF RecordInv, AtStart, Forget

\* A command that ends.
LEMMA RecordStop ==
  ASSUME RecordInv, NEW p \in Procs, Stop(p), Forget(p),
         at \in [Procs -> Position], pc = [q \in Procs |-> pc[q]],
         UNCHANGED <<ckpt, held, errors, rows, charters>>
  PROVE  RecordInv'
<1>1. /\ pc' = [pc EXCEPT ![p] = pc'[p]] /\ at' = [at EXCEPT ![p] = at'[p]] /\ pc'[p] = "idle"
      /\ at = [q \in Procs |-> at[q]]
  BY DEF Stop
<1>2. /\ sub' = [sub EXCEPT ![p] = sub'[p]] /\ noted' = [noted EXCEPT ![p] = noted'[p]]
      /\ sub'[p] = "none"
  BY <1>1, RecordForget
<1>3. AtStart(p)'
  BY <1>1, <1>2 DEF AtStart, InGraph
<1> QED BY <1>1, <1>2, <1>3, RecordMove

LEMMA RecordOther ==
  ASSUME RecordInv, NEW p \in Procs, OtherStep(p),
         at \in [Procs -> Position], pc = [q \in Procs |-> pc[q]]
  PROVE  RecordInv'
<1>1. /\ UNCHANGED <<ckpt, held, errors, rows, charters>> /\ Forget(p)
      /\ at = [q \in Procs |-> at[q]]
  BY DEF OtherStep, Begin, LookForPause, CancelLooks, ResolveCheck, ResolveWrite, Reconcile, Reap,
         NodePause, NodePauseUnrecorded, Interrupt, PauseAnswered, NodeExecute, NodeAdvance,
         NodeFail, ckptVars, thread, tables
<1>2. pc' = [pc EXCEPT ![p] = pc'[p]] /\ at' = [at EXCEPT ![p] = at'[p]]
  BY DEF OtherStep, Begin, LookForPause, CancelLooks, ResolveCheck, ResolveWrite, Reconcile, Reap,
         NodePause, NodePauseUnrecorded, Interrupt, PauseAnswered, NodeExecute, NodeAdvance,
         NodeFail, Stop, Goto, Then
<1>3. /\ pc[p] # "save"
      /\ pc'[p] \in {"node", "asking", "answered", "save"} =>
           /\ at'[p].node # "none"
           /\ (pc[p] = "node" /\ at[p].node # "start") \/ pc[p] \in {"asking", "answered"}
  <2>1. ASSUME NEW c, Begin(p, c) PROVE pc[p] = "idle" /\ pc'[p] \in {"claim", "look"}
    BY <2>1 DEF Begin
  <2>2. CASE LookForPause(p) \/ CancelLooks(p) \/ ResolveCheck(p) \/ ResolveWrite(p)
    BY <2>2 DEF LookForPause, CancelLooks, ResolveCheck, ResolveWrite, Stop, Goto
  <2>3. CASE Reconcile(p) \/ Reap(p)
    BY <2>3 DEF Reconcile, Reap, Stop
  <2>4. CASE NodePause(p) \/ NodePauseUnrecorded(p) \/ Interrupt(p)
    BY <2>4 DEF NodePause, NodePauseUnrecorded, Interrupt, AtNode, Stop, Goto, RecordInv, AtStart,
           InGraph
  <2>5. CASE PauseAnswered(p)
    <3>1. pc[p] = "answered" /\ at'[p].node = AfterPause(inbox[p])
      BY <2>5 DEF PauseAnswered, Then, Position
    <3> QED BY <3>1 DEF AfterPause
  <2>6. CASE NodeExecute(p) \/ NodeFail(p)
    BY <2>6 DEF NodeExecute, NodeFail, AtNode, Then, Position
  <2>7. CASE NodeAdvance(p)
    BY <2>7 DEF NodeAdvance, AtNode, Then, Position
  <2> QED BY <2>1, <2>2, <2>3, <2>4, <2>5, <2>6, <2>7 DEF OtherStep
<1>4. /\ sub' = [sub EXCEPT ![p] = sub'[p]] /\ noted' = [noted EXCEPT ![p] = noted'[p]]
      /\ sub'[p] = "none"
  BY <1>1, <1>3, RecordForget
<1>5. AtStart(p)'
  BY <1>1, <1>3, <1>4 DEF RecordInv, AtStart, InGraph
<1> QED BY <1>1, <1>2, <1>4, <1>5, RecordMove

\* A process that is not in the graph and does not get there.
LEMMA RecordOutside ==
  ASSUME RecordInv, NEW p \in Procs,
         UNCHANGED <<at, ckpt, held, errors, rows, charters, sub, noted>>,
         at \in [Procs -> Position], pc = [q \in Procs |-> pc[q]],
         pc' = [pc EXCEPT ![p] = pc'[p]], ~InGraph(p), ~InGraph(p)'
  PROVE  RecordInv'
<1>1. /\ at = [q \in Procs |-> at[q]] /\ at' = [at EXCEPT ![p] = at'[p]]
      /\ sub' = [sub EXCEPT ![p] = sub'[p]] /\ noted' = [noted EXCEPT ![p] = noted'[p]]
  BY DEF RecordInv
<1>2. sub[p] = "none"
  BY DEF RecordInv, AtStart, InGraph
<1>3. AtStart(p)'
  BY <1>2 DEF AtStart, InGraph
<1> QED BY <1>1, <1>2, <1>3, RecordMove

LEMMA RecordControl ==
  ASSUME RecordInv, InputsAreGiven, NEW p \in Procs, ControlStep(p),
         at \in [Procs -> Position], pc = [q \in Procs |-> pc[q]]
  PROVE  RecordInv'
<1>1. CASE \E r \in Requests : StartRun(p, r)
  BY <1>1, RecordOutside DEF StartRun, Start, InGraph, ckptVars, thread, tables
<1>2. CASE AttestRun(p)
  <2>1. CASE Stop(p)
    BY <1>2, <2>1, RecordStop DEF AttestRun, Attest, ckptVars, thread, tables
  <2>2. CASE Goto(p, "invoke")
    <3>1. /\ pc[p] = "attest" /\ pc' = [pc EXCEPT ![p] = "invoke"] /\ Forget(p)
          /\ UNCHANGED <<at, ckpt, held, errors, rows, charters>>
      BY <1>2, <2>2 DEF AttestRun, Attest, Goto, ckptVars, thread, tables
    <3>2. UNCHANGED <<sub, noted>>
      BY <3>1 DEF Forget, RecordInv
    <3> QED BY <3>1, <3>2, RecordOutside DEF InGraph
  <2> QED BY <1>2, <2>1, <2>2 DEF AttestRun, Attest
<1>3. CASE ClaimRun(p)
  <2>1. /\ pc[p] = "claim" /\ UNCHANGED <<ckpt, held, errors, rows, charters, sub, noted>>
        /\ \/ Stop(p)
           \/ \E s \in {"invoke", "cancelling", "check"} : Goto(p, s)
    BY <1>3 DEF ClaimRun, Claim, ClaimRefused, ckptVars, thread, tables
  <2>2. CASE Stop(p)
    <3>1. /\ sub' = [sub EXCEPT ![p] = sub'[p]] /\ noted' = [noted EXCEPT ![p] = noted'[p]]
          /\ sub'[p] = "none"
      BY <2>1 DEF RecordInv, AtStart
    <3>2. /\ pc' = [pc EXCEPT ![p] = pc'[p]] /\ at' = [at EXCEPT ![p] = at'[p]] /\ pc'[p] = "idle"
          /\ at = [q \in Procs |-> at[q]]
      BY <2>2 DEF Stop
    <3>3. AtStart(p)'
      BY <3>1, <3>2 DEF AtStart, InGraph
    <3> QED BY <2>1, <3>1, <3>2, <3>3, RecordMove
  <2>3. ASSUME NEW s \in {"invoke", "cancelling", "check"}, Goto(p, s) PROVE RecordInv'
    BY <2>1, <2>3, RecordOutside DEF Goto, InGraph
  <2> QED BY <2>1, <2>2, <2>3
<1>4. CASE InvokeRun(p)
  <2>1. /\ Invoke(p) /\ Forget(p) /\ UNCHANGED <<ckpt, errors, rows, charters>> /\ pc[p] = "invoke"
        /\ at = [q \in Procs |-> at[q]]
        /\ held' = IF ckpt.node = "none" /\ held = None THEN own[p] ELSE held
    BY <1>4 DEF InvokeRun, InputOf, Invoke, tables
  <2>2. CASE ckpt.node = "end"
    BY <2>1, <2>2, RecordStop DEF Invoke
  <2>3. CASE ckpt.node # "end"
    <3>1. /\ pc' = [pc EXCEPT ![p] = "node"]
          /\ at' = [at EXCEPT ![p] = IF ckpt.node = "none"
                                     THEN [node |-> "start", step |-> 1] ELSE ckpt]
      BY <2>1, <2>3 DEF Invoke
    <3>2. /\ sub' = [sub EXCEPT ![p] = sub'[p]] /\ noted' = [noted EXCEPT ![p] = noted'[p]]
          /\ sub'[p] = "none"
      BY <2>1, RecordForget
    <3>3. AtStart(p)'
      BY <2>1, <3>1, <3>2 DEF AtStart, InGraph
    <3>4. CASE held' = held
      BY <2>1, <3>1, <3>2, <3>3, <3>4, RecordMove
    <3>5. CASE held = None /\ ckpt.node = "none" /\ held' = own[p]
      <4>1. held' \in Input /\ held' # None
        BY <2>1, <3>5, InputAssumption DEF InputsAreGiven
      <4>2. rows' = {} /\ charters' = {}
        BY <2>1, <3>5 DEF RecordInv, PartsOfPlan
      <4>3. PartsOfPlan' /\ StartIsRecorded'
        BY <2>1, <3>5, <4>1, <4>2 DEF PartsOfPlan, StartIsRecorded
      <4>4. \A q \in Procs : sub[q] = "none"
        BY <3>5, InputAssumption DEF RecordInv, AtStart, InputsAreGiven
      <4>5. \A q \in Procs : q # p => /\ pc'[q] = pc[q] /\ at'[q] = at[q] /\ sub'[q] = sub[q]
                                      /\ noted'[q] = noted[q]
        BY <3>1, <3>2 DEF RecordInv
      <4>6. \A q \in Procs : AtStart(q)'
        BY <2>1, <3>3, <4>5 DEF RecordInv, AtStart, InGraph
      <4>7. \A q \in Procs : Written(q)'
        BY <3>2, <4>4, <4>5 DEF Written
      <4>8. sub' = [q \in Procs |-> sub'[q]] /\ noted' = [q \in Procs |-> noted'[q]]
        BY <3>2 DEF RecordInv
      <4> QED BY <4>3, <4>6, <4>7, <4>8 DEF RecordInv
    <3> QED BY <2>1, <3>4, <3>5
  <2> QED BY <2>2, <2>3
<1>5. CASE StartNode(p)
  <2>1. /\ pc[p] = "node" /\ UNCHANGED <<ckpt, held, errors, rows, charters, noted>>
        /\ pc' = [pc EXCEPT ![p] = "save"] /\ at' = [at EXCEPT ![p].node = "judge"]
        /\ sub' = [sub EXCEPT ![p] = IF Synthesized THEN "charter" ELSE "catalogue"]
    BY <1>5 DEF StartNode, NodeStart, AtNode, Then, ckptVars, thread, tables
  <2>2. /\ pc'[p] = "save" /\ at'[p].node = "judge"
        /\ sub'[p] = IF Synthesized THEN "charter" ELSE "catalogue"
    BY <2>1 DEF RecordInv, Position
  <2>3. AtStart(p)'
    BY <2>2 DEF AtStart, InGraph
  <2>4. held # None
    BY <2>1, InputAssumption DEF InputsAreGiven
  <2>5. Synthesized' = Synthesized /\ CharterOwed' = CharterOwed
    BY <2>1 DEF Plan, Synthesized, CharterOwed
  <2>6. ~Synthesized => charters' = CharterOwed'
    BY <2>1, <2>4, <2>5 DEF RecordInv, PartsOfPlan, CharterOwed
  <2>7. Written(p)'
    BY <2>2, <2>5, <2>6 DEF Written
  <2>8. /\ sub' = [sub EXCEPT ![p] = sub'[p]] /\ noted' = [noted EXCEPT ![p] = noted'[p]]
        /\ pc' = [pc EXCEPT ![p] = pc'[p]] /\ at' = [at EXCEPT ![p] = at'[p]]
        /\ at = [q \in Procs |-> at[q]]
    BY <2>1 DEF RecordInv
  <2> QED BY <2>1, <2>3, <2>7, <2>8, RecordMove
<1>6. CASE RefuseWorktree(p)
  BY <1>6, RecordStop DEF RefuseWorktree, Raise, ckptVars, thread, tables
<1>7. CASE SaveRun(p)
  <2>1. /\ pc[p] = "save" /\ sub[p] \in {"none", "done"} /\ ckpt' = at[p]
        /\ UNCHANGED <<held, rows, charters>> /\ errors' = errors \cup noted[p]
        /\ noted' = [noted EXCEPT ![p] = {}] /\ sub' = [sub EXCEPT ![p] = "none"]
    BY <1>7 DEF SaveRun, Save, thread, tables
  <2>2. /\ pc' = [pc EXCEPT ![p] = pc'[p]] /\ pc'[p] \in {"idle", "node"}
        /\ at' = [at EXCEPT ![p] = at'[p]] /\ (pc'[p] = "node" => at'[p] = at[p])
    BY <1>7 DEF SaveRun, Save, Stop
  <2>3. at[p].node # "none" /\ ckpt'.node # "none"
    BY <2>1 DEF RecordInv, AtStart, InGraph
  <2>4. \A m : RowsOf(m)' = RowsOf(m)
    BY <2>1 DEF RowsOf
  <2>5. Plan' = Plan /\ Synthesized' = Synthesized /\ CharterOwed' = CharterOwed
    BY <2>1 DEF Plan, Synthesized, CharterOwed
  <2>6. Whole' = Whole
    BY <2>1, <2>4, <2>5 DEF Whole
  <2>7. \A q \in Procs : q # p => /\ pc'[q] = pc[q] /\ at'[q] = at[q] /\ sub'[q] = sub[q]
                                  /\ noted'[q] = noted[q]
    BY <2>1, <2>2 DEF RecordInv
  <2>8. sub'[p] = "none"
    BY <2>1 DEF RecordInv
  <2>9. \A q \in Procs : AtStart(q)'
    BY <2>2, <2>3, <2>7, <2>8 DEF RecordInv, AtStart, InGraph
  <2>10. \A q \in Procs : Written(q)'
    BY <2>1, <2>5, <2>6, <2>7, <2>8 DEF RecordInv, Written
  <2>11. PartsOfPlan'
    BY <2>1, <2>4, <2>5 DEF RecordInv, PartsOfPlan
  <2>12. ("catalogue" \notin errors' => Whole) /\ ("charter" \notin errors' => charters = CharterOwed)
    <3>1. CASE ckpt.node = "none"
      <4>1. sub[p] = "done"
        BY <2>1, <3>1 DEF RecordInv, AtStart
      <4> QED BY <2>1, <4>1 DEF RecordInv, Written
    <3>2. CASE ckpt.node # "none"
      BY <2>1, <3>2 DEF RecordInv, StartIsRecorded, Whole, CharterOwed
    <3> QED BY <3>1, <3>2
  <2>13. StartIsRecorded'
    BY <2>1, <2>5, <2>6, <2>12 DEF StartIsRecorded, Whole, CharterOwed
  <2>14. sub' = [q \in Procs |-> sub'[q]] /\ noted' = [q \in Procs |-> noted'[q]]
    BY <2>1 DEF RecordInv
  <2> QED BY <2>9, <2>10, <2>11, <2>13, <2>14 DEF RecordInv
<1>8. CASE JudgeRun(p)
  <2>1. PICK v \in Verdicts \cup {"block"} : NodeJudge(p, v)
    BY <1>8 DEF JudgeRun
  <2>2. /\ pc[p] = "node" /\ at[p].node = "judge" /\ pc' = [pc EXCEPT ![p] = "save"]
        /\ UNCHANGED <<ckpt, held, errors, rows, charters, sub, noted>>
    BY <1>8, <2>1 DEF JudgeRun, NodeJudge, AtNode, Then, ckptVars, startVars
  <2>3. \E n \in {"execute", "pause", "fail"} : at' = [at EXCEPT ![p].node = n]
    BY <2>1, VerdictsAssumption DEF NodeJudge, Then
  <2>4. /\ pc'[p] = "save" /\ at'[p].node # "none" /\ sub'[p] = "none" /\ ckpt.node # "none"
    BY <2>2, <2>3 DEF RecordInv, AtStart, Position
  <2>5. AtStart(p)'
    BY <2>2, <2>4 DEF AtStart, InGraph
  <2>6. /\ sub' = [sub EXCEPT ![p] = sub'[p]] /\ noted' = [noted EXCEPT ![p] = noted'[p]]
        /\ pc' = [pc EXCEPT ![p] = pc'[p]] /\ at' = [at EXCEPT ![p] = at'[p]]
        /\ at = [q \in Procs |-> at[q]]
    BY <2>2, <2>3 DEF RecordInv
  <2> QED BY <2>2, <2>4, <2>5, <2>6, RecordMove
<1>9. CASE OtherStep(p)
  BY <1>9, RecordOther
<1> QED
  BY <1>1, <1>2, <1>3, <1>4, <1>5, <1>6, <1>7, <1>8, <1>9 DEF ControlStep

\* A step between the checkpoints: into the charter, the catalogue or memory.
LEMMA RecordWrite ==
  ASSUME RecordInv, InputsAreGiven, NEW p \in Procs, StartStep(p)
  PROVE  RecordInv'
<1>1. pc[p] = "save" /\ UNCHANGED <<ckpt, held, errors, pc, at>>
  BY DEF StartStep, WriteCharter, WriteCatalogue, OpenMemory, GoOn, InStart, thread, vars,
         ckptVars, procVars
<1>2. held \in Input /\ held # None
  BY <1>1, InputAssumption DEF InputsAreGiven
<1>3. \A m : RowsOf(m)' = RowsOf(m)
  BY <1>1 DEF RowsOf
<1>4. Plan' = Plan /\ Synthesized' = Synthesized /\ CharterOwed' = CharterOwed
  BY <1>1 DEF Plan, Synthesized, CharterOwed
<1>5. /\ rows \subseteq rows' /\ rows' \subseteq RowsOf(Plan.macros)
      /\ charters \subseteq charters' /\ charters' \subseteq CharterOwed
  <2>1. CASE WriteCharter(p)
    <3>1. Synthesized
      BY <2>1 DEF WriteCharter, InStart, RecordInv, Written
    <3> QED BY <1>2, <2>1, <3>1 DEF WriteCharter, RecordInv, PartsOfPlan, CharterOwed
  <2>2. CASE WriteCatalogue(p)
    <3>1. rows \subseteq RowsOf(Plan.macros) /\ charters \subseteq CharterOwed /\ charters' = charters
      BY <1>2, <2>2 DEF WriteCatalogue, RecordInv, PartsOfPlan
    <3>2. CASE rows' = rows \cup RowsOf(Plan.macros)
      BY <3>1, <3>2
    <3>3. ASSUME NEW n \in {0, Len(Plan.macros) - 1}, Plan.macros # <<>>,
                 rows' = rows \cup RowsOf(SubSeq(Plan.macros, 1, n))
          PROVE  rows \subseteq rows' /\ rows' \subseteq RowsOf(Plan.macros)
      BY <1>2, <3>1, <3>3, PartOfRows
    <3> QED BY <2>2, <3>1, <3>2, <3>3 DEF WriteCatalogue
  <2>3. CASE OpenMemory(p)
    BY <1>2, <2>3 DEF OpenMemory, tables, RecordInv, PartsOfPlan
  <2> QED BY <2>1, <2>2, <2>3 DEF StartStep
<1>6. (Whole => Whole') /\ (charters = CharterOwed => charters' = CharterOwed')
  BY <1>3, <1>4, <1>5 DEF Whole
<1>7. PartsOfPlan' /\ StartIsRecorded'
  <2>1. PartsOfPlan'
    BY <1>1, <1>2, <1>3, <1>4, <1>5 DEF PartsOfPlan
  <2>2. StartIsRecorded'
    BY <1>1, <1>3, <1>4, <1>6 DEF RecordInv, StartIsRecorded, Whole, CharterOwed
  <2> QED BY <2>1, <2>2
<1>8. /\ sub' = [sub EXCEPT ![p] = sub'[p]] /\ sub'[p] \in {"catalogue", "session", "done"}
      /\ noted' = [noted EXCEPT ![p] = noted'[p]] /\ noted[p] \subseteq noted'[p]
  BY DEF RecordInv, StartStep, WriteCharter, WriteCatalogue, OpenMemory, GoOn
<1>9. \A q \in Procs : q # p => sub'[q] = sub[q] /\ noted'[q] = noted[q]
  BY <1>8 DEF RecordInv
<1>10. \A q \in Procs : AtStart(q)'
  BY <1>1, <1>8, <1>9 DEF RecordInv, AtStart, InGraph
<1>11. \A q \in Procs : q # p => Written(q)'
  BY <1>4, <1>6, <1>9 DEF RecordInv, Written
<1>12. Written(p)'
  <2>1. CASE WriteCharter(p)
    <3>1. sub'[p] = "catalogue" /\ Synthesized
      BY <2>1 DEF WriteCharter, InStart, GoOn, RecordInv, Written
    <3>2. "charter" \notin noted'[p] => charters' = CharterOwed'
      <4>1. CASE charters' = charters \cup {held.request}
        BY <1>4, <1>5, <3>1, <4>1 DEF CharterOwed
      <4>2. CASE noted' = [noted EXCEPT ![p] = @ \cup {"charter"}]
        BY <4>2 DEF RecordInv
      <4> QED BY <2>1, <4>1, <4>2 DEF WriteCharter
    <3> QED BY <3>1, <3>2 DEF Written
  <2>2. CASE WriteCatalogue(p)
    <3>1. sub[p] = "catalogue" /\ sub'[p] = "session" /\ charters' = charters
      BY <2>2 DEF WriteCatalogue, InStart, GoOn, RecordInv
    <3>2. "charter" \notin noted'[p] => charters' = CharterOwed'
      BY <1>4, <1>8, <3>1 DEF RecordInv, Written
    <3>3. "catalogue" \notin noted'[p] => Whole'
      <4>1. CASE rows' = rows \cup RowsOf(Plan.macros)
        BY <1>3, <1>4, <1>5, <4>1 DEF Whole
      <4>2. CASE noted' = [noted EXCEPT ![p] = @ \cup {"catalogue"}]
        BY <4>2 DEF RecordInv
      <4> QED BY <2>2, <4>1, <4>2 DEF WriteCatalogue
    <3> QED BY <3>1, <3>2, <3>3 DEF Written
  <2>3. CASE OpenMemory(p)
    <3>1. sub[p] = "session" /\ sub'[p] = "done" /\ noted' = noted
      BY <2>3 DEF OpenMemory, InStart, RecordInv
    <3> QED BY <1>6, <3>1 DEF RecordInv, Written
  <2> QED BY <2>1, <2>2, <2>3 DEF StartStep
<1> QED BY <1>7, <1>8, <1>10, <1>11, <1>12 DEF RecordInv

LEMMA RecordRest ==
  ASSUME RecordInv, UNCHANGED <<pc, at, ckpt, startVars>>
  PROVE  RecordInv'
BY DEF RecordInv, AtStart, InGraph, Written, Whole, CharterOwed, PartsOfPlan, StartIsRecorded, Plan,
       Synthesized, RowsOf, startVars

\* Killed and done again, by as many processes as there are: what is in the
\* tables is of the plan the thread remembers, and what is not is in the notes.
THEOREM RecordInvariant == StartSpec => []RecordInv
<1>1. StartInit => RecordInv
  BY RecordStart
<1>2. ASSUME RecordInv, StartInv, DoneInv, [StartNext]_allVars PROVE RecordInv'
  <2>1. /\ at \in [Procs -> Position] /\ pc = [q \in Procs |-> pc[q]] /\ InputsAreGiven
    BY <1>2 DEF DoneInv, Typed, StartInv, InputsAreGiven
  <2>2. ASSUME NEW p \in Procs, ControlStep(p) PROVE RecordInv'
    BY <1>2, <2>1, <2>2, RecordControl
  <2>3. ASSUME NEW p \in Procs, StartStep(p) PROVE RecordInv'
    BY <1>2, <2>1, <2>3, RecordWrite
  <2>4. ASSUME NEW p \in Procs, RaiseRun(p) \/ KillRun(p) PROVE RecordInv'
    <3>1. Stop(p) /\ Forget(p) /\ UNCHANGED <<ckpt, held, errors, rows, charters>>
      BY <2>4 DEF RaiseRun, KillRun, Raise, Kill, ckptVars, thread, tables
    <3> QED BY <1>2, <2>1, <3>1, RecordStop
  <2>5. CASE Age /\ UNCHANGED startVars
    BY <1>2, <2>5, RecordRest DEF Age, procVars, ckptVars
  <2>6. CASE UNCHANGED <<vars, startVars>>
    BY <1>2, <2>6, RecordRest DEF vars, procVars, ckptVars
  <2> QED
    BY <1>2, <2>2, <2>3, <2>4, <2>5, <2>6 DEF StartNext, ProcessStep, allVars
<1> QED BY <1>1, <1>2, StartInvariant, StartIsRunControl, DoneInvariant, PTL DEF StartSpec

\* Whatever is killed on the way: once node_start is over, the tables hold its
\* plan and charter, or the errors of the run say that they do not (node_start,
\* run_workflow).
THEOREM StartsAreRecorded == StartSpec => []StartIsRecorded
<1>1. RecordInv => StartIsRecorded
  BY DEF RecordInv
<1> QED BY <1>1, RecordInvariant, PTL

\* A run that was started on a registry, and is reported completed, has executed
\* every step (node_next_step).
COROLLARY StartedIsExecuted == StartSpec => []CompletedMeansExecuted
BY StartIsRunControl, CompletedIsExecuted, PTL

\* A command on such a run that gets hold of the row acts on what it found out
\* (_claim_authorized_run).
COROLLARY StartClaimsHold == StartSpec => ClaimsAreCurrent
BY StartIsRunControl, ClaimsHold, PTL

\* The run of a start that no other command overlaps asks before it executes
\* what the judge referred to the operator (node_human_pause).
COROLLARY StartIsApproved == OneProcess /\ StartSpec => ApprovedBeforeExecuted
BY StartIsRunControl, ApprovedWhenAlone, PTL

=============================================================================

----------------------------- MODULE RunControl -----------------------------
(***************************************************************************)
(* One workflow run: its row in wf_runs, its pauses in wf_human_pauses,    *)
(* its LangGraph checkpoint, and the processes that operate on it.  A      *)
(* process is one invocation of the workflow command line (start, resume,  *)
(* approve, reject, cancel) or of reconcile_stale_runs; start, resume,     *)
(* approve and reject go on to execute the graph in the same process, and  *)
(* any of them may be killed between two database transactions.            *)
(*                                                                         *)
(* The graph is reduced to what touches the row: the nodes up to the       *)
(* judge, the operator's pause, the execution of a step, the move to the   *)
(* next step, and the failure node.  Module WorkflowGraph has the rest.    *)
(***************************************************************************)
EXTENDS Naturals, Sequences

CONSTANTS
  Procs,     \* processes; a process that has ended may start another command
  Pauses,    \* ids of pauses; one that is unused is used again
  Steps,     \* the number of micro steps of the run
  Verdicts,  \* what the judge may say
  Commands,  \* the commands each process gives
  MaxKills,  \* how many processes are killed
  None

ASSUME StepsAssumption == Steps \in Nat \ {0}
ASSUME VerdictsAssumption == Verdicts \subseteq {"proceed", "needs_operator", "block"}
ASSUME CommandsAssumption ==
  Commands \in [Procs -> SUBSET {"start", "resume", "approve", "reject", "cancel", "reconcile"}]
ASSUME MaxKillsAssumption == MaxKills \in Nat
ASSUME NoneAssumption == None \notin Pauses

VARIABLES
  status,     \* wf_runs.status, "absent" before the row exists
  fresh,      \* processes whose snapshot of the row is still current
  stale,      \* updated_at is older than the reconciler's threshold
  pending,    \* the pauses whose resolution is 'pending', oldest first
  scope,      \* wf_human_pauses.scope_key, the step the pause is about
  ckpt,       \* the latest checkpoint: the node to run next, and its step
  answer,     \* the resume value stored with that checkpoint
  pc,         \* where each process is
  cmd,        \* the command it runs
  pauseId,    \* the pause it has read or created
  at,         \* its position in the graph
  inbox,      \* the resume value it can still consume
  kills,      \* how many processes have been killed
  asked,      \* history: steps whose last verdict was needs_operator
  approved,   \* history: the steps the operator has said yes to
  executed    \* history: steps whose work has been done

rowVars   == <<status, fresh, stale>>
pauseVars == <<pending, scope>>
ckptVars  == <<ckpt, answer>>
procVars  == <<pc, cmd, pauseId, at, inbox>>
history   == <<asked, approved, executed>>
vars == <<rowVars, pauseVars, ckptVars, procVars, kills, history>>

StepNo == 1..Steps

\* The node to run next, for which step; "none" is a thread without checkpoint.
Position ==
  [node : {"none", "start", "judge", "pause", "execute", "advance", "fail", "end"},
   step : StepNo]

Nowhere == [node |-> "none", step |-> 1]

Init ==
  /\ status = "absent"
  /\ fresh = {}
  /\ stale = FALSE
  /\ pending = <<>>
  /\ scope = [x \in Pauses |-> 1]
  /\ ckpt = Nowhere
  /\ answer = None
  /\ pc = [p \in Procs |-> "idle"]
  /\ cmd = [p \in Procs |-> None]
  /\ pauseId = [p \in Procs |-> None]
  /\ at = [p \in Procs |-> Nowhere]
  /\ inbox = [p \in Procs |-> None]
  /\ kills = 0
  /\ asked = {}
  /\ approved = {}
  /\ executed = {}

----------------------------------------------------------------------------

\* Every UPDATE of the row sets updated_at: no snapshot of it is current.
SetStatus(s) ==
  /\ status' = s
  /\ fresh' = {}
  /\ stale' = FALSE

\* The process has ended: returned, failed or killed.
Stop(p) ==
  /\ pc' = [pc EXCEPT ![p] = "idle"]
  /\ cmd' = [cmd EXCEPT ![p] = None]
  /\ pauseId' = [pauseId EXCEPT ![p] = None]
  /\ at' = [at EXCEPT ![p] = Nowhere]
  /\ inbox' = [inbox EXCEPT ![p] = None]

Goto(p, where) ==
  /\ pc' = [pc EXCEPT ![p] = where]
  /\ UNCHANGED <<cmd, pauseId, at, inbox>>

\* _pending_pause: the newest one.
PendingPause == IF pending = <<>> THEN None ELSE pending[Len(pending)]

IsPending(x) == \E n \in 1..Len(pending) : pending[n] = x

\* Pauses that are neither pending nor remembered by a process.
Unused == {x \in Pauses : ~IsPending(x) /\ \A p \in Procs : pauseId[p] # x}

\* create_wf_pause, about step s.
CreatePause(x, s) ==
  /\ scope' = [scope EXCEPT ![x] = s]
  /\ pending' = Append(pending, x)
  /\ SetStatus("paused_human")

PendingWithout(x) ==
  IF IsPending(x)
  THEN LET n == CHOOSE n \in 1..Len(pending) : pending[n] = x
       IN SubSeq(pending, 1, n - 1) \o SubSeq(pending, n + 1, Len(pending))
  ELSE pending

\* The two UPDATEs of resolve_wf_pause: neither looks at the status again.
ResolvePause(x) ==
  /\ pending' = PendingWithout(x)
  /\ UNCHANGED scope
  /\ SetStatus("running")

----------------------------------------------------------------------------
(* The commands, up to the point where they execute the graph.             *)

\* cmd_start: register_run inserts the row.
Start(p) ==
  /\ pc[p] = "idle"
  /\ "start" \in Commands[p]
  /\ status = "absent"
  /\ SetStatus("running")
  /\ pc' = [pc EXCEPT ![p] = "attest"]
  /\ cmd' = [cmd EXCEPT ![p] = "start"]
  /\ UNCHANGED <<pauseId, at, inbox, pauseVars, ckptVars, history>>

\* The runtime attestation passes, or fails the run.
Attest(p) ==
  /\ pc[p] = "attest"
  /\ \/ SetStatus("running") /\ Goto(p, "invoke")
     \/ SetStatus("failed") /\ Stop(p)
  /\ UNCHANGED <<pauseVars, ckptVars, history>>

\* The commands about a run that exists.
RunCommands == {"resume", "approve", "reject", "cancel"}

\* _find_run.  cancel has nothing to do for a run that is aborted already.
Begin(p, c) ==
  /\ pc[p] = "idle"
  /\ c \in Commands[p]
  /\ status # "absent"
  /\ c = "cancel" => status # "aborted"
  /\ fresh' = fresh \cup {p}
  /\ pc' = [pc EXCEPT ![p] = IF c = "cancel" THEN "claim" ELSE "look"]
  /\ cmd' = [cmd EXCEPT ![p] = c]
  /\ UNCHANGED <<status, stale, pauseId, at, inbox, pauseVars, ckptVars, history>>

\* resume gives way to a pending pause; approve and reject need one.
MayClaim(p) == (cmd[p] = "resume") = (PendingPause = None)

LookForPause(p) ==
  /\ pc[p] = "look"
  /\ IF MayClaim(p)
     THEN /\ pc' = [pc EXCEPT ![p] = "claim"]
          /\ pauseId' = [pauseId EXCEPT ![p] = PendingPause]
          /\ UNCHANGED <<cmd, at, inbox, fresh>>
     ELSE Stop(p) /\ fresh' = fresh \ {p}
  /\ UNCHANGED <<status, stale, pauseVars, ckptVars, history>>

\* The statuses from which a command may take the run.  (AllowedPaused
\* is a faulty variant.)
AllowedPaused(c) ==
  CASE c = "resume" -> {"running"}
    [] c = "cancel" -> {"running", "paused_human", "failed"}
    [] OTHER        -> {"paused_human"}
Allowed(c) ==
  CASE c = "resume" -> {"running"}
    [] c = "cancel" -> {"running", "paused_human", "failed"}
    [] OTHER        -> {"paused_human", "running"}

\* _claim_authorized_run compares the row with the snapshot under its lock.
\* (CurrentAnyway is a faulty variant.)
CurrentAnyway(p) == p \in Procs
Current(p) == p \in fresh

Claim(p) ==
  /\ pc[p] = "claim"
  /\ IF Current(p) /\ status \in Allowed(cmd[p])
     THEN /\ SetStatus(IF cmd[p] = "cancel" THEN "aborted" ELSE "running")
          /\ Goto(p, CASE cmd[p] = "resume" -> "invoke"
                       [] cmd[p] = "cancel" -> "cancelling"
                       [] OTHER             -> "check")
     ELSE Stop(p) /\ fresh' = fresh \ {p} /\ UNCHANGED <<status, stale>>
  /\ UNCHANGED <<pauseVars, ckptVars, history>>

\* The worktree the project has by now is refused.
ClaimRefused(p) ==
  /\ pc[p] = "claim"
  /\ Stop(p)
  /\ fresh' = fresh \ {p}
  /\ UNCHANGED <<status, stale, pauseVars, ckptVars, history>>

\* cmd_cancel looks for a pending pause after it has aborted the run.
CancelLooks(p) ==
  /\ pc[p] = "cancelling"
  /\ IF PendingPause = None
     THEN Stop(p)
     ELSE /\ pc' = [pc EXCEPT ![p] = "check"]
          /\ pauseId' = [pauseId EXCEPT ![p] = PendingPause]
          /\ UNCHANGED <<cmd, at, inbox>>
  /\ UNCHANGED <<rowVars, pauseVars, ckptVars, history>>

\* resolve_wf_pause raises unless the pause is pending; the command ends.
ResolveCheck(p) ==
  /\ pc[p] = "check"
  /\ IF IsPending(pauseId[p]) THEN Goto(p, "write") ELSE Stop(p)
  /\ UNCHANGED <<rowVars, pauseVars, ckptVars, history>>

DecisionOf(c) == IF c = "approve" THEN "approved" ELSE "rejected"

ResolveWrite(p) ==
  LET x == pauseId[p]
  IN /\ pc[p] = "write"
     /\ ResolvePause(x)
     /\ IF cmd[p] = "cancel"
        THEN Stop(p) /\ UNCHANGED approved
        ELSE /\ Goto(p, "invoke")
             /\ approved' = IF cmd[p] = "approve"
                            THEN approved \cup {scope[x]} ELSE approved
     /\ UNCHANGED <<ckptVars, asked, executed>>

\* The row of a running run has not been updated for a long time.
Age ==
  /\ status = "running"
  /\ ~stale
  /\ stale' = TRUE
  /\ UNCHANGED <<status, fresh, pauseVars, ckptVars, procVars, kills, history>>

\* reconcile_stale_runs: the query, and the update of each row it returned.
Reconcile(p) ==
  /\ pc[p] = "idle"
  /\ "reconcile" \in Commands[p]
  /\ status = "running"
  /\ stale
  /\ pc' = [pc EXCEPT ![p] = "reap"]
  /\ cmd' = [cmd EXCEPT ![p] = "reconcile"]
  /\ UNCHANGED <<rowVars, pauseId, at, inbox, pauseVars, ckptVars, history>>

\* The operator may say no, and an update may fail.
Reap(p) ==
  /\ pc[p] = "reap"
  /\ SetStatus("aborted") \/ UNCHANGED rowVars
  /\ Stop(p)
  /\ UNCHANGED <<pauseVars, ckptVars, history>>

----------------------------------------------------------------------------
(* Executing the graph.                                                    *)

\* run_workflow: Command(resume) stores the decision with the checkpoint; a
\* thread with no checkpoint starts from the beginning; a finished one ends.
Invoke(p) ==
  LET given == IF cmd[p] \in {"approve", "reject"} THEN DecisionOf(cmd[p]) ELSE answer
  IN /\ pc[p] = "invoke"
     /\ answer' = given
     /\ IF ckpt.node = "end"
        THEN Stop(p)
        ELSE /\ pc' = [pc EXCEPT ![p] = "node"]
             /\ at' = [at EXCEPT ![p] = IF ckpt.node = "none"
                                        THEN [node |-> "start", step |-> 1] ELSE ckpt]
             /\ pauseId' = [pauseId EXCEPT ![p] = None]
             /\ inbox' = [inbox EXCEPT ![p] = given]
             /\ UNCHANGED cmd
     /\ UNCHANGED <<rowVars, pauseVars, ckpt, history>>

AtNode(p, n) == pc[p] = "node" /\ at[p].node = n

\* The node has run; what follows is decided, and is saved next.
Then(p, n) ==
  /\ at' = [at EXCEPT ![p].node = n]
  /\ pc' = [pc EXCEPT ![p] = "save"]
  /\ UNCHANGED <<cmd, pauseId, inbox>>

\* node_start.
NodeStart(p) ==
  /\ AtNode(p, "start")
  /\ SetStatus("running")
  /\ Then(p, "judge")
  /\ UNCHANGED <<pauseVars, ckptVars, history>>

\* gate_check to judge_node; a failed gate or check counts as a block.
NodeJudge(p, v) ==
  /\ AtNode(p, "judge")
  /\ Then(p, CASE v = "proceed"        -> "execute"
               [] v = "needs_operator" -> "pause"
               [] v = "block"          -> "fail")
  /\ asked' = IF v = "needs_operator" THEN asked \cup {at[p].step}
                                      ELSE asked \ {at[p].step}
  /\ UNCHANGED <<rowVars, pauseVars, ckptVars, approved, executed>>

\* node_human_pause up to interrupt(); an error of create_pause is ignored.
NodePause(p) ==
  /\ AtNode(p, "pause")
  /\ Unused # {}
  /\ LET x == CHOOSE x \in Unused : TRUE
     IN /\ CreatePause(x, at[p].step)
        /\ pauseId' = [pauseId EXCEPT ![p] = x]
  /\ pc' = [pc EXCEPT ![p] = "asking"]
  /\ UNCHANGED <<cmd, at, inbox, ckptVars, history>>

NodePauseUnrecorded(p) ==
  /\ AtNode(p, "pause")
  /\ Goto(p, "asking")
  /\ UNCHANGED <<rowVars, pauseVars, ckptVars, history>>

\* interrupt() raises, and invoke returns, unless there is a resume value.
Interrupt(p) ==
  /\ pc[p] = "asking"
  /\ IF inbox[p] = None THEN Stop(p) ELSE Goto(p, "answered")
  /\ UNCHANGED <<rowVars, pauseVars, ckptVars, history>>

AfterPauseAlways(d) == "execute"
AfterPause(d) == IF d = "approved" THEN "execute" ELSE "fail"

\* The rest of node_human_pause resolves the pause this execution created.
PauseAnswered(p) ==
  /\ pc[p] = "answered"
  /\ IF IsPending(pauseId[p])
     THEN ResolvePause(pauseId[p])
     ELSE UNCHANGED <<rowVars, pauseVars>>
  /\ Then(p, AfterPause(inbox[p]))
  /\ UNCHANGED <<ckptVars, history>>

\* micro_execute, or da_builder to post_exec_judge.
NodeExecute(p) ==
  /\ AtNode(p, "execute")
  /\ executed' = executed \cup {at[p].step}
  /\ \E n \in {"advance", "fail"} : Then(p, n)
  /\ UNCHANGED <<rowVars, pauseVars, ckptVars, asked, approved>>

\* evidence_record and next_step.
LastStepEarly(s) == s + 1 >= Steps
LastStep(s) == s = Steps

NodeAdvance(p) ==
  /\ AtNode(p, "advance")
  /\ IF LastStep(at[p].step)
     THEN SetStatus("completed") /\ Then(p, "end")
     ELSE /\ at' = [at EXCEPT ![p] = [node |-> "judge", step |-> @.step + 1]]
          /\ pc' = [pc EXCEPT ![p] = "save"]
          /\ UNCHANGED <<rowVars, cmd, pauseId, inbox>>
  /\ UNCHANGED <<pauseVars, ckptVars, history>>

\* workflow_fail.
NodeFail(p) ==
  /\ AtNode(p, "fail")
  /\ SetStatus("failed")
  /\ Then(p, "end")
  /\ UNCHANGED <<pauseVars, ckptVars, history>>

\* The checkpointer writes the new position, and a resume value is used up.
\* The compiled graph interrupts before human_pause, and ends at END.
UseUpAnswer == answer' = None

Save(p) ==
  /\ pc[p] = "save"
  /\ ckpt' = at[p]
  /\ UseUpAnswer
  /\ IF at[p].node \in {"pause", "end"}
     THEN Stop(p)
     ELSE /\ pc' = [pc EXCEPT ![p] = "node"]
          /\ pauseId' = [pauseId EXCEPT ![p] = None]
          /\ inbox' = [inbox EXCEPT ![p] = None]
          /\ UNCHANGED <<cmd, at>>
  /\ UNCHANGED <<rowVars, pauseVars, history>>

\* An exception leaves the graph: the command marks the run failed.
Raise(p) ==
  /\ pc[p] \in {"invoke", "node", "save"}
  /\ SetStatus("failed")
  /\ Stop(p)
  /\ UNCHANGED <<pauseVars, ckptVars, history>>

\* The process is killed, or the machine stops.
Kill(p) ==
  /\ kills < MaxKills
  /\ kills' = kills + 1
  /\ pc[p] # "idle"
  /\ Stop(p)
  /\ fresh' = fresh \ {p}
  /\ UNCHANGED <<status, stale, pauseVars, ckptVars, history>>

----------------------------------------------------------------------------

CommandStep(p) ==
  \/ Start(p) \/ Attest(p)
  \/ \E c \in RunCommands : Begin(p, c)
  \/ LookForPause(p) \/ Claim(p) \/ ClaimRefused(p) \/ CancelLooks(p)
  \/ ResolveCheck(p) \/ ResolveWrite(p)
  \/ Reconcile(p) \/ Reap(p)

Judge(p) == \E v \in Verdicts \cup {"block"} : NodeJudge(p, v)

GraphStep(p) ==
  \/ Invoke(p) \/ NodeStart(p) \/ Judge(p)
  \/ NodePause(p) \/ NodePauseUnrecorded(p) \/ Interrupt(p) \/ PauseAnswered(p)
  \/ NodeExecute(p) \/ NodeAdvance(p) \/ NodeFail(p)
  \/ Save(p)

Next ==
  \/ /\ \E p \in Procs : CommandStep(p) \/ GraphStep(p) \/ Raise(p)
     /\ UNCHANGED kills
  \/ \E p \in Procs : Kill(p)
  \/ Age

Spec == Init /\ [][Next]_vars

----------------------------------------------------------------------------
(* What a run keeps true.                                                  *)

\* A run is reported completed only when the work of every step has been
\* done, whatever was killed, resumed or run twice on the way.
CompletedMeansExecuted == status = "completed" => executed = StepNo

Executes(p) == AtNode(p, "execute") /\ pc'[p] = "save"

\* The work of a step the judge refers to the operator starts only after the
\* operator has said yes to that very step.
ApprovedBeforeExecuted ==
  [][\A p \in Procs :
       Executes(p) /\ at[p].step \in asked => at[p].step \in approved]_vars

\* A command that gets hold of the row acts on what it read before: resume
\* found no pending pause and there is none now, and the pause approve or
\* reject found is still pending.
ClaimsAreCurrent ==
  [][\A p \in Procs : pc[p] = "claim" =>
       /\ pc'[p] = "invoke" => pending = <<>>
       /\ pc'[p] = "check" => IsPending(pauseId[p])]_vars

=============================================================================

--------------------------- MODULE WorkflowGraph ---------------------------
(***************************************************************************)
(* The nodes of the workflow graph and the state they share, for one run   *)
(* from its start to completed or failed.  A node reads the state and      *)
(* returns the fields it updates and the next node; the state is saved     *)
(* after every node, so that a process that dies in a node repeats it,     *)
(* over the worktree that the dead process left behind.                    *)
(*                                                                         *)
(* Module RunControl has the commands that start and stop the process.     *)
(***************************************************************************)
EXTENDS Gates, Charter, Workers

CONSTANTS
  Plans,         \* the plans a run may have
  Worlds,        \* what a node may find outside the run
  Outputs,       \* what the gates may find in a worker's output
  Evidences,     \* what tools may say of a build: gates passed, failed, and flags
  LargeDiff,     \* how many files the refactor critic allows, 8 in the code
  Machines,      \* what a worker may find when it is started
  Replies,       \* what a critic may reply
  Files,         \* the files of the worktree
  MaxRestarts,   \* how many times the process is started again
  WorkerLost,    \* whether a restart may find no worker to run
  None

\* A plan: the risks of the micro steps of each macro step; the steps whose
\* keys are those of the M6 catalogue, which run without a worker; whether the
\* keys count as uncertain; whether it is the catalogue; and what the gates
\* find in the labels of its macro steps and in the goal.
Plan ==
  [macros : Seq(Seq(Risk)), known : SUBSET Step, uncertain : BOOLEAN,
   catalogue : BOOLEAN, labels : SUBSET Taint, goal : SUBSET Taint]

ToolVerdict == [passed : SUBSET ToolGate, failed : SUBSET ToolGate, flags : SUBSET Flag]

ASSUME PlansAssumption == Plans \subseteq Plan
ASSUME WorldsAssumption == Worlds \subseteq World
ASSUME OutputsAssumption == Outputs \subseteq SUBSET Taint
ASSUME EvidencesAssumption == Evidences \subseteq ToolVerdict
ASSUME LargeDiffAssumption == LargeDiff \in Nat
ASSUME MachinesAssumption == Machines \subseteq Machine(Files)
ASSUME RepliesAssumption == Replies \subseteq Reply
ASSUME MaxRestartsAssumption == MaxRestarts \in Nat
ASSUME WorkerLostAssumption == WorkerLost \in BOOLEAN

VARIABLES
  plan,      \* macro_steps and micro_steps
  state,     \* the rest of WorkflowState, as last saved
  dirty,     \* files of the worktree that git status lists
  ready,     \* whether this process can run a worker
  outcome,   \* "running", or how the run ended
  restarts

vars == <<plan, state, dirty, ready, outcome, restarts>>

Node == {"gate_check", "deterministic_checks", "risk_assess", "critics_and_score",
         "judge_node", "human_pause", "micro_execute", "da_builder", "da_critic",
         "ab_alternate", "post_exec_judge", "evidence_record", "next_step",
         "workflow_fail", "__end__"}

\* gates_passed, gates_failed and det_checks_details are lists to which a
\* node's update is appended; "of" is the step of the latest update.
GateVerdicts == [of : Step \cup {None}, passed : SUBSET GateNames, failed : SUBSET GateNames]
Tally == [of : Step \cup {None}, passed : Nat, total : Nat]
Score == 0..10000
Verdict == {"proceed", "needs_operator", "block"}

\* What the tools said of the build of a step.
Evidence == [of : Step, said : ToolVerdict]
Execution == [by : {"micro_execute", "da_builder"}, evidence : Evidence \cup {None},
              output : SUBSET Taint, files : SUBSET Files]
Build == [ok : BOOLEAN, reported : SUBSET Files]
Review == [status : {"completed", "failed", "skipped_no_da"}, score : Score]
Alternate == [ok : BOOLEAN]

State ==
  [next : Node, step : Step, gates : GateVerdicts, checks : Tally,
   risk : Risk, da_enabled : BOOLEAN, ab_enabled : BOOLEAN,
   score : Score, verdict : Verdict \cup {None},
   gate_evidence : Evidence \cup {None}, execution : Execution \cup {None},
   builder : Build \cup {None}, critic : Review \cup {None},
   alternate : Alternate \cup {None},
   selected : {None, "A", "B", "both_rejected"},
   recorded : Seq(Step)]

TypeOK ==
  /\ plan \in Plan
  /\ state \in State
  /\ dirty \subseteq Files
  /\ ready \in BOOLEAN
  /\ outcome \in {"running", "completed", "failed"}
  /\ restarts \in 0..MaxRestarts

NoVerdicts == [of |-> None, passed |-> {}, failed |-> {}]
NoTally == [of |-> None, passed |-> 0, total |-> 0]

\* initial_state, and node_start, which picks the first step of the plan.
Init ==
  /\ plan \in Plans
  /\ state = [next |-> "gate_check", step |-> FirstStep,
              gates |-> NoVerdicts, checks |-> NoTally,
              risk |-> "low", da_enabled |-> FALSE, ab_enabled |-> FALSE,
              score |-> 0, verdict |-> None, gate_evidence |-> None,
              execution |-> None, builder |-> None, critic |-> None,
              alternate |-> None, selected |-> None, recorded |-> <<>>]
  /\ dirty \in SUBSET Files
  /\ ready \in BOOLEAN
  /\ outcome = "running"
  /\ restarts = 0

----------------------------------------------------------------------------
(* Scores, in units of 1/10000, and verdicts.                              *)

\* The weight w of a share of n; nothing to pass counts as all passed.
Share(w, passed, n) == IF passed = n THEN w ELSE (w * passed) \div n

\* gate_verdicts: a gate is failed if it failed once, and passed otherwise.
GateShare(w, gates) ==
  Share(w, Cardinality(gates.passed \ gates.failed),
           Cardinality(gates.passed \cup gates.failed))

\* score_evidence.  (ScoreFlat is a faulty variant.)
ScoreFlat(checks, gates, critics) ==
  Share(4000, checks.passed, checks.total) + GateShare(2500, gates)
    + Share(3500, critics.passed, critics.total)
ScoreEvidence(checks, gates, critics) ==
  Share(6000, checks.passed, checks.total) + GateShare(2500, gates)
    + Share(1500, critics.passed, critics.total)

Failed(tally) == tally.passed < tally.total

\* judge; gateFailed is whether any gate has failed.
Judge(score, checks, gateFailed, risk) ==
  CASE gateFailed                                          -> "block"
    [] ~gateFailed /\ Failed(checks) /\ risk \in {"high", "critical"} -> "block"
    [] OTHER -> IF score >= 8500 THEN "proceed"
                ELSE IF score >= 6000 THEN "needs_operator" ELSE "block"

\* post_execution_judge: a review that failed blocks.  (PostJudgeOnScore is a
\* faulty variant.)
PostJudgeOnScore(score, checks, gateFailed, risk, critic) ==
  Judge((7 * score + 3 * critic.score) \div 10, checks, gateFailed, risk)
PostJudge(score, checks, gateFailed, risk, critic) ==
  IF critic.status = "failed" THEN "block"
  ELSE Judge((7 * score + 3 * critic.score) \div 10, checks, gateFailed, risk)

\* compare_ab_results: no builder's result carries a quality score, so that of
\* two that completed A is selected.
CompareAB(a, b) ==
  CASE a.ok          -> "A"
    [] ~a.ok /\ b.ok -> "B"
    [] OTHER         -> "both_rejected"

----------------------------------------------------------------------------

At(node) == outcome = "running" /\ state.next = node

\* The node returns; what it does not update stays.
Returns(s) ==
  /\ state' = s
  /\ UNCHANGED <<plan, ready, outcome, restarts>>

\* The steps the plan has; an empty plan leaves the key of the step empty.
Planned(s) == s[1] <= Len(plan.macros) /\ s[2] <= Len(plan.macros[s[1]])

\* gates._gate_evidence: the latest build's, or what is left in the result of
\* the latest execution.
Consulted ==
  IF state.gate_evidence # None THEN state.gate_evidence
  ELSE IF state.execution # None THEN state.execution.evidence ELSE None

Silent == [passed |-> {}, failed |-> {}, flags |-> {}]
Said == IF Consulted = None THEN Silent ELSE Consulted.said

\* What the latest execution left in the state; next_step does not empty it.
Left ==
  IF state.execution = None THEN [output |-> {}, files |-> {}]
  ELSE [output |-> state.execution.output, files |-> state.execution.files]

\* The state as the gates read it; node_start has checked the worktree, and
\* the manifest of a build that its files are inside.
Seen ==
  [planned |-> Planned(state.step), labels |-> plan.labels, goal |-> plan.goal,
   passed |-> Said.passed, failed |-> Said.failed, flags |-> Said.flags,
   output |-> Left.output, changed |-> Cardinality(Left.files), escaped |-> FALSE,
   worktree |-> "inside"]

GateCheck ==
  /\ At("gate_check")
  /\ \E w \in Worlds :
       LET passed == RunAllGates("pass", Seen, w)
           failed == RunAllGates("fail", Seen, w)
       IN Returns([state EXCEPT
            !.gates = [of |-> state.step, passed |-> @.passed \cup passed,
                       failed |-> @.failed \cup failed],
            !.next = IF failed # {} THEN "workflow_fail" ELSE "deterministic_checks"])
  /\ UNCHANGED dirty

DeterministicChecks ==
  /\ At("deterministic_checks")
  /\ \E w \in Worlds :
       Returns([state EXCEPT
         !.checks = [of |-> state.step, passed |-> @.passed + ChecksPassed(w),
                     total |-> @.total + Checks],
         !.next = IF ChecksPassed(w) < Checks THEN "workflow_fail" ELSE "risk_assess"])
  /\ UNCHANGED dirty

\* Workers are for medium risk and above, a second build for high risk only.
RiskAssess ==
  LET risk == plan.macros[state.step[1]][state.step[2]]
  IN /\ At("risk_assess")
     /\ Returns([state EXCEPT
          !.risk = risk,
          !.da_enabled = ready /\ risk # "low",
          !.ab_enabled = plan.uncertain /\ risk \in {"high", "critical"},
          !.next = "critics_and_score"])
     /\ UNCHANGED dirty

CriticsAndScore ==
  /\ At("critics_and_score")
  /\ \E w \in Worlds :
       Returns([state EXCEPT
         !.score = ScoreEvidence(state.checks, state.gates,
                     [passed |-> CriticsPassed(state.risk, Cardinality(Left.files), LargeDiff, w),
                      total |-> Critics(state.risk)]),
         !.next = "judge_node"])
  /\ UNCHANGED dirty

JudgeNode ==
  LET verdict == Judge(state.score, state.checks, state.gates.failed # {}, state.risk)
  IN /\ At("judge_node")
     /\ Returns([state EXCEPT
          !.verdict = verdict,
          !.next = CASE verdict = "proceed" ->
                          IF state.da_enabled THEN "da_builder" ELSE "micro_execute"
                     [] verdict = "needs_operator" -> "human_pause"
                     [] verdict = "block" -> "workflow_fail"])
     /\ UNCHANGED dirty

\* Only steps with a key of the M6 catalogue can be executed here; one may
\* fail.
MicroExecute ==
  /\ At("micro_execute")
  /\ \E next \in {"evidence_record", "workflow_fail"} :
       /\ state.step \notin plan.known => next = "workflow_fail"
       /\ Returns([state EXCEPT
            !.execution = [by |-> "micro_execute", evidence |-> None,
                           output |-> {}, files |-> {}],
            !.next = next])
  /\ UNCHANGED dirty

\* git status lists the dirty files, or fails and lists none.
Snapshots(files) == {files, {}}

\* The tools run on the files the build reports, if they are installed.
ToolGates(build) ==
  IF ~build.tools \/ build.reported = {} THEN {None}
  ELSE {None} \cup {[of |-> state.step, said |-> said] : said \in Evidences}

Endings == {Ending(m, end, Files) : m \in Machines, end \in End}

\* What a worker may return of a worktree that was edited so.
WorkerResults(edited) ==
  UNION {UNION {{BuilderResult(ending, output, git) : output \in Outputs} :
                  git \in [before : Snapshots(dirty), again : Snapshots(dirty),
                           after : Snapshots(dirty \cup edited)]} :
         ending \in {e \in Endings : edited \in e.edits}}

Reviews == {CriticResult(m, end, reply) : m \in Machines, end \in End, reply \in Replies}

\* A build that fails ends the run.  (AfterBuilderRetries is a faulty variant.)
AfterBuilderRetries(ok) == IF ok THEN "da_critic" ELSE "da_builder"
AfterBuilder(ok) == IF ok THEN "da_critic" ELSE "workflow_fail"

\* run_builder_worker; one that fails or times out may have edited files.
DaBuilder ==
  /\ At("da_builder")
  /\ IF ready
     THEN \E edited \in SUBSET Files :
          \E build \in WorkerResults(edited) :
          \E evidence \in ToolGates(build) :
            /\ dirty' = dirty \cup edited
            /\ Returns([state EXCEPT
                 !.builder = [ok |-> build.ok, reported |-> build.reported],
                 !.execution = [by |-> "da_builder", evidence |-> evidence,
                                output |-> build.output, files |-> build.reported],
                 !.gate_evidence = evidence,
                 !.next = AfterBuilder(build.ok)])
     ELSE /\ Returns([state EXCEPT !.gate_evidence = None, !.next = "micro_execute"])
          /\ UNCHANGED dirty

\* A process without a worker skips the review, and the second build.
DaCritic ==
  /\ At("da_critic")
  /\ IF ready
     THEN \E review \in Reviews, edited \in UNION {Edits(m, "critic", Files) : m \in Machines} :
            /\ dirty' = dirty \cup edited
            /\ Returns([state EXCEPT
                 !.critic = review,
                 !.next = IF state.ab_enabled THEN "ab_alternate" ELSE "post_exec_judge"])
     ELSE /\ Returns([state EXCEPT
               !.critic = [status |-> "skipped_no_da", score |-> 10000],
               !.next = "post_exec_judge"])
          /\ UNCHANGED dirty

\* The second build, in a worktree of its own that is removed afterwards.
AbAlternate ==
  /\ At("ab_alternate")
  /\ \E ok \in BOOLEAN :
       /\ ok => ready
       /\ Returns([state EXCEPT !.alternate = [ok |-> ok], !.next = "post_exec_judge"])
  /\ UNCHANGED dirty

\* The gates that failed: those of the gate check, and those the tools failed
\* after the build.
GateFailed ==
  state.gates.failed # {}
  \/ (state.gate_evidence # None /\ state.gate_evidence.said.failed # {})

\* A rejected build fails the run.
AfterVerdict(v) == IF v = "block" THEN "workflow_fail" ELSE "evidence_record"

PostExecJudge ==
  LET verdict == PostJudge(state.score, state.checks, GateFailed, state.risk, state.critic)
  IN /\ At("post_exec_judge")
     /\ Returns([state EXCEPT
          !.selected = IF state.alternate = None THEN None
                       ELSE CompareAB(state.builder, state.alternate),
          !.next = AfterVerdict(verdict)])
     /\ UNCHANGED dirty

EvidenceRecord ==
  /\ At("evidence_record")
  /\ Returns([state EXCEPT !.recorded = Append(@, state.step), !.next = "next_step"])
  /\ UNCHANGED dirty

\* The next micro step of this macro step, or the first of the next one.
\* (FollowingMacro is a faulty variant.)
FollowingMacro(s) == <<s[1] + 1, 1>>
Following(s) == IF s[2] < Len(plan.macros[s[1]]) THEN <<s[1], s[2] + 1>>
                                                 ELSE <<s[1] + 1, 1>>

IsLast(s) == s[1] = Len(plan.macros) /\ s[2] = Len(plan.macros[s[1]])

\* The update empties the per-step fields, but an empty list appended to
\* gates and checks changes nothing; execution and alternate are not in it.
Reset(s) ==
  [s EXCEPT !.score = 0, !.verdict = None,
            !.gate_evidence = None, !.builder = None, !.critic = None]

\* Every step starts at its gates.
StartOfStep == "gate_check"

NextStep ==
  /\ At("next_step")
  /\ IF IsLast(state.step)
     THEN /\ state' = [state EXCEPT !.next = "__end__"]
          /\ outcome' = "completed"
          /\ UNCHANGED <<plan, ready, restarts>>
     ELSE Returns([Reset(state) EXCEPT !.step = Following(state.step),
                                       !.next = StartOfStep])
  /\ UNCHANGED dirty

WorkflowFail ==
  /\ At("workflow_fail")
  /\ state' = [state EXCEPT !.next = "__end__"]
  /\ outcome' = "failed"
  /\ UNCHANGED <<plan, dirty, ready, restarts>>

\* The process dies between two saves, in the builder perhaps after edits,
\* and the run is resumed by another one.
Restart ==
  /\ outcome = "running"
  /\ restarts < MaxRestarts
  /\ restarts' = restarts + 1
  /\ ready' \in IF WorkerLost THEN BOOLEAN ELSE {ready}
  /\ \E edited \in IF At("da_builder") /\ ready THEN SUBSET Files ELSE {{}} :
       dirty' = dirty \cup edited
  /\ UNCHANGED <<plan, state, outcome>>

RunNode ==
  \/ GateCheck \/ DeterministicChecks \/ RiskAssess \/ CriticsAndScore \/ JudgeNode
  \/ MicroExecute \/ DaBuilder \/ DaCritic \/ AbAlternate \/ PostExecJudge
  \/ EvidenceRecord \/ NextStep \/ WorkflowFail

Next == RunNode \/ Restart

Spec == Init /\ [][Next]_vars

\* A node returns or times out, and the run is resumed after every death.
FairSpec == Spec /\ WF_vars(RunNode)

----------------------------------------------------------------------------

\* The judge before execution never sends a step to the operator: a failed
\* gate or check has left the graph before, and what the critics decide is
\* less than the distance to the threshold.
NeverAsksOperator == state.next # "human_pause"

\* What is executed has been let through by the gates and the checks of that
\* very step, though the lists the judge reads hold those of earlier steps too.
ExecutedAfterItsGates ==
  state.next \in {"micro_execute", "da_builder"} =>
    /\ state.gates.of = state.step /\ state.gates.failed = {}
    /\ state.checks.of = state.step /\ ~Failed(state.checks)
    /\ state.verdict = "proceed"

\* A build that the tools fail or whose review fails is not recorded.
RejectedIsNotRecorded ==
  At("evidence_record") /\ state.execution.by = "da_builder" =>
    /\ state.critic.status # "failed"
    /\ state.gate_evidence # None =>
         state.gate_evidence.of = state.step /\ state.gate_evidence.said.failed = {}

\* After an execution whose output holds what the gates look for, nothing is
\* executed any more, though the step itself has been recorded by then.
NothingRunsAfterALeak ==
  state.next \in {"micro_execute", "da_builder"} => Left.output = {}

\* What is recorded is what was executed: the build in the worktree, never
\* the second one, which is gone when the judge compares them.
SelectedWorkIsKept ==
  At("evidence_record") /\ state.selected # None => state.selected = "A"

\* Every run ends, whatever the gates, workers and restarts do.
RunEnds == <>(outcome # "running")

=============================================================================

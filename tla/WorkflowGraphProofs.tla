------------------------ MODULE WorkflowGraphProofs ------------------------
(***************************************************************************)
(* Proofs about the workflow graph, for every set of plans and of worlds,  *)
(* any outputs of workers, scores of critics and number of restarts.       *)
(***************************************************************************)
EXTENDS WorkflowGraph, TLAPS

(***************************************************************************)
(* The inductive invariant: what the nodes on the way to a place of the    *)
(* graph have established when the run is there.                           *)
(***************************************************************************)

PastGates ==
  {"deterministic_checks", "risk_assess", "critics_and_score", "judge_node",
   "micro_execute", "da_builder", "da_critic", "ab_alternate", "post_exec_judge"}

GatesHold ==
  state.next \in PastGates =>
    /\ Planned(state.step)
    /\ state.gates.of = state.step

ChecksHold ==
  state.next \in PastGates \ {"deterministic_checks"} =>
    state.checks.of = state.step

\* A check or a gate that fails ends the run, so that nothing failed is in the
\* lists of a run that goes on.
NothingFailed ==
  state.next \notin {"workflow_fail", "__end__"} =>
    state.gates.failed = {} /\ state.checks.passed = state.checks.total

ScoreHolds == state.next = "judge_node" => state.score >= 8500

VerdictHolds ==
  state.next \in {"micro_execute", "da_builder"} => state.verdict = "proceed"

BuildHolds ==
  state.next \in {"da_critic", "ab_alternate", "post_exec_judge"} =>
    /\ state.builder \in Build /\ state.builder.ok
    /\ state.execution \in Execution
    /\ state.gate_evidence # None => state.gate_evidence.of = state.step

ReviewHolds ==
  state.next \in {"ab_alternate", "post_exec_judge"} => state.critic \in Review

RecordHolds ==
  state.next = "evidence_record" =>
    /\ state.execution \in Execution
    /\ state.execution.by = "da_builder" =>
         /\ state.critic.status # "failed"
         /\ state.gate_evidence # None =>
              state.gate_evidence.of = state.step /\ state.gate_evidence.said.failed = {}

SelectedHolds == state.selected \in {None, "A"}

\* The gates of a step have seen what the execution before it left.
LeakHolds ==
  state.next \in PastGates \ {"da_critic", "ab_alternate", "post_exec_judge"} =>
    Left.output = {}

GraphInv ==
  /\ TypeOK
  /\ NeverAsksOperator
  /\ GatesHold /\ ChecksHold /\ NothingFailed /\ ScoreHolds /\ VerdictHolds
  /\ BuildHolds /\ ReviewHolds /\ RecordHolds /\ SelectedHolds /\ LeakHolds

----------------------------------------------------------------------------
(* Scores.                                                                 *)

\* The scores at which the judge proceeds.
Passing == {s \in Score : s >= 8500}

\* The critics decide at most 1500 of the 10000, the distance between what the
\* gates and the checks decide and the threshold to proceed.
LEMMA CriticsShare ==
  ASSUME NEW n \in {0, 3, 5}, NEW p \in 0..n
  PROVE  Share(1500, p, n) \in Int /\ Share(1500, p, n) >= 0 /\ Share(1500, p, n) <= 1500
<1>1. CASE p = n
  BY <1>1 DEF Share
<1>2. CASE p # n /\ n = 3
  BY <1>2 DEF Share
<1>3. CASE p # n /\ n = 5
  BY <1>3 DEF Share
<1> QED BY <1>1, <1>2, <1>3

\* A score is a field of the state like any other.
LEMMA ScoreSaved ==
  ASSUME NEW s \in State, NEW x \in Score
  PROVE  [s EXCEPT !.score = x, !.next = "judge_node"] \in State
BY DEF State, Node

----------------------------------------------------------------------------

\* The initial state satisfies the invariant.
LEMMA GraphInit == Init => GraphInv
<1> SUFFICES ASSUME Init PROVE GraphInv
  OBVIOUS
<1>1. TypeOK
  BY PlansAssumption, MaxRestartsAssumption DEF Init, TypeOK, State, Node, Step, GateVerdicts,
    NoVerdicts, Tally, NoTally, Score, Risk, Verdict, FirstStep
<1>2. NeverAsksOperator /\ GatesHold /\ ChecksHold /\ NothingFailed /\ ScoreHolds /\ VerdictHolds
  BY DEF Init, NoVerdicts, NoTally, NeverAsksOperator, GatesHold, ChecksHold, NothingFailed,
    ScoreHolds, VerdictHolds, PastGates
<1>3. BuildHolds /\ ReviewHolds /\ RecordHolds /\ SelectedHolds /\ LeakHolds
  BY DEF Init, BuildHolds, ReviewHolds, RecordHolds, SelectedHolds,
    LeakHolds, Left, PastGates
<1> QED BY <1>1, <1>2, <1>3 DEF GraphInv

(***************************************************************************)
(* Each node preserves the invariant.                                      *)
(***************************************************************************)

\* What the gates look for in the output of an execution, one of them finds.
LEMMA GatesFindLeaks ==
  ASSUME NEW view, NEW w, view.output \subseteq Taint, view.output # {}
  PROVE  RunAllGates("fail", view, w) # {}
<1>1. PICK taint \in Taint : taint \in view.output
  OBVIOUS
<1>2. CASE taint = "forbidden"
  <2>1. GateVerdict("dependency_scan", view, w) = "fail"
    BY <1>1, <1>2 DEF GateVerdict, GateDependencyScan, FailIf
  <2> QED BY <2>1 DEF RunAllGates, GateNames
<1>3. CASE taint # "forbidden"
  <2>1. taint \in {"token", "private_key"} \cap (view.output \cup view.goal)
    BY <1>1, <1>3 DEF Taint
  <2>2. GateSecretScan(view) = "fail"
    BY <2>1 DEF GateSecretScan, FailIf
  <2>3. GateVerdict("secret_scan", view, w) = "fail"
    BY <2>2 DEF GateVerdict
  <2> QED BY <2>3 DEF RunAllGates, GateNames
<1> QED BY <1>2, <1>3

\* A step that the plan does not have fails the first gate.
LEMMA GatesFindNoPlan ==
  ASSUME NEW view, NEW w, ~view.planned
  PROVE  RunAllGates("fail", view, w) # {}
<1>1. GateVerdict("requirement", view, w) = "fail"
  BY DEF GateVerdict, GateRequirement, FailIf
<1> QED BY <1>1 DEF RunAllGates, GateNames

\* gate_check: a plan passes with its own gates only.
LEMMA GateCheckStep == ASSUME GraphInv, GateCheck PROVE GraphInv'
<1>0. state.execution \in Execution \cup {None}
  BY DEF GraphInv, TypeOK, State
<1>1. PICK passed \in SUBSET GateNames, failed \in SUBSET GateNames :
        /\ ~Planned(state.step) => failed # {}
        /\ Left.output # {} => failed # {}
        /\ Returns([state EXCEPT
             !.gates = [of |-> state.step, passed |-> state.gates.passed \cup passed,
                        failed |-> state.gates.failed \cup failed],
             !.next = IF failed # {} THEN "workflow_fail" ELSE "deterministic_checks"])
        /\ UNCHANGED dirty
  <2>1. PICK w \in Worlds :
          Returns([state EXCEPT
            !.gates = [of |-> state.step,
                       passed |-> state.gates.passed \cup RunAllGates("pass", Seen, w),
                       failed |-> state.gates.failed \cup RunAllGates("fail", Seen, w)],
            !.next = IF RunAllGates("fail", Seen, w) # {} THEN "workflow_fail"
                     ELSE "deterministic_checks"])
    BY DEF GateCheck
  <2>2. RunAllGates("pass", Seen, w) \in SUBSET GateNames
        /\ RunAllGates("fail", Seen, w) \in SUBSET GateNames
    BY DEF RunAllGates
  <2>3. ~Planned(state.step) => RunAllGates("fail", Seen, w) # {}
    BY GatesFindNoPlan DEF Seen
  <2>4. Left.output # {} => RunAllGates("fail", Seen, w) # {}
    <3>1. Seen.output = Left.output
      BY DEF Seen
    <3>2. Left.output \subseteq Taint
      BY <1>0 DEF Left, Execution
    <3> QED BY <3>1, <3>2, GatesFindLeaks
  <2>5. UNCHANGED dirty
    BY DEF GateCheck
  <2> HIDE DEF RunAllGates, Seen
  <2> QED BY <2>1, <2>2, <2>3, <2>4, <2>5
<1> DEFINE t == [of |-> state.step, passed |-> state.gates.passed \cup passed,
                 failed |-> state.gates.failed \cup failed]
           n == IF failed # {} THEN "workflow_fail" ELSE "deterministic_checks"
<1>2. state.next = "gate_check" /\ state.gates \in GateVerdicts /\ state.step \in Step
  BY DEF GateCheck, At, GraphInv, TypeOK, State
<1>3. t \in GateVerdicts /\ t.of = state.step
  BY <1>1, <1>2 DEF GateVerdicts
<1>4. n \in Node /\ n \in {"workflow_fail", "deterministic_checks"}
  BY DEF Node
<1>5. n = "deterministic_checks" => t.failed = {} /\ Planned(state.step)
  <2>1. state.gates.failed = {}
    BY <1>2 DEF GraphInv, NothingFailed
  <2> QED BY <1>1, <2>1
<1>6. n = "deterministic_checks" =>
        state.checks.passed = state.checks.total /\ Left.output = {}
  BY <1>1, <1>2 DEF GraphInv, NothingFailed
<1>7. state' = [state EXCEPT !.gates = t, !.next = n]
      /\ UNCHANGED <<plan, dirty, ready, outcome, restarts>>
  BY <1>1 DEF Returns
<1> HIDE DEF t, n
<1>8. TypeOK'
  BY <1>3, <1>4, <1>7 DEF GraphInv, TypeOK, State
<1>9. GatesHold' /\ ChecksHold' /\ NothingFailed' /\ ScoreHolds' /\ VerdictHolds'
      /\ NeverAsksOperator'
  BY <1>3, <1>4, <1>5, <1>6, <1>7 DEF GraphInv, TypeOK, State, Planned, GatesHold, ChecksHold,
    NothingFailed, ScoreHolds, VerdictHolds, NeverAsksOperator, PastGates
<1>10. BuildHolds' /\ ReviewHolds' /\ RecordHolds' /\ SelectedHolds' /\ LeakHolds'
  BY <1>4, <1>6, <1>7 DEF GraphInv, TypeOK, State, BuildHolds, ReviewHolds, RecordHolds,
    SelectedHolds,
    LeakHolds, Left, PastGates
<1> QED BY <1>8, <1>9, <1>10 DEF GraphInv

\* deterministic_checks.
LEMMA DeterministicChecksStep == ASSUME GraphInv, DeterministicChecks PROVE GraphInv'
<1>1. PICK passed \in 0..Checks :
        /\ Returns([state EXCEPT
             !.checks = [of |-> state.step, passed |-> state.checks.passed + passed,
                         total |-> state.checks.total + Checks],
             !.next = IF passed < Checks THEN "workflow_fail" ELSE "risk_assess"])
        /\ UNCHANGED dirty
  <2>1. PICK w \in Worlds :
          Returns([state EXCEPT
            !.checks = [of |-> state.step, passed |-> state.checks.passed + ChecksPassed(w),
                        total |-> state.checks.total + Checks],
            !.next = IF ChecksPassed(w) < Checks THEN "workflow_fail" ELSE "risk_assess"])
    BY DEF DeterministicChecks
  <2>2. ChecksPassed(w) \in 0..Checks
    BY DEF ChecksPassed, Checks, Count
  <2>3. UNCHANGED dirty
    BY DEF DeterministicChecks
  <2> QED BY <2>1, <2>2, <2>3
<1> DEFINE t == [of |-> state.step, passed |-> state.checks.passed + passed,
                 total |-> state.checks.total + Checks]
           n == IF passed < Checks THEN "workflow_fail" ELSE "risk_assess"
<1>2. state.next = "deterministic_checks" /\ state.checks \in Tally /\ state.step \in Step
  BY DEF DeterministicChecks, At, GraphInv, TypeOK, State
<1>3. t \in Tally /\ t.of = state.step
  BY <1>1, <1>2 DEF Tally, Checks
<1>4. n \in Node /\ n \in {"workflow_fail", "risk_assess"}
  BY DEF Node
<1>5. n = "risk_assess" => t.passed = t.total
  <2>1. state.checks.passed = state.checks.total
    BY <1>2 DEF GraphInv, NothingFailed
  <2>2. n = "risk_assess" => passed = Checks
    BY <1>1 DEF Checks
  <2> QED BY <2>1, <2>2
<1>6. n = "risk_assess" => state.gates.failed = {}
  BY <1>2 DEF GraphInv, NothingFailed
<1>7. state' = [state EXCEPT !.checks = t, !.next = n]
      /\ UNCHANGED <<plan, dirty, ready, outcome, restarts>>
  BY <1>1 DEF Returns
<1> HIDE DEF t, n
<1>8. TypeOK'
  BY <1>3, <1>4, <1>7 DEF GraphInv, TypeOK, State
<1>9. GatesHold' /\ ChecksHold' /\ NothingFailed' /\ ScoreHolds' /\ VerdictHolds'
      /\ NeverAsksOperator'
  BY <1>2, <1>3, <1>4, <1>5, <1>6, <1>7 DEF GraphInv, TypeOK, State, Planned, GatesHold,
    ChecksHold, NothingFailed, ScoreHolds, VerdictHolds, NeverAsksOperator, PastGates
<1>10. BuildHolds' /\ ReviewHolds' /\ RecordHolds' /\ SelectedHolds' /\ LeakHolds'
  BY <1>2, <1>4, <1>7 DEF GraphInv, TypeOK, State, BuildHolds, ReviewHolds, RecordHolds,
    SelectedHolds,
    LeakHolds, Left, PastGates
<1> QED BY <1>8, <1>9, <1>10 DEF GraphInv

\* The risk of a step of the plan.
LEMMA PlannedRisk ==
  ASSUME plan \in Plan, NEW s \in Step, Planned(s)
  PROVE  plan.macros[s[1]][s[2]] \in Risk
<1>1. plan.macros \in Seq(Seq(Risk)) /\ s[1] \in Nat \ {0} /\ s[2] \in Nat \ {0}
  BY DEF Plan, Step
<1>2. s[1] \in 1..Len(plan.macros)
  BY <1>1 DEF Planned
<1>3. plan.macros[s[1]] \in Seq(Risk)
  BY <1>1, <1>2
<1>4. s[2] \in 1..Len(plan.macros[s[1]])
  BY <1>1, <1>3 DEF Planned
<1> QED BY <1>3, <1>4

\* risk_assess.
LEMMA RiskAssessStep == ASSUME GraphInv, RiskAssess PROVE GraphInv'
<1> DEFINE risk == plan.macros[state.step[1]][state.step[2]]
           da == ready /\ risk # "low"
           ab == plan.uncertain /\ risk \in {"high", "critical"}
<1>1. /\ state' = [state EXCEPT !.risk = risk, !.da_enabled = da, !.ab_enabled = ab,
                                !.next = "critics_and_score"]
      /\ state.next = "risk_assess"
      /\ UNCHANGED <<plan, dirty, ready, outcome, restarts>>
  BY DEF RiskAssess, Returns, At
<1>2. risk \in Risk /\ da \in BOOLEAN /\ ab \in BOOLEAN
  BY <1>1, PlannedRisk DEF GraphInv, TypeOK, State, GatesHold, PastGates
<1> HIDE DEF risk, da, ab
<1>3. TypeOK'
  <2>1. state' \in State
    <3>1. ASSUME NEW r \in Risk, NEW d \in BOOLEAN, NEW a \in BOOLEAN
          PROVE  [state EXCEPT !.risk = r, !.da_enabled = d, !.ab_enabled = a,
                               !.next = "critics_and_score"] \in State
      BY <3>1 DEF GraphInv, TypeOK, State, Node
    <3> QED BY <1>1, <1>2, <3>1
  <2> QED BY <1>1, <2>1 DEF GraphInv, TypeOK
<1>4. GatesHold' /\ ChecksHold' /\ NothingFailed' /\ ScoreHolds' /\ VerdictHolds'
       /\ NeverAsksOperator'
  BY <1>1, <1>2 DEF GraphInv, TypeOK, State, Planned, GatesHold, ChecksHold, NothingFailed,
    ScoreHolds, VerdictHolds, NeverAsksOperator, PastGates
<1>5. BuildHolds' /\ ReviewHolds' /\ RecordHolds' /\ SelectedHolds' /\ LeakHolds'
  BY <1>1, <1>2 DEF GraphInv, TypeOK, State, BuildHolds, ReviewHolds, RecordHolds,
    SelectedHolds,
    LeakHolds, Left, PastGates
<1> QED BY <1>3, <1>4, <1>5 DEF GraphInv

\* critics_and_score: the score is one of the possible scores.
LEMMA CriticsAndScoreStep == ASSUME GraphInv, CriticsAndScore PROVE GraphInv'
<1>1. state.risk \in Risk
  BY DEF GraphInv, TypeOK, State
<1>2. state.next = "critics_and_score"
  BY DEF CriticsAndScore, At
<1>3. state.checks.passed = state.checks.total /\ state.gates.failed = {}
  BY <1>2 DEF GraphInv, NothingFailed
<1>4. Critics(state.risk) \in {0, 3, 5}
  BY <1>1 DEF Critics, Risk
<1>5. PICK sc \in Passing :
        state' = [state EXCEPT !.score = sc, !.next = "judge_node"]
  <2>1. PICK passed \in 0..Critics(state.risk) :
          state' = [state EXCEPT
            !.score = ScoreEvidence(state.checks, state.gates,
                        [passed |-> passed, total |-> Critics(state.risk)]),
            !.next = "judge_node"]
    <3> DEFINE p(w) == CriticsPassed(state.risk, Cardinality(Left.files), LargeDiff, w)
    <3>1. PICK w \in Worlds :
            state' = [state EXCEPT
              !.score = ScoreEvidence(state.checks, state.gates,
                          [passed |-> p(w), total |-> Critics(state.risk)]),
              !.next = "judge_node"]
      BY DEF CriticsAndScore, Returns
    <3>2. p(w) \in 0..Critics(state.risk)
      BY <1>1 DEF CriticsPassed, Critics, Count, Risk
    <3> QED BY <3>1, <3>2
  <2> DEFINE critics == [passed |-> passed, total |-> Critics(state.risk)]
  <2>2. critics.total \in {0, 3, 5} /\ critics.passed \in 0..critics.total
    BY <1>4, <2>1
  <2> HIDE DEF critics
  <2>3. PICK d : d \in Int /\ d >= 0 /\ d <= 1500
                 /\ Share(1500, critics.passed, critics.total) = d
    BY <2>2, CriticsShare
  <2>4. Share(6000, state.checks.passed, state.checks.total) = 6000
    BY <1>3 DEF Share
  <2>5. GateShare(2500, state.gates) = 2500
    <3>1. state.gates.passed \ state.gates.failed = state.gates.passed \cup state.gates.failed
      BY <1>3
    <3> QED BY <3>1 DEF GateShare, Share
  <2> DEFINE score == ScoreEvidence(state.checks, state.gates, critics)
  <2>6. score = 6000 + 2500 + d
    BY <2>3, <2>4, <2>5 DEF ScoreEvidence
  <2>7. score \in Passing
    <3> HIDE DEF score
    <3> QED BY <2>3, <2>6 DEF Passing, Score
  <2>8. state' = [state EXCEPT !.score = score, !.next = "judge_node"]
    BY <2>1 DEF critics
  <2> HIDE DEF score
  <2> QED BY <2>7, <2>8
<1>6. sc \in Score
  BY <1>5 DEF Passing
<1>7. sc >= 8500
  BY <1>5 DEF Passing
<1>8. UNCHANGED <<plan, dirty, ready, outcome, restarts>>
  BY DEF CriticsAndScore, Returns
<1>9. TypeOK'
  <2>1. state \in State
    BY DEF GraphInv, TypeOK
  <2>2. [state EXCEPT !.score = sc, !.next = "judge_node"] \in State
    BY <1>6, <2>1, ScoreSaved
  <2> QED BY <1>5, <1>8, <2>2 DEF GraphInv, TypeOK
<1>10. GatesHold' /\ ChecksHold' /\ NothingFailed' /\ ScoreHolds' /\ VerdictHolds'
       /\ NeverAsksOperator'
  BY <1>2, <1>5, <1>7, <1>8 DEF GraphInv, TypeOK, State, Planned, GatesHold, ChecksHold,
    NothingFailed,
    ScoreHolds, VerdictHolds, NeverAsksOperator, PastGates
<1>11. BuildHolds' /\ ReviewHolds' /\ RecordHolds' /\ SelectedHolds' /\ LeakHolds'
  BY <1>2, <1>5 DEF GraphInv, TypeOK, State, BuildHolds, ReviewHolds, RecordHolds,
    SelectedHolds,
    LeakHolds, Left, PastGates
<1> QED BY <1>9, <1>10, <1>11 DEF GraphInv

\* judge: no verdict asks the operator.
LEMMA JudgeNodeStep == ASSUME GraphInv, JudgeNode PROVE GraphInv'
<1>1. state.next = "judge_node" /\ state.score \in Score
  BY DEF JudgeNode, At, GraphInv, TypeOK, State
<1>2. state.gates.failed = {} /\ ~Failed(state.checks) /\ state.score >= 8500
  BY <1>1 DEF GraphInv, TypeOK, State, Tally, NothingFailed, ScoreHolds, Failed
<1>3. Judge(state.score, state.checks, state.gates.failed # {}, state.risk) = "proceed"
  BY <1>2 DEF Judge
<1>4. PICK n \in {"da_builder", "micro_execute"} :
        /\ state' = [state EXCEPT !.verdict = "proceed", !.next = n]
        /\ UNCHANGED <<plan, dirty, ready, outcome, restarts>>
  BY <1>3 DEF JudgeNode, Returns
<1>5. TypeOK'
  BY <1>1, <1>4 DEF GraphInv, TypeOK, State, Node, Verdict
<1>6. GatesHold' /\ ChecksHold' /\ NothingFailed' /\ ScoreHolds' /\ VerdictHolds'
       /\ NeverAsksOperator'
  BY <1>1, <1>4 DEF GraphInv, TypeOK, State, Planned, GatesHold, ChecksHold, NothingFailed,
    ScoreHolds, VerdictHolds, NeverAsksOperator, PastGates
<1>7. BuildHolds' /\ ReviewHolds' /\ RecordHolds' /\ SelectedHolds' /\ LeakHolds'
  BY <1>1, <1>4 DEF GraphInv, TypeOK, State, BuildHolds, ReviewHolds, RecordHolds,
    SelectedHolds,
    LeakHolds, Left, PastGates
<1> QED BY <1>5, <1>6, <1>7 DEF GraphInv

\* micro_execute.
LEMMA MicroExecuteStep == ASSUME GraphInv, MicroExecute PROVE GraphInv'
<1> DEFINE e == [by |-> "micro_execute", evidence |-> None, output |-> {}, files |-> {}]
<1>1. PICK n \in {"evidence_record", "workflow_fail"} :
        state' = [state EXCEPT !.execution = e, !.next = n]
  BY DEF MicroExecute, Returns
<1>2. UNCHANGED <<plan, dirty, ready, outcome, restarts>> /\ state.next = "micro_execute"
  BY DEF MicroExecute, Returns, At
<1>3. e \in Execution /\ e.by # "da_builder"
  BY DEF Execution
<1> HIDE DEF e
<1>4. TypeOK'
  BY <1>1, <1>2, <1>3 DEF GraphInv, TypeOK, State, Node
<1>5. GatesHold' /\ ChecksHold' /\ NothingFailed' /\ ScoreHolds' /\ VerdictHolds'
       /\ NeverAsksOperator'
  BY <1>1, <1>2, <1>3 DEF GraphInv, TypeOK, State, Planned, GatesHold, ChecksHold,
    NothingFailed,
    ScoreHolds, VerdictHolds, NeverAsksOperator, PastGates
<1>6. BuildHolds' /\ ReviewHolds' /\ RecordHolds' /\ SelectedHolds' /\ LeakHolds'
  BY <1>1, <1>2, <1>3 DEF GraphInv, TypeOK, State, BuildHolds, ReviewHolds, RecordHolds,
    SelectedHolds,
    LeakHolds, Left, PastGates
<1> QED BY <1>4, <1>5, <1>6 DEF GraphInv

\* What a worker returns comes of an ending, an output and what git listed.
LEMMA ResultOfWorker ==
  ASSUME NEW edited, NEW build \in WorkerResults(edited)
  PROVE  \E ending \in Endings, output \in Outputs,
            git \in [before : Snapshots(dirty), again : Snapshots(dirty),
                     after : Snapshots(dirty \cup edited)] :
            build = BuilderResult(ending, output, git)
<1>1. PICK ending \in Endings :
        build \in UNION {{BuilderResult(ending, output, git) : output \in Outputs} :
                          git \in [before : Snapshots(dirty), again : Snapshots(dirty),
                                   after : Snapshots(dirty \cup edited)]}
  BY DEF WorkerResults
<1>2. PICK git \in [before : Snapshots(dirty), again : Snapshots(dirty),
                    after : Snapshots(dirty \cup edited)] :
        build \in {BuilderResult(ending, output, git) : output \in Outputs}
  BY <1>1
<1>3. PICK output \in Outputs : build = BuilderResult(ending, output, git)
  BY <1>2
<1> QED BY <1>1, <1>2, <1>3

\* da_builder, with a worker and without one.
LEMMA DaBuilderStep == ASSUME GraphInv, DaBuilder PROVE GraphInv'
<1>1. state.next = "da_builder" /\ state.step \in Step
  BY DEF DaBuilder, At, GraphInv, TypeOK, State
<1>2. CASE ~ready
  <2>1. state' = [state EXCEPT !.gate_evidence = None, !.next = "micro_execute"]
        /\ UNCHANGED <<plan, dirty, ready, outcome, restarts>>
    BY <1>2 DEF DaBuilder, Returns
  <2>2. TypeOK'
    BY <1>1, <2>1 DEF GraphInv, TypeOK, State, Node
  <2>3. GatesHold' /\ ChecksHold' /\ NothingFailed' /\ ScoreHolds' /\ VerdictHolds'
       /\ NeverAsksOperator'
    BY <1>1, <2>1 DEF GraphInv, TypeOK, State, Planned, GatesHold, ChecksHold, NothingFailed,
      ScoreHolds, VerdictHolds, NeverAsksOperator, PastGates
  <2>4. BuildHolds' /\ ReviewHolds' /\ RecordHolds' /\ SelectedHolds' /\ LeakHolds'
    BY <1>1, <2>1 DEF GraphInv, TypeOK, State, BuildHolds, ReviewHolds, RecordHolds,
      SelectedHolds,
      LeakHolds, Left, PastGates
  <2> QED BY <2>2, <2>3, <2>4 DEF GraphInv
<1>3. CASE ready
  <2>1. PICK edited, build, evidence :
          /\ edited \in SUBSET Files /\ build \in WorkerResults(edited)
          /\ evidence \in ToolGates(build)
          /\ dirty' = dirty \cup edited
          /\ Returns([state EXCEPT
               !.builder = [ok |-> build.ok, reported |-> build.reported],
               !.execution = [by |-> "da_builder", evidence |-> evidence,
                              output |-> build.output, files |-> build.reported],
               !.gate_evidence = evidence,
               !.next = AfterBuilder(build.ok)])
    BY <1>3 DEF DaBuilder
  <2> DEFINE ok == build.ok
             b == [ok |-> build.ok, reported |-> build.reported]
             e == [by |-> "da_builder", evidence |-> evidence,
                   output |-> build.output, files |-> build.reported]
             n == AfterBuilder(build.ok)
  <2>0. build.ok \in BOOLEAN /\ build.output \subseteq Taint /\ build.reported \subseteq Files
    <3>1. PICK ending \in Endings, output \in Outputs,
               git \in [before : Snapshots(dirty), again : Snapshots(dirty),
                        after : Snapshots(dirty \cup edited)] :
            build = BuilderResult(ending, output, git)
      BY ResultOfWorker, <2>1
    <3>2. dirty \subseteq Files /\ edited \subseteq Files
      BY <2>1 DEF GraphInv, TypeOK
    <3>3. git.before \subseteq Files /\ git.again \subseteq Files /\ git.after \subseteq Files
      BY <3>2 DEF Snapshots
    <3>4. output \subseteq Taint
      BY OutputsAssumption
    <3>5. ending.how \in {"deterministic", "hang", "timeout", "error", "result"}
      <4>1. PICK m \in Machines, end \in End : ending = Ending(m, end, Files)
        BY DEF Endings
      <4>2. m.mode \in Mode
        BY MachinesAssumption DEF Machine
      <4> QED BY <4>1, <4>2 DEF Ending, Mode, End, RunWithTimeout
    <3>6. CASE ending.how = "deterministic"
      BY <3>1, <3>3, <3>6 DEF BuilderResult, DeterministicResult, Built, FilesChanged
    <3>7. CASE ending.how \in {"hang", "timeout", "error"}
      BY <3>1, <3>3, <3>7 DEF BuilderResult, NotBuilt, FilesChanged
    <3>8. CASE ending.how = "result"
      BY <3>1, <3>3, <3>4, <3>8 DEF BuilderResult, Built, NotBuilt, FilesChanged
    <3> HIDE DEF ok, b, e, n
    <3> QED BY <3>5, <3>6, <3>7, <3>8
  <2>2. evidence = None \/ (evidence \in Evidence /\ evidence.of = state.step)
    BY <1>1, <2>1, EvidencesAssumption DEF ToolGates, Evidence
  <2>3. b \in Build /\ b.ok = ok
    BY <2>0 DEF Build
  <2>4. e \in Execution
    BY <2>0, <2>2 DEF Execution
  <2>5. n \in {"da_critic", "workflow_fail"} /\ (n = "da_critic" => ok)
    BY DEF AfterBuilder
  <2>6. state' = [state EXCEPT !.builder = b, !.execution = e,
                               !.gate_evidence = evidence, !.next = n]
        /\ UNCHANGED <<plan, ready, outcome, restarts>>
        /\ dirty' \subseteq Files
    BY <2>1 DEF Returns, GraphInv, TypeOK
  <2> HIDE DEF b, e, n
  <2>7. TypeOK'
    BY <1>1, <2>2, <2>3, <2>4, <2>5, <2>6 DEF GraphInv, TypeOK, State, Node
  <2>8. GatesHold' /\ ChecksHold' /\ NothingFailed' /\ ScoreHolds' /\ VerdictHolds'
       /\ NeverAsksOperator'
    BY <1>1, <2>2, <2>3, <2>4, <2>5, <2>6 DEF GraphInv, TypeOK, State, Planned, GatesHold,
      ChecksHold, NothingFailed,
      ScoreHolds, VerdictHolds, NeverAsksOperator, PastGates
  <2>9. BuildHolds' /\ ReviewHolds' /\ RecordHolds' /\ SelectedHolds' /\ LeakHolds'
    BY <1>1, <2>2, <2>3, <2>4, <2>5, <2>6 DEF GraphInv, TypeOK, State, BuildHolds, ReviewHolds,
      RecordHolds,
      SelectedHolds,
      LeakHolds, Left, PastGates
  <2> QED BY <2>7, <2>8, <2>9 DEF GraphInv
<1> QED BY <1>2, <1>3 DEF DaBuilder

\* A review that was completed has a score, one that was not has none.
LEMMA ReviewsTyped == Reviews \subseteq [status : {"completed", "failed"}, score : Score]
<1> SUFFICES ASSUME NEW m \in Machines, NEW end \in End, NEW reply \in Replies
             PROVE  CriticResult(m, end, reply) \in [status : {"completed", "failed"}, score : Score]
  BY DEF Reviews
<1>1. m.mode \in Mode
  BY MachinesAssumption DEF Machine
<1>2. ParseCriticOutput(reply) => reply.score \in Score
  BY DEF ParseCriticOutput, Score
<1>3. NotReviewed \in [status : {"completed", "failed"}, score : Score]
  BY DEF NotReviewed, Score
<1>4. CASE m.mode = "deterministic"
  BY <1>4 DEF CriticResult, Score
<1>5. CASE m.mode = "hang"
  BY <1>3, <1>5 DEF CriticResult
<1>6. CASE m.mode = "llm"
  <2> DEFINE good == CreateBoundedAgent(m) /\ RunWithTimeout(end) = "result"
                       /\ ParseCriticOutput(reply)
  <2>1. CASE good
    BY <1>2, <1>6, <2>1 DEF CriticResult
  <2>2. CASE ~good
    BY <1>3, <1>6, <2>2 DEF CriticResult
  <2> QED BY <2>1, <2>2
<1> QED BY <1>1, <1>4, <1>5, <1>6 DEF Mode

\* A critic edits files of the worktree, if any.
LEMMA CriticEditsFiles ==
  ASSUME NEW edited \in UNION {Edits(m, "critic", Files) : m \in Machines}
  PROVE  edited \subseteq Files
BY DEF Edits

\* da_critic, with a worker and without one.
LEMMA DaCriticStep == ASSUME GraphInv, DaCritic PROVE GraphInv'
<1>1. state.next = "da_critic"
  BY DEF DaCritic, At
<1>2. PICK review, n :
        /\ review \in [status : {"completed", "failed", "skipped_no_da"}, score : Score]
        /\ n \in {"ab_alternate", "post_exec_judge"}
        /\ state' = [state EXCEPT !.critic = review, !.next = n]
        /\ dirty' = dirty \/ \E edited \in SUBSET Files : dirty' = dirty \cup edited
        /\ UNCHANGED <<plan, ready, outcome, restarts>>
  <2>1. CASE ready
    <3>1. PICK review \in Reviews, edited \in UNION {Edits(m, "critic", Files) : m \in Machines} :
            /\ dirty' = dirty \cup edited
            /\ state' = [state EXCEPT
                 !.critic = review,
                 !.next = IF state.ab_enabled THEN "ab_alternate" ELSE "post_exec_judge"]
            /\ UNCHANGED <<plan, ready, outcome, restarts>>
      BY <2>1 DEF DaCritic, Returns
    <3>2. review \in [status : {"completed", "failed", "skipped_no_da"}, score : Score]
      BY ReviewsTyped
    <3>3. edited \in SUBSET Files
      BY CriticEditsFiles
    <3>4. CASE state.ab_enabled
      BY <3>1, <3>2, <3>3, <3>4
    <3>5. CASE ~state.ab_enabled
      BY <3>1, <3>2, <3>3, <3>5
    <3> QED BY <3>4, <3>5
  <2>2. CASE ~ready
    <3> DEFINE review == [status |-> "skipped_no_da", score |-> 10000]
    <3>1. state' = [state EXCEPT !.critic = review, !.next = "post_exec_judge"]
          /\ UNCHANGED <<plan, dirty, ready, outcome, restarts>>
      BY <2>2 DEF DaCritic, Returns
    <3>2. review \in [status : {"completed", "failed", "skipped_no_da"}, score : Score]
      BY DEF Score
    <3> HIDE DEF review
    <3> QED BY <3>1, <3>2
  <2> QED BY <2>1, <2>2
<1>3. review \in Review
  BY <1>2 DEF Review
<1>4. TypeOK'
  <2>1. state' \in State
    BY <1>2, <1>3 DEF GraphInv, TypeOK, State, Node
  <2>2. dirty' \subseteq Files
    BY <1>2 DEF GraphInv, TypeOK
  <2> QED BY <1>2, <2>1, <2>2 DEF GraphInv, TypeOK
<1>5. GatesHold' /\ ChecksHold' /\ NothingFailed' /\ ScoreHolds' /\ VerdictHolds'
       /\ NeverAsksOperator'
  BY <1>1, <1>2 DEF GraphInv, TypeOK, State, Planned, GatesHold, ChecksHold, NothingFailed,
    ScoreHolds, VerdictHolds, NeverAsksOperator, PastGates
<1>6. BuildHolds' /\ ReviewHolds' /\ RecordHolds' /\ SelectedHolds' /\ LeakHolds'
  BY <1>1, <1>2, <1>3 DEF GraphInv, TypeOK, State, BuildHolds, ReviewHolds, RecordHolds,
    SelectedHolds,
    LeakHolds, Left, PastGates
<1> QED BY <1>4, <1>5, <1>6 DEF GraphInv

\* ab_alternate.
LEMMA AbAlternateStep == ASSUME GraphInv, AbAlternate PROVE GraphInv'
<1>1. state.next = "ab_alternate" /\ state.step \in Step
  BY DEF AbAlternate, At, GraphInv, TypeOK, State
<1>2. PICK ok \in BOOLEAN :
        state' = [state EXCEPT !.alternate = [ok |-> ok],
                               !.next = "post_exec_judge"]
  BY DEF AbAlternate, Returns
<1>3. UNCHANGED <<plan, dirty, ready, outcome, restarts>>
  BY DEF AbAlternate, Returns
<1> DEFINE a == [ok |-> ok]
<1>4. a \in Alternate
  BY <1>1, <1>2 DEF Alternate
<1>5. state' = [state EXCEPT !.alternate = a, !.next = "post_exec_judge"]
  BY <1>2
<1> HIDE DEF a
<1>6. TypeOK'
  <2>1. state' \in State
    BY <1>4, <1>5 DEF GraphInv, TypeOK, State, Node
  <2> QED BY <1>3, <2>1 DEF GraphInv, TypeOK
<1>7. GatesHold' /\ ChecksHold' /\ NothingFailed' /\ ScoreHolds' /\ VerdictHolds'
       /\ NeverAsksOperator'
  BY <1>1, <1>3, <1>5 DEF GraphInv, TypeOK, State, Planned, GatesHold, ChecksHold,
    NothingFailed,
    ScoreHolds, VerdictHolds, NeverAsksOperator, PastGates
<1>8. BuildHolds' /\ ReviewHolds' /\ RecordHolds' /\ SelectedHolds' /\ LeakHolds'
  BY <1>1, <1>3, <1>5 DEF GraphInv, TypeOK, State, BuildHolds, ReviewHolds, RecordHolds,
    SelectedHolds,
    LeakHolds, Left, PastGates
<1> QED BY <1>6, <1>7, <1>8 DEF GraphInv

\* post_exec_judge: what it lets through may be recorded.
LEMMA PostExecJudgeStep == ASSUME GraphInv, PostExecJudge PROVE GraphInv'
<1> DEFINE verdict == PostJudge(state.score, state.checks, GateFailed, state.risk, state.critic)
           n == IF verdict = "block" THEN "workflow_fail" ELSE "evidence_record"
           sel == IF state.alternate = None THEN None
                  ELSE CompareAB(state.builder, state.alternate)
<1>1. /\ state.next = "post_exec_judge"
      /\ state' = [state EXCEPT !.selected = sel, !.next = n]
      /\ UNCHANGED <<plan, dirty, ready, outcome, restarts>>
  BY DEF PostExecJudge, AfterVerdict, Returns, At
<1>2. n \in {"workflow_fail", "evidence_record"}
  OBVIOUS
<1>3. n = "evidence_record" => state.critic.status # "failed" /\ ~GateFailed
  BY DEF PostJudge, Judge
<1>4. GateFailed \/ state.gate_evidence = None \/ state.gate_evidence.said.failed = {}
  BY DEF GateFailed
<1>5. sel \in {None, "A"}
  BY <1>1 DEF GraphInv, BuildHolds, CompareAB
<1> HIDE DEF verdict, n, sel
<1>6. TypeOK'
  <2>1. state' \in State
    BY <1>1, <1>2, <1>5 DEF GraphInv, TypeOK, State, Node
  <2> QED BY <1>1, <2>1 DEF GraphInv, TypeOK
<1>7. GatesHold' /\ ChecksHold' /\ NothingFailed' /\ ScoreHolds' /\ VerdictHolds'
       /\ NeverAsksOperator'
  BY <1>1, <1>2 DEF GraphInv, TypeOK, State, Planned, GatesHold, ChecksHold, NothingFailed,
    ScoreHolds, VerdictHolds, NeverAsksOperator, PastGates
<1>8. BuildHolds' /\ ReviewHolds' /\ RecordHolds' /\ SelectedHolds' /\ LeakHolds'
  BY <1>1, <1>2, <1>3, <1>4, <1>5 DEF GraphInv, TypeOK, State, BuildHolds, ReviewHolds,
    RecordHolds, SelectedHolds,
    LeakHolds, Left, PastGates
<1> QED BY <1>6, <1>7, <1>8 DEF GraphInv

\* evidence_record.
LEMMA EvidenceRecordStep == ASSUME GraphInv, EvidenceRecord PROVE GraphInv'
<1>1. /\ state' = [state EXCEPT !.recorded = Append(@, state.step), !.next = "next_step"]
      /\ UNCHANGED <<plan, dirty, ready, outcome, restarts>>
      /\ state.next = "evidence_record"
  BY DEF EvidenceRecord, Returns, At
<1> DEFINE rec == Append(state.recorded, state.step)
<1>2. rec \in Seq(Step)
  BY DEF GraphInv, TypeOK, State
<1>3. state' = [state EXCEPT !.recorded = rec, !.next = "next_step"]
  BY <1>1
<1> HIDE DEF rec
<1>4. TypeOK'
  <2>1. state' \in State
    BY <1>2, <1>3 DEF GraphInv, TypeOK, State, Node
  <2> QED BY <1>1, <2>1 DEF GraphInv, TypeOK
<1>5. GatesHold' /\ ChecksHold' /\ NothingFailed' /\ ScoreHolds' /\ VerdictHolds'
       /\ NeverAsksOperator'
  BY <1>1, <1>3 DEF GraphInv, TypeOK, State, GatesHold, ChecksHold, NothingFailed,
    ScoreHolds, VerdictHolds, NeverAsksOperator, PastGates
<1>6. BuildHolds' /\ ReviewHolds' /\ RecordHolds' /\ SelectedHolds' /\ LeakHolds'
  BY <1>1, <1>3 DEF GraphInv, TypeOK, State, BuildHolds, ReviewHolds, RecordHolds,
    SelectedHolds,
    LeakHolds, Left, PastGates
<1> QED BY <1>4, <1>5, <1>6 DEF GraphInv

\* next_step, to another step or to the end.
LEMMA NextStepStep == ASSUME GraphInv, NextStep PROVE GraphInv'
<1>1. CASE IsLast(state.step)
  <2>1. /\ state' = [state EXCEPT !.next = "__end__"]
        /\ outcome' = "completed"
        /\ UNCHANGED <<plan, dirty, ready, restarts>>
    BY <1>1 DEF NextStep
  <2>2. TypeOK'
    <3>1. state' \in State
      BY <2>1 DEF GraphInv, TypeOK, State, Node
    <3> QED BY <2>1, <3>1 DEF GraphInv, TypeOK
  <2>3. GatesHold' /\ ChecksHold' /\ NothingFailed' /\ ScoreHolds' /\ VerdictHolds'
       /\ NeverAsksOperator'
    BY <2>1 DEF GraphInv, TypeOK, State, GatesHold, ChecksHold, NothingFailed, ScoreHolds,
      VerdictHolds, NeverAsksOperator, PastGates
  <2>4. BuildHolds' /\ ReviewHolds' /\ RecordHolds' /\ SelectedHolds' /\ LeakHolds'
    BY <2>1 DEF GraphInv, TypeOK, State, BuildHolds, ReviewHolds, RecordHolds, SelectedHolds,
      LeakHolds, Left, PastGates
  <2> QED BY <2>2, <2>3, <2>4 DEF GraphInv
<1>2. CASE ~IsLast(state.step)
  <2> DEFINE s == Following(state.step)
  <2>1. /\ state' = [Reset(state) EXCEPT !.step = s, !.next = "gate_check"]
        /\ UNCHANGED <<plan, dirty, ready, outcome, restarts>>
    BY <1>2 DEF NextStep, Returns, StartOfStep
  <2>2. s \in Step
    <3>1. state.step \in Step
      BY DEF GraphInv, TypeOK, State
    <3>2. state.step[1] + 1 \in Nat \ {0} /\ state.step[2] + 1 \in Nat \ {0}
      BY <3>1 DEF Step
    <3> QED BY <3>1, <3>2 DEF Following, Step
  <2> HIDE DEF s
  <2>3. TypeOK'
    <3>1. 0 \in Score
      BY DEF Score
    <3>2. Reset(state) \in State
      BY <3>1 DEF GraphInv, TypeOK, State, Reset
    <3>3. state' \in State
      BY <2>1, <2>2, <3>2 DEF State, Node
    <3> QED BY <2>1, <3>3 DEF GraphInv, TypeOK
  <2>4. /\ state'.next = "gate_check" /\ state'.selected = state.selected
        /\ state'.gates = state.gates /\ state'.checks = state.checks
        /\ state.next = "next_step"
    BY <2>1 DEF Reset, GraphInv, TypeOK, State, NextStep, At
  <2>5. GatesHold' /\ ChecksHold' /\ NothingFailed' /\ ScoreHolds' /\ VerdictHolds'
       /\ NeverAsksOperator'
    BY <2>4 DEF GraphInv, GatesHold, ChecksHold, NothingFailed, ScoreHolds, VerdictHolds,
      NeverAsksOperator, PastGates
  <2>6. BuildHolds' /\ ReviewHolds' /\ RecordHolds' /\ SelectedHolds' /\ LeakHolds'
    BY <2>4 DEF GraphInv, BuildHolds, ReviewHolds, RecordHolds, SelectedHolds,
      LeakHolds, Left, PastGates
  <2> QED BY <2>3, <2>5, <2>6 DEF GraphInv
<1> QED BY <1>1, <1>2

\* workflow_fail.
LEMMA WorkflowFailStep == ASSUME GraphInv, WorkflowFail PROVE GraphInv'
<1>1. /\ state' = [state EXCEPT !.next = "__end__"]
      /\ outcome' = "failed"
      /\ UNCHANGED <<plan, dirty, ready, restarts>>
  BY DEF WorkflowFail
<1>2. TypeOK'
  <2>1. state' \in State
    BY <1>1 DEF GraphInv, TypeOK, State, Node
  <2> QED BY <1>1, <2>1 DEF GraphInv, TypeOK
<1>3. GatesHold' /\ ChecksHold' /\ NothingFailed' /\ ScoreHolds' /\ VerdictHolds'
       /\ NeverAsksOperator'
  BY <1>1 DEF GraphInv, TypeOK, State, GatesHold, ChecksHold, NothingFailed, ScoreHolds,
    VerdictHolds, NeverAsksOperator, PastGates
<1>4. BuildHolds' /\ ReviewHolds' /\ RecordHolds' /\ SelectedHolds' /\ LeakHolds'
  BY <1>1 DEF GraphInv, TypeOK, State, BuildHolds, ReviewHolds, RecordHolds, SelectedHolds,
    LeakHolds, Left, PastGates
<1> QED BY <1>2, <1>3, <1>4 DEF GraphInv

\* A restart keeps the saved state; what it changes the invariant only types.
LEMMA RestartStep == ASSUME GraphInv, Restart PROVE GraphInv'
<1>1. UNCHANGED <<plan, state, outcome>>
  BY DEF Restart
<1>2. TypeOK'
  <2>1. dirty' \subseteq Files
    BY DEF Restart, GraphInv, TypeOK
  <2>2. ready' \in BOOLEAN
    BY WorkerLostAssumption DEF Restart, GraphInv, TypeOK
  <2>3. restarts' \in 0..MaxRestarts
    BY MaxRestartsAssumption DEF Restart, GraphInv, TypeOK
  <2> QED BY <1>1, <2>1, <2>2, <2>3 DEF GraphInv, TypeOK
<1>3. GatesHold' /\ ChecksHold' /\ NothingFailed' /\ ScoreHolds' /\ VerdictHolds'
       /\ NeverAsksOperator'
  BY <1>1 DEF GraphInv, Planned, GatesHold, ChecksHold, NothingFailed, ScoreHolds, VerdictHolds,
    NeverAsksOperator
<1>4. BuildHolds' /\ ReviewHolds' /\ RecordHolds' /\ SelectedHolds' /\ LeakHolds'
  BY <1>1 DEF GraphInv, BuildHolds, ReviewHolds, RecordHolds, SelectedHolds,
    LeakHolds, Left, PastGates
<1> QED BY <1>2, <1>3, <1>4 DEF GraphInv

\* A step that changes nothing.
LEMMA GraphStutter == ASSUME GraphInv, UNCHANGED vars PROVE GraphInv'
<1>1. TypeOK' /\ NeverAsksOperator'
  BY DEF GraphInv, vars, TypeOK, NeverAsksOperator
<1>2. GatesHold' /\ ChecksHold' /\ NothingFailed' /\ ScoreHolds' /\ VerdictHolds'
  BY DEF GraphInv, vars, Planned, GatesHold, ChecksHold, NothingFailed, ScoreHolds, VerdictHolds
<1>3. BuildHolds' /\ ReviewHolds' /\ RecordHolds' /\ SelectedHolds' /\ LeakHolds'
  BY DEF GraphInv, vars, BuildHolds, ReviewHolds, RecordHolds, SelectedHolds,
    LeakHolds, Left, PastGates
<1> QED BY <1>1, <1>2, <1>3 DEF GraphInv

----------------------------------------------------------------------------
(* The theorems.                                                           *)

\* Every state of a run satisfies the invariant, whatever the plan, however
\* many gates, checks and restarts there are.
THEOREM GraphInvariant == Spec => []GraphInv
<1>1. Init => GraphInv
  BY GraphInit
<1>2. GraphInv /\ [Next]_vars => GraphInv'
  <2> SUFFICES ASSUME GraphInv, [Next]_vars PROVE GraphInv'
    OBVIOUS
  <2>1. CASE GateCheck           BY <2>1, GateCheckStep
  <2>2. CASE DeterministicChecks BY <2>2, DeterministicChecksStep
  <2>3. CASE RiskAssess          BY <2>3, RiskAssessStep
  <2>4. CASE CriticsAndScore     BY <2>4, CriticsAndScoreStep
  <2>5. CASE JudgeNode           BY <2>5, JudgeNodeStep
  <2>6. CASE MicroExecute        BY <2>6, MicroExecuteStep
  <2>7. CASE DaBuilder           BY <2>7, DaBuilderStep
  <2>8. CASE DaCritic            BY <2>8, DaCriticStep
  <2>9. CASE AbAlternate         BY <2>9, AbAlternateStep
  <2>10. CASE PostExecJudge      BY <2>10, PostExecJudgeStep
  <2>11. CASE EvidenceRecord     BY <2>11, EvidenceRecordStep
  <2>12. CASE NextStep           BY <2>12, NextStepStep
  <2>13. CASE WorkflowFail       BY <2>13, WorkflowFailStep
  <2>14. CASE Restart            BY <2>14, RestartStep
  <2>15. CASE UNCHANGED vars     BY <2>15, GraphStutter
  <2> QED
    BY <2>1, <2>2, <2>3, <2>4, <2>5, <2>6, <2>7, <2>8, <2>9, <2>10, <2>11, <2>12,
       <2>13, <2>14, <2>15 DEF Next, RunNode
<1> QED BY <1>1, <1>2, PTL DEF Spec

\* The saved state keeps its types through every node and every restart.
THEOREM GraphTyped == Spec => []TypeOK
<1>1. GraphInv => TypeOK
  BY DEF GraphInv
<1> QED BY <1>1, GraphInvariant, PTL

\* With the weights and thresholds of critics.py, for any number of gates,
\* checks and critics, the judge before execution never sends a step to the
\* operator.
THEOREM OperatorIsNeverAsked == Spec => []NeverAsksOperator
<1>1. GraphInv => NeverAsksOperator
  BY DEF GraphInv
<1> QED BY <1>1, GraphInvariant, PTL

\* No step is executed, by a worker or in the process, but after the gates
\* and the checks of that very step have all passed.
THEOREM GatesComeFirst == Spec => []ExecutedAfterItsGates
<1>1. GraphInv => ExecutedAfterItsGates
  <2> SUFFICES ASSUME GraphInv, state.next \in {"micro_execute", "da_builder"}
               PROVE  /\ state.gates.of = state.step /\ state.gates.failed = {}
                      /\ state.checks.of = state.step /\ ~Failed(state.checks)
                      /\ state.verdict = "proceed"
    BY DEF ExecutedAfterItsGates
  <2>1. state.gates.of = state.step /\ state.checks.of = state.step
    BY DEF GraphInv, GatesHold, ChecksHold, PastGates
  <2>2. state.gates.failed = {} /\ state.checks.passed = state.checks.total
    BY DEF GraphInv, NothingFailed
  <2>3. state.checks \in Tally
    BY DEF GraphInv, TypeOK, State
  <2>4. state.verdict = "proceed"
    BY DEF GraphInv, VerdictHolds
  <2> QED BY <2>1, <2>2, <2>3, <2>4 DEF Failed, Tally
<1> QED BY <1>1, GraphInvariant, PTL

\* A build that its tools fail, or whose review fails, is never recorded.
THEOREM RejectedNeverRecorded == Spec => []RejectedIsNotRecorded
<1>1. GraphInv => RejectedIsNotRecorded
  BY DEF GraphInv, RecordHolds, RejectedIsNotRecorded, At
<1> QED BY <1>1, GraphInvariant, PTL

\* The build that the judge selects is the one that is in the worktree.
THEOREM SelectedIsKept == Spec => []SelectedWorkIsKept
<1>1. GraphInv => SelectedWorkIsKept
  BY DEF GraphInv, SelectedHolds, SelectedWorkIsKept
<1> QED BY <1>1, GraphInvariant, PTL

\* After a worker whose output holds a secret or the name of what the platform
\* does not permit, nothing is executed: the gates of the next step find it.
THEOREM LeakStopsTheRun == Spec => []NothingRunsAfterALeak
<1>1. GraphInv => NothingRunsAfterALeak
  BY DEF GraphInv, LeakHolds, PastGates, NothingRunsAfterALeak
<1> QED BY <1>1, GraphInvariant, PTL
=============================================================================

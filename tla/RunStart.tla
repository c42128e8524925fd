------------------------------ MODULE RunStart ------------------------------
(***************************************************************************)
(* The commands of RunControl and the registry they work on.  A start      *)
(* command validates the project's worktree, registers the run with what   *)
(* the operator asks for, and executes node_start, which makes the plan    *)
(* and writes it to the tables in several transactions; a process that is  *)
(* killed on the way is followed by a resume command, which knows of the   *)
(* request only what the row and the thread hold.                          *)
(*                                                                         *)
(* Each action is RunControl's, conjoined with what it does to the state   *)
(* added here.  The number of steps the graph goes through is Steps; which *)
(* ones they are, and what runs in them, is module WorkflowGraph's.        *)
(***************************************************************************)
EXTENDS RunControl, ProjectRegistry, Charter

CONSTANTS
  Project,   \* the key of the run's project
  Requests,  \* what the operator may ask for
  Governed,  \* the paths below the worktree roots that workers may use
  Budgets    \* bound: how many kills, init commands, clients' sessions, commands at
             \* a time, and kinds of failed writes

ASSUME ProjectAssumption == Project \in Keys
ASSUME GoalAssumption == \A r \in Requests : r.goal # <<>>
ASSUME GovernedAssumption == Governed \subseteq Paths

\* What a process hands to the graph: the request, and where the project is.
Input == [request : Request(UNION {r.taint : r \in Requests}), home : Home]

ASSUME RequestsAssumption == Requests \subseteq Request(UNION {r.taint : r \in Requests})
ASSUME InputAssumption == None \notin Input

VARIABLES
  own,        \* the request and the home each process works with
  milestone,  \* wf_runs.current_milestone
  held,       \* what the thread's first checkpoint holds: request and home
  sub,        \* how far each process is in node_start
  noted,      \* errors node_start has noted in its update of the state
  errors,     \* errors in the checkpoint
  rows,       \* wf_milestones, wf_macro_steps and wf_micro_steps
  charters    \* wf_charters: the requests of its versions

startVars == <<own, milestone, held, sub, noted, errors, rows, charters>>
allVars == <<vars, registry, startVars>>

Fault == {"charter", "catalogue"}

StartInit ==
  /\ Init
  /\ RegistryInit
  /\ own = [p \in Procs |-> None]
  /\ milestone = None
  /\ held = None
  /\ sub = [p \in Procs |-> "none"]
  /\ noted = [p \in Procs |-> {}]
  /\ errors = {}
  /\ rows = {}
  /\ charters = {}

\* What resume, approve and reject hand to run_workflow: the milestone of the
\* row, or M6, without goal, criteria or profile.
Remembered ==
  [milestone |-> IF milestone = None THEN "M6" ELSE milestone, goal |-> <<>>,
   acceptance |-> <<>>, profile |-> "medium", override |-> FALSE, taint |-> {}]

\* A process that has ended remembers nothing.
Forget(p) ==
  /\ own' = [own EXCEPT ![p] = IF pc'[p] = "idle" THEN None ELSE @]
  /\ noted' = [noted EXCEPT ![p] = IF pc'[p] = "idle" THEN {} ELSE @]
  /\ sub' = [sub EXCEPT ![p] = IF pc'[p] = "idle" THEN "none" ELSE @]

tables == <<rows, charters>>
thread == <<held, errors>>

----------------------------------------------------------------------------

\* cmd_start: nothing is registered for a project whose worktree is refused.
StartRun(p, r) ==
  /\ Validated(Project)
  /\ Start(p)
  /\ own' = [own EXCEPT ![p] = [request |-> r, home |-> projects[Project]]]
  /\ UNCHANGED <<milestone, thread, sub, noted, tables>>

\* The attestation has passed: the row gets the milestone.
AttestRun(p) ==
  /\ Attest(p)
  /\ Forget(p)
  /\ milestone' = IF status' = "running" THEN own[p].request.milestone ELSE milestone
  /\ UNCHANGED <<thread, tables>>

\* _claim_authorized_run validates the worktree the project has by now.
ClaimRun(p) ==
  /\ IF Validated(Project)
     THEN /\ Claim(p)
          /\ own' = [own EXCEPT ![p] =
                       IF pc'[p] = "idle" THEN None
                       ELSE [request |-> Remembered, home |-> projects[Project]]]
     ELSE ClaimRefused(p) /\ UNCHANGED own
  /\ UNCHANGED <<milestone, thread, sub, noted, tables>>

\* run_workflow: a thread that holds values keeps them.  (Overwritten is a
\* faulty variant.)
Overwritten(p) == own[p]
InputOf(p) == IF held = None THEN own[p] ELSE held

InvokeRun(p) ==
  /\ Invoke(p)
  /\ Forget(p)
  /\ held' = IF ckpt.node = "none" THEN InputOf(p) ELSE held
  /\ UNCHANGED <<milestone, errors, tables>>

----------------------------------------------------------------------------
(* node_start, one transaction or call at a time.                          *)

Plan == PlanOf(held.request)
Synthesized == ~Plan.catalogue /\ Plan.macros # <<>>

RowsOf(macros) ==
  {[milestone |-> held.request.milestone, macro |-> a, micros |-> Len(macros[a])] :
     a \in DOMAIN macros}

InStart(p, s) == pc[p] = "save" /\ sub[p] = s

GoOn(p, s) ==
  /\ sub' = [sub EXCEPT ![p] = s]
  /\ UNCHANGED <<registry, vars, own, milestone, thread>>

\* The worktree is one that workers may use, or the node raises.
StartNode(p) ==
  /\ AtNode(p, "start")
  /\ held.home.worktree \in Governed
  /\ NodeStart(p)
  /\ milestone' = held.request.milestone
  /\ sub' = [sub EXCEPT ![p] = IF Synthesized THEN "charter" ELSE "catalogue"]
  /\ UNCHANGED <<own, noted, thread, tables>>

RefuseWorktree(p) ==
  /\ AtNode(p, "start")
  /\ held.home.worktree \notin Governed
  /\ Raise(p)
  /\ Forget(p)
  /\ UNCHANGED <<milestone, thread, tables>>

\* upsert_charter, for a plan made from the goal.
WriteCharter(p) ==
  /\ InStart(p, "charter")
  /\ \/ charters' = charters \cup {held.request} /\ UNCHANGED noted
     \/ noted' = [noted EXCEPT ![p] = @ \cup {"charter"}] /\ UNCHANGED charters
  /\ GoOn(p, "catalogue")
  /\ UNCHANGED rows

\* persist_step_catalogue: each row is a transaction of its own, and the first
\* that fails is the last that is tried.
WriteCatalogue(p) ==
  /\ InStart(p, "catalogue")
  /\ \/ rows' = rows \cup RowsOf(Plan.macros) /\ UNCHANGED noted
     \/ /\ Plan.macros # <<>>
        /\ \E n \in {0, Len(Plan.macros) - 1} :
             rows' = rows \cup RowsOf(SubSeq(Plan.macros, 1, n))
        /\ noted' = [noted EXCEPT ![p] = @ \cup {"catalogue"}]
  /\ GoOn(p, "session")
  /\ UNCHANGED charters

\* session_open through the gateway, which records the project like any other
\* client, and the events of the session, which module EvidenceJournal has.  A
\* memory that does not answer is no obstacle.
OpenMemory(p) ==
  /\ InStart(p, "session")
  /\ \/ /\ SessionAccepted(Project, held.home)
        /\ RecordSession(Project, held.home)
        /\ UNCHANGED <<disk, preparing, inits, opens, enrolled>>
     \/ UNCHANGED registry
  /\ sub' = [sub EXCEPT ![p] = "done"]
  /\ UNCHANGED <<vars, own, milestone, thread, noted, tables>>

\* The checkpoint after node_start holds its notes.
SaveRun(p) ==
  /\ sub[p] \in {"none", "done"}
  /\ Save(p)
  /\ errors' = errors \cup noted[p]
  /\ noted' = [noted EXCEPT ![p] = {}]
  /\ sub' = [sub EXCEPT ![p] = "none"]
  /\ own' = [own EXCEPT ![p] = IF pc'[p] = "idle" THEN None ELSE @]
  /\ UNCHANGED <<milestone, held, tables>>

\* Without a plan the requirement gate fails.
JudgeRun(p) ==
  /\ AtNode(p, "judge")
  /\ \E v \in IF Plan.macros = <<>> THEN {"block"} ELSE Verdicts : NodeJudge(p, v)
  /\ UNCHANGED startVars

----------------------------------------------------------------------------

\* The steps of RunControl that concern none of this.
OtherStep(p) ==
  /\ \/ \E c \in RunCommands : Begin(p, c)
     \/ LookForPause(p) \/ CancelLooks(p) \/ ResolveCheck(p) \/ ResolveWrite(p)
     \/ Reconcile(p) \/ Reap(p)
     \/ NodePause(p) \/ NodePauseUnrecorded(p) \/ Interrupt(p) \/ PauseAnswered(p)
     \/ NodeExecute(p) \/ NodeAdvance(p) \/ NodeFail(p)
  /\ Forget(p)
  /\ UNCHANGED <<milestone, thread, tables>>

RaiseRun(p) == Raise(p) /\ Forget(p) /\ UNCHANGED <<milestone, thread, tables>>
KillRun(p) == Kill(p) /\ Forget(p) /\ UNCHANGED <<milestone, thread, tables>>

ControlStep(p) ==
  \/ \E r \in Requests : StartRun(p, r)
  \/ AttestRun(p) \/ ClaimRun(p) \/ InvokeRun(p) \/ StartNode(p) \/ RefuseWorktree(p)
  \/ SaveRun(p) \/ JudgeRun(p) \/ OtherStep(p)

\* These take their step while RunControl stands still.
StartStep(p) == WriteCharter(p) \/ WriteCatalogue(p) \/ OpenMemory(p)

ProcessStep(p) ==
  \/ ControlStep(p) /\ UNCHANGED <<registry, kills>>
  \/ StartStep(p)

Within ==
  \E budget \in Budgets :
    /\ kills' <= budget.kills /\ inits' <= budget.inits /\ opens' <= budget.opens
    /\ Cardinality({p \in Procs : pc'[p] # "idle"}) <= budget.commands
    /\ Cardinality(errors' \cup UNION {noted'[p] : p \in Procs}) <= budget.faults

StartNext ==
  \/ \E p \in Procs : ProcessStep(p) /\ Within
  \/ \E p \in Procs : RaiseRun(p) /\ UNCHANGED <<registry, kills>>
  \/ \E p \in Procs : KillRun(p) /\ UNCHANGED registry /\ Within
  \/ Age /\ UNCHANGED <<registry, startVars>>
  \/ RegistryNext /\ UNCHANGED <<vars, startVars>> /\ Within

(* A process that is not killed goes on until it ends; the operator starts  *)
(* the run, keeps resuming it, and approves what is pending; the database   *)
(* does not fail create_pause each time.                                    *)
Given(p) == Forget(p) /\ UNCHANGED <<registry, kills, milestone, thread, tables>>

\* Who goes on with the run; others may cancel it.
Operators == {p \in Procs : {"start", "resume", "approve"} \subseteq Commands[p]}

StartFairness ==
  /\ \A p \in Procs : WF_allVars(pc[p] # "idle" /\ ProcessStep(p))
  /\ \A p \in Operators :
       /\ WF_allVars(\E r \in Requests : StartRun(p, r) /\ UNCHANGED <<registry, kills>>)
       /\ SF_allVars(Begin(p, "resume") /\ Given(p))
       /\ SF_allVars(pending # <<>> /\ Begin(p, "approve") /\ Given(p))
       /\ SF_allVars(NodePause(p) /\ Given(p))

StartSpec == StartInit /\ [][StartNext]_allVars /\ StartFairness

----------------------------------------------------------------------------

\* Once node_start is over, the tables hold the plan the run goes by, all of
\* it and nothing else, with the charter it was made for, unless the run's
\* errors say that writing it failed; whatever was killed and done again, and
\* although a resumed start is not told the request.
StartIsRecorded ==
  ckpt.node # "none" =>
    /\ "catalogue" \notin errors => rows = RowsOf(Plan.macros)
    /\ "charter" \notin errors =>
         charters = IF Synthesized THEN {held.request} ELSE {}

OneAtATime == \A p, q \in Procs : pc[p] # "idle" /\ pc[q] # "idle" => p = q

\* While commands are given one at a time, the run of a project that init has
\* enrolled comes to an end: resumed after every kill, with its pauses approved,
\* it is never stuck between resume, which gives way to a pending pause, and
\* approve, which needs one, and no later write to the registry keeps the
\* commands from it.  (A cancellation that overlaps with an approval can set a
\* run that has ended running.)
RunSettles ==
  []OneAtATime => (enrolled # {} ~> status \in {"completed", "failed", "aborted"})
=============================================================================

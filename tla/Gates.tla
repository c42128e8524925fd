------------------------------- MODULE Gates -------------------------------
(***************************************************************************)
(* The gates a step passes before it is executed (gates.py), the checks    *)
(* and the critics that are scored (critics.py), as functions of what they *)
(* read: the view of the saved state of a run, and the world outside it.   *)
(* A gate answers pass, fail or warn; an exception in one is a warn.       *)
(***************************************************************************)
EXTENDS Integers, FiniteSets

\* The world a node finds: whether the database answers and has the M6
\* migration, the file BLUEPRINT.md, the tools on the PATH, the number of JIT
\* leases, the script that undoes the migration, the tools the memory server
\* lists, and whether the database refuses the scope of an unknown project.
World ==
  [database : BOOLEAN, migrated : BOOLEAN, blueprint : {"found", "odd", "missing"},
   tools : SUBSET {"ruff", "mypy", "pytest", "depwire"}, leases : Nat,
   down : BOOLEAN, surface : BOOLEAN, scoped : BOOLEAN]

\* What tools said of a build, by the gate it is kept for, and what depwire
\* flagged in its structure.
ToolGate == {"formatting", "lint", "typecheck", "depwire_verify"}
Flag == {"god_node", "direction", "hotspots"}

\* Texts that a gate looks for: an assignment of a token, which the patterns of
\* two gates match, a private key, which one does, and names of what the
\* platform does not permit.
Taint == {"token", "private_key", "forbidden"}

\* What the gates read of the state of a run, the view: whether there is a plan;
\* what labels, goal and the latest output contain (Taint); the gates for which
\* a tool passed or failed (ToolGate); the flags of the build; how many files
\* changed, and whether one escaped; where the worktree is.

FailIf(broken) == IF broken THEN "fail" ELSE "pass"

----------------------------------------------------------------------------
(* The gates.                                                              *)

\* Evidence decides; without it the tool has only to be installed.
ToolHookGate(view, gate, commands, w) ==
  CASE gate \in view.failed                     -> "fail"
    [] gate \in view.passed \ view.failed       -> "pass"
    [] OTHER -> IF commands \cap w.tools # {} THEN "pass" ELSE "warn"

GateRequirement(view) == FailIf(~view.planned)

\* The steps of a run never change after its baseline was stored.
GateScope(w) == IF w.database THEN "pass" ELSE "warn"

GateArch(view) ==
  IF "forbidden" \in view.labels \/ view.flags \cap {"god_node", "direction"} # {} THEN "fail"
  ELSE IF "hotspots" \in view.flags THEN "warn" ELSE "pass"

GateDocVersion(w) ==
  CASE w.blueprint = "missing" -> "fail"
    [] w.blueprint = "odd"     -> "warn"
    [] w.blueprint = "found"   -> "pass"

\* The whole state is searched.
GateSecurity(view) == FailIf("token" \in view.labels \cup view.goal \cup view.output)

GateMigration(w) ==
  IF ~w.database THEN "warn" ELSE FailIf(~w.migrated)

\* The count of reworks and the budget start again with each step and never
\* reach their ceilings.
GateResource(w) == IF w.database /\ w.leases > 5 THEN "warn" ELSE "pass"

\* compute_drift: the worst of four scores, in hundredths, of the files of a
\* diff; planned says which files the plan names, none if it names none.
DriftScores(diff) ==
  LET surprises == {f \in diff.files \ diff.tests : f \notin diff.planned}
      shock == ((Cardinality(diff.files) - 8) * 100) \div 8
  IN {IF shock > 0 THEN IF shock < 100 THEN shock ELSE 100 ELSE 0,
      IF diff.forbidden \cap diff.files # {} THEN 100 ELSE 0,
      IF diff.files \ (diff.tests \cup diff.documents) # {} /\ diff.files \cap diff.tests = {}
        THEN 40 ELSE 0,
      IF diff.planned # {} /\ surprises # {}
        THEN IF Cardinality(surprises) < 3 THEN 20 * Cardinality(surprises) ELSE 60
        ELSE 0}

\* No worker puts a diff into its result, and a result without one passes.
DiffOf(view) == {}
GateDrift(view) ==
  FailIf(\E diff \in DiffOf(view) : \E score \in DriftScores(diff) : score >= 30)

\* The artifacts of the latest execution, and the goal.  (ScanGoalOnly is a
\* faulty variant.)
ScanGoalOnly(view) == FailIf("private_key" \in view.goal)
GateSecretScan(view) ==
  FailIf({"token", "private_key"} \cap (view.output \cup view.goal) # {})

GateFilesystemBoundary(view) ==
  CASE view.worktree = "none"    -> "warn"
    [] view.worktree = "outside" -> "fail"
    [] view.worktree = "inside"  -> FailIf(view.escaped)

GateDependencyScan(view) == FailIf("forbidden" \in view.output)

GateNames ==
  {"requirement", "scope", "arch", "doc_version", "security", "migration", "resource",
   "drift", "formatting", "lint", "typecheck", "unit", "integration", "secret_scan",
   "depwire_verify", "filesystem_boundary", "dependency_scan"}

\* GATE_REGISTRY.  The gates of tests look at whether a runner is installed;
\* python always is.
GateVerdict(gate, view, w) ==
  CASE gate = "requirement"         -> GateRequirement(view)
    [] gate = "scope"               -> GateScope(w)
    [] gate = "arch"                -> GateArch(view)
    [] gate = "doc_version"         -> GateDocVersion(w)
    [] gate = "security"            -> GateSecurity(view)
    [] gate = "migration"           -> GateMigration(w)
    [] gate = "resource"            -> GateResource(w)
    [] gate = "drift"               -> GateDrift(view)
    [] gate \in {"formatting", "lint"} -> ToolHookGate(view, gate, {"ruff"}, w)
    [] gate = "typecheck"           -> ToolHookGate(view, gate, {"mypy"}, w)
    [] gate = "unit"                -> "pass"
    [] gate = "integration"         -> ToolHookGate(view, gate, {"pytest"}, w)
    [] gate = "secret_scan"         -> GateSecretScan(view)
    [] gate = "depwire_verify"      -> ToolHookGate(view, gate, {"depwire"}, w)
    [] gate = "filesystem_boundary" -> GateFilesystemBoundary(view)
    [] gate = "dependency_scan"     -> GateDependencyScan(view)

\* run_all_gates: the gates that gave a verdict.
RunAllGates(verdict, view, w) == {g \in GateNames : GateVerdict(g, view, w) = verdict}

----------------------------------------------------------------------------
(* The checks and the critics, counted.                                    *)

Count(holds) == IF holds THEN 1 ELSE 0

CheckMigrationApplied(w) == w.database /\ w.migrated
CheckThreadIsolation(w) == w.database
CheckNoCrossProjectTools(w) == w.database
CheckMemorySurfaceIntact(w) == w.surface

Checks == 4
ChecksPassed(w) ==
  Count(CheckMigrationApplied(w)) + Count(CheckThreadIsolation(w))
    + Count(CheckNoCrossProjectTools(w)) + Count(CheckMemorySurfaceIntact(w))

\* An error of the query counts as the refusal the critic looks for.
CriticIsolationBoundary(w) == w.database => w.scoped
CriticSchemaChange(w) == w.down
CriticLeaseExpiry(w) == w.database

\* More files than this are a large diff to the refactor critic, which reads
\* those of the step before; the evidence of tools is empty when it runs.
CriticRefactorRisk(changed, large) == changed <= large

\* CRITIC_REGISTRY; the critic of Swarm never fails.
Critics(risk) == CASE risk = "low" -> 0 [] risk = "medium" -> 3 [] OTHER -> 5
CriticsPassed(risk, changed, large, w) ==
  LET medium == Count(CriticSchemaChange(w)) + Count(CriticLeaseExpiry(w))
                  + Count(CriticRefactorRisk(changed, large))
  IN CASE risk = "low"    -> 0
       [] risk = "medium" -> medium
       [] OTHER           -> medium + Count(CriticIsolationBoundary(w)) + 1
=============================================================================

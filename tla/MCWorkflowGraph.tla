-------------------------- MODULE MCWorkflowGraph --------------------------
EXTENDS WorkflowGraph, SequencesExt

\* What operators ask for: the default milestone, with and without criteria,
\* goals of one or more items, and texts the gates look for.
Asked(milestones, goals, criteria, profiles, taints) ==
  {[milestone |-> m, goal |-> g, acceptance |-> [i \in 1..c |-> "text"], profile |-> p,
    override |-> FALSE, taint |-> t]
     : m \in milestones, g \in goals, c \in criteria, p \in profiles, t \in taints}

MCRequests ==
  Asked({"M6"}, {<<"prose">>}, {0}, {"medium"}, {{}})
  \cup Asked({"G1", "isolation"}, {<<"prose", "prose">>}, {0, 2}, Risk, {{}})
  \cup Asked({"G1"}, {<<"item", "item">>}, {0, 2}, {"cheap", "strict"}, {{}})
  \cup Asked({"G1"}, {<<"prose">>}, {0}, {"medium"}, {{"token"}, {"private_key"}, {"forbidden"}})
  \cup Asked({"G1"}, {<<>>}, {0}, {"medium"}, {{}})

MCPlans == {PlanOf(request) : request \in MCRequests}

\* A world that is in order, and worlds with one thing in them that is not.
InOrder ==
  [database |-> TRUE, migrated |-> TRUE, blueprint |-> "found",
   tools |-> {"ruff", "mypy", "pytest", "depwire"}, leases |-> 1,
   down |-> TRUE, surface |-> TRUE, scoped |-> TRUE]
MCWorlds ==
  {InOrder,
   [InOrder EXCEPT !.database = FALSE], [InOrder EXCEPT !.migrated = FALSE],
   [InOrder EXCEPT !.blueprint = "odd"], [InOrder EXCEPT !.blueprint = "missing"],
   [InOrder EXCEPT !.tools = {}], [InOrder EXCEPT !.leases = 6],
   [InOrder EXCEPT !.surface = FALSE], [InOrder EXCEPT !.down = FALSE, !.scoped = FALSE]}

MCOutputs == {{}, {"token"}, {"private_key"}, {"forbidden"}}

\* All pass; the linter fails; depwire passes a build and flags it.
MCEvidences ==
  {[passed |-> ToolGate, failed |-> {}, flags |-> {}],
   [passed |-> {"typecheck"}, failed |-> {"formatting", "lint"}, flags |-> {}],
   [passed |-> {"depwire_verify"}, failed |-> {}, flags |-> {"god_node"}],
   [passed |-> {"depwire_verify"}, failed |-> {}, flags |-> {"hotspots"}]}

\* A model that is there, or one thing that keeps a worker from its work; the
\* two modes for tests; and a worktree with a link that leads out of it.
Ready == [mode |-> "llm", model |-> [provider |-> "gemini", name |-> "named"],
          slots |-> 4, gpus |-> 1, links |-> {}]
MCMachines ==
  {Ready, [Ready EXCEPT !.slots = 0, !.gpus = 0], [Ready EXCEPT !.links = Files],
   [Ready EXCEPT !.model = [provider |-> "openrouter", name |-> "auto"]],
   [Ready EXCEPT !.model = [provider |-> "other", name |-> "none"]],
   [Ready EXCEPT !.mode = "deterministic"], [Ready EXCEPT !.mode = "hang"]}

\* A review with a high, a middling and a low score, and malformed ones.
Approval == [object |-> TRUE, passed |-> "true", number |-> TRUE, score |-> 10000,
             findings |-> "texts"]
MCReplies ==
  {Approval, [Approval EXCEPT !.score = 5000], [Approval EXCEPT !.passed = "false", !.score = 0],
   [Approval EXCEPT !.object = FALSE], [Approval EXCEPT !.passed = "odd"],
   [Approval EXCEPT !.score = 10001], [Approval EXCEPT !.findings = "odd"]}

\* The steps of the plan that have not been recorded yet.
Remaining ==
  LET all == FlattenSeq([a \in 1..Len(plan.macros) |->
                           [i \in 1..Len(plan.macros[a]) |-> <<a, i>>]])
  IN SubSeq(all, Len(state.recorded) + 1, Len(all))

Ledger == INSTANCE StepLedger
            WITH todo <- Remaining, done <- state.recorded

\* A run keeps the ledger of its steps: each accepted once, in order, and
\* completed only when all are.
RefinesLedger == Ledger!Spec
=============================================================================

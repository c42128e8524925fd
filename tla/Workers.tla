------------------------------ MODULE Workers ------------------------------
(***************************************************************************)
(* The Deep Agents workers (deepagents_worker.py): how one is admitted,    *)
(* what it may do in the worktree, and what it returns when it answers,    *)
(* raises, runs late or cannot be started.  Sets of files are those of the *)
(* worktree.  git holds what git lists at three moments of a build: before *)
(* it, again when the result of a late worker is prepared, and after it.   *)
(***************************************************************************)
EXTENDS Integers, FiniteSets

\* The mode of the environment: a model, a fixture, or a hang to test with.
Mode == {"llm", "deterministic", "hang"}

\* A model as it is written: its provider, and whether it is named, left to
\* the router, or missing.
ModelSpec == [provider : {"openrouter", "gemini", "openai", "other"}, name : {"named", "auto", "none"}]

\* What a worker finds: the mode, the model it is given, free slots for workers
\* and for the GPU, and the files that are links out of the worktree.
Machine(files) ==
  [mode : Mode, model : ModelSpec, slots : Nat, gpus : Nat, links : SUBSET files]

\* A model must be named where it is bought; others are left to the library.
ResolveModel(model) ==
  CASE model.provider = "openrouter"          -> model.name = "named"
    [] model.provider = "gemini"              -> model.name # "none"
    [] model.provider \in {"openai", "other"} -> TRUE

AcquireWorkerSlot(m) == m.slots > 0
AcquireVramSlot(m, heavy) == heavy => m.gpus > 0

\* No node asks for a heavy GPU.
CreateBoundedAgent(m) ==
  AcquireWorkerSlot(m) /\ AcquireVramSlot(m, FALSE) /\ ResolveModel(m.model)

Permissions(role) == IF role = "builder" THEN {"read", "write"} ELSE {"read"}

\* The profile that takes away the shell and, with no subagents allowed, the
\* tool that starts them is registered for the names of some providers only;
\* gemini's models are bought from openrouter.
ExcludedTools(provider, subagents) ==
  IF provider = "other" THEN {}
  ELSE {"execute"} \cup (IF subagents = 0 THEN {"task"} ELSE {})

\* An agent that keeps its shell may write with it.
MayEdit(m, role) ==
  \/ "write" \in Permissions(role)
  \/ "execute" \notin ExcludedTools(m.model.provider, 0)

\* The sets of files a worker may have edited when it ends.
Edits(m, role, files) ==
  IF m.mode = "llm" /\ CreateBoundedAgent(m) /\ MayEdit(m, role) THEN SUBSET files ELSE {{}}

----------------------------------------------------------------------------

\* How the call of an agent ends: with an answer, an empty one or an
\* exception, or not within the time.
End == {"answered", "empty", "raised", "alive"}

\* The thread of a late call is left alone, and an empty answer counts as one.
RunWithTimeout(end) ==
  CASE end \in {"alive", "empty"} -> "timeout"
    [] end = "raised"             -> "error"
    [] end = "answered"           -> "result"

\* What git lists after the build and did not list before.
FilesChanged(before, after) == after \ before

\* A changed file outside the worktree is an error; one that is gone, or is no
\* file, is only noted.
ArtifactManifest(links, changed) == changed \cap links = {}

\* The tools run on the build of a model only.
Built(output, changed, tools) ==
  [ok |-> TRUE, output |-> output, reported |-> changed, tools |-> tools]
NotBuilt(changed) == [ok |-> FALSE, output |-> {}, reported |-> changed, tools |-> FALSE]

\* A fixture reports what changed in the moment it ran, and its manifest raises
\* where a worker's would fail: no link leads out of a fixture's worktree.
DeterministicResult(git) == Built({}, FilesChanged(git.before, git.again), FALSE)

\* How a builder ends, with the links it found and the edits it may have made.
Ending(m, end, files) ==
  [how   |-> CASE m.mode # "llm"                            -> m.mode
               [] m.mode = "llm" /\ ~CreateBoundedAgent(m)  -> "error"
               [] m.mode = "llm" /\ CreateBoundedAgent(m)   -> RunWithTimeout(end),
   links |-> m.links,
   edits |-> Edits(m, "builder", files)]

\* run_builder_worker.  The result of a late worker, with the files in it, is
\* put together before the worker starts.
BuilderResult(ending, output, git) ==
  LET changed == FilesChanged(git.before, git.after)
  IN CASE ending.how = "deterministic" -> DeterministicResult(git)
       [] ending.how = "hang"          -> NotBuilt({})
       [] ending.how = "timeout"       -> NotBuilt(FilesChanged(git.before, git.again))
       [] ending.how = "error"         -> NotBuilt(changed)
       [] ending.how = "result"        -> IF ArtifactManifest(ending.links, changed)
                                          THEN Built(output, changed, TRUE)
                                          ELSE NotBuilt(changed)

----------------------------------------------------------------------------

\* The last text of a critic: whether a JSON object is found in it, and its
\* fields; the score in units of 1/10000, if it is a number.
Reply ==
  [object : BOOLEAN, passed : {"true", "false", "odd"}, number : BOOLEAN, score : Int,
   findings : {"texts", "odd"}]

\* Malformed output is an error.
ParseCriticOutput(reply) ==
  /\ reply.object
  /\ reply.passed # "odd"
  /\ reply.number /\ reply.score \in 0..10000
  /\ reply.findings = "texts"

NotReviewed == [status |-> "failed", score |-> 0]

\* run_critic_worker.
CriticResult(m, end, reply) ==
  CASE m.mode = "deterministic" -> [status |-> "completed", score |-> 10000]
    [] m.mode = "hang"          -> NotReviewed
    [] m.mode = "llm"           ->
         IF CreateBoundedAgent(m) /\ RunWithTimeout(end) = "result" /\ ParseCriticOutput(reply)
         THEN [status |-> "completed", score |-> reply.score]
         ELSE NotReviewed
=============================================================================

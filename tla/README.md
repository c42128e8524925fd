# AgentCore control plane: TLA+ models and proofs

AgentCore is a control plane for coding agents on one machine: a PostgreSQL schema that keeps
identities, evidence, work and workflow runs; a LangGraph workflow that plans, judges, builds and
records steps of work; a gateway (Bifrost) that shows tools to clients; and the servers, shims, hooks
and scripts between them. This directory models the parts whose correctness depends on the order in
which things happen, checks the models with TLC and proves their main invariants with TLAPS.
`PROJECT.json` maps every definition to the lines it models.

1 Inventory - 2 Modules - 3 Runs - 4 Proofs - 5 Where documents and code differ - 6 Not modelled -
7 Plan - 8 Running

## 1. Inventory

| Component | State it keeps | Operations | What makes it hard |
|---|---|---|---|
| Durable work queue (`migrations/m2`) | `work_queue`, `work_claims`, `dead_letters`, `capability_leases` | enqueue, claim, complete, create lease, recover expired work | Concurrent transactions under READ COMMITTED, `SKIP LOCKED`, rows updated from an older snapshot, crashes, retries |
| Run control (`agentcore/workflow_cli.py`, `agentcore_workflow/db.py`, `reconcile_stale_runs.py`, `migrations/m6`) | `wf_runs`, `wf_human_pauses`, the LangGraph checkpoint, the tables of the plan | start, resume, approve, reject, cancel, reconcile | Two stores updated at different moments, a process killed anywhere, commands that race |
| Project registry (`workflow_cli.py` init, `agentcore_memory/server.py` session_open) | `repositories`, `worktrees`, `projects`, `source_identities`, Git directories | prepare and register a worktree, open a session | Two writers with opposite ideas of a known row; the disk is checked before the transaction |
| Workflow graph (`workflow.py`, `nodes.py`, `critics.py`, `gates.py`, `charter.py`, `deepagents_worker.py`, `ab_worker.py`) | `WorkflowState` with its reducers, the worktree | 14 nodes from `gate_check` to `workflow_fail` | State that outlives the step it is about, appending reducers, restarts, workers that come and go |
| Capability profiles and JIT leases (`agentcore_workflow/db.py`, `bifrost/jit_vk_bridge.py`, `migrations/m6`) | leases and profiles in PostgreSQL, the tools on the gateway's virtual key | create, expire (three ways), revoke; grant and revoke on the gateway | Two stores without a common transaction, lost answers, one key for all projects |
| Identity and device keys (`device_identity.py`, `device_admin.py`, the hosts' `signed_memory.py`, `memory_gateway.py`) | device keys, policy, nonces, session owners | enrol, rotate, enable, revoke; sign, send, verify, execute | Messages delivered twice, a commit between check and use, sessions opened by two machines at once |
| Evidence and its reading (`agentcore_memory/server.py`, `recovery.py`) | events, artifact files, proposals | append, propose, page through, hand off, expand | Database and files without a common transaction; readers page while others commit out of order |
| Knowledge corpus (`engineering/knowledge_sync`, `knowledge_corpus`, `docs_search_cache.py`) | promoted tree, rows of chunks, state file, cache | list, clone, check, copy, ingest, record, search | Upstream moves between steps; two ingests overlap; a revision made of transaction start times |
| Serena and Pi shims (`bifrost/*_session_shim.py`) | child processes, response queues | HTTP requests over one STDIO child | Many threads, one child, time-outs, late answers, message ids chosen by clients |
| Project router (`project_router`) | the active project, its file and lock | switch, clear, launch a child | A switch that reaches some clients only; children read the file without the lock |
| Gateway configuration and adapter (`bifrost/render_bifrost_config.py`, validators, `sync_code_mode_live_clients.py`, `mcp_output_schema*.py`) | registry, rendered files, running configuration, flags; pending requests | edit, validate, render, restart, synchronise; envelope | Four copies of one truth; a table of requests shared by two threads |
| Cursor hooks and maintenance (`agentcore_cursor`) | bootstrap and scope files; Serena's configuration | a hook for every event; repair, install | Hooks rewrite a shared file without a lock; several files replaced as one |
| Context steward, lossless context (`m3`, `m6/002`), catalogues (`m8`, `000x`), cheap workers, operations scripts | - | - | see section 6 |

How they interact. The command line owns a run's row, and its process executes the graph; the graph
writes the row at its start, at a pause and at its end, and a checkpoint after each node. Commands of
other processes see only the row and the pauses. A run works in the worktree the registry names, which
clients' sessions may change. The graph creates JIT leases; the same leases are rows of the queue's
schema, so `recover_expired_work` expires them too, and so does the memory server whenever a client
asks for its startup context. The gateway learns of a lease only from the process that created,
expired or revoked it. Every client reaches the memory server with calls signed on its host; the
server consumes the nonce before it runs the tool. The gateway starts the router's children, which
read the active project, and the adapter stands between the gateway and one of them.

The hazards, each at its line and with the properties that would catch it, are in `PROJECT.json`.

## 2. Modules

| Module | Models | Run | Proved in |
|---|---|---|---|
| `WorkQueue` | the queue functions of `migrations/m2`, transaction by transaction | `queue`, `queue_live` | `WorkQueueProofs` |
| `WorkLifecycle` | what the queue promises of one item (abstract) | `queue` | `WorkQueueProofs` |
| `RunControl` | one run: row, pauses, checkpoint, commands | `run_control` | `RunStartProofs` |
| `ProjectRegistry` | the rows of projects and worktrees, and the disk | `run_control` | `RunStartProofs` |
| `Charter` | the plan made from a request | `run_control`, `graph` | `RunStartProofs` |
| `RunStart` | composition of the three: a start, its tables, its worktree | `run_control` | `RunStartProofs` |
| `Gates` | gates, checks, critics and the score, as functions of what they read | `graph` | `WorkflowGraphProofs` |
| `Workers` | builders and critics in the worktree | `graph` | `WorkflowGraphProofs` |
| `WorkflowGraph` | the nodes, their routing and shared state | `graph` | `WorkflowGraphProofs` |
| `StepLedger` | what a run promises of its steps (abstract) | `graph` | |
| `JitLeases` | leases, profiles and the gateway's key | `jit` | `AccessProofs` |
| `HostSigner` | the hosts' signing helpers, command line to exit code | `devices` | `AccessProofs` |
| `DeviceGate` | keys, assertions, nonces, sessions; several servers | `devices` | `AccessProofs` |
| `ContextPages` | packets and pages, and the reference pagination | `journal` | `MemoryProofs` |
| `EvidenceJournal` | events, files, replays | `journal` | `MemoryProofs` |
| `Chunkers` | how a file is cut into chunks | `knowledge` | `MemoryProofs` |
| `KnowledgeSync` | the worker, the ingests, the search and its cache | `knowledge` | `MemoryProofs` |
| `OutputEnvelope` | the envelope around a result | `gateway` | `GatewayProofs` |
| `GatewayConfig` | the reviews of a registry and what is rendered from it | `gateway` | `GatewayProofs` |
| `StdioAdapter` | the adapter's two threads | `gateway` | `GatewayProofs` |
| `ProjectRouter` | the active project, its lock, the children | `gateway` | `GatewayProofs` |
| `Gateway` | composition of the four: operator, gateway, routers, requests | `gateway` | `GatewayProofs` |
| `SessionShim` | both session shims | `shim` | `SerenaProofs` |
| `PromptGate` | Cursor's hooks and their two files | `gate` | `PromptGateProofs` |
| `SerenaMaintenance` | the maintenance command | `maintenance` | `SerenaProofs` |

Where one proof module is about two components, their specifications have names of their own
(`LeaseSpec`, `CommandSpec`, `SyncSpec`). `MC*` modules give the constants that a configuration cannot write, symmetry sets and, in
`MCWorkflowGraph`, a refinement mapping. Definitions whose comment calls them a faulty variant
are not part of a model: each is the mistake that one of the properties is there to catch.

### Runs of the workflow

**WorkQueue.** `status`, `attempts`, `payload`, `order` are columns of `work_queue`; `claimItem`,
`claimStatus`, `overdue` are `work_claims` and whether `lease_expires_at` has passed; `held` is what a
worker remembers. Time is two actions, `ClaimRunsOut` and `LeaseRunsOut`. `enqueue_work`, `claim_work`,
`complete_work` and `create_capability_lease` are one short transaction each, hence one action each.
`recover_expired_work` is not: `RecoverStart` fixes `now()`, `RecoverScan` locks and expires claims and
takes the snapshot of the loop, `RecoverRow` writes one row, `RecoverCommit` shows all of it,
`RecoverAbort` undoes it. Row locks are guards: another session waits, or skips if the code says
`SKIP LOCKED`. Nothing in the repository but `scripts/memory_platform/Test-M2CanonicalIdentity.ps1`
calls these functions, so workers and whoever schedules the recovery come in any order.

**RunControl.** `status` is the row, `fresh` the processes whose snapshot of it is still current
(`_claim_authorized_run` compares it under a lock), `stale` the reconciler's time condition, `pending`
and `scope` the pauses, `ckpt` and `answer` the checkpoint with the resume value LangGraph stores with
it. A step is one transaction or one node; `Save` writes the checkpoint, and a node starts only after
it; `Kill` may come anywhere between. Today's weights never let the judge ask the operator (theorem
`OperatorIsNeverAsked`); `Verdicts` lets it ask all the same, so that the pause protocol is checked as it is
written and not switched off by a number elsewhere.

**RunStart** conjoins each action of `RunControl` with what it does to the worktree and the tables:
`ClaimRun` also validates the worktree, `StartNode`, `WriteCharter`, `WriteCatalogue`, `OpenMemory` are the
transactions of `node_start`, `OtherStep` is everything that leaves them alone. A process killed in
`node_start` is followed by a resume that knows of the request only what row and thread hold.
`ProjectRegistry` gives `init` as `Prepare` (the disk) and `Register` (the rows), and `OpenSession`.

**WorkflowGraph.** `state` is `WorkflowState` with the fields that routing or a property reads. Every
piece of evidence carries the step it is `of`, which the code does not store: that is how a property
sees a stale one. One action per node. `Gates` computes what each gate, check and critic answers from
the view the node passes to it and from a world (database, migration, tools on the path, leases,
blueprint): a text is the set of flaws gates tell apart, and a gate that raises warns. The score is
`score_evidence` in ten-thousandths. `Workers` says how a builder is admitted (mode, model, slots,
GPUs), which files it may touch (a link may lead out of the worktree), which of them it reports, and
what it returns when it answers, raises, is late or cannot be started. `Restart` is a process killed between two
checkpoints, in the builder after some edits, and a resume in a process that may have no worker.

**JitLeases.** `exposed` is the openrouter entry on the virtual key that all projects share.
`CreateLease` is the transaction, `Grant` the request that follows. `Expire`, `ServerExpire`,
`RecoverExpire` are three ways to expire a lease; only the first asks the gateway. A failed
request may have been carried out. `clean` is history: no fault, nobody else expired a lease, no two
changes overlapped.

### Memory

**DeviceGate.** A message on the wire stays there: any server may `Take` it any number of times.
`CheckKey`, `InsertNonce`, `CommitNonce` (or `LoseCommit`) are the identity's transaction, and the tool
runs after it in another: `LockSession`, `ReadSession`, `UpsertSession` for session_open, `Write` and
`Retrieve` for the rest. `Enroll`, `Rotate`, `SetKeyStatus`, `SetEnforcement` are the operator's commands.
`HostSigner` says which command lines a helper accepts, what it signs and which exit code it gives to which
answer. Tools are grouped by what the gate tells apart.

**EvidenceJournal.** A server's append is `LockKey`, `UseFile` or `CreateFile` and `FinishFile`,
`InsertRows`, `Commit`, with `Fail` (the handler that removes the file it created), `CommitUnseen`
(committed, but the server is told otherwise) and `Kill`. A reader's `FirstPage`, `NextPage`,
`BuildHandoff`, `ExpandSummary` may name another profile each time.

**KnowledgeSync.** Actions bear the names of the worker's steps: `ls_remote`, `clone`, `Copy` file by
file, `Promote` or `Hold`, `save_state`. An ingest (`BeginIngest`, `IngestFile`, `CommitIngest`, `Abort`) reads the
whole promoted tree as it then is. `Answer` is the search, `ReadRevision` before it is the cache's key.

### Gateway, shims, hooks

**Gateway.** An operator edits, renders (two files, one after the other), restarts and synchronises in
any order; routers switch the project (`Acquire`, `SaveState`, `ListClients`, `Reconnect`, `Finish` or
`Rollback`, `Killed`); a reconnect restarts a child, which reads the file (`LoadActiveProject`) before
it serves (`Launch`); `Send`, `PumpStdin`, `Answer`, `PumpStdout` move requests through the adapter. A tool can be
called only when a virtual key of the running configuration reaches it and the child runs.

**SessionShim.** `SerenaRoute`, `PiRoute` resolve the project, `SerenaCall`, `PiCall` do the handshake,
register a queue under the client's id, write, wait, time out; one reader thread per process hands out
answers and stops when a queue is full; `Die` is a process that ends. `troubled` and `shaking` are history.

**PromptGate.** A hook reads a file, works on its copy, empties the file (`Truncate`) and writes it
(`WriteOut`). `Disarm` to `Arm` is a submitted prompt; `PreTool`, `BeforeShell`, `CheckScope` decide a
write; `Declare` names files. `lost` is history: a session start wrote back an outdated copy.

**SerenaMaintenance.** Contents are what the command distinguishes (form of the list of languages,
name, line ends, soundness). `BeginCommand`, `PrepareBackup`, `WriteTarget` file by file, `Validate`, `Restore`; any
access may fail, `Killed` may come anywhere, `SerenaSaves` writes the registry at any time.

## 3. Runs

| Run | States | Two workers |
|---|---|---|
| `queue`, `queue_live` | 363,144 and 62,116 | 1 min 40 s, 1 min |
| `run_control` | 272,078 | 2 min 30 s |
| `graph` | 878,790 | 2 min 10 s |
| `jit` | 35,629 | 25 s |
| `devices` | 1,728,907 | 1 min 50 s |
| `journal` | 146,268 | 30 s |
| `knowledge` | 561,892 | 1 min |
| `gateway` | 336,841 | 1 min 10 s |
| `shim` | 200,668 | 50 s |
| `gate` | 3,410,075 | 1 min 30 s |
| `maintenance` | 3.4 million | 1 min |

- `queue`. Two items, one of which may be tried twice, three claims (all the attempts there are), two
  workers, two overlapping recovery passes. At most one active claim per item; dead letters exactly for dead
  items, with their payload; a completion within the lease is final; the whole implements
  `WorkLifecycle`. Two passes are enough for a row to be read by one while it is completed, taken
  again and read by another.
- `queue_live`. With a crashing worker, every item ends done or dead. Fairness: weak for claiming and
  time; strong for the statements of a recovery that is called again and again, because an abort may
  disable each in between; none for completion, so that work ends even if no worker ever finishes.
- `run_control`. One project, init and sessions in any order, one command at a time, two steps, three
  pauses. `Budgets` (kills, inits, sessions) is (2,1,0), (0,2,0) or (0,1,1): either processes are killed
  or the registry changes, because the two do not touch each other's state but through the validation. The
  tables agree; an enrolled worktree stays usable; the tables hold the plan the run goes by; completed means
  executed; an answer releases only its step; a command acts on what it read only while it is so;
  every run ends. Two kills suffice for one in a node or pause and one in the resume that follows; two
  steps for an answer about one to be mistaken for one about the other. Fairness (`StartFairness`): a
  process that is not killed goes on; the operator starts the run, keeps resuming and approves what is
  pending; `create_pause` does not fail every time.
- `graph`. Plans from requests of every kind (default milestone, prose, items, with and without
  criteria, every risk, texts with flaws, nothing); worlds in order or with one fault; machines ready or
  with one obstacle; replies valid or malformed; one file, one restart. No rejected build is recorded;
  nothing is executed after a leak; what is recorded was reviewed; every step is recorded once and in
  order (`StepLedger`); the operator is never asked; every run ends. Faults come one at a
  time since a failing gate ends the run: a second one is never looked at. Fairness: a node returns or
  times out, and a killed run is resumed.
- `jit`. Two processes, projects and leases, two tools of which the gateway knows one, two faults. What
  is shown at rest has an active lease while `clean`; a lapsed profile is put to sleep whoever expired
  its lease. Two leases on two projects let one project's change hit the other's. Fairness: the
  memory server expires leases, which any client's startup does.
- `devices`. Two machines, one session key, three keys, seven calls (Cursor, workflow, an
  unsigned client, four command lines of the helpers), two servers, one change of the operator, one tick
  of the clock, which is longer than the permitted skew. Two servers are enough for one message to be
  handled twice at once and for two opens to race.
- `journal`. Two servers, four requests of which two share a text, one is too large for a page and one is
  a proposal; one reader, three profiles of which one is invalid, three calls. Every order of commit against the start of
  a transaction occurs with two servers.
- `knowledge`. Two files (a document and a program), two commits of three trees (good, leaking and
  dangling, one file gone), two releases, two ingests, one cached answer.
- `gateway`. Two routers, projects and router clients, a hub with every kind of permitted and denied
  list. `Budgets` bounds what may be begun: the operator alone, each pair of actors, or requests alone.
  `MAX_PENDING` is 2 and up to four requests and list calls are sent, so that the table is emptied while answers are under way.
- `shim`. Two calls that meet at one child or do not, three children, one replaced process, message ids
  chosen freely. Fairness: the threads of requests run (`CallsReturn` needs nothing of a child).
- `gate`. Two conversations, two prompts, one uuid session, one kill, one agent with a file to write.
- `maintenance`. Every form of the files, two faults or kills, one save of Serena's, commands in one
  second or two. Two faults are enough for a failure during the restoration of a failure.

`CHECK_DEADLOCK` is off in all runs: queues empty, runs end and budgets are used up, and then the
system rightly stops. The values that differ from the code's own are all bounds, and named `Max...`
or `Budgets`; `LargeDiff = 0` stands for the line count above which a diff is large, so that one file exceeds it.

## 4. Proofs

TLC checks the small instances above; the theorems hold for every value of the constants that
satisfies the named assumptions in the modules. For each component the inductive invariant comes
first, then one step per action, then the results.

**WorkQueueProofs.** `TypeCorrect`, then `QueueInvariant`, from which `ClaimsDisciplined`,
`TimelyCompletionFinal`, `AttemptsAreBounded` and `DeadLettersAreFaithful` follow. That a recovery pass
does not overrule a completion depends on what it may rely on between reading and writing a row; the
strengthening is `RecoveryOwnsItsRows` (a row in a pass's hands is claimed or was completed late, all its
active claims are among those the pass has locked) and `LocksAreOwned` (passes hold different claims,
still active). With it `QueueImplementsLifecycle`: under the mapping of `WorkQueue` an enqueue is `Submit`,
a claim `Take`, a completion `Finish`, the commit of a pass `Recover` for all its rows at once, and every other
step leaves the items as they are (`LifecycleStep`).

**RunStartProofs**, first part, about `RunControl`, for any number of processes at a time unless said. `DoneInv` says that
every step before the position of the checkpoint, and of each process that executes the graph, has been
done, and the current one too when a process is about to advance; hence `CompletedIsExecuted`. `ClaimInv`
says that a process about to claim with a snapshot that is still current knows the pauses as they are,
because whatever changes a pause also writes the row, and every write of the row voids all snapshots;
hence `ClaimsHold`. `AloneInv` is about commands that do not overlap (`OneAtATime`, the only hypothesis): at most one
pause waits, about the step of the checkpoint, a decision stored with the checkpoint or held by a process is
about that step too, and a position to execute from is one the judge let through or the operator said yes to;
it holds across kills, resumes and unrecorded pauses, hence `ApprovedWhenAlone`. Without the hypothesis it is false: nothing
keeps a resume from executing the graph beside the start it resumes, and then two processes judge one step, each
with a verdict of its own, and one executes what the other has referred to the operator.

Second part, about the composition. `StartIsRunControl`: every step of `RunStart` is a step of
`RunControl` or leaves it alone, so what is proved of the latter carries over (`StartedIsExecuted`,
`StartClaimsHold`, `StartIsApproved`). `StartInvariant` is about the registry: types, one home, what is prepared or enrolled
stays on the disk, which process or thread has a home; hence `ProjectsHaveOneHome` and
`EnrolledStaysUsable`, for any keys, paths, disks and sessions. `RecordInv` is about the transactions of
`node_start`, which a kill may separate and a resume repeat: the tables hold only parts of the plan the
run goes by (`PartsOfPlan`), what a process has behind it in `node_start` is in the tables or in the errors it
has noted (`Written`), and until there is a checkpoint a process in the graph is in `node_start`
(`AtStart`); hence `StartsAreRecorded`. Assumptions: the named ones of `RunStart`, among which
`RequestsAssumption` (what a request is) and `InputAssumption` (no input is the same as none).

**WorkflowGraphProofs.** `GraphInvariant` says, node by node, what is known when the node is about to
run: whose gates and checks the state holds, that nothing failed on the way, the score on arrival at
the judge, what builder and critic left. From it: `OperatorIsNeverAsked`, `GatesComeFirst`,
`RejectedNeverRecorded`, `SelectedIsKept`, `ReviewedIsRecorded`, `LeakStopsTheRun`. One lemma is
arithmetical: with all gates and checks passed the score is at least 8500 of 10000 whatever the
critics say, which is the threshold to proceed.

**AccessProofs**, leases. `LeaseInvariant` adds that a pending grant is for a committed lease and, while
`clean`, that a shown tool has an active lease or a process is about to remove it.

**AccessProofs**, devices. `GateInv`: a signed call between the nonce's commit and the tool has its
nonce consumed, has not run, and is in the hands of no other server; a nonce about to be committed
is new. Hence `EveryCallRunsOnce`. `OwnerInv`: what a server holds of a session (lock, the row it read,
the owner it is about to write), and that every entry of the trace has the owner the session
is bound to. Hence `SessionsHaveOneOwner`. `HelperInv`: a call of a host's helper is signed wherever it is on
its way, so it is counted when it runs, and a helper that has ended with 0 was answered by a server whose tool had
run; hence `ExitCodesAreTrue`. Assumptions: `CallsAssumption`, `OwnersAssumption`.

**GatewayProofs.** Four invariants, one for each part of the composition, and for each part that the
others' steps leave it alone. `RelayInv`, for the adapter: a request is in one place at a time and there once
(`EachOnce`: unread, in the hand of the first thread, upstream, or on a line), and it stays noted
from the moment it is read until its answer is, unless the table was emptied or overfilled in between
(`NotedUntilAnswered`); hence `EveryAnswerIsEnveloped`. `RouterInv`: at most one router is inside the lock,
only routers inside it have changed the file (`LockHeld`), and the children a switch has reconnected follow
the project it saved (`DoneFollow`); hence `SwitchesReachChildren`. `FilesInv`: the gateway always runs with what was rendered
from one registry; with the lemma `RenderedIsReviewed` about the validators and the renderer, hence
`ReviewedToolsOnly`. `SyncInv`: what a synchronisation has still to do is all that differs from the
file it found; hence `SyncLeavesRenderedFlags`. Assumptions: `FamiliesAssumption`, `RequestAssumption`, `ResultsAssumption`
(shapes of the contract, requests and results), `RegistriesAssumption` (a server of type router is one the gateway
knows as a client).

**PromptGateProofs.** What has to be said is where a capture may be: hooks read a file, work on a copy and
write it back without a lock, so an old one may sit in a hook's hand. `HookHolds` says for each hook what its
copy may hold and what turn it is in; `CapturesKnown`, that every capture in the bootstrap file or in a
copy on its way there is of a prompt in the journal; `CapturesOfTurn`, that it is of the turn its conversation
is in or is about to be disarmed, until a session start has put back an old copy (`lost`, which is when the
property is not claimed). Hence `CapturedFirst` and `TurnsAreKept`. Assumptions: `GateAssumption`,
`FilesAssumption` (what is not a file's text is no file's content).

**SerenaProofs**, the shims. `OwnInv` says of each place where a line of a child may be (its input, its output,
a slot, a result) that the line belongs to a call at that child and has the id of its kind: the client's
for a call, Serena's own or Pi's for a handshake; and of each queue that the thread registered in it
waits, or is about to wait, for that id. Hence `OwnAnswers`, whatever times out, dies or is replaced.
`QuietCalls` is about a child in which nothing went wrong (`QuietAt`): until the first handshake begins it is `Unasked`; while
the one call that shakes hands is under way, its line is the only one anywhere (`Shook`), so that the
reader hands it its answer; after it the child serves (`Serving`), and a call whose id is its own is in its
queue, on a line, in the output or in its slot (`Served`). The hypothesis that one call shook hands
cannot go: section 5 has what happens otherwise. Assumptions: `ShimConstants`, `IdsDiffer` (no client's id is one the shim
makes for a handshake).

**SerenaProofs**, the maintenance. `MaintenanceInvariant` says where the original of every file is at each
point of a command: in the file, in this command's copy or in an earlier one's, in a directory no later command uses;
hence `OriginalsAreSafe`, for any files (`DisksAssumption`), times, faults and kills. `OutcomeInvariant` adds that each file the command
is done with is as wanted while it writes, as before while it restores, and has the copy a restoration
needs (`Handled`); hence `CommandsAreAllOrNothing`.

**MemoryProofs**, shared lemmas. Least and greatest elements, and what sorting by keys returns (`OrderIs`:
all elements, once each, in the order of their keys), are shown by minimal counterexamples
(`SmallestNat`, from the well-foundedness of the natural numbers), since the prover cannot instantiate
the induction theorems.

**MemoryProofs**, the journal. `TextsKept`: a text that an event or a transaction about to commit refers to is in its file
whole, unless a clean-up has removed it; it needs that only one server creates a file that is absent. Hence
`TextsAreKept`. `LedgerInv`: events have different times and different keys, because calls under way
have times of their own and the advisory lock holds back a second call with the same source and
key. Under it, `ReaderHolds` relates a reader to the ledger: the cursor divides what the client has from
what it has not (`Past`), everything committed before the first page is in the window, and a reader that is done
has all of it. An event that commits late cannot break this, for it is not among those. The lemmas about `ContextPages` carry the step: a page that does not
fail is a non-empty beginning of the candidates (`PacketIsBeginning`, `PageSizes`, `PagesAre`), so that the
anchor is the greatest key shown (`ShownIs`). Hence `CompleteReplays`, for any sizes of page, profiles and
appends. `PagesAreOfReference` is an action property: what the queries leave to be read is what the reference
leaves (`RowsLeft`), and a page is the beginning of it that has as many items (`OneBeginning`), read from the newest end for
the current state. Assumptions: `ProfileAssumption` (profiles are made of
numbers, the usual page is not empty), `IdsAssumption` (the ids of events differ), `BoundsAssumption`.

**MemoryProofs**, the knowledge corpus. `CacheInv`: an ingest's time is its own, and a cached answer has all
rows of its revision, as the newest ingest it saw had committed; hence `CachedAnswers`. `CheckedInv`: what is promoted,
what an ingest has written and what is in the library was cut from a text that passed the checks of a
commit upstream had; hence `CheckedOnly`, for any trees. `SearchInv` follows the worker: the tree it has is that
of the commit it will record if upstream has not moved, the files copied so far are in the promoted tree,
and the chunks of the files read so far are written unless one failed, in which case nothing is recorded. With `ChunksCover` (every line a
chunker owes is in a chunk: of a section, of a definition, or of the text before the first) and with what an upsert
keeps, hence `NothingIsMissed`. Assumptions: `FilesAssumption`, `KindAssumption`,
`NoCommitAssumption`, and `TreesAssumption` (`IsText`: the lines that follow a definition's first line belong to it).

Only model-checked:

- The liveness properties (`NoStuckWork`, `RunSettles`, `RunEnds`, `ProfilesLapse`, `CallsReturn`) and the
  fairness behind them: the prover has no rules for ENABLED.
- `RefinesLedger`: its mapping lays the plan out as one sequence, and what that recursion yields for every plan is
  an induction over data. What recursive definitions compute is not proved; no module with a theorem has any.

## 5. Where documents and code differ

Each of these was met while translating, and those marked T were also shown by TLC as a violated
property of the model. They are described here and kept out of the runs, which hold the properties the
code does keep.

Workflow
- T: a worker that finishes after its lease ran out, between the snapshot and the UPDATE of a recovery
  pass, loses its completion.
- T: cancelling a paused run sets it running again (`m6/001:431`), against
  `AUTONOMOUS_WORKFLOW_AND_STUDIO.md:130`; T: after a kill an earlier approval is replayed although the
  last answer was no (recipe `06-langgraph-human-review.md:100`). Both need a pending pause, which the
  graph with today's weights never makes.
- T: the gates of a step read the tool evidence of the step before (`gates.py:61`, comment
  `nodes.py:711`). T: after a restart without workers a build is recorded whose review never ran
  (`nodes.py:1142`, `critics.py:409`).
- T: criteria under the default milestone "M6" make steps with the keys of the built-in catalogue
  (`charter.py:137`), which `micro_execute` completes without doing anything (comment `nodes.py:522`).
  Without criteria, "M6" ignores the goal.
- A run killed after `register_run` and before its first checkpoint is resumed without goal, criteria and
  model (`AUTONOMOUS_WORKFLOW_AND_STUDIO.md:129` calls it safe); for milestone "G1" the plan is empty and
  the run blocks. `get_run_model_selection` is never called. `node_start` done again appends the goal prompt and a
  charter version again (`nodes.py:188`: once).
- `resume --project-key` compares the status with values the enum lacks and fails; `status` likewise looks for "cancelled".
- A resume validates the project's present worktree while its graph goes on in the thread's old one.
  `init` with another target for a known key fails on a unique key after it has made the worktree, and
  may move a worktree's row to another repository while earlier `source_identities` keep the old one.
  Projects enrolled outside the governed roots pass `init` and fail in `node_start`.
- The reconciler aborts rows it read before the operator confirmed (`reconcile_stale_runs.py:188`).
  `resume` and `approve` print ok for a run that failed; `start` exits 1 for one that completed with
  notes of degraded steps. Nothing excludes two processes on one thread (`workflow_cli.py:1018`).
- `charter.py:139` says one step per criterion and takes twelve; `:123` folds the rest into a label.
  `critic_refactor_risk` never sees Depwire's evidence and reads the previous step's files; `gate_drift`
  never sees a diff; the last step's output is scanned by no gate. A review with `passed=false` and score 0 is
  only advisory. A late worker's thread goes on after its slot is free; the second build of a comparison reuses a
  worktree left by a killed run.
- T: a tool with an active lease is put to sleep because another lease of it expired (`m6/001:489`); a
  revoke that fails leaves tools on the gateway (`OPENROUTER_MCP.md:69`: lease duration only).

Memory
- A text's file is removed by the clean-up of a failed call although another event refers to it
  (T; `server.py:1263` against `server.py:687`). A partial file left by a kill blocks later appends
  of that text. Readers by time range miss events that commit late with an earlier time.
- A revoked key may still write if its call was checked before, may be enabled again, and `rotate` reopens
  an old key whose overlap is over. Appending to a closed session is accepted.
- The helpers' extra arguments may override the project after the enrolment check; a call whose answer
  is lost is signed and sent a second time; a result without text counts as success.
- T: with a push between ls-remote and clone the recorded commit is not the searched one (so the property
  asks for a commit there is nothing to do for), against `PROMOTION_AND_TRUST.md:6`; a partial promotion
  writes no hold (`knowledge-corpus-catalog.json:3`); `--rollback` prints a note; files that left upstream stay promoted.

Gateway, shims, hooks
- T: two first requests of a Serena child shake hands under one id (`serena_session_shim.py:187`; `:4`
  says concurrent-safe). Pi's shim does not.
- T: the shell gate takes another conversation's capture (`hooks.py:1151`). `GLOBAL_RULES.md:37` says a
  submitted prompt always continues; the hook blocks it when it cannot be captured.
- A permitted list that names "*" among other tools keeps every denied tool: validators and renderer compare with
  `["*"]` (`validate_contracts.py:105`, comment `:100`; `render_bifrost_config.py:248`), and the
  schema allows it. `OnlyReviewedIsReachable` excepts it and the next one. No registry in the repository has such a list.
- An empty list of permitted tools is rendered as all of them and the denied ones are not taken out
  (`UNIFIED_GATEWAY_SETUP.md:264`: none). `wrap` emits `--alias-env`, which the adapter does not
  know. `stdio_envelope` replaces a tool's own structured content (`MCP_OUTPUT_SCHEMAS.md:79`);
  `:67` says nothing uses `upstream_native`, four servers do. A crash between saving the project and
  reconnecting leaves children on the old one, and so does a router client that is live but disabled in the registry.
- The maintenance reads with universal newlines, so that restored files have LF; a rule whose copy was
  cut short is "restored" from it (the properties except it as `torn`); `languages: [..]` in one line
  wins over the inserted list; what Serena saves between read and write is lost.

## 6. Not modelled

- Texts: prompts, reports, wording of errors. Evidence rows that no control flow reads back
  (`gate_evaluations`, critic runs, experiments); an error while they are written is noted and the run
  goes on. `paused_gate`, which no code sets, and the time-outs of pauses, which no code reads.
- An error of `resolve_pause` inside `human_pause` (swallowed; the pause stays pending and approve still
  answers it), two database errors in one node, and what a checkpoint not yet durable when the next node writes would do.
- **Lossless context and projections.** The functions of `m3` are called from test scripts and by one worker
  that rewrites four files; the parts the server uses (profiles, cursors, expand_summary) are in
  `ContextPages` and `EvidenceJournal`. **Catalogues, resource locations, context steward:** tables,
  views and commands whose results no other code reads back.
- **Ranking, embeddings, `assemble_context_window`.** Arithmetic on scores; nothing interleaves.
  `chunk_openapi`, the admission gate, the memory corpus and the schema probe of the knowledge corpus.
- **Cheap workers, operations scripts.** Stateless forwarding, and PowerShell around external services.
- **Spool and context bridge of the hooks.** They carry records no code decides on; a record may be sent twice and
  the journal's key makes one of it, which `EvidenceJournal` has.
- The shims' stop and status commands, and a call without an id (written to the child and answered
  at once with an empty reply); the router's process registry.
- About a tenth of the Python lines are copies kept for rollback (`audits/rollback`,
  `.agentcore/rollback`) and an archived server (`docs/archive`); the live files are modelled instead.
  Much of the rest is I/O, printing, argument parsing, evidence collection for audits and one-off installers.

## 7. Plan

Done: everything in the table of section 2. Left for a later extension, in this order:

1. A failing `resolve_pause`, and two processes on one thread as an abstract fault.
2. The evidence the graph writes to the database as a second copy of the ledger.
3. The shims with more than one handshake: what a late second handshake does to a child that serves.

## 8. Running

`tlc -workers 2 -config WorkQueue.cfg MCWorkQueue` and likewise for each run of `PROJECT.json`;
`tlapm RunStartProofs.tla` and likewise for each `*Proofs` module. A run takes at most two and a
half minutes on an otherwise idle machine, a proof module a few minutes.

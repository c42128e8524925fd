--------------------------- MODULE ProjectRouter ---------------------------
(***************************************************************************)
(* One active project for all project-scoped servers.  Router processes    *)
(* (scripts/project_router/server.py) change the state file under a file   *)
(* lock and have the gateway reconnect the router clients, whose children  *)
(* (child_launcher.py) read the file, without the lock, when they start.   *)
(* A change that does not reach every client is taken back.                *)
(***************************************************************************)
EXTENDS FiniteSets

CONSTANTS Routers,    \* router processes
          Projects,   \* the enrolled projects whose worktrees exist
          Clients,    \* the router clients there may be
          NoProject   \* no state file; also: no child

ASSUME ProjectsAssumption == NoProject \notin Projects

VARIABLES
  active,    \* active-project.json
  lock,      \* the routers that hold the lock of the state file
  call,      \* the call each router handles
  child,     \* the project the child of each client serves
  starting,  \* the project a child that is starting up has read: <<>> or <<project>>
  reached,   \* history: the clients the last finished change has reconnected
  settled    \* history: it reached them all, and nothing has been begun since

router == <<active, lock, call, child, starting, reached, settled>>

Idle == [step |-> "idle", target |-> NoProject, previous |-> NoProject, todo |-> {}, done |-> {}, ok |-> TRUE, back |-> FALSE]

RouterInit ==
  /\ active \in Projects \cup {NoProject}
  /\ lock = {}
  /\ call = [r \in Routers |-> Idle]
  /\ child = [k \in Clients |-> NoProject]
  /\ starting = [k \in Clients |-> <<>>]
  /\ reached = {} /\ settled = TRUE

At(r, step) == call[r].step = step
Goto(r, step) == call' = [call EXCEPT ![r].step = step]

\* project_activate of an enrolled project, or project_clear; any other
\* argument is answered without touching anything.
CallTool(r, p) ==
  /\ At(r, "idle")
  /\ p \in Projects \cup {NoProject}
  /\ call' = [call EXCEPT ![r] = [Idle EXCEPT !.step = "lock", !.target = p]]
  /\ UNCHANGED <<active, lock, child, starting, reached, settled>>

\* Faulty variant: the file is changed without the lock.
NoLock == TRUE
StateFileLock == lock = {}

Acquire(r) ==
  /\ At(r, "lock")
  /\ StateFileLock
  /\ lock' = lock \cup {r}
  /\ call' = [call EXCEPT ![r].step = "save", ![r].previous = active]
  /\ UNCHANGED <<active, child, starting, reached, settled>>

\* The write itself is atomic; if it fails the call fails and the lock is free.
SaveState(r) ==
  /\ At(r, "save")
  /\ \/ active' = call[r].target /\ Goto(r, "list") /\ settled' = FALSE /\ UNCHANGED lock
     \/ call' = [call EXCEPT ![r] = Idle] /\ lock' = lock \ {r} /\ UNCHANGED <<active, settled>>
  /\ UNCHANGED <<child, starting, reached>>

\* names: the router clients of the registry on disk; live: those the running
\* gateway has; the gateway may also not answer.
ListClients(r, names, live) ==
  /\ At(r, "list")
  /\ \/ call' = [call EXCEPT ![r].step = "reconnect", ![r].todo = names \cap live, ![r].done = {},
                             ![r].ok = names \subseteq live]
     \/ names # {} /\ call' = [call EXCEPT ![r].step = "reconnect", ![r].todo = {}, ![r].done = {}, ![r].ok = FALSE]
  /\ UNCHANGED <<active, lock, child, starting, reached, settled>>

\* The gateway ends the child and starts another, which reads the state file;
\* without a project it exits.  starts: whether the client can come up at all.
Reconnect(r, k, starts) ==
  /\ At(r, "reconnect") /\ k \in call[r].todo
  /\ \/ /\ starts /\ active # NoProject
        /\ child' = [child EXCEPT ![k] = active]
        /\ call' = [call EXCEPT ![r].todo = @ \ {k}, ![r].done = @ \cup {k}]
     \/ /\ child' = [child EXCEPT ![k] = NoProject]
        /\ call' = [call EXCEPT ![r].todo = @ \ {k}, ![r].ok = FALSE]
  /\ starting' = [starting EXCEPT ![k] = <<>>]
  /\ UNCHANGED <<active, lock, reached, settled>>

\* The request fails and the old child stays.
ReconnectFails(r, k) ==
  /\ At(r, "reconnect") /\ k \in call[r].todo
  /\ call' = [call EXCEPT ![r].todo = @ \ {k}, ![r].ok = FALSE]
  /\ UNCHANGED <<active, lock, child, starting, reached, settled>>

Return(r, ok) ==
  /\ call' = [call EXCEPT ![r] = Idle]
  /\ lock' = lock \ {r}
  /\ settled' = ok
  /\ reached' = call[r].done

\* Every client is connected again, or the change is taken back once.
Finish(r) ==
  /\ At(r, "reconnect") /\ call[r].todo = {}
  /\ call[r].ok \/ call[r].back
  /\ Return(r, call[r].ok)
  /\ UNCHANGED <<active, child, starting>>

Rollback(r) ==
  /\ At(r, "reconnect") /\ call[r].todo = {}
  /\ ~call[r].ok /\ ~call[r].back
  /\ \/ /\ active' = call[r].previous
        /\ call' = [call EXCEPT ![r].step = "list", ![r].back = TRUE]
        /\ UNCHANGED <<lock, settled, reached>>
     \/ Return(r, FALSE) /\ UNCHANGED active
  /\ UNCHANGED <<child, starting>>

\* A killed router leaves the file as it is; the lock goes with the process.
Killed(r) ==
  /\ ~At(r, "idle")
  /\ call' = [call EXCEPT ![r] = Idle]
  /\ lock' = lock \ {r}
  /\ UNCHANGED <<active, child, starting, reached, settled>>

\* The child ends by itself or after IDLE_TIMEOUT_SECONDS without traffic.
ChildEnds(k) ==
  /\ child[k] # NoProject
  /\ child' = [child EXCEPT ![k] = NoProject]
  /\ UNCHANGED <<active, lock, call, starting, reached, settled>>

\* The gateway starts a client that is down: load_active_project, then Popen.
LoadActiveProject(k) ==
  /\ child[k] = NoProject /\ starting[k] = <<>>
  /\ active # NoProject
  /\ starting' = [starting EXCEPT ![k] = <<active>>]
  /\ UNCHANGED <<active, lock, call, child, reached, settled>>
Launch(k) ==
  /\ starting[k] # <<>>
  /\ child' = [child EXCEPT ![k] = starting[k][1]]
  /\ starting' = [starting EXCEPT ![k] = <<>>]
  /\ UNCHANGED <<active, lock, call, reached, settled>>

\* After a change that was answered without an error, or taken back with all
\* clients connected again, no client it has reconnected serves another project
\* than the one in the state file - although the children read the file without
\* the lock, start at any time, and several routers may be called at once.
ChildrenFollowProject ==
  settled => \A k \in reached : /\ child[k] \in {NoProject, active}
                                /\ starting[k] \in {<<>>, <<active>>}
=============================================================================

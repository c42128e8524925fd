----------------------------- MODULE DeviceGate -----------------------------
(***************************************************************************)
(* Who may call the memory tools.  Every client signs a call with the key  *)
(* of its machine; several server processes handle the calls against one   *)
(* database, where they consume the nonce of the assertion before the tool *)
(* runs in a transaction of its own (scripts/agentcore_memory/server.py,   *)
(* device_identity.py), while an operator enrols, rotates, disables and    *)
(* revokes keys (device_admin.py).  A signed call may be delivered any     *)
(* number of times: the host helpers print it for an agent to send.        *)
(* A tick of the clock is longer than the skew the server allows.          *)
(***************************************************************************)
EXTENDS Integers, FiniteSets, HostSigner

CONSTANTS Calls,        \* what the clients ask for, one assertion each
          Requests,     \* the calls of the clients that sign or do not sign themselves:
                        \* a function to [tool, client, device, session, project]
          Command,      \* the command lines of the host helpers, for the other calls
          ProjectAt,    \* the project every root is enrolled for
          Keys,         \* key ids
          DeviceOf,     \* [Keys -> machines]: the machine that holds the key
          Handlers,     \* server processes
          EnrolledProjects, \* the projects the enrolment contract lists
          Sessions,     \* session keys, chosen by the callers
          Lifetime,     \* ticks an assertion lives
          Enrolled,     \* the keys that are enrolled at the start
          MaxTime,      \* bound on the clock
          MaxChanges,   \* bound on what the operator does
          NoKey,        \* the key of an unsigned call
          NoCall,       \* the call of an idle server
          NoOwner,      \* the owner of a session that does not exist
          LegacyDevice  \* the machine unsigned reads are attributed to

GateTools == {"session_open", "append_event", "session_close", "retrieve_context"}
Signers == {"cursor", "devin", "zcode", "langgraph"}
WriteTools == {"session_open", "append_event", "session_close"}

HostCalls == DOMAIN Command
Signed == {c \in HostCalls : Accepts(Command[c], ProjectAt)}
Request == [c \in DOMAIN Requests \union Signed |->
              IF c \in Signed THEN SignMemoryArguments(Command[c]) ELSE Requests[c]]
CursorCalls == {c \in DOMAIN Requests : Requests[c].client = "cursor"}
WorkflowCalls == {c \in DOMAIN Requests : Requests[c].client = "langgraph"}
UnsignedCalls == {c \in DOMAIN Requests : Requests[c].client \notin Signers}

ASSUME CallsAssumption == /\ NoCall \notin Calls \union Handlers
                          /\ NoKey \notin Keys
                          /\ Calls = HostCalls \union DOMAIN Requests
                          /\ HostCalls \cap DOMAIN Requests = {}
                          /\ \A c \in DOMAIN Request : Request[c].tool \in GateTools /\ Request[c].session \in Sessions
                          /\ Enrolled \subseteq Keys
ASSUME TimeAssumption == Lifetime \in Nat /\ MaxTime \in Nat /\ MaxChanges \in Nat

VARIABLES
  clock,
  changes,   \* what the operator has done so far, bounded by MaxChanges
  keys,      \* device_keys: status and valid_until of every key id
  policy,    \* device_identity_policy: may unsigned reads pass, and until when
  sent,      \* the signed or unsigned calls the clients have put on the wire
  nonces,    \* device_assertion_nonces, committed
  owner,     \* the identity and project a session is bound to
  lock,      \* the advisory lock on each session key
  pc, job,   \* of every server: where it is, and the call it handles
  arrived,   \* when it took the call (checked_at)
  seen,      \* the owner it read under the lock
  ran,       \* how many times the tool of each signed call ran
  exit,      \* the exit code of every helper; of a refused command line at once
  untold,    \* history: the helpers whose answer said nothing of success
  trace      \* who has written what: <<session, identity>>

vars == <<clock, changes, keys, policy, sent, nonces, owner, lock, pc, job, arrived, seen, ran, exit, untold, trace>>
server == <<pc, job, arrived, seen>>
admin == <<clock, changes, keys, policy>>

Never == MaxTime + 10
Running == 2      \* the exit code of a helper that runs still
Identity(m) == [device |-> IF m.key = NoKey THEN LegacyDevice ELSE DeviceOf[m.key],
                client |-> Request[m.call].client,
                project |-> Request[m.call].project]
ASSUME OwnersAssumption ==
  \A c \in DOMAIN Request, k \in Keys \union {NoKey} : Identity([call |-> c, key |-> k]) # NoOwner

Init ==
  /\ clock = 0
  /\ changes = 0
  /\ keys = [k \in Keys |-> [status |-> IF k \in Enrolled THEN "active" ELSE "none",
                             until |-> Never]]
  /\ policy = [legacy |-> TRUE, ends |-> 1]
  /\ sent = {}
  /\ nonces = {}
  /\ owner = [s \in Sessions |-> NoOwner]
  /\ lock = [s \in Sessions |-> NoCall]
  /\ pc = [h \in Handlers |-> "idle"]
  /\ job = [h \in Handlers |-> [call |-> NoCall, key |-> NoKey]]
  /\ arrived = [h \in Handlers |-> 0]
  /\ seen = [h \in Handlers |-> NoOwner]
  /\ ran = [c \in Calls |-> 0]
  /\ exit = [c \in HostCalls |-> IF c \in Signed THEN Running ELSE 1]
  /\ untold = {} /\ trace = {}

(***************************** the operator ********************************)
Change == changes < MaxChanges /\ changes' = changes + 1

\* A new key of an enrolled machine; enrolling it again changes nothing.
Enroll(k) ==
  /\ Change
  /\ keys[k].status = "none"
  /\ keys' = [keys EXCEPT ![k] = [status |-> "active", until |-> Never]]
  /\ UNCHANGED <<clock, policy, sent, nonces, owner, lock, server, ran, exit, untold, trace>>

\* The replacement is active at once; the old key stays usable for the overlap.
Rotate(old, new, overlap) ==
  /\ Change
  /\ keys[old].status \in {"active", "rotating"}
  /\ keys[new].status = "none" /\ DeviceOf[new] = DeviceOf[old]
  /\ keys' = [keys EXCEPT ![new] = [status |-> "active", until |-> Never],
                          ![old] = [status |-> "rotating", until |-> clock + overlap]]
  /\ UNCHANGED <<clock, policy, sent, nonces, owner, lock, server, ran, exit, untold, trace>>

\* revoke, disable and enable: the end of validity a rotation set stays.
SetKeyStatus(k, status) ==
  /\ Change
  /\ keys[k].status \notin {"none", status}
  /\ keys' = [keys EXCEPT ![k].status = status]
  /\ UNCHANGED <<clock, policy, sent, nonces, owner, lock, server, ran, exit, untold, trace>>

SetEnforcement(legacy, window) ==
  /\ Change
  /\ policy' = [legacy |-> legacy, ends |-> IF legacy THEN clock + window ELSE clock]
  /\ UNCHANGED <<clock, keys, sent, nonces, owner, lock, server, ran, exit, untold, trace>>

Tick ==
  /\ clock < MaxTime
  /\ clock' = clock + 1
  /\ UNCHANGED <<changes, keys, policy, sent, nonces, owner, lock, server, ran, exit, untold, trace>>

(****************************** the clients ********************************)
Post(c, k) ==
  /\ k # NoKey => DeviceOf[k] = Request[c].device
  /\ Request[c].tool # "session_open" => owner[Request[c].session] # NoOwner
  /\ sent' = sent \union {[call |-> c, key |-> k, issued |-> IF k = NoKey THEN 0 ELSE clock]}
  /\ UNCHANGED <<admin, nonces, owner, lock, server, ran, untold, trace>>

Send(c, k) == Post(c, k) /\ UNCHANGED exit

\* A client that names a session has been given its id.
Unsent(c) == \A m \in sent : m.call # c

\* The Cursor hooks sign every memory call with the key of the machine.
CursorSigns(c, k) == c \in CursorCalls /\ Unsent(c) /\ Send(c, k)

\* The Devin and ZCode helpers sign for clients that cannot; one that only
\* prints the call has done so.
HostSigns(c, k) ==
  /\ exit[c] = Running
  /\ Unsent(c) /\ Post(c, k)
  /\ exit' = IF Command[c].action = "sign" THEN [exit EXCEPT ![c] = 0] ELSE exit

\* The handshake with the gateway fails: the call is never sent.
HostGivesUp(c) ==
  /\ exit[c] = Running /\ Unsent(c)
  /\ Command[c].via
  /\ exit' = [exit EXCEPT ![c] = 1]
  /\ UNCHANGED <<admin, sent, nonces, owner, lock, server, ran, untold, trace>>

\* The nodes of a workflow run sign under the client key langgraph.
WorkflowSigns(c, k) == c \in WorkflowCalls /\ Unsent(c) /\ Send(c, k)

\* A client without the signer sends the call as it is.
SendsUnsigned(c) == c \in UnsignedCalls /\ Unsent(c) /\ Send(c, NoKey)

(****************************** the servers ********************************)
Fresh(m, now) == now <= m.issued + Lifetime

\* The claims of the assertion, before the database is asked.  An unsigned
\* write is refused; an unsigned read passes while the window is open.
Take(h, m) ==
  /\ pc[h] = "idle"
  /\ \/ m.key # NoKey /\ Fresh(m, clock) /\ pc' = [pc EXCEPT ![h] = "key"]
     \/ /\ m.key = NoKey /\ Request[m.call].tool \notin WriteTools
        /\ policy.legacy /\ policy.ends >= clock
        /\ pc' = [pc EXCEPT ![h] = "tool"]
  /\ job' = [job EXCEPT ![h] = [call |-> m.call, key |-> m.key]]
  /\ arrived' = [arrived EXCEPT ![h] = clock]
  /\ UNCHANGED <<admin, sent, nonces, owner, lock, seen, ran, exit, untold, trace>>

\* The helper that waits for the answer, if one does, ends with it.
Waits(c) == c \in HostCalls /\ exit[c] = Running

Answer(c, ok) ==
  \/ /\ Waits(c)
     /\ \E body \in Replies(Command[c]) :
          /\ exit' = [exit EXCEPT ![c] = ExitCode(body, ok)]
          /\ untold' = IF body = "untold" THEN untold \cup {c} ELSE untold
  \/ ~Waits(c) /\ UNCHANGED <<exit, untold>>

\* The handler answers with an error, or its process dies: what it has not
\* committed is rolled back, and its locks are released.
Leave(h, ok) ==
  /\ pc[h] # "idle"
  /\ pc' = [pc EXCEPT ![h] = "idle"]
  /\ job' = [job EXCEPT ![h] = [call |-> NoCall, key |-> NoKey]]
  /\ arrived' = [arrived EXCEPT ![h] = 0]
  /\ seen' = [seen EXCEPT ![h] = NoOwner]
  /\ lock' = [s \in Sessions |-> IF lock[s] = h THEN NoCall ELSE lock[s]]
  /\ Answer(job[h].call, ok)

Refuse(h) == Leave(h, FALSE) /\ UNCHANGED <<admin, sent, nonces, owner, ran, trace>>

Usable(k, now) == keys[k].status \in {"active", "rotating"} /\ keys[k].until >= now

\* A session that exists must be the caller's machine's own, in the project
\* the caller names; session_open carries no session id.
BoundTo(s, id) ==
  owner[s] # NoOwner /\ owner[s].device = id.device /\ owner[s].project = id.project

SessionOf(h) == Request[job[h].call].session
ToolOf(h) == Request[job[h].call].tool

CheckKey(h) ==
  /\ pc[h] = "key"
  /\ Usable(job[h].key, arrived[h])
  /\ ToolOf(h) # "session_open" => BoundTo(SessionOf(h), Identity(job[h]))
  /\ pc' = [pc EXCEPT ![h] = "nonce"]
  /\ UNCHANGED <<admin, sent, nonces, owner, lock, job, arrived, seen, ran, exit, untold, trace>>

\* Faulty variant: the nonce is looked up, but nothing keeps a second
\* transaction from inserting it meanwhile.
InsertNonceLookedUp(h) ==
  /\ pc[h] = "nonce"
  /\ job[h].call \notin nonces
  /\ pc' = [pc EXCEPT ![h] = "commit"]
  /\ UNCHANGED <<admin, sent, nonces, owner, lock, job, arrived, seen, ran, exit, untold, trace>>

\* The unique index on the nonce: a second insert waits for the first one's
\* transaction, then fails if that committed.
InsertNonce(h) ==
  /\ pc[h] = "nonce"
  /\ job[h].call \notin nonces
  /\ \A g \in Handlers : pc[g] = "commit" => job[g].call # job[h].call
  /\ pc' = [pc EXCEPT ![h] = "commit"]
  /\ UNCHANGED <<admin, sent, nonces, owner, lock, job, arrived, seen, ran, exit, untold, trace>>

CommitNonce(h) ==
  /\ pc[h] = "commit"
  /\ nonces' = nonces \union {job[h].call}
  /\ pc' = [pc EXCEPT ![h] = "tool"]
  /\ UNCHANGED <<admin, sent, owner, lock, job, arrived, seen, ran, exit, untold, trace>>

\* The connection is lost in the commit: the nonce is spent, the call is not run.
LoseCommit(h) ==
  /\ pc[h] = "commit"
  /\ nonces' = nonces \union {job[h].call}
  /\ Leave(h, FALSE)
  /\ UNCHANGED <<admin, sent, owner, ran, trace>>

Ran(h) ==
  ran' = IF job[h].key = NoKey THEN ran ELSE [ran EXCEPT ![job[h].call] = @ + 1]
Entry(h) == <<SessionOf(h), Identity(job[h])>>

\* The paths and the key of the call must name one enrolled project.
Admitted(h) == Request[job[h].call].project \in EnrolledProjects

\* The opaque references of the call must lie in the project it names.
InProject(h) ==
  LET s == SessionOf(h) IN
  Admitted(h) /\ (owner[s] # NoOwner => owner[s].project = Request[job[h].call].project)

\* Faulty variant: create and reopen are not serialised.
OpenWithoutLock(h) ==
  /\ pc[h] = "tool" /\ ToolOf(h) = "session_open" /\ Admitted(h)
  /\ pc' = [pc EXCEPT ![h] = "open"]
  /\ UNCHANGED <<admin, sent, nonces, owner, lock, job, arrived, seen, ran, exit, untold, trace>>

\* session_open: the advisory lock on the key serialises create and reopen.
LockSession(h) ==
  /\ pc[h] = "tool" /\ ToolOf(h) = "session_open" /\ Admitted(h)
  /\ lock[SessionOf(h)] = NoCall
  /\ lock' = [lock EXCEPT ![SessionOf(h)] = h]
  /\ pc' = [pc EXCEPT ![h] = "open"]
  /\ UNCHANGED <<admin, sent, nonces, owner, job, arrived, seen, ran, exit, untold, trace>>

\* The identity of the row, if there is one, must be the caller's in full.
RequireSessionIdentity(existing, m) == existing \in {NoOwner, Identity(m)}

ReadSession(h) ==
  /\ pc[h] = "open"
  /\ RequireSessionIdentity(owner[SessionOf(h)], job[h])
  /\ seen' = [seen EXCEPT ![h] = owner[SessionOf(h)]]
  /\ pc' = [pc EXCEPT ![h] = "upsert"]
  /\ UNCHANGED <<admin, sent, nonces, owner, lock, job, arrived, ran, exit, untold, trace>>

\* The upsert gives a session without a source identity one, and commits.
UpsertSession(h) ==
  /\ pc[h] = "upsert"
  /\ owner' = IF seen[h] = NoOwner THEN [owner EXCEPT ![SessionOf(h)] = Identity(job[h])]
              ELSE owner
  /\ Ran(h)
  /\ trace' = trace \union {Entry(h)}
  /\ Leave(h, TRUE)
  /\ UNCHANGED <<admin, sent, nonces>>

\* append_event and session_close write in the session.
Write(h) ==
  /\ pc[h] = "tool" /\ ToolOf(h) \in {"append_event", "session_close"}
  /\ InProject(h) /\ owner[SessionOf(h)] # NoOwner
  /\ Ran(h)
  /\ trace' = trace \union {Entry(h)}
  /\ Leave(h, TRUE)
  /\ UNCHANGED <<admin, sent, nonces, owner>>

\* A replay is recorded in recovery_operations, unless the caller is unsigned.
Records(h) == job[h].key # NoKey

Retrieve(h) ==
  /\ pc[h] = "tool" /\ ToolOf(h) = "retrieve_context"
  /\ InProject(h)
  /\ Ran(h)
  /\ trace' = IF Records(h) THEN trace \union {Entry(h)} ELSE trace
  /\ Leave(h, TRUE)
  /\ UNCHANGED <<admin, sent, nonces, owner>>

Next ==
  \/ Tick
  \/ \E k \in Keys : \/ Enroll(k)
                     \/ \E new \in Keys, o \in 0..1 : Rotate(k, new, o)
                     \/ \E s \in {"active", "revoked", "disabled"} : SetKeyStatus(k, s)
  \/ \E legacy \in BOOLEAN, w \in {1} : SetEnforcement(legacy, w)
  \/ \E c \in DOMAIN Requests : \/ SendsUnsigned(c)
                                \/ \E k \in Keys : CursorSigns(c, k) \/ WorkflowSigns(c, k)
  \/ \E c \in HostCalls : HostGivesUp(c) \/ \E k \in Keys : HostSigns(c, k)
  \/ \E h \in Handlers :
       \/ \E m \in sent : Take(h, m)
       \/ Refuse(h) \/ CheckKey(h) \/ InsertNonce(h) \/ CommitNonce(h) \/ LoseCommit(h)
       \/ LockSession(h) \/ ReadSession(h) \/ UpsertSession(h) \/ Write(h) \/ Retrieve(h)

Spec == Init /\ [][Next]_vars

\* A signed call runs its tool at most once, however often it is delivered,
\* to however many servers at a time, and whatever becomes of their commits
\* (device_identity.py: the nonce row, committed before the tool runs).
OncePerAssertion == \A c \in Calls : ran[c] <= 1

\* Everything written under one session key comes from one machine and goes to
\* one project, although the clients choose the key and open it concurrently
\* (server.py: the advisory lock, _require_session_identity, _verify_bound_session).
SessionHasOneOwner ==
  \A e, f \in trace : e[1] = f[1] => /\ e[2].device = f[2].device
                                     /\ e[2].project = f[2].project

\* A helper ends well after an answer that tells how the call went only if the
\* call was executed, whatever became of answers, servers and other deliveries of
\* the call: what the gateway says in its own words is no success
\* (parse_tool_result, main).  An answer that tells nothing ends it well in any
\* case, and printing a call promises nothing.
ExitZeroMeansRan ==
  \A c \in HostCalls \ untold :
    exit[c] = 0 /\ Command[c].action = "call" => ran[c] = 1
=============================================================================

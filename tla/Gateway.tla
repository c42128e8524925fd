------------------------------ MODULE Gateway ------------------------------
(***************************************************************************)
(* The registry, the files rendered from it, the running gateway, the      *)
(* project router and the adapter in front of one upstream, together.      *)
(* The operator edits the registry, renders it, restarts the gateway and   *)
(* synchronises its code mode flags, in whatever order; routers are called *)
(* meanwhile, and requests pass through the adapter.                       *)
(***************************************************************************)
EXTENDS GatewayConfig, StdioAdapter, ProjectRouter

CONSTANTS Registries,  \* the registries an operator may leave on disk
          Deployed,    \* those the gateway may run with at the start
          NoIds,       \* the clients whose row in config.db has no client_id
          Budgets,     \* bounds: [operator, routers, calls], what may be begun
          None         \* no file

\* The name of Server, the upstream whose adapter is followed, is its own.
ASSUME RegistriesAssumption ==
  \A R \in Registries \cup Deployed : \A id \in DOMAIN R.servers :
    /\ R.servers[id].type = "router" => R.servers[id].name \in Clients
    /\ R.servers[id].name = Server <=> id = Server

VARIABLES
  registry,   \* contracts/bifrost-upstream-mcp-registry.json
  runtime,    \* config.json of the gateway
  sanitized,  \* the copy under version control
  rendering,  \* what a render still has to write: <<>> or <<registry, plain>>
  live,       \* the file the gateway runs with, and the clients it made of it
  flags,      \* config.db: the code mode flag of every live client
  sync,       \* a run of sync_code_mode_live_clients
  left        \* what may still be begun, one of Budgets at the start

config == <<registry, runtime, sanitized, rendering>>
gateway == <<live, flags, sync>>
vars == <<config, gateway, left, relay, router>>

NoSync == [step |-> "idle", of |-> None, want |-> <<>>, todo |-> {}]
Written(R, plain) == [of |-> R, config |-> Config(R, plain)]

Flags(clients) == [n \in DOMAIN clients |-> clients[n].code]
Running(file, clients) == [of |-> file.of, keys |-> file.config.keys, clients |-> clients]
Starts(n) == n \in DOMAIN live.clients /\ AdapterStarts(live.clients[n].launch)
RouterNames == {R.name : R \in {registry.servers[id] : id \in {s \in EnabledIn(registry) : registry.servers[s].type = "router"}}}

Init ==
  /\ RelayInit /\ RouterInit
  /\ registry \in Deployed
  /\ Renders(registry)
  /\ runtime = Written(registry, FALSE)
  /\ sanitized = runtime
  /\ \E clients \in Clientele(runtime.config) : live = Running(runtime, clients)
  /\ rendering = <<>>
  /\ flags = Flags(live.clients)
  /\ sync = NoSync
  /\ left \in Budgets

Begin(who) == left[who] > 0 /\ left' = [left EXCEPT ![who] = @ - 1]

-----------------------------------------------------------------------------
(* The operator. *)

EditRegistry ==
  /\ Begin("operator")
  /\ \E R \in Registries \ {registry} : registry' = R
  /\ UNCHANGED <<runtime, sanitized, rendering, gateway, relay, router>>

\* The files are written one after the other, from the registry as it was read.
Render(plain) ==
  /\ Begin("operator")
  /\ rendering = <<>>
  /\ Renders(registry)
  /\ runtime' = Written(registry, plain)
  /\ rendering' = <<registry, plain>>
  /\ UNCHANGED <<registry, sanitized, gateway, relay, router>>

RenderCopies ==
  /\ rendering # <<>>
  /\ \/ sanitized' = Written(rendering[1], rendering[2])
     \/ UNCHANGED sanitized   \* the renderer is killed, or told to skip the copies
  /\ rendering' = <<>>
  /\ UNCHANGED <<registry, runtime, gateway, left, relay, router>>

\* The gateway reads its configuration and starts every client anew; the flags
\* of the clients it already had may stay as they were.  A synchronisation that
\* is under way goes on; what one that had ended has left is over.
RestartGateway ==
  /\ Begin("operator")
  /\ \E clients \in Clientele(runtime.config) :
       /\ live' = Running(runtime, clients)
       /\ \E stale \in SUBSET (DOMAIN flags \cap DOMAIN clients) :
            flags' = [n \in DOMAIN clients |-> IF n \in stale THEN flags[n] ELSE clients[n].code]
       /\ Restarted(Server \in DOMAIN clients /\ clients[Server].launch.transform)
  /\ sync' = IF sync.step = "done" THEN NoSync ELSE sync
  /\ child' = [k \in Clients |-> NoProject]
  /\ starting' = [k \in Clients |-> <<>>]
  /\ UNCHANGED <<config, active, lock, call, reached, settled>>

\* What the registry wants of its enabled clients, or the rendered file where
\* it names them; of two entries with one name the later wins, either of them.
DesiredFlags(R, rendered) ==
  LET wanted == {R.servers[id] : id \in EnabledIn(R)}
      of(n) == IF n \in ClientNames(rendered) THEN Named(rendered, n) ELSE {s \in wanted : s.name = n}
      names == {s.name : s \in wanted}
  IN  {want \in [names -> BOOLEAN] : \A n \in names : \E c \in of(n) : want[n] = c.code}

\* A client that has drifted and has no client_id is skipped.
PlanSync ==
  /\ Begin("operator")
  /\ sync.step # "put"
  /\ \E want \in DesiredFlags(registry, runtime.config) :
       sync' = [step |-> "put", of |-> runtime, want |-> want,
                todo |-> {n \in (DOMAIN want \cap DOMAIN flags) \ NoIds : flags[n] # want[n]}]
  /\ UNCHANGED <<config, live, flags, relay, router>>

\* One request for each client that has drifted; the first failure ends the run,
\* and the gateway fails one for a client it no longer has.
PutFlag ==
  /\ sync.step = "put"
  /\ \/ \E n \in sync.todo \cap DOMAIN flags :
            /\ flags' = [flags EXCEPT ![n] = sync.want[n]]
            /\ sync' = [sync EXCEPT !.todo = @ \ {n}]
     \/ sync.todo # {} /\ sync' = NoSync /\ UNCHANGED flags
     \/ sync.todo = {} /\ sync' = [sync EXCEPT !.step = "done"] /\ UNCHANGED flags
  /\ UNCHANGED <<config, live, left, relay, router>>

-----------------------------------------------------------------------------
(* The routers, their clients, and the adapter in front of Server. *)

\* A client that is connected again has a new adapter.
Relaunched(k) ==
  IF k = Server THEN Restarted(Server \in DOMAIN live.clients /\ live.clients[Server].launch.transform)
                ELSE UNCHANGED relay

RouterStep(r) ==
  \/ Begin("routers") /\ (\E p \in Projects \cup {NoProject} : CallTool(r, p)) /\ UNCHANGED <<config, gateway, relay>>
  \/ /\ \/ Acquire(r) \/ SaveState(r)
        \/ ListClients(r, RouterNames, DOMAIN live.clients)
        \/ Finish(r) \/ Rollback(r) \/ Killed(r)
        \/ \E k \in call[r].todo : ReconnectFails(r, k)
     /\ UNCHANGED <<config, gateway, left, relay>>
  \/ \E k \in call[r].todo : Reconnect(r, k, Starts(k)) /\ Relaunched(k) /\ UNCHANGED <<config, gateway, left>>

ChildStep(k) ==
  \/ ChildEnds(k) /\ Relaunched(k) /\ UNCHANGED <<config, gateway, left>>
  \/ Starts(k) /\ (LoadActiveProject(k) \/ Launch(k)) /\ UNCHANGED <<config, gateway, left, relay>>

\* A call through the gateway needs a child that serves it, and a key that may.
RelayStep ==
  /\ \/ /\ Begin("calls") /\ Send
        /\ child[Server] # NoProject
        /\ Request[sent'].method = "tools/call" =>
             \E p \in DOMAIN live.keys : Reachable(live.clients, live.keys, p, Server, Request[sent'].tool)
     \/ left' = left /\ (PumpStdin \/ PumpStdout)
     \/ Begin("calls") /\ child[Server] # NoProject /\ Ask
     \/ left' = left /\ child[Server] # NoProject /\ \E id \in Ids : Answer(id)
  /\ UNCHANGED <<config, gateway, router>>

Next ==
  \/ EditRegistry \/ RenderCopies \/ RestartGateway \/ PlanSync \/ PutFlag
  \/ \E plain \in BOOLEAN : Render(plain)
  \/ \E r \in Routers : RouterStep(r)
  \/ \E k \in Clients : ChildStep(k)
  \/ RelayStep

Spec == Init /\ [][Next]_vars

-----------------------------------------------------------------------------

\* A tool that the registry the gateway was rendered from denies is reached only
\* where the list of the permitted ones stands for all tools, as it holds "*" or
\* is empty; and when it is just ["*"], the registry fails the reviews.  The
\* comment of render_bifrost_config.py:251 leaves "*" to a validator, which the
\* renderer does not call and which knows no list but ["*"]: "*" twice, "*"
\* beside a name and the empty list pass it (README, section 5).
DeniedIsBlocked ==
  \A p \in DOMAIN live.keys, n \in DOMAIN live.clients, t \in Tools :
    LET s == live.of.servers[live.clients[n].id]
    IN  Reachable(live.clients, live.keys, p, n, t) /\ t \in s.denied =>
          /\ Wild \in Entries(Permitted(s))
          /\ s.permitted = <<Wild>> => ~RegistryIsValid(live.of)
=============================================================================

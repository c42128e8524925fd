--------------------------- MODULE GatewayConfig ---------------------------
(***************************************************************************)
(* What the gateway is told to expose.  validate_contracts.py and          *)
(* validate_output_schemas.py review the registry of upstream servers;     *)
(* render_bifrost_config.py turns it into the clients and virtual keys of  *)
(* the gateway.  Neither calls the other.                                  *)
(* A registry is [servers, profiles, adapter].  The list of permitted      *)
(* tools is a sequence, in which Wild stands for "*": the code compares it *)
(* with the list ["*"].  Servers are known to the gateway by their         *)
(* bifrost_client_name, and nothing keeps two from having the same.        *)
(***************************************************************************)
EXTENDS OutputEnvelope, FiniteSets

CONSTANTS Tools,      \* the tools the upstream servers have
          Wild,       \* the entry "*" of a list of tools
          ChatTools   \* the tools the chatgpt profile names, by client

ASSUME ToolsAssumption == Wild \notin Tools

Stdio == {"stdio", "router"}
SchemaProducing == {"stdio_envelope", "upstream_native"}

Entries(list) == {list[i] : i \in DOMAIN list}
EnabledIn(R) == {s \in DOMAIN R.servers : R.servers[s].enabled}
ExposedIn(R) == UNION {R.profiles[p] : p \in DOMAIN R.profiles}

-----------------------------------------------------------------------------
(* The renderer. *)

\* permitted_tools or ["*"]
Permitted(s) == IF s.permitted = <<>> THEN <<Wild>> ELSE s.permitted
\* Faulty variant: what is denied is not taken out of the list.
PermittedAsListed(s) == Entries(Permitted(s))
EffectiveTools(s) == IF Permitted(s) = <<Wild>> THEN {Wild} ELSE Entries(Permitted(s)) \ s.denied

Mode(id) == IF id \in DOMAIN Contract THEN Contract[id].adapter ELSE "unsupported"
AppliesTo(R, id, plain) == R.adapter.enabled /\ ~plain /\ Mode(id) = "stdio_envelope"

\* Every stdio upstream runs behind the adapter; a name it has an alias for is
\* passed as an option of its own.
Wrap(R, id, plain) ==
  LET s == R.servers[id]
  IN  [transform |-> AppliesTo(R, id, plain), allow |-> s.env \ s.aliases, alias |-> s.aliases]

Client(R, id, plain) ==
  LET s == R.servers[id]
  IN  [name |-> s.name, id |-> id, type |-> s.type, tools |-> EffectiveTools(s), code |-> s.code,
       launch |-> IF s.type \in Stdio THEN Wrap(R, id, plain) ELSE [transform |-> FALSE, allow |-> {}, alias |-> {}]]

ClientConfigs(R, plain) == {Client(R, id, plain) : id \in EnabledIn(R)}

\* The chatgpt key has a list of its own; every other key repeats the
\* permitted list, from which nothing is taken away.
ProfileConfigs(R, p) ==
  LET allowed == R.profiles[p] \cap EnabledIn(R)
      name(id) == R.servers[id].name
  IN  IF p = "chatgpt"
      THEN {[name |-> name(id), tools |-> ChatTools[name(id)]] : id \in {s \in allowed : name(s) \in DOMAIN ChatTools}}
      ELSE {[name |-> name(id), tools |-> Entries(Permitted(R.servers[id]))] : id \in allowed}
VirtualKeys(R) == [p \in DOMAIN R.profiles |-> ProfileConfigs(R, p)]

\* Without the adapter no stdio client can be built and nothing is written.
Renders(R) == (\E id \in EnabledIn(R) : R.servers[id].type \in Stdio) => R.adapter.isolation

Config(R, plain) == [clients |-> ClientConfigs(R, plain), keys |-> VirtualKeys(R)]

-----------------------------------------------------------------------------
(* The reviews of a registry. *)

SemanticChecks(R) ==
  /\ \A id \in DOMAIN R.servers :
       LET s == R.servers[id]
           declared == Entries(s.permitted) \cup s.denied
       IN  /\ ~(s.enabled /\ s.permitted = <<Wild>> /\ s.denied # {})
           /\ declared # {} => s.grouped \subseteq declared
           /\ s.status = "dormant" => id \notin ExposedIn(R)
  /\ ExposedIn(R) \subseteq DOMAIN R.servers

Covered(R) ==
  \A id \in DOMAIN R.servers :
    LET s == R.servers[id]
    IN  /\ id \in DOMAIN Contract
        /\ Contract[id].adapter = "stdio_envelope" => s.type \in Stdio
        /\ s.enabled /\ id \in ExposedIn(R) => Contract[id].adapter \in SchemaProducing
        /\ s.permitted \notin {<<>>, <<Wild>>} => DOMAIN Contract[id].overrides \subseteq Entries(s.permitted)

Wired(R) == R.adapter.configured

\* The second validator, without its last gate; and what main asks of a registry.
OutputSchemaChecks(R) == Covered(R) /\ Wired(R)
RegistryIsValid(R) == SemanticChecks(R) /\ OutputSchemaChecks(R)

-----------------------------------------------------------------------------
(* What the gateway makes of its configuration: it has one client of each  *)
(* name (of two that share one it may take either), and a tool is called   *)
(* through a key when the list of the client and a list of the key name it.*)

ClientNames(cfg) == {c.name : c \in cfg.clients}
Named(cfg, n) == {c \in cfg.clients : c.name = n}
Clientele(cfg) == {f \in [ClientNames(cfg) -> cfg.clients] : \A n \in ClientNames(cfg) : f[n].name = n}

Names(list, t) == t \in list \/ Wild \in list
Reachable(clients, keys, p, n, t) ==
  /\ n \in DOMAIN clients /\ Names(clients[n].tools, t)
  /\ \E k \in keys[p] : k.name = n /\ Names(k.tools, t)

\* The adapter does not know the option of an alias: such a client never comes up.
AdapterStarts(launch) == launch.alias = {}
=============================================================================

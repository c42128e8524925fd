----------------------------- MODULE HostSigner -----------------------------
(***************************************************************************)
(* The host helpers that sign memory calls for Devin and ZCode, which      *)
(* cannot sign themselves (scripts/agentcore_devin/signed_memory.py,       *)
(* scripts/agentcore_zcode/signed_memory.py).  A helper either prints the  *)
(* signed call for the agent to send, or makes the call, in its own        *)
(* process or through the gateway, and tells by its exit code how it went. *)
(***************************************************************************)
EXTENDS TLC

\* A command line: [client, action, tool, project, root, json, file, fields,
\* via, url, device].  json, file and fields are functions from the arguments
\* they set to values.
CONSTANT NotAnObject   \* JSON that is none
Missing == "missing"

MemoryTools == {"session_open", "session_close", "startup_context", "retrieve_context",
                "expand_source", "docs_search", "append_event", "propose_fact",
                "build_handoff", "memory_status"}

CompatGateway == "127.0.0.1:18082"
DirectGateway == "127.0.0.1:8080"

(***************************** the arguments *******************************)
Readable(cmd) == cmd.json # NotAnObject /\ cmd.file # NotAnObject

\* What is given on the command line goes before the file, the file before the
\* JSON; the key of the client is always given, if only by its default.
LoadExtraArgs(cmd) == cmd.fields @@ cmd.file @@ cmd.json
Given(cmd) == [project |-> cmd.project, root |-> cmd.root]

\* The root of a session to be opened must be enrolled for the project named;
\* but the extra arguments may then name another one.
OpensEnrolled(cmd, projectAt) == projectAt[cmd.root] = cmd.project
BuildArguments(cmd) == LoadExtraArgs(cmd) @@ Given(cmd)

Builds(cmd, projectAt) ==
  Readable(cmd) /\ (cmd.tool = "session_open" => OpensEnrolled(cmd, projectAt))

(******************************* the call **********************************)
\* What is signed: the tool, and the arguments with the client's key in them.
SignMemoryArguments(cmd) ==
  LET args == BuildArguments(cmd) IN
  [tool |-> cmd.tool, client |-> args.client, device |-> cmd.device,
   session |-> args.session, project |-> args.project]

UsableGateway(cmd) == cmd.action = "call" /\ cmd.via => cmd.url # CompatGateway

DevinAccepts(cmd, projectAt) ==
  /\ Builds(cmd, projectAt)
  /\ cmd.tool \in MemoryTools
  /\ UsableGateway(cmd)

\* ZCode's helper can also inspect a configuration, which calls nothing.
ZCodeAccepts(cmd, projectAt) ==
  /\ cmd.action # "inspect"
  /\ Missing \notin {cmd.tool, cmd.project, cmd.root}
  /\ DevinAccepts(cmd, projectAt)

Accepts(cmd, projectAt) ==
  IF cmd.client = "zcode" THEN ZCodeAccepts(cmd, projectAt) ELSE DevinAccepts(cmd, projectAt)

(****************************** the answer *********************************)
\* What may come back: nothing in time, no JSON, or an error of the protocol;
\* no result, or one with text that is no object; the gateway's word of a failure;
\* the tool's own JSON; or a result that says nothing of success, because it has
\* no text, or text that is an object without `ok`.
Bodies == {"nothing", "no json", "rpc error", "no object", "failure", "tool json", "untold"}

\* _post raises unless a result came.
Raises(body) == body \in {"nothing", "no json", "rpc error"}

\* Faulty variant: text that is not JSON is handed on as it came.
ParseAnyText(body, ok) == body # "tool json" \/ ok

\* The `ok` of what parse_tool_result returns, which main takes for true when it
\* is missing: text of the gateway is a failure, a result without text is itself.
ParseToolResult(body, ok) == (body = "tool json" /\ ok) \/ body = "untold"

ExitCode(body, ok) == IF ~Raises(body) /\ ParseToolResult(body, ok) THEN 0 ELSE 1

\* A call through the gateway may lose its answer, one in the helper's own
\* process returns it or an exception.
Replies(cmd) == IF cmd.via THEN Bodies ELSE {"tool json", "nothing"}
=============================================================================

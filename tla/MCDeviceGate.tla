---------------------------- MODULE MCDeviceGate ----------------------------
EXTENDS DeviceGate, TLC

CONSTANTS c1, c2, c3, c4, c5, c6, c7, k1, k2, k3, d1, d2, s1

\* Two machines open the same session key for two projects; the first writes.
Asks(tool, client, device, project) ==
  [tool |-> tool, client |-> client, device |-> device, session |-> s1, project |-> project]
MCRequests == c1 :> Asks("session_open", "cursor", d1, "p1")
           @@ c3 :> Asks("append_event", "langgraph", d2, "p2")
           @@ c4 :> Asks("retrieve_context", "codex", d1, "p1")

\* Devin's helper opens a session of p2 through the gateway, although it is given
\* a root of p1; the other command lines are refused: a root of another project,
\* arguments that are no object, the gateway without headers.
Line(client, action, tool, project, root, json, via, url) ==
  [client |-> client, action |-> action, tool |-> tool, project |-> project, root |-> root,
   json |-> json, file |-> <<>>, fields |-> [client |-> client, session |-> s1],
   via |-> via, url |-> url, device |-> d2]
MCCommand ==
  c2 :> Line("devin", "call", "session_open", "p1", "root1", [project |-> "p2"], TRUE, DirectGateway)
  @@ c5 :> Line("zcode", "sign", "append_event", "p2", "root2", <<>>, FALSE, DirectGateway)
  @@ c6 :> Line("zcode", "call", "append_event", "p1", "root1", NotAnObject, FALSE, DirectGateway)
  @@ c7 :> Line("devin", "call", "append_event", "p2", "root2", <<>>, TRUE, CompatGateway)
MCProjectAt == [root1 |-> "p1", root2 |-> "p2"]
MCDeviceOf == [k \in Keys |-> IF k = k3 THEN d2 ELSE d1]
ServersAlike == Permutations(Handlers)
=============================================================================

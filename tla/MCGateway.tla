------------------------------ MODULE MCGateway ------------------------------
EXTENDS Gateway, TLC

CONSTANTS r1, r2, p1, p2

Basic(name, type) ==
  [name |-> name, enabled |-> TRUE, type |-> type, status |-> "active", permitted |-> <<"read", "write">>,
   denied |-> {}, grouped |-> {}, code |-> FALSE, env |-> {}, aliases |-> {}]
Fs == Basic("fs", "router")
Cf == Basic("cf", "router")
Hub == Basic("hub", "stdio")

\* Two router clients, the first behind the adapter under study, and a hub.
Reg(cf, hub, inProfiles) ==
  [servers |-> [fs |-> Fs, cf |-> cf, hub |-> hub],
   profiles |-> [ide |-> {"fs", "cf"} \cup inProfiles, chatgpt |-> inProfiles],
   adapter |-> [configured |-> TRUE, enabled |-> TRUE, isolation |-> TRUE]]

\* Lists a file may hold, with what is denied beside them.
Lists == {<<<<"*">>, {}>>, <<<<"*">>, {"write"}>>, <<<<"read">>, {}>>, <<<<"read", "write">>, {"write"}>>,
          <<<<>>, {"write"}>>, <<<<"*", "*">>, {"write"}>>, <<<<"*", "read">>, {"write"}>>}
Dormant == [Hub EXCEPT !.status = "dormant"]
Reg0 == Reg(Cf, Hub, {"hub"})
NoCf == Reg([Cf EXCEPT !.enabled = FALSE], Hub, {"hub"})
\* Two servers of one name.
Shared == Reg([Cf EXCEPT !.code = TRUE, !.type = "stdio", !.name = "hub"], Hub, {"hub"})
MCDeployed == {Reg0, NoCf}
MCRegistries ==
  {Reg(Cf, [Hub EXCEPT !.permitted = l[1], !.denied = l[2]], {"hub"}) : l \in Lists}
    \cup {Reg0, NoCf, Shared, Reg(Cf, Dormant, {}), Reg(Cf, Dormant, {"hub"}),
          Reg([Cf EXCEPT !.aliases = {"KEY"}], Hub, {"hub"}),
          Reg([Cf EXCEPT !.code = TRUE], [Hub EXCEPT !.code = TRUE], {"hub"}),
          [Reg0 EXCEPT !.adapter.enabled = FALSE], [Reg0 EXCEPT !.adapter.isolation = FALSE]}

MCChatTools == [hub |-> {"read", "write"}]
Bound(adapter) == [adapter |-> adapter, default |-> "files", overrides |-> <<>>]
MCContract == [fs |-> [Bound("stdio_envelope") EXCEPT !.overrides = [write |-> "edits"]],
               cf |-> Bound("stdio_envelope"), hub |-> Bound("stdio_envelope")]
MCFamilies == [files |-> "records", generic |-> "generic"]
MCRequest == <<[method |-> "tools/call", tool |-> "read"], [method |-> "tools/list", tool |-> ""],
               [method |-> "tools/call", tool |-> "write"]>>
Result(kind, text, isError) == [structured |-> [kind |-> kind], text |-> text, isError |-> isError]
MCResults == {Result("own", "json", FALSE), Result("none", "big", FALSE), Result("none", "prose", TRUE)}
Budget(o, r, c) == [operator |-> o, routers |-> r, calls |-> c]
MCBudgets == {Budget(4, 0, 0), Budget(1, 1, 0), Budget(1, 0, 2), Budget(0, 1, 2), Budget(0, 2, 0), Budget(0, 0, 4)}
Alike == Permutations(Routers) \cup Permutations(Projects)
MCToolList == [read |-> "none", write |-> "own"]
=============================================================================

---------------------------- MODULE MCPromptGate ----------------------------
(* Two conversations on one workspace and one file that may be declared.    *)
EXTENDS PromptGate

CONSTANTS c1, c2, p1, p2, file

MCMaxStarts == [c \in Conversations |-> 1]
MCMaxTurns == [c \in Conversations |-> IF c = c1 THEN 2 ELSE 1]
MCMaxCalls == [c \in Conversations |-> IF c = c1 THEN 1 ELSE 0]
MCMaySubmit == [c \in Conversations |-> IF c = c1 THEN {p1, NoPrompt} ELSE {p2}]
MCPayloads == {<<>>, <<"elsewhere", "agentcore">>}
MCTools == {{"write", "file"}, {"rename", "symbol"}}
MCCommands == {[form |-> f, paths |-> {file}] : f \in {"ambiguous", "redirection", "unlisted"}}
MCClassOf == [p \in {file} |-> "plain"]
=============================================================================

----------------------------- MODULE PromptGate -----------------------------
(* The gate that Cursor's hooks keep in front of an agent's tools           *)
(* (scripts/agentcore_cursor).  Each hook is a process of its own, started   *)
(* for one event of one conversation, and all conversations of a workspace   *)
(* share two files: cursor-bootstrap.json, which says which session is open   *)
(* and which prompt has been captured, and session-scope.json, which says     *)
(* which files may be written.  A hook reads a file, works on its copy and     *)
(* writes the whole file again; nothing is locked, and a write first empties    *)
(* the file.  The journal is the memory behind the gateway.                      *)
EXTENDS Naturals, Sequences

CONSTANTS
  Conversations,  \* the conversations open on one workspace
  Prompts,        \* the texts an operator submits
  MaySubmit,      \* those each conversation may submit, NoPrompt for an empty one
  Continuities,   \* whether startup_context may find the session healthy or not
  Payloads,       \* what hooks are told of their workspace: sequences of names
  EnrolledLabels, \* the display names that one enrolled, marked root has
  CwdEnrolled,    \* the hooks' own directory is an enrolled, marked root
  Tools,          \* the tools that write, each by the words of its name
  Commands,       \* shell commands: their form and the paths they write to
  Paths,          \* the files a tool may be asked to write
  Inside,         \* those under the workspace's root
  Runtime,        \* those under a runtime directory that is always allowed
  ClassOf,        \* what the authority manifest says of a file
  Approved,       \* AGENTCORE_AUTHORITY_CAPABILITY and an approval id are set
  Projector,      \* the process is the projection worker
  MaxStarts,      \* bound: session starts of each conversation
  MaxTurns,       \* bound: prompts submitted in each conversation
  MaxCalls,       \* bound: hooks for the tools of each conversation
  MaxUuids,       \* bound: sessions opened without a conversation id
  MaxKills,       \* bound: hooks that die half way
  NoPrompt, NoTurn, NoCapture, NoGrant,
  Absent,         \* a file that does not exist
  Emptied,        \* a file between truncation and writing
  Garbled         \* a file in which the ends of two writes are mixed

\* What the tables of patterns make of a command's text: a forbidden pattern, a
\* writer whose targets are not certain (code given to an interpreter, a variable,
\* two commands), a redirection, one of the commands that write files, or none of
\* these, as the serena repair script, whatever only reads, and every program that
\* writes without being in a table (a script, git, mkdir).
Forms == {"forbidden", "ambiguous", "redirection", "writer", "unlisted"}

ASSUME GateAssumption ==
  /\ MaySubmit \in [Conversations -> SUBSET (Prompts \cup {NoPrompt})]
  /\ Continuities \subseteq BOOLEAN
  /\ CwdEnrolled \in BOOLEAN
  /\ Tools \subseteq SUBSET STRING
  /\ Commands \subseteq [form : Forms, paths : SUBSET Paths]
  /\ Inside \subseteq Paths /\ Runtime \subseteq Paths
  /\ ClassOf \in [Paths -> {"plain", "operator_locked", "governed_mutable",
                            "generated_read_only", "manifest_unavailable"}]
  /\ {Approved, Projector} \subseteq BOOLEAN
  /\ {MaxStarts, MaxTurns, MaxCalls} \subseteq [Conversations -> Nat]
  /\ {MaxUuids, MaxKills} \subseteq Nat
  /\ NoPrompt \notin Prompts /\ NoTurn \notin Prompts /\ NoTurn # NoPrompt

\* A session is opened for a conversation or, without one, under a new uuid.
SessionKey == {<<"task", c>> : c \in Conversations} \cup {<<"uuid", n>> : n \in 0..MaxUuids}

\* A captured prompt, as in the journal and in the bootstrap file; the two files.
Capture == [prompt : Prompts, session : SessionKey, conversation : Conversations]
BootFile == [ok : BOOLEAN, healthy : BOOLEAN, session : SessionKey, startup : BOOLEAN,
             capture : Capture \cup {NoCapture}]
ScopeFile == [declared : SUBSET Paths]

\* What a hook finds where it can read no file.
NoText == {Absent, Emptied, Garbled}

ASSUME FilesAssumption ==
  /\ NoText \cap (BootFile \cup ScopeFile) = {}
  /\ Absent # Emptied /\ Absent # Garbled

VARIABLES
  boot,     \* cursor-bootstrap.json
  scope,    \* session-scope.json, of which only the declared files are kept
  journal,  \* prompts captured by append_event, with the session they are in
  at,       \* at[c]: where the hook of conversation c is, or "idle"
  io,       \* io[c]: the prompt the hook works on, its copy of a file, what it
            \* is about to write, and what follows
  running,  \* running[c]: the prompt the agent of c is working on, or NoTurn
  grant,    \* grant[c]: the write its pre-tool hook let through, not yet done
  lost,     \* history: a hook wrote while a session start held a copy to add to
  left      \* the budgets of the bounds

vars == <<boot, scope, journal, at, io, running, grant, lost, left>>

\* The statements that follow when a file is written, or a call is answered; and all.
Statement == {"idle", "mark", "disarm", "load", "reopened", "append", "arm", "continue",
              "scope", "handoff"}
Place == Statement \cup {"truncate", "write"}

\* What a hook holds of a file; the write it has let through; the budgets.
Work == [prompt : Prompts \cup {NoPrompt}, file : {"none", "boot", "scope"},
         blob : BootFile \cup ScopeFile \cup {Absent}, marks : BOOLEAN, then : Statement]
Grant == [via : {"tool", "shell", "unasked"}, targets : SUBSET Paths,
          capture : Capture \cup {NoCapture}]
Budget == [starts : [Conversations -> Nat], turns : [Conversations -> Nat],
           calls : [Conversations -> Nat], uuids : 0..MaxUuids, kills : Nat]

TypeOK ==
  /\ boot \in BootFile \cup NoText
  /\ scope \in ScopeFile \cup NoText
  /\ journal \subseteq Capture
  /\ at \in [Conversations -> Place]
  /\ io \in [Conversations -> Work]
  /\ running \in [Conversations -> Prompts \cup {NoPrompt, NoTurn}]
  /\ grant \in [Conversations -> Grant \cup {NoGrant}]
  /\ lost \in BOOLEAN
  /\ left \in Budget

\* _first_workspace_root: the first name in the payload that is a path or the
\* label of one enrolled root decides; if there were only others, the hook's own
\* directory; a payload that names nothing leaves the hook without a root.
Normal(name) == name = "path" \/ name \in EnrolledLabels

HasRoot(payload) ==
  \/ \E i \in DOMAIN payload : Normal(payload[i])
  \/ payload # <<>> /\ CwdEnrolled

Readable(file) == file \notin NoText

Idle == [prompt |-> NoPrompt, file |-> "none", blob |-> Absent, marks |-> FALSE,
         then |-> "idle"]

Init ==
  /\ boot = Absent /\ scope = [declared |-> Inside]
  /\ journal = {}
  /\ at = [c \in Conversations |-> "idle"]
  /\ io = [c \in Conversations |-> Idle]
  /\ running = [c \in Conversations |-> NoTurn]
  /\ grant = [c \in Conversations |-> NoGrant]
  /\ lost = FALSE
  /\ left = [starts |-> MaxStarts, turns |-> MaxTurns, calls |-> MaxCalls,
             uuids |-> MaxUuids, kills |-> MaxKills]

-----------------------------------------------------------------------------
(* Writing a file: open() empties it, the text follows.  When another hook   *)
(* has written in between, the longer text may stick out behind the shorter. *)

Plan(c, file, blob, marks, then) ==
  /\ io' = [io EXCEPT ![c] = [prompt |-> @.prompt, file |-> file, blob |-> blob,
                              marks |-> marks, then |-> then]]
  /\ at' = [at EXCEPT ![c] = "truncate"]

\* Steps of a hook that write no file: it goes on with its prompt and a copy.
Goto(c, label, blob) ==
  /\ at' = [at EXCEPT ![c] = label]
  /\ io' = [io EXCEPT ![c] = IF label = "idle" THEN Idle
                             ELSE [Idle EXCEPT !.prompt = io[c].prompt, !.blob = blob]]

End(c) == Goto(c, "idle", Absent)

\* Another conversation's session start has read the file and not yet written.
Overlaps(c) == io[c].file = "boot" /\ \E d \in Conversations \ {c} : io[d].marks

Truncate(c) ==
  /\ at[c] = "truncate"
  /\ \/ io[c].file = "boot" /\ boot' = Emptied /\ UNCHANGED scope
     \/ io[c].file = "scope" /\ scope' = Emptied /\ UNCHANGED boot
  /\ lost' = (lost \/ Overlaps(c))
  /\ at' = [at EXCEPT ![c] = "write"]
  /\ UNCHANGED <<journal, io, running, grant, left>>

\* What the file may hold when this hook's text is on disk.
Written(old, blob) == {blob} \cup (IF old = Emptied THEN {} ELSE {Garbled})

WriteOut(c) ==
  /\ at[c] = "write"
  /\ \/ io[c].file = "boot" /\ boot' \in Written(boot, io[c].blob) /\ UNCHANGED scope
     \/ io[c].file = "scope" /\ scope' \in Written(scope, io[c].blob) /\ UNCHANGED boot
  /\ lost' = (lost \/ Overlaps(c))
  /\ Goto(c, io[c].then, io[c].blob)
  /\ UNCHANGED <<journal, running, grant, left>>

-----------------------------------------------------------------------------
(* run_bootstrap: a workspace that is not enrolled is refused before anything *)
(* is written; a gateway call that fails leaves a file that says so; else the  *)
(* file is written anew, without a capture and without the startup flag.       *)

FailedBlob(session) ==
  [ok |-> FALSE, healthy |-> FALSE, session |-> session, startup |-> FALSE, capture |-> NoCapture]

OpenedBlob(session, healthy) ==
  [ok |-> TRUE, healthy |-> healthy, session |-> session, startup |-> FALSE, capture |-> NoCapture]

\* A root that is not enrolled is reported to the caller, which goes on with the
\* result; one that is no repository ends the hook with an error.
Refused(c, label) == Goto(c, label, Absent) \/ End(c)

Bootstrap(c, session, refused, failed, opened) ==
  \/ Refused(c, refused)
  \/ Plan(c, "boot", FailedBlob(session), FALSE, failed)
  \/ \E healthy \in Continuities : Plan(c, "boot", OpenedBlob(session, healthy), FALSE, opened)

StartSession(c) ==
  /\ at[c] = "idle" /\ left.starts[c] > 0
  /\ left' = [left EXCEPT !.starts[c] = @ - 1]
  /\ Bootstrap(c, <<"task", c>>, "idle", "idle", "mark")
  /\ UNCHANGED <<boot, scope, journal, running, grant, lost>>

\* The rest of handle_session_start: startup_context_completed is added to
\* whatever the file holds by now.
MarkStarted(c) ==
  /\ at[c] = "mark"
  /\ IF Readable(boot)
     THEN Plan(c, "boot", [boot EXCEPT !.startup = TRUE], TRUE, "idle")
     ELSE End(c)
  /\ UNCHANGED <<boot, scope, journal, running, grant, lost, left>>

-----------------------------------------------------------------------------
(* handle_before_submit.  A block and a failure end the hook with no turn.   *)

\* Faulty variant: the gate stays armed with the prompt before.
StaysArmed(blob) == blob

Disarmed(blob) == [blob EXCEPT !.capture = NoCapture]

Submit(c, p) ==
  /\ at[c] = "idle" /\ left.turns[c] > 0
  /\ left' = [left EXCEPT !.turns[c] = @ - 1]
  /\ running' = [running EXCEPT ![c] = NoTurn]
  /\ grant' = [grant EXCEPT ![c] = NoGrant]
  /\ io' = [io EXCEPT ![c] = [Idle EXCEPT !.prompt = p]]
  /\ at' = [at EXCEPT ![c] = "disarm"]
  /\ UNCHANGED <<boot, scope, journal, lost>>

\* A file that is there and cannot be disarmed blocks the prompt.
Disarm(c) ==
  /\ at[c] = "disarm"
  /\ IF Readable(boot) THEN Plan(c, "boot", Disarmed(boot), FALSE, "load")
     ELSE IF boot = Absent THEN Goto(c, "load", Absent) ELSE End(c)
  /\ UNCHANGED <<boot, scope, journal, running, grant, lost, left>>

\* An empty prompt goes on without a capture; any other one needs a healthy
\* session before it is captured, in whichever session the file names.
After(c, healthy) ==
  IF io[c].prompt = NoPrompt THEN "continue" ELSE IF healthy THEN "append" ELSE "idle"

Load(c) ==
  /\ at[c] = "load"
  /\ IF Readable(boot) /\ boot.ok
     THEN Goto(c, After(c, boot.healthy), boot)
     ELSE Bootstrap(c, <<"task", c>>, After(c, FALSE), After(c, FALSE), "reopened")
  /\ UNCHANGED <<boot, scope, journal, running, grant, lost, left>>

\* The hook goes on with the result it holds, not with the file.
Reopened(c) ==
  /\ at[c] = "reopened"
  /\ Goto(c, After(c, io[c].blob.healthy), io[c].blob)
  /\ UNCHANGED <<boot, scope, journal, running, grant, lost, left>>

\* append_prompt: the key is made of the conversation and the text, so a text
\* sent again is answered with the event there is, whatever its session.
Holds(j, c, p) == \E e \in j : e.conversation = c /\ e.prompt = p

Known(c, p) == Holds(journal, c, p)

Event(c, p, session) == [prompt |-> p, session |-> session, conversation |-> c]

\* Faulty variant: an answer that is not ok is taken for an acceptance.
AcceptedAnyway(j, c) == TRUE

\* The answer may say so when the event is there; it may be lost all the same.
Accepted(j, c) == Holds(j, c, io[c].prompt)

AppendPrompt(c) ==
  /\ at[c] = "append"
  /\ journal' \in {journal,
       IF Known(c, io[c].prompt) THEN journal
       ELSE journal \cup {Event(c, io[c].prompt, io[c].blob.session)}}
  /\ \/ Accepted(journal', c) /\ Goto(c, "arm", io[c].blob)
     \/ End(c)
  /\ UNCHANGED <<boot, scope, running, grant, lost, left>>

\* _set_prompt_capture_flag(captured=True) on the file as it is now.
Arm(c) ==
  /\ at[c] = "arm"
  /\ IF Readable(boot)
     THEN Plan(c, "boot",
               [boot EXCEPT !.capture = Event(c, io[c].prompt, io[c].blob.session)],
               FALSE, "continue")
     ELSE End(c)
  /\ UNCHANGED <<boot, scope, journal, running, grant, lost, left>>

Continue(c) ==
  /\ at[c] = "continue"
  /\ running' = [running EXCEPT ![c] = io[c].prompt]
  /\ End(c)
  /\ UNCHANGED <<boot, scope, journal, grant, lost, left>>

-----------------------------------------------------------------------------
(* handle_pre_tool for a call that writes.  The bootstrap file is read once;  *)
(* a shell command reaches handle_pre_tool without its conversation, as does    *)
(* a tool call whose payload has no id.                                          *)

BoundTo(capture, blob, c, named) ==
  /\ capture # NoCapture
  /\ capture.session = blob.session
  /\ named => capture.conversation = c

Working(c) == at[c] = "idle" /\ running[c] # NoTurn /\ left.calls[c] > 0

Called(c, uuids) == left' = [left EXCEPT !.calls[c] = @ - 1, !.uuids = @ - uuids]

Authorize(c, via, targets) ==
  LET named == via = "tool" IN
  /\ Working(c) /\ grant[c] = NoGrant
  /\ IF Readable(boot) /\ boot.ok
     THEN /\ boot.startup /\ BoundTo(boot.capture, boot, c, named)
          /\ grant' = [grant EXCEPT ![c] = [via |-> via, targets |-> targets,
                                            capture |-> boot.capture]]
          /\ Goto(c, "scope", Absent) /\ Called(c, 0)
     ELSE \* the project is activated under a new session; the write is denied
          \* all the same, for the new file says nothing of a startup context
          /\ left.uuids > 0 /\ Called(c, 1)
          /\ Bootstrap(c, <<"uuid", left.uuids>>, "idle", "idle", "idle")
          /\ UNCHANGED grant
  /\ UNCHANGED <<boot, scope, journal, running, lost>>

\* What no table names is allowed without a look at either file.
LetThrough(c, targets) ==
  /\ Working(c) /\ grant[c] = NoGrant
  /\ grant' = [grant EXCEPT ![c] = [via |-> "unasked", targets |-> targets,
                                    capture |-> NoCapture]]
  /\ UNCHANGED <<boot, scope, journal, at, io, running, lost, left>>

\* A tool is known for a writer by its name: it is one of a table, or has one of
\* six words in it.
WriteTools == {{"filesystem", "move", "file"}, {"move", "file"}, {"rename", "file"},
               {"copy", "file"}, {"apply", "patch"}}

IsWriteOperation(tool) ==
  \/ tool \in WriteTools
  \/ tool \cap {"write", "edit", "create", "delete", "replace", "modify"} # {}

PreTool(c, tool, targets) ==
  IF IsWriteOperation(tool) THEN Authorize(c, "tool", targets) ELSE LetThrough(c, targets)

\* The authority class and the place of every target, against the declared ones.
MayWrite(path, declared) ==
  /\ ClassOf[path] \in {"operator_locked", "governed_mutable"} => Approved
  /\ ClassOf[path] # "manifest_unavailable"
  /\ ClassOf[path] = "generated_read_only" => Projector
  /\ path \in Inside \cup Runtime
  /\ path \in Inside => path \in declared

CheckScope(c) ==
  /\ at[c] = "scope"
  /\ IF Readable(scope)
     THEN /\ End(c)
          /\ grant' = [grant EXCEPT ![c] =
               IF /\ scope.declared # {} /\ @.targets # {}
                  /\ \A p \in @.targets : MayWrite(p, scope.declared)
               THEN @ ELSE NoGrant]
     ELSE /\ grant' = [grant EXCEPT ![c] = NoGrant]
          /\ Plan(c, "scope", [declared |-> {}], FALSE, "idle")
  /\ UNCHANGED <<boot, scope, journal, running, lost, left>>

\* handle_before_shell: a forbidden command, and a writer whose targets are not
\* certain, are refused at once; the paths of the other writers are taken to
\* handle_pre_tool (each with a reading of its own, which are one here); any other
\* command is let through.
ShellTargets(command) ==
  IF command.form \in {"redirection", "writer"} THEN command.paths ELSE {}

BeforeShell(c, command) ==
  \/ ShellTargets(command) # {} /\ Authorize(c, "shell", ShellTargets(command))
  \/ command.form = "unlisted" /\ LetThrough(c, command.paths)

-----------------------------------------------------------------------------
(* The hooks after a tool and at the end of a turn: both load the scope file  *)
(* (a file they cannot read is replaced by an empty one), note in their copy   *)
(* what they saw, and write the copy back.                                      *)

Loaded(file) == IF Readable(file) THEN file ELSE [declared |-> {}]

PostTool(c) ==
  /\ Working(c) /\ Called(c, 0)
  /\ Plan(c, "scope", Loaded(scope), FALSE, "idle")
  /\ grant' = [grant EXCEPT ![c] = NoGrant]
  /\ UNCHANGED <<boot, scope, journal, running, lost>>

Stop(c) ==
  /\ Working(c) /\ Called(c, 0)
  /\ Plan(c, "scope", Loaded(scope), FALSE, "handoff")
  /\ grant' = [grant EXCEPT ![c] = NoGrant]
  /\ UNCHANGED <<boot, scope, journal, running, lost>>

\* The gate is disarmed only when both the handoff event and the handoff worked.
Handoff(c) ==
  /\ at[c] = "handoff"
  /\ running' = [running EXCEPT ![c] = NoTurn]
  /\ \/ Readable(boot) /\ Plan(c, "boot", Disarmed(boot), FALSE, "idle")
     \/ End(c)
  /\ UNCHANGED <<boot, scope, journal, grant, lost, left>>

\* The agent of a turn declares the files it means to write.
Declare(c, paths) ==
  /\ Working(c) /\ Called(c, 0)
  /\ Plan(c, "scope", [declared |-> paths], FALSE, "idle")
  /\ UNCHANGED <<boot, scope, journal, running, grant, lost>>

\* A hook that Cursor ends after its 90 seconds leaves the files as they are.
Killed(c) ==
  /\ at[c] # "idle" /\ left.kills > 0
  /\ left' = [left EXCEPT !.kills = @ - 1]
  /\ grant' = [grant EXCEPT ![c] = NoGrant]
  /\ End(c)
  /\ UNCHANGED <<boot, scope, journal, running, lost>>

-----------------------------------------------------------------------------
\* hook_dispatcher: one hook for one event.  Without a root, or with input that
\* is no JSON, a hook changes nothing and lets no prompt and no write through.
Dispatch(c) ==
  \E payload \in {w \in Payloads : HasRoot(w)} :
  \/ StartSession(c)
  \/ \E p \in MaySubmit[c] : Submit(c, p)
  \/ \E tool \in Tools, targets \in SUBSET Paths : PreTool(c, tool, targets)
  \/ \E command \in Commands : BeforeShell(c, command)
  \/ PostTool(c) \/ Stop(c)
  \/ \E paths \in SUBSET Paths : Declare(c, paths)

Proceed(c) ==
  \/ Truncate(c) \/ WriteOut(c)
  \/ MarkStarted(c)
  \/ Disarm(c) \/ Load(c) \/ Reopened(c) \/ AppendPrompt(c) \/ Arm(c) \/ Continue(c)
  \/ CheckScope(c) \/ Handoff(c)
  \/ Killed(c)

Next == \E c \in Conversations : Dispatch(c) \/ Proceed(c)

Spec == Init /\ [][Next]_vars

-----------------------------------------------------------------------------
Granted(c) == grant[c] # NoGrant /\ at[c] # "scope"

(* A prompt is on the model's desk only when the journal holds it, and a     *)
(* write that the tables know for one is let through only under a prompt the *)
(* journal holds, for a call that names its conversation under one of that   *)
(* conversation's own prompts: append_prompt comes before the file is armed, *)
(* and no reader of the file can be handed a capture nobody made, whatever   *)
(* the hooks overwrite.                                                      *)
CapturedBeforeTools ==
  /\ \A c \in Conversations : running[c] \in Prompts => Known(c, running[c])
  /\ \A c \in Conversations : Granted(c) /\ grant[c].via # "unasked" =>
       /\ grant[c].capture # NoCapture
       /\ Known(grant[c].capture.conversation, grant[c].capture.prompt)
       /\ grant[c].via = "tool" => grant[c].capture.conversation = c

(* As long as no session start has written back a copy of the file that was  *)
(* out of date, a call that names its conversation is let through only under *)
(* the very prompt the agent is working on: each prompt disarms the gate     *)
(* before anything else (hooks.py:443).                                      *)
OwnTurnOnly ==
  \A c \in Conversations :
    (Granted(c) /\ grant[c].via = "tool" /\ ~lost) => grant[c].capture.prompt = running[c]

(* "A previous turn must never authorize tools for this prompt"              *)
(* (hooks.py:443), whatever the other conversations' hooks write.  The code  *)
(* does not keep it (README, section 5), nor the two that follow.            *)
NoPreviousTurn ==
  \A c \in Conversations :
    (Granted(c) /\ grant[c].via = "tool") => grant[c].capture.prompt = running[c]

(* "Read-only tool calls remain available when the mutation classifier        *)
(* proves they cannot change state" (hooks.py:660): a call that changes state *)
(* is let through under a capture, whatever it is called.                     *)
WritesAreCaptured == \A c \in Conversations : Granted(c) => grant[c].capture # NoCapture

(* "mutating or ambiguous shell commands fail closed until durable prompt    *)
(* capture is proven for the current [...] conversation"                     *)
(* (ide-profiles/claude-code/GLOBAL_RULES.md:37).                            *)
ShellOfOwnConversation ==
  \A c \in Conversations :
    (Granted(c) /\ grant[c].via = "shell") => grant[c].capture.conversation = c

=============================================================================

-------------------------- MODULE SerenaMaintenance --------------------------
(***************************************************************************)
(* The maintenance command (scripts/agentcore_cursor/serena_maintenance.py) *)
(* that repairs Serena's registry and two project configurations as one    *)
(* operation, and installs Cursor's foundation rule.  It copies what it is *)
(* about to change, replaces file after file, validates the result, and    *)
(* puts the copies back if anything fails.  Any access to a file may fail, *)
(* the command may be killed anywhere, and Serena writes its registry      *)
(* whenever it likes.  One command runs at a time; a dry run, and a command *)
(* line without the capability and an approval, change nothing.            *)
(***************************************************************************)
EXTENDS Naturals, Sequences

CONSTANTS
  Disks,       \* what the files may hold at first: functions from Files
  Generated,   \* the rule the repository has: a rule, or Missing
  MaxSeconds,  \* bound on the clock, whose seconds name the directories of copies
  MaxFaults,   \* bound: how many accesses fail and how many commands are killed
  MaxSaves,    \* bound: how often Serena writes its registry
  Missing,     \* no file
  Torn         \* a copy that was cut short

ASSUME BoundsAssumption == MaxSeconds \in Nat /\ MaxFaults \in Nat /\ MaxSaves \in Nat

VARIABLES
  file,      \* the content of every target
  second,    \* when the latest command named its directory
  copies,    \* the rollback copies: [op, second, of, content]
  dirs,      \* the directories they are in: <<op, second>>
  op, stage, \* the command that runs or has run last, and where it is
  todo,      \* the targets it has still to write, or to restore
  wanted,    \* what it wants them to hold
  before,    \* what they held when it read them
  outcome,   \* how it has ended
  touched,   \* history: what Serena has written since the command read it
  replaced,  \* history: <<target, content>> that commands have overwritten
  torn,      \* history: a copy of the rule has been cut short
  faults, saves

trouble == <<torn, faults>>
commandVars == <<file, second, copies, dirs, op, stage, todo, wanted, before, outcome, touched,
                 replaced, trouble, saves>>

Repair == <<"registry", "agentcore", "swarm">>
Install == <<"rule">>
Files == {"registry", "agentcore", "swarm", "rule"}
ASSUME DisksAssumption == \A d \in Disks : d = [t \in Files |-> d[t]]
TargetsOf(o) == IF o = "repair" THEN Repair ELSE Install
Targets(o) == {TargetsOf(o)[n] : n \in DOMAIN TargetsOf(o)}

(****************************** the contents *******************************)
\* A registry: which projects it lists, whether that is a list under a key of
\* its own, and Serena's other settings.  A configuration: how its languages
\* are written, which they are, whether it has a name, and whether the rest of
\* it is sound.  A rule: whether it is the current one.  Everything is read
\* with any line ends and written with one kind.
Lf(content) == IF content \in {Missing, Torn} THEN content ELSE [content EXCEPT !.eol = "lf"]

Template == [languages |-> "list", right |-> TRUE, named |-> TRUE, sound |-> TRUE, eol |-> "lf"]

\* _replace_global_projects: only a list is found.
CanReplaceProjects(c) == c.list
ReplaceGlobalProjects(c) == [c EXCEPT !.projects = "both", !.eol = "lf"]

\* _replace_project_languages finds a list, or the key that came before it; of
\* the two it replaces the first and leaves the other, and what it inserts
\* beside a list in one line is not what counts.
CanReplaceLanguages(c) == c.languages \in {"list", "legacy", "both"} \/ c.named
ReplaceProjectLanguages(c) ==
  [c EXCEPT !.languages = IF @ \in {"legacy", "none"} THEN "list" ELSE @,
            !.right = (c.languages = "line" => @),
            !.eol = "lf"]

ValidRegistry(c) == c.projects = "both" /\ c.sound
ValidConfig(c) == c.languages \in {"list", "line"} /\ c.named /\ c.sound
ValidRule(c) == c.current
Valid(t, c) ==
  /\ c \notin {Missing, Torn}
  /\ CASE t = "registry" -> ValidRegistry(c)
       [] t = "rule"     -> ValidRule(c)
       [] OTHER          -> ValidConfig(c)

\* What a command makes of the files, if it can.
Computable(o) ==
  IF o = "repair"
    THEN /\ file["registry"] # Missing /\ CanReplaceProjects(file["registry"])
         /\ file["agentcore"] # Missing /\ CanReplaceLanguages(file["agentcore"])
         /\ file["swarm"] # Missing => CanReplaceLanguages(file["swarm"])
    ELSE Generated # Missing

Wanted(o) ==
  IF o = "repair"
    THEN [registry  |-> ReplaceGlobalProjects(file["registry"]),
          agentcore |-> ReplaceProjectLanguages(file["agentcore"]),
          swarm     |-> IF file["swarm"] = Missing THEN Template
                        ELSE ReplaceProjectLanguages(file["swarm"])]
    ELSE [rule |-> Generated]

(******************************* a command *********************************)
CommandInit ==
  /\ file \in Disks
  /\ second = 0 /\ faults = 0 /\ saves = 0
  /\ copies = {} /\ dirs = {}
  /\ op = "repair" /\ stage = "idle" /\ todo = <<>>
  /\ wanted = <<>> /\ before = file
  /\ outcome = "none"
  /\ touched = {} /\ replaced = {} /\ torn = FALSE

End(how) == stage' = "idle" /\ outcome' = how /\ todo' = <<>>
Goto(where, targets) == stage' = where /\ todo' = targets /\ UNCHANGED outcome
Fails == faults < MaxFaults /\ faults' = faults + 1
Here == <<op, second>>

\* The command reads its targets and works out what they should be.
BeginCommand(o) ==
  /\ stage = "idle"
  /\ op' = o
  /\ second' \in second..MaxSeconds
  /\ before' = file
  /\ touched' = {}
  /\ IF Computable(o)
       THEN /\ wanted' = Wanted(o) /\ outcome' = "running"
            /\ stage' = "copy" /\ todo' = TargetsOf(o)
       ELSE UNCHANGED wanted /\ End("error")
  /\ UNCHANGED <<file, copies, dirs, replaced, trouble, saves>>

CopyOf(t) == [op |-> op, second |-> second, of |-> t, content |-> file[t]]
Present == {t \in Targets(op) : file[t] # Missing}

\* Faulty variant: the directory of an earlier command is used again.
AnyDirectory == TRUE
NewDirectory == Here \notin dirs

\* The directory is named for the second, and must be new; every target that
\* exists is copied into it.
PrepareBackup ==
  /\ stage = "copy"
  /\ NewDirectory
  /\ dirs' = dirs \cup {Here}
  /\ copies' = {c \in copies : <<c.op, c.second>> # Here} \cup {CopyOf(t) : t \in Present}
  /\ Goto("write", TargetsOf(op))
  /\ UNCHANGED <<file, second, op, wanted, before, touched, replaced, trouble, saves>>

NoBackup ==
  /\ stage = "copy"
  /\ ~NewDirectory
  /\ End("error")
  /\ UNCHANGED <<file, second, copies, dirs, op, wanted, before, touched, replaced, trouble, saves>>

\* A copy fails.  repair has not entered its try block yet; install_cursor_rule
\* has, and takes whatever is there for the copy.
CopyFails ==
  /\ stage = "copy" /\ NewDirectory /\ Present # {}
  /\ Fails
  /\ dirs' = dirs \cup {Here}
  /\ IF op = "repair"
       THEN End("error") /\ UNCHANGED <<copies, torn>>
       ELSE /\ Goto("restore", TargetsOf(op))
            /\ \/ UNCHANGED <<copies, torn>>
               \/ torn' = TRUE /\ copies' = copies \cup {[CopyOf("rule") EXCEPT !.content = Torn]}
  /\ UNCHANGED <<file, second, op, wanted, before, touched, replaced, saves>>

\* _atomic_write of one target after the other.
WriteTarget ==
  /\ stage = "write" /\ todo # <<>>
  /\ LET t == Head(todo) IN
     \/ /\ file' = [file EXCEPT ![t] = wanted[t]]
        /\ replaced' = IF file[t] = Missing \/ t \in touched THEN replaced
                       ELSE replaced \cup {<<t, file[t]>>}
        /\ Goto("write", Tail(todo))
        /\ UNCHANGED faults
     \/ Fails /\ Goto("restore", TargetsOf(op)) /\ UNCHANGED <<file, replaced>>
  /\ UNCHANGED <<second, copies, dirs, op, wanted, before, touched, torn, saves>>

AllAreValid == \A t \in Targets(op) : Valid(t, file[t])

\* What the files hold now is validated, and the manifest is written.
Validate ==
  /\ stage = "write" /\ todo = <<>>
  /\ \/ AllAreValid /\ End("ok") /\ UNCHANGED faults
     \/ ~AllAreValid /\ Goto("restore", TargetsOf(op)) /\ UNCHANGED faults
     \/ AllAreValid /\ Fails /\ Goto("restore", TargetsOf(op))
  /\ UNCHANGED <<file, second, copies, dirs, op, wanted, before, touched, replaced, torn, saves>>

CopiesOf(t) == {c \in copies : <<c.op, c.second>> = Here /\ c.of = t}

\* Faulty variant: what the command has created stays.
KeepCreated(t) == file[t]
\* A target that did not exist is removed again.
RemoveCreated(t) == IF before[t] = Missing THEN Missing ELSE file[t]

\* _restore, target after target; the copies are read and written as text.
Restore ==
  /\ stage = "restore"
  /\ \/ /\ todo # <<>>
        /\ LET t == Head(todo) IN
           /\ file' = [file EXCEPT ![t] = IF CopiesOf(t) = {} THEN RemoveCreated(t)
                                          ELSE Lf((CHOOSE c \in CopiesOf(t) : TRUE).content)]
           /\ replaced' = IF file[t] = Missing \/ t \in touched \/ file[t] # before[t]
                          THEN replaced ELSE replaced \cup {<<t, file[t]>>}
        /\ Goto("restore", Tail(todo))
        /\ UNCHANGED faults
     \/ todo # <<>> /\ Fails /\ End("not restored") /\ UNCHANGED <<file, replaced>>
     \/ todo = <<>> /\ End("error") /\ UNCHANGED <<file, replaced, faults>>
  /\ UNCHANGED <<second, copies, dirs, op, wanted, before, touched, torn, saves>>

Killed ==
  /\ stage # "idle"
  /\ Fails
  /\ End("killed")
  /\ UNCHANGED <<file, second, copies, dirs, op, wanted, before, touched, replaced, torn, saves>>

\* Serena saves its registry, for instance with a project it has been given.
SerenaSaves ==
  /\ saves < MaxSaves /\ saves' = saves + 1
  /\ file["registry"] # Missing
  /\ file' = [file EXCEPT !["registry"] =
                 [projects |-> "more", list |-> TRUE, sound |-> TRUE, eol |-> "crlf"]]
  /\ touched' = touched \cup {"registry"}
  /\ UNCHANGED <<second, copies, dirs, op, stage, todo, wanted, before, outcome, replaced, trouble>>

CommandNext ==
  \/ \E o \in {"repair", "install"} : BeginCommand(o)
  \/ PrepareBackup \/ NoBackup \/ CopyFails \/ WriteTarget \/ Validate \/ Restore
  \/ Killed
  \/ SerenaSaves

CommandSpec == CommandInit /\ [][CommandNext]_commandVars

-----------------------------------------------------------------------------

\* A command that comes to its end, and whose restoring does not fail as well,
\* has changed all of its targets into what it wanted, and they are valid, or
\* has left them all as they were but for their line ends; only what Serena
\* has written meanwhile is not its own.  A copy of the rule that was cut
\* short is taken for the rule.
AllOrNothing ==
  \A t \in Targets(op) \ touched :
    /\ outcome = "ok" => file[t] = wanted[t] /\ Valid(t, file[t])
    /\ outcome = "error" /\ ~(t = "rule" /\ torn) => Lf(file[t]) = Lf(before[t])

\* Whatever fails and whenever a command is killed, also again and again: what
\* a command has overwritten is in its place again, or in a copy that no later
\* command has touched; a rule whose copy was cut short excepted.
OriginalsSurvive ==
  \A r \in replaced :
    \/ r[1] = "rule" /\ torn
    \/ Lf(file[r[1]]) = Lf(r[2])
    \/ \E c \in copies : c.of = r[1] /\ c.content = r[2]

=============================================================================

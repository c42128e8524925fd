-------------------------- MODULE PromptGateProofs --------------------------
(***************************************************************************)
(* Proofs that the gate in front of an agent's tools holds, for any number *)
(* of conversations on a workspace, whatever is submitted, called, killed  *)
(* and written over, and in whichever order the hooks' statements come.    *)
(***************************************************************************)
EXTENDS PromptGate, TLAPS

(***************************************************************************)
(* The inductive invariant.                                                *)
(***************************************************************************)

Writing(c) == at[c] \in {"truncate", "write"}

\* Where the hook of c is, or goes on when its file is written.
Toward(c) == IF Writing(c) THEN io[c].then ELSE at[c]

\* The hook of c has a prompt and has not disarmed the gate yet; or it has.
StillArmed(c) == Toward(c) \in {"disarm", "load"} /\ at[c] # "load"
Submits(c) == at[c] = "load" \/ Toward(c) \in {"reopened", "append", "arm", "continue"}

\* The prompt that the agent works on or its hook is about to hand to it.
Turn(c) == IF Submits(c) THEN io[c].prompt ELSE running[c]

\* A file is held only to be written; the marker of a session start is a copy
\* of the bootstrap file; what disarms holds no capture.
HoldsItsFile(c) ==
  /\ io[c].file = "none" <=> ~Writing(c)
  /\ io[c].file = "boot" => io[c].blob \in BootFile
  /\ io[c].file = "scope" => io[c].blob \in ScopeFile
  /\ io[c].marks => io[c].file = "boot"
  /\ Toward(c) \in {"append", "arm", "reopened"} => io[c].blob \in BootFile
  /\ StillArmed(c) /\ Writing(c) => io[c].file = "boot" /\ io[c].blob.capture = NoCapture

\* What is handed on is in the journal first.
HandsOnWhatIsKnown(c) ==
  /\ Toward(c) \in {"append", "arm"} => io[c].prompt \in Prompts
  /\ Toward(c) = "arm" => Known(c, io[c].prompt)
  /\ Toward(c) = "continue" => io[c].prompt = NoPrompt \/ Known(c, io[c].prompt)
  /\ running[c] \in Prompts => Known(c, running[c])
  /\ grant[c] # NoGrant /\ grant[c].via # "unasked" =>
       /\ grant[c].capture # NoCapture
       /\ Known(grant[c].capture.conversation, grant[c].capture.prompt)
       /\ grant[c].via = "tool" => grant[c].capture.conversation = c

\* Only a session start writes the capture of another conversation, and only
\* into a file that has been there.
WritesItsOwn(c) ==
  io[c].file = "boot" /\ io[c].blob.capture # NoCapture =>
    /\ boot # Absent
    /\ io[c].marks \/ io[c].blob.capture.conversation = c

\* Between two turns nothing is let through.
KeepsToItsTurn(c) ==
  /\ StillArmed(c) \/ Submits(c) => running[c] = NoTurn /\ grant[c] = NoGrant
  /\ Toward(c) = "handoff" => grant[c] = NoGrant
  /\ ~lost /\ grant[c] # NoGrant /\ grant[c].via = "tool" =>
       grant[c].capture.prompt = running[c]

HookHolds(c) ==
  HoldsItsFile(c) /\ HandsOnWhatIsKnown(c) /\ WritesItsOwn(c) /\ KeepsToItsTurn(c)

\* The captures in the bootstrap file, and in the copies that are being written.
Pending(c, k) == io[c].file = "boot" /\ io[c].blob.capture = k
InCopy(k) ==
  k # NoCapture /\ (\/ boot \in BootFile /\ boot.capture = k
                    \/ \E c \in Conversations : Pending(c, k))

CapturesKnown == \A k \in Capture : InCopy(k) => Known(k.conversation, k.prompt)

\* Until a session start has put back an old copy, a capture is of the turn its
\* conversation is in, unless that is about to be disarmed.
CapturesOfTurn ==
  ~lost => \A k \in Capture : InCopy(k) =>
             StillArmed(k.conversation) \/ Turn(k.conversation) \in {NoTurn, k.prompt}

GateInv ==
  /\ TypeOK
  /\ \A c \in Conversations : HookHolds(c)
  /\ CapturesKnown
  /\ CapturesOfTurn

----------------------------------------------------------------------------
(* What every step has in common.                                          *)

\* A step of the hook of c leaves the other conversations alone.
Alone(c) ==
  /\ \A d \in Conversations : d # c =>
       /\ at'[d] = at[d] /\ io'[d] = io[d]
       /\ running'[d] = running[d] /\ grant'[d] = grant[d]
  /\ journal \subseteq journal'
  /\ lost => lost'
  /\ boot' = Absent => boot = Absent

\* The captures are fewer, or the same.
NoNewCapture == \A k \in Capture : InCopy(k)' => InCopy(k)

\* The turn of c is as before, or there is none, or no capture of c is left.
TurnKept(c) ==
  \/ StillArmed(c)' \/ Turn(c)' = NoTurn
  \/ ~StillArmed(c) /\ Turn(c)' = Turn(c)
  \/ ~lost' => \A k \in Capture : InCopy(k)' => k.conversation # c

\* What holds of a hook, holds of it after a step of another one.
LEMMA OthersKeep ==
  ASSUME NEW c \in Conversations, Alone(c), NEW d \in Conversations, d # c, HookHolds(d)
  PROVE  HookHolds(d)'
<1>1. /\ at'[d] = at[d] /\ io'[d] = io[d] /\ running'[d] = running[d] /\ grant'[d] = grant[d]
      /\ lost => lost'
      /\ boot' = Absent => boot = Absent
  BY DEF Alone
<1>2. \A x, p : Known(x, p) => Known(x, p)'
  BY DEF Alone, Known, Holds
<1>3. /\ Toward(d)' = Toward(d) /\ Writing(d)' = Writing(d)
      /\ StillArmed(d)' = StillArmed(d) /\ Submits(d)' = Submits(d)
  BY <1>1 DEF Toward, Writing, StillArmed, Submits
<1>4. HoldsItsFile(d)' /\ WritesItsOwn(d)'
  BY <1>1, <1>3 DEF HookHolds, HoldsItsFile, WritesItsOwn
<1>5. HandsOnWhatIsKnown(d)'
  BY <1>1, <1>2, <1>3 DEF HookHolds, HandsOnWhatIsKnown
<1>6. KeepsToItsTurn(d)'
  BY <1>1, <1>3 DEF HookHolds, KeepsToItsTurn
<1> QED BY <1>4, <1>5, <1>6 DEF HookHolds

\* If the step of one hook adds no capture, what all hooks share is kept.
LEMMA SharedKeep ==
  ASSUME GateInv, NEW c \in Conversations, Alone(c), TypeOK', HookHolds(c)', NoNewCapture,
         TurnKept(c)
  PROVE  GateInv'
<1>1. \A d \in Conversations : HookHolds(d)'
  BY OthersKeep DEF GateInv
<1>2. CapturesKnown'
  BY DEF GateInv, CapturesKnown, NoNewCapture, Alone, Known, Holds
<1>3. CapturesOfTurn'
  <2> SUFFICES ASSUME ~lost', NEW k \in Capture, InCopy(k)'
               PROVE  StillArmed(k.conversation)' \/ Turn(k.conversation)' \in {NoTurn, k.prompt}
    BY DEF CapturesOfTurn
  <2> DEFINE d == k.conversation
  <2>1. d \in Conversations
    BY DEF Capture
  <2>2. StillArmed(d) \/ Turn(d) \in {NoTurn, k.prompt}
    BY DEF GateInv, CapturesOfTurn, NoNewCapture, Alone
  <2> HIDE DEF d
  <2>3. CASE d = c
    BY <2>2, <2>3 DEF TurnKept, Alone, d
  <2>4. CASE d # c
    <3>1. StillArmed(d)' = StillArmed(d) /\ Turn(d)' = Turn(d)
      BY <2>1, <2>4 DEF Alone, StillArmed, Submits, Turn, Toward, Writing
    <3> QED BY <2>2, <3>1 DEF d
  <2> QED BY <2>3, <2>4
<1> QED BY <1>1, <1>2, <1>3 DEF GateInv

\* A statement that writes no file.
LEMMA Goes ==
  ASSUME TypeOK, NEW c \in Conversations, NEW label \in Statement,
         NEW blob \in BootFile \cup ScopeFile \cup {Absent}, Goto(c, label, blob)
  PROVE  /\ at' \in [Conversations -> Place] /\ io' \in [Conversations -> Work]
         /\ \A d \in Conversations : d # c => at'[d] = at[d] /\ io'[d] = io[d]
         /\ at'[c] = label /\ io'[c].file = "none" /\ ~io'[c].marks
         /\ label # "idle" => io'[c].prompt = io[c].prompt /\ io'[c].blob = blob
         /\ ~Writing(c)' /\ Toward(c)' = label
<1> DEFINE w == IF label = "idle" THEN Idle
                ELSE [Idle EXCEPT !.prompt = io[c].prompt, !.blob = blob]
<1>1. io[c].prompt \in Prompts \cup {NoPrompt}
  BY DEF TypeOK, Work
<1>2. /\ w \in Work /\ w.file = "none" /\ ~w.marks
      /\ label # "idle" => w.prompt = io[c].prompt /\ w.blob = blob
  BY <1>1 DEF Idle, Work, Statement
<1>3. io' = [io EXCEPT ![c] = w] /\ at' = [at EXCEPT ![c] = label]
  BY DEF Goto
<1> HIDE DEF w
<1>4. /\ at' \in [Conversations -> Place] /\ io' \in [Conversations -> Work]
      /\ \A d \in Conversations : d # c => at'[d] = at[d] /\ io'[d] = io[d]
      /\ at'[c] = label /\ io'[c] = w
  BY <1>2, <1>3 DEF TypeOK, Place
<1> QED BY <1>2, <1>4 DEF Writing, Toward, Statement

\* A statement that is about to write a file.
LEMMA Plans ==
  ASSUME TypeOK, NEW c \in Conversations, NEW file \in {"boot", "scope"},
         NEW blob \in BootFile \cup ScopeFile, NEW marks \in BOOLEAN, NEW then \in Statement,
         Plan(c, file, blob, marks, then)
  PROVE  /\ at' \in [Conversations -> Place] /\ io' \in [Conversations -> Work]
         /\ \A d \in Conversations : d # c => at'[d] = at[d] /\ io'[d] = io[d]
         /\ at'[c] = "truncate" /\ io'[c].prompt = io[c].prompt
         /\ io'[c].file = file /\ io'[c].blob = blob /\ io'[c].marks = marks
         /\ Writing(c)' /\ Toward(c)' = then
<1> DEFINE w == [prompt |-> io[c].prompt, file |-> file, blob |-> blob, marks |-> marks,
                 then |-> then]
<1>1. w \in Work
  BY DEF TypeOK, Work
<1>2. io' = [io EXCEPT ![c] = w] /\ at' = [at EXCEPT ![c] = "truncate"]
  BY DEF Plan
<1>3. w.prompt = io[c].prompt /\ w.file = file /\ w.blob = blob /\ w.marks = marks
      /\ w.then = then
  OBVIOUS
<1> HIDE DEF w
<1>4. /\ at' \in [Conversations -> Place] /\ io' \in [Conversations -> Work]
      /\ \A d \in Conversations : d # c => at'[d] = at[d] /\ io'[d] = io[d]
      /\ at'[c] = "truncate" /\ io'[c] = w
  BY <1>1, <1>2 DEF TypeOK, Place
<1> QED BY <1>3, <1>4 DEF Writing, Toward

\* A statement that writes no file keeps the invariant, if it knows what it hands on.
LEMMA GoKeeps ==
  ASSUME GateInv, NEW c \in Conversations, NEW label \in Statement,
         NEW blob \in BootFile \cup ScopeFile \cup {Absent}, Goto(c, label, blob),
         label \in {"append", "arm", "reopened"} => blob \in BootFile,
         boot' = boot, Alone(c), TypeOK', HandsOnWhatIsKnown(c)', KeepsToItsTurn(c)', TurnKept(c)
  PROVE  GateInv'
<1>1. /\ io'[c].file = "none" /\ ~io'[c].marks /\ ~Writing(c)' /\ Toward(c)' = label
      /\ label # "idle" => io'[c].blob = blob
  BY Goes DEF GateInv
<1>2. HoldsItsFile(c)' /\ WritesItsOwn(c)'
  BY <1>1 DEF HoldsItsFile, WritesItsOwn, StillArmed
<1>3. NoNewCapture
  BY <1>1 DEF NoNewCapture, InCopy, Pending, Alone
<1> QED BY <1>2, <1>3, SharedKeep DEF HookHolds

\* A statement that is about to write a file without a capture, likewise.
LEMMA PlanKeeps ==
  ASSUME GateInv, NEW c \in Conversations, NEW file \in {"boot", "scope"},
         NEW blob \in BootFile \cup ScopeFile, NEW then \in Statement,
         Plan(c, file, blob, FALSE, then),
         \/ file = "boot" /\ blob \in BootFile /\ blob.capture = NoCapture
         \/ file = "scope" /\ blob \in ScopeFile /\ then \in {"idle", "handoff"},
         then \notin {"append", "arm", "disarm"},
         boot' = boot, Alone(c), TypeOK', HandsOnWhatIsKnown(c)', KeepsToItsTurn(c)', TurnKept(c)
  PROVE  GateInv'
<1>0. TypeOK /\ FALSE \in BOOLEAN
  BY DEF GateInv
<1>1. /\ io'[c].file = file /\ ~io'[c].marks /\ io'[c].blob = blob
      /\ Writing(c)' /\ Toward(c)' = then /\ at'[c] = "truncate"
  BY <1>0 DEF TypeOK, Plan, Writing, Toward
<1>2. HoldsItsFile(c)' /\ WritesItsOwn(c)'
  BY <1>1 DEF HoldsItsFile, WritesItsOwn, StillArmed
<1>3. NoNewCapture
  BY <1>1 DEF NoNewCapture, InCopy, Pending, Alone
<1> QED BY <1>2, <1>3, SharedKeep DEF HookHolds
\* Between two events: nothing is handed on any more.
Ends(c) ==
  /\ \/ UNCHANGED <<running, grant>>
     \/ running' = running /\ grant' = [grant EXCEPT ![c] = NoGrant]
     \/ running' = [running EXCEPT ![c] = NoTurn] /\ grant' = grant /\ grant[c] = NoGrant
  /\ UNCHANGED <<boot, scope, lost>>
  /\ journal \subseteq journal' /\ journal' \subseteq Capture /\ left' \in Budget

LEMMA EndingKeeps ==
  ASSUME GateInv, NEW c \in Conversations, Ends(c),
         \A d \in Conversations : d # c => at'[d] = at[d] /\ io'[d] = io[d],
         Toward(c)' \in {"idle", "mark", "handoff"}, at'[c] # "load",
         Toward(c)' = "handoff" => grant'[c] = NoGrant
  PROVE  /\ Alone(c) /\ TurnKept(c) /\ HandsOnWhatIsKnown(c)' /\ KeepsToItsTurn(c)'
         /\ running' \in [Conversations -> Prompts \cup {NoPrompt, NoTurn}]
         /\ grant' \in [Conversations -> Grant \cup {NoGrant}]
<1> USE DEF GateInv
<1>1. /\ running \in [Conversations -> Prompts \cup {NoPrompt, NoTurn}]
      /\ grant \in [Conversations -> Grant \cup {NoGrant}]
  BY DEF TypeOK
<1>2. /\ \A d \in Conversations : d # c => running'[d] = running[d] /\ grant'[d] = grant[d]
      /\ running'[c] = running[c] \/ (running'[c] = NoTurn /\ grant'[c] = NoGrant)
      /\ grant'[c] = grant[c] \/ grant'[c] = NoGrant
      /\ running' \in [Conversations -> Prompts \cup {NoPrompt, NoTurn}]
      /\ grant' \in [Conversations -> Grant \cup {NoGrant}]
  BY <1>1 DEF Ends
<1>3. journal \subseteq journal' /\ boot' = boot /\ lost' = lost
  BY DEF Ends
<1>4. Alone(c)
  BY <1>2, <1>3 DEF Alone
<1>5. HookHolds(c)
  OBVIOUS
<1>6. ~StillArmed(c)' /\ ~Submits(c)'
  BY DEF StillArmed, Submits
<1>7. Turn(c)' = running'[c]
  BY <1>6 DEF Turn
<1>8. TurnKept(c)
  <2>1. CASE StillArmed(c) \/ Submits(c)
    BY <1>2, <1>5, <1>7, <2>1 DEF HookHolds, KeepsToItsTurn, TurnKept
  <2>2. CASE ~StillArmed(c) /\ ~Submits(c)
    BY <1>2, <1>7, <2>2 DEF Turn, TurnKept
  <2> QED BY <2>1, <2>2
<1>9. HandsOnWhatIsKnown(c)'
  <2>1. \A x, q : Known(x, q) => Known(x, q)'
    BY <1>3 DEF Known, Holds
  <2>2. running'[c] \in Prompts => running'[c] = running[c]
    BY <1>2, GateAssumption
  <2>3. grant'[c] # NoGrant => grant'[c] = grant[c]
    BY <1>2
  <2> QED BY <1>5, <2>1, <2>2, <2>3 DEF HookHolds, HandsOnWhatIsKnown
<1>10. KeepsToItsTurn(c)'
  BY <1>2, <1>3, <1>5, <1>6 DEF HookHolds, KeepsToItsTurn
<1> QED BY <1>2, <1>4, <1>8, <1>9, <1>10

\* A hook that ends, and one that is about to write what no one is waiting for.
LEMMA EndKeeps ==
  ASSUME GateInv, NEW c \in Conversations, Ends(c), End(c)
  PROVE  GateInv'
<1>1. Goto(c, "idle", Absent) /\ "idle" \in Statement
  BY DEF End, Statement
<1>2. /\ at' \in [Conversations -> Place] /\ io' \in [Conversations -> Work]
      /\ \A d \in Conversations : d # c => at'[d] = at[d] /\ io'[d] = io[d]
      /\ at'[c] = "idle" /\ ~Writing(c)' /\ Toward(c)' = "idle"
  BY <1>1, Goes DEF GateInv
<1>3. /\ Alone(c) /\ TurnKept(c) /\ HandsOnWhatIsKnown(c)' /\ KeepsToItsTurn(c)'
      /\ running' \in [Conversations -> Prompts \cup {NoPrompt, NoTurn}]
      /\ grant' \in [Conversations -> Grant \cup {NoGrant}]
  BY <1>2, EndingKeeps
<1>4. TypeOK'
  BY <1>2, <1>3 DEF GateInv, TypeOK, Ends
<1> QED BY <1>1, <1>3, <1>4, GoKeeps DEF Ends

LEMMA PlanEndsKeeps ==
  ASSUME GateInv, NEW c \in Conversations, Ends(c), NEW file \in {"boot", "scope"},
         NEW blob \in BootFile \cup ScopeFile, NEW then \in {"idle", "mark", "handoff"},
         Plan(c, file, blob, FALSE, then),
         \/ file = "boot" /\ blob \in BootFile /\ blob.capture = NoCapture
         \/ file = "scope" /\ blob \in ScopeFile /\ then \in {"idle", "handoff"},
         then = "handoff" => grant'[c] = NoGrant
  PROVE  GateInv'
<1>1. then \in Statement
  BY DEF Statement
<1>2. PICK marks \in BOOLEAN : marks = FALSE
  OBVIOUS
<1>3. /\ at' \in [Conversations -> Place] /\ io' \in [Conversations -> Work]
      /\ \A d \in Conversations : d # c => at'[d] = at[d] /\ io'[d] = io[d]
      /\ at'[c] = "truncate" /\ Writing(c)' /\ Toward(c)' = then
  <2>1. Plan(c, file, blob, marks, then)
    BY <1>2
  <2>2. TypeOK
    BY DEF GateInv
  <2> QED BY <1>1, <2>1, <2>2, Plans
<1>4. /\ Alone(c) /\ TurnKept(c) /\ HandsOnWhatIsKnown(c)' /\ KeepsToItsTurn(c)'
      /\ running' \in [Conversations -> Prompts \cup {NoPrompt, NoTurn}]
      /\ grant' \in [Conversations -> Grant \cup {NoGrant}]
  BY <1>3, EndingKeeps
<1>5. TypeOK'
  BY <1>3, <1>4 DEF GateInv, TypeOK, Ends
<1> QED BY <1>1, <1>4, <1>5, PlanKeeps DEF Ends

----------------------------------------------------------------------------
(* The statements of a hook.                                               *)

\* open(): the file is empty; who holds an older copy is noted.
LEMMA TruncateStep == ASSUME GateInv, NEW c \in Conversations, Truncate(c) PROVE GateInv'
<1>1. /\ at[c] = "truncate" /\ at' = [at EXCEPT ![c] = "write"]
      /\ boot' \in {boot, Emptied} /\ scope' \in {scope, Emptied}
      /\ UNCHANGED <<journal, io, running, grant, left>>
      /\ lost' = (lost \/ Overlaps(c))
  BY DEF Truncate
<1>2. Emptied \in NoText /\ Emptied # Absent /\ Emptied \notin BootFile /\ lost' \in BOOLEAN
  BY <1>1, FilesAssumption DEF NoText, GateInv, TypeOK, Overlaps
<1>3. at'[c] = "write" /\ \A d \in Conversations : d # c => at'[d] = at[d]
  BY <1>1 DEF GateInv, TypeOK
<1>4. TypeOK'
  BY <1>1, <1>2 DEF GateInv, TypeOK, Place
<1>5. Alone(c)
  BY <1>1, <1>2, <1>3 DEF Alone
<1>6. /\ Toward(c)' = Toward(c) /\ (Writing(c)' <=> Writing(c))
      /\ (StillArmed(c)' <=> StillArmed(c)) /\ (Submits(c)' <=> Submits(c))
  BY <1>1, <1>3 DEF Toward, Writing, StillArmed, Submits
<1>7. HoldsItsFile(c)' /\ HandsOnWhatIsKnown(c)'
  BY <1>1, <1>6 DEF GateInv, HookHolds, HoldsItsFile, HandsOnWhatIsKnown, Known, Holds
<1>8. WritesItsOwn(c)' /\ KeepsToItsTurn(c)'
  BY <1>1, <1>2, <1>6 DEF GateInv, HookHolds, WritesItsOwn, KeepsToItsTurn
<1>9. NoNewCapture
  BY <1>1, <1>2 DEF NoNewCapture, InCopy, Pending
<1>10. TurnKept(c)
  BY <1>1, <1>6 DEF TurnKept, Turn
<1> QED BY <1>4, <1>5, <1>7, <1>8, <1>9, <1>10, SharedKeep DEF HookHolds

\* MarkStarted: a copy of the file is to be written, with whatever capture it has.
LEMMA MarkStartedStep == ASSUME GateInv, NEW c \in Conversations, MarkStarted(c) PROVE GateInv'
<1>1. /\ at[c] = "mark"
      /\ UNCHANGED <<boot, scope, journal, running, grant, lost, left>>
  BY DEF MarkStarted
<1>2. ~Writing(c) /\ Toward(c) = "mark" /\ ~StillArmed(c) /\ ~Submits(c) /\ Turn(c) = running[c]
  BY <1>1 DEF Writing, Toward, StillArmed, Submits, Turn
<1>3. CASE Readable(boot) /\ Plan(c, "boot", [boot EXCEPT !.startup = TRUE], TRUE, "idle")
  <2> DEFINE b == [boot EXCEPT !.startup = TRUE]
  <2>1. boot \in BootFile /\ boot # Absent
    BY <1>3 DEF Readable, GateInv, TypeOK, NoText
  <2>2. b \in BootFile /\ b.capture = boot.capture
    BY <2>1 DEF BootFile
  <2> HIDE DEF b
  <2>3. Plan(c, "boot", b, TRUE, "idle")
    BY <1>3 DEF b
  <2>4. TRUE \in BOOLEAN /\ "idle" \in Statement
    BY DEF Statement
  <2>5. /\ at' \in [Conversations -> Place] /\ io' \in [Conversations -> Work]
        /\ \A d \in Conversations : d # c => at'[d] = at[d] /\ io'[d] = io[d]
        /\ at'[c] = "truncate" /\ io'[c].prompt = io[c].prompt
        /\ io'[c].file = "boot" /\ io'[c].blob = b /\ io'[c].marks = TRUE
        /\ Writing(c)' /\ Toward(c)' = "idle"
    BY <2>2, <2>3, <2>4, Plans DEF GateInv
  <2>6. TypeOK' /\ Alone(c)
    BY <1>1, <2>5 DEF GateInv, TypeOK, Alone
  <2>7. ~StillArmed(c)' /\ ~Submits(c)' /\ Turn(c)' = Turn(c)
    BY <1>1, <1>2, <2>5 DEF StillArmed, Submits, Turn
  <2>8. HoldsItsFile(c)' /\ HandsOnWhatIsKnown(c)'
    BY <1>1, <2>2, <2>5, <2>7
    DEF GateInv, HookHolds, HoldsItsFile, HandsOnWhatIsKnown, Known, Holds
  <2>9. WritesItsOwn(c)' /\ KeepsToItsTurn(c)'
    BY <1>1, <2>1, <2>5, <2>7 DEF GateInv, HookHolds, WritesItsOwn, KeepsToItsTurn
  <2>10. NoNewCapture
    BY <1>1, <2>1, <2>2, <2>5 DEF NoNewCapture, InCopy, Pending
  <2> QED
    BY <1>2, <2>6, <2>7, <2>8, <2>9, <2>10, SharedKeep DEF HookHolds, TurnKept
<1>4. CASE End(c)
  BY <1>1, <1>4, EndKeeps DEF Ends, GateInv, TypeOK
<1> QED BY <1>3, <1>4 DEF MarkStarted

\* The text follows: the file holds what the hook had, or ends of two texts.
LEMMA WriteOutStep == ASSUME GateInv, NEW c \in Conversations, WriteOut(c) PROVE GateInv'
<1> USE DEF GateInv
<1> DEFINE then == io[c].then
           blob == io[c].blob
<1>1. /\ at[c] = "write" /\ Goto(c, then, blob)
      /\ UNCHANGED <<journal, running, grant, left>>
      /\ lost' = (lost \/ Overlaps(c))
  BY DEF WriteOut
<1>2. /\ then \in Statement /\ blob \in BootFile \cup ScopeFile \cup {Absent}
      /\ Toward(c) = then /\ Writing(c) /\ HookHolds(c)
  BY <1>1 DEF TypeOK, Work, Toward, Writing
<1>3. /\ at' \in [Conversations -> Place] /\ io' \in [Conversations -> Work]
      /\ \A d \in Conversations : d # c => at'[d] = at[d] /\ io'[d] = io[d]
      /\ at'[c] = then /\ io'[c].file = "none" /\ ~io'[c].marks
      /\ then # "idle" => io'[c].prompt = io[c].prompt /\ io'[c].blob = blob
      /\ ~Writing(c)' /\ Toward(c)' = then
  BY <1>1, <1>2, Goes
<1> HIDE DEF then, blob
<1>4. lost' \in BOOLEAN /\ Garbled \in NoText /\ Garbled # Absent
  BY <1>1, FilesAssumption DEF TypeOK, NoText, Overlaps
<1>5. \/ io[c].file = "boot" /\ boot' \in {blob, Garbled} /\ scope' = scope
      \/ io[c].file = "scope" /\ scope' \in {blob, Garbled} /\ boot' = boot
  BY DEF WriteOut, Written, blob
<1>6. /\ io[c].file = "boot" => blob \in BootFile
      /\ io[c].file = "scope" => blob \in ScopeFile
  BY <1>2 DEF HookHolds, HoldsItsFile, blob
<1>7. TypeOK'
  BY <1>1, <1>3, <1>4, <1>5, <1>6 DEF TypeOK
<1>8. boot' = Absent => boot = Absent
  BY <1>4, <1>5, <1>6, FilesAssumption DEF NoText
<1>9. Alone(c)
  BY <1>1, <1>3, <1>8 DEF Alone
<1>10. /\ StillArmed(c)' <=> then = "disarm"
       /\ Submits(c)' <=> then \in {"load", "reopened", "append", "arm", "continue"}
       /\ StillArmed(c) <=> then \in {"disarm", "load"}
       /\ Submits(c) <=> then \in {"reopened", "append", "arm", "continue"}
  BY <1>1, <1>2, <1>3 DEF StillArmed, Submits
<1>11. HoldsItsFile(c)'
  <2>1. then \in {"append", "arm", "reopened"} => blob \in BootFile
    BY <1>2 DEF HookHolds, HoldsItsFile, blob
  <2> QED BY <1>3, <2>1 DEF HoldsItsFile
<1>12. HandsOnWhatIsKnown(c)'
  BY <1>1, <1>2, <1>3 DEF HookHolds, HandsOnWhatIsKnown, Known, Holds
<1>13. WritesItsOwn(c)'
  BY <1>3 DEF WritesItsOwn
<1>14. KeepsToItsTurn(c)'
  BY <1>1, <1>2, <1>3, <1>10 DEF HookHolds, KeepsToItsTurn
<1>15. NoNewCapture
  <2> SUFFICES ASSUME NEW k \in Capture, InCopy(k)' PROVE InCopy(k)
    BY DEF NoNewCapture
  <2>1. CASE \E d \in Conversations : Pending(d, k)'
    BY <1>3, <2>1 DEF InCopy, Pending
  <2>2. CASE boot' \in BootFile /\ boot'.capture = k
    <3>1. boot' # Garbled
      BY <1>4, <2>2, FilesAssumption
    <3> QED BY <1>5, <2>2, <3>1 DEF InCopy, Pending, blob
  <2> QED BY <2>1, <2>2 DEF InCopy
<1>16. TurnKept(c)
  <2>1. CASE then # "load"
    <3>1. CASE Submits(c)
      BY <1>3, <1>10, <2>1, <3>1 DEF TurnKept, Turn
    <3>2. CASE ~Submits(c)
      BY <1>1, <1>10, <2>1, <3>2 DEF TurnKept, Turn
    <3> QED BY <3>1, <3>2
  <2>2. CASE then = "load"
    \* what disarms holds no capture; and a copy that holds one of c's, a
    \* session start's, is out of date from now on
    <3>1. io[c].file = "boot" /\ blob.capture = NoCapture
      BY <1>2, <1>10, <2>2 DEF HookHolds, HoldsItsFile, blob
    <3> SUFFICES ASSUME ~lost', NEW k \in Capture, InCopy(k)', k.conversation = c
                 PROVE  FALSE
      BY DEF TurnKept
    <3>2. \A d \in Conversations \ {c} : ~io[d].marks
      BY <1>1, <3>1 DEF Overlaps
    <3>3. k # NoCapture
      BY DEF InCopy
    <3>4. CASE boot' \in BootFile /\ boot'.capture = k
      BY <1>4, <1>5, <3>1, <3>3, <3>4, FilesAssumption
    <3>5. ASSUME NEW d \in Conversations, Pending(d, k)' PROVE FALSE
      <4>1. d # c /\ io[d].file = "boot" /\ io[d].blob.capture = k
        BY <1>3, <3>5 DEF Pending
      <4>2. WritesItsOwn(d)
        BY DEF HookHolds
      <4> QED BY <3>2, <3>3, <4>1, <4>2 DEF WritesItsOwn
    <3> QED BY <3>4, <3>5 DEF InCopy
  <2> QED BY <2>1, <2>2
<1> QED BY <1>7, <1>9, <1>11, <1>12, <1>13, <1>14, <1>15, <1>16, SharedKeep DEF HookHolds

\* What a budget has left.
LEMMA BudgetsShrink ==
  ASSUME TypeOK, NEW c \in Conversations
  PROVE  /\ left.starts[c] > 0 => [left EXCEPT !.starts[c] = @ - 1] \in Budget
         /\ left.turns[c] > 0 => [left EXCEPT !.turns[c] = @ - 1] \in Budget
         /\ left.calls[c] > 0 => [left EXCEPT !.calls[c] = @ - 1, !.uuids = @ - 0] \in Budget
         /\ left.calls[c] > 0 /\ left.uuids > 0 =>
              [left EXCEPT !.calls[c] = @ - 1, !.uuids = @ - 1] \in Budget
         /\ left.kills > 0 => [left EXCEPT !.kills = @ - 1] \in Budget
<1>1. /\ left.starts[c] \in Nat /\ left.turns[c] \in Nat /\ left.calls[c] \in Nat
      /\ left.uuids \in 0..MaxUuids /\ left.kills \in Nat /\ MaxUuids \in Nat
      /\ left \in Budget
  BY GateAssumption DEF TypeOK, Budget
<1>2. left.starts[c] > 0 => [left EXCEPT !.starts[c] = @ - 1] \in Budget
  BY <1>1 DEF Budget
<1>3. left.turns[c] > 0 => [left EXCEPT !.turns[c] = @ - 1] \in Budget
  BY <1>1 DEF Budget
<1> DEFINE Less == [left EXCEPT !.calls[c] = @ - 1]
<1>4. left.calls[c] > 0 => Less \in Budget /\ Less.uuids = left.uuids
  BY <1>1 DEF Budget
<1>5. /\ [left EXCEPT !.calls[c] = @ - 1, !.uuids = @ - 0] = [Less EXCEPT !.uuids = @ - 0]
      /\ [left EXCEPT !.calls[c] = @ - 1, !.uuids = @ - 1] = [Less EXCEPT !.uuids = @ - 1]
  BY <1>1 DEF Budget
<1> HIDE DEF Less
<1>7. /\ left.calls[c] > 0 => [Less EXCEPT !.uuids = @ - 0] \in Budget
      /\ left.calls[c] > 0 /\ left.uuids > 0 => [Less EXCEPT !.uuids = @ - 1] \in Budget
  BY <1>1, <1>4 DEF Budget
<1>6. left.kills > 0 => [left EXCEPT !.kills = @ - 1] \in Budget
  BY <1>1 DEF Budget
<1> QED BY <1>2, <1>3, <1>5, <1>6, <1>7

\* What run_bootstrap writes is a bootstrap file without a capture.
LEMMA Bootstraps ==
  ASSUME NEW c \in Conversations, NEW session \in SessionKey, NEW refused, NEW failed,
         NEW opened, Bootstrap(c, session, refused, failed, opened)
  PROVE  \/ Refused(c, refused)
         \/ \E b \in BootFile : b.capture = NoCapture /\
              (Plan(c, "boot", b, FALSE, failed) \/ Plan(c, "boot", b, FALSE, opened))
<1>1. /\ FailedBlob(session) \in BootFile /\ FailedBlob(session).capture = NoCapture
      /\ \A healthy \in BOOLEAN : /\ OpenedBlob(session, healthy) \in BootFile
                                  /\ OpenedBlob(session, healthy).capture = NoCapture
  BY DEF FailedBlob, OpenedBlob, BootFile
<1>2. Continuities \subseteq BOOLEAN
  BY GateAssumption
<1>3. CASE Plan(c, "boot", FailedBlob(session), FALSE, failed)
  BY <1>1, <1>3
<1>4. ASSUME NEW healthy \in Continuities,
             Plan(c, "boot", OpenedBlob(session, healthy), FALSE, opened)
      PROVE  \E b \in BootFile : b.capture = NoCapture /\ Plan(c, "boot", b, FALSE, opened)
  BY <1>1, <1>2, <1>4
<1> QED BY <1>3, <1>4 DEF Bootstrap

\* A session start: nothing is written before the workspace has been accepted.
LEMMA StartSessionStep ==
  ASSUME GateInv, NEW c \in Conversations, StartSession(c) PROVE GateInv'
<1>1. /\ left' \in Budget /\ <<"task", c>> \in SessionKey
      /\ UNCHANGED <<boot, scope, journal, running, grant, lost>>
  BY BudgetsShrink DEF StartSession, GateInv, SessionKey
<1>2. Ends(c)
  BY <1>1 DEF Ends, GateInv, TypeOK
<1>3. CASE Refused(c, "idle")
  BY <1>2, <1>3, EndKeeps DEF Refused, End
<1>4. CASE \E b \in BootFile : b.capture = NoCapture /\
             (Plan(c, "boot", b, FALSE, "idle") \/ Plan(c, "boot", b, FALSE, "mark"))
  <2>1. PICK b \in BootFile : b.capture = NoCapture /\
             (Plan(c, "boot", b, FALSE, "idle") \/ Plan(c, "boot", b, FALSE, "mark"))
    BY <1>4
  <2>2. PICK then \in {"idle", "mark"} : Plan(c, "boot", b, FALSE, then)
    BY <2>1
  <2> QED BY <1>2, <2>1, <2>2, PlanEndsKeeps
<1> QED BY <1>1, <1>3, <1>4, Bootstraps DEF StartSession

\* A prompt arrives: the turn before it is over.
LEMMA SubmitStep ==
  ASSUME GateInv, NEW c \in Conversations, NEW p \in MaySubmit[c], Submit(c, p) PROVE GateInv'
<1> USE DEF GateInv
<1>1. /\ left' \in Budget /\ p \in Prompts \cup {NoPrompt}
      /\ UNCHANGED <<boot, scope, journal, lost>>
      /\ running' = [running EXCEPT ![c] = NoTurn]
      /\ grant' = [grant EXCEPT ![c] = NoGrant]
      /\ io' = [io EXCEPT ![c] = [Idle EXCEPT !.prompt = p]]
      /\ at' = [at EXCEPT ![c] = "disarm"]
  BY BudgetsShrink, GateAssumption DEF Submit
<1> DEFINE w == [Idle EXCEPT !.prompt = p]
<1>2. w \in Work /\ w.file = "none" /\ ~w.marks
  BY <1>1 DEF Idle, Work, Statement
<1>3. io' = [io EXCEPT ![c] = w]
  BY <1>1
<1> HIDE DEF w
<1>4. /\ io' \in [Conversations -> Work] /\ at' \in [Conversations -> Place]
      /\ running' \in [Conversations -> Prompts \cup {NoPrompt, NoTurn}]
      /\ grant' \in [Conversations -> Grant \cup {NoGrant}]
      /\ \A d \in Conversations : d # c =>
           at'[d] = at[d] /\ io'[d] = io[d] /\ running'[d] = running[d] /\ grant'[d] = grant[d]
      /\ at'[c] = "disarm" /\ io'[c] = w /\ running'[c] = NoTurn /\ grant'[c] = NoGrant
  BY <1>1, <1>2, <1>3 DEF TypeOK, Place, Statement
<1>5. TypeOK' /\ Alone(c)
  BY <1>1, <1>4 DEF TypeOK, Alone
<1>6. ~Writing(c)' /\ Toward(c)' = "disarm" /\ StillArmed(c)'
  BY <1>4 DEF Writing, Toward, StillArmed
<1>7. HoldsItsFile(c)' /\ HandsOnWhatIsKnown(c)' /\ WritesItsOwn(c)' /\ KeepsToItsTurn(c)'
  BY <1>2, <1>4, <1>6, GateAssumption
  DEF HoldsItsFile, HandsOnWhatIsKnown, WritesItsOwn, KeepsToItsTurn
<1>8. NoNewCapture
  BY <1>1, <1>2, <1>4 DEF NoNewCapture, InCopy, Pending
<1> QED BY <1>5, <1>6, <1>7, <1>8, SharedKeep DEF HookHolds, TurnKept

\* handle_before_submit goes on: with a call of its own, or with a file to write.
LEMMA OnKeeps ==
  ASSUME GateInv, NEW c \in Conversations, Submits(c),
         NEW label \in {"reopened", "append", "arm", "continue"},
         NEW blob \in BootFile \cup {Absent}, Goto(c, label, blob),
         label # "continue" => blob \in BootFile,
         label \in {"append", "arm"} => io[c].prompt \in Prompts,
         label = "arm" => Known(c, io[c].prompt)',
         label = "continue" => io[c].prompt = NoPrompt \/ Known(c, io[c].prompt)',
         UNCHANGED <<boot, scope, running, grant, lost, left>>,
         journal \subseteq journal', journal' \subseteq Capture
  PROVE  GateInv'
<1> USE DEF GateInv
<1>1. label \in Statement /\ HookHolds(c)
  BY DEF Statement
<1>2. /\ at' \in [Conversations -> Place] /\ io' \in [Conversations -> Work]
      /\ \A d \in Conversations : d # c => at'[d] = at[d] /\ io'[d] = io[d]
      /\ at'[c] = label /\ io'[c].prompt = io[c].prompt
      /\ ~Writing(c)' /\ Toward(c)' = label
  BY <1>1, Goes
<1>3. TypeOK' /\ Alone(c)
  BY <1>2 DEF TypeOK, Alone
<1>4. ~StillArmed(c)' /\ Submits(c)' /\ ~StillArmed(c) /\ Turn(c)' = Turn(c)
  BY <1>2 DEF StillArmed, Submits, Turn, Toward
<1>5. \A x, q : Known(x, q) => Known(x, q)'
  BY DEF Known, Holds
<1>6. \A x, q : Known(x, q)' <=> Holds(journal', x, q)
  BY DEF Known, Holds
<1>7. HandsOnWhatIsKnown(c)'
  <2>1. /\ label \in {"append", "arm"} => io'[c].prompt \in Prompts
        /\ label = "arm" => Holds(journal', c, io'[c].prompt)
        /\ label = "continue" => io'[c].prompt = NoPrompt \/ Holds(journal', c, io'[c].prompt)
    BY <1>2 DEF Known, Holds
  <2>2. /\ running[c] \in Prompts => Known(c, running[c])
        /\ grant[c] # NoGrant /\ grant[c].via # "unasked" =>
             /\ grant[c].capture # NoCapture
             /\ Known(grant[c].capture.conversation, grant[c].capture.prompt)
             /\ grant[c].via = "tool" => grant[c].capture.conversation = c
    BY <1>1 DEF HookHolds, HandsOnWhatIsKnown
  <2>3. running' = running /\ grant' = grant
    OBVIOUS
  <2> QED BY <1>2, <1>5, <1>6, <2>1, <2>2, <2>3 DEF HandsOnWhatIsKnown, Known
<1>8. KeepsToItsTurn(c)'
  BY <1>1, <1>2, <1>4 DEF HookHolds, KeepsToItsTurn
<1> QED BY <1>1, <1>3, <1>4, <1>7, <1>8, GoKeeps DEF TurnKept

LEMMA PlanOnKeeps ==
  ASSUME GateInv, NEW c \in Conversations, StillArmed(c) \/ Submits(c),
         NEW blob \in BootFile, blob.capture = NoCapture,
         NEW then \in {"load", "reopened", "continue"}, Plan(c, "boot", blob, FALSE, then),
         then = "load" \/ Submits(c), then = "continue" => io[c].prompt = NoPrompt,
         UNCHANGED <<boot, scope, journal, running, grant, lost, left>>
  PROVE  GateInv'
<1> USE DEF GateInv
<1>1. then \in Statement /\ HookHolds(c)
  BY DEF Statement
<1>2. PICK marks \in BOOLEAN : marks = FALSE
  OBVIOUS
<1>3. /\ at' \in [Conversations -> Place] /\ io' \in [Conversations -> Work]
      /\ \A d \in Conversations : d # c => at'[d] = at[d] /\ io'[d] = io[d]
      /\ at'[c] = "truncate" /\ io'[c].prompt = io[c].prompt
      /\ Writing(c)' /\ Toward(c)' = then
  <2>1. Plan(c, "boot", blob, marks, then)
    BY <1>2
  <2>2. TypeOK
    OBVIOUS
  <2> QED BY <1>1, <2>1, <2>2, Plans
<1>4. TypeOK' /\ Alone(c)
  BY <1>3 DEF TypeOK, Alone
<1>5. HandsOnWhatIsKnown(c)'
  BY <1>1, <1>3 DEF HookHolds, HandsOnWhatIsKnown, Known, Holds
<1>6. KeepsToItsTurn(c)'
  BY <1>1, <1>3 DEF HookHolds, KeepsToItsTurn
<1>7. TurnKept(c)
  <2>1. CASE then = "load"
    BY <1>3, <2>1 DEF TurnKept, StillArmed
  <2>2. CASE then # "load"
    <3>1. Submits(c) /\ Submits(c)' /\ Turn(c)' = Turn(c) /\ ~StillArmed(c)
      BY <1>3, <2>2 DEF Submits, Turn, StillArmed, Toward
    <3> QED BY <3>1 DEF TurnKept
  <2> QED BY <2>1, <2>2
<1> QED BY <1>1, <1>4, <1>5, <1>6, <1>7, PlanKeeps

\* No capture is on its way to a bootstrap file that has never been written.
LEMMA NothingWhereNoFile ==
  ASSUME GateInv, boot = Absent, NEW k \in Capture PROVE ~InCopy(k)
<1>1. Absent \notin BootFile
  BY FilesAssumption DEF NoText
<1>2. \A d \in Conversations : io[d].file = "boot" => io[d].blob.capture = NoCapture
  BY DEF GateInv, HookHolds, WritesItsOwn
<1> QED BY <1>1, <1>2 DEF InCopy, Pending

LEMMA DisarmedHoldsNone ==
  ASSUME NEW b \in BootFile
  PROVE  Disarmed(b) \in BootFile /\ Disarmed(b).capture = NoCapture
<1>1. NoCapture \in Capture \cup {NoCapture}
  OBVIOUS
<1> QED BY <1>1 DEF Disarmed, BootFile

\* The gate is disarmed before anything else; a file that is there and cannot
\* be disarmed blocks the prompt.
LEMMA DisarmStep == ASSUME GateInv, NEW c \in Conversations, Disarm(c) PROVE GateInv'
<1> USE DEF GateInv
<1>1. /\ at[c] = "disarm" /\ UNCHANGED <<boot, scope, journal, running, grant, lost, left>>
  BY DEF Disarm
<1>2. StillArmed(c) /\ HookHolds(c) /\ Ends(c)
  BY <1>1 DEF StillArmed, Toward, Writing, Ends, TypeOK
<1>3. CASE Readable(boot) /\ Plan(c, "boot", Disarmed(boot), FALSE, "load")
  <2>1. boot \in BootFile
    BY <1>3 DEF Readable, TypeOK, NoText
  <2>2. PICK b \in BootFile : b = Disarmed(boot) /\ b.capture = NoCapture
    BY <2>1, DisarmedHoldsNone
  <2>3. Plan(c, "boot", b, FALSE, "load")
    BY <1>3, <2>2
  <2> QED BY <1>1, <1>2, <2>2, <2>3, PlanOnKeeps
<1>4. CASE boot = Absent /\ Goto(c, "load", Absent)
  <2>1. "load" \in Statement
    BY DEF Statement
  <2>2. /\ at' \in [Conversations -> Place] /\ io' \in [Conversations -> Work]
        /\ \A d \in Conversations : d # c => at'[d] = at[d] /\ io'[d] = io[d]
        /\ at'[c] = "load" /\ io'[c].file = "none" /\ ~Writing(c)' /\ Toward(c)' = "load"
    BY <1>4, <2>1, Goes
  <2>3. TypeOK' /\ Alone(c)
    BY <1>1, <2>2 DEF TypeOK, Alone
  <2>4. HandsOnWhatIsKnown(c)' /\ KeepsToItsTurn(c)'
    BY <1>1, <1>2, <2>2 DEF HookHolds, HandsOnWhatIsKnown, KeepsToItsTurn, Known, Holds
  <2>5. \A k \in Capture : ~InCopy(k)'
    BY <1>1, <1>4, <2>2, NothingWhereNoFile DEF InCopy, Pending
  <2> QED BY <1>1, <1>4, <2>1, <2>3, <2>4, <2>5, GoKeeps DEF TurnKept
<1>5. CASE End(c)
  BY <1>2, <1>5, EndKeeps
<1> QED BY <1>3, <1>4, <1>5 DEF Disarm

LEMMA AfterGoesOn ==
  ASSUME TypeOK, NEW c \in Conversations, NEW healthy
  PROVE  /\ After(c, healthy) \in {"continue", "append", "idle"}
         /\ After(c, healthy) = "continue" => io[c].prompt = NoPrompt
         /\ After(c, healthy) = "append" => io[c].prompt \in Prompts /\ healthy
  BY DEF After, TypeOK, Work

\* A healthy session is looked for, or opened.
LEMMA LoadStep == ASSUME GateInv, NEW c \in Conversations, Load(c) PROVE GateInv'
<1> USE DEF GateInv
<1>1. /\ at[c] = "load" /\ UNCHANGED <<boot, scope, journal, running, grant, lost, left>>
  BY DEF Load
<1>2. Submits(c) /\ Ends(c) /\ journal \subseteq Capture
  BY <1>1 DEF Submits, Ends, TypeOK
<1>3. CASE Readable(boot) /\ Goto(c, After(c, boot.healthy), boot)
  <2>1. boot \in BootFile
    BY <1>3 DEF Readable, TypeOK, NoText
  <2>2. CASE After(c, boot.healthy) = "idle"
    BY <1>2, <1>3, <2>2, EndKeeps DEF End, Goto
  <2>3. CASE After(c, boot.healthy) # "idle"
    BY <1>1, <1>2, <1>3, <2>1, <2>3, AfterGoesOn, OnKeeps
  <2> QED BY <2>2, <2>3
<1>4. CASE Bootstrap(c, <<"task", c>>, After(c, FALSE), After(c, FALSE), "reopened")
  <2>1. PICK label : label = After(c, FALSE)
    OBVIOUS
  <2>2. label \in {"continue", "idle"} /\ (label = "continue" => io[c].prompt = NoPrompt)
    BY <2>1 DEF After
  <2>3. <<"task", c>> \in SessionKey
    BY DEF SessionKey
  <2>4. \/ Refused(c, label)
        \/ \E b \in BootFile : b.capture = NoCapture /\
             (Plan(c, "boot", b, FALSE, label) \/ Plan(c, "boot", b, FALSE, "reopened"))
    BY <1>4, <2>1, <2>3, Bootstraps
  <2>5. CASE Refused(c, label)
    <3>0. CASE End(c)
      BY <1>2, <3>0, EndKeeps
    <3>1. CASE Goto(c, label, Absent) /\ label = "idle"
      BY <1>2, <3>1, EndKeeps DEF End
    <3>2. CASE Goto(c, label, Absent) /\ label = "continue"
      BY <1>1, <1>2, <2>2, <3>2, OnKeeps
    <3> QED BY <2>2, <2>5, <3>0, <3>1, <3>2 DEF Refused
  <2>6. ASSUME NEW b \in BootFile, b.capture = NoCapture,
               NEW then \in {label, "reopened"}, Plan(c, "boot", b, FALSE, then)
        PROVE  GateInv'
    <3>1. CASE then = "idle"
      BY <1>2, <2>6, <3>1, PlanEndsKeeps
    <3>2. CASE then \in {"continue", "reopened"}
      BY <1>1, <1>2, <2>2, <2>6, <3>2, PlanOnKeeps
    <3> QED BY <2>2, <3>1, <3>2
  <2> QED BY <2>4, <2>5, <2>6
<1> QED BY <1>3, <1>4 DEF Load

\* The session that was opened is gone on with.
LEMMA ReopenedStep == ASSUME GateInv, NEW c \in Conversations, Reopened(c) PROVE GateInv'
<1> USE DEF GateInv
<1>1. /\ at[c] = "reopened" /\ UNCHANGED <<boot, scope, journal, running, grant, lost, left>>
      /\ Goto(c, After(c, io[c].blob.healthy), io[c].blob)
  BY DEF Reopened
<1>2. Submits(c) /\ Ends(c) /\ journal \subseteq Capture /\ io[c].blob \in BootFile
  BY <1>1 DEF Submits, Ends, TypeOK, Toward, Writing, HookHolds, HoldsItsFile
<1>3. CASE After(c, io[c].blob.healthy) = "idle"
  BY <1>1, <1>2, <1>3, EndKeeps DEF End, Goto
<1>4. CASE After(c, io[c].blob.healthy) # "idle"
  BY <1>1, <1>2, <1>4, AfterGoesOn, OnKeeps
<1> QED BY <1>3, <1>4

\* append_prompt: the hook goes on when the journal holds the prompt.
LEMMA AppendPromptStep == ASSUME GateInv, NEW c \in Conversations, AppendPrompt(c) PROVE GateInv'
<1> USE DEF GateInv
<1>1. /\ at[c] = "append" /\ UNCHANGED <<boot, scope, running, grant, lost, left>>
      /\ journal' \in {journal, journal \cup {Event(c, io[c].prompt, io[c].blob.session)}}
  BY DEF AppendPrompt
<1>2. Submits(c) /\ io[c].blob \in BootFile /\ io[c].prompt \in Prompts
  BY <1>1 DEF Submits, Toward, Writing, HookHolds, HoldsItsFile, HandsOnWhatIsKnown
<1>3. Event(c, io[c].prompt, io[c].blob.session) \in Capture
  BY <1>2 DEF Event, Capture, BootFile
<1>4. journal \subseteq journal' /\ journal' \subseteq Capture
  BY <1>1, <1>3 DEF TypeOK
<1>5. CASE Accepted(journal', c) /\ Goto(c, "arm", io[c].blob)
  <2>1. Known(c, io[c].prompt)'
    <3>1. io'[c].prompt = io[c].prompt
      <4>1. "arm" \in Statement
        BY DEF Statement
      <4> QED BY <1>2, <1>5, <4>1, Goes
    <3> QED BY <1>5, <3>1 DEF Accepted, Known
  <2> QED BY <1>1, <1>2, <1>4, <1>5, <2>1, OnKeeps
<1>6. CASE End(c)
  BY <1>1, <1>4, <1>6, EndKeeps DEF Ends, TypeOK
<1> QED BY <1>5, <1>6 DEF AppendPrompt

\* The prompt that the journal holds is put into whatever the file says by now.
LEMMA ArmStep == ASSUME GateInv, NEW c \in Conversations, Arm(c) PROVE GateInv'
<1> USE DEF GateInv
<1>1. /\ at[c] = "arm" /\ UNCHANGED <<boot, scope, journal, running, grant, lost, left>>
  BY DEF Arm
<1>2. /\ ~Writing(c) /\ Toward(c) = "arm" /\ Submits(c) /\ ~StillArmed(c) /\ HookHolds(c)
      /\ Turn(c) = io[c].prompt
  BY <1>1 DEF Submits, Toward, Writing, StillArmed, Turn
<1>3. /\ io[c].blob \in BootFile /\ io[c].prompt \in Prompts /\ Known(c, io[c].prompt)
  BY <1>2 DEF HookHolds, HoldsItsFile, HandsOnWhatIsKnown
<1> DEFINE e == Event(c, io[c].prompt, io[c].blob.session)
           b == [boot EXCEPT !.capture = e]
<1>4. e \in Capture /\ e.conversation = c /\ e.prompt = io[c].prompt
  BY <1>3 DEF Event, Capture, BootFile
<1> HIDE DEF e
<1>5. CASE Readable(boot) /\ Plan(c, "boot", b, FALSE, "continue")
  <2>1. boot \in BootFile /\ boot # Absent
    BY <1>5 DEF Readable, TypeOK, NoText
  <2>2. b \in BootFile /\ b.capture = e
    BY <1>4, <2>1 DEF BootFile
  <2> HIDE DEF b
  <2>3. PICK marks \in BOOLEAN : marks = FALSE
    OBVIOUS
  <2>4. "continue" \in Statement
    BY DEF Statement
  <2>5. /\ at' \in [Conversations -> Place] /\ io' \in [Conversations -> Work]
        /\ \A d \in Conversations : d # c => at'[d] = at[d] /\ io'[d] = io[d]
        /\ at'[c] = "truncate" /\ io'[c].prompt = io[c].prompt
        /\ io'[c].file = "boot" /\ io'[c].blob = b /\ io'[c].marks = marks
        /\ Writing(c)' /\ Toward(c)' = "continue"
    <3>1. Plan(c, "boot", b, marks, "continue")
      BY <1>5, <2>3
    <3> QED BY <2>2, <2>4, <3>1, Plans
  <2>6. TypeOK' /\ Alone(c)
    BY <1>1, <2>5 DEF TypeOK, Alone
  <2>7. ~StillArmed(c)' /\ Submits(c)' /\ Turn(c)' = Turn(c)
    BY <1>2, <2>5 DEF StillArmed, Submits, Turn
  <2>8. HookHolds(c)'
    <3>1. HoldsItsFile(c)'
      BY <2>2, <2>3, <2>5, <2>7 DEF HoldsItsFile
    <3>2. HandsOnWhatIsKnown(c)'
      BY <1>1, <1>2, <1>3, <2>5 DEF HookHolds, HandsOnWhatIsKnown, Known, Holds
    <3>3. WritesItsOwn(c)'
      BY <1>1, <1>4, <2>1, <2>2, <2>5 DEF WritesItsOwn
    <3>4. KeepsToItsTurn(c)'
      BY <1>1, <1>2, <2>5 DEF HookHolds, KeepsToItsTurn
    <3> QED BY <3>1, <3>2, <3>3, <3>4 DEF HookHolds
  <2>9. \A d \in Conversations : HookHolds(d)'
    BY <2>6, <2>8, OthersKeep
  <2>10. \A k \in Capture : InCopy(k)' => k = e \/ InCopy(k)
    <3> SUFFICES ASSUME NEW k \in Capture, InCopy(k)', k # e PROVE InCopy(k)
      OBVIOUS
    <3>1. CASE boot' \in BootFile /\ boot'.capture = k
      BY <1>1, <3>1 DEF InCopy
    <3>2. ASSUME NEW d \in Conversations, Pending(d, k)' PROVE InCopy(k)
      <4>1. d # c
        BY <2>2, <2>5, <3>2 DEF Pending
      <4> QED BY <2>5, <3>2, <4>1 DEF InCopy, Pending
    <3> QED BY <3>1, <3>2 DEF InCopy
  <2>11. CapturesKnown'
    BY <1>1, <1>3, <1>4, <2>10 DEF CapturesKnown, Known, Holds
  <2>12. CapturesOfTurn'
    <3> SUFFICES ASSUME ~lost', NEW k \in Capture, InCopy(k)'
                 PROVE  StillArmed(k.conversation)'
                          \/ Turn(k.conversation)' \in {NoTurn, k.prompt}
      BY DEF CapturesOfTurn
    <3>1. CASE k = e
      BY <1>2, <1>4, <2>7, <3>1
    <3>2. CASE k # e
      <4>1. StillArmed(k.conversation) \/ Turn(k.conversation) \in {NoTurn, k.prompt}
        BY <1>1, <2>10, <3>2 DEF CapturesOfTurn
      <4>2. PICK d \in Conversations : d = k.conversation
        BY DEF Capture
      <4>3. CASE d = c
        BY <1>2, <2>7, <4>1, <4>2, <4>3
      <4>4. CASE d # c
        <5>1. StillArmed(d)' = StillArmed(d) /\ Turn(d)' = Turn(d)
          BY <2>6, <4>4 DEF Alone, StillArmed, Submits, Turn, Toward, Writing
        <5> QED BY <4>1, <4>2, <5>1
      <4> QED BY <4>3, <4>4
    <3> QED BY <3>1, <3>2
  <2> QED BY <2>6, <2>9, <2>11, <2>12
<1>6. CASE End(c)
  BY <1>1, <1>6, EndKeeps DEF Ends, TypeOK
<1> QED BY <1>5, <1>6 DEF Arm, e, b

\* The agent gets the prompt.
LEMMA ContinueStep == ASSUME GateInv, NEW c \in Conversations, Continue(c) PROVE GateInv'
<1> USE DEF GateInv
<1>1. /\ at[c] = "continue" /\ UNCHANGED <<boot, scope, journal, grant, lost, left>>
      /\ running' = [running EXCEPT ![c] = io[c].prompt]
      /\ Goto(c, "idle", Absent) /\ "idle" \in Statement
  BY DEF Continue, End, Statement
<1>2. Toward(c) = "continue" /\ Submits(c) /\ ~StillArmed(c) /\ HookHolds(c)
      /\ Turn(c) = io[c].prompt
  BY <1>1 DEF Toward, Writing, Submits, StillArmed, Turn
<1>3. /\ at' \in [Conversations -> Place] /\ io' \in [Conversations -> Work]
      /\ \A d \in Conversations : d # c => at'[d] = at[d] /\ io'[d] = io[d]
      /\ at'[c] = "idle" /\ ~Writing(c)' /\ Toward(c)' = "idle"
  BY <1>1, Goes
<1>4. /\ running' \in [Conversations -> Prompts \cup {NoPrompt, NoTurn}]
      /\ running'[c] = io[c].prompt
      /\ \A d \in Conversations : d # c => running'[d] = running[d]
  BY <1>1 DEF TypeOK, Work
<1>5. TypeOK' /\ Alone(c)
  BY <1>1, <1>3, <1>4 DEF TypeOK, Alone
<1>6. ~StillArmed(c)' /\ ~Submits(c)' /\ Turn(c)' = Turn(c)
  BY <1>2, <1>3, <1>4 DEF StillArmed, Submits, Turn
<1>7. grant[c] = NoGrant
  BY <1>2 DEF HookHolds, KeepsToItsTurn
<1>8. HandsOnWhatIsKnown(c)' /\ KeepsToItsTurn(c)'
  BY <1>1, <1>2, <1>3, <1>4, <1>6, <1>7, GateAssumption
  DEF HookHolds, HandsOnWhatIsKnown, KeepsToItsTurn, Known, Holds
<1> QED BY <1>1, <1>2, <1>5, <1>6, <1>8, GoKeeps DEF TurnKept

\* The gate: a call is let through under the capture that the file holds.
LEMMA AuthorizeStep ==
  ASSUME GateInv, NEW c \in Conversations, NEW via \in {"tool", "shell"},
         NEW targets \in SUBSET Paths, Authorize(c, via, targets)
  PROVE  GateInv'
<1> USE DEF GateInv
<1>1. /\ at[c] = "idle" /\ running[c] # NoTurn /\ grant[c] = NoGrant /\ left.calls[c] > 0
      /\ UNCHANGED <<boot, scope, journal, running, lost>>
  BY DEF Authorize, Working
<1>2. ~StillArmed(c) /\ ~Submits(c) /\ Turn(c) = running[c] /\ HookHolds(c)
  BY <1>1 DEF StillArmed, Submits, Toward, Writing, Turn
<1>3. CASE Readable(boot) /\ boot.ok
  <2>1. /\ BoundTo(boot.capture, boot, c, via = "tool") /\ Goto(c, "scope", Absent)
        /\ Called(c, 0) /\ "scope" \in Statement
        /\ grant' = [grant EXCEPT ![c] = [via |-> via, targets |-> targets,
                                          capture |-> boot.capture]]
    BY <1>3 DEF Authorize, Statement
  <2> DEFINE g == [via |-> via, targets |-> targets, capture |-> boot.capture]
  <2>2. boot \in BootFile /\ boot.capture # NoCapture
    BY <1>3, <2>1 DEF Readable, TypeOK, NoText, BoundTo
  <2>3. /\ g \in Grant /\ g.capture = boot.capture /\ boot.capture \in Capture
        /\ g.via = "tool" => g.capture.conversation = c
    BY <2>1, <2>2 DEF Grant, BootFile, BoundTo
  <2>4. grant' = [grant EXCEPT ![c] = g]
    BY <2>1
  <2> HIDE DEF g
  <2>5. /\ at' \in [Conversations -> Place] /\ io' \in [Conversations -> Work]
        /\ \A d \in Conversations : d # c => at'[d] = at[d] /\ io'[d] = io[d]
        /\ at'[c] = "scope" /\ ~Writing(c)' /\ Toward(c)' = "scope"
    BY <2>1, Goes
  <2>6. /\ grant' \in [Conversations -> Grant \cup {NoGrant}] /\ grant'[c] = g
        /\ \A d \in Conversations : d # c => grant'[d] = grant[d]
    BY <2>3, <2>4 DEF TypeOK
  <2>7. left' \in Budget
    BY <1>1, <2>1, BudgetsShrink DEF Called
  <2>8. TypeOK' /\ Alone(c)
    BY <1>1, <2>5, <2>6, <2>7 DEF TypeOK, Alone
  <2>9. InCopy(g.capture)
    BY <2>2, <2>3 DEF InCopy
  <2>10. HandsOnWhatIsKnown(c)'
    <3>1. Known(g.capture.conversation, g.capture.prompt)
      BY <2>3, <2>9 DEF CapturesKnown
    <3>2. /\ \A x, q : Known(x, q)' = Holds(journal, x, q)
          /\ \A x, q : Known(x, q) = Holds(journal, x, q)
      BY <1>1 DEF Known
    <3>3. running[c] \in Prompts => Known(c, running[c])
      BY <1>2 DEF HookHolds, HandsOnWhatIsKnown
    <3>4. g.capture # NoCapture
      BY <2>2, <2>3
    <3> QED BY <1>1, <2>3, <2>5, <2>6, <3>1, <3>2, <3>3, <3>4 DEF HandsOnWhatIsKnown, Known
  <2>11. ~StillArmed(c)' /\ ~Submits(c)' /\ Turn(c)' = Turn(c)
    BY <1>1, <1>2, <2>5 DEF StillArmed, Submits, Turn
  <2>12. ~lost /\ g.via = "tool" => g.capture.prompt = running[c]
    BY <1>1, <1>2, <2>3, <2>9 DEF CapturesOfTurn
  <2>13. KeepsToItsTurn(c)'
    BY <1>1, <2>5, <2>6, <2>11, <2>12 DEF KeepsToItsTurn
  <2> QED BY <1>1, <1>2, <2>1, <2>8, <2>10, <2>11, <2>13, GoKeeps DEF TurnKept
<1>4. CASE ~(Readable(boot) /\ boot.ok)
  <2>1. /\ left.uuids > 0 /\ Called(c, 1) /\ grant' = grant
        /\ Bootstrap(c, <<"uuid", left.uuids>>, "idle", "idle", "idle")
    BY <1>4 DEF Authorize
  <2>2. left' \in Budget /\ <<"uuid", left.uuids>> \in SessionKey
    BY <1>1, <2>1, BudgetsShrink DEF Called, TypeOK, Budget, SessionKey
  <2>3. Ends(c)
    BY <1>1, <2>1, <2>2 DEF Ends, TypeOK
  <2>4. \/ Refused(c, "idle")
        \/ \E b \in BootFile : b.capture = NoCapture /\ Plan(c, "boot", b, FALSE, "idle")
    BY <2>1, <2>2, Bootstraps
  <2> QED BY <2>3, <2>4, EndKeeps, PlanEndsKeeps DEF Refused, End
<1> QED BY <1>3, <1>4

\* What no table names is let through, and nothing else happens.
LEMMA LetThroughStep ==
  ASSUME GateInv, NEW c \in Conversations, NEW targets \in SUBSET Paths, LetThrough(c, targets)
  PROVE  GateInv'
<1> USE DEF GateInv
<1> DEFINE g == [via |-> "unasked", targets |-> targets, capture |-> NoCapture]
<1>1. /\ at[c] = "idle" /\ running[c] # NoTurn /\ grant' = [grant EXCEPT ![c] = g]
      /\ UNCHANGED <<boot, scope, journal, at, io, running, lost, left>>
  BY DEF LetThrough, Working
<1>2. g \in Grant /\ g.via = "unasked"
  BY DEF Grant
<1> HIDE DEF g
<1>3. /\ grant' \in [Conversations -> Grant \cup {NoGrant}] /\ grant'[c] = g
      /\ \A d \in Conversations : d # c => grant'[d] = grant[d]
  BY <1>1, <1>2 DEF TypeOK
<1>4. TypeOK' /\ Alone(c)
  BY <1>1, <1>3 DEF TypeOK, Alone
<1>5. /\ Writing(c)' = Writing(c) /\ Toward(c)' = Toward(c) /\ Turn(c)' = Turn(c)
      /\ StillArmed(c)' = StillArmed(c) /\ Submits(c)' = Submits(c)
      /\ ~StillArmed(c) /\ ~Submits(c) /\ Toward(c) = "idle"
  BY <1>1 DEF Writing, Toward, Turn, StillArmed, Submits
<1>6. HookHolds(c)
  OBVIOUS
<1>7. HoldsItsFile(c)' /\ WritesItsOwn(c)'
  BY <1>1, <1>5, <1>6 DEF HookHolds, HoldsItsFile, WritesItsOwn
<1>8. HandsOnWhatIsKnown(c)'
  <2>1. \A x, q : Known(x, q)' = Known(x, q)
    BY <1>1 DEF Known, Holds
  <2> QED BY <1>1, <1>2, <1>3, <1>5, <1>6, <2>1 DEF HookHolds, HandsOnWhatIsKnown
<1>9. KeepsToItsTurn(c)'
  BY <1>2, <1>3, <1>5 DEF KeepsToItsTurn
<1>10. NoNewCapture /\ TurnKept(c)
  BY <1>1, <1>5 DEF NoNewCapture, InCopy, Pending, TurnKept
<1> QED BY <1>4, <1>7, <1>8, <1>9, <1>10, SharedKeep DEF HookHolds

LEMMA PreToolStep ==
  ASSUME GateInv, NEW c \in Conversations, NEW tool \in Tools, NEW targets \in SUBSET Paths,
         PreTool(c, tool, targets)
  PROVE  GateInv'
<1>1. CASE IsWriteOperation(tool)
  <2>1. Authorize(c, "tool", targets)
    BY <1>1 DEF PreTool
  <2> QED BY <2>1, AuthorizeStep
<1>2. CASE ~IsWriteOperation(tool)
  <2>1. LetThrough(c, targets)
    BY <1>2 DEF PreTool
  <2> QED BY <2>1, LetThroughStep
<1> QED BY <1>1, <1>2

LEMMA BeforeShellStep ==
  ASSUME GateInv, NEW c \in Conversations, NEW command \in Commands, BeforeShell(c, command)
  PROVE  GateInv'
<1>1. command.paths \in SUBSET Paths /\ ShellTargets(command) \in SUBSET Paths
  BY GateAssumption DEF ShellTargets
<1>2. CASE Authorize(c, "shell", ShellTargets(command))
  BY <1>1, <1>2, AuthorizeStep
<1>3. CASE LetThrough(c, command.paths)
  BY <1>1, <1>3, LetThroughStep
<1> QED BY <1>2, <1>3 DEF BeforeShell

\* The rest of the gate takes the grant back, or lets it stand.
LEMMA CheckScopeStep == ASSUME GateInv, NEW c \in Conversations, CheckScope(c) PROVE GateInv'
<1> USE DEF GateInv
<1>1. UNCHANGED <<boot, scope, journal, running, lost, left>>
  BY DEF CheckScope
<1>2. CASE Readable(scope)
  <2>1. End(c) /\ (grant' = grant \/ grant' = [grant EXCEPT ![c] = NoGrant])
    BY <1>2 DEF CheckScope, TypeOK
  <2> QED BY <1>1, <2>1, EndKeeps DEF Ends, TypeOK
<1>3. CASE ~Readable(scope)
  <2>1. /\ grant' = [grant EXCEPT ![c] = NoGrant]
        /\ Plan(c, "scope", [declared |-> {}], FALSE, "idle")
    BY <1>3 DEF CheckScope
  <2>2. PICK b \in ScopeFile : b = [declared |-> {}]
    BY DEF ScopeFile
  <2>3. Plan(c, "scope", b, FALSE, "idle")
    BY <2>1, <2>2
  <2>4. Ends(c)
    BY <1>1, <2>1 DEF Ends, TypeOK
  <2> QED BY <2>3, <2>4, PlanEndsKeeps
<1> QED BY <1>2, <1>3

\* The hooks that write the scope file.
LEMMA LoadedIsScope == ASSUME TypeOK PROVE Loaded(scope) \in ScopeFile
  BY DEF Loaded, Readable, NoText, TypeOK, ScopeFile

LEMMA PostToolStep == ASSUME GateInv, NEW c \in Conversations, PostTool(c) PROVE GateInv'
<1>1. /\ left.calls[c] > 0 /\ Called(c, 0) /\ UNCHANGED <<boot, scope, journal, running, lost>>
      /\ Plan(c, "scope", Loaded(scope), FALSE, "idle")
      /\ grant' = [grant EXCEPT ![c] = NoGrant]
  BY DEF PostTool, Working
<1>2. Ends(c)
  BY <1>1, BudgetsShrink DEF Called, Ends, GateInv, TypeOK
<1> QED BY <1>1, <1>2, LoadedIsScope, PlanEndsKeeps DEF GateInv

LEMMA StopStep == ASSUME GateInv, NEW c \in Conversations, Stop(c) PROVE GateInv'
<1>1. /\ left.calls[c] > 0 /\ Called(c, 0) /\ UNCHANGED <<boot, scope, journal, running, lost>>
      /\ Plan(c, "scope", Loaded(scope), FALSE, "handoff")
      /\ grant' = [grant EXCEPT ![c] = NoGrant]
  BY DEF Stop, Working
<1>2. Ends(c) /\ grant'[c] = NoGrant
  BY <1>1, BudgetsShrink DEF Called, Ends, GateInv, TypeOK
<1> QED BY <1>1, <1>2, LoadedIsScope, PlanEndsKeeps DEF GateInv

LEMMA DeclareStep ==
  ASSUME GateInv, NEW c \in Conversations, NEW paths \in SUBSET Paths, Declare(c, paths)
  PROVE  GateInv'
<1>1. /\ left.calls[c] > 0 /\ Called(c, 0)
      /\ UNCHANGED <<boot, scope, journal, running, grant, lost>>
      /\ Plan(c, "scope", [declared |-> paths], FALSE, "idle")
  BY DEF Declare, Working
<1>2. Ends(c)
  BY <1>1, BudgetsShrink DEF Called, Ends, GateInv, TypeOK
<1>3. PICK b \in ScopeFile : b = [declared |-> paths]
  BY DEF ScopeFile
<1>4. Plan(c, "scope", b, FALSE, "idle")
  BY <1>1, <1>3
<1> QED BY <1>2, <1>4, PlanEndsKeeps

\* The end of a turn: the gate is disarmed if the handoff worked.
LEMMA HandoffStep == ASSUME GateInv, NEW c \in Conversations, Handoff(c) PROVE GateInv'
<1> USE DEF GateInv
<1>1. /\ at[c] = "handoff" /\ running' = [running EXCEPT ![c] = NoTurn]
      /\ UNCHANGED <<boot, scope, journal, grant, lost, left>>
  BY DEF Handoff
<1>2. Toward(c) = "handoff" /\ HookHolds(c)
  BY <1>1 DEF Toward, Writing
<1>3. grant[c] = NoGrant
  BY <1>2 DEF HookHolds, KeepsToItsTurn
<1>4. Ends(c)
  BY <1>1, <1>3 DEF Ends, TypeOK
<1>5. CASE Readable(boot) /\ Plan(c, "boot", Disarmed(boot), FALSE, "idle")
  <2>1. boot \in BootFile
    BY <1>5 DEF Readable, TypeOK, NoText
  <2>2. PICK b \in BootFile : b = Disarmed(boot) /\ b.capture = NoCapture
    BY <2>1, DisarmedHoldsNone
  <2>3. Plan(c, "boot", b, FALSE, "idle")
    BY <1>5, <2>2
  <2> QED BY <1>4, <2>2, <2>3, PlanEndsKeeps
<1>6. CASE End(c)
  BY <1>4, <1>6, EndKeeps
<1> QED BY <1>5, <1>6 DEF Handoff

\* A hook that is ended leaves the files as they are.
LEMMA KilledStep == ASSUME GateInv, NEW c \in Conversations, Killed(c) PROVE GateInv'
<1>1. left' \in Budget
  BY BudgetsShrink DEF Killed, GateInv
<1>2. Ends(c) /\ End(c)
  BY <1>1 DEF Killed, Ends, GateInv, TypeOK
<1> QED BY <1>2, EndKeeps

----------------------------------------------------------------------------
(* The theorems.                                                           *)

LEMMA GateInit == Init => GateInv
<1> SUFFICES ASSUME Init PROVE GateInv
  OBVIOUS
<1>1. TypeOK
  <2>1. Idle \in Work
    BY DEF Idle, Work, Statement
  <2>2. left \in Budget
    BY GateAssumption DEF Init, Budget
  <2>3. scope \in ScopeFile
    BY GateAssumption DEF Init, ScopeFile
  <2> QED BY <2>1, <2>2, <2>3 DEF Init, TypeOK, NoText, Place, Statement
<1>2. \A c \in Conversations : /\ at[c] = "idle" /\ io[c].file = "none" /\ ~io[c].marks
                               /\ running[c] = NoTurn /\ grant[c] = NoGrant
  BY DEF Init, Idle
<1>3. \A c \in Conversations : ~Writing(c) /\ Toward(c) = "idle" /\ ~StillArmed(c)
  BY <1>2 DEF Writing, Toward, StillArmed
<1>4. \A c \in Conversations : ~Submits(c)
  BY <1>2, <1>3 DEF Submits
<1>5. \A c \in Conversations : HookHolds(c)
  BY <1>2, <1>3, <1>4, GateAssumption
  DEF HookHolds, HoldsItsFile, HandsOnWhatIsKnown, WritesItsOwn, KeepsToItsTurn
<1>6. \A k \in Capture : ~InCopy(k)
  BY <1>2, FilesAssumption DEF Init, InCopy, Pending, NoText
<1> QED BY <1>1, <1>5, <1>6 DEF GateInv, CapturesKnown, CapturesOfTurn

LEMMA GateStep == GateInv /\ [Next]_vars => GateInv'
<1> SUFFICES ASSUME GateInv, [Next]_vars PROVE GateInv'
  OBVIOUS
<1>1. ASSUME NEW c \in Conversations, Dispatch(c) PROVE GateInv'
  <2>1. CASE StartSession(c)
    BY <2>1, StartSessionStep
  <2>2. ASSUME NEW p \in MaySubmit[c], Submit(c, p) PROVE GateInv'
    BY <2>2, SubmitStep
  <2>3. ASSUME NEW tool \in Tools, NEW targets \in SUBSET Paths, PreTool(c, tool, targets)
        PROVE  GateInv'
    BY <2>3, PreToolStep
  <2>4. ASSUME NEW command \in Commands, BeforeShell(c, command) PROVE GateInv'
    BY <2>4, BeforeShellStep
  <2>5. CASE PostTool(c)
    BY <2>5, PostToolStep
  <2>6. CASE Stop(c)
    BY <2>6, StopStep
  <2>7. ASSUME NEW paths \in SUBSET Paths, Declare(c, paths) PROVE GateInv'
    BY <2>7, DeclareStep
  <2> QED BY <1>1, <2>1, <2>2, <2>3, <2>4, <2>5, <2>6, <2>7 DEF Dispatch
<1>2. ASSUME NEW c \in Conversations, Proceed(c) PROVE GateInv'
  BY <1>2, TruncateStep, WriteOutStep, MarkStartedStep, DisarmStep, LoadStep, ReopenedStep,
     AppendPromptStep, ArmStep, ContinueStep, CheckScopeStep, HandoffStep, KilledStep
  DEF Proceed
<1>3. CASE UNCHANGED vars
  <2>1. /\ TypeOK' /\ CapturesKnown'
    BY <1>3
    DEF GateInv, vars, TypeOK, CapturesKnown, InCopy, Pending, Known, Holds
  <2>2. \A c \in Conversations : /\ Writing(c)' = Writing(c) /\ Toward(c)' = Toward(c)
                                 /\ StillArmed(c)' = StillArmed(c)
                                 /\ Submits(c)' = Submits(c) /\ Turn(c)' = Turn(c)
    BY <1>3 DEF vars, Writing, Toward, StillArmed, Submits, Turn
  <2>3. \A c \in Conversations : HookHolds(c)'
    BY <1>3, <2>2
    DEF GateInv, vars, HookHolds, HoldsItsFile, HandsOnWhatIsKnown, WritesItsOwn,
        KeepsToItsTurn, Known, Holds
  <2>4. CapturesOfTurn'
    <3>1. /\ lost' = lost /\ \A k \in Capture : InCopy(k)' = InCopy(k)
          /\ \A k \in Capture : k.conversation \in Conversations
      BY <1>3 DEF vars, InCopy, Pending, Capture
    <3> QED BY <2>2, <3>1 DEF GateInv, CapturesOfTurn
  <2> QED BY <2>1, <2>3, <2>4 DEF GateInv
<1> QED BY <1>1, <1>2, <1>3 DEF Next

\* What is true of the hooks, the files and their copies between any two
\* statements.
THEOREM GateInvariant == Spec => []GateInv
<1> QED BY GateInit, GateStep, PTL DEF Spec

\* No turn, and no write known for one, before the journal holds its prompt.
THEOREM CapturedFirst == Spec => []CapturedBeforeTools
<1>1. GateInv => CapturedBeforeTools
  BY DEF GateInv, HookHolds, HandsOnWhatIsKnown, CapturedBeforeTools, Granted
<1> QED BY <1>1, GateInvariant, PTL

\* A previous turn never authorizes tools for a prompt, as long as no session
\* start has written an old copy of the file back.
THEOREM TurnsAreKept == Spec => []OwnTurnOnly
<1>1. GateInv => OwnTurnOnly
  BY DEF GateInv, HookHolds, KeepsToItsTurn, OwnTurnOnly, Granted
<1> QED BY <1>1, GateInvariant, PTL

=============================================================================

---------------------------- MODULE SerenaProofs ----------------------------
(***************************************************************************)
(* Theorems about SessionShim, for any number of calls, children and       *)
(* processes, and any ids the clients choose; and about SerenaMaintenance, *)
(* for any files, any clock and any number of failures, kills and          *)
(* repetitions: what the command has overwritten is not lost.              *)
(***************************************************************************)
EXTENDS SessionShim, SerenaMaintenance, FiniteSetTheorems, SequenceTheorems, TLAPS

(***************************************************************************)
(* SessionShim                                                             *)
(***************************************************************************)

(***************************** own answers *********************************)
Lines == [of : Calls, id : Ids, what : Kinds]
Shaking == {"iwrite", "iwriting", "iwait", "itimeout"}
Asking == {"write", "writing", "wait", "timeout"}
Labels == {"new", "begin", "istart", "nstart", "nwrite", "nwriting", "nset", "done"} \cup Shaking \cup Asking

PipeType ==
  /\ proc \in [Children -> [gen : Nat, alive : BOOLEAN]]
  /\ initialized \in [Children -> BOOLEAN]
  /\ server \in [Children -> {"new", "asked", "ready"}]
  /\ stdin \in [Children -> Seq(Lines)]
  /\ stdout \in [Children -> SUBSET Answers]
  /\ troubled \in BOOLEAN

ThreadType ==
  /\ idOf \in [Calls -> MsgIds] /\ time \in [Calls -> Times]
  /\ queues \in [Children -> [Ids -> Calls \cup {NoCall}]]
  /\ slot \in [Calls -> Answers \cup {NoAnswer}]
  /\ pc \in [Calls -> Labels]
  /\ at \in [Calls -> Children \cup {NoName}]
  /\ \A c \in Calls : IF pc[c] = "new" THEN at[c] = NoName ELSE pc[c] = "done" \/ at[c] \in Children
  /\ DOMAIN result = Calls
  /\ shaking \in [Children -> SUBSET Calls]

\* The id a line of a call has, and the id whose queue the call has.
IdOfLine(ch, m) == IF m.what = "tools/call" THEN idOf[m.of] ELSE HandshakeId(ch, m.of)
IdOfQueue(c) == IF pc[c] \in Asking THEN idOf[c] ELSE HandshakeId(at[c], c)

\* What is written to a child, and what it answers, belongs to a call there and
\* has the id of its kind.
Fits(ch, m) == at[m.of] = ch /\ m.id = IdOfLine(ch, m)
LinesFit ==
  \A ch \in Children :
    /\ \A n \in 1..Len(stdin[ch]) : Fits(ch, stdin[ch][n])
    /\ \A m \in stdout[ch] : Fits(ch, m)

\* A queue is that of a call which waits, or is about to wait, for its id.
QueuesFit ==
  \A ch \in Children, i \in Ids : LET c == queues[ch][i] IN
    c # NoCall => at[c] = ch /\ pc[c] \in Shaking \cup Asking /\ i = IdOfQueue(c)

SlotsFit ==
  \A c \in Calls : pc[c] \in Shaking \cup Asking /\ slot[c] # NoAnswer =>
    Fits(at[c], slot[c]) /\ slot[c].id = IdOfQueue(c)

Threads == ThreadType /\ QueuesFit /\ SlotsFit

\* Only a call to a child has an answer.
ResultsFit == OwnAnswerOrSameId /\ \A c \in Calls : result[c] \in Answers => at[c] \in Children

OwnInv == PipeType /\ LinesFit /\ Threads /\ ResultsFit

(**************************** quiet children *******************************)
\* A process that nobody has written to.
Fresh(ch) == ~initialized[ch] /\ server[ch] = "new" /\ stdin[ch] = <<>> /\ stdout[ch] = {}

\* The process has done a handshake, or has when it has read n of its lines.
Shaken(ch, n) ==
  \/ server[ch] = "ready"
  \/ server[ch] = "asked" /\ \E k \in 1..n : stdin[ch][k].what = "initialized"

\* What a child knows: calls come after a handshake, and all answers are good.
ChildHolds(ch) ==
  /\ ~proc[ch].alive => Fresh(ch)
  /\ initialized[ch] => Shaken(ch, Len(stdin[ch]))
  /\ \A n \in 1..Len(stdin[ch]) : stdin[ch][n].what = "tools/call" => Shaken(ch, n - 1)
  /\ \A n \in 1..Len(stdin[ch]) : stdin[ch][n].what = "initialized" => server[ch] # "new"
  /\ stdout[ch] # {} => server[ch] # "new"
  /\ \A m \in stdout[ch] : m.ok

\* Nobody else at its child has the message id of the call.
Alone(c) == \A d \in Calls \ {c} : at[d] = at[c] => idOf[d] # idOf[c]

\* The line of a call, or the answer to it, is on its way.
Underway(c, what) ==
  \/ \E n \in 1..Len(stdin[at[c]]) : stdin[at[c]][n].of = c /\ stdin[at[c]][n].what = what
  \/ \E m \in stdout[at[c]] : m.of = c /\ m.what = what

Good(c) == result[c] \in Answers /\ result[c].of = c /\ result[c].ok

\* A call whose ids are its own has its queue and gets its answers.
Served(c) ==
  /\ pc[c] \in Shaking \cup Asking => queues[at[c]][IdOfQueue(c)] = c
  /\ pc[c] = "iwait" => Underway(c, "initialize") \/ slot[c] # NoAnswer
  /\ pc[c] = "wait" => Underway(c, "tools/call") \/ slot[c] # NoAnswer
  /\ pc[c] \notin {"itimeout", "timeout"}
  /\ pc[c] = "done" => Good(c)

CallHolds(ch, c) ==
  /\ pc[c] # "begin" => proc[ch].alive
  /\ pc[c] \in Shaking => c \in shaking[ch]
  /\ slot[c] # NoAnswer => slot[c].ok /\ server[ch] # "new"
  /\ pc[c] \in {"nstart", "nwrite", "nwriting"} => server[ch] # "new"
  /\ pc[c] = "nset" => Shaken(ch, Len(stdin[ch]))
  /\ pc[c] \in Asking => initialized[ch]
  /\ Alone(c) /\ OwnHandshakes(ch) => Served(c)

\* What holds of a child and the calls to it while there is no trouble.
QuietAt(ch) == ChildHolds(ch) /\ \A c \in Calls : at[c] = ch => CallHolds(ch, c)

QuietInv ==
  ~troubled => (\A ch \in Children : QuietAt(ch)) /\ (\A c \in Calls : pc[c] = "new" => slot[c] = NoAnswer)

-----------------------------------------------------------------------------
\* The id of a handshake is none of a client's.
LEMMA HandshakeIds ==
  ASSUME NEW ch \in Children, NEW c \in Calls, time[c] \in Times
  PROVE  HandshakeId(ch, c) \in Ids /\ HandshakeId(ch, c) \notin MsgIds
BY IdsDiffer DEF HandshakeId, SerenaHandshakeId, PiHandshakeId, Ids

LEMMA ClientIds ==
  ASSUME ThreadType, NEW c \in Calls
  PROVE  idOf[c] \in Ids
<1>1. MsgIds \subseteq Ids
  BY DEF Ids
<1> QED BY <1>1 DEF ThreadType

\* A call is only ever sent to a child that is kept.
LEMMA RoutesLeadToChildren ==
  ASSUME NEW w
  PROVE  SerenaChildFor(w) \subseteq Children /\ PiChildFor(w) \subseteq Children
BY ShimConstants DEF SerenaChildFor, PiChildFor, Resolve

LEMMA InitOwn == Init => OwnInv
<1> SUFFICES ASSUME Init PROVE OwnInv
  OBVIOUS
<1>1. PipeType /\ ThreadType
  <2>1. stdin \in [Children -> Seq(Lines)]
    BY DEF Init
  <2>2. queues \in [Children -> [Ids -> Calls \cup {NoCall}]]
    BY DEF Init
  <2>3. stdout \in [Children -> SUBSET Answers] /\ shaking \in [Children -> SUBSET Calls]
    BY DEF Init
  <2>4. proc \in [Children -> [gen : Nat, alive : BOOLEAN]] /\ initialized \in [Children -> BOOLEAN]
        /\ server \in [Children -> {"new", "asked", "ready"}]
    BY DEF Init
  <2>5. idOf \in [Calls -> MsgIds] /\ time \in [Calls -> Times] /\ at \in [Calls -> Children \cup {NoName}] /\ pc \in [Calls -> Labels]
        /\ slot \in [Calls -> Answers \cup {NoAnswer}]
    BY DEF Init, Labels
  <2> QED BY <2>1, <2>2, <2>3, <2>4, <2>5 DEF PipeType, ThreadType, Init
<1>2. LinesFit /\ QueuesFit /\ SlotsFit
  BY IdsDiffer DEF Init, LinesFit, QueuesFit, SlotsFit
<1>3. ResultsFit
  BY DEF Init, OwnAnswerOrSameId, ResultsFit, NoAnswer, Answers, Kinds
<1> QED BY <1>1, <1>2, <1>3 DEF OwnInv, Threads

(* What a step of a call does to the pipes of its child. *)
LEMMA StartType ==
  ASSUME PipeType, NEW ch \in Children, Start(ch) \/ StartFails(ch)
  PROVE  PipeType' /\ stdout' = stdout
<1>1. CASE Running(ch) \/ StartFails(ch)
  BY <1>1 DEF PipeType, Running, StartFails, pipes
<1>2. CASE Spawn(ch)
  <2>1. proc' \in [Children -> [gen : Nat, alive : BOOLEAN]]
    BY <1>2 DEF PipeType, Spawn
  <2>2. stdin' \in [Children -> Seq(Lines)]
    BY <1>2 DEF PipeType, Spawn
  <2> QED BY <1>2, <2>1, <2>2 DEF PipeType, Spawn
<1> QED BY <1>1, <1>2 DEF Start

LEMMA WriteType ==
  ASSUME PipeType, NEW c \in Calls, at[c] \in Children, NEW i \in Ids, NEW what \in Kinds, NEW next,
         Write(c, i, what, next), UNCHANGED <<proc, initialized, troubled>>
  PROVE  PipeType'
<1> DEFINE line == [of |-> c, id |-> i, what |-> what]
<1>1. line \in Lines
  BY DEF Lines
<1>2. stdin' = [stdin EXCEPT ![at[c]] = Append(@, line)]
  BY DEF Write
<1> HIDE DEF line
<1>3. stdin[at[c]] \in Seq(Lines)
  BY DEF PipeType
<1>4. Append(stdin[at[c]], line) \in Seq(Lines)
  BY <1>1, <1>3
<1>5. stdin' \in [Children -> Seq(Lines)]
  BY <1>2, <1>4 DEF PipeType
<1> QED BY <1>5 DEF PipeType, Write

LEMMA RegisterType ==
  ASSUME ThreadType, NEW c \in Calls, at[c] \in Children, NEW i \in Ids,
         Register(c, i) \/ (Unregister(c, i) /\ slot' \in {slot, [slot EXCEPT ![c] = NoAnswer]})
  PROVE  /\ queues' \in [Children -> [Ids -> Calls \cup {NoCall}]]
         /\ slot' \in [Calls -> Answers \cup {NoAnswer}]
<1>1. \E v \in Calls \cup {NoCall} : queues' = [queues EXCEPT ![at[c]][i] = v]
  BY DEF Register, Unregister
<1>2. queues' \in [Children -> [Ids -> Calls \cup {NoCall}]]
  BY <1>1 DEF ThreadType
<1>3. slot' \in [Calls -> Answers \cup {NoAnswer}]
  BY DEF ThreadType, Register
<1> QED BY <1>2, <1>3

\* What is written fits, if its id does.
LEMMA WriteFits ==
  ASSUME PipeType, LinesFit, NEW c \in Calls, at[c] \in Children, NEW i \in Ids, NEW what \in Kinds, NEW next,
         i = IF what = "tools/call" THEN idOf[c] ELSE HandshakeId(at[c], c),
         Write(c, i, what, next), UNCHANGED <<at, idOf, time, time>>
  PROVE  LinesFit'
<1> DEFINE line == [of |-> c, id |-> i, what |-> what]
           ch == at[c]
<1>1. Fits(ch, line)
  BY DEF Fits, IdOfLine
<1>2. line \in Lines
  BY DEF Lines
<1>3. stdin' = [stdin EXCEPT ![ch] = Append(@, line)] /\ stdout' = stdout
  BY DEF Write
<1> HIDE DEF line
<1>4. stdin[ch] \in Seq(Lines) /\ DOMAIN stdin = Children
  BY DEF PipeType
<1>5. ASSUME NEW d \in Children, NEW n \in 1..Len(stdin'[d]) PROVE
        (stdin'[d][n] = line /\ d = ch) \/ (n \in 1..Len(stdin[d]) /\ stdin'[d][n] = stdin[d][n])
  <2>1. CASE d = ch
    BY <2>1, <1>2, <1>3, <1>4
  <2>2. CASE d # ch
    BY <2>2, <1>3, <1>4
  <2> QED BY <2>1, <2>2
<1>6. \A d, m : Fits(d, m) => Fits(d, m)'
  BY DEF Fits, IdOfLine, HandshakeId, SerenaHandshakeId, PiHandshakeId
<1> QED BY <1>1, <1>3, <1>5, <1>6 DEF LinesFit

\* What is left of pipes that fit fits.
LEMMA FewerFit ==
  ASSUME LinesFit, UNCHANGED <<at, idOf, time, time>>,
         \A ch \in Children : stdin'[ch] = stdin[ch] \/ stdin'[ch] = <<>>,
         \A ch \in Children : stdout'[ch] \subseteq stdout[ch]
  PROVE  LinesFit'
<1>1. \A d, m : Fits(d, m) => Fits(d, m)'
  BY DEF Fits, IdOfLine, HandshakeId, SerenaHandshakeId, PiHandshakeId
<1> QED BY <1>1 DEF LinesFit

LEMMA StartFits ==
  ASSUME PipeType, LinesFit, NEW ch \in Children, Start(ch) \/ StartFails(ch), UNCHANGED <<at, idOf, time, time>>
  PROVE  LinesFit'
<1>1. \A d \in Children : stdin'[d] = stdin[d] \/ stdin'[d] = <<>>
  BY DEF PipeType, Start, Running, Spawn, StartFails, pipes
<1>2. stdout' = stdout
  BY StartType
<1> QED BY <1>1, <1>2, FewerFit

-----------------------------------------------------------------------------
(* What it does to the queue of the call: it keeps it, gives it up, takes one, *)
(* or has none.                                                            *)
LEMMA PlaceType ==
  ASSUME ThreadType, NEW c \in Calls, at[c] \in Children, NEW l \in Labels \ {"new"},
         pc' = [pc EXCEPT ![c] = l], UNCHANGED <<at, idOf, time, time>>,
         queues' \in [Children -> [Ids -> Calls \cup {NoCall}]],
         slot' \in [Calls -> Answers \cup {NoAnswer}],
         DOMAIN result' = Calls, shaking' \in [Children -> SUBSET Calls]
  PROVE  ThreadType'
BY DEF ThreadType

LEMMA SameKey ==
  ASSUME UNCHANGED <<at, idOf, time, time>>
  PROVE  /\ \A ch, m : Fits(ch, m)' <=> Fits(ch, m)
         /\ \A c : pc[c] \in Shaking \cup Asking /\ pc'[c] \in Shaking \cup Asking
                    /\ (pc[c] \in Asking <=> pc'[c] \in Asking) => IdOfQueue(c)' = IdOfQueue(c)
BY DEF Fits, IdOfLine, IdOfQueue, HandshakeId, SerenaHandshakeId, PiHandshakeId

LEMMA KeepsQueue ==
  ASSUME Threads, NEW c \in Calls, NEW l, pc' = [pc EXCEPT ![c] = l],
         (pc[c] \in Shaking /\ l \in Shaking) \/ (pc[c] \in Asking /\ l \in Asking),
         UNCHANGED <<at, idOf, time, queues, slot, shaking>>, DOMAIN result' = Calls
  PROVE  Threads'
<1>1. \A d \in Calls : pc'[d] \in Shaking \cup Asking => pc[d] \in Shaking \cup Asking
                                                    /\ IdOfQueue(d)' = IdOfQueue(d)
  BY SameKey DEF Threads, ThreadType, Shaking, Asking
<1>2. \A d \in Calls : pc[d] \in Shaking \cup Asking => pc'[d] \in Shaking \cup Asking
  BY DEF Threads, ThreadType
<1>3. ThreadType'
  BY PlaceType DEF Threads, ThreadType, Labels, Shaking, Asking
<1>4. QueuesFit'
  BY <1>1, <1>2, IdsDiffer DEF Threads, ThreadType, QueuesFit
<1>5. SlotsFit'
  BY <1>1, SameKey DEF Threads, SlotsFit
<1> QED BY <1>3, <1>4, <1>5 DEF Threads

LEMMA GivesUpQueue ==
  ASSUME Threads, NEW c \in Calls, NEW l \in Labels, l \notin Shaking \cup Asking, l # "new",
         pc' = [pc EXCEPT ![c] = l], pc[c] \in Shaking \cup Asking, Unregister(c, IdOfQueue(c)),
         slot' \in {slot, [slot EXCEPT ![c] = NoAnswer]},
         UNCHANGED <<at, idOf, time, shaking>>, DOMAIN result' = Calls
  PROVE  Threads'
<1>1. at[c] \in Children /\ IdOfQueue(c) \in Ids
  BY HandshakeIds DEF Threads, ThreadType, IdOfQueue, Shaking, Asking, Ids
<1>2. ThreadType'
  BY <1>1, RegisterType, PlaceType DEF Threads, ThreadType
<1>3. \A d \in Calls : d # c => pc'[d] = pc[d]
  BY DEF Threads, ThreadType
<1>4. \A d \in Calls : d # c => IdOfQueue(d)' = IdOfQueue(d)
  BY <1>3, SameKey DEF IdOfQueue, HandshakeId, SerenaHandshakeId, PiHandshakeId
<1>5. \A ch \in Children, i \in Ids : queues'[ch][i] # NoCall =>
        queues'[ch][i] = queues[ch][i] /\ queues[ch][i] \in Calls /\ queues[ch][i] # c
  BY <1>1 DEF Threads, ThreadType, QueuesFit, Unregister
<1>6. QueuesFit'
  BY <1>3, <1>4, <1>5 DEF Threads, QueuesFit
<1>7. \A d \in Calls : pc'[d] \in Shaking \cup Asking => d # c
  BY DEF Threads, ThreadType
<1>8. SlotsFit'
  BY <1>3, <1>4, <1>7, SameKey DEF Threads, SlotsFit, ThreadType
<1> QED BY <1>2, <1>6, <1>8 DEF Threads

LEMMA TakesQueue ==
  ASSUME Threads, NEW c \in Calls, NEW l \in Shaking \cup Asking, at[c] \in Children,
         pc' = [pc EXCEPT ![c] = l], pc[c] \notin Shaking \cup Asking,
         Register(c, IF l \in Asking THEN idOf[c] ELSE HandshakeId(at[c], c)),
         UNCHANGED <<at, idOf, time, time>>, DOMAIN result' = Calls, shaking' \in [Children -> SUBSET Calls]
  PROVE  Threads'
<1> DEFINE i == IF l \in Asking THEN idOf[c] ELSE HandshakeId(at[c], c)
<1>1. i \in Ids
  BY HandshakeIds DEF Threads, ThreadType, Ids
<1>2. queues' = [queues EXCEPT ![at[c]][i] = c] /\ slot' = [slot EXCEPT ![c] = NoAnswer]
  BY DEF Register
<1>3. l \in Labels \ {"new"}
  BY DEF Labels, Shaking, Asking
<1>4. ThreadType'
  BY <1>1, <1>3, RegisterType, PlaceType DEF Threads, ThreadType
<1>5. \A d \in Calls : d # c => pc'[d] = pc[d]
  BY DEF Threads, ThreadType
<1>6. \A d \in Calls : d # c => IdOfQueue(d)' = IdOfQueue(d)
  BY <1>5, SameKey DEF IdOfQueue, HandshakeId, SerenaHandshakeId, PiHandshakeId
<1>7. IdOfQueue(c)' = i /\ pc'[c] = l
  BY DEF IdOfQueue, HandshakeId, SerenaHandshakeId, PiHandshakeId, Threads, ThreadType
<1> HIDE DEF i
<1>8. \A ch \in Children, k \in Ids :
        \/ queues'[ch][k] = c /\ ch = at[c] /\ k = i
        \/ queues'[ch][k] = queues[ch][k] /\ queues[ch][k] # c
  <2>1. \A ch \in Children, k \in Ids : queues[ch][k] # c
    BY IdsDiffer DEF Threads, QueuesFit
  <2>2. queues \in [Children -> [Ids -> Calls \cup {NoCall}]]
    BY DEF Threads, ThreadType
  <2> QED BY <2>1, <2>2, <1>1, <1>2
<1>9. QueuesFit'
  <2>1. ASSUME NEW ch \in Children, NEW k \in Ids, NEW d \in Calls, queues'[ch][k] = d
        PROVE  at'[d] = ch /\ pc'[d] \in Shaking \cup Asking /\ k = IdOfQueue(d)'
    <3>1. CASE d = c
      BY <2>1, <3>1, <1>7, <1>8
    <3>2. CASE d # c
      <4>1. queues[ch][k] = d
        BY <1>8, <3>2, <2>1
      <4>2. at[d] = ch /\ pc[d] \in Shaking \cup Asking /\ k = IdOfQueue(d)
        BY <4>1, IdsDiffer DEF Threads, QueuesFit
      <4> QED BY <3>2, <4>2, <1>5, <1>6
    <3> QED BY <3>1, <3>2
  <2> QED BY <2>1, <1>4 DEF QueuesFit, ThreadType
<1>10. SlotsFit'
  BY <1>2, <1>5, <1>6, SameKey DEF Threads, ThreadType, SlotsFit
<1> QED BY <1>4, <1>9, <1>10 DEF Threads

LEMMA HasNoQueue ==
  ASSUME Threads, NEW c \in Calls, NEW l \in Labels, l \notin Shaking \cup Asking, l # "new",
         pc' = [pc EXCEPT ![c] = l], pc[c] \notin Shaking \cup Asking,
         UNCHANGED <<idOf, time, queues, slot>>, DOMAIN result' = Calls, shaking' \in [Children -> SUBSET Calls],
         at' = at \/ (pc[c] = "new" /\ \E ch \in Children : at' = [at EXCEPT ![c] = ch]),
         at'[c] \in Children \/ l = "done"
  PROVE  Threads'
<1>1. ThreadType'
  BY DEF Threads, ThreadType
<1>2. \A d \in Calls : pc[d] \in Shaking \cup Asking => d # c /\ pc'[d] = pc[d] /\ at'[d] = at[d]
  BY DEF Threads, ThreadType
<1>3. \A d \in Calls : pc'[d] \in Shaking \cup Asking => d # c /\ pc'[d] = pc[d] /\ at'[d] = at[d]
  BY DEF Threads, ThreadType
<1>4. \A d \in Calls : pc[d] \in Shaking \cup Asking => IdOfQueue(d)' = IdOfQueue(d)
  BY <1>2 DEF IdOfQueue, HandshakeId, SerenaHandshakeId, PiHandshakeId
<1>5. QueuesFit'
  BY <1>2, <1>4, IdsDiffer DEF Threads, ThreadType, QueuesFit
<1>6. ASSUME NEW d \in Calls, pc[d] \in Shaking \cup Asking, slot[d] # NoAnswer
      PROVE  Fits(at[d], slot[d])'
  <2>1. Fits(at[d], slot[d]) /\ slot[d].of \in Calls /\ at[d] \in Children
    BY <1>6 DEF Threads, ThreadType, SlotsFit, Answers, Shaking, Asking
  <2>2. at'[slot[d].of] = at[slot[d].of]
    BY <2>1, ShimConstants DEF Fits, Threads, ThreadType
  <2> QED BY <2>1, <2>2, <1>2, <1>6 DEF Fits, IdOfLine, HandshakeId, SerenaHandshakeId, PiHandshakeId
<1>7. SlotsFit'
  BY <1>2, <1>3, <1>4, <1>6 DEF Threads, SlotsFit
<1> QED BY <1>1, <1>5, <1>7 DEF Threads

-----------------------------------------------------------------------------
(* The steps. *)
LEMMA NotAnAnswer == \A w \in {"failed", "timeout", "local", "refused"} : [what |-> w] \notin Answers
BY DEF Answers, Kinds

LEMMA ResultsStay ==
  ASSUME ResultsFit, Threads, UNCHANGED <<idOf, at, time>>, NEW c \in Calls,
         result' = result \/ \E w \in {"failed", "timeout", "local", "refused"} :
                                result' = [result EXCEPT ![c] = [what |-> w]]
  PROVE  ResultsFit' /\ DOMAIN result' = Calls
<1>1. \A d \in Calls : result'[d] \in Answers => result'[d] = result[d]
  BY NotAnAnswer DEF Threads, ThreadType
<1>2. DOMAIN result' = Calls
  BY DEF Threads, ThreadType
<1>3. \A d \in Calls : result[d] \in Answers => result[d].of \in Calls
  BY DEF Answers
<1> QED BY <1>1, <1>2, <1>3 DEF ResultsFit, OwnAnswerOrSameId

LEMMA OwnAnswersLocally ==
  ASSUME OwnInv, UNCHANGED <<idOf, who, time>>, NEW c \in Calls, AnswerLocally(c) \/ Reject(c) \/ Refuse(c)
  PROVE  OwnInv'
<1>1. PICK w \in {"local", "refused"} : pc[c] = "new" /\ AnsweredAtOnce(c, w)
  BY DEF AnswerLocally, Reject, Refuse
<1>2. UNCHANGED <<proc, initialized, server, stdin, stdout, queues, slot, at, shaking, troubled>>
      /\ pc' = [pc EXCEPT ![c] = "done"] /\ result' = [result EXCEPT ![c] = [what |-> w]]
  BY <1>1 DEF AnsweredAtOnce, pipes, threads
<1>3. PipeType' /\ LinesFit'
  BY <1>2, FewerFit DEF OwnInv, PipeType
<1>4. ResultsFit' /\ DOMAIN result' = Calls
  BY <1>2, ResultsStay DEF OwnInv
<1>5. Threads'
  BY <1>1, <1>2, <1>4, HasNoQueue DEF OwnInv, Threads, ThreadType, Labels, Shaking, Asking
<1> QED BY <1>3, <1>4, <1>5 DEF OwnInv

LEMMA PipesOfCalls ==
  ASSUME PipeType, NEW ch \in Children
  PROVE  /\ \A n \in 1..Len(stdin[ch]) : stdin[ch][n] \in Lines /\ stdin[ch][n].of \in Calls
         /\ \A m \in stdout[ch] : m \in Answers /\ m.of \in Calls
<1>1. stdin[ch] \in Seq(Lines) /\ stdout[ch] \subseteq Answers
  BY DEF PipeType
<1>2. \A n \in 1..Len(stdin[ch]) : stdin[ch][n] \in Lines
  BY <1>1
<1>3. (\A l \in Lines : l.of \in Calls) /\ \A m \in Answers : m.of \in Calls
  BY DEF Lines, Answers
<1> QED BY <1>1, <1>2, <1>3

LEMMA OwnRoute ==
  ASSUME OwnInv, UNCHANGED <<idOf, who, time>>, NEW c \in Calls, SerenaRoute(c) \/ PiRoute(c)
  PROVE  OwnInv'
<1>1. PICK ch \in Children : at' = [at EXCEPT ![c] = ch]
  BY RoutesLeadToChildren DEF SerenaRoute, PiRoute, RouteTo
<1>2. UNCHANGED <<proc, initialized, server, stdin, stdout, queues, slot, result, shaking, troubled>>
      /\ pc[c] = "new" /\ pc' = [pc EXCEPT ![c] = "begin"]
  BY DEF SerenaRoute, PiRoute, RouteTo, pipes, threads
<1>3. \A d \in Calls : at[d] \in Children => d # c /\ at'[d] = at[d]
  BY <1>1, <1>2, ShimConstants DEF OwnInv, Threads, ThreadType
<1>4. PipeType'
  BY <1>2 DEF OwnInv, PipeType
<1>5. LinesFit'
  <2>1. ASSUME NEW d \in Children, NEW m, m.of \in Calls, Fits(d, m) PROVE Fits(d, m)'
    BY <1>3, <2>1 DEF Fits, IdOfLine, HandshakeId, SerenaHandshakeId, PiHandshakeId
  <2>2. \A d \in Children : (\A n \in 1..Len(stdin[d]) : stdin[d][n].of \in Calls)
                           /\ \A m \in stdout[d] : m.of \in Calls
    BY PipesOfCalls DEF OwnInv
  <2>3. ASSUME NEW d \in Children, NEW n \in 1..Len(stdin'[d]) PROVE Fits(d, stdin[d][n])'
    BY <2>1, <2>2, <1>2 DEF OwnInv, LinesFit
  <2>4. ASSUME NEW d \in Children, NEW m \in stdout'[d] PROVE Fits(d, m)'
    BY <2>1, <2>2, <1>2 DEF OwnInv, LinesFit
  <2> QED BY <2>3, <2>4 DEF LinesFit
<1>6. ResultsFit'
  <2>1. \A d \in Calls : result[d] \in Answers => result[d].of \in Calls /\ at[d] \in Children
    BY DEF OwnInv, ResultsFit, Answers
  <2> QED BY <2>1, <1>2, <1>3 DEF OwnInv, ResultsFit, OwnAnswerOrSameId
<1>7. Threads'
  <2>1. at'[c] \in Children
    BY <1>1 DEF OwnInv, Threads, ThreadType
  <2> QED BY <2>1, <1>1, <1>2, HasNoQueue DEF OwnInv, Threads, ThreadType, Labels, Shaking, Asking
<1> QED BY <1>4, <1>5, <1>6, <1>7 DEF OwnInv

LEMMA OwnBegin ==
  ASSUME OwnInv, UNCHANGED <<idOf, who, time>>, NEW c \in Calls, at[c] \in Children, Begin(c)
  PROVE  OwnInv'
<1>1. PipeType' /\ LinesFit'
  BY StartType, StartFits DEF OwnInv, Begin
<1>2. ResultsFit' /\ DOMAIN result' = Calls
  BY ResultsStay DEF OwnInv, Begin, Go, Return
<1>3. Threads'
  <2>1. CASE Register(c, idOf[c]) /\ Go(c, "write")
    BY <2>1, <1>2, TakesQueue DEF OwnInv, Begin, Go, Threads, ThreadType, Shaking, Asking
  <2>2. CASE Go(c, "istart") /\ UNCHANGED threads
    BY <2>2, <1>2, HasNoQueue DEF OwnInv, Threads, ThreadType, Begin, Go, threads, Labels, Shaking, Asking
  <2>3. CASE Return(c, [what |-> "failed"]) /\ UNCHANGED threads
    BY <2>3, <1>2, HasNoQueue DEF OwnInv, Threads, ThreadType, Begin, Return, threads, Labels, Shaking, Asking
  <2> QED BY <2>1, <2>2, <2>3 DEF Begin
<1> QED BY <1>1, <1>2, <1>3 DEF OwnInv

LEMMA OwnWrite ==
  ASSUME OwnInv, UNCHANGED <<idOf, who, time>>, NEW c \in Calls, at[c] \in Children, WriteCall(c) \/ HandshakeWrite(c)
  PROVE  OwnInv'
<1> DEFINE i == IdOfQueue(c)
           what == IF pc[c] = "writing" THEN "tools/call" ELSE "initialize"
           next == IF pc[c] = "writing" THEN "wait" ELSE "iwait"
<1>1. UNCHANGED <<bound, proc, initialized, at, shaking, troubled>>
  BY DEF WriteCall, HandshakeWrite
<1>2. pc[c] \in {"write", "writing", "iwrite", "iwriting"} /\ i \in Ids /\ what \in Kinds
      /\ (pc[c] \in {"writing", "iwriting"} => i = IF what = "tools/call" THEN idOf[c] ELSE HandshakeId(at[c], c))
  BY HandshakeIds DEF OwnInv, Threads, ThreadType, IdOfQueue, Asking, Ids, Kinds, WriteCall, HandshakeWrite, Broken
<1>3. \/ pc[c] = "write" /\ TakeLock(c, "writing")
      \/ pc[c] = "iwrite" /\ TakeLock(c, "iwriting")
      \/ pc[c] \in {"writing", "iwriting"} /\ Write(c, i, what, next)
      \/ /\ UNCHANGED <<stdin, stdout, server, slot, blocked>>
         /\ Unregister(c, i) /\ Return(c, [what |-> "failed"])
  BY DEF WriteCall, HandshakeWrite, Broken, IdOfQueue, Asking
<1>4. CASE \/ pc[c] = "write" /\ TakeLock(c, "writing")
           \/ pc[c] = "iwrite" /\ TakeLock(c, "iwriting")
  <2>1. PipeType' /\ LinesFit'
    BY <1>1, <1>4, FewerFit DEF OwnInv, PipeType, TakeLock
  <2>2. ResultsFit' /\ DOMAIN result' = Calls
    BY <1>1, <1>4, ResultsStay DEF OwnInv, TakeLock, Go
  <2>3. Threads'
    BY <1>1, <1>4, <2>2, KeepsQueue DEF OwnInv, TakeLock, Go, threads, Shaking, Asking
  <2> QED BY <2>1, <2>2, <2>3 DEF OwnInv
<1>5. CASE pc[c] \in {"writing", "iwriting"} /\ Write(c, i, what, next)
  <2>1. pc' = [pc EXCEPT ![c] = next] /\ UNCHANGED <<queues, slot>>
        /\ \/ pc[c] = "writing" /\ next = "wait"
           \/ pc[c] = "iwriting" /\ next = "iwait"
    BY <1>5 DEF Write, Go, threads
  <2> HIDE DEF i, what, next
  <2>2. PipeType' /\ LinesFit'
    BY <1>1, <1>2, <1>5, WriteType, WriteFits DEF OwnInv
  <2>3. ResultsFit' /\ DOMAIN result' = Calls
    BY <1>1, <1>5, ResultsStay DEF OwnInv, Write, Go
  <2>4. Threads'
    BY <1>1, <2>1, <2>3, KeepsQueue DEF OwnInv, Shaking, Asking
  <2> QED BY <2>2, <2>3, <2>4 DEF OwnInv
<1>6. CASE /\ UNCHANGED <<stdin, stdout, server, slot, blocked>>
           /\ Unregister(c, i) /\ Return(c, [what |-> "failed"])
  <2>1. PipeType' /\ LinesFit'
    BY <1>1, <1>6, FewerFit DEF OwnInv, PipeType
  <2>2. ResultsFit' /\ DOMAIN result' = Calls
    BY <1>1, <1>6, ResultsStay DEF OwnInv, Return
  <2>3. Threads'
    BY <1>1, <1>2, <1>6, <2>2, GivesUpQueue DEF i, OwnInv, Return, Labels, Shaking, Asking
  <2> QED BY <2>1, <2>2, <2>3 DEF OwnInv
<1> QED BY <1>3, <1>4, <1>5, <1>6

LEMMA OwnTakes ==
  ASSUME OwnInv, UNCHANGED <<idOf, who, time>>, NEW c \in Calls, at[c] \in Children,
         GetAnswer(c) \/ HandshakeAnswered(c)
  PROVE  OwnInv'
<1>1. /\ UNCHANGED <<proc, initialized, server, stdin, stdout, at, shaking, troubled>>
      /\ slot' = [slot EXCEPT ![c] = NoAnswer] /\ slot[c] # NoAnswer
      /\ pc[c] \in {"wait", "iwait"} /\ Unregister(c, IdOfQueue(c))
  BY DEF GetAnswer, HandshakeAnswered, Take, IdOfQueue, Asking, pipes
<1>2. PICK l \in {"done", "nstart"} : pc' = [pc EXCEPT ![c] = l]
  BY DEF GetAnswer, HandshakeAnswered, Return, Go
<1>3. \/ result' = result \/ result' = [result EXCEPT ![c] = [what |-> "failed"]]
      \/ pc[c] = "wait" /\ result' = [result EXCEPT ![c] = slot[c]]
  BY DEF GetAnswer, HandshakeAnswered, Return, Go
<1>4. PipeType' /\ LinesFit'
  BY <1>1, FewerFit DEF OwnInv, PipeType
<1>5. DOMAIN result' = Calls
  BY <1>3 DEF OwnInv, Threads, ThreadType
<1>6. Threads'
  BY <1>1, <1>2, <1>5, GivesUpQueue DEF OwnInv, Labels, Shaking, Asking
<1>7. CASE result' = result \/ result' = [result EXCEPT ![c] = [what |-> "failed"]]
  <2>1. ResultsFit'
    BY <1>1, <1>7, ResultsStay DEF OwnInv
  <2> QED BY <1>4, <1>6, <2>1 DEF OwnInv
<1>8. CASE pc[c] = "wait" /\ result' = [result EXCEPT ![c] = slot[c]]
  <2>1. /\ slot[c] \in Answers /\ at[slot[c].of] = at[c] /\ slot[c].id = IdOfLine(at[c], slot[c])
        /\ slot[c].id = idOf[c] /\ idOf[c] \in MsgIds
    BY <1>1, <1>8 DEF OwnInv, Threads, ThreadType, SlotsFit, Fits, IdOfQueue, Shaking, Asking
  <2>2. slot[c].of \in Calls
    BY <2>1 DEF Answers
  <2>3. slot[c].what = "tools/call" /\ idOf[slot[c].of] = idOf[c]
    BY <2>1, <2>2, HandshakeIds DEF IdOfLine, OwnInv, Threads, ThreadType
  <2>4. result'[c] = slot[c] /\ \A d \in Calls \ {c} : result'[d] = result[d]
    BY <1>8 DEF OwnInv, Threads, ThreadType
  <2>5. ASSUME NEW d \in Calls, result'[d] \in Answers
        PROVE  /\ at[d] \in Children /\ result'[d].what = "tools/call" /\ at[result'[d].of] = at[d]
               /\ result'[d].of # d => idOf[result'[d].of] = idOf[d]
    <3>1. CASE d = c
      BY <2>1, <2>3, <2>4, <3>1
    <3>2. CASE d # c
      BY <2>4, <2>5, <3>2 DEF OwnInv, ResultsFit, OwnAnswerOrSameId
    <3> QED BY <3>1, <3>2
  <2>6. ResultsFit'
    BY <1>1, <2>5 DEF ResultsFit, OwnAnswerOrSameId
  <2> QED BY <1>4, <1>6, <2>6 DEF OwnInv
<1> QED BY <1>3, <1>7, <1>8

LEMMA OwnTimesOut ==
  ASSUME OwnInv, UNCHANGED <<idOf, who, time>>, NEW c \in Calls, at[c] \in Children,
         GetTimesOut(c) \/ HandshakeTimesOut(c)
  PROVE  OwnInv'
<1>1. /\ UNCHANGED <<proc, initialized, stdin, stdout, server, queues, slot, at, result, shaking>>
      /\ troubled' \in BOOLEAN
      /\ \/ pc[c] = "wait" /\ pc' = [pc EXCEPT ![c] = "timeout"]
         \/ pc[c] = "iwait" /\ pc' = [pc EXCEPT ![c] = "itimeout"]
  BY DEF GetTimesOut, HandshakeTimesOut, TimesOut, Go, pipes, threads
<1>2. PipeType' /\ LinesFit'
  BY <1>1, FewerFit DEF OwnInv, PipeType
<1>3. ResultsFit' /\ DOMAIN result' = Calls
  BY <1>1, ResultsStay DEF OwnInv
<1>4. Threads'
  BY <1>1, <1>3, KeepsQueue DEF OwnInv, Shaking, Asking
<1> QED BY <1>2, <1>3, <1>4 DEF OwnInv

LEMMA OwnGivesUp ==
  ASSUME OwnInv, UNCHANGED <<idOf, who, time>>, NEW c \in Calls, at[c] \in Children,
         GiveUp(c) \/ HandshakeGivesUp(c)
  PROVE  OwnInv'
<1>1. /\ UNCHANGED <<proc, initialized, stdin, stdout, server, slot, at, shaking, troubled>>
      /\ pc[c] \in {"timeout", "itimeout"} /\ pc' = [pc EXCEPT ![c] = "done"]
      /\ result' = [result EXCEPT ![c] = [what |-> "timeout"]]
      /\ Unregister(c, IdOfQueue(c))
  BY DEF GiveUp, HandshakeGivesUp, Return, IdOfQueue, Asking, pipes
<1>2. PipeType' /\ LinesFit'
  BY <1>1, FewerFit DEF OwnInv, PipeType
<1>3. ResultsFit' /\ DOMAIN result' = Calls
  BY <1>1, ResultsStay DEF OwnInv
<1>4. Threads'
  BY <1>1, <1>3, GivesUpQueue DEF OwnInv, Labels, Shaking, Asking
<1> QED BY <1>2, <1>3, <1>4 DEF OwnInv

LEMMA OwnHandshakeStart ==
  ASSUME OwnInv, UNCHANGED <<idOf, who, time>>, NEW c \in Calls, at[c] \in Children, HandshakeStart(c)
  PROVE  OwnInv'
<1>1. PipeType' /\ LinesFit'
  BY StartType, StartFits DEF OwnInv, HandshakeStart
<1>2. ResultsFit' /\ DOMAIN result' = Calls
  BY ResultsStay DEF OwnInv, HandshakeStart, Go, Return
<1>3. shaking' \in [Children -> SUBSET Calls]
  BY DEF OwnInv, Threads, ThreadType, HandshakeStart
<1>4. Threads'
  <2>1. CASE Register(c, HandshakeId(at[c], c)) /\ Go(c, "iwrite")
    BY <2>1, <1>2, <1>3, TakesQueue DEF OwnInv, HandshakeStart, Go, Shaking, Asking
  <2>2. CASE Return(c, [what |-> "failed"]) /\ UNCHANGED threads
    BY <2>2, <1>2, <1>3, HasNoQueue DEF OwnInv, HandshakeStart, Return, threads, Labels, Shaking, Asking
  <2> QED BY <2>1, <2>2 DEF HandshakeStart
<1> QED BY <1>1, <1>2, <1>4 DEF OwnInv

LEMMA OwnNotifyStart ==
  ASSUME OwnInv, UNCHANGED <<idOf, who, time>>, NEW c \in Calls, at[c] \in Children, NotifyStart(c)
  PROVE  OwnInv'
<1>1. PipeType' /\ LinesFit'
  BY StartType, StartFits DEF OwnInv, NotifyStart
<1>2. ResultsFit' /\ DOMAIN result' = Calls
  BY ResultsStay DEF OwnInv, NotifyStart, Go
<1>3. PICK l \in {"nwrite", "nset"} : pc' = [pc EXCEPT ![c] = l]
  BY DEF NotifyStart, Go
<1>4. Threads'
  BY <1>2, <1>3, HasNoQueue DEF OwnInv, Threads, ThreadType, NotifyStart, threads, Labels, Shaking, Asking
<1> QED BY <1>1, <1>2, <1>4 DEF OwnInv

LEMMA OwnNotifyWrite ==
  ASSUME OwnInv, UNCHANGED <<idOf, who, time>>, NEW c \in Calls, at[c] \in Children, NotifyWrite(c)
  PROVE  OwnInv'
<1>1. /\ UNCHANGED <<proc, initialized, queues, slot, at, result, shaking, troubled>>
      /\ pc[c] \in {"nwrite", "nwriting"}
  BY DEF NotifyWrite, TakeLock, Write, Broken, Go, threads
<1>2. PICK l \in {"nwriting", "nset"} : pc' = [pc EXCEPT ![c] = l]
  BY DEF NotifyWrite, TakeLock, Write, Go
<1>3. PipeType' /\ LinesFit'
  <2>1. CASE Write(c, HandshakeId(at[c], c), "initialized", "nset")
    BY <1>1, <2>1, HandshakeIds, WriteType, WriteFits DEF OwnInv, Threads, ThreadType, Kinds
  <2>2. CASE UNCHANGED <<stdin, stdout, server>>
    BY <1>1, <2>2, FewerFit DEF OwnInv, PipeType
  <2> QED BY <2>1, <2>2 DEF NotifyWrite, TakeLock, Broken
<1>4. ResultsFit' /\ DOMAIN result' = Calls
  BY <1>1, ResultsStay DEF OwnInv
<1>5. Threads'
  BY <1>1, <1>2, <1>4, HasNoQueue DEF OwnInv, Threads, ThreadType, Labels, Shaking, Asking
<1> QED BY <1>3, <1>4, <1>5 DEF OwnInv

LEMMA OwnSetInitialized ==
  ASSUME OwnInv, UNCHANGED <<idOf, who, time>>, NEW c \in Calls, at[c] \in Children, SetInitialized(c)
  PROVE  OwnInv'
<1>1. PipeType' /\ LinesFit'
  BY FewerFit DEF OwnInv, PipeType, SetInitialized, pipes
<1>2. ResultsFit' /\ DOMAIN result' = Calls
  BY ResultsStay DEF OwnInv, SetInitialized, Go
<1>3. Threads'
  BY <1>2, TakesQueue DEF OwnInv, Threads, ThreadType, SetInitialized, Go, Shaking, Asking
<1> QED BY <1>1, <1>2, <1>3 DEF OwnInv

LEMMA OwnDeliver ==
  ASSUME OwnInv, UNCHANGED <<idOf, who, time>>, NEW ch \in Children, NEW m \in stdout[ch], Deliver(ch, m)
  PROVE  OwnInv'
<1> DEFINE q == queues[ch][m.id]
<1>1. /\ UNCHANGED <<proc, initialized, server, stdin, queues, pc, at, result, shaking, troubled>>
      /\ stdout' = [stdout EXCEPT ![ch] = @ \ {m}]
      /\ slot' = slot \/ (q # NoCall /\ slot' = [slot EXCEPT ![q] = m])
  BY DEF Deliver
<1>2. m \in Answers /\ m.id \in Ids
  BY PipesOfCalls DEF OwnInv, Answers
<1>3. PipeType' /\ LinesFit'
  <2>1. \A d \in Children : stdout'[d] \subseteq stdout[d]
    BY <1>1 DEF OwnInv, PipeType
  <2>2. stdout' \in [Children -> SUBSET Answers]
    BY <1>1 DEF OwnInv, PipeType
  <2> QED BY <1>1, <2>1, <2>2, FewerFit DEF OwnInv, PipeType
<1>4. ResultsFit' /\ DOMAIN result' = Calls
  BY <1>1 DEF OwnInv, ResultsFit, OwnAnswerOrSameId, Threads, ThreadType
<1>5. CASE slot' = slot
  BY <1>1, <1>3, <1>4, <1>5, SameKey
     DEF OwnInv, Threads, ThreadType, QueuesFit, SlotsFit, IdOfQueue, HandshakeId, SerenaHandshakeId, PiHandshakeId
<1>6. CASE q # NoCall /\ slot' = [slot EXCEPT ![q] = m]
  <2>1. q \in Calls
    BY <1>2, <1>6 DEF OwnInv, Threads, ThreadType
  <2>2. at[q] = ch /\ m.id = IdOfQueue(q)
    BY <1>2, <1>6 DEF OwnInv, Threads, QueuesFit
  <2>3. Fits(ch, m)
    BY DEF OwnInv, LinesFit
  <2> HIDE DEF q
  <2>4. ThreadType' /\ QueuesFit'
    BY <1>1, <1>2, <1>6, <2>1 DEF OwnInv, Threads, ThreadType, QueuesFit, IdOfQueue, HandshakeId, SerenaHandshakeId, PiHandshakeId
  <2>5. \A d \in Calls : IdOfQueue(d)' = IdOfQueue(d)
    BY <1>1 DEF IdOfQueue, HandshakeId, SerenaHandshakeId, PiHandshakeId
  <2>6. slot'[q] = m /\ \A d \in Calls \ {q} : slot'[d] = slot[d]
    BY <1>6, <2>1 DEF OwnInv, Threads, ThreadType
  <2>7. SlotsFit'
    BY <1>1, <2>1, <2>2, <2>3, <2>5, <2>6, SameKey DEF OwnInv, Threads, SlotsFit
  <2> QED BY <1>3, <1>4, <2>4, <2>7 DEF OwnInv, Threads
<1> QED BY <1>1, <1>5, <1>6

LEMMA OwnConsume ==
  ASSUME OwnInv, UNCHANGED <<idOf, who, time>>, NEW ch \in Children, Consume(ch)
  PROVE  OwnInv'
<1> DEFINE line == Head(stdin[ch])
           reply(good) == [of |-> line.of, id |-> line.id, what |-> line.what,
                           gen |-> proc[ch].gen, ok |-> good]
<1>1. /\ UNCHANGED <<proc, initialized, queues, slot, pc, at, result, shaking>>
      /\ troubled' \in BOOLEAN
      /\ stdin' = [stdin EXCEPT ![ch] = Tail(@)] /\ stdin[ch] # <<>>
  BY DEF Consume, threads, OwnInv, PipeType
<1>2. stdout' = stdout \/ \E good \in BOOLEAN : stdout' = [stdout EXCEPT ![ch] = @ \cup {reply(good)}]
  BY DEF Consume
<1>3. server' \in [Children -> {"new", "asked", "ready"}]
  BY DEF Consume, OwnInv, PipeType
<1>4. stdin[ch] \in Seq(Lines)
  BY DEF OwnInv, PipeType
<1>5. /\ Tail(stdin[ch]) \in Seq(Lines) /\ line \in Lines /\ line = stdin[ch][1] /\ 1 \in 1..Len(stdin[ch])
      /\ \A n \in 1..Len(Tail(stdin[ch])) : n + 1 \in 1..Len(stdin[ch]) /\ Tail(stdin[ch])[n] = stdin[ch][n + 1]
  BY <1>1, <1>4
<1>6. Fits(ch, line)
  BY <1>5 DEF OwnInv, LinesFit
<1> HIDE DEF line
<1>7. ASSUME NEW good \in BOOLEAN PROVE reply(good) \in Answers /\ Fits(ch, reply(good))
  <2>1. reply(good) \in Answers
    BY <1>5 DEF Lines, Answers, OwnInv, PipeType
  <2> QED BY <1>6, <2>1 DEF Fits, IdOfLine
<1> HIDE DEF reply
<1>8. PipeType'
  <2>1. stdin' \in [Children -> Seq(Lines)]
    BY <1>1, <1>5 DEF OwnInv, PipeType
  <2>2. \E new \in SUBSET Answers : stdout' = [stdout EXCEPT ![ch] = @ \cup new]
    <3>1. CASE stdout' = stdout
      <4>1. stdout' = [stdout EXCEPT ![ch] = @ \cup {}]
        BY <3>1 DEF OwnInv, PipeType
      <4> QED BY <4>1
    <3>2. CASE \E good \in BOOLEAN : stdout' = [stdout EXCEPT ![ch] = @ \cup {reply(good)}]
      BY <3>2, <1>7
    <3> QED BY <3>1, <3>2, <1>2
  <2>3. stdout' \in [Children -> SUBSET Answers]
    BY <2>2 DEF OwnInv, PipeType
  <2> QED BY <1>1, <1>3, <2>1, <2>3 DEF OwnInv, PipeType
<1>9. LinesFit'
  <2>1. ASSUME NEW d \in Children, NEW n \in 1..Len(stdin'[d]) PROVE Fits(d, stdin'[d][n])
    <3>1. CASE d = ch
      <4>1. stdin'[d] = Tail(stdin[ch])
        BY <1>1, <3>1 DEF OwnInv, PipeType
      <4>2. stdin'[d][n] = stdin[ch][n + 1] /\ n + 1 \in 1..Len(stdin[ch])
        BY <4>1, <1>5
      <4> QED BY <4>2, <3>1 DEF OwnInv, LinesFit
    <3>2. CASE d # ch
      <4>1. stdin'[d] = stdin[d]
        BY <1>1, <3>2 DEF OwnInv, PipeType
      <4> QED BY <4>1 DEF OwnInv, LinesFit
    <3> QED BY <3>1, <3>2
  <2>2. ASSUME NEW d \in Children, NEW m \in stdout'[d] PROVE Fits(d, m)
    <3>1. CASE m \in stdout[d]
      BY <3>1 DEF OwnInv, LinesFit
    <3>2. CASE m \notin stdout[d]
      <4>1. d = ch /\ \E good \in BOOLEAN : m = reply(good)
        BY <1>2, <3>2 DEF OwnInv, PipeType
      <4> QED BY <4>1, <1>7
    <3> QED BY <3>1, <3>2
  <2> QED BY <1>1, <2>1, <2>2, SameKey DEF LinesFit
<1>10. Threads' /\ ResultsFit'
  BY <1>1, SameKey DEF OwnInv, Threads, ThreadType, QueuesFit, SlotsFit, IdOfQueue, HandshakeId, SerenaHandshakeId,
                       PiHandshakeId, ResultsFit, OwnAnswerOrSameId
<1> QED BY <1>8, <1>9, <1>10 DEF OwnInv

LEMMA OwnRest ==
  ASSUME OwnInv, UNCHANGED <<queues, slot, pc, at, result, shaking, idOf, time, initialized, server>>,
         PipeType', \A ch \in Children : stdin'[ch] = stdin[ch] \/ stdin'[ch] = <<>>,
         \A ch \in Children : stdout'[ch] \subseteq stdout[ch]
  PROVE  OwnInv'
<1>1. LinesFit'
  BY FewerFit DEF OwnInv
<1>2. Threads' /\ ResultsFit'
  BY SameKey DEF OwnInv, Threads, ThreadType, QueuesFit, SlotsFit, IdOfQueue, HandshakeId, SerenaHandshakeId,
                 PiHandshakeId, ResultsFit, OwnAnswerOrSameId
<1> QED BY <1>1, <1>2 DEF OwnInv

LEMMA OwnDie ==
  ASSUME OwnInv, UNCHANGED <<idOf, who, time>>, NEW ch \in Children, Die(ch)
  PROVE  OwnInv'
<1>1. PipeType'
  <2>1. stdin' \in [Children -> Seq(Lines)]
    BY DEF OwnInv, PipeType, Die
  <2>2. proc' \in [Children -> [gen : Nat, alive : BOOLEAN]]
    BY DEF OwnInv, PipeType, Die
  <2>3. stdout' \in [Children -> SUBSET Answers]
    BY DEF OwnInv, PipeType, Die
  <2> QED BY <2>1, <2>2, <2>3 DEF OwnInv, PipeType, Die
<1>2. \A d \in Children : stdin'[d] = stdin[d] \/ stdin'[d] = <<>>
  BY DEF OwnInv, PipeType, Die
<1>3. \A d \in Children : stdout'[d] \subseteq stdout[d]
  BY DEF OwnInv, PipeType, Die
<1> QED BY <1>1, <1>2, <1>3, OwnRest DEF Die, threads

LEMMA CallsHaveChildren ==
  ASSUME OwnInv, NEW c \in Calls, SerenaCall(c) \/ PiCall(c)
  PROVE  at[c] \in Children /\ Protocol(c)
BY ShimConstants DEF SerenaCall, PiCall

LEMMA OwnStep == OwnInv /\ [Next]_vars => OwnInv'
<1> SUFFICES ASSUME OwnInv, [Next]_vars PROVE OwnInv'
  OBVIOUS
<1>1. CASE UNCHANGED vars
  BY <1>1, OwnRest DEF vars, said, OwnInv, PipeType
<1>2. ASSUME UNCHANGED <<idOf, who, time>>, NEW c \in Calls, CallStep(c) PROVE OwnInv'
  <2>1. CASE AnswerLocally(c) \/ Reject(c) \/ Refuse(c)
    BY <1>2, <2>1, OwnAnswersLocally
  <2>2. CASE SerenaRoute(c) \/ PiRoute(c)
    BY <1>2, <2>2, OwnRoute
  <2>3. CASE SerenaCall(c) \/ PiCall(c)
    <3>1. at[c] \in Children /\ Protocol(c)
      BY <2>3, CallsHaveChildren
    <3> QED BY <1>2, <3>1, OwnBegin, OwnWrite, OwnTakes, OwnTimesOut, OwnGivesUp, OwnHandshakeStart,
               OwnNotifyStart, OwnNotifyWrite, OwnSetInitialized DEF Protocol
  <2> QED BY <1>2, <2>1, <2>2, <2>3 DEF CallStep
<1>3. ASSUME UNCHANGED <<idOf, who, time>>, NEW s \in Sessions, NEW ch \in Children, BindSession(s, ch) PROVE OwnInv'
  BY <1>3, OwnRest DEF BindSession, pipes, threads, OwnInv, PipeType
<1>4. ASSUME UNCHANGED <<idOf, who, time>>, NEW ch \in Children, SerenaReader(ch) \/ PiReader(ch) PROVE OwnInv'
  BY <1>4, OwnDeliver DEF SerenaReader, PiReader
<1> QED BY <1>1, <1>2, <1>3, <1>4, OwnConsume, OwnDie DEF Next, Step, said

\* A request that gets an answer gets the one to its own line, or to the line of
\* a call with the same message id at the same child, however the threads,
\* readers and processes interleave and whatever dies.
THEOREM OwnInvariant == Spec => []OwnInv
<1>1. Init => OwnInv
  BY InitOwn
<1>2. OwnInv /\ [Next]_vars => OwnInv'
  BY OwnStep
<1> QED BY <1>1, <1>2, PTL DEF Spec

THEOREM OwnAnswers == Spec => []OwnAnswerOrSameId
<1>1. OwnInv => OwnAnswerOrSameId
  BY DEF OwnInv, ResultsFit
<1> QED BY <1>1, OwnInvariant, PTL

-----------------------------------------------------------------------------
(* Calls to a child leave the other children alone. *)
SameChild(d) ==
  /\ proc'[d] = proc[d] /\ initialized'[d] = initialized[d] /\ server'[d] = server[d]
  /\ stdin'[d] = stdin[d] /\ stdout'[d] = stdout[d] /\ queues'[d] = queues[d] /\ shaking'[d] = shaking[d]
SameCall(e) == pc'[e] = pc[e] /\ slot'[e] = slot[e] /\ result'[e] = result[e]

\* What a step may not take back.
Forward(ch) ==
  /\ proc[ch].alive => proc'[ch].alive
  /\ initialized[ch] => initialized'[ch]
  /\ server[ch] # "new" => server'[ch] # "new"
  /\ Shaken(ch, Len(stdin[ch])) => Shaken(ch, Len(stdin[ch]))'
  /\ shaking[ch] \subseteq shaking'[ch]

SamePipes(ch) == server'[ch] = server[ch] /\ stdin'[ch] = stdin[ch] /\ stdout'[ch] = stdout[ch]

LEMMA PipesKept ==
  ASSUME NEW ch, SamePipes(ch)
  PROVE  /\ \A n : Shaken(ch, n)' <=> Shaken(ch, n)
         /\ at' = at => \A e, what : at[e] = ch => (Underway(e, what)' <=> Underway(e, what))
BY DEF SamePipes, Shaken, Underway

LEMMA ChildKept ==
  ASSUME NEW ch, ChildHolds(ch), SamePipes(ch), proc[ch].alive => proc'[ch].alive, initialized'[ch] = initialized[ch]
  PROVE  ChildHolds(ch)'
<1>1. \A n : Shaken(ch, n)' <=> Shaken(ch, n)
  BY PipesKept
<1> QED BY <1>1 DEF ChildHolds, SamePipes, Fresh

LEMMA HandshakesKept ==
  ASSUME NEW ch, shaking[ch] \subseteq shaking'[ch], UNCHANGED <<at, idOf, time>>
  PROVE  OwnHandshakes(ch)' => OwnHandshakes(ch)
BY DEF OwnHandshakes, HandshakeId, SerenaHandshakeId, PiHandshakeId

LEMMA CallKept ==
  ASSUME NEW ch \in Children, NEW e \in Calls, at[e] = ch, CallHolds(ch, e), SameCall(e),
         UNCHANGED <<at, idOf, time>>, Forward(ch),
         \A what \in {"initialize", "tools/call"} : Underway(e, what) => Underway(e, what)',
         pc[e] \in Shaking \cup Asking /\ Alone(e) /\ OwnHandshakes(ch)' =>
           queues'[ch][IdOfQueue(e)] = queues[ch][IdOfQueue(e)]
  PROVE  CallHolds(ch, e)'
<1>1. Alone(e)' => Alone(e)
  BY DEF Alone
<1>2. OwnHandshakes(ch)' => OwnHandshakes(ch)
  BY HandshakesKept DEF Forward
<1>3. IdOfQueue(e)' = IdOfQueue(e)
  BY DEF SameCall, IdOfQueue, HandshakeId, SerenaHandshakeId, PiHandshakeId
<1>4. (Alone(e) /\ OwnHandshakes(ch))' => Served(e)'
  BY <1>1, <1>2, <1>3 DEF CallHolds, Served, SameCall, Good
<1> QED BY <1>4 DEF CallHolds, SameCall, Forward

LEMMA Elsewhere ==
  ASSUME OwnInv, QuietInv, ~troubled, NEW ch \in Children, UNCHANGED <<at, idOf, time>>,
         \A d \in Children \ {ch} : SameChild(d),
         \A e \in Calls : at[e] # ch => SameCall(e),
         ThreadType', QuietAt(ch)'
  PROVE  QuietInv'
<1>1. ASSUME NEW d \in Children \ {ch} PROVE QuietAt(d)'
  <2>1. QuietAt(d) /\ SameChild(d) /\ SamePipes(d) /\ \A e \in Calls : at[e] = d => SameCall(e)
    BY DEF QuietInv, SamePipes, SameChild
  <2>2. ChildHolds(d)'
    BY <2>1, ChildKept DEF QuietAt, SameChild
  <2>3. ASSUME NEW e \in Calls, at[e] = d PROVE CallHolds(d, e)'
    <3>1. Forward(d) /\ \A what : Underway(e, what)' <=> Underway(e, what)
      BY <2>1, <2>3, PipesKept DEF Forward, SameChild
    <3> QED BY <2>1, <2>3, <3>1, CallKept DEF QuietAt, SameChild
  <2> QED BY <2>2, <2>3 DEF QuietAt
<1>2. ASSUME NEW c \in Calls, pc'[c] = "new" PROVE slot'[c] = NoAnswer
  <2>1. CASE at[c] = ch
    BY <1>2, <2>1, ShimConstants DEF OwnInv, Threads, ThreadType
  <2>2. CASE at[c] # ch
    BY <1>2, <2>2 DEF QuietInv, SameCall
  <2> QED BY <2>1, <2>2
<1> QED BY <1>1, <1>2 DEF QuietInv

LEMMA ProtocolFrame ==
  ASSUME OwnInv, UNCHANGED <<idOf, who, time>>, NEW c \in Calls, at[c] \in Children, Protocol(c)
  PROVE  at' = at /\ (\A d \in Children \ {at[c]} : SameChild(d)) /\ (\A e \in Calls \ {c} : SameCall(e))
<1>1. /\ DOMAIN proc = Children /\ DOMAIN initialized = Children /\ DOMAIN server = Children
      /\ DOMAIN stdin = Children /\ DOMAIN stdout = Children /\ DOMAIN queues = Children
      /\ DOMAIN shaking = Children /\ DOMAIN pc = Calls /\ DOMAIN slot = Calls /\ DOMAIN result = Calls
  BY DEF OwnInv, PipeType, Threads, ThreadType
<1>2. CASE Begin(c) \/ HandshakeStart(c) \/ NotifyStart(c)
  BY <1>1, <1>2 DEF Begin, HandshakeStart, NotifyStart, Start, Running, Spawn, StartFails, Register, Go, Return,
                    SameChild, SameCall, pipes, threads
<1>3. CASE WriteCall(c) \/ HandshakeWrite(c) \/ NotifyWrite(c)
  BY <1>1, <1>3 DEF WriteCall, HandshakeWrite, NotifyWrite, TakeLock, Write, Broken, Unregister, Go, Return,
                    SameChild, SameCall, threads
<1>4. CASE GetAnswer(c) \/ HandshakeAnswered(c)
  BY <1>1, <1>4 DEF GetAnswer, HandshakeAnswered, Take, Unregister, Go, Return, SameChild, SameCall, pipes
<1>5. CASE GetTimesOut(c) \/ HandshakeTimesOut(c) \/ GiveUp(c) \/ HandshakeGivesUp(c) \/ SetInitialized(c)
  BY <1>1, <1>5 DEF GetTimesOut, HandshakeTimesOut, TimesOut, GiveUp, HandshakeGivesUp, SetInitialized,
                    Register, Unregister, Go, Return, SameChild, SameCall, pipes, threads
<1> QED BY <1>2, <1>3, <1>4, <1>5 DEF Protocol

\* A step of a call to the child that touches no queue but its own.
LEMMA Beside ==
  ASSUME OwnInv, QuietInv, ~troubled, NEW c \in Calls, NEW ch \in Children, at[c] = ch,
         UNCHANGED <<at, idOf, time>>, \A e \in Calls \ {c} : SameCall(e),
         NEW i \in {idOf[c], HandshakeId(ch, c)}, i = idOf[c] \/ c \in shaking'[ch],
         \A j \in Ids : j # i => queues'[ch][j] = queues[ch][j],
         Forward(ch), ChildHolds(ch)', CallHolds(ch, c)',
         \A e \in Calls, what \in {"initialize", "tools/call"} : at[e] = ch /\ Underway(e, what) => Underway(e, what)'
  PROVE  QuietAt(ch)'
<1>1. ASSUME NEW e \in Calls, e # c, at[e] = ch PROVE CallHolds(ch, e)'
  <2>1. CallHolds(ch, e) /\ SameCall(e)
    BY <1>1 DEF QuietInv, QuietAt
  <2>2. /\ idOf[c] \in MsgIds /\ idOf[e] \in MsgIds /\ MsgIds \subseteq Ids
        /\ HandshakeId(ch, e) \in Ids \ MsgIds /\ HandshakeId(ch, c) \in Ids \ MsgIds
    BY HandshakeIds DEF OwnInv, Threads, ThreadType, Ids
  <2>3. ASSUME pc[e] \in Shaking \cup Asking, Alone(e), OwnHandshakes(ch)'
        PROVE  queues'[ch][IdOfQueue(e)] = queues[ch][IdOfQueue(e)]
    <3>1. CASE pc[e] \in Asking
      <4>1. idOf[c] # idOf[e]
        BY <1>1, <2>3 DEF Alone
      <4> QED BY <2>2, <3>1, <4>1 DEF IdOfQueue
    <3>2. CASE pc[e] \notin Asking
      <4>1. e \in shaking'[ch] /\ IdOfQueue(e) = HandshakeId(ch, e)
        BY <1>1, <2>1, <2>3, <3>2 DEF CallHolds, Forward, IdOfQueue
      <4>2. c \in shaking'[ch] => HandshakeId(ch, c) # HandshakeId(ch, e)
        BY <1>1, <2>3, <4>1 DEF OwnHandshakes, HandshakeId, SerenaHandshakeId, PiHandshakeId
      <4> QED BY <2>2, <4>1, <4>2
    <3> QED BY <3>1, <3>2
  <2> QED BY <1>1, <2>1, <2>3, CallKept
<1> QED BY <1>1 DEF QuietAt

\* While there is no trouble, start() changes nothing but that the process runs.
LEMMA QuietStart ==
  ASSUME OwnInv, QuietInv, ~troubled, ~troubled', NEW ch \in Children, Start(ch) \/ StartFails(ch)
  PROVE  Start(ch) /\ SamePipes(ch) /\ proc'[ch].alive /\ initialized'[ch] = initialized[ch]
<1>1. Start(ch)
  BY DEF StartFails
<1>2. CASE Running(ch)
  BY <1>1, <1>2 DEF Running, pipes, SamePipes
<1>3. CASE Spawn(ch)
  BY <1>1, <1>3 DEF Spawn, SamePipes, QuietInv, QuietAt, ChildHolds, Fresh, OwnInv, PipeType
<1> QED BY <1>1, <1>2, <1>3 DEF Start

\* A step that writes nothing.
LEMMA QuietBeside ==
  ASSUME OwnInv, QuietInv, ~troubled, NEW c \in Calls, NEW ch \in Children, at[c] = ch,
         UNCHANGED <<at, idOf, time>>, \A e \in Calls \ {c} : SameCall(e),
         NEW i \in {idOf[c], HandshakeId(ch, c)}, i = idOf[c] \/ c \in shaking'[ch],
         \A j \in Ids : j # i => queues'[ch][j] = queues[ch][j],
         SamePipes(ch), proc[ch].alive => proc'[ch].alive, initialized'[ch] = initialized[ch],
         shaking[ch] \subseteq shaking'[ch], CallHolds(ch, c)'
  PROVE  QuietAt(ch)'
<1>1. Forward(ch) /\ \A e, what : at[e] = ch => (Underway(e, what)' <=> Underway(e, what))
  BY PipesKept DEF Forward, SamePipes
<1>2. ChildHolds(ch)'
  BY ChildKept DEF QuietInv, QuietAt
<1> QED BY <1>1, <1>2, Beside

LEMMA QuietBegin ==
  ASSUME OwnInv, QuietInv, ~troubled, ~troubled', UNCHANGED <<idOf, who, time>>,
         NEW c \in Calls, NEW ch \in Children, at[c] = ch, Begin(c)
  PROVE  QuietAt(ch)'
<1>1. at' = at /\ \A e \in Calls \ {c} : SameCall(e)
  BY ProtocolFrame DEF Protocol
<1>2. Start(ch) /\ SamePipes(ch) /\ proc'[ch].alive /\ initialized'[ch] = initialized[ch]
  BY QuietStart DEF Begin
<1>3. CallHolds(ch, c) /\ pc[c] = "begin" /\ shaking' = shaking
  BY DEF QuietInv, QuietAt, Begin
<1>4. \/ /\ initialized[ch] /\ queues' = [queues EXCEPT ![ch][idOf[c]] = c]
         /\ slot' = [slot EXCEPT ![c] = NoAnswer] /\ pc' = [pc EXCEPT ![c] = "write"]
      \/ pc' = [pc EXCEPT ![c] = "istart"] /\ UNCHANGED <<queues, slot>>
  BY <1>2 DEF Begin, StartFails, Register, Go, threads
<1>5. \A j \in Ids : j # idOf[c] => queues'[ch][j] = queues[ch][j]
  BY <1>4 DEF OwnInv, Threads, ThreadType
<1>6. CallHolds(ch, c)'
  <2>1. CASE pc' = [pc EXCEPT ![c] = "istart"] /\ UNCHANGED <<queues, slot>>
    <3>1. pc'[c] = "istart"
      BY <2>1 DEF OwnInv, Threads, ThreadType
    <3>2. Served(c)'
      BY <3>1 DEF Served, Shaking, Asking
    <3> QED BY <1>2, <1>3, <2>1, <3>1, <3>2 DEF CallHolds, SamePipes, Shaking, Asking
  <2>2. CASE /\ initialized[ch] /\ queues' = [queues EXCEPT ![ch][idOf[c]] = c]
             /\ slot' = [slot EXCEPT ![c] = NoAnswer] /\ pc' = [pc EXCEPT ![c] = "write"]
    <3>1. pc'[c] = "write" /\ slot'[c] = NoAnswer /\ queues'[ch][idOf[c]] = c
      <4>1. idOf[c] \in Ids /\ queues[ch] \in [Ids -> Calls \cup {NoCall}] /\ DOMAIN queues = Children
        <5>1. idOf[c] \in Ids
          BY ClientIds DEF OwnInv, Threads
        <5> QED BY <5>1 DEF OwnInv, Threads, ThreadType
      <4>2. pc'[c] = "write" /\ slot'[c] = NoAnswer
        BY <2>2 DEF OwnInv, Threads, ThreadType
      <4>3. queues'[ch] = [queues[ch] EXCEPT ![idOf[c]] = c]
        BY <2>2, <4>1
      <4> QED BY <4>1, <4>2, <4>3
    <3>2. Served(c)'
      BY <1>1, <3>1 DEF Served, IdOfQueue, Shaking, Asking
    <3> QED BY <1>2, <2>2, <3>1, <3>2 DEF CallHolds, Shaking, Asking
  <2> QED BY <1>4, <2>1, <2>2
<1> QED BY <1>1, <1>2, <1>3, <1>5, <1>6, QuietBeside
\* A step that leaves the pipes, the process and all queues but that of the call.
LEMMA QuietTurn ==
  ASSUME OwnInv, QuietInv, ~troubled, NEW c \in Calls, NEW ch \in Children, at[c] = ch,
         UNCHANGED <<at, idOf, time, proc, initialized, server, stdin, stdout, shaking>>,
         \A e \in Calls \ {c} : SameCall(e),
         queues' = queues \/ (pc[c] \in Shaking \cup Asking /\ Unregister(c, IdOfQueue(c))),
         CallHolds(ch, c)'
  PROVE  QuietAt(ch)'
<1> DEFINE i == IF pc[c] \in Shaking THEN HandshakeId(ch, c) ELSE idOf[c]
<1>1. pc[c] \in Shaking \cup Asking => i = IdOfQueue(c)
  BY DEF IdOfQueue, Shaking, Asking
<1>2. pc[c] \in Shaking => c \in shaking[ch]
  BY DEF QuietInv, QuietAt, CallHolds
<1>3. \A j \in Ids : j # i => queues'[ch][j] = queues[ch][j]
  BY <1>1 DEF Unregister, OwnInv, Threads, ThreadType
<1>4. SamePipes(ch) /\ i \in {idOf[c], HandshakeId(ch, c)} /\ (i = idOf[c] \/ c \in shaking'[ch])
  BY <1>2 DEF SamePipes
<1> HIDE DEF i
<1> QED BY <1>3, <1>4, QuietBeside

\* The time is only up for a call whose ids are not its own.
LEMMA QuietTimesOut ==
  ASSUME OwnInv, QuietInv, ~troubled, ~troubled', UNCHANGED <<idOf, who, time>>,
         NEW c \in Calls, NEW ch \in Children, at[c] = ch,
         GetTimesOut(c) \/ HandshakeTimesOut(c) \/ GiveUp(c) \/ HandshakeGivesUp(c)
  PROVE  QuietAt(ch)'
<1>1. at' = at /\ \A e \in Calls \ {c} : SameCall(e)
  BY ProtocolFrame DEF Protocol
<1>2. CallHolds(ch, c)
  BY DEF QuietInv, QuietAt
<1>3. /\ UNCHANGED <<proc, initialized, server, stdin, stdout, shaking, slot>>
      /\ \/ pc[c] = "wait" /\ pc' = [pc EXCEPT ![c] = "timeout"] /\ queues' = queues /\ slot[c] = NoAnswer /\ ~Awaited(c)
         \/ pc[c] = "iwait" /\ pc' = [pc EXCEPT ![c] = "itimeout"] /\ queues' = queues /\ slot[c] = NoAnswer /\ ~Awaited(c)
         \/ pc[c] \in {"timeout", "itimeout"} /\ pc' = [pc EXCEPT ![c] = "done"] /\ Unregister(c, IdOfQueue(c))
  BY DEF GetTimesOut, HandshakeTimesOut, TimesOut, GiveUp, HandshakeGivesUp, Return, Go, IdOfQueue, Asking, pipes, threads
<1>4. ~(Alone(c) /\ OwnHandshakes(ch))
  BY <1>2, <1>3 DEF CallHolds, Served, Underway, Awaited
<1>5. ~(Alone(c) /\ OwnHandshakes(ch))'
  BY <1>1, <1>3, <1>4 DEF Alone, OwnHandshakes, HandshakeId, SerenaHandshakeId, PiHandshakeId
<1>6. pc'[c] \in {"timeout", "itimeout", "done"} /\ (pc'[c] = "timeout" => pc[c] = "wait") /\ (pc'[c] = "itimeout" => pc[c] = "iwait")
  BY <1>3 DEF OwnInv, Threads, ThreadType
<1>7. CallHolds(ch, c)'
  BY <1>2, <1>3, <1>5, <1>6 DEF CallHolds, Shaking, Asking
<1> QED BY <1>1, <1>3, <1>7, QuietTurn DEF Shaking, Asking

LEMMA QuietGetAnswer ==
  ASSUME OwnInv, QuietInv, ~troubled, ~troubled', UNCHANGED <<idOf, who, time>>,
         NEW c \in Calls, NEW ch \in Children, at[c] = ch, GetAnswer(c)
  PROVE  QuietAt(ch)'
<1>1. at' = at /\ \A e \in Calls \ {c} : SameCall(e)
  BY ProtocolFrame DEF Protocol
<1>2. CallHolds(ch, c)
  BY DEF QuietInv, QuietAt
<1>3. /\ UNCHANGED <<proc, initialized, server, stdin, stdout, shaking>>
      /\ pc[c] = "wait" /\ slot[c] # NoAnswer /\ Unregister(c, IdOfQueue(c))
  BY DEF GetAnswer, Take, IdOfQueue, Asking, pipes
<1>4. pc'[c] = "done" /\ result'[c] = slot[c] /\ slot'[c] = NoAnswer
  BY DEF GetAnswer, Take, Return, OwnInv, Threads, ThreadType
<1>5. ASSUME Alone(c) PROVE slot[c].of = c /\ slot[c].ok /\ slot[c] \in Answers
  <2>1. /\ slot[c] \in Answers /\ at[slot[c].of] = ch /\ slot[c].id = IdOfLine(ch, slot[c])
        /\ slot[c].id = idOf[c] /\ idOf[c] \in MsgIds
    BY <1>3 DEF OwnInv, Threads, ThreadType, SlotsFit, Fits, IdOfQueue, Shaking, Asking
  <2>2. slot[c].of \in Calls
    BY <2>1 DEF Answers
  <2>3. idOf[slot[c].of] = idOf[c]
    BY <2>1, <2>2, HandshakeIds DEF IdOfLine, OwnInv, Threads, ThreadType
  <2> QED BY <1>2, <1>3, <1>5, <2>1, <2>2, <2>3 DEF Alone, CallHolds
<1>6. Alone(c)' => Alone(c)
  BY <1>1 DEF Alone
<1>7. CallHolds(ch, c)'
  <2>1. Alone(c)' => Served(c)'
    BY <1>4, <1>5, <1>6 DEF Served, Good, Shaking, Asking
  <2> QED BY <1>2, <1>3, <1>4, <2>1 DEF CallHolds, Shaking, Asking
<1> QED BY <1>1, <1>3, <1>7, QuietTurn DEF Shaking, Asking

LEMMA QuietHandshakeAnswered ==
  ASSUME OwnInv, QuietInv, ~troubled, ~troubled', UNCHANGED <<idOf, who, time>>,
         NEW c \in Calls, NEW ch \in Children, at[c] = ch, HandshakeAnswered(c)
  PROVE  QuietAt(ch)'
<1>1. at' = at /\ \A e \in Calls \ {c} : SameCall(e)
  BY ProtocolFrame DEF Protocol
<1>2. CallHolds(ch, c)
  BY DEF QuietInv, QuietAt
<1>3. /\ UNCHANGED <<proc, initialized, server, stdin, stdout, shaking>>
      /\ pc[c] = "iwait" /\ slot[c] # NoAnswer /\ Unregister(c, IdOfQueue(c))
  BY DEF HandshakeAnswered, Take, IdOfQueue, Asking, pipes
<1>4. slot[c].ok /\ server[ch] # "new"
  BY <1>2, <1>3 DEF CallHolds
<1>5. pc'[c] = "nstart" /\ slot'[c] = NoAnswer
  BY <1>4 DEF HandshakeAnswered, Take, Go, OwnInv, Threads, ThreadType
<1>6. CallHolds(ch, c)'
  <2>1. Served(c)'
    BY <1>5 DEF Served, Shaking, Asking
  <2> QED BY <1>2, <1>3, <1>4, <1>5, <2>1 DEF CallHolds, Shaking, Asking
<1> QED BY <1>1, <1>3, <1>6, QuietTurn DEF Shaking, Asking

LEMMA QuietHandshakeStart ==
  ASSUME OwnInv, QuietInv, ~troubled, ~troubled', UNCHANGED <<idOf, who, time>>,
         NEW c \in Calls, NEW ch \in Children, at[c] = ch, HandshakeStart(c)
  PROVE  QuietAt(ch)'
<1>1. at' = at /\ \A e \in Calls \ {c} : SameCall(e)
  BY ProtocolFrame DEF Protocol
<1>2. SamePipes(ch) /\ proc'[ch].alive /\ initialized'[ch] = initialized[ch]
  BY QuietStart DEF HandshakeStart
<1>3. CallHolds(ch, c) /\ shaking[ch] \subseteq shaking'[ch] /\ c \in shaking'[ch]
  BY DEF QuietInv, QuietAt, HandshakeStart, OwnInv, Threads, ThreadType
<1>4. /\ queues' = [queues EXCEPT ![ch][HandshakeId(ch, c)] = c]
      /\ slot' = [slot EXCEPT ![c] = NoAnswer] /\ pc' = [pc EXCEPT ![c] = "iwrite"]
  BY DEF HandshakeStart, StartFails, Register, Go
<1>5. /\ \A j \in Ids : j # HandshakeId(ch, c) => queues'[ch][j] = queues[ch][j]
      /\ pc'[c] = "iwrite" /\ slot'[c] = NoAnswer /\ queues'[ch][HandshakeId(ch, c)] = c
  <2>1. HandshakeId(ch, c) \in Ids /\ queues[ch] \in [Ids -> Calls \cup {NoCall}] /\ DOMAIN queues = Children
    BY HandshakeIds DEF OwnInv, Threads, ThreadType
  <2> QED BY <1>4, <2>1 DEF OwnInv, Threads, ThreadType
<1>6. CallHolds(ch, c)'
  <2>1. IdOfQueue(c)' = HandshakeId(ch, c)
    BY <1>1, <1>5 DEF IdOfQueue, HandshakeId, SerenaHandshakeId, PiHandshakeId, Asking
  <2>2. Served(c)'
    BY <1>1, <1>5, <2>1 DEF Served
  <2> QED BY <1>2, <1>3, <1>5, <2>2 DEF CallHolds, Asking
<1> QED BY <1>1, <1>2, <1>3, <1>5, <1>6, QuietBeside

LEMMA QuietNotifyStart ==
  ASSUME OwnInv, QuietInv, ~troubled, ~troubled', UNCHANGED <<idOf, who, time>>,
         NEW c \in Calls, NEW ch \in Children, at[c] = ch, NotifyStart(c)
  PROVE  QuietAt(ch)'
<1>1. at' = at /\ \A e \in Calls \ {c} : SameCall(e)
  BY ProtocolFrame DEF Protocol
<1>2. SamePipes(ch) /\ proc'[ch].alive /\ initialized'[ch] = initialized[ch]
  BY QuietStart DEF NotifyStart
<1>3. CallHolds(ch, c) /\ pc[c] = "nstart"
  BY DEF QuietInv, QuietAt, NotifyStart
<1>4. pc' = [pc EXCEPT ![c] = "nwrite"] /\ UNCHANGED <<queues, slot, shaking>>
  BY DEF NotifyStart, StartFails, Go, threads
<1>5. pc'[c] = "nwrite"
  BY <1>4 DEF OwnInv, Threads, ThreadType
<1>6. CallHolds(ch, c)'
  <2>1. Served(c)'
    BY <1>5 DEF Served, Shaking, Asking
  <2> QED BY <1>2, <1>3, <1>4, <1>5, <2>1 DEF CallHolds, SamePipes, Shaking, Asking
<1> QED BY <1>1, <1>2, <1>4, <1>6, QuietBeside
-----------------------------------------------------------------------------
(* Lines written to a child, and lines it reads. *)
LEMMA Appended ==
  ASSUME PipeType, NEW ch \in Children, NEW c \in Calls, at[c] = ch, NEW i \in Ids, NEW what \in Kinds, NEW next,
         Write(c, i, what, next), at' = at
  PROVE  /\ server' = server /\ stdout' = stdout
         /\ Len(stdin'[ch]) = Len(stdin[ch]) + 1 /\ Len(stdin[ch]) \in Nat
         /\ \A n \in 1..Len(stdin[ch]) : stdin'[ch][n] = stdin[ch][n]
         /\ stdin'[ch][Len(stdin[ch]) + 1] = [of |-> c, id |-> i, what |-> what]
         /\ \A n \in 0..Len(stdin[ch]) : Shaken(ch, n)' <=> Shaken(ch, n)
         /\ Shaken(ch, Len(stdin[ch])) => Shaken(ch, Len(stdin[ch]))'
         /\ \A e, w : at[e] = ch /\ Underway(e, w) => Underway(e, w)'
         /\ Underway(c, what)'
<1> DEFINE line == [of |-> c, id |-> i, what |-> what]
<1>1. line \in Lines /\ line.of = c /\ line.what = what
  BY DEF Lines
<1>2. stdin' = [stdin EXCEPT ![ch] = Append(@, line)] /\ server' = server /\ stdout' = stdout
  BY DEF Write
<1> HIDE DEF line
<1>3. stdin[ch] \in Seq(Lines) /\ stdin'[ch] = Append(stdin[ch], line)
  BY <1>2 DEF PipeType
<1>4. /\ Len(stdin'[ch]) = Len(stdin[ch]) + 1 /\ Len(stdin[ch]) \in Nat
      /\ \A n \in 1..Len(stdin[ch]) : stdin'[ch][n] = stdin[ch][n]
      /\ stdin'[ch][Len(stdin[ch]) + 1] = line
  BY <1>1, <1>3
<1>5. \A n \in 0..Len(stdin[ch]) : Shaken(ch, n)' <=> Shaken(ch, n)
  BY <1>2, <1>4 DEF Shaken
<1>6. Shaken(ch, Len(stdin[ch])) => Shaken(ch, Len(stdin[ch]))'
  <2>1. \A k \in 1..Len(stdin[ch]) : k \in 1..Len(stdin'[ch])
    BY <1>4
  <2> QED BY <1>2, <1>4, <2>1 DEF Shaken
<1>7. \A e, w : at[e] = ch /\ Underway(e, w) => Underway(e, w)'
  <2>1. \A k \in 1..Len(stdin[ch]) : k \in 1..Len(stdin'[ch])
    BY <1>4
  <2> QED BY <1>2, <1>4, <2>1 DEF Underway
<1>8. Underway(c, what)'
  <2>1. Len(stdin[ch]) + 1 \in 1..Len(stdin'[ch])
    BY <1>4
  <2> QED BY <1>1, <1>4, <2>1 DEF Underway
<1> QED BY <1>2, <1>4, <1>5, <1>6, <1>7, <1>8 DEF line

\* A line may be written if it keeps the order of the handshake.
LEMMA QuietWrite ==
  ASSUME OwnInv, QuietInv, ~troubled, UNCHANGED <<idOf, who, time>>,
         NEW c \in Calls, NEW ch \in Children, at[c] = ch, NEW i \in Ids, NEW what \in Kinds, NEW next,
         Write(c, i, what, next), UNCHANGED <<proc, initialized, at, shaking>>,
         \A e \in Calls \ {c} : SameCall(e),
         what = "tools/call" => initialized[ch], what = "initialized" => server[ch] # "new",
         CallHolds(ch, c)'
  PROVE  QuietAt(ch)'
<1>1. ChildHolds(ch) /\ CallHolds(ch, c) /\ PipeType
  BY DEF QuietInv, QuietAt, OwnInv
<1>2. /\ server' = server /\ stdout' = stdout
      /\ Len(stdin'[ch]) = Len(stdin[ch]) + 1 /\ Len(stdin[ch]) \in Nat
      /\ \A n \in 1..Len(stdin[ch]) : stdin'[ch][n] = stdin[ch][n]
      /\ stdin'[ch][Len(stdin[ch]) + 1] = [of |-> c, id |-> i, what |-> what]
      /\ \A n \in 0..Len(stdin[ch]) : Shaken(ch, n)' <=> Shaken(ch, n)
      /\ Shaken(ch, Len(stdin[ch])) => Shaken(ch, Len(stdin[ch]))'
      /\ \A e, w : at[e] = ch /\ Underway(e, w) => Underway(e, w)'
  BY <1>1, Appended
<1>3. proc[ch].alive
  BY DEF Write
<1>4. \A n \in 1..Len(stdin'[ch]) : stdin'[ch][n].what = "tools/call" => Shaken(ch, n - 1)'
  <2> SUFFICES ASSUME NEW n \in 1..Len(stdin'[ch]), stdin'[ch][n].what = "tools/call" PROVE Shaken(ch, n - 1)'
    OBVIOUS
  <2>1. n - 1 \in 0..Len(stdin[ch])
    BY <1>2
  <2>2. CASE n = Len(stdin[ch]) + 1
    <3>1. what = "tools/call" /\ n - 1 = Len(stdin[ch])
      BY <1>2, <2>2
    <3> QED BY <1>1, <1>2, <2>1, <3>1 DEF ChildHolds
  <2>3. CASE n \in 1..Len(stdin[ch])
    <3>1. Shaken(ch, n - 1)
      BY <1>1, <1>2, <2>3 DEF ChildHolds
    <3> QED BY <1>2, <2>1, <3>1
  <2> QED BY <1>2, <2>2, <2>3
<1>5. \A n \in 1..Len(stdin'[ch]) : stdin'[ch][n].what = "initialized" => server'[ch] # "new"
  <2> SUFFICES ASSUME NEW n \in 1..Len(stdin'[ch]), stdin'[ch][n].what = "initialized" PROVE server[ch] # "new"
    BY <1>2
  <2>1. CASE n = Len(stdin[ch]) + 1
    BY <1>2, <2>1
  <2>2. CASE n \in 1..Len(stdin[ch])
    BY <1>1, <1>2, <2>2 DEF ChildHolds
  <2> QED BY <1>2, <2>1, <2>2
<1>6. ChildHolds(ch)'
  BY <1>1, <1>2, <1>3, <1>4, <1>5 DEF ChildHolds
<1>7. Forward(ch)
  BY <1>2 DEF Forward
<1>8. UNCHANGED <<queues, idOf, time>>
  BY DEF Write, threads
<1> DEFINE j == idOf[c]
<1>9. j \in {idOf[c], HandshakeId(ch, c)} /\ (j = idOf[c] \/ c \in shaking'[ch]) /\ \A k \in Ids : queues'[ch][k] = queues[ch][k]
  BY <1>8
<1> HIDE DEF j
<1> QED BY <1>2, <1>6, <1>7, <1>8, <1>9, Beside

\* A call that waits for the lock, or has it, and does not write yet.
LEMMA QuietLock ==
  ASSUME OwnInv, QuietInv, ~troubled, UNCHANGED <<idOf, who, time>>,
         NEW c \in Calls, NEW ch \in Children, at[c] = ch,
         UNCHANGED <<proc, initialized, at, shaking>>, \A e \in Calls \ {c} : SameCall(e),
         \/ pc[c] = "write" /\ TakeLock(c, "writing")
         \/ pc[c] = "iwrite" /\ TakeLock(c, "iwriting")
         \/ pc[c] = "nwrite" /\ TakeLock(c, "nwriting")
  PROVE  QuietAt(ch)'
<1>1. UNCHANGED <<server, stdin, stdout, queues, slot, result>>
  BY DEF TakeLock, Go, threads
<1>2. CallHolds(ch, c)
  BY DEF QuietInv, QuietAt
<1>3. \/ pc[c] = "write" /\ pc'[c] = "writing"
      \/ pc[c] = "iwrite" /\ pc'[c] = "iwriting"
      \/ pc[c] = "nwrite" /\ pc'[c] = "nwriting"
  BY DEF TakeLock, Go, OwnInv, Threads, ThreadType
<1>4. (Alone(c) /\ OwnHandshakes(ch))' <=> (Alone(c) /\ OwnHandshakes(ch))
  BY DEF Alone, OwnHandshakes, HandshakeId, SerenaHandshakeId, PiHandshakeId
<1>5. IdOfQueue(c)' = IdOfQueue(c)
  BY <1>3 DEF IdOfQueue, HandshakeId, SerenaHandshakeId, PiHandshakeId, Asking
<1>6. Served(c) => Served(c)'
  BY <1>1, <1>3, <1>5 DEF Served, Shaking, Asking
<1>7. CallHolds(ch, c)'
  BY <1>1, <1>2, <1>3, <1>4, <1>6 DEF CallHolds, Shaking, Asking
<1> QED BY <1>1, <1>7, QuietTurn

LEMMA QuietWrites ==
  ASSUME OwnInv, QuietInv, ~troubled, UNCHANGED <<idOf, who, time>>,
         NEW c \in Calls, NEW ch \in Children, at[c] = ch,
         WriteCall(c) \/ HandshakeWrite(c) \/ NotifyWrite(c)
  PROVE  QuietAt(ch)'
<1>1. at' = at /\ (\A e \in Calls \ {c} : SameCall(e)) /\ UNCHANGED <<proc, initialized, at, shaking, troubled>>
  BY ProtocolFrame DEF Protocol, WriteCall, HandshakeWrite, NotifyWrite
<1>2. CallHolds(ch, c) /\ ch \in Children /\ idOf[c] \in Ids /\ HandshakeId(ch, c) \in Ids /\ PipeType
  BY HandshakeIds DEF QuietInv, QuietAt, OwnInv, Threads, ThreadType, Ids
<1>3. pc[c] # "begin"
  BY DEF WriteCall, HandshakeWrite, NotifyWrite, Broken
<1>4. proc[ch].alive
  BY <1>2, <1>3 DEF CallHolds
<1>5. (Alone(c) /\ OwnHandshakes(ch))' <=> (Alone(c) /\ OwnHandshakes(ch))
  BY <1>1 DEF Alone, OwnHandshakes, HandshakeId, SerenaHandshakeId, PiHandshakeId
<1>6. CASE pc[c] = "writing" /\ Write(c, idOf[c], "tools/call", "wait")
  <2>1. pc'[c] = "wait" /\ UNCHANGED <<queues, slot>>
    BY <1>6 DEF Write, Go, threads, OwnInv, Threads, ThreadType
  <2>2. Underway(c, "tools/call")' /\ server' = server
    BY <1>1, <1>2, <1>6, Appended DEF Kinds
  <2>3. Served(c) => Served(c)'
    BY <1>1, <1>6, <2>1, <2>2 DEF Served, IdOfQueue, Shaking, Asking
  <2>4. CallHolds(ch, c)'
    BY <1>1, <1>2, <1>4, <1>5, <1>6, <2>1, <2>2, <2>3 DEF CallHolds, Shaking, Asking
  <2>5. initialized[ch]
    BY <1>2, <1>6 DEF CallHolds, Asking
  <2> QED BY <1>1, <1>2, <1>6, <2>4, <2>5, QuietWrite DEF Kinds
<1>7. CASE pc[c] = "iwriting" /\ Write(c, HandshakeId(at[c], c), "initialize", "iwait")
  <2>1. pc'[c] = "iwait" /\ UNCHANGED <<queues, slot>>
    BY <1>7 DEF Write, Go, threads, OwnInv, Threads, ThreadType
  <2>2. Underway(c, "initialize")' /\ server' = server
    BY <1>1, <1>2, <1>7, Appended DEF Kinds
  <2>3. IdOfQueue(c)' = IdOfQueue(c)
    BY <1>1, <1>7, <2>1 DEF IdOfQueue, HandshakeId, SerenaHandshakeId, PiHandshakeId, Asking
  <2>4. Served(c) => Served(c)'
    BY <1>1, <1>7, <2>1, <2>2, <2>3 DEF Served, Shaking, Asking
  <2>5. CallHolds(ch, c)'
    BY <1>1, <1>2, <1>4, <1>5, <1>7, <2>1, <2>2, <2>4 DEF CallHolds, Shaking, Asking
  <2> QED BY <1>1, <1>2, <1>7, <2>5, QuietWrite DEF Kinds
<1>8. CASE pc[c] = "nwriting" /\ Write(c, HandshakeId(at[c], c), "initialized", "nset")
  <2>1. pc'[c] = "nset" /\ UNCHANGED <<queues, slot>> /\ server[ch] # "new"
    BY <1>2, <1>8 DEF Write, Go, threads, OwnInv, Threads, ThreadType, CallHolds
  <2>2. /\ server' = server /\ Len(stdin'[ch]) = Len(stdin[ch]) + 1 /\ Len(stdin[ch]) \in Nat
        /\ stdin'[ch][Len(stdin[ch]) + 1].what = "initialized"
    <3> DEFINE i == HandshakeId(at[c], c)
    <3>1. "initialized" \in Kinds /\ i \in Ids
      BY <1>2 DEF Kinds
    <3>2. Write(c, i, "initialized", "nset")
      BY <1>8
    <3> HIDE DEF i
    <3>3. /\ server' = server /\ Len(stdin'[ch]) = Len(stdin[ch]) + 1 /\ Len(stdin[ch]) \in Nat
          /\ stdin'[ch][Len(stdin[ch]) + 1] = [of |-> c, id |-> i, what |-> "initialized"]
      BY <1>1, <1>2, <3>1, <3>2, Appended
    <3> QED BY <3>3
  <2>3. server[ch] \in {"asked", "ready"}
    BY <1>2, <2>1 DEF PipeType
  <2>4. Shaken(ch, Len(stdin[ch]))'
    BY <2>2, <2>3 DEF Shaken
  <2>5. Served(c)'
    BY <2>1 DEF Served, Shaking, Asking
  <2>6. CallHolds(ch, c)'
    BY <1>1, <1>2, <1>4, <2>1, <2>2, <2>4, <2>5 DEF CallHolds, Shaking, Asking
  <2> QED BY <1>1, <1>2, <1>8, <2>1, <2>6, QuietWrite DEF Kinds
<1> QED BY <1>1, <1>4, <1>6, <1>7, <1>8, QuietLock DEF WriteCall, HandshakeWrite, NotifyWrite, Broken

LEMMA QuietSetInitialized ==
  ASSUME OwnInv, QuietInv, ~troubled, UNCHANGED <<idOf, who, time>>,
         NEW c \in Calls, NEW ch \in Children, at[c] = ch, SetInitialized(c)
  PROVE  QuietAt(ch)'
<1>1. at' = at /\ \A e \in Calls \ {c} : SameCall(e)
  BY ProtocolFrame DEF Protocol
<1>2. /\ UNCHANGED <<proc, server, stdin, stdout, shaking>> /\ initialized'[ch] = TRUE
      /\ pc'[c] = "write" /\ slot'[c] = NoAnswer /\ queues' = [queues EXCEPT ![ch][idOf[c]] = c] /\ pc[c] = "nset"
  BY DEF SetInitialized, Register, Go, pipes, OwnInv, PipeType, Threads, ThreadType
<1>3. /\ \A j \in Ids : j # idOf[c] => queues'[ch][j] = queues[ch][j]
      /\ queues'[ch][idOf[c]] = c
  <2>1. idOf[c] \in Ids /\ queues[ch] \in [Ids -> Calls \cup {NoCall}] /\ DOMAIN queues = Children
    <3>1. idOf[c] \in Ids
      BY ClientIds DEF OwnInv, Threads
    <3> QED BY <3>1 DEF OwnInv, Threads, ThreadType
  <2>2. queues'[ch] = [queues[ch] EXCEPT ![idOf[c]] = c]
    BY <1>2, <2>1
  <2> QED BY <2>1, <2>2
<1>4. ChildHolds(ch) /\ CallHolds(ch, c) /\ SamePipes(ch)
  BY <1>2 DEF QuietInv, QuietAt, SamePipes
<1>5. /\ \A n : Shaken(ch, n)' <=> Shaken(ch, n)
      /\ \A e, w : at[e] = ch => (Underway(e, w)' <=> Underway(e, w))
  BY <1>1, <1>4, PipesKept
<1>6. proc[ch].alive /\ Shaken(ch, Len(stdin[ch]))
  BY <1>2, <1>4 DEF CallHolds
<1>7. ChildHolds(ch)' /\ Forward(ch)
  BY <1>2, <1>4, <1>5, <1>6 DEF ChildHolds, Forward
<1>8. CallHolds(ch, c)'
  <2>1. Served(c)'
    BY <1>1, <1>2, <1>3 DEF Served, IdOfQueue, Shaking, Asking
  <2> QED BY <1>2, <1>6, <2>1 DEF CallHolds, Shaking, Asking
<1> QED BY <1>1, <1>3, <1>5, <1>7, <1>8, Beside
LEMMA QuietProtocol ==
  ASSUME OwnInv, QuietInv, ~troubled, ~troubled', UNCHANGED <<idOf, who, time>>, ThreadType',
         NEW c \in Calls, at[c] \in Children, Protocol(c)
  PROVE  QuietInv'
<1>1. at' = at /\ (\A d \in Children \ {at[c]} : SameChild(d)) /\ (\A e \in Calls \ {c} : SameCall(e))
  BY ProtocolFrame
<1>2. PICK ch \in Children : at[c] = ch
  OBVIOUS
<1>3. QuietAt(ch)'
  <2>1. CASE Begin(c) \/ GetAnswer(c) \/ HandshakeStart(c)
    BY <1>2, <2>1, QuietBegin, QuietGetAnswer, QuietHandshakeStart
  <2>2. CASE HandshakeAnswered(c) \/ NotifyStart(c) \/ SetInitialized(c)
    BY <1>2, <2>2, QuietHandshakeAnswered, QuietNotifyStart, QuietSetInitialized
  <2>3. CASE WriteCall(c) \/ HandshakeWrite(c) \/ NotifyWrite(c)
    BY <1>2, <2>3, QuietWrites
  <2>4. CASE GetTimesOut(c) \/ HandshakeTimesOut(c) \/ GiveUp(c) \/ HandshakeGivesUp(c)
    BY <1>2, <2>4, QuietTimesOut
  <2> QED BY <2>1, <2>2, <2>3, <2>4 DEF Protocol
<1>4. \A e \in Calls : at[e] # ch => SameCall(e)
  BY <1>1, <1>2
<1> QED BY <1>1, <1>2, <1>3, <1>4, Elsewhere

\* The answer to a call whose ids are its own comes to its queue.
LEMMA QuietDeliver ==
  ASSUME OwnInv, QuietInv, ~troubled, UNCHANGED <<idOf, who, time>>, ThreadType',
         NEW ch \in Children, NEW m \in stdout[ch], Deliver(ch, m)
  PROVE  QuietInv'
<1> DEFINE q == queues[ch][m.id]
<1>1. /\ UNCHANGED <<proc, initialized, server, stdin, queues, pc, at, result, shaking>>
      /\ stdout' = [stdout EXCEPT ![ch] = @ \ {m}]
      /\ \/ slot' = slot /\ (q = NoCall \/ slot[q] # NoAnswer)
         \/ q # NoCall /\ slot' = [slot EXCEPT ![q] = m]
  BY DEF Deliver
<1>2. m \in Answers /\ m.of \in Calls /\ m.id \in Ids /\ m.id = IdOfLine(ch, m) /\ at[m.of] = ch
  BY PipesOfCalls DEF OwnInv, LinesFit, Fits, Answers
<1>3. ChildHolds(ch) /\ m.ok /\ server[ch] # "new" /\ m # NoAnswer
  <2>1. NoAnswer \notin Answers
    BY DEF NoAnswer, Answers, Kinds
  <2> QED BY <1>2, <2>1 DEF QuietInv, QuietAt, ChildHolds
<1>4. q # NoCall => q \in Calls /\ at[q] = ch
  BY <1>2 DEF OwnInv, Threads, ThreadType, QueuesFit
<1> HIDE DEF q
<1>5. \A e \in Calls : slot'[e] = slot[e] \/ (e = q /\ slot'[e] = m)
  BY <1>1, <1>4 DEF OwnInv, Threads, ThreadType
<1>6. stdout'[ch] = stdout[ch] \ {m} /\ \A d \in Children \ {ch} : stdout'[d] = stdout[d]
  BY <1>1 DEF OwnInv, PipeType
<1>7. ChildHolds(ch)'
  BY <1>1, <1>3, <1>6 DEF ChildHolds, Shaken, Fresh
<1>8. ASSUME NEW e \in Calls, at[e] = ch PROVE CallHolds(ch, e)'
  <2>1. CallHolds(ch, e)
    BY <1>8 DEF QuietInv, QuietAt
  <2>2. /\ (Alone(e) /\ OwnHandshakes(ch))' <=> (Alone(e) /\ OwnHandshakes(ch))
        /\ IdOfQueue(e)' = IdOfQueue(e)
    BY <1>1 DEF Alone, OwnHandshakes, IdOfQueue, HandshakeId, SerenaHandshakeId, PiHandshakeId
  <2>3. slot[e] # NoAnswer => slot'[e] # NoAnswer
    BY <1>3, <1>5, <1>8
  <2>4. ASSUME Served(e), NEW what \in {"initialize", "tools/call"}, Underway(e, what),
               pc[e] = IF what = "initialize" THEN "iwait" ELSE "wait"
        PROVE  Underway(e, what)' \/ slot'[e] # NoAnswer
    <3>1. CASE m.of = e /\ m.what = what
      <4>1. m.id = IdOfQueue(e)
        BY <1>2, <1>8, <2>4, <3>1 DEF IdOfLine, IdOfQueue, Asking
      <4>2. q = e
        BY <1>8, <2>4, <4>1 DEF Served, Shaking, Asking, q
      <4>3. slot' = [slot EXCEPT ![e] = m] \/ slot[e] # NoAnswer
        BY <1>1, <1>8, <4>2, IdsDiffer
      <4> QED BY <1>3, <1>8, <2>3, <4>3 DEF OwnInv, Threads, ThreadType
    <3>2. CASE ~(m.of = e /\ m.what = what)
      BY <1>1, <1>6, <1>8, <2>4, <3>2 DEF Underway
    <3> QED BY <3>1, <3>2
  <2>5. Served(e) => Served(e)'
    BY <1>1, <2>2, <2>3, <2>4 DEF Served, Good
  <2>6. \A n : Shaken(ch, n)' <=> Shaken(ch, n)
    BY <1>1 DEF Shaken
  <2> QED BY <1>1, <1>3, <1>5, <1>8, <2>1, <2>2, <2>5, <2>6 DEF CallHolds
<1>9. QuietAt(ch)'
  BY <1>1, <1>7, <1>8 DEF QuietAt
<1>10. \A d \in Children \ {ch} : SameChild(d)
  BY <1>1, <1>6 DEF SameChild
<1>11. \A e \in Calls : at[e] # ch => SameCall(e)
  BY <1>1, <1>4, <1>5, IdsDiffer DEF SameCall
<1> QED BY <1>1, <1>9, <1>10, <1>11, Elsewhere

\* A process that has read a call has done its handshake.
LEMMA QuietConsume ==
  ASSUME OwnInv, QuietInv, ~troubled, ~troubled', UNCHANGED <<idOf, who, time>>, ThreadType',
         NEW ch \in Children, Consume(ch)
  PROVE  QuietInv'
<1> DEFINE line == Head(stdin[ch])
           reply(good) == [of |-> line.of, id |-> line.id, what |-> line.what,
                           gen |-> proc[ch].gen, ok |-> good]
<1>1. /\ UNCHANGED <<proc, initialized, queues, slot, pc, at, result, shaking>>
      /\ stdin' = [stdin EXCEPT ![ch] = Tail(@)] /\ stdin[ch] # <<>>
      /\ stdin \in [Children -> Seq(Lines)] /\ DOMAIN stdout = Children /\ DOMAIN server = Children
      /\ server[ch] \in {"new", "asked", "ready"}
  BY DEF Consume, threads, OwnInv, PipeType
<1>2. stdin[ch] \in Seq(Lines)
  BY <1>1
<1>3. /\ line = stdin[ch][1] /\ 1 \in 1..Len(stdin[ch]) /\ stdin'[ch] = Tail(stdin[ch])
      /\ Len(stdin[ch]) \in Nat /\ Len(stdin'[ch]) = Len(stdin[ch]) - 1
      /\ \A n \in 1..Len(stdin'[ch]) : n + 1 \in 1..Len(stdin[ch]) /\ stdin'[ch][n] = stdin[ch][n + 1]
  BY <1>1, <1>2
<1>4. \/ line.what = "initialize" /\ stdout'[ch] = stdout[ch] \cup {reply(TRUE)}
         /\ server'[ch] = IF server[ch] = "ready" THEN "ready" ELSE "asked"
      \/ line.what = "initialized" /\ stdout'[ch] = stdout[ch]
         /\ server'[ch] = IF server[ch] = "new" THEN "new" ELSE "ready"
      \/ line.what = "tools/call" /\ stdout'[ch] = stdout[ch] \cup {reply(server[ch] = "ready")}
         /\ server'[ch] = server[ch]
  BY <1>1 DEF Consume
<1>5. \A d \in Children \ {ch} : SameChild(d)
  BY <1>1 DEF Consume, SameChild
<1>6. ChildHolds(ch) /\ proc[ch].alive
  BY DEF QuietInv, QuietAt, Consume
<1>7. \A good : reply(good).of = line.of /\ reply(good).what = line.what /\ reply(good).ok = good
  OBVIOUS
<1> HIDE DEF line, reply
<1>8. line.what = "tools/call" => server[ch] = "ready"
  <2>1. ASSUME line.what = "tools/call" PROVE Shaken(ch, 0)
    <3>1. Shaken(ch, 1 - 1)
      BY <1>3, <1>6, <2>1 DEF ChildHolds
    <3> QED BY <3>1
  <2> QED BY <2>1 DEF Shaken
<1>9. line.what = "initialized" => server[ch] # "new"
  BY <1>3, <1>6 DEF ChildHolds
<1>10. ASSUME NEW n \in 0..Len(stdin'[ch]), Shaken(ch, n + 1) PROVE Shaken(ch, n)'
  <2>1. CASE server[ch] = "ready"
    BY <1>4, <2>1 DEF Shaken
  <2>2. CASE server[ch] # "ready"
    <3>1. PICK k \in 1..(n + 1) : stdin[ch][k].what = "initialized" /\ server[ch] = "asked"
      BY <1>10, <2>2 DEF Shaken
    <3>2. CASE k = 1
      BY <1>3, <1>4, <3>1, <3>2 DEF Shaken
    <3>3. CASE k # 1
      <4>1. k - 1 \in 1..n /\ stdin'[ch][k - 1] = stdin[ch][k]
        BY <1>3, <3>1, <3>3
      <4>2. server'[ch] \in {"asked", "ready"}
        BY <1>4, <3>1
      <4> QED BY <3>1, <4>1, <4>2 DEF Shaken
    <3> QED BY <3>2, <3>3
  <2> QED BY <2>1, <2>2
<1>11. Len(stdin[ch]) = Len(stdin'[ch]) + 1 /\ Len(stdin'[ch]) \in 0..Len(stdin'[ch])
  BY <1>3
<1>12. Shaken(ch, Len(stdin[ch])) => Shaken(ch, Len(stdin[ch]))'
  BY <1>10, <1>11
<1>13. (server[ch] # "new" => server'[ch] # "new") /\ (stdout'[ch] # stdout[ch] => server'[ch] # "new")
       /\ \A m \in stdout'[ch] : m \in stdout[ch] \/ m.ok
  BY <1>1, <1>4, <1>7, <1>8
<1>14. ChildHolds(ch)'
  <2>1. \A n \in 1..Len(stdin'[ch]) : stdin'[ch][n].what = "tools/call" => Shaken(ch, n - 1)'
    <3> SUFFICES ASSUME NEW n \in 1..Len(stdin'[ch]), stdin'[ch][n].what = "tools/call" PROVE Shaken(ch, n - 1)'
      OBVIOUS
    <3>1. n - 1 \in 0..Len(stdin'[ch]) /\ (n + 1) - 1 = (n - 1) + 1
      BY <1>3
    <3>2. Shaken(ch, (n + 1) - 1)
      BY <1>3, <1>6 DEF ChildHolds
    <3> QED BY <1>10, <3>1, <3>2
  <2>2. \A n \in 1..Len(stdin'[ch]) : stdin'[ch][n].what = "initialized" => server'[ch] # "new"
    BY <1>3, <1>6, <1>13 DEF ChildHolds
  <2>3. initialized'[ch] => Shaken(ch, Len(stdin[ch]))'
    BY <1>1, <1>6, <1>12 DEF ChildHolds
  <2> QED BY <1>1, <1>6, <1>13, <2>1, <2>2, <2>3 DEF ChildHolds
<1>15. Forward(ch)
  BY <1>1, <1>12, <1>13 DEF Forward
<1>16. ASSUME NEW e \in Calls, at[e] = ch, NEW what \in {"initialize", "tools/call"}, Underway(e, what)
       PROVE  Underway(e, what)'
  <2>1. CASE \E m \in stdout[ch] : m.of = e /\ m.what = what
    BY <1>1, <1>4, <1>16, <2>1 DEF Underway
  <2>2. CASE \E n \in 1..Len(stdin[ch]) : stdin[ch][n].of = e /\ stdin[ch][n].what = what
    <3>1. PICK n \in 1..Len(stdin[ch]) : stdin[ch][n].of = e /\ stdin[ch][n].what = what
      BY <2>2
    <3>2. CASE n = 1
      <4>1. line.of = e /\ line.what = what
        BY <1>3, <3>1, <3>2
      <4>2. \E good : reply(good) \in stdout'[ch]
        BY <1>4, <1>16, <4>1
      <4> QED BY <1>1, <1>7, <1>16, <4>1, <4>2 DEF Underway
    <3>3. CASE n # 1
      <4>1. n - 1 \in 1..Len(stdin'[ch]) /\ stdin'[ch][n - 1] = stdin[ch][n]
        BY <1>3, <3>1, <3>3
      <4> QED BY <1>1, <1>16, <3>1, <4>1 DEF Underway
    <3> QED BY <3>2, <3>3
  <2> QED BY <1>16, <2>1, <2>2 DEF Underway
<1>17. \A e \in Calls : SameCall(e)
  BY <1>1 DEF SameCall
<1>18. ASSUME NEW e \in Calls, at[e] = ch PROVE CallHolds(ch, e)'
  <2>1. CallHolds(ch, e)
    BY <1>18 DEF QuietInv, QuietAt
  <2> QED BY <1>1, <1>15, <1>16, <1>17, <1>18, <2>1, CallKept
<1>19. QuietAt(ch)'
  BY <1>1, <1>14, <1>18 DEF QuietAt
<1> QED BY <1>1, <1>5, <1>17, <1>19, Elsewhere

\* A request that is answered at once, or sent to its child, is no matter of a handshake.
LEMMA QuietArrives ==
  ASSUME OwnInv, QuietInv, ~troubled, UNCHANGED <<idOf, who, time>>, NEW c \in Calls,
         AnswerLocally(c) \/ Reject(c) \/ Refuse(c) \/ SerenaRoute(c) \/ PiRoute(c)
  PROVE  QuietInv'
<1>1. /\ UNCHANGED <<proc, initialized, server, stdin, stdout, queues, slot, shaking>>
      /\ pc[c] = "new" /\ at[c] = NoName /\ slot[c] = NoAnswer /\ at[c] \notin Children
      /\ \A e \in Calls \ {c} : pc'[e] = pc[e] /\ at'[e] = at[e] /\ result'[e] = result[e]
  BY ShimConstants DEF AnswerLocally, Reject, Refuse, AnsweredAtOnce, SerenaRoute, PiRoute, RouteTo, pipes, threads,
                       OwnInv, QuietInv, Threads, ThreadType
<1>2. (at'[c] = NoName /\ pc'[c] = "done") \/ (at'[c] \in Children /\ pc'[c] = "begin")
  <2>1. CASE SerenaRoute(c) \/ PiRoute(c)
    BY <2>1, RoutesLeadToChildren DEF SerenaRoute, PiRoute, RouteTo, OwnInv, Threads, ThreadType
  <2>2. CASE AnswerLocally(c) \/ Reject(c) \/ Refuse(c)
    BY <1>1, <2>2 DEF AnswerLocally, Reject, Refuse, AnsweredAtOnce, OwnInv, Threads, ThreadType
  <2> QED BY <2>1, <2>2
<1>3. ASSUME NEW ch \in Children PROVE QuietAt(ch)'
  <2>1. QuietAt(ch) /\ SamePipes(ch)
    BY <1>1 DEF QuietInv, SamePipes
  <2>2. ChildHolds(ch)'
    BY <1>1, <2>1, ChildKept DEF QuietAt
  <2>3. OwnHandshakes(ch)' => OwnHandshakes(ch)
    BY <1>1 DEF OwnHandshakes, HandshakeId, SerenaHandshakeId, PiHandshakeId
  <2>4. ASSUME NEW e \in Calls, at'[e] = ch PROVE CallHolds(ch, e)'
    <3>1. CASE e = c
      BY <1>1, <1>2, <2>4, <3>1, ShimConstants DEF CallHolds, Served, Shaking, Asking
    <3>2. CASE e # c
      <4>1. CallHolds(ch, e) /\ at[e] = ch
        BY <1>1, <2>1, <2>4, <3>2 DEF QuietAt
      <4>2. Alone(e)' => Alone(e)
        BY <1>1, <3>2, <4>1 DEF Alone
      <4>3. IdOfQueue(e)' = IdOfQueue(e)
        BY <1>1, <3>2 DEF IdOfQueue, HandshakeId, SerenaHandshakeId, PiHandshakeId
      <4>4. Served(e) => Served(e)'
        BY <1>1, <3>2, <4>3 DEF Served, Underway, Good
      <4>5. \A n : Shaken(ch, n)' <=> Shaken(ch, n)
        BY <1>1 DEF Shaken
      <4> QED BY <1>1, <2>3, <3>2, <4>1, <4>2, <4>4, <4>5 DEF CallHolds
    <3> QED BY <3>1, <3>2
  <2> QED BY <2>2, <2>4 DEF QuietAt
<1> QED BY <1>1, <1>2, <1>3 DEF QuietInv

LEMMA QuietSame ==
  ASSUME QuietInv, UNCHANGED <<idOf, time, proc, initialized, server, stdin, stdout, queues, slot, pc, at, result,
                               shaking, troubled>>
  PROVE  QuietInv'
<1>1. \A ch : ChildHolds(ch)' <=> ChildHolds(ch)
  BY DEF ChildHolds, Fresh, Shaken
<1>2. \A e : Served(e)' <=> Served(e)
  BY DEF Served, Underway, Good, IdOfQueue, HandshakeId, SerenaHandshakeId, PiHandshakeId
<1>3. \A ch, e : (Alone(e) /\ OwnHandshakes(ch))' <=> (Alone(e) /\ OwnHandshakes(ch))
  BY DEF Alone, OwnHandshakes, HandshakeId, SerenaHandshakeId, PiHandshakeId
<1>4. \A ch, e : CallHolds(ch, e)' <=> CallHolds(ch, e)
  BY <1>2, <1>3 DEF CallHolds, Shaken
<1>5. \A ch : QuietAt(ch)' <=> QuietAt(ch)
  BY <1>1, <1>4 DEF QuietAt
<1> QED BY <1>5 DEF QuietInv

LEMMA TroubleStays ==
  ASSUME OwnInv, NEW c \in Calls, Protocol(c), ~troubled'
  PROVE  ~troubled
<1>1. CASE Begin(c) \/ HandshakeStart(c) \/ NotifyStart(c)
  BY <1>1 DEF Begin, HandshakeStart, NotifyStart, Start, Running, Spawn, StartFails
<1>2. CASE GetTimesOut(c) \/ HandshakeTimesOut(c)
  BY <1>2 DEF GetTimesOut, HandshakeTimesOut, TimesOut
<1>3. CASE WriteCall(c) \/ GetAnswer(c) \/ GiveUp(c) \/ HandshakeWrite(c) \/ HandshakeAnswered(c)
           \/ HandshakeGivesUp(c) \/ NotifyWrite(c) \/ SetInitialized(c)
  BY <1>3 DEF WriteCall, GetAnswer, GiveUp, HandshakeWrite, HandshakeAnswered, Take, HandshakeGivesUp,
              NotifyWrite, SetInitialized
<1> QED BY <1>1, <1>2, <1>3 DEF Protocol

LEMMA QuietStep == OwnInv /\ OwnInv' /\ QuietInv /\ [Next]_vars => QuietInv'
<1> SUFFICES ASSUME OwnInv, OwnInv', QuietInv, [Next]_vars PROVE QuietInv'
  OBVIOUS
<1>1. CASE UNCHANGED vars
  BY <1>1, QuietSame DEF vars, said
<1>2. CASE troubled'
  BY <1>2 DEF QuietInv
<1>3. CASE Next /\ ~troubled'
  <2>1. UNCHANGED <<idOf, who, time>> /\ Step /\ ThreadType'
    BY <1>3 DEF Next, said, OwnInv, Threads
  <2>2. ASSUME NEW c \in Calls, CallStep(c) PROVE QuietInv'
    <3>1. CASE SerenaCall(c) \/ PiCall(c)
      <4>1. at[c] \in Children /\ Protocol(c)
        BY <3>1, CallsHaveChildren
      <4>2. ~troubled
        BY <1>3, <4>1, TroubleStays
      <4> QED BY <1>3, <2>1, <4>1, <4>2, QuietProtocol
    <3>2. CASE AnswerLocally(c) \/ Reject(c) \/ Refuse(c) \/ SerenaRoute(c) \/ PiRoute(c)
      <4>1. ~troubled
        BY <1>3, <3>2 DEF AnswerLocally, Reject, Refuse, AnsweredAtOnce, SerenaRoute, PiRoute, RouteTo
      <4> QED BY <2>1, <3>2, <4>1, QuietArrives
    <3> QED BY <2>2, <3>1, <3>2 DEF CallStep
  <2>3. ASSUME NEW s \in Sessions, NEW ch \in Children, BindSession(s, ch) PROVE QuietInv'
    BY <2>1, <2>3, QuietSame DEF BindSession, pipes, threads
  <2>4. ASSUME NEW ch \in Children, SerenaReader(ch) \/ PiReader(ch) PROVE QuietInv'
    <3>1. PICK m \in stdout[ch] : Deliver(ch, m)
      BY <2>4 DEF SerenaReader, PiReader
    <3> QED BY <1>3, <2>1, <3>1, QuietDeliver DEF Deliver
  <2>5. ASSUME NEW ch \in Children, Consume(ch) PROVE QuietInv'
    <3>1. ~troubled
      BY <1>3, <2>5 DEF Consume
    <3> QED BY <1>3, <2>1, <2>5, <3>1, QuietConsume
  <2>6. ASSUME NEW ch \in Children, Die(ch) PROVE QuietInv'
    BY <1>3, <2>6 DEF Die
  <2> QED BY <2>1, <2>2, <2>3, <2>4, <2>5, <2>6 DEF Step
<1> QED BY <1>1, <1>2, <1>3

LEMMA InitQuiet == Init => QuietInv
<1> SUFFICES ASSUME Init PROVE QuietInv
  OBVIOUS
<1>1. \A c \in Calls : at[c] \notin Children /\ slot[c] = NoAnswer
  BY ShimConstants DEF Init
<1>2. \A ch \in Children : ChildHolds(ch)
  BY DEF Init, ChildHolds, Fresh
<1> QED BY <1>1, <1>2 DEF QuietInv, QuietAt

\* While no process dies, refuses or undoes a handshake and nobody gives up on an
\* answer under way, every call with a message id of its own, to a child with which
\* no two calls shook hands under one id, is answered, whatever else the threads do
\* with that child, the queues and the lock; handshakes may overlap.
THEOREM QuietCalls == Spec => []QuietCallsSucceed
<1>1. Init => OwnInv /\ QuietInv
  BY InitOwn, InitQuiet
<1>2. (OwnInv /\ QuietInv) /\ [Next]_vars => (OwnInv /\ QuietInv)'
  BY OwnStep, QuietStep
<1>3. OwnInv /\ QuietInv => QuietCallsSucceed
  <2> SUFFICES ASSUME OwnInv, QuietInv, NEW c \in Calls, ~troubled, pc[c] = "done", at[c] # NoName,
                      \A d \in Calls \ {c} : at[d] = at[c] => idOf[d] # idOf[c], OwnHandshakes(at[c])
               PROVE  result[c] \in Answers /\ result[c].of = c /\ result[c].ok
    BY DEF QuietCallsSucceed
  <2>1. at[c] \in Children
    BY DEF OwnInv, Threads, ThreadType
  <2>2. CallHolds(at[c], c)
    BY <2>1 DEF QuietInv, QuietAt
  <2> QED BY <2>2 DEF CallHolds, Alone, Served, Good
<1> QED BY <1>1, <1>2, <1>3, PTL DEF Spec

(***************************************************************************)
(* SerenaMaintenance                                                       *)
(***************************************************************************)

Mine(c) == c.op = op /\ c.second = second
Copied(t, content) == \E c \in copies : c.of = t /\ c.content = content

\* Every copy is in a directory that a command has made.
CopiesInDirs == \A c \in copies : <<c.op, c.second>> \in dirs

\* The targets a command has still to write: each once, and as it read them.
WritesEachOnce ==
  stage = "write" =>
    /\ todo \in Seq(Targets(op))
    /\ \A m, n \in 1..Len(todo) : m # n => todo[m] # todo[n]
    /\ \A n \in 1..Len(todo) : todo[n] \notin touched => file[todo[n]] = before[todo[n]]

\* Until it writes, a command finds its targets as it read them.
Unwritten ==
  stage = "copy" => \A t \in Targets(op) : t \notin touched => file[t] = before[t]

\* Before it writes or restores, all it has read has been copied; only the
\* installation of the rule may come to restore it without a copy.
AllCopied ==
  stage = "write" \/ (stage = "restore" /\ op = "repair") =>
    \A t \in Targets(op) : t \notin touched /\ before[t] # Missing => Copied(t, before[t])

\* The copies of the command that runs hold what it read, or are cut short.
CopiesAreTrue ==
  stage \in {"write", "restore"} =>
    \A c \in copies : Mine(c) /\ c.of \notin touched =>
      c.content = before[c.of] \/ (c.of = "rule" /\ torn)

Restores == stage = "restore" => todo \in Seq(Targets(op))

\* What was overwritten is in a copy.  Only a rule put back without a copy is
\* not, and that one has not been changed.
Safe(r) ==
  \/ r[1] = "rule" /\ torn
  \/ Copied(r[1], r[2])
  \/ /\ r[1] = "rule" /\ r[2] # Missing /\ file["rule"] = r[2]
     /\ stage # "idle" /\ op = "install" => before["rule"] = r[2]

MaintenanceInv ==
  /\ file = [t \in Files |-> file[t]]
  /\ op \in {"repair", "install"}
  /\ touched \subseteq {"registry"}
  /\ CopiesInDirs /\ WritesEachOnce /\ Unwritten /\ AllCopied /\ CopiesAreTrue /\ Restores
  /\ \A r \in replaced : Safe(r)

LEMMA TargetsAreFiles ==
  ASSUME NEW o \in {"repair", "install"}
  PROVE  /\ Targets(o) = IF o = "repair" THEN {"registry", "agentcore", "swarm"} ELSE {"rule"}
         /\ TargetsOf(o) \in Seq(Targets(o))
         /\ \A m, n \in 1..Len(TargetsOf(o)) : m # n => TargetsOf(o)[m] # TargetsOf(o)[n]
<1>1. CASE o = "repair"
  <2>1. Targets(o) = {"registry", "agentcore", "swarm"}
    BY <1>1 DEF Targets, TargetsOf, Repair
  <2> QED BY <1>1, <2>1 DEF TargetsOf, Repair
<1>2. CASE o = "install"
  <2>1. Targets(o) = {"rule"}
    BY <1>2 DEF Targets, TargetsOf, Install
  <2> QED BY <1>2, <2>1 DEF TargetsOf, Install
<1> QED BY <1>1, <1>2

LEMMA RestOfTargets ==
  ASSUME NEW S, NEW s \in Seq(S), s # <<>>
  PROVE  /\ Head(s) \in S /\ Head(s) = s[1] /\ 1 \in 1..Len(s)
         /\ Tail(s) \in Seq(S)
         /\ \A n \in 1..Len(Tail(s)) : Tail(s)[n] = s[n + 1] /\ n + 1 \in 1..Len(s) /\ n + 1 # 1
OBVIOUS

USE DEF Mine, Copied

LEMMA MaintenanceInit == CommandInit => MaintenanceInv
<1> SUFFICES ASSUME CommandInit PROVE MaintenanceInv
  OBVIOUS
<1>1. file = [t \in Files |-> file[t]]
  BY DisksAssumption DEF CommandInit
<1> QED
  BY <1>1 DEF CommandInit, MaintenanceInv, CopiesInDirs, WritesEachOnce, Unwritten, AllCopied,
              CopiesAreTrue, Restores, Safe

\* A command that begins reads every file, and has neither copied nor written.
LEMMA BeginKeeps ==
  ASSUME MaintenanceInv, NEW o \in {"repair", "install"}, BeginCommand(o)
  PROVE  MaintenanceInv'
<1> USE DEF MaintenanceInv, BeginCommand
<1>1. stage' \in {"copy", "idle"} /\ before' = file /\ file' = file /\ touched' = {}
  BY DEF Goto, End
<1>2. \A r \in replaced' : Safe(r)'
  BY <1>1 DEF Safe, trouble
<1>3. CopiesInDirs' /\ WritesEachOnce' /\ Unwritten' /\ AllCopied' /\ CopiesAreTrue' /\ Restores'
  BY <1>1 DEF CopiesInDirs, WritesEachOnce, Unwritten, AllCopied, CopiesAreTrue, Restores
<1> QED BY <1>1, <1>2, <1>3

\* The directory is new, so no earlier copy is removed or taken for one of these.
LEMMA PrepareBackupKeeps ==
  ASSUME MaintenanceInv, PrepareBackup
  PROVE  MaintenanceInv'
<1> USE DEF MaintenanceInv, PrepareBackup
<1>1. /\ stage' = "write" /\ todo' = TargetsOf(op)
      /\ UNCHANGED <<file, op, second, before, touched, replaced, torn>>
  BY DEF Goto, trouble
<1>2. copies \subseteq copies'
  BY DEF CopiesInDirs, NewDirectory, Here
<1>3. \A t \in Present : CopyOf(t) \in copies'
  OBVIOUS
<1>4. \A c \in copies' : c \in copies \/ \E t \in Present : c = CopyOf(t)
  OBVIOUS
<1>5. CopiesInDirs'
  <2> SUFFICES ASSUME NEW c \in copies' PROVE <<c.op, c.second>> \in dirs'
    BY DEF CopiesInDirs
  <2>1. CASE c \in copies
    BY <2>1 DEF CopiesInDirs
  <2>2. CASE \E t \in Present : c = CopyOf(t)
    <3>1. c.op = op /\ c.second = second
      BY <2>2 DEF CopyOf
    <3> QED BY <3>1 DEF Here
  <2> QED BY <1>4, <2>1, <2>2
<1>6. WritesEachOnce'
  <2>1. Targets(op)' = Targets(op)
    BY <1>1 DEF Targets, TargetsOf
  <2>2. todo' \in Seq(Targets(op)) /\ \A m, n \in 1..Len(todo') : m # n => todo'[m] # todo'[n]
    BY <1>1, TargetsAreFiles
  <2>3. \A n \in 1..Len(todo') : todo'[n] \in Targets(op)
    BY <2>2
  <2>4. \A t \in Targets(op) : t \notin touched => file[t] = before[t]
    BY DEF Unwritten
  <2> QED BY <1>1, <2>1, <2>2, <2>3, <2>4 DEF WritesEachOnce
<1>7. AllCopied'
  <2> SUFFICES ASSUME NEW t \in Targets(op), t \notin touched, before[t] # Missing
               PROVE  \E c \in copies' : c.of = t /\ c.content = before[t]
    BY <1>1 DEF AllCopied, Targets, TargetsOf
  <2>1. file[t] = before[t] /\ t \in Present
    BY DEF Unwritten, Present
  <2> QED BY <1>3, <2>1 DEF CopyOf
<1>8. CopiesAreTrue'
  <2> SUFFICES ASSUME NEW c \in copies', c.op = op, c.second = second, c.of \notin touched
               PROVE  c.content = before[c.of]
    BY <1>1 DEF CopiesAreTrue
  <2>1. c \notin copies
    BY DEF CopiesInDirs, NewDirectory, Here
  <2>2. PICK t \in Present : c = CopyOf(t)
    BY <1>4, <2>1
  <2>3. c.of = t /\ c.content = file[t]
    BY <2>2 DEF CopyOf
  <2>4. t \in Targets(op)
    BY DEF Present
  <2> QED BY <2>3, <2>4 DEF Unwritten
<1>9. \A r \in replaced' : Safe(r)'
  BY <1>1, <1>2 DEF Safe
<1> QED BY <1>1, <1>5, <1>6, <1>7, <1>8, <1>9 DEF Unwritten, Restores

\* Steps that change nothing but where the command is and how it has ended.
LEMMA EndKeeps ==
  ASSUME MaintenanceInv, stage' = "idle",
         UNCHANGED <<file, second, copies, op, before, touched, replaced, torn>>,
         dirs \subseteq dirs'
  PROVE  MaintenanceInv'
<1> USE DEF MaintenanceInv
<1>1. \A r \in replaced' : Safe(r)'
  BY DEF Safe
<1> QED BY <1>1 DEF CopiesInDirs, WritesEachOnce, Unwritten, AllCopied, CopiesAreTrue, Restores

\* A copy of the rule that fails may leave something that is not a copy.
LEMMA CopyFailsKeeps ==
  ASSUME MaintenanceInv, CopyFails
  PROVE  MaintenanceInv'
<1> USE DEF MaintenanceInv
<1>1. UNCHANGED <<file, second, op, before, touched, replaced>> /\ dirs \subseteq dirs'
  BY DEF CopyFails
<1>2. CASE op = "repair"
  BY <1>1, <1>2, EndKeeps DEF CopyFails, End
<1>3. CASE op = "install"
  <2>1. stage' = "restore" /\ todo' = TargetsOf(op) /\ copies \subseteq copies' /\ (torn => torn')
    BY <1>3 DEF CopyFails, Goto
  <2>2. \A c \in copies' : c \notin copies =>
          c.op = op /\ c.second = second /\ c.of = "rule" /\ torn'
    BY <1>3 DEF CopyFails, CopyOf
  <2>3. Here \in dirs' /\ Here \notin dirs
    BY DEF CopyFails, NewDirectory
  <2>4. CopiesInDirs'
    BY <1>1, <2>2, <2>3 DEF CopiesInDirs, Here
  <2>5. CopiesAreTrue'
    BY <1>1, <2>1, <2>2, <2>3 DEF CopiesAreTrue, CopiesInDirs, Here
  <2>6. \A r \in replaced' : Safe(r)'
    BY <1>1, <1>3, <2>1 DEF Safe, CopyFails
  <2>7. Restores'
    BY <1>1, <2>1, TargetsAreFiles DEF Restores, Targets, TargetsOf
  <2> QED
    BY <1>1, <1>3, <2>1, <2>4, <2>5, <2>6, <2>7 DEF WritesEachOnce, Unwritten, AllCopied
<1> QED BY <1>2, <1>3

\* A command that starts to restore has still its copies.
LEMMA RestoreBegins ==
  ASSUME MaintenanceInv, stage = "write", stage' = "restore", todo' = TargetsOf(op),
         UNCHANGED <<file, second, copies, dirs, op, before, touched, replaced, torn>>
  PROVE  MaintenanceInv'
<1> USE DEF MaintenanceInv
<1>1. \A r \in replaced' : Safe(r)'
  BY DEF Safe
<1>2. Targets(op)' = Targets(op)
  BY DEF Targets, TargetsOf
<1>3. Restores'
  BY <1>2, TargetsAreFiles DEF Restores
<1>4. AllCopied' /\ CopiesAreTrue'
  BY <1>2 DEF AllCopied, CopiesAreTrue
<1> QED BY <1>1, <1>3, <1>4 DEF CopiesInDirs, WritesEachOnce, Unwritten

\* What is overwritten is as it was read, and that has been copied.
LEMMA WriteKeeps ==
  ASSUME MaintenanceInv, WriteTarget
  PROVE  MaintenanceInv'
<1> USE DEF MaintenanceInv
<1>1. /\ stage = "write" /\ todo # <<>>
      /\ UNCHANGED <<second, copies, dirs, op, before, touched, torn>>
  BY DEF WriteTarget
<1>2. CASE UNCHANGED <<file, replaced>> /\ Goto("restore", TargetsOf(op))
  BY <1>1, <1>2, RestoreBegins DEF Goto
<1>3. CASE /\ file' = [file EXCEPT ![Head(todo)] = wanted[Head(todo)]]
           /\ replaced' = IF file[Head(todo)] = Missing \/ Head(todo) \in touched THEN replaced
                          ELSE replaced \cup {<<Head(todo), file[Head(todo)]>>}
           /\ stage' = "write" /\ todo' = Tail(todo)
  <2> DEFINE t == Head(todo)
  <2>1. Targets(op)' = Targets(op)
    BY <1>1 DEF Targets, TargetsOf
  <2>2. /\ todo \in Seq(Targets(op))
        /\ \A m, n \in 1..Len(todo) : m # n => todo[m] # todo[n]
        /\ \A n \in 1..Len(todo) : todo[n] \notin touched => file[todo[n]] = before[todo[n]]
    BY <1>1 DEF WritesEachOnce
  <2>3. /\ t \in Targets(op) /\ t = todo[1] /\ 1 \in 1..Len(todo)
        /\ Tail(todo) \in Seq(Targets(op))
        /\ \A n \in 1..Len(Tail(todo)) :
             Tail(todo)[n] = todo[n + 1] /\ n + 1 \in 1..Len(todo) /\ n + 1 # 1
    BY <1>1, <2>2, RestOfTargets
  <2>4. t \notin touched => file[t] = before[t]
    BY <2>2, <2>3
  <2>5. \A u : u # t /\ u \in Files => file'[u] = file[u]
    BY <1>3
  <2>6. file' = [u \in Files |-> file'[u]]
    BY <1>3
  <2> HIDE DEF t
  <2>7. WritesEachOnce'
    <3>1. \A m, n \in 1..Len(Tail(todo)) : m # n => Tail(todo)[m] # Tail(todo)[n]
      BY <2>2, <2>3
    <3>2. ASSUME NEW n \in 1..Len(Tail(todo)), Tail(todo)[n] \notin touched
          PROVE  file'[Tail(todo)[n]] = before[Tail(todo)[n]]
      <4>1. Tail(todo)[n] # t
        BY <2>2, <2>3
      <4>2. Tail(todo)[n] \in Files
        BY <2>2, <2>3, TargetsAreFiles DEF Files
      <4> QED BY <2>2, <2>3, <2>5, <3>2, <4>1, <4>2
    <3> QED BY <1>1, <1>3, <2>1, <2>3, <3>1, <3>2 DEF WritesEachOnce
  <2>8. \A r \in replaced' : Safe(r)'
    <3>1. ASSUME t \notin touched, file[t] # Missing PROVE Copied(t, file[t])
      BY <1>1, <2>3, <2>4, <3>1 DEF AllCopied
    <3>2. ASSUME NEW r \in replaced PROVE Safe(r)'
      <4>1. CASE r[1] = "rule" /\ torn
        BY <1>1, <4>1 DEF Safe
      <4>2. CASE Copied(r[1], r[2])
        BY <1>1, <4>2 DEF Safe
      <4>3. CASE /\ r[1] = "rule" /\ r[2] # Missing /\ file["rule"] = r[2]
                 /\ stage # "idle" /\ op = "install" => before["rule"] = r[2]
        <5>1. CASE t = "rule"
          <6>1. Copied("rule", file["rule"])
            BY <3>1, <4>3, <5>1
          <6> QED BY <1>1, <4>3, <6>1 DEF Safe
        <5>2. CASE t # "rule"
          <6>1. op = "repair"
            BY <2>3, <5>2, TargetsAreFiles
          <6>2. file'["rule"] = file["rule"]
            BY <2>5, <5>2 DEF Files
          <6> QED BY <1>1, <4>3, <6>1, <6>2 DEF Safe
        <5> QED BY <5>1, <5>2
      <4> QED BY <4>1, <4>2, <4>3 DEF Safe
    <3>3. ASSUME t \notin touched, file[t] # Missing, NEW r, r = <<t, file[t]>>
          PROVE  Safe(r)'
      BY <1>1, <3>1, <3>3 DEF Safe
    <3> QED BY <1>3, <3>2, <3>3 DEF t
  <2> QED
    BY <1>1, <1>3, <2>1, <2>6, <2>7, <2>8
    DEF CopiesInDirs, Unwritten, AllCopied, CopiesAreTrue, Restores
<1> QED BY <1>1, <1>2, <1>3 DEF WriteTarget, Goto

\* The target is put back from its copy, which holds what the command read.
LEMMA RestoreKeeps ==
  ASSUME MaintenanceInv, Restore
  PROVE  MaintenanceInv'
<1> USE DEF MaintenanceInv
<1>1. /\ stage = "restore"
      /\ UNCHANGED <<second, copies, dirs, op, before, touched, torn>>
  BY DEF Restore
<1>2. CASE UNCHANGED <<file, replaced>> /\ stage' = "idle"
  BY <1>1, <1>2, EndKeeps
<1> DEFINE t == Head(todo)
           content == IF CopiesOf(t) = {} THEN RemoveCreated(t)
                      ELSE Lf((CHOOSE c \in CopiesOf(t) : TRUE).content)
<1>3. CASE /\ todo # <<>>
           /\ file' = [file EXCEPT ![t] = content]
           /\ replaced' = IF file[t] = Missing \/ t \in touched \/ file[t] # before[t]
                          THEN replaced ELSE replaced \cup {<<t, file[t]>>}
           /\ stage' = "restore" /\ todo' = Tail(todo)
  <2>1. Targets(op)' = Targets(op)
    BY <1>1 DEF Targets, TargetsOf
  <2>2. todo \in Seq(Targets(op))
    BY <1>1 DEF Restores
  <2>3. t \in Targets(op) /\ Tail(todo) \in Seq(Targets(op))
    BY <1>3, <2>2, RestOfTargets
  <2>4. t \in Files
    BY <2>3, TargetsAreFiles DEF Files
  <2> HIDE DEF t, content
  <2>5. /\ file' = [u \in Files |-> file'[u]]
        /\ file'[t] = content
        /\ \A u \in Files : u # t => file'[u] = file[u]
    BY <1>3, <2>4
  <2>6. ASSUME t \notin touched, CopiesOf(t) # {}
        PROVE  Copied(t, before[t]) \/ (t = "rule" /\ torn)
    <3>1. PICK c \in copies : Mine(c) /\ c.of = t
      BY <2>6 DEF CopiesOf, Here
    <3> QED BY <1>1, <2>6, <3>1 DEF CopiesAreTrue
  <2>7. ASSUME NEW r \in replaced PROVE Safe(r)'
    <3>1. CASE r[1] = "rule" /\ torn
      BY <1>1, <3>1 DEF Safe
    <3>2. CASE Copied(r[1], r[2])
      BY <1>1, <3>2 DEF Safe
    <3>3. CASE /\ r[1] = "rule" /\ r[2] # Missing /\ file["rule"] = r[2]
               /\ stage # "idle" /\ op = "install" => before["rule"] = r[2]
      <4>1. CASE t = "rule"
        <5>1. op = "install" /\ before["rule"] = r[2] /\ "rule" \notin touched
          BY <1>1, <2>3, <3>3, <4>1, TargetsAreFiles
        <5>2. CASE CopiesOf(t) # {}
          BY <1>1, <2>6, <3>3, <4>1, <5>1, <5>2 DEF Safe
        <5>3. CASE CopiesOf(t) = {}
          <6>1. file'["rule"] = r[2]
            BY <2>5, <3>3, <4>1, <5>1, <5>3 DEF content, RemoveCreated
          <6> QED BY <1>1, <3>3, <5>1, <6>1 DEF Safe
        <5> QED BY <5>2, <5>3
      <4>2. CASE t # "rule"
        <5>1. file'["rule"] = file["rule"]
          BY <2>5, <4>2 DEF Files
        <5> QED BY <1>1, <1>3, <3>3, <5>1 DEF Safe
      <4> QED BY <4>1, <4>2
    <3> QED BY <2>7, <3>1, <3>2, <3>3 DEF Safe
  <2>8. ASSUME file[t] # Missing, t \notin touched, file[t] = before[t],
               NEW r, r = <<t, file[t]>>
        PROVE  Safe(r)'
    <3>1. CASE CopiesOf(t) # {}
      BY <1>1, <2>6, <2>8, <3>1 DEF Safe
    <3>2. CASE CopiesOf(t) = {} /\ op = "repair"
      <4>1. Copied(t, before[t])
        BY <1>1, <2>3, <2>8, <3>2 DEF AllCopied
      <4> QED BY <1>1, <2>8, <4>1 DEF Safe
    <3>3. CASE CopiesOf(t) = {} /\ op = "install"
      <4>1. t = "rule"
        BY <2>3, <3>3, TargetsAreFiles
      <4>2. file'["rule"] = before["rule"]
        BY <2>5, <2>8, <3>3, <4>1 DEF content, RemoveCreated
      <4> QED BY <1>1, <2>8, <4>1, <4>2 DEF Safe
    <3> QED BY <3>1, <3>2, <3>3
  <2>9. \A r \in replaced' : Safe(r)'
    BY <1>3, <2>7, <2>8
  <2>10. Restores' /\ AllCopied' /\ CopiesAreTrue'
    BY <1>1, <1>3, <2>1, <2>3 DEF Restores, AllCopied, CopiesAreTrue
  <2> QED
    BY <1>1, <1>3, <2>5, <2>9, <2>10 DEF CopiesInDirs, WritesEachOnce, Unwritten
<1> QED BY <1>1, <1>2, <1>3 DEF Restore, Goto, End

\* What Serena saves is its own; no command answers for it until it reads it.
LEMMA SerenaSavesKeeps ==
  ASSUME MaintenanceInv, SerenaSaves
  PROVE  MaintenanceInv'
<1> USE DEF MaintenanceInv
<1>1. /\ UNCHANGED <<second, copies, dirs, op, stage, todo, before, replaced, torn>>
      /\ touched' = touched \cup {"registry"}
      /\ \A u \in Files : u # "registry" => file'[u] = file[u]
      /\ file' = [u \in Files |-> file'[u]]
  BY DEF SerenaSaves, trouble
<1>2. Targets(op)' = Targets(op) /\ Targets(op) \subseteq Files
  <2>1. Targets(op)' = Targets(op)
    BY <1>1 DEF Targets, TargetsOf
  <2> QED BY <2>1, TargetsAreFiles DEF Files
<1>3. \A r \in replaced' : Safe(r)'
  <2>1. file'["rule"] = file["rule"]
    BY <1>1 DEF Files
  <2> QED BY <1>1, <2>1 DEF Safe
<1>4. WritesEachOnce'
  <2> SUFFICES ASSUME stage = "write" PROVE WritesEachOnce'
    BY <1>1 DEF WritesEachOnce
  <2>1. todo \in Seq(Targets(op))
    BY DEF WritesEachOnce
  <2>2. \A n \in 1..Len(todo) : todo[n] \in Files
    BY <1>2, <2>1
  <2> QED BY <1>1, <1>2, <2>2 DEF WritesEachOnce
<1>5. Unwritten'
  BY <1>1, <1>2 DEF Unwritten
<1>6. AllCopied' /\ CopiesAreTrue' /\ Restores' /\ CopiesInDirs'
  BY <1>1, <1>2 DEF AllCopied, CopiesAreTrue, Restores, CopiesInDirs
<1> QED BY <1>1, <1>3, <1>4, <1>5, <1>6

\* Every step of the command, of Serena or of neither keeps the invariant.
THEOREM MaintenanceInvariant == CommandSpec => []MaintenanceInv
<1>1. ASSUME MaintenanceInv, [CommandNext]_commandVars PROVE MaintenanceInv'
  <2>1. CASE \E o \in {"repair", "install"} : BeginCommand(o)
    BY <1>1, <2>1, BeginKeeps
  <2>2. CASE PrepareBackup
    BY <1>1, <2>2, PrepareBackupKeeps
  <2>3. CASE NoBackup
    BY <1>1, <2>3, EndKeeps DEF NoBackup, End, trouble
  <2>4. CASE CopyFails
    BY <1>1, <2>4, CopyFailsKeeps
  <2>5. CASE WriteTarget
    BY <1>1, <2>5, WriteKeeps
  <2>6. CASE Validate
    <3>1. /\ stage = "write"
          /\ UNCHANGED <<file, second, copies, dirs, op, before, touched, replaced, torn>>
          /\ stage' = "idle" \/ (stage' = "restore" /\ todo' = TargetsOf(op))
      BY <2>6 DEF Validate, End, Goto
    <3> QED BY <1>1, <3>1, EndKeeps, RestoreBegins
  <2>7. CASE Restore
    BY <1>1, <2>7, RestoreKeeps
  <2>8. CASE Killed
    BY <1>1, <2>8, EndKeeps DEF Killed, End
  <2>9. CASE SerenaSaves
    BY <1>1, <2>9, SerenaSavesKeeps
  <2>10. CASE UNCHANGED commandVars
    <3>1. \A r \in replaced' : Safe(r)'
      BY <1>1, <2>10 DEF MaintenanceInv, Safe, commandVars, trouble
    <3>2. Targets(op)' = Targets(op)
      BY <2>10 DEF Targets, TargetsOf, commandVars
    <3> QED
      BY <1>1, <2>10, <3>1, <3>2 DEF MaintenanceInv, CopiesInDirs, WritesEachOnce, Unwritten,
         AllCopied, CopiesAreTrue, Restores, commandVars, trouble
  <2> QED
    BY <1>1, <2>1, <2>2, <2>3, <2>4, <2>5, <2>6, <2>7, <2>8, <2>9, <2>10 DEF CommandNext
<1> QED BY <1>1, MaintenanceInit, PTL DEF CommandSpec

\* Whatever fails and whoever is killed, in any order: what a command has
\* overwritten is in its place again, or in a copy (_prepare_backup, _restore).
THEOREM OriginalsAreSafe == CommandSpec => []OriginalsSurvive
<1>1. MaintenanceInv => OriginalsSurvive
  BY DEF MaintenanceInv, Safe, OriginalsSurvive
<1> QED BY <1>1, MaintenanceInvariant, PTL

(**************************** all or nothing *******************************)
\* The targets that are left to write, or to restore.
Left == {todo[n] : n \in 1..Len(todo)}

\* How far a command has come with a target that Serena has not written: what
\* it read is in the command's own directory before it is overwritten; a rule
\* that is put back without a copy has not been changed; what is written is as
\* wanted, and what is restored as it was.
Handled(t) ==
  /\ (stage = "write" \/ (stage = "restore" /\ op = "repair")) /\ before[t] # Missing =>
       CopiesOf(t) # {}
  /\ stage = "restore" /\ op = "install" /\ CopiesOf(t) = {} /\ before[t] # Missing =>
       file[t] = before[t]
  /\ stage = "write" => t \in Left \/ file[t] = wanted[t]
  /\ stage = "restore" => t \in Left \/ (t = "rule" /\ torn) \/ Lf(file[t]) = Lf(before[t])

OutcomeInv ==
  /\ stage = "idle" \/ outcome = "running"
  /\ \A t \in Targets(op) : t \notin touched => Handled(t)
  /\ AllOrNothing

\* Text that is saved twice is as text that is saved once.
LEMMA LfTwice == ASSUME NEW c PROVE Lf(Lf(c)) = Lf(c)
<1> DEFINE d == [c EXCEPT !.eol = "lf"]
<1>1. CASE c \in {Missing, Torn}
  BY <1>1 DEF Lf
<1>2. CASE c \notin {Missing, Torn}
  <2>1. Lf(c) = d
    BY <1>2 DEF Lf
  <2>2. [d EXCEPT !.eol = "lf"] = d
    OBVIOUS
  <2> HIDE DEF d
  <2>3. Lf(d) = d
    BY <2>2 DEF Lf
  <2> QED BY <2>1, <2>3
<1> QED BY <1>1, <1>2

\* A command that starts on its targets has all of them left.
LEMMA AllAreLeft ==
  ASSUME NEW o \in {"repair", "install"}, NEW t \in Targets(o)
  PROVE  \E n \in 1..Len(TargetsOf(o)) : TargetsOf(o)[n] = t
<1>1. TargetsOf(o) \in Seq(Targets(o))
  BY TargetsAreFiles
<1>2. DOMAIN TargetsOf(o) = 1..Len(TargetsOf(o))
  BY <1>1
<1> QED BY <1>2 DEF Targets

\* The target that a step takes is the one that is no longer left.
LEMMA OneLess ==
  ASSUME NEW S, todo \in Seq(S), todo # <<>>, todo' = Tail(todo)
  PROVE  Left' \cup {Head(todo)} = Left
<1>1. /\ Head(todo) = todo[1] /\ Len(todo) \in Nat \ {0} /\ Len(todo') = Len(todo) - 1
      /\ \A n \in 1..Len(todo) - 1 : todo'[n] = todo[n + 1]
  OBVIOUS
<1>2. Head(todo) \in Left /\ Left' \subseteq Left
  BY <1>1 DEF Left
<1>3. ASSUME NEW n \in 1..Len(todo), n # 1 PROVE todo[n] \in Left'
  <2>1. n - 1 \in 1..Len(todo') /\ todo'[n - 1] = todo[n]
    BY <1>1, <1>3
  <2> QED BY <2>1 DEF Left
<1> QED BY <1>1, <1>2, <1>3 DEF Left

\* Before the first command there is nothing to hand over.
LEMMA OutcomeInit == CommandInit => OutcomeInv
BY DEF CommandInit, OutcomeInv, Handled, AllOrNothing

\* A command begins, or ends before it has written.
LEMMA OutcomeBegins ==
  ASSUME MaintenanceInv, OutcomeInv, NEW o \in {"repair", "install"}, BeginCommand(o)
  PROVE  OutcomeInv'
BY DEF BeginCommand, Goto, End, OutcomeInv, Handled, AllOrNothing

\* A command that could not copy ends before it has written anything.
LEMMA UnwrittenEnds ==
  ASSUME MaintenanceInv, stage = "copy", End("error"), UNCHANGED <<file, op, before, touched>>
  PROVE  OutcomeInv'
<1>1. \A t \in Targets(op) : t \notin touched => file[t] = before[t]
  BY DEF MaintenanceInv, Unwritten
<1>2. Targets(op)' = Targets(op)
  BY DEF Targets, TargetsOf
<1> QED BY <1>1, <1>2 DEF End, OutcomeInv, Handled, AllOrNothing

\* A command ends as a killed one, or one that cannot restore, does.
LEMMA OutcomeOpen ==
  ASSUME NEW how \in {"killed", "not restored"}, End(how)
  PROVE  OutcomeInv'
BY DEF End, OutcomeInv, Handled, AllOrNothing

\* What was copied was read, and is in the command's own directory.
LEMMA OutcomeCopies ==
  ASSUME MaintenanceInv, OutcomeInv, PrepareBackup
  PROVE  OutcomeInv'
<1>1. /\ stage = "copy" /\ stage' = "write" /\ todo' = TargetsOf(op) /\ outcome' = outcome
      /\ UNCHANGED <<file, op, second, before, touched>>
      /\ copies' = {c \in copies : <<c.op, c.second>> # Here} \cup {CopyOf(t) : t \in Present}
  BY DEF PrepareBackup, Goto
<1>2. Targets(op)' = Targets(op) /\ op \in {"repair", "install"}
  BY <1>1 DEF Targets, TargetsOf, MaintenanceInv
<1>3. ASSUME NEW t \in Targets(op), t \notin touched PROVE Handled(t)'
  <2>1. t \in Left'
    BY <1>1, <1>2, AllAreLeft DEF Left
  <2>2. ASSUME before[t] # Missing PROVE CopiesOf(t)' # {}
    <3>1. t \in Present
      BY <1>1, <1>3, <2>2 DEF Present, MaintenanceInv, Unwritten
    <3>2. CopyOf(t) \in CopiesOf(t)'
      BY <1>1, <3>1 DEF CopiesOf, CopyOf, Here
    <3> QED BY <3>2
  <2> QED BY <1>1, <2>1, <2>2 DEF Handled
<1>4. outcome' = "running"
  BY <1>1 DEF OutcomeInv
<1> QED BY <1>1, <1>2, <1>3, <1>4 DEF OutcomeInv, AllOrNothing

\* A rule that fails to be copied is one that has not been changed.
LEMMA OutcomeCopyFails ==
  ASSUME MaintenanceInv, OutcomeInv, CopyFails
  PROVE  OutcomeInv'
<1>1. stage = "copy" /\ UNCHANGED <<file, op, second, before, touched>>
  BY DEF CopyFails
<1>2. CASE op = "repair"
  BY <1>1, <1>2, UnwrittenEnds DEF CopyFails
<1>3. CASE op = "install"
  <2>1. stage' = "restore" /\ todo' = TargetsOf(op) /\ outcome' = "running"
    BY <1>1, <1>3 DEF CopyFails, Goto, OutcomeInv
  <2>2. Targets(op)' = Targets(op)
    BY <1>1 DEF Targets, TargetsOf
  <2>3. ASSUME NEW t \in Targets(op), t \notin touched PROVE Handled(t)'
    <3>1. t \in Left'
      BY <1>3, <2>1, AllAreLeft DEF Left
    <3>2. file[t] = before[t]
      BY <1>1, <2>3 DEF MaintenanceInv, Unwritten
    <3> QED BY <1>1, <1>3, <2>1, <3>1, <3>2 DEF Handled
  <2> QED BY <1>1, <2>1, <2>2, <2>3 DEF OutcomeInv, AllOrNothing
<1> QED BY <1>2, <1>3 DEF MaintenanceInv

\* A command that starts to restore has everything to restore, and its copies.
LEMMA OutcomeRestores ==
  ASSUME MaintenanceInv, OutcomeInv, stage = "write", Goto("restore", TargetsOf(op)),
         UNCHANGED <<file, op, second, copies, before, touched>>
  PROVE  OutcomeInv'
<1>1. Targets(op)' = Targets(op) /\ op \in {"repair", "install"}
  BY DEF Targets, TargetsOf, MaintenanceInv
<1>2. ASSUME NEW t \in Targets(op), t \notin touched PROVE Handled(t)'
  <2>1. t \in Left'
    BY <1>1, AllAreLeft DEF Left, Goto
  <2>2. CopiesOf(t)' = CopiesOf(t)
    BY DEF CopiesOf, Here
  <2> QED BY <1>2, <2>1, <2>2 DEF OutcomeInv, Handled, Goto
<1> QED BY <1>1, <1>2 DEF OutcomeInv, AllOrNothing, Goto

\* A target is written as the command wants it, or the command restores.
LEMMA OutcomeWrites ==
  ASSUME MaintenanceInv, OutcomeInv, WriteTarget
  PROVE  OutcomeInv'
<1>1. /\ stage = "write" /\ todo # <<>> /\ outcome = "running"
      /\ UNCHANGED <<second, copies, op, wanted, before, touched>>
  BY DEF WriteTarget, OutcomeInv
<1>2. CASE UNCHANGED file /\ Goto("restore", TargetsOf(op))
  BY <1>1, <1>2, OutcomeRestores
<1> DEFINE t == Head(todo)
<1>3. CASE file' = [file EXCEPT ![t] = wanted[t]] /\ Goto("write", Tail(todo))
  <2>1. Targets(op)' = Targets(op) /\ todo \in Seq(Targets(op))
    BY <1>1 DEF Targets, TargetsOf, MaintenanceInv, WritesEachOnce
  <2>2. Left' \cup {t} = Left
    BY <1>1, <1>3, <2>1, OneLess DEF Goto
  <2>3. t \in Targets(op) /\ Targets(op) \subseteq Files
    BY <1>1, <2>1, RestOfTargets, TargetsAreFiles DEF Files, MaintenanceInv
  <2> HIDE DEF t
  <2>4. /\ file'[t] = wanted[t]
        /\ \A u \in Targets(op) : u # t => file'[u] = file[u]
    BY <1>3, <2>3 DEF MaintenanceInv
  <2>5. ASSUME NEW u \in Targets(op), u \notin touched PROVE Handled(u)'
    <3>1. CopiesOf(u)' = CopiesOf(u)
      BY <1>1 DEF CopiesOf, Here
    <3> QED BY <1>1, <1>3, <2>2, <2>4, <2>5, <3>1 DEF OutcomeInv, Handled, Goto
  <2> QED BY <1>1, <1>3, <2>1, <2>5 DEF OutcomeInv, AllOrNothing, Goto
<1> QED BY <1>1, <1>2, <1>3 DEF WriteTarget

\* A command ends well only with everything written and valid.
LEMMA OutcomeValidates ==
  ASSUME MaintenanceInv, OutcomeInv, Validate
  PROVE  OutcomeInv'
<1>1. /\ stage = "write" /\ todo = <<>>
      /\ UNCHANGED <<file, second, copies, op, wanted, before, touched>>
  BY DEF Validate
<1>2. CASE Goto("restore", TargetsOf(op))
  BY <1>1, <1>2, OutcomeRestores
<1>3. CASE AllAreValid /\ End("ok")
  <2>1. Left = {}
    BY <1>1 DEF Left
  <2>2. \A t \in Targets(op) : t \notin touched => file[t] = wanted[t] /\ Valid(t, file[t])
    BY <1>1, <1>3, <2>1 DEF OutcomeInv, Handled, AllAreValid
  <2>3. Targets(op)' = Targets(op) /\ \A t, c : Valid(t, c)' = Valid(t, c)
    BY <1>1 DEF Targets, TargetsOf, Valid, ValidRegistry, ValidRule, ValidConfig
  <2> QED BY <1>1, <1>3, <2>2, <2>3 DEF End, OutcomeInv, Handled, AllOrNothing
<1> QED BY <1>2, <1>3 DEF Validate

\* A target is put back from the command's own copy, or was not changed.
LEMMA OutcomeRestored ==
  ASSUME MaintenanceInv, OutcomeInv, Restore
  PROVE  OutcomeInv'
<1>1. /\ stage = "restore" /\ outcome = "running"
      /\ UNCHANGED <<second, copies, op, wanted, before, touched, torn>>
  BY DEF Restore, OutcomeInv
<1>2. Targets(op)' = Targets(op)
  BY <1>1 DEF Targets, TargetsOf
<1>3. CASE End("not restored")
  BY <1>3, OutcomeOpen
<1>4. CASE todo = <<>> /\ End("error") /\ file' = file
  <2>1. Left = {}
    BY <1>4 DEF Left
  <2>2. \A t \in Targets(op) : t \notin touched =>
          (t = "rule" /\ torn) \/ Lf(file[t]) = Lf(before[t])
    BY <1>1, <2>1 DEF OutcomeInv, Handled
  <2> QED BY <1>1, <1>2, <1>4, <2>2 DEF End, OutcomeInv, Handled, AllOrNothing
<1> DEFINE t == Head(todo)
           content == IF CopiesOf(t) = {} THEN RemoveCreated(t)
                      ELSE Lf((CHOOSE c \in CopiesOf(t) : TRUE).content)
<1>5. CASE todo # <<>> /\ file' = [file EXCEPT ![t] = content] /\ Goto("restore", Tail(todo))
  <2>1. todo \in Seq(Targets(op))
    BY <1>1 DEF MaintenanceInv, Restores
  <2>2. Left' \cup {t} = Left
    BY <1>5, <2>1, OneLess DEF Goto
  <2>3. t \in Targets(op) /\ Targets(op) \subseteq Files
    BY <1>5, <2>1, RestOfTargets, TargetsAreFiles DEF Files, MaintenanceInv
  <2>4. ASSUME t \notin touched, ~(t = "rule" /\ torn) PROVE Lf(content) = Lf(before[t])
    <3>1. CASE CopiesOf(t) # {}
      <4> DEFINE c == CHOOSE c \in CopiesOf(t) : TRUE
      <4>1. c \in CopiesOf(t)
        BY <3>1
      <4> HIDE DEF c
      <4>2. c \in copies /\ c.op = op /\ c.second = second /\ c.of = t
        BY <4>1 DEF CopiesOf, Here
      <4>3. c.content = before[t]
        BY <1>1, <2>4, <4>2 DEF MaintenanceInv, CopiesAreTrue
      <4>4. content = Lf(before[t])
        BY <3>1, <4>3 DEF c
      <4> QED BY <4>4, LfTwice
    <3>2. CASE CopiesOf(t) = {} /\ before[t] = Missing
      BY <3>2 DEF RemoveCreated
    <3>3. CASE CopiesOf(t) = {} /\ before[t] # Missing
      <4>1. op = "install"
        BY <1>1, <2>3, <2>4, <3>3 DEF OutcomeInv, Handled, MaintenanceInv
      <4>2. file[t] = before[t]
        BY <1>1, <2>3, <2>4, <3>3, <4>1 DEF OutcomeInv, Handled
      <4> QED BY <3>3, <4>2 DEF RemoveCreated
    <3> QED BY <3>1, <3>2, <3>3
  <2>5. ASSUME CopiesOf(t) = {}, before[t] # Missing PROVE content = file[t]
    BY <2>5 DEF RemoveCreated
  <2> HIDE DEF t, content
  <2>6. /\ file'[t] = content
        /\ \A u \in Targets(op) : u # t => file'[u] = file[u]
    BY <1>5, <2>3 DEF MaintenanceInv
  <2>7. ASSUME NEW u \in Targets(op), u \notin touched PROVE Handled(u)'
    <3>1. CopiesOf(u)' = CopiesOf(u)
      BY <1>1 DEF CopiesOf, Here
    <3>2. Handled(u)
      BY <2>7 DEF OutcomeInv
    <3>3. CASE u = t
      <4>1. Lf(file[u])' = Lf(file'[u]) /\ Lf(before[u])' = Lf(before[u])
        BY <1>1 DEF Lf
      <4> QED BY <1>1, <1>5, <2>4, <2>5, <2>6, <2>7, <3>1, <3>2, <3>3, <4>1 DEF Handled, Goto
    <3>4. CASE u # t
      <4>1. file'[u] = file[u] /\ (u \in Left => u \in Left')
        BY <2>2, <2>6, <3>4
      <4> QED BY <1>1, <1>5, <3>1, <3>2, <4>1 DEF Handled, Goto
    <3> QED BY <3>3, <3>4
  <2> QED BY <1>1, <1>2, <1>5, <2>7 DEF OutcomeInv, AllOrNothing, Goto
<1> QED BY <1>1, <1>3, <1>4, <1>5 DEF Restore

\* What Serena writes is its own: the command does not answer for it.
LEMMA OutcomeSerena ==
  ASSUME MaintenanceInv, OutcomeInv, SerenaSaves
  PROVE  OutcomeInv'
<1>1. /\ UNCHANGED <<second, copies, op, stage, todo, wanted, before, outcome, torn>>
      /\ touched' = touched \cup {"registry"}
      /\ \A u \in Files : u # "registry" => file'[u] = file[u]
  BY DEF SerenaSaves, trouble, MaintenanceInv
<1>2. Targets(op)' = Targets(op) /\ Targets(op) \subseteq Files
  <2>1. Targets(op)' = Targets(op)
    BY <1>1 DEF Targets, TargetsOf
  <2> QED BY <2>1, TargetsAreFiles DEF Files, MaintenanceInv
<1>3. ASSUME NEW t \in Targets(op), t \notin touched'
      PROVE  /\ file'[t] = file[t] /\ t \notin touched /\ CopiesOf(t)' = CopiesOf(t)
             /\ Left' = Left
  BY <1>1, <1>2, <1>3 DEF CopiesOf, Here, Left
<1>4. \A t \in Targets(op) : t \notin touched' => Handled(t)'
  BY <1>1, <1>3 DEF OutcomeInv, Handled
<1>5. AllOrNothing'
  BY <1>1, <1>2, <1>3 DEF OutcomeInv, AllOrNothing
<1> QED BY <1>1, <1>2, <1>4, <1>5 DEF OutcomeInv

\* Every step, of a command or of Serena, keeps the command accountable for each
\* target that Serena has not written.
THEOREM OutcomeInvariant == CommandSpec => []OutcomeInv
<1>1. ASSUME MaintenanceInv, OutcomeInv, [CommandNext]_commandVars PROVE OutcomeInv'
  <2>1. CASE NoBackup
    BY <1>1, <2>1, UnwrittenEnds DEF NoBackup
  <2>2. CASE Killed
    BY <1>1, <2>2, OutcomeOpen DEF Killed
  <2>3. CASE UNCHANGED commandVars
    <3>1. Targets(op)' = Targets(op) /\ Left' = Left /\ \A t : CopiesOf(t)' = CopiesOf(t)
      BY <2>3 DEF Targets, TargetsOf, Left, CopiesOf, Here, commandVars
    <3> QED BY <1>1, <2>3, <3>1 DEF OutcomeInv, Handled, AllOrNothing, commandVars, trouble
  <2> QED
    BY <1>1, <2>1, <2>2, <2>3, OutcomeBegins, OutcomeCopies, OutcomeCopyFails, OutcomeWrites,
       OutcomeValidates, OutcomeRestored, OutcomeSerena DEF CommandNext
<1> QED BY <1>1, OutcomeInit, MaintenanceInvariant, PTL DEF CommandSpec

\* Whatever the files hold, whatever fails and whatever Serena writes meanwhile:
\* a command that comes to its end has done all of it, or nothing (repair,
\* install_cursor_rule).
THEOREM CommandsAreAllOrNothing == CommandSpec => []AllOrNothing
<1>1. OutcomeInv => AllOrNothing
  BY DEF OutcomeInv
<1> QED BY <1>1, OutcomeInvariant, PTL
=============================================================================

---------------------------- MODULE GatewayProofs ----------------------------
(***************************************************************************)
(* Theorems about Gateway, for any registries, routers, projects and       *)
(* clients, any sequence of requests and any budgets.  The relay and the   *)
(* router each have an invariant of their own; the steps of the            *)
(* composition leave the variables of the other alone.                     *)
(***************************************************************************)
EXTENDS Gateway, TLAPS, SequenceTheorems

-----------------------------------------------------------------------------
(* The project router. *)

Held == {"save", "list", "reconnect"}

Call == [step : {"idle", "lock", "save", "list", "reconnect"},
         target : Projects \cup {NoProject}, previous : Projects \cup {NoProject},
         todo : SUBSET Clients, done : SUBSET Clients, ok : BOOLEAN, back : BOOLEAN]

CallsType == call \in [Routers -> Call] /\ active \in Projects \cup {NoProject}

RouterType ==
  /\ CallsType
  /\ lock \subseteq Routers
  /\ child \in [Clients -> Projects \cup {NoProject}]
  /\ starting \in [Clients -> {<<>>} \cup {<<p>> : p \in Projects}]
  /\ reached \subseteq Clients
  /\ settled \in BOOLEAN

\* At most one router is inside the lock, and only routers inside it have
\* changed the file: until they end nothing is settled.
LockHeld ==
  /\ lock = {r \in Routers : call[r].step \in Held}
  /\ \A r, s \in lock : r = s
  /\ \A r \in Routers : call[r].step \in {"list", "reconnect"} => ~settled

\* A child serves, or is about to serve, the project in the file, or none.
Follows(k) == child[k] \in {NoProject, active} /\ starting[k] \in {<<>>, <<active>>}

DoneFollow ==
  \A r \in Routers : call[r].step = "reconnect" => \A k \in call[r].done : Follows(k)

RouterInv == RouterType /\ LockHeld /\ DoneFollow /\ ChildrenFollowProject

LEMMA RouterInitHolds == RouterInit => RouterInv
<1> SUFFICES ASSUME RouterInit PROVE RouterInv
  OBVIOUS
<1>1. RouterType
  BY DEF RouterInit, RouterType, CallsType, Call, Idle
<1>2. LockHeld /\ DoneFollow /\ ChildrenFollowProject
  BY DEF RouterInit, LockHeld, DoneFollow, ChildrenFollowProject, Idle, Held
<1> QED BY <1>1, <1>2 DEF RouterInv

LEMMA RouterUnchanged == RouterInv /\ UNCHANGED router => RouterInv'
  BY DEF router, RouterInv, RouterType, CallsType, LockHeld, DoneFollow, Follows, ChildrenFollowProject

\* A call goes from one step to the next within its type.
LEMMA IdleCall == Idle \in Call
  BY DEF Idle, Call
LEMMA CallMoves == ASSUME NEW c \in Call PROVE /\ [c EXCEPT !.step = "list"] \in Call
                                             /\ [c EXCEPT !.step = "list", !.back = TRUE] \in Call
  BY DEF Call
LEMMA CallBegins == ASSUME NEW p \in Projects \cup {NoProject} PROVE [Idle EXCEPT !.step = "lock", !.target = p] \in Call
  BY DEF Idle, Call
LEMMA CallSaves == ASSUME NEW c \in Call, NEW p \in Projects \cup {NoProject} PROVE [c EXCEPT !.step = "save", !.previous = p] \in Call
  BY DEF Call
LEMMA CallLists ==
  ASSUME NEW c \in Call, NEW todo \in SUBSET Clients, NEW ok \in BOOLEAN
  PROVE  [c EXCEPT !.step = "reconnect", !.todo = todo, !.done = {}, !.ok = ok] \in Call
  BY DEF Call
LEMMA CallReconnects ==
  ASSUME NEW c \in Call, NEW k \in Clients
  PROVE  /\ [c EXCEPT !.todo = @ \ {k}, !.done = @ \cup {k}] \in Call
         /\ [c EXCEPT !.todo = @ \ {k}, !.ok = FALSE] \in Call
  BY DEF Call

LEMMA CallToolStep == ASSUME RouterInv, NEW r \in Routers, NEW p \in Projects \cup {NoProject}, CallTool(r, p) PROVE RouterInv'
<1> USE DEF RouterInv, RouterType
<1>1. CallsType'
  BY CallBegins DEF CallsType, CallTool
<1>2. LockHeld'
  BY DEF CallsType, Call, LockHeld, Held, At, CallTool, Idle
<1>3. DoneFollow'
  BY DEF CallsType, Call, LockHeld, DoneFollow, Follows, Held, At, CallTool, Idle
<1>4. ChildrenFollowProject'
  BY DEF CallsType, Call, LockHeld, DoneFollow, Follows, ChildrenFollowProject, Held, At, CallTool, Idle
<1>5. RouterType'
  BY <1>1 DEF CallsType, Call, CallTool, Idle
<1> QED BY <1>2, <1>3, <1>4, <1>5

LEMMA AcquireStep == ASSUME RouterInv, NEW r \in Routers, Acquire(r) PROVE RouterInv'
<1> USE DEF RouterInv, RouterType
<1>1. CallsType'
  BY CallSaves DEF CallsType, Acquire
<1>2. LockHeld'
  BY DEF CallsType, Call, LockHeld, Held, At, Acquire, StateFileLock
<1>3. DoneFollow'
  BY DEF CallsType, Call, LockHeld, DoneFollow, Follows, Held, At, Acquire, StateFileLock
<1>4. ChildrenFollowProject'
  BY DEF CallsType, Call, LockHeld, DoneFollow, Follows, ChildrenFollowProject, Held, At, Acquire, StateFileLock
<1>5. RouterType'
  BY <1>1 DEF CallsType, Call, Acquire, StateFileLock
<1> QED BY <1>2, <1>3, <1>4, <1>5

LEMMA SaveStateStep == ASSUME RouterInv, NEW r \in Routers, SaveState(r) PROVE RouterInv'
<1> USE DEF RouterInv, RouterType
<1>1. CallsType'
  <2>1. [call[r] EXCEPT !.step = "list"] \in Call
    BY CallMoves DEF CallsType
  <2>2. call'[r] \in Call /\ call' = [call EXCEPT ![r] = call'[r]]
    BY <2>1, IdleCall DEF CallsType, SaveState, Goto
  <2>3. active' \in Projects \cup {NoProject}
    BY DEF CallsType, Call, SaveState
  <2> QED BY <2>2, <2>3 DEF CallsType
<1>2. LockHeld'
  BY DEF CallsType, Call, LockHeld, Held, At, SaveState, Goto, Idle
<1>3. DoneFollow'
  BY DEF CallsType, Call, LockHeld, DoneFollow, Follows, Held, At, SaveState, Goto, Idle
<1>4. ChildrenFollowProject'
  BY DEF CallsType, Call, LockHeld, DoneFollow, Follows, ChildrenFollowProject, Held, At, SaveState, Goto, Idle
<1>5. RouterType'
  BY <1>1 DEF CallsType, Call, SaveState, Goto, Idle
<1> QED BY <1>2, <1>3, <1>4, <1>5

LEMMA FinishStep == ASSUME RouterInv, NEW r \in Routers, Finish(r) PROVE RouterInv'
<1> USE DEF RouterInv, RouterType
<1>1. CallsType'
  BY IdleCall DEF CallsType, Finish, Return
<1>2. LockHeld'
  BY DEF CallsType, Call, LockHeld, Held, At, Finish, Return, Idle
<1>3. DoneFollow'
  BY DEF CallsType, Call, LockHeld, DoneFollow, Follows, Held, At, Finish, Return, Idle
<1>4. ChildrenFollowProject'
  BY DEF CallsType, Call, LockHeld, DoneFollow, Follows, ChildrenFollowProject, Held, At, Finish, Return, Idle
<1>5. RouterType'
  BY <1>1 DEF CallsType, Call, Finish, Return, Idle
<1> QED BY <1>2, <1>3, <1>4, <1>5

LEMMA RollbackStep == ASSUME RouterInv, NEW r \in Routers, Rollback(r) PROVE RouterInv'
<1> USE DEF RouterInv, RouterType
<1>1. CallsType'
  <2>1. [call[r] EXCEPT !.step = "list", !.back = TRUE] \in Call
    BY CallMoves DEF CallsType
  <2>2. call'[r] \in Call /\ call' = [call EXCEPT ![r] = call'[r]]
    BY <2>1, IdleCall DEF CallsType, Rollback, Return
  <2>3. active' \in Projects \cup {NoProject}
    BY DEF CallsType, Call, Rollback
  <2> QED BY <2>2, <2>3 DEF CallsType
<1>2. LockHeld'
  BY DEF CallsType, Call, LockHeld, Held, At, Rollback, Return, Idle
<1>3. DoneFollow'
  BY DEF CallsType, Call, LockHeld, DoneFollow, Follows, Held, At, Rollback, Return, Idle
<1>4. ChildrenFollowProject'
  BY DEF CallsType, Call, LockHeld, DoneFollow, Follows, ChildrenFollowProject, Held, At, Rollback, Return, Idle
<1>5. RouterType'
  BY <1>1 DEF CallsType, Call, Rollback, Return, Idle
<1> QED BY <1>2, <1>3, <1>4, <1>5

LEMMA KilledStep == ASSUME RouterInv, NEW r \in Routers, Killed(r) PROVE RouterInv'
<1> USE DEF RouterInv, RouterType
<1>1. CallsType'
  BY IdleCall DEF CallsType, Killed
<1>2. LockHeld'
  BY DEF CallsType, Call, LockHeld, Held, At, Killed, Idle
<1>3. DoneFollow'
  BY DEF CallsType, Call, LockHeld, DoneFollow, Follows, Held, At, Killed, Idle
<1>4. ChildrenFollowProject'
  BY DEF CallsType, Call, LockHeld, DoneFollow, Follows, ChildrenFollowProject, Held, At, Killed, Idle
<1>5. RouterType'
  BY <1>1 DEF CallsType, Call, Killed, Idle
<1> QED BY <1>2, <1>3, <1>4, <1>5

LEMMA ReconnectFailsStep == ASSUME RouterInv, NEW r \in Routers, NEW k \in call[r].todo, ReconnectFails(r, k) PROVE RouterInv'
<1> USE DEF RouterInv, RouterType
<1>1. CallsType'
  <2>1. [call[r] EXCEPT !.todo = @ \ {k}, !.ok = FALSE] \in Call
    <3>1. k \in Clients
      BY DEF CallsType, Call
    <3> QED BY <3>1, CallReconnects DEF CallsType
  <2> QED BY <2>1 DEF CallsType, ReconnectFails
<1>2. LockHeld'
  BY DEF CallsType, Call, LockHeld, Held, At, ReconnectFails
<1>3. DoneFollow'
  BY DEF CallsType, Call, LockHeld, DoneFollow, Follows, Held, At, ReconnectFails
<1>4. ChildrenFollowProject'
  BY DEF CallsType, Call, LockHeld, DoneFollow, Follows, ChildrenFollowProject, Held, At, ReconnectFails
<1>5. RouterType'
  BY <1>1 DEF CallsType, Call, ReconnectFails
<1> QED BY <1>2, <1>3, <1>4, <1>5

LEMMA ListClientsStep ==
  ASSUME RouterInv, NEW r \in Routers, NEW names \in SUBSET Clients, NEW there, ListClients(r, names, there)
  PROVE  RouterInv'
<1> USE DEF RouterInv, RouterType
<1>1. CallsType'
  <2>1. [call[r] EXCEPT !.step = "reconnect", !.todo = names \cap there, !.done = {}, !.ok = names \subseteq there] \in Call
    BY CallLists DEF CallsType
  <2>2. [call[r] EXCEPT !.step = "reconnect", !.todo = {}, !.done = {}, !.ok = FALSE] \in Call
    BY CallLists DEF CallsType
  <2>3. \/ call' = [call EXCEPT ![r] = [call[r] EXCEPT !.step = "reconnect", !.todo = names \cap there, !.done = {}, !.ok = names \subseteq there]]
        \/ call' = [call EXCEPT ![r] = [call[r] EXCEPT !.step = "reconnect", !.todo = {}, !.done = {}, !.ok = FALSE]]
    BY DEF CallsType, ListClients
  <2> QED BY <2>1, <2>2, <2>3 DEF CallsType, ListClients
<1>2. LockHeld'
  BY DEF CallsType, Call, LockHeld, Held, At, ListClients
<1>3. DoneFollow'
  BY DEF CallsType, Call, LockHeld, DoneFollow, Follows, Held, At, ListClients
<1>4. ChildrenFollowProject'
  BY DEF ChildrenFollowProject, ListClients
<1>5. RouterType'
  BY <1>1 DEF ListClients
<1> QED BY <1>2, <1>3, <1>4, <1>5

LEMMA ReconnectStep ==
  ASSUME RouterInv, NEW r \in Routers, NEW k \in call[r].todo, NEW starts, Reconnect(r, k, starts)
  PROVE  RouterInv'
<1> USE DEF RouterInv, RouterType
<1>0. k \in Clients
  BY DEF CallsType, Call
<1>1. CallsType'
  <2>1. /\ [call[r] EXCEPT !.todo = @ \ {k}, !.done = @ \cup {k}] \in Call
        /\ [call[r] EXCEPT !.todo = @ \ {k}, !.ok = FALSE] \in Call
    BY <1>0, CallReconnects DEF CallsType
  <2> QED BY <2>1 DEF CallsType, Reconnect
<1>2. LockHeld'
  <2>1. \A q \in Routers : call'[q].step = call[q].step
    BY DEF CallsType, Call, Reconnect
  <2> QED BY <2>1 DEF LockHeld, Reconnect
<1>3. DoneFollow'
  BY <1>0 DEF CallsType, Call, LockHeld, DoneFollow, Follows, Held, At, Reconnect
<1>4. ChildrenFollowProject'
  BY DEF CallsType, Call, LockHeld, ChildrenFollowProject, At, Reconnect
<1>5. RouterType'
  BY <1>0, <1>1 DEF CallsType, Reconnect
<1> QED BY <1>2, <1>3, <1>4, <1>5

\* A child ends, or starts again on the project it has read.
LEMMA ChildMoves ==
  ASSUME RouterInv, NEW k \in Clients, ChildEnds(k) \/ LoadActiveProject(k) \/ Launch(k)
  PROVE  RouterInv'
<1> USE DEF RouterInv, RouterType
<1>0. UNCHANGED <<active, lock, call, reached, settled>>
  BY DEF ChildEnds, LoadActiveProject, Launch
<1>1. RouterType' /\ \A j \in Clients : Follows(j) => Follows(j)'
  <2>1. CASE ChildEnds(k)
    BY <2>1 DEF CallsType, Follows, ChildEnds
  <2>2. CASE LoadActiveProject(k)
    BY <2>2 DEF CallsType, Follows, LoadActiveProject
  <2>3. CASE Launch(k)
    BY <2>3 DEF CallsType, Follows, Launch
  <2> QED BY <2>1, <2>2, <2>3
<1>2. LockHeld' /\ DoneFollow'
  BY <1>0, <1>1 DEF CallsType, Call, LockHeld, DoneFollow
<1>3. ChildrenFollowProject'
  BY <1>0, <1>1 DEF Follows, ChildrenFollowProject
<1> QED BY <1>1, <1>2, <1>3

\* The gateway starts anew: all children end.
LEMMA ChildrenRestart ==
  ASSUME RouterInv, UNCHANGED <<active, lock, call, reached, settled>>,
         child' = [k \in Clients |-> NoProject], starting' = [k \in Clients |-> <<>>]
  PROVE  RouterInv'
<1>1. RouterType'
  BY DEF RouterInv, RouterType, CallsType
<1>2. LockHeld' /\ DoneFollow'
  BY DEF RouterInv, RouterType, CallsType, Call, LockHeld, DoneFollow, Follows
<1>3. ChildrenFollowProject'
  BY DEF RouterInv, RouterType, ChildrenFollowProject
<1> QED BY <1>1, <1>2, <1>3 DEF RouterInv

-----------------------------------------------------------------------------
(* The relay. *)

Line == [id : Nat, kind : {"call", "list", "other", "ask"}, body : Results \cup {ToolList, "error", "ping"}]

RelayType ==
  /\ sent \in 0..Len(Request)
  /\ stdin \in Seq(Nat)
  /\ passing = <<>> \/ \E id \in 1..sent : passing = <<id>>
  /\ upstream \subseteq 1..sent
  /\ lines \in Seq(Line)

\* Where the number of a request may be: before the adapter, in its hand, with
\* the upstream, or on a line that answers it.
Unread == {stdin[i] : i \in 1..Len(stdin)}
InHand == {passing[i] : i \in 1..Len(passing)}
Answers == {i \in 1..Len(lines) : lines[i].kind # "ask"}
Answered == {lines[i].id : i \in Answers}

\* It is in one place only, and there once.
EachOnce ==
  /\ Unread \subseteq 1..sent /\ Answered \subseteq 1..sent
  /\ \A i, j \in 1..Len(stdin) : stdin[i] = stdin[j] => i = j
  /\ \A i, j \in Answers : lines[i].id = lines[j].id => i = j
  /\ Unread \cap InHand = {} /\ Unread \cap upstream = {} /\ Unread \cap Answered = {}
  /\ InHand \cap upstream = {} /\ InHand \cap Answered = {} /\ upstream \cap Answered = {}

\* A request that needs a note has one from the moment it is read until its
\* answer is, unless the note was lost.
NotedUntilAnswered ==
  \A id \in InHand \cup upstream \cup Answered : Noted(id) => id \in pending \cup disturbed

\* The kind of a line says what it answers, and carries.
LinesFit ==
  \A i \in 1..Len(lines) :
    /\ lines[i].kind = "call" => Request[lines[i].id].method = "tools/call" /\ lines[i].body \in Results
    /\ lines[i].kind = "list" => Request[lines[i].id].method = "tools/list" /\ lines[i].body = ToolList

RelayInv == RelayType /\ EachOnce /\ NotedUntilAnswered /\ LinesFit /\ AnswersAreEnveloped

LEMMA RelayInitHolds == RelayInit => RelayInv
<1> SUFFICES ASSUME RelayInit PROVE RelayInv
  OBVIOUS
<1>0. Len(Request) \in Nat
  BY RequestAssumption
<1>1. RelayType /\ LinesFit /\ AnswersAreEnveloped
  BY <1>0 DEF RelayInit, RelayType, LinesFit, AnswersAreEnveloped, Enveloped
<1>2. Unread = {} /\ InHand = {} /\ Answered = {} /\ Answers = {} /\ upstream = {}
  BY DEF RelayInit, Unread, InHand, Answers, Answered
<1>3. EachOnce /\ NotedUntilAnswered
  BY <1>2 DEF RelayInit, EachOnce, NotedUntilAnswered
<1> QED BY <1>1, <1>3 DEF RelayInv

LEMMA RelayUnchanged == RelayInv /\ UNCHANGED relay => RelayInv'
<1> SUFFICES ASSUME RelayInv, UNCHANGED relay PROVE RelayInv'
  OBVIOUS
<1> USE DEF relay, RelayInv
<1>1. Unread' = Unread /\ InHand' = InHand /\ Answers' = Answers /\ Answered' = Answered
  BY DEF Unread, InHand, Answers, Answered
<1>2. RelayType' /\ LinesFit' /\ AnswersAreEnveloped'
  BY DEF RelayType, LinesFit, AnswersAreEnveloped, Enveloped
<1>3. EachOnce' /\ NotedUntilAnswered'
  BY <1>1 DEF EachOnce, NotedUntilAnswered
<1> QED BY <1>2, <1>3

\* The places of a queue without its first element.
LEMMA AfterTail ==
  ASSUME NEW S, NEW s \in Seq(S), s # <<>>
  PROVE  /\ Tail(s) \in Seq(S) /\ Len(Tail(s)) = Len(s) - 1 /\ Len(s) \in Nat \ {0}
         /\ \A i \in 1..Len(s) - 1 : Tail(s)[i] = s[i + 1]
         /\ Head(s) = s[1] /\ Head(s) \in S
  BY HeadTailProperties

LEMMA SendStep == ASSUME RelayInv, Send PROVE RelayInv'
<1> USE DEF RelayInv
<1>1. /\ Len(Request) \in Nat /\ sent \in Nat /\ sent' = sent + 1 /\ sent + 1 <= Len(Request)
      /\ stdin \in Seq(Nat) /\ stdin' = Append(stdin, sent')
      /\ UNCHANGED <<passing, pending, upstream, lines, transforming, delivered, disturbed>>
  BY RequestAssumption DEF Send, RelayType
<1>2. /\ stdin' \in Seq(Nat) /\ Len(stdin) \in Nat /\ Len(stdin') = Len(stdin) + 1
      /\ \A i \in 1..Len(stdin) : stdin'[i] = stdin[i]
      /\ stdin'[Len(stdin) + 1] = sent'
  BY <1>1, AppendProperties, LenProperties
<1>3. Unread' = Unread \cup {sent'} /\ InHand' = InHand /\ Answers' = Answers /\ Answered' = Answered
  BY <1>1, <1>2 DEF Unread, InHand, Answers, Answered
<1>4. RelayType' /\ LinesFit' /\ AnswersAreEnveloped'
  <2>1. RelayType'
    BY <1>1, <1>2 DEF RelayType
  <2> QED BY <1>1, <2>1 DEF LinesFit, AnswersAreEnveloped, Enveloped
<1>5. EachOnce'
  <2>1. sent' \notin Unread /\ sent' \notin InHand /\ sent' \notin upstream /\ sent' \notin Answered
    BY <1>1 DEF EachOnce, RelayType, InHand
  <2>2. \A i, j \in 1..Len(stdin') : stdin'[i] = stdin'[j] => i = j
    BY <1>2, <2>1 DEF EachOnce, Unread
  <2>3. Unread' \subseteq 1..sent' /\ Answered' \subseteq 1..sent'
    BY <1>1, <1>3 DEF EachOnce
  <2> QED BY <1>1, <1>3, <2>1, <2>2, <2>3 DEF EachOnce
<1>6. NotedUntilAnswered'
  BY <1>1, <1>3 DEF NotedUntilAnswered
<1> QED BY <1>4, <1>5, <1>6

LEMMA NoteRequestStep == ASSUME RelayInv, NoteRequest PROVE RelayInv'
<1> USE DEF RelayInv
<1> DEFINE h == Head(stdin)
<1>1. /\ stdin \in Seq(Nat) /\ stdin # <<>> /\ passing = <<>> /\ passing' = <<h>> /\ stdin' = Tail(stdin)
      /\ Remember(h)
      /\ UNCHANGED <<sent, upstream, lines, transforming, delivered>>
  BY DEF NoteRequest, RelayType
<1>2. /\ stdin' \in Seq(Nat) /\ Len(stdin') = Len(stdin) - 1 /\ Len(stdin) \in Nat \ {0}
      /\ \A i \in 1..Len(stdin) - 1 : stdin'[i] = stdin[i + 1]
      /\ h = stdin[1] /\ h \in Nat
  BY <1>1, AfterTail
<1> HIDE DEF h
<1>3. /\ h \in Unread /\ h \notin Unread' /\ Unread' \subseteq Unread
      /\ InHand = {} /\ InHand' = {h} /\ Answers' = Answers /\ Answered' = Answered
  <2>1. h \in Unread /\ Unread' \subseteq Unread
    BY <1>2 DEF Unread
  <2>2. h \notin Unread'
    <3>1. ASSUME NEW i \in 1..Len(stdin'), stdin'[i] = h PROVE FALSE
      <4>1. i + 1 \in 1..Len(stdin) /\ 1 \in 1..Len(stdin) /\ i + 1 # 1
        BY <1>2
      <4>2. stdin[i + 1] = stdin[1]
        BY <1>2, <3>1
      <4> QED BY <4>1, <4>2 DEF EachOnce
    <3> QED BY <3>1 DEF Unread
  <2>3. InHand = {} /\ InHand' = {h}
    BY <1>1 DEF InHand
  <2> QED BY <1>1, <2>1, <2>2, <2>3 DEF Answers, Answered
<1>4. h \in 1..sent
  BY <1>3 DEF EachOnce
<1>5. RelayType' /\ LinesFit'
  <2>1. RelayType'
    BY <1>1, <1>2, <1>4 DEF RelayType
  <2> QED BY <1>1, <2>1 DEF LinesFit
<1>6. EachOnce'
  <2>1. ASSUME NEW i \in 1..Len(stdin'), NEW j \in 1..Len(stdin'), stdin'[i] = stdin'[j] PROVE i = j
    <3>1. i + 1 \in 1..Len(stdin) /\ j + 1 \in 1..Len(stdin) /\ stdin[i + 1] = stdin[j + 1]
      BY <1>2, <2>1
    <3>2. i + 1 = j + 1
      BY <3>1 DEF EachOnce
    <3> QED BY <1>2, <3>2
  <2>2. \A i, j \in Answers' : lines'[i].id = lines'[j].id => i = j
    BY <1>1, <1>3 DEF EachOnce
  <2>3. /\ Unread' \subseteq 1..sent' /\ Answered' \subseteq 1..sent'
        /\ Unread' \cap InHand' = {} /\ Unread' \cap upstream' = {} /\ Unread' \cap Answered' = {}
        /\ InHand' \cap upstream' = {} /\ InHand' \cap Answered' = {} /\ upstream' \cap Answered' = {}
    <3>1. sent' = sent /\ upstream' = upstream
      BY <1>1
    <3>2. h \notin upstream /\ h \notin Answered
      BY <1>3 DEF EachOnce
    <3>3. /\ Unread \subseteq 1..sent /\ Answered \subseteq 1..sent
          /\ Unread \cap upstream = {} /\ Unread \cap Answered = {} /\ upstream \cap Answered = {}
      BY DEF EachOnce
    <3> QED BY <1>3, <3>1, <3>2, <3>3
  <2> QED BY <2>1, <2>2, <2>3 DEF EachOnce
<1>7. /\ disturbed \subseteq disturbed' /\ pending \cup disturbed \subseteq pending' \cup disturbed'
      /\ Noted(h) => h \in pending'
  BY <1>1 DEF Remember
<1>8. NotedUntilAnswered'
  BY <1>1, <1>3, <1>7 DEF NotedUntilAnswered, Noted
<1>9. AnswersAreEnveloped'
  BY <1>1, <1>7 DEF AnswersAreEnveloped, Enveloped
<1> QED BY <1>5, <1>6, <1>8, <1>9

LEMMA PassOnStep == ASSUME RelayInv, PassOn PROVE RelayInv'
<1> USE DEF RelayInv
<1>1. PICK id \in 1..sent : passing = <<id>>
  BY DEF PassOn, RelayType
<1>2. /\ upstream' = upstream \cup {id} /\ passing' = <<>>
      /\ UNCHANGED <<sent, stdin, pending, lines, transforming, delivered, disturbed>>
  BY <1>1 DEF PassOn
<1>3. Unread' = Unread /\ InHand = {id} /\ InHand' = {} /\ Answers' = Answers /\ Answered' = Answered
  BY <1>1, <1>2 DEF Unread, InHand, Answers, Answered
<1>4. RelayType' /\ LinesFit' /\ AnswersAreEnveloped'
  <2>1. RelayType'
    BY <1>2 DEF RelayType
  <2> QED BY <1>2, <2>1 DEF LinesFit, AnswersAreEnveloped, Enveloped
<1>5. EachOnce'
  BY <1>2, <1>3 DEF EachOnce
<1>6. NotedUntilAnswered'
  BY <1>2, <1>3 DEF NotedUntilAnswered, Noted
<1> QED BY <1>4, <1>5, <1>6

LEMMA AnswerStep == ASSUME RelayInv, NEW id \in Ids, Answer(id) PROVE RelayInv'
<1> USE DEF RelayInv
<1>1. PICK m \in Line :
        /\ m.id = id /\ m.kind # "ask" /\ lines' = Append(lines, m)
        /\ m.kind = "call" => Request[id].method = "tools/call" /\ m.body \in Results
        /\ m.kind = "list" => Request[id].method = "tools/list" /\ m.body = ToolList
  <2>0. id \in Nat
    BY DEF Answer, RelayType
  <2>1. CASE Request[id].method = "tools/call" /\ \E r \in Results : lines' = Append(lines, [id |-> id, kind |-> "call", body |-> r])
    <3>1. PICK r \in Results : lines' = Append(lines, [id |-> id, kind |-> "call", body |-> r])
      BY <2>1
    <3> DEFINE m == [id |-> id, kind |-> "call", body |-> r]
    <3>2. m \in Line
      BY <2>0 DEF Line
    <3> QED BY <2>1, <3>1, <3>2
  <2>2. CASE Request[id].method = "tools/list" /\ lines' = Append(lines, [id |-> id, kind |-> "list", body |-> ToolList])
    <3> DEFINE m == [id |-> id, kind |-> "list", body |-> ToolList]
    <3>2. m \in Line
      BY <2>0 DEF Line
    <3> QED BY <2>2, <3>2
  <2>3. CASE lines' = Append(lines, [id |-> id, kind |-> "other", body |-> "error"])
    <3> DEFINE m == [id |-> id, kind |-> "other", body |-> "error"]
    <3>2. m \in Line
      BY <2>0 DEF Line
    <3> QED BY <2>3, <3>2
  <2> QED BY <2>1, <2>2, <2>3 DEF Answer
<1>2. /\ id \in upstream /\ upstream' = upstream \ {id}
      /\ UNCHANGED <<sent, stdin, passing, pending, transforming, delivered, disturbed>>
  BY DEF Answer
<1>3. /\ lines' \in Seq(Line) /\ Len(lines) \in Nat /\ Len(lines') = Len(lines) + 1
      /\ \A i \in 1..Len(lines) : lines'[i] = lines[i]
      /\ lines'[Len(lines) + 1] = m
  BY <1>1, AppendProperties, LenProperties DEF RelayType
<1>4. Unread' = Unread /\ InHand' = InHand /\ Answers' = Answers \cup {Len(lines) + 1} /\ Answered' = Answered \cup {id}
  <2>1. Unread' = Unread /\ InHand' = InHand
    BY <1>2 DEF Unread, InHand
  <2>2. Answers' = Answers \cup {Len(lines) + 1}
    BY <1>1, <1>3 DEF Answers
  <2>3. Answered' = Answered \cup {id}
    BY <1>1, <1>3, <2>2 DEF Answered, Answers
  <2> QED BY <2>1, <2>2, <2>3
<1>5. RelayType' /\ LinesFit' /\ AnswersAreEnveloped'
  <2>1. RelayType'
    BY <1>2, <1>3 DEF RelayType
  <2>2. LinesFit'
    BY <1>1, <1>3 DEF LinesFit
  <2> QED BY <1>2, <2>1, <2>2 DEF AnswersAreEnveloped, Enveloped
<1>6. EachOnce'
  <2>1. id \notin Answered /\ id \notin Unread /\ id \notin InHand /\ id \in 1..sent
    BY <1>2 DEF EachOnce, RelayType
  <2>2. ASSUME NEW i \in Answers', NEW j \in Answers', lines'[i].id = lines'[j].id PROVE i = j
    <3>1. \A n \in Answers : lines'[n] = lines[n] /\ lines[n].id # id
      BY <1>3, <2>1 DEF Answers, Answered
    <3> QED BY <1>1, <1>3, <1>4, <2>2, <3>1 DEF EachOnce
  <2> QED BY <1>2, <1>4, <2>1, <2>2, Zenon DEF EachOnce
<1>7. NotedUntilAnswered'
  BY <1>2, <1>4 DEF NotedUntilAnswered
<1> QED BY <1>5, <1>6, <1>7

LEMMA AskStep == ASSUME RelayInv, Ask PROVE RelayInv'
<1> USE DEF RelayInv
<1> DEFINE m == [id |-> AskId, kind |-> "ask", body |-> "ping"]
<1>1. m \in Line /\ m.kind = "ask"
  BY DEF Line, AskId
<1> HIDE DEF m
<1>2. /\ lines' = Append(lines, m)
      /\ UNCHANGED <<sent, stdin, passing, pending, upstream, transforming, delivered, disturbed>>
  BY DEF Ask, m
<1>3. /\ lines' \in Seq(Line) /\ Len(lines) \in Nat /\ Len(lines') = Len(lines) + 1
      /\ \A i \in 1..Len(lines) : lines'[i] = lines[i]
      /\ lines'[Len(lines) + 1] = m
  BY <1>1, <1>2, AppendProperties, LenProperties DEF RelayType
<1>4. /\ Unread' = Unread /\ InHand' = InHand /\ Answers' = Answers /\ Answered' = Answered
      /\ \A i \in Answers : lines'[i] = lines[i]
  <2>1. Unread' = Unread /\ InHand' = InHand
    BY <1>2 DEF Unread, InHand
  <2>2. Answers' = Answers /\ \A i \in Answers : lines'[i] = lines[i]
    BY <1>1, <1>3 DEF Answers
  <2> QED BY <2>1, <2>2 DEF Answered
<1>5. RelayType' /\ LinesFit' /\ AnswersAreEnveloped'
  <2>1. RelayType'
    BY <1>2, <1>3 DEF RelayType
  <2>2. LinesFit'
    BY <1>1, <1>3 DEF LinesFit
  <2> QED BY <1>2, <2>1, <2>2 DEF AnswersAreEnveloped, Enveloped
<1>6. EachOnce'
  <2>1. \A i, j \in Answers' : lines'[i].id = lines'[j].id => i = j
    BY <1>4 DEF EachOnce
  <2> QED BY <1>2, <1>4, <2>1 DEF EachOnce
<1>7. NotedUntilAnswered'
  BY <1>2, <1>4 DEF NotedUntilAnswered
<1> QED BY <1>5, <1>6, <1>7

\* What is made of the answer to a noted call describes it, and of a list has a
\* schema for every tool.
LEMMA CallIsEnveloped ==
  ASSUME NEW raw \in Results, NEW id \in Ids
  PROVE  LET out == NormalizeCallResult(Server, Request[id].tool, raw)
         IN  /\ out.text = raw.text
             /\ IsEnvelope(raw.structured) => out = raw
             /\ ~IsEnvelope(raw.structured) => IsEnvelope(out.structured) /\ Describes(out.structured, id, raw)
<1> DEFINE out == NormalizeCallResult(Server, Request[id].tool, raw)
           env == BuildEnvelope(Server, Request[id].tool, raw)
<1>1. raw \in [structured : [kind : {"none", "own", "scalar", "envelope"}],
                text : {"none", "prose", "json", "big"}, isError : BOOLEAN]
  BY ResultsAssumption
<1>2. CASE IsEnvelope(raw.structured)
  BY <1>2 DEF NormalizeCallResult
<1>3. CASE ~IsEnvelope(raw.structured)
  <2>1. out = [raw EXCEPT !.structured = env]
    BY <1>3 DEF NormalizeCallResult
  <2>2. out.text = raw.text /\ out.structured = env
    BY <1>1, <2>1
  <2>3. /\ env.kind = "envelope" /\ env.server = Server /\ env.tool = Request[id].tool
        /\ env.success = ~raw.isError /\ env.data = DataOf(raw)
        /\ env.omitted = (raw.structured.kind = "none" /\ raw.text = "big")
        /\ env.omitted => env.status # "ok"
    BY DEF BuildEnvelope
  <2>4. DataOf(raw) = "none" /\ ~env.omitted => raw.structured.kind = "none" /\ raw.text \in {"none", "prose"}
    BY <1>1, <1>3, <2>3 DEF DataOf, IsEnvelope
  <2>5. IsEnvelope(env) /\ Describes(env, id, raw)
    BY <2>3, <2>4 DEF IsEnvelope, Describes
  <2> QED BY <1>3, <2>2, <2>5
<1> QED BY <1>2, <1>3

LEMMA ListHasSchemas ==
  \A t \in DOMAIN InjectOutputSchemas(Server, ToolList) : InjectOutputSchemas(Server, ToolList)[t] # "none"
<1>1. \A t : FamilyFor(Server, t) # "none"
  BY FamiliesAssumption DEF FamilyFor
<1> QED BY <1>1 DEF InjectOutputSchemas

LEMMA PumpStdoutStep == ASSUME RelayInv, PumpStdout PROVE RelayInv'
<1> USE DEF RelayInv
<1> DEFINE m == Head(lines)
           d == [raw |-> m, out |-> TransformResponse(m), transforming |-> transforming]
<1>1. /\ lines \in Seq(Line) /\ lines # <<>> /\ lines' = Tail(lines) /\ pending' = pending \ {m.id}
      /\ delivered' = delivered \cup {d}
      /\ disturbed' = IF m.kind = "ask" THEN disturbed \cup (pending \cap {m.id}) ELSE disturbed
      /\ UNCHANGED <<sent, stdin, passing, upstream, transforming>>
  BY DEF PumpStdout, RelayType
<1>2. /\ lines' \in Seq(Line) /\ Len(lines') = Len(lines) - 1 /\ Len(lines) \in Nat \ {0}
      /\ \A i \in 1..Len(lines) - 1 : lines'[i] = lines[i + 1]
      /\ m = lines[1] /\ m \in Line
  BY <1>1, AfterTail
<1> HIDE DEF m, d
<1>3. Unread' = Unread /\ InHand' = InHand
  BY <1>1 DEF Unread, InHand
<1>4. \A i \in Answers' : i + 1 \in Answers /\ i + 1 # 1 /\ lines'[i] = lines[i + 1] /\ i \in Nat
  BY <1>2 DEF Answers
<1>5. Answered' \subseteq Answered /\ (m.kind # "ask" => m.id \in Answered /\ m.id \notin Answered')
  <2>1. Answered' \subseteq Answered
    BY <1>4 DEF Answered
  <2>2. ASSUME m.kind # "ask" PROVE m.id \in Answered /\ m.id \notin Answered'
    <3>1. 1 \in Answers
      BY <1>2, <2>2 DEF Answers
    <3>2. m.id \in Answered
      BY <1>2, <3>1 DEF Answered
    <3>3. ASSUME NEW i \in Answers', lines'[i].id = m.id PROVE FALSE
      <4>1. i + 1 \in Answers /\ i + 1 # 1 /\ lines[i + 1].id = lines[1].id
        BY <1>2, <1>4, <3>3
      <4> QED BY <3>1, <4>1 DEF EachOnce
    <3> QED BY <3>2, <3>3 DEF Answered
  <2> QED BY <2>1, <2>2
<1>6. RelayType' /\ LinesFit'
  <2>1. RelayType'
    BY <1>1, <1>2 DEF RelayType
  <2>2. LinesFit'
    BY <1>2 DEF LinesFit
  <2> QED BY <2>1, <2>2
<1>7. EachOnce'
  <2>1. ASSUME NEW i \in Answers', NEW j \in Answers', lines'[i].id = lines'[j].id PROVE i = j
    <3>1. i + 1 = j + 1
      BY <1>4, <2>1 DEF EachOnce
    <3> QED BY <1>4, <3>1
  <2> QED BY <1>1, <1>3, <1>5, <2>1 DEF EachOnce
<1>8. NotedUntilAnswered'
  <2>1. CASE m.kind = "ask"
    BY <1>1, <1>3, <1>5, <2>1 DEF NotedUntilAnswered
  <2>2. CASE m.kind # "ask"
    <3>1. m.id \notin InHand /\ m.id \notin upstream
      BY <1>5, <2>2 DEF EachOnce
    <3> QED BY <1>1, <1>3, <1>5, <2>2, <3>1 DEF NotedUntilAnswered
  <2> QED BY <2>1, <2>2
<1>9. AnswersAreEnveloped'
  <2> SUFFICES ASSUME d.transforming, d.raw.id \notin disturbed'
               PROVE  Enveloped(d)
    BY <1>1 DEF AnswersAreEnveloped, Enveloped
  <2>1. d.raw = m /\ d.out = TransformResponse(m) /\ transforming
    BY DEF d
  <2>2. ASSUME m.kind \in {"call", "list"}
        PROVE  /\ m.id \in pending /\ m.id \in Ids
               /\ m.kind = "call" => Request[m.id].method = "tools/call" /\ m.body \in Results
               /\ m.kind = "list" => Request[m.id].method = "tools/list" /\ m.body = ToolList
    <3>1. /\ m.kind = "call" => Request[m.id].method = "tools/call" /\ m.body \in Results
          /\ m.kind = "list" => Request[m.id].method = "tools/list" /\ m.body = ToolList
      BY <1>2 DEF LinesFit
    <3>2. m.id \in Answered /\ Noted(m.id)
      BY <1>5, <2>2, <3>1 DEF Noted
    <3>3. m.id \in Ids
      <4>1. DOMAIN Request = 1..Len(Request) /\ Len(Request) \in Nat
        BY RequestAssumption, LenProperties
      <4>2. m.id \in 1..sent /\ sent \in 0..Len(Request)
        BY <3>2 DEF EachOnce, RelayType
      <4> QED BY <4>1, <4>2 DEF Ids
    <3>4. m.id \in pending
      BY <1>1, <2>1, <2>2, <3>2 DEF NotedUntilAnswered
    <3> QED BY <3>1, <3>3, <3>4
  <2>3. ASSUME m.kind = "call" PROVE d.out = [m EXCEPT !.body = NormalizeCallResult(Server, Request[m.id].tool, m.body)]
    BY <2>1, <2>2, <2>3 DEF TransformResponse
  <2>4. ASSUME m.kind = "list" PROVE d.out = [m EXCEPT !.body = InjectOutputSchemas(Server, m.body)]
    BY <2>1, <2>2, <2>4 DEF TransformResponse
  <2>5. ASSUME m.kind = "call"
        PROVE  /\ d.out.body.text = m.body.text
               /\ \/ IsEnvelope(m.body.structured) /\ d.out = m
                  \/ IsEnvelope(d.out.body.structured) /\ Describes(d.out.body.structured, m.id, m.body)
    <3>1. d.out.body = NormalizeCallResult(Server, Request[m.id].tool, m.body)
      BY <1>2, <2>3, <2>5 DEF Line
    <3>2. d.out.body = m.body => d.out = m
      BY <1>2, <2>3, <2>5, <3>1 DEF Line
    <3> QED BY <2>2, <2>5, <3>1, <3>2, CallIsEnveloped
  <2>6. ASSUME m.kind = "list" PROVE \A t \in DOMAIN d.out.body : d.out.body[t] # "none"
    <3>1. d.out.body = InjectOutputSchemas(Server, ToolList)
      BY <1>2, <2>2, <2>4, <2>6 DEF Line
    <3> QED BY <3>1, ListHasSchemas
  <2> QED BY <2>1, <2>5, <2>6 DEF Enveloped
<1> QED BY <1>6, <1>7, <1>8, <1>9

\* What was on its way is lost; the history stays.
LEMMA RestartedStep == ASSUME RelayInv, NEW transform, Restarted(transform) PROVE RelayInv'
<1> USE DEF RelayInv
<1>1. Unread' = {} /\ InHand' = {} /\ Answers' = {} /\ Answered' = {} /\ upstream' = {} /\ lines' = <<>>
  BY DEF Restarted, Unread, InHand, Answers, Answered
<1>2. RelayType'
  BY EmptySeq DEF Restarted, RelayType
<1>3. LinesFit' /\ AnswersAreEnveloped'
  BY <1>1 DEF Restarted, LinesFit, AnswersAreEnveloped, Enveloped
<1>4. EachOnce' /\ NotedUntilAnswered'
  BY <1>1 DEF Restarted, EachOnce, NotedUntilAnswered
<1> QED BY <1>2, <1>3, <1>4

-----------------------------------------------------------------------------
(* The composition. *)

\* The registry on disk is one an operator may leave there.
FilesInv == registry \in Registries \cup Deployed

GatewayInv == RelayInv /\ RouterInv /\ FilesInv

\* The clients a router asks for are ones there may be.
LEMMA NamesAreClients == FilesInv => RouterNames \in SUBSET Clients
  BY RegistriesAssumption DEF FilesInv, RouterNames, EnabledIn

\* A client that comes up again is the adapter of Server, or of another server.
LEMMA RelaunchedStep == ASSUME RelayInv, NEW k, Relaunched(k) PROVE RelayInv'
  BY RestartedStep, RelayUnchanged DEF Relaunched

LEMMA OperatorStep ==
  ASSUME GatewayInv, \/ EditRegistry \/ RenderCopies \/ PlanSync \/ PutFlag \/ \E plain \in BOOLEAN : Render(plain)
  PROVE  GatewayInv'
<1>1. UNCHANGED <<relay, router>>
  BY DEF EditRegistry, RenderCopies, PlanSync, PutFlag, Render
<1>2. FilesInv'
  BY DEF GatewayInv, FilesInv, EditRegistry, RenderCopies, PlanSync, PutFlag, Render, config
<1> QED BY <1>1, <1>2, RelayUnchanged, RouterUnchanged DEF GatewayInv

LEMMA RestartStep == ASSUME GatewayInv, RestartGateway PROVE GatewayInv'
<1>1. RelayInv'
  BY RestartedStep DEF GatewayInv, RestartGateway
<1>2. RouterInv'
  BY ChildrenRestart DEF GatewayInv, RestartGateway
<1> QED BY <1>1, <1>2 DEF GatewayInv, FilesInv, RestartGateway, config

LEMMA RouterSteps == ASSUME GatewayInv, NEW r \in Routers, RouterStep(r) PROVE GatewayInv'
<1>1. FilesInv'
  BY DEF GatewayInv, FilesInv, RouterStep, config
<1>2. CASE UNCHANGED relay /\ \E p \in Projects \cup {NoProject} : CallTool(r, p)
  BY <1>1, <1>2, CallToolStep, RelayUnchanged DEF GatewayInv
<1>3. CASE /\ UNCHANGED relay
           /\ \/ Acquire(r) \/ SaveState(r) \/ Finish(r) \/ Rollback(r) \/ Killed(r)
              \/ ListClients(r, RouterNames, DOMAIN live.clients)
              \/ \E k \in call[r].todo : ReconnectFails(r, k)
  <2>1. RouterInv'
    BY <1>3, NamesAreClients, AcquireStep, SaveStateStep, FinishStep, RollbackStep, KilledStep, ListClientsStep,
       ReconnectFailsStep DEF GatewayInv
  <2> QED BY <1>1, <1>3, <2>1, RelayUnchanged DEF GatewayInv
<1>4. CASE \E k \in call[r].todo : Reconnect(r, k, Starts(k)) /\ Relaunched(k)
  BY <1>1, <1>4, ReconnectStep, RelaunchedStep DEF GatewayInv
<1> QED BY <1>2, <1>3, <1>4 DEF RouterStep

LEMMA ChildSteps == ASSUME GatewayInv, NEW k \in Clients, ChildStep(k) PROVE GatewayInv'
<1>1. FilesInv'
  BY DEF GatewayInv, FilesInv, ChildStep, config
<1>2. RouterInv'
  BY ChildMoves DEF GatewayInv, ChildStep
<1>3. RelayInv'
  BY RelaunchedStep, RelayUnchanged DEF GatewayInv, ChildStep
<1> QED BY <1>1, <1>2, <1>3 DEF GatewayInv

LEMMA RelaySteps == ASSUME GatewayInv, RelayStep PROVE GatewayInv'
<1>1. FilesInv' /\ UNCHANGED router
  BY DEF GatewayInv, FilesInv, RelayStep, config
<1>2. RelayInv'
  BY SendStep, NoteRequestStep, PassOnStep, PumpStdoutStep, AskStep, AnswerStep DEF GatewayInv, RelayStep, PumpStdin
<1> QED BY <1>1, <1>2, RouterUnchanged DEF GatewayInv

\* The three invariants together hold of every state of the composition.
THEOREM GatewayInvariant == Spec => []GatewayInv
<1>1. Init => GatewayInv
  BY RelayInitHolds, RouterInitHolds DEF Init, GatewayInv, FilesInv
<1>2. GatewayInv /\ [Next]_vars => GatewayInv'
  <2> SUFFICES ASSUME GatewayInv, [Next]_vars PROVE GatewayInv'
    OBVIOUS
  <2>1. CASE UNCHANGED vars
    BY <2>1, RelayUnchanged, RouterUnchanged DEF GatewayInv, FilesInv, vars, config
  <2>2. CASE Next
    BY <2>2, OperatorStep, RestartStep, RouterSteps, ChildSteps, RelaySteps DEF Next
  <2> QED BY <2>1, <2>2
<1> QED BY <1>1, <1>2, PTL DEF Spec

\* Once a switch is over, no client it has reconnected serves, or is about to
\* serve, another project than the one in the state file (project_router/server.py).
THEOREM SwitchesReachChildren == Spec => []ChildrenFollowProject
<1>1. GatewayInv => ChildrenFollowProject
  BY DEF GatewayInv, RouterInv
<1> QED BY <1>1, GatewayInvariant, PTL

\* Every answer whose note was not lost leaves the adapter enveloped, in whatever
\* order the upstream answers (mcp_output_schema_adapter.py).
THEOREM EveryAnswerIsEnveloped == Spec => []AnswersAreEnveloped
<1>1. GatewayInv => AnswersAreEnveloped
  BY DEF GatewayInv, RelayInv
<1> QED BY <1>1, GatewayInvariant, PTL
=============================================================================

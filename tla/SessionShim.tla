---------------------------- MODULE SessionShim ----------------------------
(***************************************************************************)
(* The HTTP session shims for Serena and Pi.  A shim keeps one stdio child *)
(* process per enrolled project; every HTTP request is a thread of the     *)
(* shim's server that resolves its project, makes sure that the child runs *)
(* and has done the MCP handshake, writes its line to the child and waits  *)
(* for the answer in a queue registered under the message id.  One reader  *)
(* thread per process hands the answers to the queues.                     *)
(*                                                                         *)
(* A line is written under the child's lock, which is kept for as long as  *)
(* the pipe to the process is full.                                        *)
(*                                                                         *)
(* Both shims run the same protocol; they differ in the id of the          *)
(* handshake message: Serena's is one per project, Pi's holds the time.    *)
(***************************************************************************)
EXTENDS Integers, Sequences, FiniteSets

CONSTANTS
  Calls,      \* the tools/call requests, each a thread of the HTTP server
  Children,   \* the children, one per shim and enrolled project
  Serena,     \* the children kept by the Serena shim; the others are Pi's
  Forbidden,  \* the children whose root is a forbidden place (FORBIDDEN_WRITE_PREFIXES)
  Sessions,   \* session ids that may be bound to a project
  MsgIds,     \* JSON-RPC ids chosen by the clients
  Times,      \* milliseconds in which calls come to shake hands
  MayHave,    \* the ids and milliseconds a call may have
  Room,       \* lines that fit in the pipe to a process
  MayName,    \* what a call may say: method, and of its project header, session, arg, path
  NoName,     \* an identity that is missing
  Foreign,    \* a name with a foreign marker ("swarm")
  MaxGen      \* bounds on the processes started for each child

ASSUME ShimConstants ==
  /\ Serena \subseteq Children
  /\ MaxGen \in [Children -> Nat]
  /\ NoName \notin Children /\ Foreign \notin Children
  /\ Room \in Nat \ {0}

NoCall == "no call"
ASSUME IdsDiffer ==
  /\ NoCall \notin Calls
  /\ \A ch \in Children : <<"init", ch>> \notin MsgIds
  /\ \A ch \in Children, t \in Times : <<"init", ch, t>> \notin MsgIds

\* The keys of the queues: ids of clients and of handshakes.
Ids == MsgIds \cup {<<"init", ch>> : ch \in Children} \cup {<<"init", ch, t>> : ch \in Children, t \in Times}

VARIABLES
  idOf,         \* the message ids the clients chose
  who,          \* what the calls say of their project
  time,         \* when a call comes to shake hands, if it does
  bound,        \* session_bindings of the managers
  proc,         \* proc[ch]: generation of the process and whether it is alive
  initialized,  \* the flag _initialized
  server,       \* what the process itself knows of its handshake
  stdin,        \* lines written to the process and not yet read by it
  stdout,       \* lines written by the processes of a child, not yet read
  lock,         \* _lock of a child: the call that is writing a line, if any
  queues,       \* _response_queues: whose queue is registered under an id
  slot,         \* the queue of a call: at most one answer
  blocked,      \* reader threads that wait for room in a queue
  pc, at,       \* where a call is, and its child
  result,       \* what a call returned
  shaking,      \* history: the calls that began a handshake with a child
  troubled      \* history: a process died, refused or undid a handshake, or was waited for too briefly

said == <<idOf, who, time>>
vars == <<said, bound, proc, initialized, server, stdin, stdout, lock, queues, slot,
          blocked, pc, at, result, shaking, troubled>>
pipes == <<stdin, stdout, server, lock>>
threads == <<queues, slot, blocked>>

\* Faulty variant: the handshake goes under the id of the call it is made for.
HandshakeUnderCallId(ch, c) == idOf[c]

\* Serena has one id for all handshakes with a child, Pi's holds the time in
\* milliseconds, which two calls may have in common.
SerenaHandshakeId(ch) == <<"init", ch>>
PiHandshakeId(ch, c) == <<"init", ch, time[c]>>
HandshakeId(ch, c) == IF ch \in Serena THEN SerenaHandshakeId(ch) ELSE PiHandshakeId(ch, c)

NoAnswer == [what |-> "none"]
Kinds == {"initialize", "initialized", "tools/call"}
Answers == [of : Calls, id : Ids, what : Kinds, gen : Nat, ok : BOOLEAN]

Init ==
  /\ idOf \in {ids \in [Calls -> MsgIds] : \A c \in Calls : ids[c] \in MayHave[c]}
  /\ who \in {w \in [Calls -> UNION {MayName[c] : c \in Calls}] : \A c \in Calls : w[c] \in MayName[c]}
  /\ time \in {ms \in [Calls -> Times] : \A c \in Calls : ms[c] \in MayHave[c]}
  /\ bound = [s \in Sessions |-> NoName]
  /\ proc = [ch \in Children |-> [gen |-> 0, alive |-> FALSE]]
  /\ initialized = [ch \in Children |-> FALSE]
  /\ server = [ch \in Children |-> "new"]
  /\ stdin = [ch \in Children |-> <<>>]
  /\ stdout = [ch \in Children |-> {}]
  /\ lock = [ch \in Children |-> NoCall]
  /\ queues = [ch \in Children |-> [i \in Ids |-> NoCall]]
  /\ slot = [c \in Calls |-> NoAnswer]
  /\ blocked = {}
  /\ pc = [c \in Calls |-> "new"]
  /\ at = [c \in Calls |-> NoName]
  /\ result = [c \in Calls |-> NoAnswer]
  /\ shaking = [ch \in Children |-> {}]
  /\ troubled = FALSE

(* ----- identity ------------------------------------------------------- *)

\* The key is the header, else what the session is bound to, else the
\* reserved argument; only without a key does an absolute path decide.
KeyOf(w) ==
  LET session == IF w.session \in Sessions THEN bound[w.session] ELSE NoName
  IN CASE w.header # NoName -> w.header
       [] w.header = NoName /\ session # NoName -> session
       [] OTHER -> w.arg

Mismatch(w) == w.header # NoName /\ w.arg # NoName /\ w.header # w.arg

\* Default deny: a foreign name, an unknown name and no name at all are refused.
Resolve(w) ==
  LET key == KeyOf(w)
  IN IF Mismatch(w) \/ w.path = Foreign \/ key = Foreign THEN {}
     ELSE {IF key # NoName THEN key ELSE w.path} \cap Children

\* A child per project is made when the first call for it comes.
SerenaChildFor(w) == Resolve(w) \cap Serena

\* Pi refuses a root in a place nobody may write to.
PiChildFor(w) == {ch \in Resolve(w) \ Serena : ch \notin Forbidden}

\* Pi runs in the root of the project: another working directory is refused.
PrepareForPi(ch, w) == w.path \in {NoName, ch}

Admitted(w) == SerenaChildFor(w) \cup {ch \in PiChildFor(w) : PrepareForPi(ch, w)}

\* (Bound: sessions are bound and bound again while a call is still to come.)
BindSession(s, ch) ==
  /\ \E c \in Calls : pc[c] = "new" /\ who[c].session = s
  /\ bound' = [bound EXCEPT ![s] = ch]
  /\ UNCHANGED <<proc, initialized, pipes, threads, pc, at, result, shaking, troubled>>

\* Answered without a child: what an MCP client asks before it calls a tool, a
\* body that is no JSON, a method that is not known, a path that is not served.
Local == {"ping", "initialize", "notifications/initialized", "tools/list"}
Unserved == {"unparsable", "unknown method", "unknown path"}

AnsweredAtOnce(c, r) ==
  /\ result' = [result EXCEPT ![c] = [what |-> r]]
  /\ pc' = [pc EXCEPT ![c] = "done"]
  /\ UNCHANGED <<bound, proc, initialized, pipes, threads, at, shaking, troubled>>

AnswerLocally(c) == pc[c] = "new" /\ who[c].method \in Local /\ AnsweredAtOnce(c, "local")
Reject(c) == pc[c] = "new" /\ who[c].method \in Unserved /\ AnsweredAtOnce(c, "refused")

Refuse(c) ==
  /\ pc[c] = "new" /\ who[c].method = "tools/call" /\ Admitted(who[c]) = {}
  /\ AnsweredAtOnce(c, "refused")

RouteTo(c, children) ==
  /\ pc[c] = "new" /\ who[c].method = "tools/call"
  /\ \E ch \in children : at' = [at EXCEPT ![c] = ch]
  /\ pc' = [pc EXCEPT ![c] = "begin"]
  /\ UNCHANGED <<bound, proc, initialized, pipes, threads, result, shaking, troubled>>

SerenaRoute(c) == RouteTo(c, SerenaChildFor(who[c]))
PiRoute(c) == RouteTo(c, {ch \in PiChildFor(who[c]) : PrepareForPi(ch, who[c])})

(* ----- start, the queues ---------------------------------------------- *)

\* start() under the lock: a living process is used, a dead one replaced, and
\* only a replacement clears the flag.
Running(ch) ==
  /\ lock[ch] = NoCall /\ proc[ch].alive
  /\ UNCHANGED <<proc, initialized, pipes, troubled>>

Spawn(ch) ==
  /\ lock[ch] = NoCall /\ ~proc[ch].alive /\ proc[ch].gen < MaxGen[ch]
  /\ proc' = [proc EXCEPT ![ch] = [gen |-> @.gen + 1, alive |-> TRUE]]
  /\ initialized' = [initialized EXCEPT ![ch] = FALSE]
  /\ server' = [server EXCEPT ![ch] = "new"]
  /\ stdin' = [stdin EXCEPT ![ch] = <<>>]
  /\ UNCHANGED <<stdout, lock, troubled>>

Start(ch) == Running(ch) \/ Spawn(ch)

StartFails(ch) ==
  /\ lock[ch] = NoCall /\ ~proc[ch].alive
  /\ troubled' = TRUE
  /\ UNCHANGED <<proc, initialized, pipes>>

Register(c, i) ==
  /\ queues' = [queues EXCEPT ![at[c]][i] = c]
  /\ slot' = [slot EXCEPT ![c] = NoAnswer]
  /\ UNCHANGED blocked

\* The finally clause: whatever is registered under the id is removed.
Unregister(c, i) == queues' = [queues EXCEPT ![at[c]][i] = NoCall]

Return(c, r) ==
  /\ result' = [result EXCEPT ![c] = r]
  /\ pc' = [pc EXCEPT ![c] = "done"]

Go(c, label) ==
  /\ pc' = [pc EXCEPT ![c] = label]
  /\ UNCHANGED result

\* A line is written under the lock: to a dead process nothing, to a living one
\* as soon as it has room, for which no time is set.
TakeLock(c, next) ==
  /\ lock[at[c]] = NoCall /\ proc[at[c]].alive
  /\ lock' = [lock EXCEPT ![at[c]] = c]
  /\ Go(c, next)
  /\ UNCHANGED <<stdin, stdout, server, threads>>

Write(c, i, what, next) ==
  LET ch == at[c]
      line == [of |-> c, id |-> i, what |-> what]
  IN /\ proc[ch].alive /\ Len(stdin[ch]) < Room
     /\ stdin' = [stdin EXCEPT ![ch] = Append(@, line)]
     /\ lock' = [lock EXCEPT ![ch] = NoCall]
     /\ Go(c, next)
     /\ UNCHANGED <<server, stdout, threads>>

\* The process is found dead, or dies while the line waits for room.
Broken(c, before, during) ==
  /\ ~proc[at[c]].alive
  /\ \/ pc[c] = before /\ lock[at[c]] = NoCall
     \/ pc[c] = during
  /\ lock' = [lock EXCEPT ![at[c]] = NoCall]
  /\ UNCHANGED <<stdin, stdout, server>>

(* ----- call_jsonrpc ---------------------------------------------------- *)

Begin(c) ==
  /\ pc[c] = "begin"
  /\ \/ /\ Start(at[c])
        /\ IF initialized'[at[c]]
             THEN Register(c, idOf[c]) /\ Go(c, "write")
             ELSE Go(c, "istart") /\ UNCHANGED threads
     \/ StartFails(at[c]) /\ Return(c, [what |-> "failed"]) /\ UNCHANGED threads
  /\ UNCHANGED <<bound, at, shaking>>

WriteCall(c) ==
  /\ \/ pc[c] = "write" /\ TakeLock(c, "writing")
     \/ pc[c] = "writing" /\ Write(c, idOf[c], "tools/call", "wait")
     \/ /\ Broken(c, "write", "writing")
        /\ Unregister(c, idOf[c])
        /\ Return(c, [what |-> "failed"])
        /\ UNCHANGED <<slot, blocked>>
  /\ UNCHANGED <<bound, proc, initialized, at, shaking, troubled>>

\* q.get: taking the answer also lets a reader go on that waits for room.
Take(c, i) ==
  /\ slot[c] # NoAnswer
  /\ slot' = [slot EXCEPT ![c] = NoAnswer]
  /\ blocked' = {b \in blocked : b.on # c}
  /\ Unregister(c, i)
  /\ UNCHANGED <<bound, proc, initialized, pipes, at, shaking, troubled>>

GetAnswer(c) ==
  /\ pc[c] = "wait"
  /\ Take(c, idOf[c])
  /\ Return(c, slot[c])

\* The child or its answer is still under way: then the time was too short.
Awaited(c) ==
  \/ \E n \in DOMAIN stdin[at[c]] : stdin[at[c]][n].of = c
  \/ \E m \in stdout[at[c]] : m.of = c

\* Faulty variant: an unbounded wait.
NeverTimesOut(c, from, to) == FALSE

TimesOut(c, from, to) ==
  /\ pc[c] = from
  /\ slot[c] = NoAnswer
  /\ troubled' = (troubled \/ Awaited(c))
  /\ Go(c, to)
  /\ UNCHANGED <<bound, proc, initialized, pipes, threads, at, shaking>>

GetTimesOut(c) == TimesOut(c, "wait", "timeout")

\* The finally clause after a time-out; an answer may have come in between.
GiveUp(c) ==
  /\ pc[c] = "timeout"
  /\ Unregister(c, idOf[c])
  /\ Return(c, [what |-> "timeout"])
  /\ UNCHANGED <<bound, proc, initialized, pipes, slot, blocked, at, shaking, troubled>>

(* ----- _ensure_mcp_initialized ------------------------------------------ *)

HandshakeStart(c) ==
  /\ pc[c] = "istart"
  /\ \/ Start(at[c]) /\ Register(c, HandshakeId(at[c], c)) /\ Go(c, "iwrite")
     \/ StartFails(at[c]) /\ Return(c, [what |-> "failed"]) /\ UNCHANGED threads
  /\ shaking' = [shaking EXCEPT ![at[c]] = @ \cup {c}]
  /\ UNCHANGED <<bound, at>>

HandshakeWrite(c) ==
  /\ \/ pc[c] = "iwrite" /\ TakeLock(c, "iwriting")
     \/ pc[c] = "iwriting" /\ Write(c, HandshakeId(at[c], c), "initialize", "iwait")
     \/ /\ Broken(c, "iwrite", "iwriting")
        /\ Unregister(c, HandshakeId(at[c], c))
        /\ Return(c, [what |-> "failed"])
        /\ UNCHANGED <<slot, blocked>>
  /\ UNCHANGED <<bound, proc, initialized, at, shaking, troubled>>

\* An error is what the call returns; only a good answer lets it go on.
HandshakeAnswered(c) ==
  /\ pc[c] = "iwait"
  /\ Take(c, HandshakeId(at[c], c))
  /\ IF slot[c].ok THEN Go(c, "nstart") ELSE Return(c, [what |-> "failed"])

HandshakeTimesOut(c) == TimesOut(c, "iwait", "itimeout")

HandshakeGivesUp(c) ==
  /\ pc[c] = "itimeout"
  /\ Unregister(c, HandshakeId(at[c], c))
  /\ Return(c, [what |-> "timeout"])
  /\ UNCHANGED <<bound, proc, initialized, pipes, slot, blocked, at, shaking, troubled>>

\* Faulty variant: no notification is sent.
SkipNotification(c) ==
  /\ pc[c] = "nstart"
  /\ Go(c, "nset")
  /\ UNCHANGED <<bound, proc, initialized, pipes, threads, at, shaking, troubled>>

\* The notification is a call_jsonrpc of its own, which may start a new
\* process; what it returns is ignored.
NotifyStart(c) ==
  /\ pc[c] = "nstart"
  /\ \/ Start(at[c]) /\ Go(c, "nwrite")
     \/ StartFails(at[c]) /\ Go(c, "nset")
  /\ UNCHANGED <<bound, threads, at, shaking>>

NotifyWrite(c) ==
  /\ \/ pc[c] = "nwrite" /\ TakeLock(c, "nwriting")
     \/ pc[c] = "nwriting" /\ Write(c, HandshakeId(at[c], c), "initialized", "nset")
     \/ Broken(c, "nwrite", "nwriting") /\ Go(c, "nset") /\ UNCHANGED threads
  /\ UNCHANGED <<bound, proc, initialized, at, shaking, troubled>>

SetInitialized(c) ==
  /\ pc[c] = "nset"
  /\ initialized' = [initialized EXCEPT ![at[c]] = TRUE]
  /\ Register(c, idOf[c])
  /\ Go(c, "write")
  /\ UNCHANGED <<bound, proc, pipes, at, shaking, troubled>>

(* ----- the reader threads and the processes ------------------------------ *)

\* _read_stdout: an answer nobody waits for is dropped; put waits for room.
Deliver(ch, m) ==
  LET q == queues[ch][m.id]
  IN /\ m \in stdout[ch]
     /\ \A b \in blocked : ~(b.child = ch /\ b.gen = m.gen)
     /\ stdout' = [stdout EXCEPT ![ch] = @ \ {m}]
     /\ \/ q = NoCall /\ UNCHANGED <<slot, blocked>>
        \/ /\ q # NoCall /\ slot[q] = NoAnswer
           /\ slot' = [slot EXCEPT ![q] = m]
           /\ UNCHANGED blocked
        \/ /\ q # NoCall /\ slot[q] # NoAnswer
           /\ blocked' = blocked \cup {[child |-> ch, gen |-> m.gen, on |-> q]}
           /\ UNCHANGED slot
     /\ UNCHANGED <<bound, proc, initialized, server, stdin, lock, queues, pc, at, result,
                    shaking, troubled>>

\* The process reads a line.  Tools are called only after a handshake, which it
\* may refuse; whether a second initialize undoes the first is up to the server.
Consume(ch) ==
  LET line == Head(stdin[ch])
      reply(good) == [of |-> line.of, id |-> line.id, what |-> line.what,
                      gen |-> proc[ch].gen, ok |-> good]
      answer(good) == stdout' = [stdout EXCEPT ![ch] = @ \cup {reply(good)}]
  IN /\ proc[ch].alive /\ stdin[ch] # <<>>
     /\ stdin' = [stdin EXCEPT ![ch] = Tail(@)]
     /\ \/ /\ line.what = "initialize"
           /\ \/ /\ answer(TRUE)
                 /\ server' \in {[server EXCEPT ![ch] = "asked"]} \cup {v \in {server} : v[ch] = "ready"}
                 /\ troubled' = (troubled \/ (server[ch] = "ready" /\ server'[ch] # "ready"))
              \/ answer(FALSE) /\ troubled' = TRUE /\ UNCHANGED server
        \/ /\ line.what = "initialized"
           /\ server' = [server EXCEPT ![ch] = IF @ = "new" THEN "new" ELSE "ready"]
           /\ UNCHANGED <<stdout, troubled>>
        \/ /\ line.what = "tools/call"
           /\ answer(server[ch] = "ready")
           /\ UNCHANGED <<server, troubled>>
     /\ UNCHANGED <<bound, proc, initialized, lock, threads, pc, at, result, shaking>>

\* A process dies; of what it was writing some may be lost.
Die(ch) ==
  /\ proc[ch].alive
  /\ proc' = [proc EXCEPT ![ch].alive = FALSE]
  /\ stdin' = [stdin EXCEPT ![ch] = <<>>]
  /\ stdout' \in {[stdout EXCEPT ![ch] = kept] : kept \in SUBSET stdout[ch]}
  /\ troubled' = TRUE
  /\ UNCHANGED <<bound, initialized, server, lock, threads, pc, at, result, shaking>>

\* call_jsonrpc and the handshake in it: both shims go through the same steps.
Protocol(c) ==
  \/ Begin(c) \/ WriteCall(c) \/ GetAnswer(c) \/ GetTimesOut(c) \/ GiveUp(c)
  \/ HandshakeStart(c) \/ HandshakeWrite(c) \/ HandshakeAnswered(c)
  \/ HandshakeTimesOut(c) \/ HandshakeGivesUp(c)
  \/ NotifyStart(c) \/ NotifyWrite(c) \/ SetInitialized(c)

SerenaCall(c) == at[c] \in Serena /\ Protocol(c)
PiCall(c) == at[c] \in Children \ Serena /\ Protocol(c)

CallStep(c) ==
  \/ AnswerLocally(c) \/ Reject(c) \/ Refuse(c)
  \/ SerenaRoute(c) \/ PiRoute(c) \/ SerenaCall(c) \/ PiCall(c)

SerenaReader(ch) == ch \in Serena /\ \E m \in stdout[ch] : Deliver(ch, m)
PiReader(ch) == ch \in Children \ Serena /\ \E m \in stdout[ch] : Deliver(ch, m)

Step ==
  \/ \E c \in Calls : CallStep(c)
  \/ \E s \in Sessions, ch \in Children : BindSession(s, ch)
  \/ \E ch \in Children : SerenaReader(ch) \/ PiReader(ch)
  \/ \E ch \in Children : Consume(ch)
  \/ \E ch \in Children : Die(ch)

Next == Step /\ UNCHANGED said

Spec == Init /\ [][Next]_vars

\* Threads of the server run on, and a living process whose pipe is full reads
\* a line in the end; nothing is assumed of its answers and of the readers.
Drain(ch) == Len(stdin[ch]) = Room /\ Consume(ch)

FairSpec ==
  /\ Spec
  /\ \A c \in Calls : WF_vars(CallStep(c) /\ UNCHANGED said)
  /\ \A ch \in Children : WF_vars(Drain(ch) /\ UNCHANGED said)

(* ----- properties ------------------------------------------------------- *)

\* A call returns the answer to its own line, unless another call with the
\* same message id was sent to the same child: what a shim shared by several
\* clients with ids of their own choosing can at best promise.
OwnAnswerOrSameId ==
  \A c \in Calls : result[c] \in Answers =>
    /\ result[c].what = "tools/call"
    /\ at[result[c].of] = at[c]
    /\ result[c].of # c => idOf[result[c].of] = idOf[c]

\* While no process dies, refuses or undoes a handshake and nobody gives up on an
\* answer under way, every call with an id of its own is answered by a child with
\* which no two calls shook hands under one id, however many did so at once.
OwnHandshakes(ch) ==
  \A c, d \in shaking[ch] : c # d => HandshakeId(ch, c) # HandshakeId(ch, d)

QuietCallsSucceed ==
  \A c \in Calls :
    LET ch == at[c]
    IN (~troubled /\ pc[c] = "done" /\ ch # NoName
          /\ (\A d \in Calls \ {c} : at[d] = ch => idOf[d] # idOf[c])
          /\ OwnHandshakes(ch))
         => result[c] \in Answers /\ result[c].of = c /\ result[c].ok

\* "Run MCP initialize handshake once per STDIO child before tools/call"
\* (serena_session_shim.py:181): without trouble no two calls do.  The code does
\* not keep it (README, section 5).
HandshakeOncePerChild ==
  ~troubled => \A ch \in Children :
    Cardinality({c \in shaking[ch] : pc[c] \notin {"iwrite", "iwriting"}}) <= 1

\* Every request is answered in the end, though a process may not answer, may die
\* at any point and may leave the reader waiting, as long as a living one takes in
\* what is written to it: for a full pipe no time-out is set, and the lock is kept.
CallsReturn == \A c \in Calls : <>(pc[c] = "done")

=============================================================================

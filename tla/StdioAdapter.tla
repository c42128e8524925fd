---------------------------- MODULE StdioAdapter ----------------------------
(***************************************************************************)
(* scripts/bifrost/mcp_output_schema_adapter.py, between the gateway and   *)
(* one stdio upstream.  One thread notes each request and passes it on;    *)
(* another takes the lines of the upstream, and adds to the answer of a    *)
(* noted request what OutputEnvelope says.  It fails open: a line it does  *)
(* not understand goes through as it is.                                   *)
(***************************************************************************)
EXTENDS OutputEnvelope, Integers, Sequences

CONSTANTS Server,      \* the upstream behind the adapter
          Request,     \* <<[method, tool]>>: what the gateway sends, in this order
          Results,     \* the results a tool may return
          ToolList,    \* what the upstream lists
          MaxPending   \* MAX_PENDING

ASSUME PendingAssumption == MaxPending \in Nat \ {0}
ASSUME RequestAssumption == Request \in Seq([method : STRING, tool : STRING])
ASSUME ResultsAssumption ==
  Results \subseteq [structured : [kind : {"none", "own", "scalar", "envelope"}],
                     text : {"none", "prose", "json", "big"}, isError : BOOLEAN]

VARIABLES
  sent,          \* how many requests the gateway has sent; the number is the id
  stdin,         \* the requests the adapter has not read
  passing,       \* the request its first thread holds: <<>> or <<id>>
  pending,       \* _pending: the ids of the noted requests
  upstream,      \* the requests the upstream has
  lines,         \* what the upstream has written and the adapter not read
  asked,         \* has the upstream asked something of its own
  transforming,  \* does the adapter have a resolver
  delivered,     \* the answers the gateway has received
  disturbed      \* history: the ids whose note was lost or taken

relay == <<sent, stdin, passing, pending, upstream, lines, asked, transforming, delivered, disturbed>>

Ids == DOMAIN Request
\* What the upstream asks has an id of its own choice, here one the gateway uses too.
AskId == 1

RelayInit ==
  /\ sent = 0
  /\ stdin = <<>> /\ passing = <<>> /\ pending = {} /\ upstream = {} /\ lines = <<>>
  /\ asked = FALSE
  /\ transforming = TRUE
  /\ delivered = {} /\ disturbed = {}

Send ==
  /\ sent < Len(Request)
  /\ sent' = sent + 1
  /\ stdin' = Append(stdin, sent + 1)
  /\ UNCHANGED <<passing, pending, upstream, lines, asked, transforming, delivered, disturbed>>

\* Only calls and lists are noted; a full table is emptied first.
Noted(id) == Request[id].method \in {"tools/list", "tools/call"}
Remember(id) ==
  IF ~Noted(id) THEN UNCHANGED <<pending, disturbed>>
  ELSE LET full == Cardinality(pending) >= MaxPending
       IN  /\ pending' = (IF full THEN {} ELSE pending) \cup {id}
           /\ disturbed' = IF full THEN disturbed \cup pending ELSE disturbed

NoteRequest ==
  /\ stdin # <<>> /\ passing = <<>>
  /\ passing' = <<Head(stdin)>>
  /\ stdin' = Tail(stdin)
  /\ Remember(Head(stdin))
  /\ UNCHANGED <<sent, upstream, lines, asked, transforming, delivered>>

PassOn ==
  /\ passing # <<>>
  /\ upstream' = upstream \cup {passing[1]}
  /\ passing' = <<>>
  /\ UNCHANGED <<sent, stdin, pending, lines, asked, transforming, delivered, disturbed>>

\* Faulty variant: the request is passed on first and noted afterwards.
PassOnFirst ==
  /\ stdin # <<>> /\ passing = <<>>
  /\ passing' = <<Head(stdin)>>
  /\ stdin' = Tail(stdin)
  /\ upstream' = upstream \cup {Head(stdin)}
  /\ UNCHANGED <<sent, pending, lines, asked, transforming, delivered, disturbed>>
NoteAfterwards ==
  /\ passing # <<>>
  /\ passing' = <<>>
  /\ Remember(passing[1])
  /\ UNCHANGED <<sent, stdin, upstream, lines, asked, transforming, delivered>>
PumpStdinLate == PassOnFirst \/ NoteAfterwards

PumpStdin == NoteRequest \/ PassOn

\* The upstream answers in any order, with a result or with an error.
Answer(id) ==
  /\ id \in upstream
  /\ \/ Request[id].method = "tools/call" /\ \E r \in Results : lines' = Append(lines, [id |-> id, kind |-> "call", body |-> r])
     \/ Request[id].method = "tools/list" /\ lines' = Append(lines, [id |-> id, kind |-> "list", body |-> ToolList])
     \/ lines' = Append(lines, [id |-> id, kind |-> "other", body |-> "error"])
  /\ upstream' = upstream \ {id}
  /\ UNCHANGED <<sent, stdin, passing, pending, asked, transforming, delivered, disturbed>>

Ask ==
  /\ ~asked
  /\ asked' = TRUE
  /\ lines' = Append(lines, [id |-> AskId, kind |-> "ask", body |-> "ping"])
  /\ UNCHANGED <<sent, stdin, passing, pending, upstream, transforming, delivered, disturbed>>

\* The note is taken whatever the line is; only a result is transformed.
TransformResponse(m) ==
  IF m.id \notin pending \/ ~transforming \/ m.kind \notin {"call", "list"} THEN m
  ELSE [m EXCEPT !.body = IF Request[m.id].method = "tools/list" THEN InjectOutputSchemas(Server, m.body)
                                                              ELSE NormalizeCallResult(Server, Request[m.id].tool, m.body)]

PumpStdout ==
  /\ lines # <<>>
  /\ LET m == Head(lines)
     IN  /\ pending' = pending \ {m.id}
         /\ delivered' = delivered \cup {[raw |-> m, out |-> TransformResponse(m), transforming |-> transforming]}
         /\ disturbed' = IF m.kind = "ask" THEN disturbed \cup (pending \cap {m.id}) ELSE disturbed
  /\ lines' = Tail(lines)
  /\ UNCHANGED <<sent, stdin, passing, upstream, asked, transforming>>

\* The process ends, or another one takes its place: what was on its way is lost.
Restarted(transform) ==
  /\ stdin' = <<>> /\ passing' = <<>> /\ pending' = {} /\ upstream' = {} /\ lines' = <<>>
  /\ transforming' = transform
  /\ UNCHANGED <<sent, asked, delivered, disturbed>>

-----------------------------------------------------------------------------

Describes(env, id, raw) ==
  /\ env.server = Server /\ env.tool = Request[id].tool
  /\ env.success = ~raw.isError
  /\ env.data = "none" /\ ~env.omitted => raw.structured.kind = "none" /\ raw.text \in {"none", "prose"}
  /\ env.omitted => env.status # "ok"

Enveloped(d) ==
  /\ d.raw.kind = "call" => /\ d.out.body.text = d.raw.body.text
                           /\ \/ IsEnvelope(d.raw.body.structured) /\ d.out = d.raw
                              \/ IsEnvelope(d.out.body.structured) /\ Describes(d.out.body.structured, d.raw.id, d.raw.body)
  /\ d.raw.kind = "list" => \A t \in DOMAIN d.out.body : d.out.body[t] # "none"

\* The answer to every call and list carries an envelope of its own tool, or a
\* schema for every tool: the request is noted before the upstream can answer
\* it.  An answer whose note was lost (the table was full, or the upstream used
\* the id for a request of its own) is the exception.
AnswersAreEnveloped ==
  \A d \in delivered : d.transforming /\ d.raw.id \notin disturbed => Enveloped(d)

\* "Every result without a conforming structuredContent gets one": also when
\* more requests are on their way than the table holds, as long as the upstream
\* uses none of their ids.  The code does not keep it (README, section 5).
FullTableIsEnveloped ==
  ~asked => \A d \in delivered : d.transforming => Enveloped(d)
=============================================================================

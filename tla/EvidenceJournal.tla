--------------------------- MODULE EvidenceJournal ---------------------------
(***************************************************************************)
(* The journal of evidence of one project: events are appended once per    *)
(* source and idempotency key, their long texts are kept in files named by *)
(* their digest, and clients read the chronology back page by page while   *)
(* other clients go on appending (scripts/agentcore_memory/server.py,      *)
(* recovery.py and append_evidence_event of migrations/m2).  Servers share *)
(* the database and the files; each handles one call at a time.            *)
(***************************************************************************)
EXTENDS ContextPages

CONSTANTS Requests,   \* the append_event and propose_fact calls of the clients
          Ask,        \* [Requests -> [source, key, text, kind, trust, tokens, bare, id]]
          Servers,    \* server processes
          Readers,    \* clients that read the chronology
          NoText,     \* an event whose payload says it all
          NoRequest,  \* the request of an idle server
          Profiles,   \* model_context_profiles, by name
          Aliases,    \* model_context_profile_aliases
          Asked,      \* the profiles the readers ask for: [as, name]
          Migrated,   \* whether the tables of profiles are there: a set of answers
          Usual,      \* DEFAULT_RECOVERY_PAGE_SIZE
          Requested,  \* the page sizes a reader asks for, or Unsaid
          MaxCalls    \* bound on the calls that begin

Texts == {Ask[r].text : r \in Requests} \ {NoText}
Modes == {"complete_project_chronology", "decision_history", "current_state"}
Summary == "summary_id"   \* expand_source: the sources of a summary

ASSUME RequestsAssumption == NoRequest \notin Requests
ASSUME ProfileAssumption ==
  /\ Migrated \subseteq BOOLEAN /\ Usual \in Nat \ {0}
  /\ \A name \in DOMAIN Profiles : Profiles[name] \in ContextProfile
\* The ids of events are unique.
ASSUME IdsAssumption ==
  \A r, q \in Requests : Ask[r].id \in Nat \ {0} /\ (Ask[r].id = Ask[q].id => r = q)
ASSUME BoundsAssumption == Requested \subseteq Nat /\ MaxCalls \in Nat

VARIABLES
  time,       \* when the last call began
  pc, job, at,\* of every server: its place, its request, the start of its transaction
  created,    \* has it created the file of its text (created_path)
  events,     \* evidence_events, committed
  rows,       \* artifact_objects, committed: the texts they name
  proposals,  \* fact_review proposals, committed
  file,       \* the file of every text: absent, partial or full
  recall,     \* the facts projected to the shared recall service
  reader      \* of every reader: phase, mode, window, cursor and what it has

vars == <<time, pc, job, at, created, events, rows, proposals, file, recall, reader>>
call == <<pc, job, at, created>>
tables == <<events, rows, proposals>>

Curated == {"decision", "accepted_evidence", "output", "proposal"}
\* window and cursor are 0 for none.  For the properties, a reader keeps what was
\* committed before its first page, what it got, what the count of its page took
\* in, and what it got in its last page that was not counted.
NotReading == [phase |-> "idle", mode |-> "current_state", all |-> FALSE, window |-> 0,
               cursor |-> 0, before |-> {}, counted |-> {}, got |-> {}, late |-> {},
               twice |-> FALSE]

Init ==
  /\ time = 0
  /\ pc = [s \in Servers |-> "idle"]
  /\ job = [s \in Servers |-> NoRequest]
  /\ at = [s \in Servers |-> 0]
  /\ created = [s \in Servers |-> FALSE]
  /\ events = {} /\ rows = {} /\ proposals = {}
  /\ file = [t \in Texts |-> "absent"]
  /\ recall = {}
  /\ reader = [c \in Readers |-> NotReading]

(***************************** append_event ********************************)
Text(s) == Ask[job[s]].text
Same(r, q) == Ask[r].source = Ask[q].source /\ Ask[r].key = Ask[q].key
Goto(s, place) == pc' = [pc EXCEPT ![s] = place]

\* The first statement starts the transaction: accepted_at is its time.
Begin(s, r) ==
  /\ pc[s] = "idle" /\ time < MaxCalls
  /\ time' = time + 1
  /\ Goto(s, IF Ask[r].kind = "proposal" THEN "propose" ELSE "lock")
  /\ job' = [job EXCEPT ![s] = r]
  /\ at' = [at EXCEPT ![s] = time + 1]
  /\ UNCHANGED <<created, tables, file, recall, reader>>

\* The advisory lock on source and key is held until the transaction ends.
Holding(s) == pc[s] \in {"check", "open", "write", "insert", "commit"}
LockKey(s) ==
  /\ pc[s] = "lock"
  /\ \A o \in Servers : Holding(o) => ~Same(job[o], job[s])
  /\ Goto(s, "check")
  /\ UNCHANGED <<time, job, at, created, tables, file, recall, reader>>

Known(r) == \E e \in events : Same(e.request, r)

Return(s) ==
  /\ Goto(s, "idle")
  /\ job' = [job EXCEPT ![s] = NoRequest]
  /\ at' = [at EXCEPT ![s] = 0]
  /\ created' = [created EXCEPT ![s] = FALSE]

\* The event is there already: the caller is told so, and nothing is repeated.
Replay(s) ==
  /\ pc[s] = "check" /\ Known(job[s])
  /\ Return(s)
  /\ UNCHANGED <<time, tables, file, recall, reader>>

\* A file that exists is taken if its digest is right; otherwise one is created.
UseFile(s) ==
  /\ pc[s] = "check" /\ ~Known(job[s])
  /\ Text(s) # NoText => file[Text(s)] = "full"
  /\ Goto(s, "insert")
  /\ UNCHANGED <<time, job, at, created, tables, file, recall, reader>>

SeeNoFile(s) ==
  /\ pc[s] = "check" /\ ~Known(job[s])
  /\ Text(s) # NoText /\ file[Text(s)] = "absent"
  /\ Goto(s, "open")
  /\ UNCHANGED <<time, job, at, created, tables, file, recall, reader>>

\* The lock is on source and key: the file may be there by now, for another event
\* with the same text.  To open it for writing empties it.
OpenFile(s) ==
  /\ pc[s] = "open"
  /\ file' = [file EXCEPT ![Text(s)] = "partial"]
  /\ Goto(s, "write")
  /\ UNCHANGED <<time, job, at, created, tables, recall, reader>>

\* One write of the whole text; a file that was removed meanwhile stays so.
FinishFile(s) ==
  /\ pc[s] = "write"
  /\ file' = [file EXCEPT ![Text(s)] = IF @ = "absent" THEN @ ELSE "full"]
  /\ created' = [created EXCEPT ![s] = TRUE]
  /\ Goto(s, "insert")
  /\ UNCHANGED <<time, job, at, tables, recall, reader>>

\* A row for the same text that another transaction has not committed is waited for.
InsertRows(s) ==
  /\ pc[s] = "insert"
  /\ Text(s) # NoText =>
       \A o \in Servers : pc[o] = "commit" => Text(o) # Text(s)
  /\ Goto(s, "commit")
  /\ UNCHANGED <<time, job, at, created, tables, file, recall, reader>>

Committed(s) ==
  /\ events' = events \union {[request |-> job[s], at |-> at[s]]}
  /\ rows' = rows \union ({Text(s)} \ {NoText})
  /\ UNCHANGED proposals

Commit(s) ==
  /\ pc[s] = "commit"
  /\ Committed(s)
  /\ Goto(s, "recall")
  /\ UNCHANGED <<time, job, at, created, file, recall, reader>>

\* Best effort, after the commit: a failure of the service is not one of the call.
Project(s) ==
  /\ pc[s] = "recall"
  /\ recall' \in {recall} \union
       (IF Ask[job[s]].kind \in Curated THEN {recall \union {job[s]}} ELSE {})
  /\ Return(s)
  /\ UNCHANGED <<time, tables, file, reader>>

\* Any exception removes the file this call has created, unless another call has
\* it open and the system does not allow it.
CleanUp(s) ==
  \/ created[s] /\ file' = [file EXCEPT ![Text(s)] = "absent"]
  \/ /\ created[s] => \E o \in Servers : pc[o] = "write" /\ Text(o) = Text(s)
     /\ UNCHANGED file

Fail(s) ==
  /\ Holding(s) \/ pc[s] \in {"lock", "propose"}
  /\ CleanUp(s)
  /\ Return(s)
  /\ UNCHANGED <<time, tables, recall, reader>>

\* The commit is done, but its answer never comes: an exception like any other.
CommitUnseen(s) ==
  /\ pc[s] = "commit"
  /\ Committed(s)
  /\ CleanUp(s)
  /\ Return(s)
  /\ UNCHANGED <<time, recall, reader>>

\* A server that dies rolls back and cleans nothing up.
Kill(s) ==
  /\ pc[s] # "idle"
  /\ Return(s)
  /\ UNCHANGED <<time, tables, file, recall, reader>>

\* propose_fact: one insert, then the same best-effort projection.
ProposeFact(s) ==
  /\ pc[s] = "propose"
  /\ proposals' = proposals \union {job[s]}
  /\ Goto(s, "recall")
  /\ UNCHANGED <<time, job, at, created, events, rows, file, recall, reader>>

(************************* reading the chronology **************************)
\* The filters of a mode; what is quarantined is left out unless asked for.
InScope(w, e) ==
  /\ w.all \/ Ask[e.request].trust \notin Excluded
  /\ w.mode = "decision_history" => Ask[e.request].kind = "decision"

Visible(w) == {e \in events : InScope(w, e)}
Newest(es) == Max({0} \union {e.at : e \in es})

\* The chronology goes by time of acceptance, a summary by the ids of its sources.
Key(w, e) == IF w.mode = Summary THEN Ask[e.request].id ELSE e.at
OrderBy(w, e) == IF NewestFirst(w.mode) THEN -Key(w, e) ELSE Key(w, e)

\* Faulty variant: the pages are counted off, as with OFFSET.
RestByOffset(w) ==
  LET es == {e \in Visible(w) : w.window # 0 => e.at <= w.window} IN
  {e \in es : Cardinality({d \in es : OrderBy(w, d) < OrderBy(w, e)}) >= Cardinality(w.got)}

\* What is left of the window after the cursor; without a window, nothing bounds it.
Rest(w) ==
  IF w.mode = Summary THEN {e \in w.before : Key(w, e) > w.cursor}
  ELSE {e \in Visible(w) :
          /\ w.window # 0 => e.at <= w.window
          /\ w.cursor # 0 => IF NewestFirst(w.mode) THEN e.at < w.cursor ELSE e.at > w.cursor}

Row(e) == [at |-> e.at, trust |-> Ask[e.request].trust, tokens |-> Ask[e.request].tokens,
           bare |-> Ask[e.request].bare, event |-> e]

\* The profiles the pages may be read with: a client names one in every call.
ProfilesInUse ==
  UNION {ResolveContextProfile(asked, available, Profiles, Aliases) :
           asked \in Asked, available \in Migrated}

\* The candidates of a page, of which as many are shown as the packet holds.
Candidates(w, requested, p) ==
  LET ordered == InOrder(Rest(w), [e \in Rest(w) |-> OrderBy(w, e)])
      wanted == IF w.mode = Summary THEN SummaryPageSize(requested)
                ELSE PageSizeFor(requested, p, Usual)
      size == Min({wanted, Len(ordered)})
  IN [i \in 1..size |-> Row(ordered[i])]

Page(w, requested, p) ==
  LET found == Candidates(w, requested, p)
  IN IF w.mode = Summary THEN found ELSE PageItems(found, p)

\* Faulty variant: the anchor is taken after the page was put in order.
AnchorAfterReverse(w, page) ==
  IF NewestFirst(w.mode) THEN Key(w, Head(page).event) ELSE Key(w, Last(page).event)

\* Where the next page goes on: at the last item that was read.
Anchor(w, page) == Key(w, Last(page).event)

\* There is a cursor to go on with if the count, which an earlier statement took,
\* exceeds the items, and the window has an end.
Paged(w, page) ==
  LET shown == {page[i].event : i \in DOMAIN page}
      more == Cardinality(w.counted) > Len(page) /\ page # <<>>
                /\ (w.mode = Summary \/ w.window # 0)
  IN [w EXCEPT !.got = @ \union shown,
               !.twice = @ \/ shown \intersect w.got # {},
               !.late = shown \ w.counted,
               !.counted = {},
               !.cursor = IF page = <<>> THEN @ ELSE Anchor(w, page),
               !.phase = IF more THEN "reading" ELSE "done"]

\* The window ends at the newest event there is when the first page is asked for.
Opened(mode, all) ==
  LET w == [NotReading EXCEPT !.phase = "count", !.mode = mode, !.all = all] IN
  [w EXCEPT !.window = Newest(Visible(w)), !.before = Visible(w)]

\* A call whose first item is too large for the packet in any form fails.
PagesToRead(w) ==
  {Page(w, n[1], n[2]) :
     n \in {m \in Requested \X ProfilesInUse :
              w.mode = Summary \/ ~PacketFails(Candidates(w, m[1], m[2]), m[2])}}

ReadTo(c, w) ==
  /\ reader' = [reader EXCEPT ![c] = w]
  /\ UNCHANGED <<time, call, tables, file, recall>>

\* A page takes three statements, and each of them sees what is committed by then
\* (READ COMMITTED): the end of the window, for a first page ...
FirstPage(c, mode) ==
  /\ reader[c].phase = "idle"
  /\ \E all \in BOOLEAN : ReadTo(c, Opened(mode, all))

\* A handoff carries the newest page, and its cursor to read on.
BuildHandoff(c) == FirstPage(c, "current_state")

\* (expand_source of a summary: pages of its sources, of whatever trust)
ExpandSummary(c) ==
  /\ reader[c].phase = "idle" /\ events # {}
  /\ ReadTo(c, [NotReading EXCEPT !.phase = "count", !.mode = Summary, !.before = events])

\* ... the count of what is left, with which a call that brings the signed cursor
\* begins: window, mode and anchor are in it ...
CountRest(c) ==
  /\ reader[c].phase \in {"count", "reading"}
  /\ ReadTo(c, [reader[c] EXCEPT !.phase = "items", !.counted = Rest(reader[c]), !.late = {}])

\* ... and the items.
ReadItems(c) ==
  /\ reader[c].phase = "items"
  /\ \E page \in PagesToRead(reader[c]) : ReadTo(c, Paged(reader[c], page))

CloseReplay(c) ==
  /\ reader[c].phase # "idle"
  /\ ReadTo(c, NotReading)

\* expand_source of an event: the event, and the reference to its text if it has one.
ExpandEvent(e) == rows \intersect {Ask[e.request].text}

\* expand_source of a text: the file is read whole to verify its digest before
\* a range of it is handed out; one that is not there is reported as unavailable.
Verified(t) == file[t] = "full"
ExpandArtifact(t) == {file[u] : u \in {v \in {t} : Verified(v)}}

Next ==
  \/ \E s \in Servers :
       \/ \E r \in Requests : Begin(s, r)
       \/ LockKey(s) \/ Replay(s) \/ UseFile(s) \/ SeeNoFile(s) \/ OpenFile(s)
       \/ FinishFile(s)
       \/ InsertRows(s) \/ Commit(s) \/ Project(s) \/ Fail(s) \/ CommitUnseen(s)
       \/ Kill(s) \/ ProposeFact(s)
  \/ \E c \in Readers :
       \/ \E mode \in Modes \ {"current_state"} : FirstPage(c, mode)
       \/ BuildHandoff(c) \/ ExpandSummary(c) \/ CountRest(c) \/ ReadItems(c) \/ CloseReplay(c)

Spec == Init /\ [][Next]_vars

\* A replay that has come to its end has returned none twice, however many events
\* with earlier or later times of acceptance were committed between its pages, and
\* between the statements of one page.  An event that was committed before its
\* first page and is missing has given its place in the last page to one that was
\* committed between the count and the items of that page: without such a late
\* one, nothing is missing (retrieve_chronology_page: the fixed window and the
\* keyset cursor; the pages of a summary, by the ids of its sources, likewise).
ReplayIsComplete ==
  \A c \in Readers :
    /\ ~reader[c].twice
    /\ reader[c].phase = "done" =>
         Cardinality(reader[c].before \ reader[c].got) <= Cardinality(reader[c].late)

\* What the guides promise, and the code does not keep (README, section 5): a
\* replay that has come to its end has returned every
\* event committed before its first page, whatever was committed meanwhile
\* (retrieve_chronology_page: omitted and the continuation cursor).
NothingBeforeIsMissed ==
  \A c \in Readers : reader[c].phase = "done" => reader[c].before \subseteq reader[c].got

\* Every page of n items is the page of n items of the reference pagination,
\* computed from the window the client has, the events committed when the items
\* are read, and from where the client was (paginate_chronology against the
\* queries of retrieve_chronology_page).
PageOfReference(c) ==
  LET old == reader[c]
      new == reader'[c]
      page == new.got \ old.got
      window == {e \in events : old.window # 0 => e.at <= old.window}
      cursor == IF old.cursor # 0 THEN <<old.window, old.cursor>> ELSE <<>>
      reference == PaginateChronology({Row(e) : e \in window}, new.mode, Cardinality(page),
                                      cursor, new.all)
  IN page = {reference[i].event : i \in DOMAIN reference}

PagesFollowReference ==
  [][\A c \in Readers :
       (reader'[c] # reader[c] /\ reader[c].phase = "items" /\ reader'[c].phase # "idle"
          /\ reader'[c].mode \in {"complete_project_chronology", "current_state"})
         => PageOfReference(c)]_vars

\* What the guides promise, and the code does not keep (README, section 5): the
\* text of every event in the ledger is handed out whole, whichever other calls with the same text are made, and fail (append_event:
\* the digest names the file; expand_source reads it back).
TextsAreKept ==
  \A e \in events : \A t \in ExpandEvent(e) : ExpandArtifact(t) = {"full"}
=============================================================================

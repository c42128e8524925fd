---------------------------- MODULE KnowledgeSync ----------------------------
(***************************************************************************)
(* The library of documents agents search: the nightly worker that copies  *)
(* the files of an upstream repository which pass the quality checks into  *)
(* the promoted tree (scripts/engineering/knowledge_sync), the ingest that *)
(* writes the tree's chunks into retrieval_documents                       *)
(* (scripts/engineering/knowledge_corpus), run by the worker and by the    *)
(* operator, and docs_search with its cache of answers                     *)
(* (scripts/agentcore_memory).  One remote and one query; upstream's       *)
(* commits are numbered and never come back.                               *)
(***************************************************************************)
EXTENDS Chunkers

CONSTANTS Files,        \* the files of the repository, numbered in path order
          Kind,         \* [Files -> Kinds]
          Included,     \* the files the include globs name and the deny globs do not
          Skipped,      \* the files an ingest passes over: their directory, suffix or name
          Trees,        \* what upstream may commit: [Files -> a text or Absent]
          Absent,
          Remote,       \* the catalog's entry: enrolled, auto_promote, max_changed, pinned
          Grammar,      \* [Ingesters -> BOOLEAN]: has that run's Python tree-sitter?
          OperatorVersion, \* the version an ingest by hand gives its rows
          BodyLimit,    \* the lines of a chunk that are stored (50000 characters)
          NoCommit, NoVersion,
          MaxCommits, MaxRelease, MaxIngests

Ingesters == {"worker", "operator"}

ASSUME FilesAssumption == Files \subseteq Nat /\ Included \subseteq Files /\ BodyLimit \in Nat
ASSUME KindAssumption == Kind \in [Files -> Kinds] /\ Grammar \in [Ingesters -> BOOLEAN]
ASSUME TreesAssumption ==
  \A tree \in Trees : \A f \in Files : tree[f] # Absent =>
    IsText(tree[f]) /\ \A n \in 0..Len(tree[f]) : SubSeq(tree[f], 1, n) # Absent
ASSUME NoCommitAssumption == NoCommit = 0 /\ NoVersion \notin 1..MaxRelease

VARIABLES
  upstream,  \* the commits pushed, oldest first
  release,   \* upstream's latest release tag, by its major number
  saved,     \* sync-state.json: last_good_sha and version
  worker,    \* the worker: where it is, the state it holds, the commit it listed,
             \* the tree it cloned, the version it gives, the files left to copy
             \* and the one being written
  promoted,  \* the promoted tree
  documents, \* retrieval_documents: file, version, chunk_id (the digest of the
             \* whole chunk), body and updated_at
  ingest,    \* of every ingest: is it open, its start, what it has to read, what it
             \* has read of the next file and what it has written
  clock,     \* now() of the last transaction
  search,    \* docs_search between its two statements: the revision it has read
  cache      \* the last answer kept, with its revision: that of an older one is
             \* never read again (updated_at only grows)

syncVars == <<upstream, release, saved, worker, promoted, documents, ingest, clock, search, cache>>
library == <<saved, worker, promoted>>
index == <<documents, ingest, clock>>
finder == <<search, cache>>

Latest == Len(upstream)
NoTree == [f \in Files |-> Absent]
Fresh == [last_good |-> NoCommit, version |-> NoVersion]
Asleep == [at |-> "idle", mem |-> Fresh, sha |-> NoCommit, tree |-> NoTree,
           version |-> NoVersion, todo |-> {}, writing |-> {}, apply |-> FALSE]
Closed == [open |-> FALSE, stamp |-> 0, todo |-> {}, read |-> <<>>, wrote |-> {}, failed |-> FALSE]

SyncInit ==
  /\ upstream = <<>> /\ release = 1
  /\ saved = Fresh /\ worker = Asleep
  /\ promoted = NoTree
  /\ documents = {} /\ ingest = [i \in Ingesters |-> Closed] /\ clock = 0
  /\ search = [busy |-> FALSE, revision |-> 0] /\ cache = {}

-----------------------------------------------------------------------------
(* Quality checks: knowledge_sync/qa.py *)

Has(text, kind) == Starts(text, kind) # {}

\* A local link must lead to a file of the clone.
BrokenLink(text, tree) ==
  \E i \in Starts(text, "link") : tree[text[i].to] = Absent

markdown_ok(text, tree) ==
  /\ Strip(text) # <<>>
  /\ Has(text, "head")
  /\ ~BrokenLink(text, tree)

parse_code(text) == ~Has(text, "bad")

qa_file(f, tree) ==
  /\ ~Has(tree[f], "secret")
  /\ Kind[f] = "markdown" => markdown_ok(tree[f], tree)
  /\ Kind[f] = "code" => parse_code(tree[f])

filter_changed_files(tree) == {f \in Included : tree[f] # Absent}

Passing(tree) == {f \in filter_changed_files(tree) : qa_file(f, tree)}

\* source_recency: the version of a promotion is upstream's latest tag by then.
source_recency == [version |-> release, major |-> release]

\* No reason to hold: something passed, the remote is enrolled and promotes by
\* itself, no major jump, not more files than the bound unless it is the first.
evaluate_breaking_change(passing, major, first) ==
  /\ passing # {}
  /\ Remote.enrolled
  /\ Remote.pinned # NoVersion => major = Remote.pinned
  /\ Cardinality(passing) > Remote.max_changed => first
  /\ Remote.auto_promote

-----------------------------------------------------------------------------
(* Upstream *)

Push(tree, tag) ==
  /\ Latest < MaxCommits /\ tag \in {release, release + 1} /\ tag <= MaxRelease
  /\ upstream' = Append(upstream, tree) /\ release' = tag
  /\ UNCHANGED <<library, index, finder>>

-----------------------------------------------------------------------------
(* The worker: sync_remote and main.  It takes the commit's number from      *)
(* ls-remote and the files from a clone made after it.                       *)

\* load_state, ls_remote_sha: nothing is done for the commit already recorded.
ls_remote(apply) ==
  /\ worker.at = "idle" /\ Latest # NoCommit
  /\ Latest # saved.last_good
  /\ worker' = [Asleep EXCEPT !.at = "listed", !.mem = saved, !.sha = Latest, !.apply = apply]
  /\ UNCHANGED <<upstream, release, saved, promoted, index, finder>>

\* git clone takes the branch as it is by now.
clone ==
  /\ worker.at = "listed"
  /\ worker' = [worker EXCEPT !.at = "cloned", !.tree = upstream[Latest]]
  /\ UNCHANGED <<upstream, release, saved, promoted, index, finder>>

Decision ==
  evaluate_breaking_change(Passing(worker.tree), source_recency.major,
                           worker.mem.last_good = NoCommit)

\* Faulty variant: every file of the clone is promoted once one has passed.
PromoteAll ==
  /\ worker.at = "cloned" /\ worker.apply
  /\ Decision
  /\ worker' = [worker EXCEPT !.at = "copying", !.todo = filter_changed_files(worker.tree),
                              !.version = source_recency.version]
  /\ UNCHANGED <<upstream, release, saved, promoted, index, finder>>

\* qa_paths, source_recency and the decision: the files that passed are copied.
Promote ==
  /\ worker.at = "cloned" /\ worker.apply
  /\ Decision
  /\ worker' = [worker EXCEPT !.at = "copying", !.todo = Passing(worker.tree),
                              !.version = source_recency.version]
  /\ UNCHANGED <<upstream, release, saved, promoted, index, finder>>

\* The clone failed, the decision was to hold, or it was a dry run: a report
\* and the worker is done, what is recorded stays (last-good wins).
Hold ==
  /\ \/ worker.at = "listed"
     \/ /\ worker.at = "cloned"
        /\ worker.apply => ~Decision
  /\ worker' = Asleep
  /\ UNCHANGED <<upstream, release, saved, promoted, index, finder>>

\* dest.write_bytes: the file is opened, which makes it or empties it ...
OpenCopy(f) ==
  /\ worker.at = "copying" /\ f \in worker.todo /\ worker.writing = {}
  /\ promoted' = [promoted EXCEPT ![f] = <<>>]
  /\ worker' = [worker EXCEPT !.writing = {f}]
  /\ UNCHANGED <<upstream, release, saved, index, finder>>

\* ... grows, ...
WritePart(f) ==
  /\ worker.at = "copying" /\ f \in worker.writing
  /\ \E n \in 1..Len(worker.tree[f]) - 1 :
       /\ n > Len(promoted[f])
       /\ promoted' = [promoted EXCEPT ![f] = SubSeq(worker.tree[f], 1, n)]
  /\ UNCHANGED <<upstream, release, saved, worker, index, finder>>

\* ... and is whole.
CloseCopy(f) ==
  /\ worker.at = "copying" /\ f \in worker.writing
  /\ promoted' = [promoted EXCEPT ![f] = worker.tree[f]]
  /\ worker' = [worker EXCEPT !.todo = @ \ {f}, !.writing = {}]
  /\ UNCHANGED <<upstream, release, saved, index, finder>>

\* save_state, at the end of main and with --apply only.
save_state ==
  /\ worker.at = "saving"
  /\ saved' = worker.mem /\ worker' = Asleep
  /\ UNCHANGED <<upstream, release, promoted, index, finder>>

\* The worker's process dies with its ingest; the copies made stay, and the
\* part of the last one.
Crash ==
  /\ worker.at # "idle"
  /\ worker' = Asleep /\ ingest' = [ingest EXCEPT !["worker"] = Closed]
  /\ UNCHANGED <<upstream, release, saved, promoted, documents, clock, finder>>
-----------------------------------------------------------------------------
(* The ingest: knowledge_corpus/ingest.py.  One transaction per run, whose   *)
(* start is the updated_at of its rows; a savepoint per chunk.               *)

\* The unique key (source_uri, version, chunk_id).
UniqueKey(r) == [file |-> r.file, version |-> r.version, chunk |-> r.chunk]

\* ON CONFLICT DO UPDATE: a row of the same key is written over.
upsert_chunk(table, written) ==
  {r \in table : \A w \in written : UniqueKey(w) # UniqueKey(r)} \union written

\* The files of the tree, but for the names should_skip knows.
iter_files == {f \in Files \ Skipped : promoted[f] # Absent}

\* chunk.body[:50000]: the rest of a long chunk is not stored.
Stored(body) == IF Len(body) > BodyLimit THEN SubSeq(body, 1, BodyLimit) ELSE body

\* The rows the chunks of a file give, as it was read.
RowsOf(i, f, text) ==
  {[file |-> f, version |-> IF i = "worker" THEN worker.version ELSE OperatorVersion,
    chunk |-> c, body |-> Stored(c.body), updated_at |-> ingest[i].stamp] :
      c \in chunk_file(text, Kind[f], Grammar[i])}

\* iter_files(promoted_root): the whole tree, files of earlier commits too.
BeginIngest(i) ==
  /\ ~ingest[i].open /\ clock < MaxIngests
  /\ iter_files # {}
  /\ i = "worker" => worker.at = "copying" /\ worker.todo = {}
  /\ clock' = clock + 1
  /\ ingest' = [ingest EXCEPT ![i] =
       [open |-> TRUE, stamp |-> clock', todo |-> iter_files, read |-> <<>>,
        wrote |-> {}, failed |-> FALSE]]
  /\ worker' = IF i = "worker" THEN [worker EXCEPT !.at = "ingesting"] ELSE worker
  /\ UNCHANGED <<upstream, release, saved, promoted, documents, finder>>

\* Every file is passed over: the ingest exits 0 without a row, and the commit
\* is recorded as one that was ingested.
NothingToIngest ==
  /\ worker.at = "copying" /\ worker.todo = {} /\ iter_files = {}
  /\ worker' = [worker EXCEPT !.at = "saving",
                               !.mem = [last_good |-> worker.sha, version |-> worker.version]]
  /\ UNCHANGED <<upstream, release, saved, promoted, index, finder>>

\* What a read of the file that goes on where this one stands still gives.
Unread(i, f) == SubSeq(promoted[f], Len(ingest[i].read) + 1, Len(promoted[f]))

\* read_text reads until there is no more, and the file may change meanwhile.
ReadOn(i) ==
  /\ ingest[i].open /\ ingest[i].todo # {}
  /\ LET f == Min(ingest[i].todo)
     IN  /\ Unread(i, f) # <<>>
         /\ ingest' = [ingest EXCEPT ![i] =
              [open |-> TRUE, stamp |-> @.stamp, todo |-> @.todo, read |-> @.read \o Unread(i, f),
               wrote |-> @.wrote, failed |-> @.failed]]
  /\ UNCHANGED <<upstream, release, library, documents, clock, finder>>

\* upsert_chunk for every chunk of the next file, as it was read.  A chunk whose
\* write fails is reported and skipped; a key another ingest wrote is waited for.
IngestFile(i) ==
  /\ ingest[i].open /\ ingest[i].todo # {}
  /\ LET f == Min(ingest[i].todo)
         made == RowsOf(i, f, ingest[i].read)
     IN  /\ Unread(i, f) = <<>>
         /\ \A j \in Ingesters \ {i} : \A r \in ingest[j].wrote : \A m \in made : UniqueKey(r) # UniqueKey(m)
         /\ \E lost \in SUBSET made :
              ingest' = [ingest EXCEPT ![i] =
                [open |-> TRUE, stamp |-> @.stamp, todo |-> @.todo \ {f}, read |-> <<>>,
                 wrote |-> @.wrote \union (made \ lost), failed |-> @.failed \/ lost # {}]]
  /\ UNCHANGED <<upstream, release, library, documents, clock, finder>>

\* Faulty variant: an ingest that skipped chunks is recorded like any other.
CommitAnyway(i) ==
  /\ ingest[i].open /\ ingest[i].todo = {}
  /\ documents' = upsert_chunk(documents, ingest[i].wrote)
  /\ ingest' = [ingest EXCEPT ![i] = Closed]
  /\ worker' = IF i = "worker"
               THEN [worker EXCEPT !.at = "saving",
                                   !.mem = [last_good |-> worker.sha, version |-> worker.version]]
               ELSE worker
  /\ UNCHANGED <<upstream, release, saved, promoted, clock, finder>>

\* What could be written is committed even when some chunk failed; only an
\* ingest without errors makes the worker record the commit.
CommitIngest(i) ==
  /\ ingest[i].open /\ ingest[i].todo = {}
  /\ documents' = upsert_chunk(documents, ingest[i].wrote)
  /\ ingest' = [ingest EXCEPT ![i] = Closed]
  /\ worker' = IF i = "worker"
               THEN [worker EXCEPT !.at = "saving",
                                   !.mem = IF ingest[i].failed THEN @
                                           ELSE [last_good |-> worker.sha, version |-> worker.version]]
               ELSE worker
  /\ UNCHANGED <<upstream, release, saved, promoted, clock, finder>>

\* The ingest's process fails before its commit: nothing of it is kept, and the
\* worker holds (ingest_failed).
Abort(i) ==
  /\ ingest[i].open
  /\ ingest' = [ingest EXCEPT ![i] = Closed]
  /\ worker' = IF i = "worker" THEN [worker EXCEPT !.at = "saving"] ELSE worker
  /\ UNCHANGED <<upstream, release, saved, promoted, documents, clock, finder>>
-----------------------------------------------------------------------------
(* docs_search: the revision of the corpus and the rows are two statements.  *)

\* Faulty variant: the key of an answer leaves the revision out.
NoRevision(table) == 0

\* MAX(updated_at); an ingest's rows carry the time it began.
corpus_revision(table) == Max({r.updated_at : r \in table} \union {0})

Kept(revision) == {a \in cache : a.revision = revision}

\* Nothing is cached for the revision: the documents are asked for.
ReadRevision ==
  /\ ~search.busy /\ Kept(corpus_revision(documents)) = {}
  /\ search' = [busy |-> TRUE, revision |-> corpus_revision(documents)]
  /\ UNCHANGED <<upstream, release, library, index, cache>>

\* hybrid_retrieval and set: the answer is kept under the revision read before.
Answer ==
  /\ search.busy
  /\ cache' = {[revision |-> search.revision, found |-> {UniqueKey(r) : r \in documents}]}
  /\ search' = [busy |-> FALSE, revision |-> 0]
  /\ UNCHANGED <<upstream, release, library, index>>

\* The retrieval failed: legacy_docs_search answers and nothing is kept.
AnswerDegraded ==
  /\ search.busy
  /\ search' = [busy |-> FALSE, revision |-> 0]
  /\ UNCHANGED <<upstream, release, library, index, cache>>

\* ttl_seconds after it was kept.
Expire ==
  /\ cache # {} /\ cache' = {}
  /\ UNCHANGED <<upstream, release, library, index, search>>

LibraryNext ==
  \/ \E tree \in Trees, tag \in 1..MaxRelease : Push(tree, tag)
  \/ \E apply \in BOOLEAN : ls_remote(apply)
  \/ clone \/ Promote \/ Hold \/ save_state \/ Crash \/ NothingToIngest
  \/ \E f \in Files : OpenCopy(f) \/ WritePart(f) \/ CloseCopy(f)
  \/ \E i \in Ingesters : BeginIngest(i) \/ ReadOn(i) \/ IngestFile(i) \/ CommitIngest(i) \/ Abort(i)

SearchNext == ReadRevision \/ Answer \/ AnswerDegraded \/ Expire

SyncNext == LibraryNext \/ SearchNext

SyncSpec == SyncInit /\ [][SyncNext]_syncVars
-----------------------------------------------------------------------------
(* Properties *)

\* A line is in a row, or in a chunk that has a row and was cut for its length.
Found(f, line) ==
  \E r \in documents : /\ r.file = f /\ line \in ToSet(r.chunk.body)
                       /\ line \in ToSet(r.body) \/ Len(r.chunk.body) > BodyLimit

Searchable(n) ==
  \A f \in Passing(upstream[n]) \ Skipped :
    \A line \in Owed(upstream[n][f], Kind[f]) : Found(f, line)

\* A commit for which the worker has nothing to do (it is upstream's latest and
\* the recorded one) can be searched: of each file that passed the checks and is
\* not passed over, every line of a document and every definition of 8 characters
\* or more is in a row, or in a chunk longer than what is stored; however pushes,
\* failed chunks, lost ingests and crashes fell between the steps.
NothingToDoIsSearchable ==
  (saved.last_good = Latest /\ Latest # NoCommit) => Searchable(Latest)

\* "Last-good always remains queryable": so can the commit recorded as last-good,
\* whether or not upstream has gone on since.  The code does not keep it (README,
\* section 5).
RecordedIsSearchable ==
  saved.last_good # NoCommit => Searchable(saved.last_good)

\* The texts of a file that passed the checks of their commit, and their lines.
Checked(f) == {upstream[n][f] : n \in {m \in 1..Latest : f \in Passing(upstream[m])}}
CheckedLines(f) == UNION {ToSet(text) : text \in Checked(f)}

\* No line of a text that failed the checks is promoted or searched, although
\* every ingest reads the whole promoted tree as it then is, files being written
\* and the ends of dead workers' files included: each line is of a text of the
\* same file that a commit had and the checks passed.
OnlyCheckedIsSearched ==
  \A f \in Files :
    LET lines == CheckedLines(f)
    IN  /\ promoted[f] = Absent \/ ToSet(promoted[f]) \subseteq lines
        /\ \A r \in documents : r.file = f => ToSet(r.body) \subseteq lines

\* "Only QA-passing, allowlisted files reach retrieval_documents": every row was
\* cut from a whole text that passed, not from the part of one.  The code does not
\* keep it (README, section 5).
WholeIsSearched ==
  \A r \in documents : \E text \in Checked(r.file), g \in BOOLEAN :
    r.chunk \in chunk_file(text, Kind[r.file], g)

\* An answer the cache gives for the present revision lacks only rows of an
\* ingest that began before the newest one the answer has seen and committed
\* after it (MAX(updated_at) does not move then): with one ingest at a time a
\* cached answer is never stale.
CachedLacksOnlyOverlapped ==
  \A a \in Kept(corpus_revision(documents)) : \A r \in documents :
    UniqueKey(r) \in a.found \/ r.updated_at < a.revision

\* "Invalidates when the corpus revision changes": an answer the cache gives
\* lacks no row of the library.  The code does not keep it (README, section 5).
CachedIsCurrent ==
  \A a \in Kept(corpus_revision(documents)) : \A r \in documents : UniqueKey(r) \in a.found
=============================================================================

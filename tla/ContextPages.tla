---------------------------- MODULE ContextPages ----------------------------
(***************************************************************************)
(* How much of a long history a client is shown at once: the profile of    *)
(* its model limits the packet, and a page of the chronology ends where    *)
(* the packet is full (scripts/agentcore_memory/recovery.py and            *)
(* retrieve_chronology_page of server.py).  Rows are records               *)
(* [at, trust, tokens, bare]: their place in the chronology, their trust   *)
(* class, and their size with and without payload.                         *)
(***************************************************************************)
EXTENDS Integers, FiniteSets, SequencesExt, FiniteSetsExt

\* The elements of S by their keys, the smallest first (ORDER BY, and sorted).
InOrder(S, key) ==
  [i \in 1..Cardinality(S) |-> CHOOSE e \in S : Cardinality({d \in S : key[d] < key[e]}) = i - 1]

(***************************** the profile *********************************)
ContextProfile == [hard : Int, ceiling : Int, output : Int, schema : Int, result : Int,
                   safety : Int, soft : Int, compact : Int, page : Int]

Reserved(p) == p.output + p.schema + p.result + p.safety
UsableHardLimit(p) == p.hard - Reserved(p)
ActivePacketLimit(p) == Min({p.ceiling, UsableHardLimit(p)})

ValidProfile(p) ==
  /\ p.hard > 0 /\ p.ceiling > 0 /\ p.page > 0
  /\ \A r \in {p.output, p.schema, p.result, p.safety} : r >= 0
  /\ p.ceiling <= UsableHardLimit(p)
  /\ 0 < p.soft /\ p.soft < p.compact /\ p.compact <= p.ceiling

\* A row becomes a profile if its numbers fit together; else the call fails.
FromMapping(found) == {p \in found : ValidProfile(p)}

\* The profiles of a database without the table of profiles: one per old budget.
LegacyLimits == [small |-> 512, default |-> 4096, large |-> 16000]
LegacyProfile(budget) ==
  LET active == LegacyLimits[budget] IN
  [hard |-> active + 1024, ceiling |-> active, output |-> 512, schema |-> 128, result |-> 256,
   safety |-> 128, soft |-> Max({1, (active * 75) \div 100}),
   compact |-> Max({2, (active * 95) \div 100}), page |-> 50]

\* The profile a client asks for, by its own name or an alias; a budget that is
\* not known is the standard one, a profile that is not known an error.  (A set:
\* empty for an error.)
ResolveContextProfile(asked, available, profiles, aliases) ==
  LET name == IF asked.name \in DOMAIN aliases THEN aliases[asked.name] ELSE asked.name
      budget == IF asked.name \in DOMAIN LegacyLimits THEN asked.name ELSE "default"
      found == CASE ~available -> {LegacyProfile(budget)}
                 [] available /\ name \in DOMAIN profiles -> {profiles[name]}
                 [] OTHER -> {profiles[n] : n \in {m \in DOMAIN profiles :
                               m = "standard-context" /\ asked.as # "context_profile"}}
  IN FromMapping(found)

\* A client asks for a page size or leaves it to the server (Unsaid).
Unsaid == 0
PageSizeFor(requested, p, usual) ==
  LET wanted == IF requested = Unsaid THEN Min({usual, p.page}) ELSE requested
  IN Max({1, Min({wanted, p.page})})

SummaryPageSize(requested) ==
  Max({1, Min({IF requested = Unsaid THEN 100 ELSE requested, 1000})})

(****************************** the packet *********************************)
Tokens(rows) == FoldLeft(LAMBDA used, row : used + row.tokens, 0, rows)

\* The longest beginning of the rows that the packet has room for.
Fitting(rows, limit) ==
  Max({n \in 0..Len(rows) : \A m \in 1..n : Tokens(SubSeq(rows, 1, m)) <= limit})

AssembleActivePacket(rows, p) == SubSeq(rows, 1, Fitting(rows, ActivePacketLimit(p)))

\* A page is a packet, but for its first row: one that is too large by itself
\* comes alone, without its payload; if even that is too large, the call fails.
PacketFails(rows, p) ==
  /\ rows # <<>> /\ AssembleActivePacket(rows, p) = <<>>
  /\ Head(rows).bare > ActivePacketLimit(p)

PageItems(rows, p) ==
  IF rows # <<>> /\ AssembleActivePacket(rows, p) = <<>>
    THEN <<[Head(rows) EXCEPT !.tokens = Head(rows).bare]>>
    ELSE AssembleActivePacket(rows, p)

(************************* the reference pagination ************************)
Excluded == {"quarantined", "rejected"}
Chronological(rows) == InOrder(rows, [r \in rows |-> r.at])
NewestFirst(mode) == mode = "current_state"

\* What enrich_event adds is derived from the row: none of it has a state here.
\* cursor is the window and the row to go on from, or <<>> for the first page.
PaginateChronology(rows, mode, pageSize, cursor, includeQuarantined) ==
  LET visible == {r \in rows : includeQuarantined \/ r.trust \notin Excluded}
      inWindow == {r \in visible : cursor # <<>> => r.at <= cursor[1]}
      bounded == {r \in inWindow : cursor # <<>> =>
                    IF NewestFirst(mode) THEN r.at < cursor[2] ELSE r.at > cursor[2]}
      ordered == Chronological(bounded)
      size == Min({pageSize, Len(ordered)})
  IN IF NewestFirst(mode) THEN SubSeq(ordered, Len(ordered) - size + 1, Len(ordered))
     ELSE SubSeq(ordered, 1, size)

=============================================================================

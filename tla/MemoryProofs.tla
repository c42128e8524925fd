---------------------------- MODULE MemoryProofs ----------------------------
(***************************************************************************)
(* Theorems about EvidenceJournal, for any requests, servers, readers and  *)
(* sizes of page, and about KnowledgeSync, for any trees of files, any     *)
(* ingests and searches.  What both need of sets of numbers comes first;   *)
(* it is argued by minimal counterexamples, as there is no induction.      *)
(***************************************************************************)
EXTENDS EvidenceJournal, KnowledgeSync, FiniteSetTheorems, WellFoundedInduction,
        NaturalsInduction, TLAPS

(* Sets of numbers, and what is sorted by them. *)
Less == {p \in Nat \X Nat : p[1] < p[2]}

LEMMA LessWellFounded == IsWellFoundedOn(Less, Nat)
<1>1. OpToRel(<, Nat) = Less
  BY DEF OpToRel, Less
<1> QED BY <1>1, NatLessThanWellFounded

LEMMA SmallestNat ==
  ASSUME NEW S, S \subseteq Nat, S # {}
  PROVE  \E x \in S : \A y \in S : x <= y
<1>1. \E x \in S : \A y \in S : ~(<<y, x>> \in Less)
  BY LessWellFounded, WFMin
<1>2. PICK x \in S : \A y \in S : ~(<<y, x>> \in Less)
  BY <1>1
<1>3. \A n, m \in Nat : n < m => <<n, m>> \in Less
  BY DEF Less
<1>4. ASSUME NEW y \in S PROVE x <= y
  <2>1. ~(y < x)
    BY <1>2, <1>3
  <2> QED BY <2>1
<1> QED BY <1>4

LEMMA MinOfNat ==
  ASSUME NEW S, S \subseteq Nat, S # {}
  PROVE  Min(S) \in S /\ \A x \in S : Min(S) <= x
BY SmallestNat DEF Min

LEMMA MaxOfNat ==
  ASSUME NEW S, S \subseteq Nat, S # {}, NEW bound \in Nat, \A x \in S : x <= bound
  PROVE  Max(S) \in S /\ \A x \in S : x <= Max(S)
<1> DEFINE T == {bound - x : x \in S}
<1>1. T \subseteq Nat /\ T # {}
  <2>1. ASSUME NEW x \in S PROVE bound - x \in Nat
    <3>1. x \in Nat /\ x <= bound
      OBVIOUS
    <3> QED BY <3>1
  <2> QED BY <2>1
<1>2. PICK y \in T : \A z \in T : y <= z
  BY <1>1, SmallestNat
<1>3. PICK x \in S : y = bound - x
  BY <1>2
<1>4. ASSUME NEW z \in S PROVE x >= z
  <2>1. bound - x <= bound - z
    BY <1>2, <1>3
  <2> QED BY <2>1
<1> QED BY <1>4 DEF Max

LEMMA MinOfTwo ==
  ASSUME NEW a \in Int, NEW b \in Int
  PROVE  Min({a, b}) = IF a <= b THEN a ELSE b
BY DEF Min

LEMMA MaxOfTwo ==
  ASSUME NEW a \in Int, NEW b \in Int
  PROVE  Max({a, b}) = IF a >= b THEN a ELSE b
BY DEF Max

\* What is sorted by keys that differ are all the elements, each once, and
\* their keys grow.
LEMMA OrderIs ==
  ASSUME NEW S, IsFiniteSet(S), NEW key \in [S -> Int], \A d, e \in S : key[d] = key[e] => d = e
  PROVE  LET o == InOrder(S, key) n == Cardinality(S) IN
         /\ n \in Nat /\ o \in [1..n -> S]
         /\ \A e \in S : \E i \in 1..n : o[i] = e
         /\ \A i, j \in 1..n : i < j <=> key[o[i]] < key[o[j]]
<1> DEFINE n == Cardinality(S)
           below(e) == {d \in S : key[d] < key[e]}
           rank == [e \in S |-> Cardinality(below(e))]
           o == InOrder(S, key)
<1>1. n \in Nat
  BY FS_CardinalityType
<1>2. ASSUME NEW e \in S PROVE IsFiniteSet(below(e)) /\ rank[e] \in 0..(n - 1)
  <2>1. below(e) \in SUBSET S /\ below(e) # S
    OBVIOUS
  <2>2. IsFiniteSet(below(e)) /\ Cardinality(below(e)) <= n /\ Cardinality(below(e)) # n
    BY <2>1, FS_Subset
  <2>3. Cardinality(below(e)) \in Nat
    BY <2>2, FS_CardinalityType
  <2> QED BY <1>1, <2>2, <2>3
<1>3. ASSUME NEW d \in S, NEW e \in S, key[d] < key[e] PROVE rank[d] < rank[e]
  <2>1. below(d) \in SUBSET below(e) /\ d \in below(e) /\ d \notin below(d)
    BY <1>3
  <2>2. Cardinality(below(d)) <= Cardinality(below(e)) /\ Cardinality(below(d)) # Cardinality(below(e))
    BY <1>2, <2>1, FS_Subset
  <2>3. rank[d] = Cardinality(below(d)) /\ rank[e] = Cardinality(below(e))
    OBVIOUS
  <2> HIDE DEF rank, below, n
  <2>4. rank[d] \in Int /\ rank[e] \in Int
    BY <1>1, <1>2
  <2> QED BY <2>2, <2>3, <2>4
<1> HIDE DEF below
<1>4. ASSUME NEW d \in S, NEW e \in S, rank[d] = rank[e] PROVE d = e
  <2>1. rank[d] \in Int /\ ~(key[d] < key[e]) /\ ~(key[e] < key[d])
    BY <1>2, <1>3, <1>4
  <2> QED BY <2>1
<1>5. rank \in Injection(S, 0..(n - 1))
  BY <1>2, <1>4 DEF Injection, IsInjective
<1>6. rank \in Surjection(S, 0..(n - 1))
  <2>1. IsFiniteSet(0..(n - 1)) /\ Cardinality(0..(n - 1)) = n
    BY <1>1, FS_Interval
  <2> QED BY <1>5, <2>1, FS_Injection
<1>7. ASSUME NEW i \in 1..n PROVE o[i] \in S /\ rank[o[i]] = i - 1
  <2>1. i - 1 \in 0..(n - 1)
    BY <1>1
  <2>2. \E e \in S : rank[e] = i - 1
    BY <1>6, <2>1 DEF Surjection
  <2>3. o[i] = CHOOSE e \in S : Cardinality({d \in S : key[d] < key[e]}) = i - 1
    BY DEF InOrder
  <2>4. \A e \in S : rank[e] = Cardinality({d \in S : key[d] < key[e]})
    BY DEF below
  <2> HIDE DEF rank
  <2> QED BY <2>2, <2>3, <2>4
<1> HIDE DEF rank
<1>8. DOMAIN o = 1..n /\ o \in [1..n -> S]
  BY <1>7 DEF InOrder
<1> HIDE DEF o
<1>9. ASSUME NEW e \in S PROVE \E i \in 1..n : o[i] = e
  <2>1. rank[e] + 1 \in 1..n
    BY <1>1, <1>2
  <2>2. rank[o[rank[e] + 1]] = rank[e]
    BY <1>2, <1>7, <2>1
  <2> QED BY <1>4, <1>7, <2>1, <2>2
<1>10. ASSUME NEW i \in 1..n, NEW j \in 1..n PROVE i < j <=> key[o[i]] < key[o[j]]
  <2>1. rank[o[i]] = i - 1 /\ rank[o[j]] = j - 1 /\ o[i] \in S /\ o[j] \in S
    BY <1>7
  <2>2. key[o[i]] < key[o[j]] => i < j
    BY <1>1, <1>3, <2>1
  <2>3. key[o[j]] < key[o[i]] => j < i
    BY <1>1, <1>3, <2>1
  <2>4. key[o[i]] = key[o[j]] => i = j
    BY <1>1, <2>1
  <2>5. key[o[i]] \in Int /\ key[o[j]] \in Int
    BY <2>1
  <2> QED BY <1>1, <2>2, <2>3, <2>4, <2>5
<1> QED BY <1>1, <1>8, <1>9, <1>10 DEF o

(***************************************************************************)
(* EvidenceJournal                                                         *)
(***************************************************************************)

(******************************** calls ************************************)
Places == {"idle", "propose", "lock", "check", "open", "write", "insert", "commit", "recall"}

JournalType ==
  /\ pc \in [Servers -> Places]
  /\ job \in [Servers -> Requests \cup {NoRequest}]
  /\ \A s \in Servers : pc[s] # "idle" => job[s] \in Requests
  /\ created \in [Servers -> BOOLEAN]
  /\ \A e \in events : e.request \in Requests
  /\ rows \subseteq Texts
  /\ file \in [Texts -> {"absent", "partial", "full"}]

LEMMA JobTexts ==
  ASSUME JournalType, NEW s \in Servers, pc[s] # "idle"
  PROVE  Text(s) \in Texts \cup {NoText}
BY DEF JournalType, Text, Texts

\* A step of server s alone.
OnlyServer(s) ==
  /\ \A o \in Servers \ {s} : pc'[o] = pc[o] /\ job'[o] = job[o]

\* A step of the reader c.
ReaderStep(c) ==
  \/ \E mode \in Modes : FirstPage(c, mode)
  \/ ExpandSummary(c) \/ CountRest(c) \/ ReadItems(c) \/ CloseReplay(c)

LEMMA JournalTypeStep == JournalType /\ [Next]_vars => JournalType'
<1> SUFFICES ASSUME JournalType, [Next]_vars PROVE JournalType'
  OBVIOUS
<1>1. CASE UNCHANGED vars
  BY <1>1 DEF vars, call, tables, JournalType
<1>2. ASSUME NEW s \in Servers, NEW r \in Requests, Begin(s, r) PROVE JournalType'
  BY <1>2 DEF Begin, Goto, tables, JournalType, Places
<1>3. ASSUME NEW s \in Servers, LockKey(s) \/ UseFile(s) \/ SeeNoFile(s) \/ InsertRows(s)
      PROVE  JournalType'
  BY <1>3 DEF LockKey, UseFile, SeeNoFile, InsertRows, Goto, tables, JournalType, Places
<1>4. ASSUME NEW s \in Servers, Replay(s) \/ Project(s) \/ Kill(s) PROVE JournalType'
  BY <1>4 DEF Replay, Project, Kill, Return, Goto, tables, JournalType, Places
<1>5. ASSUME NEW s \in Servers, OpenFile(s) PROVE JournalType'
  BY <1>5, JobTexts DEF OpenFile, Goto, tables, JournalType, Places
<1>6. ASSUME NEW s \in Servers, FinishFile(s) PROVE JournalType'
  BY <1>6, JobTexts DEF FinishFile, Goto, tables, JournalType, Places
<1>7. ASSUME NEW s \in Servers, Commit(s) \/ CommitUnseen(s) PROVE JournalType'
  <2>1. job[s] \in Requests /\ ({Text(s)} \ {NoText}) \subseteq Texts
    BY <1>7, JobTexts DEF Commit, CommitUnseen, JournalType
  <2>2. (\A e \in events' : e.request \in Requests) /\ rows' \subseteq Texts
    BY <1>7, <2>1 DEF Commit, CommitUnseen, Committed, JournalType
  <2>3. CASE Commit(s)
    BY <2>2, <2>3 DEF Commit, Goto, JournalType, Places
  <2>4. CASE CommitUnseen(s)
    BY <2>2, <2>4 DEF CommitUnseen, CleanUp, Return, Goto, JournalType, Places
  <2> QED BY <1>7, <2>3, <2>4
<1>8. ASSUME NEW s \in Servers, Fail(s) PROVE JournalType'
  BY <1>8 DEF Fail, CleanUp, Return, Goto, tables, JournalType, Places
<1>9. ASSUME NEW s \in Servers, ProposeFact(s) PROVE JournalType'
  BY <1>9 DEF ProposeFact, Goto, JournalType, Places
<1>10. ASSUME NEW c \in Readers, ReaderStep(c) PROVE JournalType'
  BY <1>10 DEF ReaderStep, FirstPage, ExpandSummary, CountRest, ReadItems, CloseReplay, ReadTo, call, tables, JournalType
<1> QED BY <1>1, <1>2, <1>3, <1>4, <1>5, <1>6, <1>7, <1>8, <1>9, <1>10 DEF Next, ReaderStep, BuildHandoff, Modes

-----------------------------------------------------------------------------
(* The ledger. *)
Active(s) == pc[s] # "idle"
Pending(s) == pc[s] \notin {"idle", "recall"}

\* No two events have the same time of acceptance, or the same source and key.
Ledger ==
  /\ IsFiniteSet(events)
  /\ \A e \in events : e.at \in 1..time
  /\ \A d, e \in events : d.at = e.at \/ Same(d.request, e.request) => d = e

\* Calls under way have times of their own, and hold what they are about to write.
CallsApart ==
  /\ time \in Nat /\ at \in [Servers -> Nat]
  /\ \A s \in Servers : Active(s) => at[s] \in 1..time
  /\ \A s, o \in Servers : Active(s) /\ Active(o) /\ at[s] = at[o] => s = o
  /\ \A s \in Servers : Pending(s) => \A e \in events : e.at # at[s]
  /\ \A s, o \in Servers : Holding(s) /\ Holding(o) /\ Same(job[s], job[o]) => s = o
  /\ \A s \in Servers : pc[s] \in {"open", "write", "insert", "commit"} => ~Known(job[s])

LedgerInv == JournalType /\ Ledger /\ CallsApart

\* A server that goes on with its call, or ends it, and writes no event.
LEMMA GoesOn ==
  ASSUME LedgerInv, JournalType', NEW s \in Servers, UNCHANGED <<time, events>>, pc[s] # "idle",
         OnlyServer(s), \A o \in Servers \ {s} : at'[o] = at[o], at' \in [Servers -> Nat],
         pc'[s] = "idle" \/ (job'[s] = job[s] /\ at'[s] = at[s] /\ pc[s] # "recall"),
         pc'[s] \in {"check", "open", "write", "insert", "commit"} =>
           pc[s] \in {"check", "open", "write", "insert", "commit"}
             \/ \A o \in Servers : Holding(o) => ~Same(job[o], job[s]),
         pc'[s] \in {"open", "write", "insert", "commit"} => ~Known(job[s])
  PROVE  LedgerInv'
<1>1. \A o \in Servers \ {s} : pc'[o] = pc[o] /\ job'[o] = job[o] /\ at'[o] = at[o]
  BY DEF OnlyServer
<1>2. Ledger'
  BY DEF LedgerInv, Ledger, Same
<1>3. \A o, q \in Servers : Holding(o)' /\ Holding(q)' /\ Same(job'[o], job'[q]) => o = q
  <2>1. \A o \in Servers : Holding(o)' => job'[o] = job[o]
    BY <1>1 DEF Holding
  <2>2. \A o \in Servers \ {s} : Holding(o)' => Holding(o)
    BY <1>1 DEF Holding
  <2>3. Holding(s)' => Holding(s) \/ \A o \in Servers : Holding(o) => ~Same(job[o], job[s])
    BY DEF Holding
  <2>4. \A o, q : Same(o, q) => Same(q, o)
    BY DEF Same
  <2> QED BY <2>1, <2>2, <2>3, <2>4 DEF LedgerInv, CallsApart
<1>4. \A o \in Servers : pc'[o] \in {"open", "write", "insert", "commit"} => ~Known(job[o])' 
  BY <1>1 DEF LedgerInv, CallsApart, Known, Same
<1>5. CallsApart'
  <2>1. \A o \in Servers : pc'[o] # "idle" => pc[o] # "idle" /\ at'[o] = at[o] /\ (pc[o] = "recall" => pc'[o] = "recall")
    BY <1>1
  <2>2. \A o \in Servers : (Active(o)' => Active(o) /\ at'[o] = at[o]) /\ (Pending(o)' => Pending(o) /\ at'[o] = at[o])
    BY <2>1 DEF Active, Pending
  <2> QED BY <1>3, <1>4, <2>2 DEF LedgerInv, CallsApart
<1> QED BY <1>2, <1>5 DEF LedgerInv

LEMMA LedgerBegin ==
  ASSUME LedgerInv, JournalType', NEW s \in Servers, NEW r \in Requests, Begin(s, r)
  PROVE  LedgerInv'
<1>1. /\ time' = time + 1 /\ time \in Nat /\ events' = events /\ at'[s] = time + 1 /\ pc[s] = "idle"
      /\ pc'[s] \in {"propose", "lock"} /\ at' \in [Servers -> Nat]
      /\ \A o \in Servers \ {s} : pc'[o] = pc[o] /\ job'[o] = job[o] /\ at'[o] = at[o]
  BY DEF Begin, Goto, tables, LedgerInv, JournalType, CallsApart
<1>2. Ledger'
  BY <1>1 DEF LedgerInv, Ledger, Same
<1>3. CallsApart'
  <2>1. \A o \in Servers : Active(o)' => at'[o] \in 1..time' /\ (o # s => Active(o) /\ at[o] \in 1..time)
    BY <1>1 DEF LedgerInv, CallsApart, Active
  <2>2. \A o, q \in Servers : Active(o)' /\ Active(q)' /\ at'[o] = at'[q] => o = q
    BY <1>1, <2>1 DEF LedgerInv, CallsApart
  <2>3. \A o \in Servers : Pending(o)' => \A e \in events' : e.at # at'[o]
    BY <1>1 DEF LedgerInv, CallsApart, Ledger, Pending
  <2>4. \A o \in Servers : Holding(o)' => o # s /\ Holding(o) /\ job'[o] = job[o]
    BY <1>1 DEF Holding
  <2>5. \A o \in Servers : pc'[o] \in {"open", "write", "insert", "commit"} => ~Known(job[o])'
    BY <1>1 DEF LedgerInv, CallsApart, Known, Same
  <2> QED BY <1>1, <2>1, <2>2, <2>3, <2>4, <2>5 DEF LedgerInv, CallsApart
<1> QED BY <1>2, <1>3 DEF LedgerInv

LEMMA LedgerCommit ==
  ASSUME LedgerInv, JournalType', NEW s \in Servers, Commit(s) \/ CommitUnseen(s)
  PROVE  LedgerInv'
<1> DEFINE new == [request |-> job[s], at |-> at[s]]
<1>1. /\ pc[s] = "commit" /\ time' = time /\ events' = events \cup {new} /\ pc'[s] \in {"recall", "idle"}
      /\ \A o \in Servers \ {s} : pc'[o] = pc[o] /\ job'[o] = job[o] /\ at'[o] = at[o]
      /\ at' \in [Servers -> Nat] /\ (pc'[s] = "recall" => at'[s] = at[s])
  <2>1. CASE Commit(s)
    BY <2>1 DEF Commit, Committed, Goto, LedgerInv, JournalType, CallsApart
  <2>2. CASE CommitUnseen(s)
    BY <2>2 DEF CommitUnseen, Committed, Return, Goto, LedgerInv, JournalType, CallsApart
  <2> QED BY <2>1, <2>2
<1>2. /\ ~Known(job[s]) /\ at[s] \in 1..time /\ (\A e \in events : e.at # at[s])
      /\ \A o \in Servers : Holding(o) /\ Same(job[s], job[o]) => s = o
  BY <1>1 DEF LedgerInv, CallsApart, Active, Pending, Holding
<1>3. new.request = job[s] /\ new.at = at[s]
  OBVIOUS
<1> HIDE DEF new
<1>4. \A d, e : Same(d, e) => Same(e, d)
  BY DEF Same
<1>5. Ledger'
  <2>1. IsFiniteSet(events')
    BY <1>1, FS_AddElement DEF LedgerInv, Ledger
  <2>2. \A e \in events : ~Same(e.request, job[s]) /\ e.at # at[s]
    BY <1>2 DEF Known
  <2>3. \A d, e \in events' : d.at = e.at \/ Same(d.request, e.request) => d = e
    BY <1>1, <1>3, <1>4, <2>2 DEF LedgerInv, Ledger
  <2>4. \A e \in events' : e.at \in 1..time'
    BY <1>1, <1>2, <1>3 DEF LedgerInv, Ledger
  <2> QED BY <2>1, <2>3, <2>4 DEF Ledger, Same
<1>6. CallsApart'
  <2>1. \A o \in Servers : (Active(o)' => Active(o) /\ at'[o] = at[o]) /\ (Pending(o)' => Pending(o) /\ o # s)
    BY <1>1 DEF Active, Pending
  <2>2. \A o \in Servers : Pending(o)' => \A e \in events' : e.at # at'[o]
    <3>1. ASSUME NEW o \in Servers, Pending(o)' PROVE at'[o] # at[s] /\ \A e \in events : e.at # at'[o]
      BY <1>1, <2>1, <3>1 DEF LedgerInv, CallsApart, Active, Pending
    <3> QED BY <1>1, <1>3, <3>1
  <2>3. \A o \in Servers : Holding(o)' => o # s /\ Holding(o) /\ job'[o] = job[o]
    BY <1>1 DEF Holding
  <2>4. \A o \in Servers : pc'[o] \in {"open", "write", "insert", "commit"} => ~Known(job[o])'
    <3>1. ASSUME NEW o \in Servers, pc'[o] \in {"open", "write", "insert", "commit"} PROVE \A e \in events' : ~Same(e.request, job[o])
      <4>1. o # s /\ pc[o] \in {"open", "write", "insert", "commit"} /\ Holding(o) /\ ~Known(job[o])
        BY <1>1, <3>1 DEF LedgerInv, CallsApart, Holding
      <4> QED BY <1>1, <1>2, <1>3, <4>1 DEF Known
    <3>2. \A o \in Servers : pc'[o] \in {"open", "write", "insert", "commit"} => job'[o] = job[o]
      BY <1>1
    <3> QED BY <3>1, <3>2 DEF Known, Same
  <2> QED BY <1>1, <2>1, <2>2, <2>3, <2>4 DEF LedgerInv, CallsApart
<1> QED BY <1>5, <1>6 DEF LedgerInv

LEMMA LedgerStep == LedgerInv /\ JournalType' /\ [Next]_vars => LedgerInv'
<1> SUFFICES ASSUME LedgerInv, JournalType', [Next]_vars PROVE LedgerInv'
  OBVIOUS
<1>1. CASE UNCHANGED <<time, call, tables>>
  BY <1>1 DEF call, tables, LedgerInv, Ledger, CallsApart, Active, Pending, Holding, Known, Same
<1>2. ASSUME NEW s \in Servers, LockKey(s) PROVE LedgerInv'
  BY <1>2, GoesOn DEF LockKey, Goto, tables, OnlyServer, LedgerInv, JournalType, CallsApart
<1>3. ASSUME NEW s \in Servers, UseFile(s) \/ SeeNoFile(s) \/ OpenFile(s) \/ FinishFile(s) \/ InsertRows(s)
      PROVE  LedgerInv'
  BY <1>3, GoesOn DEF UseFile, SeeNoFile, OpenFile, FinishFile, InsertRows, Goto, tables, OnlyServer, LedgerInv, JournalType, CallsApart
<1>4. ASSUME NEW s \in Servers, Replay(s) \/ Project(s) \/ Kill(s) \/ Fail(s) PROVE LedgerInv'
  BY <1>4, GoesOn DEF Replay, Project, Kill, Fail, Holding, Return, Goto, tables, OnlyServer, LedgerInv, JournalType, CallsApart
<1>5. ASSUME NEW s \in Servers, ProposeFact(s) PROVE LedgerInv'
  BY <1>5, GoesOn DEF ProposeFact, Goto, OnlyServer, LedgerInv, JournalType, CallsApart
<1>6. ASSUME NEW c \in Readers, ReaderStep(c) PROVE LedgerInv'
  BY <1>1, <1>6 DEF ReaderStep, FirstPage, ExpandSummary, CountRest, ReadItems, CloseReplay, ReadTo
<1>7. CASE UNCHANGED vars
  BY <1>1, <1>7 DEF vars, call, tables
<1> QED BY <1>2, <1>3, <1>4, <1>5, <1>6, <1>7, LedgerBegin, LedgerCommit DEF Next, ReaderStep, BuildHandoff, Modes

-----------------------------------------------------------------------------
(* What a reader has. *)
ReaderType == [phase : {"idle", "count", "items", "reading", "done"}, mode : Modes \cup {Summary},
               all : BOOLEAN, window : Nat, cursor : Nat, before : SUBSET events,
               counted : SUBSET events, got : SUBSET events, late : SUBSET events, twice : BOOLEAN]

\* An event is at the cursor of the reader or was passed by it.
Past(w, e) == IF NewestFirst(w.mode) THEN Key(w, e) >= w.cursor ELSE Key(w, e) <= w.cursor

ReaderHolds(w) ==
  /\ w \in ReaderType /\ ~w.twice
  /\ w.mode # Summary => \A e \in w.before : InScope(w, e) /\ e.at <= w.window
  /\ w.cursor = 0 => w.got = {}
  /\ w.cursor # 0 => (\A e \in w.got : Past(w, e)) /\ (\A e \in w.before : Past(w, e) => e \in w.got)
  /\ w.phase \in {"idle", "count"} => w.cursor = 0
  /\ w.phase = "reading" => w.cursor # 0
  /\ w.phase \in {"items", "reading"} /\ w.cursor # 0 /\ w.mode # Summary => w.window # 0
  /\ w.phase = "items" =>
       /\ w.counted \subseteq Rest(w)
       /\ \A e \in w.before : e \in w.counted \/ (w.cursor # 0 /\ Past(w, e))
  /\ w.phase = "done" => Cardinality(w.before \ w.got) <= Cardinality(w.late)

LEMMA KeysDiffer ==
  ASSUME LedgerInv, NEW w
  PROVE  /\ \A e \in events : Key(w, e) \in Nat \ {0} /\ OrderBy(w, e) \in Int
         /\ \A d, e \in events : OrderBy(w, d) = OrderBy(w, e) => d = e
<1>1. \A e \in events : e.request \in Requests /\ e.at \in Nat \ {0}
  BY DEF LedgerInv, JournalType, Ledger, CallsApart
<1>2. \A e \in events : Key(w, e) \in Nat \ {0}
  BY <1>1, IdsAssumption DEF Key
<1>3. \A d, e \in events : Key(w, d) = Key(w, e) => d = e
  <2>1. \A d, e \in events : d.at = e.at => d = e
    BY DEF LedgerInv, Ledger
  <2>2. \A d, e \in events : d.request = e.request => d = e
    BY DEF LedgerInv, Ledger, Same
  <2> QED BY <1>1, <2>1, <2>2, IdsAssumption DEF Key
<1> QED BY <1>2, <1>3 DEF OrderBy

LEMMA RestIs ==
  ASSUME LedgerInv, NEW w, ReaderHolds(w)
  PROVE  /\ Rest(w) \subseteq events /\ IsFiniteSet(Rest(w))
         /\ \A e \in Rest(w) : w.cursor # 0 => ~Past(w, e)
         /\ \A e \in w.before : e \in Rest(w) \/ (w.cursor # 0 /\ Past(w, e))
<1>1. w.before \in SUBSET events /\ w.cursor \in Nat
  BY DEF ReaderHolds, ReaderType
<1>2. Rest(w) \subseteq events
  BY <1>1 DEF Rest, Visible
<1>3. IsFiniteSet(Rest(w))
  BY <1>2, FS_Subset DEF LedgerInv, Ledger
<1>4. \A e \in events : Key(w, e) \in Nat \ {0}
  BY KeysDiffer
<1>5. ASSUME NEW e \in Rest(w), w.cursor # 0 PROVE ~Past(w, e)
  <2>1. Key(w, e) \in Nat
    BY <1>2, <1>4
  <2>2. CASE w.mode = Summary
    BY <1>1, <2>1, <2>2 DEF Rest, Past, NewestFirst, Summary
  <2>3. CASE w.mode # Summary
    BY <1>1, <1>5, <2>1, <2>3 DEF Rest, Past, Key
  <2> QED BY <2>2, <2>3
<1>6. ASSUME NEW e \in w.before, ~(w.cursor # 0 /\ Past(w, e)) PROVE e \in Rest(w)
  <2>1. e \in events /\ Key(w, e) \in Nat \ {0}
    BY <1>1, <1>4
  <2>2. CASE w.mode = Summary
    BY <1>1, <1>6, <2>1, <2>2 DEF Rest, Past, NewestFirst, Summary
  <2>3. CASE w.mode # Summary
    BY <1>1, <1>6, <2>1, <2>3 DEF Rest, Past, Key, ReaderHolds, Visible
  <2> QED BY <2>2, <2>3
<1> QED BY <1>2, <1>3, <1>5, <1>6

\* A page is a packet: a beginning of the rows, and not none of them if there are any.
Begins(page, m, rs) ==
  /\ DOMAIN page = 1..m /\ Len(page) = m
  /\ \A i \in 1..m : page[i].event = rs[i].event
  /\ m = 0 <=> page = <<>>

LEMMA PacketIsBeginning ==
  ASSUME NEW k \in Nat, NEW rs, DOMAIN rs = 1..k, rs = [i \in 1..k |-> rs[i]], NEW p,
         \A i \in 1..k : \E e : rs[i] = Row(e)
  PROVE  \E m \in 0..k : Begins(PageItems(rs, p), m, rs) /\ (k > 0 => m > 0)
<1> DEFINE T == {rs[i] : i \in 1..k}
           fit == Fitting(rs, ActivePacketLimit(p))
           packet == AssembleActivePacket(rs, p)
<1>1. rs \in Seq(T) /\ Len(rs) = k
  OBVIOUS
<1>2. fit \in 0..k
  <2> DEFINE fits == {n \in 0..Len(rs) : \A m \in 1..n : Tokens(SubSeq(rs, 1, m)) <= ActivePacketLimit(p)}
  <2>1. fits \subseteq Nat /\ 0 \in fits /\ \A n \in fits : n <= k
    BY <1>1
  <2>2. Max(fits) \in fits
    BY <2>1, MaxOfNat
  <2> QED BY <1>1, <2>2 DEF Fitting
<1> HIDE DEF fit
<1>3. packet = SubSeq(rs, 1, fit)
  BY DEF AssembleActivePacket, fit
<1>4. DOMAIN packet = 1..fit /\ Len(packet) = fit /\ (fit = 0 <=> packet = <<>>)
      /\ \A i \in 1..fit : packet[i] = rs[i]
  BY <1>1, <1>2, <1>3
<1> HIDE DEF packet
<1>5. CASE ~(rs # <<>> /\ packet = <<>>)
  <2>1. PageItems(rs, p) = packet
    BY <1>5 DEF PageItems, packet
  <2>2. k > 0 => fit > 0
    BY <1>1, <1>2, <1>4, <1>5
  <2>3. Begins(packet, fit, rs)
    BY <1>2, <1>4 DEF Begins
  <2> QED BY <1>2, <2>1, <2>2, <2>3
<1>6. CASE rs # <<>> /\ packet = <<>>
  <2>1. k > 0 /\ Head(rs) = rs[1] /\ 1 \in 1..k
    BY <1>1, <1>6
  <2>2. PICK e : rs[1] = Row(e)
    BY <2>1
  <2>3. PageItems(rs, p) = <<[Row(e) EXCEPT !.tokens = Row(e).bare]>>
    BY <1>6, <2>1, <2>2 DEF PageItems, packet
  <2>4. [Row(e) EXCEPT !.tokens = Row(e).bare].event = Row(e).event
    BY DEF Row
  <2> DEFINE bare == [Row(e) EXCEPT !.tokens = Row(e).bare]
  <2> HIDE DEF bare
  <2>5. PageItems(rs, p) = <<bare>> /\ bare.event = rs[1].event
    BY <2>2, <2>3, <2>4 DEF bare
  <2>6. DOMAIN PageItems(rs, p) = 1..1 /\ Len(PageItems(rs, p)) = 1 /\ PageItems(rs, p) # <<>>
        /\ PageItems(rs, p)[1].event = rs[1].event
    BY <2>5
  <2>7. Begins(PageItems(rs, p), 1, rs)
    BY <2>6 DEF Begins
  <2> QED BY <2>1, <2>7
<1> QED BY <1>5, <1>6

LEMMA ProfilePages ==
  ASSUME NEW p \in ProfilesInUse
  PROVE  p.page \in Nat \ {0}
<1>1. PICK asked \in Asked, available \in Migrated : p \in ResolveContextProfile(asked, available, Profiles, Aliases)
  BY DEF ProfilesInUse
<1>2. ValidProfile(p) /\ ((\E name \in DOMAIN Profiles : p = Profiles[name]) \/ \E b : p = LegacyProfile(b))
  BY <1>1, ProfileAssumption DEF ResolveContextProfile, FromMapping
<1>3. CASE \E name \in DOMAIN Profiles : p = Profiles[name]
  <2>1. p \in ContextProfile
    BY <1>3, ProfileAssumption
  <2> QED BY <1>2, <2>1 DEF ContextProfile, ValidProfile
<1>4. CASE \E b : p = LegacyProfile(b)
  <2>1. p.page = 50
    BY <1>4 DEF LegacyProfile
  <2> QED BY <2>1
<1> QED BY <1>2, <1>3, <1>4

LEMMA PageSizes ==
  ASSUME NEW requested \in Nat, NEW p \in ProfilesInUse
  PROVE  SummaryPageSize(requested) \in Nat \ {0} /\ PageSizeFor(requested, p, Usual) \in Nat \ {0}
<1>1. p.page \in Nat \ {0} /\ Usual \in Nat \ {0}
  BY ProfilePages, ProfileAssumption
<1>2. \A a, b \in Int : Min({a, b}) \in {a, b}
  BY MinOfTwo
<1>3. \A a, b \in Int : Max({a, b}) \in {a, b} /\ Max({a, b}) >= a
  BY MaxOfTwo
<1>4. SummaryPageSize(requested) \in Nat \ {0}
  <2> DEFINE a == IF requested = Unsaid THEN 100 ELSE requested
             b == Min({a, 1000})
  <2>1. a \in Int
    OBVIOUS
  <2> HIDE DEF a
  <2>2. b \in {a, 1000}
    BY <1>2, <2>1
  <2> HIDE DEF b
  <2>3. Max({1, b}) \in {1, b} /\ Max({1, b}) >= 1
    BY <1>3, <2>1, <2>2
  <2> QED BY <2>1, <2>2, <2>3 DEF SummaryPageSize, a, b
<1>5. PageSizeFor(requested, p, Usual) \in Nat \ {0}
  <2> DEFINE usual == Min({Usual, p.page})
             a == IF requested = Unsaid THEN usual ELSE requested
             b == Min({a, p.page})
  <2>1. usual \in {Usual, p.page}
    BY <1>1, <1>2
  <2> HIDE DEF usual
  <2>2. a \in Int
    BY <1>1, <2>1
  <2> HIDE DEF a
  <2>3. b \in {a, p.page}
    BY <1>1, <1>2, <2>2
  <2> HIDE DEF b
  <2>4. Max({1, b}) \in {1, b} /\ Max({1, b}) >= 1
    BY <1>1, <1>3, <2>2, <2>3
  <2> QED BY <1>1, <2>2, <2>3, <2>4 DEF PageSizeFor, a, b, usual
<1> QED BY <1>4, <1>5

\* A page is the first rows of what is left, in order, and at least one if any is left.
Ordered(w) == InOrder(Rest(w), [e \in Rest(w) |-> OrderBy(w, e)])
Shown(page) == {page[i].event : i \in DOMAIN page}

LEMMA OrderedIs ==
  ASSUME LedgerInv, NEW w, ReaderHolds(w)
  PROVE  LET n == Cardinality(Rest(w)) IN
         /\ n \in Nat /\ Ordered(w) \in [1..n -> Rest(w)] /\ Len(Ordered(w)) = n
         /\ \A e \in Rest(w) : \E i \in 1..n : Ordered(w)[i] = e
         /\ \A i, j \in 1..n : i < j <=> OrderBy(w, Ordered(w)[i]) < OrderBy(w, Ordered(w)[j])
         /\ \A e \in Rest(w) : OrderBy(w, e) \in Int
<1> DEFINE key == [e \in Rest(w) |-> OrderBy(w, e)]
<1>1. Rest(w) \subseteq events /\ IsFiniteSet(Rest(w))
  BY RestIs
<1>2. \A e \in Rest(w) : OrderBy(w, e) \in Int
  BY <1>1, KeysDiffer
<1>3. \A d, e \in Rest(w) : OrderBy(w, d) = OrderBy(w, e) => d = e
  BY <1>1, KeysDiffer
<1>4. key \in [Rest(w) -> Int] /\ (\A d, e \in Rest(w) : key[d] = key[e] => d = e)
      /\ \A e \in Rest(w) : key[e] = OrderBy(w, e)
  BY <1>2, <1>3
<1>5. Ordered(w) = InOrder(Rest(w), key)
  BY DEF Ordered
<1> HIDE DEF key
<1>6. LET o == InOrder(Rest(w), key) n == Cardinality(Rest(w)) IN
      /\ n \in Nat /\ o \in [1..n -> Rest(w)]
      /\ \A e \in Rest(w) : \E i \in 1..n : o[i] = e
      /\ \A i, j \in 1..n : i < j <=> key[o[i]] < key[o[j]]
  BY <1>1, <1>4, OrderIs
<1> DEFINE n == Cardinality(Rest(w))
           o == Ordered(w)
<1>7. n \in Nat /\ o \in [1..n -> Rest(w)] /\ (\A e \in Rest(w) : \E i \in 1..n : o[i] = e)
      /\ \A i, j \in 1..n : i < j <=> key[o[i]] < key[o[j]]
  BY <1>5, <1>6
<1> HIDE DEF n, o
<1>8. \A i, j \in 1..n : i < j <=> OrderBy(w, o[i]) < OrderBy(w, o[j])
  BY <1>4, <1>7
<1>9. Len(o) = n
  BY <1>7
<1> QED BY <1>2, <1>7, <1>8, <1>9 DEF n, o

LEMMA CandidatesAre ==
  ASSUME LedgerInv, NEW w, ReaderHolds(w), NEW requested \in Requested, NEW p \in ProfilesInUse
  PROVE  \E k \in 0..Cardinality(Rest(w)) :
           /\ Candidates(w, requested, p) = [i \in 1..k |-> Row(Ordered(w)[i])]
           /\ Rest(w) # {} => k > 0
<1> DEFINE n == Cardinality(Rest(w))
           wanted == IF w.mode = Summary THEN SummaryPageSize(requested) ELSE PageSizeFor(requested, p, Usual)
           k == Min({wanted, n})
<1>1. wanted \in Nat \ {0}
  BY PageSizes, BoundsAssumption
<1>2. n \in Nat /\ Len(Ordered(w)) = n /\ (Rest(w) # {} => n > 0)
  BY OrderedIs
<1>3. Candidates(w, requested, p) = [i \in 1..k |-> Row(Ordered(w)[i])]
  BY <1>2 DEF Candidates, Ordered
<1> HIDE DEF n, wanted
<1>4. k \in 0..n /\ (n > 0 => k > 0)
  BY <1>1, <1>2, MinOfTwo
<1> HIDE DEF k
<1> QED BY <1>2, <1>3, <1>4 DEF n

LEMMA PagesAre ==
  ASSUME LedgerInv, NEW w, ReaderHolds(w), NEW page \in PagesToRead(w)
  PROVE  \E m \in 0..Cardinality(Rest(w)) :
           Begins(page, m, [i \in 1..m |-> Row(Ordered(w)[i])]) /\ (Rest(w) # {} => m > 0)
<1>1. PICK requested \in Requested, p \in ProfilesInUse : page = Page(w, requested, p)
  BY DEF PagesToRead
<1>2. PICK k \in 0..Cardinality(Rest(w)) :
        /\ Candidates(w, requested, p) = [i \in 1..k |-> Row(Ordered(w)[i])]
        /\ Rest(w) # {} => k > 0
  BY CandidatesAre
<1> DEFINE rs == [i \in 1..k |-> Row(Ordered(w)[i])]
<1>3. Cardinality(Rest(w)) \in Nat /\ k \in Nat
  BY OrderedIs, <1>2
<1>4. DOMAIN rs = 1..k /\ rs = [i \in 1..k |-> rs[i]] /\ \A i \in 1..k : rs[i] = Row(Ordered(w)[i])
  OBVIOUS
<1>5. page = IF w.mode = Summary THEN rs ELSE PageItems(rs, p)
  BY <1>1, <1>2 DEF Page
<1> HIDE DEF rs
<1>6. \E m \in 0..k : Begins(page, m, rs) /\ (k > 0 => m > 0)
  <2>1. CASE w.mode = Summary
    <3>1. Len(rs) = k /\ (k = 0 <=> rs = <<>>)
      BY <1>3, <1>4
    <3>2. Begins(rs, k, rs)
      BY <1>4, <3>1 DEF Begins
    <3> QED BY <1>3, <1>5, <2>1, <3>2
  <2>2. CASE w.mode # Summary
    BY <1>3, <1>4, <1>5, <2>2, PacketIsBeginning
  <2> QED BY <2>1, <2>2
<1>7. PICK m \in 0..k : Begins(page, m, rs) /\ (k > 0 => m > 0)
  BY <1>6
<1>8. Begins(page, m, [i \in 1..m |-> Row(Ordered(w)[i])])
  <2> DEFINE first == [i \in 1..m |-> Row(Ordered(w)[i])]
  <2>1. \A i \in 1..m : first[i] = Row(Ordered(w)[i]) /\ i \in 1..k
    BY <1>3
  <2> HIDE DEF first
  <2>2. \A i \in 1..m : first[i].event = rs[i].event
    BY <1>4, <2>1
  <2>3. Begins(page, m, first)
    BY <1>7, <2>2 DEF Begins
  <2> QED BY <2>3 DEF first
<1>9. m \in 0..Cardinality(Rest(w))
  BY <1>2, <1>3, <1>7
<1> QED BY <1>2, <1>7, <1>8, <1>9

LEMMA ShownIs ==
  ASSUME LedgerInv, NEW w, ReaderHolds(w), NEW page \in PagesToRead(w)
  PROVE  /\ Shown(page) \subseteq Rest(w)
         /\ page = <<>> => Rest(w) = {}
         /\ page # <<>> => \E l \in Shown(page) :
              /\ Anchor(w, page) = Key(w, l)
              /\ \A e \in Rest(w) : e \in Shown(page) <=> OrderBy(w, e) <= OrderBy(w, l)
<1> DEFINE n == Cardinality(Rest(w))
           o == Ordered(w)
<1>1. n \in Nat /\ o \in [1..n -> Rest(w)] /\ (\A e \in Rest(w) : \E i \in 1..n : o[i] = e)
      /\ (\A i, j \in 1..n : i < j <=> OrderBy(w, o[i]) < OrderBy(w, o[j]))
      /\ \A e \in Rest(w) : OrderBy(w, e) \in Int
  BY OrderedIs
<1>2. PICK m \in 0..n : Begins(page, m, [i \in 1..m |-> Row(o[i])]) /\ (Rest(w) # {} => m > 0)
  BY PagesAre
<1> HIDE DEF n, o
<1>3. DOMAIN page = 1..m /\ Len(page) = m /\ (m = 0 <=> page = <<>>) /\ \A i \in 1..m : page[i].event = o[i]
  BY <1>2 DEF Begins, Row
<1>4. Shown(page) = {o[i] : i \in 1..m}
  BY <1>3 DEF Shown
<1>5. Shown(page) \subseteq Rest(w)
  BY <1>1, <1>2, <1>4
<1>6. ASSUME page # <<>>
      PROVE  \E l \in Shown(page) :
              /\ Anchor(w, page) = Key(w, l)
              /\ \A e \in Rest(w) : e \in Shown(page) <=> OrderBy(w, e) <= OrderBy(w, l)
  <2>1. m \in 1..n /\ m \in 1..m /\ m \in Nat
    BY <1>1, <1>2, <1>3, <1>6
  <2>2. o[m] \in Shown(page) /\ Anchor(w, page) = Key(w, o[m])
    BY <1>3, <1>4, <2>1 DEF Anchor, Last
  <2>3. ASSUME NEW e \in Rest(w) PROVE e \in Shown(page) <=> OrderBy(w, e) <= OrderBy(w, o[m])
    <3>1. PICK i \in 1..n : o[i] = e
      BY <1>1
    <3>2. OrderBy(w, o[i]) \in Int /\ OrderBy(w, o[m]) \in Int
      BY <1>1, <2>1
    <3>3. i <= m <=> OrderBy(w, o[i]) <= OrderBy(w, o[m])
      BY <1>1, <2>1, <3>2
    <3>4. ASSUME NEW j \in 1..m, o[j] = e PROVE i = j
      <4>1. j \in 1..n
        BY <1>1, <2>1
      <4>2. ~(i < j) /\ ~(j < i)
        BY <1>1, <3>1, <3>2, <3>4, <4>1
      <4> QED BY <1>1, <4>1, <4>2
    <3>5. e \in Shown(page) <=> i <= m
      BY <1>1, <1>4, <2>1, <3>1, <3>4
    <3> QED BY <3>1, <3>3, <3>5
  <2> QED BY <2>2, <2>3
<1> QED BY <1>2, <1>3, <1>5, <1>6

LEMMA PastIs ==
  ASSUME LedgerInv, NEW w, w.cursor \in Nat, NEW l \in events, NEW e \in events
  PROVE  /\ \A v : v.mode = w.mode /\ v.cursor = Key(w, l) =>
                     (Past(v, e) <=> OrderBy(w, e) <= OrderBy(w, l))
         /\ Past(w, e) /\ ~Past(w, l) => OrderBy(w, e) < OrderBy(w, l)
<1>1. Key(w, e) \in Nat /\ Key(w, l) \in Nat
  BY KeysDiffer
<1>2. \A v : v.mode = w.mode => Key(v, e) = Key(w, e)
  BY DEF Key
<1> QED BY <1>1, <1>2 DEF Past, OrderBy

\* Whether a page comes with a cursor.
More(w, page) ==
  Cardinality(w.counted) > Len(page) /\ page # <<>> /\ (w.mode = Summary \/ w.window # 0)

LEMMA PagedFields ==
  ASSUME NEW w \in ReaderType, NEW page
  PROVE  LET v == Paged(w, page) IN
         /\ v = [phase |-> v.phase, mode |-> v.mode, all |-> v.all, window |-> v.window,
                 cursor |-> v.cursor, before |-> v.before, counted |-> v.counted, got |-> v.got,
                 late |-> v.late, twice |-> v.twice]
         /\ v.mode = w.mode /\ v.all = w.all /\ v.window = w.window /\ v.before = w.before
         /\ v.counted = {} /\ v.got = w.got \cup Shown(page) /\ v.late = Shown(page) \ w.counted
         /\ v.twice = (w.twice \/ Shown(page) \cap w.got # {})
         /\ v.cursor = IF page = <<>> THEN w.cursor ELSE Anchor(w, page)
         /\ v.phase = IF More(w, page) THEN "reading" ELSE "done"
<1> DEFINE got == w.got \cup Shown(page)
           late == Shown(page) \ w.counted
           twice == w.twice \/ Shown(page) \cap w.got # {}
           cursor == IF page = <<>> THEN w.cursor ELSE Anchor(w, page)
           phase == IF More(w, page) THEN "reading" ELSE "done"
           a == [w EXCEPT !.got = got]
           b == [a EXCEPT !.twice = twice]
           c == [b EXCEPT !.late = late]
           d == [c EXCEPT !.counted = {}]
           e == [d EXCEPT !.cursor = cursor]
           g == [e EXCEPT !.phase = phase]
<1>1. w = [phase |-> w.phase, mode |-> w.mode, all |-> w.all, window |-> w.window, cursor |-> w.cursor,
           before |-> w.before, counted |-> w.counted, got |-> w.got, late |-> w.late, twice |-> w.twice]
  BY DEF ReaderType
<1>2. Paged(w, page) = [w EXCEPT !.got = got, !.twice = twice, !.late = late, !.counted = {},
                                !.cursor = cursor, !.phase = phase]
  BY DEF Paged, Shown, More
<1> HIDE DEF got, late, twice, cursor, phase
<1>3. Paged(w, page) = g
  BY <1>2
<1>4. a = [phase |-> w.phase, mode |-> w.mode, all |-> w.all, window |-> w.window, cursor |-> w.cursor,
           before |-> w.before, counted |-> w.counted, got |-> got, late |-> w.late, twice |-> w.twice]
  BY <1>1
<1> HIDE DEF a
<1>5. b = [phase |-> w.phase, mode |-> w.mode, all |-> w.all, window |-> w.window, cursor |-> w.cursor,
           before |-> w.before, counted |-> w.counted, got |-> got, late |-> w.late, twice |-> twice]
  BY <1>4
<1> HIDE DEF b
<1>6. c = [phase |-> w.phase, mode |-> w.mode, all |-> w.all, window |-> w.window, cursor |-> w.cursor,
           before |-> w.before, counted |-> w.counted, got |-> got, late |-> late, twice |-> twice]
  BY <1>5
<1> HIDE DEF c
<1>7. d = [phase |-> w.phase, mode |-> w.mode, all |-> w.all, window |-> w.window, cursor |-> w.cursor,
           before |-> w.before, counted |-> {}, got |-> got, late |-> late, twice |-> twice]
  BY <1>6
<1> HIDE DEF d
<1>8. e = [phase |-> w.phase, mode |-> w.mode, all |-> w.all, window |-> w.window, cursor |-> cursor,
           before |-> w.before, counted |-> {}, got |-> got, late |-> late, twice |-> twice]
  BY <1>7
<1> HIDE DEF e
<1>9. g = [phase |-> phase, mode |-> w.mode, all |-> w.all, window |-> w.window, cursor |-> cursor,
           before |-> w.before, counted |-> {}, got |-> got, late |-> late, twice |-> twice]
  BY <1>8
<1> HIDE DEF g
<1>10. Paged(w, page) = [phase |-> phase, mode |-> w.mode, all |-> w.all, window |-> w.window, cursor |-> cursor,
           before |-> w.before, counted |-> {}, got |-> got, late |-> late, twice |-> twice]
  BY <1>3, <1>9
<1> QED BY <1>10 DEF got, late, twice, cursor, phase

\* A page has as many items as it shows events.
LEMMA ShownSize ==
  ASSUME LedgerInv, NEW w, ReaderHolds(w), NEW page \in PagesToRead(w)
  PROVE  IsFiniteSet(Shown(page)) /\ Cardinality(Shown(page)) = Len(page) /\ Len(page) \in Nat
<1> DEFINE n == Cardinality(Rest(w))
           o == Ordered(w)
<1>1. n \in Nat /\ o \in [1..n -> Rest(w)]
      /\ (\A i, j \in 1..n : i < j <=> OrderBy(w, o[i]) < OrderBy(w, o[j]))
      /\ \A e \in Rest(w) : OrderBy(w, e) \in Int
  BY OrderedIs
<1>2. PICK m \in 0..n : Begins(page, m, [i \in 1..m |-> Row(o[i])])
  BY PagesAre
<1> HIDE DEF n, o
<1>3. DOMAIN page = 1..m /\ Len(page) = m /\ m \in Nat /\ \A i \in 1..m : page[i].event = o[i]
  <2>1. DOMAIN page = 1..m /\ Len(page) = m /\ \A i \in 1..m : page[i].event = o[i]
    BY <1>2 DEF Begins, Row
  <2> QED BY <1>1, <1>2, <2>1
<1> DEFINE g == [i \in 1..m |-> page[i].event]
<1>4. ASSUME NEW i \in 1..m, NEW j \in 1..m, o[i] = o[j] PROVE i = j
  <2>1. i \in 1..n /\ j \in 1..n /\ OrderBy(w, o[i]) \in Int
    BY <1>1, <1>3
  <2>2. ~(i < j) /\ ~(j < i)
    BY <1>1, <1>4, <2>1
  <2> QED BY <1>3, <2>2
<1>5. g \in [1..m -> Shown(page)] /\ (\A i, j \in 1..m : g[i] = g[j] => i = j)
      /\ \A e \in Shown(page) : \E i \in 1..m : g[i] = e
  BY <1>3, <1>4 DEF Shown
<1> HIDE DEF g
<1>6. g \in Injection(1..m, Shown(page)) /\ g \in Surjection(1..m, Shown(page))
  BY <1>5 DEF Injection, IsInjective, Surjection
<1>7. IsFiniteSet(1..m) /\ Cardinality(1..m) = m
  BY <1>3, FS_Interval
<1>8. IsFiniteSet(Shown(page)) /\ Cardinality(Shown(page)) = Cardinality(1..m)
  BY <1>6, <1>7, FS_Surjection
<1> QED BY <1>3, <1>7, <1>8

\* Of two sets, the larger has at least as much that is not in the other.
LEMMA LargerHasMore ==
  ASSUME NEW A, NEW B, IsFiniteSet(A), IsFiniteSet(B), Cardinality(A) <= Cardinality(B)
  PROVE  Cardinality(A \ B) <= Cardinality(B \ A)
<1>1. A \cap B \subseteq A /\ A \cap B \subseteq B /\ A \ (A \cap B) = A \ B /\ B \ (A \cap B) = B \ A
  OBVIOUS
<1>2. Cardinality(A \ B) = Cardinality(A) - Cardinality(A \cap (A \cap B))
      /\ Cardinality(B \ A) = Cardinality(B) - Cardinality(B \cap (A \cap B))
      /\ Cardinality(A) \in Nat /\ Cardinality(B) \in Nat
  <2>1. IsFiniteSet(A \cap B)
    BY <1>1, FS_Subset
  <2>2. Cardinality(A \ (A \cap B)) = Cardinality(A) - Cardinality(A \cap (A \cap B))
    BY <2>1, FS_Difference
  <2>3. Cardinality(B \ (A \cap B)) = Cardinality(B) - Cardinality(B \cap (A \cap B))
    BY <2>1, FS_Difference
  <2>4. Cardinality(A) \in Nat /\ Cardinality(B) \in Nat
    BY FS_CardinalityType
  <2> QED BY <1>1, <2>2, <2>3, <2>4
<1>3. A \cap (A \cap B) = A \cap B /\ B \cap (A \cap B) = A \cap B
  OBVIOUS
<1>4. Cardinality(A \cap B) \in Nat
  BY <1>1, FS_Subset, FS_CardinalityType
<1> QED BY <1>2, <1>3, <1>4

LEMMA PagedHolds ==
  ASSUME LedgerInv, NEW w, ReaderHolds(w), w.phase = "items", NEW page \in PagesToRead(w)
  PROVE  ReaderHolds(Paged(w, page))
<1> DEFINE v == Paged(w, page)
<1>1. /\ w \in ReaderType /\ w.cursor \in Nat /\ w.before \subseteq events /\ w.got \subseteq events
      /\ w.counted \subseteq Rest(w) /\ IsFiniteSet(w.counted)
      /\ \A e \in w.before : e \in w.counted \/ (w.cursor # 0 /\ Past(w, e))
  <2>1. IsFiniteSet(Rest(w))
    BY RestIs
  <2> QED BY <2>1, FS_Subset DEF ReaderHolds, ReaderType
<1>2. /\ v.mode = w.mode /\ v.all = w.all /\ v.window = w.window /\ v.before = w.before
      /\ v.got = w.got \cup Shown(page)
      /\ v.twice = (w.twice \/ Shown(page) \cap w.got # {})
      /\ v.cursor = IF page = <<>> THEN w.cursor ELSE Anchor(w, page)
      /\ v.phase = IF More(w, page) THEN "reading" ELSE "done"
      /\ v.counted = {} /\ v.late = Shown(page) \ w.counted
  BY <1>1, PagedFields
<1>3. Shown(page) \subseteq Rest(w) /\ Rest(w) \subseteq events /\ (page = <<>> => Rest(w) = {})
  BY ShownIs, RestIs
<1>4. \A e \in w.got : w.cursor # 0 /\ Past(w, e)
  BY DEF ReaderHolds
<1>5. Shown(page) \cap w.got = {}
  BY <1>3, <1>4, RestIs
<1>6. \A e \in w.before : e \in Rest(w) \/ e \in w.got
  BY RestIs DEF ReaderHolds
<1>7. ASSUME page # <<>>
      PROVE  /\ v.cursor \in Nat \ {0} /\ (\A e \in v.got : Past(v, e))
             /\ \A e \in v.before : Past(v, e) => e \in v.got
  <2>1. PICK l \in Shown(page) : Anchor(w, page) = Key(w, l)
                                 /\ \A e \in Rest(w) : e \in Shown(page) <=> OrderBy(w, e) <= OrderBy(w, l)
    BY <1>7, ShownIs
  <2>2. l \in Rest(w) /\ l \in events /\ (w.cursor # 0 => ~Past(w, l))
    BY <1>3, RestIs
  <2>3. v.cursor = Key(w, l) /\ v.cursor \in Nat \ {0}
    BY <1>2, <1>7, <2>1, <2>2, KeysDiffer
  <2>4. \A e \in events : Past(v, e) <=> OrderBy(w, e) <= OrderBy(w, l)
    BY <1>1, <1>2, <2>2, <2>3, PastIs
  <2> HIDE DEF v
  <2>5. ASSUME NEW e \in w.got PROVE Past(v, e)
    <3>1. e \in events /\ OrderBy(w, e) < OrderBy(w, l)
      BY <1>1, <1>4, <2>2, PastIs
    <3>2. OrderBy(w, e) \in Int /\ OrderBy(w, l) \in Int
      BY <2>2, <3>1, KeysDiffer
    <3> QED BY <2>4, <3>1, <3>2
  <2>6. \A e \in Shown(page) : Past(v, e)
    BY <1>3, <2>1, <2>4
  <2>7. \A e \in v.before : Past(v, e) => e \in v.got
    BY <1>1, <1>2, <1>6, <2>1, <2>4
  <2> QED BY <1>2, <2>3, <2>5, <2>6, <2>7
<1>8. v.cursor \in Nat /\ v.got \subseteq events
  BY <1>1, <1>2, <1>3, <1>7
<1>9. v \in ReaderType
  <2>1. v = [phase |-> v.phase, mode |-> v.mode, all |-> v.all, window |-> v.window, cursor |-> v.cursor,
             before |-> v.before, counted |-> v.counted, got |-> v.got, late |-> v.late,
             twice |-> v.twice]
    BY <1>1, PagedFields
  <2>2. v.twice \in BOOLEAN /\ v.phase \in {"done", "reading"} /\ v.late \subseteq events /\ v.counted \subseteq events
    BY <1>1, <1>2, <1>3
  <2>3. v.mode \in Modes \cup {Summary} /\ v.all \in BOOLEAN /\ v.window \in Nat /\ v.before \subseteq events
    BY <1>1, <1>2 DEF ReaderType
  <2> HIDE DEF v
  <2> QED BY <1>8, <2>1, <2>2, <2>3 DEF ReaderType
<1>10. ~v.twice
  BY <1>2, <1>5 DEF ReaderHolds
<1>11. v.mode # Summary => \A e \in v.before : InScope(v, e) /\ e.at <= v.window
  <2> HIDE DEF v
  <2> QED BY <1>2 DEF ReaderHolds, InScope
<1>12. v.phase = "done" => Cardinality(v.before \ v.got) <= Cardinality(v.late)
  <2> SUFFICES ASSUME ~More(w, page) PROVE Cardinality(v.before \ v.got) <= Cardinality(v.late)
    BY <1>2
  <2>1. IsFiniteSet(Shown(page)) /\ Cardinality(Shown(page)) = Len(page) /\ Len(page) \in Nat
    BY ShownSize
  <2>2. Cardinality(w.counted) \in Nat
    BY <1>1, FS_CardinalityType
  <2>3. CASE w.mode # Summary /\ w.window = 0
    <3>1. v.before = {}
      <4>1. \A e \in w.before : e.at \in Nat \ {0} /\ e.at <= w.window
        BY <1>1, <2>3 DEF LedgerInv, Ledger, CallsApart, ReaderHolds
      <4> QED BY <1>2, <2>3, <4>1
    <3>2. IsFiniteSet(v.late)
      BY <1>2, <2>1, FS_Subset
    <3> QED BY <3>1, <3>2, FS_EmptySet, FS_CardinalityType
  <2>4. CASE page = <<>>
    <3>1. v.before \ v.got = {}
      BY <1>2, <1>3, <1>6, <2>4
    <3>2. IsFiniteSet(v.late)
      BY <1>2, <2>1, FS_Subset
    <3> QED BY <3>1, <3>2, FS_EmptySet, FS_CardinalityType
  <2>5. CASE ~(w.mode # Summary /\ w.window = 0) /\ page # <<>>
    <3>1. Cardinality(w.counted) <= Cardinality(Shown(page))
      BY <2>1, <2>2, <2>5 DEF More
    <3>2. Cardinality(w.counted \ Shown(page)) <= Cardinality(v.late)
      BY <1>1, <1>2, <2>1, <3>1, LargerHasMore
    <3>3. v.before \ v.got \subseteq w.counted \ Shown(page)
      BY <1>1, <1>2 DEF ReaderHolds
    <3>4. IsFiniteSet(w.counted \ Shown(page)) /\ IsFiniteSet(v.late)
      BY <1>1, <1>2, <2>1, FS_Subset
    <3>5. Cardinality(v.before \ v.got) <= Cardinality(w.counted \ Shown(page))
      BY <3>3, <3>4, FS_Subset
    <3>6. IsFiniteSet(v.before \ v.got)
      BY <3>3, <3>4, FS_Subset
    <3> QED BY <3>2, <3>4, <3>5, <3>6, FS_CardinalityType
  <2> QED BY <2>3, <2>4, <2>5
<1>15. /\ v.phase \in {"done", "reading"}
       /\ v.phase = "reading" => v.cursor # 0 /\ (v.mode # Summary => v.window # 0)
  BY <1>2, <1>7 DEF More
<1>13. CASE page = <<>>
  <2>1. v.cursor = w.cursor /\ v.got = w.got
    BY <1>2, <1>3, <1>13
  <2>2. \A e : Past(v, e) <=> Past(w, e)
    BY <1>2, <2>1 DEF Past, Key
  <2>3. /\ v.cursor = 0 => v.got = {}
        /\ v.cursor # 0 => (\A e \in v.got : Past(v, e)) /\ (\A e \in v.before : Past(v, e) => e \in v.got)
    BY <1>2, <2>1, <2>2 DEF ReaderHolds
  <2> HIDE DEF v
  <2>4. ReaderHolds(v)
    BY <1>9, <1>10, <1>11, <1>12, <1>15, <2>3 DEF ReaderHolds
  <2> QED BY <2>4 DEF v
<1>14. CASE page # <<>>
  <2>1. v.cursor # 0
    BY <1>7, <1>14
  <2> HIDE DEF v
  <2>2. ReaderHolds(v)
    BY <1>7, <1>9, <1>10, <1>11, <1>12, <1>15, <1>14, <2>1 DEF ReaderHolds
  <2> QED BY <2>2 DEF v
<1> QED BY <1>13, <1>14

\* Where a reader begins.
ReaderOf(mode, all, window, before) ==
  [phase |-> "count", mode |-> mode, all |-> all, window |-> window, cursor |-> 0, before |-> before,
   counted |-> {}, got |-> {}, late |-> {}, twice |-> FALSE]

LEMMA NewAs ==
  ASSUME NEW mode, NEW all
  PROVE  [NotReading EXCEPT !.phase = "count", !.mode = mode, !.all = all] = ReaderOf(mode, all, 0, {})
<1>1. PICK a : a = [NotReading EXCEPT !.phase = "count"]
  OBVIOUS
<1>2. PICK b : b = [a EXCEPT !.mode = mode]
  OBVIOUS
<1>3. PICK c : c = [b EXCEPT !.all = all]
  OBVIOUS
<1>4. a = ReaderOf("current_state", FALSE, 0, {})
  BY <1>1 DEF NotReading, ReaderOf
<1>5. b = ReaderOf(mode, FALSE, 0, {})
  BY <1>2, <1>4 DEF ReaderOf
<1>6. c = ReaderOf(mode, all, 0, {})
  BY <1>3, <1>5 DEF ReaderOf
<1> QED BY <1>1, <1>2, <1>3, <1>6

LEMMA SourcesAs ==
  ASSUME NEW before
  PROVE  [NotReading EXCEPT !.phase = "count", !.mode = Summary, !.before = before]
           = ReaderOf(Summary, FALSE, 0, before)
<1>1. PICK a : a = [NotReading EXCEPT !.phase = "count"]
  OBVIOUS
<1>2. PICK b : b = [a EXCEPT !.mode = Summary]
  OBVIOUS
<1>3. PICK c : c = [b EXCEPT !.before = before]
  OBVIOUS
<1>4. a = ReaderOf("current_state", FALSE, 0, {})
  BY <1>1 DEF NotReading, ReaderOf
<1>5. b = ReaderOf(Summary, FALSE, 0, {})
  BY <1>2, <1>4 DEF ReaderOf
<1>6. c = ReaderOf(Summary, FALSE, 0, before)
  BY <1>3, <1>5 DEF ReaderOf
<1> QED BY <1>1, <1>2, <1>3, <1>6

LEMMA OpenedIs ==
  ASSUME LedgerInv, NEW mode \in Modes, NEW all \in BOOLEAN
  PROVE  \E window \in Nat, before \in SUBSET events :
           /\ Opened(mode, all) = ReaderOf(mode, all, window, before)
           /\ before = Visible(ReaderOf(mode, all, window, before))
           /\ \A e \in before : e.at <= window
<1> DEFINE w == ReaderOf(mode, all, 0, {})
           ats == {0} \cup {e.at : e \in Visible(w)}
           o == ReaderOf(mode, all, Newest(Visible(w)), Visible(w))
<1>1. Opened(mode, all) = o
  <2>1. [NotReading EXCEPT !.phase = "count", !.mode = mode, !.all = all] = w
    BY NewAs
  <2>2. Opened(mode, all) = [w EXCEPT !.window = Newest(Visible(w)), !.before = Visible(w)]
    BY <2>1 DEF Opened
  <2>3. PICK a : a = [w EXCEPT !.window = Newest(Visible(w))]
    OBVIOUS
  <2>4. PICK b : b = [a EXCEPT !.before = Visible(w)]
    OBVIOUS
  <2>5. Opened(mode, all) = b
    BY <2>2, <2>3, <2>4
  <2>6. a = ReaderOf(mode, all, Newest(Visible(w)), {})
    BY <2>3 DEF ReaderOf
  <2>7. b = o
    BY <2>4, <2>6 DEF ReaderOf
  <2> QED BY <2>5, <2>7
<1>2. Visible(w) \subseteq events
  BY DEF Visible
<1>3. ats \subseteq Nat /\ ats # {} /\ (\A x \in ats : x <= time) /\ time \in Nat
  BY <1>2 DEF LedgerInv, Ledger, CallsApart
<1>4. Max(ats) \in Nat /\ \A x \in ats : x <= Max(ats)
  BY <1>3, MaxOfNat
<1>5. Newest(Visible(w)) \in Nat /\ \A e \in Visible(w) : e.at <= Newest(Visible(w))
  <2>1. Newest(Visible(w)) = Max(ats) /\ \A e \in Visible(w) : e.at \in ats
    BY DEF Newest
  <2> QED BY <1>4, <2>1
<1>6. \A e \in Visible(w) : InScope(o, e)
  BY DEF Visible, InScope, ReaderOf
<1> QED
  <2>1. Visible(w) = Visible(o)
    BY <1>6 DEF Visible, InScope, ReaderOf
  <2>2. Opened(mode, all) = o /\ Visible(w) = Visible(o) /\ \A e \in Visible(w) : e.at <= Newest(Visible(w))
    BY <1>1, <1>5, <2>1
  <2> HIDE DEF w
  <2> QED BY <1>2, <1>5, <2>2

LEMMA OpenedHolds ==
  ASSUME LedgerInv, NEW mode \in Modes, NEW all \in BOOLEAN
  PROVE  ReaderHolds(Opened(mode, all))
<1>1. PICK window \in Nat, before \in SUBSET events :
             /\ Opened(mode, all) = ReaderOf(mode, all, window, before)
             /\ before = Visible(ReaderOf(mode, all, window, before))
             /\ \A e \in before : e.at <= window
  BY OpenedIs
<1> DEFINE o == ReaderOf(mode, all, window, before)
<1>2. \A e \in before : InScope(o, e)
  BY <1>1 DEF Visible
<1>3. o \in ReaderType
  BY DEF ReaderType, ReaderOf
<1>4. /\ ~o.twice /\ o.cursor = 0 /\ o.got = {} /\ o.phase = "count" /\ o.mode = mode
      /\ o.before = before /\ o.window = window
  BY DEF ReaderOf
<1> HIDE DEF o
<1>5. ReaderHolds(o)
  BY <1>1, <1>2, <1>3, <1>4 DEF ReaderHolds
<1> QED BY <1>1, <1>5 DEF o

LEMMA SummaryHolds ==
  ReaderHolds([NotReading EXCEPT !.phase = "count", !.mode = Summary, !.before = events])
<1> DEFINE w == ReaderOf(Summary, FALSE, 0, events)
<1>1. ReaderHolds(w)
  BY DEF ReaderOf, ReaderHolds, ReaderType
<1>2. [NotReading EXCEPT !.phase = "count", !.mode = Summary, !.before = events] = w
  BY SourcesAs
<1> QED BY <1>1, <1>2

\* The count of what is left.
LEMMA CountHolds ==
  ASSUME LedgerInv, NEW w, ReaderHolds(w), w.phase \in {"count", "reading"}
  PROVE  ReaderHolds([w EXCEPT !.phase = "items", !.counted = Rest(w), !.late = {}])
<1> DEFINE v == [w EXCEPT !.phase = "items", !.counted = Rest(w), !.late = {}]
<1>1. w \in ReaderType
  BY DEF ReaderHolds
<1>2. PICK a : a = [w EXCEPT !.phase = "items"]
  OBVIOUS
<1>3. PICK b : b = [a EXCEPT !.counted = Rest(w)]
  OBVIOUS
<1>4. PICK c : c = [b EXCEPT !.late = {}]
  OBVIOUS
<1>5. v = c
  BY <1>2, <1>3, <1>4
<1>6. Rest(w) \subseteq events
  BY RestIs
<1>7. a \in ReaderType /\ a.phase = "items" /\ a.mode = w.mode /\ a.all = w.all /\ a.window = w.window
      /\ a.cursor = w.cursor /\ a.before = w.before /\ a.got = w.got /\ a.twice = w.twice
  BY <1>1, <1>2 DEF ReaderType
<1>8. b \in ReaderType /\ b.phase = "items" /\ b.mode = w.mode /\ b.all = w.all /\ b.window = w.window
      /\ b.cursor = w.cursor /\ b.before = w.before /\ b.got = w.got /\ b.twice = w.twice
      /\ b.counted = Rest(w)
  BY <1>3, <1>6, <1>7 DEF ReaderType
<1>9. c \in ReaderType /\ c.phase = "items" /\ c.mode = w.mode /\ c.all = w.all /\ c.window = w.window
      /\ c.cursor = w.cursor /\ c.before = w.before /\ c.got = w.got /\ c.twice = w.twice
      /\ c.counted = Rest(w)
  BY <1>4, <1>8 DEF ReaderType
<1>10. Rest(c) = Rest(w) /\ \A e : (Past(c, e) <=> Past(w, e)) /\ (InScope(c, e) <=> InScope(w, e))
  BY <1>9 DEF Rest, Visible, InScope, Past, Key
<1>11. \A e \in c.before : e \in c.counted \/ (c.cursor # 0 /\ Past(c, e))
  BY <1>9, <1>10, RestIs
<1>12. ReaderHolds(c)
  BY <1>9, <1>10, <1>11 DEF ReaderHolds
<1> QED BY <1>5, <1>12

LEMMA NotReadingHolds == ReaderHolds(NotReading)
BY DEF ReaderHolds, ReaderType, NotReading, Modes

\* What a reader has stays right while the ledger grows.
LEMMA ReaderStays ==
  ASSUME events \subseteq events', NEW w, ReaderHolds(w)
  PROVE  ReaderHolds(w)'
<1>1. w \in ReaderType'
  BY DEF ReaderHolds, ReaderType
<1>2. \A e : Past(w, e)' <=> Past(w, e)
  BY DEF Past, Key
<1>3. Rest(w) \subseteq Rest(w)'
  BY DEF Rest, Visible, InScope, Key
<1>4. \A e : InScope(w, e)' <=> InScope(w, e)
  BY DEF InScope
<1> QED BY <1>1, <1>2, <1>3, <1>4 DEF ReaderHolds

\* Every reader is as the replays so far left it.
Replays == reader \in [Readers -> ReaderType] /\ \A c \in Readers : ReaderHolds(reader[c])
ReplayInv == LedgerInv /\ Replays

ServerStep(s) ==
  \/ \E r \in Requests : Begin(s, r)
  \/ LockKey(s) \/ Replay(s) \/ UseFile(s) \/ SeeNoFile(s) \/ OpenFile(s) \/ FinishFile(s)
  \/ InsertRows(s) \/ Commit(s) \/ Project(s) \/ Fail(s) \/ CommitUnseen(s)
  \/ Kill(s) \/ ProposeFact(s)

LEMMA EventsGrow ==
  ASSUME NEW s \in Servers, ServerStep(s)
  PROVE  events \subseteq events' /\ UNCHANGED reader
BY DEF ServerStep, Begin, LockKey, Replay, UseFile, SeeNoFile, OpenFile, FinishFile, InsertRows, Commit, CommitUnseen,
       Committed, Project, Fail, Kill, ProposeFact, tables

LEMMA ReadsHold ==
  ASSUME LedgerInv, Replays, NEW c \in Readers, NEW w, ReaderHolds(w), ReadTo(c, w)
  PROVE  Replays'
<1>1. reader' = [reader EXCEPT ![c] = w] /\ UNCHANGED events
  BY DEF ReadTo, tables
<1>2. w \in ReaderType
  BY DEF ReaderHolds
<1>3. reader' \in [Readers -> ReaderType] /\ \A d \in Readers : reader'[d] = IF d = c THEN w ELSE reader[d]
  BY <1>1, <1>2 DEF Replays
<1>4. \A d \in Readers : ReaderHolds(reader'[d])
  BY <1>3 DEF Replays
<1>5. \A v : ReaderHolds(v) => ReaderHolds(v)'
  BY <1>1, ReaderStays
<1> QED BY <1>1, <1>3, <1>4, <1>5 DEF Replays, ReaderType

LEMMA ReplayStep == ReplayInv /\ JournalType' /\ [Next]_vars => ReplayInv'
<1> SUFFICES ASSUME ReplayInv, JournalType', [Next]_vars PROVE ReplayInv'
  OBVIOUS
<1>1. LedgerInv'
  BY LedgerStep DEF ReplayInv
<1>2. ASSUME events \subseteq events', UNCHANGED reader PROVE Replays'
  <2>1. \A v : ReaderHolds(v) => ReaderHolds(v)'
    BY <1>2, ReaderStays
  <2>2. \A c \in Readers : ReaderHolds(reader'[c])
    BY <1>2 DEF ReplayInv, Replays
  <2> QED BY <1>2, <2>1, <2>2 DEF ReplayInv, Replays, ReaderType
<1>3. ASSUME NEW s \in Servers, ServerStep(s) PROVE Replays'
  BY <1>2, <1>3, EventsGrow
<1>4. ASSUME NEW c \in Readers, NEW mode \in Modes, FirstPage(c, mode) PROVE Replays'
  BY <1>4, OpenedHolds, ReadsHold DEF FirstPage, ReplayInv
<1>5. ASSUME NEW c \in Readers, ExpandSummary(c) PROVE Replays'
  BY <1>5, SummaryHolds, ReadsHold DEF ExpandSummary, ReplayInv
<1>6. ASSUME NEW c \in Readers, CountRest(c) PROVE Replays'
  <2>1. ReaderHolds(reader[c]) /\ LedgerInv /\ Replays /\ reader[c].phase \in {"count", "reading"}
    BY <1>6 DEF CountRest, ReplayInv, Replays
  <2> QED BY <1>6, <2>1, CountHolds, ReadsHold DEF CountRest
<1>7. ASSUME NEW c \in Readers, ReadItems(c) PROVE Replays'
  <2>1. ReaderHolds(reader[c]) /\ LedgerInv /\ Replays /\ reader[c].phase = "items"
    BY <1>7 DEF ReadItems, ReplayInv, Replays
  <2> QED BY <1>7, <2>1, PagedHolds, ReadsHold DEF ReadItems
<1>11. ASSUME NEW c \in Readers, CloseReplay(c) PROVE Replays'
  BY <1>11, NotReadingHolds, ReadsHold DEF CloseReplay, ReplayInv
<1>8. ASSUME UNCHANGED vars PROVE Replays'
  <2>1. events' = events /\ reader' = reader
    BY <1>8 DEF vars, tables
  <2> QED BY <1>2, <2>1
<1>9. ASSUME Next PROVE Replays'
  <2>1. (\E s \in Servers : ServerStep(s)) \/ \E c \in Readers : ReaderStep(c)
    BY <1>9 DEF Next, ServerStep, ReaderStep, BuildHandoff, Modes
  <2> QED BY <1>3, <1>4, <1>5, <1>6, <1>7, <1>11, <2>1 DEF ReaderStep
<1>10. Replays'
  BY <1>8, <1>9
<1> QED BY <1>1, <1>10 DEF ReplayInv

LEMMA ReplayInvariant == Spec => []ReplayInv
<1>1. Init => JournalType /\ ReplayInv
  <2> SUFFICES ASSUME Init PROVE JournalType /\ ReplayInv
    OBVIOUS
  <2>1. JournalType
    BY DEF Init, JournalType, Places
  <2>2. LedgerInv
    BY <2>1, FS_EmptySet DEF Init, LedgerInv, Ledger, CallsApart, Active, Pending, Holding
  <2>3. Replays
    BY NotReadingHolds DEF Init, Replays, ReaderHolds
  <2> QED BY <2>1, <2>2, <2>3 DEF ReplayInv
<1>2. JournalType /\ ReplayInv /\ [Next]_vars => (JournalType /\ ReplayInv)'
  BY JournalTypeStep, ReplayStep
<1> QED BY <1>1, <1>2, PTL DEF Spec, ReplayInv

\* A replay that has come to its end has returned none twice, and what it misses of
\* the events committed before its first page has given way to as many that were
\* committed between the count and the items of its last page
\* (retrieve_chronology_page, expand_source).
THEOREM CompleteReplays == Spec => []ReplayIsComplete
<1>1. ReplayInv => ReplayIsComplete
  BY DEF ReplayInv, Replays, ReaderHolds, ReplayIsComplete
<1> QED BY <1>1, ReplayInvariant, PTL

-----------------------------------------------------------------------------
(* The pages and those of the reference. *)

\* Of a set in order, there is one beginning of each size.
LEMMA OneBeginning ==
  ASSUME NEW S, IsFiniteSet(S), NEW key \in [S -> Int], NEW A \in SUBSET S, NEW B \in SUBSET S,
         \A d \in A, e \in S : key[e] <= key[d] => e \in A,
         \A d \in B, e \in S : key[e] <= key[d] => e \in B,
         Cardinality(A) = Cardinality(B)
  PROVE  A = B
<1>1. IsFiniteSet(A) /\ IsFiniteSet(B)
  BY FS_Subset
<1>2. A \subseteq B \/ B \subseteq A
  <2> SUFFICES ASSUME NEW a \in A \ B, NEW b \in B \ A PROVE FALSE
    OBVIOUS
  <2>1. key[a] \in Int /\ key[b] \in Int
    OBVIOUS
  <2>2. key[a] <= key[b] \/ key[b] <= key[a]
    BY <2>1
  <2> QED BY <2>2
<1> QED BY <1>1, <1>2, FS_Subset

\* A stretch of a sequence without repetitions has as many elements as places.
LEMMA StretchSize ==
  ASSUME NEW a \in Int, NEW b \in Int, a <= b + 1, NEW f,
         \A i, j \in a..b : f[i] = f[j] => i = j
  PROVE  Cardinality({f[i] : i \in a..b}) = b - a + 1
<1> DEFINE T == {f[i] : i \in a..b}
           g == [i \in a..b |-> f[i]]
<1>1. IsFiniteSet(a..b) /\ Cardinality(a..b) = b - a + 1
  BY FS_Interval
<1>2. g \in Surjection(a..b, T)
  BY DEF Surjection
<1>3. g \in Injection(a..b, T)
  BY DEF Injection, IsInjective
<1> QED BY <1>1, <1>2, <1>3, FS_Surjection

\* The rows of the reference, in order, are the events that are left.
Rows(w) == {Row(e) : e \in Rest(w)}

LEMMA ReferenceIs ==
  ASSUME LedgerInv, NEW w, ReaderHolds(w)
  PROVE  LET n == Cardinality(Rest(w)) o == Chronological(Rows(w)) IN
         /\ n \in Nat /\ Len(o) = n /\ o \in [1..n -> Rows(w)]
         /\ \A i \in 1..n : o[i].event \in Rest(w)
         /\ \A e \in Rest(w) : \E i \in 1..n : o[i].event = e
         /\ \A i, j \in 1..n : i < j <=> o[i].event.at < o[j].event.at
<1> DEFINE S == Rows(w)
           key == [r \in S |-> r.at]
           n == Cardinality(S)
           o == Chronological(S)
<1>1. Rest(w) \subseteq events /\ IsFiniteSet(Rest(w))
  BY RestIs
<1>2. \A e \in Rest(w) : e.at \in Int /\ \A d \in Rest(w) : e.at = d.at => d = e
  BY <1>1 DEF LedgerInv, Ledger
<1>3. \A e \in Rest(w) : Row(e).at = e.at /\ Row(e).event = e
  BY DEF Row
<1>4. IsFiniteSet(S) /\ n = Cardinality(Rest(w))
  <2> DEFINE g == [e \in Rest(w) |-> Row(e)]
  <2>1. g \in Surjection(Rest(w), S)
    BY DEF Surjection, Rows
  <2>2. \A d, e \in Rest(w) : g[d] = g[e] => d = e
    BY <1>3
  <2>3. g \in [Rest(w) -> S]
    BY DEF Rows
  <2> HIDE DEF g
  <2>4. g \in Injection(Rest(w), S)
    BY <2>2, <2>3 DEF Injection, IsInjective
  <2> QED BY <1>1, <2>1, <2>4, FS_Surjection
<1>5. \A r \in S : r.at = r.event.at /\ r.event \in Rest(w) /\ r.at \in Int
  BY <1>2, <1>3 DEF Rows
<1>6. \A r, q \in S : r.at = q.at => r = q
  BY <1>2, <1>3 DEF Rows
<1>7. key \in [S -> Int] /\ \A r, q \in S : key[r] = key[q] => r = q
  BY <1>5, <1>6
<1>8. o = InOrder(S, key)
  BY DEF Chronological
<1>9. \A e \in Rest(w) : \E r \in S : r.event = e
  BY <1>3 DEF Rows
<1> HIDE DEF S
<1>10. LET q == InOrder(S, key) m == Cardinality(S) IN
       /\ m \in Nat /\ q \in [1..m -> S]
       /\ \A e \in S : \E i \in 1..m : q[i] = e
       /\ \A i, j \in 1..m : i < j <=> key[q[i]] < key[q[j]]
  BY <1>4, <1>7, OrderIs
<1>11. /\ n \in Nat /\ o \in [1..n -> S] /\ (\A r \in S : \E i \in 1..n : o[i] = r)
       /\ \A i, j \in 1..n : i < j <=> key[o[i]] < key[o[j]]
  BY <1>8, <1>10
<1>12. \A r \in S : key[r] = r.event.at
  BY <1>5
<1> HIDE DEF key, o, n
<1>13. Len(o) = n
  BY <1>11
<1>14. \A i \in 1..n : o[i] \in S /\ o[i].event \in Rest(w)
  BY <1>5, <1>11
<1>15. \A e \in Rest(w) : \E i \in 1..n : o[i].event = e
  BY <1>9, <1>11
<1>16. \A i, j \in 1..n : i < j <=> o[i].event.at < o[j].event.at
  BY <1>11, <1>12, <1>14
<1> QED BY <1>4, <1>11, <1>13, <1>14, <1>15, <1>16 DEF n, o, S

\* The first size rows of the reference, in the order of the mode.
FirstRows(mode, o, size) ==
  IF NewestFirst(mode) THEN SubSeq(o, Len(o) - size + 1, Len(o)) ELSE SubSeq(o, 1, size)

LEMMA PageIsReference ==
  ASSUME LedgerInv, NEW w, ReaderHolds(w), w.mode # Summary, NEW page \in PagesToRead(w)
  PROVE  LET o == Chronological(Rows(w))
             reference == FirstRows(w.mode, o, Min({Cardinality(Shown(page)), Len(o)}))
         IN Shown(page) = {reference[i].event : i \in DOMAIN reference}
<1> DEFINE o == Chronological(Rows(w))
           n == Cardinality(Rest(w))
           k == Cardinality(Shown(page))
           reference == FirstRows(w.mode, o, Min({k, Len(o)}))
           ev == [i \in 1..n |-> o[i].event]
           key == [e \in Rest(w) |-> OrderBy(w, e)]
           lo == IF NewestFirst(w.mode) THEN n - k + 1 ELSE 1
           hi == lo + k - 1
           R == {ev[i] : i \in lo..hi}
<1>1. Rest(w) \subseteq events /\ IsFiniteSet(Rest(w)) /\ Shown(page) \in SUBSET Rest(w)
  BY RestIs, ShownIs
<1>2. /\ n \in Nat /\ Len(o) = n /\ o \in [1..n -> Rows(w)]
      /\ (\A i \in 1..n : o[i].event \in Rest(w)) /\ (\A e \in Rest(w) : \E i \in 1..n : o[i].event = e)
      /\ \A i, j \in 1..n : i < j <=> o[i].event.at < o[j].event.at
  BY ReferenceIs
<1>3. k \in Nat /\ k <= n
  BY <1>1, FS_Subset, FS_CardinalityType
<1>4. Min({k, Len(o)}) = k
  BY <1>2, <1>3, MinOfTwo
<1> HIDE DEF o, n, k
<1>5. lo \in Int /\ hi \in Int /\ lo >= 1 /\ hi <= n /\ lo <= hi + 1 /\ hi - lo + 1 = k /\ hi = lo + k - 1
      /\ (NewestFirst(w.mode) => lo = n - k + 1 /\ hi = n) /\ (~NewestFirst(w.mode) => lo = 1 /\ hi = k)
  <2>1. n \in Int /\ k \in Int /\ 0 <= k /\ k <= n
    BY <1>2, <1>3
  <2>2. CASE NewestFirst(w.mode)
    BY <2>1, <2>2
  <2>3. CASE ~NewestFirst(w.mode)
    BY <2>1, <2>3
  <2> QED BY <2>2, <2>3
<1> HIDE DEF lo, hi
<1>6. reference = SubSeq(o, lo, hi)
  <2>1. reference = FirstRows(w.mode, o, k)
    BY <1>4
  <2> HIDE DEF reference
  <2> QED BY <1>2, <1>5, <2>1 DEF FirstRows
<1> HIDE DEF reference
<1>7. DOMAIN reference = 1..k /\ \A i \in 1..k : reference[i] = o[lo + i - 1]
  <2>1. o \in Seq(Rows(w))
    BY <1>2
  <2> QED BY <1>2, <1>3, <1>5, <1>6, <2>1
<1>8. {reference[i].event : i \in DOMAIN reference} = R
  <2>1. \A i \in 1..k : lo + i - 1 \in lo..hi /\ lo + i - 1 \in 1..n
    BY <1>2, <1>3, <1>5
  <2>2. \A j \in lo..hi : j - lo + 1 \in 1..k /\ lo + (j - lo + 1) - 1 = j /\ j \in 1..n
    BY <1>2, <1>3, <1>5
  <2>3. \A i \in DOMAIN reference : reference[i].event \in R
    BY <1>7, <2>1
  <2>4. \A j \in lo..hi : ev[j] = reference[j - lo + 1].event
    BY <1>7, <2>2
  <2>5. \A j \in lo..hi : \E i \in DOMAIN reference : ev[j] = reference[i].event
    BY <1>7, <2>2, <2>4
  <2> HIDE DEF ev
  <2> QED BY <2>3, <2>5
<1>9. \A i \in lo..hi : i \in 1..n
  BY <1>2, <1>5
<1>10. \A i, j \in lo..hi : ev[i] = ev[j] => i = j
  <2> SUFFICES ASSUME NEW i \in lo..hi, NEW j \in lo..hi, ev[i] = ev[j] PROVE i = j
    OBVIOUS
  <2>1. i \in 1..n /\ j \in 1..n /\ o[i].event = o[j].event
    BY <1>9
  <2>2. o[i].event.at \in Int
    BY <1>1, <1>2, <2>1 DEF LedgerInv, Ledger
  <2>3. ~(i < j) /\ ~(j < i)
    BY <1>2, <2>1, <2>2
  <2> QED BY <1>2, <2>1, <2>3
<1>11. Cardinality(R) = k
  <2>1. lo \in Int /\ hi \in Int /\ lo <= hi + 1
    BY <1>5
  <2> HIDE DEF ev
  <2>2. Cardinality(R) = hi - lo + 1
    BY <1>10, <2>1, StretchSize
  <2> QED BY <1>5, <2>2
<1>12. R \in SUBSET Rest(w)
  <2>1. \A i \in lo..hi : ev[i] \in Rest(w)
    BY <1>2, <1>9
  <2> HIDE DEF ev
  <2> QED BY <2>1
<1>13. key \in [Rest(w) -> Int] /\ \A e \in Rest(w) : key[e] = OrderBy(w, e) /\ e.at \in Int
       /\ key[e] = IF NewestFirst(w.mode) THEN -e.at ELSE e.at
  <2>1. \A e \in Rest(w) : OrderBy(w, e) \in Int /\ e.at \in Int
    BY <1>1, KeysDiffer DEF LedgerInv, Ledger
  <2> QED BY <2>1 DEF OrderBy, Key
<1> HIDE DEF key
<1>14. \A d \in R, e \in Rest(w) : key[e] <= key[d] => e \in R
  <2> SUFFICES ASSUME NEW i \in lo..hi, NEW e \in Rest(w), key[e] <= key[ev[i]] PROVE e \in R
    OBVIOUS
  <2>1. PICK j \in 1..n : o[j].event = e
    BY <1>2
  <2>2. i \in 1..n /\ ev[i] \in Rest(w) /\ ev[i] = o[i].event
    BY <1>2, <1>9
  <2>3. o[i].event.at \in Int /\ o[j].event.at \in Int
    BY <1>13, <2>1, <2>2
  <2>4. IF NewestFirst(w.mode) THEN o[j].event.at >= o[i].event.at ELSE o[j].event.at <= o[i].event.at
    BY <1>13, <2>1, <2>2, <2>3
  <2>5. IF NewestFirst(w.mode) THEN ~(j < i) ELSE ~(i < j)
    BY <1>2, <2>2, <2>3, <2>4
  <2>6. j \in lo..hi
    <3>1. i \in Int /\ j \in Int /\ lo <= i /\ i <= hi /\ 1 <= j /\ j <= n
      BY <1>2, <1>5
    <3>2. CASE NewestFirst(w.mode)
      BY <1>5, <2>5, <3>1, <3>2
    <3>3. CASE ~NewestFirst(w.mode)
      BY <1>5, <2>5, <3>1, <3>3
    <3> QED BY <3>2, <3>3
  <2>7. ev[j] = e
    BY <2>1
  <2> QED BY <2>6, <2>7
<1> HIDE DEF ev, R
<1>15. \A d \in Shown(page), e \in Rest(w) : key[e] <= key[d] => e \in Shown(page)
  <2>1. CASE page = <<>>
    BY <2>1, ShownIs
  <2>2. CASE page # <<>>
    <3>1. PICK l \in Shown(page) : \A e \in Rest(w) : e \in Shown(page) <=> OrderBy(w, e) <= OrderBy(w, l)
      BY <2>2, ShownIs
    <3> SUFFICES ASSUME NEW d \in Shown(page), NEW e \in Rest(w), key[e] <= key[d] PROVE e \in Shown(page)
      OBVIOUS
    <3>2. d \in Rest(w) /\ l \in Rest(w)
      BY <1>1
    <3>3. key[d] <= key[l] /\ key[e] \in Int /\ key[d] \in Int /\ key[l] \in Int
      BY <1>13, <3>1, <3>2
    <3> QED BY <1>13, <3>1, <3>2, <3>3
  <2> QED BY <2>1, <2>2
<1>16. Shown(page) = R
  BY <1>1, <1>11, <1>12, <1>13, <1>14, <1>15, OneBeginning DEF k
<1> QED BY <1>8, <1>16 DEF o, k, reference

\* The window and the cursor of the reference, from where the reader is.
CursorOf(w) == IF w.cursor # 0 THEN <<w.window, w.cursor>> ELSE <<>>
Windowed(w) == {Row(e) : e \in {d \in events : w.window # 0 => d.at <= w.window}}

\* A reader of the chronology that is about to read the items of a page.
Follows(w) ==
  /\ ReaderHolds(w) /\ w.phase = "items"
  /\ w.mode \in {"complete_project_chronology", "current_state"}

LEMMA RowsLeft ==
  ASSUME LedgerInv, NEW w, Follows(w), NEW k
  PROVE  PaginateChronology(Windowed(w), w.mode, k, CursorOf(w), w.all)
           = LET o == Chronological(Rows(w)) IN FirstRows(w.mode, o, Min({k, Len(o)}))
<1> DEFINE cursor == CursorOf(w)
           visible == {r \in Windowed(w) : w.all \/ r.trust \notin Excluded}
           inWindow == {r \in visible : cursor # <<>> => r.at <= cursor[1]}
           bounded == {r \in inWindow : cursor # <<>> =>
                         IF NewestFirst(w.mode) THEN r.at < cursor[2] ELSE r.at > cursor[2]}
<1>1. w.mode # Summary /\ w.mode # "decision_history"
  BY DEF Follows, Summary
<1>2. \A e : Row(e).at = e.at /\ Row(e).trust = Ask[e.request].trust
  BY DEF Row
<1>3. \A e : e \in Visible(w) <=> e \in events /\ (w.all \/ Ask[e.request].trust \notin Excluded)
  BY <1>1 DEF Visible, InScope
<1>4. visible = {Row(e) : e \in {d \in Visible(w) : w.window # 0 => d.at <= w.window}}
  BY <1>2, <1>3 DEF Windowed
<1>5. bounded = Rows(w)
  <2>1. CASE w.cursor # 0
    <3>1. cursor = <<w.window, w.cursor>> /\ w.window # 0
      BY <1>1, <2>1 DEF CursorOf, Follows, ReaderHolds
    <3>2. cursor # <<>> /\ cursor[1] = w.window /\ cursor[2] = w.cursor
      BY <3>1
    <3>3. \A e : e \in Rest(w) <=> /\ e \in Visible(w) /\ e.at <= w.window
                                   /\ IF NewestFirst(w.mode) THEN e.at < w.cursor ELSE e.at > w.cursor
      BY <1>1, <2>1, <3>1 DEF Rest
    <3> HIDE DEF cursor, visible
    <3> QED BY <1>2, <1>4, <3>1, <3>2, <3>3 DEF Rows
  <2>2. CASE w.cursor = 0
    <3>1. cursor = <<>>
      BY <2>2 DEF CursorOf
    <3>2. \A e : e \in Rest(w) <=> e \in Visible(w) /\ (w.window # 0 => e.at <= w.window)
      BY <1>1, <2>2 DEF Rest
    <3> HIDE DEF cursor, visible
    <3> QED BY <1>4, <3>1, <3>2 DEF Rows
  <2> QED BY <2>1, <2>2
<1>6. PaginateChronology(Windowed(w), w.mode, k, cursor, w.all)
        = LET o == Chronological(bounded) IN FirstRows(w.mode, o, Min({k, Len(o)}))
  BY DEF PaginateChronology, FirstRows
<1> QED BY <1>5, <1>6

LEMMA ReadFollows ==
  ASSUME LedgerInv, Replays, NEW c \in Readers, ReadItems(c),
         reader[c].mode \in {"complete_project_chronology", "current_state"}
  PROVE  PageOfReference(c)
<1>0. PICK w : w = reader[c]
  OBVIOUS
<1>1. PICK page \in PagesToRead(w) : reader' = [reader EXCEPT ![c] = Paged(w, page)]
  BY <1>0 DEF ReadItems, ReadTo
<1>2. UNCHANGED events
  BY DEF ReadItems, ReadTo, tables
<1>3. w \in ReaderType /\ ReaderHolds(w) /\ w.mode # Summary /\ w.phase = "items"
  BY <1>0 DEF ReadItems, Replays, Summary
<1>4. reader'[c].got = w.got \cup Shown(page) /\ reader'[c].mode = w.mode /\ reader'[c].all = w.all
  <2>1. reader'[c] = Paged(w, page)
    BY <1>0, <1>1 DEF Replays
  <2> QED BY <1>3, <2>1, PagedFields
<1>5. Shown(page) \cap w.got = {}
  <2>1. \A e \in w.got : w.cursor # 0 /\ Past(w, e)
    BY <1>3 DEF ReaderHolds
  <2>2. Shown(page) \subseteq Rest(w)
    BY <1>3, ShownIs
  <2> QED BY <1>3, <2>1, <2>2, RestIs
<1> DEFINE k == Cardinality(Shown(page))
           n == Cardinality(reader'[c].got \ reader[c].got)
           window == {e \in events : reader[c].window # 0 => e.at <= reader[c].window}
           known == {Row(e) : e \in window}
           was == IF reader[c].cursor # 0 THEN <<reader[c].window, reader[c].cursor>> ELSE <<>>
           reference == PaginateChronology(Windowed(w), w.mode, k, CursorOf(w), w.all)
<1>6. reader'[c].got \ reader[c].got = Shown(page) /\ k = n
  BY <1>0, <1>4, <1>5
<1>7. Shown(page) = {reference[i].event : i \in DOMAIN reference}
  <2> DEFINE o == Chronological(Rows(w))
             rs == FirstRows(w.mode, o, Min({k, Len(o)}))
  <2>1. Shown(page) = {rs[i].event : i \in DOMAIN rs}
    BY <1>3, PageIsReference
  <2> HIDE DEF k
  <2>2. reference = rs
    <3>1. Follows(w)
      BY <1>0, <1>3 DEF Follows
    <3> QED BY <3>1, RowsLeft
  <2> HIDE DEF rs, reference
  <2> QED BY <2>1, <2>2
<1>8. reference = PaginateChronology(known, reader'[c].mode, n, was, reader'[c].all)
  <2>1. w.mode = reader'[c].mode /\ w.all = reader'[c].all /\ k = n
    BY <1>4, <1>6
  <2>2. CursorOf(w) = was /\ Windowed(w) = known
    BY <1>0 DEF CursorOf, Windowed
  <2> HIDE DEF k, n, was, known
  <2> QED BY <2>1, <2>2
<1> HIDE DEF reference, k
<1>9. reader'[c].got \ reader[c].got = {reference[i].event : i \in DOMAIN reference}
  BY <1>6, <1>7
<1> QED BY <1>8, <1>9 DEF PageOfReference

\* Every page is the page of the reference pagination for the window of the
\* client, the events there are when its items are read and where the client was
\* (retrieve_chronology_page, paginate_chronology).
THEOREM PagesAreOfReference == Spec => PagesFollowReference
<1> DEFINE Chronicle == \A c \in Readers :
             (reader'[c] # reader[c] /\ reader[c].phase = "items" /\ reader'[c].phase # "idle"
                /\ reader'[c].mode \in {"complete_project_chronology", "current_state"})
               => PageOfReference(c)
<1>1. ReplayInv /\ [Next]_vars => [Chronicle]_vars
  <2> SUFFICES ASSUME ReplayInv, Next, NEW c \in Readers, reader'[c] # reader[c], reader[c].phase = "items",
                      reader'[c].phase # "idle",
                      reader'[c].mode \in {"complete_project_chronology", "current_state"}
               PROVE  PageOfReference(c)
    OBVIOUS
  <2>1. PICK d \in Readers : ReaderStep(d)
    <3>1. \A s \in Servers : ~ServerStep(s)
      BY EventsGrow
    <3> QED BY <3>1 DEF Next, ServerStep, ReaderStep, BuildHandoff, Modes
  <2>2. LedgerInv /\ Replays /\ reader[c] \in ReaderType
    BY DEF ReplayInv, Replays
  <2>3. d = c
    BY <2>1, <2>2 DEF ReaderStep, FirstPage, ExpandSummary, CountRest, ReadItems, CloseReplay, ReadTo, Replays
  <2>4. ReadItems(c)
    <3>1. ~CloseReplay(c)
      <4>1. CloseReplay(c) => reader'[c].phase = "idle"
        BY <2>2 DEF CloseReplay, ReadTo, Replays, NotReading
      <4> QED BY <4>1
    <3> QED BY <2>1, <2>3, <3>1 DEF ReaderStep, FirstPage, ExpandSummary, CountRest
  <2>5. reader[c].mode = reader'[c].mode
    <3>1. PICK page : reader' = [reader EXCEPT ![c] = Paged(reader[c], page)]
      BY <2>4 DEF ReadItems, ReadTo
    <3>2. reader'[c] = Paged(reader[c], page)
      BY <2>2, <3>1 DEF Replays
    <3> QED BY <2>2, <3>2, PagedFields
  <2> QED BY <2>2, <2>4, <2>5, ReadFollows
<1>2. Spec => []ReplayInv
  BY ReplayInvariant
<1> QED BY <1>1, <1>2, PTL DEF Spec, PagesFollowReference

(***************************************************************************)
(* KnowledgeSync                                                           *)
(***************************************************************************)

(************************** the cache of answers ***************************)
\* An ingest under way has a time of its own; no row of the library has it yet.
Stamped(n) ==
  n \in 0..clock /\ \A i \in Ingesters : ingest[i].open => ingest[i].stamp # n

Stamps ==
  /\ clock \in Nat
  /\ ingest = [i \in Ingesters |-> ingest[i]]
  /\ \A i \in Ingesters : ingest[i].open => ingest[i].stamp \in 1..clock
  /\ \A i, j \in Ingesters :
       ingest[i].open /\ ingest[j].open /\ ingest[i].stamp = ingest[j].stamp => i = j
  /\ \A i \in Ingesters : \A r \in ingest[i].wrote :
       ingest[i].open /\ r.updated_at = ingest[i].stamp
  /\ \A r \in documents : r.updated_at \in Nat /\ Stamped(r.updated_at)

\* An answer was given when every row of its revision had been committed.
Answers ==
  /\ Stamped(search.revision)
  /\ \A a \in cache : /\ Stamped(a.revision)
                      /\ \A r \in documents : r.updated_at = a.revision => UniqueKey(r) \in a.found

CacheInv == Stamps /\ Answers

LEMMA RevisionIs ==
  ASSUME Stamps
  PROVE  LET n == corpus_revision(documents) IN
         Stamped(n) /\ \A r \in documents : r.updated_at <= n
<1> DEFINE times == {r.updated_at : r \in documents} \cup {0}
           n == corpus_revision(documents)
<1>1. times \subseteq Nat /\ times # {} /\ (\A x \in times : x <= clock) /\ clock \in Nat
  BY DEF Stamps, Stamped
<1>2. n \in times /\ \A x \in times : x <= n
  BY <1>1, MaxOfNat DEF corpus_revision
<1>3. \A x \in times : Stamped(x)
  BY DEF Stamps, Stamped
<1> QED BY <1>2, <1>3

\* The ingests keep their times, and no row and no answer is new.
LEMMA CacheStays ==
  ASSUME CacheInv, UNCHANGED <<clock, documents>>,
         ingest' = [i \in Ingesters |-> ingest'[i]],
         \A i \in Ingesters : ingest'[i].open => ingest[i].open /\ ingest'[i].stamp = ingest[i].stamp,
         \A i \in Ingesters : \A r \in ingest'[i].wrote :
           ingest'[i].open /\ r.updated_at = ingest'[i].stamp,
         \/ UNCHANGED <<search, cache>>
         \/ search'.revision = 0 /\ cache' \subseteq cache
  PROVE  CacheInv'
<1>1. \A n : Stamped(n) => Stamped(n)'
  BY DEF Stamped
<1>2. Stamps'
  BY <1>1 DEF CacheInv, Stamps, Stamped
<1>3. Stamped(0)'
  BY <1>2 DEF Stamps, Stamped
<1>4. Answers'
  BY <1>1, <1>3 DEF CacheInv, Answers, Stamped, UniqueKey
<1> QED BY <1>2, <1>4 DEF CacheInv

LEMMA CacheBegin ==
  ASSUME CacheInv, NEW i \in Ingesters, BeginIngest(i)
  PROVE  CacheInv'
<1>1. /\ clock' = clock + 1 /\ clock \in Nat /\ UNCHANGED <<documents, search, cache>>
      /\ ingest' = [j \in Ingesters |-> ingest'[j]]
      /\ ingest'[i].open /\ ingest'[i].stamp = clock + 1 /\ ingest'[i].wrote = {}
      /\ \A j \in Ingesters \ {i} : ingest'[j] = ingest[j]
  BY DEF BeginIngest, CacheInv, Stamps, finder
<1>2. \A n : Stamped(n) => Stamped(n)'
  BY <1>1 DEF Stamped
<1>3. Stamps'
  BY <1>1, <1>2 DEF CacheInv, Stamps, Stamped
<1>4. Answers'
  BY <1>1, <1>2 DEF CacheInv, Answers, UniqueKey
<1> QED BY <1>3, <1>4 DEF CacheInv

LEMMA CacheCommit ==
  ASSUME CacheInv, NEW i \in Ingesters, CommitIngest(i)
  PROVE  CacheInv'
<1>1. /\ UNCHANGED <<clock, search, cache>> /\ ingest[i].open
      /\ ingest' = [j \in Ingesters |-> ingest'[j]]
      /\ ingest'[i] = Closed
      /\ \A j \in Ingesters \ {i} : ingest'[j] = ingest[j]
      /\ documents' \subseteq documents \cup ingest[i].wrote
  BY DEF CommitIngest, upsert_chunk, CacheInv, Stamps, finder
<1>2. \A n : Stamped(n) => Stamped(n)'
  BY <1>1 DEF Stamped, Closed
<1>3. \A r \in ingest[i].wrote : r.updated_at = ingest[i].stamp /\ r.updated_at \in Nat /\ Stamped(r.updated_at)'
  BY <1>1 DEF CacheInv, Stamps, Stamped, Closed
<1>4. Stamps'
  BY <1>1, <1>2, <1>3 DEF CacheInv, Stamps, Closed
<1>5. ASSUME NEW a \in cache, NEW r \in documents', r.updated_at = a.revision PROVE UniqueKey(r) \in a.found
  <2>1. r \notin ingest[i].wrote
    BY <1>1, <1>3, <1>5 DEF CacheInv, Answers, Stamped
  <2> QED BY <1>1, <1>5, <2>1 DEF CacheInv, Answers
<1>6. Answers'
  BY <1>1, <1>2, <1>5 DEF CacheInv, Answers, UniqueKey
<1> QED BY <1>4, <1>6 DEF CacheInv

LEMMA CacheAnswer ==
  ASSUME CacheInv, ReadRevision \/ Answer
  PROVE  CacheInv'
<1>1. UNCHANGED <<clock, documents, ingest>>
  BY DEF ReadRevision, Answer, index
<1>2. Stamps' /\ \A n : Stamped(n) => Stamped(n)'
  BY <1>1 DEF CacheInv, Stamps, Stamped
<1>3. CASE ReadRevision
  <2>1. search'.revision = corpus_revision(documents) /\ cache' = cache
    BY <1>3 DEF ReadRevision
  <2>2. Stamped(search'.revision)
    BY <2>1, RevisionIs DEF CacheInv
  <2> QED BY <1>1, <1>2, <2>1, <2>2 DEF CacheInv, Answers, UniqueKey
<1>4. CASE Answer
  <2>1. search'.revision = 0 /\ cache' = {[revision |-> search.revision, found |-> {UniqueKey(r) : r \in documents}]}
    BY <1>4 DEF Answer
  <2>2. Stamped(0)'
    BY <1>2 DEF Stamps, Stamped
  <2>3. \A a \in cache' : Stamped(a.revision) /\ \A r \in documents : UniqueKey(r) \in a.found
    BY <2>1 DEF CacheInv, Answers
  <2> QED BY <1>1, <1>2, <2>1, <2>2, <2>3 DEF CacheInv, Answers, UniqueKey
<1> QED BY <1>3, <1>4

LEMMA CacheIngest ==
  ASSUME CacheInv, NEW i \in Ingesters, ReadOn(i) \/ IngestFile(i) \/ Abort(i)
  PROVE  CacheInv'
<1>1. UNCHANGED <<clock, documents, search, cache>> /\ ingest[i].open
  BY DEF ReadOn, IngestFile, Abort, finder
<1>2. CASE IngestFile(i)
  <2> DEFINE made == RowsOf(i, Min(ingest[i].todo), ingest[i].read)
  <2>1. \A r \in made : r.updated_at = ingest[i].stamp
    BY DEF RowsOf
  <2>2. PICK lost \in SUBSET made :
          ingest' = [ingest EXCEPT ![i] =
            [open |-> TRUE, stamp |-> @.stamp, todo |-> @.todo \ {Min(ingest[i].todo)}, read |-> <<>>,
             wrote |-> @.wrote \union (made \ lost), failed |-> @.failed \/ lost # {}]]
    BY <1>2 DEF IngestFile
  <2> HIDE DEF made
  <2>3. /\ ingest' = [j \in Ingesters |-> ingest'[j]]
        /\ ingest'[i].open /\ ingest'[i].stamp = ingest[i].stamp
        /\ ingest'[i].wrote \subseteq ingest[i].wrote \cup made
        /\ \A j \in Ingesters \ {i} : ingest'[j] = ingest[j]
    BY <2>2 DEF CacheInv, Stamps
  <2> QED BY <1>1, <2>1, <2>3, CacheStays DEF CacheInv, Stamps
<1>3. CASE Abort(i)
  <2>1. /\ ingest' = [j \in Ingesters |-> ingest'[j]] /\ ingest'[i] = Closed
        /\ \A j \in Ingesters \ {i} : ingest'[j] = ingest[j]
    BY <1>3 DEF Abort, CacheInv, Stamps
  <2> QED BY <1>1, <2>1, CacheStays DEF CacheInv, Stamps, Closed
<1>4. CASE ReadOn(i)
  <2>1. /\ ingest' = [j \in Ingesters |-> ingest'[j]]
        /\ ingest'[i].open /\ ingest'[i].stamp = ingest[i].stamp /\ ingest'[i].wrote = ingest[i].wrote
        /\ \A j \in Ingesters \ {i} : ingest'[j] = ingest[j]
    BY <1>4 DEF ReadOn, CacheInv, Stamps
  <2> QED BY <1>1, <2>1, CacheStays DEF CacheInv, Stamps
<1> QED BY <1>2, <1>3, <1>4

LEMMA CacheStep == CacheInv /\ [SyncNext]_syncVars => CacheInv'
<1> SUFFICES ASSUME CacheInv, [SyncNext]_syncVars PROVE CacheInv'
  OBVIOUS
<1>1. ASSUME UNCHANGED <<clock, documents, ingest>>,
             UNCHANGED <<search, cache>> \/ (search'.revision = 0 /\ cache' \subseteq cache)
      PROVE  CacheInv'
  BY <1>1, CacheStays DEF CacheInv, Stamps
<1>2. ASSUME Crash PROVE CacheInv'
  <2>1. /\ ingest' = [j \in Ingesters |-> ingest'[j]] /\ ingest'["worker"] = Closed
        /\ \A j \in Ingesters \ {"worker"} : ingest'[j] = ingest[j]
        /\ UNCHANGED <<clock, documents, search, cache>>
    BY <1>2 DEF Crash, CacheInv, Stamps, Ingesters, finder
  <2> QED BY <2>1, CacheStays DEF CacheInv, Stamps, Closed
<1>3. ASSUME \/ \E tree \in Trees, tag \in 1..MaxRelease : Push(tree, tag)
             \/ \E apply \in BOOLEAN : ls_remote(apply)
             \/ clone \/ Promote \/ Hold \/ save_state \/ NothingToIngest
             \/ \E f \in Files : OpenCopy(f) \/ WritePart(f) \/ CloseCopy(f)
             \/ UNCHANGED syncVars
      PROVE  CacheInv'
  <2>1. UNCHANGED <<clock, documents, ingest, search, cache>>
    BY <1>3 DEF Push, ls_remote, clone, Promote, Hold, save_state, NothingToIngest, OpenCopy, WritePart, CloseCopy,
       index, finder, syncVars
  <2> QED BY <1>1, <2>1
<1>4. ASSUME AnswerDegraded \/ Expire PROVE CacheInv'
  <2>1. UNCHANGED <<clock, documents, ingest>>
    BY <1>4 DEF AnswerDegraded, Expire, index
  <2>2. CASE AnswerDegraded
    BY <1>1, <2>1, <2>2 DEF AnswerDegraded
  <2>3. CASE Expire
    <3>1. search' = search /\ cache' = {}
      BY <2>3 DEF Expire
    <3>2. Stamps' /\ \A n : Stamped(n) => Stamped(n)'
      BY <2>1 DEF CacheInv, Stamps, Stamped
    <3> QED BY <3>1, <3>2 DEF CacheInv, Answers
  <2> QED BY <1>4, <2>2, <2>3
<1> QED BY <1>2, <1>3, <1>4, CacheBegin, CacheCommit, CacheAnswer, CacheIngest DEF SyncNext, LibraryNext, SearchNext

\* An answer the cache gives for the present revision lacks only rows of an
\* ingest that began before the newest one the answer has seen
\* (DocsSearchCache, keyed by corpus_revision).
THEOREM CachedAnswers == SyncSpec => []CachedLacksOnlyOverlapped
<1>1. SyncInit => CacheInv
  BY DEF SyncInit, CacheInv, Stamps, Stamped, Answers, Closed
<1>2. CacheInv => CachedLacksOnlyOverlapped
  <2> SUFFICES ASSUME CacheInv, NEW a \in Kept(corpus_revision(documents)), NEW r \in documents
               PROVE  UniqueKey(r) \in a.found \/ r.updated_at < a.revision
    BY DEF CachedLacksOnlyOverlapped
  <2>1. a \in cache /\ a.revision = corpus_revision(documents)
    BY DEF Kept
  <2>2. r.updated_at <= a.revision /\ r.updated_at \in Nat /\ a.revision \in Nat
    BY <2>1, RevisionIs DEF CacheInv, Stamps, Stamped
  <2>3. r.updated_at = a.revision => UniqueKey(r) \in a.found
    BY <2>1 DEF CacheInv, Answers
  <2> QED BY <2>2, <2>3
<1> QED BY <1>1, <1>2, CacheStep, PTL DEF SyncSpec

(*************************** what is promoted ******************************)
WorkerOf(step, mem, sha, tree, version, todo, writing, apply) ==
  [at |-> step, mem |-> mem, sha |-> sha, tree |-> tree, version |-> version, todo |-> todo,
   writing |-> writing, apply |-> apply]

Shapes ==
  /\ upstream \in Seq(Trees)
  /\ promoted = [f \in Files |-> promoted[f]]
  /\ worker = WorkerOf(worker.at, worker.mem, worker.sha, worker.tree, worker.version, worker.todo,
                       worker.writing, worker.apply)
  /\ ingest = [i \in Ingesters |-> ingest[i]]

\* The worker has a tree upstream had, and copies what passes its checks.
Cloned ==
  /\ worker.at = "listed" => Latest > 0
  /\ worker.at \in {"cloned", "copying", "ingesting"} => \E n \in 1..Latest : worker.tree = upstream[n]
  /\ worker.at \in {"listed", "cloned"} => worker.writing = {}
  /\ worker.at = "copying" => worker.writing \subseteq worker.todo /\ worker.todo \subseteq Passing(worker.tree)

\* The texts made of lines that passed the checks: whole ones, parts, mixtures.
Pieces(f) == Seq(CheckedLines(f))

\* A row's chunk was cut from such a text, and the row holds its beginning.
Cut(r) == r.chunk.body \in Pieces(r.file) /\ r.body = Stored(r.chunk.body)

CheckedInv ==
  /\ Shapes /\ Cloned
  /\ \A f \in Files : promoted[f] = Absent \/ promoted[f] \in Pieces(f)
  /\ \A i \in Ingesters : /\ ingest[i].todo \subseteq iter_files
                          /\ ingest[i].read \in Pieces(Min(ingest[i].todo)) \/ ingest[i].todo = {}
                          /\ \A r \in ingest[i].wrote : Cut(r)
  /\ \A r \in documents : Cut(r)

LEMMA SeqGrows ==
  ASSUME NEW S, NEW T, S \subseteq T, NEW text \in Seq(S)
  PROVE  text \in Seq(T)
OBVIOUS

LEMMA PassingIs ==
  ASSUME NEW tree, NEW f \in Passing(tree)
  PROVE  f \in Files /\ tree[f] # Absent
BY FilesAssumption DEF Passing, filter_changed_files

LEMMA UpstreamGrows ==
  ASSUME upstream \in Seq(Trees), [SyncNext]_syncVars
  PROVE  /\ upstream' \in Seq(Trees) /\ Latest \in Nat /\ Latest' \in Nat /\ Latest <= Latest'
         /\ \A n \in 1..Latest : upstream'[n] = upstream[n]
         /\ Latest' = Latest \/ UNCHANGED <<library, index, finder>>
<1>1. CASE UNCHANGED upstream
  BY <1>1 DEF Latest
<1>2. CASE \E tree \in Trees, tag \in 1..MaxRelease : Push(tree, tag)
  <2>1. PICK tree \in Trees : upstream' = Append(upstream, tree) /\ UNCHANGED <<library, index, finder>>
    BY <1>2 DEF Push
  <2> QED BY <2>1 DEF Latest
<1> QED BY <1>1, <1>2 DEF SyncNext, LibraryNext, SearchNext, syncVars, ls_remote, clone, Promote, Hold, save_state,
           Crash, OpenCopy, WritePart, CloseCopy, NothingToIngest, BeginIngest,
           ReadOn, IngestFile, CommitIngest, Abort, ReadRevision, Answer, AnswerDegraded, Expire

LEMMA CheckedGrows ==
  ASSUME upstream \in Seq(Trees), [SyncNext]_syncVars
  PROVE  /\ \A f, text : text \in Pieces(f) => text \in Pieces(f)'
         /\ \A r : Cut(r) => Cut(r)'
<1>1. Latest \in Nat /\ Latest' \in Nat /\ Latest <= Latest' /\ \A n \in 1..Latest : upstream'[n] = upstream[n]
  BY UpstreamGrows
<1>2. ASSUME NEW f, NEW text \in Checked(f) PROVE text \in Checked(f)'
  <2>1. PICK n \in 1..Latest : f \in Passing(upstream[n]) /\ text = upstream[n][f]
    BY DEF Checked
  <2>2. n \in 1..Latest' /\ upstream'[n] = upstream[n]
    BY <1>1
  <2> QED BY <2>1, <2>2 DEF Checked
<1>3. ASSUME NEW f, NEW text \in Pieces(f) PROVE text \in Pieces(f)'
  <2>1. CheckedLines(f) \subseteq CheckedLines(f)'
    BY <1>2 DEF CheckedLines
  <2> QED BY <2>1, SeqGrows DEF Pieces
<1> QED BY <1>3 DEF Cut, Stored

\* What each step makes of the worker's state.
LEMMA WorkerLists ==
  ASSUME NEW apply, ls_remote(apply)
  PROVE  worker' = WorkerOf("listed", saved, Latest, NoTree, NoVersion, {}, {}, apply)
<1>1. worker' = [Asleep EXCEPT !.at = "listed", !.mem = saved, !.sha = Latest, !.apply = apply]
  BY DEF ls_remote
<1>2. PICK a : a = [Asleep EXCEPT !.at = "listed"]
  OBVIOUS
<1>3. a = WorkerOf("listed", Fresh, NoCommit, NoTree, NoVersion, {}, {}, FALSE)
  BY <1>2 DEF Asleep, WorkerOf
<1>4. PICK b : b = [a EXCEPT !.mem = saved]
  OBVIOUS
<1>5. b = WorkerOf("listed", saved, NoCommit, NoTree, NoVersion, {}, {}, FALSE)
  BY <1>3, <1>4 DEF WorkerOf
<1>6. PICK c : c = [b EXCEPT !.sha = Latest]
  OBVIOUS
<1>7. c = WorkerOf("listed", saved, Latest, NoTree, NoVersion, {}, {}, FALSE)
  BY <1>5, <1>6 DEF WorkerOf
<1>8. PICK d : d = [c EXCEPT !.apply = apply]
  OBVIOUS
<1>9. d = WorkerOf("listed", saved, Latest, NoTree, NoVersion, {}, {}, apply)
  BY <1>7, <1>8 DEF WorkerOf
<1> QED BY <1>1, <1>2, <1>4, <1>6, <1>8, <1>9

LEMMA WorkerClones ==
  ASSUME Shapes, clone
  PROVE  worker' = WorkerOf("cloned", worker.mem, worker.sha, upstream[Latest], worker.version, worker.todo, worker.writing, worker.apply)
<1>1. worker' = [worker EXCEPT !.at = "cloned", !.tree = upstream[Latest]]
  BY DEF clone
<1>2. PICK a : a = [worker EXCEPT !.at = "cloned"]
  OBVIOUS
<1>3. a = WorkerOf("cloned", worker.mem, worker.sha, worker.tree, worker.version, worker.todo, worker.writing, worker.apply)
  BY <1>2 DEF Shapes, WorkerOf
<1>4. PICK b : b = [a EXCEPT !.tree = upstream[Latest]]
  OBVIOUS
<1>5. b = WorkerOf("cloned", worker.mem, worker.sha, upstream[Latest], worker.version, worker.todo, worker.writing, worker.apply)
  BY <1>3, <1>4 DEF WorkerOf
<1> QED BY <1>1, <1>2, <1>4, <1>5

LEMMA WorkerPromotes ==
  ASSUME Shapes, Promote
  PROVE  worker' = WorkerOf("copying", worker.mem, worker.sha, worker.tree, source_recency.version,
                            Passing(worker.tree), worker.writing, worker.apply)
<1>1. worker' = [worker EXCEPT !.at = "copying", !.todo = Passing(worker.tree), !.version = source_recency.version]
  BY DEF Promote
<1>2. PICK a : a = [worker EXCEPT !.at = "copying"]
  OBVIOUS
<1>3. a = WorkerOf("copying", worker.mem, worker.sha, worker.tree, worker.version, worker.todo, worker.writing, worker.apply)
  BY <1>2 DEF Shapes, WorkerOf
<1>4. PICK b : b = [a EXCEPT !.todo = Passing(worker.tree)]
  OBVIOUS
<1>5. b = WorkerOf("copying", worker.mem, worker.sha, worker.tree, worker.version, Passing(worker.tree), worker.writing, worker.apply)
  BY <1>3, <1>4 DEF WorkerOf
<1>6. PICK c : c = [b EXCEPT !.version = source_recency.version]
  OBVIOUS
<1>7. c = WorkerOf("copying", worker.mem, worker.sha, worker.tree, source_recency.version, Passing(worker.tree), worker.writing, worker.apply)
  BY <1>5, <1>6 DEF WorkerOf
<1> QED BY <1>1, <1>2, <1>4, <1>6, <1>7

LEMMA WorkerGoesOn ==
  ASSUME Shapes, NEW step, NEW todo, NEW writing
  PROVE  /\ [worker EXCEPT !.at = step]
              = WorkerOf(step, worker.mem, worker.sha, worker.tree, worker.version, worker.todo, worker.writing, worker.apply)
         /\ [worker EXCEPT !.writing = writing]
              = WorkerOf(worker.at, worker.mem, worker.sha, worker.tree, worker.version, worker.todo, writing, worker.apply)
         /\ [worker EXCEPT !.todo = todo, !.writing = writing]
              = WorkerOf(worker.at, worker.mem, worker.sha, worker.tree, worker.version, todo, writing, worker.apply)
<1>1. PICK a, b, c, d : /\ a = [worker EXCEPT !.at = step] /\ b = [worker EXCEPT !.writing = writing]
                        /\ c = [worker EXCEPT !.todo = todo] /\ d = [c EXCEPT !.writing = writing]
  OBVIOUS
<1>2. a = WorkerOf(step, worker.mem, worker.sha, worker.tree, worker.version, worker.todo, worker.writing, worker.apply)
  BY <1>1 DEF Shapes, WorkerOf
<1>3. b = WorkerOf(worker.at, worker.mem, worker.sha, worker.tree, worker.version, worker.todo, writing, worker.apply)
  BY <1>1 DEF Shapes, WorkerOf
<1>4. c = WorkerOf(worker.at, worker.mem, worker.sha, worker.tree, worker.version, todo, worker.writing, worker.apply)
  BY <1>1 DEF Shapes, WorkerOf
<1>5. d = WorkerOf(worker.at, worker.mem, worker.sha, worker.tree, worker.version, todo, writing, worker.apply)
  BY <1>1, <1>4 DEF WorkerOf
<1> QED BY <1>1, <1>2, <1>3, <1>5

LEMMA WorkerRecords ==
  ASSUME Shapes, NEW mem
  PROVE  [worker EXCEPT !.at = "saving", !.mem = mem]
           = WorkerOf("saving", mem, worker.sha, worker.tree, worker.version, worker.todo, worker.writing, worker.apply)
<1>1. PICK a : a = [worker EXCEPT !.at = "saving"]
  OBVIOUS
<1>2. a = WorkerOf("saving", worker.mem, worker.sha, worker.tree, worker.version, worker.todo, worker.writing, worker.apply)
  BY <1>1 DEF Shapes, WorkerOf
<1>3. PICK b : b = [a EXCEPT !.mem = mem]
  OBVIOUS
<1>4. b = WorkerOf("saving", mem, worker.sha, worker.tree, worker.version, worker.todo, worker.writing, worker.apply)
  BY <1>2, <1>3 DEF WorkerOf
<1> QED BY <1>1, <1>3, <1>4

\* Of every step, what becomes of the worker.
WorkerStep ==
  \/ UNCHANGED worker
  \/ worker' = Asleep
  \/ \E apply \in BOOLEAN :
       /\ worker' = WorkerOf("listed", saved, Latest, NoTree, NoVersion, {}, {}, apply)
       /\ Latest # NoCommit /\ UNCHANGED upstream
  \/ /\ worker' = WorkerOf("cloned", worker.mem, worker.sha, upstream[Latest], worker.version, worker.todo, worker.writing, worker.apply)
     /\ worker.at = "listed" /\ UNCHANGED upstream
  \/ /\ worker.at = "cloned" /\ UNCHANGED upstream
     /\ worker' = WorkerOf("copying", worker.mem, worker.sha, worker.tree, release, Passing(worker.tree), worker.writing, worker.apply)
  \/ /\ worker.at = "copying" /\ UNCHANGED upstream
     /\ \E f \in worker.todo :
          worker' = WorkerOf(worker.at, worker.mem, worker.sha, worker.tree, worker.version, worker.todo, {f}, worker.apply)
  \/ /\ worker.at = "copying" /\ UNCHANGED upstream
     /\ \E f \in worker.writing :
          worker' = WorkerOf(worker.at, worker.mem, worker.sha, worker.tree, worker.version, worker.todo \ {f}, {}, worker.apply)
  \/ /\ worker.at = "copying" /\ UNCHANGED upstream
     /\ worker' = WorkerOf("ingesting", worker.mem, worker.sha, worker.tree, worker.version, worker.todo, worker.writing, worker.apply)
  \/ \E mem : worker' = WorkerOf("saving", mem, worker.sha, worker.tree, worker.version, worker.todo, worker.writing, worker.apply)

LEMMA WorkerSteps == Shapes /\ [SyncNext]_syncVars => WorkerStep
<1> SUFFICES ASSUME Shapes, [SyncNext]_syncVars PROVE WorkerStep
  OBVIOUS
<1>1. ASSUME NEW apply \in BOOLEAN, ls_remote(apply) PROVE WorkerStep
  BY <1>1, WorkerLists DEF WorkerStep, ls_remote
<1>2. ASSUME clone PROVE WorkerStep
  BY <1>2, WorkerClones DEF WorkerStep, clone
<1>3. ASSUME Promote PROVE WorkerStep
  <2>1. source_recency.version = release
    BY DEF source_recency
  <2> QED BY <1>3, <2>1, WorkerPromotes DEF WorkerStep, Promote
<1>4. ASSUME Hold \/ save_state \/ Crash PROVE WorkerStep
  BY <1>4 DEF WorkerStep, Hold, save_state, Crash
<1>5. ASSUME NEW f \in Files, OpenCopy(f) \/ CloseCopy(f) PROVE WorkerStep
  <2>1. CASE OpenCopy(f)
    <3>1. worker' = [worker EXCEPT !.writing = {f}] /\ worker.at = "copying" /\ f \in worker.todo
          /\ UNCHANGED upstream
      BY <2>1 DEF OpenCopy
    <3>2. worker' = WorkerOf(worker.at, worker.mem, worker.sha, worker.tree, worker.version, worker.todo, {f}, worker.apply)
      BY <3>1, WorkerGoesOn
    <3> QED BY <3>1, <3>2 DEF WorkerStep
  <2>2. CASE CloseCopy(f)
    <3>1. worker' = [worker EXCEPT !.todo = worker.todo \ {f}, !.writing = {}] /\ worker.at = "copying"
          /\ f \in worker.writing /\ UNCHANGED upstream
      BY <2>2 DEF CloseCopy
    <3>2. worker' = WorkerOf(worker.at, worker.mem, worker.sha, worker.tree, worker.version, worker.todo \ {f}, {}, worker.apply)
      BY <3>1, WorkerGoesOn
    <3> QED BY <3>1, <3>2 DEF WorkerStep
  <2> QED BY <1>5, <2>1, <2>2
<1>6. ASSUME NEW i \in Ingesters, BeginIngest(i) PROVE WorkerStep
  <2>1. CASE i = "worker"
    <3>1. worker' = [worker EXCEPT !.at = "ingesting"] /\ worker.at = "copying" /\ UNCHANGED upstream
      BY <1>6, <2>1 DEF BeginIngest
    <3>2. worker' = WorkerOf("ingesting", worker.mem, worker.sha, worker.tree, worker.version, worker.todo, worker.writing, worker.apply)
      BY <3>1, WorkerGoesOn
    <3> QED BY <3>1, <3>2 DEF WorkerStep
  <2>2. CASE i # "worker"
    BY <1>6, <2>2 DEF BeginIngest, WorkerStep
  <2> QED BY <2>1, <2>2
<1>7. ASSUME NEW i \in Ingesters, CommitIngest(i) PROVE WorkerStep
  <2>1. CASE i = "worker"
    <3>1. PICK mem : worker' = [worker EXCEPT !.at = "saving", !.mem = mem]
      BY <1>7, <2>1 DEF CommitIngest
    <3>2. worker' = WorkerOf("saving", mem, worker.sha, worker.tree, worker.version, worker.todo, worker.writing, worker.apply)
      BY <3>1, WorkerRecords
    <3> QED BY <3>2 DEF WorkerStep
  <2>2. CASE i # "worker"
    BY <1>7, <2>2 DEF CommitIngest, WorkerStep
  <2> QED BY <2>1, <2>2
<1>8. ASSUME NEW i \in Ingesters, Abort(i) PROVE WorkerStep
  <2>1. CASE i = "worker"
    <3>1. worker' = [worker EXCEPT !.at = "saving"]
      BY <1>8, <2>1 DEF Abort
    <3>2. worker' = WorkerOf("saving", worker.mem, worker.sha, worker.tree, worker.version, worker.todo, worker.writing, worker.apply)
      BY <3>1, WorkerGoesOn
    <3> QED BY <3>2 DEF WorkerStep
  <2>2. CASE i # "worker"
    BY <1>8, <2>2 DEF Abort, WorkerStep
  <2> QED BY <2>1, <2>2
<1>9. ASSUME \/ \E tree \in Trees, tag \in 1..MaxRelease : Push(tree, tag)
             \/ \E f \in Files : WritePart(f)
             \/ \E i \in Ingesters : ReadOn(i) \/ IngestFile(i)
             \/ ReadRevision \/ Answer \/ AnswerDegraded \/ Expire
             \/ UNCHANGED syncVars
      PROVE  WorkerStep
  BY <1>9 DEF Push, WritePart, ReadOn, IngestFile, ReadRevision, Answer, AnswerDegraded, Expire, library, syncVars, WorkerStep
<1>10. ASSUME NothingToIngest PROVE WorkerStep
  <2>1. PICK mem : worker' = [worker EXCEPT !.at = "saving", !.mem = mem]
    BY <1>10 DEF NothingToIngest
  <2>2. worker' = WorkerOf("saving", mem, worker.sha, worker.tree, worker.version, worker.todo, worker.writing, worker.apply)
    BY <2>1, WorkerRecords
  <2> QED BY <2>2 DEF WorkerStep
<1> QED BY <1>1, <1>2, <1>3, <1>4, <1>5, <1>6, <1>7, <1>8, <1>9, <1>10 DEF SyncNext, LibraryNext, SearchNext

LEMMA ShapesStep == Shapes /\ Cloned /\ [SyncNext]_syncVars => Shapes' /\ Cloned'
<1> SUFFICES ASSUME Shapes, Cloned, [SyncNext]_syncVars PROVE Shapes' /\ Cloned'
  OBVIOUS
<1>1. /\ upstream' \in Seq(Trees) /\ Latest \in Nat /\ Latest' \in Nat /\ Latest <= Latest'
      /\ \A n \in 1..Latest : upstream'[n] = upstream[n]
  BY UpstreamGrows DEF Shapes
<1>2. promoted' = [f \in Files |-> promoted'[f]]
  BY DEF Shapes, SyncNext, LibraryNext, SearchNext, syncVars, Push, library, ls_remote, clone, Promote, Hold, save_state,
           Crash, OpenCopy, WritePart, CloseCopy, NothingToIngest,
         BeginIngest, ReadOn, IngestFile, CommitIngest, Abort, ReadRevision, Answer, AnswerDegraded, Expire
<1>3. ingest' = [i \in Ingesters |-> ingest'[i]]
  BY DEF Shapes, SyncNext, LibraryNext, SearchNext, syncVars, Push, index, ls_remote, clone, Promote, Hold, save_state,
           Crash, OpenCopy, WritePart, CloseCopy, NothingToIngest,
         BeginIngest, ReadOn, IngestFile, CommitIngest, Abort, ReadRevision, Answer, AnswerDegraded, Expire, Ingesters
<1>4. WorkerStep
  BY WorkerSteps
<1>5. worker' = WorkerOf(worker'.at, worker'.mem, worker'.sha, worker'.tree, worker'.version, worker'.todo,
                         worker'.writing, worker'.apply)
  BY <1>4 DEF WorkerStep, Shapes, WorkerOf, Asleep
<1>6. Latest # NoCommit => Latest > 0
  BY <1>1, NoCommitAssumption
<1>7. \A n \in 1..Latest : n \in 1..Latest' /\ upstream'[n] = upstream[n]
  BY <1>1
<1>8. /\ worker'.at = "listed" => Latest' > 0
      /\ worker'.at \in {"cloned", "copying", "ingesting"} => \E n \in 1..Latest : worker'.tree = upstream[n]
      /\ worker'.at \in {"listed", "cloned"} => worker'.writing = {}
      /\ worker'.at = "copying" => worker'.writing \subseteq worker'.todo /\ worker'.todo \subseteq Passing(worker'.tree)
  BY <1>1, <1>4, <1>6 DEF WorkerStep, Cloned, WorkerOf, Asleep
<1>9. Cloned'
  BY <1>7, <1>8 DEF Cloned
<1> QED BY <1>1, <1>2, <1>3, <1>5, <1>9 DEF Shapes

\* No promoted file is lost, and what is new is of lines that were checked.
LEMMA CheckedStays ==
  ASSUME CheckedInv, [SyncNext]_syncVars,
         \A f \in Files : promoted'[f] = promoted[f] \/ (promoted'[f] \in Pieces(f) /\ promoted'[f] # Absent),
         \A i \in Ingesters : /\ ingest'[i].todo \subseteq iter_files
                              /\ ingest'[i].read \in Pieces(Min(ingest'[i].todo)) \/ ingest'[i].todo = {}
                              /\ \A r \in ingest'[i].wrote : Cut(r),
         \A r \in documents' : Cut(r)
  PROVE  CheckedInv'
<1>1. upstream \in Seq(Trees) /\ Shapes' /\ Cloned'
  BY ShapesStep DEF CheckedInv, Shapes
<1>2. \A f, text : text \in Pieces(f) => text \in Pieces(f)'
  BY <1>1, CheckedGrows
<1>3. \A r : Cut(r) => Cut(r)'
  BY <1>1, CheckedGrows
<1>4. \A f \in Files : promoted'[f] = Absent \/ promoted'[f] \in Pieces(f)'
  BY <1>2 DEF CheckedInv
<1>5. iter_files \subseteq iter_files'
  BY DEF iter_files
<1>6. \A i \in Ingesters : /\ ingest'[i].todo \subseteq iter_files'
                           /\ (ingest[i].read \in Pieces(Min(ingest[i].todo)))' \/ ingest'[i].todo = {}
                           /\ \A r \in ingest'[i].wrote : Cut(r)'
  BY <1>2, <1>3, <1>5
<1>7. \A r \in documents' : Cut(r)'
  BY <1>3
<1> QED BY <1>1, <1>4, <1>6, <1>7 DEF CheckedInv

\* The text a copy is made of, and each beginning of it, is of lines that passed.
LEMMA CopiedIs ==
  ASSUME CheckedInv, worker.at = "copying", NEW f \in worker.todo, NEW n \in Nat
  PROVE  LET part == SubSeq(worker.tree[f], 1, n) IN
         /\ f \in Files /\ Len(worker.tree[f]) \in Nat
         /\ n <= Len(worker.tree[f]) => part \in Pieces(f) /\ part # Absent
         /\ worker.tree[f] \in Pieces(f) /\ worker.tree[f] # Absent
<1>1. f \in Passing(worker.tree) /\ f \in Files /\ worker.tree[f] # Absent
  BY PassingIs DEF CheckedInv, Cloned
<1>2. PICK m \in 1..Latest : worker.tree = upstream[m]
  BY DEF CheckedInv, Cloned
<1>3. worker.tree \in Trees
  BY <1>2 DEF CheckedInv, Shapes, Latest
<1> DEFINE text == worker.tree[f]
<1>4. text \in Seq(ToSet(text)) /\ Len(text) \in Nat
  BY <1>1, <1>3, TreesAssumption DEF IsText
<1>5. n <= Len(text) => SubSeq(text, 1, n) # Absent
  BY <1>1, <1>3, <1>4, TreesAssumption
<1>6. ToSet(text) \subseteq CheckedLines(f)
  BY <1>1, <1>2 DEF CheckedLines, Checked
<1> HIDE DEF text
<1>7. text \in Seq(CheckedLines(f))
  BY <1>4, <1>6, SeqGrows
<1>8. n <= Len(text) => SubSeq(text, 1, n) \in Seq(CheckedLines(f))
  BY <1>4, <1>7
<1> QED BY <1>1, <1>4, <1>5, <1>7, <1>8 DEF Pieces, text

LEMMA CheckedCopy ==
  ASSUME CheckedInv, [SyncNext]_syncVars, NEW f \in Files, OpenCopy(f) \/ WritePart(f) \/ CloseCopy(f)
  PROVE  CheckedInv'
<1>1. /\ worker.at = "copying" /\ f \in worker.todo /\ UNCHANGED <<documents, ingest>>
  BY DEF OpenCopy, WritePart, CloseCopy, index, CheckedInv, Cloned
<1>2. \E text : promoted' = [promoted EXCEPT ![f] = text] /\ text \in Pieces(f) /\ text # Absent
  <2>1. CASE OpenCopy(f)
    <3>1. promoted' = [promoted EXCEPT ![f] = <<>>]
      BY <2>1 DEF OpenCopy
    <3>2. 0 <= Len(worker.tree[f])
      BY <1>1, CopiedIs
    <3>3. SubSeq(worker.tree[f], 1, 0) \in Pieces(f) /\ SubSeq(worker.tree[f], 1, 0) # Absent
      BY <1>1, <3>2, CopiedIs
    <3>4. SubSeq(worker.tree[f], 1, 0) = <<>>
      OBVIOUS
    <3> QED BY <3>1, <3>3, <3>4
  <2>2. CASE WritePart(f)
    <3>1. PICK n \in 1..Len(worker.tree[f]) - 1 : promoted' = [promoted EXCEPT ![f] = SubSeq(worker.tree[f], 1, n)]
      BY <2>2 DEF WritePart
    <3>2. n \in Nat /\ n <= Len(worker.tree[f])
      BY <1>1, CopiedIs
    <3> QED BY <1>1, <3>1, <3>2, CopiedIs
  <2>3. CASE CloseCopy(f)
    <3>1. promoted' = [promoted EXCEPT ![f] = worker.tree[f]]
      BY <2>3 DEF CloseCopy
    <3> QED BY <1>1, <3>1, CopiedIs
  <2> QED BY <2>1, <2>2, <2>3
<1>3. PICK text : promoted' = [promoted EXCEPT ![f] = text] /\ text \in Pieces(f) /\ text # Absent
  BY <1>2
<1>4. \A g \in Files : promoted'[g] = IF g = f THEN text ELSE promoted[g]
  BY <1>3 DEF CheckedInv, Shapes
<1> QED BY <1>1, <1>3, <1>4, CheckedStays DEF CheckedInv

\* A chunk's lines are lines of the text it was cut from.
LEMMA PartIsOf ==
  ASSUME NEW S, NEW text \in Seq(S), NEW a \in Nat, 1 <= a, NEW b \in Int, b <= Len(text)
  PROVE  SubSeq(text, a, b) \in Seq(S)
OBVIOUS

LEMMA ChunkIsOf ==
  ASSUME NEW S, NEW text \in Seq(S), NEW title, NEW c \in ChunkOf(title, text)
  PROVE  c.body \in Seq(S)
<1> DEFINE kept == {i \in DOMAIN text : ~Blank(text[i])}
<1>1. c.body = Strip(text)
  BY DEF ChunkOf
<1>2. CASE kept = {}
  BY <1>1, <1>2 DEF Strip
<1>3. CASE kept # {}
  <2>1. kept \subseteq Nat /\ Len(text) \in Nat /\ \A i \in kept : i \in Nat /\ 1 <= i
    OBVIOUS
  <2>2. \A i \in kept : i \in Nat /\ i <= Len(text)
    OBVIOUS
  <2>3. Strip(text) = SubSeq(text, Min(kept), Max(kept))
    BY <1>3 DEF Strip
  <2> HIDE DEF kept
  <2>4. Min(kept) \in kept /\ Max(kept) \in kept
    BY <1>3, <2>1, <2>2, MinOfNat, MaxOfNat
  <2>5. Min(kept) \in Nat /\ 1 <= Min(kept)
    BY <2>1, <2>4
  <2>6. Max(kept) \in Int /\ Max(kept) <= Len(text)
    BY <2>2, <2>4
  <2> QED BY <1>1, <2>3, <2>5, <2>6, PartIsOf
<1> QED BY <1>2, <1>3

\* Where a scope ends: before the next of some places, at the end of the text at last.
LEMMA EndIs ==
  ASSUME NEW n \in Nat, NEW places, \A i \in places : i \in 1..n
  PROVE  LET last == Min(places \cup {n + 1}) - 1 IN last \in Int /\ last <= n
<1>1. places \cup {n + 1} \subseteq Nat /\ n + 1 \in places \cup {n + 1}
  OBVIOUS
<1>2. Min(places \cup {n + 1}) \in Nat /\ Min(places \cup {n + 1}) <= n + 1
  BY <1>1, MinOfNat
<1> QED BY <1>2

LEMMA SectionsAreOf ==
  ASSUME NEW S, NEW text \in Seq(S), NEW kind, NEW whole, NEW lead, NEW c \in Sections(text, kind, whole, lead)
  PROVE  c.body \in Seq(S)
<1> DEFINE starts == Starts(text, kind)
<1>1. Len(text) \in Nat /\ \A i \in starts : i \in 1..Len(text)
  BY DEF Starts
<1>2. CASE starts = {}
  BY <1>2, ChunkIsOf DEF Sections
<1>3. CASE starts # {}
  <2>1. \/ c \in ChunkOf(lead, SubSeq(text, 1, Min(starts) - 1))
        \/ \E i \in starts : c \in ChunkOf(text[i], Scope(text, starts, i))
    BY <1>3 DEF Sections
  <2> HIDE DEF starts
  <2>2. Min(starts) - 1 \in Int /\ Min(starts) - 1 <= Len(text)
    <3>1. starts \subseteq Nat
      BY <1>1
    <3>2. Min(starts) \in starts
      BY <1>3, <3>1, MinOfNat
    <3> QED BY <1>1, <3>2
  <2>3. CASE c \in ChunkOf(lead, SubSeq(text, 1, Min(starts) - 1))
    <3>1. SubSeq(text, 1, Min(starts) - 1) \in Seq(S)
      BY <2>2, PartIsOf
    <3> QED BY <2>3, <3>1, ChunkIsOf
  <2>4. ASSUME NEW i \in starts, c \in ChunkOf(text[i], Scope(text, starts, i)) PROVE c.body \in Seq(S)
    <3> DEFINE after == {j \in starts : j > i}
    <3>1. Min(after \cup {Len(text) + 1}) - 1 \in Int /\ Min(after \cup {Len(text) + 1}) - 1 <= Len(text)
      BY <1>1, EndIs
    <3>2. Scope(text, starts, i) = SubSeq(text, i, Min(after \cup {Len(text) + 1}) - 1)
      BY DEF Scope
    <3> HIDE DEF after
    <3>3. i \in Nat /\ 1 <= i
      BY <1>1
    <3>4. Scope(text, starts, i) \in Seq(S)
      BY <3>1, <3>2, <3>3, PartIsOf
    <3> QED BY <2>4, <3>4, ChunkIsOf
  <2> QED BY <2>1, <2>3, <2>4
<1> QED BY <1>2, <1>3

LEMMA ChunksAreOf ==
  ASSUME NEW S, NEW text \in Seq(S), NEW kind \in Kinds, NEW grammar, NEW c \in chunk_file(text, kind, grammar)
  PROVE  c.body \in Seq(S)
<1>1. CASE kind = "markdown"
  BY <1>1, SectionsAreOf DEF chunk_file, chunk_markdown
<1>2. CASE kind = "raw"
  BY <1>2, ChunkIsOf DEF chunk_file
<1>3. CASE kind = "code"
  <2>1. c \in chunk_by_regex(text) \/ c \in chunk_with_tree_sitter(text)
    BY <1>3 DEF chunk_file, chunk_code
  <2>2. CASE c \in chunk_by_regex(text)
    BY <2>2, SectionsAreOf DEF chunk_by_regex
  <2>3. CASE c \in chunk_with_tree_sitter(text)
    <3>1. PICK i \in DOMAIN text : c \in ChunkOf(text[i], Node(text, i))
      BY <2>3 DEF chunk_with_tree_sitter, Nodes, Starts
    <3> DEFINE after == {j \in DOMAIN text : j > i /\ text[j].kind # "body"}
    <3>2. Len(text) \in Nat /\ i \in 1..Len(text) /\ \A j \in after : j \in 1..Len(text)
      OBVIOUS
    <3>3. Min(after \cup {Len(text) + 1}) - 1 \in Int /\ Min(after \cup {Len(text) + 1}) - 1 <= Len(text)
      BY <3>2, EndIs
    <3>4. Node(text, i) = SubSeq(text, i, Min(after \cup {Len(text) + 1}) - 1)
      BY DEF Node
    <3> HIDE DEF after
    <3>5. i \in Nat /\ 1 <= i
      BY <3>2
    <3>6. Node(text, i) \in Seq(S)
      BY <3>3, <3>4, <3>5, PartIsOf
    <3> QED BY <3>1, <3>6, ChunkIsOf
  <2> QED BY <2>1, <2>2, <2>3
<1> QED BY <1>1, <1>2, <1>3 DEF Kinds

\* The file an ingest has to read next, and what is left of it.
LEMMA ReadingIs ==
  ASSUME CheckedInv, NEW i \in Ingesters, ingest[i].todo # {}
  PROVE  LET f == Min(ingest[i].todo) IN
         /\ f \in ingest[i].todo /\ f \in Files
         /\ ingest[i].read \in Pieces(f) /\ promoted[f] \in Pieces(f) /\ Unread(i, f) \in Pieces(f)
<1> DEFINE f == Min(ingest[i].todo)
<1>1. ingest[i].todo \subseteq iter_files /\ iter_files \subseteq Files
  BY DEF CheckedInv, iter_files
<1>2. f \in ingest[i].todo
  BY <1>1, MinOfNat, FilesAssumption
<1>3. ingest[i].read \in Pieces(f) /\ promoted[f] \in Pieces(f) /\ f \in Files
  BY <1>1, <1>2 DEF CheckedInv, iter_files
<1> HIDE DEF f
<1>4. Len(ingest[i].read) + 1 \in Nat /\ 1 <= Len(ingest[i].read) + 1 /\ Len(promoted[f]) \in Int /\ Len(promoted[f]) <= Len(promoted[f])
  BY <1>3 DEF Pieces
<1>5. Unread(i, f) \in Pieces(f)
  BY <1>3, <1>4, PartIsOf DEF Unread, Pieces
<1> QED BY <1>2, <1>3, <1>5 DEF f

LEMMA CheckedReads ==
  ASSUME CheckedInv, [SyncNext]_syncVars, NEW i \in Ingesters, ReadOn(i)
  PROVE  CheckedInv'
<1> DEFINE f == Min(ingest[i].todo)
<1>1. /\ ingest' = [ingest EXCEPT ![i] =
           [open |-> TRUE, stamp |-> @.stamp, todo |-> @.todo, read |-> @.read \o Unread(i, f),
            wrote |-> @.wrote, failed |-> @.failed]]
      /\ ingest[i].todo # {} /\ UNCHANGED <<promoted, documents>>
  BY DEF ReadOn, library
<1>2. ingest[i].read \in Pieces(f) /\ Unread(i, f) \in Pieces(f)
  BY <1>1, ReadingIs
<1>3. ingest[i].read \o Unread(i, f) \in Pieces(f)
  BY <1>2 DEF Pieces
<1>4. /\ ingest'[i].todo = ingest[i].todo /\ ingest'[i].wrote = ingest[i].wrote
      /\ ingest'[i].read \in Pieces(f)
      /\ \A j \in Ingesters \ {i} : ingest'[j] = ingest[j]
  BY <1>1, <1>3 DEF CheckedInv, Shapes
<1> QED BY <1>1, <1>4, CheckedStays DEF CheckedInv

LEMMA CheckedIngest ==
  ASSUME CheckedInv, [SyncNext]_syncVars, NEW i \in Ingesters, IngestFile(i)
  PROVE  CheckedInv'
<1> DEFINE f == Min(ingest[i].todo)
           made == RowsOf(i, f, ingest[i].read)
<1>1. ingest[i].todo # {} /\ UNCHANGED <<promoted, documents>>
  BY DEF IngestFile, library
<1>2. PICK lost \in SUBSET made :
        ingest' = [ingest EXCEPT ![i] =
          [open |-> TRUE, stamp |-> @.stamp, todo |-> @.todo \ {f}, read |-> <<>>,
           wrote |-> @.wrote \union (made \ lost), failed |-> @.failed \/ lost # {}]]
  BY DEF IngestFile
<1>3. f \in Files /\ ingest[i].read \in Pieces(f) /\ Kind[f] \in Kinds
  BY <1>1, ReadingIs, KindAssumption
<1> HIDE DEF f
<1>4. \A r \in made : r.file = f /\ r.chunk \in chunk_file(ingest[i].read, Kind[f], Grammar[i]) /\ r.body = Stored(r.chunk.body)
  BY DEF RowsOf
<1> HIDE DEF made
<1>5. \A r \in made : Cut(r)
  BY <1>3, <1>4, ChunksAreOf DEF Cut, Pieces
<1>6. \A g : <<>> \in Pieces(g)
  BY DEF Pieces
<1>7. /\ ingest'[i].todo \subseteq ingest[i].todo /\ ingest'[i].wrote \subseteq ingest[i].wrote \cup made
      /\ ingest'[i].read = <<>>
      /\ \A j \in Ingesters \ {i} : ingest'[j] = ingest[j]
  BY <1>2 DEF CheckedInv, Shapes
<1> QED BY <1>1, <1>5, <1>6, <1>7, CheckedStays DEF CheckedInv

LEMMA CheckedStep == CheckedInv /\ [SyncNext]_syncVars => CheckedInv'
<1> SUFFICES ASSUME CheckedInv, [SyncNext]_syncVars PROVE CheckedInv'
  OBVIOUS
<1>1. ASSUME UNCHANGED promoted, UNCHANGED documents, ingest' = ingest PROVE CheckedInv'
  BY <1>1, CheckedStays DEF CheckedInv
<1>2. ASSUME NEW i \in Ingesters, BeginIngest(i) PROVE CheckedInv'
  <2>1. /\ UNCHANGED <<promoted, documents>> /\ ingest'[i].todo = iter_files /\ ingest'[i].wrote = {}
        /\ ingest'[i].read = <<>> /\ \A j \in Ingesters \ {i} : ingest'[j] = ingest[j]
    BY <1>2 DEF BeginIngest, CheckedInv, Shapes
  <2>2. \A g : <<>> \in Pieces(g)
    BY DEF Pieces
  <2> QED BY <2>1, <2>2, CheckedStays DEF CheckedInv
<1>3. ASSUME NEW i \in Ingesters, CommitIngest(i) PROVE CheckedInv'
  <2>1. /\ UNCHANGED promoted /\ ingest'[i] = Closed /\ documents' \subseteq documents \cup ingest[i].wrote
        /\ \A j \in Ingesters \ {i} : ingest'[j] = ingest[j]
    BY <1>3 DEF CommitIngest, upsert_chunk, CheckedInv, Shapes
  <2> QED BY <2>1, CheckedStays DEF CheckedInv, Closed
<1>4. ASSUME NEW i \in Ingesters, Abort(i) PROVE CheckedInv'
  <2>1. /\ UNCHANGED <<promoted, documents>> /\ ingest'[i] = Closed
        /\ \A j \in Ingesters \ {i} : ingest'[j] = ingest[j]
    BY <1>4 DEF Abort, CheckedInv, Shapes
  <2> QED BY <2>1, CheckedStays DEF CheckedInv, Closed
<1>5. ASSUME Crash PROVE CheckedInv'
  <2>1. /\ UNCHANGED <<promoted, documents>> /\ ingest'["worker"] = Closed
        /\ \A j \in Ingesters \ {"worker"} : ingest'[j] = ingest[j]
    BY <1>5 DEF Crash, CheckedInv, Shapes, Ingesters
  <2> QED BY <2>1, CheckedStays DEF CheckedInv, Closed
<1>6. ASSUME \/ \E tree \in Trees, tag \in 1..MaxRelease : Push(tree, tag)
             \/ \E apply \in BOOLEAN : ls_remote(apply)
             \/ clone \/ Promote \/ Hold \/ save_state \/ NothingToIngest
             \/ ReadRevision \/ Answer \/ AnswerDegraded \/ Expire
             \/ UNCHANGED syncVars
      PROVE  CheckedInv'
  <2>1. UNCHANGED <<promoted, documents, ingest>>
    BY <1>6 DEF Push, ls_remote, clone, Promote, Hold, save_state, NothingToIngest, ReadRevision, Answer, AnswerDegraded, Expire,
         library, index, syncVars
  <2> QED BY <1>1, <2>1
<1> QED BY <1>2, <1>3, <1>4, <1>5, <1>6, CheckedCopy, CheckedReads, CheckedIngest
       DEF SyncNext, LibraryNext, SearchNext

LEMMA CheckedStarts == SyncInit => CheckedInv
<1> SUFFICES ASSUME SyncInit PROVE CheckedInv
  OBVIOUS
<1>1. Shapes
  BY DEF SyncInit, Shapes, NoTree, WorkerOf, Asleep
<1>2. Cloned /\ \A i \in Ingesters : ingest[i].todo = {} /\ ingest[i].wrote = {}
  BY DEF SyncInit, Cloned, Asleep, Closed
<1>3. documents = {} /\ \A f \in Files : promoted[f] = Absent
  BY DEF SyncInit, NoTree
<1> QED BY <1>1, <1>2, <1>3 DEF CheckedInv

\* No line of a text that failed the checks is promoted or searched, although
\* every ingest reads the whole promoted tree as it then is, files half written
\* too (knowledge_sync/qa.py, sync_worker.py, knowledge_corpus/ingest.py).
THEOREM CheckedOnly == SyncSpec => []OnlyCheckedIsSearched
<1>1. CheckedInv => OnlyCheckedIsSearched
  <2> SUFFICES ASSUME CheckedInv PROVE OnlyCheckedIsSearched
    OBVIOUS
  <2>1. \A f, text : text \in Pieces(f) => ToSet(text) \subseteq CheckedLines(f)
    BY DEF Pieces, ToSet
  <2>2. ASSUME NEW f, NEW body \in Pieces(f) PROVE Stored(body) \in Pieces(f)
    <3>1. CASE Len(body) > BodyLimit
      <4>1. Stored(body) = SubSeq(body, 1, BodyLimit) /\ BodyLimit \in Int /\ BodyLimit <= Len(body)
        BY <3>1, FilesAssumption DEF Stored, Pieces
      <4> QED BY <4>1, PartIsOf DEF Pieces
    <3>2. CASE ~(Len(body) > BodyLimit)
      BY <3>2 DEF Stored
    <3> QED BY <3>1, <3>2
  <2> QED BY <2>1, <2>2 DEF CheckedInv, Cut, OnlyCheckedIsSearched
<1> QED BY <1>1, CheckedStarts, CheckedStep, PTL DEF SyncSpec

(******************************* the chunks ********************************)
\* What is cut from a text loses no line but white space.
LEMMA StripKeeps ==
  ASSUME NEW S, NEW text \in Seq(S), NEW j \in DOMAIN text, ~Blank(text[j])
  PROVE  Strip(text) # <<>> /\ text[j] \in ToSet(Strip(text))
<1> DEFINE kept == {i \in DOMAIN text : ~Blank(text[i])}
           a == Min(kept)
           b == Max(kept)
<1>1. DOMAIN text = 1..Len(text) /\ Len(text) \in Nat
  OBVIOUS
<1>2. kept \subseteq Nat /\ j \in kept /\ \A i \in kept : i \in 1..Len(text) /\ i <= Len(text)
  BY <1>1
<1>3. a \in kept /\ a <= j
  BY <1>2, MinOfNat
<1>4. b \in kept /\ j <= b
  <2> HIDE DEF kept
  <2> QED BY <1>1, <1>2, MaxOfNat
<1>5. Strip(text) = SubSeq(text, a, b)
  BY <1>2 DEF Strip
<1> HIDE DEF a, b, kept
<1>6. a \in 1..Len(text) /\ b \in 1..Len(text) /\ j \in 1..Len(text) /\ a <= j /\ j <= b
  BY <1>2, <1>3, <1>4
<1>7. /\ DOMAIN Strip(text) = 1..(b - a + 1) /\ j - a + 1 \in 1..(b - a + 1)
      /\ Strip(text)[j - a + 1] = text[j]
  BY <1>1, <1>5, <1>6
<1>8. Strip(text) # <<>>
  <2>1. Len(Strip(text)) > 0
    BY <1>1, <1>5, <1>6
  <2> QED BY <2>1
<1> QED BY <1>7, <1>8 DEF ToSet

LEMMA PartCovers ==
  ASSUME NEW S, NEW text \in Seq(S), NEW a \in 1..Len(text), NEW b \in 0..Len(text),
         NEW j \in Nat, a <= j, j <= b, ~Blank(text[j]), NEW title
  PROVE  \E c \in ChunkOf(title, SubSeq(text, a, b)) : text[j] \in ToSet(c.body)
<1> DEFINE part == SubSeq(text, a, b)
<1>1. part \in Seq(S) /\ j - a + 1 \in DOMAIN part /\ part[j - a + 1] = text[j]
  OBVIOUS
<1> HIDE DEF part
<1>2. Strip(part) # <<>> /\ text[j] \in ToSet(Strip(part))
  BY <1>1, StripKeeps
<1>3. [title |-> title, body |-> Strip(part)] \in ChunkOf(title, part)
  BY <1>2 DEF ChunkOf
<1>4. [title |-> title, body |-> Strip(part)].body = Strip(part)
  OBVIOUS
<1> QED BY <1>2, <1>3, <1>4 DEF part

LEMMA WholeCovers ==
  ASSUME NEW S, NEW text \in Seq(S), NEW j \in DOMAIN text, ~Blank(text[j]), NEW title
  PROVE  \E c \in ChunkOf(title, text) : text[j] \in ToSet(c.body)
<1>1. Strip(text) # <<>> /\ text[j] \in ToSet(Strip(text))
  BY StripKeeps
<1>2. [title |-> title, body |-> Strip(text)] \in ChunkOf(title, text)
  BY <1>1 DEF ChunkOf
<1>3. [title |-> title, body |-> Strip(text)].body = Strip(text)
  OBVIOUS
<1> QED BY <1>1, <1>2, <1>3

LEMMA SectionsCover ==
  ASSUME NEW S, NEW text \in Seq(S), NEW j \in DOMAIN text, ~Blank(text[j]), NEW kind, NEW whole, NEW lead
  PROVE  \E c \in Sections(text, kind, whole, lead) : text[j] \in ToSet(c.body)
<1> DEFINE starts == Starts(text, kind)
           sections == ChunkOf(lead, SubSeq(text, 1, Min(starts) - 1))
                         \cup UNION {ChunkOf(text[i], Scope(text, starts, i)) : i \in starts}
<1>1. DOMAIN text = 1..Len(text) /\ Len(text) \in Nat
  OBVIOUS
<1>2. starts \subseteq Nat /\ \A i \in starts : i \in 1..Len(text)
  BY <1>1 DEF Starts
<1>3. CASE starts = {}
  BY <1>3, WholeCovers DEF Sections
<1>4. CASE starts # {}
  <2>1. Sections(text, kind, whole, lead) = sections
    BY <1>4 DEF Sections
  <2>2. Min(starts) \in starts /\ \A i \in starts : Min(starts) <= i
    BY <1>2, <1>4, MinOfNat
  <2>3. CASE j < Min(starts)
    <3>1. 1 \in 1..Len(text) /\ Min(starts) - 1 \in 0..Len(text) /\ j \in Nat /\ 1 <= j /\ j <= Min(starts) - 1
      BY <1>1, <1>2, <2>2, <2>3
    <3> HIDE DEF starts
    <3>2. \E c \in ChunkOf(lead, SubSeq(text, 1, Min(starts) - 1)) : text[j] \in ToSet(c.body)
      BY <3>1, PartCovers
    <3> QED BY <2>1, <3>2
  <2>4. CASE ~(j < Min(starts))
    <3> DEFINE before == {i \in starts : i <= j}
    <3>1. before \subseteq Nat /\ before # {} /\ (\A i \in before : i <= j) /\ j \in Nat
      BY <1>1, <1>2, <2>2, <2>4
    <3>2. PICK i \in before : \A n \in before : n <= i
      BY <3>1, MaxOfNat
    <3> DEFINE after == {n \in starts : n > i} \cup {Len(text) + 1}
    <3>3. after \subseteq Nat /\ after # {} /\ \A n \in after : n > j
      BY <1>1, <1>2, <3>2
    <3>4. Min(after) \in after /\ Min(after) > j /\ Min(after) <= Len(text) + 1
      BY <3>3, MinOfNat
    <3>5. Min(after) \in Nat /\ i \in starts /\ i <= j
      BY <3>2, <3>3, <3>4
    <3>6. Scope(text, starts, i) = SubSeq(text, i, Min(after) - 1)
      BY DEF Scope
    <3> HIDE DEF after, before, starts
    <3>7. i \in 1..Len(text) /\ Min(after) - 1 \in 0..Len(text) /\ j \in Nat /\ j <= Min(after) - 1
      BY <1>1, <1>2, <3>4, <3>5
    <3>8. \E c \in ChunkOf(text[i], SubSeq(text, i, Min(after) - 1)) : text[j] \in ToSet(c.body)
      BY <3>5, <3>7, PartCovers
    <3> QED BY <2>1, <3>5, <3>6, <3>8
  <2> QED BY <2>3, <2>4
<1> QED BY <1>3, <1>4

\* A line of a definition is in the definition's node.
LEMMA NodesCover ==
  ASSUME NEW text, IsText(text), NEW j \in DOMAIN text, text[j].kind \in {"def", "body"}
  PROVE  \E c \in chunk_with_tree_sitter(text) : text[j] \in ToSet(c.body)
<1> DEFINE S == ToSet(text)
           inside == {i \in 1..j : \A n \in i..j : n < j => text[n + 1].kind = "body"}
<1>1. text \in Seq(S) /\ DOMAIN text = 1..Len(text) /\ Len(text) \in Nat /\ j \in 1..Len(text)
  BY DEF IsText
<1>2. inside \subseteq Nat /\ j \in inside /\ \A i \in inside : i \in 1..j
  BY <1>1
<1>3. PICK i \in inside : \A n \in inside : i <= n
  BY <1>2, MinOfNat
<1>4. text[i].kind = "def"
  <2>1. i \in 1..Len(text) /\ i <= j
    BY <1>1, <1>2, <1>3
  <2>2. text[i].kind \in {"def", "body"}
    <3>1. CASE i = j
      BY <3>1
    <3>2. CASE i # j
      <4>1. text[i].kind = "body" => i > 1
        BY <1>1, <2>1 DEF IsText
      <4>2. i < j /\ text[i + 1].kind = "body" /\ i + 1 \in DOMAIN text
        BY <1>1, <1>3, <2>1, <3>2
      <4>3. text[(i + 1) - 1].kind \in {"def", "body"}
        BY <4>2 DEF IsText
      <4>4. (i + 1) - 1 = i
        BY <2>1
      <4> QED BY <4>3, <4>4
    <3> QED BY <3>1, <3>2
  <2>3. ASSUME text[i].kind = "body" PROVE FALSE
    <3>1. i > 1 /\ i - 1 \in 1..j
      BY <1>1, <2>1, <2>3 DEF IsText
    <3>2. ASSUME NEW n \in (i - 1)..j, n < j PROVE text[n + 1].kind = "body"
      <4>1. CASE n = i - 1
        <5>1. n + 1 = i
          BY <2>1, <4>1
        <5> QED BY <2>3, <5>1
      <4>2. CASE n # i - 1
        <5>1. n \in i..j
          BY <2>1, <3>2, <4>2
        <5> QED BY <1>3, <3>2, <5>1
      <4> QED BY <4>1, <4>2
    <3>3. i - 1 \in inside
      BY <3>1, <3>2
    <3> QED BY <1>3, <2>1, <3>3
  <2> QED BY <2>2, <2>3
<1>5. i \in 1..Len(text) /\ i <= j /\ i \in Nat /\ j \in Nat
  BY <1>1, <1>2, <1>3
<1>6. \A n \in DOMAIN text : n > i /\ n <= j => text[n].kind = "body"
  <2> SUFFICES ASSUME NEW n \in DOMAIN text, n > i, n <= j PROVE text[n].kind = "body"
    OBVIOUS
  <2>1. n - 1 \in i..j /\ n - 1 < j /\ (n - 1) + 1 = n
    BY <1>1, <1>5
  <2> QED BY <1>3, <2>1
<1> HIDE DEF inside, S
<1> DEFINE after == {n \in DOMAIN text : n > i /\ text[n].kind # "body"} \cup {Len(text) + 1}
<1>7. after \subseteq Nat /\ after # {} /\ \A n \in after : n > j
  BY <1>1, <1>5, <1>6
<1>8. Min(after) \in after /\ Min(after) > j /\ Min(after) <= Len(text) + 1 /\ Min(after) \in Nat
  BY <1>7, MinOfNat
<1>9. Node(text, i) = SubSeq(text, i, Min(after) - 1)
  BY DEF Node
<1> HIDE DEF after
<1>10. Min(after) - 1 \in 0..Len(text) /\ j <= Min(after) - 1
  BY <1>1, <1>5, <1>8
<1>11. ~Blank(text[j])
  BY DEF Blank
<1>12. \E c \in ChunkOf(text[i], SubSeq(text, i, Min(after) - 1)) : text[j] \in ToSet(c.body)
  BY <1>1, <1>5, <1>10, <1>11, PartCovers
<1>13. i \in Nodes(text)
  BY <1>1, <1>4, <1>5 DEF Starts, Nodes
<1>14. Node(text, i)[1] = text[i]
  BY <1>1, <1>5, <1>9, <1>10
<1>15. LongEnough(Node(text, i))
  BY <1>4, <1>14 DEF LongEnough
<1> QED BY <1>9, <1>12, <1>13, <1>15 DEF chunk_with_tree_sitter

\* Every line a search owes is in some chunk, whichever way a program was cut.
LEMMA ChunksCover ==
  ASSUME NEW text, IsText(text), NEW kind \in Kinds, NEW grammar \in BOOLEAN, NEW line \in Owed(text, kind)
  PROVE  \E c \in chunk_file(text, kind, grammar) : line \in ToSet(c.body)
<1>1. PICK j \in DOMAIN text : line = text[j] /\ ~Blank(text[j]) /\ (kind = "code" => text[j].kind \in {"def", "body"})
  BY DEF Owed
<1>2. text \in Seq(ToSet(text))
  BY DEF IsText
<1>3. CASE kind = "markdown"
  BY <1>1, <1>2, <1>3, SectionsCover DEF chunk_file, chunk_markdown
<1>4. CASE kind = "raw"
  BY <1>1, <1>2, <1>4, WholeCovers DEF chunk_file
<1>5. CASE kind = "code"
  <2>1. chunk_file(text, kind, grammar) = chunk_code(text, grammar)
    BY <1>5 DEF chunk_file
  <2>2. \E c \in chunk_by_regex(text) : line \in ToSet(c.body)
    BY <1>1, <1>2, SectionsCover DEF chunk_by_regex
  <2>3. \E c \in chunk_with_tree_sitter(text) : line \in ToSet(c.body)
    BY <1>1, <1>5, NodesCover
  <2> QED BY <2>1, <2>2, <2>3 DEF chunk_code
<1> QED BY <1>3, <1>4, <1>5 DEF Kinds

(************************ what a search must find **************************)
\* A commit the worker may record: one of upstream's, searchable if it is the latest.
Good(n) == n \in Nat /\ n <= Latest /\ (n = Latest /\ n # NoCommit => Searchable(n))

\* What the checks passed of the worker's tree is promoted.
TreePromoted(done) == \A f \in done : promoted[f] = worker.tree[f]

\* A row of the chunk is among the rows, with what is stored of it.
RowIn(written, f, c) == \E r \in written : r.file = f /\ r.chunk = c /\ r.body = Stored(c.body)

\* The chunks of the files that were read are written, unless one has failed;
\* of the next nothing has been read, or all.
Collected ==
  /\ ~ingest["worker"].failed =>
       \A f \in (Passing(worker.tree) \ Skipped) \ ingest["worker"].todo :
         \A c \in chunk_file(worker.tree[f], Kind[f], Grammar["worker"]) : RowIn(ingest["worker"].wrote, f, c)
  /\ \/ ingest["worker"].read = <<>>
     \/ ingest["worker"].read = promoted[Min(ingest["worker"].todo)]

SearchInv ==
  /\ Good(saved.last_good) /\ Good(worker.mem.last_good)
  /\ worker.sha \in Nat /\ worker.sha <= Latest
  /\ worker.at \in {"cloned", "copying", "ingesting"} /\ worker.sha = Latest => worker.tree = upstream[Latest]
  /\ worker.at = "copying" => TreePromoted(Passing(worker.tree) \ worker.todo)
  /\ worker.at = "ingesting" => TreePromoted(Passing(worker.tree)) /\ Collected
  /\ ingest["worker"].open => worker.at = "ingesting"

LEMMA FoundGrows ==
  ASSUME CheckedInv, [SyncNext]_syncVars
  PROVE  \A f, line : Found(f, line) => Found(f, line)'
<1>1. ASSUME NEW written, documents' = upsert_chunk(documents, written), \A w \in written : Cut(w),
             NEW f, NEW line, Found(f, line)
      PROVE  Found(f, line)'
  <2>1. PICK r \in documents : /\ r.file = f /\ line \in ToSet(r.chunk.body)
                               /\ line \in ToSet(r.body) \/ Len(r.chunk.body) > BodyLimit
    BY <1>1 DEF Found
  <2>2. CASE \A w \in written : UniqueKey(w) # UniqueKey(r)
    <3>1. r \in documents'
      BY <1>1, <2>2 DEF upsert_chunk
    <3> QED BY <2>1, <3>1 DEF Found
  <2>3. CASE \E w \in written : UniqueKey(w) = UniqueKey(r)
    <3>1. PICK w \in written : UniqueKey(w) = UniqueKey(r)
      BY <2>3
    <3>2. w.file = r.file /\ w.chunk = r.chunk
      BY <3>1 DEF UniqueKey
    <3>3. w \in documents'
      BY <1>1 DEF upsert_chunk
    <3>4. w.body = w.chunk.body \/ Len(w.chunk.body) > BodyLimit
      BY <1>1, <3>1 DEF Cut, Stored
    <3> QED BY <2>1, <3>2, <3>3, <3>4 DEF Found
  <2> QED BY <2>2, <2>3
<1>2. ASSUME UNCHANGED documents, NEW f, NEW line, Found(f, line) PROVE Found(f, line)'
  BY <1>2 DEF Found
<1>3. UNCHANGED documents \/ \E i \in Ingesters : documents' = upsert_chunk(documents, ingest[i].wrote)
  BY DEF SyncNext, LibraryNext, SearchNext, syncVars, Push, index, ls_remote, clone, Promote, Hold, save_state,
           Crash, OpenCopy, WritePart, CloseCopy, NothingToIngest,
         BeginIngest, ReadOn, IngestFile, CommitIngest, Abort, ReadRevision, Answer, AnswerDegraded, Expire
<1>4. ASSUME NEW i \in Ingesters, documents' = upsert_chunk(documents, ingest[i].wrote), NEW f, NEW line, Found(f, line)
      PROVE  Found(f, line)'
  BY <1>1, <1>4 DEF CheckedInv
<1> QED BY <1>2, <1>3, <1>4

LEMMA GoodStays ==
  ASSUME CheckedInv, [SyncNext]_syncVars, NEW n, Good(n)
  PROVE  Good(n)'
<1>1. /\ Latest \in Nat /\ Latest' \in Nat /\ Latest <= Latest'
      /\ \A m \in 1..Latest : upstream'[m] = upstream[m]
  BY UpstreamGrows DEF CheckedInv, Shapes
<1>2. n \in Nat /\ n <= Latest'
  BY <1>1 DEF Good
<1>3. ASSUME n = Latest', n # NoCommit PROVE Searchable(n)'
  <2>1. n = Latest /\ n \in 1..Latest /\ upstream'[n] = upstream[n]
    BY <1>1, <1>3, NoCommitAssumption DEF Good
  <2>2. Searchable(n)
    BY <1>3, <2>1 DEF Good
  <2> QED BY <2>1, <2>2, FoundGrows DEF Searchable
<1> QED BY <1>2, <1>3 DEF Good

\* The steps that leave the worker, what it promoted and its ingest alone.
LEMMA SearchStays ==
  ASSUME CheckedInv, SearchInv, [SyncNext]_syncVars,
         UNCHANGED <<saved, worker, promoted>>, ingest'["worker"] = ingest["worker"]
  PROVE  SearchInv'
<1>1. /\ Latest \in Nat /\ Latest' \in Nat /\ Latest <= Latest'
      /\ \A n \in 1..Latest : upstream'[n] = upstream[n]
  BY UpstreamGrows DEF CheckedInv, Shapes
<1>2. Good(saved.last_good)' /\ Good(worker.mem.last_good)'
  <2>1. \A n : Good(n) => Good(n)'
    BY GoodStays
  <2>2. Good(saved.last_good) /\ Good(worker.mem.last_good)
    BY DEF SearchInv
  <2> QED BY <2>1, <2>2 DEF Good
<1>3. worker'.sha \in Nat /\ worker'.sha <= Latest'
  BY <1>1 DEF SearchInv
<1>4. ASSUME worker'.at \in {"cloned", "copying", "ingesting"}, worker'.sha = Latest' PROVE worker'.tree = upstream'[Latest']
  <2>1. worker.sha = Latest /\ Latest' = Latest /\ worker.tree = upstream[Latest]
    BY <1>1, <1>4 DEF SearchInv
  <2>2. Latest \in 1..Latest
    BY <1>1, <1>4 DEF CheckedInv, Cloned
  <2> QED BY <1>1, <2>1, <2>2
<1> QED BY <1>2, <1>3, <1>4 DEF SearchInv, TreePromoted, Collected

\* The worker has done, or has given up.
LEMMA SearchEnds ==
  ASSUME CheckedInv, SearchInv, [SyncNext]_syncVars, worker' = Asleep,
         UNCHANGED saved \/ saved' = worker.mem, UNCHANGED upstream,
         ~ingest'["worker"].open
  PROVE  SearchInv'
<1>1. Good(saved.last_good)'
  <2>1. \A n : Good(n) => Good(n)'
    BY GoodStays
  <2>2. Good(saved'.last_good)
    BY DEF SearchInv
  <2> QED BY <2>1, <2>2 DEF Good
<1>2. Latest' \in Nat
  BY UpstreamGrows DEF CheckedInv, Shapes
<1>3. worker'.mem.last_good = 0 /\ worker'.sha = 0 /\ worker'.at = "idle"
  BY NoCommitAssumption DEF Asleep, Fresh
<1>4. Good(worker.mem.last_good)'
  BY <1>2, <1>3, NoCommitAssumption DEF Good
<1> QED BY <1>1, <1>2, <1>3, <1>4 DEF SearchInv

\* A step of the worker that leaves upstream and what is recorded alone.
LEMMA SearchGoesOn ==
  ASSUME CheckedInv, SearchInv, [SyncNext]_syncVars, UNCHANGED <<upstream, saved>>,
         Good(worker'.mem.last_good) \/ Good(worker.mem.last_good)', worker'.sha \in Nat, worker'.sha <= Latest,
         worker'.at \in {"cloned", "copying", "ingesting"} /\ worker'.sha = Latest => worker'.tree = upstream[Latest],
         worker'.at = "copying" => TreePromoted(Passing(worker.tree) \ worker.todo)',
         worker'.at = "ingesting" => (TreePromoted(Passing(worker.tree)) /\ Collected)',
         ingest'["worker"].open => worker'.at = "ingesting"
  PROVE  SearchInv'
<1>1. \A n : Good(n) => Good(n)'
  BY GoodStays
<1>2. Good(saved'.last_good)
  BY DEF SearchInv
<1>3. Good(saved.last_good)' /\ Good(worker.mem.last_good)'
  BY <1>1, <1>2 DEF Good
<1>4. Latest' = Latest
  BY DEF Latest
<1> QED BY <1>3, <1>4 DEF SearchInv

LEMMA SearchLists ==
  ASSUME CheckedInv, SearchInv, [SyncNext]_syncVars, NEW apply \in BOOLEAN, ls_remote(apply)
  PROVE  SearchInv'
<1>1. worker' = WorkerOf("listed", saved, Latest, NoTree, NoVersion, {}, {}, apply)
  BY WorkerLists
<1>2. UNCHANGED <<upstream, saved, ingest>> /\ ~ingest["worker"].open
  BY DEF ls_remote, index, SearchInv
<1>3. Latest \in Nat
  BY UpstreamGrows DEF CheckedInv, Shapes
<1>4. worker'.mem = saved /\ worker'.sha = Latest /\ worker'.at = "listed"
  BY <1>1 DEF WorkerOf
<1>5. Good(worker'.mem.last_good)
  BY <1>4 DEF SearchInv
<1> QED BY <1>2, <1>3, <1>4, <1>5, SearchGoesOn

LEMMA SearchClones ==
  ASSUME CheckedInv, SearchInv, [SyncNext]_syncVars, clone
  PROVE  SearchInv'
<1>1. worker' = WorkerOf("cloned", worker.mem, worker.sha, upstream[Latest], worker.version, worker.todo, worker.writing, worker.apply)
  BY WorkerClones DEF CheckedInv
<1>2. UNCHANGED <<upstream, saved, ingest>> /\ ~ingest["worker"].open
  BY DEF clone, index, SearchInv
<1>3. worker'.mem = worker.mem /\ worker'.sha = worker.sha /\ worker'.at = "cloned" /\ worker'.tree = upstream[Latest]
  BY <1>1 DEF WorkerOf
<1>4. Good(worker'.mem.last_good) /\ worker.sha \in Nat /\ worker.sha <= Latest
  BY <1>3 DEF SearchInv
<1> QED BY <1>2, <1>3, <1>4, SearchGoesOn

LEMMA SearchPromotes ==
  ASSUME CheckedInv, SearchInv, [SyncNext]_syncVars, Promote
  PROVE  SearchInv'
<1>1. worker' = WorkerOf("copying", worker.mem, worker.sha, worker.tree, source_recency.version,
                         Passing(worker.tree), worker.writing, worker.apply)
  BY WorkerPromotes DEF CheckedInv
<1>2. UNCHANGED <<upstream, saved, ingest>> /\ ~ingest["worker"].open /\ worker.at = "cloned"
  BY DEF Promote, index, SearchInv
<1>3. /\ worker'.mem = worker.mem /\ worker'.sha = worker.sha /\ worker'.at = "copying"
      /\ worker'.tree = worker.tree /\ worker'.todo = Passing(worker.tree)
  BY <1>1 DEF WorkerOf
<1>4. /\ Good(worker'.mem.last_good) /\ worker.sha \in Nat /\ worker.sha <= Latest
      /\ worker.sha = Latest => worker.tree = upstream[Latest]
  BY <1>2, <1>3 DEF SearchInv
<1>5. Passing(worker'.tree) \ worker'.todo = {}
  BY <1>3
<1>6. TreePromoted(Passing(worker.tree) \ worker.todo)'
  BY <1>5 DEF TreePromoted
<1> QED BY <1>2, <1>3, <1>4, <1>6, SearchGoesOn

\* The worker writes a file it has still to copy, or the last of one.
LEMMA SearchCopies ==
  ASSUME CheckedInv, SearchInv, [SyncNext]_syncVars, NEW f \in Files,
         OpenCopy(f) \/ WritePart(f) \/ CloseCopy(f)
  PROVE  SearchInv'
<1>1. worker.at = "copying" /\ f \in worker.todo /\ UNCHANGED <<upstream, saved, ingest>>
  BY DEF OpenCopy, WritePart, CloseCopy, index, CheckedInv, Cloned
<1>2. /\ worker'.mem = worker.mem /\ worker'.sha = worker.sha /\ worker'.at = "copying"
      /\ worker'.tree = worker.tree
      /\ worker'.todo = worker.todo \/ (worker'.todo = worker.todo \ {f} /\ CloseCopy(f))
  <2>1. CASE OpenCopy(f)
    <3>1. worker' = [worker EXCEPT !.writing = {f}]
      BY <2>1 DEF OpenCopy
    <3>2. worker' = WorkerOf(worker.at, worker.mem, worker.sha, worker.tree, worker.version, worker.todo, {f}, worker.apply)
      BY <3>1, WorkerGoesOn DEF CheckedInv
    <3> QED BY <1>1, <3>2 DEF WorkerOf
  <2>2. CASE WritePart(f)
    BY <1>1, <2>2 DEF WritePart
  <2>3. CASE CloseCopy(f)
    <3>1. worker' = [worker EXCEPT !.todo = worker.todo \ {f}, !.writing = {}]
      BY <2>3 DEF CloseCopy
    <3>2. worker' = WorkerOf(worker.at, worker.mem, worker.sha, worker.tree, worker.version, worker.todo \ {f}, {}, worker.apply)
      BY <3>1, WorkerGoesOn DEF CheckedInv
    <3> QED BY <1>1, <2>3, <3>2 DEF WorkerOf
  <2> QED BY <2>1, <2>2, <2>3
<1>3. /\ \A g \in Passing(worker.tree) \ {f} : promoted'[g] = promoted[g]
      /\ CloseCopy(f) => promoted'[f] = worker.tree[f]
  BY PassingIs DEF OpenCopy, WritePart, CloseCopy, CheckedInv, Shapes
<1>4. /\ Good(worker'.mem.last_good) /\ worker.sha \in Nat /\ worker.sha <= Latest
      /\ worker.sha = Latest => worker.tree = upstream[Latest]
      /\ TreePromoted(Passing(worker.tree) \ worker.todo) /\ ~ingest["worker"].open
  BY <1>1, <1>2 DEF SearchInv
<1>5. TreePromoted(Passing(worker.tree) \ worker.todo)'
  BY <1>1, <1>2, <1>3, <1>4 DEF TreePromoted
<1> QED BY <1>1, <1>2, <1>4, <1>5, SearchGoesOn

LEMMA SearchBegins ==
  ASSUME CheckedInv, SearchInv, [SyncNext]_syncVars, BeginIngest("worker")
  PROVE  SearchInv'
<1>1. /\ worker' = [worker EXCEPT !.at = "ingesting"] /\ worker.at = "copying" /\ worker.todo = {}
      /\ UNCHANGED <<upstream, saved, promoted>> /\ ingest'["worker"].todo = iter_files
      /\ ingest'["worker"].read = <<>>
  BY DEF BeginIngest, CheckedInv, Shapes, Ingesters
<1>2. worker' = WorkerOf("ingesting", worker.mem, worker.sha, worker.tree, worker.version, worker.todo, worker.writing, worker.apply)
  BY <1>1, WorkerGoesOn DEF CheckedInv
<1>3. /\ worker'.mem = worker.mem /\ worker'.sha = worker.sha /\ worker'.at = "ingesting" /\ worker'.tree = worker.tree
  BY <1>1, <1>2 DEF WorkerOf
<1>4. /\ Good(worker'.mem.last_good) /\ worker.sha \in Nat /\ worker.sha <= Latest
      /\ worker.sha = Latest => worker.tree = upstream[Latest]
      /\ TreePromoted(Passing(worker.tree))
  BY <1>1, <1>3 DEF SearchInv, TreePromoted
<1>5. TreePromoted(Passing(worker.tree))'
  BY <1>1, <1>3, <1>4 DEF TreePromoted
<1>6. Passing(worker.tree) \ Skipped \subseteq iter_files
  BY <1>4, PassingIs DEF TreePromoted, iter_files
<1>7. Collected'
  BY <1>1, <1>3, <1>6 DEF Collected
<1> QED BY <1>1, <1>3, <1>4, <1>5, <1>7, SearchGoesOn

LEMMA WholeAndEmpty ==
  ASSUME NEW S, NEW text \in Seq(S)
  PROVE  /\ SubSeq(text, 1, Len(text)) = text /\ SubSeq(text, Len(text) + 1, Len(text)) = <<>>
         /\ text \o <<>> = text /\ <<>> \o text = text
<1>1. SubSeq(text, 1, Len(text)) = text
  OBVIOUS
<1>2. SubSeq(text, Len(text) + 1, Len(text)) = <<>>
  OBVIOUS
<1>3. text \o <<>> = text /\ <<>> \o text = text
  OBVIOUS
<1> QED BY <1>1, <1>2, <1>3

\* What the worker's ingest has read of a file, at its end, is the file.
LEMMA WorkerReads ==
  ASSUME CheckedInv, SearchInv, ingest["worker"].open, ingest["worker"].todo # {}
  PROVE  LET f == Min(ingest["worker"].todo)
             read == ingest["worker"].read
         IN  /\ read \o Unread("worker", f) = promoted[f]
             /\ Unread("worker", f) = <<>> => read = promoted[f]
<1> DEFINE f == Min(ingest["worker"].todo)
           read == ingest["worker"].read
<1>1. read = <<>> \/ read = promoted[f]
  BY DEF SearchInv, Collected
<1>2. promoted[f] \in Seq(CheckedLines(f))
  BY ReadingIs DEF Ingesters, Pieces
<1>3. Unread("worker", f) = SubSeq(promoted[f], Len(read) + 1, Len(promoted[f]))
  BY DEF Unread
<1> HIDE DEF f, read
<1>4. ASSUME read = <<>>
      PROVE  read \o Unread("worker", f) = promoted[f] /\ (Unread("worker", f) = <<>> => read = promoted[f])
  <2>1. Len(read) + 1 = 1
    BY <1>4
  <2>2. Unread("worker", f) = SubSeq(promoted[f], 1, Len(promoted[f]))
    BY <1>3, <2>1
  <2>3. Unread("worker", f) = promoted[f]
    BY <1>2, <2>2, WholeAndEmpty
  <2>4. <<>> \o promoted[f] = promoted[f]
    BY <1>2
  <2> QED BY <1>4, <2>3, <2>4
<1>5. ASSUME read = promoted[f]
      PROVE  read \o Unread("worker", f) = promoted[f] /\ (Unread("worker", f) = <<>> => read = promoted[f])
  <2>1. Unread("worker", f) = SubSeq(promoted[f], Len(promoted[f]) + 1, Len(promoted[f]))
    BY <1>3, <1>5
  <2>2. Unread("worker", f) = <<>>
    BY <1>2, <2>1, WholeAndEmpty
  <2>3. promoted[f] \o <<>> = promoted[f]
    BY <1>2
  <2> QED BY <1>5, <2>2, <2>3
<1> QED BY <1>1, <1>4, <1>5 DEF f, read

LEMMA SearchReads ==
  ASSUME CheckedInv, SearchInv, [SyncNext]_syncVars, ReadOn("worker")
  PROVE  SearchInv'
<1> DEFINE f == Min(ingest["worker"].todo)
<1>1. /\ ingest["worker"].open /\ ingest["worker"].todo # {}
      /\ UNCHANGED <<upstream, saved, worker, promoted>>
      /\ ingest' = [ingest EXCEPT !["worker"] =
           [open |-> TRUE, stamp |-> @.stamp, todo |-> @.todo, read |-> @.read \o Unread("worker", f),
            wrote |-> @.wrote, failed |-> @.failed]]
  BY DEF ReadOn, library
<1>2. ingest["worker"].read \o Unread("worker", f) = promoted[f]
  BY <1>1, WorkerReads
<1>3. /\ ingest'["worker"].todo = ingest["worker"].todo /\ ingest'["worker"].wrote = ingest["worker"].wrote
      /\ ingest'["worker"].failed = ingest["worker"].failed /\ ingest'["worker"].read = promoted[f]
  BY <1>1, <1>2 DEF CheckedInv, Shapes, Ingesters
<1>4. /\ worker.at = "ingesting" /\ TreePromoted(Passing(worker.tree)) /\ Collected
      /\ Good(worker.mem.last_good) /\ worker.sha \in Nat /\ worker.sha <= Latest
      /\ worker.sha = Latest => worker.tree = upstream[Latest]
  BY <1>1 DEF SearchInv
<1>5. TreePromoted(Passing(worker.tree))' /\ Collected'
  BY <1>1, <1>3, <1>4 DEF TreePromoted, Collected
<1> QED BY <1>1, <1>4, <1>5, SearchGoesOn

LEMMA SearchCollects ==
  ASSUME CheckedInv, SearchInv, [SyncNext]_syncVars, IngestFile("worker")
  PROVE  SearchInv'
<1> DEFINE f == Min(ingest["worker"].todo)
           made == RowsOf("worker", f, ingest["worker"].read)
<1>1. PICK lost \in SUBSET made :
        ingest' = [ingest EXCEPT !["worker"] =
          [open |-> TRUE, stamp |-> @.stamp, todo |-> @.todo \ {f}, read |-> <<>>,
           wrote |-> @.wrote \union (made \ lost), failed |-> @.failed \/ lost # {}]]
  BY DEF IngestFile
<1>2. /\ UNCHANGED <<upstream, saved, worker, promoted>> /\ ingest["worker"].open
      /\ worker.at = "ingesting" /\ TreePromoted(Passing(worker.tree)) /\ Collected
      /\ Good(worker.mem.last_good) /\ worker.sha \in Nat /\ worker.sha <= Latest
      /\ worker.sha = Latest => worker.tree = upstream[Latest]
  BY DEF IngestFile, library, SearchInv
<1>3. ingest["worker"].read = promoted[f]
  BY WorkerReads DEF IngestFile
<1> HIDE DEF f
<1>4. \A c \in chunk_file(promoted[f], Kind[f], Grammar["worker"]) : RowIn(made, f, c)
  <2> SUFFICES ASSUME NEW c \in chunk_file(promoted[f], Kind[f], Grammar["worker"])
               PROVE  RowIn(made, f, c)
    OBVIOUS
  <2>1. PICK r : r = [file |-> f, version |-> worker.version, chunk |-> c, body |-> Stored(c.body),
                      updated_at |-> ingest["worker"].stamp]
    OBVIOUS
  <2>2. r \in made /\ r.file = f /\ r.chunk = c /\ r.body = Stored(c.body)
    BY <1>3, <2>1 DEF RowsOf
  <2> QED BY <2>2 DEF RowIn
<1> HIDE DEF made
<1>5. /\ ingest'["worker"].todo = ingest["worker"].todo \ {f} /\ ingest'["worker"].read = <<>>
      /\ ingest'["worker"].wrote = ingest["worker"].wrote \cup (made \ lost)
      /\ ingest'["worker"].failed = (ingest["worker"].failed \/ lost # {})
  BY <1>1 DEF CheckedInv, Shapes, Ingesters
<1>6. TreePromoted(Passing(worker.tree))'
  BY <1>2 DEF TreePromoted
<1>7. Collected'
  <2> SUFFICES ASSUME ~ingest'["worker"].failed,
                      NEW g \in (Passing(worker.tree) \ Skipped) \ ingest'["worker"].todo,
                      NEW c \in chunk_file(worker.tree[g], Kind[g], Grammar["worker"])
               PROVE  RowIn(ingest'["worker"].wrote, g, c)
    BY <1>2, <1>5 DEF Collected
  <2>1. ~ingest["worker"].failed /\ lost = {}
    BY <1>5
  <2>2. CASE g \in ingest["worker"].todo
    <3>1. g = f /\ worker.tree[g] = promoted[f]
      BY <1>2, <1>5, <2>2 DEF TreePromoted
    <3> QED BY <1>4, <1>5, <2>1, <3>1 DEF RowIn
  <2>3. CASE g \notin ingest["worker"].todo
    <3>1. RowIn(ingest["worker"].wrote, g, c)
      BY <1>2, <2>1, <2>3 DEF Collected
    <3> QED BY <1>5, <3>1 DEF RowIn
  <2> QED BY <2>2, <2>3
<1> QED BY <1>2, <1>6, <1>7, SearchGoesOn

LEMMA SearchCommits ==
  ASSUME CheckedInv, SearchInv, [SyncNext]_syncVars, CommitIngest("worker")
  PROVE  SearchInv'
<1> DEFINE mem == IF ingest["worker"].failed THEN worker.mem
                  ELSE [last_good |-> worker.sha, version |-> worker.version]
<1>1. /\ worker' = [worker EXCEPT !.at = "saving", !.mem = mem]
      /\ UNCHANGED <<upstream, saved, promoted>> /\ ingest["worker"].open /\ ingest["worker"].todo = {}
      /\ documents' = upsert_chunk(documents, ingest["worker"].wrote) /\ ingest'["worker"] = Closed
  BY DEF CommitIngest, CheckedInv, Shapes, Ingesters
<1> HIDE DEF mem
<1>2. worker' = WorkerOf("saving", mem, worker.sha, worker.tree, worker.version, worker.todo, worker.writing, worker.apply)
  BY <1>1, WorkerRecords DEF CheckedInv
<1>3. worker'.mem = mem /\ worker'.sha = worker.sha /\ worker'.at = "saving"
  BY <1>2 DEF WorkerOf
<1>4. /\ worker.at = "ingesting" /\ TreePromoted(Passing(worker.tree)) /\ Collected
      /\ Good(worker.mem.last_good) /\ worker.sha \in Nat /\ worker.sha <= Latest
      /\ worker.sha = Latest => worker.tree = upstream[Latest]
  BY <1>1 DEF SearchInv
<1>5. \A n : Good(n) => Good(n)'
  BY GoodStays
<1>6. ASSUME ~ingest["worker"].failed, NEW n, n = worker.sha PROVE Good(n)'
  <2>1. ASSUME n = Latest, NEW f \in Passing(upstream[Latest]) \ Skipped, NEW line \in Owed(upstream[Latest][f], Kind[f])
        PROVE  Found(f, line)'
    <3>1. worker.tree = upstream[Latest] /\ f \in Files /\ upstream[Latest][f] # Absent
      BY <1>4, <1>6, <2>1, PassingIs
    <3>2. Latest \in 1..Latest /\ upstream[Latest] \in Trees
      BY <1>4 DEF CheckedInv, Cloned, Shapes, Latest
    <3>3. IsText(upstream[Latest][f]) /\ Kind[f] \in Kinds /\ Grammar["worker"] \in BOOLEAN
      BY <3>1, <3>2, TreesAssumption, KindAssumption DEF Ingesters
    <3>4. PICK c \in chunk_file(upstream[Latest][f], Kind[f], Grammar["worker"]) : line \in ToSet(c.body)
      BY <3>3, ChunksCover
    <3>5. PICK r \in ingest["worker"].wrote : r.file = f /\ r.chunk = c /\ r.body = Stored(c.body)
      BY <1>1, <1>4, <1>6, <3>1, <3>4 DEF Collected, RowIn
    <3>6. r \in documents'
      BY <1>1 DEF upsert_chunk
    <3>7. r.body = r.chunk.body \/ Len(r.chunk.body) > BodyLimit
      BY <3>5 DEF Stored
    <3> QED BY <3>4, <3>5, <3>6, <3>7 DEF Found
  <2>2. Latest' = Latest /\ upstream' = upstream
    BY <1>1 DEF Latest
  <2>3. n = Latest => Searchable(n)'
    BY <2>1, <2>2 DEF Searchable
  <2> QED BY <1>4, <1>6, <2>2, <2>3 DEF Good
<1>7. ASSUME NEW n, n = mem.last_good PROVE Good(n)'
  <2>1. CASE ingest["worker"].failed
    BY <1>4, <1>5, <1>7, <2>1 DEF mem
  <2>2. CASE ~ingest["worker"].failed
    <3>1. n = worker.sha
      BY <1>7, <2>2 DEF mem
    <3> QED BY <1>6, <2>2, <3>1
  <2> QED BY <2>1, <2>2
<1>8. Good(worker.mem.last_good)'
  BY <1>3, <1>7 DEF Good
<1> QED BY <1>1, <1>3, <1>4, <1>8, SearchGoesOn DEF Closed

\* Nothing is ingested: what passed is passed over.
LEMMA SearchEmpty ==
  ASSUME CheckedInv, SearchInv, [SyncNext]_syncVars, NothingToIngest
  PROVE  SearchInv'
<1> DEFINE mem == [last_good |-> worker.sha, version |-> worker.version]
<1>1. /\ worker' = [worker EXCEPT !.at = "saving", !.mem = mem] /\ worker.at = "copying" /\ worker.todo = {}
      /\ iter_files = {} /\ UNCHANGED <<upstream, saved, ingest>>
  BY DEF NothingToIngest, index
<1>2. worker' = WorkerOf("saving", mem, worker.sha, worker.tree, worker.version, worker.todo, worker.writing, worker.apply)
  BY <1>1, WorkerRecords DEF CheckedInv
<1>3. worker'.mem = mem /\ worker'.sha = worker.sha /\ worker'.at = "saving" /\ mem.last_good = worker.sha
  BY <1>2 DEF WorkerOf
<1>4. /\ worker.sha \in Nat /\ worker.sha <= Latest
      /\ worker.sha = Latest => worker.tree = upstream[Latest]
      /\ TreePromoted(Passing(worker.tree)) /\ ~ingest["worker"].open
  BY <1>1 DEF SearchInv, TreePromoted
<1>5. \A f \in Passing(worker.tree) : f \in Skipped
  BY <1>1, <1>4, PassingIs DEF TreePromoted, iter_files
<1>6. Good(worker.sha)
  BY <1>4, <1>5 DEF Good, Searchable
<1> QED BY <1>1, <1>3, <1>4, <1>6, SearchGoesOn

LEMMA SearchAborts ==
  ASSUME CheckedInv, SearchInv, [SyncNext]_syncVars, Abort("worker")
  PROVE  SearchInv'
<1>1. /\ worker' = [worker EXCEPT !.at = "saving"] /\ UNCHANGED <<upstream, saved>> /\ ingest'["worker"] = Closed
  BY DEF Abort, CheckedInv, Shapes, Ingesters
<1>2. worker' = WorkerOf("saving", worker.mem, worker.sha, worker.tree, worker.version, worker.todo, worker.writing, worker.apply)
  BY <1>1, WorkerGoesOn DEF CheckedInv
<1>3. worker'.mem = worker.mem /\ worker'.sha = worker.sha /\ worker'.at = "saving"
  BY <1>2 DEF WorkerOf
<1>4. Good(worker'.mem.last_good) /\ worker.sha \in Nat /\ worker.sha <= Latest
  BY <1>3 DEF SearchInv
<1> QED BY <1>1, <1>3, <1>4, SearchGoesOn DEF Closed

LEMMA SearchStep == CheckedInv /\ SearchInv /\ [SyncNext]_syncVars => SearchInv'
<1> SUFFICES ASSUME CheckedInv, SearchInv, [SyncNext]_syncVars PROVE SearchInv'
  OBVIOUS
<1>1. ASSUME \/ \E tree \in Trees, tag \in 1..MaxRelease : Push(tree, tag)
             \/ ReadRevision \/ Answer \/ AnswerDegraded \/ Expire
             \/ UNCHANGED syncVars
      PROVE  SearchInv'
  BY <1>1, SearchStays DEF Push, ReadRevision, Answer, AnswerDegraded, Expire, library, index, syncVars
<1>2. ASSUME BeginIngest("operator") \/ ReadOn("operator") \/ IngestFile("operator") \/ CommitIngest("operator") \/ Abort("operator")
      PROVE  SearchInv'
  <2>1. UNCHANGED <<saved, worker, promoted>> /\ ingest'["worker"] = ingest["worker"]
    BY <1>2 DEF BeginIngest, ReadOn, IngestFile, CommitIngest, Abort, library, CheckedInv, Shapes, Ingesters
  <2> QED BY <2>1, SearchStays
<1>3. ASSUME Hold \/ save_state PROVE SearchInv'
  <2>1. worker.at # "ingesting" /\ worker' = Asleep /\ UNCHANGED <<upstream, ingest>>
        /\ (UNCHANGED saved \/ saved' = worker.mem)
    BY <1>3 DEF Hold, save_state, index
  <2>2. ~ingest'["worker"].open
    BY <2>1 DEF SearchInv
  <2> QED BY <2>1, <2>2, SearchEnds
<1>4. ASSUME Crash PROVE SearchInv'
  <2>1. worker' = Asleep /\ UNCHANGED <<upstream, saved>> /\ ingest'["worker"] = Closed
    BY <1>4 DEF Crash, CheckedInv, Shapes, Ingesters
  <2> QED BY <2>1, SearchEnds DEF Closed
<1>5. CASE SyncNext
  BY <1>1, <1>2, <1>3, <1>4, <1>5, SearchLists, SearchClones, SearchPromotes, SearchCopies, SearchBegins,
     SearchReads, SearchCollects, SearchCommits, SearchAborts, SearchEmpty DEF SyncNext, LibraryNext, SearchNext, Ingesters
<1> QED BY <1>1, <1>5

\* A commit for which the worker has nothing to do can be searched: what a
\* search must find of the files that passed the checks is in some chunk
\* (sync_remote, save_state, ingest.py and chunkers.py).
THEOREM NothingIsMissed == SyncSpec => []NothingToDoIsSearchable
<1>1. SyncInit => CheckedInv /\ SearchInv
  <2> SUFFICES ASSUME SyncInit PROVE SearchInv
    BY CheckedStarts
  <2>1. Latest = 0 /\ Good(0)
    BY NoCommitAssumption DEF SyncInit, Latest, Good
  <2>2. saved.last_good = 0 /\ worker.mem.last_good = 0 /\ worker.sha = 0 /\ worker.at = "idle"
        /\ ~ingest["worker"].open
    BY NoCommitAssumption DEF SyncInit, Fresh, Asleep, Closed, Ingesters
  <2> QED BY <2>1, <2>2 DEF SearchInv
<1>2. SearchInv => NothingToDoIsSearchable
  BY DEF SearchInv, Good, NothingToDoIsSearchable
<1>3. CheckedInv /\ SearchInv /\ [SyncNext]_syncVars => (CheckedInv /\ SearchInv)'
  BY CheckedStep, SearchStep
<1> QED BY <1>1, <1>2, <1>3, PTL DEF SyncSpec
=============================================================================

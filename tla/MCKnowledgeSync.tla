--------------------------- MODULE MCKnowledgeSync ---------------------------
(* A document, a program with a tiny definition, and a document in a directory *)
(* an ingest passes over (docs/build/); bodies of three lines are cut.         *)
EXTENDS KnowledgeSync

CONSTANT absent

Line(kind, n) == [kind |-> kind, n |-> n, to |-> 2]

Guide == <<Line("head", 2), Line("link", 3)>>
Leaked == <<Line("head", 2), Line("secret", 5)>>
Program == <<Line("tiny", 1), Line("def", 2)>>
Program2 == <<Line("def", 2), Line("body", 8), Line("body", 9)>>
Built == <<Line("head", 9)>>

MCFiles == {1, 2, 3}
MCKind == [f \in MCFiles |-> IF f = 2 THEN "code" ELSE "markdown"]
Tree(a, b, c) == [f \in MCFiles |-> CASE f = 1 -> a [] f = 2 -> b [] f = 3 -> c]
Checked1 == Tree(Guide, Program, absent)
Checked2 == Tree(Leaked, Program2, absent)
OnlyBuilt == Tree(Guide, absent, Built)
Short == Tree(<<Line("head", 2)>>, absent, absent)
Longer == Tree(<<Line("head", 2), Line("prose", 4)>>, absent, absent)
MCTrees == {Checked1, Checked2, OnlyBuilt, Short, Longer}
MCRemote == [enrolled |-> TRUE, auto_promote |-> TRUE, max_changed |-> 1, pinned |-> 1]
MCGrammar == [i \in Ingesters |-> i = "worker"]
MCSkipped == {3}

\* What upstream commits: one document, of one line more or less, which searches
\* and their cache see; or a repository, checked and ingested without them.
OneDocument == {<<Short, Longer>>, <<Longer, Short>>}
Repositories == {<<Checked1, Checked2>>, <<Checked2, Checked1>>, <<OnlyBuilt, Checked1>>}
OnTheWayTo(histories) == \E h \in histories : upstream = SubSeq(h, 1, Latest)

MCBound ==
  \/ OnTheWayTo(OneDocument)
  \/ OnTheWayTo(Repositories) /\ release = 1 /\ ~search.busy /\ cache = {}
=============================================================================

------------------------------ MODULE Chunkers ------------------------------
(***************************************************************************)
(* scripts/engineering/knowledge_corpus/chunkers.py: how a file of the     *)
(* knowledge corpus is cut into the chunks that are searched.  A text is a *)
(* sequence of lines; a line is a record whose kind says what the chunkers *)
(* and the quality checks see in it:                                       *)
(*                                                                         *)
(*   "head"    a Markdown heading            "def"  the first line of a    *)
(*   "blank"   white space                          definition             *)
(*   "prose"   anything else in Markdown     "body" a line inside one      *)
(*   "link"    a link to the file .to        "top"  a statement outside    *)
(*   "secret"  a credential                  "bad"  a syntax error         *)
(*   "tiny"    a definition of fewer than 8 characters, on one line (of    *)
(*             TypeScript: "let a;"), which no regular expression looks for *)
(***************************************************************************)
EXTENDS Naturals, Sequences, SequencesExt, FiniteSetsExt

\* The lines of a definition follow its first one (white space inside it is "body").
IsText(text) ==
  /\ text \in Seq(ToSet(text))
  /\ \A i \in DOMAIN text : text[i].kind = "body" =>
       i > 1 /\ text[i - 1].kind \in {"def", "body"}

\* What chunk_file looks at: the asset type and the suffix of a file.
Kinds == {"markdown", "code", "raw"}

Blank(line) == line.kind = "blank"

\* str.strip(): no blank line at either end.
Strip(text) ==
  LET kept == {i \in DOMAIN text : ~Blank(text[i])}
  IN  IF kept = {} THEN <<>> ELSE SubSeq(text, Min(kept), Max(kept))

\* A chunk's identity is the digest of what a chunk is here: its title and body.
ChunkOf(title, text) == {[title |-> title, body |-> b] : b \in {Strip(text)} \ {<<>>}}

Starts(text, kind) == {i \in DOMAIN text : text[i].kind = kind}

\* A scope runs from the line that opens it to the line before the next one.
Scope(text, starts, i) ==
  SubSeq(text, i, Min({j \in starts : j > i} \union {Len(text) + 1}) - 1)

\* The text before the first scope, each scope, or the whole when there is none.
Sections(text, kind, whole, lead) ==
  LET starts == Starts(text, kind)
  IN  IF starts = {}
      THEN ChunkOf(whole, text)
      ELSE ChunkOf(lead, SubSeq(text, 1, Min(starts) - 1))
             \union UNION {ChunkOf(text[i], Scope(text, starts, i)) : i \in starts}

chunk_markdown(text) == Sections(text, "head", "whole", "lead")

chunk_by_regex(text) == Sections(text, "def", "module", "module_lead")

\* A node of the syntax tree: the definition's first line and the lines inside.
Node(text, i) ==
  SubSeq(text, i, Min({j \in DOMAIN text : j > i /\ text[j].kind # "body"}
                        \union {Len(text) + 1}) - 1)

\* walk: the nodes of the target types; those shorter than 8 characters are left out.
Nodes(text) == Starts(text, "def") \union Starts(text, "tiny")
LongEnough(node) == node[1].kind # "tiny"

\* Only definitions become chunks: statements outside of them are in none.
chunk_with_tree_sitter(text) ==
  UNION {ChunkOf(text[i], Node(text, i)) : i \in {n \in Nodes(text) : LongEnough(Node(text, n))}}

\* The regular expressions serve when the grammar, or a definition, is missing.
chunk_code(text, grammar) ==
  LET scopes == IF grammar THEN chunk_with_tree_sitter(text) ELSE {}
  IN  IF scopes # {} THEN scopes ELSE chunk_by_regex(text)

chunk_file(text, kind, grammar) ==
  CASE kind = "markdown" -> chunk_markdown(text)
    [] kind = "code"     -> chunk_code(text, grammar)
    [] kind = "raw"      -> ChunkOf("raw", text)

\* What is to be found of a text, by lines: all of a document, the definitions
\* of a program (but for the tiny ones, which only some chunkers keep).
Owed(text, kind) ==
  {text[i] : i \in {j \in DOMAIN text :
     /\ ~Blank(text[j])
     /\ kind = "code" => text[j].kind \in {"def", "body"}}}
=============================================================================

--------------------------- MODULE MCSessionShim ---------------------------
(* One call names the Serena child in two ways, or lies at the Pi child, or  *)
(* in a foreign path; the other goes where its session is bound to, else     *)
(* where its path lies, or says so with a working directory elsewhere: they  *)
(* meet at one child or not.  p2 lies in a forbidden place.                  *)
EXTENDS SessionShim

CONSTANTS c1, c2, s1, p1, p2, m1, m2, t1, t2, sess

Says(method, header, session, arg, path) ==
  [method |-> method, header |-> header, session |-> session, arg |-> arg, path |-> path]
Calling(header, session, arg, path) == Says("tools/call", header, session, arg, path)

MCMayName ==
  [c \in Calls |-> IF c = c1
     THEN {Calling(s1, NoName, s1, NoName), Calling(NoName, NoName, NoName, p1),
           Calling(s1, NoName, NoName, Foreign),
           Says("tools/list", NoName, NoName, NoName, NoName),
           Says("unparsable", NoName, NoName, NoName, NoName)}
     ELSE {Calling(NoName, sess, NoName, p1), Calling(p1, NoName, NoName, s1),
           Calling(p2, NoName, NoName, p2)}]

\* Equal or different: which of two names they have is all the same.
MCMayHave == [c \in Calls |-> IF c = c1 THEN {m1, t1} ELSE {m1, m2, t1, t2}]

MCMaxGen == [ch \in Children |-> CASE ch = s1 -> 2 [] ch = p1 -> 1 [] ch = p2 -> 0]
=============================================================================

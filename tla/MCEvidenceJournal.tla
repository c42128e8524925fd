-------------------------- MODULE MCEvidenceJournal --------------------------
EXTENDS EvidenceJournal, TLC

CONSTANTS r1, r2, r3, r4, t1

\* Two events with the same text, one too large for a page and quarantined, a proposal.
Says(source, key, text, kind, trust, tokens, id) ==
  [source |-> source, key |-> key, text |-> text, kind |-> kind, trust |-> trust,
   tokens |-> tokens, bare |-> 1, id |-> id]

MCAsk ==
  [r \in Requests |->
     CASE r = r1 -> Says(1, 1, t1, "decision", "project_verified", 3, 2)
       [] r = r2 -> Says(2, 1, t1, "message", "project_verified", 1, 1)
       [] r = r3 -> Says(2, 2, NoText, "message", "quarantined", 5, 3)
       [] r = r4 -> Says(1, 3, NoText, "proposal", "raw_untrusted", 1, 4)]

\* A packet holds four tokens and a page two rows; or nine and three; one
\* profile is invalid, as its ceiling leaves no room for what is reserved.
Limits(hard, ceiling, page) ==
  [hard |-> hard, ceiling |-> ceiling, output |-> 1, schema |-> 1, result |-> 1,
   safety |-> 1, soft |-> 2, compact |-> 3, page |-> page]
MCProfiles == ("standard-context" :> Limits(8, 4, 2)) @@ ("large-context" :> Limits(16, 9, 3))
              @@ ("crowded" :> Limits(8, 6, 2))
MCAliases == "large" :> "large-context"
MCAsked == [as : {"context_profile", "budget_name"}, name : {"large", "crowded", "unknown"}]
ServersAlike == Permutations(Servers)
=============================================================================

------------------------ MODULE MCSerenaMaintenance ------------------------
EXTENDS SerenaMaintenance

\* A registry that lists another project, one that has its projects in a form
\* the command does not find, one that no parser takes, and none.
Listing == [projects |-> "other", list |-> TRUE, sound |-> TRUE, eol |-> "crlf"]
Registries == {Listing, [Listing EXCEPT !.list = FALSE], [Listing EXCEPT !.sound = FALSE], Missing}

\* Configurations in every form, with and without a name; the second project
\* may have none.
Old(languages) ==
  [languages |-> languages, right |-> FALSE, named |-> TRUE, sound |-> TRUE, eol |-> "crlf"]
Configs ==
  {Old(l) : l \in {"list", "legacy", "both", "line", "none"}}
    \cup {[Old("legacy") EXCEPT !.named = FALSE], [Old("none") EXCEPT !.named = FALSE]}
Seconds == {Old("list"), Missing}

Rule(current) == [current |-> current, eol |-> "lf"]
MCGenerated == Rule(TRUE)

MCDisks ==
  {[registry |-> g, agentcore |-> a, swarm |-> w, rule |-> r] :
     g \in Registries, a \in Configs, w \in Seconds, r \in {Missing, Rule(FALSE)}}
=============================================================================

--------------------------- MODULE OutputEnvelope ---------------------------
(***************************************************************************)
(* What scripts/bifrost/mcp_output_schema.py adds to an answer: an output  *)
(* schema to every tool of a list that has none, and an envelope to the    *)
(* result of a call.  The content blocks are not touched.                  *)
(* A result is [structured, text, isError]: the kind of its structured     *)
(* content is "none", "own" (the upstream's), "scalar" or "envelope"; its  *)
(* text is "none", "prose", "json" or "big" (JSON above the size limit).   *)
(***************************************************************************)
EXTENDS FiniteSets

CONSTANTS Contract,   \* [server -> [adapter, default, overrides]]: mcp-tool-output-schemas.json
          Families    \* [profile -> family]: the declared profiles

ASSUME FamiliesAssumption == \A p \in DOMAIN Families : Families[p] # "none"

ProfileFor(server, tool) ==
  LET bound == IF tool \in DOMAIN Contract[server].overrides THEN Contract[server].overrides[tool]
                                                            ELSE Contract[server].default
  IN  IF bound \in DOMAIN Families THEN bound ELSE "generic"
FamilyFor(server, tool) ==
  LET p == ProfileFor(server, tool) IN IF p \in DOMAIN Families THEN Families[p] ELSE "generic"

IsEnvelope(structured) == structured.kind = "envelope"

\* The structured content of the upstream, else the text when it is JSON and
\* not too long.
DataOf(result) ==
  CASE result.structured.kind = "own" -> "own"
    [] result.structured.kind = "scalar" -> "value"
    [] result.structured.kind = "none" /\ result.text = "json" -> "parsed"
    [] OTHER -> "none"

BuildEnvelope(server, tool, result) ==
  LET data == DataOf(result)
      omitted == result.structured.kind = "none" /\ result.text = "big"
  IN  [kind |-> "envelope", server |-> server, tool |-> tool, data |-> data, omitted |-> omitted,
       success |-> ~result.isError,
       status |-> IF result.isError THEN "error" ELSE IF omitted THEN "partial" ELSE "ok"]

\* An answer that already is an envelope is left alone.
NormalizeCallResult(server, tool, result) ==
  IF IsEnvelope(result.structured) THEN result
  ELSE [result EXCEPT !.structured = BuildEnvelope(server, tool, result)]

\* A list is [tool -> schema], "none" for a tool without one.
InjectOutputSchemas(server, list) ==
  [t \in DOMAIN list |-> IF list[t] = "none" THEN FamilyFor(server, t) ELSE list[t]]
=============================================================================

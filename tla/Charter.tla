------------------------------ MODULE Charter ------------------------------
(***************************************************************************)
(* The plan of a run, made from what the operator asks for (charter.py and *)
(* the first part of node_start): the built-in catalogue of milestone M6,  *)
(* or macro and micro steps made from the goal and acceptance criteria.    *)
(***************************************************************************)
EXTENDS Integers, Sequences, FiniteSets

Risk == {"low", "medium", "high", "critical"}

\* A step is a macro step and the position of a micro step in it; its key is
\* the milestone's with these two numbers.
Step == (Nat \ {0}) \X (Nat \ {0})

\* The cost profiles it knows, and one that it does not know.
LowProfiles == {"budget", "cost", "cheap"}
HighProfiles == {"strict", "prod", "production"}
Profile == Risk \cup LowProfiles \cup HighProfiles \cup {"unknown"}

Milestone == {"M6", "m6", "G1", "isolation"}

\* What a start command hands over: the lines of the goal, items of a list or
\* prose; the lines of the acceptance criteria, some of them blank; what the
\* gates look for in the goal's text.
Request(Taint) ==
  [milestone : Milestone, goal : Seq({"item", "prose"}),
   acceptance : Seq({"text", "blank"}), profile : Profile, override : BOOLEAN,
   taint : SUBSET Taint]

\* The risks of the micro steps of the built-in catalogue, by macro step.
M6Catalogue ==
  <<<<"medium", "low">>, <<"medium", "low">>, <<"low", "medium">>, <<"high">>, <<"medium">>>>

\* KNOWN_MICRO_KEYS: the steps that can be executed without a worker.
KnownSteps ==
  {<<1, 1>>, <<1, 2>>, <<2, 1>>, <<2, 2>>, <<3, 1>>, <<3, 2>>, <<4, 1>>, <<5, 1>>}

NormalizeAcceptance(acceptance) == SelectSeq(acceptance, LAMBDA line : line = "text")

UseM6HardcodedCatalogue(request) ==
  /\ ~request.override
  /\ request.milestone = "M6"
  /\ NormalizeAcceptance(request.acceptance) = <<>>

AtMost(bound, n) == IF n < bound THEN n ELSE bound

\* How many requirements a goal has: its lines if one is an item, or one.
SplitGoalBullets(goal) ==
  IF \E i \in DOMAIN goal : goal[i] = "item" THEN AtMost(8, Len(goal)) ELSE 1

RiskForProfile(profile) ==
  CASE profile \in Risk         -> profile
    [] profile \in LowProfiles  -> "low"
    [] profile \in HighProfiles -> "high"
    [] OTHER                    -> "medium"

\* A macro step for each requirement, the first with a micro step for each
\* criterion; what exceeds five and twelve is in no step.
SynthesizeFromGoal(request) ==
  LET risk == RiskForProfile(request.profile)
      criteria == AtMost(12, Len(NormalizeAcceptance(request.acceptance)))
  IN [a \in 1..AtMost(5, SplitGoalBullets(request.goal)) |->
        IF a = 1 THEN IF criteria > 0 THEN [i \in 1..criteria |-> risk] ELSE <<risk>>
        ELSE <<"medium">>]

\* Keys are made from the milestone's letters and digits, in upper case.
KeyOf(milestone) == IF milestone = "m6" THEN "M6" ELSE milestone

\* first_micro_key.
FirstStep == <<1, 1>>

\* node_start.  Without a goal there is no plan, and the requirement gate will
\* fail.
PlanOf(request) ==
  LET catalogue == UseM6HardcodedCatalogue(request)
  IN [macros    |-> CASE catalogue -> M6Catalogue
                      [] ~catalogue /\ request.goal = <<>> -> <<>>
                      [] OTHER -> SynthesizeFromGoal(request),
      known     |-> IF KeyOf(request.milestone) = "M6" THEN KnownSteps ELSE {},
      uncertain |-> KeyOf(request.milestone) = "isolation",
      catalogue |-> catalogue,
      labels    |-> IF catalogue THEN {} ELSE request.taint,
      goal      |-> request.taint]
=============================================================================

----------------------------- MODULE StepLedger -----------------------------
(***************************************************************************)
(* What a workflow run promises of its steps: they are accepted one by     *)
(* one, each once, in the order of the plan; the run is completed when all *)
(* have been accepted and not before, or it fails for good.                *)
(***************************************************************************)
EXTENDS Sequences

VARIABLES todo, done, outcome

Init ==
  /\ done = <<>>
  /\ outcome = "running"

Accept ==
  /\ outcome = "running"
  /\ todo # <<>>
  /\ done' = Append(done, Head(todo))
  /\ todo' = Tail(todo)
  /\ UNCHANGED outcome

Complete ==
  /\ outcome = "running"
  /\ todo = <<>>
  /\ outcome' = "completed"
  /\ UNCHANGED <<todo, done>>

Fail ==
  /\ outcome = "running"
  /\ outcome' = "failed"
  /\ UNCHANGED <<todo, done>>

Next == Accept \/ Complete \/ Fail

Spec == Init /\ [][Next]_<<todo, done, outcome>>
=============================================================================

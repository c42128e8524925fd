---------------------------- MODULE MCJitLeases ----------------------------
(* The constants of the two configurations are model values; there is no   *)
(* symmetry set, as one of the properties is a liveness property.          *)
EXTENDS JitLeases
=============================================================================

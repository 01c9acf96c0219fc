----------------------------- MODULE MCMeasure -----------------------------
(* Two unique inputs that are equally frequent.                             *)
EXTENDS Measure

MCTimes == [x \in Input |-> 1]
=============================================================================

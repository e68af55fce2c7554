----------------------------- MODULE MCAlerting -----------------------------
(* Instances of Alerting for TLC. *)
EXTENDS Alerting, TLC

DrainSymmetry == Permutations(Drainers)
=============================================================================

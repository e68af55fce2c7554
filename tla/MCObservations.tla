--------------------------- MODULE MCObservations ---------------------------
(* Instances of Observations for TLC. *)
EXTENDS Observations, TLC

RequestSymmetry == Permutations(CronRuns) \union Permutations(Pushes)
=============================================================================

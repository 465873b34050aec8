-------------------------- MODULE MCSnapshotLedger ---------------------------
(* A small instance of SnapshotLedger: two runs, two facts with two values.  *)
(* Runs, facts and values are interchangeable, and only safety is checked.   *)
EXTENDS SnapshotLedger, TLC

MCSymmetry ==
  Permutations(Runs) \cup Permutations(Keys) \cup Permutations(Values)
==============================================================================

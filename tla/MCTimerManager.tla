--------------------------- MODULE MCTimerManager ---------------------------
(* Instances of TimerManager for TLC.  The workers are interchangeable. *)
EXTENDS TimerManager, TLC

WorkerSymmetry == Permutations(Worker)

=============================================================================

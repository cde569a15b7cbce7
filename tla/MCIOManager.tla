--------------------------- MODULE MCIOManager ---------------------------
(* Instances of IOManager for TLC: fibers, callbacks and idle workers are *)
(* interchangeable.                                                       *)
EXTENDS IOManager, TLC

Symmetry == Permutations(Fiber) \cup Permutations(Callback) \cup Permutations(Idler)

==========================================================================

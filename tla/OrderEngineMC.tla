----------------------------- MODULE OrderEngineMC -----------------------------
(***************************************************************************)
(* TLC instances of OrderEngine.                                           *)
(***************************************************************************)
EXTENDS OrderEngine, TLC

\* Overlapping executions of sweep() are interchangeable.
SweepSymmetry == Permutations(Sweeps)
=============================================================================

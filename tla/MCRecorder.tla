------------------------------ MODULE MCRecorder ------------------------------
(* Recorder on a small instance: see the .cfg files for the sets.           *)
EXTENDS Recorder, TLC

\* Sound for the runs that check no liveness property.
Symmetry == Permutations(Path) \cup Permutations(Content)

=============================================================================

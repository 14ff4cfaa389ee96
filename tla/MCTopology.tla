------------------------------ MODULE MCTopology ------------------------------
(***************************************************************************)
(* Folder 1 contains folder 2, and so on; every command is alike.          *)
(***************************************************************************)
EXTENDS Topology, TLC

CONSTANTS r1, r2, p1, p2

Nested(c, d) == c >= d

Symmetry == Permutations({r1, r2}) \cup Permutations({p1, p2})
================================================================================

--------------------------- MODULE MCSnapshotStore ---------------------------
(* SnapshotStore on a small instance: see the .cfg files for the sets.     *)
EXTENDS SnapshotStore, Naturals, TLC

CONSTANTS
    MaxRefs,    \* bound: references of rows and Recoveries, with two contents
    MaxRecs     \* bound: planned Recoveries at once

\* Either the contents of one file are told apart, or the files are.
OneFile == \E q \in Path : \A other \in Path \ {q} :
               /\ rows[other] = NoRow
               /\ \A p \in Proc :
                      other \notin op[p].src \cup op[p].dst \cup op[p].walk
OneContent == \E h \in Hash : \A other \in Hash \ {h} :
                  /\ other \notin snaps \cup RefHashes \cup {r.target : r \in recs}
                  /\ \A p \in Proc : /\ op[p].hash # other
                                    /\ \A q \in Path : op[p].found[q] # other
                  /\ \A q \in Path : rows[q].hash # other

Bound == /\ Cardinality(recs) <= MaxRecs
         /\ OneContent \/ (OneFile /\ Cardinality(refs) + Cardinality(recs) <= MaxRefs)

Symmetry == Permutations(Proc) \cup Permutations(Path) \cup Permutations(Hash)

=============================================================================

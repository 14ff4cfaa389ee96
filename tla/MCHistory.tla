----------------------------- MODULE MCHistory -----------------------------
(***************************************************************************)
(* Two files in two folders, contents of two lines.  "it" is incidental    *)
(* and happens to occur in the name of the first file.                     *)
(***************************************************************************)
EXTENDS Groups, Timeline, Previews, TLC
CONSTANTS p1, p2, r1
Lines == {<<0, 0>>, <<1, 0>>, <<1, 1>>}
TwoLines == {<<0, 0>>, <<1, 1>>}
Folders == {{p1}, {p1, p2}, {p2}}
Words == {"two", "it"}
Pronouns == {"it"}
Occurs == [w \in Words |-> IF w = "two" THEN {p2} ELSE {p1}]
Tokens == [w \in Words |-> IF w = "it" THEN {} ELSE Occurs[w]]
WordParts == [w \in Words |-> {}]
Keys == p1 :> "a" @@ p2 :> "b"
Symmetry == Permutations({p1, p2})
============================================================================

--------------------------------- MODULE Vault ---------------------------------
(***************************************************************************)
(* What restoring promises to the owner of the files: whatever the tool    *)
(* takes away from a path, it keeps.  The user may overwrite or remove     *)
(* anything; the tool may put something else at one path at a time, and    *)
(* what was there, unless the tool itself had put it there, is then kept   *)
(* aside for as long as it has not gone back to its path.                  *)
(***************************************************************************)
EXTENDS Naturals

CONSTANTS
    Path,       \* paths of the project
    Thing,      \* what may be at a path: file contents, or something else
    None        \* nothing is at the path

VARIABLES
    there,      \* what is at each path
    own,        \* paths where the tool put what is there now
    kept,       \* pairs <<path, thing>> kept aside
    edits       \* how many changes the user has made

vars == <<there, own, kept, edits>>

Init ==
    /\ there \in [Path -> Thing \cup {None}]
    /\ own = {}
    /\ kept = {}
    /\ edits = 0

\* The user changes a path.
Edit(q, x) ==
    /\ edits' = edits + 1
    /\ there' = [there EXCEPT ![q] = x]
    /\ own' = own \ {q}
    /\ UNCHANGED kept

\* The tool puts x (or nothing) at a path and keeps what it took from there.
\* What it had kept of this path may go back to it.
Put(q, x) ==
    /\ there' = [there EXCEPT ![q] = x]
    /\ own' \ {q} = own \ {q}
    /\ there[q] # None /\ q \notin own => <<q, there[q]>> \in kept'
    /\ kept \subseteq kept' \cup {<<q, x>>}
    /\ UNCHANGED edits

\* The tool keeps more copies.
Keep ==
    /\ kept \subseteq kept'
    /\ UNCHANGED <<there, own, edits>>

Next ==
    \/ \E q \in Path, x \in Thing \cup {None} : Edit(q, x) \/ Put(q, x)
    \/ Keep

Spec == Init /\ [][Next]_vars

=============================================================================

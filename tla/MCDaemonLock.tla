----------------------------- MODULE MCDaemonLock -----------------------------
(* DaemonLock on a small instance: two nested folders, three commands.      *)
EXTENDS DaemonLock

CONSTANTS p1, p2, p3, outer, inner

InsideOf(q, r) == q = r \/ (q = inner /\ r = outer)
Overlapping(q, r) == InsideOf(q, r) \/ InsideOf(r, q)

Do(kind, root) == [kind |-> kind, root |-> root, force |-> FALSE, rest |-> {}]
StopAll == [kind |-> "stop", root |-> outer, force |-> FALSE, rest |-> {inner}]
Forced(root) == [kind |-> "start", root |-> root, force |-> TRUE, rest |-> {}]
Child == [kind |-> "child", root |-> outer, force |-> FALSE, rest |-> {}]
Three(c1, c2, c3) == [p \in Proc |-> CASE p = p1 -> c1 [] p = p2 -> c2 [] OTHER -> c3]

\* What goes on at the same time.
Trios ==
    {Three(Do("start", outer), Do("start", q), third) :
        q \in {outer, inner},
        third \in {Do("start", inner), Do("stop", outer), StopAll, Forced(inner)}}
    \cup {Three(Do("ensure", inner), Child, third) :
        third \in {Do("start", outer), Do("ensure", outer), Do("stop", inner)}}
    \cup {Three(Do("legacy", outer), second, Do("stop", outer)) :
        second \in {Do("start", inner), Forced(outer), Do("ensure", inner)}}

===============================================================================

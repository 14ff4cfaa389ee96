-------------------------- MODULE DaemonLock_proofs --------------------------
(***************************************************************************)
(* Recorders and their markers, for any number of folders and processes:   *)
(* type correctness, that two recorders of overlapping folders only run    *)
(* when one has lost its marker or was overlooked while that was being     *)
(* rewritten, and that old recorders, which lock nothing, are respected.   *)
(***************************************************************************)
EXTENDS DaemonLock, TLAPS

Marker == [pid : Proc, root : Root, state : {"starting", "ready", "old"}] \cup {Empty}

Places == {"check", "open", "lock", "clear", "write", "overlap", "project", "scanned",
           "announce", "watch", "remove", "end", "done", "probe", "stale", "wait",
           "stopped", "root", "spawn", "poll", "look"}

FullType ==
    /\ entry \in [Root -> Proc \cup {None}]
    /\ content \in [Proc -> Marker]
    /\ ex \in [Proc -> Proc \cup {None}]
    /\ sh \in [Proc -> SUBSET Proc]
    /\ cmd \in [Proc -> Command]
    /\ life \in [Proc -> {"unborn", "running", "gone", "other"}]
    /\ pc \in [Proc -> Places]
    /\ fd \in [Proc -> Proc \cup {None}]
    /\ seen \in [Proc -> Proc \cup {None}]
    /\ asked \subseteq Proc
    /\ projects \subseteq Root
    /\ unread \subseteq Proc
    /\ strangers \subseteq Proc

\* Who holds a lock is running, and nobody else has the file locked.
Locks ==
    \A i \in Proc :
        /\ ex[i] # None => life[ex[i]] = "running" /\ sh[i] = {}
        /\ \A p \in sh[i] : life[p] = "running"

\* A process that is not running has stopped where it was, or never began.
Lives ==
    \A p \in Proc :
        /\ life[p] \in {"gone", "other"} => pc[p] = "done"
        /\ life[p] = "unborn" <=> cmd[p].kind = "child"
        /\ At(p, "stop", "probe") => seen[p] # None

\* A file is created by an old recorder or by the opening of a start.
Created(i) ==
    \/ cmd[i].kind = "legacy"
    \/ cmd[i].kind = "start" /\ pc[i] \notin {"check", "open"}

Opened(p) == cmd[p].kind = "start" /\ pc[p] \notin {"check", "open", "done"}

Files ==
    /\ \A r \in Root : entry[r] # None => Created(entry[r])
    /\ \A p \in Proc : fd[p] # None => Created(fd[p])
    /\ \A p \in Proc : Opened(p) => fd[p] # None

\* Where a start holds its lock, and what its file says there.
Held == {"clear", "write", "overlap", "project", "scanned", "announce", "watch",
         "remove", "end"}
Own(p) ==
    LET c == content[fd[p]] IN c = Empty \/ (c.pid = p /\ c.root = cmd[p].root)

Holds(p) == cmd[p].kind = "start" /\ pc[p] \in Held
Holding ==
    \A p \in Proc : Holds(p) =>
        /\ ex[fd[p]] = p
        /\ pc[p] # "clear" => Own(p)

Explained(p, q) ==
    (p # q /\ Recording(p) /\ Recording(q) /\ ~cmd[p].force /\ ~cmd[q].force
       /\ Overlap(cmd[p].root, cmd[q].root)) =>
    \/ ~Marked(p) \/ p \in unread
    \/ ~Marked(q) \/ q \in unread

AllExplained == \A p, q \in Proc : Explained(p, q)

\* An old recorder's marker is its own: nobody opens or signals it.
OldOne(p) == cmd[p].kind = "legacy" /\ life[p] = "running"
OldMarked(p) ==
    /\ pc[p] = "watch"
    /\ entry[cmd[p].root] = p /\ content[p] = OldMarker(p, cmd)
    /\ ex[p] = None /\ p \notin asked
    /\ \A r \in Root : entry[r] = p => r = cmd[p].root
    /\ \A i \in Proc : content[i].pid = p => i = p
    /\ \A q \in Proc :
          /\ fd[q] # p
          /\ cmd[q].kind = "stop" /\ life[q] = "running" => seen[q] # p
          /\ cmd[q].kind = "start" /\ Overlap(cmd[p].root, cmd[q].root)
                => pc[q] \in {"check", "done"}
          /\ cmd[q].kind = "stop" /\ life[q] = "running" /\ cmd[q].root = cmd[p].root
                => pc[q] = "check"
OldMarkers == \A p \in Proc : OldOne(p) => OldMarked(p)

IInv ==
    /\ FullType /\ Locks /\ Lives /\ Files /\ Holding /\ AllExplained /\ OldMarkers

-------------------------------------------------------------------------------
(* What the steps have in common                                           *)

\* The name of r is removed, or nothing; no old recorder but p has it.
Unmarks(p, r) ==
    \/ entry' = entry
    \/ /\ entry' = [entry EXCEPT ![r] = None]
       /\ \A q \in Proc : OldOne(q) /\ q # p => cmd[q].root # r

\* p is the only one that may have taken a lock, a shared one.
Shares(p) ==
    /\ sh' \in [Proc -> SUBSET Proc]
    /\ \A i \in Proc : \A q \in sh'[i] : q \in sh[i] \/ (q = p /\ ex[i] = None)

\* SIGTERM goes to no old recorder.
Asks == asked' \subseteq Proc /\ \A q \in asked' : q \in asked \/ ~OldOne(q)

LEMMA SameAsked ==
    ASSUME IInv, asked' = asked
    PROVE  Asks
  BY DEF Asks, IInv, FullType

LEMMA ProbingShares ==
    ASSUME IInv, NEW p \in Proc, NEW roots, Probing(p, roots)
    PROVE  Shares(p)
  BY DEF Probing, Shares, IInv, FullType

LEMMA ClosedShares ==
    ASSUME IInv, NEW p \in Proc, Closed(p)
    PROVE  Shares(p)
  BY DEF Closed, Shares, IInv, FullType

LEMMA SameShares ==
    ASSUME IInv, NEW p \in Proc, sh' = sh
    PROVE  Shares(p)
  BY DEF Shares, IInv, FullType

\* A pair stays explained when no unforced recorder is new or is marked anew.
LEMMA ExplainedKept ==
    ASSUME AllExplained, unread \subseteq unread',
           \A p \in Proc : (Recording(p)' /\ ~cmd'[p].force) =>
               Recording(p) /\ cmd'[p] = cmd[p] /\ (Marked(p)' => Marked(p))
    PROVE  AllExplained'
  <1> SUFFICES ASSUME NEW p \in Proc, NEW q \in Proc, p # q,
                      Recording(p)', Recording(q)', ~cmd'[p].force, ~cmd'[q].force,
                      Overlap(cmd'[p].root, cmd'[q].root)
               PROVE  ~Marked(p)' \/ p \in unread' \/ ~Marked(q)' \/ q \in unread'
    BY DEF AllExplained, Explained
  <1>1. Recording(p) /\ cmd'[p] = cmd[p] /\ (Marked(p)' => Marked(p))
    OBVIOUS
  <1>2. Recording(q) /\ cmd'[q] = cmd[q] /\ (Marked(q)' => Marked(q))
    OBVIOUS
  <1>3. ~Marked(p) \/ p \in unread \/ ~Marked(q) \/ q \in unread
    BY <1>1, <1>2 DEF AllExplained, Explained
  <1> QED BY <1>1, <1>2, <1>3

\* A process ends.
LEMMA EndsKeeps ==
    ASSUME IInv, NEW p \in Proc, NEW how, Ends(p, how), life[p] = "running",
           NEW r \in Root, Unmarks(p, r),
           asked' \subseteq asked,
           UNCHANGED <<content, cmd, fd, seen, projects, unread, strangers>>
    PROVE  IInv'
  <1>0. /\ ex' = [i \in Proc |-> IF ex[i] = p THEN None ELSE ex[i]]
        /\ sh' = [i \in Proc |-> sh[i] \ {p}]
        /\ life' = [life EXCEPT ![p] = "gone"]
        /\ pc' = [pc EXCEPT ![p] = "done"]
    BY DEF Ends, Dies, Goto, Closed
  <1>1. FullType'
    <2>1. entry' \in [Root -> Proc \cup {None}]
      BY DEF IInv, FullType, Unmarks
    <2>2. ex' \in [Proc -> Proc \cup {None}] /\ sh' \in [Proc -> SUBSET Proc]
      BY <1>0 DEF IInv, FullType
    <2>3. /\ life' \in [Proc -> {"unborn", "running", "gone", "other"}]
          /\ pc' \in [Proc -> Places]
      BY <1>0 DEF IInv, FullType, Places
    <2> QED BY <2>1, <2>2, <2>3 DEF IInv, FullType
  <1>2. Locks'
    BY DEF IInv, FullType, Locks, Ends, Dies, Goto, Closed
  <1>3. Lives'
    BY DEF IInv, FullType, Lives, Ends, Dies, Goto, At
  <1>4. Files'
    BY PidAssumption DEF IInv, FullType, Files, Ends, Dies, Goto, Created, Opened, Unmarks
  <1>5. Holding'
    <2> SUFFICES ASSUME NEW q \in Proc, Holds(q)'
                 PROVE  ex'[fd[q]] = q /\ (pc'[q] # "clear" => Own(q))
      BY DEF Holding, Own
    <2>1. q # p /\ pc'[q] = pc[q] /\ Holds(q)
      BY DEF Holds, Held, Ends, Dies, Goto, IInv, FullType
    <2>2. fd[q] \in Proc
      BY <2>1 DEF Holds, Held, IInv, FullType, Files, Opened
    <2>3. ex[fd[q]] = q /\ (pc[q] # "clear" => Own(q))
      BY <2>1 DEF IInv, Holding
    <2> QED BY <2>1, <2>2, <2>3 DEF Ends, Dies
  <1>6. AllExplained'
    <2>1. ASSUME NEW q \in Proc, Recording(q)'
          PROVE  Recording(q) /\ (Marked(q)' => Marked(q))
      <3>1. q # p /\ Recording(q)
        BY <1>0, <2>1 DEF Recording, IInv, FullType
      <3>2. fd[q] \in Proc /\ cmd[q].root \in Root
        BY <3>1 DEF Recording, IInv, FullType, Files, Opened, Command
      <3>3. ASSUME Marked(q)' PROVE Marked(q)
        BY <3>2, <3>3, PidAssumption DEF Marked, Unmarks, IInv, FullType
      <3> QED BY <3>1, <3>3
    <2> QED BY <2>1, ExplainedKept DEF IInv
  <1>7. OldMarkers'
    <2> SUFFICES ASSUME NEW q \in Proc, OldOne(q)'
                 PROVE  OldMarked(q)'
      BY DEF OldMarkers
    <2>1. q # p /\ OldOne(q)
      BY <1>0 DEF OldOne, IInv, FullType
    <2>2. OldMarked(q)
      BY <2>1 DEF IInv, OldMarkers
    <2>3. \A x \in Root : entry'[x] = IF entry'[x] = None THEN None ELSE entry[x]
      BY DEF Unmarks, IInv, FullType
    <2>4. cmd[q].root \in Root
      BY DEF IInv, FullType, Command
    <2>5. entry'[cmd[q].root] = q
      BY <2>1, <2>2, <2>4 DEF Unmarks, IInv, FullType, OldMarked
    <2>6. \A x \in Root : entry'[x] = q => x = cmd[q].root
      BY <2>2, <2>3, PidAssumption DEF OldMarked
    <2>7. /\ pc'[q] = "watch"
          /\ content[q] = OldMarker(q, cmd)
          /\ ex'[q] = None /\ q \notin asked'
      BY <1>0, <2>1, <2>2, PidAssumption DEF OldMarked, IInv, FullType
    <2>8. ASSUME NEW t \in Proc
          PROVE  /\ fd[t] # q
                 /\ cmd[t].kind = "stop" /\ life'[t] = "running" => seen[t] # q
                 /\ cmd[t].kind = "start" /\ Overlap(cmd[q].root, cmd[t].root)
                       => pc'[t] \in {"check", "done"}
                 /\ cmd[t].kind = "stop" /\ life'[t] = "running" /\ cmd[t].root = cmd[q].root
                       => pc'[t] = "check"
      <3>1. pc'[t] = IF t = p THEN "done" ELSE pc[t]
        BY <1>0 DEF IInv, FullType
      <3>2. life'[t] = IF t = p THEN "gone" ELSE life[t]
        BY <1>0 DEF IInv, FullType
      <3> QED BY <2>2, <3>1, <3>2 DEF OldMarked
    <2> QED BY <2>2, <2>5, <2>6, <2>7, <2>8 DEF OldMarked, OldMarker
  <1> QED BY <1>1, <1>2, <1>3, <1>4, <1>5, <1>6, <1>7 DEF IInv

\* A stop or an ensure goes on.
LEMMA OtherMoves ==
    ASSUME IInv, NEW p \in Proc, life[p] = "running", cmd[p].kind \in {"stop", "ensure"},
           NEW w \in Places, NEW c \in Command, c.kind = cmd[p].kind,
           NEW x \in Proc \cup {None}, NEW r \in Root, Unmarks(p, r), Shares(p),
           c.kind = "stop" =>
              /\ w = "probe" => x # None
              /\ \A q \in Proc : OldOne(q) => x # q /\ (c.root = cmd[q].root => w = "check"),
           pc' = [pc EXCEPT ![p] = w],
           cmd' = [cmd EXCEPT ![p] = c],
           seen' = [seen EXCEPT ![p] = x],
           Asks, strangers' \subseteq Proc,
           UNCHANGED <<content, ex, life, fd, projects, unread>>
    PROVE  IInv'
  <1>0. /\ \A q \in Proc : pc'[q] = IF q = p THEN w ELSE pc[q]
        /\ \A q \in Proc : cmd'[q] = IF q = p THEN c ELSE cmd[q]
        /\ \A q \in Proc : seen'[q] = IF q = p THEN x ELSE seen[q]
    BY DEF IInv, FullType
  <1>1. FullType'
    <2>1. entry' \in [Root -> Proc \cup {None}]
      BY DEF IInv, FullType, Unmarks
    <2>2. pc' \in [Proc -> Places]
      BY DEF IInv, FullType
    <2>3. cmd' \in [Proc -> Command]
      BY DEF IInv, FullType
    <2>4. seen' \in [Proc -> Proc \cup {None}]
      BY DEF IInv, FullType
    <2> QED BY <2>1, <2>2, <2>3, <2>4 DEF IInv, FullType, Shares, Asks
  <1>2. Locks'
    BY DEF IInv, FullType, Locks, Shares
  <1>3. Lives'
    BY <1>0 DEF IInv, Lives, At
  <1>4. Files'
    BY <1>0, PidAssumption DEF IInv, FullType, Files, Created, Opened, Unmarks
  <1>5. Holding'
    <2> SUFFICES ASSUME NEW q \in Proc, Holds(q)'
                 PROVE  (ex[fd[q]] = q /\ (pc[q] # "clear" => Own(q)))'
      BY DEF Holding
    <2>1. q # p /\ Holds(q)
      BY <1>0 DEF Holds
    <2> QED BY <1>0, <2>1 DEF IInv, Holding, Own
  <1>6. AllExplained'
    <2>1. ASSUME NEW q \in Proc, Recording(q)'
          PROVE  Recording(q) /\ cmd'[q] = cmd[q] /\ (Marked(q)' => Marked(q))
      <3>1. q # p /\ Recording(q) /\ cmd'[q] = cmd[q]
        BY <1>0, <2>1 DEF Recording
      <3>2. fd[q] \in Proc /\ cmd[q].root \in Root
        BY <3>1 DEF Recording, IInv, FullType, Files, Opened, Command
      <3>3. ASSUME Marked(q)' PROVE Marked(q)
        BY <3>1, <3>2, <3>3, PidAssumption DEF Marked, Unmarks, IInv, FullType
      <3> QED BY <3>1, <3>3
    <2> QED BY <2>1, ExplainedKept DEF IInv
  <1>7. OldMarkers'
    <2> SUFFICES ASSUME NEW q \in Proc, OldOne(q)'
                 PROVE  OldMarked(q)'
      BY DEF OldMarkers
    <2>1. q # p /\ OldOne(q) /\ cmd'[q] = cmd[q]
      BY <1>0 DEF OldOne
    <2>2. OldMarked(q)
      BY <2>1 DEF IInv, OldMarkers
    <2>3. \A y \in Root : entry'[y] = IF entry'[y] = None THEN None ELSE entry[y]
      BY DEF Unmarks, IInv, FullType
    <2>4. cmd[q].root \in Root
      BY DEF IInv, FullType, Command
    <2>5. entry'[cmd'[q].root] = q
      BY <2>1, <2>2, <2>4 DEF Unmarks, IInv, FullType, OldMarked
    <2>6. \A y \in Root : entry'[y] = q => y = cmd'[q].root
      BY <2>1, <2>2, <2>3, PidAssumption DEF OldMarked
    <2>7. pc'[q] = "watch" /\ OldMarker(q, cmd)' = OldMarker(q, cmd)
      BY <1>0, <2>1, <2>2 DEF OldMarked, OldMarker
    <2>8. ASSUME NEW t \in Proc
          PROVE  /\ cmd'[t].kind = "stop" /\ life[t] = "running" => seen'[t] # q
                 /\ cmd'[t].kind = "start" /\ Overlap(cmd'[q].root, cmd'[t].root)
                       => pc'[t] \in {"check", "done"}
                 /\ cmd'[t].kind = "stop" /\ life[t] = "running"
                        /\ cmd'[t].root = cmd'[q].root
                       => pc'[t] = "check"
      BY <1>0, <2>1, <2>2 DEF OldMarked
    <2>9. q \notin asked'
      BY <2>1, <2>2 DEF OldMarked, Asks
    <2> QED BY <2>1, <2>2, <2>5, <2>6, <2>7, <2>8, <2>9 DEF OldMarked
  <1> QED BY <1>1, <1>2, <1>3, <1>4, <1>5, <1>6, <1>7 DEF IInv

\* A start goes on; what it changes of files and locks is its own.
LEMMA StartMoves ==
    ASSUME IInv, NEW p \in Proc, life[p] = "running", cmd[p].kind = "start",
           pc[p] \notin {"check", "done"},
           NEW w \in Places, pc' = [pc EXCEPT ![p] = w], w # "check",
           FullType', Locks',
           \A q \in Proc : OldOne(q) =>
              /\ entry'[cmd[q].root] = q /\ content'[q] = content[q] /\ ex'[q] = None
              /\ \A r \in Root : entry'[r] = q => entry[r] = q
              /\ fd'[p] # q,
           \A i \in Proc : content'[i] = content[i] \/ content'[i].pid \in {None, p},
           \A q \in Proc : q # p => fd'[q] = fd[q],
           UNCHANGED <<cmd, life, seen, asked, strangers>>
    PROVE  Lives' /\ OldMarkers'
  <1>0. \A q \in Proc : pc'[q] = IF q = p THEN w ELSE pc[q]
    BY DEF IInv, FullType
  <1>1. Lives'
    BY <1>0 DEF IInv, Lives, At
  <1>2. OldMarkers'
    <2> SUFFICES ASSUME NEW q \in Proc, OldOne(q)'
                 PROVE  OldMarked(q)'
      BY DEF OldMarkers
    <2>1. q # p /\ OldOne(q)
      BY DEF OldOne
    <2>2. OldMarked(q)
      BY <2>1 DEF IInv, OldMarkers
    <2>3. ~Overlap(cmd[q].root, cmd[p].root)
      BY <2>2 DEF OldMarked
    <2>4. /\ pc'[q] = "watch" /\ OldMarker(q, cmd)' = OldMarker(q, cmd)
          /\ content'[q] = OldMarker(q, cmd)
      BY <1>0, <2>1, <2>2 DEF OldMarked, OldMarker
    <2>5. \A i \in Proc : content'[i].pid = q => i = q
      BY <2>1, <2>2, PidAssumption DEF OldMarked
    <2>6. ASSUME NEW t \in Proc
          PROVE  /\ fd'[t] # q
                 /\ cmd[t].kind = "stop" /\ life[t] = "running" => seen[t] # q
                 /\ cmd[t].kind = "start" /\ Overlap(cmd[q].root, cmd[t].root)
                       => pc'[t] \in {"check", "done"}
                 /\ cmd[t].kind = "stop" /\ life[t] = "running" /\ cmd[t].root = cmd[q].root
                       => pc'[t] = "check"
      BY <1>0, <2>1, <2>2, <2>3 DEF OldMarked
    <2> QED BY <2>1, <2>2, <2>4, <2>5, <2>6 DEF OldMarked
  <1> QED BY <1>1, <1>2

\* A start that has passed its first check has another folder and another file
\* than any old recorder.
LEMMA OldElsewhere ==
    ASSUME IInv, NEW p \in Proc, cmd[p].kind = "start", pc[p] \notin {"check", "done"},
           NEW q \in Proc, OldOne(q)
    PROVE  /\ OldMarked(q) /\ q # p /\ fd[p] # q
           /\ cmd[q].root \in Root /\ cmd[q].root # cmd[p].root
  <1>1. OldMarked(q)
    BY DEF IInv, OldMarkers
  <1>2. cmd[q].root \in Root
    BY DEF IInv, FullType, Command
  <1> QED BY <1>1, <1>2, FolderAssumption DEF OldMarked, OldOne

-------------------------------------------------------------------------------
(* The steps of a start                                                    *)

LEMMA StartCheckKeeps ==
    ASSUME IInv, NEW p \in Proc, StartCheck(p)
    PROVE  IInv'
  <1>1. cmd[p].root \in Root /\ life[p] = "running" /\ cmd[p].kind = "start" /\ pc[p] = "check"
    BY DEF IInv, FullType, Command, StartCheck, At
  <1>2. CASE LegacyOverlap(cmd[p].root)
    BY <1>1, <1>2, EndsKeeps DEF StartCheck, Unmarks, histVars
  <1>3. CASE ~LegacyOverlap(cmd[p].root)
    <2>0. /\ pc' = [pc EXCEPT ![p] = "open"]
          /\ UNCHANGED <<entry, content, ex, sh, cmd, life, fd, seen, asked, projects,
                         unread, strangers>>
      BY <1>3 DEF StartCheck, Goto, histVars
    <2>1. \A q \in Proc : pc'[q] = IF q = p THEN "open" ELSE pc[q]
      BY <2>0 DEF IInv, FullType
    <2>2. FullType'
      BY <2>0 DEF IInv, FullType, Places
    <2>3. Locks' /\ Lives'
      BY <2>0, <2>1, <1>1 DEF IInv, Locks, Lives, At
    <2>5. Files'
      BY <2>0, <2>1, <1>1 DEF IInv, Files, Created, Opened
    <2>6. Holding'
      BY <2>0, <2>1, <1>1 DEF IInv, Holding, Holds, Held, Own
    <2>7. AllExplained'
      <3>1. \A q \in Proc : Recording(q)' => Recording(q) /\ (Marked(q)' => Marked(q))
        BY <2>0, <2>1, <1>1 DEF Recording, Marked
      <3> QED BY <2>0, <3>1, ExplainedKept DEF IInv
    <2>8. ASSUME NEW q \in Proc, OldOne(q) PROVE ~Overlap(cmd[q].root, cmd[p].root)
      <3>1. OldMarked(q) /\ cmd[q].root \in Root
        BY <2>8 DEF IInv, OldMarkers, FullType, Command
      <3>2. LegacyAt(cmd[q].root)
        BY <3>1, <2>8, PidAssumption DEF LegacyAt, OldMarked, OldMarker, OldOne, Says
      <3> QED BY <3>1, <3>2, <1>1, <1>3, FolderAssumption DEF LegacyOverlap
    <2>9. OldMarkers'
      <3> SUFFICES ASSUME NEW q \in Proc, OldOne(q)'
                   PROVE  OldMarked(q)'
        BY DEF OldMarkers
      <3>1. OldOne(q) /\ OldMarked(q) /\ ~Overlap(cmd[q].root, cmd[p].root)
        BY <2>0, <2>8 DEF IInv, OldMarkers, OldOne
      <3> QED BY <2>0, <2>1, <1>1, <3>1 DEF OldMarked, OldMarker
    <2> QED BY <2>2, <2>3, <2>5, <2>6, <2>7, <2>9 DEF IInv
  <1> QED BY <1>2, <1>3

LEMMA StartOpenKeeps ==
    ASSUME IInv, NEW p \in Proc, StartOpen(p)
    PROVE  IInv'
  <1> DEFINE r == cmd[p].root
  <1>0. /\ pc' = [pc EXCEPT ![p] = "lock"]
        /\ UNCHANGED <<content, ex, sh, cmd, life, seen, asked, projects, unread, strangers>>
    BY DEF StartOpen, Goto, histVars
  <1>1. r \in Root /\ life[p] = "running" /\ cmd[p].kind = "start" /\ pc[p] = "open"
    BY DEF IInv, FullType, Command, StartOpen, At
  <1>2. PICK i \in Proc : /\ fd' = [fd EXCEPT ![p] = i]
                          /\ \/ entry[r] = None /\ i = p /\ entry' = [entry EXCEPT ![r] = p]
                             \/ entry[r] = i /\ entry' = entry
    <2>1. CASE entry[r] = None
      BY <2>1 DEF StartOpen
    <2>2. CASE entry[r] # None
      BY <2>2, <1>1 DEF StartOpen, IInv, FullType
    <2> QED BY <2>1, <2>2
  <1>3. /\ \A q \in Proc : pc'[q] = IF q = p THEN "lock" ELSE pc[q]
        /\ \A q \in Proc : fd'[q] = IF q = p THEN i ELSE fd[q]
    BY <1>0, <1>2 DEF IInv, FullType
  <1>4. /\ ~Created(p)
        /\ \A q \in Proc : fd[q] # p
        /\ \A q \in Root : entry[q] # p
    BY <1>1, PidAssumption DEF IInv, Files, Created
  <1>5. FullType'
    BY <1>0, <1>1, <1>2 DEF IInv, FullType, Places
  <1>6. Locks'
    BY <1>0 DEF IInv, Locks
  <1>7. Files'
    BY <1>0, <1>1, <1>2, <1>3, PidAssumption DEF IInv, FullType, Files, Created, Opened
  <1>8. Holding'
    BY <1>0, <1>1, <1>3 DEF IInv, Holding, Holds, Held, Own
  <1>9. AllExplained'
    <2>1. ASSUME NEW q \in Proc, Recording(q)'
          PROVE  Recording(q) /\ (Marked(q)' => Marked(q))
      <3>1. q # p /\ Recording(q)
        BY <1>0, <1>3, <2>1 DEF Recording
      <3>2. cmd[q].root \in Root
        BY DEF IInv, FullType, Command
      <3> QED BY <1>0, <1>1, <1>2, <1>3, <1>4, <3>1, <3>2 DEF Marked, IInv, FullType
    <2> QED BY <1>0, <2>1, ExplainedKept DEF IInv
  <1>10. ASSUME NEW q \in Proc, OldOne(q)
         PROVE  /\ entry'[cmd[q].root] = q /\ ex[q] = None
                /\ \A x \in Root : entry'[x] = q => entry[x] = q
                /\ fd'[p] # q
    <2>1. OldMarked(q) /\ q # p /\ cmd[q].root \in Root /\ cmd[q].root # r
      BY <1>1, <1>10, OldElsewhere
    <2>2. i # q
      BY <1>1, <1>2, <2>1 DEF OldMarked
    <2> QED BY <1>1, <1>2, <1>3, <2>1, <2>2 DEF OldMarked, IInv, FullType
  <1>11. "lock" \in Places
    BY DEF Places
  <1>12. Lives' /\ OldMarkers'
    BY <1>0, <1>1, <1>3, <1>5, <1>6, <1>10, <1>11, StartMoves
  <1> QED BY <1>5, <1>6, <1>7, <1>8, <1>9, <1>12 DEF IInv

\* A start that is past its lock and ends neither here nor by an overlap.
LEMMA StartLockKeeps ==
    ASSUME IInv, NEW p \in Proc, StartLock(p)
    PROVE  IInv'
  <1> DEFINE i == fd[p]
  <1>1. /\ cmd[p].root \in Root /\ life[p] = "running"
        /\ cmd[p].kind = "start" /\ pc[p] = "lock" /\ i \in Proc
    BY DEF IInv, FullType, Command, StartLock, At, Files, Opened
  <1>2. CASE ~Lockable(i)
    BY <1>1, <1>2, EndsKeeps DEF StartLock, Unmarks, histVars
  <1>3. CASE Lockable(i)
    <2>0. /\ ex' = [ex EXCEPT ![i] = p]
          /\ pc' = [pc EXCEPT ![p] = "clear"]
          /\ UNCHANGED <<entry, content, sh, cmd, life, fd, seen, asked, projects,
                         unread, strangers>>
      BY <1>3 DEF StartLock, Goto, histVars
    <2>1. /\ \A q \in Proc : pc'[q] = IF q = p THEN "clear" ELSE pc[q]
          /\ \A x \in Proc : ex'[x] = IF x = i THEN p ELSE ex[x]
          /\ ex[i] = None /\ sh[i] = {}
      BY <1>1, <1>3, <2>0 DEF IInv, FullType, Lockable
    <2>2. FullType'
      BY <1>1, <2>0 DEF IInv, FullType, Places
    <2>3. Locks'
      BY <1>1, <2>0, <2>1 DEF IInv, Locks
    <2>4. Files'
      BY <2>0, <2>1, <1>1 DEF IInv, Files, Created, Opened
    <2>5. Holding'
      BY <2>0, <2>1, <1>1, PidAssumption DEF IInv, Holding, Holds, Held, Own
    <2>6. AllExplained'
      <3>1. \A q \in Proc : Recording(q)' => Recording(q) /\ (Marked(q)' => Marked(q))
        BY <2>0, <2>1, <1>1 DEF Recording, Marked
      <3> QED BY <2>0, <3>1, ExplainedKept DEF IInv
    <2>7. \A q \in Proc : OldOne(q) => entry[cmd[q].root] = q /\ ex'[q] = None /\ fd[p] # q
      BY <1>1, <2>1, OldElsewhere DEF OldMarked
    <2>8. "clear" \in Places
      BY DEF Places
    <2>9. Lives' /\ OldMarkers'
      BY <1>1, <2>0, <2>2, <2>3, <2>7, <2>8, StartMoves
    <2> QED BY <2>2, <2>3, <2>4, <2>5, <2>6, <2>9 DEF IInv
  <1> QED BY <1>2, <1>3

\* A start that holds its lock writes c to its file.
LEMMA WritesKeep ==
    ASSUME IInv, NEW p \in Proc, life[p] = "running", Holds(p), pc[p] # "end",
           NEW w \in Held, w # "clear", pc' = [pc EXCEPT ![p] = w],
           NEW c \in Marker, c = Empty \/ (c.pid = p /\ c.root = cmd[p].root),
           content' = [content EXCEPT ![fd[p]] = c],
           w \in {"project", "scanned", "announce", "watch"} => Recording(p) \/ cmd[p].force,
           UNCHANGED <<entry, ex, sh, cmd, life, fd, seen, asked, projects, unread, strangers>>
    PROVE  IInv'
  <1> DEFINE i == fd[p]
  <1>1. /\ cmd[p].kind = "start" /\ pc[p] \notin {"check", "done", "open"}
        /\ i \in Proc /\ ex[i] = p
    BY DEF IInv, FullType, Files, Opened, Holds, Held, Holding
  <1>2. /\ \A q \in Proc : pc'[q] = IF q = p THEN w ELSE pc[q]
        /\ \A x \in Proc : content'[x] = IF x = i THEN c ELSE content[x]
        /\ w \in Places /\ w \notin {"check", "done", "open"}
    BY DEF IInv, FullType, Held, Places
  <1>3. FullType'
    BY <1>2 DEF IInv, FullType
  <1>4. Locks'
    BY DEF IInv, Locks
  <1>5. Files'
    BY <1>1, <1>2 DEF IInv, Files, Created, Opened
  <1>6. Holding'
    <2> SUFFICES ASSUME NEW q \in Proc, Holds(q)'
                 PROVE  ex[fd[q]] = q /\ (pc'[q] # "clear" => Own(q)')
      BY DEF Holding
    <2>1. CASE q = p
      BY <2>1, <1>1, <1>2 DEF Own
    <2>2. CASE q # p
      <3>1. Holds(q) /\ ex[fd[q]] = q /\ (pc[q] # "clear" => Own(q)) /\ fd[q] \in Proc
        BY <2>2, <1>2 DEF Holds, IInv, Holding, FullType, Files, Opened, Held
      <3>2. fd[q] # i
        BY <3>1, <2>2, <1>1
      <3> QED BY <3>1, <3>2, <2>2, <1>2 DEF Own
    <2> QED BY <2>1, <2>2
  <1>7. AllExplained'
    <2>1. \A q \in Proc : Recording(q)' /\ ~cmd[q].force =>
              Recording(q) /\ (Marked(q)' => Marked(q))
      BY <1>2 DEF Recording, Marked
    <2> QED BY <2>1, ExplainedKept DEF IInv
  <1>8. \A q \in Proc : OldOne(q) =>
            /\ entry[cmd[q].root] = q /\ content'[q] = content[q]
            /\ ex[q] = None /\ fd[p] # q
    BY <1>1, <1>2, OldElsewhere DEF OldMarked
  <1>9. \A x \in Proc : content'[x] = content[x] \/ content'[x].pid \in {None, p}
    BY <1>2 DEF Empty
  <1>10. Lives' /\ OldMarkers'
    BY <1>1, <1>2, <1>3, <1>4, <1>8, <1>9, StartMoves
  <1> QED BY <1>3, <1>4, <1>5, <1>6, <1>7, <1>10 DEF IInv

LEMMA StartClearKeeps ==
    ASSUME IInv, NEW p \in Proc, StartClear(p)
    PROVE  IInv'
  <1>1. Empty \in Marker
    BY DEF Marker
  <1>2. CASE At(p, "start", "clear") /\ Goto(p, "write")
    BY <1>1, <1>2, WritesKeep DEF StartClear, At, Goto, Holds, Held, histVars
  <1>3. CASE At(p, "start", "scanned") /\ Goto(p, "announce")
    BY <1>1, <1>3, WritesKeep DEF StartClear, At, Goto, Holds, Held, histVars, Recording
  <1> QED BY <1>2, <1>3 DEF StartClear

LEMMA StartWriteKeeps ==
    ASSUME IInv, NEW p \in Proc, StartWrite(p)
    PROVE  IInv'
  <1> DEFINE c(state) == [pid |-> p, root |-> cmd[p].root, state |-> state]
  <1>0. c("starting") \in Marker /\ c("ready") \in Marker
    BY DEF Marker, IInv, FullType, Command
  <1>1. \A s \in {"starting", "ready"} : c(s).pid = p /\ c(s).root = cmd[p].root
    OBVIOUS
  <1>2. CASE At(p, "start", "write") /\ cmd[p].force
    <2>1. /\ pc' = [pc EXCEPT ![p] = "project"]
          /\ content' = [content EXCEPT ![fd[p]] = c("starting")]
      BY <1>2 DEF StartWrite, At, Goto
    <2> HIDE DEF c
    <2> QED BY <1>0, <1>1, <1>2, <2>1, WritesKeep DEF StartWrite, At, Holds, Held, histVars
  <1>3. CASE At(p, "start", "write") /\ ~cmd[p].force
    <2>1. /\ pc' = [pc EXCEPT ![p] = "overlap"]
          /\ content' = [content EXCEPT ![fd[p]] = c("starting")]
      BY <1>3 DEF StartWrite, At, Goto
    <2> HIDE DEF c
    <2> QED BY <1>0, <1>1, <1>3, <2>1, WritesKeep DEF StartWrite, At, Holds, Held, histVars
  <1>4. CASE At(p, "start", "announce")
    <2>1. /\ pc' = [pc EXCEPT ![p] = "watch"]
          /\ content' = [content EXCEPT ![fd[p]] = c("ready")]
      BY <1>4 DEF StartWrite, At, Goto
    <2> HIDE DEF c
    <2> QED BY <1>0, <1>1, <1>4, <2>1, WritesKeep
            DEF StartWrite, At, Holds, Held, histVars, Recording
  <1> QED BY <1>2, <1>3, <1>4 DEF StartWrite

\* A start that holds its lock goes on without writing.
LEMMA HolderMoves ==
    ASSUME IInv, NEW p \in Proc, life[p] = "running", Holds(p), pc[p] # "clear",
           NEW w \in Held, w # "clear", pc' = [pc EXCEPT ![p] = w],
           Shares(p),
           entry' = entry \/ entry' = [entry EXCEPT ![cmd[p].root] = None],
           projects' \subseteq Root, unread' \subseteq Proc,
           AllExplained',
           UNCHANGED <<content, ex, cmd, life, fd, seen, asked, strangers>>
    PROVE  IInv'
  <1>1. /\ cmd[p].kind = "start" /\ pc[p] \notin {"check", "done", "open"}
        /\ cmd[p].root \in Root
    BY DEF Holds, Held, IInv, FullType, Command
  <1>2. /\ \A q \in Proc : pc'[q] = IF q = p THEN w ELSE pc[q]
        /\ \A r \in Root : entry'[r] = IF entry'[r] = None THEN None ELSE entry[r]
        /\ w \in Places /\ w \notin {"check", "done", "open"}
    BY DEF IInv, FullType, Held, Places
  <1>3. FullType'
    BY <1>2 DEF IInv, FullType, Shares
  <1>4. Locks'
    BY DEF IInv, FullType, Locks, Shares
  <1>5. Files'
    BY <1>1, <1>2 DEF IInv, Files, Created, Opened
  <1>6. Holding'
    BY <1>1, <1>2 DEF IInv, Holding, Holds, Own
  <1>7. \A q \in Proc : OldOne(q) =>
            /\ entry'[cmd[q].root] = q /\ ex[q] = None /\ fd[p] # q
            /\ \A r \in Root : entry'[r] = q => entry[r] = q
    <2> SUFFICES ASSUME NEW q \in Proc, OldOne(q)
                 PROVE  /\ entry'[cmd[q].root] = q /\ ex[q] = None /\ fd[p] # q
                        /\ \A r \in Root : entry'[r] = q => entry[r] = q
      OBVIOUS
    <2>1. /\ OldMarked(q) /\ fd[p] # q
          /\ cmd[q].root \in Root /\ cmd[q].root # cmd[p].root
      BY <1>1, OldElsewhere
    <2>2. entry'[cmd[q].root] = entry[cmd[q].root]
      BY <1>1, <2>1 DEF IInv, FullType
    <2> QED BY <1>2, <2>1, <2>2, PidAssumption DEF OldMarked
  <1>8. \A q \in Proc : OldOne(q) =>
            /\ entry'[cmd[q].root] = q /\ content'[q] = content[q] /\ ex'[q] = None
            /\ \A r \in Root : entry'[r] = q => entry[r] = q
            /\ fd'[p] # q
    BY <1>7
  <1>9. /\ \A x \in Proc : content'[x] = content[x] \/ content'[x].pid \in {None, p}
        /\ \A q \in Proc : q # p => fd'[q] = fd[q]
    OBVIOUS
  <1>10. Lives' /\ OldMarkers'
    BY <1>1, <1>2, <1>3, <1>4, <1>8, <1>9, StartMoves
  <1> QED BY <1>3, <1>4, <1>5, <1>6, <1>10 DEF IInv

\* A start that looks at the markers of the others sees every recorder of an
\* overlapping folder whose marker names its file, or notes that it was
\* being written.
LEMMA Overlooked ==
    ASSUME IInv, NEW p \in Proc, StartOverlap(p),
           ~LegacyOverlap(cmd[p].root), OthersInTheWay(p) = {},
           NEW q \in Proc, q # p, Recording(q), Marked(q),
           Overlap(cmd[p].root, cmd[q].root)
    PROVE  q \in unread'
  <1> DEFINE r == cmd[q].root
  <1>1. r \in Root /\ fd[q] \in Proc /\ Holds(q) /\ pc[q] # "clear"
    BY DEF IInv, FullType, Command, Recording, Files, Opened, Holds, Held
  <1>2. entry[r] = fd[q] /\ ex[fd[q]] = q /\ Own(q)
    BY <1>1 DEF IInv, Holding, Marked
  <1>3. Alive(r) /\ ex[entry[r]] = q
    BY <1>1, <1>2, PidAssumption DEF Alive
  <1>4. CASE Says(r) = Empty
    BY <1>1, <1>3, <1>4 DEF StartOverlap
  <1>5. CASE Says(r) # Empty
    <2>1. Says(r).pid = q /\ Says(r).root = r
      BY <1>2, <1>5 DEF Own, Says
    <2>2. r \in OthersInTheWay(p)
      BY <1>1, <1>3, <1>5, <2>1 DEF OthersInTheWay, LiveRoots
    <2> QED BY <2>2
  <1> QED BY <1>4, <1>5

LEMMA StartOverlapKeeps ==
    ASSUME IInv, NEW p \in Proc, StartOverlap(p)
    PROVE  IInv'
  <1>1. /\ cmd[p].root \in Root /\ life[p] = "running" /\ cmd[p].kind = "start"
        /\ pc[p] = "overlap" /\ Holds(p)
    BY DEF IInv, FullType, Command, StartOverlap, At, Holds, Held
  <1>2. CASE LegacyOverlap(cmd[p].root) \/ OthersInTheWay(p) # {}
    BY <1>1, <1>2, EndsKeeps DEF StartOverlap, Unmarks
  <1>3. CASE ~LegacyOverlap(cmd[p].root) /\ OthersInTheWay(p) = {}
    <2>0. /\ pc' = [pc EXCEPT ![p] = "project"]
          /\ Probing(p, Root)
          /\ unread' = unread \cup
                 {ex[entry[r]] : r \in {q \in Root : Alive(q) /\ Says(q) = Empty}}
          /\ UNCHANGED <<entry, content, ex, cmd, life, fd, seen, asked, projects, strangers>>
      BY <1>3 DEF StartOverlap, Goto
    <2>1. \A q \in Proc : pc'[q] = IF q = p THEN "project" ELSE pc[q]
      BY <2>0 DEF IInv, FullType
    <2>2. unread' \subseteq Proc /\ unread \subseteq unread'
      BY <2>0 DEF IInv, FullType, Alive
    <2>3. \A q \in Proc : (q # p /\ Recording(q)') => Recording(q)
      BY <2>0, <2>1 DEF Recording
    <2>4. \A q \in Proc : Marked(q)' = Marked(q)
      BY <2>0 DEF Marked
    <2>5. \A q \in Proc :
             (q # p /\ Recording(q) /\ Overlap(cmd[p].root, cmd[q].root)) =>
                 ~Marked(q) \/ q \in unread'
      BY <1>3, Overlooked
    <2>6. AllExplained'
      <3> SUFFICES ASSUME NEW a \in Proc, NEW b \in Proc, a # b,
                          Recording(a)', Recording(b)', ~cmd[a].force, ~cmd[b].force,
                          Overlap(cmd[a].root, cmd[b].root)
                   PROVE  ~Marked(a)' \/ a \in unread' \/ ~Marked(b)' \/ b \in unread'
        BY <2>0 DEF AllExplained, Explained
      <3>1. CASE a = p
        BY <2>3, <2>4, <2>5, <3>1
      <3>2. CASE b = p
        <4>1. cmd[a].root \in Root
          BY DEF IInv, FullType, Command
        <4>2. Overlap(cmd[p].root, cmd[a].root)
          BY <4>1, <1>1, <3>2, FolderAssumption
        <4> QED BY <2>3, <2>4, <2>5, <3>2, <4>2
      <3>3. CASE a # p /\ b # p
        BY <2>2, <2>3, <2>4, <3>3 DEF IInv, AllExplained, Explained
      <3> QED BY <3>1, <3>2, <3>3
    <2>7. Shares(p)
      BY <2>0, ProbingShares
    <2>8. "project" \in Held /\ projects' \subseteq Root
      BY <2>0 DEF Held, IInv, FullType
    <2> QED BY <1>1, <2>0, <2>2, <2>6, <2>7, <2>8, HolderMoves
  <1> QED BY <1>2, <1>3

LEMMA StartScanKeeps ==
    ASSUME IInv, NEW p \in Proc, StartScan(p)
    PROVE  IInv'
  <1>1. /\ cmd[p].root \in Root /\ life[p] = "running" /\ pc[p] = "project" /\ Holds(p)
        /\ Recording(p)
    BY DEF IInv, FullType, Command, StartScan, At, Holds, Held, Recording
  <1>2. /\ pc' = [pc EXCEPT ![p] = "scanned"]
        /\ projects' = projects \cup {cmd[p].root}
        /\ Closed(p)
        /\ UNCHANGED <<entry, content, ex, cmd, life, fd, seen, asked, unread, strangers>>
    BY DEF StartScan, Goto, histVars
  <1>3. \A q \in Proc : pc'[q] = IF q = p THEN "scanned" ELSE pc[q]
    BY <1>2 DEF IInv, FullType
  <1>4. AllExplained'
    <2>1. \A q \in Proc : Recording(q)' => Recording(q) /\ (Marked(q)' => Marked(q))
      BY <1>1, <1>2, <1>3 DEF Recording, Marked
    <2> QED BY <1>2, <2>1, ExplainedKept DEF IInv
  <1>5. "scanned" \in Held /\ projects' \subseteq Root /\ unread' \subseteq Proc
    BY <1>1, <1>2 DEF Held, IInv, FullType
  <1> QED BY <1>1, <1>2, <1>4, <1>5, ClosedShares, HolderMoves

LEMMA StartShutdownKeeps ==
    ASSUME IInv, NEW p \in Proc, StartShutdown(p)
    PROVE  IInv'
  <1>1. life[p] = "running" /\ pc[p] = "watch" /\ Holds(p)
    BY DEF StartShutdown, Shutdown, At, Holds, Held
  <1>2. /\ pc' = [pc EXCEPT ![p] = "remove"]
        /\ UNCHANGED <<entry, content, ex, sh, cmd, life, fd, seen, asked, projects,
                       unread, strangers>>
    BY DEF StartShutdown, Shutdown, Goto, histVars, fileVars
  <1>3. \A q \in Proc : pc'[q] = IF q = p THEN "remove" ELSE pc[q]
    BY <1>2 DEF IInv, FullType
  <1>4. AllExplained'
    <2>1. \A q \in Proc : Recording(q)' => Recording(q) /\ (Marked(q)' => Marked(q))
      BY <1>1, <1>2, <1>3 DEF Recording, Marked
    <2> QED BY <1>2, <2>1, ExplainedKept DEF IInv
  <1>5. "remove" \in Held /\ projects' \subseteq Root /\ unread' \subseteq Proc
    BY <1>2 DEF Held, IInv, FullType
  <1> QED BY <1>1, <1>2, <1>4, <1>5, SameShares, HolderMoves

LEMMA StartRemoveKeeps ==
    ASSUME IInv, NEW p \in Proc, StartRemove(p)
    PROVE  IInv'
  <1>1. life[p] = "running" /\ pc[p] = "remove" /\ Holds(p)
    BY DEF StartRemove, At, Holds, Held
  <1>2. /\ pc' = [pc EXCEPT ![p] = "end"]
        /\ entry' = [entry EXCEPT ![cmd[p].root] = None]
        /\ UNCHANGED <<content, ex, sh, cmd, life, fd, seen, asked, projects,
                       unread, strangers>>
    BY DEF StartRemove, Remove, Goto, histVars
  <1>3. \A q \in Proc : pc'[q] = IF q = p THEN "end" ELSE pc[q]
    BY <1>2 DEF IInv, FullType
  <1>4. AllExplained'
    <2>1. ASSUME NEW q \in Proc, Recording(q)'
          PROVE  Recording(q) /\ (Marked(q)' => Marked(q))
      <3>1. Recording(q)
        BY <1>1, <1>2, <1>3, <2>1 DEF Recording
      <3>2. fd[q] \in Proc /\ cmd[q].root \in Root
        BY <3>1 DEF Recording, IInv, FullType, Files, Opened, Command
      <3> QED BY <1>2, <3>1, <3>2, PidAssumption DEF Marked, IInv, FullType
    <2> QED BY <1>2, <2>1, ExplainedKept DEF IInv
  <1>5. "end" \in Held /\ projects' \subseteq Root /\ unread' \subseteq Proc
    BY <1>2 DEF Held, IInv, FullType
  <1> QED BY <1>1, <1>2, <1>4, <1>5, SameShares, HolderMoves

LEMMA StartEndKeeps ==
    ASSUME IInv, NEW p \in Proc, StartEnd(p)
    PROVE  IInv'
  <1>1. cmd[p].root \in Root /\ life[p] = "running"
    BY DEF IInv, FullType, Command, StartEnd, At
  <1> QED BY <1>1, EndsKeeps DEF StartEnd, Unmarks, histVars

-------------------------------------------------------------------------------
(* The steps of a stop                                                     *)

\* What a stop has read names no old recorder, and where its folder is that
\* of one it has not read yet.
LEMMA StopBeside ==
    ASSUME IInv, NEW p \in Proc, life[p] = "running", cmd[p].kind = "stop",
           NEW q \in Proc, OldOne(q)
    PROVE  /\ OldMarked(q) /\ q # p /\ seen[p] # q
           /\ cmd[p].root = cmd[q].root => pc[p] = "check"
  BY DEF IInv, OldMarkers, OldMarked, OldOne

LEMMA StopNextKeeps ==
    ASSUME IInv, NEW p \in Proc, life[p] = "running", cmd[p].kind = "stop",
           NEW how, StopNext(p, how),
           NEW r \in Root, Unmarks(p, r),
           UNCHANGED <<content, fd, seen, asked, projects, unread, strangers>>
    PROVE  IInv'
  <1>1. CASE cmd[p].rest = {}
    BY <1>1, EndsKeeps DEF StopNext
  <1>2. CASE cmd[p].rest # {}
    <2>1. PICK x \in cmd[p].rest : cmd' = [cmd EXCEPT ![p].root = x, ![p].rest = @ \ {x}]
      BY <1>2 DEF StopNext
    <2>2. cmd[p] \in Command /\ x \in Root
      BY DEF IInv, FullType, Command
    <2> DEFINE c == [cmd[p] EXCEPT !.root = x, !.rest = @ \ {x}]
    <2>3. c \in Command /\ c.kind = "stop"
      BY <2>2 DEF Command
    <2>4. cmd' = [cmd EXCEPT ![p] = c]
      BY <2>1 DEF IInv, FullType
    <2> HIDE DEF c
    <2>5. seen' = [seen EXCEPT ![p] = seen[p]] /\ seen[p] \in Proc \cup {None}
      BY DEF IInv, FullType
    <2>6. \A q \in Proc : OldOne(q) => seen[p] # q
      BY StopBeside
    <2>7. /\ pc' = [pc EXCEPT ![p] = "check"] /\ Closed(p) /\ UNCHANGED <<ex, life>>
          /\ "check" \in Places
      BY <1>2 DEF StopNext, Goto, Places
    <2>8. Shares(p) /\ Asks /\ strangers' \subseteq Proc
      BY <2>7, ClosedShares, SameAsked DEF IInv, FullType
    <2> QED BY <2>3, <2>4, <2>5, <2>6, <2>7, <2>8, OtherMoves
  <1> QED BY <1>1, <1>2

LEMMA StopReadKeeps ==
    ASSUME IInv, NEW p \in Proc, StopRead(p)
    PROVE  IInv'
  <1> DEFINE r == cmd[p].root
  <1>1. /\ r \in Root /\ life[p] = "running" /\ cmd[p].kind = "stop" /\ pc[p] = "check"
        /\ cmd[p] \in Command
    BY DEF IInv, FullType, Command, StopRead, At
  <1>2. UNCHANGED <<entry, content, fd, asked, projects, unread, strangers>>
    BY DEF StopRead, histVars
  <1>3. Unmarks(p, r)
    BY <1>2 DEF Unmarks
  <1>4. ASSUME NEW how, StopNext(p, how), UNCHANGED seen PROVE IInv'
    BY <1>1, <1>2, <1>3, <1>4, StopNextKeeps
  <1>5. ASSUME entry[r] # None, ~LegacyAt(r), Says(r) # Empty,
               seen' = [seen EXCEPT ![p] = Says(r).pid],
               Goto(p, "probe"), UNCHANGED <<ex, sh, life, outcome, cmd>>
        PROVE  IInv'
    <2>1. entry[r] \in Proc /\ Says(r).pid \in Proc
      BY <1>1, <1>5 DEF IInv, FullType, Marker, Says
    <2>2. ASSUME NEW q \in Proc, OldOne(q) PROVE Says(r).pid # q /\ r # cmd[q].root
      <3>1. OldMarked(q)
        BY <2>2, <1>1, StopBeside
      <3>2. entry[r] # q
        <4>1. CASE entry[r] = q
          BY <1>5, <2>2, <3>1, <4>1 DEF LegacyAt, Says, OldMarked, OldMarker, OldOne
        <4> QED BY <4>1
      <3> QED BY <2>1, <3>1, <3>2 DEF OldMarked, Says
    <2>3. /\ pc' = [pc EXCEPT ![p] = "probe"] /\ "probe" \in Places
          /\ cmd' = [cmd EXCEPT ![p] = cmd[p]]
      BY <1>5 DEF Goto, Places, IInv, FullType
    <2>4. Shares(p) /\ Asks /\ strangers' \subseteq Proc
      BY <1>2, <1>5, SameShares, SameAsked DEF IInv, FullType
    <2>5. Says(r).pid # None
      BY <2>1, PidAssumption
    <2> QED BY <1>1, <1>2, <1>3, <1>5, <2>1, <2>2, <2>3, <2>4, <2>5, OtherMoves
  <1> QED BY <1>4, <1>5 DEF StopRead

LEMMA StopRemoveKeeps ==
    ASSUME IInv, NEW p \in Proc, StopRemove(p)
    PROVE  IInv'
  <1> DEFINE r == cmd[p].root
  <1>1. /\ r \in Root /\ life[p] = "running" /\ cmd[p].kind = "stop" /\ pc[p] # "check"
    BY DEF IInv, FullType, Command, StopRemove, At
  <1>2. /\ entry' = [entry EXCEPT ![r] = None]
        /\ UNCHANGED <<content, fd, seen, asked, projects, unread, strangers>>
    BY DEF StopRemove, Remove, histVars
  <1>3. Unmarks(p, r)
    BY <1>1, <1>2, StopBeside DEF Unmarks
  <1> QED BY <1>1, <1>2, <1>3, StopNextKeeps DEF StopRemove

\* A stop, or a command that ensures a recorder, only moves.
LEMMA StepsKeep ==
    ASSUME IInv, NEW p \in Proc, life[p] = "running", cmd[p].kind \in {"stop", "ensure"},
           NEW w \in Places, w # "probe", cmd[p].kind = "stop" => pc[p] # "check",
           Shares(p), Goto(p, w), Asks, strangers' \subseteq Proc,
           UNCHANGED <<entry, content, ex, cmd, life, fd, seen, projects, unread>>
    PROVE  IInv'
  <1>1. /\ cmd[p] \in Command /\ cmd[p].root \in Root /\ cmd' = [cmd EXCEPT ![p] = cmd[p]]
        /\ seen[p] \in Proc \cup {None} /\ seen' = [seen EXCEPT ![p] = seen[p]]
    BY DEF IInv, FullType, Command
  <1>2. cmd[p].kind = "stop" =>
            \A q \in Proc : OldOne(q) => seen[p] # q /\ cmd[p].root # cmd[q].root
    BY StopBeside
  <1>3. Unmarks(p, cmd[p].root) /\ pc' = [pc EXCEPT ![p] = w]
    BY DEF Unmarks, Goto
  <1>4. cmd[p].kind = "stop" =>
            /\ w = "probe" => seen[p] # None
            /\ \A q \in Proc : OldOne(q) =>
                   seen[p] # q /\ (cmd[p].root = cmd[q].root => w = "check")
    BY <1>2
  <1> QED BY <1>1, <1>3, <1>4, OtherMoves

LEMMA StopWaitKeeps ==
    ASSUME IInv, NEW p \in Proc, StopWait(p)
    PROVE  IInv'
  <1> DEFINE r == cmd[p].root
  <1>1. /\ r \in Root /\ life[p] = "running" /\ cmd[p].kind = "stop" /\ pc[p] = "wait"
        /\ UNCHANGED <<entry, content, fd, seen, asked, projects, unread, strangers>>
    BY DEF IInv, FullType, Command, StopWait, At, histVars
  <1>2. CASE Alive(r)
    BY <1>1, <1>2, StopNextKeeps DEF StopWait, Unmarks
  <1>3. CASE ~Alive(r)
    <2>1. Probing(p, {r}) /\ Goto(p, "stopped") /\ UNCHANGED <<cmd, ex, life>>
      BY <1>3 DEF StopWait
    <2>2. Shares(p) /\ "stopped" \in Places /\ Asks /\ strangers' \subseteq Proc
      BY <1>1, <2>1, ProbingShares, SameAsked DEF Places, IInv, FullType
    <2> QED BY <1>1, <2>1, <2>2, StepsKeep
  <1> QED BY <1>2, <1>3

\* A start that dies of the SIGTERM of a stop.
LEMMA TerminatedKeeps ==
    ASSUME IInv, NEW p \in Proc, life[p] = "running", cmd[p].kind = "stop", pc[p] = "probe",
           NEW q \in Proc, q = seen[p], life[q] = "running", pc[q] \in Defenceless,
           Dies(q, "terminated"),
           pc' = [pc EXCEPT ![p] = "wait", ![q] = "done"],
           UNCHANGED <<entry, content, cmd, fd, seen, asked, projects, unread, strangers>>
    PROVE  IInv'
  <1>0. /\ q # p /\ pc'[p] = "wait" /\ pc'[q] = "done"
        /\ \A x \in Proc \ {p, q} : pc'[x] = pc[x]
        /\ life'[q] = "gone" /\ \A x \in Proc \ {q} : life'[x] = life[x]
        /\ \A i \in Proc : ex'[i] = IF ex[i] = q THEN None ELSE ex[i]
        /\ \A i \in Proc : sh'[i] = sh[i] \ {q}
    BY DEF Dies, Closed, IInv, FullType, Defenceless
  <1>1. FullType'
    <2>1. ex' \in [Proc -> Proc \cup {None}] /\ sh' \in [Proc -> SUBSET Proc]
      BY DEF Dies, Closed, IInv, FullType
    <2>2. life' \in [Proc -> {"unborn", "running", "gone", "other"}]
      BY DEF Dies, IInv, FullType
    <2>3. pc' \in [Proc -> Places]
      BY DEF Places, IInv, FullType
    <2> QED BY <2>1, <2>2, <2>3 DEF IInv, FullType
  <1>2. Locks'
    BY <1>0 DEF IInv, FullType, Locks
  <1>3. Lives'
    BY <1>0 DEF IInv, FullType, Lives, At
  <1>4. Files'
    BY <1>0, PidAssumption DEF IInv, FullType, Files, Created, Opened, Defenceless
  <1>5. Holding'
    <2> SUFFICES ASSUME NEW t \in Proc, Holds(t)'
                 PROVE  ex'[fd[t]] = t /\ (pc'[t] # "clear" => Own(t)')
      BY DEF Holding
    <2>1. t # q /\ t # p /\ Holds(t)
      BY <1>0 DEF Holds, Held
    <2>2. fd[t] \in Proc /\ ex[fd[t]] = t /\ (pc[t] # "clear" => Own(t))
      BY <2>1 DEF Holds, Held, IInv, FullType, Files, Opened, Holding
    <2> QED BY <1>0, <2>1, <2>2 DEF Own
  <1>6. AllExplained'
    <2>1. ASSUME NEW t \in Proc, Recording(t)'
          PROVE  Recording(t) /\ (Marked(t)' => Marked(t))
      BY <1>0, <2>1 DEF Recording, Marked
    <2> QED BY <2>1, ExplainedKept DEF IInv
  <1>7. OldMarkers'
    <2> SUFFICES ASSUME NEW t \in Proc, OldOne(t)'
                 PROVE  OldMarked(t)'
      BY DEF OldMarkers
    <2>1. OldOne(t) /\ t # q /\ t # p
      BY <1>0 DEF OldOne
    <2>2. OldMarked(t) /\ (cmd[p].root = cmd[t].root => pc[p] = "check")
      BY <2>1, StopBeside
    <2>3. /\ pc'[t] = "watch" /\ ex'[t] = None /\ OldMarker(t, cmd)' = OldMarker(t, cmd)
      BY <1>0, <2>1, <2>2 DEF OldMarked, OldMarker
    <2>4. ASSUME NEW u \in Proc
          PROVE  /\ cmd[u].kind = "stop" /\ life'[u] = "running" => seen[u] # t
                 /\ cmd[u].kind = "start" /\ Overlap(cmd[t].root, cmd[u].root)
                       => pc'[u] \in {"check", "done"}
                 /\ cmd[u].kind = "stop" /\ life'[u] = "running" /\ cmd[u].root = cmd[t].root
                       => pc'[u] = "check"
      <3>1. /\ cmd[u].kind = "stop" /\ life[u] = "running" => seen[u] # t
            /\ cmd[u].kind = "start" /\ Overlap(cmd[t].root, cmd[u].root)
                  => pc[u] \in {"check", "done"}
            /\ cmd[u].kind = "stop" /\ life[u] = "running" /\ cmd[u].root = cmd[t].root
                  => pc[u] = "check"
        BY <2>2, <2>4 DEF OldMarked
      <3>2. CASE u = q
        BY <1>0, <3>2
      <3>3. CASE u = p
        BY <1>0, <2>2, <3>1, <3>3
      <3>4. CASE u # p /\ u # q
        <4>1. pc'[u] = pc[u] /\ life'[u] = life[u]
          BY <1>0, <2>4, <3>4
        <4> QED BY <3>1, <4>1
      <3> QED BY <3>2, <3>3, <3>4
    <2> QED BY <2>2, <2>3, <2>4 DEF OldMarked
  <1> QED BY <1>1, <1>2, <1>3, <1>4, <1>5, <1>6, <1>7 DEF IInv

LEMMA StopProbeKeeps ==
    ASSUME IInv, NEW p \in Proc, StopProbe(p)
    PROVE  IInv'
  <1> DEFINE r == cmd[p].root
             q == seen[p]
  <1>1. /\ r \in Root /\ life[p] = "running" /\ cmd[p].kind = "stop" /\ pc[p] = "probe"
        /\ UNCHANGED <<entry, content, cmd, fd, seen, projects, unread>>
    BY DEF IInv, FullType, Command, StopProbe, At
  <1>2. q \in Proc
    BY <1>1 DEF IInv, FullType, Lives, At
  <1>3. ASSUME ~Alive(r), Probing(p, {r}), Goto(p, "stale"),
               UNCHANGED <<ex, life, outcome, asked, strangers>>
        PROVE  IInv'
    <2>1. Shares(p) /\ "stale" \in Places /\ Asks /\ strangers' \subseteq Proc
      BY <1>3, ProbingShares, SameAsked DEF Places, IInv, FullType
    <2> QED BY <1>1, <1>3, <2>1, StepsKeep
  <1>4. ASSUME Alive(r), Signal(q),
               pc' = [x \in Proc |-> IF x = p THEN "wait"
                                     ELSE IF life'[x] = "gone" THEN "done" ELSE pc[x]]
        PROVE  IInv'
    <2>1. CASE life[q] = "running" /\ pc[q] \in Defenceless
      <3>1. /\ Dies(q, "terminated") /\ UNCHANGED <<asked, strangers>>
        BY <1>4, <2>1 DEF Signal
      <3>2. /\ life'[q] = "gone" /\ q # p
            /\ \A x \in Proc : x # q => (life'[x] = "gone" => pc[x] = "done")
        BY <1>1, <1>2, <2>1, <3>1 DEF Dies, IInv, FullType, Lives, Defenceless
      <3>3. pc' = [pc EXCEPT ![p] = "wait", ![q] = "done"]
        BY <1>1, <1>2, <1>4, <3>2 DEF IInv, FullType
      <3> QED BY <1>1, <1>2, <2>1, <3>1, <3>3, TerminatedKeeps
    <2>2. CASE ~(life[q] = "running" /\ pc[q] \in Defenceless)
      <3>1. /\ UNCHANGED <<ex, sh, life>>
            /\ asked' \subseteq asked \cup {q} /\ strangers' \subseteq strangers \cup {q}
        BY <1>4, <2>2 DEF Signal
      <3>2. Asks /\ strangers' \subseteq Proc
        BY <1>1, <1>2, <3>1, StopBeside DEF Asks, IInv, FullType
      <3>3. \A x \in Proc : life'[x] = "gone" => pc[x] = "done"
        BY <3>1 DEF IInv, Lives
      <3>4. Goto(p, "wait")
        BY <1>4, <3>3 DEF Goto, IInv, FullType
      <3>5. Shares(p) /\ "wait" \in Places
        BY <3>1, SameShares DEF Places
      <3> QED BY <1>1, <3>1, <3>2, <3>4, <3>5, StepsKeep
    <2> QED BY <2>1, <2>2
  <1> QED BY <1>3, <1>4 DEF StopProbe

-------------------------------------------------------------------------------
(* The steps of a command that ensures a recorder, and the rest            *)

\* A command ends without touching a name.
LEMMA JustEnds ==
    ASSUME IInv, NEW p \in Proc, life[p] = "running", NEW how, Ends(p, how),
           UNCHANGED <<entry, content, cmd, fd, seen, asked, projects, unread, strangers>>
    PROVE  IInv'
  <1>1. cmd[p].root \in Root /\ Unmarks(p, cmd[p].root)
    BY DEF IInv, FullType, Command, Unmarks
  <1> QED BY <1>1, EndsKeeps

LEMMA EnsureResolveKeeps ==
    ASSUME IInv, NEW p \in Proc, EnsureResolve(p)
    PROVE  IInv'
  <1>1. /\ life[p] = "running" /\ cmd[p].kind = "ensure"
        /\ UNCHANGED <<entry, content, cmd, fd, seen, asked, projects, unread, strangers>>
    BY DEF EnsureResolve, At, histVars
  <1>2. ASSUME NEW how, Ends(p, how) PROVE IInv'
    BY <1>1, <1>2, JustEnds
  <1>3. ASSUME Probing(p, Root), Goto(p, "root"), UNCHANGED <<ex, life>> PROVE IInv'
    <2>1. Shares(p) /\ "root" \in Places /\ Asks /\ strangers' \subseteq Proc
      BY <1>1, <1>3, ProbingShares, SameAsked DEF Places, IInv, FullType
    <2> QED BY <1>1, <1>3, <2>1, StepsKeep
  <1> QED BY <1>2, <1>3 DEF EnsureResolve

LEMMA EnsureRootKeeps ==
    ASSUME IInv, NEW p \in Proc, EnsureRoot(p)
    PROVE  IInv'
  <1>1. /\ life[p] = "running" /\ cmd[p].kind = "ensure"
        /\ cmd[p] \in Command /\ cmd[p].root \in Root
        /\ Probing(p, Root) /\ pc' = [pc EXCEPT ![p] = "spawn"]
        /\ UNCHANGED <<entry, content, ex, life, fd, seen, asked, projects, unread, strangers>>
    BY DEF EnsureRoot, At, Goto, histVars, IInv, FullType, Command
  <1>2. PICK q \in RecordingRoot(cmd[p].root) : cmd' = [cmd EXCEPT ![p].root = q]
    BY DEF EnsureRoot
  <1>3. q \in Root
    BY <1>1, <1>2 DEF RecordingRoot, Innermost, ReadyRoots, IInv, FullType
  <1> DEFINE c == [cmd[p] EXCEPT !.root = q]
  <1>4. c \in Command /\ c.kind = "ensure"
    BY <1>1, <1>3 DEF Command
  <1>5. cmd' = [cmd EXCEPT ![p] = c]
    BY <1>2 DEF IInv, FullType
  <1> HIDE DEF c
  <1>6. seen' = [seen EXCEPT ![p] = seen[p]] /\ seen[p] \in Proc \cup {None}
    BY <1>1 DEF IInv, FullType
  <1>7. /\ Shares(p) /\ "spawn" \in Places /\ Asks /\ strangers' \subseteq Proc
        /\ Unmarks(p, cmd[p].root)
    BY <1>1, ProbingShares, SameAsked DEF Places, Unmarks, IInv, FullType
  <1> QED BY <1>1, <1>4, <1>5, <1>6, <1>7, OtherMoves

\* A start is born.
LEMMA SpawnKeeps ==
    ASSUME IInv, NEW p \in Proc, life[p] = "running", cmd[p].kind = "ensure",
           NEW q \in Proc, life[q] = "unborn", NEW r \in Root,
           life' = [life EXCEPT ![q] = "running"],
           cmd' = [cmd EXCEPT ![q] = Spawned(r)],
           pc' = [pc EXCEPT ![q] = "check", ![p] = "poll"],
           seen' = [seen EXCEPT ![p] = q],
           Closed(p),
           UNCHANGED <<entry, content, ex, fd, asked, projects, unread, strangers>>
    PROVE  IInv'
  <1>0. /\ q # p /\ pc'[q] = "check" /\ pc'[p] = "poll"
        /\ \A x \in Proc \ {p, q} : pc'[x] = pc[x]
        /\ life'[q] = "running" /\ \A x \in Proc \ {q} : life'[x] = life[x]
        /\ cmd'[q] = Spawned(r) /\ \A x \in Proc \ {q} : cmd'[x] = cmd[x]
        /\ seen'[p] = q /\ \A x \in Proc \ {p} : seen'[x] = seen[x]
        /\ \A i \in Proc : sh'[i] = sh[i] \ {p}
    BY DEF Closed, IInv, FullType
  <1>1. cmd[q].kind = "child" /\ Spawned(r) \in Command /\ Spawned(r).kind = "start"
    BY DEF IInv, Lives, Spawned, Command, Kinds
  <1>2. FullType'
    <2>1. sh' \in [Proc -> SUBSET Proc]
      BY DEF Closed, IInv, FullType
    <2>2. life' \in [Proc -> {"unborn", "running", "gone", "other"}]
      BY DEF IInv, FullType
    <2>3. pc' \in [Proc -> Places]
      BY DEF Places, IInv, FullType
    <2>4. cmd' \in [Proc -> Command] /\ seen' \in [Proc -> Proc \cup {None}]
      BY <1>1 DEF IInv, FullType
    <2> QED BY <2>1, <2>2, <2>3, <2>4 DEF IInv, FullType
  <1>3. Locks'
    BY <1>0 DEF IInv, FullType, Locks
  <1>4. Lives'
    BY <1>0, <1>1 DEF IInv, FullType, Lives, At
  <1>5. Files'
    BY <1>0, <1>1, PidAssumption DEF IInv, FullType, Files, Created, Opened
  <1>6. Holding'
    <2> SUFFICES ASSUME NEW t \in Proc, Holds(t)'
                 PROVE  ex'[fd[t]] = t /\ (pc'[t] # "clear" => Own(t)')
      BY DEF Holding
    <2>1. t # q /\ t # p /\ Holds(t) /\ cmd'[t] = cmd[t] /\ pc'[t] = pc[t]
      <3>1. cmd'[t].kind = "start" /\ pc'[t] \in Held
        BY DEF Holds
      <3>2. t # q /\ t # p
        BY <1>0, <3>1 DEF Held
      <3>3. cmd'[t] = cmd[t] /\ pc'[t] = pc[t]
        BY <1>0, <3>2
      <3> QED BY <3>1, <3>2, <3>3 DEF Holds
    <2> QED BY <2>1 DEF IInv, Holding, Own
  <1>7. AllExplained'
    <2>1. ASSUME NEW t \in Proc, Recording(t)'
          PROVE  Recording(t) /\ cmd'[t] = cmd[t] /\ (Marked(t)' => Marked(t))
      BY <1>0, <2>1 DEF Recording, Marked
    <2> QED BY <2>1, ExplainedKept DEF IInv
  <1>8. OldMarkers'
    <2> SUFFICES ASSUME NEW t \in Proc, OldOne(t)'
                 PROVE  OldMarked(t)'
      BY DEF OldMarkers
    <2>1. OldOne(t) /\ t # q /\ t # p
      BY <1>0, <1>1 DEF OldOne
    <2>2. OldMarked(t)
      BY <2>1 DEF IInv, OldMarkers
    <2>3. /\ pc'[t] = "watch" /\ cmd'[t] = cmd[t]
          /\ OldMarker(t, cmd)' = OldMarker(t, cmd)
      BY <1>0, <2>1, <2>2 DEF OldMarked, OldMarker
    <2>4. ASSUME NEW u \in Proc
          PROVE  /\ cmd'[u].kind = "stop" /\ life'[u] = "running" => seen'[u] # t
                 /\ cmd'[u].kind = "start" /\ Overlap(cmd'[t].root, cmd'[u].root)
                       => pc'[u] \in {"check", "done"}
                 /\ cmd'[u].kind = "stop" /\ life'[u] = "running" /\ cmd'[u].root = cmd'[t].root
                       => pc'[u] = "check"
      <3>1. CASE u = q
        BY <1>0, <1>1, <3>1
      <3>2. CASE u = p
        BY <1>0, <3>2
      <3>3. CASE u # p /\ u # q
        <4>1. /\ cmd'[u] = cmd[u] /\ life'[u] = life[u] /\ pc'[u] = pc[u]
              /\ seen'[u] = seen[u]
          BY <1>0, <3>3
        <4>2. /\ cmd[u].kind = "stop" /\ life[u] = "running" => seen[u] # t
              /\ cmd[u].kind = "start" /\ Overlap(cmd[t].root, cmd[u].root)
                    => pc[u] \in {"check", "done"}
              /\ cmd[u].kind = "stop" /\ life[u] = "running" /\ cmd[u].root = cmd[t].root
                    => pc[u] = "check"
          BY <2>2 DEF OldMarked
        <4> QED BY <2>3, <4>1, <4>2
      <3> QED BY <3>1, <3>2, <3>3
    <2> QED BY <2>2, <2>3, <2>4 DEF OldMarked
  <1> QED BY <1>2, <1>3, <1>4, <1>5, <1>6, <1>7, <1>8 DEF IInv

LEMMA EnsureSpawnKeeps ==
    ASSUME IInv, NEW p \in Proc, EnsureSpawn(p)
    PROVE  IInv'
  <1> DEFINE r == cmd[p].root
  <1>1. /\ r \in Root /\ life[p] = "running" /\ cmd[p].kind = "ensure"
        /\ UNCHANGED <<entry, content, fd, asked, projects, unread, strangers>>
    BY DEF EnsureSpawn, At, histVars, IInv, FullType, Command
  <1>2. ASSUME NEW how, Ends(p, how), UNCHANGED <<cmd, seen>> PROVE IInv'
    BY <1>1, <1>2, JustEnds
  <1>3. ASSUME NEW q \in Proc, life[q] = "unborn",
               life' = [life EXCEPT ![q] = "running"],
               cmd' = [cmd EXCEPT ![q] = Spawned(r)],
               pc' = [pc EXCEPT ![q] = "check", ![p] = "poll"],
               seen' = [seen EXCEPT ![p] = q], Closed(p), UNCHANGED ex
        PROVE  IInv'
    BY <1>1, <1>3, SpawnKeeps
  <1> QED BY <1>2, <1>3 DEF EnsureSpawn

LEMMA EnsurePollKeeps ==
    ASSUME IInv, NEW p \in Proc, EnsurePoll(p)
    PROVE  IInv'
  <1>1. /\ life[p] = "running" /\ cmd[p].kind = "ensure"
        /\ UNCHANGED <<entry, content, cmd, fd, seen, asked, projects, unread, strangers>>
    BY DEF EnsurePoll, At, histVars
  <1>2. ASSUME Ends(p, "started") PROVE IInv'
    BY <1>1, <1>2, JustEnds
  <1>3. ASSUME Probing(p, {cmd[p].root}), Goto(p, "look"), UNCHANGED <<ex, life>> PROVE IInv'
    <2>1. Shares(p) /\ "look" \in Places /\ Asks /\ strangers' \subseteq Proc
      BY <1>1, <1>3, ProbingShares, SameAsked DEF Places, IInv, FullType
    <2> QED BY <1>1, <1>3, <2>1, StepsKeep
  <1> QED BY <1>2, <1>3 DEF EnsurePoll

LEMMA EnsureLookKeeps ==
    ASSUME IInv, NEW p \in Proc, EnsureLook(p)
    PROVE  IInv'
  <1>1. /\ life[p] = "running" /\ cmd[p].kind = "ensure"
        /\ UNCHANGED <<entry, content, cmd, fd, seen, asked, projects, unread, strangers>>
    BY DEF EnsureLook, At, histVars
  <1>2. ASSUME Ends(p, "exited during startup") PROVE IInv'
    BY <1>1, <1>2, JustEnds
  <1>3. ASSUME Goto(p, "poll"), Closed(p), UNCHANGED <<ex, life>> PROVE IInv'
    <2>1. Shares(p) /\ "poll" \in Places /\ Asks /\ strangers' \subseteq Proc
      BY <1>1, <1>3, ClosedShares, SameAsked DEF Places, IInv, FullType
    <2> QED BY <1>1, <1>3, <2>1, StepsKeep
  <1> QED BY <1>2, <1>3 DEF EnsureLook

LEMMA EnsureTimeoutKeeps ==
    ASSUME IInv, NEW p \in Proc, EnsureTimeout(p)
    PROVE  IInv'
  BY JustEnds DEF EnsureTimeout, At, histVars

LEMMA KillKeeps ==
    ASSUME IInv, NEW p \in Proc, Kill(p)
    PROVE  IInv'
  <1>1. cmd[p].root \in Root /\ Unmarks(p, cmd[p].root) /\ asked' \subseteq asked
    BY DEF IInv, FullType, Command, Unmarks, Kill
  <1> QED BY <1>1, EndsKeeps DEF Kill, histVars

LEMMA LegacyEndKeeps ==
    ASSUME IInv, NEW p \in Proc, LegacyEnd(p)
    PROVE  IInv'
  <1>1. /\ cmd[p].root \in Root /\ life[p] = "running" /\ OldOne(p)
        /\ entry' = [entry EXCEPT ![cmd[p].root] = None]
    BY DEF IInv, FullType, Command, LegacyEnd, At, OldOne, Remove
  <1>2. Unmarks(p, cmd[p].root)
    BY <1>1 DEF Unmarks, IInv, OldMarkers, OldMarked
  <1> QED BY <1>1, <1>2, EndsKeeps DEF LegacyEnd, histVars

LEMMA ReuseKeeps ==
    ASSUME IInv, NEW p \in Proc, Reuse(p)
    PROVE  IInv'
  <1>1. /\ life[p] = "gone" /\ life' = [life EXCEPT ![p] = "other"]
        /\ UNCHANGED <<entry, content, ex, sh, cmd, pc, fd, seen, asked, projects,
                       unread, strangers>>
    BY DEF Reuse, fileVars, histVars
  <1>2. life'[p] = "other" /\ \A x \in Proc \ {p} : life'[x] = life[x]
    BY <1>1 DEF IInv, FullType
  <1>3. FullType'
    BY <1>1 DEF IInv, FullType
  <1>4. Locks'
    BY <1>1, <1>2 DEF IInv, FullType, Locks
  <1>5. Lives'
    BY <1>1, <1>2 DEF IInv, FullType, Lives, At
  <1>6. Files' /\ Holding'
    BY <1>1 DEF IInv, Files, Created, Opened, Holding, Holds, Own
  <1>7. AllExplained'
    <2>1. ASSUME NEW t \in Proc, Recording(t)'
          PROVE  Recording(t) /\ (Marked(t)' => Marked(t))
      BY <1>1, <1>2, <2>1 DEF Recording, Marked
    <2> QED BY <1>1, <2>1, ExplainedKept DEF IInv
  <1>8. OldMarkers'
    <2> SUFFICES ASSUME NEW t \in Proc, OldOne(t)'
                 PROVE  OldMarked(t)'
      BY DEF OldMarkers
    <2>1. OldOne(t) /\ OldMarked(t)
      BY <1>1, <1>2 DEF OldOne, IInv, OldMarkers
    <2> QED BY <1>1, <1>2, <2>1 DEF OldMarked, OldMarker
  <1> QED BY <1>3, <1>4, <1>5, <1>6, <1>7, <1>8 DEF IInv

-------------------------------------------------------------------------------
(* The theorems                                                            *)

LEMMA InitHolds == Init => IInv
  <1> SUFFICES ASSUME Init PROVE IInv
    OBVIOUS
  <1>1. /\ cmd \in [Proc -> Command]
        /\ \A p, q \in Proc : cmd[p].kind = "legacy" =>
              /\ p \in Legacy
              /\ cmd[q].kind = "legacy" /\ cmd[p].root = cmd[q].root => p = q
    BY CommandAssumption DEF Init
  <1>2. ASSUME NEW r \in Root
        PROVE  \/ entry[r] = None
               \/ /\ entry[r] \in Proc /\ cmd[entry[r]].kind = "legacy"
                  /\ cmd[entry[r]].root = r
    <2>1. CASE \E p \in Legacy : cmd[p].kind = "legacy" /\ cmd[p].root = r
      BY <2>1, PidAssumption DEF Init
    <2>2. CASE ~\E p \in Legacy : cmd[p].kind = "legacy" /\ cmd[p].root = r
      BY <2>2 DEF Init
    <2> QED BY <2>1, <2>2
  <1>3. ASSUME NEW p \in Proc
        PROVE  /\ cmd[p].root \in Root
               /\ content[p] = (IF cmd[p].kind = "legacy" THEN OldMarker(p, cmd) ELSE Empty)
               /\ content[p] \in Marker
               /\ life[p] = IF cmd[p].kind = "child" THEN "unborn" ELSE "running"
               /\ pc[p] = IF cmd[p].kind = "legacy" THEN "watch" ELSE "check"
               /\ ex[p] = None /\ sh[p] = {} /\ fd[p] = None /\ seen[p] = None
    <2>1. cmd[p] \in Command
      BY <1>1
    <2>2. cmd[p].root \in Root
      BY <2>1 DEF Command
    <2> QED BY <2>2 DEF Init, Marker, OldMarker
  <1>4. FullType
    <2>1. entry \in [Root -> Proc \cup {None}]
      BY <1>2 DEF Init
    <2>2. content \in [Proc -> Marker]
      BY <1>3 DEF Init
    <2>3. /\ life \in [Proc -> {"unborn", "running", "gone", "other"}]
          /\ pc \in [Proc -> Places]
      BY DEF Init, Places
    <2> QED BY <1>1, <2>1, <2>2, <2>3 DEF Init, FullType
  <1>5. Locks /\ Lives
    BY <1>3 DEF Locks, Lives, At
  <1>6. Files
    BY <1>2, <1>3 DEF Files, Created, Opened
  <1>7. Holding /\ AllExplained
    BY <1>3 DEF Holding, Holds, Held, AllExplained, Explained, Recording
  <1>8. OldMarkers
    <2> SUFFICES ASSUME NEW p \in Proc, OldOne(p)
                 PROVE  OldMarked(p)
      BY DEF OldMarkers
    <2>1. cmd[p].kind = "legacy" /\ p \in Legacy /\ cmd[p].root \in Root
      BY <1>1, <1>3 DEF OldOne
    <2>2. entry[cmd[p].root] # None
      BY <2>1, PidAssumption DEF Init
    <2>3. entry[cmd[p].root] = p
      BY <1>1, <1>2, <2>1, <2>2
    <2>4. \A r \in Root : entry[r] = p => r = cmd[p].root
      BY <1>2, PidAssumption
    <2>5. \A i \in Proc : content[i].pid = p => i = p
      <3> SUFFICES ASSUME NEW i \in Proc, content[i].pid = p PROVE i = p
        OBVIOUS
      <3>1. CASE cmd[i].kind = "legacy"
        <4>1. content[i] = OldMarker(i, cmd)
          BY <1>3, <3>1
        <4>2. OldMarker(i, cmd).pid = i
          BY DEF OldMarker
        <4> QED BY <4>1, <4>2
      <3>2. CASE cmd[i].kind # "legacy"
        BY <1>3, <3>2, PidAssumption DEF Empty
      <3> QED BY <3>1, <3>2
    <2>6. p \notin asked
      BY DEF Init
    <2> QED BY <1>3, <2>1, <2>3, <2>4, <2>5, <2>6, PidAssumption DEF OldMarked
  <1> QED BY <1>4, <1>5, <1>6, <1>7, <1>8 DEF IInv

LEMMA NextKeeps ==
    ASSUME IInv, [Next]_vars
    PROVE  IInv'
  <1>1. CASE UNCHANGED vars
    <2>1. UNCHANGED <<entry, content, ex, sh, cmd, life, pc, fd, seen, asked, projects,
                     unread, strangers>>
      BY <1>1 DEF vars, fileVars, procVars, histVars
    <2>2. FullType' /\ Locks' /\ Lives' /\ Files'
      BY <2>1 DEF IInv, FullType, Locks, Lives, Files, Created, Opened, At
    <2>3. Holding' /\ AllExplained'
      BY <2>1 DEF IInv, Holding, Holds, Own, AllExplained, Explained, Recording, Marked
    <2>4. OldMarkers'
      BY <2>1 DEF IInv, OldMarkers, OldOne, OldMarked, OldMarker
    <2> QED BY <2>2, <2>3, <2>4 DEF IInv
  <1>2. ASSUME NEW p \in Proc, Start(p)
        PROVE  IInv'
    BY <1>2, StartCheckKeeps, StartOpenKeeps, StartLockKeeps, StartClearKeeps,
       StartWriteKeeps, StartOverlapKeeps, StartScanKeeps, StartRemoveKeeps, StartEndKeeps
       DEF Start
  <1>3. ASSUME NEW p \in Proc,
               StartShutdown(p) \/ StopRead(p) \/ StopProbe(p) \/ StopWait(p) \/ StopRemove(p)
        PROVE  IInv'
    BY <1>3, StartShutdownKeeps, StopReadKeeps, StopProbeKeeps, StopWaitKeeps,
       StopRemoveKeeps
  <1>4. ASSUME NEW p \in Proc,
               \/ EnsureResolve(p) \/ EnsureRoot(p) \/ EnsureSpawn(p) \/ EnsurePoll(p)
               \/ EnsureLook(p) \/ EnsureTimeout(p)
        PROVE  IInv'
    BY <1>4, EnsureResolveKeeps, EnsureRootKeeps, EnsureSpawnKeeps, EnsurePollKeeps,
       EnsureLookKeeps, EnsureTimeoutKeeps
  <1>5. ASSUME NEW p \in Proc, Kill(p) \/ Reuse(p) \/ LegacyEnd(p)
        PROVE  IInv'
    BY <1>5, KillKeeps, ReuseKeeps, LegacyEndKeeps
  <1> QED BY <1>1, <1>2, <1>3, <1>4, <1>5 DEF Next

\* Locks, files and markers fit together at every moment.
THEOREM Invariance == Spec => []IInv
  <1>1. Init => IInv
    BY InitHolds
  <1>2. IInv /\ [Next]_vars => IInv'
    BY NextKeeps
  <1> QED BY <1>1, <1>2, PTL DEF Spec

\* Every variable keeps its type; who holds a lock runs, and an exclusive lock
\* excludes the shared ones.
THEOREM TypeCorrect == Spec => []TypeOK
  <1>1. IInv => TypeOK
    <2> SUFFICES ASSUME IInv PROVE TypeOK
      OBVIOUS
    <2>1. ASSUME NEW i \in Proc
          PROVE  /\ content[i].root \in Root \cup {None}
                 /\ ex[i] \in Proc \cup {None}
                 /\ ex[i] # None => life[ex[i]] = "running" /\ sh[i] = {}
                 /\ \A p \in sh[i] : life[p] = "running"
      BY DEF IInv, FullType, Locks, Marker, Empty
    <2> QED BY <2>1 DEF IInv, FullType, Lives, TypeOK
  <1> QED BY <1>1, Invariance, PTL

\* Two recorders of overlapping folders, neither forced, only run when one of
\* them has lost its marker or was overlooked while that was being written.
THEOREM DoublesExplained == Spec => []OverlapExplained
  <1>1. IInv => OverlapExplained
    <2> SUFFICES ASSUME IInv, NEW pair \in Doubled
                 PROVE  \E p \in {pair[1], pair[2]} : ~Marked(p) \/ p \in unread
      BY DEF OverlapExplained
    <2>1. pair[1] \in Proc /\ pair[2] \in Proc /\ Explained(pair[1], pair[2])
      BY DEF IInv, AllExplained, Doubled
    <2> QED BY <2>1 DEF Explained, Doubled
  <1> QED BY <1>1, Invariance, PTL

\* As long as a recorder of an old version runs, its marker stays, nobody sends
\* it SIGTERM and nobody records an overlapping folder, forced or not.
THEOREM OldRecordersRespected == Spec => []LegacyRespected
  <1>1. IInv => LegacyRespected
    <2> SUFFICES ASSUME IInv, NEW p \in Legacy, cmd[p].kind = "legacy", life[p] = "running"
                 PROVE  /\ entry[cmd[p].root] = p /\ content[p] = OldMarker(p, cmd)
                        /\ p \notin asked
                        /\ \A q \in Proc : Recording(q) => ~Overlap(cmd[p].root, cmd[q].root)
      BY DEF LegacyRespected
    <2>1. p \in Proc /\ OldMarked(p)
      BY PidAssumption DEF IInv, OldMarkers, OldOne
    <2> QED BY <2>1 DEF OldMarked, Recording
  <1> QED BY <1>1, Invariance, PTL
==============================================================================

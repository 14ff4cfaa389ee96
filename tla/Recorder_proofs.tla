--------------------------- MODULE Recorder_proofs ---------------------------
(***************************************************************************)
(* The recorded history ends up saying what is on disk, for any number of  *)
(* paths, contents, changes and faults: type correctness, that events and  *)
(* rows agree, that deletions are real, and that no change is forgotten.   *)
(*                                                                         *)
(* Why no change is forgotten depends on whether the file exists.  A file  *)
(* that does is read again as long as its path is anywhere in the channel, *)
(* the debouncer, a handler or the scan (PresentKept).  A file that does   *)
(* not is only settled by a notification that can record a deletion, or by *)
(* a scan (AbsentKept).  Both would fail if an old notification could      *)
(* delete a file that is there again: a later one always follows (Notes).  *)
(***************************************************************************)
EXTENDS Recorder, TLAPS

\* A later notification is about the same path.
Later(i, q) == \E j \in DOMAIN queue : j > i /\ q \in Paths(queue[j])

\* The notifications after which a missing file is recorded as deleted.
RemoverOf(n, q) == n.kind \in {"remove", "name", "exchange"} /\ n.path = q
Removing(q) == \E i \in DOMAIN queue : RemoverOf(queue[i], q)

\* The paths a notification says are gone.
Removes(n) ==
    CASE n.kind = "remove" -> {n.path}
      [] n.kind = "both" -> {n.old}
      [] OTHER -> {}

\* Where the recorder is, and what its local variables then hold.
Starting == pc \in {"down", "stopped", "ready"}
              \/ (pc \in {"walk", "scan"} /\ op.next = "ready")
Shape ==
    /\ pc # "work" => op.path = {} /\ op.old = {}
    /\ pc \in {"down", "stopped", "walk", "ready", "top"} => op.todo = {}
    /\ pc = "work" => op.next \in {"top", "flush", "drain"}
    /\ pc = "work" /\ op.next = "top" => op.todo = {}
    /\ pc \in {"walk", "scan"} => op.next \in {"ready", "flush"} /\ pending = {}
    /\ pc = "flush" /\ op.todo # {} => op.next = "flush"
    /\ pc = "drain" => op.next = "drain"
    /\ pc \in {"drain", "work"} /\ op.next = "drain" => pending = {}
    /\ pc = "walk" => Read = {}
    /\ pc = "scan" => op.todo \subseteq op.walked /\ Read \subseteq op.walked \ op.todo
    /\ Starting => ~watching /\ queue = <<>> /\ pending = {}
    /\ paused => pending = {}

\* A notification that a path is gone is followed by another one if the file
\* is there again, or the watch ended before it came back.
Notes ==
    \A i \in DOMAIN queue : \A q \in Removes(queue[i]) :
        Exists(q) => Later(i, q) \/ (~watching /\ q \in missed)

\* What a handler was told still holds, or it will be told of the change.
Working ==
    /\ \A q \in op.path : \/ Exists(q) /\ op.stamp = disk[q].stamp
                          \/ q \in missed \cup Queued
    /\ \A q \in op.old : Exists(q) => q \in missed \cup Queued

\* What a scan has found still holds, or it will be told of the change.
Scanning ==
    pc = "scan" =>
      /\ \A q \in Read :
           /\ op.found[q] = disk[q] \/ q \in missed \cup Queued
           /\ Exists(q) \/ q \in missed \/ Removing(q)
      /\ op.walked # {} =>
           \A q \in Path \ op.walked : Exists(q) => q \in missed \cup Queued

Kept == missed \cup reborn \cup Queued \cup pending \cup Lookalikes \cup op.path
          \cup (IF pc = "scan" THEN Read ELSE op.todo)
PresentKept == \A q \in Path \ Kept : Exists(q) => Settled(q)

AbsentKept ==
    \A q \in Path \ (missed \cup reborn) :
        Exists(q) \/ Settled(q) \/ Removing(q) \/ (pc = "scan" /\ q \in Gone)

\* A file on one of the two filesystems, or that was there until its removal.
Known(q) == Exists(q) \/ q \in Shelved \/ q \in removed

\* What has been recorded, found or met existed, and does or was removed; and
\* what a scan that trusts deletions does not meet.
Deleting ==
    /\ \A q \in Path : rows[q].live => rows[q].hash # None
    /\ \A q \in Path :
         rows[q].hash # None \/ op.found[q].content # None \/ q \in op.walked
           => Known(q)
    /\ \A i \in DOMAIN queue : Removes(queue[i]) \subseteq removed
    /\ op.old \subseteq removed
    /\ pc = "scan" /\ op.walked # {} /\ op.trusted =>
         \A q \in Path \ op.walked : rows[q].live => q \in removed \cup guessed

IInv ==
    /\ TypeOK /\ Shape /\ HistoryMatchesRows /\ Notes /\ Working /\ Scanning
    /\ PresentKept /\ AbsentKept /\ Deleting /\ DeletionsAreReal

-------------------------------------------------------------------------------
(* The channel                                                             *)

\* Queued and ToSet in terms of positions.
LEMMA QueuedMeans ==
    ASSUME NEW q
    PROVE  q \in Queued <=> \E i \in DOMAIN queue : q \in Paths(queue[i])
  BY DEF Queued, ToSet

\* A remover of a path is about that path.
LEMMA RemovingQueued ==
    ASSUME NEW q, Removing(q)
    PROVE  q \in Queued
  <1>1. \A n : RemoverOf(n, q) => q \in Paths(n)
    BY DEF RemoverOf, Paths
  <1> QED
    BY <1>1, QueuedMeans DEF Removing

\* What was in the channel stays there when notifications are appended, and
\* those are in it.
LEMMA AppendedNotes ==
    ASSUME queue \in Seq(Note), NEW notes \in Seq(Note), queue' = queue \o notes
    PROVE  /\ \A q : q \in Queued => q \in Queued'
           /\ \A q : Removing(q) => Removing(q)'
           /\ \A i \in DOMAIN queue : queue'[i] = queue[i]
           /\ \A i \in DOMAIN queue : \A q : Later(i, q) => Later(i, q)'
           /\ \A i \in DOMAIN queue, j \in DOMAIN notes : \A q :
                q \in Paths(notes[j]) => Later(i, q)'
           /\ \A j \in DOMAIN notes : \A q : q \in Paths(notes[j]) => q \in Queued'
           /\ \A j \in DOMAIN notes : \A q : RemoverOf(notes[j], q) => Removing(q)'
           /\ \A i \in DOMAIN queue' : i \in DOMAIN queue
                                         \/ \E j \in DOMAIN notes : queue'[i] = notes[j]
  <1>1. /\ DOMAIN queue = 1 .. Len(queue) /\ DOMAIN notes = 1 .. Len(notes)
        /\ DOMAIN queue' = 1 .. Len(queue) + Len(notes)
        /\ Len(queue) \in Nat /\ Len(notes) \in Nat
    OBVIOUS
  <1>2. \A i \in DOMAIN queue : i \in DOMAIN queue' /\ queue'[i] = queue[i]
    BY <1>1
  <1>3. \A j \in DOMAIN notes : /\ Len(queue) + j \in DOMAIN queue'
                                /\ queue'[Len(queue) + j] = notes[j]
                                /\ \A i \in DOMAIN queue : Len(queue) + j > i
    BY <1>1
  <1>4. \A q : q \in Queued' <=> \E i \in DOMAIN queue' : q \in Paths(queue'[i])
    BY DEF Queued, ToSet, Paths
  <1>5. \A q : q \in Queued => q \in Queued'
    BY <1>2, <1>4, QueuedMeans
  <1>6. \A q : Removing(q) => Removing(q)'
    BY <1>2 DEF Removing, RemoverOf
  <1>7. \A i \in DOMAIN queue : \A q : Later(i, q) => Later(i, q)'
    BY <1>2 DEF Later, Paths
  <1>8. ASSUME NEW j \in DOMAIN notes, NEW q, q \in Paths(notes[j])
        PROVE  q \in Queued' /\ \A i \in DOMAIN queue : Later(i, q)'
    <2>1. PICK k \in DOMAIN queue' :
            queue'[k] = notes[j] /\ \A i \in DOMAIN queue : k > i
      BY <1>3
    <2>2. q \in Paths(queue'[k])
      BY <1>8, <2>1
    <2>3. q \in Queued'
      BY <1>4, <2>2
    <2>4. \A i \in DOMAIN queue : Later(i, q)'
      BY <2>1, <2>2 DEF Later, Paths
    <2> QED
      BY <2>3, <2>4
  <1>9. \A j \in DOMAIN notes : \A q : RemoverOf(notes[j], q) => Removing(q)'
    BY <1>3 DEF Removing, RemoverOf
  <1>10. ASSUME NEW i \in DOMAIN queue', i \notin DOMAIN queue
         PROVE  \E j \in DOMAIN notes : queue'[i] = notes[j]
    <2>1. i - Len(queue) \in DOMAIN notes /\ i = Len(queue) + (i - Len(queue))
      BY <1>1, <1>10
    <2> QED
      BY <1>3, <2>1
  <1> QED
    BY <1>2, <1>5, <1>6, <1>7, <1>8, <1>9, <1>10

\* What is left of the channel when its head has been taken.
LEMMA ReceivedNote ==
    ASSUME queue \in Seq(Note), queue # <<>>, queue' = Tail(queue)
    PROVE  /\ Head(queue) \in Note /\ queue' \in Seq(Note)
           /\ 1 \in DOMAIN queue /\ Head(queue) = queue[1]
           /\ \A q : q \in Queued => q \in Queued' \/ q \in Paths(Head(queue))
           /\ \A q : Removing(q) => Removing(q)' \/ RemoverOf(Head(queue), q)
           /\ \A q : Later(1, q) => q \in Queued'
           /\ \A i \in DOMAIN queue' :
                /\ i + 1 \in DOMAIN queue /\ queue'[i] = queue[i + 1]
                /\ \A q : Later(i + 1, q) => Later(i, q)'
  <1>1. /\ Len(queue) \in Nat \ {0} /\ DOMAIN queue = 1 .. Len(queue)
        /\ DOMAIN queue' = 1 .. Len(queue) - 1
        /\ Head(queue) = queue[1] /\ Head(queue) \in Note /\ queue' \in Seq(Note)
        /\ \A i \in DOMAIN queue' : queue'[i] = queue[i + 1]
    OBVIOUS
  <1>2. \A j \in DOMAIN queue : j > 1 => j - 1 \in DOMAIN queue' /\ queue'[j - 1] = queue[j]
    BY <1>1
  <1>3. \A q : q \in Queued' <=> \E i \in DOMAIN queue' : q \in Paths(queue'[i])
    BY DEF Queued, ToSet, Paths
  <1>4. \A j \in DOMAIN queue : j = 1 \/ j > 1
    BY <1>1
  <1>5. \A q : q \in Queued => q \in Queued' \/ q \in Paths(Head(queue))
    BY <1>1, <1>2, <1>3, <1>4, QueuedMeans
  <1>6. \A q : Removing(q) => Removing(q)' \/ RemoverOf(Head(queue), q)
    BY <1>1, <1>2, <1>4 DEF Removing, RemoverOf
  <1>7. \A q : Later(1, q) => q \in Queued'
    BY <1>2, <1>3 DEF Later
  <1>8. ASSUME NEW i \in DOMAIN queue', NEW q, Later(i + 1, q)
        PROVE  Later(i, q)'
    <2>1. PICK j \in DOMAIN queue : j > i + 1 /\ q \in Paths(queue[j])
      BY <1>8 DEF Later
    <2>2. j - 1 \in DOMAIN queue' /\ queue'[j - 1] = queue[j] /\ j - 1 > i
      BY <1>1, <2>1
    <2> QED
      BY <2>1, <2>2 DEF Later, Paths
  <1>9. \A i \in DOMAIN queue' : i + 1 \in DOMAIN queue
    BY <1>1
  <1> QED
    BY <1>1, <1>5, <1>6, <1>7, <1>8, <1>9

-------------------------------------------------------------------------------
(* The user and the filesystem                                             *)

\* The local variables between two notifications: all empty but for where to go
\* on, which paths are still to be read and whether a scan trusts deletions.
Fresh(next, todo) ==
    {[NoOp EXCEPT !.next = next, !.todo = todo, !.trusted = trusted] : trusted \in BOOLEAN}

LEMMA FreshFields ==
    ASSUME NEW next \in Location, NEW todo \in SUBSET Path
    PROVE  /\ NoOp \in Op /\ NoOp \in Fresh("down", {})
           /\ [NoOp EXCEPT !.next = next] \in Fresh(next, {})
           /\ [NoOp EXCEPT !.todo = todo, !.next = next] \in Fresh(next, todo)
           /\ [NoOp EXCEPT !.next = next, !.todo = todo] \in Fresh(next, todo)
           /\ \A trusted \in BOOLEAN :
                [NoOp EXCEPT !.next = next, !.trusted = trusted] \in Fresh(next, {})
  <1>1. NoFile \in File
    BY BoundAssumption DEF NoFile, File, ContentOrNone, Stamp
  <1>2. [q \in Path |-> NoFile] \in [Path -> File]
    BY <1>1
  <1>3. NoOp \in Op
    BY <1>2, BoundAssumption DEF NoOp, Op, Stamp, Location
  <1>4. NoOp.todo = {} /\ NoOp.next = "down" /\ NoOp.trusted = FALSE
    BY DEF NoOp
  <1> HIDE DEF NoOp
  <1>5. NoOp = [NoOp EXCEPT !.next = "down", !.todo = {}, !.trusted = FALSE]
    BY <1>3, <1>4 DEF Op
  <1>6. /\ [NoOp EXCEPT !.next = next]
             = [NoOp EXCEPT !.next = next, !.todo = {}, !.trusted = FALSE]
        /\ [NoOp EXCEPT !.todo = todo, !.next = next]
             = [NoOp EXCEPT !.next = next, !.todo = todo, !.trusted = FALSE]
        /\ [NoOp EXCEPT !.next = next, !.todo = todo]
             = [NoOp EXCEPT !.next = next, !.todo = todo, !.trusted = FALSE]
    BY <1>3, <1>4 DEF Op
  <1>7. ASSUME NEW trusted \in BOOLEAN
        PROVE  [NoOp EXCEPT !.next = next, !.trusted = trusted]
                 = [NoOp EXCEPT !.next = next, !.todo = {}, !.trusted = trusted]
    BY <1>3, <1>4 DEF Op
  <1> QED
    BY <1>3, <1>5, <1>6, <1>7 DEF Fresh

\* Initially there is nothing on disk, in the database or in the channel.
LEMMA InitEstablishes == Init => IInv
  <1> SUFFICES ASSUME Init PROVE IInv
    OBVIOUS
  <1> USE DEF Init
  <1>1. TypeOK
    <2>1. NoFile \in File /\ NoRow \in Row
      BY BoundAssumption DEF NoFile, NoRow, File, Row, ContentOrNone, Stamp
    <2>2. NoOp \in Op
      BY FreshFields DEF Location
    <2>3. queue \in Seq(Note) /\ None \in ContentOrNone
      BY DEF ContentOrNone
    <2>4. /\ disk \in [Path -> File] /\ shelf \in [Path -> File]
          /\ rows \in [Path -> Row] /\ op \in Op
      BY <2>1, <2>2
    <2>5. recorded \in [Path -> ContentOrNone]
      BY <2>3
    <2>6. changes \in 0 .. MaxChanges /\ faults \in 0 .. MaxFaults
      BY BoundAssumption
    <2> HIDE DEF Init
    <2>7. /\ mount = "here" /\ pc = "down"
          /\ watching = FALSE /\ paused = FALSE
          /\ hot = {} /\ pending = {} /\ due = {}
          /\ missed = {} /\ reborn = {} /\ removed = {} /\ guessed = {}
      BY DEF Init
    <2> QED
      BY <2>3, <2>4, <2>5, <2>6, <2>7 DEF TypeOK, Location
  <1>2. Read = {}
    BY DEF Read, NoOp, NoFile
  <1>3. Shape
    BY <1>2 DEF Shape, NoOp, Starting
  <1>4. HistoryMatchesRows /\ DeletionsAreReal
    BY DEF HistoryMatchesRows, DeletionsAreReal, NoRow
  <1>5. DOMAIN queue = {}
    OBVIOUS
  <1>6. Notes /\ Working /\ Scanning
    BY <1>5 DEF Notes, Working, Scanning, NoOp
  <1>7. PresentKept /\ AbsentKept
    BY DEF PresentKept, AbsentKept, Exists, Settled, NoFile
  <1>8. Deleting
    BY <1>5 DEF Deleting, NoRow, NoOp, NoFile
  <1> QED
    BY <1>1, <1>3, <1>4, <1>6, <1>7, <1>8 DEF IInv

\* A change of the given paths that the watcher turns into these notifications:
\* each path is in one of them, and one that is gone afterwards in a remover.
LEMMA ReportPreserves ==
    ASSUME IInv, NEW paths \in SUBSET Path, NEW notes \in Seq(Note),
           Report(paths, notes),
           disk' \in [Path -> File], removed' \in SUBSET Path, removed \subseteq removed',
           \A q \in paths : \E j \in DOMAIN notes : q \in Paths(notes[j]),
           \A q \in Path \ paths : disk'[q] = disk[q],
           \A q \in paths : disk'[q].content = None =>
             q \in removed' /\ \E j \in DOMAIN notes : RemoverOf(notes[j], q),
           \A j \in DOMAIN notes : \A q \in Removes(notes[j]) :
             q \in removed' /\ disk'[q].content = None
    PROVE  IInv'
  <1>0. /\ changes < MaxChanges /\ changes' = changes + 1
        /\ queue' = (IF watching THEN queue \o notes ELSE queue)
        /\ missed' = (IF watching THEN missed \ paths ELSE missed \cup paths)
        /\ UNCHANGED <<shelf, mount, faults, watching, rows, recorded, reborn, guessed, hot,
                       pending, due, pc, op, paused>>
    BY DEF Report, history, debouncer
  <1>1. TypeOK'
    <2>1. queue' \in Seq(Note)
      BY <1>0 DEF IInv, TypeOK
    <2>2. changes' \in 0 .. MaxChanges
      BY <1>0, BoundAssumption DEF IInv, TypeOK
    <2>3. op' \in Op /\ pc' \in Location /\ missed' \subseteq Path
      BY <1>0 DEF IInv, TypeOK
    <2> QED
      BY <1>0, <2>1, <2>2, <2>3 DEF IInv, TypeOK
  <1>2. queue \in Seq(Note) /\ Shape /\ paths \subseteq Path /\ missed \subseteq Path
    BY DEF IInv, TypeOK
  <1>3. Shape'
    BY <1>0, <1>2 DEF Shape, Read, Starting
  <1>4. HistoryMatchesRows' /\ DeletionsAreReal'
    BY <1>0 DEF IInv, HistoryMatchesRows, DeletionsAreReal
  <1>5. /\ \A q : q \in Queued => q \in Queued'
        /\ \A q : Removing(q) => Removing(q)'
        /\ \A i \in DOMAIN queue : \A q : Later(i, q) => Later(i, q)'
        /\ \A i \in DOMAIN queue : queue'[i] = queue[i]
    <2>1. CASE watching
      BY <1>0, <1>2, <2>1, AppendedNotes
    <2>2. CASE ~watching
      BY <1>0, <2>2 DEF Queued, Removing, Later
    <2> QED
      BY <2>1, <2>2
  <1>6. \A q \in paths : q \in missed' \cup Queued'
    <2>1. CASE watching
      BY <1>0, <1>2, <2>1, AppendedNotes
    <2>2. CASE ~watching
      BY <1>0, <2>2
    <2> QED
      BY <2>1, <2>2
  <1>7. \A q \in missed \cup Queued : q \in missed' \cup Queued'
    BY <1>0, <1>5, <1>6
  <1>8. \A q \in paths : disk'[q].content = None => q \in missed' \/ Removing(q)'
    <2>1. CASE watching
      BY <1>0, <1>2, <2>1, AppendedNotes
    <2>2. CASE ~watching
      BY <1>0, <2>2
    <2> QED
      BY <2>1, <2>2
  <1>9. Read' = Read /\ Gone' = Gone
    BY <1>0 DEF Read, Gone
  <1>10. Notes'
    <2> SUFFICES ASSUME NEW i \in DOMAIN queue', NEW q \in Removes(queue'[i]),
                        disk'[q].content # None
                 PROVE  Later(i, q)' \/ (~watching' /\ q \in missed')
      BY DEF Notes, Exists, Removes
    <2>1. CASE i \in DOMAIN queue
      <3>1. q \in Removes(queue[i])
        BY <1>5, <2>1
      <3>2. CASE q \in paths
        <4>1. CASE watching
          BY <1>0, <1>2, <2>1, <3>2, <4>1, AppendedNotes
        <4>2. CASE ~watching
          BY <1>0, <3>2, <4>2
        <4> QED
          BY <4>1, <4>2
      <3>3. CASE q \notin paths
        <4>0. q \in Path
          <5>1. queue[i] \in Note
            BY <1>2, <2>1
          <5> QED
            BY <3>1, <5>1 DEF Removes, Note
        <4>1. disk[q].content # None
          BY <3>3, <4>0
        <4>2. Later(i, q) \/ (~watching /\ q \in missed)
          BY <2>1, <3>1, <4>1 DEF IInv, Notes, Exists
        <4> QED
          BY <1>0, <1>5, <2>1, <3>3, <4>2
      <3> QED
        BY <3>2, <3>3
    <2>2. CASE i \notin DOMAIN queue
      <3>1. watching
        BY <1>0, <2>2
      <3>2. PICK j \in DOMAIN notes : queue'[i] = notes[j]
        BY <1>0, <1>2, <2>2, <3>1, AppendedNotes
      <3> QED
        BY <3>2
    <2> QED
      BY <2>1, <2>2
  <1>11. Working'
    <2>1. op.path \subseteq Path /\ op.old \subseteq Path
      BY DEF IInv, TypeOK, Op
    <2> QED
      BY <1>0, <1>6, <1>7, <2>1 DEF IInv, Working, Exists
  <1>12. Scanning'
    <2> SUFFICES ASSUME pc = "scan" PROVE Scanning'
      BY <1>0 DEF Scanning
    <2>1. ASSUME NEW q \in Read
          PROVE  /\ op.found[q] = disk'[q] \/ q \in missed' \cup Queued'
                 /\ disk'[q].content # None \/ q \in missed' \/ Removing(q)'
      <3>1. CASE q \in paths
        BY <1>6, <1>8, <3>1
      <3>2. CASE q \notin paths
        <4>1. disk'[q] = disk[q]
          BY <2>1, <3>2 DEF Read
        <4> QED
          BY <1>0, <1>5, <1>7, <2>1, <3>2, <4>1 DEF IInv, Scanning, Exists
      <3> QED
        BY <3>1, <3>2
    <2>2. ASSUME op.walked # {}, NEW q \in Path \ op.walked, disk'[q].content # None
          PROVE  q \in missed' \cup Queued'
      BY <1>6, <1>7, <2>2 DEF IInv, Scanning, Exists
    <2> QED
      BY <1>0, <1>9, <2>1, <2>2 DEF Scanning, Exists
  <1>13. PresentKept'
    <2> SUFFICES ASSUME NEW q \in Path, q \notin Kept', disk'[q].content # None
                 PROVE  recorded'[q] = disk'[q].content
      BY DEF PresentKept, Exists, Settled
    <2>1. q \notin missed' \cup Queued'
      BY DEF Kept
    <2>2. q \notin paths
      BY <1>6, <2>1
    <2>3. q \notin Kept
      BY <1>0, <1>5, <1>7, <1>9, <2>1, <2>2 DEF Kept, Lookalikes
    <2> QED
      BY <1>0, <2>2, <2>3 DEF IInv, PresentKept, Exists, Settled
  <1>14. AbsentKept'
    <2> SUFFICES ASSUME NEW q \in Path, q \notin missed', q \notin reborn', ~Removing(q)',
                        disk'[q].content = None, recorded'[q] # disk'[q].content
                 PROVE  pc' = "scan" /\ q \in Gone'
      BY DEF AbsentKept, Exists, Settled
    <2>1. q \notin paths
      BY <1>8
    <2> QED
      BY <1>0, <1>5, <1>9, <2>1 DEF IInv, AbsentKept, Exists, Settled
  <1>15. Deleting'
    <2>1. \A q \in Path : Known(q) => Known(q)'
      BY <1>0 DEF Known, Exists, Shelved
    <2>2. ASSUME NEW i \in DOMAIN queue' PROVE Removes(queue'[i]) \subseteq removed'
      <3>1. CASE i \in DOMAIN queue
        BY <1>5, <3>1 DEF IInv, Deleting
      <3>2. CASE i \notin DOMAIN queue
        <4>1. watching
          BY <1>0, <3>2
        <4>2. PICK j \in DOMAIN notes : queue'[i] = notes[j]
          BY <1>0, <1>2, <3>2, <4>1, AppendedNotes
        <4> QED
          BY <4>2
      <3> QED
        BY <3>1, <3>2
    <2> QED
      BY <1>0, <2>1, <2>2 DEF IInv, Deleting, Removes
  <1> QED
    BY <1>1, <1>3, <1>4, <1>10, <1>11, <1>12, <1>13, <1>14, <1>15 DEF IInv

\* Every change the user makes is one the watcher reports.
LEMMA UserPreserves ==
    ASSUME IInv, User
    PROVE  IInv'
  <1> USE DEF Note, RemoverOf, Removes, Paths, Single
  <1>1. /\ disk \in [Path -> File] /\ removed \in SUBSET Path
        /\ \A q \in Path : disk[q] \in File /\ disk[q].stamp \in Stamp
        /\ changes < MaxChanges => changes + 1 \in Stamp
    BY BoundAssumption DEF IInv, TypeOK, File, Stamp
  <1>2. NoFile \in File
    BY BoundAssumption DEF NoFile, File, ContentOrNone, Stamp
  <1>3. \A c \in Content : c # None /\ c \in ContentOrNone
    BY NoneAssumption DEF ContentOrNone
  <1>4. ASSUME NEW q \in Path, NEW c \in Content, Write(q, c) PROVE IInv'
    <2> DEFINE note == Single(IF Exists(q) THEN "modify" ELSE "create", q)
               file == [content |-> c, stamp |-> changes + 1]
    <2>1. Report({q}, <<note>>) /\ removed' = removed
      BY <1>4 DEF Write
    <2>2. changes' = changes + 1 /\ changes < MaxChanges
      BY <2>1 DEF Report
    <2>3. file \in File
      BY <1>1, <1>3, <2>2 DEF File
    <2>4. disk' = [disk EXCEPT ![q] = file]
      BY <1>4, <2>2 DEF Write
    <2>5. disk' \in [Path -> File] /\ disk'[q].content = c
      BY <1>1, <2>3, <2>4
    <2>6. <<note>> \in Seq(Note) /\ Paths(note) = {q} /\ Removes(note) = {}
      OBVIOUS
    <2> HIDE DEF note, file
    <2>7. /\ {q} \in SUBSET Path /\ DOMAIN <<note>> = {1} /\ <<note>>[1] = note
          /\ \A p \in Path \ {q} : disk'[p] = disk[p]
      BY <1>1, <2>4
    <2> HIDE DEF RemoverOf, Removes, Paths
    <2>8. \A p \in {q} : \E j \in DOMAIN <<note>> : p \in Paths(<<note>>[j])
      BY <2>6, <2>7
    <2>9. \A j \in DOMAIN <<note>> : Removes(<<note>>[j]) = {}
      BY <2>6, <2>7
    <2> QED
      BY <1>1, <1>3, <2>1, <2>5, <2>6, <2>7, <2>8, <2>9, ReportPreserves
  <1>5. ASSUME NEW q \in Path, NEW c \in Content, Restore(q, c) PROVE IInv'
    <2> DEFINE file == [content |-> c, stamp |-> changes + 1]
               notes == <<Single("name", q), Single("exchange", q)>>
    <2>1. Report({q}, notes) /\ removed' = removed
      BY <1>5 DEF Restore
    <2>2. changes' = changes + 1 /\ changes < MaxChanges
      BY <2>1 DEF Report
    <2>3. file \in File
      BY <1>1, <1>3, <2>2 DEF File
    <2>4. disk' = [disk EXCEPT ![q] = file]
      BY <1>5, <2>2 DEF Restore
    <2>5. disk' \in [Path -> File] /\ disk'[q].content = c
      BY <1>1, <2>3, <2>4
    <2>6. /\ notes \in Seq(Note) /\ DOMAIN notes = {1, 2}
          /\ \A j \in DOMAIN notes : Paths(notes[j]) = {q} /\ Removes(notes[j]) = {}
      OBVIOUS
    <2> HIDE DEF notes, file
    <2>7. {q} \in SUBSET Path /\ \A p \in Path \ {q} : disk'[p] = disk[p]
      BY <1>1, <2>4
    <2> QED
      BY <1>1, <1>3, <2>1, <2>5, <2>6, <2>7, ReportPreserves
  <1>6. ASSUME NEW q \in Path, Unlink(q) PROVE IInv'
    <2> DEFINE note == Single("remove", q)
    <2>1. /\ Report({q}, <<note>>) /\ removed' = removed \cup {q}
          /\ disk' = [disk EXCEPT ![q] = NoFile]
      BY <1>6 DEF Unlink
    <2>2. disk' \in [Path -> File] /\ disk'[q].content = None
      BY <1>1, <1>2, <2>1 DEF NoFile
    <2>3. /\ <<note>> \in Seq(Note) /\ Paths(note) = {q} /\ Removes(note) = {q}
          /\ RemoverOf(note, q)
      OBVIOUS
    <2> HIDE DEF note
    <2>4. /\ {q} \in SUBSET Path /\ DOMAIN <<note>> = {1} /\ <<note>>[1] = note
          /\ \A p \in Path \ {q} : disk'[p] = disk[p]
      BY <1>1, <2>1
    <2>5. removed' \in SUBSET Path /\ removed \subseteq removed' /\ q \in removed'
      BY <1>1, <2>1
    <2> HIDE DEF RemoverOf, Removes, Paths
    <2>6. \A p \in {q} : \E j \in DOMAIN <<note>> : RemoverOf(<<note>>[j], p)
      BY <2>3, <2>4
    <2>7. \A p \in {q} : \E j \in DOMAIN <<note>> : p \in Paths(<<note>>[j])
      BY <2>3, <2>4
    <2>8. \A j \in DOMAIN <<note>> : Removes(<<note>>[j]) = {q}
      BY <2>3, <2>4
    <2>9. \A j \in DOMAIN <<note>> : \A p \in Removes(<<note>>[j]) :
            p \in removed' /\ disk'[p].content = None
      BY <2>2, <2>5, <2>8
    <2>10. \A p \in {q} : disk'[p].content = None =>
             p \in removed' /\ \E j \in DOMAIN <<note>> : RemoverOf(<<note>>[j], p)
      BY <2>5, <2>6
    <2>11. /\ {q} \in SUBSET Path /\ <<note>> \in Seq(Note) /\ Report({q}, <<note>>)
           /\ disk' \in [Path -> File] /\ removed' \in SUBSET Path /\ removed \subseteq removed'
           /\ \A p \in Path \ {q} : disk'[p] = disk[p]
      BY <2>1, <2>2, <2>3, <2>4, <2>5
    <2> QED
      BY <2>7, <2>9, <2>10, <2>11, ReportPreserves
  <1>7. ASSUME NEW a \in Path, NEW b \in Path, NEW both \in BOOLEAN, Rename(a, b, both)
        PROVE  IInv'
    <2> DEFINE notes == <<Single("name", a), Single("name", b)>>
                          \o IF both THEN <<[kind |-> "both", path |-> b, old |-> a]>> ELSE <<>>
    <2>1. /\ Report({a, b}, notes) /\ removed' = removed \cup {a}
          /\ disk' = [disk EXCEPT ![b] = disk[a], ![a] = NoFile]
          /\ disk[a].content # None /\ a # b
      BY <1>7 DEF Rename, Exists
    <2>2. /\ disk' \in [Path -> File] /\ disk'[a].content = None
          /\ disk'[b].content # None
      BY <1>1, <1>2, <2>1 DEF NoFile
    <2>3. /\ notes \in Seq(Note)
          /\ DOMAIN notes = IF both THEN {1, 2, 3} ELSE {1, 2}
          /\ notes[1] = Single("name", a) /\ notes[2] = Single("name", b)
          /\ both => notes[3] = [kind |-> "both", path |-> b, old |-> a]
      <3> DEFINE names == <<Single("name", a), Single("name", b)>>
                 pair == [kind |-> "both", path |-> b, old |-> a]
      <3>1. names \in Seq(Note) /\ pair \in Note
        OBVIOUS
      <3>2. Len(names) = 2 /\ names[1] = Single("name", a) /\ names[2] = Single("name", b)
        OBVIOUS
      <3> HIDE DEF names, pair
      <3>3. CASE both
        <4>1. notes = names \o <<pair>>
          BY <3>3 DEF names, pair
        <4> QED
          BY <3>1, <3>2, <3>3, <4>1 DEF pair
      <3>4. CASE ~both
        <4>1. notes = names
          BY <3>1, <3>4 DEF names
        <4> QED
          BY <3>1, <3>2, <3>4, <4>1
      <3> QED
        BY <3>3, <3>4
    <2> HIDE DEF notes
    <2>4. a \in Paths(notes[1]) /\ b \in Paths(notes[2]) /\ RemoverOf(notes[1], a)
      BY <2>3
    <2>5. \A j \in DOMAIN notes : Removes(notes[j]) \subseteq {a}
      BY <2>3
    <2> HIDE DEF RemoverOf, Removes, Paths
    <2>6. 1 \in DOMAIN notes /\ 2 \in DOMAIN notes
      BY <2>3
    <2>7. {a, b} \in SUBSET Path /\ \A p \in Path \ {a, b} : disk'[p] = disk[p]
      BY <1>1, <2>1
    <2>8. removed' \in SUBSET Path /\ removed \subseteq removed' /\ a \in removed'
      BY <1>1, <2>1
    <2>9. \A p \in {a, b} : \E j \in DOMAIN notes : p \in Paths(notes[j])
      BY <2>4, <2>6
    <2>10. \A p \in {a, b} : disk'[p].content = None =>
             p \in removed' /\ \E j \in DOMAIN notes : RemoverOf(notes[j], p)
      BY <2>2, <2>4, <2>6, <2>8
    <2>11. \A j \in DOMAIN notes : \A p \in Removes(notes[j]) :
             p \in removed' /\ disk'[p].content = None
      BY <2>2, <2>5, <2>8
    <2> QED
      BY <2>1, <2>2, <2>3, <2>7, <2>8, <2>9, <2>10, <2>11, ReportPreserves
  <1> QED
    BY <1>4, <1>5, <1>6, <1>7 DEF User

-------------------------------------------------------------------------------
(* Steps that leave the files, the rows and the events alone               *)

\* The same for every step outside a scan that may take notifications and
\* paths to be read away, but only such as are missed from then on.
LEMMA QuietStep ==
    ASSUME IInv, TypeOK', Shape', pc' # "scan",
           UNCHANGED <<disk, shelf, rows, recorded, reborn, guessed, removed>>,
           missed \subseteq missed',
           queue' = queue \/ (queue' = <<>> /\ Queued \subseteq missed'),
           watching' = watching \/ queue' = <<>>,
           pc = "scan" => Gone \subseteq missed',
           op'.old \subseteq op.old,
           \A q \in op'.path : \/ q \in op.path /\ op'.stamp = op.stamp
                               \/ Exists(q) /\ op'.stamp = disk[q].stamp,
           op'.walked \subseteq op.walked,
           \A q \in Path : op'.found[q].content # None => op.found[q].content # None,
           \A q \in Kept : Exists(q) => q \in Kept'
    PROVE  IInv'
  <1>0. op \in Op /\ op.path \subseteq Path /\ op.old \subseteq Path
    BY DEF IInv, TypeOK, Op
  <1>1. HistoryMatchesRows' /\ DeletionsAreReal'
    BY DEF IInv, HistoryMatchesRows, DeletionsAreReal
  <1>2. \A q \in missed \cup Queued : q \in missed' \cup Queued'
    BY DEF Queued
  <1>3. \A q : Removing(q) => q \in missed' \/ Removing(q)'
    BY RemovingQueued DEF Removing
  <1>4. Notes'
    <2>1. CASE queue' = <<>>
      BY <2>1 DEF Notes
    <2>2. CASE queue' = queue /\ watching' = watching
      BY <2>2 DEF IInv, Notes, Exists, Later
    <2> QED
      BY <2>1, <2>2
  <1>5. Working'
    BY <1>0, <1>2 DEF IInv, Working, Exists
  <1>6. Scanning'
    BY DEF Scanning
  <1>7. PresentKept'
    BY DEF IInv, PresentKept, Exists, Settled
  <1>8. AbsentKept'
    BY <1>3 DEF IInv, AbsentKept, Exists, Settled
  <1>9. \A i \in DOMAIN queue' : Removes(queue'[i]) \subseteq removed'
    BY DEF IInv, Deleting
  <1>10. Deleting'
    <2>1. op'.old \subseteq removed'
      BY DEF IInv, Deleting
    <2>2. \A q \in Path :
            rows'[q].hash # None \/ op'.found[q].content # None \/ q \in op'.walked
              => Known(q)'
      BY DEF IInv, Deleting, Known, Exists, Shelved
    <2>3. \A q \in Path : rows'[q].live => rows'[q].hash # None
      BY DEF IInv, Deleting
    <2> QED
      BY <1>9, <2>1, <2>2, <2>3 DEF Deleting, Removes
  <1> QED
    BY <1>1, <1>4, <1>5, <1>6, <1>7, <1>8, <1>10 DEF IInv

\* Nothing changes but the mount, the faults and what the debouncer remembers;
\* the watch may end.
LEMMA AsideStep ==
    ASSUME IInv, TypeOK',
           UNCHANGED <<disk, shelf, queue, rows, recorded, reborn, guessed, pending, pc, op, paused,
                       missed, removed>>,
           watching' \in {watching, FALSE}
    PROVE  IInv'
  <1>1. Read' = Read /\ Gone' = Gone /\ Queued' = Queued /\ \A q : Removing(q)' = Removing(q)
    BY DEF Read, Gone, Queued, Removing
  <1>2. Shape'
    <2>1. watching \in BOOLEAN /\ watching' \in BOOLEAN /\ (watching' => watching)
      BY DEF IInv, TypeOK
    <2>2. Shape /\ (Starting' <=> Starting)
      BY DEF IInv, Starting
    <2> QED
      BY <1>1, <2>1, <2>2 DEF Shape
  <1>3. HistoryMatchesRows' /\ DeletionsAreReal'
    BY DEF IInv, HistoryMatchesRows, DeletionsAreReal
  <1>4. Notes'
    BY DEF IInv, Notes, Exists, Later
  <1>5. Working' /\ Scanning'
    BY <1>1 DEF IInv, Working, Scanning, Exists
  <1>6. Kept' = Kept
    BY <1>1 DEF Kept, Lookalikes
  <1>7. PresentKept' /\ AbsentKept'
    BY <1>1, <1>6 DEF IInv, PresentKept, AbsentKept, Exists, Settled
  <1>8. Deleting'
    BY DEF IInv, Deleting, Known, Exists, Shelved
  <1> QED
    BY <1>2, <1>3, <1>4, <1>5, <1>7, <1>8 DEF IInv

\* The other filesystem is mounted at the root.  Nobody is told of the files
\* that are others now, so their paths are missed; the rest are as before.
LEMMA SwapPreserves ==
    ASSUME IInv, ~watching, disk' = shelf, shelf' = disk,
           missed' = missed \cup {q \in Path : disk[q] # shelf[q]}, mount' = "here",
           UNCHANGED <<changes, faults, watching, queue, rows, recorded, reborn, guessed, hot,
                       pending, due, pc, op, paused, removed>>
    PROVE  IInv'
  <1>1. TypeOK /\ Shape /\ queue \in Seq(Note)
    BY DEF IInv, TypeOK
  <1>2. missed \subseteq missed' /\ \A q \in Path : q \in missed' \/ disk'[q] = disk[q]
    OBVIOUS
  <1>3. /\ Read' = Read /\ Gone' = Gone /\ Queued' = Queued
        /\ \A q : Removing(q)' = Removing(q)
        /\ \A j, q : Later(j, q)' = Later(j, q)
    BY DEF Read, Gone, Queued, Removing, Later
  <1>4. TypeOK'
    BY <1>1 DEF TypeOK
  <1>5. Shape'
    BY <1>1, <1>3 DEF Shape, Starting
  <1>6. HistoryMatchesRows' /\ DeletionsAreReal'
    BY DEF IInv, HistoryMatchesRows, DeletionsAreReal
  <1>7. Notes'
    <2> SUFFICES ASSUME NEW i \in DOMAIN queue, NEW q \in Removes(queue[i]),
                        disk'[q].content # None, q \notin missed'
                 PROVE  Later(i, q)
      BY <1>3 DEF Notes, Exists
    <2>1. q \in Path
      <3>1. queue[i] \in Note
        BY <1>1
      <3> QED
        BY <3>1 DEF Removes, Note
    <2> QED
      BY <1>2, <2>1 DEF IInv, Notes, Exists
  <1>8. Working'
    <2>1. op.path \subseteq Path /\ op.old \subseteq Path
      BY <1>1 DEF TypeOK, Op
    <2> QED
      BY <1>2, <1>3, <2>1 DEF IInv, Working, Exists
  <1>9. Scanning'
    <2> SUFFICES ASSUME pc = "scan" PROVE Scanning'
      BY DEF Scanning
    <2>1. ASSUME NEW q \in Read
          PROVE  /\ op.found[q] = disk'[q] \/ q \in missed' \cup Queued
                 /\ disk'[q].content # None \/ q \in missed' \/ Removing(q)
      <3>1. q \in Path
        BY DEF Read
      <3> QED
        BY <1>2, <3>1 DEF IInv, Scanning, Exists
    <2>2. ASSUME op.walked # {}, NEW q \in Path \ op.walked, disk'[q].content # None
          PROVE  q \in missed' \cup Queued
      BY <1>2, <2>2 DEF IInv, Scanning, Exists
    <2> QED
      BY <1>3, <2>1, <2>2 DEF Scanning, Exists
  <1>10. PresentKept'
    <2> SUFFICES ASSUME NEW q \in Path, q \notin Kept', disk'[q].content # None
                 PROVE  recorded[q] = disk'[q].content
      BY DEF PresentKept, Exists, Settled
    <2>1. disk'[q] = disk[q]
      BY <1>2 DEF Kept
    <2>2. q \notin Kept
      BY <1>2, <1>3, <2>1 DEF Kept, Lookalikes
    <2> QED
      BY <2>1, <2>2 DEF IInv, PresentKept, Exists, Settled
  <1>11. AbsentKept'
    BY <1>2, <1>3 DEF IInv, AbsentKept, Exists, Settled
  <1>12. Deleting'
    <2>1. \A q \in Path : Known(q) => Known(q)'
      BY DEF Known, Exists, Shelved
    <2> QED
      BY <2>1 DEF IInv, Deleting
  <1> QED
    BY <1>4, <1>5, <1>6, <1>7, <1>8, <1>9, <1>10, <1>11, <1>12 DEF IInv

\* Filesystems that go and come, and time that passes.
LEMMA AsidePreserves ==
    ASSUME IInv, \/ LoseMount \/ MountReturns
                 \/ \E q \in Path : Cool(q) \/ QuietPasses(q)
    PROVE  IInv'
  <1> USE DEF world, channel, history
  <1>1. TypeOK
    BY DEF IInv
  <1>2. CASE LoseMount
    <2>1. TypeOK'
      <3>1. faults' \in 0 .. MaxFaults
        BY <1>1, <1>2, BoundAssumption DEF LoseMount, Fault, TypeOK
      <3>2. watching' \in BOOLEAN
        BY <1>1, <1>2 DEF LoseMount, TypeOK
      <3>3. /\ mount' = "away"
            /\ UNCHANGED <<disk, shelf, changes, queue, rows, recorded, reborn, guessed, hot,
                           pending, due, pc, op, paused, missed, removed>>
        BY <1>2 DEF LoseMount, debouncer
      <3> QED
        BY <1>1, <3>1, <3>2, <3>3 DEF TypeOK
    <2> QED
      BY <1>2, <2>1, AsideStep DEF LoseMount, debouncer
  <1>3. CASE MountReturns
    <2>1. /\ mount' = "here"
          /\ UNCHANGED <<changes, faults, watching, queue, rows, recorded, reborn, guessed, hot,
                         pending, due, pc, op, paused, removed>>
      BY <1>3 DEF MountReturns, debouncer
    <2>2. CASE UNCHANGED <<disk, shelf, missed>>
      <3>1. TypeOK'
        BY <1>1, <2>1, <2>2 DEF TypeOK
      <3> QED
        BY <2>1, <2>2, <3>1, AsideStep
    <2>3. CASE /\ ~watching /\ disk' = shelf /\ shelf' = disk
               /\ missed' = missed \cup {q \in Path : disk[q] # shelf[q]}
      BY <2>1, <2>3, SwapPreserves
    <2> QED
      BY <1>3, <2>2, <2>3 DEF MountReturns
  <1>4. ASSUME NEW q \in Path, Cool(q) PROVE IInv'
    <2>1. TypeOK'
      BY <1>1, <1>4 DEF Cool, TypeOK
    <2> QED
      BY <1>4, <2>1, AsideStep DEF Cool
  <1>5. ASSUME NEW q \in Path, QuietPasses(q) PROVE IInv'
    <2>1. TypeOK'
      BY <1>1, <1>5 DEF QuietPasses, TypeOK
    <2> QED
      BY <1>5, <2>1, AsideStep DEF QuietPasses
  <1> QED
    BY <1>2, <1>3, <1>4, <1>5

-------------------------------------------------------------------------------
(* Steps between notifications                                             *)

\* Every path the recorder still looks at is one.
LEMMA KeptArePaths ==
    ASSUME TypeOK
    PROVE  Kept \subseteq Path /\ Queued \subseteq Path
  <1>1. \A n \in Note : Paths(n) \subseteq Path
    BY DEF Note, Paths
  <1>2. Queued \subseteq Path
    <2>1. \A i \in DOMAIN queue : Paths(queue[i]) \subseteq Path
      BY <1>1 DEF TypeOK
    <2> QED
      BY <2>1, QueuedMeans
  <1>3. op.path \subseteq Path /\ op.todo \subseteq Path
    BY DEF TypeOK, Op
  <1> QED
    BY <1>2, <1>3 DEF TypeOK, Kept, Lookalikes, Read

\* What the local variables keep for QuietStep when they are emptied.
LEMMA FreshKeeps ==
    ASSUME NEW next \in Location, NEW todo \in SUBSET Path, op' \in Fresh(next, todo)
    PROVE  /\ op' \in Op /\ op'.next = next /\ op'.todo = todo
           /\ op'.old = {} /\ op'.path = {} /\ op'.walked = {} /\ Read' = {}
           /\ \A q \in Path : op'.found[q].content = None
  <1>1. /\ NoOp.path = {} /\ NoOp.old = {} /\ NoOp.walked = {}
        /\ \A q \in Path : NoOp.found[q].content = None
    BY DEF NoOp, NoFile
  <1>2. NoOp \in Op
    BY FreshFields
  <1> HIDE DEF NoOp
  <1>3. PICK trusted \in BOOLEAN :
          op' = [NoOp EXCEPT !.next = next, !.todo = todo, !.trusted = trusted]
    BY DEF Fresh
  <1>4. /\ op' \in Op /\ op'.next = next /\ op'.todo = todo
        /\ op'.old = {} /\ op'.path = {} /\ op'.walked = {} /\ op'.found = NoOp.found
    BY <1>1, <1>2, <1>3 DEF Op
  <1>5. \A q \in Path : op'.found[q].content = None
    BY <1>1, <1>4
  <1> QED
    BY <1>4, <1>5 DEF Read

\* Shape for a step that empties the local variables outside the scan.
LEMMA FreshShape ==
    ASSUME TypeOK, NEW next \in Location, NEW todo \in SUBSET Path, op' \in Fresh(next, todo),
           pc' \in {"down", "stopped", "walk", "ready", "top"} => todo = {},
           pc' \notin {"work", "scan"},
           pc' = "walk" => next \in {"ready", "flush"} /\ pending' = {},
           pc' = "flush" => todo = {} \/ next = "flush",
           pc' = "drain" => next = "drain" /\ pending' = {},
           pc' \in {"down", "stopped", "ready"} \/ (pc' = "walk" /\ next = "ready")
             => ~watching' /\ queue' = <<>> /\ pending' = {},
           paused' => pending' = {}
    PROVE  Shape'
  BY FreshKeeps DEF Shape, Starting

LEMMA TimeoutPreserves ==
    ASSUME IInv, Timeout
    PROVE  IInv'
  <1> USE DEF world, channel, history, debouncer, Goto
  <1>1. TypeOK /\ Shape
    BY DEF IInv
  <1>2. /\ pc = "flush" /\ op.todo = {} /\ pc' = "top"
        /\ UNCHANGED <<disk, shelf, mount, changes, faults, watching, queue, rows, recorded, reborn,
                       guessed, hot, pending, due, op, paused, missed, removed>>
    BY DEF Timeout
  <1>3. TypeOK'
    BY <1>1, <1>2 DEF TypeOK, Location
  <1>4. Read' = Read /\ Queued' = Queued /\ Lookalikes' = Lookalikes
    BY <1>2 DEF Read, Queued, Lookalikes
  <1>5. Shape'
    BY <1>1, <1>2, <1>4 DEF Shape, Starting
  <1>6. Kept' = Kept
    BY <1>2, <1>4 DEF Kept
  <1>7. op'.path = {}
    BY <1>1, <1>2 DEF Shape
  <1> QED
    BY <1>2, <1>3, <1>5, <1>6, <1>7, QuietStep

LEMMA StartPreserves ==
    ASSUME IInv, Start
    PROVE  IInv'
  <1> USE DEF world, channel, history, debouncer, Goto
  <1>1. TypeOK /\ Shape
    BY DEF IInv
  <1>2. /\ pc \in {"down", "stopped"} /\ pc' = "walk" /\ op' \in Fresh("ready", {})
        /\ UNCHANGED <<disk, shelf, mount, changes, faults, watching, queue, rows, recorded, reborn,
                       guessed, hot, pending, due, paused, missed, removed>>
    BY FreshFields DEF Start, Location
  <1>3. op' \in Op /\ op'.path = {} /\ op'.old = {} /\ op'.walked = {}
        /\ \A q \in Path : op'.found[q].content = None
    BY <1>2, FreshKeeps DEF Location
  <1>4. TypeOK'
    BY <1>1, <1>2, <1>3 DEF TypeOK, Location
  <1>5. ~watching /\ queue = <<>> /\ pending = {} /\ op.todo = {} /\ op.path = {}
    BY <1>1, <1>2 DEF Shape, Starting
  <1>6. Shape'
    BY <1>1, <1>2, <1>5, FreshShape DEF Location
  <1>7. Kept \subseteq Kept'
    BY <1>2, <1>5 DEF Kept, Queued, Lookalikes
  <1> QED
    BY <1>2, <1>3, <1>4, <1>6, <1>7, QuietStep

LEMMA PausePreserves ==
    ASSUME IInv, Pause
    PROVE  IInv'
  <1> USE DEF world, channel, history, Forget, Goto
  <1>1. TypeOK /\ Shape
    BY DEF IInv
  <1>2. /\ pc = "top" /\ pc' = "flush" /\ op' \in Fresh("flush", {}) /\ paused' = TRUE
        /\ missed' = missed \cup pending
        /\ hot' = {} /\ pending' = {} /\ due' = {}
        /\ UNCHANGED <<disk, shelf, mount, changes, faults, watching, queue, rows, recorded, reborn,
                       guessed, removed>>
    <2>1. hot \ Path = {} /\ pending \ Path = {} /\ due \ Path = {}
      BY <1>1 DEF TypeOK
    <2>2. op' \in Fresh("flush", {})
      BY FreshFields DEF Pause, Location
    <2> QED
      BY <2>1, <2>2 DEF Pause
  <1>3. op' \in Op /\ op'.path = {} /\ op'.old = {} /\ op'.walked = {}
        /\ \A q \in Path : op'.found[q].content = None
    BY <1>2, FreshKeeps DEF Location
  <1>4. TypeOK'
    BY <1>1, <1>2, <1>3 DEF TypeOK, Location
  <1>5. op.todo = {} /\ op.path = {}
    BY <1>1, <1>2 DEF Shape
  <1>6. Shape'
    BY <1>1, <1>2, FreshShape DEF Location
  <1>7. Kept \subseteq Kept'
    BY <1>2, <1>5 DEF Kept, Queued, Lookalikes
  <1> QED
    BY <1>2, <1>3, <1>4, <1>6, <1>7, QuietStep

LEMMA ResumePreserves ==
    ASSUME IInv, Resume
    PROVE  IInv'
  <1> USE DEF world, channel, history, debouncer, Goto
  <1>1. TypeOK /\ Shape
    BY DEF IInv
  <1>2. /\ pc = "top" /\ paused /\ pc' = "walk" /\ op' \in Fresh("flush", {})
        /\ UNCHANGED <<disk, shelf, mount, changes, faults, watching, queue, rows, recorded, reborn,
                       guessed, hot, pending, due, paused, missed, removed>>
    BY FreshFields DEF Resume, Location
  <1>3. op' \in Op /\ op'.path = {} /\ op'.old = {} /\ op'.walked = {}
        /\ \A q \in Path : op'.found[q].content = None
    BY <1>2, FreshKeeps DEF Location
  <1>4. TypeOK'
    BY <1>1, <1>2, <1>3 DEF TypeOK, Location
  <1>5. pending = {} /\ op.todo = {} /\ op.path = {}
    BY <1>1, <1>2 DEF Shape
  <1>6. Shape'
    BY <1>1, <1>2, <1>5, FreshShape DEF Location
  <1>7. Kept \subseteq Kept'
    BY <1>2, <1>5 DEF Kept, Queued, Lookalikes
  <1> QED
    BY <1>2, <1>3, <1>4, <1>6, <1>7, QuietStep

LEMMA BeginFlushPreserves ==
    ASSUME IInv, BeginFlush
    PROVE  IInv'
  <1> USE DEF world, channel, history, Goto
  <1>1. TypeOK /\ Shape
    BY DEF IInv
  <1>2. PICK batch \in SUBSET Path :
          /\ batch \subseteq pending /\ op' \in Fresh("flush", batch)
          /\ pending' = pending \ batch /\ due' = due \ batch
    <2> DEFINE batch == IF paused THEN {} ELSE TakePending(FALSE)
    <2>1. /\ op' = [NoOp EXCEPT !.todo = batch, !.next = "flush"]
          /\ pending' = pending \ batch /\ due' = due \ batch
      BY DEF BeginFlush
    <2>2. batch \subseteq pending /\ pending \subseteq Path
      BY <1>1 DEF TakePending, TypeOK
    <2> HIDE DEF batch
    <2>3. op' \in Fresh("flush", batch)
      BY <2>1, <2>2, FreshFields DEF Location
    <2> QED
      BY <2>1, <2>2, <2>3
  <1>3. /\ pc = "top" /\ pc' = "flush"
        /\ UNCHANGED <<disk, shelf, mount, changes, faults, watching, queue, rows, recorded, reborn,
                       guessed, hot, paused, missed, removed>>
    BY DEF BeginFlush
  <1>4. op' \in Op /\ op'.path = {} /\ op'.old = {} /\ op'.walked = {} /\ op'.todo = batch
        /\ \A q \in Path : op'.found[q].content = None
    BY <1>2, FreshKeeps DEF Location
  <1>5. TypeOK'
    BY <1>1, <1>2, <1>3, <1>4 DEF TypeOK, Location
  <1>6. Shape'
    BY <1>1, <1>2, <1>3, FreshShape DEF Location, Shape
  <1>7. op.todo = {} /\ op.path = {}
    BY <1>1, <1>3 DEF Shape
  <1>8. Kept \subseteq Kept'
    BY <1>2, <1>3, <1>4, <1>7 DEF Kept, Queued, Lookalikes
  <1> QED
    BY <1>3, <1>4, <1>5, <1>6, <1>8, QuietStep

LEMMA BeginDrainPreserves ==
    ASSUME IInv, BeginDrain
    PROVE  IInv'
  <1> USE DEF channel, history, Goto, Forget
  <1>1. TypeOK /\ Shape
    BY DEF IInv
  <1>2. pc = "top" /\ pc' = "drain" /\ op' \in Fresh("drain", pending)
    <2>1. (IF paused THEN {} ELSE TakePending(TRUE)) = pending
      BY <1>1 DEF TakePending, Shape
    <2>2. pending \in SUBSET Path
      BY <1>1 DEF TypeOK
    <2>3. op' = [NoOp EXCEPT !.todo = pending, !.next = "drain"]
      BY <2>1 DEF BeginDrain
    <2>4. [NoOp EXCEPT !.todo = pending, !.next = "drain"] \in Fresh("drain", pending)
      BY <2>2, FreshFields DEF Location
    <2>5. pc = "top" /\ pc' = "drain"
      BY DEF BeginDrain
    <2> QED
      BY <2>3, <2>4, <2>5
  <1>3. /\ hot' = {} /\ pending' = {} /\ due' = {} /\ faults' \in 0 .. MaxFaults
        /\ UNCHANGED <<disk, shelf, mount, changes, watching, queue, rows, recorded, reborn,
                       guessed, paused, missed, removed>>
    BY <1>1, BoundAssumption DEF BeginDrain, Fault, TypeOK
  <1>4. pending \in SUBSET Path
    BY <1>1 DEF TypeOK
  <1>5. op' \in Op /\ op'.path = {} /\ op'.old = {} /\ op'.walked = {} /\ op'.todo = pending
        /\ \A q \in Path : op'.found[q].content = None
    BY <1>2, <1>4, FreshKeeps DEF Location
  <1>6. TypeOK'
    BY <1>1, <1>2, <1>3, <1>5 DEF TypeOK, Location
  <1>7. Shape'
    BY <1>1, <1>2, <1>3, <1>4, FreshShape DEF Location
  <1>8. op.todo = {} /\ op.path = {}
    BY <1>1, <1>2 DEF Shape
  <1>9. Kept \subseteq Kept'
    BY <1>2, <1>3, <1>5, <1>8 DEF Kept, Queued, Lookalikes
  <1> QED
    BY <1>2, <1>3, <1>5, <1>6, <1>7, <1>9, QuietStep

LEMMA EndDrainPreserves ==
    ASSUME IInv, EndDrain
    PROVE  IInv'
  <1> USE DEF world, history, debouncer, Goto
  <1>1. TypeOK /\ Shape
    BY DEF IInv
  <1>2. /\ pc = "drain" /\ op.todo = {} /\ pc' = "stopped" /\ op' \in Fresh("down", {})
        /\ watching' = FALSE /\ queue' = <<>> /\ missed' = missed \cup Queued /\ paused' = FALSE
        /\ UNCHANGED <<disk, shelf, mount, changes, faults, rows, recorded, reborn, guessed,
                       hot, pending, due, removed>>
    BY FreshFields DEF EndDrain, Location
  <1>3. op' \in Op /\ op'.path = {} /\ op'.old = {} /\ op'.walked = {}
        /\ \A q \in Path : op'.found[q].content = None
    BY <1>2, FreshKeeps DEF Location
  <1>4. Queued \subseteq Path
    BY <1>1, KeptArePaths
  <1>5. TypeOK'
    <2>1. queue' \in Seq(Note) /\ missed' \subseteq Path
      BY <1>1, <1>2, <1>3, <1>4 DEF TypeOK
    <2> QED
      BY <1>1, <1>2, <1>3, <1>4, <2>1 DEF TypeOK, Location
  <1>6. op.path = {} /\ pending = {}
    BY <1>1, <1>2 DEF Shape
  <1>7. Shape'
    BY <1>1, <1>2, <1>6, FreshShape DEF Location
  <1>8. Kept \subseteq Kept'
    BY <1>2, <1>6 DEF Kept, Lookalikes
  <1> QED
    BY <1>2, <1>3, <1>5, <1>7, <1>8, QuietStep

LEMMA BeginWatchPreserves ==
    ASSUME IInv, BeginWatch
    PROVE  IInv'
  <1> USE DEF world, history, debouncer, Goto
  <1>1. TypeOK /\ Shape
    BY DEF IInv
  <1>2. /\ pc = "ready" /\ pc' \in {"top", "down"} /\ queue' = queue
        /\ missed' \in {missed, Path}
        /\ pc' = "down" => watching' = watching
        /\ watching' \in {watching, TRUE}
        /\ UNCHANGED <<disk, shelf, mount, changes, faults, rows, recorded, reborn, guessed,
                       hot, pending, due, op, paused, removed>>
    BY DEF BeginWatch
  <1>3. ~watching /\ queue = <<>> /\ pending = {} /\ op.todo = {}
    BY <1>1, <1>2 DEF Shape, Starting
  <1>4. missed \subseteq missed' /\ missed' \subseteq Path
    BY <1>1, <1>2 DEF TypeOK
  <1>5. TypeOK'
    BY <1>1, <1>2, <1>4 DEF TypeOK, Location
  <1>6. Read' = Read /\ Lookalikes' = Lookalikes /\ Queued' = Queued
    BY <1>2 DEF Read, Lookalikes, Queued
  <1>7. Shape'
    BY <1>1, <1>2, <1>3, <1>6 DEF Shape, Starting
  <1>8. Kept \subseteq Kept'
    BY <1>2, <1>4, <1>6 DEF Kept
  <1>9. op'.path = {}
    BY <1>1, <1>2 DEF Shape
  <1> QED
    BY <1>2, <1>3, <1>4, <1>5, <1>7, <1>8, <1>9, QuietStep

LEMMA CrashPreserves ==
    ASSUME IInv, Crash
    PROVE  IInv'
  <1> USE DEF history, Goto, Forget
  <1>1. TypeOK /\ Shape
    BY DEF IInv
  <1>2. /\ pc' = "down" /\ op' \in Fresh("down", {}) /\ watching' = FALSE /\ queue' = <<>>
        /\ paused' = FALSE /\ missed' = Path
        /\ hot' = {} /\ pending' = {} /\ due' = {} /\ faults' \in 0 .. MaxFaults
        /\ UNCHANGED <<disk, shelf, mount, changes, rows, recorded, reborn, guessed, removed>>
    <2>1. hot \ Path = {} /\ pending \ Path = {} /\ due \ Path = {}
      BY <1>1 DEF TypeOK
    <2>2. op' \in Fresh("down", {})
      BY FreshFields DEF Crash, Location
    <2>3. faults' \in 0 .. MaxFaults
      BY <1>1, BoundAssumption DEF Crash, Fault, TypeOK
    <2> QED
      BY <2>1, <2>2, <2>3 DEF Crash
  <1>3. op' \in Op /\ op'.path = {} /\ op'.old = {} /\ op'.walked = {}
        /\ \A q \in Path : op'.found[q].content = None
    BY <1>2, FreshKeeps DEF Location
  <1>4. TypeOK'
    <2>1. queue' \in Seq(Note) /\ missed' \subseteq Path
      BY <1>1, <1>2, <1>3 DEF TypeOK
    <2> QED
      BY <1>1, <1>2, <1>3, <2>1 DEF TypeOK, Location
  <1>5. Shape'
    BY <1>1, <1>2, FreshShape DEF Location
  <1>6. /\ missed \subseteq missed' /\ Queued \subseteq missed' /\ Gone \subseteq missed'
        /\ \A q \in Kept : Exists(q) => q \in Kept'
    <2>1. \A q : q \in Path => q \in Kept'
      BY <1>2 DEF Kept
    <2>2. Kept \subseteq Path /\ Queued \subseteq Path
      BY <1>1, KeptArePaths
    <2> QED
      BY <1>1, <1>2, <2>1, <2>2 DEF TypeOK, Gone
  <1> QED
    BY <1>2, <1>3, <1>4, <1>5, <1>6, QuietStep

LEMMA HandlerFailsPreserves ==
    ASSUME IInv, HandlerFails
    PROVE  IInv'
  <1> USE DEF channel, history, debouncer, Goto
  <1>1. TypeOK /\ Shape
    BY DEF IInv
  <1>2. op.path \subseteq Path /\ op.old \subseteq Path /\ op.todo \subseteq Path
        /\ op.next \in Location
    BY <1>1 DEF TypeOK, Op
  <1>3. /\ faults' \in 0 .. MaxFaults
        /\ UNCHANGED <<disk, shelf, mount, changes, watching, queue, rows, recorded, reborn,
                       guessed, hot, pending, due, removed>>
    BY <1>1, BoundAssumption DEF HandlerFails, Fault, TypeOK
  <1>4. Queued' = Queued /\ Lookalikes' = Lookalikes
    BY <1>3 DEF Queued, Lookalikes
  <1>5. CASE pc = "work"
    <2>1. /\ missed' = missed \cup op.path \cup op.old /\ pc' = op.next
          /\ op' \in Fresh(op.next, op.todo) /\ paused' = paused
      BY <1>2, <1>5, FreshFields DEF HandlerFails, EndWork
    <2>2. op' \in Op /\ op'.path = {} /\ op'.old = {} /\ op'.walked = {} /\ op'.todo = op.todo
          /\ \A q \in Path : op'.found[q].content = None
      BY <1>2, <2>1, FreshKeeps
    <2>3. TypeOK'
      BY <1>1, <1>2, <1>3, <2>1, <2>2 DEF TypeOK
    <2>4. Shape'
      BY <1>1, <1>2, <1>3, <1>5, <2>1, FreshShape DEF Shape
    <2>5. pc' # "scan"
      BY <1>1, <1>5, <2>1 DEF Shape
    <2>6. Kept \subseteq Kept'
      BY <1>3, <1>4, <1>5, <2>1, <2>2, <2>5 DEF Kept
    <2> QED
      BY <1>3, <1>5, <2>1, <2>2, <2>3, <2>4, <2>5, <2>6, QuietStep
  <1>6. CASE pc = "scan"
    <2>1. /\ op.next = "flush" /\ missed' = Path /\ pc' = "flush" /\ op' \in Fresh("down", {})
          /\ paused' = FALSE
      BY <1>6, FreshFields DEF HandlerFails, Location
    <2>2. op' \in Op /\ op'.path = {} /\ op'.old = {} /\ op'.walked = {} /\ op'.todo = {}
          /\ \A q \in Path : op'.found[q].content = None
      BY <2>1, FreshKeeps DEF Location
    <2>3. TypeOK'
      BY <1>1, <1>3, <2>1, <2>2 DEF TypeOK, Location
    <2>4. Shape'
      BY <1>1, <1>3, <2>1, FreshShape DEF Location
    <2>5. \A q : q \in Kept => q \in Kept'
      <3>1. \A q : q \in Path => q \in Kept'
        BY <2>1 DEF Kept
      <3>2. Kept \subseteq Path
        BY <1>1, KeptArePaths
      <3> QED
        BY <3>1, <3>2
    <2>6. missed \subseteq missed' /\ Gone \subseteq missed'
      BY <1>1, <2>1 DEF TypeOK, Gone
    <2> QED
      BY <1>3, <1>6, <2>1, <2>2, <2>3, <2>4, <2>5, <2>6, QuietStep
  <1> QED
    BY <1>5, <1>6 DEF HandlerFails

-------------------------------------------------------------------------------
(* Scanning                                                                *)

LEMMA WalkPreserves ==
    ASSUME IInv, Walk
    PROVE  IInv'
  <1> USE DEF world, channel, history, debouncer, Goto
  <1>1. TypeOK /\ Shape
    BY DEF IInv
  <1>2. /\ pc = "walk" /\ pc' = "scan"
        /\ op' = [op EXCEPT !.walked = Present, !.todo = Present]
        /\ missed' = missed \cap (Present \cup Skipped(Path))
        /\ UNCHANGED <<disk, shelf, mount, changes, faults, watching, queue, rows, recorded, reborn,
                       hot, pending, due, paused, removed>>
        /\ guessed' = guessed \cup Mistaken(Present)
    BY DEF Walk
  <1>3. \A q \in Path : q \in Present <=> mount = "here" /\ disk[q].content # None
    BY DEF Present, Seen, NoFile
  <1>4. Present \subseteq Path
    BY DEF Present
  <1>5. /\ op' \in Op /\ op'.walked = Present /\ op'.todo = Present /\ op'.found = op.found
        /\ op'.path = op.path /\ op'.old = op.old /\ op'.next = op.next
        /\ op'.trusted = op.trusted
    <2>1. op \in Op
      BY <1>1 DEF TypeOK
    <2> QED
      BY <1>2, <1>4, <2>1 DEF Op
  <1>6. op.path = {} /\ op.old = {} /\ Read = {} /\ op.todo = {} /\ Read' = {}
    BY <1>1, <1>2, <1>5 DEF Shape, Read
  <1>7. missed' \subseteq missed
        /\ \A q \in missed : q \in missed' \/ (mount = "here" /\ disk[q].content = None)
    BY <1>1, <1>2, <1>3 DEF Skipped, TypeOK
  <1>8. /\ \A q : Removing(q)' = Removing(q)
        /\ Queued' = Queued /\ Lookalikes' = Lookalikes
        /\ \A j, q : Later(j, q)' = Later(j, q)
    BY <1>2 DEF Removing, Queued, Lookalikes, Later
  <1>9. TypeOK'
    <2>1. guessed' \subseteq Path
      BY <1>1, <1>2 DEF TypeOK, Mistaken, Present, Shelved
    <2> QED
      BY <1>1, <1>2, <1>5, <1>7, <2>1 DEF TypeOK, Location
  <1>10. Shape'
    BY <1>1, <1>2, <1>5, <1>6 DEF Shape, Starting
  <1>11. HistoryMatchesRows' /\ DeletionsAreReal'
    BY <1>2 DEF IInv, HistoryMatchesRows, DeletionsAreReal
  <1>12. Notes'
    BY <1>2, <1>7, <1>8 DEF IInv, Notes, Exists
  <1>13. Working'
    BY <1>5, <1>6 DEF Working
  <1>14. Scanning'
    <2>1. ASSUME Present # {}, NEW q \in Path \ Present
          PROVE  ~Exists(q)
      BY <1>3, <1>4, <2>1 DEF Exists
    <2> QED
      BY <1>2, <1>5, <1>6, <2>1 DEF Scanning, Exists
  <1>15. PresentKept'
    <2>1. \A q \in Kept : Exists(q) => q \in Kept'
      BY <1>2, <1>5, <1>6, <1>7, <1>8 DEF Kept, Exists
    <2> QED
      BY <1>2, <2>1 DEF IInv, PresentKept, Exists, Settled
  <1>16. AbsentKept'
    <2> SUFFICES ASSUME NEW q \in Path, q \notin missed', q \notin reborn',
                        disk[q].content = None, recorded[q] # None, ~Removing(q)
                 PROVE  q \in Gone'
      BY <1>2, <1>8 DEF AbsentKept, Exists, Settled
    <2>1. mount = "here"
      BY <1>2, <1>7 DEF IInv, AbsentKept, Exists, Settled
    <2>2. rows[q].live
      BY <1>2 DEF IInv, HistoryMatchesRows
    <2> QED
      BY <1>2, <1>3, <1>5, <2>2 DEF Gone
  <1>17. Deleting'
    <2>1. \A q \in Path : q \in Present => Exists(q)
      BY <1>3 DEF Exists
    <2>2. ASSUME op'.walked # {}, op'.trusted, NEW q \in Path \ op'.walked, rows[q].live
          PROVE  q \in removed \cup guessed'
      <3>1. Exists(q) \/ q \in Shelved \/ q \in removed
        BY <2>2 DEF IInv, Deleting, Known
      <3>2. ~Exists(q)
        BY <1>3, <1>4, <1>5, <2>2 DEF Exists
      <3>3. q \in Shelved => q \in Mistaken(Present)
        BY <1>5, <2>2 DEF Mistaken
      <3> QED
        BY <1>2, <3>1, <3>2, <3>3
    <2>3. \A q \in Path : Known(q)' <=> Known(q)
      BY <1>2 DEF Known, Exists, Shelved
    <2>4. \A q \in Present : Known(q)'
      BY <1>4, <2>1, <2>3 DEF Known
    <2> QED
      BY <1>2, <1>5, <1>6, <2>2, <2>3, <2>4 DEF IInv, Deleting
  <1> QED
    BY <1>9, <1>10, <1>11, <1>12, <1>13, <1>14, <1>15, <1>16, <1>17 DEF IInv

LEMMA InterruptedWalkPreserves ==
    ASSUME IInv, InterruptedWalk
    PROVE  IInv'
  <1> USE DEF channel, debouncer, Goto
  <1>1. TypeOK /\ Shape
    BY DEF IInv
  <1>2. PICK met \in SUBSET Present :
          /\ op' = [op EXCEPT !.walked = met, !.todo = met]
          /\ missed' = missed \cup (Present \ met)
          /\ guessed' = guessed \cup Mistaken(met)
    BY DEF InterruptedWalk
  <1>3. /\ pc = "walk" /\ pc' = "scan" /\ mount = "here" /\ mount' = "away"
        /\ faults' \in 0 .. MaxFaults
        /\ UNCHANGED <<disk, shelf, changes, watching, queue, rows, recorded, reborn,
                       hot, pending, due, paused, removed>>
    BY <1>1, BoundAssumption DEF InterruptedWalk, Fault, TypeOK
  <1>4. \A q \in Path : q \in Present <=> disk[q].content # None
    BY <1>3 DEF Present, Seen, NoFile
  <1>5. Present \subseteq Path
    BY DEF Present
  <1>6. /\ op' \in Op /\ op'.walked = met /\ op'.todo = met /\ op'.found = op.found
        /\ op'.path = op.path /\ op'.old = op.old /\ op'.next = op.next
        /\ op'.trusted = op.trusted
    <2>1. op \in Op /\ met \in SUBSET Path
      BY <1>1, <1>5 DEF TypeOK
    <2> QED
      BY <1>2, <2>1 DEF Op
  <1>7. op.path = {} /\ op.old = {} /\ Read = {} /\ op.todo = {} /\ Read' = {}
    BY <1>1, <1>3, <1>6 DEF Shape, Read
  <1>8. /\ \A q : Removing(q)' = Removing(q)
        /\ Queued' = Queued /\ Lookalikes' = Lookalikes
        /\ \A j, q : Later(j, q)' = Later(j, q)
    BY <1>3 DEF Removing, Queued, Lookalikes, Later
  <1>9. missed \subseteq missed' /\ guessed \subseteq guessed'
    BY <1>2
  <1>10. TypeOK'
    <2>1. missed' \subseteq Path /\ guessed' \subseteq Path
      BY <1>1, <1>2, <1>5 DEF TypeOK, Mistaken, Present, Shelved
    <2> QED
      BY <1>1, <1>3, <1>6, <2>1 DEF TypeOK, Location
  <1>11. Shape'
    BY <1>1, <1>3, <1>6, <1>7 DEF Shape, Starting
  <1>12. HistoryMatchesRows' /\ DeletionsAreReal'
    BY <1>3, <1>9 DEF IInv, HistoryMatchesRows, DeletionsAreReal
  <1>13. Notes'
    BY <1>3, <1>8, <1>9 DEF IInv, Notes, Exists
  <1>14. Working'
    BY <1>6, <1>7 DEF Working
  <1>15. Scanning'
    BY <1>2, <1>3, <1>4, <1>6, <1>7 DEF Scanning, Exists
  <1>16. PresentKept'
    <2>1. \A q \in Kept : Exists(q) => q \in Kept'
      BY <1>3, <1>6, <1>7, <1>8, <1>9 DEF Kept, Exists
    <2> QED
      BY <1>3, <2>1 DEF IInv, PresentKept, Exists, Settled
  <1>17. AbsentKept'
    BY <1>3, <1>8, <1>9 DEF IInv, AbsentKept, Exists, Settled
  <1>18. Deleting'
    <2>1. \A q \in Path : q \in met => Exists(q)
      BY <1>4 DEF Exists
    <2>2. ASSUME op'.walked # {}, op'.trusted, NEW q \in Path \ op'.walked, rows[q].live
          PROVE  q \in removed \cup guessed'
      <3>1. Exists(q) \/ q \in Shelved \/ q \in removed
        BY <2>2 DEF IInv, Deleting, Known
      <3>2. Exists(q) \/ q \in Shelved => q \in Mistaken(met)
        BY <1>4, <1>6, <2>2 DEF Mistaken, Exists
      <3> QED
        BY <1>2, <3>1, <3>2
    <2>3. \A q \in Path : Known(q)' <=> Known(q)
      BY <1>3 DEF Known, Exists, Shelved
    <2>4. \A q \in met : Known(q)'
      BY <1>5, <2>1, <2>3 DEF Known
    <2> QED
      BY <1>3, <1>6, <1>7, <1>9, <2>2, <2>3, <2>4 DEF IInv, Deleting
  <1> QED
    BY <1>10, <1>11, <1>12, <1>13, <1>14, <1>15, <1>16, <1>17, <1>18 DEF IInv

LEMMA ReadFilePreserves ==
    ASSUME IInv, NEW f \in Path, ReadFile(f)
    PROVE  IInv'
  <1> USE DEF world, channel, history, debouncer
  <1>1. TypeOK /\ Shape
    BY DEF IInv
  <1>2. /\ pc = "scan" /\ f \in op.todo
        /\ op' = [op EXCEPT !.todo = @ \ {f}, !.found[f] = Seen(f)]
        /\ missed' = missed \ (({f} \cap Present) \ Stale)
        /\ UNCHANGED <<disk, shelf, mount, changes, faults, watching, queue, rows, recorded, reborn,
                       guessed, hot, pending, due, pc, paused, removed>>
    BY DEF ReadFile
  <1>3. /\ Seen(f).content # None => Seen(f) = disk[f]
        /\ f \in Present <=> Seen(f).content # None
    BY DEF Present, Seen, NoFile
  <1>4. Seen(f) \in File
    <2>1. NoFile \in File
      BY BoundAssumption DEF NoFile, File, ContentOrNone, Stamp
    <2> QED
      BY <1>1, <2>1 DEF Seen, TypeOK
  <1>5. /\ op' \in Op /\ op'.walked = op.walked /\ op'.todo = op.todo \ {f}
        /\ op'.found = [op.found EXCEPT ![f] = Seen(f)]
        /\ op'.path = op.path /\ op'.old = op.old /\ op'.next = op.next
        /\ op'.trusted = op.trusted
    <2>1. op \in Op
      BY <1>1 DEF TypeOK
    <2>2. op.found \in [Path -> File]
      BY <2>1 DEF Op
    <2>3. [op.found EXCEPT ![f] = Seen(f)] \in [Path -> File]
      BY <1>4, <2>2
    <2> QED
      BY <1>2, <2>1, <2>3 DEF Op
  <1>6. \A q \in Path : op'.found[q] = IF q = f THEN Seen(f) ELSE op.found[q]
    <2>1. op.found \in [Path -> File]
      BY <1>1 DEF TypeOK, Op
    <2> QED
      BY <1>5, <2>1
  <1>7. /\ \A q \in Read' : q \in Read \/ (q = f /\ Seen(f).content # None)
        /\ \A q \in Read : q \in Read'
        /\ Seen(f).content # None => f \in Read'
    <2>1. f \notin Read
      BY <1>1, <1>2 DEF Shape
    <2> QED
      BY <1>6, <2>1 DEF Read
  <1>8. op.path = {} /\ op.old = {} /\ op.todo \subseteq op.walked
        /\ Read \subseteq op.walked \ op.todo
    BY <1>1, <1>2 DEF Shape
  <1>9. /\ \A q : Removing(q)' = Removing(q)
        /\ Queued' = Queued /\ Lookalikes' = Lookalikes /\ Gone' = Gone
        /\ \A j, q : Later(j, q)' = Later(j, q)
    BY <1>2, <1>5 DEF Removing, Queued, Lookalikes, Later, Gone
  <1>10. /\ missed' \subseteq missed
         /\ \A q \in missed : q \in missed' \/ (q = f /\ Seen(f).content # None /\ q \notin Stale)
    BY <1>2, <1>3
  <1>11. TypeOK'
    BY <1>1, <1>2, <1>5, <1>10 DEF TypeOK
  <1>12. Shape'
    BY <1>1, <1>2, <1>5, <1>7, <1>8 DEF Shape, Starting
  <1>13. HistoryMatchesRows' /\ DeletionsAreReal'
    BY <1>2 DEF IInv, HistoryMatchesRows, DeletionsAreReal
  <1>14. Notes'
    <2> SUFFICES ASSUME NEW i \in DOMAIN queue, NEW q \in Removes(queue[i]), Exists(q),
                        ~watching, q \in missed
                 PROVE  q \in missed'
      BY <1>2, <1>9 DEF IInv, Notes, Exists
    <2>1. q \in Paths(queue[i])
      BY DEF Removes, Paths
    <2>2. q \in Stale
      BY <2>1, QueuedMeans DEF Stale
    <2> QED
      BY <1>10, <2>2
  <1>15. Working'
    BY <1>5, <1>8 DEF Working
  <1>16. Scanning'
    <2>1. ASSUME NEW q \in Read'
          PROVE  /\ op'.found[q] = disk[q] \/ q \in missed' \cup Queued
                 /\ Exists(q) \/ q \in missed' \/ Removing(q)
      <3>1. q \in Path
        BY DEF Read
      <3>2. CASE q = f /\ Seen(f).content # None
        BY <1>3, <1>6, <3>1, <3>2 DEF Exists
      <3>3. CASE q # f
        <4>1. q \in Read
          BY <1>7, <3>3
        <4> QED
          BY <1>2, <1>6, <1>10, <3>1, <3>3, <4>1 DEF IInv, Scanning
      <3>4. q = f => Seen(f).content # None
        BY <1>7, <1>2, <1>8
      <3> QED
        BY <3>2, <3>3, <3>4
    <2>2. ASSUME op'.walked # {}, NEW q \in Path \ op'.walked, Exists(q)
          PROVE  q \in missed' \cup Queued
      <3>1. q # f
        BY <1>2, <1>5, <1>8, <2>2
      <3> QED
        BY <1>2, <1>5, <1>10, <2>2, <3>1 DEF IInv, Scanning
    <2> QED
      BY <1>2, <1>9, <2>1, <2>2 DEF Scanning, Exists
  <1>17. PresentKept'
    <2>1. \A q \in Kept : q \in Kept'
      BY <1>2, <1>5, <1>7, <1>9, <1>10 DEF Kept
    <2> QED
      BY <1>2, <2>1 DEF IInv, PresentKept, Exists, Settled
  <1>18. AbsentKept'
    <2>1. \A q \in missed : q \in missed' \/ Exists(q)
      BY <1>3, <1>10 DEF Exists
    <2> QED
      BY <1>2, <1>9, <2>1 DEF IInv, AbsentKept, Exists, Settled
  <1>19. Deleting'
    <2>1. ASSUME NEW q \in Path, op'.found[q].content # None
          PROVE  Known(q)
      <3>1. CASE q = f
        BY <1>3, <1>6, <2>1, <3>1 DEF Known, Exists
      <3>2. CASE q # f
        BY <1>6, <2>1, <3>2 DEF IInv, Deleting
      <3> QED
        BY <3>1, <3>2
    <2> QED
      BY <1>2, <1>5, <2>1 DEF IInv, Deleting, Known, Exists, Shelved
  <1> QED
    BY <1>11, <1>12, <1>13, <1>14, <1>15, <1>16, <1>17, <1>18, <1>19 DEF IInv

LEMMA CommitScanPreserves ==
    ASSUME IInv, CommitScan
    PROVE  IInv'
  <1> USE DEF world, channel, debouncer, Goto
  <1>1. TypeOK /\ Shape
    BY DEF IInv
  <1> DEFINE deleted == Deletions
             changed == {q \in Read : op.found[q].content # rows[q].hash}
  <1>2. /\ pc = "scan" /\ op.todo = {} /\ pc' = op.next /\ paused' = FALSE
        /\ op' \in Fresh("down", {})
        /\ UNCHANGED <<disk, shelf, mount, changes, faults, watching, queue, guessed,
                       hot, pending, due, removed>>
    BY FreshFields DEF CommitScan, Location
  <1>3. rows' = [q \in Path |->
                  IF q \in Read
                  THEN [hash |-> op.found[q].content, live |-> TRUE, stamp |-> op.found[q].stamp]
                  ELSE [rows[q] EXCEPT !.live = @ /\ q \notin deleted]]
    BY DEF CommitScan
  <1>4. recorded' = [q \in Path |->
                       CASE q \in changed -> op.found[q].content
                         [] q \in deleted -> None
                         [] OTHER -> recorded[q]]
    BY DEF CommitScan
  <1>5. /\ reborn' = (reborn \cup {q \in Read : ~rows[q].live}) \ (changed \cup deleted)
        /\ missed' = missed \cup (Gone \ deleted) \cup Skipped(Gone \cup (op.walked \ Read))
    BY DEF CommitScan
  <1>6. /\ deleted \subseteq Gone /\ Gone \subseteq Path /\ Read \subseteq Path
        /\ Gone \cap op.walked = {} /\ Read \subseteq op.walked /\ changed \subseteq Read
        /\ op.walked \subseteq Path
        /\ deleted # {} => op.walked # {} /\ op.trusted
    BY <1>1, <1>2 DEF Deletions, Gone, Read, Shape, TypeOK, Op
  <1>7. /\ \A q \in Path : rows[q] \in Row /\ op.found[q] \in File
        /\ recorded \in [Path -> ContentOrNone]
    BY <1>1 DEF TypeOK, Op
  <1>8. \A q \in changed : op.found[q].content # rows[q].hash
    OBVIOUS
  <1>9. \A q \in Read : q \notin changed => op.found[q].content = rows[q].hash
    OBVIOUS
  <1> HIDE DEF deleted, changed
  <1>10. \A q \in Read : /\ rows'[q].hash = op.found[q].content /\ rows'[q].live
                         /\ rows'[q].stamp = op.found[q].stamp
    BY <1>3, <1>6
  <1>11. \A q \in Path \ Read : /\ rows'[q].hash = rows[q].hash /\ rows'[q].stamp = rows[q].stamp
                                /\ rows'[q].live <=> rows[q].live /\ q \notin deleted
    <2> SUFFICES ASSUME NEW q \in Path \ Read
                 PROVE  /\ rows'[q].hash = rows[q].hash /\ rows'[q].stamp = rows[q].stamp
                        /\ rows'[q].live <=> rows[q].live /\ q \notin deleted
      OBVIOUS
    <2>1. rows'[q] = [rows[q] EXCEPT !.live = @ /\ q \notin deleted]
      BY <1>3
    <2> QED
      BY <1>7, <2>1 DEF Row
  <1>12. /\ \A q \in changed : recorded'[q] = op.found[q].content
         /\ \A q \in deleted : recorded'[q] = None
         /\ \A q \in Path : q \notin changed \cup deleted => recorded'[q] = recorded[q]
    BY <1>4, <1>6
  <1>13. missed \subseteq missed' /\ Gone \ deleted \subseteq missed'
    BY <1>5
  <1>14. /\ op' \in Op /\ op'.path = {} /\ op'.old = {} /\ op'.walked = {} /\ op'.todo = {}
         /\ \A q \in Path : op'.found[q].content = None
    BY <1>2, FreshKeeps DEF Location
  <1>15. /\ \A q : Removing(q)' = Removing(q)
         /\ Queued' = Queued
         /\ \A j, q : Later(j, q)' = Later(j, q)
    BY <1>2 DEF Removing, Queued, Later
  <1>16. TypeOK'
    <2>1. rows' \in [Path -> Row]
      <3>1. ASSUME NEW q \in Read
            PROVE  [hash |-> op.found[q].content, live |-> TRUE, stamp |-> op.found[q].stamp]
                     \in Row
        BY <1>6, <1>7 DEF Row, File
      <3>2. ASSUME NEW q \in Path PROVE [rows[q] EXCEPT !.live = @ /\ q \notin deleted] \in Row
        BY <1>7 DEF Row
      <3> QED
        BY <1>3, <3>1, <3>2
    <2>2. recorded' \in [Path -> ContentOrNone]
      <3>1. ASSUME NEW q \in Path
            PROVE  (CASE q \in changed -> op.found[q].content
                      [] q \in deleted -> None
                      [] OTHER -> recorded[q]) \in ContentOrNone
        BY <1>7 DEF File, ContentOrNone
      <3> QED
        BY <1>4, <3>1
    <2>3. reborn' \subseteq Path /\ missed' \subseteq Path
      BY <1>1, <1>5, <1>6 DEF TypeOK, Skipped
    <2>4. pc' \in Location
      BY <1>1, <1>2 DEF Shape, Location
    <2> QED
      BY <1>1, <1>2, <1>14, <2>1, <2>2, <2>3, <2>4 DEF TypeOK
  <1>17. Shape'
    <2>1. /\ op.next \in {"ready", "flush"}
          /\ op.next = "ready" => ~watching /\ queue = <<>> /\ pending = {}
      BY <1>1, <1>2 DEF Shape, Starting
    <2>2. pending = {}
      BY <1>1, <1>2 DEF Shape
    <2> QED
      BY <1>1, <1>2, <2>1, <2>2, FreshShape DEF Location
  <1>18. HistoryMatchesRows'
    <2> SUFFICES ASSUME NEW q \in Path, q \notin reborn'
                 PROVE  recorded'[q] = IF rows'[q].live THEN rows'[q].hash ELSE None
      BY DEF HistoryMatchesRows
    <2>1. CASE q \in changed
      BY <1>6, <1>10, <1>12, <2>1
    <2>2. CASE q \in Read \ changed
      <3>1. q \notin deleted
        BY <1>6, <2>2
      <3>2. rows[q].live /\ q \notin reborn
        BY <1>5, <2>2, <3>1
      <3>3. recorded[q] = rows[q].hash
        BY <3>2 DEF IInv, HistoryMatchesRows
      <3> QED
        BY <1>9, <1>10, <1>12, <2>2, <3>1, <3>3
    <2>3. CASE q \in deleted
      <3>1. q \notin Read
        BY <1>6, <2>3
      <3> QED
        BY <1>11, <1>12, <2>3, <3>1
    <2>4. CASE q \notin Read /\ q \notin deleted
      <3>1. q \notin reborn /\ q \notin changed
        BY <1>5, <1>6, <2>4
      <3> QED
        BY <1>11, <1>12, <2>4, <3>1 DEF IInv, HistoryMatchesRows
    <2> QED
      BY <2>1, <2>2, <2>3, <2>4
  <1>19. Notes'
    BY <1>2, <1>13, <1>15 DEF IInv, Notes, Exists
  <1>20. Working'
    BY <1>14 DEF Working
  <1>21. Scanning'
    BY <1>1, <1>2 DEF Scanning, Shape
  <1>22. PresentKept'
    <2> SUFFICES ASSUME NEW q \in Path, q \notin Kept', disk[q].content # None
                 PROVE  recorded'[q] = disk[q].content
      BY <1>2 DEF PresentKept, Exists, Settled
    <2>1. q \notin missed \cup Queued /\ q \notin missed' /\ q \notin reborn'
          /\ q \notin pending /\ q \notin Lookalikes'
      BY <1>2, <1>13, <1>15 DEF Kept
    <2>2. CASE q \in Read
      <3>1. op.found[q] = disk[q]
        BY <1>2, <2>1, <2>2 DEF IInv, Scanning
      <3>2. CASE q \in changed
        BY <1>12, <3>1, <3>2
      <3>3. CASE q \notin changed
        <4>1. q \notin deleted
          BY <1>6, <2>2
        <4>2. rows[q].live /\ q \notin reborn
          BY <1>5, <2>1, <2>2, <3>3, <4>1
        <4>3. recorded[q] = rows[q].hash
          BY <4>2 DEF IInv, HistoryMatchesRows
        <4> QED
          BY <1>9, <1>12, <2>2, <3>1, <3>3, <4>1, <4>3
      <3> QED
        BY <3>2, <3>3
    <2>3. CASE q \in deleted
      <3>1. op.walked # {} /\ q \notin op.walked
        BY <1>6, <2>3
      <3> QED
        BY <1>2, <2>1, <3>1 DEF IInv, Scanning, Exists
    <2>4. CASE q \notin Read /\ q \notin deleted
      <3>1. q \notin reborn /\ q \notin changed
        BY <1>5, <1>6, <2>1, <2>4
      <3>2. q \notin Lookalikes
        BY <1>2, <1>11, <2>1, <2>4 DEF Lookalikes
      <3>3. op.path = {}
        BY <1>1, <1>2 DEF Shape
      <3>4. q \notin Kept
        BY <1>2, <2>1, <2>4, <3>1, <3>2, <3>3 DEF Kept
      <3>5. recorded[q] = disk[q].content
        BY <3>4 DEF IInv, PresentKept, Exists, Settled
      <3> QED
        BY <1>12, <2>4, <3>1, <3>5
    <2> QED
      BY <2>2, <2>3, <2>4
  <1>23. AbsentKept'
    <2> SUFFICES ASSUME NEW q \in Path, q \notin missed', q \notin reborn',
                        disk[q].content = None, ~Removing(q)
                 PROVE  recorded'[q] = None
      BY <1>2, <1>15 DEF AbsentKept, Exists, Settled
    <2>1. q \notin missed
      BY <1>13
    <2>2. q \notin Read
      BY <1>2, <2>1 DEF IInv, Scanning, Exists
    <2>3. CASE q \in deleted
      BY <1>12, <2>3
    <2>4. CASE q \notin deleted
      <3>1. q \notin reborn /\ q \notin changed /\ q \notin Gone
        BY <1>5, <1>6, <1>13, <2>2, <2>4
      <3>2. recorded[q] = None
        BY <2>1, <3>1 DEF IInv, AbsentKept, Exists, Settled
      <3> QED
        BY <1>12, <2>4, <3>1, <3>2
    <2> QED
      BY <2>3, <2>4
  <1>24. Deleting'
    <2>1. ASSUME NEW q \in Path, rows'[q].live PROVE rows'[q].hash # None
      <3>1. CASE q \in Read
        BY <1>10, <3>1 DEF Read
      <3>2. CASE q \notin Read
        BY <1>11, <2>1, <3>2 DEF IInv, Deleting
      <3> QED
        BY <3>1, <3>2
    <2>2. ASSUME NEW q \in Path, rows'[q].hash # None PROVE Known(q)
      <3>1. CASE q \in Read
        BY <1>10, <2>2, <3>1 DEF IInv, Deleting
      <3>2. CASE q \notin Read
        BY <1>11, <2>2, <3>2 DEF IInv, Deleting
      <3> QED
        BY <3>1, <3>2
    <2>3. pc' # "scan"
      BY <1>1, <1>2 DEF Shape
    <2>4. \A j \in DOMAIN queue : Removes(queue[j]) \subseteq removed
      BY DEF IInv, Deleting
    <2> QED
      BY <1>2, <1>14, <2>1, <2>2, <2>3, <2>4 DEF Deleting, Known, Exists, Shelved
  <1>25. DeletionsAreReal'
    <2> SUFFICES ASSUME NEW q \in Path, rows'[q].hash # None, ~rows'[q].live
                 PROVE  q \in removed \cup guessed
      BY <1>2 DEF DeletionsAreReal
    <2>1. q \notin Read
      BY <1>10
    <2>2. CASE q \in deleted
      <3>1. op.walked # {} /\ op.trusted /\ q \notin op.walked /\ rows[q].live
        BY <1>6, <2>2 DEF Gone
      <3> QED
        BY <1>2, <3>1 DEF IInv, Deleting
    <2>3. CASE q \notin deleted
      BY <1>11, <2>1, <2>3 DEF IInv, DeletionsAreReal
    <2> QED
      BY <2>2, <2>3
  <1> QED
    BY <1>16, <1>17, <1>18, <1>19, <1>20, <1>21, <1>22, <1>23, <1>24, <1>25 DEF IInv

-------------------------------------------------------------------------------
(* Notifications and deferred reads                                        *)

\* The local variables of a handler that has been given a path.
LEMMA CaptureFields ==
    ASSUME TypeOK, NEW kind \in {"create", "modify", "rename"}, NEW f \in Path,
           NEW old \in SUBSET Path, Capture(kind, f, old), Seen(f).content # None
    PROVE  /\ pc' = "work" /\ op' \in Op /\ op'.path = {f} /\ op'.old = old
           /\ op'.todo = {} /\ op'.next = "top" /\ op'.walked = {}
           /\ \A q \in Path : op'.found[q].content = None
           /\ op'.stamp = disk[f].stamp /\ Exists(f) /\ mount = "here"
           /\ UNCHANGED <<rows, recorded, reborn, guessed, missed>>
  <1>1. Seen(f) = disk[f] /\ mount = "here" /\ disk[f] \in File
    BY DEF Seen, NoFile, TypeOK
  <1>2. /\ NoOp \in Op /\ NoOp.walked = {} /\ NoOp.todo = {}
        /\ \A q \in Path : NoOp.found[q].content = None
    BY FreshFields DEF Location, NoOp, NoFile
  <1>3. op' = [NoOp EXCEPT !.kind = kind, !.path = {f}, !.old = old,
                           !.stamp = disk[f].stamp, !.next = "top"]
    BY <1>1 DEF Capture
  <1>4. disk[f].stamp \in Stamp
    BY <1>1 DEF File
  <1> HIDE DEF NoOp
  <1>5. /\ op' \in Op /\ op'.path = {f} /\ op'.old = old /\ op'.todo = {}
        /\ op'.next = "top" /\ op'.walked = {} /\ op'.found = NoOp.found
        /\ op'.stamp = disk[f].stamp
    BY <1>2, <1>3, <1>4 DEF Op, Location
  <1> QED
    BY <1>1, <1>2, <1>5 DEF Capture, Goto, history, Exists

LEMMA FlushOnePreserves ==
    ASSUME IInv, NEW f \in Path, FlushOne(f)
    PROVE  IInv'
  <1> USE DEF world, channel, history, Goto, Forget
  <1>1. TypeOK /\ Shape
    BY DEF IInv
  <1>2. /\ pc \in {"flush", "drain"} /\ f \in op.todo
        /\ hot' \subseteq hot \cup {f} /\ pending' = pending \ {f} /\ due' = due \ {f}
        /\ UNCHANGED <<disk, shelf, mount, changes, faults, watching, queue, rows, recorded, reborn,
                       guessed, paused, removed>>
    BY DEF FlushOne
  <1>3. op \in Op /\ disk[f] \in File /\ op.todo \subseteq Path
    BY <1>1 DEF TypeOK, Op
  <1>4. op.path = {} /\ op.old = {}
    BY <1>1, <1>2 DEF Shape
  <1>5. op.next = pc
    BY <1>1, <1>2 DEF Shape
  <1>6. Lookalikes' = Lookalikes /\ Queued' = Queued
    BY <1>2 DEF Lookalikes, Queued
  <1>7. CASE Seen(f).content = None
    <2>1. /\ pc' = pc /\ op' = [op EXCEPT !.todo = op.todo \ {f}]
          /\ missed' = missed \cup Skipped({f})
      BY <1>7 DEF FlushOne
    <2>2. /\ op' \in Op /\ op'.todo = op.todo \ {f} /\ op'.path = {} /\ op'.old = {}
          /\ op'.walked = op.walked /\ op'.found = op.found /\ op'.next = op.next
      BY <1>3, <1>4, <2>1 DEF Op
    <2>3. missed' \subseteq Path
      BY <1>1, <2>1 DEF TypeOK, Skipped
    <2>4. TypeOK'
      BY <1>1, <1>2, <2>1, <2>2, <2>3 DEF TypeOK
    <2>5. Shape'
      BY <1>1, <1>2, <1>5, <2>1, <2>2 DEF Shape, Starting
    <2>6. Exists(f) => f \in missed'
      BY <1>7, <2>1 DEF Exists, Seen, Skipped
    <2>7. \A q \in Kept : Exists(q) => q \in Kept'
      BY <1>2, <1>4, <1>6, <2>1, <2>2, <2>6 DEF Kept
    <2> QED
      BY <1>2, <2>1, <2>2, <2>4, <2>5, <2>7, QuietStep
  <1>8. CASE Seen(f).content # None
    <2>1. Seen(f) = disk[f] /\ Exists(f)
      BY <1>8 DEF Seen, NoFile, Exists
    <2>2. /\ pc' = "work" /\ missed' = missed
          /\ op' = [op EXCEPT !.todo = op.todo \ {f}, !.kind = "modify", !.path = {f},
                              !.stamp = disk[f].stamp]
      BY <1>8, <2>1 DEF FlushOne
    <2>3. /\ op' \in Op /\ op'.todo = op.todo \ {f} /\ op'.path = {f} /\ op'.old = {}
          /\ op'.walked = op.walked /\ op'.found = op.found /\ op'.next = op.next
          /\ op'.stamp = disk[f].stamp
      BY <1>3, <1>4, <2>2 DEF Op, File
    <2>4. TypeOK'
      BY <1>1, <1>2, <2>2, <2>3 DEF TypeOK, Location
    <2>5. Shape'
      BY <1>1, <1>2, <1>5, <2>2, <2>3 DEF Shape, Starting
    <2>6. \A q \in Kept : q \in Kept'
      BY <1>2, <1>4, <1>6, <2>2, <2>3 DEF Kept
    <2> QED
      BY <1>2, <2>1, <2>2, <2>3, <2>4, <2>5, <2>6, QuietStep
  <1> QED
    BY <1>7, <1>8

\* What handle_delete changes; the caller knows that the path was removed, or
\* that it cannot tell.
LEMMA DeleteStep ==
    ASSUME IInv, NEW f \in Path, Delete(f), removed' = removed,
           f \in removed \/ mount # "here" \/ ~Exists(f)
    PROVE  /\ rows' \in [Path -> Row] /\ recorded' \in [Path -> ContentOrNone]
           /\ reborn' \subseteq Path /\ guessed' \subseteq Path
           /\ \A q \in Path \ {f} : /\ rows'[q] = rows[q] /\ recorded'[q] = recorded[q]
                                    /\ q \in reborn => q \in reborn'
           /\ \A q \in Path : rows'[q].hash = rows[q].hash /\ (rows'[q].live => rows[q].live)
           /\ f \in reborn' \/ recorded'[f] = None
           /\ HistoryMatchesRows' /\ DeletionsAreReal'
  <1>1. /\ rows \in [Path -> Row] /\ recorded \in [Path -> ContentOrNone]
        /\ reborn \subseteq Path /\ guessed \subseteq Path
    BY DEF IInv, TypeOK
  <1>2. CASE rows[f].live
    <2>1. /\ recorded' = [recorded EXCEPT ![f] = None]
          /\ rows' = [rows EXCEPT ![f].live = FALSE]
          /\ reborn' = reborn \ {f}
          /\ guessed' = guessed \cup ({f} \cap (Skipped(Path) \cup Shelved))
      BY <1>2 DEF Delete
    <2>2. /\ rows' \in [Path -> Row]
          /\ rows'[f].hash = rows[f].hash /\ rows'[f].live = FALSE
          /\ \A q \in Path \ {f} : rows'[q] = rows[q]
      BY <1>1, <2>1 DEF Row
    <2>3. /\ recorded' \in [Path -> ContentOrNone] /\ recorded'[f] = None
          /\ \A q \in Path \ {f} : recorded'[q] = recorded[q]
      BY <1>1, <2>1 DEF ContentOrNone
    <2>4. guessed' \subseteq Path
      BY <1>1, <2>1
    <2>5. HistoryMatchesRows'
      BY <2>1, <2>2, <2>3 DEF IInv, HistoryMatchesRows
    <2>6. f \in removed \cup guessed'
      <3>1. rows[f].hash # None
        BY <1>2 DEF IInv, Deleting
      <3>2. Exists(f) \/ f \in Shelved \/ f \in removed
        BY <3>1 DEF IInv, Deleting, Known
      <3>3. mount # "here" \/ f \in Shelved => f \in guessed'
        BY <2>1 DEF Skipped
      <3> QED
        BY <3>2, <3>3
    <2>7. DeletionsAreReal'
      BY <2>1, <2>2, <2>6 DEF IInv, DeletionsAreReal
    <2> QED
      BY <1>1, <2>1, <2>2, <2>3, <2>4, <2>5, <2>7
  <1>3. CASE ~rows[f].live
    <2>1. UNCHANGED <<rows, recorded, reborn, guessed>>
      BY <1>3 DEF Delete, history
    <2>2. f \in reborn \/ recorded[f] = None
      BY <1>3 DEF IInv, HistoryMatchesRows
    <2> QED
      BY <1>1, <2>1, <2>2 DEF IInv, HistoryMatchesRows, DeletionsAreReal
  <1> QED
    BY <1>2, <1>3

\* Taking a notification preserves the invariant if a file it is about that
\* exists is still looked at afterwards, and one that does not is recorded as
\* deleted or waits for a remover.
LEMMA ReceiveStep ==
    ASSUME IInv, TypeOK', Shape', pc = "flush", op.todo = {}, queue # <<>>,
           queue' = Tail(queue), UNCHANGED <<disk, shelf, watching, removed>>,
           missed \subseteq missed', pc' # "scan", HistoryMatchesRows', DeletionsAreReal',
           \A q \in Path : rows'[q].hash = rows[q].hash /\ (rows'[q].live => rows[q].live),
           op'.walked \subseteq op.walked, op'.old \subseteq removed,
           \A q \in Path : op'.found[q].content # None => op.found[q].content # None,
           \A q \in op'.path : Exists(q) /\ op'.stamp = disk[q].stamp,
           \A q \in op'.old : Exists(q) => q \in missed' \cup Queued',
           \A q \in Path \ Paths(Head(queue)) :
             /\ rows'[q] = rows[q] /\ recorded'[q] = recorded[q]
             /\ q \in reborn => q \in reborn'
             /\ q \in pending => q \in pending',
           \A q \in Paths(Head(queue)) : Exists(q) => q \in Kept',
           \A q \in Paths(Head(queue)) : ~Exists(q) =>
             \/ q \in missed' \cup reborn' \/ recorded'[q] = None
             \/ /\ recorded'[q] = recorded[q] /\ ~RemoverOf(Head(queue), q)
                /\ q \in reborn => q \in reborn'
    PROVE  IInv'
  <1>1. TypeOK /\ Shape /\ queue \in Seq(Note)
    BY DEF IInv, TypeOK
  <1>2. /\ \A q : q \in Queued => q \in Queued' \/ q \in Paths(Head(queue))
        /\ \A q : Removing(q) => Removing(q)' \/ RemoverOf(Head(queue), q)
        /\ \A j \in DOMAIN queue' :
             /\ j + 1 \in DOMAIN queue /\ queue'[j] = queue[j + 1]
             /\ \A q : Later(j + 1, q) => Later(j, q)'
    BY <1>1, ReceivedNote
  <1>3. Notes'
    <2> SUFFICES ASSUME NEW j \in DOMAIN queue', NEW q \in Removes(queue'[j]),
                        disk[q].content # None
                 PROVE  Later(j, q)' \/ (~watching /\ q \in missed')
      BY DEF Notes, Exists, Removes
    <2>1. q \in Removes(queue[j + 1]) /\ j + 1 \in DOMAIN queue
      BY <1>2
    <2>2. Later(j + 1, q) \/ (~watching /\ q \in missed)
      BY <2>1 DEF IInv, Notes, Exists
    <2> QED
      BY <1>2, <2>2
  <1>4. Working'
    BY DEF Working, Exists
  <1>5. Scanning'
    BY DEF Scanning
  <1>6. PresentKept'
    <2> SUFFICES ASSUME NEW q \in Path, q \notin Kept', disk[q].content # None
                 PROVE  recorded'[q] = disk[q].content
      BY DEF PresentKept, Exists, Settled
    <2>1. q \notin Paths(Head(queue))
      BY DEF Exists
    <2>2. rows'[q] = rows[q] /\ recorded'[q] = recorded[q] /\ q \notin missed'
          /\ q \notin reborn /\ q \notin pending /\ q \notin Queued' /\ q \notin Lookalikes'
      BY <2>1 DEF Kept
    <2>3. q \notin Lookalikes
      BY <2>2 DEF Lookalikes
    <2>4. op.path = {}
      BY <1>1 DEF Shape
    <2>5. q \notin Kept
      BY <1>2, <2>1, <2>2, <2>3, <2>4 DEF Kept
    <2> QED
      BY <2>2, <2>5 DEF IInv, PresentKept, Exists, Settled
  <1>7. AbsentKept'
    <2> SUFFICES ASSUME NEW q \in Path, q \notin missed', q \notin reborn',
                        disk[q].content = None, ~Removing(q)'
                 PROVE  recorded'[q] = None
      BY DEF AbsentKept, Exists, Settled
    <2>0. ~RemoverOf(Head(queue), q) /\ q \notin reborn => recorded[q] = None
      BY <1>2 DEF IInv, AbsentKept, Exists, Settled
    <2>1. CASE q \in Paths(Head(queue))
      BY <2>0, <2>1 DEF Exists
    <2>2. CASE q \notin Paths(Head(queue))
      <3>1. ~RemoverOf(Head(queue), q)
        BY <2>2 DEF RemoverOf, Paths
      <3> QED
        BY <2>0, <2>2, <3>1
    <2> QED
      BY <2>1, <2>2
  <1>8. Deleting'
    <2>1. ASSUME NEW q \in Path, rows'[q].live PROVE rows'[q].hash # None
      BY <2>1 DEF IInv, Deleting
    <2>2. ASSUME NEW q \in Path,
                 rows'[q].hash # None \/ op'.found[q].content # None \/ q \in op'.walked
          PROVE  Known(q)'
      BY <2>2 DEF IInv, Deleting, Known, Exists, Shelved
    <2>3. \A j \in DOMAIN queue' : Removes(queue'[j]) \subseteq removed
      BY <1>2 DEF IInv, Deleting
    <2> QED
      BY <2>1, <2>2, <2>3 DEF Deleting, Removes
  <1> QED
    BY <1>3, <1>4, <1>5, <1>6, <1>7, <1>8 DEF IInv

\* What every notification leaves alone, and what is known of its head.
LEMMA ReceiveFacts ==
    ASSUME IInv, Receive
    PROVE  /\ pc = "flush" /\ op.todo = {} /\ queue # <<>> /\ queue' = Tail(queue)
           /\ op.path = {} /\ op.old = {} /\ Head(queue) \in Note
           /\ Head(queue).path \in Path /\ Paths(Head(queue)) \subseteq Path
           /\ queue' \in Seq(Note)
           /\ Removes(Head(queue)) \subseteq removed
           /\ \A q \in Removes(Head(queue)) : Exists(q) => q \in Queued' \cup missed
           /\ UNCHANGED <<disk, shelf, mount, changes, faults, watching, paused, removed>>
  <1>1. TypeOK /\ Shape /\ queue \in Seq(Note)
    BY DEF IInv, TypeOK
  <1>2. pc = "flush" /\ op.todo = {} /\ queue # <<>> /\ queue' = Tail(queue)
        /\ UNCHANGED <<disk, shelf, mount, changes, faults, watching, paused, removed>>
    BY DEF Receive, world
  <1>3. op.path = {} /\ op.old = {}
    BY <1>1, <1>2 DEF Shape
  <1>4. /\ Head(queue) \in Note /\ queue' \in Seq(Note)
        /\ 1 \in DOMAIN queue /\ Head(queue) = queue[1]
        /\ \A q : Later(1, q) => q \in Queued'
    BY <1>1, <1>2, ReceivedNote
  <1>5. Head(queue).path \in Path /\ Paths(Head(queue)) \subseteq Path
    BY <1>4 DEF Note, Paths
  <1>6. Removes(Head(queue)) \subseteq removed
    BY <1>4 DEF IInv, Deleting
  <1>7. \A q \in Removes(Head(queue)) : Exists(q) => q \in Queued' \cup missed
    BY <1>4 DEF IInv, Notes
  <1> QED
    BY <1>2, <1>3, <1>4, <1>5, <1>6, <1>7

\* A notification after which the recorder waits for the next one, whether or
\* not it has recorded a deletion.
LEMMA DoneStep ==
    ASSUME IInv, Receive, Done,
           hot' \subseteq Path, pending' \subseteq Path, due' \subseteq pending',
           paused' => pending' = {},
           missed \subseteq missed', missed' \subseteq Path,
           UNCHANGED <<rows, recorded, reborn, guessed>> \/
             (\E f \in Path : /\ Delete(f)
                              /\ f \in removed \/ mount # "here" \/ ~Exists(f)
                              /\ Paths(Head(queue)) = {f}),
           \A q \in Path \ Paths(Head(queue)) : q \in pending => q \in pending',
           \A q \in Paths(Head(queue)) : Exists(q) => q \in missed' \cup Queued' \cup pending',
           \A q \in Paths(Head(queue)) : RemoverOf(Head(queue), q) /\ ~Exists(q) =>
             q \in missed' \/ Delete(q)
    PROVE  IInv'
  <1>1. TypeOK /\ Shape
    BY DEF IInv
  <1>2. /\ pc = "flush" /\ op.todo = {} /\ queue # <<>> /\ queue' = Tail(queue)
        /\ op.path = {} /\ op.old = {} /\ Paths(Head(queue)) \subseteq Path
        /\ queue' \in Seq(Note)
        /\ UNCHANGED <<disk, shelf, mount, changes, faults, watching, paused, removed>>
    BY ReceiveFacts
  <1>3. pc' = "top" /\ op' = op
    BY DEF Done, Goto
  <1>4. /\ rows' \in [Path -> Row] /\ recorded' \in [Path -> ContentOrNone]
        /\ reborn' \subseteq Path /\ guessed' \subseteq Path
        /\ \A q \in Path \ Paths(Head(queue)) : /\ rows'[q] = rows[q]
                                                /\ recorded'[q] = recorded[q]
                                                /\ q \in reborn => q \in reborn'
        /\ \A q \in Path : rows'[q].hash = rows[q].hash /\ (rows'[q].live => rows[q].live)
        /\ HistoryMatchesRows' /\ DeletionsAreReal'
        /\ \A q \in Paths(Head(queue)) : Delete(q) => q \in reborn' \/ recorded'[q] = None
        /\ \A q \in Paths(Head(queue)) :
             \/ q \in reborn' \/ recorded'[q] = None
             \/ recorded'[q] = recorded[q] /\ q \notin reborn
    <2>1. CASE UNCHANGED <<rows, recorded, reborn, guessed>>
      <3>1. ASSUME NEW q \in Path, Delete(q) PROVE q \in reborn \/ recorded[q] = None
        <4>1. CASE rows[q].live
          <5>1. rows' = [rows EXCEPT ![q].live = FALSE]
            BY <3>1, <4>1 DEF Delete
          <5>2. rows'[q].live = FALSE
            BY <1>1, <5>1 DEF TypeOK, Row
          <5> QED
            BY <2>1, <4>1, <5>2
        <4>2. CASE ~rows[q].live
          BY <4>2 DEF IInv, HistoryMatchesRows
        <4> QED
          BY <4>1, <4>2
      <3>2. HistoryMatchesRows' /\ DeletionsAreReal'
        BY <1>2, <2>1 DEF IInv, HistoryMatchesRows, DeletionsAreReal
      <3> QED
        BY <1>1, <1>2, <2>1, <3>1, <3>2 DEF TypeOK
    <2>2. CASE \E f \in Path : /\ Delete(f)
                               /\ f \in removed \/ mount # "here" \/ ~Exists(f)
                               /\ Paths(Head(queue)) = {f}
      <3>1. PICK f \in Path : /\ Delete(f)
                              /\ f \in removed \/ mount # "here" \/ ~Exists(f)
                              /\ Paths(Head(queue)) = {f}
        BY <2>2
      <3> QED
        BY <1>2, <3>1, DeleteStep
    <2> QED
      BY <2>1, <2>2
  <1>5. TypeOK'
    BY <1>1, <1>2, <1>3, <1>4 DEF TypeOK, Location
  <1>6. Shape'
    BY <1>1, <1>2, <1>3 DEF Shape, Starting
  <1>7. \A q \in Paths(Head(queue)) : Exists(q) => q \in Kept'
    BY DEF Kept
  <1>8. \A q \in Paths(Head(queue)) : ~Exists(q) =>
          \/ q \in missed' \cup reborn' \/ recorded'[q] = None
          \/ /\ recorded'[q] = recorded[q] /\ ~RemoverOf(Head(queue), q)
             /\ q \in reborn => q \in reborn'
    BY <1>4
  <1>9. /\ op'.walked \subseteq op.walked /\ op'.old \subseteq removed
        /\ op'.path = {} /\ op'.old = {}
    BY <1>2, <1>3
  <1> QED
    BY <1>2, <1>3, <1>4, <1>5, <1>6, <1>7, <1>8, <1>9, ReceiveStep

\* A notification whose path is handed to a handler that reads it.
LEMMA CaptureStep ==
    ASSUME IInv, Receive, ~paused, NEW kind \in {"create", "modify", "rename"},
           NEW f \in Path, NEW old \in SUBSET Path,
           Capture(kind, f, old), Seen(f).content # None,
           hot' \subseteq Path, pending' \subseteq Path, due' \subseteq pending',
           Paths(Head(queue)) = {f} \cup old, old \subseteq Removes(Head(queue)),
           \A q \in Path \ Paths(Head(queue)) : q \in pending => q \in pending',
           \A q \in old : ~RemoverOf(Head(queue), q)
    PROVE  IInv'
  <1>1. TypeOK /\ Shape
    BY DEF IInv
  <1>2. /\ pc = "flush" /\ op.todo = {} /\ queue # <<>> /\ queue' = Tail(queue)
        /\ queue' \in Seq(Note)
        /\ Removes(Head(queue)) \subseteq removed
        /\ \A q \in Removes(Head(queue)) : Exists(q) => q \in Queued' \cup missed
        /\ UNCHANGED <<disk, shelf, mount, changes, faults, watching, paused, removed>>
    BY ReceiveFacts
  <1>3. /\ pc' = "work" /\ op' \in Op /\ op'.path = {f} /\ op'.old = old
        /\ op'.todo = {} /\ op'.next = "top" /\ op'.walked = {}
        /\ \A q \in Path : op'.found[q].content = None
        /\ op'.stamp = disk[f].stamp /\ Exists(f)
        /\ UNCHANGED <<rows, recorded, reborn, guessed, missed>>
    BY <1>1, CaptureFields
  <1>4. TypeOK'
    BY <1>1, <1>2, <1>3 DEF TypeOK, Location
  <1>5. Shape'
    BY <1>1, <1>2, <1>3 DEF Shape, Starting
  <1>6. HistoryMatchesRows' /\ DeletionsAreReal'
    BY <1>2, <1>3 DEF IInv, HistoryMatchesRows, DeletionsAreReal
  <1>7. \A q \in Paths(Head(queue)) : Exists(q) => q \in Kept'
    BY <1>2, <1>3 DEF Kept
  <1>8. \A q \in old : Exists(q) => q \in missed' \cup Queued'
    BY <1>2, <1>3
  <1>9. \A q \in op'.path : Exists(q) /\ op'.stamp = disk[q].stamp
    BY <1>3
  <1>10. op'.old \subseteq removed
    BY <1>2, <1>3
  <1>11. \A q \in Paths(Head(queue)) : ~Exists(q) =>
          /\ recorded'[q] = recorded[q] /\ ~RemoverOf(Head(queue), q)
          /\ q \in reborn => q \in reborn'
    BY <1>3
  <1> QED
    BY <1>2, <1>3, <1>4, <1>5, <1>6, <1>7, <1>8, <1>9, <1>10, <1>11, ReceiveStep

LEMMA ReceivePreserves ==
    ASSUME IInv, Receive
    PROVE  IInv'
  <1> USE DEF Forget
  <1>1. TypeOK /\ Shape
    BY DEF IInv
  <1> DEFINE n == Head(queue)
  <1>2. /\ n \in Note /\ n.path \in Path /\ Paths(n) \subseteq Path
        /\ Removes(n) \subseteq removed
        /\ \A q \in Removes(n) : Exists(q) => q \in Queued' \cup missed
        /\ paused' = paused
    BY ReceiveFacts
  <1>3. /\ hot \subseteq Path /\ pending \subseteq Path /\ due \subseteq pending
        /\ missed \subseteq Path /\ paused \in BOOLEAN
        /\ paused => pending = {}
    BY <1>1 DEF TypeOK, Shape
  <1>4. \A q \in Path : /\ Seen(q).content = None /\ Exists(q) => mount # "here"
                        /\ Seen(q).content # None => Exists(q)
    BY DEF Seen, Exists, NoFile
  <1>5. n.kind = "both" => n.old \in Path
    BY <1>2 DEF Note
  <1>6. /\ n.kind # "both" => Paths(n) = {n.path}
        /\ n.kind = "both" => Paths(n) = {n.path, n.old} /\ Removes(n) = {n.old}
        /\ n.kind = "remove" => Removes(n) = {n.path}
        /\ n.kind \in {"create", "modify", "both"} => \A q : ~RemoverOf(n, q)
        /\ \A q : RemoverOf(n, q) => q = n.path
    BY DEF Paths, Removes, RemoverOf
  <1>7. \A paths \in SUBSET Path : /\ mount = "here" => Skipped(paths) = {}
                                   /\ mount # "here" => Skipped(paths) = paths
    BY DEF Skipped
  <1>8. CASE paused
    <2>1. /\ Done /\ missed' = missed \cup Paths(n)
          /\ UNCHANGED <<rows, recorded, reborn, guessed, hot, pending, due>>
      BY <1>8 DEF Receive, history, debouncer
    <2> HIDE DEF n
    <2>2. \A q \in Paths(n) : q \in missed'
      BY <2>1
    <2>3. missed \subseteq missed' /\ missed' \subseteq Path
      BY <1>2, <1>3, <2>1
    <2>4. hot' \subseteq Path /\ pending' \subseteq Path /\ due' \subseteq pending'
      BY <1>3, <2>1
    <2> USE DEF n
    <2> QED
      BY <1>3, <1>8, <2>1, <2>2, <2>3, <2>4, DoneStep
  <1>9. ASSUME ~paused, n.kind \in {"create", "modify"}, Touched(n) PROVE IInv'
    <2>1. CASE Seen(n.path).content = None
      <3>1. /\ Done /\ missed' = missed \cup Skipped({n.path})
            /\ UNCHANGED <<rows, recorded, reborn, guessed, hot, pending, due>>
        BY <1>9, <2>1 DEF Touched, history, debouncer
      <3>2. missed \subseteq missed' /\ missed' \subseteq Path
        BY <1>2, <1>3, <1>7, <3>1
      <3>3. \A q \in Paths(n) : Exists(q) => q \in missed'
        BY <1>2, <1>4, <1>6, <1>7, <1>9, <2>1, <3>1
      <3>4. \A q \in Paths(n) : ~RemoverOf(n, q)
        BY <1>6, <1>9
      <3>5. hot' \subseteq Path /\ pending' \subseteq Path /\ due' \subseteq pending'
        BY <1>3, <3>1
      <3> QED
        BY <1>2, <1>3, <1>9, <3>1, <3>2, <3>3, <3>4, <3>5, DoneStep
    <2>2. CASE Seen(n.path).content # None /\ n.path \in hot
      <3>1. /\ Done /\ missed' = missed /\ hot' = hot
            /\ pending' = pending \cup {n.path} /\ due' = due \ {n.path}
            /\ UNCHANGED <<rows, recorded, reborn, guessed>>
        BY <1>9, <2>2 DEF Touched, Defer, history
      <3>2. hot' \subseteq Path /\ pending' \subseteq Path /\ due' \subseteq pending'
        BY <1>2, <1>3, <3>1
      <3>3. \A q \in Paths(n) : q \in pending' /\ ~RemoverOf(n, q)
        BY <1>6, <1>9, <3>1
      <3>4. \A q \in pending : q \in pending'
        BY <3>1
      <3> QED
        BY <1>2, <1>3, <1>9, <3>1, <3>2, <3>3, <3>4, DoneStep
    <2>3. CASE Seen(n.path).content # None /\ n.path \notin hot
      <3>1. /\ Capture(n.kind, n.path, {}) /\ hot' = hot \cup {n.path}
            /\ pending' = pending \ {n.path} /\ due' = due \ {n.path}
        BY <1>9, <2>3 DEF Touched
      <3>2. hot' \subseteq Path /\ pending' \subseteq Path /\ due' \subseteq pending'
        BY <1>2, <1>3, <3>1
      <3>3. \A q \in Path \ Paths(n) : q \in pending => q \in pending'
        BY <1>6, <1>9, <3>1
      <3>4. Paths(n) = {n.path} \cup {}
        BY <1>6, <1>9
      <3>5. n.kind \in {"create", "modify", "rename"}
        BY <1>9
      <3> QED
        BY <1>2, <1>9, <2>3, <3>1, <3>2, <3>3, <3>4, <3>5, CaptureStep
    <2> QED
      BY <2>1, <2>2, <2>3
  <1>10. ASSUME hot' = hot \ {n.path}, pending' = pending \ {n.path}, due' = due \ {n.path},
                n.kind # "both"
         PROVE  /\ hot' \subseteq Path /\ pending' \subseteq Path /\ due' \subseteq pending'
                /\ \A q \in Path \ Paths(n) : q \in pending => q \in pending'
    BY <1>3, <1>6, <1>10
  <1>11. ASSUME ~paused, n.kind = "remove", Removed(n) PROVE IInv'
    <2>1. Done /\ missed' = missed \cup Skipped({n.path})
      BY <1>11 DEF Removed
    <2>2. missed \subseteq missed' /\ missed' \subseteq Path
      BY <1>2, <1>3, <1>7, <2>1
    <2>3. Paths(n) = {n.path} /\ n.path \in removed
      BY <1>2, <1>6, <1>11
    <2>4. \A q \in Paths(n) : Exists(q) => q \in missed' \cup Queued'
      BY <1>2, <1>6, <1>11, <2>2
    <2>5. CASE RootAccessible
      <3>1. /\ Delete(n.path) /\ hot' = hot \ {n.path}
            /\ pending' = pending \ {n.path} /\ due' = due \ {n.path}
        BY <1>11, <2>5 DEF Removed
      <3>2. /\ hot' \subseteq Path /\ pending' \subseteq Path /\ due' \subseteq pending'
            /\ \A q \in Path \ Paths(n) : q \in pending => q \in pending'
        BY <1>10, <1>11, <3>1
      <3>3. \A q \in Paths(n) : Delete(q)
        BY <2>3, <3>1
      <3> QED
        BY <1>2, <1>11, <2>1, <2>2, <2>3, <2>4, <3>1, <3>2, <3>3, DoneStep
    <2>6. CASE ~RootAccessible
      <3>1. UNCHANGED <<rows, recorded, reborn, guessed, hot, pending, due>>
        BY <1>11, <2>6 DEF Removed, history, debouncer
      <3>2. \A q \in Paths(n) : q \in missed'
        BY <1>2, <1>7, <2>1, <2>3, <2>6 DEF RootAccessible
      <3>3. hot' \subseteq Path /\ pending' \subseteq Path /\ due' \subseteq pending'
        BY <1>3, <3>1
      <3> QED
        BY <1>2, <1>3, <1>11, <2>1, <2>2, <3>1, <3>2, <3>3, DoneStep
    <2> QED
      BY <2>5, <2>6
  <1>12. ASSUME ~paused, n.kind \in {"name", "exchange"}, Seen(n.path).content # None,
                Named(n) \/ Exchanged(n)
         PROVE  IInv'
    <2>1. /\ Capture("modify", n.path, {}) /\ hot' = hot \ {n.path}
          /\ pending' = pending \ {n.path} /\ due' = due \ {n.path}
      BY <1>12 DEF Named, Exchanged
    <2>2. /\ hot' \subseteq Path /\ pending' \subseteq Path /\ due' \subseteq pending'
          /\ \A q \in Path \ Paths(n) : q \in pending => q \in pending'
      BY <1>10, <1>12, <2>1
    <2>3. Paths(n) = {n.path} \cup {}
      BY <1>6, <1>12
    <2> QED
      BY <1>2, <1>12, <2>1, <2>2, <2>3, CaptureStep
  <1>13. ASSUME ~paused, n.kind \in {"name", "exchange"}, Seen(n.path).content = None,
                Named(n) \/ Exchanged(n)
         PROVE  IInv'
    <2>1. /\ Done /\ missed' = missed \cup Skipped({n.path}) /\ hot' = hot \ {n.path}
          /\ pending' = pending \ {n.path} /\ due' = due \ {n.path}
      BY <1>13 DEF Named, Exchanged
    <2>2. /\ hot' \subseteq Path /\ pending' \subseteq Path /\ due' \subseteq pending'
          /\ \A q \in Path \ Paths(n) : q \in pending => q \in pending'
      BY <1>10, <1>13, <2>1
    <2>3. Paths(n) = {n.path}
      BY <1>6, <1>13
    <2>4. missed \subseteq missed' /\ missed' \subseteq Path
      BY <1>2, <1>3, <1>7, <2>1
    <2>5. mount # "here" => n.path \in missed'
      BY <1>2, <1>7, <2>1
    <2>6. mount # "here" \/ ~Exists(n.path)
      BY <1>2, <1>4, <1>13
    <2>7. \A q \in Paths(n) : Exists(q) => q \in missed'
      BY <2>3, <2>5, <2>6
    <2>8. CASE Delete(n.path)
      <3>1. \A q \in Paths(n) : Delete(q)
        BY <2>3, <2>8
      <3> QED
        BY <1>2, <1>13, <2>1, <2>2, <2>3, <2>4, <2>6, <2>7, <2>8, <3>1, DoneStep
    <2>9. CASE ~Delete(n.path)
      <3>1. ~RootAccessible /\ UNCHANGED <<rows, recorded, reborn, guessed>>
        BY <1>13, <2>9 DEF Named, Exchanged, history
      <3>2. \A q \in Paths(n) : q \in missed'
        BY <2>3, <2>5, <3>1 DEF RootAccessible
      <3> QED
        BY <1>2, <1>13, <2>1, <2>2, <2>4, <3>1, <3>2, DoneStep
    <2> QED
      BY <2>8, <2>9
  <1>14. ASSUME ~paused, n.kind = "both", Renamed(n) PROVE IInv'
    <2>1. /\ hot' = hot \ Paths(n) /\ pending' = pending \ Paths(n) /\ due' = due \ Paths(n)
      BY <1>14 DEF Renamed
    <2>2. /\ hot' \subseteq Path /\ pending' \subseteq Path /\ due' \subseteq pending'
          /\ \A q \in Path \ Paths(n) : q \in pending => q \in pending'
      BY <1>3, <2>1
    <2>3. Paths(n) = {n.path, n.old} /\ Removes(n) = {n.old} /\ n.old \in Path
      BY <1>5, <1>6, <1>14
    <2>4. \A q : ~RemoverOf(n, q)
      BY <1>6, <1>14
    <2>5. CASE Seen(n.path).content # None
      <3>1. Capture("rename", n.path, {n.old})
        BY <1>14, <2>5 DEF Renamed
      <3>2. Paths(n) = {n.path} \cup {n.old}
        BY <2>3
      <3> QED
        BY <1>2, <1>14, <2>2, <2>3, <2>4, <2>5, <3>1, <3>2, CaptureStep
    <2>6. CASE Seen(n.path).content = None
      <3>1. /\ Done /\ missed' = missed \cup Skipped(Paths(n))
            /\ UNCHANGED <<rows, recorded, reborn, guessed>>
        BY <1>14, <2>6 DEF Renamed, history
      <3>2. missed \subseteq missed' /\ missed' \subseteq Path
        BY <1>2, <1>3, <1>7, <3>1
      <3>3. Exists(n.path) => n.path \in missed'
        BY <1>2, <1>4, <1>7, <2>3, <2>6, <3>1
      <3>4. Exists(n.old) => n.old \in missed' \cup Queued'
        BY <1>2, <2>3, <3>2
      <3>5. \A q \in Paths(n) : Exists(q) => q \in missed' \cup Queued'
        BY <2>3, <3>3, <3>4
      <3> QED
        BY <1>2, <1>14, <2>2, <2>4, <3>1, <3>2, <3>5, DoneStep
    <2> QED
      BY <2>5, <2>6
  <1>15. CASE ~paused
    <2>1. ProcessEvent(n)
      BY <1>15 DEF Receive
    <2>2. n.kind \in {"create", "modify", "remove", "name", "exchange", "both"}
      BY <1>2 DEF Note
    <2> HIDE DEF n
    <2>3. CASE n.kind \in {"create", "modify"}
      BY <1>9, <1>15, <2>1, <2>3 DEF ProcessEvent
    <2>4. CASE n.kind = "remove"
      BY <1>11, <1>15, <2>1, <2>4 DEF ProcessEvent
    <2>5. CASE n.kind = "name"
      BY <1>12, <1>13, <1>15, <2>1, <2>5 DEF ProcessEvent
    <2>6. CASE n.kind = "exchange"
      BY <1>12, <1>13, <1>15, <2>1, <2>6 DEF ProcessEvent
    <2>7. CASE n.kind = "both"
      BY <1>14, <1>15, <2>1, <2>7 DEF ProcessEvent
    <2> QED
      BY <2>2, <2>3, <2>4, <2>5, <2>6, <2>7
  <1> QED
    BY <1>8, <1>15

-------------------------------------------------------------------------------
(* What the handlers record                                                *)

\* A handler has only changed the rows and states of the given paths; those of
\* them that exist are recorded as they are, or will be looked at again.
Handled(about) ==
    /\ \A q \in Path \ about : /\ rows'[q] = rows[q] /\ recorded'[q] = recorded[q]
                               /\ q \in reborn => q \in reborn'
    /\ \A q \in about :
         /\ Exists(q) => \/ q \in missed' \cup Queued \cup reborn' \cup Lookalikes'
                         \/ recorded'[q] = disk[q].content
         /\ ~Exists(q) =>
              \/ q \in missed' \/ recorded'[q] = None
              \/ recorded'[q] = recorded[q] /\ (q \in reborn => q \in reborn')
         /\ rows'[q].live => rows'[q].hash # None
         /\ rows'[q].hash # None => Known(q)

\* The step with which such a handler ends preserves the invariant.
LEMMA WorkStep ==
    ASSUME IInv, pc = "work", EndWork,
           UNCHANGED <<world, channel, debouncer, paused, removed>>,
           missed \subseteq missed', missed' \subseteq Path,
           rows' \in [Path -> Row], recorded' \in [Path -> ContentOrNone],
           reborn' \subseteq Path, guessed' = guessed,
           HistoryMatchesRows', DeletionsAreReal',
           NEW about \in SUBSET Path, op.path \subseteq about, Handled(about)
    PROVE  IInv'
  <1>1. TypeOK /\ Shape
    BY DEF IInv
  <1>2. op.next \in {"top", "flush", "drain"} /\ op.todo \subseteq Path
    BY <1>1 DEF Shape, TypeOK, Op
  <1>3. pc' = op.next /\ op' \in Fresh(op.next, op.todo)
    BY <1>2, FreshFields DEF EndWork, Goto, Location
  <1>4. UNCHANGED <<disk, shelf, mount, changes, faults, watching, queue, hot, pending, due,
                    paused, removed>>
    BY DEF world, channel, debouncer
  <1>5. /\ op' \in Op /\ op'.path = {} /\ op'.old = {} /\ op'.walked = {} /\ op'.todo = op.todo
        /\ \A q \in Path : op'.found[q].content = None
    BY <1>2, <1>3, FreshKeeps DEF Location
  <1>6. TypeOK'
    BY <1>1, <1>2, <1>3, <1>4, <1>5 DEF TypeOK, Location
  <1>7. Shape'
    BY <1>1, <1>2, <1>3, <1>4, FreshShape DEF Location, Shape
  <1>8. /\ \A q : Removing(q)' = Removing(q)
        /\ Queued' = Queued
        /\ \A j, q : Later(j, q)' = Later(j, q)
    BY <1>4 DEF Removing, Queued, Later
  <1>9. Notes'
    BY <1>4, <1>8 DEF IInv, Notes, Exists
  <1>10. Working' /\ Scanning'
    BY <1>2, <1>3, <1>5 DEF Working, Scanning
  <1>11. PresentKept'
    <2> SUFFICES ASSUME NEW q \in Path, q \notin Kept', disk[q].content # None
                 PROVE  recorded'[q] = disk[q].content
      BY <1>4 DEF PresentKept, Exists, Settled
    <2>1. q \notin missed' \cup Queued \cup reborn' \cup Lookalikes' \cup pending \cup op.todo
      BY <1>2, <1>3, <1>4, <1>5, <1>8 DEF Kept
    <2>2. CASE q \in about
      BY <2>1, <2>2 DEF Exists, Handled
    <2>3. CASE q \notin about
      <3>1. q \notin Lookalikes
        BY <1>4, <2>1, <2>3 DEF Lookalikes, Handled
      <3>2. q \notin Kept
        BY <2>1, <2>3, <3>1 DEF Kept, Handled
      <3> QED
        BY <2>3, <3>2 DEF IInv, PresentKept, Exists, Settled, Handled
    <2> QED
      BY <2>2, <2>3
  <1>12. AbsentKept'
    <2> SUFFICES ASSUME NEW q \in Path, q \notin missed', q \notin reborn',
                        disk[q].content = None, ~Removing(q)
                 PROVE  recorded'[q] = None
      BY <1>4, <1>8 DEF AbsentKept, Exists, Settled
    <2>1. q \notin reborn => recorded[q] = None
      BY DEF IInv, AbsentKept, Exists, Settled
    <2> QED
      BY <2>1 DEF Exists, Handled
  <1>13. Deleting'
    <2>1. ASSUME NEW q \in Path
          PROVE  /\ rows'[q].live => rows'[q].hash # None
                 /\ rows'[q].hash # None => Known(q)
      BY DEF IInv, Deleting, Handled
    <2> QED
      BY <1>2, <1>3, <1>4, <1>5, <2>1 DEF IInv, Deleting, Known, Exists, Shelved, Removes
  <1> QED
    BY <1>6, <1>7, <1>9, <1>10, <1>11, <1>12, <1>13 DEF IInv

LEMMA RecordFilePreserves ==
    ASSUME IInv, NEW f \in Path, RecordFile(f)
    PROVE  IInv'
  <1>1. TypeOK
    BY DEF IInv
  <1>2. rows \in [Path -> Row] /\ recorded \in [Path -> ContentOrNone]
        /\ disk[f] \in File /\ op.stamp \in Stamp
    BY <1>1 DEF TypeOK, Op
  <1> DEFINE unchangedStat == op.kind = "modify" /\ rows[f].live /\ rows[f].stamp = op.stamp
             content == Seen(f).content
             unchangedContent == rows[f].live /\ rows[f].hash = content
  <1>3. /\ pc = "work" /\ op.path = {f} /\ EndWork
        /\ missed' = missed \cup (IF unchangedStat THEN {} ELSE Skipped({f}))
        /\ UNCHANGED <<world, channel, debouncer, paused, removed>>
    BY DEF RecordFile
  <1>4. \/ /\ unchangedStat \/ content = None
           /\ UNCHANGED history
        \/ /\ ~unchangedStat /\ content # None /\ unchangedContent
           /\ rows' = [rows EXCEPT ![f].stamp = op.stamp]
           /\ UNCHANGED <<recorded, reborn, guessed>>
        \/ /\ ~unchangedStat /\ content # None /\ ~unchangedContent
           /\ RecordContent(f, content, op.stamp)
    BY DEF RecordFile
  <1>5. content # None => mount = "here" /\ content = disk[f].content /\ Exists(f)
    BY DEF Seen, NoFile, Exists
  <1>6. content = None => mount # "here" \/ ~Exists(f)
    BY DEF Seen, Exists
  <1>7. content \in ContentOrNone
    BY <1>2 DEF Seen, NoFile, File, ContentOrNone
  <1>8. UNCHANGED <<disk, shelf, removed>>
    BY <1>3 DEF world
  <1>9. (Exists(f) /\ op.stamp = disk[f].stamp) \/ f \in missed \cup Queued
    BY <1>3 DEF IInv, Working
  <1>10. missed \subseteq missed' /\ missed' \subseteq Path
    BY <1>1, <1>3 DEF TypeOK, Skipped
  <1>11. rows[f].live /\ f \notin reborn => recorded[f] = rows[f].hash
    BY DEF IInv, HistoryMatchesRows
  <1> HIDE DEF content
  <1>12. CASE (unchangedStat \/ content = None) /\ UNCHANGED history
    <2>1. UNCHANGED <<rows, recorded, reborn, guessed>>
      BY <1>12 DEF history
    <2>2. HistoryMatchesRows' /\ DeletionsAreReal'
      BY <1>8, <2>1 DEF IInv, HistoryMatchesRows, DeletionsAreReal
    <2>3. Exists(f) => \/ f \in missed' \cup Queued \cup reborn' \cup Lookalikes'
                       \/ recorded'[f] = disk[f].content
      <3>1. CASE unchangedStat
        <4>1. f \in missed \cup Queued \/ rows[f].stamp = disk[f].stamp
          BY <1>9, <3>1
        <4>2. rows[f].hash = disk[f].content \/ f \in Lookalikes' \/ f \in missed \cup Queued
          BY <1>8, <2>1, <3>1, <4>1 DEF Lookalikes
        <4> QED
          BY <1>10, <1>11, <2>1, <3>1, <4>2
      <3>2. CASE ~unchangedStat
        <4>1. mount # "here" \/ ~Exists(f)
          BY <1>6, <1>12, <3>2
        <4>2. mount # "here" => f \in missed'
          BY <1>3, <3>2 DEF Skipped
        <4> QED
          BY <4>1, <4>2
      <3> QED
        BY <3>1, <3>2
    <2>4. /\ rows'[f].live => rows'[f].hash # None
          /\ rows'[f].hash # None => Known(f)
      BY <2>1 DEF IInv, Deleting
    <2>5. {f} \in SUBSET Path /\ reborn' \subseteq Path
      BY <1>1, <2>1 DEF TypeOK
    <2>6. Handled({f})
      BY <2>1, <2>3, <2>4 DEF Handled
    <2> HIDE DEF unchangedStat
    <2> QED
      BY <1>2, <1>3, <1>10, <2>1, <2>2, <2>5, <2>6, WorkStep
  <1>13. CASE /\ ~unchangedStat /\ content # None /\ unchangedContent
              /\ rows' = [rows EXCEPT ![f].stamp = op.stamp]
              /\ UNCHANGED <<recorded, reborn, guessed>>
    <2>1. rows[f].hash = content /\ rows[f].live
      BY <1>13
    <2>2. /\ rows' \in [Path -> Row]
          /\ rows'[f].hash = rows[f].hash /\ rows'[f].live = rows[f].live
          /\ \A q \in Path \ {f} : rows'[q] = rows[q]
      BY <1>2, <1>13 DEF Row
    <2>3. HistoryMatchesRows' /\ DeletionsAreReal'
      BY <1>8, <1>13, <2>2 DEF IInv, HistoryMatchesRows, DeletionsAreReal
    <2>4. Exists(f) /\ (f \in reborn' \/ recorded'[f] = disk[f].content)
      BY <1>5, <1>11, <1>13, <2>1
    <2>5. \A q \in {f} : /\ rows'[q].live => rows'[q].hash # None
                         /\ rows'[q].hash # None => Known(q)
      BY <2>2 DEF IInv, Deleting
    <2>6. {f} \in SUBSET Path /\ reborn' \subseteq Path /\ recorded' \in [Path -> ContentOrNone]
      BY <1>1, <1>13 DEF TypeOK
    <2>7. \A q \in Path \ {f} : /\ rows'[q] = rows[q] /\ recorded'[q] = recorded[q]
                                /\ q \in reborn => q \in reborn'
      BY <1>13, <2>2
    <2>8. \A q \in {f} : Exists(q) /\ (q \in reborn' \/ recorded'[q] = disk[q].content)
      BY <2>4
    <2>9. guessed' = guessed /\ rows' \in [Path -> Row]
      BY <1>13, <2>2
    <2>10. Handled({f})
      BY <2>5, <2>7, <2>8 DEF Handled
    <2> HIDE DEF unchangedStat, unchangedContent
    <2> QED
      BY <1>3, <1>10, <2>3, <2>6, <2>9, <2>10, WorkStep
  <1>14. CASE /\ ~unchangedStat /\ content # None /\ ~unchangedContent
              /\ RecordContent(f, content, op.stamp)
    <2> DEFINE row == [hash |-> content, live |-> TRUE, stamp |-> op.stamp]
    <2>1. /\ recorded' = [recorded EXCEPT ![f] = content] /\ rows' = [rows EXCEPT ![f] = row]
          /\ reborn' = reborn \ {f} /\ guessed' = guessed
      BY <1>14 DEF RecordContent
    <2>2. row \in Row /\ row.hash = content /\ row.live
      BY <1>2, <1>7 DEF Row
    <2> HIDE DEF row
    <2>3. /\ rows' \in [Path -> Row] /\ rows'[f] = row
          /\ \A q \in Path \ {f} : rows'[q] = rows[q]
      BY <1>2, <2>1, <2>2
    <2>4. /\ recorded' \in [Path -> ContentOrNone] /\ recorded'[f] = content
          /\ \A q \in Path \ {f} : recorded'[q] = recorded[q]
      BY <1>2, <1>7, <2>1
    <2>5. HistoryMatchesRows'
      BY <2>1, <2>2, <2>3, <2>4 DEF IInv, HistoryMatchesRows
    <2>6. DeletionsAreReal'
      BY <1>8, <2>1, <2>2, <2>3 DEF IInv, DeletionsAreReal
    <2>7. Exists(f) /\ recorded'[f] = disk[f].content
      BY <1>5, <1>14, <2>4
    <2>8. {f} \in SUBSET Path /\ reborn' \subseteq Path
      BY <1>1, <2>1 DEF TypeOK
    <2>9. \A q \in {f} : /\ rows'[q].live => rows'[q].hash # None
                         /\ rows'[q].hash # None => Known(q)
      BY <1>14, <2>2, <2>3, <2>7 DEF Known
    <2>10. \A q \in Path \ {f} : q \in reborn => q \in reborn'
      BY <2>1
    <2>11. guessed' = guessed
      BY <2>1
    <2>12. Handled({f})
      BY <2>3, <2>4, <2>7, <2>9, <2>10 DEF Handled
    <2> HIDE DEF unchangedStat, unchangedContent
    <2> QED
      BY <1>3, <1>10, <2>3, <2>4, <2>5, <2>6, <2>8, <2>11, <2>12, WorkStep
  <1> HIDE DEF unchangedStat, unchangedContent
  <1> QED
    BY <1>4, <1>12, <1>13, <1>14

LEMMA RecordRenamePreserves ==
    ASSUME IInv, NEW a \in Path, NEW b \in Path, RecordRename(a, b)
    PROVE  IInv'
  <1>1. TypeOK
    BY DEF IInv
  <1>2. rows \in [Path -> Row] /\ recorded \in [Path -> ContentOrNone]
        /\ disk[b] \in File /\ op.stamp \in Stamp
    BY <1>1 DEF TypeOK, Op
  <1> DEFINE content == Seen(b).content
             row == [hash |-> content, live |-> TRUE, stamp |-> op.stamp]
  <1>3. /\ pc = "work" /\ op.path = {b} /\ op.old = {a} /\ EndWork
        /\ missed' = missed \cup Skipped({a, b})
        /\ UNCHANGED <<world, channel, debouncer, paused, removed>>
    BY DEF RecordRename
  <1>4. CASE content = None
    <2>1. UNCHANGED <<rows, recorded, reborn, guessed>>
      BY <1>4 DEF RecordRename, history
    <2>2. mount # "here" \/ ~Exists(b)
      BY <1>4 DEF Seen, Exists
    <2>3. mount # "here" => a \in missed' /\ b \in missed'
      BY <1>3 DEF Skipped
    <2>4. Exists(a) => a \in missed \cup Queued
      BY <1>3 DEF IInv, Working
    <2>5. missed \subseteq missed' /\ missed' \subseteq Path
      BY <1>1, <1>3 DEF TypeOK, Skipped
    <2>6. HistoryMatchesRows' /\ DeletionsAreReal'
      BY <1>3, <2>1 DEF IInv, HistoryMatchesRows, DeletionsAreReal
    <2>7. \A q \in {a, b} : Exists(q) => q \in missed' \cup Queued
      BY <2>2, <2>3, <2>4, <2>5
    <2>8. \A q \in {a, b} : /\ rows'[q].live => rows'[q].hash # None
                            /\ rows'[q].hash # None => Known(q)
      BY <2>1 DEF IInv, Deleting
    <2>9. {a, b} \in SUBSET Path /\ reborn' \subseteq Path
      BY <1>1, <2>1 DEF TypeOK
    <2>10. Handled({a, b})
      BY <2>1, <2>7, <2>8 DEF Handled
    <2> QED
      BY <1>2, <1>3, <2>1, <2>5, <2>6, <2>9, <2>10, WorkStep
  <1>5. CASE content # None
    <2>1. mount = "here" /\ content = disk[b].content /\ Exists(b)
      BY <1>5 DEF Seen, NoFile, Exists
    <2>2. /\ recorded' = [recorded EXCEPT ![a] = None, ![b] = content]
          /\ rows' = [rows EXCEPT ![a].live = FALSE, ![b] = row]
          /\ reborn' = reborn \ {a, b} /\ guessed' = guessed
      BY <1>5 DEF RecordRename, RenamedRows
    <2>3. missed' = missed
      BY <1>3, <2>1 DEF Skipped
    <2>4. row \in Row /\ row.hash = content /\ row.live
      BY <1>2, <2>1 DEF Row, File
    <2>5. content \in ContentOrNone /\ None \in ContentOrNone
      BY <1>2, <2>1 DEF File, ContentOrNone
    <2>6. Exists(a) => a \in missed \cup Queued
      BY <1>3 DEF IInv, Working
    <2>7. a \in removed
      BY <1>3 DEF IInv, Deleting
    <2> HIDE DEF content, row
    <2>8. /\ rows' \in [Path -> Row] /\ rows'[b] = row
          /\ a # b => rows'[a].live = FALSE /\ rows'[a].hash = rows[a].hash
          /\ \A q \in Path \ {a, b} : rows'[q] = rows[q]
      BY <1>2, <2>2, <2>4 DEF Row
    <2>9. /\ recorded' \in [Path -> ContentOrNone] /\ recorded'[b] = content
          /\ a # b => recorded'[a] = None
          /\ \A q \in Path \ {a, b} : recorded'[q] = recorded[q]
      BY <1>2, <2>2, <2>5
    <2>10. HistoryMatchesRows'
      BY <2>2, <2>4, <2>8, <2>9 DEF IInv, HistoryMatchesRows
    <2>11. DeletionsAreReal'
      BY <1>3, <2>2, <2>4, <2>7, <2>8 DEF IInv, DeletionsAreReal
    <2>12. \A q \in {a, b} : Exists(q) => \/ q \in missed' \cup Queued
                                          \/ recorded'[q] = disk[q].content
      BY <2>1, <2>3, <2>6, <2>9
    <2>13. \A q \in {a, b} : ~Exists(q) => recorded'[q] = None
      BY <2>1, <2>9
    <2>14. \A q \in {a, b} : /\ rows'[q].live => rows'[q].hash # None
                             /\ rows'[q].hash # None => Known(q)
      BY <1>5, <2>1, <2>4, <2>7, <2>8 DEF Known
    <2>15. {a, b} \in SUBSET Path /\ reborn' \subseteq Path /\ missed' \subseteq Path
      BY <1>1, <2>2, <2>3 DEF TypeOK
    <2>16. \A q \in Path \ {a, b} : q \in reborn => q \in reborn'
      BY <2>2
    <2>17. Handled({a, b})
      BY <2>8, <2>9, <2>12, <2>13, <2>14, <2>16 DEF Handled
    <2> QED
      BY <1>3, <2>2, <2>3, <2>8, <2>9, <2>10, <2>11, <2>15, <2>17, WorkStep
  <1> QED
    BY <1>4, <1>5

-------------------------------------------------------------------------------
(* The theorems                                                            *)

\* Every step of the recorder and of its surroundings preserves the invariant.
LEMMA NextPreserves ==
    ASSUME IInv, [Next]_vars
    PROVE  IInv'
  <1>1. CASE User
    BY <1>1, UserPreserves
  <1>2. CASE Start \/ HealthCheck
    BY <1>2, StartPreserves, PausePreserves, ResumePreserves DEF HealthCheck
  <1>3. CASE Scan
    BY <1>3, WalkPreserves, ReadFilePreserves, CommitScanPreserves, BeginWatchPreserves DEF Scan
  <1>4. CASE Loop
    BY <1>4, BeginFlushPreserves, FlushOnePreserves, ReceivePreserves, TimeoutPreserves,
       EndDrainPreserves DEF Loop
  <1>5. CASE Work
    BY <1>5, RecordFilePreserves, RecordRenamePreserves DEF Work
  <1>6. CASE Failure
    BY <1>6, AsidePreserves, InterruptedWalkPreserves, HandlerFailsPreserves, CrashPreserves,
       BeginDrainPreserves DEF Failure
  <1>7. CASE (\E q \in Path : Cool(q) \/ QuietPasses(q)) \/ MountReturns
    BY <1>7, AsidePreserves
  <1>8. CASE UNCHANGED vars
    <2>1. /\ UNCHANGED <<disk, shelf, mount, changes, faults, watching, queue, rows, recorded,
                         reborn, guessed, hot, pending, due>>
          /\ UNCHANGED <<pc, op, paused, missed, removed>>
      BY <1>8 DEF vars, world, channel, history, debouncer
    <2>2. TypeOK'
      BY <2>1 DEF IInv, TypeOK
    <2> QED
      BY <2>1, <2>2, AsideStep
  <1> QED
    BY <1>1, <1>2, <1>3, <1>4, <1>5, <1>6, <1>7, <1>8 DEF Next, Recording

\* The recorder's own state, its notifications and the history fit together at
\* every moment.
THEOREM Invariance == Spec => []IInv
  <1>1. Init => IInv
    BY InitEstablishes
  <1>2. IInv /\ [Next]_vars => IInv'
    BY NextPreserves
  <1> QED
    BY <1>1, <1>2, PTL DEF Spec

\* Every variable keeps its type: what the handlers, the debouncer and the scan
\* leave behind is always a row, a notification or a location of the program.
THEOREM TypeCorrect == Spec => []TypeOK
  <1>1. IInv => TypeOK
    BY DEF IInv
  <1> QED
    BY <1>1, Invariance, PTL

\* file_state and file_events agree on every path, except for files a scan
\* brought back without an event.
THEOREM RowsAgree == Spec => []HistoryMatchesRows
  <1>1. IInv => HistoryMatchesRows
    BY DEF IInv
  <1> QED
    BY <1>1, Invariance, PTL

\* No outage and no other filesystem at the root, however it falls between the
\* steps of the recorder, is recorded as a deletion, apart from the guesses the
\* code makes.
THEOREM DeletionsReal == Spec => []DeletionsAreReal
  <1>1. IInv => DeletionsAreReal
    BY DEF IInv
  <1> QED
    BY <1>1, Invariance, PTL

\* Between the channel, the debouncer, the scan and the database no reported
\* change is lost: the history of a path that nothing is still to look at
\* ends with what is on disk, unless its stat hides the change.
THEOREM ChangesKept == Spec => []NothingForgotten
  <1>1. IInv => NothingForgotten
    <2> SUFFICES ASSUME IInv, NEW q \in Path \ (missed \cup reborn \cup Outstanding \cup Lookalikes)
                 PROVE  Settled(q)
      BY DEF NothingForgotten
    <2>1. CASE Exists(q)
      <3>1. q \notin Kept
        BY DEF Outstanding, Kept
      <3> QED
        BY <2>1, <3>1 DEF IInv, PresentKept
    <2>2. CASE ~Exists(q)
      <3>1. ~Removing(q)
        BY RemovingQueued DEF Outstanding
      <3>2. pc = "scan" => q \notin Gone
        BY DEF Outstanding
      <3> QED
        BY <2>2, <3>1, <3>2 DEF IInv, AbsentKept
    <2> QED
      BY <2>1, <2>2
  <1> QED
    BY <1>1, Invariance, PTL

===============================================================================

---------------------------- MODULE History_proofs ----------------------------
(***************************************************************************)
(* Proofs about History and its readers, for any files, contents, Runs,    *)
(* clocks and any number of events: what the history shows of a path at a  *)
(* boundary is what the path was, unless a scan changed it silently or the *)
(* only event left misleads; and what restoring and undoing make of it.    *)
(***************************************************************************)
EXTENDS Groups, Previews, Timeline, FiniteSetTheorems, SequenceTheorems, WellFoundedInduction, TLAPS

-------------------------------------------------------------------------------
(* The inductive invariant.                                                *)

\* Whatever is left in the history, silent changes and Runs refer to ids that
\* were given out.
RunsUpTo(n) ==
    [Run -> [mode: {"none", "window", "reported"}, start: 0..n,
             end: {None} \cup (0..n), claims: SUBSET (1..n)]]
Bounded ==
    /\ \A id \in 0..last : past[id] \in States
    /\ silent \subseteq Path \X (0..last)
    /\ runs \in RunsUpTo(last)

\* Retention leaves no gap after the greatest id it dropped.
Gapless == \A id \in Nat : pruned < id /\ id <= last => id \in Ids

\* An event shows what its paths are after it.
Shows(id) ==
    /\ IF log[id].kind = "DELETED" THEN past[id][log[id].path] = None
       ELSE log[id].hash \in Value /\ past[id][log[id].path] = log[id].hash
    /\ IF log[id].old = None THEN log[id].kind # "RENAMED"
       ELSE log[id].kind = "RENAMED" /\ log[id].old # log[id].path /\ past[id][log[id].old] = None
    /\ log[id].time # 0

\* A scan changed p silently before event id, and no event left, between
\* that scan and id, is about p.
Hushed(p, id) ==
    \E s \in 0..(id - 1) : <<p, s>> \in silent
                           /\ \A j \in Ids : s < j /\ j <= id => ~Touches(j, p)
Hidden(p) == Hushed(p, last + 1)

\* What an event is not about stays, unless a scan changed it silently.
Stays(id, p) == Touches(id, p) \/ past[id][p] = past[id - 1][p] \/ Hushed(p, id)

\* A scan changed p silently before event id, and no event left in between is
\* about p.
SilentBefore(id, p) ==
    \E s \in 0..(id - 1) : <<p, s>> \in silent
                           /\ \A j \in Ids : s < j /\ j < id => ~Touches(j, p)

\* What an event says of a path before it.
Tells(id, p) ==
    Touches(id, p) =>
        \/ SilentBefore(id, p)
        \/ /\ SourceBefore(id, p) = past[id - 1][p] \/ Misleading(id, p)
           /\ ShowsPresence(id, p) => log[id].prev # None

\* The row of a path agrees with the last boundary, and with the file while
\* the recorder is up.
Linked(p) ==
    /\ past[last][p] = Latest(p) \/ Hidden(p)
    /\ up => files[p] = Latest(p) \/ Hidden(p)

\* A content that a row keeps, or that a deletion took away, was once there.
Once(p, hash) == \E i \in 0..last : past[i][p] = hash
Remembered(p) == rows[p] # None => Once(p, rows[p].hash)
TookAway(id) ==
    log[id].kind = "DELETED" /\ log[id].prev # None => Once(log[id].path, log[id].prev)

\* Only a path with a row changes silently.
Rowed == \A s \in silent : rows[s[1]] # None

\* As long as the clock has not stepped back, times grow with the ids and
\* retention drops the oldest events.
Timely ==
    slips = 0 =>
        /\ \A id \in Ids : log[id].time <= now /\ pruned < id
        /\ \A i, j \in Ids : i < j => log[i].time <= log[j].time

HistoryInv ==
    /\ TypeOK
    /\ Bounded
    /\ Gapless
    /\ \A id \in Ids : Shows(id) /\ TookAway(id)
    /\ \A id \in Ids, p \in Path : Stays(id, p) /\ Tells(id, p)
    /\ \A p \in Path : Linked(p) /\ Remembered(p)
    /\ Rowed
    /\ Timely

-------------------------------------------------------------------------------
(* Arithmetic and extremes.                                                *)

\* A nonempty set of natural numbers has a least element.
LEMMA LeastOf ==
    ASSUME NEW S \in SUBSET Nat, S # {}
    PROVE  \E x \in S : \A y \in S : x <= y
  <1> DEFINE Less == {ss \in Nat \X Nat : ss[1] < ss[2]}
  <1>1. IsWellFoundedOn(Less, Nat)
    BY NatLessThanWellFounded DEF OpToRel
  <1> HIDE DEF Less
  <1>2. PICK x \in S : \A y \in S : <<y, x>> \notin Less
    BY <1>1, WFMin
  <1>3. ASSUME NEW y \in S PROVE x <= y
    <2>1. x \in Nat /\ y \in Nat /\ (y < x => <<y, x>> \in Less)
      BY DEF Less
    <2> QED
      BY <1>2, <2>1
  <1> QED
    BY <1>3

LEMMA MinIsLeast ==
    ASSUME NEW S \in SUBSET Nat, S # {}
    PROVE  Min(S) \in S /\ \A y \in S : Min(S) <= y
  <1>1. PICK x \in S : \A y \in S : x <= y
    BY LeastOf
  <1> QED
    BY <1>1 DEF Min

\* A bounded set of natural numbers has a greatest element: the least of the
\* bounds.
LEMMA MaxIsGreatest ==
    ASSUME NEW S \in SUBSET Nat, S # {}, NEW b \in Nat, \A x \in S : x <= b
    PROVE  Max(S) \in S /\ \A y \in S : y <= Max(S)
  <1> DEFINE Bounds == {k \in Nat : \A x \in S : x <= k}
  <1>1. PICK least \in Bounds : \A k \in Bounds : least <= k
    <2>1. Bounds \in SUBSET Nat /\ Bounds # {}
      OBVIOUS
    <2> HIDE DEF Bounds
    <2> QED
      BY <2>1, LeastOf
  <1>2. least \in S
    <2> SUFFICES ASSUME least \notin S PROVE FALSE
      OBVIOUS
    <2>1. PICK x \in S : TRUE
      OBVIOUS
    <2>2. least \in Nat /\ \A y \in S : y <= least
      BY <1>1
    <2>3. least # 0
      BY <2>1, <2>2
    <2>4. least - 1 \in Nat /\ \A y \in S : y <= least - 1
      BY <2>2, <2>3
    <2>5. least - 1 \in Bounds
      BY <2>4
    <2> QED
      BY <1>1, <2>2, <2>5
  <1>3. \E k \in S : \A y \in S : k >= y
    <2>1. \A y \in S : least >= y
      BY <1>1
    <2> QED
      BY <1>2, <2>1
  <1> HIDE DEF Bounds
  <1> QED
    BY <1>3 DEF Max

\* Every element of a finite set is in each of its sequences, once.
LEMMA SequenceOfAll ==
    ASSUME NEW S, IsFiniteSet(S), NEW f \in SetToSeqs(S)
    PROVE  /\ Cardinality(S) \in Nat
           /\ f \in [1..Cardinality(S) -> S]
           /\ f \in Seq(S) /\ Len(f) = Cardinality(S)
           /\ \A i, j \in 1..Cardinality(S) : i # j => f[i] # f[j]
           /\ \A x \in S : \E i \in 1..Cardinality(S) : f[i] = x
  <1> DEFINE n == Cardinality(S)
  <1>1. n \in Nat
    BY FS_CardinalityType
  <1>2. f \in [1..n -> S] /\ \A i, j \in 1..n : i # j => f[i] # f[j]
    BY DEF SetToSeqs
  <1>3. f \in Injection(1..n, S)
    BY <1>2 DEF Injection, IsInjective
  <1>4. IsFiniteSet(1..n) /\ Cardinality(1..n) = n
    BY <1>1, FS_Interval
  <1>5. f \in Surjection(1..n, S)
    BY <1>3, <1>4, FS_Injection
  <1>6. \A x \in S : \E i \in 1..n : f[i] = x
    BY <1>5 DEF Surjection
  <1>7. f \in Seq(S) /\ Len(f) = n
    BY <1>1, <1>2
  <1> QED
    BY <1>1, <1>2, <1>6, <1>7

-------------------------------------------------------------------------------
(* What the tables say.                                                    *)

\* The types, for the provers.
LEMMA Typed ==
    ASSUME HistoryInv
    PROVE  /\ files \in [Path -> Value \cup {None}]
           /\ up \in BOOLEAN
           /\ rows \in [Path -> {None} \cup [hash: Value, exists: BOOLEAN]]
           /\ last \in Nat /\ pruned \in Nat /\ pruned <= last
           /\ now \in Nat /\ now # 0 /\ slips \in Nat
           /\ Ids \subseteq 1..last
           /\ \A id \in Ids : /\ log[id] \in Event /\ log[id].path \in Path
                              /\ log[id].old \in Path \cup {None}
                              /\ log[id].time \in Nat
           /\ DOMAIN past = 0..last
           /\ \A id \in 0..last : past[id] \in [Path -> Value \cup {None}]
           /\ None \notin Path /\ None \notin Value
           /\ None \notin [hash: Value, exists: BOOLEAN]
  <1>1. TypeOK /\ Bounded
    BY DEF HistoryInv
  <1>2. last \in Nat /\ pruned \in Nat /\ pruned <= last /\ now \in Nat /\ now # 0 /\ slips \in Nat
    BY <1>1, HistoryConstants DEF TypeOK
  <1>3. ASSUME NEW id \in Ids
        PROVE  /\ log[id] \in Event /\ log[id].path \in Path
               /\ log[id].old \in Path \cup {None} /\ log[id].time \in Nat
    BY <1>1 DEF TypeOK, Ids, Event
  <1>4. /\ files \in [Path -> Value \cup {None}] /\ up \in BOOLEAN
        /\ rows \in [Path -> {None} \cup [hash: Value, exists: BOOLEAN]]
        /\ Ids \subseteq 1..last /\ DOMAIN past = 0..last
    BY <1>1 DEF TypeOK, States, Ids
  <1>5. \A id \in 0..last : past[id] \in [Path -> Value \cup {None}]
    BY <1>1 DEF Bounded, States
  <1>6. None \notin Path /\ None \notin Value /\ None \notin [hash: Value, exists: BOOLEAN]
    BY HistoryConstants
  <1> QED
    BY <1>2, <1>3, <1>4, <1>5, <1>6

\* A row says that a path is there, with a content, or that it is not.
LEMMA LatestIs ==
    ASSUME HistoryInv, NEW p \in Path
    PROVE  /\ Exists(p) => rows[p] # None /\ Latest(p) = rows[p].hash /\ Latest(p) \in Value
           /\ ~Exists(p) => Latest(p) = None
           /\ Latest(p) \in Value \cup {None}
           /\ Latest(p) # None => Exists(p)
           /\ rows[p] # None => rows[p].hash \in Value /\ rows[p].exists \in BOOLEAN
           /\ None \notin Value
  BY Typed DEF Exists, Latest

\* The row of a file that is there.
LEMMA RowIs ==
    ASSUME HistoryInv, NEW p \in Path, NEW c \in Value, rows'[p] = Row(c, TRUE)
    PROVE  Latest(p)' = c /\ rows'[p] # None /\ rows'[p].hash = c
  <1>1. Row(c, TRUE) \in [hash: Value, exists: BOOLEAN]
    BY DEF Row
  <1>2. Row(c, TRUE) # None /\ Row(c, TRUE).hash = c /\ Row(c, TRUE).exists = TRUE
    BY <1>1, HistoryConstants DEF Row
  <1> QED
    BY <1>2 DEF Latest, Exists

\* The row of a file that is gone.
LEMMA GoneIs ==
    ASSUME HistoryInv, NEW p \in Path, rows[p] # None, rows'[p] = Gone(p)
    PROVE  Latest(p)' = None /\ rows'[p] # None /\ rows'[p].hash = rows[p].hash
  <1>1. rows[p] \in [hash: Value, exists: BOOLEAN]
    BY Typed
  <1>2. Gone(p) \in [hash: Value, exists: BOOLEAN] /\ Gone(p).exists = FALSE /\ Gone(p).hash = rows[p].hash
    BY <1>1 DEF Gone
  <1> QED
    BY <1>2, HistoryConstants DEF Latest, Exists

-------------------------------------------------------------------------------
(* What every commit does.                                                 *)

\* Events get the next ids, and what was recorded stays; a scan may have
\* changed something silently.
Extends ==
    /\ last' \in Nat /\ last <= last'
    /\ Ids' = Ids \cup (last + 1)..last'
    /\ \A id \in Ids : log'[id] = log[id]
    /\ DOMAIN past' = 0..last'
    /\ \A id \in 0..last : past'[id] = past[id]
    /\ silent \subseteq silent'
    /\ silent' \subseteq Path \X (0..last)

\* What is shown and told by an event of a commit.
Sound(id) ==
    /\ log'[id] \in Event /\ log'[id].time = now
    /\ past'[id] \in States
    /\ Shows(id)' /\ TookAway(id)'
    /\ \A p \in Path : Stays(id, p)' /\ Tells(id, p)'

\* Since when a silent change is the last thing that happened to a path.
LEMMA HiddenSince ==
    ASSUME HistoryInv, NEW p \in Path, Hidden(p)
    PROVE  \E s \in 0..last : <<p, s>> \in silent
                             /\ \A j \in Ids : s < j /\ j <= last + 1 => ~Touches(j, p)
  <1>1. last \in Nat /\ (last + 1) - 1 = last
    BY Typed
  <1> QED
    BY <1>1 DEF Hidden, Hushed

\* A silent change that no later event is about goes on being one, up to the
\* first new event about its path.
LEMMA HushedOn ==
    ASSUME HistoryInv, Extends, NEW p \in Path, Hidden(p),
           NEW id \in Nat, last < id,
           \A j \in (last + 1)..last' : j <= id => ~Touches(j, p)'
    PROVE  Hushed(p, id)'
  <1>1. PICK s \in 0..last : <<p, s>> \in silent
                             /\ \A j \in Ids : s < j /\ j <= last + 1 => ~Touches(j, p)
    BY HiddenSince
  <1>2. <<p, s>> \in silent' /\ s \in 0..(id - 1)
    BY <1>1, Typed DEF Extends
  <1>3. ASSUME NEW j \in Ids', s < j, j <= id PROVE ~Touches(j, p)'
    <2>1. CASE j \in Ids
      <3>1. j <= last + 1 /\ log'[j] = log[j]
        BY <2>1, Typed DEF Extends
      <3>2. ~Touches(j, p)
        BY <1>1, <1>3, <2>1, <3>1
      <3> QED
        BY <3>1, <3>2 DEF Touches
    <2>2. CASE j \in (last + 1)..last'
      BY <1>3, <2>2
    <2> QED
      BY <1>3, <2>1, <2>2 DEF Extends
  <1> QED
    BY <1>2, <1>3 DEF Hushed

LEMMA SilentBeforeOn ==
    ASSUME HistoryInv, Extends, NEW p \in Path, Hidden(p),
           NEW id \in Nat, last < id,
           \A j \in (last + 1)..last' : j < id => ~Touches(j, p)'
    PROVE  SilentBefore(id, p)'
  <1>1. PICK s \in 0..last : <<p, s>> \in silent
                             /\ \A j \in Ids : s < j /\ j <= last + 1 => ~Touches(j, p)
    BY HiddenSince
  <1>2. <<p, s>> \in silent' /\ s \in 0..(id - 1)
    BY <1>1, Typed DEF Extends
  <1>3. ASSUME NEW j \in Ids', s < j, j < id PROVE ~Touches(j, p)'
    <2>1. CASE j \in Ids
      <3>1. j <= last + 1 /\ log'[j] = log[j]
        BY <2>1, Typed DEF Extends
      <3>2. ~Touches(j, p)
        BY <1>1, <1>3, <2>1, <3>1
      <3> QED
        BY <3>1, <3>2 DEF Touches
    <2>2. CASE j \in (last + 1)..last'
      BY <1>3, <2>2
    <2> QED
      BY <1>3, <2>1, <2>2 DEF Extends
  <1> QED
    BY <1>2, <1>3 DEF SilentBefore

\* What was once there is remembered to have been.
LEMMA OnceOn ==
    ASSUME HistoryInv, Extends, NEW p \in Path, NEW hash, Once(p, hash)
    PROVE  \E i \in 0..last' : past'[i][p] = hash
  <1>1. PICK i \in 0..last : past[i][p] = hash
    BY DEF Once
  <1>2. i \in 0..last' /\ past'[i] = past[i]
    BY <1>1, Typed DEF Extends
  <1> QED
    BY <1>1, <1>2

LEMMA StillHidden ==
    ASSUME HistoryInv, Extends, NEW p \in Path, Hidden(p),
           \A j \in (last + 1)..last' : ~Touches(j, p)'
    PROVE  Hidden(p)'
  <1>1. last \in Nat /\ last' \in Nat /\ last <= last'
    BY Typed DEF Extends
  <1>2. PICK top \in Nat : top = last'
    BY <1>1
  <1>30. last <= top /\ last \in Nat
    BY <1>1, <1>2
  <1>3. top + 1 \in Nat /\ last < top + 1
    BY <1>30
  <1>4. Hushed(p, top + 1)'
    BY <1>3, HushedOn
  <1> QED
    BY <1>2, <1>4 DEF Hidden, Hushed

\* What is known of the events that were there is not lost.
LEMMA OldStay ==
    ASSUME HistoryInv, Extends, NEW id \in Ids, NEW p \in Path
    PROVE  Shows(id)' /\ TookAway(id)' /\ Stays(id, p)' /\ Tells(id, p)'
  <1>1. /\ id \in 1..last /\ id - 1 \in 0..last /\ id \in 0..last
        /\ log'[id] = log[id] /\ past'[id] = past[id] /\ past'[id - 1] = past[id - 1]
    <2>1. id \in 1..last /\ last \in Nat
      BY Typed
    <2>2. id - 1 \in 0..last /\ id \in 0..last
      BY <2>1
    <2> QED
      BY <2>1, <2>2 DEF Extends
  <1>2. Shows(id) /\ Stays(id, p) /\ Tells(id, p)
    BY DEF HistoryInv
  <1>3. Shows(id)'
    BY <1>1, <1>2 DEF Shows
  <1>4. Touches(id, p)' <=> Touches(id, p)
    BY <1>1 DEF Touches
  <1>5. ASSUME Hushed(p, id) PROVE Hushed(p, id)'
    <2>1. PICK s \in 0..(id - 1) : <<p, s>> \in silent
                                   /\ \A j \in Ids : s < j /\ j <= id => ~Touches(j, p)
      BY <1>5 DEF Hushed
    <2>2. <<p, s>> \in silent'
      BY <2>1 DEF Extends
    <2>3. ASSUME NEW j \in Ids', s < j, j <= id PROVE ~Touches(j, p)'
      <3>1. j \in Ids
        BY <1>1, <2>3, Typed DEF Extends
      <3>2. log'[j] = log[j] /\ ~Touches(j, p)
        BY <2>1, <2>3, <3>1 DEF Extends
      <3> QED
        BY <3>2 DEF Touches
    <2> QED
      BY <2>2, <2>3 DEF Hushed
  <1>6. Stays(id, p)'
    BY <1>1, <1>2, <1>4, <1>5 DEF Stays
  <1>7. ASSUME SilentBefore(id, p) PROVE SilentBefore(id, p)'
    <2>1. PICK s \in 0..(id - 1) : <<p, s>> \in silent
                                   /\ \A j \in Ids : s < j /\ j < id => ~Touches(j, p)
      BY <1>7 DEF SilentBefore
    <2>2. <<p, s>> \in silent'
      BY <2>1 DEF Extends
    <2>3. ASSUME NEW j \in Ids', s < j, j < id PROVE ~Touches(j, p)'
      <3>1. j \in Ids
        BY <1>1, <2>3, Typed DEF Extends
      <3>2. log'[j] = log[j] /\ ~Touches(j, p)
        BY <2>1, <2>3, <3>1 DEF Extends
      <3> QED
        BY <3>2 DEF Touches
    <2> QED
      BY <2>2, <2>3 DEF SilentBefore
  <1>8. SourceBefore(id, p)' = SourceBefore(id, p) /\ (ShowsPresence(id, p)' <=> ShowsPresence(id, p))
        /\ (Misleading(id, p)' <=> Misleading(id, p))
    BY <1>1 DEF SourceBefore, ShowsPresence, Misleading
  <1>9. Tells(id, p)'
    BY <1>1, <1>2, <1>4, <1>7, <1>8 DEF Tells
  <1>10. TookAway(id)'
    <2>1. TookAway(id) /\ log[id].path \in Path
      BY Typed DEF HistoryInv
    <2>2. CASE log[id].kind = "DELETED" /\ log[id].prev # None
      <3>1. Once(log[id].path, log[id].prev)
        BY <2>1, <2>2 DEF TookAway
      <3>2. \E i \in 0..last' : past'[i][log[id].path] = log[id].prev
        BY <2>1, <3>1, OnceOn
      <3> QED
        BY <1>1, <3>2 DEF TookAway, Once
    <2>3. CASE ~(log[id].kind = "DELETED" /\ log[id].prev # None)
      BY <1>1, <2>3 DEF TookAway
    <2> QED
      BY <2>2, <2>3
  <1> QED
    BY <1>3, <1>6, <1>9, <1>10

\* A commit of sound events keeps what is said of the history.
LEMMA CommitKeeps ==
    ASSUME HistoryInv, Extends, pruned' = pruned, slips' = slips, now' = now, runs' = runs,
           \A id \in (last + 1)..last' : Sound(id)
    PROVE  Bounded' /\ Gapless' /\ Timely'
           /\ (\A id \in Ids : Shows(id) /\ TookAway(id))'
           /\ (\A id \in Ids, p \in Path : Stays(id, p) /\ Tells(id, p))'
  <1>1. /\ last \in Nat /\ last' \in Nat /\ last <= last'
        /\ Ids' = Ids \cup (last + 1)..last' /\ Ids \subseteq 1..last
    BY Typed DEF Extends
  <1>2. Bounded /\ Gapless /\ Timely
    BY DEF HistoryInv
  <1>3. Bounded'
    <2>1. ASSUME NEW id \in 0..last' PROVE past'[id] \in States
      <3>1. CASE id \in 0..last
        BY <1>2, <3>1 DEF Bounded, Extends
      <3>2. CASE id \in (last + 1)..last'
        BY <3>2 DEF Sound
      <3> QED
        BY <1>1, <2>1, <3>1, <3>2
    <2>2. silent' \subseteq Path \X (0..last')
      BY <1>1 DEF Extends
    <2>3. runs' \in RunsUpTo(last')
      <3>1. runs' \in RunsUpTo(last)
        BY <1>2 DEF Bounded
      <3>2. 0..last \subseteq 0..last' /\ 1..last \subseteq 1..last'
        BY <1>1
      <3> QED
        BY <3>1, <3>2 DEF RunsUpTo
    <2>4. (States)' = States
      BY DEF States
    <2> QED
      BY <2>1, <2>2, <2>3, <2>4 DEF Bounded
  <1>4. Gapless'
    BY <1>1, <1>2 DEF Gapless
  <1>5. Timely'
    <2> SUFFICES ASSUME slips = 0
                 PROVE  /\ \A id \in Ids' : log'[id].time <= now /\ pruned < id
                        /\ \A i, j \in Ids' : i < j => log'[i].time <= log'[j].time
      BY DEF Timely
    <2>1. ASSUME NEW id \in Ids'
          PROVE  /\ log'[id].time <= now /\ pruned < id
                 /\ id \in Ids => log'[id] = log[id]
                 /\ id \notin Ids => log'[id].time = now /\ id \in (last + 1)..last'
      <3>1. CASE id \in Ids
        BY <1>2, <3>1 DEF Timely, Extends
      <3>2. CASE id \in (last + 1)..last'
        BY <1>1, <3>2, Typed DEF Sound
      <3> QED
        BY <1>1, <3>1, <3>2
    <2>2. ASSUME NEW i \in Ids', NEW j \in Ids', i < j PROVE log'[i].time <= log'[j].time
      <3>1. CASE j \notin Ids
        BY <2>1, <3>1
      <3>2. CASE j \in Ids
        <4>1. i \in Ids
          <5>1. j \in 1..last
            BY <1>1, <3>2
          <5> QED
            BY <1>1, <2>1, <2>2, <5>1
        <4> QED
          BY <1>2, <2>1, <2>2, <3>2, <4>1 DEF Timely
      <3> QED
        BY <3>1, <3>2
    <2> QED
      BY <2>1, <2>2
  <1>6. ASSUME NEW id \in Ids'
        PROVE  Shows(id)' /\ TookAway(id)' /\ \A p \in Path : Stays(id, p)' /\ Tells(id, p)'
    <2>1. CASE id \in Ids
      <3>1. ASSUME NEW p \in Path PROVE Stays(id, p)' /\ Tells(id, p)' /\ Shows(id)' /\ TookAway(id)'
        BY <2>1, OldStay
      <3>2. Shows(id)' /\ TookAway(id)'
        <4>1. Shows(id) /\ log[id].path \in Path
          BY <2>1, Typed DEF HistoryInv
        <4> QED
          BY <3>1, <4>1
      <3> QED
        BY <3>1, <3>2
    <2>2. CASE id \in (last + 1)..last'
      BY <2>2 DEF Sound
    <2> QED
      BY <1>1, <2>1, <2>2
  <1> QED
    BY <1>3, <1>4, <1>5, <1>6

\* The sequence of events and trees of a commit.
LEMMA CommitExtends ==
    ASSUME HistoryInv, NEW events \in Seq(Event), NEW then \in Seq(States), Len(then) = Len(events),
           Commit(events, then), silent \subseteq silent', silent' \subseteq Path \X (0..last)
    PROVE  /\ Extends
           /\ last' = last + Len(events) /\ last' <= MaxEvents
           /\ \A n \in 1..Len(events) : log'[last + n] = events[n] /\ past'[last + n] = then[n]
  <1>1. Len(events) \in Nat /\ last \in Nat /\ Ids \subseteq 1..last
    BY Typed
  <1>2. /\ last' = last + Len(events) /\ last' <= MaxEvents
        /\ log' = [id \in Ids \cup (last + 1)..last' |->
                     IF id <= last THEN log[id] ELSE events[id - last]]
        /\ past' = [id \in 0..last' |-> IF id <= last THEN past[id] ELSE then[id - last]]
    BY DEF Commit
  <1>3. Ids' = Ids \cup (last + 1)..last' /\ DOMAIN past' = 0..last'
    BY <1>2 DEF Ids
  <1>4. ASSUME NEW id \in Ids PROVE log'[id] = log[id]
    BY <1>1, <1>2
  <1>5. ASSUME NEW id \in 0..last PROVE past'[id] = past[id]
    BY <1>1, <1>2
  <1>6. ASSUME NEW n \in 1..Len(events)
        PROVE  log'[last + n] = events[n] /\ past'[last + n] = then[n]
    <2>1. last + n \in (last + 1)..last' /\ ~(last + n <= last) /\ (last + n) - last = n
          /\ last + n \in 0..last'
      BY <1>1, <1>2
    <2> QED
      BY <1>2, <2>1
  <1>7. Extends
    BY <1>1, <1>2, <1>3, <1>4, <1>5 DEF Extends
  <1> QED
    BY <1>2, <1>6, <1>7

-------------------------------------------------------------------------------
(* The user, with the recorder up.                                         *)

\* A path that no scan has changed silently is as its row says.
LEMMA NeverHushed ==
    ASSUME HistoryInv, NEW p \in Path
    PROVE  \/ Hidden(p)
           \/ past[last][p] = Latest(p) /\ (up => files[p] = Latest(p))
  BY DEF HistoryInv, Linked

\* So what a new event tells of such a path depends on its row only.
LEMMA TellsOf ==
    ASSUME HistoryInv, Extends, NEW p \in Path, NEW id \in (last + 1)..last',
           \/ SilentBefore(id, p)'
           \/ /\ (SourceBefore(id, p) = past[id - 1][p] \/ Misleading(id, p))'
              /\ ShowsPresence(id, p)' => log'[id].prev # None
    PROVE  Tells(id, p)'
  BY DEF Tells

\* A path none of the new events is about.
LEMMA BystanderPath ==
    ASSUME HistoryInv, Extends, up, up', last < last', NEW q \in Path,
           \A j \in (last + 1)..last' : ~Touches(j, q)' /\ past'[j][q] = files[q],
           rows'[q] = rows[q], files'[q] = files[q]
    PROVE  /\ \A id \in (last + 1)..last' : Stays(id, q)' /\ Tells(id, q)'
           /\ Linked(q)'
  <1>1. last \in Nat /\ last' \in Nat /\ Linked(q)
    BY Typed DEF Extends, HistoryInv
  <1>2. ASSUME NEW id \in (last + 1)..last', Hidden(q) PROVE Hushed(q, id)'
    BY <1>1, <1>2, HushedOn
  <1>3. Hidden(q) => Hidden(q)'
    BY StillHidden, <1>1
  <1>4. Latest(q)' = Latest(q)
    BY DEF Latest, Exists
  <1>5. ASSUME NEW id \in (last + 1)..last' PROVE Stays(id, q)' /\ Tells(id, q)'
    <2>1. Tells(id, q)'
      BY DEF Tells
    <2>2. CASE id = last + 1
      <3>1. past'[id - 1] = past[last]
        BY <1>1, <2>2 DEF Extends
      <3> QED
        BY <1>1, <1>2, <2>1, <3>1 DEF Stays, Linked
    <2>3. CASE id # last + 1
      <3>1. id - 1 \in (last + 1)..last'
        BY <1>1, <2>3
      <3> QED
        BY <2>1, <3>1 DEF Stays
    <2> QED
      BY <2>2, <2>3
  <1>6. past'[last'][q] = files[q]
    BY <1>1
  <1> QED
    BY <1>1, <1>3, <1>4, <1>5, <1>6 DEF Linked

LEMMA EntryIsEvent ==
    ASSUME HistoryInv, NEW kind \in {"CREATED", "MODIFIED", "DELETED", "RENAMED"},
           NEW path \in Path, NEW hash \in Value \cup {None}, NEW prev \in Value \cup {None},
           NEW old \in Path \cup {None}
    PROVE  LET e == Entry(kind, path, hash, prev, old) IN
           /\ e \in Event
           /\ e.time = now /\ e.kind = kind /\ e.path = path /\ e.hash = hash
           /\ e.prev = prev /\ e.old = old
  BY Typed DEF Entry, Event

\* The invariant after a commit, from its parts.
LEMMA CommitEnds ==
    ASSUME HistoryInv, Extends, pruned' = pruned, slips' = slips, now' = now, runs' = runs,
           up' \in BOOLEAN,
           \A id \in (last + 1)..last' : Sound(id),
           last' <= MaxEvents, files' \in States,
           rows' \in [Path -> {None} \cup [hash: Value, exists: BOOLEAN]],
           \A p \in Path : Linked(p)', Rowed',
           \A p \in Path : rows'[p] # None =>
              \/ rows'[p].hash = past'[last'][p]
              \/ rows[p] # None /\ rows'[p].hash = rows[p].hash
    PROVE  HistoryInv'
  <1>1. TypeOK'
    <2>1. last' \in 0..MaxEvents /\ pruned' \in 0..last'
      BY Typed, HistoryConstants DEF Extends
    <2>2. ASSUME NEW id \in Ids' PROVE log'[id] \in Event
      <3>1. CASE id \in Ids
        BY <3>1, Typed DEF Extends
      <3>2. CASE id \in (last + 1)..last'
        BY <3>2 DEF Sound
      <3> QED
        BY <2>2, <3>1, <3>2 DEF Extends
    <2>3. DOMAIN log' \subseteq 1..last'
      BY Typed DEF Extends, Ids
    <2>4. now' \in 1..MaxTime /\ slips' \in 0..MaxSlips
      BY DEF HistoryInv, TypeOK
    <2>5. (States)' = States /\ (Event)' = Event
      BY DEF States, Event
    <2> QED
      BY <2>1, <2>2, <2>3, <2>4, <2>5 DEF TypeOK, Extends, Ids
  <1>2. Bounded' /\ Gapless' /\ Timely'
        /\ (\A id \in Ids : Shows(id) /\ TookAway(id))'
        /\ (\A id \in Ids, p \in Path : Stays(id, p) /\ Tells(id, p))'
    BY CommitKeeps
  <1>3. ASSUME NEW p \in Path PROVE Remembered(p)'
    <2>1. CASE rows'[p] # None /\ rows'[p].hash = past'[last'][p]
      <3>1. last' \in 0..last'
        BY DEF Extends
      <3> QED
        BY <2>1, <3>1 DEF Remembered, Once
    <2>2. CASE rows'[p] # None /\ rows[p] # None /\ rows'[p].hash = rows[p].hash
      <3>1. Once(p, rows[p].hash)
        BY <2>2 DEF HistoryInv, Remembered
      <3> QED
        BY <2>2, <3>1, OnceOn DEF Remembered, Once
    <2>3. CASE rows'[p] = None
      BY <2>3 DEF Remembered
    <2> QED
      BY <2>1, <2>2, <2>3
  <1> QED
    BY <1>1, <1>2, <1>3 DEF HistoryInv

\* What a new event must agree with: the trees before and after it.
LEMMA EventSound ==
    ASSUME HistoryInv, Extends, NEW id \in (last + 1)..last', NEW e \in Event,
           log'[id] = e, e.time = now, past'[id] \in States,
           IF e.kind = "DELETED" THEN past'[id][e.path] = None
           ELSE e.hash \in Value /\ past'[id][e.path] = e.hash,
           IF e.old = None THEN e.kind # "RENAMED" ELSE e.kind = "RENAMED" /\ e.old # e.path /\ past'[id][e.old] = None,
           e.kind = "DELETED" => e.path \in Path /\ e.prev = Latest(e.path),
           \A q \in Path : q \in {e.path, e.old} =>
              \/ SilentBefore(id, q)'
              \/ IF e.old = q \/ e.kind \in {"MODIFIED", "DELETED"}
                 THEN /\ e.prev # None
                      /\ \/ e.prev = past'[id - 1][q]
                         \/ e.path = q /\ e.kind = "MODIFIED" /\ past'[id - 1][q] = None
                 ELSE past'[id - 1][q] = None \/ e.kind = "RENAMED",
           \A q \in Path : q \notin {e.path, e.old} =>
              past'[id][q] = past'[id - 1][q] \/ Hushed(q, id)'
    PROVE  Sound(id)
  <1>1. Shows(id)'
    BY Typed DEF Shows
  <1>2. ASSUME NEW q \in Path PROVE Stays(id, q)'
    BY DEF Stays, Touches
  <1>3. ASSUME NEW q \in Path PROVE Tells(id, q)'
    <2>1. CASE q \notin {e.path, e.old}
      BY <2>1 DEF Tells, Touches
    <2>2. CASE q \in {e.path, e.old}
      <3>1. e.path = q \/ e.old = q
        BY <2>2
      <3>2. CASE SilentBefore(id, q)'
        BY <3>2, TellsOf
      <3>3. CASE ~SilentBefore(id, q)'
        <4>1. (SourceBefore(id, q) = past[id - 1][q] \/ Misleading(id, q))'
          BY <2>2, <3>1, <3>3 DEF SourceBefore, Misleading, ShowsPresence
        <4>2. ShowsPresence(id, q)' => log'[id].prev # None
          BY <2>2, <3>1, <3>3 DEF ShowsPresence
        <4> QED
          BY <4>1, <4>2, TellsOf
      <3> QED
        BY <3>2, <3>3
    <2> QED
      BY <2>1, <2>2
  <1>4. TookAway(id)'
    <2> SUFFICES ASSUME e.kind = "DELETED", e.prev # None
                 PROVE  \E i \in 0..last' : past'[i][e.path] = e.prev
      BY DEF TookAway, Once
    <2>1. e.path \in Path /\ rows[e.path] # None /\ e.prev = rows[e.path].hash
      BY LatestIs
    <2>2. Once(e.path, e.prev)
      BY <2>1 DEF HistoryInv, Remembered
    <2> QED
      BY <2>1, <2>2, OnceOn
  <1> QED
    BY <1>1, <1>2, <1>3, <1>4 DEF Sound

\* A file that is there while the recorder is up has a row.
LEMMA FileHasRow ==
    ASSUME HistoryInv, up, NEW p \in Path, files[p] # None
    PROVE  /\ rows[p] # None
           /\ \/ Hidden(p)
              \/ Latest(p) # None /\ Latest(p) = past[last][p]
  <1>1. CASE Hidden(p)
    <2>1. PICK s \in 0..last : <<p, s>> \in silent
      BY <1>1, Typed DEF Hidden, Hushed
    <2>2. <<p, s>>[1] = p /\ rows[<<p, s>>[1]] # None
      BY <2>1 DEF HistoryInv, Rowed
    <2> QED
      BY <1>1, <2>2
  <1>2. CASE past[last][p] = Latest(p) /\ (up => files[p] = Latest(p))
    BY <1>2, LatestIs
  <1> QED
    BY <1>1, <1>2, NeverHushed

\* A commit of one event.
LEMMA CommitOne ==
    ASSUME HistoryInv, NEW e \in Event, NEW tree \in States, Commit(<<e>>, <<tree>>),
           silent' = silent
    PROVE  /\ Extends /\ last' <= MaxEvents
           /\ \E id \in Nat : /\ id = last' /\ last < id /\ id - 1 = last /\ (last + 1)..last' = {id}
                             /\ log'[id] = e /\ past'[id] = tree /\ past'[id - 1] = past[last]
  <1>1. <<e>> \in Seq(Event) /\ <<tree>> \in Seq(States) /\ Len(<<e>>) = 1 /\ Len(<<tree>>) = 1
        /\ <<e>>[1] = e /\ <<tree>>[1] = tree
    OBVIOUS
  <1>2. silent \subseteq silent' /\ silent' \subseteq Path \X (0..last)
    BY DEF HistoryInv, Bounded
  <1>3. /\ Extends /\ last' = last + 1 /\ last' <= MaxEvents
        /\ \A n \in 1..1 : log'[last + n] = <<e>>[n] /\ past'[last + n] = <<tree>>[n]
    BY <1>1, <1>2, CommitExtends
  <1>4. PICK id \in Nat : id = last + 1
    BY Typed
  <1>5. last < id /\ id - 1 = last /\ id - 1 \in 0..last
    BY <1>4, Typed
  <1>6. id = last' /\ (last + 1)..last' = {id}
    <2>1. id = last'
      BY <1>3, <1>4
    <2>2. (last + 1)..id = {id}
      BY <1>4, Typed
    <2> QED
      BY <2>1, <2>2
  <1>7. log'[id] = e /\ past'[id] = tree
    BY <1>1, <1>3, <1>4
  <1>8. past'[id - 1] = past[last]
    BY <1>3, <1>5 DEF Extends
  <1> QED
    BY <1>3, <1>5, <1>6, <1>7, <1>8

\* A path that a commit with the recorder up is not about.
LEMMA Bystander ==
    ASSUME HistoryInv, Extends, up, up', NEW q \in Path, NEW id \in Nat, last < id,
           id \in (last + 1)..last', \A j \in (last + 1)..last' : j <= id => ~Touches(j, q)',
           past'[id][q] = files[q],
           past'[id - 1] = past[last] \/ past'[id - 1][q] = files[q]
    PROVE  past'[id][q] = past'[id - 1][q] \/ Hushed(q, id)'
  <1>1. Linked(q)
    BY DEF HistoryInv
  <1>2. Hidden(q) => Hushed(q, id)'
    BY HushedOn
  <1> QED
    BY <1>1, <1>2 DEF Linked

\* One event of the user.
LEMMA OneKeeps ==
    ASSUME HistoryInv, up, up' = up, now' = now, slips' = slips, runs' = runs,
           pruned' = pruned, silent' = silent,
           NEW e \in Event, NEW tree \in States, Commit(<<e>>, <<tree>>), files' = tree,
           e.time = now,
           rows' \in [Path -> {None} \cup [hash: Value, exists: BOOLEAN]],
           IF e.kind = "DELETED" THEN tree[e.path] = None
           ELSE e.hash \in Value /\ tree[e.path] = e.hash,
           IF e.old = None THEN e.kind # "RENAMED" ELSE e.kind = "RENAMED" /\ e.old # e.path /\ tree[e.old] = None,
           \A q \in Path : q \in {e.path, e.old} =>
              /\ \/ Hidden(q)
                 \/ IF e.old = q \/ e.kind \in {"MODIFIED", "DELETED"}
                    THEN e.prev # None /\ e.prev = past[last][q]
                    ELSE past[last][q] = None \/ e.kind = "RENAMED"
              /\ tree[q] = Latest(q)' /\ rows'[q] # None
              /\ rows'[q].hash = tree[q] \/ (rows[q] # None /\ rows'[q].hash = rows[q].hash),
           e.kind = "DELETED" => e.path \in Path /\ e.prev = Latest(e.path),
           \A q \in Path : q \notin {e.path, e.old} => tree[q] = files[q] /\ rows'[q] = rows[q]
    PROVE  HistoryInv'
  <1>1. /\ Extends /\ last' <= MaxEvents
        /\ \E id \in Nat : /\ id = last' /\ last < id /\ id - 1 = last /\ (last + 1)..last' = {id}
                          /\ log'[id] = e /\ past'[id] = tree /\ past'[id - 1] = past[last]
    BY CommitOne
  <1>2. PICK id \in Nat : /\ id = last' /\ last < id /\ id - 1 = last /\ (last + 1)..last' = {id}
                          /\ log'[id] = e /\ past'[id] = tree /\ past'[id - 1] = past[last]
    BY <1>1
  <1>3. ASSUME NEW q \in Path, q \notin {e.path, e.old}
        PROVE  (past'[id][q] = past'[id - 1][q] \/ Hushed(q, id)') /\ Linked(q)'
    <2>1. \A j \in (last + 1)..last' : ~Touches(j, q)' /\ past'[j][q] = files[q]
      BY <1>2, <1>3 DEF Touches
    <2>2. last < last' /\ id \in (last + 1)..last'
      BY <1>2
    <2>3. past'[id][q] = past'[id - 1][q] \/ Hushed(q, id)'
      BY <1>1, <1>2, <2>1, <2>2, Bystander
    <2>4. Linked(q)'
      BY <1>1, <1>3, <2>1, <2>2, BystanderPath
    <2> QED
      BY <2>3, <2>4
  <1>4. Sound(id)
    <2>1. id \in (last + 1)..last'
      BY <1>2
    <2>3. ASSUME NEW q \in Path, Hidden(q) PROVE SilentBefore(id, q)'
      <3>1. \A j \in (last + 1)..last' : j < id => ~Touches(j, q)'
        BY <1>2
      <3> QED
        BY <1>1, <1>2, <2>3, <3>1, SilentBeforeOn
    <2>2. \A q \in Path : q \in {e.path, e.old} =>
              \/ SilentBefore(id, q)'
              \/ IF e.old = q \/ e.kind \in {"MODIFIED", "DELETED"}
                 THEN /\ e.prev # None
                      /\ \/ e.prev = past'[id - 1][q]
                         \/ e.path = q /\ e.kind = "MODIFIED" /\ past'[id - 1][q] = None
                 ELSE past'[id - 1][q] = None \/ e.kind = "RENAMED"
      BY <1>2, <2>3
    <2> QED
      BY <1>1, <1>2, <1>3, <2>1, <2>2, EventSound
  <1>5. ASSUME NEW q \in Path PROVE Linked(q)'
    <2>1. CASE q \notin {e.path, e.old}
      BY <1>3, <2>1
    <2>2. CASE q \in {e.path, e.old}
      <3>1. past'[last'][q] = tree[q] /\ files'[q] = tree[q]
        BY <1>2
      <3> QED
        BY <2>2, <3>1 DEF Linked
    <2> QED
      BY <2>1, <2>2
  <1>6. Rowed'
    <2>1. ASSUME NEW s \in silent PROVE rows'[s[1]] # None
      <3>1. s[1] \in Path /\ rows[s[1]] # None
        BY DEF HistoryInv, Bounded, Rowed
      <3> QED
        BY <3>1
    <2> QED
      BY <2>1 DEF Rowed
  <1>7. up' \in BOOLEAN
    BY Typed
  <1>8. ASSUME NEW q \in Path, rows'[q] # None
        PROVE  rows'[q].hash = past'[last'][q] \/ (rows[q] # None /\ rows'[q].hash = rows[q].hash)
    BY <1>2, <1>8
  <1> QED
    BY <1>1, <1>2, <1>4, <1>5, <1>6, <1>7, <1>8, CommitEnds

LEMMA WriteKeeps ==
    ASSUME HistoryInv, NEW p \in Path, NEW c \in Value, Write(p, c)
    PROVE  HistoryInv'
  <1>1. PICK e \in Event : e = IF Exists(p) THEN Entry("MODIFIED", p, c, rows[p].hash, None)
                               ELSE Entry("CREATED", p, c, None, None)
    BY LatestIs, EntryIsEvent
  <1>2. /\ e.time = now /\ e.path = p /\ e.hash = c /\ e.old = None
        /\ Exists(p) => e.kind = "MODIFIED" /\ e.prev = Latest(p)
        /\ ~Exists(p) => e.kind = "CREATED"
    BY <1>1, LatestIs, EntryIsEvent
  <1>3. PICK tree \in States : tree = [files EXCEPT ![p] = c]
    BY Typed DEF States
  <1>4. tree[p] = c /\ \A q \in Path : q # p => tree[q] = files[q]
    BY <1>3, Typed
  <1>5. /\ Commit(<<e>>, <<tree>>) /\ files' = tree /\ up /\ up' = up /\ now' = now
        /\ slips' = slips /\ runs' = runs /\ pruned' = pruned /\ silent' = silent
        /\ rows' = [rows EXCEPT ![p] = Row(c, TRUE)]
    BY <1>1, <1>3 DEF Write
  <1>6. Row(c, TRUE) \in [hash: Value, exists: BOOLEAN]
    BY DEF Row
  <1>7. /\ rows' \in [Path -> {None} \cup [hash: Value, exists: BOOLEAN]]
        /\ rows'[p] = Row(c, TRUE) /\ \A q \in Path : q # p => rows'[q] = rows[q]
    BY <1>5, <1>6, Typed
  <1>8. Latest(p)' = c /\ rows'[p] # None /\ rows'[p].hash = c
    BY <1>7, RowIs
  <1>9. \/ Hidden(p)
        \/ past[last][p] = Latest(p)
    BY NeverHushed
  <1>10. \A q \in Path : q \in {e.path, e.old} =>
              /\ \/ Hidden(q)
                 \/ IF e.old = q \/ e.kind \in {"MODIFIED", "DELETED"}
                    THEN e.prev # None /\ e.prev = past[last][q]
                    ELSE past[last][q] = None \/ e.kind = "RENAMED"
              /\ tree[q] = Latest(q)' /\ rows'[q] # None
              /\ rows'[q].hash = tree[q] \/ (rows[q] # None /\ rows'[q].hash = rows[q].hash)
    <2>1. p # None /\ None \notin Path
      BY Typed
    <2> QED
      BY <1>2, <1>4, <1>8, <1>9, <2>1, LatestIs
  <1>11. \A q \in Path : q \notin {e.path, e.old} => tree[q] = files[q] /\ rows'[q] = rows[q]
    BY <1>2, <1>4, <1>7
  <1>12. e.kind # "DELETED" /\ e.hash \in Value /\ tree[e.path] = e.hash
    BY <1>2, <1>4
  <1>13. IF e.kind = "DELETED" THEN tree[e.path] = None
         ELSE e.hash \in Value /\ tree[e.path] = e.hash
    BY <1>12
  <1>14. IF e.old = None THEN e.kind # "RENAMED" ELSE e.kind = "RENAMED" /\ e.old # e.path /\ tree[e.old] = None
    BY <1>2
  <1>15. e.kind = "DELETED" => e.path \in Path /\ e.prev = Latest(e.path)
    BY <1>12
  <1>16. e.time = now
    BY <1>2
  <1> QED
    BY <1>5, <1>7, <1>10, <1>11, <1>13, <1>14, <1>15, <1>16, OneKeeps

LEMMA EraseKeeps ==
    ASSUME HistoryInv, NEW p \in Path, Erase(p)
    PROVE  HistoryInv'
  <1>1. PICK e \in Event : e = Entry("DELETED", p, None, Latest(p), None)
    BY LatestIs, EntryIsEvent
  <1>2. e.time = now /\ e.path = p /\ e.old = None /\ e.kind = "DELETED" /\ e.prev = Latest(p)
    BY <1>1, LatestIs, EntryIsEvent
  <1>3. PICK tree \in States : tree = [files EXCEPT ![p] = None]
    BY Typed DEF States
  <1>4. tree[p] = None /\ \A q \in Path : q # p => tree[q] = files[q]
    BY <1>3, Typed
  <1>5. /\ Commit(<<e>>, <<tree>>) /\ files' = tree /\ up /\ up' = up /\ now' = now
        /\ slips' = slips /\ runs' = runs /\ pruned' = pruned /\ silent' = silent
        /\ files[p] # None /\ rows' = [rows EXCEPT ![p] = Gone(p)]
    BY <1>1, <1>3 DEF Erase
  <1>6. /\ rows[p] # None
        /\ \/ Hidden(p)
           \/ Latest(p) # None /\ Latest(p) = past[last][p]
    BY <1>5, FileHasRow
  <1>7. Gone(p) \in [hash: Value, exists: BOOLEAN]
    BY <1>6, Typed DEF Gone
  <1>8. /\ rows' \in [Path -> {None} \cup [hash: Value, exists: BOOLEAN]]
        /\ rows'[p] = Gone(p) /\ \A q \in Path : q # p => rows'[q] = rows[q]
    BY <1>5, <1>7, Typed
  <1>9. Latest(p)' = None /\ rows'[p] # None /\ rows'[p].hash = rows[p].hash
    BY <1>6, <1>8, GoneIs
  <1>10. \A q \in Path : q \in {e.path, e.old} =>
              /\ \/ Hidden(q)
                 \/ IF e.old = q \/ e.kind \in {"MODIFIED", "DELETED"}
                    THEN e.prev # None /\ e.prev = past[last][q]
                    ELSE past[last][q] = None \/ e.kind = "RENAMED"
              /\ tree[q] = Latest(q)' /\ rows'[q] # None
              /\ rows'[q].hash = tree[q] \/ (rows[q] # None /\ rows'[q].hash = rows[q].hash)
    <2>1. p # None /\ None \notin Path
      BY Typed
    <2> QED
      BY <1>2, <1>4, <1>6, <1>9, <2>1
  <1>11. \A q \in Path : q \notin {e.path, e.old} => tree[q] = files[q] /\ rows'[q] = rows[q]
    BY <1>2, <1>4, <1>8
  <1> QED
    BY <1>2, <1>4, <1>5, <1>8, <1>10, <1>11, OneKeeps

\* A commit of two events.
LEMMA CommitTwo ==
    ASSUME HistoryInv, NEW d \in Event, NEW e \in Event, NEW mid \in States, NEW tree \in States,
           Commit(<<d, e>>, <<mid, tree>>), silent' = silent
    PROVE  /\ Extends /\ last' <= MaxEvents
           /\ \E i, j \in Nat :
                 /\ j = last' /\ last < i /\ i < j /\ i - 1 = last /\ j - 1 = i
                 /\ (last + 1)..last' = {i, j} /\ past'[i - 1] = past[last]
                 /\ log'[i] = d /\ past'[i] = mid /\ log'[j] = e /\ past'[j] = tree
  <1>1. <<d, e>> \in Seq(Event) /\ <<mid, tree>> \in Seq(States)
        /\ Len(<<d, e>>) = 2 /\ Len(<<mid, tree>>) = 2
        /\ <<d, e>>[1] = d /\ <<mid, tree>>[1] = mid /\ <<d, e>>[2] = e /\ <<mid, tree>>[2] = tree
    OBVIOUS
  <1>2. silent \subseteq silent' /\ silent' \subseteq Path \X (0..last)
    BY DEF HistoryInv, Bounded
  <1>3. /\ Extends /\ last' = last + 2 /\ last' <= MaxEvents
        /\ \A n \in 1..2 : log'[last + n] = <<d, e>>[n] /\ past'[last + n] = <<mid, tree>>[n]
    BY <1>1, <1>2, CommitExtends
  <1>4. PICK i \in Nat : i = last + 1
    BY Typed
  <1>5. PICK j \in Nat : j = last + 2
    BY Typed
  <1>6. last < i /\ i < j /\ i - 1 = last /\ j - 1 = i /\ i - 1 \in 0..last
    BY <1>4, <1>5, Typed
  <1>7. j = last' /\ (last + 1)..last' = {i, j}
    <2>1. j = last'
      BY <1>3, <1>5
    <2>2. (last + 1)..j = {i, j}
      BY <1>4, <1>5, Typed
    <2> QED
      BY <2>1, <2>2
  <1>8. log'[i] = d /\ past'[i] = mid /\ log'[j] = e /\ past'[j] = tree
    BY <1>1, <1>3, <1>4, <1>5
  <1>9. past'[i - 1] = past[last]
    BY <1>3, <1>6 DEF Extends
  <1> QED
    BY <1>3, <1>6, <1>7, <1>8, <1>9

LEMMA MoveKeeps ==
    ASSUME HistoryInv, NEW p \in Path, NEW q \in Path, Move(p, q)
    PROVE  HistoryInv'
  <1>1. /\ files[p] # None /\ files[p] \in Value /\ p # q /\ up /\ up' = up /\ now' = now
        /\ slips' = slips /\ runs' = runs /\ pruned' = pruned /\ silent' = silent
        /\ rows' = [rows EXCEPT ![p] = Gone(p), ![q] = Row(files[p], TRUE)]
        /\ p # None /\ q # None
    BY Typed DEF Move
  <1>2. PICK e \in Event : e = Entry("RENAMED", q, files[p], Latest(p), p)
    BY <1>1, LatestIs, EntryIsEvent
  <1>3. e.time = now /\ e.path = q /\ e.old = p /\ e.kind = "RENAMED" /\ e.prev = Latest(p)
        /\ e.hash = files[p]
    BY <1>1, <1>2, LatestIs, EntryIsEvent
  <1>4. PICK tree \in States : tree = [files EXCEPT ![p] = None, ![q] = files[p]]
    BY <1>1, Typed DEF States
  <1>5. tree[p] = None /\ tree[q] = files[p] /\ \A r \in Path : r \notin {p, q} => tree[r] = files[r]
    BY <1>1, <1>4, Typed
  <1>6. files' = tree
    BY <1>4 DEF Move
  <1>7. /\ rows[p] # None
        /\ \/ Hidden(p)
           \/ Latest(p) # None /\ Latest(p) = past[last][p]
    BY <1>1, FileHasRow
  <1>8. Gone(p) \in [hash: Value, exists: BOOLEAN] /\ Row(files[p], TRUE) \in [hash: Value, exists: BOOLEAN]
    BY <1>1, <1>7, Typed DEF Gone, Row
  <1>9. /\ rows' \in [Path -> {None} \cup [hash: Value, exists: BOOLEAN]]
        /\ rows'[p] = Gone(p) /\ rows'[q] = Row(files[p], TRUE)
        /\ \A r \in Path : r \notin {p, q} => rows'[r] = rows[r]
    BY <1>1, <1>8, Typed
  <1>10. /\ Latest(p)' = None /\ rows'[p] # None /\ rows'[p].hash = rows[p].hash
         /\ Latest(q)' = files[p] /\ rows'[q] # None /\ rows'[q].hash = files[p]
    <2>1. Latest(q)' = files[p] /\ rows'[q] # None /\ rows'[q].hash = files[p]
      BY <1>1, <1>9, RowIs
    <2> QED
      BY <1>7, <1>9, <2>1, GoneIs
  <1>11. \A r \in Path : r \in {e.path, e.old} =>
              /\ \/ Hidden(r)
                 \/ IF e.old = r \/ e.kind \in {"MODIFIED", "DELETED"}
                    THEN e.prev # None /\ e.prev = past[last][r]
                    ELSE past[last][r] = None \/ e.kind = "RENAMED"
              /\ tree[r] = Latest(r)' /\ rows'[r] # None
              /\ rows'[r].hash = tree[r] \/ (rows[r] # None /\ rows'[r].hash = rows[r].hash)
    BY <1>1, <1>3, <1>5, <1>7, <1>10
  <1>12. \A r \in Path : r \notin {e.path, e.old} => tree[r] = files[r] /\ rows'[r] = rows[r]
    BY <1>3, <1>5, <1>9
  <1>13. CASE ~Displaced(p, q)
    <2>1. Commit(<<e>>, <<tree>>)
      BY <1>2, <1>4, <1>13 DEF Move
    <2>2. /\ e.time = now /\ e.kind # "DELETED" /\ e.hash \in Value /\ tree[e.path] = e.hash
          /\ IF e.old = None THEN e.kind # "RENAMED" ELSE e.kind = "RENAMED" /\ e.old # e.path /\ tree[e.old] = None
      BY <1>1, <1>3, <1>5
    <2>3. rows' \in [Path -> {None} \cup [hash: Value, exists: BOOLEAN]]
      BY <1>9
    <2> QED
      BY <1>1, <1>6, <1>11, <1>12, <2>1, <2>2, <2>3, OneKeeps
  <1>14. CASE Displaced(p, q)
    <2>1. PICK d \in Event : d = Entry("DELETED", q, None, Latest(q), None)
      BY LatestIs, EntryIsEvent
    <2>2. /\ d.time = now /\ d.path = q /\ d.old = None /\ d.kind = "DELETED" /\ d.prev = Latest(q)
          /\ d.prev # None
      BY <1>14, <2>1, LatestIs, EntryIsEvent DEF Displaced
    <2>3. PICK mid \in States : mid = [files EXCEPT ![q] = None]
      BY Typed DEF States
    <2>4. mid[q] = None /\ \A r \in Path : r # q => mid[r] = files[r]
      BY <2>3, Typed
    <2>5. Commit(<<d, e>>, <<mid, tree>>)
      BY <1>2, <1>4, <1>14, <2>1, <2>3 DEF Move
    <2>6. /\ Extends /\ last' <= MaxEvents
          /\ \E i, j \in Nat :
                 /\ j = last' /\ last < i /\ i < j /\ i - 1 = last /\ j - 1 = i
                 /\ (last + 1)..last' = {i, j} /\ past'[i - 1] = past[last]
                 /\ log'[i] = d /\ past'[i] = mid /\ log'[j] = e /\ past'[j] = tree
      BY <1>1, <2>5, CommitTwo
    <2>7. PICK i, j \in Nat :
             /\ j = last' /\ last < i /\ i < j /\ i - 1 = last /\ j - 1 = i
             /\ (last + 1)..last' = {i, j} /\ past'[i - 1] = past[last]
             /\ log'[i] = d /\ past'[i] = mid /\ log'[j] = e /\ past'[j] = tree
      BY <2>6
    <2>8. i \in (last + 1)..last' /\ j \in (last + 1)..last' /\ last < last'
      BY <2>7
    <2>9. Sound(i)
      <3>1. \A r \in Path : r \notin {d.path, d.old} =>
              past'[i][r] = past'[i - 1][r] \/ Hushed(r, i)'
        <4> SUFFICES ASSUME NEW r \in Path, r \notin {d.path, d.old}
                     PROVE  past'[i][r] = past'[i - 1][r] \/ Hushed(r, i)'
          OBVIOUS
        <4>1. \A n \in (last + 1)..last' : n <= i => ~Touches(n, r)'
          <5>1. ASSUME NEW n \in (last + 1)..last', n <= i PROVE ~Touches(n, r)'
            <6>1. n = i
              BY <2>7, <5>1
            <6>2. log'[n] = d
              BY <2>7, <6>1
            <6> QED
              BY <6>2 DEF Touches
          <5> QED
            BY <5>1
        <4>2. past'[i][r] = files[r]
          BY <2>2, <2>4, <2>7
        <4> QED
          BY <1>1, <2>6, <2>7, <2>8, <4>1, <4>2, Bystander
      <3>2. \A r \in Path : r \in {d.path, d.old} =>
              \/ SilentBefore(i, r)'
              \/ IF d.old = r \/ d.kind \in {"MODIFIED", "DELETED"}
                 THEN /\ d.prev # None
                      /\ \/ d.prev = past'[i - 1][r]
                         \/ d.path = r /\ d.kind = "MODIFIED" /\ past'[i - 1][r] = None
                 ELSE past'[i - 1][r] = None \/ d.kind = "RENAMED"
        <4>1. SilentBefore(i, q)' \/ past[last][q] = Latest(q)
          <5>1. \A n \in (last + 1)..last' : n < i => ~Touches(n, q)'
            BY <2>7
          <5>2. Hidden(q) => SilentBefore(i, q)'
            BY <2>6, <2>7, <5>1, SilentBeforeOn
          <5> QED
            BY <5>2, NeverHushed
        <4>2. \A r \in Path : r \in {d.path, d.old} => r = q
          BY <2>2, Typed
        <4> QED
          BY <2>2, <2>7, <4>1, <4>2
      <3> QED
        BY <2>2, <2>4, <2>6, <2>7, <2>8, <3>1, <3>2, EventSound
    <2>10. Sound(j)
      <3>1. \A r \in Path : r \notin {e.path, e.old} =>
              past'[j][r] = past'[j - 1][r] \/ Hushed(r, j)'
        BY <1>3, <1>5, <2>4, <2>7
      <3>2. past'[j - 1][p] = files[p]
        BY <1>1, <2>4, <2>7
      <3>3. \A r \in Path : r \in {e.path, e.old} =>
              \/ SilentBefore(j, r)'
              \/ IF e.old = r \/ e.kind \in {"MODIFIED", "DELETED"}
                 THEN /\ e.prev # None
                      /\ \/ e.prev = past'[j - 1][r]
                         \/ e.path = r /\ e.kind = "MODIFIED" /\ past'[j - 1][r] = None
                 ELSE past'[j - 1][r] = None \/ e.kind = "RENAMED"
        <4>1. SilentBefore(j, p)' \/ files[p] = Latest(p)
          <5>1. ASSUME NEW n \in (last + 1)..last', n < j PROVE ~Touches(n, p)'
            <6>1. n = i
              BY <2>7, <5>1
            <6>2. log'[n].path = q /\ log'[n].old = None
              BY <2>2, <2>7, <6>1
            <6> QED
              BY <1>1, <6>2 DEF Touches
          <5>2. Hidden(p) => SilentBefore(j, p)'
            BY <2>6, <2>7, <5>1, SilentBeforeOn
          <5> QED
            BY <1>1, <5>2, NeverHushed
        <4> QED
          BY <1>1, <1>3, <3>2, <4>1
      <3> QED
        BY <1>1, <1>3, <1>5, <2>6, <2>7, <2>8, <3>1, <3>3, EventSound
    <2>11. ASSUME NEW r \in Path PROVE Linked(r)'
      <3>1. CASE r \in {e.path, e.old}
        <4>1. past'[last'][r] = tree[r] /\ files'[r] = tree[r] /\ tree[r] = Latest(r)'
          BY <1>6, <1>11, <2>7, <3>1
        <4> QED
          BY <4>1 DEF Linked
      <3>2. CASE r \notin {e.path, e.old}
        <4>1. r \notin {d.path, d.old} /\ mid[r] = files[r] /\ tree[r] = files[r]
          BY <1>3, <1>12, <2>2, <2>4, <3>2, Typed
        <4>2. ASSUME NEW n \in (last + 1)..last' PROVE ~Touches(n, r)' /\ past'[n][r] = files[r]
          <5>1. n = i \/ n = j
            BY <2>7, <4>2
          <5>2. CASE n = i
            <6>1. log'[n] = d /\ past'[n] = mid
              BY <2>7, <5>2
            <6> QED
              BY <4>1, <6>1 DEF Touches
          <5>3. CASE n = j
            <6>1. log'[n] = e /\ past'[n] = tree
              BY <2>7, <5>3
            <6> QED
              BY <3>2, <4>1, <6>1 DEF Touches
          <5> QED
            BY <5>1, <5>2, <5>3
        <4> QED
          BY <1>1, <1>6, <1>12, <2>6, <2>8, <3>2, <4>1, <4>2, BystanderPath
      <3> QED
        BY <3>1, <3>2
    <2>12. Rowed'
      <3>1. ASSUME NEW s \in silent PROVE rows'[s[1]] # None
        <4>1. s[1] \in Path /\ rows[s[1]] # None
          BY DEF HistoryInv, Bounded, Rowed
        <4> QED
          BY <1>9, <1>10, <4>1
      <3> QED
        BY <1>1, <3>1 DEF Rowed
    <2>13. \A n \in (last + 1)..last' : Sound(n)
      BY <2>7, <2>9, <2>10
    <2>14. ASSUME NEW r \in Path, rows'[r] # None
           PROVE  rows'[r].hash = past'[last'][r] \/ (rows[r] # None /\ rows'[r].hash = rows[r].hash)
      <3>1. past'[last'] = tree
        BY <2>7
      <3> QED
        BY <1>11, <1>12, <2>14, <3>1
    <2> QED
      BY <1>1, <1>6, <1>9, <2>6, <2>11, <2>12, <2>13, <2>14, Typed, CommitEnds
  <1> QED
    BY <1>13, <1>14

-------------------------------------------------------------------------------
(* The scan at a start of the recorder.                                    *)

\* Two disjoint sets, one after the other.
Joined(f, g) == f \o g
Lists(h, n, S) ==
    /\ h \in [1..n -> S]
    /\ h \in Seq(S) /\ Len(h) = n
    /\ \A i, j \in 1..n : i # j => h[i] # h[j]
    /\ \A x \in S : \E i \in 1..n : h[i] = x

LEMMA OneAfterTheOther ==
    ASSUME NEW S, NEW T, IsFiniteSet(S), IsFiniteSet(T), S \cap T = {},
           NEW f \in SetToSeqs(S), NEW g \in SetToSeqs(T), NEW h, h = Joined(f, g)
    PROVE  \E n \in Nat : Lists(h, n, S \cup T)
  <1>1. PICK a \in Nat : /\ f \in [1..a -> S] /\ f \in Seq(S) /\ Len(f) = a
                         /\ \A i, j \in 1..a : i # j => f[i] # f[j]
                         /\ \A x \in S : \E i \in 1..a : f[i] = x
    BY SequenceOfAll
  <1>20. /\ Cardinality(T) \in Nat
         /\ g \in [1..Cardinality(T) -> T] /\ g \in Seq(T) /\ Len(g) = Cardinality(T)
         /\ \A i, j \in 1..Cardinality(T) : i # j => g[i] # g[j]
         /\ \A x \in T : \E i \in 1..Cardinality(T) : g[i] = x
    BY SequenceOfAll
  <1>2. PICK b \in Nat : /\ g \in [1..b -> T] /\ g \in Seq(T) /\ Len(g) = b
                         /\ \A i, j \in 1..b : i # j => g[i] # g[j]
                         /\ \A x \in T : \E i \in 1..b : g[i] = x
    BY <1>20
  <1>4. PICK n \in Nat : n = a + b
    OBVIOUS
  <1>5. f \in Seq(S \cup T) /\ g \in Seq(S \cup T)
    BY <1>1, <1>2
  <1>60. /\ f \o g \in Seq(S \cup T) /\ Len(f \o g) = Len(f) + Len(g)
         /\ \A i \in 1..Len(f) + Len(g) :
               (f \o g)[i] = IF i <= Len(f) THEN f[i] ELSE g[i - Len(f)]
    BY <1>5, ConcatProperties
  <1>6. h \in Seq(S \cup T) /\ Len(h) = n
        /\ \A i \in 1..n : h[i] = IF i <= a THEN f[i] ELSE g[i - a]
    BY <1>1, <1>2, <1>4, <1>60 DEF Joined
  <1>7. \A i \in 1..n : h[i] = IF i <= a THEN f[i] ELSE g[i - a]
    BY <1>6
  <1>8. h \in [1..n -> S \cup T]
    <2>1. \A c \in Seq(S \cup T) : c \in [1..Len(c) -> S \cup T]
      OBVIOUS
    <2> QED
      BY <1>6, <2>1
  <1>9. ASSUME NEW i \in 1..n, NEW j \in 1..n, i # j PROVE h[i] # h[j]
    <2>1. ASSUME NEW k \in 1..n
          PROVE  \/ k \in 1..a /\ h[k] = f[k] /\ h[k] \in S
                 \/ k - a \in 1..b /\ k \notin 1..a /\ h[k] = g[k - a] /\ h[k] \in T
      <3>1. CASE k <= a
        <4>1. k \in 1..a
          BY <3>1
        <4> QED
          BY <1>1, <1>7, <3>1, <4>1
      <3>2. CASE ~(k <= a)
        <4>1. k - a \in 1..b /\ k \notin 1..a
          BY <1>4, <3>2
        <4> QED
          BY <1>2, <1>7, <3>2, <4>1
      <3> QED
        BY <3>1, <3>2
    <2>2. CASE i \in 1..a /\ j \in 1..a
      BY <1>1, <1>9, <2>1, <2>2
    <2>3. CASE i \notin 1..a /\ j \notin 1..a
      <3>1. i - a \in 1..b /\ j - a \in 1..b /\ i - a # j - a
        BY <1>9, <2>1, <2>3
      <3> QED
        BY <1>2, <2>1, <2>3, <3>1
    <2>4. CASE i \in 1..a /\ j \notin 1..a
      <3>1. h[i] \in S /\ h[j] \in T
        BY <2>1, <2>4
      <3> QED
        BY <3>1
    <2>5. CASE i \notin 1..a /\ j \in 1..a
      <3>1. h[i] \in T /\ h[j] \in S
        BY <2>1, <2>5
      <3> QED
        BY <3>1
    <2> QED
      BY <2>2, <2>3, <2>4, <2>5
  <1>10. ASSUME NEW x \in S \cup T PROVE \E i \in 1..n : h[i] = x
    <2>1. CASE x \in S
      <3>1. PICK i \in 1..a : f[i] = x
        BY <1>1, <2>1
      <3>2. i \in 1..n /\ i <= a
        BY <1>4
      <3> QED
        BY <1>7, <3>1, <3>2
    <2>2. CASE x \in T
      <3>1. PICK i \in 1..b : g[i] = x
        BY <1>2, <2>2
      <3>2. PICK k \in 1..n : k = i + a
        BY <1>4
      <3>3. ~(k <= a) /\ k - a = i
        BY <3>2
      <3> QED
        BY <1>7, <3>1, <3>3
    <2> QED
      BY <2>1, <2>2
  <1> QED
    BY <1>6, <1>8, <1>9, <1>10 DEF Lists

\* The event of a path that the scan found changed.
LEMMA ScanEventIs ==
    ASSUME HistoryInv, NEW x \in ScanWrites \cup ScanDeletions
    PROVE  /\ x \in Path
           /\ ScanEvent(x) \in Event
           /\ ScanEvent(x).time = now /\ ScanEvent(x).path = x /\ ScanEvent(x).old = None
           /\ files[x] = None => /\ ScanEvent(x).kind = "DELETED"
                                 /\ ScanEvent(x).prev = Latest(x) /\ Latest(x) # None
           /\ files[x] # None => /\ files[x] \in Value /\ ScanEvent(x).hash = files[x]
                                 /\ \/ ScanEvent(x).kind = "CREATED" /\ Latest(x) = None
                                    \/ /\ ScanEvent(x).kind = "MODIFIED" /\ ScanEvent(x).prev # None
                                       /\ ScanEvent(x).prev = Latest(x) \/ Latest(x) = None
  <1>1. x \in Path
    BY DEF ScanWrites, ScanDeletions, ScanMissing
  <1>2. CASE files[x] = None
    <2>1. Exists(x)
      BY <1>2 DEF ScanWrites, ScanDeletions, ScanMissing
    <2>2. Latest(x) \in Value /\ None \notin Value
      BY <1>1, <2>1, LatestIs
    <2>3. ScanEvent(x) = Entry("DELETED", x, None, Latest(x), None)
      BY <1>2 DEF ScanEvent
    <2>4. PICK e : e = ScanEvent(x)
      OBVIOUS
    <2>5. e \in Event /\ e.time = now /\ e.path = x /\ e.old = None /\ e.kind = "DELETED"
          /\ e.prev = Latest(x)
      BY <1>1, <2>2, <2>3, <2>4, EntryIsEvent
    <2> QED
      BY <1>1, <1>2, <2>2, <2>4, <2>5
  <1>3. CASE files[x] # None
    <2>1. files[x] \in Value /\ (rows[x] = None \/ rows[x].hash # files[x])
      BY <1>1, <1>3, Typed DEF ScanWrites, ScanDeletions, ScanMissing
    <2>2. PICK e : e = ScanEvent(x)
      OBVIOUS
    <2>3. CASE rows[x] = None
      <3>1. e = Entry("CREATED", x, files[x], None, None)
        BY <1>3, <2>2, <2>3 DEF ScanEvent
      <3>2. e \in Event /\ e.time = now /\ e.path = x /\ e.old = None /\ e.kind = "CREATED"
            /\ e.hash = files[x]
        BY <1>1, <2>1, <3>1, Typed DEF Entry, Event
      <3>3. Latest(x) = None
        BY <2>3 DEF Latest, Exists
      <3> QED
        BY <1>1, <1>3, <2>1, <2>2, <3>2, <3>3
    <2>4. CASE rows[x] # None
      <3>1. e = Entry("MODIFIED", x, files[x], rows[x].hash, None)
        BY <1>3, <2>2, <2>4 DEF ScanEvent
      <3>2. rows[x].hash \in Value /\ rows[x].hash # None
        BY <1>1, <2>4, LatestIs
      <3>3. e \in Event /\ e.time = now /\ e.path = x /\ e.old = None /\ e.kind = "MODIFIED"
            /\ e.hash = files[x] /\ e.prev = rows[x].hash
        BY <1>1, <2>1, <3>1, <3>2, EntryIsEvent
      <3>4. Latest(x) = rows[x].hash \/ Latest(x) = None
        BY <1>1, LatestIs
      <3> QED
        BY <1>1, <1>3, <2>1, <2>2, <3>2, <3>3, <3>4
    <2> QED
      BY <2>3, <2>4
  <1> QED
    BY <1>2, <1>3

\* What a scan commits: an event for each path that changed, in some order.
LEMMA ScanCommits ==
    ASSUME HistoryInv, Scan
    PROVE  /\ Extends /\ last' <= MaxEvents
           /\ \E n \in Nat : \E order \in [1..n -> ScanWrites \cup ScanDeletions] :
                /\ last' = last + n
                /\ \A i, j \in 1..n : i # j => order[i] # order[j]
                /\ \A x \in ScanWrites \cup ScanDeletions : \E i \in 1..n : order[i] = x
                /\ \A k \in 1..n :
                      /\ log'[last + k] = ScanEvent(order[k])
                      /\ past'[last + k] \in States
                      /\ \A q \in Path :
                            past'[last + k][q] =
                               IF q \in ScanRevivals \/ \E i \in 1..k : order[i] = q
                                 THEN files[q] ELSE Latest(q)
  <1>1. PICK writes \in SetToSeqs(ScanWrites), deletions \in SetToSeqs(ScanDeletions) :
          Commit([n \in DOMAIN (writes \o deletions) |-> ScanEvent((writes \o deletions)[n])],
                 [n \in DOMAIN (writes \o deletions) |->
                    [p \in Path |->
                       IF p \in ScanRevivals \cup {(writes \o deletions)[i] : i \in 1..n}
                         THEN files[p] ELSE Latest(p)]])
    BY DEF Scan
  <1>2. PICK order : order = writes \o deletions
    OBVIOUS
  <1>3. ScanWrites \subseteq Path /\ ScanDeletions \subseteq Path /\ ScanRevivals \subseteq Path
        /\ ScanWrites \cap ScanDeletions = {}
    BY DEF ScanWrites, ScanDeletions, ScanMissing, ScanRevivals
  <1>4. IsFiniteSet(ScanWrites) /\ IsFiniteSet(ScanDeletions)
    BY <1>3, HistoryConstants, FS_Subset
  <1>5. PICK n \in Nat :
              /\ order \in [1..n -> ScanWrites \cup ScanDeletions]
              /\ order \in Seq(ScanWrites \cup ScanDeletions) /\ Len(order) = n
              /\ \A i, j \in 1..n : i # j => order[i] # order[j]
              /\ \A x \in ScanWrites \cup ScanDeletions : \E i \in 1..n : order[i] = x
    <2>1. PICK S, T : S = ScanWrites /\ T = ScanDeletions
      OBVIOUS
    <2>2. IsFiniteSet(S) /\ IsFiniteSet(T) /\ S \cap T = {}
          /\ writes \in SetToSeqs(S) /\ deletions \in SetToSeqs(T)
      BY <1>3, <1>4, <2>1
    <2>4. order = Joined(writes, deletions)
      BY <1>2 DEF Joined
    <2>3. \E n \in Nat : Lists(order, n, S \cup T)
      BY <2>2, <2>4, OneAfterTheOther
    <2> QED
      BY <2>1, <2>3 DEF Lists
  <1>6. DOMAIN order = 1..n
    BY <1>5
  <1>7. PICK events : events = [k \in 1..n |-> ScanEvent(order[k])]
    OBVIOUS
  <1>8. PICK then : then = [k \in 1..n |->
                    [p \in Path |->
                       IF p \in ScanRevivals \cup {order[i] : i \in 1..k}
                         THEN files[p] ELSE Latest(p)]]
    OBVIOUS
  <1>9. Commit(events, then)
    BY <1>1, <1>2, <1>6, <1>7, <1>8
  <1>10. events \in Seq(Event) /\ Len(events) = n /\ \A k \in 1..n : events[k] = ScanEvent(order[k])
    <2>1. ASSUME NEW k \in 1..n PROVE ScanEvent(order[k]) \in Event
      <3>1. order[k] \in ScanWrites \cup ScanDeletions
        BY <1>5
      <3> QED
        BY <3>1, ScanEventIs
    <2> QED
      BY <1>7, <2>1
  <1>11. ASSUME NEW k \in 1..n
         PROVE  /\ then[k] \in States
                /\ \A q \in Path :
                      then[k][q] = IF q \in ScanRevivals \/ \E i \in 1..k : order[i] = q
                                     THEN files[q] ELSE Latest(q)
    <2>1. then[k] = [p \in Path |->
                       IF p \in ScanRevivals \cup {order[i] : i \in 1..k}
                         THEN files[p] ELSE Latest(p)]
      BY <1>8
    <2>2. \A p \in Path : files[p] \in Value \cup {None} /\ Latest(p) \in Value \cup {None}
      BY Typed, LatestIs
    <2>3. then[k] \in States
      BY <2>1, <2>2 DEF States
    <2>4. ASSUME NEW q \in Path
          PROVE  then[k][q] = IF q \in ScanRevivals \/ \E i \in 1..k : order[i] = q
                                THEN files[q] ELSE Latest(q)
      <3>1. q \in {order[i] : i \in 1..k} <=> \E i \in 1..k : order[i] = q
        OBVIOUS
      <3> QED
        BY <2>1, <3>1
    <2> QED
      BY <2>3, <2>4
  <1>12. then \in Seq(States) /\ Len(then) = n
    <2>1. DOMAIN then = 1..n /\ \A k \in 1..n : then[k] \in States
      BY <1>8, <1>11
    <2>2. then \in [1..n -> States]
      BY <1>8, <2>1
    <2> QED
      BY <2>2
  <1>13. silent \subseteq silent' /\ silent' \subseteq Path \X (0..last)
    <2>1. silent' = silent \cup {<<p, last>> : p \in ScanRevivals \cup ScanIgnored}
      BY DEF Scan
    <2>2. ScanRevivals \cup ScanIgnored \subseteq Path
      BY <1>3 DEF ScanIgnored, ScanMissing
    <2>3. silent \subseteq Path \X (0..last) /\ last \in 0..last
      BY Typed DEF HistoryInv, Bounded
    <2> QED
      BY <2>1, <2>2, <2>3
  <1>14. /\ Extends /\ last' = last + n /\ last' <= MaxEvents
         /\ \A k \in 1..n : log'[last + k] = events[k] /\ past'[last + k] = then[k]
    BY <1>9, <1>10, <1>12, <1>13, CommitExtends
  <1>15. \A k \in 1..n :
                      /\ log'[last + k] = ScanEvent(order[k])
                      /\ past'[last + k] \in States
                      /\ \A q \in Path :
                            past'[last + k][q] =
                               IF q \in ScanRevivals \/ \E i \in 1..k : order[i] = q
                                 THEN files[q] ELSE Latest(q)
    BY <1>10, <1>11, <1>14
  <1>16. \E o \in [1..n -> ScanWrites \cup ScanDeletions] :
            /\ last' = last + n
            /\ \A i, j \in 1..n : i # j => o[i] # o[j]
            /\ \A x \in ScanWrites \cup ScanDeletions : \E i \in 1..n : o[i] = x
            /\ \A k \in 1..n :
                      /\ log'[last + k] = ScanEvent(o[k])
                      /\ past'[last + k] \in States
                      /\ \A q \in Path :
                            past'[last + k][q] =
                               IF q \in ScanRevivals \/ \E i \in 1..k : o[i] = q
                                 THEN files[q] ELSE Latest(q)
    <2>1. order \in [1..n -> ScanWrites \cup ScanDeletions]
      BY <1>5
    <2> WITNESS order \in [1..n -> ScanWrites \cup ScanDeletions]
    <2> QED
      BY <1>5, <1>14, <1>15
  <1> QED
    BY <1>14, <1>16

LEMMA ScanKeeps ==
    ASSUME HistoryInv, Scan
    PROVE  HistoryInv'
  <1> DEFINE Changed == ScanWrites \cup ScanDeletions
             Quiet == ScanRevivals \cup ScanIgnored
  <1>1. /\ Extends /\ last' <= MaxEvents
        /\ \E n \in Nat : \E order \in [1..n -> Changed] :
             /\ last' = last + n
             /\ \A i, j \in 1..n : i # j => order[i] # order[j]
             /\ \A x \in Changed : \E i \in 1..n : order[i] = x
             /\ \A k \in 1..n :
                   /\ log'[last + k] = ScanEvent(order[k])
                   /\ past'[last + k] \in States
                   /\ \A q \in Path :
                         past'[last + k][q] =
                            IF q \in ScanRevivals \/ \E i \in 1..k : order[i] = q
                              THEN files[q] ELSE Latest(q)
    BY ScanCommits
  <1>20. PICK n \in Nat : \E order \in [1..n -> Changed] :
             /\ last' = last + n
             /\ \A i, j \in 1..n : i # j => order[i] # order[j]
             /\ \A x \in Changed : \E i \in 1..n : order[i] = x
             /\ \A k \in 1..n :
                   /\ log'[last + k] = ScanEvent(order[k])
                   /\ past'[last + k] \in States
                   /\ \A q \in Path :
                         past'[last + k][q] =
                            IF q \in ScanRevivals \/ \E i \in 1..k : order[i] = q
                              THEN files[q] ELSE Latest(q)
    BY <1>1
  <1>2. PICK order \in [1..n -> Changed] :
             /\ last' = last + n
             /\ \A i, j \in 1..n : i # j => order[i] # order[j]
             /\ \A x \in Changed : \E i \in 1..n : order[i] = x
             /\ \A k \in 1..n :
                   /\ log'[last + k] = ScanEvent(order[k])
                   /\ past'[last + k] \in States
                   /\ \A q \in Path :
                         past'[last + k][q] =
                            IF q \in ScanRevivals \/ \E i \in 1..k : order[i] = q
                              THEN files[q] ELSE Latest(q)
    BY <1>20
  <1>3. /\ ~up /\ up' = TRUE /\ files' = files /\ now' = now /\ slips' = slips
        /\ runs' = runs /\ pruned' = pruned
        /\ rows' = [p \in Path |-> IF files[p] # None THEN Row(files[p], TRUE)
                                   ELSE IF p \in ScanDeletions THEN Gone(p) ELSE rows[p]]
        /\ silent' = silent \cup {<<p, last>> : p \in Quiet}
    BY DEF Scan
  <1>4. Changed \subseteq Path /\ Quiet \subseteq Path /\ Changed \cap Quiet = {}
    <2>1. Changed \subseteq Path /\ Quiet \subseteq Path
      BY DEF ScanWrites, ScanDeletions, ScanMissing, ScanRevivals, ScanIgnored
    <2>2. ASSUME NEW x \in ScanRevivals PROVE x \notin Changed
      <3>1. x \in Path /\ files[x] \in Value /\ files[x] # None /\ rows[x] = Row(files[x], FALSE)
        BY <2>2, Typed DEF ScanRevivals
      <3>2. rows[x].hash = files[x] /\ rows[x] \in [hash: Value, exists: BOOLEAN]
        BY <3>1 DEF Row
      <3>3. rows[x] # None
        BY <3>2, Typed
      <3> QED
        BY <3>1, <3>2, <3>3 DEF ScanWrites, ScanDeletions, ScanMissing
    <2>3. ASSUME NEW x \in ScanIgnored PROVE x \notin Changed
      BY DEF ScanWrites, ScanDeletions, ScanMissing, ScanIgnored
    <2> QED
      BY <2>1, <2>2, <2>3
  <1>5. ASSUME NEW id \in (last + 1)..last'
        PROVE  \E k \in 1..n : id = last + k
    <2>1. id - last \in 1..n /\ id = last + (id - last)
      BY <1>2, Typed
    <2> QED
      BY <2>1
  <1>6. ASSUME NEW k \in 1..n
        PROVE  /\ order[k] \in Changed /\ order[k] \in Path
               /\ log'[last + k] = ScanEvent(order[k])
               /\ ScanEvent(order[k]).path = order[k] /\ ScanEvent(order[k]).old = None
    <2>1. order[k] \in Changed /\ order[k] \in ScanWrites \cup ScanDeletions
      BY <1>2
    <2> QED
      BY <1>2, <1>4, <2>1, ScanEventIs
  <1>7. ASSUME NEW q \in Path \ Changed, NEW j \in (last + 1)..last' PROVE ~Touches(j, q)'
    <2>1. PICK k \in 1..n : j = last + k
      BY <1>5
    <2>2. log'[j].path # q /\ log'[j].old = None
      BY <1>6, <2>1
    <2> QED
      BY <2>2, Typed DEF Touches
  <1> HIDE DEF Changed, Quiet
  <1>8. ASSUME NEW q \in Quiet, NEW id \in Nat, last < id PROVE Hushed(q, id)'
    <2>1. last \in 0..(id - 1) /\ <<q, last>> \in silent'
      BY <1>3, <1>8, Typed
    <2>2. PICK s \in 0..(id - 1) : s = last
      BY <2>1
    <2>3. ASSUME NEW j \in Ids', s < j, j <= id PROVE ~Touches(j, q)'
      <3>1. j \in (last + 1)..last'
        BY <1>1, <2>2, <2>3, Typed DEF Extends
      <3> QED
        BY <1>4, <1>7, <3>1
    <2> QED
      BY <2>1, <2>2, <2>3 DEF Hushed
  <1>9. ASSUME NEW id \in (last + 1)..last' PROVE Sound(id)
    <2>1. PICK k \in 1..n : id = last + k
      BY <1>5
    <2>2. PICK x \in Changed : x = order[k]
      BY <1>6
    <2>3. PICK e \in Event : e = ScanEvent(x)
      BY <2>2, ScanEventIs DEF Changed
    <2>4. /\ log'[id] = e /\ x \in Path
          /\ e.time = now /\ e.path = x /\ e.old = None
          /\ files[x] = None => e.kind = "DELETED" /\ e.prev = Latest(x) /\ Latest(x) # None
          /\ files[x] # None => /\ files[x] \in Value /\ e.hash = files[x]
                                /\ \/ e.kind = "CREATED" /\ Latest(x) = None
                                   \/ /\ e.kind = "MODIFIED" /\ e.prev # None
                                      /\ e.prev = Latest(x) \/ Latest(x) = None
      BY <1>6, <2>1, <2>2, <2>3, ScanEventIs DEF Changed
    <2>5. past'[id] \in States
          /\ \A q \in Path : past'[id][q] = IF q \in ScanRevivals \/ \E i \in 1..k : order[i] = q
                                               THEN files[q] ELSE Latest(q)
      BY <1>2, <2>1
    <2>9. /\ log'[id] = e /\ e.time = now /\ past'[id] \in States
          /\ id \in (last + 1)..last' /\ Extends /\ e \in Event
          /\ e.kind = "DELETED" => e.path \in Path /\ e.prev = Latest(e.path)
      BY <1>1, <2>4, <2>5
    <2>6. past'[id][x] = files[x]
      BY <2>2, <2>4, <2>5
    <2>7. CASE k = 1
      <3>0. id = last + 1 /\ last \in Nat
        BY <2>1, <2>7, Typed
      <3>1. id - 1 = last /\ id - 1 \in 0..last
        BY <3>0
      <3>2. past'[id - 1] = past[last]
        BY <1>1, <3>1 DEF Extends
      <3>3. \A q \in Path : q \notin {e.path, e.old} =>
              past'[id][q] = past'[id - 1][q] \/ Hushed(q, id)'
        <4> SUFFICES ASSUME NEW q \in Path, q \notin {e.path, e.old}
                     PROVE  past'[id][q] = past'[id - 1][q] \/ Hushed(q, id)'
          OBVIOUS
        <4>1. id \in Nat /\ last < id
          BY <2>1, Typed
        <4>2. CASE q \in ScanRevivals
          <5>1. q \in Quiet
            BY <4>2 DEF Quiet
          <5> QED
            BY <1>8, <4>1, <5>1
        <4>3. CASE q \notin ScanRevivals
          <5>1. \A i \in 1..k : order[i] # q
            BY <2>2, <2>4, <2>7
          <5>2. past'[id][q] = Latest(q)
            BY <2>5, <4>3, <5>1
          <5>3. ASSUME Hidden(q) PROVE Hushed(q, id)'
            <6>1. ASSUME NEW j \in (last + 1)..last', j <= id PROVE ~Touches(j, q)'
              <7>1. j = id
                BY <3>1, <4>1, <6>1, Typed
              <7>2. log'[j].path # q /\ log'[j].old = None
                BY <2>4, <7>1
              <7> QED
                BY <7>2, Typed DEF Touches
            <6> QED
              BY <1>1, <4>1, <5>3, <6>1, HushedOn
          <5>4. Linked(q)
            BY DEF HistoryInv
          <5> QED
            BY <3>2, <5>2, <5>3, <5>4 DEF Linked
        <4> QED
          BY <4>2, <4>3
      <3>4. SilentBefore(id, x)' \/ past'[id - 1][x] = Latest(x)
        <4>1. id \in Nat /\ last < id
          BY <3>0
        <4>2. \A j \in (last + 1)..last' : j < id => ~Touches(j, x)'
          BY <3>0
        <4>3. Hidden(x) => SilentBefore(id, x)'
          BY <2>4, <2>9, <4>1, <4>2, SilentBeforeOn
        <4> QED
          BY <2>4, <3>2, <4>3, NeverHushed
      <3>5. \A q \in Path : q \in {e.path, e.old} =>
              \/ SilentBefore(id, q)'
              \/ IF e.old = q \/ e.kind \in {"MODIFIED", "DELETED"}
                 THEN /\ e.prev # None
                      /\ \/ e.prev = past'[id - 1][q]
                         \/ e.path = q /\ e.kind = "MODIFIED" /\ past'[id - 1][q] = None
                 ELSE past'[id - 1][q] = None \/ e.kind = "RENAMED"
        <4> SUFFICES ASSUME NEW q \in Path, q \in {e.path, e.old},
                            ~SilentBefore(id, q)'
                     PROVE  IF e.old = q \/ e.kind \in {"MODIFIED", "DELETED"}
                            THEN /\ e.prev # None
                                 /\ \/ e.prev = past'[id - 1][q]
                                    \/ /\ e.path = q /\ e.kind = "MODIFIED"
                                       /\ past'[id - 1][q] = None
                            ELSE past'[id - 1][q] = None \/ e.kind = "RENAMED"
          OBVIOUS
        <4>1. q = x /\ e.old # q
          BY <2>4, Typed
        <4>2. past'[id - 1][q] = Latest(x)
          BY <3>4, <4>1
        <4>3. CASE files[x] = None
          BY <2>4, <4>1, <4>2, <4>3
        <4>4. CASE files[x] # None
          <5>1. \/ e.kind = "CREATED" /\ Latest(x) = None
                \/ /\ e.kind = "MODIFIED" /\ e.prev # None
                   /\ e.prev = Latest(x) \/ Latest(x) = None
            BY <2>4, <4>4
          <5> QED
            BY <2>4, <4>1, <4>2, <5>1
        <4> QED
          BY <4>3, <4>4
      <3>6. /\ IF e.kind = "DELETED" THEN past'[id][e.path] = None
                ELSE e.hash \in Value /\ past'[id][e.path] = e.hash
            /\ IF e.old = None THEN e.kind # "RENAMED" ELSE e.kind = "RENAMED" /\ e.old # e.path /\ past'[id][e.old] = None
        BY <2>4, <2>6
      <3> QED
        BY <2>9, <3>3, <3>5, <3>6, EventSound
    <2>8. CASE k # 1
      <3>1. k - 1 \in 1..n /\ id - 1 = last + (k - 1)
        BY <2>1, <2>8, Typed
      <3>2. \A q \in Path : past'[id - 1][q] =
                               IF q \in ScanRevivals \/ \E i \in 1..(k - 1) : order[i] = q
                                 THEN files[q] ELSE Latest(q)
        BY <1>2, <3>1
      <3>3. \A q \in Path : q \notin {e.path, e.old} => past'[id][q] = past'[id - 1][q]
        <4> SUFFICES ASSUME NEW q \in Path, q \notin {e.path, e.old}
                     PROVE  past'[id][q] = past'[id - 1][q]
          OBVIOUS
        <4>1. order[k] # q
          BY <2>2, <2>4
        <4>2. (\E i \in 1..k : order[i] = q) <=> \E i \in 1..(k - 1) : order[i] = q
          BY <4>1
        <4> QED
          BY <2>5, <3>2, <4>2
      <3>4. past'[id - 1][x] = Latest(x)
        <4>1. \A i \in 1..(k - 1) : order[i] # x
          BY <1>2, <2>2
        <4>2. x \notin ScanRevivals
          BY <1>4 DEF Quiet
        <4> QED
          BY <2>4, <3>2, <4>1, <4>2
      <3>5. \A q \in Path : q \in {e.path, e.old} =>
              \/ SilentBefore(id, q)'
              \/ IF e.old = q \/ e.kind \in {"MODIFIED", "DELETED"}
                 THEN /\ e.prev # None
                      /\ \/ e.prev = past'[id - 1][q]
                         \/ e.path = q /\ e.kind = "MODIFIED" /\ past'[id - 1][q] = None
                 ELSE past'[id - 1][q] = None \/ e.kind = "RENAMED"
        <4> SUFFICES ASSUME NEW q \in Path, q \in {e.path, e.old},
                            ~SilentBefore(id, q)'
                     PROVE  IF e.old = q \/ e.kind \in {"MODIFIED", "DELETED"}
                            THEN /\ e.prev # None
                                 /\ \/ e.prev = past'[id - 1][q]
                                    \/ /\ e.path = q /\ e.kind = "MODIFIED"
                                       /\ past'[id - 1][q] = None
                            ELSE past'[id - 1][q] = None \/ e.kind = "RENAMED"
          OBVIOUS
        <4>1. q = x /\ e.old # q
          BY <2>4, Typed
        <4>2. past'[id - 1][q] = Latest(x)
          BY <3>4, <4>1
        <4>3. CASE files[x] = None
          BY <2>4, <4>1, <4>2, <4>3
        <4>4. CASE files[x] # None
          <5>1. \/ e.kind = "CREATED" /\ Latest(x) = None
                \/ /\ e.kind = "MODIFIED" /\ e.prev # None
                   /\ e.prev = Latest(x) \/ Latest(x) = None
            BY <2>4, <4>4
          <5> QED
            BY <2>4, <4>1, <4>2, <5>1
        <4> QED
          BY <4>3, <4>4
      <3>6. /\ IF e.kind = "DELETED" THEN past'[id][e.path] = None
                ELSE e.hash \in Value /\ past'[id][e.path] = e.hash
            /\ IF e.old = None THEN e.kind # "RENAMED" ELSE e.kind = "RENAMED" /\ e.old # e.path /\ past'[id][e.old] = None
        BY <2>4, <2>6
      <3>7. \A q \in Path : q \notin {e.path, e.old} =>
              past'[id][q] = past'[id - 1][q] \/ Hushed(q, id)'
        BY <3>3
      <3> QED
        BY <2>9, <3>5, <3>6, <3>7, EventSound
    <2> QED
      BY <2>7, <2>8
  <1>10. ASSUME NEW p \in Path
         PROVE  /\ rows'[p] \in {None} \cup [hash: Value, exists: BOOLEAN]
                /\ rows'[p] = IF files[p] # None THEN Row(files[p], TRUE)
                              ELSE IF p \in ScanDeletions THEN Gone(p) ELSE rows[p]
                /\ rows[p] # None => rows'[p] # None
                /\ files[p] # None => Latest(p)' = files[p]
                /\ p \in ScanDeletions => Latest(p)' = None /\ files[p] = None
                /\ files[p] = None /\ p \notin ScanDeletions => Latest(p)' = Latest(p)
                /\ rows'[p] # None =>
                     \/ files[p] # None /\ rows'[p].hash = files[p]
                     \/ rows[p] # None /\ rows'[p].hash = rows[p].hash
    <2>1. rows'[p] = IF files[p] # None THEN Row(files[p], TRUE)
                     ELSE IF p \in ScanDeletions THEN Gone(p) ELSE rows[p]
      BY <1>3
    <2>2. CASE files[p] # None
      <3>1. files[p] \in Value /\ rows'[p] = Row(files[p], TRUE) /\ p \notin ScanDeletions
        BY <2>1, <2>2, Typed DEF ScanDeletions, ScanMissing
      <3>2. rows'[p] \in [hash: Value, exists: BOOLEAN]
        BY <3>1 DEF Row
      <3>3. Latest(p)' = files[p] /\ rows'[p] # None /\ rows'[p].hash = files[p]
        BY <3>1, RowIs
      <3> QED
        BY <2>1, <2>2, <3>1, <3>2, <3>3
    <2>3. CASE files[p] = None /\ p \in ScanDeletions
      <3>1. rows'[p] = Gone(p) /\ rows[p] # None
        BY <2>1, <2>3 DEF ScanDeletions, ScanMissing, Exists
      <3>2. rows'[p] \in [hash: Value, exists: BOOLEAN]
        BY <3>1, Typed DEF Gone
      <3>3. Latest(p)' = None /\ rows'[p] # None /\ rows'[p].hash = rows[p].hash
        BY <3>1, GoneIs
      <3>4. rows'[p] = IF files[p] # None THEN Row(files[p], TRUE)
                       ELSE IF p \in ScanDeletions THEN Gone(p) ELSE rows[p]
        BY <2>1
      <3> QED
        BY <2>3, <3>1, <3>2, <3>3, <3>4
    <2>4. CASE files[p] = None /\ p \notin ScanDeletions
      <3>1. rows'[p] = rows[p]
        BY <2>1, <2>4
      <3> QED
        BY <2>1, <2>4, <3>1, Typed DEF Latest, Exists
    <2> QED
      BY <2>2, <2>3, <2>4
  <1>11. rows' \in [Path -> {None} \cup [hash: Value, exists: BOOLEAN]]
    BY <1>3, <1>10
  <1>12. Rowed'
    <2>1. ASSUME NEW s \in silent' PROVE rows'[s[1]] # None
      <3>1. CASE s \in silent
        <4>1. s[1] \in Path /\ rows[s[1]] # None
          BY <3>1 DEF HistoryInv, Bounded, Rowed
        <4> QED
          BY <1>10, <4>1
      <3>2. CASE s \notin silent
        <4>1. PICK q \in Quiet : s = <<q, last>>
          BY <1>3, <3>2
        <4>2. rows[q] # None /\ q \in Path
          <5>1. CASE q \in ScanRevivals
            <6>1. rows[q] = Row(files[q], FALSE) /\ files[q] \in Value /\ q \in Path
              BY <5>1, Typed DEF ScanRevivals
            <6>2. rows[q] \in [hash: Value, exists: BOOLEAN]
              BY <6>1 DEF Row
            <6> QED
              BY <6>1, <6>2, Typed
          <5>2. CASE q \in ScanIgnored
            BY <5>2 DEF ScanIgnored, ScanMissing, Exists
          <5> QED
            BY <5>1, <5>2 DEF Quiet
        <4> QED
          BY <1>10, <4>1, <4>2
      <3> QED
        BY <3>1, <3>2
    <2> QED
      BY <2>1 DEF Rowed
  <1>13. ASSUME NEW p \in Path PROVE Linked(p)'
    <2>0. last \in Nat /\ n \in Nat
      BY Typed
    <2>1. CASE p \in Quiet
      <3>1. PICK top \in Nat : top = last'
        BY <1>1 DEF Extends
      <3>2. last <= top
        BY <1>1, <3>1 DEF Extends
      <3>3. top + 1 \in Nat /\ last < top + 1
        BY <2>0, <3>2
      <3>4. Hushed(p, top + 1)'
        BY <1>8, <2>1, <3>3
      <3>5. Hidden(p)'
        BY <3>1, <3>4 DEF Hidden, Hushed
      <3> QED
        BY <3>5 DEF Linked
    <2>2. CASE p \in Changed
      <3>1. PICK i \in 1..n : order[i] = p
        BY <1>2, <2>2
      <3>2. n \in 1..n
        BY <3>1
      <3>3. past'[last'][p] = files[p]
        BY <1>2, <3>1, <3>2
      <3>4. Latest(p)' = files[p]
        <4>1. files[p] # None \/ p \in ScanDeletions
          BY <2>2 DEF Changed, ScanWrites
        <4> QED
          BY <1>10, <4>1
      <3> QED
        BY <1>3, <3>3, <3>4 DEF Linked
    <2>3. CASE p \notin Changed /\ p \notin Quiet
      <3>1. Latest(p) = files[p] /\ Latest(p)' = files[p]
        <4>1. CASE files[p] # None
          <5>1. rows[p] # None /\ rows[p].hash = files[p]
            BY <2>3, <4>1 DEF Changed, ScanWrites
          <5>2. rows[p] \in [hash: Value, exists: BOOLEAN]
            BY <5>1, Typed
          <5>3. rows[p].exists
            <6> SUFFICES ASSUME ~rows[p].exists PROVE FALSE
              OBVIOUS
            <6>1. rows[p].exists = FALSE
              BY <5>2
            <6>2. rows[p] = Row(files[p], FALSE)
              BY <5>1, <5>2, <6>1 DEF Row
            <6> QED
              BY <2>3, <4>1, <6>2 DEF Quiet, ScanRevivals
          <5> QED
            BY <1>10, <4>1, <5>1, <5>3 DEF Latest, Exists
        <4>2. CASE files[p] = None
          <5>1. ~Exists(p)
            BY <2>3, <4>2 DEF Changed, Quiet, ScanDeletions, ScanMissing
          <5>2. p \notin ScanDeletions
            BY <2>3 DEF Changed
          <5> QED
            BY <1>10, <4>2, <5>1, <5>2, LatestIs
        <4> QED
          BY <4>1, <4>2
      <3>2. past'[last'][p] = Latest(p) \/ Hidden(p)'
        <4>1. CASE n = 0
          <5>1. last' = last /\ last \in 0..last
            BY <1>2, <2>0, <4>1
          <5>2. past'[last'] = past[last]
            BY <1>1, <5>1 DEF Extends
          <5>3. Linked(p)
            BY DEF HistoryInv
          <5>4. Hidden(p) => Hidden(p)'
            BY <1>1, <1>7, <2>3, StillHidden
          <5> QED
            BY <5>2, <5>3, <5>4 DEF Linked
        <4>2. CASE n # 0
          <5>1. n \in 1..n
            BY <2>0, <4>2
          <5>2. p \notin ScanRevivals /\ \A i \in 1..n : order[i] # p
            BY <1>6, <2>3 DEF Quiet
          <5> QED
            BY <1>2, <5>1, <5>2
        <4> QED
          BY <4>1, <4>2
      <3> QED
        BY <1>3, <3>1, <3>2 DEF Linked
    <2> QED
      BY <2>1, <2>2, <2>3
  <1>14. files' \in States
    BY <1>3, Typed DEF States
  <1>15. ASSUME NEW p \in Path, rows'[p] # None
         PROVE  rows'[p].hash = past'[last'][p] \/ (rows[p] # None /\ rows'[p].hash = rows[p].hash)
    <2>1. CASE files[p] # None /\ rows'[p].hash = files[p]
      <3>1. CASE p \in Changed
        <4>1. PICK i \in 1..n : order[i] = p
          BY <1>2, <3>1
        <4>2. n \in 1..n
          BY <4>1
        <4> QED
          BY <1>2, <2>1, <4>1, <4>2
      <3>2. CASE p \notin Changed
        <4>1. rows[p] # None /\ rows[p].hash = files[p]
          BY <2>1, <3>2 DEF Changed, ScanWrites
        <4> QED
          BY <2>1, <4>1
      <3> QED
        BY <3>1, <3>2
    <2> QED
      BY <1>10, <1>15, <2>1
  <1> QED
    BY <1>1, <1>3, <1>9, <1>11, <1>12, <1>13, <1>14, <1>15, CommitEnds

-------------------------------------------------------------------------------
(* Steps that record nothing.                                              *)

LEMMA QuietKeeps ==
    ASSUME HistoryInv, rows' = rows, log' = log, last' = last, past' = past,
           pruned' = pruned, silent' = silent,
           files' \in States, up' \in BOOLEAN, up' => up /\ files' = files,
           now' \in 1..MaxTime, slips' \in 0..MaxSlips, slips' = 0 => slips = 0 /\ now <= now',
           runs' \in RunsUpTo(last)
    PROVE  HistoryInv'
  <1>1. TypeOK'
    <2>1. (States)' = States /\ (Event)' = Event
      BY DEF States, Event
    <2> QED
      BY <2>1 DEF HistoryInv, TypeOK
  <1>2. Bounded'
    <2>1. (States)' = States
      BY DEF States
    <2> QED
      BY <2>1 DEF HistoryInv, Bounded
  <1>3. Ids' = Ids
    BY DEF Ids
  <1>4. Gapless' /\ Rowed'
    BY <1>3 DEF HistoryInv, Gapless, Rowed
  <1>5. ASSUME NEW id \in Ids'
        PROVE  Shows(id)' /\ TookAway(id)' /\ \A p \in Path : Stays(id, p)' /\ Tells(id, p)'
    <2>1. Shows(id)' /\ TookAway(id)'
      <3>1. Shows(id) /\ TookAway(id)
        BY <1>3 DEF HistoryInv
      <3> QED
        BY <3>1 DEF Shows, TookAway, Once
    <2>2. ASSUME NEW p \in Path PROVE Stays(id, p)'
      <3>1. Stays(id, p)
        BY <1>3 DEF HistoryInv
      <3>2. Hushed(p, id) => Hushed(p, id)'
        BY <1>3 DEF Hushed, Touches
      <3> QED
        BY <3>1, <3>2 DEF Stays, Touches
    <2>3. ASSUME NEW p \in Path PROVE Tells(id, p)'
      <3>1. Tells(id, p)
        BY <1>3 DEF HistoryInv
      <3> QED
        BY <1>3, <3>1 DEF Tells, SilentBefore, Touches, SourceBefore, ShowsPresence, Misleading
    <2> QED
      BY <2>1, <2>2, <2>3
  <1>6. ASSUME NEW p \in Path PROVE Linked(p)' /\ Remembered(p)'
    <2>1. Linked(p) /\ Remembered(p)
      BY DEF HistoryInv
    <2>2. Latest(p)' = Latest(p)
      BY DEF Latest, Exists
    <2>3. Hidden(p) => Hidden(p)'
      BY <1>3 DEF Hidden, Hushed, Touches
    <2>4. Remembered(p)'
      BY <2>1 DEF Remembered, Once
    <2> QED
      BY <2>1, <2>2, <2>3, <2>4 DEF Linked
  <1>7. Timely'
    <2> SUFFICES ASSUME slips' = 0
                 PROVE  /\ \A id \in Ids' : log'[id].time <= now' /\ pruned' < id
                        /\ \A i, j \in Ids' : i < j => log'[i].time <= log'[j].time
      BY DEF Timely
    <2>1. now' \in Nat /\ now \in Nat /\ now <= now'
      BY Typed
    <2>2. /\ \A id \in Ids : log[id].time \in Nat /\ log[id].time <= now /\ pruned < id
          /\ \A i, j \in Ids : i < j => log[i].time <= log[j].time
      BY Typed DEF HistoryInv, Timely
    <2> QED
      BY <1>3, <2>1, <2>2
  <1> QED
    BY <1>1, <1>2, <1>4, <1>5, <1>6, <1>7 DEF HistoryInv

LEMMA MaxEventIdIs ==
    ASSUME HistoryInv
    PROVE  /\ MaxEventId \in 0..last
           /\ \A id \in Ids : id <= MaxEventId
           /\ MaxEventId # 0 => MaxEventId \in Ids
  <1>1. last \in Nat /\ Ids \in SUBSET Nat /\ Ids \subseteq 1..last /\ \A x \in Ids : x <= last
    BY Typed
  <1>2. CASE Ids = {}
    BY <1>1, <1>2 DEF MaxEventId
  <1>3. CASE Ids # {}
    <2>1. Max(Ids) \in Ids /\ \A y \in Ids : y <= Max(Ids)
      BY <1>1, <1>3, MaxIsGreatest
    <2>2. PICK m \in Ids : m = Max(Ids) /\ \A y \in Ids : y <= m
      BY <2>1
    <2>3. m \in 0..last
      BY <1>1, <2>2
    <2>4. MaxEventId = m
      BY <1>3, <2>2 DEF MaxEventId
    <2> QED
      BY <2>2, <2>3, <2>4
  <1> QED
    BY <1>2, <1>3

LEMMA PruningKeeps ==
    ASSUME HistoryInv, NEW t \in 1..MaxTime, DeleteEventsBefore(t)
    PROVE  HistoryInv'
  <1>1. /\ log' = [id \in EventsSince(t) |-> log[id]]
        /\ pruned' = Max((Ids \ EventsSince(t)) \cup {pruned})
        /\ files' = files /\ up' = up /\ rows' = rows /\ last' = last /\ now' = now
        /\ slips' = slips /\ runs' = runs /\ past' = past /\ silent' = silent
    BY DEF DeleteEventsBefore
  <1>2. Ids' = EventsSince(t) /\ Ids' \subseteq Ids /\ \A id \in Ids' : log'[id] = log[id]
    BY <1>1 DEF Ids, EventsSince
  <1>3. /\ pruned' \in (Ids \ Ids') \cup {pruned} /\ pruned' \in Nat /\ pruned' <= last /\ pruned <= pruned'
        /\ \A y \in Ids \ Ids' : y <= pruned'
    <2>1. PICK S : S = (Ids \ EventsSince(t)) \cup {pruned}
      OBVIOUS
    <2>2. S \in SUBSET Nat /\ S # {} /\ last \in Nat /\ \A x \in S : x <= last
      BY <2>1, Typed
    <2>3. Max(S) \in S /\ \A y \in S : y <= Max(S)
      BY <2>2, MaxIsGreatest
    <2> QED
      BY <1>1, <1>2, <2>1, <2>2, <2>3
  <1>4. TypeOK'
    <2>1. (States)' = States /\ (Event)' = Event
      BY DEF States, Event
    <2>2. DOMAIN log' \subseteq 1..last' /\ \A id \in DOMAIN log' : log'[id] \in Event
      BY <1>1, <1>2, Typed DEF Ids
    <2>3. pruned' \in 0..last'
      BY <1>1, <1>3
    <2>4. TypeOK
      BY DEF HistoryInv
    <2> QED
      BY <1>1, <2>1, <2>2, <2>3, <2>4 DEF TypeOK
  <1>5. Bounded'
    <2>1. (States)' = States
      BY DEF States
    <2> QED
      BY <1>1, <2>1 DEF HistoryInv, Bounded
  <1>6. Gapless'
    <2>1. ASSUME NEW id \in Nat, pruned' < id, id <= last PROVE id \in Ids'
      <3>1. pruned < id
        BY <1>3, <2>1, Typed
      <3>2. id \in Ids
        BY <2>1, <3>1 DEF HistoryInv, Gapless
      <3> QED
        BY <1>3, <2>1, <3>2, Typed
    <2> QED
      BY <1>1, <2>1 DEF Gapless
  <1>7. Rowed'
    BY <1>1 DEF HistoryInv, Rowed
  <1>8. ASSUME NEW id \in Ids'
        PROVE  Shows(id)' /\ TookAway(id)' /\ \A p \in Path : Stays(id, p)' /\ Tells(id, p)'
    <2>1. id \in Ids /\ log'[id] = log[id]
      BY <1>2
    <2>2. Shows(id)' /\ TookAway(id)'
      <3>1. Shows(id) /\ TookAway(id)
        BY <2>1 DEF HistoryInv
      <3> QED
        BY <1>1, <2>1, <3>1 DEF Shows, TookAway, Once
    <2>3. ASSUME NEW p \in Path PROVE Stays(id, p)'
      <3>1. Stays(id, p)
        BY <2>1 DEF HistoryInv
      <3>2. Hushed(p, id) => Hushed(p, id)'
        BY <1>1, <1>2 DEF Hushed, Touches
      <3> QED
        BY <1>1, <2>1, <3>1, <3>2 DEF Stays, Touches
    <2>4. ASSUME NEW p \in Path PROVE Tells(id, p)'
      <3>1. Tells(id, p)
        BY <2>1 DEF HistoryInv
      <3>2. SilentBefore(id, p) => SilentBefore(id, p)'
        BY <1>1, <1>2 DEF SilentBefore, Touches
      <3> QED
        BY <1>1, <2>1, <3>1, <3>2 DEF Tells, Touches, SourceBefore, ShowsPresence, Misleading
    <2> QED
      BY <2>2, <2>3, <2>4
  <1>9. ASSUME NEW p \in Path PROVE Linked(p)' /\ Remembered(p)'
    <2>1. Linked(p) /\ Remembered(p)
      BY DEF HistoryInv
    <2>2. Latest(p)' = Latest(p)
      BY <1>1 DEF Latest, Exists
    <2>3. Hidden(p) => Hidden(p)'
      BY <1>1, <1>2 DEF Hidden, Hushed, Touches
    <2>4. Remembered(p)'
      BY <1>1, <2>1 DEF Remembered, Once
    <2> QED
      BY <1>1, <2>1, <2>2, <2>3, <2>4 DEF Linked
  <1>10. Timely'
    <2> SUFFICES ASSUME slips = 0
                 PROVE  /\ \A id \in Ids' : log'[id].time <= now' /\ pruned' < id
                        /\ \A i, j \in Ids' : i < j => log'[i].time <= log'[j].time
      BY <1>1 DEF Timely
    <2>2. /\ \A id \in Ids : log[id].time \in Nat /\ log[id].time <= now /\ pruned < id
          /\ \A i, j \in Ids : i < j => log[i].time <= log[j].time
      BY Typed DEF HistoryInv, Timely
    <2>3. ASSUME NEW id \in Ids' PROVE pruned' < id
      <3>1. CASE pruned' = pruned
        BY <1>2, <2>2, <3>1
      <3>2. CASE pruned' # pruned
        <4>1. PICK j \in Ids \ Ids' : j = pruned'
          BY <1>3, <3>2
        <4>2. log[j].time < t /\ log[id].time >= t
          BY <1>2, <2>2, <4>1 DEF EventsSince
        <4>3. id # j /\ ~(id < j)
          BY <1>2, <2>2, <4>1, <4>2
        <4>4. id \in Nat /\ j \in Nat
          BY <1>2, Typed
        <4>5. j < id
          BY <4>3, <4>4
        <4> QED
          BY <4>1, <4>5
      <3> QED
        BY <3>1, <3>2
    <2> QED
      BY <1>1, <1>2, <2>2, <2>3
  <1> QED
    BY <1>4, <1>5, <1>6, <1>7, <1>8, <1>9, <1>10 DEF HistoryInv

-------------------------------------------------------------------------------
(* The theorems of the specification.                                      *)

LEMMA InitHolds == Init => HistoryInv
  <1> SUFFICES ASSUME Init PROVE HistoryInv
    OBVIOUS
  <1>1. /\ files = [p \in Path |-> None] /\ up = TRUE /\ rows = [p \in Path |-> None]
        /\ log = <<>> /\ last = 0 /\ now = 1 /\ slips = 0 /\ pruned = 0 /\ silent = {}
        /\ runs = [r \in Run |-> Idle] /\ past = [id \in {0} |-> [p \in Path |-> None]]
    BY DEF Init
  <1>2. Ids = {}
    BY <1>1 DEF Ids
  <1>3. /\ MaxEvents \in Nat /\ MaxTime \in Nat /\ MaxTime # 0 /\ MaxSlips \in Nat
    BY HistoryConstants
  <1>4. TypeOK
    <2>1. DOMAIN past = 0..last /\ last \in 0..MaxEvents /\ now \in 1..MaxTime
          /\ slips \in 0..MaxSlips /\ pruned \in 0..last
      BY <1>1, <1>3
    <2> QED
      BY <1>1, <1>2, <2>1 DEF TypeOK, States, Ids
  <1>5. Bounded
    BY <1>1 DEF Bounded, States, Idle, RunsUpTo
  <1>6. ASSUME NEW p \in Path PROVE Linked(p) /\ Remembered(p)
    BY <1>1 DEF Linked, Latest, Exists, Remembered
  <1> QED
    BY <1>1, <1>2, <1>4, <1>5, <1>6 DEF HistoryInv, Gapless, Rowed, Timely

\* One step per action.
LEMMA NextKeeps == HistoryInv /\ [Next]_vars => HistoryInv'
  <1> SUFFICES ASSUME HistoryInv, [Next]_vars PROVE HistoryInv'
    OBVIOUS
  <1>1. /\ files \in States /\ up \in BOOLEAN /\ now \in 1..MaxTime /\ slips \in 0..MaxSlips
        /\ runs \in RunsUpTo(last)
    BY DEF HistoryInv, TypeOK, Bounded
  <1>2. now \in Nat /\ slips \in Nat /\ MaxTime \in Nat /\ MaxSlips \in Nat
    BY Typed, HistoryConstants
  <1>3. ASSUME NEW p \in Path, NEW c \in Value, Write(p, c) PROVE HistoryInv'
    BY <1>3, WriteKeeps
  <1>4. ASSUME NEW p \in Path, NEW c \in Value \cup {None}, Unseen(p, c) PROVE HistoryInv'
    <2>1. files' = [files EXCEPT ![p] = c] /\ ~up /\ up' = up
      BY <1>4 DEF Unseen
    <2>2. files' \in States
      BY <1>1, <2>1 DEF States
    <2> QED
      BY <1>1, <1>2, <1>4, <2>1, <2>2, QuietKeeps DEF Unseen, recorded
  <1>5. ASSUME NEW p \in Path, Erase(p) PROVE HistoryInv'
    BY <1>5, EraseKeeps
  <1>6. ASSUME NEW p \in Path, NEW q \in Path, Move(p, q) PROVE HistoryInv'
    BY <1>6, MoveKeeps
  <1>7. CASE Stop
    <2>1. files' = files /\ up' \in BOOLEAN /\ (up' => up /\ files' = files)
      BY <1>7 DEF Stop
    <2>2. /\ rows' = rows /\ log' = log /\ last' = last /\ past' = past /\ pruned' = pruned
          /\ silent' = silent /\ now' = now /\ slips' = slips /\ runs' = runs
      BY <1>7 DEF Stop, recorded
    <2> QED
      BY <1>1, <1>2, <2>1, <2>2, QuietKeeps
  <1>8. CASE Scan
    BY <1>8, ScanKeeps
  <1>9. CASE Tick
    <2>1. now' \in 1..MaxTime /\ now <= now' /\ slips' = slips
      BY <1>1, <1>2, <1>9 DEF Tick
    <2> QED
      BY <1>1, <1>9, <2>1, QuietKeeps DEF Tick, recorded
  <1>10. CASE StepBack
    <2>1. now' \in 1..MaxTime /\ slips' \in 0..MaxSlips /\ slips' # 0
      BY <1>1, <1>2, <1>10 DEF StepBack
    <2> QED
      BY <1>1, <1>10, <2>1, QuietKeeps DEF StepBack, recorded
  <1>11. ASSUME NEW t \in 1..MaxTime, DeleteEventsBefore(t) PROVE HistoryInv'
    BY <1>11, PruningKeeps
  <1>12. ASSUME NEW r \in Run, NEW mode \in {"window", "reported"}, StartRun(r, mode)
         PROVE  HistoryInv'
    <2>1. PICK new : new = [Idle EXCEPT !.mode = mode, !.start = MaxEventId]
      OBVIOUS
    <2>2. new \in [mode: {"none", "window", "reported"}, start: 0..last,
                   end: {None} \cup (0..last), claims: SUBSET (1..last)]
      BY <2>1, MaxEventIdIs DEF Idle
    <2>3. runs' = [runs EXCEPT ![r] = new]
      BY <1>12, <2>1 DEF StartRun
    <2>4. runs' \in RunsUpTo(last)
      BY <1>1, <2>2, <2>3 DEF RunsUpTo
    <2> QED
      BY <1>1, <1>2, <1>12, <2>4, QuietKeeps DEF StartRun, recorded
  <1>13. ASSUME NEW r \in Run, NEW p \in Path, Claim(r, p) PROVE HistoryInv'
    <2>1. PICK claims : claims = runs[r].claims \cup
                                 {id \in EventsBetween(runs[r].start, MaxEventId) : Touches(id, p)}
      OBVIOUS
    <2>2. claims \in SUBSET (1..last)
      BY <1>1, <2>1, Typed DEF RunsUpTo, EventsBetween
    <2>3. runs' = [runs EXCEPT ![r].claims = claims]
      BY <1>13, <2>1 DEF Claim
    <2>4. runs' \in RunsUpTo(last)
      BY <1>1, <2>2, <2>3 DEF RunsUpTo
    <2> QED
      BY <1>1, <1>2, <1>13, <2>4, QuietKeeps DEF Claim, recorded
  <1>14. ASSUME NEW r \in Run, EndRun(r) PROVE HistoryInv'
    <2>1. PICK claims : claims = IF runs[r].mode = "window"
                                   THEN EventsBetween(runs[r].start, MaxEventId) ELSE runs[r].claims
      OBVIOUS
    <2>2. claims \in SUBSET (1..last)
      BY <1>1, <2>1, Typed DEF RunsUpTo, EventsBetween
    <2>3. runs' = [runs EXCEPT ![r].end = MaxEventId, ![r].claims = claims]
      BY <1>14, <2>1 DEF EndRun
    <2>4. runs' \in RunsUpTo(last)
      <3>1. MaxEventId \in {None} \cup (0..last)
        BY MaxEventIdIs
      <3> QED
        BY <1>1, <2>2, <2>3, <3>1 DEF RunsUpTo
    <2> QED
      BY <1>1, <1>2, <1>14, <2>4, QuietKeeps DEF EndRun, recorded
  <1>15. CASE UNCHANGED vars
    BY <1>1, <1>2, <1>15, QuietKeeps DEF vars
  <1> QED
    BY <1>3, <1>4, <1>5, <1>6, <1>7, <1>8, <1>9, <1>10, <1>11, <1>12, <1>13, <1>14, <1>15 DEF Next

\* In every reachable state the events that are left show what the files
\* were, up to what scans changed silently.
THEOREM Invariance == Spec => []HistoryInv
  <1> QED
    BY InitHolds, NextKeeps, PTL DEF Spec

\* The variables of History have their types.
THEOREM TypeCorrect == Spec => []TypeOK
  <1>1. HistoryInv => TypeOK
    BY DEF HistoryInv
  <1> QED
    BY <1>1, Invariance, PTL

-------------------------------------------------------------------------------
(* What the readers find at the boundary of an event.                      *)

\* The event a reader takes is an extreme of those it looks at, 0 if none.
LEMMA HighestIs ==
    ASSUME HistoryInv, NEW S \in SUBSET Ids
    PROVE  /\ Highest(S) \in 0..last
           /\ Highest(S) # 0 => Highest(S) \in S /\ \A y \in S : y <= Highest(S)
           /\ Highest(S) = 0 => S = {}
  <1>1. last \in Nat /\ S \in SUBSET Nat /\ S \subseteq 1..last /\ \A x \in S : x <= last
    BY Typed
  <1>2. CASE S = {}
    BY <1>1, <1>2 DEF Highest
  <1>3. CASE S # {}
    <2>1. Max(S) \in S /\ \A y \in S : y <= Max(S)
      BY <1>1, <1>3, MaxIsGreatest
    <2>2. PICK m \in S : m = Max(S) /\ \A y \in S : y <= m
      BY <2>1
    <2>3. Highest(S) = m
      BY <1>3, <2>2 DEF Highest
    <2>4. m \in 1..last
      BY <1>1, <2>2
    <2> QED
      BY <1>1, <2>2, <2>3, <2>4
  <1> QED
    BY <1>2, <1>3

LEMMA LowestIs ==
    ASSUME HistoryInv, NEW S \in SUBSET Ids
    PROVE  /\ Lowest(S) \in 0..last
           /\ Lowest(S) # 0 => Lowest(S) \in S /\ \A y \in S : Lowest(S) <= y
           /\ Lowest(S) = 0 => S = {}
  <1>1. last \in Nat /\ S \in SUBSET Nat /\ S \subseteq 1..last
    BY Typed
  <1>2. CASE S = {}
    BY <1>1, <1>2 DEF Lowest
  <1>3. CASE S # {}
    <2>1. Min(S) \in S /\ \A y \in S : Min(S) <= y
      BY <1>1, <1>3, MinIsLeast
    <2>2. PICK m \in S : m = Min(S) /\ \A y \in S : m <= y
      BY <2>1
    <2>3. Lowest(S) = m
      BY <1>3, <2>2 DEF Lowest
    <2>4. m \in 1..last
      BY <1>1, <2>2
    <2> QED
      BY <1>1, <2>2, <2>3, <2>4
  <1> QED
    BY <1>2, <1>3

\* Between two boundaries with no event about it, a path stays as it is,
\* unless a scan changed it silently.
LEMMA Constant ==
    ASSUME HistoryInv, NEW p \in Path, NEW a \in Nat, NEW b \in Nat,
           pruned <= a, a <= b, b <= last, \A j \in Ids : a < j /\ j <= b => ~Touches(j, p)
    PROVE  past[a][p] = past[b][p] \/ \E m \in Nat : a < m /\ m <= b /\ Hushed(p, m)
  <1> DEFINE Other == {id \in a..b : past[id][p] # past[a][p]}
  <1> SUFFICES ASSUME past[a][p] # past[b][p]
               PROVE  \E m \in Nat : a < m /\ m <= b /\ Hushed(p, m)
    OBVIOUS
  <1>1. Other \in SUBSET Nat /\ b \in Other
    OBVIOUS
  <1>2. PICK m \in Other : \A y \in Other : m <= y
    <2> HIDE DEF Other
    <2> QED
      BY <1>1, LeastOf
  <1>3. m \in Nat /\ a < m /\ m <= b /\ m - 1 \in a..b /\ m - 1 \in Nat /\ ~(m <= m - 1)
    BY <1>2
  <1>4. past[m][p] # past[m - 1][p]
    BY <1>2, <1>3
  <1>5. m \in Ids
    <2>1. pruned < m /\ m <= last
      BY <1>3, Typed
    <2> QED
      BY <1>3, <2>1 DEF HistoryInv, Gapless
  <1>6. ~Touches(m, p)
    BY <1>3, <1>5
  <1>7. Stays(m, p)
    BY <1>5 DEF HistoryInv
  <1> QED
    BY <1>3, <1>4, <1>6, <1>7 DEF Stays

\* An event shows what a path it is about is afterwards.
LEMMA StateFromIs ==
    ASSUME HistoryInv, NEW p \in Path, NEW id \in Ids, Touches(id, p)
    PROVE  StateFrom(id, p) = past[id][p]
  <1>1. Shows(id) /\ None \notin Value /\ None \notin Path
        /\ log[id].path \in Path
    BY Typed DEF HistoryInv
  <1>2. log[id].path = p \/ (log[id].old = p /\ log[id].path # p)
    BY DEF Touches
  <1> QED
    BY <1>1, <1>2 DEF Shows, StateFrom

\* The event that decides a path's state at a boundary, and the first one after.
LEMMA DecidingEvents ==
    ASSUME HistoryInv, NEW p \in Path, NEW b \in pruned..last,
           NEW at, at = PathStateEventAtId(p, b), NEW after, after = FirstPathEventAfterId(p, b)
    PROVE  /\ at \in 0..last
           /\ at # 0 => at \in Ids /\ Touches(at, p) /\ at <= b
           /\ \A j \in Ids : Touches(j, p) /\ j <= b => at # 0 /\ j <= at
           /\ after \in 0..last
           /\ after # 0 => after \in Ids /\ Touches(after, p) /\ b < after
           /\ \A j \in Ids : Touches(j, p) /\ b < j => after # 0 /\ after <= j
  <1>1. PICK S \in SUBSET Ids : S = {id \in Touching(p) : id <= b}
    BY DEF Touching
  <1>2. at = Highest(S)
    BY <1>1 DEF PathStateEventAtId
  <1>3. /\ at \in 0..last
        /\ at # 0 => at \in S /\ \A y \in S : y <= at
        /\ at = 0 => S = {}
    BY <1>2, HighestIs
  <1>4. PICK T \in SUBSET Ids : T = {id \in Touching(p) : id > b}
    BY DEF Touching
  <1>5. after = Lowest(T)
    BY <1>4 DEF FirstPathEventAfterId
  <1>6. /\ after \in 0..last
        /\ after # 0 => after \in T /\ \A y \in T : after <= y
        /\ after = 0 => T = {}
    BY <1>5, LowestIs
  <1>7. last \in Nat /\ pruned \in Nat /\ Ids \subseteq 1..last
    BY Typed
  <1> QED
    BY <1>1, <1>3, <1>4, <1>6, <1>7 DEF Touching

\* A silent change in the stretch that is read makes the state unclear.
LEMMA SilentIsUnclear ==
    ASSUME NEW p \in Path, NEW b, NEW k, <<p, k>> \in silent, PathStateEventAtId(p, b) <= k,
           IF PathStateEventAtId(p, b) # 0 THEN k <= b
           ELSE FirstPathEventAfterId(p, b) = 0 \/ k < FirstPathEventAfterId(p, b)
    PROVE  Unclear(p, b)
  <1>1. <<p, k>>[1] = p /\ <<p, k>>[2] = k
    OBVIOUS
  <1>2. Unrecorded(p, b)
    BY <1>1 DEF Unrecorded
  <1> QED
    BY <1>2 DEF Unclear

\* What is read at a boundary, with the event it is read from.
LEMMA BoundaryIs ==
    ASSUME HistoryInv, Whole, NEW p \in Path, NEW b \in pruned..last
    PROVE  \/ Unclear(p, b)
           \/ /\ StateAtId(p, b) = past[b][p]
              /\ PathStateEventAtId(p, b) # 0 \/ FirstPathEventAfterId(p, b) # 0
           \/ /\ StateAtId(p, b) = Unknown /\ Touching(p) = {}
              /\ PathStateEventAtId(p, b) = 0 /\ FirstPathEventAfterId(p, b) = 0
  <1>1. PICK at : at = PathStateEventAtId(p, b)
    OBVIOUS
  <1>2. PICK after : after = FirstPathEventAfterId(p, b)
    OBVIOUS
  <1>3. last \in Nat /\ pruned \in Nat /\ b \in Nat /\ pruned <= b /\ b <= last
        /\ Ids \subseteq 1..last
    BY Typed
  <1>4. /\ at \in 0..last
        /\ at # 0 => at \in Ids /\ Touches(at, p) /\ at <= b
        /\ \A j \in Ids : Touches(j, p) /\ j <= b => at # 0 /\ j <= at
    BY <1>1, <1>2, DecidingEvents
  <1>5. /\ after \in 0..last
        /\ after # 0 => after \in Ids /\ Touches(after, p) /\ b < after
        /\ \A j \in Ids : Touches(j, p) /\ b < j => after # 0 /\ after <= j
    BY <1>1, <1>2, DecidingEvents
  <1>6. StateAtId(p, b) = Resolve(p, at, after)
    BY <1>1, <1>2 DEF StateAtId
  <1>7. ASSUME NEW k \in 0..last, <<p, k>> \in silent, at <= k,
               IF at # 0 THEN k <= b ELSE after = 0 \/ k < after
        PROVE  Unclear(p, b)
    BY <1>1, <1>2, <1>7, SilentIsUnclear
  <1>8. CASE at # 0
    <2>1. StateAtId(p, b) = past[at][p]
      BY <1>4, <1>6, <1>8, StateFromIs DEF Resolve
    <2>2. at \in Nat /\ pruned <= at /\ at <= b
      BY <1>3, <1>4, <1>8 DEF Whole
    <2>3. \A j \in Ids : at < j /\ j <= b => ~Touches(j, p)
      BY <1>3, <1>4, <2>2
    <2>4. CASE past[at][p] = past[b][p]
      BY <1>1, <1>8, <2>1, <2>4
    <2>5. CASE \E m \in Nat : at < m /\ m <= b /\ Hushed(p, m)
      <3>1. PICK m \in Nat : at < m /\ m <= b /\ Hushed(p, m)
        BY <2>5
      <3>2. PICK k \in 0..(m - 1) : <<p, k>> \in silent
                                   /\ \A j \in Ids : k < j /\ j <= m => ~Touches(j, p)
        BY <3>1 DEF Hushed
      <3>3. at <= k
        BY <1>4, <1>8, <2>2, <3>1, <3>2
      <3>4. k \in 0..last /\ k <= b
        BY <1>3, <3>1, <3>2
      <3> QED
        BY <1>7, <1>8, <3>2, <3>3, <3>4
    <2> QED
      BY <1>3, <2>2, <2>3, <2>4, <2>5, Constant
  <1>9. CASE at = 0 /\ after # 0
    <2>1. StateAtId(p, b) = SourceBefore(after, p)
      BY <1>6, <1>9 DEF Resolve
    <2>2. PICK before \in Nat : before = after - 1 /\ b <= before /\ before <= last /\ after = before + 1
      BY <1>3, <1>5, <1>9
    <2>3. \A j \in Ids : b < j /\ j <= before => ~Touches(j, p)
      BY <1>3, <1>5, <2>2
    <2>4. CASE \E m \in Nat : b < m /\ m <= before /\ Hushed(p, m)
      <3>1. PICK m \in Nat : b < m /\ m <= before /\ Hushed(p, m)
        BY <2>4
      <3>2. PICK k \in 0..(m - 1) : <<p, k>> \in silent
        BY <3>1 DEF Hushed
      <3>3. k \in 0..last /\ k < after /\ at <= k
        BY <1>3, <1>9, <2>2, <3>1, <3>2
      <3> QED
        BY <1>7, <1>9, <3>2, <3>3
    <2>5. CASE past[b][p] = past[before][p]
      <3>1. Tells(after, p) /\ Touches(after, p)
        BY <1>5, <1>9 DEF HistoryInv
      <3>2. CASE SilentBefore(after, p)
        <4>1. PICK k \in 0..(after - 1) : <<p, k>> \in silent
          BY <3>2 DEF SilentBefore
        <4>2. k \in 0..last /\ k < after /\ at <= k
          BY <1>3, <1>9, <2>2, <4>1
        <4> QED
          BY <1>7, <1>9, <4>1, <4>2
      <3>3. CASE SourceBefore(after, p) = past[after - 1][p]
        BY <1>2, <1>9, <2>1, <2>2, <2>5, <3>3
      <3>4. CASE Misleading(after, p)
        BY <1>1, <1>2, <1>9, <3>4 DEF Unclear
      <3> QED
        BY <3>1, <3>2, <3>3, <3>4 DEF Tells
    <2> QED
      BY <1>3, <2>2, <2>3, <2>4, <2>5, Constant
  <1>10. CASE at = 0 /\ after = 0
    <2>1. Touching(p) = {}
      <3> SUFFICES ASSUME NEW j \in Ids, Touches(j, p) PROVE FALSE
        BY DEF Touching
      <3>1. j <= b \/ b < j
        BY <1>3
      <3> QED
        BY <1>4, <1>5, <1>10, <3>1
    <2>2. StateAtId(p, b) = Unknown
      BY <1>6, <1>10 DEF Resolve
    <2> QED
      BY <1>1, <1>2, <1>10, <2>1, <2>2
  <1> QED
    BY <1>8, <1>9, <1>10

\* At every boundary that retention has left, a path's state is what the file
\* was after that event; it is unknown only if no event of the path is left.
THEOREM BoundariesTrue == Spec => []StatesAreTrue
  <1>1. HistoryInv => StatesAreTrue
    BY BoundaryIs DEF StatesAreTrue
  <1> QED
    BY <1>1, Invariance, PTL

-------------------------------------------------------------------------------
(* What plans make of the files.                                           *)

\* A plan gives each path its planned state, if it has one, and leaves the
\* others; leaving out what matches already changes nothing.
LEMMA AppliedIs ==
    ASSUME NEW ps \in SUBSET Path, NEW state, DOMAIN state = ps,
           NEW plan, plan = Planned(state) \/ plan = Prepared(Planned(state)),
           NEW q \in Path
    PROVE  Applied(plan)[q] = IF q \in ps /\ (state[q] \in Value \/ state[q] = None)
                                THEN state[q] ELSE files[q]
  <1>1. \A e : e \in Planned(state) <=>
               \E x \in ps : /\ e = [path |-> x, target |-> state[x]]
                             /\ state[x] \in Value \/ (state[x] = None /\ files[x] # None)
    BY DEF Planned, Target
  <1>2. ASSUME NEW e \in plan
        PROVE  e \in Planned(state) /\ e.path \in ps /\ e.target = state[e.path]
               /\ (state[e.path] \in Value \/ state[e.path] = None)
    <2>1. e \in Planned(state)
      BY DEF Prepared
    <2>2. PICK x \in ps : /\ e = [path |-> x, target |-> state[x]]
                          /\ state[x] \in Value \/ (state[x] = None /\ files[x] # None)
      BY <1>1, <2>1
    <2> QED
      BY <2>1, <2>2
  <1>3. CASE \E e \in plan : e.path = q
    <2>1. PICK e \in plan : e.path = q /\ e = CHOOSE d \in plan : d.path = q
      BY <1>3
    <2>2. Applied(plan)[q] = e.target
      BY <1>3, <2>1 DEF Applied
    <2> QED
      BY <1>2, <2>1, <2>2
  <1>4. CASE ~\E e \in plan : e.path = q
    <2>1. Applied(plan)[q] = files[q]
      BY <1>4 DEF Applied
    <2>2. ASSUME q \in ps, state[q] \in Value \/ state[q] = None PROVE state[q] = files[q]
      <3> SUFFICES ASSUME state[q] # files[q] PROVE FALSE
        OBVIOUS
      <3>1. PICK e : e = [path |-> q, target |-> state[q]]
        OBVIOUS
      <3>2. e \in Planned(state) /\ e.path = q /\ e.target = state[q]
        BY <1>1, <2>2, <3>1
      <3>3. e \in plan
        BY <3>2 DEF Prepared
      <3> QED
        BY <1>4, <3>2, <3>3
    <2> QED
      BY <2>1, <2>2
  <1> QED
    BY <1>3, <1>4

\* The states that can be planned at a boundary.
LEMMA PathsAtIs ==
    ASSUME NEW ps \in SUBSET Path, NEW b, NEW q \in Path
    PROVE  /\ Applied(EventBoundaryRecovery(ps, b))[q] =
                 IF q \in ps /\ (StateAtId(q, b) \in Value \/ StateAtId(q, b) = None)
                   THEN StateAtId(q, b) ELSE files[q]
           /\ Applied(PathsAtEventId(ps, b))[q] =
                 IF q \in ps /\ (StateAtId(q, b) \in Value \/ StateAtId(q, b) = None)
                   THEN StateAtId(q, b) ELSE files[q]
  <1>1. PICK state : state = [x \in ps |-> StateAtId(x, b)]
    OBVIOUS
  <1>2. DOMAIN state = ps /\ (q \in ps => state[q] = StateAtId(q, b))
    BY <1>1
  <1>3. PathsAtEventId(ps, b) = Planned(state)
    BY <1>1 DEF PathsAtEventId
  <1>4. EventBoundaryRecovery(ps, b) = Prepared(Planned(state))
    BY <1>3 DEF EventBoundaryRecovery
  <1>5. Applied(EventBoundaryRecovery(ps, b))[q] =
           IF q \in ps /\ (state[q] \in Value \/ state[q] = None) THEN state[q] ELSE files[q]
    BY <1>2, <1>4, AppliedIs
  <1>6. Applied(PathsAtEventId(ps, b))[q] =
           IF q \in ps /\ (state[q] \in Value \/ state[q] = None) THEN state[q] ELSE files[q]
    BY <1>2, <1>3, AppliedIs
  <1> QED
    BY <1>2, <1>5, <1>6

\* Undoing a Run gives each of its files the content it had when the Run
\* started, touches no other and takes back nothing that is not its own.
LEMMA RunUndoneHolds == HistoryInv => RunUndone
  <1> SUFFICES ASSUME HistoryInv, NEW r \in Run, Whole, Completed(r), runs[r].start >= pruned,
                      NEW p \in Path, Recoverable(r, {p})
               PROVE  LET start == runs[r].start
                          undone == Applied(RunRecovery(r, {p}))
                      IN /\ Unclear(p, start) \/ undone[p] = past[start][p]
                         /\ \A q \in Path \ {p} : undone[q] = files[q]
                         /\ runs[r].mode = "reported" =>
                              \A id \in Touching(p) : id > start => Claimants(id) = {r}
    BY DEF RunUndone
  <1>1. PICK start \in pruned..last : start = runs[r].start
    <2>1. runs[r].start \in 0..last
      BY DEF HistoryInv, Bounded, RunsUpTo
    <2> QED
      BY <2>1, Typed
  <1>2. PICK undone : undone = Applied(RunRecovery(r, {p}))
    OBVIOUS
  <1>3. undone = Applied(EventBoundaryRecovery({p}, start))
    BY <1>1, <1>2 DEF RunRecovery
  <1>4. \A q \in Path \ {p} : undone[q] = files[q]
    BY <1>3, PathsAtIs
  <1>5. Unclear(p, start) \/ undone[p] = past[start][p]
    <2>1. Touching(p) # {}
      <3>1. PICK id \in RunEvents(r) : Touches(id, p)
        BY DEF Recoverable, PathsOf
      <3>2. id \in Ids
        BY DEF RunEvents, EventsBetween
      <3> QED
        BY <3>1, <3>2 DEF Touching
    <2>2. Unclear(p, start) \/ StateAtId(p, start) = past[start][p]
      BY <2>1, BoundaryIs
    <2>3. past[start][p] \in Value \/ past[start][p] = None
      <3>1. start \in 0..last
        BY Typed
      <3> QED
        BY <3>1, Typed
    <2>4. undone[p] = IF p \in {p} /\ (StateAtId(p, start) \in Value \/ StateAtId(p, start) = None)
                       THEN StateAtId(p, start) ELSE files[p]
      BY <1>3, PathsAtIs
    <2> QED
      BY <2>2, <2>3, <2>4
  <1>6. ASSUME runs[r].mode = "reported", NEW id \in Touching(p), id > start PROVE Claimants(id) = {r}
    BY <1>1, <1>6 DEF Recoverable, Ownership
  <1> QED
    BY <1>1, <1>2, <1>4, <1>5, <1>6

\* For any Runs, claims and events, undoing a completed Run undoes that Run and
\* nothing else.
THEOREM RunsUndone == Spec => []RunUndone
  <1> QED
    BY RunUndoneHolds, Invariance, PTL

\* Without tasks, a request is for the paths of the groups it picks.
LEMMA AskKeepsGroupsHolds == HistoryInv => AskKeepsGroups
  <1> SUFFICES ASSUME HistoryInv, NEW r \in Run, Completed(r), NEW request \in Request,
                      NEW e \in Ask(r, request, {})
               PROVE  /\ \A w \in request.keep : e.path \notin Matches[w]
                      /\ \/ \E group \in Groups(r) : e.path \in group /\ Scores(group, request.revert)
                         \/ request.all /\ request.revert \cap Term \subseteq
                              Incidental \cup {w \in Term : Matches[w] \cap AllGroupPaths(Groups(r)) = {}}
    BY DEF AskKeepsGroups
  <1>1. PICK ps : ps = AllGroupPaths(RevertGroups(request, Groups(r)))
    OBVIOUS
  <1>2. e \in Recover(r, ps)
    <2>1. Matched(request, {}) = {}
      BY DEF Matched
    <2> QED
      BY <1>1, <2>1 DEF Ask
  <1>3. e.path \in ps
    <2>1. e \in RunRecovery(r, ps)
      BY <1>2 DEF Recover
    <2>2. PICK state : state = [x \in ps |-> StateAtId(x, runs[r].start)]
      OBVIOUS
    <2>3. e \in Planned(state)
      BY <2>1, <2>2 DEF RunRecovery, EventBoundaryRecovery, Prepared, PathsAtEventId
    <2>4. DOMAIN state = ps
      BY <2>2
    <2> QED
      BY <2>3, <2>4 DEF Planned, Target
  <1>4. PICK group \in RevertGroups(request, Groups(r)) : e.path \in group
    BY <1>1, <1>3 DEF AllGroupPaths
  <1>5. group \in Groups(r) /\ group \notin Kept(request, Groups(r))
    BY <1>4 DEF RevertGroups, SelectGroups
  <1>6. \A w \in request.keep : e.path \notin Matches[w]
    BY <1>4, <1>5 DEF Kept, SelectGroups, Scores
  <1>7. CASE ~request.all
    <2>1. Scores(group, request.revert)
      BY <1>4, <1>7 DEF RevertGroups, SelectGroups
    <2> QED
      BY <1>4, <1>5, <1>6, <2>1
  <1>8. CASE request.all
    <2>1. PICK scoped : scoped = SelectGroups(Groups(r), RevertAllTargets(request, Groups(r)))
      OBVIOUS
    <2>2. CASE scoped # {}
      <3>1. group \in scoped
        BY <1>4, <1>8, <2>1, <2>2 DEF RevertGroups
      <3>2. Scores(group, request.revert)
        BY <2>1, <3>1 DEF SelectGroups, Scores, RevertAllTargets
      <3> QED
        BY <1>4, <1>5, <1>6, <3>2
    <2>3. CASE scoped = {}
      <3>1. ASSUME NEW w \in request.revert, w \in Term, w \notin Incidental
            PROVE  Matches[w] \cap AllGroupPaths(Groups(r)) = {}
        <4>1. w \in RevertAllTargets(request, Groups(r))
          BY <3>1 DEF RevertAllTargets
        <4>2. \A g \in Groups(r) : ~Scores(g, RevertAllTargets(request, Groups(r)))
          BY <2>1, <2>3 DEF SelectGroups
        <4> QED
          BY <4>1, <4>2 DEF Scores, AllGroupPaths
      <3> QED
        BY <1>6, <1>8, <3>1
    <2> QED
      BY <2>2, <2>3
  <1> QED
    BY <1>7, <1>8

\* Nothing that a keep clause names is touched when groups are picked, nor a
\* group that no word of the request names, unless the whole Run is asked for.
THEOREM AskingKeepsGroups == Spec => []AskKeepsGroups
  <1> QED
    BY AskKeepsGroupsHolds, Invariance, PTL

-------------------------------------------------------------------------------
(* Undoing one task of a Run.                                              *)

\* The state that a task's boundary has: it is read from an event that says
\* what was there.
LEMMA StoredIs ==
    ASSUME HistoryInv, Whole, NEW p \in Path, NEW b \in pruned..last, Touching(p) # {}
    PROVE  Unclear(p, b) \/ StoredStateAtId(p, b) = past[b][p]
  <1>1. PICK at : at = PathStateEventAtId(p, b)
    OBVIOUS
  <1>2. PICK after : after = FirstPathEventAfterId(p, b)
    OBVIOUS
  <1>3. Unclear(p, b) \/ StateAtId(p, b) = past[b][p]
    BY BoundaryIs
  <1>4. CASE ~(at = 0 /\ after # 0 /\ ShowsPresence(after, p) /\ log[after].prev = None)
    BY <1>1, <1>2, <1>3, <1>4 DEF StoredStateAtId, StateAtId
  <1>5. CASE at = 0 /\ after # 0 /\ ShowsPresence(after, p) /\ log[after].prev = None
    <2>1. after \in Ids /\ after \in 0..last /\ Touches(after, p)
      BY <1>1, <1>2, <1>5, DecidingEvents
    <2>2. Tells(after, p)
      BY <2>1 DEF HistoryInv
    <2>3. SilentBefore(after, p)
      BY <1>5, <2>1, <2>2 DEF Tells
    <2>4. PICK k \in 0..(after - 1) : <<p, k>> \in silent
      BY <2>3 DEF SilentBefore
    <2>5. k < after /\ at <= k
      BY <1>5, <2>1, <2>4, Typed
    <2> QED
      BY <1>1, <1>2, <1>5, <2>4, <2>5, SilentIsUnclear
  <1> QED
    BY <1>4, <1>5

\* A file becomes the target of its task.
LEMMA IntentApplied ==
    ASSUME NEW a, NEW b, NEW p \in IntentPaths(a, b) \ IntentConflicts(a, b)
    PROVE  Applied(Prepared(IntentPlan(a, b)))[p] = IntentTarget(p, a, b)
  <1>1. PICK plan : plan = Prepared(IntentPlan(a, b))
    OBVIOUS
  <1>2. p \in Path
    BY DEF IntentPaths, PathsOf
  <1>3. ASSUME NEW e \in plan PROVE e.target = IntentTarget(e.path, a, b)
    BY <1>1 DEF Prepared, IntentPlan, Target
  <1>4. CASE \E e \in plan : e.path = p
    <2>1. PICK e \in plan : e.path = p /\ e = CHOOSE d \in plan : d.path = p
      BY <1>4
    <2>2. Applied(plan)[p] = e.target
      BY <1>2, <1>4, <2>1 DEF Applied
    <2> QED
      BY <1>1, <1>3, <2>1, <2>2
  <1>5. CASE ~\E e \in plan : e.path = p
    <2>1. Applied(plan)[p] = files[p]
      BY <1>2, <1>5 DEF Applied
    <2>2. PICK e : e = Target(p, IntentTarget(p, a, b))
      OBVIOUS
    <2>3. e \in IntentPlan(a, b) /\ e.path = p /\ e.target = IntentTarget(p, a, b)
      BY <2>2 DEF IntentPlan, Target
    <2>4. e.target = files[e.path]
      BY <1>1, <1>5, <2>3 DEF Prepared
    <2> QED
      BY <1>1, <2>1, <2>3, <2>4
  <1> QED
    BY <1>4, <1>5

LEMMA IntentUndoneHolds == HistoryInv => IntentUndone
  <1> SUFFICES ASSUME HistoryInv, Whole, NEW a \in pruned..last, NEW b \in pruned..last, a < b,
                      NEW p \in IntentPaths(a, b)
               PROVE  LET before == past[a][p]
                          after == past[b][p]
                          undone == Applied(Prepared(IntentPlan(a, b)))[p]
                      IN \/ Unclear(p, a) \/ Unclear(p, b)
                         \/ p \in IntentConflicts(a, b) /\ files[p] \notin {before, after}
                         \/ /\ p \notin IntentConflicts(a, b)
                            /\ IF {before, after, files[p]} \subseteq Value
                                 THEN \A l \in DOMAIN undone :
                                        undone[l] = IF before[l] # after[l] THEN before[l] ELSE files[p][l]
                                 ELSE IF before = after THEN undone = files[p] ELSE undone = before
    BY DEF IntentUndone
  <1>1. p \in Path /\ Touching(p) # {}
    BY DEF IntentPaths, PathsOf, EventsBetween, Touching
  <1>2. PICK before : before = past[a][p]
    OBVIOUS
  <1>3. PICK after : after = past[b][p]
    OBVIOUS
  <1>4. PICK current : current = files[p]
    OBVIOUS
  <1>5. {before, after, current} \subseteq Value \cup {None}
    <2>1. a \in 0..last /\ b \in 0..last
      BY Typed
    <2> QED
      BY <1>1, <1>2, <1>3, <1>4, <2>1, Typed
  <1>6. Unknown \notin {before, after, current}
    BY <1>5, RestoringConstants
  <1> SUFFICES ASSUME ~Unclear(p, a), ~Unclear(p, b)
               PROVE  LET undone == Applied(Prepared(IntentPlan(a, b)))[p]
                      IN \/ p \in IntentConflicts(a, b) /\ current \notin {before, after}
                         \/ /\ p \notin IntentConflicts(a, b)
                            /\ IF {before, after, current} \subseteq Value
                                 THEN \A l \in DOMAIN undone :
                                        undone[l] = IF before[l] # after[l] THEN before[l] ELSE current[l]
                                 ELSE IF before = after THEN undone = current ELSE undone = before
    BY <1>2, <1>3, <1>4
  <1>7. StoredStateAtId(p, a) = before /\ StoredStateAtId(p, b) = after
    BY <1>1, <1>2, <1>3, StoredIs
  <1>8. IntentTarget(p, a, b) =
          IF before = after THEN current
          ELSE IF current = after THEN before
          ELSE IF current = before THEN current
          ELSE IF {before, after, current} \subseteq Value /\ PatchApplies(current, before, after)
            THEN Patched(current, before, after)
          ELSE Unknown
    BY <1>4, <1>7 DEF IntentTarget
  <1>9. p \in IntentConflicts(a, b) <=> IntentTarget(p, a, b) = Unknown
    BY DEF IntentConflicts
  <1>10. CASE p \in IntentConflicts(a, b)
    BY <1>6, <1>8, <1>9, <1>10
  <1>11. CASE p \notin IntentConflicts(a, b)
    <2>1. PICK undone : undone = Applied(Prepared(IntentPlan(a, b)))[p]
      OBVIOUS
    <2>2. undone = IntentTarget(p, a, b)
      BY <1>11, <2>1, IntentApplied
    <2>3. CASE before = after \/ current = after \/ current = before
      BY <1>8, <1>11, <2>1, <2>2, <2>3
    <2>4. CASE ~(before = after \/ current = after \/ current = before)
      <3>1. {before, after, current} \subseteq Value /\ undone = Patched(current, before, after)
        BY <1>8, <1>9, <1>11, <2>2, <2>4
      <3>2. \A l \in DOMAIN undone :
              undone[l] = IF before[l] # after[l] THEN before[l] ELSE current[l]
        BY <3>1 DEF Patched
      <3> QED
        BY <1>11, <2>1, <3>1, <3>2
    <2> QED
      BY <2>3, <2>4
  <1> QED
    BY <1>10, <1>11

\* Undoing a task puts the lines it changed back and keeps what every other
\* line is now, or reports the file.
THEOREM TasksUndone == Spec => []IntentUndone
  <1> QED
    BY IntentUndoneHolds, Invariance, PTL

-------------------------------------------------------------------------------
(* Going back to a time, or to the boundary of an event.                   *)

\* A scan's silent change that no later event tells of is unrecorded now.
LEMMA HiddenIsUnrecorded ==
    ASSUME HistoryInv, NEW p \in Path, Hidden(p)
    PROVE  Unrecorded(p, last)
  <1>1. PICK s \in 0..last : <<p, s>> \in silent
                             /\ \A j \in Ids : s < j /\ j <= last + 1 => ~Touches(j, p)
    BY HiddenSince
  <1>2. last \in Nat /\ last \in pruned..last /\ Ids \subseteq 1..last
    BY Typed
  <1>3. PICK at : at = PathStateEventAtId(p, last)
    OBVIOUS
  <1>4. PICK after : after = FirstPathEventAfterId(p, last)
    OBVIOUS
  <1>5. /\ at \in 0..last /\ (at # 0 => at \in Ids /\ Touches(at, p))
        /\ after # 0 => after \in Ids /\ last < after
    BY <1>2, <1>3, <1>4, DecidingEvents
  <1>6. after = 0
    <2>1. ASSUME NEW j \in Ids PROVE ~(last < j)
      BY <1>2
    <2> QED
      BY <1>5, <2>1
  <1>7. at <= s
    BY <1>1, <1>2, <1>5
  <1>8. <<p, s>>[1] = p /\ <<p, s>>[2] = s
    OBVIOUS
  <1> QED
    BY <1>1, <1>3, <1>4, <1>6, <1>7, <1>8 DEF Unrecorded

\* A file that no event is about since a boundary is as it was then.
LEMMA UntouchedSince ==
    ASSUME HistoryInv, Whole, up, NEW p \in Path, NEW b \in pruned..last,
           \A j \in Ids : b < j => ~Touches(j, p)
    PROVE  files[p] = past[b][p] \/ Unrecorded(p, last)
  <1>1. last \in Nat /\ pruned \in Nat /\ b \in Nat /\ pruned <= b /\ b <= last /\ last \in pruned..last
        /\ Ids \subseteq 1..last
    BY Typed
  <1>2. Linked(p)
    BY DEF HistoryInv
  <1>3. CASE Hidden(p)
    BY <1>3, HiddenIsUnrecorded
  <1>4. CASE ~Hidden(p) /\ past[b][p] = past[last][p]
    BY <1>2, <1>4 DEF Linked
  <1>5. CASE \E m \in Nat : b < m /\ m <= last /\ Hushed(p, m)
    <2>1. PICK m \in Nat : b < m /\ m <= last /\ Hushed(p, m)
      BY <1>5
    <2>2. PICK s \in 0..(m - 1) : <<p, s>> \in silent
                                 /\ \A j \in Ids : s < j /\ j <= m => ~Touches(j, p)
      BY <2>1 DEF Hushed
    <2>3. ASSUME NEW j \in Ids, s < j, j <= last + 1 PROVE ~Touches(j, p)
      <3>1. j <= m \/ b < j
        BY <1>1, <2>1
      <3> QED
        BY <2>2, <2>3, <3>1
    <2>4. s \in 0..((last + 1) - 1) /\ \A j \in Ids : s < j /\ j <= last + 1 => ~Touches(j, p)
      BY <1>1, <2>1, <2>2, <2>3
    <2>5. Hidden(p)
      BY <2>2, <2>4 DEF Hidden, Hushed
    <2> QED
      BY <2>5, HiddenIsUnrecorded
  <1>6. \A j \in Ids : b < j /\ j <= last => ~Touches(j, p)
    OBVIOUS
  <1> QED
    BY <1>1, <1>3, <1>4, <1>5, <1>6, Constant

\* While the clock has not stepped back, time order is id order.
LEMMA OrderIs ==
    ASSUME HistoryInv, slips = 0, NEW S \in SUBSET Ids
    PROVE  Latter(S) = Highest(S) /\ First(S) = Lowest(S)
  <1>1. \A i, j \in S : i # j => (Before(i, j) <=> i < j)
    <2> SUFFICES ASSUME NEW i \in S, NEW j \in S, i # j PROVE Before(i, j) <=> i < j
      OBVIOUS
    <2>1. log[i].time \in Nat /\ log[j].time \in Nat /\ i \in Nat /\ j \in Nat
      BY Typed
    <2>2. (i < j => log[i].time <= log[j].time) /\ (j < i => log[j].time <= log[i].time)
      BY DEF HistoryInv, Timely
    <2> QED
      BY <2>1, <2>2 DEF Before
  <1>2. CASE S = {}
    BY <1>2 DEF Latter, Highest, First, Lowest
  <1>3. CASE S # {}
    <2>1. S \in SUBSET Nat /\ last \in Nat /\ \A x \in S : x <= last
      BY Typed
    <2>2. PICK m \in S : m = Max(S) /\ \A y \in S : y <= m
      BY <1>3, <2>1, MaxIsGreatest
    <2>3. PICK l \in S : l = Min(S) /\ \A y \in S : l <= y
      BY <1>3, <2>1, MinIsLeast
    <2>4. Highest(S) = m /\ Lowest(S) = l
      BY <1>3, <2>2, <2>3 DEF Highest, Lowest
    <2>5. Latter(S) = m
      <3>1. \A j \in S \ {m} : Before(j, m)
        BY <1>1, <2>1, <2>2
      <3>2. ASSUME NEW i \in S, \A j \in S \ {i} : Before(j, i) PROVE i = m
        <4> SUFFICES ASSUME i # m PROVE FALSE
          OBVIOUS
        <4>1. m < i
          BY <1>1, <2>2, <3>2
        <4> QED
          BY <2>1, <2>2, <4>1
      <3>3. Latter(S) = CHOOSE i \in S : \A j \in S \ {i} : Before(j, i)
        BY <1>3 DEF Latter
      <3> QED
        BY <3>1, <3>2, <3>3
    <2>6. First(S) = l
      <3>1. \A j \in S \ {l} : Before(l, j)
        BY <1>1, <2>1, <2>3
      <3>2. ASSUME NEW i \in S, \A j \in S \ {i} : Before(i, j) PROVE i = l
        <4> SUFFICES ASSUME i # l PROVE FALSE
          OBVIOUS
        <4>1. i < l
          BY <1>1, <2>3, <3>2
        <4> QED
          BY <2>1, <2>3, <4>1
      <3>3. First(S) = CHOOSE i \in S : \A j \in S \ {i} : Before(i, j)
        BY <1>3 DEF First
      <3> QED
        BY <3>1, <3>2, <3>3
    <2> QED
      BY <2>4, <2>5, <2>6
  <1> QED
    BY <1>2, <1>3

\* So a time that the history reaches is the boundary of an event.
LEMMA TimeIsBoundary ==
    ASSUME HistoryInv, NEW t \in Nat, Reached(t)
    PROVE  /\ Whole /\ slips = 0 /\ At(t) \in pruned..last
           /\ \A id \in Ids : log[id].time <= t <=> id <= At(t)
           /\ \A p \in Path : /\ PathStateEventAtTime(p, t) = PathStateEventAtId(p, At(t))
                             /\ FirstPathEventAfter(p, t) = FirstPathEventAfterId(p, At(t))
                             /\ StateAtTime(p, t) = StateAtId(p, At(t))
  <1>1. slips = 0 /\ last \in Nat /\ pruned \in Nat /\ pruned <= last /\ Ids \subseteq 1..last
        /\ \A id \in Ids : log[id].time \in Nat
    BY Typed DEF Reached
  <1>2. /\ \A id \in Ids : pruned < id
        /\ \A i, j \in Ids : i < j => log[i].time <= log[j].time
    BY <1>1 DEF HistoryInv, Timely
  <1>3. Whole
    BY <1>1, <1>2 DEF Whole
  <1>4. PICK by \in SUBSET Ids : by = {id \in Ids : log[id].time <= t}
    OBVIOUS
  <1>5. At(t) = IF by = {} THEN pruned ELSE Max(by)
    BY <1>4 DEF At
  <1>6. PICK b : b = At(t)
    OBVIOUS
  <1>7. b \in pruned..last /\ \A id \in Ids : log[id].time <= t <=> id <= b
    <2>1. CASE by = {}
      <3>1. b = pruned
        BY <1>5, <1>6, <2>1
      <3> QED
        BY <1>1, <1>2, <1>4, <2>1, <3>1
    <2>2. CASE by # {}
      <3>1. by \in SUBSET Nat /\ \A x \in by : x <= last
        BY <1>1
      <3>2. PICK m \in by : m = Max(by) /\ \A y \in by : y <= m
        BY <1>1, <2>2, <3>1, MaxIsGreatest
      <3>3. b = m
        BY <1>5, <1>6, <2>2, <3>2
      <3>4. ASSUME NEW id \in Ids PROVE log[id].time <= t <=> id <= m
        <4>1. log[m].time <= t /\ m \in Ids /\ m \in Nat /\ id \in Nat
              /\ log[m].time \in Nat /\ log[id].time \in Nat
          BY <1>1, <1>4, <3>2
        <4>2. log[id].time <= t => id <= m
          BY <1>4, <3>2
        <4>3. id <= m => log[id].time <= log[m].time
          BY <1>2, <4>1
        <4> QED
          BY <4>1, <4>2, <4>3
      <3>5. m \in pruned..last
        BY <1>1, <1>2, <3>1, <3>2
      <3> QED
        BY <3>3, <3>4, <3>5
    <2> QED
      BY <2>1, <2>2
  <1>8. ASSUME NEW p \in Path
        PROVE  /\ PathStateEventAtTime(p, t) = PathStateEventAtId(p, b)
               /\ FirstPathEventAfter(p, t) = FirstPathEventAfterId(p, b)
    <2>1. PICK S \in SUBSET Ids : S = {id \in Touching(p) : id <= b}
      BY DEF Touching
    <2>2. PICK T \in SUBSET Ids : T = {id \in Touching(p) : id > b}
      BY DEF Touching
    <2>3. S = {id \in Touching(p) : log[id].time <= t}
      BY <1>7, <2>1 DEF Touching
    <2>4. T = {id \in Touching(p) : log[id].time > t}
      <3>1. \A id \in Ids : log[id].time > t <=> id > b
        BY <1>1, <1>7
      <3> QED
        BY <2>2, <3>1 DEF Touching
    <2>5. PathStateEventAtTime(p, t) = Latter(S) /\ PathStateEventAtId(p, b) = Highest(S)
      BY <2>1, <2>3 DEF PathStateEventAtTime, PathStateEventAtId
    <2>6. FirstPathEventAfter(p, t) = First(T) /\ FirstPathEventAfterId(p, b) = Lowest(T)
      BY <2>2, <2>4 DEF FirstPathEventAfter, FirstPathEventAfterId
    <2> QED
      BY <1>1, <2>5, <2>6, OrderIs
  <1>9. ASSUME NEW p \in Path PROVE StateAtTime(p, t) = StateAtId(p, b)
    BY <1>8 DEF StateAtTime, StateAtId
  <1> QED
    BY <1>1, <1>3, <1>6, <1>7, <1>8, <1>9

\* What a folder becomes when it is restored to a time.
LEMMA DirectoryIs ==
    ASSUME NEW scope \in SUBSET Path, NEW t, NEW q \in Path
    PROVE  /\ Applied(TimestampRecovery(scope, t))[q] =
                 IF q \in PathsOf(EventsSince(t)) \cap scope
                    /\ (ExactSource(q, t) \in Value \/ ExactSource(q, t) = None)
                   THEN ExactSource(q, t) ELSE files[q]
           /\ Applied(Directory(scope, t))[q] = Applied(TimestampRecovery(scope, t))[q]
           /\ SelectedTimestampRecovery(scope, t) = TimestampRecovery(scope, t)
  <1>1. PICK ps \in SUBSET Path : ps = PathsOf(EventsSince(t)) \cap scope
    OBVIOUS
  <1>2. PICK state : state = [x \in ps |-> ExactSource(x, t)]
    OBVIOUS
  <1>3. DOMAIN state = ps /\ (q \in ps => state[q] = ExactSource(q, t))
    BY <1>2
  <1>4. Directory(scope, t) = Planned(state) /\ TimestampRecovery(scope, t) = Prepared(Planned(state))
    BY <1>1, <1>2 DEF Directory, TimestampRecovery
  <1>5. /\ Applied(TimestampRecovery(scope, t))[q] =
              IF q \in ps /\ (state[q] \in Value \/ state[q] = None) THEN state[q] ELSE files[q]
        /\ Applied(Directory(scope, t))[q] =
              IF q \in ps /\ (state[q] \in Value \/ state[q] = None) THEN state[q] ELSE files[q]
    BY <1>3, <1>4, AppliedIs
  <1>6. SelectedTimestampRecovery(scope, t) = TimestampRecovery(scope, t)
    <2>1. PICK all : all = [x \in PathsOf(EventsSince(t)) \cap Path |-> ExactSource(x, t)]
      OBVIOUS
    <2>2. DOMAIN all = PathsOf(EventsSince(t)) \cap Path
          /\ \A x \in ps : x \in DOMAIN all /\ all[x] = state[x]
      BY <1>1, <1>2, <2>1
    <2>3. TimestampRecovery(Path, t) = Prepared(Planned(all))
      BY <2>1 DEF TimestampRecovery, Directory
    <2>4. \A e : e \in Planned(all) /\ e.path \in scope <=> e \in Planned(state)
      <3>1. ASSUME NEW e PROVE e \in Planned(state) => e \in Planned(all) /\ e.path \in scope
        BY <1>1, <1>3, <2>2 DEF Planned, Target
      <3>2. ASSUME NEW e PROVE e \in Planned(all) /\ e.path \in scope => e \in Planned(state)
        BY <1>1, <1>3, <2>2 DEF Planned, Target
      <3> QED
        BY <3>1, <3>2
    <2> QED
      BY <1>4, <2>3, <2>4 DEF SelectedTimestampRecovery, Prepared
  <1> QED
    BY <1>1, <1>3, <1>5, <1>6

\* A time, for a folder and for selected files.
LEMMA TimeTravel ==
    ASSUME HistoryInv, up, NEW scope \in SUBSET Path, NEW t \in Nat, Reached(t), NEW p \in scope
    PROVE  \/ Applied(TimestampRecovery(scope, t))[p] = past[At(t)][p]
           \/ Unclear(p, At(t)) \/ Unrecorded(p, last)
  <1>1. /\ Whole /\ At(t) \in pruned..last
        /\ \A id \in Ids : log[id].time <= t <=> id <= At(t)
        /\ StateAtTime(p, t) = StateAtId(p, At(t))
    BY TimeIsBoundary
  <1>2. PICK b \in pruned..last : b = At(t)
    BY <1>1
  <1>3. Applied(TimestampRecovery(scope, t))[p] =
          IF p \in PathsOf(EventsSince(t)) \cap scope
             /\ (ExactSource(p, t) \in Value \/ ExactSource(p, t) = None)
            THEN ExactSource(p, t) ELSE files[p]
    BY DirectoryIs
  <1>4. CASE p \in PathsOf(EventsSince(t))
    <2>1. Touching(p) # {}
      BY <1>4 DEF PathsOf, EventsSince, Touching
    <2>2. Unclear(p, b) \/ StateAtTime(p, t) = past[b][p]
      BY <1>1, <1>2, <2>1, BoundaryIs
    <2>3. past[b][p] \in Value \cup {None} /\ Unknown \notin Value \cup {None}
      <3>1. b \in 0..last
        BY Typed
      <3> QED
        BY <3>1, Typed, RestoringConstants
    <2>4. StateAtTime(p, t) = past[b][p] => ExactSource(p, t) = past[b][p]
      BY <2>3 DEF ExactSource
    <2> QED
      BY <1>2, <1>3, <1>4, <2>2, <2>3, <2>4
  <1>5. CASE p \notin PathsOf(EventsSince(t))
    <2>1. ASSUME NEW j \in Ids, b < j PROVE ~Touches(j, p)
      <3>1. log[j].time \in Nat /\ ~(j <= b)
        BY <2>1, Typed
      <3>2. log[j].time >= t
        BY <1>1, <1>2, <3>1
      <3> QED
        BY <1>5, <3>2 DEF PathsOf, EventsSince
    <2>2. files[p] = past[b][p] \/ Unrecorded(p, last)
      BY <1>1, <2>1, UntouchedSince
    <2> QED
      BY <1>2, <1>3, <1>5, <2>2
  <1> QED
    BY <1>4, <1>5

\* A checkpoint: the boundary of an event.
LEMMA CheckpointTravel ==
    ASSUME HistoryInv, up, Whole, NEW scope \in SUBSET Path, NEW b \in pruned..last, NEW p \in Path
    PROVE  IF p \in scope
           THEN \/ Applied(RestoreAtEventId(scope, b))[p] = past[b][p]
                \/ Unclear(p, b) \/ Unrecorded(p, last)
           ELSE Applied(RestoreAtEventId(scope, b))[p] = files[p]
  <1>1. PICK ps \in SUBSET Path : ps = PathsOf(EventsBetween(b, MaxEventId)) \cap scope
    OBVIOUS
  <1>2. Applied(RestoreAtEventId(scope, b))[p] =
          IF p \in ps /\ (StateAtId(p, b) \in Value \/ StateAtId(p, b) = None)
            THEN StateAtId(p, b) ELSE files[p]
    BY <1>1, PathsAtIs DEF RestoreAtEventId
  <1>3. CASE p \notin scope
    BY <1>1, <1>2, <1>3
  <1>4. CASE p \in ps
    <2>1. Touching(p) # {}
      BY <1>1, <1>4 DEF PathsOf, EventsBetween, Touching
    <2>2. Unclear(p, b) \/ StateAtId(p, b) = past[b][p]
      BY <2>1, BoundaryIs
    <2>3. past[b][p] \in Value \cup {None}
      <3>1. b \in 0..last
        BY Typed
      <3> QED
        BY <3>1, Typed
    <2> QED
      BY <1>1, <1>2, <1>4, <2>2, <2>3
  <1>5. CASE p \in scope /\ p \notin ps
    <2>1. ASSUME NEW j \in Ids, b < j PROVE ~Touches(j, p)
      <3>1. j \in EventsBetween(b, MaxEventId)
        BY <2>1, MaxEventIdIs DEF EventsBetween
      <3> QED
        BY <1>1, <1>5, <3>1 DEF PathsOf
    <2> QED
      BY <1>2, <1>5, <2>1, UntouchedSince
  <1> QED
    BY <1>1, <1>3, <1>4, <1>5

LEMMA TimeTravelHolds == HistoryInv => TimeTravelIsExact
  <1> SUFFICES ASSUME HistoryInv, up, NEW scope \in Folder
               PROVE  /\ \A t \in 0..now : Reached(t) => \A p \in Path :
                           /\ IF p \in scope
                              THEN \/ Applied(TimestampRecovery(scope, t))[p] = past[At(t)][p]
                                   \/ Unclear(p, At(t)) \/ Unrecorded(p, last)
                              ELSE Applied(TimestampRecovery(scope, t))[p] = files[p]
                           /\ IF p \in scope
                              THEN \/ Applied(SelectedTimestampRecovery(scope, t))[p] = past[At(t)][p]
                                   \/ Unclear(p, At(t)) \/ Unrecorded(p, last)
                              ELSE Applied(SelectedTimestampRecovery(scope, t))[p] = files[p]
                      /\ Whole => \A b \in pruned..last, p \in Path :
                            IF p \in scope
                            THEN \/ Applied(RestoreAtEventId(scope, b))[p] = past[b][p]
                                 \/ Unclear(p, b) \/ Unrecorded(p, last)
                            ELSE Applied(RestoreAtEventId(scope, b))[p] = files[p]
    BY DEF TimeTravelIsExact
  <1>1. scope \in SUBSET Path
    BY RestoringConstants
  <1>2. ASSUME NEW t \in 0..now, Reached(t), NEW p \in Path
        PROVE  IF p \in scope
               THEN \/ Applied(TimestampRecovery(scope, t))[p] = past[At(t)][p]
                    \/ Unclear(p, At(t)) \/ Unrecorded(p, last)
               ELSE Applied(TimestampRecovery(scope, t))[p] = files[p]
    <2>1. t \in Nat
      BY Typed
    <2>2. CASE p \in scope
      BY <1>1, <1>2, <2>1, <2>2, TimeTravel
    <2>3. CASE p \notin scope
      BY <1>1, <2>3, DirectoryIs
    <2> QED
      BY <2>2, <2>3
  <1>3. \A t \in 0..now : SelectedTimestampRecovery(scope, t) = TimestampRecovery(scope, t)
    <2>1. CASE Path = {}
      <3>1. ASSUME NEW t \in 0..now
            PROVE  SelectedTimestampRecovery(scope, t) = {} /\ TimestampRecovery(scope, t) = {}
        BY <1>1, <2>1 DEF SelectedTimestampRecovery, TimestampRecovery, Directory, Prepared, Planned, PathsOf
      <3> QED
        BY <3>1
    <2>2. CASE Path # {}
      BY <1>1, <2>2, DirectoryIs
    <2> QED
      BY <2>1, <2>2
  <1>4. ASSUME Whole, NEW b \in pruned..last, NEW p \in Path
        PROVE  IF p \in scope
               THEN \/ Applied(RestoreAtEventId(scope, b))[p] = past[b][p]
                    \/ Unclear(p, b) \/ Unrecorded(p, last)
               ELSE Applied(RestoreAtEventId(scope, b))[p] = files[p]
    BY <1>1, <1>4, CheckpointTravel
  <1> QED
    BY <1>2, <1>3, <1>4

\* Restoring a folder, or selected files, to a time or to a checkpoint brings
\* every file in it to what it was then and leaves the rest alone.
THEOREM TimeTravelExact == Spec => []TimeTravelIsExact
  <1> QED
    BY TimeTravelHolds, Invariance, PTL

-------------------------------------------------------------------------------
(* What a single file falls back to.                                       *)

\* A silent change before an event keeps the boundary before it from being
\* known.
LEMMA SilentBeforeIs ==
    ASSUME HistoryInv, NEW p \in Path, NEW id \in Ids, pruned < id, SilentBefore(id, p)
    PROVE  Unrecorded(p, id - 1)
  <1>1. id \in Nat /\ id - 1 \in pruned..last
    BY Typed
  <1>2. PICK b \in pruned..last : b = id - 1
    BY <1>1
  <1>3. PICK at : at = PathStateEventAtId(p, b)
    OBVIOUS
  <1>4. PICK after : after = FirstPathEventAfterId(p, b)
    OBVIOUS
  <1>5. PICK s \in 0..(id - 1) : <<p, s>> \in silent
                                 /\ \A j \in Ids : s < j /\ j < id => ~Touches(j, p)
    BY DEF SilentBefore
  <1>6. /\ at \in 0..last /\ after \in 0..last
        /\ at # 0 => at \in Ids /\ Touches(at, p) /\ at <= b
        /\ after # 0 => b < after
    BY <1>3, <1>4, DecidingEvents
  <1>7. b \in Nat /\ s \in Nat /\ at \in Nat /\ after \in Nat /\ s <= b
    BY <1>1, <1>2, <1>5, <1>6, Typed
  <1>8. at <= s
    <2>1. CASE at = 0
      BY <1>7, <2>1
    <2>2. CASE at # 0
      <3>1. at < id
        BY <1>1, <1>2, <1>6, <2>2
      <3>2. ~(s < at)
        BY <1>5, <1>6, <2>2, <3>1
      <3> QED
        BY <1>7, <3>2
    <2> QED
      BY <2>1, <2>2
  <1>9. after = 0 \/ s < after
    BY <1>6, <1>7
  <1>10. <<p, s>>[1] = p /\ <<p, s>>[2] = s
    OBVIOUS
  <1>11. Unrecorded(p, b)
    BY <1>3, <1>4, <1>5, <1>7, <1>8, <1>9, <1>10 DEF Unrecorded
  <1> QED
    BY <1>2, <1>11

\* A deletion takes away what the file was before it.
LEMMA DeletionTakes ==
    ASSUME HistoryInv, NEW p \in Path, NEW id \in Deletions(p), pruned < id
    PROVE  \/ log[id].prev # None /\ log[id].prev = past[id - 1][p]
           \/ Unrecorded(p, id - 1)
  <1>1. id \in Ids /\ log[id].path = p /\ log[id].kind = "DELETED"
    BY DEF Deletions
  <1>2. Touches(id, p) /\ ShowsPresence(id, p) /\ ~Misleading(id, p)
    BY <1>1 DEF Touches, ShowsPresence, Misleading
  <1>3. Tells(id, p)
    BY <1>1 DEF HistoryInv
  <1>4. CASE SilentBefore(id, p)
    BY <1>1, <1>4, SilentBeforeIs
  <1>5. CASE ~SilentBefore(id, p)
    <2>1. SourceBefore(id, p) = log[id].prev
      BY <1>2 DEF SourceBefore
    <2> QED
      BY <1>2, <1>3, <1>5, <2>1 DEF Tells
  <1> QED
    BY <1>4, <1>5

\* The events a fallback is read from showed or took away a content that the
\* file once had.
LEMMA VersionWas ==
    ASSUME HistoryInv, NEW p \in Path, NEW id \in Versions(p)
    PROVE  \E i \in 0..last : log[id].hash = past[i][p]
  <1>1. id \in Ids /\ log[id].path = p /\ log[id].kind # "DELETED"
    BY DEF Versions
  <1>2. Shows(id)
    BY <1>1 DEF HistoryInv
  <1>3. id \in 0..last /\ past[id][p] = log[id].hash
    BY <1>1, <1>2, Typed DEF Shows
  <1> QED
    BY <1>3

LEMMA DeletedWas ==
    ASSUME HistoryInv, NEW p \in Path, NEW id \in Deletions(p), log[id].prev # None
    PROVE  \E i \in 0..last : log[id].prev = past[i][p]
  <1>1. id \in Ids /\ log[id].path = p /\ log[id].kind = "DELETED"
    BY DEF Deletions
  <1>2. TookAway(id)
    BY <1>1 DEF HistoryInv
  <1> QED
    BY <1>1, <1>2 DEF TookAway, Once

\* The first or the last of some events is one of them.
LEMMA FirstIsOne ==
    ASSUME HistoryInv, slips = 0, NEW S \in SUBSET Ids, S # {}
    PROVE  First(S) \in S /\ Latter(S) \in S /\ Latter(S) = Max(S)
  <1>1. Latter(S) = Highest(S) /\ First(S) = Lowest(S)
    BY OrderIs
  <1>2. Highest(S) # 0 /\ Lowest(S) # 0
    BY HighestIs, LowestIs
  <1> QED
    BY <1>1, <1>2, HighestIs, LowestIs DEF Highest

\* The first of three hashes that is known.
LEMMA FirstKnownIs ==
    ASSUME NEW a, NEW b, NEW c
    PROVE  /\ a # None => FirstKnown(<<a, b, c>>) = a
           /\ a = None /\ FirstKnown(<<a, b, c>>) # None =>
                 \/ b # None /\ FirstKnown(<<a, b, c>>) = b
                 \/ c # None /\ FirstKnown(<<a, b, c>>) = c
  <1> DEFINE hashes == <<a, b, c>>
             known == {i \in DOMAIN hashes : hashes[i] # None}
  <1>1. /\ DOMAIN hashes = 1..3 /\ hashes[1] = a /\ hashes[2] = b /\ hashes[3] = c
    OBVIOUS
  <1>2. FirstKnown(hashes) = IF known = {} THEN None ELSE hashes[Min(known)]
    BY DEF FirstKnown
  <1>3. known \in SUBSET Nat /\ \A i \in known : i \in {1, 2, 3} /\ hashes[i] # None
    BY <1>1
  <1>4. a # None => 1 \in known
    BY <1>1
  <1> HIDE DEF hashes, known
  <1>5. known # {} => Min(known) \in known /\ \A i \in known : Min(known) <= i
    BY <1>3, MinIsLeast
  <1>6. CASE known = {}
    BY <1>2, <1>4, <1>6 DEF hashes
  <1>7. CASE known # {}
    <2>1. PICK m : m = Min(known)
      OBVIOUS
    <2>2. m \in {1, 2, 3} /\ hashes[m] # None /\ FirstKnown(hashes) = hashes[m]
      BY <1>2, <1>3, <1>5, <1>7, <2>1
    <2>3. a # None => m = 1
      BY <1>4, <1>5, <2>1, <2>2
    <2>4. /\ a # None => FirstKnown(hashes) = a
          /\ a = None => \/ b # None /\ FirstKnown(hashes) = b
                         \/ c # None /\ FirstKnown(hashes) = c
      BY <1>1, <2>2, <2>3
    <2> QED
      BY <2>4 DEF hashes
  <1> QED
    BY <1>6, <1>7

\* What is restored of a folder that consists of one path.
LEMMA OneOfDirectory ==
    ASSUME NEW p \in Path, NEW t, NEW e \in Directory({p}, t)
    PROVE  /\ e.path = p /\ e.target = ExactSource(p, t)
           /\ e.target \in Value \cup {None}
           /\ \E id \in Ids : Touches(id, p)
  <1>1. PICK ps \in SUBSET Path : ps = PathsOf(EventsSince(t)) \cap {p}
    BY DEF PathsOf
  <1>2. PICK state : state = [q \in ps |-> ExactSource(q, t)]
    OBVIOUS
  <1>3. DOMAIN state = ps /\ \A q \in ps : state[q] = ExactSource(q, t)
    BY <1>2
  <1>4. Directory({p}, t) = Planned(state)
    BY <1>1, <1>2 DEF Directory
  <1>5. PICK q \in ps : e = Target(q, state[q]) /\ (state[q] \in Value \/ state[q] = None)
    BY <1>3, <1>4 DEF Planned
  <1>6. q = p /\ state[p] = ExactSource(p, t)
    BY <1>1, <1>3, <1>5
  <1>7. e.path = p /\ e.target = ExactSource(p, t)
    BY <1>5, <1>6 DEF Target
  <1>8. p \in PathsOf(EventsSince(t))
    BY <1>1, <1>5, <1>6
  <1>9. \E id \in Ids : Touches(id, p)
    BY <1>8 DEF PathsOf, EventsSince
  <1> QED
    BY <1>5, <1>6, <1>7, <1>9

\* A file restored to a time.
LEMMA FallbackIs ==
    ASSUME HistoryInv, NEW p \in Path, NEW t \in Nat, Reached(t),
           NEW e \in RestoreFile(p, t, TRUE),
           NEW b \in pruned..last, b = At(t), NEW at, at = PathStateEventAtId(p, b),
           ~Unclear(p, b)
    PROVE  \/ e.target = past[b][p]
           \/ /\ past[b][p] = None
              /\ IF at \in Deletions(p)
                   THEN e.target = past[at - 1][p] \/ Unrecorded(p, at - 1)
                   ELSE \E i \in 0..last : e.target = past[i][p]
  <1>1. /\ Whole /\ slips = 0
        /\ PathStateEventAtTime(p, t) = at /\ StateAtTime(p, t) = StateAtId(p, b)
    BY TimeIsBoundary
  <1>2. \/ StateAtId(p, b) = past[b][p]
        \/ StateAtId(p, b) = Unknown /\ Touching(p) = {} /\ at = 0
    BY <1>1, BoundaryIs
  <1>3. past[b][p] \in Value \cup {None} /\ None \notin Value
    BY Typed
  <1>4. Unknown \notin Value \cup {None}
    BY RestoringConstants
  <1>5. ASSUME e \in Directory({p}, t) PROVE e.target = past[b][p]
    <2>1. e.target = ExactSource(p, t) /\ Touching(p) # {}
      BY <1>5, OneOfDirectory DEF Touching
    <2> QED
      BY <1>1, <1>2, <1>3, <1>4, <2>1 DEF ExactSource
  <1>6. ASSUME e \in SingleFile(p, t, TRUE)
        PROVE  e.target = RestoreSource(p, t) /\ e.target # None
    BY <1>6 DEF SingleFile, Target
  <1>7. ASSUME e \in SingleFile(p, t, TRUE), StateAtTime(p, t) \in Value
        PROVE  e.target = past[b][p]
    <2>1. RestoreSource(p, t) = StateAtTime(p, t)
      BY <1>7 DEF RestoreSource
    <2> QED
      BY <1>1, <1>2, <1>4, <1>6, <1>7, <2>1
  <1>8. ASSUME e \in SingleFile(p, t, TRUE), StateAtTime(p, t) \notin Value
        PROVE  /\ past[b][p] = None
               /\ IF at \in Deletions(p)
                    THEN e.target = past[at - 1][p] \/ Unrecorded(p, at - 1)
                    ELSE \E i \in 0..last : e.target = past[i][p]
    <2> DEFINE deleted == IF at # 0 /\ log[at].path = p /\ log[at].kind = "DELETED"
                            THEN log[at].prev ELSE None
               oldest == IF Versions(p) = {} THEN None ELSE log[First(Versions(p))].hash
               latest == IF Deletions(p) = {} THEN None ELSE log[Latter(Deletions(p))].prev
    <2>1. e.target = FirstKnown(<<deleted, oldest, latest>>) /\ e.target # None
      BY <1>1, <1>6, <1>8 DEF RestoreSource, Fallbacks
    <2>2. /\ deleted # None => e.target = deleted
          /\ deleted = None => \/ oldest # None /\ e.target = oldest
                               \/ latest # None /\ e.target = latest
      <3> HIDE DEF deleted, oldest, latest
      <3> QED
        BY <2>1, FirstKnownIs
    <2>3. at # 0 => at \in Ids /\ pruned < at
      BY <1>1, DecidingEvents DEF Whole
    <2>4. at \in Deletions(p) <=> at # 0 /\ log[at].path = p /\ log[at].kind = "DELETED"
      BY <2>3, Typed DEF Deletions
    <2>5. Versions(p) \in SUBSET Ids /\ Deletions(p) \in SUBSET Ids
      BY DEF Versions, Deletions
    <2>6. oldest # None => \E i \in 0..last : oldest = past[i][p]
      <3> SUFFICES ASSUME oldest # None
                   PROVE  \E i \in 0..last : oldest = past[i][p]
        OBVIOUS
      <3>1. Versions(p) # {} /\ oldest = log[First(Versions(p))].hash
        OBVIOUS
      <3>2. First(Versions(p)) \in Versions(p)
        BY <1>1, <2>5, <3>1, FirstIsOne
      <3>3. \E i \in 0..last : log[First(Versions(p))].hash = past[i][p]
        BY <3>2, VersionWas
      <3> QED
        BY <3>1, <3>3
    <2>7. latest # None => \E i \in 0..last : latest = past[i][p]
      <3> SUFFICES ASSUME latest # None
                   PROVE  \E i \in 0..last : latest = past[i][p]
        OBVIOUS
      <3>1. Deletions(p) # {} /\ latest = log[Latter(Deletions(p))].prev
        OBVIOUS
      <3>2. Latter(Deletions(p)) \in Deletions(p)
        BY <1>1, <2>5, <3>1, FirstIsOne
      <3>3. log[Latter(Deletions(p))].prev # None
        BY <3>1
      <3>4. \E i \in 0..last : log[Latter(Deletions(p))].prev = past[i][p]
        BY <3>2, <3>3, DeletedWas
      <3> QED
        BY <3>1, <3>4
    <2>8. past[b][p] = None
      <3>1. CASE StateAtId(p, b) = past[b][p]
        BY <1>1, <1>3, <1>8, <3>1
      <3>2. CASE Touching(p) = {} /\ at = 0
        <4>1. Versions(p) = {} /\ Deletions(p) = {}
          BY <3>2 DEF Versions, Deletions, Touching, Touches
        <4>2. deleted = None /\ oldest = None /\ latest = None
          BY <3>2, <4>1
        <4> QED
          BY <2>1, <2>2, <4>2
      <3> QED
        BY <1>2, <3>1, <3>2
    <2>9. CASE at \in Deletions(p)
      <3>1. deleted = log[at].prev /\ pruned < at
        BY <2>3, <2>4, <2>9
      <3>2. \/ log[at].prev # None /\ log[at].prev = past[at - 1][p]
            \/ Unrecorded(p, at - 1)
        BY <2>9, <3>1, DeletionTakes
      <3> HIDE DEF deleted, oldest, latest
      <3> QED
        BY <2>2, <2>8, <2>9, <3>1, <3>2
    <2>10. CASE at \notin Deletions(p)
      <3>1. deleted = None
        BY <2>4, <2>10
      <3> HIDE DEF deleted, oldest, latest
      <3> QED
        BY <2>2, <2>6, <2>7, <2>8, <2>10, <3>1
    <2> QED
      BY <2>9, <2>10
  <1>9. e \in Directory({p}, t) \/ e \in SingleFile(p, t, TRUE)
    BY DEF RestoreFile
  <1> QED
    BY <1>5, <1>7, <1>8, <1>9

LEMMA FallbackHolds == HistoryInv => FallbackFromBefore
  <1> SUFFICES ASSUME HistoryInv, NEW p \in Path
               PROVE  /\ \A t \in 0..now : Reached(t) =>
                           \A e \in RestoreFile(p, t, TRUE) :
                             \/ Unclear(p, At(t))
                             \/ e.target = past[At(t)][p]
                             \/ /\ past[At(t)][p] = None
                                /\ IF PathStateEventAtId(p, At(t)) \in Deletions(p)
                                     THEN \/ e.target = past[PathStateEventAtId(p, At(t)) - 1][p]
                                          \/ Unrecorded(p, PathStateEventAtId(p, At(t)) - 1)
                                     ELSE \E i \in 0..last : e.target = past[i][p]
                      /\ \A e \in RestoreDeleted(p) : slips = 0 =>
                           \/ e.target = past[Max(Deletions(p)) - 1][p]
                           \/ Unrecorded(p, Max(Deletions(p)) - 1)
    BY DEF FallbackFromBefore
  <1>1. ASSUME NEW t \in 0..now, Reached(t), NEW e \in RestoreFile(p, t, TRUE), ~Unclear(p, At(t))
        PROVE  \/ e.target = past[At(t)][p]
               \/ /\ past[At(t)][p] = None
                  /\ IF PathStateEventAtId(p, At(t)) \in Deletions(p)
                       THEN \/ e.target = past[PathStateEventAtId(p, At(t)) - 1][p]
                            \/ Unrecorded(p, PathStateEventAtId(p, At(t)) - 1)
                       ELSE \E i \in 0..last : e.target = past[i][p]
    <2>1. t \in Nat
      BY Typed
    <2>2. PICK b \in pruned..last : b = At(t)
      BY <1>1, <2>1, TimeIsBoundary
    <2>3. PICK at : at = PathStateEventAtId(p, b)
      OBVIOUS
    <2> QED
      BY <1>1, <2>1, <2>2, <2>3, FallbackIs
  <1>2. ASSUME NEW e \in RestoreDeleted(p), slips = 0
        PROVE  \/ e.target = past[Max(Deletions(p)) - 1][p]
               \/ Unrecorded(p, Max(Deletions(p)) - 1)
    <2>1. Deletions(p) # {} /\ e.target = log[Latter(Deletions(p))].prev
      BY <1>2 DEF RestoreDeleted, Target
    <2>2. Deletions(p) \in SUBSET Ids
      BY DEF Deletions
    <2>3. PICK d \in Deletions(p) : d = Latter(Deletions(p)) /\ d = Max(Deletions(p))
      BY <1>2, <2>1, <2>2, FirstIsOne
    <2>4. pruned < d
      BY <1>2, <2>2 DEF HistoryInv, Timely
    <2> QED
      BY <2>1, <2>3, <2>4, DeletionTakes
  <1> QED
    BY <1>1, <1>2

\* A single file comes back from a fallback only if it was absent at the
\* target, and with the content that the deletion before the target took away.
THEOREM FallbacksTrue == Spec => []FallbackFromBefore
  <1> QED
    BY FallbackHolds, Invariance, PTL

-------------------------------------------------------------------------------
(* What the user is told beforehand.                                       *)

\* What a saved plan is said to do to a file is what it does.
LEMMA ChangeIs ==
    ASSUME NEW p \in Path, NEW saved, NEW plan, plan = Prepared(saved)
    PROVE  Change(p, plan) = Verdict(Applied(plan)[p], files[p])
  <1>1. Applied(plan)[p] = IF \E e \in plan : e.path = p
                             THEN (CHOOSE e \in plan : e.path = p).target ELSE files[p]
    BY DEF Applied
  <1>2. \A e \in plan : e.target # files[e.path]
    BY DEF Prepared
  <1>3. CASE \E e \in plan : e.path = p
    <2>1. PICK e \in plan : e.path = p /\ e = CHOOSE x \in plan : x.path = p
      BY <1>3
    <2>2. Applied(plan)[p] = e.target /\ e.target # files[p]
      BY <1>1, <1>2, <1>3, <2>1
    <2>3. ~\A x \in plan : x.path # p
      BY <1>3
    <2> QED
      BY <2>2, <2>3 DEF Change, Verdict
  <1>4. CASE ~\E e \in plan : e.path = p
    <2>1. (\A e \in plan : e.path # p) /\ Applied(plan)[p] = files[p]
      BY <1>1, <1>4
    <2> QED
      BY <2>1 DEF Change, Verdict
  <1> QED
    BY <1>3, <1>4

\* The preview of a time, and the comparison with a time.
LEMMA PreviewOfTime ==
    ASSUME HistoryInv, up, NEW p \in Path, NEW t \in Nat, Reached(t),
           ~Unclear(p, At(t)), ~Unrecorded(p, last)
    PROVE  /\ RestorePreview(p, t) = [change |-> Verdict(past[At(t)][p], files[p]),
                                      old |-> files[p], new |-> past[At(t)][p]]
           /\ past[At(t)][p] # None /\ Touching(p) # {} =>
                /\ DiffSelectionAtTime(p, t) = Selection(past[At(t)][p], FALSE)
                /\ files[p] # None =>
                     (Diff(p, DiffSelectionAtTime(p, t)) = "matches" <=> past[At(t)][p] = files[p])
  <1>1. Path \in SUBSET Path
    OBVIOUS
  <1>2. Applied(TimestampRecovery(Path, t))[p] = past[At(t)][p]
    BY <1>1, TimeTravel
  <1>3. Change(p, TimestampRecovery(Path, t)) = Verdict(past[At(t)][p], files[p])
    BY <1>2, ChangeIs DEF TimestampRecovery
  <1>4. RestorePreview(p, t) = [change |-> Verdict(past[At(t)][p], files[p]),
                                old |-> files[p], new |-> past[At(t)][p]]
    BY <1>2, <1>3 DEF RestorePreview, Told
  <1>5. ASSUME past[At(t)][p] # None, Touching(p) # {}
        PROVE  /\ DiffSelectionAtTime(p, t) = Selection(past[At(t)][p], FALSE)
               /\ files[p] # None =>
                    (Diff(p, DiffSelectionAtTime(p, t)) = "matches" <=> past[At(t)][p] = files[p])
    <2>1. PICK b \in pruned..last : b = At(t)
      BY TimeIsBoundary
    <2>2. Whole /\ StateAtTime(p, t) = StateAtId(p, b)
      BY <2>1, TimeIsBoundary
    <2>3. StateAtId(p, b) = past[b][p]
      BY <1>5, <2>1, <2>2, BoundaryIs
    <2>4. past[b][p] \in Value
      BY <1>5, <2>1, Typed
    <2>5. StateAtTime(p, t) = past[b][p] /\ StateAtTime(p, t) \in Value
      BY <2>2, <2>3, <2>4
    <2>6. RestoreSource(p, t) = past[b][p]
      BY <2>5 DEF RestoreSource
    <2>7. DeletedFallback(p, t) = FALSE
      BY <2>5 DEF DeletedFallback
    <2>8. DiffSelectionAtTime(p, t) = Selection(past[b][p], FALSE)
      BY <2>6, <2>7 DEF DiffSelectionAtTime
    <2>9. Selection(past[b][p], FALSE).hash = past[b][p]
      BY DEF Selection
    <2>10. ASSUME files[p] # None
           PROVE  Diff(p, Selection(past[b][p], FALSE)) =
                    IF past[b][p] = files[p] THEN "matches" ELSE "differs"
      BY <1>5, <2>1, <2>9, <2>10 DEF Diff
    <2> QED
      BY <2>1, <2>8, <2>10
  <1> QED
    BY <1>4, <1>5

\* The comparison with the latest version.
LEMMA PreviewOfLatest ==
    ASSUME HistoryInv, up, NEW p \in Path, slips = 0, ~Unrecorded(p, last)
    PROVE  /\ Diff(p, DiffSelectionFromEvent(p)) # "differs"
           /\ Diff(p, DiffSelectionFromEvent(p)) = "deleted, use restore-deleted" =>
                RestoreDeleted(p) = {Target(p, DiffSelectionFromEvent(p).hash)}
  <1> DEFINE own == {id \in Ids : log[id].path = p}
  <1>1. own \in SUBSET Ids /\ LatestEvent(p) = Latter(own)
    BY DEF LatestEvent
  <1>2. CASE LatestEvent(p) = 0
    <2>1. DiffSelectionFromEvent(p) = Selection(None, FALSE)
      BY <1>2 DEF DiffSelectionFromEvent
    <2>2. Selection(None, FALSE).hash = None
      BY DEF Selection
    <2> QED
      BY <2>1, <2>2 DEF Diff
  <1>3. CASE LatestEvent(p) # 0
    <2>1. own # {}
      BY <1>1, <1>3 DEF Latter
    <2>2. Latter(own) = Highest(own)
      BY <1>1, OrderIs
    <2>3. PICK d \in own : d = LatestEvent(p) /\ \A j \in own : j <= d
      <3> HIDE DEF own
      <3> QED
        BY <1>1, <1>3, <2>2, HighestIs
    <2>4. d \in Ids /\ log[d].path = p /\ Touches(d, p)
      BY <2>3 DEF Touches
    <2>5. DiffSelectionFromEvent(p) = Selection(SavedHash(d), log[d].kind = "DELETED")
      BY <1>3, <2>3 DEF DiffSelectionFromEvent
    <2>6. /\ DiffSelectionFromEvent(p).hash = SavedHash(d)
          /\ DiffSelectionFromEvent(p).deleted = (log[d].kind = "DELETED")
      BY <2>5 DEF Selection
    <2>7. ASSUME files[p] # None, SavedHash(d) # None PROVE SavedHash(d) = files[p]
      <3>1. ~Hidden(p) /\ Linked(p)
        BY HiddenIsUnrecorded DEF HistoryInv
      <3>2. past[last][p] = files[p]
        BY <3>1 DEF Linked
      <3>3. PICK b \in pruned..last : b = last
        BY Typed
      <3>4. PICK at : at = PathStateEventAtId(p, b)
        OBVIOUS
      <3>5. at \in Ids /\ Touches(at, p) /\ d <= at
        BY <2>4, <3>3, <3>4, DecidingEvents, Typed
      <3>6. d # 0 /\ at # 0
        BY <2>4, <3>5, Typed
      <3>7. Whole
        BY DEF HistoryInv, Timely, Whole
      <3>8. ~Unclear(p, b)
        BY <3>3, <3>4, <3>6 DEF Unclear
      <3>9. StateAtId(p, b) = past[b][p]
        BY <3>4, <3>6, <3>7, <3>8, BoundaryIs
      <3>10. StateAtId(p, b) = StateFrom(at, p)
        BY <3>4, <3>6 DEF StateAtId, Resolve
      <3>11. log[at].path = p /\ log[at].kind # "DELETED"
        BY <2>7, <3>2, <3>3, <3>9, <3>10 DEF StateFrom
      <3>12. at <= d
        BY <2>3, <3>5, <3>11
      <3>13. at = d
        <4>1. at \in Nat /\ d \in Nat
          BY <2>4, <3>5, Typed
        <4> QED
          BY <3>5, <3>12, <4>1
      <3>14. SavedHash(d) = log[at].hash /\ log[at].hash # None
        BY <2>7, <3>11, <3>13 DEF SavedHash
      <3> QED
        BY <3>2, <3>3, <3>9, <3>10, <3>11, <3>14 DEF StateFrom
    <2>8. ASSUME log[d].kind = "DELETED", SavedHash(d) # None
          PROVE  RestoreDeleted(p) = {Target(p, SavedHash(d))}
      <3>1. d \in Deletions(p) /\ Deletions(p) \subseteq own
        BY <2>4, <2>8 DEF Deletions
      <3>2. PICK m \in Deletions(p) : m = Latter(Deletions(p)) /\ m = Max(Deletions(p))
        BY <3>1, FirstIsOne
      <3>3. \A j \in Deletions(p) : j <= m
        <4>1. Deletions(p) \in SUBSET Nat /\ last \in Nat /\ \A j \in Deletions(p) : j <= last
          BY <3>1, Typed
        <4> QED
          BY <3>1, <3>2, <4>1, MaxIsGreatest
      <3>4. d \in Nat /\ m \in Nat /\ d <= m /\ m <= d
        BY <2>3, <2>4, <3>1, <3>2, <3>3, Typed
      <3>5. m = d
        BY <3>4
      <3>6. Deletions(p) # {} /\ log[Latter(Deletions(p))].prev = SavedHash(d)
        BY <2>8, <3>1, <3>2, <3>5 DEF SavedHash
      <3> QED
        BY <2>8, <3>6 DEF RestoreDeleted
    <2>9. Diff(p, DiffSelectionFromEvent(p)) # "differs"
      BY <2>6, <2>7 DEF Diff
    <2>10. ASSUME Diff(p, DiffSelectionFromEvent(p)) = "deleted, use restore-deleted"
           PROVE  log[d].kind = "DELETED" /\ SavedHash(d) # None
      BY <2>6, <2>10 DEF Diff
    <2> QED
      BY <2>6, <2>8, <2>9, <2>10
  <1> QED
    BY <1>2, <1>3

LEMMA PreviewHolds == HistoryInv => PreviewIsTrue
  <1> SUFFICES ASSUME HistoryInv, up, NEW p \in Path
               PROVE  /\ \A ago \in 0..now :
                           Reached(RestoreTime(ago)) /\ ~Unclear(p, At(RestoreTime(ago)))
                             /\ ~Unrecorded(p, last) =>
                             /\ RestorePreview(p, RestoreTime(ago)) =
                                  [change |-> Verdict(past[At(RestoreTime(ago))][p], files[p]),
                                   old |-> files[p], new |-> past[At(RestoreTime(ago))][p]]
                             /\ past[At(RestoreTime(ago))][p] # None /\ Touching(p) # {} =>
                                  /\ DiffSelectionAtTime(p, RestoreTime(ago)) =
                                       Selection(past[At(RestoreTime(ago))][p], FALSE)
                                  /\ files[p] # None =>
                                       (Diff(p, DiffSelectionAtTime(p, RestoreTime(ago))) = "matches"
                                          <=> past[At(RestoreTime(ago))][p] = files[p])
                      /\ slips = 0 /\ ~Unrecorded(p, last) =>
                           /\ Diff(p, DiffSelectionFromEvent(p)) # "differs"
                           /\ Diff(p, DiffSelectionFromEvent(p)) = "deleted, use restore-deleted" =>
                                RestoreDeleted(p) = {Target(p, DiffSelectionFromEvent(p).hash)}
    BY DEF PreviewIsTrue
  <1>1. \A ago \in 0..now : RestoreTime(ago) \in Nat
    BY Typed DEF RestoreTime
  <1> QED
    BY <1>1, PreviewOfTime, PreviewOfLatest

\* The preview of a time and the comparisons tell what happened and what
\* restoring will do.
THEOREM PreviewsTrue == Spec => []PreviewIsTrue
  <1> QED
    BY PreviewHolds, Invariance, PTL

-------------------------------------------------------------------------------
(* Events in order.                                                        *)

StrictOrder(S, R) ==
    /\ \A x \in S : <<x, x>> \notin R
    /\ \A x, y, z \in S : <<x, y>> \in R /\ <<y, z>> \in R => <<x, z>> \in R
    /\ \A x, y \in S : x = y \/ <<x, y>> \in R \/ <<y, x>> \in R
Ranks(S, R, rank) ==
    rank \in [S -> Nat] /\ \A x \in S : rank[x] = Cardinality({y \in S : <<y, x>> \in R})
ByRank(S, R) ==
    [n \in 1..Cardinality(S) |->
       CHOOSE x \in S : Cardinality({y \in S : <<y, x>> \in R}) = n - 1]

\* In a finite set with a strict order every rank up to its size is one
\* element's.
LEMMA RanksFill ==
    ASSUME NEW S, IsFiniteSet(S), NEW R \in SUBSET (S \X S),
           StrictOrder(S, R),
           NEW rank, Ranks(S, R, rank)
    PROVE  /\ Cardinality(S) \in Nat
           /\ \A x \in S : rank[x] + 1 \in 1..Cardinality(S)
           /\ \A x, y \in S : <<x, y>> \in R => rank[x] < rank[y]
           /\ \A n \in 1..Cardinality(S) : \E x \in S : rank[x] = n - 1
  <1> DEFINE Below(x) == {y \in S : <<y, x>> \in R}
  <1> USE DEF StrictOrder, Ranks
  <1>1. PICK n \in Nat : n = Cardinality(S)
    BY FS_CardinalityType
  <1>2. ASSUME NEW x \in S PROVE IsFiniteSet(Below(x)) /\ rank[x] \in Nat /\ rank[x] < n
    <2>1. PICK B \in SUBSET S : B = Below(x)
      OBVIOUS
    <2>2. IsFiniteSet(B) /\ Cardinality(B) <= n /\ Cardinality(B) # n
      <3>1. x \notin B
        BY <2>1
      <3> QED
        BY <1>1, <3>1, FS_Subset
    <2>3. Cardinality(B) = rank[x]
      BY <2>1
    <2> QED
      BY <1>1, <2>1, <2>2, <2>3
  <1>3. ASSUME NEW x \in S, NEW y \in S, <<x, y>> \in R PROVE rank[x] < rank[y]
    <2>1. PICK B \in SUBSET S : B = Below(y)
      OBVIOUS
    <2>2. PICK A \in SUBSET B : A = Below(x)
      BY <1>3, <2>1
    <2>3. IsFiniteSet(B) /\ x \in B /\ x \notin A
      BY <1>2, <1>3, <2>1, <2>2
    <2>4. Cardinality(A) <= Cardinality(B) /\ Cardinality(A) # Cardinality(B)
      BY <2>3, FS_Subset
    <2>5. Cardinality(A) = rank[x] /\ Cardinality(B) = rank[y]
      BY <2>1, <2>2
    <2> QED
      BY <1>2, <2>4, <2>5
  <1> DEFINE f == [x \in S |-> rank[x] + 1]
  <1>4. ASSUME NEW x \in S PROVE f[x] = rank[x] + 1 /\ f[x] \in 1..n /\ rank[x] \in Nat
    <2>1. PICK k \in Nat : k = rank[x]
      BY <1>2
    <2>2. k < n
      BY <1>2, <2>1
    <2>3. k + 1 \in 1..n
      BY <2>1, <2>2
    <2> QED
      BY <2>1, <2>3
  <1>5. IsFiniteSet(1..n) /\ Cardinality(1..n) = n
    <2>1. Cardinality(1..n) = IF 1 > n THEN 0 ELSE n - 1 + 1
      BY FS_Interval
    <2> QED
      BY <2>1, FS_Interval
  <1>6. f \in [S -> 1..n]
    BY <1>4
  <1> HIDE DEF f
  <1>7. f \in Injection(S, 1..n)
    <2>2. ASSUME NEW x \in S, NEW y \in S, f[x] = f[y] PROVE x = y
      <3>1. PICK i \in Nat, j \in Nat : i = rank[x] /\ j = rank[y]
        BY <1>4
      <3>2. i + 1 = j + 1
        BY <1>4, <2>2, <3>1
      <3>3. ~(rank[x] < rank[y]) /\ ~(rank[y] < rank[x])
        BY <3>1, <3>2
      <3> QED
        BY <1>3, <3>3
    <2> QED
      BY <1>6, <2>2 DEF Injection, IsInjective
  <1>8. f \in Surjection(S, 1..n)
    BY <1>1, <1>5, <1>7, FS_Injection
  <1>9. ASSUME NEW k \in 1..n PROVE \E x \in S : rank[x] = k - 1
    <2>1. PICK x \in S : f[x] = k
      BY <1>8 DEF Surjection
    <2>2. PICK i \in Nat : i = rank[x]
      BY <1>4
    <2>3. i + 1 = k
      BY <1>4, <2>1, <2>2
    <2>4. i = k - 1
      BY <2>3
    <2> QED
      BY <2>2, <2>4
  <1>10. ASSUME NEW x \in S PROVE rank[x] + 1 \in 1..n
    BY <1>4
  <1> QED
    BY <1>1, <1>3, <1>9, <1>10

\* So choosing the element of each rank sorts the set.
LEMMA RanksSort ==
    ASSUME NEW S, IsFiniteSet(S), NEW R \in SUBSET (S \X S),
           StrictOrder(S, R),
           NEW f, f = ByRank(S, R)
    PROVE  /\ Cardinality(S) \in Nat /\ f \in [1..Cardinality(S) -> S]
           /\ \A x \in S : \E n \in 1..Cardinality(S) : f[n] = x
           /\ \A i, j \in 1..Cardinality(S) : i < j => <<f[i], f[j]>> \in R
  <1>0. ASSUME NEW x \in S PROVE Cardinality({y \in S : <<y, x>> \in R}) \in Nat
    <2>1. PICK B \in SUBSET S : B = {y \in S : <<y, x>> \in R}
      OBVIOUS
    <2>2. IsFiniteSet(B)
      BY FS_Subset
    <2>3. Cardinality(B) \in Nat
      BY <2>2, FS_CardinalityType
    <2> QED
      BY <2>1, <2>3
  <1> DEFINE rank == [x \in S |-> Cardinality({y \in S : <<y, x>> \in R})]
  <1>1. rank \in [S -> Nat] /\ \A x \in S : rank[x] = Cardinality({y \in S : <<y, x>> \in R})
    BY <1>0
  <1>r. Ranks(S, R, rank)
    BY <1>1 DEF Ranks
  <1> HIDE DEF rank
  <1>2. /\ Cardinality(S) \in Nat
        /\ \A x \in S : rank[x] + 1 \in 1..Cardinality(S)
        /\ \A x, y \in S : <<x, y>> \in R => rank[x] < rank[y]
        /\ \A n \in 1..Cardinality(S) : \E x \in S : rank[x] = n - 1
    BY <1>r, RanksFill
  <1>a. \A x \in S : rank[x] \in Nat
    BY <1>1
  <1>3. ASSUME NEW n \in 1..Cardinality(S) PROVE f[n] \in S /\ rank[f[n]] = n - 1
    <2>1. f[n] = CHOOSE x \in S : Cardinality({y \in S : <<y, x>> \in R}) = n - 1
      BY DEF ByRank
    <2>2. \E x \in S : Cardinality({y \in S : <<y, x>> \in R}) = n - 1
      BY <1>1, <1>2
    <2>3. f[n] \in S /\ Cardinality({y \in S : <<y, f[n]>> \in R}) = n - 1
      BY <2>1, <2>2
    <2> QED
      BY <1>1, <2>3
  <1>4. ASSUME NEW x \in S, NEW y \in S, rank[x] = rank[y] PROVE x = y
    <2>1. ~(rank[x] < rank[y]) /\ ~(rank[y] < rank[x])
      BY <1>a, <1>4
    <2> QED
      BY <1>2, <2>1 DEF StrictOrder
  <1>5. ASSUME NEW x \in S PROVE \E n \in 1..Cardinality(S) : f[n] = x
    <2>1. PICK n \in 1..Cardinality(S) : n = rank[x] + 1
      BY <1>2
    <2>2. rank[f[n]] = n - 1 /\ f[n] \in S
      BY <1>3
    <2>3. rank[f[n]] = rank[x]
      <3>1. PICK i \in Nat : i = rank[x]
        BY <1>a
      <3>2. n - 1 = i
        BY <2>1, <3>1
      <3> QED
        BY <2>2, <3>1, <3>2
    <2> QED
      BY <1>4, <2>2, <2>3
  <1>6. ASSUME NEW i \in 1..Cardinality(S), NEW j \in 1..Cardinality(S), i < j
        PROVE  <<f[i], f[j]>> \in R
    <2>a. rank[f[i]] = i - 1 /\ rank[f[j]] = j - 1 /\ f[i] \in S /\ f[j] \in S
      BY <1>3
    <2>b. i - 1 < j - 1
      BY <1>2, <1>6
    <2>1. f[i] \in S /\ f[j] \in S /\ rank[f[i]] < rank[f[j]]
      BY <2>a, <2>b
    <2>2. f[i] # f[j] /\ ~(rank[f[j]] < rank[f[i]])
      <3>1. PICK a \in Nat, b \in Nat : a = rank[f[i]] /\ b = rank[f[j]]
        BY <1>a, <2>a
      <3>2. a < b
        BY <2>1, <3>1
      <3>3. a # b /\ ~(b < a)
        BY <3>2
      <3> QED
        BY <3>1, <3>3
    <2>3. <<f[j], f[i]>> \notin R
      BY <1>2, <2>1, <2>2
    <2> QED
      BY <2>1, <2>2, <2>3 DEF StrictOrder
  <1>7. f \in [1..Cardinality(S) -> S]
    BY <1>3 DEF ByRank
  <1> QED
    BY <1>2, <1>5, <1>6, <1>7

LEMMA IdsAreFinite ==
    ASSUME HistoryInv, NEW S \in SUBSET Ids
    PROVE  IsFiniteSet(S)
  <1>1. PICK n \in Nat : n = last
    BY Typed
  <1>2. S \subseteq 1..n
    BY <1>1, Typed
  <1>3. IsFiniteSet(1..n)
    BY FS_Interval
  <1> QED
    BY <1>2, <1>3, FS_Subset

\* Time, then id, is a strict order of events.
LEMMA BeforeIsOrder ==
    ASSUME HistoryInv
    PROVE  /\ \A x \in Ids : ~Before(x, x)
           /\ \A x, y, z \in Ids : Before(x, y) /\ Before(y, z) => Before(x, z)
           /\ \A x, y \in Ids : x = y \/ Before(x, y) \/ Before(y, x)
  <1>1. \A x \in Ids : x \in Nat /\ log[x].time \in Nat
    BY Typed
  <1>2. \A x \in Ids : ~Before(x, x)
    BY <1>1 DEF Before
  <1>3. ASSUME NEW x \in Ids, NEW y \in Ids, NEW z \in Ids, Before(x, y), Before(y, z)
        PROVE  Before(x, z)
    <2>1. PICK a \in Nat, b \in Nat, c \in Nat :
             a = log[x].time /\ b = log[y].time /\ c = log[z].time
      BY <1>1
    <2>2. a < b \/ (a = b /\ x < y)
      BY <1>3, <2>1 DEF Before
    <2>3. b < c \/ (b = c /\ y < z)
      BY <1>3, <2>1 DEF Before
    <2>4. a < c \/ (a = c /\ x < z)
      BY <1>1, <2>2, <2>3
    <2> QED
      BY <2>1, <2>4 DEF Before
  <1>4. ASSUME NEW x \in Ids, NEW y \in Ids
        PROVE  x = y \/ Before(x, y) \/ Before(y, x)
    <2>1. PICK a \in Nat, b \in Nat : a = log[x].time /\ b = log[y].time
      BY <1>1
    <2>2. a < b \/ b < a \/ (a = b /\ (x < y \/ y < x \/ x = y))
      BY <1>1
    <2> QED
      BY <2>1, <2>2 DEF Before
  <1> QED
    BY <1>2, <1>3, <1>4

\* The order of the queries lists each event of a set once, the first one first.
LEMMA InOrderIs ==
    ASSUME HistoryInv, NEW S \in SUBSET Ids
    PROVE  /\ Cardinality(S) \in Nat /\ InOrder(S) \in [1..Cardinality(S) -> S]
           /\ \A x \in S : \E n \in 1..Cardinality(S) : InOrder(S)[n] = x
           /\ \A i, j \in 1..Cardinality(S) : i < j => Before(InOrder(S)[i], InOrder(S)[j])
  <1>1. PICK R \in SUBSET (S \X S) : \A x, y \in S : <<x, y>> \in R <=> Before(x, y)
    <2>1. {w \in S \X S : Before(w[1], w[2])} \in SUBSET (S \X S)
      OBVIOUS
    <2> QED
      BY <2>1
  <1>2. StrictOrder(S, R)
    <2>1. \A x \in S : x \in Ids
      OBVIOUS
    <2> QED
      BY <1>1, <2>1, BeforeIsOrder DEF StrictOrder
  <1>3. IsFiniteSet(S)
    BY IdsAreFinite
  <1>4. InOrder(S) = ByRank(S, R)
    <2>1. \A x \in S : {y \in S : <<y, x>> \in R} = {y \in S : Before(y, x)}
      BY <1>1
    <2>2. \A x \in S : Cardinality({y \in S : <<y, x>> \in R}) = Cardinality({y \in S : Before(y, x)})
      BY <2>1
    <2>3. ASSUME NEW n \in 1..Cardinality(S)
          PROVE  (CHOOSE x \in S : Cardinality({y \in S : <<y, x>> \in R}) = n - 1)
                   = CHOOSE x \in S : Cardinality({y \in S : Before(y, x)}) = n - 1
      BY <2>2
    <2> QED
      BY <2>3 DEF InOrder, ByRank
  <1>5. /\ Cardinality(S) \in Nat /\ InOrder(S) \in [1..Cardinality(S) -> S]
        /\ \A x \in S : \E n \in 1..Cardinality(S) : InOrder(S)[n] = x
        /\ \A i, j \in 1..Cardinality(S) : i < j => <<InOrder(S)[i], InOrder(S)[j]>> \in R
    BY <1>2, <1>3, <1>4, RanksSort
  <1> QED
    BY <1>1, <1>5

\* The first one is First, and no other event is before it.
LEMMA FirstIs ==
    ASSUME HistoryInv, NEW S \in SUBSET Ids, S # {}
    PROVE  /\ InOrder(S)[1] = First(S) /\ 1 \in 1..Cardinality(S) /\ First(S) \in S
           /\ \A x \in S \ {First(S)} : Before(First(S), x)
  <1>1. PICK k \in Nat : k = Cardinality(S)
    BY InOrderIs
  <1>2. PICK f \in [1..k -> S] : f = InOrder(S)
    BY <1>1, InOrderIs
  <1>3. /\ \A x \in S : \E n \in 1..k : f[n] = x
        /\ \A i, j \in 1..k : i < j => Before(f[i], f[j])
    BY <1>1, <1>2, InOrderIs
  <1>4. 1 \in 1..k /\ f[1] \in S
    BY <1>1, <1>2, <1>3
  <1>5. ASSUME NEW x \in S \ {f[1]} PROVE Before(f[1], x)
    <2>1. PICK n \in 1..k : f[n] = x
      BY <1>3
    <2>2. 1 < n
      BY <1>1, <1>5, <2>1
    <2> QED
      BY <1>3, <1>4, <2>1, <2>2
  <1>6. First(S) \in S /\ \A x \in S \ {First(S)} : Before(First(S), x)
    BY <1>4, <1>5 DEF First
  <1>7. First(S) = f[1]
    <2>1. First(S) \in Ids /\ f[1] \in Ids
      BY <1>4, <1>6
    <2>2. First(S) # f[1] => Before(First(S), f[1]) /\ Before(f[1], First(S))
      BY <1>4, <1>5, <1>6
    <2> QED
      BY <2>1, <2>2, BeforeIsOrder
  <1> QED
    BY <1>1, <1>2, <1>4, <1>6, <1>7

\* The same for the ids of a Run's events, which are listed by id.
LEMMA ByIdIs ==
    ASSUME HistoryInv, NEW S \in SUBSET Ids
    PROVE  /\ Cardinality(S) \in Nat /\ ById(S) \in [1..Cardinality(S) -> S]
           /\ \A x \in S : \E n \in 1..Cardinality(S) : ById(S)[n] = x
           /\ \A i, j \in 1..Cardinality(S) : i < j => ById(S)[i] < ById(S)[j]
  <1>1. PICK R \in SUBSET (S \X S) : \A x, y \in S : <<x, y>> \in R <=> x < y
    <2>1. {w \in S \X S : w[1] < w[2]} \in SUBSET (S \X S)
      OBVIOUS
    <2> QED
      BY <2>1
  <1>2. StrictOrder(S, R)
    <2>1. \A x \in S : x \in Nat
      BY Typed
    <2> QED
      BY <1>1, <2>1 DEF StrictOrder
  <1>3. IsFiniteSet(S)
    BY IdsAreFinite
  <1>4. PICK f : f = ById(S)
    OBVIOUS
  <1>5. f = ByRank(S, R)
    <2>1. \A x \in S : {y \in S : <<y, x>> \in R} = {y \in S : y < x}
      BY <1>1
    <2>2. \A x \in S : Cardinality({y \in S : <<y, x>> \in R}) = Cardinality({y \in S : y < x})
      BY <2>1
    <2>3. ASSUME NEW n \in 1..Cardinality(S)
          PROVE  (CHOOSE x \in S : Cardinality({y \in S : <<y, x>> \in R}) = n - 1)
                   = CHOOSE x \in S : Cardinality({y \in S : y < x}) = n - 1
      BY <2>2
    <2> QED
      BY <1>4, <2>3 DEF ById, ByRank
  <1>6. /\ Cardinality(S) \in Nat /\ f \in [1..Cardinality(S) -> S]
        /\ \A x \in S : \E n \in 1..Cardinality(S) : f[n] = x
        /\ \A i, j \in 1..Cardinality(S) : i < j => <<f[i], f[j]>> \in R
    BY <1>2, <1>3, <1>5, RanksSort
  <1> QED
    BY <1>1, <1>4, <1>6

-------------------------------------------------------------------------------
(* Groups of edits.                                                        *)

\* A group begins with the event that opened it.
LEMMA GroupIs ==
    ASSUME HistoryInv, NEW S \in SUBSET Ids, NEW gap, NEW group \in SplitByGap(S, gap)
    PROVE  /\ group \in SUBSET S /\ group \in SUBSET Ids /\ group # {} /\ First(group) \in group
           /\ Opens(First(group), S, gap)
  <1>1. PICK start \in S :
           /\ Opens(start, S, gap)
           /\ group = {id \in S : /\ ~Before(id, start)
                                  /\ \A other \in S : Opens(other, S, gap) =>
                                       ~(Before(start, other) /\ ~Before(id, other))}
    BY DEF SplitByGap
  <1>2. group \in SUBSET S /\ group \in SUBSET Ids /\ \A id \in group : ~Before(id, start)
    BY <1>1
  <1>3. start \in group
    <2>1. start \in Ids
      OBVIOUS
    <2> QED
      BY <1>1, <2>1, BeforeIsOrder
  <1>4. First(group) \in group /\ \A x \in group \ {First(group)} : Before(First(group), x)
    BY <1>2, <1>3, FirstIs
  <1>5. First(group) = start
    BY <1>2, <1>3, <1>4
  <1> QED
    BY <1>1, <1>2, <1>3, <1>5

\* The window reaches back to an event of its own, and its items that are not
\* Runs are groups of its events.
LEMMA WindowIs ==
    ASSUME HistoryInv, NEW since, NEW limit
    PROVE  Window(since, limit) \in SUBSET Ids
  BY DEF Window, Newest, EventsSince

LEMMA EditItemIs ==
    ASSUME HistoryInv, NEW since, NEW limit, NEW item \in Items(since, limit), item.kind = "edits"
    PROVE  \E group \in SplitByGap(Unclaimed(Window(since, limit),
                                             ListedRuns(Lowest(Window(since, limit)))), EditGap) :
              item = GroupItem("edits", group, Lowest(Window(since, limit)))
  <1>1. /\ \A r \in Run : RunItem(r).kind = "run"
        /\ \A group, low : GroupItem("collision", group, low).kind = "collision"
    BY DEF RunItem, GroupItem, Item
  <1>2. ~ \E r \in ListedRuns(Lowest(Window(since, limit))) : item = RunItem(r)
    BY <1>1 DEF ListedRuns
  <1>3. item \notin CollisionItems(Window(since, limit), Lowest(Window(since, limit)))
    BY <1>1 DEF CollisionItems
  <1>4. item \in EditItems(Window(since, limit), Lowest(Window(since, limit)))
    BY <1>2, <1>3 DEF Items
  <1> QED
    BY <1>4 DEF EditItems

\* What a group's item lists and what undoing it goes back to.
LEMMA GroupItemIs ==
    ASSUME HistoryInv, NEW W \in SUBSET Ids, NEW group \in SUBSET W, group # {},
           NEW kind, NEW item, item = GroupItem(kind, group, Lowest(W))
    PROVE  /\ item.kind = kind /\ item.events = InOrder(group)
           /\ item.events[1] = First(group) /\ First(group) \in group
           /\ item.boundary = First(group) - 1
           /\ item.files = FileChanges(InOrder(group))
           /\ \A g \in item.files : \E id \in group : g.path = log[id].path
  <1>1. /\ item.kind = kind /\ item.events = InOrder(group)
        /\ item.boundary = Boundary(group, Lowest(W))
        /\ item.files = FileChanges(InOrder(group))
    BY DEF GroupItem, Item
  <1>2. group \in SUBSET Ids
    OBVIOUS
  <1>3. InOrder(group)[1] = First(group) /\ First(group) \in group
    BY <1>2, FirstIs
  <1>4. Boundary(group, Lowest(W)) = First(group) - 1
    <2>1. PICK a \in Nat, b \in Nat : a = First(group) /\ b = Lowest(W)
      BY <1>2, <1>3, Typed, LowestIs
    <2>2. b <= a
      <3>1. a \in W
        BY <1>3, <2>1
      <3> QED
        BY <2>1, <3>1, LowestIs, Typed
    <2>3. (IF a - 1 > b - 1 THEN a - 1 ELSE b - 1) = a - 1
      BY <2>2
    <2> QED
      BY <2>1, <2>3 DEF Boundary, Larger
  <1>5. ASSUME NEW g \in FileChanges(InOrder(group))
        PROVE  \E id \in group : g.path = log[id].path
    <2>1. PICK i \in DOMAIN InOrder(group) : g = FileChange(InOrder(group), log[InOrder(group)[i]].path)
      BY DEF FileChanges
    <2>2. InOrder(group)[i] \in group
      BY <1>2, <2>1, InOrderIs
    <2>3. g.path = log[InOrder(group)[i]].path
      BY <2>1 DEF FileChange
    <2> QED
      BY <2>2, <2>3
  <1> QED
    BY <1>1, <1>3, <1>4, <1>5

LEMMA EditsUndoneHolds == HistoryInv => EditsUndone
<1> SUFFICES ASSUME HistoryInv, NEW limit \in 1..MaxEvents, NEW item \in Items(0, limit),
                    item.kind = "edits", slips = 0, NEW f \in item.files
             PROVE  \/ Applied(UndoItem(item))[f.path] = past[item.events[1] - 1][f.path]
                    \/ Unclear(f.path, item.events[1] - 1)
  BY DEF EditsUndone
<1>1. PICK group \in SplitByGap(Unclaimed(Window(0, limit), ListedRuns(Lowest(Window(0, limit)))), EditGap) :
         item = GroupItem("edits", group, Lowest(Window(0, limit)))
  BY EditItemIs
<1>2. /\ Window(0, limit) \in SUBSET Ids /\ group \in SUBSET Window(0, limit) /\ group # {}
      /\ group \in SUBSET Ids
  <2>1. /\ Unclaimed(Window(0, limit), ListedRuns(Lowest(Window(0, limit)))) \in SUBSET Ids
        /\ Unclaimed(Window(0, limit), ListedRuns(Lowest(Window(0, limit)))) \in SUBSET Window(0, limit)
    BY WindowIs DEF Unclaimed
  <2> QED
    BY <2>1, GroupIs, WindowIs
<1>3. /\ item.events[1] = First(group) /\ First(group) \in group
      /\ item.boundary = First(group) - 1
      /\ \A g \in item.files : \E id \in group : g.path = log[id].path
  BY <1>1, <1>2, GroupItemIs
<1>4. PICK p \in Path : p = f.path /\ \E id \in Ids : p = log[id].path
  <2>1. PICK id \in group : f.path = log[id].path
    BY <1>3
  <2> QED
    BY <1>2, <2>1, Typed
<1>5. PICK b : b = First(group) - 1
  OBVIOUS
<1>6. b \in pruned..last /\ b \in 0..last /\ Whole
  <2>1. PICK a \in Nat : a = First(group)
    BY <1>2, <1>3, Typed
  <2>2. a \in Ids /\ pruned < a /\ a <= last
    BY <1>2, <1>3, <2>1, Typed DEF HistoryInv, Timely
  <2> QED
    BY <1>5, <2>1, <2>2, Typed DEF HistoryInv, Timely, Whole
<1>7. p \in Selectable(item) /\ Selectable(item) \in SUBSET Path
  <2>1. \A g \in item.files : g.path \in Path
    BY <1>2, <1>3, Typed
  <2> QED
    BY <1>4, <2>1 DEF Selectable
<1>8. UndoItem(item) = EventBoundaryRecovery(Selectable(item), b)
  BY <1>3, <1>5 DEF UndoItem
<1>9. Touching(p) # {}
  BY <1>4 DEF Touching, Touches
<1>10. Unclear(p, b) \/ StateAtId(p, b) = past[b][p]
  BY <1>6, <1>9, BoundaryIs
<1>11. past[b][p] \in Value \cup {None}
  BY <1>6, Typed
<1>12. Applied(EventBoundaryRecovery(Selectable(item), b))[p] =
         IF p \in Selectable(item) /\ (StateAtId(p, b) \in Value \/ StateAtId(p, b) = None)
           THEN StateAtId(p, b) ELSE files[p]
  BY <1>7, PathsAtIs
<1>13. Unclear(p, b) \/ Applied(UndoItem(item))[p] = past[b][p]
  BY <1>7, <1>8, <1>10, <1>11, <1>12
<1> QED
  BY <1>3, <1>4, <1>5, <1>13

\* Undoing a group of edits brings each of its files back to what it was just
\* before the group's first event, also when the window cuts older edits off.
THEOREM EditGroupsUndone == Spec => []EditsUndone
  BY Invariance, EditsUndoneHolds, PTL

-------------------------------------------------------------------------------
(* What was done to a file.                                                *)

\* The first and the last event of a path in a list of events.
LEMMA FileChangeIs ==
    ASSUME HistoryInv, NEW n \in Nat, NEW events \in [1..n -> Ids], NEW f \in FileChanges(events)
    PROVE  /\ f.path \in Path /\ f.first \in Ids /\ f.last \in Ids
           /\ log[f.first].path = f.path /\ log[f.last].path = f.path
           /\ f.change = NetChange(f.first, f.last)
  <1>1. PICK i \in 1..n : f = FileChange(events, log[events[i]].path)
    BY DEF FileChanges
  <1>2. PICK p : p = log[events[i]].path
    OBVIOUS
  <1>3. PICK mine \in SUBSET (1..n) : mine = {k \in DOMAIN events : log[events[k]].path = p}
    OBVIOUS
  <1>4. /\ f.path = p /\ f.first = events[Min(mine)] /\ f.last = events[Max(mine)]
        /\ f.change = NetChange(events[Min(mine)], events[Max(mine)])
    BY <1>1, <1>2, <1>3 DEF FileChange
  <1>5. Min(mine) \in mine /\ Max(mine) \in mine
    <2>1. mine \in SUBSET Nat /\ mine # {} /\ \A k \in mine : k <= n
      BY <1>1, <1>2, <1>3
    <2> QED
      BY <2>1, MinIsLeast, MaxIsGreatest
  <1>6. /\ events[Min(mine)] \in Ids /\ log[events[Min(mine)]].path = p
        /\ events[Max(mine)] \in Ids /\ log[events[Max(mine)]].path = p
    BY <1>3, <1>5
  <1>7. p \in Path
    BY <1>6, Typed
  <1> QED
    BY <1>4, <1>6, <1>7

\* So every item lists events that are left.
LEMMA ItemLists ==
    ASSUME HistoryInv, NEW item \in Items(0, MaxEvents)
    PROVE  \E n \in Nat : \E events \in [1..n -> Ids] : item.files = FileChanges(events)
  <1>0. ASSUME NEW S \in SUBSET Ids, NEW f, f = InOrder(S) \/ f = ById(S)
        PROVE  \E n \in Nat : f \in [1..n -> Ids]
    <2>1. PICK n \in Nat : n = Cardinality(S)
      BY InOrderIs
    <2>2. f \in [1..n -> S]
      BY <1>0, <2>1, InOrderIs, ByIdIs
    <2>3. f \in [1..n -> Ids]
      BY <2>2
    <2> QED
      BY <2>3
  <1>1. CASE \E r \in Run : item = RunItem(r)
    <2>1. PICK r \in Run : item = RunItem(r)
      BY <1>1
    <2>2. PICK S \in SUBSET Ids : S = MineAlone(r, RunEvents(r))
      BY DEF MineAlone, RunEvents, EventsBetween
    <2>3. item.files = FileChanges(ById(S))
      BY <2>1, <2>2 DEF RunItem, Item
    <2>4. PICK f : f = ById(S)
      OBVIOUS
    <2>5. PICK n \in Nat : f \in [1..n -> Ids]
      BY <1>0, <2>4
    <2> QED
      BY <2>3, <2>4, <2>5
  <1>2. CASE \E kind, low, S : S \in SUBSET Ids /\ item = GroupItem(kind, S, low)
    <2>1. PICK kind, low, S : S \in SUBSET Ids /\ item = GroupItem(kind, S, low)
      BY <1>2
    <2>2. item.files = FileChanges(InOrder(S))
      BY <2>1 DEF GroupItem, Item
    <2>3. PICK f : f = InOrder(S)
      OBVIOUS
    <2>4. PICK n \in Nat : f \in [1..n -> Ids]
      BY <1>0, <2>1, <2>3
    <2> QED
      BY <2>2, <2>3, <2>4
  <1>3. ASSUME item \in CollisionItems(Window(0, MaxEvents), Lowest(Window(0, MaxEvents)))
        PROVE  \E kind, low, S : S \in SUBSET Ids /\ item = GroupItem(kind, S, low)
    <2>1. PICK S \in SplitByGap({id \in Window(0, MaxEvents) : ClaimsOf(id) >= 2}, EditGap) :
             item = GroupItem("collision", S, Lowest(Window(0, MaxEvents)))
      BY <1>3 DEF CollisionItems
    <2>2. {id \in Window(0, MaxEvents) : ClaimsOf(id) >= 2} \in SUBSET Ids
      BY WindowIs
    <2>3. S \in SUBSET Ids
      BY <2>1, <2>2, GroupIs
    <2> QED
      BY <2>1, <2>3
  <1>4. ASSUME item \in EditItems(Window(0, MaxEvents), Lowest(Window(0, MaxEvents)))
        PROVE  \E kind, low, S : S \in SUBSET Ids /\ item = GroupItem(kind, S, low)
    <2>1. PICK S \in SplitByGap(Unclaimed(Window(0, MaxEvents),
                                  ListedRuns(Lowest(Window(0, MaxEvents)))), EditGap) :
             item = GroupItem("edits", S, Lowest(Window(0, MaxEvents)))
      BY <1>4 DEF EditItems
    <2>2. Unclaimed(Window(0, MaxEvents), ListedRuns(Lowest(Window(0, MaxEvents)))) \in SUBSET Ids
      BY WindowIs DEF Unclaimed
    <2>3. S \in SUBSET Ids
      BY <2>1, <2>2, GroupIs
    <2> QED
      BY <2>1, <2>3
  <1> QED
    BY <1>1, <1>2, <1>3, <1>4 DEF Items, ListedRuns

\* What the event says of the path before it, if no scan hides it.
LEMMA TellsBefore ==
    ASSUME HistoryInv, Whole, NEW id \in Ids, NEW p \in Path, Touches(id, p),
           ~Unrecorded(p, id - 1), ~Misleading(id, p)
    PROVE  SourceBefore(id, p) = past[id - 1][p] /\ (ShowsPresence(id, p) => log[id].prev # None)
  <1>1. Tells(id, p) /\ pruned < id
    BY DEF HistoryInv, Whole
  <1>2. ~SilentBefore(id, p)
    BY <1>1, SilentBeforeIs
  <1> QED
    BY <1>1, <1>2 DEF Tells

\* The two events that a diff compares.
LEMMA DiffSidesIs ==
    ASSUME HistoryInv, NEW p \in Path, NEW a \in Ids, NEW z \in Ids, a <= z,
           log[a].path = p, log[z].path = p
    PROVE  DiffSides(p, a, z) =
             [old |-> IF log[a].kind = "CREATED" THEN None ELSE log[a].prev,
              new |-> IF log[z].kind = "DELETED" THEN None ELSE log[z].hash]
  <1>1. a \in Nat /\ z \in Nat /\ \A id \in Ids : id \in Nat
    BY Typed
  <1>2. PICK mine : mine = {id \in EventsBetween(a - 1, z) : log[id].path = p}
    OBVIOUS
  <1>3. \A id \in mine : id \in Nat /\ a <= id /\ id <= z
    BY <1>1, <1>2 DEF EventsBetween
  <1>4. a \in mine /\ z \in mine
    BY <1>1, <1>2 DEF EventsBetween
  <1>5. Min(mine) \in mine /\ Min(mine) <= a /\ Max(mine) \in mine /\ z <= Max(mine)
    <2>1. mine \in SUBSET Nat /\ mine # {}
      BY <1>3, <1>4
    <2> QED
      BY <1>1, <1>3, <1>4, <2>1, MinIsLeast, MaxIsGreatest
  <1>6. Min(mine) = a /\ Max(mine) = z
    <2>1. PICK x \in Nat, y \in Nat : x = Min(mine) /\ y = Max(mine)
      BY <1>3, <1>5
    <2>2. a <= x /\ x <= a /\ z <= y /\ y <= z
      BY <1>3, <1>5, <2>1
    <2>3. x = a /\ y = z
      BY <1>1, <2>2
    <2> QED
      BY <2>1, <2>3
  <1> QED
    BY <1>2, <1>6 DEF DiffSides

LEMMA NetChangeHolds == HistoryInv => NetChangeIsTrue
<1> SUFFICES ASSUME HistoryInv, NEW item \in Items(0, MaxEvents), Whole, NEW f \in item.files,
                    NEW a, a = f.first, NEW z, z = f.last, NEW p, p = f.path,
                    NEW source, source = IF log[a].kind = "RENAMED" THEN log[a].old ELSE p,
                    a <= z, ~Unrecorded(source, a - 1),
                    ~(log[a].kind = "MODIFIED" /\ past[a - 1][p] = None)
             PROVE  /\ f.change = "deleted" <=> past[z][p] = None
                    /\ f.change = "created" => past[a - 1][p] = None
                    /\ f.change = "modified" /\ ~(log[a].kind = "RENAMED") => past[a - 1][p] # None
                    /\ DiffSides(p, a, z) = [old |-> past[a - 1][source], new |-> past[z][p]]
  BY DEF NetChangeIsTrue
<1>0. PICK n \in Nat : \E events \in [1..n -> Ids] : item.files = FileChanges(events)
  BY ItemLists
<1>1. PICK events \in [1..n -> Ids] : item.files = FileChanges(events)
  BY <1>0
<1>2. /\ p \in Path /\ a \in Ids /\ z \in Ids /\ log[a].path = p /\ log[z].path = p
      /\ f.change = NetChange(a, z)
  BY <1>1, FileChangeIs
<1>3. /\ log[a].kind \in {"CREATED", "MODIFIED", "DELETED", "RENAMED"}
      /\ log[z].kind \in {"CREATED", "MODIFIED", "DELETED", "RENAMED"}
      /\ log[a].old \in Path \cup {None} /\ None \notin Path /\ None \notin Value
  BY <1>2, Typed DEF Event
<1>4. Shows(a) /\ Shows(z)
  BY <1>2 DEF HistoryInv
<1>5. past[z][p] = IF log[z].kind = "DELETED" THEN None ELSE log[z].hash
  BY <1>2, <1>4 DEF Shows
<1>6. log[z].kind = "DELETED" <=> past[z][p] = None
  BY <1>2, <1>3, <1>4 DEF Shows
<1>7. CASE log[a].kind = "RENAMED"
  <2>1. source = log[a].old /\ source \in Path /\ source # p
    BY <1>2, <1>3, <1>4, <1>7 DEF Shows
  <2>2. Touches(a, source) /\ ~Misleading(a, source) /\ ShowsPresence(a, source)
    BY <1>2, <2>1 DEF Touches, Misleading, ShowsPresence
  <2>3. log[a].prev = past[a - 1][source]
    BY <1>2, <2>1, <2>2, TellsBefore DEF SourceBefore
  <2>4. DiffSides(p, a, z) = [old |-> past[a - 1][source], new |-> past[z][p]]
    BY <1>2, <1>5, <1>7, <2>3, DiffSidesIs
  <2> QED
    BY <1>2, <1>3, <1>6, <1>7, <2>4 DEF NetChange
<1>8. CASE log[a].kind # "RENAMED"
  <2>1. source = p /\ log[a].old = None
    BY <1>4, <1>8 DEF Shows
  <2>2. Touches(a, p) /\ ~Misleading(a, p)
    BY <1>2, <1>8 DEF Touches, Misleading
  <2>3. /\ SourceBefore(a, p) = past[a - 1][p]
        /\ ShowsPresence(a, p) => log[a].prev # None
    BY <1>2, <2>1, <2>2, TellsBefore
  <2>4. ShowsPresence(a, p) <=> log[a].kind # "CREATED"
    BY <1>2, <1>3, <1>8, <2>1 DEF ShowsPresence
  <2>5. past[a - 1][p] = IF log[a].kind = "CREATED" THEN None ELSE log[a].prev
    BY <2>3, <2>4 DEF SourceBefore
  <2>6. log[a].kind # "CREATED" => past[a - 1][p] # None
    BY <2>3, <2>4, <2>5
  <2>7. DiffSides(p, a, z) = [old |-> past[a - 1][source], new |-> past[z][p]]
    BY <1>2, <1>5, <2>1, <2>5, DiffSidesIs
  <2> QED
    BY <1>2, <1>3, <1>6, <1>8, <2>5, <2>6, <2>7 DEF NetChange
<1> QED
  BY <1>7, <1>8

\* The net change of a file in an item of the timeline, and the two contents its
\* diff compares, are what happened to the file between the item's ends.
THEOREM NetChangesTrue == Spec => []NetChangeIsTrue
  BY Invariance, NetChangeHolds, PTL

-------------------------------------------------------------------------------
(* Landing before an event.                                                *)

\* A target one second before an event is the boundary before it, for every
\* path that nothing earlier in the same second is about.
LEMMA LandsBefore ==
    ASSUME HistoryInv, up, slips = 0, NEW scope \in SUBSET Path, NEW p \in scope, NEW first \in Ids,
           \A j \in Ids : j < first /\ Touches(j, p) => log[j].time < log[first].time
    PROVE  \/ Applied(TimestampRecovery(scope, log[first].time - 1))[p] = past[first - 1][p]
           \/ Unclear(p, first - 1) \/ Unrecorded(p, last)
  <1>1. PICK b : b = first - 1
    OBVIOUS
  <1>2. PICK u : u = log[first].time
    OBVIOUS
  <1>3. PICK t : t = u - 1
    OBVIOUS
  <1>4. u \in Nat /\ u # 0 /\ t \in Nat /\ t + 1 = u /\ t < u
    <2>1. u \in Nat /\ u # 0
      BY <1>2, Typed DEF HistoryInv, Shows
    <2> QED
      BY <1>3, <2>1
  <1>5. /\ Whole /\ b \in pruned..last /\ b \in 0..last /\ first \in Nat /\ first = b + 1 /\ b \in Nat
        /\ p \in Path
    <2>1. Whole /\ pruned < first
      BY DEF HistoryInv, Timely, Whole
    <2>2. first \in Nat /\ first <= last /\ 1 <= first /\ p \in Path
      BY Typed
    <2> QED
      BY <1>1, <2>1, <2>2, Typed
  <1>6. Reached(t)
    BY <1>2, <1>4 DEF Reached
  <1>7. PICK c : c = At(t)
    OBVIOUS
  <1>8. /\ c \in pruned..last /\ \A id \in Ids : log[id].time <= t <=> id <= c
        /\ StateAtTime(p, t) = StateAtId(p, c)
    BY <1>4, <1>5, <1>6, <1>7, TimeIsBoundary
  <1>9. ASSUME NEW j \in Ids, first <= j PROVE u <= log[j].time
    <2>1. first = j \/ first < j
      BY <1>5, <1>9, Typed
    <2>2. \A i, k \in Ids : i < k => log[i].time <= log[k].time
      BY DEF HistoryInv, Timely
    <2> QED
      BY <1>2, <1>4, <2>1, <2>2
  <1>10. ASSUME NEW j \in Ids, Touches(j, p) PROVE j <= b <=> j <= c
    <2>1. PICK v \in Nat : v = log[j].time
      BY Typed
    <2>2. j \in Nat /\ (v <= t <=> j <= c)
      BY <1>8, <2>1, Typed
    <2>3. CASE j < first
      <3>1. v < u
        BY <1>2, <1>10, <2>1, <2>3
      <3> QED
        BY <1>4, <1>5, <2>2, <2>3, <3>1
    <2>4. CASE first <= j
      <3>1. u <= v
        BY <1>9, <2>1, <2>4
      <3> QED
        BY <1>4, <1>5, <2>2, <2>4, <3>1
    <2> QED
      BY <1>5, <2>2, <2>3, <2>4
  <1>11. StateAtId(p, c) = StateAtId(p, b)
    <2>1. {id \in Touching(p) : id <= c} = {id \in Touching(p) : id <= b}
      BY <1>10 DEF Touching
    <2>2. {id \in Touching(p) : id > c} = {id \in Touching(p) : id > b}
      <3>1. \A id \in Touching(p) : id \in Ids /\ id \in Nat /\ Touches(id, p)
        BY Typed DEF Touching
      <3>2. c \in Nat
        BY <1>8, Typed
      <3>3. \A id \in Touching(p) : id > c <=> ~(id <= c)
        BY <3>1, <3>2
      <3>4. \A id \in Touching(p) : id > b <=> ~(id <= b)
        BY <1>5, <3>1
      <3> QED
        BY <1>10, <3>1, <3>3, <3>4
    <2> QED
      BY <2>1, <2>2 DEF StateAtId, PathStateEventAtId, FirstPathEventAfterId
  <1>12. Applied(TimestampRecovery(scope, t))[p] =
           IF p \in PathsOf(EventsSince(t)) \cap scope
              /\ (ExactSource(p, t) \in Value \/ ExactSource(p, t) = None)
             THEN ExactSource(p, t) ELSE files[p]
    BY <1>5, DirectoryIs
  <1>13. CASE p \in PathsOf(EventsSince(t))
    <2>1. Touching(p) # {}
      BY <1>13 DEF PathsOf, EventsSince, Touching
    <2>2. Unclear(p, b) \/ StateAtId(p, b) = past[b][p]
      BY <1>5, <2>1, BoundaryIs
    <2>3. past[b][p] \in Value \cup {None}
      BY <1>5, Typed
    <2>4. StateAtId(p, b) = past[b][p] => ExactSource(p, t) = past[b][p]
      BY <1>8, <1>11, <2>3, RestoringConstants DEF ExactSource
    <2> QED
      BY <1>1, <1>2, <1>3, <1>12, <1>13, <2>2, <2>3, <2>4
  <1>14. CASE p \notin PathsOf(EventsSince(t))
    <2>1. ASSUME NEW j \in Ids, b < j PROVE ~Touches(j, p)
      <3>1. PICK v \in Nat : v = log[j].time
        BY Typed
      <3>2. first <= j
        BY <1>5, <2>1, Typed
      <3>3. v >= t
        BY <1>4, <1>9, <3>1, <3>2
      <3> QED
        BY <1>5, <1>14, <3>1, <3>3 DEF PathsOf, EventsSince
    <2>2. files[p] = past[b][p] \/ Unrecorded(p, last)
      BY <1>5, <2>1, UntouchedSince
    <2> QED
      BY <1>1, <1>2, <1>3, <1>12, <1>14, <2>2
  <1> QED
    BY <1>13, <1>14

\* The latest burst is a group of recent events in the folder.
LEMMA LatestBurstIs ==
    ASSUME HistoryInv, slips = 0, NEW scope, LatestBurst(scope) # {}
    PROVE  LatestBurst(scope) \in SplitByGap(EventsInScope(EventsSince(PanicSince), scope), BurstGap)
  <1>1. PICK S \in SUBSET Ids : S = EventsInScope(EventsSince(PanicSince), scope)
    BY DEF EventsInScope, EventsSince
  <1>2. PICK bursts : bursts = Bursts(S)
    OBVIOUS
  <1>3. /\ bursts # {}
        /\ LatestBurst(scope) = CHOOSE burst \in bursts : \A other \in bursts :
                                   log[Latter(other)].time <= log[Latter(burst)].time
    BY <1>1, <1>2 DEF LatestBurst
  <1>4. bursts \subseteq SplitByGap(S, BurstGap)
    BY <1>2 DEF Bursts
  <1>5. PICK T : T = {log[Latter(burst)].time : burst \in bursts}
    OBVIOUS
  <1>6. ASSUME NEW burst \in bursts
        PROVE  log[Latter(burst)].time \in Nat /\ log[Latter(burst)].time <= now
    <2>1. burst \in SUBSET Ids /\ burst # {}
      BY <1>4, GroupIs
    <2>2. Latter(burst) \in Ids
      BY <2>1, FirstIsOne
    <2> QED
      BY <2>2, Typed DEF HistoryInv, Timely
  <1>7. Max(T) \in T /\ \A x \in T : x <= Max(T)
    <2>1. T \in SUBSET Nat /\ T # {} /\ \A x \in T : x <= now
      BY <1>3, <1>5, <1>6
    <2> QED
      BY <2>1, Typed, MaxIsGreatest
  <1>8. PICK burst \in bursts : \A other \in bursts :
           log[Latter(other)].time <= log[Latter(burst)].time
    BY <1>5, <1>7
  <1>9. LatestBurst(scope) \in bursts
    BY <1>3, <1>8
  <1> QED
    BY <1>1, <1>4, <1>9

LEMMA PanicHolds == HistoryInv => PanicBefore
<1> SUFFICES ASSUME HistoryInv, up, NEW scope \in Folder, NEW burst, burst = LatestBurst(scope),
                    burst # {}, slips = 0, NEW p \in scope
             PROVE  \/ Applied(Panic(scope))[p] = past[First(burst) - 1][p]
                    \/ Unclear(p, First(burst) - 1) \/ Unrecorded(p, last)
  BY DEF PanicBefore
<1>1. PICK S \in SUBSET Ids : S = EventsInScope(EventsSince(PanicSince), scope)
  BY DEF EventsInScope, EventsSince
<1>2. burst \in SplitByGap(S, BurstGap)
  BY <1>1, LatestBurstIs
<1>3. First(burst) \in S /\ Opens(First(burst), S, BurstGap)
  BY <1>2, GroupIs
<1>4. PICK first \in Ids : first = First(burst)
  BY <1>1, <1>3
<1>5. scope \in SUBSET Path
  BY RestoringConstants
<1>6. ASSUME NEW j \in Ids, j < first, Touches(j, p)
      PROVE  log[j].time < log[first].time
  <2>1. PICK v \in Nat, u \in Nat : v = log[j].time /\ u = log[first].time
    BY Typed
  <2>2. v <= u
    BY <1>6, <2>1 DEF HistoryInv, Timely
  <2>3. ASSUME v = u PROVE FALSE
    <3>1. j \in S
      <4>1. u >= PanicSince
        BY <1>1, <1>3, <1>4, <2>1 DEF EventsInScope, EventsSince
      <4> QED
        BY <1>1, <1>6, <2>1, <2>3, <4>1 DEF EventsInScope, EventsSince
    <3>2. Before(j, first)
      BY <1>6, <2>1, <2>3 DEF Before
    <3>3. u - v > BurstGap
      BY <1>3, <1>4, <2>1, <3>1, <3>2 DEF Opens
    <3>4. BurstGap \in Nat
      BY ActivityConstants
    <3> QED
      BY <2>1, <2>3, <3>3, <3>4
  <2> QED
    BY <2>1, <2>2, <2>3
<1>7. \/ Applied(TimestampRecovery(scope, log[first].time - 1))[p] = past[first - 1][p]
      \/ Unclear(p, first - 1) \/ Unrecorded(p, last)
  BY <1>4, <1>5, <1>6, LandsBefore
<1> QED
  BY <1>4, <1>7 DEF Panic, PanicTarget

LEMMA AlertHolds == HistoryInv => AlertLandsBefore
<1> SUFFICES ASSUME HistoryInv, NEW item \in Alert(Items(0, MaxEvents), None),
                    up, slips = 0, NEW p \in Path,
                    \A id \in Ids : id < item.events[1] /\ Touches(id, p) =>
                                     log[id].time < log[item.events[1]].time
             PROVE  \/ Applied(TimestampRecovery(Path, AlertTarget(item)))[p] = past[item.events[1] - 1][p]
                    \/ Unclear(p, item.events[1] - 1) \/ Unrecorded(p, last)
  BY DEF AlertLandsBefore
<1>1. PICK alerting : alerting = Alerting(Items(0, MaxEvents), None)
  OBVIOUS
<1>2. PICK W \in SUBSET Ids : W = Window(0, MaxEvents)
  BY WindowIs
<1>3. ASSUME NEW x \in alerting
      PROVE  x.events[1] \in Ids /\ StartedAt(x) \in Nat /\ StartedAt(x) <= now
  <2>1. x \in Items(0, MaxEvents) /\ x.kind = "edits"
    BY <1>1, <1>3 DEF Alerting
  <2>2. PICK group \in SplitByGap(Unclaimed(W, ListedRuns(Lowest(W))), EditGap) :
           x = GroupItem("edits", group, Lowest(W))
    BY <1>2, <2>1, EditItemIs
  <2>3. group \in SUBSET W /\ group # {}
    <3>1. Unclaimed(W, ListedRuns(Lowest(W))) \in SUBSET Ids
      BY DEF Unclaimed
    <3>2. group \in SUBSET Unclaimed(W, ListedRuns(Lowest(W))) /\ group # {}
      BY <2>2, <3>1, GroupIs
    <3> QED
      BY <3>2 DEF Unclaimed
  <2>4. x.events[1] \in Ids
    BY <2>2, <2>3, GroupItemIs
  <2> QED
    BY <2>4, Typed DEF HistoryInv, Timely, StartedAt
<1>4. item \in alerting
  <2>1. /\ alerting # {}
        /\ item = CHOOSE x \in alerting : \A other \in alerting : StartedAt(other) <= StartedAt(x)
    BY <1>1 DEF Alert
  <2>2. PICK T : T = {StartedAt(x) : x \in alerting}
    OBVIOUS
  <2>3. Max(T) \in T /\ \A y \in T : y <= Max(T)
    <3>1. T \in SUBSET Nat /\ T # {} /\ \A y \in T : y <= now
      BY <1>3, <2>1, <2>2
    <3> QED
      BY <3>1, Typed, MaxIsGreatest
  <2>4. PICK x \in alerting : \A other \in alerting : StartedAt(other) <= StartedAt(x)
    BY <2>2, <2>3
  <2> QED
    BY <2>1, <2>4
<1>5. PICK first \in Ids : first = item.events[1]
  BY <1>3, <1>4
<1>6. \A j \in Ids : j < first /\ Touches(j, p) => log[j].time < log[first].time
  BY <1>5
<1>7. \/ Applied(TimestampRecovery(Path, log[first].time - 1))[p] = past[first - 1][p]
      \/ Unclear(p, first - 1) \/ Unrecorded(p, last)
  BY <1>6, LandsBefore
<1> QED
  BY <1>5, <1>7 DEF AlertTarget, StartedAt

\* Whoever is alarmed by sudden deletions gets the state before them, from the
\* command line as from the alert.
THEOREM DamageIsUndone == Spec => []DamageUndone
  BY Invariance, PanicHolds, AlertHolds, PTL DEF DamageUndone

-------------------------------------------------------------------------------
(* Runs next to each other.                                                *)

\* A Run that was started reaches from its start to its end, if it has one.
Within(r, id) ==
    /\ runs[r].mode # "none"
    /\ runs[r].start < id
    /\ runs[r].end # None => id <= runs[r].end

\* What a Run claims is within it, and a window Run that has ended claims all
\* that is left of it.
Claiming(r) ==
    /\ runs[r].mode = "none" => runs[r] = Idle
    /\ \A id \in Ids : id \in runs[r].claims => Within(r, id)
    /\ runs[r].mode = "window" /\ runs[r].end # None =>
          \A id \in Ids : Within(r, id) => id \in runs[r].claims

\* No event that is left is within a window Run and another Run.
Apart(r, q) ==
    runs[r].mode = "window" =>
        /\ ~(Active(r) /\ Active(q))
        /\ \A id \in Ids : ~(Within(r, id) /\ Within(q, id))

RunsInv ==
    /\ \A r \in Run : Claiming(r)
    /\ \A r, q \in Run : r # q => Apart(r, q)

LEMMA RunTyped ==
    ASSUME HistoryInv, NEW r \in Run
    PROVE  /\ runs[r].mode \in {"none", "window", "reported"}
           /\ runs[r].start \in Nat
           /\ runs[r].end = None \/ runs[r].end \in 0..last
           /\ runs[r].claims \subseteq 1..last
           /\ None \notin Nat /\ last \in Nat
           /\ DOMAIN runs = Run
           /\ runs[r] = [mode |-> runs[r].mode, start |-> runs[r].start,
                         end |-> runs[r].end, claims |-> runs[r].claims]
  <1>1. runs \in RunsUpTo(last) /\ last \in Nat
    BY Typed DEF HistoryInv, Bounded
  <1>2. None \notin Nat
    BY HistoryConstants
  <1>3. PICK n \in Nat : n = last
    BY <1>1
  <1>4. runs[r] \in [mode: {"none", "window", "reported"}, start: 0..n,
                     end: {None} \cup (0..n), claims: SUBSET (1..n)] /\ DOMAIN runs = Run
    BY <1>1, <1>3 DEF RunsUpTo
  <1> QED
    BY <1>1, <1>2, <1>3, <1>4

\* Events are committed after every boundary of a Run that has ended, and
\* retention only takes events away.
LEMMA RunsStay ==
    ASSUME HistoryInv, RunsInv, runs' = runs,
           \A id \in Ids' : id \in Ids \/ (id \in Nat /\ last < id)
    PROVE  RunsInv'
  <1>1. ASSUME NEW r \in Run PROVE Claiming(r)'
    <2>1. Claiming(r)
      BY DEF RunsInv
    <2>2. (runs[r].mode = "none" => runs[r] = Idle)'
      BY <2>1 DEF Claiming
    <2>3. ASSUME NEW id \in Ids', id \in runs[r].claims PROVE Within(r, id)'
      <3>1. id \in Ids
        <4>1. PICK n \in Nat : n = last
          BY Typed
        <4>2. id \in 1..n
          BY <2>3, <4>1, RunTyped
        <4> QED
          BY <4>1, <4>2
      <3> QED
        BY <2>1, <2>3, <3>1 DEF Claiming, Within
    <2>4. ASSUME runs[r].mode = "window", runs[r].end # None, NEW id \in Ids', Within(r, id)
          PROVE  id \in runs[r].claims
      <3>1. id <= runs[r].end /\ runs[r].end \in 0..last
        BY <2>4, RunTyped DEF Within
      <3>2. id \in Ids
        BY <3>1, Typed
      <3> QED
        BY <2>1, <2>4, <3>2 DEF Claiming
    <2> QED
      BY <2>2, <2>3, <2>4 DEF Claiming, Within
  <1>2. ASSUME NEW r \in Run, NEW q \in Run, r # q PROVE Apart(r, q)'
    <2>1. Apart(r, q)
      BY <1>2 DEF RunsInv
    <2>2. ASSUME runs[r].mode = "window", NEW id \in Ids', Within(r, id), Within(q, id)
          PROVE  FALSE
      <3>1. CASE id \in Ids
        BY <2>1, <2>2, <3>1 DEF Apart
      <3>2. CASE id \in Nat /\ last < id
        <4>1. runs[r].end = None /\ runs[q].end = None
          <5>1. ASSUME NEW e \in 0..last, id <= e PROVE FALSE
            BY <3>2, <5>1, Typed
          <5> QED
            BY <2>2, <5>1, RunTyped DEF Within
        <4> QED
          BY <2>1, <2>2, <4>1 DEF Apart, Active, Within
      <3> QED
        BY <3>1, <3>2
    <2> QED
      BY <2>1, <2>2 DEF Apart, Active, Within
  <1> QED
    BY <1>1, <1>2 DEF RunsInv

\* Only one Run changes.
LEMMA OthersStay ==
    ASSUME HistoryInv, RunsInv, Ids' = Ids, NEW r \in Run,
           \A q \in Run \ {r} : runs'[q] = runs[q],
           Claiming(r)', \A q \in Run \ {r} : Apart(r, q)' /\ Apart(q, r)'
    PROVE  RunsInv'
  <1>1. ASSUME NEW q \in Run, q # r PROVE Claiming(q)'
    <2>1. Claiming(q) /\ runs'[q] = runs[q]
      BY <1>1 DEF RunsInv
    <2>2. ASSUME NEW id \in Ids PROVE Within(q, id)' <=> Within(q, id)
      BY <2>1 DEF Within
    <2> QED
      BY <2>1, <2>2 DEF Claiming, Idle
  <1>2. ASSUME NEW x \in Run \ {r}, NEW y \in Run \ {r}, x # y PROVE Apart(x, y)'
    <2>1. Apart(x, y) /\ runs'[x] = runs[x] /\ runs'[y] = runs[y]
      BY <1>2 DEF RunsInv
    <2> QED
      BY <2>1 DEF Apart, Active, Within
  <1> QED
    BY <1>1, <1>2 DEF RunsInv

LEMMA StartKeepsApart ==
    ASSUME HistoryInv, RunsInv, NEW r \in Run, NEW mode \in {"window", "reported"}, StartRun(r, mode)
    PROVE  RunsInv'
  <1>1. /\ runs'[r].mode = mode /\ runs'[r].start = MaxEventId /\ runs'[r].end = None
        /\ runs'[r].claims = {}
        /\ \A q \in Run \ {r} : runs'[q] = runs[q]
    BY RunTyped DEF StartRun, Idle
  <1>2. Ids' = Ids
    BY DEF StartRun, recorded, Ids
  <1>3. ASSUME NEW id \in Ids PROVE ~Within(r, id)'
    <2>1. id <= MaxEventId /\ id \in Nat /\ MaxEventId \in Nat
      BY MaxEventIdIs, Typed
    <2> QED
      BY <1>1, <2>1 DEF Within
  <1>4. Claiming(r)'
    BY <1>1 DEF Claiming
  <1>5. ASSUME NEW q \in Run \ {r} PROVE Apart(r, q)' /\ Apart(q, r)'
    <2>1. runs[q].mode = "window" \/ mode = "window" => ~Active(q)
      BY DEF StartRun
    <2>2. Active(q)' <=> Active(q)
      BY <1>1 DEF Active
    <2>3. runs'[q] = runs[q]
      BY <1>1
    <2> QED
      BY <1>1, <1>2, <1>3, <2>1, <2>2, <2>3 DEF Apart
  <1> QED
    BY <1>1, <1>2, <1>4, <1>5, OthersStay

LEMMA ClaimKeepsApart ==
    ASSUME HistoryInv, RunsInv, NEW r \in Run, NEW p \in Path, Claim(r, p)
    PROVE  RunsInv'
  <1>1. PICK new : /\ new \subseteq EventsBetween(runs[r].start, MaxEventId)
                   /\ runs' = [runs EXCEPT ![r].claims = @ \cup new]
    <2>1. {id \in EventsBetween(runs[r].start, MaxEventId) : Touches(id, p)}
             \subseteq EventsBetween(runs[r].start, MaxEventId)
      OBVIOUS
    <2> QED
      BY <2>1 DEF Claim
  <1>2. /\ runs'[r].mode = runs[r].mode /\ runs'[r].start = runs[r].start
        /\ runs'[r].end = runs[r].end /\ runs'[r].claims = runs[r].claims \cup new
        /\ \A q \in Run \ {r} : runs'[q] = runs[q]
    <2>1. DOMAIN runs = Run
      BY RunTyped
    <2>2. runs'[r] = [runs[r] EXCEPT !.claims = @ \cup new] /\ \A q \in Run \ {r} : runs'[q] = runs[q]
      BY <1>1, <2>1
    <2>3. PICK old : old = runs[r]
      OBVIOUS
    <2>4. old = [mode |-> old.mode, start |-> old.start, end |-> old.end, claims |-> old.claims]
      BY <2>3, RunTyped
    <2> QED
      BY <2>2, <2>3, <2>4
  <1>3. Ids' = Ids /\ Active(r) /\ runs[r].mode = "reported"
    BY DEF Claim, recorded, Ids
  <1>4. \A q \in Run, id \in Ids : Within(q, id)' <=> Within(q, id)
    BY <1>2 DEF Within
  <1>5. \A q \in Run : Active(q)' <=> Active(q)
    BY <1>2 DEF Active
  <1>6. Claiming(r)'
    <2>1. Claiming(r)
      BY DEF RunsInv
    <2>2. ASSUME NEW id \in Ids, id \in runs'[r].claims PROVE Within(r, id)
      BY <1>1, <1>2, <1>3, <2>1, <2>2 DEF Claiming, Within, Active, EventsBetween
    <2> QED
      BY <1>2, <1>3, <1>4, <2>2 DEF Claiming
  <1>7. ASSUME NEW q \in Run \ {r} PROVE Apart(r, q)' /\ Apart(q, r)'
    <2>1. Apart(q, r) /\ runs'[q].mode = runs[q].mode
      BY <1>2 DEF RunsInv
    <2> QED
      BY <1>2, <1>3, <1>4, <1>5, <2>1 DEF Apart
  <1> QED
    BY <1>2, <1>3, <1>6, <1>7, OthersStay

LEMMA EndKeepsApart ==
    ASSUME HistoryInv, RunsInv, NEW r \in Run, EndRun(r)
    PROVE  RunsInv'
  <1>1. PICK claims : /\ claims = IF runs[r].mode = "window"
                                    THEN EventsBetween(runs[r].start, MaxEventId) ELSE runs[r].claims
                      /\ runs' = [runs EXCEPT ![r].end = MaxEventId, ![r].claims = claims]
    BY RunTyped DEF EndRun
  <1>2. /\ runs'[r].mode = runs[r].mode /\ runs'[r].start = runs[r].start
        /\ runs'[r].end = MaxEventId /\ runs'[r].claims = claims
        /\ \A q \in Run \ {r} : runs'[q] = runs[q]
    <2>1. DOMAIN runs = Run
      BY RunTyped
    <2>2. /\ runs'[r] = [runs[r] EXCEPT !.end = MaxEventId, !.claims = claims]
          /\ \A q \in Run \ {r} : runs'[q] = runs[q]
      BY <1>1, <2>1
    <2>3. PICK old : old = runs[r]
      OBVIOUS
    <2>4. old = [mode |-> old.mode, start |-> old.start, end |-> old.end, claims |-> old.claims]
      BY <2>3, RunTyped
    <2> QED
      BY <2>2, <2>3, <2>4
  <1>3. Ids' = Ids /\ Active(r) /\ runs[r].mode # "none" /\ runs[r].end = None
    BY DEF EndRun, recorded, Ids, Active
  <1>4. /\ MaxEventId \in Nat /\ MaxEventId # None
        /\ \A id \in Ids : id <= MaxEventId
    BY MaxEventIdIs, Typed, HistoryConstants
  <1>5. \A q \in Run, id \in Ids : Within(q, id)' <=> Within(q, id)
    BY <1>2, <1>3, <1>4 DEF Within
  <1>6. Claiming(r)'
    <2>1. Claiming(r)
      BY DEF RunsInv
    <2>2. ASSUME NEW id \in Ids, id \in claims PROVE Within(r, id)
      BY <1>1, <1>3, <2>1, <2>2 DEF Claiming, Within, EventsBetween
    <2>3. ASSUME runs[r].mode = "window", NEW id \in Ids, Within(r, id) PROVE id \in claims
      BY <1>1, <1>4, <2>3 DEF Within, EventsBetween
    <2> QED
      BY <1>2, <1>3, <1>5, <2>2, <2>3 DEF Claiming
  <1>7. ASSUME NEW q \in Run \ {r} PROVE Apart(r, q)' /\ Apart(q, r)'
    <2>1. Apart(q, r) /\ Apart(r, q) /\ runs'[q].mode = runs[q].mode
      BY <1>2 DEF RunsInv
    <2>2. ~Active(r)'
      BY <1>2, <1>4 DEF Active
    <2> QED
      BY <1>2, <1>3, <1>5, <2>1, <2>2 DEF Apart
  <1> QED
    BY <1>2, <1>3, <1>6, <1>7, OthersStay

LEMMA RunsInvInit == Init => RunsInv
  <1> SUFFICES ASSUME Init PROVE RunsInv
    OBVIOUS
  <1>1. \A r \in Run : runs[r] = Idle
    BY DEF Init
  <1>2. ASSUME NEW r \in Run PROVE Claiming(r) /\ runs[r].mode = "none"
    BY <1>1 DEF Claiming, Idle
  <1> QED
    BY <1>2 DEF RunsInv, Apart

LEMMA CommitAdds ==
    ASSUME HistoryInv, NEW events, NEW then, Commit(events, then)
    PROVE  \A id \in Ids' : id \in Ids \/ (id \in Nat /\ last < id)
  <1>1. Ids' = Ids \cup (last + 1)..last'
    BY DEF Commit, Ids
  <1>2. \A id \in (last + 1)..last' : id \in Int /\ last + 1 <= id
    OBVIOUS
  <1>3. last \in Nat
    BY Typed
  <1> QED
    BY <1>1, <1>2, <1>3

LEMMA RunsInvNext == HistoryInv /\ RunsInv /\ [Next]_vars => RunsInv'
<1> SUFFICES ASSUME HistoryInv, RunsInv, [Next]_vars PROVE RunsInv'
  OBVIOUS
<1>1. ASSUME NEW p \in Path, NEW c, Write(p, c) \/ Erase(p) PROVE RunsInv'
  <2>1. runs' = runs /\ \E events, then : Commit(events, then)
    BY <1>1 DEF Write, Erase
  <2> QED
    BY <2>1, CommitAdds, RunsStay
<1>2. ASSUME NEW p \in Path, NEW q \in Path, Move(p, q) PROVE RunsInv'
  <2>1. runs' = runs /\ \E events, then : Commit(events, then)
    BY <1>2 DEF Move
  <2> QED
    BY <2>1, CommitAdds, RunsStay
<1>3. ASSUME Scan PROVE RunsInv'
  <2>1. runs' = runs /\ \E events, then : Commit(events, then)
    BY <1>3 DEF Scan
  <2> QED
    BY <2>1, CommitAdds, RunsStay
<1>4. ASSUME runs' = runs, log' = log PROVE RunsInv'
  <2>1. Ids' = Ids
    BY <1>4 DEF Ids
  <2> QED
    BY <1>4, <2>1, RunsStay
<1>5. ASSUME NEW t, DeleteEventsBefore(t) PROVE RunsInv'
  <2>1. runs' = runs /\ Ids' \subseteq Ids
    BY <1>5 DEF DeleteEventsBefore, EventsSince, Ids
  <2> QED
    BY <2>1, RunsStay
<1>6. CASE UNCHANGED vars
  BY <1>4, <1>6 DEF vars, recorded
<1>7. ASSUME \/ Stop \/ Tick \/ StepBack \/ \E p \in Path, c \in Value \cup {None} : Unseen(p, c)
      PROVE  RunsInv'
  BY <1>4, <1>7 DEF Stop, Tick, StepBack, Unseen, recorded
<1> QED
  BY <1>1, <1>2, <1>3, <1>5, <1>6, <1>7, StartKeepsApart, ClaimKeepsApart, EndKeepsApart DEF Next

\* Of two Runs of which one is a window, no event is within both.
THEOREM RunsApart == Spec => []RunsInv
<1>1. Init => RunsInv
  BY RunsInvInit
<1>2. HistoryInv /\ RunsInv /\ [Next]_vars => RunsInv'
  BY RunsInvNext
<1> QED
  BY <1>1, <1>2, Invariance, PTL DEF Spec

-------------------------------------------------------------------------------
(* The timeline as a whole.                                                *)

\* The groups divide the events.
LEMMA OneGroup ==
    ASSUME HistoryInv, NEW S \in SUBSET Ids, NEW gap, NEW id \in S
    PROVE  \E group \in SplitByGap(S, gap) :
              id \in group /\ \A other \in SplitByGap(S, gap) : id \in other => other = group
  <1> DEFINE After(start) == {x \in S : /\ ~Before(x, start)
                                         /\ \A other \in S : Opens(other, S, gap) =>
                                              ~(Before(start, other) /\ ~Before(x, other))}
  <1>1. \A x \in S : x \in Ids
    OBVIOUS
  <1>2. PICK T \in SUBSET S : T = {x \in S : Opens(x, S, gap) /\ ~Before(id, x)}
    OBVIOUS
  <1>3. T # {}
    <2>1. First(S) \in S /\ \A x \in S \ {First(S)} : Before(First(S), x)
      BY FirstIs
    <2>2. \A x \in S : ~Before(x, First(S))
      BY <1>1, <2>1, BeforeIsOrder
    <2>3. First(S) \in T
      BY <1>2, <2>1, <2>2 DEF Opens
    <2> QED
      BY <2>3
  <1>4. PICK start \in T : \A x \in T : x = start \/ Before(x, start)
    <2>1. T \in SUBSET Ids
      BY <1>1
    <2>2. PICK n \in Nat : n = Cardinality(T)
      BY <2>1, InOrderIs
    <2>a. PICK f : f = InOrder(T)
      OBVIOUS
    <2>3. /\ f \in [1..n -> T] /\ \A x \in T : \E i \in 1..n : f[i] = x
          /\ \A i, j \in 1..n : i < j => Before(f[i], f[j])
      BY <2>1, <2>2, <2>a, InOrderIs
    <2>4. n \in 1..n
      BY <1>3, <2>3
    <2>5. ASSUME NEW x \in T PROVE x = f[n] \/ Before(x, f[n])
      <3>1. PICK i \in 1..n : f[i] = x
        BY <2>3
      <3>2. i = n \/ i < n
        OBVIOUS
      <3> QED
        BY <2>3, <2>4, <3>1, <3>2
    <2> QED
      BY <2>3, <2>4, <2>5
  <1>5. start \in S /\ Opens(start, S, gap) /\ ~Before(id, start)
    BY <1>2
  <1>6. PICK group : group = After(start)
    OBVIOUS
  <1>7. group \in SplitByGap(S, gap)
    BY <1>5, <1>6 DEF SplitByGap
  <1>8. id \in group
    <2>1. ASSUME NEW other \in S, Opens(other, S, gap), Before(start, other), ~Before(id, other)
          PROVE  FALSE
      <3>1. other \in T
        BY <1>2, <2>1
      <3>2. other = start \/ Before(other, start)
        BY <1>4, <3>1
      <3> QED
        BY <1>1, <1>5, <2>1, <3>2, BeforeIsOrder
    <2> QED
      BY <1>5, <1>6, <2>1
  <1>9. ASSUME NEW other \in SplitByGap(S, gap), id \in other PROVE other = group
    <2>1. PICK begin \in S : Opens(begin, S, gap) /\ other = After(begin)
      BY DEF SplitByGap
    <2>2. ~Before(id, begin) /\ ~Before(begin, start)
      BY <1>5, <1>9, <2>1
    <2>3. ~Before(start, begin)
      BY <1>6, <1>8, <2>1, <2>2
    <2>4. begin = start
      BY <1>1, <1>5, <2>2, <2>3, BeforeIsOrder
    <2> QED
      BY <1>6, <2>1, <2>4
  <1> QED
    BY <1>7, <1>8, <1>9

Holds(item, id) == id \in {item.events[i] : i \in DOMAIN item.events}

\* An item shows the events it was made from.
LEMMA RunItemHolds ==
    ASSUME HistoryInv, NEW r \in Run, NEW id
    PROVE  Holds(RunItem(r), id) <=> id \in MineAlone(r, RunEvents(r))
  <1>1. PICK S \in SUBSET Ids : S = MineAlone(r, RunEvents(r))
    BY DEF MineAlone, RunEvents, EventsBetween
  <1>2. PICK n \in Nat : n = Cardinality(S)
    BY ByIdIs
  <1>a. PICK f : f = ById(S)
    OBVIOUS
  <1>3. f \in [1..n -> S] /\ \A x \in S : \E i \in 1..n : f[i] = x
    BY <1>2, <1>a, ByIdIs
  <1>4. RunItem(r).events = f
    BY <1>1, <1>a DEF RunItem, Item
  <1> QED
    BY <1>1, <1>3, <1>4 DEF Holds

LEMMA GroupItemHolds ==
    ASSUME HistoryInv, NEW kind, NEW group \in SUBSET Ids, NEW low, NEW id
    PROVE  Holds(GroupItem(kind, group, low), id) <=> id \in group
  <1>1. PICK n \in Nat : n = Cardinality(group)
    BY InOrderIs
  <1>a. PICK f : f = InOrder(group)
    OBVIOUS
  <1>2. f \in [1..n -> group] /\ \A x \in group : \E i \in 1..n : f[i] = x
    BY <1>1, <1>a, InOrderIs
  <1>3. GroupItem(kind, group, low).events = f
    BY <1>a DEF GroupItem, Item
  <1> QED
    BY <1>2, <1>3 DEF Holds

\* The events of a Run are within it.
LEMMA RunEventsAre ==
    ASSUME HistoryInv, RunsInv, NEW r \in Run, NEW id \in Ids
    PROVE  /\ id \in RunEvents(r) => Within(r, id) \/ runs[r].mode = "none"
           /\ runs[r].mode = "window" => (id \in RunEvents(r) <=> Within(r, id))
           /\ runs[r].mode = "reported" => (id \in RunEvents(r) <=> id \in runs[r].claims)
           /\ id \in runs[r].claims => Within(r, id)
  <1>1. Claiming(r)
    BY DEF RunsInv
  <1>2. id <= MaxEventId
    BY MaxEventIdIs
  <1>3. id \in runs[r].claims => Within(r, id)
    BY <1>1 DEF Claiming
  <1>4. runs[r].mode = "reported" => (id \in RunEvents(r) <=> id \in runs[r].claims)
    BY DEF RunEvents
  <1>5. runs[r].mode = "window" => (id \in RunEvents(r) <=> Within(r, id))
    BY <1>2 DEF RunEvents, Within, Active, EventsBetween
  <1> QED
    BY <1>3, <1>4, <1>5, RunTyped

\* How many Runs claim an event.
LEMMA ClaimsAre ==
    ASSUME HistoryInv, NEW id
    PROVE  /\ ClaimsOf(id) \in Nat
           /\ ClaimsOf(id) = 0 <=> \A r \in Run : id \notin runs[r].claims
           /\ ClaimsOf(id) = 1 <=> \E r \in Run : id \in runs[r].claims /\
                                     \A q \in Run \ {r} : id \notin runs[q].claims
  <1>1. PICK C \in SUBSET Run : C = Claimants(id)
    BY DEF Claimants
  <1>2. IsFiniteSet(C)
    BY HistoryConstants, FS_Subset
  <1>3. /\ Cardinality(C) \in Nat
        /\ Cardinality(C) = 0 <=> C = {}
        /\ Cardinality(C) = 1 <=> \E r : C = {r}
    BY <1>2, FS_CardinalityType, FS_EmptySet, FS_Singleton
  <1>4. \A r \in Run : r \in C <=> id \in runs[r].claims
    BY <1>1 DEF Claimants
  <1>5. (\E r : C = {r}) <=> \E r \in Run : r \in C /\ \A q \in Run \ {r} : q \notin C
    OBVIOUS
  <1>6. ClaimsOf(id) = Cardinality(C)
    BY <1>1 DEF ClaimsOf
  <1>7. C = {} <=> \A r \in Run : r \notin C
    OBVIOUS
  <1>8. ClaimsOf(id) = 0 <=> \A r \in Run : id \notin runs[r].claims
    BY <1>3, <1>4, <1>6, <1>7
  <1>9. ClaimsOf(id) = 1 <=> \E r \in Run : r \in C /\ \A q \in Run \ {r} : q \notin C
    BY <1>3, <1>5, <1>6
  <1>10. (\E r \in Run : r \in C /\ \A q \in Run \ {r} : q \notin C)
            <=> \E r \in Run : id \in runs[r].claims /\ \A q \in Run \ {r} : id \notin runs[q].claims
    BY <1>4
  <1>11. ClaimsOf(id) = 1 <=> \E r \in Run : id \in runs[r].claims /\
                                \A q \in Run \ {r} : id \notin runs[q].claims
    BY <1>9, <1>10
  <1>12. ClaimsOf(id) \in Nat
    BY <1>3, <1>6
  <1> QED
    BY <1>8, <1>11, <1>12

\* The Run that shows an event, or none.
Showing(id) == {r \in Run : runs[r].mode # "none" /\ id \in MineAlone(r, RunEvents(r))}

LEMMA ShownByOne ==
    ASSUME HistoryInv, RunsInv, NEW id \in Ids
    PROVE  /\ \A r, q \in Showing(id) : r = q
           /\ ClaimsOf(id) >= 2 => Showing(id) = {}
           /\ ClaimsOf(id) = 1 => Showing(id) # {}
  <1>1. ASSUME NEW r \in Run, NEW q \in Run, r # q, Within(r, id), Within(q, id)
        PROVE  runs[r].mode = "reported" /\ runs[q].mode = "reported"
    <2>1. Apart(r, q) /\ Apart(q, r)
      BY <1>1 DEF RunsInv
    <2>2. runs[r].mode # "window" /\ runs[q].mode # "window"
      BY <1>1, <2>1 DEF Apart
    <2> QED
      BY <1>1, <2>2, RunTyped DEF Within
  <1>2. ASSUME NEW r \in Showing(id)
        PROVE  /\ r \in Run /\ Within(r, id)
               /\ runs[r].mode = "reported" => id \in runs[r].claims /\ ClaimsOf(id) = 1
    <2>1. /\ r \in Run /\ runs[r].mode # "none" /\ id \in RunEvents(r)
          /\ runs[r].mode = "reported" => ClaimsOf(id) = 1
      BY DEF Showing, MineAlone, RunEvents, EventsBetween
    <2> QED
      BY <2>1, RunEventsAre
  <1>3. ASSUME NEW r \in Showing(id), NEW q \in Showing(id), r # q PROVE FALSE
    <2>1. runs[r].mode = "reported" /\ runs[q].mode = "reported"
      BY <1>1, <1>2, <1>3
    <2>2. id \in runs[r].claims /\ id \in runs[q].claims /\ ClaimsOf(id) = 1 /\ r \in Run /\ q \in Run
      BY <1>2, <2>1
    <2>3. PICK x \in Run : \A y \in Run \ {x} : id \notin runs[y].claims
      BY <2>2, ClaimsAre
    <2>4. r = x /\ q = x
      BY <2>2, <2>3
    <2> QED
      BY <1>3, <2>4
  <1>4. ASSUME ClaimsOf(id) >= 2, NEW r \in Showing(id) PROVE FALSE
    <2>1. ClaimsOf(id) # 0 /\ ClaimsOf(id) # 1
      BY <1>4, ClaimsAre
    <2>2. runs[r].mode # "reported" /\ r \in Run /\ Within(r, id)
      BY <1>2, <2>1
    <2>3. PICK x \in Run : id \in runs[x].claims
      BY <2>1, ClaimsAre
    <2>4. PICK y \in Run \ {x} : id \in runs[y].claims
      BY <2>1, <2>3, ClaimsAre
    <2>5. Within(x, id) /\ Within(y, id)
      BY <2>3, <2>4, RunEventsAre
    <2>6. x = r /\ y = r
      BY <1>1, <2>2, <2>5
    <2> QED
      BY <2>6
  <1>5. ASSUME ClaimsOf(id) = 1 PROVE Showing(id) # {}
    <2>1. PICK r \in Run : id \in runs[r].claims
      BY <1>5, ClaimsAre
    <2>2. Within(r, id)
      BY <2>1, RunEventsAre
    <2>3. id \in RunEvents(r)
      BY <2>1, <2>2, RunEventsAre, RunTyped DEF Within
    <2>4. r \in Showing(id)
      BY <1>5, <2>2, <2>3 DEF Showing, MineAlone, Within
    <2> QED
      BY <2>4
  <1> QED
    BY <1>3, <1>4, <1>5

LEMMA OneItem ==
    ASSUME NEW S, NEW x, \A y \in S : y = x, x \in S
    PROVE  Cardinality(S) = 1
  <1>1. S = {x}
    OBVIOUS
  <1> QED
    BY <1>1, FS_Singleton

LEMMA TimelineHolds == HistoryInv /\ RunsInv => TimelineComplete
<1> SUFFICES ASSUME HistoryInv, RunsInv, NEW since, NEW limit,
                    NEW id \in Window(since, limit)
             PROVE  Cardinality({item \in Items(since, limit) :
                                   id \in {item.events[i] : i \in DOMAIN item.events}}) = 1
  BY DEF TimelineComplete
<1>1. PICK W \in SUBSET Ids : W = Window(since, limit)
  BY WindowIs
<1>2. PICK low \in Nat : low = Lowest(W) /\ \A x \in W : low <= x
  <2>1. W # {}
    BY <1>1
  <2> QED
    BY <2>1, LowestIs, Typed
<1>3. id \in W /\ id \in Ids
  BY <1>1
<1>4. PICK shown : shown = ListedRuns(low)
  OBVIOUS
<1>5. PICK both \in SUBSET Ids : both = {x \in W : ClaimsOf(x) >= 2}
  OBVIOUS
<1>6. PICK free \in SUBSET Ids : free = Unclaimed(W, shown)
  BY DEF Unclaimed
<1>7. \A item : item \in Items(since, limit) <=>
         \/ \E r \in shown : item = RunItem(r)
         \/ \E group \in SplitByGap(both, EditGap) : item = GroupItem("collision", group, low)
         \/ \E group \in SplitByGap(free, EditGap) : item = GroupItem("edits", group, low)
  BY <1>1, <1>2, <1>4, <1>5, <1>6 DEF Items, CollisionItems, EditItems
<1>8. PICK mine : mine = {item \in Items(since, limit) : Holds(item, id)}
  OBVIOUS
<1>9. SUFFICES \E x \in mine : \A y \in mine : y = x
  <2>1. mine = {item \in Items(since, limit) :
                   id \in {item.events[i] : i \in DOMAIN item.events}}
    BY <1>8 DEF Holds
  <2> QED
    BY <1>9, <2>1, OneItem
<1>10. \A r \in Run : r \in shown /\ Holds(RunItem(r), id) <=> r \in Showing(id)
  <2> SUFFICES ASSUME NEW r \in Run PROVE r \in shown /\ Holds(RunItem(r), id) <=> r \in Showing(id)
    OBVIOUS
  <2>1. Holds(RunItem(r), id) <=> id \in MineAlone(r, RunEvents(r))
    BY RunItemHolds
  <2>2. r \in shown /\ Holds(RunItem(r), id) => r \in Showing(id)
    BY <1>4, <2>1 DEF ListedRuns, Showing
  <2>3. ASSUME r \in Showing(id) PROVE r \in shown
    <3>1. /\ runs[r].mode # "none" /\ id \in RunEvents(r)
          /\ MineAlone(r, RunEvents(r)) # {}
      BY <2>3 DEF Showing, MineAlone, RunEvents, EventsBetween
    <3>2. Within(r, id)
      BY <1>3, <3>1, RunEventsAre
    <3>3. Completed(r) => runs[r].end >= low
      <4>1. ASSUME Completed(r) PROVE runs[r].end >= low
        <5>0. runs[r].end \in 0..last /\ last \in Nat
          BY <4>1, RunTyped DEF Completed
        <5>1. PICK e \in Nat : e = runs[r].end
          BY <5>0
        <5>2. id <= e /\ low <= id /\ id \in Nat
          BY <1>2, <1>3, <3>2, <4>1, <5>1, Typed DEF Within, Completed
        <5>3. e >= low
          BY <1>2, <5>2
        <5> QED
          BY <5>1, <5>3
      <4> QED
        BY <4>1
    <3> QED
      BY <1>4, <3>1, <3>3 DEF ListedRuns
  <2>4. r \in Showing(id) => Holds(RunItem(r), id)
    BY <2>1 DEF Showing
  <2> QED
    BY <2>2, <2>3, <2>4
<1>11. \A r \in shown : r \in Run
  BY <1>4 DEF ListedRuns
<1>12. \A group \in SplitByGap(both, EditGap) : \A kind :
          Holds(GroupItem(kind, group, low), id) <=> id \in group
  BY GroupIs, GroupItemHolds
<1>13. \A group \in SplitByGap(free, EditGap) : \A kind :
          Holds(GroupItem(kind, group, low), id) <=> id \in group
  BY GroupIs, GroupItemHolds
<1>14. /\ \A group \in SplitByGap(both, EditGap) : id \in group => id \in both
       /\ \A group \in SplitByGap(free, EditGap) : id \in group => id \in free
  BY GroupIs
<1>15. \A item : item \in mine <=>
         \/ \E r \in Showing(id) : item = RunItem(r)
         \/ \E group \in SplitByGap(both, EditGap) : id \in group /\ item = GroupItem("collision", group, low)
         \/ \E group \in SplitByGap(free, EditGap) : id \in group /\ item = GroupItem("edits", group, low)
  <2>1. \A r \in Showing(id) : r \in Run
    BY DEF Showing
  <2> QED
    BY <1>7, <1>8, <1>10, <1>11, <1>12, <1>13, <2>1
<1>16. id \in free <=> ClaimsOf(id) = 0 /\ Showing(id) = {}
  <2>1. id \in free <=> ClaimsOf(id) = 0 /\ ~ \E r \in shown : id \in MineAlone(r, RunEvents(r))
    BY <1>3, <1>6 DEF Unclaimed, ClaimedIn
  <2>2. \A r \in Run : r \in shown /\ id \in MineAlone(r, RunEvents(r)) <=> r \in Showing(id)
    BY <1>10, RunItemHolds
  <2>3. \A r \in Showing(id) : r \in Run
    BY DEF Showing
  <2> QED
    BY <1>11, <2>1, <2>2, <2>3
<1>17. id \in both <=> ClaimsOf(id) >= 2
  BY <1>3, <1>5
<1>18. CASE ClaimsOf(id) >= 2
  <2>1. Showing(id) = {} /\ id \in both /\ id \notin free
    BY <1>3, <1>16, <1>17, <1>18, ShownByOne, ClaimsAre
  <2>2. PICK group \in SplitByGap(both, EditGap) :
           id \in group /\ \A other \in SplitByGap(both, EditGap) : id \in other => other = group
    BY <2>1, OneGroup
  <2>3. GroupItem("collision", group, low) \in mine
    BY <1>15, <2>2
  <2>4. \A y \in mine : y = GroupItem("collision", group, low)
    BY <1>14, <1>15, <2>1, <2>2
  <2> QED
    BY <2>3, <2>4
<1>19. CASE ~(ClaimsOf(id) >= 2) /\ Showing(id) # {}
  <2>1. id \notin both /\ id \notin free
    BY <1>16, <1>17, <1>19
  <2>2. PICK r \in Showing(id) : \A q \in Showing(id) : q = r
    BY <1>3, <1>19, ShownByOne
  <2>3. RunItem(r) \in mine
    BY <1>15, <2>2
  <2>4. \A y \in mine : y = RunItem(r)
    BY <1>14, <1>15, <2>1, <2>2
  <2> QED
    BY <2>3, <2>4
<1>20. CASE ~(ClaimsOf(id) >= 2) /\ Showing(id) = {}
  <2>1. ClaimsOf(id) = 0
    <3>1. ClaimsOf(id) # 1
      BY <1>3, <1>20, ShownByOne
    <3>2. PICK n \in Nat : n = ClaimsOf(id)
      BY ClaimsAre
    <3>3. n # 1 /\ ~(n >= 2)
      BY <1>20, <3>1, <3>2
    <3> QED
      BY <3>2, <3>3
  <2>2. id \notin both /\ id \in free
    BY <1>16, <1>17, <1>20, <2>1
  <2>3. PICK group \in SplitByGap(free, EditGap) :
           id \in group /\ \A other \in SplitByGap(free, EditGap) : id \in other => other = group
    BY <2>2, OneGroup
  <2>4. GroupItem("edits", group, low) \in mine
    BY <1>15, <2>3
  <2>5. \A y \in mine : y = GroupItem("edits", group, low)
    BY <1>14, <1>15, <1>20, <2>2, <2>3
  <2> QED
    BY <2>4, <2>5
<1> QED
  BY <1>18, <1>19, <1>20

\* Every event in the window is in exactly one item of the timeline, whatever
\* was claimed by whom and however far the window reaches.
THEOREM TimelineIsComplete == Spec => []TimelineComplete
  BY Invariance, RunsApart, TimelineHolds, PTL

===============================================================================

-------------------------- MODULE AgentEvents_proofs --------------------------
(***************************************************************************)
(* Who is said to have made which changes, for any number of Runs, paths   *)
(* and events: type correctness, that claims are announced, that window    *)
(* Runs are alone with their events, that a path has one exclusive owner   *)
(* at most, and that a Run that has ended is final.                        *)
(*                                                                         *)
(* Prune makes fences smaller than earlier ones: a Run may start at a      *)
(* fence below the end of one that is over.  What keeps them apart is that *)
(* the ids in between are gone and are never given out again, so the       *)
(* invariant compares spans by the events that are left in them.           *)
(*                                                                         *)
(* Every step of every caller is one transaction of Runs or leaves its     *)
(* tables alone, so what is shown of Runs first holds, in the second part, *)
(* for any number of agents, hooks and people, whatever their scripts are  *)
(* and whichever of their calls die or are repeated.  Beyond that, one key *)
(* has one answer, what clients did between calls that succeeded belongs   *)
(* to their Runs, and an integration that nobody gets in the way of is     *)
(* never refused.                                                          *)
(***************************************************************************)
EXTENDS AgentEvents, FiniteSetTheorems, SequenceTheorems, WellFoundedInduction, TLAPS

-------------------------------------------------------------------------------
(* Runs                                                                    *)

\* No fence lies beyond the last id given out.
FencesPast ==
    /\ \A r \in RunId : runs[r].start <= lastEvent /\ runs[r].end <= lastEvent
    /\ \A r \in RunId, c \in Change : /\ boundaries[r][c].start <= lastEvent
                                      /\ boundaries[r][c].end <= lastEvent

\* Nothing belongs to a Run that has not started; only reported Runs have
\* boundaries.
NotStarted ==
    \A r \in RunId :
        /\ runs[r].status = "absent" =>
              runs[r] = Absent /\ {i \in intents : i.run = r} = {}
        /\ \A c \in Change : boundaries[r][c].status # "none" =>
              runs[r].status # "absent" /\ runs[r].mode = "reported"

\* A Run that has ended has nothing open.
EndedClosed ==
    \A r \in RunId : runs[r].status = "ended" =>
        /\ \A c \in Change : boundaries[r][c].status # "open"
        /\ ActiveIntents(r) = {}

\* An active window Run is the only active one.
ActiveAlone ==
    \A r, q \in ActiveRuns : r # q => runs[r].mode = "reported"

\* The events recorded while a Run was active.
InSpan(r, e) ==
    /\ runs[r].start < e
    /\ runs[r].status = "active" \/ e <= runs[r].end

\* Of the events that are left, those after a boundary's start are after the
\* start of its Run.
BoundariesInside ==
    \A r \in RunId, c \in Change : boundaries[r][c].status # "none" =>
        \A e \in DOMAIN events : boundaries[r][c].start < e => runs[r].start < e

ClaimsInSpan ==
    \A r \in RunId : \A e \in claims[r] : Started(r) /\ InSpan(r, e)

\* No event that is left lies in the spans of a window Run and another one.
SpansApart ==
    \A r, q \in RunId :
        r # q /\ Started(r) /\ Started(q) /\ runs[r].mode = "window" =>
            \A e \in DOMAIN events : ~(InSpan(r, e) /\ InSpan(q, e))

TypeInv == RunsTypeOK /\ checkpoints \in [RunId -> {checkpoints[r] : r \in RunId}]

IInv ==
    /\ TypeInv /\ FencesPast /\ NotStarted /\ EndedClosed /\ ActiveAlone
    /\ BoundariesInside /\ ClaimsInSpan /\ SpansApart /\ ClaimsAnnounced

-------------------------------------------------------------------------------
(* What the helpers return                                                 *)

\* A nonempty set of natural numbers has a least element.
LEMMA LeastNatural ==
    ASSUME NEW S \in SUBSET Nat, S # {}
    PROVE  \E x \in S : \A y \in S : x <= y
  <1> DEFINE Less == {ss \in Nat \X Nat : ss[1] < ss[2]}
  <1>1. IsWellFoundedOn(Less, Nat)
    BY NatLessThanWellFounded DEF OpToRel
  <1> HIDE DEF Less
  <1>2. PICK x \in S : \A y \in S : <<y, x>> \notin Less
    BY <1>1, WFMin
  <1>3. ASSUME NEW y \in S PROVE x <= y
    <2>1. x \in Nat /\ y \in Nat
      OBVIOUS
    <2>2. y < x => <<y, x>> \in Less
      BY <2>1 DEF Less
    <2>3. ~(y < x)
      BY <1>2, <2>2
    <2> QED
      BY <2>1, <2>3
  <1> QED
    BY <1>3

\* A set of ids has a greatest one.
LEMMA Max0Greatest ==
    ASSUME NEW n \in Nat, NEW S \in SUBSET (1 .. n)
    PROVE  /\ Max0(S) \in 0 .. n
           /\ \A m \in S : m <= Max0(S)
  <1> DEFINE Bounds == {k \in Nat : \A m \in S : m <= k}
  <1>1. n \in Bounds
    OBVIOUS
  <1>2. PICK least \in Bounds : \A k \in Bounds : least <= k
    <2> HIDE DEF Bounds
    <2>1. Bounds \in SUBSET Nat
      BY DEF Bounds
    <2> QED
      BY <1>1, <2>1, LeastNatural
  <1>3. least \in S \cup {0}
    <2> SUFFICES ASSUME least # 0, least \notin S PROVE FALSE
      OBVIOUS
    <2>1. least - 1 \in Nat /\ \A m \in S : m <= least - 1
      OBVIOUS
    <2>2. least - 1 \in Bounds
      BY <2>1
    <2> QED
      BY <1>2, <2>2
  <1>4. \E k \in S \cup {0} : \A m \in S : m <= k
    BY <1>2, <1>3
  <1>5. Max0(S) \in S \cup {0} /\ \A m \in S : m <= Max0(S)
    <2> HIDE DEF Bounds
    <2> QED
      BY <1>4 DEF Max0
  <1>6. S \cup {0} \subseteq 0 .. n
    OBVIOUS
  <1> HIDE DEF Bounds
  <1> QED
    BY <1>5, <1>6

\* MAX(id) bounds every event that is left, and is no later than the last id.
LEMMA MaxEventIdGreatest ==
    ASSUME RunsTypeOK
    PROVE  /\ MaxEventId \in Nat
           /\ MaxEventId <= lastEvent
           /\ \A e \in DOMAIN events : e <= MaxEventId
  <1>1. lastEvent \in Nat /\ DOMAIN events \in SUBSET (1 .. lastEvent)
    BY DEF RunsTypeOK
  <1>2. /\ Max0(DOMAIN events) \in 0 .. lastEvent
        /\ \A e \in DOMAIN events : e <= Max0(DOMAIN events)
    BY <1>1, Max0Greatest
  <1> QED
    BY <1>1, <1>2 DEF MaxEventId

\* Completing intents makes intents.
LEMMA CompletedIntentsTyped ==
    ASSUME RunsTypeOK, NEW S \in SUBSET intents
    PROVE  CompletedIntents(S) \subseteq Intent
  <1>1. MaxEventId \in Nat
    BY MaxEventIdGreatest
  <1> QED
    BY <1>1 DEF CompletedIntents, RunsTypeOK, Intent

-------------------------------------------------------------------------------
(* The invariant holds initially and is preserved by every step            *)

LEMMA InitEstablishes == RunsInit => IInv
  <1> SUFFICES ASSUME RunsInit PROVE IInv
    OBVIOUS
  <1> USE DEF RunsInit
  <1>1. RunsTypeOK
    BY ExternalAssumption DEF RunsTypeOK, Absent, NoBoundary, Run, Boundary, Intent
  <1>2. TypeInv
    BY <1>1 DEF TypeInv
  <1>3. FencesPast /\ NotStarted /\ EndedClosed /\ ActiveAlone
    BY DEF FencesPast, NotStarted, EndedClosed, ActiveAlone, ActiveRuns, ActiveIntents,
           Absent, NoBoundary
  <1>4. BoundariesInside /\ ClaimsInSpan /\ SpansApart /\ ClaimsAnnounced
    BY DEF BoundariesInside, ClaimsInSpan, SpansApart, ClaimsAnnounced
  <1> QED
    BY <1>2, <1>3, <1>4 DEF IInv

\* A change is recorded: its id is beyond every fence, so it lies in the spans
\* of the active Runs only.
LEMMA InsertEventPreserves ==
    ASSUME IInv, NEW paths \in SUBSET Path, InsertEvent(paths)
    PROVE  IInv'
  <1> USE DEF IInv, TypeInv, InsertEvent
  <1>0. /\ DOMAIN events' = DOMAIN events \cup {lastEvent + 1}
        /\ \A e \in DOMAIN events : events'[e] = events[e] /\ e <= lastEvent
        /\ lastEvent + 1 \notin DOMAIN events
    BY DEF RunsTypeOK
  <1>1. RunsTypeOK'
    BY <1>0 DEF RunsTypeOK
  <1>2. TypeInv'
    BY <1>1
  <1>3. FencesPast'
    BY DEF FencesPast, RunsTypeOK, Run, Boundary
  <1>4. NotStarted' /\ EndedClosed' /\ ActiveAlone'
    BY DEF NotStarted, EndedClosed, ActiveAlone, ActiveRuns, ActiveIntents
  <1>5. BoundariesInside'
    BY <1>0 DEF BoundariesInside, FencesPast, RunsTypeOK, Run, Boundary
  <1>6. ClaimsInSpan'
    BY DEF ClaimsInSpan, InSpan, Started
  <1>7. SpansApart'
    BY <1>0 DEF SpansApart, InSpan, Started, ActiveAlone, ActiveRuns, FencesPast,
                RunsTypeOK, Run
  <1>8. ClaimsAnnounced'
    BY <1>0 DEF ClaimsAnnounced, Between, RunsTypeOK
  <1> QED
    BY <1>2, <1>3, <1>4, <1>5, <1>6, <1>7, <1>8

\* Prune takes events with their claims; the fences stay.
LEMMA DropEventsPreserves ==
    ASSUME IInv, NEW old \in SUBSET DOMAIN events, DropEvents(old)
    PROVE  IInv'
  <1> USE DEF IInv, TypeInv, DropEvents
  <1>1. RunsTypeOK'
    BY DEF RunsTypeOK
  <1>2. TypeInv'
    BY <1>1
  <1>3. FencesPast' /\ NotStarted' /\ EndedClosed' /\ ActiveAlone'
    BY DEF FencesPast, NotStarted, EndedClosed, ActiveAlone, ActiveRuns, ActiveIntents
  <1>4. BoundariesInside'
    BY DEF BoundariesInside
  <1>5. ClaimsInSpan'
    BY DEF ClaimsInSpan, InSpan, Started, RunsTypeOK
  <1>6. SpansApart'
    BY DEF SpansApart, InSpan, Started
  <1>7. ClaimsAnnounced'
    BY DEF ClaimsAnnounced, Between, RunsTypeOK
  <1> QED
    BY <1>2, <1>3, <1>4, <1>5, <1>6, <1>7

\* A Run starts at the newest event: nothing that is left is in its span yet.
LEMMA StartRunPreserves ==
    ASSUME IInv, NEW r \in RunId, NEW x \in External \cup {NoExternal},
           NEW mode \in {"window", "reported"}, StartRun(r, x, mode)
    PROVE  IInv'
  <1> USE DEF IInv, TypeInv, StartRun
  <1>0. /\ MaxEventId \in Nat /\ MaxEventId <= lastEvent
        /\ \A e \in DOMAIN events : e <= MaxEventId /\ e \in Nat
    BY MaxEventIdGreatest DEF RunsTypeOK
  <1>1. /\ runs'[r] = [status |-> "active", mode |-> mode, external |-> x,
                       start |-> MaxEventId, end |-> 0]
        /\ \A q \in RunId : q # r => runs'[q] = runs[q]
    BY DEF RunsTypeOK
  <1>2. claims[r] = {} /\ \A c \in Change : boundaries[r][c].status = "none"
    BY DEF ClaimsInSpan, Started, NotStarted
  <1>3. \A e \in DOMAIN events : ~InSpan(r, e)'
    BY <1>0, <1>1 DEF InSpan
  <1>4. \A q \in RunId, e \in DOMAIN events : q # r => (InSpan(q, e)' <=> InSpan(q, e))
    BY <1>1 DEF InSpan
  <1>5. RunsTypeOK'
    BY <1>0, <1>1 DEF RunsTypeOK, Run
  <1>6. FencesPast'
    BY <1>0, <1>1 DEF FencesPast, RunsTypeOK
  <1>7. NotStarted'
    BY <1>1, <1>2 DEF NotStarted, Absent
  <1>8. EndedClosed'
    BY <1>1, <1>2 DEF EndedClosed, ActiveIntents
  <1>9. ActiveAlone'
    BY <1>1 DEF ActiveAlone, ActiveRuns, Conflicts, RunsTypeOK, Run
  <1>10. BoundariesInside'
    BY <1>1, <1>2 DEF BoundariesInside
  <1>11. ClaimsInSpan'
    BY <1>1, <1>2, <1>4 DEF ClaimsInSpan, Started, RunsTypeOK
  <1>12. SpansApart'
    BY <1>1, <1>3, <1>4 DEF SpansApart, Started
  <1>13. ClaimsAnnounced'
    BY <1>1, <1>2 DEF ClaimsAnnounced, Between
  <1> QED
    BY <1>5, <1>6, <1>7, <1>8, <1>9, <1>10, <1>11, <1>12, <1>13

\* The end fence is the newest event: the Run keeps the span it had.
LEMMA CompleteRunPreserves ==
    ASSUME IInv, NEW r \in RunId, CompleteRun(r)
    PROVE  IInv'
  <1> USE DEF IInv, TypeInv
  <1>a. events' = events /\ lastEvent' = lastEvent /\ checkpoints' = checkpoints
    BY DEF CompleteRun
  <1>0. /\ MaxEventId \in Nat /\ MaxEventId <= lastEvent
        /\ \A e \in DOMAIN events : e <= MaxEventId /\ e \in Nat
    BY MaxEventIdGreatest DEF RunsTypeOK
  <1>1. /\ runs'[r].status = "ended" /\ runs'[r].end = MaxEventId
        /\ runs'[r].start = runs[r].start /\ runs'[r].mode = runs[r].mode
        /\ runs'[r] \in Run
        /\ \A q \in RunId : q # r => runs'[q] = runs[q]
        /\ runs[r].status = "active"
    <2>1. runs[r] \in Run /\ DOMAIN runs = RunId
      BY DEF RunsTypeOK
    <2>2. runs'[r] = [runs[r] EXCEPT !.status = "ended", !.end = MaxEventId]
      BY <2>1 DEF CompleteRun
    <2>3. runs[r].status = "active" /\ \A q \in RunId : q # r => runs'[q] = runs[q]
      BY <2>1 DEF ActiveRuns, CompleteRun
    <2> HIDE DEF IInv
    <2>4. /\ [runs[r] EXCEPT !.status = "ended", !.end = MaxEventId] \in Run
          /\ runs'[r].status = "ended" /\ runs'[r].end = MaxEventId
          /\ runs'[r].start = runs[r].start /\ runs'[r].mode = runs[r].mode
      BY <1>0, <2>1, <2>2 DEF Run
    <2> QED
      BY <2>2, <2>3, <2>4
  <1>2. \A q \in RunId : /\ runs'[q].start = runs[q].start
                         /\ runs'[q].mode = runs[q].mode
                         /\ Started(q)' <=> Started(q)
    BY <1>1 DEF Started
  <1>3. \A q \in RunId, e \in DOMAIN events : InSpan(q, e)' <=> InSpan(q, e)
    BY <1>0, <1>1, <1>2 DEF InSpan
  <1>4. \A q \in RunId, c \in Change :
           /\ boundaries'[q][c] \in Boundary
           /\ boundaries'[q][c].start = boundaries[q][c].start
           /\ boundaries'[q][c].end = boundaries[q][c].end
           /\ boundaries'[q][c].paths = boundaries[q][c].paths
           /\ boundaries'[q][c].status =
                 IF q = r /\ boundaries[q][c].status = "open" THEN "aborted"
                 ELSE boundaries[q][c].status
    <2> TAKE q \in RunId, c \in Change
    <2>1. boundaries[q][c] \in Boundary
      BY DEF RunsTypeOK
    <2>2. CASE q = r /\ boundaries[q][c].status = "open"
      <3>1. boundaries'[q][c] = [boundaries[q][c] EXCEPT !.status = "aborted"]
        BY <2>2 DEF RunsTypeOK, CompleteRun
      <3> QED
        BY <2>1, <2>2, <3>1 DEF Boundary
    <2>3. CASE ~(q = r /\ boundaries[q][c].status = "open")
      <3>1. boundaries'[q][c] = boundaries[q][c]
        BY <2>3 DEF RunsTypeOK, CompleteRun
      <3> QED
        BY <2>1, <2>3, <3>1
    <2> QED
      BY <2>2, <2>3
  <1>5. \A i \in intents' : \E j \in intents :
           /\ i.run = j.run /\ i.label = j.label /\ i.start = j.start
           /\ i.active => j.active /\ j.run # r
    BY DEF CompletedIntents, ActiveIntents, RunsTypeOK, Intent, CompleteRun
  <1>6. \A q \in RunId : \/ claims'[q] = claims[q]
                         \/ /\ q = r /\ runs[r].mode = "window"
                            /\ claims'[q] = claims[r] \cup Between(runs[r].start, MaxEventId)
    BY DEF RunsTypeOK, Run, CompleteRun
  <1>7. RunsTypeOK'
    <2>1. intents' \subseteq Intent
      BY CompletedIntentsTyped DEF ActiveIntents, CompleteRun
    <2>2. claims' \in [RunId -> SUBSET (DOMAIN events)]
      BY DEF RunsTypeOK, Between, CompleteRun
    <2>3. runs' \in [RunId -> Run]
      BY <1>1 DEF RunsTypeOK, CompleteRun
    <2>4. boundaries' \in [RunId -> [Change -> Boundary]]
      <3>1. boundaries' = [q \in RunId |-> [d \in Change |-> boundaries'[q][d]]]
        BY DEF RunsTypeOK, CompleteRun
      <3> QED
        BY <1>4, <3>1
    <2> QED
      BY <1>a, <2>1, <2>2, <2>3, <2>4 DEF RunsTypeOK
  <1>8. FencesPast'
    BY <1>a, <1>0, <1>1, <1>4 DEF FencesPast
  <1>9. NotStarted'
    BY <1>1, <1>2, <1>4, <1>5 DEF NotStarted
  <1>10. EndedClosed'
    <2> SUFFICES ASSUME NEW q \in RunId, runs'[q].status = "ended"
                 PROVE  /\ \A c \in Change : boundaries'[q][c].status # "open"
                        /\ \A i \in intents' : ~(i.run = q /\ i.active)
      BY DEF EndedClosed, ActiveIntents
    <2>1. q # r => /\ \A c \in Change : boundaries[q][c].status # "open"
                   /\ \A i \in intents : ~(i.run = q /\ i.active)
      BY <1>1 DEF EndedClosed, ActiveIntents
    <2>2. \A c \in Change : boundaries'[q][c].status # "open"
      BY <1>4, <2>1
    <2>3. \A i \in intents' : ~(i.run = q /\ i.active)
      BY <1>5, <2>1
    <2> QED
      BY <2>2, <2>3
  <1>11. ActiveAlone'
    BY <1>1 DEF ActiveAlone, ActiveRuns
  <1>12. BoundariesInside'
    BY <1>a, <1>2, <1>4 DEF BoundariesInside
  <1>13. ClaimsInSpan'
    BY <1>a, <1>0, <1>1, <1>2, <1>3, <1>6 DEF ClaimsInSpan, InSpan, Between, Started, RunsTypeOK
  <1>14. SpansApart'
    BY <1>a, <1>2, <1>3 DEF SpansApart
  <1>15. ClaimsAnnounced'
    <2>1. \A q \in RunId : runs[q].mode = "reported" => claims'[q] = claims[q]
      BY <1>6
    <2>2. \A q \in RunId : runs[q].mode # "reported" => \A e \in claims'[q] :
             runs'[q].status = "ended" /\ e \in Between(runs'[q].start, runs'[q].end)
      BY <1>a, <1>1, <1>6 DEF ClaimsAnnounced, Between
    <2>3. \A q \in RunId, c \in Change :
             boundaries[q][c].status = "closed" => boundaries'[q][c].status = "closed"
      BY <1>4
    <2>4. ASSUME NEW q \in RunId, NEW e \in claims'[q], runs[q].mode = "reported"
          PROVE  \E c \in Change : /\ boundaries'[q][c].status = "closed"
                                   /\ boundaries'[q][c].start < e
                                   /\ e <= boundaries'[q][c].end
                                   /\ events[e] \cap boundaries'[q][c].paths # {}
      <3>1. e \in claims[q]
        BY <2>1, <2>4
      <3>2. PICK c \in Change : /\ boundaries[q][c].status = "closed"
                                /\ boundaries[q][c].start < e
                                /\ e <= boundaries[q][c].end
                                /\ events[e] \cap boundaries[q][c].paths # {}
        BY <2>4, <3>1 DEF ClaimsAnnounced
      <3> QED
        BY <1>4, <2>3, <3>2
    <2> QED
      BY <1>a, <1>2, <2>2, <2>4 DEF ClaimsAnnounced, Between
  <1> QED
    BY <1>a, <1>7, <1>8, <1>9, <1>10, <1>11, <1>12, <1>13, <1>14, <1>15

\* A boundary opens at the newest event: nothing that is left is after it.
LEMMA OpenBoundaryPreserves ==
    ASSUME IInv, NEW r \in RunId, NEW c \in Change, NEW paths \in SUBSET Path,
           OpenBoundary(r, c, paths)
    PROVE  IInv'
  <1> USE DEF IInv, TypeInv, OpenBoundary
  <1>0. /\ MaxEventId \in Nat /\ MaxEventId <= lastEvent
        /\ \A e \in DOMAIN events : e <= MaxEventId /\ e \in Nat
    BY MaxEventIdGreatest DEF RunsTypeOK
  <1>1. /\ boundaries'[r][c] = [status |-> "open", start |-> MaxEventId, end |-> 0,
                                paths |-> paths]
        /\ \A q \in RunId, d \in Change :
              q # r \/ d # c => boundaries'[q][d] = boundaries[q][d]
    BY DEF RunsTypeOK
  <1>2. RunsTypeOK'
    BY <1>0, <1>1 DEF RunsTypeOK, Boundary
  <1>3. FencesPast'
    BY <1>0, <1>1 DEF FencesPast, RunsTypeOK
  <1>4. NotStarted' /\ EndedClosed' /\ ActiveAlone'
    BY <1>1 DEF NotStarted, EndedClosed, ActiveAlone, Reporting, ActiveRuns, ActiveIntents
  <1>5. BoundariesInside'
    BY <1>0, <1>1 DEF BoundariesInside, RunsTypeOK
  <1>6. ClaimsInSpan' /\ SpansApart'
    BY DEF ClaimsInSpan, SpansApart, InSpan, Started
  <1>7. ClaimsAnnounced'
    BY <1>1 DEF ClaimsAnnounced, Between
  <1> QED
    BY <1>2, <1>3, <1>4, <1>5, <1>6, <1>7

\* What a boundary claims lies after its start, so after that of its Run.
LEMMA CloseBoundaryPreserves ==
    ASSUME IInv, NEW r \in RunId, NEW c \in Change, NEW paths \in SUBSET Path,
           CloseBoundary(r, c, paths)
    PROVE  IInv'
  <1> USE DEF IInv, TypeInv
  <1>a. UNCHANGED <<events, lastEvent, runs, intents, checkpoints>>
    BY DEF CloseBoundary
  <1>0. /\ MaxEventId \in Nat /\ MaxEventId <= lastEvent
        /\ \A e \in DOMAIN events : e <= MaxEventId /\ e \in Nat
    BY MaxEventIdGreatest DEF RunsTypeOK
  <1>1. /\ boundaries'[r][c] \in Boundary
        /\ boundaries'[r][c].status = "closed" /\ boundaries'[r][c].end = MaxEventId
        /\ boundaries'[r][c].start = boundaries[r][c].start
        /\ boundaries'[r][c].paths = boundaries[r][c].paths
        /\ \A q \in RunId, d \in Change :
              q # r \/ d # c => boundaries'[q][d] = boundaries[q][d]
        /\ boundaries[r][c].status = "open"
    <2>1. boundaries[r][c] \in Boundary
      BY DEF RunsTypeOK
    <2>2. boundaries'[r][c] = [boundaries[r][c] EXCEPT !.status = "closed",
                                                      !.end = MaxEventId]
      BY DEF RunsTypeOK, CloseBoundary
    <2>3. \A q \in RunId, d \in Change :
             q # r \/ d # c => boundaries'[q][d] = boundaries[q][d]
      BY DEF RunsTypeOK, CloseBoundary
    <2>4. boundaries[r][c].status = "open"
      BY DEF CloseBoundary
    <2> HIDE DEF IInv
    <2>5. /\ [boundaries[r][c] EXCEPT !.status = "closed", !.end = MaxEventId] \in Boundary
          /\ boundaries'[r][c].status = "closed" /\ boundaries'[r][c].end = MaxEventId
          /\ boundaries'[r][c].start = boundaries[r][c].start
          /\ boundaries'[r][c].paths = boundaries[r][c].paths
      BY <1>0, <2>1, <2>2 DEF Boundary
    <2> QED
      BY <2>2, <2>3, <2>4, <2>5
  <1>2. /\ claims'[r] = claims[r] \cup Claimable(boundaries[r][c], MaxEventId)
        /\ \A q \in RunId : q # r => claims'[q] = claims[q]
    BY DEF RunsTypeOK, CloseBoundary
  <1>3. runs[r].status = "active" /\ runs[r].mode = "reported"
    BY <1>1 DEF ActiveRuns, NotStarted, CloseBoundary
  <1>4. \A e \in Claimable(boundaries[r][c], MaxEventId) :
           /\ e \in DOMAIN events /\ boundaries[r][c].start < e /\ e <= MaxEventId
           /\ events[e] \cap boundaries[r][c].paths # {}
           /\ runs[r].start < e
    BY <1>1 DEF Claimable, Between, BoundariesInside
  <1>5. RunsTypeOK'
    <2>1. boundaries' \in [RunId -> [Change -> Boundary]]
      <3>1. \A q \in RunId, d \in Change : boundaries'[q][d] \in Boundary
        BY <1>1 DEF RunsTypeOK
      <3>2. /\ DOMAIN boundaries' = RunId
            /\ \A q \in RunId : boundaries'[q] = [d \in Change |-> boundaries'[q][d]]
            /\ boundaries' = [q \in RunId |-> boundaries'[q]]
        BY DEF RunsTypeOK, CloseBoundary
      <3> QED
        BY <3>1, <3>2
    <2>2. claims' \in [RunId -> SUBSET (DOMAIN events)]
      BY <1>2, <1>4 DEF RunsTypeOK, CloseBoundary
    <2> QED
      BY <1>a, <2>1, <2>2 DEF RunsTypeOK
  <1>6. FencesPast'
    BY <1>a, <1>0, <1>1 DEF FencesPast
  <1>7. NotStarted' /\ EndedClosed' /\ ActiveAlone'
    BY <1>a, <1>1, <1>3 DEF NotStarted, EndedClosed, ActiveAlone, ActiveRuns, ActiveIntents
  <1>8. BoundariesInside'
    BY <1>a, <1>1, <1>3 DEF BoundariesInside
  <1>9. ClaimsInSpan'
    BY <1>a, <1>2, <1>3, <1>4 DEF ClaimsInSpan, InSpan, Started
  <1>10. SpansApart'
    BY <1>a DEF SpansApart, InSpan, Started
  <1>11. ClaimsAnnounced'
    <2> SUFFICES ASSUME NEW q \in RunId, NEW e \in claims'[q]
                 PROVE  IF runs[q].mode = "reported"
                        THEN \E d \in Change :
                                /\ boundaries'[q][d].status = "closed"
                                /\ boundaries'[q][d].start < e
                                /\ e <= boundaries'[q][d].end
                                /\ events[e] \cap boundaries'[q][d].paths # {}
                        ELSE /\ runs[q].status = "ended"
                             /\ e \in Between(runs[q].start, runs[q].end)
      BY <1>a DEF ClaimsAnnounced, Between
    <2>1. CASE e \in claims[q]
      <3>1. CASE runs[q].mode = "reported"
        <4>1. PICK d \in Change : /\ boundaries[q][d].status = "closed"
                                  /\ boundaries[q][d].start < e
                                  /\ e <= boundaries[q][d].end
                                  /\ events[e] \cap boundaries[q][d].paths # {}
          BY <2>1, <3>1 DEF ClaimsAnnounced
        <4>2. q # r \/ d # c
          BY <1>1, <4>1
        <4> QED
          BY <1>1, <3>1, <4>1, <4>2
      <3>2. CASE runs[q].mode # "reported"
        BY <2>1, <3>2 DEF ClaimsAnnounced
      <3> QED
        BY <3>1, <3>2
    <2>2. CASE e \notin claims[q]
      <3>1. q = r /\ e \in Claimable(boundaries[r][c], MaxEventId)
        BY <2>2, <1>2
      <3> QED
        BY <3>1, <1>1, <1>3, <1>4
    <2> QED
      BY <2>1, <2>2
  <1> QED
    BY <1>a, <1>5, <1>6, <1>7, <1>8, <1>9, <1>10, <1>11

\* Checkpoints and intents stand beside the spans.
LEMMA CreateCheckpointPreserves ==
    ASSUME IInv, NEW r \in RunId, NEW n \in Name, CreateCheckpoint(r, n)
    PROVE  IInv'
  <1> USE DEF IInv, TypeInv, CreateCheckpoint
  <1>0. MaxEventId \in Nat
    BY MaxEventIdGreatest
  <1>1. RunsTypeOK'
    BY <1>0 DEF RunsTypeOK
  <1>2. TypeInv'
    BY <1>1
  <1>3. FencesPast' /\ NotStarted' /\ EndedClosed' /\ ActiveAlone'
    BY DEF FencesPast, NotStarted, EndedClosed, ActiveAlone, ActiveRuns, ActiveIntents
  <1>4. BoundariesInside' /\ ClaimsInSpan' /\ SpansApart' /\ ClaimsAnnounced'
    BY DEF BoundariesInside, ClaimsInSpan, SpansApart, InSpan, Started, ClaimsAnnounced, Between
  <1> QED
    BY <1>2, <1>3, <1>4

LEMMA StartIntentPreserves ==
    ASSUME IInv, NEW r \in RunId, NEW label \in Name, StartIntent(r, label)
    PROVE  IInv'
  <1> USE DEF IInv, TypeInv, StartIntent
  <1>0. MaxEventId \in Nat
    BY MaxEventIdGreatest
  <1>1. RunsTypeOK'
    <2>1. [run |-> r, label |-> label, active |-> TRUE, start |-> MaxEventId, end |-> 0]
             \in Intent
      BY <1>0 DEF Intent
    <2> QED
      BY <2>1 DEF RunsTypeOK
  <1>2. FencesPast' /\ ActiveAlone'
    BY DEF FencesPast, ActiveAlone, ActiveRuns
  <1>3. NotStarted' /\ EndedClosed'
    BY DEF NotStarted, EndedClosed, ActiveRuns, ActiveIntents
  <1>4. BoundariesInside' /\ ClaimsInSpan' /\ SpansApart' /\ ClaimsAnnounced'
    BY DEF BoundariesInside, ClaimsInSpan, SpansApart, InSpan, Started, ClaimsAnnounced, Between
  <1> QED
    BY <1>1, <1>2, <1>3, <1>4

LEMMA CompleteIntentPreserves ==
    ASSUME IInv, NEW r \in RunId, NEW label \in Name, CompleteIntent(r, label)
    PROVE  IInv'
  <1> USE DEF IInv, TypeInv, CompleteIntent
  <1>0. \A i \in intents' : \E j \in intents : i.run = j.run /\ (i.active => j.active)
    BY DEF CompletedIntents, RunsTypeOK, Intent
  <1>1. RunsTypeOK'
    BY CompletedIntentsTyped DEF RunsTypeOK, ActiveIntents
  <1>2. FencesPast' /\ ActiveAlone'
    BY DEF FencesPast, ActiveAlone, ActiveRuns
  <1>3. NotStarted' /\ EndedClosed'
    BY <1>0 DEF NotStarted, EndedClosed, ActiveIntents
  <1>4. BoundariesInside' /\ ClaimsInSpan' /\ SpansApart' /\ ClaimsAnnounced'
    BY DEF BoundariesInside, ClaimsInSpan, SpansApart, InSpan, Started, ClaimsAnnounced, Between
  <1> QED
    BY <1>1, <1>2, <1>3, <1>4

\* Steps of others leave all of this alone.
LEMMA StutterPreserves ==
    ASSUME IInv, UNCHANGED runsVars
    PROVE  IInv'
  BY DEF IInv, TypeInv, RunsTypeOK, FencesPast, NotStarted, EndedClosed, ActiveAlone,
         BoundariesInside, ClaimsInSpan, SpansApart, ClaimsAnnounced, InSpan, Started,
         Between, ActiveRuns, ActiveIntents, runsVars

LEMMA NextPreserves ==
    ASSUME IInv, [RunsNext]_runsVars
    PROVE  IInv'
  <1>1. CASE UNCHANGED runsVars
    BY <1>1, StutterPreserves
  <1>2. ASSUME NEW paths \in SUBSET Path, InsertEvent(paths) PROVE IInv'
    BY <1>2, InsertEventPreserves
  <1>3. ASSUME NEW old \in SUBSET DOMAIN events, DropEvents(old) PROVE IInv'
    BY <1>3, DropEventsPreserves
  <1>4. ASSUME NEW r \in RunId, NEW x \in External \cup {NoExternal},
               NEW mode \in {"window", "reported"}, StartRun(r, x, mode) PROVE IInv'
    BY <1>4, StartRunPreserves
  <1>5. ASSUME NEW r \in RunId, CompleteRun(r) PROVE IInv'
    BY <1>5, CompleteRunPreserves
  <1>6. ASSUME NEW r \in RunId, NEW c \in Change, NEW paths \in SUBSET Path,
               OpenBoundary(r, c, paths) \/ CloseBoundary(r, c, paths) PROVE IInv'
    BY <1>6, OpenBoundaryPreserves, CloseBoundaryPreserves
  <1>7. ASSUME NEW r \in RunId, NEW n \in Name,
               CreateCheckpoint(r, n) \/ StartIntent(r, n) \/ CompleteIntent(r, n)
        PROVE  IInv'
    BY <1>7, CreateCheckpointPreserves, StartIntentPreserves, CompleteIntentPreserves
  <1> QED
    BY <1>1, <1>2, <1>3, <1>4, <1>5, <1>6, <1>7 DEF RunsNext

\* The inductive invariant.
THEOREM Invariance == RunsSpec => []IInv
  <1>1. RunsInit => IInv
    BY InitEstablishes
  <1>2. IInv /\ [RunsNext]_runsVars => IInv'
    BY NextPreserves
  <1> QED
    BY <1>1, <1>2, PTL DEF RunsSpec

\* The state of a project's Runs stays well typed.
THEOREM TypeCorrect == RunsSpec => []RunsTypeOK
  <1>1. IInv => RunsTypeOK
    BY DEF IInv, TypeInv
  <1> QED
    BY <1>1, Invariance, PTL

\* Claims are announced, whatever is recorded, pruned or ended in between.
THEOREM AnnouncedClaims == RunsSpec => []ClaimsAnnounced
  <1>1. IInv => ClaimsAnnounced
    BY DEF IInv
  <1> QED
    BY <1>1, Invariance, PTL

\* What is shown as a Run's own lies in its span.
LEMMA MembersInSpan ==
    ASSUME IInv, NEW r \in RunId, Started(r), NEW e \in Members(r)
    PROVE  e \in DOMAIN events /\ InSpan(r, e)
  <1>1. runs[r] \in Run /\ claims[r] \subseteq DOMAIN events
    BY DEF IInv, TypeInv, RunsTypeOK
  <1>2. CASE runs[r].mode = "reported"
    BY <1>1, <1>2 DEF Members, IInv, ClaimsInSpan
  <1>3. CASE runs[r].mode # "reported"
    <2>1. e \in DOMAIN events /\ runs[r].start < e
      BY <1>3 DEF Members, Between
    <2>2. runs[r].status # "active" => e <= runs[r].end
      BY <1>3 DEF Members, Between
    <2> QED
      BY <2>1, <2>2 DEF InSpan
  <1> QED
    BY <1>2, <1>3

\* The events of a window Run are nobody else's: window Runs tolerate no other
\* Run beside them, and no event that is left lies in the spans of two of them.
THEOREM WindowsKeptApart == RunsSpec => []WindowsAlone
  <1>1. IInv => WindowsAlone
    <2> SUFFICES ASSUME IInv, NEW r \in RunId, NEW q \in RunId, r # q,
                        Started(r), Started(q), runs[r].mode = "window"
                 PROVE  Members(r) \cap (Members(q) \cup claims[q]) = {}
      BY DEF WindowsAlone
    <2>1. \A e \in Members(r) : e \in DOMAIN events /\ InSpan(r, e)
      BY MembersInSpan
    <2>2. \A e \in Members(q) : InSpan(q, e)
      BY MembersInSpan
    <2>3. \A e \in claims[q] : InSpan(q, e)
      BY DEF IInv, ClaimsInSpan
    <2>4. \A e \in DOMAIN events : ~(InSpan(r, e) /\ InSpan(q, e))
      BY DEF IInv, SpansApart
    <2> QED
      BY <2>1, <2>2, <2>3, <2>4
  <1> QED
    BY <1>1, Invariance, PTL

\* What "exclusive" means for the events of a path.
LEMMA ExclusiveMeans ==
    ASSUME NEW r \in RunId, NEW p \in Path, Ownership(r, p) = "exclusive"
    PROVE  /\ claims[r] \cap OnPath(p) # {}
           /\ \A e \in claims[r] \cap OnPath(p) : Claimants(e) = {r}
           /\ \A e \in OnPath(p) : e > runs[r].start => Claimants(e) = {r}
  <1> DEFINE mine == claims[r] \cap OnPath(p)
  <1>1. mine # {}
    BY DEF Ownership
  <1>2. ~(\E e \in mine : Claimants(e) # {r})
    BY <1>1 DEF Ownership
  <1>3. ~(\E e \in OnPath(p) : e > runs[r].start /\ Claimants(e) # {r})
    BY <1>1, <1>2 DEF Ownership
  <1> QED
    BY <1>1, <1>2, <1>3

\* Of two Runs with claims on a path the one that started last has a claim
\* after the start of both, which only one of them can have to itself.
THEOREM ExclusiveOwners == RunsSpec => []OneExclusiveOwner
  <1>1. IInv => OneExclusiveOwner
    <2> SUFFICES ASSUME IInv, NEW p \in Path, NEW r \in RunId, NEW q \in RunId,
                        Ownership(r, p) = "exclusive", Ownership(q, p) = "exclusive"
                 PROVE  r = q
      BY DEF OneExclusiveOwner
    <2>1. PICK d \in claims[r] \cap OnPath(p) : Claimants(d) = {r}
      BY ExclusiveMeans
    <2>2. PICK e \in claims[q] \cap OnPath(p) : Claimants(e) = {q}
      BY ExclusiveMeans
    <2>3. runs[r].start < d /\ runs[q].start < e
      BY DEF IInv, ClaimsInSpan, InSpan
    <2>4. d \in Nat /\ e \in Nat /\ runs[r].start \in Nat /\ runs[q].start \in Nat
      BY DEF IInv, TypeInv, RunsTypeOK, Run, OnPath
    <2>5. CASE runs[r].start <= runs[q].start
      <3>1. e \in OnPath(p) /\ e > runs[r].start
        BY <2>3, <2>4, <2>5
      <3>2. Claimants(e) = {r}
        BY <3>1, ExclusiveMeans
      <3> QED
        BY <2>2, <3>2
    <2>6. CASE runs[q].start <= runs[r].start
      <3>1. d \in OnPath(p) /\ d > runs[q].start
        BY <2>3, <2>4, <2>6
      <3>2. Claimants(d) = {q}
        BY <3>1, ExclusiveMeans
      <3> QED
        BY <2>1, <3>2
    <2> QED
      BY <2>4, <2>5, <2>6
  <1> QED
    BY <1>1, Invariance, PTL

-------------------------------------------------------------------------------
(* Ended Runs are final                                                    *)

\* The intents a step leaves a Run that it does not complete.
LEMMA OthersIntents ==
    ASSUME IInv, NEW r \in RunId, NEW q \in RunId, q # r
    PROVE  {i \in CompletedIntents(ActiveIntents(r)) : i.run = q} = {i \in intents : i.run = q}
  <1>1. \A i \in intents : [i EXCEPT !.active = FALSE, !.end = MaxEventId].run = i.run
    BY DEF IInv, TypeInv, RunsTypeOK, Intent
  <1>2. \A i \in intents : i.run = q => i \notin ActiveIntents(r)
    BY DEF ActiveIntents
  <1>3. \A i \in ActiveIntents(r) : i.run # q
    BY DEF ActiveIntents
  <1> QED
    BY <1>1, <1>2, <1>3 DEF CompletedIntents

\* What a step may still do to a Run that has ended.
Final(r) ==
    /\ runs'[r] = runs[r]
    /\ boundaries'[r] = boundaries[r]
    /\ \A c \in Change : boundaries[r][c].status # "open"
    /\ claims'[r] = claims[r] \cap DOMAIN events'
    /\ {i \in intents' : i.run = r} = {i \in intents : i.run = r}
    /\ ActiveIntents(r) = {}

LEMMA EndedStays ==
    ASSUME IInv, RunsNext, NEW q \in RunId, runs[q].status = "ended"
    PROVE  Final(q)
  <1>1. /\ \A c \in Change : boundaries[q][c].status # "open"
        /\ ActiveIntents(q) = {}
        /\ claims[q] \subseteq DOMAIN events
        /\ q \notin ActiveRuns
    BY DEF IInv, EndedClosed, TypeInv, RunsTypeOK, ActiveRuns
  <1>t. RunsTypeOK
    BY DEF IInv, TypeInv
  <1> SUFFICES /\ runs'[q] = runs[q]
               /\ boundaries'[q] = boundaries[q]
               /\ claims'[q] = claims[q] \cap DOMAIN events'
               /\ {i \in intents' : i.run = q} = {i \in intents : i.run = q}
    BY <1>1 DEF Final
  <1>2. CASE \E paths \in (SUBSET Path) \ {{}} : InsertEvent(paths)
    BY <1>1, <1>2 DEF InsertEvent
  <1>3. CASE \E old \in SUBSET DOMAIN events : DropEvents(old)
    BY <1>1, <1>3 DEF DropEvents
  <1>4. ASSUME NEW r \in RunId,
               \E x \in External \cup {NoExternal}, mode \in {"window", "reported"} :
                    StartRun(r, x, mode)
        PROVE  /\ runs'[q] = runs[q] /\ boundaries' = boundaries
               /\ claims' = claims /\ events' = events /\ intents' = intents
    BY <1>4, <1>t DEF StartRun, RunsTypeOK
  <1>5. ASSUME NEW r \in RunId, CompleteRun(r)
        PROVE  /\ runs'[q] = runs[q] /\ boundaries'[q] = boundaries[q]
               /\ claims'[q] = claims[q] /\ events' = events
               /\ {i \in intents' : i.run = q} = {i \in intents : i.run = q}
    <2>1. q # r /\ intents' = CompletedIntents(ActiveIntents(r))
      BY <1>1, <1>5 DEF CompleteRun
    <2>2. runs'[q] = runs[q] /\ boundaries'[q] = boundaries[q] /\ claims'[q] = claims[q]
      BY <1>5, <1>t, <2>1 DEF CompleteRun, RunsTypeOK
    <2>3. events' = events
      BY <1>5 DEF CompleteRun
    <2> QED
      BY <2>1, <2>2, <2>3, OthersIntents
  <1>6. ASSUME NEW r \in RunId, NEW c \in Change, NEW paths \in SUBSET Path,
               OpenBoundary(r, c, paths) \/ CloseBoundary(r, c, paths)
        PROVE  /\ runs' = runs /\ boundaries'[q] = boundaries[q]
               /\ claims'[q] = claims[q] /\ events' = events /\ intents' = intents
    <2>1. q # r
      BY <1>1, <1>6 DEF OpenBoundary, CloseBoundary, Reporting
    <2> QED
      BY <1>6, <1>t, <2>1 DEF OpenBoundary, CloseBoundary, RunsTypeOK
  <1>7. ASSUME NEW r \in RunId, NEW n \in Name,
               CreateCheckpoint(r, n) \/ StartIntent(r, n) \/ CompleteIntent(r, n)
        PROVE  /\ runs' = runs /\ boundaries' = boundaries
               /\ claims' = claims /\ events' = events
               /\ {i \in intents' : i.run = q} = {i \in intents : i.run = q}
    <2>1. CASE CreateCheckpoint(r, n)
      BY <2>1 DEF CreateCheckpoint
    <2>2. CASE StartIntent(r, n)
      BY <1>1, <2>2 DEF StartIntent
    <2>3. CASE CompleteIntent(r, n)
      <3>1. q # r /\ intents' = CompletedIntents(ActiveIntents(r))
        BY <1>1, <2>3 DEF CompleteIntent
      <3> QED
        BY <2>3, <3>1, OthersIntents DEF CompleteIntent
    <2> QED
      BY <1>7, <2>1, <2>2, <2>3
  <1> QED
    BY <1>1, <1>2, <1>3, <1>4, <1>5, <1>6, <1>7 DEF RunsNext

\* Whatever happens later, a Run that has ended stays as it is; only its
\* claims go, with the events they are about.
THEOREM EndedRunsFinal == RunsSpec => EndedIsFinal
  <1>1. IInv /\ [RunsNext]_runsVars =>
           [\A r \in RunId : runs[r].status = "ended" => Final(r)]_runsVars
    BY EndedStays
  <1>2. [\A r \in RunId : runs[r].status = "ended" => Final(r)]_runsVars =>
           [\A r \in RunId : runs[r].status = "ended" =>
               /\ runs'[r] = runs[r]
               /\ boundaries'[r] = boundaries[r]
               /\ \A c \in Change : boundaries[r][c].status # "open"
               /\ claims'[r] = claims[r] \cap DOMAIN events'
               /\ {i \in intents' : i.run = r} = {i \in intents : i.run = r}
               /\ ActiveIntents(r) = {}]_runsVars
    BY DEF Final
  <1> QED
    BY <1>1, <1>2, Invariance, PTL DEF RunsSpec, EndedIsFinal

-------------------------------------------------------------------------------
(* Callers of Runs                                                         *)

\* Calls are made by clients, and a transaction is about a Run that was found.
IsCall(k) ==
    /\ DOMAIN k = {"client", "step", "try", "run", "answer", "pc", "todo"}
    /\ k.client \in Client
    /\ k.todo \subseteq Path
    /\ k.pc = "apply" => k.run \in RunId

CallsFit == script \in Scripts /\ \A k \in calls : IsCall(k)

\* What clients were told is what is saved.
ToldIsSaved ==
    \A s \in said : s.key \in DOMAIN responses /\ s.answer = responses[s.key]

-------------------------------------------------------------------------------
(* Calls                                                                   *)

\* A call that has succeeded either saves an answer next or has ended.
LEMMA SucceedFits ==
    ASSUME CallsFit, NEW k \in calls, NEW run, NEW note, Succeed(k, run, note),
           script' = script
    PROVE  CallsFit'
  <1>1. IsCall([k EXCEPT !.pc = "record", !.run = run, !.answer = note])
    BY DEF CallsFit, IsCall
  <1> QED
    BY <1>1 DEF CallsFit, Succeed, Become, Finish

\* A call goes on with the Run it has found.
LEMMA ProceedFits ==
    ASSUME CallsFit, NEW k \in calls, NEW run \in RunId, Proceed(k, run), script' = script
    PROVE  CallsFit'
  <1>1. IsCall([k EXCEPT !.pc = "apply", !.run = run])
    BY DEF CallsFit, IsCall
  <1> QED
    BY <1>1 DEF CallsFit, Proceed, Become

\* A call ends.
LEMMA FinishFits ==
    ASSUME CallsFit, NEW k \in calls, calls' = calls \ {k}, script' = script
    PROVE  CallsFit'
  BY DEF CallsFit

\* A new call starts by bringing the history up to date.
LEMMA CallFits ==
    ASSUME CallsFit, NEW c \in Client, NEW i, NEW try
    PROVE  IsCall(Call(c, i, try))
  <1>1. ToSync(c, Kind(c, i)) \subseteq Path
    BY AnnouncedAssumption DEF ToSync
  <1>2. /\ DOMAIN Call(c, i, try) = {"client", "step", "try", "run", "answer", "pc", "todo"}
        /\ Call(c, i, try).client = c
        /\ Call(c, i, try).todo = ToSync(c, Kind(c, i))
        /\ Call(c, i, try).pc = "sync"
    BY DEF Call
  <1> QED
    BY <1>1, <1>2 DEF IsCall

\* The Run a transaction is about.
LEMMA TargetFits ==
    ASSUME CallsFit, NEW k \in calls
    PROVE  Target(k) \subseteq RunId
  BY DEF CallsFit, IsCall, Target, Known

-------------------------------------------------------------------------------
(* Each kind of call                                                       *)

\* A call keeps the calls well formed and is one transaction on Runs, if any.
Step == CallsFit' /\ [RunsNext]_runsVars

LEMMA SyncPathStep ==
    ASSUME CallsFit, NEW k \in calls, SyncPath(k)
    PROVE  Step
  <1> DEFINE clean == {p \in k.todo : unseen[p] = {}}
  <1>1. script' = script /\ IsCall(k)
    BY DEF SyncPath, CallsFit
  <1>2. ASSUME NEW S PROVE IsCall([k EXCEPT !.todo = @ \ S])
    BY <1>1 DEF IsCall
  <1>3. CASE /\ Become(k, [k EXCEPT !.todo = @ \ clean])
             /\ UNCHANGED <<runsVars, fileVars>>
    BY <1>1, <1>2, <1>3 DEF Step, CallsFit, Become
  <1>4. ASSUME NEW p \in k.todo \ clean,
               Become(k, [k EXCEPT !.todo = @ \ {p}]), RecordChange({p})
        PROVE  Step
    <2>1. p \in Path
      BY <1>1 DEF IsCall
    <2>2. InsertEvent({p})
      BY <1>4 DEF RecordChange
    <2>3. {p} \in (SUBSET Path) \ {{}}
      BY <2>1
    <2>4. RunsNext
      BY <2>2, <2>3 DEF RunsNext
    <2> QED
      BY <1>1, <1>2, <1>4, <2>4 DEF Step, CallsFit, Become
  <1> QED
    BY <1>3, <1>4 DEF SyncPath

LEMMA ObtainStep ==
    ASSUME CallsFit, NEW k \in calls, Obtain(k)
    PROVE  Step
  <1> DEFINE x == ExternalOf(k.client)
             mode == script[k.client].mode
  <1>1. script' = script /\ k.client \in Client
    BY DEF Obtain, Steady, CallsFit, IsCall
  <1>2. x \in External \cup {NoExternal} /\ mode \in {"window", "reported"}
    BY <1>1, ScriptsAssumption DEF CallsFit, ExternalOf
  <1>3. ASSUME NEW r \in RunId, Obtained(k, r) PROVE CallsFit'
    BY <1>1, <1>3, ProceedFits, SucceedFits DEF Obtained
  <1>4. ASSUME Fail(k) PROVE Step
    BY <1>1, <1>4, FinishFits DEF Fail, Finish, Step
  <1>5. ASSUME NEW r \in Known(x),
               IF Acceptable(k, r)
               THEN UNCHANGED <<runsVars, excused>> /\ Obtained(k, r)
               ELSE Fail(k) /\ excused' = excused \cup {k.client}
        PROVE  Step
    <2>1. r \in RunId
      BY DEF Known
    <2> QED
      BY <1>3, <1>4, <1>5, <2>1 DEF Step
  <1>6. ASSUME NEW r \in RunId, StartRun(r, x, mode), Obtained(k, r)
        PROVE  Step
    <2>1. RunsNext
      BY <1>2, <1>6 DEF RunsNext
    <2> QED
      BY <1>3, <1>6, <2>1 DEF Step
  <1> QED
    BY <1>4, <1>5, <1>6 DEF Obtain

LEMMA CheckStep ==
    ASSUME CallsFit, NEW k \in calls, Check(k)
    PROVE  Step
  <1>1. script' = script /\ UNCHANGED runsVars
    BY DEF Check, Steady
  <1>2. ASSUME NEW r \in RunId,
               IF KindOf(k) = "post" /\ boundaries[r][k.client].status = "none"
               THEN Finish(k, r, TRUE)
               ELSE Proceed(k, r)
        PROVE  CallsFit'
    BY <1>1, <1>2, FinishFits, ProceedFits DEF Finish
  <1>3. CallsFit'
    BY <1>1, <1>2, FinishFits DEF Check, Finish, Known
  <1> QED
    BY <1>1, <1>3 DEF Step

LEMMA NotFoundStep ==
    ASSUME CallsFit, NEW k \in calls, NotFound(k)
    PROVE  Step
  BY FinishFits DEF NotFound, Fail, Finish, Steady, Step

LEMMA OpenChangeStep ==
    ASSUME CallsFit, NEW k \in calls, OpenChange(k)
    PROVE  Step
  <1>1. /\ script' = script
        /\ k.client \in Change
        /\ Announced[k.client] \in SUBSET Path
    BY ClientAssumption, AnnouncedAssumption DEF OpenChange, Steady, CallsFit, IsCall
  <1>2. PICK r \in Target(k) :
           \/ Fail(k)
           \/ Succeed(k, r, boundaries[r][k.client].status) /\ UNCHANGED runsVars
           \/ OpenBoundary(r, k.client, Announced[k.client]) /\ Succeed(k, r, "open")
    BY DEF OpenChange
  <1>3. r \in RunId
    BY TargetFits
  <1>4. CallsFit'
    BY <1>1, <1>2, SucceedFits, FinishFits DEF Fail, Finish
  <1>5. [RunsNext]_runsVars
    BY <1>1, <1>2, <1>3 DEF RunsNext, Fail
  <1> QED
    BY <1>4, <1>5 DEF Step

LEMMA CloseChangeStep ==
    ASSUME CallsFit, NEW k \in calls, CloseChange(k)
    PROVE  Step
  <1>1. /\ script' = script
        /\ k.client \in Change
        /\ Announced[k.client] \in SUBSET Path
        /\ k.run \in RunId
    BY ClientAssumption, AnnouncedAssumption DEF CloseChange, Ready, Steady, CallsFit, IsCall
  <1>2. \/ Fail(k)
        \/ Succeed(k, k.run, "closed") /\ UNCHANGED runsVars
        \/ CloseBoundary(k.run, k.client, Announced[k.client]) /\ Succeed(k, k.run, "closed")
    BY DEF CloseChange
  <1>3. CallsFit'
    BY <1>1, <1>2, SucceedFits, FinishFits DEF Fail, Finish
  <1>4. [RunsNext]_runsVars
    BY <1>1, <1>2 DEF RunsNext, Fail
  <1> QED
    BY <1>3, <1>4 DEF Step

LEMMA MarkStep ==
    ASSUME CallsFit, NEW k \in calls, Mark(k)
    PROVE  Step
  <1>1. script' = script /\ k.client \in Name /\ k.run \in RunId
    BY ClientAssumption DEF Mark, Ready, Steady, CallsFit, IsCall
  <1>2. \/ Succeed(k, k.run, "existing") /\ UNCHANGED runsVars
        \/ CreateCheckpoint(k.run, k.client) /\ Succeed(k, k.run, "created")
    BY DEF Mark
  <1>3. CallsFit'
    BY <1>1, <1>2, SucceedFits
  <1>4. [RunsNext]_runsVars
    BY <1>1, <1>2 DEF RunsNext
  <1> QED
    BY <1>3, <1>4 DEF Step

LEMMA BeginIntentStep ==
    ASSUME CallsFit, NEW k \in calls, BeginIntent(k)
    PROVE  Step
  <1>1. script' = script /\ k.client \in Name
    BY ClientAssumption DEF BeginIntent, Steady, CallsFit, IsCall
  <1>2. PICK r \in Target(k) :
           \/ Fail(k)
           \/ Succeed(k, r, "active") /\ UNCHANGED runsVars
           \/ StartIntent(r, k.client) /\ Succeed(k, r, "active")
    BY DEF BeginIntent
  <1>3. r \in RunId
    BY TargetFits
  <1>4. CallsFit'
    BY <1>1, <1>2, SucceedFits, FinishFits DEF Fail, Finish
  <1>5. [RunsNext]_runsVars
    BY <1>1, <1>2, <1>3 DEF RunsNext, Fail
  <1> QED
    BY <1>4, <1>5 DEF Step

LEMMA EndIntentStep ==
    ASSUME CallsFit, NEW k \in calls, EndIntent(k)
    PROVE  Step
  <1>1. script' = script /\ k.client \in Name
    BY ClientAssumption DEF EndIntent, Steady, CallsFit, IsCall
  <1>2. PICK r \in Target(k) :
           \/ Fail(k)
           \/ Succeed(k, r, "done") /\ UNCHANGED runsVars
           \/ \E label \in Name : CompleteIntent(r, label) /\ Succeed(k, r, "done")
    BY DEF EndIntent
  <1>3. r \in RunId
    BY TargetFits
  <1>4. CallsFit'
    BY <1>1, <1>2, SucceedFits, FinishFits DEF Fail, Finish
  <1>5. [RunsNext]_runsVars
    BY <1>1, <1>2, <1>3 DEF RunsNext, Fail
  <1> QED
    BY <1>4, <1>5 DEF Step

\* A Run that has ended is left as it is.
LEMMA EndRunStep ==
    ASSUME CallsFit, NEW k \in calls, NEW r, EndRun(k, r), script' = script
    PROVE  Step
  <1>1. CallsFit'
    BY SucceedFits DEF EndRun
  <1>2. [RunsNext]_runsVars
    BY DEF EndRun, RunsNext, ActiveRuns
  <1> QED
    BY <1>1, <1>2 DEF Step

LEMMA CompleteStep ==
    ASSUME CallsFit, NEW k \in calls, Complete(k)
    PROVE  Step
  <1>1. script' = script
    BY DEF Complete, Steady
  <1>2. \/ \E r : EndRun(k, r)
        \/ calls' = calls \ {k} /\ UNCHANGED runsVars
    BY DEF Complete, Finish
  <1> QED
    BY <1>1, <1>2, EndRunStep, FinishFits DEF Step

LEMMA StopStep ==
    ASSUME CallsFit, NEW k \in calls, PickRun(k) \/ StopRun(k)
    PROVE  Step
  <1>1. script' = script
    BY DEF PickRun, StopRun, Steady
  <1>2. CASE PickRun(k)
    <2>1. UNCHANGED runsVars
      BY <1>2 DEF PickRun
    <2>2. (\E r \in RunId : Proceed(k, r)) \/ calls' = calls \ {k}
      BY <1>2 DEF PickRun, ActiveRuns, Finish
    <2> QED
      BY <1>1, <2>1, <2>2, ProceedFits, FinishFits DEF Step
  <1>3. CASE StopRun(k)
    BY <1>1, <1>3, EndRunStep DEF StopRun
  <1> QED
    BY <1>2, <1>3

LEMMA AnswerStep ==
    ASSUME CallsFit, NEW k \in calls, SaveAnswer(k) \/ Die(k)
    PROVE  Step
  <1>1. script' = script /\ calls' = calls \ {k} /\ UNCHANGED runsVars
    BY DEF SaveAnswer, Die, Finish
  <1> QED
    BY <1>1, FinishFits DEF Step

-------------------------------------------------------------------------------
(* The whole system                                                        *)

LEMMA OutsideStep ==
    ASSUME CallsFit,
           \/ \E p \in Path : WorkOutside(p)
           \/ \E paths \in SUBSET Path : Observe(paths)
           \/ \E old \in SUBSET DOMAIN events : Prune(old)
    PROVE  Step
  <1>1. CASE \E p \in Path : WorkOutside(p)
    BY <1>1 DEF WorkOutside, Touch, Step, CallsFit
  <1>2. ASSUME NEW paths \in SUBSET Path, Observe(paths) PROVE Step
    <2>1. paths # {}
      BY <1>2, FS_EmptySet DEF Observe
    <2>2. InsertEvent(paths)
      BY <1>2 DEF Observe, RecordChange
    <2>3. RunsNext
      BY <2>1, <2>2 DEF RunsNext
    <2> QED
      BY <1>2, <2>3 DEF Observe, callVars, Step, CallsFit
  <1>3. ASSUME NEW old \in SUBSET DOMAIN events, Prune(old) PROVE Step
    BY <1>3 DEF Prune, RunsNext, Step, CallsFit
  <1> QED
    BY <1>1, <1>2, <1>3

LEMMA ClientStep ==
    ASSUME CallsFit, NEW c \in Client,
           (\E p \in Path : Work(c, p)) \/ Send(c) \/ Resend(c)
    PROVE  Step
  <1>1. CASE \E p \in Path : Work(c, p)
    BY <1>1 DEF Work, Touch, Step, CallsFit
  <1>2. CASE Send(c)
    <2>1. calls' = calls \cup {Call(c, client[c].step, 1)} /\ script' = script
      BY <1>2 DEF Send
    <2>2. UNCHANGED runsVars
      BY <1>2 DEF Send
    <2> QED
      BY <2>1, <2>2, CallFits DEF Step, CallsFit
  <1>3. CASE Resend(c)
    <2>1. \/ calls' = calls
          \/ calls' = calls \cup {Call(c, client[c].step, client[c].tries + 1)}
      BY <1>3 DEF Resend
    <2>2. script' = script /\ UNCHANGED runsVars
      BY <1>3 DEF Resend
    <2> QED
      BY <2>1, <2>2, CallFits DEF Step, CallsFit
  <1> QED
    BY <1>1, <1>2, <1>3

LEMMA EveryStep ==
    ASSUME CallsFit, [Next]_vars
    PROVE  Step
  <1>1. CASE UNCHANGED vars
    BY <1>1 DEF vars, callVars, CallsFit, Step
  <1>2. CASE \/ \E p \in Path : WorkOutside(p)
             \/ \E paths \in SUBSET Path : Observe(paths)
             \/ \E old \in SUBSET DOMAIN events : Prune(old)
    BY <1>2, OutsideStep
  <1>3. ASSUME NEW c \in Client, (\E p \in Path : Work(c, p)) \/ Send(c) \/ Resend(c)
        PROVE  Step
    BY <1>3, ClientStep
  <1>4. ASSUME NEW k \in calls,
               \/ SyncPath(k) \/ Obtain(k) \/ Check(k) \/ NotFound(k)
               \/ OpenChange(k) \/ CloseChange(k) \/ Mark(k)
               \/ BeginIntent(k) \/ EndIntent(k) \/ Complete(k)
               \/ PickRun(k) \/ StopRun(k) \/ SaveAnswer(k) \/ Die(k)
        PROVE  Step
    BY <1>4, SyncPathStep, ObtainStep, CheckStep, NotFoundStep, OpenChangeStep,
       CloseChangeStep, MarkStep, BeginIntentStep, EndIntentStep, CompleteStep,
       StopStep, AnswerStep
  <1> QED
    BY <1>1, <1>2, <1>3, <1>4 DEF Next

\* Whatever agents, hooks and people do, what they do to Runs is what the
\* transactions of Runs do, one at a time.
THEOREM ImplementsRuns == Spec => RunsSpec
  <1>1. Init => RunsInit /\ CallsFit
    BY DEF Init, CallsFit
  <1>2. CallsFit /\ [Next]_vars => CallsFit' /\ [RunsNext]_runsVars
    BY EveryStep DEF Step
  <1> QED
    BY <1>1, <1>2, PTL DEF Spec, RunsSpec

\* However many callers there are, and whichever of them die, claims are
\* announced, window Runs are alone with their events, a path has one
\* exclusive owner at most, and Runs that have ended are final.
THEOREM RunsKept ==
    Spec => /\ []ClaimsAnnounced
            /\ []WindowsAlone
            /\ []OneExclusiveOwner
            /\ EndedIsFinal
  BY ImplementsRuns, AnnouncedClaims, WindowsKeptApart, ExclusiveOwners, EndedRunsFinal, PTL

-------------------------------------------------------------------------------
(* Answers                                                                 *)

\* An answer, once saved, is the one everybody is told.
LEMMA ToldStep ==
    ASSUME ToldIsSaved, [Next]_vars
    PROVE  ToldIsSaved'
  <1>1. CASE UNCHANGED <<said, responses>>
    BY <1>1 DEF ToldIsSaved
  <1>2. ASSUME NEW c \in Client, Resend(c) PROVE ToldIsSaved'
    <2> DEFINE again == Call(c, client[c].step, client[c].tries + 1)
    <2>1. /\ responses' = responses
          /\ \/ said' = said
             \/ /\ Key(again) \in DOMAIN responses
                /\ said' = said \cup {[key |-> Key(again), answer |-> responses[Key(again)]]}
      BY <1>2 DEF Resend
    <2> HIDE DEF again
    <2> QED
      BY <2>1 DEF ToldIsSaved
  <1>3. ASSUME NEW k \in calls, SaveAnswer(k) PROVE ToldIsSaved'
    <2>1. /\ Key(k) \in DOMAIN responses'
          /\ \A x \in DOMAIN responses : x \in DOMAIN responses' /\ responses'[x] = responses[x]
      BY <1>3 DEF SaveAnswer
    <2>2. \/ said' = said
          \/ said' = said \cup {[key |-> Key(k), answer |-> responses'[Key(k)]]}
      BY <1>3 DEF SaveAnswer
    <2> QED
      BY <2>1, <2>2 DEF ToldIsSaved
  <1>4. ASSUME NEW c \in Client, (\E p \in Path : Work(c, p)) \/ Send(c)
        PROVE  UNCHANGED <<said, responses>>
    BY <1>4 DEF Work, Touch, Send
  <1>5. ASSUME NEW k \in calls,
               \/ SyncPath(k) \/ Obtain(k) \/ Check(k) \/ NotFound(k)
               \/ OpenChange(k) \/ CloseChange(k) \/ Mark(k)
               \/ BeginIntent(k) \/ EndIntent(k) \/ Complete(k)
               \/ PickRun(k) \/ StopRun(k) \/ Die(k)
        PROVE  UNCHANGED <<said, responses>>
    <2>1. CASE SyncPath(k) \/ Die(k)
      BY <2>1 DEF SyncPath, Die
    <2>2. CASE ~(SyncPath(k) \/ Die(k))
      <3>1. Steady
        BY <1>5, <2>2 DEF Obtain, Check, NotFound, OpenChange, CloseChange, Mark,
                          BeginIntent, EndIntent, Complete, PickRun, StopRun
      <3> QED
        BY <3>1 DEF Steady
    <2> QED
      BY <2>1, <2>2
  <1>6. CASE \/ \E p \in Path : WorkOutside(p)
             \/ \E paths \in SUBSET Path : Observe(paths)
             \/ \E old \in SUBSET DOMAIN events : Prune(old)
    BY <1>1, <1>6 DEF WorkOutside, Touch, Observe, callVars, Prune
  <1>7. CASE UNCHANGED vars
    BY <1>1, <1>7 DEF vars, callVars
  <1> QED
    BY <1>1, <1>2, <1>3, <1>4, <1>5, <1>6, <1>7 DEF Next

\* One key, one answer, whether the event is sent again, sent twice at the
\* same time, or its first call dies between the transaction and the print.
THEOREM AnswersUnique == Spec => []OneAnswerPerKey
  <1>1. Init => ToldIsSaved
    BY DEF Init, ToldIsSaved
  <1>2. ToldIsSaved /\ [Next]_vars => ToldIsSaved'
    BY ToldStep
  <1>3. ToldIsSaved => OneAnswerPerKey
    BY DEF ToldIsSaved, OneAnswerPerKey
  <1> QED
    BY <1>1, <1>2, <1>3, PTL DEF Spec

-------------------------------------------------------------------------------
(* The work of clients.                                                    *)
(*                                                                         *)
(* The invariant follows a client's work on its way: to files, into events *)
(* and under a Run.  What a client made at a step of its script it made    *)
(* before it called again; a call that is about to act has recorded all of *)
(* that; so the fence it reads there lies behind it, and the fence of the  *)
(* call before it in front of it, whoever else is at work in between.      *)

\* The steps of a client's script.
Steps(c) == DOMAIN script[c].steps

\* What is answered under its key, or printed next, or was heard.
Answered(c, i, r) ==
    \/ \E k \in calls : /\ k.pc = "record" /\ k.client = c /\ k.step = i /\ k.run = r
    \/ Tag(c, i) \in DOMAIN responses /\ responses[Tag(c, i)].run = r
    \/ i \in client[c].acked /\ client[c].run = r

\* The client works no more between step i and the next one ...
Past(c, i) == \/ client[c].step > i + 1
              \/ client[c].step = i + 1 /\ client[c].state # "ready"
\* ... and all it did there is recorded, in these events.
Recorded(c, i) == \A p \in Path : Tag(c, i) \notin unseen[p]
Over(c, i) == Past(c, i) /\ Recorded(c, i)
Made(c, i) == {e \in DOMAIN events : Tag(c, i) \in authors[e]}

\* Where clients are, and where their calls.
Client0 == [step : Nat, state : {"ready", "waiting", "refused"}, tries : Nat,
            run : RunId \cup {0}, acked : SUBSET Nat]
Typed ==
    /\ client \in [Client -> Client0]
    /\ \A c \in Client, i \in Nat : Tag(c, i) \in DOMAIN responses =>
          Via(c) = "event" /\ responses[Tag(c, i)].run \in RunId \cup {0}
FilesTyped == DOMAIN unseen = Path /\ DOMAIN authors = DOMAIN events
Position(c) ==
    /\ client[c].step \in Nat \ {0}
    /\ client[c].acked \subseteq Steps(c) \cap (1 .. client[c].step - 1)
    /\ Via(c) # "hook" => client[c].acked = 1 .. client[c].step - 1
    /\ client[c].state = "waiting" => client[c].step \in Steps(c)
CallPosition(k) ==
    /\ k.step \in Steps(k.client)
    /\ k.pc \in {"sync", "apply", "record"} /\ k.run \in RunId \cup {0}
    /\ k.pc = "record" => Via(k.client) = "event"
    /\ k.step <= client[k.client].step
    /\ k.step = client[k.client].step => client[k.client].state # "ready"
    /\ k.step < client[k.client].step => Via(k.client) = "event" \/ KindOf(k) = "begin"
    /\ KindOf(k) = "begin" => k.step < client[k.client].step
\* Only events are sent again, and hosts start no other hook without waiting
\* for it.
OneCall ==
    \A k, j \in calls : k.client = j.client /\ Via(k.client) # "event"
                          /\ KindOf(k) # "begin" /\ KindOf(j) # "begin" => k = j

\* What may be changed by whom.
WorkStep(c, i) ==
    /\ i \in Steps(c)
    /\ \/ Kind(c, i) \in Openers
       \/ i + 1 \in Steps(c) /\ Kind(c, i + 1) = "checkpoint"
Tagged(c, i) ==
    /\ ~Recorded(c, i) \/ Made(c, i) # {} => WorkStep(c, i) /\ i < client[c].step
    /\ Via(c) # "cli" =>
          /\ \A p \in Path \ Announced[c] : Tag(c, i) \notin unseen[p]
          /\ \A e \in Made(c, i) : events[e] \cap Announced[c] # {}

\* What a call has passed is recorded.
Swept(k) ==
    /\ k.pc # "sync" => k.todo = {}
    /\ \A p \in ToSync(k.client, KindOf(k)) \ k.todo :
          \A i \in Nat : i < k.step => Tag(k.client, i) \notin unseen[p]

\* The Run a call goes on with.
Applies(k) ==
    k.pc = "apply" =>
        /\ KindOf(k) \in {"pre", "close", "post", "checkpoint", "stop"}
        /\ k.run \in RunId /\ Started(k.run)
        /\ KindOf(k) # "stop" => /\ runs[k.run].external = ExternalOf(k.client)
                                 /\ runs[k.run].mode = script[k.client].mode

\* An external id is that of one Run.
OneRun ==
    \A r, q \in RunId : Started(r) /\ Started(q) /\ runs[r].external = runs[q].external
                          /\ runs[r].external # NoExternal => r = q

\* No intent starts beyond the last id given out.
IntentsPast == \A n \in intents : n.start <= lastEvent
\* A Run has one active intent at most.
OneIntent ==
    \A n, m \in intents : n.run = m.run /\ n.active /\ m.active => n = m

\* A boundary starts before the work it is about; once it is closed that work
\* is claimed.  It is aborted with its Run.
Brackets(r, c, i) ==
    Kind(c, i) \in {"open", "pre"} /\ boundaries[r][c].status # "none" =>
        /\ boundaries[r][c].paths = Announced[c]
        /\ \A e \in Made(c, i) : boundaries[r][c].start < e
        /\ boundaries[r][c].status = "closed" => Over(c, i) /\ Made(c, i) \subseteq claims[r]
Aborted(r, c) == boundaries[r][c].status = "aborted" => runs[r].status = "ended"

\* A checkpoint covers what its client did before it.
Covers(r, c, i) ==
    Kind(c, i) = "checkpoint" /\ c \in DOMAIN checkpoints[r] =>
        /\ Past(c, i - 1)
        /\ \A j \in 1 .. i : Recorded(c, j) /\ \A e \in Made(c, j) : e <= checkpoints[r][c]

\* What a step that was answered has left behind.
OfRun(c, r) == r \in RunId /\ Started(r) /\ runs[r].external = ExternalOf(c)
\* A client whose intent someone who left out the label may have completed.
Cut(c) == c \in excused /\ Careless
\* An intent covers this step: it was started before the work was made, and
\* ends, if not with the Run, after it.
Intended(c, i, r) ==
    \E n \in intents :
        /\ n.run = r /\ n.label = c
        /\ \A e \in Made(c, i) : n.start < e
        /\ \/ n.active
           \/ runs[r].status = "ended"
           \/ Over(c, i) /\ \A e \in Made(c, i) : e <= n.end
Finished(c, i, r) ==
    /\ Over(c, i)
    /\ \E n \in intents : /\ n.run = r /\ n.label = c /\ ~n.active
                          /\ \A e \in Made(c, i) : n.start < e /\ e <= n.end
Wrapping(c, i, r) ==
    /\ \A e \in Made(c, i) : runs[r].start < e
    /\ \/ runs[r].status = "active"
       \/ c \in excused
       \/ Over(c, i) /\ \A e \in Made(c, i) : e <= runs[r].end
Done(c, i, r) ==
    /\ Kind(c, i) \notin {"begin", "end", "stop"} => OfRun(c, r)
    /\ Kind(c, i) \notin {"begin", "end", "stop", "istart", "idone"} =>
          runs[r].mode = script[c].mode
    /\ Kind(c, i) \in {"open", "pre"} => boundaries[r][c].status # "none"
    /\ Kind(c, i) = "close" => boundaries[r][c].status = "closed"
    /\ Kind(c, i) = "post" => boundaries[r][c].status = "closed" \/ i - 1 \notin client[c].acked
    /\ Kind(c, i) = "istart" => Intended(c, i, r) \/ Cut(c)
    /\ Kind(c, i) = "idone" => Finished(c, i - 1, r) \/ Cut(c)
    /\ Kind(c, i) = "checkpoint" => c \in DOMAIN checkpoints[r]
    /\ Kind(c, i) = "run" => Wrapping(c, i, r)
    /\ Kind(c, i) = "done" => Over(c, i - 1) /\ runs[r].status = "ended"

\* The Run of a client that nobody got in the way of goes on until it ends it,
\* and the client is not refused.
Ending(c) == \E i \in Steps(c) : Kind(c, i) = "complete" /\ Past(c, i - 1)
Lasting(c) ==
    Via(c) = "event" /\ c \notin excused =>
        \A r \in RunId : OfRun(c, r) => runs[r].status = "active" \/ Ending(c)
Welcome(c) ==
    Via(c) = "event" /\ script[c].steps[1] = "start" /\ c \notin excused =>
        \/ client[c].state # "refused"
        \/ ~script[c].named /\ Kind(c, client[c].step) = "idone"

\* Where everybody is ...
CallInv ==
    /\ CallsFit /\ Typed /\ OneCall
    /\ \A c \in Client : Position(c)
    /\ \A k \in calls : CallPosition(k)
\* ... and what that means.
WorkInv ==
    /\ CallInv /\ FilesTyped
    /\ \A c \in Client, i \in Nat : Tagged(c, i)
    /\ \A k \in calls : Swept(k) /\ Applies(k)
    /\ OneRun /\ OneIntent /\ IntentsPast
    /\ \A r \in RunId, c \in Client : Aborted(r, c)
    /\ \A r \in RunId, c \in Client : \A i \in Steps(c) : Brackets(r, c, i) /\ Covers(r, c, i)
    /\ \A c \in Client : \A i \in Steps(c), r \in RunId \cup {0} :
          Answered(c, i, r) => Done(c, i, r)
    /\ \A c \in Client : Lasting(c) /\ Welcome(c)

-------------------------------------------------------------------------------
(* Scripts                                                                 *)

\* What an orderly script has, kind by kind.
LEMMA Scripted ==
    ASSUME script \in Scripts, NEW c \in Client
    PROVE  /\ Via(c) \in {"event", "hook", "cli"}
           /\ ExternalOf(c) \in External \cup {NoExternal}
           /\ script[c].mode \in {"window", "reported"}
           /\ ExternalOf(c) = NoExternal <=> Via(c) = "cli"
           /\ Via(c) = "hook" => script[c].mode = "reported"
           /\ Via(c) = "cli" => script[c].mode = "window"
           /\ Len(script[c].steps) \in Nat /\ Steps(c) = 1 .. Len(script[c].steps)
  <1>1. Orderly(script[c]) /\ script[c].external \in External \cup {NoExternal}
        /\ script[c].mode \in {"window", "reported"}
    BY OrderAssumption, ScriptsAssumption
  <1>2. DOMAIN Vocabulary = {"event", "hook", "cli"}
    BY DEF Vocabulary
  <1>3. script[c].steps \in Seq(Vocabulary[script[c].via])
    BY <1>1 DEF Orderly
  <1>4. /\ Len(script[c].steps) \in Nat
        /\ DOMAIN script[c].steps = 1 .. Len(script[c].steps)
    BY <1>3, LenProperties
  <1> QED
    BY <1>1, <1>2, <1>4 DEF Orderly, Via, ExternalOf, Steps

LEMMA KindsAre ==
    ASSUME script \in Scripts, NEW c \in Client, NEW i \in Steps(c)
    PROVE  /\ Via(c) = "event" => Kind(c, i) \in
                  {"start", "open", "close", "istart", "idone", "checkpoint", "complete"}
           /\ Via(c) = "hook" => Kind(c, i) \in {"begin", "pre", "post", "end"}
           /\ Via(c) = "cli" => Kind(c, i) \in {"run", "done", "stop"}
           /\ i \in Nat \ {0}
           /\ \A j \in Steps(c) : Kind(c, i) = Kind(c, j) => i = j
  <1>1. Orderly(script[c])
    BY OrderAssumption
  <1>2. script[c].steps \in Seq(Vocabulary[Via(c)])
    BY <1>1 DEF Orderly, Via
  <1>3. Kind(c, i) \in Vocabulary[Via(c)]
    BY <1>2, ElementOfSeq, LenProperties DEF Steps, Kind
  <1>4. /\ Vocabulary["event"] =
              {"start", "open", "close", "istart", "idone", "checkpoint", "complete"}
        /\ Vocabulary["hook"] = {"begin", "pre", "post", "end"}
        /\ Vocabulary["cli"] = {"run", "done", "stop"}
    BY DEF Vocabulary
  <1>5. \A j \in Steps(c) : Kind(c, i) = Kind(c, j) => i = j
    BY <1>1 DEF Orderly, Steps, Kind
  <1> QED
    BY <1>3, <1>4, <1>5, Scripted

\* Openers are followed by their closers, and these follow nothing else.
LEMMA Bracketed ==
    ASSUME script \in Scripts, NEW c \in Client, NEW i \in Steps(c)
    PROVE  /\ Kind(c, i) = "close" => i - 1 \in Steps(c) /\ Kind(c, i - 1) = "open"
           /\ Kind(c, i) = "post" => i - 1 \in Steps(c) /\ Kind(c, i - 1) = "pre"
           /\ Kind(c, i) = "idone" => i - 1 \in Steps(c) /\ Kind(c, i - 1) = "istart"
           /\ Kind(c, i) = "done" => i - 1 \in Steps(c) /\ Kind(c, i - 1) = "run"
           /\ i + 1 \in Steps(c) =>
                 /\ Kind(c, i) = "open" => Kind(c, i + 1) = "close"
                 /\ Kind(c, i) = "pre" => Kind(c, i + 1) = "post"
                 /\ Kind(c, i) = "istart" => Kind(c, i + 1) = "idone"
                 /\ Kind(c, i) = "run" => Kind(c, i + 1) = "done"
           /\ Kind(c, i) = "open" => script[c].mode = "reported"
           /\ Kind(c, i) \in {"complete", "stop", "end"} => i = Len(script[c].steps)
           /\ Kind(c, i) \in {"run", "stop"} => i = 1
           /\ Kind(c, i) \in Openers <=> Kind(c, i) \in {"open", "istart", "pre", "run"}
  <1>1. Orderly(script[c])
    BY OrderAssumption
  <1>2. /\ DOMAIN Closer = {"open", "istart", "pre", "run"}
        /\ Closer["open"] = "close" /\ Closer["istart"] = "idone"
        /\ Closer["pre"] = "post" /\ Closer["run"] = "done"
    BY DEF Closer
  <1>3. Closers = {"close", "idone", "post", "done"}
    BY <1>2 DEF Closers
  <1>4. \A j \in Steps(c) :
          /\ Kind(c, j) \in DOMAIN Closer /\ j + 1 \in Steps(c) => Kind(c, j + 1) = Closer[Kind(c, j)]
          /\ Kind(c, j) \in Closers => j - 1 \in Steps(c) /\ Kind(c, j - 1) \in DOMAIN Closer
          /\ Kind(c, j) = "open" => script[c].mode = "reported"
          /\ Kind(c, j) \in {"complete", "stop", "end"} => j = Len(script[c].steps)
          /\ Kind(c, j) \in {"run", "stop"} => j = 1
    BY <1>1 DEF Orderly, Steps, Kind
  <1>5. i \in Nat /\ (i - 1) + 1 = i
    BY Scripted
  <1>6. Kind(c, i) \in Closers => i - 1 \in Steps(c) /\ Kind(c, i - 1) \in DOMAIN Closer
                                  /\ Kind(c, i) = Closer[Kind(c, i - 1)]
    BY <1>4, <1>5
  <1> QED
    BY <1>2, <1>3, <1>4, <1>6 DEF Openers

-------------------------------------------------------------------------------
(* Clients and their calls move on                                         *)

\* No client goes back, and none works again where it has stopped.
Onward ==
    /\ script' = script
    /\ \A c \in Client :
          /\ client'[c].step >= client[c].step
          /\ client'[c].step = client[c].step /\ client[c].state # "ready"
                => client'[c].state # "ready"
          /\ client[c].state = "refused" => client'[c].step = client[c].step
          /\ client'[c].acked \subseteq client[c].acked \cup {client[c].step}

\* A call is new, or goes on where one was, past paths that are recorded.
Begins(k) == k.pc = "sync" /\ k.todo = ToSync(k.client, KindOf(k))
Continues(k, j) ==
    /\ k.client = j.client /\ k.step = j.step /\ k.todo \subseteq j.todo
    /\ \A p \in j.todo \ k.todo : unseen'[p] = {}
    /\ k.pc # "sync" => k.todo = {}
CallsMove == \A k \in calls' : k \in calls \/ Begins(k) \/ \E j \in calls : Continues(k, j)

Moves == CallInv' /\ Onward /\ CallsMove

\* Nothing is answered but this step of this client, in this Run.
NewAnswer(c, i, r, d, j, run) == c = d /\ r = run /\ (i = j \/ i \in client[c].acked)
AnswersGrow(d, j, run) ==
    \A c \in Client : \A i \in Steps(c), r \in RunId \cup {0} :
        Answered(c, i, r)' => Answered(c, i, r) \/ NewAnswer(c, i, r, d, j, run)
AnswersStay ==
    \A c \in Client : \A i \in Steps(c), r \in RunId \cup {0} :
        Answered(c, i, r)' => Answered(c, i, r)

\* No call turns to a Run, or this one does.
NothingApplied == \A k \in calls' : k.pc = "apply" => k \in calls
Applied(d, j, run) ==
    \A k \in calls' : k.pc = "apply" =>
        k \in calls \/ (k.client = d /\ k.step = j /\ k.run = run)

\* No client is refused, or only this one is, which waits for this step.
NoneRefused ==
    \A c \in Client : client'[c].state = "refused" => client[c].state = "refused"
OneRefused(d, j) ==
    \A c \in Client : client'[c].state = "refused" =>
        client[c].state = "refused" \/ (c = d /\ client[c].step = j /\ client'[c].step = j)

Waits(k) == client[k.client].state = "waiting" /\ client[k.client].step = k.step

\* What is known of a client, and of a call.
LEMMA ClientTyped ==
    ASSUME CallInv, NEW c \in Client
    PROVE  /\ client[c] \in Client0 /\ DOMAIN client = Client
           /\ client[c].step \in Nat \ {0} /\ client[c].tries \in Nat
           /\ client[c].state \in {"ready", "waiting", "refused"}
           /\ client[c].run \in RunId \cup {0} /\ client[c].acked \in SUBSET Nat
           /\ client[c].acked \subseteq 1 .. client[c].step - 1
           /\ Via(c) # "hook" => client[c].acked = 1 .. client[c].step - 1
           /\ client[c] = [step |-> client[c].step, state |-> client[c].state,
                           tries |-> client[c].tries, run |-> client[c].run,
                           acked |-> client[c].acked]
  BY DEF CallInv, Typed, Position, Client0

LEMMA CallTyped ==
    ASSUME CallInv, NEW k \in calls
    PROVE  /\ IsCall(k) /\ CallPosition(k) /\ k.client \in Client
           /\ k.step \in Steps(k.client) /\ k.step \in Nat \ {0}
           /\ script \in Scripts
           /\ KindOf(k) = Kind(k.client, k.step) /\ Key(k) = Tag(k.client, k.step)
           /\ Announced[k.client] \subseteq Path
  <1>1. IsCall(k) /\ CallPosition(k) /\ k.client \in Client /\ script \in Scripts
    BY DEF CallInv, CallsFit, IsCall
  <1>2. k.step \in Steps(k.client) /\ k.step \in Nat \ {0}
    BY <1>1, KindsAre DEF CallPosition
  <1> QED
    BY <1>1, <1>2, AnnouncedAssumption DEF KindOf, Key, Tag

\* What a client makes of the end of a call.
LEMMA AdvancedIs ==
    ASSUME CallInv, NEW k, k.client \in Client, k.step \in Nat,
           NEW run \in RunId \cup {0}, NEW ok \in BOOLEAN,
           client' = Advanced(k, run, ok)
    PROVE  /\ client' \in [Client -> Client0]
           /\ \A d \in Client \ {k.client} : client'[d] = client[d]
           /\ ~Waits(k) => client'[k.client] = client[k.client]
           /\ Waits(k) /\ ok =>
                 /\ client'[k.client].step = client[k.client].step + 1
                 /\ client'[k.client].state = "ready"
                 /\ client'[k.client].run = run
                 /\ client'[k.client].acked = client[k.client].acked \cup {k.step}
           /\ Waits(k) /\ ~ok =>
                 /\ client'[k.client].run = client[k.client].run
                 /\ client'[k.client].acked = client[k.client].acked
           /\ Waits(k) /\ ~ok /\ Via(k.client) = "hook" =>
                 /\ client'[k.client].step = client[k.client].step + 1
                 /\ client'[k.client].state = "ready"
           /\ Waits(k) /\ ~ok /\ Via(k.client) # "hook" =>
                 /\ client'[k.client].step = client[k.client].step
                 /\ client'[k.client].state = "refused"
  <1> DEFINE c == k.client
             now == client[c]
  <1>1. /\ now \in Client0 /\ DOMAIN client = Client /\ client \in [Client -> Client0]
        /\ now.step \in Nat /\ now.acked \in SUBSET Nat
    BY ClientTyped DEF CallInv, Typed
  <1>2. PICK b \in Nat : b = now.step + 1
    BY <1>1
  <1>3. PICK A \in SUBSET Nat : A = now.acked \cup {k.step}
    BY <1>1
  <1>4. PICK next : next = [now EXCEPT !.step = b, !.state = "ready"]
    OBVIOUS
  <1>5. PICK acks : acks = [next EXCEPT !.run = run, !.acked = A]
    OBVIOUS
  <1>6. PICK refused : refused = [now EXCEPT !.state = "refused"]
    OBVIOUS
  <1> HIDE DEF now
  <1>7. /\ next \in Client0 /\ acks \in Client0 /\ refused \in Client0
        /\ next.step = b /\ next.state = "ready"
        /\ next.run = now.run /\ next.acked = now.acked
        /\ acks.step = b /\ acks.state = "ready"
        /\ acks.run = run /\ acks.acked = A
        /\ refused.step = now.step /\ refused.state = "refused"
        /\ refused.run = now.run /\ refused.acked = now.acked
    <2>1. /\ next \in Client0 /\ next.step = b /\ next.state = "ready"
          /\ next.run = now.run /\ next.acked = now.acked
      BY <1>1, <1>4 DEF Client0
    <2>2. /\ acks \in Client0 /\ acks.step = next.step /\ acks.state = next.state
          /\ acks.run = run /\ acks.acked = A
      BY <2>1, <1>5 DEF Client0
    <2>3. /\ refused \in Client0 /\ refused.step = now.step /\ refused.state = "refused"
          /\ refused.run = now.run /\ refused.acked = now.acked
      BY <1>1, <1>6 DEF Client0
    <2> QED
      BY <2>1, <2>2, <2>3
  <1> USE DEF now
  <1>8. PICK new \in Client0 :
           /\ client' = [client EXCEPT ![c] = new]
           /\ ~Waits(k) => new = now
           /\ Waits(k) /\ ok => new = acks
           /\ Waits(k) /\ ~ok /\ Via(c) = "hook" => new = next
           /\ Waits(k) /\ ~ok /\ Via(c) # "hook" => new = refused
    <2>1. CASE ~Waits(k)
      <3>1. client' = [client EXCEPT ![c] = now]
        BY <2>1 DEF Advanced, Waits
      <3> QED
        BY <1>1, <2>1, <3>1
    <2>2. CASE Waits(k) /\ ok
      <3>1. client' = [client EXCEPT ![c] = [[now EXCEPT !.step = now.step + 1, !.state = "ready"]
                          EXCEPT !.run = run, !.acked = @ \cup {k.step}]]
        BY <2>2 DEF Advanced, Waits
      <3>2. client' = [client EXCEPT ![c] = [next EXCEPT !.run = run, !.acked = next.acked \cup {k.step}]]
        BY <3>1, <1>2, <1>4
      <3>3. client' = [client EXCEPT ![c] = acks]
        BY <3>2, <1>3, <1>5, <1>7
      <3> QED
        BY <1>7, <2>2, <3>3
    <2>3. CASE Waits(k) /\ ~ok /\ Via(c) = "hook"
      <3>1. client' = [client EXCEPT ![c] = [now EXCEPT !.step = now.step + 1, !.state = "ready"]]
        BY <2>3 DEF Advanced, Waits
      <3>2. client' = [client EXCEPT ![c] = next]
        BY <3>1, <1>2, <1>4
      <3> QED
        BY <1>7, <2>3, <3>2
    <2>4. CASE Waits(k) /\ ~ok /\ Via(c) # "hook"
      <3>1. client' = [client EXCEPT ![c] = refused]
        BY <2>4, <1>6 DEF Advanced, Waits
      <3> QED
        BY <1>7, <2>4, <3>1
    <2> QED
      BY <2>1, <2>2, <2>3, <2>4
  <1>9. client'[c] = new /\ (\A d \in Client \ {c} : client'[d] = client[d])
         /\ client' \in [Client -> Client0]
    BY <1>1, <1>8
  <1> QED
    BY <1>2, <1>3, <1>7, <1>8, <1>9

\* What depends on scripts alone.
LEMMA SameScript ==
    ASSUME script' = script
    PROVE  /\ \A c : Via(c)' = Via(c) /\ Steps(c)' = Steps(c) /\ ExternalOf(c)' = ExternalOf(c)
           /\ \A c, i : Kind(c, i)' = Kind(c, i)
           /\ \A k : KindOf(k)' = KindOf(k)
           /\ \A c : script'[c].mode = script[c].mode
  BY DEF Via, Steps, ExternalOf, Kind, KindOf

\* The client that waited for a call which has ended moves on, or is refused.
LEMMA AdvancedMoves ==
    ASSUME CallInv, CallsFit', Typed', NEW k, k.client \in Client, k.step \in Steps(k.client),
           NEW run \in RunId \cup {0}, NEW ok \in BOOLEAN,
           client' = Advanced(k, run, ok), script' = script, calls' \subseteq calls,
           k \in calls \ calls' \/ Via(k.client) = "event"
    PROVE  /\ Moves /\ NothingApplied
           /\ ok => NoneRefused
           /\ ~ok => OneRefused(k.client, k.step)
  <1>1. k.step \in Nat \ {0}
    BY KindsAre DEF CallInv, CallsFit
  <1>2. /\ client' \in [Client -> Client0]
        /\ \A d \in Client \ {k.client} : client'[d] = client[d]
        /\ ~Waits(k) => client'[k.client] = client[k.client]
        /\ Waits(k) /\ ok =>
              /\ client'[k.client].step = client[k.client].step + 1
              /\ client'[k.client].state = "ready"
              /\ client'[k.client].run = run
              /\ client'[k.client].acked = client[k.client].acked \cup {k.step}
        /\ Waits(k) /\ ~ok =>
              /\ client'[k.client].run = client[k.client].run
              /\ client'[k.client].acked = client[k.client].acked
        /\ Waits(k) /\ ~ok /\ Via(k.client) = "hook" =>
              /\ client'[k.client].step = client[k.client].step + 1
              /\ client'[k.client].state = "ready"
        /\ Waits(k) /\ ~ok /\ Via(k.client) # "hook" =>
              /\ client'[k.client].step = client[k.client].step
              /\ client'[k.client].state = "refused"
    BY <1>1, AdvancedIs
  <1> HIDE DEF Advanced
  <1>3. ASSUME NEW c \in Client
        PROVE  /\ client[c].step \in Nat \ {0}
               /\ client'[c].step = client[c].step \/ client'[c].step = client[c].step + 1
               /\ client[c].acked \subseteq 1 .. client[c].step - 1
               /\ Via(c) # "hook" => client[c].acked = 1 .. client[c].step - 1
    BY <1>2, ClientTyped
  <1>4. Onward
    <2>1. ASSUME NEW c \in Client
          PROVE  /\ client'[c].step >= client[c].step
                 /\ client'[c].step = client[c].step /\ client[c].state # "ready"
                       => client'[c].state # "ready"
                 /\ client[c].state = "refused" => client'[c].step = client[c].step
                 /\ client'[c].acked \subseteq client[c].acked \cup {client[c].step}
      BY <1>2, <1>3 DEF Waits
    <2> QED
      BY <2>1 DEF Onward
  <1>5. ASSUME NEW c \in Client PROVE Position(c)'
    <2>1. client'[c].step \in Nat \ {0} /\ client'[c].acked \subseteq 1 .. client'[c].step - 1
      BY <1>2, <1>3 DEF Waits
    <2>2. ASSUME Via(c) # "hook" PROVE client'[c].acked = 1 .. client'[c].step - 1
      <3>1. \/ client'[c].acked = client[c].acked /\ client'[c].step = client[c].step
            \/ /\ client'[c].acked = client[c].acked \cup {client[c].step}
               /\ client'[c].step = client[c].step + 1
        BY <1>2, <2>2 DEF Waits
      <3>2. \A n \in Nat \ {0} : (1 .. n - 1) \cup {n} = 1 .. (n + 1) - 1
        OBVIOUS
      <3> QED
        BY <1>3, <2>2, <3>1, <3>2
    <2>3. client'[c].state = "waiting" => client'[c].step \in Steps(c)
      BY <1>2 DEF CallInv, Position
    <2> QED
      BY <2>1, <2>2, <2>3, SameScript DEF Position
  <1>6. ASSUME NEW j \in calls' PROVE CallPosition(j)'
    <2>1. /\ j \in calls /\ CallPosition(j) /\ j.client \in Client
          /\ KindOf(j) = Kind(j.client, j.step) /\ j.step \in Nat
      BY CallTyped
    <2>2. j.step <= client'[j.client].step
          /\ (KindOf(j) = "begin" => j.step < client'[j.client].step)
      BY <1>3, <2>1 DEF CallPosition
    <2>3. j.step = client'[j.client].step => client'[j.client].state # "ready"
      BY <1>2, <1>3, <2>1 DEF CallPosition
    <2>4. ASSUME j.step < client'[j.client].step
          PROVE  Via(j.client) = "event" \/ KindOf(j) = "begin"
      <3>1. CASE j.step < client[j.client].step
        BY <2>1, <3>1 DEF CallPosition
      <3>2. CASE j.step >= client[j.client].step
        <4>1. j.step = client[j.client].step /\ j.client = k.client /\ Waits(k)
          BY <1>2, <1>3, <2>1, <2>4, <3>2 DEF CallPosition
        <4>2. j.step = k.step /\ KindOf(j) = KindOf(k)
          BY <4>1 DEF Waits, KindOf
        <4>3. ASSUME Via(k.client) # "event" PROVE KindOf(j) = "begin"
          <5>1. k \in calls /\ k # j
            BY <4>3
          <5> QED
            BY <2>1, <4>1, <4>2, <4>3, <5>1 DEF CallInv, OneCall
        <4> QED
          BY <4>1, <4>3
      <3> QED
        BY <1>3, <2>1, <3>1, <3>2
    <2> QED
      BY <2>1, <2>2, <2>3, <2>4, SameScript DEF CallPosition
  <1>7. OneCall'
    BY SameScript DEF CallInv, OneCall
  <1>8. CallInv'
    BY <1>5, <1>6, <1>7 DEF CallInv
  <1>9. CallsMove /\ NothingApplied
    BY DEF CallsMove, NothingApplied
  <1>10. (ok => NoneRefused) /\ (~ok => OneRefused(k.client, k.step))
    BY <1>2 DEF NoneRefused, OneRefused, Waits
  <1> QED
    BY <1>4, <1>8, <1>9, <1>10 DEF Moves

\* What its client learns when a call has ended.
LEMMA AdvancedAnswers ==
    ASSUME CallInv, NEW k, k.client \in Client, k.step \in Steps(k.client),
           NEW run \in RunId \cup {0}, NEW ok \in BOOLEAN,
           client' = Advanced(k, run, ok), calls' \subseteq calls, script' = script,
           responses' = responses
    PROVE  /\ ok => AnswersGrow(k.client, k.step, run)
           /\ ~ok => AnswersStay
  <1>1. k.step \in Nat \ {0}
    BY KindsAre DEF CallInv, CallsFit
  <1>2. \A c \in Client :
           \/ client'[c].run = client[c].run /\ client'[c].acked = client[c].acked
           \/ /\ ok /\ c = k.client /\ client'[c].run = run
              /\ client'[c].acked = client[c].acked \cup {k.step}
    BY <1>1, AdvancedIs
  <1>3. ASSUME NEW c \in Client, NEW i \in Steps(c), NEW r \in RunId \cup {0}, Answered(c, i, r)',
               ~Answered(c, i, r)
        PROVE  ok /\ NewAnswer(c, i, r, k.client, k.step, run)
    BY <1>2, <1>3 DEF Answered, NewAnswer, Tag
  <1> QED
    BY <1>3, SameScript DEF AnswersGrow, AnswersStay

\* A call ends, with success or without.
LEMMA FinishMoves ==
    ASSUME CallInv, CallsFit', NEW k \in calls, NEW run \in RunId \cup {0}, NEW ok \in BOOLEAN,
           Finish(k, run, ok), script' = script, responses' = responses
    PROVE  /\ Moves /\ NothingApplied
           /\ ok => NoneRefused /\ AnswersGrow(k.client, k.step, run)
           /\ ~ok => OneRefused(k.client, k.step) /\ AnswersStay
  <1>1. k.client \in Client /\ k.step \in Steps(k.client) /\ k.step \in Nat
    BY CallTyped
  <1>2. client' = Advanced(k, run, ok) /\ calls' = calls \ {k}
    BY DEF Finish
  <1>3. Typed'
    <2>1. client' \in [Client -> Client0]
      BY <1>1, <1>2, AdvancedIs
    <2> QED
      BY <2>1, SameScript DEF CallInv, Typed, Tag
  <1> QED
    BY <1>1, <1>2, <1>3, AdvancedMoves, AdvancedAnswers

\* A call goes on.
LEMMA BecomeMoves ==
    ASSUME CallInv, CallsFit', NEW k \in calls, NEW new, Become(k, new),
           client' = client, script' = script, responses' = responses,
           new.pc \in {"sync", "apply", "record"}, new.run \in RunId \cup {0},
           new.pc = "record" => Via(k.client) = "event", Continues(new, k)
    PROVE  /\ Moves /\ NoneRefused
           /\ new.pc # "record" => AnswersStay
           /\ new.pc = "record" => AnswersGrow(k.client, k.step, new.run)
           /\ new.pc # "apply" => NothingApplied
           /\ new.pc = "apply" => Applied(k.client, k.step, new.run)
  <1>1. k.client \in Client /\ k.step \in Steps(k.client) /\ CallPosition(k)
    BY CallTyped
  <1>2. /\ new.client = k.client /\ new.step = k.step /\ KindOf(new) = KindOf(k)
        /\ calls' = (calls \ {k}) \cup {new}
    BY DEF Become, Continues, KindOf
  <1>3. Typed'
    BY SameScript DEF CallInv, Typed, Tag
  <1>4. CallPosition(new)
    BY <1>1, <1>2 DEF CallPosition
  <1>5. \A j \in calls' : CallPosition(j)'
    BY <1>2, <1>4, SameScript DEF CallInv, CallPosition
  <1>6. OneCall'
    <2>1. ASSUME NEW j \in calls', NEW m \in calls', j.client = m.client,
                 Via(j.client) # "event", KindOf(j) # "begin", KindOf(m) # "begin"
          PROVE  j = m
      BY <1>2, <2>1 DEF CallInv, OneCall
    <2> QED
      BY <2>1, SameScript DEF OneCall
  <1>7. \A c \in Client : Position(c)'
    BY SameScript DEF CallInv, Position
  <1>8. CallInv'
    BY <1>3, <1>5, <1>6, <1>7 DEF CallInv
  <1>9. Onward
    <2>1. ASSUME NEW c \in Client PROVE client[c].step \in Nat
      BY ClientTyped
    <2> QED
      BY <2>1 DEF Onward
  <1>10. CallsMove /\ NoneRefused
    BY <1>2 DEF CallsMove, NoneRefused
  <1>11. ASSUME NEW c \in Client, NEW i \in Steps(c), NEW r \in RunId \cup {0}, Answered(c, i, r)',
                ~Answered(c, i, r)
         PROVE  new.pc = "record" /\ NewAnswer(c, i, r, k.client, k.step, new.run)
    BY <1>2, <1>11 DEF Answered, NewAnswer, Tag
  <1>12. /\ new.pc # "apply" => NothingApplied
         /\ new.pc = "apply" => Applied(k.client, k.step, new.run)
    BY <1>2 DEF NothingApplied, Applied
  <1> QED
    BY <1>8, <1>9, <1>10, <1>11, <1>12, SameScript DEF Moves, AnswersGrow, AnswersStay

\* A call succeeds, or goes on with a Run that it has found.
LEMMA SucceedMoves ==
    ASSUME CallInv, CallsFit', NEW k \in calls, NEW run \in RunId \cup {0}, NEW note,
           Succeed(k, run, note), k.todo = {}, script' = script, responses' = responses
    PROVE  /\ Moves /\ NothingApplied /\ NoneRefused
           /\ AnswersGrow(k.client, k.step, run)
  <1>1. CASE Via(k.client) = "event"
    <2>1. PICK new : new = [k EXCEPT !.pc = "record", !.run = run, !.answer = note]
      OBVIOUS
    <2>2. Become(k, new) /\ client' = client
      BY <1>1, <2>1 DEF Succeed
    <2>3. IsCall(k)
      BY CallTyped
    <2>4. /\ new.pc = "record" /\ new.run = run /\ new.client = k.client
          /\ new.step = k.step /\ new.todo = k.todo
      BY <2>1, <2>3 DEF IsCall
    <2>5. Continues(new, k)
      BY <2>4 DEF Continues
    <2> QED
      BY <1>1, <2>2, <2>4, <2>5, BecomeMoves
  <1>2. CASE Via(k.client) # "event"
    <2>1. Finish(k, run, TRUE)
      BY <1>2 DEF Succeed
    <2> QED
      BY <2>1, FinishMoves
  <1> QED
    BY <1>1, <1>2

LEMMA ProceedMoves ==
    ASSUME CallInv, CallsFit', NEW k \in calls, NEW run \in RunId,
           Proceed(k, run), k.todo = {}, script' = script, responses' = responses
    PROVE  /\ Moves /\ NoneRefused /\ AnswersStay
           /\ Applied(k.client, k.step, run)
  <1>1. PICK new : new = [k EXCEPT !.pc = "apply", !.run = run]
    OBVIOUS
  <1>2. Become(k, new) /\ client' = client
    BY <1>1 DEF Proceed
  <1>3. IsCall(k)
    BY CallTyped
  <1>4. /\ new.pc = "apply" /\ new.run = run /\ new.client = k.client
        /\ new.step = k.step /\ new.todo = k.todo
    BY <1>1, <1>3 DEF IsCall
  <1>5. Continues(new, k)
    BY <1>4 DEF Continues
  <1> QED
    BY <1>2, <1>4, <1>5, BecomeMoves

\* A walk passes paths that have not changed, or one that it records.
LEMMA SyncPathMoves ==
    ASSUME CallInv, CallsFit', FilesTyped, NEW k \in calls, SyncPath(k)
    PROVE  Moves /\ NoneRefused /\ AnswersStay /\ NothingApplied
  <1>1. /\ IsCall(k) /\ CallPosition(k)
    BY CallTyped
  <1>2. PICK T : /\ Become(k, [k EXCEPT !.todo = k.todo \ T])
                 /\ \A p \in T : unseen'[p] = {}
    <2> DEFINE clean == {p \in k.todo : unseen[p] = {}}
    <2>1. CASE Become(k, [k EXCEPT !.todo = @ \ clean]) /\ UNCHANGED <<runsVars, fileVars>>
      <3>1. \A p \in clean : unseen'[p] = {}
        BY <2>1 DEF fileVars
      <3> QED
        BY <2>1, <3>1
    <2>2. ASSUME NEW p \in k.todo \ clean,
                 Become(k, [k EXCEPT !.todo = @ \ {p}]), RecordChange({p})
          PROVE  \E T : /\ Become(k, [k EXCEPT !.todo = k.todo \ T])
                        /\ \A q \in T : unseen'[q] = {}
      <3>1. unseen'[p] = {}
        BY <1>1, <2>2 DEF RecordChange, IsCall
      <3>2. \A q \in {p} : unseen'[q] = {}
        BY <3>1
      <3> QED
        BY <2>2, <3>2
    <2> HIDE DEF clean
    <2> QED
      BY <2>1, <2>2 DEF SyncPath, clean
  <1>3. PICK new : new = [k EXCEPT !.todo = k.todo \ T]
    OBVIOUS
  <1>4. /\ new.pc = "sync" /\ new.run = k.run /\ new.client = k.client
        /\ new.step = k.step /\ new.todo = k.todo \ T
    BY <1>1, <1>3 DEF IsCall, SyncPath
  <1>5. Continues(new, k)
    BY <1>2, <1>4 DEF Continues
  <1>6. script' = script /\ client' = client /\ responses' = responses
    BY DEF SyncPath
  <1> QED
    BY <1>1, <1>2, <1>3, <1>4, <1>5, <1>6, BecomeMoves DEF CallPosition

\* A new call of a client that is ready, or of one that waits for an answer.
LEMMA BeginMoves ==
    ASSUME CallInv, CallsFit', NEW c \in Client, NEW try,
           client[c].step \in Steps(c), client' \in [Client -> Client0],
           \A d \in Client \ {c} : client'[d] = client[d],
           calls' = calls \cup {Call(c, client[c].step, try)},
           script' = script, responses' = responses,
           client'[c].run = client[c].run, client'[c].acked = client[c].acked,
           \/ /\ client[c].state = "ready" /\ Kind(c, client[c].step) = "begin"
              /\ client'[c].state = "ready" /\ client'[c].step = client[c].step + 1
           \/ /\ client[c].state = "ready" /\ Kind(c, client[c].step) # "begin"
              /\ client'[c].state = "waiting" /\ client'[c].step = client[c].step
           \/ /\ Via(c) = "event"
              /\ client[c].state = "waiting" /\ client'[c].state = "waiting"
              /\ client'[c].step = client[c].step
    PROVE  Moves /\ NoneRefused /\ AnswersStay /\ NothingApplied
  <1>a. PICK i : i = client[c].step
    OBVIOUS
  <1>b. PICK new : new = Call(c, i, try)
    OBVIOUS
  <1>0. calls' = calls \cup {new}
    BY <1>a, <1>b
  <1>1. /\ new.client = c /\ new.step = i /\ new.pc = "sync" /\ new.run = 0
        /\ new.todo = ToSync(c, Kind(c, i)) /\ KindOf(new) = Kind(c, i)
    BY <1>b DEF Call, KindOf
  <1>2. i \in Nat \ {0} /\ client[c].acked \subseteq 1 .. i - 1
        /\ (Via(c) # "hook" => client[c].acked = 1 .. i - 1)
    BY <1>a, ClientTyped
  <1>3. Kind(c, i) = "begin" => Via(c) = "hook"
    BY <1>a, KindsAre, Scripted DEF CallInv, CallsFit
  <1>4. Typed'
    BY SameScript DEF CallInv, Typed, Tag
  <1>5. Position(c)'
    <2>1. client'[c].acked \subseteq Steps(c)
      BY DEF CallInv, Position
    <2>2. client'[c].acked \subseteq 1 .. client'[c].step - 1
      BY <1>a, <1>2
    <2>3. client'[c].step \in Nat \ {0} /\ (Via(c) # "hook" => client'[c].acked = 1 .. client'[c].step - 1)
          /\ (client'[c].state = "waiting" => client'[c].step \in Steps(c))
      BY <1>a, <1>2, <1>3
    <2> QED
      BY <2>1, <2>2, <2>3, SameScript DEF Position
  <1>6. \A d \in Client : Position(d)'
    BY <1>a, <1>5, SameScript DEF CallInv, Position
  <1>7. ASSUME NEW j \in calls PROVE CallPosition(j)'
    <2>1. CallPosition(j) /\ j.client \in Client /\ j.step \in Nat
      BY CallTyped
    <2>2. j.client = c /\ client[c].state = "ready" => j.step < i
      BY <1>a, <1>2, <2>1 DEF CallPosition
    <2> QED
      BY <1>a, <1>2, <2>1, <2>2, SameScript DEF CallPosition
  <1>8. CallPosition(new)'
    <2>1. /\ i <= client'[c].step /\ (Kind(c, i) = "begin" => i < client'[c].step)
          /\ i = client'[c].step => client'[c].state # "ready"
          /\ i < client'[c].step => Kind(c, i) = "begin"
      BY <1>a, <1>2, <1>3
    <2> QED
      BY <1>a, <1>1, <2>1, SameScript DEF CallPosition
  <1>9. ASSUME NEW j \in calls, j.client = c, Via(c) # "event", KindOf(j) # "begin"
        PROVE  FALSE
    <2>1. CallPosition(j) /\ j.step \in Nat
      BY CallTyped
    <2> QED
      BY <1>a, <1>2, <1>9, <2>1 DEF CallPosition
  <1>10. OneCall'
    <2>1. ASSUME NEW j \in calls', NEW m \in calls', j.client = m.client,
                 Via(j.client) # "event", KindOf(j) # "begin", KindOf(m) # "begin"
          PROVE  j = m
      BY <1>0, <1>a, <1>1, <1>9, <2>1 DEF CallInv, OneCall
    <2> QED
      BY <2>1, SameScript DEF OneCall
  <1>11. CallInv'
    BY <1>0, <1>4, <1>6, <1>7, <1>8, <1>10 DEF CallInv
  <1>12. Onward
    <2>1. ASSUME NEW d \in Client PROVE client[d].step \in Nat
      BY ClientTyped
    <2> QED
      BY <1>a, <1>2, <2>1 DEF Onward
  <1>13. CallsMove /\ NothingApplied
    BY <1>0, <1>1 DEF CallsMove, NothingApplied, Begins
  <1>14. NoneRefused
    BY DEF NoneRefused
  <1>15. ASSUME NEW d \in Client, NEW s \in Steps(d), NEW r \in RunId \cup {0}, Answered(d, s, r)'
         PROVE  Answered(d, s, r)
    BY <1>0, <1>a, <1>1, <1>15 DEF Answered, Tag
  <1> QED
    BY <1>11, <1>12, <1>13, <1>14, <1>15, SameScript DEF Moves, AnswersStay

\* Nothing happens to clients and calls.
LEMMA StillMoves ==
    ASSUME CallInv, CallsFit', UNCHANGED <<script, client, calls, responses>>
    PROVE  Moves /\ NoneRefused /\ AnswersStay /\ NothingApplied
  <1>1. Typed' /\ OneCall'
    BY SameScript DEF CallInv, Typed, OneCall, Tag
  <1>2. (\A c \in Client : Position(c)') /\ \A k \in calls' : CallPosition(k)'
    BY SameScript DEF CallInv, Position, CallPosition
  <1>3. Onward
    <2>1. ASSUME NEW c \in Client PROVE client[c].step \in Nat
      BY ClientTyped
    <2> QED
      BY <2>1 DEF Onward
  <1>4. AnswersStay
    BY SameScript DEF AnswersStay, Answered, Tag
  <1> QED
    BY <1>1, <1>2, <1>3, <1>4 DEF Moves, CallInv, CallsMove, NoneRefused, NothingApplied

\* A client sends its next call.
LEMMA SendMoves ==
    ASSUME CallInv, CallsFit', NEW c \in Client, Send(c)
    PROVE  Moves /\ NoneRefused /\ AnswersStay /\ NothingApplied
  <1>1. PICK row \in Client0 : row = client[c]
    BY ClientTyped
  <1>2. PICK i \in Nat : i = row.step
    BY <1>1, ClientTyped
  <1>3. PICK j \in Nat : j = i + 1
    OBVIOUS
  <1>4. /\ row.state = "ready" /\ i \in Steps(c) /\ script' = script /\ responses' = responses
        /\ calls' = calls \cup {Call(c, client[c].step, 1)}
    BY <1>1, <1>2 DEF Send, Steps
  <1>5. DOMAIN client = Client /\ client \in [Client -> Client0]
    BY ClientTyped DEF CallInv, Typed
  <1>6. CASE Kind(c, i) = "begin"
    <2>1. client' = [client EXCEPT ![c].step = j]
      BY <1>1, <1>2, <1>3, <1>6 DEF Send
    <2>2. PICK new : new = [row EXCEPT !.step = j]
      OBVIOUS
    <2>3. /\ new \in Client0 /\ new.step = j /\ new.state = row.state /\ new.run = row.run
          /\ new.acked = row.acked
      BY <2>2 DEF Client0
    <2>4. client' = [client EXCEPT ![c] = new]
      BY <1>1, <2>1, <2>2
    <2>5. /\ client'[c] = new /\ \A d \in Client \ {c} : client'[d] = client[d]
          /\ client' \in [Client -> Client0]
      BY <1>5, <2>3, <2>4
    <2> QED
      BY <1>1, <1>2, <1>3, <1>4, <1>6, <2>3, <2>5, BeginMoves
  <1>7. CASE Kind(c, i) # "begin"
    <2>1. client' = [client EXCEPT ![c].state = "waiting", ![c].tries = 1]
      BY <1>1, <1>2, <1>7 DEF Send
    <2>2. PICK new : new = [row EXCEPT !.state = "waiting", !.tries = 1]
      OBVIOUS
    <2>3. /\ new \in Client0 /\ new.step = row.step /\ new.state = "waiting"
          /\ new.run = row.run /\ new.acked = row.acked
      BY <2>2 DEF Client0
    <2>4. client' = [client EXCEPT ![c] = new]
      BY <1>1, <1>5, <2>1, <2>2
    <2>5. /\ client'[c] = new /\ \A d \in Client \ {c} : client'[d] = client[d]
          /\ client' \in [Client -> Client0]
      BY <1>5, <2>3, <2>4
    <2> QED
      BY <1>1, <1>2, <1>4, <1>7, <2>3, <2>5, BeginMoves
  <1> QED
    BY <1>6, <1>7

\* The answer that was saved, or another call.
LEMMA ResendMoves ==
    ASSUME CallInv, CallsFit', NEW c \in Client, Resend(c)
    PROVE  /\ Moves /\ NoneRefused /\ NothingApplied
           /\ \/ AnswersStay
              \/ \E i \in Steps(c), r \in RunId \cup {0} :
                    i = client[c].step /\ Answered(c, i, r) /\ AnswersGrow(c, i, r)
  <1>1. PICK row \in Client0 : row = client[c]
    BY ClientTyped
  <1>2. PICK i \in Nat : i = row.step
    BY <1>1, ClientTyped
  <1>3. /\ row.state = "waiting" /\ i \in Steps(c) /\ script' = script /\ responses' = responses
        /\ Via(c) = "event"
    BY <1>1, <1>2 DEF Resend, CallInv, Position
  <1>4. DOMAIN client = Client /\ client \in [Client -> Client0]
    BY ClientTyped DEF CallInv, Typed
  <1>5. PICK again : again = Call(c, i, client[c].tries + 1)
    OBVIOUS
  <1>6. again.client = c /\ again.step = i /\ Key(again) = Tag(c, i)
    BY <1>5 DEF Call, Key, Tag
  <1>7. CASE Key(again) \in DOMAIN responses
    <2>1. client' = Advanced(again, responses[Tag(c, i)].run, TRUE) /\ calls' = calls
      BY <1>1, <1>2, <1>5, <1>6, <1>7 DEF Resend
    <2>2. PICK r \in RunId \cup {0} : r = responses[Tag(c, i)].run
      BY <1>6, <1>7 DEF CallInv, Typed
    <2>3. Answered(c, i, r)
      BY <1>6, <1>7, <2>2 DEF Answered
    <2>4. client' \in [Client -> Client0]
      BY <1>6, <2>1, <2>2, AdvancedIs
    <2>5. Typed'
      BY <1>3, <2>4, SameScript DEF CallInv, Typed, Tag
    <2>6. Moves /\ NoneRefused /\ NothingApplied /\ AnswersGrow(c, i, r)
      BY <1>3, <1>6, <2>1, <2>2, <2>5, AdvancedMoves, AdvancedAnswers
    <2> QED
      BY <1>1, <1>2, <1>3, <2>3, <2>6
  <1>8. CASE Key(again) \notin DOMAIN responses
    <2>1. /\ calls' = calls \cup {Call(c, client[c].step, client[c].tries + 1)}
          /\ client' = [client EXCEPT ![c].tries = @ + 1]
      BY <1>1, <1>2, <1>5, <1>8 DEF Resend
    <2>2. PICK t \in Nat : t = row.tries + 1
      <3>1. row.tries \in Nat
        BY DEF Client0
      <3> QED
        BY <3>1
    <2>3. PICK new : new = [row EXCEPT !.tries = t]
      OBVIOUS
    <2>4. /\ new \in Client0 /\ new.step = row.step /\ new.state = row.state
          /\ new.run = row.run /\ new.acked = row.acked
      BY <2>3 DEF Client0
    <2>5. client' = [client EXCEPT ![c] = new]
      BY <1>1, <2>1, <2>2, <2>3
    <2>6. /\ client'[c] = new /\ \A d \in Client \ {c} : client'[d] = client[d]
          /\ client' \in [Client -> Client0]
      BY <1>4, <2>4, <2>5
    <2> QED
      BY <1>1, <1>2, <1>3, <2>1, <2>4, <2>6, BeginMoves
  <1> QED
    BY <1>7, <1>8

\* A call ends and its client hears nothing.
LEMMA DropMoves ==
    ASSUME CallInv, CallsFit', Typed', NEW k \in calls, calls' = calls \ {k},
           client' = client, script' = script
    PROVE  Moves /\ NoneRefused /\ NothingApplied
  <1>1. OneCall'
    BY SameScript DEF CallInv, OneCall
  <1>2. (\A c \in Client : Position(c)') /\ \A j \in calls' : CallPosition(j)'
    BY SameScript DEF CallInv, Position, CallPosition
  <1>3. Onward
    <2>1. ASSUME NEW c \in Client PROVE client[c].step \in Nat
      BY ClientTyped
    <2> QED
      BY <2>1 DEF Onward
  <1> QED
    BY <1>1, <1>2, <1>3 DEF Moves, CallInv, CallsMove, NoneRefused, NothingApplied

\* What a call has to say is saved under its key, unless something is.
LEMMA SaveMoves ==
    ASSUME CallInv, CallsFit', NEW k \in calls, SaveAnswer(k)
    PROVE  /\ Moves /\ NoneRefused /\ NothingApplied
           /\ Answered(k.client, k.step, k.run) /\ AnswersGrow(k.client, k.step, k.run)
  <1>1. /\ k.client \in Client /\ k.step \in Steps(k.client) /\ k.run \in RunId \cup {0}
        /\ Via(k.client) = "event" /\ Key(k) = Tag(k.client, k.step)
        /\ k.step \in Nat
    BY CallTyped DEF SaveAnswer, CallPosition
  <1>2. /\ script' = script /\ calls' = calls \ {k}
        /\ client' = Advanced(k, k.run, TRUE) \/ client' = client
    BY DEF SaveAnswer, Finish
  <1>3. /\ DOMAIN responses' = DOMAIN responses \cup {Key(k)}
        /\ \A x \in DOMAIN responses' :
              \/ x \in DOMAIN responses /\ responses'[x] = responses[x]
              \/ x = Key(k) /\ responses'[x].run = k.run
    <2>1. CASE Key(k) \in DOMAIN responses
      BY <2>1 DEF SaveAnswer
    <2>2. CASE Key(k) \notin DOMAIN responses
      <3>1. responses' = [x \in DOMAIN responses \cup {Key(k)} |->
                             IF x = Key(k) THEN [run |-> k.run, note |-> k.answer]
                             ELSE responses[x]]
        BY <2>2 DEF SaveAnswer
      <3> QED
        BY <3>1
    <2> QED
      BY <2>1, <2>2
  <1>4. Answered(k.client, k.step, k.run)
    BY DEF Answered, SaveAnswer
  <1>5. \A c, d, i, j : Tag(c, i) = Tag(d, j) => c = d /\ i = j
    BY DEF Tag
  <1>6. client' \in [Client -> Client0]
    BY <1>1, <1>2, AdvancedIs DEF CallInv, Typed
  <1>7. Typed'
    <2>1. ASSUME NEW c \in Client, NEW i \in Nat, Tag(c, i) \in DOMAIN responses'
          PROVE  Via(c) = "event" /\ responses'[Tag(c, i)].run \in RunId \cup {0}
      BY <1>1, <1>3, <1>5, <2>1 DEF CallInv, Typed
    <2> QED
      BY <1>2, <1>6, <2>1, SameScript DEF Typed, Tag
  <1>8. \A c \in Client : \A i \in Steps(c), r \in RunId \cup {0} :
           (\/ \E j \in calls' : j.pc = "record" /\ j.client = c /\ j.step = i /\ j.run = r
            \/ Tag(c, i) \in DOMAIN responses' /\ responses'[Tag(c, i)].run = r)
           => Answered(c, i, r) \/ NewAnswer(c, i, r, k.client, k.step, k.run)
    BY <1>1, <1>2, <1>3, <1>5 DEF Answered, NewAnswer
  <1>9. \A c \in Client :
           \/ client'[c].run = client[c].run /\ client'[c].acked = client[c].acked
           \/ /\ c = k.client /\ client'[c].run = k.run
              /\ client'[c].acked = client[c].acked \cup {k.step}
    BY <1>1, <1>2, AdvancedIs
  <1>10. \A c \in Client : \A i \in Steps(c), r \in RunId \cup {0} :
            i \in client'[c].acked /\ client'[c].run = r
            => Answered(c, i, r) \/ NewAnswer(c, i, r, k.client, k.step, k.run)
    BY <1>9 DEF Answered, NewAnswer
  <1>11. AnswersGrow(k.client, k.step, k.run)
    <2>1. ASSUME NEW c \in Client, NEW i \in Steps(c), NEW r \in RunId \cup {0},
                 Answered(c, i, r)'
          PROVE  Answered(c, i, r) \/ NewAnswer(c, i, r, k.client, k.step, k.run)
      <3>1. \/ \E j \in calls' : j.pc = "record" /\ j.client = c /\ j.step = i /\ j.run = r
            \/ Tag(c, i) \in DOMAIN responses' /\ responses'[Tag(c, i)].run = r
            \/ i \in client'[c].acked /\ client'[c].run = r
        BY <2>1 DEF Answered, Tag
      <3> QED
        BY <1>8, <1>10, <3>1
    <2> QED
      BY <2>1 DEF AnswersGrow
  <1>12. CASE client' = client
    BY <1>2, <1>4, <1>7, <1>11, <1>12, DropMoves
  <1>13. CASE client' = Advanced(k, k.run, TRUE)
    BY <1>1, <1>2, <1>4, <1>7, <1>11, <1>13, AdvancedMoves
  <1> QED
    BY <1>2, <1>12, <1>13

\* A call dies; whoever waits for a hook or a command learns of it.
LEMMA DieMoves ==
    ASSUME CallInv, CallsFit', NEW k \in calls, Die(k)
    PROVE  /\ Moves /\ NothingApplied /\ AnswersStay
           /\ Via(k.client) = "event" => NoneRefused
           /\ OneRefused(k.client, k.step)
  <1>1. /\ k.client \in Client /\ k.step \in Steps(k.client) /\ k.run \in RunId \cup {0}
        /\ k.step \in Nat
    BY CallTyped DEF CallPosition
  <1>2. /\ script' = script /\ calls' = calls \ {k} /\ responses' = responses
        /\ client' = IF Via(k.client) = "event" THEN client ELSE Advanced(k, k.run, FALSE)
    BY DEF Die
  <1>3. CASE Via(k.client) = "event"
    <2>1. client' = client
      BY <1>2, <1>3
    <2>2. Typed'
      BY <1>2, <2>1, SameScript DEF CallInv, Typed, Tag
    <2>3. AnswersStay
      BY <1>2, <2>1, SameScript DEF AnswersStay, Answered, Tag
    <2> QED
      BY <1>2, <2>1, <2>2, <2>3, DropMoves DEF NoneRefused, OneRefused
  <1>4. CASE Via(k.client) # "event"
    <2>1. client' = Advanced(k, k.run, FALSE)
      BY <1>2, <1>4
    <2> QED
      BY <1>2, <1>1, <1>4, <2>1, FinishMoves DEF Finish
  <1> QED
    BY <1>3, <1>4

-------------------------------------------------------------------------------
(* Files                                                                   *)

\* Events stay what they are until they are pruned; a new one records what was
\* unseen, and what becomes unseen is somebody's work.
FilesGo ==
    /\ FilesTyped'
    /\ \A e \in DOMAIN events' :
          \/ e \in DOMAIN events /\ events'[e] = events[e] /\ authors'[e] = authors[e]
          \/ /\ e = lastEvent + 1
             /\ \A t \in authors'[e] : \E p \in events'[e] : t \in unseen[p]
    /\ \A p \in Path : \A t \in unseen'[p] :
          \/ t \in unseen[p]
          \/ t = Outsider
          \/ \E c \in Client : /\ Working(c) /\ t = Tag(c, client[c].step - 1)
                               /\ Via(c) # "cli" => p \in Announced[c]

\* Nothing happens to files and events, a change is recorded, events are
\* pruned, a file is changed.
LEMMA FilesStill ==
    ASSUME FilesTyped, UNCHANGED <<events, fileVars>>
    PROVE  FilesGo
  BY DEF FilesTyped, FilesGo, fileVars

LEMMA RecordGo ==
    ASSUME FilesTyped, TypeInv, NEW paths \in SUBSET Path, RecordChange(paths)
    PROVE  FilesGo
  <1>1. lastEvent \in Nat /\ DOMAIN events \subseteq 1 .. lastEvent
    BY DEF TypeInv, RunsTypeOK
  <1>2. /\ lastEvent' = lastEvent + 1
        /\ events' = [e \in DOMAIN events \cup {lastEvent + 1} |->
                          IF e = lastEvent + 1 THEN paths ELSE events[e]]
        /\ unseen' = [p \in Path |-> IF p \in paths THEN {} ELSE unseen[p]]
        /\ authors' = [e \in DOMAIN authors \cup {lastEvent'} |->
                          IF e = lastEvent' THEN UNION {unseen[p] : p \in paths}
                          ELSE authors[e]]
    BY DEF RecordChange, InsertEvent
  <1>3. FilesTyped'
    BY <1>2 DEF FilesTyped
  <1>4. ASSUME NEW e \in DOMAIN events'
        PROVE  \/ e \in DOMAIN events /\ events'[e] = events[e] /\ authors'[e] = authors[e]
               \/ /\ e = lastEvent + 1
                  /\ \A t \in authors'[e] : \E p \in events'[e] : t \in unseen[p]
    <2>1. CASE e = lastEvent + 1
      <3>1. events'[e] = paths /\ authors'[e] = UNION {unseen[p] : p \in paths}
        BY <1>2, <2>1
      <3> QED
        BY <2>1, <3>1
    <2>2. CASE e # lastEvent + 1
      <3>1. e \in DOMAIN events /\ e \in DOMAIN authors
        BY <1>2, <2>2 DEF FilesTyped
      <3> QED
        BY <1>2, <2>2, <3>1
    <2> QED
      BY <2>1, <2>2
  <1>5. \A p \in Path : unseen'[p] \subseteq unseen[p]
    BY <1>2
  <1> QED
    BY <1>3, <1>4, <1>5 DEF FilesGo

LEMMA PruneGo ==
    ASSUME FilesTyped, NEW old, Prune(old)
    PROVE  FilesGo
  <1>1. /\ events' = [e \in DOMAIN events \ old |-> events[e]]
        /\ authors' = [e \in DOMAIN events \ old |-> authors[e]]
        /\ unseen' = unseen
    BY DEF Prune, DropEvents
  <1> QED
    BY <1>1 DEF FilesTyped, FilesGo

LEMMA TouchGo ==
    ASSUME FilesTyped, NEW p \in Path, NEW t, Touch(p, t),
           \/ t = Outsider
           \/ \E c \in Client : /\ Working(c) /\ t = Tag(c, client[c].step - 1)
                                /\ Via(c) # "cli" => p \in Announced[c]
    PROVE  FilesGo
  <1>1. /\ unseen' = [unseen EXCEPT ![p] = @ \cup {t}]
        /\ UNCHANGED <<events, authors>>
    BY DEF Touch, runsVars
  <1>2. FilesTyped'
    BY <1>1 DEF FilesTyped
  <1>3. \A q \in Path : unseen'[q] = unseen[q] \/ (q = p /\ unseen'[q] = unseen[q] \cup {t})
    BY <1>1 DEF FilesTyped
  <1> QED
    BY <1>1, <1>2, <1>3 DEF FilesGo, FilesTyped

\* What becomes of a client's work at one step of its script.
LEMMA WorkGoes ==
    ASSUME FilesGo, TypeInv, TypeInv', NEW c \in Client, NEW i \in Nat
    PROVE  /\ Recorded(c, i) => Recorded(c, i)' \/ (Working(c) /\ i = client[c].step - 1)
           /\ \A e \in Made(c, i)' :
                 \/ e \in Made(c, i) /\ events'[e] = events[e]
                 \/ /\ ~Recorded(c, i) /\ e = lastEvent + 1
                    /\ \E p \in Path : p \in events'[e] /\ Tag(c, i) \in unseen[p]
           /\ \A p \in Path : Tag(c, i) \in unseen'[p] =>
                 \/ Tag(c, i) \in unseen[p]
                 \/ /\ Working(c) /\ i = client[c].step - 1
                    /\ Via(c) # "cli" => p \in Announced[c]
           /\ \A e \in Made(c, i) : e \in Nat /\ e <= lastEvent
           /\ lastEvent \in Nat
  <1>1. Tag(c, i) # Outsider
    BY DEF Tag, Outsider
  <1>2. \A d, j : Tag(c, i) = Tag(d, j) => c = d /\ i = j
    BY DEF Tag
  <1>3. lastEvent \in Nat /\ DOMAIN events \subseteq 1 .. lastEvent
        /\ \A e \in DOMAIN events' : events'[e] \subseteq Path
    BY DEF TypeInv, RunsTypeOK
  <1>4. \A p \in Path : Tag(c, i) \in unseen'[p] =>
                 \/ Tag(c, i) \in unseen[p]
                 \/ /\ Working(c) /\ i = client[c].step - 1
                    /\ Via(c) # "cli" => p \in Announced[c]
    BY <1>1, <1>2 DEF FilesGo
  <1>5. Recorded(c, i) => Recorded(c, i)' \/ (Working(c) /\ i = client[c].step - 1)
    BY <1>4 DEF Recorded, Tag
  <1>6. ASSUME NEW e \in Made(c, i)'
        PROVE  \/ e \in Made(c, i) /\ events'[e] = events[e]
               \/ /\ ~Recorded(c, i) /\ e = lastEvent + 1
                  /\ \E p \in Path : p \in events'[e] /\ Tag(c, i) \in unseen[p]
    <2>1. e \in DOMAIN events' /\ Tag(c, i) \in authors'[e]
      BY DEF Made, Tag
    <2> QED
      BY <1>3, <2>1 DEF FilesGo, Made, Recorded
  <1> QED
    BY <1>3, <1>4, <1>5, <1>6 DEF Made

\* A client works only at a step where work may be done.
LEMMA WorkingWhere ==
    ASSUME CallInv, NEW c \in Client, NEW i \in Nat, Working(c), i = client[c].step - 1
    PROVE  WorkStep(c, i) /\ i < client[c].step /\ ~Past(c, i)
  <1>1. client[c].step \in Nat
    BY ClientTyped
  <1> QED
    BY <1>1 DEF Working, WorkStep, Past, Steps

\* What was made was made by those who may.
LEMMA TaggedStays ==
    ASSUME CallInv, CallInv', Onward, FilesGo, TypeInv, TypeInv', NEW c \in Client, NEW i \in Nat,
           Tagged(c, i)
    PROVE  Tagged(c, i)'
  <1>1. /\ client[c].step \in Nat /\ client'[c].step \in Nat
        /\ client'[c].step >= client[c].step
    BY ClientTyped DEF Onward, CallInv, Typed, Client0
  <1>0. script' = script /\ Via(c)' = Via(c)
    BY SameScript DEF Onward
  <1>3. WorkStep(c, i) => WorkStep(c, i)'
    BY <1>0 DEF WorkStep, Steps, Kind
  <1>2. ASSUME ~Recorded(c, i)' \/ Made(c, i)' # {}
        PROVE  WorkStep(c, i)' /\ i < client'[c].step
    <2>1. CASE ~Recorded(c, i) \/ Made(c, i) # {}
      <3>1. WorkStep(c, i) /\ i < client[c].step
        BY <2>1 DEF Tagged
      <3> QED
        BY <1>1, <1>3, <3>1
    <2>2. CASE Recorded(c, i) /\ Made(c, i) = {}
      <3>1. Working(c) /\ i = client[c].step - 1
        BY <1>2, <2>2, WorkGoes
      <3> QED
        BY <1>1, <1>3, <3>1, WorkingWhere
    <2> QED
      BY <2>1, <2>2
  <1>4. ASSUME Via(c) # "cli"
        PROVE  /\ \A p \in Path \ Announced[c] : Tag(c, i) \notin unseen'[p]
               /\ \A e \in Made(c, i)' : events'[e] \cap Announced[c] # {}
    <2>1. /\ \A p \in Path \ Announced[c] : Tag(c, i) \notin unseen[p]
          /\ \A e \in Made(c, i) : events[e] \cap Announced[c] # {}
      BY <1>4 DEF Tagged
    <2>2. ASSUME NEW e \in Made(c, i)' PROVE events'[e] \cap Announced[c] # {}
      BY <2>1, <2>2, WorkGoes
    <2> QED
      BY <1>4, <2>1, <2>2, WorkGoes
  <1> QED
    BY <1>0, <1>2, <1>4 DEF Tagged, Tag

\* What is over stays over.
LEMMA PastStays ==
    ASSUME CallInv, CallInv', Onward, NEW c \in Client, NEW i \in Int, Past(c, i)
    PROVE  Past(c, i)'
  <1>1. client[c].step \in Nat /\ client'[c].step \in Nat
    BY ClientTyped DEF CallInv, Typed, Client0
  <1> QED
    BY <1>1 DEF Onward, Past

LEMMA OverStays ==
    ASSUME CallInv, CallInv', Onward, FilesGo, TypeInv, TypeInv', NEW c \in Client, NEW i \in Nat,
           Past(c, i), Recorded(c, i)
    PROVE  /\ Past(c, i)' /\ Recorded(c, i)' /\ Over(c, i)'
           /\ Made(c, i)' \subseteq Made(c, i)
  <1>1. ~(Working(c) /\ i = client[c].step - 1)
    BY WorkingWhere
  <1>2. Recorded(c, i)' /\ Made(c, i)' \subseteq Made(c, i)
    BY <1>1, WorkGoes
  <1> QED
    BY <1>2, PastStays DEF Over

\* What a call has passed stays recorded.
LEMMA SweptStays ==
    ASSUME Moves, CallInv, FilesGo, TypeInv, TypeInv',
           \A k \in calls : Swept(k), NEW k \in calls'
    PROVE  Swept(k)'
  <1>1. script' = script /\ KindOf(k)' = KindOf(k)
    BY SameScript DEF Moves, Onward
  <1>2. ASSUME NEW j \in calls, Continues(k, j)
        PROVE  Swept(k)'
    <2>1. CallPosition(j) /\ j.client \in Client /\ j.step \in Nat /\ KindOf(k) = KindOf(j)
          /\ k.client = j.client /\ k.step = j.step /\ k.todo \subseteq j.todo
          /\ ToSync(k.client, KindOf(k)) \subseteq Path
      <3>1. ToSync(k.client, KindOf(k)) \subseteq Path
        BY <1>2, CallTyped DEF Continues, ToSync
      <3> QED
        BY <1>2, <3>1, CallTyped DEF Continues, KindOf
    <2>2. ASSUME NEW p \in ToSync(k.client, KindOf(k)) \ k.todo, NEW i \in Nat, i < k.step
          PROVE  Tag(k.client, i) \notin unseen'[p]
      <3>1. CASE p \in j.todo
        BY <1>2, <2>1, <2>2, <3>1 DEF Continues
      <3>2. CASE p \notin j.todo
        <4>1. Tag(k.client, i) \notin unseen[p]
          BY <2>1, <2>2, <3>2 DEF Swept
        <4>2. client[k.client].step \in Nat
          BY <2>1, ClientTyped
        <4>3. ~(Working(k.client) /\ i = client[k.client].step - 1)
          BY <2>1, <2>2, <4>2 DEF CallPosition, Working
        <4> QED
          BY <2>1, <2>2, <4>1, <4>3, WorkGoes
      <3> QED
        BY <3>1, <3>2
    <2>3. k.pc # "sync" => k.todo = {}
      BY <1>2 DEF Continues
    <2> QED
      BY <1>1, <2>2, <2>3 DEF Swept, Tag
  <1>3. CASE k \in calls
    <2>1. Continues(k, k)
      BY <1>3 DEF Continues, Swept
    <2> QED
      BY <1>2, <1>3, <2>1
  <1>4. CASE Begins(k)
    BY <1>1, <1>4 DEF Begins, Swept
  <1> QED
    BY <1>2, <1>3, <1>4 DEF Moves, CallsMove

-------------------------------------------------------------------------------
(* What no step takes back from a Run                                      *)

\* A Run keeps what it is; one that has ended does not change.
RunsStay ==
    \A r \in RunId : Started(r) =>
        /\ Started(r)' /\ runs'[r].external = runs[r].external
        /\ runs'[r].mode = runs[r].mode /\ runs'[r].start = runs[r].start
        /\ runs[r].status = "ended" => runs'[r] = runs[r]
\* A boundary keeps its start and paths; one that is over does not change.
BoundariesStay ==
    \A r \in RunId, c \in Change :
        /\ boundaries[r][c].status # "none" =>
              /\ boundaries'[r][c].status # "none"
              /\ boundaries'[r][c].start = boundaries[r][c].start
              /\ boundaries'[r][c].paths = boundaries[r][c].paths
        /\ boundaries[r][c].status \in {"closed", "aborted"} =>
              boundaries'[r][c] = boundaries[r][c]
\* Claims go only with their events.
ClaimsStay == \A r \in RunId : claims[r] \cap DOMAIN events' \subseteq claims'[r]
\* An intent once it is ended now.
Closed(n) == [n EXCEPT !.active = FALSE, !.end = MaxEventId]
\* Intents are only ended.
IntentsStay ==
    \A n \in intents : n \in intents' \/ (n.active /\ Closed(n) \in intents')
\* Checkpoints stay where they are.
CheckpointsStay ==
    \A r \in RunId : \A n \in DOMAIN checkpoints[r] :
        n \in DOMAIN checkpoints'[r] /\ checkpoints'[r][n] = checkpoints[r][n]
RunsGo == RunsStay /\ BoundariesStay /\ ClaimsStay /\ IntentsStay /\ CheckpointsStay

\* What an intent is once it is ended.
LEMMA ClosedIs ==
    ASSUME RunsTypeOK, NEW n \in intents
    PROVE  /\ Closed(n).run = n.run /\ Closed(n).label = n.label /\ ~Closed(n).active
           /\ Closed(n).start = n.start /\ Closed(n).end = MaxEventId
           /\ n.active \in BOOLEAN /\ n.start \in Nat /\ n.end \in Nat /\ n.run \in RunId
  BY DEF RunsTypeOK, Intent, Closed

\* Ending the active intents leaves the others alone.
LEMMA CompletedStay ==
    ASSUME NEW r, intents' = CompletedIntents(ActiveIntents(r))
    PROVE  /\ IntentsStay
           /\ \A n \in intents' : n \in intents \/ \E m \in intents : n = Closed(m)
           /\ \A n \in intents' : n \in intents =>
                 n \notin ActiveIntents(r) \/ \E m \in intents : n = Closed(m)
           /\ \A n \in ActiveIntents(r) : Closed(n) \in intents'
  <1>1. \A n \in intents :
           IF n \in ActiveIntents(r) THEN Closed(n) \in intents' ELSE n \in intents'
    BY DEF CompletedIntents, Closed
  <1>2. \A n \in intents' : \E m \in intents :
           n = IF m \in ActiveIntents(r) THEN Closed(m) ELSE m
    BY DEF CompletedIntents, Closed
  <1>3. \A n \in ActiveIntents(r) : n \in intents /\ n.active
    BY DEF ActiveIntents
  <1>4. IntentsStay
    BY <1>1, <1>3 DEF IntentsStay
  <1>5. /\ \A n \in intents' : n \in intents \/ \E m \in intents : n = Closed(m)
        /\ \A n \in intents' : n \in intents =>
                 n \notin ActiveIntents(r) \/ \E m \in intents : n = Closed(m)
        /\ \A n \in ActiveIntents(r) : Closed(n) \in intents'
    BY <1>1, <1>2, <1>3
  <1> QED
    BY <1>4, <1>5

\* Each transaction of Runs in turn.
LEMMA CompleteRunGo ==
    ASSUME RunsTypeOK, NEW r \in RunId, CompleteRun(r)
    PROVE  /\ RunsGo
           /\ runs'[r].status = "ended" /\ runs'[r].end = MaxEventId
           /\ \A q \in RunId \ {r} : runs'[q] = runs[q]
           /\ \A q \in RunId, c \in Change :
                 \/ boundaries'[q][c] = boundaries[q][c]
                 \/ /\ q = r /\ boundaries[q][c].status = "open"
                    /\ boundaries'[q][c].status = "aborted"
                    /\ boundaries'[q][c].start = boundaries[q][c].start
                    /\ boundaries'[q][c].paths = boundaries[q][c].paths
  <1>1. /\ runs'[r].status = "ended" /\ runs'[r].end = MaxEventId
        /\ runs'[r].external = runs[r].external /\ runs'[r].mode = runs[r].mode
        /\ runs'[r].start = runs[r].start /\ runs[r].status = "active"
        /\ \A q \in RunId \ {r} : runs'[q] = runs[q]
    BY DEF CompleteRun, RunsTypeOK, Run, ActiveRuns
  <1>2. RunsStay
    BY <1>1 DEF RunsStay, Started
  <1>3. ASSUME NEW q \in RunId, NEW c \in Change
        PROVE  \/ boundaries'[q][c] = boundaries[q][c]
               \/ /\ q = r /\ boundaries[q][c].status = "open"
                  /\ boundaries'[q][c].status = "aborted"
                  /\ boundaries'[q][c].start = boundaries[q][c].start
                  /\ boundaries'[q][c].paths = boundaries[q][c].paths
    <2>1. boundaries[r][c] \in Boundary /\ boundaries[q][c] \in Boundary
      BY DEF RunsTypeOK
    <2>2. q = r => boundaries'[q][c] = IF boundaries[r][c].status = "open"
                                       THEN [boundaries[r][c] EXCEPT !.status = "aborted"]
                                       ELSE boundaries[r][c]
      BY DEF CompleteRun, RunsTypeOK
    <2>3. q # r => boundaries'[q] = boundaries[q]
      BY DEF CompleteRun, RunsTypeOK
    <2> QED
      BY <2>1, <2>2, <2>3 DEF Boundary
  <1>4. BoundariesStay
    BY <1>3 DEF BoundariesStay
  <1>5. ClaimsStay
    <2>1. claims' = claims \/ claims' = [claims EXCEPT ![r] = @ \cup Between(runs[r].start, MaxEventId)]
      BY DEF CompleteRun
    <2> QED
      BY <2>1 DEF ClaimsStay, RunsTypeOK
  <1>6. IntentsStay
    BY CompletedStay DEF CompleteRun
  <1>7. CheckpointsStay
    BY DEF CheckpointsStay, CompleteRun
  <1> QED
    BY <1>1, <1>2, <1>3, <1>4, <1>5, <1>6, <1>7 DEF RunsGo

LEMMA StartRunGo ==
    ASSUME RunsTypeOK, NEW r \in RunId, NEW x, NEW mode, StartRun(r, x, mode)
    PROVE  /\ RunsGo /\ Started(r)' /\ runs'[r].status = "active" /\ runs'[r].external = x
           /\ runs'[r].mode = mode /\ runs'[r].start = MaxEventId
           /\ \A q \in RunId \ {r} : runs'[q] = runs[q]
  <1>1. /\ runs'[r] = [status |-> "active", mode |-> mode, external |-> x,
                       start |-> MaxEventId, end |-> 0]
        /\ \A q \in RunId \ {r} : runs'[q] = runs[q]
        /\ runs[r].status = "absent"
        /\ UNCHANGED <<events, boundaries, claims, intents, checkpoints>>
    BY DEF StartRun, RunsTypeOK
  <1>2. RunsStay
    BY <1>1 DEF RunsStay, Started
  <1>3. BoundariesStay /\ ClaimsStay /\ IntentsStay /\ CheckpointsStay
    BY <1>1 DEF BoundariesStay, ClaimsStay, IntentsStay, CheckpointsStay
  <1> QED
    BY <1>1, <1>2, <1>3 DEF RunsGo, Started

LEMMA OpenBoundaryGo ==
    ASSUME RunsTypeOK, NEW r \in RunId, NEW c \in Change, NEW paths, OpenBoundary(r, c, paths)
    PROVE  /\ RunsGo
           /\ boundaries'[r][c].status = "open" /\ boundaries'[r][c].start = MaxEventId
           /\ boundaries'[r][c].paths = paths
           /\ \A q \in RunId, d \in Change :
                 (q = r /\ d = c) \/ boundaries'[q][d] = boundaries[q][d]
  <1>1. /\ boundaries[r][c].status = "none"
        /\ boundaries'[r][c] = [status |-> "open", start |-> MaxEventId, end |-> 0,
                                paths |-> paths]
        /\ \A q \in RunId, d \in Change :
              (q = r /\ d = c) \/ boundaries'[q][d] = boundaries[q][d]
        /\ UNCHANGED <<events, runs, claims, intents, checkpoints>>
    BY DEF OpenBoundary, RunsTypeOK
  <1>2. BoundariesStay
    <2>1. ASSUME NEW q \in RunId, NEW d \in Change, boundaries[q][d].status # "none"
          PROVE  boundaries'[q][d] = boundaries[q][d]
      BY <1>1, <2>1
    <2> QED
      BY <2>1 DEF BoundariesStay
  <1>3. RunsStay /\ ClaimsStay /\ IntentsStay /\ CheckpointsStay
    BY <1>1 DEF RunsStay, Started, ClaimsStay, IntentsStay, CheckpointsStay
  <1> QED
    BY <1>1, <1>2, <1>3 DEF RunsGo

LEMMA CloseBoundaryGo ==
    ASSUME RunsTypeOK, NEW r \in RunId, NEW c \in Change, NEW paths, CloseBoundary(r, c, paths)
    PROVE  /\ RunsGo
           /\ boundaries'[r][c].status = "closed"
           /\ boundaries'[r][c].start = boundaries[r][c].start
           /\ boundaries'[r][c].paths = boundaries[r][c].paths
           /\ \A e \in DOMAIN events : /\ boundaries[r][c].start < e
                                       /\ events[e] \cap boundaries[r][c].paths # {}
                 => e \in claims'[r]
           /\ \A q \in RunId, d \in Change :
                 (q = r /\ d = c) \/ boundaries'[q][d] = boundaries[q][d]
  <1>1. /\ boundaries[r][c].status = "open"
        /\ claims' = [claims EXCEPT ![r] = @ \cup Claimable(boundaries[r][c], MaxEventId)]
        /\ boundaries' = [boundaries EXCEPT ![r][c].status = "closed", ![r][c].end = MaxEventId]
        /\ UNCHANGED <<events, runs, intents, checkpoints>>
    BY DEF CloseBoundary
  <1>2. /\ claims'[r] = claims[r] \cup Claimable(boundaries[r][c], MaxEventId)
        /\ \A q \in RunId : claims[q] \subseteq claims'[q]
    BY <1>1 DEF RunsTypeOK
  <1>3. PICK b \in Boundary : b = boundaries[r][c]
    BY DEF RunsTypeOK
  <1>4. PICK new : new = [b EXCEPT !.status = "closed", !.end = MaxEventId]
    OBVIOUS
  <1>5. new.status = "closed" /\ new.start = b.start /\ new.paths = b.paths
    BY <1>4 DEF Boundary
  <1>6. boundaries' = [boundaries EXCEPT ![r] = [boundaries[r] EXCEPT ![c] = new]]
    BY <1>1, <1>3, <1>4 DEF RunsTypeOK
  <1>7. /\ boundaries'[r][c] = new
        /\ \A q \in RunId, d \in Change :
              (q = r /\ d = c) \/ boundaries'[q][d] = boundaries[q][d]
    BY <1>6 DEF RunsTypeOK
  <1>8. BoundariesStay
    <2>1. ASSUME NEW q \in RunId, NEW d \in Change
          PROVE  \/ boundaries'[q][d] = boundaries[q][d]
                 \/ /\ boundaries[q][d].status = "open" /\ boundaries'[q][d].status = "closed"
                    /\ boundaries'[q][d].start = boundaries[q][d].start
                    /\ boundaries'[q][d].paths = boundaries[q][d].paths
      BY <1>1, <1>3, <1>5, <1>7
    <2> QED
      BY <2>1 DEF BoundariesStay
  <1>9. RunsStay /\ ClaimsStay /\ IntentsStay /\ CheckpointsStay
    BY <1>1, <1>2 DEF RunsStay, Started, ClaimsStay, IntentsStay, CheckpointsStay
  <1>10. \A e \in DOMAIN events : /\ boundaries[r][c].start < e
                                  /\ events[e] \cap boundaries[r][c].paths # {}
                 => e \in claims'[r]
    BY <1>2, MaxEventIdGreatest DEF Claimable, Between
  <1> QED
    BY <1>3, <1>5, <1>7, <1>8, <1>9, <1>10 DEF RunsGo

LEMMA CreateCheckpointGo ==
    ASSUME TypeInv, NEW r \in RunId, NEW n, CreateCheckpoint(r, n)
    PROVE  /\ RunsGo
           /\ n \in DOMAIN checkpoints'[r] /\ checkpoints'[r][n] = MaxEventId
           /\ \A q \in RunId : \A m \in DOMAIN checkpoints'[q] :
                 (q = r /\ m = n)
                    \/ (m \in DOMAIN checkpoints[q] /\ checkpoints'[q][m] = checkpoints[q][m])
  <1>1. DOMAIN checkpoints = RunId
    BY DEF TypeInv
  <1>2. /\ checkpoints'[r] = [m \in DOMAIN checkpoints[r] \cup {n} |->
                                 IF m = n THEN MaxEventId ELSE checkpoints[r][m]]
        /\ \A q \in RunId \ {r} : checkpoints'[q] = checkpoints[q]
        /\ n \notin DOMAIN checkpoints[r]
        /\ UNCHANGED <<events, runs, boundaries, claims, intents>>
    BY <1>1 DEF CreateCheckpoint
  <1>3. CheckpointsStay
    BY <1>2 DEF CheckpointsStay
  <1>4. RunsStay /\ BoundariesStay /\ ClaimsStay /\ IntentsStay
    BY <1>2 DEF RunsStay, Started, BoundariesStay, ClaimsStay, IntentsStay
  <1> QED
    BY <1>2, <1>3, <1>4 DEF RunsGo

LEMMA IntentGo ==
    ASSUME NEW r \in RunId, NEW n, StartIntent(r, n) \/ CompleteIntent(r, n)
    PROVE  RunsGo
  <1>1. UNCHANGED <<events, runs, boundaries, claims, checkpoints>>
    BY DEF StartIntent, CompleteIntent
  <1>2. IntentsStay
    BY CompletedStay DEF StartIntent, CompleteIntent, IntentsStay
  <1> QED
    BY <1>1, <1>2 DEF RunsGo, RunsStay, Started, BoundariesStay, ClaimsStay, CheckpointsStay

LEMMA EventsGo ==
    ASSUME RunsTypeOK,
           UNCHANGED runsVars \/ (\E paths : InsertEvent(paths)) \/ (\E old : DropEvents(old))
    PROVE  RunsGo /\ UNCHANGED <<runs, boundaries, intents, checkpoints>>
  <1>1. UNCHANGED <<runs, boundaries, intents, checkpoints>>
    BY DEF runsVars, InsertEvent, DropEvents
  <1>2. ClaimsStay
    BY DEF ClaimsStay, runsVars, InsertEvent, DropEvents
  <1> QED
    BY <1>1, <1>2 DEF RunsGo, RunsStay, Started, BoundariesStay, IntentsStay, CheckpointsStay

-------------------------------------------------------------------------------
(* What calls do to Runs                                                   *)

\* A call ends a Run, which gets in the way of its other clients.
Ends(k, r) ==
    /\ KindOf(k) \in {"complete", "end", "done", "stop"} /\ CompleteRun(r)
    /\ excused' = excused \cup {c \in Client \ {k.client} : ExternalOf(c) = runs[r].external}
\* A call completes its own intent, or whatever intent is active.
Cuts(k, x) ==
    x = k.client \/ (Careless /\ k.client \in excused' /\ (x \in Client => x \in excused'))
\* A call does something to a Run.
Acts(k, r) ==
    \/ /\ KindOf(k) \in {"start", "run", "begin", "pre"}
       /\ StartRun(r, ExternalOf(k.client), script[k.client].mode)
    \/ Ends(k, r)
    \/ /\ KindOf(k) \in {"open", "pre"} /\ OfRun(k.client, r)
       /\ OpenBoundary(r, k.client, Announced[k.client])
    \/ /\ KindOf(k) \in {"close", "post"}
       /\ CloseBoundary(r, k.client, Announced[k.client])
    \/ KindOf(k) = "checkpoint" /\ CreateCheckpoint(r, k.client)
    \/ KindOf(k) = "istart" /\ StartIntent(r, k.client)
    \/ KindOf(k) = "idone" /\ \E x \in Name : CompleteIntent(r, x) /\ Cuts(k, x)
\* What a step does to the tables of Runs.
Effect ==
    /\ excused \subseteq excused'
    /\ \/ UNCHANGED runsVars \/ (\E paths : InsertEvent(paths)) \/ (\E old : DropEvents(old))
       \/ \E k \in calls, r \in RunId : k.todo = {} /\ Acts(k, r)

\* A step, and where it starts.
Ground == WorkInv /\ IInv /\ IInv' /\ Moves /\ FilesGo /\ Effect

\* The names that clients give to what they change.
LEMMA Names ==
    ASSUME CallInv, NEW k \in calls
    PROVE  k.client \in Change /\ k.client \in Name
  BY CallTyped, ClientAssumption

\* No step takes anything back from a Run.
LEMMA GroundGo ==
    ASSUME Ground
    PROVE  RunsGo
  <1>1. RunsTypeOK /\ TypeInv
    BY DEF Ground, IInv, TypeInv
  <1>2. ASSUME NEW k \in calls, NEW r \in RunId, Acts(k, r) PROVE RunsGo
    BY <1>1, <1>2, StartRunGo, CompleteRunGo, OpenBoundaryGo, CloseBoundaryGo,
       CreateCheckpointGo, IntentGo, Names DEF Acts, Ends, Ground, WorkInv
  <1> QED
    BY <1>1, <1>2, EventsGo DEF Ground, Effect

\* These parts of the invariant hold after a step that goes on from where it
\* held.
LEMMA OneRunStays ==
    ASSUME Ground
    PROVE  OneRun'
  <1>1. RunsTypeOK /\ OneRun /\ RunsGo
    BY GroundGo DEF Ground, IInv, TypeInv, WorkInv
  <1>2. CASE UNCHANGED runs
    BY <1>1, <1>2 DEF OneRun, Started
  <1>3. ASSUME NEW q \in RunId, NEW x, NEW mode, StartRun(q, x, mode)
        PROVE  OneRun'
    <2>1. /\ \A r \in RunId \ {q} : runs'[r] = runs[r]
          /\ runs'[q].external = x /\ (x # NoExternal => Known(x) = {})
      <3>1. x # NoExternal => Known(x) = {}
        BY <1>3 DEF StartRun
      <3> QED
        BY <1>1, <1>3, <3>1, StartRunGo
    <2> QED
      BY <1>1, <2>1 DEF OneRun, Started, Known
  <1>4. ASSUME NEW q \in RunId, CompleteRun(q)
        PROVE  OneRun'
    <2>1. /\ \A r \in RunId \ {q} : runs'[r] = runs[r]
          /\ Started(q) /\ runs'[q].external = runs[q].external
      BY <1>1, <1>4, CompleteRunGo DEF CompleteRun, ActiveRuns, RunsGo, RunsStay, Started
    <2> QED
      BY <1>1, <2>1 DEF OneRun, Started
  <1>5. \/ UNCHANGED runs
        \/ \E q \in RunId : CompleteRun(q) \/ \E x, mode : StartRun(q, x, mode)
    BY DEF Ground, Effect, Acts, Ends, runsVars, InsertEvent, DropEvents, OpenBoundary,
       CloseBoundary, CreateCheckpoint, StartIntent, CompleteIntent
  <1> QED
    BY <1>2, <1>3, <1>4, <1>5

LEMMA OneIntentStays ==
    ASSUME Ground
    PROVE  OneIntent'
  <1>1. RunsTypeOK /\ OneIntent
    BY DEF Ground, IInv, TypeInv, WorkInv
  <1>2. CASE UNCHANGED intents
    BY <1>1, <1>2 DEF OneIntent
  <1>3. ASSUME NEW r \in RunId, intents' = CompletedIntents(ActiveIntents(r)) PROVE OneIntent'
    <2>1. \A n \in intents' : n.active => n \in intents
      BY <1>1, <1>3, CompletedStay, ClosedIs
    <2> QED
      BY <1>1, <2>1 DEF OneIntent
  <1>4. ASSUME NEW r \in RunId, NEW n, StartIntent(r, n) PROVE OneIntent'
    <2>1. PICK new : /\ intents' = intents \cup {new} /\ new.run = r
                     /\ \A m \in intents : m.run = r => ~m.active
      <3>0. PICK new : new = [run |-> r, label |-> n, active |-> TRUE,
                              start |-> MaxEventId, end |-> 0]
        OBVIOUS
      <3>1. intents' = intents \cup {new} /\ new.run = r
        BY <1>4, <3>0 DEF StartIntent
      <3>2. \A m \in intents : m.run = r => ~m.active
        BY <1>4 DEF StartIntent, ActiveIntents
      <3> QED
        BY <3>1, <3>2
    <2> QED
      BY <1>1, <2>1 DEF OneIntent
  <1>5. \/ UNCHANGED intents
        \/ \E r \in RunId : \/ intents' = CompletedIntents(ActiveIntents(r))
                            \/ \E n : StartIntent(r, n)
    <2>1. ASSUME NEW k \in calls, NEW r \in RunId, Acts(k, r), intents' # intents
          PROVE  intents' = CompletedIntents(ActiveIntents(r)) \/ StartIntent(r, k.client)
      BY <2>1 DEF Acts, Ends, StartRun, CompleteRun, OpenBoundary, CloseBoundary,
         CreateCheckpoint, CompleteIntent
    <2>2. UNCHANGED runsVars \/ (\E paths : InsertEvent(paths)) \/ (\E old : DropEvents(old))
             => UNCHANGED intents
      BY DEF runsVars, InsertEvent, DropEvents
    <2> QED
      BY <2>1, <2>2 DEF Ground, Effect
  <1> QED
    BY <1>2, <1>3, <1>4, <1>5

LEMMA AbortedStays ==
    ASSUME Ground, NEW r \in RunId, NEW c \in Change, Aborted(r, c)
    PROVE  Aborted(r, c)'
  <1>1. RunsTypeOK /\ RunsGo /\ NotStarted
    BY GroundGo DEF Ground, IInv, TypeInv
  <1>2. boundaries[r][c].status = "aborted" => runs'[r].status = "ended"
    BY <1>1 DEF Aborted, RunsGo, RunsStay, Started
  <1>3. ASSUME boundaries[r][c].status # "aborted", boundaries'[r][c].status = "aborted"
        PROVE  runs'[r].status = "ended"
    <2>1. CASE UNCHANGED boundaries
      BY <1>3, <2>1
    <2>2. ASSUME NEW k \in calls, NEW q \in RunId, Acts(k, q) PROVE runs'[r].status = "ended"
      <3>1. k.client \in Change
        BY Names DEF Ground, WorkInv
      <3>2. CASE CompleteRun(q)
        BY <1>1, <1>3, <3>2, CompleteRunGo
      <3>3. CASE OpenBoundary(q, k.client, Announced[k.client])
        BY <1>1, <1>3, <3>1, <3>3, OpenBoundaryGo
      <3>4. CASE CloseBoundary(q, k.client, Announced[k.client])
        BY <1>1, <1>3, <3>1, <3>4, CloseBoundaryGo
      <3> QED
        BY <1>3, <2>2, <3>2, <3>3, <3>4 DEF Acts, Ends, StartRun, CreateCheckpoint,
           StartIntent, CompleteIntent
    <2> QED
      BY <2>1, <2>2 DEF Ground, Effect, runsVars, InsertEvent, DropEvents
  <1> QED
    BY <1>2, <1>3 DEF Aborted

-------------------------------------------------------------------------------
(* What a call can count on                                                *)

LEMMA CallPast ==
    ASSUME CallInv, NEW k \in calls, NEW i \in Int, i < k.step
    PROVE  Past(k.client, i)
  <1>1. /\ CallPosition(k) /\ k.step \in Nat /\ client[k.client].step \in Nat
    BY CallTyped, ClientTyped
  <1> QED
    BY <1>1 DEF CallPosition, Past

\* All that its client did before is recorded when a call is about to act,
\* except at the end of a session.
LEMMA CallOver ==
    ASSUME WorkInv, NEW k \in calls, k.todo = {}, KindOf(k) # "end", NEW i \in Nat, i < k.step
    PROVE  /\ Past(k.client, i) /\ Recorded(k.client, i) /\ Over(k.client, i)
  <1>1. k.client \in Client /\ KindOf(k) = Kind(k.client, k.step) /\ k.step \in Steps(k.client)
        /\ script \in Scripts
    BY CallTyped DEF WorkInv
  <1>2. Past(k.client, i)
    BY CallPast DEF WorkInv
  <1>3. \A p \in ToSync(k.client, KindOf(k)) : Tag(k.client, i) \notin unseen[p]
    BY DEF WorkInv, Swept
  <1>4. KindOf(k) \notin {"pre", "post"} => ToSync(k.client, KindOf(k)) = Path
    BY DEF ToSync
  <1>5. KindOf(k) \in {"pre", "post"} =>
           Via(k.client) = "hook" /\ ToSync(k.client, KindOf(k)) = Announced[k.client]
    BY <1>1, KindsAre, Scripted DEF ToSync
  <1>6. Tagged(k.client, i)
    BY <1>1 DEF WorkInv
  <1>7. Recorded(k.client, i)
    BY <1>3, <1>4, <1>5, <1>6 DEF Recorded, Tagged
  <1> QED
    BY <1>2, <1>7 DEF Over

\* Nothing was made of what is still to be done.
LEMMA NoneYet ==
    ASSUME WorkInv, NEW c \in Client, NEW i \in Nat, client[c].step <= i \/ ~WorkStep(c, i)
    PROVE  Made(c, i) = {} /\ Recorded(c, i)
  <1>1. client[c].step \in Nat /\ Tagged(c, i)
    BY ClientTyped DEF WorkInv
  <1> QED
    BY <1>1 DEF Tagged

-------------------------------------------------------------------------------
(* Boundaries, checkpoints and Runs of clients                             *)

\* A client has one change.
LEMMA Openings ==
    ASSUME script \in Scripts, NEW c \in Client, NEW i \in Steps(c), NEW j \in Steps(c),
           Kind(c, i) \in {"open", "pre"}
    PROVE  /\ Kind(c, j) \in {"open", "pre"} => i = j
           /\ Kind(c, j) \in {"close", "post"} => i = j - 1
           /\ Via(c) \in {"event", "hook"} /\ ExternalOf(c) # NoExternal
  <1>1. /\ i \in Nat \ {0} /\ j \in Nat \ {0}
        /\ Kind(c, i) = "open" <=> Via(c) = "event"
        /\ Kind(c, i) = "pre" <=> Via(c) = "hook"
        /\ Kind(c, j) \in {"open", "close"} => Via(c) = "event"
        /\ Kind(c, j) \in {"pre", "post"} => Via(c) = "hook"
    BY KindsAre, Scripted
  <1>2. Kind(c, j) \in {"open", "pre"} => i = j
    BY <1>1, KindsAre
  <1>3. ASSUME Kind(c, j) \in {"close", "post"} PROVE i = j - 1
    <2>1. j - 1 \in Steps(c) /\ Kind(c, j - 1) = Kind(c, i)
      BY <1>1, <1>3, Bracketed
    <2> QED
      BY <2>1, KindsAre
  <1> QED
    BY <1>1, <1>2, <1>3, Scripted

\* All that a client is answered is about one Run.
LEMMA AnsweredOne ==
    ASSUME WorkInv, NEW c \in Client, NEW i \in Steps(c), NEW r \in RunId, OfRun(c, r),
           NEW q \in RunId \cup {0}, Answered(c, i, q), Via(c) # "cli",
           Kind(c, i) \notin {"begin", "end", "stop"}
    PROVE  q = r
  <1>1. Done(c, i, q)
    BY DEF WorkInv
  <1>2. OfRun(c, q) /\ ExternalOf(c) # NoExternal
    BY <1>1, Scripted DEF Done, WorkInv, CallInv, CallsFit
  <1> QED
    BY <1>2 DEF OfRun, WorkInv, OneRun

\* A boundary is opened before the work it is about.
LEMMA OpenedFirst ==
    ASSUME WorkInv, NEW k \in calls, KindOf(k) \in {"open", "pre"}, NEW r \in RunId,
           OfRun(k.client, r), boundaries[r][k.client].status = "none"
    PROVE  k.step = client[k.client].step
  <1> DEFINE c == k.client
             i == k.step
  <1>1. /\ c \in Client /\ i \in Steps(c) /\ Kind(c, i) \in {"open", "pre"} /\ i \in Nat \ {0}
        /\ CallPosition(k) /\ script \in Scripts /\ CallInv
    BY CallTyped DEF WorkInv
  <1>2. ASSUME i < client[c].step PROVE FALSE
    <2>1. Via(c) = "event"
      BY <1>1, <1>2 DEF CallPosition
    <2>2. client[c].acked = 1 .. client[c].step - 1 /\ client[c].step \in Nat
          /\ client[c].run \in RunId \cup {0}
      BY <1>1, <2>1, ClientTyped
    <2>3. i \in client[c].acked
      BY <1>1, <1>2, <2>2
    <2>4. Answered(c, i, client[c].run)
      BY <2>3 DEF Answered
    <2>5. Done(c, i, client[c].run)
      BY <1>1, <2>2, <2>4 DEF WorkInv
    <2>6. client[c].run = r
      BY <1>1, <2>1, <2>2, <2>4, AnsweredOne
    <2> QED
      BY <1>1, <2>5, <2>6 DEF Done
  <1>3. client[c].step \in Nat
    BY <1>1, ClientTyped
  <1> QED
    BY <1>1, <1>2, <1>3 DEF CallPosition

\* A boundary is opened before the work, and closed after it.
LEMMA BracketsStay ==
    ASSUME Ground, NEW r \in RunId, NEW c \in Client, NEW i \in Steps(c)
    PROVE  Brackets(r, c, i)'
  <1>1. /\ RunsTypeOK /\ TypeInv /\ TypeInv' /\ RunsGo /\ FencesPast /\ WorkInv /\ CallInv
        /\ CallInv' /\ Onward /\ script' = script /\ script \in Scripts /\ FilesGo
        /\ Brackets(r, c, i) /\ c \in Change
    BY GroundGo, ClientAssumption DEF Ground, IInv, TypeInv, WorkInv, Moves, CallInv, CallsFit,
       Onward
  <1>2. i \in Nat
    BY <1>1, KindsAre
  <1>3. Tagged(c, i)
    BY <1>1, <1>2 DEF WorkInv
  <1> SUFFICES ASSUME Kind(c, i) \in {"open", "pre"}, boundaries'[r][c].status # "none"
               PROVE  /\ boundaries'[r][c].paths = Announced[c]
                      /\ \A e \in Made(c, i)' : boundaries'[r][c].start < e
                      /\ boundaries'[r][c].status = "closed" =>
                            Over(c, i)' /\ Made(c, i)' \subseteq claims'[r]
    BY <1>1, SameScript DEF Brackets
  <1>4. Over(c, i) => Over(c, i)' /\ Made(c, i)' \subseteq Made(c, i)
    BY <1>1, <1>2, OverStays DEF Over
  <1>5. CASE /\ boundaries[r][c].status # "none"
             /\ boundaries'[r][c].start = boundaries[r][c].start
             /\ boundaries'[r][c].paths = boundaries[r][c].paths
             /\ boundaries'[r][c].status = "closed" => boundaries[r][c].status = "closed"
    <2>1. ASSUME NEW e \in Made(c, i)' PROVE boundaries'[r][c].start < e
      <3>1. e \in Made(c, i) \/ e = lastEvent + 1
        BY <1>1, <1>2, WorkGoes
      <3>2. boundaries[r][c].start <= lastEvent /\ lastEvent \in Nat /\ boundaries[r][c].start \in Nat
        BY <1>1 DEF FencesPast, RunsTypeOK, Boundary
      <3> QED
        BY <1>1, <1>5, <3>1, <3>2 DEF Brackets
    <2>2. ASSUME boundaries'[r][c].status = "closed"
          PROVE  Over(c, i)' /\ Made(c, i)' \subseteq claims'[r]
      <3>1. Over(c, i) /\ Made(c, i) \subseteq claims[r]
        BY <1>1, <1>5, <2>2 DEF Brackets
      <3>2. Made(c, i)' \subseteq DOMAIN events'
        BY DEF Made
      <3> QED
        BY <1>1, <1>4, <3>1, <3>2 DEF RunsGo, ClaimsStay
    <2> QED
      BY <1>1, <1>5, <2>1, <2>2 DEF Brackets
  <1>6. ASSUME NEW k \in calls, k.todo = {}, k.client = c, KindOf(k) \in {"open", "pre"},
               OfRun(c, r), OpenBoundary(r, c, Announced[c])
        PROVE  /\ boundaries'[r][c].paths = Announced[c]
               /\ \A e \in Made(c, i)' : boundaries'[r][c].start < e
               /\ boundaries'[r][c].status # "closed"
    <2>1. k.step \in Steps(c) /\ Kind(c, k.step) \in {"open", "pre"}
      BY <1>1, <1>6, CallTyped
    <2>2. k.step = i
      BY <1>1, <2>1, Openings
    <2>3. boundaries[r][c].status = "none"
      BY <1>6 DEF OpenBoundary
    <2>4. client[c].step = i
      BY <1>1, <1>6, <2>2, <2>3, OpenedFirst
    <2>5. Made(c, i) = {} /\ Recorded(c, i)
      <3>1. client[c].step <= i
        BY <1>2, <2>4
      <3> QED
        BY <1>1, <1>2, <3>1, NoneYet
    <2>6. Made(c, i)' = {}
      BY <1>1, <1>2, <2>5, WorkGoes
    <2> QED
      BY <1>1, <1>6, <2>6, OpenBoundaryGo
  <1>7. ASSUME NEW k \in calls, k.todo = {}, k.client = c, KindOf(k) \in {"close", "post"},
               CloseBoundary(r, c, Announced[c])
        PROVE  /\ boundaries'[r][c].paths = Announced[c]
               /\ \A e \in Made(c, i)' : boundaries'[r][c].start < e
               /\ Over(c, i)' /\ Made(c, i)' \subseteq claims'[r]
    <2>1. k.step \in Steps(c) /\ Kind(c, k.step) \in {"close", "post"} /\ k.step \in Nat
      BY <1>1, <1>7, CallTyped
    <2>2. i = k.step - 1
      BY <1>1, <2>1, Openings
    <2>3. Over(c, i)
      <3>1. i < k.step /\ KindOf(k) # "end"
        BY <1>2, <1>7, <2>1, <2>2
      <3> QED
        BY <1>1, <1>2, <1>7, <3>1, CallOver
    <2>4. boundaries[r][c].status = "open"
      BY <1>7 DEF CloseBoundary
    <2>5. /\ boundaries[r][c].paths = Announced[c]
          /\ \A e \in Made(c, i) : boundaries[r][c].start < e
      BY <1>1, <2>4 DEF Brackets
    <2>6. \A e \in Made(c, i) : e \in DOMAIN events /\ events[e] \cap Announced[c] # {}
      BY <1>1, <1>3, Openings DEF Tagged, Made
    <2>7. /\ boundaries'[r][c].start = boundaries[r][c].start
          /\ boundaries'[r][c].paths = boundaries[r][c].paths
          /\ \A e \in DOMAIN events : /\ boundaries[r][c].start < e
                                      /\ events[e] \cap boundaries[r][c].paths # {}
                => e \in claims'[r]
      BY <1>1, <1>7, CloseBoundaryGo
    <2> QED
      BY <1>4, <2>3, <2>5, <2>6, <2>7
  <1>8. CASE boundaries'[r][c] = boundaries[r][c]
    BY <1>5, <1>8
  <1>9. ASSUME NEW k \in calls, NEW q \in RunId, k.todo = {}, Acts(k, q),
               boundaries'[r][c] # boundaries[r][c]
        PROVE  /\ boundaries'[r][c].paths = Announced[c]
               /\ \A e \in Made(c, i)' : boundaries'[r][c].start < e
               /\ boundaries'[r][c].status = "closed" =>
                     Over(c, i)' /\ Made(c, i)' \subseteq claims'[r]
    <2>1. k.client \in Change
      BY <1>1, Names
    <2>2. CASE CompleteRun(q)
      BY <1>1, <1>5, <1>9, <2>2, CompleteRunGo
    <2>3. CASE /\ KindOf(k) \in {"open", "pre"} /\ OfRun(k.client, q)
               /\ OpenBoundary(q, k.client, Announced[k.client])
      <3>1. q = r /\ k.client = c
        BY <1>1, <1>9, <2>1, <2>3, OpenBoundaryGo
      <3> QED
        BY <1>6, <1>9, <2>3, <3>1
    <2>4. CASE KindOf(k) \in {"close", "post"} /\ CloseBoundary(q, k.client, Announced[k.client])
      <3>1. q = r /\ k.client = c
        BY <1>1, <1>9, <2>1, <2>4, CloseBoundaryGo
      <3> QED
        BY <1>7, <1>9, <2>4, <3>1
    <2> QED
      BY <1>9, <2>2, <2>3, <2>4 DEF Acts, Ends, StartRun, CreateCheckpoint,
         StartIntent, CompleteIntent
  <1>10. (UNCHANGED runsVars \/ (\E paths : InsertEvent(paths)) \/ (\E old : DropEvents(old)))
           => boundaries' = boundaries
    BY DEF runsVars, InsertEvent, DropEvents
  <1> QED
    BY <1>8, <1>9, <1>10 DEF Ground, Effect

\* A checkpoint is made after the work.
LEMMA CoversStay ==
    ASSUME Ground, NEW r \in RunId, NEW c \in Client, NEW i \in Steps(c)
    PROVE  Covers(r, c, i)'
  <1>1. /\ RunsTypeOK /\ TypeInv /\ TypeInv' /\ RunsGo /\ WorkInv /\ CallInv
        /\ CallInv' /\ Onward /\ script' = script /\ script \in Scripts /\ FilesGo
        /\ Covers(r, c, i) /\ c \in Name
    BY GroundGo, ClientAssumption DEF Ground, IInv, TypeInv, WorkInv, Moves, CallInv, CallsFit,
       Onward
  <1>2. i \in Nat \ {0}
    BY <1>1, KindsAre
  <1> SUFFICES ASSUME Kind(c, i) = "checkpoint", c \in DOMAIN checkpoints'[r]
               PROVE  /\ Past(c, i - 1)'
                      /\ \A j \in 1 .. i :
                            /\ Recorded(c, j)'
                            /\ \A e \in Made(c, j)' : e <= checkpoints'[r][c]
    BY <1>1, SameScript DEF Covers
  <1>3. ~WorkStep(c, i)
    <2>1. Kind(c, i) \notin Openers
      BY <1>1, Bracketed
    <2>2. i + 1 \in Steps(c) => Kind(c, i + 1) # "checkpoint"
      <3>1. i + 1 \in Steps(c) /\ Kind(c, i + 1) = Kind(c, i) => i = i + 1
        BY <1>1, KindsAre
      <3> QED
        BY <1>2, <3>1
    <2> QED
      BY <2>1, <2>2 DEF WorkStep
  <1>4. Recorded(c, i)' /\ Made(c, i)' = {}
    <2>1. Tagged(c, i)'
      BY <1>1, <1>2, TaggedStays DEF WorkInv
    <2>2. ~WorkStep(c, i)'
      BY <1>1, <1>3 DEF WorkStep, Steps, Kind
    <2> QED
      BY <2>1, <2>2 DEF Tagged
  <1>5. ASSUME NEW fence, checkpoints'[r][c] = fence, Past(c, i - 1),
               \A j \in 1 .. i : Recorded(c, j) /\ \A e \in Made(c, j) : e <= fence
        PROVE  /\ Past(c, i - 1)'
               /\ \A j \in 1 .. i :
                     /\ Recorded(c, j)'
                     /\ \A e \in Made(c, j)' : e <= checkpoints'[r][c]
    <2>1. Past(c, i - 1)'
      BY <1>1, <1>2, <1>5, PastStays
    <2>2. ASSUME NEW j \in 1 .. i
          PROVE  Recorded(c, j)' /\ \A e \in Made(c, j)' : e <= fence
      <3>1. CASE j = i
        BY <1>4, <3>1
      <3>2. CASE j < i
        <4>1. client[c].step \in Nat
          BY <1>1, ClientTyped
        <4>2. Past(c, j)
          BY <1>2, <1>5, <3>2, <4>1 DEF Past
        <4> QED
          BY <1>1, <1>5, <4>2, OverStays
      <3> QED
        BY <1>2, <3>1, <3>2
    <2> QED
      BY <1>5, <2>1, <2>2
  <1>6. CASE c \in DOMAIN checkpoints[r]
    <2>1. checkpoints'[r][c] = checkpoints[r][c]
      BY <1>1, <1>6 DEF RunsGo, CheckpointsStay
    <2> QED
      BY <1>1, <1>5, <1>6, <2>1 DEF Covers
  <1>7. ASSUME NEW k \in calls, k.todo = {}, KindOf(k) = "checkpoint", k.client = c,
               CreateCheckpoint(r, c)
        PROVE  /\ Past(c, i - 1)'
               /\ \A j \in 1 .. i :
                     /\ Recorded(c, j)'
                     /\ \A e \in Made(c, j)' : e <= checkpoints'[r][c]
    <2>1. /\ checkpoints'[r][c] = MaxEventId
          /\ \A e \in DOMAIN events : e <= MaxEventId
      BY <1>1, <1>7, CreateCheckpointGo, MaxEventIdGreatest
    <2>2. k.step = i
      <3>1. k.step \in Steps(c) /\ Kind(c, k.step) = Kind(c, i)
        BY <1>1, <1>7, CallTyped
      <3> QED
        BY <1>1, <3>1, KindsAre
    <2>3. Past(c, i - 1)
      BY <1>1, <1>2, <1>7, <2>2, CallPast
    <2>4. ASSUME NEW j \in 1 .. i
          PROVE  Recorded(c, j) /\ \A e \in Made(c, j) : e <= MaxEventId
      <3>1. CASE j = i
        BY <1>1, <1>2, <1>3, <3>1, NoneYet
      <3>2. CASE j < i
        <4>1. j < k.step /\ KindOf(k) # "end"
          BY <1>7, <2>2, <3>2
        <4>2. Recorded(c, j)
          BY <1>1, <1>7, <4>1, CallOver
        <4> QED
          BY <2>1, <4>2 DEF Made
      <3> QED
        BY <1>2, <3>1, <3>2
    <2> QED
      BY <1>5, <2>1, <2>3, <2>4
  <1>8. ASSUME NEW k \in calls, NEW q \in RunId, k.todo = {}, Acts(k, q),
               c \notin DOMAIN checkpoints[r]
        PROVE  q = r /\ k.client = c /\ KindOf(k) = "checkpoint" /\ CreateCheckpoint(r, c)
    <2>1. CASE KindOf(k) = "checkpoint" /\ CreateCheckpoint(q, k.client)
      BY <1>1, <1>8, <2>1, CreateCheckpointGo
    <2>2. CASE checkpoints' = checkpoints
      BY <1>8, <2>2
    <2> QED
      BY <1>8, <2>1, <2>2 DEF Acts, Ends, StartRun, CompleteRun, OpenBoundary, CloseBoundary,
         StartIntent, CompleteIntent
  <1>9. (UNCHANGED runsVars \/ (\E paths : InsertEvent(paths)) \/ (\E old : DropEvents(old)))
           => checkpoints' = checkpoints
    BY DEF runsVars, InsertEvent, DropEvents
  <1> QED
    BY <1>6, <1>7, <1>8, <1>9 DEF Ground, Effect

\* Who ends a Run, and whom that gets in the way of.
LEMMA RunEnds ==
    ASSUME Ground, NEW r \in RunId, Started(r), runs'[r].status # runs[r].status
    PROVE  \E k \in calls : k.todo = {} /\ Ends(k, r)
  <1>1. RunsTypeOK
    BY DEF Ground, IInv, TypeInv
  <1>2. ASSUME NEW k \in calls, NEW q \in RunId, k.todo = {}, Acts(k, q)
        PROVE  Ends(k, r)
    <2>1. CASE StartRun(q, ExternalOf(k.client), script[k.client].mode)
      <3>1. q # r
        BY <2>1 DEF StartRun, Started
      <3> QED
        BY <1>1, <2>1, <3>1, StartRunGo
    <2>2. CASE Ends(k, q)
      BY <1>1, <2>2, CompleteRunGo DEF Ends
    <2> QED
      BY <1>2, <2>1, <2>2 DEF Acts, OpenBoundary, CloseBoundary, CreateCheckpoint, StartIntent,
         CompleteIntent
  <1>3. (UNCHANGED runsVars \/ (\E paths : InsertEvent(paths)) \/ (\E old : DropEvents(old)))
           => runs' = runs
    BY DEF runsVars, InsertEvent, DropEvents
  <1> QED
    BY <1>2, <1>3 DEF Ground, Effect

\* A Run that has just started is active.
LEMMA RunStarts ==
    ASSUME Ground, NEW r \in RunId, ~Started(r), Started(r)'
    PROVE  runs'[r].status = "active"
  <1>1. RunsTypeOK
    BY DEF Ground, IInv, TypeInv
  <1>2. ASSUME NEW k \in calls, NEW q \in RunId, k.todo = {}, Acts(k, q)
        PROVE  runs'[r].status = "active"
    <2>1. CASE StartRun(q, ExternalOf(k.client), script[k.client].mode)
      BY <1>1, <2>1, StartRunGo DEF Started
    <2>2. CASE CompleteRun(q)
      <3>1. runs[q].status = "active"
        BY <2>2 DEF CompleteRun, ActiveRuns
      <3>2. \A p \in RunId \ {q} : runs'[p] = runs[p]
        BY <1>1, <2>2, CompleteRunGo
      <3> QED
        BY <3>1, <3>2 DEF Started
    <2> QED
      BY <1>2, <2>1, <2>2 DEF Acts, Ends, OpenBoundary, CloseBoundary, CreateCheckpoint,
         StartIntent, CompleteIntent, Started
  <1>3. (UNCHANGED runsVars \/ (\E paths : InsertEvent(paths)) \/ (\E old : DropEvents(old)))
           => runs' = runs
    BY DEF runsVars, InsertEvent, DropEvents
  <1> QED
    BY <1>2, <1>3 DEF Ground, Effect, Started

\* Only its own client ends the Run of a client that nobody gets in the way of.
LEMMA LastingStays ==
    ASSUME Ground, NEW c \in Client
    PROVE  Lasting(c)'
  <1>1. /\ CallInv /\ CallInv' /\ Onward /\ script' = script /\ script \in Scripts
        /\ Lasting(c) /\ excused \subseteq excused' /\ RunsGo /\ RunsTypeOK /\ RunsTypeOK'
    BY GroundGo DEF Ground, IInv, TypeInv, WorkInv, Moves, CallInv, CallsFit, Onward, Effect
  <1> SUFFICES ASSUME Via(c) = "event", c \notin excused', NEW r \in RunId, OfRun(c, r)',
                      runs'[r].status # "active"
               PROVE  Ending(c)'
    BY <1>1, SameScript DEF Lasting
  <1>2. Started(r) /\ runs'[r].external = runs[r].external /\ OfRun(c, r)
    <2>1. Started(r) /\ runs'[r].external = ExternalOf(c)
      BY <1>1, RunStarts, SameScript DEF OfRun
    <2> QED
      BY <1>1, <2>1 DEF RunsGo, RunsStay, OfRun
  <1>3. CASE Ending(c)
    <2>1. PICK i \in Steps(c) : Kind(c, i) = "complete" /\ Past(c, i - 1)
      BY <1>3 DEF Ending
    <2>2. Past(c, i - 1)'
      <3>1. i \in Nat
        BY <1>1, KindsAre
      <3> QED
        BY <1>1, <2>1, <3>1, PastStays
    <2> QED
      BY <1>1, <2>1, <2>2 DEF Ending, Steps, Kind
  <1>4. CASE runs[r].status = "active"
    <2>1. PICK k \in calls : k.todo = {} /\ Ends(k, r)
      BY <1>2, <1>4, RunEnds
    <2>2. k.client = c
      BY <1>2, <2>1 DEF Ends, OfRun
    <2>3. k.step \in Steps(c) /\ Kind(c, k.step) = "complete" /\ k.step \in Nat
      <3>1. k.step \in Steps(c) /\ k.step \in Nat /\ KindOf(k) = Kind(c, k.step)
        BY <1>1, <2>2, CallTyped
      <3>2. Kind(c, k.step) \in {"start", "open", "close", "istart", "idone", "checkpoint", "complete"}
        BY <1>1, <3>1, KindsAre
      <3> QED
        BY <2>1, <3>1, <3>2 DEF Ends
    <2>4. Past(c, k.step - 1)
      <3>1. k.step - 1 \in Int /\ k.step - 1 < k.step
        BY <2>3
      <3>2. Past(k.client, k.step - 1)
        BY <1>1, <3>1, CallPast
      <3> QED
        BY <2>2, <3>2
    <2>5. Past(c, k.step - 1)'
      BY <1>1, <2>3, <2>4, PastStays
    <2> QED
      BY <1>1, <2>3, <2>5 DEF Ending, Steps, Kind
  <1> QED
    BY <1>1, <1>2, <1>3, <1>4 DEF Lasting

-------------------------------------------------------------------------------
(* What was answered stays done                                            *)

LEMMA IntentsPastStay ==
    ASSUME Ground
    PROVE  IntentsPast'
  <1>1. /\ RunsTypeOK /\ IntentsPast /\ lastEvent \in Nat
        /\ MaxEventId \in Nat /\ MaxEventId <= lastEvent
    BY MaxEventIdGreatest DEF Ground, IInv, TypeInv, WorkInv, RunsTypeOK
  <1>2. CASE intents' = intents /\ lastEvent' = lastEvent
    BY <1>1, <1>2 DEF IntentsPast
  <1>3. CASE \E paths : InsertEvent(paths)
    <2>1. intents' = intents /\ lastEvent' = lastEvent + 1
      BY <1>3 DEF InsertEvent
    <2>2. \A n \in intents : n.start \in Nat
      BY <1>1 DEF RunsTypeOK, Intent
    <2> QED
      BY <1>1, <2>1, <2>2 DEF IntentsPast
  <1>4. ASSUME NEW r \in RunId, intents' = CompletedIntents(ActiveIntents(r)),
               lastEvent' = lastEvent
        PROVE  IntentsPast'
    <2>1. ASSUME NEW n \in intents' PROVE n.start <= lastEvent
      <3>1. n \in intents \/ \E m \in intents : n = Closed(m)
        BY <1>4, CompletedStay
      <3> QED
        BY <1>1, <3>1, ClosedIs DEF IntentsPast
    <2> QED
      BY <1>4, <2>1 DEF IntentsPast
  <1>5. ASSUME NEW r \in RunId, NEW x, StartIntent(r, x) PROVE IntentsPast'
    <2>1. PICK n : n = [run |-> r, label |-> x, active |-> TRUE, start |-> MaxEventId, end |-> 0]
      OBVIOUS
    <2>2. n.start = MaxEventId /\ intents' = intents \cup {n} /\ lastEvent' = lastEvent
      BY <1>5, <2>1 DEF StartIntent
    <2> QED
      BY <1>1, <2>2 DEF IntentsPast
  <1>6. \/ intents' = intents /\ lastEvent' = lastEvent
        \/ \E paths : InsertEvent(paths)
        \/ \E r \in RunId : \/ intents' = CompletedIntents(ActiveIntents(r)) /\ lastEvent' = lastEvent
                            \/ \E x : StartIntent(r, x)
    <2>1. ASSUME NEW k \in calls, NEW r \in RunId, Acts(k, r)
          PROVE  \/ intents' = intents /\ lastEvent' = lastEvent
                 \/ intents' = CompletedIntents(ActiveIntents(r)) /\ lastEvent' = lastEvent
                 \/ StartIntent(r, k.client)
      BY <2>1 DEF Acts, Ends, StartRun, CompleteRun, OpenBoundary, CloseBoundary,
         CreateCheckpoint, CompleteIntent
    <2>2. UNCHANGED runsVars \/ (\E old : DropEvents(old))
             => intents' = intents /\ lastEvent' = lastEvent
      BY DEF runsVars, DropEvents
    <2> QED
      BY <2>1, <2>2 DEF Ground, Effect
  <1> QED
    BY <1>2, <1>3, <1>4, <1>5, <1>6

\* An intent that is no longer active was ended with its Run, or by its client
\* after the work it is about, or by someone who left out the label.
LEMMA IntentEnds ==
    ASSUME Ground, NEW n \in intents, n \notin intents'
    PROVE  /\ n.active /\ Closed(n) \in intents' /\ Closed(n).end = MaxEventId
           /\ \/ runs'[n.run].status = "ended"
              \/ \E k \in calls : /\ k.todo = {} /\ KindOf(k) = "idone"
                                  /\ k.client = n.label
              \/ Careless /\ (n.label \in Client => n.label \in excused')
  <1>1. RunsTypeOK /\ OneIntent /\ RunsGo
    BY GroundGo DEF Ground, IInv, TypeInv, WorkInv
  <1>2. n.active /\ Closed(n) \in intents'
    BY <1>1 DEF RunsGo, IntentsStay
  <1>3. ASSUME NEW r \in RunId, intents' = CompletedIntents(ActiveIntents(r)) PROVE r = n.run
    BY <1>3, <1>2 DEF CompletedIntents, ActiveIntents
  <1>4. ASSUME NEW k \in calls, NEW r \in RunId, k.todo = {}, Acts(k, r)
        PROVE  \/ runs'[n.run].status = "ended"
               \/ KindOf(k) = "idone" /\ k.client = n.label
               \/ Careless /\ (n.label \in Client => n.label \in excused')
    <2>1. CASE CompleteRun(r)
      <3>1. r = n.run
        BY <1>3, <2>1 DEF CompleteRun
      <3> QED
        BY <1>1, <2>1, <3>1, CompleteRunGo
    <2>2. ASSUME NEW x \in Name, KindOf(k) = "idone", CompleteIntent(r, x), Cuts(k, x)
          PROVE  \/ KindOf(k) = "idone" /\ k.client = n.label
                 \/ Careless /\ (n.label \in Client => n.label \in excused')
      <3>1. r = n.run
        BY <1>3, <2>2 DEF CompleteIntent
      <3>2. PICK m \in intents : m.run = r /\ m.active /\ m.label = x
        BY <2>2 DEF CompleteIntent, ActiveIntents
      <3>3. m = n
        BY <1>1, <1>2, <3>1, <3>2 DEF OneIntent
      <3> QED
        BY <2>2, <3>2, <3>3 DEF Cuts
    <2>3. CASE StartIntent(r, k.client)
      BY <2>3 DEF StartIntent
    <2> QED
      BY <1>4, <2>1, <2>2, <2>3 DEF Acts, Ends, StartRun, OpenBoundary, CloseBoundary,
         CreateCheckpoint
  <1>5. (UNCHANGED runsVars \/ (\E paths : InsertEvent(paths)) \/ (\E old : DropEvents(old)))
           => intents' = intents
    BY DEF runsVars, InsertEvent, DropEvents
  <1> QED
    BY <1>1, <1>2, <1>4, <1>5, ClosedIs DEF Ground, Effect

\* An intent that covers a step does not cease to.
LEMMA IntendedStays ==
    ASSUME Ground, NEW c \in Client, NEW i \in Steps(c), Kind(c, i) = "istart",
           NEW r \in RunId, Started(r), Intended(c, i, r)
    PROVE  Intended(c, i, r)' \/ Cut(c)'
  <1>1. /\ RunsTypeOK /\ RunsGo /\ TypeInv /\ TypeInv' /\ WorkInv /\ CallInv /\ CallInv'
        /\ Onward /\ script \in Scripts /\ FilesGo /\ IntentsPast /\ lastEvent \in Nat
        /\ i \in Nat \ {0}
    BY GroundGo, KindsAre DEF Ground, IInv, TypeInv, WorkInv, Moves, CallInv, CallsFit, RunsTypeOK
  <1>2. PICK n \in intents :
           /\ n.run = r /\ n.label = c
           /\ \A e \in Made(c, i) : n.start < e
           /\ \/ n.active
              \/ runs[r].status = "ended"
              \/ Over(c, i) /\ \A e \in Made(c, i) : e <= n.end
    BY DEF Intended
  <1>3. n.start \in Nat /\ n.start <= lastEvent
    BY <1>1, ClosedIs DEF IntentsPast
  <1>4. \A e \in Made(c, i)' : n.start < e
    <2>1. ASSUME NEW e \in Made(c, i)' PROVE e \in Made(c, i) \/ e = lastEvent + 1
      BY <1>1, WorkGoes
    <2> QED
      BY <1>1, <1>2, <1>3, <2>1
  <1>5. runs[r].status = "ended" => runs'[r].status = "ended"
    BY <1>1 DEF RunsGo, RunsStay
  <1>6. Over(c, i) => Over(c, i)' /\ Made(c, i)' \subseteq Made(c, i)
    BY <1>1, OverStays DEF Over
  <1>7. CASE n \in intents'
    BY <1>2, <1>4, <1>5, <1>6, <1>7 DEF Intended
  <1>8. CASE n \notin intents'
    <2>1. /\ Closed(n) \in intents' /\ Closed(n).end = MaxEventId
          /\ Closed(n).run = r /\ Closed(n).label = c /\ Closed(n).start = n.start
      BY <1>1, <1>2, <1>8, IntentEnds, ClosedIs
    <2>2. CASE runs'[r].status = "ended"
      BY <1>4, <2>1, <2>2 DEF Intended
    <2>3. ASSUME NEW k \in calls, k.todo = {}, KindOf(k) = "idone", k.client = c
          PROVE  Over(c, i) /\ \A e \in Made(c, i) : e <= MaxEventId
      <3>1. k.step \in Steps(c) /\ Kind(c, k.step) = "idone" /\ k.step \in Nat
        BY <1>1, <2>3, CallTyped
      <3>2. k.step - 1 \in Steps(c) /\ Kind(c, k.step - 1) = "istart"
        BY <1>1, <3>1, Bracketed
      <3>3. i = k.step - 1
        BY <1>1, <3>2, KindsAre
      <3>4. Over(c, i)
        <4>1. i < k.step /\ KindOf(k) # "end"
          BY <1>1, <2>3, <3>1, <3>3
        <4> QED
          BY <1>1, <2>3, <4>1, CallOver
      <3>5. \A e \in Made(c, i) : e <= MaxEventId
        BY <1>1, MaxEventIdGreatest DEF Made
      <3> QED
        BY <3>4, <3>5
    <2>4. Over(c, i) /\ (\A e \in Made(c, i) : e <= MaxEventId) => Intended(c, i, r)'
      BY <1>4, <1>6, <2>1 DEF Intended
    <2>5. CASE Careless /\ c \in excused'
      BY <1>1, <2>5 DEF Cut, Careless, Onward
    <2> QED
      BY <1>2, <1>8, <2>2, <2>3, <2>4, <2>5, IntentEnds
  <1> QED
    BY <1>7, <1>8

LEMMA CutStays ==
    ASSUME Ground, NEW c \in Client, Cut(c)
    PROVE  Cut(c)'
  BY DEF Ground, Moves, Onward, Effect, Cut, Careless

LEMMA FinishedStays ==
    ASSUME Ground, NEW c \in Client, NEW i \in Nat, NEW r, Finished(c, i, r)
    PROVE  Finished(c, i, r)'
  <1>1. /\ RunsGo /\ TypeInv /\ TypeInv' /\ WorkInv /\ CallInv /\ CallInv'
        /\ Onward /\ FilesGo
    BY GroundGo DEF Ground, IInv, WorkInv, Moves
  <1>2. Over(c, i)' /\ Made(c, i)' \subseteq Made(c, i)
    BY <1>1, OverStays DEF Finished, Over
  <1>3. PICK n \in intents :
           /\ n.run = r /\ n.label = c /\ ~n.active
           /\ \A e \in Made(c, i) : n.start < e /\ e <= n.end
    BY DEF Finished
  <1>4. n \in intents'
    BY <1>1, <1>3 DEF RunsGo, IntentsStay
  <1> QED
    BY <1>2, <1>3, <1>4 DEF Finished

\* A wrapped Run is ended by the end of its command, or by somebody else.
LEMMA WrappingStays ==
    ASSUME Ground, NEW c \in Client, NEW i \in Steps(c), Kind(c, i) = "run",
           NEW r \in RunId, OfRun(c, r), Wrapping(c, i, r)
    PROVE  Wrapping(c, i, r)'
  <1>1. /\ RunsTypeOK /\ RunsGo /\ TypeInv /\ TypeInv' /\ WorkInv /\ CallInv /\ CallInv'
        /\ Onward /\ script \in Scripts /\ FilesGo /\ FencesPast /\ lastEvent \in Nat
        /\ i \in Nat \ {0} /\ excused \subseteq excused'
    BY GroundGo, KindsAre DEF Ground, IInv, TypeInv, WorkInv, Moves, CallInv, CallsFit, RunsTypeOK,
       Effect
  <1>2. /\ runs'[r].start = runs[r].start /\ Started(r) /\ runs[r].external = ExternalOf(c)
        /\ runs[r].status = "ended" => runs'[r] = runs[r]
    BY <1>1 DEF RunsGo, RunsStay, OfRun
  <1>3. \A e \in Made(c, i)' : runs'[r].start < e
    <2>1. ASSUME NEW e \in Made(c, i)' PROVE e \in Made(c, i) \/ e = lastEvent + 1
      BY <1>1, WorkGoes
    <2>2. runs[r].start \in Nat /\ runs[r].start <= lastEvent
      BY <1>1 DEF FencesPast, RunsTypeOK, Run
    <2> QED
      BY <1>1, <1>2, <2>1, <2>2 DEF Wrapping
  <1>4. Over(c, i) => Over(c, i)' /\ Made(c, i)' \subseteq Made(c, i)
    BY <1>1, OverStays DEF Over
  <1>5. CASE runs'[r].status # runs[r].status
    <2>1. PICK k \in calls : k.todo = {} /\ Ends(k, r)
      BY <1>2, <1>5, RunEnds
    <2>2. CASE k.client # c
      <3>1. c \in excused'
        BY <1>2, <2>1, <2>2 DEF Ends
      <3> QED
        BY <1>3, <3>1 DEF Wrapping
    <2>3. CASE k.client = c
      <3>1. k.step \in Steps(c) /\ KindOf(k) = Kind(c, k.step) /\ k.step \in Nat
        BY <1>1, <2>3, CallTyped
      <3>2. Via(c) = "cli"
        BY <1>1, KindsAre, Scripted
      <3>3. KindOf(k) = "done"
        <4>1. KindOf(k) \in {"run", "done", "stop"}
          BY <1>1, <3>1, <3>2, KindsAre
        <4>2. KindOf(k) # "stop"
          BY <1>1, <3>1, Bracketed
        <4> QED
          BY <2>1, <4>1, <4>2 DEF Ends
      <3>4. k.step - 1 \in Steps(c) /\ Kind(c, k.step - 1) = "run"
        <4>1. Kind(c, k.step) = "done"
          BY <3>1, <3>3
        <4> QED
          BY <1>1, <3>1, <4>1, Bracketed
      <3>5. i = k.step - 1
        BY <1>1, <3>4, KindsAre
      <3>6. Over(c, i)
        <4>1. i < k.step /\ KindOf(k) # "end"
          BY <1>1, <3>1, <3>3, <3>5
        <4> QED
          BY <1>1, <2>1, <2>3, <4>1, CallOver
      <3>7. \A e \in Made(c, i) : e <= MaxEventId
        BY <1>1, MaxEventIdGreatest DEF Made
      <3>8. runs'[r].end = MaxEventId
        BY <1>1, <2>1, CompleteRunGo DEF Ends
      <3> QED
        BY <1>3, <1>4, <3>6, <3>7, <3>8 DEF Wrapping
    <2> QED
      BY <2>2, <2>3
  <1>6. CASE runs'[r].status = runs[r].status
    <2>1. CASE runs[r].status = "active" \/ c \in excused
      BY <1>1, <1>3, <1>6, <2>1 DEF Wrapping
    <2>2. CASE runs[r].status # "active" /\ c \notin excused
      <3>1. runs'[r] = runs[r]
        BY <1>1, <1>2, <2>2 DEF RunsTypeOK, Run, Started
      <3> QED
        BY <1>3, <1>4, <2>2, <3>1 DEF Wrapping
    <2> QED
      BY <2>1, <2>2
  <1> QED
    BY <1>5, <1>6

\* What was answered does not become untrue.
LEMMA DoneStays ==
    ASSUME Ground, NEW c \in Client, NEW i \in Steps(c), NEW r \in RunId \cup {0},
           Answered(c, i, r), Done(c, i, r)
    PROVE  Done(c, i, r)'
  <1>1. /\ RunsTypeOK /\ RunsGo /\ TypeInv /\ TypeInv' /\ WorkInv /\ CallInv /\ CallInv'
        /\ Onward /\ script \in Scripts /\ script' = script /\ FilesGo
        /\ i \in Nat \ {0} /\ c \in Change
    BY GroundGo, KindsAre, ClientAssumption
       DEF Ground, IInv, TypeInv, WorkInv, Moves, CallInv, CallsFit, Onward
  <1>2. CASE Kind(c, i) \in {"begin", "end", "stop"}
    <2>1. Kind(c, i)' = Kind(c, i)
      BY <1>1, SameScript
    <2> QED
      BY <1>2, <2>1 DEF Done
  <1>3. CASE Kind(c, i) \notin {"begin", "end", "stop"}
    <2>1. OfRun(c, r) /\ r \in RunId /\ Started(r)
      BY <1>3 DEF Done, OfRun
    <2>2. OfRun(c, r)' /\ runs'[r].mode = runs[r].mode
      BY <1>1, <2>1, SameScript DEF OfRun, RunsGo, RunsStay
    <2>3. /\ Kind(c, i) \in {"open", "pre"} => boundaries'[r][c].status # "none"
          /\ Kind(c, i) = "close" => boundaries'[r][c].status = "closed"
      BY <1>1, <2>1 DEF Done, RunsGo, BoundariesStay
    <2>4. Kind(c, i) = "post" => boundaries'[r][c].status = "closed" \/ i - 1 \notin client'[c].acked
      <3>1. CASE boundaries[r][c].status = "closed"
        BY <1>1, <2>1, <3>1 DEF RunsGo, BoundariesStay
      <3>2. ASSUME Kind(c, i) = "post", i - 1 \notin client[c].acked
            PROVE  i - 1 \notin client'[c].acked
        <4>1. Via(c) = "hook"
          BY <1>1, <3>2, KindsAre, Scripted
        <4>2. i \in client[c].acked
          <5>1. \A k \in calls : k.pc = "record" => Via(k.client) = "event"
            BY <1>1, CallTyped DEF CallPosition
          <5>2. Tag(c, i) \notin DOMAIN responses
            BY <1>1, <4>1 DEF CallInv, Typed
          <5> QED
            BY <4>1, <5>1, <5>2 DEF Answered
        <4>3. client[c].step \in Nat /\ client[c].acked \subseteq 1 .. client[c].step - 1
          BY <1>1, ClientTyped
        <4>4. i - 1 # client[c].step
          BY <1>1, <4>2, <4>3
        <4> QED
          BY <1>1, <3>2, <4>4 DEF Onward
      <3> QED
        BY <3>1, <3>2 DEF Done
    <2>5. Kind(c, i) = "istart" => Intended(c, i, r)' \/ Cut(c)'
      BY <2>1, IntendedStays, CutStays DEF Done
    <2>6. Kind(c, i) = "idone" => Finished(c, i - 1, r)' \/ Cut(c)'
      BY <1>1, FinishedStays, CutStays DEF Done
    <2>7. Kind(c, i) = "checkpoint" => c \in DOMAIN checkpoints'[r]
      BY <1>1, <2>1 DEF Done, RunsGo, CheckpointsStay
    <2>8. Kind(c, i) = "run" => Wrapping(c, i, r)'
      BY <2>1, WrappingStays DEF Done
    <2>9. Kind(c, i) = "done" => Over(c, i - 1)' /\ runs'[r].status = "ended"
      BY <1>1, <2>1, OverStays DEF Done, RunsGo, RunsStay, Over
    <2> QED
      BY <1>1, <2>2, <2>3, <2>4, <2>5, <2>6, <2>7, <2>8, <2>9, SameScript DEF Done
  <1> QED
    BY <1>2, <1>3

-------------------------------------------------------------------------------
(* How a step leaves the clients and their calls                           *)

\* A Run that a call goes on with stays what it is.
LEMMA AppliesStay ==
    ASSUME Ground, NEW k \in calls, Applies(k)
    PROVE  Applies(k)'
  <1>1. RunsGo /\ script' = script /\ KindOf(k)' = KindOf(k) /\ ExternalOf(k.client)' = ExternalOf(k.client)
    BY GroundGo, SameScript DEF Ground, Moves, Onward
  <1> QED
    BY <1>1 DEF Applies, RunsGo, RunsStay

\* What is left to show of a step: the Runs that calls turn to, the answers,
\* and the clients that are refused.
LEMMA Conclude ==
    ASSUME Ground,
           \A k \in calls' : k \in calls \/ Applies(k)',
           \A c \in Client : \A i \in Steps(c), r \in RunId \cup {0} :
               Answered(c, i, r)' => Done(c, i, r)',
           \A c \in Client : client'[c].state = "refused" =>
               \/ client[c].state = "refused" \/ c \in excused'
               \/ Via(c) # "event" \/ script[c].steps[1] # "start"
               \/ ~script[c].named /\ Kind(c, client'[c].step) = "idone"
    PROVE  WorkInv'
  <1>1. /\ TypeInv /\ TypeInv' /\ WorkInv /\ CallInv /\ CallInv' /\ Onward /\ Moves
        /\ script' = script /\ FilesGo /\ excused \subseteq excused'
        /\ \A c : Steps(c)' = Steps(c)
    BY SameScript DEF Ground, IInv, WorkInv, Moves, Onward, Effect
  <1>2. FilesTyped'
    BY <1>1 DEF FilesGo
  <1>3. \A c \in Client, i \in Nat : Tagged(c, i)'
    BY <1>1, TaggedStays DEF WorkInv
  <1>4. \A k \in calls' : Swept(k)'
    BY <1>1, SweptStays DEF WorkInv
  <1>5. \A k \in calls' : Applies(k)'
    BY <1>1, AppliesStay DEF WorkInv
  <1>6. OneRun' /\ OneIntent' /\ IntentsPast'
    BY OneRunStays, OneIntentStays, IntentsPastStay
  <1>7. \A r \in RunId, c \in Client : Aborted(r, c)'
    BY <1>1, AbortedStays, ClientAssumption DEF WorkInv
  <1>8. \A r \in RunId, c \in Client : \A i \in Steps(c)' : Brackets(r, c, i)' /\ Covers(r, c, i)'
    BY <1>1, BracketsStay, CoversStay
  <1>9. \A c \in Client : \A i \in Steps(c)', r \in RunId \cup {0} :
            Answered(c, i, r)' => Done(c, i, r)'
    BY <1>1
  <1>10. \A c \in Client : Lasting(c)' /\ Welcome(c)'
    <2>1. ASSUME NEW c \in Client PROVE Welcome(c)'
      <3>1. Welcome(c)
        BY <1>1 DEF WorkInv
      <3>2. client[c].state = "refused" => client'[c].step = client[c].step
        BY <1>1 DEF Onward
      <3>3. Via(c)' = Via(c) /\ Kind(c, client[c].step)' = Kind(c, client'[c].step)
        BY <1>1, SameScript DEF Kind
      <3> QED
        BY <1>1, <3>1, <3>2, <3>3 DEF Welcome
    <2> QED
      BY <2>1, LastingStays
  <1> QED
    BY <1>1, <1>2, <1>3, <1>4, <1>5, <1>6, <1>7, <1>8, <1>9, <1>10 DEF WorkInv

\* If nobody is told anything new.
LEMMA AnswersStand ==
    ASSUME Ground, AnswersStay
    PROVE  \A c \in Client : \A i \in Steps(c), r \in RunId \cup {0} :
               Answered(c, i, r)' => Done(c, i, r)'
  BY DoneStays DEF AnswersStay, Ground, WorkInv

\* A client that is answered something new was told of the same Run before.
LEMMA AnswersAgree ==
    ASSUME Ground, NEW d \in Client, NEW j \in Steps(d), NEW run \in RunId \cup {0},
           AnswersGrow(d, j, run), Done(d, j, run)',
           \/ run = client[d].run
           \/ OfRun(d, run)' /\ Via(d) # "cli"
           \/ \A i \in client[d].acked : Kind(d, i) \in {"begin", "end", "stop"}
    PROVE  \A c \in Client : \A i \in Steps(c), r \in RunId \cup {0} :
               Answered(c, i, r)' => Done(c, i, r)'
  <1>1. WorkInv /\ script \in Scripts /\ script' = script /\ OneRun'
    BY OneRunStays DEF Ground, WorkInv, Moves, Onward, CallInv, CallsFit
  <1>2. ASSUME NEW c \in Client, NEW i \in Steps(c), NEW r \in RunId \cup {0}, Answered(c, i, r)
        PROVE  Done(c, i, r)'
    BY <1>1, <1>2, DoneStays DEF WorkInv
  <1>3. ASSUME NEW i \in Steps(d), i \in client[d].acked
        PROVE  Done(d, i, run)'
    <2>1. PICK q \in RunId \cup {0} : q = client[d].run
      BY <1>1, ClientTyped DEF WorkInv
    <2>2. Done(d, i, q)'
      BY <1>2, <1>3, <2>1 DEF Answered
    <2>3. CASE Kind(d, i) \in {"begin", "end", "stop"}
      <3>1. Kind(d, i)' \in {"begin", "end", "stop"}
        BY <1>1, <2>3, SameScript
      <3> QED
        BY <3>1 DEF Done
    <2>4. CASE OfRun(d, run)' /\ Via(d) # "cli" /\ Kind(d, i) \notin {"begin", "end", "stop"}
      <3>1. OfRun(d, q)'
        BY <1>1, <2>2, <2>4, SameScript DEF Done
      <3>2. ExternalOf(d)' # NoExternal
        BY <1>1, <2>4, Scripted, SameScript
      <3>3. q = run
        BY <1>1, <2>4, <3>1, <3>2 DEF OfRun, OneRun
      <3> QED
        BY <2>2, <3>3
    <2> QED
      BY <1>3, <2>1, <2>2, <2>3, <2>4
  <1> QED
    BY <1>2, <1>3 DEF AnswersGrow, NewAnswer

-------------------------------------------------------------------------------
(* The ways a step can end for the client of a call                        *)

\* Nobody is told anything new.
LEMMA Settled ==
    ASSUME Ground, AnswersStay, NothingApplied, NoneRefused
    PROVE  WorkInv'
  <1>1. \A k \in calls' : k \in calls \/ Applies(k)'
    BY DEF NothingApplied, Applies
  <1> QED
    BY <1>1, Conclude, AnswersStand DEF NoneRefused

\* A client is answered what is done.
LEMMA Accepted ==
    ASSUME Ground, NothingApplied, NoneRefused,
           NEW d \in Client, NEW j \in Steps(d), NEW run \in RunId \cup {0},
           AnswersGrow(d, j, run), Done(d, j, run)',
           \/ run = client[d].run
           \/ OfRun(d, run)' /\ Via(d) # "cli"
           \/ \A i \in client[d].acked : Kind(d, i) \in {"begin", "end", "stop"}
    PROVE  WorkInv'
  <1>1. \A c \in Client : \A i \in Steps(c), r \in RunId \cup {0} :
            Answered(c, i, r)' => Done(c, i, r)'
    BY AnswersAgree
  <1>2. \A k \in calls' : k \in calls \/ Applies(k)'
    BY DEF NothingApplied, Applies
  <1> QED
    BY <1>1, <1>2, Conclude DEF NoneRefused

\* An integration is answered what it, or a call of its own, was before.
LEMMA AcceptedAgain ==
    ASSUME Ground, NothingApplied, NoneRefused,
           NEW d \in Client, NEW j \in Steps(d), NEW run \in RunId \cup {0},
           AnswersGrow(d, j, run), Answered(d, j, run), Via(d) = "event"
    PROVE  WorkInv'
  <1>1. Done(d, j, run) /\ WorkInv /\ script \in Scripts /\ script' = script
    BY DEF Ground, WorkInv, CallInv, CallsFit, Moves, Onward
  <1>2. Done(d, j, run)'
    BY <1>1, DoneStays
  <1>3. Kind(d, j) \notin {"begin", "end", "stop"}
    BY <1>1, KindsAre
  <1>4. OfRun(d, run)'
    BY <1>1, <1>2, <1>3, SameScript DEF Done
  <1> QED
    BY <1>2, <1>4, Accepted

\* A call goes on with a Run.
LEMMA Turned ==
    ASSUME Ground, AnswersStay, NoneRefused, NEW k \in calls, NEW run \in RunId,
           Applied(k.client, k.step, run), Started(run)',
           KindOf(k) \in {"pre", "close", "post", "checkpoint", "stop"},
           KindOf(k) # "stop" => /\ runs'[run].external = ExternalOf(k.client)
                                 /\ runs'[run].mode = script[k.client].mode
    PROVE  WorkInv'
  <1>1. script' = script
    BY DEF Ground, Moves, Onward
  <1>2. ASSUME NEW m \in calls', m \notin calls PROVE Applies(m)'
    <2>1. m.pc = "apply" =>
             m.client = k.client /\ m.run = run /\ KindOf(m)' = KindOf(k)
             /\ ExternalOf(m.client)' = ExternalOf(k.client)
      BY <1>1, <1>2, SameScript DEF Applied, KindOf
    <2> QED
      BY <1>1, <2>1 DEF Applies
  <1> QED
    BY <1>2, Conclude, AnswersStand DEF NoneRefused

\* A client is refused that somebody got in the way of, that is no integration
\* which started its Run, or that does not say which intent it ends.
LEMMA Refused ==
    ASSUME Ground, AnswersStay, NothingApplied, NEW d \in Client, NEW j, OneRefused(d, j),
           ~(/\ client[d].step = j /\ Via(d) = "event" /\ script[d].steps[1] = "start"
             /\ d \notin excused'
             /\ (script[d].named \/ Kind(d, j) # "idone"))
    PROVE  WorkInv'
  <1>1. \A k \in calls' : k \in calls \/ Applies(k)'
    BY DEF NothingApplied, Applies
  <1> QED
    BY <1>1, Conclude, AnswersStand DEF OneRefused

\* Where a step starts.
Base == WorkInv /\ IInv /\ IInv' /\ CallsFit'

LEMMA BaseIs ==
    ASSUME Base
    PROVE  /\ CallInv /\ FilesTyped /\ CallsFit' /\ TypeInv /\ RunsTypeOK /\ script \in Scripts
           /\ lastEvent \in Nat
  BY DEF Base, WorkInv, CallInv, CallsFit, IInv, TypeInv, RunsTypeOK

\* An integration that started its Run goes on with it until it ends it.
LEMMA Held ==
    ASSUME WorkInv, NEW k \in calls, client[k.client].step = k.step, Via(k.client) = "event",
           script[k.client].steps[1] = "start", k.client \notin excused, KindOf(k) # "start"
    PROVE  \E r \in RunId :
              /\ OfRun(k.client, r) /\ runs[r].mode = script[k.client].mode
              /\ KindOf(k) # "complete" => r \in ActiveRuns
              /\ \A i \in Steps(k.client) : i < k.step => Done(k.client, i, r)
              /\ \A q \in RunId : OfRun(k.client, q) => q = r
  <1>1. PICK c \in Client : c = k.client
    BY CallTyped DEF WorkInv
  <1>2. /\ k.step \in Steps(c) /\ k.step \in Nat \ {0} /\ KindOf(k) = Kind(c, k.step)
        /\ script \in Scripts /\ CallInv /\ Len(script[c].steps) \in Nat
        /\ Steps(c) = 1 .. Len(script[c].steps) /\ ExternalOf(c) # NoExternal
    BY <1>1, CallTyped, Scripted DEF WorkInv
  <1>3. Kind(c, 1) = "start" /\ 1 \in Steps(c) /\ k.step # 1
    BY <1>1, <1>2 DEF Kind
  <1>4. PICK r \in RunId \cup {0} : r = client[c].run
    BY <1>2, ClientTyped
  <1>5. client[c].acked = 1 .. k.step - 1
    BY <1>1, <1>2, ClientTyped
  <1>6. \A i \in Steps(c) : i < k.step => Done(c, i, r)
    <2>1. ASSUME NEW i \in Steps(c), i < k.step PROVE Done(c, i, r)
      <3>1. i \in client[c].acked
        BY <1>2, <1>5, <2>1
      <3>2. Answered(c, i, r)
        BY <1>4, <3>1 DEF Answered
      <3> QED
        BY <3>2 DEF WorkInv
    <2> QED
      BY <2>1
  <1>7. OfRun(c, r) /\ runs[r].mode = script[c].mode /\ r \in RunId
    <2>1. Done(c, 1, r)
      BY <1>2, <1>3, <1>6
    <2> QED
      BY <1>3, <2>1 DEF Done, OfRun
  <1>8. \A q \in RunId : OfRun(c, q) => q = r
    BY <1>2, <1>7 DEF OfRun, WorkInv, OneRun
  <1>9. ASSUME Kind(c, k.step) # "complete" PROVE r \in ActiveRuns
    <2>1. ASSUME Ending(c) PROVE FALSE
      <3>1. PICK i \in Steps(c) : Kind(c, i) = "complete" /\ Past(c, i - 1)
        BY <2>1 DEF Ending
      <3>2. i = Len(script[c].steps)
        BY <1>2, <3>1, Bracketed
      <3>3. k.step <= i /\ k.step # i
        BY <1>2, <1>9, <3>1, <3>2
      <3> QED
        BY <1>1, <1>2, <3>1, <3>2, <3>3 DEF Past
    <2>2. Lasting(c)
      BY DEF WorkInv
    <2> QED
      BY <1>1, <1>7, <2>1, <2>2 DEF Lasting, ActiveRuns
  <1> QED
    BY <1>1, <1>2, <1>6, <1>7, <1>8, <1>9

\* An event that is sent again after it was answered.
LEMMA Again ==
    ASSUME WorkInv, NEW k \in calls, Via(k.client) = "event", k.step < client[k.client].step,
           NEW r \in RunId, OfRun(k.client, r)
    PROVE  Answered(k.client, k.step, r) /\ Done(k.client, k.step, r)
  <1>1. PICK c \in Client : c = k.client
    BY CallTyped DEF WorkInv
  <1>2. /\ k.step \in Steps(c) /\ k.step \in Nat \ {0} /\ script \in Scripts /\ CallInv
    BY <1>1, CallTyped DEF WorkInv
  <1>3. PICK q \in RunId \cup {0} : q = client[c].run
    BY <1>2, ClientTyped
  <1>4. k.step \in client[c].acked
    <2>1. client[c].step \in Nat /\ client[c].acked = 1 .. client[c].step - 1
      BY <1>1, <1>2, ClientTyped
    <2> QED
      BY <1>1, <1>2, <2>1
  <1>5. Answered(c, k.step, q)
    BY <1>3, <1>4 DEF Answered
  <1>6. Kind(c, k.step) \notin {"begin", "end", "stop"}
    BY <1>1, <1>2, KindsAre
  <1>7. q = r
    BY <1>1, <1>2, <1>5, <1>6, AnsweredOne
  <1> QED
    BY <1>1, <1>2, <1>5, <1>7 DEF WorkInv

\* What was answered before it, for an event.
LEMMA Before ==
    ASSUME WorkInv, NEW k \in calls, Via(k.client) = "event", k.step - 1 \in Steps(k.client),
           NEW r \in RunId, OfRun(k.client, r)
    PROVE  Done(k.client, k.step - 1, r)
  <1>1. PICK c \in Client : c = k.client
    BY CallTyped DEF WorkInv
  <1>2. /\ k.step \in Nat \ {0} /\ script \in Scripts /\ CallInv /\ CallPosition(k)
    BY <1>1, CallTyped DEF WorkInv
  <1>3. PICK q \in RunId \cup {0} : q = client[c].run
    BY <1>2, ClientTyped
  <1>4. k.step - 1 \in client[c].acked
    <2>1. client[c].step \in Nat /\ client[c].acked = 1 .. client[c].step - 1
      BY <1>1, <1>2, ClientTyped
    <2>2. k.step - 1 \in Nat \ {0}
      BY <1>1, <1>2, KindsAre
    <2> QED
      BY <1>1, <1>2, <2>1, <2>2 DEF CallPosition
  <1>5. Answered(c, k.step - 1, q)
    BY <1>3, <1>4 DEF Answered
  <1>6. Kind(c, k.step - 1) \notin {"begin", "end", "stop"}
    BY <1>1, <1>2, KindsAre
  <1>7. q = r
    BY <1>1, <1>2, <1>5, <1>6, AnsweredOne
  <1> QED
    BY <1>1, <1>2, <1>5, <1>7 DEF WorkInv

\* A client waits for its call, unless it has sent an event again.
LEMMA Waiting ==
    ASSUME WorkInv, NEW k \in calls, Via(k.client) # "event", KindOf(k) # "begin"
    PROVE  client[k.client].step = k.step
  <1>1. CallPosition(k) /\ k.step \in Nat /\ client[k.client].step \in Nat
    BY CallTyped, ClientTyped DEF WorkInv
  <1> QED
    BY <1>1 DEF CallPosition

\* Nothing was made of a step that its client is still at.
LEMMA NoneMade ==
    ASSUME Ground, NEW k \in calls, client[k.client].step = k.step
    PROVE  Made(k.client, k.step)' = {}
  <1>1. k.client \in Client /\ k.step \in Nat /\ TypeInv /\ TypeInv' /\ FilesGo
    BY CallTyped DEF Ground, WorkInv, IInv
  <1>2. Made(k.client, k.step) = {} /\ Recorded(k.client, k.step)
    <2>1. client[k.client].step <= k.step
      BY <1>1
    <2> QED
      BY <1>1, <2>1, NoneYet DEF Ground
  <1> QED
    BY <1>1, <1>2, WorkGoes

-------------------------------------------------------------------------------
(* Each step                                                               *)

\* What calls do once the history is up to date leaves files alone.
LEMMA SteadyGround ==
    ASSUME Base, Moves, Steady, events' = events, Effect
    PROVE  Ground
  BY BaseIs, FilesStill DEF Base, Ground, Steady, fileVars

\* What others do.
LEMMA OutsideWork ==
    ASSUME Base,
           \/ \E p \in Path : WorkOutside(p)
           \/ \E paths \in SUBSET Path : Observe(paths)
           \/ \E old \in SUBSET DOMAIN events : Prune(old)
    PROVE  WorkInv'
  <1>1. UNCHANGED <<script, client, calls, responses, excused>>
    BY DEF WorkOutside, Touch, Observe, callVars, Prune
  <1>2. Moves /\ NoneRefused /\ AnswersStay /\ NothingApplied
    BY <1>1, BaseIs, StillMoves
  <1>3. FilesGo
    BY BaseIs, TouchGo, RecordGo, PruneGo DEF WorkOutside, Observe
  <1>4. Effect
    BY <1>1 DEF Effect, WorkOutside, Touch, Observe, RecordChange, Prune
  <1> QED
    BY <1>2, <1>3, <1>4, Settled DEF Ground, Base

\* What clients do.
LEMMA ClientWork ==
    ASSUME Base, NEW c \in Client,
           (\E p \in Path : Work(c, p)) \/ Send(c) \/ Resend(c)
    PROVE  WorkInv'
  <1>1. ASSUME NEW p \in Path, Work(c, p) PROVE WorkInv'
    <2>1. UNCHANGED <<script, client, calls, responses, excused>> /\ UNCHANGED runsVars
      BY <1>1 DEF Work, Touch
    <2>2. Moves /\ NoneRefused /\ AnswersStay /\ NothingApplied
      BY <2>1, BaseIs, StillMoves
    <2>3. FilesGo
      BY <1>1, BaseIs, TouchGo DEF Work
    <2>4. Effect
      BY <2>1 DEF Effect
    <2> QED
      BY <2>2, <2>3, <2>4, Settled DEF Ground, Base
  <1>2. ASSUME Send(c) \/ Resend(c), Moves PROVE Ground
    <2>1. UNCHANGED runsVars /\ UNCHANGED fileVars /\ excused' = excused
      BY <1>2 DEF Send, Resend
    <2>2. FilesGo
      BY <2>1, BaseIs, FilesStill DEF runsVars
    <2>3. Effect
      BY <2>1 DEF Effect
    <2> QED
      BY <1>2, <2>2, <2>3 DEF Ground, Base
  <1>3. CASE Send(c)
    BY <1>2, <1>3, BaseIs, SendMoves, Settled
  <1>4. CASE Resend(c)
    <2>1. Moves /\ NoneRefused /\ NothingApplied
      BY <1>4, BaseIs, ResendMoves
    <2>2. CASE AnswersStay
      BY <1>2, <1>4, <2>1, <2>2, Settled
    <2>3. ASSUME NEW i \in Steps(c), NEW r \in RunId \cup {0}, Answered(c, i, r),
                 AnswersGrow(c, i, r)
          PROVE  WorkInv'
      <3>1. Via(c) = "event"
        BY <1>4 DEF Resend
      <3> QED
        BY <1>2, <1>4, <2>1, <2>3, <3>1, AcceptedAgain
    <2> QED
      BY <1>4, <2>2, <2>3, BaseIs, ResendMoves
  <1> QED
    BY <1>1, <1>3, <1>4

\* What each call does.
LEMMA SyncPathWork ==
    ASSUME Base, NEW k \in calls, SyncPath(k)
    PROVE  WorkInv'
  <1>1. Moves /\ NoneRefused /\ AnswersStay /\ NothingApplied
    BY BaseIs, SyncPathMoves
  <1>2. k.todo \subseteq Path
    BY BaseIs, CallTyped DEF IsCall
  <1>3. FilesGo /\ Effect
    <2>1. CASE UNCHANGED <<runsVars, fileVars>>
      <3>1. FilesGo
        BY <2>1, BaseIs, FilesStill DEF runsVars
      <3>2. Effect
        BY <2>1 DEF Effect, SyncPath
      <3> QED
        BY <3>1, <3>2
    <2>2. ASSUME NEW p \in k.todo, RecordChange({p}) PROVE FilesGo /\ Effect
      <3>1. FilesGo
        BY <1>2, <2>2, BaseIs, RecordGo
      <3>2. Effect
        BY <2>2 DEF Effect, RecordChange, SyncPath
      <3> QED
        BY <3>1, <3>2
    <2> QED
      BY <2>1, <2>2 DEF SyncPath
  <1> QED
    BY <1>1, <1>3, Settled DEF Ground, Base

LEMMA SaveAnswerWork ==
    ASSUME Base, NEW k \in calls, SaveAnswer(k)
    PROVE  WorkInv'
  <1>1. /\ Moves /\ NoneRefused /\ NothingApplied
        /\ Answered(k.client, k.step, k.run) /\ AnswersGrow(k.client, k.step, k.run)
    BY BaseIs, SaveMoves
  <1>2. UNCHANGED runsVars /\ UNCHANGED fileVars /\ excused' = excused
    BY DEF SaveAnswer
  <1>3. FilesGo /\ Effect
    BY <1>2, BaseIs, FilesStill DEF runsVars, Effect
  <1>4. /\ k.client \in Client /\ k.step \in Steps(k.client) /\ k.run \in RunId \cup {0}
        /\ Via(k.client) = "event"
    BY BaseIs, CallTyped DEF CallPosition, SaveAnswer
  <1> QED
    BY <1>1, <1>3, <1>4, AcceptedAgain DEF Ground, Base

LEMMA DieWork ==
    ASSUME Base, NEW k \in calls, Die(k)
    PROVE  WorkInv'
  <1>1. /\ Moves /\ NothingApplied /\ AnswersStay
        /\ Via(k.client) = "event" => NoneRefused
        /\ OneRefused(k.client, k.step)
    BY BaseIs, DieMoves
  <1>2. UNCHANGED runsVars /\ UNCHANGED fileVars /\ excused' = excused
    BY DEF Die
  <1>3. FilesGo /\ Effect
    BY <1>2, BaseIs, FilesStill DEF runsVars, Effect
  <1>4. k.client \in Client /\ Ground
    BY <1>1, <1>3, BaseIs, CallTyped DEF Ground, Base
  <1> QED
    BY <1>1, <1>4, Settled, Refused

LEMMA NotFoundWork ==
    ASSUME Base, NEW k \in calls, NotFound(k)
    PROVE  WorkInv'
  <1>1. /\ Steady /\ Finish(k, k.run, FALSE) /\ UNCHANGED runsVars /\ excused' = excused
        /\ Known(ExternalOf(k.client)) = {} /\ KindOf(k) \in {"open", "istart", "idone"}
    BY DEF NotFound, Fail, Synced, Target
  <1>2. k.client \in Client /\ k.run \in RunId \cup {0}
    BY BaseIs, CallTyped DEF CallPosition
  <1>3. Moves /\ NothingApplied /\ OneRefused(k.client, k.step) /\ AnswersStay
    BY <1>1, <1>2, BaseIs, FinishMoves DEF Steady
  <1>4. Ground
    BY <1>1, <1>3, SteadyGround DEF Effect, runsVars
  <1>5. ASSUME client[k.client].step = k.step, Via(k.client) = "event",
               script[k.client].steps[1] = "start", k.client \notin excused'
        PROVE  FALSE
    BY <1>1, <1>5, Held DEF Base, OfRun, Known, Started
  <1> QED
    BY <1>2, <1>3, <1>4, <1>5, Refused

LEMMA MarkWork ==
    ASSUME Base, NEW k \in calls, Mark(k)
    PROVE  WorkInv'
  <1>1. PICK r \in RunId : r = k.run /\ OfRun(k.client, r) /\ runs[r].mode = script[k.client].mode
    BY DEF Base, WorkInv, Applies, Mark, Ready, OfRun
  <1>2. /\ k.client \in Client /\ k.step \in Steps(k.client) /\ KindOf(k) = "checkpoint"
        /\ Kind(k.client, k.step) = "checkpoint" /\ k.todo = {} /\ Via(k.client) # "cli"
    <2>1. /\ k.client \in Client /\ k.step \in Steps(k.client) /\ KindOf(k) = "checkpoint"
          /\ Kind(k.client, k.step) = "checkpoint" /\ k.todo = {}
      BY BaseIs, CallTyped DEF Mark, Ready, Base, WorkInv, Swept
    <2> QED
      BY <2>1, BaseIs, KindsAre
  <1>3. /\ excused' = excused /\ Steady /\ \E note : Succeed(k, r, note)
        /\ \/ k.client \in DOMAIN checkpoints[r] /\ UNCHANGED runsVars
           \/ CreateCheckpoint(r, k.client)
    BY <1>1 DEF Mark
  <1>4. Moves /\ NothingApplied /\ NoneRefused /\ AnswersGrow(k.client, k.step, r)
    BY <1>2, <1>3, BaseIs, SucceedMoves DEF Steady
  <1>5. Ground
    BY <1>2, <1>3, <1>4, SteadyGround DEF Effect, Acts, runsVars, CreateCheckpoint
  <1>6. k.client \in DOMAIN checkpoints'[r]
    BY <1>3, BaseIs, CreateCheckpointGo DEF runsVars
  <1>7. script' = script /\ runs' = runs
    BY <1>3 DEF Steady, runsVars, CreateCheckpoint
  <1>8. OfRun(k.client, r)' /\ runs'[r].mode = script[k.client].mode
    BY <1>1, <1>7, SameScript DEF OfRun, Started
  <1>9. Done(k.client, k.step, r)'
    BY <1>2, <1>6, <1>7, <1>8, SameScript DEF Done
  <1> QED
    BY <1>2, <1>4, <1>5, <1>8, <1>9, Accepted

\* The Run that a transaction of an integration or a hook is about.
LEMMA TargetIs ==
    ASSUME Base, NEW k \in calls, NEW r \in Target(k), KindOf(k) # "stop"
    PROVE  /\ r \in RunId /\ OfRun(k.client, r)
           /\ k.pc = "apply" => runs[r].mode = script[k.client].mode
  <1>1. CASE k.pc = "apply"
    BY <1>1 DEF Target, Base, WorkInv, Applies, OfRun
  <1>2. CASE k.pc # "apply"
    BY <1>2 DEF Target, Known, OfRun, Started
  <1> QED
    BY <1>1, <1>2

LEMMA OpenChangeWork ==
    ASSUME Base, NEW k \in calls, OpenChange(k)
    PROVE  WorkInv'
  <1>1. PICK r \in Target(k) :
           \/ ~Reporting(r) /\ Fail(k)
           \/ /\ Reporting(r) /\ boundaries[r][k.client].status # "none"
              /\ (\E note : Succeed(k, r, note)) /\ UNCHANGED runsVars
           \/ /\ OpenBoundary(r, k.client, Announced[k.client])
              /\ \E note : Succeed(k, r, note)
    BY DEF OpenChange
  <1>2. /\ k.client \in Client /\ k.step \in Steps(k.client) /\ KindOf(k) \in {"open", "pre"}
        /\ Kind(k.client, k.step) = KindOf(k) /\ k.todo = {} /\ k.run \in RunId \cup {0}
        /\ Steady /\ excused' = excused /\ k.client \in Change
    BY BaseIs, CallTyped, ClientAssumption
       DEF OpenChange, Due, Ready, Synced, Base, WorkInv, Swept, CallPosition
  <1>3. Via(k.client) # "cli" /\ script[k.client].mode = "reported"
    BY <1>2, BaseIs, KindsAre, Scripted, Bracketed
  <1>4. r \in RunId /\ OfRun(k.client, r)
    BY <1>2, TargetIs
  <1>5. script' = script /\ responses' = responses
    BY <1>2 DEF Steady
  <1>6. CASE ~Reporting(r) /\ Fail(k)
    <2>1. Finish(k, k.run, FALSE) /\ UNCHANGED runsVars
      BY <1>6 DEF Fail
    <2>2. Moves /\ NothingApplied /\ OneRefused(k.client, k.step) /\ AnswersStay
      BY <1>2, <1>5, <2>1, BaseIs, FinishMoves
    <2>3. Ground
      BY <1>2, <2>1, <2>2, SteadyGround DEF Effect, runsVars
    <2>4. ASSUME client[k.client].step = k.step, Via(k.client) = "event",
                 script[k.client].steps[1] = "start", k.client \notin excused'
          PROVE  FALSE
      BY <1>2, <1>3, <1>4, <1>6, <2>4, Held DEF Base, Reporting
    <2> QED
      BY <1>2, <2>2, <2>3, <2>4, Refused
  <1>7. ASSUME NEW note, Succeed(k, r, note), Reporting(r),
               \/ boundaries[r][k.client].status # "none" /\ UNCHANGED runsVars
               \/ OpenBoundary(r, k.client, Announced[k.client])
        PROVE  WorkInv'
    <2>1. Moves /\ NothingApplied /\ NoneRefused /\ AnswersGrow(k.client, k.step, r)
      BY <1>2, <1>4, <1>5, <1>7, BaseIs, SucceedMoves
    <2>2. Ground
      BY <1>2, <1>4, <1>7, <2>1, SteadyGround DEF Effect, Acts, runsVars, OpenBoundary
    <2>3. boundaries'[r][k.client].status # "none"
      BY <1>2, <1>4, <1>7, BaseIs, OpenBoundaryGo DEF runsVars
    <2>4. runs' = runs
      BY <1>7 DEF runsVars, OpenBoundary
    <2>5. OfRun(k.client, r)' /\ runs'[r].mode = script[k.client].mode
      BY <1>3, <1>4, <1>5, <1>7, <2>4, SameScript DEF OfRun, Started, Reporting
    <2>6. Done(k.client, k.step, r)'
      BY <1>2, <1>5, <2>3, <2>5, SameScript DEF Done
    <2> QED
      BY <1>2, <1>3, <1>4, <2>1, <2>2, <2>5, <2>6, Accepted
  <1> QED
    BY <1>1, <1>6, <1>7 DEF OpenBoundary

LEMMA CloseChangeWork ==
    ASSUME Base, NEW k \in calls, CloseChange(k)
    PROVE  WorkInv'
  <1>1. PICK r \in RunId : r = k.run /\ OfRun(k.client, r) /\ runs[r].mode = script[k.client].mode
    BY DEF Base, WorkInv, Applies, CloseChange, Ready, OfRun
  <1>2. /\ k.client \in Client /\ k.step \in Steps(k.client) /\ KindOf(k) \in {"close", "post"}
        /\ Kind(k.client, k.step) = KindOf(k) /\ k.todo = {} /\ k.run \in RunId \cup {0}
        /\ Steady /\ excused' = excused /\ k.client \in Change
    BY BaseIs, CallTyped, ClientAssumption
       DEF CloseChange, Ready, Base, WorkInv, Swept, CallPosition
  <1>3. Via(k.client) # "cli" /\ (Via(k.client) = "event" => KindOf(k) = "close")
    BY <1>2, BaseIs, KindsAre
  <1>5. script' = script /\ responses' = responses
    BY <1>2 DEF Steady
  <1>6. CASE boundaries[r][k.client].status \in {"none", "aborted"} /\ Fail(k)
    <2>1. Finish(k, k.run, FALSE) /\ UNCHANGED runsVars
      BY <1>6 DEF Fail
    <2>2. Moves /\ NothingApplied /\ OneRefused(k.client, k.step) /\ AnswersStay
      BY <1>2, <1>5, <2>1, BaseIs, FinishMoves
    <2>3. Ground
      BY <1>2, <2>1, <2>2, SteadyGround DEF Effect, runsVars
    <2>4. ASSUME client[k.client].step = k.step, Via(k.client) = "event",
                 script[k.client].steps[1] = "start", k.client \notin excused'
          PROVE  FALSE
      <3>1. r \in ActiveRuns
        BY <1>1, <1>2, <2>4, Held DEF Base
      <3>2. k.step - 1 \in Steps(k.client) /\ Kind(k.client, k.step - 1) = "open"
        BY <1>2, <1>3, <2>4, BaseIs, Bracketed
      <3>3. Done(k.client, k.step - 1, r)
        BY <1>1, <2>4, <3>2, Before DEF Base
      <3>4. boundaries[r][k.client].status # "none"
        BY <3>2, <3>3 DEF Done
      <3>5. Aborted(r, k.client)
        BY <1>2 DEF Base, WorkInv
      <3> QED
        BY <1>6, <3>1, <3>4, <3>5 DEF Aborted, ActiveRuns
    <2> QED
      BY <1>2, <2>2, <2>3, <2>4, Refused
  <1>7. ASSUME NEW note, Succeed(k, r, note),
               \/ boundaries[r][k.client].status = "closed" /\ UNCHANGED runsVars
               \/ CloseBoundary(r, k.client, Announced[k.client])
        PROVE  WorkInv'
    <2>1. Moves /\ NothingApplied /\ NoneRefused /\ AnswersGrow(k.client, k.step, r)
      BY <1>2, <1>5, <1>7, BaseIs, SucceedMoves
    <2>2. Ground
      BY <1>2, <1>7, <2>1, SteadyGround DEF Effect, Acts, runsVars, CloseBoundary
    <2>3. boundaries'[r][k.client].status = "closed"
      BY <1>2, <1>7, BaseIs, CloseBoundaryGo DEF runsVars
    <2>4. runs' = runs
      BY <1>7 DEF runsVars, CloseBoundary
    <2>5. OfRun(k.client, r)' /\ runs'[r].mode = script[k.client].mode
      BY <1>1, <1>5, <2>4, SameScript DEF OfRun, Started
    <2>6. Done(k.client, k.step, r)'
      BY <1>2, <1>5, <2>3, <2>5, SameScript DEF Done
    <2> QED
      BY <1>2, <1>3, <2>1, <2>2, <2>5, <2>6, Accepted
  <1> QED
    BY <1>1, <1>6, <1>7 DEF CloseChange

LEMMA BeginIntentWork ==
    ASSUME Base, NEW k \in calls, BeginIntent(k)
    PROVE  WorkInv'
  <1>1. PICK r \in Target(k) :
           /\ \/ r \notin ActiveRuns /\ Fail(k)
              \/ /\ \E n \in ActiveIntents(r) : n.label = k.client
                 /\ Succeed(k, r, "active")
                 /\ UNCHANGED runsVars
              \/ InTheWay(k, r) /\ Fail(k)
              \/ StartIntent(r, k.client) /\ Succeed(k, r, "active")
           /\ ExcuseIfInTheWay(k, r)
    BY DEF BeginIntent
  <1>2. /\ k.client \in Client /\ k.step \in Steps(k.client) /\ KindOf(k) = "istart"
        /\ Kind(k.client, k.step) = "istart" /\ k.todo = {} /\ k.run \in RunId \cup {0}
        /\ Steady /\ CallPosition(k)
    BY BaseIs, CallTyped
       DEF BeginIntent, Due, Ready, Synced, Base, WorkInv, Swept, CallPosition
  <1>3. Via(k.client) = "event" /\ k.step \in Nat
    BY <1>2, BaseIs, KindsAre, Scripted
  <1>4. r \in RunId /\ OfRun(k.client, r) /\ Started(r)
    BY <1>2, TargetIs DEF OfRun
  <1>5. script' = script /\ responses' = responses /\ excused \subseteq excused'
        /\ (InTheWay(k, r) => k.client \in excused')
    BY <1>1, <1>2 DEF Steady, ExcuseIfInTheWay
  <1>6. CASE (r \notin ActiveRuns \/ InTheWay(k, r)) /\ Fail(k)
    <2>1. Finish(k, k.run, FALSE) /\ UNCHANGED runsVars
      BY <1>6 DEF Fail
    <2>2. Moves /\ NothingApplied /\ OneRefused(k.client, k.step) /\ AnswersStay
      BY <1>2, <1>5, <2>1, BaseIs, FinishMoves
    <2>3. Ground
      BY <1>2, <1>5, <2>1, <2>2, SteadyGround DEF Effect, runsVars
    <2>4. ASSUME client[k.client].step = k.step, Via(k.client) = "event",
                 script[k.client].steps[1] = "start", k.client \notin excused'
          PROVE  FALSE
      BY <1>2, <1>4, <1>5, <1>6, <2>4, Held DEF Base
    <2> QED
      BY <1>2, <2>2, <2>3, <2>4, Refused
  <1>7. ASSUME Succeed(k, r, "active"),
               \/ (\E n \in ActiveIntents(r) : n.label = k.client) /\ UNCHANGED runsVars
               \/ StartIntent(r, k.client)
        PROVE  WorkInv'
    <2>1. Moves /\ NothingApplied /\ NoneRefused /\ AnswersGrow(k.client, k.step, r)
      BY <1>2, <1>4, <1>5, <1>7, BaseIs, SucceedMoves
    <2>2. Ground
      BY <1>2, <1>4, <1>5, <1>7, <2>1, SteadyGround DEF Effect, Acts, runsVars, StartIntent
    <2>3. CASE k.step < client[k.client].step
      BY <1>2, <1>3, <1>4, <2>1, <2>2, <2>3, Again, AcceptedAgain DEF Base
    <2>4. CASE k.step = client[k.client].step
      <3>1. Made(k.client, k.step)' = {}
        BY <2>2, <2>4, NoneMade
      <3>2. runs' = runs
        BY <1>7 DEF runsVars, StartIntent
      <3>3. OfRun(k.client, r)'
        BY <1>4, <1>5, <3>2, SameScript DEF OfRun, Started
      <3>4. \E n \in intents' : n.run = r /\ n.label = k.client /\ n.active
        <4>1. CASE StartIntent(r, k.client)
          <5>1. PICK n : n = [run |-> r, label |-> k.client, active |-> TRUE,
                              start |-> MaxEventId, end |-> 0]
            OBVIOUS
          <5>2. n \in intents' /\ n.run = r /\ n.label = k.client /\ n.active
            BY <4>1, <5>1 DEF StartIntent
          <5> QED
            BY <5>2
        <4>2. CASE (\E n \in ActiveIntents(r) : n.label = k.client) /\ UNCHANGED runsVars
          BY <4>2 DEF ActiveIntents, runsVars
        <4> QED
          BY <1>7, <4>1, <4>2
      <3>5. Intended(k.client, k.step, r)'
        BY <3>1, <3>4 DEF Intended
      <3>6. Done(k.client, k.step, r)'
        BY <1>2, <1>5, <3>3, <3>5, SameScript DEF Done
      <3> QED
        BY <1>2, <1>3, <1>4, <2>1, <2>2, <3>3, <3>6, Accepted
    <2>5. client[k.client].step \in Nat
      BY <1>2, BaseIs, ClientTyped
    <2> QED
      BY <1>2, <1>3, <2>3, <2>4, <2>5 DEF CallPosition
  <1> QED
    BY <1>1, <1>6, <1>7

LEMMA EndIntentWork ==
    ASSUME Base, NEW k \in calls, EndIntent(k)
    PROVE  WorkInv'
  <1> DEFINE named == script[k.client].named
             none(r) == r \in ActiveRuns /\ ActiveIntents(r) = {}
             known(r) == named /\ \E n \in intents : n.run = r /\ n.label = k.client
  <1>1. PICK r \in Target(k) :
          /\ \/ r \notin ActiveRuns /\ Fail(k)
             \/ none(r) /\ known(r) /\ Succeed(k, r, "done") /\ UNCHANGED runsVars
             \/ none(r) /\ ~known(r) /\ Fail(k)
             \/ named /\ InTheWay(k, r) /\ Fail(k)
             \/ \E label \in Name :
                   /\ named => label = k.client
                   /\ CompleteIntent(r, label)
                   /\ Succeed(k, r, "done")
          /\ excused' = IF InTheWay(k, r) THEN excused \cup Disturbed(k, r) ELSE excused
    BY DEF EndIntent
  <1>2. /\ k.client \in Client /\ k.step \in Steps(k.client) /\ KindOf(k) = "idone"
        /\ Kind(k.client, k.step) = "idone" /\ k.todo = {} /\ k.run \in RunId \cup {0}
        /\ Steady
    BY BaseIs, CallTyped
       DEF EndIntent, Due, Ready, Synced, Base, WorkInv, Swept, CallPosition
  <1>3. /\ Via(k.client) = "event" /\ k.step \in Nat \ {0}
        /\ k.step - 1 \in Steps(k.client) /\ Kind(k.client, k.step - 1) = "istart"
    BY <1>2, BaseIs, KindsAre, Scripted, Bracketed
  <1>4. r \in RunId /\ OfRun(k.client, r) /\ Started(r)
    BY <1>2, TargetIs DEF OfRun
  <1>5. script' = script /\ responses' = responses /\ excused \subseteq excused'
        /\ (InTheWay(k, r) => k.client \in excused')
    BY <1>1, <1>2 DEF Steady, Disturbed
  <1>s. Intended(k.client, k.step - 1, r) \/ Cut(k.client)
    BY <1>3, <1>4, Before DEF Base, Done
  <1>c. ASSUME NEW label \in Name, named => label = k.client, CompleteIntent(r, label)
        PROVE  Cuts(k, label)
    <2>1. CASE label = k.client
      BY <2>1 DEF Cuts
    <2>2. CASE label # k.client
      <3>1. \E n \in ActiveIntents(r) : n.label = label
        BY <1>c DEF CompleteIntent
      <3>2. InTheWay(k, r) /\ ~named
        BY <1>c, <2>2, <3>1 DEF InTheWay
      <3>3. excused' = excused \cup Disturbed(k, r)
        BY <1>1, <3>2
      <3>4. Careless
        BY <1>2, <3>2 DEF Careless
      <3> QED
        BY <1>5, <3>1, <3>2, <3>3, <3>4 DEF Cuts, Disturbed
    <2> QED
      BY <2>1, <2>2
  <1>6. CASE (r \notin ActiveRuns \/ ~known(r) \/ InTheWay(k, r)) /\ Fail(k)
    <2>1. Finish(k, k.run, FALSE) /\ UNCHANGED runsVars
      BY <1>6 DEF Fail
    <2>2. Moves /\ NothingApplied /\ OneRefused(k.client, k.step) /\ AnswersStay
      BY <1>2, <1>5, <2>1, BaseIs, FinishMoves
    <2>3. Ground
      BY <1>2, <1>5, <2>1, <2>2, SteadyGround DEF Effect, runsVars
    <2>4. ASSUME client[k.client].step = k.step, Via(k.client) = "event",
                 script[k.client].steps[1] = "start", k.client \notin excused', named
          PROVE  FALSE
      <3>1. r \in ActiveRuns
        BY <1>2, <1>4, <1>5, <2>4, Held DEF Base
      <3>2. known(r)
        BY <1>5, <1>s, <2>4 DEF Intended, Cut
      <3> QED
        BY <1>5, <1>6, <2>4, <3>1, <3>2
    <2> QED
      BY <1>2, <2>2, <2>3, <2>4, Refused
  <1>7. ASSUME Succeed(k, r, "done"), r \in ActiveRuns,
               \/ ActiveIntents(r) = {} /\ UNCHANGED runsVars
               \/ \E x \in Name : CompleteIntent(r, x) /\ Cuts(k, x)
        PROVE  WorkInv'
    <2>1. Moves /\ NothingApplied /\ NoneRefused /\ AnswersGrow(k.client, k.step, r)
      BY <1>2, <1>4, <1>5, <1>7, BaseIs, SucceedMoves
    <2>2. Ground
      BY <1>2, <1>4, <1>5, <1>7, <2>1, SteadyGround DEF Effect, Acts, runsVars, CompleteIntent
    <2>3. runs' = runs
      BY <1>7 DEF runsVars, CompleteIntent
    <2>4. OfRun(k.client, r)'
      BY <1>4, <1>5, <2>3, SameScript DEF OfRun, Started
    <2>5. PICK i \in Steps(k.client) : i = k.step - 1 /\ i \in Nat \ {0}
      BY <1>2, <1>3, BaseIs, KindsAre
    <2>6. Over(k.client, i)
      <3>1. i < k.step /\ KindOf(k) # "end"
        BY <1>2, <1>3, <2>5
      <3> QED
        BY <1>2, <2>5, <3>1, CallOver DEF Base
    <2>7. \A e \in Made(k.client, i) : e <= MaxEventId
      BY BaseIs, MaxEventIdGreatest DEF Made
    <2>8. ASSUME NEW n \in intents, n.run = r, n.label = k.client,
                 \A e \in Made(k.client, i) : n.start < e,
                 n.active \/ \A e \in Made(k.client, i) : e <= n.end
          PROVE  \E m \in intents' :
                    /\ m.run = r /\ m.label = k.client /\ ~m.active
                    /\ \A e \in Made(k.client, i) : m.start < e /\ e <= m.end
      <3>1. CASE ~n.active
        <4>1. n \in intents'
          BY <2>2, <3>1, GroundGo DEF RunsGo, IntentsStay
        <4> QED
          BY <2>8, <3>1, <4>1
      <3>2. CASE n.active
        <4>1. n \in ActiveIntents(r)
          BY <2>8, <3>2 DEF ActiveIntents
        <4>2. intents' = CompletedIntents(ActiveIntents(r))
          BY <1>7, <4>1 DEF CompleteIntent
        <4>3. Closed(n) \in intents'
          BY <4>1, <4>2, CompletedStay
        <4>4. /\ Closed(n).run = n.run /\ Closed(n).label = n.label /\ ~Closed(n).active
              /\ Closed(n).start = n.start /\ Closed(n).end = MaxEventId
          BY BaseIs, ClosedIs
        <4> QED
          BY <2>7, <2>8, <4>3, <4>4
      <3> QED
        BY <3>1, <3>2
    <2>9. (\E m \in intents' :
              /\ m.run = r /\ m.label = k.client /\ ~m.active
              /\ \A e \in Made(k.client, i) : m.start < e /\ e <= m.end)
          \/ Cut(k.client)
      BY <1>7, <1>s, <2>5, <2>8 DEF Intended, ActiveRuns
    <2>10. Over(k.client, i)' /\ Made(k.client, i)' \subseteq Made(k.client, i)
      BY <1>2, <2>2, <2>5, <2>6, OverStays DEF Ground, WorkInv, IInv, Moves, Over
    <2>11. Finished(k.client, i, r)' \/ Cut(k.client)'
      BY <1>2, <2>2, <2>9, <2>10, CutStays DEF Finished
    <2>12. Done(k.client, k.step, r)'
      BY <1>2, <1>5, <2>4, <2>5, <2>11, SameScript DEF Done
    <2> QED
      BY <1>2, <1>3, <1>4, <2>1, <2>2, <2>4, <2>12, Accepted
  <1>8. CASE \E label \in Name : /\ named => label = k.client
                                /\ CompleteIntent(r, label)
                                /\ Succeed(k, r, "done")
    <2>1. r \in ActiveRuns /\ \E x \in Name : CompleteIntent(r, x) /\ Cuts(k, x)
      BY <1>8, <1>c DEF CompleteIntent
    <2> QED
      BY <1>7, <1>8, <2>1
  <1> QED
    BY <1>1, <1>6, <1>7, <1>8

LEMMA CheckWork ==
    ASSUME Base, NEW k \in calls, Check(k)
    PROVE  WorkInv'
  <1> DEFINE usable == {r \in Known(ExternalOf(k.client)) :
                           r \in ActiveRuns /\ runs[r].mode = script[k.client].mode}
  <1>1. /\ k.client \in Client /\ k.step \in Steps(k.client)
        /\ KindOf(k) \in {"close", "post", "checkpoint"}
        /\ Kind(k.client, k.step) = KindOf(k) /\ k.todo = {} /\ k.run \in RunId \cup {0}
        /\ Steady /\ UNCHANGED runsVars /\ excused' = excused /\ k.step \in Nat
    BY BaseIs, CallTyped DEF Check, Synced, CallPosition
  <1>2. script' = script /\ responses' = responses
    BY <1>1 DEF Steady
  <1>3. Moves => Ground
    BY <1>1, SteadyGround DEF Effect, runsVars
  <1>4. CASE usable = {} /\ Finish(k, k.run, FALSE)
    <2>1. Moves /\ NothingApplied /\ OneRefused(k.client, k.step) /\ AnswersStay
      BY <1>1, <1>2, <1>4, BaseIs, FinishMoves
    <2>2. ASSUME client[k.client].step = k.step, Via(k.client) = "event",
                 script[k.client].steps[1] = "start", k.client \notin excused'
          PROVE  FALSE
      <3>1. PICK r \in RunId : /\ OfRun(k.client, r) /\ runs[r].mode = script[k.client].mode
                               /\ r \in ActiveRuns
        BY <1>1, <2>2, Held DEF Base
      <3>2. r \in usable
        BY <3>1 DEF OfRun, Known, Started
      <3> QED
        BY <1>4, <3>2
    <2> QED
      BY <1>1, <1>3, <2>1, <2>2, Refused
  <1>5. ASSUME NEW r \in usable PROVE /\ r \in RunId /\ OfRun(k.client, r) /\ Started(r)
                                      /\ runs[r].mode = script[k.client].mode
    BY DEF Known, OfRun, Started
  <1>6. ASSUME NEW r \in usable, Proceed(k, r) PROVE WorkInv'
    <2>1. Moves /\ NoneRefused /\ AnswersStay /\ Applied(k.client, k.step, r)
      BY <1>1, <1>2, <1>5, <1>6, BaseIs, ProceedMoves
    <2>2. Started(r)' /\ runs'[r].external = ExternalOf(k.client)
          /\ runs'[r].mode = script[k.client].mode
      BY <1>1, <1>5 DEF runsVars, OfRun, Started
    <2> QED
      BY <1>1, <1>3, <1>5, <2>1, <2>2, Turned
  <1>7. ASSUME NEW r \in usable, KindOf(k) = "post", boundaries[r][k.client].status = "none",
               Finish(k, r, TRUE)
        PROVE  WorkInv'
    <2>1. Moves /\ NothingApplied /\ NoneRefused /\ AnswersGrow(k.client, k.step, r)
      BY <1>1, <1>2, <1>5, <1>7, BaseIs, FinishMoves
    <2>2. Via(k.client) = "hook" /\ k.step - 1 \in Steps(k.client)
          /\ Kind(k.client, k.step - 1) = "pre"
      BY <1>1, <1>7, BaseIs, KindsAre, Scripted, Bracketed
    <2>3. ASSUME k.step - 1 \in client[k.client].acked PROVE FALSE
      <3>1. PICK q \in RunId \cup {0} : q = client[k.client].run
        BY <1>1, BaseIs, ClientTyped
      <3>2. Answered(k.client, k.step - 1, q)
        BY <2>3, <3>1 DEF Answered
      <3>3. q = r
        BY <1>1, <1>5, <2>2, <3>2, AnsweredOne DEF Base
      <3>4. Done(k.client, k.step - 1, r)
        BY <1>1, <2>2, <3>2, <3>3 DEF Base, WorkInv
      <3> QED
        BY <1>7, <2>2, <3>4 DEF Done
    <2>4. k.step - 1 \notin client'[k.client].acked
      <3>1. client[k.client].step = k.step
        BY <1>1, <1>7, <2>2, Waiting DEF Base
      <3>2. client'[k.client].acked \subseteq client[k.client].acked \cup {k.step}
        BY <1>1, <2>1, <3>1 DEF Moves, Onward
      <3>3. k.step - 1 # k.step
        BY <1>1
      <3> QED
        BY <2>3, <3>2, <3>3
    <2>5. OfRun(k.client, r)' /\ runs'[r].mode = script[k.client].mode
      BY <1>1, <1>2, <1>5, SameScript DEF OfRun, Started, runsVars
    <2>6. Done(k.client, k.step, r)'
      BY <1>1, <1>2, <1>7, <2>4, <2>5, SameScript DEF Done
    <2> QED
      BY <1>1, <1>3, <1>5, <2>1, <2>2, <2>5, <2>6, Accepted
  <1> QED
    BY <1>4, <1>6, <1>7 DEF Check

LEMMA ObtainWork ==
    ASSUME Base, NEW k \in calls, Obtain(k)
    PROVE  WorkInv'
  <1> DEFINE x == ExternalOf(k.client)
             mode == script[k.client].mode
  <1>1. /\ k.client \in Client /\ k.step \in Steps(k.client)
        /\ KindOf(k) \in {"start", "run", "begin", "pre"}
        /\ Kind(k.client, k.step) = KindOf(k) /\ k.todo = {} /\ k.run \in RunId \cup {0}
        /\ Steady /\ k.step \in Nat \ {0}
    BY BaseIs, CallTyped DEF Obtain, Synced, CallPosition
  <1>2. script' = script /\ responses' = responses
    BY <1>1 DEF Steady
  <1>3. /\ KindOf(k) = "run" <=> Via(k.client) = "cli"
        /\ KindOf(k) \in {"begin", "pre"} <=> Via(k.client) = "hook"
        /\ x = NoExternal <=> Via(k.client) = "cli"
        /\ Via(k.client) = "hook" => mode = "reported"
    BY <1>1, BaseIs, KindsAre, Scripted
  <1>4. ASSUME Fail(k), excused' = excused \cup {k.client} PROVE WorkInv'
    <2>1. Finish(k, k.run, FALSE) /\ UNCHANGED runsVars
      BY <1>4 DEF Fail
    <2>2. Moves /\ NothingApplied /\ OneRefused(k.client, k.step) /\ AnswersStay
      BY <1>1, <1>2, <2>1, BaseIs, FinishMoves
    <2>3. Ground
      BY <1>1, <1>4, <2>1, <2>2, SteadyGround DEF Effect, runsVars
    <2> QED
      BY <1>1, <1>4, <2>2, <2>3, Refused
  <1>5. ASSUME NEW r \in RunId, Obtained(k, r), excused' = excused,
               \/ /\ UNCHANGED runsVars /\ x # NoExternal /\ OfRun(k.client, r)
                  /\ Acceptable(k, r)
               \/ StartRun(r, x, mode)
        PROVE  WorkInv'
    <2>1. /\ Started(r)' /\ runs'[r].external = x
          /\ runs'[r].mode = mode
      <3>1. CASE StartRun(r, x, mode)
        BY <3>1, BaseIs, StartRunGo
      <3>2. CASE UNCHANGED runsVars /\ OfRun(k.client, r) /\ Acceptable(k, r)
        BY <1>3, <3>2 DEF runsVars, OfRun, Started, Acceptable, Reporting
      <3> QED
        BY <1>5, <3>1, <3>2
    <2>2. OfRun(k.client, r)'
      BY <1>2, <2>1, SameScript DEF OfRun
    <2>3. Moves => Ground
      <3>1. Effect
        BY <1>1, <1>5 DEF Effect, Acts
      <3>2. events' = events
        BY <1>5 DEF runsVars, StartRun
      <3> QED
        BY <1>1, <3>1, <3>2, SteadyGround
    <2>4. CASE KindOf(k) = "pre"
      <3>1. Moves /\ NoneRefused /\ AnswersStay /\ Applied(k.client, k.step, r)
        BY <1>1, <1>2, <1>5, <2>4, BaseIs, ProceedMoves DEF Obtained
      <3> QED
        BY <1>1, <2>1, <2>3, <2>4, <3>1, Turned
    <2>5. CASE KindOf(k) # "pre"
      <3>0. PICK note : Succeed(k, r, note)
        BY <1>5, <2>5 DEF Obtained
      <3>1. Moves /\ NothingApplied /\ NoneRefused /\ AnswersGrow(k.client, k.step, r)
        BY <1>1, <1>2, <3>0, BaseIs, SucceedMoves
      <3>2. CASE KindOf(k) # "run"
        <4>1. Done(k.client, k.step, r)'
          BY <1>1, <1>2, <2>1, <2>2, <2>5, <3>2, SameScript DEF Done
        <4> QED
          BY <1>1, <1>3, <2>2, <2>3, <3>1, <3>2, <4>1, Accepted
      <3>3. CASE KindOf(k) = "run"
        <4>1. client[k.client].step = k.step /\ k.step = 1
          BY <1>1, <1>3, <3>3, Waiting, BaseIs, Bracketed DEF Base
        <4>2. client[k.client].acked = {}
          <5>1. client[k.client].acked \subseteq 1 .. client[k.client].step - 1
            BY <1>1, BaseIs, ClientTyped
          <5> QED
            BY <4>1, <5>1
        <4>3. Made(k.client, k.step)' = {}
          BY <2>3, <3>1, <4>1, NoneMade
        <4>4. runs'[r].status = "active"
          BY <1>3, <1>5, <3>3, BaseIs, StartRunGo
        <4>5. Wrapping(k.client, k.step, r)'
          BY <4>3, <4>4 DEF Wrapping
        <4>6. Done(k.client, k.step, r)'
          BY <1>1, <1>2, <2>1, <2>2, <3>3, <4>5, SameScript DEF Done
        <4> QED
          BY <1>1, <2>3, <3>1, <4>2, <4>6, Accepted
      <3> QED
        BY <3>2, <3>3
    <2> QED
      BY <2>4, <2>5
  <1>6. ASSUME NEW r \in Known(x) PROVE r \in RunId /\ OfRun(k.client, r)
    BY DEF Known, OfRun, Started
  <1> QED
    BY <1>4, <1>5, <1>6 DEF Obtain

\* What the end of a Run leaves behind.
LEMMA EndRunWork ==
    ASSUME Base, NEW k \in calls, NEW r \in RunId, EndRun(k, r), Steady, k.todo = {},
           KindOf(k) \in {"complete", "end", "done", "stop"}, Started(r)
    PROVE  /\ Ground /\ NothingApplied /\ NoneRefused /\ AnswersGrow(k.client, k.step, r)
           /\ runs'[r].status = "ended" /\ runs'[r].external = runs[r].external
           /\ runs'[r].mode = runs[r].mode /\ Started(r)' /\ script' = script
  <1>1. script' = script /\ responses' = responses
    BY DEF Steady
  <1>2. Moves /\ NothingApplied /\ NoneRefused /\ AnswersGrow(k.client, k.step, r)
    BY <1>1, BaseIs, SucceedMoves DEF EndRun
  <1>3. Effect /\ events' = events
    BY DEF EndRun, Effect, Acts, Ends, runsVars, CompleteRun
  <1>4. Ground
    BY <1>2, <1>3, SteadyGround
  <1>5. runs'[r].status = "ended"
    <2>1. CASE r \in ActiveRuns
      BY <2>1, BaseIs, CompleteRunGo DEF EndRun
    <2>2. CASE r \notin ActiveRuns
      BY <2>2, BaseIs DEF EndRun, runsVars, ActiveRuns, Started, RunsTypeOK, Run
    <2> QED
      BY <2>1, <2>2
  <1> QED
    BY <1>1, <1>2, <1>4, <1>5, GroundGo DEF RunsGo, RunsStay

LEMMA CompleteWork ==
    ASSUME Base, NEW k \in calls, Complete(k)
    PROVE  WorkInv'
  <1> DEFINE own == IF Via(k.client) = "cli" THEN {client[k.client].run}
                    ELSE Known(ExternalOf(k.client))
             fits == {r \in own : runs[r].mode = script[k.client].mode}
  <1>1. /\ k.client \in Client /\ k.step \in Steps(k.client)
        /\ KindOf(k) \in {"complete", "end", "done"}
        /\ Kind(k.client, k.step) = KindOf(k) /\ k.todo = {} /\ k.run \in RunId \cup {0}
        /\ Steady /\ k.step \in Nat \ {0} /\ script \in Scripts
    BY BaseIs, CallTyped DEF Complete, Synced, CallPosition
  <1>2. script' = script /\ responses' = responses
    BY <1>1 DEF Steady
  <1>3. /\ KindOf(k) = "done" <=> Via(k.client) = "cli"
        /\ KindOf(k) = "end" <=> Via(k.client) = "hook"
        /\ KindOf(k) = "complete" <=> Via(k.client) = "event"
    BY <1>1, KindsAre, Scripted
  <1>4. ASSUME KindOf(k) = "done"
        PROVE  /\ OfRun(k.client, client[k.client].run)
               /\ k.step - 1 \in Nat /\ Over(k.client, k.step - 1)
    <2>1. k.step - 1 \in Steps(k.client) /\ Kind(k.client, k.step - 1) = "run"
      BY <1>1, <1>4, Bracketed
    <2>2. k.step - 1 \in Nat \ {0}
      BY <1>1, <2>1, KindsAre
    <2>3. PICK q \in RunId \cup {0} : q = client[k.client].run
      BY <1>1, BaseIs, ClientTyped
    <2>4. k.step - 1 \in client[k.client].acked
      <3>1. client[k.client].step = k.step
        BY <1>3, <1>4, Waiting DEF Base
      <3>2. client[k.client].acked = 1 .. client[k.client].step - 1
        BY <1>1, <1>3, <1>4, BaseIs, ClientTyped
      <3> QED
        BY <1>1, <2>2, <3>1, <3>2
    <2>5. Answered(k.client, k.step - 1, q)
      BY <2>3, <2>4 DEF Answered
    <2>6. Done(k.client, k.step - 1, q)
      BY <1>1, <2>1, <2>5 DEF Base, WorkInv
    <2>7. OfRun(k.client, q)
      BY <2>1, <2>6 DEF Done
    <2>8. Over(k.client, k.step - 1)
      <3>1. k.step - 1 < k.step /\ KindOf(k) # "end"
        BY <1>1, <1>4
      <3> QED
        BY <1>1, <2>2, <3>1, CallOver DEF Base
    <2> QED
      BY <2>2, <2>3, <2>7, <2>8
  <1>5. ASSUME NEW r \in fits
        PROVE  /\ r \in RunId /\ OfRun(k.client, r) /\ Started(r)
               /\ runs[r].mode = script[k.client].mode
               /\ Via(k.client) = "cli" => r = client[k.client].run
    <2>1. CASE Via(k.client) = "cli"
      BY <1>3, <1>4, <2>1 DEF OfRun
    <2>2. CASE Via(k.client) # "cli"
      BY <2>2 DEF OfRun, Known, Started
    <2> QED
      BY <2>1, <2>2
  <1>6. ASSUME NEW r \in fits, EndRun(k, r) PROVE WorkInv'
    <2>1. /\ Ground /\ NothingApplied /\ NoneRefused /\ AnswersGrow(k.client, k.step, r)
          /\ runs'[r].status = "ended" /\ runs'[r].external = runs[r].external
          /\ runs'[r].mode = runs[r].mode /\ Started(r)'
      BY <1>1, <1>5, <1>6, EndRunWork
    <2>2. OfRun(k.client, r)' /\ runs'[r].mode = script[k.client].mode
      BY <1>2, <1>5, <2>1, SameScript DEF OfRun
    <2>3. KindOf(k) = "done" => Over(k.client, k.step - 1)'
      BY <1>1, <1>4, <2>1, OverStays DEF Over, Ground, WorkInv, IInv, Moves
    <2>4. Done(k.client, k.step, r)'
      BY <1>1, <1>2, <2>1, <2>2, <2>3, SameScript DEF Done
    <2> QED
      BY <1>1, <1>5, <2>1, <2>2, <2>4, Accepted
  <1>7. ASSUME fits = {}, Finish(k, k.run, Via(k.client) = "hook"), UNCHANGED <<runsVars, excused>>
        PROVE  WorkInv'
    <2>1. Moves => Ground
      BY <1>1, <1>7, SteadyGround DEF Effect, runsVars
    <2>2. CASE Via(k.client) # "hook"
      <3>1. Finish(k, k.run, FALSE)
        BY <1>7, <2>2
      <3>2. Moves /\ NothingApplied /\ OneRefused(k.client, k.step) /\ AnswersStay
        BY <1>1, <1>2, <3>1, BaseIs, FinishMoves
      <3>3. ASSUME client[k.client].step = k.step, Via(k.client) = "event",
                   script[k.client].steps[1] = "start", k.client \notin excused'
            PROVE  FALSE
        <4>1. PICK r \in RunId : OfRun(k.client, r) /\ runs[r].mode = script[k.client].mode
          BY <1>1, <1>7, <3>3, Held DEF Base
        <4>2. r \in fits
          BY <3>3, <4>1 DEF OfRun, Known, Started
        <4> QED
          BY <1>7, <4>2
      <3> QED
        BY <1>1, <2>1, <3>2, <3>3, Refused
    <2>3. CASE Via(k.client) = "hook"
      <3>1. Finish(k, k.run, TRUE) /\ KindOf(k) = "end"
        BY <1>3, <1>7, <2>3
      <3>2. Moves /\ NothingApplied /\ NoneRefused /\ AnswersGrow(k.client, k.step, k.run)
        BY <1>1, <1>2, <3>1, BaseIs, FinishMoves
      <3>3. ASSUME NEW i \in client[k.client].acked,
                   Kind(k.client, i) \notin {"begin", "end", "stop"}
            PROVE  FALSE
        <4>1. PICK q \in RunId \cup {0} : q = client[k.client].run
          BY <1>1, BaseIs, ClientTyped
        <4>2. i \in Steps(k.client)
          <5>1. client[k.client].step = k.step /\ i \in 1 .. k.step - 1
            BY <1>1, <2>3, <3>1, BaseIs, ClientTyped, Waiting DEF Base
          <5>2. Len(script[k.client].steps) \in Nat
                /\ Steps(k.client) = 1 .. Len(script[k.client].steps)
            BY <1>1, Scripted
          <5> QED
            BY <1>1, <5>1, <5>2
        <4>3. Answered(k.client, i, q)
          BY <4>1 DEF Answered
        <4>4. Done(k.client, i, q)
          BY <1>1, <4>2, <4>3 DEF Base, WorkInv
        <4>5. OfRun(k.client, q)
          BY <3>3, <4>4 DEF Done
        <4>6. Kind(k.client, i) \in {"pre", "post"}
          BY <1>1, <2>3, <3>3, <4>2, KindsAre
        <4>7. runs[q].mode = script[k.client].mode
          BY <4>4, <4>6 DEF Done
        <4>8. q \in fits
          BY <2>3, <4>5, <4>7 DEF OfRun, Known, Started
        <4> QED
          BY <1>7, <4>8
      <3>4. Kind(k.client, k.step)' = "end"
        BY <1>1, <1>2, <3>1, SameScript
      <3>5. Done(k.client, k.step, k.run)'
        BY <3>4 DEF Done
      <3> QED
        BY <1>1, <2>1, <3>2, <3>3, <3>5, Accepted
    <2> QED
      BY <2>2, <2>3
  <1> QED
    BY <1>6, <1>7 DEF Complete

LEMMA StopWork ==
    ASSUME Base, NEW k \in calls, PickRun(k) \/ StopRun(k)
    PROVE  WorkInv'
  <1>1. /\ k.client \in Client /\ k.step \in Steps(k.client)
        /\ KindOf(k) = "stop" /\ Kind(k.client, k.step) = "stop"
        /\ k.todo = {} /\ k.run \in RunId \cup {0} /\ Steady
    BY BaseIs, CallTyped
       DEF PickRun, StopRun, Synced, Ready, CallPosition, Base, WorkInv, Swept
  <1>2. script' = script /\ responses' = responses
    BY <1>1 DEF Steady
  <1>3. Via(k.client) = "cli" /\ k.step = 1
    BY <1>1, BaseIs, KindsAre, Scripted, Bracketed
  <1>4. CASE PickRun(k)
    <2>1. Moves => Ground
      BY <1>1, <1>4, SteadyGround DEF PickRun, Effect, runsVars
    <2>2. ASSUME NEW r \in ActiveRuns, Proceed(k, r) PROVE WorkInv'
      <3>1. r \in RunId /\ Started(r)'
        BY <1>4 DEF PickRun, runsVars, ActiveRuns, Started
      <3>2. Moves /\ NoneRefused /\ AnswersStay /\ Applied(k.client, k.step, r)
        BY <1>1, <1>2, <2>2, <3>1, BaseIs, ProceedMoves
      <3> QED
        BY <1>1, <2>1, <3>1, <3>2, Turned
    <2>3. CASE Finish(k, k.run, FALSE)
      <3>1. Moves /\ NothingApplied /\ OneRefused(k.client, k.step) /\ AnswersStay
        BY <1>1, <1>2, <2>3, BaseIs, FinishMoves
      <3> QED
        BY <1>1, <1>3, <2>1, <3>1, Refused
    <2> QED
      BY <1>4, <2>2, <2>3 DEF PickRun
  <1>5. CASE StopRun(k)
    <2>1. PICK r \in RunId : r = k.run /\ Started(r) /\ EndRun(k, r)
      BY <1>5 DEF StopRun, Ready, Base, WorkInv, Applies
    <2>2. Ground /\ NothingApplied /\ NoneRefused /\ AnswersGrow(k.client, k.step, r)
      BY <1>1, <2>1, EndRunWork
    <2>3. client[k.client].acked = {}
      <3>1. client[k.client].step = 1
        BY <1>1, <1>3, Waiting DEF Base
      <3>2. client[k.client].acked \subseteq 1 .. client[k.client].step - 1
        BY <1>1, BaseIs, ClientTyped
      <3> QED
        BY <3>1, <3>2
    <2>4. Kind(k.client, k.step)' = "stop"
      BY <1>1, <1>2, SameScript
    <2>5. Done(k.client, k.step, r)'
      BY <2>4 DEF Done
    <2> QED
      BY <1>1, <2>2, <2>3, <2>5, Accepted
  <1> QED
    BY <1>4, <1>5

-------------------------------------------------------------------------------
(* Work is attributed                                                      *)

\* At the start nothing was done.
LEMMA WorkStarts ==
    ASSUME Init
    PROVE  WorkInv
  <1>1. /\ script \in Scripts /\ calls = {} /\ DOMAIN responses = {}
        /\ \A c \in Client : client[c] = [step |-> 1, state |-> "ready", tries |-> 0,
                                          run |-> 0, acked |-> {}]
        /\ client \in [Client -> Client0]
        /\ unseen = [p \in Path |-> {}] /\ DOMAIN events = {} /\ DOMAIN authors = {}
        /\ \A r \in RunId : ~Started(r)
        /\ \A r \in RunId, c \in Change : boundaries[r][c].status = "none"
        /\ intents = {}
        /\ \A r \in RunId : DOMAIN checkpoints[r] = {}
    BY DEF Init, RunsInit, Absent, Started, NoBoundary, Client0
  <1>2. CallInv
    <2>1. ASSUME NEW c \in Client PROVE Position(c)
      <3>1. client[c].step = 1 /\ client[c].acked = {} /\ client[c].state = "ready"
        BY <1>1
      <3>2. 1 .. 1 - 1 = {}
        OBVIOUS
      <3> QED
        BY <3>1, <3>2 DEF Position
    <2> QED
      BY <1>1, <2>1 DEF CallInv, CallsFit, Typed, OneCall
  <1>3. FilesTyped /\ OneRun /\ OneIntent /\ IntentsPast
    BY <1>1 DEF FilesTyped, OneRun, OneIntent, IntentsPast
  <1>4. \A c \in Client, i \in Nat : Tagged(c, i)
    BY <1>1 DEF Tagged, Recorded, Made
  <1>5. \A r \in RunId, c \in Client :
           /\ Aborted(r, c)
           /\ \A i \in Steps(c) : Brackets(r, c, i) /\ Covers(r, c, i)
    BY <1>1, ClientAssumption DEF Aborted, Brackets, Covers
  <1>6. \A c \in Client : \A i \in Steps(c), r \in RunId \cup {0} : ~Answered(c, i, r)
    BY <1>1 DEF Answered
  <1>7. \A c \in Client : Lasting(c) /\ Welcome(c)
    BY <1>1 DEF Lasting, Welcome, OfRun
  <1> QED
    BY <1>1, <1>2, <1>3, <1>4, <1>5, <1>6, <1>7 DEF WorkInv

\* And every step keeps the invariant.
LEMMA WorkGoesOn ==
    ASSUME WorkInv, IInv, IInv', [Next]_vars
    PROVE  WorkInv'
  <1>1. Base
    BY EveryStep DEF Base, Step, WorkInv, CallInv
  <1>2. CASE UNCHANGED vars
    <2>1. UNCHANGED <<script, client, calls, responses, excused>> /\ UNCHANGED runsVars
          /\ UNCHANGED fileVars
      BY <1>2 DEF vars, callVars
    <2>2. Moves /\ NoneRefused /\ AnswersStay /\ NothingApplied
      BY <1>1, <2>1, BaseIs, StillMoves
    <2>3. FilesGo /\ Effect
      BY <1>1, <2>1, BaseIs, FilesStill DEF runsVars, Effect
    <2> QED
      BY <1>1, <2>2, <2>3, Settled DEF Ground, Base
  <1>3. CASE \/ \E p \in Path : WorkOutside(p)
             \/ \E paths \in SUBSET Path : Observe(paths)
             \/ \E old \in SUBSET DOMAIN events : Prune(old)
    BY <1>1, <1>3, OutsideWork
  <1>4. ASSUME NEW c \in Client, (\E p \in Path : Work(c, p)) \/ Send(c) \/ Resend(c)
        PROVE  WorkInv'
    BY <1>1, <1>4, ClientWork
  <1>5. ASSUME NEW k \in calls,
               \/ SyncPath(k) \/ Obtain(k) \/ Check(k) \/ NotFound(k)
               \/ OpenChange(k) \/ CloseChange(k) \/ Mark(k)
               \/ BeginIntent(k) \/ EndIntent(k) \/ Complete(k)
               \/ PickRun(k) \/ StopRun(k) \/ SaveAnswer(k) \/ Die(k)
        PROVE  WorkInv'
    BY <1>1, <1>5, SyncPathWork, ObtainWork, CheckWork, NotFoundWork, OpenChangeWork,
       CloseChangeWork, MarkWork, BeginIntentWork, EndIntentWork, CompleteWork,
       StopWork, SaveAnswerWork, DieWork
  <1> QED
    BY <1>2, <1>3, <1>4, <1>5 DEF Next

\* The invariant says what was asked.
LEMMA WorkMeans ==
    ASSUME WorkInv, IInv
    PROVE  WorkIsAttributed /\ RetriesSucceed
  <1>1. script \in Scripts /\ CallInv
    BY DEF WorkInv, CallInv, CallsFit
  <1>2. ASSUME NEW c \in Client, NEW i \in client[c].acked, NEW r, r = client[c].run
        PROVE  /\ i \in Steps(c) /\ i \in Nat \ {0} /\ Done(c, i, r)
               /\ i + 1 \in client[c].acked => i + 1 \in Steps(c) /\ Done(c, i + 1, r)
    <2>1. r \in RunId \cup {0} /\ client[c].acked \subseteq Steps(c)
      BY <1>1, <1>2, ClientTyped DEF CallInv, Position
    <2>2. \A j \in client[c].acked : Answered(c, j, r)
      BY <1>2 DEF Answered
    <2> QED
      BY <1>1, <2>1, <2>2, KindsAre DEF WorkInv
  <1>3. ASSUME NEW c \in Client, NEW i \in client[c].acked, NEW r, r = client[c].run,
               Kind(c, i) \in Openers, i + 1 \in client[c].acked,
               Kind(c, i) = "run" \/ (Kind(c, i) = "istart" /\ Careless) => c \notin excused
        PROVE  Attributed(c, i,
                  CASE Kind(c, i) = "run" -> Members(r)
                    [] Kind(c, i) = "istart" ->
                          UNION {Between(n.start, n.end) : n \in
                                   {n \in intents : n.run = r /\ n.label = c /\ ~n.active}}
                    [] OTHER -> claims[r])
    <2>1. /\ i \in Steps(c) /\ i \in Nat \ {0} /\ Done(c, i, r)
          /\ i + 1 \in Steps(c) /\ Done(c, i + 1, r) /\ (i + 1) - 1 = i
      BY <1>2, <1>3
    <2>2. ASSUME NEW E, Recorded(c, i), Made(c, i) \subseteq E PROVE Attributed(c, i, E)
      BY <2>2 DEF Attributed, Recorded, Made
    <2>3. Kind(c, i) \in {"open", "istart", "pre", "run"}
      BY <1>1, <1>3, <2>1, Bracketed
    <2>4. CASE Kind(c, i) \in {"open", "pre"}
      <3>1. OfRun(c, r) /\ r \in RunId
        BY <2>1, <2>4 DEF Done, OfRun
      <3>2. Kind(c, i + 1) \in {"close", "post"}
        BY <1>1, <2>1, <2>4, Bracketed
      <3>3. boundaries[r][c].status = "closed"
        BY <2>1, <3>2, <1>3 DEF Done
      <3>4. Over(c, i) /\ Made(c, i) \subseteq claims[r]
        BY <2>1, <2>4, <3>1, <3>3 DEF WorkInv, Brackets
      <3> QED
        BY <2>2, <2>4, <3>4 DEF Over
    <2>5. CASE Kind(c, i) = "istart"
      <3>1. Kind(c, i + 1) = "idone"
        BY <1>1, <2>1, <2>5, Bracketed
      <3>2. Finished(c, i, r)
        BY <1>3, <2>1, <2>5, <3>1 DEF Done, Cut
      <3>3. PICK n \in intents :
               /\ n.run = r /\ n.label = c /\ ~n.active
               /\ \A e \in Made(c, i) : n.start < e /\ e <= n.end
        BY <3>2 DEF Finished
      <3>4. Made(c, i) \subseteq Between(n.start, n.end)
        BY <3>3 DEF Between, Made
      <3>5. Made(c, i) \subseteq
               UNION {Between(m.start, m.end) : m \in
                        {m \in intents : m.run = r /\ m.label = c /\ ~m.active}}
        BY <3>3, <3>4
      <3> QED
        BY <2>2, <2>5, <3>2, <3>5 DEF Finished, Over
    <2>6. CASE Kind(c, i) = "run"
      <3>1. Kind(c, i + 1) = "done"
        BY <1>1, <2>1, <2>6, Bracketed
      <3>2. Over(c, i) /\ runs[r].status = "ended" /\ OfRun(c, r) /\ r \in RunId
        BY <2>1, <3>1 DEF Done, OfRun
      <3>3. \A e \in Made(c, i) : runs[r].start < e /\ e <= runs[r].end
        BY <1>3, <2>1, <2>6, <3>2 DEF Done, Wrapping
      <3>4. runs[r].mode = "window"
        <4>1. runs[r].mode = script[c].mode
          BY <2>1, <2>6 DEF Done
        <4> QED
          BY <1>1, <2>1, <2>6, <4>1, KindsAre, Scripted
      <3>5. Made(c, i) \subseteq Members(r)
        BY <3>2, <3>3, <3>4 DEF Members, Between, Made
      <3> QED
        BY <2>2, <2>6, <3>2, <3>5 DEF Over
    <2> QED
      BY <2>3, <2>4, <2>5, <2>6
  <1>4. ASSUME NEW c \in Client, NEW i \in client[c].acked, NEW r, r = client[c].run,
               Kind(c, i) = "checkpoint"
        PROVE  /\ c \in DOMAIN checkpoints[r]
               /\ \A j \in 1 .. i :
                     Attributed(c, j, {e \in DOMAIN events : e <= checkpoints[r][c]})
    <2>1. i \in Steps(c) /\ Done(c, i, r)
      BY <1>2, <1>4
    <2>2. r \in RunId /\ c \in DOMAIN checkpoints[r]
      BY <1>4, <2>1 DEF Done, OfRun
    <2>3. Covers(r, c, i)
      BY <2>1, <2>2 DEF WorkInv
    <2> QED
      BY <1>4, <2>2, <2>3 DEF Covers, Attributed, Recorded, Made
  <1>5. WorkIsAttributed
    BY <1>3, <1>4 DEF WorkIsAttributed
  <1>6. RetriesSucceed
    BY DEF WorkInv, Welcome, RetriesSucceed, Kind
  <1> QED
    BY <1>5, <1>6

\* So it holds.
LEMMA WorkInvariance == Spec => []WorkInv /\ []IInv
  <1>1. Spec => []IInv
    BY ImplementsRuns, Invariance, PTL
  <1>2. Init => WorkInv
    BY WorkStarts
  <1>3. WorkInv /\ IInv /\ IInv' /\ [Next]_vars => WorkInv'
    BY WorkGoesOn
  <1> QED
    BY <1>1, <1>2, <1>3, PTL DEF Spec

\* Whatever else is recorded, sent twice, pruned, ended or dies at the same
\* time, what a client did between two calls that succeeded is recorded and
\* belongs to its Run, and a checkpoint covers what was reported before it.
THEOREM WorkAttributed == Spec => []WorkIsAttributed
  <1>1. WorkInv /\ IInv => WorkIsAttributed
    BY WorkMeans
  <1> QED
    BY <1>1, WorkInvariance, PTL

\* An integration that starts its Run, and that nobody else gets in the way
\* of, is never refused, however often its calls die and are sent again.
THEOREM RetriesAnswered == Spec => []RetriesSucceed
  <1>1. WorkInv /\ IInv => RetriesSucceed
    BY WorkMeans
  <1> QED
    BY <1>1, WorkInvariance, PTL

===============================================================================

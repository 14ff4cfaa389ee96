---------------------------- MODULE Topology_proofs ----------------------------
(***************************************************************************)
(* Proofs about Topology, for every forest of folders, any number of Runs  *)
(* and commands and every bound: a command finds a project whenever one is *)
(* there, a Run stays within reach of the folder it was started in, no     *)
(* Run starts with older changes still to be recorded, and the two         *)
(* completions that synchronize the project of the Run leave none out.     *)
(***************************************************************************)
EXTENDS Topology, FiniteSetTheorems, WellFoundedInduction, TLAPS

-------------------------------------------------------------------------------
(* The inductive invariant.                                                *)

Folders == Folder \cup {None}
Given == Run \cup {None}
Places == {"idle", "look", "ensure", "spawn", "wait", "project", "sync", "begin",
           "choose", "child", "complete"}

RunRow == [state : {"unused", "active", "done"}, project : Folders, root : Folders,
           cwd : Folders, by : Kinds \cup {"launch failed", None},
           owed : SUBSET Folder, early : SUBSET Folder, missed : SUBSET Folder]

CommandState == [kind : Kinds \cup {"none"}, pc : Places, cwd : Folders, ensured : Folders,
                 root : Folders, project : Folders, run : Given, since : SUBSET Folder]

TypeOK ==
    /\ projects \in SUBSET Folder
    /\ recorder \in [Folder -> {"none", "locked", "starting", "ready"}]
    /\ tracked \in [Folder -> SUBSET Folder]
    /\ pending \in [Folder -> SUBSET Folder]
    /\ vanished \in SUBSET Folder
    /\ runs \in [Run -> RunRow]
    /\ cmd \in [Proc -> CommandState]
    /\ changes \in Nat /\ starts \in Nat /\ commands \in Nat

Started(r) == runs[r].state # "unused"

\* A Run belongs to a project around the folder it was started in.
Placed(r) ==
    IF Started(r)
    THEN /\ runs[r].project \in projects
         /\ runs[r].project \in Folder
         /\ runs[r].root \in Folder
         /\ runs[r].cwd \in Folder
         /\ Inside(runs[r].cwd, runs[r].project)
    ELSE runs[r] = Unused

\* What an active Run owes is what its project still has to record.
Owing(r) ==
    runs[r].state = "active" =>
        /\ runs[r].owed \subseteq pending[runs[r].project]
        /\ runs[r].owed \subseteq Tree(runs[r].project)
        /\ runs[r].missed = {}

\* What a project's history has, but not in its present state.
Stale(q) == pending[q] \cap tracked[q]

\* The command of `undo run`, once it has a Run: the Run is its own, was
\* started clean, and is completed in the root it was started with.
Keeps(p, r) ==
    /\ Started(r)
    /\ cmd[p].project = runs[r].project
    /\ cmd[p].root = runs[r].root
    /\ runs[r].early = {}

\* Which kinds of command stand where, and which Run they may have.
Standing(p) ==
    /\ cmd[p].pc \in {"spawn", "wait", "project", "ensure"} =>
          /\ cmd[p].kind \in {"run start", "run", "run stop"}
          /\ cmd[p].kind # "run" => cmd[p].project = None
          /\ cmd[p].run = None => cmd[p].project = None
    /\ cmd[p].pc = "look" => cmd[p].kind \in ReadOnly /\ cmd[p].run = None
    /\ cmd[p].pc = "sync" =>
          \/ cmd[p].kind \in {"run start", "run", "run stop"}
          \/ cmd[p].kind = "session stop" /\ cmd[p].run # None
    /\ cmd[p].pc = "begin" => cmd[p].kind \in {"run start", "run", "session start"}
                              /\ cmd[p].run = None
    /\ cmd[p].pc = "choose" => cmd[p].kind \in {"run stop", "session stop"}
    /\ cmd[p].pc = "child" => cmd[p].kind = "run" /\ cmd[p].run # None
    /\ cmd[p].pc = "complete" =>
          cmd[p].kind \in {"run", "run stop", "session stop"} /\ cmd[p].run # None
    /\ cmd[p].kind = "run start" => cmd[p].run = None
    /\ cmd[p].pc = "idle" => cmd[p] = Idle

\* The folder, root and project of a command lie in each other.
Within(p) ==
    /\ cmd[p].pc # "idle" => cmd[p].cwd \in Folder
    /\ cmd[p].pc \in {"spawn", "wait", "project"} =>
          cmd[p].ensured \in Folder /\ Inside(cmd[p].cwd, cmd[p].ensured)
    /\ cmd[p].pc \in {"sync", "begin", "choose", "child", "complete"} =>
          cmd[p].root \in Folder /\ cmd[p].project \in projects /\ cmd[p].project \in Folder
    /\ cmd[p].pc \in {"sync", "begin", "choose"} /\ (cmd[p].kind = "run" => cmd[p].run = None) =>
          Inside(cmd[p].cwd, cmd[p].project)

\* The Run of a command.
Holding(p) ==
    /\ cmd[p].kind = "run" /\ cmd[p].run # None => Keeps(p, cmd[p].run)
    /\ cmd[p].kind = "session stop" /\ cmd[p].run # None =>
          /\ Started(cmd[p].run)
          /\ cmd[p].project = runs[cmd[p].run].project
          /\ cmd[p].root = cmd[p].project
    /\ cmd[p].pc = "complete" => Started(cmd[p].run)

\* Since its synchronization, a command has seen every change that is still
\* to be recorded.
Synced(p) ==
    /\ cmd[p].pc = "begin" /\ cmd[p].kind \in {"run start", "run"} =>
          Stale(cmd[p].project) \subseteq cmd[p].since
    /\ cmd[p].pc = "complete" /\ cmd[p].kind \in {"run", "session stop"}
          /\ runs[cmd[p].run].state = "active" =>
          runs[cmd[p].run].owed \cap Tree(cmd[p].root) \subseteq cmd[p].since

Clean(r) == runs[r].by \in {"run start", "run"} => runs[r].early = {}
Covered(r) ==
    /\ runs[r].by = "session stop" => runs[r].missed = {}
    /\ runs[r].by = "run" => runs[r].missed \cap Tree(runs[r].root) = {}

RunsFine == \A r \in Run : Placed(r) /\ Owing(r) /\ Clean(r) /\ Covered(r)
CommandFine(p) == Standing(p) /\ Within(p) /\ Holding(p) /\ Synced(p)

TopologyInv ==
    /\ TypeOK
    /\ RunsFine
    /\ \A p \in Proc : CommandFine(p)

-------------------------------------------------------------------------------
(* Folders.                                                                *)

\* A nonempty set of natural numbers has a least element.
LEMMA LeastOf ==
    ASSUME NEW S \in SUBSET Nat, S # {}
    PROVE  \E x \in S : \A y \in S : x <= y
  <1> DEFINE Less == {ss \in Nat \X Nat : ss[1] < ss[2]}
  <1>1. IsWellFoundedOn(Less, Nat)
    BY NatLessThanWellFounded DEF OpToRel
  <1> HIDE DEF Less
  <1>2. PICK x \in S : \A y \in S : <<y, x>> \notin Less
    BY <1>1, WFMin
  <1>3. ASSUME NEW y \in S PROVE x <= y
    <2>1. x \in Nat /\ y \in Nat /\ (y < x => <<y, x>> \in Less)
      BY DEF Less
    <2> QED
      BY <1>2, <2>1
  <1> QED
    BY <1>3

\* A folder lies in whatever lies around a folder around it.
LEMMA InsideThrough ==
    ASSUME NEW c \in Folder, NEW d \in Folder, NEW e \in Folder, Inside(c, d), Inside(d, e)
    PROVE  Inside(c, e)
  BY NestingAssumption

\* Folders around one folder lie in each other, so some set of them has an
\* innermost one: the one with most folders around it.
LEMMA InnermostIsOne ==
    ASSUME NEW c \in Folder, NEW S \in SUBSET Around(c), S # {}
    PROVE  Innermost(S) \in S
  <1> DEFINE size(d) == Cardinality(Around(d))
             Less == {Cardinality(Folder) - size(d) : d \in S}
  <1>1. S \subseteq Folder
    BY DEF Around
  <1>2. ASSUME NEW d \in Folder
        PROVE  /\ Around(d) \in SUBSET Folder /\ IsFiniteSet(Around(d))
               /\ size(d) \in Nat /\ Cardinality(Folder) - size(d) \in Nat
    <2>1. Around(d) \in SUBSET Folder /\ IsFiniteSet(Folder)
      BY NestingAssumption DEF Around
    <2>2. IsFiniteSet(Around(d)) /\ size(d) <= Cardinality(Folder)
      BY <2>1, FS_Subset
    <2>3. size(d) \in Nat /\ Cardinality(Folder) \in Nat
      BY <2>1, <2>2, FS_CardinalityType
    <2> QED
      BY <2>1, <2>2, <2>3
  <1>3. Less \in SUBSET Nat /\ Less # {}
    BY <1>1, <1>2
  <1>4. PICK least \in Less : \A n \in Less : least <= n
    BY <1>3, LeastOf
  <1>5. PICK d \in S : least = Cardinality(Folder) - size(d)
    BY <1>4
  <1>6. ASSUME NEW e \in S PROVE Inside(d, e)
    <2> SUFFICES ASSUME ~Inside(d, e) PROVE FALSE
      OBVIOUS
    <2>1. d \in Folder /\ e \in Folder /\ Inside(e, d)
      BY <1>1, NestingAssumption DEF Around
    <2>2. Around(d) \in SUBSET Around(e)
      BY <2>1, NestingAssumption DEF Around
    <2>3. size(d) <= size(e)
      BY <1>2, <2>1, <2>2, FS_Subset
    <2>4. Cardinality(Folder) - size(e) \in Less
      OBVIOUS
    <2>5. Cardinality(Folder) - size(d) <= Cardinality(Folder) - size(e)
      BY <1>4, <1>5, <2>4
    <2>6. Cardinality(Folder) \in Nat /\ size(d) \in Nat /\ size(e) \in Nat
      BY <1>2, <2>1, NestingAssumption, FS_CardinalityType
    <2>7. size(d) = size(e)
      <3> HIDE DEF size
      <3> QED
        BY <2>3, <2>5, <2>6
    <2>8. Around(d) = Around(e)
      BY <1>2, <2>1, <2>2, <2>7, FS_Subset
    <2>9. e \in Around(e)
      BY <2>1, NestingAssumption
    <2> QED
      BY <2>8, <2>9 DEF Around
  <1> QED
    BY <1>6 DEF Innermost

\* The project found for a folder is one around it, and is found if there is
\* one.
LEMMA FindProjectAround ==
    ASSUME NEW d \in Folder
    PROVE  /\ FindProject(d) # None =>
                 FindProject(d) \in projects /\ FindProject(d) \in Folder
                 /\ Inside(d, FindProject(d))
           /\ projects \cap Around(d) # {} => FindProject(d) # None
  <1> DEFINE S == projects \cap Around(d)
  <1>1. CASE S = {}
    BY <1>1 DEF FindProject, Innermost
  <1>2. CASE S # {}
    <2>1. Innermost(S) \in S
      BY <1>2, InnermostIsOne
    <2> QED
      BY <2>1, NestingAssumption DEF FindProject, Around
  <1> QED
    BY <1>1, <1>2

\* The root recording belongs to lies around the folder.
LEMMA RecordingRootAround ==
    ASSUME NEW c \in Folder
    PROVE  /\ RecordingRoot(c) \in Folder /\ Inside(c, RecordingRoot(c))
           /\ projects \cap Around(c) # {} =>
                 projects \cap Around(RecordingRoot(c)) # {}
  <1> DEFINE S == ReadyRoots \cap Around(c)
  <1>1. CASE S # {}
    <2>1. Innermost(S) \in S
      BY <1>1, InnermostIsOne
    <2>2. RecordingRoot(c) = Innermost(S)
      BY <1>1 DEF RecordingRoot
    <2>3. RecordingRoot(c) \in projects /\ RecordingRoot(c) \in Around(RecordingRoot(c))
      BY <2>1, <2>2, NestingAssumption DEF ReadyRoots
    <2> QED
      BY <2>1, <2>2, <2>3 DEF Around
  <1>2. CASE S = {} /\ FindProject(c) # None
    <2>1. RecordingRoot(c) = FindProject(c)
      BY <1>2 DEF RecordingRoot
    <2>2. RecordingRoot(c) \in projects /\ RecordingRoot(c) \in Folder /\ Inside(c, RecordingRoot(c))
      BY <1>2, <2>1, FindProjectAround
    <2>3. RecordingRoot(c) \in Around(RecordingRoot(c))
      BY <2>2, NestingAssumption
    <2> QED
      BY <2>2, <2>3
  <1>3. CASE S = {} /\ FindProject(c) = None
    <2>1. RecordingRoot(c) = c
      BY <1>3 DEF RecordingRoot
    <2> QED
      BY <2>1, NestingAssumption DEF Around
  <1> QED
    BY <1>1, <1>2, <1>3

\* The project a read-only command finds for a folder lies around it.
LEMMA ResolveAround ==
    ASSUME NEW c \in Folder
    PROVE  /\ ResolveProject(c) # None =>
                 ResolveProject(c) \in projects /\ ResolveProject(c) \in Folder
                 /\ Inside(c, ResolveProject(c))
           /\ projects \cap Around(c) # {} => ResolveProject(c) # None
  <1> DEFINE root == RecordingRoot(c)
  <1>1. root \in Folder /\ Inside(c, root)
        /\ (projects \cap Around(c) # {} => projects \cap Around(root) # {})
    BY RecordingRootAround
  <1> HIDE DEF root
  <1>2. /\ FindProject(root) # None =>
              FindProject(root) \in projects /\ FindProject(root) \in Folder
              /\ Inside(root, FindProject(root))
        /\ projects \cap Around(root) # {} => FindProject(root) # None
    BY <1>1, FindProjectAround
  <1>3. ResolveProject(c) = FindProject(root)
    BY DEF ResolveProject, root
  <1>4. FindProject(root) # None => Inside(c, FindProject(root))
    BY <1>1, <1>2, NestingAssumption
  <1> QED
    BY <1>1, <1>2, <1>3, <1>4

-------------------------------------------------------------------------------
(* What every step does, in the terms the invariant needs.                 *)

\* Projects are only added.
Grows == projects \subseteq projects'

\* A Run that was started keeps its project and folders, and what was early.
RunsLast ==
    \A r \in Run : Started(r) =>
        /\ runs'[r].state # "unused"
        /\ runs'[r].state = "active" => runs[r].state = "active"
        /\ runs'[r].project = runs[r].project
        /\ runs'[r].root = runs[r].root
        /\ runs'[r].cwd = runs[r].cwd
        /\ runs'[r].early = runs[r].early

\* The Runs change in nothing but what they owe.
RunsOwe ==
    \A r \in Run :
        /\ runs[r].state = "unused" => runs'[r] = runs[r]
        /\ runs'[r].state = runs[r].state
        /\ runs'[r].project = runs[r].project
        /\ runs'[r].root = runs[r].root
        /\ runs'[r].cwd = runs[r].cwd
        /\ runs'[r].by = runs[r].by
        /\ runs'[r].early = runs[r].early
        /\ runs'[r].missed = runs[r].missed

\* No history is behind, and no Run is owed, what was not before.
NothingNew ==
    /\ \A q \in Folder : pending'[q] \cap tracked'[q] \subseteq Stale(q)
    /\ \A r \in Run : runs'[r].state = "active" => runs'[r].owed \subseteq runs[r].owed

LEMMA OweIsLast ==
    ASSUME RunsOwe
    PROVE  RunsLast
  BY DEF RunsOwe, RunsLast, Started

\* Runs that change in what they owe only stay in place, clean and covered.
LEMMA RunsStay ==
    ASSUME TypeOK, RunsFine, Grows, RunsOwe, \A r \in Run : Owing(r)'
    PROVE  RunsFine'
  <1> SUFFICES ASSUME NEW r \in Run PROVE Placed(r)' /\ Clean(r)' /\ Covered(r)'
    BY DEF RunsFine
  <1>1. Placed(r) /\ Clean(r) /\ Covered(r)
    BY DEF RunsFine
  <1>2. Placed(r)'
    BY <1>1 DEF Placed, Started, Grows, RunsOwe
  <1>3. Clean(r)' /\ Covered(r)'
    BY <1>1 DEF Clean, Covered, Tree, RunsOwe
  <1> QED
    BY <1>2, <1>3

\* A command that does not move stands where it stood.
LEMMA StandersStand ==
    ASSUME NEW p \in Proc, TypeOK, TypeOK', Grows, RunsLast, cmd'[p] = cmd[p],
           Standing(p), Within(p), Holding(p)
    PROVE  Standing(p)' /\ Within(p)' /\ Holding(p)'
  <1>1. cmd[p] \in CommandState
    BY DEF TypeOK
  <1>2. Standing(p)'
    BY DEF Standing
  <1>3. Within(p)'
    BY DEF Within, Grows
  <1>4. ASSUME cmd[p].run # None PROVE cmd[p].run \in Run
    BY <1>1, <1>4 DEF CommandState, Given
  <1>5. ASSUME NEW r \in Run, Started(r)
        PROVE  /\ Started(r)' /\ runs'[r].project = runs[r].project
               /\ runs'[r].root = runs[r].root /\ runs'[r].early = runs[r].early
    BY <1>5 DEF RunsLast, Started
  <1>6. ASSUME NEW r \in Run, Keeps(p, r) PROVE Keeps(p, r)'
    <2>1. Started(r)
      BY <1>6 DEF Keeps
    <2> QED
      BY <1>5, <1>6, <2>1 DEF Keeps
  <1>7. cmd[p].pc = "complete" => cmd[p].run # None
    BY DEF Standing
  <1>8. (cmd[p].kind = "run" /\ cmd[p].run # None => Keeps(p, cmd[p].run))'
    BY <1>4, <1>6 DEF Holding
  <1>9. Holding(p)'
    BY <1>4, <1>5, <1>7, <1>8 DEF Holding
  <1> QED
    BY <1>2, <1>3, <1>9

\* And stays synchronized when nothing new is left to be recorded.
LEMMA StandersSynced ==
    ASSUME NEW p \in Proc, TypeOK, TypeOK', Grows, RunsLast, NothingNew, cmd'[p] = cmd[p],
           CommandFine(p)
    PROVE  CommandFine(p)'
  <1>1. Standing(p) /\ Within(p) /\ Holding(p) /\ Synced(p)
    BY DEF CommandFine
  <1>2. Standing(p)' /\ Within(p)' /\ Holding(p)'
    BY <1>1, StandersStand
  <1>3. cmd[p] \in CommandState
    BY DEF TypeOK
  <1>4. cmd[p].pc = "begin" => cmd[p].project \in Folder
    BY <1>1 DEF Within
  <1>5. cmd[p].pc = "complete" => cmd[p].run \in Run /\ Started(cmd[p].run)
    BY <1>1, <1>3 DEF Standing, Holding, CommandState, Given
  <1>6. ASSUME cmd[p].pc = "begin", cmd[p].kind \in {"run start", "run"}
        PROVE  (Stale(cmd[p].project) \subseteq cmd[p].since)'
    <2>1. Stale(cmd[p].project) \subseteq cmd[p].since
      BY <1>1, <1>6 DEF Synced
    <2>2. pending'[cmd[p].project] \cap tracked'[cmd[p].project] \subseteq Stale(cmd[p].project)
      BY <1>4, <1>6 DEF NothingNew
    <2> QED
      BY <2>1, <2>2 DEF Stale
  <1>7. ASSUME cmd[p].pc = "complete", cmd[p].kind \in {"run", "session stop"},
               runs'[cmd[p].run].state = "active"
        PROVE  (runs[cmd[p].run].owed \cap Tree(cmd[p].root) \subseteq cmd[p].since)'
    <2>1. cmd[p].run \in Run /\ Started(cmd[p].run)
      BY <1>5, <1>7
    <2>2. runs[cmd[p].run].state = "active"
      BY <1>7, <2>1 DEF RunsLast
    <2>3. runs[cmd[p].run].owed \cap Tree(cmd[p].root) \subseteq cmd[p].since
      BY <1>1, <1>7, <2>2 DEF Synced
    <2>4. runs'[cmd[p].run].owed \subseteq runs[cmd[p].run].owed
      BY <1>7, <2>1 DEF NothingNew
    <2>5. (Tree(cmd[p].root))' = Tree(cmd[p].root)
      BY DEF Tree
    <2> QED
      BY <2>3, <2>4, <2>5
  <1>8. Synced(p)'
    BY <1>6, <1>7 DEF Synced
  <1> QED
    BY <1>2, <1>8 DEF CommandFine

\* A step that leaves nothing new to be recorded keeps the invariant, if the
\* Runs are fine after it and so is every command it moves.
LEMMA StepKeeps ==
    ASSUME TopologyInv, TypeOK', Grows, RunsLast, NothingNew, RunsFine',
           \A p \in Proc : cmd'[p] = cmd[p] \/ CommandFine(p)'
    PROVE  TopologyInv'
  <1>1. TypeOK /\ RunsFine /\ (\A p \in Proc : CommandFine(p))
    BY DEF TopologyInv
  <1>2. ASSUME NEW p \in Proc PROVE CommandFine(p)'
    <2>1. CASE cmd'[p] = cmd[p]
      BY <1>1, <2>1, StandersSynced
    <2> QED
      BY <2>1
  <1> QED
    BY <1>1, <1>2 DEF TopologyInv

\* A step of one command that leaves the projects, files and Runs alone.
LEMMA CommandKeeps ==
    ASSUME TopologyInv, TypeOK', NEW p \in Proc,
           UNCHANGED <<projects, tracked, pending, runs>>,
           \A o \in Proc : o # p => cmd'[o] = cmd[o],
           CommandFine(p)'
    PROVE  TopologyInv'
  <1>1. Grows /\ RunsLast /\ NothingNew
    BY DEF Grows, RunsLast, NothingNew, Started, Stale
  <1>2. RunsFine'
    <2>1. RunsFine
      BY DEF TopologyInv
    <2>2. ASSUME NEW r \in Run PROVE Placed(r)' /\ Owing(r)' /\ Clean(r)' /\ Covered(r)'
      <3>1. Placed(r) /\ Owing(r) /\ Clean(r) /\ Covered(r)
        BY <2>1 DEF RunsFine
      <3> QED
        BY <3>1 DEF Placed, Owing, Clean, Covered, Started, Tree
    <2> QED
      BY <2>2 DEF RunsFine
  <1> QED
    BY <1>1, <1>2, StepKeeps

\* A command that has ended is fine.
LEMMA QuitIsFine ==
    ASSUME NEW p \in Proc, cmd'[p] = Idle
    PROVE  CommandFine(p)'
  <1>1. /\ cmd'[p].kind = "none" /\ cmd'[p].pc = "idle" /\ cmd'[p].run = None
        /\ cmd'[p] = Idle
    BY DEF Idle
  <1>2. Standing(p)'
    BY <1>1 DEF Standing
  <1>3. Within(p)' /\ Holding(p)' /\ Synced(p)'
    BY <1>1 DEF Within, Holding, Synced
  <1> QED
    BY <1>2, <1>3 DEF CommandFine

LEMMA IdleIsTyped == Idle \in CommandState
  BY DEF Idle, CommandState, Places, Folders, Given

-------------------------------------------------------------------------------
(* Files.                                                                  *)

\* What recording files of a project does to the Runs.
LEMMA RecordedOwes ==
    ASSUME TypeOK, NEW q \in Folder, NEW S \in SUBSET Folder, Recorded(q, S)
    PROVE  /\ runs' \in [Run -> RunRow]
           /\ RunsOwe
           /\ \A r \in Run : runs'[r].owed \subseteq runs[r].owed
           /\ \A r \in Run : runs[r].project = q /\ runs[r].state = "active" =>
                 runs'[r].owed = runs[r].owed \ S
  <1>1. ASSUME NEW r \in Run
        PROVE  /\ runs'[r] = IF runs[r].project = q /\ runs[r].state = "active"
                             THEN [runs[r] EXCEPT !.owed = @ \ S] ELSE runs[r]
               /\ runs[r] \in RunRow
    BY DEF Recorded, TypeOK
  <1>2. ASSUME NEW r \in Run
        PROVE  /\ runs'[r] \in RunRow
               /\ runs[r].state = "unused" => runs'[r] = runs[r]
               /\ runs'[r].state = runs[r].state
               /\ runs'[r].project = runs[r].project
               /\ runs'[r].root = runs[r].root
               /\ runs'[r].cwd = runs[r].cwd
               /\ runs'[r].by = runs[r].by
               /\ runs'[r].early = runs[r].early
               /\ runs'[r].missed = runs[r].missed
               /\ runs'[r].owed \subseteq runs[r].owed
               /\ runs[r].project = q /\ runs[r].state = "active" =>
                     runs'[r].owed = runs[r].owed \ S
    <2>1. CASE runs[r].project = q /\ runs[r].state = "active"
      <3> DEFINE left == runs[r].owed \ S
      <3>1. runs[r] \in RunRow /\ left \in SUBSET Folder
        BY <1>1 DEF RunRow
      <3>2. runs'[r] = [runs[r] EXCEPT !.owed = left]
        BY <1>1, <2>1
      <3>3. left = runs[r].owed \ S /\ left \subseteq runs[r].owed
        OBVIOUS
      <3> HIDE DEF left
      <3>4. runs'[r] \in RunRow /\ runs'[r].owed = left
        BY <3>1, <3>2 DEF RunRow
      <3>5. /\ runs'[r].state = runs[r].state
            /\ runs'[r].project = runs[r].project
            /\ runs'[r].root = runs[r].root
            /\ runs'[r].cwd = runs[r].cwd
            /\ runs'[r].by = runs[r].by
            /\ runs'[r].early = runs[r].early
            /\ runs'[r].missed = runs[r].missed
        BY <3>1, <3>2 DEF RunRow
      <3> QED
        BY <2>1, <3>3, <3>4, <3>5
    <2>2. CASE ~(runs[r].project = q /\ runs[r].state = "active")
      BY <1>1, <2>2 DEF RunRow
    <2> QED
      BY <2>1, <2>2
  <1>3. runs' = [r \in Run |-> runs'[r]]
    BY DEF Recorded
  <1> QED
    BY <1>2, <1>3 DEF RunsOwe

\* What a scan does.
LEMMA ScanKeeps ==
    ASSUME TopologyInv, NEW q \in Folder, NEW d \in Folder, ScanInto(q, d),
           projects' = projects
    PROVE  /\ tracked' \in [Folder -> SUBSET Folder]
           /\ pending' \in [Folder -> SUBSET Folder]
           /\ vanished' \in SUBSET Folder
           /\ runs' \in [Run -> RunRow]
           /\ changes' \in Nat
           /\ Grows /\ RunsLast /\ NothingNew /\ RunsFine'
           /\ pending'[q] \cap tracked'[q] = {}
           /\ \A r \in Run : runs'[r].state = "active" /\ runs'[r].project = q =>
                 runs'[r].owed \cap Tree(d) = {}
  <1> DEFINE unseen == tracked[q] \ Tree(d)
  <1>1. TypeOK /\ RunsFine
    BY DEF TopologyInv
  <1>2. Tree(d) \in SUBSET Folder /\ unseen \in SUBSET Folder
    BY <1>1 DEF TypeOK, Tree
  <1>3. /\ tracked' \in [Folder -> SUBSET Folder]
        /\ pending' \in [Folder -> SUBSET Folder]
        /\ vanished' \in SUBSET Folder /\ changes' \in Nat
    BY <1>1, <1>2 DEF ScanInto, TypeOK
  <1>4. /\ pending'[q] = (pending[q] \ Tree(d)) \cup unseen
        /\ tracked'[q] = Tree(d)
        /\ \A x \in Folder : x # q => pending'[x] = pending[x] /\ tracked'[x] = tracked[x]
    BY <1>1 DEF ScanInto, TypeOK
  <1>5. pending'[q] \cap Tree(d) = {} /\ pending'[q] \cap tracked'[q] = {}
    BY <1>4
  <1>6. Grows /\ (\A x \in Folder : pending'[x] \cap tracked'[x] \subseteq Stale(x))
    BY <1>4, <1>5 DEF Grows, Stale
  <1>7. pending[q] \cap Tree(d) \in SUBSET Folder /\ Recorded(q, pending[q] \cap Tree(d))
    BY <1>2 DEF ScanInto
  <1>8. /\ runs' \in [Run -> RunRow]
        /\ RunsOwe
        /\ \A r \in Run : runs'[r].owed \subseteq runs[r].owed
        /\ \A r \in Run : runs[r].project = q /\ runs[r].state = "active" =>
              runs'[r].owed = runs[r].owed \ (pending[q] \cap Tree(d))
    BY <1>1, <1>7, RecordedOwes
  <1>9. RunsLast /\ NothingNew
    BY <1>6, <1>8, OweIsLast DEF NothingNew
  <1>10. ASSUME NEW r \in Run, runs'[r].state = "active"
         PROVE  /\ runs[r].state = "active" /\ runs[r].project \in Folder
                /\ runs'[r].project = runs[r].project /\ runs'[r].missed = runs[r].missed
                /\ runs[r].owed \subseteq pending[runs[r].project]
                /\ runs[r].owed \subseteq Tree(runs[r].project)
                /\ runs[r].missed = {}
    <2>1. Owing(r) /\ Placed(r) /\ runs[r].state = "active"
      BY <1>1, <1>8, <1>10 DEF RunsFine, RunsOwe
    <2> QED
      BY <1>8, <2>1 DEF Owing, Placed, Started, RunsOwe
  <1>11. ASSUME NEW r \in Run, runs'[r].state = "active", runs'[r].project = q
         PROVE  runs'[r].owed \cap Tree(d) = {} /\ runs'[r].owed \subseteq pending'[q]
    <2>1. runs'[r].owed = runs[r].owed \ (pending[q] \cap Tree(d))
      BY <1>8, <1>10, <1>11
    <2> QED
      BY <1>4, <1>10, <1>11, <2>1
  <1>12. ASSUME NEW r \in Run PROVE Owing(r)'
    <2> SUFFICES ASSUME runs'[r].state = "active"
                 PROVE  /\ runs'[r].owed \subseteq pending'[runs'[r].project]
                        /\ runs'[r].owed \subseteq Tree(runs'[r].project)
                        /\ runs'[r].missed = {}
      BY DEF Owing, Tree
    <2>1. CASE runs'[r].project = q
      BY <1>8, <1>10, <1>11, <2>1
    <2>2. CASE runs'[r].project # q
      BY <1>4, <1>8, <1>10, <2>2
    <2> QED
      BY <2>1, <2>2
  <1>13. RunsFine'
    BY <1>1, <1>6, <1>8, <1>12, RunsStay
  <1> QED
    BY <1>3, <1>5, <1>6, <1>8, <1>9, <1>11, <1>13

LEMMA InitIsFine ==
    ASSUME TopologyInit
    PROVE  TopologyInv
  <1>1. TypeOK
    <2>1. Unused \in RunRow
      BY DEF Unused, RunRow, Folders
    <2>2. tracked \in [Folder -> SUBSET Folder] /\ pending \in [Folder -> SUBSET Folder]
      BY DEF TopologyInit, Tree
    <2> QED
      BY <2>1, <2>2, IdleIsTyped DEF TopologyInit, TypeOK
  <1>2. RunsFine
    <2>1. ASSUME NEW r \in Run
          PROVE  /\ runs[r] = Unused /\ runs[r].state = "unused" /\ runs[r].by = None
                 /\ runs[r].early = {} /\ runs[r].missed = {}
      BY DEF TopologyInit, Unused
    <2>2. ASSUME NEW r \in Run PROVE Placed(r) /\ Owing(r) /\ Clean(r) /\ Covered(r)
      BY <2>1 DEF Placed, Owing, Clean, Covered, Started
    <2> QED
      BY <2>2 DEF RunsFine
  <1>3. ASSUME NEW p \in Proc PROVE CommandFine(p)
    <2>1. /\ cmd[p] = Idle /\ cmd[p].kind = "none" /\ cmd[p].pc = "idle"
          /\ cmd[p].run = None
      BY DEF TopologyInit, Idle
    <2>2. Standing(p) /\ Within(p)
      BY <2>1 DEF Standing, Within
    <2>3. Holding(p) /\ Synced(p)
      BY <2>1 DEF Holding, Synced
    <2> QED
      BY <2>2, <2>3 DEF CommandFine
  <1> QED
    BY <1>1, <1>2, <1>3 DEF TopologyInv

\* A changed file is new to every project and every Run around it, and to
\* every command under way.
LEMMA ChangeKeeps ==
    ASSUME TopologyInv, NEW f \in Folder, Change(f)
    PROVE  TopologyInv'
  <1>1. /\ TypeOK /\ RunsFine
        /\ \A p \in Proc : CommandFine(p)
    BY DEF TopologyInv
  <1>2. UNCHANGED <<projects, recorder, tracked, starts, commands, vanished>>
    BY DEF Change
  <1>3. Grows
    BY <1>2 DEF Grows
  <1>4. ASSUME NEW q \in Folder
        PROVE  pending'[q] = IF f \in Tree(q) THEN pending[q] \cup {f} ELSE pending[q]
    BY DEF Change
  <1>5. pending' \in [Folder -> SUBSET Folder]
    <2>1. pending' = [q \in Folder |-> pending'[q]]
      BY DEF Change
    <2>2. ASSUME NEW q \in Folder PROVE pending'[q] \in SUBSET Folder
      BY <1>1, <1>4 DEF TypeOK
    <2> QED
      BY <2>1, <2>2
  <1>6. ASSUME NEW r \in Run
        PROVE  /\ runs'[r] \in RunRow
               /\ runs[r].state = "unused" => runs'[r] = runs[r]
               /\ runs'[r].state = runs[r].state
               /\ runs'[r].project = runs[r].project
               /\ runs'[r].root = runs[r].root
               /\ runs'[r].cwd = runs[r].cwd
               /\ runs'[r].by = runs[r].by
               /\ runs'[r].early = runs[r].early
               /\ runs'[r].missed = runs[r].missed
               /\ \/ runs'[r].owed = runs[r].owed
                  \/ f \in Tree(runs[r].project) /\ runs'[r].owed = runs[r].owed \cup {f}
    <2>1. runs[r] \in RunRow
      BY <1>1 DEF TypeOK
    <2>2. CASE r \in Active /\ f \in Tree(runs[r].project)
      <3> DEFINE more == runs[r].owed \cup {f}
      <3>1. more \in SUBSET Folder /\ runs[r].state = "active"
        BY <2>1, <2>2 DEF RunRow, Active
      <3>2. runs'[r] = [runs[r] EXCEPT !.owed = more]
        BY <2>2 DEF Change
      <3>3. more = runs[r].owed \cup {f}
        OBVIOUS
      <3> HIDE DEF more
      <3>4. runs'[r] \in RunRow /\ runs'[r].owed = more
        BY <2>1, <3>1, <3>2 DEF RunRow
      <3>5. /\ runs'[r].state = runs[r].state
            /\ runs'[r].project = runs[r].project
            /\ runs'[r].root = runs[r].root
            /\ runs'[r].cwd = runs[r].cwd
            /\ runs'[r].by = runs[r].by
            /\ runs'[r].early = runs[r].early
            /\ runs'[r].missed = runs[r].missed
        BY <2>1, <3>2 DEF RunRow
      <3> QED
        BY <2>2, <3>1, <3>3, <3>4, <3>5
    <2>3. CASE ~(r \in Active /\ f \in Tree(runs[r].project))
      <3>1. runs'[r] = runs[r]
        BY <2>3 DEF Change
      <3> QED
        BY <2>1, <3>1
    <2> QED
      BY <2>2, <2>3
  <1>7. runs' \in [Run -> RunRow] /\ RunsOwe
    <2>1. runs' = [r \in Run |-> runs'[r]]
      BY DEF Change
    <2> QED
      BY <1>6, <2>1 DEF RunsOwe
  <1>8. RunsLast
    BY <1>7, OweIsLast
  <1>9. ASSUME NEW p \in Proc
        PROVE  /\ cmd'[p] \in CommandState
               /\ cmd[p].pc = "idle" => cmd'[p] = cmd[p]
               /\ cmd'[p].kind = cmd[p].kind
               /\ cmd'[p].pc = cmd[p].pc
               /\ cmd'[p].cwd = cmd[p].cwd
               /\ cmd'[p].ensured = cmd[p].ensured
               /\ cmd'[p].root = cmd[p].root
               /\ cmd'[p].project = cmd[p].project
               /\ cmd'[p].run = cmd[p].run
               /\ cmd[p].pc # "idle" => cmd'[p].since = cmd[p].since \cup {f}
    <2>1. cmd[p] \in CommandState
      BY <1>1 DEF TypeOK
    <2>2. CASE cmd[p].pc = "idle"
      <3>1. cmd'[p] = cmd[p]
        BY <2>2 DEF Change
      <3> QED
        BY <2>1, <2>2, <3>1
    <2>3. CASE cmd[p].pc # "idle"
      <3> DEFINE more == cmd[p].since \cup {f}
      <3>1. more \in SUBSET Folder
        BY <2>1 DEF CommandState
      <3>2. cmd'[p] = [cmd[p] EXCEPT !.since = more]
        BY <2>3 DEF Change
      <3>3. more = cmd[p].since \cup {f}
        OBVIOUS
      <3> HIDE DEF more
      <3>4. cmd'[p] \in CommandState /\ cmd'[p].since = more
        BY <2>1, <3>1, <3>2 DEF CommandState
      <3>5. /\ cmd'[p].kind = cmd[p].kind
            /\ cmd'[p].pc = cmd[p].pc
            /\ cmd'[p].cwd = cmd[p].cwd
            /\ cmd'[p].ensured = cmd[p].ensured
            /\ cmd'[p].root = cmd[p].root
            /\ cmd'[p].project = cmd[p].project
            /\ cmd'[p].run = cmd[p].run
        BY <2>1, <3>2 DEF CommandState
      <3> QED
        BY <2>3, <3>3, <3>4, <3>5
    <2> QED
      BY <2>2, <2>3
  <1>10. TypeOK'
    <2>1. cmd' = [p \in Proc |-> cmd'[p]]
      BY DEF Change
    <2>2. cmd' \in [Proc -> CommandState]
      BY <1>9, <2>1
    <2>3. changes' \in Nat
      BY <1>1 DEF TypeOK, Change
    <2> QED
      BY <1>1, <1>2, <1>5, <1>7, <2>2, <2>3 DEF TypeOK
  <1>11. ASSUME NEW r \in Run PROVE Owing(r)'
    <2> SUFFICES ASSUME runs'[r].state = "active"
                 PROVE  /\ runs'[r].owed \subseteq pending'[runs'[r].project]
                        /\ runs'[r].owed \subseteq Tree(runs'[r].project)
                        /\ runs'[r].missed = {}
      BY DEF Owing, Tree
    <2>1. runs[r].state = "active" /\ Owing(r) /\ Placed(r)
      BY <1>1, <1>6 DEF RunsFine
    <2>2. /\ runs[r].owed \subseteq pending[runs[r].project]
          /\ runs[r].owed \subseteq Tree(runs[r].project)
          /\ runs[r].missed = {} /\ runs[r].project \in Folder
      BY <2>1 DEF Owing, Placed, Started
    <2>3. runs'[r].project = runs[r].project /\ runs'[r].missed = runs[r].missed
      BY <1>6
    <2>4. CASE runs'[r].owed = runs[r].owed
      BY <1>4, <2>2, <2>3, <2>4
    <2>5. CASE f \in Tree(runs[r].project) /\ runs'[r].owed = runs[r].owed \cup {f}
      BY <1>4, <2>2, <2>3, <2>5
    <2> QED
      BY <1>6, <2>4, <2>5
  <1>12. RunsFine'
    BY <1>1, <1>3, <1>7, <1>11, RunsStay
  <1>13. ASSUME NEW p \in Proc PROVE CommandFine(p)'
    <2>1. Standing(p) /\ Within(p) /\ Holding(p) /\ Synced(p)
      BY <1>1 DEF CommandFine
    <2>2. Standing(p)'
      BY <1>9, <2>1 DEF Standing
    <2>3. Within(p)'
      BY <1>2, <1>9, <2>1 DEF Within
    <2>4. Holding(p)'
      <3>1. cmd[p] \in CommandState
        BY <1>1 DEF TypeOK
      <3>2. cmd[p].run # None => cmd[p].run \in Run
        BY <3>1 DEF CommandState, Given
      <3>3. cmd[p].pc = "complete" => cmd[p].run # None
        BY <2>1 DEF Standing
      <3>4. ASSUME NEW r \in Run, Keeps(p, r) PROVE Keeps(p, r)'
        BY <1>6, <1>9, <3>4 DEF Keeps, Started
      <3>5. (cmd[p].kind = "run" /\ cmd[p].run # None => Keeps(p, cmd[p].run))'
        <4> SUFFICES ASSUME cmd[p].kind = "run", cmd[p].run # None
                     PROVE  Keeps(p, cmd[p].run)'
          BY <1>9
        <4>1. Keeps(p, cmd[p].run) /\ cmd[p].run \in Run
          BY <2>1, <3>2 DEF Holding
        <4>2. PICK r \in Run : r = cmd[p].run
          BY <4>1
        <4>3. Keeps(p, r)' /\ cmd'[p].run = r
          BY <1>9, <3>4, <4>1, <4>2
        <4> QED
          BY <4>3
      <3>6. (cmd[p].kind = "session stop" /\ cmd[p].run # None =>
                /\ Started(cmd[p].run)
                /\ cmd[p].project = runs[cmd[p].run].project
                /\ cmd[p].root = cmd[p].project)'
        BY <1>6, <1>9, <2>1, <3>2 DEF Holding, Started
      <3>7. (cmd[p].pc = "complete" => Started(cmd[p].run))'
        BY <1>6, <1>9, <2>1, <3>2, <3>3 DEF Holding, Started
      <3> QED
        BY <3>5, <3>6, <3>7 DEF Holding
    <2>5. Synced(p)'
      <3>1. ASSUME cmd[p].pc = "begin", cmd[p].kind \in {"run start", "run"}
            PROVE  (Stale(cmd[p].project) \subseteq cmd[p].since)'
        <4>1. Stale(cmd[p].project) \subseteq cmd[p].since
          BY <2>1, <3>1 DEF Synced
        <4>2. pending'[cmd[p].project] \subseteq pending[cmd[p].project] \cup {f}
          <5>1. cmd[p].project \in Folder
            BY <2>1, <3>1 DEF Within
          <5> QED
            BY <1>4, <5>1
        <4>3. cmd'[p].since = cmd[p].since \cup {f}
          BY <1>9, <3>1
        <4> QED
          BY <1>2, <1>9, <4>1, <4>2, <4>3 DEF Stale
      <3>2. ASSUME cmd[p].pc = "complete", cmd[p].kind \in {"run", "session stop"},
                   runs'[cmd[p].run].state = "active"
            PROVE  (runs[cmd[p].run].owed \cap Tree(cmd[p].root) \subseteq cmd[p].since)'
        <4>1. cmd[p].run \in Run
          <5>1. cmd[p] \in CommandState /\ cmd[p].run # None
            BY <1>1, <2>1, <3>2 DEF TypeOK, Standing
          <5> QED
            BY <5>1 DEF CommandState, Given
        <4>2. runs[cmd[p].run].owed \cap Tree(cmd[p].root) \subseteq cmd[p].since
          BY <1>6, <2>1, <3>2, <4>1 DEF Synced
        <4>3. runs'[cmd[p].run].owed \subseteq runs[cmd[p].run].owed \cup {f}
          BY <1>6, <4>1
        <4>4. cmd'[p].since = cmd[p].since \cup {f} /\ (Tree(cmd[p].root))' = Tree(cmd[p].root)
          BY <1>9, <3>2 DEF Tree
        <4> QED
          BY <1>9, <4>2, <4>3, <4>4
      <3> QED
        BY <1>9, <3>1, <3>2 DEF Synced
    <2> QED
      BY <2>2, <2>3, <2>4, <2>5 DEF CommandFine
  <1> QED
    BY <1>10, <1>12, <1>13 DEF TopologyInv

-------------------------------------------------------------------------------
(* Recorders.                                                              *)

\* A step that leaves the projects, files, Runs and commands alone.
LEMMA NothingMoves ==
    ASSUME TopologyInv, TypeOK', UNCHANGED <<projects, tracked, pending, runs, cmd>>
    PROVE  TopologyInv'
  <1>1. /\ TypeOK /\ RunsFine
        /\ \A p \in Proc : CommandFine(p)
    BY DEF TopologyInv
  <1>2. Grows /\ RunsLast /\ NothingNew
    BY DEF Grows, RunsLast, NothingNew, Started, Stale
  <1>3. RunsFine'
    <2>1. RunsOwe
      BY DEF RunsOwe
    <2>2. ASSUME NEW r \in Run PROVE Owing(r)'
      BY <1>1 DEF RunsFine, Owing, Tree
    <2> QED
      BY <1>1, <1>2, <2>1, <2>2, RunsStay
  <1> QED
    BY <1>2, <1>3, StepKeeps

LEMMA RecorderKeeps ==
    ASSUME TopologyInv, NEW d \in Folder,
           \/ UserStarts(d) \/ RecorderRow(d) \/ RecorderReady(d) \/ RecorderEnds(d)
           \/ \E f \in Folder : RecorderRecords(d, f)
    PROVE  TopologyInv'
  <1>1. /\ TypeOK /\ RunsFine
        /\ \A p \in Proc : CommandFine(p)
    BY DEF TopologyInv
  <1>2. CASE UserStarts(d)
    <2>1. TypeOK'
      BY <1>1, <1>2 DEF UserStarts, RecorderLock, TypeOK, fileVars
    <2> QED
      BY <1>2, <2>1, NothingMoves DEF UserStarts, fileVars
  <1>3. CASE RecorderEnds(d)
    <2>1. TypeOK'
      BY <1>1, <1>3 DEF RecorderEnds, TypeOK, fileVars
    <2> QED
      BY <1>3, <2>1, NothingMoves DEF RecorderEnds, fileVars
  <1>4. CASE RecorderRow(d)
    <2>1. TypeOK'
      BY <1>1, <1>4 DEF RecorderRow, TypeOK, fileVars
    <2>2. projects' = projects \cup {d} /\ UNCHANGED <<tracked, pending, runs, cmd>>
      BY <1>4 DEF RecorderRow, fileVars
    <2>3. Grows /\ RunsLast /\ NothingNew /\ RunsOwe
      BY <2>2 DEF Grows, RunsLast, NothingNew, RunsOwe, Started, Stale
    <2>4. ASSUME NEW r \in Run PROVE Owing(r)'
      BY <1>1, <2>2 DEF RunsFine, Owing, Tree
    <2>5. RunsFine'
      BY <1>1, <2>3, <2>4, RunsStay
    <2> QED
      BY <2>1, <2>2, <2>3, <2>5, StepKeeps
  <1>5. CASE RecorderReady(d)
    <2>1. ScanInto(d, d) /\ UNCHANGED <<projects, cmd, starts, commands>>
          /\ recorder' = [recorder EXCEPT ![d] = "ready"]
      BY <1>5 DEF RecorderReady
    <2>2. /\ tracked' \in [Folder -> SUBSET Folder]
          /\ pending' \in [Folder -> SUBSET Folder]
          /\ vanished' \in SUBSET Folder
          /\ runs' \in [Run -> RunRow]
          /\ changes' \in Nat
          /\ Grows /\ RunsLast /\ NothingNew /\ RunsFine'
      BY <2>1, ScanKeeps
    <2>3. TypeOK'
      BY <1>1, <2>1, <2>2 DEF TypeOK
    <2> QED
      BY <2>1, <2>2, <2>3, StepKeeps
  <1>6. CASE \E f \in Folder : RecorderRecords(d, f)
    <2>1. PICK f \in Folder : RecorderRecords(d, f)
      BY <1>6
    <2>2. /\ Recorded(d, {f})
          /\ pending' = [pending EXCEPT ![d] = @ \ {f}]
          /\ tracked' = [tracked EXCEPT ![d] = @ \cup {f}]
          /\ UNCHANGED <<projects, recorder, changes, vanished, cmd, starts, commands>>
      BY <2>1 DEF RecorderRecords
    <2>3. /\ runs' \in [Run -> RunRow]
          /\ RunsOwe
          /\ \A r \in Run : runs'[r].owed \subseteq runs[r].owed
          /\ \A r \in Run : runs[r].project = d /\ runs[r].state = "active" =>
                runs'[r].owed = runs[r].owed \ {f}
      BY <1>1, <2>2, RecordedOwes
    <2>4. TypeOK'
      BY <1>1, <2>2, <2>3 DEF TypeOK
    <2>5. /\ pending'[d] = pending[d] \ {f} /\ tracked'[d] = tracked[d] \cup {f}
          /\ \A q \in Folder : q # d => pending'[q] = pending[q] /\ tracked'[q] = tracked[q]
      BY <1>1, <2>2 DEF TypeOK
    <2>6. Grows /\ NothingNew
      <3>1. ASSUME NEW q \in Folder PROVE pending'[q] \cap tracked'[q] \subseteq Stale(q)
        BY <2>5 DEF Stale
      <3> QED
        BY <2>2, <2>3, <3>1 DEF Grows, NothingNew
    <2>7. RunsLast
      BY <2>3, OweIsLast
    <2>8. ASSUME NEW r \in Run PROVE Owing(r)'
      <3> SUFFICES ASSUME runs'[r].state = "active"
                   PROVE  /\ runs'[r].owed \subseteq pending'[runs'[r].project]
                          /\ runs'[r].owed \subseteq Tree(runs'[r].project)
                          /\ runs'[r].missed = {}
        BY DEF Owing, Tree
      <3>1. runs[r].state = "active" /\ Owing(r) /\ Placed(r)
        BY <1>1, <2>3 DEF RunsFine, RunsOwe
      <3>2. /\ runs[r].owed \subseteq pending[runs[r].project]
            /\ runs[r].owed \subseteq Tree(runs[r].project)
            /\ runs[r].missed = {} /\ runs[r].project \in Folder
        BY <3>1 DEF Owing, Placed, Started
      <3>3. runs'[r].project = runs[r].project /\ runs'[r].missed = runs[r].missed
        BY <2>3 DEF RunsOwe
      <3>4. CASE runs[r].project = d
        <4>1. runs'[r].owed = runs[r].owed \ {f}
          BY <2>3, <3>1, <3>4
        <4> QED
          BY <2>5, <3>2, <3>3, <3>4, <4>1
      <3>5. CASE runs[r].project # d
        BY <2>3, <2>5, <3>2, <3>3, <3>5
      <3> QED
        BY <3>4, <3>5
    <2>9. RunsFine'
      BY <1>1, <2>3, <2>6, <2>8, RunsStay
    <2> QED
      BY <2>2, <2>4, <2>6, <2>7, <2>9, StepKeeps
  <1> QED
    BY <1>2, <1>3, <1>4, <1>5, <1>6

-------------------------------------------------------------------------------
(* Commands that leave the projects, files and Runs alone.                 *)

\* A command that ends.
LEMMA QuitKeeps ==
    ASSUME TopologyInv, NEW p \in Proc, Quit(p),
           UNCHANGED <<projects, recorder, fileVars, runs, starts, commands>>
    PROVE  TopologyInv'
  <1>1. TypeOK
    BY DEF TopologyInv
  <1>2. cmd'[p] = Idle /\ \A o \in Proc : o # p => cmd'[o] = cmd[o]
    BY <1>1 DEF Quit, TypeOK
  <1>3. TypeOK'
    <2>1. cmd' \in [Proc -> CommandState]
      BY <1>1, IdleIsTyped DEF Quit, TypeOK
    <2> QED
      BY <1>1, <2>1 DEF TypeOK, fileVars
  <1>4. CommandFine(p)'
    BY <1>2, QuitIsFine
  <1> QED
    BY <1>2, <1>3, <1>4, CommandKeeps DEF fileVars

\* A command is entered.
LEMMA EnterKeeps ==
    ASSUME TopologyInv, NEW p \in Proc, NEW kind \in Kinds, NEW c \in Folder,
           NEW r \in Run \cup {None}, Enter(p, kind, c, r)
    PROVE  TopologyInv'
  <1>1. TypeOK
    BY DEF TopologyInv
  <1> DEFINE pc == IF kind \in ReadOnly THEN "look" ELSE "ensure"
             new == [Idle EXCEPT !.kind = kind, !.cwd = c, !.run = r, !.pc = pc]
  <1>2. /\ new \in CommandState
        /\ new.kind = kind /\ new.cwd = c /\ new.run = r /\ new.pc = pc
        /\ new.project = None
    BY DEF Idle, CommandState, Folders, Given, Places
  <1>3. cmd' = [cmd EXCEPT ![p] = new]
    BY DEF Enter
  <1> HIDE DEF new
  <1>4. cmd'[p] = new /\ (\A o \in Proc : o # p => cmd'[o] = cmd[o])
        /\ cmd' \in [Proc -> CommandState]
    BY <1>1, <1>2, <1>3 DEF TypeOK
  <1>5. UNCHANGED <<projects, recorder, tracked, pending, changes, vanished, runs, starts>>
        /\ commands' = commands + 1
    BY DEF Enter, fileVars
  <1>6. TypeOK'
    BY <1>1, <1>4, <1>5 DEF TypeOK
  <1>7. r # None => kind = "run stop"
    BY DEF Enter
  <1>8. CommandFine(p)'
    <2>1. Standing(p)'
      BY <1>2, <1>4, <1>7 DEF Standing, Kinds, ReadOnly
    <2>2. Within(p)'
      BY <1>2, <1>4 DEF Within
    <2>3. Holding(p)' /\ Synced(p)'
      BY <1>2, <1>4, <1>7 DEF Holding, Synced
    <2> QED
      BY <2>1, <2>2, <2>3 DEF CommandFine
  <1> QED
    BY <1>4, <1>5, <1>6, <1>8, CommandKeeps

\* A command that has a root ensured, or is done with it, and goes on.
LEMMA EnsuredMoves ==
    ASSUME TypeOK, NEW p \in Proc, NEW root \in Folders, NEW where \in Places,
           cmd' = [cmd EXCEPT ![p].ensured = root, ![p].pc = where]
    PROVE  /\ cmd' \in [Proc -> CommandState]
           /\ \A o \in Proc : o # p => cmd'[o] = cmd[o]
           /\ cmd'[p].ensured = root /\ cmd'[p].pc = where
           /\ cmd'[p].kind = cmd[p].kind /\ cmd'[p].cwd = cmd[p].cwd
           /\ cmd'[p].root = cmd[p].root
           /\ cmd'[p].project = cmd[p].project /\ cmd'[p].run = cmd[p].run
           /\ cmd'[p].since = cmd[p].since
  BY DEF TypeOK, CommandState

\* One command's state is replaced.
LEMMA CommandReplaced ==
    ASSUME cmd \in [Proc -> CommandState], NEW p \in Proc, NEW new \in CommandState,
           cmd' = [cmd EXCEPT ![p] = new]
    PROVE  /\ cmd' \in [Proc -> CommandState]
           /\ \A o \in Proc : o # p => cmd'[o] = cmd[o]
           /\ cmd'[p] = new
  OBVIOUS

\* A command whose root and project are the ones it had ensured and found.
LEMMA ProjectMoves ==
    ASSUME TypeOK, NEW p \in Proc, NEW project \in Folder, NEW root \in Folder,
           NEW where \in Places,
           cmd' = [cmd EXCEPT ![p].project = project, ![p].root = root,
                              ![p].ensured = None, ![p].pc = where]
    PROVE  /\ cmd' \in [Proc -> CommandState]
           /\ \A o \in Proc : o # p => cmd'[o] = cmd[o]
           /\ cmd'[p].project = project /\ cmd'[p].root = root /\ cmd'[p].pc = where
           /\ cmd'[p].kind = cmd[p].kind /\ cmd'[p].cwd = cmd[p].cwd
           /\ cmd'[p].run = cmd[p].run /\ cmd'[p].since = cmd[p].since
  <1>1. cmd \in [Proc -> CommandState]
    BY DEF TypeOK
  <1>2. project \in Folders /\ root \in Folders /\ None \in Folders
    BY DEF Folders
  <1> DEFINE new == [cmd[p] EXCEPT !.project = project, !.root = root,
                                   !.ensured = None, !.pc = where]
  <1>3. cmd[p] \in CommandState
    BY <1>1
  <1>4. /\ new \in CommandState
        /\ new.project = project /\ new.root = root /\ new.pc = where
        /\ new.kind = cmd[p].kind /\ new.cwd = cmd[p].cwd
        /\ new.run = cmd[p].run /\ new.since = cmd[p].since
    BY <1>2, <1>3 DEF CommandState
  <1>5. cmd' = [cmd EXCEPT ![p] = new]
    OBVIOUS
  <1> HIDE DEF new
  <1>6. /\ cmd' \in [Proc -> CommandState]
        /\ \A o \in Proc : o # p => cmd'[o] = cmd[o]
        /\ cmd'[p] = new
    BY <1>1, <1>4, <1>5, CommandReplaced
  <1> QED
    BY <1>4, <1>6

\* A command that only goes to another place.
LEMMA PlaceMoves ==
    ASSUME TypeOK, NEW p \in Proc, NEW where \in Places, Goto(p, where)
    PROVE  /\ cmd' \in [Proc -> CommandState]
           /\ \A o \in Proc : o # p => cmd'[o] = cmd[o]
           /\ cmd'[p].pc = where
           /\ cmd'[p].kind = cmd[p].kind /\ cmd'[p].cwd = cmd[p].cwd
           /\ cmd'[p].ensured = cmd[p].ensured
           /\ cmd'[p].root = cmd[p].root /\ cmd'[p].project = cmd[p].project
           /\ cmd'[p].run = cmd[p].run /\ cmd'[p].since = cmd[p].since
  BY DEF TypeOK, CommandState, Goto

\* A command looks for a recorder, or for the root to record, and may start a
\* recorder and wait for it.
LEMMA EnsureKeeps ==
    ASSUME TopologyInv, NEW p \in Proc,
           EnsureFindsLive(p) \/ EnsureResolves(p) \/ EnsureSpawns(p) \/ EnsureWaits(p)
    PROVE  TopologyInv'
  <1>1. TypeOK /\ Standing(p) /\ Within(p) /\ Holding(p)
    BY DEF TopologyInv, CommandFine
  <1>2. cmd[p].pc = "ensure" => cmd[p].cwd \in Folder
    BY <1>1 DEF Within
  <1>3. ASSUME NEW root \in Folder, NEW where \in {"project", "spawn"},
               cmd[p].pc = "ensure", Inside(cmd[p].cwd, root),
               cmd' = [cmd EXCEPT ![p].ensured = root, ![p].pc = where],
               UNCHANGED <<projects, recorder, fileVars, runs, starts, commands>>
        PROVE  TopologyInv'
    <2>1. /\ cmd' \in [Proc -> CommandState]
          /\ \A o \in Proc : o # p => cmd'[o] = cmd[o]
          /\ cmd'[p].ensured = root /\ cmd'[p].pc = where
          /\ cmd'[p].kind = cmd[p].kind /\ cmd'[p].cwd = cmd[p].cwd
          /\ cmd'[p].root = cmd[p].root
          /\ cmd'[p].project = cmd[p].project /\ cmd'[p].run = cmd[p].run
          /\ cmd'[p].since = cmd[p].since
      <3>1. where \in Places /\ root \in Folders
        BY DEF Places, Folders
      <3> QED
        BY <1>1, <1>3, <3>1, EnsuredMoves
    <2>2. TypeOK'
      BY <1>1, <1>3, <2>1 DEF TypeOK, fileVars
    <2>3. Standing(p)'
      BY <1>1, <1>3, <2>1 DEF Standing
    <2>4. Within(p)'
      BY <1>1, <1>3, <2>1 DEF Within
    <2>5. Holding(p)'
      BY <1>1, <1>3, <2>1 DEF Holding, Standing, Keeps, Started, fileVars
    <2>6. Synced(p)'
      BY <1>3, <2>1 DEF Synced
    <2> QED
      BY <1>3, <2>1, <2>2, <2>3, <2>4, <2>5, <2>6, CommandKeeps DEF fileVars, CommandFine
  <1>4. CASE EnsureFindsLive(p)
    <2> DEFINE around == LiveRoots \cap Around(cmd[p].cwd)
    <2>1. around # {} /\ cmd[p].pc = "ensure"
      BY <1>4 DEF EnsureFindsLive, Stands
    <2>2. Innermost(around) \in around
      BY <1>2, <2>1, InnermostIsOne
    <2>3. Innermost(around) \in Folder /\ Inside(cmd[p].cwd, Innermost(around))
      BY <2>2 DEF Around
    <2>4. cmd' = [cmd EXCEPT ![p].ensured = Innermost(around), ![p].pc = "project"]
          /\ UNCHANGED <<projects, recorder, fileVars, runs, starts, commands>>
      BY <1>4 DEF EnsureFindsLive
    <2> HIDE DEF around
    <2> QED
      BY <1>3, <2>1, <2>3, <2>4
  <1>5. CASE EnsureResolves(p)
    <2>1. /\ cmd[p].pc = "ensure"
          /\ cmd' = [cmd EXCEPT ![p].ensured = RecordingRoot(cmd[p].cwd), ![p].pc = "spawn"]
          /\ UNCHANGED <<projects, recorder, fileVars, runs, starts, commands>>
      BY <1>5 DEF EnsureResolves, Stands
    <2>2. RecordingRoot(cmd[p].cwd) \in Folder /\ Inside(cmd[p].cwd, RecordingRoot(cmd[p].cwd))
      BY <1>2, <2>1, RecordingRootAround
    <2> QED
      BY <1>3, <2>1, <2>2
  <1>6. ASSUME NEW where \in {"project", "wait"}, cmd[p].pc \in {"spawn", "wait"},
               Goto(p, where), UNCHANGED <<projects, fileVars, runs, commands>>,
               recorder' \in [Folder -> {"none", "locked", "starting", "ready"}], starts' \in Nat
        PROVE  TopologyInv'
    <2>1. /\ cmd' \in [Proc -> CommandState]
          /\ \A o \in Proc : o # p => cmd'[o] = cmd[o]
          /\ cmd'[p].pc = where
          /\ cmd'[p].kind = cmd[p].kind /\ cmd'[p].cwd = cmd[p].cwd
          /\ cmd'[p].ensured = cmd[p].ensured
          /\ cmd'[p].root = cmd[p].root /\ cmd'[p].project = cmd[p].project
          /\ cmd'[p].run = cmd[p].run /\ cmd'[p].since = cmd[p].since
      <3>1. where \in Places
        BY DEF Places
      <3> QED
        BY <1>1, <1>6, <3>1, PlaceMoves
    <2>2. TypeOK'
      BY <1>1, <1>6, <2>1 DEF TypeOK, fileVars
    <2>3. Standing(p)'
      BY <1>1, <1>6, <2>1 DEF Standing
    <2>4. Within(p)'
      BY <1>1, <1>6, <2>1 DEF Within
    <2>5. Holding(p)'
      BY <1>1, <1>6, <2>1 DEF Holding, Standing, Keeps, Started, fileVars
    <2>6. Synced(p)'
      BY <1>6, <2>1 DEF Synced
    <2> QED
      BY <1>6, <2>1, <2>2, <2>3, <2>4, <2>5, <2>6, CommandKeeps DEF fileVars, CommandFine
  <1>7. CASE EnsureSpawns(p)
    <2>1. cmd[p].pc = "spawn" /\ UNCHANGED <<projects, fileVars, runs, commands>>
      BY <1>7 DEF EnsureSpawns, Stands
    <2>2. CASE recorder[cmd[p].ensured] # "none"
      <3>1. Goto(p, "project") /\ UNCHANGED <<recorder, starts>>
        BY <1>7, <2>2 DEF EnsureSpawns
      <3> QED
        BY <1>1, <1>6, <2>1, <3>1 DEF TypeOK
    <2>3. CASE recorder[cmd[p].ensured] = "none"
      <3>1. RecorderLock(cmd[p].ensured) /\ Goto(p, "wait")
        BY <1>7, <2>3 DEF EnsureSpawns
      <3>2. starts' = starts + 1 /\ recorder' = [recorder EXCEPT ![cmd[p].ensured] = "locked"]
        BY <3>1 DEF RecorderLock
      <3>3. recorder \in [Folder -> {"none", "locked", "starting", "ready"}] /\ starts \in Nat
        BY <1>1 DEF TypeOK
      <3>4. recorder' \in [Folder -> {"none", "locked", "starting", "ready"}]
        BY <3>2, <3>3
      <3>5. starts' \in Nat
        BY <3>2, <3>3
      <3> QED
        BY <1>6, <2>1, <3>1, <3>4, <3>5
    <2> QED
      BY <2>2, <2>3
  <1>8. CASE EnsureWaits(p)
    <2>1. cmd[p].pc = "wait" /\ UNCHANGED <<projects, recorder, fileVars, runs, starts, commands>>
      BY <1>8 DEF EnsureWaits, Stands
    <2>2. CASE Goto(p, "project")
      BY <1>1, <1>6, <2>1, <2>2 DEF TypeOK
    <2>3. CASE Quit(p)
      BY <2>1, <2>3, QuitKeeps
    <2> QED
      BY <1>8, <2>2, <2>3 DEF EnsureWaits
  <1> QED
    BY <1>4, <1>5, <1>7, <1>8

\* A command finds its project, or keeps the one of its Run.
LEMMA LoadKeeps ==
    ASSUME TopologyInv, NEW p \in Proc, LoadProject(p)
    PROVE  TopologyInv'
  <1>1. TypeOK /\ RunsFine /\ Standing(p) /\ Within(p) /\ Holding(p)
    BY DEF TopologyInv, CommandFine
  <1> DEFINE q == FindProject(cmd[p].ensured)
  <1>2. /\ cmd[p].pc = "project"
        /\ UNCHANGED <<projects, recorder, fileVars, runs, starts, commands>>
    BY DEF LoadProject, Stands
  <1>3. /\ cmd[p].cwd \in Folder /\ cmd[p].ensured \in Folder
        /\ Inside(cmd[p].cwd, cmd[p].ensured)
        /\ cmd[p].kind \in {"run start", "run", "run stop"}
    BY <1>1, <1>2 DEF Within, Standing
  <1>4. cmd[p].kind = "run" /\ cmd[p].run # None =>
           cmd[p].project \in projects /\ cmd[p].project \in Folder /\ cmd[p].root \in Folder
    <2> SUFFICES ASSUME cmd[p].kind = "run", cmd[p].run # None
                 PROVE  /\ cmd[p].project \in projects /\ cmd[p].project \in Folder
                        /\ cmd[p].root \in Folder
      OBVIOUS
    <2>1. cmd[p] \in CommandState
      BY <1>1 DEF TypeOK
    <2>2. cmd[p].run \in Run
      BY <2>1 DEF CommandState, Given
    <2>3. Started(cmd[p].run) /\ cmd[p].project = runs[cmd[p].run].project
          /\ cmd[p].root = runs[cmd[p].run].root
      BY <1>1 DEF Holding, Keeps
    <2>4. Placed(cmd[p].run)
      BY <1>1, <2>2 DEF RunsFine
    <2> QED
      BY <2>3, <2>4 DEF Placed
  <1>5. CASE cmd[p].project # None
    <2>1. cmd[p].kind = "run" /\ cmd[p].run # None
      BY <1>1, <1>2, <1>5 DEF Standing
    <2>2. cmd' = [cmd EXCEPT ![p].ensured = None, ![p].pc = "sync"]
      BY <1>5 DEF LoadProject, AfterProject
    <2>3. /\ cmd' \in [Proc -> CommandState]
          /\ \A o \in Proc : o # p => cmd'[o] = cmd[o]
          /\ cmd'[p].pc = "sync"
          /\ cmd'[p].kind = cmd[p].kind /\ cmd'[p].cwd = cmd[p].cwd
          /\ cmd'[p].root = cmd[p].root /\ cmd'[p].project = cmd[p].project
          /\ cmd'[p].run = cmd[p].run /\ cmd'[p].since = cmd[p].since
      <3>1. "sync" \in Places /\ None \in Folders
        BY DEF Places, Folders
      <3>2. cmd \in [Proc -> CommandState]
        BY <1>1 DEF TypeOK
      <3> QED
        BY <2>2, <3>1, <3>2 DEF CommandState
    <2>4. TypeOK'
      BY <1>1, <1>2, <2>3 DEF TypeOK, fileVars
    <2>5. Standing(p)'
      BY <1>3, <2>1, <2>3 DEF Standing
    <2>6. Within(p)'
      BY <1>2, <1>3, <1>4, <2>1, <2>3 DEF Within
    <2>7. Holding(p)'
      BY <1>1, <1>2, <2>1, <2>3 DEF Holding, Keeps, Started, fileVars
    <2>8. Synced(p)'
      BY <2>3 DEF Synced
    <2> QED
      BY <1>2, <2>3, <2>4, <2>5, <2>6, <2>7, <2>8, CommandKeeps DEF fileVars, CommandFine
  <1>6. CASE cmd[p].project = None /\ q = None
    <2>1. Quit(p)
      BY <1>6 DEF LoadProject
    <2> QED
      BY <1>2, <2>1, QuitKeeps
  <1>7. CASE cmd[p].project = None /\ q # None
    <2>1. q \in projects /\ q \in Folder /\ Inside(cmd[p].ensured, q)
      BY <1>3, <1>7, FindProjectAround
    <2>2. Inside(cmd[p].cwd, q)
      <3> HIDE DEF q
      <3> QED
        BY <1>3, <2>1, InsideThrough
    <2>3. cmd' = [cmd EXCEPT ![p].project = q, ![p].root = cmd[p].ensured,
                             ![p].ensured = None, ![p].pc = "sync"]
      BY <1>7 DEF LoadProject, AfterProject
    <2> HIDE DEF q
    <2>4. /\ cmd' \in [Proc -> CommandState]
          /\ \A o \in Proc : o # p => cmd'[o] = cmd[o]
          /\ cmd'[p].project = q /\ cmd'[p].root = cmd[p].ensured /\ cmd'[p].pc = "sync"
          /\ cmd'[p].kind = cmd[p].kind /\ cmd'[p].cwd = cmd[p].cwd
          /\ cmd'[p].run = cmd[p].run /\ cmd'[p].since = cmd[p].since
      <3>1. "sync" \in Places
        BY DEF Places
      <3> QED
        BY <1>1, <1>3, <2>1, <2>3, <3>1, ProjectMoves
    <2>5. TypeOK'
      BY <1>1, <1>2, <2>4 DEF TypeOK, fileVars
    <2>6. cmd[p].kind = "run" => cmd[p].run = None
      BY <1>4, <1>7, NestingAssumption
    <2>7. Standing(p)'
      BY <1>1, <1>3, <2>4 DEF Standing
    <2>8. Within(p)'
      BY <1>2, <1>3, <2>1, <2>2, <2>4 DEF Within, fileVars
    <2>9. Holding(p)' /\ Synced(p)'
      BY <1>3, <2>4, <2>6 DEF Holding, Synced
    <2> QED
      BY <1>2, <2>4, <2>5, <2>7, <2>8, <2>9, CommandKeeps DEF fileVars, CommandFine
  <1> QED
    BY <1>5, <1>6, <1>7

\* A read-only command finds its project.
LEMMA LookUpKeeps ==
    ASSUME TopologyInv, NEW p \in Proc, LookUp(p)
    PROVE  TopologyInv'
  <1>1. TypeOK /\ Standing(p) /\ Within(p)
    BY DEF TopologyInv, CommandFine
  <1> DEFINE q == ResolveProject(cmd[p].cwd)
  <1>2. /\ cmd[p].pc = "look"
        /\ UNCHANGED <<projects, recorder, fileVars, runs, starts, commands>>
    BY DEF LookUp, Stands
  <1>3. cmd[p].cwd \in Folder /\ cmd[p].kind \in ReadOnly /\ cmd[p].run = None
    BY <1>1, <1>2 DEF Within, Standing
  <1>4. CASE q = None
    BY <1>2, <1>4, QuitKeeps DEF LookUp
  <1>5. CASE q # None
    <2> DEFINE where == IF cmd[p].kind = "session start" THEN "begin" ELSE "choose"
    <2>1. q \in projects /\ q \in Folder /\ Inside(cmd[p].cwd, q)
      BY <1>3, <1>5, ResolveAround
    <2>2. cmd' = [cmd EXCEPT ![p].project = q, ![p].root = q, ![p].pc = where]
      BY <1>5 DEF LookUp
    <2>3. where \in Places
      BY DEF Places
    <2>4. /\ cmd[p].kind = "session start" => where = "begin"
          /\ cmd[p].kind = "session stop" => where = "choose"
          /\ where \in {"begin", "choose"}
      OBVIOUS
    <2> HIDE DEF q, where
    <2>5. /\ cmd' \in [Proc -> CommandState]
          /\ \A o \in Proc : o # p => cmd'[o] = cmd[o]
          /\ cmd'[p].project = q /\ cmd'[p].root = q /\ cmd'[p].pc = where
          /\ cmd'[p].kind = cmd[p].kind /\ cmd'[p].cwd = cmd[p].cwd
          /\ cmd'[p].run = cmd[p].run /\ cmd'[p].since = cmd[p].since
      <3> DEFINE new == [cmd[p] EXCEPT !.project = q, !.root = q, !.pc = where]
      <3>1. cmd \in [Proc -> CommandState] /\ cmd[p] \in CommandState /\ q \in Folders
        BY <1>1, <2>1 DEF TypeOK, Folders
      <3>2. /\ new \in CommandState
            /\ new.project = q /\ new.root = q /\ new.pc = where
            /\ new.kind = cmd[p].kind /\ new.cwd = cmd[p].cwd
            /\ new.run = cmd[p].run /\ new.since = cmd[p].since
        BY <2>3, <3>1 DEF CommandState
      <3>3. cmd' = [cmd EXCEPT ![p] = new]
        BY <2>2
      <3> HIDE DEF new
      <3>4. /\ cmd' \in [Proc -> CommandState]
            /\ \A o \in Proc : o # p => cmd'[o] = cmd[o]
            /\ cmd'[p] = new
        BY <3>1, <3>2, <3>3, CommandReplaced
      <3> QED BY <3>2, <3>4
    <2>6. TypeOK'
      BY <1>1, <1>2, <2>5 DEF TypeOK, fileVars
    <2>7. Standing(p)'
      BY <1>3, <2>4, <2>5 DEF Standing, ReadOnly
    <2>8. Within(p)'
      BY <1>2, <1>3, <2>1, <2>4, <2>5 DEF Within, fileVars
    <2>9. Holding(p)' /\ Synced(p)'
      BY <1>3, <2>4, <2>5 DEF Holding, Synced, ReadOnly
    <2> QED
      BY <1>2, <2>5, <2>6, <2>7, <2>8, <2>9, CommandKeeps DEF fileVars, CommandFine
  <1> QED
    BY <1>4, <1>5

\* The child of `undo run` has ended, and its completion begins in the root
\* of the Run.
LEMMA ChildKeeps ==
    ASSUME TopologyInv, NEW p \in Proc, ChildExits(p)
    PROVE  TopologyInv'
  <1>1. TypeOK /\ RunsFine /\ Standing(p) /\ Within(p) /\ Holding(p) /\ cmd[p] \in CommandState
    BY DEF TopologyInv, CommandFine, TypeOK
  <1>2. /\ cmd[p].pc = "child"
        /\ UNCHANGED <<projects, recorder, fileVars, runs, starts, commands>>
        /\ cmd' = [cmd EXCEPT ![p].cwd = runs[cmd[p].run].root, ![p].since = {},
                              ![p].pc = "ensure"]
    BY DEF ChildExits, Stands
  <1>3. cmd[p].kind = "run" /\ cmd[p].run # None
    BY <1>1, <1>2 DEF Standing
  <1>4. cmd[p].run \in Run /\ Keeps(p, cmd[p].run)
    BY <1>1, <1>3 DEF CommandState, Given, Holding
  <1>5. runs[cmd[p].run].root \in Folder
    BY <1>1, <1>4 DEF RunsFine, Placed, Keeps
  <1> DEFINE home == runs[cmd[p].run].root
  <1>6. home \in Folders /\ home = runs[cmd[p].run].root
    BY <1>5 DEF Folders
  <1> HIDE DEF home
  <1>7. /\ cmd' \in [Proc -> CommandState]
        /\ \A o \in Proc : o # p => cmd'[o] = cmd[o]
        /\ cmd'[p].cwd = home /\ cmd'[p].pc = "ensure"
        /\ cmd'[p].kind = cmd[p].kind /\ cmd'[p].root = cmd[p].root
        /\ cmd'[p].project = cmd[p].project /\ cmd'[p].run = cmd[p].run
    BY <1>1, <1>2, <1>6 DEF TypeOK, CommandState, Places
  <1>8. TypeOK'
    BY <1>1, <1>2, <1>7 DEF TypeOK, fileVars
  <1>9. Standing(p)'
    BY <1>3, <1>7 DEF Standing
  <1>10. Within(p)'
    BY <1>5, <1>6, <1>7 DEF Within
  <1>11. Holding(p)' /\ Synced(p)'
    BY <1>2, <1>3, <1>4, <1>6, <1>7 DEF Holding, Synced, Keeps, Started, fileVars
  <1> QED
    BY <1>2, <1>7, <1>8, <1>9, <1>10, <1>11, CommandKeeps DEF fileVars, CommandFine

\* A stop chooses the Run it completes, which was started.
LEMMA ChooseKeeps ==
    ASSUME TopologyInv, NEW p \in Proc, NEW r \in Run, Choose(p, r)
    PROVE  TopologyInv'
  <1>1. TypeOK /\ RunsFine /\ Standing(p) /\ Within(p) /\ Holding(p) /\ cmd[p] \in CommandState
    BY DEF TopologyInv, CommandFine, TypeOK
  <1>2. /\ cmd[p].pc = "choose" /\ Choices(p) = {r}
        /\ UNCHANGED <<projects, recorder, fileVars, runs, starts, commands>>
    BY DEF Choose, Stands
  <1>3. /\ cmd[p].kind \in {"run stop", "session stop"}
        /\ cmd[p].cwd \in Folder /\ cmd[p].root \in Folder
        /\ cmd[p].project \in projects /\ cmd[p].project \in Folder
        /\ Inside(cmd[p].cwd, cmd[p].project)
    BY <1>1, <1>2 DEF Standing, Within
  <1>4. runs[r].project \in Context(cmd[p].cwd, cmd[p].project)
    BY <1>2 DEF Choices
  <1>5. runs[r].project \in Folder /\ Inside(cmd[p].cwd, runs[r].project)
    BY <1>3, <1>4 DEF Context, Around
  <1>6. Started(r) /\ runs[r].project \in projects
    <2>1. Placed(r)
      BY <1>1 DEF RunsFine
    <2>2. runs[r] # Unused
      BY <1>5, NestingAssumption DEF Unused
    <2> QED
      BY <2>1, <2>2 DEF Placed
  <1>7. r # None
    BY NestingAssumption
  <1>8. CASE cmd[p].kind = "session stop"
    <2> DEFINE q == runs[r].project
    <2>1. cmd' = [cmd EXCEPT ![p].run = r, ![p].project = q, ![p].root = q, ![p].pc = "sync"]
      BY <1>8 DEF Choose, SessionSyncs
    <2>2. q \in Folders /\ q = runs[r].project
      BY <1>5 DEF Folders
    <2> HIDE DEF q
    <2>3. /\ cmd' \in [Proc -> CommandState]
          /\ \A o \in Proc : o # p => cmd'[o] = cmd[o]
          /\ cmd'[p].run = r /\ cmd'[p].project = q /\ cmd'[p].root = q /\ cmd'[p].pc = "sync"
          /\ cmd'[p].kind = cmd[p].kind /\ cmd'[p].cwd = cmd[p].cwd
      BY <1>1, <2>1, <2>2 DEF TypeOK, CommandState, Places, Given
    <2>4. TypeOK'
      BY <1>1, <1>2, <2>3 DEF TypeOK, fileVars
    <2>5. Standing(p)'
      BY <1>7, <1>8, <2>3 DEF Standing
    <2>6. Within(p)'
      BY <1>2, <1>3, <1>5, <1>6, <2>2, <2>3 DEF Within
    <2>7. Holding(p)' /\ Synced(p)'
      BY <1>2, <1>6, <1>8, <2>2, <2>3 DEF Holding, Synced, Started
    <2> QED
      BY <1>2, <2>3, <2>4, <2>5, <2>6, <2>7, CommandKeeps DEF fileVars, CommandFine
  <1>9. CASE cmd[p].kind = "run stop"
    <2>1. cmd' = [cmd EXCEPT ![p].run = r, ![p].pc = "complete"]
      BY <1>9 DEF Choose
    <2>2. /\ cmd' \in [Proc -> CommandState]
          /\ \A o \in Proc : o # p => cmd'[o] = cmd[o]
          /\ cmd'[p].run = r /\ cmd'[p].pc = "complete"
          /\ cmd'[p].kind = cmd[p].kind /\ cmd'[p].cwd = cmd[p].cwd
          /\ cmd'[p].root = cmd[p].root /\ cmd'[p].project = cmd[p].project
      BY <1>1, <2>1 DEF TypeOK, CommandState, Places, Given
    <2>3. TypeOK'
      BY <1>1, <1>2, <2>2 DEF TypeOK, fileVars
    <2>4. Standing(p)'
      BY <1>7, <1>9, <2>2 DEF Standing
    <2>5. Within(p)'
      BY <1>2, <1>3, <2>2 DEF Within
    <2>6. Holding(p)' /\ Synced(p)'
      BY <1>2, <1>6, <1>9, <2>2 DEF Holding, Synced, Started
    <2> QED
      BY <1>2, <2>2, <2>3, <2>4, <2>5, <2>6, CommandKeeps DEF fileVars, CommandFine
  <1> QED
    BY <1>3, <1>8, <1>9

-------------------------------------------------------------------------------
(* Commands that synchronize a project, start a Run or complete one.       *)

\* After its synchronization a command, and the Run it completes, has nothing
\* left to be recorded in the tree of its root.
LEMMA SyncKeeps ==
    ASSUME TopologyInv, NEW p \in Proc, SyncProject(p)
    PROVE  TopologyInv'
  <1>1. TypeOK /\ RunsFine /\ Standing(p) /\ Within(p) /\ Holding(p) /\ cmd[p] \in CommandState
    BY DEF TopologyInv, CommandFine, TypeOK
  <1>2. /\ cmd[p].pc = "sync" /\ ScanInto(cmd[p].project, cmd[p].root)
        /\ UNCHANGED <<projects, recorder, starts, commands>>
    BY DEF SyncProject, Stands
  <1>3. /\ cmd[p].cwd \in Folder /\ cmd[p].root \in Folder
        /\ cmd[p].project \in projects /\ cmd[p].project \in Folder
        /\ (cmd[p].kind = "run" => cmd[p].run = None) => Inside(cmd[p].cwd, cmd[p].project)
    BY <1>1, <1>2 DEF Within
  <1>4. /\ tracked' \in [Folder -> SUBSET Folder]
        /\ pending' \in [Folder -> SUBSET Folder]
        /\ vanished' \in SUBSET Folder
        /\ runs' \in [Run -> RunRow]
        /\ changes' \in Nat
        /\ Grows /\ RunsLast /\ NothingNew /\ RunsFine'
        /\ pending'[cmd[p].project] \cap tracked'[cmd[p].project] = {}
        /\ \A r \in Run : runs'[r].state = "active" /\ runs'[r].project = cmd[p].project =>
              runs'[r].owed \cap Tree(cmd[p].root) = {}
    BY <1>2, <1>3, ScanKeeps
  <1> DEFINE where == AfterSync(p)
  <1>5. /\ cmd[p].kind \in {"run start", "run"} /\ cmd[p].run = None => where = "begin"
        /\ cmd[p].kind = "run stop" => where = "choose"
        /\ cmd[p].kind \in {"run", "session stop"} /\ cmd[p].run # None => where = "complete"
    BY DEF AfterSync
  <1>6. \/ cmd[p].kind \in {"run start", "run"} /\ cmd[p].run = None
        \/ cmd[p].kind = "run stop"
        \/ cmd[p].kind \in {"run", "session stop"} /\ cmd[p].run # None
    BY <1>1, <1>2 DEF Standing
  <1>7. where \in Places
    BY <1>5, <1>6 DEF Places
  <1>8. Goto(p, where)
    BY DEF SyncProject
  <1> HIDE DEF where
  <1>9. /\ cmd' \in [Proc -> CommandState]
        /\ \A o \in Proc : o # p => cmd'[o] = cmd[o]
        /\ cmd'[p].pc = where
        /\ cmd'[p].kind = cmd[p].kind /\ cmd'[p].cwd = cmd[p].cwd
        /\ cmd'[p].root = cmd[p].root /\ cmd'[p].project = cmd[p].project
        /\ cmd'[p].run = cmd[p].run /\ cmd'[p].since = cmd[p].since
    BY <1>1, <1>7, <1>8, PlaceMoves
  <1>10. TypeOK'
    BY <1>1, <1>2, <1>4, <1>9 DEF TypeOK
  <1>11. cmd[p].run # None => cmd[p].run \in Run
    BY <1>1 DEF CommandState, Given
  <1>12. ASSUME cmd[p].kind \in {"run", "session stop"}, cmd[p].run # None
         PROVE  /\ Started(cmd[p].run)' /\ cmd[p].project = runs'[cmd[p].run].project
                /\ runs'[cmd[p].run].root = runs[cmd[p].run].root
                /\ runs'[cmd[p].run].early = runs[cmd[p].run].early
    <2>1. Started(cmd[p].run) /\ cmd[p].project = runs[cmd[p].run].project
      BY <1>1, <1>12 DEF Holding, Keeps
    <2> QED
      BY <1>4, <1>9, <1>11, <1>12, <2>1 DEF RunsLast, Started
  <1>13. Standing(p)'
    BY <1>1, <1>2, <1>5, <1>6, <1>9 DEF Standing
  <1>14. Within(p)'
    BY <1>2, <1>3, <1>5, <1>6, <1>9 DEF Within
  <1>15. Holding(p)'
    <2>1. ASSUME cmd[p].kind = "run", cmd[p].run # None PROVE Keeps(p, cmd[p].run)'
      <3>1. Keeps(p, cmd[p].run)
        BY <1>1, <2>1 DEF Holding
      <3> QED
        BY <1>9, <1>12, <2>1, <3>1 DEF Keeps
    <2>2. (cmd[p].kind = "run" /\ cmd[p].run # None => Keeps(p, cmd[p].run))'
      <3> SUFFICES ASSUME cmd[p].kind = "run", cmd[p].run # None, cmd'[p].run = cmd[p].run
                   PROVE  Keeps(p, cmd[p].run)'
        BY <1>9
      <3> QED
        BY <2>1
    <2>3. (cmd[p].kind = "session stop" /\ cmd[p].run # None =>
              /\ Started(cmd[p].run)
              /\ cmd[p].project = runs[cmd[p].run].project
              /\ cmd[p].root = cmd[p].project)'
      BY <1>1, <1>9, <1>12 DEF Holding, Started
    <2>4. (cmd[p].pc = "complete" => Started(cmd[p].run))'
      BY <1>5, <1>6, <1>9, <1>12 DEF Started
    <2> QED
      BY <2>2, <2>3, <2>4 DEF Holding
  <1>16. Synced(p)'
    <2>1. (Tree(cmd[p].root))' = Tree(cmd'[p].root)
      BY DEF Tree
    <2>2. ASSUME cmd'[p].pc = "complete"
          PROVE  cmd[p].kind \in {"run", "session stop"} /\ cmd[p].run # None /\ cmd[p].run \in Run
      BY <1>5, <1>6, <1>9, <1>11, <2>2
    <2>3. ASSUME cmd'[p].pc = "complete", runs'[cmd[p].run].state = "active"
          PROVE  runs'[cmd[p].run].owed \cap Tree(cmd[p].root) = {}
      BY <1>4, <1>12, <2>2, <2>3
    <2> QED
      BY <1>4, <1>9, <2>1, <2>3 DEF Synced, Stale
  <1> QED
    BY <1>1, <1>4, <1>9, <1>10, <1>13, <1>14, <1>15, <1>16, StepKeeps DEF CommandFine

\* A step that changes one Run, which is fine after it.
LEMMA OneRunMoves ==
    ASSUME TopologyInv, NEW r \in Run, UNCHANGED <<projects, tracked, pending>>,
           \A o \in Run : o # r => runs'[o] = runs[o],
           Placed(r)', Owing(r)', Clean(r)', Covered(r)',
           Started(r) =>
              /\ runs'[r].state # "unused"
              /\ runs'[r].state = "active" => runs[r].state = "active"
              /\ runs'[r].project = runs[r].project
              /\ runs'[r].root = runs[r].root
              /\ runs'[r].cwd = runs[r].cwd
              /\ runs'[r].early = runs[r].early,
           runs'[r].state = "active" => runs'[r].owed \subseteq runs[r].owed
    PROVE  Grows /\ RunsLast /\ NothingNew /\ RunsFine'
  <1>1. Grows
    BY DEF Grows
  <1>2. RunsLast
    <2>1. ASSUME NEW o \in Run, o # r PROVE runs'[o] = runs[o]
      BY <2>1
    <2> QED
      BY <2>1 DEF RunsLast, Started
  <1>3. NothingNew
    BY DEF NothingNew, Stale
  <1>4. ASSUME NEW o \in Run, o # r PROVE Placed(o)' /\ Owing(o)' /\ Clean(o)' /\ Covered(o)'
    <2>1. Placed(o) /\ Owing(o) /\ Clean(o) /\ Covered(o)
      BY DEF TopologyInv, RunsFine
    <2>2. runs'[o] = runs[o]
      BY <1>4
    <2>3. Placed(o)' /\ Owing(o)'
      BY <2>1, <2>2 DEF Placed, Owing, Started, Tree
    <2> QED
      BY <2>1, <2>2, <2>3 DEF Clean, Covered, Tree
  <1>5. RunsFine'
    <2>1. ASSUME NEW o \in Run PROVE Placed(o)' /\ Owing(o)' /\ Clean(o)' /\ Covered(o)'
      <3>1. CASE o = r
        BY <3>1
      <3>2. CASE o # r
        BY <1>4, <3>2
      <3> QED
        BY <3>1, <3>2
    <2> QED
      BY <2>1 DEF RunsFine
  <1> QED
    BY <1>1, <1>2, <1>3, <1>5

\* A Run is started: its project's history is behind in nothing that changed
\* before.
LEMMA StartKeeps ==
    ASSUME TopologyInv, NEW p \in Proc, NEW r \in Run, StartRun(p, r)
    PROVE  TopologyInv'
  <1>1. /\ TypeOK /\ RunsFine /\ Standing(p) /\ Within(p) /\ Synced(p)
        /\ cmd[p] \in CommandState
    BY DEF TopologyInv, CommandFine, TypeOK
  <1> DEFINE q == cmd[p].project
             new == [Unused EXCEPT !.state = "active", !.project = q, !.by = cmd[p].kind,
                                   !.root = cmd[p].root, !.cwd = cmd[p].cwd,
                                   !.early = (pending[q] \cap tracked[q]) \ cmd[p].since]
  <1>2. /\ cmd[p].pc = "begin" /\ runs[r] = Unused
        /\ runs' = [runs EXCEPT ![r] = new]
        /\ UNCHANGED <<projects, recorder, tracked, pending, changes, vanished, starts, commands>>
    BY DEF StartRun, Stands, fileVars
  <1>3. /\ cmd[p].kind \in {"run start", "run", "session start"} /\ cmd[p].run = None
        /\ cmd[p].cwd \in Folder /\ cmd[p].root \in Folder /\ q \in projects /\ q \in Folder
        /\ Inside(cmd[p].cwd, q)
    BY <1>1, <1>2 DEF Standing, Within
  <1>4. /\ new.state = "active" /\ new.project = q /\ new.by = cmd[p].kind
        /\ new.root = cmd[p].root /\ new.cwd = cmd[p].cwd
        /\ new.early = Stale(q) \ cmd[p].since
        /\ new.owed = {} /\ new.missed = {}
    BY DEF Unused, Stale
  <1>5. new \in RunRow
    <2>1. (pending[q] \cap tracked[q]) \ cmd[p].since \in SUBSET Folder
      BY <1>1, <1>3 DEF TypeOK
    <2>2. cmd[p].kind \in Kinds /\ q \in Folders /\ cmd[p].root \in Folders /\ cmd[p].cwd \in Folders
      BY <1>3 DEF Kinds, Folders
    <2> QED
      BY <2>1, <2>2 DEF Unused, RunRow
  <1>6. Unused.state = "unused" /\ Unused.owed = {}
    BY DEF Unused
  <1> HIDE DEF new
  <1>7. /\ runs' \in [Run -> RunRow] /\ runs'[r] = new
        /\ \A o \in Run : o # r => runs'[o] = runs[o]
    BY <1>1, <1>2, <1>5 DEF TypeOK
  <1>8. cmd[p].kind \in {"run start", "run"} => new.early = {}
    BY <1>1, <1>2, <1>4 DEF Synced
  <1>9. Placed(r)'
    BY <1>2, <1>3, <1>4, <1>7 DEF Placed, Started
  <1>10. Owing(r)'
    BY <1>4, <1>7 DEF Owing
  <1>11. Clean(r)' /\ Covered(r)'
    BY <1>4, <1>7, <1>8 DEF Clean, Covered
  <1>12. ~Started(r)
    BY <1>2, <1>6 DEF Started
  <1>13. Grows /\ RunsLast /\ NothingNew /\ RunsFine'
    BY <1>2, <1>4, <1>7, <1>9, <1>10, <1>11, <1>12, OneRunMoves
  <1>14. CASE cmd[p].kind = "run"
    <2>1. cmd' = [cmd EXCEPT ![p].run = r, ![p].pc = "child"]
      BY <1>14 DEF StartRun
    <2>2. /\ cmd' \in [Proc -> CommandState]
          /\ \A o \in Proc : o # p => cmd'[o] = cmd[o]
          /\ cmd'[p].run = r /\ cmd'[p].pc = "child"
          /\ cmd'[p].kind = "run" /\ cmd'[p].cwd = cmd[p].cwd
          /\ cmd'[p].root = cmd[p].root /\ cmd'[p].project = q
      BY <1>1, <1>14, <2>1 DEF TypeOK, CommandState, Places, Given
    <2>3. TypeOK'
      BY <1>1, <1>2, <1>7, <2>2 DEF TypeOK
    <2>4. Standing(p)'
      BY <2>2, NestingAssumption DEF Standing
    <2>5. Within(p)'
      BY <1>2, <1>3, <2>2 DEF Within
    <2>6. Keeps(p, r)'
      BY <1>4, <1>7, <1>8, <1>14, <2>2 DEF Keeps, Started
    <2>7. Holding(p)'
      BY <2>2, <2>6 DEF Holding
    <2>8. Synced(p)'
      BY <2>2 DEF Synced
    <2> QED
      BY <1>13, <2>2, <2>3, <2>4, <2>5, <2>7, <2>8, StepKeeps DEF CommandFine
  <1>15. CASE cmd[p].kind # "run"
    <2>1. cmd' = [cmd EXCEPT ![p] = Idle]
      BY <1>15 DEF StartRun, Quit
    <2>2. cmd' \in [Proc -> CommandState] /\ cmd'[p] = Idle
          /\ \A o \in Proc : o # p => cmd'[o] = cmd[o]
      BY <1>1, <2>1, IdleIsTyped DEF TypeOK
    <2>3. TypeOK'
      BY <1>1, <1>2, <1>7, <2>2 DEF TypeOK
    <2> QED
      BY <1>13, <2>2, <2>3, QuitIsFine, StepKeeps
  <1> QED
    BY <1>14, <1>15

\* A row that ends keeps its type.
LEMMA RowIsDone ==
    ASSUME NEW table \in [Run -> RunRow], NEW r \in Run
    PROVE  LET done == [table EXCEPT ![r].state = "done"] IN
           /\ done \in [Run -> RunRow]
           /\ \A o \in Run : o # r => done[o] = table[o]
           /\ done[r].state = "done" /\ done[r].by = table[r].by
           /\ done[r].project = table[r].project /\ done[r].root = table[r].root
           /\ done[r].cwd = table[r].cwd /\ done[r].early = table[r].early
           /\ done[r].missed = table[r].missed
  BY DEF RunRow

\* The row of a Run that ends.
LEMMA RowEnds ==
    ASSUME TypeOK, NEW r \in Run, NEW by \in Kinds \cup {"launch failed", None},
           runs' = [runs EXCEPT ![r].state = "done", ![r].by = by]
    PROVE  /\ runs' \in [Run -> RunRow]
           /\ \A o \in Run : o # r => runs'[o] = runs[o]
           /\ runs'[r].state = "done" /\ runs'[r].by = by
           /\ runs'[r].project = runs[r].project /\ runs'[r].root = runs[r].root
           /\ runs'[r].cwd = runs[r].cwd /\ runs'[r].early = runs[r].early
  <1> DEFINE mid == [runs EXCEPT ![r].state = "done"]
  <1>1. /\ mid \in [Run -> RunRow]
        /\ \A o \in Run : o # r => mid[o] = runs[o]
        /\ mid[r].state = "done" /\ mid[r].project = runs[r].project
        /\ mid[r].root = runs[r].root /\ mid[r].cwd = runs[r].cwd
        /\ mid[r].early = runs[r].early
    BY RowIsDone DEF TypeOK
  <1>2. runs' = [mid EXCEPT ![r].by = by]
    OBVIOUS
  <1> HIDE DEF mid
  <1> DEFINE end == [mid EXCEPT ![r].by = by]
  <1>3. /\ end \in [Run -> RunRow]
        /\ \A o \in Run : o # r => end[o] = mid[o]
        /\ end[r].state = mid[r].state /\ end[r].by = by
        /\ end[r].project = mid[r].project /\ end[r].root = mid[r].root
        /\ end[r].cwd = mid[r].cwd /\ end[r].early = mid[r].early
    BY <1>1 DEF RunRow
  <1>4. runs' = end
    BY <1>2
  <1> HIDE DEF end
  <1> QED
    BY <1>1, <1>3, <1>4

\* A Run ends: completed by the command that synchronized its project, or
\* because its child could not be launched.
LEMMA EndKeeps ==
    ASSUME TopologyInv, NEW p \in Proc, LaunchFails(p) \/ Complete(p)
    PROVE  TopologyInv'
  <1>1. /\ TypeOK /\ RunsFine /\ Standing(p) /\ Within(p) /\ Holding(p) /\ Synced(p)
        /\ cmd[p] \in CommandState
    BY DEF TopologyInv, CommandFine, TypeOK
  <1>2. /\ cmd[p].pc \in {"child", "complete"}
        /\ cmd' = [cmd EXCEPT ![p] = Idle]
        /\ UNCHANGED <<projects, recorder, tracked, pending, changes, vanished, starts, commands>>
    BY DEF LaunchFails, Complete, Stands, Quit, fileVars
  <1>3. PICK r \in Run : r = cmd[p].run
    <2>1. cmd[p].run \in Run
      BY <1>1, <1>2 DEF Standing, CommandState, Given
    <2> QED
      BY <2>1
  <1>4. cmd' \in [Proc -> CommandState] /\ cmd'[p] = Idle
        /\ \A o \in Proc : o # p => cmd'[o] = cmd[o]
    BY <1>1, <1>2, IdleIsTyped DEF TypeOK
  <1>5. Placed(r) /\ Owing(r) /\ Clean(r) /\ Covered(r) /\ runs[r] \in RunRow
    BY <1>1, <1>3 DEF RunsFine, TypeOK
  <1>6. CASE UNCHANGED runs
    <2>1. TypeOK'
      BY <1>1, <1>2, <1>4, <1>6 DEF TypeOK
    <2> QED
      BY <1>2, <1>4, <1>6, <2>1, QuitIsFine, CommandKeeps
  <1>7. ASSUME runs' \in [Run -> RunRow],
               \A o \in Run : o # r => runs'[o] = runs[o],
               runs'[r].state = "done",
               runs'[r].project = runs[r].project, runs'[r].root = runs[r].root,
               runs'[r].cwd = runs[r].cwd, runs'[r].early = runs[r].early,
               Started(r), Clean(r)', Covered(r)'
        PROVE  TopologyInv'
    <2>1. TypeOK'
      BY <1>1, <1>2, <1>4, <1>7 DEF TypeOK
    <2>2. Placed(r)'
      BY <1>2, <1>5, <1>7 DEF Placed, Started
    <2>3. Owing(r)'
      BY <1>7 DEF Owing
    <2>4. Grows /\ RunsLast /\ NothingNew /\ RunsFine'
      BY <1>2, <1>3, <1>7, <2>2, <2>3, OneRunMoves
    <2> QED
      BY <1>4, <2>1, <2>4, QuitIsFine, StepKeeps
  <1>8. CASE LaunchFails(p) /\ r \in Active
    <2>1. runs' = [runs EXCEPT ![r].state = "done", ![r].by = "launch failed"]
      BY <1>3, <1>8 DEF LaunchFails
    <2>2. /\ runs' \in [Run -> RunRow]
          /\ \A o \in Run : o # r => runs'[o] = runs[o]
          /\ runs'[r].state = "done" /\ runs'[r].by = "launch failed"
          /\ runs'[r].project = runs[r].project /\ runs'[r].root = runs[r].root
          /\ runs'[r].cwd = runs[r].cwd /\ runs'[r].early = runs[r].early
      BY <1>1, <2>1, RowEnds
    <2>3. Started(r)
      BY <1>8 DEF Started, Active
    <2>4. Clean(r)' /\ Covered(r)'
      BY <2>2 DEF Clean, Covered
    <2> QED
      BY <1>7, <2>2, <2>3, <2>4
  <1>9. CASE Complete(p) /\ r \in Active
    <2> DEFINE left == runs[r].owed \ cmd[p].since
    <2>1. runs' = [runs EXCEPT ![r].state = "done", ![r].by = cmd[p].kind, ![r].missed = left]
          /\ cmd[p].pc = "complete"
      BY <1>3, <1>9 DEF Complete, Completed, Stands
    <2>2. left \in SUBSET Folder /\ left = runs[r].owed \ cmd[p].since
      BY <1>5 DEF RunRow
    <2>3. cmd[p].kind \in {"run", "run stop", "session stop"} /\ cmd[p].run # None
          /\ cmd[p].kind \in Kinds
      BY <1>1, <2>1 DEF Standing, Kinds
    <2>4. r \in Run /\ runs[r].state = "active" /\ Started(r) /\ r = cmd[p].run
      BY <1>3, <1>9 DEF Started, Active
    <2> HIDE DEF left
    <2>5. /\ runs' \in [Run -> RunRow]
          /\ \A o \in Run : o # r => runs'[o] = runs[o]
          /\ runs'[r].state = "done" /\ runs'[r].by = cmd[p].kind /\ runs'[r].missed = left
          /\ runs'[r].project = runs[r].project /\ runs'[r].root = runs[r].root
          /\ runs'[r].cwd = runs[r].cwd /\ runs'[r].early = runs[r].early
      <3> DEFINE kind == cmd[p].kind
                 Ends == Kinds \cup {"launch failed", None}
                 Done == {"unused", "active", "done"}
      <3>1. kind \in Ends /\ kind = cmd[p].kind /\ "done" \in Done
        BY <2>3
      <3>2. runs' = [runs EXCEPT ![r].state = "done", ![r].by = kind, ![r].missed = left]
        BY <2>1
      <3>3. RunRow = [state : Done, project : Folders, root : Folders, cwd : Folders, by : Ends,
                      owed : SUBSET Folder, early : SUBSET Folder, missed : SUBSET Folder]
        BY DEF RunRow
      <3> HIDE DEF kind, Ends, Done
      <3>4. runs \in [Run -> RunRow]
        BY <1>1 DEF TypeOK
      <3>5. runs' \in [Run -> RunRow]
        BY <2>2, <3>1, <3>2, <3>3, <3>4
      <3>6. \A o \in Run : o # r => runs'[o] = runs[o]
        BY <3>2, <3>4
      <3>7. /\ runs'[r].state = "done" /\ runs'[r].by = kind /\ runs'[r].missed = left
            /\ runs'[r].project = runs[r].project /\ runs'[r].root = runs[r].root
            /\ runs'[r].cwd = runs[r].cwd /\ runs'[r].early = runs[r].early
        BY <3>2, <3>3, <3>4
      <3> QED
        BY <3>1, <3>5, <3>6, <3>7
    <2>6. Clean(r)'
      <3>1. cmd[p].kind = "run" => Keeps(p, r)
        BY <1>1, <2>3, <2>4 DEF Holding
      <3> QED
        BY <2>3, <2>5, <3>1 DEF Clean, Keeps
    <2>7. Covered(r)'
      <3>1. cmd[p].kind \in {"run", "session stop"} =>
               runs[r].owed \cap Tree(cmd[p].root) \subseteq cmd[p].since
        BY <1>1, <2>1, <2>4 DEF Synced
      <3>2. runs[r].owed \subseteq Tree(runs[r].project)
        BY <1>5, <2>4 DEF Owing
      <3>3. cmd[p].kind = "run" => cmd[p].root = runs[r].root
        BY <1>1, <2>3, <2>4 DEF Holding, Keeps
      <3>4. cmd[p].kind = "session stop" => cmd[p].root = runs[r].project
        BY <1>1, <2>3, <2>4 DEF Holding
      <3>5. cmd[p].kind = "run" => left \cap Tree(runs[r].root) = {}
        BY <2>2, <3>1, <3>3
      <3>6. cmd[p].kind = "session stop" => left = {}
        BY <2>2, <3>1, <3>2, <3>4
      <3> QED
        BY <2>5, <3>5, <3>6 DEF Covered, Tree
    <2> QED
      BY <1>7, <2>4, <2>5, <2>6, <2>7
  <1> QED
    BY <1>3, <1>6, <1>8, <1>9 DEF LaunchFails, Complete

-------------------------------------------------------------------------------
(* The theorems.                                                           *)

LEMMA CommandStepKeeps ==
    ASSUME TopologyInv, NEW p \in Proc, Command(p)
    PROVE  TopologyInv'
  <1>1. CASE \E kind \in Kinds, c \in Folder, r \in Run \cup {None} : Enter(p, kind, c, r)
    BY <1>1, EnterKeeps
  <1>2. CASE EnsureFindsLive(p) \/ EnsureResolves(p) \/ EnsureSpawns(p) \/ EnsureWaits(p)
    BY <1>2, EnsureKeeps
  <1>3. CASE LoadProject(p)
    BY <1>3, LoadKeeps
  <1>4. CASE LookUp(p)
    BY <1>4, LookUpKeeps
  <1>5. CASE SyncProject(p)
    BY <1>5, SyncKeeps
  <1>6. CASE Refused(p) \/ NoChoice(p)
    BY <1>6, QuitKeeps DEF Refused, NoChoice
  <1>7. CASE ChildExits(p)
    BY <1>7, ChildKeeps
  <1>8. CASE LaunchFails(p) \/ Complete(p)
    BY <1>8, EndKeeps
  <1>9. CASE \E r \in Run : StartRun(p, r) \/ Choose(p, r)
    BY <1>9, StartKeeps, ChooseKeeps
  <1> QED
    BY <1>1, <1>2, <1>3, <1>4, <1>5, <1>6, <1>7, <1>8, <1>9 DEF Command

\* The invariant of a data directory whose recorders, commands and files move
\* in any order.
THEOREM Invariance == TopologySpec => []TopologyInv
  <1>1. TopologyInit => TopologyInv
    BY InitIsFine
  <1>2. TopologyInv /\ [TopologyNext]_topologyVars => TopologyInv'
    <2> SUFFICES ASSUME TopologyInv, [TopologyNext]_topologyVars PROVE TopologyInv'
      OBVIOUS
    <2>1. CASE \E f \in Folder : Change(f)
      BY <2>1, ChangeKeeps
    <2>2. CASE \E d \in Folder :
                 \/ UserStarts(d) \/ RecorderRow(d) \/ RecorderReady(d) \/ RecorderEnds(d)
                 \/ \E f \in Folder : RecorderRecords(d, f)
      BY <2>2, RecorderKeeps
    <2>3. CASE \E p \in Proc : Command(p)
      BY <2>3, CommandStepKeeps
    <2>4. CASE UNCHANGED topologyVars
      <3>1. TypeOK'
        BY <2>4 DEF TopologyInv, TypeOK, topologyVars, fileVars
      <3> QED
        BY <2>4, <3>1, NothingMoves DEF topologyVars, fileVars
    <2> QED
      BY <2>1, <2>2, <2>3, <2>4 DEF TopologyNext
  <1> QED
    BY <1>1, <1>2, PTL DEF TopologySpec

\* Every variable keeps its type.
THEOREM TypeCorrect == TopologySpec => []TypeOK
  <1>1. TopologyInv => TypeOK
    BY DEF TopologyInv
  <1> QED
    BY <1>1, Invariance, PTL

\* run_context_project_ids: whatever is recorded now, the project of a Run is
\* among those a command looks at in the folder the Run was started in.
THEOREM RunsFound == TopologySpec => []RunsStayFindable
  <1>1. TopologyInv => RunsStayFindable
    <2> SUFFICES ASSUME TopologyInv, NEW r \in Run, runs[r] # Unused
                 PROVE  runs[r].project \in Context(runs[r].cwd, ResolveProject(runs[r].cwd))
      BY DEF RunsStayFindable
    <2>1. Placed(r)
      BY DEF TopologyInv, RunsFine
    <2> QED
      BY <2>1 DEF Placed, Context, Around
  <1> QED
    BY <1>1, Invariance, PTL

\* A read-only command finds a project wherever one lies around its folder,
\* whatever recorder is starting there.
THEOREM ReadersServed == TopologySpec => []ReadersFindProject
  <1>1. ReadersFindProject
    BY ResolveAround DEF ReadersFindProject
  <1> QED
    BY <1>1, PTL

\* `undo run start` and `undo run` leave no file whose state the project's
\* history has, and which changed before, to be recorded inside the Run.
THEOREM StartsAreClean == TopologySpec => []StartsClean
  <1>1. TopologyInv => StartsClean
    BY DEF TopologyInv, RunsFine, Clean, StartsClean
  <1> QED
    BY <1>1, Invariance, PTL

\* Before the Run is completed, `undo session stop` records every change of
\* its project and the end of `undo run` every change below the root the Run
\* was started with, wherever recording is then.
THEOREM CompletionsCover == TopologySpec => []CompletionCovers
  <1>1. TopologyInv => CompletionCovers
    BY DEF TopologyInv, RunsFine, Covered, CompletionCovers
  <1> QED
    BY <1>1, Invariance, PTL

================================================================================

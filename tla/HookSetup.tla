------------------------------ MODULE HookSetup ------------------------------
(***************************************************************************)
(* `undo setup` (agent_setup.rs) puts a hook for each event of an agent    *)
(* into the agent's own configuration file, beside the hooks the user has  *)
(* there.  It reads the file, merges, writes a temporary file, syncs it    *)
(* and renames it into place.  The user and the agent save the same file   *)
(* at any time, other setups (of another copy of Undo, say) run at the     *)
(* same time, and each can be killed.                                      *)
(*                                                                         *)
(* An event has a sequence of groups of hooks; an agent whose hooks stand  *)
(* directly in the event has groups of one.                                *)
(***************************************************************************)
EXTENDS Naturals, Sequences, FiniteSets, SequencesExt

CONSTANTS
    Installer,  \* setups; each names its own executable in its hook
    HookEvent,  \* events of the agent that Undo listens to
    UserHook,   \* the user's hooks
    Lookalike,  \* those among them that call `undo _hook` themselves
    Unusable,   \* malformed JSON, or a structure that is not a hook structure
    NoConfig,   \* no file
    NoOne,
    MaxSaves    \* bound: saves by the user

ASSUME SetupConstants ==
    /\ Installer \cap UserHook = {} /\ Lookalike \subseteq UserHook
    /\ NoOne \notin Installer
    /\ {Unusable, NoConfig} \cap [HookEvent -> Seq(SUBSET (Installer \cup UserHook))] = {}
    /\ Unusable # NoConfig
    /\ MaxSaves \in Nat

VARIABLES
    config,     \* the file
    grouped,    \* HookSchema: nested, or direct
    setup,      \* where each setup is, what it read, and (history) whether
                \* the user's hooks in the file have changed since
    installed,  \* history: the setup whose hooks should be in the file
    saved,      \* history: the hooks the user last left in it
    saves

setupVars == <<config, grouped, setup, installed, saved, saves>>

Usable(c) == c # Unusable /\ c # NoConfig
Empty == [e \in HookEvent |-> <<>>]
HooksOf(c, e) == UNION ToSet(c[e])
OwnHooks(c) == [e \in HookEvent |-> IF Usable(c) THEN HooksOf(c, e) \cap UserHook ELSE {}]

\* Bug (#83): any hook that calls Undo is taken for one of its own.
CallsUndo(h) == h \notin UserHook \/ h \in Lookalike
\* is_undo_hook: by the marker alone, which only setup writes.
IsUndoHook(h) == h \notin UserHook

\* merge_nested_event, merge_direct_event: Undo's hooks go, with a group that
\* held nothing else; the others keep their order and the new one comes last.
Foreign(group) == {h \in group : ~IsUndoHook(h)}
Staying(groups) == {n \in DOMAIN groups : Foreign(groups[n]) # {} \/ groups[n] = {}}
AheadOf(n, groups) == {m \in Staying(groups) : m < n}
Preserved(groups) ==
    [k \in 1 .. Cardinality(Staying(groups)) |->
        Foreign(groups[CHOOSE n \in Staying(groups) : Cardinality(AheadOf(n, groups)) = k - 1])]
MergedEvent(groups, i) == Append(Preserved(groups), {i})
Merged(c, i) ==
    LET base == IF c = NoConfig THEN Empty ELSE c
    IN [e \in HookEvent |-> MergedEvent(base[e], i)]

Reaches(i, at) == setup' = [setup EXCEPT ![i].at = at]

-------------------------------------------------------------------------------
SetupInit ==
    /\ config \in {NoConfig, Empty, Unusable}
    /\ grouped \in BOOLEAN
    /\ setup = [i \in Installer |-> [at |-> "idle", read |-> NoConfig, stale |-> FALSE]]
    /\ installed = NoOne
    /\ saved = [e \in HookEvent |-> {}]
    /\ saves = 0

\* install_at reads and parses.
ReadConfig(i) ==
    /\ setup[i].at = "idle"
    /\ setup' = [setup EXCEPT ![i] = [at |-> "merge", read |-> config, stale |-> FALSE]]
    /\ UNCHANGED <<config, grouped, installed, saved, saves>>

\* merge_hooks, and write_atomic_json up to sync_all; a structure it does not
\* know is left alone, also when it shows only in the last event.
Prepare(i) ==
    /\ setup[i].at = "merge"
    /\ Reaches(i, IF setup[i].read = Unusable THEN "idle" ELSE "persist")
    /\ UNCHANGED <<config, grouped, installed, saved, saves>>

\* temporary.persist: the whole new file, or the old one.  What the user saved
\* since the file was read is gone.
Persist(i) ==
    /\ setup[i].at = "persist"
    /\ config' = Merged(setup[i].read, i)
    /\ installed' = i
    /\ saved' = IF setup[i].stale THEN OwnHooks(config') ELSE saved
    /\ setup' = [j \in Installer |-> [setup[j] EXCEPT
           !.at = IF j = i THEN "idle" ELSE @, !.stale = @ \/ setup[i].stale]]
    /\ UNCHANGED <<grouped, saves>>

\* The setup is killed or fails; a temporary file may be left over.
SetupEnds(i) ==
    /\ setup[i].at # "idle"
    /\ Reaches(i, "idle")
    /\ UNCHANGED <<config, grouped, installed, saved, saves>>

Save(c, whose) ==
    /\ saves < MaxSaves
    /\ saves' = saves + 1
    /\ config' = c
    /\ installed' = whose
    /\ saved' = OwnHooks(c)
    /\ setup' = [i \in Installer |-> [setup[i] EXCEPT !.stale = TRUE]]
    /\ UNCHANGED grouped

\* The user adds a hook to an event, in a group of its own or beside others, ...
AddHook(e, h) ==
    /\ config # Unusable
    /\ LET c == IF config = NoConfig THEN Empty ELSE config IN
       \/ Save([c EXCEPT ![e] = Append(@, {h})], installed)
       \/ /\ grouped
          /\ \E n \in DOMAIN c[e] : Save([c EXCEPT ![e][n] = @ \cup {h}], installed)
\* ... copies a group, Undo's hooks in it, removes one, or spoils the file.
CopyGroup(e) ==
    /\ Usable(config)
    /\ \E n \in DOMAIN config[e] : Save([config EXCEPT ![e] = Append(@, config[e][n])], NoOne)
RemoveGroup(e) ==
    /\ Usable(config)
    /\ \E n \in DOMAIN config[e] : Save([config EXCEPT ![e] = RemoveAt(@, n)], NoOne)
Spoil == Save(Unusable, NoOne)

SetupNext ==
    \/ \E i \in Installer : ReadConfig(i) \/ Prepare(i) \/ Persist(i) \/ SetupEnds(i)
    \/ \E e \in HookEvent : (\E h \in UserHook : AddHook(e, h)) \/ CopyGroup(e) \/ RemoveGroup(e)
    \/ Spoil

SetupSpec == SetupInit /\ [][SetupNext]_setupVars

-------------------------------------------------------------------------------
\* However often setups run, at the same time and killed at any point: the
\* hooks the user left in the file are there, unless they were saved between
\* a setup's read and its rename; and once a setup has succeeded there is one
\* hook of Undo for each event, that of the setup that came last, whatever
\* earlier ones and the user's copies had left there.
UndoHooks(e) == {h \in HooksOf(config, e) : h \in Installer}
GroupsWithUndo(e) == {n \in DOMAIN config[e] : config[e][n] \cap Installer # {}}
SetupMerges ==
    /\ \A e \in HookEvent : saved[e] \subseteq OwnHooks(config)[e]
    /\ installed # NoOne =>
          \A e \in HookEvent : UndoHooks(e) = {installed} /\ Cardinality(GroupsWithUndo(e)) = 1
===============================================================================

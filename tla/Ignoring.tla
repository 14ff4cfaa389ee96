------------------------------ MODULE Ignoring ------------------------------
(***************************************************************************)
(* Which files are recorded (ignore.rs).  One predicate decides, from the  *)
(* rules of .gitignore and .undoignore and from built-in names; but a scan *)
(* asks it folder by folder on its way down, and a notification or an      *)
(* agent's report only about the path it names.  A process reads the rules *)
(* once (OnceLock): a recorder goes on with those it started with while    *)
(* commands that scan the same project follow the ones in the file.        *)
(*                                                                         *)
(* A notification is handled at once here: queues, outages and failures    *)
(* are the subject of Recorder.                                            *)
(***************************************************************************)
EXTENDS Naturals, Sequences, FiniteSetsExt, SequencesExt

CONSTANTS
    Root,          \* where the project may be: sequences of names from / on
    Tracked,       \* files that may be there: sequences of names below the root
    IgnoredName,   \* built-in names of folders and files
    SecretName,    \* names with an extension of keys and certificates
    TemporaryName, \* names of files a restore stages or sets aside
    RuleFile,      \* what the two files may contain: sequences of rules
    NoRules,
    MaxRuleEdits   \* bound: changes to the two files

ASSUME IgnoringConstants ==
    /\ Root \subseteq Seq(STRING) \ {<<>>}
    /\ Tracked \subseteq Seq(STRING) \ {<<>>}
    /\ NoRules \notin RuleFile
    /\ MaxRuleEdits \in Nat

VARIABLES
    root,      \* the folder of the project
    ruleFile,  \* .gitignore followed by .undoignore
    loaded,    \* CUSTOM_IGNORE of the recorder, NoRules while there is none
    edited,    \* history: the rules changed after the recorder read them
    ruleEdits,
    present,   \* the files that are there
    tracked    \* file_state: "none", or a row that is live or deleted

ignoreVars == <<root, ruleFile, loaded, edited, ruleEdits, present, tracked>>

Folders(path) == {SubSeq(path, 1, n) : n \in 1 .. Len(path) - 1}

\* The crate's patterns, as far as they differ in what they match: a name
\* (`keep`), a folder of that name (`build/`), what is below it (`build/**`).
Matches(rule, path, isDir) ==
    CASE rule.kind = "name" -> Last(path) = rule.name
      [] rule.kind = "folder" -> isDir /\ Last(path) = rule.name
      [] rule.kind = "below" -> Len(path) > 1 /\ path[1] = rule.name

\* apply_matcher: the last pattern that matches decides, if there is one.
Opinion(rules, path, isDir) ==
    LET matching == {i \in DOMAIN rules : Matches(rules[i], path, isDir)} IN
    IF matching = {} THEN "none"
    ELSE IF rules[Max(matching)].negated THEN "record" ELSE "ignore"

\* apply_parent_dir_matcher: the nearest folder about which there is one.
OpinionOfParents(rules, path) ==
    LET decided == {f \in Folders(path) : Opinion(rules, f, TRUE) # "none"} IN
    IF decided = {} THEN "none"
    ELSE Opinion(rules, CHOOSE f \in decided : \A g \in decided : Len(g) <= Len(f), TRUE)

IsRestoreTemporary(path) == Last(path) \in TemporaryName
MatchesBuiltin(path) ==
    (\E i \in DOMAIN path : path[i] \in IgnoredName) \/ Last(path) \in SecretName

\* should_ignore_with: a rule about the path itself, then one about a folder
\* above it, then the built-in names; a restore's own files in any case.
ShouldIgnore(rules, path, isDir) ==
    \/ \E n \in 1 .. Len(path) : IsRestoreTemporary(SubSeq(path, 1, n))
    \/ LET own == Opinion(rules, path, isDir)
           above == OpinionOfParents(rules, path)
       IN CASE own # "none" -> own = "ignore"
            [] own = "none" /\ above # "none" -> above = "ignore"
            [] OTHER -> MatchesBuiltin(path)

-------------------------------------------------------------------------------
(* The three ways to a file. *)

\* The root is asked about like what is in it.  It has no name below itself, so
\* no pattern or built-in name is about it; but nothing stops the search for a
\* folder above it, and its own extension counts.
RootIgnored(rules) ==
    LET above == OpinionOfParents(rules, root) IN
    \/ above = "ignore"
    \/ above = "none" /\ Last(root) \in SecretName

\* Bug: the walk does not say that a folder is a folder.
WalkedAsFiles(rules, path) ==
    ~RootIgnored(rules) /\ \A n \in 1 .. Len(path) : ~ShouldIgnore(rules, SubSeq(path, 1, n), FALSE)
\* WalkDir's filter_entry does not go down into what is ignored.
Walked(rules, path) ==
    ~RootIgnored(rules) /\ \A n \in 1 .. Len(path) : ~ShouldIgnore(rules, SubSeq(path, 1, n), n < Len(path))

\* initial_scan: what was not met is gone, unless nothing was.
Scanned(rules) ==
    LET seen == {p \in present : Walked(rules, p)} IN
    [p \in Tracked |-> IF p \in seen THEN "live"
                       ELSE IF tracked[p] = "live" /\ seen # {} THEN "deleted"
                       ELSE tracked[p]]

Deleted(p) == IF tracked[p] = "live" THEN "deleted" ELSE tracked[p]

\* handle_create, handle_modify, handle_delete and reconcile_paths, by what
\* is there when they look.
Found(rules, p) == IF ShouldIgnore(rules, p, FALSE) THEN tracked[p]
                   ELSE IF p \in present' THEN "live" ELSE Deleted(p)

Noticed(changed) ==
    tracked' = IF loaded = NoRules THEN tracked
               ELSE [p \in Tracked |-> IF p \in changed THEN Found(loaded, p) ELSE tracked[p]]

-------------------------------------------------------------------------------
IgnoreInit ==
    /\ root \in Root
    /\ ruleFile \in RuleFile
    /\ loaded = NoRules
    /\ edited = FALSE
    /\ ruleEdits = 0
    /\ present = {}
    /\ tracked = [p \in Tracked |-> "none"]

EditRules ==
    /\ ruleEdits < MaxRuleEdits
    /\ ruleEdits' = ruleEdits + 1
    /\ ruleFile' \in RuleFile \ {ruleFile}
    /\ edited' = TRUE
    /\ UNCHANGED <<root, loaded, present, tracked>>

\* cmd_start, and a stop of any kind.
StartRecorder ==
    /\ loaded = NoRules
    /\ loaded' = ruleFile
    /\ edited' = FALSE
    /\ tracked' = Scanned(ruleFile)
    /\ UNCHANGED <<root, ruleFile, ruleEdits, present>>
StopRecorder ==
    /\ loaded # NoRules
    /\ loaded' = NoRules
    /\ UNCHANGED <<root, ruleFile, edited, ruleEdits, present, tracked>>

WriteFile(p) ==
    /\ present' = present \cup {p}
    /\ Noticed({p})
    /\ UNCHANGED <<root, ruleFile, loaded, edited, ruleEdits>>
RemoveFile(p) ==
    /\ p \in present
    /\ present' = present \ {p}
    /\ Noticed({p})
    /\ UNCHANGED <<root, ruleFile, loaded, edited, ruleEdits>>

\* A paired Name event.  A name of a restore's own files has both ends looked
\* at; a file moved out of sight is deleted, one that comes into sight is
\* recorded whatever its old name was.
MoveFile(old, new) ==
    /\ old \in present /\ new # old
    /\ present' = (present \ {old}) \cup {new}
    /\ IF loaded = NoRules \/ IsRestoreTemporary(old) \/ IsRestoreTemporary(new)
          \/ ShouldIgnore(loaded, new, FALSE)
       THEN Noticed({old, new})
       ELSE tracked' = [tracked EXCEPT ![old] = Deleted(old), ![new] = "live"]
    /\ UNCHANGED <<root, ruleFile, loaded, edited, ruleEdits>>

\* A command brings the history up to date: the whole project, or the paths
\* an agent reports.
SyncByCommand ==
    /\ loaded # NoRules
    /\ tracked' = Scanned(ruleFile)
    /\ UNCHANGED <<root, ruleFile, loaded, edited, ruleEdits, present>>
ReportPath(p) ==
    /\ loaded # NoRules
    /\ UNCHANGED <<root, ruleFile, loaded, edited, ruleEdits, present>>
    /\ tracked' = [tracked EXCEPT ![p] = Found(ruleFile, p)]

IgnoreNext ==
    \/ EditRules \/ StartRecorder \/ StopRecorder \/ SyncByCommand
    \/ \E p \in Tracked : WriteFile(p) \/ RemoveFile(p) \/ ReportPath(p)
    \/ \E old, new \in Tracked : MoveFile(old, new)

IgnoreSpec == IgnoreInit /\ [][IgnoreNext]_ignoreVars

-------------------------------------------------------------------------------
\* While the rules are the ones the recorder started with, scans, notifications,
\* renames and reports agree: a file that is there is recorded if neither it nor
\* a folder above it is ignored, and no scan takes it for deleted.  Not so where
\* a rule of the project is also about a folder above it, or its own name ends
\* like a secret's: there scans see nothing at all, and what is recorded depends
\* on the notifications alone.  And nothing opts a restore's own files in
\* (docs/storage.md: "These internal paths cannot be opted back in with a
\* negation rule").
InSight(p) == /\ ~ShouldIgnore(loaded, p, FALSE)
              /\ \A f \in Folders(p) : ~ShouldIgnore(loaded, f, TRUE)
WaysAgree ==
    /\ loaded # NoRules /\ ~edited /\ ~RootIgnored(loaded) =>
           \A p \in present : InSight(p) => tracked[p] = "live"
    /\ \A p \in Tracked : IsRestoreTemporary(p) => tracked[p] = "none"

\* ignore.rs, of `!build/**`: "The equivalent recursive glob already whitelists
\* children directly. Keeping this test documents that both supported spellings
\* work."  So a file it opts in should stay recorded while it is there.
OptedInStaysRecorded ==
    loaded # NoRules /\ ~edited =>
        \A p \in present : ~ShouldIgnore(loaded, p, FALSE) => tracked[p] # "deleted"

===============================================================================

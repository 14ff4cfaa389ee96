----------------------------- MODULE SelfUpdate -----------------------------
(***************************************************************************)
(* `undo update` (update.rs) replaces the program's own executable: it     *)
(* downloads a release, checks it against the published sums, renames the  *)
(* executable aside (undo.old), copies the new one beside it and renames   *)
(* that into place, and takes the old one back when this fails.  Any step  *)
(* may fail, the process may be killed, and two people may update at the   *)
(* same time.                                                              *)
(***************************************************************************)
EXTENDS Naturals, FiniteSets

CONSTANTS
    Updater,     \* processes
    NoBinary,
    MaxRelease,  \* bound: releases
    MaxBinaries  \* bound: executables ever installed

ASSUME UpdateConstants ==
    /\ {MaxRelease, MaxBinaries} \subseteq Nat
    /\ NoBinary \notin [file : Nat, release : Nat, sound : BOOLEAN]

VARIABLES
    exe,         \* the executable: which file it is, its release, whether it
                 \* is whole and what the sums list
    backup,      \* undo.old
    latest,      \* the latest release on GitHub
    updater,     \* where each update is, the file and the release it runs,
                 \* the release it downloaded, the name it replaces
    follows,     \* current_exe gives the present name of the running file
                 \* (Linux), not the one it was started by (macOS)
    binaries,    \* number of files installed so far
    stranded,    \* history: an executable was left at undo.old only, by a kill
                 \* or by a take-back that failed
    overlapped   \* history: two updates were at work at once

updateVars == <<exe, backup, latest, updater, follows, binaries, stranded, overlapped>>

Binary(n, release, sound) == [file |-> n, release |-> release, sound |-> sound]
Idle(u) == updater[u].at = "idle"
Proceed(u, at) == updater' = [updater EXCEPT ![u].at = at]

-------------------------------------------------------------------------------
UpdateInit ==
    /\ exe = Binary(1, 1, TRUE)
    /\ backup = NoBinary
    /\ latest = 1
    /\ updater = [u \in Updater |-> [at |-> "idle", file |-> 0, release |-> 0,
                                     new |-> 0, dest |-> "exe"]]
    /\ follows \in BOOLEAN
    /\ binaries = 1
    /\ stranded = FALSE
    /\ overlapped = FALSE

Release ==
    /\ latest < MaxRelease
    /\ latest' = latest + 1
    /\ UNCHANGED <<exe, backup, updater, follows, binaries, stranded, overlapped>>

\* cmd_update: the version is that of the running file; no downgrade.
CheckLatest(u) ==
    /\ Idle(u)
    /\ exe # NoBinary
    /\ latest > exe.release
    /\ updater' = [updater EXCEPT ![u] = [at |-> "download", file |-> exe.file,
           release |-> exe.release, new |-> latest, dest |-> "exe"]]
    /\ overlapped' = (overlapped \/ \E v \in Updater : ~Idle(v))
    /\ UNCHANGED <<exe, backup, latest, follows, binaries, stranded>>

\* verify_checksum, verify_against_sums: sums without the artifact, or with
\* another hash, end the update.
Verifies(sound) == sound

\* curl, the sums, tar.  What arrives may be anything.
Download(u, sound) ==
    /\ updater[u].at = "download"
    /\ Proceed(u, IF Verifies(sound) THEN "aside" ELSE "idle")
    /\ UNCHANGED <<exe, backup, latest, follows, binaries, stranded, overlapped>>

\* current_exe: the executable, undo.old when another update has set it aside,
\* or the name of a file that is gone.
CurrentExe(u) ==
    IF ~follows THEN "exe"
    ELSE IF exe # NoBinary /\ exe.file = updater[u].file THEN "exe"
    ELSE IF backup # NoBinary /\ backup.file = updater[u].file THEN "backup"
    ELSE "gone"

\* rename(current_exe, backup); undo.old is its own backup.
SetAside(u) ==
    /\ updater[u].at = "aside"
    /\ LET name == CurrentExe(u) IN
       \/ /\ name = "exe" /\ exe # NoBinary
          /\ backup' = exe
          /\ exe' = NoBinary
          /\ updater' = [updater EXCEPT ![u].at = "install", ![u].dest = "exe"]
       \/ /\ name = "backup"
          /\ updater' = [updater EXCEPT ![u].at = "install", ![u].dest = "backup"]
          /\ UNCHANGED <<exe, backup>>
       \/ /\ name = "gone" \/ (name = "exe" /\ exe = NoBinary)
          /\ Proceed(u, "idle")
          /\ UNCHANGED <<exe, backup>>
    /\ UNCHANGED <<latest, follows, binaries, stranded, overlapped>>

Installed(u, sound) == Binary(binaries + 1, updater[u].new, sound)
Place(u, binary) == IF updater[u].dest = "exe" THEN exe' = binary /\ UNCHANGED backup
                    ELSE backup' = binary /\ UNCHANGED exe

\* Bug: the new executable is copied to its place, not beside it.
InstallByCopy(u) ==
    /\ \/ /\ updater[u].at = "install"
          /\ binaries < MaxBinaries
          /\ binaries' = binaries + 1
          /\ Place(u, Installed(u, FALSE))
          /\ Proceed(u, "copying")
       \/ /\ updater[u].at = "copying"
          /\ Place(u, Binary(binaries, updater[u].new, TRUE))
          /\ Proceed(u, "clean")
          /\ UNCHANGED binaries
    /\ UNCHANGED <<latest, follows, stranded, overlapped>>

\* install_binary: copied and made executable under a name of its own, then
\* renamed into place.
InstallBinary(u) ==
    /\ updater[u].at = "install"
    /\ binaries < MaxBinaries
    /\ binaries' = binaries + 1
    /\ Place(u, Installed(u, TRUE))
    /\ Proceed(u, "clean")
    /\ UNCHANGED <<latest, follows, stranded, overlapped>>

\* It fails: the backup is renamed back, if it is still there.  This may fail
\* like any other step, and its error is discarded: the update ends with the
\* executable at undo.old only.
TakeBack(u) ==
    /\ updater[u].at = "install"
    /\ \/ /\ updater[u].dest = "exe" /\ backup # NoBinary
          /\ exe' = backup
          /\ backup' = NoBinary
          /\ UNCHANGED stranded
       \/ /\ stranded' = TRUE
          /\ UNCHANGED <<exe, backup>>
    /\ Proceed(u, "idle")
    /\ UNCHANGED <<latest, follows, binaries, overlapped>>

\* The backup is removed; a failure is discarded, it stays.
RemoveBackup(u) ==
    /\ updater[u].at = "clean"
    /\ backup' \in {backup, NoBinary}
    /\ Proceed(u, "idle")
    /\ UNCHANGED <<exe, latest, follows, binaries, stranded, overlapped>>

UpdaterKilled(u) ==
    /\ ~Idle(u)
    /\ Proceed(u, "idle")
    /\ stranded' = (stranded \/ updater[u].at = "install")
    /\ UNCHANGED <<exe, backup, latest, follows, binaries, overlapped>>

UpdateNext ==
    \/ Release
    \/ \E u \in Updater :
          \/ CheckLatest(u) \/ SetAside(u) \/ InstallBinary(u) \/ TakeBack(u)
          \/ RemoveBackup(u) \/ UpdaterKilled(u)
          \/ \E sound \in BOOLEAN : Download(u, sound)

UpdateSpec == UpdateInit /\ [][UpdateNext]_updateVars

-------------------------------------------------------------------------------
\* What is at the executable's name, or set aside, is a whole release that
\* matches its sums, also after a kill in the middle ("a crash mid-install
\* never leaves a half-written executable"); unless updates overlapped, at every
\* moment one of the two is there, an executable is there whenever no update is
\* at work (except after a kill between the two renames, and after a failed
\* installation whose take-back failed too), and none is older than the release
\* the update at work runs.
ExecutableKept ==
    /\ \A b \in {exe, backup} \ {NoBinary} : b.sound
    /\ ~overlapped =>
          /\ exe # NoBinary \/ backup # NoBinary
          /\ ~stranded /\ (\A u \in Updater : Idle(u)) => exe # NoBinary
          /\ \A u \in Updater : ~Idle(u) /\ exe # NoBinary => exe.release >= updater[u].release
===============================================================================

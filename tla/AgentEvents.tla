----------------------------- MODULE AgentEvents ------------------------------
(***************************************************************************)
(* The callers of Runs: agents that report their work through `undo event` *)
(* or through hooks, and people who use `undo run` and `undo run stop`.    *)
(*                                                                         *)
(* Each call is a process of its own.  It brings the history up to date    *)
(* (it records what the recorder has not yet seen), looks up its Run       *)
(* outside any transaction, runs one transaction, and, for an event, saves *)
(* its answer under the event's idempotency key.  It can die anywhere.  An *)
(* integration that gets no answer sends the same event again, at times    *)
(* while the first call is still running; a hook is not repeated and its   *)
(* host goes on whatever it returns.                                       *)
(*                                                                         *)
(* A client follows its script.  It changes files only between the calls   *)
(* that bracket its work; others change any file at any moment.  The       *)
(* question is whether what it did ends up under its Run.                  *)
(***************************************************************************)
EXTENDS Runs, Sequences

CONSTANTS
    Client,     \* agents and people; also the names they give their changes
    Announced,  \* the paths each client announces with its changes
    Scripts,    \* what the clients may set out to do: steps, how they are sent
                \* (via), which Run they are about, whether an event may be
                \* sent again before the first call has ended (hasty), and
                \* whether intent_completed says which intent (named)
    MaxWrites,  \* bound: changes to files
    MaxTroubles \* bound: calls that die, prunes, events sent again too early

ASSUME ClientAssumption == Client \subseteq Change /\ Client \subseteq Name
ASSUME AnnouncedAssumption == Announced \in [Client -> (SUBSET Path) \ {{}}]
ASSUME ScriptsAssumption ==
    \A s \in Scripts, c \in Client :
        /\ s[c].external \in External \cup {NoExternal}
        /\ s[c].mode \in {"window", "reported"}
        /\ s[c].named \in BOOLEAN

\* The step that ends what an opening one began, and the steps there are.
Closer == [open |-> "close", istart |-> "idone", pre |-> "post", run |-> "done"]
Closers == {Closer[kind] : kind \in DOMAIN Closer}
Vocabulary ==
    [event |-> {"start", "open", "close", "istart", "idone", "checkpoint", "complete"},
     hook |-> {"begin", "pre", "post", "end"},
     cli |-> {"run", "done", "stop"}]

\* Clients keep to the documented order: work is bracketed, only a reported
\* Run has changes, and nothing follows the end of a Run.  A client's change,
\* intent and checkpoint all have its name, so it has one of each.
Orderly(s) ==
    /\ s.via \in DOMAIN Vocabulary /\ s.steps \in Seq(Vocabulary[s.via])
    /\ s.external = NoExternal <=> s.via = "cli"
    /\ s.via = "hook" => s.mode = "reported"
    /\ s.via = "cli" => s.mode = "window"
    /\ \A i, j \in DOMAIN s.steps : s.steps[i] = s.steps[j] => i = j
    /\ \A i \in DOMAIN s.steps :
          /\ s.steps[i] \in DOMAIN Closer /\ i + 1 \in DOMAIN s.steps =>
                s.steps[i + 1] = Closer[s.steps[i]]
          /\ s.steps[i] \in Closers => /\ i - 1 \in DOMAIN s.steps
                                       /\ s.steps[i - 1] \in DOMAIN Closer
          /\ s.steps[i] = "open" => s.mode = "reported"
          /\ s.steps[i] \in {"complete", "stop", "end"} => i = Len(s.steps)
          /\ s.steps[i] \in {"run", "stop"} => i = 1

ASSUME OrderAssumption == \A s \in Scripts, c \in Client : Orderly(s[c])
ASSUME WorkBoundAssumption ==
    MaxWrites \in Nat /\ MaxTroubles \in Nat

VARIABLES
    script,     \* the script of each client
    client,     \* where each client is, and which steps succeeded for it
    calls,      \* the calls in progress
    responses,  \* integration_events: the answer saved under each key
    unseen,     \* by whom each path was changed since it was last recorded
    authors,    \* history: whose changes each event records
    said,       \* history: answers clients were given
    excused,    \* history: clients another actor got in the way of
    used        \* writes and troubles so far

callVars == <<script, client, calls, responses, said, excused, used>>
fileVars == <<unseen, authors>>
vars == <<runsVars, callVars, fileVars>>

Outsider == <<>>
Tag(c, i) == <<c, i>>

Kind(c, i) == script[c].steps[i]
Via(c) == script[c].via
Key(k) == <<k.client, k.step>>
KindOf(k) == Kind(k.client, k.step)
ExternalOf(c) == script[c].external

-------------------------------------------------------------------------------
(* Files, the recorder and prune.                                          *)

Spend(what) == used' = [used EXCEPT ![what] = @ + 1]

Touch(p, tag) ==
    /\ used.writes < MaxWrites
    /\ Spend("writes")
    /\ unseen' = [unseen EXCEPT ![p] = @ \cup {tag}]
    /\ UNCHANGED <<runsVars, script, client, calls, responses, said, excused, authors>>

\* The steps whose next step ends the work done in between.
Openers == DOMAIN Closer

\* A client works where a bracket is open, or before it sets a checkpoint.
Working(c) ==
    LET i == client[c].step - 1 IN
    /\ client[c].state = "ready"
    /\ i \in DOMAIN script[c].steps
    /\ \/ Kind(c, i) \in Openers
       \/ i + 1 \in DOMAIN script[c].steps /\ Kind(c, i + 1) = "checkpoint"
    /\ Via(c) # "hook" => i \in client[c].acked

Work(c, p) ==
    /\ Working(c)
    /\ Via(c) # "cli" => p \in Announced[c]
    /\ Touch(p, Tag(c, client[c].step - 1))

WorkOutside(p) == Touch(p, Outsider)

\* One event for what happened to these paths, whoever did it.
RecordChange(paths) ==
    /\ \A p \in paths : unseen[p] # {}
    /\ InsertEvent(paths)
    /\ unseen' = [p \in Path |-> IF p \in paths THEN {} ELSE unseen[p]]
    /\ authors' = [e \in DOMAIN authors \cup {lastEvent'} |->
                      IF e = lastEvent' THEN UNION {unseen[p] : p \in paths}
                      ELSE authors[e]]

\* The recorder takes up a change on its own.  Which pairs of changed paths
\* are a rename, recorded as one event with its old_path, is left open.
Observe(paths) ==
    /\ Cardinality(paths) \in {1, 2}
    /\ RecordChange(paths)
    /\ UNCHANGED callVars

Prune(old) ==
    /\ used.troubles < MaxTroubles
    /\ DropEvents(old)
    /\ authors' = [e \in DOMAIN events \ old |-> authors[e]]
    /\ Spend("troubles")
    /\ UNCHANGED <<script, client, calls, responses, said, excused, unseen>>

-------------------------------------------------------------------------------
(* Calls begin and end.                                                    *)

\* Bug: intent_completed and change_completed trust the recorder.
ToSyncNotAtEnd(c, kind) == CASE kind \in {"pre", "post"} -> Announced[c]
                             [] kind \in {"close", "idone", "end"} -> {}
                             [] OTHER -> Path

\* sync_project walks the project, reconcile_paths the announced paths; the
\* end of a session must be quick and reconciles nothing.
ToSync(c, kind) == CASE kind \in {"pre", "post"} -> Announced[c]
                     [] kind = "end" -> {}
                     [] OTHER -> Path

Call(c, i, try) ==
    [client |-> c, step |-> i, try |-> try, run |-> 0, answer |-> "none",
     pc |-> "sync", todo |-> ToSync(c, Kind(c, i))]

\* Hosts start the hook of a new session without waiting for it.  No answer
\* to an event can be saved before it is sent.
Send(c) ==
    LET i == client[c].step IN
    /\ client[c].state = "ready"
    /\ i \in DOMAIN script[c].steps
    /\ calls' = calls \cup {Call(c, i, 1)}
    /\ client' = IF Kind(c, i) = "begin"
                 THEN [client EXCEPT ![c].step = i + 1]
                 ELSE [client EXCEPT ![c].state = "waiting", ![c].tries = 1]
    /\ UNCHANGED <<runsVars, fileVars, script, responses, said, excused, used>>

Running(c) == {k \in calls : k.client = c /\ k.step = client[c].step}

\* What a client makes of the end of a call it waits for.
Advanced(k, run, ok) ==
    LET c == k.client
        now == client[c]
        waits == now.state = "waiting" /\ now.step = k.step
        next == [now EXCEPT !.step = @ + 1, !.state = "ready"]
    IN [client EXCEPT ![c] =
           CASE waits /\ ok -> [next EXCEPT !.run = run, !.acked = @ \cup {k.step}]
             [] waits /\ ~ok /\ Via(c) = "hook" -> next
             [] waits /\ ~ok /\ Via(c) # "hook" -> [now EXCEPT !.state = "refused"]
             [] OTHER -> now]

Become(k, new) == calls' = (calls \ {k}) \cup {new}

Finish(k, run, ok) ==
    /\ calls' = calls \ {k}
    /\ client' = Advanced(k, run, ok)

\* The call has done its work; an event still has to save its answer.
Succeed(k, run, note) ==
    IF Via(k.client) = "event"
    THEN /\ Become(k, [k EXCEPT !.pc = "record", !.run = run, !.answer = note])
         /\ UNCHANGED client
    ELSE Finish(k, run, TRUE)

Proceed(k, run) ==
    /\ Become(k, [k EXCEPT !.pc = "apply", !.run = run])
    /\ UNCHANGED client

Fail(k) == Finish(k, k.run, FALSE) /\ UNCHANGED runsVars

\* An integration that has no answer sends the same event again, at times
\* while the first call is still running.  cmd_event gives the answer saved
\* under the key, if there is one; if not it starts over.
Resend(c) ==
    LET again == Call(c, client[c].step, client[c].tries + 1) IN
    /\ Via(c) = "event"
    /\ client[c].state = "waiting"
    /\ IF Running(c) = {} THEN UNCHANGED used
       ELSE script[c].hasty /\ used.troubles < MaxTroubles /\ Spend("troubles")
    /\ IF Key(again) \in DOMAIN responses
       THEN /\ client' = Advanced(again, responses[Key(again)].run, TRUE)
            /\ said' = said \cup {[key |-> Key(again), answer |-> responses[Key(again)]]}
            /\ UNCHANGED calls
       ELSE /\ calls' = calls \cup {again}
            /\ client' = [client EXCEPT ![c].tries = @ + 1]
            /\ UNCHANGED said
    /\ UNCHANGED <<runsVars, fileVars, script, responses, excused>>

\* Bug: cmd_event prints the answer it made, not the one that is saved.
SaveAnswerPrintMine(k) ==
    LET mine == [run |-> k.run, note |-> k.answer] IN
    /\ k.pc = "record"
    /\ responses' = IF Key(k) \in DOMAIN responses THEN responses
                    ELSE [x \in DOMAIN responses \cup {Key(k)} |->
                             IF x = Key(k) THEN mine ELSE responses[x]]
    /\ Finish(k, k.run, TRUE)
    /\ said' = said \cup {[key |-> Key(k), answer |-> mine]}
    /\ UNCHANGED <<runsVars, fileVars, script, excused, used>>

\* The other end of cmd_event: of two answers to one key the first one saved
\* is given to both.
SaveAnswer(k) ==
    LET mine == [run |-> k.run, note |-> k.answer]
        saved == Key(k) \in DOMAIN responses
    IN
    /\ k.pc = "record"
    /\ responses' = IF saved THEN responses
                    ELSE [x \in DOMAIN responses \cup {Key(k)} |->
                             IF x = Key(k) THEN mine ELSE responses[x]]
    /\ \/ /\ Finish(k, k.run, TRUE)
          /\ said' = said \cup {[key |-> Key(k), answer |-> responses'[Key(k)]]}
          /\ UNCHANGED used
       \/ \* dies before it has printed the answer
          /\ used.troubles < MaxTroubles
          /\ Spend("troubles")
          /\ calls' = calls \ {k}
          /\ UNCHANGED <<client, said>>
    /\ UNCHANGED <<runsVars, fileVars, script, excused>>

\* A path the walk finds changed is recorded.  All that have not changed are
\* passed in one step; they may change right afterwards.
SyncPath(k) ==
    LET clean == {p \in k.todo : unseen[p] = {}} IN
    /\ k.pc = "sync"
    /\ \/ /\ clean # {}
          /\ Become(k, [k EXCEPT !.todo = @ \ clean])
          /\ UNCHANGED <<runsVars, fileVars>>
       \/ \E p \in k.todo \ clean :
             /\ Become(k, [k EXCEPT !.todo = @ \ {p}])
             /\ RecordChange({p})
    /\ UNCHANGED <<script, client, responses, said, excused, used>>

\* The process of a call dies.  Its client hears nothing: a hook's host goes
\* on, a person sees the command fail.
Die(k) ==
    /\ used.troubles < MaxTroubles
    /\ Spend("troubles")
    /\ calls' = calls \ {k}
    /\ client' = IF Via(k.client) = "event" THEN client
              ELSE Advanced(k, k.run, FALSE)
    /\ UNCHANGED <<runsVars, fileVars, script, responses, said, excused>>

-------------------------------------------------------------------------------
(* What calls do once the history is up to date.                           *)

Synced(k, kinds) == k.pc = "sync" /\ k.todo = {} /\ KindOf(k) \in kinds
Ready(k, kinds) == k.pc = "apply" /\ KindOf(k) \in kinds
Steady == UNCHANGED <<fileVars, script, responses, said, used>>

\* A Run of this external id that the call may go on with.
Acceptable(k, r) ==
    IF Via(k.client) = "hook" THEN Reporting(r)
    ELSE runs[r].mode = script[k.client].mode

Obtained(k, r) ==
    IF KindOf(k) = "pre" THEN Proceed(k, r) ELSE Succeed(k, r, runs'[r].status)

\* start_run_with_attribution: the Run of this external id, or a new one.
\* A hook comes here for a new session and again before each tool.
Obtain(k) ==
    LET c == k.client
        x == ExternalOf(c)
        mode == script[c].mode
    IN
    /\ Synced(k, {"start", "run", "begin", "pre"})
    /\ \/ \E r \in Known(x) :
             /\ x # NoExternal
             /\ IF Acceptable(k, r)
                THEN UNCHANGED <<runsVars, excused>> /\ Obtained(k, r)
                ELSE Fail(k) /\ excused' = excused \cup {c}
       \/ /\ x = NoExternal \/ Known(x) = {}
          /\ Conflicts(mode) # {}
          /\ Fail(k)
          /\ excused' = excused \cup {c}
       \/ \E r \in RunId :
             /\ StartRun(r, x, mode)
             /\ Obtained(k, r)
             /\ UNCHANGED excused
    /\ Steady

\* required_reported_run, required_active_run, required_hook_run, for kinds
\* whose transaction does not look again whether the Run is active.  After a
\* tool whose boundary was never opened there is nothing to close.
Check(k) ==
    LET found == Known(ExternalOf(k.client))
        usable == {r \in found : /\ r \in ActiveRuns
                                 /\ runs[r].mode = script[k.client].mode}
    IN
    /\ Synced(k, {"close", "post", "checkpoint"})
    /\ \/ usable = {} /\ Finish(k, k.run, FALSE)
       \/ \E r \in usable :
             IF KindOf(k) = "post" /\ boundaries[r][k.client].status = "none"
             THEN Finish(k, r, TRUE)
             ELSE Proceed(k, r)
    /\ UNCHANGED <<runsVars, excused>>
    /\ Steady

\* The Run a transaction is about: found before, or by the transaction itself.
Target(k) == IF k.pc = "apply" THEN {k.run} ELSE Known(ExternalOf(k.client))

Due(k, kind) == \/ k.pc = "apply" /\ KindOf(k) = kind
                \/ Synced(k, {kind} \ {"pre"})

NotFound(k) ==
    /\ Synced(k, {"open", "istart", "idone"})
    /\ Target(k) = {}
    /\ Fail(k)
    /\ UNCHANGED excused
    /\ Steady

OpenChange(k) ==
    /\ Due(k, "open") \/ Due(k, "pre")
    /\ \E r \in Target(k) :
          LET status == boundaries[r][k.client].status IN
          \/ ~Reporting(r) /\ Fail(k)
          \/ Reporting(r) /\ status # "none" /\ Succeed(k, r, status) /\ UNCHANGED runsVars
          \/ OpenBoundary(r, k.client, Announced[k.client]) /\ Succeed(k, r, "open")
    /\ UNCHANGED excused
    /\ Steady

CloseChange(k) ==
    LET status == boundaries[k.run][k.client].status IN
    /\ Ready(k, {"close", "post"})
    /\ \/ status \in {"none", "aborted"} /\ Fail(k)
       \/ status = "closed" /\ Succeed(k, k.run, "closed") /\ UNCHANGED runsVars
       \/ CloseBoundary(k.run, k.client, Announced[k.client]) /\ Succeed(k, k.run, "closed")
    /\ UNCHANGED excused
    /\ Steady

Mark(k) ==
    /\ Ready(k, {"checkpoint"})
    /\ \/ /\ k.client \in DOMAIN checkpoints[k.run]
          /\ Succeed(k, k.run, "existing")
          /\ UNCHANGED runsVars
       \/ CreateCheckpoint(k.run, k.client) /\ Succeed(k, k.run, "created")
    /\ UNCHANGED excused
    /\ Steady

\* Someone else's intent is active in the Run.
InTheWay(k, r) == \E i \in ActiveIntents(r) : i.label # k.client
ExcuseIfInTheWay(k, r) ==
    excused' = IF InTheWay(k, r) THEN excused \cup {k.client} ELSE excused

\* A second start of the same intent is the same intent only while it is
\* active.
BeginIntent(k) ==
    /\ Due(k, "istart")
    /\ \E r \in Target(k) :
          /\ \/ r \notin ActiveRuns /\ Fail(k)
             \/ /\ \E i \in ActiveIntents(r) : i.label = k.client
                /\ Succeed(k, r, "active")
                /\ UNCHANGED runsVars
             \/ InTheWay(k, r) /\ Fail(k)
             \/ StartIntent(r, k.client) /\ Succeed(k, r, "active")
          /\ ExcuseIfInTheWay(k, r)
    /\ Steady

\* Whom it disturbs that someone else's intent is active: the call, and, if the
\* call completes whatever is active, whoever started that.
Disturbed(k, r) ==
    {k.client} \cup {c \in Client : /\ ~script[k.client].named
                                   /\ \E i \in ActiveIntents(r) : i.label = c}

\* With a label only that intent is completed, and one that was completed
\* before is found again.  Without one the active intent is completed,
\* whoever's it is, and if there is none the call fails.
EndIntent(k) ==
    /\ Due(k, "idone")
    /\ \E r \in Target(k) :
          LET named == script[k.client].named
              none == r \in ActiveRuns /\ ActiveIntents(r) = {}
              known == named /\ \E i \in intents : i.run = r /\ i.label = k.client
          IN
          /\ \/ r \notin ActiveRuns /\ Fail(k)
             \/ none /\ known /\ Succeed(k, r, "done") /\ UNCHANGED runsVars
             \/ none /\ ~known /\ Fail(k)
             \/ named /\ InTheWay(k, r) /\ Fail(k)
             \/ \E label \in Name :
                   /\ named => label = k.client
                   /\ CompleteIntent(r, label)
                   /\ Succeed(k, r, "done")
          /\ excused' = IF InTheWay(k, r) THEN excused \cup Disturbed(k, r) ELSE excused
    /\ Steady

\* Bug: a Run that has ended cannot be completed again.
EndRunOnce(k, r) ==
    IF r \in ActiveRuns
    THEN /\ Succeed(k, r, "ended")
         /\ CompleteRun(r)
         /\ excused' = excused \cup
                {c \in Client \ {k.client} : ExternalOf(c) = runs[r].external}
    ELSE Fail(k) /\ UNCHANGED excused

\* complete_run returns a Run that has ended as it is.
EndRun(k, r) ==
    /\ Succeed(k, r, "ended")
    /\ IF r \in ActiveRuns
       THEN /\ CompleteRun(r)
            /\ excused' = excused \cup
                   {c \in Client \ {k.client} : ExternalOf(c) = runs[r].external}
       ELSE UNCHANGED <<runsVars, excused>>

\* The client's own Run: run_completed, the end of a session, the end of the
\* command that `undo run` started.  A Run that has ended is no error; one
\* that never was is, except at the end of a session, which only ends Runs
\* that hooks report.
Complete(k) ==
    LET c == k.client
        own == IF Via(c) = "cli" THEN {client[c].run} ELSE Known(ExternalOf(c))
        fits == {r \in own : runs[r].mode = script[c].mode}
    IN
    /\ Synced(k, {"complete", "end", "done"})
    /\ \/ \E r \in fits : EndRun(k, r)
       \/ /\ fits = {}
          /\ Finish(k, k.run, Via(c) = "hook")
          /\ UNCHANGED <<runsVars, excused>>
    /\ Steady

\* `undo run stop` with no reference: the one active Run, whoever's it is.
PickRun(k) ==
    /\ Synced(k, {"stop"})
    /\ IF Cardinality(ActiveRuns) = 1
       THEN \E r \in ActiveRuns : Proceed(k, r)
       ELSE Finish(k, k.run, FALSE)
    /\ UNCHANGED <<runsVars, excused>>
    /\ Steady

StopRun(k) ==
    /\ Ready(k, {"stop"})
    /\ EndRun(k, k.run)
    /\ Steady

-------------------------------------------------------------------------------
Init ==
    /\ RunsInit
    /\ script \in Scripts
    /\ client = [c \in Client |-> [step |-> 1, state |-> "ready", tries |-> 0,
                                  run |-> 0, acked |-> {}]]
    /\ calls = {}
    /\ responses = [x \in {} |-> {}]
    /\ unseen = [p \in Path |-> {}]
    /\ authors = [e \in {} |-> {}]
    /\ said = {}
    /\ excused = {}
    /\ used = [writes |-> 0, troubles |-> 0]

Next ==
    \/ \E p \in Path : WorkOutside(p)
    \/ \E paths \in SUBSET Path : Observe(paths)
    \/ \E old \in SUBSET DOMAIN events : Prune(old)
    \/ \E c \in Client :
          \/ \E p \in Path : Work(c, p)
          \/ Send(c)
          \/ Resend(c)
    \/ \E k \in calls :
          \/ SyncPath(k)
          \/ Obtain(k)
          \/ Check(k)
          \/ NotFound(k)
          \/ OpenChange(k)
          \/ CloseChange(k)
          \/ Mark(k)
          \/ BeginIntent(k)
          \/ EndIntent(k)
          \/ Complete(k)
          \/ PickRun(k)
          \/ StopRun(k)
          \/ SaveAnswer(k)
          \/ Die(k)

Spec == Init /\ [][Next]_vars

-------------------------------------------------------------------------------
(* Properties.                                                             *)

Tags == {Outsider} \cup {Tag(c, i) : c \in Client, i \in 1 .. 9}

TypeOK ==
    /\ RunsTypeOK
    /\ script \in Scripts
    /\ \A c \in Client :
          /\ client[c].state \in {"ready", "waiting", "refused"}
          /\ client[c].acked \subseteq 1 .. client[c].step
          /\ Cardinality(Running(c)) <= client[c].tries
    /\ \A k \in calls : /\ k.step \in DOMAIN script[k.client].steps
                        /\ k.pc = "apply" => k.run \in RunId /\ Started(k.run)
                        /\ k.todo # {} => k.pc = "sync"
    /\ DOMAIN authors = DOMAIN events
    /\ unseen \in [Path -> SUBSET Tags]
    /\ excused \subseteq Client

\* Everything a client did at this step of its script is recorded, and what
\* is still recorded of it is among these events.
Attributed(c, i, E) ==
    /\ \A p \in Path : Tag(c, i) \notin unseen[p]
    /\ \A e \in DOMAIN events : Tag(c, i) \in authors[e] => e \in E

\* Somebody completes whatever intent is active.
Careless == \E d \in Client : ~script[d].named

\* Work done between two calls that both succeeded belongs to the Run: it is
\* claimed when it lies between change_started and change_completed or
\* between the hooks around a tool, inside the intent when it lies between
\* intent_started and intent_completed, and among the Run's own events when
\* `undo run` did it; and a checkpoint of the Run covers all that was reported
\* before it.  Whatever else is recorded, sent twice, ended or dies at the
\* same time.  Two ends come too early, unnoticed by the calls that follow: a
\* wrapped command's Run that someone else ended, and an intent that someone
\* completed who left out the label.
WorkIsAttributed ==
    \A c \in Client : \A i \in client[c].acked :
        LET r == client[c].run IN
        /\ Kind(c, i) \in Openers /\ i + 1 \in client[c].acked
              /\ (Kind(c, i) = "run" \/ (Kind(c, i) = "istart" /\ Careless) => c \notin excused) =>
              Attributed(c, i,
                  CASE Kind(c, i) = "run" -> Members(r)
                    [] Kind(c, i) = "istart" ->
                          UNION {Between(n.start, n.end) : n \in
                                   {n \in intents : n.run = r /\ n.label = c /\ ~n.active}}
                    [] OTHER -> claims[r])
        /\ Kind(c, i) = "checkpoint" =>
              /\ c \in DOMAIN checkpoints[r]
              /\ \A j \in 1 .. i :
                    Attributed(c, j, {e \in DOMAIN events : e <= checkpoints[r][c]})

\* An integration that starts a Run and sends its events in order, each until
\* it is answered, is never refused unless another actor got in its way,
\* whatever calls die and however often an event is sent.  (run_completed:
\* "must still make retries succeed".)  The exception is an intent_completed
\* without the optional label: once the intent is completed, by a call that
\* died before its answer was saved, it is refused.
RetriesSucceed ==
    \A c \in Client :
        Via(c) = "event" /\ Kind(c, 1) = "start" /\ client[c].state = "refused"
            => c \in excused \/ (~script[c].named /\ Kind(c, client[c].step) = "idone")

\* One key, one answer.
OneAnswerPerKey == \A a, b \in said : a.key = b.key => a.answer = b.answer

===============================================================================

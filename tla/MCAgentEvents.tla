---------------------------- MODULE MCAgentEvents -----------------------------
(* AgentEvents on a small instance: pairs of clients, one script each.      *)
EXTENDS AgentEvents

CONSTANTS a, b, p, q

Event(mode, x, hasty, steps) ==
    [via |-> "event", mode |-> mode, external |-> x, hasty |-> hasty, named |-> TRUE,
     steps |-> steps]
Hook(x, steps) ==
    [via |-> "hook", mode |-> "reported", external |-> x, hasty |-> FALSE, named |-> TRUE,
     steps |-> steps]
Command(steps) ==
    [via |-> "cli", mode |-> "window", external |-> NoExternal, hasty |-> FALSE, named |-> TRUE,
     steps |-> steps]

\* What the clients do.
Editing(x) == Event("reported", x, FALSE, <<"start", "open", "close">>)
Marking(x) == Event("reported", x, TRUE, <<"start", "open", "close", "checkpoint">>)
Windowed(x) == Event("window", x, TRUE, <<"start", "istart", "idone", "complete">>)
Session(x) == Hook(x, <<"begin", "pre", "post", "end">>)
Tool(x) == Hook(x, <<"pre", "post">>)
Intending(x) == Event("window", x, FALSE, <<"start", "istart", "idone">>)
Unlabelled(x) == [Intending(x) EXCEPT !.named = FALSE]
Unstarted(x) == Event("reported", x, FALSE, <<"open">>)
Wrapped == Command(<<"run", "done">>)
Stopper == Command(<<"stop">>)

Pair(s, t) == [c \in Client |-> IF c = a THEN s ELSE t]

Pairs == {Pair(Editing("x"), Editing("y")),     \* overlapping Runs
          Pair(Session("x"), Tool("x")),        \* two tools of one session
          Pair(Session("x"), Intending("x")),   \* one external id, two modes
          Pair(Marking("x"), Stopper),
          Pair(Windowed("x"), Stopper),
          Pair(Intending("x"), Intending("x")), \* two intents of one Run
          Pair(Unlabelled("x"), Intending("x")), \* one does not say which it ends
          Pair(Wrapped, Stopper),
          Pair(Wrapped, Editing("y")),
          Pair(Wrapped, Unstarted("y"))}

AnnouncedPaths == [c \in Client |-> IF c = a THEN {p} ELSE {p, q}]

===============================================================================

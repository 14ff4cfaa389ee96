------------------------------ MODULE MCIgnoring ------------------------------
(* Ignoring with the files and rules of ignore.rs's tests and the docs.       *)
EXTENDS Ignoring

Files == {<<"main.rs">>, <<"build", "out.o">>, <<"build", "log", "keep">>,
          <<"id.pem">>, <<"main.rs.undo.partial.1_1.0">>}
Roots == {<<"home", "undo">>, <<"log", "undo">>, <<"log", "build", "id.pem">>}
BuiltinNames == {"build"}
Secrets == {"id.pem"}
Temporaries == {"main.rs.undo.partial.1_1.0"}

Rule(kind, name) == [kind |-> kind, name |-> name, negated |-> FALSE]
Not(kind, name) == [kind |-> kind, name |-> name, negated |-> TRUE]

OptedIn == <<Not("folder", "build")>>
OptedInBelow == <<Not("below", "build")>>
RuleFiles == {<<>>, OptedIn, OptedInBelow,
              <<Rule("folder", "log"), Not("folder", "build"), Not("name", "keep")>>,
              <<Not("name", "main.rs.undo.partial.1_1.0"), Rule("name", "main.rs")>>}
===============================================================================

---------------------------- MODULE MCSharedFiles ----------------------------
(***************************************************************************)
(* The files that processes share besides the history itself: the database *)
(* while it is being upgraded, the log, the snapshot files, the agents'    *)
(* configuration, the executable and the ignore rules.  They have no state *)
(* in common, so each behaviour is one of one part, the others being at    *)
(* rest: every behaviour of each is explored, but not their product.       *)
(***************************************************************************)
EXTENDS Migration, Logging, Durability, HookSetup, SelfUpdate, MCIgnoring, TLC

CONSTANTS o1, o2, w1, w2, h1, h2

VARIABLE part
partVars == <<part, schemaVars, logVars, diskVars, setupVars, updateVars, ignoreVars>>

Init ==
    /\ part \in {"schema", "log", "disk", "setup", "update", "ignore"}
    /\ SchemaInit /\ LogInit /\ DiskInit /\ SetupInit /\ UpdateInit /\ IgnoreInit
    /\ part # "schema" => version = 0
    /\ part # "disk" => source = h1
    /\ part # "setup" => config = NoConfig /\ grouped
    /\ part # "update" => follows
    /\ part # "ignore" => ruleFile = <<>> /\ root = <<"home", "undo">>

Next ==
    /\ \/ part = "schema" /\ SchemaNext
          /\ UNCHANGED <<logVars, diskVars, setupVars, updateVars, ignoreVars>>
       \/ part = "log" /\ LogNext
          /\ UNCHANGED <<schemaVars, diskVars, setupVars, updateVars, ignoreVars>>
       \/ part = "disk" /\ DiskNext
          /\ UNCHANGED <<schemaVars, logVars, setupVars, updateVars, ignoreVars>>
       \/ part = "setup" /\ SetupNext
          /\ UNCHANGED <<schemaVars, logVars, diskVars, updateVars, ignoreVars>>
       \/ part = "update" /\ UpdateNext
          /\ UNCHANGED <<schemaVars, logVars, diskVars, setupVars, ignoreVars>>
       \/ part = "ignore" /\ IgnoreNext
          /\ UNCHANGED <<schemaVars, logVars, diskVars, setupVars, updateVars>>
    /\ UNCHANGED part

Spec == Init /\ [][Next]_partVars

Symmetry == Permutations({o1, o2}) \cup Permutations({w1, w2})
==============================================================================

------------------------------ MODULE MCRecovery ------------------------------
(***************************************************************************)
(* Recovery on two small instances, of which a behaviour picks one: a      *)
(* plan of one file that the user keeps changing, with two contents, any   *)
(* MaxEdits and MaxFaults; or two plans over two files, one of which may   *)
(* be a selection from the other, with one content, no edits and no       *)
(* fault.                                                                  *)
(***************************************************************************)
EXTENDS Recovery, TLC

CONSTANT First  \* the path of the first instance

VARIABLE instance
mcVars == <<vars, instance>>

Appearing ==
    Content \cap UNION {{disk[q].content} \cup {plans[id].target[q] : id \in Plan} : q \in Path}

OnePlan ==
    /\ Cardinality({id \in Plan : plans[id].status # "none"}) <= 1
    /\ \A q \in Path \ {First} :
          disk[q].content = None /\ \A id \in Plan : q \notin plans[id].paths

TwoPlans ==
    /\ edits = 0 /\ faults = 0
    /\ Cardinality(Appearing) <= 1
    /\ Content \ snaps \subseteq Appearing

Within == IF instance = "one plan" THEN OnePlan ELSE TwoPlans

MCInit == instance \in {"one plan", "two plans"} /\ Init /\ Within

MCNext == Next /\ UNCHANGED instance /\ Within'

MCSpec == MCInit /\ [][MCNext]_mcVars

Symmetry == Permutations(Proc) \cup Permutations(Plan) \cup Permutations(Content)

===============================================================================

------------------------------- MODULE MCLibrary -------------------------------
(***************************************************************************)
(* The jobs the run of Library starts: two PEs, of which one has two       *)
(* threads, that use contexts, three that split teams, three that abort.   *)
(***************************************************************************)
EXTENDS Library

MCPE == 0..3
MCThread == {<<0, 0>>, <<0, 1>>, <<1, 0>>}
MCCreates == [p \in MCPE |-> IF p = 0 THEN 3 ELSE 0]
MCPuts == [p \in MCPE |-> IF p = 0 THEN 1 ELSE 0]
MCPlans == {[npes |-> 2, does |-> "contexts"], [npes |-> 3, does |-> "abort"],
            [npes |-> 3, does |-> "teams"]}

==============================================================================

---------------------- MODULE MCArchitectureControllers ----------------------
(***************************************************************************)
(* Instances of ArchitectureControllers: the shipped scenarios and those   *)
(* of the executor's own table, plans of no, one and two steps, and the    *)
(* synthetic environment's observation with one that shows success.        *)
(***************************************************************************)
EXTENDS ArchitectureControllers

MCInjectedPlans == {<<>>, <<"front_left", "second">>}
MCObservations ==
    {[reach |-> 10, carry |-> 60, grasped |-> FALSE, at_target |-> FALSE],
     [reach |-> Unknown, carry |-> Unknown, grasped |-> FALSE, at_target |-> FALSE],
     [reach |-> 5, carry |-> 10, grasped |-> TRUE, at_target |-> TRUE]}
=============================================================================

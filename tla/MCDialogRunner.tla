--------------------------- MODULE MCDialogRunner ---------------------------
(* Three agents and a limit of four calls, so that a sweep over the agents  *)
(* starts below the limit and ends beyond it.                               *)
EXTENDS DialogRunner

MCAgentOrder == <<"Alice", "Bob", "Chad">>
=============================================================================

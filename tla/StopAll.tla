------------------------------ MODULE StopAll ------------------------------
(***************************************************************************)
(* What STOP_ALL promises: a stop is final, and the arms make at most the  *)
(* one joint move that was already under way when it came.                 *)
(***************************************************************************)
EXTENDS Naturals

VARIABLES
    stopped,              \* the arms were told to stop
    ticking,              \* a joint move is being prepared
    moves                 \* joint moves made

stop_vars == <<stopped, ticking, moves>>

StopInit == ~stopped /\ ~ticking /\ moves = 0

Stop == stopped' = TRUE /\ UNCHANGED <<ticking, moves>>

BeginMove == ~stopped /\ ~ticking /\ ticking' = TRUE /\ UNCHANGED <<stopped, moves>>

\* Making the move, or giving it up, may itself reveal a reason to stop.
EndMove ==
    /\ ticking /\ ticking' = FALSE
    /\ stopped' \in {stopped, TRUE}
    /\ moves' \in {moves, moves + 1}

StopSpec == StopInit /\ [][Stop \/ BeginMove \/ EndMove]_stop_vars
=============================================================================

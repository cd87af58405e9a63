----------------------------- MODULE MCTurnQueue -----------------------------
(* Two turns and prompts on one session; a frame lasts two ticks.          *)
EXTENDS TurnQueue
=============================================================================

---------------------------- MODULE MC_GlideCalls ----------------------------
(***************************************************************************)
(* An instance of GlideCalls for TLC: a drawing function with a vertex, a  *)
(* state function without data, and one that sends data and answers.       *)
(***************************************************************************)
EXTENDS GlideCalls

MCArgs == [f \in Calls |-> IF f = "grDrawPoint" THEN 1 ELSE 2]
MCWords == [f \in Functions |->
              IF f \in (Control \ {"grSstQueryBoards"}) \cup {"grHints"} THEN 0 ELSE 2]
==============================================================================

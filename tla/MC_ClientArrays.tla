---------------------------- MODULE MC_ClientArrays ----------------------------
(***************************************************************************)
(* Instances of ClientArrays for TLC.                                      *)
(***************************************************************************)
EXTENDS ClientArrays

\* Every way of drawing that sends arrays.
MCDraws ==
  {[f |-> "DrawArrays", idx |-> 1 .. 2, base |-> 0],
   [f |-> "DrawElements", idx |-> {0, 2}, base |-> 1],
   [f |-> "DrawRangeElements", idx |-> 0 .. 1, base |-> 0],
   [f |-> "ArrayElement", idx |-> {1}, base |-> 0],
   [f |-> "LockArraysEXT", idx |-> 0 .. 1, base |-> 0]}
================================================================================

---------------------------- MODULE MC_CallData ----------------------------
(* Every function, and the counts, lengths and sizes on both sides of each limit. *)
EXTENDS CallData

MCCalls == Agreed
=============================================================================

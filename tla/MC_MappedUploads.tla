-------------------------- MODULE MC_MappedUploads --------------------------
(***************************************************************************)
(* Instances of MappedUploads for TLC.                                     *)
(***************************************************************************)
EXTENDS MappedUploads, TLC

\* An invalidating map, one flushed by hand, and one the host must keep.
MCAccesses == {{"write", "invalidate"}, {"write", "explicit"}, {"write"}}

\* Without the one flushed by hand, whose ranges are a matter of their own.
MCAccessesTwo == {{"write", "invalidate"}, {"write"}}

\* Buffer names are interchangeable, and so are contexts.
Symmetry == Permutations(Buffers) \cup Permutations(Contexts)
=============================================================================

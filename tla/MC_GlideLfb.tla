---------------------------- MODULE MC_GlideLfb ----------------------------
(***************************************************************************)
(* An instance of GlideLfb for TLC: each choice of options with the        *)
(* programs it serves.                                                     *)
(***************************************************************************)
EXTENDS GlideLfb, TLC

Plain == [lfbHandler |-> FALSE, mapBufo |-> FALSE, noAux |-> FALSE, lockDirty |-> FALSE,
          merge |-> FALSE, redraws |-> FALSE, both |-> FALSE, swaps |-> FALSE, refused |-> FALSE]

MCUses ==
  { [Plain EXCEPT !.both = TRUE],
    [Plain EXCEPT !.swaps = TRUE],
    [Plain EXCEPT !.lockDirty = TRUE, !.redraws = TRUE, !.swaps = TRUE],
    [Plain EXCEPT !.noAux = TRUE, !.both = TRUE],
    [Plain EXCEPT !.merge = TRUE, !.both = TRUE],
    [Plain EXCEPT !.lfbHandler = TRUE, !.redraws = TRUE, !.both = TRUE, !.swaps = TRUE],
    [Plain EXCEPT !.lfbHandler = TRUE, !.refused = TRUE],
    [Plain EXCEPT !.mapBufo = TRUE, !.redraws = TRUE, !.swaps = TRUE] }

ASSUME UsesSafe == \A u \in MCUses : Safe(u)

\* Pixels are interchangeable.
Symmetry == Permutations(Pixels)
============================================================================

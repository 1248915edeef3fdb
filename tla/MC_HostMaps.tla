----------------------------- MODULE MC_HostMaps -----------------------------
(***************************************************************************)
(* Instances of HostMaps for TLC.                                          *)
(***************************************************************************)
EXTENDS HostMaps

\* Every target with zero copy, with and without the kept region, and only the
\* unpack target.
AllKept == [accelAll |-> TRUE, accelUnpack |-> TRUE, keep |-> TRUE]
AllUnkept == [accelAll |-> TRUE, accelUnpack |-> TRUE, keep |-> FALSE]
UnpackOnly == [accelAll |-> FALSE, accelUnpack |-> TRUE, keep |-> FALSE]
UnpackKept == [accelAll |-> FALSE, accelUnpack |-> TRUE, keep |-> TRUE]

MCSettings == {AllUnkept, UnpackOnly, UnpackKept}

\* Only every target with zero copy, and the kept region.
MCSettingsAll == {AllKept}

\* Buffer names are interchangeable.
Symmetry == Permutations(Buffers)
=============================================================================

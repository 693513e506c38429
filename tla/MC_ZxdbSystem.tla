--------------------------- MODULE MC_ZxdbSystem ---------------------------
(* Small instance of ZxdbSystem for TLC: two remote processes, up to two   *)
(* targets and two job contexts, three breakpoint ids, three attaches and  *)
(* two connections.                                                        *)
EXTENDS ZxdbSystem, TLC

CONSTANTS k1, k2

MCKoids == {k1, k2}

\* Koids are only compared for equality, so permuting them is sound for
\* the safety runs.
MCSymmetry == Permutations(MCKoids)

=============================================================================

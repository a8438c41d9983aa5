---------------------------- MODULE MCShortPrint ----------------------------
(* Small instances of ShortPrint for TLC; processes are interchangeable.   *)
EXTENDS ShortPrint, TLC

Symmetry == Permutations(Procs)
=============================================================================

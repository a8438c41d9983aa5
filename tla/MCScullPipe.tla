---------------------------- MODULE MCScullPipe ----------------------------
(* Small instances of ScullPipe for TLC: readers that differ only in their *)
(* name are interchangeable, and so are such writers.                      *)
EXTENDS ScullPipe, TLC

AlikeReaders == {p \in Readers \ Writers : p \notin NonBlock \cup Pollers \cup Asyncs \cup Signalled}
AlikeWriters == {p \in Writers \ Readers : p \notin NonBlock \cup Pollers \cup Asyncs \cup Signalled}

Symmetry == Permutations(AlikeReaders) \cup Permutations(AlikeWriters)
=============================================================================

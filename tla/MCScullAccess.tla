--------------------------- MODULE MCScullAccess ---------------------------
(* Small users, terminals and parameters for ScullAccess. *)
EXTENDS ScullAccess, TLC

CONSTANTS p1, p2, p3, root, d1

MCParams == {<<1, 2>>, <<2, 1>>}
MCDefault == <<1, 2>>
\* p3 is cat acting as ann; p1 is the one that reads and writes
MCUid  == p1 :> "ann" @@ p2 :> "bob" @@ p3 :> "cat" @@ root :> "root"
MCEuid == p1 :> "ann" @@ p2 :> "bob" @@ p3 :> "ann" @@ root :> "root"
MCTty  == p1 :> d1 @@ p2 :> d1 @@ p3 :> None @@ root :> d1
MCUsers == [plain |-> {p1}, single |-> {p1}, uid |-> {}, wuid |-> {}, priv |-> {p1}]
MCClients == [plain |-> {p1, root}, single |-> {p1, p2, p3}, uid |-> {p1, p2, p3, root},
              wuid |-> {p1, p2, p3}, priv |-> {p1, root}]

\* Bound: once memory was hit in two different ways, TLC goes no further.
FewHits == Cardinality(hits) <= 1
=============================================================================

---------------------------- MODULE PageItems ----------------------------
(***************************************************************************)
(* The list of quantum sets that scullp, scullv, sculld and scullc keep    *)
(* for one device, as values: an item is [order, data], data is NULL (the  *)
(* empty sequence) or an array of quanta, and a quantum is the size it was *)
(* allocated with, 0 for NULL. Sizes and positions are in pages.           *)
(***************************************************************************)
EXTENDS Integers, Sequences

\* What kmalloc and memset make of a new item: its order is 0, not the device's.
FreshItem == [order |-> 0, data |-> <<>>]

Quantum(order) == 2 ^ order

\* Where read and write look for a position (counted from 0).
Place(pos, quantum, qset) ==
  [item |-> pos \div (quantum * qset),
   slot |-> (pos % (quantum * qset)) \div quantum,
   off |-> pos % quantum]

\* The list, made long enough to hold item n: also by a read.
Follow(items, n) ==
  [i \in 1 .. (IF n < Len(items) THEN Len(items) ELSE n + 1) |->
    IF i =< Len(items) THEN items[i] ELSE FreshItem]

\* The quantum at a place; 0 when it is a hole, -1 when the array ends before it.
SlotAt(items, at) ==
  LET data == items[at.item + 1].data
  IN  CASE data = <<>> -> 0
        [] data # <<>> /\ at.slot >= Len(data) -> -1
        [] OTHER -> data[at.slot + 1]

\* The item gets its array if it has none, then the slot its quantum.
WithArray(items, at, qset) ==
  IF items[at.item + 1].data = <<>>
  THEN [items EXCEPT ![at.item + 1].data = [i \in 1 .. qset |-> 0]] ELSE items
WithQuantum(items, at, size) ==
  IF SlotAt(items, at) = 0
  THEN [items EXCEPT ![at.item + 1].data[at.slot + 1] = size] ELSE items

Least(a, b) == IF a < b THEN a ELSE b

\* A loop over qset slots reads past an array; it leaves quanta of a longer one.
PastArray(items, qset) ==
  \E i \in DOMAIN items : items[i].data # <<>> /\ Len(items[i].data) < qset
Forgotten(items, qset) ==
  \E i \in DOMAIN items :
    \E j \in DOMAIN items[i].data : j > qset /\ items[i].data[j] # 0
==========================================================================

--------------------------- MODULE RingTheorems ---------------------------
(***************************************************************************)
(* Lemmas about the circular buffers of the drivers: an array of n places  *)
(* that keeps at least one free, read from place r and written from place  *)
(* w on.  A pointer may stand at n until it is wrapped to 0.  Then, for    *)
(* the walks along a list and the sums that the drivers make, induction    *)
(* over a set of numbers; and the lists of scullp, scullv and scullc, as   *)
(* their reads and writes leave them.                                      *)
(***************************************************************************)
EXTENDS Integers, Sequences, SequenceTheorems, WellFoundedInduction, TLAPS

(* What a remainder is, less than one turn outside the ring.               *)
LEMMA Turn ==
  ASSUME NEW n \in Nat \ {0}, NEW x \in Int
  PROVE  /\ x \in 0..n - 1 => x % n = x
         /\ x \in n..(2 * n) - 1 => x % n = x - n
         /\ x \in (-n)..(-1) => x % n = x + n
<1>1. ASSUME x \in 0..n - 1 PROVE x % n = x
  BY <1>1
<1>2. ASSUME x \in n..(2 * n) - 1 PROVE x % n = x - n
  <2> DEFINE d == x - n
  <2>1. d \in 0..n - 1 /\ (d + n) % n = d
    BY <1>2
  <2> QED  BY <2>1
<1>3. ASSUME x \in (-n)..(-1) PROVE x % n = x + n
  <2> DEFINE d == x + n
  <2>1. d \in 0..n - 1 /\ (d - n) % n = d
    BY <1>3
  <2> QED  BY <2>1
<1> QED  BY <1>1, <1>2, <1>3

(* The bytes from r up to w in a ring m of n bytes, oldest first.          *)
RingOf(m, n, r, w) == [i \in 1..(w - r) % n |-> m[(r + i - 1) % n]]

(* The same without remainders, for pointers that may stand at the end:    *)
(* how many bytes there are, and where the i-th is.                        *)
Filled(n, r, w) == IF w >= r THEN w - r ELSE w - r + n
Place(n, r, i) == IF r + i - 1 < n THEN r + i - 1 ELSE r + i - 1 - n
Unroll(m, n, r, w) == [i \in 1..Filled(n, r, w) |-> m[Place(n, r, i)]]

(* Both describe the same bytes.                                           *)
LEMMA Unrolled ==
  ASSUME NEW n \in Nat \ {0}, NEW r \in 0..n, NEW w \in 0..n, w - r # n, NEW m
  PROVE  /\ Filled(n, r, w) \in 0..n - 1
         /\ RingOf(m, n, r, w) = Unroll(m, n, r, w)
<1>0. Filled(n, r, w) \in 0..n - 1
  BY DEF Filled
<1>1. (w - r) % n = Filled(n, r, w)
  <2> DEFINE x == w - r
  <2>1. CASE w >= r
    <3>1. x \in 0..n - 1 /\ Filled(n, r, w) = x
      BY <2>1 DEF Filled
    <3> HIDE DEF x
    <3>2. x % n = x
      BY <3>1, Turn
    <3> QED  BY <3>1, <3>2 DEF x
  <2>2. CASE w < r
    <3>1. x \in (-n)..(-1) /\ Filled(n, r, w) = x + n
      BY <2>2 DEF Filled
    <3> HIDE DEF x
    <3>2. x \in Int /\ n \in Nat \ {0}
      BY <3>1
    <3>3. x % n = x + n
      BY <3>1, <3>2, Turn
    <3> QED  BY <3>1, <3>2 DEF x
  <2> QED  BY <2>1, <2>2
<1>2. ASSUME NEW i \in 1..Filled(n, r, w) PROVE (r + i - 1) % n = Place(n, r, i)
  <2> DEFINE x == r + i - 1
  <2>0. i \in 1..n - 1
    BY <1>0
  <2>1. CASE r + i - 1 < n
    <3>1. x \in 0..n - 1 /\ Place(n, r, i) = x
      BY <2>0, <2>1 DEF Place
    <3> HIDE DEF x
    <3>2. x % n = x
      BY <3>1, Turn
    <3> QED  BY <3>1, <3>2 DEF x
  <2>2. CASE r + i - 1 >= n
    <3>1. x \in n..(2 * n) - 1 /\ Place(n, r, i) = x - n
      BY <2>0, <2>2 DEF Place
    <3> HIDE DEF x
    <3>2. x \in Int
      BY <3>1
    <3>3. x % n = x - n
      BY <3>1, <3>2, Turn
    <3> QED  BY <3>1, <3>3 DEF x
  <2> QED  BY <2>0, <2>1, <2>2
<1> QED  BY <1>0, <1>1, <1>2, Zenon DEF RingOf, Unroll

(* A concatenation, element by element.                                    *)
LEMMA ConcatIs ==
  ASSUME NEW S, NEW q \in Seq(S), NEW t \in Seq(S)
  PROVE  q \o t = [i \in 1..Len(q) + Len(t) |-> IF i <= Len(q) THEN q[i] ELSE t[i - Len(q)]]
<1> DEFINE c == q \o t
           n == Len(q) + Len(t)
<1>1. /\ c \in Seq(S) /\ Len(c) = n
      /\ \A i \in 1..n : c[i] = IF i <= Len(q) THEN q[i] ELSE t[i - Len(q)]
  BY ConcatProperties
<1>2. c \in [1..n -> S]
  BY <1>1, LenProperties
<1> HIDE DEF c, n
<1>3. c = [i \in 1..n |-> IF i <= Len(q) THEN q[i] ELSE t[i - Len(q)]]
  BY <1>1, <1>2, Zenon
<1> QED  BY <1>3 DEF c, n

(* Taking the k oldest bytes of a ring leaves the others in their order.   *)
LEMMA RingDeliver ==
  ASSUME NEW n \in Nat \ {0}, NEW r \in 0..n, NEW w \in 0..n, w - r # n, NEW m,
         NEW k \in 1..Filled(n, r, w), r + k <= n
  PROVE  /\ w - (r + k) # n
         /\ k <= Len(Unroll(m, n, r, w))
         /\ [i \in 1..k |-> m[r + i - 1]] = SubSeq(Unroll(m, n, r, w), 1, k)
         /\ Unroll(m, n, r + k, w)
              = SubSeq(Unroll(m, n, r, w), k + 1, Len(Unroll(m, n, r, w)))
<1> DEFINE q == Unroll(m, n, r, w)
           L == Filled(n, r, w)
<1>1. L \in 0..n - 1 /\ Filled(n, r + k, w) = L - k
  BY DEF Filled
<1>2. Len(q) = L /\ \A i \in 1..L : q[i] = m[Place(n, r, i)]
  BY <1>1 DEF Unroll
<1>3. [i \in 1..k |-> m[r + i - 1]] = SubSeq(q, 1, k)
  <2>1. SubSeq(q, 1, k) = [i \in 1..k |-> q[i]]
    BY <1>1, <1>2
  <2>2. \A i \in 1..k : q[i] = m[r + i - 1]
    BY <1>1, <1>2 DEF Place
  <2> QED  BY <2>1, <2>2
<1>4. [i \in 1..L - k |-> m[Place(n, r + k, i)]] = SubSeq(q, k + 1, L)
  <2>1. SubSeq(q, k + 1, L) = [i \in 1..L - k |-> q[i + k]]
    BY <1>1, <1>2
  <2>2. \A i \in 1..L - k : q[i + k] = m[Place(n, r + k, i)]
    BY <1>1, <1>2 DEF Place
  <2> QED  BY <2>1, <2>2
<1>5. w - (r + k) # n /\ k <= Len(q)
  BY <1>1, <1>2
<1>6. Unroll(m, n, r + k, w) = SubSeq(q, k + 1, Len(q))
  BY <1>1, <1>2, <1>4 DEF Unroll
<1> QED  BY <1>3, <1>5, <1>6

(* m2 is m with the first k bytes of s stored from place w on.             *)
Overwrites(m2, m, n, w, k, s) ==
    \A i \in 0..n - 1 : m2[i] = IF i \in w..w + k - 1 THEN s[i - w + 1] ELSE m[i]

(* Filling k places of a ring that keeps one free appends the k bytes.     *)
LEMMA RingAccept ==
  ASSUME NEW n \in Nat \ {0}, NEW r \in 0..n - 1, NEW w \in 0..n - 1,
         NEW m, NEW m2, NEW s, NEW k \in Nat \ {0},
         Filled(n, r, w) + k <= n - 1, w + k <= n,
         Overwrites(m2, m, n, w, k, s)
  PROVE  /\ w + k - r # n
         /\ Len(Unroll(m, n, r, w)) + k <= n - 1
         /\ Unroll(m2, n, r, w + k) = Unroll(m, n, r, w) \o [i \in 1..k |-> s[i]]
<1> DEFINE q == Unroll(m, n, r, w)
           t == [i \in 1..k |-> s[i]]
           L == Filled(n, r, w)
<1>1. L \in 0..n - 1 /\ Filled(n, r, w + k) = L + k /\ L + k <= n - 1
  BY DEF Filled
<1>2. /\ Len(q) = L /\ \A i \in 1..L : q[i] = m[Place(n, r, i)]
      /\ Len(t) = k /\ \A i \in 1..k : t[i] = s[i]
  BY <1>1 DEF Unroll
<1>3. ASSUME NEW i \in 1..L PROVE m2[Place(n, r, i)] = q[i]
  <2>1. Place(n, r, i) \in 0..n - 1 /\ Place(n, r, i) \notin w..w + k - 1
    BY <1>1 DEF Place, Filled
  <2>2. q[i] = m[Place(n, r, i)]
    BY <1>2
  <2> HIDE DEF q, L
  <2> QED  BY <2>1, <2>2 DEF Overwrites
<1>4. ASSUME NEW i \in L + 1..L + k PROVE m2[Place(n, r, i)] = t[i - L]
  <2>1. /\ Place(n, r, i) = w + (i - L) - 1
        /\ Place(n, r, i) \in 0..n - 1 /\ Place(n, r, i) \in w..w + k - 1
    BY <1>1 DEF Place, Filled
  <2>2. Place(n, r, i) - w + 1 = i - L /\ i - L \in 1..k
    BY <1>1, <2>1
  <2>3. m2[Place(n, r, i)] = s[i - L]
    BY <2>1, <2>2 DEF Overwrites
  <2> QED  BY <1>2, <2>2, <2>3
<1>5. q \o t = [i \in 1..L + k |-> IF i <= L THEN q[i] ELSE t[i - L]]
  <2>1. q \in Seq({q[i] : i \in 1..L}) /\ t \in Seq({t[i] : i \in 1..k})
    BY <1>1 DEF Unroll
  <2>2. q \in Seq({q[i] : i \in 1..L} \cup {t[i] : i \in 1..k})
    BY <2>1, SeqMonotonic
  <2>3. t \in Seq({q[i] : i \in 1..L} \cup {t[i] : i \in 1..k})
    BY <2>1, SeqMonotonic
  <2> HIDE DEF q, t, L
  <2>4. q \o t = [i \in 1..Len(q) + Len(t) |-> IF i <= Len(q) THEN q[i] ELSE t[i - Len(q)]]
    BY <2>2, <2>3, ConcatIs
  <2>5. Len(q) = L /\ Len(t) = k
    BY <1>2
  <2> QED  BY <2>4, <2>5, Zenon
<1>6. [i \in 1..L + k |-> m2[Place(n, r, i)]] = q \o t
  <2> HIDE DEF q, t, L
  <2>1. \A i \in 1..L + k : m2[Place(n, r, i)] = IF i <= L THEN q[i] ELSE t[i - L]
    BY <1>1, <1>3, <1>4
  <2> QED  BY <1>5, <2>1
<1>7. w + k - r # n
  BY DEF Filled
<1>9. Len(q) + k <= n - 1
  BY <1>1, <1>2
<1>8. Unroll(m2, n, r, w + k) = q \o t
  BY <1>1, <1>6 DEF Unroll
<1> QED  BY <1>7, <1>8, <1>9

(* A writer that reached the end of the ring goes on at its start, and so  *)
(* does a reader: the bytes between them stay the same.                    *)
LEMMA RingWrap ==
  ASSUME NEW n \in Nat \ {0}, NEW m
  PROVE  /\ \A r \in 1..n - 1 : Unroll(m, n, r, 0) = Unroll(m, n, r, n)
         /\ \A w \in 0..n - 1 : Unroll(m, n, 0, w) = Unroll(m, n, n, w)
<1>1. ASSUME NEW r \in 1..n - 1 PROVE Unroll(m, n, r, 0) = Unroll(m, n, r, n)
  <2>1. Filled(n, r, 0) = Filled(n, r, n)
    BY DEF Filled
  <2> QED  BY <2>1, Zenon DEF Unroll
<1>2. ASSUME NEW w \in 0..n - 1 PROVE Unroll(m, n, 0, w) = Unroll(m, n, n, w)
  <2>1. Filled(n, 0, w) = Filled(n, n, w) /\ Filled(n, 0, w) \in 0..n - 1
    BY DEF Filled
  <2>2. \A i \in 1..Filled(n, 0, w) : Place(n, 0, i) = Place(n, n, i)
    BY <2>1 DEF Place
  <2> QED  BY <2>1, <2>2, Zenon DEF Unroll
<1> QED  BY <1>1, <1>2

(* One place more that is filled, and one that is taken, between the      *)
(* pointers of a ring whose pointers stand at places only.                 *)
LEMMA OnePlace ==
  ASSUME NEW n \in Nat \ {0}, NEW r \in 0 .. n - 1, NEW w \in 0 .. n - 1
  PROVE  /\ (w - r) % n = Filled(n, r, w)
         /\ Filled(n, r, w) \in Nat /\ Filled(n, r, w) <= n - 1
         /\ r = w <=> Filled(n, r, w) = 0
         /\ (w + 1) % n \in 0 .. n - 1
         /\ (w + 1) % n # r => Filled(n, r, (w + 1) % n) = Filled(n, r, w) + 1
         /\ (w + 1) % n = r => Filled(n, r, w) = n - 1
         /\ r # w => Filled(n, (r + 1) % n, w) = Filled(n, r, w) - 1
<1>1. ASSUME NEW x \in 0 .. n - 1
      PROVE  (x + 1) % n = IF x + 1 = n THEN 0 ELSE x + 1
  <2> DEFINE y == x + 1
  <2>1. y \in Int /\ (y \in 0 .. n - 1 \/ y = n)
    OBVIOUS
  <2> HIDE DEF y
  <2>2. (y \in 0 .. n - 1 => y % n = y) /\ (y \in n .. (2 * n) - 1 => y % n = y - n)
    BY <2>1, Turn
  <2>3. y % n = IF y = n THEN 0 ELSE y
    <3>1. CASE y = n
      BY <2>2, <3>1
    <3>2. CASE y # n
      BY <2>1, <2>2, <3>2
    <3> QED  BY <3>1, <3>2
  <2> QED  BY <2>3 DEF y
<1>2. (w - r) % n = Filled(n, r, w)
  <2> DEFINE y == w - r
  <2>1. y \in Int /\ (y \in 0 .. n - 1 \/ y \in (-n) .. (-1)) /\ Filled(n, r, w) = IF y >= 0 THEN y ELSE y + n
    BY DEF Filled
  <2> HIDE DEF y
  <2>2. (y \in 0 .. n - 1 => y % n = y) /\ (y \in (-n) .. (-1) => y % n = y + n)
    BY <2>1, Turn
  <2>3. y % n = Filled(n, r, w)
    BY <2>1, <2>2
  <2> QED  BY <2>3 DEF y
<1>3. /\ Filled(n, r, w) \in Nat /\ Filled(n, r, w) <= n - 1
      /\ r = w <=> Filled(n, r, w) = 0
  BY DEF Filled
<1> DEFINE next1 == (w + 1) % n
           r1 == (r + 1) % n
<1>4. next1 = (IF w + 1 = n THEN 0 ELSE w + 1) /\ r1 = IF r + 1 = n THEN 0 ELSE r + 1
  BY <1>1
<1> HIDE DEF next1, r1
<1>5. next1 \in 0 .. n - 1
  BY <1>4
<1>6. /\ next1 # r => Filled(n, r, next1) = Filled(n, r, w) + 1
      /\ next1 = r => Filled(n, r, w) = n - 1
  BY <1>4 DEF Filled
<1>7. r # w => Filled(n, r1, w) = Filled(n, r, w) - 1
  BY <1>4 DEF Filled
<1> QED  BY <1>2, <1>3, <1>5, <1>6, <1>7 DEF next1, r1

----------------------------------------------------------------------------
(* Induction *)

(* A set of numbers that is not empty has a least one.                     *)
LEMMA LeastOf ==
  ASSUME NEW T, T \subseteq Nat, T # {}
  PROVE  \E x \in T : \A y \in T : x =< y
<1> DEFINE R == OpToRel(<, Nat)
<1>1. IsWellFoundedOn(R, Nat)
  BY NatLessThanWellFounded, Zenon
<1>2. \A x, y \in Nat : x < y => <<x, y>> \in R
  BY DEF OpToRel
<1> HIDE DEF R
<1>3. \E x \in T : \A y \in T : <<y, x>> \notin R
  BY <1>1, WFMin, Zenon
<1>4. PICK x \in T : \A y \in T : <<y, x>> \notin R
  BY <1>3
<1>5. \A y \in T : ~(y < x)
  BY <1>2, <1>4, Zenon
<1> QED  BY <1>5

(* What holds of 0 and is carried up one by one holds as far as it is      *)
(* carried.                                                                *)
LEMMA Climb ==
  ASSUME NEW n \in Nat, NEW T, 0 \in T, \A k \in 0..n - 1 : k \in T => k + 1 \in T
  PROVE  \A k \in 0..n : k \in T
<1> DEFINE B == {k \in 0..n : k \notin T}
<1> SUFFICES ASSUME B # {} PROVE FALSE
  OBVIOUS
<1>0. B \subseteq Nat /\ \A k : k \in B <=> k \in 0..n /\ k \notin T
  OBVIOUS
<1> HIDE DEF B
<1>1. PICK x \in B : \A y \in B : x =< y
  BY <1>0, LeastOf
<1>2. x # 0 /\ x - 1 \in 0..n - 1 /\ x - 1 \in 0..n /\ ~(x =< x - 1) /\ (x - 1) + 1 = x
  BY <1>0, <1>1
<1>3. x - 1 \in T
  BY <1>0, <1>1, <1>2, Zenon
<1>4. (x - 1) + 1 \in T
  BY <1>2, <1>3
<1> QED  BY <1>0, <1>1, <1>2, <1>4

-----------------------------------------------------------------------------
(* What a shift by the order makes (PAGE_SIZE << order, counted in pages), *)
(* the orders that give a size, the list of items, each with its order and *)
(* its array of slots (empty: no array), and a new item.  A slot is empty  *)
(* or holds a quantum of a size in Nat.                                    *)
Pages(order) == 2 ^ order
Orders == {o \in Nat : Pages(o) \in Nat \ {0}}
PageItem == [order : Orders, data : Seq(Nat)]
Items == Seq(PageItem)
Fresh == [order |-> 0, data |-> <<>>]

(* Every array has as many slots as the device has quanta in a set.        *)
Arrays(items, qset) == \A i \in 1..Len(items) : items[i].data # <<>> => Len(items[i].data) = qset

(* A list made longer, and the array and the quantum that a write          *)
(* allocates, as PageItems defines them.                                   *)
Longer(items, n) ==
  [i \in 1..(IF n < Len(items) THEN Len(items) ELSE n + 1) |-> IF i =< Len(items) THEN items[i] ELSE Fresh]
InSlot(data, slot) ==
  CASE data = <<>> -> 0
    [] data # <<>> /\ slot >= Len(data) -> -1
    [] OTHER -> data[slot + 1]
ArrayPut(items, k, qset) ==
  IF items[k].data = <<>> THEN [items EXCEPT ![k].data = [i \in 1..qset |-> 0]] ELSE items
QuantumPut(items, k, slot, size) ==
  IF InSlot(items[k].data, slot) = 0 THEN [items EXCEPT ![k].data[slot + 1] = size] ELSE items

(* A page of order 0 is one page.                                          *)
LEMMA OrderZero == Pages(0) = 1 /\ 0 \in Orders /\ Fresh \in PageItem
<1>1. Pages(0) = 1
  BY DEF Pages
<1>2. 0 \in Orders
  BY <1>1 DEF Orders
<1> QED  BY <1>1, <1>2 DEF Fresh, PageItem

(* To follow the list keeps its items and adds empty ones.                 *)
LEMMA Followed ==
  ASSUME NEW items \in Items, NEW n \in Nat
  PROVE  /\ Longer(items, n) \in Items /\ n + 1 \in 1..Len(Longer(items, n))
         /\ Len(items) =< Len(Longer(items, n))
         /\ \A i \in 1..Len(Longer(items, n)) :
              Longer(items, n)[i] = IF i =< Len(items) THEN items[i] ELSE Fresh
<1> DEFINE m == IF n < Len(items) THEN Len(items) ELSE n + 1
           L == Longer(items, n)
<1>1. m \in Nat /\ Len(items) \in Nat /\ Len(items) =< m /\ n + 1 =< m
  BY DEF Items
<1>2. \A i \in 1..m : (IF i =< Len(items) THEN items[i] ELSE Fresh) \in PageItem
  BY <1>1, OrderZero DEF Items
<1>3. L = [i \in 1..m |-> IF i =< Len(items) THEN items[i] ELSE Fresh]
  BY DEF Longer
<1> HIDE DEF m, L
<1>4. L \in [1..m -> PageItem]
  BY <1>2, <1>3
<1>5. L \in Items /\ Len(L) = m
  BY <1>1, <1>4 DEF Items
<1> QED  BY <1>1, <1>3, <1>5 DEF L

(* The list with an array in its k-th item                                 *)
HasArray(list, items, k, qset) ==
  /\ list \in Items /\ Len(list) = Len(items) /\ list[k].data # <<>>
  /\ \A i \in 1..Len(items) :
       /\ list[i].order = items[i].order
       /\ list[i].data = IF i = k /\ items[k].data = <<>> THEN [j \in 1..qset |-> 0] ELSE items[i].data

(* The array of a write: zeros, as many as it thinks a set has.            *)
LEMMA ArrayThere ==
  ASSUME NEW items \in Items, NEW k \in 1..Len(items), NEW qset \in Nat \ {0}
  PROVE  HasArray(ArrayPut(items, k, qset), items, k, qset)
<1> DEFINE Z == [j \in 1..qset |-> 0]
           W == ArrayPut(items, k, qset)
<1>1. Z \in Seq(Nat) /\ Len(Z) = qset /\ Z # <<>>
  OBVIOUS
<1> HIDE DEF Z
<1>2. CASE items[k].data = <<>>
  <2>1. W = [items EXCEPT ![k].data = Z]
    BY <1>2 DEF ArrayPut, Z
  <2>2. items[k] \in PageItem
    BY DEF Items
  <2> DEFINE new == [items[k] EXCEPT !.data = Z]
  <2>3. new \in PageItem /\ new.order = items[k].order /\ new.data = Z
    BY <1>1, <2>2 DEF PageItem
  <2>4. W = [items EXCEPT ![k] = new]
    BY <2>1
  <2> HIDE DEF new, W
  <2>5. W \in Items /\ Len(W) = Len(items)
    BY <2>3, <2>4 DEF Items
  <2>6. W[k] = new /\ \A i \in 1..Len(items) : i # k => W[i] = items[i]
    BY <2>4 DEF Items
  <2>7. HasArray(W, items, k, qset)
    BY <1>1, <1>2, <2>3, <2>5, <2>6 DEF HasArray, Z
  <2> QED  BY <2>7 DEF W
<1>3. CASE items[k].data # <<>>
  <2>1. W = items
    BY <1>3 DEF ArrayPut
  <2> HIDE DEF W
  <2>2. HasArray(W, items, k, qset)
    BY <1>3, <2>1 DEF HasArray
  <2> QED  BY <2>2 DEF W
<1> QED  BY <1>2, <1>3

(* The list with such a quantum                                            *)
HasQuantum(list, items, k, slot, size) ==
  /\ list \in Items /\ Len(list) = Len(items)
  /\ \A i \in 1..Len(items) :
       /\ list[i].order = items[i].order
       /\ Len(list[i].data) = Len(items[i].data)
       /\ \A j \in 1..Len(items[i].data) :
            list[i].data[j] = IF i = k /\ j = slot + 1 /\ items[k].data[j] = 0 THEN size ELSE items[i].data[j]

(* The quantum of a write: in its slot, if that is there and empty.        *)
LEMMA QuantumThere ==
  ASSUME NEW items \in Items, NEW k \in 1..Len(items), NEW slot \in Nat, NEW size \in Nat,
         items[k].data # <<>>
  PROVE  HasQuantum(QuantumPut(items, k, slot, size), items, k, slot, size)
<1> DEFINE W == QuantumPut(items, k, slot, size)
<1>01. items[k] \in PageItem
  BY DEF Items
<1>0. items[k] \in PageItem /\ items[k].data \in Seq(Nat) /\ Len(items[k].data) \in Nat
  BY <1>01 DEF PageItem
<1>1. InSlot(items[k].data, slot) = IF slot >= Len(items[k].data) THEN -1 ELSE items[k].data[slot + 1]
  BY DEF InSlot
<1>2. CASE slot < Len(items[k].data) /\ items[k].data[slot + 1] = 0
  <2> DEFINE data == [items[k].data EXCEPT ![slot + 1] = size]
             new == [items[k] EXCEPT !.data = data]
  <2>1. W = [items EXCEPT ![k].data[slot + 1] = size]
    BY <1>0, <1>1, <1>2 DEF QuantumPut
  <2>2. W = [items EXCEPT ![k] = new]
    BY <2>1
  <2>3. slot + 1 \in 1..Len(items[k].data)
    BY <1>0, <1>2
  <2>4. /\ data \in Seq(Nat) /\ Len(data) = Len(items[k].data)
        /\ \A j \in 1..Len(items[k].data) :
             data[j] = IF j = slot + 1 /\ items[k].data[j] = 0 THEN size ELSE items[k].data[j]
    BY <1>0, <1>2, <2>3
  <2> HIDE DEF data
  <2>5. new \in PageItem /\ new.order = items[k].order /\ new.data = data
    BY <1>0, <2>4 DEF PageItem
  <2> HIDE DEF new, W
  <2>6. W \in Items /\ Len(W) = Len(items)
    BY <2>2, <2>5 DEF Items
  <2>7. W[k] = new /\ \A i \in 1..Len(items) : i # k => W[i] = items[i]
    BY <2>2 DEF Items
  <2>8. HasQuantum(W, items, k, slot, size)
    BY <2>4, <2>5, <2>6, <2>7 DEF HasQuantum
  <2> QED  BY <2>8 DEF W
<1>3. CASE ~(slot < Len(items[k].data) /\ items[k].data[slot + 1] = 0)
  <2>1. W = items
    BY <1>0, <1>1, <1>3 DEF QuantumPut
  <2>2. \A j \in 1..Len(items[k].data) : ~(j = slot + 1 /\ items[k].data[j] = 0)
    BY <1>0, <1>3
  <2> HIDE DEF W
  <2>3. \A i \in 1..Len(items) : \A j \in 1..Len(items[i].data) :
          W[i].data[j] = IF i = k /\ j = slot + 1 /\ items[k].data[j] = 0 THEN size ELSE items[i].data[j]
    BY <2>1, <2>2
  <2>4. HasQuantum(W, items, k, slot, size)
    BY <2>1, <2>3 DEF HasQuantum
  <2> QED  BY <2>4 DEF W
<1> QED  BY <1>0, <1>2, <1>3

(* Where a position is: in a set of qset quanta, and in a quantum.         *)
LEMMA Placing ==
  ASSUME NEW q \in Nat \ {0}, NEW qset \in Nat \ {0}, NEW pos \in Nat
  PROVE  /\ pos \div (q * qset) \in Nat
         /\ (pos % (q * qset)) \div q \in 0..qset - 1
         /\ pos % q \in 0..q - 1
<1>1. q * qset \in Nat \ {0}
  OBVIOUS
<1>2. /\ pos \div (q * qset) \in Nat /\ pos % (q * qset) \in Nat /\ pos % (q * qset) < q * qset
      /\ pos % q \in 0..q - 1
  BY <1>1
<1>3. ASSUME NEW x \in Nat, x < q * qset PROVE x \div q \in 0..qset - 1
  BY <1>3
<1> QED  BY <1>2, <1>3

(* The slots of an item hold quanta of its own order, which is 0 but for   *)
(* the first.                                                              *)
Slots(items) ==
  \A i \in 1..Len(items) : /\ i > 1 => items[i].order = 0
                           /\ \A j \in 1..Len(items[i].data) : items[i].data[j] \in {0, Pages(items[i].order)}

(* An access in an array as long as the device thinks, at a slot of a set. *)
LEMMA Looked ==
  ASSUME NEW items \in Items, NEW k \in 1..Len(items), NEW qset \in Nat, NEW slot \in 0..qset - 1,
         Arrays(items, qset), Slots(items)
  PROVE  InSlot(items[k].data, slot) \in {0, Pages(items[k].order)}
<1>1. items[k] \in PageItem
  BY DEF Items
<1>2. items[k].data \in Seq(Nat)
  BY <1>1 DEF PageItem
<1>3. CASE items[k].data = <<>>
  BY <1>3 DEF InSlot
<1>4. CASE items[k].data # <<>>
  <2>1. Len(items[k].data) = qset /\ slot + 1 \in 1..Len(items[k].data) /\ ~(slot >= Len(items[k].data))
    BY <1>4 DEF Arrays
  <2>2. InSlot(items[k].data, slot) = items[k].data[slot + 1]
    BY <1>4, <2>1 DEF InSlot
  <2> QED  BY <2>1, <2>2 DEF Slots
<1> QED  BY <1>3, <1>4

(* A longer list has the same quanta, and the items it had.                *)
LEMMA LongerKept ==
  ASSUME NEW items \in Items, items # <<>>, NEW n \in Nat, Slots(items)
  PROVE  /\ Slots(Longer(items, n)) /\ Longer(items, n) # <<>>
         /\ Longer(items, n)[1].order = items[1].order
         /\ \A qset : Arrays(items, qset) => Arrays(Longer(items, n), qset)
<1> DEFINE L == Longer(items, n)
<1>0. Len(items) \in Nat /\ Len(items) >= 1
  BY DEF Items
<1>1. /\ L \in Items /\ Len(items) =< Len(L) /\ n + 1 \in 1..Len(L)
      /\ \A i \in 1..Len(L) : L[i] = IF i =< Len(items) THEN items[i] ELSE Fresh
  BY Followed
<1>2. Len(L) \in Nat
  BY <1>1 DEF Items
<1> HIDE DEF L
<1>3. L # <<>> /\ L[1].order = items[1].order
  BY <1>0, <1>1, <1>2
<1>4. ASSUME NEW i \in 1..Len(L)
      PROVE  \/ i \in 1..Len(items) /\ L[i] = items[i]
             \/ L[i].order = 0 /\ L[i].data = <<>>
  BY <1>0, <1>1, <1>2 DEF Fresh
<1>5. Slots(L)
  BY <1>4 DEF Slots
<1>6. \A qset : Arrays(items, qset) => Arrays(L, qset)
  BY <1>4 DEF Arrays
<1> QED  BY <1>3, <1>5, <1>6 DEF L

(* And so has what a write makes of it; the new array is as long as the    *)
(* write thinks.                                                           *)
LEMMA ArrayKept ==
  ASSUME NEW items \in Items, NEW k \in 1..Len(items), NEW n \in Nat \ {0}, Slots(items)
  PROVE  /\ Slots(ArrayPut(items, k, n)) /\ ArrayPut(items, k, n)[1].order = items[1].order
         /\ \A qset : Arrays(items, qset) /\ (n = qset \/ ArrayPut(items, k, n) = items) =>
                        Arrays(ArrayPut(items, k, n), qset)
<1> DEFINE W == ArrayPut(items, k, n)
           Z == [j \in 1..n |-> 0]
<1>0. Len(Z) = n /\ \A j \in 1..Len(Z) : Z[j] = 0
  OBVIOUS
<1>1. /\ Len(W) = Len(items) /\ 1 \in 1..Len(items)
      /\ \A i \in 1..Len(items) :
           /\ W[i].order = items[i].order
           /\ W[i].data = IF i = k /\ items[k].data = <<>> THEN Z ELSE items[i].data
  BY ArrayThere DEF Items, HasArray
<1> HIDE DEF W, Z
<1>2. ASSUME NEW i \in 1..Len(W)
      PROVE  /\ i \in 1..Len(items) /\ W[i].order = items[i].order
             /\ W[i].data = Z \/ W[i].data = items[i].data
  BY <1>1
<1>3. Slots(W)
  BY <1>0, <1>2 DEF Slots
<1>4. ASSUME NEW qset, Arrays(items, qset), n = qset PROVE Arrays(W, qset)
  BY <1>0, <1>2, <1>4 DEF Arrays
<1> QED  BY <1>1, <1>3, <1>4, Zenon DEF W

(* A list with an item keeps one if its length stays.                      *)
LEMMA NotEmpty ==
  ASSUME NEW items \in Items
  PROVE  /\ Len(items) \in Nat /\ (items # <<>> => 1 \in 1..Len(items))
         /\ \A other \in Items : Len(other) = Len(items) /\ items # <<>> => other # <<>>
BY DEF Items

(* The order of the first item is one.                                     *)
LEMMA FirstOrder ==
  ASSUME NEW items \in Items, items # <<>>
  PROVE  items[1].order \in Orders /\ items[1].order \in Nat
<1>1. items[1] \in PageItem
  BY DEF Items
<1> QED  BY <1>1 DEF PageItem, Orders

(* A quantum of its item's order is what a slot may hold.                  *)
LEMMA QuantumKept ==
  ASSUME NEW items \in Items, NEW k \in 1..Len(items), NEW slot \in Nat, Slots(items), items[k].data # <<>>
  PROVE  LET U == QuantumPut(items, k, slot, Pages(items[k].order))
         IN  /\ U \in Items /\ Len(U) = Len(items) /\ Slots(U) /\ U[1].order = items[1].order
             /\ \A qset : Arrays(items, qset) => Arrays(U, qset)
<1> DEFINE size == Pages(items[k].order)
           U == QuantumPut(items, k, slot, size)
<1>0. items[k] \in PageItem
  BY DEF Items
<1>1. size \in Nat
  BY <1>0 DEF PageItem, Orders
<1>2. /\ U \in Items /\ Len(U) = Len(items)
      /\ \A i \in 1..Len(items) :
           /\ U[i].order = items[i].order /\ Len(U[i].data) = Len(items[i].data)
           /\ \A j \in 1..Len(items[i].data) :
                U[i].data[j] = IF i = k /\ j = slot + 1 /\ items[k].data[j] = 0 THEN size ELSE items[i].data[j]
  <2> HIDE DEF size
  <2>1. HasQuantum(QuantumPut(items, k, slot, size), items, k, slot, size)
    BY <1>1, QuantumThere
  <2> QED  BY <2>1, Zenon DEF HasQuantum
<1> HIDE DEF U
<1>7. U[1].order = items[1].order
  <2>1. 1 \in 1..Len(items)
    BY DEF Items
  <2> QED  BY <1>2, <2>1
<1>3. ASSUME NEW i \in 1..Len(U)
      PROVE  /\ i > 1 => U[i].order = 0
             /\ \A j \in 1..Len(U[i].data) : U[i].data[j] \in {0, Pages(U[i].order)}
  <2>1. /\ i \in 1..Len(items) /\ U[i].order = items[i].order /\ Len(U[i].data) = Len(items[i].data)
        /\ i > 1 => items[i].order = 0
        /\ \A j \in 1..Len(items[i].data) : items[i].data[j] \in {0, Pages(items[i].order)}
        /\ \A j \in 1..Len(items[i].data) :
             U[i].data[j] = IF i = k /\ j = slot + 1 /\ items[k].data[j] = 0 THEN size ELSE items[i].data[j]
    BY <1>2 DEF Slots
  <2>2. i = k => size = Pages(items[i].order)
    OBVIOUS
  <2> HIDE DEF size
  <2> QED  BY <2>1, <2>2, Zenon
<1>4. ASSUME NEW i \in 1..Len(items), U[i].data # <<>> PROVE items[i].data # <<>>
  <2>1. U[i].data \in Seq(Nat) /\ items[i].data \in Seq(Nat)
    <3>1. U[i] \in PageItem /\ items[i] \in PageItem
      BY <1>2 DEF Items
    <3> QED  BY <3>1 DEF PageItem
  <2>2. Len(U[i].data) = Len(items[i].data)
    BY <1>2
  <2>3. Len(U[i].data) # 0
    BY <1>4, <2>1
  <2> QED  BY <2>1, <2>2, <2>3
<1>5. ASSUME NEW qset, Arrays(items, qset) PROVE Arrays(U, qset)
  BY <1>2, <1>4, <1>5 DEF Arrays
<1>6. Slots(U)
  BY <1>3, Zenon DEF Slots
<1> QED  BY <1>2, <1>5, <1>6, <1>7 DEF U

(* And the slot that was filled holds a quantum of its item.               *)
LEMMA SlotFilled ==
  ASSUME NEW items \in Items, NEW k \in 1..Len(items), NEW qset \in Nat, NEW slot \in Nat, slot < qset,
         Arrays(items, qset), Slots(items), items[k].data # <<>>, Pages(items[k].order) # 0
  PROVE  InSlot(QuantumPut(items, k, slot, Pages(items[k].order))[k].data, slot) = Pages(items[k].order)
<1> SUFFICES ASSUME NEW size, size = Pages(items[k].order)
             PROVE  InSlot(QuantumPut(items, k, slot, size)[k].data, slot) = size
  BY Zenon
<1> DEFINE U == QuantumPut(items, k, slot, size)
<1>0. items[k] \in PageItem
  BY DEF Items
<1>1. size \in Nat /\ items[k].data \in Seq(Nat)
  BY <1>0 DEF PageItem, Orders
<1>2. Len(items[k].data) = qset /\ slot + 1 \in 1..qset /\ items[k].data[slot + 1] \in {0, size}
  BY DEF Arrays, Slots
<1>3. /\ U \in Items /\ Len(U) = Len(items) /\ Len(U[k].data) = qset
      /\ U[k].data[slot + 1] = IF items[k].data[slot + 1] = 0 THEN size ELSE items[k].data[slot + 1]
  <2>2. /\ U \in Items /\ Len(U) = Len(items)
        /\ \A i \in 1..Len(items) :
             /\ Len(U[i].data) = Len(items[i].data)
             /\ \A j \in 1..Len(items[i].data) :
                  U[i].data[j] = IF i = k /\ j = slot + 1 /\ items[k].data[j] = 0 THEN size ELSE items[i].data[j]
    <3>1. HasQuantum(QuantumPut(items, k, slot, size), items, k, slot, size)
      BY <1>1, QuantumThere
    <3>2. U = QuantumPut(items, k, slot, size)
      OBVIOUS
    <3>3. HasQuantum(U, items, k, slot, size)
      BY <3>1, <3>2, Zenon
    <3> HIDE DEF U
    <3> QED  BY <3>3 DEF HasQuantum
  <2> HIDE DEF U
  <2> QED  BY <1>2, <2>2
<1> HIDE DEF U
<1>4. U[k].data[slot + 1] = size
  BY <1>2, <1>3
<1>5. U[k] \in PageItem
  BY <1>3 DEF Items
<1>6. U[k].data \in Seq(Nat)
  BY <1>5 DEF PageItem
<1>7. U[k].data # <<>> /\ ~(slot >= Len(U[k].data))
  BY <1>2, <1>3, <1>6
<1>8. InSlot(U[k].data, slot) = U[k].data[slot + 1]
  BY <1>7 DEF InSlot
<1> QED  BY <1>4, <1>8, Zenon DEF U

(* The list of a device that was just trimmed: one item without an array.  *)
LEMMA NewItems ==
  ASSUME NEW order \in Orders, NEW items, items = <<[order |-> order, data |-> <<>>]>>
  PROVE  items \in Items /\ items # <<>> /\ Slots(items) /\ \A qset : Arrays(items, qset)
<1>1. [order |-> order, data |-> <<>>] \in PageItem
  BY DEF PageItem
<1>2. items \in Items /\ items # <<>> /\ Len(items) = 1 /\ items[1].data = <<>>
  BY <1>1 DEF Items
<1>3. Slots(items)
  BY <1>2 DEF Slots
<1>4. \A qset : Arrays(items, qset)
  BY <1>2 DEF Arrays
<1> QED  BY <1>2, <1>3, <1>4

(* Arrays as long as the device thinks are neither passed nor left.        *)
LEMMA Measured ==
  ASSUME NEW items \in Items, NEW qset \in Nat, Arrays(items, qset)
  PROVE  /\ ~\E i \in DOMAIN items : items[i].data # <<>> /\ Len(items[i].data) < qset
         /\ ~\E i \in DOMAIN items : \E j \in DOMAIN items[i].data : j > qset /\ items[i].data[j] # 0
<1>1. ASSUME NEW i \in DOMAIN items
      PROVE  items[i].data \in Seq(Nat) /\ (items[i].data # <<>> => Len(items[i].data) = qset)
  <2>1. i \in 1..Len(items) /\ items[i] \in PageItem
    BY DEF Items
  <2> QED  BY <2>1 DEF PageItem, Arrays
<1> QED  BY <1>1

(* A page that nopage finds is the one that read would, in a device of     *)
(* order 0: a quantum is a page.                                           *)
LEMMA OnePage ==
  ASSUME NEW qset \in Nat \ {0}, NEW n \in Nat
  PROVE  /\ n \div qset \in Nat /\ n - (n \div qset) * qset \in 0..qset - 1
         /\ n \div (1 * qset) = n \div qset /\ n % 1 = 0
         /\ (n % (1 * qset)) \div 1 = n - (n \div qset) * qset
<1>1. n \div qset \in Nat /\ n - (n \div qset) * qset \in 0..qset - 1
  OBVIOUS
<1>2. n % qset = n - (n \div qset) * qset
  OBVIOUS
<1>3. 1 * qset = qset /\ n % 1 = 0 /\ (n % qset) \div 1 = n % qset
  OBVIOUS
<1> QED  BY <1>1, <1>2, <1>3

(* scullc: the slots of an item hold objects of the cache.                 *)
Boxes(items, cache) ==
  \A i \in 1..Len(items) : \A j \in 1..Len(items[i].data) : items[i].data[j] \in {0, cache}

(* The list that an access leaves: followed, with an array, with a quantum *)
LEMMA BoxesLonger ==
  ASSUME NEW items \in Items, items # <<>>, NEW n \in Nat, NEW cache, Boxes(items, cache)
  PROVE  /\ Longer(items, n) \in Items /\ Longer(items, n) # <<>> /\ n + 1 \in 1..Len(Longer(items, n))
         /\ Boxes(Longer(items, n), cache)
         /\ \A qset : Arrays(items, qset) => Arrays(Longer(items, n), qset)
<1> DEFINE L == Longer(items, n)
<1>1. /\ L \in Items /\ n + 1 \in 1..Len(L) /\ Len(items) =< Len(L)
      /\ \A i \in 1..Len(L) : L[i] = IF i =< Len(items) THEN items[i] ELSE Fresh
  BY Followed
<1> HIDE DEF L
<1>2. Len(items) \in Nat /\ Len(L) \in Nat /\ Len(<<>>) = 0 /\ 1 \in 1..Len(items)
  BY <1>1, NotEmpty
<1>3. L # <<>>
  BY <1>1, <1>2
<1>4. ASSUME NEW i \in 1..Len(L)
      PROVE  (i \in 1..Len(items) /\ L[i] = items[i]) \/ L[i].data = <<>>
  BY <1>1, <1>2 DEF Fresh
<1>5. Boxes(L, cache)
  BY <1>4 DEF Boxes
<1>6. \A qset : Arrays(items, qset) => Arrays(L, qset)
  BY <1>4 DEF Arrays
<1> QED  BY <1>1, <1>3, <1>5, <1>6 DEF L

(* A new array has empty slots.                                            *)
LEMMA BoxesArray ==
  ASSUME NEW items \in Items, NEW k \in 1..Len(items), NEW mine \in Nat \ {0}, NEW cache, Boxes(items, cache)
  PROVE  LET filled == ArrayPut(items, k, mine)
         IN  /\ filled \in Items /\ Len(filled) = Len(items) /\ Boxes(filled, cache) /\ filled[k].data # <<>>
             /\ \A qset : Arrays(items, qset) /\ mine = qset => Arrays(filled, qset)
<1> DEFINE W == ArrayPut(items, k, mine)
           Z == [j \in 1..mine |-> 0]
<1>1. Len(Z) = mine /\ \A j \in 1..Len(Z) : Z[j] = 0
  OBVIOUS
<1>2. /\ W \in Items /\ Len(W) = Len(items) /\ W[k].data # <<>>
      /\ \A i \in 1..Len(items) :
           W[i].data = IF i = k /\ items[k].data = <<>> THEN Z ELSE items[i].data
  BY ArrayThere DEF HasArray
<1> HIDE DEF W, Z
<1>3. Boxes(W, cache)
  BY <1>1, <1>2 DEF Boxes
<1>4. \A qset : Arrays(items, qset) /\ mine = qset => Arrays(W, qset)
  BY <1>1, <1>2 DEF Arrays
<1> QED  BY <1>2, <1>3, <1>4 DEF W

(* A new quantum is an object of the cache.                                *)
LEMMA BoxesQuantum ==
  ASSUME NEW items \in Items, NEW k \in 1..Len(items), items[k].data # <<>>, NEW slot \in Nat,
         NEW cache \in Nat, Boxes(items, cache)
  PROVE  LET full == QuantumPut(items, k, slot, cache)
         IN  /\ full \in Items /\ Len(full) = Len(items) /\ Boxes(full, cache)
             /\ \A qset : Arrays(items, qset) => Arrays(full, qset)
<1> DEFINE U == QuantumPut(items, k, slot, cache)
<1>1. /\ U \in Items /\ Len(U) = Len(items)
      /\ \A i \in 1..Len(items) :
           /\ Len(U[i].data) = Len(items[i].data)
           /\ \A j \in 1..Len(items[i].data) :
                U[i].data[j] = IF i = k /\ j = slot + 1 /\ items[k].data[j] = 0 THEN cache ELSE items[i].data[j]
  <2>1. HasQuantum(U, items, k, slot, cache)
    BY QuantumThere
  <2> QED  BY <2>1, Zenon DEF HasQuantum
<1> HIDE DEF U
<1>2. Boxes(U, cache)
  <2> SUFFICES ASSUME NEW i \in 1..Len(U), NEW j \in 1..Len(U[i].data)
               PROVE  U[i].data[j] \in {0, cache}
    BY Zenon DEF Boxes
  <2>1. i \in 1..Len(items) /\ j \in 1..Len(items[i].data)
    BY <1>1
  <2>2. items[i].data[j] \in {0, cache}
    BY <2>1 DEF Boxes
  <2>3. U[i].data[j] = IF i = k /\ j = slot + 1 /\ items[k].data[j] = 0 THEN cache ELSE items[i].data[j]
    BY <1>1, <2>1
  <2> QED  BY <2>2, <2>3, Zenon
<1>3. ASSUME NEW i \in 1..Len(items), U[i].data # <<>> PROVE items[i].data # <<>>
  <2>1. U[i] \in PageItem /\ items[i] \in PageItem
    BY <1>1 DEF Items
  <2>2. U[i].data \in Seq(Nat) /\ items[i].data \in Seq(Nat)
    BY <2>1 DEF PageItem
  <2>3. Len(U[i].data) = Len(items[i].data)
    BY <1>1
  <2> QED  BY <1>3, <2>2, <2>3
<1>4. \A qset : Arrays(items, qset) => Arrays(U, qset)
  BY <1>1, <1>3 DEF Arrays
<1> QED  BY <1>1, <1>2, <1>4 DEF U

(* What an access finds in an array of the right length                    *)
LEMMA BoxFound ==
  ASSUME NEW items \in Items, NEW k \in 1..Len(items), NEW qset \in Nat, NEW slot \in 0..qset - 1,
         Arrays(items, qset), NEW cache \in Nat, Boxes(items, cache)
  PROVE  /\ InSlot(items[k].data, slot) \in {0, cache}
         /\ items[k].data # <<>> => InSlot(QuantumPut(items, k, slot, cache)[k].data, slot) = cache
<1>1. items[k] \in PageItem
  BY DEF Items
<1>2. items[k].data \in Seq(Nat)
  BY <1>1 DEF PageItem
<1>3. CASE items[k].data = <<>>
  BY <1>3 DEF InSlot
<1>4. CASE items[k].data # <<>>
  <2>1. Len(items[k].data) = qset /\ slot + 1 \in 1..qset /\ slot \in Nat
    BY <1>4 DEF Arrays
  <2>2. items[k].data[slot + 1] \in {0, cache}
    BY <2>1 DEF Boxes
  <2>3. InSlot(items[k].data, slot) = items[k].data[slot + 1]
    BY <1>4, <2>1 DEF InSlot
  <2>4. PICK full : full = QuantumPut(items, k, slot, cache)
    OBVIOUS
  <2>5. /\ full \in Items /\ Len(full) = Len(items) /\ Len(full[k].data) = Len(items[k].data)
        /\ \A j \in 1..Len(items[k].data) :
             full[k].data[j] = IF j = slot + 1 /\ items[k].data[j] = 0 THEN cache ELSE items[k].data[j]
    <3>1. HasQuantum(QuantumPut(items, k, slot, cache), items, k, slot, cache)
      BY <1>4, <2>1, QuantumThere
    <3>2. HasQuantum(full, items, k, slot, cache)
      BY <2>4, <3>1, Zenon
    <3> QED  BY <3>2 DEF HasQuantum
  <2>6. full[k].data[slot + 1] = cache
    BY <2>1, <2>2, <2>5
  <2>7. full[k] \in PageItem
    BY <2>5 DEF Items
  <2>8. full[k].data \in Seq(Nat)
    BY <2>7 DEF PageItem
  <2>9. InSlot(full[k].data, slot) = full[k].data[slot + 1]
    BY <2>1, <2>5, <2>8 DEF InSlot
  <2> QED  BY <2>2, <2>3, <2>4, <2>6, <2>9
<1> QED  BY <1>3, <1>4
=============================================================================

--------------------------- MODULE ScullAccessProofs ---------------------------
(***************************************************************************)
(* Theorems about ScullAccess, for every set of processes, devices, users  *)
(* and terminals, every quantum and quantum set, every bound on the        *)
(* positions and every byte count.                                         *)
(*                                                                         *)
(* The invariant Safe, near the end, has three layers. Rules says who may  *)
(* be where: with a file, with a semaphore, with a pointer into a list,    *)
(* inside a call; every step keeps it, the lists being of any length.      *)
(* Lists says that the arrays have the lengths that the parameters of a    *)
(* call suppose. The properties of ScullAccess are the third, and need     *)
(* both.                                                                   *)
(***************************************************************************)
EXTENDS ScullAccess, FiniteSetTheorems, SequenceTheorems, TLAPS

----------------------------------------------------------------------------
(***************************************************************************)
(* The parts of the inductive invariant.                                   *)
(***************************************************************************)

(* Where a process is that has no file open.                               *)
Outer == {"idle", "s_busy", "w_again", "w_enqueue", "w_test", "w_sleep", "w_wake"}
ProcLabels == {"p_down", "p_walk"}
CallLabels == {"r_down", "w_down", "r_follow", "w_follow", "r_copy", "w_copy", "up"}
Labels == Outer \cup ProcLabels \cup CallLabels
                \cup {"open", "t_start", "t_free", "o_down", "o_up"}

Bytes == Seq(Seq(Seq(Int)))
Devices == [data : Bytes, quantum : Nat \ {0}, qset : Nat \ {0}, size : 0 .. MaxPos, sem : {0, 1}]
Files == [dev : Devs \cup {None}, mode : {None, "wronly", "rdwr", "proc", "seq"}, pos : 0 .. MaxPos]
Locals == [quantum : Nat, qset : Nat, count : Nat]

Types ==
  /\ params \in Params /\ kind \in Kinds
  /\ dev \in [Devs -> Devices]
  /\ written \in [Devs -> SUBSET (0 .. MaxPos - 1)]
  /\ pc \in [Procs -> Labels]
  /\ file \in [Procs -> Files]
  /\ ref \in [Procs -> {None, "live", "freed"}]
  /\ loc \in [Procs -> Locals]
  /\ mixed \subseteq Devs /\ clones \subseteq Devs

(* Every device of access.c has its own way in.                            *)
GatesOf(k) ==
  Labels \ ((IF k = "single" THEN {} ELSE {"s_busy"})
            \cup (IF k = "wuid" THEN {} ELSE Outer \ {"idle", "s_busy"})
            \cup (IF k = "plain" THEN {} ELSE {"o_down", "o_up"} \cup ProcLabels))

(* A file is open for a call exactly from open to release.                 *)
FilesOK ==
  \A p \in Procs :
    /\ pc[p] \in GatesOf(kind)
    /\ pc[p] \in Outer => file[p] = NoFile
    /\ pc[p] \in ProcLabels => Dev(p) \in Devs /\ file[p].mode \in {"proc", "seq"}
    /\ pc[p] \notin Outer \cup ProcLabels => Dev(p) \in Devs /\ file[p].mode \in {"wronly", "rdwr"}
    /\ kind = "priv" => Dev(p) \in clones \cup {None}

(* The semaphore of a device is held by one process at most.               *)
Holds(p) ==
  \/ pc[p] \in {"r_follow", "r_copy", "w_follow", "w_copy", "up", "o_up", "p_walk"}
  \/ kind = "plain" /\ pc[p] \in {"t_start", "t_free"}

SemsOK ==
  \A d \in Devs :
    /\ dev[d].sem = 1 <=> \A p \in Procs : Dev(p) = d => ~Holds(p)
    /\ \A p, q \in Procs : Dev(p) = d /\ Dev(q) = d /\ Holds(p) /\ Holds(q) => p = q

(* Who has a pointer into a list, and whose list may be freed.             *)
RefsOK ==
  \A p \in Procs :
    /\ pc[p] \in {"t_free", "r_copy", "w_copy"} => ref[p] # None
    /\ ref[p] # None => pc[p] \in {"t_free", "r_copy", "w_copy", "p_down", "p_walk"}
    /\ pc[p] = "p_down" /\ file[p].mode = "seq" => ref[p] = None
    /\ ref[p] = "freed" => /\ kind # "single"
                           /\ kind = "plain" => pc[p] \in ProcLabels /\ file[p].mode = "proc"

(* A call works inside one quantum, below the bound.                       *)
Started == CallLabels \ {"up"}
LocsOK ==
  \A p \in Procs :
    /\ pc[p] \in Started => loc[p].quantum > 0 /\ loc[p].qset > 0 /\ loc[p].count > 0
    /\ pc[p] \in {"w_down", "w_follow"} => file[p].pos < MaxPos
    /\ pc[p] \in {"r_copy", "w_copy"} =>
         /\ file[p].pos + loc[p].count <= MaxPos
         /\ Place(file[p].pos, loc[p]).q_pos + loc[p].count <= loc[p].quantum

(* Unless a call used stale parameters, all arrays have the right length.  *)
Regular(data, quantum, qset) ==
  \A i \in 1 .. Len(data) : data[i] # <<>> =>
    /\ Len(data[i]) = qset
    /\ \A j \in 1 .. qset : data[i][j] # <<>> => Len(data[i][j]) = quantum

SameParams(d, l) == dev[d].quantum = l.quantum /\ dev[d].qset = l.qset

ShapesOK == \A d \in Devs \ mixed : Regular(dev[d].data, dev[d].quantum, dev[d].qset)

Copying(p) == pc[p] \in {"r_copy", "w_copy"} /\ ref[p] = "live" /\ Dev(p) \notin mixed

(* Whoever copies through a live pointer has found the quantum.            *)
QuantaOK == \A p \in Procs : Copying(p) => SameParams(Dev(p), loc[p]) /\ Quantum(p) # <<>>

(* scullsingle never uses stale parameters.                                *)
SingleOK ==
  kind = "single" =>
    /\ mixed = {}
    /\ \A p \in Procs : pc[p] \in Started => SameParams(Dev(p), loc[p])

(* Multiplying by a natural number keeps the order.                        *)
LEMMA TimesMono ==
  ASSUME NEW a \in Nat, NEW x \in Int, NEW y \in Int, x <= y
  PROVE  a * x <= a * y
<1>1. a * (y - x) >= 0
  <2> DEFINE z == y - x
  <2>1. z \in Nat
    OBVIOUS
  <2> HIDE DEF z
  <2>2. a * z \in Nat
    BY <2>1
  <2> QED  BY <2>2 DEF z
<1>2. a * (y - x) = a * y - a * x /\ a * y \in Int /\ a * x \in Int
  OBVIOUS
<1> QED  BY <1>1, <1>2

Composed(a, x, r) == a * x + r

(* A quotient and a remainder are determined by their number.              *)
LEMMA DivUnique ==
  ASSUME NEW a \in Nat \ {0}, NEW x \in Int, NEW y \in Int,
         NEW r \in 0 .. a - 1, NEW s \in 0 .. a - 1, Composed(a, x, r) = Composed(a, y, s)
  PROVE  x = y /\ r = s
<1>0. a * x \in Int /\ a * y \in Int /\ a * x + r = a * y + s
  BY DEF Composed
<1>1. CASE x < y
  <2>1. a * (x + 1) <= a * y
    BY <1>1, TimesMono
  <2>2. a * (x + 1) = a * x + a
    OBVIOUS
  <2> QED  BY <1>0, <2>1, <2>2
<1>2. CASE y < x
  <2>1. a * (y + 1) <= a * x
    BY <1>2, TimesMono
  <2>2. a * (y + 1) = a * y + a
    OBVIOUS
  <2> QED  BY <1>0, <2>1, <2>2
<1>3. CASE x = y
  BY <1>0, <1>3
<1> QED  BY <1>1, <1>2, <1>3

(* What div and mod are.                                                   *)
LEMMA DivMod ==
  ASSUME NEW a \in Nat \ {0}, NEW x \in Nat
  PROVE  x = a * (x \div a) + (x % a) /\ x \div a \in Nat /\ x % a \in 0 .. a - 1
OBVIOUS

(* A position below a * b is in one of the b quanta of a bytes.            *)
LEMMA DivBound ==
  ASSUME NEW a \in Nat \ {0}, NEW b \in Nat \ {0}, NEW x \in 0 .. a * b - 1
  PROVE  x \div a \in 0 .. b - 1
<1>1. a * b \in Nat /\ x \in Nat
  OBVIOUS
<1>2. x = a * (x \div a) + (x % a) /\ x \div a \in Nat /\ x % a \in 0 .. a - 1
  BY <1>1, DivMod
<1> DEFINE d == x \div a
<1>3. d \in Nat /\ a * d <= x /\ a * d \in Nat
  BY <1>2
<1> HIDE DEF d
<1>4. ~(b <= d)
  BY <1>1, <1>3, TimesMono
<1> QED  BY <1>3, <1>4 DEF d

(* Where a position is: the list item, the index in its quantum set and    *)
(* the offset in the quantum, as scull_read and scull_write compute them.  *)
LEMMA PlaceIs ==
  ASSUME NEW pos \in Nat, NEW l, l.quantum \in Nat \ {0}, l.qset \in Nat \ {0}
  PROVE  LET at == Place(pos, l)
         IN  /\ at.item \in Nat /\ at.s_pos \in 0 .. l.qset - 1 /\ at.q_pos \in 0 .. l.quantum - 1
             /\ pos = (l.quantum * l.qset) * at.item + (l.quantum * at.s_pos + at.q_pos)
             /\ l.quantum * at.s_pos + at.q_pos \in 0 .. (l.quantum * l.qset) - 1
<1> DEFINE a == l.quantum
           b == l.qset
           n == a * b
           rest == pos % n
<1>1. a \in Nat \ {0} /\ b \in Nat \ {0} /\ n \in Nat \ {0}
  OBVIOUS
<1>2. pos = n * (pos \div n) + rest /\ pos \div n \in Nat /\ rest \in 0 .. n - 1
  <2> HIDE DEF n
  <2> QED  BY <1>1, DivMod
<1>3. rest = a * (rest \div a) + (rest % a) /\ rest % a \in 0 .. a - 1
  <2> HIDE DEF rest, a, n
  <2> QED  BY <1>1, <1>2, DivMod
<1>4. rest \div a \in 0 .. b - 1
  <2> HIDE DEF rest, a, b
  <2> QED  BY <1>1, <1>2, DivBound
<1>5. Place(pos, l) = [item |-> pos \div n, s_pos |-> rest \div a, q_pos |-> rest % a]
  BY DEF Place
<1> HIDE DEF rest, n, a, b
<1> QED  BY <1>2, <1>3, <1>4, <1>5 DEF a, b, n

(* Two positions at the same item and index differ by their offsets.       *)
LEMMA PlaceApart ==
  ASSUME NEW pos \in Nat, NEW i \in Nat, NEW l, l.quantum \in Nat \ {0}, l.qset \in Nat \ {0},
         Place(pos, l).item = Place(i, l).item, Place(pos, l).s_pos = Place(i, l).s_pos
  PROVE  i - pos = Place(i, l).q_pos - Place(pos, l).q_pos
<1> DEFINE x == (l.quantum * l.qset) * Place(i, l).item
           y == l.quantum * Place(i, l).s_pos
<1>1. /\ pos = x + (y + Place(pos, l).q_pos) /\ i = x + (y + Place(i, l).q_pos)
      /\ Place(pos, l).q_pos \in Int /\ Place(i, l).q_pos \in Int
  BY PlaceIs
<1>2. x \in Int /\ y \in Int
  BY PlaceIs
<1> HIDE DEF x, y
<1> QED  BY <1>1, <1>2

(* The positions behind one, up to the end of its quantum, are in it.      *)
LEMMA PlaceShift ==
  ASSUME NEW pos \in Nat, NEW i \in Nat, NEW l, l.quantum \in Nat \ {0}, l.qset \in Nat \ {0},
         i >= pos, Place(pos, l).q_pos + (i - pos) < l.quantum
  PROVE  /\ Place(i, l).item = Place(pos, l).item /\ Place(i, l).s_pos = Place(pos, l).s_pos
         /\ Place(i, l).q_pos = Place(pos, l).q_pos + (i - pos)
<1> DEFINE a == l.quantum
           b == l.qset
           n == a * b
           u == Place(pos, l)
           v == Place(i, l)
           k == u.q_pos + (i - pos)
<1>1. /\ a \in Nat \ {0} /\ b \in Nat \ {0} /\ n \in Nat \ {0} /\ n = a * b
      /\ u.item \in Nat /\ u.s_pos \in 0 .. b - 1 /\ u.q_pos \in 0 .. a - 1
      /\ v.item \in Nat /\ v.s_pos \in 0 .. b - 1 /\ v.q_pos \in 0 .. a - 1
  BY PlaceIs
<1>2. /\ pos = n * u.item + (a * u.s_pos + u.q_pos)
      /\ i = n * v.item + (a * v.s_pos + v.q_pos)
      /\ a * v.s_pos + v.q_pos \in 0 .. n - 1
  BY PlaceIs
<1>3. k \in 0 .. a - 1
  BY <1>1
<1>4. a * u.s_pos + k \in 0 .. n - 1
  <2>1. a * (u.s_pos + 1) <= a * b
    BY <1>1, TimesMono
  <2>2. a * (u.s_pos + 1) = a * u.s_pos + a /\ a * u.s_pos \in Nat
    BY <1>1
  <2> HIDE DEF k, n, u
  <2> QED  BY <1>1, <1>3, <2>1, <2>2
<1>5. n * u.item \in Int /\ n * v.item \in Int /\ a * u.s_pos \in Int /\ a * v.s_pos \in Int
  BY <1>1
<1>6. i = n * u.item + (a * u.s_pos + k)
  <2> HIDE DEF n, a, u, v
  <2> QED  BY <1>1, <1>2, <1>5 DEF k
<1>7. u.item = v.item /\ a * u.s_pos + k = a * v.s_pos + v.q_pos
  <2>1. Composed(n, u.item, a * u.s_pos + k) = Composed(n, v.item, a * v.s_pos + v.q_pos)
    <3> HIDE DEF n, a, u, v, k
    <3> QED  BY <1>2, <1>6 DEF Composed
  <2> HIDE DEF n, a, u, v, k
  <2> QED  BY <1>1, <1>2, <1>4, <2>1, DivUnique
<1>8. u.s_pos = v.s_pos /\ k = v.q_pos
  <2> HIDE DEF n, a, u, v, k
  <2>1. Composed(a, u.s_pos, k) = Composed(a, v.s_pos, v.q_pos)
    BY <1>7 DEF Composed
  <2>2. u.s_pos \in Int /\ v.s_pos \in Int
    BY <1>1
  <2> QED  BY <1>1, <1>3, <2>1, <2>2, DivUnique
<1> QED  BY <1>7, <1>8

(* scull_follow leaves the list as it is and adds empty items behind it.   *)
LEMMA FollowIs ==
  ASSUME NEW data \in Bytes, NEW n \in Nat, NEW x \in Follow(data, n)
  PROVE  /\ x \in Bytes /\ Len(x) >= Len(data)
         /\ \A i \in 1 .. Len(data) : x[i] = data[i]
         /\ \A i \in Len(data) + 1 .. Len(x) : x[i] = <<>>
<1>1. Len(data) \in Nat /\ data \in Seq(Seq(Seq(Int)))
  BY LenProperties DEF Bytes
<1>2. PICK k \in 0 .. (IF n + 1 > Len(data) THEN n + 1 - Len(data) ELSE 0) :
        x = data \o [i \in 1 .. k |-> <<>>]
  BY DEF Follow
<1> DEFINE e == [i \in 1 .. k |-> <<>>]
<1>3. k \in Nat
  BY <1>1, <1>2
<1>4. <<>> \in Seq(Seq(Int))
  BY EmptySeq
<1>5. e \in Seq(Seq(Seq(Int))) /\ Len(e) = k /\ \A i \in 1 .. k : e[i] = <<>>
  <2>1. e \in [1 .. k -> Seq(Seq(Int))]
    BY <1>4
  <2> QED  BY <1>3, <2>1, SeqDef, LenProperties
<1> HIDE DEF e
<1>6. x = data \o e
  BY <1>2 DEF e
<1>7. /\ x \in Seq(Seq(Seq(Int))) /\ Len(x) = Len(data) + k
      /\ \A i \in 1 .. Len(data) + k : x[i] = IF i <= Len(data) THEN data[i] ELSE e[i - Len(data)]
  BY <1>1, <1>5, <1>6, ConcatProperties
<1>8. \A i \in Len(data) + 1 .. Len(data) + k : i - Len(data) \in 1 .. k
  BY <1>1, <1>3
<1>9. \A i \in 1 .. Len(data) : x[i] = data[i]
  BY <1>1, <1>3, <1>7
<1>10. ASSUME NEW i \in Len(data) + 1 .. Len(data) + k PROVE x[i] = <<>>
  <2>1. i \in 1 .. Len(data) + k /\ ~(i <= Len(data))
    BY <1>1, <1>3
  <2>2. x[i] = e[i - Len(data)]
    BY <1>7, <2>1
  <2> QED  BY <1>5, <1>8, <2>2
<1>11. x \in Bytes /\ Len(x) = Len(data) + k
  BY <1>7 DEF Bytes
<1> HIDE DEF Bytes
<1> QED  BY <1>1, <1>3, <1>9, <1>10, <1>11

(* The array of a quantum set, allocated if there was none.                *)
LEMMA WithArrayIs ==
  ASSUME NEW set \in Seq(Seq(Int)), NEW l, l.qset \in Nat \ {0}
  PROVE  LET array == WithArray(set, l)
         IN  /\ array \in Seq(Seq(Int)) /\ Len(array) \in Nat \ {0}
             /\ set = <<>> => Len(array) = l.qset /\ \A j \in 1 .. l.qset : array[j] = <<>>
             /\ set # <<>> => array = set
<1> DEFINE array == IF set = <<>> THEN [i \in 1 .. l.qset |-> <<>>] ELSE set
<1>1. array \in Seq(Seq(Int)) /\ Len(array) \in Nat \ {0}
      /\ (set = <<>> => Len(array) = l.qset /\ \A j \in 1 .. l.qset : array[j] = <<>>)
      /\ (set # <<>> => array = set)
  <2>1. CASE set = <<>>
    <3>1. <<>> \in Seq(Int)
      BY EmptySeq
    <3>2. array \in [1 .. l.qset -> Seq(Int)]
      BY <2>1, <3>1
    <3>3. array \in Seq(Seq(Int)) /\ Len(array) = l.qset
      BY <3>2, SeqDef, LenProperties
    <3>4. \A j \in 1 .. l.qset : array[j] = <<>>
      BY <2>1
    <3> QED  BY <2>1, <3>3, <3>4
  <2>2. CASE set # <<>>
    <3>1. Len(set) \in Nat /\ Len(set) # 0
      BY <2>2, EmptySeq, LenProperties
    <3> QED  BY <2>2, <3>1
  <2> QED  BY <2>1, <2>2
<1> QED  BY <1>1 DEF WithArray

(* Allocating the array and the quantum of a place leaves every other      *)
(* quantum of the set as it is.                                            *)
LEMMA GrownIs ==
  ASSUME NEW set \in Seq(Seq(Int)), NEW s \in Nat, NEW at, at.s_pos = s,
         NEW l, l.quantum \in Nat \ {0}, l.qset \in Nat \ {0}
  PROVE  LET g == Grown(set, at, l)
         IN  /\ g \in Seq(Seq(Int)) /\ g # <<>>
             /\ set # <<>> => Len(g) = Len(set)
             /\ set = <<>> => Len(g) = l.qset
             /\ \A j \in 1 .. Len(g) : j # s + 1 \/ (set # <<>> /\ set[j] # <<>>) =>
                  g[j] = IF set = <<>> THEN <<>> ELSE set[j]
             /\ s < Len(g) /\ (set = <<>> \/ set[s + 1] = <<>>) => Len(g[s + 1]) = l.quantum
             /\ s < Len(g) => g[s + 1] # <<>>
<1> DEFINE array == WithArray(set, l)
           fresh == [i \in 1 .. l.quantum |-> Junk]
           g == Grown(set, at, l)
<1>1. array \in Seq(Seq(Int)) /\ Len(array) \in Nat \ {0}
      /\ (set = <<>> => Len(array) = l.qset /\ \A j \in 1 .. l.qset : array[j] = <<>>)
      /\ (set # <<>> => array = set)
  BY WithArrayIs
<1>2. fresh \in Seq(Int) /\ Len(fresh) = l.quantum /\ fresh # <<>>
  <2>1. fresh \in [1 .. l.quantum -> Int]
    BY DEF Junk
  <2> DEFINE n == l.quantum
  <2>2. n \in Nat \ {0} /\ fresh \in [1 .. n -> Int]
    BY <2>1
  <2> HIDE DEF n, fresh
  <2>3. fresh \in Seq(Int) /\ Len(fresh) = n
    BY <2>2, SeqDef, LenProperties
  <2> QED  BY <2>2, <2>3, EmptySeq DEF n
<1>3. g = IF s < Len(array) /\ array[s + 1] = <<>> THEN [array EXCEPT ![s + 1] = fresh] ELSE array
  BY DEF Grown
<1> HIDE DEF array, fresh, g
<1>4. CASE s < Len(array) /\ array[s + 1] = <<>>
  <2>1. s + 1 \in 1 .. Len(array)
    BY <1>1, <1>4
  <2>2. g \in Seq(Seq(Int)) /\ Len(g) = Len(array)
        /\ g[s + 1] = fresh /\ \A j \in 1 .. Len(array) : j # s + 1 => g[j] = array[j]
    <3> DEFINE n == s + 1
    <3>1. n \in 1 .. Len(array) /\ g = [array EXCEPT ![n] = fresh]
      BY <1>3, <1>4, <2>1
    <3> HIDE DEF n
    <3>2. /\ g \in Seq(Seq(Int)) /\ Len(g) = Len(array)
          /\ \A j \in 1 .. Len(array) : g[j] = IF j = n THEN fresh ELSE array[j]
      BY <1>1, <1>2, <3>1, ExceptSeq
    <3> QED  BY <3>1, <3>2 DEF n
  <2>3. g # <<>>
    BY <1>1, <2>2, EmptySeq
  <2>4. set # <<>> => set[s + 1] = <<>>
    BY <1>1, <1>4
  <2>5. \A j \in 1 .. Len(array) : array[j] = IF set = <<>> THEN <<>> ELSE set[j]
    BY <1>1
  <2> QED  BY <1>1, <1>2, <1>4, <2>1, <2>2, <2>3, <2>4, <2>5 DEF g
<1>5. CASE ~(s < Len(array) /\ array[s + 1] = <<>>)
  <2>1. g = array /\ g # <<>>
    BY <1>1, <1>3, <1>5, EmptySeq
  <2>2. \A j \in 1 .. Len(array) : array[j] = IF set = <<>> THEN <<>> ELSE set[j]
    BY <1>1
  <2>3. s < Len(array) => set # <<>> /\ set[s + 1] # <<>>
    <3>1. s < Len(array) => s + 1 \in 1 .. Len(array)
      BY <1>1
    <3> QED  BY <1>5, <2>2, <3>1
  <2> QED  BY <1>1, <2>1, <2>2, <2>3 DEF g
<1> QED  BY <1>4, <1>5

(* Every quantum of list a is in list b, where it was.                     *)
Preserves(a, b) ==
  \A i \in 1 .. Len(a) : \A j \in 1 .. Len(a[i]) :
    a[i][j] # <<>> => i \in 1 .. Len(b) /\ j \in 1 .. Len(b[i]) /\ b[i][j] = a[i][j]

(* A kmalloc that fails leaves the list as it is, or with a new array      *)
(* that has no quantum yet.                                                *)
LEMMA FailedIs ==
  ASSUME NEW data \in Bytes, NEW at, at.item \in Nat, at.s_pos \in Nat,
         NEW l, l.quantum \in Nat \ {0}, l.qset \in Nat \ {0}, NEW left \in Failed(data, at, l)
  PROVE  /\ left \in Bytes /\ Preserves(data, left)
         /\ Regular(data, l.quantum, l.qset) => Regular(left, l.quantum, l.qset)
<1> DEFINE i == at.item + 1
           array == WithArray(data[i], l)
<1>1. data \in Seq(Seq(Seq(Int))) /\ Len(data) \in Nat
  BY LenProperties DEF Bytes
<1>2. Preserves(data, data)
  BY DEF Preserves
<1>3. Reached(data, at) => i \in 1 .. Len(data)
  BY <1>1 DEF Reached
<1>4. \/ left = data
      \/ Reached(data, at) /\ left = [data EXCEPT ![i] = data[i]]
      \/ Reached(data, at) /\ left = [data EXCEPT ![i] = array]
  BY DEF Failed
<1> HIDE DEF i
<1>5. CASE left = data
  BY <1>2, <1>5
<1>6. CASE Reached(data, at) /\ left = [data EXCEPT ![i] = data[i]]
  <2>1. left \in Seq(Seq(Seq(Int))) /\ Len(left) = Len(data)
        /\ \A k \in 1 .. Len(data) : left[k] = data[k]
    <3>1. i \in 1 .. Len(data)
      BY <1>3, <1>6
    <3>2. data[i] \in Seq(Seq(Int))
      BY <1>1, <3>1, ElementOfSeq
    <3> QED  BY <1>1, <1>6, <3>1, <3>2, ExceptSeq
  <2>2. Preserves(data, left)
    BY <2>1 DEF Preserves
  <2>3. Regular(data, l.quantum, l.qset) => Regular(left, l.quantum, l.qset)
    BY <2>1 DEF Regular
  <2> QED  BY <2>1, <2>2, <2>3 DEF Bytes
<1>7. CASE Reached(data, at) /\ left = [data EXCEPT ![i] = array]
  <2>1. i \in 1 .. Len(data) /\ data[i] \in Seq(Seq(Int))
    BY <1>1, <1>3, <1>7, ElementOfSeq
  <2>2. /\ array \in Seq(Seq(Int))
        /\ data[i] = <<>> => Len(array) = l.qset /\ \A j \in 1 .. l.qset : array[j] = <<>>
        /\ data[i] # <<>> => array = data[i]
    BY <2>1, WithArrayIs
  <2> HIDE DEF array
  <2>3. left \in Seq(Seq(Seq(Int))) /\ Len(left) = Len(data)
        /\ \A k \in 1 .. Len(data) : left[k] = IF k = i THEN array ELSE data[k]
    <3>1. LET new == [data EXCEPT ![i] = array]
          IN  new \in Seq(Seq(Seq(Int))) /\ Len(new) = Len(data)
              /\ \A k \in 1 .. Len(data) : new[k] = IF k = i THEN array ELSE data[k]
      <4>1. i \in 1 .. Len(data) /\ array \in Seq(Seq(Int)) /\ data \in Seq(Seq(Seq(Int)))
        BY <1>1, <2>1, <2>2
      <4> QED  BY <4>1, ExceptSeq
    <3> QED  BY <1>7, <3>1
  <2>4. Preserves(data, left)
    <3> SUFFICES ASSUME NEW k \in 1 .. Len(data), NEW j \in 1 .. Len(data[k])
                 PROVE  left[k] = data[k]
      BY <2>3 DEF Preserves
    <3>1. data[k] # <<>>
      BY EmptySeq
    <3> QED  BY <2>2, <2>3, <3>1
  <2>5. ASSUME Regular(data, l.quantum, l.qset) PROVE Regular(left, l.quantum, l.qset)
    <3> SUFFICES ASSUME NEW k \in 1 .. Len(data), left[k] # <<>>
                 PROVE  /\ Len(left[k]) = l.qset
                        /\ \A j \in 1 .. l.qset : left[k][j] # <<>> => Len(left[k][j]) = l.quantum
      BY <2>3 DEF Regular
    <3>1. CASE left[k] = data[k]
      BY <2>5, <3>1 DEF Regular
    <3>2. CASE left[k] # data[k]
      BY <2>2, <2>3, <3>2
    <3> QED  BY <3>1, <3>2
  <2> QED  BY <2>3, <2>4, <2>5 DEF Bytes
<1> QED  BY <1>4, <1>5, <1>6, <1>7

(***************************************************************************)
(* What the steps of the access-controlled devices do to the device.       *)
(***************************************************************************)
KeepsData == UNCHANGED <<params, dev, written, ref, loc, mixed, hits, clones>>

(* A process without a file goes on in its open, or gives up.              *)
OuterMove(p) ==
  /\ pc[p] \in Outer
  /\ \E l \in Outer \cap GatesOf(kind) : Go(p, l)
  /\ KeepsData /\ UNCHANGED file

(* A process passes the gate.                                              *)
PassesGate(p) ==
  /\ pc[p] \in Outer /\ kind # "priv"
  /\ \E d \in Devs, mode \in {"wronly", "rdwr"} :
       Enter(p, d, mode, IF kind = "plain" THEN "o_down" ELSE "t_start")
  /\ KeepsData

(* A process gives its file up.                                            *)
Leaves(p) ==
  /\ pc[p] \in {"open", "o_down"}
  /\ file' = [file EXCEPT ![p] = NoFile]
  /\ \E l \in Outer \cap GatesOf(kind) : Go(p, l)
  /\ KeepsData

PlainTrim(p) == OpenDown(p) \/ TrimFree(p, "o_up") \/ OpenUp(p)

DeviceStep(p) ==
  \/ OuterMove(p) \/ PassesGate(p) \/ Leaves(p)
  \/ (FileStep(p) \/ Call(p)) /\ UNCHANGED clones
  \/ kind = "plain" /\ (PlainTrim(p) \/ ProcStep(p)) /\ UNCHANGED clones
  \/ kind # "plain" /\ TrimFree(p, "open") /\ UNCHANGED clones
  \/ kind = "priv" /\ PrivOpen(p)

DeviceNext ==
  \/ UNCHANGED <<deviceVars, clones>>
  \/ Unload /\ clones' = {}
  \/ \E p \in Procs : DeviceStep(p)

(* The device that scullsingle, sculluid and scullwuid share.              *)
LEMMA TheDeviceType == TheDevice \in Devs
BY DeviceAssumption DEF TheDevice

(* Every step of the specification is one of these, and kind never changes.*)
LEMMA StepShape ==
  ASSUME Types, FilesOK, [Next]_vars
  PROVE  kind' = kind /\ DeviceNext
<1> USE DEF KeepsData, gate, deviceVars, At, Go, Move
<1>0. kind \in Kinds /\ Clients[kind] \subseteq Procs
  BY AccessAssumption DEF Types
<1>1. CASE UNCHANGED vars
  BY <1>1 DEF vars, DeviceNext
<1>2. CASE Unload /\ clones' = {} /\ UNCHANGED <<kind, available, count, owner, waiting>>
  BY <1>2 DEF DeviceNext
<1>3. ASSUME NEW p \in Procs, (FileStep(p) \/ Call(p)) /\ UNCHANGED <<kind, gate>>
      PROVE  kind' = kind /\ DeviceStep(p)
  BY <1>3 DEF DeviceStep
<1>4. ASSUME NEW p \in Procs, kind = "plain", PlainStep(p) \/ ProcStep(p), UNCHANGED <<kind, gate>>
      PROVE  kind' = kind /\ DeviceStep(p)
  <2>1. ASSUME NEW d \in Devs, Open(p, d) PROVE PassesGate(p)
    BY <1>4, <2>1 DEF Open, PassesGate, Outer
  <2>2. CASE OpenSignal(p) \/ Release(p)
    <3>1. "idle" \in Outer \cap GatesOf(kind)
      BY DEF Outer, GatesOf, Labels, ProcLabels
    <3> QED  BY <1>4, <2>2, <3>1 DEF OpenSignal, Release, Leaves, DeviceStep
  <2> QED  BY <1>4, <2>1, <2>2 DEF PlainStep, PlainTrim, DeviceStep
<1>5. ASSUME NEW p \in Procs, kind # "plain", TrimFree(p, "open"), UNCHANGED <<kind, gate>>
      PROVE  kind' = kind /\ DeviceStep(p)
  BY <1>5 DEF DeviceStep
<1>6. \A k : {"idle"} \cup (IF k = "single" THEN {"s_busy"} ELSE {})
             \cup (IF k = "wuid" THEN Outer \ {"idle", "s_busy"} ELSE {}) \subseteq Outer \cap GatesOf(k)
  BY DEF Outer, GatesOf, Labels, ProcLabels
<1>7. ASSUME NEW p \in Procs, SingleStep(p) PROVE kind' = kind /\ DeviceStep(p)
  <2>1. CASE SingleOpen(p)
    BY <1>6, <1>7, <2>1, TheDeviceType DEF SingleStep, SingleOpen, Pass, OuterMove, PassesGate, DeviceStep, Outer
  <2>2. CASE SingleBusy(p)
    BY <1>6, <1>7, <2>2 DEF SingleStep, SingleBusy, OuterMove, DeviceStep, Outer
  <2>3. CASE SingleRelease(p)
    BY <1>6, <1>7, <2>3 DEF SingleStep, SingleRelease, Release, Leaves, DeviceStep
  <2> QED  BY <1>7, <2>1, <2>2, <2>3 DEF SingleStep
<1>8. ASSUME NEW p \in Procs, UidStep(p) PROVE kind' = kind /\ DeviceStep(p)
  <2>1. CASE UidOpen(p)
    BY <1>8, <2>1, TheDeviceType DEF UidStep, UidOpen, Pass, PassesGate, DeviceStep, Outer
  <2>2. CASE UidRelease(p)
    BY <1>6, <1>8, <2>2 DEF UidStep, UidRelease, Release, Leaves, DeviceStep
  <2> QED  BY <1>8, <2>1, <2>2 DEF UidStep
<1>9. ASSUME NEW p \in Procs, WuidStep(p) PROVE kind' = kind /\ DeviceStep(p)
  <2>0. kind = "wuid" /\ Outer \ {"s_busy"} \subseteq Outer \cap GatesOf(kind)
    BY <1>6, <1>9 DEF WuidStep, Waiter, Outer
  <2>1. CASE WaitOpen(p)
    <3>1. CASE Pass(p, TheDevice)
      BY <2>0, <2>1, <3>1, TheDeviceType DEF WaitOpen, Pass, PassesGate, DeviceStep, Outer
    <3>2. CASE Move(p, "w_enqueue")
      BY <2>0, <2>1, <3>2 DEF WaitOpen, OuterMove, DeviceStep, Outer
    <3> QED  BY <2>1, <3>1, <3>2 DEF WaitOpen
  <2>2. CASE WaitEnqueue(p) \/ WaitTest(p) \/ WaitWoken(p) \/ WaitSignal(p) \/ WaitWake(p)
    BY <2>0, <2>2 DEF WaitEnqueue, WaitTest, WaitWoken, WaitSignal, WaitWake, OuterMove, DeviceStep, Outer
  <2>3. CASE WaitRelease(p)
    BY <2>0, <2>3 DEF WaitRelease, Leaves, DeviceStep, Outer
  <2> QED  BY <1>9, <2>1, <2>2, <2>3 DEF WuidStep, Waiter
<1>10. ASSUME NEW p \in Procs, PrivStep(p) PROVE kind' = kind /\ DeviceStep(p)
  <2>1. CASE PrivOpen(p)
    BY <1>10, <2>1 DEF PrivStep, PrivOpen, DeviceStep
  <2>2. CASE Release(p) /\ UNCHANGED <<kind, gate>>
    BY <1>6, <1>10, <2>2 DEF PrivStep, Release, Leaves, DeviceStep
  <2> QED  BY <1>10, <2>1, <2>2 DEF PrivStep
<1> HIDE DEF KeepsData, gate, deviceVars, At, Go, Move
<1> QED
  BY <1>0, <1>1, <1>2, <1>3, <1>4, <1>5, <1>7, <1>8, <1>9, <1>10 DEF Next, DeviceNext

(***************************************************************************)
(* Files.                                                                  *)
(***************************************************************************)
Inner == Labels \ (Outer \cup ProcLabels)

(* Calls and trims leave the file open, on its device and in its mode.     *)
StaysInside(p) ==
  /\ pc[p] \in Inner
  /\ \E l \in Inner \cap GatesOf(kind) : pc' = [pc EXCEPT ![p] = l]
  /\ \A q \in Procs : /\ q # p => file'[q] = file[q]
                      /\ Dev(q)' = Dev(q) /\ file'[q].mode = file[q].mode

InnerStep(p) ==
  \/ FileStep(p) \/ Call(p)
  \/ kind = "plain" /\ PlainTrim(p)
  \/ kind # "plain" /\ TrimFree(p, "open")

(* What a process does on its open file does not close it.                 *)
LEMMA InnerStays ==
  ASSUME Types, NEW p \in Procs, InnerStep(p)
  PROVE  StaysInside(p)
<1> USE DEF At, Go, Down, Up, Dev
<1>0. pc \in [Procs -> Labels] /\ file \in [Procs -> Files]
  BY DEF Types
<1>1. /\ (Inner \ {"o_down", "o_up"}) \subseteq Inner \cap GatesOf(kind)
      /\ kind = "plain" => {"o_down", "o_up"} \subseteq Inner \cap GatesOf(kind)
      /\ CallLabels \cup {"open", "t_start", "t_free"} \subseteq Inner \ {"o_down", "o_up"}
  BY DEF Inner, GatesOf, Labels, Outer, ProcLabels, CallLabels
<1>2. ASSUME NEW l \in Inner \cap GatesOf(kind), pc[p] \in Inner, pc' = [pc EXCEPT ![p] = l],
             \/ UNCHANGED file
             \/ \E n : file' = [file EXCEPT ![p].pos = n]
      PROVE  StaysInside(p)
  <2>1. ASSUME NEW q \in Procs
        PROVE  /\ q # p => file'[q] = file[q]
               /\ file'[q].dev = file[q].dev /\ file'[q].mode = file[q].mode
    BY <1>0, <1>2, <2>1 DEF Files
  <2> QED  BY <1>2, <2>1 DEF StaysInside
<1> DEFINE From == CallLabels \cup {"open", "t_start", "t_free"}
<1>3. ASSUME FileStep(p) PROVE StaysInside(p)
  <2>1. CASE Enters(p)
    BY <1>1, <1>2, <2>1 DEF Enters, CallLabels
  <2>2. CASE Interrupted(p)
    BY <1>1, <1>2, <2>2 DEF Interrupted, CallLabels
  <2>3. CASE Finish(p)
    BY <1>1, <1>2, <2>3 DEF Finish, CallLabels
  <2>4. CASE ReadFollow(p)
    BY <1>1, <1>2, <2>4 DEF ReadFollow, CallLabels
  <2>5. CASE ReadCopy(p)
    BY <1>1, <1>2, <2>5 DEF ReadCopy, CallLabels
  <2>6. CASE WriteFollow(p)
    BY <1>1, <1>2, <2>6 DEF WriteFollow, CallLabels
  <2>7. CASE WriteFault(p)
    BY <1>1, <1>2, <2>7 DEF WriteFault, CallLabels
  <2>8. CASE WriteCopy(p)
    BY <1>1, <1>2, <2>8 DEF WriteCopy, CallLabels
  <2>9. CASE Ioctl(p)
    <3>1. pc' = [pc EXCEPT ![p] = "open"]
      BY <1>0, <2>9 DEF Ioctl
    <3> QED  BY <1>1, <1>2, <2>9, <3>1 DEF Ioctl
  <2>10. CASE TrimStart(p)
    BY <1>1, <1>2, <2>10 DEF TrimStart
  <2> QED
    BY <1>3, <2>1, <2>2, <2>3, <2>4, <2>5, <2>6, <2>7, <2>8, <2>9, <2>10 DEF FileStep
<1>4. ASSUME Call(p) PROVE StaysInside(p)
  <2>1. CASE Start(p, "r_down") \/ Start(p, "w_down")
    BY <1>1, <1>2, <2>1 DEF Start, CallLabels
  <2>2. CASE Llseek(p)
    <3>1. pc' = [pc EXCEPT ![p] = "open"]
      BY <1>0, <2>2 DEF Llseek
    <3> QED  BY <1>1, <1>2, <2>2, <3>1 DEF Llseek
  <2> QED  BY <1>4, <2>1, <2>2 DEF Call
<1>5. ASSUME kind = "plain", PlainTrim(p) PROVE StaysInside(p)
  BY <1>1, <1>2, <1>5 DEF PlainTrim, OpenDown, TrimFree, OpenUp
<1>6. ASSUME TrimFree(p, "open") PROVE StaysInside(p)
  BY <1>1, <1>2, <1>6 DEF TrimFree
<1> QED  BY <1>3, <1>4, <1>5, <1>6 DEF InnerStep

(* Every process has a file exactly while it is between open and release.  *)
LEMMA FilesStep ==
  ASSUME Types, FilesOK, kind' = kind, DeviceNext
  PROVE  FilesOK'
<1> USE DEF FilesOK, Dev, Go, At
<1>0. pc \in [Procs -> Labels] /\ file \in [Procs -> Files] /\ None \notin Devs /\ clones \subseteq Devs
  BY DeviceAssumption DEF Types
<1>a. Outer \cap ProcLabels = {} /\ Inner \cap (Outer \cup ProcLabels) = {}
  BY DEF Inner, Outer, ProcLabels
<1>1. CASE UNCHANGED <<deviceVars, clones>>
  BY <1>1 DEF deviceVars
<1>2. CASE Unload /\ clones' = {}
  BY <1>2 DEF Unload, NoFile, Outer
<1>3. ASSUME NEW p \in Procs, OuterMove(p) PROVE FilesOK'
  BY <1>0, <1>a, <1>3 DEF OuterMove, KeepsData
<1>4. ASSUME NEW p \in Procs, PassesGate(p) PROVE FilesOK'
  <2>1. PICK d \in Devs, mode \in {"wronly", "rdwr"} :
          Enter(p, d, mode, IF kind = "plain" THEN "o_down" ELSE "t_start")
    BY <1>4 DEF PassesGate
  <2>2. file'[p].dev = d /\ file'[p].mode = mode /\ \A q \in Procs : q # p => file'[q] = file[q]
    BY <1>0, <2>1 DEF Enter
  <2>3. /\ pc'[p] \in Inner \cap GatesOf(kind)
        /\ \A q \in Procs : q # p => pc'[q] = pc[q]
    BY <1>0, <2>1 DEF Enter, Inner, GatesOf, Labels, Outer, ProcLabels
  <2> QED  BY <1>0, <1>a, <1>4, <2>2, <2>3 DEF PassesGate, KeepsData
<1>5. ASSUME NEW p \in Procs, Leaves(p) PROVE FilesOK'
  BY <1>0, <1>a, <1>5 DEF Leaves, KeepsData, NoFile
<1>6. ASSUME NEW p \in Procs, InnerStep(p), UNCHANGED clones PROVE FilesOK'
  <2>1. StaysInside(p)
    BY <1>6, InnerStays
  <2> QED  BY <1>0, <1>a, <1>6, <2>1 DEF StaysInside, Inner
<1>7. ASSUME NEW p \in Procs, kind = "plain", ProcStep(p) PROVE FilesOK'
  <2>1. ProcLabels \subseteq GatesOf("plain") /\ "idle" \in GatesOf("plain") \cap Outer
    BY DEF GatesOf, Labels, ProcLabels, Outer
  <2>2. ASSUME NEW d \in Devs, ProcPeek(p, d) \/ SeqStart(p, d) PROVE FilesOK'
    BY <1>0, <1>a, <1>7, <2>1, <2>2 DEF ProcPeek, SeqStart, ProcLabels
  <2>3. CASE ProcDown(p)
    BY <1>0, <1>a, <1>7, <2>1, <2>3 DEF ProcDown, Down, ProcLabels
  <2>4. CASE ProcWalk(p)
    BY <1>0, <1>a, <1>7, <2>1, <2>4 DEF ProcWalk, Up, ProcLabels
  <2> QED  BY <1>7, <2>2, <2>3, <2>4 DEF ProcStep
<1>8. ASSUME NEW p \in Procs, kind = "priv", PrivOpen(p) PROVE FilesOK'
  <2>0. Tty[p] \in Devs
    BY <1>8, AccessAssumption DEF PrivOpen
  <2>1. PICK mode \in {"wronly", "rdwr"} : Enter(p, Tty[p], mode, "t_start")
    BY <1>8 DEF PrivOpen
  <2>2. file'[p].dev = Tty[p] /\ file'[p].mode = mode /\ \A q \in Procs : q # p => file'[q] = file[q]
    BY <1>0, <2>1 DEF Enter
  <2>3. /\ pc'[p] \in Inner \cap GatesOf(kind)
        /\ \A q \in Procs : q # p => pc'[q] = pc[q]
    BY <1>0, <1>8, <2>1 DEF Enter, Inner, GatesOf, Labels, Outer, ProcLabels
  <2>4. clones' = clones \cup {Tty[p]}
    BY <1>8 DEF PrivOpen
  <2> QED  BY <1>0, <1>a, <2>0, <2>2, <2>3, <2>4
<1> QED
  BY <1>1, <1>2, <1>3, <1>4, <1>5, <1>6, <1>7, <1>8 DEF DeviceNext, DeviceStep, InnerStep

(***************************************************************************)
(* The semaphores.                                                         *)
(***************************************************************************)
SameSems == \A d \in Devs : dev'[d].sem = dev[d].sem

(* A step in which nobody takes or gives up a semaphore.                   *)
LEMMA SemsStay ==
  ASSUME SemsOK, SameSems,
         \A q \in Procs : (Holds(q)' <=> Holds(q)) /\ (Holds(q) => Dev(q)' = Dev(q))
  PROVE  SemsOK'
BY DEF SemsOK, SameSems

(* down takes a semaphore that is free.                                    *)
LEMMA SemTaken ==
  ASSUME Types, SemsOK, NEW p \in Procs, NEW l, NEW m, Down(p, l, m),
         Dev(p) \in Devs, Holds(p)', \A q \in Procs : Dev(q)' = Dev(q),
         \A q \in Procs : q # p => (Holds(q)' <=> Holds(q))
  PROVE  SemsOK'
<1>1. /\ dev[Dev(p)].sem = 1 /\ dev'[Dev(p)].sem = 0
      /\ \A d \in Devs : d # Dev(p) => dev'[d] = dev[d]
  BY DEF Types, Devices, Down
<1>2. \A q \in Procs : Dev(q) = Dev(p) => ~Holds(q)
  BY <1>1 DEF SemsOK
<1> QED  BY <1>1, <1>2 DEF SemsOK

(* up gives back a semaphore that its holder has.                          *)
LEMMA SemGiven ==
  ASSUME Types, SemsOK, NEW p \in Procs, NEW l, NEW m, Up(p, l, m),
         Dev(p) \in Devs, Holds(p), ~Holds(p)', \A q \in Procs : q # p => Dev(q)' = Dev(q),
         \A q \in Procs : q # p => (Holds(q)' <=> Holds(q))
  PROVE  SemsOK'
<1>1. dev[Dev(p)].sem = 0
  BY DEF SemsOK, Types, Devices
<1>2. /\ dev'[Dev(p)].sem = 1
      /\ \A d \in Devs : d # Dev(p) => dev'[d] = dev[d]
  BY <1>1 DEF Types, Devices, Up
<1>3. \A q \in Procs : q # p /\ Dev(q) = Dev(p) => ~Holds(q)
  BY DEF SemsOK
<1> QED  BY <1>2, <1>3 DEF SemsOK

(* The steps on an open file other than down and up.                       *)
CallStep(p) ==
  \/ Interrupted(p) \/ ReadFollow(p) \/ ReadCopy(p)
  \/ WriteFollow(p) \/ WriteFault(p) \/ WriteCopy(p) \/ Ioctl(p) \/ TrimStart(p)
  \/ Call(p)
  \/ TrimFree(p, IF kind = "plain" THEN "o_up" ELSE "open")

(* None of these takes a semaphore or gives one back.                      *)
LEMMA CallKeepsSems ==
  ASSUME Types, NEW p \in Procs, CallStep(p), kind' = kind
  PROVE  SameSems /\ \A q \in Procs : (Holds(q)' <=> Holds(q))
<1> USE DEF SameSems, Holds, At, Go
<1>0. pc \in [Procs -> Labels] /\ dev \in [Devs -> Devices]
  BY DEF Types
<1>1. CASE Interrupted(p)
  BY <1>0, <1>1 DEF Interrupted
<1>2. CASE ReadFollow(p)
  <2>1. SameSems
    <3>1. UNCHANGED dev \/ \E data : dev' = [dev EXCEPT ![Dev(p)].data = data]
      BY <1>2 DEF ReadFollow
    <3> QED  BY <1>0, <3>1 DEF Devices
  <2>2. \E l \in {"up", "r_copy", "w_copy"} : pc' = [pc EXCEPT ![p] = l]
    BY <1>2 DEF ReadFollow
  <2>3. pc[p] \in {"r_follow", "w_follow"}
    BY <1>2 DEF ReadFollow
  <2>4. \A q \in Procs : Holds(q)' <=> Holds(q)
    BY <1>0, <2>2, <2>3
  <2> QED  BY <2>1, <2>4
<1>3. CASE ReadCopy(p)
  BY <1>0, <1>3 DEF ReadCopy
<1>4. CASE WriteFollow(p)
  <2>1. SameSems
    <3>1. \E data : dev' = [dev EXCEPT ![Dev(p)].data = data]
      BY <1>4 DEF WriteFollow
    <3> QED  BY <1>0, <3>1 DEF Devices
  <2>2. \E l \in {"up", "r_copy", "w_copy"} : pc' = [pc EXCEPT ![p] = l]
    BY <1>4 DEF WriteFollow
  <2>3. pc[p] \in {"r_follow", "w_follow"}
    BY <1>4 DEF WriteFollow
  <2>4. \A q \in Procs : Holds(q)' <=> Holds(q)
    BY <1>0, <2>2, <2>3
  <2> QED  BY <2>1, <2>4
<1>5. CASE WriteFault(p)
  BY <1>0, <1>5 DEF WriteFault
<1>6. CASE WriteCopy(p)
  <2>1. SameSems
    BY <1>0, <1>6 DEF WriteCopy, Devices
  <2>2. \A q \in Procs : (Holds(q)' <=> Holds(q))
    BY <1>0, <1>6 DEF WriteCopy
  <2> QED  BY <2>1, <2>2
<1>7. CASE Ioctl(p)
  BY <1>7 DEF Ioctl
<1>8. CASE TrimStart(p)
  BY <1>0, <1>8 DEF TrimStart
<1>9. CASE Call(p)
  BY <1>0, <1>9 DEF Call, Start, Llseek
<1>10. CASE TrimFree(p, IF kind = "plain" THEN "o_up" ELSE "open")
  BY <1>0, <1>10 DEF TrimFree, FreeList, Empty, Devices
<1> QED  BY <1>1, <1>2, <1>3, <1>4, <1>5, <1>6, <1>7, <1>8, <1>9, <1>10 DEF CallStep

(* Each device's semaphore is 1 when nobody holds it, and one process at   *)
(* most holds it.                                                          *)
LEMMA SemsStep ==
  ASSUME Types, FilesOK, SemsOK, kind' = kind, DeviceNext
  PROVE  SemsOK'
<1> USE DEF Go, At
<1>0. /\ pc \in [Procs -> Labels] /\ file \in [Procs -> Files] /\ dev \in [Devs -> Devices]
      /\ None \notin Devs
  BY DeviceAssumption DEF Types
<1>a. \A p \in Procs : Holds(p) => Dev(p) \in Devs
  BY <1>0 DEF Holds, FilesOK, Labels, Outer, ProcLabels
<1>1. CASE UNCHANGED <<deviceVars, clones>>
  BY <1>1 DEF deviceVars, SemsOK, Holds, Dev
<1>2. CASE Unload
  BY <1>2, DeviceAssumption DEF Unload, SemsOK, Holds, Dev, Empty
<1>3. ASSUME NEW p \in Procs, OuterMove(p) \/ PassesGate(p) \/ Leaves(p) PROVE SemsOK'
  <2>1. SameSems /\ ~Holds(p) /\ ~Holds(p)'
    BY <1>0, <1>3 DEF SameSems, OuterMove, PassesGate, Leaves, KeepsData, Enter, Holds, Outer
  <2>2. \A q \in Procs : q # p => (Holds(q)' <=> Holds(q)) /\ Dev(q)' = Dev(q)
    BY <1>0, <1>3 DEF OuterMove, PassesGate, Leaves, Enter, KeepsData, Holds, Dev
  <2> QED  BY <2>1, <2>2, SemsStay
<1>4. ASSUME NEW p \in Procs, InnerStep(p) PROVE SemsOK'
  <2>1. \A q \in Procs : Dev(q)' = Dev(q)
    BY <1>4, InnerStays DEF StaysInside
  <2>2. CASE CallStep(p)
    BY <2>1, <2>2, CallKeepsSems, SemsStay
  <2>3. Dev(p) \in Devs
    BY <1>4, InnerStays DEF StaysInside, FilesOK, Inner
  <2>4. CASE Enters(p)
    <3>1. Holds(p)' /\ \A q \in Procs : q # p => (Holds(q)' <=> Holds(q))
      BY <1>0, <2>4 DEF Enters, Down, Holds
    <3> QED  BY <2>1, <2>3, <2>4, <3>1, SemTaken DEF Enters
  <2>5. CASE Finish(p)
    <3>1. Holds(p) /\ ~Holds(p)' /\ \A q \in Procs : q # p => (Holds(q)' <=> Holds(q))
      BY <1>0, <2>5 DEF Finish, Up, Holds
    <3> QED  BY <2>1, <2>3, <2>5, <3>1, SemGiven DEF Finish
  <2>6. CASE kind = "plain" /\ OpenDown(p)
    <3>1. Holds(p)' /\ \A q \in Procs : q # p => (Holds(q)' <=> Holds(q))
      BY <1>0, <2>6 DEF OpenDown, Down, Holds
    <3> QED  BY <2>1, <2>3, <2>6, <3>1, SemTaken DEF OpenDown
  <2>7. CASE kind = "plain" /\ OpenUp(p)
    <3>1. Holds(p) /\ ~Holds(p)' /\ \A q \in Procs : q # p => (Holds(q)' <=> Holds(q))
      BY <1>0, <2>7 DEF OpenUp, Up, Holds
    <3> QED  BY <2>1, <2>3, <2>7, <3>1, SemGiven DEF OpenUp
  <2> QED
    BY <1>4, <2>2, <2>4, <2>5, <2>6, <2>7 DEF InnerStep, FileStep, CallStep, PlainTrim
<1>5. ASSUME NEW p \in Procs, ProcStep(p) PROVE SemsOK'
  <2>1. ASSUME NEW d \in Devs, ProcPeek(p, d) \/ SeqStart(p, d) PROVE SemsOK'
    <3>1. SameSems /\ ~Holds(p) /\ ~Holds(p)'
      BY <1>0, <2>1 DEF SameSems, ProcPeek, SeqStart, Holds
    <3>2. \A q \in Procs : q # p => (Holds(q)' <=> Holds(q)) /\ Dev(q)' = Dev(q)
      BY <1>0, <2>1 DEF ProcPeek, SeqStart, Holds, Dev
    <3> QED  BY <3>1, <3>2, SemsStay
  <2>2. CASE ProcDown(p)
    <3>1. Holds(p)' /\ \A q \in Procs : q # p => (Holds(q)' <=> Holds(q))
      BY <1>0, <2>2 DEF ProcDown, Down, Holds
    <3>2. Dev(p) \in Devs /\ \A q \in Procs : Dev(q)' = Dev(q)
      BY <2>2 DEF ProcDown, Down, FilesOK, ProcLabels, Dev
    <3> QED  BY <2>2, <3>1, <3>2, SemTaken DEF ProcDown
  <2>3. CASE ProcWalk(p)
    <3>1. Holds(p) /\ ~Holds(p)' /\ \A q \in Procs : q # p => (Holds(q)' <=> Holds(q))
      BY <1>0, <2>3 DEF ProcWalk, Up, Holds
    <3>2. Dev(p) \in Devs /\ \A q \in Procs : q # p => Dev(q)' = Dev(q)
      BY <1>0, <2>3 DEF ProcWalk, Up, FilesOK, ProcLabels, Dev
    <3> QED  BY <2>3, <3>1, <3>2, SemGiven DEF ProcWalk
  <2> QED  BY <1>5, <2>1, <2>2, <2>3 DEF ProcStep
<1>6. ASSUME NEW p \in Procs, kind = "priv", PrivOpen(p) PROVE SemsOK'
  <2>1. ~Holds(p) /\ ~Holds(p)' /\ \A q \in Procs : q # p => (Holds(q)' <=> Holds(q)) /\ Dev(q)' = Dev(q)
    BY <1>0, <1>6 DEF PrivOpen, Enter, Holds, Dev
  <2>2. CASE Tty[p] \in clones
    <3>1. SameSems
      BY <1>6, <2>2 DEF PrivOpen, SameSems
    <3> QED  BY <2>1, <3>1, SemsStay
  <2>3. CASE Tty[p] \notin clones
    <3>1. \A q \in Procs : Dev(q) # Tty[p]
      BY <1>6, <2>3 DEF FilesOK, PrivOpen
    <3>2. dev'[Tty[p]].sem = 1 /\ \A d \in Devs : d # Tty[p] => dev'[d] = dev[d]
      BY <1>0, <1>6, <2>3, AccessAssumption DEF PrivOpen, Empty
    <3>3. \A q \in Procs : Holds(q)' => Holds(q) /\ Dev(q)' = Dev(q)
      BY <2>1
    <3> QED  BY <2>1, <3>1, <3>2, <3>3 DEF SemsOK
  <2> QED  BY <2>2, <2>3
<1> QED
  BY <1>1, <1>2, <1>3, <1>4, <1>5, <1>6 DEF DeviceNext, DeviceStep, InnerStep

(* scullsingle has one process inside at most.                             *)
Alone ==
  kind = "single" =>
    \A p, q \in Procs : pc[p] \notin Outer /\ pc[q] \notin Outer => p = q

(***************************************************************************)
(* The pointers into a list.                                               *)
(***************************************************************************)
(* A trim frees what others point to -- but not in scullsingle, and in the *)
(* plain device only what a reader of /proc looks at without the semaphore.*)
LEMMA TrimRefs ==
  ASSUME Types, FilesOK, SemsOK, RefsOK, Alone, kind' = kind, NEW p \in Procs,
         NEW next \in {"open", "o_up"}, TrimFree(p, next)
  PROVE  RefsOK'
<1>0. pc \in [Procs -> Labels] /\ ref \in [Procs -> {None, "live", "freed"}]
  BY DEF Types
<1>1. /\ pc[p] = "t_free" /\ pc' = [pc EXCEPT ![p] = next] /\ UNCHANGED file
      /\ ref' = [Freed(Dev(p)) EXCEPT ![p] = None]
  BY DEF TrimFree, At, Go
<1>2. ref'[p] = None /\ pc'[p] = next
  BY <1>0, <1>1 DEF Freed
<1>3. \A q \in Procs : q # p =>
        /\ pc'[q] = pc[q]
        /\ ref'[q] = IF ref[q] = "live" /\ Dev(q) = Dev(p) THEN "freed" ELSE ref[q]
  BY <1>0, <1>1 DEF Freed
<1>4. Dev(p) \in Devs
  BY <1>1 DEF FilesOK, Outer, ProcLabels
<1>5. ASSUME NEW q \in Procs, q # p, ref[q] = "live", Dev(q) = Dev(p)
      PROVE  /\ kind # "single"
             /\ kind = "plain" => pc[q] \in ProcLabels /\ file[q].mode = "proc"
  <2>1. pc[q] \in {"t_free", "r_copy", "w_copy", "p_down", "p_walk"}
    BY <1>5 DEF RefsOK, None
  <2>2. kind # "single"
    BY <1>1, <1>5, <2>1 DEF Alone, Outer
  <2>3. ASSUME kind = "plain" PROVE pc[q] = "p_down" /\ file[q].mode = "proc"
    <3>1. Holds(p)
      BY <1>1, <2>3 DEF Holds
    <3>2. ~Holds(q)
      BY <1>4, <1>5, <3>1 DEF SemsOK
    <3>3. pc[q] = "p_down"
      BY <2>1, <2>3, <3>2 DEF Holds
    <3> QED  BY <1>5, <3>3 DEF FilesOK, RefsOK, ProcLabels, None
  <2> QED  BY <2>2, <2>3 DEF ProcLabels
<1>6. ASSUME NEW q \in Procs, q # p, ref'[q] # ref[q]
      PROVE  ref[q] = "live" /\ Dev(q) = Dev(p) /\ ref'[q] = "freed"
  BY <1>3, <1>6
<1> QED  BY <1>1, <1>2, <1>3, <1>5, <1>6 DEF RefsOK, None

(* Every other step leaves a process with a pointer where it may have one. *)
LEMMA RefsStep ==
  ASSUME Types, FilesOK, SemsOK, RefsOK, Alone, kind' = kind, DeviceNext
  PROVE  RefsOK'
<1> USE DEF Go, At, RefsOK, None
<1>0. pc \in [Procs -> Labels] /\ ref \in [Procs -> {None, "live", "freed"}] /\ file \in [Procs -> Files]
  BY DEF Types
<1>a. /\ \A p \in Procs : pc[p] \in Outer => ref[p] = None
  BY DEF Outer
<1>1. CASE UNCHANGED <<deviceVars, clones>> \/ Unload
  BY <1>0, <1>1 DEF deviceVars, Unload
<1>2. ASSUME NEW p \in Procs, OuterMove(p) \/ PassesGate(p) \/ Leaves(p) \/ (kind = "priv" /\ PrivOpen(p)) PROVE RefsOK'
  <2>1. UNCHANGED ref /\ ref[p] = None
    BY <1>a, <1>2 DEF OuterMove, PassesGate, Leaves, PrivOpen, KeepsData, Outer
  <2>2. pc'[p] \notin {"t_free", "r_copy", "w_copy", "p_down", "p_walk"}
    BY <1>0, <1>2 DEF OuterMove, PassesGate, Leaves, PrivOpen, Enter, Outer
  <2>3. \A q \in Procs : q # p => pc'[q] = pc[q] /\ file'[q] = file[q]
    BY <1>0, <1>2 DEF OuterMove, PassesGate, Leaves, PrivOpen, Enter, KeepsData
  <2> QED  BY <2>1, <2>2, <2>3
<1>3. ASSUME NEW p \in Procs, Enters(p) \/ Interrupted(p) \/ Finish(p) \/ Ioctl(p) \/ Call(p)
                                 \/ OpenDown(p) \/ OpenUp(p) PROVE RefsOK'
  <2>1. UNCHANGED ref /\ ref[p] = None
    BY <1>3 DEF Enters, Interrupted, Finish, Ioctl, Call, Start, Llseek, OpenDown, OpenUp, Down, Up
  <2>2. pc'[p] \notin {"t_free", "r_copy", "w_copy", "p_down", "p_walk"}
    BY <1>0, <1>3 DEF Enters, Interrupted, Finish, Ioctl, Call, Start, Llseek, OpenDown, OpenUp, Down, Up
  <2>3. \A q \in Procs : q # p => pc'[q] = pc[q] /\ file'[q] = file[q]
    BY <1>0, <1>3 DEF Enters, Interrupted, Finish, Ioctl, Call, Start, Llseek, OpenDown, OpenUp, Down, Up
  <2> QED  BY <2>1, <2>2, <2>3
<1>4. ASSUME NEW p \in Procs, ReadFollow(p) \/ WriteFollow(p) PROVE RefsOK'
  <2>1. /\ \A q \in Procs : q # p => pc'[q] = pc[q] /\ file'[q] = file[q] /\ ref'[q] = ref[q]
        /\ \/ pc'[p] = "up" /\ ref'[p] = ref[p] /\ ref[p] = None
           \/ pc'[p] \in {"r_copy", "w_copy"} /\ ref'[p] = "live"
    BY <1>0, <1>4 DEF ReadFollow, WriteFollow
  <2> QED  BY <2>1
<1>5. ASSUME NEW p \in Procs, ReadCopy(p) \/ WriteFault(p) \/ WriteCopy(p) PROVE RefsOK'
  <2>1. /\ \A q \in Procs : q # p => pc'[q] = pc[q] /\ file'[q] = file[q] /\ ref'[q] = ref[q]
        /\ pc'[p] = "up" /\ ref'[p] = None
    BY <1>0, <1>5 DEF ReadCopy, WriteFault, WriteCopy
  <2> QED  BY <2>1
<1>6. ASSUME NEW p \in Procs, TrimStart(p) PROVE RefsOK'
  BY <1>0, <1>6 DEF TrimStart
<1>7. ASSUME NEW p \in Procs, TrimFree(p, "open") \/ TrimFree(p, "o_up") PROVE RefsOK'
  BY <1>7, TrimRefs
<1>8. ASSUME NEW p \in Procs, kind = "plain", ProcStep(p) PROVE RefsOK'
  <2>1. ASSUME NEW d \in Devs, ProcPeek(p, d) \/ SeqStart(p, d) PROVE RefsOK'
    <3>1. ref[p] = None
      BY <2>1 DEF ProcPeek, SeqStart
    <3>2. /\ pc'[p] = "p_down"
          /\ \/ file'[p].mode = "proc" /\ ref'[p] \in {None, "live"}
             \/ file'[p].mode = "seq" /\ ref'[p] = None
      BY <1>0, <2>1, <3>1 DEF ProcPeek, SeqStart
    <3>3. \A q \in Procs : q # p => pc'[q] = pc[q] /\ file'[q] = file[q] /\ ref'[q] = ref[q]
      BY <1>0, <2>1 DEF ProcPeek, SeqStart
    <3> QED  BY <3>2, <3>3
  <2>2. CASE ProcDown(p)
    <3>1. /\ pc'[p] = "p_walk" /\ file'[p] = file[p] /\ ref'[p] \in {ref[p], "live"}
          /\ \A q \in Procs : q # p => pc'[q] = pc[q] /\ file'[q] = file[q] /\ ref'[q] = ref[q]
      BY <1>0, <2>2 DEF ProcDown, Down
    <3>2. pc[p] = "p_down"
      BY <2>2 DEF ProcDown, Down
    <3> QED  BY <3>1, <3>2 DEF ProcLabels
  <2>3. CASE ProcWalk(p)
    <3>1. /\ pc'[p] = "idle" /\ ref'[p] = None
          /\ \A q \in Procs : q # p => pc'[q] = pc[q] /\ file'[q] = file[q] /\ ref'[q] = ref[q]
      BY <1>0, <2>3 DEF ProcWalk, Up
    <3> QED  BY <3>1
  <2> QED  BY <1>8, <2>1, <2>2, <2>3 DEF ProcStep
<1> QED
  BY <1>1, <1>2, <1>3, <1>4, <1>5, <1>6, <1>7, <1>8
  DEF DeviceNext, DeviceStep, FileStep, PlainTrim

(***************************************************************************)
(* Most steps leave every list of quanta alone.                            *)
(***************************************************************************)
SameData == \A d \in Devs :
  /\ dev'[d].data = dev[d].data /\ dev'[d].size = dev[d].size
  /\ dev'[d].quantum = dev[d].quantum /\ dev'[d].qset = dev[d].qset

Elsewhere(p) == \A q \in Procs : q # p => pc'[q] = pc[q] /\ file'[q] = file[q] /\ loc'[q] = loc[q]

(* The steps that change a list, or a process's way into it.               *)
DataStep(p) ==
  \/ ReadFollow(p) \/ WriteFollow(p) \/ WriteCopy(p)
  \/ TrimFree(p, "open") \/ TrimFree(p, "o_up")
  \/ kind = "priv" /\ PrivOpen(p)

(* All the others.                                                         *)
QuietStep(p) ==
  /\ UNCHANGED <<written, mixed>> /\ SameData
  /\ \A q \in Procs : q # p => ref'[q] = ref[q]
  /\ pc'[p] \in Started => Start(p, "r_down") \/ Start(p, "w_down") \/ Enters(p)

(* Every step of a process is one of the two kinds, and leaves the others  *)
(* where they are.                                                         *)
LEMMA DataOrQuiet ==
  ASSUME Types, NEW p \in Procs, DeviceStep(p)
  PROVE  Elsewhere(p) /\ (DataStep(p) \/ QuietStep(p))
<1> USE DEF At, Go, Elsewhere, Started, CallLabels
<1>0. pc \in [Procs -> Labels] /\ dev \in [Devs -> Devices] /\ file \in [Procs -> Files]
      /\ ref \in [Procs -> {None, "live", "freed"}] /\ loc \in [Procs -> Locals]
  BY DEF Types
<1>a. ASSUME NEW l, NEW m, Down(p, l, m) \/ Up(p, l, m) PROVE SameData
  BY <1>0, <1>a DEF Down, Up, SameData, Devices
<1>b. ASSUME UNCHANGED dev PROVE SameData
  BY <1>b DEF SameData
<1>1. CASE OuterMove(p) \/ PassesGate(p) \/ Leaves(p)
  <2>1. Elsewhere(p) /\ pc'[p] \notin Started
    BY <1>0, <1>1 DEF OuterMove, PassesGate, Leaves, Enter, KeepsData, Outer
  <2> QED  BY <1>1, <1>b, <2>1 DEF OuterMove, PassesGate, Leaves, KeepsData, QuietStep
<1>2. CASE Enters(p)
  <2>1. Elsewhere(p) /\ SameData
    BY <1>0, <1>2, <1>a DEF Enters, Down
  <2> QED  BY <1>2, <2>1 DEF QuietStep, Enters
<1>3. CASE Finish(p) \/ Interrupted(p) \/ Ioctl(p) \/ TrimStart(p) \/ Llseek(p)
           \/ OpenDown(p) \/ OpenUp(p) \/ ReadCopy(p) \/ WriteFault(p)
  <2>1. SameData
    BY <1>3, <1>a, <1>b DEF Finish, Interrupted, Ioctl, TrimStart, Llseek, OpenDown, OpenUp, ReadCopy, WriteFault
  <2>2. Elsewhere(p) /\ pc'[p] \notin Started
    BY <1>0, <1>3 DEF Finish, Interrupted, Ioctl, TrimStart, Llseek, OpenDown, OpenUp, ReadCopy, WriteFault, Down, Up
  <2>3. UNCHANGED <<written, mixed>> /\ \A q \in Procs : q # p => ref'[q] = ref[q]
    BY <1>0, <1>3 DEF Finish, Interrupted, Ioctl, TrimStart, Llseek, OpenDown, OpenUp, ReadCopy, WriteFault
  <2> QED  BY <2>1, <2>2, <2>3 DEF QuietStep
<1>4. CASE Start(p, "r_down") \/ Start(p, "w_down")
  <2>1. Elsewhere(p) /\ SameData
    BY <1>0, <1>4, <1>b DEF Start
  <2> QED  BY <1>4, <2>1 DEF QuietStep, Start
<1>5. CASE ReadFollow(p) \/ WriteFollow(p)
  BY <1>0, <1>5 DEF ReadFollow, WriteFollow, DataStep
<1>6. CASE WriteCopy(p)
  BY <1>0, <1>6 DEF WriteCopy, DataStep
<1>7. CASE TrimFree(p, "open") \/ TrimFree(p, "o_up")
  BY <1>0, <1>7 DEF TrimFree, DataStep
<1>8. CASE ProcStep(p)
  <2>1. SameData
    BY <1>8, <1>a, <1>b DEF ProcStep, ProcPeek, SeqStart, ProcDown, ProcWalk
  <2>2. Elsewhere(p) /\ pc'[p] \notin Started
    BY <1>0, <1>8 DEF ProcStep, ProcPeek, SeqStart, ProcDown, ProcWalk, Down, Up
  <2>3. UNCHANGED <<written, mixed>> /\ \A q \in Procs : q # p => ref'[q] = ref[q]
    BY <1>0, <1>8 DEF ProcStep, ProcPeek, SeqStart, ProcDown, ProcWalk
  <2> QED  BY <2>1, <2>2, <2>3 DEF QuietStep
<1>9. CASE kind = "priv" /\ PrivOpen(p)
  BY <1>0, <1>9 DEF PrivOpen, Enter, DataStep
<1> QED
  BY <1>1, <1>2, <1>3, <1>4, <1>5, <1>6, <1>7, <1>8, <1>9
  DEF DeviceStep, FileStep, Call, PlainTrim

(***************************************************************************)
(* The locals of a call.                                                   *)
(***************************************************************************)
(* What ReadFollow and WriteFollow find has room for the count they set.   *)
LEMMA FollowLocs ==
  ASSUME Types, FilesOK, LocsOK, NEW p \in Procs, ReadFollow(p) \/ WriteFollow(p)
  PROVE  \/ pc'[p] = "up"
         \/ /\ pc'[p] \in {"r_copy", "w_copy"} /\ loc'[p] \in Locals
            /\ loc'[p].quantum = loc[p].quantum /\ loc'[p].qset = loc[p].qset
            /\ loc'[p].count > 0 /\ file[p].pos + loc'[p].count <= MaxPos
            /\ Place(file[p].pos, loc[p]).q_pos + loc'[p].count <= loc[p].quantum
<1> DEFINE at == Place(file[p].pos, loc[p])
           q == loc[p].quantum
           c == loc[p].count
           pos == file[p].pos
           size == dev[Dev(p)].size
<1>0. /\ pc \in [Procs -> Labels] /\ loc \in [Procs -> Locals] /\ MaxPos \in Nat
      /\ loc[p] \in Locals /\ pos \in Nat /\ pos <= MaxPos /\ c \in Nat /\ q \in Nat
  BY DeviceAssumption DEF Types, Locals, Files
<1>1. pc[p] \in {"r_follow", "w_follow"}
  BY DEF ReadFollow, WriteFollow, At
<1>a. c > 0
  BY <1>1 DEF LocsOK, Started, CallLabels
<1>2. size \in Nat /\ size <= MaxPos
  BY <1>1 DEF Types, Devices, FilesOK, Outer, ProcLabels
<1>3. at.q_pos \in 0 .. q - 1
  <2>1. loc[p].quantum \in Nat \ {0} /\ loc[p].qset \in Nat \ {0}
    BY <1>0, <1>1 DEF LocsOK, Started, CallLabels, Locals
  <2> QED  BY <1>0, <2>1, PlaceIs
<1>4. CASE ReadFollow(p)
  <2>1. pos < size => Least(Least(c, size - pos), q - at.q_pos) \in Nat \ {0}
    BY <1>0, <1>a, <1>2, <1>3 DEF Least
  <2>2. pos < size => /\ pos + Least(Least(c, size - pos), q - at.q_pos) <= MaxPos
                      /\ at.q_pos + Least(Least(c, size - pos), q - at.q_pos) <= q
    BY <1>0, <1>2, <1>3 DEF Least
  <2>3. \/ pc'[p] = "up"
        \/ /\ pc'[p] = "r_copy" /\ pos < size
           /\ loc' = [loc EXCEPT ![p].count = Least(Least(c, size - pos), q - at.q_pos)]
    BY <1>0, <1>4 DEF ReadFollow, Go
  <2> HIDE DEF at, q, c, pos, size
  <2>4. CASE pc'[p] # "up"
    <3> DEFINE n == Least(Least(c, size - pos), q - at.q_pos)
    <3>1. n \in Nat \ {0} /\ loc' = [loc EXCEPT ![p].count = n] /\ pos + n <= MaxPos /\ at.q_pos + n <= q
      BY <2>1, <2>2, <2>3, <2>4
    <3> HIDE DEF n
    <3>2. loc'[p] \in Locals /\ loc'[p].count = n
          /\ loc'[p].quantum = loc[p].quantum /\ loc'[p].qset = loc[p].qset
      BY <1>0, <3>1 DEF Locals
    <3> QED  BY <2>3, <2>4, <3>1, <3>2 DEF pos, at, q
  <2> QED  BY <2>4
<1>5. CASE WriteFollow(p)
  <2>0. pos < MaxPos
    BY <1>5 DEF LocsOK, WriteFollow, At
  <2>1. Clamp(p, at) = Least(Least(c, MaxPos - pos), q - at.q_pos)
    BY DEF Clamp
  <2>2. /\ Clamp(p, at) \in Nat \ {0}
        /\ pos + Clamp(p, at) <= MaxPos /\ at.q_pos + Clamp(p, at) <= q
    BY <1>0, <1>a, <1>3, <2>0, <2>1 DEF Least
  <2>3. \/ pc'[p] = "up"
        \/ /\ pc'[p] = "w_copy"
           /\ loc' = [loc EXCEPT ![p].count = Clamp(p, at)]
    BY <1>0, <1>5 DEF WriteFollow, Go
  <2> HIDE DEF at, q, c, pos, size
  <2>4. CASE pc'[p] # "up"
    <3> DEFINE n == Clamp(p, at)
    <3>1. n \in Nat \ {0} /\ loc' = [loc EXCEPT ![p].count = n] /\ pos + n <= MaxPos /\ at.q_pos + n <= q
      BY <2>2, <2>3, <2>4
    <3> HIDE DEF n
    <3>2. loc'[p] \in Locals /\ loc'[p].count = n
          /\ loc'[p].quantum = loc[p].quantum /\ loc'[p].qset = loc[p].qset
      BY <1>0, <3>1 DEF Locals
    <3> QED  BY <2>3, <2>4, <3>1, <3>2 DEF pos, at, q
  <2> QED  BY <2>4
<1> QED  BY <1>4, <1>5

(* Where a position lies depends on the quantum and the quantum set only.  *)
LEMMA PlaceSame ==
  ASSUME NEW pos, NEW l, NEW m, l.quantum = m.quantum, l.qset = m.qset
  PROVE  Place(pos, l) = Place(pos, m)
BY DEF Place

(* The locals of a call are set by Start and shortened by the follow, so   *)
(* that a copy ends inside its quantum and below the bound.                *)
LEMMA LocsStep ==
  ASSUME Types, FilesOK, LocsOK, DeviceNext
  PROVE  LocsOK'
<1> USE DEF At, Go
<1>0. pc \in [Procs -> Labels] /\ dev \in [Devs -> Devices] /\ file \in [Procs -> Files]
      /\ loc \in [Procs -> Locals]
  BY DEF Types
<1>1. CASE UNCHANGED <<deviceVars, clones>> \/ Unload
  BY <1>1 DEF deviceVars, Unload, LocsOK
<1>2. ASSUME NEW p \in Procs, DeviceStep(p) PROVE LocsOK'
  <2>0. Elsewhere(p)
    BY <1>2, DataOrQuiet
  <2>a. ASSUME pc'[p] \notin Started PROVE LocsOK'
    BY <2>0, <2>a DEF Elsewhere, LocsOK, Started, CallLabels
  <2>1. CASE QuietStep(p)
    <3>1. CASE Start(p, "r_down") \/ Start(p, "w_down")
      <4>1. Dev(p) \in Devs
        BY <3>1 DEF Start, FilesOK, Outer, ProcLabels
      <4>2. \E n \in Counts : loc'[p] = [quantum |-> dev[Dev(p)].quantum,
                                         qset |-> dev[Dev(p)].qset, count |-> n]
        BY <1>0, <3>1 DEF Start
      <4>3. loc'[p].quantum > 0 /\ loc'[p].qset > 0 /\ loc'[p].count > 0
        BY <1>0, <4>1, <4>2, DeviceAssumption DEF Devices
      <4>4. pc'[p] \in {"r_down", "w_down"} /\ file'[p] = file[p] /\ (pc'[p] = "w_down" => file[p].pos < MaxPos)
        BY <1>0, <3>1 DEF Start
      <4> QED  BY <2>0, <4>3, <4>4 DEF LocsOK, Elsewhere
    <3>2. CASE Enters(p)
      <4>1. /\ loc' = loc /\ file' = file
            /\ \/ pc[p] = "r_down" /\ pc'[p] = "r_follow"
               \/ pc[p] = "w_down" /\ pc'[p] = "w_follow"
        BY <1>0, <3>2 DEF Enters, Down
      <4> QED  BY <2>0, <4>1 DEF LocsOK, Elsewhere, Started, CallLabels
    <3> QED  BY <2>1, <2>a, <3>1, <3>2 DEF QuietStep
  <2>2. CASE ReadFollow(p) \/ WriteFollow(p)
    <3>1. CASE pc'[p] = "up"
      BY <2>a, <3>1 DEF Started
    <3>2. CASE pc'[p] # "up"
      <4>1. /\ pc'[p] \in {"r_copy", "w_copy"} /\ file' = file
            /\ loc'[p].quantum = loc[p].quantum /\ loc'[p].qset = loc[p].qset
            /\ loc'[p].count > 0 /\ file[p].pos + loc'[p].count <= MaxPos
            /\ Place(file[p].pos, loc[p]).q_pos + loc'[p].count <= loc[p].quantum
        BY <2>2, <3>2, FollowLocs DEF ReadFollow, WriteFollow
      <4>2. Place(file[p].pos, loc'[p]) = Place(file[p].pos, loc[p])
        BY <4>1, PlaceSame
      <4>3. loc[p].quantum > 0 /\ loc[p].qset > 0
        BY <2>2 DEF ReadFollow, WriteFollow, LocsOK, Started, CallLabels
      <4> QED  BY <2>0, <4>1, <4>2, <4>3 DEF LocsOK, Elsewhere
    <3> QED  BY <3>1, <3>2
  <2>3. CASE WriteCopy(p) \/ TrimFree(p, "open") \/ TrimFree(p, "o_up") \/ (kind = "priv" /\ PrivOpen(p))
    <3>1. pc'[p] \notin Started
      BY <1>0, <2>3 DEF WriteCopy, TrimFree, PrivOpen, Enter, Started, CallLabels
    <3> QED  BY <2>a, <3>1
  <2> QED  BY <1>2, <2>1, <2>2, <2>3, DataOrQuiet DEF DataStep
<1> QED  BY <1>1, <1>2 DEF DeviceNext

(***************************************************************************)
(* Types.                                                                  *)
(***************************************************************************)
(* The device after a trim.                                                *)
LEMMA EmptyType ==
  ASSUME params \in Params
  PROVE  /\ Empty(params) \in Devices
         /\ \A s \in {0, 1} : [Empty(params) EXCEPT !.sem = s] \in Devices
<1>1. params[1] \in Nat \ {0} /\ params[2] \in Nat \ {0}
  BY DeviceAssumption
<1>2. <<>> \in Bytes
  BY EmptySeq DEF Bytes
<1>3. 0 \in 0 .. MaxPos
  BY DeviceAssumption
<1> QED  BY <1>1, <1>2, <1>3 DEF Empty, Devices

(* A place in a typed list is typed, whether it has been reached or not.   *)
LEMMA AtPlace ==
  ASSUME Types, FilesOK, LocsOK, NEW p \in Procs, pc[p] \in Started
  PROVE  LET at == Place(file[p].pos, loc[p])
         IN  /\ Dev(p) \in Devs /\ dev[Dev(p)] \in Devices /\ file[p].pos \in Nat /\ loc[p] \in Locals
             /\ loc[p].quantum \in Nat \ {0} /\ loc[p].qset \in Nat \ {0}
             /\ at.item \in Nat /\ at.s_pos \in 0 .. loc[p].qset - 1 /\ at.q_pos \in 0 .. loc[p].quantum - 1
<1>1. Dev(p) \in Devs /\ dev[Dev(p)] \in Devices /\ file[p].pos \in Nat
  BY DEF Types, FilesOK, Started, CallLabels, Outer, ProcLabels, Files
<1>2. loc[p].quantum \in Nat \ {0} /\ loc[p].qset \in Nat \ {0} /\ loc[p] \in Locals
  BY DEF Types, LocsOK, Locals
<1> QED  BY <1>1, <1>2, PlaceIs

(* The quantum that a copy works on.                                       *)
LEMMA QuantumType ==
  ASSUME Types, FilesOK, LocsOK, NEW p \in Procs, pc[p] \in Started
  PROVE  Quantum(p) \in Seq(Int)
<1> DEFINE at == Place(file[p].pos, loc[p])
           data == dev[Dev(p)].data
<1>1. data \in Seq(Seq(Seq(Int))) /\ Len(data) \in Nat /\ at.item \in Nat /\ at.s_pos \in Nat
  BY AtPlace, LenProperties DEF Devices, Bytes
<1>2. CASE Reached(data, at) /\ at.s_pos < Len(data[at.item + 1])
  <2>1. at.item + 1 \in 1 .. Len(data)
    BY <1>1, <1>2 DEF Reached
  <2>2. data[at.item + 1] \in Seq(Seq(Int))
    BY <1>1, <2>1, ElementOfSeq
  <2>3. Len(data[at.item + 1]) \in Nat
    BY <2>2, LenProperties
  <2>4. at.s_pos + 1 \in 1 .. Len(data[at.item + 1])
    BY <1>1, <1>2, <2>3
  <2>5. data[at.item + 1][at.s_pos + 1] \in Seq(Int)
    BY <2>2, <2>4, ElementOfSeq
  <2> QED  BY <1>2, <2>5 DEF Quantum
<1>3. CASE ~(Reached(data, at) /\ at.s_pos < Len(data[at.item + 1]))
  <2>1. Quantum(p) = <<>>
    BY <1>3 DEF Quantum
  <2> QED  BY <2>1, EmptySeq
<1> QED  BY <1>2, <1>3

(* What scull_read leaves of the list.                                     *)
LEMMA ReadFollowType ==
  ASSUME Types, FilesOK, LocsOK, NEW p \in Procs, ReadFollow(p)
  PROVE  dev' \in [Devs -> Devices]
<1>1. pc[p] \in Started
  BY DEF ReadFollow, At, Started, CallLabels
<1>2. /\ dev \in [Devs -> Devices] /\ Dev(p) \in Devs /\ dev[Dev(p)].data \in Bytes
      /\ Place(file[p].pos, loc[p]).item \in Nat
  BY <1>1, AtPlace DEF Types, Devices
<1>3. \/ UNCHANGED dev
      \/ \E data \in Follow(dev[Dev(p)].data, Place(file[p].pos, loc[p]).item) :
           dev' = [dev EXCEPT ![Dev(p)].data = data]
  BY DEF ReadFollow
<1>4. \A data \in Follow(dev[Dev(p)].data, Place(file[p].pos, loc[p]).item) : data \in Bytes
  BY <1>2, FollowIs
<1> QED  BY <1>2, <1>3, <1>4 DEF Devices

(* What scull_write makes of the list before it copies.                    *)
LEMMA WriteFollowType ==
  ASSUME Types, FilesOK, LocsOK, NEW p \in Procs, WriteFollow(p)
  PROVE  dev' \in [Devs -> Devices]
<1> DEFINE at == Place(file[p].pos, loc[p])
<1>1. pc[p] \in Started
  BY DEF WriteFollow, At, Started, CallLabels
<1>2. /\ dev \in [Devs -> Devices] /\ Dev(p) \in Devs /\ dev[Dev(p)].data \in Bytes
      /\ at.item \in Nat /\ at.s_pos \in Nat
      /\ loc[p].quantum \in Nat \ {0} /\ loc[p].qset \in Nat \ {0}
  BY <1>1, AtPlace DEF Types, Devices
<1>3. PICK data \in Follow(dev[Dev(p)].data, at.item) :
        \/ \E left \in Failed(data, at, loc[p]) : dev' = [dev EXCEPT ![Dev(p)].data = left]
        \/ /\ Reached(data, at)
           /\ dev' = [dev EXCEPT ![Dev(p)].data =
                        [data EXCEPT ![at.item + 1] = Grown(data[at.item + 1], at, loc[p])]]
  BY DEF WriteFollow
<1>4. data \in Seq(Seq(Seq(Int))) /\ data \in Bytes /\ Len(data) \in Nat
  BY <1>2, FollowIs, LenProperties DEF Bytes
<1> HIDE DEF at
<1>a. \A left \in Failed(data, at, loc[p]) : left \in Bytes
  BY <1>2, <1>4, FailedIs
<1>5. ASSUME Reached(data, at)
      PROVE  [data EXCEPT ![at.item + 1] = Grown(data[at.item + 1], at, loc[p])] \in Bytes
  <2> DEFINE i == at.item + 1
             set == data[i]
             g == Grown(set, at, loc[p])
  <2>1. i \in 1 .. Len(data)
    BY <1>2, <1>4, <1>5 DEF Reached
  <2> HIDE DEF i
  <2>2. set \in Seq(Seq(Int))
    BY <1>4, <2>1, ElementOfSeq
  <2> HIDE DEF set
  <2>3. g \in Seq(Seq(Int))
    BY <1>2, <2>2, GrownIs
  <2> HIDE DEF g
  <2>4. [data EXCEPT ![i] = g] \in Seq(Seq(Seq(Int)))
    BY <1>4, <2>1, <2>3, ExceptSeq
  <2> QED  BY <2>4 DEF Bytes, i, g, set
<1>6. \E new \in Bytes : dev' = [dev EXCEPT ![Dev(p)].data = new]
  BY <1>3, <1>a, <1>5
<1> QED  BY <1>2, <1>6 DEF Devices

(* A call between its bounds.                                              *)
LEMMA CopyBounds ==
  ASSUME Types, FilesOK, LocsOK, NEW p \in Procs, pc[p] \in {"r_copy", "w_copy"}
  PROVE  /\ file[p].pos \in Nat /\ loc[p].count \in Nat
         /\ file[p].pos + loc[p].count \in 0 .. MaxPos
         /\ file[p].pos .. file[p].pos + loc[p].count - 1 \subseteq 0 .. MaxPos - 1
<1>1. file[p].pos \in Nat /\ loc[p].count \in Nat /\ MaxPos \in Nat
  BY DeviceAssumption DEF Types, Files, Locals
<1>2. file[p].pos + loc[p].count <= MaxPos
  BY DEF LocsOK
<1> QED  BY <1>1, <1>2

(* The quantum after the copy of a write, and whether the copy reaches it. *)
Patched(p) ==
  LET at == Place(file[p].pos, loc[p])
  IN  [k \in 1 .. Len(Quantum(p)) |->
         IF k - 1 \in at.q_pos .. at.q_pos + loc[p].count - 1
         THEN file[p].pos + k - 1 - at.q_pos ELSE Quantum(p)[k]]

Lands(p) == ref[p] = "live" /\ Within(p)

(* A call that has found its quantum: where in the list that is.           *)
LEMMA QuantumIs ==
  ASSUME Types, FilesOK, LocsOK, NEW p \in Procs, pc[p] \in Started, Quantum(p) # <<>>
  PROVE  LET at == Place(file[p].pos, loc[p])
             data == dev[Dev(p)].data
         IN  /\ at.item + 1 \in 1 .. Len(data) /\ Reached(data, at)
             /\ data[at.item + 1] \in Seq(Seq(Int))
             /\ at.s_pos + 1 \in 1 .. Len(data[at.item + 1]) /\ at.s_pos < Len(data[at.item + 1])
             /\ Quantum(p) = data[at.item + 1][at.s_pos + 1]
<1> DEFINE at == Place(file[p].pos, loc[p])
           data == dev[Dev(p)].data
<1>1. data \in Seq(Seq(Seq(Int))) /\ Len(data) \in Nat /\ at.item \in Nat /\ at.s_pos \in Nat
  BY AtPlace, LenProperties DEF Devices, Bytes
<1>2. Reached(data, at) /\ at.s_pos < Len(data[at.item + 1]) /\ Quantum(p) = data[at.item + 1][at.s_pos + 1]
  BY DEF Quantum
<1> HIDE DEF at, data
<1>3. at.item + 1 \in 1 .. Len(data)
  BY <1>1, <1>2 DEF Reached
<1>4. data[at.item + 1] \in Seq(Seq(Int)) /\ Len(data[at.item + 1]) \in Nat
  <2>1. data[at.item + 1] \in Seq(Seq(Int))
    BY <1>1, <1>3, ElementOfSeq
  <2> QED  BY <2>1, LenProperties
<1>5. at.s_pos + 1 \in 1 .. Len(data[at.item + 1])
  BY <1>1, <1>2, <1>4
<1> QED  BY <1>2, <1>3, <1>4, <1>5 DEF at, data

(* What a write does to the list of its device.                            *)
LEMMA WriteCopyIs ==
  ASSUME Types, FilesOK, LocsOK, NEW p \in Procs, WriteCopy(p)
  PROVE  LET d == Dev(p)
             D == dev[d]
             i == Place(file[p].pos, loc[p]).item + 1
             j == Place(file[p].pos, loc[p]).s_pos + 1
             end == file[p].pos + loc[p].count
         IN  \E data \in Bytes :
               /\ dev' = [dev EXCEPT ![d] = [D EXCEPT !.data = data,
                                                      !.size = IF D.size < end THEN end ELSE D.size]]
               /\ data = IF Lands(p) THEN [D.data EXCEPT ![i] = [@ EXCEPT ![j] = Patched(p)]] ELSE D.data
               /\ Lands(p) => Quantum(p) # <<>>
<1> DEFINE d == Dev(p)
           D == dev[d]
           i == Place(file[p].pos, loc[p]).item + 1
           j == Place(file[p].pos, loc[p]).s_pos + 1
           end == file[p].pos + loc[p].count
           size == IF D.size < end THEN end ELSE D.size
<1>1. pc[p] \in Started /\ pc[p] = "w_copy"
  BY DEF WriteCopy, At, Started, CallLabels
<1>2. D \in Devices /\ dev \in [Devs -> Devices] /\ d \in Devs
  BY <1>1, AtPlace DEF Types
<1>3. CASE ~Lands(p)
  <2>1. dev' = [dev EXCEPT ![d].size = size]
    BY <1>3 DEF WriteCopy, Lands
  <2>2. dev' = [dev EXCEPT ![d] = [D EXCEPT !.data = D.data, !.size = size]]
    BY <1>2, <2>1 DEF Devices
  <2> QED  BY <1>2, <1>3, <2>2 DEF Devices
<1>4. CASE Lands(p)
  <2>1. Quantum(p) # <<>>
    <3>1. /\ Place(file[p].pos, loc[p]).q_pos \in Nat /\ loc[p].count \in Nat \ {0}
          /\ Place(file[p].pos, loc[p]).q_pos + loc[p].count <= Len(Quantum(p))
      BY <1>1, <1>4, AtPlace, CopyBounds DEF Lands, Within, LocsOK
    <3> QED  BY <3>1, EmptySeq
  <2>2. /\ i \in 1 .. Len(D.data) /\ D.data[i] \in Seq(Seq(Int))
        /\ j \in 1 .. Len(D.data[i]) /\ Quantum(p) = D.data[i][j]
    BY <1>1, <2>1, QuantumIs
  <2> DEFINE new == Patched(p)
             data == [D.data EXCEPT ![i] = [@ EXCEPT ![j] = new]]
  <2>3. dev' = [dev EXCEPT ![d].size = size, ![d].data[i][j] = new]
    BY <1>4 DEF WriteCopy, Lands, Patched
  <2>4. new \in Seq(Int)
    <3>1. Quantum(p) \in Seq(Int) /\ Len(Quantum(p)) \in Nat
      BY <1>1, QuantumType, LenProperties
    <3>2. file[p].pos \in Int /\ Place(file[p].pos, loc[p]).q_pos \in Int
      BY <1>1, AtPlace
    <3>3. \A k \in 1 .. Len(Quantum(p)) : Quantum(p)[k] \in Int
      BY <3>1, ElementOfSeq
    <3>4. new \in [1 .. Len(Quantum(p)) -> Int]
      BY <3>1, <3>2, <3>3 DEF Patched
    <3> QED  BY <3>1, <3>4, SeqDef
  <2> HIDE DEF new, i, j, size
  <2>5. [D.data[i] EXCEPT ![j] = new] \in Seq(Seq(Int))
    BY <2>2, <2>4, ExceptSeq
  <2>6. D.data \in Seq(Seq(Seq(Int)))
    BY <1>2 DEF Devices, Bytes
  <2>7. data \in Bytes
    <3> DEFINE set == [D.data[i] EXCEPT ![j] = new]
    <3>1. data = [D.data EXCEPT ![i] = set]
      OBVIOUS
    <3> HIDE DEF set, data, D
    <3>2. [D.data EXCEPT ![i] = set] \in Seq(Seq(Seq(Int)))
      BY <2>2, <2>5, <2>6, ExceptSeq DEF set
    <3> QED  BY <3>1, <3>2 DEF Bytes
  <2>8. dev' = [dev EXCEPT ![d] = [D EXCEPT !.data = data, !.size = size]]
    BY <1>2, <2>3 DEF Devices
  <2> QED  BY <1>4, <2>1, <2>7, <2>8 DEF i, j, size, new
<1> QED  BY <1>3, <1>4

(* What scull_write's copy does to the types.                              *)
LEMMA WriteCopyType ==
  ASSUME Types, FilesOK, LocsOK, NEW p \in Procs, WriteCopy(p)
  PROVE  /\ dev' \in [Devs -> Devices] /\ file' \in [Procs -> Files]
         /\ written' \in [Devs -> SUBSET (0 .. MaxPos - 1)]
<1>0. pc[p] \in {"r_copy", "w_copy"} /\ pc[p] \in Started
  BY DEF WriteCopy, At, Started, CallLabels
<1> DEFINE pos == file[p].pos
           n == loc[p].count
<1>1. pos \in Nat /\ n \in Nat /\ pos + n \in 0 .. MaxPos /\ pos .. pos + n - 1 \subseteq 0 .. MaxPos - 1
  BY <1>0, CopyBounds
<1>2. /\ file' = [file EXCEPT ![p].pos = pos + n]
      /\ \/ UNCHANGED written
         \/ written' = [written EXCEPT ![Dev(p)] = @ \cup (pos .. pos + n - 1)]
  BY DEF WriteCopy
<1>3. dev \in [Devs -> Devices] /\ Dev(p) \in Devs
  BY <1>0, AtPlace DEF Types
<1>4. dev' \in [Devs -> Devices]
  <2>1. PICK data \in Bytes, size \in 0 .. MaxPos :
          dev' = [dev EXCEPT ![Dev(p)] = [dev[Dev(p)] EXCEPT !.data = data, !.size = size]]
    <3>1. dev[Dev(p)].size \in 0 .. MaxPos
      BY <1>3 DEF Devices
    <3>2. (IF dev[Dev(p)].size < pos + n THEN pos + n ELSE dev[Dev(p)].size) \in 0 .. MaxPos
      BY <1>1, <3>1
    <3> QED  BY <3>2, WriteCopyIs
  <2>2. [dev[Dev(p)] EXCEPT !.data = data, !.size = size] \in Devices
    BY <1>3 DEF Devices
  <2> QED  BY <1>3, <2>1, <2>2
<1> HIDE DEF pos, n
<1>5. file' \in [Procs -> Files]
  BY <1>1, <1>2 DEF Types, Files
<1>6. written' \in [Devs -> SUBSET (0 .. MaxPos - 1)]
  BY <1>1, <1>2, <1>3 DEF Types
<1> QED  BY <1>4, <1>5, <1>6

(* Every step keeps the types of the device and of the open files.         *)
LEMMA TypesStep ==
  ASSUME Types, FilesOK, SemsOK, LocsOK, kind' = kind, DeviceNext
  PROVE  Types'
<1> USE DEF At, Go
<1>0. /\ params \in Params /\ kind \in Kinds /\ dev \in [Devs -> Devices]
      /\ written \in [Devs -> SUBSET (0 .. MaxPos - 1)] /\ pc \in [Procs -> Labels]
      /\ file \in [Procs -> Files] /\ ref \in [Procs -> {None, "live", "freed"}]
      /\ loc \in [Procs -> Locals] /\ mixed \subseteq Devs /\ clones \subseteq Devs
  BY DEF Types
<1>a. 0 \in 0 .. MaxPos /\ {} \subseteq 0 .. MaxPos - 1 /\ NoFile \in Files
  BY DeviceAssumption DEF NoFile, Files
<1>b. NoLocals \in Locals
  BY DEF NoLocals, Locals
<1>1. CASE UNCHANGED <<deviceVars, clones>>
  BY <1>0, <1>1 DEF deviceVars, Types
<1>2. CASE Unload /\ clones' = {}
  BY <1>0, <1>a, <1>2, EmptyType DEF Unload, Types
<1>3. ASSUME NEW p \in Procs, OuterMove(p) PROVE Types'
  BY <1>0, <1>3 DEF OuterMove, KeepsData, Types, GatesOf
<1>4. ASSUME NEW p \in Procs, PassesGate(p) PROVE Types'
  <2>1. PICK d \in Devs, mode \in {"wronly", "rdwr"} :
          Enter(p, d, mode, IF kind = "plain" THEN "o_down" ELSE "t_start")
    BY <1>4 DEF PassesGate
  <2>2. file' \in [Procs -> Files]
    BY <1>0, <1>a, <2>1 DEF Enter, Files
  <2>3. pc' \in [Procs -> Labels]
    BY <1>0, <2>1 DEF Enter, Labels
  <2> QED  BY <1>0, <1>4, <2>2, <2>3 DEF PassesGate, KeepsData, Types
<1>5. ASSUME NEW p \in Procs, Leaves(p) PROVE Types'
  BY <1>0, <1>a, <1>5 DEF Leaves, KeepsData, Types, GatesOf
<1>6. ASSUME NEW p \in Procs, InnerStep(p), UNCHANGED clones PROVE Types'
  <2>0. pc' \in [Procs -> Labels] /\ Dev(p) \in Devs
    <3>1. StaysInside(p)
      BY <1>6, InnerStays
    <3>2. Dev(p) \in Devs
      BY <3>1 DEF StaysInside, Inner, FilesOK
    <3>3. PICK l \in Inner : pc' = [pc EXCEPT ![p] = l]
      BY <3>1 DEF StaysInside
    <3>4. l \in Labels
      BY DEF Inner
    <3> QED  BY <1>0, <3>2, <3>3, <3>4
  <2>1. CASE Enters(p) \/ OpenDown(p)
    <3>1. dev[Dev(p)].sem = 1 /\ dev' = [dev EXCEPT ![Dev(p)].sem = @ - 1]
      BY <1>0, <2>0, <2>1 DEF Enters, OpenDown, Down, Devices
    <3>2. dev' \in [Devs -> Devices]
      BY <1>0, <2>0, <3>1 DEF Devices
    <3> QED  BY <1>0, <1>6, <2>0, <2>1, <3>2 DEF Types, Enters, OpenDown
  <2>2. CASE Finish(p) \/ OpenUp(p)
    <3>1. dev' = [dev EXCEPT ![Dev(p)].sem = @ + 1] /\ Holds(p)
      BY <2>2 DEF Finish, OpenUp, Up, Holds
    <3>2. dev[Dev(p)].sem = 0
      BY <1>0, <2>0, <3>1 DEF SemsOK, Devices
    <3>3. dev' \in [Devs -> Devices]
      BY <1>0, <2>0, <3>1, <3>2 DEF Devices
    <3> QED  BY <1>0, <1>b, <1>6, <2>0, <2>2, <3>3 DEF Types, Finish, OpenUp
  <2>3. CASE Interrupted(p) \/ Ioctl(p) \/ TrimStart(p)
    <3>1. params' \in Params
      BY <1>0, <2>3, DeviceAssumption DEF Types, Interrupted, Ioctl, TrimStart
    <3> QED  BY <1>0, <1>b, <1>6, <2>0, <2>3, <3>1 DEF Types, Interrupted, Ioctl, TrimStart
  <2>4. CASE ReadFollow(p) \/ WriteFollow(p)
    <3>1. dev' \in [Devs -> Devices]
      BY <2>4, ReadFollowType, WriteFollowType
    <3>2. loc' \in [Procs -> Locals]
      <4>1. Elsewhere(p)
        BY <1>0, <2>4 DEF Elsewhere, ReadFollow, WriteFollow
      <4>2. loc' = loc \/ \E n : loc' = [loc EXCEPT ![p].count = n]
        BY <2>4 DEF ReadFollow, WriteFollow
      <4>3. pc'[p] = "up" => loc' = loc
        BY <1>0, <2>4 DEF ReadFollow, WriteFollow
      <4>4. loc'[p] \in Locals
        BY <1>0, <2>4, <4>3, FollowLocs
      <4>5. DOMAIN loc' = Procs /\ loc' = [q \in Procs |-> loc'[q]]
        BY <1>0, <4>2
      <4>6. \A q \in Procs : loc'[q] \in Locals
        BY <1>0, <4>1, <4>4 DEF Elsewhere
      <4> QED  BY <4>5, <4>6
    <3>3. mixed' \subseteq Devs
      BY <1>0, <2>0, <2>4 DEF ReadFollow, WriteFollow, Stale
    <3>4. ref' \in [Procs -> {None, "live", "freed"}]
      BY <1>0, <2>4 DEF ReadFollow, WriteFollow
    <3> QED  BY <1>0, <1>6, <2>0, <2>4, <3>1, <3>2, <3>3, <3>4 DEF Types, ReadFollow, WriteFollow
  <2>5. CASE ReadCopy(p)
    <3>1. \E n \in 0 .. MaxPos : file' = [file EXCEPT ![p].pos = n]
      <4>1. file[p].pos + loc[p].count \in 0 .. MaxPos /\ file[p].pos \in 0 .. MaxPos
        BY <1>0, <2>5, CopyBounds DEF ReadCopy, Files
      <4>2. \E fault \in BOOLEAN :
              file' = [file EXCEPT ![p].pos = IF fault THEN file[p].pos ELSE file[p].pos + loc[p].count]
        BY <2>5 DEF ReadCopy
      <4> QED  BY <4>1, <4>2
    <3>2. file' \in [Procs -> Files]
      BY <1>0, <3>1 DEF Files
    <3> QED  BY <1>0, <1>6, <2>0, <2>5, <3>2 DEF Types, ReadCopy
  <2>6. CASE WriteFault(p)
    BY <1>0, <1>6, <2>0, <2>6 DEF Types, WriteFault
  <2>7. CASE WriteCopy(p)
    BY <1>0, <1>6, <2>0, <2>7, WriteCopyType DEF Types, WriteCopy
  <2>8. CASE Llseek(p)
    <3>1. file' \in [Procs -> Files]
      BY <1>0, <2>8 DEF Llseek, Files
    <3> QED  BY <1>0, <1>6, <2>0, <2>8, <3>1 DEF Types, Llseek
  <2>9. CASE Start(p, "r_down") \/ Start(p, "w_down")
    <3>1. PICK n \in Counts : loc' = [loc EXCEPT ![p] = [quantum |-> dev[Dev(p)].quantum,
                                                        qset |-> dev[Dev(p)].qset, count |-> n]]
      BY <2>9 DEF Start
    <3>2. loc' \in [Procs -> Locals]
      BY <1>0, <2>0, <3>1, DeviceAssumption DEF Locals, Devices
    <3> QED  BY <1>0, <1>6, <2>0, <2>9, <3>2 DEF Types, Start
  <2>10. CASE TrimFree(p, "open") \/ TrimFree(p, "o_up")
    <3>1. dev' \in [Devs -> Devices]
      <4>1. dev[Dev(p)].sem \in {0, 1}
        BY <1>0, <2>0 DEF Devices
      <4> QED  BY <1>0, <2>0, <2>10, <4>1, EmptyType DEF TrimFree, FreeList
    <3>2. ref' \in [Procs -> {None, "live", "freed"}]
      BY <1>0, <2>10 DEF TrimFree, Freed
    <3> QED  BY <1>0, <1>a, <1>6, <2>0, <2>10, <3>1, <3>2 DEF Types, TrimFree
  <2> QED
    BY <1>6, <2>1, <2>2, <2>3, <2>4, <2>5, <2>6, <2>7, <2>8, <2>9, <2>10
    DEF InnerStep, FileStep, Call, PlainTrim
<1>7. ASSUME NEW p \in Procs, ProcStep(p), UNCHANGED clones PROVE Types'
  <2>1. ASSUME NEW d \in Devs, ProcPeek(p, d) \/ SeqStart(p, d) PROVE Types'
    <3>1. file' \in [Procs -> Files]
      <4>1. PICK m \in {"proc", "seq"} : file' = [file EXCEPT ![p] = [dev |-> d, mode |-> m, pos |-> 0]]
        BY <2>1 DEF ProcPeek, SeqStart
      <4>2. [dev |-> d, mode |-> m, pos |-> 0] \in Files
        BY <1>a DEF Files
      <4> QED  BY <1>0, <4>1, <4>2
    <3>2. pc' \in [Procs -> Labels]
      BY <1>0, <2>1 DEF ProcPeek, SeqStart, Labels, ProcLabels
    <3>3. ref' \in [Procs -> {None, "live", "freed"}]
      BY <1>0, <2>1 DEF ProcPeek, SeqStart
    <3> QED  BY <1>0, <1>7, <2>1, <3>1, <3>2, <3>3 DEF Types, ProcPeek, SeqStart
  <2>2. CASE ProcDown(p)
    <3>0. Dev(p) \in Devs
      BY <2>2 DEF ProcDown, Down, FilesOK, ProcLabels
    <3>1. dev[Dev(p)].sem = 1 /\ dev' = [dev EXCEPT ![Dev(p)].sem = @ - 1]
      BY <1>0, <3>0, <2>2 DEF ProcDown, Down, Devices
    <3>2. dev' \in [Devs -> Devices]
      BY <1>0, <3>0, <3>1 DEF Devices
    <3>3. pc' \in [Procs -> Labels] /\ ref' \in [Procs -> {None, "live", "freed"}]
      BY <1>0, <2>2 DEF ProcDown, Down, Labels, ProcLabels
    <3> QED  BY <1>0, <1>7, <2>2, <3>2, <3>3 DEF Types, ProcDown
  <2>3. CASE ProcWalk(p)
    <3>0. Dev(p) \in Devs
      BY <2>3 DEF ProcWalk, Up, FilesOK, ProcLabels
    <3>1. dev' = [dev EXCEPT ![Dev(p)].sem = @ + 1] /\ Holds(p)
      BY <2>3 DEF ProcWalk, Up, Holds
    <3>2. dev[Dev(p)].sem = 0
      BY <1>0, <3>0, <3>1 DEF SemsOK, Devices
    <3>3. dev' \in [Devs -> Devices]
      BY <1>0, <3>0, <3>1, <3>2 DEF Devices
    <3>4. /\ pc' \in [Procs -> Labels] /\ ref' \in [Procs -> {None, "live", "freed"}]
          /\ file' \in [Procs -> Files]
      BY <1>0, <1>a, <2>3 DEF ProcWalk, Up, Labels, Outer
    <3> QED  BY <1>0, <1>7, <2>3, <3>3, <3>4 DEF Types, ProcWalk
  <2> QED  BY <1>7, <2>1, <2>2, <2>3 DEF ProcStep
<1>8. ASSUME NEW p \in Procs, PrivOpen(p) PROVE Types'
  <2>0. Tty[p] \in Devs
    BY <1>8, AccessAssumption DEF PrivOpen
  <2>1. PICK mode \in {"wronly", "rdwr"} : Enter(p, Tty[p], mode, "t_start")
    BY <1>8 DEF PrivOpen
  <2>2. file' \in [Procs -> Files]
    BY <1>0, <1>a, <2>0, <2>1 DEF Enter, Files
  <2>3. pc' \in [Procs -> Labels]
    BY <1>0, <2>1 DEF Enter, Labels
  <2>4. dev' \in [Devs -> Devices] /\ written' \in [Devs -> SUBSET (0 .. MaxPos - 1)]
    BY <1>0, <1>a, <1>8, <2>0, EmptyType DEF PrivOpen
  <2> QED  BY <1>0, <1>8, <2>0, <2>2, <2>3, <2>4 DEF PrivOpen, Types
<1> QED
  BY <1>1, <1>2, <1>3, <1>4, <1>5, <1>6, <1>7, <1>8 DEF DeviceNext, DeviceStep, InnerStep

----------------------------------------------------------------------------
(***************************************************************************)
(* The lists.                                                              *)
(***************************************************************************)
(* scull_follow adds items without quanta.                                 *)
LEMMA FollowRegular ==
  ASSUME NEW data \in Bytes, NEW n \in Nat, NEW x \in Follow(data, n), NEW q, NEW s
  PROVE  Preserves(data, x) /\ (Regular(data, q, s) => Regular(x, q, s))
<1>1. /\ Len(x) \in Nat /\ Len(data) \in Nat /\ Len(x) >= Len(data)
      /\ \A i \in 1 .. Len(data) : x[i] = data[i]
      /\ \A i \in Len(data) + 1 .. Len(x) : x[i] = <<>>
  <2>1. x \in Seq(Seq(Seq(Int))) /\ data \in Seq(Seq(Seq(Int)))
    BY FollowIs DEF Bytes
  <2> QED  BY <2>1, FollowIs, LenProperties
<1>2. Preserves(data, x)
  BY <1>1 DEF Preserves
<1>3. \A i \in 1 .. Len(x) : x[i] # <<>> => i \in 1 .. Len(data) /\ x[i] = data[i]
  BY <1>1
<1>4. Regular(data, q, s) => Regular(x, q, s)
  BY <1>3 DEF Regular
<1> QED  BY <1>2, <1>4

(* Allocating a quantum of the right length keeps the list regular.        *)
LEMMA GrownRegular ==
  ASSUME NEW data \in Bytes, NEW i \in 1 .. Len(data), NEW at, at.s_pos \in Nat,
         NEW l, l.quantum \in Nat \ {0}, l.qset \in Nat \ {0}
  PROVE  LET new == [data EXCEPT ![i] = Grown(data[i], at, l)]
         IN  /\ new \in Bytes /\ Len(new) = Len(data) /\ new[i] = Grown(data[i], at, l)
             /\ Preserves(data, new)
             /\ Regular(data, l.quantum, l.qset) => Regular(new, l.quantum, l.qset)
<1> DEFINE set == data[i]
           g == Grown(set, at, l)
           new == [data EXCEPT ![i] = g]
           s == at.s_pos
<1>1. data \in Seq(Seq(Seq(Int))) /\ set \in Seq(Seq(Int)) /\ s \in Nat
  BY ElementOfSeq DEF Bytes
<1> HIDE DEF set, s
<1>2. /\ g \in Seq(Seq(Int)) /\ g # <<>>
      /\ set # <<>> => Len(g) = Len(set)
      /\ set = <<>> => Len(g) = l.qset
      /\ \A j \in 1 .. Len(g) : j # s + 1 \/ (set # <<>> /\ set[j] # <<>>) =>
           g[j] = IF set = <<>> THEN <<>> ELSE set[j]
      /\ s < Len(g) /\ (set = <<>> \/ set[s + 1] = <<>>) => Len(g[s + 1]) = l.quantum
  <2>0. at.s_pos = s
    BY DEF s
  <2>1. g \in Seq(Seq(Int)) /\ g # <<>>
    BY <1>1, <2>0, GrownIs
  <2>2. (set # <<>> => Len(g) = Len(set)) /\ (set = <<>> => Len(g) = l.qset)
    BY <1>1, <2>0, GrownIs, SMTT(30)
  <2>3. \A j \in 1 .. Len(g) : j # s + 1 \/ (set # <<>> /\ set[j] # <<>>) =>
           g[j] = IF set = <<>> THEN <<>> ELSE set[j]
    BY <1>1, <2>0, GrownIs
  <2>4. s < Len(g) /\ (set = <<>> \/ set[s + 1] = <<>>) => Len(g[s + 1]) = l.quantum
    BY <1>1, <2>0, GrownIs, SMTT(30)
  <2> QED  BY <2>1, <2>2, <2>3, <2>4
<1> HIDE DEF g
<1>3. /\ new \in Seq(Seq(Seq(Int))) /\ Len(new) = Len(data)
      /\ \A k \in 1 .. Len(data) : new[k] = IF k = i THEN g ELSE data[k]
  BY <1>1, <1>2, ExceptSeq
<1> HIDE DEF new
<1>4. Preserves(data, new)
  <2> SUFFICES ASSUME NEW k \in 1 .. Len(data), NEW j \in 1 .. Len(data[k]), data[k][j] # <<>>
               PROVE  k \in 1 .. Len(new) /\ j \in 1 .. Len(new[k]) /\ new[k][j] = data[k][j]
    BY DEF Preserves
  <2>1. CASE k # i
    BY <1>3, <2>1
  <2>2. CASE k = i
    <3>1. set # <<>> /\ j \in 1 .. Len(set) /\ set[j] # <<>>
      BY <2>2, EmptySeq DEF set
    <3>2. j \in 1 .. Len(g) /\ g[j] = set[j]
      BY <1>2, <3>1
    <3> QED  BY <1>3, <2>2, <3>2 DEF set
  <2> QED  BY <2>1, <2>2
<1>5. ASSUME Regular(data, l.quantum, l.qset) PROVE Regular(new, l.quantum, l.qset)
  <2> SUFFICES ASSUME NEW k \in 1 .. Len(data), new[k] # <<>>
               PROVE  /\ Len(new[k]) = l.qset
                      /\ \A j \in 1 .. l.qset : new[k][j] # <<>> => Len(new[k][j]) = l.quantum
    BY <1>3 DEF Regular
  <2>1. CASE k # i
    BY <1>3, <1>5, <2>1 DEF Regular
  <2>2. CASE k = i
    <3>1. set # <<>> => /\ Len(set) = l.qset
                        /\ \A j \in 1 .. l.qset : set[j] # <<>> => Len(set[j]) = l.quantum
      BY <1>5 DEF Regular, set
    <3>2. Len(g) = l.qset
      BY <1>2, <3>1
    <3>3. ASSUME NEW j \in 1 .. l.qset, g[j] # <<>> PROVE Len(g[j]) = l.quantum
      <4>1. CASE set # <<>> /\ set[j] # <<>>
        BY <1>2, <3>1, <3>2, <4>1
      <4>2. CASE ~(set # <<>> /\ set[j] # <<>>)
        <5>1. j = s + 1
          BY <1>2, <3>2, <3>3, <4>2
        <5>2. s < Len(g)
          BY <1>1, <3>2, <5>1
        <5> QED  BY <1>2, <4>2, <5>1, <5>2
      <4> QED  BY <4>1, <4>2
    <3> QED  BY <1>3, <2>2, <3>2, <3>3
  <2> QED  BY <2>1, <2>2
<1> QED  BY <1>3, <1>4, <1>5 DEF new, g, set, Bytes

(* What both calls do to the list on their way to a quantum: they preserve *)
(* what is there, keep the list regular for the parameters they go by, and *)
(* when they go on to the copy, have found a quantum.                      *)
LEMMA FollowedIs ==
  ASSUME Types, FilesOK, LocsOK, NEW p \in Procs, ReadFollow(p) \/ WriteFollow(p)
  PROVE  LET D == dev[Dev(p)]
             l == loc[p]
         IN  \E data \in Bytes :
               /\ dev' = [dev EXCEPT ![Dev(p)].data = data]
               /\ Preserves(D.data, data)
               /\ Regular(D.data, l.quantum, l.qset) => Regular(data, l.quantum, l.qset)
               /\ pc'[p] # "up" => Quantum(p)' # <<>>
<1> DEFINE at == Place(file[p].pos, loc[p])
           D == dev[Dev(p)]
           l == loc[p]
<1>0. pc[p] \in Started
  BY DEF ReadFollow, WriteFollow, At, Started, CallLabels
<1>1. /\ dev \in [Devs -> Devices] /\ Dev(p) \in Devs /\ D.data \in Bytes
      /\ at.item \in Nat /\ at.s_pos \in Nat
      /\ l.quantum \in Nat \ {0} /\ l.qset \in Nat \ {0} /\ pc \in [Procs -> Labels]
  BY <1>0, AtPlace DEF Types, Devices
<1>2. Preserves(D.data, D.data)
  BY DEF Preserves
<1>3. ASSUME NEW data, dev' = [dev EXCEPT ![Dev(p)].data = data], pc'[p] # "up"
      PROVE  Quantum(p)' = IF Reached(data, at) /\ at.s_pos < Len(data[at.item + 1])
                           THEN data[at.item + 1][at.s_pos + 1] ELSE <<>>
  <2>1. dev'[Dev(p)].data = data
    BY <1>1, <1>3 DEF Devices
  <2>2. file' = file
    BY DEF ReadFollow, WriteFollow
  <2>3. Place(file'[p].pos, loc'[p]) = at
    <3>1. loc'[p].quantum = loc[p].quantum /\ loc'[p].qset = loc[p].qset
      BY <1>3, FollowLocs
    <3> QED  BY <2>2, <3>1, PlaceSame
  <2> QED  BY <2>1, <2>2, <2>3 DEF Quantum, Dev
<1>4. CASE ReadFollow(p)
  <2> DEFINE Found(data) ==
        LET set == IF Reached(data, at) THEN data[at.item + 1] ELSE <<>>
        IN  at.s_pos < Len(set) /\ set[at.s_pos + 1] # <<>>
  <2>0. \/ dev' = dev /\ Go(p, "up")
        \/ \E data \in Follow(D.data, at.item) :
             dev' = [dev EXCEPT ![Dev(p)].data = data] /\ (Found(data) \/ Go(p, "up"))
    BY <1>4, Zenon DEF ReadFollow
  <2>1. CASE dev' = dev /\ Go(p, "up")
    <3>1. dev' = [dev EXCEPT ![Dev(p)].data = D.data]
      BY <1>1, <2>1 DEF Devices
    <3>2. pc'[p] = "up"
      BY <1>1, <2>1 DEF Go
    <3> QED  BY <1>1, <1>2, <3>1, <3>2
  <2>2. CASE \E data \in Follow(D.data, at.item) :
             dev' = [dev EXCEPT ![Dev(p)].data = data] /\ (Found(data) \/ Go(p, "up"))
    <3>0. PICK data \in Follow(D.data, at.item) :
            dev' = [dev EXCEPT ![Dev(p)].data = data] /\ (Found(data) \/ Go(p, "up"))
      BY <2>2
    <3>1. dev' = [dev EXCEPT ![Dev(p)].data = data] /\ (Found(data) \/ pc'[p] = "up")
      BY <1>1, <3>0 DEF Go
    <3>2. pc'[p] # "up" => Reached(data, at) /\ at.s_pos < Len(data[at.item + 1]) /\ data[at.item + 1][at.s_pos + 1] # <<>>
      BY <1>1, <3>1, EmptySeq
    <3>3. pc'[p] # "up" => Quantum(p)' # <<>>
      BY <1>3, <3>1, <3>2
    <3>4. data \in Bytes
      BY <1>1, FollowIs
    <3> HIDE DEF at, Found
    <3>5. Preserves(D.data, data) /\ (Regular(D.data, l.quantum, l.qset) => Regular(data, l.quantum, l.qset))
      BY <1>1, FollowRegular
    <3> QED  BY <3>1, <3>3, <3>4, <3>5
  <2> QED  BY <2>0, <2>1, <2>2
<1>5. CASE WriteFollow(p)
  <2>1. PICK data \in Follow(D.data, at.item) :
          \/ \E left \in Failed(data, at, l) :
               dev' = [dev EXCEPT ![Dev(p)].data = left] /\ pc'[p] = "up"
          \/ /\ Reached(data, at)
             /\ LET set == Grown(data[at.item + 1], at, l)
                IN  /\ dev' = [dev EXCEPT ![Dev(p)].data = [data EXCEPT ![at.item + 1] = set]]
                    /\ at.s_pos < Len(set) \/ pc'[p] = "up"
    BY <1>1, <1>5 DEF WriteFollow, Go
  <2>2. data \in Bytes
    BY <1>1, FollowIs
  <2>3. Preserves(D.data, data) /\ (Regular(D.data, l.quantum, l.qset) => Regular(data, l.quantum, l.qset))
    <3> HIDE DEF at
    <3> QED  BY <1>1, FollowRegular
  <2>4. CASE \E left \in Failed(data, at, l) :
               dev' = [dev EXCEPT ![Dev(p)].data = left] /\ pc'[p] = "up"
    <3>1. PICK left \in Failed(data, at, l) :
            dev' = [dev EXCEPT ![Dev(p)].data = left] /\ pc'[p] = "up"
      BY <2>4
    <3>2. /\ left \in Bytes /\ Preserves(data, left)
          /\ Regular(data, l.quantum, l.qset) => Regular(left, l.quantum, l.qset)
      <4> HIDE DEF at, l
      <4> QED  BY <1>1, <2>2, FailedIs
    <3>3. Preserves(D.data, left)
      BY <2>3, <3>2 DEF Preserves
    <3> QED  BY <2>3, <3>1, <3>2, <3>3
  <2>5. CASE Reached(data, at) /\
             LET set == Grown(data[at.item + 1], at, l)
             IN  /\ dev' = [dev EXCEPT ![Dev(p)].data = [data EXCEPT ![at.item + 1] = set]]
                 /\ at.s_pos < Len(set) \/ pc'[p] = "up"
    <3> DEFINE i == at.item + 1
               set == Grown(data[i], at, l)
               new == [data EXCEPT ![i] = set]
    <3>1. i \in 1 .. Len(data)
      <4>1. Len(data) \in Nat
        BY <2>2, LenProperties DEF Bytes
      <4> QED  BY <1>1, <2>5, <4>1 DEF Reached
    <3> HIDE DEF i
    <3>2. /\ new \in Bytes /\ Len(new) = Len(data) /\ new[i] = set
          /\ Preserves(data, new)
          /\ Regular(data, l.quantum, l.qset) => Regular(new, l.quantum, l.qset)
      <4> HIDE DEF at, l
      <4> QED  BY <1>1, <2>2, <3>1, GrownRegular
    <3>3. at.s_pos < Len(set) => set[at.s_pos + 1] # <<>>
      <4>1. data[i] \in Seq(Seq(Int))
        BY <2>2, <3>1, ElementOfSeq DEF Bytes
      <4> HIDE DEF at, l
      <4> QED  BY <1>1, <4>1, GrownIs
    <3>4. dev' = [dev EXCEPT ![Dev(p)].data = new] /\ (pc'[p] # "up" => at.s_pos < Len(set))
      BY <2>5 DEF i
    <3>5. pc'[p] # "up" => Quantum(p)' # <<>>
      <4>1. Reached(new, at)
        BY <2>5, <3>2 DEF Reached
      <4>2. pc'[p] # "up" => Quantum(p)' = IF Reached(new, at) /\ at.s_pos < Len(new[i])
                                            THEN new[i][at.s_pos + 1] ELSE <<>>
        BY <1>3, <3>4 DEF i
      <4> HIDE DEF new, set, at
      <4> QED  BY <3>2, <3>3, <3>4, <4>1, <4>2
    <3>6. Preserves(D.data, new)
      <4> HIDE DEF new
      <4>1. Len(data) \in Nat
        BY <2>2, LenProperties DEF Bytes
      <4> QED  BY <2>3, <3>2, <4>1 DEF Preserves
    <3> HIDE DEF new
    <3> QED  BY <2>3, <3>2, <3>4, <3>5, <3>6
  <2> HIDE DEF at, D, l
  <2> QED  BY <2>1, <2>4, <2>5
<1> QED  BY <1>4, <1>5

(* A device whose list is used with its own parameters only: so far, and   *)
(* by the call that is going through it.                                   *)
LEMMA NotStale ==
  ASSUME Types, FilesOK, LocsOK, NEW p \in Procs, ReadFollow(p) \/ WriteFollow(p)
  PROVE  /\ mixed \subseteq mixed' /\ mixed' \subseteq mixed \cup {Dev(p)}
         /\ Dev(p) \notin mixed' \/ SameParams(Dev(p), loc[p]) => mixed' = mixed
         /\ Dev(p) \notin mixed' => SameParams(Dev(p), loc[p])
<1>1. Stale(p)
  BY DEF ReadFollow, WriteFollow
<1>2. SameParams(Dev(p), loc[p]) <=>
        <<dev[Dev(p)].quantum, dev[Dev(p)].qset>> = <<loc[p].quantum, loc[p].qset>>
  BY DEF SameParams
<1> QED  BY <1>1, <1>2, Zenon DEF Stale

(***************************************************************************)
(* Arrays and quanta of the right length.                                  *)
(***************************************************************************)
(* Replacing one quantum of a list.                                        *)
LEMMA PatchIs ==
  ASSUME NEW data \in Bytes, NEW i \in 1 .. Len(data), NEW j \in 1 .. Len(data[i]),
         NEW q \in Seq(Int), Len(q) = Len(data[i][j])
  PROVE  LET new == [data EXCEPT ![i] = [@ EXCEPT ![j] = q]]
         IN  /\ Len(new) = Len(data)
             /\ \A k \in 1 .. Len(new) : Len(new[k]) = Len(data[k]) /\ (new[k] = <<>> <=> data[k] = <<>>)
             /\ \A k \in 1 .. Len(new) : \A m \in 1 .. Len(new[k]) :
                  new[k][m] = IF k = i /\ m = j THEN q ELSE data[k][m]
<1> DEFINE set == data[i]
           g == [set EXCEPT ![j] = q]
           new == [data EXCEPT ![i] = g]
<1>1. data \in Seq(Seq(Seq(Int))) /\ set \in Seq(Seq(Int)) /\ j \in 1 .. Len(set)
  BY ElementOfSeq DEF Bytes
<1> HIDE DEF set
<1>3. /\ g \in Seq(Seq(Int)) /\ Len(g) = Len(set)
      /\ \A m \in 1 .. Len(set) : g[m] = IF m = j THEN q ELSE set[m]
  BY <1>1, ExceptSeq
<1> HIDE DEF g
<1>4. g # <<>> /\ set # <<>>
  BY <1>1, <1>3, EmptySeq
<1>5. /\ Len(new) = Len(data)
      /\ \A k \in 1 .. Len(data) : new[k] = IF k = i THEN g ELSE data[k]
  BY <1>1, <1>3, ExceptSeq
<1> HIDE DEF new
<1>6. \A k \in 1 .. Len(new) : Len(new[k]) = Len(data[k]) /\ (new[k] = <<>> <=> data[k] = <<>>)
  BY <1>3, <1>4, <1>5 DEF set
<1>7. ASSUME NEW k \in 1 .. Len(new), NEW m \in 1 .. Len(new[k])
      PROVE  new[k][m] = IF k = i /\ m = j THEN q ELSE data[k][m]
  <2>1. CASE k # i
    BY <1>5, <2>1
  <2>2. CASE k = i
    <3>1. new[k] = g /\ m \in 1 .. Len(set)
      BY <1>3, <1>5, <2>2
    <3> QED  BY <1>3, <2>2, <3>1 DEF set
  <2> QED  BY <2>1, <2>2
<1> QED  BY <1>5, <1>6, <1>7 DEF new, g, set

(* The quantum after a write has the length it had.                        *)
LEMMA PatchedType ==
  ASSUME Types, FilesOK, LocsOK, NEW p \in Procs, pc[p] \in Started
  PROVE  Patched(p) \in Seq(Int) /\ Len(Patched(p)) = Len(Quantum(p))
<1>1. Quantum(p) \in Seq(Int) /\ file[p].pos \in Int /\ Place(file[p].pos, loc[p]).q_pos \in Int
  BY QuantumType, AtPlace
<1>2. Len(Quantum(p)) \in Nat /\ Quantum(p) \in [1 .. Len(Quantum(p)) -> Int]
  BY <1>1, LenProperties
<1> DEFINE n == Len(Quantum(p))
           o == Place(file[p].pos, loc[p]).q_pos
           new(k) == IF k - 1 \in o .. o + loc[p].count - 1
                     THEN file[p].pos + k - 1 - o ELSE Quantum(p)[k]
           q == Patched(p)
<1>3. q = [k \in 1 .. n |-> new(k)]
  BY DEF Patched
<1>4. \A k \in 1 .. n : new(k) \in Int
  BY <1>1, <1>2
<1> HIDE DEF n, new, q
<1>5. q \in [1 .. n -> Int] /\ n \in Nat
  BY <1>2, <1>3, <1>4 DEF n
<1>6. q \in Seq(Int)
  BY <1>5, SeqDef
<1>7. Len(q) = n
  BY <1>5, <1>6, LenProperties
<1> QED  BY <1>6, <1>7 DEF n, q

(* What a step other than Unload does to the list of a device that nobody  *)
(* has used with other parameters.                                         *)
LEMMA ShapesStep ==
  ASSUME Types, FilesOK, SemsOK, LocsOK, ShapesOK, DeviceNext
  PROVE  ShapesOK'
<1> SUFFICES ASSUME NEW d \in Devs, d \notin mixed'
             PROVE  Regular(dev'[d].data, dev'[d].quantum, dev'[d].qset)
  BY DEF ShapesOK
<1> DEFINE Same == /\ dev'[d].data = dev[d].data /\ dev'[d].quantum = dev[d].quantum
                   /\ dev'[d].qset = dev[d].qset
<1>0. dev \in [Devs -> Devices]
  BY DEF Types
<1>1. ASSUME Same, d \notin mixed PROVE Regular(dev'[d].data, dev'[d].quantum, dev'[d].qset)
  BY <1>1 DEF ShapesOK
<1>2. ASSUME dev'[d].data = <<>> PROVE Regular(dev'[d].data, dev'[d].quantum, dev'[d].qset)
  BY <1>2 DEF Regular
<1> HIDE DEF Same
<1>3. CASE UNCHANGED <<deviceVars, clones>>
  BY <1>1, <1>3 DEF deviceVars, Same
<1>4. CASE Unload
  BY <1>2, <1>4 DEF Unload, Empty
<1>5. ASSUME NEW p \in Procs, DeviceStep(p)
      PROVE  Regular(dev'[d].data, dev'[d].quantum, dev'[d].qset)
  <2>1. CASE QuietStep(p)
    BY <1>1, <2>1 DEF QuietStep, SameData, Same
  <2>2. CASE ReadFollow(p) \/ WriteFollow(p)
    <3>1. pc[p] \in Started
      BY <2>2 DEF ReadFollow, WriteFollow, At, Started, CallLabels
    <3>2. PICK data \in Bytes :
            /\ dev' = [dev EXCEPT ![Dev(p)].data = data]
            /\ Regular(dev[Dev(p)].data, loc[p].quantum, loc[p].qset) => Regular(data, loc[p].quantum, loc[p].qset)
      BY <2>2, FollowedIs
    <3>3. d \notin mixed
      BY <2>2, NotStale
    <3>4. CASE d # Dev(p)
      BY <1>0, <1>1, <3>2, <3>3, <3>4 DEF Same
    <3>5. CASE d = Dev(p)
      <4>1. SameParams(d, loc[p])
        BY <2>2, <3>5, NotStale
      <4>2. dev'[d].data = data /\ dev'[d].quantum = dev[d].quantum /\ dev'[d].qset = dev[d].qset
        BY <1>0, <3>2, <3>5 DEF Devices
      <4>3. Regular(data, loc[p].quantum, loc[p].qset)
        BY <3>2, <3>3, <3>5, <4>1 DEF ShapesOK, SameParams
      <4> QED  BY <4>1, <4>2, <4>3 DEF SameParams
    <3> QED  BY <3>4, <3>5
  <2>3. CASE WriteCopy(p)
    <3> DEFINE D == dev[Dev(p)]
               end == file[p].pos + loc[p].count
               i == Place(file[p].pos, loc[p]).item + 1
               j == Place(file[p].pos, loc[p]).s_pos + 1
    <3>1. PICK data \in Bytes :
            /\ dev' = [dev EXCEPT ![Dev(p)] = [D EXCEPT !.data = data,
                                                        !.size = IF D.size < end THEN end ELSE D.size]]
            /\ data = IF Lands(p) THEN [D.data EXCEPT ![i] = [@ EXCEPT ![j] = Patched(p)]] ELSE D.data
            /\ Lands(p) => Quantum(p) # <<>>
      BY <2>3, WriteCopyIs
    <3>2. d \notin mixed /\ pc[p] \in Started
      BY <2>3 DEF WriteCopy, At, Started, CallLabels
    <3>3. CASE d # Dev(p)
      BY <1>0, <1>1, <3>1, <3>2, <3>3 DEF Same
    <3>4. CASE d = Dev(p)
      <4>1. dev'[d].data = data /\ dev'[d].quantum = D.quantum /\ dev'[d].qset = D.qset
        BY <1>0, <3>1, <3>4 DEF Devices
      <4>2. Regular(D.data, D.quantum, D.qset)
        BY <3>2, <3>4 DEF ShapesOK
      <4>3. CASE ~Lands(p)
        BY <3>1, <4>1, <4>2, <4>3
      <4>4. CASE Lands(p)
        <5>0. /\ i \in 1 .. Len(D.data) /\ j \in 1 .. Len(D.data[i]) /\ D.data[i][j] = Quantum(p)
              /\ D.data \in Bytes /\ Patched(p) \in Seq(Int) /\ Len(Patched(p)) = Len(Quantum(p))
          BY <3>1, <3>2, <4>4, QuantumIs, AtPlace, PatchedType DEF Devices
        <5> HIDE DEF i, j, D
        <5>1. /\ Len(data) = Len(D.data)
              /\ \A k \in 1 .. Len(data) : Len(data[k]) = Len(D.data[k]) /\ (data[k] = <<>> <=> D.data[k] = <<>>)
              /\ \A k \in 1 .. Len(data) : \A m \in 1 .. Len(data[k]) :
                   data[k][m] = IF k = i /\ m = j THEN Patched(p) ELSE D.data[k][m]
          <6> DEFINE new == [D.data EXCEPT ![i] = [@ EXCEPT ![j] = Patched(p)]]
          <6>1. /\ Len(new) = Len(D.data)
                /\ \A k \in 1 .. Len(new) : Len(new[k]) = Len(D.data[k]) /\ (new[k] = <<>> <=> D.data[k] = <<>>)
                /\ \A k \in 1 .. Len(new) : \A m \in 1 .. Len(new[k]) :
                     new[k][m] = IF k = i /\ m = j THEN Patched(p) ELSE D.data[k][m]
            BY <5>0, PatchIs
          <6>2. data = new
            BY <3>1, <4>4
          <6> HIDE DEF new
          <6> QED  BY <6>1, <6>2, Zenon
        <5>2. D.data[i][j] = <<>> => Patched(p) = <<>>
          BY <5>0, EmptySeq
        <5>3. Regular(data, D.quantum, D.qset)
          <6>1. ASSUME NEW k \in 1 .. Len(data), data[k] # <<>>
                PROVE  Len(data[k]) = D.qset
            BY <4>2, <5>1, <6>1 DEF Regular
          <6>2. ASSUME NEW k \in 1 .. Len(data), data[k] # <<>>, NEW m \in 1 .. D.qset, data[k][m] # <<>>
                PROVE  Len(data[k][m]) = D.quantum
            <7>1. D.data[k][m] # <<>> /\ Len(data[k][m]) = Len(D.data[k][m])
              BY <5>0, <5>1, <5>2, <6>1, <6>2
            <7> QED  BY <4>2, <5>1, <6>2, <7>1 DEF Regular
          <6> QED  BY <6>1, <6>2 DEF Regular
        <5> QED  BY <4>1, <5>3
      <4> QED  BY <4>3, <4>4
    <3> QED  BY <3>3, <3>4
  <2>4. CASE TrimFree(p, "open") \/ TrimFree(p, "o_up")
    <3>1. dev' = [dev EXCEPT ![Dev(p)] = [Empty(params) EXCEPT !.sem = dev[Dev(p)].sem]] /\ mixed' = mixed \ {Dev(p)}
      BY <2>4 DEF TrimFree, FreeList
    <3>2. CASE d # Dev(p)
      BY <1>0, <1>1, <3>1, <3>2 DEF Same
    <3>3. CASE d = Dev(p)
      BY <1>0, <1>2, <3>1, <3>3 DEF Empty
    <3> QED  BY <3>2, <3>3
  <2>5. CASE PrivOpen(p)
    <3>1. mixed' = mixed /\ (dev' = dev \/ dev' = [dev EXCEPT ![Tty[p]] = Empty(params)])
      BY <2>5 DEF PrivOpen
    <3>2. CASE dev'[d] = dev[d]
      BY <1>1, <3>1, <3>2 DEF Same
    <3>3. CASE dev'[d] # dev[d]
      BY <1>0, <1>2, <3>1, <3>3 DEF Empty
    <3> QED  BY <3>2, <3>3
  <2> QED  BY <1>5, <2>1, <2>2, <2>3, <2>4, <2>5, DataOrQuiet DEF DataStep
<1> QED  BY <1>3, <1>4, <1>5 DEF DeviceNext

(***************************************************************************)
(* The quanta that the copies work on.                                     *)
(***************************************************************************)
(* While a process copies through a live pointer, no other changes that    *)
(* list: the readers and writers hold the semaphore, and a trim without it *)
(* frees the pointer.                                                      *)
LEMMA OthersCopy ==
  ASSUME Types, FilesOK, SemsOK, NEW p \in Procs, DataStep(p), Elsewhere(p),
         NEW q \in Procs, q # p, Copying(q)'
  PROVE  Copying(q) /\ dev'[Dev(q)] = dev[Dev(q)]
<1>0. /\ dev \in [Devs -> Devices] /\ ref \in [Procs -> {None, "live", "freed"}]
      /\ pc[q] \in {"r_copy", "w_copy"} /\ Dev(q)' = Dev(q) /\ Holds(q)
      /\ ref'[q] = "live" /\ Dev(q) \notin mixed'
  BY DEF Types, Copying, Elsewhere, Holds, Dev
<1>1. CASE ReadFollow(p) \/ WriteFollow(p) \/ WriteCopy(p)
  <2>1. Holds(p)
    BY <1>1 DEF ReadFollow, WriteFollow, WriteCopy, At, Holds
  <2>2. Dev(p) \in Devs /\ Dev(q) \in Devs
    BY <1>0, <1>1 DEF FilesOK, Outer, ProcLabels, ReadFollow, WriteFollow, WriteCopy, At
  <2>3. Dev(p) # Dev(q)
    BY <1>0, <2>1, <2>2 DEF SemsOK
  <2>4. dev'[Dev(q)] = dev[Dev(q)]
    <3>1. CASE ReadFollow(p)
      <4>1. dev' = dev \/ \E data : dev' = [dev EXCEPT ![Dev(p)].data = data]
        BY <3>1, Zenon DEF ReadFollow
      <4> QED  BY <1>0, <2>2, <2>3, <4>1
    <3>2. CASE WriteFollow(p)
      <4>1. \E data : dev' = [dev EXCEPT ![Dev(p)].data = data]
        BY <3>2, Zenon DEF WriteFollow
      <4> QED  BY <1>0, <2>2, <2>3, <4>1
    <3>3. CASE WriteCopy(p)
      BY <1>0, <2>2, <2>3, <3>3 DEF WriteCopy
    <3> QED  BY <1>1, <3>1, <3>2, <3>3
  <2>5. ref'[q] = "live" => ref[q] = "live"
    BY <1>0, <1>1 DEF ReadFollow, WriteFollow, WriteCopy
  <2>6. mixed \subseteq mixed'
    BY <1>1 DEF ReadFollow, WriteFollow, WriteCopy, Stale
  <2> QED  BY <1>0, <2>4, <2>5, <2>6 DEF Copying
<1>2. CASE TrimFree(p, "open") \/ TrimFree(p, "o_up")
  <2>1. ref' = [Freed(Dev(p)) EXCEPT ![p] = None] /\ mixed' = mixed \ {Dev(p)}
    BY <1>2 DEF TrimFree
  <2>2. ref[q] = "live" /\ Dev(q) # Dev(p)
    BY <1>0, <2>1 DEF Freed
  <2>3. dev'[Dev(q)] = dev[Dev(q)]
    <3>1. dev' = [dev EXCEPT ![Dev(p)] = [Empty(params) EXCEPT !.sem = dev[Dev(p)].sem]]
      BY <1>2 DEF TrimFree, FreeList
    <3>2. Dev(q) \in Devs
      BY <1>0 DEF FilesOK, Outer, ProcLabels
    <3> QED  BY <1>0, <2>2, <3>1, <3>2
  <2> QED  BY <1>0, <2>1, <2>2, <2>3 DEF Copying
<1>3. CASE kind = "priv" /\ PrivOpen(p)
  <2>1. Dev(q) \in Devs /\ Dev(q) \in clones
    BY <1>0, <1>3, DeviceAssumption DEF FilesOK, Outer, ProcLabels
  <2>2. dev' = dev \/ (Tty[p] \notin clones /\ dev' = [dev EXCEPT ![Tty[p]] = Empty(params)])
    BY <1>3 DEF PrivOpen
  <2>3. dev'[Dev(q)] = dev[Dev(q)]
    BY <1>0, <2>1, <2>2
  <2>4. ref' = ref /\ mixed' = mixed
    BY <1>3 DEF PrivOpen
  <2> QED  BY <1>0, <2>3, <2>4 DEF Copying
<1> QED  BY <1>1, <1>2, <1>3 DEF DataStep

(* The quantum of a process is found through its own position and its      *)
(* device's list.                                                          *)
LEMMA QuantumKept ==
  ASSUME Types, NEW q \in Procs, Dev(q) \in Devs, file'[q] = file[q], loc'[q] = loc[q],
         dev'[Dev(q)].data = dev[Dev(q)].data
  PROVE  Quantum(q)' = Quantum(q)
BY DEF Quantum, Dev

(* Every copy that is on its way keeps its quantum.                        *)
LEMMA QuantaStep ==
  ASSUME Types, FilesOK, SemsOK, LocsOK, QuantaOK, DeviceNext
  PROVE  QuantaOK'
<1> SUFFICES ASSUME NEW q \in Procs, Copying(q)'
             PROVE  SameParams(Dev(q), loc[q])' /\ Quantum(q)' # <<>>
  BY DEF QuantaOK
<1>0. dev \in [Devs -> Devices] /\ pc'[q] \in {"r_copy", "w_copy"} /\ pc \in [Procs -> Labels]
  BY DEF Types, Copying
<1>1. ASSUME Copying(q), file'[q] = file[q], loc'[q] = loc[q],
             dev'[Dev(q)].data = dev[Dev(q)].data,
             dev'[Dev(q)].quantum = dev[Dev(q)].quantum, dev'[Dev(q)].qset = dev[Dev(q)].qset
      PROVE  SameParams(Dev(q), loc[q])' /\ Quantum(q)' # <<>>
  <2>1. SameParams(Dev(q), loc[q]) /\ Quantum(q) # <<>>
    BY <1>1 DEF QuantaOK
  <2>2. Dev(q) \in Devs
    BY <1>1 DEF Copying, FilesOK, Outer, ProcLabels
  <2>3. Quantum(q)' = Quantum(q)
    BY <1>1, <2>2, QuantumKept
  <2> QED  BY <1>1, <2>1, <2>3 DEF SameParams, Dev
<1>2. CASE UNCHANGED <<deviceVars, clones>>
  BY <1>1, <1>2 DEF deviceVars, Copying, Dev
<1>3. CASE Unload
  BY <1>0, <1>3 DEF Unload, At
<1>4. ASSUME NEW p \in Procs, DeviceStep(p)
      PROVE  SameParams(Dev(q), loc[q])' /\ Quantum(q)' # <<>>
  <2>0. Elsewhere(p) /\ (DataStep(p) \/ QuietStep(p))
    BY <1>4, DataOrQuiet
  <2>1. CASE QuietStep(p) /\ q = p
    <3>1. Start(p, "r_down") \/ Start(p, "w_down") \/ Enters(p)
      BY <1>0, <2>1 DEF QuietStep, Started, CallLabels
    <3>2. pc'[p] \notin {"r_copy", "w_copy"}
      BY <1>0, <3>1 DEF Start, Enters, Down, Go
    <3> QED  BY <1>0, <2>1, <3>2
  <2>2. CASE QuietStep(p) /\ q # p
    <3>1. Copying(q) /\ file'[q] = file[q] /\ loc'[q] = loc[q]
      BY <2>0, <2>2 DEF QuietStep, Copying, Elsewhere, Dev
    <3>2. Dev(q) \in Devs
      BY <3>1 DEF Copying, FilesOK, Outer, ProcLabels
    <3> QED  BY <1>1, <2>2, <3>1, <3>2 DEF QuietStep, SameData
  <2>3. CASE DataStep(p) /\ q # p
    <3>1. Copying(q) /\ dev'[Dev(q)] = dev[Dev(q)]
      BY <2>0, <2>3, OthersCopy
    <3> QED  BY <1>1, <2>0, <2>3, <3>1 DEF Elsewhere
  <2>4. CASE (ReadFollow(p) \/ WriteFollow(p)) /\ q = p
    <3>1. /\ loc'[q].quantum = loc[q].quantum /\ loc'[q].qset = loc[q].qset
      BY <1>0, <2>4, FollowLocs
    <3>2. file' = file
      BY <2>4 DEF ReadFollow, WriteFollow
    <3>3. SameParams(Dev(p), loc[p])
      BY <2>4, <3>2, NotStale DEF Copying, Dev
    <3>4. PICK data \in Bytes :
            dev' = [dev EXCEPT ![Dev(p)].data = data] /\ (pc'[p] # "up" => Quantum(p)' # <<>>)
      BY <2>4, FollowedIs
    <3>5. Dev(p) \in Devs
      BY <2>4 DEF FilesOK, Outer, ProcLabels, ReadFollow, WriteFollow, At
    <3>6. dev'[Dev(p)].quantum = dev[Dev(p)].quantum /\ dev'[Dev(p)].qset = dev[Dev(p)].qset
      BY <1>0, <3>4, <3>5 DEF Devices
    <3> QED  BY <1>0, <2>4, <3>1, <3>2, <3>3, <3>4, <3>6 DEF SameParams, Dev
  <2>5. CASE (WriteCopy(p) \/ TrimFree(p, "open") \/ TrimFree(p, "o_up") \/ PrivOpen(p)) /\ q = p
    <3>1. pc'[p] \in {"up", "open", "o_up", "t_start"}
      BY <1>0, <2>5 DEF WriteCopy, TrimFree, PrivOpen, Enter, Go
    <3> QED  BY <1>0, <2>5, <3>1
  <2> QED  BY <2>0, <2>1, <2>2, <2>3, <2>4, <2>5 DEF DataStep
<1> QED  BY <1>2, <1>3, <1>4 DEF DeviceNext

(***************************************************************************)
(* scullsingle: one process at a time, hence no stale parameters.          *)
(***************************************************************************)
LEMMA SingleNeverStale ==
  ASSUME Types, FilesOK, LocsOK, SingleOK, Alone, kind' = kind, DeviceNext
  PROVE  SingleOK'
<1> SUFFICES ASSUME kind = "single"
             PROVE  /\ mixed' = {}
                    /\ \A q \in Procs : pc'[q] \in Started => SameParams(Dev(q), loc[q])'
  BY DEF SingleOK
<1>0. /\ dev \in [Devs -> Devices] /\ pc \in [Procs -> Labels] /\ loc \in [Procs -> Locals] /\ mixed = {}
      /\ \A q \in Procs : pc[q] \in Started => SameParams(Dev(q), loc[q])
  BY DEF Types, SingleOK
<1>2. CASE UNCHANGED <<deviceVars, clones>>
  BY <1>0, <1>2 DEF deviceVars, SameParams, Dev
<1>3. CASE Unload
  BY <1>0, <1>3 DEF Unload, At, Started, CallLabels
<1>4. ASSUME NEW p \in Procs, DeviceStep(p)
      PROVE  /\ mixed' = {}
             /\ \A q \in Procs : pc'[q] \in Started => SameParams(Dev(q), loc[q])'
  <2>0. Elsewhere(p) /\ (DataStep(p) \/ QuietStep(p))
    BY <1>4, DataOrQuiet
  <2>1. CASE QuietStep(p)
    <3>1. ASSUME NEW q \in Procs, q # p, pc'[q] \in Started PROVE SameParams(Dev(q), loc[q])'
      <4>1. SameParams(Dev(q), loc[q]) /\ file'[q] = file[q] /\ loc'[q] = loc[q] /\ Dev(q) \in Devs
        BY <1>0, <2>0, <3>1 DEF Elsewhere, FilesOK, Started, CallLabels, Outer, ProcLabels
      <4> QED  BY <2>1, <4>1 DEF QuietStep, SameData, SameParams, Dev
    <3>2. ASSUME pc'[p] \in Started PROVE SameParams(Dev(p), loc[p])'
      <4>1. Start(p, "r_down") \/ Start(p, "w_down") \/ Enters(p)
        BY <2>1, <3>2 DEF QuietStep
      <4>2. file' = file /\ Dev(p) \in Devs
        BY <4>1 DEF Start, Enters, Down, At, FilesOK, Outer, ProcLabels
      <4>3. CASE Start(p, "r_down") \/ Start(p, "w_down")
        <5>1. PICK n \in Counts :
                loc' = [loc EXCEPT ![p] = [quantum |-> dev[Dev(p)].quantum,
                                           qset |-> dev[Dev(p)].qset, count |-> n]]
          BY <4>3 DEF Start
        <5>2. dev' = dev
          BY <4>3 DEF Start
        <5> QED  BY <1>0, <4>2, <5>1, <5>2 DEF SameParams, Dev
      <4>4. CASE Enters(p)
        <5>1. pc[p] \in Started /\ loc' = loc
          BY <4>4 DEF Enters, Down, At, Started, CallLabels
        <5> QED  BY <1>0, <2>1, <4>2, <5>1 DEF QuietStep, SameData, SameParams, Dev
      <4> QED  BY <4>1, <4>3, <4>4
    <3> QED  BY <1>0, <2>1, <3>1, <3>2 DEF QuietStep
  <2>2. CASE DataStep(p)
    <3>1. ReadFollow(p) \/ WriteFollow(p) \/ WriteCopy(p) \/ TrimFree(p, "open") \/ TrimFree(p, "o_up")
      BY <2>2 DEF DataStep
    <3>2. pc[p] \notin Outer
      BY <3>1 DEF ReadFollow, WriteFollow, WriteCopy, TrimFree, At, Outer
    <3>3. ASSUME NEW q \in Procs, q # p PROVE pc'[q] \notin Started
      <4>1. pc[q] \in Outer
        BY <3>2, <3>3 DEF Alone
      <4> QED  BY <2>0, <3>3, <4>1 DEF Elsewhere, Started, CallLabels, Outer
    <3>4. CASE WriteCopy(p) \/ TrimFree(p, "open") \/ TrimFree(p, "o_up")
      <4>1. pc'[p] \in {"up", "open", "o_up"}
        BY <1>0, <3>4 DEF WriteCopy, TrimFree, Go
      <4>2. mixed' = {}
        BY <1>0, <3>4 DEF WriteCopy, TrimFree
      <4> QED  BY <3>3, <4>1, <4>2 DEF Started, CallLabels
    <3>5. CASE ReadFollow(p) \/ WriteFollow(p)
      <4>1. pc[p] \in Started /\ file' = file
        BY <3>5 DEF ReadFollow, WriteFollow, At, Started, CallLabels
      <4>2. SameParams(Dev(p), loc[p])
        BY <1>0, <4>1
      <4>3. mixed' = {}
        BY <1>0, <3>5, <4>2, NotStale
      <4>4. PICK data \in Bytes : dev' = [dev EXCEPT ![Dev(p)].data = data]
        BY <3>5, FollowedIs
      <4>5. Dev(p) \in Devs
        BY <3>5 DEF FilesOK, Outer, ProcLabels, ReadFollow, WriteFollow, At
      <4>6. dev'[Dev(p)].quantum = dev[Dev(p)].quantum /\ dev'[Dev(p)].qset = dev[Dev(p)].qset
        BY <1>0, <4>4, <4>5 DEF Devices
      <4>7. pc'[p] = "up" \/ (loc'[p].quantum = loc[p].quantum /\ loc'[p].qset = loc[p].qset)
        BY <3>5, FollowLocs
      <4>8. pc'[p] \in Started => SameParams(Dev(p), loc[p])'
        BY <4>1, <4>2, <4>6, <4>7 DEF SameParams, Dev, Started
      <4> QED  BY <3>3, <4>3, <4>8
    <3> QED  BY <3>1, <3>4, <3>5
  <2> QED  BY <2>0, <2>1, <2>2
<1> QED  BY <1>2, <1>3, <1>4 DEF DeviceNext

(***************************************************************************)
(* Who is inside.                                                          *)
(***************************************************************************)
Busy == {p \in Procs : At(p, "s_busy")}

(* Counting the processes in a set of them.                                *)
LEMMA Counted ==
  ASSUME NEW S \in SUBSET Procs
  PROVE  /\ IsFiniteSet(S) /\ Cardinality(S) \in Nat
         /\ Cardinality(S) = 0 <=> S = {}
         /\ Cardinality(S) <= 1 => \A p, q \in S : p = q
         /\ \A p \in Procs \ S : Cardinality(S \cup {p}) = Cardinality(S) + 1
         /\ \A p \in S : Cardinality(S \ {p}) = Cardinality(S) - 1
<1>1. IsFiniteSet(S)
  BY DeviceAssumption, FS_Subset
<1>2. Cardinality(S) \in Nat /\ (Cardinality(S) = 0 <=> S = {})
  BY <1>1, FS_CardinalityType, FS_EmptySet
<1>3. \A p \in Procs \ S : Cardinality(S \cup {p}) = Cardinality(S) + 1
  BY <1>1, FS_AddElement
<1>4. \A p \in S : Cardinality(S \ {p}) = Cardinality(S) - 1
  BY <1>1, FS_RemoveElement
<1>5. ASSUME Cardinality(S) <= 1, NEW p \in S, NEW q \in S PROVE p = q
  <2> DEFINE T == S \ {p}
  <2>1. IsFiniteSet(T) /\ Cardinality(T) = Cardinality(S) - 1
    BY <1>1, <1>4, FS_Subset
  <2>2. Cardinality(T) = 0
    BY <1>2, <1>5, <2>1, FS_CardinalityType
  <2>3. T = {}
    BY <2>1, <2>2, FS_EmptySet
  <2> QED  BY <2>3
<1> QED  BY <1>1, <1>2, <1>3, <1>4, <1>5

(* A process is inside exactly when it has a file that is not one of /proc.*)
LEMMA InsideIs ==
  ASSUME FilesOK
  PROVE  Inside = {p \in Procs : pc[p] \notin Outer \cup ProcLabels}
<1>1. ASSUME NEW p \in Procs
      PROVE  (file[p].dev # None /\ file[p].mode \in {"wronly", "rdwr"}) <=> pc[p] \notin Outer \cup ProcLabels
  <2>1. None \notin {"wronly", "rdwr", "proc", "seq"} /\ None \notin Devs
    BY DeviceAssumption DEF None
  <2> QED  BY <2>1 DEF FilesOK, NoFile, Dev
<1> QED  BY <1>1 DEF Inside

(* Calls and trims on an open file leave everybody where he is.            *)
LEMMA InsideStays ==
  ASSUME Types, NEW p \in Procs, InnerStep(p)
  PROVE  /\ Inside' = Inside
         /\ \A q \in Procs : \A l \in Outer : pc'[q] = l <=> pc[q] = l
<1>1. PICK l \in Inner \cap GatesOf(kind) : pc' = [pc EXCEPT ![p] = l]
  BY InnerStays DEF StaysInside
<1>2. pc[p] \in Inner /\ \A q \in Procs : file'[q].dev = file[q].dev /\ file'[q].mode = file[q].mode
  BY InnerStays DEF StaysInside, Dev
<1>3. Inside' = Inside
  BY <1>2 DEF Inside
<1>4. \A q \in Procs : \A m \in Outer : pc'[q] = m <=> pc[q] = m
  BY <1>1, <1>2 DEF Types, Inner
<1> QED  BY <1>3, <1>4

(* Passing a gate and leaving.                                             *)
LEMMA PassIs ==
  ASSUME Types, FilesOK, NEW p \in Procs, pc[p] \in Outer, NEW d \in Devs, Pass(p, d)
  PROVE  /\ p \notin Inside /\ Inside' = Inside \cup {p} /\ p \in Inside'
         /\ pc'[p] \in {"t_start", "open"} /\ \A q \in Procs : q # p => pc'[q] = pc[q]
<1>1. PICK mode \in {"wronly", "rdwr"} : Enter(p, d, mode, "t_start")
  BY DEF Pass
<1>2. file' = [file EXCEPT ![p] = [dev |-> d, mode |-> mode, pos |-> 0]]
  BY <1>1 DEF Enter
<1>3. pc'[p] \in {"t_start", "open"} /\ \A q \in Procs : q # p => pc'[q] = pc[q]
  BY <1>1 DEF Enter, Go, Types
<1>4. p \notin Inside
  BY InsideIs
<1>5. d # None
  BY DeviceAssumption
<1>6. Inside' = Inside \cup {p}
  BY <1>2, <1>5 DEF Inside, Types
<1> QED  BY <1>3, <1>4, <1>6

(* Whoever leaves was inside.                                              *)
LEMMA LeaveIs ==
  ASSUME Types, FilesOK, NEW p \in Procs, pc[p] = "open", file' = [file EXCEPT ![p] = NoFile]
  PROVE  p \in Inside /\ Inside' = Inside \ {p}
<1>1. p \in Inside
  BY InsideIs DEF Outer, ProcLabels
<1>2. Inside' = Inside \ {p}
  BY DEF Inside, Types, NoFile
<1> QED  BY <1>1, <1>2

(* A process that does not get in moves on outside.                        *)
LEMMA MoveIs ==
  ASSUME Types, NEW p \in Procs, NEW l, Move(p, l)
  PROVE  Inside' = Inside /\ pc'[p] = l /\ \A q \in Procs : q # p => pc'[q] = pc[q]
BY DEF Move, Go, Inside, Types

(***************************************************************************)
(* The gates.                                                              *)
(***************************************************************************)
GateTypes == available \in Int /\ count \in Nat /\ waiting \subseteq Procs

(* What happens on a device that only one of the gates guards.             *)
LEMMA GuardedStep ==
  ASSUME Types, FilesOK, [Next]_vars, kind # "plain"
  PROVE  /\ kind' = kind
         /\ \/ /\ UNCHANGED <<available, count, owner, waiting>> /\ Inside' = Inside
               /\ \A q \in Procs : \A l \in Outer : pc'[q] = l <=> pc[q] = l
            \/ \E p \in Procs : SingleStep(p) \/ UidStep(p) \/ WuidStep(p) \/ PrivStep(p)
<1>0. kind' = kind
  BY StepShape
<1>1. CASE UNCHANGED vars
  BY <1>1 DEF vars, deviceVars, gate, Inside
<1>2. CASE Unload /\ clones' = {} /\ UNCHANGED <<kind, available, count, owner, waiting>>
  BY <1>2 DEF Unload, Inside
<1>3. ASSUME NEW p \in Clients[kind],
             (FileStep(p) \/ (p \in Users[kind] /\ Call(p))) /\ UNCHANGED <<kind, gate>>
      PROVE  /\ UNCHANGED <<available, count, owner, waiting>> /\ Inside' = Inside
             /\ \A q \in Procs : \A l \in Outer : pc'[q] = l <=> pc[q] = l
  <2>1. p \in Procs /\ InnerStep(p)
    BY <1>3, AccessAssumption DEF Types, InnerStep
  <2> QED  BY <1>3, <2>1, InsideStays DEF gate
<1>4. ASSUME NEW p \in Clients[kind], TrimFree(p, "open") /\ UNCHANGED <<kind, gate>>
      PROVE  /\ UNCHANGED <<available, count, owner, waiting>> /\ Inside' = Inside
             /\ \A q \in Procs : \A l \in Outer : pc'[q] = l <=> pc[q] = l
  <2>1. p \in Procs /\ InnerStep(p)
    BY <1>4, AccessAssumption DEF Types, InnerStep
  <2> QED  BY <1>4, <2>1, InsideStays DEF gate
<1>5. ASSUME NEW p \in Clients[kind], SingleStep(p) \/ UidStep(p) \/ WuidStep(p) \/ PrivStep(p)
      PROVE  \E q \in Procs : SingleStep(q) \/ UidStep(q) \/ WuidStep(q) \/ PrivStep(q)
  BY <1>5, AccessAssumption DEF Types
<1> QED  BY <1>0, <1>1, <1>2, <1>3, <1>4, <1>5 DEF Next

(* scullsingle: the counter accounts for everybody.                        *)
LEMMA OneOpenerStep ==
  ASSUME Types, FilesOK, GateTypes, OneOpener, [Next]_vars
  PROVE  OneOpener' /\ (kind = "single" => available' \in Int)
<1> SUFFICES ASSUME kind = "single"
             PROVE  /\ Cardinality(Inside') <= 1 /\ available' \in Int
                    /\ available' = 1 - Cardinality(Inside') - Cardinality(Busy')
  <2>1. kind' = kind
    BY StepShape
  <2> QED  BY <2>1 DEF OneOpener, Busy, At
<1>0. /\ available \in Int /\ available = 1 - Cardinality(Inside) - Cardinality(Busy) /\ Cardinality(Inside) <= 1
      /\ Inside \in SUBSET Procs /\ Busy \in SUBSET Procs /\ pc \in [Procs -> Labels]
  BY DEF GateTypes, OneOpener, Busy, Inside, At, Types
<1>0a. Cardinality(Inside) \in Nat /\ Cardinality(Busy) \in Nat
  BY <1>0, Counted
<1>1. CASE /\ UNCHANGED <<available, count, owner, waiting>> /\ Inside' = Inside
           /\ \A q \in Procs : \A l \in Outer : pc'[q] = l <=> pc[q] = l
  <2>1. Busy' = Busy
    BY <1>1 DEF Busy, At, Outer
  <2> QED  BY <1>0, <1>1, <2>1
<1>2. ASSUME NEW p \in Procs, SingleOpen(p), available' = 0, Pass(p, TheDevice)
      PROVE  /\ Cardinality(Inside') <= 1 /\ available' \in Int
             /\ available' = 1 - Cardinality(Inside') - Cardinality(Busy')
  <2>1. pc[p] \in Outer /\ pc[p] # "s_busy" /\ available = 1
    BY <1>0, <1>2 DEF SingleOpen, At, Outer
  <2>2. /\ p \notin Inside /\ Inside' = Inside \cup {p}
        /\ pc'[p] \in {"t_start", "open"} /\ \A q \in Procs : q # p => pc'[q] = pc[q]
    BY <1>2, <2>1, PassIs, TheDeviceType
  <2>3. Busy' = Busy
    BY <2>1, <2>2 DEF Busy, At
  <2>4. Cardinality(Inside') = Cardinality(Inside) + 1
    BY <1>0, <2>2, Counted
  <2> QED  BY <1>0, <1>0a, <1>2, <2>1, <2>3, <2>4
<1>3. ASSUME NEW p \in Procs, SingleOpen(p), Move(p, "s_busy")
      PROVE  /\ Cardinality(Inside') <= 1 /\ available' \in Int
             /\ available' = 1 - Cardinality(Inside') - Cardinality(Busy')
  <2>1. pc[p] = "idle" /\ available' = available - 1
    BY <1>3 DEF SingleOpen, At
  <2>2. Inside' = Inside /\ pc'[p] = "s_busy" /\ \A q \in Procs : q # p => pc'[q] = pc[q]
    BY <1>3, MoveIs
  <2>3. Busy' = Busy \cup {p} /\ p \notin Busy
    BY <2>1, <2>2 DEF Busy, At
  <2>4. Cardinality(Busy') = Cardinality(Busy) + 1
    BY <1>0, <2>3, Counted
  <2> QED  BY <1>0, <1>0a, <2>1, <2>2, <2>4
<1>4. ASSUME NEW p \in Procs, SingleBusy(p)
      PROVE  /\ Cardinality(Inside') <= 1 /\ available' \in Int
             /\ available' = 1 - Cardinality(Inside') - Cardinality(Busy')
  <2>1. pc[p] = "s_busy" /\ available' = available + 1
    BY <1>4 DEF SingleBusy, At
  <2>2. Inside' = Inside /\ pc'[p] = "idle" /\ \A q \in Procs : q # p => pc'[q] = pc[q]
    BY <1>4, MoveIs DEF SingleBusy
  <2>3. Busy' = Busy \ {p} /\ p \in Busy
    BY <2>1, <2>2 DEF Busy, At
  <2>4. Cardinality(Busy') = Cardinality(Busy) - 1
    BY <1>0, <2>3, Counted
  <2> QED  BY <1>0, <1>0a, <2>1, <2>2, <2>4
<1>5. ASSUME NEW p \in Procs, SingleRelease(p)
      PROVE  /\ Cardinality(Inside') <= 1 /\ available' \in Int
             /\ available' = 1 - Cardinality(Inside') - Cardinality(Busy')
  <2>1. pc[p] = "open" /\ available' = available + 1 /\ file' = [file EXCEPT ![p] = NoFile]
        /\ pc' = [pc EXCEPT ![p] = "idle"]
    BY <1>5 DEF SingleRelease, Release, At, Go
  <2>2. p \in Inside /\ Inside' = Inside \ {p}
    BY <2>1, LeaveIs
  <2>3. Busy' = Busy
    BY <1>0, <2>1 DEF Busy, At
  <2>4. Cardinality(Inside') = Cardinality(Inside) - 1
    BY <1>0, <2>2, Counted
  <2> QED  BY <1>0, <1>0a, <2>1, <2>3, <2>4
<1>6. ASSUME NEW p \in Procs, SingleStep(p)
      PROVE  /\ Cardinality(Inside') <= 1 /\ available' \in Int
             /\ available' = 1 - Cardinality(Inside') - Cardinality(Busy')
  <2>1. CASE SingleOpen(p)
    BY <1>2, <1>3, <2>1 DEF SingleOpen
  <2> QED  BY <1>4, <1>5, <1>6, <2>1 DEF SingleStep
<1> QED  BY <1>1, <1>6, GuardedStep DEF UidStep, WuidStep, Waiter, PrivStep

(* What a step of sculluid or scullwuid does with the count and the owner. *)
UserStep(p) ==
  \/ /\ Available(p) /\ Grab(p) /\ Pass(p, TheDevice) /\ pc[p] \in {"idle", "w_again"}
  \/ /\ pc[p] = "open" /\ file' = [file EXCEPT ![p] = NoFile]
     /\ count' = count - 1 /\ owner' = owner
  \/ Inside' = Inside /\ count' = count /\ owner' = owner

(* Every step of the two devices is one of these.                          *)
LEMMA UserStepIs ==
  ASSUME Types, NEW p \in Procs, UidStep(p) \/ WuidStep(p)
  PROVE  UserStep(p)
<1>1. ASSUME NEW l, Move(p, l), UNCHANGED <<count, owner>> PROVE UserStep(p)
  BY <1>1, MoveIs DEF UserStep
<1>2. CASE UidStep(p)
  BY <1>2 DEF UidStep, UidOpen, UidRelease, Release, UserStep, At
<1>3. CASE WaitEnqueue(p) \/ WaitTest(p) \/ WaitWoken(p) \/ WaitWake(p) \/ WaitSignal(p)
  <2>1. \E l : Move(p, l)
    BY <1>3 DEF WaitEnqueue, WaitTest, WaitWoken, WaitWake, WaitSignal
  <2>2. UNCHANGED <<count, owner>>
    BY <1>3 DEF WaitEnqueue, WaitTest, WaitWoken, WaitWake, WaitSignal, gate
  <2> QED  BY <1>1, <2>1, <2>2
<1>4. CASE WaitOpen(p)
  BY <1>1, <1>4 DEF WaitOpen, UserStep
<1>5. CASE WaitRelease(p)
  BY <1>5 DEF WaitRelease, UserStep, At
<1> QED  BY <1>2, <1>3, <1>4, <1>5 DEF WuidStep, Waiter

(* sculluid, scullwuid: the count accounts for everybody inside, and the   *)
(* first of them has set the owner.                                        *)
LEMMA OneUserStep ==
  ASSUME Types, FilesOK, GateTypes, OneUser, [Next]_vars
  PROVE  OneUser' /\ (kind \in {"uid", "wuid"} => count' \in Nat)
<1> SUFFICES ASSUME kind \in {"uid", "wuid"}
             PROVE  /\ count' = Cardinality(Inside') /\ count' \in Nat
                    /\ \A p \in Inside' : owner' \in {Uid[p], Euid[p]} \/ p \in Capable
  <2>1. kind' = kind
    BY StepShape
  <2> QED  BY <2>1 DEF OneUser
<1>0. /\ count \in Nat /\ count = Cardinality(Inside) /\ Inside \in SUBSET Procs
      /\ \A p \in Inside : owner \in {Uid[p], Euid[p]} \/ p \in Capable
  BY DEF GateTypes, OneUser, Inside
<1>1. CASE UNCHANGED <<available, count, owner, waiting>> /\ Inside' = Inside
  BY <1>0, <1>1
<1>2. ASSUME NEW p \in Procs, UserStep(p)
      PROVE  /\ count' = Cardinality(Inside') /\ count' \in Nat
             /\ \A q \in Inside' : owner' \in {Uid[q], Euid[q]} \/ q \in Capable
  <2>1. CASE Available(p) /\ Grab(p) /\ Pass(p, TheDevice) /\ pc[p] \in {"idle", "w_again"}
    <3>1. p \notin Inside /\ Inside' = Inside \cup {p}
      BY <2>1, PassIs, TheDeviceType DEF Outer
    <3>2. Cardinality(Inside') = Cardinality(Inside) + 1
      BY <1>0, <3>1, Counted
    <3>3. count' = count + 1
      BY <2>1 DEF Grab
    <3>4. CASE count = 0
      <4>1. Inside = {} /\ owner' = Uid[p]
        BY <1>0, <2>1, <3>4, Counted DEF Grab
      <4> QED  BY <1>0, <3>1, <3>2, <3>3, <4>1
    <3>5. CASE count # 0
      <4>1. owner' = owner /\ (owner \in {Uid[p], Euid[p]} \/ p \in Capable)
        BY <2>1, <3>5 DEF Grab, Available
      <4> QED  BY <1>0, <3>1, <3>2, <3>3, <4>1
    <3> QED  BY <3>4, <3>5
  <2>2. CASE /\ pc[p] = "open" /\ file' = [file EXCEPT ![p] = NoFile]
             /\ count' = count - 1 /\ owner' = owner
    <3>1. p \in Inside /\ Inside' = Inside \ {p}
      BY <2>2, LeaveIs
    <3>2. Cardinality(Inside') = Cardinality(Inside) - 1 /\ Inside' \in SUBSET Procs
      BY <1>0, <3>1, Counted
    <3>3. Cardinality(Inside') \in Nat
      BY <3>2, Counted
    <3> QED  BY <1>0, <2>2, <3>1, <3>2, <3>3
  <2>3. CASE Inside' = Inside /\ count' = count /\ owner' = owner
    BY <1>0, <2>3
  <2> QED  BY <1>2, <2>1, <2>2, <2>3 DEF UserStep
<1> QED  BY <1>1, <1>2, GuardedStep, UserStepIs DEF SingleStep, PrivStep

(* The gates keep their types.                                             *)
LEMMA GateTypesStep ==
  ASSUME Types, FilesOK, GateTypes, OneOpener, OneUser, [Next]_vars
  PROVE  GateTypes'
<1>0. available \in Int /\ count \in Nat /\ waiting \subseteq Procs
  BY DEF GateTypes
<1>1. available' \in Int
  <2>1. CASE kind = "single"
    BY <2>1, OneOpenerStep
  <2>2. CASE kind = "plain"
    <3>1. available' = available
      BY <2>2 DEF Next, vars, gate, SingleStep, UidStep, WuidStep, Waiter, PrivStep
    <3> QED  BY <1>0, <3>1
  <2>3. CASE kind \notin {"single", "plain"}
    <3>1. available' = available
      BY <2>3, GuardedStep DEF SingleStep, UidStep, WuidStep, Waiter, PrivStep, PrivOpen, gate,
         UidOpen, UidRelease, WaitOpen, WaitEnqueue, WaitTest, WaitWoken, WaitSignal, WaitRelease, WaitWake
    <3> QED  BY <1>0, <3>1
  <2> QED  BY <2>1, <2>2, <2>3
<1>2. count' \in Nat
  <2>1. CASE kind \in {"uid", "wuid"}
    BY <2>1, OneUserStep
  <2>2. CASE kind = "plain"
    <3>1. count' = count
      BY <2>2 DEF Next, vars, gate, SingleStep, UidStep, WuidStep, Waiter, PrivStep
    <3> QED  BY <1>0, <3>1
  <2>3. CASE kind \notin {"uid", "wuid", "plain"}
    <3>1. count' = count
      BY <2>3, GuardedStep DEF SingleStep, UidStep, WuidStep, Waiter, PrivStep, PrivOpen, gate,
         SingleOpen, SingleBusy, SingleRelease
    <3> QED  BY <1>0, <3>1
  <2> QED  BY <2>1, <2>2, <2>3
<1>3. waiting' \subseteq Procs
  <2>1. CASE kind = "plain"
    <3>1. waiting' = waiting
      BY <2>1 DEF Next, vars, gate, SingleStep, UidStep, WuidStep, Waiter, PrivStep
    <3> QED  BY <1>0, <3>1
  <2>2. ASSUME NEW p \in Procs, SingleStep(p) \/ UidStep(p) \/ PrivStep(p) PROVE waiting' = waiting
    BY <2>2 DEF SingleStep, UidStep, PrivStep, PrivOpen, gate,
         SingleOpen, SingleBusy, SingleRelease, UidOpen, UidRelease
  <2>3. ASSUME NEW p \in Procs, WuidStep(p) PROVE waiting' \subseteq waiting \cup {p}
    BY <2>3 DEF WuidStep, Waiter, gate,
         WaitOpen, WaitEnqueue, WaitTest, WaitWoken, WaitSignal, WaitRelease, WaitWake
  <2>4. CASE kind # "plain"
    BY <1>0, <2>2, <2>3, <2>4, GuardedStep
  <2> QED  BY <2>1, <2>4
<1> QED  BY <1>1, <1>2, <1>3 DEF GateTypes

(* With one opener, one process is beyond the gate.                        *)
LEMMA OneIsAlone ==
  ASSUME FilesOK, OneOpener
  PROVE  Alone
<1> SUFFICES ASSUME kind = "single", NEW p \in Procs, NEW q \in Procs, pc[p] \notin Outer, pc[q] \notin Outer
             PROVE  p = q
  BY DEF Alone
<1>1. pc[p] \notin ProcLabels /\ pc[q] \notin ProcLabels
  BY DEF FilesOK, GatesOf
<1>2. p \in Inside /\ q \in Inside
  BY <1>1, InsideIs
<1>3. Inside \in SUBSET Procs /\ Cardinality(Inside) <= 1
  BY DEF OneOpener, Inside
<1> QED  BY <1>2, <1>3, Counted

(***************************************************************************)
(* Sleepers.                                                               *)
(***************************************************************************)
(* Only a close that lets everybody in, or an open by a new first user,    *)
(* can make the device available to somebody.                              *)
LEMMA WokenStep ==
  ASSUME Types, FilesOK, GateTypes, OneUser, OpenersWoken, [Next]_vars
  PROVE  OpenersWoken'
<1> SUFFICES ASSUME NEW p \in Procs, pc'[p] = "w_sleep", p \in waiting', Available(p)'
             PROVE  \E q \in Procs : pc'[q] = "w_wake"
  BY DEF OpenersWoken, At
<1>0. pc \in [Procs -> Labels] /\ kind' = kind
  BY StepShape DEF Types
<1>1. kind = "wuid"
  <2>1. FilesOK'
    BY StepShape, FilesStep
  <2> QED  BY <1>0, <2>1 DEF FilesOK, GatesOf, Outer
<1>2. ASSUME NEW r \in Procs, pc[r] = "w_wake", pc'[r] = pc[r] PROVE \E q \in Procs : pc'[q] = "w_wake"
  BY <1>2
<1>3. ASSUME pc[p] = "w_sleep", p \in waiting, Available(p) PROVE \E q \in Procs : pc[q] = "w_wake"
  BY <1>3 DEF OpenersWoken, At
<1>4. CASE /\ UNCHANGED <<available, count, owner, waiting>>
           /\ \A q \in Procs : \A l \in Outer : pc'[q] = l <=> pc[q] = l
  <2>1. pc[p] = "w_sleep" /\ p \in waiting /\ Available(p)
    BY <1>4 DEF Outer, Available
  <2> QED  BY <1>3, <1>4, <2>1 DEF Outer
<1>5. ASSUME NEW r \in Procs, WuidStep(r) PROVE \E q \in Procs : pc'[q] = "w_wake"
  <2>1. CASE WaitWake(r)
    BY <2>1 DEF WaitWake
  <2>2. CASE WaitRelease(r)
    <3>1. /\ pc[r] = "open" /\ file' = [file EXCEPT ![r] = NoFile] /\ count' = count - 1
          /\ pc' = [pc EXCEPT ![r] = IF count = 1 THEN "w_wake" ELSE "idle"]
          /\ waiting' = waiting /\ owner' = owner
      BY <2>2 DEF WaitRelease, At, Go
    <3>2. CASE count = 1
      BY <1>0, <3>1, <3>2
    <3>3. CASE count # 1
      <4>1. pc[p] = "w_sleep" /\ p \in waiting
        BY <1>0, <3>1, <3>3
      <4>2. count' # 0
        BY <3>1, <3>3 DEF GateTypes
      <4>3. Available(p)
        BY <3>1, <4>2 DEF Available
      <4>4. PICK q \in Procs : pc[q] = "w_wake"
        BY <1>3, <4>1, <4>3
      <4>5. q # r
        BY <3>1, <4>4
      <4> QED  BY <1>0, <3>1, <4>4, <4>5
    <3> QED  BY <3>2, <3>3
  <2>3. CASE WaitOpen(r) /\ Grab(r) /\ Pass(r, TheDevice)
    <3>1. /\ pc[r] \in {"idle", "w_again"} /\ waiting' = waiting
          /\ \A q \in Procs : q # r => pc'[q] = pc[q]
          /\ pc'[r] \in {"t_start", "open"}
      BY <2>3, PassIs, TheDeviceType DEF WaitOpen, Outer
    <3>2. pc[p] = "w_sleep" /\ p \in waiting
      BY <3>1
    <3>3. CASE count = 0
      <4>1. PICK q \in Procs : pc[q] = "w_wake"
        BY <1>3, <3>2, <3>3 DEF Available
      <4> QED  BY <3>1, <4>1
    <3>4. CASE count # 0
      <4>1. owner' = owner
        BY <2>3, <3>4 DEF Grab
      <4>2. count' # 0
        BY <2>3 DEF Grab, GateTypes
      <4>3. Available(p)
        BY <4>1, <4>2 DEF Available
      <4>4. PICK q \in Procs : pc[q] = "w_wake"
        BY <1>3, <3>2, <4>3
      <4> QED  BY <3>1, <4>4
    <3> QED  BY <3>3, <3>4
  <2>4. CASE \/ WaitOpen(r) /\ Move(r, "w_enqueue") /\ UNCHANGED <<count, owner>>
             \/ WaitEnqueue(r) \/ WaitTest(r) \/ WaitWoken(r) \/ WaitSignal(r)
    <3>1. /\ UNCHANGED <<count, owner>> /\ waiting' \subseteq waiting \cup {r}
          /\ pc[r] # "w_wake" /\ \A q \in Procs : q # r => pc'[q] = pc[q]
      <4>1. \E l : Move(r, l)
        BY <2>4 DEF WaitEnqueue, WaitTest, WaitWoken, WaitSignal
      <4> QED  BY <2>4, <4>1, MoveIs DEF WaitOpen, WaitEnqueue, WaitTest, WaitWoken, WaitSignal, At, gate
    <3>2. CASE p # r
      <4>1. pc[p] = "w_sleep" /\ p \in waiting /\ Available(p)
        BY <3>1, <3>2 DEF Available
      <4>2. PICK q \in Procs : pc[q] = "w_wake"
        BY <1>3, <4>1
      <4> QED  BY <3>1, <4>2
    <3>3. CASE p = r
      <4>1. WaitTest(r) /\ ~Available(r)
        <5>1. ASSUME NEW l, Move(r, l) PROVE l = "w_sleep"
          BY <3>3, <5>1, MoveIs
        <5> QED  BY <2>4, <5>1 DEF WaitEnqueue, WaitTest, WaitWoken, WaitSignal
      <4>2. ~Available(p)'
        BY <3>1, <3>3, <4>1 DEF Available
      <4> QED  BY <4>2
    <3> QED  BY <3>2, <3>3
  <2> QED  BY <1>5, <2>1, <2>2, <2>3, <2>4 DEF WuidStep, Waiter, WaitOpen
<1> QED  BY <1>1, <1>4, <1>5, GuardedStep DEF SingleStep, UidStep, PrivStep

(***************************************************************************)
(* Accesses to memory.                                                     *)
(***************************************************************************)
(* Whoever follows the list by the parameters of the device stays inside   *)
(* the arrays of quanta.                                                   *)
LEMMA ReadInside ==
  ASSUME Types, FilesOK, LocsOK, ShapesOK, NEW p \in Procs, ReadFollow(p), Dev(p) \notin mixed'
  PROVE  hits' = hits
<1> DEFINE at == Place(file[p].pos, loc[p])
           l == loc[p]
           D == dev[Dev(p)]
           SetOf(data) == IF Reached(data, at) THEN data[at.item + 1] ELSE <<>>
<1>1. pc[p] \in Started
  BY DEF ReadFollow, At, Started, CallLabels
<1>2. D.data \in Bytes /\ at.item \in Nat /\ at.s_pos \in 0 .. l.qset - 1 /\ Dev(p) \in Devs
  BY <1>1, AtPlace DEF Devices
<1>3. Regular(D.data, l.quantum, l.qset)
  BY <1>2, NotStale DEF ShapesOK, SameParams
<1>4. ASSUME NEW data \in Follow(D.data, at.item), SetOf(data) # <<>>
      PROVE  at.s_pos < Len(SetOf(data))
  <2>1. data \in Bytes
    BY <1>2, FollowIs
  <2>2. Regular(data, l.quantum, l.qset)
    BY <1>2, <1>3, FollowRegular
  <2>3. Reached(data, at) /\ SetOf(data) = data[at.item + 1]
    BY <1>4
  <2>4. Len(data) \in Nat
    BY <2>1, LenProperties DEF Bytes
  <2> HIDE DEF at
  <2>5. at.item + 1 \in 1 .. Len(data)
    BY <1>2, <2>3, <2>4 DEF Reached
  <2>6. Len(SetOf(data)) = l.qset
    BY <1>4, <2>2, <2>3, <2>5 DEF Regular
  <2> QED  BY <1>2, <2>6
<1>5. \/ hits' = hits
      \/ \E data \in Follow(D.data, at.item) :
           hits' = IF SetOf(data) # <<>> /\ ~(at.s_pos < Len(SetOf(data)))
                   THEN hits \cup {Outside(Dev(p))} ELSE hits
  BY Zenon DEF ReadFollow
<1> HIDE DEF at, D, SetOf
<1> QED  BY <1>4, <1>5

(* The same for a write, which allocates the array if there is none.       *)
LEMMA WriteInside ==
  ASSUME Types, FilesOK, LocsOK, ShapesOK, NEW p \in Procs, WriteFollow(p), Dev(p) \notin mixed'
  PROVE  hits' = hits
<1> DEFINE at == Place(file[p].pos, loc[p])
           l == loc[p]
           D == dev[Dev(p)]
           SetOf(data) == Grown(data[at.item + 1], at, l)
<1>1. pc[p] \in Started
  BY DEF WriteFollow, At, Started, CallLabels
<1>2. /\ D.data \in Bytes /\ at.item \in Nat /\ at.s_pos \in 0 .. l.qset - 1 /\ Dev(p) \in Devs
      /\ l.quantum \in Nat \ {0} /\ l.qset \in Nat \ {0} /\ at.s_pos \in Nat
  BY <1>1, AtPlace DEF Devices
<1>3. Regular(D.data, l.quantum, l.qset)
  BY <1>2, NotStale DEF ShapesOK, SameParams
<1>4. ASSUME NEW data \in Follow(D.data, at.item), Reached(data, at)
      PROVE  at.s_pos < Len(SetOf(data))
  <2>1. data \in Bytes
    BY <1>2, FollowIs
  <2>2. Regular(data, l.quantum, l.qset)
    BY <1>2, <1>3, FollowRegular
  <2>4. Len(data) \in Nat
    BY <2>1, LenProperties DEF Bytes
  <2> DEFINE i == at.item + 1
  <2>5. i \in 1 .. Len(data)
    <3> HIDE DEF at
    <3> QED  BY <1>2, <1>4, <2>4 DEF Reached
  <2> HIDE DEF i
  <2>6. data[i] \in Seq(Seq(Int))
    BY <2>1, <2>5, ElementOfSeq DEF Bytes
  <2>7. data[i] # <<>> => Len(data[i]) = l.qset
    BY <2>2, <2>5 DEF Regular
  <2> HIDE DEF at, l
  <2>8. Len(Grown(data[i], at, l)) = l.qset
    BY <1>2, <2>6, <2>7, GrownIs
  <2> QED  BY <1>2, <2>8 DEF i
<1>5. \/ hits' = hits
      \/ \E data \in Follow(D.data, at.item) :
           Reached(data, at) /\ ~(at.s_pos < Len(SetOf(data)))
  BY Zenon DEF WriteFollow
<1> HIDE DEF at, D, SetOf
<1> QED  BY <1>4, <1>5

(* A copy through a live pointer into a list that nobody mistook stays     *)
(* inside its quantum.                                                     *)
LEMMA CopyWithin ==
  ASSUME Types, FilesOK, LocsOK, ShapesOK, QuantaOK, NEW p \in Procs, Copying(p)
  PROVE  /\ Within(p) /\ Quantum(p) # <<>> /\ SameParams(Dev(p), loc[p])
         /\ Len(Quantum(p)) = loc[p].quantum
<1> DEFINE at == Place(file[p].pos, loc[p])
           D == dev[Dev(p)]
           i == at.item + 1
           j == at.s_pos + 1
<1>1. Quantum(p) # <<>> /\ SameParams(Dev(p), loc[p]) /\ pc[p] \in Started /\ Dev(p) \in Devs \ mixed
  BY DEF QuantaOK, Copying, Started, CallLabels, FilesOK, Outer, ProcLabels
<1>2. Regular(D.data, D.quantum, D.qset)
  BY <1>1 DEF ShapesOK
<1>3. /\ i \in 1 .. Len(D.data) /\ j \in 1 .. Len(D.data[i]) /\ Quantum(p) = D.data[i][j]
      /\ D.data[i] \in Seq(Seq(Int))
  BY <1>1, QuantumIs
<1>4. D.data[i] # <<>>
  <2> HIDE DEF i, j
  <2> QED  BY <1>3, EmptySeq
<1>5. Len(Quantum(p)) = loc[p].quantum
  <2> HIDE DEF i, j, D
  <2>1. Len(D.data[i]) = D.qset
    BY <1>2, <1>3, <1>4 DEF Regular
  <2>2. Len(D.data[i][j]) = D.quantum
    BY <1>1, <1>2, <1>3, <1>4, <2>1 DEF Regular
  <2> QED  BY <1>1, <1>3, <2>2 DEF SameParams, D
<1>6. at.q_pos + loc[p].count <= loc[p].quantum
  BY DEF LocsOK, Copying
<1> QED  BY <1>1, <1>5, <1>6 DEF Within

(* What a step records as a wrong access.                                  *)
Allowed(k) == CASE k = "plain"  -> {"mixed", "proc"}
                [] k = "single" -> {}
                [] OTHER        -> {"mixed", "copy", "trim"}

(* No step records an access that MemorySafe does not name.                *)
LEMMA HitsStep ==
  ASSUME Types, FilesOK, SemsOK, RefsOK, LocsOK, ShapesOK, QuantaOK, SingleOK, Alone,
         MemorySafe, kind' = kind, DeviceNext
  PROVE  MemorySafe'
<1>0. hits \subseteq Allowed(kind) /\ (kind = "single" => mixed = {})
  BY DEF MemorySafe, Allowed, SingleOK
<1> SUFFICES hits' \subseteq Allowed(kind)
  BY DEF MemorySafe, Allowed
<1>1. kind # "single" => "mixed" \in Allowed(kind)
  BY DEF Allowed
<1>2. CASE UNCHANGED <<deviceVars, clones>> \/ Unload
  BY <1>0, <1>2 DEF deviceVars, Unload
<1>3. ASSUME NEW p \in Procs, pc[p] \in {"t_free", "r_copy", "w_copy"}, ref[p] = "freed"
      PROVE  {"copy", "trim"} \subseteq Allowed(kind)
  <2>1. kind # "single" /\ kind # "plain"
    BY <1>3 DEF RefsOK, ProcLabels
  <2> QED  BY <2>1 DEF Allowed
<1>4. ASSUME NEW p \in Procs, pc[p] \in {"r_copy", "w_copy"}, mixed' = mixed
      PROVE  Miss(p) \subseteq Allowed(kind)
  <2>1. CASE ref[p] = "freed"
    BY <1>3, <1>4, <2>1 DEF Miss
  <2>2. CASE ref[p] # "freed" /\ Within(p)
    BY <2>2 DEF Miss
  <2>3. CASE ref[p] # "freed" /\ ~Within(p)
    <3>1. ref[p] = "live"
      BY <1>4, <2>3 DEF RefsOK, Types
    <3>2. Dev(p) \in mixed
      BY <1>4, <2>3, <3>1, CopyWithin DEF Copying
    <3> QED  BY <1>0, <1>1, <1>4, <2>3, <3>2 DEF Miss, Outside
  <2> QED  BY <2>1, <2>2, <2>3
<1>5. ASSUME NEW p \in Procs, DeviceStep(p)
      PROVE  hits' \subseteq Allowed(kind)
  <2>1. CASE ReadFollow(p) \/ WriteFollow(p)
    <3>1. CASE Dev(p) \notin mixed'
      BY <1>0, <2>1, <3>1, ReadInside, WriteInside
    <3>2. CASE Dev(p) \in mixed'
      <4>1. hits' \subseteq hits \cup {"mixed"}
        <5>1. CASE ReadFollow(p)
          BY <3>2, <5>1 DEF ReadFollow, Outside
        <5>2. CASE WriteFollow(p)
          BY <3>2, <5>2 DEF WriteFollow, Outside
        <5> QED  BY <2>1, <5>1, <5>2
      <4>2. kind # "single"
        BY <3>2, SingleNeverStale DEF SingleOK
      <4> QED  BY <1>0, <1>1, <4>1, <4>2
    <3> QED  BY <3>1, <3>2
  <2>2. CASE ReadCopy(p) \/ WriteFault(p) \/ WriteCopy(p)
    <3>1. pc[p] \in {"r_copy", "w_copy"} /\ mixed' = mixed /\ hits' = hits \cup Miss(p)
      BY <2>2 DEF ReadCopy, WriteFault, WriteCopy, At
    <3> QED  BY <1>0, <1>4, <3>1
  <2>3. CASE TrimFree(p, "open") \/ TrimFree(p, "o_up")
    BY <1>0, <1>3, <2>3 DEF TrimFree, At
  <2>4. CASE kind = "plain" /\ ProcWalk(p)
    <3>1. pc[p] = "p_walk" /\ hits' = IF ref[p] = "freed" THEN hits \cup {file[p].mode} ELSE hits
      BY <2>4 DEF ProcWalk, Up, At
    <3>2. ref[p] = "freed" => file[p].mode = "proc"
      BY <2>4 DEF RefsOK
    <3>3. "proc" \in Allowed(kind)
      BY <2>4 DEF Allowed
    <3> QED  BY <1>0, <3>1, <3>2, <3>3
  <2>5. CASE hits' = hits
    BY <1>0, <2>5
  <2>6. \/ ReadFollow(p) \/ WriteFollow(p) \/ ReadCopy(p) \/ WriteFault(p) \/ WriteCopy(p)
        \/ TrimFree(p, "open") \/ TrimFree(p, "o_up") \/ (kind = "plain" /\ ProcWalk(p)) \/ hits' = hits
    BY <1>5 DEF DeviceStep, OuterMove, PassesGate, Leaves, KeepsData, FileStep, Call, PlainTrim, ProcStep,
       PrivOpen, Enters, Interrupted, Finish, Ioctl, TrimStart, Start, Llseek, OpenDown, OpenUp,
       ProcPeek, SeqStart, ProcDown
  <2> QED  BY <2>1, <2>2, <2>3, <2>4, <2>5, <2>6
<1> QED  BY <1>2, <1>5 DEF DeviceNext

(***************************************************************************)
(* The bytes at a position.                                                *)
(***************************************************************************)
Byte(data, at) ==
  IF Reached(data, at) /\ at.s_pos < Len(data[at.item + 1])
     /\ at.q_pos < Len(data[at.item + 1][at.s_pos + 1])
  THEN data[at.item + 1][at.s_pos + 1][at.q_pos + 1] ELSE Junk

IsPlace(at) == at.item \in Nat /\ at.s_pos \in Nat /\ at.q_pos \in Nat

(* What a read finds is the byte at its place in the list.                 *)
LEMMA StoredIs == \A d \in Devs, i \in Nat : Stored(d, i) = Byte(dev[d].data, Place(i, dev[d]))
BY Zenon DEF Stored, Byte

(* Filling holes loses no byte.                                            *)
LEMMA ByteKept ==
  ASSUME NEW a \in Bytes, NEW b \in Bytes, Preserves(a, b), NEW at, IsPlace(at), Byte(a, at) # Junk
  PROVE  Byte(b, at) = Byte(a, at)
<1> DEFINE i == at.item + 1
           j == at.s_pos + 1
<1>1. Reached(a, at) /\ at.s_pos < Len(a[i]) /\ at.q_pos < Len(a[i][j])
  BY DEF Byte
<1>2. Len(a) \in Nat /\ Len(b) \in Nat
  BY LenProperties DEF Bytes
<1>3. i \in 1 .. Len(a)
  BY <1>1, <1>2 DEF Reached, IsPlace
<1>4. a[i] \in Seq(Seq(Int))
  <2> HIDE DEF i
  <2> QED  BY <1>3, ElementOfSeq DEF Bytes
<1>5. Len(a[i]) \in Nat
  BY <1>4, LenProperties
<1>6. j \in 1 .. Len(a[i])
  BY <1>1, <1>5 DEF IsPlace
<1>7. a[i][j] # <<>>
  <2>1. Len(<<>>) = 0
    BY EmptySeq
  <2> QED  BY <1>1, <2>1 DEF IsPlace
<1>8. i \in 1 .. Len(b) /\ j \in 1 .. Len(b[i]) /\ b[i][j] = a[i][j]
  <2> HIDE DEF i, j
  <2> QED  BY <1>3, <1>6, <1>7 DEF Preserves
<1>9. b[i] \in Seq(Seq(Int))
  <2> HIDE DEF i
  <2> QED  BY <1>8, ElementOfSeq DEF Bytes
<1>10. Len(b[i]) \in Nat
  BY <1>9, LenProperties
<1>11. Reached(b, at) /\ at.s_pos < Len(b[i])
  BY <1>2, <1>8, <1>10 DEF Reached, IsPlace
<1> QED  BY <1>1, <1>8, <1>11 DEF Byte

(* Replacing a quantum changes the bytes in it only.                       *)
LEMMA BytePatched ==
  ASSUME NEW data \in Bytes, NEW i \in 1 .. Len(data), NEW j \in 1 .. Len(data[i]),
         NEW q \in Seq(Int), Len(q) = Len(data[i][j]), NEW at, IsPlace(at)
  PROVE  Byte([data EXCEPT ![i] = [@ EXCEPT ![j] = q]], at) =
           IF at.item + 1 = i /\ at.s_pos + 1 = j
           THEN IF at.q_pos < Len(q) THEN q[at.q_pos + 1] ELSE Junk
           ELSE Byte(data, at)
<1> DEFINE new == [data EXCEPT ![i] = [@ EXCEPT ![j] = q]]
           u == at.item + 1
           v == at.s_pos + 1
<1>1. /\ Len(new) = Len(data)
      /\ \A k \in 1 .. Len(new) : Len(new[k]) = Len(data[k]) /\ (new[k] = <<>> <=> data[k] = <<>>)
      /\ \A k \in 1 .. Len(new) : \A m \in 1 .. Len(new[k]) :
           new[k][m] = IF k = i /\ m = j THEN q ELSE data[k][m]
  BY PatchIs
<1>2. Len(data) \in Nat /\ Len(data[i]) \in Nat
  <2>1. data \in Seq(Seq(Seq(Int))) /\ data[i] \in Seq(Seq(Int))
    BY ElementOfSeq DEF Bytes
  <2> QED  BY <2>1, LenProperties
<1> HIDE DEF new
<1>3. Reached(new, at) <=> Reached(data, at)
  BY <1>1 DEF Reached
<1>4. CASE ~Reached(data, at)
  <2>1. ~(u = i)
    BY <1>2, <1>4 DEF Reached, IsPlace
  <2> QED  BY <1>3, <1>4, <2>1 DEF Byte, new
<1>5. CASE Reached(data, at)
  <2>1. u \in 1 .. Len(data)
    BY <1>2, <1>5 DEF Reached, IsPlace
  <2>2. Len(new[u]) = Len(data[u]) /\ Len(data[u]) \in Nat
    <3>1. data[u] \in Seq(Seq(Int))
      <4> HIDE DEF u
      <4> QED  BY <2>1, ElementOfSeq DEF Bytes
    <3>2. Len(data[u]) \in Nat
      BY <3>1, LenProperties
    <3> HIDE DEF u
    <3> QED  BY <1>1, <2>1, <3>2
  <2>3. CASE ~(at.s_pos < Len(data[u]))
    <3>1. ~(u = i /\ v = j)
      BY <1>2, <2>3 DEF IsPlace
    <3> QED  BY <2>2, <2>3, <3>1 DEF Byte, new
  <2>4. CASE at.s_pos < Len(data[u])
    <3>1. v \in 1 .. Len(data[u])
      BY <2>2, <2>4 DEF IsPlace
    <3>2. new[u][v] = IF u = i /\ v = j THEN q ELSE data[u][v]
      <4> HIDE DEF u, v
      <4> QED  BY <1>1, <2>1, <2>2, <3>1
    <3>3. Byte(new, at) = IF at.q_pos < Len(new[u][v]) THEN new[u][v][at.q_pos + 1] ELSE Junk
      BY <1>3, <1>5, <2>2, <2>4 DEF Byte
    <3>4. Byte(data, at) = IF at.q_pos < Len(data[u][v]) THEN data[u][v][at.q_pos + 1] ELSE Junk
      BY <1>5, <2>4 DEF Byte
    <3> QED  BY <3>2, <3>3, <3>4 DEF new
  <2> QED  BY <2>3, <2>4
<1> QED  BY <1>4, <1>5

(***************************************************************************)
(* The device is a file.                                                   *)
(***************************************************************************)
(* What a write leaves at a position: the position itself in what it has   *)
(* written, and in the rest of the quantum what was there.                 *)
LEMMA PatchedByte ==
  ASSUME Types, FilesOK, LocsOK, ShapesOK, QuantaOK, NEW p \in Procs, Copying(p), NEW i \in Nat,
         Place(i, loc[p]).item = Place(file[p].pos, loc[p]).item,
         Place(i, loc[p]).s_pos = Place(file[p].pos, loc[p]).s_pos,
         \/ i \in file[p].pos .. file[p].pos + loc[p].count - 1
         \/ Quantum(p)[Place(i, loc[p]).q_pos + 1] = i
  PROVE  LET q == Place(i, loc[p]).q_pos
         IN  q < Len(Patched(p)) /\ Patched(p)[q + 1] = i
<1> DEFINE pos == file[p].pos
           n == loc[p].count
           l == loc[p]
           o == Place(pos, l).q_pos
           q == Place(i, l).q_pos
           k == q + 1
<1>1. pc[p] \in Started
  BY DEF Copying, Started, CallLabels
<1>2. /\ pos \in Nat /\ n \in Nat /\ l.quantum \in Nat \ {0} /\ l.qset \in Nat \ {0}
      /\ o \in 0 .. l.quantum - 1
  BY <1>1, AtPlace DEF Locals
<1>3. q \in 0 .. l.quantum - 1 /\ i - pos = q - o
  <2>1. Place(pos, l).item = Place(i, l).item /\ Place(pos, l).s_pos = Place(i, l).s_pos
    OBVIOUS
  <2> HIDE DEF l, pos
  <2>2. q \in 0 .. l.quantum - 1
    BY <1>2, PlaceIs
  <2>3. i - pos = q - o
    BY <1>2, <2>1, PlaceApart
  <2> QED  BY <2>2, <2>3
<1>4. Len(Quantum(p)) = l.quantum /\ Len(Patched(p)) = l.quantum
  BY <1>1, CopyWithin, PatchedType
<1> DEFINE new(m) == IF m - 1 \in o .. o + n - 1 THEN pos + m - 1 - o ELSE Quantum(p)[m]
<1>5. Patched(p) = [m \in 1 .. Len(Quantum(p)) |-> new(m)]
  BY DEF Patched
<1> HIDE DEF new, q, l, o, pos, n
<1>6. k \in 1 .. Len(Quantum(p))
  BY <1>2, <1>3, <1>4
<1>7. Patched(p)[k] = new(k)
  BY <1>5, <1>6
<1>8. new(k) = i
  <2>1. pos + k - 1 - o = i
    BY <1>2, <1>3
  <2>2. k - 1 \in o .. o + n - 1 \/ Quantum(p)[k] = i
    <3>1. i \in pos .. pos + n - 1 \/ Quantum(p)[k] = i
      BY DEF pos, n, l, q
    <3>2. i \in pos .. pos + n - 1 => k - 1 \in o .. o + n - 1
      BY <1>2, <1>3
    <3> QED  BY <3>1, <3>2
  <2> QED  BY <2>1, <2>2 DEF new
<1> QED  BY <1>2, <1>3, <1>4, <1>7, <1>8 DEF q, l

(* A write puts its positions where a read finds them, and every other one *)
(* stays.                                                                  *)
LEMMA WriteFaithful ==
  ASSUME Types, FilesOK, LocsOK, ShapesOK, QuantaOK, Faithful, NEW p \in Procs, WriteCopy(p),
         Dev(p) \notin mixed, NEW i \in written'[Dev(p)]
  PROVE  i < dev'[Dev(p)].size /\ Stored(Dev(p), i)' = i
<1> DEFINE d == Dev(p)
           D == dev[d]
           pos == file[p].pos
           n == loc[p].count
           end == pos + n
           u == Place(pos, loc[p]).item + 1
           v == Place(pos, loc[p]).s_pos + 1
<1>1. /\ pc[p] = "w_copy" /\ pc[p] \in Started /\ d \in Devs /\ D \in Devices /\ pos \in Nat /\ n \in Nat
      /\ loc[p].quantum \in Nat \ {0} /\ loc[p].qset \in Nat \ {0}
      /\ dev \in [Devs -> Devices] /\ written \in [Devs -> SUBSET (0 .. MaxPos - 1)]
      /\ file' = [file EXCEPT ![p].pos = pos + n] /\ file \in [Procs -> Files]
  <2>1. pc[p] = "w_copy" /\ pc[p] \in Started
    BY DEF WriteCopy, At, Started, CallLabels
  <2> QED  BY <2>1, AtPlace DEF Types, Locals, WriteCopy
<1>2. PICK data \in Bytes :
        /\ dev' = [dev EXCEPT ![d] = [D EXCEPT !.data = data,
                                               !.size = IF D.size < end THEN end ELSE D.size]]
        /\ data = IF Lands(p) THEN [D.data EXCEPT ![u] = [@ EXCEPT ![v] = Patched(p)]] ELSE D.data
        /\ Lands(p) => Quantum(p) # <<>>
  BY WriteCopyIs
<1>3. /\ dev'[d].data = data /\ dev'[d].quantum = D.quantum /\ dev'[d].qset = D.qset
      /\ dev'[d].size = IF D.size < end THEN end ELSE D.size
      /\ D.size \in Nat /\ D.data \in Bytes /\ D.quantum \in Nat \ {0} /\ D.qset \in Nat \ {0}
  BY <1>1, <1>2 DEF Devices
<1>4. written'[d] = IF Lands(p) THEN written[d] \cup (pos .. end - 1) ELSE written[d]
  <2> DEFINE new == file[p].pos .. file[p].pos + loc[p].count - 1
  <2>1. written' = IF Lands(p) THEN [written EXCEPT ![d] = @ \cup new] ELSE written
    BY Zenon DEF WriteCopy, Lands
  <2>2. d \in Devs /\ written \in [Devs -> SUBSET (0 .. MaxPos - 1)]
    BY <1>1
  <2> HIDE DEF new, d
  <2>3. written'[d] = IF Lands(p) THEN written[d] \cup new ELSE written[d]
    BY <2>1, <2>2
  <2>4. new = pos .. end - 1
    BY <1>1 DEF new
  <2> HIDE DEF pos, end
  <2> QED  BY <2>3, <2>4 DEF d
<1>5. i \in Nat
  BY <1>1, <1>4
<1> DEFINE at == Place(i, D)
<1>6. Stored(d, i)' = Byte(data, at)
  <2>1. Place(i, dev'[d]) = at
    BY <1>3, PlaceSame
  <2>2. Dev(p)' = d
    BY <1>1 DEF Dev, Files
  <2>3. dev'[d].data = data
    BY <1>3
  <2>4. Stored(Dev(p), i)' = Byte(dev'[Dev(p)'].data, Place(i, dev'[Dev(p)']))
    BY Zenon DEF Stored, Byte
  <2> HIDE DEF at
  <2> QED  BY <2>1, <2>2, <2>3, <2>4
<1>7. i \in written[d] => i < D.size /\ Byte(D.data, at) = i
  BY <1>1, <1>5, StoredIs DEF Faithful
<1>8. i < dev'[d].size
  <2>1. i \in written[d] \/ i < end
    BY <1>1, <1>4, <1>5
  <2> HIDE DEF d, D, end
  <2> QED  BY <1>1, <1>3, <1>5, <1>7, <2>1 DEF end
<1>9. Byte(data, at) = i
  <2>1. CASE ~Lands(p)
    <3>1. data = D.data /\ i \in written[d]
      BY <1>2, <1>4, <2>1
    <3> HIDE DEF at, D, d
    <3> QED  BY <1>7, <3>1
  <2>2. CASE Lands(p)
    <3>1. Copying(p)
      BY <1>1, <2>2 DEF Copying, Lands
    <3>2. SameParams(d, loc[p]) /\ Within(p) /\ Len(Quantum(p)) = loc[p].quantum
      BY <3>1, CopyWithin
    <3>3. at = Place(i, loc[p])
      BY <3>2, PlaceSame DEF SameParams
    <3>4. IsPlace(at) /\ at.q_pos \in 0 .. loc[p].quantum - 1
      <4> HIDE DEF at
      <4> QED  BY <1>1, <1>5, <3>3, PlaceIs DEF IsPlace
    <3>5. /\ u \in 1 .. Len(D.data) /\ v \in 1 .. Len(D.data[u]) /\ Quantum(p) = D.data[u][v]
          /\ Patched(p) \in Seq(Int) /\ Len(Patched(p)) = Len(Quantum(p))
      BY <1>1, <1>2, <2>2, QuantumIs, PatchedType
    <3>6. data = [D.data EXCEPT ![u] = [@ EXCEPT ![v] = Patched(p)]]
      BY <1>2, <2>2
    <3>7. Byte(data, at) = IF at.item + 1 = u /\ at.s_pos + 1 = v
                           THEN IF at.q_pos < Len(Patched(p)) THEN Patched(p)[at.q_pos + 1] ELSE Junk
                           ELSE Byte(D.data, at)
      <4> DEFINE list == D.data
                 q == Patched(p)
      <4>1. /\ list \in Bytes /\ IsPlace(at) /\ q \in Seq(Int) /\ Len(q) = Len(list[u][v])
            /\ u \in 1 .. Len(list) /\ v \in 1 .. Len(list[u])
        BY <1>3, <3>4, <3>5
      <4> HIDE DEF u, v, at, list, q
      <4>2. Byte([list EXCEPT ![u] = [@ EXCEPT ![v] = q]], at) =
              IF at.item + 1 = u /\ at.s_pos + 1 = v
              THEN IF at.q_pos < Len(q) THEN q[at.q_pos + 1] ELSE Junk
              ELSE Byte(list, at)
        BY <4>1, BytePatched
      <4>3. data = [list EXCEPT ![u] = [@ EXCEPT ![v] = q]]
        BY <3>6 DEF list, q
      <4> QED  BY <4>2, <4>3, Zenon DEF list, q
    <3>8. CASE at.item + 1 = u /\ at.s_pos + 1 = v
      <4>1. at.item = Place(pos, loc[p]).item /\ at.s_pos = Place(pos, loc[p]).s_pos
        <5>1. Place(pos, loc[p]).item \in Nat /\ Place(pos, loc[p]).s_pos \in Nat
          BY <1>1, AtPlace
        <5> HIDE DEF at
        <5> QED  BY <3>4, <3>8, <5>1 DEF IsPlace
      <4>2. i \in pos .. end - 1 \/ Quantum(p)[at.q_pos + 1] = i
        <5>1. i \in pos .. end - 1 \/ i \in written[d]
          BY <1>4, <2>2
        <5>2. CASE i \in written[d]
          <6>1. Byte(D.data, at) = i /\ i # Junk
            BY <1>5, <1>7, <5>2 DEF Junk
          <6>2. Byte(D.data, at) = D.data[at.item + 1][at.s_pos + 1][at.q_pos + 1]
            <7> HIDE DEF at, D
            <7> QED  BY <6>1 DEF Byte
          <6> HIDE DEF at, D, u, v
          <6> QED  BY <3>5, <3>8, <6>1, <6>2
        <5> QED  BY <5>1, <5>2
      <4>3. at.q_pos < Len(Patched(p)) /\ Patched(p)[at.q_pos + 1] = i
        <5>1. /\ Place(i, loc[p]).item = Place(file[p].pos, loc[p]).item
              /\ Place(i, loc[p]).s_pos = Place(file[p].pos, loc[p]).s_pos
              /\ \/ i \in file[p].pos .. file[p].pos + loc[p].count - 1
                 \/ Quantum(p)[Place(i, loc[p]).q_pos + 1] = i
          <6> DEFINE b == Place(i, loc[p])
          <6>1. at = b
            BY <3>3
          <6> HIDE DEF at, b
          <6>2. b.item = Place(file[p].pos, loc[p]).item /\ b.s_pos = Place(file[p].pos, loc[p]).s_pos
            BY <4>1, <6>1
          <6>3. i \in pos .. end - 1 \/ Quantum(p)[b.q_pos + 1] = i
            BY <4>2, <6>1
          <6>4. pos .. end - 1 = file[p].pos .. file[p].pos + loc[p].count - 1
            BY <1>1
          <6> HIDE DEF pos, end
          <6>5. i \in file[p].pos .. file[p].pos + loc[p].count - 1 \/ Quantum(p)[b.q_pos + 1] = i
            BY <6>3, <6>4, Zenon
          <6> QED  BY <6>2, <6>5, Zenon DEF b
        <5>2. Place(i, loc[p]).q_pos < Len(Patched(p)) /\ Patched(p)[Place(i, loc[p]).q_pos + 1] = i
          BY <1>5, <3>1, <5>1, PatchedByte
        <5> HIDE DEF at
        <5> QED  BY <3>3, <5>2
      <4> HIDE DEF at, u, v, D
      <4> QED  BY <3>7, <3>8, <4>3
    <3>9. CASE ~(at.item + 1 = u /\ at.s_pos + 1 = v)
      <4>1. i \notin pos .. end - 1
        <5> SUFFICES ASSUME i \in pos .. end - 1 PROVE FALSE
          OBVIOUS
        <5>1. Place(pos, loc[p]).q_pos + n <= loc[p].quantum /\ Place(pos, loc[p]).q_pos \in Nat
          BY <1>1, AtPlace DEF LocsOK
        <5>2. i >= pos /\ Place(pos, loc[p]).q_pos + (i - pos) < loc[p].quantum
          <6> DEFINE o == Place(pos, loc[p]).q_pos
          <6> HIDE DEF o, pos, n
          <6> QED  BY <1>1, <1>5, <5>1 DEF o, pos, n
        <5>3. at.item = Place(pos, loc[p]).item /\ at.s_pos = Place(pos, loc[p]).s_pos
          <6> HIDE DEF at
          <6> QED  BY <1>1, <1>5, <3>3, <5>2, PlaceShift
        <5> QED  BY <3>9, <5>3
      <4>2. i \in written[d]
        BY <1>4, <2>2, <4>1
      <4> HIDE DEF at, u, v, D, d
      <4> QED  BY <1>7, <3>7, <3>9, <4>2
    <3> QED  BY <3>8, <3>9
  <2> QED  BY <2>1, <2>2
<1> QED  BY <1>6, <1>8, <1>9

(* What the steps do to a device that they do not write to.                *)
LEMMA FaithfulStep ==
  ASSUME Types, FilesOK, SemsOK, LocsOK, ShapesOK, QuantaOK, Faithful, DeviceNext
  PROVE  Faithful'
<1> SUFFICES ASSUME NEW d \in Devs, d \notin mixed', NEW i \in written'[d]
             PROVE  i < dev'[d].size /\ Stored(d, i)' = i
  BY Zenon DEF Faithful
<1>0. dev \in [Devs -> Devices] /\ written \in [Devs -> SUBSET (0 .. MaxPos - 1)]
  BY DEF Types
<1>1. ASSUME dev'[d].data = dev[d].data, dev'[d].quantum = dev[d].quantum, dev'[d].qset = dev[d].qset,
             dev'[d].size = dev[d].size, i \in written[d], d \notin mixed
      PROVE  i < dev'[d].size /\ Stored(d, i)' = i
  <2>1. i < dev[d].size /\ Stored(d, i) = i
    BY <1>1 DEF Faithful
  <2>2. Place(i, dev'[d]) = Place(i, dev[d])
    BY <1>1, PlaceSame
  <2>3. Stored(d, i)' = Stored(d, i)
    BY <1>1, <2>2, Zenon DEF Stored
  <2> QED  BY <1>1, <2>1, <2>3
<1>2. CASE UNCHANGED <<deviceVars, clones>>
  BY <1>1, <1>2 DEF deviceVars
<1>3. CASE Unload
  BY <1>3 DEF Unload
<1>4. ASSUME NEW p \in Procs, DeviceStep(p)
      PROVE  i < dev'[d].size /\ Stored(d, i)' = i
  <2>1. CASE QuietStep(p)
    BY <1>1, <2>1 DEF QuietStep, SameData
  <2>2. CASE ReadFollow(p) \/ WriteFollow(p)
    <3>1. written' = written /\ d \notin mixed /\ pc[p] \in Started
      BY <2>2, NotStale DEF ReadFollow, WriteFollow, At, Started, CallLabels
    <3>2. PICK data \in Bytes :
            dev' = [dev EXCEPT ![Dev(p)].data = data] /\ Preserves(dev[Dev(p)].data, data)
      BY <2>2, FollowedIs
    <3>3. CASE d # Dev(p)
      BY <1>0, <1>1, <3>1, <3>2, <3>3
    <3>4. CASE d = Dev(p)
      <4>1. /\ dev'[d].data = data /\ dev'[d].quantum = dev[d].quantum /\ dev'[d].qset = dev[d].qset
            /\ dev'[d].size = dev[d].size
        BY <1>0, <3>2, <3>4 DEF Devices
      <4>2. i \in Nat /\ i # Junk
        BY <1>0, <3>1 DEF Junk
      <4>3. i < dev[d].size /\ Stored(d, i) = i
        BY <3>1 DEF Faithful
      <4> DEFINE at == Place(i, dev[d])
      <4>4. Byte(dev[d].data, at) = i
        BY <4>2, <4>3, StoredIs
      <4>5. IsPlace(at)
        <5>1. dev[d].quantum \in Nat \ {0} /\ dev[d].qset \in Nat \ {0}
          BY <1>0 DEF Devices
        <5> QED  BY <4>2, <5>1, PlaceIs DEF IsPlace
      <4>6. dev[d].data \in Bytes
        BY <1>0 DEF Devices
      <4>7. Byte(data, at) = i
        <5>1. Preserves(dev[d].data, data)
          BY <3>2, <3>4
        <5> HIDE DEF at
        <5> QED  BY <4>2, <4>4, <4>5, <4>6, <5>1, ByteKept
      <4>8. Stored(d, i)' = Byte(data, at)
        <5>1. Place(i, dev'[d]) = at
          BY <4>1, PlaceSame
        <5>2. Stored(d, i)' = Byte(dev'[d].data, Place(i, dev'[d]))
          BY Zenon DEF Stored, Byte
        <5> HIDE DEF at
        <5> QED  BY <4>1, <5>1, <5>2
      <4> QED  BY <4>1, <4>3, <4>7, <4>8
    <3> QED  BY <3>3, <3>4
  <2>3. CASE WriteCopy(p)
    <3>1. d \notin mixed /\ pc[p] \in Started
      BY <2>3 DEF WriteCopy, At, Started, CallLabels
    <3>2. CASE d = Dev(p)
      <4>1. Dev(p)' = d
        <5>1. file' = [file EXCEPT ![p].pos = file[p].pos + loc[p].count]
          BY <2>3 DEF WriteCopy
        <5> QED  BY <3>2, <5>1 DEF Dev, Types, Files
      <4>2. i < dev'[Dev(p)].size /\ Stored(Dev(p), i)' = i
        BY <2>3, <3>1, <3>2, WriteFaithful
      <4>3. Stored(Dev(p), i)' = Stored(d, i)'
        BY <4>1, Zenon DEF Stored
      <4> QED  BY <3>2, <4>2, <4>3
    <3>3. CASE d # Dev(p)
      <4>1. Dev(p) \in Devs
        BY <3>1, AtPlace
      <4>2. dev'[d] = dev[d]
        <5>1. \E new : dev' = [dev EXCEPT ![Dev(p)] = new]
          BY <2>3, WriteCopyIs
        <5> QED  BY <1>0, <3>3, <5>1
      <4>3. written'[d] = written[d]
        BY <1>0, <2>3, <3>3 DEF WriteCopy
      <4> QED  BY <1>1, <3>1, <4>2, <4>3
    <3> QED  BY <3>2, <3>3
  <2>4. CASE TrimFree(p, "open") \/ TrimFree(p, "o_up")
    <3>1. /\ dev' = [dev EXCEPT ![Dev(p)] = [Empty(params) EXCEPT !.sem = dev[Dev(p)].sem]]
          /\ mixed' = mixed \ {Dev(p)} /\ written' = [written EXCEPT ![Dev(p)] = {}]
      BY <2>4 DEF TrimFree, FreeList
    <3> QED  BY <1>0, <1>1, <3>1
  <2>5. CASE PrivOpen(p)
    <3>1. /\ mixed' = mixed
          /\ \/ dev' = dev /\ written' = written
             \/ dev' = [dev EXCEPT ![Tty[p]] = Empty(params)] /\ written' = [written EXCEPT ![Tty[p]] = {}]
      BY <2>5 DEF PrivOpen
    <3> QED  BY <1>0, <1>1, <3>1
  <2> QED  BY <1>4, <2>1, <2>2, <2>3, <2>4, <2>5, DataOrQuiet DEF DataStep
<1> QED  BY <1>2, <1>3, <1>4 DEF DeviceNext

(* The parameters of every device are some that an ioctl has set.          *)
ParamsOK == \A d \in Devs : <<dev[d].quantum, dev[d].qset>> \in Params

(* A trim sets the parameters, and takes them from the current ones.       *)
LEMMA ParamsStep ==
  ASSUME Types, FilesOK, LocsOK, ParamsOK, DeviceNext
  PROVE  ParamsOK'
<1> SUFFICES ASSUME NEW d \in Devs PROVE <<dev'[d].quantum, dev'[d].qset>> \in Params
  BY DEF ParamsOK
<1>0. dev \in [Devs -> Devices]
  BY DEF Types
<1>1. ASSUME dev'[d].quantum = dev[d].quantum, dev'[d].qset = dev[d].qset
      PROVE  <<dev'[d].quantum, dev'[d].qset>> \in Params
  BY <1>1 DEF ParamsOK
<1>2. ASSUME dev'[d].quantum = params[1], dev'[d].qset = params[2]
      PROVE  <<dev'[d].quantum, dev'[d].qset>> \in Params
  <2>1. params = <<params[1], params[2]>> /\ params \in Params
    BY DeviceAssumption DEF Types
  <2> QED  BY <1>2, <2>1
<1>3. CASE UNCHANGED <<deviceVars, clones>>
  BY <1>1, <1>3 DEF deviceVars
<1>4. CASE Unload
  BY <1>2, <1>4 DEF Unload, Empty
<1>5. ASSUME NEW p \in Procs, DeviceStep(p)
      PROVE  <<dev'[d].quantum, dev'[d].qset>> \in Params
  <2>1. CASE QuietStep(p)
    BY <1>1, <2>1 DEF QuietStep, SameData
  <2>2. CASE ReadFollow(p) \/ WriteFollow(p)
    <3>1. PICK data \in Bytes : dev' = [dev EXCEPT ![Dev(p)].data = data]
      BY <2>2, FollowedIs
    <3> QED  BY <1>0, <1>1, <3>1 DEF Devices
  <2>3. CASE WriteCopy(p)
    <3> DEFINE D == dev[Dev(p)]
               end == file[p].pos + loc[p].count
    <3>1. PICK data \in Bytes :
            dev' = [dev EXCEPT ![Dev(p)] = [D EXCEPT !.data = data,
                                                     !.size = IF D.size < end THEN end ELSE D.size]]
      BY <2>3, WriteCopyIs
    <3>2. Dev(p) \in Devs
      BY <2>3, AtPlace DEF WriteCopy, At, Started, CallLabels
    <3> HIDE DEF end
    <3>3. dev'[d].quantum = dev[d].quantum /\ dev'[d].qset = dev[d].qset
      BY <1>0, <3>1, <3>2 DEF Devices
    <3> QED  BY <1>1, <3>3
  <2>4. CASE TrimFree(p, "open") \/ TrimFree(p, "o_up")
    <3>1. dev' = [dev EXCEPT ![Dev(p)] = [Empty(params) EXCEPT !.sem = dev[Dev(p)].sem]]
      BY <2>4 DEF TrimFree, FreeList
    <3> QED  BY <1>0, <1>1, <1>2, <3>1 DEF Empty
  <2>5. CASE PrivOpen(p)
    <3>1. dev' = dev \/ dev' = [dev EXCEPT ![Tty[p]] = Empty(params)]
      BY <2>5 DEF PrivOpen
    <3> QED  BY <1>0, <1>1, <1>2, <3>1 DEF Empty
  <2> QED  BY <1>5, <2>1, <2>2, <2>3, <2>4, <2>5, DataOrQuiet DEF DataStep
<1> QED  BY <1>3, <1>4, <1>5 DEF DeviceNext

(***************************************************************************)
(* The inductive invariant.                                                *)
(***************************************************************************)
Rules == Types /\ FilesOK /\ SemsOK /\ RefsOK /\ LocsOK /\ ParamsOK /\ GateTypes
Lists == ShapesOK /\ QuantaOK /\ SingleOK

Safe == Rules /\ Lists /\ Inv /\ OpenersWoken /\ MemorySafe /\ Faithful

(* The parts of TypeOK.                                                    *)
LEMMA TypesImply ==
  ASSUME Types, ParamsOK, GateTypes
  PROVE  TypeOK
<1>1. \A d \in Devs : dev[d] \in Devices /\ written[d] \in SUBSET (0 .. MaxPos - 1)
  BY DEF Types
<1>2. \A p \in Procs : file[p] \in Files
  BY DEF Types
<1> QED  BY <1>1, <1>2 DEF Types, Devices, Files, ParamsOK, GateTypes, TypeOK

(* The devices start empty, and nobody is anywhere.                        *)
LEMMA SafeInit ==
  ASSUME Init
  PROVE  Safe
<1> USE DEF Init, DeviceInit
<1>0. /\ params \in Params /\ params \in (Nat \ {0}) \X (Nat \ {0}) /\ MaxPos \in Nat \ {0}
      /\ params = <<params[1], params[2]>>
  BY DeviceAssumption
<1>1. \A d \in Devs : dev[d] = Empty(params) /\ written[d] = {}
  OBVIOUS
<1>2. \A p \in Procs : pc[p] = "idle" /\ file[p] = NoFile /\ ref[p] = None /\ loc[p] = NoLocals
  OBVIOUS
<1>3. Empty(params) \in Devices
  BY <1>0, EmptyType
<1>4. Types
  <2>1. NoFile \in Files /\ NoLocals \in Locals
    BY <1>0 DEF NoFile, NoLocals, Files, Locals
  <2> QED  BY <1>0, <1>3, <2>1 DEF Types, Labels, Outer
<1>5. FilesOK
  <2>1. "idle" \in GatesOf(kind)
    BY DEF GatesOf, Labels, Outer, ProcLabels
  <2>2. NoFile.dev = None
    BY DEF NoFile
  <2> QED  BY <1>2, <2>1, <2>2 DEF FilesOK, Outer, ProcLabels, Dev
<1>6. SemsOK
  BY <1>1, <1>2 DEF SemsOK, Holds, Empty
<1>7. RefsOK
  BY <1>2 DEF RefsOK, None
<1>8. LocsOK
  BY <1>2 DEF LocsOK, Started, CallLabels
<1>9. ParamsOK
  BY <1>0, <1>1 DEF ParamsOK, Empty
<1>10. GateTypes
  BY DEF GateTypes
<1>11. Lists
  <2>1. ShapesOK
    BY <1>1 DEF ShapesOK, Empty, Regular
  <2>2. QuantaOK
    BY <1>2 DEF QuantaOK, Copying
  <2>3. SingleOK
    BY <1>2 DEF SingleOK, Started, CallLabels
  <2> QED  BY <2>1, <2>2, <2>3 DEF Lists
<1>12. Inv
  <2>1. Inside = {}
    BY <1>2 DEF Inside, NoFile
  <2>2. Busy = {}
    BY <1>2 DEF Busy, At
  <2>3. Cardinality({}) = 0
    BY FS_EmptySet
  <2>4. OneOpener
    BY <2>1, <2>2, <2>3 DEF OneOpener, Busy
  <2>5. OneUser
    BY <2>1, <2>3 DEF OneUser
  <2> QED  BY <1>4, <1>9, <1>10, <2>4, <2>5, TypesImply DEF Inv
<1>13. OpenersWoken
  BY <1>2 DEF OpenersWoken, At
<1>14. MemorySafe
  BY DEF MemorySafe
<1>15. Faithful
  BY <1>1 DEF Faithful
<1> QED  BY <1>4, <1>5, <1>6, <1>7, <1>8, <1>9, <1>10, <1>11, <1>12, <1>13, <1>14, <1>15 DEF Safe, Rules

(* Every step keeps every part of the invariant.                           *)
LEMMA SafeNext ==
  ASSUME Safe, [Next]_vars
  PROVE  Safe'
<1> USE DEF Safe, Rules, Lists, Inv
<1>1. kind' = kind /\ DeviceNext
  BY StepShape
<1>2. Alone
  BY OneIsAlone
<1>3. Types' /\ FilesOK' /\ SemsOK' /\ RefsOK' /\ LocsOK' /\ ParamsOK'
  BY <1>1, <1>2, TypesStep, FilesStep, SemsStep, RefsStep, LocsStep, ParamsStep
<1>4. GateTypes' /\ OneOpener' /\ OneUser' /\ OpenersWoken'
  BY GateTypesStep, OneOpenerStep, OneUserStep, WokenStep
<1>5. ShapesOK' /\ QuantaOK' /\ SingleOK'
  BY <1>1, <1>2, ShapesStep, QuantaStep, SingleNeverStale
<1>6. MemorySafe' /\ Faithful'
  BY <1>1, <1>2, HitsStep, FaithfulStep
<1>7. TypeOK'
  <2>1. Types' /\ ParamsOK' /\ GateTypes' => TypeOK'
    <3>1. Types' => (\A d \in Devs : dev'[d] \in Devices /\ written'[d] \in SUBSET (0 .. MaxPos - 1))
      BY DEF Types
    <3>2. Types' => \A p \in Procs : file'[p] \in Files
      BY DEF Types
    <3> QED  BY <3>1, <3>2 DEF Types, Devices, Files, ParamsOK, GateTypes, TypeOK
  <2> QED  BY <1>3, <1>4, <2>1
<1> QED  BY <1>3, <1>4, <1>5, <1>6, <1>7

(***************************************************************************)
(* The theorems.                                                           *)
(***************************************************************************)
(* Every reachable state satisfies the inductive invariant.                *)
THEOREM DevicesSafe == Spec => []Safe
<1>1. Init => Safe
  BY SafeInit
<1>2. Safe /\ [Next]_vars => Safe'
  BY SafeNext
<1> QED  BY <1>1, <1>2, PTL DEF Spec

(* The fields of the devices keep their types; scull_s_open lets one       *)
(* process in at a time, and scull_u_open and scull_w_open the processes   *)
(* of one user (access.c:52-207).                                          *)
THEOREM InvariantKept == Spec => []Inv
<1>1. Safe => Inv
  BY DEF Safe
<1> QED  BY <1>1, DevicesSafe, PTL

(* Nobody sleeps in scull_w_open while he could have the device, unless    *)
(* the process that closed it is about to wake him (access.c:177-206).     *)
THEOREM SleepersAreWoken == Spec => []OpenersWoken
<1>1. Safe => OpenersWoken
  BY DEF Safe
<1> QED  BY <1>1, DevicesSafe, PTL

(* Reads, writes and trims stay inside the memory of the device, with the  *)
(* exceptions that MemorySafe names; scullsingle has none.                 *)
THEOREM MemoryIsSafe == Spec => []MemorySafe
<1>1. Safe => MemorySafe
  BY DEF Safe
<1> QED  BY <1>1, DevicesSafe, PTL

(* What scull_write puts at a position is what scull_read finds there      *)
(* until the next trim, for every quantum, quantum set, count and bound.   *)
THEOREM DeviceIsAFile == Spec => []Faithful
<1>1. Safe => Faithful
  BY DEF Safe
<1> QED  BY <1>1, DevicesSafe, PTL

================================================================================

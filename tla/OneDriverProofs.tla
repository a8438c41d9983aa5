-------------------------- MODULE OneDriverProofs --------------------------
(***************************************************************************)
(* Theorems about drivers of OneDriver, for every set of processes and all *)
(* sizes: usb-skeleton, tiny_tty, tiny_serial and sbull, whose structures  *)
(* live while somebody has them and whose data stays; echo and usocat,     *)
(* whose bytes come out as they went in; scullp, scullv, sculld and        *)
(* scullc, whose lists fit what their calls divide by.                     *)
(* Each has an inductive invariant, a lemma per step that disturbs it, and *)
(* a lemma for what it says of the properties.                             *)
(***************************************************************************)
EXTENDS OneDriver, FiniteSetTheorems, RingTheorems, TLAPS

----------------------------------------------------------------------------
(* usb-skeleton *)

UsbTypes ==
  /\ usbSkel \in [Skels -> [kref : Int, state : {"unused", "live", "freed"}]]
  /\ usbBus \in [pc : {"out", "endpoints", "in", "put"}, intfdata : Skels \cup {0},
                 minor : BOOLEAN, dev : Skels \cup {0}]
  /\ usbFile \in [Procs -> [pc : {"shut", "open", "reading", "writing"}, dev : Skels \cup {0}]]

(* An open file has a structure, and so has an interface that is being     *)
(* probed, in use or being disconnected; what skel_open finds is the       *)
(* structure of the interface.                                             *)
UsbLinks ==
  /\ \A f \in Procs : usbFile[f].pc = "shut" <=> usbFile[f].dev = 0
  /\ usbBus.pc = "out" <=> usbBus.dev = 0
  /\ usbBus.intfdata # 0 => usbBus.pc = "in" /\ usbBus.intfdata = usbBus.dev

Users(files, k) == {f \in Procs : files[f].dev = k}
BusUses(bus, k) == IF bus.dev = k THEN 1 ELSE 0

UsbInv == UsbTypes /\ UsbLinks /\ UsbSkel!Lifetime /\ UsbSkel!NotStale

(* The files that have structure k open are finitely many.                  *)
LEMMA UsersCounted ==
  ASSUME NEW files, NEW k
  PROVE  IsFiniteSet(Users(files, k)) /\ Cardinality(Users(files, k)) \in Nat
<1>1. Users(files, k) \subseteq Procs
  BY DEF Users
<1> QED  BY <1>1, DriversAssumption, FS_Subset, FS_CardinalityType

(* No file has it open.                                                     *)
LEMMA UsersEmpty ==
  ASSUME NEW files, NEW k, \A f \in Procs : files[f].dev # k
  PROVE  Cardinality(Users(files, k)) = 0
<1>1. Users(files, k) = {}
  BY DEF Users
<1> QED  BY <1>1, FS_EmptySet

(* A file has its own structure open.                                       *)
LEMMA UsersSome ==
  ASSUME NEW files, NEW f \in Procs
  PROVE  Cardinality(Users(files, files[f].dev)) >= 1
<1> DEFINE U == Users(files, files[f].dev)
<1>1. f \in U
  BY DEF Users
<1>2. Cardinality(U) # 0
  BY <1>1, UsersCounted, FS_EmptySet
<1> HIDE DEF U
<1>3. Cardinality(U) \in Nat
  BY UsersCounted DEF U
<1> QED  BY <1>2, <1>3 DEF U

(* One file more has it open.                                               *)
LEMMA UsersMore ==
  ASSUME NEW files, NEW new, NEW k, NEW f \in Procs, files[f].dev # k, new[f].dev = k,
         \A g \in Procs \ {f} : new[g] = files[g]
  PROVE  Cardinality(Users(new, k)) = Cardinality(Users(files, k)) + 1
<1>1. Users(new, k) = Users(files, k) \cup {f} /\ f \notin Users(files, k)
  BY DEF Users
<1>2. IsFiniteSet(Users(files, k))
  BY UsersCounted
<1> QED  BY <1>1, <1>2, FS_AddElement, ZenonT(40)

(* One file fewer has it open.                                              *)
LEMMA UsersLess ==
  ASSUME NEW files, NEW new, NEW k, NEW f \in Procs, files[f].dev = k, new[f].dev # k,
         \A g \in Procs \ {f} : new[g] = files[g]
  PROVE  Cardinality(Users(new, k)) = Cardinality(Users(files, k)) - 1
<1>1. Users(new, k) = Users(files, k) \ {f} /\ f \in Users(files, k)
  BY DEF Users
<1>2. IsFiniteSet(Users(files, k))
  BY UsersCounted
<1> HIDE DEF Users
<1>3. Cardinality(Users(files, k) \ {f}) = Cardinality(Users(files, k)) - 1
  BY <1>1, <1>2, FS_RemoveElement
<1> QED  BY <1>1, <1>3

(* The module's own Cardinality is the library's.                           *)
LEMMA SameCardinality == \A S : UsbSkel!Cardinality(S) = Cardinality(S)
BY DEF UsbSkel!Cardinality, Cardinality

(* Lifetime, with the references of files and of the interface counted apart. *)
LEMMA UsbLifetime ==
  UsbSkel!Lifetime <=>
    \A k \in Skels : /\ usbSkel[k].kref = Cardinality(Users(usbFile, k)) + BusUses(usbBus, k)
                     /\ usbSkel[k].state = "live" <=> usbSkel[k].kref > 0
BY SameCardinality DEF UsbSkel!Lifetime, Users, BusUses

(* The structure somebody uses is live. *)
LEMMA UsbLive ==
  ASSUME UsbInv
  PROVE  /\ usbBus.dev # 0 => usbBus.dev \in Skels /\ usbSkel[usbBus.dev].state = "live"
         /\ \A f \in Procs : usbFile[f].dev # 0 =>
              usbFile[f].dev \in Skels /\ usbSkel[usbFile[f].dev].state = "live"
<1>1. ASSUME usbBus.dev # 0 PROVE usbBus.dev \in Skels /\ usbSkel[usbBus.dev].state = "live"
  <2>1. usbBus.dev \in Skels
    BY <1>1 DEF UsbInv, UsbTypes
  <2>2. Cardinality(Users(usbFile, usbBus.dev)) \in Nat
    BY UsersCounted
  <2> QED  BY <2>1, <2>2, UsbLifetime DEF UsbInv, BusUses
<1>2. ASSUME NEW f \in Procs, usbFile[f].dev # 0
      PROVE  usbFile[f].dev \in Skels /\ usbSkel[usbFile[f].dev].state = "live"
  <2>1. usbFile[f].dev \in Skels
    BY <1>2 DEF UsbInv, UsbTypes
  <2>2. Cardinality(Users(usbFile, usbFile[f].dev)) >= 1
    BY UsersSome
  <2>3. Cardinality(Users(usbFile, usbFile[f].dev)) \in Nat
    BY UsersCounted
  <2> QED  BY <2>1, <2>2, <2>3, UsbLifetime DEF UsbInv, BusUses
<1> QED  BY <1>1, <1>2

(* kref_put leaves structures of the same kind. *)
LEMMA UsbPutTypes ==
  ASSUME UsbTypes, NEW k \in Skels, UsbSkel!Put(k)
  PROVE  usbSkel' \in [Skels -> [kref : Int, state : {"unused", "live", "freed"}]]
<1>1. usbSkel[k] \in [kref : Int, state : {"unused", "live", "freed"}]
  BY DEF UsbTypes
<1>2. usbSkel[k].kref - 1 \in Int
  BY <1>1
<1> QED  BY <1>1, <1>2 DEF UsbTypes, UsbSkel!Put

(* No interface, no open file                                               *)
LEMMA UsbInit ==
  ASSUME UsbSkel!Init
  PROVE  UsbInv
<1> USE DEF UsbSkel!Init, UsbSkel!None, UsbSkel!Shut
<1>1. UsbTypes /\ UsbLinks /\ UsbSkel!NotStale
  BY DEF UsbTypes, UsbLinks, UsbSkel!NotStale
<1>2. \A k \in Skels : Cardinality(Users(usbFile, k)) = 0
  <2> TAKE k \in Skels
  <2>1. k # 0
    BY DriversAssumption
  <2>2. \A f \in Procs : usbFile[f].dev # k
    BY <2>1
  <2> QED  BY <2>2, UsersEmpty
<1>3. UsbSkel!Lifetime
  <2> SUFFICES ASSUME NEW k \in Skels
               PROVE  /\ usbSkel[k].kref = Cardinality(Users(usbFile, k)) + BusUses(usbBus, k)
                      /\ usbSkel[k].state = "live" <=> usbSkel[k].kref > 0
    BY UsbLifetime
  <2>1. BusUses(usbBus, k) = 0
    BY DriversAssumption DEF BusUses
  <2>2. usbSkel[k] = [kref |-> 0, state |-> "unused"]
    OBVIOUS
  <2> QED  BY <1>2, <2>1, <2>2
<1> QED  BY <1>1, <1>3 DEF UsbInv

(* Every step of usb-skeleton                                               *)
LEMMA UsbNext ==
  ASSUME UsbInv, UsbSkel!Next
  PROVE  UsbInv'
<1> USE DEF UsbSkel!None, UsbSkel!Shut, UsbSkel!To, UsbSkel!NotStale
<1>0. UsbTypes /\ UsbLinks /\ UsbSkel!NotStale
  BY DEF UsbInv
<1>l. \A k \in Skels : /\ usbSkel[k].kref = Cardinality(Users(usbFile, k)) + BusUses(usbBus, k)
                       /\ usbSkel[k].state = "live" <=> usbSkel[k].kref > 0
  BY UsbLifetime DEF UsbInv
<1>c. \A k \in Skels : Cardinality(Users(usbFile, k)) \in Nat
  BY UsersCounted
<1>z. \A k \in Skels : k # 0
  BY DriversAssumption
<1> DEFINE Life == \A k \in Skels :
              /\ usbSkel'[k].kref = Cardinality(Users(usbFile', k)) + BusUses(usbBus', k)
              /\ usbSkel'[k].state = "live" <=> usbSkel'[k].kref > 0
<1>g. UsbTypes' /\ UsbLinks' /\ UsbSkel!NotStale' /\ Life => UsbInv'
  BY SameCardinality DEF UsbInv, UsbSkel!Lifetime, Users, BusUses
\* A step that leaves references and structures as they are.
<1>s. ASSUME usbSkel' = usbSkel, usbBus'.dev = usbBus.dev,
             \A f \in Procs : usbFile'[f].dev = usbFile[f].dev
      PROVE  Life
  <2>1. \A k \in Skels : Users(usbFile', k) = Users(usbFile, k)
    BY <1>s DEF Users
  <2>2. \A k \in Skels : BusUses(usbBus', k) = BusUses(usbBus, k)
    BY <1>s DEF BusUses
  <2> QED  BY <1>s, <1>l, <2>1, <2>2
<1>1. ASSUME UsbSkel!Probe PROVE UsbInv'
  <2>1. PICK k \in Skels :
          /\ usbSkel[k].state = "unused"
          /\ usbSkel' = [usbSkel EXCEPT ![k] = [kref |-> 1, state |-> "live"]]
          /\ usbBus' = [usbBus EXCEPT !.pc = "endpoints", !.dev = k]
    BY <1>1 DEF UsbSkel!Probe
  <2>2. usbFile' = usbFile /\ usbSeen' = usbSeen /\ usbBus.pc = "out" /\ usbBus.dev = 0
    BY <1>1, <1>0 DEF UsbLinks, UsbSkel!Probe
  <2>3. UsbTypes' /\ UsbLinks' /\ UsbSkel!NotStale'
    <3>5. usbSkel' \in [Skels -> [kref : Int, state : {"unused", "live", "freed"}]]
      BY <1>0, <2>1 DEF UsbTypes
    <3>6. usbBus' \in [pc : {"out", "endpoints", "in", "put"}, intfdata : Skels \cup {0},
                       minor : BOOLEAN, dev : Skels \cup {0}]
      BY <1>0, <2>1 DEF UsbTypes
    <3>1. UsbTypes'
      BY <1>0, <2>2, <3>5, <3>6 DEF UsbTypes
    <3>4. usbBus'.pc = "endpoints" /\ usbBus'.dev = k /\ usbBus'.intfdata = usbBus.intfdata
      BY <1>0, <2>1 DEF UsbTypes
    <3>2. UsbLinks'
      BY <1>0, <1>z, <2>2, <3>4 DEF UsbLinks
    <3>3. UsbSkel!NotStale'
      BY <1>1, <1>0, <1>z, <2>1, <2>2 DEF UsbTypes, UsbLinks, UsbSkel!Probe
    <3> QED  BY <3>1, <3>2, <3>3
  <2>4. Life
    <3> SUFFICES ASSUME NEW j \in Skels
                 PROVE  /\ usbSkel'[j].kref = Cardinality(Users(usbFile', j)) + BusUses(usbBus', j)
                        /\ usbSkel'[j].state = "live" <=> usbSkel'[j].kref > 0
      BY <1>1 DEF UsbSkel!Probe
    <3>1. Users(usbFile', j) = Users(usbFile, j)
      BY <1>1, <2>2 DEF UsbSkel!Probe
    <3>2. CASE j = k
      <4>1. usbSkel[k].kref = Cardinality(Users(usbFile, k)) + BusUses(usbBus, k) /\ ~(usbSkel[k].kref > 0)
        BY <1>1, <1>l, <2>1 DEF UsbSkel!Probe
      <4>2. Cardinality(Users(usbFile, k)) = 0
        BY <1>1, <4>1, <1>c, <1>z, <2>2 DEF BusUses, UsbSkel!Probe
      <4>3. BusUses(usbBus', k) = 1
        BY <1>1, <2>1, <1>0 DEF BusUses, UsbTypes, UsbSkel!Probe
      <4>4. usbSkel'[k] = [kref |-> 1, state |-> "live"]
        BY <1>1, <2>1, <1>0 DEF UsbTypes, UsbSkel!Probe
      <4> QED  BY <3>1, <3>2, <4>2, <4>3, <4>4
    <3>3. CASE j # k
      <4>1. BusUses(usbBus', j) = BusUses(usbBus, j)
        BY <1>1, <3>3, <2>1, <2>2, <1>z, <1>0 DEF BusUses, UsbTypes, UsbSkel!Probe
      <4>2. usbSkel'[j] = usbSkel[j]
        BY <1>1, <3>3, <2>1, <1>0 DEF UsbTypes, UsbSkel!Probe
      <4> QED  BY <3>1, <4>1, <4>2, <1>l
    <3> QED  BY <3>2, <3>3
  <2> QED  BY <2>3, <2>4, <1>g
<1>2. ASSUME UsbSkel!ProbeRegister PROVE UsbInv'
  <2>1. UsbTypes' /\ UsbLinks' /\ UsbSkel!NotStale'
    BY <1>2, <1>0 DEF UsbTypes, UsbLinks, UsbSkel!ProbeRegister
  <2>2. usbSkel' = usbSkel /\ usbBus'.dev = usbBus.dev /\ usbFile' = usbFile
    BY <1>2, <1>0 DEF UsbTypes, UsbSkel!ProbeRegister
  <2> QED  BY <2>1, <2>2, <1>s, <1>g
<1>3. ASSUME UsbSkel!Disconnect PROVE UsbInv'
  <2>1. UsbTypes' /\ UsbLinks' /\ UsbSkel!NotStale'
    BY <1>3, <1>0 DEF UsbTypes, UsbLinks, UsbSkel!Disconnect
  <2>2. usbSkel' = usbSkel /\ usbBus'.dev = usbBus.dev /\ usbFile' = usbFile
    BY <1>3, <1>0 DEF UsbTypes, UsbSkel!Disconnect
  <2> QED  BY <2>1, <2>2, <1>s, <1>g
\* Somebody gives up a live structure.
<1>p. ASSUME NEW k \in Skels, UsbSkel!Put(k),
             Cardinality(Users(usbFile', k)) + BusUses(usbBus', k)
               = (Cardinality(Users(usbFile, k)) + BusUses(usbBus, k)) - 1,
             \A j \in Skels \ {k} : /\ Users(usbFile', j) = Users(usbFile, j)
                                    /\ BusUses(usbBus', j) = BusUses(usbBus, j)
      PROVE  Life
  <2>1. usbSkel[k].kref \in Int
    BY <1>p, <1>0 DEF UsbTypes, UsbSkel!Put
  <2>2. usbSkel'[k].kref = usbSkel[k].kref - 1
        /\ usbSkel'[k].state = IF usbSkel[k].kref = 1 THEN "freed" ELSE usbSkel[k].state
    BY <1>p, <1>0 DEF UsbTypes, UsbSkel!Put
  <2>3. \A j \in Skels \ {k} : usbSkel'[j] = usbSkel[j]
    BY <1>p, <1>0 DEF UsbTypes, UsbSkel!Put
  <2>4. usbSkel'[k].kref = Cardinality(Users(usbFile', k)) + BusUses(usbBus', k)
    BY <1>p, <2>1, <2>2, <1>l, <1>p DEF UsbSkel!Put
  <2>5. usbSkel'[k].state = "live" <=> usbSkel'[k].kref > 0
    BY <1>p, <2>1, <2>2, <1>l DEF UsbSkel!Put
  <2> QED  BY <2>3, <2>4, <2>5, <1>l, <1>p
<1>4. ASSUME UsbSkel!BusPut PROVE UsbInv'
  <2> DEFINE k == usbBus.dev
  <2>1. k \in Skels /\ usbSkel[k].state = "live" /\ k # 0
    BY <1>4, <1>0, UsbLive DEF UsbLinks, UsbSkel!BusPut
  <2>2. usbSeen' = usbSeen /\ usbFile' = usbFile
    BY <1>4, <2>1 DEF UsbSkel!Touch, UsbSkel!BusPut
  <2>3. UsbTypes' /\ UsbLinks' /\ UsbSkel!NotStale'
    <3>5. usbSkel' \in [Skels -> [kref : Int, state : {"unused", "live", "freed"}]]
      BY <1>4, <1>0, <2>1, UsbPutTypes DEF UsbSkel!BusPut
    <3>6. usbBus' \in [pc : {"out", "endpoints", "in", "put"}, intfdata : Skels \cup {0},
                       minor : BOOLEAN, dev : Skels \cup {0}]
      BY <1>4, <1>0 DEF UsbTypes, UsbSkel!BusPut
    <3>1. UsbTypes'
      BY <1>0, <2>2, <3>5, <3>6 DEF UsbTypes
    <3>4. usbBus.pc = "put" /\ usbBus'.pc = "out" /\ usbBus'.dev = 0 /\ usbBus'.intfdata = usbBus.intfdata
      BY <1>4, <1>0 DEF UsbTypes, UsbSkel!BusPut
    <3>2. UsbLinks'
      BY <1>0, <2>2, <3>4 DEF UsbLinks
    <3>3. UsbSkel!NotStale'
      BY <1>4, <1>0, <2>1, <2>2 DEF UsbTypes, UsbLinks, UsbSkel!Put, UsbSkel!BusPut
    <3> QED  BY <3>1, <3>2, <3>3
  <2>4. BusUses(usbBus, k) = 1 /\ BusUses(usbBus', k) = 0
        /\ \A j \in Skels \ {k} : BusUses(usbBus', j) = 0 /\ BusUses(usbBus, j) = 0
    BY <1>4, <1>0, <1>z, <2>1 DEF BusUses, UsbTypes, UsbSkel!BusPut
  <2>5. UsbSkel!Put(k)
    BY <1>4 DEF UsbSkel!BusPut
  <2> HIDE DEF k
  <2>6. Cardinality(Users(usbFile', k)) + BusUses(usbBus', k)
               = (Cardinality(Users(usbFile, k)) + BusUses(usbBus, k)) - 1
    BY <1>4, <2>1, <2>2, <2>4, <1>c DEF UsbSkel!BusPut
  <2>7. Life
    BY <1>4, <2>1, <2>2, <2>4, <2>5, <2>6, <1>p DEF UsbSkel!BusPut
  <2> QED  BY <2>3, <2>7, <1>g
<1>5. ASSUME NEW f \in Procs, UsbSkel!Open(f) PROVE UsbInv'
  <2> DEFINE k == usbBus.dev
  <2>1. usbBus.intfdata = k /\ k \in Skels /\ usbSkel[k].state = "live" /\ k # 0 /\ usbBus' = usbBus
    BY <1>5, <1>0, UsbLive DEF UsbLinks, UsbTypes, UsbSkel!Open
  <2>2. usbSeen' = usbSeen
    BY <1>5, <2>1 DEF UsbSkel!Touch, UsbSkel!Open
  <2>3. usbFile[f].dev = 0 /\ usbFile'[f].dev = k /\ \A g \in Procs \ {f} : usbFile'[g] = usbFile[g]
    BY <1>5, <1>0, <2>1 DEF UsbTypes, UsbLinks, UsbSkel!Open
  <2>4. UsbTypes' /\ UsbLinks' /\ UsbSkel!NotStale'
    BY <1>5, <1>0, <2>1, <2>2 DEF UsbTypes, UsbLinks, UsbSkel!Open
  <2>5. usbSkel' = [usbSkel EXCEPT ![k].kref = @ + 1]
    BY <1>5, <2>1 DEF UsbSkel!Open
  <2> HIDE DEF k
  <2>6. Cardinality(Users(usbFile', k)) = Cardinality(Users(usbFile, k)) + 1
    BY <2>1, <2>3, UsersMore
  <2>7. \A j \in Skels \ {k} : Users(usbFile', j) = Users(usbFile, j)
    BY <1>5, <2>3, <1>z DEF Users, UsbSkel!Open
  <2>8. usbSkel'[k].kref = usbSkel[k].kref + 1 /\ usbSkel'[k].state = "live"
    BY <1>5, <2>1, <2>5, <1>0 DEF UsbTypes, UsbSkel!Open
  <2>9. \A j \in Skels \ {k} : usbSkel'[j] = usbSkel[j]
    BY <1>5, <2>5, <1>0 DEF UsbTypes, UsbSkel!Open
  <2>10. usbSkel[k].kref > 0 /\ usbSkel[k].kref = Cardinality(Users(usbFile, k)) + BusUses(usbBus, k)
         /\ BusUses(usbBus, k) \in Nat
    BY <1>5, <1>l, <2>1 DEF BusUses, UsbSkel!Open
  <2>11. usbSkel'[k].kref = Cardinality(Users(usbFile', k)) + BusUses(usbBus', k)
    BY <1>5, <2>1, <2>6, <2>8, <2>10, <1>c DEF UsbSkel!Open
  <2>12. Life
    <3>1. usbSkel'[k].state = "live" <=> usbSkel'[k].kref > 0
      BY <2>8, <2>10, <1>c, <2>1
    <3>2. \A j \in Skels \ {k} : usbSkel'[j].kref = Cardinality(Users(usbFile', j)) + BusUses(usbBus', j)
      BY <2>1, <2>7, <2>9, <1>l
    <3>3. \A j \in Skels \ {k} : usbSkel'[j].state = "live" <=> usbSkel'[j].kref > 0
      BY <2>9, <1>l
    <3> QED  BY <3>1, <3>2, <3>3, <2>11
  <2> QED  BY <2>4, <2>12, <1>g
<1>6. ASSUME NEW f \in Procs, UsbSkel!Release(f) PROVE UsbInv'
  <2> DEFINE k == usbFile[f].dev
  <2>1. k \in Skels /\ usbSkel[k].state = "live" /\ k # 0 /\ usbBus' = usbBus
    BY <1>6, <1>0, UsbLive DEF UsbLinks, UsbSkel!Release
  <2>2. usbSeen' = usbSeen
    BY <1>6, <2>1 DEF UsbSkel!Touch, UsbSkel!Release
  <2>3. usbFile'[f].dev = 0 /\ \A g \in Procs \ {f} : usbFile'[g] = usbFile[g]
    BY <1>6, <1>0, <2>1 DEF UsbTypes, UsbSkel!Release
  <2>4. UsbTypes' /\ UsbLinks' /\ UsbSkel!NotStale'
    BY <1>6, <1>0, <2>1, <2>2 DEF UsbTypes, UsbLinks, UsbSkel!Put, UsbSkel!Release
  <2>5. UsbSkel!Put(k) /\ usbFile[f].dev = k
    BY <1>6 DEF UsbSkel!Release
  <2> HIDE DEF k
  <2>6. Cardinality(Users(usbFile', k)) = Cardinality(Users(usbFile, k)) - 1
    BY <2>1, <2>3, <2>5, UsersLess
  <2>7. \A j \in Skels \ {k} : Users(usbFile', j) = Users(usbFile, j)
    BY <1>6, <2>3, <2>5, <1>z DEF Users, UsbSkel!Release
  <2>8. BusUses(usbBus', k) = BusUses(usbBus, k) /\ BusUses(usbBus, k) \in Nat
    BY <1>6, <2>1 DEF BusUses, UsbSkel!Release
  <2>9. Cardinality(Users(usbFile', k)) + BusUses(usbBus', k)
               = (Cardinality(Users(usbFile, k)) + BusUses(usbBus, k)) - 1
    BY <1>6, <2>1, <2>6, <2>8, <1>c DEF UsbSkel!Release
  <2>10. Life
    BY <1>6, <2>1, <2>5, <2>7, <2>9, <1>p DEF UsbSkel!Release
  <2> QED  BY <2>4, <2>10, <1>g
\* An open file goes on with its own structure.
<1>f. ASSUME NEW f \in Procs, NEW l \in {"open", "reading", "writing"}, usbFile[f].pc # "shut",
             UsbSkel!Touch(usbFile[f].dev), usbFile' = [usbFile EXCEPT ![f].pc = l],
             usbSkel' = usbSkel, usbBus' = usbBus
      PROVE  UsbInv'
  <2>1. usbFile[f].dev # 0
    BY <1>0, <1>f DEF UsbLinks
  <2>2. usbSkel[usbFile[f].dev].state = "live"
    BY <2>1, UsbLive
  <2>3. usbSeen' = usbSeen
    BY <1>f, <2>2 DEF UsbSkel!Touch
  <2>4. UsbTypes' /\ UsbLinks' /\ UsbSkel!NotStale'
    BY <1>0, <1>f, <2>3 DEF UsbTypes, UsbLinks
  <2>5. \A g \in Procs : usbFile'[g].dev = usbFile[g].dev
    BY <1>0, <1>f DEF UsbTypes
  <2> QED  BY <1>f, <2>4, <2>5, <1>s, <1>g
<1>7. ASSUME NEW f \in Procs, UsbSkel!ReadStart(f) PROVE UsbInv'
  BY <1>7, <1>f DEF UsbSkel!ReadStart
<1>8. ASSUME NEW f \in Procs, UsbSkel!ReadEnd(f) PROVE UsbInv'
  BY <1>8, <1>f DEF UsbSkel!ReadEnd
<1>9. ASSUME NEW f \in Procs, UsbSkel!WriteAlloc(f) PROVE UsbInv'
  BY <1>9, <1>f DEF UsbSkel!WriteAlloc
<1>10. ASSUME NEW f \in Procs, UsbSkel!WriteSubmit(f) PROVE UsbInv'
  BY <1>10, <1>f DEF UsbSkel!WriteSubmit
<1>11. ASSUME NEW f \in Procs, UsbSkel!WriteCallback(f) PROVE UsbInv'
  BY <1>11, <1>0, <1>l, <1>g DEF UsbSkel!WriteCallback, UsbTypes, UsbLinks
<1> QED  BY <1>1, <1>2, <1>3, <1>4, <1>5, <1>6, <1>7, <1>8, <1>9, <1>10, <1>11 DEF UsbSkel!Next

(* And those of other drivers                                               *)
LEMMA UsbStutter ==
  ASSUME UsbInv, UNCHANGED UsbSkelVars
  PROVE  UsbInv'
BY DEF UsbInv, UsbSkelVars, UsbTypes, UsbLinks, UsbSkel!NotStale, UsbSkel!Lifetime

(* In a behaviour with usb-skeleton loaded, every step is one of it. *)
LEMMA UsbLoaded ==
  ASSUME loaded = "usb", [Next]_vars
  PROVE  loaded' = "usb" /\ (UsbSkel!Next \/ UNCHANGED UsbSkelVars)
BY DEF Next, vars, Of

(* A usb_skel lives exactly as long as the interface or an open file has it, *)
(* and nobody uses one that was freed (usb-skeleton.c:57-112, 295-325).      *)
THEOREM SkeletonsLive == Spec => []SkelLives
<1> DEFINE I == loaded = "usb" => UsbInv
<1>1. Init => I
  BY UsbInit DEF Init
<1>2. I /\ [Next]_vars => I'
  <2> SUFFICES ASSUME I, [Next]_vars, loaded' = "usb" PROVE UsbInv'
    OBVIOUS
  <2>1. loaded = "usb"
    BY DEF Next, vars, Of
  <2> QED  BY <2>1, UsbLoaded, UsbNext, UsbStutter
<1>3. I => SkelLives
  BY DEF SkelLives, UsbInv
<1> QED  BY <1>1, <1>2, <1>3, PTL DEF Spec

(* echo *)

EchoDevs == [loaded : BOOLEAN, device : BOOLEAN, bc : Int, fresh : SUBSET Int]
EchoCalls == [pc : {"out", "open", "write", "read"}, count : Nat, disturbed : BOOLEAN]

EchoTypes ==
  /\ echo \in EchoDevs
  /\ echoProc \in [Procs -> EchoCalls]

EchoOrderly == "unread" \notin echoSeen /\ "raced" \notin echoSeen
EchoWhole(n) == "fault" \notin echoSeen => 1 .. n \subseteq echo.fresh

EchoInOrder ==
  /\ echo.bc \in 0 .. BS /\ EchoWhole(echo.bc)
  /\ \A p \in Procs : ~echoProc[p].disturbed =>
       /\ echoProc[p].pc = "write" =>
            echo.bc = 0 /\ echoProc[p].count \in 1 .. BS /\ EchoWhole(echoProc[p].count)
       /\ echoProc[p].pc = "read" => echoProc[p].count <= echo.bc

EchoInv == EchoTypes /\ (EchoOrderly => EchoInOrder) /\ Echo!ReadInside /\ Echo!ReadFresh

(* echo as it is loaded                                                     *)
LEMMA EchoInit ==
  ASSUME Echo!Init
  PROVE  EchoInv
<1>1. EchoTypes /\ Echo!ReadInside /\ Echo!ReadFresh
  BY DEF Echo!Init, Echo!Out, EchoTypes, EchoDevs, EchoCalls, Echo!ReadInside, Echo!ReadFresh
<1>2. EchoInOrder
  BY DriversAssumption DEF Echo!Init, Echo!Out, EchoInOrder, EchoWhole
<1> QED  BY <1>1, <1>2 DEF EchoInv

(* The step of a process interrupts the calls of the others. *)
LEMMA EchoTo ==
  ASSUME EchoTypes, NEW p \in Procs, NEW l \in {"out", "open", "write", "read"}, NEW n \in Nat,
         Echo!To(p, l, n)
  PROVE  /\ echoProc' \in [Procs -> EchoCalls]
         /\ echoProc'[p].pc = l /\ echoProc'[p].count = n /\ echoProc'[p].disturbed = FALSE
         /\ \A q \in Procs \ {p} : echoProc'[q].pc \in {"write", "read"} => echoProc'[q].disturbed
<1>1. ASSUME NEW q \in Procs \ {p}
      PROVE  /\ echoProc'[q] \in EchoCalls
             /\ echoProc'[q].pc \in {"write", "read"} => echoProc'[q].disturbed
  <2> DEFINE inside == echoProc[q].pc \in {"write", "read"}
  <2>1. echoProc[q] \in EchoCalls /\ inside \in BOOLEAN
    BY DEF EchoTypes, EchoDevs, EchoCalls
  <2>2. echoProc'[q] = [echoProc[q] EXCEPT !.disturbed = inside]
    BY DEF Echo!To
  <2>3. echoProc'[q].pc = echoProc[q].pc /\ echoProc'[q].disturbed = inside
    <3> HIDE DEF inside
    <3> QED  BY <2>1, <2>2 DEF EchoCalls
  <2>4. echoProc'[q] \in EchoCalls
    <3> HIDE DEF inside
    <3> QED  BY <2>1, <2>2 DEF EchoCalls
  <2>5. ASSUME echoProc'[q].pc \in {"write", "read"} PROVE echoProc'[q].disturbed
    <3>1. inside
      BY <2>3, <2>5
    <3> HIDE DEF inside
    <3> QED  BY <2>3, <3>1
  <2> QED  BY <2>4, <2>5
<1>2. echoProc'[p] = [pc |-> l, count |-> n, disturbed |-> FALSE]
  BY DEF Echo!To, Echo!Out
<1>3. echoProc'[p] \in EchoCalls
  BY <1>2 DEF EchoCalls
<1>4. echoProc' = [q \in Procs |-> echoProc'[q]]
  BY DEF Echo!To
<1>5. \A q \in Procs : echoProc'[q] \in EchoCalls
  BY <1>1, <1>3
<1>6. echoProc' \in [Procs -> EchoCalls]
  BY <1>4, <1>5
<1> QED  BY <1>1, <1>2, <1>6

(* A step of one process                                                    *)
LEMMA EchoStep ==
  ASSUME EchoInv, NEW p \in Procs, Echo!Step(p)
  PROVE  EchoInv'
<1> USE DEF Echo!At, Echo!Saw, Echo!If
<1>0. EchoTypes /\ Echo!ReadInside /\ Echo!ReadFresh /\ (EchoOrderly => EchoInOrder) /\ BS \in Nat
  BY DriversAssumption DEF EchoInv
\* A step that ends outside write and read, and has met nothing.
<1>r. ASSUME NEW l \in {"out", "open"}, Echo!To(p, l, 0), echo' \in EchoDevs,
             EchoOrderly' => echo'.bc \in 0 .. BS /\ EchoWhole(echo.bc)',
             Echo!ReadInside', Echo!ReadFresh'
      PROVE  EchoInv'
  <2>1. /\ echoProc' \in [Procs -> EchoCalls]
        /\ echoProc'[p].pc = l /\ echoProc'[p].count = 0 /\ echoProc'[p].disturbed = FALSE
        /\ \A q \in Procs \ {p} : echoProc'[q].pc \in {"write", "read"} => echoProc'[q].disturbed
    <3>1. EchoTypes /\ Echo!To(p, l, 0) /\ l \in {"out", "open", "write", "read"} /\ 0 \in Nat
      BY <1>0, <1>r
    <3> QED  BY <3>1, EchoTo, Zenon
  <2>0. echo' \in EchoDevs
    BY <1>r
  <2>2. EchoTypes'
    BY <2>0, <2>1 DEF EchoTypes, EchoDevs, EchoCalls
  <2>3. EchoOrderly' => EchoInOrder'
    BY <1>r, <2>1 DEF EchoInOrder
  <2> QED  BY <1>r, <2>2, <2>3 DEF EchoInv
<1>1. ASSUME Echo!DevOpen(p) PROVE EchoInv'
  <2>0. echo' = [echo EXCEPT !.bc = 0, !.fresh = {}] /\ echoSeen' = echoSeen
    BY <1>1 DEF Echo!DevOpen
  <2>1. echo'.bc = 0 /\ echo'.fresh = {} /\ echo' \in EchoDevs /\ echoSeen' = echoSeen
    <3>1. echo' = [loaded |-> echo.loaded, device |-> echo.device, bc |-> 0, fresh |-> {}]
      BY <2>0, <1>0 DEF EchoTypes, EchoDevs
    <3>2. echo.loaded \in BOOLEAN /\ echo.device \in BOOLEAN
      BY <1>0 DEF EchoTypes, EchoDevs
    <3> QED  BY <2>0, <3>1, <3>2 DEF EchoDevs
  <2>2. EchoWhole(echo.bc)'
    BY <2>1 DEF EchoWhole
  <2>3. Echo!ReadInside' /\ Echo!ReadFresh'
    BY <1>0, <2>1 DEF Echo!ReadInside, Echo!ReadFresh
  <2>4. Echo!To(p, "open", 0)
    BY <1>1 DEF Echo!DevOpen
  <2> QED  BY <1>0, <1>r, <2>1, <2>2, <2>3, <2>4
<1>2. ASSUME Echo!DevRelease(p) PROVE EchoInv'
  <2>1. echo'.bc = 0 /\ echo'.fresh = echo.fresh /\ echo' \in EchoDevs /\ echoSeen' = echoSeen
    BY <1>2, <1>0 DEF Echo!DevRelease, EchoTypes, EchoDevs, EchoCalls
  <2>2. EchoWhole(echo.bc)'
    BY <2>1 DEF EchoWhole
  <2>3. Echo!ReadInside' /\ Echo!ReadFresh'
    BY <1>0, <2>1 DEF Echo!ReadInside, Echo!ReadFresh
  <2>4. Echo!To(p, "out", 0)
    BY <1>2 DEF Echo!DevRelease
  <2> QED  BY <1>0, <1>r, <2>1, <2>2, <2>3, <2>4
<1>3. ASSUME Echo!DevWriteCopy(p) PROVE EchoInv'
  <2>1. PICK count \in 1 .. BS, copied \in BOOLEAN :
          /\ echo' = IF copied THEN [echo EXCEPT !.fresh = @ \cup 1 .. count] ELSE echo
          /\ Echo!Saw(Echo!If("unread", echo.bc # 0) \cup Echo!If("fault", ~copied))
          /\ Echo!To(p, "write", count)
    BY <1>3 DEF Echo!DevWriteCopy
  <2>2. /\ echoProc' \in [Procs -> EchoCalls]
        /\ echoProc'[p].pc = "write" /\ echoProc'[p].count = count
        /\ \A q \in Procs \ {p} : echoProc'[q].pc \in {"write", "read"} => echoProc'[q].disturbed
    <3>1. count \in Nat /\ "write" \in {"out", "open", "write", "read"}
      BY <1>0
    <3> QED  BY <1>0, <2>1, <3>1, EchoTo
  <2>3. EchoTypes'
    BY <1>0, <2>1, <2>2 DEF EchoTypes, EchoDevs, EchoCalls
  <2>4. echo'.bc = echo.bc /\ echo.fresh \subseteq echo'.fresh /\ (copied => 1 .. count \subseteq echo'.fresh)
    BY <1>0, <2>1 DEF EchoTypes, EchoDevs, EchoCalls
  <2>5. echoSeen \subseteq echoSeen' /\ (echo.bc # 0 => "unread" \in echoSeen') /\ (~copied => "fault" \in echoSeen')
        /\ ("old" \in echoSeen' => "old" \in echoSeen) /\ ("outside" \in echoSeen' => "outside" \in echoSeen)
    BY <2>1
  <2>6. Echo!ReadInside' /\ Echo!ReadFresh'
    BY <1>0, <2>5 DEF Echo!ReadInside, Echo!ReadFresh
  <2>7. ASSUME EchoOrderly' PROVE EchoInOrder'
    <3>1. EchoOrderly /\ echo.bc = 0
      BY <2>5, <2>7 DEF EchoOrderly
    <3>2. EchoWhole(echo.bc)' /\ EchoWhole(echoProc[p].count)'
      BY <3>1, <2>2, <2>4, <2>5 DEF EchoWhole
    <3> QED  BY <1>0, <3>1, <3>2, <2>2, <2>4 DEF EchoInOrder
  <2> QED  BY <2>3, <2>6, <2>7 DEF EchoInv
<1>4. ASSUME Echo!DevWriteCount(p) PROVE EchoInv'
  <2> DEFINE c == echoProc[p].count
  <2>1. c \in Nat /\ echo'.bc = echo.bc + c /\ echo'.fresh = echo.fresh /\ echo' \in EchoDevs
    BY <1>4, <1>0 DEF Echo!DevWriteCount, EchoTypes, EchoDevs, EchoCalls
  <2>2. echoSeen \subseteq echoSeen' /\ echoSeen' \subseteq echoSeen \cup {"raced"}
        /\ (echoProc[p].disturbed => "raced" \in echoSeen')
    BY <1>4 DEF Echo!DevWriteCount
  <2>3. Echo!ReadInside' /\ Echo!ReadFresh'
    BY <1>0, <2>2 DEF Echo!ReadInside, Echo!ReadFresh
  <2>4. Echo!To(p, "open", 0) /\ echoProc[p].pc = "write"
    BY <1>4 DEF Echo!DevWriteCount
  <2>5. ASSUME EchoOrderly' PROVE echo'.bc \in 0 .. BS /\ EchoWhole(echo.bc)'
    <3>1. EchoOrderly /\ ~echoProc[p].disturbed
      BY <2>2, <2>5 DEF EchoOrderly
    <3>2. echo.bc = 0 /\ c \in 1 .. BS /\ EchoWhole(c)
      BY <1>0, <3>1, <2>4 DEF EchoInOrder
    <3>3. echo'.bc = c
      BY <3>2, <2>1
    <3>4. EchoWhole(echo.bc)'
      BY <3>2, <3>3, <2>1, <2>2 DEF EchoWhole
    <3> QED  BY <3>2, <3>3, <3>4
  <2> QED  BY <1>0, <1>r, <2>1, <2>3, <2>4, <2>5
<1>5. ASSUME Echo!DevReadChoose(p) PROVE EchoInv'
  <2>1. PICK count \in 1 .. 2 * BS :
          echoProc' = [echoProc EXCEPT ![p] = [Echo!Out EXCEPT !.pc = "read", !.count = Echo!Chosen(count)]]
    BY <1>5 DEF Echo!DevReadChoose
  <2> DEFINE c == Echo!Chosen(count)
  <2>2. c \in Nat /\ (echo.bc >= 0 => c <= echo.bc)
    BY <1>0, <2>1 DEF Echo!Chosen, EchoTypes, EchoDevs, EchoCalls
  <2>3. echoProc'[p] = [pc |-> "read", count |-> c, disturbed |-> FALSE]
        /\ \A q \in Procs \ {p} : echoProc'[q] = echoProc[q]
    BY <1>0, <2>1 DEF EchoTypes, EchoDevs, EchoCalls, Echo!Out
  <2>4. echo' = echo /\ echoSeen \subseteq echoSeen' /\ echoSeen' \subseteq echoSeen \cup {"raced"}
        /\ (echo.bc < 0 => "raced" \in echoSeen')
    BY <1>5 DEF Echo!DevReadChoose
  <2>5. Echo!ReadInside' /\ Echo!ReadFresh'
    BY <1>0, <2>4 DEF Echo!ReadInside, Echo!ReadFresh
  <2> HIDE DEF c
  <2>6. EchoTypes'
    <3>1. echoProc'[p] \in EchoCalls
      BY <2>2, <2>3 DEF EchoCalls
    <3>2. echoProc' = [echoProc EXCEPT ![p] = echoProc'[p]]
      BY <1>0, <2>1 DEF EchoTypes
    <3> QED  BY <1>0, <2>4, <3>1, <3>2 DEF EchoTypes
  <2>7. ASSUME EchoOrderly' PROVE EchoInOrder'
    <3>1. EchoOrderly
      BY <2>4, <2>7 DEF EchoOrderly
    <3>2. "fault" \in echoSeen' <=> "fault" \in echoSeen
      BY <2>4
    <3>3. EchoInOrder
      BY <1>0, <3>1
    <3> QED  BY <3>2, <3>3, <2>2, <2>3, <2>4 DEF EchoInOrder, EchoWhole
  <2> QED  BY <2>5, <2>6, <2>7 DEF EchoInv
<1>6. ASSUME Echo!DevReadTake(p) PROVE EchoInv'
  <2> DEFINE c == echoProc[p].count
  <2>1. c \in Nat /\ echo'.bc = echo.bc - c /\ echo'.fresh = echo.fresh /\ echo' \in EchoDevs
    BY <1>6, <1>0 DEF Echo!DevReadTake, EchoTypes, EchoDevs, EchoCalls
  <2>2. /\ echoSeen' = echoSeen \cup (IF echoProc[p].disturbed THEN {"raced"} ELSE {})
             \cup (IF c > BS THEN {"outside"} ELSE {})
             \cup (IF ~(1 .. c \subseteq echo.fresh) THEN {"old"} ELSE {})
        /\ Echo!To(p, "open", 0) /\ echoProc[p].pc = "read"
    BY <1>6 DEF Echo!DevReadTake
  <2>3. EchoOrderly' => EchoOrderly /\ ~echoProc[p].disturbed
    BY <2>2 DEF EchoOrderly
  <2>4. EchoOrderly' => c <= echo.bc /\ echo.bc \in 0 .. BS /\ EchoWhole(echo.bc)
    BY <1>0, <2>2, <2>3 DEF EchoInOrder
  <2>5. EchoOrderly' => ~(c > BS) /\ ("fault" \notin echoSeen => 1 .. c \subseteq echo.fresh)
    BY <1>0, <2>1, <2>4 DEF EchoWhole
  <2> HIDE DEF c
  <2>6. Echo!ReadInside' /\ Echo!ReadFresh'
    BY <1>0, <2>2, <2>5 DEF Echo!ReadInside, Echo!ReadFresh, EchoOrderly
  <2>7. ASSUME EchoOrderly' PROVE echo'.bc \in 0 .. BS /\ EchoWhole(echo.bc)'
    <3>1. echo'.bc \in 0 .. BS /\ echo'.bc <= echo.bc
      BY <1>0, <2>1, <2>4, <2>7
    <3>2. "fault" \in echoSeen' <=> "fault" \in echoSeen
      BY <2>2
    <3> QED  BY <3>1, <3>2, <2>1, <2>4, <2>7 DEF EchoWhole
  <2> QED  BY <1>0, <1>r, <2>1, <2>2, <2>6, <2>7
<1> QED  BY <1>1, <1>2, <1>3, <1>4, <1>5, <1>6 DEF Echo!Step

(* Every step of echo                                                       *)
LEMMA EchoNext ==
  ASSUME EchoInv, Echo!Next
  PROVE  EchoInv'
<1>1. ASSUME Echo!Load PROVE EchoInv'
  <2>1. echo'.bc = echo.bc /\ echo'.fresh = echo.fresh /\ echoProc' = echoProc /\ echoSeen' = echoSeen
    BY <1>1 DEF Echo!Load, EchoInv, EchoTypes, EchoDevs, EchoCalls
  <2>2. EchoTypes'
    BY <1>1 DEF Echo!Load, EchoInv, EchoTypes, EchoDevs, EchoCalls
  <2> QED  BY <2>1, <2>2 DEF EchoInv, EchoInOrder, EchoOrderly, EchoWhole, Echo!ReadInside, Echo!ReadFresh
<1>2. ASSUME Echo!Unload PROVE EchoInv'
  <2>1. echo'.bc = 0 /\ echo'.fresh = {} /\ echoProc' = echoProc /\ echoSeen' = echoSeen
        /\ \A p \in Procs : echoProc[p].pc = "out"
    BY <1>2 DEF Echo!Unload, Echo!At
  <2>2. EchoTypes'
    BY <1>2 DEF Echo!Unload, EchoInv, EchoTypes, EchoDevs, EchoCalls
  <2>3. EchoInOrder'
    BY <2>1, DriversAssumption DEF EchoInOrder, EchoWhole
  <2> QED  BY <2>1, <2>2, <2>3 DEF EchoInv, Echo!ReadInside, Echo!ReadFresh
<1> QED  BY <1>1, <1>2, EchoStep DEF Echo!Next

(* And those of other drivers                                               *)
LEMMA EchoStutter ==
  ASSUME EchoInv, UNCHANGED EchoVars
  PROVE  EchoInv'
BY DEF EchoInv, EchoVars, EchoTypes, EchoInOrder, EchoOrderly, EchoWhole, Echo!ReadInside, Echo!ReadFresh

(* A read of echo copies only bytes of the buffer written since the open,   *)
(* except in the cases that EchoFresh names (echo_lambidelas.c:49-67).      *)
THEOREM EchoReads == Spec => []EchoFresh
<1> DEFINE I == loaded = "echo" => EchoInv
<1>1. Init => I
  BY EchoInit DEF Init
<1>2. I /\ [Next]_vars => I'
  <2> SUFFICES ASSUME I, [Next]_vars, loaded' = "echo" PROVE EchoInv'
    OBVIOUS
  <2>1. loaded = "echo" /\ (Echo!Next \/ UNCHANGED EchoVars)
    BY DEF Next, vars, Of
  <2> QED  BY <2>1, EchoNext, EchoStutter
<1>3. I => EchoFresh
  BY DEF EchoFresh, EchoInv
<1> QED  BY <1>1, <1>2, <1>3, PTL DEF Spec

----------------------------------------------------------------------------
(* tiny_serial *)

UartTypes ==
  /\ uart \in [open : BOOLEAN, tty : BOOLEAN, stopped : BOOLEAN, x_char : BOOLEAN,
               head : 0 .. XmitSize - 1, tail : 0 .. XmitSize - 1,
               timer : {"off", "set"}, handler : {"idle", "test", "resubmit", "tx", "take"}]
  /\ uartSeen \in [written : Nat, sent : Nat, odd : SUBSET {"cleared"}]

(* Until it is cleared, the buffer holds what was written and not sent,    *)
(* and a handler that is about to take a character finds one.              *)
UartSends ==
  uartSeen.odd = {} =>
    /\ Filled(XmitSize, uart.tail, uart.head) = uartSeen.written - uartSeen.sent
    /\ uart.handler = "take" => uart.head # uart.tail

(* An open port has its tty, and its timer is set or its handler runs.     *)
UartOpen ==
  uart.open = TRUE => uart.tty = TRUE /\ (uart.timer = "set" \/ uart.handler \in {"test", "resubmit"})

UartInv == UartTypes /\ UartSends /\ UartOpen

(* tiny_serial as it is loaded                                              *)
LEMMA UartInit ==
  ASSUME TinySerial!Init
  PROVE  UartInv
<1>1. XmitSize \in Nat /\ XmitSize > 0
  BY DriversAssumption
<1>2. UartTypes
  BY <1>1 DEF TinySerial!Init, UartTypes
<1> QED  BY <1>1, <1>2 DEF TinySerial!Init, UartInv, UartSends, UartOpen, Filled

(* Every step of tiny_serial                                                *)
LEMMA UartNext ==
  ASSUME UartInv, TinySerial!Next
  PROVE  UartInv'
<1>0. UartTypes /\ UartSends /\ UartOpen
  BY DEF UartInv
<1>x. XmitSize \in Nat \ {0} /\ 0 \in 0 .. XmitSize - 1
  BY DriversAssumption
<1>f. /\ uart.tail \in 0 .. XmitSize - 1 /\ uart.head \in 0 .. XmitSize - 1
      /\ uartSeen.written \in Nat /\ uartSeen.sent \in Nat
  BY <1>0 DEF UartTypes
<1> DEFINE F == Filled(XmitSize, uart.tail, uart.head)
\* Steps that touch neither the buffer nor what is counted
<1>c. ASSUME UartTypes', uart'.head = uart.head, uart'.tail = uart.tail, uartSeen' = uartSeen,
             uart'.handler = "take" => uart.handler = "take" \/ uart.head # uart.tail
      PROVE  UartSends'
  BY <1>0, <1>c DEF UartSends
<1>z. ASSUME UartTypes', uart'.head = 0, uart'.tail = 0, uartSeen'.written = 0, uartSeen'.sent = 0,
             uart'.handler = uart.handler, uart.handler = "take" => uartSeen'.odd # {}
      PROVE  UartSends'
  BY <1>x, <1>z DEF UartSends, Filled
<1>1. ASSUME TinySerial!Open PROVE UartInv'
  <2>1. uart' = [uart EXCEPT !.tty = TRUE, !.stopped = FALSE] /\ uartSeen' = uartSeen
    BY <1>1 DEF TinySerial!Open
  <2>2. UartTypes' /\ uart'.head = uart.head /\ uart'.tail = uart.tail /\ uart'.handler = uart.handler
        /\ uart'.open = uart.open /\ uart'.tty = TRUE /\ uart'.timer = uart.timer
    BY <1>0, <2>1 DEF UartTypes
  <2>3. UartOpen'
    BY <1>0, <2>2 DEF UartOpen
  <2> QED  BY <1>c, <2>1, <2>2, <2>3 DEF UartInv
<1>2. ASSUME TinySerial!Startup PROVE UartInv'
  <2>1. uart' = [uart EXCEPT !.open = TRUE, !.timer = "set"] /\ uartSeen' = uartSeen /\ uart.tty
    BY <1>2 DEF TinySerial!Startup
  <2>2. UartTypes' /\ uart'.head = uart.head /\ uart'.tail = uart.tail /\ uart'.handler = uart.handler
        /\ uart'.tty = uart.tty /\ uart'.timer = "set"
    BY <1>0, <2>1 DEF UartTypes
  <2>3. UartOpen'
    <3>1. uart.tty \in BOOLEAN
      BY <1>0 DEF UartTypes
    <3>2. uart.tty = TRUE
      BY <2>1, <3>1, Zenon
    <3> QED  BY <3>2, <2>2 DEF UartOpen
  <2> QED  BY <1>c, <2>1, <2>2, <2>3 DEF UartInv
<1>3. ASSUME TinySerial!Shutdown PROVE UartInv'
  <2>1. uart' = [uart EXCEPT !.open = FALSE, !.timer = "off"] /\ uartSeen' = uartSeen
    BY <1>3 DEF TinySerial!Shutdown
  <2>2. UartTypes' /\ uart'.head = uart.head /\ uart'.tail = uart.tail /\ uart'.handler = uart.handler
        /\ uart'.open = FALSE
    BY <1>0, <2>1 DEF UartTypes
  <2>3. UartOpen'
    BY <2>2 DEF UartOpen
  <2> QED  BY <1>c, <2>1, <2>2, <2>3 DEF UartInv
<1>4. ASSUME TinySerial!Close PROVE UartInv'
  <2>1. /\ uart' = [uart EXCEPT !.tty = FALSE, !.head = 0, !.tail = 0, !.x_char = FALSE] /\ ~uart.open
        /\ uartSeen' = [written |-> 0, sent |-> 0,
                        odd |-> IF uart.handler = "take" THEN {"cleared"} ELSE {}]
    BY <1>4 DEF TinySerial!Close
  <2>2. UartTypes' /\ uart'.head = 0 /\ uart'.tail = 0 /\ uart'.handler = uart.handler /\ uart'.open = uart.open
        /\ uartSeen'.written = 0 /\ uartSeen'.sent = 0 /\ (uart.handler = "take" => uartSeen'.odd # {})
    BY <1>0, <1>x, <2>1 DEF UartTypes
  <2>3. UartOpen'
    BY <2>1, <2>2 DEF UartOpen
  <2> QED  BY <1>z, <2>2, <2>3 DEF UartInv
<1>5. ASSUME TinySerial!Write PROVE UartInv'
  <2> DEFINE h == (uart.head + 1) % XmitSize
  <2>1. h # uart.tail /\ uart' = [uart EXCEPT !.head = h] /\ uartSeen' = [uartSeen EXCEPT !.written = @ + 1]
    BY <1>5 DEF TinySerial!Write, TinySerial!Full
  <2>2. h \in 0 .. XmitSize - 1 /\ Filled(XmitSize, uart.tail, h) = F + 1
        /\ (uart.handler = "take" /\ uartSeen.odd = {} => uart.head # uart.tail)
    BY <1>0, <1>x, <1>f, <2>1, OnePlace DEF UartSends
  <2> HIDE DEF h
  <2>3. UartTypes' /\ uart'.head = h /\ uart'.tail = uart.tail /\ uart'.handler = uart.handler
        /\ uart'.open = uart.open /\ uart'.tty = uart.tty /\ uart'.timer = uart.timer
        /\ uartSeen'.written = uartSeen.written + 1 /\ uartSeen'.sent = uartSeen.sent /\ uartSeen'.odd = uartSeen.odd
    BY <1>0, <2>1, <2>2 DEF UartTypes
  <2>4. UartSends'
    <3> HIDE DEF F
    <3>1. uartSeen.odd = {} => F = uartSeen.written - uartSeen.sent
      BY <1>0 DEF UartSends, F
    <3>2. uartSeen.odd = {} => Filled(XmitSize, uart.tail, h) = (uartSeen.written + 1) - uartSeen.sent
      BY <1>f, <2>2, <3>1
    <3> QED  BY <2>1, <2>3, <3>2 DEF UartSends
  <2>5. UartOpen'
    BY <1>0, <2>3 DEF UartOpen
  <2> QED  BY <2>3, <2>4, <2>5 DEF UartInv
<1>6. ASSUME TinySerial!Flow PROVE UartInv'
  <2>1. uartSeen' = uartSeen /\ (uart' = [uart EXCEPT !.x_char = TRUE] \/ uart' = [uart EXCEPT !.stopped = ~uart.stopped])
    BY <1>6 DEF TinySerial!Flow
  <2>2. UartTypes' /\ uart'.head = uart.head /\ uart'.tail = uart.tail /\ uart'.handler = uart.handler
        /\ uart'.open = uart.open /\ uart'.tty = uart.tty /\ uart'.timer = uart.timer
    <3> DEFINE b == ~uart.stopped
    <3>1. b \in BOOLEAN
      OBVIOUS
    <3>2. uart' = [uart EXCEPT !.x_char = TRUE] \/ uart' = [uart EXCEPT !.stopped = b]
      BY <2>1
    <3> HIDE DEF b
    <3> QED  BY <1>0, <2>1, <3>1, <3>2 DEF UartTypes
  <2>3. UartOpen'
    BY <1>0, <2>2 DEF UartOpen
  <2> QED  BY <1>c, <2>1, <2>2, <2>3 DEF UartInv
<1>7. ASSUME TinySerial!Flush PROVE UartInv'
  <2>1. /\ uart' = [uart EXCEPT !.head = 0, !.tail = 0]
        /\ uartSeen' = [uartSeen EXCEPT !.written = 0, !.sent = 0,
                          !.odd = IF uart.handler = "take" THEN @ \cup {"cleared"} ELSE @]
    BY <1>7 DEF TinySerial!Flush
  <2>2. UartTypes' /\ uart'.head = 0 /\ uart'.tail = 0 /\ uart'.handler = uart.handler
        /\ uart'.open = uart.open /\ uart'.tty = uart.tty /\ uart'.timer = uart.timer
        /\ uartSeen'.written = 0 /\ uartSeen'.sent = 0 /\ (uart.handler = "take" => uartSeen'.odd # {})
    BY <1>0, <1>x, <2>1 DEF UartTypes
  <2>3. UartOpen'
    BY <1>0, <2>2 DEF UartOpen
  <2> QED  BY <1>z, <2>2, <2>3 DEF UartInv
<1>8. ASSUME TinySerial!TimerStart PROVE UartInv'
  <2>1. uart' = [uart EXCEPT !.timer = "off", !.handler = "test"] /\ uartSeen' = uartSeen
    BY <1>8 DEF TinySerial!TimerStart
  <2>2. UartTypes' /\ uart'.head = uart.head /\ uart'.tail = uart.tail /\ uart'.handler = "test"
        /\ uart'.open = uart.open /\ uart'.tty = uart.tty
    BY <1>0, <2>1 DEF UartTypes
  <2>3. UartOpen'
    BY <1>0, <2>2 DEF UartOpen
  <2> QED  BY <1>c, <2>1, <2>2, <2>3 DEF UartInv
<1>9. ASSUME TinySerial!TimerTest PROVE UartInv'
  <2>1. uart' = [uart EXCEPT !.handler = IF uart.tty THEN "resubmit" ELSE "idle"] /\ uartSeen' = uartSeen
    BY <1>9 DEF TinySerial!TimerTest
  <2>2. PICK h \in {"resubmit", "idle"} :
          uart' = [uart EXCEPT !.handler = h] /\ (uart.tty = TRUE => h = "resubmit")
    <3>1. uart' = [uart EXCEPT !.handler = "resubmit"] \/ (uart' = [uart EXCEPT !.handler = "idle"] /\ ~(uart.tty = TRUE))
      BY <2>1
    <3> QED  BY <3>1
  <2>3. UartTypes' /\ uart'.head = uart.head /\ uart'.tail = uart.tail /\ uart'.handler = h
        /\ uart'.open = uart.open /\ uart'.tty = uart.tty
    <3>1. uart' = [uart EXCEPT !.handler = h]
      BY <2>2
    <3> QED  BY <1>0, <2>1, <3>1 DEF UartTypes
  <2>4. UartOpen'
    BY <1>0, <2>2, <2>3 DEF UartOpen
  <2> QED  BY <1>c, <2>1, <2>3, <2>4 DEF UartInv
<1>10. ASSUME TinySerial!TimerResubmit PROVE UartInv'
  <2>1. uart' = [uart EXCEPT !.timer = "set", !.handler = "tx"] /\ uartSeen' = uartSeen
    BY <1>10 DEF TinySerial!TimerResubmit
  <2>2. UartTypes' /\ uart'.head = uart.head /\ uart'.tail = uart.tail /\ uart'.handler = "tx"
        /\ uart'.open = uart.open /\ uart'.tty = uart.tty /\ uart'.timer = "set"
    BY <1>0, <2>1 DEF UartTypes
  <2>3. UartOpen'
    BY <1>0, <2>2 DEF UartOpen
  <2> QED  BY <1>c, <2>1, <2>2, <2>3 DEF UartInv
<1>11. ASSUME TinySerial!TxTest PROVE UartInv'
  <2>1. PICK h \in {"take", "idle"} :
          /\ uart' = [uart EXCEPT !.x_char = FALSE, !.handler = h] /\ uartSeen' = uartSeen
          /\ h = "take" => uart.head # uart.tail
          /\ uart.handler = "tx"
    BY <1>11 DEF TinySerial!TxTest
  <2>2. UartTypes' /\ uart'.head = uart.head /\ uart'.tail = uart.tail /\ uart'.handler = h
        /\ uart'.open = uart.open /\ uart'.tty = uart.tty /\ uart'.timer = uart.timer
    BY <1>0, <2>1 DEF UartTypes
  <2>3. UartOpen'
    BY <1>0, <2>1, <2>2 DEF UartOpen
  <2> QED  BY <1>c, <2>1, <2>2, <2>3 DEF UartInv
<1>12. ASSUME TinySerial!TxTake PROVE UartInv'
  <2> DEFINE t == (uart.tail + 1) % XmitSize
  <2>1. /\ uart.handler = "take" /\ uart' = [uart EXCEPT !.tail = t, !.handler = "idle"]
        /\ uartSeen' = IF uartSeen.odd # {} THEN uartSeen ELSE [uartSeen EXCEPT !.sent = @ + 1]
    BY <1>12 DEF TinySerial!TxTake
  <2>2. t \in 0 .. XmitSize - 1 /\ (uart.tail # uart.head => Filled(XmitSize, t, uart.head) = F - 1)
    BY <1>x, <1>f, OnePlace
  <2> HIDE DEF t
  <2>3. UartTypes' /\ uart'.head = uart.head /\ uart'.tail = t /\ uart'.handler = "idle"
        /\ uart'.open = uart.open /\ uart'.tty = uart.tty /\ uart'.timer = uart.timer
        /\ uartSeen'.written = uartSeen.written /\ uartSeen'.odd = uartSeen.odd
        /\ (uartSeen.odd = {} => uartSeen'.sent = uartSeen.sent + 1)
    <3>1. uart' \in [open : BOOLEAN, tty : BOOLEAN, stopped : BOOLEAN, x_char : BOOLEAN,
               head : 0 .. XmitSize - 1, tail : 0 .. XmitSize - 1,
               timer : {"off", "set"}, handler : {"idle", "test", "resubmit", "tx", "take"}]
          /\ uart'.head = uart.head /\ uart'.tail = t /\ uart'.handler = "idle"
          /\ uart'.open = uart.open /\ uart'.tty = uart.tty /\ uart'.timer = uart.timer
      BY <1>0, <2>1, <2>2 DEF UartTypes
    <3>2. CASE uartSeen.odd # {}
      BY <1>0, <2>1, <3>1, <3>2 DEF UartTypes
    <3>3. CASE uartSeen.odd = {}
      <4>1. uartSeen' = [uartSeen EXCEPT !.sent = @ + 1]
        BY <2>1, <3>3
      <4>2. uartSeen' \in [written : Nat, sent : Nat, odd : SUBSET {"cleared"}]
            /\ uartSeen'.written = uartSeen.written /\ uartSeen'.odd = uartSeen.odd /\ uartSeen'.sent = uartSeen.sent + 1
        BY <1>0, <4>1 DEF UartTypes
      <4> QED  BY <3>1, <4>2 DEF UartTypes
    <3> QED  BY <3>2, <3>3
  <2>4. UartSends'
    <3> HIDE DEF F
    <3>1. uartSeen.odd = {} => F = uartSeen.written - uartSeen.sent /\ uart.head # uart.tail
      BY <1>0, <2>1 DEF UartSends, F
    <3>2. uartSeen.odd = {} => Filled(XmitSize, t, uart.head) = uartSeen.written - (uartSeen.sent + 1)
      BY <1>f, <2>2, <3>1
    <3> QED  BY <2>3, <3>2 DEF UartSends
  <2>5. UartOpen'
    BY <1>0, <2>1, <2>3 DEF UartOpen
  <2> QED  BY <2>3, <2>4, <2>5 DEF UartInv
<1> QED
  BY <1>1, <1>2, <1>3, <1>4, <1>5, <1>6, <1>7, <1>8, <1>9, <1>10, <1>11, <1>12 DEF TinySerial!Next

(* And those of other drivers                                               *)
LEMMA UartStutter ==
  ASSUME UartInv, UNCHANGED TinySerialVars
  PROVE  UartInv'
<1>1. uart' = uart /\ uartSeen' = uartSeen
  BY DEF TinySerialVars
<1> QED  BY <1>1 DEF UartInv, UartTypes, UartSends, UartOpen

(* What the invariant says of the characters and of the timer               *)
LEMMA UartSafe ==
  ASSUME UartInv
  PROVE  TinySerial!SentOnce /\ TinySerial!TimerRuns
<1>0. UartTypes /\ UartSends /\ UartOpen
  BY DEF UartInv
<1>1. /\ XmitSize \in Nat \ {0} /\ uart.tail \in 0 .. XmitSize - 1 /\ uart.head \in 0 .. XmitSize - 1
      /\ uartSeen.written \in Nat /\ uartSeen.sent \in Nat /\ uart.open \in BOOLEAN
  BY <1>0, DriversAssumption DEF UartTypes
<1>2. TinySerial!SentOnce
  <2> DEFINE F == Filled(XmitSize, uart.tail, uart.head)
  <2>1. F \in Nat /\ (uart.head - uart.tail) % XmitSize = F
    BY <1>1, OnePlace
  <2>2. uartSeen.odd = {} => F = uartSeen.written - uartSeen.sent
    BY <1>0 DEF UartSends
  <2> HIDE DEF F
  <2>3. uartSeen.odd = {} => uartSeen.sent <= uartSeen.written
    BY <1>1, <2>1, <2>2
  <2> QED  BY <2>1, <2>2, <2>3 DEF TinySerial!SentOnce
<1>3. TinySerial!TimerRuns
  <2>1. uart.open => uart.open = TRUE
    BY <1>1
  <2> QED  BY <1>0, <2>1, Zenon DEF TinySerial!TimerRuns, UartOpen
<1> QED  BY <1>2, <1>3

----------------------------------------------------------------------------
(* tiny_tty *)

TinyTypes ==
  /\ tiny \in [Tinys -> [made : BOOLEAN, open_count : Nat,
                         timer : {"none", "set", "idle", "freed"},
                         handler : {"idle", "push", "resubmit"}]]
  /\ tinyTable \in Tinys \cup {0} /\ driverData \in Tinys \cup {0}
  /\ tinyProc \in [Procs -> [pc : {"out", "alloc", "down", "open", "close", "close_down"},
                             tiny : Tinys \cup {0}]]

(* A structure that is not allocated yet is untouched, and nobody has it.  *)
TinyMade ==
  /\ \A k \in Tinys : tiny[k].made = FALSE =>
       /\ tiny[k].open_count = 0 /\ tiny[k].timer = "none" /\ tiny[k].handler = "idle"
       /\ tinyTable # k /\ driverData # k /\ \A p \in Procs : tinyProc[p].tiny # k
  /\ \A p \in Procs : tinyProc[p].pc \in {"down", "open", "close_down"} => tinyProc[p].tiny # 0

TinyNoTimer ==
  /\ \A k \in Tinys : tiny[k].open_count > 0 /\ tiny[k].timer = "none" => "no timer" \in tinySeen
  /\ TinyTty!TimerThere

(* The calls that have increased the count and not decreased it.           *)
Holds(call) == call.pc \in {"open", "close_down"} \/ (call.pc = "close" /\ call.tiny # 0)
Holders(calls) == {p \in Procs : Holds(calls[p])}

(* Unless one of the first two windows was hit, all that use the port use  *)
(* the structure of the table, and its count is theirs.                    *)
TinyTable ==
  \A p \in Procs : tinyProc[p].pc \notin {"out", "alloc"} /\ tinyProc[p].tiny # 0 => tinyProc[p].tiny = tinyTable
TinyCount == tinyTable # 0 => tiny[tinyTable].open_count = Cardinality(Holders(tinyProc))
TinyRuns ==
  "no timer" \notin tinySeen /\ tinyTable # 0 /\ tiny[tinyTable].open_count > 0 =>
    tiny[tinyTable].timer = "set" \/ tiny[tinyTable].handler # "idle"
TinyQuiet ==
  "late" \notin tinySeen => \A k \in Tinys : k # tinyTable \/ tiny[k].open_count = 0 =>
    tiny[k].timer # "set" /\ tiny[k].handler = "idle"
TinyWhole == tinySeen \cap {"two", "mixed"} = {} => TinyTable /\ TinyCount /\ TinyRuns /\ TinyQuiet

TinyInv == TinyTypes /\ TinyMade /\ TinyNoTimer /\ TinyWhole /\ TinyTty!TtyAlive

(* A set of processes that changes in one of them. *)
LEMMA CountOne ==
  ASSUME NEW A \in SUBSET Procs, NEW B \in SUBSET Procs, NEW p \in Procs, A \ {p} = B \ {p}
  PROVE  /\ IsFiniteSet(A) /\ Cardinality(A) \in Nat
         /\ (p \in A <=> p \in B) => Cardinality(B) = Cardinality(A)
         /\ p \notin A /\ p \in B => Cardinality(B) = Cardinality(A) + 1
         /\ p \in A /\ p \notin B => Cardinality(B) = Cardinality(A) - 1 /\ Cardinality(A) > 0
<1>1. IsFiniteSet(A) /\ Cardinality(A) \in Nat /\ IsFiniteSet(B) /\ Cardinality(B) \in Nat
  BY DriversAssumption, FS_Subset, FS_CardinalityType
<1>2. ASSUME p \in A <=> p \in B PROVE Cardinality(B) = Cardinality(A)
  <2>1. A = B
    BY <1>2
  <2> QED  BY <2>1
<1>3. ASSUME p \notin A, p \in B PROVE Cardinality(B) = Cardinality(A) + 1
  <2>1. B = A \cup {p}
    BY <1>3
  <2> QED  BY <1>1, <1>3, <2>1, FS_AddElement
<1>4. ASSUME p \in A, p \notin B PROVE Cardinality(B) = Cardinality(A) - 1 /\ Cardinality(A) > 0
  <2>1. A = B \cup {p}
    BY <1>4
  <2>2. Cardinality(A) = Cardinality(B) + 1
    BY <1>1, <1>4, <2>1, FS_AddElement
  <2> QED  BY <1>1, <2>2
<1> QED  BY <1>1, <1>2, <1>3, <1>4

(* The processes that hold an open of the port, when one process goes on    *)
LEMMA HoldersOne ==
  ASSUME NEW calls, NEW new, NEW p \in Procs, \A q \in Procs \ {p} : new[q] = calls[q]
  PROVE  /\ Cardinality(Holders(calls)) \in Nat
         /\ (Holds(calls[p]) <=> Holds(new[p])) => Cardinality(Holders(new)) = Cardinality(Holders(calls))
         /\ ~Holds(calls[p]) /\ Holds(new[p]) => Cardinality(Holders(new)) = Cardinality(Holders(calls)) + 1
         /\ Holds(calls[p]) /\ ~Holds(new[p]) =>
              Cardinality(Holders(new)) = Cardinality(Holders(calls)) - 1 /\ Cardinality(Holders(calls)) > 0
<1> DEFINE A == Holders(calls)
           B == Holders(new)
<1>1. A \in SUBSET Procs /\ B \in SUBSET Procs /\ A \ {p} = B \ {p}
      /\ (p \in A <=> Holds(calls[p])) /\ (p \in B <=> Holds(new[p]))
  BY DEF Holders
<1> HIDE DEF A, B
<1>2. /\ Cardinality(A) \in Nat
      /\ (p \in A <=> p \in B) => Cardinality(B) = Cardinality(A)
      /\ p \notin A /\ p \in B => Cardinality(B) = Cardinality(A) + 1
      /\ p \in A /\ p \notin B => Cardinality(B) = Cardinality(A) - 1 /\ Cardinality(A) > 0
  BY <1>1, CountOne
<1>3. /\ Cardinality(A) \in Nat
      /\ (Holds(calls[p]) <=> Holds(new[p])) => Cardinality(B) = Cardinality(A)
      /\ ~Holds(calls[p]) /\ Holds(new[p]) => Cardinality(B) = Cardinality(A) + 1
      /\ Holds(calls[p]) /\ ~Holds(new[p]) => Cardinality(B) = Cardinality(A) - 1 /\ Cardinality(A) > 0
  BY <1>1, <1>2, Zenon
<1> QED  BY <1>3 DEF A, B

(* Nobody holds it.                                                         *)
LEMMA HoldersNone ==
  ASSUME NEW calls, \A p \in Procs : ~Holds(calls[p])
  PROVE  Cardinality(Holders(calls)) = 0
<1>1. Holders(calls) = {}
  BY DEF Holders
<1> QED  BY <1>1, FS_EmptySet

(* Somebody holds it.                                                       *)
LEMMA HoldersSome ==
  ASSUME NEW calls, NEW p \in Procs, Holds(calls[p])
  PROVE  Cardinality(Holders(calls)) \in Nat /\ Cardinality(Holders(calls)) > 0
<1> DEFINE A == Holders(calls)
<1>1. A \in SUBSET Procs /\ p \in A
  BY DEF Holders
<1> HIDE DEF A
<1>2. IsFiniteSet(A) /\ Cardinality(A) \in Nat
  BY <1>1, DriversAssumption, FS_Subset, FS_CardinalityType
<1>3. Cardinality(A) # 0
  BY <1>1, <1>2, FS_EmptySet
<1>4. Cardinality(A) \in Nat /\ Cardinality(A) > 0
  BY <1>2, <1>3
<1> QED  BY <1>4 DEF A

(* tiny_tty as it is loaded                                                 *)
LEMMA TinyInit ==
  ASSUME TinyTty!Init
  PROVE  TinyInv
<1>0. 0 \notin Tinys
  BY DriversAssumption
<1>1. /\ \A k \in Tinys : tiny[k].open_count = 0 /\ tiny[k].timer = "none" /\ tiny[k].handler = "idle"
      /\ tinyTable = 0 /\ driverData = 0 /\ tinySeen = {}
      /\ \A p \in Procs : tinyProc[p].pc = "out" /\ tinyProc[p].tiny = 0
  BY DEF TinyTty!Init, TinyTty!Gone, TinyTty!NULL
<1>2. TinyTypes
  BY DEF TinyTty!Init, TinyTty!Gone, TinyTty!NULL, TinyTypes
<1>3. TinyMade /\ TinyNoTimer /\ TinyTty!TtyAlive
  BY <1>0, <1>1 DEF TinyMade, TinyNoTimer, TinyTty!TimerThere, TinyTty!TtyAlive
<1>4. TinyWhole
  BY <1>1 DEF TinyWhole, TinyTable, TinyCount, TinyRuns, TinyQuiet
<1> QED  BY <1>2, <1>3, <1>4 DEF TinyInv

(* A port that is not in use is quiet.                                      *)
LEMMA TinyClosed ==
  ASSUME TinyInv, tinySeen \cap {"two", "mixed", "late"} = {}, ~TinyTty!InUse
  PROVE  \A k \in Tinys : tiny[k].timer # "set" /\ tiny[k].handler = "idle"
<1>1. TinyCount /\ TinyQuiet
  BY DEF TinyInv, TinyWhole
<1>2. \A p \in Procs : ~Holds(tinyProc[p])
  BY DEF TinyTty!InUse, TinyTty!At, Holds
<1>3. tinyTable # 0 => tiny[tinyTable].open_count = 0
  BY <1>1, <1>2, HoldersNone DEF TinyCount
<1> SUFFICES ASSUME NEW k \in Tinys PROVE tiny[k].timer # "set" /\ tiny[k].handler = "idle"
  OBVIOUS
<1>4. k # tinyTable \/ tiny[k].open_count = 0
  <2>1. k # 0
    BY DriversAssumption
  <2> QED  BY <1>3, <2>1
<1> QED  BY <1>1, <1>4 DEF TinyQuiet

(* An open finds the structure or makes one.                                *)
LEMMA TinyOpen ==
  ASSUME TinyInv, NEW p \in Procs, TinyTty!OpenStart(p) \/ TinyTty!OpenAlloc(p)
  PROVE  TinyInv'
<1>0. TinyTypes /\ TinyMade /\ TinyNoTimer /\ TinyWhole /\ TinyTty!TtyAlive /\ 0 \notin Tinys
  BY DriversAssumption DEF TinyInv
\* p goes on without a structure, or with that of the table.
<1>g. ASSUME NEW l \in {"alloc", "down", "close"}, NEW k \in Tinys \cup {0},
             tinyProc' = [tinyProc EXCEPT ![p] = [pc |-> l, tiny |-> k]],
             tinyProc[p].pc \in {"out", "alloc"},
             k = 0 \/ (k = tinyTable /\ l = "down"), l = "down" => k # 0,
             tiny' = tiny, tinyTable' = tinyTable, driverData' \in {0, driverData}, tinySeen' = tinySeen
      PROVE  TinyInv'
  <2>1. TinyTypes'
    BY <1>0, <1>g DEF TinyTypes
  <2>2. tinyProc'[p].pc = l /\ tinyProc'[p].tiny = k /\ \A q \in Procs \ {p} : tinyProc'[q] = tinyProc[q]
    BY <1>0, <1>g DEF TinyTypes
  <2>3. ~Holds(tinyProc[p]) /\ ~Holds(tinyProc'[p])
    BY <1>g, <2>2 DEF Holds
  <2>4. Cardinality(Holders(tinyProc')) = Cardinality(Holders(tinyProc))
    BY <2>2, <2>3, HoldersOne
  <2>5. TinyMade'
    <3>1. k = 0 \/ k = tinyTable
      BY <1>g
    <3>2. \A q \in Procs : tinyProc'[q].pc \in {"down", "open", "close_down"} => tinyProc'[q].tiny # 0
      BY <1>0, <1>g, <2>2 DEF TinyMade
    <3>3. ASSUME NEW j \in Tinys, tiny'[j].made = FALSE
          PROVE  /\ tiny'[j].open_count = 0 /\ tiny'[j].timer = "none" /\ tiny'[j].handler = "idle"
                 /\ tinyTable' # j /\ driverData' # j /\ \A q \in Procs : tinyProc'[q].tiny # j
      <4>1. /\ tiny[j].open_count = 0 /\ tiny[j].timer = "none" /\ tiny[j].handler = "idle"
            /\ tinyTable # j /\ driverData # j /\ \A q \in Procs : tinyProc[q].tiny # j
        BY <1>0, <1>g, <3>3 DEF TinyMade
      <4>2. k # j /\ j # 0
        BY <1>0, <3>1, <4>1
      <4> QED  BY <1>g, <2>2, <4>1, <4>2
    <3> QED  BY <3>2, <3>3 DEF TinyMade
  <2>7. TinyNoTimer' /\ TinyTty!TtyAlive'
    BY <1>0, <1>g DEF TinyNoTimer, TinyTty!TimerThere, TinyTty!TtyAlive
  <2>6. TinyWhole'
    BY <1>0, <1>g, <2>2, <2>4 DEF TinyWhole, TinyTable, TinyCount, TinyRuns, TinyQuiet
  <2> QED  BY <2>1, <2>5, <2>6, <2>7 DEF TinyInv
<1>1. ASSUME TinyTty!OpenStart(p) PROVE TinyInv'
  <2>1. /\ tinyProc[p].pc = "out" /\ driverData' = 0 /\ tiny' = tiny /\ tinyTable' = tinyTable /\ tinySeen' = tinySeen
        /\ tinyProc' = [tinyProc EXCEPT ![p] = [pc |-> IF tinyTable = 0 THEN "alloc" ELSE "down", tiny |-> tinyTable]]
    BY <1>1 DEF TinyTty!OpenStart, TinyTty!At, TinyTty!To, TinyTty!NULL
  <2>2. CASE tinyTable = 0
    BY <1>g, <2>1, <2>2
  <2>3. CASE tinyTable # 0
    <3>1. tinyTable \in Tinys \cup {0} /\ tinyProc' = [tinyProc EXCEPT ![p] = [pc |-> "down", tiny |-> tinyTable]]
      BY <1>0, <2>1, <2>3 DEF TinyTypes
    <3> QED  BY <1>g, <2>1, <2>3, <3>1
  <2> QED  BY <2>2, <2>3
<1>2. ASSUME TinyTty!OpenAlloc(p) PROVE TinyInv'
  <2>1. tinyProc[p].pc = "alloc" /\ driverData' = driverData
    BY <1>2 DEF TinyTty!OpenAlloc, TinyTty!At
  <2>2. CASE TinyTty!To(p, "close", 0) /\ UNCHANGED <<tiny, tinyTable, tinySeen>>
    BY <1>g, <2>1, <2>2 DEF TinyTty!To
  <2>3. ASSUME NEW k \in Tinys, ~tiny[k].made, tiny' = [tiny EXCEPT ![k].made = TRUE],
               tinySeen' = IF tinyTable # 0 THEN tinySeen \cup {"two"} ELSE tinySeen,
               tinyTable' = k, tinyProc' = [tinyProc EXCEPT ![p] = [pc |-> "down", tiny |-> k]]
        PROVE  TinyInv'
    <3>0. tiny[k].made = FALSE
      <4>1. tiny[k].made \in BOOLEAN
        BY <1>0 DEF TinyTypes
      <4> QED  BY <2>3, <4>1, Zenon
    <3>1. TinyTypes'
      BY <1>0, <2>1, <2>3 DEF TinyTypes
    <3>2. /\ tinyProc'[p].pc = "down" /\ tinyProc'[p].tiny = k /\ \A q \in Procs \ {p} : tinyProc'[q] = tinyProc[q]
          /\ \A j \in Tinys : /\ tiny'[j].open_count = tiny[j].open_count
                              /\ tiny'[j].timer = tiny[j].timer /\ tiny'[j].handler = tiny[j].handler
      BY <1>0, <2>3 DEF TinyTypes
    <3>3. tiny'[k].made = TRUE /\ \A j \in Tinys \ {k} : tiny'[j] = tiny[j]
      BY <1>0, <2>3 DEF TinyTypes
    <3>4. TinyMade'
      <4>1. \A q \in Procs : tinyProc'[q].pc \in {"down", "open", "close_down"} => tinyProc'[q].tiny # 0
        BY <1>0, <3>2 DEF TinyMade
      <4>2. ASSUME NEW j \in Tinys, tiny'[j].made = FALSE
            PROVE  /\ tiny'[j].open_count = 0 /\ tiny'[j].timer = "none" /\ tiny'[j].handler = "idle"
                   /\ tinyTable' # j /\ driverData' # j /\ \A q \in Procs : tinyProc'[q].tiny # j
        <5>1. j # k /\ tiny[j].made = FALSE
          BY <3>3, <4>2
        <5> QED  BY <1>0, <2>1, <2>3, <3>2, <5>1 DEF TinyMade
      <4> QED  BY <4>1, <4>2 DEF TinyMade
    <3>5. TinyNoTimer' /\ TinyTty!TtyAlive'
      BY <1>0, <2>3, <3>2 DEF TinyNoTimer, TinyTty!TimerThere, TinyTty!TtyAlive
    <3>6. TinyWhole'
      <4> SUFFICES ASSUME tinySeen' \cap {"two", "mixed"} = {} PROVE TinyTable' /\ TinyCount' /\ TinyRuns' /\ TinyQuiet'
        BY DEF TinyWhole
      <4>1. tinyTable = 0 /\ tinySeen' = tinySeen
        BY <2>3
      <4>2. TinyTable /\ TinyCount /\ TinyRuns /\ TinyQuiet
        BY <1>0, <4>1 DEF TinyWhole
      <4>3. tiny[k].open_count = 0
        BY <1>0, <3>0 DEF TinyMade
      <4>4. \A q \in Procs : ~Holds(tinyProc'[q])
        <5>1. \A q \in Procs : ~Holds(tinyProc[q])
          BY <1>0, <4>1, <4>2 DEF TinyTable, TinyMade, Holds, TinyTypes
        <5> QED  BY <3>2, <5>1 DEF Holds
      <4>5. TinyCount'
        <5>1. Cardinality(Holders(tinyProc')) = 0
          BY <4>4, HoldersNone
        <5> QED  BY <2>3, <3>2, <4>3, <5>1 DEF TinyCount
      <4>6. TinyTable'
        BY <2>3, <3>2, <4>1, <4>2 DEF TinyTable
      <4>7. TinyRuns'
        <5>1. tiny'[tinyTable'].open_count = 0
          BY <2>3, <3>2, <4>3
        <5>2. ~(tiny'[tinyTable'].open_count > 0)
          BY <5>1
        <5> QED  BY <5>2 DEF TinyRuns
      <4>8. TinyQuiet'
        BY <1>0, <3>2, <4>1, <4>2 DEF TinyQuiet
      <4> QED  BY <4>5, <4>6, <4>7, <4>8
    <3> QED  BY <3>1, <3>4, <3>5, <3>6 DEF TinyInv
  <2> QED  BY <1>2, <2>2, <2>3, Zenon DEF TinyTty!OpenAlloc, TinyTty!To, TinyTty!NULL
<1> QED  BY <1>1, <1>2

(* The process that has the semaphore of a structure. *)
LEMMA TinyLocked ==
  ASSUME TinyInv, NEW p \in Procs, TinyTty!OpenLocked(p) \/ TinyTty!CloseLocked(p)
  PROVE  TinyInv'
<1>0. TinyTypes /\ TinyMade /\ TinyNoTimer /\ TinyWhole /\ TinyTty!TtyAlive /\ 0 \notin Tinys
  BY DriversAssumption DEF TinyInv
<1> DEFINE k == tinyProc[p].tiny
<1>p. tinyProc[p].pc \in {"down", "close_down"}
  BY DEF TinyTty!OpenLocked, TinyTty!CloseLocked, TinyTty!At
<1>k. k \in Tinys /\ tiny[k].open_count \in Nat /\ tiny[k].made = TRUE
  <2>1. k \in Tinys
    BY <1>0, <1>p DEF TinyTypes, TinyMade
  <2>2. tiny[k].made \in BOOLEAN /\ tiny[k].made # FALSE /\ tiny[k].open_count \in Nat
    BY <1>0, <2>1 DEF TinyTypes, TinyMade
  <2> QED  BY <2>1, <2>2
\* The structure that changes, and the process that lets it go
<1>g. ASSUME NEW n \in Nat, NEW t \in {"none", "set", "idle", "freed"},
             NEW l \in {"open", "close", "out"}, NEW j \in {0, k}, l \in {"open", "close"} => j = k,
             tiny' = [tiny EXCEPT ![k].open_count = n, ![k].timer = t], tinyTable' = tinyTable,
             tinyProc' = [tinyProc EXCEPT ![p] = [pc |-> l, tiny |-> j]], driverData' \in {driverData, k},
             TinyNoTimer', tinySeen' = tinySeen \cup (tinySeen' \ {"two", "mixed", "stale"})
      PROVE  /\ TinyTypes' /\ TinyMade' /\ TinyTty!TtyAlive'
             /\ tiny'[k].open_count = n /\ tiny'[k].timer = t /\ tiny'[k].handler = tiny[k].handler
             /\ \A i \in Tinys \ {k} : tiny'[i] = tiny[i]
             /\ tinyProc'[p].pc = l /\ tinyProc'[p].tiny = j /\ \A q \in Procs \ {p} : tinyProc'[q] = tinyProc[q]
  <2> HIDE DEF k
  <2>1. TinyTypes'
    <3> DEFINE R == [made : BOOLEAN, open_count : Nat, timer : {"none", "set", "idle", "freed"},
                     handler : {"idle", "push", "resubmit"}]
               new == [tiny[k] EXCEPT !.open_count = n, !.timer = t]
    <3>1. new \in R
      <4>1. tiny[k] \in R
        BY <1>0, <1>k DEF TinyTypes
      <4> QED  BY <4>1
    <3>2. tiny' = [tiny EXCEPT ![k] = new]
      BY <1>g
    <3>3. tiny' \in [Tinys -> R]
      <4>1. tiny \in [Tinys -> R]
        BY <1>0 DEF TinyTypes
      <4> HIDE DEF R, new
      <4> QED  BY <1>k, <3>1, <3>2, <4>1
    <3> QED  BY <1>0, <1>k, <1>g, <3>3 DEF TinyTypes
  <2>2. /\ tiny'[k].open_count = n /\ tiny'[k].timer = t /\ tiny'[k].handler = tiny[k].handler
        /\ tiny'[k].made = tiny[k].made
        /\ \A i \in Tinys \ {k} : tiny'[i] = tiny[i]
    BY <1>0, <1>k, <1>g DEF TinyTypes
  <2>3. tinyProc'[p].pc = l /\ tinyProc'[p].tiny = j /\ \A q \in Procs \ {p} : tinyProc'[q] = tinyProc[q]
    BY <1>0, <1>g DEF TinyTypes
  <2>4. TinyMade'
    <3>1. \A q \in Procs : tinyProc'[q].pc \in {"down", "open", "close_down"} => tinyProc'[q].tiny # 0
      BY <1>0, <1>g, <1>k, <2>3 DEF TinyMade
    <3>2. ASSUME NEW i \in Tinys, tiny'[i].made = FALSE
          PROVE  /\ tiny'[i].open_count = 0 /\ tiny'[i].timer = "none" /\ tiny'[i].handler = "idle"
                 /\ tinyTable' # i /\ driverData' # i /\ \A q \in Procs : tinyProc'[q].tiny # i
      <4>1. i # k
        BY <1>k, <2>2, <3>2
      <4>2. /\ tiny[i].open_count = 0 /\ tiny[i].timer = "none" /\ tiny[i].handler = "idle"
            /\ tinyTable # i /\ driverData # i /\ \A q \in Procs : tinyProc[q].tiny # i
            /\ tiny'[i] = tiny[i]
        BY <1>0, <2>2, <3>2, <4>1 DEF TinyMade
      <4>3. tinyTable' # i /\ driverData' # i
        BY <1>g, <4>1, <4>2
      <4>4. ASSUME NEW q \in Procs PROVE tinyProc'[q].tiny # i
        BY <1>0, <1>g, <2>3, <4>1, <4>2
      <4> QED  BY <4>2, <4>3, <4>4
    <3> QED  BY <3>1, <3>2 DEF TinyMade
  <2>5. TinyTty!TtyAlive'
    BY <1>0, <1>g DEF TinyTty!TtyAlive
  <2> QED  BY <2>1, <2>2, <2>3, <2>4, <2>5
<1>1. ASSUME TinyTty!OpenLocked(p) PROVE TinyInv'
  <2> DEFINE n == tiny[k].open_count + 1
  <2>n. n \in Nat /\ n > 0
    BY <1>k
  <2>d. tinyProc[p].pc = "down" /\ ~Holds(tinyProc[p]) /\ driverData' = k /\ tinyTable' = tinyTable
    BY <1>1 DEF TinyTty!OpenLocked, TinyTty!At, Holds
  <2>1. PICK t \in {"none", "set", "idle", "freed"}, l \in {"open", "close"} :
          /\ tiny' = [tiny EXCEPT ![k].open_count = n, ![k].timer = t]
          /\ tinyProc' = [tinyProc EXCEPT ![p] = [pc |-> l, tiny |-> k]]
          /\ tinySeen' = IF l = "open" THEN tinySeen ELSE tinySeen \cup {"no timer"}
          /\ l = "open" /\ tiny[k].open_count = 0 => t = "set"
          /\ l = "open" /\ tiny[k].open_count # 0 => t = tiny[k].timer
    <3>1. CASE /\ tiny' = [tiny EXCEPT ![k].open_count = @ + 1, ![k].timer = IF tiny[k].open_count = 0 THEN "set" ELSE @]
               /\ TinyTty!To(p, "open", k) /\ tinySeen' = tinySeen
      <4>1. CASE tiny[k].open_count = 0
        <5>1. tiny' = [tiny EXCEPT ![k].open_count = n, ![k].timer = "set"]
          BY <3>1, <4>1
        <5> HIDE DEF k, n
        <5> QED  BY <3>1, <4>1, <5>1 DEF TinyTty!To
      <4>2. CASE tiny[k].open_count # 0
        <5>1. tiny' = [tiny EXCEPT ![k].open_count = n, ![k].timer = tiny[k].timer]
          BY <3>1, <4>2
        <5>2. tiny[k].timer \in {"none", "set", "idle", "freed"}
          BY <1>0, <1>k DEF TinyTypes
        <5> HIDE DEF k, n
        <5> QED  BY <3>1, <4>2, <5>1, <5>2 DEF TinyTty!To
      <4> QED  BY <4>1, <4>2
    <3>2. CASE /\ tiny[k].timer = "none" /\ tiny' = [tiny EXCEPT ![k].open_count = @ + 1]
               /\ TinyTty!To(p, "close", k) /\ tinySeen' = tinySeen \cup {"no timer"}
      <4>1. tiny' = [tiny EXCEPT ![k].open_count = n, ![k].timer = "none"]
        BY <1>0, <1>k, <3>2, ZenonT(40) DEF TinyTypes
      <4> HIDE DEF k, n
      <4> QED  BY <3>2, <4>1 DEF TinyTty!To
    <3> QED  BY <1>1, <3>1, <3>2, Zenon DEF TinyTty!OpenLocked
  <2> HIDE DEF n
  <2>2. TinyNoTimer'
    <3>1. ASSUME NEW i \in Tinys, tiny'[i].open_count > 0, tiny'[i].timer = "none" PROVE "no timer" \in tinySeen'
      <4>1. CASE i # k
        <5>1. tiny'[i] = tiny[i]
          BY <1>0, <1>k, <2>1, <4>1 DEF TinyTypes
        <5> QED  BY <1>0, <2>1, <3>1, <5>1 DEF TinyNoTimer
      <4>2. CASE i = k /\ l = "open"
        <5> HIDE DEF k
        <5>1. tiny'[k].timer = t
          BY <1>0, <1>k, <2>1 DEF TinyTypes
        <5>2. tiny[k].open_count > 0 /\ tiny[k].timer = "none"
          BY <1>k, <2>1, <3>1, <4>2, <5>1
        <5> QED  BY <1>0, <1>k, <2>1, <5>2 DEF TinyNoTimer
      <4>3. CASE l = "close"
        BY <2>1, <4>3
      <4> QED  BY <4>1, <4>2, <4>3
    <3> QED  BY <1>0, <2>1, <3>1 DEF TinyNoTimer, TinyTty!TimerThere
  <2>3. tinySeen' = tinySeen \cup (tinySeen' \ {"two", "mixed", "stale"})
    BY <2>1
  <2>4. /\ TinyTypes' /\ TinyMade' /\ TinyTty!TtyAlive'
        /\ tiny'[k].open_count = n /\ tiny'[k].timer = t /\ tiny'[k].handler = tiny[k].handler
        /\ \A i \in Tinys \ {k} : tiny'[i] = tiny[i]
        /\ tinyProc'[p].pc = l /\ tinyProc'[p].tiny = k /\ \A q \in Procs \ {p} : tinyProc'[q] = tinyProc[q]
    <3> HIDE DEF k
    <3>1. driverData' \in {driverData, k}
      BY <2>d
    <3> QED  BY <1>g, <2>n, <2>d, <2>1, <2>2, <2>3, <3>1
  <2>5. TinyWhole'
    <3> SUFFICES ASSUME tinySeen' \cap {"two", "mixed"} = {} PROVE TinyTable' /\ TinyCount' /\ TinyRuns' /\ TinyQuiet'
      BY DEF TinyWhole
    <3>1. TinyTable /\ TinyCount /\ TinyRuns /\ TinyQuiet
      BY <1>0, <2>3 DEF TinyWhole
    <3>2. k = tinyTable /\ tinyTable # 0
      BY <1>0, <1>k, <2>d, <3>1 DEF TinyTable
    <3>3. Cardinality(Holders(tinyProc')) = Cardinality(Holders(tinyProc)) + 1
      <4>1. Holds(tinyProc'[p])
        BY <1>0, <1>k, <2>1, <2>4 DEF Holds
      <4> QED  BY <2>d, <2>4, <4>1, HoldersOne
    <3> HIDE DEF k
    <3>4. TinyCount'
      BY <2>d, <2>4, <3>1, <3>2, <3>3 DEF TinyCount, n
    <3>5. TinyTable'
      BY <2>d, <2>4, <3>1, <3>2 DEF TinyTable
    <3>6. TinyRuns'
      <4>1. "no timer" \notin tinySeen' => t = "set" \/ tiny[k].handler # "idle"
        <5>1. CASE tiny[k].open_count = 0
          BY <2>1, <5>1
        <5>2. CASE tiny[k].open_count # 0
          <6>1. tiny[k].open_count > 0
            BY <1>k, <5>2
          <6> QED  BY <2>1, <3>1, <3>2, <5>2, <6>1 DEF TinyRuns
        <5> QED  BY <5>1, <5>2
      <4> QED  BY <2>d, <2>4, <3>2, <4>1 DEF TinyRuns
    <3>7. TinyQuiet'
      <4>1. tiny'[k].open_count # 0 /\ tinyTable' = k
        BY <2>d, <2>n, <2>4, <3>2
      <4>2. "late" \notin tinySeen' => "late" \notin tinySeen
        BY <2>1
      <4> QED  BY <2>4, <3>1, <3>2, <4>1, <4>2 DEF TinyQuiet
    <3> QED  BY <3>4, <3>5, <3>6, <3>7
  <2> QED  BY <2>2, <2>4, <2>5 DEF TinyInv
<1>2. ASSUME TinyTty!CloseLocked(p) PROVE TinyInv'
  <2> DEFINE last == tiny[k].open_count = 1
             n == IF tiny[k].open_count > 0 THEN tiny[k].open_count - 1 ELSE 0
             t == IF last /\ tiny[k].timer = "set" THEN "idle" ELSE tiny[k].timer
  <2>n. n \in Nat /\ t \in {"none", "set", "idle", "freed"}
    BY <1>0, <1>k DEF TinyTypes
  <2>d. tinyProc[p].pc = "close_down" /\ Holds(tinyProc[p]) /\ driverData' = driverData /\ tinyTable' = tinyTable
    BY <1>2 DEF TinyTty!CloseLocked, TinyTty!At, Holds
  <2>1. /\ tiny' = [tiny EXCEPT ![k].open_count = n, ![k].timer = t]
        /\ tinyProc' = [tinyProc EXCEPT ![p] = [pc |-> "out", tiny |-> 0]]
    BY <1>2 DEF TinyTty!CloseLocked, TinyTty!To, TinyTty!NULL
  <2>s. /\ tinySeen \subseteq tinySeen' /\ tinySeen' \subseteq tinySeen \cup {"crash", "late"}
        /\ "crash" \in tinySeen' => "crash" \in tinySeen \/ (last /\ tiny[k].timer = "none")
        /\ last /\ tiny[k].handler # "idle" => "late" \in tinySeen'
    BY <1>2 DEF TinyTty!CloseLocked
  <2>2. TinyNoTimer'
    <3>1. last /\ tiny[k].timer = "none" => "no timer" \in tinySeen
      <4>1. last => tiny[k].open_count > 0
        BY <1>k
      <4> HIDE DEF k, last
      <4> QED  BY <1>0, <1>k, <4>1 DEF TinyNoTimer
    <3>2. ASSUME NEW i \in Tinys, tiny'[i].open_count > 0, tiny'[i].timer = "none" PROVE "no timer" \in tinySeen
      <4>1. CASE i # k
        <5>1. tiny'[i] = tiny[i]
          BY <1>0, <1>k, <2>1, <4>1 DEF TinyTypes
        <5> QED  BY <1>0, <3>2, <5>1 DEF TinyNoTimer
      <4>2. CASE i = k
        <5>1. tiny'[k].timer = t /\ tiny'[k].open_count = n
          <6> HIDE DEF k, n, t
          <6> QED  BY <1>0, <1>k, <2>1 DEF TinyTypes
        <5>2. tiny[k].open_count > 0 /\ tiny[k].timer = "none"
          <6>1. t = "none" /\ n > 0
            BY <3>2, <4>2, <5>1
          <6> QED  BY <1>k, <6>1
        <5> QED  BY <1>0, <1>k, <5>2 DEF TinyNoTimer
      <4> QED  BY <4>1, <4>2
    <3> HIDE DEF k, last
    <3> QED  BY <1>0, <2>s, <3>1, <3>2 DEF TinyNoTimer, TinyTty!TimerThere
  <2> HIDE DEF n, t
  <2>3. tinySeen' = tinySeen \cup (tinySeen' \ {"two", "mixed", "stale"})
    <3> HIDE DEF k, last
    <3> QED  BY <2>s
  <2>4. /\ TinyTypes' /\ TinyMade' /\ TinyTty!TtyAlive'
        /\ tiny'[k].open_count = n /\ tiny'[k].timer = t /\ tiny'[k].handler = tiny[k].handler
        /\ \A i \in Tinys \ {k} : tiny'[i] = tiny[i]
        /\ tinyProc'[p].pc = "out" /\ tinyProc'[p].tiny = 0 /\ \A q \in Procs \ {p} : tinyProc'[q] = tinyProc[q]
    <3> HIDE DEF k, last
    <3> QED  BY <1>g, <2>n, <2>d, <2>1, <2>2, <2>3
  <2>5. TinyWhole'
    <3> SUFFICES ASSUME tinySeen' \cap {"two", "mixed"} = {} PROVE TinyTable' /\ TinyCount' /\ TinyRuns' /\ TinyQuiet'
      BY DEF TinyWhole
    <3>1. TinyTable /\ TinyCount /\ TinyRuns /\ TinyQuiet
      BY <1>0, <2>3 DEF TinyWhole
    <3>2. k = tinyTable /\ tinyTable # 0
      BY <1>0, <1>k, <2>d, <3>1 DEF TinyTable
    <3>3. Cardinality(Holders(tinyProc')) = Cardinality(Holders(tinyProc)) - 1 /\ Cardinality(Holders(tinyProc)) > 0
      <4>1. ~Holds(tinyProc'[p])
        BY <2>4 DEF Holds
      <4> QED  BY <2>d, <2>4, <4>1, HoldersOne
    <3>c. tiny[k].open_count > 0
      BY <3>1, <3>2, <3>3 DEF TinyCount
    <3>4. TinyCount'
      <4>1. n = tiny[k].open_count - 1
        BY <3>c DEF n
      <4> HIDE DEF k
      <4> QED  BY <2>d, <2>4, <3>1, <3>2, <3>3, <4>1 DEF TinyCount
    <3>5. TinyTable'
      BY <2>d, <2>4, <3>1 DEF TinyTable
    <3>6. TinyRuns'
      <4>1. n > 0 => ~last
        BY <1>k DEF n
      <4>2. n > 0 => t = tiny[k].timer
        BY <4>1 DEF t
      <4>3. "no timer" \notin tinySeen' => "no timer" \notin tinySeen
        BY <2>s
      <4> HIDE DEF k, last
      <4> QED  BY <2>d, <2>4, <3>1, <3>2, <3>c, <4>2, <4>3 DEF TinyRuns
    <3>7. TinyQuiet'
      <4>1. ASSUME "late" \notin tinySeen', n = 0 PROVE t # "set" /\ tiny[k].handler = "idle"
        <5>1. last
          BY <1>k, <3>c, <4>1 DEF n
        <5>2. tiny[k].handler = "idle"
          BY <2>s, <4>1, <5>1
        <5> QED  BY <5>1, <5>2 DEF t
      <4>2. "late" \notin tinySeen' => "late" \notin tinySeen
        BY <2>s
      <4> HIDE DEF k, last
      <4> QED  BY <2>d, <2>4, <3>1, <3>2, <4>1, <4>2 DEF TinyQuiet
    <3> QED  BY <3>4, <3>5, <3>6, <3>7
  <2> QED  BY <2>2, <2>4, <2>5 DEF TinyInv
<1> QED  BY <1>1, <1>2

(* The timer and its handler *)
LEMMA TinyTimer ==
  ASSUME TinyInv, NEW k \in Tinys,
         TinyTty!TimerStart(k) \/ TinyTty!TimerPush(k) \/ TinyTty!TimerResubmit(k)
  PROVE  TinyInv'
<1>0. TinyTypes /\ TinyMade /\ TinyNoTimer /\ TinyWhole /\ TinyTty!TtyAlive /\ 0 \notin Tinys
  BY DriversAssumption DEF TinyInv
<1>1. PICK t \in {"set", "idle", "freed", "none"}, h \in {"idle", "push", "resubmit"} :
        /\ tiny' = [tiny EXCEPT ![k].timer = t, ![k].handler = h]
        /\ tiny[k].timer = "set" \/ tiny[k].handler # "idle"
        /\ t = "set" \/ h # "idle"
        /\ t = "none" => tiny[k].timer = "none"
        /\ UNCHANGED <<tinyTable, driverData, tinyProc>>
  <2>1. CASE TinyTty!TimerStart(k)
    BY <2>1 DEF TinyTty!TimerStart
  <2>2. CASE TinyTty!TimerPush(k)
    <3>1. tiny[k].timer \in {"none", "set", "idle", "freed"} /\ tiny[k].handler = "push"
          /\ tiny' = [tiny EXCEPT ![k].handler = "resubmit"]
      BY <1>0, <2>2 DEF TinyTty!TimerPush, TinyTypes
    <3>2. tiny' = [tiny EXCEPT ![k].timer = tiny[k].timer, ![k].handler = "resubmit"]
      BY <1>0, <3>1 DEF TinyTypes
    <3> QED  BY <2>2, <3>1, <3>2 DEF TinyTty!TimerPush
  <2>3. CASE TinyTty!TimerResubmit(k)
    <3>1. tiny' = [tiny EXCEPT ![k].timer = "set", ![k].handler = "idle"]
      BY <1>0, <2>3 DEF TinyTty!TimerResubmit, TinyTypes
    <3> QED  BY <2>3, <3>1 DEF TinyTty!TimerResubmit
  <2> QED  BY <2>1, <2>2, <2>3
<1>2. /\ tinySeen \subseteq tinySeen' /\ tinySeen' \subseteq tinySeen \cup {"stale"}
      /\ "stale" \in tinySeen' /\ "stale" \notin tinySeen => ~TinyTty!InUse /\ tiny[k].handler # "idle"
  BY DEF TinyTty!TimerStart, TinyTty!TimerPush, TinyTty!TimerResubmit
<1>3. TinyTty!TtyAlive'
  <2>1. "stale" \in tinySeen' => tinySeen \cap {"two", "mixed", "late"} # {}
    BY <1>0, <1>2, TinyClosed DEF TinyTty!TtyAlive
  <2> QED  BY <1>2, <2>1 DEF TinyTty!TtyAlive
<1>4. TinyTypes'
  <2> DEFINE R == [made : BOOLEAN, open_count : Nat, timer : {"none", "set", "idle", "freed"},
                   handler : {"idle", "push", "resubmit"}]
             new == [tiny[k] EXCEPT !.timer = t, !.handler = h]
  <2>1. new \in R
    <3>1. tiny[k] \in R
      BY <1>0 DEF TinyTypes
    <3> QED  BY <3>1
  <2>2. tiny' = [tiny EXCEPT ![k] = new]
    BY <1>1
  <2>3. tiny' \in [Tinys -> R]
    <3>1. tiny \in [Tinys -> R]
      BY <1>0 DEF TinyTypes
    <3> HIDE DEF R, new
    <3> QED  BY <2>1, <2>2, <3>1
  <2> QED  BY <1>0, <1>1, <2>3 DEF TinyTypes
<1>5. /\ tiny'[k].timer = t /\ tiny'[k].handler = h
      /\ tiny'[k].open_count = tiny[k].open_count /\ tiny'[k].made = tiny[k].made
      /\ \A i \in Tinys \ {k} : tiny'[i] = tiny[i]
  BY <1>0, <1>1 DEF TinyTypes
<1>6. TinyMade'
  <2>1. tiny[k].made # FALSE
    BY <1>0, <1>1 DEF TinyMade
  <2>2. ASSUME NEW i \in Tinys, tiny'[i].made = FALSE PROVE i # k /\ tiny'[i] = tiny[i]
    BY <1>5, <2>1, <2>2
  <2>3. \A i \in Tinys : tiny'[i].made = FALSE => i # k /\ tiny'[i] = tiny[i] /\ tiny[i].made = FALSE
    BY <2>2
  <2>4. UNCHANGED <<tinyTable, driverData, tinyProc>>
    BY <1>1
  <2>5. ASSUME NEW i \in Tinys, tiny'[i].made = FALSE
        PROVE  /\ tiny'[i].open_count = 0 /\ tiny'[i].timer = "none" /\ tiny'[i].handler = "idle"
               /\ tinyTable' # i /\ driverData' # i /\ \A p \in Procs : tinyProc'[p].tiny # i
    <3>1. tiny'[i] = tiny[i] /\ tiny[i].made = FALSE
      BY <2>3, <2>5
    <3> QED  BY <1>0, <2>4, <3>1 DEF TinyMade
  <2>6. \A p \in Procs : tinyProc'[p].pc \in {"down", "open", "close_down"} => tinyProc'[p].tiny # 0
    BY <1>0, <2>4 DEF TinyMade
  <2> QED  BY <2>5, <2>6 DEF TinyMade
<1>7. TinyNoTimer'
  <2>1. \A i \in Tinys : tiny'[i].open_count = tiny[i].open_count /\ (tiny'[i].timer = "none" => tiny[i].timer = "none")
    BY <1>1, <1>5
  <2>2. "no timer" \in tinySeen' <=> "no timer" \in tinySeen
    BY <1>2
  <2>3. "crash" \in tinySeen' <=> "crash" \in tinySeen
    BY <1>2
  <2> QED  BY <1>0, <2>1, <2>2, <2>3 DEF TinyNoTimer, TinyTty!TimerThere
<1>8. TinyWhole'
  <2> SUFFICES ASSUME tinySeen' \cap {"two", "mixed"} = {} PROVE TinyTable' /\ TinyCount' /\ TinyRuns' /\ TinyQuiet'
    BY DEF TinyWhole
  <2>1. TinyTable /\ TinyCount /\ TinyRuns /\ TinyQuiet
    BY <1>0, <1>2 DEF TinyWhole
  <2>2. TinyTable'
    BY <1>1, <2>1 DEF TinyTable
  <2>3. \A i \in Tinys : tiny'[i].open_count = tiny[i].open_count
    BY <1>5
  <2>4. TinyCount'
    <3>1. tinyTable \in Tinys \cup {0}
      BY <1>0 DEF TinyTypes
    <3> QED  BY <1>1, <2>1, <2>3, <3>1 DEF TinyCount
  <2>5. TinyRuns'
    <3>1. tinyTable \in Tinys \cup {0} /\ ("no timer" \in tinySeen' <=> "no timer" \in tinySeen)
      BY <1>0, <1>2 DEF TinyTypes
    <3>2. CASE tinyTable = k
      BY <1>1, <1>5, <3>2 DEF TinyRuns
    <3>3. CASE tinyTable # k
      BY <1>1, <1>5, <2>1, <3>1, <3>3 DEF TinyRuns
    <3> QED  BY <3>2, <3>3
  <2>6. TinyQuiet'
    <3>1. "late" \in tinySeen' <=> "late" \in tinySeen
      BY <1>2
    <3>2. "late" \notin tinySeen => k = tinyTable /\ tiny[k].open_count # 0
      BY <1>1, <2>1 DEF TinyQuiet
    <3>3. tinyTable' = tinyTable
      BY <1>1
    <3>4. ASSUME "late" \notin tinySeen', NEW i \in Tinys, i # tinyTable' \/ tiny'[i].open_count = 0
          PROVE  tiny'[i].timer # "set" /\ tiny'[i].handler = "idle"
      <4>1. "late" \notin tinySeen
        BY <3>1, <3>4
      <4>2. i # k /\ tiny'[i] = tiny[i]
        BY <1>5, <3>2, <3>3, <3>4, <4>1
      <4>3. i # tinyTable \/ tiny[i].open_count = 0
        BY <3>3, <3>4, <4>2
      <4> QED  BY <2>1, <4>1, <4>2, <4>3 DEF TinyQuiet
    <3> QED  BY <3>4 DEF TinyQuiet
  <2> QED  BY <2>2, <2>4, <2>5, <2>6
<1> QED  BY <1>3, <1>4, <1>6, <1>7, <1>8 DEF TinyInv

(* A close before its semaphore *)
LEMMA TinyCloseStart ==
  ASSUME TinyInv, NEW p \in Procs, TinyTty!CloseStart(p)
  PROVE  TinyInv'
<1>0. TinyTypes /\ TinyMade /\ TinyNoTimer /\ TinyWhole /\ TinyTty!TtyAlive /\ 0 \notin Tinys
  BY DriversAssumption DEF TinyInv
<1>1. /\ tinyProc[p].pc \in {"open", "close"}
      /\ tinyProc' = [tinyProc EXCEPT ![p] = [pc |-> IF driverData = 0 THEN "out" ELSE "close_down", tiny |-> driverData]]
      /\ tinySeen' = IF driverData = tinyProc[p].tiny THEN tinySeen ELSE tinySeen \cup {"mixed"}
      /\ UNCHANGED <<tiny, tinyTable, driverData>>
  BY DEF TinyTty!CloseStart, TinyTty!At, TinyTty!To, TinyTty!NULL
<1>2. TinyTypes'
  BY <1>0, <1>1 DEF TinyTypes
<1>3. /\ tinyProc'[p].pc = (IF driverData = 0 THEN "out" ELSE "close_down") /\ tinyProc'[p].tiny = driverData
      /\ \A q \in Procs \ {p} : tinyProc'[q] = tinyProc[q]
  BY <1>0, <1>1 DEF TinyTypes
<1>4. TinyMade'
  BY <1>0, <1>1, <1>3 DEF TinyMade
<1>5. TinyNoTimer' /\ TinyTty!TtyAlive'
  <2>1. tinySeen \subseteq tinySeen' /\ tinySeen' \subseteq tinySeen \cup {"mixed"}
    BY <1>1
  <2> QED  BY <1>0, <1>1, <2>1 DEF TinyNoTimer, TinyTty!TimerThere, TinyTty!TtyAlive
<1>6. TinyWhole'
  <2> SUFFICES ASSUME tinySeen' \cap {"two", "mixed"} = {} PROVE TinyTable' /\ TinyCount' /\ TinyRuns' /\ TinyQuiet'
    BY DEF TinyWhole
  <2>1. driverData = tinyProc[p].tiny /\ tinySeen' = tinySeen
    BY <1>1
  <2>2. TinyTable /\ TinyCount /\ TinyRuns /\ TinyQuiet
    BY <1>0, <2>1 DEF TinyWhole
  <2>3. Holds(tinyProc[p]) <=> Holds(tinyProc'[p])
    BY <1>0, <1>1, <1>3, <2>1 DEF Holds, TinyMade
  <2>4. Cardinality(Holders(tinyProc')) = Cardinality(Holders(tinyProc))
    BY <1>3, <2>3, HoldersOne
  <2>5. TinyTable'
    BY <1>1, <1>3, <2>1, <2>2 DEF TinyTable
  <2> QED  BY <1>1, <2>1, <2>2, <2>4, <2>5 DEF TinyCount, TinyRuns, TinyQuiet
<1> QED  BY <1>2, <1>4, <1>5, <1>6 DEF TinyInv

(* The module goes. *)
LEMMA TinyExit ==
  ASSUME TinyInv, TinyTty!Exit
  PROVE  TinyInv'
<1>0. TinyTypes /\ TinyMade /\ TinyNoTimer /\ TinyWhole /\ TinyTty!TtyAlive /\ 0 \notin Tinys
  BY DriversAssumption DEF TinyInv
<1> DEFINE k == tinyTable
<1>1. /\ ~TinyTty!InUse /\ k \in Tinys /\ tiny' = [tiny EXCEPT ![k].timer = "freed", ![k].open_count = 0]
      /\ tinyTable' = 0 /\ UNCHANGED <<driverData, tinyProc, tinySeen>>
  BY <1>0 DEF TinyTty!Exit, TinyTty!NULL, TinyTypes
<1>2. tiny[k].made # FALSE
  BY <1>0, <1>1 DEF TinyMade
<1> HIDE DEF k
<1>3. /\ tiny'[k].timer = "freed" /\ tiny'[k].handler = tiny[k].handler
      /\ tiny'[k].open_count = 0 /\ tiny'[k].made = tiny[k].made
      /\ \A i \in Tinys \ {k} : tiny'[i] = tiny[i]
  BY <1>0, <1>1 DEF TinyTypes
<1>4. TinyTypes'
  <2> DEFINE R == [made : BOOLEAN, open_count : Nat, timer : {"none", "set", "idle", "freed"},
                   handler : {"idle", "push", "resubmit"}]
             new == [tiny[k] EXCEPT !.timer = "freed", !.open_count = 0]
  <2>1. new \in R
    <3>1. tiny[k] \in R
      BY <1>0, <1>1 DEF TinyTypes
    <3> QED  BY <3>1
  <2>2. tiny' = [tiny EXCEPT ![k] = new]
    BY <1>1
  <2>3. tiny' \in [Tinys -> R]
    <3>1. tiny \in [Tinys -> R]
      BY <1>0 DEF TinyTypes
    <3> HIDE DEF R, new
    <3> QED  BY <1>1, <2>1, <2>2, <3>1
  <2> QED  BY <1>0, <1>1, <2>3 DEF TinyTypes
<1>5. TinyMade'
  <2>1. ASSUME NEW i \in Tinys, tiny'[i].made = FALSE
        PROVE  /\ tiny'[i].open_count = 0 /\ tiny'[i].timer = "none" /\ tiny'[i].handler = "idle"
               /\ tinyTable' # i /\ driverData' # i /\ \A p \in Procs : tinyProc'[p].tiny # i
    <3>1. i # k
      BY <1>2, <1>3, <2>1
    <3>2. tiny'[i] = tiny[i] /\ tiny[i].made = FALSE
      BY <1>3, <2>1, <3>1
    <3>3. tinyTable' # i /\ driverData' = driverData /\ tinyProc' = tinyProc
      BY <1>0, <1>1
    <3> QED  BY <1>0, <3>2, <3>3 DEF TinyMade
  <2>2. \A p \in Procs : tinyProc'[p].pc \in {"down", "open", "close_down"} => tinyProc'[p].tiny # 0
    BY <1>0, <1>1 DEF TinyMade
  <2> QED  BY <2>1, <2>2 DEF TinyMade
<1>6. TinyNoTimer' /\ TinyTty!TtyAlive'
  BY <1>0, <1>1, <1>3 DEF TinyNoTimer, TinyTty!TimerThere, TinyTty!TtyAlive
<1>7. TinyWhole'
  <2> SUFFICES ASSUME tinySeen' \cap {"two", "mixed"} = {} PROVE TinyTable' /\ TinyCount' /\ TinyRuns' /\ TinyQuiet'
    BY DEF TinyWhole
  <2>1. TinyTable' /\ TinyCount' /\ TinyRuns'
    BY <1>1 DEF TinyTable, TinyCount, TinyRuns, TinyTty!InUse, TinyTty!At
  <2>2. TinyQuiet'
    <3>1. "late" \notin tinySeen => \A i \in Tinys : tiny[i].timer # "set" /\ tiny[i].handler = "idle"
      BY <1>1, TinyClosed
    <3> QED  BY <1>1, <1>3, <3>1 DEF TinyQuiet
  <2> QED  BY <2>1, <2>2
<1> QED  BY <1>4, <1>5, <1>6, <1>7 DEF TinyInv

(* Every step of tiny_tty                                                   *)
LEMMA TinyNext ==
  ASSUME TinyInv, TinyTty!Next
  PROVE  TinyInv'
BY TinyOpen, TinyLocked, TinyCloseStart, TinyTimer, TinyExit DEF TinyTty!Next

(* And those of other drivers                                               *)
LEMMA TinyStutter ==
  ASSUME TinyInv, UNCHANGED TinyTtyVars
  PROVE  TinyInv'
<1>0. TinyTypes /\ TinyMade /\ TinyNoTimer /\ TinyWhole /\ TinyTty!TtyAlive
  BY DEF TinyInv
<1>1. tiny' = tiny /\ tinyTable' = tinyTable /\ driverData' = driverData /\ tinyProc' = tinyProc /\ tinySeen' = tinySeen
  BY DEF TinyTtyVars
<1>2. TinyTypes'
  BY <1>0, <1>1 DEF TinyTypes
<1>3. TinyMade'
  BY <1>0, <1>1 DEF TinyMade
<1>4. TinyNoTimer'
  BY <1>0, <1>1 DEF TinyNoTimer, TinyTty!TimerThere
<1>5. TinyTty!TtyAlive'
  BY <1>0, <1>1 DEF TinyTty!TtyAlive
<1>6. Cardinality(Holders(tinyProc')) = Cardinality(Holders(tinyProc))
  BY <1>1
<1>7. TinyWhole'
  <2> SUFFICES ASSUME tinySeen' \cap {"two", "mixed"} = {} PROVE TinyTable' /\ TinyCount' /\ TinyRuns' /\ TinyQuiet'
    BY DEF TinyWhole
  <2>1. TinyTable /\ TinyCount /\ TinyRuns /\ TinyQuiet
    BY <1>0, <1>1 DEF TinyWhole
  <2>2. TinyTable'
    BY <1>1, <2>1 DEF TinyTable
  <2>3. TinyCount'
    BY <1>1, <1>6, <2>1 DEF TinyCount
  <2>4. TinyRuns'
    BY <1>1, <2>1 DEF TinyRuns
  <2>5. TinyQuiet'
    BY <1>1, <2>1 DEF TinyQuiet
  <2> QED  BY <2>2, <2>3, <2>4, <2>5
<1> QED  BY <1>2, <1>3, <1>4, <1>5, <1>7 DEF TinyInv

(* What the invariant says of the timers                                    *)
LEMMA TinySafe ==
  ASSUME TinyInv
  PROVE  TinyTty!ClosedQuiet /\ TinyTty!TtyAlive /\ TinyTty!CharactersCome /\ TinyTty!TimerThere
<1>0. TinyTypes /\ TinyMade /\ TinyNoTimer /\ TinyWhole /\ TinyTty!TtyAlive /\ 0 \notin Tinys
  BY DriversAssumption DEF TinyInv
<1>1. TinyTty!ClosedQuiet
  BY TinyClosed DEF TinyTty!ClosedQuiet
<1>2. TinyTty!CharactersCome
  <2> SUFFICES ASSUME NEW p \in Procs, tinyProc[p].pc = "open", tinySeen \cap {"two", "mixed", "no timer"} = {}
               PROVE  tiny[tinyProc[p].tiny].timer = "set" \/ tiny[tinyProc[p].tiny].handler # "idle"
    BY DEF TinyTty!CharactersCome, TinyTty!At
  <2>1. TinyTable /\ TinyCount /\ TinyRuns
    BY <1>0 DEF TinyWhole
  <2>2. tinyProc[p].tiny = tinyTable /\ tinyTable # 0
    BY <1>0, <2>1 DEF TinyTable, TinyMade
  <2>3. Holds(tinyProc[p])
    BY DEF Holds
  <2>4. tiny[tinyTable].open_count > 0
    BY <2>1, <2>2, <2>3, HoldersSome DEF TinyCount
  <2> QED  BY <2>1, <2>2, <2>4 DEF TinyRuns
<1> QED  BY <1>0, <1>1, <1>2 DEF TinyNoTimer

----------------------------------------------------------------------------
(* usocat                                                                  *)

UsocatTypes ==
  /\ usocat \in [pc : {"args", "signal", "malloc", "tcgetattr", "tcsetattr", "socket", "loop",
                       "print", "close", "ended", "failed"},
                 dir : {"none", "send", "receive", "usage"}, raw : BOOLEAN,
                 oldparams : {"NULL", "garbage", "canonical"}, buf : Seq(Nat)]
  /\ usocatLine \in [total : Nat, input : Seq(Nat), output : Seq(Nat),
                     term : {"canonical", "raw", "garbage"}]

(* The bytes are counted: s holds those from the n-th on.                  *)
From(s, n) == \A i \in 1 .. Len(s) : s[i] = n + i

(* Written, in the buffer and to come: nothing is between them.            *)
InLine ==
  LET written == Len(usocatLine.output)
      taken == written + Len(usocat.buf)
  IN  /\ From(usocat.buf, written) /\ From(usocatLine.input, taken)
      /\ taken + Len(usocatLine.input) = usocatLine.total

UsocatBytes ==
  /\ From(usocatLine.output, 0)
  /\ usocat.pc \notin {"close", "ended", "failed"} => InLine
  /\ usocat.pc = "args" => usocatLine.output = <<>>
  /\ usocat.pc \notin {"print", "close", "ended", "failed"} => usocat.buf = <<>>
  /\ usocat.pc = "close" /\ usocatSeen = {} => Len(usocatLine.output) = usocatLine.total
  /\ usocat.pc # "ended" => "finished" \notin usocatSeen
  /\ usocatSeen = {"finished"} => Len(usocatLine.output) = usocatLine.total

UsocatTerminal ==
  /\ usocat.oldparams = "garbage" => usocat.pc \in {"tcgetattr", "failed", "ended"}
  /\ usocat.pc = "tcgetattr" => usocat.oldparams = "garbage"
  /\ usocat.pc = "tcsetattr" => usocat.oldparams = "canonical"
  /\ usocat.oldparams # "canonical" => usocatLine.term = "canonical" \/ "early" \in usocatSeen
  /\ usocat.pc \in {"args", "signal", "malloc", "tcgetattr", "tcsetattr"} => usocatLine.term = "canonical"
  /\ usocatLine.term = "garbage" => usocat.pc = "ended"
  /\ "early" \in usocatSeen => usocat.pc = "ended"
  /\ Usocat!TerminalRestored

UsocatInv == UsocatTypes /\ UsocatBytes /\ UsocatTerminal

(* usocat as it starts                                                      *)
LEMMA UsocatInit ==
  ASSUME Usocat!Init
  PROVE  UsocatInv
BY DEF Usocat!Init, UsocatInv, UsocatTypes, UsocatBytes, UsocatTerminal, InLine, From, Usocat!TerminalRestored

(* A run of bytes cut in two: each part goes on where the one before ended. *)
LEMMA Cut ==
  ASSUME NEW s \in Seq(Nat), NEW k \in 0 .. Len(s), NEW n \in Nat, From(s, n)
  PROVE  /\ SubSeq(s, 1, k) \in Seq(Nat) /\ Len(SubSeq(s, 1, k)) = k /\ From(SubSeq(s, 1, k), n)
         /\ SubSeq(s, k + 1, Len(s)) \in Seq(Nat) /\ Len(SubSeq(s, k + 1, Len(s))) = Len(s) - k
         /\ From(SubSeq(s, k + 1, Len(s)), n + k)
<1>1. Len(s) \in Nat /\ k \in Nat
  BY LenProperties
<1>2. /\ SubSeq(s, 1, k) \in Seq(Nat) /\ Len(SubSeq(s, 1, k)) = k
      /\ \A i \in 1 .. k : SubSeq(s, 1, k)[i] = s[i]
  BY <1>1, SubSeqProperties
<1>3. /\ SubSeq(s, k + 1, Len(s)) \in Seq(Nat) /\ Len(SubSeq(s, k + 1, Len(s))) = Len(s) - k
      /\ \A i \in 1 .. Len(s) - k : SubSeq(s, k + 1, Len(s))[i] = s[k + i]
  BY <1>1, SubSeqProperties
<1>4. From(SubSeq(s, 1, k), n)
  BY <1>1, <1>2 DEF From
<1>5. From(SubSeq(s, k + 1, Len(s)), n + k)
  BY <1>1, <1>3 DEF From
<1> QED  BY <1>2, <1>3, <1>4, <1>5

(* Two runs of bytes that follow one another                                *)
LEMMA Joined ==
  ASSUME NEW s \in Seq(Nat), NEW t \in Seq(Nat), From(s, 0), From(t, Len(s))
  PROVE  s \o t \in Seq(Nat) /\ Len(s \o t) = Len(s) + Len(t) /\ From(s \o t, 0)
<1>1. Len(s) \in Nat /\ Len(t) \in Nat
  BY LenProperties
<1>2. /\ s \o t \in Seq(Nat) /\ Len(s \o t) = Len(s) + Len(t)
      /\ \A i \in 1 .. Len(s) + Len(t) : (s \o t)[i] = IF i <= Len(s) THEN s[i] ELSE t[i - Len(s)]
  BY <1>1, ConcatProperties
<1>3. From(s \o t, 0)
  BY <1>1, <1>2 DEF From
<1> QED  BY <1>2, <1>3

(* Before its calls of read usocat touches no byte, only the terminal.      *)
LEMMA UsocatSetup ==
  ASSUME UsocatInv, \/ Usocat!ProcessArgs \/ Usocat!Main \/ Usocat!Malloc \/ Usocat!TcGetAttr
                    \/ Usocat!TcSetAttr \/ Usocat!Connect
  PROVE  UsocatInv'
<1> USE DEF Usocat!At, Usocat!To
<1>0. UsocatTypes /\ UsocatBytes /\ UsocatTerminal
  BY DEF UsocatInv
<1>1. ASSUME Usocat!ProcessArgs PROVE UsocatInv'
  <2>1. PICK option \in {"none", "-b", "-c"}, src \in Usocat!Names, dest \in Usocat!Names, tty \in BOOLEAN, n \in Inputs :
          LET dir == Usocat!Direction(option, src, dest)
          IN  /\ usocat.pc = "args"
              /\ usocat' = [usocat EXCEPT !.dir = dir, !.raw = dir = "send" /\ option = "none" /\ tty,
                                          !.pc = IF dir = "usage" THEN "failed" ELSE "signal"]
              /\ usocatLine' = [usocatLine EXCEPT !.total = IF dir = "usage" THEN 0 ELSE n,
                                  !.input = IF dir = "usage" THEN <<>> ELSE [i \in 1 .. n |-> i]]
              /\ UNCHANGED usocatSeen
    BY <1>1, Zenon DEF Usocat!ProcessArgs
  <2> DEFINE dir == Usocat!Direction(option, src, dest)
             raw == dir = "send" /\ option = "none" /\ tty
             total == IF dir = "usage" THEN 0 ELSE n
             input == IF dir = "usage" THEN <<>> ELSE [i \in 1 .. n |-> i]
             pc == IF dir = "usage" THEN "failed" ELSE "signal"
  <2>d. dir \in {"none", "send", "receive", "usage"}
    BY DEF Usocat!Direction
  <2>b. raw \in BOOLEAN /\ pc \in {"failed", "signal"}
    OBVIOUS
  <2>2. total \in Nat /\ input \in Seq(Nat) /\ Len(input) = total /\ From(input, 0)
    <3>1. n \in Nat
      BY DriversAssumption
    <3>2. CASE dir = "usage"
      BY <3>2 DEF From
    <3>3. CASE dir # "usage"
      <4>1. [i \in 1 .. n |-> i] \in Seq(Nat) /\ Len([i \in 1 .. n |-> i]) = n
        BY <3>1
      <4> QED  BY <3>1, <3>3, <4>1 DEF From
    <3> QED  BY <3>2, <3>3
  <2>t. /\ usocat.pc = "args" /\ usocatSeen' = usocatSeen
        /\ usocat' = [usocat EXCEPT !.dir = dir, !.raw = raw, !.pc = pc]
        /\ usocatLine' = [usocatLine EXCEPT !.total = total, !.input = input]
    BY <2>1
  <2> HIDE DEF dir, raw, total, input, pc
  <2>3. UsocatTypes'
    BY <1>0, <2>2, <2>d, <2>b, <2>t DEF UsocatTypes
  <2>4. /\ usocatLine'.output = <<>> /\ usocatLine'.input = input /\ usocatLine'.total = total
        /\ usocat'.buf = <<>> /\ usocatLine'.term = usocatLine.term
        /\ usocat'.oldparams = usocat.oldparams /\ usocat'.pc = pc
    BY <1>0, <2>t DEF UsocatTypes, UsocatBytes
  <2>5. InLine'
    BY <2>2, <2>4 DEF InLine, From
  <2>6. UsocatBytes'
    BY <1>0, <2>b, <2>t, <2>4, <2>5 DEF UsocatBytes, From
  <2>7. UsocatTerminal'
    BY <1>0, <2>b, <2>t, <2>4 DEF UsocatTerminal, Usocat!TerminalRestored
  <2> QED  BY <2>3, <2>6, <2>7 DEF UsocatInv
\* The other steps leave the bytes, and set the place, the terminal and what is kept of it.
<1>s. ASSUME NEW l \in {"malloc", "tcgetattr", "tcsetattr", "socket", "loop", "failed"},
             NEW old \in {"NULL", "garbage", "canonical"}, NEW t \in {"canonical", "raw"},
             usocat' = [usocat EXCEPT !.pc = l, !.oldparams = old],
             usocatLine' = [usocatLine EXCEPT !.term = t],
             usocatSeen' = usocatSeen \/ usocatSeen' = usocatSeen \cup {"error"},
             usocat.pc \in {"signal", "malloc", "tcgetattr", "tcsetattr", "socket"},
             l = "loop" => usocat.pc = "socket",
             UsocatTerminal'
      PROVE  UsocatInv'
  <2>1. UsocatTypes'
    BY <1>0, <1>s DEF UsocatTypes
  <2>2. /\ usocatLine'.output = usocatLine.output /\ usocatLine'.input = usocatLine.input
        /\ usocatLine'.total = usocatLine.total /\ usocat'.buf = usocat.buf /\ usocat'.pc = l
    BY <1>0, <1>s DEF UsocatTypes
  <2>3. InLine'
    BY <1>0, <1>s, <2>2 DEF UsocatBytes, InLine
  <2>4. UsocatBytes'
    BY <1>0, <1>s, <2>2, <2>3 DEF UsocatBytes
  <2> QED  BY <1>s, <2>1, <2>4 DEF UsocatInv
<1>e. usocat.oldparams \in {"NULL", "garbage", "canonical"}
  BY <1>0 DEF UsocatTypes
<1>2. ASSUME Usocat!Main PROVE UsocatInv'
  <2>1. PICK l \in {"malloc", "socket", "failed"} : Usocat!To(l) /\ usocat.pc = "signal" /\ UNCHANGED <<usocatLine, usocatSeen>>
    BY <1>2 DEF Usocat!Main
  <2>2. usocatLine.term = "canonical" /\ usocat'.pc = l /\ usocat'.oldparams = usocat.oldparams
    BY <1>0, <2>1 DEF UsocatTypes, UsocatTerminal
  <2>3. UsocatTerminal'
    BY <1>0, <2>1, <2>2 DEF UsocatTerminal, Usocat!TerminalRestored
  <2>4. usocat' = [usocat EXCEPT !.pc = l, !.oldparams = usocat.oldparams]
    BY <1>0, <2>1 DEF UsocatTypes
  <2>5. usocatLine' = [usocatLine EXCEPT !.term = usocatLine.term]
    BY <1>0, <2>1 DEF UsocatTypes
  <2> QED  BY <1>e, <1>s, <2>1, <2>2, <2>3, <2>4, <2>5
<1>3. ASSUME Usocat!Malloc PROVE UsocatInv'
  <2>1. PICK l \in {"tcgetattr", "failed"}, old \in {"NULL", "garbage", "canonical"} :
          /\ usocat' = [usocat EXCEPT !.pc = l, !.oldparams = old]
          /\ usocat.pc = "malloc" /\ UNCHANGED <<usocatLine, usocatSeen>>
          /\ old = IF l = "failed" THEN usocat.oldparams ELSE "garbage"
    BY <1>3, <1>e DEF Usocat!Malloc
  <2>2. usocatLine.term = "canonical" /\ usocat'.pc = l /\ usocat'.oldparams = old
    BY <1>0, <2>1 DEF UsocatTypes, UsocatTerminal
  <2>3. UsocatTerminal'
    BY <1>0, <2>1, <2>2 DEF UsocatTerminal, Usocat!TerminalRestored
  <2>4. usocatLine' = [usocatLine EXCEPT !.term = usocatLine.term]
    BY <1>0, <2>1 DEF UsocatTypes
  <2> QED  BY <1>s, <2>1, <2>2, <2>3, <2>4
<1>4. ASSUME Usocat!TcGetAttr PROVE UsocatInv'
  <2>0. usocat.pc = "tcgetattr" /\ usocatLine.term = "canonical"
    BY <1>0, <1>4 DEF UsocatTerminal, Usocat!TcGetAttr
  <2>1. PICK l \in {"tcsetattr", "failed"}, old \in {"NULL", "garbage", "canonical"} :
          /\ usocat' = [usocat EXCEPT !.pc = l, !.oldparams = old]
          /\ UNCHANGED <<usocatLine, usocatSeen>>
          /\ old = IF l = "failed" THEN usocat.oldparams ELSE "canonical"
    BY <1>4, <1>e, <2>0 DEF Usocat!TcGetAttr
  <2>2. usocat'.pc = l /\ usocat'.oldparams = old
    BY <1>0, <2>1 DEF UsocatTypes
  <2>3. UsocatTerminal'
    BY <1>0, <2>0, <2>1, <2>2 DEF UsocatTerminal, Usocat!TerminalRestored
  <2>4. usocatLine' = [usocatLine EXCEPT !.term = usocatLine.term]
    BY <1>0, <2>1 DEF UsocatTypes
  <2> QED  BY <1>s, <2>0, <2>1, <2>2, <2>3, <2>4
<1>5. ASSUME Usocat!TcSetAttr PROVE UsocatInv'
  <2>0. usocat.pc = "tcsetattr" /\ usocatLine.term = "canonical"
    BY <1>0, <1>5 DEF UsocatTerminal, Usocat!TcSetAttr
  <2>1. PICK l \in {"socket", "failed"}, t \in {"canonical", "raw"} :
          /\ Usocat!To(l)
          /\ usocatLine' = [usocatLine EXCEPT !.term = t] /\ UNCHANGED usocatSeen
          /\ t = IF l = "failed" THEN usocatLine.term ELSE "raw"
    <3>0. UNCHANGED usocatSeen
      BY <1>5 DEF Usocat!TcSetAttr
    <3>1. CASE usocatLine' = [usocatLine EXCEPT !.term = "raw"] /\ Usocat!To("socket")
      BY <3>0, <3>1
    <3>2. CASE usocatLine' = usocatLine /\ Usocat!To("failed")
      <4>1. usocatLine' = [usocatLine EXCEPT !.term = usocatLine.term]
        BY <1>0, <3>2 DEF UsocatTypes
      <4> QED  BY <2>0, <3>0, <3>2, <4>1
    <3> QED  BY <1>5, <3>1, <3>2 DEF Usocat!TcSetAttr
  <2>2. usocat'.pc = l /\ usocat'.oldparams = usocat.oldparams /\ usocatLine'.term = t
    <3>1. usocat' = [usocat EXCEPT !.pc = l] /\ usocatLine' = [usocatLine EXCEPT !.term = t]
      BY <2>1
    <3> QED  BY <1>0, <3>1 DEF UsocatTypes
  <2>3. UsocatTerminal'
    BY <1>0, <2>0, <2>1, <2>2 DEF UsocatTerminal, Usocat!TerminalRestored
  <2>4. usocat' = [usocat EXCEPT !.pc = l, !.oldparams = usocat.oldparams]
    BY <1>0, <2>1 DEF UsocatTypes
  <2> QED  BY <1>e, <1>s, <2>0, <2>1, <2>2, <2>3, <2>4
<1>6. ASSUME Usocat!Connect PROVE UsocatInv'
  <2>1. PICK l \in {"loop", "failed"} :
          /\ Usocat!To(l) /\ usocat.pc = "socket" /\ usocatLine' = usocatLine
          /\ usocatSeen' = usocatSeen \/ usocatSeen' = usocatSeen \cup {"error"}
          /\ l = "failed" => "error" \in usocatSeen'
    BY <1>6 DEF Usocat!Connect, Usocat!Fail
  <2>2. usocatLine.term \in {"canonical", "raw"} /\ usocat'.pc = l /\ usocat'.oldparams = usocat.oldparams
    BY <1>0, <2>1 DEF UsocatTypes, UsocatTerminal
  <2>3. UsocatTerminal'
    BY <1>0, <2>1, <2>2 DEF UsocatTerminal, Usocat!TerminalRestored
  <2>4. usocat' = [usocat EXCEPT !.pc = l, !.oldparams = usocat.oldparams]
    BY <1>0, <2>1 DEF UsocatTypes
  <2>5. usocatLine' = [usocatLine EXCEPT !.term = usocatLine.term]
    BY <1>0, <2>1 DEF UsocatTypes
  <2> QED  BY <1>e, <1>s, <2>1, <2>2, <2>3, <2>4, <2>5
<1> QED  BY <1>1, <1>2, <1>3, <1>4, <1>5, <1>6

(* A part of what is left, moved                                            *)
LEMMA Moved ==
  ASSUME NEW a \in Nat, NEW b \in Nat, NEW k \in 0 .. b
  PROVE  (a + k) + (b - k) = a + b /\ a + 0 = a
OBVIOUS

(* read and recv take the next bytes of the line, write puts the next out.  *)
LEMMA UsocatMove ==
  ASSUME UsocatInv, Usocat!SendRead \/ Usocat!ReceiveRecv \/ Usocat!Output
  PROVE  UsocatInv'
<1> USE DEF Usocat!At, Usocat!To
<1>0. UsocatTypes /\ UsocatBytes /\ UsocatTerminal
  BY DEF UsocatInv
<1>l. /\ Len(usocatLine.input) \in Nat /\ Len(usocatLine.output) \in Nat /\ Len(usocat.buf) \in Nat
      /\ usocatLine.input \in Seq(Nat) /\ usocatLine.output \in Seq(Nat) /\ usocat.buf \in Seq(Nat)
      /\ usocatLine.total \in Nat
  BY <1>0, LenProperties DEF UsocatTypes
<1>t. ASSUME usocat'.oldparams = usocat.oldparams, usocatLine'.term = usocatLine.term,
             usocat.pc \in {"loop", "print"}, usocat'.pc \in {"loop", "print", "close", "failed"},
             usocatSeen' \subseteq usocatSeen \cup {"error", "read error"}, usocatSeen \subseteq usocatSeen',
             usocat'.pc = "failed" => "error" \in usocatSeen'
      PROVE  UsocatTerminal'
  BY <1>0, <1>t DEF UsocatTerminal, Usocat!TerminalRestored
\* A step that moves no byte, and leaves the loop with something to tell.
<1>e. ASSUME NEW l \in {"close", "failed"}, NEW what \in {"error", "read error"},
             usocat.pc \in {"loop", "print"}, usocat' = [usocat EXCEPT !.pc = l],
             usocatSeen' = usocatSeen \cup {what}, UNCHANGED usocatLine,
             l = "failed" => what = "error"
      PROVE  UsocatInv'
  <2>1. UsocatTypes' /\ usocat'.pc = l /\ usocat'.oldparams = usocat.oldparams
    BY <1>0, <1>e DEF UsocatTypes
  <2>2. UsocatBytes'
    BY <1>0, <1>e, <2>1 DEF UsocatBytes
  <2>3. UsocatTerminal'
    BY <1>e, <1>t, <2>1
  <2> QED  BY <2>1, <2>2, <2>3 DEF UsocatInv
<1>1. ASSUME NEW n \in 0 .. Len(usocatLine.input), usocat.pc = "loop", n = 0 => usocatLine.input = <<>>,
             Usocat!Taken(n), UNCHANGED usocatSeen
      PROVE  UsocatInv'
  <2> DEFINE buf == SubSeq(usocatLine.input, 1, n)
             input == SubSeq(usocatLine.input, n + 1, Len(usocatLine.input))
             l == IF n = 0 THEN "close" ELSE "print"
             written == Len(usocatLine.output)
  <2>1. usocat.buf = <<>> /\ InLine /\ From(usocatLine.input, written) /\ written + Len(usocatLine.input) = usocatLine.total
    <3>1. usocat.buf = <<>> /\ InLine
      BY <1>0, <1>1 DEF UsocatBytes
    <3>2. Len(usocat.buf) = 0 /\ written + Len(usocat.buf) = written
      BY <1>l, <3>1, EmptySeq
    <3>3. From(usocatLine.input, written + Len(usocat.buf))
          /\ (written + Len(usocat.buf)) + Len(usocatLine.input) = usocatLine.total
      BY <3>1 DEF InLine
    <3> QED  BY <3>1, <3>2, <3>3
  <2>2. /\ buf \in Seq(Nat) /\ Len(buf) = n /\ From(buf, written)
        /\ input \in Seq(Nat) /\ Len(input) = Len(usocatLine.input) - n /\ From(input, written + n)
    BY <1>1, <1>l, <2>1, Cut
  <2>3. usocat' = [usocat EXCEPT !.buf = buf, !.pc = l] /\ usocatLine' = [usocatLine EXCEPT !.input = input]
    BY <1>1, <1>0 DEF Usocat!Taken, UsocatTypes
  <2>4. l \in {"close", "print"} /\ (l = "close" => n = 0 /\ Len(usocatLine.input) = 0)
    BY <1>1
  <2> HIDE DEF buf, input, l
  <2>5. UsocatTypes'
    BY <1>0, <2>2, <2>3, <2>4 DEF UsocatTypes
  <2>6. /\ usocat'.buf = buf /\ usocat'.pc = l /\ usocat'.oldparams = usocat.oldparams
        /\ usocatLine'.input = input /\ usocatLine'.output = usocatLine.output
        /\ usocatLine'.total = usocatLine.total /\ usocatLine'.term = usocatLine.term
    BY <1>0, <2>3 DEF UsocatTypes
  <2>7. InLine'
    <3>1. (written + n) + (Len(usocatLine.input) - n) = usocatLine.total
      <4>1. (written + n) + (Len(usocatLine.input) - n) = written + Len(usocatLine.input)
        <5>1. written \in Nat /\ Len(usocatLine.input) \in Nat /\ n \in 0..Len(usocatLine.input)
          BY <1>1, <1>l
        <5> QED  BY <5>1, Moved
      <4> QED  BY <2>1, <4>1, Zenon
    <3> QED  BY <2>2, <2>6, <3>1 DEF InLine
  <2>8. l = "close" => Len(usocatLine.output) = usocatLine.total
    <3>1. written \in Nat /\ written = Len(usocatLine.output)
      BY <1>l
    <3>2. written + Len(usocatLine.input) = usocatLine.total
      BY <2>1
    <3> QED  BY <2>4, <3>1, <3>2, Moved, Zenon
  <2>9. UsocatBytes'
    BY <1>0, <1>1, <2>4, <2>6, <2>7, <2>8 DEF UsocatBytes
  <2>10. UsocatTerminal'
    BY <1>1, <1>t, <2>4, <2>6
  <2> QED  BY <2>5, <2>9, <2>10 DEF UsocatInv
<1>2. ASSUME Usocat!SendRead PROVE UsocatInv'
  <2>1. CASE Usocat!Taken(IF usocatLine.input = <<>> THEN 0 ELSE 1) /\ UNCHANGED usocatSeen
    <3> DEFINE n == IF usocatLine.input = <<>> THEN 0 ELSE 1
    <3>1. n \in 0 .. Len(usocatLine.input) /\ (n = 0 => usocatLine.input = <<>>)
      BY <1>l, EmptySeq
    <3> HIDE DEF n
    <3>2. Usocat!Taken(n) /\ usocat.pc = "loop"
      BY <1>2, <2>1 DEF n, Usocat!SendRead
    <3> QED  BY <1>1, <2>1, <3>1, <3>2
  <2>2. CASE Usocat!To("close") /\ usocatSeen' = usocatSeen \cup {"read error"} /\ UNCHANGED usocatLine
    BY <1>2, <1>e, <2>2 DEF Usocat!SendRead
  <2> QED  BY <1>2, <2>1, <2>2 DEF Usocat!SendRead
<1>3. ASSUME Usocat!ReceiveRecv PROVE UsocatInv'
  <2>1. CASE Usocat!Fail
    BY <1>3, <1>e, <2>1 DEF Usocat!Fail, Usocat!ReceiveRecv
  <2>2. CASE ~Usocat!Fail
    <3>1. PICK n \in 0 .. BUF_LEN : n =< Len(usocatLine.input) /\ (n = 0 => usocatLine.input = <<>>)
                                    /\ Usocat!Taken(n) /\ UNCHANGED usocatSeen
      BY <1>3, <2>2 DEF Usocat!ReceiveRecv
    <3>2. n \in 0 .. Len(usocatLine.input) /\ usocat.pc = "loop"
      BY <1>3, <1>l, <3>1, DriversAssumption DEF Usocat!ReceiveRecv
    <3> QED  BY <1>1, <3>1, <3>2
  <2> QED  BY <2>1, <2>2
<1>4. ASSUME Usocat!Output PROVE UsocatInv'
  <2>1. CASE Usocat!Fail
    BY <1>4, <1>e, <2>1 DEF Usocat!Fail, Usocat!Output
  <2>2. CASE ~Usocat!Fail
    <3>1. PICK w \in 1 .. Len(usocat.buf) :
            /\ usocatLine' = [usocatLine EXCEPT !.output = @ \o SubSeq(usocat.buf, 1, w)]
            /\ usocat' = [usocat EXCEPT !.buf = Usocat!Rest(usocat.buf, w),
                                        !.pc = IF w = Len(usocat.buf) THEN "loop" ELSE "print"]
            /\ UNCHANGED usocatSeen
      BY <1>4, <2>2 DEF Usocat!Output
    <3> DEFINE put == SubSeq(usocat.buf, 1, w)
               rest == SubSeq(usocat.buf, w + 1, Len(usocat.buf))
               output == usocatLine.output \o put
               l == IF w = Len(usocat.buf) THEN "loop" ELSE "print"
               written == Len(usocatLine.output)
    <3>2. /\ usocat.pc = "print" /\ w \in 0 .. Len(usocat.buf)
          /\ From(usocat.buf, written) /\ From(usocatLine.input, written + Len(usocat.buf))
          /\ From(usocatLine.output, 0)
          /\ (written + Len(usocat.buf)) + Len(usocatLine.input) = usocatLine.total
      <4>1. usocat.pc = "print" /\ From(usocatLine.output, 0) /\ InLine
        BY <1>0, <1>4 DEF UsocatBytes, Usocat!Output
      <4>2. w \in 0 .. Len(usocat.buf)
        BY <1>l
      <4> QED  BY <4>1, <4>2 DEF InLine
    <3>3. /\ put \in Seq(Nat) /\ Len(put) = w /\ From(put, written)
          /\ rest \in Seq(Nat) /\ Len(rest) = Len(usocat.buf) - w /\ From(rest, written + w)
      BY <1>l, <3>2, Cut
    <3>4. usocatLine' = [usocatLine EXCEPT !.output = output] /\ usocat' = [usocat EXCEPT !.buf = rest, !.pc = l]
      BY <1>0, <3>1 DEF Usocat!Rest, UsocatTypes
    <3> HIDE DEF put, rest
    <3>5. output \in Seq(Nat) /\ Len(output) = written + w /\ From(output, 0)
      BY <1>l, <3>2, <3>3, Joined
    <3>6. l \in {"loop", "print"} /\ (l = "loop" => rest = <<>>)
      BY <1>l, <3>3, EmptySeq
    <3> HIDE DEF output, l
    <3>7. UsocatTypes'
      BY <1>0, <3>3, <3>4, <3>5, <3>6 DEF UsocatTypes
    <3>8. /\ usocat'.buf = rest /\ usocat'.pc = l /\ usocat'.oldparams = usocat.oldparams
          /\ usocatLine'.input = usocatLine.input /\ usocatLine'.output = output
          /\ usocatLine'.total = usocatLine.total /\ usocatLine'.term = usocatLine.term
      BY <1>0, <3>4 DEF UsocatTypes
    <3>9. InLine'
      <4>1. (written + w) + (Len(usocat.buf) - w) = written + Len(usocat.buf)
        <5>1. written \in Nat /\ w \in Nat /\ Len(usocat.buf) \in Nat
          BY <1>l, <3>2
        <5> QED  BY <1>l, <3>2, Moved
      <4>2. From(rest, written + w) /\ From(usocatLine.input, (written + w) + (Len(usocat.buf) - w))
            /\ ((written + w) + (Len(usocat.buf) - w)) + Len(usocatLine.input) = usocatLine.total
        BY <3>2, <3>3, <4>1
      <4> QED  BY <3>3, <3>5, <3>8, <4>2 DEF InLine
    <3>10. UsocatBytes'
      BY <1>0, <3>1, <3>2, <3>5, <3>6, <3>8, <3>9 DEF UsocatBytes
    <3>11. UsocatTerminal'
      BY <1>t, <3>1, <3>2, <3>6, <3>8
    <3> QED  BY <3>7, <3>10, <3>11, ZenonT(40) DEF UsocatInv
  <2> QED  BY <2>1, <2>2
<1> QED  BY <1>2, <1>3, <1>4

(* The end of the loop, and SIGINT: the terminal is given back.             *)
LEMMA UsocatEnd ==
  ASSUME UsocatInv, Usocat!Finish \/ Usocat!SigkillHandler
  PROVE  UsocatInv'
<1>0. UsocatTypes /\ UsocatBytes /\ UsocatTerminal
  BY DEF UsocatInv
<1>l. usocatLine.input \in Seq(Nat) /\ Len(usocatLine.input) \in Nat
  BY <1>0, LenProperties DEF UsocatTypes
<1>r. /\ Usocat!Restored \in {"canonical", "raw", "garbage"}
      /\ usocat.oldparams # "garbage" /\ usocat.pc # "ended" => Usocat!Restored = "canonical"
  BY <1>0 DEF UsocatTypes, UsocatTerminal, Usocat!Restored
<1>1. /\ Usocat!CloseSock(Usocat!Restored) /\ usocat' = [usocat EXCEPT !.pc = "ended"] /\ usocat.pc # "ended"
      /\ \/ usocat.pc = "close" /\ usocatSeen' = usocatSeen \cup {"finished"}
         \/ usocatSeen' = usocatSeen \cup {IF usocat.oldparams = "garbage" THEN "early" ELSE "interrupted"}
  BY DEF Usocat!Finish, Usocat!SigkillHandler, Usocat!At, Usocat!To, Usocat!HandlerTerm
<1>2. PICK n \in 0 .. BUF_LEN :
        usocatLine' = [usocatLine EXCEPT !.term = Usocat!Restored,
                                         !.input = SubSeq(@, n + 1, Len(@))]
  BY <1>1 DEF Usocat!CloseSock
<1> DEFINE input == SubSeq(usocatLine.input, n + 1, Len(usocatLine.input))
<1>3. usocatLine' = [usocatLine EXCEPT !.term = Usocat!Restored, !.input = input]
  BY <1>0, <1>2 DEF UsocatTypes
<1>4. input \in Seq(Nat)
  <2>1. n \in Nat
    BY DriversAssumption
  <2>2. \A i \in n + 1 .. Len(usocatLine.input) : usocatLine.input[i] \in Nat
    BY <1>l, <2>1, LenProperties
  <2> QED  BY <1>l, <2>1, <2>2, SubSeqProperties
<1> HIDE DEF input
<1>5. UsocatTypes'
  BY <1>0, <1>1, <1>3, <1>4, <1>r DEF UsocatTypes
<1>6. /\ usocat'.pc = "ended" /\ usocat'.oldparams = usocat.oldparams
      /\ usocatLine'.output = usocatLine.output /\ usocatLine'.total = usocatLine.total
      /\ usocatLine'.term = Usocat!Restored
  BY <1>0, <1>1, <1>3 DEF UsocatTypes
<1>7. UsocatBytes'
  <2>1. usocatSeen' = {"finished"} => usocat.pc = "close" /\ usocatSeen = {}
    BY <1>0, <1>1 DEF UsocatBytes
  <2> QED  BY <1>0, <1>6, <2>1 DEF UsocatBytes
<1>8. UsocatTerminal'
  <2>1. usocat.oldparams = "garbage" => "early" \in usocatSeen'
    BY <1>0, <1>1 DEF UsocatTerminal
  <2> QED  BY <1>0, <1>1, <1>6, <1>r, <2>1 DEF UsocatTerminal, UsocatTypes, Usocat!TerminalRestored
<1> QED  BY <1>5, <1>7, <1>8 DEF UsocatInv

(* Every step of usocat *)
LEMMA UsocatNext ==
  ASSUME UsocatInv, Usocat!Next
  PROVE  UsocatInv'
BY UsocatSetup, UsocatMove, UsocatEnd DEF Usocat!Next

(* A step that is none of usocat's *)
LEMMA UsocatStutter ==
  ASSUME UsocatInv, UNCHANGED UsocatVars
  PROVE  UsocatInv'
<1>1. usocat' = usocat /\ usocatLine' = usocatLine /\ usocatSeen' = usocatSeen
  BY DEF UsocatVars
<1> QED
  BY <1>1 DEF UsocatInv, UsocatTypes, UsocatBytes, UsocatTerminal, InLine, Usocat!TerminalRestored

(* What the invariant promises of a session *)
LEMMA UsocatSafe ==
  ASSUME UsocatInv
  PROVE  Usocat!Delivered /\ Usocat!TerminalRestored
<1>1. usocatLine.output \in Seq(Nat) /\ From(usocatLine.output, 0)
  BY DEF UsocatInv, UsocatTypes, UsocatBytes
<1>2. usocatLine.output = [i \in 1 .. Len(usocatLine.output) |-> i]
  <2>1. \A i \in 1 .. Len(usocatLine.output) : usocatLine.output[i] = i
    BY <1>1, LenProperties DEF From
  <2>2. /\ DOMAIN usocatLine.output = 1 .. Len(usocatLine.output)
        /\ usocatLine.output = [i \in DOMAIN usocatLine.output |-> usocatLine.output[i]]
    BY <1>1, LenProperties
  <2> QED  BY <2>1, <2>2
<1> QED  BY <1>2 DEF UsocatInv, UsocatBytes, UsocatTerminal, Usocat!Delivered

----------------------------------------------------------------------------
(* sbull                                                                   *)

SbullFields ==
  /\ DOMAIN sbull = {"mode", "users", "media_change", "timer", "used"}
  /\ DOMAIN sbullProc = Procs
  /\ \A p \in Procs : DOMAIN sbullProc[p] = {"pc", "bio", "done", "i", "mixed"}

(* The users are the processes that have opened the disk and not released it. *)
Opened(calls) == {p \in Procs : calls[p].pc \in {"in", "write"}}
Media == sbull.media_change = TRUE
Timed == sbull.timer = TRUE
SbullMedia ==
  /\ sbull.users = Cardinality(Opened(sbullProc))
  /\ sbull.media_change \in BOOLEAN /\ sbull.timer \in BOOLEAN /\ sbull.used \in BOOLEAN
  /\ sbull.users > 0 => ~Media
  /\ sbull.used = TRUE /\ sbull.users = 0 /\ sbull.mode # "gone" =>
       Media \/ Timed \/ \E p \in Procs : sbullProc[p].pc = "lock"

SbullInv == SbullFields /\ SbullMedia

(* The users when one process goes in, goes out, or stays *)
LEMMA OpenedOne ==
  ASSUME NEW calls, NEW new, NEW p \in Procs, \A q \in Procs \ {p} : new[q].pc = calls[q].pc
  PROVE  /\ Cardinality(Opened(calls)) \in Nat
         /\ calls[p].pc \in {"in", "write"} => Cardinality(Opened(calls)) > 0
         /\ calls[p].pc \in {"in", "write"} /\ new[p].pc \in {"in", "write"} => Opened(new) = Opened(calls)
         /\ calls[p].pc \notin {"in", "write"} /\ new[p].pc \notin {"in", "write"} => Opened(new) = Opened(calls)
         /\ calls[p].pc \notin {"in", "write"} /\ new[p].pc \in {"in", "write"} =>
              Cardinality(Opened(new)) = Cardinality(Opened(calls)) + 1
         /\ calls[p].pc \in {"in", "write"} /\ new[p].pc \notin {"in", "write"} =>
              Cardinality(Opened(new)) = Cardinality(Opened(calls)) - 1
<1> DEFINE A == Opened(calls)
           B == Opened(new)
<1>1. /\ A \subseteq Procs /\ B \subseteq Procs /\ A \ {p} = B \ {p}
      /\ (p \in A <=> calls[p].pc \in {"in", "write"}) /\ (p \in B <=> new[p].pc \in {"in", "write"})
  BY DEF Opened
<1> HIDE DEF A, B
<1>2. IsFiniteSet(A) /\ Cardinality(A) \in Nat /\ IsFiniteSet(B) /\ Cardinality(B) \in Nat
  BY <1>1, DriversAssumption, FS_Subset, FS_CardinalityType
<1>3. p \in A => Cardinality(A) > 0
  <2>1. p \in A => Cardinality(A) # 0
    BY <1>2, FS_EmptySet
  <2> QED  BY <1>2, <2>1
<1>4. ASSUME p \in A <=> p \in B PROVE B = A
  <2>1. \A q \in Procs : q \in A <=> q \in B
    BY <1>1, <1>4
  <2> QED  BY <1>1, <2>1
<1>5. ASSUME p \notin A, p \in B PROVE Cardinality(B) = Cardinality(A) + 1
  <2>1. B = A \cup {p}
    BY <1>1, <1>5
  <2> QED  BY <1>2, <1>5, <2>1, FS_AddElement
<1>6. ASSUME p \in A, p \notin B PROVE Cardinality(B) = Cardinality(A) - 1
  <2>1. A = B \cup {p}
    BY <1>1, <1>6
  <2>2. Cardinality(A) = Cardinality(B) + 1
    BY <1>2, <1>6, <2>1, FS_AddElement
  <2> QED  BY <1>2, <2>2
<1> QED  BY <1>1, <1>2, <1>3, <1>4, <1>5, <1>6, Zenon DEF A, B

(* sbull as it is loaded *)
LEMMA SbullInit ==
  ASSUME Sbull!Init
  PROVE  SbullInv
<1>1. \A p \in Procs : sbullProc[p].pc = "out"
  BY DEF Sbull!Init, Sbull!Outside
<1>2. Cardinality(Opened(sbullProc)) = 0
  <2>1. Opened(sbullProc) = {}
    BY <1>1 DEF Opened
  <2> QED  BY <2>1, FS_EmptySet
<1>3. SbullFields
  BY DEF Sbull!Init, Sbull!Outside, SbullFields
<1>4. sbull.users = 0 /\ sbull.media_change = FALSE /\ sbull.timer = FALSE /\ sbull.used = FALSE
  BY DEF Sbull!Init
<1> QED  BY <1>2, <1>3, <1>4 DEF SbullInv, SbullMedia, Media, Timed

(* The steps that leave the processes where they are *)
LEMMA SbullMachine ==
  ASSUME SbullInv, Sbull!Setup \/ Sbull!Invalidate \/ Sbull!Exit
  PROVE  SbullInv'
<1>0. SbullFields /\ SbullMedia
  BY DEF SbullInv
<1>1. SbullFields' /\ sbullProc' = sbullProc /\ sbull'.users = sbull.users /\ sbull'.used = sbull.used
  BY <1>0 DEF SbullFields, Sbull!Setup, Sbull!Invalidate, Sbull!Exit
<1>2. ASSUME Sbull!Setup PROVE SbullInv'
  <2>1. /\ sbull.mode = "none" /\ sbull'.media_change = sbull.media_change /\ sbull'.timer = sbull.timer
    BY <1>0, <1>2 DEF SbullFields, Sbull!Setup
  <2> QED  BY <1>0, <1>1, <2>1 DEF SbullInv, SbullMedia, Media, Timed
<1>3. ASSUME Sbull!Invalidate PROVE SbullInv'
  <2>1. /\ sbull'.media_change = (sbull.media_change \/ sbull.users = 0)
        /\ sbull'.timer = FALSE /\ sbull'.mode = sbull.mode
    BY <1>0, <1>3 DEF SbullFields, Sbull!Invalidate
  <2>2. sbull'.media_change \in BOOLEAN /\ sbull'.timer \in BOOLEAN /\ (Media' <=> Media \/ sbull.users = 0)
    BY <1>0, <2>1 DEF SbullMedia, Media
  <2> QED  BY <1>0, <1>1, <2>1, <2>2 DEF SbullInv, SbullMedia
<1>4. ASSUME Sbull!Exit PROVE SbullInv'
  <2>1. sbull'.mode = "gone" /\ sbull'.media_change = sbull.media_change /\ sbull'.timer = FALSE
    BY <1>0, <1>4 DEF SbullFields, Sbull!Exit
  <2> QED  BY <1>0, <1>1, <2>1 DEF SbullInv, SbullMedia, Media
<1> QED  BY <1>2, <1>3, <1>4

(* The steps of a process that opens, releases or writes *)
LEMMA SbullUser ==
  ASSUME SbullInv, NEW p \in Procs,
         \/ Sbull!OpenTimer(p) \/ Sbull!OpenLocked(p) \/ Sbull!Release(p) \/ Sbull!Submit(p)
         \/ Sbull!Request(p) \/ Sbull!FullRequest(p) \/ Sbull!MakeRequest(p)
  PROVE  SbullInv'
<1>0. SbullFields /\ SbullMedia
  BY DEF SbullInv
<1>1. ASSUME Sbull!OpenTimer(p) PROVE SbullInv'
  <2>1. /\ sbullProc[p].pc = "out" /\ sbullProc'[p].pc = "lock" /\ SbullFields'
        /\ \A q \in Procs \ {p} : sbullProc'[q] = sbullProc[q]
        /\ sbull'.users = sbull.users /\ sbull'.used = sbull.used
        /\ sbull'.media_change = sbull.media_change /\ sbull'.timer = FALSE
    BY <1>0, <1>1 DEF SbullFields, Sbull!OpenTimer
  <2>2. Opened(sbullProc') = Opened(sbullProc)
    BY <2>1, OpenedOne
  <2> QED  BY <1>0, <2>1, <2>2 DEF SbullInv, SbullMedia, Media
<1>2. ASSUME Sbull!OpenLocked(p) PROVE SbullInv'
  <2>1. /\ sbullProc[p].pc = "lock" /\ sbullProc'[p].pc = "in" /\ SbullFields'
        /\ \A q \in Procs \ {p} : sbullProc'[q] = sbullProc[q]
        /\ sbull'.users = sbull.users + 1 /\ sbull'.used = TRUE
        /\ sbull'.media_change = (sbull.media_change /\ ~(sbull.users = 0 /\ sbull.media_change))
        /\ sbull'.timer = sbull.timer
    BY <1>0, <1>2 DEF SbullFields, Sbull!OpenLocked
  <2>2. Cardinality(Opened(sbullProc')) = Cardinality(Opened(sbullProc)) + 1 /\ Cardinality(Opened(sbullProc)) \in Nat
    BY <2>1, OpenedOne
  <2>3. ~Media' /\ sbull'.media_change \in BOOLEAN
    <3>1. sbull.users = 0 \/ ~Media
      BY <1>0, <2>2 DEF SbullMedia
    <3>2. CASE sbull.media_change = TRUE
      BY <2>1, <3>1, <3>2 DEF Media
    <3>3. CASE sbull.media_change = FALSE
      BY <2>1, <3>3 DEF Media
    <3> QED  BY <1>0, <3>2, <3>3 DEF SbullMedia
  <2>4. sbull'.users > 0 /\ sbull'.users = Cardinality(Opened(sbullProc'))
    BY <1>0, <2>1, <2>2 DEF SbullMedia
  <2>5. sbull'.timer \in BOOLEAN /\ sbull'.used \in BOOLEAN
    BY <1>0, <2>1 DEF SbullMedia
  <2>6. sbull'.users # 0
    BY <2>4
  <2> QED  BY <2>1, <2>3, <2>4, <2>5, <2>6, Zenon DEF SbullInv, SbullMedia
<1>3. ASSUME Sbull!Release(p) PROVE SbullInv'
  <2>1. /\ sbullProc[p].pc = "in" /\ sbullProc'[p].pc = "out" /\ SbullFields'
        /\ \A q \in Procs \ {p} : sbullProc'[q] = sbullProc[q]
        /\ sbull'.users = sbull.users - 1 /\ sbull'.used = sbull.used /\ sbull'.mode = sbull.mode
        /\ sbull'.media_change = sbull.media_change
        /\ sbull'.timer = (sbull.timer \/ sbull.users = 1)
    BY <1>0, <1>3 DEF SbullFields, Sbull!Release, Sbull!Outside
  <2>2. /\ Cardinality(Opened(sbullProc')) = Cardinality(Opened(sbullProc)) - 1
        /\ Cardinality(Opened(sbullProc)) \in Nat /\ Cardinality(Opened(sbullProc)) > 0
    BY <2>1, OpenedOne
  <2>3. (Timed' <=> Timed \/ sbull.users = 1) /\ sbull'.timer \in BOOLEAN
    BY <1>0, <2>1 DEF SbullMedia, Timed
  <2>4. ~Media' /\ (sbull'.users = 0 => Timed')
    BY <1>0, <2>1, <2>2, <2>3 DEF SbullMedia, Media
  <2> QED  BY <1>0, <2>1, <2>2, <2>3, <2>4 DEF SbullInv, SbullMedia
\* The writes: nobody comes or goes.
<1>w. ASSUME sbull' = sbull, SbullFields', sbullProc[p].pc \in {"in", "write"}, sbullProc'[p].pc \in {"in", "write"},
             \A q \in Procs \ {p} : sbullProc'[q].pc = sbullProc[q].pc
      PROVE  SbullInv'
  <2>1. Opened(sbullProc') = Opened(sbullProc)
    BY <1>w, OpenedOne
  <2> QED  BY <1>0, <1>w, <2>1 DEF SbullInv, SbullMedia, Media, Timed
<1>4. ASSUME Sbull!Submit(p) PROVE SbullInv'
  <2>1. PICK bio \in Writes :
          sbullProc' = [q \in Procs |->
                IF q = p THEN [pc |-> "write", bio |-> bio, done |-> 0, i |-> 1,
                               mixed |-> Sbull!Crossing(p, bio) # {}]
                ELSE [sbullProc[q] EXCEPT !.mixed = @ \/ q \in Sbull!Crossing(p, bio)]]
    BY <1>4 DEF Sbull!Submit
  <2>2. /\ \A q \in Procs \ {p} : sbullProc'[q].pc = sbullProc[q].pc
        /\ sbullProc'[p].pc = "write"
        /\ DOMAIN sbullProc' = Procs /\ \A q \in Procs : DOMAIN sbullProc'[q] = {"pc", "bio", "done", "i", "mixed"}
    BY <1>0, <2>1 DEF SbullFields
  <2> QED  BY <1>0, <1>4, <1>w, <2>2 DEF SbullFields, Sbull!Submit
<1>5. ASSUME NEW n, Sbull!Segment(p, n), sbull' = sbull, sbullProc[p].pc = "write" PROVE SbullInv'
  <2>1. /\ \A q \in Procs \ {p} : sbullProc'[q] = sbullProc[q]
        /\ sbullProc'[p].pc \in {"in", "write"} /\ SbullFields'
    BY <1>0, <1>5 DEF SbullFields, Sbull!Segment, Sbull!Complete, Sbull!Outside
  <2> QED  BY <1>5, <1>w, <2>1
<1>6. ASSUME Sbull!Request(p) \/ Sbull!FullRequest(p) \/ Sbull!MakeRequest(p) PROVE SbullInv'
  BY <1>5, <1>6 DEF Sbull!Request, Sbull!FullRequest, Sbull!MakeRequest, Sbull!XferBio, Sbull!InFlight
<1> QED  BY <1>1, <1>2, <1>3, <1>4, <1>6

(* Every step of sbull *)
LEMMA SbullNext ==
  ASSUME SbullInv, Sbull!Next
  PROVE  SbullInv'
BY SbullMachine, SbullUser DEF Sbull!Next

(* A step that is none of sbull's *)
LEMMA SbullStutter ==
  ASSUME SbullInv, UNCHANGED SbullVars
  PROVE  SbullInv'
BY DEF SbullInv, SbullVars, SbullFields, SbullMedia, Media, Timed

(* The media of sbull change only between its users, and they change after  *)
(* the last of them.                                                        *)
LEMMA SbullSafe ==
  ASSUME SbullInv
  PROVE  Sbull!MediaKept /\ Sbull!ChangeComes
BY DEF SbullInv, SbullMedia, Media, Timed, Sbull!MediaKept, Sbull!ChangeComes

----------------------------------------------------------------------------
(* What is on the disk of sbull *)

(* The fold of Sbull!Total, as a function of the set of segments it has seen *)
Biggest(s) == CHOOSE x \in s : \A y \in s : x >= y
Folds(segs, g, S) ==
  g = [s \in SUBSET S |-> IF s = {} THEN 0 ELSE g[s \ {Biggest(s)}] + segs[Biggest(s)]]
Fold(segs) == CHOOSE g : Folds(segs, g, DOMAIN segs)

(* The sectors of the first k segments *)
Sum(segs, k) == Fold(segs)[1..k]

(* The library's definition is that fold.                                 *)
LEMMA TotalIs ==
  ASSUME NEW segs
  PROVE  Sbull!Total(segs) = Fold(segs)[DOMAIN segs]
BY DEF Sbull!Total, Sbull!MapThenFoldSet, Biggest, Fold, Folds

(* The fold takes the biggest index first.                                *)
LEMMA BiggestOf ==
  ASSUME NEW k \in Nat, NEW s \in SUBSET (1..k), k \in s
  PROVE  Biggest(s) = k
<1>1. k \in s /\ \A y \in s : k >= y
  OBVIOUS
<1>2. \A x \in s : (\A y \in s : x >= y) => x = k
  OBVIOUS
<1> QED  BY <1>1, <1>2 DEF Biggest

(* There is such a function for one segment more.                         *)
LEMMA FoldNext ==
  ASSUME NEW segs, NEW k \in Nat, NEW g, Folds(segs, g, 1..k)
  PROVE  \E h : Folds(segs, h, 1..k + 1)
<1> DEFINE h == [s \in SUBSET (1..k + 1) |->
                   IF k + 1 \in s THEN g[s \ {k + 1}] + segs[k + 1] ELSE g[s]]
<1>1. \A s \in SUBSET (1..k) : g[s] = IF s = {} THEN 0 ELSE g[s \ {Biggest(s)}] + segs[Biggest(s)]
  BY DEF Folds
<1>2. ASSUME NEW s \in SUBSET (1..k) PROVE s \in SUBSET (1..k + 1) /\ k + 1 \notin s /\ h[s] = g[s]
  OBVIOUS
<1>3. ASSUME NEW s \in SUBSET (1..k + 1)
      PROVE  h[s] = IF s = {} THEN 0 ELSE h[s \ {Biggest(s)}] + segs[Biggest(s)]
  <2>1. CASE k + 1 \in s
    <3>1. Biggest(s) = k + 1
      BY <2>1, BiggestOf
    <3>2. h[s] = g[s \ {k + 1}] + segs[k + 1] /\ s # {}
      BY <2>1
    <3>3. s \ {k + 1} \in SUBSET (1..k)
      OBVIOUS
    <3>4. h[s \ {k + 1}] = g[s \ {k + 1}]
      BY <1>2, <3>3
    <3> QED  BY <3>1, <3>2, <3>4, Zenon
  <2>2. CASE k + 1 \notin s
    <3>1. \A x \in s : x \in 1..k
      <4> SUFFICES ASSUME NEW x \in s PROVE x \in 1..k
        OBVIOUS
      <4>1. x \in 1..k + 1 /\ x # k + 1
        BY <2>2
      <4> QED  BY <4>1
    <3>2. s \in SUBSET (1..k) /\ s \ {Biggest(s)} \in SUBSET (1..k)
      BY <3>1
    <3> HIDE DEF h
    <3> QED  BY <1>1, <1>2, <3>2
  <2> QED  BY <2>1, <2>2
<1>4. h = [s \in SUBSET (1..k + 1) |-> h[s]]
  BY Zenon
<1> HIDE DEF h
<1>5. [s \in SUBSET (1..k + 1) |-> h[s]]
        = [s \in SUBSET (1..k + 1) |-> IF s = {} THEN 0 ELSE h[s \ {Biggest(s)}] + segs[Biggest(s)]]
  BY <1>3, Zenon
<1>6. Folds(segs, h, 1..k + 1)
  BY <1>4, <1>5, Zenon DEF Folds
<1> QED  BY <1>6

(* So there is one for every bio.                                         *)
LEMMA FoldThere ==
  ASSUME NEW segs, NEW n \in Nat
  PROVE  \E g : Folds(segs, g, 1..n)
<1> DEFINE T == {k \in Nat : \E g : Folds(segs, g, 1..k)}
<1>1. 0 \in T
  <2> DEFINE g == [s \in SUBSET (1..0) |-> 0]
  <2>1. \A s \in SUBSET (1..0) : s = {}
    OBVIOUS
  <2>2. Folds(segs, g, 1..0)
    BY <2>1 DEF Folds
  <2> QED  BY <2>2
<1>2. ASSUME NEW k \in 0..n - 1, k \in T PROVE k + 1 \in T
  BY <1>2, FoldNext
<1> HIDE DEF T
<1>3. n \in T
  BY <1>1, <1>2, Climb
<1> QED  BY <1>3 DEF T

(* The sums of the segments grow by a segment each, up to the total. *)
LEMMA SumSteps ==
  ASSUME NEW segs \in Seq(Nat \ {0})
  PROVE  /\ Sum(segs, 0) = 0
         /\ \A k \in 1..Len(segs) : Sum(segs, k) = Sum(segs, k - 1) + segs[k]
         /\ Sbull!Total(segs) = Sum(segs, Len(segs))
<1>1. DOMAIN segs = 1..Len(segs) /\ Len(segs) \in Nat
  OBVIOUS
<1>2. Folds(segs, Fold(segs), 1..Len(segs))
  BY <1>1, FoldThere DEF Fold
<1>3. \A s \in SUBSET (1..Len(segs)) :
        Fold(segs)[s] = IF s = {} THEN 0 ELSE Fold(segs)[s \ {Biggest(s)}] + segs[Biggest(s)]
  BY <1>2 DEF Folds
<1>4. Sum(segs, 0) = 0
  <2>1. 1..0 = {} /\ 1..0 \in SUBSET (1..Len(segs))
    OBVIOUS
  <2> QED  BY <1>3, <2>1, Zenon DEF Sum
<1>5. ASSUME NEW k \in 1..Len(segs) PROVE Sum(segs, k) = Sum(segs, k - 1) + segs[k]
  <2>1. 1..k \in SUBSET (1..Len(segs)) /\ k \in 1..k /\ (1..k) \ {k} = 1..k - 1 /\ k \in Nat
    BY <1>1
  <2>2. Biggest(1..k) = k
    BY <2>1, BiggestOf
  <2> QED  BY <1>3, <2>1, <2>2 DEF Sum
<1>6. Sbull!Total(segs) = Sum(segs, Len(segs))
  BY <1>1, TotalIs DEF Sum
<1> QED  BY <1>4, <1>5, <1>6

(* The sectors of the first segments, one segment after the other.        *)
LEMMA SumsUp ==
  ASSUME NEW segs \in Seq(Nat \ {0}), segs # <<>>
  PROVE  /\ \A k \in 0..Len(segs) : Sum(segs, k) \in Nat
         /\ \A k \in 0..Len(segs) : Sum(segs, k) =< Sum(segs, Len(segs))
         /\ (\A k \in 1..Len(segs) : segs[k] = segs[1]) => \A k \in 0..Len(segs) : Sum(segs, k) = k * segs[1]
<1> DEFINE n == Len(segs)
           s(k) == Sum(segs, k)
<1>1. /\ n \in Nat \ {0} /\ \A k \in 1..n : segs[k] \in Nat
      /\ s(0) = 0 /\ \A k \in 1..n : s(k) = s(k - 1) + segs[k]
  BY SumSteps
<1> HIDE DEF n, s
<1>2. \A k \in 0..n : s(k) \in Nat
  <2> DEFINE T == {k \in 0..n : s(k) \in Nat}
  <2>1. 0 \in T
    BY <1>1
  <2>2. ASSUME NEW k \in 0..n - 1, k \in T PROVE k + 1 \in T
    <3>1. k + 1 \in 1..n /\ (k + 1) - 1 = k
      BY <1>1
    <3>2. s(k + 1) = s(k) + segs[k + 1] /\ segs[k + 1] \in Nat
      BY <1>1, <3>1
    <3> QED  BY <2>2, <3>1, <3>2
  <2> HIDE DEF T
  <2>3. \A k \in 0..n : k \in T
    BY <1>1, <2>1, <2>2, Climb
  <2> QED  BY <2>3 DEF T
<1>3. \A k \in 0..n : s(k) =< s(n)
  <2> DEFINE T == {j \in 0..n : s(n - j) =< s(n)}
  <2>1. 0 \in T
    BY <1>1, <1>2
  <2>2. ASSUME NEW j \in 0..n - 1, j \in T PROVE j + 1 \in T
    <3>1. n - j \in 1..n /\ n - (j + 1) = (n - j) - 1 /\ (n - j) - 1 \in 0..n /\ n \in 0..n /\ n - j \in 0..n
      BY <1>1
    <3>2. s(n - j) = s((n - j) - 1) + segs[n - j] /\ segs[n - j] \in Nat
      BY <1>1, <3>1
    <3>3. s(n - j) =< s(n) /\ s(n) \in Nat /\ s(n - j) \in Nat /\ s((n - j) - 1) \in Nat
      BY <1>2, <2>2, <3>1
    <3>4. s((n - j) - 1) =< s(n)
      BY <3>2, <3>3
    <3> QED  BY <3>1, <3>4, <2>2
  <2> HIDE DEF T
  <2>3. \A k \in 0..n : k \in T
    BY <1>1, <2>1, <2>2, Climb
  <2>4. ASSUME NEW k \in 0..n PROVE s(k) =< s(n)
    <3>1. n - k \in 0..n /\ n - (n - k) = k
      BY <1>1
    <3>2. s(n - (n - k)) =< s(n)
      BY <2>3, <3>1 DEF T
    <3> QED  BY <3>1, <3>2
  <2> QED  BY <2>4
<1>4. ASSUME \A k \in 1..n : segs[k] = segs[1], NEW m \in 0..n PROVE s(m) = m * segs[1]
  <2> DEFINE T == {k \in 0..n : s(k) = k * segs[1]}
             c == segs[1]
  <2>1. 0 \in T
    <3>1. 1 \in 1..n /\ 0 \in 0..n
      BY <1>1
    <3>2. segs[1] \in Nat
      BY <1>1, <3>1
    <3> QED  BY <1>1, <3>1, <3>2
  <2>2. ASSUME NEW k \in 0..n - 1, k \in T PROVE k + 1 \in T
    <3>1. k + 1 \in 1..n /\ (k + 1) - 1 = k /\ 1 \in 1..n
      BY <1>1
    <3>2. s(k + 1) = s(k) + c /\ c \in Nat /\ s(k) = k * c
      BY <1>1, <1>4, <2>2, <3>1
    <3> HIDE DEF c
    <3>3. s(k + 1) = (k + 1) * c
      BY <3>2
    <3> QED  BY <3>1, <3>3 DEF c
  <2> HIDE DEF T
  <2>3. \A k \in 0..n : k \in T
    BY <1>1, <2>1, <2>2, Climb
  <2> QED  BY <2>3 DEF T
<1> QED  BY <1>2, <1>3, <1>4, Zenon DEF n, s

(* How many sectors a transfer in mode m is past after k segments of a bio, *)
(* whether it then has been where the bio says, and what it may touch.      *)
At(bio, m, k) == IF m = "RM_SIMPLE" THEN Sum(bio.segs, k) ELSE k * bio.segs[1]
Whole(bio, m) == m = "RM_SIMPLE" \/ Sbull!Uniform(bio)
Touched(bio, m) ==
  Sbull!Covers(bio) \cup (IF m = "RM_SIMPLE" THEN {}
                        ELSE bio.sector .. bio.sector + Len(bio.segs) * bio.segs[1] - 1)
TurnOf(bio, m, k) == IF m = "RM_SIMPLE" THEN bio.segs[k] ELSE bio.segs[1]

(* A write goes from 0 to its total in turns of a sector at least,        *)
(* touches on its way only what it may touch, and covers what the bio     *)
(* says when each turn is as long as its segment (sbull.c:126-187).       *)
LEMMA Steps ==
  ASSUME NEW bio \in Writes, NEW m
  PROVE  /\ bio.sector \in Nat /\ Len(bio.segs) \in Nat \ {0}
         /\ At(bio, m, 0) = 0
         /\ \A k \in 0..Len(bio.segs) : At(bio, m, k) \in Nat /\ At(bio, m, k) =< At(bio, m, Len(bio.segs))
         /\ \A k \in 1..Len(bio.segs) :
              /\ TurnOf(bio, m, k) \in Nat \ {0}
              /\ At(bio, m, k) = At(bio, m, k - 1) + TurnOf(bio, m, k)
              /\ \A s \in bio.sector + At(bio, m, k - 1) .. bio.sector + At(bio, m, k) - 1 : s \in Touched(bio, m)
         /\ Whole(bio, m) =>
              /\ \A k \in 1..Len(bio.segs) : /\ TurnOf(bio, m, k) = bio.segs[k]
                                             /\ bio.sector + At(bio, m, k) =< Size
              /\ Sbull!Covers(bio) = bio.sector .. bio.sector + At(bio, m, Len(bio.segs)) - 1
<1> DEFINE segs == bio.segs
           n == Len(segs)
           c == segs[1]
<1>1. bio.sector \in Nat /\ segs \in Seq(Nat \ {0}) /\ segs # <<>> /\ Sbull!Covers(bio) \subseteq 0..Size - 1 /\ Size \in Nat
  BY WritesAssumption DEF Sbull!Sectors
<1>2. n \in Nat \ {0} /\ \A k \in 1..n : segs[k] \in Nat \ {0}
  BY <1>1
<1>3. c \in Nat \ {0}
  BY <1>2
<1>4. Sum(segs, 0) = 0 /\ (\A k \in 1..n : Sum(segs, k) = Sum(segs, k - 1) + segs[k])
  BY <1>1, SumSteps
<1>5. Sbull!Covers(bio) = bio.sector .. bio.sector + Sum(segs, n) - 1
  BY <1>1, SumSteps DEF Sbull!Covers
<1>6. /\ \A k \in 0..n : Sum(segs, k) \in Nat
      /\ \A k \in 0..n : Sum(segs, k) =< Sum(segs, n)
  BY <1>1, SumsUp
<1>7. Sbull!Uniform(bio) => (\A k \in 1..n : segs[k] = c) /\ \A k \in 0..n : Sum(segs, k) = k * c
  <2>1. Sbull!Uniform(bio) => \A k \in 1..n : segs[k] = c
    BY <1>1 DEF Sbull!Uniform
  <2> QED  BY <1>1, <2>1, SumsUp
<1>8. bio.sector + Sum(segs, n) =< Size
  <2>1. Sum(segs, n) \in Nat /\ Sum(segs, n) >= 1
    <3>1. n \in 1..n /\ n - 1 \in 0..n
      BY <1>2
    <3>2. Sum(segs, n) = Sum(segs, n - 1) + segs[n] /\ Sum(segs, n - 1) \in Nat /\ segs[n] \in Nat \ {0}
      BY <1>2, <1>4, <1>6, <3>1
    <3> QED  BY <3>2
  <2>2. bio.sector + Sum(segs, n) - 1 \in 0..Size - 1
    <3>1. bio.sector + Sum(segs, n) - 1 \in bio.sector .. bio.sector + Sum(segs, n) - 1
      BY <1>1, <2>1
    <3> QED  BY <1>1, <1>5, <3>1
  <2> QED  BY <1>1, <2>1, <2>2
<1>9. ASSUME NEW k \in 1..n
      PROVE  k * c \in Nat /\ k * c =< n * c /\ k * c = (k - 1) * c + c /\ (k - 1) * c \in Nat
  BY <1>2, <1>3
<1>10. ASSUME m = "RM_SIMPLE"
       PROVE  /\ \A k : At(bio, m, k) = Sum(segs, k) /\ TurnOf(bio, m, k) = segs[k]
              /\ Touched(bio, m) = bio.sector .. bio.sector + Sum(segs, n) - 1
  BY <1>5, <1>10 DEF At, TurnOf, Touched
<1>11. ASSUME m # "RM_SIMPLE"
       PROVE  /\ \A k : At(bio, m, k) = k * c /\ TurnOf(bio, m, k) = c
              /\ \A s \in bio.sector .. bio.sector + n * c - 1 : s \in Touched(bio, m)
  BY <1>11 DEF At, TurnOf, Touched
<1> DEFINE first == bio.sector
<1> HIDE DEF segs, n, c, first
<1>12. CASE m = "RM_SIMPLE"
  <2>1. ASSUME NEW k \in 1..n PROVE k - 1 \in 0..n /\ k \in 0..n
    BY <1>2
  <2>2. ASSUME NEW k \in 1..n, NEW s \in first + Sum(segs, k - 1) .. first + Sum(segs, k) - 1
        PROVE  s \in first .. first + Sum(segs, n) - 1
    <3>1. Sum(segs, k - 1) \in Nat /\ Sum(segs, k) \in Nat /\ Sum(segs, k) =< Sum(segs, n) /\ Sum(segs, n) \in Nat
      BY <1>2, <1>6, <2>1
    <3>2. first \in Nat
      BY <1>1 DEF first
    <3> QED  BY <3>1, <3>2
  <2>3. \A k \in 1..n : first + Sum(segs, k) =< Size
    <3> SUFFICES ASSUME NEW k \in 1..n PROVE first + Sum(segs, k) =< Size
      OBVIOUS
    <3>1. Sum(segs, k) \in Nat /\ Sum(segs, k) =< Sum(segs, n) /\ Sum(segs, n) \in Nat /\ first \in Nat /\ Size \in Nat
      BY <1>1, <1>2, <1>6, <2>1 DEF first
    <3> QED  BY <1>8, <3>1 DEF first
  <2>4. \A k \in 1..n : \A s \in first + At(bio, m, k - 1) .. first + At(bio, m, k) - 1 : s \in Touched(bio, m)
    BY <1>10, <1>12, <2>2 DEF first
  <2>5. /\ At(bio, m, 0) = 0 /\ \A k \in 0..n : At(bio, m, k) \in Nat /\ At(bio, m, k) =< At(bio, m, n)
        /\ \A k \in 1..n : At(bio, m, k) = At(bio, m, k - 1) + TurnOf(bio, m, k) /\ TurnOf(bio, m, k) \in Nat \ {0}
        /\ \A k \in 1..n : TurnOf(bio, m, k) = segs[k] /\ first + At(bio, m, k) =< Size
        /\ Sbull!Covers(bio) = first .. first + At(bio, m, n) - 1
    <3>1. \A k : At(bio, m, k) = Sum(segs, k) /\ TurnOf(bio, m, k) = segs[k]
      BY <1>10, <1>12
    <3>2. At(bio, m, 0) = 0 /\ \A k \in 0..n : At(bio, m, k) \in Nat /\ At(bio, m, k) =< At(bio, m, n)
      BY <1>4, <1>6, <3>1
    <3>3. \A k \in 1..n : At(bio, m, k) = At(bio, m, k - 1) + TurnOf(bio, m, k) /\ TurnOf(bio, m, k) \in Nat \ {0}
      BY <1>2, <1>4, <3>1
    <3>4. \A k \in 1..n : TurnOf(bio, m, k) = segs[k] /\ first + At(bio, m, k) =< Size
      BY <2>3, <3>1
    <3>5. Sbull!Covers(bio) = first .. first + At(bio, m, n) - 1
      BY <1>5, <3>1 DEF first
    <3> QED  BY <3>2, <3>3, <3>4, <3>5
  <2> QED  BY <1>1, <1>2, <2>4, <2>5, Zenon DEF first, segs, n
<1>13. CASE m # "RM_SIMPLE"
  <2>1. \A k : At(bio, m, k) = k * c /\ TurnOf(bio, m, k) = c
    BY <1>11, <1>13
  <2>2. ASSUME NEW k \in 1..n, NEW s \in first + (k - 1) * c .. first + k * c - 1
        PROVE  s \in first .. first + n * c - 1
    <3>1. k * c \in Nat /\ k * c =< n * c /\ (k - 1) * c \in Nat /\ n * c \in Nat /\ first \in Nat
      BY <1>1, <1>2, <1>3, <1>9 DEF first
    <3> QED  BY <3>1
  <2>3. \A k \in 1..n : \A s \in first + At(bio, m, k - 1) .. first + At(bio, m, k) - 1 : s \in Touched(bio, m)
    <3> SUFFICES ASSUME NEW k \in 1..n, NEW s \in first + At(bio, m, k - 1) .. first + At(bio, m, k) - 1
                 PROVE  s \in Touched(bio, m)
      OBVIOUS
    <3>1. s \in first + (k - 1) * c .. first + k * c - 1
      BY <2>1
    <3> QED  BY <1>11, <1>13, <2>2, <3>1, Zenon DEF first
  <2>4. At(bio, m, 0) = 0 /\ (\A k \in 0..n : At(bio, m, k) \in Nat /\ At(bio, m, k) =< At(bio, m, n))
    <3>1. \A k \in 0..n : k * c \in Nat /\ k * c =< n * c
      BY <1>2, <1>3
    <3> QED  BY <1>2, <1>3, <2>1, <3>1
  <2>5. \A k \in 1..n : At(bio, m, k) = At(bio, m, k - 1) + TurnOf(bio, m, k) /\ TurnOf(bio, m, k) \in Nat \ {0}
    BY <1>3, <1>9, <2>1
  <2>6. ASSUME Whole(bio, m)
        PROVE  /\ \A k \in 1..n : TurnOf(bio, m, k) = segs[k] /\ first + At(bio, m, k) =< Size
               /\ Sbull!Covers(bio) = first .. first + At(bio, m, n) - 1
    <3>1. (\A k \in 1..n : segs[k] = c) /\ \A k \in 0..n : Sum(segs, k) = k * c
      BY <1>7, <1>13, <2>6 DEF Whole
    <3>2. n \in 0..n /\ \A k \in 1..n : k \in 0..n
      BY <1>2
    <3>3. \A k \in 0..n : At(bio, m, k) = Sum(segs, k)
      BY <2>1, <3>1
    <3>4. \A k \in 1..n : first + At(bio, m, k) =< Size
      <4> SUFFICES ASSUME NEW k \in 1..n PROVE first + At(bio, m, k) =< Size
        OBVIOUS
      <4>1. /\ Sum(segs, k) \in Nat /\ Sum(segs, k) =< Sum(segs, n) /\ Sum(segs, n) \in Nat
            /\ first \in Nat /\ Size \in Nat /\ At(bio, m, k) = Sum(segs, k)
        BY <1>1, <1>6, <3>2, <3>3 DEF first
      <4> QED  BY <1>8, <4>1 DEF first
    <3>5. Sbull!Covers(bio) = first .. first + At(bio, m, n) - 1
      BY <1>5, <3>2, <3>3 DEF first
    <3> QED  BY <2>1, <3>1, <3>4, <3>5, Zenon
  <2> QED  BY <1>1, <1>2, <2>3, <2>4, <2>5, <2>6, Zenon DEF first, segs, n
<1> QED  BY <1>12, <1>13

(* The disk with its data, the writes in flight and what each sector should *)
(* hold: what a write may touch is marked, two writes overlap only if both  *)
(* know it, and a write that nobody crosses has its data where it has been. *)
Going(calls, p) == calls[p].pc = "write"
Placed(m, calls) ==
  \A p \in Procs : Going(calls, p) =>
    /\ calls[p].bio \in Writes /\ calls[p].i \in 1..Len(calls[p].bio.segs)
    /\ calls[p].done = At(calls[p].bio, m, calls[p].i - 1) /\ calls[p].mixed \in BOOLEAN
Marked(m, calls, seen) ==
  \A p \in Procs, s \in Sbull!Sectors :
    Going(calls, p) /\ s \in Touched(calls[p].bio, m) => seen[s] = Sbull!Holds("any")
Apart(m, calls) ==
  \A p, q \in Procs :
    p # q /\ Going(calls, p) /\ Going(calls, q) /\ ~calls[p].mixed =>
      Touched(calls[p].bio, m) \cap Touched(calls[q].bio, m) = {}
Written(m, data, calls) ==
  \A p \in Procs :
    Going(calls, p) /\ ~calls[p].mixed /\ Whole(calls[p].bio, m) =>
      \A s \in calls[p].bio.sector .. calls[p].bio.sector + calls[p].done - 1 : data[s] = p
Kept(data, seen) ==
  \A s \in Sbull!Sectors : seen[s].uneven \/ seen[s].by \in {"any", data[s]}
Disk(m, data, calls, seen) ==
  /\ m = "none" => \A p \in Procs : calls[p].pc = "out"
  /\ Placed(m, calls) /\ Marked(m, calls, seen) /\ Apart(m, calls) /\ Written(m, data, calls)
  /\ Kept(data, seen)

(* Who comes or goes without a write in flight leaves the disk alone.        *)
LEMMA DiskOther ==
  ASSUME NEW m, NEW data, NEW calls, NEW seen, Disk(m, data, calls, seen), m # "none",
         NEW p \in Procs, NEW calls2, ~Going(calls2, p), \A q \in Procs \ {p} : calls2[q] = calls[q]
  PROVE  Disk(m, data, calls2, seen)
<1>1. \A q \in Procs : Going(calls2, q) => q # p /\ Going(calls, q) /\ calls2[q] = calls[q]
  BY DEF Going
<1>2. Placed(m, calls2)
  BY <1>1, Zenon DEF Disk, Placed
<1>3. Marked(m, calls2, seen)
  BY <1>1, Zenon DEF Disk, Marked
<1>4. Apart(m, calls2)
  BY <1>1, Zenon DEF Disk, Apart
<1>5. Written(m, data, calls2)
  BY <1>1, Zenon DEF Disk, Written
<1> QED  BY <1>2, <1>3, <1>4, <1>5 DEF Disk

(* A write is handed in.                                                    *)
Submitted(m, calls, seen, p, bio, cross, calls2, seen2) ==
  /\ m # "none" /\ ~Going(calls, p)
  /\ cross = {q \in Procs \ {p} : Going(calls, q) /\ Touched(calls[q].bio, m) \cap Touched(bio, m) # {}}
  /\ calls2[p] = [pc |-> "write", bio |-> bio, done |-> 0, i |-> 1, mixed |-> cross # {}]
  /\ \A q \in Procs \ {p} :
       /\ calls2[q].pc = calls[q].pc /\ calls2[q].bio = calls[q].bio
       /\ calls2[q].done = calls[q].done /\ calls2[q].i = calls[q].i
       /\ calls2[q].mixed = (calls[q].mixed \/ q \in cross)
  /\ \A s \in Sbull!Sectors : seen2[s] = IF s \in Touched(bio, m) THEN Sbull!Holds("any") ELSE seen[s]

(* It crosses the writes it has sectors in common with, and nobody can    *)
(* tell any more what these sectors will hold.                            *)
LEMMA DiskSubmit ==
  ASSUME NEW m, NEW data, NEW calls, NEW seen, Disk(m, data, calls, seen), NEW p \in Procs, NEW bio \in Writes,
         NEW cross, NEW calls2, NEW seen2, Submitted(m, calls, seen, p, bio, cross, calls2, seen2)
  PROVE  Disk(m, data, calls2, seen2)
<1>0. /\ m # "none" /\ ~Going(calls, p)
      /\ cross = {q \in Procs \ {p} : Going(calls, q) /\ Touched(calls[q].bio, m) \cap Touched(bio, m) # {}}
      /\ calls2[p] = [pc |-> "write", bio |-> bio, done |-> 0, i |-> 1, mixed |-> cross # {}]
      /\ \A q \in Procs \ {p} :
           /\ calls2[q].pc = calls[q].pc /\ calls2[q].bio = calls[q].bio
           /\ calls2[q].done = calls[q].done /\ calls2[q].i = calls[q].i
           /\ calls2[q].mixed = (calls[q].mixed \/ q \in cross)
      /\ \A s \in Sbull!Sectors : seen2[s] = IF s \in Touched(bio, m) THEN Sbull!Holds("any") ELSE seen[s]
  BY Zenon DEF Submitted
<1>1. /\ Placed(m, calls) /\ Marked(m, calls, seen) /\ Apart(m, calls) /\ Written(m, data, calls) /\ Kept(data, seen)
  BY DEF Disk
<1>2. PICK b \in BOOLEAN : b = (cross # {})
  BY Zenon
<1>3. Going(calls2, p) /\ calls2[p].bio = bio /\ calls2[p].done = 0 /\ calls2[p].i = 1 /\ calls2[p].mixed = b
  BY <1>0, <1>2 DEF Going
<1>4. ASSUME NEW q \in Procs, q # p, Going(calls2, q)
      PROVE  /\ Going(calls, q) /\ calls2[q].bio = calls[q].bio /\ calls2[q].done = calls[q].done
             /\ calls2[q].i = calls[q].i /\ calls[q].mixed \in BOOLEAN
             /\ calls2[q].mixed = (calls[q].mixed \/ q \in cross)
  <2>1. Going(calls, q)
    BY <1>0, <1>4, Zenon DEF Going
  <2> QED  BY <1>0, <1>1, <1>4, <2>1, Zenon DEF Placed
<1>5. Placed(m, calls2)
  <2> SUFFICES ASSUME NEW q \in Procs, Going(calls2, q)
               PROVE  /\ calls2[q].bio \in Writes /\ calls2[q].i \in 1..Len(calls2[q].bio.segs)
                      /\ calls2[q].done = At(calls2[q].bio, m, calls2[q].i - 1) /\ calls2[q].mixed \in BOOLEAN
    BY Zenon DEF Placed
  <2>1. CASE q = p
    <3>1. Len(bio.segs) \in Nat \ {0} /\ At(bio, m, 0) = 0
      BY Steps, Zenon
    <3>2. 1 \in 1..Len(bio.segs) /\ 1 - 1 = 0
      BY <3>1
    <3> QED  BY <1>2, <1>3, <2>1, <3>1, <3>2, Zenon
  <2>2. CASE q # p
    BY <1>1, <1>4, <2>2, Zenon DEF Placed
  <2> QED  BY <2>1, <2>2
<1>6. Marked(m, calls2, seen2)
  <2> SUFFICES ASSUME NEW q \in Procs, NEW s \in Sbull!Sectors, Going(calls2, q), s \in Touched(calls2[q].bio, m)
               PROVE  seen2[s] = Sbull!Holds("any")
    BY Zenon DEF Marked
  <2>1. CASE q = p
    BY <1>0, <1>3, <2>1, Zenon
  <2>2. CASE q # p
    BY <1>0, <1>1, <1>4, <2>2, Zenon DEF Marked
  <2> QED  BY <2>1, <2>2
<1>7. Apart(m, calls2)
  <2> SUFFICES ASSUME NEW q \in Procs, NEW r \in Procs, q # r, Going(calls2, q), Going(calls2, r), ~calls2[q].mixed
               PROVE  Touched(calls2[q].bio, m) \cap Touched(calls2[r].bio, m) = {}
    BY Zenon DEF Apart
  <2>1. CASE q = p
    <3>1. cross = {} /\ r # p
      BY <1>2, <1>3, <2>1
    <3>2. Going(calls, r) /\ calls2[r].bio = calls[r].bio
      BY <1>4, <3>1
    <3>3. Touched(calls[r].bio, m) \cap Touched(bio, m) = {}
      BY <1>0, <3>1, <3>2, Zenon
    <3> QED  BY <1>3, <2>1, <3>2, <3>3
  <2>2. CASE q # p /\ r = p
    <3>1. q \notin cross /\ Going(calls, q) /\ calls2[q].bio = calls[q].bio
      BY <1>4, <2>2, Zenon
    <3> QED  BY <1>0, <1>3, <2>2, <3>1, Zenon
  <2>3. CASE q # p /\ r # p
    <3>1. Going(calls, q) /\ calls2[q].bio = calls[q].bio /\ ~calls[q].mixed
      BY <1>4, <2>3, Zenon
    <3>2. Going(calls, r) /\ calls2[r].bio = calls[r].bio
      BY <1>4, <2>3, Zenon
    <3> QED  BY <1>1, <3>1, <3>2, Zenon DEF Apart
  <2> QED  BY <2>1, <2>2, <2>3
<1>8. Written(m, data, calls2)
  <2> SUFFICES ASSUME NEW q \in Procs, Going(calls2, q), ~calls2[q].mixed, Whole(calls2[q].bio, m),
                      NEW s \in calls2[q].bio.sector .. calls2[q].bio.sector + calls2[q].done - 1
               PROVE  data[s] = q
    BY Zenon DEF Written
  <2>1. CASE q = p
    <3>1. bio.sector \in Nat
      BY Steps, Zenon
    <3> QED  BY <1>3, <2>1, <3>1
  <2>2. CASE q # p
    <3>1. Going(calls, q) /\ calls2[q].bio = calls[q].bio /\ calls2[q].done = calls[q].done /\ ~calls[q].mixed
      BY <1>4, <2>2, Zenon
    <3> QED  BY <1>1, <3>1, Zenon DEF Written
  <2> QED  BY <2>1, <2>2
<1>9. Kept(data, seen2)
  BY <1>0, <1>1 DEF Kept, Sbull!Holds
<1> QED  BY <1>0, <1>5, <1>6, <1>7, <1>8, <1>9, Zenon DEF Disk

(* A segment ends where the write has come to with it.                    *)
LEMMA SameEnd ==
  ASSUME NEW a \in Nat, NEW b \in Nat, NEW n \in Nat, NEW x, x = b + n
  PROVE  \A s \in a + b .. a + b + n - 1 : s \in a + b .. a + x - 1
OBVIOUS

(* One turn of a write, as Steps says: it is at done, goes n sectors on   *)
(* and stays in what it may touch.                                        *)
Stepped(bio, m, i, first, last, n, done) ==
  /\ first \in Nat /\ last \in Nat \ {0} /\ i \in Nat /\ i >= 1 /\ i =< last
  /\ done \in Nat /\ n \in Nat \ {0} /\ At(bio, m, i) = done + n
  /\ done =< At(bio, m, last) /\ At(bio, m, last) \in Nat
  /\ \A s \in first + done .. first + done + n - 1 : s \in Touched(bio, m)
  /\ Whole(bio, m) => /\ n = bio.segs[i] /\ first + done + n =< Size
                      /\ Sbull!Covers(bio) = first .. first + At(bio, m, last) - 1

LEMMA StepAt ==
  ASSUME NEW bio \in Writes, NEW m, NEW i \in 1..Len(bio.segs), NEW first, first = bio.sector,
         NEW last, last = Len(bio.segs), NEW n, n = TurnOf(bio, m, i), NEW done, done = At(bio, m, i - 1)
  PROVE  Stepped(bio, m, i, first, last, n, done)
<1>1. /\ first \in Nat /\ last \in Nat \ {0}
      /\ \A k \in 0..last : At(bio, m, k) \in Nat /\ At(bio, m, k) =< At(bio, m, last)
      /\ \A k \in 1..last :
           /\ TurnOf(bio, m, k) \in Nat \ {0}
           /\ At(bio, m, k) = At(bio, m, k - 1) + TurnOf(bio, m, k)
           /\ \A s \in first + At(bio, m, k - 1) .. first + At(bio, m, k) - 1 : s \in Touched(bio, m)
      /\ Whole(bio, m) =>
           /\ \A k \in 1..last : TurnOf(bio, m, k) = bio.segs[k] /\ first + At(bio, m, k) =< Size
           /\ Sbull!Covers(bio) = first .. first + At(bio, m, last) - 1
  BY Steps, Zenon
<1>2. i \in 1..last /\ i \in Nat /\ i >= 1 /\ i =< last /\ i - 1 \in 0..last /\ i \in 0..last /\ last \in 0..last
  BY <1>1
<1>3. /\ n \in Nat \ {0} /\ At(bio, m, i) = done + n /\ done \in Nat /\ done =< At(bio, m, last)
      /\ At(bio, m, last) \in Nat
      /\ \A s \in first + done .. first + At(bio, m, i) - 1 : s \in Touched(bio, m)
  BY <1>1, <1>2, Zenon
<1>4. first + At(bio, m, i) = first + done + n
  BY <1>1, <1>3
<1>5. Whole(bio, m) => /\ n = bio.segs[i] /\ first + At(bio, m, i) =< Size
                      /\ Sbull!Covers(bio) = first .. first + At(bio, m, last) - 1
  BY <1>1, <1>2, Zenon
<1>6. /\ \A s \in first + done .. first + done + n - 1 : s \in Touched(bio, m)
      /\ Whole(bio, m) => first + done + n =< Size
  <2>1. ASSUME NEW s \in first + done .. first + done + n - 1 PROVE s \in Touched(bio, m)
    <3>1. first \in Nat /\ done \in Nat /\ n \in Nat /\ At(bio, m, i) = done + n
      BY <1>1, <1>3
    <3>2. s \in first + done .. first + At(bio, m, i) - 1
      BY <2>1, <3>1, SameEnd
    <3> QED  BY <1>3, <3>2, Zenon
  <2>2. ASSUME Whole(bio, m) PROVE first + done + n =< Size
    <3>1. first + At(bio, m, i) =< Size
      BY <1>5, <2>2, Zenon
    <3> QED  BY <1>4, <3>1
  <2> QED  BY <2>1, <2>2
<1> QED  BY <1>1, <1>2, <1>3, <1>5, <1>6, Zenon DEF Stepped

(* A turn of a write: its segment goes where the write has come to, and the  *)
(* write goes on or is over.                                                 *)
Advanced(m, data, calls, seen, p, w, n, data2, calls2, seen2) ==
  /\ m # "none" /\ Going(calls, p) /\ w = calls[p] /\ n = TurnOf(w.bio, m, w.i)
  /\ data2 = Sbull!Transfer(data, w.bio.sector + w.done, n, w.bio.segs[w.i], p)
  /\ \A q \in Procs \ {p} : calls2[q] = calls[q]
  /\ \/ /\ w.i = Len(w.bio.segs) /\ ~Going(calls2, p)
        /\ \A s \in Sbull!Sectors :
             seen2[s] = IF s \in Sbull!Covers(w.bio) /\ ~w.mixed
                        THEN [by |-> p, uneven |-> m # "RM_SIMPLE" /\ ~Sbull!Uniform(w.bio)] ELSE seen[s]
     \/ /\ w.i # Len(w.bio.segs) /\ seen2 = seen
        /\ calls2[p].pc = "write" /\ calls2[p].bio = w.bio /\ calls2[p].mixed = w.mixed
        /\ calls2[p].i = w.i + 1 /\ calls2[p].done = w.done + n

(* It writes nothing outside what is marked and what is its own, and what *)
(* it has written before stays.                                           *)
LEMMA DiskSegment ==
  ASSUME NEW m, NEW data, NEW calls, NEW seen, Disk(m, data, calls, seen), NEW p \in Procs, NEW w, NEW n,
         NEW data2, NEW calls2, NEW seen2, Advanced(m, data, calls, seen, p, w, n, data2, calls2, seen2)
  PROVE  Disk(m, data2, calls2, seen2)
<1>0. /\ m # "none" /\ Going(calls, p) /\ w = calls[p] /\ n = TurnOf(w.bio, m, w.i)
      /\ data2 = Sbull!Transfer(data, w.bio.sector + w.done, n, w.bio.segs[w.i], p)
      /\ \A q \in Procs \ {p} : calls2[q] = calls[q]
      /\ \/ /\ w.i = Len(w.bio.segs) /\ ~Going(calls2, p)
            /\ \A s \in Sbull!Sectors :
                 seen2[s] = IF s \in Sbull!Covers(w.bio) /\ ~w.mixed
                            THEN [by |-> p, uneven |-> m # "RM_SIMPLE" /\ ~Sbull!Uniform(w.bio)] ELSE seen[s]
         \/ /\ w.i # Len(w.bio.segs) /\ seen2 = seen
            /\ calls2[p].pc = "write" /\ calls2[p].bio = w.bio /\ calls2[p].mixed = w.mixed
            /\ calls2[p].i = w.i + 1 /\ calls2[p].done = w.done + n
  BY Zenon DEF Advanced
<1>1. /\ Placed(m, calls) /\ Marked(m, calls, seen) /\ Apart(m, calls) /\ Written(m, data, calls) /\ Kept(data, seen)
  BY DEF Disk
<1>2. w.bio \in Writes /\ w.i \in 1..Len(w.bio.segs) /\ w.done = At(w.bio, m, w.i - 1) /\ w.mixed \in BOOLEAN
  BY <1>0, <1>1, Zenon DEF Placed
<1>21. PICK bio \in Writes, i \in 1..Len(w.bio.segs) : bio = w.bio /\ i = w.i
  BY <1>2, Zenon
<1>3. PICK first, last, done, from, to :
        /\ bio = w.bio /\ i = w.i /\ first = bio.sector /\ last = Len(bio.segs) /\ done = w.done
        /\ from = first + done /\ to = first + done + n
  BY <1>21, Zenon
<1>4. /\ first \in Nat /\ last \in Nat \ {0} /\ i \in Nat /\ i >= 1 /\ i =< last
      /\ done \in Nat /\ n \in Nat \ {0} /\ At(bio, m, i) = done + n
      /\ \A s \in first + done .. first + done + n - 1 : s \in Touched(bio, m)
      /\ Whole(bio, m) => /\ n = bio.segs[i] /\ first + done + n =< Size
                          /\ Sbull!Covers(bio) = first .. first + At(bio, m, last) - 1
  <2>1. i \in 1..Len(bio.segs) /\ n = TurnOf(bio, m, i) /\ done = At(bio, m, i - 1)
    BY <1>0, <1>2, <1>3, Zenon
  <2>2. Stepped(bio, m, i, first, last, n, done)
    BY <1>3, <2>1, StepAt, Zenon
  <2> QED  BY <2>2, Zenon DEF Stepped
<1>5. /\ from \in Nat /\ to \in Nat /\ to = from + n /\ from = first + done
      /\ \A s \in from .. to - 1 : s \in Touched(bio, m)
  <2>1. from = first + done /\ to = first + done + n /\ from + n = first + done + n
    BY <1>3, <1>4
  <2> QED  BY <1>4, <2>1
\* The data outside the segment stay as they are ...
<1>6. \A s \in Sbull!Sectors : s \notin from .. to - 1 => data2[s] = data[s]
  <2>1. data2 = Sbull!Transfer(data, from, n, w.bio.segs[w.i], p)
    BY <1>0, <1>3
  <2>2. CASE from + n > Size
    BY <2>1, <2>2 DEF Sbull!Transfer
  <2>3. CASE ~(from + n > Size)
    <3>1. \A s \in Sbull!Sectors : s \notin from .. from + n - 1 => data2[s] = data[s]
      BY <2>1, <2>3, Zenon DEF Sbull!Transfer
    <3> SUFFICES ASSUME NEW s \in Sbull!Sectors, s \notin from .. to - 1 PROVE data2[s] = data[s]
      OBVIOUS
    <3>2. s \notin from .. from + n - 1
      BY <1>4, <1>5
    <3> QED  BY <3>1, <3>2, Zenon
  <2> QED  BY <2>2, <2>3
\* ... and inside it they are p's, when the bio is transferred as it is.
<1>7. ASSUME Whole(bio, m), NEW s \in from .. to - 1
      PROVE  s \in Sbull!Sectors /\ data2[s] = p
  <2>1. n = bio.segs[i] /\ to =< Size
    BY <1>3, <1>4, <1>7, Zenon
  <2>2. data2 = Sbull!Transfer(data, from, n, n, p)
    BY <1>0, <1>3, <2>1, Zenon
  <2>3. ~(from + n > Size) /\ s \in from .. from + n - 1 /\ s - from < n /\ s \in 0..Size - 1
    <3>1. Size \in Nat
      BY WritesAssumption
    <3>2. n \in Nat /\ from \in Nat /\ to \in Nat /\ to = from + n /\ to =< Size
      BY <1>4, <1>5, <2>1
    <3>3. s \in from .. to - 1
      BY <1>7
    <3> QED  BY <3>1, <3>2, <3>3
  <2> QED  BY <2>2, <2>3, Zenon DEF Sbull!Transfer, Sbull!Sectors
<1>8. \A s \in Sbull!Sectors : s \in from .. to - 1 => seen[s] = Sbull!Holds("any")
  BY <1>0, <1>1, <1>3, <1>5, Zenon DEF Marked
\* Nobody else's write is touched, if it does not know of a crossing one.
<1>9. ASSUME NEW q \in Procs, q # p, Going(calls, q), ~calls[q].mixed, Whole(calls[q].bio, m),
             NEW s \in calls[q].bio.sector .. calls[q].bio.sector + calls[q].done - 1
      PROVE  data2[s] = q
  <2> DEFINE b == calls[q].bio
             k == calls[q].i
  <2>1. b \in Writes /\ k \in 1..Len(b.segs) /\ calls[q].done = At(b, m, k - 1)
    BY <1>1, <1>9, Zenon DEF Placed
  <2>2. /\ b.sector \in Nat /\ calls[q].done \in Nat /\ calls[q].done =< At(b, m, Len(b.segs)) /\ At(b, m, Len(b.segs)) \in Nat
        /\ Sbull!Covers(b) = b.sector .. b.sector + At(b, m, Len(b.segs)) - 1
    <3> HIDE DEF b, k
    <3>1. Whole(b, m)
      BY <1>9 DEF b
    <3>2. PICK start, end, n1, past :
            b \in Writes /\ k \in 1..Len(b.segs) /\ start = b.sector /\ end = Len(b.segs)
              /\ n1 = TurnOf(b, m, k) /\ past = At(b, m, k - 1)
      BY <2>1, Zenon
    <3>3. /\ start \in Nat /\ past \in Nat /\ past =< At(b, m, end) /\ At(b, m, end) \in Nat
          /\ Sbull!Covers(b) = start .. start + At(b, m, end) - 1
      <4>1. Stepped(b, m, k, start, end, n1, past)
        BY <3>2, StepAt, Zenon
      <4> QED  BY <3>1, <4>1, Zenon DEF Stepped
    <3> QED  BY <2>1, <3>2, <3>3, Zenon
  <2>3. s \in Sbull!Covers(b)
    BY <1>9, <2>2
  <2>4. s \in Sbull!Sectors /\ s \in Touched(b, m)
    BY <2>1, <2>3, WritesAssumption DEF Touched
  <2>5. Touched(b, m) \cap Touched(bio, m) = {}
    BY <1>0, <1>1, <1>3, <1>9, Zenon DEF Apart
  <2>6. s \notin from .. to - 1
    BY <1>5, <2>4, <2>5
  <2>7. data[s] = q
    BY <1>1, <1>9, Zenon DEF Written
  <2> QED  BY <1>6, <2>4, <2>6, <2>7
<1>10. ASSUME i = last, ~Going(calls2, p),
              \A s \in Sbull!Sectors :
                seen2[s] = IF s \in Sbull!Covers(bio) /\ ~w.mixed
                           THEN [by |-> p, uneven |-> m # "RM_SIMPLE" /\ ~Sbull!Uniform(bio)] ELSE seen[s]
       PROVE  Disk(m, data2, calls2, seen2)
  <2>1. \A q \in Procs : Going(calls2, q) => q # p /\ Going(calls, q) /\ calls2[q] = calls[q]
    BY <1>0, <1>10, Zenon DEF Going
  <2>2. Placed(m, calls2) /\ Apart(m, calls2)
    BY <1>1, <2>1, Zenon DEF Placed, Apart
  <2>3. Written(m, data2, calls2)
    BY <1>9, <2>1, Zenon DEF Written
  <2>4. Marked(m, calls2, seen2)
    <3> SUFFICES ASSUME NEW q \in Procs, NEW s \in Sbull!Sectors, Going(calls2, q), s \in Touched(calls2[q].bio, m)
                 PROVE  seen2[s] = Sbull!Holds("any")
      BY Zenon DEF Marked
    <3>1. q # p /\ Going(calls, q) /\ s \in Touched(calls[q].bio, m)
      BY <2>1, Zenon
    <3>2. seen[s] = Sbull!Holds("any")
      BY <1>1, <3>1, Zenon DEF Marked
    <3>3. CASE s \in Sbull!Covers(bio) /\ ~w.mixed
      <4>1. Touched(bio, m) \cap Touched(calls[q].bio, m) = {}
        BY <1>0, <1>1, <1>3, <3>1, <3>3, Zenon DEF Apart
      <4>2. s \in Touched(bio, m)
        BY <3>3 DEF Touched
      <4> QED  BY <3>1, <4>1, <4>2
    <3>4. CASE ~(s \in Sbull!Covers(bio) /\ ~w.mixed)
      BY <1>10, <3>2, <3>4, Zenon
    <3> QED  BY <3>3, <3>4
  <2>5. Kept(data2, seen2)
    <3> SUFFICES ASSUME NEW s \in Sbull!Sectors PROVE seen2[s].uneven \/ seen2[s].by \in {"any", data2[s]}
      BY Zenon DEF Kept
    <3>1. CASE s \in Sbull!Covers(bio) /\ ~w.mixed
      <4>1. seen2[s] = [by |-> p, uneven |-> m # "RM_SIMPLE" /\ ~Sbull!Uniform(bio)]
        BY <1>10, <3>1, Zenon
      <4>2. CASE ~Whole(bio, m)
        <5>1. PICK u \in BOOLEAN : u = (m # "RM_SIMPLE" /\ ~Sbull!Uniform(bio))
          BY Zenon
        <5>2. seen2[s].uneven = u
          BY <4>1, <5>1
        <5> QED  BY <4>2, <5>1, <5>2, Zenon DEF Whole
      <4>3. CASE Whole(bio, m)
        <5>1. Sbull!Covers(bio) = first .. to - 1
          <6>1. At(bio, m, last) = done + n /\ to = first + done + n
            BY <1>3, <1>4, <1>10
          <6>2. first + At(bio, m, last) = to
            BY <1>4, <6>1
          <6>3. Sbull!Covers(bio) = first .. first + At(bio, m, last) - 1
            BY <1>4, <4>3, Zenon
          <6>4. first + At(bio, m, last) - 1 = to - 1
            BY <1>4, <6>1
          <6> QED  BY <6>3, <6>4, Zenon
        <5>2. CASE s \in from .. to - 1
          BY <1>7, <4>1, <4>3, <5>2
        <5>3. CASE s \notin from .. to - 1
          <6>1. s \in first .. first + done - 1
            BY <1>4, <1>5, <3>1, <5>1, <5>3
          <6>2. data[s] = p
            BY <1>0, <1>1, <1>3, <3>1, <4>3, <6>1, Zenon DEF Written
          <6> QED  BY <1>6, <4>1, <5>3, <6>2
        <5> QED  BY <5>2, <5>3
      <4> QED  BY <4>2, <4>3
    <3>2. CASE ~(s \in Sbull!Covers(bio) /\ ~w.mixed)
      <4>1. seen2[s] = seen[s]
        BY <1>10, <3>2, Zenon
      <4>2. CASE s \in from .. to - 1
        BY <1>8, <4>1, <4>2 DEF Sbull!Holds
      <4>3. CASE s \notin from .. to - 1
        BY <1>1, <1>6, <4>1, <4>3, Zenon DEF Kept
      <4> QED  BY <4>2, <4>3
    <3> QED  BY <3>1, <3>2
  <2> QED  BY <1>0, <2>2, <2>3, <2>4, <2>5, Zenon DEF Disk
<1>11. ASSUME i # last, seen2 = seen, calls2[p].pc = "write", calls2[p].bio = bio, calls2[p].mixed = w.mixed,
              calls2[p].i = i + 1, calls2[p].done = done + n
       PROVE  Disk(m, data2, calls2, seen2)
  <2>1. /\ Going(calls2, p) /\ \A q \in Procs : Going(calls2, q) => Going(calls, q)
        /\ \A q \in Procs \ {p} : calls2[q] = calls[q]
        /\ \A q \in Procs : calls2[q].bio = calls[q].bio /\ calls2[q].mixed = calls[q].mixed
    BY <1>0, <1>3, <1>11, Zenon DEF Going
  <2>2. Placed(m, calls2)
    <3>1. i + 1 \in 1..last /\ (i + 1) - 1 = i
      BY <1>4, <1>11
    <3>2. done + n = At(bio, m, i)
      BY <1>4, Zenon
    <3>3. /\ calls2[p].bio \in Writes /\ calls2[p].i \in 1..Len(calls2[p].bio.segs)
          /\ calls2[p].done = At(calls2[p].bio, m, calls2[p].i - 1) /\ calls2[p].mixed \in BOOLEAN
      BY <1>2, <1>3, <1>11, <3>1, <3>2, Zenon
    <3> QED  BY <1>1, <2>1, <3>3, Zenon DEF Placed
  <2>3. Marked(m, calls2, seen2)
    BY <1>1, <1>11, <2>1, Zenon DEF Marked
  <2>4. Apart(m, calls2)
    BY <1>1, <2>1, Zenon DEF Apart
  <2>5. Written(m, data2, calls2)
    <3> SUFFICES ASSUME NEW q \in Procs, Going(calls2, q), ~calls2[q].mixed, Whole(calls2[q].bio, m),
                        NEW s \in calls2[q].bio.sector .. calls2[q].bio.sector + calls2[q].done - 1
                 PROVE  data2[s] = q
      BY Zenon DEF Written
    <3>1. CASE q # p
      BY <1>9, <2>1, <3>1, Zenon
    <3>2. CASE q = p
      <4>1. Whole(bio, m) /\ ~w.mixed /\ s \in first .. first + (done + n) - 1
        BY <1>3, <1>11, <3>2, Zenon
      <4>2. CASE s \in from .. to - 1
        BY <1>7, <3>2, <4>1, <4>2, Zenon
      <4>3. CASE s \notin from .. to - 1
        <5>1. s \in first .. first + done - 1 /\ s \in 0..Size - 1
          <6>1. first + done + n =< Size /\ Size \in Nat
            BY <1>4, <4>1, WritesAssumption
          <6> QED  BY <1>4, <1>5, <4>1, <4>3, <6>1
        <5>2. data[s] = p
          BY <1>0, <1>1, <1>3, <4>1, <5>1, Zenon DEF Written
        <5> QED  BY <1>6, <3>2, <4>3, <5>1, <5>2, Zenon DEF Sbull!Sectors
      <4> QED  BY <4>2, <4>3
    <3> QED  BY <3>1, <3>2
  <2>6. Kept(data2, seen2)
    <3> SUFFICES ASSUME NEW s \in Sbull!Sectors PROVE seen[s].uneven \/ seen[s].by \in {"any", data2[s]}
      BY <1>11, Zenon DEF Kept
    <3>1. CASE s \in from .. to - 1
      BY <1>8, <3>1 DEF Sbull!Holds
    <3>2. CASE s \notin from .. to - 1
      BY <1>1, <1>6, <3>2, Zenon DEF Kept
    <3> QED  BY <3>1, <3>2
  <2> QED  BY <1>0, <2>2, <2>3, <2>4, <2>5, <2>6, Zenon DEF Disk
<1> QED  BY <1>0, <1>3, <1>10, <1>11, Zenon

(* The disk of the driver, as Disk says.                                  *)
SbullDisk == Disk(sbull.mode, sbullData, sbullProc, sbullSeen)

(* With no write in flight, only what is on the disk counts.              *)
LEMMA DiskQuiet ==
  ASSUME NEW m, NEW data, NEW calls, NEW seen, Kept(data, seen),
         \A p \in Procs : ~Going(calls, p), m = "none" => \A p \in Procs : calls[p].pc = "out"
  PROVE  Disk(m, data, calls, seen)
BY DEF Disk, Placed, Marked, Apart, Written

(* The disk is blank at first.                                            *)
LEMMA DiskInit ==
  ASSUME Sbull!Init
  PROVE  SbullDisk
<1>1. \A p \in Procs : sbullProc[p].pc = "out"
  BY DEF Sbull!Init, Sbull!Outside
<1>2. \A p \in Procs : ~Going(sbullProc, p)
  BY <1>1 DEF Going
<1>3. Kept(sbullData, sbullSeen)
  BY DEF Sbull!Init, Kept, Sbull!Holds
<1> QED  BY <1>1, <1>2, <1>3, DiskQuiet DEF SbullDisk

(* Every step of the driver keeps the disk (sbull.c:85-275): the medium   *)
(* is erased only while nobody has the device open.                       *)
LEMMA DiskSteps ==
  ASSUME SbullInv, SbullDisk, Sbull!Next
  PROVE  Disk(sbull'.mode, sbullData', sbullProc', sbullSeen')
<1> DEFINE m == sbull.mode
<1>0. /\ SbullFields /\ SbullMedia /\ Disk(m, sbullData, sbullProc, sbullSeen)
      /\ m = "none" => \A p \in Procs : sbullProc[p].pc = "out"
      /\ Kept(sbullData, sbullSeen)
  BY DEF SbullInv, SbullDisk, Disk
<1>1. ASSUME Sbull!Setup \/ Sbull!Exit PROVE Disk(sbull'.mode, sbullData', sbullProc', sbullSeen')
  <2>1. /\ \A p \in Procs : sbullProc[p].pc = "out"
        /\ sbullData' = sbullData /\ sbullProc' = sbullProc /\ sbullSeen' = sbullSeen
    BY <1>0, <1>1, Zenon DEF Sbull!Setup, Sbull!Exit
  <2>2. \A p \in Procs : ~Going(sbullProc, p)
    BY <2>1 DEF Going
  <2>3. Disk(sbull'.mode, sbullData, sbullProc, sbullSeen)
    BY <1>0, <2>1, <2>2, DiskQuiet
  <2> QED  BY <2>1, <2>3, Zenon
<1>2. ASSUME Sbull!Invalidate PROVE Disk(sbull'.mode, sbullData', sbullProc', sbullSeen')
  <2>1. sbull'.mode = m /\ sbullData' = sbullData /\ sbullProc' = sbullProc /\ sbullSeen' = sbullSeen
    BY <1>0, <1>2 DEF SbullFields, Sbull!Invalidate
  <2> QED  BY <1>0, <2>1, Zenon
<1>3. ASSUME NEW p \in Procs, Sbull!OpenTimer(p) \/ Sbull!Release(p)
      PROVE  Disk(sbull'.mode, sbullData', sbullProc', sbullSeen')
  <2>1. /\ sbull'.mode = m /\ sbullData' = sbullData /\ sbullSeen' = sbullSeen
        /\ sbullProc'[p].pc # "write" /\ \A q \in Procs \ {p} : sbullProc'[q] = sbullProc[q]
    <3>1. CASE Sbull!OpenTimer(p)
      BY <1>0, <3>1 DEF SbullFields, Sbull!OpenTimer
    <3>2. CASE Sbull!Release(p)
      BY <1>0, <3>2 DEF SbullFields, Sbull!Release, Sbull!Outside
    <3> QED  BY <1>3, <3>1, <3>2
  <2>2. m # "none"
    BY <1>0, <1>3 DEF Sbull!OpenTimer, Sbull!Release
  <2>3. ~Going(sbullProc', p)
    BY <2>1 DEF Going
  <2>4. Disk(m, sbullData, sbullProc', sbullSeen)
    BY <1>0, <2>1, <2>2, <2>3, DiskOther
  <2> QED  BY <2>1, <2>4, Zenon
<1>4. ASSUME NEW p \in Procs, Sbull!OpenLocked(p)
      PROVE  Disk(sbull'.mode, sbullData', sbullProc', sbullSeen')
  <2>1. /\ sbull'.mode = m /\ sbullProc[p].pc = "lock" /\ sbullProc'[p].pc = "in"
        /\ \A q \in Procs \ {p} : sbullProc'[q] = sbullProc[q]
    BY <1>0, <1>4 DEF SbullFields, Sbull!OpenLocked
  <2>2. m # "none"
    BY <1>0, <2>1
  <2>3. ~Going(sbullProc', p)
    BY <2>1 DEF Going
  <2>4. CASE sbull.users = 0 /\ sbull.media_change
    <3>1. sbullData' = [s \in Sbull!Sectors |-> "blank"] /\ sbullSeen' = [s \in Sbull!Sectors |-> Sbull!Holds("blank")]
      BY <1>4, <2>4, Zenon DEF Sbull!OpenLocked
    <3>2. Kept(sbullData', sbullSeen')
      BY <3>1 DEF Kept, Sbull!Holds
    <3>3. ASSUME NEW q \in Procs, Going(sbullProc', q) PROVE FALSE
      <4>1. q # p /\ sbullProc[q].pc = "write"
        BY <2>1, <2>3, <3>3 DEF Going
      <4>2. Cardinality(Opened(sbullProc)) > 0
        BY <4>1, OpenedOne
      <4> QED  BY <1>0, <2>4, <4>2 DEF SbullMedia
    <3> QED  BY <2>1, <2>2, <3>2, <3>3, DiskQuiet
  <2>5. CASE ~(sbull.users = 0 /\ sbull.media_change)
    <3>1. sbullData' = sbullData /\ sbullSeen' = sbullSeen
      BY <1>4, <2>5, Zenon DEF Sbull!OpenLocked
    <3>2. Disk(m, sbullData, sbullProc', sbullSeen)
      BY <1>0, <2>1, <2>2, <2>3, DiskOther
    <3> QED  BY <2>1, <3>1, <3>2, Zenon
  <2> QED  BY <2>4, <2>5
<1>5. ASSUME NEW p \in Procs, Sbull!Submit(p)
      PROVE  Disk(sbull'.mode, sbullData', sbullProc', sbullSeen')
  <2>0. \A b : Sbull!Crossing(p, b) \in SUBSET Procs
    BY DEF Sbull!Crossing
  <2>1. PICK bio \in Writes, cross \in SUBSET Procs :
          /\ cross = Sbull!Crossing(p, bio)
          /\ sbullProc' = [q \in Procs |->
                IF q = p THEN [pc |-> "write", bio |-> bio, done |-> 0, i |-> 1, mixed |-> cross # {}]
                ELSE [sbullProc[q] EXCEPT !.mixed = @ \/ q \in cross]]
          /\ sbullSeen' = [s \in Sbull!Sectors |->
                IF s \in Sbull!Reach(bio) THEN Sbull!Holds("any") ELSE sbullSeen[s]]
    BY <1>5, <2>0, Zenon DEF Sbull!Submit
  <2>2. \A b : Sbull!Reach(b) = Touched(b, m)
    BY DEF Sbull!Reach, Touched
  <2>3. cross = {q \in Procs \ {p} : Going(sbullProc, q) /\ Touched(sbullProc[q].bio, m) \cap Touched(bio, m) # {}}
    BY <2>1, <2>2 DEF Sbull!Crossing, Sbull!InFlight, Going
  <2>4. /\ sbullProc[p].pc = "in" /\ sbull' = sbull /\ sbullData' = sbullData
    BY <1>5 DEF Sbull!Submit
  <2>5. m # "none" /\ ~Going(sbullProc, p)
    BY <1>0, <2>4 DEF Going
  <2>6. sbullProc'[p] = [pc |-> "write", bio |-> bio, done |-> 0, i |-> 1, mixed |-> cross # {}]
    BY <2>1, Zenon
  <2>7. ASSUME NEW q \in Procs \ {p}
        PROVE  /\ sbullProc'[q].pc = sbullProc[q].pc /\ sbullProc'[q].bio = sbullProc[q].bio
               /\ sbullProc'[q].done = sbullProc[q].done /\ sbullProc'[q].i = sbullProc[q].i
               /\ sbullProc'[q].mixed = (sbullProc[q].mixed \/ q \in cross)
    <3>1. PICK b : b = (sbullProc[q].mixed \/ q \in cross)
      BY Zenon
    <3>2. sbullProc'[q] = [sbullProc[q] EXCEPT !.mixed = b]
      BY <2>1, <3>1, Zenon
    <3>3. "mixed" \in DOMAIN sbullProc[q]
      BY <1>0 DEF SbullFields
    <3>4. /\ sbullProc'[q].pc = sbullProc[q].pc /\ sbullProc'[q].bio = sbullProc[q].bio
          /\ sbullProc'[q].done = sbullProc[q].done /\ sbullProc'[q].i = sbullProc[q].i /\ sbullProc'[q].mixed = b
      BY <3>2, <3>3
    <3> QED  BY <3>1, <3>4, Zenon
  <2>8. \A s \in Sbull!Sectors : sbullSeen'[s] = IF s \in Touched(bio, m) THEN Sbull!Holds("any") ELSE sbullSeen[s]
    BY <2>1, <2>2, Zenon
  <2>9. Submitted(m, sbullProc, sbullSeen, p, bio, cross, sbullProc', sbullSeen')
    BY <2>3, <2>5, <2>6, <2>7, <2>8, Zenon DEF Submitted
  <2>10. Disk(m, sbullData, sbullProc', sbullSeen')
    BY <1>0, <2>9, DiskSubmit, Zenon
  <2> QED  BY <2>4, <2>10, Zenon
<1>6. ASSUME NEW p \in Procs, Sbull!Request(p) \/ Sbull!FullRequest(p) \/ Sbull!MakeRequest(p)
      PROVE  Disk(sbull'.mode, sbullData', sbullProc', sbullSeen')
  <2>1. PICK w, n :
          /\ w = sbullProc[p] /\ n = TurnOf(w.bio, m, w.i)
          /\ w.pc = "write" /\ sbull' = sbull /\ Sbull!Segment(p, n)
    BY <1>6 DEF Sbull!Request, Sbull!FullRequest, Sbull!MakeRequest, Sbull!XferBio, Sbull!InFlight, TurnOf
  <2>2. sbullData' = Sbull!Transfer(sbullData, w.bio.sector + w.done, n, w.bio.segs[w.i], p)
    BY <2>1, Zenon DEF Sbull!Segment
  <2>3. m # "none" /\ Going(sbullProc, p)
    BY <1>0, <2>1 DEF Going
  <2>4. \/ /\ w.i = Len(w.bio.segs)
           /\ sbullProc' = [sbullProc EXCEPT ![p] = [Sbull!Outside EXCEPT !.pc = "in"]]
           /\ sbullSeen' = [s \in Sbull!Sectors |->
                IF s \in Sbull!Covers(w.bio) /\ ~w.mixed
                THEN [by |-> p, uneven |-> m # "RM_SIMPLE" /\ ~Sbull!Uniform(w.bio)] ELSE sbullSeen[s]]
        \/ /\ w.i # Len(w.bio.segs) /\ sbullSeen' = sbullSeen
           /\ sbullProc' = [sbullProc EXCEPT ![p].i = @ + 1, ![p].done = @ + n]
    BY <2>1, Zenon DEF Sbull!Segment, Sbull!Complete
  <2>5. \A q \in Procs \ {p} : sbullProc'[q] = sbullProc[q]
    BY <1>0, <2>4 DEF SbullFields
  <2>6. ASSUME w.i = Len(w.bio.segs) PROVE Advanced(m, sbullData, sbullProc, sbullSeen, p, w, n, sbullData', sbullProc', sbullSeen')
    <3>1. sbullProc'[p].pc = "in"
      BY <1>0, <2>4, <2>6 DEF SbullFields, Sbull!Outside
    <3>2. ~Going(sbullProc', p)
      BY <3>1 DEF Going
    <3>3. \A s \in Sbull!Sectors :
                 sbullSeen'[s] = IF s \in Sbull!Covers(w.bio) /\ ~w.mixed
                            THEN [by |-> p, uneven |-> m # "RM_SIMPLE" /\ ~Sbull!Uniform(w.bio)] ELSE sbullSeen[s]
      BY <2>4, <2>6, Zenon
    <3> QED  BY <2>1, <2>2, <2>3, <2>5, <2>6, <3>2, <3>3, Zenon DEF Advanced
  <2>7. ASSUME w.i # Len(w.bio.segs) PROVE Advanced(m, sbullData, sbullProc, sbullSeen, p, w, n, sbullData', sbullProc', sbullSeen')
    <3>1. /\ sbullSeen' = sbullSeen
          /\ sbullProc'[p].pc = "write" /\ sbullProc'[p].bio = w.bio /\ sbullProc'[p].mixed = w.mixed
          /\ sbullProc'[p].i = w.i + 1 /\ sbullProc'[p].done = w.done + n
      BY <1>0, <2>1, <2>4, <2>7 DEF SbullFields
    <3> QED  BY <2>1, <2>2, <2>3, <2>5, <2>7, <3>1, Zenon DEF Advanced
  <2>8. Advanced(m, sbullData, sbullProc, sbullSeen, p, w, n, sbullData', sbullProc', sbullSeen')
    BY <2>6, <2>7, Zenon
  <2>9. Disk(m, sbullData', sbullProc', sbullSeen')
    BY <1>0, <2>8, DiskSegment, Zenon
  <2> QED  BY <2>1, <2>9, Zenon
<1> QED  BY <1>1, <1>2, <1>3, <1>4, <1>5, <1>6, Zenon DEF Sbull!Next

LEMMA DiskNext ==
  ASSUME SbullInv, SbullDisk, Sbull!Next
  PROVE  SbullDisk'
BY DiskSteps DEF SbullDisk

LEMMA DiskStutter ==
  ASSUME SbullDisk, UNCHANGED SbullVars
  PROVE  SbullDisk'
<1>1. Disk(sbull'.mode, sbullData', sbullProc', sbullSeen')
  BY DEF SbullDisk, SbullVars
<1> QED  BY <1>1 DEF SbullDisk

(* What it says of the properties: a sector holds what was last written   *)
(* there.                                                                 *)
LEMMA DiskSafe ==
  ASSUME SbullDisk
  PROVE  Sbull!Stored
BY DEF SbullDisk, Disk, Kept, Sbull!Stored

----------------------------------------------------------------------------
(* The invariants, in the behaviours with their drivers loaded             *)

(* TinyTty's invariant in every behaviour with that driver *)
LEMMA TinyKept == Spec => [](loaded = "tiny_tty" => TinyInv)
<1> DEFINE I == loaded = "tiny_tty" => TinyInv
<1>1. Init => I
  BY TinyInit DEF Init
<1>2. I /\ [Next]_vars => I'
  <2> SUFFICES ASSUME I, [Next]_vars, loaded' = "tiny_tty" PROVE TinyInv'
    OBVIOUS
  <2>1. loaded = "tiny_tty" /\ (TinyTty!Next \/ UNCHANGED TinyTtyVars)
    BY DEF Next, vars, Of
  <2> QED  BY <2>1, TinyNext, TinyStutter
<1> QED  BY <1>1, <1>2, PTL DEF Spec

(* TinySerial's invariant in every behaviour with that driver *)
LEMMA UartKept == Spec => [](loaded = "tiny_serial" => UartInv)
<1> DEFINE I == loaded = "tiny_serial" => UartInv
<1>1. Init => I
  BY UartInit DEF Init
<1>2. I /\ [Next]_vars => I'
  <2> SUFFICES ASSUME I, [Next]_vars, loaded' = "tiny_serial" PROVE UartInv'
    OBVIOUS
  <2>1. loaded = "tiny_serial" /\ (TinySerial!Next \/ UNCHANGED TinySerialVars)
    BY DEF Next, vars, Of
  <2> QED  BY <2>1, UartNext, UartStutter
<1> QED  BY <1>1, <1>2, PTL DEF Spec

(* Usocat's invariant in every behaviour with that driver *)
LEMMA UsocatKept == Spec => [](loaded = "usocat" => UsocatInv)
<1> DEFINE I == loaded = "usocat" => UsocatInv
<1>1. Init => I
  BY UsocatInit DEF Init
<1>2. I /\ [Next]_vars => I'
  <2> SUFFICES ASSUME I, [Next]_vars, loaded' = "usocat" PROVE UsocatInv'
    OBVIOUS
  <2>1. loaded = "usocat" /\ (Usocat!Next \/ UNCHANGED UsocatVars)
    BY DEF Next, vars, Of
  <2> QED  BY <2>1, UsocatNext, UsocatStutter
<1> QED  BY <1>1, <1>2, PTL DEF Spec

(* Sbull's invariant in every behaviour with that driver *)
LEMMA SbullKept == Spec => [](loaded = "sbull" => SbullInv /\ SbullDisk)
<1> DEFINE I == loaded = "sbull" => SbullInv /\ SbullDisk
<1>1. Init => I
  BY SbullInit, DiskInit DEF Init
<1>2. I /\ [Next]_vars => I'
  <2> SUFFICES ASSUME I, [Next]_vars, loaded' = "sbull" PROVE SbullInv' /\ SbullDisk'
    OBVIOUS
  <2>1. loaded = "sbull" /\ (Sbull!Next \/ UNCHANGED SbullVars)
    BY DEF Next, vars, Of
  <2> QED  BY <2>1, SbullNext, SbullStutter, DiskNext, DiskStutter
<1> QED  BY <1>1, <1>2, PTL DEF Spec

(* The timers of the two serial drivers run while the port is open and only *)
(* then, and find their structures (tiny_tty.c:76-180, tiny_serial.c:59-250). *)
THEOREM PortTimers == Spec => []TtyTimers
<1>1. /\ loaded = "tiny_tty" => TinyInv
      /\ loaded = "tiny_serial" => UartInv
      => TtyTimers
  BY TinySafe, UartSafe DEF TtyTimers
<1> QED  BY <1>1, TinyKept, UartKept, PTL

(* What usocat moved between the two descriptors is what comes out, in      *)
(* order, and the terminal gets its settings back (usocat.c:115-198, 310-376). *)
THEOREM SessionsEnd == Spec => []UsocatSession
<1>1. (loaded = "usocat" => UsocatInv) => UsocatSession
  BY UsocatSafe DEF UsocatSession
<1> QED  BY <1>1, UsocatKept, PTL

(* What was written on sbull stays there while it has a user, and the       *)
(* medium changes only after the last has left (sbull.c:85-275).            *)
THEOREM SectorsStay == Spec => []DiskKept
<1>1. (loaded = "sbull" => SbullInv /\ SbullDisk) => DiskKept
  BY SbullSafe, DiskSafe DEF DiskKept
<1> QED  BY <1>1, SbullKept, PTL

----------------------------------------------------------------------------
(* scullp, scullv, sculld and scullc *)

(* What the shapes that insmod and ioctl set are, and a device as Scullp   *)
(* keeps it, with the calls and the mappings.                              *)
ShapeTyped(shape) == shape.order \in Orders /\ shape.qset \in Nat \ {0}
WorkTyped(work) == work.positions \subseteq Nat /\ \A shape \in work.shapes : ShapeTyped(shape)
DeviceTyped(dev) ==
  /\ DOMAIN dev = {"up", "work", "order", "qset", "items", "dev_qset", "size", "vmas"}
  /\ WorkTyped(dev.work) /\ dev.order \in Orders /\ dev.qset \in Nat \ {0}
  /\ dev.items \in Items /\ dev.size \in Nat /\ dev.vmas \in Int
  /\ dev.up => dev.items # <<>> /\ dev.dev_qset \in Nat \ {0}
CallsTyped(calls) ==
  calls \in [Procs -> [pc : {"out", "open", "read", "write", "aio"}, order : Orders, qset : Nat]]
Reading(calls) == \A p \in Procs : calls[p].pc \in {"read", "write"} => calls[p].qset # 0
MapsTyped(maps) == maps \in [Procs -> [pc : {"no", "inc", "yes", "dec"}, vmas : Int]]
Unused(dev, calls, maps) ==
  ~dev.up => \A p \in Procs : calls[p].pc = "out" /\ maps[p] = [pc |-> "no", vmas |-> 0]

(* The arrays have the length that the device thinks unless a write was    *)
(* late, and memory is touched outside only when that is so, or beyond the *)
(* first item.                                                             *)
Memory(dev, seen) ==
  /\ Slots(dev.items)
  /\ "stale" \notin seen => Arrays(dev.items, dev.dev_qset)
  /\ "overrun" \in seen \/ "leak" \in seen => "stale" \in seen \/ "tail" \in seen

(* vmas counts the mappings unless an update was lost; a mapped device has *)
(* the order 0 unless a trim came in between.                              *)
Mapped(maps) == {p \in Procs : maps[p].pc \in {"yes", "dec"}}
Flat(dev, maps) == (\E p \in Procs : maps[p].pc = "yes") => dev.items[1].order = 0
Mapping(dev, maps, seen) ==
  /\ "lost" \notin seen => dev.vmas = Cardinality(Mapped(maps))
  /\ "torn" \notin seen /\ "raced" \notin seen => Flat(dev, maps)
  /\ "torn" \in seen \/ "kept" \in seen => "lost" \in seen
  /\ "other" \in seen => "raced" \in seen

(* What a step leaves alone                                                *)
LEMMA MemorySame ==
  ASSUME NEW dev, NEW seen, Memory(dev, seen), NEW dev2, NEW seen2, NEW things, seen2 = seen \cup things,
         dev2.items = dev.items, dev2.dev_qset = dev.dev_qset, "overrun" \notin things, "leak" \notin things
  PROVE  Memory(dev2, seen2)
BY DEF Memory

(* What a read or write finds: a device with a list, and sizes to divide   *)
(* by                                                                      *)
LEMMA Caller ==
  ASSUME NEW dev, NEW calls, NEW maps, DeviceTyped(dev), CallsTyped(calls), Reading(calls),
         Unused(dev, calls, maps), NEW p \in Procs, calls[p].pc \in {"read", "write"},
         NEW pos \in dev.work.positions
  PROVE  /\ calls[p].order \in Orders /\ calls[p].qset \in Nat \ {0} /\ dev.up /\ pos \in Nat
         /\ dev.items \in Items /\ dev.items # <<>>
         /\ dev.dev_qset \in Nat \ {0} /\ dev.size \in Nat
<1>1. calls[p].order \in Orders /\ calls[p].qset \in Nat
  BY DEF CallsTyped
<1>2. calls[p].qset # 0
  BY DEF Reading
<1>3. dev.up
  BY DEF Unused
<1>4. pos \in Nat
  BY DEF DeviceTyped, WorkTyped
<1> QED  BY <1>1, <1>2, <1>3, <1>4 DEF DeviceTyped

(* The mappings are as they were if the device counts them as before.      *)
LEMMA MappingSame ==
  ASSUME NEW dev, NEW maps, NEW seen, Mapping(dev, maps, seen), NEW dev2, NEW seen2, NEW things,
         seen2 = seen \cup things, dev2.vmas = dev.vmas, dev2.items[1].order = dev.items[1].order,
         things \cap {"torn", "kept", "other"} = {}
  PROVE  Mapping(dev2, maps, seen2)
BY DEF Mapping, Flat

(* A device with other items and another size                              *)
With(dev, items, size) == [dev EXCEPT !.items = items, !.size = size]

(* A device whose list or size was changed is one                          *)
LEMMA DeviceItems ==
  ASSUME NEW dev, DeviceTyped(dev), NEW items \in Items, items # <<>>, NEW size \in Nat
  PROVE  /\ DeviceTyped(With(dev, items, size))
         /\ With(dev, items, size).items = items /\ With(dev, items, size).size = size
         /\ With(dev, items, size).vmas = dev.vmas /\ With(dev, items, size).dev_qset = dev.dev_qset
         /\ With(dev, items, size).up = dev.up
<1> DEFINE dev2 == With(dev, items, size)
<1>1. dev2 = [f \in DOMAIN dev |-> IF f = "size" THEN size ELSE IF f = "items" THEN items ELSE dev[f]]
  BY DEF DeviceTyped, With
<1>2. /\ DOMAIN dev2 = {"up", "work", "order", "qset", "items", "dev_qset", "size", "vmas"}
      /\ dev2.up = dev.up /\ dev2.work = dev.work /\ dev2.order = dev.order /\ dev2.qset = dev.qset
      /\ dev2.items = items /\ dev2.dev_qset = dev.dev_qset /\ dev2.size = size /\ dev2.vmas = dev.vmas
  BY <1>1 DEF DeviceTyped
<1> HIDE DEF dev2
<1>3. DeviceTyped(dev2)
  BY <1>2 DEF DeviceTyped
<1> QED  BY <1>2, <1>3 DEF dev2

(* What read and write make of the device is of that form.                 *)
LEMMA DeviceWith ==
  ASSUME NEW dev, DeviceTyped(dev), NEW dev2, NEW items
  PROVE  /\ dev2 = [dev EXCEPT !.items = items] => dev2 = With(dev, items, dev.size)
         /\ \A end : dev2 = [dev EXCEPT !.items = items, !.size = IF @ < end THEN end ELSE @]
                      => dev2 = With(dev, items, IF dev.size < end THEN end ELSE dev.size)
<1>1. ASSUME dev2 = [dev EXCEPT !.items = items] PROVE dev2 = With(dev, items, dev.size)
  <2>1. DOMAIN dev = {"up", "work", "order", "qset", "items", "dev_qset", "size", "vmas"}
    BY DEF DeviceTyped
  <2>2. dev2 = [f \in DOMAIN dev |-> IF f = "items" THEN items ELSE dev[f]]
    BY <1>1, <2>1
  <2>3. With(dev, items, dev.size) =
          [f \in DOMAIN dev |-> IF f = "size" THEN dev.size ELSE IF f = "items" THEN items ELSE dev[f]]
    BY <2>1 DEF With
  <2> QED  BY <2>2, <2>3
<1>2. ASSUME NEW end, dev2 = [dev EXCEPT !.items = items, !.size = IF @ < end THEN end ELSE @]
      PROVE  dev2 = With(dev, items, IF dev.size < end THEN end ELSE dev.size)
  BY <1>2 DEF With
<1> QED  BY <1>1, <1>2

(* A trimmed device, one that was loaded, one after an ioctl and one with  *)
(* another count of mappings                                               *)
Trimmed(dev, items) == [dev EXCEPT !.items = items, !.dev_qset = dev.qset, !.size = 0]
Loaded(dev, work, shape, items) ==
  [dev EXCEPT !.up = TRUE, !.work = work, !.order = shape.order, !.qset = shape.qset,
              !.items = items, !.dev_qset = shape.qset]
Set(dev, shape) == [dev EXCEPT !.order = shape.order, !.qset = shape.qset]
Counted(dev, n) == [dev EXCEPT !.vmas = n]

(* Trim leaves a device, and whether it is loaded.                         *)
LEMMA DeviceTrimmed ==
  ASSUME NEW dev, DeviceTyped(dev), NEW items \in Items, items # <<>>
  PROVE  /\ DeviceTyped(Trimmed(dev, items)) /\ Trimmed(dev, items).up = dev.up
         /\ Trimmed(dev, items).items = items /\ Trimmed(dev, items).vmas = dev.vmas
<1> DEFINE dev2 == Trimmed(dev, items)
<1>1. dev2 = [f \in DOMAIN dev |-> IF f = "size" THEN 0 ELSE IF f = "dev_qset" THEN dev.qset
                                  ELSE IF f = "items" THEN items ELSE dev[f]]
  BY DEF DeviceTyped, Trimmed
<1>2. /\ DOMAIN dev2 = {"up", "work", "order", "qset", "items", "dev_qset", "size", "vmas"}
      /\ dev2.up = dev.up /\ dev2.work = dev.work /\ dev2.order = dev.order /\ dev2.qset = dev.qset
      /\ dev2.items = items /\ dev2.dev_qset = dev.qset /\ dev2.size = 0 /\ dev2.vmas = dev.vmas
  BY <1>1 DEF DeviceTyped
<1> HIDE DEF dev2
<1>3. DeviceTyped(dev2)
  BY <1>2 DEF DeviceTyped
<1> QED  BY <1>2, <1>3 DEF dev2

(* Load makes a device of a work load and a shape.                         *)
LEMMA DeviceLoaded ==
  ASSUME NEW dev, DeviceTyped(dev), NEW work, WorkTyped(work), NEW shape, ShapeTyped(shape),
         NEW items \in Items, items # <<>>
  PROVE  /\ DeviceTyped(Loaded(dev, work, shape, items)) /\ Loaded(dev, work, shape, items).up
         /\ Loaded(dev, work, shape, items).items = items
         /\ Loaded(dev, work, shape, items).vmas = dev.vmas
<1> DEFINE dev2 == Loaded(dev, work, shape, items)
<1>1. dev2 = [f \in DOMAIN dev |->
                IF f = "dev_qset" THEN shape.qset ELSE IF f = "items" THEN items
                ELSE IF f = "qset" THEN shape.qset ELSE IF f = "order" THEN shape.order
                ELSE IF f = "work" THEN work ELSE IF f = "up" THEN TRUE ELSE dev[f]]
  BY DEF DeviceTyped, Loaded
<1>2. /\ DOMAIN dev2 = {"up", "work", "order", "qset", "items", "dev_qset", "size", "vmas"}
      /\ dev2.up = TRUE /\ dev2.work = work /\ dev2.order = shape.order /\ dev2.qset = shape.qset
      /\ dev2.items = items /\ dev2.dev_qset = shape.qset /\ dev2.size = dev.size /\ dev2.vmas = dev.vmas
  BY <1>1 DEF DeviceTyped
<1> HIDE DEF dev2
<1>3. DeviceTyped(dev2)
  BY <1>2 DEF DeviceTyped, ShapeTyped
<1> QED  BY <1>2, <1>3 DEF dev2

(* An ioctl changes the sizes for the next trim only.                      *)
LEMMA DeviceSet ==
  ASSUME NEW dev, DeviceTyped(dev), NEW shape, ShapeTyped(shape)
  PROVE  /\ DeviceTyped(Set(dev, shape)) /\ Set(dev, shape).up = dev.up
         /\ Set(dev, shape).items = dev.items /\ Set(dev, shape).vmas = dev.vmas
         /\ Set(dev, shape).dev_qset = dev.dev_qset
<1> DEFINE dev2 == Set(dev, shape)
<1>1. dev2 = [f \in DOMAIN dev |-> IF f = "qset" THEN shape.qset ELSE IF f = "order" THEN shape.order ELSE dev[f]]
  BY DEF DeviceTyped, Set
<1>2. /\ DOMAIN dev2 = {"up", "work", "order", "qset", "items", "dev_qset", "size", "vmas"}
      /\ dev2.up = dev.up /\ dev2.work = dev.work /\ dev2.order = shape.order /\ dev2.qset = shape.qset
      /\ dev2.items = dev.items /\ dev2.dev_qset = dev.dev_qset /\ dev2.size = dev.size /\ dev2.vmas = dev.vmas
  BY <1>1 DEF DeviceTyped
<1> HIDE DEF dev2
<1>3. DeviceTyped(dev2)
  BY <1>2 DEF DeviceTyped, ShapeTyped
<1> QED  BY <1>2, <1>3 DEF dev2

(* A mapping that comes or goes changes the count only.                    *)
LEMMA DeviceCounted ==
  ASSUME NEW dev, DeviceTyped(dev), NEW n \in Int
  PROVE  /\ DeviceTyped(Counted(dev, n)) /\ Counted(dev, n).up = dev.up
         /\ Counted(dev, n).items = dev.items /\ Counted(dev, n).vmas = n
         /\ Counted(dev, n).dev_qset = dev.dev_qset
<1> DEFINE dev2 == Counted(dev, n)
<1>1. dev2 = [f \in DOMAIN dev |-> IF f = "vmas" THEN n ELSE dev[f]]
  BY DEF DeviceTyped, Counted
<1>2. /\ DOMAIN dev2 = {"up", "work", "order", "qset", "items", "dev_qset", "size", "vmas"}
      /\ dev2.up = dev.up /\ dev2.work = dev.work /\ dev2.order = dev.order /\ dev2.qset = dev.qset
      /\ dev2.items = dev.items /\ dev2.dev_qset = dev.dev_qset /\ dev2.size = dev.size /\ dev2.vmas = n
  BY <1>1 DEF DeviceTyped
<1> HIDE DEF dev2
<1>3. DeviceTyped(dev2)
  BY <1>2 DEF DeviceTyped
<1> QED  BY <1>2, <1>3 DEF dev2

(* scullp: the device, its calls and its mappings are such, with both      *)
(* parts.                                                                  *)
ScullpFits ==
  /\ DeviceTyped(scullp) /\ CallsTyped(scullpProc) /\ Reading(scullpProc) /\ MapsTyped(scullpMap)
  /\ Unused(scullp, scullpProc, scullpMap)
ScullpInv == ScullpFits /\ Memory(scullp, scullpSeen) /\ Mapping(scullp, scullpMap, scullpSeen)

(* The operators of PageItems are these.                                   *)
LEMMA ScullpPlain ==
  /\ \A items, n : Scullp!Follow(items, n) = Longer(items, n)
  /\ \A items, at, qset : Scullp!WithArray(items, at, qset) = ArrayPut(items, at.item + 1, qset)
  /\ \A items, at : Scullp!SlotAt(items, at) = InSlot(items[at.item + 1].data, at.slot)
  /\ \A items, at, size : Scullp!WithQuantum(items, at, size) = QuantumPut(items, at.item + 1, at.slot, size)
  /\ \A order : Scullp!Quantum(order) = Pages(order)
<1>1. \A items, n : Scullp!Follow(items, n) = Longer(items, n)
  BY Zenon DEF Scullp!Follow, Scullp!FreshItem, Longer, Fresh
<1>2. \A items, at, qset : Scullp!WithArray(items, at, qset) = ArrayPut(items, at.item + 1, qset)
  BY Zenon DEF Scullp!WithArray, ArrayPut
<1>3. \A items, at : Scullp!SlotAt(items, at) = InSlot(items[at.item + 1].data, at.slot)
  BY DEF Scullp!SlotAt, InSlot
<1>4. \A items, at, size : Scullp!WithQuantum(items, at, size) = QuantumPut(items, at.item + 1, at.slot, size)
  BY <1>3, Zenon DEF Scullp!WithQuantum, QuantumPut
<1>5. \A order : Scullp!Quantum(order) = Pages(order)
  BY Zenon DEF Scullp!Quantum, Pages
<1> QED  BY <1>1, <1>2, <1>3, <1>4, <1>5, Zenon

(* Where a read or a write looks                                           *)
LEMMA ScullpPlace ==
  ASSUME NEW order \in Orders, NEW qset \in Nat \ {0}, NEW pos \in Nat, NEW at,
         at = Scullp!Place(pos, Scullp!Quantum(order), qset)
  PROVE  /\ at.item \in Nat /\ at.slot \in 0..qset - 1 /\ at.off \in 0..Pages(order) - 1
         /\ Pages(order) \in Nat \ {0}
<1> DEFINE q == Pages(order)
<1>1. q \in Nat \ {0}
  BY DEF Orders
<1>2. at.item = pos \div (q * qset) /\ at.slot = (pos % (q * qset)) \div q /\ at.off = pos % q
  BY ScullpPlain DEF Scullp!Place
<1> HIDE DEF q
<1>3. at.item \in Nat /\ at.slot \in 0..qset - 1 /\ at.off \in 0..q - 1
  BY <1>1, <1>2, Placing
<1> QED  BY <1>1, <1>3 DEF q

(* The end of a call                                                       *)
LEMMA ScullpTo ==
  ASSUME CallsTyped(scullpProc), Reading(scullpProc), NEW p \in Procs, NEW l \in {"out", "open", "aio"}, Scullp!To(p, l)
  PROVE  /\ CallsTyped(scullpProc') /\ Reading(scullpProc')
         /\ scullpProc'[p] = [pc |-> l, order |-> 0, qset |-> 0]
         /\ \A r \in Procs \ {p} : scullpProc'[r] = scullpProc[r]
<1> DEFINE out == [pc |-> l, order |-> 0, qset |-> 0]
<1>1. [Scullp!Out EXCEPT !.pc = l] = out
  BY DEF Scullp!Out
<1>2. scullpProc' = [scullpProc EXCEPT ![p] = out]
  BY <1>1, Zenon DEF Scullp!To
<1>3. out \in [pc : {"out", "open", "read", "write", "aio"}, order : Orders, qset : Nat]
  BY OrderZero
<1>4. out.pc = l
  OBVIOUS
<1> HIDE DEF out
<1>5. /\ CallsTyped(scullpProc') /\ scullpProc'[p] = out
      /\ \A r \in Procs \ {p} : scullpProc'[r] = scullpProc[r]
  BY <1>2, <1>3 DEF CallsTyped
<1>6. Reading(scullpProc')
  BY <1>4, <1>5 DEF Reading
<1> QED  BY <1>5, <1>6 DEF out

(* A use of the device that only Reading and Writing disturb               *)
LEMMA ScullpFinish ==
  ASSUME ScullpFits, scullp.up, NEW p \in Procs, Scullp!Finish(p), scullpMap' = scullpMap,
         DeviceTyped(scullp'), scullp'.up
  PROVE  ScullpFits'
<1>1. CallsTyped(scullpProc') /\ Reading(scullpProc')
  <2>1. PICK l \in {"open", "aio"} : Scullp!To(p, l)
    BY DEF Scullp!Finish
  <2> QED  BY <2>1, ScullpTo DEF ScullpFits
<1>2. MapsTyped(scullpMap')
  BY DEF ScullpFits
<1>3. Unused(scullp', scullpProc', scullpMap')
  BY DEF Unused
<1> QED  BY <1>1, <1>2, <1>3 DEF ScullpFits

(* Any use of the device that touches memory outside only with an excuse   *)
LEMMA ScullpUse ==
  ASSUME ScullpInv, scullp.up, NEW p \in Procs, Scullp!Finish(p), scullpMap' = scullpMap,
         NEW list \in Items, list # <<>>, Slots(list), list[1].order = scullp.items[1].order,
         NEW size \in Nat, scullp' = With(scullp, list, size),
         NEW things, scullpSeen' = scullpSeen \cup things, things \subseteq {"overrun", "stale", "tail"},
         "overrun" \in things => "stale" \in scullpSeen \/ "stale" \in things \/ "tail" \in things,
         "stale" \notin things /\ Arrays(scullp.items, scullp.dev_qset) => Arrays(list, scullp.dev_qset)
  PROVE  ScullpInv'
<1>1. /\ DeviceTyped(scullp') /\ scullp'.items = list /\ scullp'.vmas = scullp.vmas
      /\ scullp'.dev_qset = scullp.dev_qset /\ scullp'.up
  <2>1. DeviceTyped(scullp)
    BY DEF ScullpInv, ScullpFits
  <2> DEFINE dev2 == With(scullp, list, size)
  <2>2. DeviceTyped(dev2) /\ dev2.vmas = scullp.vmas /\ dev2.dev_qset = scullp.dev_qset /\ dev2.up = scullp.up
    BY <2>1, DeviceItems, Zenon
  <2>3. scullp' = dev2 /\ dev2.items = list
    BY <2>1, DeviceItems
  <2> HIDE DEF dev2
  <2> QED  BY <2>2, <2>3
<1>2. ScullpFits'
  BY <1>1, ScullpFinish DEF ScullpInv
<1>3. Memory(scullp', scullpSeen')
  BY <1>1, Zenon DEF ScullpInv, Memory
<1>4. Mapping(scullp', scullpMap', scullpSeen')
  <2>1. things \cap {"torn", "kept", "other"} = {}
    OBVIOUS
  <2> QED  BY <1>1, <2>1, MappingSame DEF ScullpInv
<1> QED  BY <1>2, <1>3, <1>4 DEF ScullpInv

(* write goes on with the list that it followed, the array it put there    *)
(* and the quantum; only a late one puts an array of another length.       *)
LEMMA ScullpWrite ==
  ASSUME ScullpInv, NEW p \in Procs, Scullp!WriteLocked(p)
  PROVE  ScullpInv'
<1>1. PICK pos \in scullp.work.positions, count \in 1 .. 2, end \in {"ok", "noarray", "noquantum", "fault"} :
        Scullp!At(p, "write") /\ Scullp!WriteAt(p, pos, count, end)
  BY Zenon DEF Scullp!WriteLocked
<1>2. PICK my, at, followed, items, full, want :
        /\ my = scullpProc[p]
        /\ at = Scullp!Place(pos, Scullp!Quantum(my.order), my.qset)
        /\ followed = Scullp!Follow(scullp.items, at.item)
        /\ items = Scullp!WithArray(followed, at, my.qset)
        /\ full = Scullp!WithQuantum(items, at, Scullp!Quantum(items[at.item + 1].order))
        /\ want = Scullp!Cut(count, Scullp!Quantum(my.order) - at.off)
  BY Zenon
<1>3. PICK over, late :
        /\ over = Scullp!Outcome(p, at, end \in {"ok", "fault"} /\
                      (Scullp!SlotAt(full, at) < 0 \/ Scullp!Outside(at.off, want, Scullp!SlotAt(full, at))))
        /\ late = Scullp!If("stale", items # followed /\ my.qset # scullp.dev_qset)
  BY Zenon
<1>4. /\ my.pc = "write"
      /\ end = "noarray" => followed[at.item + 1].data = <<>>
      /\ end = "noquantum" => Scullp!SlotAt(items, at) = 0
      /\ \/ end = "noarray" /\ scullp' = [scullp EXCEPT !.items = followed]
         \/ end = "noquantum" /\ scullp' = [scullp EXCEPT !.items = items]
         \/ end = "fault" /\ scullp' = [scullp EXCEPT !.items = full]
         \/ /\ end = "ok"
            /\ scullp' = [scullp EXCEPT !.items = full, !.size = IF @ < pos + want THEN pos + want ELSE @]
      /\ scullpSeen' = scullpSeen \cup (over \cup late)
      /\ Scullp!Finish(p) /\ scullpMap' = scullpMap
  BY <1>1, <1>2, <1>3, Zenon DEF Scullp!At, Scullp!Saw, Scullp!WriteAt
<1>5. /\ my.order \in Orders /\ my.qset \in Nat \ {0} /\ scullp.up /\ pos \in Nat
      /\ scullp.items \in Items /\ scullp.items # <<>>
      /\ scullp.dev_qset \in Nat \ {0} /\ scullp.size \in Nat
  <2>1. /\ DeviceTyped(scullp) /\ CallsTyped(scullpProc) /\ Reading(scullpProc)
        /\ Unused(scullp, scullpProc, scullpMap)
    BY Zenon DEF ScullpInv, ScullpFits
  <2>2. scullpProc[p].pc \in {"read", "write"}
    BY <1>2, <1>4, Zenon
  <2>3. my = scullpProc[p]
    BY <1>2, Zenon
  <2> QED  BY <2>1, <2>2, <2>3, Caller
<1>6. /\ at.item \in Nat /\ at.slot \in Nat /\ at.slot \in 0..my.qset - 1 /\ at.off \in 0..Pages(my.order) - 1
      /\ Pages(my.order) \in Nat \ {0}
  <2>1. at = Scullp!Place(pos, Scullp!Quantum(my.order), my.qset)
    BY <1>2, Zenon
  <2>2. at.item \in Nat /\ at.slot \in 0..my.qset - 1 /\ at.off \in 0..Pages(my.order) - 1 /\ Pages(my.order) \in Nat \ {0}
    BY <1>5, <2>1, ScullpPlace
  <2>3. at.slot \in Nat
    BY <1>5, <2>2
  <2> QED  BY <2>2, <2>3
<1> DEFINE k == at.item + 1
<1>7. /\ followed = Longer(scullp.items, at.item)
      /\ items = ArrayPut(followed, k, my.qset)
      /\ full = QuantumPut(items, k, at.slot, Pages(items[k].order))
      /\ Scullp!SlotAt(full, at) = InSlot(full[k].data, at.slot)
      /\ want = IF count < Pages(my.order) - at.off THEN count ELSE Pages(my.order) - at.off
  <2>1. want = IF count < Pages(my.order) - at.off THEN count ELSE Pages(my.order) - at.off
    BY <1>2, ScullpPlain DEF Scullp!Cut, Scullp!Least
  <2> QED  BY <1>2, <2>1, ScullpPlain
<1>8. /\ followed \in Items /\ followed # <<>> /\ k \in 1..Len(followed)
      /\ Slots(followed) /\ followed[1].order = scullp.items[1].order
      /\ Arrays(scullp.items, scullp.dev_qset) => Arrays(followed, scullp.dev_qset)
  BY <1>5, <1>6, <1>7, Followed, LongerKept DEF ScullpInv, Memory
<1>9. /\ items \in Items /\ items # <<>> /\ k \in 1..Len(items) /\ items[k].data # <<>>
      /\ Slots(items) /\ items[1].order = scullp.items[1].order
      /\ Arrays(scullp.items, scullp.dev_qset) /\ (my.qset = scullp.dev_qset \/ items = followed)
           => Arrays(items, scullp.dev_qset)
  <2>1. items \in Items /\ Len(items) = Len(followed) /\ items[k].data # <<>>
    <3> HIDE DEF k
    <3>1. HasArray(ArrayPut(followed, k, my.qset), followed, k, my.qset)
      BY <1>5, <1>8, ArrayThere
    <3>2. HasArray(items, followed, k, my.qset)
      BY <1>7, <3>1
    <3> QED  BY <3>2, Zenon DEF HasArray
  <2>2. Slots(items) /\ items[1].order = followed[1].order
    BY <1>5, <1>7, <1>8, ArrayKept
  <2>3. Arrays(followed, scullp.dev_qset) /\ (my.qset = scullp.dev_qset \/ items = followed)
           => Arrays(items, scullp.dev_qset)
    BY <1>5, <1>7, <1>8, ArrayKept
  <2>4. items # <<>>
    BY <1>8, <2>1, NotEmpty
  <2> QED  BY <1>8, <2>1, <2>2, <2>3, <2>4
<1>10. /\ full \in Items /\ full # <<>> /\ k \in 1..Len(full)
       /\ Slots(full) /\ full[1].order = scullp.items[1].order
       /\ Arrays(items, scullp.dev_qset) => Arrays(full, scullp.dev_qset)
  <2> DEFINE U == QuantumPut(items, k, at.slot, Pages(items[k].order))
  <2>1. /\ U \in Items /\ Len(U) = Len(items) /\ Slots(U) /\ U[1].order = items[1].order
        /\ \A qset : Arrays(items, qset) => Arrays(U, qset)
    BY <1>6, <1>9, QuantumKept, Zenon
  <2>2. U = full
    BY <1>7
  <2>3. full # <<>>
    BY <1>9, <2>1, <2>2, NotEmpty
  <2> QED  BY <1>9, <2>1, <2>2, <2>3
<1>11. ASSUME "stale" \notin scullpSeen, my.order = scullp.items[1].order, my.qset = scullp.dev_qset,
              at.item = 0 \/ scullp.items[1].order = 0
       PROVE  ~(Scullp!SlotAt(full, at) < 0 \/ Scullp!Outside(at.off, want, Scullp!SlotAt(full, at)))
  <2>1. Arrays(items, my.qset)
    BY <1>9, <1>11 DEF ScullpInv, Memory
  <2>2. items[k].order = my.order
    BY <1>6, <1>9, <1>11 DEF Slots
  <2>3. InSlot(QuantumPut(items, k, at.slot, Pages(items[k].order))[k].data, at.slot) = Pages(items[k].order)
    <3>1. my.qset \in Nat /\ at.slot < my.qset /\ Pages(items[k].order) # 0
      BY <1>5, <1>6, <2>2
    <3> QED  BY <1>6, <1>9, <2>1, <3>1, SlotFilled, Zenon
  <2>4. InSlot(full[k].data, at.slot) = Pages(my.order)
    BY <1>7, <2>2, <2>3
  <2> QED  BY <1>6, <1>7, <2>4 DEF Scullp!Outside
<1>12. /\ over \cup late \subseteq {"overrun", "stale", "tail"}
       /\ "overrun" \in over \cup late
            => "stale" \in scullpSeen \/ "stale" \in over \cup late \/ "tail" \in over \cup late
       /\ "stale" \notin over \cup late => my.qset = scullp.dev_qset \/ items = followed
  <2> DEFINE bad == Scullp!SlotAt(full, at) < 0 \/ Scullp!Outside(at.off, want, Scullp!SlotAt(full, at))
  <2>1. over = IF ~(end \in {"ok", "fault"} /\ bad) THEN {}
               ELSE {"overrun"}
                    \cup (IF my.order # scullp.items[1].order \/ my.qset # scullp.dev_qset THEN {"stale"} ELSE {})
                    \cup (IF at.item > 0 /\ scullp.items[1].order > 0 THEN {"tail"} ELSE {})
    BY <1>2, <1>3, Zenon DEF Scullp!Outcome, Scullp!If, Scullp!DevOrder
  <2>2. late = IF items # followed /\ my.qset # scullp.dev_qset THEN {"stale"} ELSE {}
    BY <1>3, Zenon DEF Scullp!If
  <2>3. at.item = 0 \/ scullp.items[1].order = 0 \/ (at.item > 0 /\ scullp.items[1].order > 0)
    <3>1. scullp.items[1].order \in Nat
      BY <1>5, FirstOrder
    <3> QED  BY <1>6, <3>1
  <2>4. bad => \/ "stale" \in scullpSeen \/ my.order # scullp.items[1].order \/ my.qset # scullp.dev_qset
               \/ at.item > 0 /\ scullp.items[1].order > 0
    BY <1>11, <2>3, Zenon
  <2> HIDE DEF bad
  <2> QED  BY <2>1, <2>2, <2>4
<1>13. scullp.size \in Nat /\ (IF scullp.size < pos + want THEN pos + want ELSE scullp.size) \in Nat
  <2>1. want \in Nat
    BY <1>6, <1>7
  <2> QED  BY <1>5, <2>1
<1>14. /\ ScullpInv /\ scullp.up /\ scullpSeen' = scullpSeen \cup (over \cup late)
       /\ Scullp!Finish(p) /\ scullpMap' = scullpMap
  BY <1>4, <1>5
<1>15. ASSUME NEW list \in Items, list # <<>>, Slots(list), list[1].order = scullp.items[1].order,
              "stale" \notin over \cup late /\ Arrays(scullp.items, scullp.dev_qset)
                => Arrays(list, scullp.dev_qset),
              NEW size \in Nat, scullp' = With(scullp, list, size)
       PROVE  ScullpInv'
  BY <1>12, <1>14, <1>15, ScullpUse, Zenon
<1>16. DeviceTyped(scullp)
  BY DEF ScullpInv, ScullpFits
<1>17. ASSUME scullp' = [scullp EXCEPT !.items = followed] PROVE ScullpInv'
  <2>1. scullp' = With(scullp, followed, scullp.size)
    BY <1>16, <1>17, DeviceWith, Zenon
  <2> QED  BY <1>8, <1>13, <1>15, <2>1, Zenon
<1>18. "stale" \notin over \cup late /\ Arrays(scullp.items, scullp.dev_qset) => Arrays(items, scullp.dev_qset)
  BY <1>9, <1>12
<1>19. ASSUME scullp' = [scullp EXCEPT !.items = items] PROVE ScullpInv'
  <2>1. scullp' = With(scullp, items, scullp.size)
    BY <1>16, <1>19, DeviceWith, Zenon
  <2> QED  BY <1>9, <1>13, <1>15, <1>18, <2>1, Zenon
<1>20. "stale" \notin over \cup late /\ Arrays(scullp.items, scullp.dev_qset) => Arrays(full, scullp.dev_qset)
  BY <1>10, <1>18
<1>21. ASSUME scullp' = [scullp EXCEPT !.items = full] PROVE ScullpInv'
  <2>1. scullp' = With(scullp, full, scullp.size)
    BY <1>16, <1>21, DeviceWith, Zenon
  <2> QED  BY <1>10, <1>13, <1>15, <1>20, <2>1, Zenon
<1>22. ASSUME scullp' = [scullp EXCEPT !.items = full, !.size = IF @ < pos + want THEN pos + want ELSE @]
       PROVE  ScullpInv'
  <2>1. scullp' = With(scullp, full, IF scullp.size < pos + want THEN pos + want ELSE scullp.size)
    BY <1>22 DEF With
  <2> QED  BY <1>10, <1>13, <1>15, <1>20, <2>1, Zenon
<1> QED  BY <1>4, <1>17, <1>19, <1>21, <1>22, Zenon

(* read, too, follows the list                                             *)
LEMMA ScullpRead ==
  ASSUME ScullpInv, NEW p \in Procs, Scullp!ReadLocked(p)
  PROVE  ScullpInv'
<1>1. PICK pos \in scullp.work.positions, count \in 1 .. 2 : Scullp!At(p, "read") /\ Scullp!ReadAt(p, pos, count)
  BY Zenon DEF Scullp!ReadLocked
<1>2. PICK my, at, items, size, want :
        /\ my = scullpProc[p]
        /\ at = Scullp!Place(pos, Scullp!Quantum(my.order), my.qset)
        /\ items = Scullp!Follow(scullp.items, at.item)
        /\ size = Scullp!SlotAt(items, at)
        /\ want = Scullp!Least(Scullp!Least(count, scullp.size - pos), Scullp!Quantum(my.order) - at.off)
  BY Zenon
<1>3. PICK over : over = Scullp!Outcome(p, at, size # 0 /\ (size < 0 \/ Scullp!Outside(at.off, want, size)))
  BY Zenon
<1>4. /\ my.pc = "read"
      /\ \/ scullp' = scullp /\ scullpSeen' = scullpSeen
         \/ scullp' = [scullp EXCEPT !.items = items] /\ scullpSeen' = scullpSeen \cup over
      /\ Scullp!Finish(p) /\ scullpMap' = scullpMap
  BY <1>1, <1>2, <1>3, Zenon DEF Scullp!At, Scullp!Saw, Scullp!ReadAt
<1>5. /\ my.order \in Orders /\ my.qset \in Nat \ {0} /\ scullp.up /\ pos \in Nat
      /\ scullp.items \in Items /\ scullp.items # <<>>
      /\ scullp.dev_qset \in Nat \ {0} /\ scullp.size \in Nat
  <2>1. /\ DeviceTyped(scullp) /\ CallsTyped(scullpProc) /\ Reading(scullpProc)
        /\ Unused(scullp, scullpProc, scullpMap)
    BY Zenon DEF ScullpInv, ScullpFits
  <2>2. scullpProc[p].pc \in {"read", "write"}
    BY <1>2, <1>4, Zenon
  <2>3. my = scullpProc[p]
    BY <1>2, Zenon
  <2> QED  BY <2>1, <2>2, <2>3, Caller
<1>6. /\ at.item \in Nat /\ at.slot \in 0..my.qset - 1 /\ at.off \in 0..Pages(my.order) - 1
      /\ Pages(my.order) \in Nat \ {0}
  <2>1. at = Scullp!Place(pos, Scullp!Quantum(my.order), my.qset)
    BY <1>2, Zenon
  <2> QED  BY <1>5, <2>1, ScullpPlace
<1> DEFINE k == at.item + 1
<1>7. /\ items = Longer(scullp.items, at.item) /\ size = InSlot(items[k].data, at.slot)
      /\ want \in Int /\ want =< Pages(my.order) - at.off
  <2>1. want \in Int /\ want =< Pages(my.order) - at.off
    <3>1. Scullp!Quantum(my.order) = Pages(my.order)
      BY ScullpPlain, Zenon
    <3>2. want = Scullp!Least(Scullp!Least(count, scullp.size - pos), Pages(my.order) - at.off)
      BY <1>2, <3>1, Zenon
    <3>3. at.off \in Int /\ Pages(my.order) \in Int
      BY <1>6
    <3>4. count \in Int /\ scullp.size - pos \in Int /\ Pages(my.order) - at.off \in Int
      BY <1>5, <3>3
    <3> QED  BY <3>2, <3>4 DEF Scullp!Least
  <2> QED  BY <1>2, <2>1, ScullpPlain
<1>8. /\ items \in Items /\ items # <<>> /\ k \in 1..Len(items)
      /\ Slots(items) /\ items[1].order = scullp.items[1].order
      /\ Arrays(scullp.items, scullp.dev_qset) => Arrays(items, scullp.dev_qset)
  BY <1>5, <1>6, <1>7, Followed, LongerKept DEF ScullpInv, Memory
<1>9. ASSUME "stale" \notin scullpSeen, my.order = scullp.items[1].order, my.qset = scullp.dev_qset,
             at.item = 0 \/ scullp.items[1].order = 0
      PROVE  ~(size # 0 /\ (size < 0 \/ Scullp!Outside(at.off, want, size)))
  <2>1. Arrays(items, my.qset)
    BY <1>8, <1>9 DEF ScullpInv, Memory
  <2>2. items[k].order = my.order
    BY <1>6, <1>8, <1>9 DEF Slots
  <2>3. InSlot(items[k].data, at.slot) \in {0, Pages(items[k].order)}
    BY <1>5, <1>6, <1>8, <2>1, Looked
  <2>4. size \in {0, Pages(my.order)}
    BY <1>7, <2>2, <2>3
  <2> QED  BY <1>6, <1>7, <2>4 DEF Scullp!Outside
<1>10. /\ over \subseteq {"overrun", "stale", "tail"}
       /\ "overrun" \in over => "stale" \in scullpSeen \/ "stale" \in over \/ "tail" \in over
  <2> DEFINE bad == size # 0 /\ (size < 0 \/ Scullp!Outside(at.off, want, size))
  <2>1. over = IF ~bad THEN {}
               ELSE {"overrun"}
                    \cup (IF my.order # scullp.items[1].order \/ my.qset # scullp.dev_qset THEN {"stale"} ELSE {})
                    \cup (IF at.item > 0 /\ scullp.items[1].order > 0 THEN {"tail"} ELSE {})
    BY <1>2, <1>3, Zenon DEF Scullp!Outcome, Scullp!If, Scullp!DevOrder
  <2>2. at.item = 0 \/ scullp.items[1].order = 0 \/ (at.item > 0 /\ scullp.items[1].order > 0)
    <3>1. scullp.items[1].order \in Nat
      BY <1>5, FirstOrder
    <3> QED  BY <1>6, <3>1
  <2>3. bad => \/ "stale" \in scullpSeen \/ my.order # scullp.items[1].order \/ my.qset # scullp.dev_qset
               \/ at.item > 0 /\ scullp.items[1].order > 0
    BY <1>9, <2>2, Zenon
  <2> HIDE DEF bad
  <2> QED  BY <2>1, <2>3
<1>11. ScullpInv /\ scullp.up /\ Scullp!Finish(p) /\ scullpMap' = scullpMap
  BY <1>4, <1>5
<1>12. CASE scullp' = scullp /\ scullpSeen' = scullpSeen
  <2>1. ScullpFits'
    BY <1>11, <1>12, ScullpFinish DEF ScullpInv, ScullpFits
  <2> QED  BY <1>11, <1>12, <2>1, Zenon DEF ScullpInv
<1>13. CASE scullp' = [scullp EXCEPT !.items = items] /\ scullpSeen' = scullpSeen \cup over
  <2>1. scullp' = With(scullp, items, scullp.size)
    <3>1. DeviceTyped(scullp)
      BY DEF ScullpInv, ScullpFits
    <3> QED  BY <1>13, <3>1, DeviceWith, Zenon
  <2> QED  BY <1>5, <1>8, <1>10, <1>11, <1>13, <2>1, ScullpUse, Zenon
<1> QED  BY <1>4, <1>12, <1>13, Zenon

(* Every shape that can be set is one of a device.                         *)
LEMMA ShapesTyped ==
  /\ ShapeTyped(ScullpShape) /\ ShapeTyped(ScullvShape) /\ ShapeTyped(SculldShape)
  /\ \A work \in ScullpWorkloads \cup ScullvWorkloads : WorkTyped(work)
<1>1. ASSUME NEW shape, Sized(shape) PROVE ShapeTyped(shape)
  <2>1. Scullp!Quantum(shape.order) = Pages(shape.order)
    BY ScullpPlain
  <2> QED  BY <1>1, <2>1 DEF Sized, ShapeTyped, Orders
<1>2. Sized(ScullpShape) /\ Sized(ScullvShape) /\ Sized(SculldShape)
  BY ShapesAssumption
<1>3. ASSUME NEW work \in ScullpWorkloads \cup ScullvWorkloads PROVE WorkTyped(work)
  <2>1. work.positions \subseteq Nat /\ \A shape \in work.shapes : Sized(shape)
    BY ShapesAssumption
  <2> QED  BY <1>1, <2>1 DEF WorkTyped
<1> QED  BY <1>1, <1>2, <1>3

(* A device that is not loaded, with nothing open and nothing mapped.      *)
Bare(shape) ==
  [up |-> FALSE, work |-> [callers |-> {}, mappers |-> {}, positions |-> {}, shapes |-> {shape}],
   order |-> shape.order, qset |-> shape.qset, items |-> <<>>, dev_qset |-> 0, size |-> 0, vmas |-> 0]
Rest(calls, maps) ==
  CallsTyped(calls) /\ MapsTyped(maps) /\ \A p \in Procs : calls[p].pc = "out" /\ maps[p] = [pc |-> "no", vmas |-> 0]

(* Such a device breaks no rule.                                           *)
LEMMA BareFits ==
  ASSUME NEW shape, ShapeTyped(shape), NEW calls, NEW maps, Rest(calls, maps)
  PROVE  /\ DeviceTyped(Bare(shape)) /\ Reading(calls) /\ Unused(Bare(shape), calls, maps)
         /\ \A seen : ("overrun" \in seen \/ "leak" \in seen => "stale" \in seen \/ "tail" \in seen)
                       => Memory(Bare(shape), seen)
         /\ \A seen : ("torn" \in seen \/ "kept" \in seen => "lost" \in seen) /\ ("other" \in seen => "raced" \in seen)
                       => Mapping(Bare(shape), maps, seen)
<1> DEFINE dev == Bare(shape)
<1>1. <<>> \in Items
  BY DEF Items
<1>2. /\ DOMAIN dev = {"up", "work", "order", "qset", "items", "dev_qset", "size", "vmas"}
      /\ dev.up = FALSE /\ dev.work.positions = {} /\ dev.work.shapes = {shape}
      /\ dev.order = shape.order /\ dev.qset = shape.qset
      /\ dev.items = <<>> /\ dev.dev_qset = 0 /\ dev.size = 0 /\ dev.vmas = 0
  BY DEF Bare
<1> HIDE DEF dev
<1>3. DeviceTyped(dev)
  BY <1>1, <1>2 DEF DeviceTyped, WorkTyped, ShapeTyped
<1>4. Reading(calls) /\ Unused(dev, calls, maps)
  BY DEF Rest, Reading, Unused
<1>5. Slots(dev.items) /\ Arrays(dev.items, dev.dev_qset)
  BY <1>2 DEF Slots, Arrays
<1>6. Mapped(maps) = {}
  BY DEF Rest, Mapped
<1>7. Cardinality(Mapped(maps)) = 0
  BY <1>6, FS_EmptySet
<1>8. ~\E p \in Procs : maps[p].pc = "yes"
  BY DEF Rest
<1> QED  BY <1>2, <1>3, <1>4, <1>5, <1>7, <1>8 DEF Memory, Mapping, Flat, dev

(* scullp starts so.                                                       *)
LEMMA ScullpInit ==
  ASSUME Scullp!Init
  PROVE  ScullpInv
<1>1. scullp = Bare(ScullpShape)
  BY Zenon DEF Scullp!Init, Scullp!Unloaded, Scullp!Idle, Bare
<1>2. Rest(scullpProc, scullpMap)
  BY OrderZero DEF Scullp!Init, Scullp!Out, Scullp!NoMap, Rest, CallsTyped, MapsTyped
<1>3. scullpSeen = {}
  BY DEF Scullp!Init
<1>4. /\ DeviceTyped(scullp) /\ Reading(scullpProc) /\ Unused(scullp, scullpProc, scullpMap)
      /\ Memory(scullp, scullpSeen) /\ Mapping(scullp, scullpMap, scullpSeen)
  BY <1>1, <1>2, <1>3, ShapesTyped, BareFits
<1> QED  BY <1>2, <1>4 DEF ScullpInv, ScullpFits, Rest

(* The numbers of mappings                                                 *)
LEMMA MappedFinite ==
  ASSUME NEW maps, NEW p \in Procs, NEW maps2,
         \A r \in Procs \ {p} : maps2[r] = maps[r]
  PROVE  /\ Cardinality(Mapped(maps)) \in Nat
         /\ Mapped(maps) = {} <=> Cardinality(Mapped(maps)) = 0
         /\ p \notin Mapped(maps) /\ p \in Mapped(maps2) => Cardinality(Mapped(maps2)) = Cardinality(Mapped(maps)) + 1
         /\ p \in Mapped(maps) /\ p \notin Mapped(maps2) => Cardinality(Mapped(maps2)) = Cardinality(Mapped(maps)) - 1
         /\ (p \in Mapped(maps) <=> p \in Mapped(maps2)) => Mapped(maps2) = Mapped(maps)
<1>1. IsFiniteSet(Mapped(maps)) /\ Mapped(maps) \subseteq Procs
  <2>1. Mapped(maps) \subseteq Procs
    BY DEF Mapped
  <2> QED  BY <2>1, DriversAssumption, FS_Subset
<1>2. /\ Cardinality(Mapped(maps)) \in Nat
      /\ Mapped(maps) = {} <=> Cardinality(Mapped(maps)) = 0
  BY <1>1, FS_CardinalityType, FS_EmptySet
<1>3. /\ p \notin Mapped(maps) /\ p \in Mapped(maps2) => Mapped(maps2) = Mapped(maps) \cup {p}
      /\ p \in Mapped(maps) /\ p \notin Mapped(maps2) => Mapped(maps2) = Mapped(maps) \ {p}
      /\ (p \in Mapped(maps) <=> p \in Mapped(maps2)) => Mapped(maps2) = Mapped(maps)
  BY DEF Mapped
<1>4. p \notin Mapped(maps) => Cardinality(Mapped(maps) \cup {p}) = Cardinality(Mapped(maps)) + 1
  BY <1>1, FS_AddElement
<1>5. p \in Mapped(maps) => Cardinality(Mapped(maps) \ {p}) = Cardinality(Mapped(maps)) - 1
  BY <1>1, FS_RemoveElement
<1> QED  BY <1>2, <1>3, <1>4, <1>5

(* Its load makes a list of one item without an array.                     *)
LEMMA ScullpLoad ==
  ASSUME ScullpInv, Scullp!Load
  PROVE  ScullpInv'
<1>0. PICK work \in ScullpWorkloads : \E shape \in work.shapes :
        /\ ~scullp.up
        /\ scullp' = Loaded(scullp, work, shape, Scullp!NewList(shape.order))
        /\ UNCHANGED <<scullpProc, scullpMap, scullpSeen>>
  BY Zenon DEF Scullp!Load, Loaded
<1>1. PICK shape \in work.shapes :
        /\ ~scullp.up
        /\ scullp' = Loaded(scullp, work, shape, Scullp!NewList(shape.order))
        /\ UNCHANGED <<scullpProc, scullpMap, scullpSeen>>
  BY <1>0
<1>2. WorkTyped(work) /\ ShapeTyped(shape)
  BY ShapesTyped DEF WorkTyped
<1> DEFINE items == Scullp!NewList(shape.order)
<1>3. items = <<[order |-> shape.order, data |-> <<>>]>>
  BY DEF Scullp!NewList, Scullp!FreshItem
<1> HIDE DEF items
<1>4. items \in Items /\ items # <<>> /\ Slots(items) /\ \A qset : Arrays(items, qset)
  <2>1. shape.order \in Orders
    BY <1>2 DEF ShapeTyped
  <2> QED  BY <1>3, <2>1, NewItems
<1>5. /\ DeviceTyped(scullp') /\ scullp'.up /\ scullp'.items = items /\ scullp'.vmas = scullp.vmas
  <2>1. DeviceTyped(scullp) /\ scullp' = Loaded(scullp, work, shape, items)
    BY <1>1 DEF ScullpInv, ScullpFits, items
  <2> QED  BY <1>2, <1>4, <2>1, DeviceLoaded
<1>6. ScullpFits'
  BY <1>1, <1>5 DEF ScullpInv, ScullpFits, Unused
<1>7. Memory(scullp', scullpSeen')
  BY <1>1, <1>4, <1>5, Zenon DEF ScullpInv, Memory
<1>8. ~\E p \in Procs : scullpMap[p].pc = "yes"
  BY <1>1 DEF ScullpInv, ScullpFits, Unused
<1>9. Mapping(scullp', scullpMap', scullpSeen')
  BY <1>1, <1>5, <1>8 DEF ScullpInv, Mapping, Flat
<1> QED  BY <1>6, <1>7, <1>9 DEF ScullpInv

(* Its removal needs that no file is open, and so no mapping either.       *)
LEMMA ScullpUnload ==
  ASSUME ScullpInv, Scullp!Unload
  PROVE  ScullpInv'
<1>1. PICK damage : damage = Scullp!If("kept", scullp.vmas # 0)
                             \cup Scullp!If("overrun", Scullp!PastArray(scullp.items, scullp.dev_qset))
                             \cup Scullp!If("leak", Scullp!Forgotten(scullp.items, scullp.dev_qset))
  BY Zenon
<1>2. /\ scullp.up /\ \A p \in Procs : scullpProc[p].pc = "out" /\ scullpMap[p] = [pc |-> "no", vmas |-> 0]
      /\ scullp' = Bare(ScullpShape)
      /\ scullpSeen' = {} \/ scullpSeen' = scullpSeen \cup damage
      /\ scullpProc' = scullpProc /\ scullpMap' = scullpMap
  BY <1>1, Zenon DEF Scullp!Unload, Scullp!Unloaded, Scullp!Idle, Bare, Scullp!At, Scullp!NoMap
<1>3. Rest(scullpProc', scullpMap')
  BY <1>2 DEF Rest, ScullpInv, ScullpFits
<1>4. damage \subseteq {"kept", "overrun", "leak"}
  BY <1>1 DEF Scullp!If
<1>5. "lost" \notin scullpSeen => "kept" \notin damage
  <2>1. Mapped(scullpMap) = {}
    BY <1>2 DEF Mapped
  <2>2. Cardinality(Mapped(scullpMap)) = 0
    BY <2>1, FS_EmptySet
  <2> QED  BY <1>1, <2>2 DEF ScullpInv, Mapping, Scullp!If
<1>6. "stale" \notin scullpSeen => "overrun" \notin damage /\ "leak" \notin damage
  <2> HAVE "stale" \notin scullpSeen
  <2>1. scullp.items \in Items /\ scullp.dev_qset \in Nat /\ Arrays(scullp.items, scullp.dev_qset)
    BY <1>2 DEF ScullpInv, ScullpFits, DeviceTyped, Memory
  <2>2. ~Scullp!PastArray(scullp.items, scullp.dev_qset) /\ ~Scullp!Forgotten(scullp.items, scullp.dev_qset)
    BY <2>1, Measured, Zenon DEF Scullp!PastArray, Scullp!Forgotten
  <2> QED  BY <1>1, <2>2 DEF Scullp!If
<1>7. /\ "overrun" \in scullpSeen' \/ "leak" \in scullpSeen' => "stale" \in scullpSeen' \/ "tail" \in scullpSeen'
      /\ "torn" \in scullpSeen' \/ "kept" \in scullpSeen' => "lost" \in scullpSeen'
      /\ "other" \in scullpSeen' => "raced" \in scullpSeen'
  BY <1>2, <1>4, <1>5, <1>6 DEF ScullpInv, Memory, Mapping
<1>8. /\ DeviceTyped(scullp') /\ Reading(scullpProc') /\ Unused(scullp', scullpProc', scullpMap')
      /\ Memory(scullp', scullpSeen') /\ Mapping(scullp', scullpMap', scullpSeen')
  BY <1>2, <1>3, <1>7, ShapesTyped, BareFits
<1> QED  BY <1>3, <1>8 DEF ScullpInv, ScullpFits, Rest

(* Calls that leave device and mappings alone                              *)
LEMMA ScullpStay ==
  ASSUME ScullpInv, scullp.up, CallsTyped(scullpProc'), Reading(scullpProc'),
         scullp' = scullp, scullpMap' = scullpMap, scullpSeen' = scullpSeen
  PROVE  ScullpInv'
<1>1. ScullpFits'
  BY DEF ScullpInv, ScullpFits, Unused
<1> QED  BY <1>1, Zenon DEF ScullpInv

(* The calls that take the sizes for a read or a write, and the ends of    *)
(* calls.                                                                  *)
LEMMA ScullpCalls ==
  ASSUME ScullpInv, NEW p \in Procs,
         \/ Scullp!Release(p) \/ Scullp!DeferredOp(p) \/ Scullp!Transfer(p, "read") \/ Scullp!Transfer(p, "write")
  PROVE  ScullpInv'
<1>1. scullpProc[p].pc # "out"
  BY DEF Scullp!Release, Scullp!DeferredOp, Scullp!Transfer, Scullp!At
<1>2. scullp.up
  BY <1>1 DEF ScullpInv, ScullpFits, Unused
<1>3. scullp' = scullp /\ scullpMap' = scullpMap /\ scullpSeen' = scullpSeen
  BY DEF Scullp!Release, Scullp!DeferredOp, Scullp!Transfer
<1>4. CallsTyped(scullpProc) /\ Reading(scullpProc)
  BY DEF ScullpInv, ScullpFits
<1>5. CASE Scullp!Release(p) \/ Scullp!DeferredOp(p)
  <2>1. PICK l \in {"out", "open", "aio"} : Scullp!To(p, l)
    BY <1>5 DEF Scullp!Release, Scullp!DeferredOp
  <2> QED  BY <1>2, <1>3, <1>4, <2>1, ScullpTo, ScullpStay, Zenon
<1>6. ASSUME NEW l \in {"read", "write"}, Scullp!Transfer(p, l) PROVE ScullpInv'
  <2> DEFINE call == [pc |-> l, order |-> Scullp!DevOrder, qset |-> scullp.dev_qset]
  <2>1. scullpProc' = [scullpProc EXCEPT ![p] = call]
    BY <1>6, Zenon DEF Scullp!Transfer
  <2>2. scullp.items \in Items /\ scullp.items # <<>> /\ scullp.dev_qset \in Nat \ {0}
    BY <1>2 DEF ScullpInv, ScullpFits, DeviceTyped
  <2>3. Scullp!DevOrder \in Orders
    BY <2>2, FirstOrder DEF Scullp!DevOrder
  <2>4. call \in [pc : {"out", "open", "read", "write", "aio"}, order : Orders, qset : Nat] /\ call.qset # 0
    BY <2>2, <2>3
  <2> HIDE DEF call
  <2>5. CallsTyped(scullpProc') /\ Reading(scullpProc')
    BY <1>4, <2>1, <2>4 DEF CallsTyped, Reading
  <2> QED  BY <1>2, <1>3, <2>5, ScullpStay, Zenon
<1> QED  BY <1>5, <1>6

(* A trim finds no mapping where vmas is right, and arrays of its length   *)
(* where no write was late.                                                *)
LEMMA ScullpOpen ==
  ASSUME ScullpInv, NEW p \in Procs, Scullp!OpenFile(p)
  PROVE  ScullpInv'
<1>1. CallsTyped(scullpProc') /\ Reading(scullpProc') /\ scullp.up /\ scullpMap' = scullpMap
  BY ScullpTo DEF Scullp!OpenFile, ScullpInv, ScullpFits
<1>2. CASE scullp' = scullp /\ scullpSeen' = scullpSeen
  BY <1>1, <1>2, ScullpStay, Zenon
<1> DEFINE items == Scullp!NewList(scullp.order)
           damage == Scullp!If("overrun", Scullp!PastArray(scullp.items, scullp.dev_qset))
                     \cup Scullp!If("leak", Scullp!Forgotten(scullp.items, scullp.dev_qset))
                     \cup Scullp!If("torn", \E q \in Procs : scullpMap[q].pc = "yes")
<1>3. CASE scullp.vmas = 0 /\ scullp' = Trimmed(scullp, items) /\ scullpSeen' = scullpSeen \cup damage
  <2>0. /\ DeviceTyped(scullp) /\ scullp.order \in Orders /\ scullp.items \in Items
        /\ scullp.dev_qset \in Nat
    BY <1>1 DEF ScullpInv, ScullpFits, DeviceTyped
  <2>1. items = <<[order |-> scullp.order, data |-> <<>>]>>
    BY DEF Scullp!NewList, Scullp!FreshItem
  <2>2. items \in Items /\ items # <<>> /\ Slots(items) /\ \A qset : Arrays(items, qset)
    <3> HIDE DEF items
    <3> QED  BY <2>0, <2>1, NewItems
  <2>3. damage \subseteq {"overrun", "leak", "torn"}
    BY DEF Scullp!If
  <2>4. "stale" \notin scullpSeen => "overrun" \notin damage /\ "leak" \notin damage
    <3> HAVE "stale" \notin scullpSeen
    <3>1. Arrays(scullp.items, scullp.dev_qset)
      BY DEF ScullpInv, Memory
    <3>2. ~Scullp!PastArray(scullp.items, scullp.dev_qset) /\ ~Scullp!Forgotten(scullp.items, scullp.dev_qset)
      BY <2>0, <3>1, Measured, Zenon DEF Scullp!PastArray, Scullp!Forgotten
    <3> QED  BY <3>2 DEF Scullp!If
  <2>5. "torn" \in damage <=> \E q \in Procs : scullpMap[q].pc = "yes"
    BY DEF Scullp!If
  <2>6. "lost" \notin scullpSeen => ~\E q \in Procs : scullpMap[q].pc = "yes"
    <3>1. "lost" \notin scullpSeen => Mapped(scullpMap) = {}
      BY <1>3, MappedFinite DEF ScullpInv, Mapping
    <3> QED  BY <3>1 DEF Mapped
  <2> HIDE DEF items, damage
  <2>7. /\ DeviceTyped(scullp') /\ scullp'.up /\ scullp'.items = items /\ scullp'.vmas = scullp.vmas
    BY <1>1, <1>3, <2>0, <2>2, DeviceTrimmed
  <2>8. ScullpFits'
    BY <1>1, <2>7 DEF ScullpInv, ScullpFits, Unused
  <2>9. Memory(scullp', scullpSeen')
    BY <1>3, <2>2, <2>3, <2>4, <2>7 DEF ScullpInv, Memory
  <2>10. Mapping(scullp', scullpMap', scullpSeen')
    <3>1. "torn" \notin scullpSeen' => Flat(scullp', scullpMap')
      BY <1>1, <1>3, <2>5 DEF Flat
    <3> QED  BY <1>1, <1>3, <2>3, <2>5, <2>6, <2>7, <3>1 DEF ScullpInv, Mapping
  <2> QED  BY <2>8, <2>9, <2>10 DEF ScullpInv
<1> QED  BY <1>2, <1>3, Zenon DEF Scullp!OpenFile, Scullp!Trim, Scullp!Saw, Trimmed

(* The sizes that an ioctl sets are those of a later trim.                 *)
LEMMA ScullpIoctl ==
  ASSUME ScullpInv, NEW p \in Procs, Scullp!Ioctl(p)
  PROVE  ScullpInv'
<1>1. PICK shape \in scullp.work.shapes \cup {ScullpShape} : scullp' = Set(scullp, shape)
  BY Zenon DEF Scullp!Ioctl, Set
<1>2. scullpProc[p].pc = "open" /\ scullpProc' = scullpProc /\ scullpMap' = scullpMap /\ scullpSeen' = scullpSeen
  BY DEF Scullp!Ioctl, Scullp!At
<1>3. scullp.up /\ DeviceTyped(scullp)
  BY <1>2 DEF ScullpInv, ScullpFits, Unused
<1>4. ShapeTyped(shape)
  BY <1>3, ShapesTyped DEF DeviceTyped, WorkTyped
<1>5. /\ DeviceTyped(scullp') /\ scullp'.up = scullp.up /\ scullp'.items = scullp.items
      /\ scullp'.vmas = scullp.vmas /\ scullp'.dev_qset = scullp.dev_qset
  BY <1>1, <1>3, <1>4, DeviceSet
<1>6. ScullpFits'
  BY <1>2, <1>3, <1>5 DEF ScullpInv, ScullpFits, Unused
<1>7. Memory(scullp', scullpSeen')
  BY <1>2, <1>5, Zenon DEF ScullpInv, Memory
<1>8. Mapping(scullp', scullpMap', scullpSeen')
  BY <1>2, <1>5, Zenon DEF ScullpInv, Mapping, Flat
<1> QED  BY <1>6, <1>7, <1>8 DEF ScullpInv

(* The proc file looks at the slots of the last item.                      *)
LEMMA ScullpPeek ==
  ASSUME ScullpInv, Scullp!ProcRead
  PROVE  ScullpInv'
<1> DEFINE things == Scullp!If("overrun", Scullp!PastArray(<<scullp.items[Len(scullp.items)]>>, scullp.dev_qset))
<1>1. scullp.up /\ scullp' = scullp /\ scullpProc' = scullpProc /\ scullpMap' = scullpMap
  BY DEF Scullp!ProcRead
<1>2. scullpSeen' = scullpSeen \cup things
  BY DEF Scullp!ProcRead, Scullp!Saw
<1>3. things \subseteq {"overrun"}
  BY DEF Scullp!If
<1>4. "stale" \notin scullpSeen => "overrun" \notin things
  <2> HAVE "stale" \notin scullpSeen
  <2>1. scullp.items \in Items /\ scullp.items # <<>> /\ Arrays(scullp.items, scullp.dev_qset)
    BY <1>1 DEF ScullpInv, ScullpFits, DeviceTyped, Memory
  <2> DEFINE last == scullp.items[Len(scullp.items)]
             one == <<last>>
  <2>2. Len(scullp.items) \in 1..Len(scullp.items)
    BY <2>1 DEF Items
  <2>3. last.data # <<>> => Len(last.data) = scullp.dev_qset
    BY <2>1, <2>2 DEF Arrays
  <2>4. DOMAIN one = {1} /\ one[1] = last
    OBVIOUS
  <2>5. scullp.dev_qset \in Nat
    BY <1>1 DEF ScullpInv, ScullpFits, DeviceTyped
  <2> HIDE DEF last
  <2>6. ~\E i \in DOMAIN one : one[i].data # <<>> /\ Len(one[i].data) < scullp.dev_qset
    BY <2>3, <2>4, <2>5
  <2>7. ~Scullp!PastArray(one, scullp.dev_qset)
    BY <2>6, Zenon DEF Scullp!PastArray
  <2> QED  BY <2>7 DEF Scullp!If, last
<1> HIDE DEF things
<1>5. ScullpFits'
  BY <1>1 DEF ScullpInv, ScullpFits, Unused
<1>6. Memory(scullp', scullpSeen')
  BY <1>1, <1>2, <1>3, <1>4 DEF ScullpInv, Memory
<1>7. Mapping(scullp', scullpMap', scullpSeen')
  BY <1>1, <1>2, <1>3 DEF ScullpInv, Mapping
<1> QED  BY <1>5, <1>6, <1>7 DEF ScullpInv

(* Mappings: only the counting touches the device.                         *)
LEMMA ScullpMapTo ==
  ASSUME MapsTyped(scullpMap), NEW p \in Procs, NEW l \in {"no", "inc", "yes", "dec"}, NEW n \in Int, Scullp!MapTo(p, l, n)
  PROVE  /\ MapsTyped(scullpMap') /\ scullpMap'[p] = [pc |-> l, vmas |-> n]
         /\ \A r \in Procs \ {p} : scullpMap'[r] = scullpMap[r]
<1>1. scullpMap' = [scullpMap EXCEPT ![p] = [pc |-> l, vmas |-> n]]
  BY Zenon DEF Scullp!MapTo
<1> DEFINE m == [pc |-> l, vmas |-> n]
<1>2. m \in [pc : {"no", "inc", "yes", "dec"}, vmas : Int]
  OBVIOUS
<1> HIDE DEF m
<1>3. scullpMap' = [scullpMap EXCEPT ![p] = m]
  BY <1>1 DEF m
<1>4. MapsTyped(scullpMap') /\ scullpMap'[p] = m /\ \A r \in Procs \ {p} : scullpMap'[r] = scullpMap[r]
  BY <1>2, <1>3 DEF MapsTyped
<1> QED  BY <1>4 DEF m

(* An mmap or munmap that begins reads vmas and does not write it yet.     *)
LEMMA ScullpBegin ==
  ASSUME ScullpInv, NEW p \in Procs, Scullp!Mmap(p) \/ Scullp!Munmap(p)
  PROVE  ScullpInv'
<1>1. PICK l \in {"inc", "dec"} : /\ Scullp!MapTo(p, l, scullp.vmas)
                                  /\ l = "inc" => scullpMap[p].pc = "no" /\ scullpProc[p].pc = "open"
                                  /\ l = "dec" => scullpMap[p].pc = "yes"
  BY DEF Scullp!Mmap, Scullp!Munmap, Scullp!MapAt, Scullp!MayMap, Scullp!At
<1>2. scullp' = scullp /\ scullpProc' = scullpProc /\ scullpSeen' = scullpSeen
  BY DEF Scullp!Mmap, Scullp!Munmap
<1>3. scullp.up
  BY <1>1 DEF ScullpInv, ScullpFits, Unused
<1>4. /\ MapsTyped(scullpMap') /\ scullpMap'[p] = [pc |-> l, vmas |-> scullp.vmas]
      /\ \A r \in Procs \ {p} : scullpMap'[r] = scullpMap[r]
  <2>1. MapsTyped(scullpMap) /\ scullp.vmas \in Int
    BY DEF ScullpInv, ScullpFits, DeviceTyped
  <2> QED  BY <1>1, <2>1, ScullpMapTo
<1>5. scullpMap'[p].pc = l
  BY <1>4
<1>6. ScullpFits'
  BY <1>2, <1>3, <1>4 DEF ScullpInv, ScullpFits, Unused
<1>7. Memory(scullp', scullpSeen')
  BY <1>2, Zenon DEF ScullpInv
<1>8. Mapped(scullpMap') = Mapped(scullpMap)
  <2>1. p \in Mapped(scullpMap) <=> p \in Mapped(scullpMap')
    BY <1>1, <1>5 DEF Mapped
  <2> QED  BY <1>4, <2>1, MappedFinite
<1>9. Flat(scullp, scullpMap) => Flat(scullp', scullpMap')
  BY <1>2, <1>4, <1>5 DEF Flat
<1>10. Mapping(scullp', scullpMap', scullpSeen')
  BY <1>2, <1>8, <1>9, Zenon DEF ScullpInv, Mapping
<1> QED  BY <1>6, <1>7, <1>10 DEF ScullpInv

(* It writes what it read and one more or less: right, unless another      *)
(* count came in between, which is marked lost.                            *)
LEMMA ScullpCount ==
  ASSUME ScullpInv, NEW p \in Procs, Scullp!VmaOpen(p) \/ Scullp!VmaClose(p)
  PROVE  ScullpInv'
<1>1. PICK was \in {"inc", "dec"}, l \in {"yes", "no"}, n \in {1, -1} :
        /\ (was = "inc" /\ l = "yes" /\ n = 1) \/ (was = "dec" /\ l = "no" /\ n = -1)
        /\ scullpMap[p].pc = was /\ Scullp!MapTo(p, l, 0)
        /\ scullp' = Counted(scullp, scullpMap[p].vmas + n)
        /\ \/ /\ l = "yes"
              /\ scullpSeen' = scullpSeen \cup (Scullp!If("lost", scullp.vmas # scullpMap[p].vmas)
                                                \cup Scullp!If("raced", Scullp!DevOrder # 0))
           \/ l = "no" /\ scullpSeen' = scullpSeen \cup Scullp!If("lost", scullp.vmas # scullpMap[p].vmas)
  <2>1. CASE Scullp!VmaOpen(p)
    BY <2>1 DEF Scullp!VmaOpen, Scullp!MapAt, Scullp!Saw, Counted
  <2>2. CASE Scullp!VmaClose(p)
    BY <2>2 DEF Scullp!VmaClose, Scullp!MapAt, Scullp!Saw, Counted
  <2> QED  BY <2>1, <2>2
<1> DEFINE things == Scullp!If("lost", scullp.vmas # scullpMap[p].vmas)
           raced == Scullp!If("raced", Scullp!DevOrder # 0)
<1>2. /\ scullp.up /\ scullpProc' = scullpProc /\ DeviceTyped(scullp) /\ scullpMap[p].vmas \in Int
      /\ scullpMap[p].vmas + n \in Int
  <2>1. scullpMap[p] # [pc |-> "no", vmas |-> 0]
    BY <1>1
  <2>2. scullp.up
    BY <2>1 DEF ScullpInv, ScullpFits, Unused
  <2>3. scullpMap[p].vmas \in Int
    BY DEF ScullpInv, ScullpFits, MapsTyped
  <2>4. scullpMap[p].vmas + n \in Int
    BY <2>3
  <2>5. scullpProc' = scullpProc
    BY DEF Scullp!VmaOpen, Scullp!VmaClose
  <2> QED  BY <2>2, <2>3, <2>4, <2>5 DEF ScullpInv, ScullpFits
<1>3. /\ DeviceTyped(scullp') /\ scullp'.up = scullp.up /\ scullp'.items = scullp.items
      /\ scullp'.vmas = scullpMap[p].vmas + n /\ scullp'.dev_qset = scullp.dev_qset
  <2> DEFINE m == scullpMap[p].vmas + n
  <2>1. scullp' = Counted(scullp, m) /\ m \in Int
    BY <1>1, <1>2
  <2> HIDE DEF m
  <2>2. /\ DeviceTyped(scullp') /\ scullp'.up = scullp.up /\ scullp'.items = scullp.items
        /\ scullp'.vmas = m /\ scullp'.dev_qset = scullp.dev_qset
    BY <1>2, <2>1, DeviceCounted
  <2> QED  BY <2>2 DEF m
<1>4. /\ MapsTyped(scullpMap') /\ scullpMap'[p] = [pc |-> l, vmas |-> 0]
      /\ \A r \in Procs \ {p} : scullpMap'[r] = scullpMap[r]
  <2>1. MapsTyped(scullpMap)
    BY DEF ScullpInv, ScullpFits
  <2> QED  BY <1>1, <2>1, ScullpMapTo
<1>5. scullpMap'[p].pc = l
  BY <1>4
<1>6. ScullpFits'
  BY <1>2, <1>3, <1>4 DEF ScullpInv, ScullpFits, Unused
<1>7. /\ \/ scullpSeen' = scullpSeen \cup (things \cup raced) /\ l = "yes"
         \/ scullpSeen' = scullpSeen \cup things /\ l = "no"
      /\ things \subseteq {"lost"} /\ raced \subseteq {"raced"}
      /\ "lost" \notin things => scullp.vmas = scullpMap[p].vmas
      /\ "raced" \notin raced => scullp.items[1].order = 0
  <2>1. \/ scullpSeen' = scullpSeen \cup (things \cup raced) /\ l = "yes"
        \/ scullpSeen' = scullpSeen \cup things /\ l = "no"
    BY <1>1, Zenon
  <2>2. /\ things \subseteq {"lost"} /\ raced \subseteq {"raced"}
        /\ "lost" \notin things => scullp.vmas = scullpMap[p].vmas
        /\ "raced" \notin raced => scullp.items[1].order = 0
    BY DEF Scullp!If, Scullp!DevOrder
  <2> HIDE DEF things, raced
  <2> QED  BY <2>1, <2>2
<1> HIDE DEF things, raced
<1>8. Memory(scullp', scullpSeen')
  BY <1>3, <1>7 DEF ScullpInv, Memory
<1>9. "lost" \notin scullpSeen' => scullp'.vmas = Cardinality(Mapped(scullpMap'))
  <2> HAVE "lost" \notin scullpSeen'
  <2>1. scullp.vmas = Cardinality(Mapped(scullpMap)) /\ scullp.vmas = scullpMap[p].vmas
    BY <1>7 DEF ScullpInv, Mapping
  <2>2. Cardinality(Mapped(scullpMap')) = Cardinality(Mapped(scullpMap)) + n
    <3>0. \A r \in Procs \ {p} : scullpMap'[r] = scullpMap[r]
      BY <1>4
    <3>1. /\ p \notin Mapped(scullpMap) /\ p \in Mapped(scullpMap')
             => Cardinality(Mapped(scullpMap')) = Cardinality(Mapped(scullpMap)) + 1
          /\ p \in Mapped(scullpMap) /\ p \notin Mapped(scullpMap')
             => Cardinality(Mapped(scullpMap')) = Cardinality(Mapped(scullpMap)) - 1
          /\ Cardinality(Mapped(scullpMap)) \in Nat
      BY <3>0, MappedFinite
    <3>2. \/ n = 1 /\ p \notin Mapped(scullpMap) /\ p \in Mapped(scullpMap')
          \/ n = -1 /\ p \in Mapped(scullpMap) /\ p \notin Mapped(scullpMap')
      BY <1>1, <1>5 DEF Mapped
    <3> QED  BY <3>1, <3>2
  <2> QED  BY <1>3, <2>1, <2>2
<1>10. Flat(scullp, scullpMap) /\ "raced" \notin scullpSeen' => Flat(scullp', scullpMap')
  BY <1>3, <1>4, <1>5, <1>7 DEF Flat
<1>11. Mapping(scullp', scullpMap', scullpSeen')
  BY <1>7, <1>9, <1>10 DEF ScullpInv, Mapping
<1> QED  BY <1>6, <1>8, <1>11 DEF ScullpInv

(* A page fault looks at the list as read does.                            *)
LEMMA ScullpNopage ==
  ASSUME ScullpInv, NEW p \in Procs, Scullp!Nopage(p), "torn" \notin scullpSeen
  PROVE  ScullpInv'
<1>1. /\ scullpMap[p].pc = "yes" /\ scullp' = scullp /\ scullpProc' = scullpProc /\ scullpMap' = scullpMap
  BY DEF Scullp!Nopage, Scullp!MapAt
<1>2. PICK n \in 0 .. scullp.size - 1 :
        scullpSeen' = scullpSeen \cup (Scullp!If("overrun", Scullp!Found(n).size < 0)
           \cup Scullp!If("other", /\ Scullp!Found(n).size # 0
                            /\ Scullp!Found(n).at # Scullp!Place(n, Scullp!Quantum(Scullp!DevOrder), scullp.dev_qset)))
  BY Zenon DEF Scullp!Nopage, Scullp!Saw
<1>3. scullp.up /\ scullp.items \in Items /\ scullp.items # <<>> /\ scullp.dev_qset \in Nat \ {0} /\ n \in Nat
  <2>1. scullpMap[p] # [pc |-> "no", vmas |-> 0]
    BY <1>1
  <2>2. scullp.up
    BY <2>1 DEF ScullpInv, ScullpFits, Unused
  <2> QED  BY <2>2 DEF ScullpInv, ScullpFits, DeviceTyped
<1> DEFINE d == n \div scullp.dev_qset
           s == n - d * scullp.dev_qset
<1>4. d \in Nat /\ s \in 0..scullp.dev_qset - 1
  BY <1>3, OnePage
<1>5. PICK at : at = [item |-> d, slot |-> s, off |-> 0]
  OBVIOUS
<1>6. /\ Scullp!Found(n).at = at
      /\ Scullp!Found(n).size = IF d < Len(scullp.items) THEN InSlot(scullp.items[d + 1].data, s) ELSE 0
  BY <1>5, ScullpPlain DEF Scullp!Found, Scullp!StepsTo
<1>7. "stale" \notin scullpSeen => ~(Scullp!Found(n).size < 0)
  <2> HAVE "stale" \notin scullpSeen
  <2>1. Arrays(scullp.items, scullp.dev_qset) /\ Slots(scullp.items)
    BY DEF ScullpInv, Memory
  <2>2. CASE d < Len(scullp.items)
    <3> HIDE DEF d, s
    <3>1. d + 1 \in 1..Len(scullp.items)
      BY <1>3, <1>4, <2>2, NotEmpty
    <3>2. scullp.items[d + 1] \in PageItem
      BY <1>3, <3>1 DEF Items
    <3>3. InSlot(scullp.items[d + 1].data, s) \in {0, Pages(scullp.items[d + 1].order)}
      BY <1>3, <1>4, <2>1, <3>1, Looked
    <3>4. Pages(scullp.items[d + 1].order) \in Nat
      BY <3>2 DEF PageItem, Orders
    <3> QED  BY <1>6, <2>2, <3>3, <3>4
  <2>3. CASE ~(d < Len(scullp.items))
    BY <1>6, <2>3
  <2> QED  BY <2>2, <2>3
<1>8. "raced" \notin scullpSeen =>
        Scullp!Found(n).at = Scullp!Place(n, Scullp!Quantum(Scullp!DevOrder), scullp.dev_qset)
  <2> HAVE "raced" \notin scullpSeen
  <2>1. Scullp!DevOrder = 0
    BY <1>1 DEF ScullpInv, Mapping, Flat, Scullp!DevOrder
  <2>2. Scullp!Quantum(Scullp!DevOrder) = 1
    BY <2>1, ScullpPlain, OrderZero
  <2>3. Scullp!Place(n, 1, scullp.dev_qset) = [item |-> d, slot |-> s, off |-> 0]
    BY <1>3, OnePage DEF Scullp!Place
  <2> QED  BY <1>5, <1>6, <2>2, <2>3
<1>9. PICK things : /\ scullpSeen' = scullpSeen \cup things /\ things \subseteq {"overrun", "other"}
                    /\ "overrun" \in things => "stale" \in scullpSeen
                    /\ "other" \in things => "raced" \in scullpSeen
  <2>1. PICK over, other :
          /\ over = Scullp!If("overrun", Scullp!Found(n).size < 0)
          /\ other = Scullp!If("other", /\ Scullp!Found(n).size # 0
               /\ Scullp!Found(n).at # Scullp!Place(n, Scullp!Quantum(Scullp!DevOrder), scullp.dev_qset))
    BY Zenon
  <2>2. scullpSeen' = scullpSeen \cup (over \cup other)
    BY <1>2, <2>1, Zenon
  <2>3. over = IF Scullp!Found(n).size < 0 THEN {"overrun"} ELSE {}
    BY <2>1, Zenon DEF Scullp!If
  <2>4. over \subseteq {"overrun"} /\ ("overrun" \in over => "stale" \in scullpSeen)
    BY <1>7, <2>3
  <2>5. other \subseteq {"other"} /\ ("other" \in other => "raced" \in scullpSeen)
    BY <1>8, <2>1, Zenon DEF Scullp!If
  <2> QED  BY <2>2, <2>4, <2>5
<1>10. ScullpFits'
  BY <1>1, <1>3 DEF ScullpInv, ScullpFits, Unused
<1>11. Memory(scullp', scullpSeen')
  BY <1>1, <1>9 DEF ScullpInv, Memory
<1>12. Mapping(scullp', scullpMap', scullpSeen')
  BY <1>1, <1>9 DEF ScullpInv, Mapping
<1> QED  BY <1>10, <1>11, <1>12 DEF ScullpInv

(* scullv: what a mapping shows, for the same device                       *)
Shown(dev, maps, seen) ==
  /\ "torn" \notin seen /\ "raced" \notin seen => Flat(dev, maps)
  /\ "other" \in seen => "raced" \in seen
ScullvFits ==
  /\ DeviceTyped(scullv) /\ CallsTyped(scullvProc) /\ Reading(scullvProc) /\ MapsTyped(scullvMap)
  /\ Unused(scullv, scullvProc, scullvMap)
ScullvInv == ScullvFits /\ Shown(scullv, scullvMap, scullvSeen)

(* scullv takes the operators of PageItems, too.                           *)
LEMMA ScullvPlain ==
  /\ \A items, n : Scullv!P!Follow(items, n) = Longer(items, n)
  /\ \A items, at, qset : Scullv!P!WithArray(items, at, qset) = ArrayPut(items, at.item + 1, qset)
  /\ \A items, at : Scullv!P!SlotAt(items, at) = InSlot(items[at.item + 1].data, at.slot)
  /\ \A items, at, size : Scullv!P!WithQuantum(items, at, size) = QuantumPut(items, at.item + 1, at.slot, size)
  /\ \A order : Scullv!P!Quantum(order) = Pages(order)
<1>1. \A items, n : Scullv!P!Follow(items, n) = Longer(items, n)
  BY Zenon DEF Scullv!P!Follow, Scullv!P!FreshItem, Longer, Fresh
<1>2. \A items, at, qset : Scullv!P!WithArray(items, at, qset) = ArrayPut(items, at.item + 1, qset)
  BY Zenon DEF Scullv!P!WithArray, ArrayPut
<1>3. \A items, at : Scullv!P!SlotAt(items, at) = InSlot(items[at.item + 1].data, at.slot)
  BY DEF Scullv!P!SlotAt, InSlot
<1>4. \A items, at, size : Scullv!P!WithQuantum(items, at, size) = QuantumPut(items, at.item + 1, at.slot, size)
  BY <1>3, Zenon DEF Scullv!P!WithQuantum, QuantumPut
<1>5. \A order : Scullv!P!Quantum(order) = Pages(order)
  BY Zenon DEF Scullv!P!Quantum, Pages
<1> QED  BY <1>1, <1>2, <1>3, <1>4, <1>5, Zenon

(* Where its reads and writes look                                         *)
LEMMA ScullvPlace ==
  ASSUME NEW order \in Orders, NEW qset \in Nat \ {0}, NEW pos \in Nat, NEW at,
         at = Scullv!P!Place(pos, Scullv!P!Quantum(order), qset)
  PROVE  /\ at.item \in Nat /\ at.slot \in Nat /\ at.off \in 0..Pages(order) - 1
         /\ Pages(order) \in Nat \ {0}
<1> DEFINE q == Pages(order)
<1>1. q \in Nat \ {0}
  BY DEF Orders
<1>2. at.item = pos \div (q * qset) /\ at.slot = (pos % (q * qset)) \div q /\ at.off = pos % q
  BY ScullvPlain DEF Scullv!P!Place
<1> HIDE DEF q
<1>3. at.item \in Nat /\ at.slot \in 0..qset - 1 /\ at.off \in 0..q - 1
  BY <1>1, <1>2, Placing
<1>4. at.slot \in Nat
  BY <1>3
<1> QED  BY <1>1, <1>3, <1>4 DEF q

(* The end of its calls                                                    *)
LEMMA ScullvTo ==
  ASSUME CallsTyped(scullvProc), Reading(scullvProc), NEW p \in Procs, NEW l \in {"out", "open", "aio"},
         Scullv!P!To(p, l)
  PROVE  CallsTyped(scullvProc') /\ Reading(scullvProc')
<1> DEFINE out == [pc |-> l, order |-> 0, qset |-> 0]
<1>1. [Scullv!P!Out EXCEPT !.pc = l] = out
  BY DEF Scullv!P!Out
<1>2. scullvProc' = [scullvProc EXCEPT ![p] = out]
  BY <1>1, Zenon DEF Scullv!P!To
<1>3. out \in [pc : {"out", "open", "read", "write", "aio"}, order : Orders, qset : Nat] /\ out.pc = l
  BY OrderZero
<1> HIDE DEF out
<1>4. /\ CallsTyped(scullvProc') /\ scullvProc'[p] = out
      /\ \A r \in Procs \ {p} : scullvProc'[r] = scullvProc[r]
  BY <1>2, <1>3 DEF CallsTyped
<1> QED  BY <1>3, <1>4 DEF Reading

(* A step that leaves the mappings alone, and the order of the first item  *)
LEMMA ScullvUse ==
  ASSUME ScullvInv, scullv.up, CallsTyped(scullvProc'), Reading(scullvProc'), scullvMap' = scullvMap,
         DeviceTyped(scullv'), scullv'.up, scullv'.items[1].order = scullv.items[1].order,
         NEW things, scullvSeen' = scullvSeen \cup things, "other" \notin things
  PROVE  ScullvInv'
<1>1. ScullvFits'
  BY DEF ScullvInv, ScullvFits, Unused
<1>2. Shown(scullv', scullvMap', scullvSeen')
  BY DEF ScullvInv, Shown, Flat
<1> QED  BY <1>1, <1>2 DEF ScullvInv

(* Its write grows the list as that of scullp does; first items keep their *)
(* order.                                                                  *)
LEMMA ScullvWrite ==
  ASSUME ScullvInv, NEW p \in Procs, Scullv!P!WriteLocked(p)
  PROVE  ScullvInv'
<1>1. PICK pos \in scullv.work.positions, count \in 1 .. 2, end \in {"ok", "noarray", "noquantum", "fault"} :
        Scullv!P!At(p, "write") /\ Scullv!P!WriteAt(p, pos, count, end)
  BY Zenon DEF Scullv!P!WriteLocked
<1>2. PICK my, at, followed, items, full, want :
        /\ my = scullvProc[p]
        /\ at = Scullv!P!Place(pos, Scullv!P!Quantum(my.order), my.qset)
        /\ followed = Scullv!P!Follow(scullv.items, at.item)
        /\ items = Scullv!P!WithArray(followed, at, my.qset)
        /\ full = Scullv!P!WithQuantum(items, at, Scullv!P!Quantum(items[at.item + 1].order))
        /\ want = Scullv!P!Cut(count, Scullv!P!Quantum(my.order) - at.off)
  BY Zenon
<1>3. PICK over, late :
        /\ over = Scullv!P!Outcome(p, at, end \in {"ok", "fault"} /\
             (Scullv!P!SlotAt(full, at) < 0 \/ Scullv!P!Outside(at.off, want, Scullv!P!SlotAt(full, at))))
        /\ late = Scullv!P!If("stale", items # followed /\ my.qset # scullv.dev_qset)
  BY Zenon
<1>4. /\ my.pc = "write"
      /\ \/ scullv' = [scullv EXCEPT !.items = followed]
         \/ scullv' = [scullv EXCEPT !.items = items]
         \/ scullv' = [scullv EXCEPT !.items = full]
         \/ scullv' = [scullv EXCEPT !.items = full, !.size = IF @ < pos + want THEN pos + want ELSE @]
      /\ scullvSeen' = scullvSeen \cup (over \cup late)
      /\ Scullv!P!Finish(p) /\ scullvMap' = scullvMap
  BY <1>1, <1>2, <1>3, Zenon DEF Scullv!P!At, Scullv!P!Saw, Scullv!P!WriteAt
<1>5. /\ my.order \in Orders /\ my.qset \in Nat \ {0} /\ scullv.up /\ pos \in Nat
      /\ scullv.items \in Items /\ scullv.items # <<>> /\ scullv.size \in Nat
  <2>1. /\ DeviceTyped(scullv) /\ CallsTyped(scullvProc) /\ Reading(scullvProc)
        /\ Unused(scullv, scullvProc, scullvMap)
    BY Zenon DEF ScullvInv, ScullvFits
  <2>2. scullvProc[p].pc \in {"read", "write"}
    BY <1>2, <1>4, Zenon
  <2>3. my = scullvProc[p]
    BY <1>2, Zenon
  <2> QED  BY <2>1, <2>2, <2>3, Caller
<1>6. at.item \in Nat /\ at.slot \in Nat /\ at.off \in 0..Pages(my.order) - 1 /\ Pages(my.order) \in Nat \ {0}
  <2>1. at = Scullv!P!Place(pos, Scullv!P!Quantum(my.order), my.qset)
    BY <1>2, Zenon
  <2>2. my.order \in Orders /\ my.qset \in Nat \ {0} /\ pos \in Nat
    BY <1>5, ZenonT(40)
  <2> QED  BY <2>1, <2>2, ScullvPlace
<1> DEFINE k == at.item + 1
<1>7. /\ followed = Longer(scullv.items, at.item)
      /\ items = ArrayPut(followed, k, my.qset)
      /\ full = QuantumPut(items, k, at.slot, Pages(items[k].order))
      /\ want = IF count < Pages(my.order) - at.off THEN count ELSE Pages(my.order) - at.off
  <2>1. want = IF count < Pages(my.order) - at.off THEN count ELSE Pages(my.order) - at.off
    BY <1>2, ScullvPlain DEF Scullv!P!Cut, Scullv!P!Least
  <2> QED  BY <1>2, <2>1, ScullvPlain
<1>8. want \in Nat /\ scullv.size \in Nat /\ (IF scullv.size < pos + want THEN pos + want ELSE scullv.size) \in Nat
  <2>1. want \in Nat
    BY <1>6, <1>7
  <2> QED  BY <1>5, <2>1
<1>9. /\ followed \in Items /\ followed # <<>> /\ k \in 1..Len(followed)
      /\ followed[1].order = scullv.items[1].order
  <2>1. /\ followed \in Items /\ k \in 1..Len(followed) /\ Len(scullv.items) =< Len(followed)
        /\ \A i \in 1..Len(followed) : followed[i] = IF i =< Len(scullv.items) THEN scullv.items[i] ELSE Fresh
    BY <1>5, <1>6, <1>7, Followed
  <2>2. 1 \in 1..Len(scullv.items) /\ Len(scullv.items) \in Nat /\ Len(followed) \in Nat
    BY <1>5, <2>1, NotEmpty
  <2>3. Len(<<>>) = 0
    OBVIOUS
  <2> QED  BY <2>1, <2>2, <2>3
<1>10. /\ items \in Items /\ items # <<>> /\ k \in 1..Len(items) /\ items[k].data # <<>>
       /\ items[1].order = scullv.items[1].order
  <2> HIDE DEF k
  <2>1. HasArray(ArrayPut(followed, k, my.qset), followed, k, my.qset)
    BY <1>5, <1>9, ArrayThere
  <2>2. HasArray(items, followed, k, my.qset)
    BY <1>7, <2>1
  <2>3. /\ items \in Items /\ Len(items) = Len(followed) /\ items[k].data # <<>>
        /\ \A i \in 1..Len(followed) : items[i].order = followed[i].order
    BY <2>2, Zenon DEF HasArray
  <2>4. 1 \in 1..Len(followed) /\ items # <<>>
    BY <1>9, <2>3, NotEmpty
  <2> QED  BY <1>9, <2>3, <2>4
<1>11. full \in Items /\ full # <<>> /\ full[1].order = scullv.items[1].order
  <2>0. Pages(items[k].order) \in Nat
    <3>1. items[k] \in PageItem
      BY <1>10 DEF Items
    <3> QED  BY <3>1 DEF PageItem, Orders
  <2>3. HasQuantum(QuantumPut(items, k, at.slot, Pages(items[k].order)), items, k, at.slot,
                   Pages(items[k].order))
    BY <1>6, <1>10, <2>0, QuantumThere
  <2>4. HasQuantum(full, items, k, at.slot, Pages(items[k].order))
    BY <1>7, <2>3
  <2>1. /\ full \in Items /\ Len(full) = Len(items)
        /\ \A i \in 1..Len(items) : full[i].order = items[i].order
    BY <2>4, Zenon DEF HasQuantum
  <2>2. 1 \in 1..Len(items)
    BY <1>10, NotEmpty
  <2>5. full # <<>>
    BY <1>10, <2>1, NotEmpty
  <2> QED  BY <1>10, <2>1, <2>2, <2>5
<1>12. "other" \notin over \cup late
  <2>1. "other" \notin over
    BY <1>3 DEF Scullv!P!Outcome, Scullv!P!If
  <2>2. "other" \notin late
    BY <1>3 DEF Scullv!P!If
  <2> QED  BY <2>1, <2>2
<1>13. CallsTyped(scullvProc') /\ Reading(scullvProc') /\ DeviceTyped(scullv)
  BY <1>4, ScullvTo DEF Scullv!P!Finish, ScullvInv, ScullvFits
<1>14. ASSUME NEW list \in Items, list # <<>>, list[1].order = scullv.items[1].order,
              NEW size \in Nat, scullv' = With(scullv, list, size)
       PROVE  ScullvInv'
  <2> DEFINE dev2 == With(scullv, list, size)
  <2>1. DeviceTyped(dev2) /\ dev2.up = scullv.up
    BY <1>13, <1>14, DeviceItems, Zenon
  <2>2. dev2.items = list
    BY <1>13, <1>14, DeviceItems
  <2>3. scullv' = dev2
    BY <1>14
  <2> HIDE DEF dev2
  <2>4. DeviceTyped(scullv') /\ scullv'.up /\ scullv'.items[1].order = scullv.items[1].order
    BY <1>5, <1>14, <2>1, <2>2, <2>3
  <2>5. CallsTyped(scullvProc') /\ Reading(scullvProc') /\ scullvMap' = scullvMap
    BY <1>4, <1>13
  <2>6. scullvSeen' = scullvSeen \cup (over \cup late)
    BY <1>4
  <2> QED  BY <1>5, <1>12, <2>4, <2>5, <2>6, ScullvUse, Zenon
<1>15. ASSUME NEW list \in Items, list # <<>>, list[1].order = scullv.items[1].order,
              scullv' = [scullv EXCEPT !.items = list]
       PROVE  ScullvInv'
  <2>1. scullv' = With(scullv, list, scullv.size)
    BY <1>13, <1>15, DeviceWith, Zenon
  <2> QED  BY <1>8, <1>14, <1>15, <2>1, Zenon
<1>16. ASSUME scullv' = [scullv EXCEPT !.items = full, !.size = IF @ < pos + want THEN pos + want ELSE @]
       PROVE  ScullvInv'
  <2>1. scullv' = With(scullv, full, IF scullv.size < pos + want THEN pos + want ELSE scullv.size)
    BY <1>16 DEF With
  <2> QED  BY <1>8, <1>11, <1>14, <2>1, Zenon
<1> QED  BY <1>4, <1>9, <1>10, <1>11, <1>15, <1>16, Zenon

(* So does its read.                                                       *)
LEMMA ScullvRead ==
  ASSUME ScullvInv, NEW p \in Procs, Scullv!P!ReadLocked(p)
  PROVE  ScullvInv'
<1>1. PICK pos \in scullv.work.positions, count \in 1 .. 2 : Scullv!P!At(p, "read") /\ Scullv!P!ReadAt(p, pos, count)
  BY Zenon DEF Scullv!P!ReadLocked
<1>2. PICK my, at, items, size, want :
        /\ my = scullvProc[p]
        /\ at = Scullv!P!Place(pos, Scullv!P!Quantum(my.order), my.qset)
        /\ items = Scullv!P!Follow(scullv.items, at.item)
        /\ size = Scullv!P!SlotAt(items, at)
        /\ want = Scullv!P!Least(Scullv!P!Least(count, scullv.size - pos), Scullv!P!Quantum(my.order) - at.off)
  BY Zenon
<1>3. PICK over : over = Scullv!P!Outcome(p, at, size # 0 /\ (size < 0 \/ Scullv!P!Outside(at.off, want, size)))
  BY Zenon
<1>4. /\ my.pc = "read"
      /\ \/ scullv' = scullv /\ scullvSeen' = scullvSeen
         \/ scullv' = [scullv EXCEPT !.items = items] /\ scullvSeen' = scullvSeen \cup over
      /\ Scullv!P!Finish(p) /\ scullvMap' = scullvMap
  BY <1>1, <1>2, <1>3, Zenon DEF Scullv!P!At, Scullv!P!Saw, Scullv!P!ReadAt
<1>5. /\ my.order \in Orders /\ my.qset \in Nat \ {0} /\ scullv.up /\ pos \in Nat
      /\ scullv.items \in Items /\ scullv.items # <<>> /\ scullv.size \in Nat
  <2>1. /\ DeviceTyped(scullv) /\ CallsTyped(scullvProc) /\ Reading(scullvProc)
        /\ Unused(scullv, scullvProc, scullvMap)
    BY Zenon DEF ScullvInv, ScullvFits
  <2>2. scullvProc[p].pc \in {"read", "write"}
    BY <1>2, <1>4, Zenon
  <2>3. my = scullvProc[p]
    BY <1>2, Zenon
  <2> QED  BY <2>1, <2>2, <2>3, Caller
<1>6. at.item \in Nat
  <2>1. at = Scullv!P!Place(pos, Scullv!P!Quantum(my.order), my.qset)
    BY <1>2, Zenon
  <2> QED  BY <1>5, <2>1, ScullvPlace
<1>7. items = Longer(scullv.items, at.item)
  BY <1>2, ScullvPlain
<1>8. items \in Items /\ items # <<>> /\ items[1].order = scullv.items[1].order
  <2>1. /\ items \in Items /\ at.item + 1 \in 1..Len(items) /\ Len(scullv.items) =< Len(items)
        /\ \A i \in 1..Len(items) : items[i] = IF i =< Len(scullv.items) THEN scullv.items[i] ELSE Fresh
    BY <1>5, <1>6, <1>7, Followed
  <2>2. 1 \in 1..Len(scullv.items) /\ Len(scullv.items) \in Nat /\ Len(items) \in Nat
    BY <1>5, <2>1, NotEmpty
  <2>3. Len(<<>>) = 0
    OBVIOUS
  <2> QED  BY <2>1, <2>2, <2>3
<1>9. "other" \notin over
  BY <1>3 DEF Scullv!P!Outcome, Scullv!P!If
<1>10. CallsTyped(scullvProc') /\ Reading(scullvProc') /\ DeviceTyped(scullv)
  BY <1>4, ScullvTo DEF Scullv!P!Finish, ScullvInv, ScullvFits
<1>11. CASE scullv' = scullv /\ scullvSeen' = scullvSeen
  <2>1. scullvSeen' = scullvSeen \cup {}
    BY <1>11
  <2>2. DeviceTyped(scullv') /\ scullv'.up /\ scullv'.items[1].order = scullv.items[1].order
    BY <1>5, <1>10, <1>11
  <2> QED  BY <1>4, <1>5, <1>10, <2>1, <2>2, ScullvUse
<1>12. CASE scullv' = [scullv EXCEPT !.items = items] /\ scullvSeen' = scullvSeen \cup over
  <2>1. PICK room \in Nat : scullv' = With(scullv, items, room)
    BY <1>5, <1>10, <1>12, DeviceWith, Zenon
  <2> DEFINE dev2 == With(scullv, items, room)
  <2>2. DeviceTyped(dev2) /\ dev2.up = scullv.up
    BY <1>8, <1>10, DeviceItems, Zenon
  <2>3. dev2.items = items
    BY <1>8, <1>10, DeviceItems
  <2>4. scullv' = dev2
    BY <2>1
  <2> HIDE DEF dev2
  <2>5. DeviceTyped(scullv') /\ scullv'.up /\ scullv'.items[1].order = scullv.items[1].order
    BY <1>5, <1>8, <2>2, <2>3, <2>4
  <2> QED  BY <1>4, <1>5, <1>9, <1>10, <1>12, <2>5, ScullvUse, Zenon
<1> QED  BY <1>4, <1>11, <1>12, Zenon

(* scullv starts as scullp does.                                           *)
LEMMA ScullvInit ==
  ASSUME Scullv!Init
  PROVE  ScullvInv
<1>1. scullv = Bare(ScullvShape)
  BY Zenon DEF Scullv!Init, Scullv!P!Init, Scullv!P!Unloaded, Scullv!P!Idle, Bare
<1>2. Rest(scullvProc, scullvMap)
  BY OrderZero DEF Scullv!Init, Scullv!P!Init, Scullv!P!Out, Scullv!P!NoMap, Rest, CallsTyped, MapsTyped
<1>3. scullvSeen = {}
  BY DEF Scullv!Init, Scullv!P!Init
<1>4. /\ DeviceTyped(scullv) /\ Reading(scullvProc) /\ Unused(scullv, scullvProc, scullvMap)
  BY <1>1, <1>2, ShapesTyped, BareFits
<1>5. Shown(scullv, scullvMap, scullvSeen)
  BY <1>2, <1>3 DEF Rest, Shown, Flat
<1> QED  BY <1>2, <1>4, <1>5 DEF ScullvInv, ScullvFits, Rest

(* Its load                                                                *)
LEMMA ScullvLoad ==
  ASSUME ScullvInv, Scullv!Load
  PROVE  ScullvInv'
<1>0. PICK work \in ScullvWorkloads : \E shape \in work.shapes :
        /\ ~scullv.up
        /\ scullv' = Loaded(scullv, work, shape, Scullv!P!NewList(shape.order))
        /\ UNCHANGED <<scullvProc, scullvMap, scullvSeen>>
  BY Zenon DEF Scullv!Load, Scullv!P!Load, Loaded
<1>1. PICK shape \in work.shapes :
        /\ ~scullv.up
        /\ scullv' = Loaded(scullv, work, shape, Scullv!P!NewList(shape.order))
        /\ UNCHANGED <<scullvProc, scullvMap, scullvSeen>>
  BY <1>0
<1>2. WorkTyped(work) /\ ShapeTyped(shape)
  BY ShapesTyped DEF WorkTyped
<1> DEFINE items == Scullv!P!NewList(shape.order)
<1>3. items = <<[order |-> shape.order, data |-> <<>>]>>
  BY DEF Scullv!P!NewList, Scullv!P!FreshItem
<1> HIDE DEF items
<1>4. items \in Items /\ items # <<>>
  <2>1. shape.order \in Orders
    BY <1>2 DEF ShapeTyped
  <2> QED  BY <1>3, <2>1, NewItems
<1>5. DeviceTyped(scullv') /\ scullv'.up
  <2>1. DeviceTyped(scullv) /\ scullv' = Loaded(scullv, work, shape, items)
    BY <1>1 DEF ScullvInv, ScullvFits, items
  <2> QED  BY <1>2, <1>4, <2>1, DeviceLoaded
<1>6. ScullvFits'
  BY <1>1, <1>5 DEF ScullvInv, ScullvFits, Unused
<1>7. ~\E p \in Procs : scullvMap[p].pc = "yes"
  BY <1>1 DEF ScullvInv, ScullvFits, Unused
<1>8. Shown(scullv', scullvMap', scullvSeen')
  BY <1>1, <1>7 DEF ScullvInv, Shown, Flat
<1> QED  BY <1>6, <1>8 DEF ScullvInv

(* Its removal                                                             *)
LEMMA ScullvUnload ==
  ASSUME ScullvInv, Scullv!Unload
  PROVE  ScullvInv'
<1>1. PICK damage : damage = Scullv!P!If("kept", scullv.vmas # 0)
                             \cup Scullv!P!If("overrun", Scullv!P!PastArray(scullv.items, scullv.dev_qset))
                             \cup Scullv!P!If("leak", Scullv!P!Forgotten(scullv.items, scullv.dev_qset))
  BY Zenon
<1>2. /\ scullv.up /\ \A p \in Procs : scullvProc[p].pc = "out" /\ scullvMap[p] = [pc |-> "no", vmas |-> 0]
      /\ scullv' = Bare(ScullvShape)
      /\ scullvSeen' = {} \/ scullvSeen' = scullvSeen \cup damage
      /\ scullvProc' = scullvProc /\ scullvMap' = scullvMap
  BY <1>1, Zenon DEF Scullv!Unload, Scullv!P!Unload, Scullv!P!Unloaded, Scullv!P!Idle, Bare, Scullv!P!At, Scullv!P!NoMap
<1>3. Rest(scullvProc', scullvMap')
  BY <1>2 DEF Rest, ScullvInv, ScullvFits
<1>4. "other" \notin damage
  BY <1>1 DEF Scullv!P!If
<1>5. DeviceTyped(scullv') /\ Reading(scullvProc') /\ Unused(scullv', scullvProc', scullvMap')
  BY <1>2, <1>3, ShapesTyped, BareFits
<1>6. Shown(scullv', scullvMap', scullvSeen')
  BY <1>2, <1>4 DEF ScullvInv, Shown, Flat
<1> QED  BY <1>3, <1>5, <1>6 DEF ScullvInv, ScullvFits, Rest

(* The calls that keep the list                                            *)
LEMMA ScullvCalls ==
  ASSUME ScullvInv, NEW p \in Procs,
         \/ Scullv!Release(p) \/ Scullv!DeferredOp(p) \/ Scullv!ReadStart(p) \/ Scullv!WriteStart(p)
  PROVE  ScullvInv'
<1>1. /\ scullvProc[p].pc # "out"
      /\ scullv' = scullv /\ scullvMap' = scullvMap /\ scullvSeen' = scullvSeen \cup {}
  BY DEF Scullv!Release, Scullv!DeferredOp, Scullv!ReadStart, Scullv!WriteStart,
         Scullv!P!Release, Scullv!P!DeferredOp, Scullv!P!Transfer, Scullv!P!At
<1>2. scullv.up /\ CallsTyped(scullvProc) /\ Reading(scullvProc) /\ DeviceTyped(scullv)
  BY <1>1 DEF ScullvInv, ScullvFits, Unused
<1>3. CASE Scullv!Release(p) \/ Scullv!DeferredOp(p)
  <2>1. PICK l \in {"out", "open", "aio"} : Scullv!P!To(p, l)
    BY <1>3 DEF Scullv!Release, Scullv!DeferredOp, Scullv!P!Release, Scullv!P!DeferredOp
  <2>2. CallsTyped(scullvProc') /\ Reading(scullvProc')
    BY <1>2, <2>1, ScullvTo
  <2> QED  BY <1>1, <1>2, <2>2, ScullvUse
<1>4. ASSUME NEW l \in {"read", "write"}, Scullv!P!Transfer(p, l) PROVE ScullvInv'
  <2> DEFINE call == [pc |-> l, order |-> Scullv!P!DevOrder, qset |-> scullv.dev_qset]
  <2>1. scullvProc' = [scullvProc EXCEPT ![p] = call]
    BY <1>4, Zenon DEF Scullv!P!Transfer
  <2>2. scullv.items \in Items /\ scullv.items # <<>> /\ scullv.dev_qset \in Nat \ {0}
    BY <1>2 DEF DeviceTyped
  <2>3. Scullv!P!DevOrder \in Orders
    BY <2>2, FirstOrder DEF Scullv!P!DevOrder
  <2>4. call \in [pc : {"out", "open", "read", "write", "aio"}, order : Orders, qset : Nat] /\ call.qset # 0
    BY <2>2, <2>3
  <2> HIDE DEF call
  <2>5. CallsTyped(scullvProc') /\ Reading(scullvProc')
    BY <1>2, <2>1, <2>4 DEF CallsTyped, Reading
  <2> QED  BY <1>1, <1>2, <2>5, ScullvUse
<1> QED  BY <1>3, <1>4 DEF Scullv!ReadStart, Scullv!WriteStart

(* Its open, which trims unless a mapping is counted                       *)
LEMMA ScullvOpen ==
  ASSUME ScullvInv, NEW p \in Procs, Scullv!OpenFile(p)
  PROVE  ScullvInv'
<1>1. CallsTyped(scullvProc') /\ Reading(scullvProc') /\ scullv.up /\ scullvMap' = scullvMap
  BY ScullvTo DEF Scullv!OpenFile, Scullv!P!OpenFile, ScullvInv, ScullvFits
<1> DEFINE items == Scullv!P!NewList(scullv.order)
           damage == Scullv!P!If("overrun", Scullv!P!PastArray(scullv.items, scullv.dev_qset))
                     \cup Scullv!P!If("leak", Scullv!P!Forgotten(scullv.items, scullv.dev_qset))
           torn == Scullv!P!If("torn", \E q \in Procs : scullvMap[q].pc = "yes")
<1>2. \/ scullv' = scullv /\ scullvSeen' = scullvSeen
      \/ scullv' = Trimmed(scullv, items) /\ scullvSeen' = scullvSeen \cup (damage \cup torn)
  BY Zenon DEF Scullv!OpenFile, Scullv!P!OpenFile, Scullv!P!Trim, Scullv!P!Saw, Trimmed
<1>3. CASE scullv' = scullv /\ scullvSeen' = scullvSeen
  <2>1. scullvSeen' = scullvSeen \cup {}
    BY <1>3
  <2>2. DeviceTyped(scullv') /\ scullv'.up /\ scullv'.items[1].order = scullv.items[1].order
    BY <1>1, <1>3 DEF ScullvInv, ScullvFits
  <2> QED  BY <1>1, <2>1, <2>2, ScullvUse
<1>4. CASE scullv' = Trimmed(scullv, items) /\ scullvSeen' = scullvSeen \cup (damage \cup torn)
  <2>1. DeviceTyped(scullv) /\ scullv.order \in Orders
    BY <1>1 DEF ScullvInv, ScullvFits, DeviceTyped
  <2>2. items = <<[order |-> scullv.order, data |-> <<>>]>>
    BY DEF Scullv!P!NewList, Scullv!P!FreshItem
  <2>3. "other" \notin damage /\ "other" \notin torn
    BY DEF Scullv!P!If
  <2>4. "torn" \in torn <=> \E q \in Procs : scullvMap[q].pc = "yes"
    BY DEF Scullv!P!If
  <2> HIDE DEF items, damage, torn
  <2>5. items \in Items /\ items # <<>>
    BY <2>1, <2>2, NewItems
  <2>6. DeviceTyped(scullv') /\ scullv'.up
    BY <1>1, <1>4, <2>1, <2>5, DeviceTrimmed
  <2>7. ScullvFits'
    BY <1>1, <2>6 DEF ScullvInv, ScullvFits, Unused
  <2>8. "torn" \notin scullvSeen' => Flat(scullv', scullvMap')
    BY <1>1, <1>4, <2>4 DEF Flat
  <2>9. Shown(scullv', scullvMap', scullvSeen')
    BY <1>4, <2>3, <2>8 DEF ScullvInv, Shown
  <2> QED  BY <2>7, <2>9 DEF ScullvInv
<1> QED  BY <1>2, <1>3, <1>4, Zenon

(* Its ioctl                                                               *)
LEMMA ScullvIoctl ==
  ASSUME ScullvInv, NEW p \in Procs, Scullv!Ioctl(p)
  PROVE  ScullvInv'
<1>1. PICK shape \in scullv.work.shapes \cup {ScullvShape} : scullv' = Set(scullv, shape)
  BY Zenon DEF Scullv!Ioctl, Scullv!P!Ioctl, Set
<1>2. /\ scullvProc[p].pc = "open" /\ scullvProc' = scullvProc /\ scullvMap' = scullvMap
      /\ scullvSeen' = scullvSeen \cup {}
  BY DEF Scullv!Ioctl, Scullv!P!Ioctl, Scullv!P!At
<1>3. scullv.up /\ DeviceTyped(scullv) /\ CallsTyped(scullvProc) /\ Reading(scullvProc)
  BY <1>2 DEF ScullvInv, ScullvFits, Unused
<1>4. ShapeTyped(shape)
  BY <1>3, ShapesTyped DEF DeviceTyped, WorkTyped
<1>5. DeviceTyped(scullv') /\ scullv'.up = scullv.up /\ scullv'.items = scullv.items
  BY <1>1, <1>3, <1>4, DeviceSet
<1> QED  BY <1>2, <1>3, <1>5, ScullvUse

(* Its proc file                                                           *)
LEMMA ScullvPeek ==
  ASSUME ScullvInv, Scullv!ProcRead
  PROVE  ScullvInv'
<1> DEFINE things == Scullv!P!If("overrun", Scullv!P!PastArray(<<scullv.items[Len(scullv.items)]>>, scullv.dev_qset))
<1>1. scullv.up /\ scullv' = scullv /\ scullvProc' = scullvProc /\ scullvMap' = scullvMap
  BY DEF Scullv!ProcRead, Scullv!P!ProcRead
<1>2. scullvSeen' = scullvSeen \cup things
  BY DEF Scullv!ProcRead, Scullv!P!ProcRead, Scullv!P!Saw
<1>3. "other" \notin things
  BY DEF Scullv!P!If
<1> HIDE DEF things
<1>4. DeviceTyped(scullv') /\ CallsTyped(scullvProc') /\ Reading(scullvProc')
  BY <1>1 DEF ScullvInv, ScullvFits
<1> QED  BY <1>1, <1>2, <1>3, <1>4, ScullvUse

(* A step of a mapping                                                     *)
LEMMA ScullvMapTo ==
  ASSUME MapsTyped(scullvMap), NEW p \in Procs, NEW l \in {"no", "inc", "yes", "dec"}, NEW n \in Int, Scullv!P!MapTo(p, l, n)
  PROVE  /\ MapsTyped(scullvMap') /\ scullvMap'[p] = [pc |-> l, vmas |-> n]
         /\ \A r \in Procs \ {p} : scullvMap'[r] = scullvMap[r]
<1>1. scullvMap' = [scullvMap EXCEPT ![p] = [pc |-> l, vmas |-> n]]
  BY Zenon DEF Scullv!P!MapTo
<1> DEFINE m == [pc |-> l, vmas |-> n]
<1>2. m \in [pc : {"no", "inc", "yes", "dec"}, vmas : Int]
  OBVIOUS
<1> HIDE DEF m
<1>3. scullvMap' = [scullvMap EXCEPT ![p] = m]
  BY <1>1 DEF m
<1>4. MapsTyped(scullvMap') /\ scullvMap'[p] = m /\ \A r \in Procs \ {p} : scullvMap'[r] = scullvMap[r]
  BY <1>2, <1>3 DEF MapsTyped
<1> QED  BY <1>4 DEF m

(* An mmap or munmap that begins                                           *)
LEMMA ScullvBegin ==
  ASSUME ScullvInv, NEW p \in Procs, Scullv!Mmap(p) \/ Scullv!Munmap(p)
  PROVE  ScullvInv'
<1>1. PICK l \in {"inc", "dec"} : /\ Scullv!P!MapTo(p, l, scullv.vmas)
                                  /\ l = "inc" => scullvMap[p].pc = "no" /\ scullvProc[p].pc = "open"
                                  /\ l = "dec" => scullvMap[p].pc = "yes"
  BY DEF Scullv!Mmap, Scullv!Munmap, Scullv!P!MmapAny, Scullv!P!Munmap, Scullv!P!MapAt, Scullv!P!MayMap, Scullv!P!At
<1>2. scullv' = scullv /\ scullvProc' = scullvProc /\ scullvSeen' = scullvSeen
  BY DEF Scullv!Mmap, Scullv!Munmap, Scullv!P!MmapAny, Scullv!P!Munmap
<1>3. scullv.up
  BY <1>1 DEF ScullvInv, ScullvFits, Unused
<1>4. /\ MapsTyped(scullvMap') /\ scullvMap'[p] = [pc |-> l, vmas |-> scullv.vmas]
      /\ \A r \in Procs \ {p} : scullvMap'[r] = scullvMap[r]
  <2>1. MapsTyped(scullvMap) /\ scullv.vmas \in Int
    BY DEF ScullvInv, ScullvFits, DeviceTyped
  <2> QED  BY <1>1, <2>1, ScullvMapTo
<1>5. scullvMap'[p].pc = l
  BY <1>4
<1>6. ScullvFits'
  BY <1>2, <1>3, <1>4 DEF ScullvInv, ScullvFits, Unused
<1>7. Flat(scullv, scullvMap) => Flat(scullv', scullvMap')
  BY <1>2, <1>4, <1>5 DEF Flat
<1>8. Shown(scullv', scullvMap', scullvSeen')
  BY <1>2, <1>7, Zenon DEF ScullvInv, Shown
<1> QED  BY <1>6, <1>8 DEF ScullvInv

(* A mapping of a higher order is marked when it is counted.               *)
LEMMA ScullvCount ==
  ASSUME ScullvInv, NEW p \in Procs, Scullv!VmaOpen(p) \/ Scullv!VmaClose(p)
  PROVE  ScullvInv'
<1>1. PICK was \in {"inc", "dec"}, l \in {"yes", "no"}, n \in {1, -1} :
        /\ scullvMap[p].pc = was /\ Scullv!P!MapTo(p, l, 0)
        /\ scullv' = Counted(scullv, scullvMap[p].vmas + n)
        /\ \/ /\ l = "yes"
              /\ scullvSeen' = scullvSeen \cup (Scullv!P!If("lost", scullv.vmas # scullvMap[p].vmas)
                                                \cup Scullv!P!If("raced", Scullv!P!DevOrder # 0))
           \/ l = "no" /\ scullvSeen' = scullvSeen \cup Scullv!P!If("lost", scullv.vmas # scullvMap[p].vmas)
  <2>1. CASE Scullv!VmaOpen(p)
    BY <2>1 DEF Scullv!VmaOpen, Scullv!P!VmaOpen, Scullv!P!MapAt, Scullv!P!Saw, Counted
  <2>2. CASE Scullv!VmaClose(p)
    BY <2>2 DEF Scullv!VmaClose, Scullv!P!VmaClose, Scullv!P!MapAt, Scullv!P!Saw, Counted
  <2> QED  BY <2>1, <2>2
<1> DEFINE things == Scullv!P!If("lost", scullv.vmas # scullvMap[p].vmas)
           raced == Scullv!P!If("raced", Scullv!P!DevOrder # 0)
<1>2. /\ scullv.up /\ scullvProc' = scullvProc /\ DeviceTyped(scullv)
      /\ scullvMap[p].vmas + n \in Int
  <2>1. scullvMap[p] # [pc |-> "no", vmas |-> 0]
    BY <1>1
  <2>2. scullv.up
    BY <2>1 DEF ScullvInv, ScullvFits, Unused
  <2>3. scullvMap[p].vmas \in Int
    BY DEF ScullvInv, ScullvFits, MapsTyped
  <2>4. scullvMap[p].vmas + n \in Int
    BY <2>3
  <2>5. scullvProc' = scullvProc
    BY DEF Scullv!VmaOpen, Scullv!VmaClose, Scullv!P!VmaOpen, Scullv!P!VmaClose
  <2> QED  BY <2>2, <2>4, <2>5 DEF ScullvInv, ScullvFits
<1>3. DeviceTyped(scullv') /\ scullv'.up = scullv.up /\ scullv'.items = scullv.items
  <2> DEFINE m == scullvMap[p].vmas + n
  <2>1. scullv' = Counted(scullv, m) /\ m \in Int
    BY <1>1, <1>2
  <2> HIDE DEF m
  <2> QED  BY <1>2, <2>1, DeviceCounted
<1>4. /\ MapsTyped(scullvMap') /\ scullvMap'[p] = [pc |-> l, vmas |-> 0]
      /\ \A r \in Procs \ {p} : scullvMap'[r] = scullvMap[r]
  <2>1. MapsTyped(scullvMap)
    BY DEF ScullvInv, ScullvFits
  <2> QED  BY <1>1, <2>1, ScullvMapTo
<1>5. scullvMap'[p].pc = l
  BY <1>4
<1>6. ScullvFits'
  BY <1>2, <1>3, <1>4 DEF ScullvInv, ScullvFits, Unused
<1>7. /\ \/ scullvSeen' = scullvSeen \cup (things \cup raced) /\ l = "yes"
         \/ scullvSeen' = scullvSeen \cup things /\ l = "no"
      /\ things \subseteq {"lost"} /\ raced \subseteq {"raced"}
      /\ "raced" \notin raced => scullv.items[1].order = 0
  <2>1. \/ scullvSeen' = scullvSeen \cup (things \cup raced) /\ l = "yes"
        \/ scullvSeen' = scullvSeen \cup things /\ l = "no"
    BY <1>1, Zenon
  <2>2. /\ things \subseteq {"lost"} /\ raced \subseteq {"raced"}
        /\ "raced" \notin raced => scullv.items[1].order = 0
    BY DEF Scullv!P!If, Scullv!P!DevOrder
  <2> HIDE DEF things, raced
  <2> QED  BY <2>1, <2>2
<1> HIDE DEF things, raced
<1>8. Flat(scullv, scullvMap) /\ "raced" \notin scullvSeen' => Flat(scullv', scullvMap')
  BY <1>3, <1>4, <1>5, <1>7 DEF Flat
<1>9. Shown(scullv', scullvMap', scullvSeen')
  BY <1>7, <1>8 DEF ScullvInv, Shown
<1> QED  BY <1>6, <1>9 DEF ScullvInv

(* A page fault finds the page of read where the order is 0; a mapping of  *)
(* a device of a higher order was marked when it was counted.              *)
LEMMA ScullvNopage ==
  ASSUME ScullvInv, NEW p \in Procs, Scullv!Nopage(p), "torn" \notin scullvSeen
  PROVE  ScullvInv'
<1>1. /\ scullvMap[p].pc = "yes" /\ scullv' = scullv /\ scullvProc' = scullvProc /\ scullvMap' = scullvMap
  BY DEF Scullv!Nopage, Scullv!P!Nopage, Scullv!P!MapAt
<1>2. PICK n \in 0 .. scullv.size - 1 :
        scullvSeen' = scullvSeen \cup (Scullv!P!If("overrun", Scullv!P!Found(n).size < 0)
           \cup Scullv!P!If("other", /\ Scullv!P!Found(n).size # 0
                            /\ Scullv!P!Found(n).at # Scullv!P!Place(n, Scullv!P!Quantum(Scullv!P!DevOrder), scullv.dev_qset)))
  BY Zenon DEF Scullv!Nopage, Scullv!P!Nopage, Scullv!P!Saw
<1>3. scullv.up /\ scullv.dev_qset \in Nat \ {0} /\ n \in Nat
  <2>1. scullvMap[p] # [pc |-> "no", vmas |-> 0]
    BY <1>1
  <2>2. scullv.up
    BY <2>1 DEF ScullvInv, ScullvFits, Unused
  <2> QED  BY <2>2 DEF ScullvInv, ScullvFits, DeviceTyped
<1> DEFINE d == n \div scullv.dev_qset
           s == n - d * scullv.dev_qset
<1>4. Scullv!P!Found(n).at = [item |-> d, slot |-> s, off |-> 0]
  BY DEF Scullv!P!Found, Scullv!P!StepsTo
<1>5. "raced" \notin scullvSeen =>
        Scullv!P!Found(n).at = Scullv!P!Place(n, Scullv!P!Quantum(Scullv!P!DevOrder), scullv.dev_qset)
  <2> HAVE "raced" \notin scullvSeen
  <2>1. Scullv!P!DevOrder = 0
    BY <1>1 DEF ScullvInv, Shown, Flat, Scullv!P!DevOrder
  <2>2. Scullv!P!Quantum(Scullv!P!DevOrder) = 1
    BY <2>1, ScullvPlain, OrderZero
  <2>3. Scullv!P!Place(n, 1, scullv.dev_qset) = [item |-> d, slot |-> s, off |-> 0]
    BY <1>3, OnePage DEF Scullv!P!Place
  <2> QED  BY <1>4, <2>2, <2>3
<1>6. PICK things : scullvSeen' = scullvSeen \cup things /\ ("other" \in things => "raced" \in scullvSeen)
  <2>1. PICK over, other :
          /\ over = Scullv!P!If("overrun", Scullv!P!Found(n).size < 0)
          /\ other = Scullv!P!If("other", /\ Scullv!P!Found(n).size # 0
               /\ Scullv!P!Found(n).at # Scullv!P!Place(n, Scullv!P!Quantum(Scullv!P!DevOrder), scullv.dev_qset))
    BY Zenon
  <2>2. scullvSeen' = scullvSeen \cup (over \cup other)
    BY <1>2, <2>1, Zenon
  <2>3. over \subseteq {"overrun"}
    BY <2>1, Zenon DEF Scullv!P!If
  <2>4. other \subseteq {"other"} /\ ("other" \in other => "raced" \in scullvSeen)
    BY <1>5, <2>1, Zenon DEF Scullv!P!If
  <2> QED  BY <2>2, <2>3, <2>4
<1>7. ScullvFits'
  BY <1>1, <1>3 DEF ScullvInv, ScullvFits, Unused
<1>8. Shown(scullv', scullvMap', scullvSeen')
  BY <1>1, <1>6 DEF ScullvInv, Shown, Flat
<1> QED  BY <1>7, <1>8 DEF ScullvInv

(* Every step of scullv keeps what scullv keeps.                           *)
LEMMA ScullvNext ==
  ASSUME ScullvInv, Scullv!Next
  PROVE  ScullvInv'
<1>1. "torn" \notin scullvSeen
  BY DEF Scullv!Next, Scullv!P!Damage
<1>2. CASE Scullv!Load \/ Scullv!Unload \/ Scullv!ProcRead
  BY <1>2, ScullvLoad, ScullvUnload, ScullvPeek
<1>3. ASSUME NEW p \in Procs, Scullv!Step(p) PROVE ScullvInv'
  <2>1. CASE Scullv!OpenFile(p) \/ Scullv!Ioctl(p)
    BY <2>1, ScullvOpen, ScullvIoctl
  <2>2. CASE Scullv!Release(p) \/ Scullv!DeferredOp(p) \/ Scullv!ReadStart(p) \/ Scullv!WriteStart(p)
    BY <2>2, ScullvCalls
  <2>3. CASE Scullv!ReadLocked(p) \/ Scullv!WriteLocked(p)
    BY <2>3, ScullvRead, ScullvWrite DEF Scullv!ReadLocked, Scullv!WriteLocked
  <2>4. CASE Scullv!Mmap(p) \/ Scullv!Munmap(p)
    BY <2>4, ScullvBegin
  <2>5. CASE Scullv!VmaOpen(p) \/ Scullv!VmaClose(p)
    BY <2>5, ScullvCount
  <2>6. CASE Scullv!Nopage(p)
    BY <1>1, <2>6, ScullvNopage
  <2> QED  BY <1>3, <2>1, <2>2, <2>3, <2>4, <2>5, <2>6, Zenon DEF Scullv!Step
<1> QED  BY <1>2, <1>3, Zenon DEF Scullv!Next

(* Every step of scullp keeps what scullp keeps.                           *)
LEMMA ScullpNext ==
  ASSUME ScullpInv, Scullp!Next
  PROVE  ScullpInv'
<1>1. "torn" \notin scullpSeen
  BY DEF Scullp!Next, Scullp!Damage
<1>2. CASE Scullp!Load \/ Scullp!Unload \/ Scullp!ProcRead
  BY <1>2, ScullpLoad, ScullpUnload, ScullpPeek
<1>3. ASSUME NEW p \in Procs, Scullp!Step(p) PROVE ScullpInv'
  <2>1. CASE Scullp!OpenFile(p) \/ Scullp!Ioctl(p)
    BY <2>1, ScullpOpen, ScullpIoctl
  <2>2. CASE Scullp!Release(p) \/ Scullp!DeferredOp(p) \/ Scullp!Transfer(p, "read") \/ Scullp!Transfer(p, "write")
    BY <2>2, ScullpCalls
  <2>3. CASE Scullp!ReadLocked(p) \/ Scullp!WriteLocked(p)
    BY <2>3, ScullpRead, ScullpWrite
  <2>4. CASE Scullp!Mmap(p) \/ Scullp!Munmap(p)
    BY <2>4, ScullpBegin
  <2>5. CASE Scullp!VmaOpen(p) \/ Scullp!VmaClose(p)
    BY <2>5, ScullpCount
  <2>6. CASE Scullp!Nopage(p)
    BY <1>1, <2>6, ScullpNopage
  <2> QED  BY <1>3, <2>1, <2>2, <2>3, <2>4, <2>5, <2>6, Zenon DEF Scullp!Step
<1> QED  BY <1>2, <1>3, Zenon DEF Scullp!Next

(* sculld: a driver on the bus has its module, which is loading or up, and *)
(* a device its driver. Nothing but load and unload touches either.        *)
SculldInv ==
  /\ "up" \in DOMAIN sculld
  /\ DOMAIN sculldBus = {"driver", "device", "loading"}
  /\ sculldBus.driver => sculld.up \/ sculldBus.loading \/ "nomem" \in sculldSeen
  /\ sculldBus.device => sculld.up /\ sculldBus.driver
  /\ sculldBus.loading => ~sculld.up /\ sculldBus.driver

(* What a use of the device does                                           *)
LEMMA SculldUse ==
  ASSUME "up" \in DOMAIN sculld, Sculld!ProcRead \/ \E p \in Procs : Sculld!Step(p)
  PROVE  "up" \in DOMAIN sculld' /\ sculld'.up = sculld.up /\ sculldSeen \subseteq sculldSeen'
<1>1. CASE Sculld!ProcRead
  BY <1>1 DEF Sculld!ProcRead, Sculld!P!ProcRead, Sculld!P!Saw
<1>2. ASSUME NEW p \in Procs, Sculld!Step(p)
      PROVE  "up" \in DOMAIN sculld' /\ sculld'.up = sculld.up /\ sculldSeen \subseteq sculldSeen'
  <2>1. CASE Sculld!OpenFile(p)
    BY <2>1 DEF Sculld!OpenFile, Sculld!P!OpenFile, Sculld!P!Trim, Sculld!P!Saw
  <2>2. CASE Sculld!Ioctl(p)
    BY <2>2 DEF Sculld!Ioctl, Sculld!P!Ioctl
  <2>3. CASE Sculld!Release(p) \/ Sculld!DeferredOp(p) \/ Sculld!ReadStart(p) \/ Sculld!WriteStart(p)
    BY <2>3 DEF Sculld!Release, Sculld!DeferredOp, Sculld!ReadStart, Sculld!WriteStart,
                Sculld!P!Release, Sculld!P!DeferredOp, Sculld!P!Transfer
  <2>4. CASE Sculld!ReadLocked(p)
    <3>1. PICK pos, count : Sculld!P!ReadAt(p, pos, count)
      BY <2>4, Zenon DEF Sculld!ReadLocked, Sculld!P!ReadLocked
    <3>2. PICK items, things :
            \/ sculld' = sculld /\ sculldSeen' = sculldSeen
            \/ sculld' = [sculld EXCEPT !.items = items] /\ sculldSeen' = sculldSeen \cup things
      BY <3>1, Zenon DEF Sculld!P!ReadAt, Sculld!P!Saw
    <3> QED  BY <3>2
  <2>5. CASE Sculld!WriteLocked(p)
    <3>1. PICK pos, count, end : Sculld!P!WriteAt(p, pos, count, end)
      BY <2>5, Zenon DEF Sculld!WriteLocked, Sculld!P!WriteLocked
    <3>2. /\ \E items : \/ sculld' = [sculld EXCEPT !.items = items]
                        \/ \E to : sculld' = [sculld EXCEPT !.items = items, !.size = IF @ < to THEN to ELSE @]
          /\ \E things : sculldSeen' = sculldSeen \cup things
      BY <3>1, Zenon DEF Sculld!P!WriteAt, Sculld!P!Saw
    <3> QED  BY <3>2
  <2>6. CASE Sculld!Mmap(p) \/ Sculld!Munmap(p)
    BY <2>6 DEF Sculld!Mmap, Sculld!Munmap, Sculld!P!Mmap, Sculld!P!Munmap
  <2>7. CASE Sculld!VmaOpen(p) \/ Sculld!VmaClose(p)
    BY <2>7 DEF Sculld!VmaOpen, Sculld!VmaClose, Sculld!P!VmaOpen, Sculld!P!VmaClose, Sculld!P!Saw
  <2>8. CASE Sculld!Nopage(p)
    <3>1. sculld' = sculld /\ \E things : sculldSeen' = sculldSeen \cup things
      BY <2>8, Zenon DEF Sculld!Nopage, Sculld!P!Saw
    <3> QED  BY <3>1
  <2> QED  BY <1>2, <2>1, <2>2, <2>3, <2>4, <2>5, <2>6, <2>7, <2>8, Zenon DEF Sculld!Step
<1> QED  BY <1>1, <1>2

(* sculld starts with no driver.                                           *)
LEMMA SculldInit ==
  ASSUME Sculld!Init
  PROVE  SculldInv
BY DEF Sculld!Init, Sculld!P!Init, Sculld!P!Unloaded, SculldInv

(* Load registers the driver before the devices and leaves it there when   *)
(* it has no memory; removal takes both away.                              *)
LEMMA SculldNext ==
  ASSUME SculldInv, Sculld!Next
  PROVE  SculldInv'
<1>1. CASE Sculld!LoadDriver
  BY <1>1 DEF Sculld!LoadDriver, Sculld!RegisterDriver, SculldInv
<1>2. CASE Sculld!LoadDevices
  <2>1. sculldBus.loading
    BY <1>2 DEF Sculld!LoadDevices
  <2>2. CASE Sculld!P!Load /\ Sculld!RegisterDevice
    <3>1. "up" \in DOMAIN sculld' /\ sculld'.up
      <4>1. PICK work, shape :
              sculld' = [sculld EXCEPT !.up = TRUE, !.work = work, !.order = shape.order, !.qset = shape.qset,
                           !.items = Sculld!P!NewList(shape.order), !.dev_qset = shape.qset]
        BY <2>2, Zenon DEF Sculld!P!Load
      <4> QED  BY <4>1 DEF SculldInv
    <3> QED  BY <2>1, <2>2, <3>1 DEF Sculld!RegisterDevice, SculldInv
  <2>3. CASE /\ sculldSeen' = sculldSeen \cup {"nomem"}
             /\ sculldBus' = [sculldBus EXCEPT !.loading = FALSE]
             /\ UNCHANGED <<sculld, sculldProc, sculldMap>>
    BY <2>1, <2>3 DEF SculldInv
  <2> QED  BY <1>2, <2>2, <2>3, Zenon DEF Sculld!LoadDevices
<1>3. CASE Sculld!Unload
  <2>1. sculld.up /\ "up" \in DOMAIN sculld' /\ sculld'.up = FALSE
    BY <1>3 DEF Sculld!Unload, Sculld!P!Unload, Sculld!P!Unloaded
  <2>2. sculldBus' = [sculldBus EXCEPT !.driver = FALSE, !.device = FALSE]
    BY <1>3 DEF Sculld!Unload, Sculld!Unregister
  <2> QED  BY <2>1, <2>2 DEF SculldInv
<1>4. CASE (Sculld!ProcRead \/ \E p \in Procs : Sculld!Step(p)) /\ UNCHANGED sculldBus
  <2>1. "up" \in DOMAIN sculld' /\ sculld'.up = sculld.up /\ sculldSeen \subseteq sculldSeen'
    BY <1>4, SculldUse DEF SculldInv
  <2> QED  BY <1>4, <2>1 DEF SculldInv
<1> QED  BY <1>1, <1>2, <1>3, <1>4, Zenon DEF Sculld!Next

(* Its device, and its calls                                               *)
CacheTyped(dev) ==
  /\ DOMAIN dev = {"phase", "cache", "quantum", "qset", "items", "dev_quantum", "dev_qset", "size"}
  /\ dev.phase \in {"out", "devices", "up"} /\ dev.cache \in Nat
  /\ dev.quantum \in Nat \ {0} /\ dev.qset \in Nat \ {0} /\ dev.items \in Items /\ dev.size \in Nat
  /\ dev.phase # "out" => dev.items # <<>> /\ dev.dev_quantum \in Nat \ {0} /\ dev.dev_qset \in Nat \ {0}
  /\ dev.cache = 0 <=> dev.phase # "up"
SharesTyped(calls) ==
  /\ calls \in [Procs -> [pc : {"out", "open", "read", "write", "aio"}, quantum : Nat, qset : Nat]]
  /\ \A p \in Procs : calls[p].pc \in {"read", "write"} => calls[p].quantum # 0 /\ calls[p].qset # 0

(* The arrays have the length that the device thinks unless a write was    *)
(* late, and memory is touched outside only then or where quanta have      *)
(* grown.                                                                  *)
Cached(dev, seen) ==
  /\ Boxes(dev.items, dev.cache)
  /\ "stale" \notin seen => Arrays(dev.items, dev.dev_qset)
  /\ "overrun" \in seen \/ "leak" \in seen => "stale" \in seen \/ "grown" \in seen

(* A file that is open before there is a cache was opened early.           *)
EarlyOpens(dev, calls, seen) ==
  /\ (\E p \in Procs : calls[p].pc # "out") =>
       /\ dev.phase = "devices" => "early" \in seen
       /\ dev.phase = "out" => "freed" \in seen
  /\ "nocache" \in seen \/ "freed" \in seen => "early" \in seen

ScullcInv ==
  /\ CacheTyped(scullc) /\ SharesTyped(scullcProc)
  /\ Cached(scullc, scullcSeen) /\ EarlyOpens(scullc, scullcProc, scullcSeen)

(* The operators of PageItems are these.                                   *)
LEMMA ScullcPlain ==
  /\ \A items, n : Scullc!Follow(items, n) = Longer(items, n)
  /\ \A items, at, qset : Scullc!WithArray(items, at, qset) = ArrayPut(items, at.item + 1, qset)
  /\ \A items, at : Scullc!SlotAt(items, at) = InSlot(items[at.item + 1].data, at.slot)
  /\ \A items, at, size : Scullc!WithQuantum(items, at, size) = QuantumPut(items, at.item + 1, at.slot, size)
<1>1. \A items, n : Scullc!Follow(items, n) = Longer(items, n)
  BY Zenon DEF Scullc!Follow, Scullc!FreshItem, Longer, Fresh
<1>2. \A items, at, qset : Scullc!WithArray(items, at, qset) = ArrayPut(items, at.item + 1, qset)
  BY Zenon DEF Scullc!WithArray, ArrayPut
<1>3. \A items, at : Scullc!SlotAt(items, at) = InSlot(items[at.item + 1].data, at.slot)
  BY DEF Scullc!SlotAt, InSlot
<1>4. \A items, at, size : Scullc!WithQuantum(items, at, size) = QuantumPut(items, at.item + 1, at.slot, size)
  BY <1>3, Zenon DEF Scullc!WithQuantum, QuantumPut
<1> QED  BY <1>1, <1>2, <1>3, <1>4, Zenon

(* Where a read or a write of scullc looks                                 *)
LEMMA ScullcPlace ==
  ASSUME NEW quantum \in Nat \ {0}, NEW qset \in Nat \ {0}, NEW pos \in Nat, NEW at,
         at = Scullc!Place(pos, quantum, qset)
  PROVE  at.item \in Nat /\ at.slot \in 0..qset - 1 /\ at.slot \in Nat /\ at.off \in 0..quantum - 1
<1>1. at.item = pos \div (quantum * qset) /\ at.slot = (pos % (quantum * qset)) \div quantum /\ at.off = pos % quantum
  BY DEF Scullc!Place
<1>2. at.item \in Nat /\ at.slot \in 0..qset - 1 /\ at.off \in 0..quantum - 1
  BY <1>1, Placing
<1>3. at.slot \in Nat
  BY <1>2
<1> QED  BY <1>2, <1>3

(* The end of a call of scullc                                             *)
LEMMA ScullcTo ==
  ASSUME SharesTyped(scullcProc), NEW p \in Procs, NEW l \in {"out", "open", "aio"}, Scullc!To(p, l)
  PROVE  /\ SharesTyped(scullcProc') /\ scullcProc'[p].pc = l
         /\ \A r \in Procs \ {p} : scullcProc'[r] = scullcProc[r]
<1> DEFINE out == [pc |-> l, quantum |-> 0, qset |-> 0]
<1>1. [Scullc!Out EXCEPT !.pc = l] = out
  BY DEF Scullc!Out
<1>2. scullcProc' = [scullcProc EXCEPT ![p] = out]
  BY <1>1, Zenon DEF Scullc!To
<1>3. out \in [pc : {"out", "open", "read", "write", "aio"}, quantum : Nat, qset : Nat] /\ out.pc = l
  OBVIOUS
<1> HIDE DEF out
<1> QED  BY <1>2, <1>3 DEF SharesTyped

(* Devices after a use, a trim, a load and an ioctl                        *)
LEMMA CacheItems ==
  ASSUME NEW dev, CacheTyped(dev), NEW items \in Items, items # <<>>, NEW size \in Nat
  PROVE  /\ CacheTyped(With(dev, items, size)) /\ With(dev, items, size).items = items
         /\ With(dev, items, size).phase = dev.phase /\ With(dev, items, size).cache = dev.cache
         /\ With(dev, items, size).dev_qset = dev.dev_qset
<1> DEFINE dev2 == With(dev, items, size)
<1>1. dev2 = [f \in DOMAIN dev |-> IF f = "size" THEN size ELSE IF f = "items" THEN items ELSE dev[f]]
  BY DEF CacheTyped, With
<1>2. /\ DOMAIN dev2 = {"phase", "cache", "quantum", "qset", "items", "dev_quantum", "dev_qset", "size"}
      /\ dev2.phase = dev.phase /\ dev2.cache = dev.cache /\ dev2.quantum = dev.quantum /\ dev2.qset = dev.qset
      /\ dev2.items = items /\ dev2.dev_quantum = dev.dev_quantum /\ dev2.dev_qset = dev.dev_qset
      /\ dev2.size = size
  BY <1>1 DEF CacheTyped
<1> HIDE DEF dev2
<1>3. CacheTyped(dev2)
  BY <1>2 DEF CacheTyped
<1> QED  BY <1>2, <1>3 DEF dev2

(* What read and write make of the device is of that form.                 *)
LEMMA CacheWith ==
  ASSUME NEW dev, CacheTyped(dev), NEW dev2, NEW items
  PROVE  /\ dev2 = [dev EXCEPT !.items = items] => dev2 = With(dev, items, dev.size)
         /\ \A end : dev2 = [dev EXCEPT !.items = items, !.size = IF @ < end THEN end ELSE @]
                      => dev2 = With(dev, items, IF dev.size < end THEN end ELSE dev.size)
<1>1. ASSUME dev2 = [dev EXCEPT !.items = items] PROVE dev2 = With(dev, items, dev.size)
  <2>1. DOMAIN dev = {"phase", "cache", "quantum", "qset", "items", "dev_quantum", "dev_qset", "size"}
    BY DEF CacheTyped
  <2>2. dev2 = [f \in DOMAIN dev |-> IF f = "items" THEN items ELSE dev[f]]
    BY <1>1, <2>1
  <2>3. With(dev, items, dev.size) =
          [f \in DOMAIN dev |-> IF f = "size" THEN dev.size ELSE IF f = "items" THEN items ELSE dev[f]]
    BY <2>1 DEF With
  <2> QED  BY <2>2, <2>3
<1>2. ASSUME NEW end, dev2 = [dev EXCEPT !.items = items, !.size = IF @ < end THEN end ELSE @]
      PROVE  dev2 = With(dev, items, IF dev.size < end THEN end ELSE dev.size)
  BY <1>2 DEF With
<1> QED  BY <1>1, <1>2

(* A device that was trimmed, loaded, given its cache or set by ioctl      *)
Rewound(dev, items) ==
  [dev EXCEPT !.items = items, !.size = 0, !.dev_quantum = dev.quantum, !.dev_qset = dev.qset]
Started(dev, shape, items) ==
  [dev EXCEPT !.phase = "devices", !.items = items,
              !.quantum = shape.quantum, !.dev_quantum = shape.quantum,
              !.qset = shape.qset, !.dev_qset = shape.qset]
Stocked(dev) == [dev EXCEPT !.phase = "up", !.cache = dev.quantum]
Tuned(dev, shape) == [dev EXCEPT !.quantum = shape.quantum, !.qset = shape.qset]

(* Trim                                                                    *)
LEMMA CacheRewound ==
  ASSUME NEW dev, CacheTyped(dev), NEW items \in Items, items # <<>>
  PROVE  /\ CacheTyped(Rewound(dev, items)) /\ Rewound(dev, items).items = items
         /\ Rewound(dev, items).phase = dev.phase
<1> DEFINE dev2 == Rewound(dev, items)
<1>1. dev2 = [f \in DOMAIN dev |-> IF f = "dev_qset" THEN dev.qset ELSE IF f = "dev_quantum" THEN dev.quantum
                                   ELSE IF f = "size" THEN 0 ELSE IF f = "items" THEN items ELSE dev[f]]
  BY DEF CacheTyped, Rewound
<1>2. /\ DOMAIN dev2 = {"phase", "cache", "quantum", "qset", "items", "dev_quantum", "dev_qset", "size"}
      /\ dev2.phase = dev.phase /\ dev2.cache = dev.cache /\ dev2.quantum = dev.quantum /\ dev2.qset = dev.qset
      /\ dev2.items = items /\ dev2.dev_quantum = dev.quantum /\ dev2.dev_qset = dev.qset /\ dev2.size = 0
  BY <1>1 DEF CacheTyped
<1> HIDE DEF dev2
<1>3. CacheTyped(dev2)
  BY <1>2 DEF CacheTyped
<1> QED  BY <1>2, <1>3 DEF dev2

(* The load of the devices, which can be opened from then on               *)
LEMMA CacheStarted ==
  ASSUME NEW dev, CacheTyped(dev), dev.phase = "out", NEW shape, shape.quantum \in Nat \ {0}, shape.qset \in Nat \ {0},
         NEW items \in Items, items # <<>>
  PROVE  /\ CacheTyped(Started(dev, shape, items)) /\ Started(dev, shape, items).items = items
         /\ Started(dev, shape, items).phase = "devices"
<1> DEFINE dev2 == Started(dev, shape, items)
<1>1. dev2 = [f \in DOMAIN dev |-> IF f \in {"dev_qset", "qset"} THEN shape.qset
                                   ELSE IF f \in {"dev_quantum", "quantum"} THEN shape.quantum
                                   ELSE IF f = "items" THEN items ELSE IF f = "phase" THEN "devices" ELSE dev[f]]
  BY DEF CacheTyped, Started
<1>2. /\ DOMAIN dev2 = {"phase", "cache", "quantum", "qset", "items", "dev_quantum", "dev_qset", "size"}
      /\ dev2.phase = "devices" /\ dev2.cache = dev.cache /\ dev2.quantum = shape.quantum /\ dev2.qset = shape.qset
      /\ dev2.items = items /\ dev2.dev_quantum = shape.quantum /\ dev2.dev_qset = shape.qset /\ dev2.size = dev.size
  BY <1>1 DEF CacheTyped
<1> HIDE DEF dev2
<1>3. CacheTyped(dev2)
  BY <1>2 DEF CacheTyped
<1> QED  BY <1>2, <1>3 DEF dev2

(* The cache, which is made after the devices                              *)
LEMMA CacheStocked ==
  ASSUME NEW dev, CacheTyped(dev), dev.phase = "devices"
  PROVE  /\ CacheTyped(Stocked(dev)) /\ Stocked(dev).items = dev.items
         /\ Stocked(dev).phase = "up" /\ Stocked(dev).dev_qset = dev.dev_qset
<1> DEFINE dev2 == Stocked(dev)
<1>1. dev2 = [f \in DOMAIN dev |-> IF f = "cache" THEN dev.quantum ELSE IF f = "phase" THEN "up" ELSE dev[f]]
  BY DEF CacheTyped, Stocked
<1>2. /\ DOMAIN dev2 = {"phase", "cache", "quantum", "qset", "items", "dev_quantum", "dev_qset", "size"}
      /\ dev2.phase = "up" /\ dev2.cache = dev.quantum /\ dev2.quantum = dev.quantum /\ dev2.qset = dev.qset
      /\ dev2.items = dev.items /\ dev2.dev_quantum = dev.dev_quantum /\ dev2.dev_qset = dev.dev_qset
      /\ dev2.size = dev.size
  BY <1>1 DEF CacheTyped
<1> HIDE DEF dev2
<1>3. CacheTyped(dev2)
  BY <1>2 DEF CacheTyped
<1> QED  BY <1>2, <1>3 DEF dev2

(* An ioctl                                                                *)
LEMMA CacheTuned ==
  ASSUME NEW dev, CacheTyped(dev), NEW shape, shape.quantum \in Nat \ {0}, shape.qset \in Nat \ {0}
  PROVE  /\ CacheTyped(Tuned(dev, shape)) /\ Tuned(dev, shape).items = dev.items
         /\ Tuned(dev, shape).phase = dev.phase /\ Tuned(dev, shape).dev_qset = dev.dev_qset
         /\ Tuned(dev, shape).cache = dev.cache
<1> DEFINE dev2 == Tuned(dev, shape)
<1>1. dev2 = [f \in DOMAIN dev |-> IF f = "qset" THEN shape.qset ELSE IF f = "quantum" THEN shape.quantum ELSE dev[f]]
  BY DEF CacheTyped, Tuned
<1>2. /\ DOMAIN dev2 = {"phase", "cache", "quantum", "qset", "items", "dev_quantum", "dev_qset", "size"}
      /\ dev2.phase = dev.phase /\ dev2.cache = dev.cache /\ dev2.quantum = shape.quantum /\ dev2.qset = shape.qset
      /\ dev2.items = dev.items /\ dev2.dev_quantum = dev.dev_quantum /\ dev2.dev_qset = dev.dev_qset
      /\ dev2.size = dev.size
  BY <1>1 DEF CacheTyped
<1> HIDE DEF dev2
<1>3. CacheTyped(dev2)
  BY <1>2 DEF CacheTyped
<1> QED  BY <1>2, <1>3 DEF dev2

(* A use of the device that touches memory outside only with an excuse     *)
LEMMA ScullcUse ==
  ASSUME ScullcInv, "freed" \notin scullcSeen, NEW p \in Procs, scullcProc[p].pc # "out", Scullc!Finish(p),
         NEW list \in Items, list # <<>>, Boxes(list, scullc.cache), NEW room \in Nat,
         scullc' = With(scullc, list, room),
         NEW things, scullcSeen' = scullcSeen \cup things, things \subseteq {"overrun", "stale", "grown", "nocache"},
         "overrun" \in things => "stale" \in scullcSeen \/ "stale" \in things \/ "grown" \in things,
         "nocache" \in things => scullc.cache = 0,
         "stale" \notin things /\ Arrays(scullc.items, scullc.dev_qset) => Arrays(list, scullc.dev_qset)
  PROVE  ScullcInv'
<1>1. /\ CacheTyped(scullc') /\ scullc'.items = list /\ scullc'.phase = scullc.phase
      /\ scullc'.cache = scullc.cache /\ scullc'.dev_qset = scullc.dev_qset
  <2>1. CacheTyped(scullc)
    BY DEF ScullcInv
  <2> DEFINE dev2 == With(scullc, list, room)
  <2>2. /\ CacheTyped(dev2) /\ dev2.phase = scullc.phase /\ dev2.cache = scullc.cache
        /\ dev2.dev_qset = scullc.dev_qset
    BY <2>1, CacheItems, Zenon
  <2>3. scullc' = dev2 /\ dev2.items = list
    BY <2>1, CacheItems
  <2> HIDE DEF dev2
  <2> QED  BY <2>2, <2>3
<1>2. SharesTyped(scullcProc')
  <2>1. PICK l \in {"open", "aio"} : Scullc!To(p, l)
    BY DEF Scullc!Finish
  <2> QED  BY <2>1, ScullcTo DEF ScullcInv
<1>3. Cached(scullc', scullcSeen')
  BY <1>1, Zenon DEF ScullcInv, Cached
<1>4. scullc.cache = 0 => "early" \in scullcSeen
  BY DEF ScullcInv, CacheTyped, EarlyOpens
<1>5. EarlyOpens(scullc', scullcProc', scullcSeen')
  BY <1>1, <1>4 DEF ScullcInv, EarlyOpens
<1> QED  BY <1>1, <1>2, <1>3, <1>5 DEF ScullcInv

(* A call that leaves the device alone                                     *)
LEMMA ScullcStay ==
  ASSUME ScullcInv, scullc' = scullc, scullcSeen' = scullcSeen, SharesTyped(scullcProc'),
         NEW p \in Procs, scullcProc[p].pc # "out",
         \A r \in Procs \ {p} : scullcProc'[r] = scullcProc[r]
  PROVE  ScullcInv'
<1>1. EarlyOpens(scullc', scullcProc', scullcSeen')
  BY DEF ScullcInv, EarlyOpens
<1> QED  BY <1>1, Zenon DEF ScullcInv

(* A write fills an empty slot from the cache, whatever size it thinks     *)
(* that is: outside of the object only when a write was late or the        *)
(* quantum has grown.                                                      *)
LEMMA ScullcWrite ==
  ASSUME ScullcInv, "freed" \notin scullcSeen, NEW p \in Procs, Scullc!WriteLocked(p)
  PROVE  ScullcInv'
<1>1. PICK pos \in Positions, count \in 1 .. 2, end \in {"ok", "noarray", "noquantum", "fault"} :
        Scullc!At(p, "write") /\ Scullc!WriteAt(p, pos, count, end)
  BY Zenon DEF Scullc!WriteLocked
<1>2. PICK my, at, followed, items, new, full, want :
        /\ my = scullcProc[p]
        /\ at = Scullc!Place(pos, my.quantum, my.qset)
        /\ followed = Scullc!Follow(scullc.items, at.item)
        /\ items = Scullc!WithArray(followed, at, my.qset)
        /\ new = (Scullc!SlotAt(items, at) = 0)
        /\ full = Scullc!WithQuantum(items, at, scullc.cache)
        /\ want = Scullc!Cut(count, my.quantum - at.off)
  BY Zenon
<1>3. PICK none, late, over :
        /\ none = Scullc!If("nocache", end # "noarray" /\ new /\ scullc.cache = 0)
        /\ late = Scullc!If("stale", items # followed /\ my.qset # scullc.dev_qset)
        /\ over = Scullc!Outcome(p, /\ end \in {"ok", "fault"} /\ scullc.cache # 0
                                    /\ \/ new /\ scullc.quantum > scullc.cache
                                       \/ at.off + want > Scullc!SlotAt(full, at))
  BY Zenon
<1>4. /\ my.pc = "write"
      /\ \/ scullc' = [scullc EXCEPT !.items = followed]
         \/ scullc' = [scullc EXCEPT !.items = items]
         \/ scullc' = [scullc EXCEPT !.items = full]
         \/ scullc' = [scullc EXCEPT !.items = full, !.size = IF @ < pos + want THEN pos + want ELSE @]
      /\ scullcSeen' = scullcSeen \cup (none \cup late \cup over)
      /\ Scullc!Finish(p)
  BY <1>1, <1>2, <1>3, Zenon DEF Scullc!At, Scullc!Saw, Scullc!WriteAt
<1>5. /\ my.quantum \in Nat \ {0} /\ my.qset \in Nat \ {0} /\ pos \in Nat /\ scullc.phase # "out"
      /\ scullc.items \in Items /\ scullc.items # <<>> /\ scullc.size \in Nat /\ scullc.cache \in Nat
      /\ scullc.dev_quantum \in Nat \ {0} /\ scullc.dev_qset \in Nat \ {0} /\ scullc.quantum \in Nat
  <2>1. my.quantum \in Nat \ {0} /\ my.qset \in Nat \ {0}
    BY <1>2, <1>4 DEF ScullcInv, SharesTyped
  <2>2. scullc.phase # "out"
    BY <1>2, <1>4 DEF ScullcInv, EarlyOpens
  <2>3. pos \in Nat
    BY ShapesAssumption
  <2> QED  BY <2>1, <2>2, <2>3 DEF ScullcInv, CacheTyped
<1>6. at.item \in Nat /\ at.slot \in 0..my.qset - 1 /\ at.slot \in Nat /\ at.off \in 0..my.quantum - 1
  BY <1>2, <1>5, ScullcPlace
<1> DEFINE k == at.item + 1
<1>7. /\ followed = Longer(scullc.items, at.item)
      /\ items = ArrayPut(followed, k, my.qset)
      /\ full = QuantumPut(items, k, at.slot, scullc.cache)
      /\ Scullc!SlotAt(full, at) = InSlot(full[k].data, at.slot)
      /\ want = IF count < my.quantum - at.off THEN count ELSE my.quantum - at.off
  <2>1. want = IF count < my.quantum - at.off THEN count ELSE my.quantum - at.off
    BY <1>2 DEF Scullc!Cut, Scullc!Least
  <2> QED  BY <1>2, <2>1, ScullcPlain
<1>7a. want \in Nat /\ want =< my.quantum - at.off /\ at.off \in Nat /\ my.quantum \in Nat
  <2>1. at.off \in Nat /\ my.quantum \in Nat /\ my.quantum - at.off \in Nat
    BY <1>5, <1>6
  <2>2. count \in Nat
    BY <1>5
  <2>3. want = IF count < my.quantum - at.off THEN count ELSE my.quantum - at.off
    BY <1>7, Zenon
  <2> QED  BY <2>1, <2>2, <2>3
<1>8. /\ followed \in Items /\ followed # <<>> /\ k \in 1..Len(followed) /\ Boxes(followed, scullc.cache)
      /\ Arrays(scullc.items, scullc.dev_qset) => Arrays(followed, scullc.dev_qset)
  BY <1>5, <1>6, <1>7, BoxesLonger DEF ScullcInv, Cached
<1>9. /\ items \in Items /\ items # <<>> /\ k \in 1..Len(items) /\ Boxes(items, scullc.cache)
      /\ items[k].data # <<>>
      /\ Arrays(scullc.items, scullc.dev_qset) /\ (my.qset = scullc.dev_qset \/ items = followed)
           => Arrays(items, scullc.dev_qset)
  <2> DEFINE W == ArrayPut(followed, k, my.qset)
  <2>1. /\ W \in Items /\ Len(W) = Len(followed) /\ Boxes(W, scullc.cache) /\ W[k].data # <<>>
        /\ \A qset : Arrays(followed, qset) /\ my.qset = qset => Arrays(W, qset)
    BY <1>5, <1>8, BoxesArray, Zenon
  <2>2. items = W
    BY <1>7
  <2> HIDE DEF W
  <2>3. items # <<>>
    BY <1>8, <2>1, <2>2, NotEmpty
  <2> QED  BY <1>8, <2>1, <2>2, <2>3
<1>10. /\ full \in Items /\ full # <<>> /\ Boxes(full, scullc.cache)
       /\ Arrays(items, scullc.dev_qset) => Arrays(full, scullc.dev_qset)
  <2> DEFINE U == QuantumPut(items, k, at.slot, scullc.cache)
  <2>1. /\ U \in Items /\ Len(U) = Len(items) /\ Boxes(U, scullc.cache)
        /\ \A qset : Arrays(items, qset) => Arrays(U, qset)
    BY <1>5, <1>6, <1>9, BoxesQuantum, Zenon
  <2>2. full = U
    BY <1>7
  <2> HIDE DEF U
  <2>3. full # <<>>
    BY <1>9, <2>1, <2>2, NotEmpty
  <2> QED  BY <2>1, <2>2, <2>3
<1>11. ASSUME "stale" \notin scullcSeen, my.quantum = scullc.dev_quantum, my.qset = scullc.dev_qset,
              ~(scullc.quantum > scullc.cache), ~(scullc.dev_quantum > scullc.cache)
       PROVE  ~((new /\ scullc.quantum > scullc.cache) \/ at.off + want > Scullc!SlotAt(full, at))
  <2>1. Arrays(items, my.qset)
    BY <1>9, <1>11 DEF ScullcInv, Cached
  <2>2. InSlot(QuantumPut(items, k, at.slot, scullc.cache)[k].data, at.slot) = scullc.cache
    <3>1. my.qset \in Nat
      BY <1>5
    <3>2. /\ items \in Items /\ k \in 1..Len(items) /\ Boxes(items, scullc.cache) /\ items[k].data # <<>>
          /\ scullc.cache \in Nat /\ at.slot \in 0..my.qset - 1
      BY <1>5, <1>6, <1>9
    <3> HIDE DEF k
    <3> QED  BY <2>1, <3>1, <3>2, BoxFound
  <2>3. Scullc!SlotAt(full, at) = scullc.cache
    BY <1>7, <2>2
  <2>4. at.off + want =< my.quantum
    BY <1>7a
  <2>5. at.off + want \in Nat
    BY <1>7a
  <2> QED  BY <1>5, <1>11, <2>3, <2>4, <2>5
<1> DEFINE things == none \cup late \cup over
<1>12. /\ things \subseteq {"overrun", "stale", "grown", "nocache"}
       /\ "overrun" \in things => "stale" \in scullcSeen \/ "stale" \in things \/ "grown" \in things
       /\ "nocache" \in things => scullc.cache = 0
       /\ "stale" \notin things => my.qset = scullc.dev_qset \/ items = followed
  <2> DEFINE bad == (new /\ scullc.quantum > scullc.cache) \/ at.off + want > Scullc!SlotAt(full, at)
  <2>1. over = IF ~(end \in {"ok", "fault"} /\ scullc.cache # 0 /\ bad) THEN {}
               ELSE {"overrun"}
                    \cup (IF my.quantum # scullc.dev_quantum \/ my.qset # scullc.dev_qset THEN {"stale"} ELSE {})
                    \cup (IF scullc.quantum > scullc.cache \/ scullc.dev_quantum > scullc.cache THEN {"grown"} ELSE {})
    BY <1>2, <1>3, Zenon DEF Scullc!Outcome, Scullc!If
  <2>2. late = IF items # followed /\ my.qset # scullc.dev_qset THEN {"stale"} ELSE {}
    BY <1>3, Zenon DEF Scullc!If
  <2>3. none = IF end # "noarray" /\ new /\ scullc.cache = 0 THEN {"nocache"} ELSE {}
    BY <1>3, Zenon DEF Scullc!If
  <2>4. bad => \/ "stale" \in scullcSeen \/ my.quantum # scullc.dev_quantum \/ my.qset # scullc.dev_qset
               \/ scullc.quantum > scullc.cache \/ scullc.dev_quantum > scullc.cache
    <3>1. ASSUME bad, "stale" \notin scullcSeen, my.quantum = scullc.dev_quantum, my.qset = scullc.dev_qset,
                 ~(scullc.quantum > scullc.cache), ~(scullc.dev_quantum > scullc.cache)
          PROVE  FALSE
      <4>1. ~bad
        BY <1>11, <3>1
      <4> QED  BY <3>1, <4>1
    <3>2. ~bad \/ "stale" \in scullcSeen \/ my.quantum # scullc.dev_quantum \/ my.qset # scullc.dev_qset
          \/ scullc.quantum > scullc.cache \/ scullc.dev_quantum > scullc.cache
      BY <3>1
    <3> QED  BY <3>2
  <2> HIDE DEF bad
  <2> QED  BY <2>1, <2>2, <2>3, <2>4
<1>13. (IF scullc.size < pos + want THEN pos + want ELSE scullc.size) \in Nat
  BY <1>5, <1>7a
<1>14. scullcProc[p].pc # "out" /\ scullcSeen' = scullcSeen \cup things /\ Scullc!Finish(p) /\ CacheTyped(scullc)
  BY <1>2, <1>4 DEF ScullcInv
<1> HIDE DEF things
<1>15. ASSUME NEW list \in Items, list # <<>>, Boxes(list, scullc.cache),
              "stale" \notin things /\ Arrays(scullc.items, scullc.dev_qset) => Arrays(list, scullc.dev_qset),
              NEW room \in Nat, scullc' = With(scullc, list, room)
       PROVE  ScullcInv'
  BY <1>12, <1>14, <1>15, ScullcUse, Zenon
<1>16. "stale" \notin things /\ Arrays(scullc.items, scullc.dev_qset)
         => Arrays(followed, scullc.dev_qset) /\ Arrays(items, scullc.dev_qset) /\ Arrays(full, scullc.dev_qset)
  BY <1>8, <1>9, <1>10, <1>12
<1>17. \/ scullc' = With(scullc, followed, scullc.size)
       \/ scullc' = With(scullc, items, scullc.size)
       \/ scullc' = With(scullc, full, scullc.size)
       \/ scullc' = With(scullc, full, IF scullc.size < pos + want THEN pos + want ELSE scullc.size)
  BY <1>4, <1>14, CacheWith, Zenon
<1> QED  BY <1>5, <1>8, <1>9, <1>10, <1>13, <1>15, <1>16, <1>17, Zenon

(* A read stays in the object if the array and the quantum are those it    *)
(* took.                                                                   *)
LEMMA ScullcRead ==
  ASSUME ScullcInv, "freed" \notin scullcSeen, NEW p \in Procs, Scullc!ReadLocked(p)
  PROVE  ScullcInv'
<1>1. PICK pos \in Positions, count \in 1 .. 2 : Scullc!At(p, "read") /\ Scullc!ReadAt(p, pos, count)
  BY Zenon DEF Scullc!ReadLocked
<1>2. PICK my, at, items, size, want :
        /\ my = scullcProc[p]
        /\ at = Scullc!Place(pos, my.quantum, my.qset)
        /\ items = Scullc!Follow(scullc.items, at.item)
        /\ size = Scullc!SlotAt(items, at)
        /\ want = Scullc!Least(Scullc!Least(count, scullc.size - pos), my.quantum - at.off)
  BY Zenon
<1>3. PICK over : over = Scullc!Outcome(p, size # 0 /\ (size < 0 \/ (want > 0 /\ at.off + want > size)))
  BY Zenon
<1>4. /\ my.pc = "read"
      /\ \/ scullc' = scullc /\ scullcSeen' = scullcSeen
         \/ scullc' = [scullc EXCEPT !.items = items] /\ scullcSeen' = scullcSeen \cup over
      /\ Scullc!Finish(p)
  BY <1>1, <1>2, <1>3, Zenon DEF Scullc!At, Scullc!Saw, Scullc!ReadAt
<1>5. /\ my.quantum \in Nat \ {0} /\ my.qset \in Nat \ {0} /\ pos \in Nat /\ scullc.phase # "out"
      /\ scullc.items \in Items /\ scullc.items # <<>> /\ scullc.size \in Nat /\ scullc.cache \in Nat
      /\ scullc.dev_quantum \in Nat \ {0} /\ scullc.dev_qset \in Nat \ {0} /\ scullc.quantum \in Nat
  <2>1. my.quantum \in Nat \ {0} /\ my.qset \in Nat \ {0}
    BY <1>2, <1>4 DEF ScullcInv, SharesTyped
  <2>2. scullc.phase # "out"
    BY <1>2, <1>4 DEF ScullcInv, EarlyOpens
  <2>3. pos \in Nat
    BY ShapesAssumption
  <2> QED  BY <2>1, <2>2, <2>3 DEF ScullcInv, CacheTyped
<1>6. at.item \in Nat /\ at.slot \in 0..my.qset - 1 /\ at.slot \in Nat /\ at.off \in 0..my.quantum - 1
  BY <1>2, <1>5, ScullcPlace
<1> DEFINE k == at.item + 1
<1>7. /\ items = Longer(scullc.items, at.item) /\ size = InSlot(items[k].data, at.slot)
      /\ want \in Int /\ want =< my.quantum - at.off
  <2>1. want \in Int /\ want =< my.quantum - at.off
    <3>1. /\ count \in Int /\ scullc.size - pos \in Int /\ my.quantum - at.off \in Int
      BY <1>5, <1>6
    <3> QED  BY <1>2, <3>1 DEF Scullc!Least
  <2> QED  BY <1>2, <2>1, ScullcPlain
<1>8. /\ items \in Items /\ items # <<>> /\ k \in 1..Len(items) /\ Boxes(items, scullc.cache)
      /\ Arrays(scullc.items, scullc.dev_qset) => Arrays(items, scullc.dev_qset)
  BY <1>5, <1>6, <1>7, BoxesLonger DEF ScullcInv, Cached
<1>9. ASSUME "stale" \notin scullcSeen, my.quantum = scullc.dev_quantum, my.qset = scullc.dev_qset,
             ~(scullc.dev_quantum > scullc.cache)
      PROVE  ~(size # 0 /\ (size < 0 \/ (want > 0 /\ at.off + want > size)))
  <2>1. Arrays(items, my.qset)
    BY <1>8, <1>9 DEF ScullcInv, Cached
  <2>2. InSlot(items[k].data, at.slot) \in {0, scullc.cache}
    <3>1. my.qset \in Nat
      BY <1>5
    <3> QED  BY <1>5, <1>6, <1>8, <2>1, <3>1, BoxFound, Zenon
  <2>3. size \in {0, scullc.cache}
    BY <1>7, <2>2
  <2>4. my.quantum \in Nat /\ scullc.cache \in Nat /\ my.quantum =< scullc.cache
    BY <1>5, <1>9
  <2>5. at.off \in Nat
    BY <1>5, <1>6
  <2>6. want \in Int /\ want =< my.quantum - at.off
    BY <1>7, Zenon
  <2> QED  BY <2>3, <2>4, <2>5, <2>6
<1>10. /\ over \subseteq {"overrun", "stale", "grown"}
       /\ "overrun" \in over => "stale" \in scullcSeen \/ "stale" \in over \/ "grown" \in over
  <2> DEFINE bad == size # 0 /\ (size < 0 \/ (want > 0 /\ at.off + want > size))
  <2>1. over = IF ~bad THEN {}
               ELSE {"overrun"}
                    \cup (IF my.quantum # scullc.dev_quantum \/ my.qset # scullc.dev_qset THEN {"stale"} ELSE {})
                    \cup (IF scullc.quantum > scullc.cache \/ scullc.dev_quantum > scullc.cache THEN {"grown"} ELSE {})
    BY <1>2, <1>3, Zenon DEF Scullc!Outcome, Scullc!If
  <2>2. bad => \/ "stale" \in scullcSeen \/ my.quantum # scullc.dev_quantum \/ my.qset # scullc.dev_qset
               \/ scullc.dev_quantum > scullc.cache
    BY <1>9, Zenon
  <2> HIDE DEF bad
  <2> QED  BY <2>1, <2>2
<1>11. scullcProc[p].pc # "out" /\ CacheTyped(scullc)
  BY <1>2, <1>4 DEF ScullcInv
<1>12. CASE scullc' = scullc /\ scullcSeen' = scullcSeen
  <2>1. PICK l \in {"open", "aio"} : Scullc!To(p, l)
    BY <1>4 DEF Scullc!Finish
  <2>2. SharesTyped(scullcProc') /\ \A r \in Procs \ {p} : scullcProc'[r] = scullcProc[r]
    BY <2>1, ScullcTo DEF ScullcInv
  <2> QED  BY <1>11, <1>12, <2>2, ScullcStay
<1>13. CASE scullc' = [scullc EXCEPT !.items = items] /\ scullcSeen' = scullcSeen \cup over
  <2>1. scullc' = With(scullc, items, scullc.size)
    BY <1>11, <1>13, CacheWith, Zenon
  <2>2. over \subseteq {"overrun", "stale", "grown", "nocache"} /\ "nocache" \notin over
    BY <1>10
  <2> QED  BY <1>4, <1>5, <1>8, <1>10, <1>11, <1>13, <2>1, <2>2, ScullcUse, Zenon
<1> QED  BY <1>4, <1>12, <1>13, Zenon

(* The list of a device that was just trimmed                              *)
LEMMA FreshList ==
  ASSUME NEW items, items = <<Scullc!FreshItem>>
  PROVE  /\ items \in Items /\ items # <<>> /\ \A qset : Arrays(items, qset)
         /\ \A cache : Boxes(items, cache)
<1>1. Scullc!FreshItem = [order |-> 0, data |-> <<>>]
  BY DEF Scullc!FreshItem
<1>2. items \in Items /\ items # <<>> /\ \A qset : Arrays(items, qset)
  BY <1>1, OrderZero, NewItems
<1>3. Len(items) = 1 /\ items[1].data = <<>>
  BY <1>1
<1> QED  BY <1>2, <1>3 DEF Boxes

(* A device that is not loaded                                             *)
LEMMA ScullcBare ==
  ASSUME scullc' = Scullc!Unloaded
  PROVE  /\ CacheTyped(scullc') /\ scullc'.phase = "out"
         /\ \A seen : ("overrun" \in seen \/ "leak" \in seen => "stale" \in seen \/ "grown" \in seen)
                       => Cached(scullc', seen)
<1> DEFINE dev == scullc'
<1>1. <<>> \in Items
  BY DEF Items
<1>2. /\ DOMAIN dev = {"phase", "cache", "quantum", "qset", "items", "dev_quantum", "dev_qset", "size"}
      /\ dev.phase = "out" /\ dev.cache = 0 /\ dev.quantum = 2 /\ dev.qset = 1
      /\ dev.items = <<>> /\ dev.size = 0
  BY DEF Scullc!Unloaded, Scullc!DefaultShape
<1> HIDE DEF dev
<1>3. CacheTyped(dev)
  BY <1>1, <1>2 DEF CacheTyped
<1>4. Boxes(dev.items, dev.cache) /\ Arrays(dev.items, dev.dev_qset)
  BY <1>2 DEF Boxes, Arrays
<1> QED  BY <1>2, <1>3, <1>4 DEF Cached, dev

(* scullc starts so.                                                       *)
LEMMA ScullcInit ==
  ASSUME Scullc!Init
  PROVE  ScullcInv
<1>1. /\ DOMAIN scullc = {"phase", "cache", "quantum", "qset", "items", "dev_quantum", "dev_qset", "size"}
      /\ scullc.phase = "out" /\ scullc.cache = 0 /\ scullc.quantum = 2 /\ scullc.qset = 1
      /\ scullc.items = <<>> /\ scullc.size = 0
  BY DEF Scullc!Init, Scullc!Unloaded, Scullc!DefaultShape
<1>2. <<>> \in Items
  BY DEF Items
<1>3. CacheTyped(scullc)
  BY <1>1, <1>2 DEF CacheTyped
<1>4. SharesTyped(scullcProc) /\ (\A p \in Procs : scullcProc[p].pc = "out") /\ scullcSeen = {}
  BY DEF Scullc!Init, Scullc!Out, SharesTyped
<1>5. Cached(scullc, scullcSeen)
  BY <1>1, <1>4 DEF Cached, Boxes, Arrays
<1> QED  BY <1>3, <1>4, <1>5 DEF ScullcInv, EarlyOpens

(* What the load and the removal do: an open file is an early one          *)
LEMMA ScullcLoad ==
  ASSUME ScullcInv, "freed" \notin scullcSeen, Scullc!LoadDevice \/ Scullc!LoadCache
  PROVE  ScullcInv'
<1>1. CASE Scullc!LoadDevice
  <2>1. PICK shape \in Shapes : scullc' = Started(scullc, shape, <<Scullc!FreshItem>>)
    BY <1>1, Zenon DEF Scullc!LoadDevice, Started
  <2>2. scullc.phase = "out" /\ scullcProc' = scullcProc /\ scullcSeen' = scullcSeen
    BY <1>1 DEF Scullc!LoadDevice
  <2>3. shape.quantum \in Nat \ {0} /\ shape.qset \in Nat \ {0}
    BY ShapesAssumption
  <2>4. PICK items : /\ items = <<Scullc!FreshItem>>
                     /\ items \in Items /\ items # <<>> /\ \A qset : Arrays(items, qset)
                     /\ \A cache : Boxes(items, cache)
    BY FreshList
  <2>5. scullc' = Started(scullc, shape, items)
    BY <2>1, <2>4
  <2>6. CacheTyped(scullc') /\ scullc'.items = items /\ scullc'.phase = "devices"
    BY <2>2, <2>3, <2>4, <2>5, CacheStarted DEF ScullcInv
  <2>7. Cached(scullc', scullcSeen')
    BY <2>2, <2>4, <2>6, Zenon DEF ScullcInv, Cached
  <2>8. EarlyOpens(scullc', scullcProc', scullcSeen')
    BY <2>2, <2>6 DEF ScullcInv, EarlyOpens
  <2> QED  BY <2>2, <2>6, <2>7, <2>8 DEF ScullcInv
<1>2. CASE Scullc!LoadCache
  <2>1. scullc.phase = "devices" /\ scullcProc' = scullcProc
    BY <1>2 DEF Scullc!LoadCache
  <2>2. CASE scullc' = Stocked(scullc) /\ scullcSeen' = scullcSeen
    <3>1. /\ CacheTyped(scullc') /\ scullc'.items = scullc.items
          /\ scullc'.phase = "up" /\ scullc'.dev_qset = scullc.dev_qset
      BY <2>1, <2>2, CacheStocked DEF ScullcInv
    <3>2. Boxes(scullc.items, 0)
      BY <2>1 DEF ScullcInv, Cached, CacheTyped
    <3>3. Boxes(scullc'.items, scullc'.cache)
      BY <3>1, <3>2 DEF Boxes
    <3>4. Cached(scullc', scullcSeen')
      BY <2>2, <3>1, <3>3, Zenon DEF ScullcInv, Cached
    <3>5. EarlyOpens(scullc', scullcProc', scullcSeen')
      BY <2>1, <2>2, <3>1 DEF ScullcInv, EarlyOpens
    <3> QED  BY <2>1, <3>1, <3>4, <3>5 DEF ScullcInv
  <2>3. CASE /\ scullc' = Scullc!Unloaded
             /\ scullcSeen' = scullcSeen \cup Scullc!If("freed", \E p \in Procs : ~Scullc!At(p, "out"))
    <3>1. \/ scullcSeen' = scullcSeen /\ ~\E p \in Procs : scullcProc[p].pc # "out"
          \/ scullcSeen' = scullcSeen \cup {"freed"} /\ \E p \in Procs : scullcProc[p].pc # "out"
      BY <2>3 DEF Scullc!If, Scullc!At
    <3>2. Cached(scullc', scullcSeen') /\ CacheTyped(scullc') /\ scullc'.phase = "out"
      BY <2>3, <3>1, ScullcBare DEF ScullcInv, Cached
    <3>3. EarlyOpens(scullc', scullcProc', scullcSeen')
      BY <2>1, <3>1, <3>2 DEF ScullcInv, EarlyOpens
    <3> QED  BY <2>1, <3>2, <3>3 DEF ScullcInv
  <2> QED  BY <1>2, <2>2, <2>3, Zenon DEF Scullc!LoadCache, Scullc!Saw, Stocked
<1> QED  BY <1>1, <1>2

(* A trim finds the arrays that it expects, unless a write was late.       *)
LEMMA ScullcDamage ==
  ASSUME ScullcInv, scullc.phase # "out"
  PROVE  /\ Scullc!TrimDamage \subseteq {"overrun", "leak"}
         /\ "stale" \notin scullcSeen => Scullc!TrimDamage = {}
<1>1. Scullc!TrimDamage \subseteq {"overrun", "leak"}
  BY DEF Scullc!TrimDamage, Scullc!If
<1>2. ASSUME "stale" \notin scullcSeen PROVE Scullc!TrimDamage = {}
  <2>1. scullc.items \in Items /\ scullc.dev_qset \in Nat /\ Arrays(scullc.items, scullc.dev_qset)
    BY <1>2 DEF ScullcInv, CacheTyped, Cached
  <2>2. ~Scullc!PastArray(scullc.items, scullc.dev_qset) /\ ~Scullc!Forgotten(scullc.items, scullc.dev_qset)
    BY <2>1, Measured, Zenon DEF Scullc!PastArray, Scullc!Forgotten
  <2> QED  BY <2>2 DEF Scullc!TrimDamage, Scullc!If
<1> QED  BY <1>1, <1>2

(* The removal, which waits for the last file                              *)
LEMMA ScullcUnload ==
  ASSUME ScullcInv, Scullc!Unload
  PROVE  ScullcInv'
<1>1. /\ scullc.phase = "up" /\ (\A p \in Procs : scullcProc[p].pc = "out")
      /\ scullc' = Scullc!Unloaded /\ scullcProc' = scullcProc
      /\ scullcSeen' = {} \/ scullcSeen' = scullcSeen \cup Scullc!TrimDamage
  BY DEF Scullc!Unload, Scullc!At
<1>2. Scullc!TrimDamage \subseteq {"overrun", "leak"} /\ ("stale" \notin scullcSeen => Scullc!TrimDamage = {})
  BY <1>1, ScullcDamage
<1>3. "overrun" \in scullcSeen' \/ "leak" \in scullcSeen' => "stale" \in scullcSeen' \/ "grown" \in scullcSeen'
  BY <1>1, <1>2 DEF ScullcInv, Cached
<1>4. Cached(scullc', scullcSeen') /\ CacheTyped(scullc')
  BY <1>1, <1>3, ScullcBare
<1>5. EarlyOpens(scullc', scullcProc', scullcSeen')
  BY <1>1, <1>2 DEF ScullcInv, EarlyOpens
<1> QED  BY <1>1, <1>4, <1>5 DEF ScullcInv

(* An open before there is a cache is early.                               *)
LEMMA ScullcOpen ==
  ASSUME ScullcInv, NEW p \in Procs, Scullc!OpenFile(p)
  PROVE  ScullcInv'
<1>1. /\ scullc.phase # "out" /\ SharesTyped(scullcProc')
      /\ \A r \in Procs \ {p} : scullcProc'[r] = scullcProc[r]
  BY ScullcTo DEF Scullc!OpenFile, ScullcInv
<1> DEFINE early == Scullc!Early
<1>2. early = IF scullc.phase = "devices" THEN {"early"} ELSE {}
  BY DEF Scullc!Early, Scullc!If
<1>3. \/ /\ scullc' = Rewound(scullc, <<Scullc!FreshItem>>)
         /\ scullcSeen' = scullcSeen \cup (Scullc!TrimDamage \cup early)
      \/ scullc' = scullc /\ scullcSeen' = scullcSeen \cup early
  BY Zenon DEF Scullc!OpenFile, Scullc!Trim, Scullc!Saw, Rewound
<1> HIDE DEF early
<1>4. CASE scullc' = scullc /\ scullcSeen' = scullcSeen \cup early
  <2>1. Cached(scullc', scullcSeen')
    BY <1>2, <1>4 DEF ScullcInv, Cached
  <2>2. EarlyOpens(scullc', scullcProc', scullcSeen')
    BY <1>1, <1>2, <1>4 DEF ScullcInv, EarlyOpens
  <2> QED  BY <1>1, <1>4, <2>1, <2>2 DEF ScullcInv
<1>5. CASE /\ scullc' = Rewound(scullc, <<Scullc!FreshItem>>)
           /\ scullcSeen' = scullcSeen \cup (Scullc!TrimDamage \cup early)
  <2>1. PICK items : /\ items = <<Scullc!FreshItem>>
                     /\ items \in Items /\ items # <<>> /\ \A qset : Arrays(items, qset)
                     /\ \A cache : Boxes(items, cache)
    BY FreshList
  <2>2. CacheTyped(scullc') /\ scullc'.items = items /\ scullc'.phase = scullc.phase
    BY <1>5, <2>1, CacheRewound DEF ScullcInv
  <2>3. Scullc!TrimDamage \subseteq {"overrun", "leak"} /\ ("stale" \notin scullcSeen => Scullc!TrimDamage = {})
    BY <1>1, ScullcDamage
  <2>4. Cached(scullc', scullcSeen')
    BY <1>2, <1>5, <2>1, <2>2, <2>3 DEF ScullcInv, Cached
  <2>5. EarlyOpens(scullc', scullcProc', scullcSeen')
    BY <1>1, <1>2, <1>5, <2>2, <2>3 DEF ScullcInv, EarlyOpens
  <2> QED  BY <1>1, <2>2, <2>4, <2>5 DEF ScullcInv
<1> QED  BY <1>3, <1>4, <1>5

(* The calls that take the sizes for a read or a write, and the ends of    *)
(* calls                                                                   *)
LEMMA ScullcCalls ==
  ASSUME ScullcInv, "freed" \notin scullcSeen, NEW p \in Procs,
         \/ Scullc!Release(p) \/ Scullc!DeferredOp(p) \/ Scullc!Transfer(p, "read") \/ Scullc!Transfer(p, "write")
  PROVE  ScullcInv'
<1>1. scullcProc[p].pc # "out" /\ scullc' = scullc /\ scullcSeen' = scullcSeen
  BY DEF Scullc!Release, Scullc!DeferredOp, Scullc!Transfer, Scullc!At
<1>2. CASE Scullc!Release(p) \/ Scullc!DeferredOp(p)
  <2>1. PICK l \in {"out", "open", "aio"} : Scullc!To(p, l)
    BY <1>2 DEF Scullc!Release, Scullc!DeferredOp
  <2>2. SharesTyped(scullcProc') /\ \A r \in Procs \ {p} : scullcProc'[r] = scullcProc[r]
    BY <2>1, ScullcTo DEF ScullcInv
  <2> QED  BY <1>1, <2>2, ScullcStay
<1>3. ASSUME NEW l \in {"read", "write"}, Scullc!Transfer(p, l) PROVE ScullcInv'
  <2> DEFINE call == [pc |-> l, quantum |-> scullc.dev_quantum, qset |-> scullc.dev_qset]
  <2>1. scullcProc' = [scullcProc EXCEPT ![p] = call]
    BY <1>3, Zenon DEF Scullc!Transfer
  <2>2. scullc.dev_quantum \in Nat \ {0} /\ scullc.dev_qset \in Nat \ {0}
    BY <1>1 DEF ScullcInv, CacheTyped, EarlyOpens
  <2>3. /\ call \in [pc : {"out", "open", "read", "write", "aio"}, quantum : Nat, qset : Nat]
        /\ call.quantum # 0 /\ call.qset # 0
    BY <2>2
  <2> HIDE DEF call
  <2>4. SharesTyped(scullcProc') /\ \A r \in Procs \ {p} : scullcProc'[r] = scullcProc[r]
    BY <2>1, <2>3 DEF ScullcInv, SharesTyped
  <2> QED  BY <1>1, <2>4, ScullcStay
<1> QED  BY <1>2, <1>3

(* An ioctl changes the sizes of the next quanta: grown, if they are       *)
(* longer.                                                                 *)
LEMMA ScullcIoctl ==
  ASSUME ScullcInv, NEW p \in Procs, Scullc!Ioctl(p)
  PROVE  ScullcInv'
<1>1. PICK shape \in Shapes \cup {Scullc!DefaultShape} : scullc' = Tuned(scullc, shape)
  BY Zenon DEF Scullc!Ioctl, Tuned
<1>2. scullcProc' = scullcProc /\ scullcSeen' = scullcSeen
  BY DEF Scullc!Ioctl
<1>3. shape.quantum \in Nat \ {0} /\ shape.qset \in Nat \ {0}
  BY ShapesAssumption DEF Scullc!DefaultShape
<1>4. /\ CacheTyped(scullc') /\ scullc'.items = scullc.items /\ scullc'.phase = scullc.phase
      /\ scullc'.dev_qset = scullc.dev_qset /\ scullc'.cache = scullc.cache
  BY <1>1, <1>3, CacheTuned DEF ScullcInv
<1>5. Cached(scullc', scullcSeen')
  BY <1>2, <1>4, Zenon DEF ScullcInv, Cached
<1>6. EarlyOpens(scullc', scullcProc', scullcSeen')
  BY <1>2, <1>4 DEF ScullcInv, EarlyOpens
<1> QED  BY <1>2, <1>4, <1>5, <1>6 DEF ScullcInv

(* The proc file of scullc                                                 *)
LEMMA ScullcPeek ==
  ASSUME ScullcInv, Scullc!ProcRead
  PROVE  ScullcInv'
<1> DEFINE things == Scullc!If("overrun", Scullc!PastArray(<<scullc.items[Len(scullc.items)]>>, scullc.dev_qset))
<1>1. scullc.phase = "up" /\ scullc' = scullc /\ scullcProc' = scullcProc
  BY DEF Scullc!ProcRead
<1>2. scullcSeen' = scullcSeen \cup things
  BY DEF Scullc!ProcRead, Scullc!Saw
<1>3. things \subseteq {"overrun"}
  BY DEF Scullc!If
<1>4. "stale" \notin scullcSeen => "overrun" \notin things
  <2> HAVE "stale" \notin scullcSeen
  <2>1. scullc.items \in Items /\ scullc.items # <<>> /\ Arrays(scullc.items, scullc.dev_qset)
    BY <1>1 DEF ScullcInv, CacheTyped, Cached
  <2> DEFINE last == scullc.items[Len(scullc.items)]
             one == <<last>>
  <2>2. Len(scullc.items) \in 1..Len(scullc.items)
    BY <2>1 DEF Items
  <2>3. last.data # <<>> => Len(last.data) = scullc.dev_qset
    BY <2>1, <2>2 DEF Arrays
  <2>4. DOMAIN one = {1} /\ one[1] = last
    OBVIOUS
  <2>5. scullc.dev_qset \in Nat
    BY <1>1 DEF ScullcInv, CacheTyped
  <2> HIDE DEF last
  <2>6. ~\E i \in DOMAIN one : one[i].data # <<>> /\ Len(one[i].data) < scullc.dev_qset
    BY <2>3, <2>4, <2>5
  <2>7. ~Scullc!PastArray(one, scullc.dev_qset)
    BY <2>6, Zenon DEF Scullc!PastArray
  <2> QED  BY <2>7 DEF Scullc!If, last
<1> HIDE DEF things
<1>5. Cached(scullc', scullcSeen')
  BY <1>1, <1>2, <1>3, <1>4 DEF ScullcInv, Cached
<1>6. EarlyOpens(scullc', scullcProc', scullcSeen')
  BY <1>1, <1>2, <1>3 DEF ScullcInv, EarlyOpens
<1> QED  BY <1>1, <1>5, <1>6 DEF ScullcInv

(* Every step of scullc keeps what scullc keeps.                           *)
LEMMA ScullcNext ==
  ASSUME ScullcInv, Scullc!Next
  PROVE  ScullcInv'
<1>1. "freed" \notin scullcSeen
  BY DEF Scullc!Next, Scullc!Damage
<1>2. CASE Scullc!LoadDevice \/ Scullc!LoadCache \/ Scullc!Unload \/ Scullc!ProcRead
  BY <1>1, <1>2, ScullcLoad, ScullcUnload, ScullcPeek
<1>3. ASSUME NEW p \in Procs, Scullc!Step(p) PROVE ScullcInv'
  <2>1. CASE Scullc!OpenFile(p) \/ Scullc!Ioctl(p)
    BY <2>1, ScullcOpen, ScullcIoctl
  <2>2. CASE Scullc!Release(p) \/ Scullc!DeferredOp(p) \/ Scullc!Transfer(p, "read") \/ Scullc!Transfer(p, "write")
    BY <1>1, <2>2, ScullcCalls
  <2>3. CASE Scullc!ReadLocked(p) \/ Scullc!WriteLocked(p)
    BY <1>1, <2>3, ScullcRead, ScullcWrite
  <2> QED  BY <1>3, <2>1, <2>2, <2>3, Zenon DEF Scullc!Step
<1> QED  BY <1>2, <1>3, Zenon DEF Scullc!Next

(* Where nothing changes, nothing is broken.                               *)
LEMMA ScullpStutter ==
  ASSUME ScullpInv, UNCHANGED ScullpVars
  PROVE  ScullpInv'
BY Zenon DEF ScullpVars, ScullpInv, ScullpFits

LEMMA ScullvStutter ==
  ASSUME ScullvInv, UNCHANGED ScullvVars
  PROVE  ScullvInv'
BY Zenon DEF ScullvVars, ScullvInv, ScullvFits

LEMMA SculldStutter ==
  ASSUME SculldInv, UNCHANGED SculldVars
  PROVE  SculldInv'
BY Zenon DEF SculldVars, SculldInv

LEMMA ScullcStutter ==
  ASSUME ScullcInv, UNCHANGED ScullcVars
  PROVE  ScullcInv'
BY Zenon DEF ScullcVars, ScullcInv

(* Memory outside a quantum or an array of scullp or scullc is touched, or *)
(* a quantum forgotten, only where read or write used sizes that a trim    *)
(* had changed, beyond the first item of a device of higher order          *)
(* (scullp/main.c:156-246), or where ioctl made quanta longer than the     *)
(* objects of the cache (scullc/main.c:247-248, 500); only files opened    *)
(* before scullc has its cache are in use without it                       *)
(* (scullc/main.c:560-597), and a driver that is on the bus of sculld has  *)
(* its module, unless its load failed (sculld/main.c:579-628).             *)
THEOREM VariantsStay == Spec => []VariantsSound
<1> DEFINE I == /\ loaded = "scullp" => ScullpInv
                /\ loaded = "sculld" => SculldInv
                /\ loaded = "scullc" => ScullcInv
<1>1. Init => I
  BY ScullpInit, SculldInit, ScullcInit DEF Init
<1>2. I /\ [Next]_vars => I'
  <2> SUFFICES ASSUME I, [Next]_vars PROVE I'
    OBVIOUS
  <2>1. ASSUME loaded' = "scullp" PROVE ScullpInv'
    <3>1. loaded = "scullp" /\ (Scullp!Next \/ UNCHANGED ScullpVars)
      BY <2>1 DEF Next, vars, Of
    <3> QED  BY <3>1, ScullpNext, ScullpStutter
  <2>2. ASSUME loaded' = "sculld" PROVE SculldInv'
    <3>1. loaded = "sculld" /\ (Sculld!Next \/ UNCHANGED SculldVars)
      BY <2>2 DEF Next, vars, Of
    <3> QED  BY <3>1, SculldNext, SculldStutter
  <2>3. ASSUME loaded' = "scullc" PROVE ScullcInv'
    <3>1. loaded = "scullc" /\ (Scullc!Next \/ UNCHANGED ScullcVars)
      BY <2>3 DEF Next, vars, Of
    <3> QED  BY <3>1, ScullcNext, ScullcStutter
  <2> QED  BY <2>1, <2>2, <2>3
<1>3. I => VariantsSound
  <2>1. ScullpInv => Scullp!MemoryKept
    BY DEF ScullpInv, Memory, Scullp!MemoryKept
  <2>2. SculldInv => Sculld!DriverLive
    BY DEF SculldInv, Sculld!DriverLive
  <2>3. ScullcInv => Scullc!MemoryKept /\ Scullc!LoadedWhole
    BY DEF ScullcInv, Cached, EarlyOpens, Scullc!MemoryKept, Scullc!LoadedWhole
  <2> QED  BY <2>1, <2>2, <2>3 DEF VariantsSound
<1> QED  BY <1>1, <1>2, <1>3, PTL DEF Spec

(* The pages of a mapping of scullp are not trimmed away, nor those of the *)
(* last one kept, unless a vmas++ or vmas-- was lost                       *)
(* (scullp/mmap.c:37-44); and a mapping of scullp or scullv shows the page *)
(* that read finds, unless the device had a higher order when it was       *)
(* counted (scullp and scullv/mmap.c:76-119).                              *)
THEOREM MappingsStay == Spec => []MappingsSound
<1> DEFINE I == /\ loaded = "scullp" => ScullpInv
                /\ loaded = "scullv" => ScullvInv
<1>1. Init => I
  BY ScullpInit, ScullvInit DEF Init
<1>2. I /\ [Next]_vars => I'
  <2> SUFFICES ASSUME I, [Next]_vars PROVE I'
    OBVIOUS
  <2>1. ASSUME loaded' = "scullp" PROVE ScullpInv'
    <3>1. loaded = "scullp" /\ (Scullp!Next \/ UNCHANGED ScullpVars)
      BY <2>1 DEF Next, vars, Of
    <3> QED  BY <3>1, ScullpNext, ScullpStutter
  <2>2. ASSUME loaded' = "scullv" PROVE ScullvInv'
    <3>1. loaded = "scullv" /\ (Scullv!Next \/ UNCHANGED ScullvVars)
      BY <2>2 DEF Next, vars, Of
    <3> QED  BY <3>1, ScullvNext, ScullvStutter
  <2> QED  BY <2>1, <2>2
<1>3. I => MappingsSound
  <2>1. ScullpInv => Scullp!MappingsCounted /\ Scullp!SamePage
    BY DEF ScullpInv, Mapping, Scullp!MappingsCounted, Scullp!SamePage
  <2>2. ScullvInv => Scullv!SamePage
    BY DEF ScullvInv, Shown, Scullv!SamePage
  <2> QED  BY <2>1, <2>2 DEF MappingsSound
<1> QED  BY <1>1, <1>2, <1>3, PTL DEF Spec
=============================================================================

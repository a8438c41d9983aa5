------------------------------ MODULE Scullc ------------------------------
(***************************************************************************)
(* One device of examples/scullc/main.c: scullp with quanta from a slab    *)
(* cache, whose objects have the size scullc_quantum had when the cache    *)
(* was created. ioctl changes scullc_quantum, and a trim then gives the    *)
(* device that quantum; the cache keeps its objects. The device is live    *)
(* before the cache exists. Calls are cut into steps as in Scullp. Sizes   *)
(* and positions are in the unit of the smallest quantum.                  *)
(***************************************************************************)
EXTENDS PageItems

CONSTANTS Procs,        \* processes, each with a file
          Positions,    \* positions that read and write are asked for
          Shapes        \* what insmod and ioctl may set: [quantum, qset]

VARIABLES scullc,       \* [phase; cache: its object size; quantum, qset: the globals; the device]
          scullcProc,   \* [Procs -> the call it is in, with its local quantum and qset]
          scullcSeen    \* history: the windows that have been hit, and what they did

vars == <<scullc, scullcProc, scullcSeen>>

DefaultShape == [quantum |-> 2, qset |-> 1]

Out == [pc |-> "out", quantum |-> 0, qset |-> 0]

Unloaded ==
  [phase |-> "out", cache |-> 0, quantum |-> DefaultShape.quantum, qset |-> DefaultShape.qset,
   items |-> <<>>, dev_quantum |-> 0, dev_qset |-> 0, size |-> 0]

Init ==
  /\ scullc = Unloaded
  /\ scullcProc = [p \in Procs |-> Out]
  /\ scullcSeen = {}

At(p, l) == scullcProc[p].pc = l
To(p, l) == scullcProc' = [scullcProc EXCEPT ![p] = [Out EXCEPT !.pc = l]]
Saw(things) == scullcSeen' = scullcSeen \cup things
If(thing, holds) == IF holds THEN {thing} ELSE {}

-----------------------------------------------------------------------------
(* scullc_init and scullc_cleanup                                          *)

LoadDevice ==
  \E shape \in Shapes :
    /\ scullc.phase = "out"
    /\ scullc' = [scullc EXCEPT !.phase = "devices", !.items = <<FreshItem>>,
                                !.quantum = shape.quantum, !.dev_quantum = shape.quantum,
                                !.qset = shape.qset, !.dev_qset = shape.qset]
    /\ UNCHANGED <<scullcProc, scullcSeen>>

\* Mutant: that there is no cache is not noticed.
LoadCacheNoTest ==
  /\ scullc.phase = "devices"
  /\ \E cache \in {0, scullc.quantum} : scullc' = [scullc EXCEPT !.phase = "up", !.cache = cache]
  /\ UNCHANGED <<scullcProc, scullcSeen>>

\* Without a cache all is taken back, the devices of open files as well.
LoadCache ==
  /\ scullc.phase = "devices"
  /\ \/ scullc' = [scullc EXCEPT !.phase = "up", !.cache = scullc.quantum] /\ UNCHANGED scullcSeen
     \/ /\ scullc' = Unloaded
        /\ Saw(If("freed", \E p \in Procs : ~At(p, "out")))
  /\ UNCHANGED scullcProc

TrimDamage ==
  If("overrun", PastArray(scullc.items, scullc.dev_qset))
    \cup If("leak", Forgotten(scullc.items, scullc.dev_qset))

Unload ==
  /\ scullc.phase = "up"
  /\ \A p \in Procs : At(p, "out")
  /\ scullc' = Unloaded
  /\ scullcSeen' = IF TrimDamage = {} THEN {} ELSE scullcSeen \cup TrimDamage
  /\ UNCHANGED scullcProc

-----------------------------------------------------------------------------
Early == If("early", scullc.phase = "devices")

\* vmas is always 0 here: there is no mmap.
Trim ==
  /\ scullc' = [scullc EXCEPT !.items = <<FreshItem>>, !.size = 0,
                              !.dev_quantum = scullc.quantum, !.dev_qset = scullc.qset]
  /\ Saw(TrimDamage \cup Early)

OpenFile(p) ==
  /\ scullc.phase # "out" /\ At(p, "out")
  /\ \/ Trim                                                     \* O_WRONLY
     \/ UNCHANGED scullc /\ Saw(Early)
  /\ To(p, "open")

Release(p) ==
  /\ At(p, "open")
  /\ To(p, "out")
  /\ UNCHANGED <<scullc, scullcSeen>>

Transfer(p, l) ==
  /\ At(p, "open")
  /\ scullcProc' = [scullcProc EXCEPT ![p] =
                      [pc |-> l, quantum |-> scullc.dev_quantum, qset |-> scullc.dev_qset]]
  /\ UNCHANGED <<scullc, scullcSeen>>

\* With an access outside, what explains it: a quantum or qset copied before the
\* semaphore is not the device's, or quanta have grown beyond the objects.
Outcome(p, overrun) ==
  IF ~overrun THEN {}
  ELSE {"overrun"}
       \cup If("stale", \/ scullcProc[p].quantum # scullc.dev_quantum
                        \/ scullcProc[p].qset # scullc.dev_qset)
       \cup If("grown", scullc.quantum > scullc.cache \/ scullc.dev_quantum > scullc.cache)

\* An aio call that found memory is completed later.
Finish(p) == To(p, "open") \/ To(p, "aio")

ReadAt(p, pos, count) ==
  LET my == scullcProc[p]
      at == Place(pos, my.quantum, my.qset)
      items == Follow(scullc.items, at.item)
      size == SlotAt(items, at)
      want == Least(Least(count, scullc.size - pos), my.quantum - at.off)
  IN  /\ IF pos > scullc.size
         THEN UNCHANGED <<scullc, scullcSeen>>
         ELSE /\ scullc' = [scullc EXCEPT !.items = items]
              /\ Saw(Outcome(p, size # 0 /\ (size < 0 \/ (want > 0 /\ at.off + want > size))))
      /\ Finish(p)

ReadLocked(p) ==
  /\ At(p, "read")
  /\ \E pos \in Positions, count \in 1 .. 2 : ReadAt(p, pos, count)

\* Mutant: the count is not cut at the end of the quantum.
CutNot(count, room) == count
Cut(count, room) == Least(count, room)

\* A new object is cleared over scullc_quantum, the global.
WriteAt(p, pos, count, end) ==
  LET my == scullcProc[p]
      at == Place(pos, my.quantum, my.qset)
      followed == Follow(scullc.items, at.item)
      items == WithArray(followed, at, my.qset)
      new == SlotAt(items, at) = 0
      full == WithQuantum(items, at, scullc.cache)
      want == Cut(count, my.quantum - at.off)
  IN  /\ end = "noarray" => followed[at.item + 1].data = <<>>
      /\ end = "noquantum" => new
      /\ \/ end = "noarray" /\ scullc' = [scullc EXCEPT !.items = followed]
         \/ end = "noquantum" /\ scullc' = [scullc EXCEPT !.items = items]
         \/ end = "fault" /\ scullc' = [scullc EXCEPT !.items = full]
         \/ /\ end = "ok"
            /\ scullc' = [scullc EXCEPT !.items = full, !.size = IF @ < pos + want THEN pos + want ELSE @]
      /\ Saw(If("nocache", end # "noarray" /\ new /\ scullc.cache = 0)
             \cup If("stale", items # followed /\ my.qset # scullc.dev_qset)
             \cup Outcome(p, /\ end \in {"ok", "fault"} /\ scullc.cache # 0
                             /\ \/ new /\ scullc.quantum > scullc.cache
                                \/ at.off + want > SlotAt(full, at)))
      /\ Finish(p)

WriteLocked(p) ==
  /\ At(p, "write")
  /\ \E pos \in Positions, count \in 1 .. 2, end \in {"ok", "noarray", "noquantum", "fault"} :
       WriteAt(p, pos, count, end)

DeferredOp(p) ==
  /\ At(p, "aio")
  /\ To(p, "open")
  /\ UNCHANGED <<scullc, scullcSeen>>

Ioctl(p) ==
  /\ At(p, "open")
  /\ \E shape \in Shapes \cup {DefaultShape} :
       /\ shape.quantum = scullc.quantum \/ shape.qset = scullc.qset \/ shape = DefaultShape
       /\ scullc' = [scullc EXCEPT !.quantum = shape.quantum, !.qset = shape.qset]
  /\ UNCHANGED <<scullcProc, scullcSeen>>

\* /proc/scullcmem looks at dev->qset slots of the last item.
ProcRead ==
  /\ scullc.phase = "up"
  /\ Saw(If("overrun", PastArray(<<scullc.items[Len(scullc.items)]>>, scullc.dev_qset)))
  /\ UNCHANGED <<scullc, scullcProc>>

-----------------------------------------------------------------------------
Step(p) ==
  \/ OpenFile(p) \/ Release(p) \/ Ioctl(p)
  \/ Transfer(p, "read") \/ ReadLocked(p)
  \/ Transfer(p, "write") \/ WriteLocked(p) \/ DeferredOp(p)

\* A behaviour is followed to the first of these; what comes after is undefined.
Damage == {"overrun", "leak", "nocache", "freed"}

Next ==
  /\ scullcSeen \cap Damage = {}
  /\ LoadDevice \/ LoadCache \/ Unload \/ ProcRead \/ \E p \in Procs : Step(p)

Spec == Init /\ [][Next]_vars

-----------------------------------------------------------------------------
\* Memory outside an object or an array is touched, or an object is forgotten,
\* only where read or write used a quantum or a qset that a trim had changed
\* since they copied it (main.c:175-180, 223-228), or where scullc_quantum was
\* raised above the size of the cache's objects (main.c:247-248, 500).
MemoryKept ==
  "overrun" \in scullcSeen \/ "leak" \in scullcSeen
    => "stale" \in scullcSeen \/ "grown" \in scullcSeen

\* The cache is there when a quantum is wanted, and a device while its file is
\* open, except for a file opened before scullc_init had come to the cache.
LoadedWhole ==
  "nocache" \in scullcSeen \/ "freed" \in scullcSeen => "early" \in scullcSeen
==========================================================================

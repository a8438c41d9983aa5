------------------------------ MODULE Scullp ------------------------------
(***************************************************************************)
(* One device of examples/scullp (main.c and mmap.c): blocks of pages in a *)
(* list of quantum sets, read, written, trimmed, and mapped page by page.  *)
(* What main.c does under dev->sem is one action; a call that a signal     *)
(* takes out of down_interruptible changes nothing. read and write copy    *)
(* order and qset before the semaphore, mmap looks at the order and counts *)
(* the mapping without it. Contents are left out.                          *)
(***************************************************************************)
EXTENDS PageItems, FiniteSets

CONSTANTS Procs,        \* processes, each with a file and perhaps a mapping
          DefaultShape, \* [order, qset] that the source gives and IOCRESET restores
          Workloads     \* bound, chosen at load: [callers: who reads and writes, mappers:
                        \* who maps, positions: the pages they ask for,
                        \* shapes: the [order, qset] that insmod and ioctl may set]

VARIABLES scullp,       \* [up; work: the workload; order, qset: the globals; the device's fields]
          scullpProc,   \* [Procs -> the call it is in, with its local order and qset]
          scullpMap,    \* [Procs -> the state of its mapping, with the vmas it read]
          scullpSeen    \* history: the windows that have been hit, and what they did

vars == <<scullp, scullpProc, scullpMap, scullpSeen>>

Out == [pc |-> "out", order |-> 0, qset |-> 0]
Open == [Out EXCEPT !.pc = "open"]
NoMap == [pc |-> "no", vmas |-> 0]

Idle == [callers |-> {}, mappers |-> {}, positions |-> {}, shapes |-> {DefaultShape}]

NewList(order) == <<[FreshItem EXCEPT !.order = order]>>

Unloaded ==
  [up |-> FALSE, work |-> Idle, order |-> DefaultShape.order, qset |-> DefaultShape.qset,
   items |-> <<>>, dev_qset |-> 0, size |-> 0, vmas |-> 0]

Init ==
  /\ scullp = Unloaded
  /\ scullpProc = [p \in Procs |-> Out]
  /\ scullpMap = [p \in Procs |-> NoMap]
  /\ scullpSeen = {}

At(p, l) == scullpProc[p].pc = l
To(p, l) == scullpProc' = [scullpProc EXCEPT ![p] = [Out EXCEPT !.pc = l]]
Saw(things) == scullpSeen' = scullpSeen \cup things
If(thing, holds) == IF holds THEN {thing} ELSE {}

DevOrder == scullp.items[1].order

-----------------------------------------------------------------------------
\* module_param gives the globals, the device takes them; no other device is modelled.
Load ==
  \E work \in Workloads : \E shape \in work.shapes :
    /\ ~scullp.up
    /\ scullp' = [scullp EXCEPT !.up = TRUE, !.work = work, !.order = shape.order, !.qset = shape.qset,
                                !.items = NewList(shape.order), !.dev_qset = shape.qset]
    /\ UNCHANGED <<scullpProc, scullpMap, scullpSeen>>

\* Mutant: the mappings are not looked at.
TrimAlways ==
  /\ scullp' = [scullp EXCEPT !.items = NewList(scullp.order),
                              !.dev_qset = scullp.qset, !.size = 0]
  /\ Saw(If("overrun", PastArray(scullp.items, scullp.dev_qset))
         \cup If("leak", Forgotten(scullp.items, scullp.dev_qset))
         \cup If("torn", \E q \in Procs : scullpMap[q].pc = "yes"))

\* Refused while vmas is not 0; the caller ignores that.
Trim ==
  \/ scullp.vmas # 0 /\ UNCHANGED <<scullp, scullpSeen>>
  \/ /\ scullp.vmas = 0
     /\ scullp' = [scullp EXCEPT !.items = NewList(scullp.order),
                                 !.dev_qset = scullp.qset, !.size = 0]
     /\ Saw(If("overrun", PastArray(scullp.items, scullp.dev_qset))
            \cup If("leak", Forgotten(scullp.items, scullp.dev_qset))
            \cup If("torn", \E q \in Procs : scullpMap[q].pc = "yes"))

\* No file and no mapping holds the module. What a refused trim keeps is lost; a
\* use that ends without damage leaves no trace.
Unload ==
  LET damage == If("kept", scullp.vmas # 0)
                \cup If("overrun", PastArray(scullp.items, scullp.dev_qset))
                \cup If("leak", Forgotten(scullp.items, scullp.dev_qset))
  IN  /\ scullp.up
      /\ \A p \in Procs : At(p, "out") /\ scullpMap[p] = NoMap
      /\ scullp' = Unloaded
      /\ scullpSeen' = IF damage = {} THEN {} ELSE scullpSeen \cup damage
      /\ UNCHANGED <<scullpProc, scullpMap>>

\* Only an open for writing alone trims.
OpenFile(p) ==
  /\ scullp.up /\ At(p, "out")
  /\ Trim \/ UNCHANGED <<scullp, scullpSeen>>
  /\ To(p, "open")
  /\ UNCHANGED scullpMap

Release(p) ==
  /\ At(p, "open")
  /\ To(p, "out")
  /\ UNCHANGED <<scullp, scullpMap, scullpSeen>>

-----------------------------------------------------------------------------
(* read and write, at any position: llseek sets every one                  *)

Transfer(p, l) ==
  /\ At(p, "open") /\ p \in scullp.work.callers
  /\ scullpProc' = [scullpProc EXCEPT ![p] =
                      [pc |-> l, order |-> DevOrder, qset |-> scullp.dev_qset]]
  /\ UNCHANGED <<scullp, scullpMap, scullpSeen>>

\* An access of count pages from off on, in a quantum that has size pages.
Outside(off, count, size) == count > 0 /\ off + count > size

\* With an access outside, what explains it: the order or qset copied before the
\* semaphore is not the device's, or the item is not the first, which alone has
\* the device's order.
Outcome(p, at, overrun) ==
  IF ~overrun THEN {}
  ELSE {"overrun"}
       \cup If("stale", scullpProc[p].order # DevOrder \/ scullpProc[p].qset # scullp.dev_qset)
       \cup If("tail", at.item > 0 /\ DevOrder > 0)

\* The end of a call; an aio call that found memory is completed later.
Finish(p) == To(p, "open") \/ To(p, "aio")

ReadAt(p, pos, count) ==
  LET my == scullpProc[p]
      at == Place(pos, Quantum(my.order), my.qset)
      items == Follow(scullp.items, at.item)
      size == SlotAt(items, at)
      want == Least(Least(count, scullp.size - pos), Quantum(my.order) - at.off)
  IN  /\ IF pos > scullp.size
         THEN UNCHANGED <<scullp, scullpSeen>>
         ELSE /\ scullp' = [scullp EXCEPT !.items = items]
              /\ Saw(Outcome(p, at, size # 0 /\ (size < 0 \/ Outside(at.off, want, size))))
      /\ Finish(p)
      /\ UNCHANGED scullpMap

ReadLocked(p) ==
  /\ At(p, "read")
  /\ \E pos \in scullp.work.positions, count \in 1 .. 2 : ReadAt(p, pos, count)

\* Mutant: the count is not cut at the end of the quantum.
CutNot(count, room) == count
Cut(count, room) == Least(count, room)

\* No memory for the array or for the quantum, or a bad buffer, ends a write
\* with what it has allocated in place.
WriteAt(p, pos, count, end) ==
  LET my == scullpProc[p]
      at == Place(pos, Quantum(my.order), my.qset)
      followed == Follow(scullp.items, at.item)
      items == WithArray(followed, at, my.qset)
      full == WithQuantum(items, at, Quantum(items[at.item + 1].order))
      want == Cut(count, Quantum(my.order) - at.off)
  IN  /\ end = "noarray" => followed[at.item + 1].data = <<>>
      /\ end = "noquantum" => SlotAt(items, at) = 0
      /\ \/ end = "noarray" /\ scullp' = [scullp EXCEPT !.items = followed]
         \/ end = "noquantum" /\ scullp' = [scullp EXCEPT !.items = items]
         \/ end = "fault" /\ scullp' = [scullp EXCEPT !.items = full]
         \/ /\ end = "ok"
            /\ scullp' = [scullp EXCEPT !.items = full, !.size = IF @ < pos + want THEN pos + want ELSE @]
      /\ Saw(Outcome(p, at, /\ end \in {"ok", "fault"}
                            /\ SlotAt(full, at) < 0 \/ Outside(at.off, want, SlotAt(full, at)))
             \cup If("stale", items # followed /\ my.qset # scullp.dev_qset))
      /\ Finish(p)
      /\ UNCHANGED scullpMap

WriteLocked(p) ==
  /\ At(p, "write")
  /\ \E pos \in scullp.work.positions, count \in 1 .. 2, end \in {"ok", "noarray", "noquantum", "fault"} :
       WriteAt(p, pos, count, end)

\* schedule_delayed_work has run: the file is free to be closed.
DeferredOp(p) ==
  /\ At(p, "aio")
  /\ To(p, "open")
  /\ UNCHANGED <<scullp, scullpMap, scullpSeen>>

\* Any process may change what the next trim gives the device: one of the two
\* globals, or with IOCRESET both.
Ioctl(p) ==
  /\ At(p, "open")
  /\ \E shape \in scullp.work.shapes \cup {DefaultShape} :
       /\ shape.order = scullp.order \/ shape.qset = scullp.qset \/ shape = DefaultShape
       /\ scullp' = [scullp EXCEPT !.order = shape.order, !.qset = shape.qset]
  /\ UNCHANGED <<scullpProc, scullpMap, scullpSeen>>

\* /proc/scullpmem looks at dev->qset slots of the last item.
ProcRead ==
  /\ scullp.up
  /\ Saw(If("overrun", PastArray(<<scullp.items[Len(scullp.items)]>>, scullp.dev_qset)))
  /\ UNCHANGED <<scullp, scullpProc, scullpMap>>

-----------------------------------------------------------------------------
(* mmap.c: none of it but nopage takes the semaphore                       *)

MapAt(p, l) == scullpMap[p].pc = l
MapTo(p, l, n) == scullpMap' = [scullpMap EXCEPT ![p] = [pc |-> l, vmas |-> n]]

\* Bound: once an update of vmas is lost no mapping is added.
MayMap(p) == MapAt(p, "no") /\ p \in scullp.work.mappers /\ "lost" \notin scullpSeen

\* What mmap is in the variant that does not look at the order (scullv).
MmapAny(p) ==
  /\ At(p, "open") /\ MayMap(p)
  /\ MapTo(p, "inc", scullp.vmas)
  /\ UNCHANGED <<scullp, scullpProc, scullpSeen>>

Mmap(p) ==
  /\ At(p, "open") /\ MayMap(p) /\ DevOrder = 0
  /\ MapTo(p, "inc", scullp.vmas)
  /\ UNCHANGED <<scullp, scullpProc, scullpSeen>>

\* vmas++ and vmas-- are a load and a store. The load of vmas++ is taken with the
\* test of the order: what a trim in between does, one after the load does, too.
Munmap(p) ==
  /\ MapAt(p, "yes")
  /\ MapTo(p, "dec", scullp.vmas)
  /\ UNCHANGED <<scullp, scullpProc, scullpSeen>>

VmaOpen(p) ==
  /\ MapAt(p, "inc")
  /\ MapTo(p, "yes", 0)
  /\ scullp' = [scullp EXCEPT !.vmas = scullpMap[p].vmas + 1]
  /\ Saw(If("lost", scullp.vmas # scullpMap[p].vmas) \cup If("raced", DevOrder # 0))
  /\ UNCHANGED scullpProc

VmaClose(p) ==
  /\ MapAt(p, "dec")
  /\ MapTo(p, "no", 0)
  /\ scullp' = [scullp EXCEPT !.vmas = scullpMap[p].vmas - 1]
  /\ Saw(If("lost", scullp.vmas # scullpMap[p].vmas))
  /\ UNCHANGED scullpProc

\* Mutant: the walk takes one step too few.
StepsToShort(n, qset) == IF n = 0 THEN 0 ELSE (n - 1) \div qset
StepsTo(n, qset) == n \div qset

\* The n-th page of a mapping, where nopage finds one: in slot n % qset of item
\* n / qset, as if a quantum were one page. NULL (0) there or beyond the list is
\* SIGBUS for the process.
Found(n) ==
  LET at == [item |-> StepsTo(n, scullp.dev_qset),
             slot |-> n - StepsTo(n, scullp.dev_qset) * scullp.dev_qset, off |-> 0]
  IN  [at |-> at,
       size |-> IF at.item < Len(scullp.items) THEN SlotAt(scullp.items, at) ELSE 0]

\* When quanta are larger it is not the page that read finds.
Nopage(p) ==
  /\ MapAt(p, "yes")
  /\ \E n \in 0 .. scullp.size - 1 :
       Saw(If("overrun", Found(n).size < 0)
           \cup If("other", /\ Found(n).size # 0
                            /\ Found(n).at # Place(n, Quantum(DevOrder), scullp.dev_qset)))
  /\ UNCHANGED <<scullp, scullpProc, scullpMap>>

-----------------------------------------------------------------------------
Step(p) ==
  \/ OpenFile(p) \/ Release(p) \/ Ioctl(p)
  \/ Transfer(p, "read") \/ ReadLocked(p)
  \/ Transfer(p, "write") \/ WriteLocked(p) \/ DeferredOp(p)
  \/ Mmap(p) \/ Munmap(p) \/ VmaOpen(p) \/ VmaClose(p) \/ Nopage(p)

\* A behaviour is followed to the first of these; what comes after is undefined.
Damage == {"overrun", "leak", "torn", "kept", "other"}

Next ==
  /\ scullpSeen \cap Damage = {}
  /\ Load \/ Unload \/ ProcRead \/ \E p \in Procs : Step(p)

Spec == Init /\ [][Next]_vars

-----------------------------------------------------------------------------
\* Memory outside a quantum or an array is touched, or a quantum is forgotten,
\* only where read or write used an order or a qset that a trim had changed
\* since they copied it (main.c:173-178, 221-226), or where the item is not the
\* first of a device of higher order: its own order is 0 (main.c:156, 246).
MemoryKept ==
  "overrun" \in scullpSeen \/ "leak" \in scullpSeen
    => "stale" \in scullpSeen \/ "tail" \in scullpSeen

\* The pages of a live mapping are trimmed away, or those of the last use stay
\* allocated for good, only where two vmas++ or vmas-- have lost one of them.
MappingsCounted ==
  "torn" \in scullpSeen \/ "kept" \in scullpSeen => "lost" \in scullpSeen

\* A mapping shows the page that read finds at that offset, unless a trim gave
\* the device another order between the test in mmap and vmas++.
SamePage == "other" \in scullpSeen => "raced" \in scullpSeen
==========================================================================

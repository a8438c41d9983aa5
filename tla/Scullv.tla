------------------------------ MODULE Scullv ------------------------------
(***************************************************************************)
(* One device of examples/scullv (main.c and mmap.c). Its main.c is        *)
(* scullp's with vmalloc(PAGE_SIZE << order) and vfree for the pages, the  *)
(* same sizes; the order is 4 unless it is set, here 1; and mmap takes a   *)
(* device of any order, which scullp refuses.                              *)
(***************************************************************************)
EXTENDS Integers

CONSTANTS Procs, DefaultShape, Workloads        \* as in Scullp

VARIABLES scullv, scullvProc, scullvMap, scullvSeen

P == INSTANCE Scullp WITH scullp <- scullv, scullpProc <- scullvProc,
                          scullpMap <- scullvMap, scullpSeen <- scullvSeen

vars == <<scullv, scullvProc, scullvMap, scullvSeen>>

Init == P!Init

Load == P!Load
Unload == P!Unload
ProcRead == P!ProcRead

OpenFile(p) == P!OpenFile(p)
Release(p) == P!Release(p)
Ioctl(p) == P!Ioctl(p)

ReadStart(p) == P!Transfer(p, "read")
ReadLocked(p) == P!ReadLocked(p)
WriteStart(p) == P!Transfer(p, "write")
WriteLocked(p) == P!WriteLocked(p)
DeferredOp(p) == P!DeferredOp(p)

\* No look at the order.
Mmap(p) == P!MmapAny(p)
VmaOpen(p) == P!VmaOpen(p)
Munmap(p) == P!Munmap(p)
VmaClose(p) == P!VmaClose(p)
Nopage(p) == P!Nopage(p)

Step(p) ==
  \/ OpenFile(p) \/ Release(p) \/ Ioctl(p)
  \/ ReadStart(p) \/ ReadLocked(p)
  \/ WriteStart(p) \/ WriteLocked(p) \/ DeferredOp(p)
  \/ Mmap(p) \/ VmaOpen(p) \/ Munmap(p) \/ VmaClose(p) \/ Nopage(p)

\* That a mapping shows another page than read is what this driver does: it goes on.
Next ==
  /\ scullvSeen \cap (P!Damage \ {"other"}) = {}
  /\ Load \/ Unload \/ ProcRead \/ \E p \in Procs : Step(p)

Spec == Init /\ [][Next]_vars

-----------------------------------------------------------------------------
\* At order 0, and only there for certain, a mapping shows the page that read
\* finds at that offset; at a higher order nopage takes the first page of the
\* n-th block for the n-th page (mmap.c:76-82).
SamePage == "other" \in scullvSeen => "raced" \in scullvSeen
==========================================================================

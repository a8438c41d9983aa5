------------------------------ MODULE Sculld ------------------------------
(***************************************************************************)
(* One device of examples/sculld (main.c and mmap.c) and what it tells     *)
(* lddbus/lddbus.c. Its main.c is scullp's, with the driver and the device *)
(* registered on the ldd bus; in its nopage the assignment to page is      *)
(* missing, so that get_page is called on NULL.                            *)
(***************************************************************************)
EXTENDS Integers

CONSTANTS Procs, DefaultShape, Workloads        \* as in Scullp

VARIABLES sculld, sculldProc, sculldMap, sculldSeen,
          sculldBus     \* the ldd bus: [driver, device: is sculld's registered?; loading]

P == INSTANCE Scullp WITH scullp <- sculld, scullpProc <- sculldProc,
                          scullpMap <- sculldMap, scullpSeen <- sculldSeen

vars == <<sculld, sculldProc, sculldMap, sculldSeen, sculldBus>>

Init == P!Init /\ sculldBus = [driver |-> FALSE, device |-> FALSE, loading |-> FALSE]

-----------------------------------------------------------------------------
(* lddbus.c                                                                *)

RegisterDriver == sculldBus' = [sculldBus EXCEPT !.driver = TRUE, !.loading = TRUE]
RegisterDevice == sculldBus' = [sculldBus EXCEPT !.device = TRUE, !.loading = FALSE]

\* Mutant: the device only is taken from the bus.
UnregisterDevice == sculldBus' = [sculldBus EXCEPT !.device = FALSE]

Unregister == sculldBus' = [sculldBus EXCEPT !.driver = FALSE, !.device = FALSE]

-----------------------------------------------------------------------------
(* main.c and mmap.c                                                       *)

LoadDriver ==
  /\ ~sculld.up /\ sculldBus.driver = FALSE
  /\ RegisterDriver
  /\ UNCHANGED <<sculld, sculldProc, sculldMap, sculldSeen>>

\* Without memory for the devices the driver stays registered: the module is
\* freed under it.
LoadDevices ==
  /\ sculldBus.loading
  /\ \/ P!Load /\ RegisterDevice
     \/ /\ sculldSeen' = sculldSeen \cup {"nomem"}
        /\ sculldBus' = [sculldBus EXCEPT !.loading = FALSE]
        /\ UNCHANGED <<sculld, sculldProc, sculldMap>>

Unload == P!Unload /\ Unregister

ProcRead == P!ProcRead

OpenFile(p) == P!OpenFile(p)
Release(p) == P!Release(p)
Ioctl(p) == P!Ioctl(p)

ReadStart(p) == P!Transfer(p, "read")
ReadLocked(p) == P!ReadLocked(p)
WriteStart(p) == P!Transfer(p, "write")
WriteLocked(p) == P!WriteLocked(p)
DeferredOp(p) == P!DeferredOp(p)

Mmap(p) == P!Mmap(p)
VmaOpen(p) == P!VmaOpen(p)
Munmap(p) == P!Munmap(p)
VmaClose(p) == P!VmaClose(p)

\* The process dies in get_page, with the semaphore.
Nopage(p) ==
  /\ P!MapAt(p, "yes")
  /\ \E n \in 0 .. sculld.size - 1 :
       P!Saw(P!If("overrun", P!Found(n).size < 0) \cup P!If("oops", P!Found(n).size > 0))
  /\ UNCHANGED <<sculld, sculldProc, sculldMap>>

Step(p) ==
  \/ OpenFile(p) \/ Release(p) \/ Ioctl(p)
  \/ ReadStart(p) \/ ReadLocked(p)
  \/ WriteStart(p) \/ WriteLocked(p) \/ DeferredOp(p)
  \/ Mmap(p) \/ VmaOpen(p) \/ Munmap(p) \/ VmaClose(p) \/ Nopage(p)

Next ==
  /\ sculldSeen \cap (P!Damage \cup {"oops"}) = {}
  /\ \/ LoadDriver \/ LoadDevices \/ Unload
     \/ /\ ProcRead \/ \E p \in Procs : Step(p)
        /\ UNCHANGED sculldBus

Spec == Init /\ [][Next]_vars

-----------------------------------------------------------------------------
\* A driver on the ldd bus, which the bus asks to match each new device, is one
\* whose module is there, unless sculld_init failed after it had registered it
\* (main.c:579, 586-589); and a device on the bus has its driver.
DriverLive ==
  /\ sculldBus.driver => sculld.up \/ sculldBus.loading \/ "nomem" \in sculldSeen
  /\ sculldBus.device => sculld.up /\ sculldBus.driver
==========================================================================

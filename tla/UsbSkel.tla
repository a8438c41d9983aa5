------------------------------ MODULE UsbSkel ------------------------------
(***************************************************************************)
(* The driver of examples/usb/usb-skeleton.c: a device may be unplugged    *)
(* and plugged again at any time, with files open, in the middle of a read *)
(* or a write, and with writes submitted and not completed. Each probe     *)
(* makes a struct usb_skel, which lives as long as its kref is not zero.   *)
(***************************************************************************)
EXTENDS Integers, FiniteSets

CONSTANTS Files,        \* files that are opened, one process each
          Skels,        \* the structures that successive probes may make, 1 .. n
          MaxUrbs       \* writes in flight at once

VARIABLES usbSkel,      \* [Skels -> kref and state of the structure]
          usbBus,       \* the interface: its data, whether it has a minor, what
                        \* probe and disconnect are doing
          usbFile,      \* [Files -> where it is, its structure, its read or write]
          usbUrb,       \* submitted urbs: how many of each file's buffers wait
          usbSeen       \* history: what went wrong

vars == <<usbSkel, usbBus, usbFile, usbUrb, usbSeen>>

None == 0
Shut == [pc |-> "shut", dev |-> None]

Init ==
  /\ usbSkel = [k \in Skels |-> [kref |-> 0, state |-> "unused"]]
  /\ usbBus = [pc |-> "out", intfdata |-> None, minor |-> FALSE, dev |-> None]
  /\ usbFile = [f \in Files |-> Shut]
  /\ usbUrb = [f \in Files |-> 0]
  /\ usbSeen = {}

\* The structure is read, or its kref is: only while it is there.
Touch(k) == usbSeen' = IF usbSkel[k].state = "live" THEN usbSeen ELSE usbSeen \cup {"stale"}

\* kref_put, and skel_delete when it was the last
Put(k) == usbSkel' = [usbSkel EXCEPT ![k].kref = @ - 1,
                                     ![k].state = IF usbSkel[k].kref = 1 THEN "freed" ELSE @]

-----------------------------------------------------------------------------
(* skel_probe and skel_disconnect, called by the USB core one at a time    *)

\* Up to the endpoints: without memory for the structure there is nothing to undo.
Probe ==
  /\ usbBus.pc = "out"
  /\ \E k \in Skels :
       /\ usbSkel[k].state = "unused" /\ \A j \in Skels : j < k => usbSkel[j].state # "unused"
       /\ usbSkel' = [usbSkel EXCEPT ![k] = [kref |-> 1, state |-> "live"]]
       /\ usbBus' = [usbBus EXCEPT !.pc = "endpoints", !.dev = k]
  /\ UNCHANGED <<usbFile, usbUrb, usbSeen>>

\* Mutant: the error path gives nothing back.
ProbeRegisterLeak ==
  /\ usbBus.pc = "endpoints"
  /\ \/ usbBus' = [usbBus EXCEPT !.pc = "in", !.intfdata = usbBus.dev, !.minor = TRUE]
     \/ usbBus' = [usbBus EXCEPT !.pc = "out", !.dev = None]
  /\ UNCHANGED <<usbSkel, usbFile, usbUrb, usbSeen>>

\* Endpoints, the buffer or the minor may be missing.
ProbeRegister ==
  /\ usbBus.pc = "endpoints"
  /\ \/ usbBus' = [usbBus EXCEPT !.pc = "in", !.intfdata = usbBus.dev, !.minor = TRUE]
     \/ usbBus' = [usbBus EXCEPT !.pc = "put"]
  /\ UNCHANGED <<usbSkel, usbFile, usbUrb, usbSeen>>

\* The region under the big kernel lock, which skel_open is called with
Disconnect ==
  /\ usbBus.pc = "in"
  /\ usbBus' = [usbBus EXCEPT !.pc = "put", !.intfdata = None, !.minor = FALSE]
  /\ UNCHANGED <<usbSkel, usbFile, usbUrb, usbSeen>>

\* The error path of probe and the end of disconnect
BusPut ==
  /\ usbBus.pc = "put"
  /\ Put(usbBus.dev)
  /\ Touch(usbBus.dev)
  /\ usbBus' = [usbBus EXCEPT !.pc = "out", !.dev = None]
  /\ UNCHANGED <<usbFile, usbUrb>>

-----------------------------------------------------------------------------
(* The file operations                                                     *)

\* Mutant: a file uses the structure without counting as its user.
OpenNoGet(f) ==
  /\ usbFile[f].pc = "shut" /\ usbBus.minor /\ usbBus.intfdata # None
  /\ Touch(usbBus.intfdata)
  /\ usbFile' = [usbFile EXCEPT ![f] = [pc |-> "open", dev |-> usbBus.intfdata]]
  /\ UNCHANGED <<usbSkel, usbBus, usbUrb>>

Open(f) ==
  /\ usbFile[f].pc = "shut" /\ usbBus.minor /\ usbBus.intfdata # None
  /\ Touch(usbBus.intfdata)
  /\ usbSkel' = [usbSkel EXCEPT ![usbBus.intfdata].kref = @ + 1]
  /\ usbFile' = [usbFile EXCEPT ![f] = [pc |-> "open", dev |-> usbBus.intfdata]]
  /\ UNCHANGED <<usbBus, usbUrb>>

Release(f) ==
  /\ usbFile[f].pc = "open"
  /\ Touch(usbFile[f].dev)
  /\ Put(usbFile[f].dev)
  /\ usbFile' = [usbFile EXCEPT ![f] = Shut]
  /\ UNCHANGED <<usbBus, usbUrb>>

To(f, l) == usbFile' = [usbFile EXCEPT ![f].pc = l]

\* usb_bulk_msg into the one buffer of the device, for at most 10 s
ReadStart(f) ==
  /\ usbFile[f].pc = "open"
  /\ Touch(usbFile[f].dev)
  /\ To(f, "reading")
  /\ UNCHANGED <<usbSkel, usbBus, usbUrb>>

\* Data, failure or timeout; then the copy, out of bulk_in_buffer.
ReadEnd(f) ==
  /\ usbFile[f].pc = "reading"
  /\ Touch(usbFile[f].dev)
  /\ To(f, "open")
  /\ UNCHANGED <<usbSkel, usbBus, usbUrb>>

\* usb_alloc_urb, and usb_buffer_alloc from the pools of dev->udev
WriteAlloc(f) ==
  /\ usbFile[f].pc = "open" /\ usbUrb[f] < MaxUrbs
  /\ Touch(usbFile[f].dev)
  /\ To(f, "writing")
  /\ UNCHANGED <<usbSkel, usbBus, usbUrb>>

\* Submitted, unless the device is gone or something fails. (The error path, which
\* frees a buffer twice and reads an urb that may be missing, leaves dev alone.)
WriteSubmit(f) ==
  /\ usbFile[f].pc = "writing"
  /\ Touch(usbFile[f].dev)
  /\ To(f, "open")
  /\ \/ /\ usbBus.intfdata = usbFile[f].dev
        /\ usbUrb' = [usbUrb EXCEPT ![f] = @ + 1]
     \/ UNCHANGED usbUrb
  /\ UNCHANGED <<usbSkel, usbBus>>

\* skel_write_bulk_callback: the urb holds its usb_device, not the structure.
WriteCallback(f) ==
  /\ usbUrb[f] > 0
  /\ usbUrb' = [usbUrb EXCEPT ![f] = @ - 1]
  /\ UNCHANGED <<usbSkel, usbBus, usbFile, usbSeen>>

Next ==
  \/ Probe \/ ProbeRegister \/ Disconnect \/ BusPut
  \/ \E f \in Files : \/ Open(f) \/ Release(f) \/ ReadStart(f) \/ ReadEnd(f)
                      \/ WriteAlloc(f) \/ WriteSubmit(f) \/ WriteCallback(f)

Spec == Init /\ [][Next]_vars

-----------------------------------------------------------------------------
(* Properties *)

\* Nobody uses a structure that was freed (usb-skeleton.c:57-112, 305-325), in
\* whatever order unplugging, closing and plugging again come.
NotStale == "stale" \notin usbSeen

\* A structure lives exactly as long as the interface, a probe, a disconnect or
\* an open file has it (usb-skeleton.c:57-110, 295-325): it is not leaked either.
Lifetime ==
  \A k \in Skels :
    LET files == { f \in Files : usbFile[f].dev = k }
    IN  /\ usbSkel[k].kref = Cardinality(files) + (IF usbBus.dev = k THEN 1 ELSE 0)
        /\ usbSkel[k].state = "live" <=> usbSkel[k].kref > 0
=============================================================================

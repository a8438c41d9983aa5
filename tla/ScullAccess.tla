---------------------------- MODULE ScullAccess ----------------------------
(***************************************************************************)
(* The scull devices with controlled access, examples/scull/access.c: the  *)
(* plain device behind other open and release methods. kind is the device  *)
(* that the processes use: "plain" is scull0 itself, "single" can be open  *)
(* once, "uid" by one user, "wuid" makes others wait, "priv" gives every   *)
(* terminal a device of its own.                                           *)
(*                                                                         *)
(* A region under one of the spin locks is one action; the two operations  *)
(* on the atomic counter of scullsingle are two.                           *)
(***************************************************************************)
EXTENDS ScullDevice

CONSTANTS Kinds,        \* which of the devices a run looks at
          Clients,      \* the processes that open a device of each kind
          Users,        \* those of them that read, write and seek
          Uid, Euid,    \* of each process
          Tty           \* controlling terminal of each process, or None

ASSUME AccessAssumption ==
  /\ Kinds \subseteq {"plain", "single", "uid", "wuid", "priv"}
  /\ \A k \in Kinds : Clients[k] \subseteq Procs /\ Users[k] \subseteq Clients[k]
  /\ \A p \in Procs : Tty[p] \in Devs \cup {None}

VARIABLES kind,
          available,    \* scull_s_available
          count,        \* scull_u_count, scull_w_count
          owner,        \* scull_u_owner, scull_w_owner
          waiting,      \* scull_w_wait: the processes enqueued and not woken
          clones        \* scull_c_list

gate == <<available, count, owner, waiting, clones>>
vars == <<deviceVars, kind, gate>>

Nobody == "nobody"
TheDevice == CHOOSE d \in Devs : TRUE

Init ==
  /\ DeviceInit
  /\ kind \in Kinds
  /\ available = 1
  /\ count = 0
  /\ owner = Nobody
  /\ waiting = {}
  /\ clones = {}

\* Every gate is passed with the file set up and, if write-only, a trim to do.
Pass(p, d) ==
  /\ \E mode \in {"wronly", "rdwr"} : Enter(p, d, mode, "t_start")
  /\ UNCHANGED <<params, dev, written, ref, loc, mixed, hits>>

Move(p, l) ==
  /\ Go(p, l)
  /\ UNCHANGED <<params, dev, written, file, ref, loc, mixed, hits>>

\* The processes that have passed the gate and not been through release
Inside == {p \in Procs : file[p].dev # None /\ file[p].mode \in {"wronly", "rdwr"}}

-----------------------------------------------------------------------------
(* scullsingle                                                             *)

SingleOpen(p) ==
  /\ At(p, "idle")
  /\ available' = available - 1
  /\ IF available' = 0 THEN Pass(p, TheDevice) ELSE Move(p, "s_busy")
  /\ UNCHANGED <<kind, count, owner, waiting, clones>>

\* Mutant: a refused open does not give back what it took.
SingleBusyForgets(p) ==
  /\ At(p, "s_busy")
  /\ Move(p, "idle")
  /\ UNCHANGED <<kind, gate>>

SingleBusy(p) ==
  /\ At(p, "s_busy")
  /\ available' = available + 1
  /\ Move(p, "idle")
  /\ UNCHANGED <<kind, count, owner, waiting, clones>>

SingleRelease(p) ==
  /\ Release(p)
  /\ available' = available + 1
  /\ UNCHANGED <<kind, count, owner, waiting, clones>>

-----------------------------------------------------------------------------
(* sculluid and scullwuid                                                  *)

Available(p) ==
  count = 0 \/ owner \in {Uid[p], Euid[p]} \/ p \in Capable

\* Mutant: the owner is the last user that opened.
GrabLast(p) ==
  /\ owner' = Uid[p]
  /\ count' = count + 1

Grab(p) ==
  /\ owner' = IF count = 0 THEN Uid[p] ELSE owner
  /\ count' = count + 1

UidOpen(p) ==
  /\ At(p, "idle")
  /\ Available(p)             \* otherwise -EBUSY
  /\ Grab(p) /\ Pass(p, TheDevice)
  /\ UNCHANGED <<kind, available, waiting, clones>>

UidRelease(p) ==
  /\ Release(p)
  /\ count' = count - 1
  /\ UNCHANGED <<kind, available, owner, waiting, clones>>

\* scull_w_open: the test under the lock; -EAGAIN for O_NONBLOCK
WaitOpen(p) ==
  /\ pc[p] \in {"idle", "w_again"}
  /\ \/ /\ Available(p)
        /\ Grab(p) /\ Pass(p, TheDevice)
     \/ /\ ~Available(p)
        /\ Move(p, "w_enqueue")
        /\ UNCHANGED <<count, owner>>
  /\ UNCHANGED <<kind, available, waiting, clones>>

WaitEnqueue(p) ==
  /\ At(p, "w_enqueue")
  /\ waiting' = waiting \cup {p}
  /\ Move(p, "w_test")
  /\ UNCHANGED <<kind, available, count, owner, clones>>

\* The condition of wait_event_interruptible, without the lock
WaitTest(p) ==
  /\ At(p, "w_test")
  /\ IF Available(p)
     THEN Move(p, "w_again") /\ waiting' = waiting \ {p}
     ELSE Move(p, "w_sleep") /\ UNCHANGED waiting
  /\ UNCHANGED <<kind, available, count, owner, clones>>

WaitWoken(p) ==
  /\ At(p, "w_sleep") /\ p \notin waiting
  /\ Move(p, "w_enqueue")
  /\ UNCHANGED <<kind, gate>>

WaitSignal(p) ==
  /\ At(p, "w_sleep")
  /\ waiting' = waiting \ {p}
  /\ Move(p, "idle")
  /\ UNCHANGED <<kind, available, count, owner, clones>>

\* scull_w_release: the count under the lock, the wake-up after it
WaitRelease(p) ==
  /\ At(p, "open")
  /\ file' = [file EXCEPT ![p] = NoFile]
  /\ count' = count - 1
  /\ Go(p, IF count = 1 THEN "w_wake" ELSE "idle")
  /\ UNCHANGED <<params, dev, written, ref, loc, mixed, hits>>
  /\ UNCHANGED <<kind, available, owner, waiting, clones>>

\* Mutant: the close wakes one process instead of all.
WaitWakeOne(p) ==
  /\ At(p, "w_wake")
  /\ \/ waiting = {} /\ UNCHANGED waiting
     \/ \E q \in waiting : waiting' = waiting \ {q}
  /\ Move(p, "idle")
  /\ UNCHANGED <<kind, available, count, owner, clones>>

WaitWake(p) ==
  /\ At(p, "w_wake")
  /\ waiting' = {}
  /\ Move(p, "idle")
  /\ UNCHANGED <<kind, available, count, owner, clones>>

-----------------------------------------------------------------------------
(* scullpriv: scull_c_lookfor_device finds or makes the terminal's device  *)

PrivOpen(p) ==
  LET d == Tty[p]
  IN  /\ At(p, "idle")
      /\ d # None                                       \* otherwise -EINVAL
      /\ clones' = clones \cup {d}
      /\ \E mode \in {"wronly", "rdwr"} : Enter(p, d, mode, "t_start")
      /\ IF d \in clones THEN UNCHANGED <<dev, written>>
         ELSE /\ dev' = [dev EXCEPT ![d] = Empty(params)]
              /\ written' = [written EXCEPT ![d] = {}]
      /\ UNCHANGED <<params, ref, loc, mixed, hits>>
      /\ UNCHANGED <<kind, available, count, owner, waiting>>

-----------------------------------------------------------------------------

SingleStep(p) ==
  kind = "single" /\ (SingleOpen(p) \/ SingleBusy(p) \/ SingleRelease(p))
UidStep(p) ==
  kind = "uid" /\ (UidOpen(p) \/ UidRelease(p))
Waiter(p) ==
  kind = "wuid" /\ (WaitEnqueue(p) \/ WaitTest(p) \/ WaitWoken(p) \/ WaitWake(p)
                    \/ (At(p, "w_again") /\ WaitOpen(p)))
WuidStep(p) ==
  Waiter(p) \/ (kind = "wuid" /\ (WaitOpen(p) \/ WaitSignal(p) \/ WaitRelease(p)))
PrivStep(p) ==
  kind = "priv" /\ (PrivOpen(p) \/ (Release(p) /\ UNCHANGED <<kind, gate>>))

Next ==
  \/ \E p \in Clients[kind] :
       \/ (FileStep(p) \/ (p \in Users[kind] /\ Call(p))) /\ UNCHANGED <<kind, gate>>
       \/ kind = "plain" /\ (PlainStep(p) \/ ProcStep(p)) /\ UNCHANGED <<kind, gate>>
       \/ kind # "plain" /\ TrimFree(p, "open") /\ UNCHANGED <<kind, gate>>
       \/ SingleStep(p) \/ UidStep(p) \/ WuidStep(p) \/ PrivStep(p)
  \/ Unload /\ clones' = {} /\ UNCHANGED <<kind, available, count, owner, waiting>>

Spec == Init /\ [][Next]_vars

-----------------------------------------------------------------------------
(* Properties *)

\* Types, and the semaphores of the devices count to one.
TypeOK ==
  /\ params \in Params
  /\ \A d \in Devs :
       /\ dev[d].sem \in {0, 1} /\ dev[d].size \in 0 .. MaxPos
       /\ <<dev[d].quantum, dev[d].qset>> \in Params
       /\ written[d] \subseteq 0 .. MaxPos - 1
  /\ \A p \in Procs : file[p].dev \in Devs \cup {None} /\ file[p].pos \in 0 .. MaxPos
  /\ ref \in [Procs -> {None, "live", "freed"}]
  /\ available \in Int /\ count \in Nat
  /\ waiting \subseteq Procs /\ mixed \subseteq Devs

\* The byte at a position, found as a read with the device's parameters finds it
Stored(d, i) ==
  LET at == Place(i, dev[d])
      data == dev[d].data
  IN  IF Reached(data, at) /\ at.s_pos < Len(data[at.item + 1])
         /\ at.q_pos < Len(data[at.item + 1][at.s_pos + 1])
      THEN data[at.item + 1][at.s_pos + 1][at.q_pos + 1] ELSE Junk

\* The device is a file (main.c:262-387): what was written at a position is
\* what a read finds there, however often the position was reached through
\* different quanta, until a trim - unless a call used stale parameters, which
\* main.c:297 and 341 copy before they take the semaphore.
Faithful ==
  \A d \in Devs \ mixed : \A i \in written[d] :
    i < dev[d].size /\ Stored(d, i) = i

\* Nobody uses memory of a device that is freed or is not its own. The
\* exceptions are those the code has: calls with stale parameters, the /proc
\* reader that takes dev->data before the semaphore (main.c:98), and on the
\* devices of access.c other than scullsingle the trims without the semaphore.
MemorySafe ==
  hits \subseteq CASE kind = "plain"  -> {"mixed", "proc"}
                  [] kind = "single" -> {}
                  [] OTHER           -> {"mixed", "copy", "trim"}

\* scullsingle (access.c:52-72): one opener at most, and the counter comes back
\* to 1 when he and all that were refused have left.
OneOpener ==
  kind = "single" =>
    /\ Cardinality(Inside) <= 1
    /\ available = 1 - Cardinality(Inside) - Cardinality({p \in Procs : At(p, "s_busy")})

\* sculluid and scullwuid (access.c:100-207): whoever has the device open is
\* the user of the first opener, acts as him, or is privileged.
OneUser ==
  kind \in {"uid", "wuid"} =>
    /\ count = Cardinality(Inside)
    /\ \A p \in Inside : owner \in {Uid[p], Euid[p]} \/ p \in Capable

\* The devices' fields keep their types, and the counters of access.c say who
\* has them open (access.c:52-72, 100-207).
Inv == TypeOK /\ OneOpener /\ OneUser

\* scullwuid (access.c:177-206): a process does not sleep in open while it
\* could have the device, except when the wake-up is on its way.
OpenersWoken ==
  \A p \in Procs :
    At(p, "w_sleep") /\ p \in waiting /\ Available(p) => \E q \in Procs : At(q, "w_wake")
=============================================================================

------------------------------ MODULE ShortPrint ------------------------------
(***************************************************************************)
(* The output side of the printer driver examples/shortprint/shortprint.c: *)
(* writers fill a circular page under a semaphore, a work queue thread     *)
(* strobes one byte at a time whenever the printer is ready, interrupts    *)
(* and a "missed interrupt" timer queue the work again, and a spin lock    *)
(* guards shortp_output_active, the out tail and the timer.                *)
(*                                                                         *)
(* A region under shortp_out_lock is one step: nothing in it sleeps.  The  *)
(* tests of shortp_output_active and of the space that the code makes      *)
(* without the lock are steps of their own.  Bytes are numbered modulo     *)
(* Modulus in the order they are written.                                  *)
(***************************************************************************)
EXTENDS Integers, Sequences, FiniteSets

CONSTANTS Procs,      \* processes that open, write and close the device
          PageSize,   \* PAGE_SIZE
          Counts,     \* byte counts of writes
          Modulus,    \* byte numbers are 0 .. Modulus-1
          Signalled,  \* processes that other programs send signals to
          Missed,     \* whether printer interrupts may get lost
          Removable   \* whether the module may be unloaded

ASSUME PrintAssumption == /\ Signalled \subseteq Procs
                          /\ PageSize \in Nat /\ PageSize >= 4
                          /\ Counts \subseteq Nat \ {0}
                          /\ Modulus \in Nat \ {0}
                          /\ Missed \in BOOLEAN /\ Removable \in BOOLEAN

VARIABLES
    head, tail,  \* shortp_out_head, shortp_out_tail as offsets
    mem,         \* the page at shortp_out_buffer
    sem,         \* shortp_out_sem
    active,      \* shortp_output_active
    timer,       \* shortp_timer is pending
    timeout,     \* where shortp_timeout is: idle, expired, lock, interrupt
    work,        \* shortp_work is pending on the work queue
    worker,      \* where shortp_do_work is: idle, wait, locked
    outq, emptyq,\* processes asleep on shortp_out_queue, shortp_empty_queue
    pc,          \* where each process is
    left,        \* left[p]: bytes of the current write still to store
    sig,         \* processes with a signal pending
    module,      \* loaded, or the step shortp_cleanup has reached
    busy, irq,   \* the printer: printing a byte; interrupt raised
    printed,     \* the last byte strobed
    sent         \* number of the next byte written (history)

buffer  == <<head, tail, mem>>
output  == <<active, timer, work>>
queues  == <<outq, emptyq>>
printer == <<busy, irq, printed>>
users   == <<pc, left, sig>>
vars == <<buffer, sem, output, timeout, worker, queues, users, module, printer, sent>>

MinSpace == PageSize \div 2

min(a, b) == IF a < b THEN a ELSE b

(* Mutant: the byte kept free is forgotten. *)

spaceWhole == IF head >= tail THEN PageSize - head ELSE tail - head - 1

(* shortp_out_space: contiguous free bytes, one byte of the page is never used. *)
space == IF head >= tail
         THEN IF tail = 0 THEN PageSize - head - 1 ELSE PageSize - head
         ELSE tail - head - 1

(* Mutant: the wrap is one byte late. *)

incrLate(p, n) == IF p + n > PageSize THEN p + n - PageSize ELSE p + n

incr(p, n) == IF p + n >= PageSize THEN p + n - PageSize ELSE p + n

At(p, l)   == pc[p] = l
Goto(p, l) == pc' = [pc EXCEPT ![p] = l]
Leave(p, l) == Goto(p, l) /\ sig' = sig \ {p}

Init == /\ head = 0 /\ tail = 0
        /\ mem = [i \in 0..PageSize - 1 |-> 0]
        /\ sem = 1
        /\ active = FALSE /\ timer = FALSE /\ work = FALSE
        /\ timeout = "idle" /\ worker = "idle"
        /\ outq = {} /\ emptyq = {}
        /\ pc = [p \in Procs |-> "closed"]
        /\ left = [p \in Procs |-> 0]
        /\ sig = {}
        /\ module = "loaded"
        /\ busy = FALSE /\ irq = FALSE /\ printed = <<>>
        /\ sent = 0

----------------------------------------------------------------------------
(* User programs. *)
CallOpen(p) == /\ At(p, "closed") /\ module = "loaded"
               /\ Goto(p, "user")
               /\ UNCHANGED <<buffer, sem, output, timeout, worker, queues, left, sig, module, printer, sent>>

CallWrite(p, n) == /\ At(p, "user")
                   /\ left' = [left EXCEPT ![p] = n]
                   /\ Goto(p, "w_down")
                   /\ UNCHANGED <<buffer, sem, output, timeout, worker, queues, sig, module, printer, sent>>

CallRelease(p) == /\ At(p, "user")
                  /\ Goto(p, "c_prep")
                  /\ UNCHANGED <<buffer, sem, output, timeout, worker, queues, left, sig, module, printer, sent>>

Signal(p) == /\ p \in Signalled /\ pc[p] \notin {"closed", "user"}
             /\ sig' = sig \cup {p}
             /\ UNCHANGED <<buffer, sem, output, timeout, worker, queues, pc, left, module, printer, sent>>

----------------------------------------------------------------------------
(* shortp_write. *)
Down(p) == /\ At(p, "w_down")
           /\ \/ sem > 0 /\ sem' = sem - 1 /\ Goto(p, "w_loop") /\ UNCHANGED sig
              \/ sem = 0 /\ p \in sig /\ Leave(p, "user") /\ UNCHANGED sem
           /\ UNCHANGED <<buffer, output, timeout, worker, queues, left, module, printer, sent>>

(* Mutant: a failed copy returns with the semaphore. *)

WriteEndFaultKeepsSem(p) ==
    /\ At(p, "w_loop")
    /\ left[p] = 0 \/ space > 0
    /\ sem' = IF left[p] = 0 THEN sem + 1 ELSE sem
    /\ left' = [left EXCEPT ![p] = 0]
    /\ Leave(p, "user")
    /\ UNCHANGED <<buffer, output, timeout, worker, queues, module, printer, sent>>

(* Everything is stored, or copy_from_user fails: give the semaphore back. *)
WriteEnd(p) == /\ At(p, "w_loop")
               /\ left[p] = 0 \/ space > 0
               /\ sem' = sem + 1
               /\ left' = [left EXCEPT ![p] = 0]
               /\ Leave(p, "user")
               /\ UNCHANGED <<buffer, output, timeout, worker, queues, module, printer, sent>>

WriteFill(p) ==
    /\ At(p, "w_loop") /\ left[p] > 0 /\ space > 0
    /\ LET k == min(space, left[p])
       IN /\ mem' = [i \in DOMAIN mem |->
                        IF i \in head..head + k - 1 THEN (sent + i - head) % Modulus
                        ELSE mem[i]]
          /\ head' = incr(head, k)
          /\ sent' = (sent + k) % Modulus
          /\ left' = [left EXCEPT ![p] = @ - k]
    /\ Goto(p, "w_start")
    /\ UNCHANGED <<tail, sem, output, timeout, worker, queues, sig, module, printer>>

(* Mutant: a pending timer is taken for active output. *)

WriteStartByTimer(p) ==
    /\ At(p, "w_start")
    /\ active' = (active \/ ~timer)
    /\ timer' = TRUE
    /\ work' = (work \/ ~timer)
    /\ Goto(p, "w_loop")
    /\ UNCHANGED <<buffer, sem, timeout, worker, queues, left, sig, module, printer, sent>>

(* Under the lock: start the output when it is not active. *)
WriteStart(p) == /\ At(p, "w_start")
                 /\ active' = TRUE
                 /\ timer' = (timer \/ ~active)
                 /\ work' = (work \/ ~active)
                 /\ Goto(p, "w_loop")
                 /\ UNCHANGED <<buffer, sem, timeout, worker, queues, left, sig, module, printer, sent>>

(* wait_event_interruptible(shortp_out_queue, space > 0). *)
WritePrepare(p) == /\ At(p, "w_loop") /\ left[p] > 0 /\ space = 0
                   /\ outq' = outq \cup {p}
                   /\ Goto(p, "w_check")
                   /\ UNCHANGED <<buffer, sem, output, timeout, worker, emptyq, left, sig, module, printer, sent>>

WriteCheck(p) == /\ At(p, "w_check")
                 /\ \/ /\ space > 0
                       /\ outq' = outq \ {p} /\ Goto(p, "w_loop") /\ UNCHANGED <<sem, left, sig>>
                    \/ /\ space = 0 /\ p \in sig
                       /\ outq' = outq \ {p} /\ Leave(p, "user")
                       /\ sem' = sem + 1 /\ left' = [left EXCEPT ![p] = 0]
                    \/ /\ space = 0 /\ p \notin sig
                       /\ Goto(p, "w_sleep") /\ UNCHANGED <<outq, sem, left, sig>>
                 /\ UNCHANGED <<buffer, output, timeout, worker, emptyq, module, printer, sent>>

WriteWoken(p) == /\ At(p, "w_sleep")
                 /\ p \notin outq \/ p \in sig
                 /\ outq' = outq \cup {p}
                 /\ Goto(p, "w_check")
                 /\ UNCHANGED <<buffer, sem, output, timeout, worker, emptyq, left, sig, module, printer, sent>>

----------------------------------------------------------------------------
(* shortp_release: wait_event_interruptible(shortp_empty_queue, not active). *)
ReleasePrepare(p) == /\ At(p, "c_prep")
                     /\ emptyq' = emptyq \cup {p}
                     /\ Goto(p, "c_check")
                     /\ UNCHANGED <<buffer, sem, output, timeout, worker, outq, left, sig, module, printer, sent>>

ReleaseCheck(p) == /\ At(p, "c_check")
                   /\ \/ /\ ~active \/ p \in sig
                         /\ emptyq' = emptyq \ {p} /\ Leave(p, "closed")
                      \/ /\ active /\ p \notin sig
                         /\ Goto(p, "c_sleep") /\ UNCHANGED <<emptyq, sig>>
                   /\ UNCHANGED <<buffer, sem, output, timeout, worker, outq, left, module, printer, sent>>

ReleaseWoken(p) == /\ At(p, "c_sleep")
                   /\ p \notin emptyq \/ p \in sig
                   /\ Goto(p, "c_prep")
                   /\ UNCHANGED <<buffer, sem, output, timeout, worker, queues, left, sig, module, printer, sent>>

----------------------------------------------------------------------------
(* The work queue thread: shortp_do_work waits for the printer without the *)
(* lock, then either ends the output or strobes the next byte.             *)
WorkBegin == /\ worker = "idle" /\ work
             /\ work' = FALSE
             /\ worker' = "wait"
             /\ UNCHANGED <<buffer, sem, active, timer, timeout, queues, users, module, printer, sent>>

(* Mutant: no wait for the printer. *)

WorkNoWait == /\ worker = "wait"
              /\ worker' = "locked"
              /\ UNCHANGED <<buffer, sem, output, timeout, queues, users, module, printer, sent>>

WorkReady == /\ worker = "wait" /\ ~busy
             /\ worker' = "locked"
             /\ UNCHANGED <<buffer, sem, output, timeout, queues, users, module, printer, sent>>

(* Mutant: writers are woken when the page is empty only. *)

WakeWritersAtEmpty(t) == IF t = head THEN {} ELSE outq

WakeWriters(t) == IF (PageSize + t - head) % PageSize > MinSpace THEN {} ELSE outq

WorkEmpty == /\ worker = "locked" /\ head = tail
             /\ active' = FALSE
             /\ emptyq' = {}
             /\ timer' = FALSE
             /\ outq' = WakeWriters(tail)
             /\ worker' = "idle"
             /\ UNCHANGED <<buffer, sem, work, timeout, users, module, printer, sent>>

(* Mutant: the timer is not set again. *)

WorkStrobeNoTimer ==
    /\ worker = "locked" /\ head # tail
    /\ printed' = <<mem[tail]>>
    /\ busy' = TRUE
    /\ tail' = incr(tail, 1)
    /\ outq' = WakeWriters(tail')
    /\ worker' = "idle"
    /\ UNCHANGED <<head, mem, sem, active, timer, work, timeout, emptyq, users, module, irq, sent>>

WorkStrobe == /\ worker = "locked" /\ head # tail
              /\ timer' = TRUE
              /\ printed' = <<mem[tail]>>
              /\ busy' = TRUE
              /\ tail' = incr(tail, 1)
              /\ outq' = WakeWriters(tail')
              /\ worker' = "idle"
              /\ UNCHANGED <<head, mem, sem, active, work, timeout, emptyq, users, module, irq, sent>>

----------------------------------------------------------------------------
(* The printer finishes a byte and interrupts; shortp_interrupt. *)
PrinterDone == /\ busy
               /\ busy' = FALSE
               /\ \/ irq' = TRUE
                  \/ Missed /\ UNCHANGED irq
               /\ UNCHANGED <<buffer, sem, output, timeout, worker, queues, users, module, printed, sent>>

(* Mutant: the handler does not queue the work. *)

InterruptIgnored ==
    /\ irq /\ module = "loaded"
    /\ irq' = FALSE
    /\ UNCHANGED <<buffer, sem, output, timeout, worker, queues, users, module, busy, printed, sent>>

Interrupt == /\ irq /\ module = "loaded"
             /\ irq' = FALSE
             /\ work' = (work \/ active)
             /\ UNCHANGED <<buffer, sem, active, timer, timeout, worker, queues, users, module, busy, printed, sent>>

(* shortp_timeout: test without the lock, then look at the status under    *)
(* the lock; a status that says busy, or acknowledging, sets the timer     *)
(* again, any other runs the interrupt handler.                            *)
TimerExpires == /\ timer /\ timeout = "idle" /\ module # "unloaded"
                /\ timer' = FALSE
                /\ timeout' = "expired"
                /\ UNCHANGED <<buffer, sem, active, work, worker, queues, users, module, printer, sent>>

TimeoutCheck == /\ timeout = "expired"
                /\ timeout' = IF active THEN "lock" ELSE "idle"
                /\ UNCHANGED <<buffer, sem, output, worker, queues, users, module, printer, sent>>

TimeoutRearm == /\ timeout = "lock"
                /\ timer' = TRUE
                /\ timeout' = "idle"
                /\ UNCHANGED <<buffer, sem, active, work, worker, queues, users, module, printer, sent>>

TimeoutReady == /\ timeout = "lock" /\ ~busy
                /\ timeout' = "interrupt"
                /\ UNCHANGED <<buffer, sem, output, worker, queues, users, module, printer, sent>>

TimeoutInterrupt == /\ timeout = "interrupt"
                    /\ work' = (work \/ active)
                    /\ timeout' = "idle"
                    /\ UNCHANGED <<buffer, sem, active, timer, worker, queues, users, module, printer, sent>>

----------------------------------------------------------------------------
(* shortp_cleanup, once every file is closed: disable the interrupt, then  *)
(* delete the timer if output is active, then flush the work queue.        *)
CleanupIrq == /\ Removable /\ module = "loaded"
              /\ \A p \in Procs : At(p, "closed")
              /\ module' = "no_irq"
              /\ irq' = FALSE
              /\ UNCHANGED <<buffer, sem, output, timeout, worker, queues, users, busy, printed, sent>>

(* del_timer_sync also waits for a handler that is running. *)
CleanupTimer == /\ module = "no_irq"
                /\ active => timeout = "idle"
                /\ timer' = (timer /\ ~active)
                /\ module' = "no_timer"
                /\ UNCHANGED <<buffer, sem, active, work, timeout, worker, queues, users, printer, sent>>

CleanupFlush == /\ module = "no_timer"
                /\ ~work /\ worker = "idle"
                /\ module' = "unloaded"
                /\ UNCHANGED <<buffer, sem, output, timeout, worker, queues, users, printer, sent>>

(* shortp_init on a later load. *)
Load == /\ module = "unloaded"
        /\ module' = "loaded"
        /\ head' = 0 /\ tail' = 0
        /\ sem' = 1
        /\ active' = FALSE /\ timer' = FALSE /\ timeout' = "idle"
        /\ UNCHANGED <<mem, work, worker, queues, users, printer, sent>>

----------------------------------------------------------------------------
User(p) == \/ CallOpen(p) \/ CallRelease(p) \/ Signal(p)
           \/ \E n \in Counts : CallWrite(p, n)

Kernel(p) == \/ WriteEnd(p) \/ WriteFill(p) \/ WriteStart(p)
             \/ WritePrepare(p) \/ WriteCheck(p) \/ WriteWoken(p)
             \/ ReleasePrepare(p) \/ ReleaseCheck(p) \/ ReleaseWoken(p)

Worker  == WorkBegin \/ WorkReady \/ WorkEmpty \/ WorkStrobe
Timeout == TimerExpires \/ TimeoutCheck \/ TimeoutRearm \/ TimeoutReady \/ TimeoutInterrupt
Cleanup == CleanupIrq \/ CleanupTimer \/ CleanupFlush \/ Load

Next == \/ \E p \in Procs : User(p) \/ Down(p) \/ Kernel(p)
        \/ Worker \/ PrinterDone \/ Interrupt \/ Timeout \/ Cleanup

Spec == Init /\ [][Next]_vars

(* Processes and the work thread are scheduled, the printer finishes its   *)
(* byte, its interrupt is delivered, and a semaphore that becomes free     *)
(* again and again is eventually granted.  Nothing is assumed of the timer.*)
Fairness == /\ \A p \in Procs : WF_vars(Kernel(p)) /\ SF_vars(Down(p))
            /\ WF_vars(Worker) /\ WF_vars(PrinterDone) /\ WF_vars(Interrupt)

FairSpec == Spec /\ Fairness

----------------------------------------------------------------------------
(* Properties. *)

Labels == {"closed", "user", "w_down", "w_loop", "w_start", "w_check", "w_sleep",
           "c_prep", "c_check", "c_sleep"}

(* Processes between down_interruptible(&shortp_out_sem) and its up(). *)
Holders == {p \in Procs : pc[p] \in {"w_loop", "w_start", "w_check", "w_sleep"}}

(* Every variable has its type. *)
TypeOK == /\ head \in 0..PageSize - 1 /\ tail \in 0..PageSize - 1
          /\ mem \in [0..PageSize - 1 -> 0..Modulus - 1]
          /\ sem \in Nat
          /\ active \in BOOLEAN /\ timer \in BOOLEAN /\ work \in BOOLEAN
          /\ timeout \in {"idle", "expired", "lock", "interrupt"}
          /\ worker \in {"idle", "wait", "locked"}
          /\ outq \subseteq Procs /\ emptyq \subseteq Procs
          /\ pc \in [Procs -> Labels]
          /\ left \in [Procs -> Nat]
          /\ sig \subseteq Procs
          /\ module \in {"loaded", "no_irq", "no_timer", "unloaded"}
          /\ busy \in BOOLEAN /\ irq \in BOOLEAN
          /\ printed \in {<<>>} \cup {<<b>> : b \in 0..Modulus - 1}
          /\ sent \in 0..Modulus - 1

(* The semaphore is given back exactly once by a complete, interrupted or  *)
(* failed write: only one process at a time stores bytes.                  *)
SemExact == sem + Cardinality(Holders) = 1

(* The buffer's indices stay inside the page, and the semaphore is free    *)
(* exactly when no write is storing (shortprint.c:128-137, 186-237).       *)
Inv == TypeOK /\ SemExact

(* While output is active somebody will carry it on, even if the printer's *)
(* interrupt was lost: the timer is pending, its handler runs, or the work *)
(* is queued or running.  The handler tests shortp_output_active without   *)
(* the lock and the work thread ends and restarts output around it.        *)
OutputNeverStalls ==
    module = "loaded" /\ active
        => timer \/ work \/ worker # "idle" \/ timeout # "idle"

(* Stored bytes are never left behind by an output that just ended: the    *)
(* writer that stored them is about to start it again.                     *)
StoredIsActive == head # tail => active \/ \E p \in Procs : At(p, "w_start")

(* A writer sleeps only while more than half of the page is used, and a    *)
(* closing process only while output is active: no wake-up is lost between *)
(* their unlocked tests and their sleep.                                   *)
SleepersWaitForOutput ==
    /\ \A p \in outq : At(p, "w_sleep") =>
          /\ head # tail
          /\ (PageSize + tail - head) % PageSize <= MinSpace
    /\ \A p \in emptyq : At(p, "c_sleep") => active

(* A byte is strobed only to a printer that is ready, though the printer   *)
(* is examined before the lock is taken.                                   *)
StrobeWhenReady == [][WorkStrobe => ~busy]_vars

Contents == [i \in 1..(head - tail) % PageSize |-> mem[(tail + i - 1) % PageSize]]

Channel == INSTANCE ByteChannel
             WITH Procs <- {"printer"}, MaxCapacity <- PageSize - 1, queue <- Contents,
                  out <- [d \in {"printer"} |-> printed]

(* The printer gets the bytes in the order they were written, each once.   *)
ImplementsChannel == Channel!Spec

(* A write that holds the semaphore returns, when interrupts do not get    *)
(* lost.                                                                   *)
WriteCompletes == \A p \in Procs : At(p, "w_loop") ~> At(p, "user")

(* shortp_cleanup leaves no timer floating around. *)
NoFloatingTimer == module = "unloaded" => ~timer /\ timeout = "idle"
=============================================================================

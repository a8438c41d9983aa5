------------------------------ MODULE ScullPipe ------------------------------
(***************************************************************************)
(* The blocking pipe device of examples/scull/pipe.c: a circular buffer    *)
(* guarded by a semaphore, with sleeping readers and writers, non-blocking *)
(* files, poll, asynchronous notification, signals, and an ioctl that      *)
(* changes the size used by later opens.                                   *)
(*                                                                         *)
(* Every process owns one file of the device.  Pointers into the buffer    *)
(* are offsets from its start; the bytes writers hand over are numbered    *)
(* modulo Modulus, so that their order can be followed through the buffer. *)
(***************************************************************************)
EXTENDS Integers, Sequences, FiniteSets

CONSTANTS Procs,      \* processes, one open file each
          Readers,    \* those whose file has FMODE_READ
          Writers,    \* those whose file has FMODE_WRITE
          NonBlock,   \* those whose file has O_NONBLOCK
          Pollers,    \* those whose program calls select()
          Asyncs,     \* those whose program asks for SIGIO
          Signalled,  \* those that other programs send signals to
          Sizes,      \* the values scull_p_buffer can take
          Counts,     \* the byte counts user programs ask for
          Modulus     \* byte numbers are 0 .. Modulus-1

ASSUME ProcsAssumption == /\ Readers \cup Writers = Procs
                          /\ NonBlock \subseteq Procs
                          /\ Pollers \subseteq Procs
                          /\ Asyncs \subseteq Procs
                          /\ Signalled \subseteq Procs
                          /\ IsFiniteSet(Procs)

ASSUME SizesAssumption == /\ Sizes \subseteq Nat \ {0}
                          /\ \E m \in Sizes : \A s \in Sizes : s <= m
                          /\ Counts \subseteq Nat
                          /\ Modulus \in Nat \ {0}

VARIABLES
    psize,      \* scull_p_buffer, the module parameter
    alloc,      \* bytes kmalloc'ed for dev->buffer, 0 when it is NULL
    buffersize, \* dev->buffersize
    rp, wp,     \* dev->rp, dev->wp as offsets from dev->buffer
    mem,        \* the bytes of the buffer
    nreaders, nwriters,
    sem,        \* value of dev->sem
    inq, outq,  \* processes on a wait queue and not woken yet
    async,      \* dev->async_queue
    pc,         \* where each process is in the driver
    sig,        \* processes with a signal pending
    sent,       \* number of the next byte handed over (history)
    ubuf        \* the bytes copied to the user by the read in progress

pointers == <<alloc, buffersize, rp, wp, mem>>
counts   == <<nreaders, nwriters>>
queues   == <<inq, outq, async>>
vars == <<psize, pointers, counts, sem, queues, pc, sig, sent, ubuf>>

MaxSize == CHOOSE m \in Sizes : \A s \in Sizes : s <= m

(* dev->end, as an offset. *)
end == buffersize

(* How much space is free? *)
spacefree == IF rp = wp THEN buffersize - 1
             ELSE ((rp + buffersize - wp) % buffersize) - 1

min(a, b) == IF a < b THEN a ELSE b

(* Contiguous bytes a read may take, and a write may fill. *)
readable == IF wp > rp THEN wp - rp ELSE end - rp
(* Mutant: space to the end of the buffer, the byte kept free ignored. *)

writableToEnd == IF wp >= rp THEN end - wp ELSE rp - wp - 1

writable == IF wp >= rp THEN min(spacefree, end - wp)
            ELSE min(spacefree, rp - wp - 1)

Outside == {"closed", "user"}
Locked  == {"open", "release", "r_test", "r_wrap", "w_test", "w_wrap", "poll"}

At(p, l)   == pc[p] = l
Goto(p, l) == pc' = [pc EXCEPT ![p] = l]

(* The system call of p ends: a pending signal is handled on the way out. *)
Leave(p, l) == /\ Goto(p, l)
               /\ sig' = sig \ {p}

up == sem' = sem + 1

Init == /\ psize \in Sizes
        /\ alloc = 0 /\ buffersize = 0 /\ rp = 0 /\ wp = 0
        /\ mem = [i \in 0..MaxSize - 1 |-> 0]
        /\ nreaders = 0 /\ nwriters = 0
        /\ sem = 1
        /\ inq = {} /\ outq = {} /\ async = {}
        /\ pc = [p \in Procs |-> "closed"]
        /\ sig = {}
        /\ sent = 0
        /\ ubuf = [p \in Procs |-> <<>>]

----------------------------------------------------------------------------
(* System calls a user program makes.  Each goes to the down() it starts   *)
(* with; release first leaves the list of asynchronous readers.            *)
CallOpen(p) == /\ At(p, "closed") /\ Goto(p, "o_down")
               /\ UNCHANGED <<psize, pointers, counts, sem, queues, sig, sent, ubuf>>

CallRead(p) == /\ At(p, "user") /\ p \in Readers /\ Goto(p, "r_down")
               /\ UNCHANGED <<psize, pointers, counts, sem, queues, sig, sent, ubuf>>

CallWrite(p) == /\ At(p, "user") /\ p \in Writers /\ Goto(p, "w_down")
                /\ UNCHANGED <<psize, pointers, counts, sem, queues, sig, sent, ubuf>>

CallPoll(p) == /\ At(p, "user") /\ p \in Pollers /\ Goto(p, "p_down")
               /\ UNCHANGED <<psize, pointers, counts, sem, queues, sig, sent, ubuf>>

CallRelease(p) == /\ At(p, "user") /\ Goto(p, "c_down")
                  /\ async' = async \ {p}
                  /\ UNCHANGED <<psize, pointers, counts, sem, inq, outq, sig, sent, ubuf>>

(* fcntl(F_SETFL) with or without FASYNC. *)
Fasync(p) == /\ At(p, "user") /\ p \in Asyncs
             /\ async' \in {async \cup {p}, async \ {p}}
             /\ UNCHANGED <<psize, pointers, counts, sem, inq, outq, pc, sig, sent, ubuf>>

(* ioctl(SCULL_P_IOCTSIZE): no lock, and the buffer is left as it is. The  *)
(* size it has already would change nothing.                               *)
SetSize(s) == /\ s # psize
              /\ psize' = s
              /\ UNCHANGED <<pointers, counts, sem, queues, pc, sig, sent, ubuf>>

(* A signal reaches a process inside the driver. *)
Signal(p) == /\ p \in Signalled /\ pc[p] \notin Outside
             /\ sig' = sig \cup {p}
             /\ UNCHANGED <<psize, pointers, counts, sem, queues, pc, sent, ubuf>>

----------------------------------------------------------------------------
(* down_interruptible() succeeds, or returns early because of a signal;    *)
(* release and poll use down(), which signals do not end.                  *)
AfterDown == [o_down |-> "open", r_down |-> "r_test", w_down |-> "w_test",
              c_down |-> "release", p_down |-> "poll"]

(* Mutant: down() lets everyone through. *)

DownUnchecked(p) ==
    /\ pc[p] \in DOMAIN AfterDown
    /\ sem' = sem - 1
    /\ Goto(p, AfterDown[pc[p]])
    /\ UNCHANGED <<psize, pointers, counts, queues, sig, sent, ubuf>>

Down(p) == /\ pc[p] \in DOMAIN AfterDown
           /\ sem > 0
           /\ sem' = sem - 1
           /\ Goto(p, AfterDown[pc[p]])
           /\ UNCHANGED <<psize, pointers, counts, queues, sig, sent, ubuf>>

DownInterrupted(p) == /\ pc[p] \in {"o_down", "r_down", "w_down"}
                      /\ p \in sig /\ sem = 0
                      /\ Leave(p, IF At(p, "o_down") THEN "closed" ELSE "user")
                      /\ UNCHANGED <<psize, pointers, counts, sem, queues, sent, ubuf>>
----------------------------------------------------------------------------
(* Mutant: pointers are set only when the buffer is allocated. *)

OpenKeepingPointers(p) ==
    /\ At(p, "open")
    /\ alloc' = IF alloc = 0 THEN psize ELSE alloc
    /\ buffersize' = psize
    /\ rp' = (IF alloc = 0 THEN 0 ELSE rp) /\ wp' = (IF alloc = 0 THEN 0 ELSE wp)
    /\ nreaders' = nreaders + (IF p \in Readers THEN 1 ELSE 0)
    /\ nwriters' = nwriters + (IF p \in Writers THEN 1 ELSE 0)
    /\ up
    /\ Leave(p, "user")
    /\ UNCHANGED <<psize, mem, queues, sent, ubuf>>

(* scull_p_open: allocate on first use, then always start from the         *)
(* beginning of the buffer, whatever it holds.                             *)
Open(p) == /\ At(p, "open")
           /\ alloc' = IF alloc = 0 THEN psize ELSE alloc
           /\ buffersize' = psize
           /\ rp' = 0 /\ wp' = 0
           /\ nreaders' = nreaders + (IF p \in Readers THEN 1 ELSE 0)
           /\ nwriters' = nwriters + (IF p \in Writers THEN 1 ELSE 0)
           /\ up
           /\ Leave(p, "user")
           /\ UNCHANGED <<psize, mem, queues, sent, ubuf>>

OpenNoMem(p) == /\ At(p, "open") /\ alloc = 0
                /\ up
                /\ Leave(p, "closed")
                /\ UNCHANGED <<psize, pointers, counts, queues, sent, ubuf>>

(* Mutant: the buffer is freed when the last reader leaves. *)

ReleaseLastReader(p) ==
    /\ At(p, "release")
    /\ nreaders' = nreaders - (IF p \in Readers THEN 1 ELSE 0)
    /\ nwriters' = nwriters - (IF p \in Writers THEN 1 ELSE 0)
    /\ alloc' = IF nreaders' = 0 THEN 0 ELSE alloc
    /\ up
    /\ Leave(p, "closed")
    /\ UNCHANGED <<psize, buffersize, rp, wp, mem, queues, sent, ubuf>>

Release(p) == /\ At(p, "release")
              /\ nreaders' = nreaders - (IF p \in Readers THEN 1 ELSE 0)
              /\ nwriters' = nwriters - (IF p \in Writers THEN 1 ELSE 0)
              /\ alloc' = IF nreaders' + nwriters' = 0 THEN 0 ELSE alloc
              /\ up
              /\ Leave(p, "closed")
              /\ UNCHANGED <<psize, buffersize, rp, wp, mem, queues, sent, ubuf>>

----------------------------------------------------------------------------
(* scull_p_read.                                                           *)
ReadEmpty(p) == /\ At(p, "r_test") /\ rp = wp
                /\ up
                /\ \/ p \in NonBlock /\ Leave(p, "user")
                   \/ p \notin NonBlock /\ Goto(p, "r_prep") /\ UNCHANGED sig
                /\ UNCHANGED <<psize, pointers, counts, queues, sent, ubuf>>

ReadCopy(p, count) ==
    /\ At(p, "r_test") /\ rp # wp
    /\ LET k == min(count, readable)
       IN /\ ubuf' = [ubuf EXCEPT ![p] = [i \in 1..k |-> mem[rp + i - 1]]]
          /\ rp' = rp + k
    /\ Goto(p, "r_wrap")
    /\ UNCHANGED <<psize, alloc, buffersize, wp, mem, counts, sem, queues, sig, sent>>

(* Mutant: the error path forgets up(). *)

FaultKeepingSem(p) ==
    /\ \/ At(p, "r_test") /\ rp # wp
       \/ At(p, "w_test") /\ spacefree # 0
    /\ Leave(p, "user")
    /\ UNCHANGED <<psize, pointers, counts, sem, queues, sent, ubuf>>

(* copy_to_user or copy_from_user fails. *)
Fault(p) == /\ \/ At(p, "r_test") /\ rp # wp
               \/ At(p, "w_test") /\ spacefree # 0
            /\ up
            /\ Leave(p, "user")
            /\ UNCHANGED <<psize, pointers, counts, queues, sent, ubuf>>

ReadWrap(p) == /\ At(p, "r_wrap")
               /\ rp' = IF rp = end THEN 0 ELSE rp
               /\ up
               /\ Goto(p, "r_wake")
               /\ UNCHANGED <<psize, alloc, buffersize, wp, mem, counts, queues, sig, sent, ubuf>>

ReadWake(p) == /\ At(p, "r_wake")
               /\ outq' = {}
               /\ ubuf' = [ubuf EXCEPT ![p] = <<>>]
               /\ Leave(p, "user")
               /\ UNCHANGED <<psize, pointers, counts, sem, inq, async, sent>>

(* wait_event_interruptible(dev->inq, dev->rp != dev->wp): enqueue, then   *)
(* test without the semaphore, then sleep.                                 *)
ReadPrepare(p) == /\ At(p, "r_prep")
                  /\ inq' = inq \cup {p}
                  /\ Goto(p, "r_check")
                  /\ UNCHANGED <<psize, pointers, counts, sem, outq, async, sig, sent, ubuf>>

(* Mutant: interruptible_sleep_on(): sleep without testing again. *)

ReadSleepOn(p) ==
    /\ At(p, "r_check")
    /\ Goto(p, "r_sleep")
    /\ UNCHANGED <<psize, pointers, counts, sem, queues, sig, sent, ubuf>>

ReadCheck(p) == /\ At(p, "r_check")
                /\ \/ /\ rp # wp
                      /\ inq' = inq \ {p} /\ Goto(p, "r_down") /\ UNCHANGED sig
                   \/ /\ rp = wp /\ p \in sig
                      /\ inq' = inq \ {p} /\ Leave(p, "user")
                   \/ /\ rp = wp /\ p \notin sig
                      /\ Goto(p, "r_sleep") /\ UNCHANGED <<inq, sig>>
                /\ UNCHANGED <<psize, pointers, counts, sem, outq, async, sent, ubuf>>

ReadWoken(p) == /\ At(p, "r_sleep")
                /\ p \notin inq \/ p \in sig
                /\ Goto(p, "r_prep")
                /\ UNCHANGED <<psize, pointers, counts, sem, queues, sig, sent, ubuf>>

----------------------------------------------------------------------------
(* Mutant: the writer goes to sleep with the semaphore. *)

WriteFullKeepingSem(p) ==
    /\ At(p, "w_test") /\ spacefree = 0
    /\ Goto(p, "w_prep")
    /\ UNCHANGED <<psize, pointers, counts, sem, queues, sig, sent, ubuf>>

(* scull_p_write and scull_getwritespace.                                  *)
WriteFull(p) == /\ At(p, "w_test") /\ spacefree = 0
                /\ up
                /\ \/ p \in NonBlock /\ Leave(p, "user")
                   \/ p \notin NonBlock /\ Goto(p, "w_prep") /\ UNCHANGED sig
                /\ UNCHANGED <<psize, pointers, counts, queues, sent, ubuf>>

WritePrepare(p) == /\ At(p, "w_prep")
                   /\ outq' = outq \cup {p}
                   /\ Goto(p, "w_check")
                   /\ UNCHANGED <<psize, pointers, counts, sem, inq, async, sig, sent, ubuf>>

(* Mutant: sleep without testing again. *)

WriteSleepOn(p) ==
    /\ At(p, "w_check")
    /\ Goto(p, "w_sleep")
    /\ UNCHANGED <<psize, pointers, counts, sem, queues, sig, sent, ubuf>>

WriteCheck(p) == /\ At(p, "w_check")
                 /\ Goto(p, IF spacefree = 0 THEN "w_sleep" ELSE "w_finish")
                 /\ UNCHANGED <<psize, pointers, counts, sem, queues, sig, sent, ubuf>>

WriteWoken(p) == /\ At(p, "w_sleep")
                 /\ p \notin outq \/ p \in sig
                 /\ Goto(p, "w_finish")
                 /\ UNCHANGED <<psize, pointers, counts, sem, queues, sig, sent, ubuf>>

WriteFinish(p) == /\ At(p, "w_finish")
                  /\ outq' = outq \ {p}
                  /\ \/ p \in sig /\ Leave(p, "user")
                     \/ p \notin sig /\ Goto(p, "w_down") /\ UNCHANGED sig
                  /\ UNCHANGED <<psize, pointers, counts, sem, inq, async, sent, ubuf>>

WriteCopy(p, count) ==
    /\ At(p, "w_test") /\ spacefree # 0
    /\ LET k == min(count, writable)
       IN /\ mem' = [i \in DOMAIN mem |->
                        IF i \in wp..wp + k - 1 THEN (sent + i - wp) % Modulus
                        ELSE mem[i]]
          /\ wp' = wp + k
          /\ sent' = (sent + k) % Modulus
    /\ Goto(p, "w_wrap")
    /\ UNCHANGED <<psize, alloc, buffersize, rp, counts, sem, queues, sig, ubuf>>

WriteWrap(p) == /\ At(p, "w_wrap")
                /\ wp' = IF wp = end THEN 0 ELSE wp
                /\ up
                /\ Goto(p, "w_wake")
                /\ UNCHANGED <<psize, alloc, buffersize, rp, mem, counts, queues, sig, sent, ubuf>>

(* Mutant: a write wakes the writers. *)

WriteWakeWriters(p) ==
    /\ At(p, "w_wake")
    /\ outq' = {}
    /\ Leave(p, "user")
    /\ UNCHANGED <<psize, pointers, counts, sem, inq, async, sent, ubuf>>

(* Wake the readers, and send SIGIO to the asynchronous ones. *)
WriteWake(p) == /\ At(p, "w_wake")
                /\ inq' = {}
                /\ sig' = (sig \cup {r \in async : pc[r] \notin Outside}) \ {p}
                /\ Goto(p, "user")
                /\ UNCHANGED <<psize, pointers, counts, sem, outq, async, sent, ubuf>>

----------------------------------------------------------------------------
(* scull_p_poll, called by select(): join both queues, compute the mask    *)
(* under the semaphore, and sleep when no wanted event is there.           *)
Ready(p) == \/ p \in Readers /\ rp # wp
            \/ p \in Writers /\ spacefree # 0

Poll(p) == /\ At(p, "poll")
           /\ up
           /\ \/ /\ Ready(p)
                 /\ Leave(p, "user") /\ UNCHANGED <<inq, outq>>
              \/ /\ ~Ready(p)
                 /\ inq' = inq \cup {p} /\ outq' = outq \cup {p}
                 /\ Goto(p, "p_sleep") /\ UNCHANGED sig
           /\ UNCHANGED <<psize, pointers, counts, async, sent, ubuf>>

PollWoken(p) == /\ At(p, "p_sleep")
                /\ \/ p \in sig /\ Leave(p, "user")
                   \/ ~(p \in inq /\ p \in outq) /\ Goto(p, "p_down") /\ UNCHANGED sig
                /\ inq' = inq \ {p} /\ outq' = outq \ {p}
                /\ UNCHANGED <<psize, pointers, counts, sem, async, sent, ubuf>>

----------------------------------------------------------------------------
(* What a process does inside the driver, once it made a call. *)
Kernel(p) == \/ DownInterrupted(p)
             \/ Open(p) \/ OpenNoMem(p) \/ Release(p)
             \/ ReadEmpty(p) \/ ReadWrap(p) \/ ReadWake(p)
             \/ ReadPrepare(p) \/ ReadCheck(p) \/ ReadWoken(p)
             \/ WriteFull(p) \/ WriteWrap(p) \/ WriteWake(p)
             \/ WritePrepare(p) \/ WriteCheck(p) \/ WriteWoken(p) \/ WriteFinish(p)
             \/ \E n \in Counts : ReadCopy(p, n) \/ WriteCopy(p, n)
             \/ Fault(p)
             \/ Poll(p) \/ PollWoken(p)

User(p) == \/ CallOpen(p) \/ CallRead(p) \/ CallWrite(p) \/ CallPoll(p)
           \/ CallRelease(p) \/ Fasync(p) \/ Signal(p)

Next == \/ \E p \in Procs : User(p) \/ Down(p) \/ Kernel(p)
        \/ \E s \in Sizes : SetSize(s)

Spec == Init /\ [][Next]_vars

(* A process in the driver keeps running, and a semaphore that becomes     *)
(* free again and again is eventually granted: the kernel queues waiters.  *)
Fairness == \A p \in Procs : WF_vars(Kernel(p)) /\ SF_vars(Down(p))

FairSpec == Spec /\ Fairness

----------------------------------------------------------------------------
(* Properties.                                                             *)

Labels == Outside \cup Locked \cup DOMAIN AfterDown \cup
          {"r_wake", "r_prep", "r_check", "r_sleep",
           "w_wake", "w_prep", "w_check", "w_sleep", "w_finish", "p_sleep"}

Opened(p) == pc[p] \notin {"closed", "o_down", "open"}

Holders == {p \in Procs : pc[p] \in Locked}

(* Every variable has its type. *)
TypeOK == /\ psize \in Sizes
          /\ alloc \in Sizes \cup {0} /\ buffersize \in Sizes \cup {0}
          /\ rp \in Nat /\ wp \in Nat
          /\ mem \in [0..MaxSize - 1 -> 0..Modulus - 1]
          /\ nreaders \in Int /\ nwriters \in Int
          /\ sem \in Nat
          /\ inq \subseteq Procs /\ outq \subseteq Procs /\ async \subseteq Procs
          /\ pc \in [Procs -> Labels]
          /\ sig \subseteq Procs
          /\ sent \in 0..Modulus - 1
          /\ ubuf \in [Procs -> Seq(0..Modulus - 1)]

(* The semaphore is released exactly once on every path out of a critical  *)
(* section: the early returns for O_NONBLOCK, signals, faulting user       *)
(* buffers and a failed kmalloc included.                                  *)
SemExact == sem + Cardinality(Holders) = 1

(* The pipe's fields keep their types, and its semaphore is free exactly   *)
(* when no caller is inside a critical section (pipe.c:62-300).            *)
Inv == TypeOK /\ SemExact

(* Both pointers stay inside the buffer an open laid out, and stand at its *)
(* end only between the advance and the wrap, with the semaphore held,     *)
(* although opens move them and ioctls change the size while other         *)
(* processes sleep half way through a read or a write.                     *)
PointersInRange ==
    /\ rp <= end /\ wp <= end
    /\ end # 0 /\ rp = end => \E p \in Procs : At(p, "r_wrap")
    /\ end # 0 /\ wp = end => \E p \in Procs : At(p, "w_wrap")
    /\ \A p \in Procs : Opened(p) => end # 0

(* The buffer lives as long as a file is open, and no longer: no process   *)
(* inside read, write or poll can find it freed.                           *)
BufferLifetime == (alloc = 0) <=> \A p \in Procs : ~Opened(p)

(* Only open files are on the list of asynchronous readers. *)
AsyncOpen == \A p \in async : Opened(p) /\ ~At(p, "c_down") /\ ~At(p, "release")

(* A reader or a poller sleeps beside stored bytes only while the writer   *)
(* that stored them is still on its way to wake_up_interruptible(&inq).    *)
ReaderWakeup ==
    (\E p \in inq : At(p, "r_sleep") \/ (At(p, "p_sleep") /\ p \in Readers /\ p \in outq))
        => \/ rp = wp
           \/ \E w \in Procs : At(w, "w_wake") \/ At(w, "w_wrap")

(* A writer sleeps beside free space only while a reader is on its way to  *)
(* wake_up_interruptible(&outq).                                           *)
WriterWakeup ==
    (\E p \in outq : At(p, "w_sleep"))
        => \/ spacefree = 0
           \/ \E r \in Procs : At(r, "r_wake") \/ At(r, "r_wrap")

(* The only step that can leave a writer asleep beside free space with no  *)
(* wake-up on its way is an open, which empties the buffer and wakes       *)
(* nobody; reads, wake-ups, signals, failures and closes never do.         *)
WakeupLostOnlyByOpen ==
    [][WriterWakeup /\ ~WriterWakeup' => \E p \in Procs : Open(p)]_vars

Contents == IF alloc = 0 THEN <<>>
            ELSE [i \in 1..(wp - rp) % buffersize |-> mem[(rp + i - 1) % buffersize]]

Channel == INSTANCE ByteChannel
             WITH MaxCapacity <- MaxSize - 1, queue <- Contents, out <- ubuf

(* The driver is a bounded FIFO channel that opens and the last close      *)
(* empty: bytes come out in the order they went in, each once.             *)
ImplementsChannel == Channel!Spec

(* Whoever asks for the semaphore in close() gets it: nobody returns or    *)
(* sleeps with it.                                                         *)
CloseCompletes == \A p \in Procs : At(p, "c_down") ~> At(p, "closed")

(* Stored bytes do not rest beside a sleeping reader forever. *)
SleepersServed ==
    (rp # wp /\ \E p \in Procs : At(p, "r_sleep"))
        ~> (rp = wp \/ \A p \in Procs : ~At(p, "r_sleep"))
=============================================================================

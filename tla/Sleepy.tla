------------------------------ MODULE Sleepy ------------------------------
(***************************************************************************)
(* examples/misc-modules/sleepy.c and complete.c. Readers sleep until a    *)
(* write: in sleepy on a flag that every reader clears when it goes on, in *)
(* complete on a completion, which counts the writes.                      *)
(***************************************************************************)
EXTENDS Integers, FiniteSets

CONSTANTS Procs,        \* processes that read and write both devices
          MaxWrites     \* bound: writes to each device

VARIABLES sleepyFlag,   \* flag
          sleepyProc,   \* [Procs -> the call it is in]
          sleepyCount,  \* history: writes begun, and reads that came back, of each device
          complete      \* comp.done; its waiters are the "waiting" processes

vars == <<sleepyFlag, sleepyProc, sleepyCount, complete>>

Init ==
  /\ sleepyFlag = 0 /\ complete = 0
  /\ sleepyProc = [p \in Procs |-> "out"]
  /\ sleepyCount = [flags |-> 0, completes |-> 0, completed |-> 0]

At(p, l) == sleepyProc[p] = l
To(p, l) == sleepyProc' = [sleepyProc EXCEPT ![p] = l]

-----------------------------------------------------------------------------
(* sleepy.c                                                                *)

\* Mutant: the condition is not looked at between the queue and the sleep.
ReadTestOnce(p) ==
  /\ \/ At(p, "out") /\ To(p, IF sleepyFlag # 0 THEN "clear" ELSE "queue")
     \/ At(p, "queue") /\ To(p, "asleep")
     \/ At(p, "woken") /\ To(p, IF sleepyFlag # 0 THEN "clear" ELSE "queue")
  /\ UNCHANGED <<sleepyFlag, sleepyCount, complete>>

\* wait_event_interruptible: the condition, then the queue, and in it the
\* condition again before the sleep.
ReadTest(p) ==
  /\ \/ At(p, "out") /\ To(p, IF sleepyFlag # 0 THEN "clear" ELSE "queue")
     \/ At(p, "queue") /\ To(p, "queued")
     \/ At(p, "queued") /\ To(p, IF sleepyFlag # 0 THEN "clear" ELSE "asleep")
     \/ At(p, "woken") /\ To(p, IF sleepyFlag # 0 THEN "clear" ELSE "queued")
  /\ UNCHANGED <<sleepyFlag, sleepyCount, complete>>

\* The result is not looked at: a signal, too, makes the reader clear the flag.
ReadSignalled(p) ==
  /\ At(p, "asleep")
  /\ To(p, "clear")
  /\ UNCHANGED <<sleepyFlag, sleepyCount, complete>>

ReadClear(p) ==
  /\ At(p, "clear")
  /\ sleepyFlag' = 0
  /\ To(p, "out")
  /\ UNCHANGED <<sleepyCount, complete>>

WriteFlag(p) ==
  /\ At(p, "out") /\ sleepyCount.flags < MaxWrites
  /\ sleepyFlag' = 1
  /\ sleepyCount' = [sleepyCount EXCEPT !.flags = @ + 1]
  /\ To(p, "wake")
  /\ UNCHANGED complete

WriteWake(p) ==
  /\ At(p, "wake")
  /\ sleepyProc' = [q \in Procs |->
       CASE q = p -> "out"
         [] sleepyProc[q] \in {"queued", "asleep"} -> "woken"
         [] OTHER -> sleepyProc[q]]
  /\ UNCHANGED <<sleepyFlag, sleepyCount, complete>>

-----------------------------------------------------------------------------
(* complete.c: wait_for_completion and complete, each under the queue's lock *)

CompleteWait(p) ==
  /\ \/ At(p, "out") \/ At(p, "called")
  /\ IF complete > 0
     THEN /\ complete' = complete - 1
          /\ sleepyCount' = [sleepyCount EXCEPT !.completed = @ + 1]
          /\ To(p, "out")
     ELSE /\ To(p, "waiting")
          /\ UNCHANGED <<complete, sleepyCount>>
  /\ UNCHANGED sleepyFlag

\* Mutant: all that wait come back.
CompleteAll(p) ==
  /\ At(p, "out") /\ sleepyCount.completes < MaxWrites
  /\ complete' = complete + Cardinality({q \in Procs : At(q, "waiting")})
  /\ sleepyCount' = [sleepyCount EXCEPT !.completes = @ + 1]
  /\ sleepyProc' = [q \in Procs |-> IF At(q, "waiting") THEN "called" ELSE sleepyProc[q]]
  /\ UNCHANGED sleepyFlag

\* One that waits is woken; it may find that another has come before it.
Complete(p) ==
  /\ At(p, "out") /\ sleepyCount.completes < MaxWrites
  /\ complete' = complete + 1
  /\ sleepyCount' = [sleepyCount EXCEPT !.completes = @ + 1]
  /\ IF \E q \in Procs : At(q, "waiting")
     THEN \E q \in Procs : At(q, "waiting") /\ To(q, "called")
     ELSE UNCHANGED sleepyProc
  /\ UNCHANGED sleepyFlag

-----------------------------------------------------------------------------
Next ==
  \E p \in Procs :
    \/ ReadTest(p) \/ ReadSignalled(p) \/ ReadClear(p) \/ WriteFlag(p) \/ WriteWake(p)
    \/ CompleteWait(p) \/ Complete(p)

Spec == Init /\ [][Next]_vars

-----------------------------------------------------------------------------
\* A reader of sleepy that sleeps while the flag is set is one a writer has still
\* to wake (lines 38, 49-50).
SleeperServed ==
  \A p \in Procs : At(p, "asleep") /\ sleepyFlag # 0 => \E q \in Procs : At(q, "wake")

\* Every write to complete lets one read return, not more and, while somebody
\* waits, not fewer (complete.c:37, 47).
OneForOne ==
  /\ sleepyCount.completed + complete = sleepyCount.completes
  /\ (\E p \in Procs : At(p, "waiting")) /\ complete > 0
       => \E q \in Procs : At(q, "called")
==========================================================================

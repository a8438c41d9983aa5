------------------------------- MODULE Jit -------------------------------
(***************************************************************************)
(* examples/misc-modules/jit.c, the files jitimer and jitasklet: each read *)
(* allocates its data and starts a timer or a tasklet, which prints a line *)
(* into the page of the read, starts itself again JIT_ASYNC_LOOPS times    *)
(* and then wakes the reader, who frees the data. The handler may be on    *)
(* another processor than the reader.                                      *)
(***************************************************************************)
EXTENDS Integers, FiniteSets

CONSTANTS Readers,
          Loops         \* JIT_ASYNC_LOOPS, 5 in the source

VARIABLES jit,          \* [Readers -> struct jit_data: loops; pending; where the handler is]
          jitReader,    \* [Readers -> where the read is]
          jitSeen       \* history: what has come between, and what came of it

vars == <<jit, jitReader, jitSeen>>

NoData == [loops |-> 0, pending |-> FALSE, handler |-> "idle"]

Init ==
  /\ jit = [r \in Readers |-> NoData]
  /\ jitReader = [r \in Readers |-> "out"]
  /\ jitSeen = {}

At(r, l) == jitReader[r] = l
To(r, l) == jitReader' = [jitReader EXCEPT ![r] = l]
Saw(things) == jitSeen' = jitSeen \cup things
If(thing, holds) == IF holds THEN {thing} ELSE {}

\* The data is there from kmalloc to kfree; a read ended by a signal leaves it, but
\* not its page.
Lost(r) == At(r, "signalled")
Freed(r) == At(r, "out")

-----------------------------------------------------------------------------
(* jit_timer and jit_tasklet                                               *)

Start(r) ==
  /\ At(r, "out") /\ jit[r] = NoData
  /\ jit' = [jit EXCEPT ![r] = [loops |-> Loops, pending |-> TRUE, handler |-> "idle"]]
  /\ To(r, "test")
  /\ UNCHANGED jitSeen

\* wait_event_interruptible: the condition, the queue, the condition again.
Wait(r) ==
  /\ \/ At(r, "test") /\ To(r, IF jit[r].loops = 0 THEN "done" ELSE "queued")
     \/ At(r, "queued") /\ To(r, IF jit[r].loops = 0 THEN "done" ELSE "asleep")
     \/ At(r, "woken") /\ To(r, IF jit[r].loops = 0 THEN "done" ELSE "queued")
  /\ UNCHANGED <<jit, jitSeen>>

\* A signal ends the wait, or is pending when it has ended: the data is not freed.
Signalled(r) ==
  /\ jitReader[r] \in {"asleep", "done"}
  /\ To(r, "signalled")
  /\ Saw({"signal"})
  /\ UNCHANGED jit

\* kfree(data), while the handler may still have to use data->wait.
Finish(r) ==
  /\ At(r, "done")
  /\ To(r, "out")
  /\ jit' = [jit EXCEPT ![r].loops = 0]
  /\ Saw(If("late wake", jit[r].handler = "wake"))

\* The data that a signal has left is never used again; its reader may be another.
Forget(r) ==
  /\ Lost(r) /\ ~jit[r].pending /\ jit[r].handler = "idle"
  /\ jit' = [jit EXCEPT ![r] = NoData]
  /\ To(r, "out")
  /\ UNCHANGED jitSeen

-----------------------------------------------------------------------------
(* jit_timer_fn and jit_tasklet_fn                                         *)

HandlerPrint(r) ==
  /\ jit[r].pending /\ jit[r].handler = "idle"
  /\ jit' = [jit EXCEPT ![r].pending = FALSE, ![r].handler = "count"]
  /\ Saw(If("freed page", Lost(r) \/ Freed(r)))
  /\ UNCHANGED jitReader

\* Mutant: the last loop is started once more.
HandlerCountLong(r) ==
  /\ jit[r].handler = "count"
  /\ jit' = [jit EXCEPT ![r].loops = @ - 1, ![r].pending = TRUE,
                        ![r].handler = IF jit[r].loops > 1 THEN "idle" ELSE "wake"]
  /\ Saw(If("freed data", Freed(r)))
  /\ UNCHANGED jitReader

\* if (--data->loops), and the next start.
HandlerCount(r) ==
  /\ jit[r].handler = "count"
  /\ jit' = [jit EXCEPT ![r].loops = @ - 1, ![r].pending = jit[r].loops > 1,
                        ![r].handler = IF jit[r].loops > 1 THEN "idle" ELSE "wake"]
  /\ Saw(If("freed data", Freed(r)))
  /\ UNCHANGED jitReader

\* Mutant: the reader is not woken.
HandlerWakeNot(r) ==
  /\ jit[r].handler = "wake"
  /\ jit' = [jit EXCEPT ![r].handler = "idle"]
  /\ UNCHANGED <<jitReader, jitSeen>>

HandlerWake(r) ==
  /\ jit[r].handler = "wake"
  /\ jit' = [jit EXCEPT ![r].handler = "idle"]
  /\ jitReader' = [jitReader EXCEPT ![r] = IF @ \in {"queued", "asleep"} THEN "woken" ELSE @]
  /\ Saw(If("freed data", Freed(r)))

-----------------------------------------------------------------------------
Next ==
  \E r \in Readers :
    \/ Start(r) \/ Wait(r) \/ Signalled(r) \/ Finish(r) \/ Forget(r)
    \/ HandlerPrint(r) \/ HandlerCount(r) \/ HandlerWake(r)

Spec == Init /\ [][Next]_vars

-----------------------------------------------------------------------------
\* The handler touches data that its reader has freed only when the reader saw the
\* last loop counted before the handler had woken it (lines 151, 188-192), and
\* prints into a page given back only after a signal (189-190).
DataKept ==
  /\ "freed data" \in jitSeen => "late wake" \in jitSeen
  /\ "freed page" \in jitSeen => "signal" \in jitSeen

\* A read that sleeps is still to be woken: its timer is set or its handler runs.
SleeperServed ==
  \A r \in Readers : At(r, "asleep") => jit[r].pending \/ jit[r].handler # "idle"
==========================================================================

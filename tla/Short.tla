------------------------------- MODULE Short -------------------------------
(***************************************************************************)
(* The parallel port driver of examples/short/short.c: interrupts write    *)
(* records of 16 bytes to a page used as a ring, directly or through a     *)
(* bottom half (workqueue or tasklet), and readers of the interrupt node   *)
(* take them from there. There is no lock: the interrupt handler, the      *)
(* bottom half and the readers interleave at every access to a shared      *)
(* index. Text is not modelled, a byte is a place in the ring.             *)
(***************************************************************************)
EXTENDS Integers, FiniteSets, Sequences, Folds

CONSTANTS Record,       \* bytes of a record (16)
          Page,         \* PAGE_SIZE, a multiple of Record
          NrTimeval,    \* NR_TIMEVAL
          Readers,      \* processes that may read the interrupt node
          Setups        \* [bh, share, readers]: the parameters wq, tasklet and share of
                        \* the module, and the processes that read

VARIABLES short,        \* the globals, the parameters and the state of the module
          shortIrq,     \* where the interrupt handler is
          shortBh,      \* where the bottom half is, and whether it is pending
          shortReader,  \* [Readers -> where it is, its count, whether it was woken]
          shortSeen     \* history: bytes and stamps not yet taken, and what went wrong

vars == <<short, shortIrq, shortBh, shortReader, shortSeen>>

Away == [pc |-> "idle", n |-> 0, woken |-> FALSE]

Init ==
  /\ short = [phase |-> "out", irq |-> -1, probe |-> 0, tries |-> 0,
              setup |-> CHOOSE setup \in Setups : TRUE, handler |-> "none", latch |-> FALSE,
              head |-> 0, tail |-> 0, tv_head |-> 0, tv_tail |-> 0]
  /\ shortIrq = "idle"
  /\ shortBh = [pc |-> "idle", pending |-> FALSE]
  /\ shortReader = [r \in Readers |-> Away]
  /\ shortSeen = [backlog |-> 0, stamps |-> 0, odd |-> {}]

Odd(what) == [shortSeen EXCEPT !.odd = @ \cup {what}]

\* Bytes and stamps are counted until the ring or the array has lapped.
Lapped == "lapped" \in shortSeen.odd
TvLapped == "tv" \in shortSeen.odd

-----------------------------------------------------------------------------
(* Loading: the interrupt line is given, probed, or the default of the port *)

Load ==
  /\ short.phase = "out"
  /\ \E irq \in {-1, 7}, probe \in 0 .. 2, setup \in Setups :
       short' = [short EXCEPT !.irq = irq, !.probe = probe, !.setup = setup,
                              !.phase = IF irq < 0 /\ probe > 0 THEN "probe" ELSE "default"]
  /\ UNCHANGED <<shortIrq, shortBh, shortReader, shortSeen>>

\* What short_probing leaves in short_irq when the lines of seq interrupt.
Probing(seq) ==
  LET last(S) == CHOOSE i \in S : \A j \in S : i >= j
      next(line, irq) == IF irq = 0 \/ irq = line THEN line ELSE -line
  IN  MapThenFoldSet(next, 0, LAMBDA i : seq[i], last, DOMAIN seq)

\* One round of short_kernelprobe (1) or short_selfprobe (2)
ProbeRound ==
  /\ short.phase = "probe"
  /\ \E seq \in {<<>>, <<7>>, <<7, 7>>, <<5, 7>>, <<7, 5, 7>>} :
       LET irq == IF short.probe = 1 /\ seq = <<>> THEN -1 ELSE Probing(seq)
           again == short.tries < 5 /\ IF short.probe = 1 THEN irq < 0 ELSE irq <= 0
       IN  short' = [short EXCEPT !.irq = irq, !.tries = IF again THEN @ + 1 ELSE 0,
                                  !.phase = IF again THEN @ ELSE "default"]
  /\ UNCHANGED <<shortIrq, shortBh, shortReader, shortSeen>>

\* The default line, if the base is that of a known port, and request_irq. With
\* share the bottom half is not installed whatever the parameters say. From now on
\* all that matters of short_irq is its sign.
Install ==
  /\ short.phase = "default"
  /\ \E default \in {-1, 7}, busy \in BOOLEAN :
       LET irq == IF short.irq < 0 THEN default ELSE short.irq
       IN  short' = [short EXCEPT !.irq = IF busy \/ irq < 0 THEN -1 ELSE 0,
                                  !.handler = CASE irq < 0 \/ busy -> "none"
                                                [] short.setup.share -> "shared"
                                                [] short.setup.bh # "none" -> "top"
                                                [] OTHER -> "plain",
                                  !.phase = "ready", !.probe = 0]
  /\ UNCHANGED <<shortIrq, shortBh, shortReader, shortSeen>>

\* short_write to a port. Bit 7 of the data port is what matters here, when the
\* shared handler looks at it.
PortWrite ==
  /\ short.phase = "ready" /\ short.setup.share
  /\ \E bit \in BOOLEAN : short' = [short EXCEPT !.latch = bit]
  /\ UNCHANGED <<shortIrq, shortBh, shortReader, shortSeen>>

\* short_i_write: count bytes, 00 and FF in turns from the file position on
Toggle ==
  /\ short.phase = "ready" /\ short.setup.share
  /\ \E count \in 1 .. 2, odd \in 0 .. 1 :
       short' = [short EXCEPT !.latch = (count + odd) % 2 = 1]
  /\ UNCHANGED <<shortIrq, shortBh, shortReader, shortSeen>>

\* short_cleanup. free_irq waits for the handler; tasklet_disable waits for a
\* tasklet that runs, flush_scheduled_work also for one that is queued.
Cleanup ==
  /\ short.phase = "ready" /\ shortIrq = "idle" /\ shortBh.pc = "idle"
  /\ \A r \in Readers : shortReader[r].pc = "idle"
  /\ short.setup.bh = "tasklet" \/ ~shortBh.pending
  /\ short' = [short EXCEPT !.phase = "gone", !.handler = "none"]
  /\ UNCHANGED <<shortIrq, shortBh, shortReader, shortSeen>>

-----------------------------------------------------------------------------
(* The ring                                                                *)

\* Mutant: the end of the page is taken for a place in it.
IncrLate(index, delta) == IF index + delta > Page THEN 0 ELSE index + delta

\* short_incr_bp
Incr(index, delta) == IF index + delta >= Page THEN 0 ELSE index + delta

\* A record at short_head. When the head meets the tail the ring looks empty.
Put ==
  /\ short' = [short EXCEPT !.head = Incr(@, Record)]
  /\ shortSeen' = IF Lapped \/ shortSeen.backlog + Record >= Page
                  THEN [Odd("lapped") EXCEPT !.backlog = 0]
                  ELSE [shortSeen EXCEPT !.backlog = @ + Record]

Wake == shortReader' = [r \in Readers |-> [shortReader[r] EXCEPT
                          !.woken = @ \/ shortReader[r].pc \in {"retest", "asleep"}]]

-----------------------------------------------------------------------------
(* The interrupt handlers                                                  *)

\* short_interrupt and short_sh_interrupt, which first looks whether the port
\* interrupted and clears the bit
Interrupt ==
  /\ shortIrq = "idle" /\ short.handler \in {"plain", "shared"}
  /\ short.handler = "shared" => short.latch
  /\ short' = [short EXCEPT !.latch = FALSE]
  /\ shortIrq' = "record"
  /\ UNCHANGED <<shortBh, shortReader, shortSeen>>

InterruptPut ==
  /\ shortIrq = "record"
  /\ Put
  /\ shortIrq' = "wake"
  /\ UNCHANGED <<shortBh, shortReader>>

InterruptWake ==
  /\ shortIrq = "wake"
  /\ Wake
  /\ shortIrq' = "idle"
  /\ UNCHANGED <<short, shortBh, shortSeen>>

\* short_incr_tv
NextTv(i) == (i + 1) % NrTimeval

\* short_wq_interrupt and short_tl_interrupt: the top halves
TopHalf ==
  /\ shortIrq = "idle" /\ short.handler = "top"
  /\ short' = [short EXCEPT !.tv_head = NextTv(@)]
  /\ shortSeen' = IF TvLapped \/ shortSeen.stamps + 1 >= NrTimeval
                  THEN [Odd("tv") EXCEPT !.stamps = 0]
                  ELSE [shortSeen EXCEPT !.stamps = @ + 1]
  /\ shortIrq' = "schedule"
  /\ UNCHANGED <<shortBh, shortReader>>

\* Mutant: a bottom half that runs is not scheduled again.
ScheduleIdle ==
  /\ shortIrq = "schedule"
  /\ shortBh' = [shortBh EXCEPT !.pending = @ \/ shortBh.pc = "idle"]
  /\ shortIrq' = "idle"
  /\ UNCHANGED <<short, shortReader, shortSeen>>

Schedule ==
  /\ shortIrq = "schedule"
  /\ shortBh' = [shortBh EXCEPT !.pending = TRUE]
  /\ shortIrq' = "idle"
  /\ shortSeen' = IF ~TvLapped /\ (shortBh.pc # "idle" \/ shortSeen.stamps = 0)
                  THEN Odd("rerun") ELSE shortSeen
  /\ UNCHANGED <<short, shortReader>>

-----------------------------------------------------------------------------
(* short_do_tasklet                                                        *)

BhStart ==
  /\ shortBh.pc = "idle" /\ shortBh.pending /\ short.phase = "ready"
  /\ shortBh' = [pc |-> "banner", pending |-> FALSE]
  /\ UNCHANGED <<short, shortIrq, shortReader, shortSeen>>

BhBanner ==
  /\ shortBh.pc = "banner"
  /\ Put
  /\ shortBh' = [shortBh EXCEPT !.pc = "stamp"]
  /\ UNCHANGED <<shortIrq, shortReader>>

\* Mutant: the loop goes on until it has printed the stamp at the head.
BhStampOneMore ==
  /\ shortBh.pc = "stamp"
  /\ shortSeen' = [backlog |-> 0, odd |-> shortSeen.odd \cup {"lapped"} \cup
                     (IF shortSeen.stamps = 0 THEN {"stale"} ELSE {}),
                   stamps |-> IF shortSeen.stamps = 0 THEN 0 ELSE shortSeen.stamps - 1]
  /\ short' = [short EXCEPT !.head = Incr(@, Record), !.tv_tail = NextTv(@)]
  /\ shortBh' = [shortBh EXCEPT !.pc = IF short.tv_tail = short.tv_head THEN "wake" ELSE "stamp"]
  /\ UNCHANGED <<shortIrq, shortReader>>

\* The test comes after the first stamp, so a run that finds none prints an old
\* one and then the whole array.
BhStamp ==
  /\ shortBh.pc = "stamp"
  /\ LET lap == Lapped \/ shortSeen.backlog + Record >= Page
         stale == shortSeen.stamps = 0 /\ ~TvLapped
     IN  shortSeen' = [backlog |-> IF lap THEN 0 ELSE shortSeen.backlog + Record,
                       stamps |-> IF shortSeen.stamps = 0 THEN 0 ELSE shortSeen.stamps - 1,
                       odd |-> shortSeen.odd \cup (IF lap THEN {"lapped"} ELSE {})
                                             \cup (IF stale THEN {"stale"} ELSE {})]
  /\ short' = [short EXCEPT !.head = Incr(@, Record), !.tv_tail = NextTv(@)]
  /\ shortBh' = [shortBh EXCEPT !.pc = IF NextTv(short.tv_tail) = short.tv_head
                                       THEN "wake" ELSE "stamp"]
  /\ UNCHANGED <<shortIrq, shortReader>>

BhWake ==
  /\ shortBh.pc = "wake"
  /\ Wake
  /\ shortBh' = [shortBh EXCEPT !.pc = "idle"]
  /\ UNCHANGED <<short, shortIrq, shortSeen>>

-----------------------------------------------------------------------------
(* short_i_read                                                            *)

ReaderAt(r, l) == shortReader[r].pc = l
ReaderTo(r, l) == shortReader' = [shortReader EXCEPT ![r] =
                    [(IF l \in {"idle", "test"} THEN Away ELSE @) EXCEPT !.pc = l]]

\* Another reader is past its look at the indices.
Busy(r) == \E q \in Readers \ {r} : shortReader[q].pc \in {"copy", "advance"}

ReadTest(r) ==
  /\ ReaderAt(r, "test") \/ (ReaderAt(r, "idle") /\ short.phase = "ready")
  /\ ReaderTo(r, IF short.head = short.tail THEN "prepare" ELSE "count")
  /\ UNCHANGED <<short, shortIrq, shortBh, shortSeen>>

ReadPrepare(r) ==
  /\ ReaderAt(r, "prepare")
  /\ shortReader' = [shortReader EXCEPT ![r].pc = "retest", ![r].woken = FALSE]
  /\ UNCHANGED <<short, shortIrq, shortBh, shortSeen>>

\* Mutant: the process that has queued itself goes to sleep without a look.
ReadRetestNot(r) ==
  /\ ReaderAt(r, "retest")
  /\ shortReader' = [shortReader EXCEPT ![r].pc = "asleep", ![r].woken = FALSE]
  /\ UNCHANGED <<short, shortIrq, shortBh, shortSeen>>

ReadRetest(r) ==
  /\ ReaderAt(r, "retest")
  /\ shortReader' = [shortReader EXCEPT ![r].pc = "asleep",
                                        ![r].woken = @ \/ short.head # short.tail]
  /\ shortSeen' = IF Busy(r) THEN Odd("raced") ELSE shortSeen
  /\ UNCHANGED <<short, shortIrq, shortBh>>

\* Woken, or by a signal, after which the read ends.
ReadWoken(r) ==
  /\ ReaderAt(r, "asleep")
  /\ \/ shortReader[r].woken /\ ReaderTo(r, "test")
     \/ ReaderTo(r, "idle")
  /\ UNCHANGED <<short, shortIrq, shortBh, shortSeen>>

\* Mutant: a wrapped ring is read as if it were one piece.
ReadCountWhole(r) ==
  /\ ReaderAt(r, "count")
  /\ LET count0 == (short.head - short.tail) % Page
     IN  \E n \in 0 .. count0 : shortReader' = [shortReader EXCEPT ![r] = [Away EXCEPT !.pc = "copy", !.n = n]]
  /\ shortSeen' = IF Busy(r) THEN Odd("raced") ELSE shortSeen
  /\ UNCHANGED <<short, shortIrq, shortBh>>

\* What can be read without wrapping, at most what is asked for
ReadCount(r) ==
  /\ ReaderAt(r, "count")
  /\ LET count0 == IF short.head < short.tail THEN Page - short.tail ELSE short.head - short.tail
     IN  \E n \in 0 .. count0 : shortReader' = [shortReader EXCEPT ![r] = [Away EXCEPT !.pc = "copy", !.n = n]]
  /\ shortSeen' = IF Busy(r) THEN Odd("raced") ELSE shortSeen
  /\ UNCHANGED <<short, shortIrq, shortBh>>

\* copy_to_user, from where short_tail is by now
ReadCopy(r) ==
  /\ ReaderAt(r, "copy")
  /\ \/ ReaderTo(r, "advance")
     \/ ReaderTo(r, "idle")
  /\ UNCHANGED <<short, shortIrq, shortBh, shortSeen>>

ReadAdvance(r) ==
  /\ ReaderAt(r, "advance")
  /\ LET n == shortReader[r].n
     IN  /\ short' = [short EXCEPT !.tail = Incr(@, n)]
         /\ shortSeen' = [shortSeen EXCEPT !.backlog = IF n > @ THEN 0 ELSE @ - n]
  /\ ReaderTo(r, "idle")
  /\ UNCHANGED <<shortIrq, shortBh>>

\* After two readers raced, or a bottom half printed stamps that were not there,
\* nothing more is asked.
Next ==
  /\ shortSeen.odd \cap {"raced", "stale"} = {}
  /\ \/ Load \/ ProbeRound \/ Install \/ PortWrite \/ Toggle \/ Cleanup
     \/ Interrupt \/ InterruptPut \/ InterruptWake \/ TopHalf \/ Schedule
     \/ BhStart \/ BhBanner \/ BhStamp \/ BhWake
     \/ \E r \in short.setup.readers : \/ ReadTest(r) \/ ReadPrepare(r) \/ ReadRetest(r) \/ ReadWoken(r)
                                        \/ ReadCount(r) \/ ReadCopy(r) \/ ReadAdvance(r)

Spec == Init /\ [][Next]_vars

-----------------------------------------------------------------------------
(* Properties *)

\* A read copies bytes of the page (short.c:294-299), at every moment, unless
\* two readers counted from the same tail.
ReadInPage ==
  \A r \in Readers : ReaderAt(r, "copy") /\ "raced" \notin shortSeen.odd =>
    short.tail + shortReader[r].n <= Page

\* And they are bytes that an interrupt wrote and nobody read (short.c:294-303),
\* unless the interrupts were a ring ahead as well.
ReadWritten ==
  shortSeen.odd \cap {"raced", "lapped"} = {} =>
    /\ (short.head - short.tail) % Page = shortSeen.backlog
    /\ \A r \in Readers : ReaderAt(r, "copy") => shortReader[r].n <= shortSeen.backlog

\* No reader sleeps with something to read (short.c:286-293) that nobody is
\* about to announce: the test after prepare_to_wait closes the window. (Two
\* readers that raced may have moved the tail past the head.)
ReaderWoken ==
  \A r \in Readers :
    ReaderAt(r, "asleep") /\ short.head # short.tail /\ "raced" \notin shortSeen.odd =>
      shortReader[r].woken \/ shortIrq = "wake" \/ shortBh.pc \in {"stamp", "wake"}

\* Every stamp is printed (short.c:413-434): while there is one, the bottom half
\* is pending, running, or about to be scheduled.
StampsTaken ==
  shortSeen.stamps > 0 /\ shortSeen.odd \cap {"tv", "stale"} = {} /\ short.phase = "ready" =>
    shortBh.pending \/ shortIrq = "schedule" \/ shortBh.pc \in {"banner", "stamp"}

\* "The bottom half reads the tv array, filled by the top half" (short.c:388): it
\* prints what an interrupt put there and was not printed before, unless an
\* interrupt scheduled it again after it had taken the stamp. Then it prints an
\* old stamp and, as the test comes after the first, the whole array.
StampsFresh == "stale" \in shortSeen.odd => "rerun" \in shortSeen.odd

=============================================================================

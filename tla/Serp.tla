--------------------------------- MODULE Serp ---------------------------------
(***************************************************************************)
(* The polled serial driver lab3/serp/serp.c: processes that read and      *)
(* write share one UART, one timer, one flag tstate and one pointer rbuf,  *)
(* without any lock, while bytes arrive and leave on the line.             *)
(*                                                                         *)
(* Each access to a register of the UART is a step of its own.  A byte is  *)
(* "nl" (the newline that ends a read) or "x" (any other); the counters of *)
(* bytes read and written, which release only prints, are left out.  A     *)
(* copy from the user that fails ends a write before it reaches the UART.  *)
(***************************************************************************)
EXTENDS Integers, FiniteSets

CONSTANTS Procs,      \* processes, one open file each
          Readers, Writers, \* those that read, those that write
          NonBlock,   \* those that may ask for O_NONBLOCK when they open
          Counts,     \* byte counts of reads and writes
          FullAtLoad, \* may a byte still be leaving when the module is loaded
          NULL        \* no buffer

ASSUME SerpAssumption == /\ Readers \cup Writers \cup NonBlock \subseteq Procs
                         /\ Counts \subseteq Nat
                         /\ FullAtLoad \subseteq BOOLEAN
                         /\ NULL \notin Procs

VARIABLES
    thr,        \* the transmitter holding register is full
    dr, rbr,    \* LSR data ready; the receiver buffer
    err,        \* one of LSR PE, OE and FE is set
    burst,      \* processes that sent since a byte last left (history)
    format,     \* LCR holds 8 bits, 2 stop bits, even parity
    dlab,       \* LCR divisor latch bit
    divisor,    \* the bytes of the latch that were written
    ier,        \* interrupts may be enabled
    config,     \* next step of config_uart_dev
    skipped,    \* the steps it skipped (history)
    tstate, timer, \* mdevice->tstate; rtimer is pending
    rbuf,       \* mdevice->rbuf: whose read allocated it
    alive,      \* processes whose last buffer is not freed
    nonblock,   \* processes whose file has O_NONBLOCK
    pc,
    count,      \* count[p]: bytes the current read or write asks for
    i,          \* i[p]: the loop index of both
    handed,     \* bytes the current write gave to the UART (history)
    rec,        \* rec[p]: the last byte p read, or the 0 before it
    shared      \* processes whose read another has overlapped (history)

uart  == <<thr, dr, rbr, err, burst>>
setup == <<format, dlab, divisor, ier, config, skipped>>
wait  == <<tstate, timer>>
heap  == <<rbuf, alive>>
locals == <<count, i, handed, rec, shared>>
procs == <<nonblock, pc, locals>>
vars == <<uart, setup, wait, heap, procs>>

THRE == ~thr

At(p, l)   == pc[p] = l
Goto(p, l) == pc' = [pc EXCEPT ![p] = l]

(* A call returns; its locals are gone. *)
Return(p) == /\ Goto(p, "user")
             /\ count' = [count EXCEPT ![p] = 0]
             /\ i' = [i EXCEPT ![p] = 0]
             /\ handed' = [handed EXCEPT ![p] = 0]
             /\ rec' = [rec EXCEPT ![p] = "x"]
             /\ shared' = shared \ {p}

Init == /\ thr \in FullAtLoad
        /\ dr = FALSE /\ rbr = "x" /\ err = FALSE /\ burst = {}
        /\ format = FALSE /\ dlab = FALSE /\ divisor = {} /\ ier = TRUE
        /\ config = 1 /\ skipped = {}
        /\ tstate = FALSE /\ timer = FALSE
        /\ rbuf = NULL /\ alive = {}
        /\ nonblock = {}
        /\ pc = [p \in Procs |-> "closed"]
        /\ count = [p \in Procs |-> 0] /\ i = [p \in Procs |-> 0]
        /\ handed = [p \in Procs |-> 0]
        /\ rec = [p \in Procs |-> "x"]
        /\ shared = {}

----------------------------------------------------------------------------
(* The line: the UART transmits its byte, and bytes arrive, some of them   *)
(* damaged; a byte that finds the last one unread overruns it.             *)
Transmit == /\ thr
            /\ thr' = FALSE /\ burst' = {}
            /\ UNCHANGED <<dr, rbr, err, setup, wait, heap, procs>>

Receive(b) == /\ dr' = TRUE
              /\ rbr' = b
              /\ err' \in {err \/ dr, TRUE}
              /\ UNCHANGED <<thr, burst, setup, wait, heap, procs>>

(* inb(UART_LSR) returns the error bits and clears them. *)
ReadLSR == err' = FALSE

----------------------------------------------------------------------------
(* config_uart_dev: six writes, each skipped when the transmitter is not   *)
(* empty.  DLL and DLM share their ports with TX and IER: DLAB selects.    *)
SetLCR(bit) == format' = TRUE /\ dlab' = bit /\ UNCHANGED <<thr, divisor, ier>>

SetIER == ier' = FALSE /\ UNCHANGED <<thr, format, dlab, divisor>>

SetLatch(part) == divisor' = divisor \cup {part} /\ UNCHANGED <<thr, format, dlab, ier>>

SendByte == thr' = TRUE /\ UNCHANGED <<format, dlab, divisor, ier>>

(* Mutant: the latch is written before DLAB is set. *)

WriteEarly(k) == \/ k = 1 /\ SetIER
                 \/ k = 2 /\ SetLCR(FALSE)
                 \/ k = 3 /\ dlab /\ SetLatch("DLL")
                 \/ k = 3 /\ ~dlab /\ SendByte
                 \/ k = 4 /\ SetLCR(TRUE)
                 \/ k = 5 /\ dlab /\ SetLatch("DLM")
                 \/ k = 5 /\ ~dlab /\ SetIER
                 \/ k = 6 /\ SetLCR(FALSE)

Write(k) == \/ k = 1 /\ SetIER
            \/ k = 2 /\ SetLCR(FALSE)
            \/ k = 3 /\ SetLCR(TRUE)
            \/ k = 4 /\ dlab /\ SetLatch("DLL")
            \/ k = 4 /\ ~dlab /\ SendByte
            \/ k = 5 /\ dlab /\ SetLatch("DLM")
            \/ k = 5 /\ ~dlab /\ SetIER
            \/ k = 6 /\ SetLCR(FALSE)

Configure == /\ config <= 6
             /\ config' = config + 1
             /\ \/ THRE /\ Write(config) /\ UNCHANGED skipped
                \/ /\ ~THRE /\ skipped' = skipped \cup {config}
                   /\ UNCHANGED <<thr, format, dlab, divisor, ier>>
             /\ ReadLSR
             /\ UNCHANGED <<dr, rbr, burst, wait, heap, procs>>

----------------------------------------------------------------------------
(* deviceopen and devicerelease; release deletes the timer of all.         *)
Open(p) == /\ At(p, "closed") /\ config = 7
           /\ \/ UNCHANGED nonblock
              \/ p \in NonBlock /\ nonblock' = nonblock \cup {p}
           /\ Goto(p, "user")
           /\ UNCHANGED <<uart, setup, wait, heap, locals>>

Release(p) == /\ At(p, "user")
              /\ timer' = FALSE
              /\ nonblock' = nonblock \ {p}
              /\ Goto(p, "closed")
              /\ UNCHANGED <<uart, setup, tstate, heap, locals>>

----------------------------------------------------------------------------
(* devicewrite: test THRE, then either send the byte or let others run,    *)
(* and go to the next byte in both cases.                                  *)
CallWrite(p, n) == /\ At(p, "user") /\ p \in Writers
                   /\ count' = [count EXCEPT ![p] = n]
                   /\ Goto(p, "w_test")
                   /\ UNCHANGED <<nonblock, uart, setup, wait, heap, i, handed, rec, shared>>

(* Mutant: every byte is sent, whatever THRE says. *)

WriteBlind(p) == /\ At(p, "w_test") /\ i[p] < count[p]
                 /\ Goto(p, "w_out")
                 /\ ReadLSR
                 /\ UNCHANGED <<nonblock, thr, dr, rbr, burst, setup, wait, heap, locals>>

WriteTest(p) == /\ At(p, "w_test") /\ i[p] < count[p]
                /\ \/ THRE /\ Goto(p, "w_out") /\ UNCHANGED i
                   \/ ~THRE /\ i' = [i EXCEPT ![p] = @ + 1] /\ UNCHANGED pc
                /\ ReadLSR
                /\ UNCHANGED <<nonblock, thr, dr, rbr, burst, setup, wait, heap, count, handed, rec, shared>>

(* Mutant: the index is advanced for the test and for the byte. *)

WriteOutTwice(p) == /\ At(p, "w_out")
                    /\ thr' = TRUE /\ burst' = burst \cup {p}
                    /\ i' = [i EXCEPT ![p] = @ + 2]
                    /\ handed' = [handed EXCEPT ![p] = @ + 1]
                    /\ Goto(p, "w_test")
                    /\ UNCHANGED <<nonblock, dr, rbr, err, setup, wait, heap, count, rec, shared>>

WriteOut(p) == /\ At(p, "w_out")
               /\ thr' = TRUE /\ burst' = burst \cup {p}
               /\ i' = [i EXCEPT ![p] = @ + 1]
               /\ handed' = [handed EXCEPT ![p] = @ + 1]
               /\ Goto(p, "w_test")
               /\ UNCHANGED <<nonblock, dr, rbr, err, setup, wait, heap, count, rec, shared>>

WriteReturn(p) == /\ At(p, "w_test") /\ i[p] = count[p]
                  /\ Return(p)
                  /\ UNCHANGED <<nonblock, uart, setup, wait, heap>>

----------------------------------------------------------------------------
(* deviceread. *)
Reading(p) == pc[p] \in {"r_test", "r_error", "r_byte", "r_loop", "r_copy"}

OtherReads(p) == { q \in Procs \ {p} : Reading(q) }

CallRead(p, n) == /\ At(p, "user") /\ p \in Readers
                  /\ tstate' = FALSE
                  /\ rbuf' = p /\ alive' = alive \cup {p}
                  /\ count' = [count EXCEPT ![p] = n]
                  /\ shared' = IF OtherReads(p) = {} THEN shared
                               ELSE shared \cup {p} \cup OtherReads(p)
                  /\ Goto(p, "r_test")
                  /\ UNCHANGED <<nonblock, uart, setup, timer, i, handed, rec>>

kfree == alive' = alive \ {rbuf}

(* Mutant: O_NONBLOCK is not looked at. *)

ReadTestBlocking(p) == /\ At(p, "r_test")
                       /\ Goto(p, IF dr THEN "r_error" ELSE "r_loop")
                       /\ ReadLSR
                       /\ UNCHANGED <<nonblock, thr, dr, rbr, burst, setup, wait, heap, locals>>

ReadTest(p) == /\ At(p, "r_test")
               /\ \/ dr /\ Goto(p, "r_error") /\ UNCHANGED <<alive, locals>>
                  \/ ~dr /\ p \in nonblock /\ kfree /\ Return(p)
                  \/ ~dr /\ p \notin nonblock /\ Goto(p, "r_loop") /\ UNCHANGED <<alive, locals>>
               /\ ReadLSR
               /\ UNCHANGED <<nonblock, thr, dr, rbr, burst, setup, wait, rbuf>>

(* Mutant: the buffer is freed on the way to the next byte too. *)

ReadErrorFrees(p) == /\ At(p, "r_error")
                     /\ kfree
                     /\ \/ err /\ Return(p)
                        \/ ~err /\ Goto(p, "r_byte") /\ UNCHANGED locals
                     /\ ReadLSR
                     /\ UNCHANGED <<nonblock, thr, dr, rbr, burst, setup, wait, rbuf>>

(* An error returns EIO and does not free the buffer. *)
ReadError(p) == /\ At(p, "r_error")
                /\ \/ err /\ Return(p)
                   \/ ~err /\ Goto(p, "r_byte") /\ UNCHANGED locals
                /\ ReadLSR
                /\ UNCHANGED <<nonblock, thr, dr, rbr, burst, setup, wait, heap>>

(* Mutant: the timer is not set. *)

ReadByteNoTimer(p) == /\ At(p, "r_byte")
                      /\ dr' = FALSE
                      /\ rec' = [rec EXCEPT ![p] = rbr]
                      /\ i' = [i EXCEPT ![p] = @ + 1]
                      /\ Goto(p, "r_loop")
                      /\ UNCHANGED <<nonblock, thr, rbr, err, burst, setup, wait, heap, count, handed, shared>>

ReadByte(p) == /\ At(p, "r_byte")
               /\ dr' = FALSE
               /\ rec' = [rec EXCEPT ![p] = rbr]
               /\ i' = [i EXCEPT ![p] = @ + 1]
               /\ timer' = TRUE
               /\ Goto(p, "r_loop")
               /\ UNCHANGED <<nonblock, thr, rbr, err, burst, setup, tstate, heap, count, handed, shared>>

(* while (i < count && rec != 10 && mdevice->tstate != 1). *)
ReadAgain(p) == i[p] < count[p] /\ rec[p] # "nl" /\ ~tstate

ReadLoop(p) == /\ At(p, "r_loop")
               /\ Goto(p, IF ReadAgain(p) THEN "r_test" ELSE "r_copy")
               /\ UNCHANGED <<nonblock, uart, setup, wait, heap, locals>>

ReadReturn(p) == /\ At(p, "r_copy")
                 /\ kfree
                 /\ Return(p)
                 /\ UNCHANGED <<nonblock, uart, setup, wait, rbuf>>

(* timer_end. *)
TimerEnd == /\ timer
            /\ timer' = FALSE /\ tstate' = TRUE
            /\ UNCHANGED <<uart, setup, heap, procs>>

----------------------------------------------------------------------------
Driver(p) == \/ WriteTest(p) \/ WriteOut(p) \/ WriteReturn(p)
             \/ ReadTest(p) \/ ReadError(p) \/ ReadByte(p) \/ ReadLoop(p) \/ ReadReturn(p)

Call(p) == \/ Open(p) \/ Release(p)
           \/ \E n \in Counts : CallWrite(p, n) \/ CallRead(p, n)

Line == Transmit \/ \E b \in {"x", "nl"} : Receive(b)

Next == Line \/ Configure \/ TimerEnd \/ \E p \in Procs : Driver(p) \/ Call(p)

Spec == Init /\ [][Next]_vars

(* Processes in the driver are scheduled and the timer fires; the other    *)
(* end of the line may stay silent for ever.                               *)
FairSpec == Spec /\ WF_vars(TimerEnd) /\ \A p \in Procs : WF_vars(Driver(p))

----------------------------------------------------------------------------
(* Properties. *)

Labels == {"closed", "user", "w_test", "w_out",
           "r_test", "r_error", "r_byte", "r_loop", "r_copy"}

(* Every variable has its type; no index passes its count, but that a read *)
(* of no bytes stores one, where kzalloc left room for the end of a string.*)
TypeOK == /\ thr \in BOOLEAN /\ dr \in BOOLEAN /\ err \in BOOLEAN
          /\ rbr \in {"x", "nl"} /\ burst \subseteq Procs
          /\ format \in BOOLEAN /\ dlab \in BOOLEAN /\ ier \in BOOLEAN
          /\ divisor \subseteq {"DLL", "DLM"}
          /\ config \in 1..7 /\ skipped \subseteq 1..6
          /\ tstate \in BOOLEAN /\ timer \in BOOLEAN
          /\ rbuf \in Procs \cup {NULL} /\ alive \subseteq Procs
          /\ shared \subseteq Procs /\ nonblock \subseteq NonBlock
          /\ pc \in [Procs -> Labels]
          /\ count \in [Procs -> Nat] /\ handed \in [Procs -> Nat]
          /\ i \in [Procs -> Nat]
          /\ \A p \in Procs : i[p] <= count[p] \/ (count[p] = 0 /\ i[p] = 1)
          /\ rec \in [Procs -> {"x", "nl"}]

(* Whatever byte is still leaving at load, and whichever of its six writes *)
(* config_uart_dev skips for it: no file is opened with the divisor latch  *)
(* open, the divisor is written whole or not at all, and what else its     *)
(* comments promise fails only by the write that was skipped for it.       *)
Configured ==
    config = 7 => /\ ~dlab
                  /\ IF 3 \in skipped THEN divisor = {}
                     ELSE divisor = {"DLL", "DLM"} /\ skipped \subseteq {1, 2}
                  /\ 1 \notin skipped => ~ier
                  /\ ~({2, 3, 6} \subseteq skipped) => format

(* The driver's fields keep their types, no call goes past its count, and  *)
(* the UART is set up but for the writes that were skipped.                *)
Inv == TypeOK /\ Configured

(* Several processes test THRE and send without a lock. Between two bytes  *)
(* that leave each sends at most one: a byte of its own is never           *)
(* overwritten, and one in the transmitter only by a process that had      *)
(* tested it before that byte was sent.                                    *)
NoOverwrite ==
    [][\A p \in Procs : WriteOut(p) => p \notin burst /\ (thr => burst # {})]_vars

(* Reads share mdevice->rbuf. One that overlaps no other keeps the buffer  *)
(* it allocated, not freed, and stores within its count + 1 bytes --       *)
(* whatever reads that did overlap have left behind.                       *)
BufferOwned ==
    \A p \in Procs : Reading(p) /\ p \notin shared =>
        /\ rbuf = p /\ p \in alive
        /\ At(p, "r_byte") => i[p] <= count[p]

(* A read of a file with O_NONBLOCK returns whatever the line does, and    *)
(* without the timer's help.                                               *)
NonBlockReturns ==
    \A p \in NonBlock : Reading(p) /\ p \in nonblock ~> At(p, "user")

(* A read that gets a byte ends, though no other may follow: the timer     *)
(* ends the wait -- unless another file is opened, whose close deletes it. *)
OthersClosed(p) == \A q \in Procs \ {p} : At(q, "closed")

ReadEndsAfterByte ==
    \A p \in Readers : At(p, "r_byte") /\ OthersClosed(p)
                        ~> (At(p, "user") \/ ~OthersClosed(p))

(* Every read comes back: at once with O_NONBLOCK, else after its byte.    *)
ReadsEnd == NonBlockReturns /\ ReadEndsAfterByte

(* A write sends its bytes "byte by byte": all of them.                    *)
WriteSendsAll == [][\A p \in Procs : WriteReturn(p) => handed[p] = count[p]]_vars
=============================================================================

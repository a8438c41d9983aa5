--------------------------------- MODULE Seri ---------------------------------
(***************************************************************************)
(* The interrupt-driven serial driver lab4/seri/seri.c.  One kfifo under   *)
(* one semaphore holds the bytes to send and the bytes received; a write   *)
(* puts its bytes in it and starts the transmitter, the interrupt handler  *)
(* fills and empties it, and reads poll it.  The handler takes the         *)
(* semaphore too.                                                          *)
(*                                                                         *)
(* A byte to send is its place in its write, 1, 2, ...  Received bytes are *)
(* NewLine and Other; Nul is a byte that kzalloc cleared, Junk one of      *)
(* memory that holds no message.  dev_read's string functions are modelled *)
(* for input without Nul.  What is stored past the end of a buffer is      *)
(* modelled as if the memory behind it were free.                          *)
(***************************************************************************)
EXTENDS Integers, Sequences, SequencesExt

CONSTANTS Procs,      \* processes, one open file each
          Readers, Writers, \* those that read, those that write
          Counts,     \* byte counts of reads and writes
          FIFO_SIZE,
          CharBits,   \* width of a char, the type of aux in dev_read
          MaxIn,      \* bytes the line delivers before it falls silent
          Signals,    \* signals may end a wait for the semaphore
          SameCpu     \* processes and handler share one processor

ASSUME SeriAssumption == /\ Readers \cup Writers = Procs
                         /\ Counts \subseteq Nat
                         /\ {FIFO_SIZE, CharBits} \subseteq Nat \ {0}
                         /\ MaxIn \in Nat
                         /\ {Signals, SameCpu} \subseteq BOOLEAN

VARIABLES
    thr,      \* the transmitter holding register, or Empty
    thri,     \* the UART's "THR empty" interrupt condition
    dr, rbr,  \* LSR data ready; the receiver buffer
    irq,      \* the interrupt controller latched an edge of the UART's line
    sem,      \* mydev->sem
    fifo,     \* mydev->dev_fifo
    data,     \* mydev->data: the process whose buffer it points to
    mcount,   \* mydev->count
    buf,      \* buf[p]: bytes in the buffer that p's last write allocated
    alive,    \* processes whose buffer is not freed
    pc,
    count,    \* count[p]: bytes the current call of p asks for
    msg,      \* msg[p]: the bytes p writes
    first,    \* first[p]: dev_write's local copy of the first byte
    last,     \* last[p]: the last byte in the buffer of p's read
    hpc, hbuf, hi, \* the handler: its next step, local buffer and index
    room,     \* bytes of the array that write_work declared
    written,  \* bytes that the last call of write was given (history)
    lastOut,  \* place of the last byte on the line; 0 before it, Junk if it
              \* has none (history)
    received, \* bytes the line delivered (bounded by MaxIn)
    skipped,  \* a signal has ended a wait for the semaphore (history)
    mixed     \* since the driver was last quiet, a call has met another, or
              \* a read or a byte received has come in (history)

uart    == <<thr, thri, dr, rbr, irq>>
shared  == <<sem, fifo>>
message == <<data, mcount, buf, alive>>
locals  == <<pc, count, msg, first, last>>
handler == <<hpc, hbuf, hi, room>>
traffic == <<written, lastOut, received>>
history == <<traffic, skipped, mixed>>
vars == <<uart, shared, message, locals, handler, history>>

Empty   == 0
NewLine == -1
Other   == -2
Junk    == -3
None    == -4
Nul     == -5

Init == /\ thr = Empty /\ thri = FALSE
        /\ dr = FALSE /\ rbr = Other /\ irq = FALSE
        /\ sem = 1 /\ fifo = <<>>
        /\ data \in Procs /\ mcount = 0
        /\ buf = [p \in Procs |-> <<>>] /\ alive = {}
        /\ pc = [p \in Procs |-> "user"]
        /\ count = [p \in Procs |-> 0] /\ msg = [p \in Procs |-> <<>>]
        /\ first = [p \in Procs |-> Junk] /\ last = [p \in Procs |-> None]
        /\ hpc = "idle" /\ hbuf = <<>> /\ hi = 0 /\ room = 0
        /\ written = 0 /\ lastOut = 0 /\ received = 0 /\ skipped = FALSE /\ mixed = FALSE

Take(s, n) == SubSeq(s, 1, Min({n, Len(s)}))
Drop(s, n) == SubSeq(s, n + 1, Len(s))

At(p, l)   == pc[p] = l
Goto(p, l) == pc' = [pc EXCEPT ![p] = l]

(* A call, and the handler, return: their locals are gone. *)
Return(p) == /\ Goto(p, "user")
             /\ count' = [count EXCEPT ![p] = 0]
             /\ msg' = [msg EXCEPT ![p] = <<>>]
             /\ first' = [first EXCEPT ![p] = Junk]
             /\ last' = [last EXCEPT ![p] = None]

Done == hpc' = "idle" /\ hbuf' = <<>> /\ hi' = 0 /\ room' = 0

----------------------------------------------------------------------------
(* The UART.  Its interrupt line is high while a condition holds, and the  *)
(* interrupt controller latches only the rising edge.                      *)
LineHigh == dr \/ thri

Transmit == /\ thr # Empty
            /\ lastOut' = IF thr \in Nat THEN thr ELSE Junk
            /\ thr' = Empty /\ thri' = TRUE
            /\ irq' = (irq \/ ~LineHigh)
            /\ UNCHANGED <<dr, rbr, shared, message, locals, handler, written, received, skipped, mixed>>

Receive(b) == /\ received < MaxIn /\ received' = received + 1
              /\ dr' = TRUE /\ rbr' = b
              /\ irq' = (irq \/ ~LineHigh)
              /\ mixed' = TRUE
              /\ UNCHANGED <<thr, thri, shared, message, locals, handler, written, lastOut, skipped>>

outb(b) == thr' = b /\ thri' = FALSE /\ UNCHANGED <<dr, rbr, irq>>

----------------------------------------------------------------------------
(* The semaphore, as down_interruptible whose result nobody looks at: a    *)
(* wait that a signal ends goes on without it, and ups it all the same.    *)
down == \/ sem > 0 /\ sem' = sem - 1 /\ UNCHANGED skipped
        \/ sem = 0 /\ Signals /\ skipped' = TRUE /\ UNCHANGED sem

up == sem' = sem + 1

(* Mutant: no limit to the bytes put. *)
kfifo_putAll(s) == fifo' = fifo \o s

kfifo_put(s) == fifo' = fifo \o Take(s, FIFO_SIZE - Len(fifo))

kfifo_get(n) == fifo' = Drop(fifo, n)

(* On one processor no process runs while the handler does. *)
CanRun(p) == ~SameCpu \/ hpc = "idle"

----------------------------------------------------------------------------
(* dev_write. *)
Quiet == /\ thr = Empty /\ ~thri /\ ~dr
         /\ fifo = <<>> /\ hpc = "idle"
         /\ \A p \in Procs : At(p, "user")

CallWrite(p, n) == /\ At(p, "user") /\ p \in Writers
                   /\ count' = [count EXCEPT ![p] = n]
                   /\ msg' = [msg EXCEPT ![p] = [k \in 1..n |-> k]]
                   /\ written' = n
                   /\ lastOut' = IF Quiet THEN 0 ELSE lastOut
                   /\ mixed' = ~Quiet
                   /\ Goto(p, "w_alloc")
                   /\ UNCHANGED <<uart, shared, message, first, last, handler, received, skipped>>

WriteAlloc(p) == /\ At(p, "w_alloc") /\ CanRun(p)
                 /\ data' = p /\ alive' = alive \cup {p}
                 /\ buf' = [buf EXCEPT ![p] = [k \in 1..count[p] + 1 |-> Nul]]
                 /\ mcount' = count[p]
                 /\ Goto(p, "w_copy")
                 /\ UNCHANGED <<uart, shared, count, msg, first, last, handler, history>>

WriteCopy(p) == /\ At(p, "w_copy") /\ CanRun(p)
                /\ buf' = [buf EXCEPT ![data] = msg[p] \o Drop(@, count[p])]
                /\ Goto(p, "w_first")
                /\ UNCHANGED <<uart, shared, data, mcount, alive, count, msg, first, last, handler, history>>

(* n bytes from mydev->data on. *)
DataBytes(n) == [k \in 1..n |-> IF data \in alive /\ k <= Len(buf[data])
                                THEN buf[data][k] ELSE Junk]

(* Mutant: the first byte is sent before the rest is in the fifo. *)

WriteFirstSends(p) == /\ At(p, "w_first") /\ CanRun(p)
                      /\ outb(Head(DataBytes(1)))
                      /\ first' = [first EXCEPT ![p] = Head(DataBytes(1))]
                      /\ Goto(p, "w_down")
                      /\ UNCHANGED <<shared, message, count, msg, last, handler, history>>

WriteFirst(p) == /\ At(p, "w_first") /\ CanRun(p)
                 /\ first' = [first EXCEPT ![p] = Head(DataBytes(1))]
                 /\ Goto(p, "w_down")
                 /\ UNCHANGED <<uart, shared, message, count, msg, last, handler, history>>

WriteDown(p) == /\ At(p, "w_down") /\ CanRun(p)
                /\ down
                /\ Goto(p, "w_put")
                /\ UNCHANGED <<uart, fifo, message, count, msg, first, last, handler, traffic, mixed>>

WritePut(p) == /\ At(p, "w_put") /\ CanRun(p)
               /\ kfifo_put(DataBytes(count[p]))
               /\ up
               /\ Goto(p, "w_out")
               /\ UNCHANGED <<uart, message, count, msg, first, last, handler, history>>

WriteOut(p) == /\ At(p, "w_out") /\ CanRun(p)
               /\ outb(first[p])
               /\ Goto(p, "w_free")
               /\ UNCHANGED <<shared, message, count, msg, first, last, handler, history>>

WriteFree(p) == /\ At(p, "w_free") /\ CanRun(p)
                /\ alive' = alive \ {data} /\ buf' = [buf EXCEPT ![data] = <<>>]
                /\ Return(p)
                /\ UNCHANGED <<uart, shared, data, mcount, handler, history>>

----------------------------------------------------------------------------
(* dev_read: every 3 ms, look at the length of the fifo through a char,    *)
(* and stop only after a newline.                                          *)
AsChar(n) == LET m == n % 2^CharBits
             IN IF m < 2^(CharBits - 1) THEN m ELSE m - 2^CharBits

CallRead(p, n) == /\ At(p, "user") /\ p \in Readers
                  /\ count' = [count EXCEPT ![p] = n]
                  /\ Goto(p, "r_poll")
                  /\ mixed' = TRUE
                  /\ UNCHANGED <<uart, shared, message, msg, first, last, handler, traffic, skipped>>

ReadPoll(p) == /\ At(p, "r_poll") /\ CanRun(p)
               /\ \/ AsChar(Len(fifo)) > 0 /\ Goto(p, "r_down")
                  \/ AsChar(Len(fifo)) <= 0 /\ UNCHANGED pc
               /\ UNCHANGED <<uart, shared, message, count, msg, first, last, handler, history>>

ReadDown(p) == /\ At(p, "r_down") /\ CanRun(p)
               /\ down
               /\ Goto(p, "r_get")
               /\ UNCHANGED <<uart, fifo, message, count, msg, first, last, handler, traffic, mixed>>

(* The byte that the loop finds at the end of its buffer: before an empty  *)
(* string, or one of Junk, it may be any.                                  *)
Seen(b) == IF b \in {Junk, Nul} THEN None
           ELSE IF b \in Nat THEN Other ELSE b
Aux(b) == IF b = None THEN {NewLine, Other} ELSE {b}

(* Mutant: the newline is looked for at the start of what was got. *)

ReadGetHead(p) == /\ At(p, "r_get") /\ CanRun(p)
                  /\ kfifo_get(count[p])
                  /\ up
                  /\ last' = [last EXCEPT ![p] = Seen(Last(<<@>> \o Take(fifo, count[p])))]
                  /\ Goto(p, IF Head(fifo \o <<last[p]>>) = NewLine THEN "r_copy" ELSE "r_poll")
                  /\ UNCHANGED <<uart, message, count, msg, first, handler, history>>

ReadGet(p) == /\ At(p, "r_get") /\ CanRun(p)
              /\ kfifo_get(count[p])
              /\ up
              /\ last' = [last EXCEPT ![p] = Seen(Last(<<@>> \o Take(fifo, count[p])))]
              /\ \E aux \in Aux(last'[p]) :
                   Goto(p, IF aux = NewLine THEN "r_copy" ELSE "r_poll")
              /\ UNCHANGED <<uart, message, count, msg, first, handler, history>>

ReadReturn(p) == /\ At(p, "r_copy") /\ CanRun(p)
                 /\ Return(p)
                 /\ UNCHANGED <<uart, shared, message, handler, history>>

----------------------------------------------------------------------------
(* handler_i serves one condition; reading IIR clears THRI if it shows it. *)
Interrupt == /\ irq /\ hpc = "idle"
             /\ irq' = FALSE
             /\ \/ dr /\ hpc' = "in" /\ UNCHANGED <<thri, room>>
                \/ ~dr /\ thri /\ thri' = FALSE /\ hpc' = "tx_down" /\ room' = mcount
                \/ ~dr /\ ~thri /\ UNCHANGED <<thri, hpc, room>>
             /\ UNCHANGED <<thr, dr, rbr, shared, message, locals, hbuf, hi, history>>

(* write_work: take mydev->count bytes and send all but the first, which   *)
(* dev_write sends.                                                        *)
TxDown == /\ hpc = "tx_down"
          /\ down
          /\ hpc' = "tx_get"
          /\ UNCHANGED <<uart, fifo, message, locals, hbuf, hi, room, traffic, mixed>>

(* Mutant: the loop starts with the byte that dev_write sends. *)

TxGetAll == /\ hpc = "tx_get"
            /\ kfifo_get(mcount)
            /\ up
            /\ \/ Take(fifo, mcount) = <<>> /\ Done
               \/ /\ Take(fifo, mcount) # <<>>
                  /\ hbuf' = Take(fifo, mcount) /\ hi' = 0 /\ hpc' = "tx_out"
                  /\ UNCHANGED room
            /\ UNCHANGED <<uart, message, locals, history>>

(* Mutant: an empty fifo returns without up. *)

TxGetReturns == /\ hpc = "tx_get"
                /\ kfifo_get(mcount)
                /\ \/ Take(fifo, mcount) = <<>> /\ UNCHANGED sem /\ Done
                   \/ /\ Take(fifo, mcount) # <<>> /\ up
                      /\ hbuf' = Take(fifo, mcount) /\ hi' = 1 /\ hpc' = "tx_out"
                      /\ UNCHANGED room
                /\ UNCHANGED <<uart, message, locals, history>>

TxGet == /\ hpc = "tx_get"
         /\ kfifo_get(mcount)
         /\ up
         /\ \/ Take(fifo, mcount) = <<>> /\ Done
            \/ /\ Take(fifo, mcount) # <<>>
               /\ hbuf' = Take(fifo, mcount) /\ hi' = 1 /\ hpc' = "tx_out"
               /\ UNCHANGED room
         /\ UNCHANGED <<uart, message, locals, history>>

TxOut == /\ hpc = "tx_out" /\ hi < mcount
         /\ outb(IF hi < Len(hbuf) THEN hbuf[hi + 1] ELSE Junk)
         /\ hi' = hi + 1
         /\ UNCHANGED <<shared, message, locals, hpc, hbuf, room, history>>

(* Mutant: the loop may end one byte early. *)

TxEndEarly == /\ hpc = "tx_out" /\ hi >= mcount - 1
              /\ Done
              /\ UNCHANGED <<uart, shared, message, locals, history>>

TxEnd == /\ hpc = "tx_out" /\ hi >= mcount
         /\ Done
         /\ UNCHANGED <<uart, shared, message, locals, history>>

(* read_work. *)
RxIn == /\ hpc = "in"
        /\ dr' = FALSE /\ rbr' = Other    \* read again only after dr
        /\ hbuf' = <<rbr>>
        /\ hpc' = "rx_down"
        /\ UNCHANGED <<thr, thri, irq, shared, message, locals, hi, room, history>>

RxDown == /\ hpc = "rx_down"
          /\ down
          /\ hpc' = "rx_put"
          /\ UNCHANGED <<uart, fifo, message, locals, hbuf, hi, room, traffic, mixed>>

RxPut == /\ hpc = "rx_put"
         /\ kfifo_put(hbuf)
         /\ up
         /\ Done
         /\ UNCHANGED <<uart, message, locals, history>>

----------------------------------------------------------------------------
Write(p) == \/ WriteAlloc(p) \/ WriteCopy(p) \/ WriteFirst(p) \/ WriteDown(p)
            \/ WritePut(p) \/ WriteOut(p) \/ WriteFree(p)

Read(p) == ReadPoll(p) \/ ReadDown(p) \/ ReadGet(p) \/ ReadReturn(p)

Call(p) == \E n \in Counts : CallWrite(p, n) \/ CallRead(p, n)

Handler == Interrupt \/ TxDown \/ TxGet \/ TxOut \/ TxEnd \/ RxIn \/ RxDown \/ RxPut

Line == Transmit \/ \E b \in {NewLine, Other} : Receive(b)

Next == Line \/ Handler \/ \E p \in Procs : Write(p) \/ Read(p) \/ Call(p)

Spec == Init /\ [][Next]_vars

(* Processes in the driver are scheduled and raised interrupts are served; *)
(* nobody has to call, and the line may stay silent.                       *)
FairSpec == Spec /\ WF_vars(Handler) /\ \A p \in Procs : WF_vars(Write(p) \/ Read(p))

----------------------------------------------------------------------------
(* Properties. *)

Byte == {NewLine, Other, Junk, Nul} \cup (Nat \ {0})

Labels == {"user", "w_alloc", "w_copy", "w_first", "w_down", "w_put", "w_out", "w_free",
           "r_poll", "r_down", "r_get", "r_copy"}

(* Every variable has its type; the fifo holds at most FIFO_SIZE bytes.    *)
TypeOK == /\ thr \in Byte \cup {Empty} /\ {thri, dr, irq} \subseteq BOOLEAN
          /\ rbr \in {NewLine, Other}
          /\ sem \in Nat
          /\ fifo \in Seq(Byte) /\ Len(fifo) <= FIFO_SIZE
          /\ data \in Procs /\ mcount \in Counts \cup {0}
          /\ buf \in [Procs -> Seq(Byte)] /\ alive \subseteq Procs
          /\ pc \in [Procs -> Labels]
          /\ count \in [Procs -> Counts \cup {0}]
          /\ first \in [Procs -> Byte] /\ last \in [Procs -> {NewLine, Other, None}]
          /\ msg \in [Procs -> Seq(Nat \ {0})]
          /\ hpc \in {"idle", "in", "tx_down", "tx_get", "tx_out",
                      "rx_down", "rx_put"}
          /\ hbuf \in Seq(Byte) /\ hi \in Nat /\ room \in Counts \cup {0}
          /\ written \in Nat /\ lastOut \in Nat \cup {Junk}
          /\ received \in 0..MaxIn /\ skipped \in BOOLEAN /\ mixed \in BOOLEAN

InProcess(p) == pc[p] \in {"w_put", "r_get"}
InHandler    == hpc \in {"tx_get", "rx_put"}

(* The semaphore is held by at most one of the processes and the handler,  *)
(* and is 1 when none of them holds it.  Only a wait that a signal ended   *)
(* breaks this; even then the semaphore is not left at 0 by nobody.        *)
SemExact == /\ ~InHandler /\ (\A p \in Procs : ~InProcess(p)) => sem > 0
            /\ ~skipped =>
                 /\ sem \in {0, 1}
                 /\ sem = 1 <=> ~InHandler /\ \A p \in Procs : ~InProcess(p)
                 /\ InHandler => \A p \in Procs : ~InProcess(p)
                 /\ \A p, q \in Procs : InProcess(p) /\ InProcess(q) => p = q

(* The fifo never holds more than its size, and the semaphore that guards  *)
(* it is held by whoever uses it (seri.c: dev_read, dev_write, the handler). *)
Inv == TypeOK /\ SemExact

(* The handler, which must not sleep, finds the semaphore free, and the    *)
(* bytes it takes fit the array it declared before it had the semaphore:   *)
(* this fails only once two calls have met, or a read or a byte received   *)
(* has come in, since the driver was last quiet.                           *)
HandlerUndisturbed ==
    ~mixed => /\ hpc \in {"tx_down", "rx_down"} => sem > 0
              /\ hpc = "tx_get" => mcount <= room

(* Writes of one size leave on the line in their order: after each byte    *)
(* the next of its write, after the last one the first of the next write.  *)
OutputInOrder == [][thr # Empty /\ thr' = Empty => thr = (lastOut % written) + 1]_vars

(* What may leave on the line next when a write has the driver for itself: *)
(* its first byte first, then later ones in order -- of three or more the  *)
(* handler may overwrite some, as it does not wait for the transmitter --, *)
(* Junk for what the fifo did not take, and the Nul of an empty buffer for *)
(* a write of no bytes.                                                    *)
MayFollow(b) ==
    \/ /\ b \in 1..Min({written, FIFO_SIZE}) /\ lastOut \in 0..b - 1
       /\ lastOut = 0 => b = 1
    \/ b = Junk /\ lastOut # 0 /\ written > FIFO_SIZE
    \/ b = Nul /\ lastOut = 0 /\ written = 0

(* A write that starts with the driver quiet, and that no other call and   *)
(* no byte received meets: its bytes leave in order, each at most once,    *)
(* the first one always, and when all is quiet again the last one has left *)
(* too -- so of one or two bytes none is lost.                             *)
OutputExact ==
    /\ [][~mixed /\ thr # Empty /\ thr' = Empty => MayFollow(thr)]_vars
    /\ [](~mixed /\ Quiet /\ written \in 1..FIFO_SIZE => lastOut = written)

Reading(p) == pc[p] \in {"r_poll", "r_down", "r_get", "r_copy"}

(* The last byte that p's read has or finds; the line has no more to add. *)
LastOfStream(p) == Last(<<last[p]>> \o fifo)
Silent == received = MaxIn /\ ~dr /\ hpc = "idle"

Writing(p) == pc[p] \in {"w_alloc", "w_copy", "w_first", "w_down", "w_put", "w_out", "w_free"}
NoOutput == mcount = 0 /\ \A p \in Procs : ~Writing(p)

(* Once the line falls silent after a newline, a read returns -- provided  *)
(* the length of the fifo is positive as a char, and nobody writes: the    *)
(* handler would send the bytes received.                                  *)
ReadReturnsLine ==
    \A p \in Readers :
       (/\ Reading(p) /\ Silent
        /\ LastOfStream(p) = NewLine
        /\ Len(fifo) < 2^(CharBits - 1)
        /\ count[p] > 0
        /\ NoOutput) ~> (At(p, "user") \/ ~NoOutput)
=============================================================================

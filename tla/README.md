# Specifications of the drivers in SistemasOperativos2019

The repository is the work of an operating-systems course: Linux character
drivers written in the labs (`lab1` … `lab4`) and the drivers of *Linux Device
Drivers* that the course starts from (`examples/`). Most of it is code that
runs in several processes, in an interrupt handler, in a work queue and in
timers at the same time, with one semaphore or no lock at all. That is what the
specifications here are about.

Paths below are relative to `src/`. Names in the modules are the names of the
source wherever TLA+ allows it; `PROJECT.json` gives, under `map`, the lines
each definition stands for, and under `hazards` the places where this code
can go wrong and the properties that watch them.

## 1. Inventory

### Components, their state and their operations

| Component | State | Operations | Hard part | What makes it correct |
|---|---|---|---|---|
| **serp** `lab3/serp/serp.c` | one UART; `tstate`, `rbuf`, `rtimer` of the only device | `config_uart_dev` at load, open, release, read, write, `timer_end` | no lock; the status register is polled and is cleared by reading it; a timer that is set by the first byte | what a skipped step of the configuration costs, and no more; a read ends once it has a byte; who may overwrite the byte in the transmitter; a read that is alone uses its own buffer |
| **seri** `lab4/seri/seri.c` | `dev_fifo` under `sem`, `data` and `count` shared by all writes, one UART | read, write, `handler_i` → `write_work`, `read_work` | the interrupt handler and the processes share fifo, semaphore and transmitter; the handler takes a sleeping lock | bytes leave once and in order; a read returns at a newline; the semaphore is exact |
| **scull pipe** `examples/scull/pipe.c` | circular buffer `buffer…end`, `rp`, `wp`, `nreaders`, `nwriters`, `sem`, `inq`, `outq`, `async_queue` | open, release, read, write, poll, fasync, size ioctl | conditions tested without the semaphore; early returns; an open that resets the pointers of others | FIFO; no lost wake-up; semaphore exact; pointers in range; buffer lives while a file is open |
| **shortprint** `examples/shortprint/shortprint.c` | circular page, `shortp_output_active`, timer, work, `shortp_out_sem`, `shortp_out_lock`, two wait queues | write, release, `shortp_do_work`, `shortp_interrupt`, `shortp_timeout`, load, unload | four contexts, decisions outside the lock, lost interrupts | every byte printed once in order; output never stalls; nobody sleeps for ever; nothing left running after unload |
| **echo** `lab2/echo/echo_lambidelas.c` | `buf[20]`, `bc` | open, release, read, write | no lock, `bc` and `buf` drift apart | a read stays in the buffer and returns what was written since the open |
| **usocat** `lab3/serp/usocat.c` | socket, terminal mode, byte counts | receive loop, send loop, `close_sock`, SIGINT handler | SIGINT anywhere in the loops; partial writes | bytes transferred in order; terminal restored |
| **scull memory** `examples/scull/main.c` | list of quantum sets, `size`, `quantum`, `qset`, `sem` | open (trims), read, write, llseek, ioctl | parameters read before the semaphore is taken; trim without it | reads return what was written, quantum by quantum |
| **scull access** `examples/scull/access.c` | `scull_s_available`, `scull_u_count/owner`, `scull_w_count/owner`, list of clones | four open/release pairs | atomic counter, two spin locks, a blocking open | one opener, one user, waiters served |
| **short** `examples/short/short.c` | circular page of time stamps, tasklet and work-queue variants | read, port writes, four handlers, bottom half, two probes | head and tail advanced by different contexts without a lock | pointers never leave the page; readers see whole records |
| **snull** `examples/snull/snull.c` | packet pool, `rx_queue`, status word, statistics | open, stop, xmit, two interrupt handlers, NAPI poll, tx timeout | two devices that call into each other under locks; pool exhaustion; lost tx interrupts | pool conserved; queue stopped only while the pool is empty; each packet freed once |
| **sbull** `examples/sbull/sbull.c` | sectors, `users`, `media_change`, timer | open, release, invalidate timer, revalidate, three request modes | a timer against opens | media is invalidated only when nobody uses it; a write lands on its sectors |
| **sleepy, complete, jiq, jit** `examples/misc-modules` | flags, a completion, one delayed work, timers, a tasklet | reads and writes that sleep and wake | which sleepers a wake-up releases | a sleeper has somebody who will wake it; nothing prints into a page that was given back |
| **tiny_tty, tiny_serial** `examples/tty` | `open_count`, timer, semaphore | open, close, write, timer | `open_count` and the timer against the last close | the timer stops with the last close |
| **usb-skeleton** `examples/usb` | kref, `interface`, URBs | probe, open, write, completion, release, disconnect | disconnect against open | freed once, after the last use |
| **scullc/p/v/d** `examples/scull?` | scull on slabs, pages, vmalloc; VMA counts | as scull, `mmap`, asynchronous requests | trim against mappings, parameters that differ from those of the memory | no trim while mapped; accesses stay in the quantum |
| remaining files | none to speak of | `lab1`, `lab2/hello`, simple, skull, pci_skel, lddbus, hello modules, `misc-progs`, headers of UART registers, build scripts | – | – |

### How components interact

* Programs reach a driver through system calls. Each process of a model owns
  one open file; what it does between calls is free.
* The drivers meet the hardware through registers: the UART of serp and seri,
  the parallel port of shortprint. The hardware is a part of these models,
  written from what the drivers assume of it (status bits, when they change,
  when an interrupt is raised).
* Interrupt handler, work queue, timer and process share the variables of
  one driver. They do not share anything with another driver, with two
  exceptions: `SCULL_P_IOCTSIZE` in `scull/main.c` changes the size that
  `scull/pipe.c` uses at the next open (part of `ScullPipe`), and the two lab
  drivers talk to `usocat` on the host through the virtual serial line.
* `scull/pipe.c` and `shortprint.c` promise the same thing to their users, a
  bounded FIFO of bytes. It is written once, as `ByteChannel`, and both are
  shown to implement it.

## 2. Plan

Done, in the order in which it was written:

1. `ByteChannel` – the abstract bounded FIFO.
2. `ScullPipe`, `MCScullPipe`, `ScullPipeProofs` – the blocking pipe.
3. `ShortPrint`, `MCShortPrint`, `ShortPrintProofs` – the printer output.
4. `Serp`, `SerpProofs` – the polled serial driver.
5. `Seri`, `SeriProofs` – the interrupt-driven serial driver.
6. `ScullDevice` and `ScullAccess`, `MCScullAccess`, `ScullAccessProofs` – the memory
   device, composed with the four kinds of open.
7. `Snull` – two interfaces, pools, interrupts, NAPI.
8. `Short` – the ring of time stamps between interrupts, bottom half and readers.
9. `Sbull` – opens against the invalidate timer, three request modes.
10. `TinyTty`, `TinySerial`, `UsbSkel` – timers and reference counts against closes.
11. `Sleepy`, `Jiq`, `Jit` – what sleeps and what wakes in `misc-modules`.
12. `Echo`, `Usocat` – the first lab driver and the host's end of the serial line.
13. `PageItems`, `Scullp`, `Scullv`, `Sculld`, `Scullc` – the scull variants.
14. `OneDriver` – the drivers of 7 to 13 side by side; `MCDrivers` gives them small
    values for TLC, `OneDriverProofs` and `InterruptProofs` prove about them for all.
15. `RingTheorems` – lemmas about circular buffers, for the proofs of pipe, printer,
    short and tiny_serial; induction over numbers, for the walks along lists and the sums
    of snull, short and sbull; and the lists of the scull variants.

The order is that of the concurrency in the code: the two drivers with most
contexts and a contract worth stating first, then the two drivers the course
itself wrote, then the others by what they share.

## 3. Modules

Every system call is cut into steps at the places where another context can
run: a `down`, an `up`, a wake-up, a sleep, an access to a register, an unlocked
test. What lies between two such places is one action. Where a process stands is
`pc[p]`; labels begin with `o_`, `r_`, `w_`, `c_`, `p_` for open, read, write, close
and poll. In each module the definitions that follow a comment “Mutant” are
plausible mistakes in the next definition; nothing else uses them, and
`PROJECT.json` says which property notices each.

### ByteChannel

A bounded FIFO: bytes are numbered modulo `Modulus` in the order they are handed
over, `Accept` appends the next ones, `Deliver` takes a prefix, `Discard` empties the
channel. A reordered, lost or repeated byte shows as a number that no
`Accept` or `Deliver` explains.

### ScullPipe – `examples/scull/pipe.c`

`rp` and `wp` are offsets from `buffer`; `alloc` is the number of bytes allocated
(0 for NULL) and `buffersize` the driver's own idea of it, which differ after an
ioctl. `sem` is a counter, as in the kernel. The wait queues hold the processes
enqueued and not yet woken; `wait_event_interruptible` is three steps (enqueue, test,
sleep), and `scull_getwritespace` likewise. Copies to and from the user are one step
with the pointer advance; the wrap of the pointer is the next step, under the
semaphore, because unlocked tests of others see the pointer at `end`.
`Open`, `OpenNoMem`, `Release`, `ReadEmpty`, `ReadCopy`, `ReadWrap`, `ReadWake`, `Fault` … are
the branches of the functions of the file. `SetSize` is the ioctl of
`scull/main.c`. A signal can reach any process inside the driver; it ends the
interruptible waits. Refinement: `queue` is the circular content from `rp` to `wp`,
`out` what a read is delivering; an open and the last close are `Discard`.

### ShortPrint – `examples/shortprint/shortprint.c`

Four contexts: processes, the work thread (`worker`), the interrupt, the timer
handler (`timeout`). A region under `shortp_out_lock` is one action, the tests of
`shortp_output_active`, of the free space and of the printer's status that the
code makes outside the lock are actions of their own. The printer is external: it
finishes a byte at some time, and raises its interrupt, or, with `Missed`, does not.
`CleanupIrq`, `CleanupTimer`, `CleanupFlush` are the order of `shortp_cleanup`; `Load` is
`shortp_init`. Refinement: `queue` is the page from tail to head, `out` the last byte
strobed.

### Serp – `lab3/serp/serp.c`

Every `inb` and `outb` is a step. Reading LSR clears its error bits (`ReadLSR`), which
two readers of the register can see. `Configure` makes the six guarded writes of
`config_uart_dev`, with the ports shared between divisor latch, IER and data.
`tstate`, `timer` and `rbuf` are those of the single device, shared by all reads;
`TimerEnd` is `timer_end`. The line is external: bytes leave, bytes arrive, some
damaged, some overrunning the last, and one may be leaving when the module is loaded.
Any process may read and write. Three variables are history: `skipped`, the steps of the
configuration that found the transmitter full; `burst`, the processes that have sent since a
byte last left; `shared`, the processes whose read another has overlapped. A read of no
bytes stores one, since the loop tests the count after the byte (`serp.c:161`–`194`); it stays
in the buffer, which has a byte more than was asked for, but leaves no room for the end of
the string.

### Seri – `lab4/seri/seri.c`

`fifo` under `sem` holds bytes in both directions, as in the code. `data`, `mcount` are
the device's pointer and count, which the interrupt handler uses for its own loop;
`buf` and `alive` say what memory the pointer reaches, and a byte of other memory
is `Junk`. The handler is cut like the processes (`tx_down`, `tx_get`, `tx_out`, `rx_down`,
`rx_put`) because it takes the same semaphore. `down` is `down_interruptible` whose
result is ignored: with `Signals` a wait that a signal ends goes on without the
semaphore. One kfifo call is one step. `AsChar` is the conversion of the length to
`char`. The UART is external: `Transmit` and `Receive` change its conditions, and the
interrupt controller latches rising edges of its line. `room` is the length of the array that
`write_work` declares before it waits for the semaphore, by the count of that moment. `mixed`
is history: since the driver was last quiet, a call has met another, or a read or a
received byte has come in.

### ScullDevice – `examples/scull/main.c`

`dev[d].data` is the list of quantum sets as a sequence of arrays of quanta; a byte
is the position it was written for, or `Junk`. `read` and `write` are cut where the
code can be overtaken: `Start` copies quantum and qset before the semaphore, the walk
through the list takes a pointer (`ref[p]`), which a trim turns into `"freed"`, and the copy
uses it. `TrimStart`, `TrimFree` are `scull_trim`, called from `OpenDown` under the
semaphore and from `access.c` without. `Llseek`, `Ioctl`, `ProcPeek` … `ProcWalk` and
`Unload` are the other functions. Each kmalloc of `scull_follow` and `scull_write` may fail
(`Follow`, `Failed`), and what was allocated before it stays in the list. `hits` records each access outside the device's
memory with the reason that explains it.

### ScullAccess – `examples/scull/access.c`

EXTENDS `ScullDevice`; `kind` says which device a behaviour uses. The atomic counter of
`scullsingle` is two steps (`SingleOpen`, `SingleBusy`), a region under a spin lock one;
the blocking open is the three steps of a wait; `scullpriv` finds or makes the clone
of the caller's terminal.

### The drivers of `OneDriver`

Most of these drivers interleave a few contexts over a few variables
without a lock, and have windows in which something goes wrong. Their modules
have the same form. One record variable named after the driver is its state, one variable
for each kind of context says where it stands and what it holds in locals. A
variable `…Seen` (`odd`, `missed`, `fate` in `Snull`) is history: it gets a name when a
window is hit (two readers past the same index, a signal, a lost count), and another
when damage results. The properties say that the damage needs the window: every other
interleaving is safe. After damage the code's behaviour is undefined, and the model stops.

* **Snull** – `snull.c`. Packets of two pools linked by `next`. The contexts are the
  transmit path of each device, which runs the interrupt handlers of both, and
  its poll. A region under `priv->lock` is one action; `status |= bit` is two. `Hang` is the
  simulated lockup, `Timeout` the watchdog. `NapiInterrupt` disables the interrupts of a device and
  has it polled only if it is up, as `netif_rx_schedule` does; `missed` records a device that is
  deaf since.
* **Short** – `short.c`. `head`, `tail`, `tv_head`, `tv_tail`; interrupt (`Interrupt`,
  `InterruptPut`, `InterruptWake` or `TopHalf`, `Schedule`), bottom half (`BhStart` …
  `BhWake`), readers (`ReadTest` … `ReadAdvance`), and the search for the interrupt line
  at load. `backlog` and `stamps` count what has not been taken.
* **Sbull** – `sbull.c`. `users`, `media_change`, the timer; a write is a bio transferred
  segment by segment. `Segment` uses the length of the first segment for each, as the code
  does: a bio of uneven segments lands on other sectors, and `Stored` excepts it.
* **TinyTty**, **TinySerial** – `tiny_tty.c`, `tiny_serial.c`. Open count and timer of one
  port, with the big kernel lock given up at each sleep; the transmit buffer against the
  timer that drains it.
* **UsbSkel** – `usb-skeleton.c`. Each probe makes a structure with its `kref`; files and urbs
  refer to it; `Touch` notices a use after it was freed.
* **Sleepy**, **Jiq**, **Jit** – `sleepy.c`, `complete.c`, `jiq.c`, `jit.c`. Sleeps are cut into
  queue, test and sleep; `interruptible_sleep_on` is not tested. Work, tasklet and timer of
  `jiq` share one record and one page. In `jit` every read has its own.
* **PageItems**, **Scullp**, **Scullv**, **Sculld**, **Scullc** – the list of `scull` with quanta of
  whole pages or of slab objects, as operators on values; calls under the semaphore
  are one action, copies of order and qset before it, tests and counts of `mmap.c`
  without it are others. `Scullv` and `Sculld` are instances of `Scullp` with what differs:
  the mapping of any order, the registration on the ldd bus, the `nopage` that never
  assigns its page (`sculld/mmap.c:86`) and crashes the process.
* **Echo** – `echo_lambidelas.c`. Every access to `buf` and `bc` is a step.
* **Usocat** – `usocat.c`. Both loops with short reads and writes; SIGINT between any two
  steps ends the program through its handler.

`OneDriver` instantiates them and adds `loaded`, the driver in the machine for the
behaviour; the variables of the others are `Off`. Its constants are those of the drivers, and
three assumptions say what the proofs need of them. `DriversAssumption`: finitely many processes,
sizes that are not 0, a page of short that is a whole number of records and holds more than one,
and 0 free to stand for NULL. `WritesAssumption`: a bio has segments, none is empty, and it lies
on the disk, as the block layer sees to. `ShapesAssumption`: no quantum and no qset of the scull
variants is 0, since read and write divide by them. `MCDrivers` only gives small values.

Each of the properties of `OneDriver` joins what the modules state, under names of their own, about one subject: `PacketsKept` and `FramesHandled` of
`Snull`; `RingRead` and `StampsPrinted` of `Short`; `WakeupsCome` (who sleeps in `Jiq`, `Jit` and
`Sleepy` is woken) and `PagesKept` (what `Jiq` and `Jit` print into is there); `TtyTimers`;
`SkelLives`; `VariantsSound` and `MappingsSound` of the scull variants; `DiskKept`; `EchoFresh`;
`UsocatSession`. Most have several mutants, one for each part.

## 4. Runs

All runs use two workers and finish within five minutes.

| Run | What it asks | Instance and why it is enough |
|---|---|---|
| `pipe_calls` | types and semaphore (`Inv`), pointer range, life of the buffer, reader wake-ups, that only an open strands a writer, FIFO refinement | a reader, a writer and a non-blocking process that does both; sizes 2 and 3, so that opens resize, the buffer wraps and is full with one byte; three byte numbers, one more than such a buffer stores |
| `pipe_live` | closes complete, sleepers are served | a reader that polls and asks for SIGIO, a writer that gets signals; counts 0 and 2 |
| `print_output` | types and semaphore (`Inv`), output never stalls, no byte left behind, sleepers, strobes, FIFO refinement | two processes, lost interrupts; a page of 4 bytes is the least with room for `SP_MIN_SPACE`; writes of 3 fill it |
| `print_live` | a write returns | one process with signals, unloading and loading again; a write of 5 bytes is longer than the page |
| `serp_calls` | who may overwrite the byte in the transmitter (`NoOverwrite`), the buffer of a read that is alone (`BufferOwned`) | two processes that both read and write, so that two tests, two sends and two reads overlap; counts 0 and 2; damaged and overrunning bytes |
| `serp_ends` | types and configuration (`Inv`), reads end: without blocking or after a byte (`ReadsEnd`) | a reader that may be non-blocking beside a writer, since the properties are about one read and what others do to it; counts 0 and 2; a transmitter that is empty or full at load |
| `seri_calls` | types and semaphore (`Inv`), the handler finds the semaphore free (`HandlerUndisturbed`), output in order (`OutputExact`), a read returns at a newline (`ReadReturnsLine`) | a reader and a writer on two processors, writes and reads of three bytes, a fifo of three so that it overflows as soon as two bytes are received, a `char` of two bits so that lengths of 2 and 3 are not positive, signals that end waits |
| `scull_users` | types and who has the device open (`Inv`); bytes read are bytes written there; accesses outside memory only with stale parameters or beside an unlocked trim; wake-ups of the four opens | each kind of device in turn with up to four processes: two users, one acting as another, and the super-user; one of them reads, writes and seeks, on three positions; quantum and qset of 1 and 2, so that an ioctl and a trim change both. Behaviours that have gone outside the memory in two different ways are not followed (`FewHits`), since after the first the kernel's is undefined; the proofs have no such bound |
| `drivers` | the properties of the fifteen drivers of `OneDriver` | two processes (or two interfaces) each; a ring of three records, of which the last makes it wrap; pools of two packets; lists of two items and orders 0 and 1; four sectors, with bios of even and uneven segments that overlap; two successive probes; a transmit buffer of four bytes. 873309 states. The windows the properties except are all hit in these instances |

Three runs end with a violation: the code does something else than a line of the
repository says. `PROJECT.json` quotes the lines.

| Run | What happens |
|---|---|
| `print_floating_timer` | a signal ended the wait of the last close while output was active; unloading deletes the timer before it flushes the work queue, and the flushed work strobes another byte and sets the timer again |
| `serp_write_drops` | a write that finds the transmitter full lets others run, then goes on with the next byte: the byte is never sent |
| `seri_first_char` | the interrupt that ends the byte of the previous write comes after `dev_write` has put its bytes in the fifo and before it sends its first: the second byte leaves first |

What else the code does against its intention is in the models, and the passing
properties are worded around it:

* scull pipe: an open while a writer sleeps empties the buffer and wakes nobody
  (`WakeupLostOnlyByOpen` says that nothing else strands a writer); an ioctl and a second open
  move `end` past the allocated bytes (`pipe.c:78`).
* scull access: the opens of `access.c` trim without the semaphore that `scull_trim` asks for
  (`main.c:61`).
* short: two readers of one node advance the tail twice; the bottom half, scheduled
  again after it took the last stamp, prints an old one and goes once around the array.
* serp: two writers that both found the transmitter empty lose a byte; two reads that overlap
  share `rbuf`, the second frees it twice and the first prints from freed memory; a byte
  leaving at load makes `config_uart_dev` skip steps, after which the divisor is sent as a byte or
  not written (`NoOverwrite`, `BufferOwned` and `Configured` say which of these may happen when).
* seri: of three and more bytes the handler overwrites some in the transmitter; a read while bytes
  arrive, or writes in a row, let the handler meet a held semaphore. With `SameCpu` TLC finds
  the consequence as a deadlock: the handler waits for the process it interrupted. A count that
  grows between line 339 and the semaphore is larger than the handler's array. No line of the
  repository says otherwise, so these are not runs of their own.
* snull: a lost `status |=`, a queue started with an empty pool, a packet that comes while
  the poll ends; with NAPI, a packet for a device that is down: its interrupts are
  disabled (`snull.c:405`), nothing polls, and nothing enables them again.
* scullp, scullv, sculld: items after the first have order 0; lost `vmas++`; scullv maps the
  first page of the n-th block for the n-th page at any order but 0; sculld's `nopage`.
* scullc: a quantum raised by an ioctl outgrows the cache's objects; the devices are live
  before the cache.
* sbull: bios of uneven segments. jiq: a wake-up before the sleep. jit: the handler wakes a
  queue in memory that the reader may have freed. tiny_tty: a handler that runs during the
  last close. echo: `bc` beyond the buffer after two writes. usocat: SIGINT between
  `malloc` and `tcgetattr` (usocat.c:117–126) sets the terminal from uninitialised memory.

Conditions under which the passing properties hold:

* `print_output`, `ImplementsChannel` and `StrobeWhenReady`: without unloading. Loading
  again restarts with an empty page, which is no loss, since closes wait for
  the output unless a signal ends them.
* `BufferOwned`: reads that no other has overlapped, whatever overlapping ones did before.
  `ReadsEnd` excepts reads beside another open file, whose close deletes the common timer.
* `OutputExact`, `HandlerUndisturbed`: from a call of write that finds the driver quiet until another
  call, or a received byte, comes in (`mixed`). With the next quiet moment they hold again.
* `ReadReturnsLine`: while nobody has written since load (the handler would send what was received),
  and while the length of the fifo is positive as a `char`.
* `SemExact`: exact until a signal ends a wait; from then on all that is left is
  that the semaphore is not at 0 when nobody holds it.

### Fairness

* `ScullPipe`: a process inside the driver keeps running (weak fairness of
  `Kernel(p)`: nothing in it waits for anything but what its guard names), and a
  semaphore released again and again is eventually granted (strong fairness of `Down(p)`:
  the kernel's semaphores queue their waiters). Programs may stop calling.
* `ShortPrint`: the same, plus weak fairness of the work thread, of the printer
  finishing its byte and of its interrupt. Nothing of the timer: when interrupts
  arrive, writes complete without it.
* `Serp`: processes in the driver and the timer. Nothing of the line: the other end may
  stay silent.
* `Seri`: processes in the driver and the handler. Nothing of the line.
* `ScullAccess` and the drivers of `OneDriver`: none, the properties are safety. Those about
  wake-ups (`OpenersWoken`, `WakeupsCome`, `RingRead`, `PacketsKept`) say in every state who is
  going to wake the sleeper.

## 5. Theorems

Eight modules prove theorems for every set of processes, every size and every byte count
that the assumptions of the modules allow: `ScullPipeProofs`, `ShortPrintProofs`, `SerpProofs`,
`SeriProofs`, `ScullAccessProofs`, `OneDriverProofs`, `InterruptProofs` and the lemmas they
share, `RingTheorems`. Every safety property that a passing run checks is proved. In the modules
of a single driver `InvariantKept` states the invariant `Inv` that the runs check: the types, and
the semaphore, the configuration (`Serp`) or the rules of the four opens (`ScullAccess`).

* **Rings.** The buffers keep one place free, and a pointer may stand at the end of the array
  until it is wrapped. `RingOf` says with remainders which bytes are in one, oldest first, as
  the refinement mappings do; `Unroll` says it without, which the solvers can follow; `Unrolled`
  shows that both are the same. `RingAccept` and `RingDeliver`: bytes stored behind the last are
  appended, bytes taken from the first are a prefix, and nothing else changes; `RingWrap`:
  wrapping a pointer changes nothing. `OnePlace` counts the places for rings that
  advance one at a time.
* **Inductions.** The installed provers cannot use a theorem of induction that takes a
  predicate. A set can stand for one: the numbers for which something holds, and if such a set
  of numbers has 0 and with each number the next, it has all of them. `RingTheorems` says this once,
  from the well-foundedness of the numbers. The walks along a list and the sum of a fold
  below are done with it.
* **Lists of scull variants.** `RingTheorems` also has what a read or write does to the list of a
  device, as operators on values: following it adds empty items (`Followed`), a write adds an array
  of zeros where there is none (`ArrayThere`) and a quantum to an empty slot (`QuantumThere`), and
  nothing else changes. `Placing` says that a position is in a slot of the qset and in the
  quantum it was divided by.
* **Pipe.** `IInv` = types ∧ `Lock` ∧ `PointersInRange`. The range of the pointers is not
  inductive alone: an open sets both pointers to 0, and only the semaphore keeps it
  from doing so between a read's advance and its wrap. `Lock` says so by process
  (at most one inside, `sem = 0` iff there is one), and `SemExact` is its
  consequence. `ReadersWoken` rests on it too: a wrap that makes `rp = wp` undone
  would need both pointers at `end`, hence two processes inside. `BufferLivesWithFiles`
  adds to it that `nreaders` and `nwriters` are the numbers of open files, since the
  code frees the buffer by those counters. `WritersForgottenByOpen`: a writer sleeps beside
  free space that nobody will announce only after an open emptied the buffer under it.
  `PipeIsChannel` is the refinement of `ByteChannel`, step by step: a copy to the buffer is an
  `Accept`, a copy to a user a `Deliver`, an open or the last close a `Discard`, everything
  else a stutter. A read between advance and wrap, and a failing copy, are the hard
  cases. `AsyncReadersOpen` (only open files are on the list of asynchronous readers; no run
  checks it) is inductive as it stands.
* **Printer.** `IInv` = types ∧ `Lock` ∧ `ClosedAtUnload` ∧ `LockedReady` ∧ the properties of
  the output. `SleepersWoken` is the one that needs most: a writer sleeps with one
  free byte, the free space grows by one with every strobe, so it passes
  `MinSpace` and wakes him before it wraps to 0 – for every page of four bytes or more –
  and no other writer stores meanwhile because he sleeps with the semaphore.
  `StrobesReadyPrinter`: only a strobe makes the printer busy, and there is one worker.
  `PrinterIsChannel` is the refinement of `ByteChannel`: a write is an `Accept`, a strobe a
  `Deliver` of one byte.
* **serp.** No hypothesis beside the assumptions on the constants: any number of readers and
  writers, a transmitter empty or full at load, reads and writes of no bytes.
  `SendersTakeTurns` rests on `Rounds`: a process past its test has not sent since a byte last
  left, and if the transmitter is full meanwhile, somebody who has sent did it. `ReadOwnsBuffer` rests
  on `Alone`: a read that was not overlapped is the only one, so nobody else allocated or freed
  since it began. `ConfigurationReached` follows the six steps with the set of those skipped
  (`Progress`): once the latch is open the transmitter stays empty, so nothing more is skipped,
  and while it is not, the divisor is out of reach.
* **seri.** `IInv` = types ∧ `SemExact`, for processes and handler together. The two theorems
  about output are about the time in which `mixed` is false. Then `TakesTurns` is inductive – one
  process at most is in the driver, it writes, nothing is received, and until it has sent its
  first byte the line is empty and the handler rests – from which `HandlerFindsSemaphoreFree`
  follows. `Stream` says where the bytes of that write are: in its buffer or the fifo while it is
  under way (`Prepared`), after that in the fifo (`InFifo`), in the handler's buffer (`InHand`) or
  all out (`AllOut`), with as many as `Fits` the fifo.
  `LineCarriesWrites` follows for every byte count and size of the fifo.
* **scull.** `ScullAccessProofs` proves the invariant `Safe` of memory device and opens
  together, in three layers. `Rules` says who may be where: types, which labels go with an open
  file, with the semaphore, with a pointer into a list, with the spin-locked counts, and which
  device a process has. `Lists` says that the arrays of a device have the lengths that the
  parameters of a call suppose, unless parameters and memory were mixed by a stale copy or
  an unlocked trim, and that the quantum a call is copying from is the one it walked to. On
  both rest the four properties of the run: `Inv` (one opener, one user, counts that agree
  with the open files), `OpenersWoken`, `MemorySafe` (every access outside the memory has one of
  the reasons named in `hits`) and `Faithful` (a byte read is the byte written there). They
  need one another: a byte is read where it was written because the lengths agree, and the
  parameters of scullsingle are never stale because it has one opener.
* **The drivers of `OneDriver`.** Each driver has an inductive invariant named after it
  (`ShortInv`, `JiqInv` …), shown to hold in every behaviour with that driver loaded (`ShortKept` …).
  * usb-skeleton (`SkeletonsLive`): the reference count is the number of files with the structure
    plus one for the interface.
  * tiny_tty, tiny_serial (`PortTimers`): the open count is the number of calls that raised and
    have not lowered it, and a structure nobody holds has neither timer nor handler,
    unless a window that `tinySeen` names was hit; the buffer of tiny_serial holds what was written and
    not sent.
  * sbull (`SectorsStay`): `users` is the number of processes with the disk, and one that nobody
    uses has its media changed, its timer set, or a process past `del_timer`. For the contents,
    a write has advanced by the lengths of the segments before it, or, as the code has it outside the
    simple mode, by the first length each time: a sum that grows with every segment (`Placed`). All
    that it may touch, the overrun of an uneven bio included, is marked while it runs (`Marked`); two
    writes that touch the same sectors both know it (`Apart`); and one that nobody crosses, even or in
    the simple mode, has its data on all the sectors it has passed (`Written`).
  * echo (`EchoReads`): `bc` bytes of the buffer are fresh, and a call that no other disturbed
    still knows how many.
  * usocat (`SessionsEnd`): written, buffered and unread bytes are consecutive, and where the
    program is says whether the terminal and its saved settings differ.
  * sleepy, complete, jiq, jit (`SleepersWoken`, `LatePrints`): which pending work, timer or tasklet
    belongs to which sleeping read; in `complete`, at most as many completions are left as
    processes were let go and have not returned.
  * short (`RingReads`, `StampsOnce`): the head stays at the start of a record, so it meets the
    end of the page, and `backlog` is the distance of the pointers until the ring has lapped; a
    single reader copies, from the tail and no more than is there; while somebody sleeps
    unannounced the ring is empty. A stamp that was not printed has a bottom half pending,
    scheduled or running, and a bottom half runs without a stamp only when it was scheduled behind itself.
  * snull (`PacketsStay`, `FramesDone`): for each device there is a set of packets that the pool
    strings together and one for the queue of its twin; the two are disjoint, and the rest are
    each in the hand of one context (`Parts`, `Alone`). What a pool or queue strings together is the
    list that the model walks, by induction along `next`. An empty pool has a stopped queue, and
    whoever puts a packet into it goes on to start it. For the skbs, `Sends` says at each
    place of a transmission whether the device still has the skb and the status bit, and
    `Announces` who will come for a packet that was queued: an interrupt, the poll, or a context of the
    twin on its way, unless the device is `Deaf` (`missed`). Both hold until a transmission hung or a queue was started by force.
  * scullp, scullv, scullc, sculld (`VariantsStay`, `MappingsStay`): an array has as many slots as the
    device has quanta in a set, unless a write came with an older qset; a slot is empty or holds a
    quantum of its item's order – in scullc an object as long as the cache's – and items after the first have
    order 0. A read or write with the sizes of the device therefore stays inside. `vmas` is the number of
    mappings between `vmas++` and `vmas--`, unless an update was lost; a mapped device has
    order 0, at which a quantum is a page and `nopage` finds the one that read would, unless a trim
    came between test and count. A file of scullc that is open before the cache was opened
    early; a driver on the bus of sculld has its module loaded or loading, unless the load ran out of memory.

Only model-checked: the properties with fairness (`CloseCompletes`, `SleepersServed`,
`WriteCompletes`, `ReadsEnd`, `ReadReturnsLine`), since liveness is outside what the prover does.

## 6. Not modelled

* Of the modelled files: messages, `/proc` output that only reads what it may (the walks of
  scull and scullp are modelled, because they follow lists), statistics that are only printed,
  and, unless named above, registration with the kernel and the failures of `init`. In
  `Seri` also the configuration of the UART (the same as `Serp`'s but for the enabled
  interrupts) and unloading. In `Serp` and `Seri` a copy to or from a bad user address. In `Serp`
  an open between `cdev_add` and `setup_timer` (`serp.c:271`–`280`), and what the `strlen` of a read of
  no bytes finds behind its buffer.
* Contents where no property needs them: packets of snull, text of short, jiq and jit
  (a line of `short` may also be longer than the 16 bytes it advances by), pages of scullp.
* A quantum or qset of 0, which the ioctls accept and the next read divides by.
* Steps that are one action though another context could come between, or left out:
  `TrimFree`, also where `access.c` calls `scull_trim` without the semaphore and it frees the list item
  by item; `BhStart` of `Short`, which runs one bottom half at a time although the work of `wq=1` may run on
  two processors, and `Install`, in which installing and replacing the plain handler are one;
  `PrintLimit` of `Jiq`, in which the wake-up and the return of the handler are one, so that the module is not removed
  between them; the `kmalloc` of `scullp_follow` and `scullc_follow`, whose result the code does not test
  (`scullp/main.c:155`, `scullc/main.c:157`) and which succeeds in `PageItems`. `add_timer` on a pending
  timer (`TinyTty`, `Sbull`) sets it again, as in the kernel of that book, and is not an error.
* A read of `Seri` that fills more than its buffer is modelled as if the memory
  behind the buffer were free; the fifo calls are taken as atomic.
* The time-stamp page on the read side of shortprint, which only its interrupt handler
  and its readers use, and which `Short` shows for the same code.
* The components marked in `PROJECT.json` as not modelled: hello modules, probing of
  ports, PCI, user programs, scripts, register definitions and `usocat_in.c` (input data) have
  no state that a model would show anything about.

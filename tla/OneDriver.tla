----------------------------- MODULE OneDriver -----------------------------
(***************************************************************************)
(* The drivers that share nothing with one another: one of them is in the  *)
(* machine for a whole behaviour, the variables of the others are Off.     *)
(* Drivers says which of them are looked at.                               *)
(***************************************************************************)
EXTENDS Integers, Sequences, FiniteSets

CONSTANTS
  Drivers,              \* names of the drivers that may be loaded
  Procs,                \* the processes that use the driver
  PoolSize, Quota, Modes,                               \* Snull
  Record, Page, NrTimeval, Setups,                      \* Short
  Lines, Loops,                                         \* Jiq, Jit
  Tinys, MaxCount, XmitSize, MaxChars,                  \* TinyTty, TinySerial
  Skels, MaxUrbs,                                       \* UsbSkel
  MaxWrites,                                            \* Sleepy
  ScullpShape, ScullpWorkloads,                         \* Scullp
  ScullvShape, ScullvWorkloads,                         \* Scullv
  SculldShape, SculldWorkloads,                         \* Sculld
  Positions, Shapes,                                    \* Scullc
  Size, Writes,                                         \* Sbull
  BS, MaxBc,                                            \* Echo
  BUF_LEN, Inputs                                       \* Usocat

VARIABLES loaded,
  mode, net, next, ctx, odd, missed, fate, crashed,
  short, shortIrq, shortBh, shortReader, shortSeen,
  jiq, jiqReader, jiqSeen,
  jit, jitReader, jitSeen,
  tiny, tinyTable, driverData, tinyProc, tinySeen,
  uart, uartSeen,
  usbSkel, usbBus, usbFile, usbUrb, usbSeen,
  sleepyFlag, sleepyProc, sleepyCount, complete,
  scullp, scullpProc, scullpMap, scullpSeen,
  scullv, scullvProc, scullvMap, scullvSeen,
  sculld, sculldProc, sculldMap, sculldSeen, sculldBus,
  scullc, scullcProc, scullcSeen,
  sbull, sbullData, sbullProc, sbullSeen,
  echo, echoProc, echoSeen,
  usocat, usocatLine, usocatSeen

Off == "off"

(* The sizes are sizes; 0 stands for NULL where structures are numbered.   *)
ASSUME DriversAssumption ==
  /\ IsFiniteSet(Procs)
  /\ Skels \subseteq Nat \ {0} /\ Tinys \subseteq Nat \ {0}
  /\ {PoolSize, Record, Page, NrTimeval, XmitSize, Lines, Loops, BS, BUF_LEN} \subseteq Nat \ {0}
  /\ Quota \in Nat
  /\ Page % Record = 0 /\ Record < Page
  /\ Setups # {} /\ \A setup \in Setups : setup.readers \subseteq Procs
  /\ Inputs \subseteq Nat

Snull == INSTANCE Snull
Short == INSTANCE Short WITH Readers <- Procs
Jiq == INSTANCE Jiq WITH Readers <- Procs
Jit == INSTANCE Jit WITH Readers <- Procs
TinyTty == INSTANCE TinyTty
TinySerial == INSTANCE TinySerial
UsbSkel == INSTANCE UsbSkel WITH Files <- Procs
Sleepy == INSTANCE Sleepy
Scullp == INSTANCE Scullp WITH DefaultShape <- ScullpShape, Workloads <- ScullpWorkloads
Scullv == INSTANCE Scullv WITH DefaultShape <- ScullvShape, Workloads <- ScullvWorkloads
Sculld == INSTANCE Sculld WITH DefaultShape <- SculldShape, Workloads <- SculldWorkloads
Scullc == INSTANCE Scullc
Sbull == INSTANCE Sbull
Echo == INSTANCE Echo
Usocat == INSTANCE Usocat

(* The block layer hands sbull no write beyond the capacity that set_capacity  *)
(* gave it, and no empty segment (sbull.c:392).                                *)
ASSUME WritesAssumption ==
  /\ Size \in Nat
  /\ \A w \in Writes : /\ w.sector \in Nat /\ w.segs \in Seq(Nat \ {0}) /\ w.segs # <<>>
                      /\ Sbull!Covers(w) \subseteq Sbull!Sectors

(* Read and write divide by the sizes (scullp/main.c:186-188,                  *)
(* scullc/main.c:188-190): none is 0. The order is one that shifts to a size.  *)
Sized(shape) == shape.order \in Nat /\ {Scullp!Quantum(shape.order), shape.qset} \subseteq Nat \ {0}

ASSUME ShapesAssumption ==
  /\ \A shape \in {ScullpShape, ScullvShape, SculldShape} : Sized(shape)
  /\ \A work \in ScullpWorkloads \cup ScullvWorkloads \cup SculldWorkloads :
       work.positions \subseteq Nat /\ \A shape \in work.shapes : Sized(shape)
  /\ Positions \subseteq Nat
  /\ \A shape \in Shapes : {shape.quantum, shape.qset} \subseteq Nat \ {0}

SnullVars == <<mode, net, next, ctx, odd, missed, fate, crashed>>
ShortVars == <<short, shortIrq, shortBh, shortReader, shortSeen>>
JiqVars == <<jiq, jiqReader, jiqSeen>>
JitVars == <<jit, jitReader, jitSeen>>
TinyTtyVars == <<tiny, tinyTable, driverData, tinyProc, tinySeen>>
TinySerialVars == <<uart, uartSeen>>
UsbSkelVars == <<usbSkel, usbBus, usbFile, usbUrb, usbSeen>>
SleepyVars == <<sleepyFlag, sleepyProc, sleepyCount, complete>>
ScullpVars == <<scullp, scullpProc, scullpMap, scullpSeen>>
ScullvVars == <<scullv, scullvProc, scullvMap, scullvSeen>>
SculldVars == <<sculld, sculldProc, sculldMap, sculldSeen, sculldBus>>
ScullcVars == <<scullc, scullcProc, scullcSeen>>
SbullVars == <<sbull, sbullData, sbullProc, sbullSeen>>
EchoVars == <<echo, echoProc, echoSeen>>
UsocatVars == <<usocat, usocatLine, usocatSeen>>

SnullOff == mode = Off /\ net = Off /\ next = Off /\ ctx = Off /\ odd = Off /\ missed = Off /\ fate = Off /\ crashed = Off
ShortOff == short = Off /\ shortIrq = Off /\ shortBh = Off /\ shortReader = Off /\ shortSeen = Off
JiqOff == jiq = Off /\ jiqReader = Off /\ jiqSeen = Off
JitOff == jit = Off /\ jitReader = Off /\ jitSeen = Off
TinyTtyOff == tiny = Off /\ tinyTable = Off /\ driverData = Off /\ tinyProc = Off /\ tinySeen = Off
TinySerialOff == uart = Off /\ uartSeen = Off
UsbSkelOff == usbSkel = Off /\ usbBus = Off /\ usbFile = Off /\ usbUrb = Off /\ usbSeen = Off
SleepyOff == sleepyFlag = Off /\ sleepyProc = Off /\ sleepyCount = Off /\ complete = Off
ScullpOff == scullp = Off /\ scullpProc = Off /\ scullpMap = Off /\ scullpSeen = Off
ScullvOff == scullv = Off /\ scullvProc = Off /\ scullvMap = Off /\ scullvSeen = Off
SculldOff == sculld = Off /\ sculldProc = Off /\ sculldMap = Off /\ sculldSeen = Off /\ sculldBus = Off
ScullcOff == scullc = Off /\ scullcProc = Off /\ scullcSeen = Off
SbullOff == sbull = Off /\ sbullData = Off /\ sbullProc = Off /\ sbullSeen = Off
EchoOff == echo = Off /\ echoProc = Off /\ echoSeen = Off
UsocatOff == usocat = Off /\ usocatLine = Off /\ usocatSeen = Off

Init ==
  /\ loaded \in Drivers
  /\ IF loaded = "snull" THEN Snull!Init ELSE SnullOff
  /\ IF loaded = "short" THEN Short!Init ELSE ShortOff
  /\ IF loaded = "jiq" THEN Jiq!Init ELSE JiqOff
  /\ IF loaded = "jit" THEN Jit!Init ELSE JitOff
  /\ IF loaded = "tiny_tty" THEN TinyTty!Init ELSE TinyTtyOff
  /\ IF loaded = "tiny_serial" THEN TinySerial!Init ELSE TinySerialOff
  /\ IF loaded = "usb" THEN UsbSkel!Init ELSE UsbSkelOff
  /\ IF loaded = "sleepy" THEN Sleepy!Init ELSE SleepyOff
  /\ IF loaded = "scullp" THEN Scullp!Init ELSE ScullpOff
  /\ IF loaded = "scullv" THEN Scullv!Init ELSE ScullvOff
  /\ IF loaded = "sculld" THEN Sculld!Init ELSE SculldOff
  /\ IF loaded = "scullc" THEN Scullc!Init ELSE ScullcOff
  /\ IF loaded = "sbull" THEN Sbull!Init ELSE SbullOff
  /\ IF loaded = "echo" THEN Echo!Init ELSE EchoOff
  /\ IF loaded = "usocat" THEN Usocat!Init ELSE UsocatOff

\* The variables of every driver but one
Others(driver) ==
  /\ IF driver = "snull" THEN TRUE ELSE UNCHANGED SnullVars
  /\ IF driver = "short" THEN TRUE ELSE UNCHANGED ShortVars
  /\ IF driver = "jiq" THEN TRUE ELSE UNCHANGED JiqVars
  /\ IF driver = "jit" THEN TRUE ELSE UNCHANGED JitVars
  /\ IF driver = "tiny_tty" THEN TRUE ELSE UNCHANGED TinyTtyVars
  /\ IF driver = "tiny_serial" THEN TRUE ELSE UNCHANGED TinySerialVars
  /\ IF driver = "usb" THEN TRUE ELSE UNCHANGED UsbSkelVars
  /\ IF driver = "sleepy" THEN TRUE ELSE UNCHANGED SleepyVars
  /\ IF driver = "scullp" THEN TRUE ELSE UNCHANGED ScullpVars
  /\ IF driver = "scullv" THEN TRUE ELSE UNCHANGED ScullvVars
  /\ IF driver = "sculld" THEN TRUE ELSE UNCHANGED SculldVars
  /\ IF driver = "scullc" THEN TRUE ELSE UNCHANGED ScullcVars
  /\ IF driver = "sbull" THEN TRUE ELSE UNCHANGED SbullVars
  /\ IF driver = "echo" THEN TRUE ELSE UNCHANGED EchoVars
  /\ IF driver = "usocat" THEN TRUE ELSE UNCHANGED UsocatVars

Of(driver) == loaded = driver /\ UNCHANGED loaded /\ Others(driver)

Next ==
  \/ loaded = "snull" /\ Snull!Next /\ Of("snull")
  \/ loaded = "short" /\ Short!Next /\ Of("short")
  \/ loaded = "jiq" /\ Jiq!Next /\ Of("jiq")
  \/ loaded = "jit" /\ Jit!Next /\ Of("jit")
  \/ loaded = "tiny_tty" /\ TinyTty!Next /\ Of("tiny_tty")
  \/ loaded = "tiny_serial" /\ TinySerial!Next /\ Of("tiny_serial")
  \/ loaded = "usb" /\ UsbSkel!Next /\ Of("usb")
  \/ loaded = "sleepy" /\ Sleepy!Next /\ Of("sleepy")
  \/ loaded = "scullp" /\ Scullp!Next /\ Of("scullp")
  \/ loaded = "scullv" /\ Scullv!Next /\ Of("scullv")
  \/ loaded = "sculld" /\ Sculld!Next /\ Of("sculld")
  \/ loaded = "scullc" /\ Scullc!Next /\ Of("scullc")
  \/ loaded = "sbull" /\ Sbull!Next /\ Of("sbull")
  \/ loaded = "echo" /\ Echo!Next /\ Of("echo")
  \/ loaded = "usocat" /\ Usocat!Next /\ Of("usocat")

vars == <<loaded, SnullVars, ShortVars, JiqVars, JitVars, TinyTtyVars, TinySerialVars, UsbSkelVars, SleepyVars, ScullpVars, ScullvVars, SculldVars, ScullcVars, SbullVars, EchoVars, UsocatVars>>

Spec == Init /\ [][Next]_vars

-----------------------------------------------------------------------------
(* Properties of the drivers: each speaks of the driver, or of the kin of  *)
(* drivers, that is loaded, and is what its module states in parts.        *)

\* The packets of snull's two pools (snull.c:132-186): none is lost or in two
\* places, none is taken from an empty pool, and a queue stopped for want of
\* packets is started again. The exceptions are the windows that odd names.
PacketsKept ==
  loaded = "snull" =>
    Snull!TypeOK /\ Snull!PoolConserved /\ Snull!NeverEmpty /\ Snull!QueueWoken

\* What snull's interrupts are for (snull.c:285-416): every skb is freed once, and
\* a received packet is announced, unless it came while the poll was ending.
FramesHandled == loaded = "snull" => Snull!FreedOnce /\ Snull!PacketsAnnounced

\* A read of short's interrupt node copies bytes of the page that an interrupt
\* wrote and nobody read, and does not sleep while there are some that nobody is
\* about to announce (short.c:277-303): unless two readers counted from the same
\* tail, or the interrupts were a ring ahead.
RingRead ==
  loaded = "short" => Short!ReadInPage /\ Short!ReadWritten /\ Short!ReaderWoken

\* While short has a time stamp its bottom half is on its way to it, and it prints
\* one twice only when it was scheduled again behind it (short.c:388-434).
StampsPrinted == loaded = "short" => Short!StampsTaken /\ Short!StampsFresh

\* Somebody who sleeps in jiq, jit, sleepy or complete has a wake-up coming
\* (jiq.c:81-108, jit.c:116-190, sleepy.c:33-52), except where jiq's printing was
\* done before the sleep ("RACE", jiq.c:227) or two reads share it; and a write
\* to complete lets exactly one read return (complete.c:34-48).
WakeupsCome ==
  /\ loaded = "jiq" => Jiq!SleeperServed
  /\ loaded = "jit" => Jit!SleeperServed
  /\ loaded = "sleepy" => Sleepy!SleeperServed /\ Sleepy!OneForOne

\* jiq and jit print into the page of a read, and touch the data of one, while it
\* is there, except after a signal, beside a second read of jiq, under its
\* removal (jiq.c:254-260) and in the windows of jit.c:151 and 189.
PagesKept ==
  /\ loaded = "jiq" => Jiq!PrintsInPage
  /\ loaded = "jit" => Jit!DataKept

\* The timers of the two serial drivers: characters come, or go out once, while
\* the port is open (tiny_tty.c:76-136, tiny_serial.c:59-122), and nothing comes
\* when it is closed, outside the windows of tiny_tty.c:97, 108 and 160.
TtyTimers ==
  /\ loaded = "tiny_tty" =>
       TinyTty!ClosedQuiet /\ TinyTty!TtyAlive /\ TinyTty!CharactersCome /\ TinyTty!TimerThere
  /\ loaded = "tiny_serial" => TinySerial!SentOnce /\ TinySerial!TimerRuns

\* A usb_skel lives exactly as long as the interface or an open file has it, and
\* nobody uses one that was freed (usb-skeleton.c:57-112, 295-325).
SkelLives == loaded = "usb" => UsbSkel!NotStale /\ UsbSkel!Lifetime

\* The kin of scull stay inside their memory and forget none of it, except with
\* stale parameters (scullp/main.c:156-246, scullc/main.c:247-248, 500); what
\* scullc and sculld set up at load is there when it is used (scullc/main.c:
\* 560-597, sculld/main.c:579-628).
VariantsSound ==
  /\ loaded = "scullp" => Scullp!MemoryKept
  /\ loaded = "scullc" => Scullc!MemoryKept /\ Scullc!LoadedWhole
  /\ loaded = "sculld" => Sculld!DriverLive

\* Mapped pages are not trimmed away and unmapped ones not kept, unless a vmas++
\* or vmas-- was lost (scullp/mmap.c:37-44); and a mapping shows the page that
\* read finds, unless a trim came before vmas++ (scullp and scullv/mmap.c:76-119).
MappingsSound ==
  /\ loaded = "scullp" => Scullp!MappingsCounted /\ Scullp!SamePage
  /\ loaded = "scullv" => Scullv!SamePage

\* What was written on sbull stays there while it has a user, and its media change
\* only after the last has left (sbull.c:85-275), except for uneven bios.
DiskKept == loaded = "sbull" => Sbull!MediaKept /\ Sbull!Stored /\ Sbull!ChangeComes

\* A read of echo copies only bytes of the buffer written since the open, except
\* after a second write, a failed copy or beside another call (echo_lambidelas.c:
\* 49-67).
EchoFresh == loaded = "echo" => Echo!ReadInside /\ Echo!ReadFresh

\* usocat's bytes come out in order, none twice, and all of them, and it leaves the
\* terminal canonical, except after an error exit or an early SIGINT (usocat.c:
\* 115-198, 310-376).
UsocatSession == loaded = "usocat" => Usocat!Delivered /\ Usocat!TerminalRestored

=============================================================================

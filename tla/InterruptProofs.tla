-------------------------- MODULE InterruptProofs --------------------------
(***************************************************************************)
(* Theorems about the drivers of OneDriver that an interrupt enters or in  *)
(* which a process sleeps until somebody wakes it, for every set of        *)
(* processes and all sizes: short, whose top and bottom half fill a ring   *)
(* that processes read; snull, whose interrupts and polls hand packets     *)
(* from one device to the other; sleepy, complete, jiq and jit.            *)
(* Each has an inductive invariant, a lemma per step that disturbs it, and *)
(* what it says of the properties is at the end.                           *)
(***************************************************************************)
EXTENDS OneDriver, FiniteSetTheorems, RingTheorems, TLAPS

----------------------------------------------------------------------------
(* short                                                                   *)

ShortFields ==
  /\ DOMAIN short = {"phase", "irq", "probe", "tries", "setup", "handler", "latch",
                     "head", "tail", "tv_head", "tv_tail"}
  /\ DOMAIN shortBh = {"pc", "pending"} /\ DOMAIN shortSeen = {"backlog", "stamps", "odd"}
  /\ DOMAIN shortReader = Procs /\ \A r \in Procs : DOMAIN shortReader[r] = {"pc", "n", "woken"}
  /\ short.setup \in Setups

Raced == "raced" \in shortSeen.odd
Announced == shortIrq = "wake" \/ shortBh.pc \in {"stamp", "wake"}
Copies(call) == call.pc \in {"copy", "advance"}
Sleeps(call) == call.pc = "asleep" /\ call.woken = FALSE

(* The ring of bytes: one reader copies, from the tail and no more than there *)
(* is; who sleeps without a wake-up on its way has nothing to read.           *)
ShortPlaces ==
  /\ short.head \in 0 .. Page - 1 /\ short.head % Record = 0
  /\ short.tail \in 0 .. Page - 1 /\ shortSeen.backlog \in 0 .. Page - 1
  /\ \A r \in Procs : shortReader[r].n \in Nat /\ shortReader[r].woken \in BOOLEAN
ShortAlone ==
  \A r, q \in Procs : Copies(shortReader[r]) /\ Copies(shortReader[q]) => r = q
ShortInside == \A r \in Procs : Copies(shortReader[r]) => short.tail + shortReader[r].n <= Page
ShortBacklog ==
  "lapped" \notin shortSeen.odd =>
    /\ Filled(Page, short.tail, short.head) = shortSeen.backlog
    /\ \A r \in Procs : Copies(shortReader[r]) => shortReader[r].n <= shortSeen.backlog
ShortQuiet ==
  (\E r \in Procs : Sleeps(shortReader[r])) /\ ~Announced =>
    /\ short.head = short.tail
    /\ \A q \in Procs : Copies(shortReader[q]) => shortReader[q].n = 0
ShortRing == ShortPlaces /\ (~Raced => ShortAlone /\ ShortInside /\ ShortBacklog /\ ShortQuiet)

(* The ring of time stamps, and the bottom half that is on its way to them  *)
BhPending == shortBh.pending = TRUE
StampsCounted ==
  shortSeen.odd \cap {"tv", "stale"} = {} =>
    /\ Filled(NrTimeval, short.tv_tail, short.tv_head) = shortSeen.stamps
    /\ shortSeen.stamps > 0 => BhPending \/ shortIrq = "schedule" \/ shortBh.pc \in {"banner", "stamp"}
StampsThere ==
  shortSeen.odd \cap {"tv", "stale", "rerun"} = {} =>
    /\ BhPending \/ shortBh.pc \in {"banner", "stamp"} => shortSeen.stamps > 0
    /\ BhPending => shortBh.pc = "idle"
ShortStamps ==
  /\ short.tv_head \in 0 .. NrTimeval - 1 /\ short.tv_tail \in 0 .. NrTimeval - 1
  /\ shortSeen.stamps \in 0 .. NrTimeval - 1 /\ shortBh.pending \in BOOLEAN
  /\ StampsCounted /\ StampsThere /\ Short!StampsFresh

ShortInv == ShortFields /\ ShortRing /\ ShortStamps

(* The head stays at the start of a record: it meets the end of the page.   *)
LEMMA WholeRecords ==
  ASSUME NEW h \in 0 .. Page - 1, h % Record = 0
  PROVE  /\ h + Record <= Page
         /\ Short!Incr(h, Record) \in 0 .. Page - 1 /\ Short!Incr(h, Record) % Record = 0
<1>1. Page \in Nat /\ Record \in Nat /\ Record > 0 /\ Record < Page /\ Page % Record = 0
  BY DriversAssumption
<1>d. \A x \in Nat : x \div Record \in Nat /\ x = (Record * (x \div Record)) + (x % Record)
  BY <1>1
<1>2. PICK q \in Nat : Page = Record * q
  BY <1>1, <1>d
<1>3. PICK k \in Nat : h = Record * k
  BY <1>1, <1>d
<1>4. k + 1 <= q
  <2>1. ASSUME k >= q PROVE FALSE
    <3>1. Record * k >= Record * q
      BY <1>1, <2>1
    <3> QED  BY <1>1, <1>2, <1>3, <3>1
  <2> QED  BY <2>1
<1>5. Record * (k + 1) <= Record * q
  BY <1>1, <1>4
<1>6. Record * (k + 1) = h + Record
  BY <1>1, <1>3
<1>7. (Record * (k + 1)) % Record = 0 /\ 0 % Record = 0
  BY <1>1
<1>8. h + Record <= Page
  BY <1>2, <1>5, <1>6
<1>9. (h + Record) % Record = 0
  BY <1>6, <1>7
<1> QED  BY <1>1, <1>7, <1>8, <1>9 DEF Short!Incr

(* A record more in the ring                                               *)
LEMMA RecordPut ==
  ASSUME NEW n \in Nat, NEW d \in 1 .. n - 1, NEW t \in 0 .. n - 1, NEW h \in 0 .. n - 1,
         h + d <= n, Filled(n, t, h) + d < n
  PROVE  Filled(n, t, IF h + d >= n THEN 0 ELSE h + d) = Filled(n, t, h) + d
BY DEF Filled

(* Bytes taken up to the end of the page                                   *)
LEMMA BytesTaken ==
  ASSUME NEW n \in Nat \ {0}, NEW t \in 0 .. n - 1, NEW h \in 0 .. n - 1,
         NEW k \in 0 .. Filled(n, t, h), t + k <= n
  PROVE  Filled(n, IF t + k >= n THEN 0 ELSE t + k, h) = Filled(n, t, h) - k
BY DEF Filled

(* short as it is loaded *)
LEMMA ShortInit ==
  ASSUME Short!Init
  PROVE  ShortInv
<1>1. /\ short.head = 0 /\ short.tail = 0 /\ short.tv_head = 0 /\ short.tv_tail = 0
      /\ short.setup = CHOOSE setup \in Setups : TRUE
      /\ shortSeen.backlog = 0 /\ shortSeen.stamps = 0 /\ shortSeen.odd = {}
      /\ shortBh.pc = "idle" /\ shortBh.pending = FALSE
      /\ \A r \in Procs : shortReader[r].pc = "idle" /\ shortReader[r].n = 0 /\ shortReader[r].woken = FALSE
  BY DEF Short!Init, Short!Away
<1>2. ShortFields
  <2>1. short.setup \in Setups
    BY <1>1, DriversAssumption
  <2> QED  BY <2>1 DEF Short!Init, Short!Away, ShortFields
<1>3. Page \in Nat /\ Page > 0 /\ Record \in Nat /\ Record > 0 /\ NrTimeval \in Nat /\ NrTimeval > 0 /\ 0 % Record = 0
  BY DriversAssumption
<1>z. 0 \in 0 .. Page - 1 /\ 0 \in 0 .. NrTimeval - 1 /\ 0 \in Nat
  BY <1>3
<1>f. Filled(Page, 0, 0) = 0 /\ Filled(NrTimeval, 0, 0) = 0
  BY DEF Filled
<1>4. ShortRing
  <2>1. ShortPlaces
    BY <1>1, <1>3, <1>z, Zenon DEF ShortPlaces
  <2>2. \A r \in Procs : ~Copies(shortReader[r]) /\ ~Sleeps(shortReader[r])
    BY <1>1 DEF Copies, Sleeps
  <2>3. ShortAlone /\ ShortInside /\ ShortBacklog /\ ShortQuiet
    BY <1>1, <1>f, <2>2 DEF ShortAlone, ShortInside, ShortBacklog, ShortQuiet
  <2> QED  BY <2>1, <2>3 DEF ShortRing
<1>5. ShortStamps
  <2>1. /\ short.tv_head \in 0 .. NrTimeval - 1 /\ short.tv_tail \in 0 .. NrTimeval - 1
        /\ shortSeen.stamps \in 0 .. NrTimeval - 1 /\ shortBh.pending \in BOOLEAN /\ ~BhPending
    BY <1>1, <1>z, Zenon DEF BhPending
  <2>2. StampsCounted /\ StampsThere /\ Short!StampsFresh
    BY <1>1, <1>f, <2>1 DEF StampsCounted, StampsThere, Short!StampsFresh
  <2> QED  BY <2>1, <2>2 DEF ShortStamps
<1> QED  BY <1>2, <1>4, <1>5 DEF ShortInv

(* A step that leaves the ring of bytes and its readers *)
LEMMA RingLeft ==
  ASSUME ShortRing, short'.head = short.head, short'.tail = short.tail,
         shortSeen'.backlog = shortSeen.backlog, shortReader' = shortReader,
         "raced" \in shortSeen'.odd <=> Raced, "lapped" \in shortSeen'.odd <=> "lapped" \in shortSeen.odd,
         Announced' <=> Announced
  PROVE  ShortRing'
<1>1. ShortPlaces'
  BY DEF ShortRing, ShortPlaces
<1>2. ASSUME ~Raced' PROVE ShortAlone' /\ ShortInside' /\ ShortBacklog' /\ ShortQuiet'
  <2>1. ShortAlone /\ ShortInside /\ ShortBacklog /\ ShortQuiet
    BY <1>2 DEF ShortRing, Raced
  <2>2. ShortAlone' /\ ShortInside'
    BY <2>1 DEF ShortAlone, ShortInside
  <2>3. ShortBacklog'
    BY <2>1 DEF ShortBacklog
  <2>4. ShortQuiet'
    BY <2>1, Zenon DEF ShortQuiet
  <2> QED  BY <2>2, <2>3, <2>4
<1> QED  BY <1>1, <1>2 DEF ShortRing

(* A record that is put in the ring, and is about to be announced *)
LEMMA RingPut ==
  ASSUME ShortRing, short'.head = Short!Incr(short.head, Record), short'.tail = short.tail,
         shortReader' = shortReader, "raced" \in shortSeen'.odd <=> Raced, Announced',
         \/ "lapped" \in shortSeen'.odd /\ shortSeen'.backlog = 0
         \/ /\ "lapped" \notin shortSeen.odd
            /\ shortSeen'.backlog = shortSeen.backlog + Record /\ shortSeen.backlog + Record < Page
  PROVE  ShortRing'
<1>0. /\ ShortPlaces /\ Page \in Nat /\ Record \in 1 .. Page - 1 /\ 0 \in 0 .. Page - 1
  BY DriversAssumption DEF ShortRing
<1>h. short.head \in 0 .. Page - 1 /\ short.head % Record = 0 /\ short.tail \in 0 .. Page - 1 /\ shortSeen.backlog \in 0 .. Page - 1
  BY <1>0 DEF ShortPlaces
<1>i. /\ short.head + Record <= Page /\ Short!Incr(short.head, Record) \in 0 .. Page - 1
      /\ Short!Incr(short.head, Record) % Record = 0
  BY <1>h, WholeRecords
<1>1. ShortPlaces'
  <2>1. shortSeen'.backlog \in 0 .. Page - 1
    BY <1>0, <1>h
  <2> QED  BY <1>0, <1>i, <2>1 DEF ShortPlaces
<1>2. ASSUME ~Raced' PROVE ShortAlone' /\ ShortInside' /\ ShortBacklog' /\ ShortQuiet'
  <2>1. ShortAlone /\ ShortInside /\ ShortBacklog
    BY <1>2 DEF ShortRing, Raced
  <2>2. ShortAlone' /\ ShortInside' /\ ShortQuiet'
    BY <2>1 DEF ShortAlone, ShortInside, ShortQuiet
  <2>3. ASSUME "lapped" \notin shortSeen'.odd
        PROVE  /\ Filled(Page, short'.tail, short'.head) = shortSeen'.backlog
               /\ \A r \in Procs : Copies(shortReader'[r]) => shortReader'[r].n <= shortSeen'.backlog
    <3>1. /\ "lapped" \notin shortSeen.odd
          /\ shortSeen'.backlog = shortSeen.backlog + Record /\ shortSeen.backlog + Record < Page
      BY <2>3
    <3>2. /\ Filled(Page, short.tail, short.head) = shortSeen.backlog
          /\ \A r \in Procs : Copies(shortReader[r]) => shortReader[r].n <= shortSeen.backlog
      BY <2>1, <3>1 DEF ShortBacklog
    <3>3. Filled(Page, short.tail, IF short.head + Record >= Page THEN 0 ELSE short.head + Record)
            = Filled(Page, short.tail, short.head) + Record
      BY <1>0, <1>h, <1>i, <3>1, <3>2, RecordPut
    <3>4. Filled(Page, short'.tail, short'.head) = shortSeen'.backlog
      BY <3>1, <3>2, <3>3 DEF Short!Incr
    <3>5. ASSUME NEW r \in Procs, Copies(shortReader'[r]) PROVE shortReader'[r].n <= shortSeen'.backlog
      <4>1. shortReader[r].n <= shortSeen.backlog /\ shortReader[r].n \in Nat
        BY <1>0, <3>2, <3>5 DEF ShortPlaces
      <4> QED  BY <1>0, <1>h, <3>1, <4>1
    <3> QED  BY <3>4, <3>5
  <2>4. ShortBacklog'
    BY <2>3 DEF ShortBacklog
  <2> QED  BY <2>2, <2>4
<1> QED  BY <1>1, <1>2 DEF ShortRing

(* wake_up: nobody sleeps on *)
LEMMA RingWake ==
  ASSUME ShortRing, ShortFields, Short!Wake, short' = short, shortSeen' = shortSeen
  PROVE  /\ ShortRing' /\ DOMAIN shortReader' = Procs
         /\ \A r \in Procs : DOMAIN shortReader'[r] = {"pc", "n", "woken"}
<1>1. /\ DOMAIN shortReader' = Procs
      /\ \A r \in Procs : /\ shortReader'[r].pc = shortReader[r].pc /\ shortReader'[r].n = shortReader[r].n
                           /\ DOMAIN shortReader'[r] = {"pc", "n", "woken"}
                           /\ shortReader'[r].woken = (shortReader[r].woken \/ shortReader[r].pc \in {"retest", "asleep"})
  BY DEF Short!Wake, ShortFields
<1>2. \A r \in Procs : shortReader'[r].woken \in BOOLEAN /\ ~Sleeps(shortReader'[r])
  BY <1>1 DEF Sleeps
<1>3. ShortPlaces'
  BY <1>1, <1>2 DEF ShortRing, ShortPlaces
<1>4. \A r \in Procs : Copies(shortReader'[r]) <=> Copies(shortReader[r])
  BY <1>1 DEF Copies
<1>5. ASSUME ~Raced' PROVE ShortAlone' /\ ShortInside' /\ ShortBacklog' /\ ShortQuiet'
  <2>1. ShortAlone /\ ShortInside /\ ShortBacklog
    BY <1>5 DEF ShortRing, Raced
  <2>2. ShortAlone' /\ ShortInside'
    BY <1>1, <1>4, <2>1 DEF ShortAlone, ShortInside
  <2>3. ShortBacklog'
    BY <1>1, <1>4, <2>1 DEF ShortBacklog
  <2>4. ShortQuiet'
    BY <1>2 DEF ShortQuiet
  <2> QED  BY <2>2, <2>3, <2>4
<1> QED  BY <1>1, <1>3, <1>5 DEF ShortRing

(* A step that leaves the stamps and the bottom half *)
LEMMA StampsLeft ==
  ASSUME ShortStamps, short'.tv_head = short.tv_head, short'.tv_tail = short.tv_tail,
         shortSeen'.stamps = shortSeen.stamps, shortBh'.pending = shortBh.pending,
         shortBh'.pc \in {"banner", "stamp"} <=> shortBh.pc \in {"banner", "stamp"},
         shortBh.pc = "idle" => shortBh'.pc = "idle",
         shortIrq = "schedule" => shortIrq' = "schedule",
         shortSeen'.odd \cap {"tv", "stale", "rerun"} = shortSeen.odd \cap {"tv", "stale", "rerun"}
  PROVE  ShortStamps'
<1>1. \A o \in {"tv", "stale", "rerun"} : o \in shortSeen'.odd <=> o \in shortSeen.odd
  OBVIOUS
<1>2. BhPending' <=> BhPending
  BY DEF BhPending
<1>3. /\ short.tv_head \in 0 .. NrTimeval - 1 /\ short.tv_tail \in 0 .. NrTimeval - 1
      /\ shortSeen.stamps \in 0 .. NrTimeval - 1 /\ shortBh.pending \in BOOLEAN
      /\ StampsCounted /\ StampsThere /\ Short!StampsFresh
  BY DEF ShortStamps
<1>4. StampsCounted'
  BY <1>1, <1>2, <1>3 DEF StampsCounted
<1>5. StampsThere'
  BY <1>1, <1>2, <1>3 DEF StampsThere
<1>6. Short!StampsFresh'
  BY <1>1, <1>3 DEF Short!StampsFresh
<1> QED  BY <1>3, <1>4, <1>5, <1>6 DEF ShortStamps

(* The module, the port and the start of an interrupt *)
LEMMA ShortElsewhere ==
  ASSUME ShortInv, \/ Short!Load \/ Short!ProbeRound \/ Short!Install \/ Short!PortWrite
                   \/ Short!Toggle \/ Short!Cleanup \/ Short!Interrupt
  PROVE  ShortInv'
<1>0. ShortFields /\ ShortRing /\ ShortStamps
  BY DEF ShortInv
<1>1. /\ DOMAIN short' = DOMAIN short /\ short'.setup \in Setups
      /\ short'.head = short.head /\ short'.tail = short.tail
      /\ short'.tv_head = short.tv_head /\ short'.tv_tail = short.tv_tail
  <2>1. CASE Short!Load
    BY <1>0, <2>1 DEF ShortFields, Short!Load
  <2>2. CASE Short!ProbeRound
    BY <1>0, <2>2 DEF ShortFields, Short!ProbeRound
  <2>3. CASE Short!Install
    BY <1>0, <2>3 DEF ShortFields, Short!Install
  <2>4. CASE Short!PortWrite \/ Short!Toggle
    BY <1>0, <2>4 DEF ShortFields, Short!PortWrite, Short!Toggle
  <2>5. CASE Short!Cleanup \/ Short!Interrupt
    BY <1>0, <2>5 DEF ShortFields, Short!Cleanup, Short!Interrupt
  <2> QED  BY <2>1, <2>2, <2>3, <2>4, <2>5
<1>2. /\ shortBh' = shortBh /\ shortReader' = shortReader /\ shortSeen' = shortSeen
      /\ shortIrq' = shortIrq \/ (shortIrq = "idle" /\ shortIrq' = "record")
  BY DEF Short!Load, Short!ProbeRound, Short!Install, Short!PortWrite, Short!Toggle, Short!Cleanup, Short!Interrupt
<1>3. ShortFields'
  BY <1>0, <1>1, <1>2 DEF ShortFields
<1>4. ShortRing'
  <2>1. Announced' <=> Announced
    BY <1>2 DEF Announced
  <2> QED  BY <1>0, <1>1, <1>2, <2>1, RingLeft DEF Raced
<1>5. ShortStamps'
  BY <1>0, <1>1, <1>2, StampsLeft
<1> QED  BY <1>3, <1>4, <1>5 DEF ShortInv

(* A record by the interrupt handler, and its wake_up *)
LEMMA ShortPlain ==
  ASSUME ShortInv, Short!InterruptPut \/ Short!InterruptWake
  PROVE  ShortInv'
<1>0. ShortFields /\ ShortRing /\ ShortStamps
  BY DEF ShortInv
<1>1. CASE Short!InterruptPut
  <2>1. /\ DOMAIN short' = DOMAIN short /\ DOMAIN shortSeen' = DOMAIN shortSeen
        /\ short'.head = Short!Incr(short.head, Record) /\ short'.tail = short.tail
        /\ short'.tv_head = short.tv_head /\ short'.tv_tail = short.tv_tail /\ short'.setup = short.setup
        /\ shortSeen'.stamps = shortSeen.stamps
        /\ shortSeen'.odd = shortSeen.odd \/ shortSeen'.odd = shortSeen.odd \cup {"lapped"}
        /\ \/ "lapped" \in shortSeen'.odd /\ shortSeen'.backlog = 0
           \/ /\ "lapped" \notin shortSeen.odd
              /\ shortSeen'.backlog = shortSeen.backlog + Record /\ ~(shortSeen.backlog + Record >= Page)
        /\ shortIrq = "record" /\ shortIrq' = "wake" /\ shortBh' = shortBh /\ shortReader' = shortReader
    BY <1>0, <1>1 DEF ShortFields, Short!InterruptPut, Short!Put, Short!Odd, Short!Lapped
  <2>2. ShortFields'
    BY <1>0, <2>1 DEF ShortFields
  <2>3. Announced' /\ ("raced" \in shortSeen'.odd <=> Raced)
    BY <2>1 DEF Announced, Raced
  <2>4. ShortRing'
    <3>1. \/ "lapped" \in shortSeen'.odd /\ shortSeen'.backlog = 0
          \/ /\ "lapped" \notin shortSeen.odd
             /\ shortSeen'.backlog = shortSeen.backlog + Record /\ shortSeen.backlog + Record < Page
      <4>1. shortSeen.backlog \in Nat /\ Record \in Nat /\ Page \in Nat
        BY <1>0, DriversAssumption DEF ShortRing, ShortPlaces
      <4> QED  BY <2>1, <4>1
    <3>2. short'.head = Short!Incr(short.head, Record) /\ short'.tail = short.tail /\ shortReader' = shortReader
      BY <2>1
    <3> QED  BY <1>0, <2>3, <3>1, <3>2, RingPut
  <2>5. ShortStamps'
    BY <1>0, <2>1, StampsLeft
  <2> QED  BY <2>2, <2>4, <2>5 DEF ShortInv
<1>2. CASE Short!InterruptWake
  <2>1. Short!Wake /\ short' = short /\ shortSeen' = shortSeen /\ shortBh' = shortBh /\ shortIrq = "wake"
    BY <1>2 DEF Short!InterruptWake
  <2>2. ShortRing' /\ ShortFields'
    BY <1>0, <2>1, RingWake DEF ShortFields
  <2>3. ShortStamps'
    BY <1>0, <2>1, StampsLeft
  <2> QED  BY <2>2, <2>3 DEF ShortInv
<1> QED  BY <1>1, <1>2

(* The top half: a stamp, and the bottom half is scheduled. *)
LEMMA ShortTop ==
  ASSUME ShortInv, Short!TopHalf \/ Short!Schedule
  PROVE  ShortInv'
<1>0. ShortFields /\ ShortRing /\ ShortStamps
  BY DEF ShortInv
<1>s. /\ short.tv_head \in 0 .. NrTimeval - 1 /\ short.tv_tail \in 0 .. NrTimeval - 1
      /\ shortSeen.stamps \in 0 .. NrTimeval - 1 /\ shortBh.pending \in BOOLEAN
      /\ StampsCounted /\ StampsThere /\ Short!StampsFresh
      /\ NrTimeval \in Nat \ {0} /\ 0 \in 0 .. NrTimeval - 1
  BY <1>0, DriversAssumption DEF ShortStamps
<1>1. CASE Short!TopHalf
  <2> DEFINE after == (short.tv_head + 1) % NrTimeval
             lap == Short!TvLapped \/ shortSeen.stamps + 1 >= NrTimeval
  <2>1. /\ DOMAIN short' = DOMAIN short /\ DOMAIN shortSeen' = DOMAIN shortSeen
        /\ short'.head = short.head /\ short'.tail = short.tail /\ short'.setup = short.setup
        /\ short'.tv_head = after /\ short'.tv_tail = short.tv_tail
        /\ shortSeen'.backlog = shortSeen.backlog
        /\ shortSeen'.odd = (IF lap THEN shortSeen.odd \cup {"tv"} ELSE shortSeen.odd)
        /\ shortSeen'.stamps = (IF lap THEN 0 ELSE shortSeen.stamps + 1)
        /\ shortIrq = "idle" /\ shortIrq' = "schedule" /\ shortBh' = shortBh /\ shortReader' = shortReader
    BY <1>0, <1>1 DEF ShortFields, Short!TopHalf, Short!Odd, Short!NextTv
  <2>2. ShortFields'
    BY <1>0, <2>1 DEF ShortFields
  <2>3. ShortRing'
    <3>1. Announced' <=> Announced
      BY <2>1 DEF Announced
    <3>2. ("raced" \in shortSeen'.odd <=> Raced) /\ ("lapped" \in shortSeen'.odd <=> "lapped" \in shortSeen.odd)
      BY <2>1 DEF Raced
    <3> QED  BY <1>0, <2>1, <3>1, <3>2, RingLeft
  <2> DEFINE filled == Filled(NrTimeval, short.tv_tail, short.tv_head)
  <2>4. /\ after \in 0 .. NrTimeval - 1 /\ filled \in Nat /\ filled <= NrTimeval - 1
        /\ after # short.tv_tail => Filled(NrTimeval, short.tv_tail, after) = filled + 1
        /\ after = short.tv_tail => filled = NrTimeval - 1
    BY <1>s, OnePlace, Zenon
  <2>5. CASE lap
    <3>1. shortSeen'.stamps = 0 /\ "tv" \in shortSeen'.odd /\ shortSeen.odd \subseteq shortSeen'.odd
          /\ ("stale" \in shortSeen'.odd <=> "stale" \in shortSeen.odd)
          /\ ("rerun" \in shortSeen'.odd <=> "rerun" \in shortSeen.odd)
      BY <2>1, <2>5
    <3>2. StampsCounted' /\ StampsThere'
      BY <3>1 DEF StampsCounted, StampsThere
    <3>3. Short!StampsFresh'
      BY <1>s, <3>1 DEF Short!StampsFresh
    <3> QED  BY <1>s, <2>1, <2>2, <2>3, <2>4, <3>1, <3>2, <3>3 DEF ShortInv, ShortStamps
  <2>6. CASE ~lap
    <3>1. /\ shortSeen'.stamps = shortSeen.stamps + 1 /\ shortSeen'.odd = shortSeen.odd
          /\ ~(shortSeen.stamps + 1 >= NrTimeval)
      BY <2>1, <2>6
    <3>2. shortSeen'.stamps \in 0 .. NrTimeval - 1 /\ shortSeen'.stamps > 0
      BY <1>s, <3>1
    <3>3. StampsCounted'
      <4>1. ASSUME shortSeen'.odd \cap {"tv", "stale"} = {}
            PROVE  Filled(NrTimeval, short'.tv_tail, short'.tv_head) = shortSeen'.stamps
        <5>1. filled = shortSeen.stamps
          BY <1>s, <3>1, <4>1 DEF StampsCounted
        <5>2. after # short.tv_tail
          BY <1>s, <2>4, <3>1, <5>1
        <5> HIDE DEF after, filled
        <5> QED  BY <2>1, <2>4, <3>1, <5>1, <5>2
      <4> QED  BY <2>1, <4>1 DEF StampsCounted
    <3>4. StampsThere'
      <4>1. (BhPending' <=> BhPending) /\ shortBh'.pc = shortBh.pc
        BY <2>1 DEF BhPending
      <4> QED  BY <1>s, <3>1, <3>2, <4>1 DEF StampsThere
    <3>5. Short!StampsFresh'
      BY <1>s, <3>1 DEF Short!StampsFresh
    <3> QED  BY <1>s, <2>1, <2>2, <2>3, <2>4, <3>2, <3>3, <3>4, <3>5 DEF ShortInv, ShortStamps
  <2> QED  BY <2>5, <2>6
<1>2. CASE Short!Schedule
  <2>1. /\ DOMAIN shortBh' = DOMAIN shortBh /\ DOMAIN shortSeen' = DOMAIN shortSeen
        /\ shortBh'.pc = shortBh.pc /\ shortBh'.pending = TRUE /\ short' = short /\ shortReader' = shortReader
        /\ shortIrq = "schedule" /\ shortIrq' = "idle"
        /\ shortSeen'.backlog = shortSeen.backlog /\ shortSeen'.stamps = shortSeen.stamps
        /\ shortSeen'.odd = IF ~Short!TvLapped /\ (shortBh.pc # "idle" \/ shortSeen.stamps = 0)
                            THEN shortSeen.odd \cup {"rerun"} ELSE shortSeen.odd
    BY <1>0, <1>2 DEF ShortFields, Short!Schedule, Short!Odd
  <2>2. ShortFields'
    BY <1>0, <2>1 DEF ShortFields
  <2>3. ShortRing'
    <3>1. Announced' <=> Announced
      BY <2>1 DEF Announced
    <3>2. ("raced" \in shortSeen'.odd <=> Raced) /\ ("lapped" \in shortSeen'.odd <=> "lapped" \in shortSeen.odd)
      BY <2>1 DEF Raced
    <3> QED  BY <1>0, <2>1, <3>1, <3>2, RingLeft
  <2>4. BhPending' /\ shortBh'.pending \in BOOLEAN
    BY <2>1 DEF BhPending
  <2>5. StampsCounted'
    BY <1>s, <2>1, <2>4 DEF StampsCounted
  <2>6. StampsThere'
    <3>1. ASSUME shortSeen'.odd \cap {"tv", "stale", "rerun"} = {} PROVE shortBh.pc = "idle" /\ shortSeen.stamps > 0
      BY <1>s, <2>1, <3>1 DEF Short!TvLapped
    <3> QED  BY <2>1, <3>1 DEF StampsThere
  <2>7. Short!StampsFresh'
    BY <1>s, <2>1 DEF Short!StampsFresh
  <2> QED  BY <1>s, <2>1, <2>2, <2>3, <2>4, <2>5, <2>6, <2>7 DEF ShortInv, ShortStamps
<1> QED  BY <1>1, <1>2

(* The bottom half starts, prints its banner, and wakes the readers. *)
LEMMA ShortBottom ==
  ASSUME ShortInv, Short!BhStart \/ Short!BhBanner \/ Short!BhWake
  PROVE  ShortInv'
<1>0. ShortFields /\ ShortRing /\ ShortStamps
  BY DEF ShortInv
<1>s. /\ short.tv_head \in 0 .. NrTimeval - 1 /\ short.tv_tail \in 0 .. NrTimeval - 1
      /\ shortSeen.stamps \in 0 .. NrTimeval - 1 /\ shortBh.pending \in BOOLEAN
      /\ StampsCounted /\ StampsThere /\ Short!StampsFresh
  BY <1>0 DEF ShortStamps
<1>1. CASE Short!BhStart
  <2>1. /\ shortBh.pc = "idle" /\ BhPending /\ DOMAIN shortBh' = DOMAIN shortBh
        /\ shortBh'.pc = "banner" /\ shortBh'.pending = FALSE
        /\ UNCHANGED <<short, shortIrq, shortReader, shortSeen>>
    BY <1>0, <1>s, <1>1 DEF ShortFields, Short!BhStart, BhPending
  <2>2. ShortFields'
    BY <1>0, <2>1 DEF ShortFields
  <2>3. ShortRing'
    <3>1. Announced' <=> Announced
      BY <2>1 DEF Announced
    <3> QED  BY <1>0, <2>1, <3>1, RingLeft DEF Raced
  <2>4. ~BhPending' /\ shortBh'.pending \in BOOLEAN
    BY <2>1 DEF BhPending
  <2>5. StampsCounted' /\ StampsThere' /\ Short!StampsFresh'
    BY <1>s, <2>1, <2>4 DEF StampsCounted, StampsThere, Short!StampsFresh
  <2> QED  BY <1>s, <2>1, <2>2, <2>3, <2>4, <2>5 DEF ShortInv, ShortStamps
<1>2. CASE Short!BhBanner
  <2>1. /\ DOMAIN short' = DOMAIN short /\ DOMAIN shortSeen' = DOMAIN shortSeen /\ DOMAIN shortBh' = DOMAIN shortBh
        /\ short'.head = Short!Incr(short.head, Record) /\ short'.tail = short.tail
        /\ short'.tv_head = short.tv_head /\ short'.tv_tail = short.tv_tail /\ short'.setup = short.setup
        /\ shortSeen'.stamps = shortSeen.stamps
        /\ shortSeen'.odd = shortSeen.odd \/ shortSeen'.odd = shortSeen.odd \cup {"lapped"}
        /\ \/ "lapped" \in shortSeen'.odd /\ shortSeen'.backlog = 0
           \/ /\ "lapped" \notin shortSeen.odd
              /\ shortSeen'.backlog = shortSeen.backlog + Record /\ ~(shortSeen.backlog + Record >= Page)
        /\ shortBh.pc = "banner" /\ shortBh'.pc = "stamp" /\ shortBh'.pending = shortBh.pending
        /\ shortIrq' = shortIrq /\ shortReader' = shortReader
    BY <1>0, <1>2 DEF ShortFields, Short!BhBanner, Short!Put, Short!Odd, Short!Lapped
  <2>2. ShortFields'
    BY <1>0, <2>1 DEF ShortFields
  <2>3. Announced' /\ ("raced" \in shortSeen'.odd <=> Raced)
    BY <2>1 DEF Announced, Raced
  <2>4. ShortRing'
    <3>1. \/ "lapped" \in shortSeen'.odd /\ shortSeen'.backlog = 0
          \/ /\ "lapped" \notin shortSeen.odd
             /\ shortSeen'.backlog = shortSeen.backlog + Record /\ shortSeen.backlog + Record < Page
      <4>1. shortSeen.backlog \in Nat /\ Record \in Nat /\ Page \in Nat
        BY <1>0, DriversAssumption DEF ShortRing, ShortPlaces
      <4> QED  BY <2>1, <4>1
    <3>2. short'.head = Short!Incr(short.head, Record) /\ short'.tail = short.tail /\ shortReader' = shortReader
      BY <2>1
    <3> QED  BY <1>0, <2>3, <3>1, <3>2, RingPut
  <2>5. ShortStamps'
    BY <1>0, <2>1, StampsLeft
  <2> QED  BY <2>2, <2>4, <2>5 DEF ShortInv
<1>3. CASE Short!BhWake
  <2>1. /\ Short!Wake /\ short' = short /\ shortSeen' = shortSeen /\ shortIrq' = shortIrq
        /\ DOMAIN shortBh' = DOMAIN shortBh
        /\ shortBh.pc = "wake" /\ shortBh'.pc = "idle" /\ shortBh'.pending = shortBh.pending
    BY <1>0, <1>3 DEF Short!BhWake, ShortFields
  <2>2. ShortRing' /\ ShortFields'
    BY <1>0, <2>1, RingWake DEF ShortFields
  <2>3. ShortStamps'
    BY <1>0, <2>1, StampsLeft
  <2> QED  BY <2>2, <2>3 DEF ShortInv
<1> QED  BY <1>1, <1>2, <1>3

(* The bottom half prints a stamp; it stops at the head. *)
LEMMA ShortStamp ==
  ASSUME ShortInv, Short!BhStamp
  PROVE  ShortInv'
<1>0. ShortFields /\ ShortRing /\ ShortStamps
  BY DEF ShortInv
<1>s. /\ short.tv_head \in 0 .. NrTimeval - 1 /\ short.tv_tail \in 0 .. NrTimeval - 1
      /\ shortSeen.stamps \in 0 .. NrTimeval - 1 /\ shortBh.pending \in BOOLEAN
      /\ StampsCounted /\ StampsThere /\ Short!StampsFresh
      /\ NrTimeval \in Nat \ {0} /\ 0 \in 0 .. NrTimeval - 1
  BY <1>0, DriversAssumption DEF ShortStamps
<1> DEFINE after == (short.tv_tail + 1) % NrTimeval
           lap == Short!Lapped \/ shortSeen.backlog + Record >= Page
           stale == shortSeen.stamps = 0 /\ ~Short!TvLapped
<1>1. /\ DOMAIN short' = DOMAIN short /\ DOMAIN shortSeen' = DOMAIN shortSeen /\ DOMAIN shortBh' = DOMAIN shortBh
      /\ short'.head = Short!Incr(short.head, Record) /\ short'.tail = short.tail
      /\ short'.tv_head = short.tv_head /\ short'.tv_tail = after /\ short'.setup = short.setup
      /\ shortSeen'.stamps = (IF shortSeen.stamps = 0 THEN 0 ELSE shortSeen.stamps - 1)
      /\ shortSeen'.backlog = (IF lap THEN 0 ELSE shortSeen.backlog + Record)
      /\ shortSeen'.odd = shortSeen.odd \cup (IF lap THEN {"lapped"} ELSE {}) \cup (IF stale THEN {"stale"} ELSE {})
      /\ shortBh.pc = "stamp" /\ shortBh'.pending = shortBh.pending
      /\ shortBh'.pc = (IF after = short.tv_head THEN "wake" ELSE "stamp")
      /\ shortIrq' = shortIrq /\ shortReader' = shortReader
  BY <1>0 DEF ShortFields, Short!BhStamp, Short!NextTv
<1>2. ShortFields'
  BY <1>0, <1>1 DEF ShortFields
<1>3. ShortRing'
  <2>1. /\ "raced" \in shortSeen'.odd <=> Raced
        /\ Announced'
    BY <1>1 DEF Announced, Raced
  <2>2. \/ "lapped" \in shortSeen'.odd /\ shortSeen'.backlog = 0
        \/ /\ "lapped" \notin shortSeen.odd
           /\ shortSeen'.backlog = shortSeen.backlog + Record /\ shortSeen.backlog + Record < Page
    <3>1. shortSeen.backlog \in Nat /\ Record \in Nat /\ Page \in Nat
      BY <1>0, DriversAssumption DEF ShortRing, ShortPlaces
    <3>2. CASE lap
      BY <1>1, <3>2
    <3>3. CASE ~lap
      BY <1>1, <3>1, <3>3 DEF Short!Lapped
    <3> QED  BY <3>2, <3>3
  <2>3. short'.head = Short!Incr(short.head, Record) /\ short'.tail = short.tail /\ shortReader' = shortReader
    BY <1>1
  <2> QED  BY <1>0, <2>1, <2>2, <2>3, RingPut
<1> DEFINE filled == Filled(NrTimeval, short.tv_tail, short.tv_head)
<1>t. (short.tv_tail + 1) % NrTimeval \in 0 .. NrTimeval - 1
  BY <1>s, OnePlace, Zenon
<1>o. ASSUME NEW r \in 0 .. NrTimeval - 1, NEW w \in 0 .. NrTimeval - 1
      PROVE  /\ r = w <=> Filled(NrTimeval, r, w) = 0
             /\ r # w => Filled(NrTimeval, (r + 1) % NrTimeval, w) = Filled(NrTimeval, r, w) - 1
             /\ Filled(NrTimeval, r, w) \in Nat /\ Filled(NrTimeval, r, w) <= NrTimeval - 1
  <2>1. NrTimeval \in Nat \ {0}
    BY <1>s
  <2>2. (r = w <=> Filled(NrTimeval, r, w) = 0)
    BY <2>1, OnePlace
  <2>3. r # w => Filled(NrTimeval, (r + 1) % NrTimeval, w) = Filled(NrTimeval, r, w) - 1
    BY <2>1, OnePlace
  <2>4. Filled(NrTimeval, r, w) \in Nat /\ Filled(NrTimeval, r, w) <= NrTimeval - 1
    BY <2>1, OnePlace
  <2> QED  BY <2>2, <2>3, <2>4, Zenon
<1>4. /\ after \in 0 .. NrTimeval - 1 /\ filled \in Nat /\ filled <= NrTimeval - 1
      /\ short.tv_tail = short.tv_head <=> filled = 0
  BY <1>s, <1>t, <1>o, Zenon
<1>5. short.tv_tail # short.tv_head => Filled(NrTimeval, after, short.tv_head) = filled - 1
  BY <1>s, <1>o, Zenon
<1>6. after = short.tv_head <=> Filled(NrTimeval, after, short.tv_head) = 0
  <2> HIDE DEF after
  <2> QED  BY <1>s, <1>4, OnePlace
<1>7. shortSeen'.stamps \in 0 .. NrTimeval - 1
  BY <1>s, <1>1
<1>8. \A o \in {"tv", "rerun"} : o \in shortSeen'.odd <=> o \in shortSeen.odd
  BY <1>1
<1>9. (BhPending' <=> BhPending) /\ shortBh'.pending \in BOOLEAN
  BY <1>s, <1>1 DEF BhPending
<1>10. CASE shortSeen.stamps = 0
  <2>1. shortSeen.odd \cap {"tv", "stale"} # {} \/ "rerun" \in shortSeen.odd
    BY <1>s, <1>1, <1>10 DEF StampsThere
  <2>2. shortSeen'.odd \cap {"tv", "stale"} # {}
    BY <1>1, <1>10 DEF Short!TvLapped
  <2>3. StampsCounted' /\ StampsThere'
    BY <2>2 DEF StampsCounted, StampsThere
  <2>4. Short!StampsFresh'
    <3>1. CASE "tv" \in shortSeen.odd
      BY <1>s, <1>1, <3>1 DEF Short!StampsFresh, Short!TvLapped
    <3>2. CASE "tv" \notin shortSeen.odd
      BY <1>s, <1>8, <2>1, <3>2 DEF Short!StampsFresh
    <3> QED  BY <3>1, <3>2
  <2> QED  BY <1>2, <1>3, <1>4, <1>1, <1>s, <1>7, <1>9, <2>3, <2>4 DEF ShortInv, ShortStamps
<1>11. CASE shortSeen.stamps # 0
  <2>1. /\ shortSeen'.stamps = shortSeen.stamps - 1
        /\ "stale" \in shortSeen'.odd <=> "stale" \in shortSeen.odd
    BY <1>1, <1>11
  <2>2. Short!StampsFresh'
    BY <1>s, <1>8, <2>1 DEF Short!StampsFresh
  <2>3. ASSUME shortSeen'.odd \cap {"tv", "stale"} = {}
        PROVE  /\ Filled(NrTimeval, after, short.tv_head) = shortSeen'.stamps
               /\ shortBh'.pc = IF shortSeen'.stamps = 0 THEN "wake" ELSE "stamp"
    <3>1. filled = shortSeen.stamps
      BY <1>s, <1>8, <2>1, <2>3 DEF StampsCounted
    <3> HIDE DEF after, filled
    <3>2. short.tv_tail # short.tv_head
      BY <1>4, <1>11, <3>1
    <3>3. Filled(NrTimeval, after, short.tv_head) = shortSeen'.stamps
      BY <1>5, <2>1, <3>1, <3>2
    <3> QED  BY <1>1, <1>6, <3>3
  <2>4. StampsCounted'
    <3>1. shortSeen'.stamps > 0 => shortSeen'.stamps # 0
      OBVIOUS
    <3> HIDE DEF after
    <3> QED  BY <1>1, <2>3, <3>1 DEF StampsCounted
  <2>5. StampsThere'
    <3>1. ASSUME shortSeen'.odd \cap {"tv", "stale", "rerun"} = {}
          PROVE  ~BhPending' /\ (shortBh'.pc \in {"banner", "stamp"} => shortSeen'.stamps > 0)
      <4>1. ~BhPending
        BY <1>s, <1>1, <1>8, <2>1, <3>1 DEF StampsThere
      <4>2. shortBh'.pc = IF shortSeen'.stamps = 0 THEN "wake" ELSE "stamp"
        BY <2>3, <3>1
      <4> QED  BY <1>7, <1>9, <4>1, <4>2
    <3> QED  BY <3>1 DEF StampsThere
  <2> QED  BY <1>2, <1>3, <1>4, <1>1, <1>s, <1>7, <1>9, <2>2, <2>4, <2>5 DEF ShortInv, ShortStamps
<1> QED  BY <1>10, <1>11

(* One reader goes on, and takes nothing from the ring. What it may know of *)
(* the ring where it copies or sleeps is for the caller to show.            *)
LEMMA ReaderStep ==
  ASSUME ShortInv, NEW r \in Procs, NEW rec, shortReader' = [shortReader EXCEPT ![r] = rec],
         DOMAIN rec = {"pc", "n", "woken"}, rec.n \in Nat, rec.woken \in BOOLEAN,
         UNCHANGED <<short, shortIrq, shortBh>>,
         DOMAIN shortSeen' = DOMAIN shortSeen, shortSeen'.backlog = shortSeen.backlog,
         shortSeen'.stamps = shortSeen.stamps,
         shortSeen'.odd = shortSeen.odd \/ shortSeen'.odd = shortSeen.odd \cup {"raced"},
         Copies(rec) /\ ~Raced' =>
           /\ \A q \in Procs \ {r} : ~Copies(shortReader[q])
           /\ short.tail + rec.n <= Page
           /\ "lapped" \notin shortSeen.odd => rec.n <= shortSeen.backlog
           /\ (\E q \in Procs : Sleeps(shortReader[q])) /\ ~Announced => rec.n = 0,
         Sleeps(rec) /\ ~Raced' =>
           /\ short.head = short.tail
           /\ \A q \in Procs \ {r} : ~Copies(shortReader[q])
  PROVE  ShortInv'
<1>0. ShortFields /\ ShortRing /\ ShortStamps
  BY DEF ShortInv
<1>1. /\ shortReader'[r] = rec /\ \A q \in Procs \ {r} : shortReader'[q] = shortReader[q]
      /\ DOMAIN shortReader' = Procs
  BY <1>0 DEF ShortFields
<1>2. ShortFields'
  BY <1>0, <1>1 DEF ShortFields
<1>3. Announced' <=> Announced
  BY DEF Announced
<1>4. (Raced => Raced') /\ ("lapped" \in shortSeen'.odd <=> "lapped" \in shortSeen.odd)
  BY DEF Raced
<1>5. ShortPlaces'
  <2>1. \A q \in Procs : shortReader'[q].n \in Nat /\ shortReader'[q].woken \in BOOLEAN
    BY <1>0, <1>1 DEF ShortRing, ShortPlaces
  <2> QED  BY <1>0, <2>1 DEF ShortRing, ShortPlaces
<1>6. ASSUME ~Raced' PROVE ShortAlone' /\ ShortInside' /\ ShortBacklog' /\ ShortQuiet'
  <2>0. ShortAlone /\ ShortInside /\ ShortBacklog /\ ShortQuiet
    BY <1>0, <1>4, <1>6 DEF ShortRing
  <2>1. ShortAlone'
    <3>1. ASSUME NEW p \in Procs, NEW q \in Procs, Copies(shortReader'[p]), Copies(shortReader'[q]), p # q
          PROVE  FALSE
      <4>1. CASE p # r /\ q # r
        BY <1>1, <2>0, <3>1, <4>1, Zenon DEF ShortAlone
      <4>2. CASE p = r
        BY <1>1, <1>6, <3>1, <4>2
      <4>3. CASE q = r
        BY <1>1, <1>6, <3>1, <4>3
      <4> QED  BY <4>1, <4>2, <4>3
    <3> QED  BY <3>1, Zenon DEF ShortAlone
  <2>2. ShortInside'
    <3>1. ASSUME NEW q \in Procs, Copies(shortReader'[q]) PROVE short.tail + shortReader'[q].n <= Page
      BY <1>1, <1>6, <2>0, <3>1 DEF ShortInside
    <3> QED  BY <3>1 DEF ShortInside
  <2>3. ShortBacklog'
    <3>1. ASSUME "lapped" \notin shortSeen.odd, NEW q \in Procs, Copies(shortReader'[q])
          PROVE  shortReader'[q].n <= shortSeen.backlog
      BY <1>1, <1>6, <2>0, <3>1 DEF ShortBacklog
    <3> QED  BY <1>4, <2>0, <3>1 DEF ShortBacklog
  <2>4. ShortQuiet'
    <3>1. ASSUME NEW p \in Procs, Sleeps(shortReader'[p]), ~Announced
          PROVE  /\ short.head = short.tail
                 /\ \A q \in Procs : Copies(shortReader'[q]) => shortReader'[q].n = 0
      <4>1. CASE p = r
        <5>1. short.head = short.tail /\ (\A q \in Procs \ {r} : ~Copies(shortReader[q])) /\ ~Copies(rec)
          BY <1>1, <1>6, <3>1, <4>1 DEF Sleeps, Copies
        <5> QED  BY <1>1, <5>1
      <4>2. CASE p # r
        <5>1. Sleeps(shortReader[p])
          BY <1>1, <3>1, <4>2
        <5>2. short.head = short.tail /\ \A q \in Procs : Copies(shortReader[q]) => shortReader[q].n = 0
          BY <2>0, <3>1, <5>1, Zenon DEF ShortQuiet
        <5> QED  BY <1>1, <1>6, <3>1, <5>1, <5>2
      <4> QED  BY <4>1, <4>2
    <3> QED  BY <1>3, <3>1, Zenon DEF ShortQuiet
  <2> QED  BY <2>1, <2>2, <2>3, <2>4
<1>7. ShortRing'
  BY <1>5, <1>6 DEF ShortRing
<1>8. ShortStamps'
  BY <1>0, StampsLeft
<1> QED  BY <1>2, <1>7, <1>8 DEF ShortInv

(* A reader takes what it copied. *)
LEMMA ReaderTakes ==
  ASSUME ShortInv, NEW r \in Procs, Short!ReadAdvance(r)
  PROVE  ShortInv'
<1>0. ShortFields /\ ShortRing /\ ShortStamps
  BY DEF ShortInv
<1> DEFINE n == shortReader[r].n
<1>p. /\ ShortPlaces /\ Page \in Nat \ {0} /\ 0 \in 0 .. Page - 1 /\ Record \in Nat /\ 0 \in Nat
  BY <1>0, DriversAssumption DEF ShortRing
<1>h. /\ short.head \in 0 .. Page - 1 /\ short.tail \in 0 .. Page - 1 /\ shortSeen.backlog \in 0 .. Page - 1 /\ n \in Nat
  BY <1>p DEF ShortPlaces
<1>1. /\ DOMAIN short' = DOMAIN short /\ DOMAIN shortSeen' = DOMAIN shortSeen
      /\ short'.head = short.head /\ short'.tail = Short!Incr(short.tail, n) /\ short'.setup = short.setup
      /\ short'.tv_head = short.tv_head /\ short'.tv_tail = short.tv_tail
      /\ shortSeen'.backlog = (IF n > shortSeen.backlog THEN 0 ELSE shortSeen.backlog - n)
      /\ shortSeen'.stamps = shortSeen.stamps /\ shortSeen'.odd = shortSeen.odd
      /\ UNCHANGED <<shortIrq, shortBh>>
  BY <1>0 DEF ShortFields, Short!ReadAdvance
<1>2. /\ Copies(shortReader[r]) /\ DOMAIN shortReader' = Procs
      /\ shortReader'[r] = [pc |-> "idle", n |-> 0, woken |-> FALSE]
      /\ \A q \in Procs \ {r} : shortReader'[q] = shortReader[q]
  BY <1>0 DEF ShortFields, Short!ReadAdvance, Short!ReaderAt, Short!ReaderTo, Short!Away, Copies
<1>3. ShortFields'
  BY <1>0, <1>1, <1>2 DEF ShortFields
<1>4. ShortPlaces'
  <2>1. short'.tail \in 0 .. Page - 1 /\ shortSeen'.backlog \in 0 .. Page - 1
    BY <1>p, <1>h, <1>1 DEF Short!Incr
  <2>2. \A q \in Procs : shortReader'[q].n \in Nat /\ shortReader'[q].woken \in BOOLEAN
    <3>1. shortReader'[r].n \in Nat /\ shortReader'[r].woken \in BOOLEAN
      <4>1. shortReader'[r].n = 0 /\ shortReader'[r].woken = FALSE
        BY <1>2
      <4>2. 0 \in Nat /\ FALSE \in BOOLEAN
        OBVIOUS
      <4> QED  BY <4>1, <4>2, Zenon
    <3>2. \A q \in Procs \ {r} : shortReader'[q].n \in Nat /\ shortReader'[q].woken \in BOOLEAN
      BY <1>p, <1>2 DEF ShortPlaces
    <3> QED  BY <3>1, <3>2
  <2> QED  BY <1>p, <1>1, <2>1, <2>2 DEF ShortPlaces
<1>5. ASSUME ~Raced' PROVE ShortAlone' /\ ShortInside' /\ ShortBacklog' /\ ShortQuiet'
  <2>0. ShortAlone /\ ShortInside /\ ShortBacklog /\ ShortQuiet
    BY <1>0, <1>1, <1>5 DEF ShortRing, Raced
  <2>1. \A q \in Procs : ~Copies(shortReader'[q])
    <3>1. ~Copies(shortReader'[r])
      BY <1>2 DEF Copies
    <3>2. \A q \in Procs \ {r} : ~Copies(shortReader[q])
      BY <1>2, <2>0 DEF ShortAlone
    <3> QED  BY <1>2, <3>1, <3>2
  <2>2. ShortAlone' /\ ShortInside'
    BY <2>1 DEF ShortAlone, ShortInside
  <2>3. ShortBacklog'
    <3>1. ASSUME "lapped" \notin shortSeen.odd
          PROVE  Filled(Page, short'.tail, short'.head) = shortSeen'.backlog
      <4>1. n <= shortSeen.backlog /\ Filled(Page, short.tail, short.head) = shortSeen.backlog /\ short.tail + n <= Page
        BY <1>2, <2>0, <3>1 DEF ShortBacklog, ShortInside
      <4>2. n \in 0 .. Filled(Page, short.tail, short.head)
        BY <1>h, <4>1
      <4> HIDE DEF n
      <4>3. Filled(Page, IF short.tail + n >= Page THEN 0 ELSE short.tail + n, short.head)
              = Filled(Page, short.tail, short.head) - n
        BY <1>p, <1>h, <4>1, <4>2, BytesTaken
      <4>4. shortSeen'.backlog = shortSeen.backlog - n
        BY <1>1, <1>h, <4>1
      <4> QED  BY <1>1, <4>1, <4>3, <4>4 DEF Short!Incr
    <3> QED  BY <1>1, <2>1, <3>1 DEF ShortBacklog
  <2>4. ShortQuiet'
    <3>1. ASSUME NEW p \in Procs, Sleeps(shortReader'[p]), ~Announced'
          PROVE  short'.head = short'.tail
      <4>1. p # r /\ Sleeps(shortReader[p]) /\ ~Announced
        BY <1>1, <1>2, <3>1 DEF Sleeps, Announced
      <4>2. short.head = short.tail /\ n = 0
        BY <1>2, <2>0, <4>1 DEF ShortQuiet
      <4>3. Short!Incr(short.tail, n) = short.tail
        BY <1>p, <1>h, <4>2 DEF Short!Incr
      <4> QED  BY <1>1, <4>2, <4>3
    <3> QED  BY <2>1, <3>1, Zenon DEF ShortQuiet
  <2> QED  BY <2>2, <2>3, <2>4
<1>6. ShortRing'
  BY <1>4, <1>5 DEF ShortRing
<1>7. ShortStamps'
  BY <1>0, <1>1, StampsLeft
<1> QED  BY <1>3, <1>6, <1>7 DEF ShortInv

(* short_i_read, up to what it takes *)
LEMMA ShortReads ==
  ASSUME ShortInv, NEW r \in Procs,
         \/ Short!ReadTest(r) \/ Short!ReadPrepare(r) \/ Short!ReadRetest(r)
         \/ Short!ReadWoken(r) \/ Short!ReadCount(r) \/ Short!ReadCopy(r)
  PROVE  ShortInv'
<1>0. ShortFields /\ ShortRing
  BY DEF ShortInv
<1>r. /\ DOMAIN shortReader[r] = {"pc", "n", "woken"} /\ shortReader[r].n \in Nat /\ shortReader[r].woken \in BOOLEAN
      /\ DOMAIN shortReader = Procs /\ 0 \in Nat /\ FALSE \in BOOLEAN /\ TRUE \in BOOLEAN
  BY <1>0 DEF ShortFields, ShortRing, ShortPlaces
<1>h. /\ short.head \in 0 .. Page - 1 /\ short.tail \in 0 .. Page - 1 /\ shortSeen.backlog \in 0 .. Page - 1 /\ Page \in Nat
  BY <1>0, DriversAssumption DEF ShortRing, ShortPlaces
\* Steps to where a reader neither copies nor sleeps
<1>q. ASSUME NEW rec, shortReader' = [shortReader EXCEPT ![r] = rec], DOMAIN rec = {"pc", "n", "woken"},
             rec.n \in Nat, rec.woken \in BOOLEAN, rec.pc \notin {"copy", "advance", "asleep"},
             UNCHANGED <<short, shortIrq, shortBh, shortSeen>>
      PROVE  ShortInv'
  <2>1. ~Copies(rec) /\ ~Sleeps(rec)
    BY <1>q DEF Copies, Sleeps
  <2> QED  BY <1>q, <2>1, ReaderStep
<1>a. DOMAIN Short!Away = {"pc", "n", "woken"} /\ Short!Away.n = 0 /\ Short!Away.woken = FALSE
  BY DEF Short!Away
<1>1. CASE Short!ReadTest(r)
  <2> DEFINE rec == [shortReader[r] EXCEPT !.pc = IF short.head = short.tail THEN "prepare" ELSE "count"]
  <2>1. shortReader' = [shortReader EXCEPT ![r] = rec] /\ UNCHANGED <<short, shortIrq, shortBh, shortSeen>>
    BY <1>1, <1>r DEF Short!ReadTest, Short!ReaderTo
  <2>2. /\ DOMAIN rec = {"pc", "n", "woken"} /\ rec.n = shortReader[r].n /\ rec.woken = shortReader[r].woken
        /\ rec.pc \in {"prepare", "count"}
    BY <1>r
  <2> HIDE DEF rec
  <2> QED  BY <1>q, <1>r, <2>1, <2>2
<1>2. CASE Short!ReadPrepare(r)
  <2> DEFINE rec == [shortReader[r] EXCEPT !.pc = "retest", !.woken = FALSE]
  <2>1. shortReader' = [shortReader EXCEPT ![r] = rec] /\ UNCHANGED <<short, shortIrq, shortBh, shortSeen>>
    BY <1>2, <1>r DEF Short!ReadPrepare
  <2>2. /\ DOMAIN rec = {"pc", "n", "woken"} /\ rec.n = shortReader[r].n /\ rec.woken = FALSE
        /\ rec.pc = "retest"
    BY <1>r
  <2> HIDE DEF rec
  <2> QED  BY <1>q, <1>r, <2>1, <2>2
<1>3. CASE Short!ReadRetest(r)
  <2> DEFINE some == short.head # short.tail
             rec == [shortReader[r] EXCEPT !.pc = "asleep", !.woken = @ \/ some]
  <2>1. /\ shortReader' = [shortReader EXCEPT ![r] = rec] /\ UNCHANGED <<short, shortIrq, shortBh>>
        /\ DOMAIN shortSeen' = DOMAIN shortSeen /\ shortSeen'.backlog = shortSeen.backlog
        /\ shortSeen'.stamps = shortSeen.stamps
        /\ shortSeen'.odd = shortSeen.odd \/ shortSeen'.odd = shortSeen.odd \cup {"raced"}
    BY <1>0, <1>3, <1>r DEF Short!ReadRetest, Short!Odd, ShortFields
  <2>2. ~Raced' => \A q \in Procs \ {r} : ~Copies(shortReader[q])
    BY <1>0, <1>3 DEF Short!ReadRetest, Short!Odd, Short!Busy, Copies, Raced, ShortFields
  <2>3. /\ DOMAIN rec = {"pc", "n", "woken"} /\ rec.n = shortReader[r].n /\ rec.woken = (shortReader[r].woken \/ some)
        /\ rec.pc = "asleep"
    BY <1>r
  <2>4. (some => rec.woken = TRUE) /\ rec.woken \in BOOLEAN
    BY <1>r, <2>3
  <2> HIDE DEF rec
  <2>5. ~Copies(rec) /\ (Sleeps(rec) => short.head = short.tail)
    BY <2>3, <2>4 DEF Copies, Sleeps
  <2> HIDE DEF some
  <2> QED  BY <1>r, <2>1, <2>2, <2>3, <2>4, <2>5, ReaderStep
<1>4. CASE Short!ReadWoken(r)
  <2>1. CASE Short!ReaderTo(r, "test")
    <3> DEFINE rec == [Short!Away EXCEPT !.pc = "test"]
    <3>1. shortReader' = [shortReader EXCEPT ![r] = rec] /\ UNCHANGED <<short, shortIrq, shortBh, shortSeen>>
      BY <1>4, <1>r, <2>1 DEF Short!ReadWoken, Short!ReaderTo
    <3>2. DOMAIN rec = {"pc", "n", "woken"} /\ rec.n = 0 /\ rec.woken = FALSE /\ rec.pc = "test"
      BY <1>a
    <3> HIDE DEF rec
    <3> QED  BY <1>q, <1>r, <3>1, <3>2
  <2>2. CASE Short!ReaderTo(r, "idle")
    <3> DEFINE rec == [Short!Away EXCEPT !.pc = "idle"]
    <3>1. shortReader' = [shortReader EXCEPT ![r] = rec] /\ UNCHANGED <<short, shortIrq, shortBh, shortSeen>>
      BY <1>4, <1>r, <2>2 DEF Short!ReadWoken, Short!ReaderTo
    <3>2. DOMAIN rec = {"pc", "n", "woken"} /\ rec.n = 0 /\ rec.woken = FALSE /\ rec.pc = "idle"
      BY <1>a
    <3> HIDE DEF rec
    <3> QED  BY <1>q, <1>r, <3>1, <3>2
  <2> QED  BY <1>4, <2>1, <2>2 DEF Short!ReadWoken
<1>5. CASE Short!ReadCount(r)
  <2> DEFINE count0 == IF short.head < short.tail THEN Page - short.tail ELSE short.head - short.tail
  <2>1. PICK n \in 0 .. count0 : shortReader' = [shortReader EXCEPT ![r] = [Short!Away EXCEPT !.pc = "copy", !.n = n]]
    BY <1>5, Zenon DEF Short!ReadCount
  <2>2. /\ UNCHANGED <<short, shortIrq, shortBh>>
        /\ DOMAIN shortSeen' = DOMAIN shortSeen /\ shortSeen'.backlog = shortSeen.backlog
        /\ shortSeen'.stamps = shortSeen.stamps
        /\ shortSeen'.odd = shortSeen.odd \/ shortSeen'.odd = shortSeen.odd \cup {"raced"}
    BY <1>0, <1>5 DEF Short!ReadCount, Short!Odd, ShortFields
  <2>3. ~Raced' => \A q \in Procs \ {r} : ~Copies(shortReader[q])
    BY <1>0, <1>5 DEF Short!ReadCount, Short!Odd, Short!Busy, Copies, Raced, ShortFields
  <2>4. /\ n \in Nat /\ short.tail + n <= Page /\ n <= Filled(Page, short.tail, short.head)
        /\ short.head = short.tail => n = 0
    BY <1>h, <2>1 DEF Filled
  <2> DEFINE rec == [Short!Away EXCEPT !.pc = "copy", !.n = n]
  <2>5. DOMAIN rec = {"pc", "n", "woken"} /\ rec.n = n /\ rec.woken = FALSE /\ rec.pc = "copy"
    BY <1>a DEF Short!Away
  <2>6. shortReader' = [shortReader EXCEPT ![r] = rec]
    BY <2>1
  <2> HIDE DEF rec, count0
  <2>7. ~Sleeps(rec)
    BY <2>5 DEF Sleeps
  <2>8. ~Raced' => ShortBacklog /\ ShortQuiet
    BY <1>0, <2>2 DEF ShortRing, Raced
  <2>9. ~Raced' => /\ "lapped" \notin shortSeen.odd => n <= shortSeen.backlog
                   /\ (\E q \in Procs : Sleeps(shortReader[q])) /\ ~Announced => n = 0
    BY <2>4, <2>8 DEF ShortBacklog, ShortQuiet
  <2> QED  BY <1>r, <2>2, <2>3, <2>4, <2>5, <2>6, <2>7, <2>9, ReaderStep
<1>6. CASE Short!ReadCopy(r)
  <2>1. CASE Short!ReaderTo(r, "advance")
    <3> DEFINE rec == [shortReader[r] EXCEPT !.pc = "advance"]
    <3>1. /\ shortReader' = [shortReader EXCEPT ![r] = rec] /\ UNCHANGED <<short, shortIrq, shortBh, shortSeen>>
          /\ shortReader[r].pc = "copy"
      BY <1>6, <1>r, <2>1 DEF Short!ReadCopy, Short!ReaderTo, Short!ReaderAt
    <3>2. /\ DOMAIN rec = {"pc", "n", "woken"} /\ rec.n = shortReader[r].n /\ rec.woken = shortReader[r].woken
          /\ rec.pc = "advance"
      BY <1>r
    <3> HIDE DEF rec
    <3>3. ~Sleeps(rec) /\ Copies(shortReader[r])
      BY <3>1, <3>2 DEF Sleeps, Copies
    <3>4. ~Raced' => ShortAlone /\ ShortInside /\ ShortBacklog /\ ShortQuiet
      BY <1>0, <3>1 DEF ShortRing, Raced
    <3>5. ~Raced' =>
            /\ \A q \in Procs \ {r} : ~Copies(shortReader[q])
            /\ short.tail + rec.n <= Page
            /\ "lapped" \notin shortSeen.odd => rec.n <= shortSeen.backlog
            /\ (\E q \in Procs : Sleeps(shortReader[q])) /\ ~Announced => rec.n = 0
      BY <3>2, <3>3, <3>4 DEF ShortAlone, ShortInside, ShortBacklog, ShortQuiet
    <3> QED  BY <1>r, <3>1, <3>2, <3>3, <3>5, ReaderStep
  <2>2. CASE Short!ReaderTo(r, "idle")
    <3> DEFINE rec == [Short!Away EXCEPT !.pc = "idle"]
    <3>1. shortReader' = [shortReader EXCEPT ![r] = rec] /\ UNCHANGED <<short, shortIrq, shortBh, shortSeen>>
      BY <1>6, <1>r, <2>2 DEF Short!ReadCopy, Short!ReaderTo
    <3>2. DOMAIN rec = {"pc", "n", "woken"} /\ rec.n = 0 /\ rec.woken = FALSE /\ rec.pc = "idle"
      BY <1>a
    <3> HIDE DEF rec
    <3> QED  BY <1>q, <1>r, <3>1, <3>2
  <2> QED  BY <1>6, <2>1, <2>2 DEF Short!ReadCopy
<1> QED  BY <1>1, <1>2, <1>3, <1>4, <1>5, <1>6

(* Every step of short *)
LEMMA ShortNext ==
  ASSUME ShortInv, Short!Next
  PROVE  ShortInv'
<1>1. ASSUME NEW r \in short.setup.readers,
             \/ Short!ReadTest(r) \/ Short!ReadPrepare(r) \/ Short!ReadRetest(r) \/ Short!ReadWoken(r)
             \/ Short!ReadCount(r) \/ Short!ReadCopy(r) \/ Short!ReadAdvance(r)
      PROVE  ShortInv'
  <2>1. r \in Procs
    BY DriversAssumption DEF ShortInv, ShortFields
  <2> QED  BY <1>1, <2>1, ShortReads, ReaderTakes
<1> QED  BY <1>1, ShortElsewhere, ShortPlain, ShortTop, ShortBottom, ShortStamp, Zenon DEF Short!Next

(* And those of other drivers *)
LEMMA ShortStutter ==
  ASSUME ShortInv, UNCHANGED ShortVars
  PROVE  ShortInv'
<1>1. /\ short' = short /\ shortIrq' = shortIrq /\ shortBh' = shortBh
      /\ shortReader' = shortReader /\ shortSeen' = shortSeen
  BY DEF ShortVars
<1>2. ShortFields'
  BY <1>1 DEF ShortInv, ShortFields
<1>3. Announced' <=> Announced
  BY <1>1 DEF Announced
<1>4. ShortRing'
  BY <1>1, <1>3, RingLeft DEF ShortInv, Raced
<1>5. ShortStamps'
  BY <1>1, StampsLeft DEF ShortInv
<1> QED  BY <1>2, <1>4, <1>5 DEF ShortInv

(* What the invariant says of reads and of stamps *)
LEMMA ShortSafe ==
  ASSUME ShortInv
  PROVE  /\ Short!ReadInPage /\ Short!ReadWritten /\ Short!ReaderWoken
         /\ Short!StampsTaken /\ Short!StampsFresh
<1>0. ShortRing /\ ShortStamps
  BY DEF ShortInv
<1>1. \A r \in Procs : Short!ReaderAt(r, "copy") => Copies(shortReader[r])
  BY DEF Short!ReaderAt, Copies
<1>2. ~Raced => ShortInside /\ ShortBacklog /\ ShortQuiet
  BY <1>0 DEF ShortRing
<1>3. Short!ReadInPage
  BY <1>1, <1>2 DEF Short!ReadInPage, ShortInside, Raced
<1>4. Short!ReadWritten
  <2>1. Page \in Nat \ {0} /\ short.head \in 0 .. Page - 1 /\ short.tail \in 0 .. Page - 1
    BY <1>0, DriversAssumption DEF ShortRing, ShortPlaces
  <2>2. (short.head - short.tail) % Page = Filled(Page, short.tail, short.head)
    <3>1. ASSUME NEW r \in 0 .. Page - 1, NEW w \in 0 .. Page - 1 PROVE (w - r) % Page = Filled(Page, r, w)
      BY <2>1, OnePlace
    <3> QED  BY <2>1, <3>1, Zenon
  <2> QED  BY <1>1, <1>2, <2>2 DEF Short!ReadWritten, ShortBacklog, Raced
<1>5. Short!ReaderWoken
  <2>1. ASSUME NEW r \in Procs, Short!ReaderAt(r, "asleep"), short.head # short.tail, ~Raced
        PROVE  shortReader[r].woken \/ shortIrq = "wake" \/ shortBh.pc \in {"stamp", "wake"}
    <3>1. shortReader[r].woken \in BOOLEAN
      BY <1>0 DEF ShortRing, ShortPlaces
    <3>2. Sleeps(shortReader[r]) => Announced
      BY <1>2, <2>1 DEF ShortQuiet
    <3>3. Sleeps(shortReader[r]) \/ shortReader[r].woken
      BY <2>1, <3>1 DEF Sleeps, Short!ReaderAt
    <3> QED  BY <3>2, <3>3 DEF Announced
  <2> QED  BY <2>1 DEF Short!ReaderWoken, Raced
<1>6. Short!StampsTaken
  BY <1>0 DEF ShortStamps, StampsCounted, BhPending, Short!StampsTaken
<1> QED  BY <1>0, <1>3, <1>4, <1>5, <1>6 DEF ShortStamps

----------------------------------------------------------------------------
(* snull *)

(* The n members of S are linked by links into a list that starts at head: *)
(* f counts them from the last one.                                        *)
Linked(S, head, links, n, f) ==
  /\ f \in [1..n -> S]
  /\ \A k \in S : \E i \in 1..n : f[i] = k
  /\ \A i, j \in 1..n : f[i] = f[j] => i = j
  /\ head = IF n = 0 THEN Snull!NULL ELSE f[n]
  /\ \A i \in 1..n : links[f[i]] = IF i = 1 THEN Snull!NULL ELSE f[i - 1]
  /\ Snull!NULL \notin S

(* The packets S are the list from head.                                  *)
List(S, head, links) == \E n \in Nat : \E f : Linked(S, head, links, n, f)

(* A head that is NULL starts the empty list.                             *)
LEMMA ListEmpty ==
  ASSUME NEW links
  PROVE  List({}, Snull!NULL, links)
<1> DEFINE f == [i \in 1..0 |-> 0]
<1>1. f \in [1..0 -> {}]
  OBVIOUS
<1>2. Linked({}, Snull!NULL, links, 0, f)
  BY <1>1 DEF Linked
<1> QED  BY <1>2 DEF List

(* The head of a list is in it, and is NULL only if nothing is.           *)
LEMMA ListHead ==
  ASSUME NEW S, NEW head, NEW links, List(S, head, links)
  PROVE  IF head = Snull!NULL THEN S = {} ELSE head \in S
<1>01. PICK n \in Nat : \E f : Linked(S, head, links, n, f)
  BY DEF List
<1>1. PICK f : Linked(S, head, links, n, f)
  BY <1>01
<1>2. CASE n = 0
  BY <1>1, <1>2 DEF Linked
<1>3. CASE n # 0
  <2>1. n \in 1..n /\ f[n] \in S /\ head = f[n]
    BY <1>1, <1>3 DEF Linked
  <2> QED  BY <1>1, <2>1 DEF Linked
<1> QED  BY <1>2, <1>3

(* A list stays what it is while nobody writes the links of its members.  *)
LEMMA ListKept ==
  ASSUME NEW S, NEW head, NEW links, NEW new, List(S, head, links),
         \A k \in S : new[k] = links[k]
  PROVE  List(S, head, new)
<1>01. PICK n \in Nat : \E f : Linked(S, head, links, n, f)
  BY DEF List
<1>1. PICK f : Linked(S, head, links, n, f)
  BY <1>01
<1>2. Linked(S, head, new, n, f)
  BY <1>1 DEF Linked
<1> QED  BY <1>2 DEF List

(* A packet put before the head is in front of the list (snull.c:150-158, *)
(* 163-172).                                                              *)
LEMMA ListPush ==
  ASSUME NEW S, NEW head, NEW links, NEW new, List(S, head, links), NEW k, k \notin S, k # Snull!NULL,
         \A j \in S : new[j] = links[j], new[k] = head
  PROVE  List(S \cup {k}, k, new)
<1>01. PICK n \in Nat : \E f : Linked(S, head, links, n, f)
  BY DEF List
<1>1. PICK f : Linked(S, head, links, n, f)
  BY <1>01
<1> DEFINE g == [i \in 1..n + 1 |-> IF i = n + 1 THEN k ELSE f[i]]
<1>0. \A i \in 1..n : i \in 1..n + 1 /\ i # n + 1 /\ g[i] = f[i] /\ f[i] \in S
  BY <1>1 DEF Linked
<1>00. n + 1 \in 1..n + 1 /\ g[n + 1] = k /\ \A i \in 1..n + 1 : i = n + 1 \/ i \in 1..n
  OBVIOUS
<1>2. g \in [1..n + 1 -> S \cup {k}]
  BY <1>0, <1>00, Zenon
<1> HIDE DEF g
<1>3. \A j \in S \cup {k} : \E i \in 1..n + 1 : g[i] = j
  <2>1. \A j \in S : \E i \in 1..n : f[i] = j
    BY <1>1 DEF Linked
  <2> QED  BY <1>0, <1>00, <2>1
<1>4. \A i, j \in 1..n + 1 : g[i] = g[j] => i = j
  <2>1. \A i, j \in 1..n : f[i] = f[j] => i = j
    BY <1>1 DEF Linked
  <2> QED  BY <1>0, <1>00, <2>1
<1>5. \A i \in 1..n + 1 : new[g[i]] = IF i = 1 THEN Snull!NULL ELSE g[i - 1]
  <2> SUFFICES ASSUME NEW i \in 1..n + 1 PROVE new[g[i]] = IF i = 1 THEN Snull!NULL ELSE g[i - 1]
    OBVIOUS
  <2>1. CASE i = n + 1
    <3>1. head = IF n = 0 THEN Snull!NULL ELSE f[n]
      BY <1>1 DEF Linked
    <3>2. n # 0 => n \in 1..n /\ g[n] = f[n]
      BY <1>0
    <3> QED  BY <2>1, <1>00, <3>1, <3>2
  <2>2. CASE i \in 1..n
    <3>1. links[f[i]] = IF i = 1 THEN Snull!NULL ELSE f[i - 1]
      BY <2>2, <1>1 DEF Linked
    <3>2. i # 1 => i - 1 \in 1..n /\ g[i - 1] = f[i - 1]
      BY <2>2, <1>0
    <3>3. g[i] = f[i] /\ new[f[i]] = links[f[i]]
      BY <2>2, <1>0
    <3> QED  BY <3>1, <3>2, <3>3
  <2> QED  BY <2>1, <2>2, <1>00
<1>6. Snull!NULL \notin S \cup {k}
  BY <1>1 DEF Linked
<1>7. Linked(S \cup {k}, k, new, n + 1, g)
  BY <1>00, <1>2, <1>3, <1>4, <1>5, <1>6 DEF Linked
<1> QED  BY <1>7 DEF List

(* Without its head, a list goes on where the head pointed                *)
(* (snull.c:132-147, 174-186).                                            *)
LEMMA ListPop ==
  ASSUME NEW S, NEW head, NEW links, List(S, head, links), head # Snull!NULL
  PROVE  List(S \ {head}, links[head], links)
<1>01. PICK n \in Nat : \E f : Linked(S, head, links, n, f)
  BY DEF List
<1>1. PICK f : Linked(S, head, links, n, f)
  BY <1>01
<1>2. n # 0 /\ n \in 1..n /\ head = f[n] /\ n - 1 \in Nat
  BY <1>1 DEF Linked
<1> DEFINE m == n - 1
           g == [i \in 1..m |-> f[i]]
<1>3. \A i \in 1..m : i \in 1..n /\ i # n /\ g[i] = f[i] /\ f[i] \in S /\ f[i] # f[n]
  BY <1>1, <1>2 DEF Linked
<1>4. \A i \in 1..n : i = n \/ i \in 1..m
  BY <1>2
<1>5. g \in [1..m -> S \ {head}]
  BY <1>3, <1>2
<1> HIDE DEF g
<1>6. \A j \in S \ {head} : \E i \in 1..m : g[i] = j
  <2>1. \A j \in S : \E i \in 1..n : f[i] = j
    BY <1>1 DEF Linked
  <2> QED  BY <1>2, <1>3, <1>4, <2>1
<1>7. \A i, j \in 1..m : g[i] = g[j] => i = j
  <2>1. \A i, j \in 1..n : f[i] = f[j] => i = j
    BY <1>1 DEF Linked
  <2> QED  BY <1>3, <2>1
<1>8. links[head] = IF m = 0 THEN Snull!NULL ELSE g[m]
  <2>1. links[f[n]] = IF n = 1 THEN Snull!NULL ELSE f[n - 1]
    BY <1>1, <1>2 DEF Linked
  <2>2. m # 0 => m \in 1..m
    BY <1>2
  <2> QED  BY <1>2, <1>3, <2>1, <2>2
<1>9. \A i \in 1..m : links[g[i]] = IF i = 1 THEN Snull!NULL ELSE g[i - 1]
  <2> SUFFICES ASSUME NEW i \in 1..m PROVE links[g[i]] = IF i = 1 THEN Snull!NULL ELSE g[i - 1]
    OBVIOUS
  <2>1. links[f[i]] = IF i = 1 THEN Snull!NULL ELSE f[i - 1]
    BY <1>3, <1>1, Zenon DEF Linked
  <2>2. i # 1 => i - 1 \in 1..m
    BY <1>2
  <2> QED  BY <1>3, <2>1, <2>2
<1>10. Linked(S \ {head}, links[head], links, m, g)
  <2>1. Snull!NULL \notin S \ {head}
    BY <1>1 DEF Linked
  <2> QED  BY <1>5, <1>6, <1>7, <1>8, <1>9, <2>1 DEF Linked
<1> QED  BY <1>2, <1>10 DEF List


(* A list has as many members as its numbering says.                      *)
LEMMA ListCounted ==
  ASSUME NEW S, NEW n \in Nat, NEW f, NEW head, NEW links, Linked(S, head, links, n, f)
  PROVE  IsFiniteSet(S) /\ Cardinality(S) = n
<1>1. f \in [1..n -> S] /\ (\A k \in S : \E i \in 1..n : f[i] = k)
      /\ (\A i, j \in 1..n : f[i] = f[j] => i = j)
  BY DEF Linked
<1>2. f \in Injection(1..n, S) /\ f \in Surjection(1..n, S)
  BY <1>1 DEF Injection, Surjection, IsInjective
<1>3. f \in Bijection(1..n, S)
  BY <1>2 DEF Bijection
<1>4. ExistsBijection(1..n, S)
  BY <1>3 DEF ExistsBijection
<1> QED  BY <1>4, FS_CountingElements, FS_NatBijection

(* The packets that Listed finds are those of the list, when they are not  *)
(* more than it looks at.                                                  *)
LEMMA ListListed ==
  ASSUME NEW S, NEW head, List(S, head, next), IsFiniteSet(S),
         Cardinality(S) =< 2 * PoolSize, 2 * PoolSize \in Nat
  PROVE  Snull!Listed(head) = S
<1>01. PICK n \in Nat : \E f : Linked(S, head, next, n, f)
  BY DEF List
<1>1. PICK f : Linked(S, head, next, n, f)
  BY <1>01
<1>2. n =< 2 * PoolSize
  BY <1>1, ListCounted
<1> DEFINE M == 2 * PoolSize
           null == Snull!NULL
           Eq(w) == w = [i \in 0..M |-> IF i = 0 THEN head
                                        ELSE IF w[i - 1] = null THEN null ELSE next[w[i - 1]]]
           g == [i \in 0..M |-> IF i < n THEN f[n - i] ELSE null]
           walk == CHOOSE w : Eq(w)
<1>5. Snull!Listed(head) = {walk[i] : i \in 0..M} \ {null}
  BY DEF Snull!Listed
<1> HIDE DEF walk
<1>22. M \in Nat /\ n =< M
  BY <1>2
<1> HIDE DEF M, null
<1>3. \A i \in 0..M : i < n => n - i \in 1..n /\ g[i] = f[n - i] /\ g[i] # null /\ g[i] \in S
  BY <1>1 DEF Linked, null
<1>4. \A i \in 0..M : ~(i < n) => g[i] = null
  OBVIOUS
<1> HIDE DEF g
<1>6. 0 \in 0..M /\ g[0] = head
  <2>1. head = IF n = 0 THEN null ELSE f[n]
    BY <1>1 DEF Linked, null
  <2> QED  BY <1>3, <1>4, <1>22, <2>1
<1>7. \A i \in 1..M : g[i] = IF g[i - 1] = null THEN null ELSE next[g[i - 1]]
  <2> SUFFICES ASSUME NEW i \in 1..M
               PROVE  g[i] = IF g[i - 1] = null THEN null ELSE next[g[i - 1]]
    OBVIOUS
  <2>0. i - 1 \in 0..M /\ i \in 0..M
    BY <1>22
  <2>1. CASE i - 1 < n
    <3>1. n - (i - 1) \in 1..n /\ g[i - 1] = f[n - (i - 1)] /\ g[i - 1] # null
      BY <2>0, <2>1, <1>3
    <3>2. next[f[n - (i - 1)]] = IF n - (i - 1) = 1 THEN null ELSE f[(n - (i - 1)) - 1]
      BY <1>1, <3>1 DEF Linked, null
    <3>3. (n - (i - 1)) - 1 = n - i
      BY <2>0, <1>22
    <3>4. CASE i < n
      <4>1. g[i] = f[n - i] /\ n - (i - 1) # 1
        BY <1>3, <2>0, <3>4
      <4> QED  BY <4>1, <3>1, <3>2, <3>3
    <3>5. CASE ~(i < n)
      <4>1. g[i] = null /\ n - (i - 1) = 1
        BY <1>4, <2>0, <2>1, <3>5
      <4> QED  BY <4>1, <3>1, <3>2
    <3> QED  BY <3>4, <3>5
  <2>2. CASE ~(i - 1 < n)
    BY <2>0, <2>2, <1>4
  <2> QED  BY <2>1, <2>2
<1>8. Eq(g)
  <2> DEFINE h == [i \in 0..M |-> IF i = 0 THEN head
                                  ELSE IF g[i - 1] = null THEN null ELSE next[g[i - 1]]]
  <2>1. g = [i \in 0..M |-> g[i]]
    BY DEF g
  <2>2. \A i \in 0..M : g[i] = h[i]
    <3>1. \A i \in 0..M : i = 0 \/ i \in 1..M
      BY <1>22
    <3> QED  BY <1>6, <1>7, <3>1
  <2>3. h = [i \in 0..M |-> h[i]]
    OBVIOUS
  <2> HIDE DEF h
  <2>4. g = h
    BY <2>1, <2>2, <2>3
  <2> QED  BY <2>4, Zenon DEF h
<1>9. Eq(walk)
  <2> HIDE DEF Eq
  <2> QED  BY <1>8, Zenon DEF walk
<1>10. walk[0] = head /\ \A i \in 1..M : walk[i] = IF walk[i - 1] = null THEN null ELSE next[walk[i - 1]]
  <2> DEFINE h == [i \in 0..M |-> IF i = 0 THEN head
                                  ELSE IF walk[i - 1] = null THEN null ELSE next[walk[i - 1]]]
  <2>1. walk = h
    BY <1>9, Zenon
  <2>2. h[0] = head
    BY <1>6
  <2>3. ASSUME NEW i \in 1..M
        PROVE  h[i] = IF walk[i - 1] = null THEN null ELSE next[walk[i - 1]]
    <3>1. i \in 0..M /\ i # 0
      BY <1>22
    <3> QED  BY <3>1
  <2> HIDE DEF h
  <2> QED  BY <2>1, <2>2, <2>3, Zenon
<1> DEFINE T == {i \in 0..M : walk[i] # g[i]}
<1>11. T = {}
  <2>1. SUFFICES ASSUME T # {} PROVE FALSE
    OBVIOUS
  <2>2. PICK i \in T : \A j \in T : i =< j
    <3>1. T \subseteq Nat
      OBVIOUS
    <3> HIDE DEF T
    <3> QED  BY <2>1, <3>1, LeastOf, Zenon
  <2>3. i # 0 /\ i \in 1..M /\ i - 1 \in 0..M /\ i - 1 \notin T
    BY <2>2, <1>6, <1>10, <1>22
  <2>4. walk[i - 1] = g[i - 1]
    BY <2>3
  <2>5. walk[i] = g[i]
    BY <1>7, <1>10, <2>3, <2>4
  <2> QED  BY <2>2, <2>5
<1>12. \A i \in 0..M : walk[i] = g[i]
  BY <1>11
<1> HIDE DEF T, Eq
<1>13. \A i \in 0..M : walk[i] = null \/ walk[i] \in S
  BY <1>3, <1>4, <1>12
<1>14. null \notin S
  BY <1>1 DEF Linked, null
<1>15. ASSUME NEW k \in S PROVE \E i \in 0..M : walk[i] = k
  <2>1. PICK i \in 1..n : f[i] = k
    BY <1>1 DEF Linked
  <2>2. n - i \in 0..M /\ n - i < n /\ n - (n - i) = i
    BY <1>22
  <2>3. g[n - i] = f[i]
    BY <1>3, <2>2
  <2> QED  BY <1>12, <2>1, <2>2, <2>3
<1> QED  BY <1>5, <1>13, <1>14, <1>15

(* Where snull_tx, snull_poll and the interrupts can be, and what the     *)
(* fields of a device and of a context hold.                              *)
SnullCalls == {"idle", "get", "enqueue", "enabled", "rx_read", "rx_write", "rx_int", "tx_read",
               "tx_write", "tx_int", "hang", "to_int", "to_wake", "release", "wake"}
PollCalls == {"idle", "test", "dequeue", "release", "wake", "end", "complete", "enable"}

SnullNet ==
  [ppool : Snull!Packets \cup {Snull!NULL}, rx_queue : Snull!Packets \cup {Snull!NULL},
   status : SUBSET {"rx", "tx"}, rx_int : BOOLEAN, skb : BOOLEAN, stopped : BOOLEAN,
   sched : BOOLEAN, up : BOOLEAN, gone : BOOLEAN]
SnullCtx ==
  [pc : SnullCalls \cup PollCalls, pkt : Snull!Packets \cup {Snull!NULL}, tmp : SUBSET {"rx", "tx"},
   back : {"idle", "to_wake", "tx_read", "test"}, n : 0..Quota]

NetTyped == net \in [Snull!Devices -> SnullNet]
CtxTyped == ctx \in [Snull!Contexts -> SnullCtx]

SnullTypes ==
  /\ NetTyped /\ CtxTyped
  /\ next \in [Snull!Packets -> Snull!Packets \cup {Snull!NULL}]
  /\ odd \in {"no", "hung", "forced"}
  /\ missed \subseteq Snull!Devices

(* The two contexts of device d, whether one is about to free a packet,   *)
(* and the packets of the device.                                         *)
Tx(d) == ctx[<<"tx", d>>]
Poll(d) == ctx[<<"poll", d>>]
Buffer(c) == c.pc \in {"release", "wake"}
Mine(d) == {d} \X (1..PoolSize)

(* What a context has at hand where it is: its packet, the place snull_tx   *)
(* goes on after the interrupt, and an open queue while it takes a packet.  *)
TxWhere(d) ==
  /\ Tx(d).pc \in SnullCalls
  /\ Buffer(Tx(d)) => Tx(d).back \in {"idle", "to_wake", "tx_read"} /\ Tx(d).pkt \in Snull!Packets
  /\ Tx(d).pc = "enqueue" => Tx(d).pkt \in Mine(d)
  /\ Tx(d).pc = "get" => ~net[d].stopped
  /\ Tx(d).pc \in {"to_int", "to_wake"} \/ (Buffer(Tx(d)) /\ Tx(d).back = "to_wake") => odd = "forced"

(* Only NAPI schedules the poll, and what the poll saw in the queue nobody  *)
(* else takes.                                                              *)
PollWhere(d) ==
  /\ Poll(d).pc \in PollCalls
  /\ Buffer(Poll(d)) => Poll(d).back = "test" /\ Poll(d).pkt \in Snull!Packets
  /\ Poll(d).pc = "dequeue" => net[d].rx_queue # Snull!NULL /\ Poll(d).n < Quota
  /\ Poll(d).pc # "idle" \/ net[d].sched => mode.napi

(* Both devices are unregistered at once, when nothing runs               *)
(* (snull.c:690-703).                                                     *)
AllGone ==
  \A d \in Snull!Devices : net[d].gone =>
    \A e \in Snull!Devices : /\ net[e].gone /\ ~net[e].up /\ ~net[e].sched
                             /\ Tx(e).pc = "idle" /\ Poll(e).pc = "idle"

SnullWhere == AllGone /\ \A d \in Snull!Devices : TxWhere(d) /\ PollWhere(d)

(* A context that has a packet for itself: it took it and has not yet put *)
(* it anywhere.                                                           *)
Holds(c) == ctx[c].pc \in {"enqueue", "release"}

(* The packets of device d are in its pool, in the queue of its twin or     *)
(* with a context. Somebody who put one into the empty pool of a stopped    *)
(* queue is about to start it; and an interrupt empties the queue.          *)
Parts(d, pool, queue) ==
  /\ List(pool, net[d].ppool, next)
  /\ List(queue, net[Snull!Twin(d)].rx_queue, next)
  /\ pool \cap queue = {}
  /\ \A c \in Snull!Contexts : Holds(c) => ctx[c].pkt \notin pool \cup queue
  /\ \A k \in Mine(d) : k \in pool \/ k \in queue \/ \E c \in Snull!Contexts : Holds(c) /\ ctx[c].pkt = k
  /\ net[d].up /\ net[d].stopped /\ net[d].ppool # Snull!NULL /\ odd = "no" =>
       \E c \in Snull!Contexts : ctx[c].pc = "wake" /\ ctx[c].pkt \in pool /\ next[ctx[c].pkt] = Snull!NULL
  /\ ~mode.napi /\ odd = "no" => queue \subseteq {net[Snull!Twin(d)].rx_queue}

(* No packet is with two contexts.                                        *)
Alone == \A b, c \in Snull!Contexts : Holds(b) /\ Holds(c) /\ ctx[b].pkt = ctx[c].pkt => b = c

(* The packets of each device that is there are in one place each.        *)
SnullPackets ==
  /\ \A d \in Snull!Devices : ~net[d].gone =>
       \E pool, queue \in SUBSET Mine(d) : Parts(d, pool, queue)
  /\ Alone

(* Before the interrupt that tells the sender its packet is out.          *)
Sending(c) ==
  \/ c.pc \in {"get", "enqueue", "enabled", "rx_read", "rx_write", "rx_int", "tx_read", "tx_write"}
  \/ Buffer(c) /\ c.back = "tx_read"

(* priv->skb is the skb of a transmission whose end was not yet announced   *)
(* to snull, and a queue that is not stopped has packets.                   *)
Sends(d) ==
  /\ Sending(Tx(d)) => net[d].skb /\ "tx" \notin net[d].status
  /\ Tx(d).pc \in {"tx_int", "hang", "idle"} => (net[d].skb <=> "tx" \in net[d].status)
  /\ Buffer(Tx(d)) /\ Tx(d).back = "idle" => ~net[d].skb /\ "tx" \notin net[d].status
  /\ Tx(d).pc = "idle" /\ net[d].skb => net[d].stopped /\ odd # "no"
  /\ net[d].stopped \/ net[d].gone \/ net[d].ppool # Snull!NULL
  /\ Tx(d).pc = "get" => net[d].ppool # Snull!NULL

(* Until a stopped queue was started by force, the kernel has lost no skb *)
(* and freed none twice, and nothing was read through NULL.               *)
SnullSends ==
  /\ fate = {} /\ (crashed => odd = "forced")
  /\ odd # "forced" => \A d \in Snull!Devices : Sends(d)

(* The interrupts of a device are off while its poll is on -- and, once one *)
(* came while it was down, for good; a packet in its queue has a poll to    *)
(* come, an interrupt, or a twin who will see to it.                        *)
Announces(d) ==
  LET from == Tx(Snull!Twin(d)).pc
  IN  /\ net[d].rx_int => ~net[d].sched /\ Poll(d).pc = "idle"
      /\ ~net[d].rx_int => net[d].sched \/ Poll(d).pc # "idle" \/ d \in missed
      /\ Poll(d).pc # "idle" => (net[d].sched <=> Poll(d).pc # "enable")
      /\ from \in {"rx_read", "rx_write"} \/ "rx" \in net[d].status => net[d].rx_int
      /\ "rx" \in net[d].status => from = "rx_int"
      /\ net[d].rx_queue # Snull!NULL =>
           \/ d \in missed
           \/ net[d].sched /\ Poll(d).pc \notin {"complete", "enable"}
           \/ "rx" \in net[d].status
           \/ from \in {"enabled", "rx_read", "rx_write"}

(* Until a transmission hung, every packet is announced.                  *)
SnullAnnounces == odd = "no" => (~mode.napi => missed = {}) /\ \A d \in Snull!Devices : Announces(d)

(* The inductive invariant of snull.                                      *)
SnullInv == SnullTypes /\ SnullWhere /\ SnullPackets /\ SnullSends /\ SnullAnnounces

(* The devices, their contexts and their packets                           *)
LEMMA SnullSets ==
  /\ Snull!Devices = {0, 1} /\ Snull!NULL \notin Snull!Packets
  /\ \A d \in Snull!Devices : /\ Snull!Twin(d) \in Snull!Devices /\ Snull!Twin(d) # d
                              /\ Snull!Twin(Snull!Twin(d)) = d
                              /\ <<"tx", d>> \in Snull!Contexts /\ <<"poll", d>> \in Snull!Contexts
                              /\ Mine(d) \subseteq Snull!Packets
  /\ \A c \in Snull!Contexts : \E d \in Snull!Devices : c = <<"tx", d>> \/ c = <<"poll", d>>
  /\ \A k \in Snull!Packets : k[1] \in Snull!Devices /\ k \in Mine(k[1])
  /\ \A d \in Snull!Devices : \A k \in Mine(d) : k[1] = d
<1>1. Snull!Devices = {0, 1}
  BY DEF Snull!Devices
<1>2. Snull!NULL \notin Snull!Packets
  BY DEF Snull!NULL, Snull!Packets, Snull!Devices
<1>3. \A d \in Snull!Devices : /\ Snull!Twin(d) \in Snull!Devices /\ Snull!Twin(d) # d
                               /\ Snull!Twin(Snull!Twin(d)) = d
  BY DEF Snull!Twin, Snull!Devices
<1>4. \A d \in Snull!Devices : <<"tx", d>> \in Snull!Contexts /\ <<"poll", d>> \in Snull!Contexts
  BY DEF Snull!Contexts
<1>5. \A d \in Snull!Devices : Mine(d) \subseteq Snull!Packets
  BY DEF Mine, Snull!Packets
<1>6. \A c \in Snull!Contexts : \E d \in Snull!Devices : c = <<"tx", d>> \/ c = <<"poll", d>>
  BY DEF Snull!Contexts
<1>7. \A k \in Snull!Packets : k[1] \in Snull!Devices /\ k \in Mine(k[1])
  BY DEF Mine, Snull!Packets
<1>8. \A d \in Snull!Devices : \A k \in Mine(d) : k[1] = d
  BY DEF Mine
<1> QED  BY <1>1, <1>2, <1>3, <1>4, <1>5, <1>6, <1>7, <1>8

(* Context c goes on to pc l with packet k.                                *)
Moves(c, l, k) ==
  /\ \A b \in Snull!Contexts : b # c => ctx'[b] = ctx[b]
  /\ ctx'[c].pc = l
  /\ l # "idle" => ctx'[c].pkt = k /\ ctx'[c].back = ctx[c].back /\ ctx'[c].n = ctx[c].n

(* What To(c, l, k) leaves of the contexts: c is at l and has k.          *)
LEMMA CtxTo ==
  ASSUME CtxTyped, NEW c \in Snull!Contexts, NEW l \in SnullCalls \cup PollCalls,
         NEW k \in Snull!Packets \cup {Snull!NULL}, Snull!To(c, l, k)
  PROVE  CtxTyped' /\ Moves(c, l, k)
<1>1. 0 \in 0..Quota
  BY DriversAssumption
<1>2. CASE l = "idle"
  <2>1. ctx' = [ctx EXCEPT ![c] = Snull!Idle]
    BY <1>2, Zenon DEF Snull!To
  <2>2. Snull!Idle \in SnullCtx /\ Snull!Idle.pc = "idle"
    BY <1>1 DEF Snull!Idle, SnullCtx, SnullCalls
  <2> QED  BY <2>1, <2>2, <1>2 DEF CtxTyped, Moves
<1>3. CASE l # "idle"
  <2> DEFINE r == [ctx[c] EXCEPT !.pc = l, !.pkt = k]
  <2>1. ctx' = [ctx EXCEPT ![c] = r]
    BY <1>3, Zenon DEF Snull!To
  <2>2. r \in SnullCtx /\ r.pc = l /\ r.pkt = k /\ r.back = ctx[c].back /\ r.n = ctx[c].n
    BY Zenon DEF SnullCtx, CtxTyped
  <2> HIDE DEF r
  <2> QED  BY <2>1, <2>2, <1>3 DEF CtxTyped, Moves
<1> QED  BY <1>2, <1>3

(* Fields of device e that a step leaves alone: its lists, its interrupt, *)
(* its poll, whether it is there, its queue.                              *)
KeepLists(e) == net'[e].ppool = net[e].ppool /\ net'[e].rx_queue = net[e].rx_queue
KeepWord(e) == net'[e].status = net[e].status /\ net'[e].skb = net[e].skb
KeepPoll(e) == net'[e].rx_int = net[e].rx_int /\ net'[e].sched = net[e].sched
KeepUp(e) == net'[e].up = net[e].up /\ net'[e].gone = net[e].gone
KeepQueue(e) == net'[e].stopped = net[e].stopped

(* One device changes.                                                     *)
LEMMA NetOne ==
  ASSUME NetTyped, NEW d \in Snull!Devices, NEW r \in SnullNet, net' = [net EXCEPT ![d] = r]
  PROVE  NetTyped' /\ net'[d] = r /\ \A e \in Snull!Devices : e # d => net'[e] = net[e]
BY DEF NetTyped

(* One context changes.                                                    *)
LEMMA CtxOne ==
  ASSUME CtxTyped, NEW c \in Snull!Contexts, NEW r \in SnullCtx, ctx' = [ctx EXCEPT ![c] = r]
  PROVE  CtxTyped' /\ ctx'[c] = r /\ \A b \in Snull!Contexts : b # c => ctx'[b] = ctx[b]
BY DEF CtxTyped

(* What an interrupt changes without NAPI (snull.c:333-376): it takes the *)
(* head of the queue, frees the skb and clears the status.                *)
LEMMA DoRegular ==
  ASSUME SnullTypes, NEW c \in Snull!Contexts, NEW d \in Snull!Devices,
         NEW back \in {"idle", "to_wake", "tx_read"}, Snull!Regular(c, d, back)
  PROVE  /\ NetTyped' /\ CtxTyped'
         /\ \A e \in Snull!Devices : /\ net'[e].ppool = net[e].ppool
                                     /\ KeepQueue(e) /\ KeepUp(e) /\ KeepPoll(e)
                                     /\ e # d => net'[e].rx_queue = net[e].rx_queue /\ KeepWord(e)
         /\ net'[d].status = {} /\ (net'[d].skb <=> net[d].skb /\ "tx" \notin net[d].status)
         /\ IF "rx" \in net[d].status /\ net[d].rx_queue # Snull!NULL
            THEN /\ net'[d].rx_queue = next[net[d].rx_queue]
                 /\ \A b \in Snull!Contexts : b # c => ctx'[b] = ctx[b]
                 /\ ctx'[c].pc = "release" /\ ctx'[c].pkt = net[d].rx_queue /\ ctx'[c].back = back
            ELSE net'[d].rx_queue = net[d].rx_queue /\ Moves(c, back, Snull!NULL)
         /\ fate' = IF "tx" \in net[d].status /\ ~net[d].skb /\ odd # "forced" THEN {"twice"} ELSE fate
         /\ missed' = missed
<1> DEFINE bits == net[d].status
           pkt == IF "rx" \in bits THEN net[d].rx_queue ELSE Snull!NULL
           after == IF pkt # Snull!NULL THEN next[pkt] ELSE net[d].rx_queue
<1>0. NetTyped /\ CtxTyped /\ next \in [Snull!Packets -> Snull!Packets \cup {Snull!NULL}]
  BY DEF SnullTypes, NetTyped, CtxTyped
<1>1. pkt \in Snull!Packets \cup {Snull!NULL} /\ after \in Snull!Packets \cup {Snull!NULL}
  BY <1>0, SnullSets DEF SnullNet, NetTyped
<1>2. net' = [net EXCEPT ![d].status = {}, ![d].rx_queue = after, ![d].skb = @ /\ "tx" \notin bits]
  BY Zenon DEF Snull!Regular
<1>21. /\ fate' = IF "tx" \in bits /\ ~net[d].skb /\ odd # "forced" THEN {"twice"} ELSE fate
       /\ missed' = missed
  BY Zenon DEF Snull!Regular
<1>22. IF pkt = Snull!NULL THEN Snull!To(c, back, Snull!NULL)
       ELSE ctx' = [ctx EXCEPT ![c].pc = "release", ![c].pkt = pkt, ![c].back = back]
  BY Zenon DEF Snull!Regular
<1>3. IF "rx" \in bits /\ net[d].rx_queue # Snull!NULL THEN pkt = net[d].rx_queue /\ pkt # Snull!NULL /\ after = next[net[d].rx_queue]
      ELSE pkt = Snull!NULL /\ after = net[d].rx_queue
  OBVIOUS
<1> HIDE DEF pkt, after
<1>30. PICK skb \in BOOLEAN : skb = (net[d].skb /\ "tx" \notin bits)
  BY Zenon
<1> DEFINE r == [net[d] EXCEPT !.status = {}, !.rx_queue = after, !.skb = skb]
<1>4. r \in SnullNet /\ net' = [net EXCEPT ![d] = r]
  <2>1. r \in SnullNet
    BY <1>0, <1>1 DEF NetTyped, SnullNet
  <2>2. net' = [net EXCEPT ![d] = r]
    BY <1>2, <1>30, Zenon
  <2> QED  BY <2>1, <2>2
<1>50. /\ r.ppool = net[d].ppool /\ r.stopped = net[d].stopped /\ r.up = net[d].up /\ r.gone = net[d].gone
       /\ r.rx_int = net[d].rx_int /\ r.sched = net[d].sched /\ r.status = {} /\ r.rx_queue = after
       /\ r.skb = skb
  BY <1>0 DEF NetTyped, SnullNet
<1>5. /\ r.ppool = net[d].ppool /\ r.stopped = net[d].stopped /\ r.up = net[d].up /\ r.gone = net[d].gone
      /\ r.rx_int = net[d].rx_int /\ r.sched = net[d].sched /\ r.status = {} /\ r.rx_queue = after
      /\ (r.skb <=> net[d].skb /\ "tx" \notin bits)
  BY <1>30, <1>50, Zenon
<1> HIDE DEF r, bits
<1>6. /\ NetTyped'
      /\ \A e \in Snull!Devices : /\ net'[e].ppool = net[e].ppool
                                  /\ KeepQueue(e) /\ KeepUp(e) /\ KeepPoll(e)
                                  /\ e # d => net'[e].rx_queue = net[e].rx_queue /\ KeepWord(e)
      /\ net'[d].status = {} /\ (net'[d].skb <=> net[d].skb /\ "tx" \notin bits)
      /\ net'[d].rx_queue = after
  <2>1. NetTyped' /\ net'[d] = r /\ \A e \in Snull!Devices : e # d => net'[e] = net[e]
    BY <1>0, <1>4, NetOne, Zenon
  <2> QED  BY <2>1, <1>5 DEF KeepQueue, KeepUp, KeepPoll, KeepWord
<1>7. CASE pkt = Snull!NULL
  <2>1. CtxTyped' /\ Moves(c, back, Snull!NULL)
    <3>1. back \in SnullCalls \cup PollCalls
      BY DEF SnullCalls
    <3> QED  BY <1>0, <1>22, <1>7, <3>1, CtxTo
  <2> QED  BY <1>21, <1>3, <1>6, <1>7, <2>1 DEF bits
<1>8. CASE pkt # Snull!NULL
  <2> DEFINE q == [ctx[c] EXCEPT !.pc = "release", !.pkt = pkt, !.back = back]
  <2>1. ctx' = [ctx EXCEPT ![c].pc = "release", ![c].pkt = pkt, ![c].back = back]
    BY <1>22, <1>8
  <2>2. q \in SnullCtx /\ q.pc = "release" /\ q.pkt = pkt /\ q.back = back
    <3>1. "release" \in SnullCalls \cup PollCalls /\ back \in {"idle", "to_wake", "tx_read", "test"}
      BY DEF SnullCalls
    <3> QED  BY <1>0, <1>1, <3>1, Zenon DEF SnullCtx, CtxTyped
  <2>3. ctx' = [ctx EXCEPT ![c] = q]
    BY <1>0, <2>1, Zenon DEF CtxTyped
  <2> HIDE DEF q
  <2>4. CtxTyped' /\ ctx'[c] = q /\ \A b \in Snull!Contexts : b # c => ctx'[b] = ctx[b]
    BY <1>0, <2>2, <2>3, CtxOne, Zenon
  <2> QED  BY <1>21, <1>3, <1>6, <1>8, <2>2, <2>4 DEF bits
<1> QED  BY <1>7, <1>8

(* What it changes with NAPI (snull.c:381-418): it schedules the poll and *)
(* leaves the queue to it.                                                *)
LEMMA DoNapi ==
  ASSUME SnullTypes, NEW c \in Snull!Contexts, NEW d \in Snull!Devices,
         NEW back \in {"idle", "to_wake", "tx_read"}, Snull!NapiInterrupt(c, d, back)
  PROVE  /\ NetTyped' /\ CtxTyped'
         /\ \A e \in Snull!Devices : /\ KeepLists(e) /\ KeepQueue(e) /\ KeepUp(e)
                                     /\ e # d => KeepPoll(e) /\ KeepWord(e)
         /\ net'[d].status = {} /\ (net'[d].skb <=> net[d].skb /\ "tx" \notin net[d].status)
         /\ net'[d].rx_int <=> net[d].rx_int /\ "rx" \notin net[d].status
         /\ net'[d].sched <=> net[d].sched \/ ("rx" \in net[d].status /\ net[d].up)
         /\ missed' = IF "rx" \in net[d].status /\ ~net[d].up /\ ~net[d].sched THEN missed \cup {d} ELSE missed
         /\ Moves(c, back, Snull!NULL)
         /\ fate' = IF "tx" \in net[d].status /\ ~net[d].skb /\ odd # "forced" THEN {"twice"} ELSE fate
<1> DEFINE bits == net[d].status
<1>0. NetTyped /\ CtxTyped
  BY DEF SnullTypes, NetTyped, CtxTyped
<1>1. PICK int \in BOOLEAN, sched \in BOOLEAN, skb \in BOOLEAN :
        /\ int = (net[d].rx_int /\ "rx" \notin bits) /\ sched = (net[d].sched \/ ("rx" \in bits /\ net[d].up))
        /\ skb = (net[d].skb /\ "tx" \notin bits)
  BY Zenon
<1> DEFINE r == [net[d] EXCEPT !.status = {}, !.rx_int = int, !.sched = sched, !.skb = skb]
<1>2. net' = [net EXCEPT ![d].status = {}, ![d].rx_int = @ /\ "rx" \notin bits,
                         ![d].sched = @ \/ ("rx" \in bits /\ net[d].up), ![d].skb = @ /\ "tx" \notin bits]
  BY Zenon DEF Snull!NapiInterrupt
<1>21. /\ fate' = IF "tx" \in bits /\ ~net[d].skb /\ odd # "forced" THEN {"twice"} ELSE fate
       /\ missed' = IF "rx" \in bits /\ ~net[d].up /\ ~net[d].sched THEN missed \cup {d} ELSE missed
       /\ Snull!To(c, back, Snull!NULL)
  BY Zenon DEF Snull!NapiInterrupt
<1>4. r \in SnullNet /\ net' = [net EXCEPT ![d] = r]
  <2>1. r \in SnullNet
    BY <1>0 DEF NetTyped, SnullNet
  <2>2. net' = [net EXCEPT ![d] = r]
    BY <1>1, <1>2, Zenon
  <2> QED  BY <2>1, <2>2
<1>5. /\ r.ppool = net[d].ppool /\ r.stopped = net[d].stopped /\ r.up = net[d].up /\ r.gone = net[d].gone
      /\ r.status = {} /\ r.rx_queue = net[d].rx_queue
  BY <1>0 DEF NetTyped, SnullNet
<1>50. r.skb = skb /\ r.rx_int = int /\ r.sched = sched
  BY <1>0 DEF NetTyped, SnullNet
<1>51. /\ (r.skb <=> net[d].skb /\ "tx" \notin bits)
       /\ (r.rx_int <=> net[d].rx_int /\ "rx" \notin bits)
       /\ (r.sched <=> net[d].sched \/ ("rx" \in bits /\ net[d].up))
  BY <1>1, <1>50, Zenon
<1> HIDE DEF r, bits
<1>6. NetTyped' /\ net'[d] = r /\ \A e \in Snull!Devices : e # d => net'[e] = net[e]
  BY <1>0, <1>4, NetOne, Zenon
<1>7. /\ \A e \in Snull!Devices : /\ KeepLists(e) /\ KeepQueue(e) /\ KeepUp(e)
                                  /\ e # d => KeepPoll(e) /\ KeepWord(e)
      /\ net'[d].status = {}
  BY <1>5, <1>6 DEF KeepLists, KeepQueue, KeepUp, KeepPoll, KeepWord
<1>8. /\ (net'[d].skb <=> net[d].skb /\ "tx" \notin bits)
      /\ (net'[d].rx_int <=> net[d].rx_int /\ "rx" \notin bits)
      /\ (net'[d].sched <=> net[d].sched \/ ("rx" \in bits /\ net[d].up))
  BY <1>51, <1>6
<1>9. CtxTyped' /\ Moves(c, back, Snull!NULL)
  <2>1. back \in SnullCalls \cup PollCalls
    BY DEF SnullCalls
  <2> QED  BY <1>0, <1>21, <2>1, CtxTo
<1> QED  BY <1>21, <1>6, <1>7, <1>8, <1>9 DEF bits

(* The contexts of the two devices are four.                              *)
LEMMA ContextNames ==
  \A d, e \in Snull!Devices : /\ <<"tx", d>> # <<"poll", e>>
                              /\ d # e => <<"tx", d>> # <<"tx", e>> /\ <<"poll", d>> # <<"poll", e>>
OBVIOUS

(* What a step of the transmit path leaves alone                           *)
LEMMA TxSteps ==
  ASSUME NEW d \in Snull!Devices, \A b \in Snull!Contexts : b # <<"tx", d>> => ctx'[b] = ctx[b]
  PROVE  \A e \in Snull!Devices : Poll(e)' = Poll(e) /\ (e # d => Tx(e)' = Tx(e))
BY SnullSets, ContextNames DEF Tx, Poll

(* What a step of the poll leaves alone                                    *)
LEMMA PollSteps ==
  ASSUME NEW d \in Snull!Devices, \A b \in Snull!Contexts : b # <<"poll", d>> => ctx'[b] = ctx[b]
  PROVE  \A e \in Snull!Devices : Tx(e)' = Tx(e) /\ (e # d => Poll(e)' = Poll(e))
BY SnullSets, ContextNames DEF Tx, Poll

(* When the contexts and what they look at stay, so does each part of the *)
(* invariant that is about one device.                                    *)
LEMMA TxKept ==
  ASSUME NEW e \in Snull!Devices, TxWhere(e), Tx(e)' = Tx(e),
         net'[e].stopped => net[e].stopped \/ Tx(e).pc # "get", odd = "forced" => odd' = "forced"
  PROVE  TxWhere(e)'
BY DEF TxWhere, Buffer, Mine

(* The same for where the poll is.                                        *)
LEMMA PollKept ==
  ASSUME NEW e \in Snull!Devices, PollWhere(e), Poll(e)' = Poll(e),
         net'[e].rx_queue = net[e].rx_queue \/ net'[e].rx_queue # Snull!NULL \/ ~mode.napi,
         net'[e].sched => net[e].sched \/ mode.napi, mode' = mode
  PROVE  PollWhere(e)'
BY DEF PollWhere, Buffer

(* The same for the skb of the sender.                                    *)
LEMMA SendsKept ==
  ASSUME NEW e \in Snull!Devices, Sends(e), Tx(e)' = Tx(e), KeepWord(e), net'[e].gone = net[e].gone,
         net[e].stopped => net'[e].stopped \/ (Tx(e).pc # "idle" /\ net[e].ppool # Snull!NULL),
         net'[e].ppool = net[e].ppool \/ net'[e].ppool # Snull!NULL, odd = odd' \/ odd' = "hung"
  PROVE  Sends(e)'
BY DEF Sends, KeepWord, Sending, Buffer

(* The same for the announcements of device e, of which the poll and the  *)
(* transmission of its twin take care.                                    *)
LEMMA AnnouncesKept ==
  ASSUME NEW e \in Snull!Devices, Announces(e), KeepPoll(e), net'[e].status = net[e].status,
         net'[e].rx_queue = net[e].rx_queue,
         \/ Poll(e)'.pc = Poll(e).pc
         \/ Poll(e).pc \notin {"idle", "complete", "enable"} /\ Poll(e)'.pc \notin {"idle", "complete", "enable"},
         \/ Tx(Snull!Twin(e))'.pc = Tx(Snull!Twin(e)).pc
         \/ /\ Tx(Snull!Twin(e)).pc \notin {"enabled", "rx_read", "rx_write", "rx_int"}
            /\ Tx(Snull!Twin(e))'.pc \notin {"enabled", "rx_read", "rx_write", "rx_int"},
         e \in missed => e \in missed'
  PROVE  Announces(e)'
BY DEF Announces, KeepPoll

(* A step that no packet takes part in                                     *)
LEMMA PoolsKept ==
  ASSUME SnullTypes, SnullPackets, next' = next, mode' = mode, odd' = "no" => odd = "no",
         \A e \in Snull!Devices : KeepLists(e) /\ net'[e].gone = net[e].gone,
         \A c \in Snull!Contexts : /\ Holds(c)' <=> Holds(c)
                                   /\ Holds(c) => ctx'[c].pkt = ctx[c].pkt,
         \A e \in Snull!Devices : net'[e].up /\ net'[e].stopped /\ odd' = "no" =>
            /\ net[e].up /\ net[e].stopped
            /\ \A c \in Snull!Contexts :
                 ctx[c].pc = "wake" /\ ctx[c].pkt \in Mine(e) /\ next[ctx[c].pkt] = Snull!NULL =>
                   ctx'[c].pc = "wake" /\ ctx'[c].pkt = ctx[c].pkt
  PROVE  SnullPackets'
<1>1. Alone'
  BY DEF SnullPackets, Alone
<1>2. ASSUME NEW d \in Snull!Devices, ~net'[d].gone
      PROVE  (\E pool, queue \in SUBSET Mine(d) : Parts(d, pool, queue))'
  <2>1. PICK pool \in SUBSET Mine(d), queue \in SUBSET Mine(d) : Parts(d, pool, queue)
    BY <1>2 DEF SnullPackets
  <2>2. Parts(d, pool, queue)'
    <3>1. /\ List(pool, net'[d].ppool, next')
          /\ List(queue, net'[Snull!Twin(d)].rx_queue, next')
          /\ pool \cap queue = {}
          /\ ~mode'.napi /\ odd' = "no" => queue \subseteq {net'[Snull!Twin(d)].rx_queue}
      BY <2>1, SnullSets DEF Parts, KeepLists
    <3>2. \A c \in Snull!Contexts : Holds(c)' => ctx'[c].pkt \notin pool \cup queue
      BY <2>1 DEF Parts
    <3>3. \A k \in Mine(d) : k \in pool \/ k \in queue \/ \E c \in Snull!Contexts : Holds(c)' /\ ctx'[c].pkt = k
      BY <2>1 DEF Parts
    <3>4. net'[d].up /\ net'[d].stopped /\ net'[d].ppool # Snull!NULL /\ odd' = "no" =>
            \E c \in Snull!Contexts : ctx'[c].pc = "wake" /\ ctx'[c].pkt \in pool /\ next'[ctx'[c].pkt] = Snull!NULL
      BY <2>1 DEF Parts, KeepLists
    <3> QED  BY <3>1, <3>2, <3>3, <3>4 DEF Parts, Mine
  <2> QED  BY <2>2 DEF Mine
<1> QED  BY <1>1, <1>2 DEF SnullPackets

(* What Go(c, l) leaves of the contexts: c is at l with what it had.      *)
LEMMA CtxGo ==
  ASSUME CtxTyped, NEW c \in Snull!Contexts, NEW l \in SnullCalls \cup PollCalls, Snull!Go(c, l)
  PROVE  CtxTyped' /\ Moves(c, l, ctx[c].pkt)
<1>1. ctx[c].pkt \in Snull!Packets \cup {Snull!NULL}
  BY DEF CtxTyped, SnullCtx
<1>2. Snull!To(c, l, ctx[c].pkt)
  BY DEF Snull!Go
<1> QED  BY <1>1, <1>2, CtxTo

(* While a device works, or is up, no device is gone.                      *)
LEMMA NobodyGone ==
  ASSUME SnullTypes, SnullWhere, NEW d \in Snull!Devices,
         \/ Tx(d).pc # "idle" \/ Poll(d).pc # "idle" \/ net[d].up \/ net[d].sched \/ ~net[d].gone
  PROVE  \A e \in Snull!Devices : ~net[e].gone
BY DEF SnullWhere, AllGone, SnullTypes, NetTyped, SnullNet

(* A step of the transmission of d leaves the others where they are.      *)
LEMMA TxWhereStep ==
  ASSUME SnullWhere, NEW d \in Snull!Devices, \A e \in Snull!Devices : ~net'[e].gone,
         \A b \in Snull!Contexts : b # <<"tx", d>> => ctx'[b] = ctx[b],
         \A e \in Snull!Devices :
           /\ e # d /\ net'[e].stopped => net[e].stopped \/ Tx(e).pc # "get"
           /\ ~mode.napi \/ net'[e].rx_queue = net[e].rx_queue \/ net'[e].rx_queue # Snull!NULL
           /\ net'[e].sched => net[e].sched \/ mode.napi,
         odd = "forced" => odd' = "forced", mode' = mode, TxWhere(d)'
  PROVE  SnullWhere'
<1>1. \A e \in Snull!Devices : Poll(e)' = Poll(e) /\ (e # d => Tx(e)' = Tx(e))
  BY TxSteps
<1>2. ASSUME NEW e \in Snull!Devices PROVE TxWhere(e)'
  <2>1. CASE e = d
    BY <2>1
  <2>2. CASE e # d
    <3>1. TxWhere(e)
      BY DEF SnullWhere
    <3> QED  BY <1>1, <2>2, <3>1, TxKept
  <2> QED  BY <2>1, <2>2
<1>3. ASSUME NEW e \in Snull!Devices PROVE PollWhere(e)'
  <2>1. PollWhere(e)
    BY DEF SnullWhere
  <2> QED  BY <1>1, <2>1, PollKept
<1>4. AllGone'
  BY DEF AllGone
<1> QED  BY <1>2, <1>3, <1>4 DEF SnullWhere

(* And so does a step of the poll of d.                                   *)
LEMMA PollWhereStep ==
  ASSUME SnullWhere, NEW d \in Snull!Devices, \A e \in Snull!Devices : ~net'[e].gone,
         \A b \in Snull!Contexts : b # <<"poll", d>> => ctx'[b] = ctx[b],
         \A e \in Snull!Devices :
           /\ net'[e].stopped => net[e].stopped
           /\ e # d => net'[e].rx_queue = net[e].rx_queue
           /\ net'[e].sched => net[e].sched,
         odd = "forced" => odd' = "forced", mode' = mode, PollWhere(d)'
  PROVE  SnullWhere'
<1>1. \A e \in Snull!Devices : Tx(e)' = Tx(e) /\ (e # d => Poll(e)' = Poll(e))
  BY PollSteps
<1>2. ASSUME NEW e \in Snull!Devices PROVE TxWhere(e)'
  <2>1. TxWhere(e)
    BY DEF SnullWhere
  <2> QED  BY <1>1, <2>1, TxKept
<1>3. ASSUME NEW e \in Snull!Devices PROVE PollWhere(e)'
  <2>1. CASE e = d
    BY <2>1
  <2>2. CASE e # d
    <3>1. PollWhere(e)
      BY DEF SnullWhere
    <3> QED  BY <1>1, <2>2, <3>1, PollKept
  <2> QED  BY <2>1, <2>2
<1>4. AllGone'
  BY DEF AllGone
<1> QED  BY <1>2, <1>3, <1>4 DEF SnullWhere

(* A step of the transmission of d disturbs no skb but its own.           *)
LEMMA TxSendsStep ==
  ASSUME SnullSends, NEW d \in Snull!Devices,
         \A b \in Snull!Contexts : b # <<"tx", d>> => ctx'[b] = ctx[b],
         \A e \in Snull!Devices : e # d =>
           /\ KeepWord(e) /\ net'[e].gone = net[e].gone
           /\ net[e].stopped => net'[e].stopped \/ (Tx(e).pc # "idle" /\ net[e].ppool # Snull!NULL)
           /\ net'[e].ppool = net[e].ppool \/ net'[e].ppool # Snull!NULL,
         odd' \in {odd, "hung", "forced"}, odd = "forced" => odd' = "forced",
         fate' = {}, crashed' => odd' = "forced",
         odd' # "forced" => Sends(d)'
  PROVE  SnullSends'
<1>1. \A e \in Snull!Devices : Poll(e)' = Poll(e) /\ (e # d => Tx(e)' = Tx(e))
  BY TxSteps
<1>2. ASSUME odd' # "forced", NEW e \in Snull!Devices PROVE Sends(e)'
  <2>1. CASE e = d
    BY <1>2, <2>1
  <2>2. CASE e # d
    <3>1. Sends(e)
      BY <1>2 DEF SnullSends
    <3> QED  BY <1>1, <1>2, <2>2, <3>1, SendsKept
  <2> QED  BY <2>1, <2>2
<1> QED  BY <1>2 DEF SnullSends

(* snull_hw_tx tests whether the receiver has its interrupts on           *)
(* (snull.c:470-486).                                                     *)
LEMMA DoTestEnabled ==
  ASSUME SnullInv, NEW d \in Snull!Devices, Snull!TestEnabled(<<"tx", d>>, Snull!Twin(d))
  PROVE  SnullInv'
<1> DEFINE c == <<"tx", d>>
           t == Snull!Twin(d)
<1>0. c \in Snull!Contexts /\ t \in Snull!Devices /\ t # d /\ Snull!Twin(t) = d
      /\ \A e \in Snull!Devices : e = d \/ e = t
  BY SnullSets
<1>1. ctx[c].pc = "enabled" /\ ~crashed
  BY Zenon DEF Snull!TestEnabled, Snull!At
<1>2. Snull!Go(c, IF net[t].rx_int THEN "rx_read" ELSE "tx_read")
  BY Zenon DEF Snull!TestEnabled
<1>3. missed' = IF ~net[t].rx_int /\ Snull!PollEnding(t) THEN missed \cup {t} ELSE missed
  BY Zenon DEF Snull!TestEnabled
<1>4. mode' = mode /\ net' = net /\ next' = next /\ odd' = odd /\ fate' = fate /\ crashed' = crashed
  BY Zenon DEF Snull!TestEnabled
<1>5. SnullTypes /\ SnullWhere /\ SnullPackets /\ SnullSends /\ SnullAnnounces /\ CtxTyped
  BY DEF SnullInv, SnullTypes
<1> HIDE DEF c, t
<1>6. /\ CtxTyped' /\ ctx'[c].pc = IF net[t].rx_int THEN "rx_read" ELSE "tx_read"
      /\ \A b \in Snull!Contexts : b # c => ctx'[b] = ctx[b]
  <2>1. (IF net[t].rx_int THEN "rx_read" ELSE "tx_read") \in SnullCalls \cup PollCalls
    BY DEF SnullCalls
  <2> QED  BY <1>0, <1>2, <1>5, <2>1, CtxGo DEF Moves
<1>7. /\ Tx(d).pc = "enabled" /\ Tx(d)'.pc = IF net[t].rx_int THEN "rx_read" ELSE "tx_read"
      /\ \A e \in Snull!Devices : Poll(e)' = Poll(e) /\ (e # d => Tx(e)' = Tx(e))
  BY <1>1, <1>6, TxSteps DEF Tx, c
<1>8. SnullTypes'
  BY <1>0, <1>3, <1>4, <1>5, <1>6 DEF SnullTypes, NetTyped
<1>9. SnullWhere'
  <2>1. TxWhere(d)'
    BY <1>7 DEF TxWhere, Buffer, SnullCalls
  <2>2. \A e \in Snull!Devices : ~net'[e].gone
    BY <1>4, <1>5, <1>7, NobodyGone
  <2> QED  BY <1>4, <1>5, <1>6, <2>1, <2>2, TxWhereStep DEF c
<1>10. SnullPackets'
  BY <1>1, <1>4, <1>5, <1>6, PoolsKept DEF KeepLists, Holds
<1>11. SnullSends'
  <2>1. odd # "forced" => Sends(d)'
    BY <1>4, <1>5, <1>7 DEF SnullSends, Sends, Sending, Buffer
  <2>2. fate' = {}
    BY <1>4, <1>5 DEF SnullSends
  <2> QED  BY <1>1, <1>4, <1>5, <1>6, <2>1, <2>2, TxSendsStep DEF c, KeepWord
<1>12. SnullAnnounces'
  <2>1. SUFFICES ASSUME odd = "no" PROVE (~mode.napi => missed' = {}) /\ \A e \in Snull!Devices : Announces(e)'
    BY <1>4 DEF SnullAnnounces
  <2>2. Announces(d) /\ Announces(t) /\ (~mode.napi => missed = {}) /\ (~mode.napi => Poll(t).pc = "idle")
    BY <1>0, <1>5, <2>1 DEF SnullAnnounces, SnullWhere, PollWhere
  <2>3. Snull!PollEnding(t) <=> Poll(t).pc \in {"complete", "enable"}
    BY DEF Snull!PollEnding, Poll
  <2>4. Announces(d)'
    <3>1. Snull!Twin(d) = t
      BY DEF t
    <3> QED  BY <1>0, <1>3, <1>4, <1>7, <2>2, <3>1, AnnouncesKept DEF KeepPoll
  <2>5. Announces(t)'
    BY <1>0, <1>3, <1>4, <1>7, <2>2, <2>3 DEF Announces
  <2> QED  BY <1>0, <1>3, <2>2, <2>3, <2>4, <2>5
<1> QED  BY <1>8, <1>9, <1>10, <1>11, <1>12 DEF SnullInv

(* The read half of status |= (snull.c:487-495).                          *)
LEMMA DoOrRead ==
  ASSUME SnullInv, NEW d \in Snull!Devices, NEW e \in Snull!Devices, NEW from, NEW to,
         (from = "rx_read" /\ to = "rx_write") \/ (from = "tx_read" /\ to = "tx_write"),
         Snull!OrRead(<<"tx", d>>, from, e, to)
  PROVE  SnullInv'
<1> DEFINE c == <<"tx", d>>
           t == Snull!Twin(d)
           r == [ctx[c] EXCEPT !.pc = to, !.tmp = net[e].status]
<1>0. c \in Snull!Contexts /\ t \in Snull!Devices /\ t # d /\ Snull!Twin(t) = d
      /\ \A b \in Snull!Devices : b = d \/ b = t
  BY SnullSets
<1>1. ctx[c].pc = from /\ ~crashed
  BY Zenon DEF Snull!OrRead, Snull!At
<1>2. ctx' = [ctx EXCEPT ![c].pc = to, ![c].tmp = net[e].status]
  BY Zenon DEF Snull!OrRead
<1>4. mode' = mode /\ net' = net /\ next' = next /\ odd' = odd /\ fate' = fate /\ crashed' = crashed
      /\ missed' = missed
  BY Zenon DEF Snull!OrRead
<1>5. SnullTypes /\ SnullWhere /\ SnullPackets /\ SnullSends /\ SnullAnnounces /\ CtxTyped /\ NetTyped
  BY DEF SnullInv, SnullTypes
<1>6. /\ CtxTyped' /\ ctx'[c].pc = to
      /\ \A b \in Snull!Contexts : b # c => ctx'[b] = ctx[b]
  <2>1. ctx[c] \in SnullCtx /\ net[e].status \in SUBSET {"rx", "tx"} /\ to \in SnullCalls \cup PollCalls
    BY <1>0, <1>5 DEF CtxTyped, NetTyped, SnullNet, SnullCalls
  <2>2. r \in SnullCtx /\ r.pc = to
    BY <2>1, Zenon DEF SnullCtx
  <2>3. ctx' = [ctx EXCEPT ![c] = r]
    BY <1>0, <1>2, <1>5, Zenon DEF CtxTyped
  <2> HIDE DEF r, c
  <2> QED  BY <1>0, <1>5, <2>2, <2>3, CtxOne, Zenon
<1> HIDE DEF c, t
<1>7. /\ Tx(d).pc = from /\ Tx(d)'.pc = to
      /\ \A b \in Snull!Devices : Poll(b)' = Poll(b) /\ (b # d => Tx(b)' = Tx(b))
  BY <1>1, <1>6, TxSteps DEF Tx, c
<1>8. SnullTypes'
  BY <1>0, <1>4, <1>5, <1>6 DEF SnullTypes, NetTyped
<1>9. SnullWhere'
  <2>1. TxWhere(d)'
    BY <1>7 DEF TxWhere, Buffer, SnullCalls
  <2>2. \A b \in Snull!Devices : ~net'[b].gone
    BY <1>4, <1>5, <1>7, NobodyGone
  <2> QED  BY <1>4, <1>5, <1>6, <2>1, <2>2, TxWhereStep DEF c
<1>10. SnullPackets'
  BY <1>1, <1>4, <1>5, <1>6, PoolsKept DEF KeepLists, Holds
<1>11. SnullSends'
  <2>1. odd # "forced" => Sends(d)'
    BY <1>4, <1>5, <1>7 DEF SnullSends, Sends, Sending, Buffer
  <2>2. fate' = {}
    BY <1>4, <1>5 DEF SnullSends
  <2> QED  BY <1>1, <1>4, <1>5, <1>6, <2>1, <2>2, TxSendsStep DEF c, KeepWord
<1>12. SnullAnnounces'
  <2>1. SUFFICES ASSUME odd = "no" PROVE \A b \in Snull!Devices : Announces(b)'
    BY <1>4, <1>5 DEF SnullAnnounces
  <2>2. Announces(d) /\ Announces(t)
    BY <1>0, <1>5, <2>1 DEF SnullAnnounces
  <2>4. Announces(d)'
    <3>1. Snull!Twin(d) = t
      BY DEF t
    <3> QED  BY <1>0, <1>4, <1>7, <2>2, <3>1, AnnouncesKept DEF KeepPoll
  <2>5. Announces(t)'
    BY <1>0, <1>4, <1>7, <2>2 DEF Announces
  <2> QED  BY <1>0, <2>4, <2>5
<1> QED  BY <1>8, <1>9, <1>10, <1>11, <1>12 DEF SnullInv

(* What OrWrite(<<"tx", d>>, from, e, bit, tos) changes                     *)
LEMMA OrWriteDoes ==
  ASSUME SnullInv, NEW d \in Snull!Devices, NEW e \in Snull!Devices, NEW from, NEW bit \in {"rx", "tx"},
         NEW tos, tos \subseteq {"rx_int", "tx_int", "hang"}, Snull!OrWrite(<<"tx", d>>, from, e, bit, tos)
  PROVE  /\ Tx(d).pc = from /\ ~crashed /\ mode' = mode /\ next' = next /\ missed' = missed
         /\ fate' = fate /\ crashed' = crashed /\ odd' = IF net[e].status # Tx(d).tmp THEN "forced" ELSE odd
         /\ NetTyped' /\ CtxTyped' /\ Tx(d)'.pc \in tos
         /\ \A b \in Snull!Contexts : b # <<"tx", d>> => ctx'[b] = ctx[b]
         /\ \A b \in Snull!Devices : /\ KeepLists(b) /\ KeepUp(b) /\ KeepPoll(b) /\ KeepQueue(b)
                                     /\ net'[b].skb = net[b].skb
                                     /\ b # e => KeepWord(b)
         /\ net'[e].status = Tx(d).tmp \cup {bit}
<1> DEFINE c == <<"tx", d>>
           r == [net[e] EXCEPT !.status = ctx[c].tmp \cup {bit}]
<1>0. c \in Snull!Contexts /\ CtxTyped /\ NetTyped
  BY SnullSets DEF SnullInv, SnullTypes
<1>1. ctx[c].pc = from /\ ~crashed
  BY Zenon DEF Snull!OrWrite, Snull!At
<1>2. PICK to \in tos : ctx' = [ctx EXCEPT ![c] = [Snull!Idle EXCEPT !.pc = to]]
  BY Zenon DEF Snull!OrWrite
<1>3. net' = [net EXCEPT ![e].status = ctx[c].tmp \cup {bit}]
      /\ odd' = IF net[e].status # ctx[c].tmp THEN "forced" ELSE odd
  BY Zenon DEF Snull!OrWrite
<1>4. mode' = mode /\ next' = next /\ fate' = fate /\ crashed' = crashed /\ missed' = missed
  BY Zenon DEF Snull!OrWrite
<1>5. CtxTyped' /\ ctx'[c].pc \in tos /\ \A b \in Snull!Contexts : b # c => ctx'[b] = ctx[b]
  <2> DEFINE q == [Snull!Idle EXCEPT !.pc = to]
  <2>1. q \in SnullCtx /\ q.pc = to
    <3>1. to \in SnullCalls \cup PollCalls /\ 0 \in 0..Quota
      BY DriversAssumption DEF SnullCalls
    <3> QED  BY <3>1 DEF Snull!Idle, SnullCtx
  <2> HIDE DEF q, c
  <2> QED  BY <1>0, <1>2, <2>1, CtxOne, Zenon DEF q
<1>6. net[e] \in SnullNet /\ ctx[c].tmp \in SUBSET {"rx", "tx"}
  BY <1>0 DEF NetTyped, CtxTyped, SnullCtx
<1>7. r \in SnullNet /\ net' = [net EXCEPT ![e] = r] /\ r.status = ctx[c].tmp \cup {bit}
  BY <1>0, <1>3, <1>6, Zenon DEF SnullNet, NetTyped
<1>8. /\ r.ppool = net[e].ppool /\ r.stopped = net[e].stopped /\ r.up = net[e].up /\ r.gone = net[e].gone
      /\ r.rx_queue = net[e].rx_queue /\ r.sched = net[e].sched /\ r.rx_int = net[e].rx_int
      /\ r.skb = net[e].skb
  BY <1>6 DEF SnullNet
<1> HIDE DEF r
<1>9. NetTyped' /\ net'[e] = r /\ \A b \in Snull!Devices : b # e => net'[b] = net[b]
  BY <1>0, <1>7, NetOne, Zenon
<1>10. \A b \in Snull!Devices : /\ KeepLists(b) /\ KeepUp(b) /\ KeepPoll(b) /\ KeepQueue(b)
                                /\ net'[b].skb = net[b].skb
                                /\ b # e => KeepWord(b)
  BY <1>8, <1>9 DEF KeepLists, KeepUp, KeepPoll, KeepQueue, KeepWord
<1> QED  BY <1>1, <1>3, <1>4, <1>5, <1>7, <1>9, <1>10 DEF Tx

(* The write half, at the receiver (snull.c:488).                         *)
LEMMA DoRxWrite ==
  ASSUME SnullInv, NEW d \in Snull!Devices,
         Snull!OrWrite(<<"tx", d>>, "rx_write", Snull!Twin(d), "rx", {"rx_int"})
  PROVE  SnullInv'
<1> DEFINE c == <<"tx", d>>
           t == Snull!Twin(d)
<1>0. c \in Snull!Contexts /\ t \in Snull!Devices /\ t # d /\ Snull!Twin(t) = d
      /\ \A b \in Snull!Devices : b = d \/ b = t
  BY SnullSets
<1>1. /\ Tx(d).pc = "rx_write" /\ ~crashed /\ mode' = mode /\ next' = next /\ missed' = missed
      /\ fate' = fate /\ crashed' = crashed /\ odd' = IF net[t].status # Tx(d).tmp THEN "forced" ELSE odd
      /\ NetTyped' /\ CtxTyped' /\ Tx(d)'.pc = "rx_int"
      /\ \A b \in Snull!Contexts : b # c => ctx'[b] = ctx[b]
      /\ \A b \in Snull!Devices : /\ KeepLists(b) /\ KeepUp(b) /\ KeepPoll(b) /\ KeepQueue(b)
                                  /\ net'[b].skb = net[b].skb
                                  /\ b # t => KeepWord(b)
      /\ net'[t].status = Tx(d).tmp \cup {"rx"}
  <2> DEFINE tos == {"rx_int"}
  <2>1. tos \subseteq {"rx_int", "tx_int", "hang"} /\ \A l : l \in tos => l = "rx_int"
    OBVIOUS
  <2>3. "rx" \in {"rx", "tx"} /\ t \in Snull!Devices
    BY <1>0
  <2> HIDE DEF tos
  <2>2. Snull!OrWrite(<<"tx", d>>, "rx_write", Snull!Twin(d), "rx", tos)
    BY DEF tos
  <2>4. /\ Tx(d).pc = "rx_write" /\ ~crashed /\ mode' = mode /\ next' = next /\ missed' = missed
        /\ fate' = fate /\ crashed' = crashed /\ odd' = IF net[t].status # Tx(d).tmp THEN "forced" ELSE odd
        /\ NetTyped' /\ CtxTyped' /\ Tx(d)'.pc \in tos
        /\ \A b \in Snull!Contexts : b # <<"tx", d>> => ctx'[b] = ctx[b]
        /\ \A b \in Snull!Devices : /\ KeepLists(b) /\ KeepUp(b) /\ KeepPoll(b) /\ KeepQueue(b)
                                    /\ net'[b].skb = net[b].skb
                                    /\ b # t => KeepWord(b)
        /\ net'[t].status = Tx(d).tmp \cup {"rx"}
    BY <2>1, <2>2, <2>3, OrWriteDoes, Zenon
  <2> QED  BY <2>1, <2>4
<1>5. SnullTypes /\ SnullWhere /\ SnullPackets /\ SnullSends /\ SnullAnnounces
  BY DEF SnullInv
<1> HIDE DEF c, t
<1>7. \A b \in Snull!Devices : Poll(b)' = Poll(b) /\ (b # d => Tx(b)' = Tx(b))
  BY <1>1, TxSteps DEF c
<1>8. SnullTypes'
  BY <1>1, <1>5 DEF SnullTypes
<1>9. SnullWhere'
  <2>1. TxWhere(d)'
    BY <1>1 DEF TxWhere, Buffer, SnullCalls
  <2>2. \A b \in Snull!Devices : ~net'[b].gone
    BY <1>1, <1>5, NobodyGone DEF KeepUp
  <2> QED  BY <1>1, <1>5, <2>1, <2>2, TxWhereStep DEF c, KeepLists, KeepPoll, KeepQueue
<1>10. SnullPackets'
  <2>1. ctx[c].pc = "rx_write" /\ ctx'[c].pc = "rx_int"
    BY <1>1 DEF Tx, c
  <2>2. \A e \in Snull!Devices : KeepLists(e) /\ net'[e].gone = net[e].gone /\ net'[e].up = net[e].up
                                 /\ net'[e].stopped = net[e].stopped
    BY <1>1 DEF KeepUp, KeepQueue
  <2> QED  BY <1>1, <1>5, <2>1, <2>2, PoolsKept DEF Holds
<1>11. SnullSends'
  <2>1. odd' # "forced" => odd' = odd /\ net'[t].status = net[t].status \cup {"rx"}
    BY <1>1
  <2>2. odd' # "forced" => Sends(d)'
    <3>1. net'[d].status = net[d].status /\ net'[d].skb = net[d].skb /\ net'[d].gone = net[d].gone
          /\ net'[d].stopped = net[d].stopped /\ net'[d].ppool = net[d].ppool
      BY <1>0, <1>1 DEF KeepLists, KeepUp, KeepQueue, KeepWord
    <3> QED  BY <1>1, <1>5, <2>1, <3>1 DEF SnullSends, Sends, Sending, Buffer
  <2>3. odd' # "forced" => Sends(t)'
    <3>1. net'[t].skb = net[t].skb /\ net'[t].gone = net[t].gone
          /\ net'[t].stopped = net[t].stopped /\ net'[t].ppool = net[t].ppool
      BY <1>0, <1>1 DEF KeepLists, KeepUp, KeepQueue
    <3> QED  BY <1>0, <1>5, <1>7, <2>1, <3>1 DEF SnullSends, Sends, Sending, Buffer
  <2> QED  BY <1>0, <1>1, <1>5, <2>2, <2>3 DEF SnullSends
<1>12. SnullAnnounces'
  <2>1. SUFFICES ASSUME odd' = "no" PROVE \A b \in Snull!Devices : Announces(b)'
    BY <1>1, <1>5 DEF SnullAnnounces
  <2>2. odd = "no" /\ net'[t].status = net[t].status \cup {"rx"}
    BY <1>1, <2>1
  <2>3. Announces(d) /\ Announces(t)
    BY <1>0, <1>5, <2>2 DEF SnullAnnounces
  <2>4. Announces(d)'
    <3>1. Snull!Twin(d) = t
      BY DEF t
    <3> QED  BY <1>0, <1>1, <1>7, <2>3, <3>1, AnnouncesKept DEF KeepLists, KeepWord
  <2>5. Announces(t)'
    <3>1. net'[t].rx_int = net[t].rx_int /\ net'[t].sched = net[t].sched /\ net'[t].rx_queue = net[t].rx_queue
      BY <1>0, <1>1 DEF KeepPoll, KeepLists
    <3> QED  BY <1>0, <1>1, <1>7, <2>2, <2>3, <3>1 DEF Announces
  <2> QED  BY <1>0, <2>4, <2>5
<1> QED  BY <1>8, <1>9, <1>10, <1>11, <1>12 DEF SnullInv

(* The write half, at the sender (snull.c:495).                           *)
LEMMA DoTxWrite ==
  ASSUME SnullInv, NEW d \in Snull!Devices, NEW tos, tos \subseteq {"tx_int", "hang"},
         Snull!OrWrite(<<"tx", d>>, "tx_write", d, "tx", tos)
  PROVE  SnullInv'
<1> DEFINE c == <<"tx", d>>
           t == Snull!Twin(d)
<1>0. c \in Snull!Contexts /\ t \in Snull!Devices /\ t # d /\ Snull!Twin(t) = d
      /\ \A b \in Snull!Devices : b = d \/ b = t
  BY SnullSets
<1>1. /\ Tx(d).pc = "tx_write" /\ ~crashed /\ mode' = mode /\ next' = next /\ missed' = missed
      /\ fate' = fate /\ crashed' = crashed /\ odd' = IF net[d].status # Tx(d).tmp THEN "forced" ELSE odd
      /\ NetTyped' /\ CtxTyped' /\ Tx(d)'.pc \in {"tx_int", "hang"}
      /\ \A b \in Snull!Contexts : b # c => ctx'[b] = ctx[b]
      /\ \A b \in Snull!Devices : /\ KeepLists(b) /\ KeepUp(b) /\ KeepPoll(b) /\ KeepQueue(b)
                                  /\ net'[b].skb = net[b].skb
                                  /\ b # d => KeepWord(b)
      /\ net'[d].status = Tx(d).tmp \cup {"tx"}
  <2>1. tos \subseteq {"rx_int", "tx_int", "hang"} /\ "tx" \in {"rx", "tx"}
    OBVIOUS
  <2>2. Tx(d)'.pc \in tos => Tx(d)'.pc \in {"tx_int", "hang"}
    OBVIOUS
  <2> QED  BY <2>1, <2>2, OrWriteDoes, Zenon
<1>5. SnullTypes /\ SnullWhere /\ SnullPackets /\ SnullSends /\ SnullAnnounces
  BY DEF SnullInv
<1> HIDE DEF c, t
<1>7. \A b \in Snull!Devices : Poll(b)' = Poll(b) /\ (b # d => Tx(b)' = Tx(b))
  BY <1>1, TxSteps DEF c
<1>8. SnullTypes'
  BY <1>1, <1>5 DEF SnullTypes
<1>9. SnullWhere'
  <2>1. TxWhere(d)'
    BY <1>1 DEF TxWhere, Buffer, SnullCalls
  <2>2. \A b \in Snull!Devices : ~net'[b].gone
    BY <1>1, <1>5, NobodyGone DEF KeepUp
  <2> QED  BY <1>1, <1>5, <2>1, <2>2, TxWhereStep DEF c, KeepLists, KeepPoll, KeepQueue
<1>10. SnullPackets'
  <2>1. ctx[c].pc = "tx_write" /\ ctx'[c].pc \in {"tx_int", "hang"}
    BY <1>1 DEF Tx, c
  <2>2. \A e \in Snull!Devices : KeepLists(e) /\ net'[e].gone = net[e].gone /\ net'[e].up = net[e].up
                                 /\ net'[e].stopped = net[e].stopped
    BY <1>1 DEF KeepUp, KeepQueue
  <2> QED  BY <1>1, <1>5, <2>1, <2>2, PoolsKept DEF Holds
<1>13. odd' # "forced" => odd' = odd /\ net'[d].status = net[d].status \cup {"tx"}
  BY <1>1
<1>11. SnullSends'
  <2>2. odd' # "forced" => Sends(d)'
    <3>1. net'[d].skb = net[d].skb /\ net'[d].gone = net[d].gone
          /\ net'[d].stopped = net[d].stopped /\ net'[d].ppool = net[d].ppool
      BY <1>0, <1>1 DEF KeepLists, KeepUp, KeepQueue
    <3> QED  BY <1>1, <1>5, <1>13, <3>1 DEF SnullSends, Sends, Sending, Buffer
  <2>3. \A e \in Snull!Devices : e # d =>
           /\ KeepWord(e) /\ net'[e].gone = net[e].gone
           /\ net'[e].stopped = net[e].stopped /\ net'[e].ppool = net[e].ppool
    BY <1>1 DEF KeepLists, KeepUp, KeepQueue
  <2>4. fate' = {} /\ odd' \in {odd, "forced"} /\ (crashed' => FALSE)
    BY <1>1, <1>5 DEF SnullSends
  <2> QED  BY <1>1, <1>5, <2>2, <2>3, <2>4, TxSendsStep DEF c
<1>12. SnullAnnounces'
  <2>1. SUFFICES ASSUME odd' = "no" PROVE \A b \in Snull!Devices : Announces(b)'
    BY <1>1, <1>5 DEF SnullAnnounces
  <2>3. Announces(d) /\ Announces(t)
    BY <1>0, <1>5, <1>13, <2>1 DEF SnullAnnounces
  <2>4. Announces(d)'
    <3>1. Snull!Twin(d) = t
      BY DEF t
    <3>2. net'[d].rx_int = net[d].rx_int /\ net'[d].sched = net[d].sched /\ net'[d].rx_queue = net[d].rx_queue
      BY <1>0, <1>1 DEF KeepPoll, KeepLists
    <3> QED  BY <1>0, <1>1, <1>7, <1>13, <2>1, <2>3, <3>1, <3>2 DEF Announces
  <2>5. Announces(t)'
    <3>1. net'[t].rx_int = net[t].rx_int /\ net'[t].sched = net[t].sched /\ net'[t].rx_queue = net[t].rx_queue
          /\ net'[t].status = net[t].status
      BY <1>0, <1>1 DEF KeepPoll, KeepLists, KeepWord
    <3> QED  BY <1>0, <1>1, <1>7, <2>3, <3>1 DEF Announces
  <2> QED  BY <1>0, <2>4, <2>5
<1> QED  BY <1>8, <1>9, <1>10, <1>11, <1>12 DEF SnullInv

(* The simulated lockup: the interrupt of the sender does not come        *)
(* (snull.c:496-501).                                                     *)
LEMMA DoHang ==
  ASSUME SnullInv, NEW d \in Snull!Devices, Snull!Hang(<<"tx", d>>, d)
  PROVE  SnullInv'
<1> DEFINE c == <<"tx", d>>
           r == [net[d] EXCEPT !.stopped = TRUE]
<1>0. c \in Snull!Contexts
  BY SnullSets
<1>1. ctx[c].pc = "hang" /\ ~crashed /\ Snull!Go(c, "idle")
  BY Zenon DEF Snull!Hang, Snull!At
<1>2. net' = [net EXCEPT ![d].stopped = TRUE] /\ odd' = IF odd = "no" THEN "hung" ELSE odd
  BY Zenon DEF Snull!Hang
<1>3. mode' = mode /\ next' = next /\ fate' = fate /\ crashed' = crashed /\ missed' = missed
  BY Zenon DEF Snull!Hang
<1>4. SnullTypes /\ SnullWhere /\ SnullPackets /\ SnullSends /\ SnullAnnounces /\ NetTyped /\ CtxTyped
  BY DEF SnullInv, SnullTypes
<1>5. net[d] \in SnullNet
  BY <1>4 DEF NetTyped
<1>6. r \in SnullNet /\ net' = [net EXCEPT ![d] = r] /\ r.stopped = TRUE
  BY <1>2, <1>4, <1>5, Zenon DEF SnullNet, NetTyped
<1>7. /\ r.ppool = net[d].ppool /\ r.up = net[d].up /\ r.gone = net[d].gone /\ r.skb = net[d].skb
      /\ r.rx_queue = net[d].rx_queue /\ r.sched = net[d].sched /\ r.rx_int = net[d].rx_int
      /\ r.status = net[d].status
  BY <1>5 DEF SnullNet
<1> HIDE DEF r, c
<1>8. NetTyped' /\ net'[d] = r /\ \A e \in Snull!Devices : e # d => net'[e] = net[e]
  BY <1>4, <1>6, NetOne, Zenon
<1>9. CtxTyped' /\ ctx'[c].pc = "idle" /\ \A b \in Snull!Contexts : b # c => ctx'[b] = ctx[b]
  <2>1. "idle" \in SnullCalls \cup PollCalls
    BY DEF SnullCalls
  <2> QED  BY <1>0, <1>1, <1>4, <2>1, CtxGo DEF Moves
<1>10. Tx(d).pc = "hang" /\ Tx(d)'.pc = "idle"
  BY <1>1, <1>9 DEF Tx, c
<1>11. odd \in {"no", "hung", "forced"} /\ odd' \in {"hung", "forced"} /\ (odd = "forced" <=> odd' = "forced")
  BY <1>2, <1>4 DEF SnullTypes
<1>12. \A e \in Snull!Devices : /\ KeepLists(e) /\ KeepUp(e) /\ KeepPoll(e) /\ KeepWord(e)
                                /\ e # d => net'[e].stopped = net[e].stopped
  BY <1>7, <1>8 DEF KeepLists, KeepUp, KeepPoll, KeepWord
<1>13. SnullTypes'
  BY <1>3, <1>4, <1>8, <1>9, <1>11 DEF SnullTypes
<1>14. SnullWhere'
  <2>1. TxWhere(d)'
    BY <1>10 DEF TxWhere, Buffer, SnullCalls
  <2>2. \A b \in Snull!Devices : ~net'[b].gone
    BY <1>4, <1>10, <1>12, NobodyGone DEF KeepUp
  <2> QED  BY <1>3, <1>4, <1>9, <1>11, <1>12, <2>1, <2>2, TxWhereStep DEF c, KeepLists, KeepPoll
<1>15. SnullPackets'
  BY <1>1, <1>3, <1>4, <1>9, <1>11, <1>12, PoolsKept DEF Holds, KeepUp
<1>16. SnullSends'
  <2>1. odd' # "forced" => Sends(d)'
    BY <1>4, <1>6, <1>7, <1>8, <1>10, <1>11 DEF SnullSends, Sends, Sending, Buffer
  <2>2. \A e \in Snull!Devices : e # d =>
           /\ KeepWord(e) /\ net'[e].gone = net[e].gone
           /\ net'[e].stopped = net[e].stopped /\ net'[e].ppool = net[e].ppool
    BY <1>12 DEF KeepLists, KeepUp
  <2>3. fate' = {} /\ ~crashed'
    BY <1>1, <1>3, <1>4 DEF SnullSends
  <2> QED  BY <1>4, <1>9, <1>11, <2>1, <2>2, <2>3, TxSendsStep DEF c
<1>17. SnullAnnounces'
  BY <1>11 DEF SnullAnnounces
<1> QED  BY <1>13, <1>14, <1>15, <1>16, <1>17 DEF SnullInv

(* Once an update is explained by "forced", only packets and places count. *)
LEMMA ForcedStep ==
  ASSUME SnullInv, NEW d \in Snull!Devices, SnullTypes', TxWhere(d)', odd' = "forced", fate' = fate,
         ~crashed, crashed' = crashed, mode' = mode, next' = next,
         \A b \in Snull!Contexts : b # <<"tx", d>> => ctx'[b] = ctx[b],
         Tx(d).pc # "idle" \/ net[d].up \/ ~net[d].gone, ~Holds(<<"tx", d>>), ~Holds(<<"tx", d>>)',
         \A e \in Snull!Devices :
           /\ KeepLists(e) /\ KeepPoll(e) /\ net'[e].gone = net[e].gone
           /\ e # d => net'[e].stopped = net[e].stopped
  PROVE  SnullInv'
<1>1. SnullTypes /\ SnullWhere /\ SnullPackets /\ SnullSends
  BY DEF SnullInv
<1>2. SnullWhere'
  <2>1. \A e \in Snull!Devices : ~net'[e].gone
    BY <1>1, NobodyGone
  <2> QED  BY <1>1, <2>1, TxWhereStep DEF KeepLists, KeepPoll
<1>3. SnullPackets'
  <2>1. \A b \in Snull!Contexts : (Holds(b)' <=> Holds(b)) /\ (Holds(b) => ctx'[b].pkt = ctx[b].pkt)
    BY DEF Holds
  <2> QED  BY <1>1, <2>1, PoolsKept
<1>4. SnullSends' /\ SnullAnnounces'
  BY <1>1 DEF SnullSends, SnullAnnounces
<1> QED  BY <1>2, <1>3, <1>4 DEF SnullInv

(* The kernel gives the transmission up (snull.c:537-545).                *)
LEMMA DoTimeout ==
  ASSUME SnullInv, NEW d \in Snull!Devices, Snull!Timeout(<<"tx", d>>, d)
  PROVE  SnullInv'
<1> DEFINE c == <<"tx", d>>
           r == [net[d] EXCEPT !.status = {"tx"}]
<1>0. c \in Snull!Contexts
  BY SnullSets
<1>1. ctx[c].pc = "idle" /\ ~crashed /\ net[d].up /\ Snull!Go(c, "to_int")
  BY Zenon DEF Snull!Timeout, Snull!At
<1>2. net' = [net EXCEPT ![d].status = {"tx"}] /\ odd' = "forced"
  BY Zenon DEF Snull!Timeout
<1>3. mode' = mode /\ next' = next /\ fate' = fate /\ crashed' = crashed /\ missed' = missed
  BY Zenon DEF Snull!Timeout
<1>4. SnullTypes /\ NetTyped /\ CtxTyped
  BY DEF SnullInv, SnullTypes
<1>5. net[d] \in SnullNet
  BY <1>4 DEF NetTyped
<1>6. r \in SnullNet /\ net' = [net EXCEPT ![d] = r]
  BY <1>2, <1>4, <1>5 DEF SnullNet, NetTyped
<1>7. /\ r.ppool = net[d].ppool /\ r.gone = net[d].gone
      /\ r.rx_queue = net[d].rx_queue /\ r.sched = net[d].sched /\ r.rx_int = net[d].rx_int
  BY <1>5 DEF SnullNet
<1> HIDE DEF r, c
<1>8. NetTyped' /\ net'[d] = r /\ \A e \in Snull!Devices : e # d => net'[e] = net[e]
  BY <1>4, <1>6, NetOne, Zenon
<1>9. CtxTyped' /\ ctx'[c].pc = "to_int" /\ \A b \in Snull!Contexts : b # c => ctx'[b] = ctx[b]
  <2>1. "to_int" \in SnullCalls \cup PollCalls
    BY DEF SnullCalls
  <2> QED  BY <1>0, <1>1, <1>4, <2>1, CtxGo DEF Moves
<1>12. \A e \in Snull!Devices : /\ KeepLists(e) /\ KeepPoll(e) /\ net'[e].gone = net[e].gone
                                /\ e # d => net'[e].stopped = net[e].stopped
  BY <1>7, <1>8 DEF KeepLists, KeepPoll
<1>13. SnullTypes'
  BY <1>2, <1>3, <1>4, <1>8, <1>9 DEF SnullTypes
<1>14. TxWhere(d)' /\ ~Holds(c) /\ ~Holds(c)'
  BY <1>1, <1>2, <1>9 DEF TxWhere, Buffer, SnullCalls, Tx, Holds, c
<1> QED  BY <1>1, <1>2, <1>3, <1>9, <1>12, <1>13, <1>14, ForcedStep DEF c

(* The queue is started again after that (snull.c:546-549).               *)
LEMMA DoTimeoutWake ==
  ASSUME SnullInv, NEW d \in Snull!Devices, Snull!TimeoutWake(<<"tx", d>>, d)
  PROVE  SnullInv'
<1> DEFINE c == <<"tx", d>>
           r == [net[d] EXCEPT !.stopped = FALSE]
<1>0. c \in Snull!Contexts
  BY SnullSets
<1>1. ctx[c].pc = "to_wake" /\ ~crashed /\ Snull!Go(c, "idle")
  BY Zenon DEF Snull!TimeoutWake, Snull!At
<1>2. net' = [net EXCEPT ![d].stopped = FALSE]
      /\ odd' = IF net[d].ppool = Snull!NULL \/ odd = "hung" THEN "forced" ELSE odd
  BY Zenon DEF Snull!TimeoutWake, Snull!Start
<1>3. mode' = mode /\ next' = next /\ fate' = fate /\ crashed' = crashed /\ missed' = missed
  BY Zenon DEF Snull!TimeoutWake
<1>4. SnullTypes /\ NetTyped /\ CtxTyped
  BY DEF SnullInv, SnullTypes
<1>5. net[d] \in SnullNet
  BY <1>4 DEF NetTyped
<1>6. r \in SnullNet /\ net' = [net EXCEPT ![d] = r]
  BY <1>2, <1>4, <1>5, Zenon DEF SnullNet, NetTyped
<1>7. /\ r.ppool = net[d].ppool /\ r.gone = net[d].gone
      /\ r.rx_queue = net[d].rx_queue /\ r.sched = net[d].sched /\ r.rx_int = net[d].rx_int
  BY <1>5 DEF SnullNet
<1> HIDE DEF r, c
<1>8. NetTyped' /\ net'[d] = r /\ \A e \in Snull!Devices : e # d => net'[e] = net[e]
  BY <1>4, <1>6, NetOne, Zenon
<1>9. CtxTyped' /\ ctx'[c].pc = "idle" /\ \A b \in Snull!Contexts : b # c => ctx'[b] = ctx[b]
  <2>1. "idle" \in SnullCalls \cup PollCalls
    BY DEF SnullCalls
  <2> QED  BY <1>0, <1>1, <1>4, <2>1, CtxGo DEF Moves
<1>10. Tx(d).pc = "to_wake" /\ odd' = "forced"
  <2>1. TxWhere(d) /\ Tx(d).pc = "to_wake"
    BY <1>1 DEF SnullInv, SnullWhere, Tx, c
  <2> QED  BY <1>2, <2>1 DEF TxWhere
<1>12. \A e \in Snull!Devices : /\ KeepLists(e) /\ KeepPoll(e) /\ net'[e].gone = net[e].gone
                                /\ e # d => net'[e].stopped = net[e].stopped
  BY <1>7, <1>8 DEF KeepLists, KeepPoll
<1>13. SnullTypes'
  BY <1>3, <1>4, <1>8, <1>9, <1>10 DEF SnullTypes
<1>14. TxWhere(d)' /\ ~Holds(c) /\ ~Holds(c)'
  BY <1>1, <1>9 DEF TxWhere, Buffer, SnullCalls, Tx, Holds, c
<1> QED  BY <1>1, <1>3, <1>9, <1>10, <1>12, <1>13, <1>14, ForcedStep DEF c

(* The interface is brought up (snull.c:202-217).                         *)
LEMMA DoOpen ==
  ASSUME SnullInv, NEW d \in Snull!Devices, Snull!Open(d)
  PROVE  SnullInv'
<1> DEFINE r == [net[d] EXCEPT !.stopped = FALSE, !.up = TRUE]
<1>0. <<"tx", d>> \in Snull!Contexts
  BY SnullSets
<1>1. Tx(d).pc = "idle" /\ ~crashed /\ ~net[d].gone
  BY Zenon DEF Snull!Open, Snull!At, Tx
<1>2. net' = [net EXCEPT ![d].stopped = FALSE, ![d].up = TRUE]
      /\ odd' = IF net[d].skb \/ net[d].ppool = Snull!NULL THEN "forced" ELSE odd
  BY Zenon DEF Snull!Open
<1>3. mode' = mode /\ next' = next /\ fate' = fate /\ crashed' = crashed /\ missed' = missed /\ ctx' = ctx
  BY Zenon DEF Snull!Open
<1>4. SnullTypes /\ SnullWhere /\ SnullPackets /\ SnullSends /\ SnullAnnounces /\ NetTyped /\ CtxTyped
  BY DEF SnullInv, SnullTypes
<1>5. net[d] \in SnullNet
  BY <1>4 DEF NetTyped
<1>6. r \in SnullNet /\ net' = [net EXCEPT ![d] = r] /\ r.stopped = FALSE
  BY <1>2, <1>4, <1>5, Zenon DEF SnullNet, NetTyped
<1>7. /\ r.ppool = net[d].ppool /\ r.gone = net[d].gone /\ r.skb = net[d].skb
      /\ r.rx_queue = net[d].rx_queue /\ r.sched = net[d].sched /\ r.rx_int = net[d].rx_int
      /\ r.status = net[d].status
  BY <1>5 DEF SnullNet
<1> HIDE DEF r
<1>8. NetTyped' /\ net'[d] = r /\ \A e \in Snull!Devices : e # d => net'[e] = net[e]
  BY <1>4, <1>6, NetOne, Zenon
<1>10. Tx(d)'.pc = "idle" /\ \A e \in Snull!Devices : Tx(e)' = Tx(e) /\ Poll(e)' = Poll(e)
  BY <1>1, <1>3 DEF Tx, Poll
<1>11. odd \in {"no", "hung", "forced"} /\ odd' \in {odd, "forced"}
  BY <1>2, <1>4 DEF SnullTypes
<1>12. \A e \in Snull!Devices : /\ KeepLists(e) /\ KeepPoll(e) /\ KeepWord(e) /\ net'[e].gone = net[e].gone
                                /\ e # d => net'[e].stopped = net[e].stopped /\ net'[e].up = net[e].up
  BY <1>7, <1>8 DEF KeepLists, KeepPoll, KeepWord
<1>13. SnullTypes'
  BY <1>3, <1>4, <1>8, <1>11 DEF SnullTypes, CtxTyped
<1>14. SnullWhere'
  <2>1. TxWhere(d)'
    BY <1>10 DEF TxWhere, Buffer, SnullCalls
  <2>2. \A b \in Snull!Devices : ~net'[b].gone
    BY <1>1, <1>4, <1>12, NobodyGone
  <2> QED  BY <1>3, <1>4, <1>11, <1>12, <2>1, <2>2, TxWhereStep DEF KeepLists, KeepPoll
<1>15. SnullPackets'
  <2>1. \A e \in Snull!Devices : net'[e].up /\ net'[e].stopped => net[e].up /\ net[e].stopped
    BY <1>6, <1>8, <1>12
  <2> QED  BY <1>3, <1>4, <1>11, <1>12, <2>1, PoolsKept DEF Holds
<1>16. SnullSends'
  <2>1. odd' # "forced" => Sends(d)'
    BY <1>2, <1>4, <1>7, <1>8, <1>10, <1>11 DEF SnullSends, Sends, Sending, Buffer
  <2>2. \A e \in Snull!Devices : e # d =>
           /\ KeepWord(e) /\ net'[e].gone = net[e].gone
           /\ net'[e].stopped = net[e].stopped /\ net'[e].ppool = net[e].ppool
    BY <1>12 DEF KeepLists
  <2>3. fate' = {} /\ ~crashed'
    BY <1>1, <1>3, <1>4 DEF SnullSends
  <2> QED  BY <1>3, <1>4, <1>11, <2>1, <2>2, <2>3, TxSendsStep
<1>17. SnullAnnounces'
  <2>1. SUFFICES ASSUME odd' = "no", NEW e \in Snull!Devices PROVE Announces(e)'
    BY <1>3, <1>4, <1>11 DEF SnullAnnounces
  <2>2. Announces(e) /\ Snull!Twin(e) \in Snull!Devices
    BY <1>4, <1>11, <2>1, SnullSets DEF SnullAnnounces
  <2> QED  BY <1>3, <1>10, <1>12, <2>2, AnnouncesKept DEF KeepLists, KeepWord
<1> QED  BY <1>13, <1>14, <1>15, <1>16, <1>17 DEF SnullInv

(* The interface is brought down (snull.c:219-225).                       *)
LEMMA DoStop ==
  ASSUME SnullInv, NEW d \in Snull!Devices, Snull!Stop(d)
  PROVE  SnullInv'
<1> DEFINE r == [net[d] EXCEPT !.stopped = TRUE, !.up = FALSE]
<1>0. <<"tx", d>> \in Snull!Contexts
  BY SnullSets
<1>1. Tx(d).pc = "idle" /\ ~crashed /\ net[d].up
  BY Zenon DEF Snull!Stop, Snull!At, Tx
<1>2. net' = [net EXCEPT ![d].stopped = TRUE, ![d].up = FALSE]
  BY Zenon DEF Snull!Stop
<1>3. mode' = mode /\ next' = next /\ fate' = fate /\ crashed' = crashed /\ missed' = missed /\ ctx' = ctx
      /\ odd' = odd
  BY Zenon DEF Snull!Stop
<1>4. SnullTypes /\ SnullWhere /\ SnullPackets /\ SnullSends /\ SnullAnnounces /\ NetTyped /\ CtxTyped
  BY DEF SnullInv, SnullTypes
<1>5. net[d] \in SnullNet
  BY <1>4 DEF NetTyped
<1>6. r \in SnullNet /\ net' = [net EXCEPT ![d] = r] /\ r.stopped = TRUE /\ r.up = FALSE
  BY <1>2, <1>4, <1>5, Zenon DEF SnullNet, NetTyped
<1>7. /\ r.ppool = net[d].ppool /\ r.gone = net[d].gone /\ r.skb = net[d].skb
      /\ r.rx_queue = net[d].rx_queue /\ r.sched = net[d].sched /\ r.rx_int = net[d].rx_int
      /\ r.status = net[d].status
  BY <1>5 DEF SnullNet
<1> HIDE DEF r
<1>8. NetTyped' /\ net'[d] = r /\ \A e \in Snull!Devices : e # d => net'[e] = net[e]
  BY <1>4, <1>6, NetOne, Zenon
<1>10. Tx(d)'.pc = "idle" /\ \A e \in Snull!Devices : Tx(e)' = Tx(e) /\ Poll(e)' = Poll(e)
  BY <1>1, <1>3 DEF Tx, Poll
<1>12. \A e \in Snull!Devices : /\ KeepLists(e) /\ KeepPoll(e) /\ KeepWord(e) /\ net'[e].gone = net[e].gone
                                /\ e # d => net'[e].stopped = net[e].stopped /\ net'[e].up = net[e].up
  BY <1>7, <1>8 DEF KeepLists, KeepPoll, KeepWord
<1>13. SnullTypes'
  BY <1>3, <1>4, <1>8 DEF SnullTypes, CtxTyped
<1>14. SnullWhere'
  <2>1. TxWhere(d)'
    BY <1>10 DEF TxWhere, Buffer, SnullCalls
  <2>2. \A b \in Snull!Devices : ~net'[b].gone
    BY <1>1, <1>4, <1>12, NobodyGone
  <2> QED  BY <1>3, <1>4, <1>12, <2>1, <2>2, TxWhereStep DEF KeepLists, KeepPoll
<1>15. SnullPackets'
  <2>1. \A e \in Snull!Devices : net'[e].up /\ net'[e].stopped => net[e].up /\ net[e].stopped
    BY <1>6, <1>8, <1>12
  <2> QED  BY <1>3, <1>4, <1>12, <2>1, PoolsKept DEF Holds
<1>16. SnullSends'
  <2>1. odd' # "forced" => Sends(d)'
    BY <1>3, <1>4, <1>6, <1>7, <1>8, <1>10 DEF SnullSends, Sends, Sending, Buffer
  <2>2. \A e \in Snull!Devices : e # d =>
           /\ KeepWord(e) /\ net'[e].gone = net[e].gone
           /\ net'[e].stopped = net[e].stopped /\ net'[e].ppool = net[e].ppool
    BY <1>12 DEF KeepLists
  <2>3. fate' = {} /\ ~crashed'
    BY <1>1, <1>3, <1>4 DEF SnullSends
  <2> QED  BY <1>3, <1>4, <2>1, <2>2, <2>3, TxSendsStep
<1>17. SnullAnnounces'
  <2>1. SUFFICES ASSUME odd' = "no", NEW e \in Snull!Devices PROVE Announces(e)'
    BY <1>3, <1>4 DEF SnullAnnounces
  <2>2. Announces(e) /\ Snull!Twin(e) \in Snull!Devices
    BY <1>3, <1>4, <2>1, SnullSets DEF SnullAnnounces
  <2> QED  BY <1>3, <1>10, <1>12, <2>2, AnnouncesKept DEF KeepLists, KeepWord
<1> QED  BY <1>13, <1>14, <1>15, <1>16, <1>17 DEF SnullInv

(* A step of the poll disturbs no skb.                                    *)
LEMMA PollSendsStep ==
  ASSUME SnullSends, NEW d \in Snull!Devices,
         \A b \in Snull!Contexts : b # <<"poll", d>> => ctx'[b] = ctx[b],
         \A e \in Snull!Devices :
           /\ KeepWord(e) /\ net'[e].gone = net[e].gone /\ net'[e].stopped = net[e].stopped
           /\ net'[e].ppool = net[e].ppool \/ net'[e].ppool # Snull!NULL,
         odd' = odd, fate' = fate, ~crashed, crashed' = crashed
  PROVE  SnullSends'
<1>1. \A e \in Snull!Devices : Tx(e)' = Tx(e)
  BY PollSteps
<1>2. ASSUME odd # "forced", NEW e \in Snull!Devices PROVE Sends(e)'
  BY <1>1, <1>2, SendsKept DEF SnullSends
<1> QED  BY <1>2 DEF SnullSends

(* A step of the poll that no packet takes part in and that leaves net of  *)
(* every device alone but for sched and rx_int                             *)
LEMMA PollStep ==
  ASSUME SnullInv, NEW d \in Snull!Devices, SnullTypes', PollWhere(d)',
         \A b \in Snull!Contexts : b # <<"poll", d>> => ctx'[b] = ctx[b],
         Poll(d).pc # "idle" \/ net[d].sched,
         ~Holds(<<"poll", d>>), ~Holds(<<"poll", d>>)', Poll(d).pc # "wake",
         mode' = mode, next' = next, odd' = odd, fate' = fate, ~crashed, crashed' = crashed,
         \A e \in Snull!Devices :
           /\ KeepLists(e) /\ KeepWord(e) /\ KeepUp(e) /\ KeepQueue(e)
           /\ e # d => KeepPoll(e)
           /\ net'[e].sched => net[e].sched,
         odd = "no" =>
           /\ Announces(d) => Announces(d)'
           /\ \A e \in missed' : e \in missed
           /\ \A e \in missed : e \in missed' \/ e = d
  PROVE  SnullInv'
<1>0. SnullTypes /\ SnullWhere /\ SnullPackets /\ SnullSends /\ SnullAnnounces
  BY DEF SnullInv
<1>1. \A e \in Snull!Devices : Tx(e)' = Tx(e) /\ (e # d => Poll(e)' = Poll(e))
  BY PollSteps
<1>2. SnullWhere'
  <2>1. \A e \in Snull!Devices : ~net'[e].gone
    BY <1>0, NobodyGone DEF KeepUp
  <2> QED  BY <1>0, <2>1, PollWhereStep DEF KeepLists, KeepQueue
<1>3. SnullPackets'
  <2>1. \A b \in Snull!Contexts : (Holds(b)' <=> Holds(b)) /\ (Holds(b) => ctx'[b].pkt = ctx[b].pkt)
    BY DEF Holds
  <2>2. \A e \in Snull!Devices : KeepLists(e) /\ net'[e].gone = net[e].gone /\ net'[e].up = net[e].up
                                 /\ net'[e].stopped = net[e].stopped
    BY DEF KeepUp, KeepQueue
  <2>3. \A b \in Snull!Contexts : ctx[b].pc = "wake" => ctx'[b] = ctx[b]
    BY DEF Poll
  <2> QED  BY <1>0, <2>1, <2>2, <2>3, PoolsKept
<1>4. SnullSends'
  BY <1>0, PollSendsStep DEF KeepUp, KeepQueue, KeepLists
<1>5. SnullAnnounces'
  <2>1. SUFFICES ASSUME odd = "no" PROVE (~mode.napi => missed' = {}) /\ \A e \in Snull!Devices : Announces(e)'
    BY DEF SnullAnnounces
  <2>2. ASSUME NEW e \in Snull!Devices, e # d PROVE Announces(e)'
    <3>1. Announces(e) /\ Snull!Twin(e) \in Snull!Devices
      BY <1>0, <2>1, SnullSets DEF SnullAnnounces
    <3> QED  BY <1>1, <2>1, <2>2, <3>1, AnnouncesKept DEF KeepWord, KeepLists
  <2>3. Announces(d)'
    BY <1>0, <2>1 DEF SnullAnnounces
  <2>4. ~mode.napi => missed' = {}
    BY <1>0, <2>1 DEF SnullAnnounces
  <2> QED  BY <2>2, <2>3, <2>4
<1> QED  BY <1>2, <1>3, <1>4, <1>5 DEF SnullInv

(* The queue is not empty for the poll who saw it so, and net is as it was *)
LEMMA NetSame ==
  ASSUME net' = net
  PROVE  \A e \in Snull!Devices : KeepLists(e) /\ KeepWord(e) /\ KeepUp(e) /\ KeepQueue(e) /\ KeepPoll(e)
BY DEF KeepLists, KeepWord, KeepUp, KeepQueue, KeepPoll

(* The kernel calls the scheduled poll (snull.c:287-293).                 *)
LEMMA DoPollStart ==
  ASSUME SnullInv, NEW d \in Snull!Devices, Snull!PollStart(<<"poll", d>>, d)
  PROVE  SnullInv'
<1> DEFINE c == <<"poll", d>>
           r == [ctx[c] EXCEPT !.pc = "test", !.n = 0]
<1>0. c \in Snull!Contexts
  BY SnullSets
<1>1. ctx[c].pc = "idle" /\ ~crashed /\ net[d].sched
  BY Zenon DEF Snull!PollStart, Snull!At
<1>2. ctx' = [ctx EXCEPT ![c].pc = "test", ![c].n = 0]
  BY Zenon DEF Snull!PollStart
<1>3. mode' = mode /\ net' = net /\ next' = next /\ odd' = odd /\ missed' = missed /\ fate' = fate
      /\ crashed' = crashed
  BY Zenon DEF Snull!PollStart
<1>4. SnullTypes /\ SnullWhere /\ CtxTyped
  BY DEF SnullInv, SnullTypes
<1>5. CtxTyped' /\ ctx'[c].pc = "test" /\ \A b \in Snull!Contexts : b # c => ctx'[b] = ctx[b]
  <2>1. ctx[c] \in SnullCtx /\ 0 \in 0..Quota /\ "test" \in SnullCalls \cup PollCalls
    BY <1>0, <1>4, DriversAssumption DEF CtxTyped, PollCalls
  <2>2. r \in SnullCtx /\ r.pc = "test"
    BY <2>1, Zenon DEF SnullCtx
  <2>3. ctx' = [ctx EXCEPT ![c] = r]
    BY <1>0, <1>2, <1>4, Zenon DEF CtxTyped
  <2> HIDE DEF r, c
  <2> QED  BY <1>0, <1>4, <2>2, <2>3, CtxOne, Zenon
<1>6. Poll(d).pc = "idle" /\ Poll(d)'.pc = "test"
  BY <1>1, <1>5 DEF Poll
<1>7. SnullTypes'
  BY <1>3, <1>4, <1>5 DEF SnullTypes, NetTyped
<1>8. PollWhere(d)' /\ ~Holds(c) /\ ~Holds(c)'
  BY <1>1, <1>3, <1>4, <1>5, <1>6 DEF SnullWhere, PollWhere, Buffer, PollCalls, Holds
<1>9. Announces(d) => Announces(d)'
  <2>1. Tx(Snull!Twin(d))' = Tx(Snull!Twin(d))
    BY <1>5, PollSteps, SnullSets
  <2> QED  BY <1>1, <1>3, <1>6, <2>1 DEF Announces
<1> HIDE DEF c
<1> QED  BY <1>1, <1>3, <1>5, <1>6, <1>7, <1>8, <1>9, NetSame, PollStep DEF c

(* The poll looks whether there is a packet (snull.c:294).                *)
LEMMA DoPollTest ==
  ASSUME SnullInv, NEW d \in Snull!Devices, Snull!PollTest(<<"poll", d>>, d)
  PROVE  SnullInv'
<1> DEFINE c == <<"poll", d>>
           l == IF ctx[c].n < Quota /\ net[d].rx_queue # Snull!NULL THEN "dequeue" ELSE "end"
<1>0. c \in Snull!Contexts
  BY SnullSets
<1>1. ctx[c].pc = "test" /\ ~crashed /\ Snull!Go(c, l)
  BY Zenon DEF Snull!PollTest, Snull!At
<1>3. mode' = mode /\ net' = net /\ next' = next /\ odd' = odd /\ missed' = missed /\ fate' = fate
      /\ crashed' = crashed
  BY Zenon DEF Snull!PollTest
<1>4. SnullTypes /\ SnullWhere /\ CtxTyped
  BY DEF SnullInv, SnullTypes
<1>40. l \in SnullCalls \cup PollCalls /\ l \in {"dequeue", "end"}
       /\ (l = "dequeue" => ctx[c].n < Quota /\ net[d].rx_queue # Snull!NULL)
  BY DEF PollCalls
<1> HIDE DEF l, c
<1>5. CtxTyped' /\ ctx'[c].pc = l /\ ctx'[c].n = ctx[c].n /\ \A b \in Snull!Contexts : b # c => ctx'[b] = ctx[b]
  BY <1>0, <1>1, <1>4, <1>40, CtxGo DEF Moves
<1>6. Poll(d).pc = "test" /\ Poll(d)'.pc = l /\ Poll(d)'.n = ctx[c].n
  BY <1>1, <1>5 DEF Poll, c
<1>7. SnullTypes'
  BY <1>3, <1>4, <1>5 DEF SnullTypes, NetTyped
<1>8. PollWhere(d)' /\ ~Holds(c) /\ ~Holds(c)'
  <2>1. PollWhere(d)
    BY <1>4 DEF SnullWhere
  <2>2. PollWhere(d)'
    BY <1>3, <1>40, <1>6, <2>1 DEF PollWhere, Buffer, PollCalls
  <2> QED  BY <1>1, <1>5, <1>40, <2>2 DEF Holds
<1>9. Announces(d) => Announces(d)'
  <2>1. Tx(Snull!Twin(d))' = Tx(Snull!Twin(d))
    BY <1>5, PollSteps, SnullSets DEF c
  <2> QED  BY <1>1, <1>3, <1>40, <1>6, <2>1 DEF Announces
<1> QED  BY <1>1, <1>3, <1>5, <1>6, <1>7, <1>8, <1>9, NetSame, PollStep DEF c

(* The poll has emptied the queue, or its quota is used up                *)
(* (snull.c:317-320).                                                     *)
LEMMA DoPollEnd ==
  ASSUME SnullInv, NEW d \in Snull!Devices, Snull!PollEnd(<<"poll", d>>, d)
  PROVE  SnullInv'
<1> DEFINE c == <<"poll", d>>
           l == IF net[d].rx_queue = Snull!NULL THEN "complete" ELSE "idle"
<1>0. c \in Snull!Contexts
  BY SnullSets
<1>1. ctx[c].pc = "end" /\ ~crashed /\ Snull!Go(c, l)
      /\ missed' = IF net[d].rx_queue = Snull!NULL THEN missed \ {d} ELSE missed
  BY Zenon DEF Snull!PollEnd, Snull!At
<1>3. mode' = mode /\ net' = net /\ next' = next /\ odd' = odd /\ fate' = fate /\ crashed' = crashed
  BY Zenon DEF Snull!PollEnd
<1>4. SnullTypes /\ SnullWhere /\ CtxTyped
  BY DEF SnullInv, SnullTypes
<1>40. l \in SnullCalls \cup PollCalls
       /\ IF net[d].rx_queue = Snull!NULL THEN l = "complete" ELSE l = "idle"
  BY DEF PollCalls
<1> HIDE DEF l, c
<1>5. CtxTyped' /\ ctx'[c].pc = l /\ \A b \in Snull!Contexts : b # c => ctx'[b] = ctx[b]
  BY <1>0, <1>1, <1>4, <1>40, CtxGo DEF Moves
<1>6. Poll(d).pc = "end" /\ Poll(d)'.pc = l
  BY <1>1, <1>5 DEF Poll, c
<1>7. SnullTypes'
  BY <1>1, <1>3, <1>4, <1>5 DEF SnullTypes, NetTyped
<1>8. PollWhere(d)' /\ ~Holds(c) /\ ~Holds(c)'
  <2>1. PollWhere(d)
    BY <1>4 DEF SnullWhere
  <2>2. PollWhere(d)'
    BY <1>3, <1>40, <1>6, <2>1 DEF PollWhere, Buffer, PollCalls
  <2> QED  BY <1>1, <1>5, <1>40, <2>2 DEF Holds
<1>9. Announces(d) => Announces(d)'
  <2>1. Tx(Snull!Twin(d))' = Tx(Snull!Twin(d))
    BY <1>5, PollSteps, SnullSets DEF c
  <2> QED  BY <1>1, <1>3, <1>40, <1>6, <2>1 DEF Announces
<1>10. (\A e \in missed' : e \in missed) /\ \A e \in missed : e \in missed' \/ e = d
  BY <1>1
<1> QED  BY <1>1, <1>3, <1>5, <1>6, <1>7, <1>8, <1>9, <1>10, NetSame, PollStep DEF c

(* netif_rx_complete takes the device off the poll list (snull.c:321).    *)
LEMMA DoPollComplete ==
  ASSUME SnullInv, NEW d \in Snull!Devices, Snull!PollComplete(<<"poll", d>>, d)
  PROVE  SnullInv'
<1> DEFINE c == <<"poll", d>>
           r == [net[d] EXCEPT !.sched = FALSE]
<1>0. c \in Snull!Contexts
  BY SnullSets
<1>1. ctx[c].pc = "complete" /\ ~crashed /\ Snull!Go(c, "enable")
  BY Zenon DEF Snull!PollComplete, Snull!At
<1>2. net' = [net EXCEPT ![d].sched = FALSE]
  BY Zenon DEF Snull!PollComplete
<1>3. mode' = mode /\ next' = next /\ odd' = odd /\ fate' = fate /\ crashed' = crashed /\ missed' = missed
  BY Zenon DEF Snull!PollComplete
<1>4. SnullTypes /\ SnullWhere /\ CtxTyped /\ NetTyped
  BY DEF SnullInv, SnullTypes
<1>41. net[d] \in SnullNet
  BY <1>4 DEF NetTyped
<1>42. r \in SnullNet /\ net' = [net EXCEPT ![d] = r] /\ r.sched = FALSE
  BY <1>2, <1>4, <1>41, Zenon DEF SnullNet, NetTyped
<1>43. /\ r.ppool = net[d].ppool /\ r.up = net[d].up /\ r.gone = net[d].gone /\ r.skb = net[d].skb
       /\ r.rx_queue = net[d].rx_queue /\ r.stopped = net[d].stopped /\ r.rx_int = net[d].rx_int
       /\ r.status = net[d].status
  BY <1>41 DEF SnullNet
<1> HIDE DEF r, c
<1>44. NetTyped' /\ net'[d] = r /\ \A e \in Snull!Devices : e # d => net'[e] = net[e]
  BY <1>4, <1>42, NetOne, Zenon
<1>45. \A e \in Snull!Devices :
           /\ KeepLists(e) /\ KeepWord(e) /\ KeepUp(e) /\ KeepQueue(e)
           /\ e # d => KeepPoll(e)
           /\ net'[e].sched => net[e].sched
  BY <1>42, <1>43, <1>44 DEF KeepLists, KeepUp, KeepPoll, KeepWord, KeepQueue
<1>5. CtxTyped' /\ ctx'[c].pc = "enable" /\ \A b \in Snull!Contexts : b # c => ctx'[b] = ctx[b]
  <2>1. "enable" \in SnullCalls \cup PollCalls
    BY DEF PollCalls
  <2> QED  BY <1>0, <1>1, <1>4, <2>1, CtxGo DEF Moves
<1>6. Poll(d).pc = "complete" /\ Poll(d)'.pc = "enable"
  BY <1>1, <1>5 DEF Poll, c
<1>7. SnullTypes'
  BY <1>3, <1>4, <1>5, <1>44 DEF SnullTypes
<1>8. PollWhere(d)' /\ ~Holds(c) /\ ~Holds(c)'
  <2>1. PollWhere(d)
    BY <1>4 DEF SnullWhere
  <2>2. PollWhere(d)'
    BY <1>3, <1>6, <2>1 DEF PollWhere, Buffer, PollCalls
  <2> QED  BY <1>1, <1>5, <2>2 DEF Holds
<1>9. Announces(d) => Announces(d)'
  <2>1. Tx(Snull!Twin(d))' = Tx(Snull!Twin(d))
    BY <1>5, PollSteps, SnullSets DEF c
  <2> QED  BY <1>3, <1>6, <1>42, <1>43, <1>44, <2>1 DEF Announces
<1> QED  BY <1>1, <1>3, <1>45, <1>5, <1>6, <1>7, <1>8, <1>9, PollStep DEF c

(* The poll turns the interrupts on again (snull.c:322-323).              *)
LEMMA DoPollEnable ==
  ASSUME SnullInv, NEW d \in Snull!Devices, Snull!PollEnable(<<"poll", d>>, d)
  PROVE  SnullInv'
<1> DEFINE c == <<"poll", d>>
           r == [net[d] EXCEPT !.rx_int = TRUE]
<1>0. c \in Snull!Contexts
  BY SnullSets
<1>1. ctx[c].pc = "enable" /\ ~crashed /\ Snull!To(c, "idle", Snull!NULL)
  BY Zenon DEF Snull!PollEnable, Snull!At
<1>2. net' = [net EXCEPT ![d].rx_int = TRUE]
  BY Zenon DEF Snull!PollEnable
<1>3. mode' = mode /\ next' = next /\ odd' = odd /\ fate' = fate /\ crashed' = crashed /\ missed' = missed
  BY Zenon DEF Snull!PollEnable
<1>4. SnullTypes /\ SnullWhere /\ CtxTyped /\ NetTyped
  BY DEF SnullInv, SnullTypes
<1>41. net[d] \in SnullNet
  BY <1>4 DEF NetTyped
<1>42. r \in SnullNet /\ net' = [net EXCEPT ![d] = r] /\ r.rx_int = TRUE
  BY <1>2, <1>4, <1>41, Zenon DEF SnullNet, NetTyped
<1>43. /\ r.ppool = net[d].ppool /\ r.up = net[d].up /\ r.gone = net[d].gone /\ r.skb = net[d].skb
       /\ r.rx_queue = net[d].rx_queue /\ r.stopped = net[d].stopped /\ r.sched = net[d].sched
       /\ r.status = net[d].status
  BY <1>41 DEF SnullNet
<1> HIDE DEF r, c
<1>44. NetTyped' /\ net'[d] = r /\ \A e \in Snull!Devices : e # d => net'[e] = net[e]
  BY <1>4, <1>42, NetOne, Zenon
<1>45. \A e \in Snull!Devices :
           /\ KeepLists(e) /\ KeepWord(e) /\ KeepUp(e) /\ KeepQueue(e)
           /\ e # d => KeepPoll(e)
           /\ net'[e].sched => net[e].sched
  BY <1>43, <1>44 DEF KeepLists, KeepUp, KeepPoll, KeepWord, KeepQueue
<1>5. CtxTyped' /\ ctx'[c].pc = "idle" /\ \A b \in Snull!Contexts : b # c => ctx'[b] = ctx[b]
  <2>1. "idle" \in SnullCalls \cup PollCalls
    BY DEF PollCalls
  <2> QED  BY <1>0, <1>1, <1>4, <2>1, CtxTo DEF Moves
<1>6. Poll(d).pc = "enable" /\ Poll(d)'.pc = "idle"
  BY <1>1, <1>5 DEF Poll, c
<1>7. SnullTypes'
  BY <1>3, <1>4, <1>5, <1>44 DEF SnullTypes
<1>8. PollWhere(d)' /\ ~Holds(c) /\ ~Holds(c)'
  <2>1. PollWhere(d)
    BY <1>4 DEF SnullWhere
  <2>2. PollWhere(d)'
    BY <1>3, <1>6, <2>1 DEF PollWhere, Buffer, PollCalls
  <2> QED  BY <1>1, <1>5, <2>2 DEF Holds
<1>9. Announces(d) => Announces(d)'
  <2>1. Tx(Snull!Twin(d))' = Tx(Snull!Twin(d))
    BY <1>5, PollSteps, SnullSets DEF c
  <2> QED  BY <1>3, <1>6, <1>42, <1>43, <1>44, <2>1 DEF Announces
<1> QED  BY <1>1, <1>3, <1>45, <1>5, <1>6, <1>7, <1>8, <1>9, PollStep DEF c

(* Context c takes the first packet of the queue of device e.              *)
LEMMA PacketsTake ==
  ASSUME SnullTypes, SnullPackets, \A b \in Snull!Devices : ~net[b].gone,
         NEW e \in Snull!Devices, NEW c \in Snull!Contexts, ~Holds(c), ctx[c].pc # "wake",
         net[e].rx_queue # Snull!NULL, net'[e].rx_queue = next[net[e].rx_queue],
         ctx'[c].pc = "release", ctx'[c].pkt = net[e].rx_queue,
         \A b \in Snull!Contexts : b # c => ctx'[b] = ctx[b],
         \A b \in Snull!Devices : /\ net'[b].ppool = net[b].ppool /\ net'[b].stopped = net[b].stopped
                                  /\ KeepUp(b)
                                  /\ b # e => net'[b].rx_queue = net[b].rx_queue,
         mode' = mode, next' = next, odd' = odd
  PROVE  SnullPackets'
<1> DEFINE t == Snull!Twin(e)
<1>0. t \in Snull!Devices /\ t # e /\ Snull!Twin(t) = e /\ Snull!Twin(e) = t /\ \A b \in Snull!Devices : b = t \/ b = e
  BY SnullSets
<1>1. PICK pool \in SUBSET Mine(t), queue \in SUBSET Mine(t) : Parts(t, pool, queue)
  BY <1>0 DEF SnullPackets
<1>2. PICK pool2 \in SUBSET Mine(e), queue2 \in SUBSET Mine(e) : Parts(e, pool2, queue2)
  BY DEF SnullPackets
<1> HIDE DEF t
<1>30. PICK k : k = net[e].rx_queue
  OBVIOUS
<1>3. List(queue, k, next) /\ k \in queue /\ k \notin pool /\ k # Snull!NULL
  <2>1. List(queue, k, next) /\ pool \cap queue = {}
    BY <1>0, <1>1, <1>30 DEF Parts
  <2> QED  BY <1>30, <2>1, ListHead
<1>31. PICK rest \in SUBSET Mine(t) : rest = queue \ {k}
  BY Zenon
<1>4. ctx'[c].pkt = k /\ net'[e].rx_queue = next[k] /\ k \in Mine(t) /\ k \notin Mine(e)
  <2>1. k \in Mine(t)
    BY <1>1, <1>3
  <2>2. k \notin Mine(e)
    BY <1>0, <2>1, SnullSets
  <2> QED  BY <1>30, <2>1, <2>2
<1>5. \A b \in Snull!Contexts : /\ b # c => (Holds(b)' <=> Holds(b)) /\ ctx'[b].pkt = ctx[b].pkt
                                /\ b = c => Holds(b)' /\ ~Holds(b)
  BY DEF Holds
<1>6. \A b \in Snull!Contexts : Holds(b) => ctx[b].pkt # k
  BY <1>1, <1>3 DEF Parts
<1>7. Alone'
  <2>1. \A b, a \in Snull!Contexts : Holds(b) /\ Holds(a) /\ ctx[b].pkt = ctx[a].pkt => b = a
    BY DEF SnullPackets, Alone
  <2> QED  BY <1>4, <1>5, <1>6, <2>1 DEF Alone
<1>8. Parts(t, pool, rest)'
  <2>1. List(pool, net'[t].ppool, next')
    BY <1>0, <1>1 DEF Parts
  <2>2. List(rest, net'[Snull!Twin(t)].rx_queue, next')
    BY <1>0, <1>3, <1>31, <1>4, ListPop, Zenon
  <2>3. pool \cap rest = {}
    BY <1>1, <1>31 DEF Parts
  <2>4. \A b \in Snull!Contexts : Holds(b)' => ctx'[b].pkt \notin pool \cup rest
    <3>1. \A b \in Snull!Contexts : Holds(b) => ctx[b].pkt \notin pool \cup queue
      BY <1>1 DEF Parts
    <3> QED  BY <1>3, <1>31, <1>4, <1>5, <3>1
  <2>5. \A j \in Mine(t) : j \in pool \/ j \in rest \/ \E b \in Snull!Contexts : Holds(b)' /\ ctx'[b].pkt = j
    <3>1. \A j \in Mine(t) : j \in pool \/ j \in queue \/ \E b \in Snull!Contexts : Holds(b) /\ ctx[b].pkt = j
      BY <1>1 DEF Parts
    <3>2. Holds(c)' /\ ctx'[c].pkt = k
      BY <1>4, <1>5
    <3>3. \A b \in Snull!Contexts : Holds(b) => Holds(b)' /\ ctx'[b].pkt = ctx[b].pkt
      BY <1>5
    <3>4. SUFFICES ASSUME NEW j \in Mine(t), j \notin pool, j \notin rest
                   PROVE  \E b \in Snull!Contexts : Holds(b)' /\ ctx'[b].pkt = j
      OBVIOUS
    <3>5. CASE j = k
      BY <3>2, <3>5
    <3>6. CASE j # k
      <4>1. PICK b \in Snull!Contexts : Holds(b) /\ ctx[b].pkt = j
        BY <1>31, <3>1, <3>4, <3>6
      <4> QED  BY <3>3, <4>1
    <3> QED  BY <3>5, <3>6
  <2>6. net'[t].up /\ net'[t].stopped /\ net'[t].ppool # Snull!NULL /\ odd' = "no" =>
          \E b \in Snull!Contexts : ctx'[b].pc = "wake" /\ ctx'[b].pkt \in pool /\ next'[ctx'[b].pkt] = Snull!NULL
    BY <1>0, <1>1 DEF Parts, KeepUp
  <2>7. ~mode'.napi /\ odd' = "no" => rest \subseteq {net'[Snull!Twin(t)].rx_queue}
    BY <1>0, <1>1, <1>3, <1>30, <1>31 DEF Parts
  <2> QED  BY <2>1, <2>2, <2>3, <2>4, <2>5, <2>6, <2>7 DEF Parts, Mine
<1>9. Parts(e, pool2, queue2)'
  <2>1. List(pool2, net'[e].ppool, next') /\ List(queue2, net'[Snull!Twin(e)].rx_queue, next') /\ pool2 \cap queue2 = {}
        /\ (~mode'.napi /\ odd' = "no" => queue2 \subseteq {net'[Snull!Twin(e)].rx_queue})
    BY <1>0, <1>2 DEF Parts
  <2>4. \A b \in Snull!Contexts : Holds(b)' => ctx'[b].pkt \notin pool2 \cup queue2
    BY <1>2, <1>4, <1>5 DEF Parts
  <2>5. \A j \in Mine(e) : j \in pool2 \/ j \in queue2 \/ \E b \in Snull!Contexts : Holds(b)' /\ ctx'[b].pkt = j
    BY <1>2, <1>5 DEF Parts
  <2>6. net'[e].up /\ net'[e].stopped /\ net'[e].ppool # Snull!NULL /\ odd' = "no" =>
          \E b \in Snull!Contexts : ctx'[b].pc = "wake" /\ ctx'[b].pkt \in pool2 /\ next'[ctx'[b].pkt] = Snull!NULL
    BY <1>2 DEF Parts, KeepUp
  <2> QED  BY <2>1, <2>4, <2>5, <2>6 DEF Parts, Mine
<1>11. ASSUME NEW b \in Snull!Devices PROVE (\E p, q \in SUBSET Mine(b) : Parts(b, p, q))'
  <2>1. CASE b = t
    BY <1>8, <2>1 DEF Mine
  <2>2. CASE b = e
    BY <1>9, <2>2 DEF Mine
  <2> QED  BY <1>0, <2>1, <2>2
<1> QED  BY <1>7, <1>11 DEF SnullPackets

(* In the queue of an interrupt that takes packets there is one at most.   *)
LEMMA QueueOne ==
  ASSUME SnullPackets, ~mode.napi, odd = "no", NEW e \in Snull!Devices, ~net[Snull!Twin(e)].gone,
         net[e].rx_queue # Snull!NULL
  PROVE  next[net[e].rx_queue] = Snull!NULL
<1>0. Snull!Twin(e) \in Snull!Devices /\ Snull!Twin(Snull!Twin(e)) = e
  BY SnullSets
<1>1. PICK pool \in SUBSET Mine(Snull!Twin(e)), queue \in SUBSET Mine(Snull!Twin(e)) : Parts(Snull!Twin(e), pool, queue)
  BY <1>0 DEF SnullPackets
<1>2. List(queue, net[e].rx_queue, next) /\ queue \subseteq {net[e].rx_queue}
  BY <1>0, <1>1 DEF Parts
<1>3. List(queue \ {net[e].rx_queue}, next[net[e].rx_queue], next)
  BY <1>2, ListPop, Zenon
<1>4. queue \ {net[e].rx_queue} = {}
  BY <1>2
<1> QED  BY <1>3, <1>4, ListHead

(* The word of a device and its packet: with odd # "forced", a transmission *)
(* that is over has its skb.                                               *)
LEMMA SkbThere ==
  ASSUME SnullTypes, SnullWhere, SnullSends, odd # "forced", NEW e \in Snull!Devices, "tx" \in net[e].status
  PROVE  net[e].skb
<1>1. TxWhere(e) /\ Sends(e)
  BY DEF SnullWhere, SnullSends
<1> QED  BY <1>1 DEF TxWhere, Sends, Sending, Buffer, SnullCalls

(* What Interrupt(<<"tx", d>>, from, e, back) changes                       *)
Takes(e) == ~mode.napi /\ "rx" \in net[e].status /\ net[e].rx_queue # Snull!NULL

(* With NAPI a device that is down does not hear of its packet            *)
(* (snull.c:405-406).                                                     *)
Deaf(e) == mode.napi /\ "rx" \in net[e].status /\ ~net[e].up /\ ~net[e].sched

(* What both kinds of interrupt have in common.                           *)
LEMMA InterruptDoes ==
  ASSUME SnullInv, NEW d \in Snull!Devices, NEW e \in Snull!Devices, NEW from,
         NEW back \in {"idle", "to_wake", "tx_read"}, Snull!Interrupt(<<"tx", d>>, from, e, back)
  PROVE  /\ Tx(d).pc = from /\ ~crashed /\ mode' = mode /\ next' = next /\ odd' = odd
         /\ crashed' = crashed /\ fate' = {}
         /\ missed' = IF Deaf(e) THEN missed \cup {e} ELSE missed
         /\ NetTyped' /\ CtxTyped'
         /\ \A b \in Snull!Contexts : b # <<"tx", d>> => ctx'[b] = ctx[b]
         /\ \A b \in Snull!Devices : /\ net'[b].ppool = net[b].ppool
                                     /\ KeepQueue(b) /\ KeepUp(b)
                                     /\ b # e => KeepPoll(b) /\ net'[b].rx_queue = net[b].rx_queue /\ KeepWord(b)
         /\ net'[e].status = {} /\ (net'[e].skb <=> net[e].skb /\ "tx" \notin net[e].status)
         /\ net'[e].rx_int <=> net[e].rx_int /\ ~(mode.napi /\ "rx" \in net[e].status)
         /\ net'[e].sched <=> net[e].sched \/ (mode.napi /\ "rx" \in net[e].status /\ net[e].up)
         /\ IF Takes(e)
            THEN /\ net'[e].rx_queue = next[net[e].rx_queue] /\ Tx(d)'.pc = "release"
                 /\ Tx(d)'.pkt = net[e].rx_queue /\ Tx(d)'.back = back
            ELSE net'[e].rx_queue = net[e].rx_queue /\ Tx(d)'.pc = back
<1> DEFINE c == <<"tx", d>>
<1>0. c \in Snull!Contexts /\ SnullTypes /\ SnullWhere /\ SnullSends
  BY SnullSets DEF SnullInv
<1>1. ctx[c].pc = from /\ ~crashed
  BY Zenon DEF Snull!Interrupt, Snull!At
<1>2. mode' = mode /\ next' = next /\ odd' = odd /\ crashed' = crashed
  BY Zenon DEF Snull!Interrupt
<1>3. IF mode.napi THEN Snull!NapiInterrupt(c, e, back) ELSE Snull!Regular(c, e, back)
  BY Zenon DEF Snull!Interrupt
<1> HIDE DEF c
<1>4. fate = {} /\ (IF "tx" \in net[e].status /\ ~net[e].skb /\ odd # "forced" THEN {"twice"} ELSE fate) = {}
  BY <1>0, SkbThere DEF SnullSends
<1>5. CASE mode.napi
  <2>1. Snull!NapiInterrupt(c, e, back)
    BY <1>3, <1>5
  <2>2. /\ NetTyped' /\ CtxTyped'
        /\ \A b \in Snull!Devices : /\ KeepLists(b) /\ KeepQueue(b) /\ KeepUp(b)
                                    /\ b # e => KeepPoll(b) /\ KeepWord(b)
        /\ net'[e].status = {} /\ (net'[e].skb <=> net[e].skb /\ "tx" \notin net[e].status)
        /\ net'[e].rx_int <=> net[e].rx_int /\ "rx" \notin net[e].status
        /\ net'[e].sched <=> net[e].sched \/ ("rx" \in net[e].status /\ net[e].up)
        /\ missed' = IF "rx" \in net[e].status /\ ~net[e].up /\ ~net[e].sched THEN missed \cup {e} ELSE missed
        /\ Moves(c, back, Snull!NULL)
        /\ fate' = IF "tx" \in net[e].status /\ ~net[e].skb /\ odd # "forced" THEN {"twice"} ELSE fate
    BY <1>0, <2>1, DoNapi, Zenon
  <2>3. ~Takes(e) /\ fate' = {} /\ \A b \in Snull!Contexts : b # c => ctx'[b] = ctx[b]
    BY <1>4, <1>5, <2>2 DEF Takes, Moves
  <2>4. Tx(d).pc = from /\ Tx(d)'.pc = back
    BY <1>1, <2>2 DEF Moves, Tx, c
  <2>5. \A b \in Snull!Devices : net'[b].ppool = net[b].ppool /\ net'[b].rx_queue = net[b].rx_queue
    BY <2>2 DEF KeepLists
  <2>6. missed' = IF Deaf(e) THEN missed \cup {e} ELSE missed
    BY <1>5, <2>2 DEF Deaf
  <2> QED  BY <1>1, <1>2, <1>5, <2>2, <2>3, <2>4, <2>5, <2>6 DEF c
<1>6. CASE ~mode.napi
  <2>1. Snull!Regular(c, e, back)
    BY <1>3, <1>6
  <2>2. /\ NetTyped' /\ CtxTyped'
        /\ \A b \in Snull!Devices : /\ net'[b].ppool = net[b].ppool
                                    /\ KeepQueue(b) /\ KeepUp(b) /\ KeepPoll(b)
                                    /\ b # e => net'[b].rx_queue = net[b].rx_queue /\ KeepWord(b)
        /\ net'[e].status = {} /\ (net'[e].skb <=> net[e].skb /\ "tx" \notin net[e].status)
        /\ IF "rx" \in net[e].status /\ net[e].rx_queue # Snull!NULL
           THEN /\ net'[e].rx_queue = next[net[e].rx_queue]
                /\ \A b \in Snull!Contexts : b # c => ctx'[b] = ctx[b]
                /\ ctx'[c].pc = "release" /\ ctx'[c].pkt = net[e].rx_queue /\ ctx'[c].back = back
           ELSE net'[e].rx_queue = net[e].rx_queue /\ Moves(c, back, Snull!NULL)
        /\ fate' = IF "tx" \in net[e].status /\ ~net[e].skb /\ odd # "forced" THEN {"twice"} ELSE fate
        /\ missed' = missed
    BY <1>0, <2>1, DoRegular, Zenon
  <2>3. fate' = {} /\ \A b \in Snull!Contexts : b # c => ctx'[b] = ctx[b]
    BY <1>4, <2>2 DEF Moves
  <2>4. IF Takes(e)
        THEN /\ net'[e].rx_queue = next[net[e].rx_queue] /\ Tx(d)'.pc = "release"
             /\ Tx(d)'.pkt = net[e].rx_queue /\ Tx(d)'.back = back
        ELSE net'[e].rx_queue = net[e].rx_queue /\ Tx(d)'.pc = back
    BY <1>6, <2>2 DEF Takes, Moves, Tx, c
  <2>5. net'[e].rx_int = net[e].rx_int /\ net'[e].sched = net[e].sched /\ Tx(d).pc = from
    BY <1>1, <2>2 DEF KeepPoll, Tx, c
  <2>6. missed' = IF Deaf(e) THEN missed \cup {e} ELSE missed
    BY <1>6, <2>2 DEF Deaf
  <2> QED  BY <1>2, <1>1, <1>6, <2>2, <2>3, <2>4, <2>5, <2>6 DEF c
<1> QED  BY <1>5, <1>6

(* After an interrupt of device e its queue is empty, or its poll scheduled,*)
(* or the device was down, or it is announced as it was.                   *)
LEMMA AnnouncesInterrupt ==
  ASSUME SnullInv, odd = "no", NEW e \in Snull!Devices, ~net[Snull!Twin(e)].gone,
         NetTyped', net'[e].status = {}, missed' = IF Deaf(e) THEN missed \cup {e} ELSE missed,
         net'[e].rx_int <=> net[e].rx_int /\ ~(mode.napi /\ "rx" \in net[e].status),
         net'[e].sched <=> net[e].sched \/ (mode.napi /\ "rx" \in net[e].status /\ net[e].up),
         net'[e].rx_queue = IF Takes(e) THEN next[net[e].rx_queue] ELSE net[e].rx_queue,
         Poll(e)' = Poll(e),
         \/ Tx(Snull!Twin(e))'.pc = Tx(Snull!Twin(e)).pc
         \/ Tx(Snull!Twin(e)).pc = "rx_int" /\ Tx(Snull!Twin(e))'.pc \notin {"enabled", "rx_read", "rx_write"}
  PROVE  Announces(e)'
<1>1. Announces(e) /\ SnullPackets /\ PollWhere(e) /\ (~mode.napi => missed = {})
      /\ net \in [Snull!Devices -> SnullNet]
  BY DEF SnullInv, SnullAnnounces, SnullWhere, SnullTypes, NetTyped
<1>2. Takes(e) => net'[e].rx_queue = Snull!NULL
  BY <1>1, QueueOne DEF Takes
<1>3. ~mode.napi => Poll(e).pc = "idle" /\ ~net[e].sched
  BY <1>1 DEF PollWhere
<1>4. CASE "rx" \in net[e].status
  <2>1. net[e].rx_int /\ ~net[e].sched /\ Poll(e).pc = "idle" /\ Tx(Snull!Twin(e)).pc = "rx_int"
    BY <1>1, <1>4 DEF Announces
  <2>2. CASE mode.napi
    BY <1>4, <2>1, <2>2 DEF Announces, Deaf
  <2>3. CASE ~mode.napi
    <3>1. net'[e].rx_queue = Snull!NULL
      BY <1>2, <1>4, <2>3 DEF Takes
    <3> QED  BY <2>1, <2>3, <3>1 DEF Announces, Deaf
  <2> QED  BY <2>2, <2>3
<1>5. CASE "rx" \notin net[e].status
  <2>1. net'[e].rx_queue = net[e].rx_queue /\ net'[e].sched = net[e].sched /\ net'[e].rx_int = net[e].rx_int
    <3>1. /\ net[e].rx_int \in BOOLEAN /\ net'[e].rx_int \in BOOLEAN
          /\ net[e].sched \in BOOLEAN /\ net'[e].sched \in BOOLEAN
      BY <1>1 DEF NetTyped, SnullNet
    <3>2. ~Takes(e) /\ (net'[e].rx_int <=> net[e].rx_int) /\ (net'[e].sched <=> net[e].sched)
      BY <1>5 DEF Takes
    <3> QED  BY <3>1, <3>2
  <2> QED  BY <1>1, <1>5, <2>1 DEF Announces, Deaf
<1> QED  BY <1>4, <1>5

(* An interrupt keeps the invariant, whoever raises it (snull.c:333-418). *)
LEMMA DoInterrupt ==
  ASSUME SnullInv, NEW d \in Snull!Devices, NEW e \in Snull!Devices, NEW from, NEW back,
         \/ from = "rx_int" /\ e = Snull!Twin(d) /\ back = "tx_read"
         \/ from = "tx_int" /\ e = d /\ back = "idle"
         \/ from = "to_int" /\ e = d /\ back = "to_wake",
         Snull!Interrupt(<<"tx", d>>, from, e, back)
  PROVE  SnullInv'
<1> DEFINE c == <<"tx", d>>
<1>0. c \in Snull!Contexts /\ Tx(d) = ctx[c] /\ Tx(d)' = ctx'[c]
  BY SnullSets DEF Tx
<1>1. SnullTypes /\ SnullWhere /\ SnullPackets /\ SnullSends /\ SnullAnnounces /\ back \in {"idle", "to_wake", "tx_read"}
      /\ NetTyped /\ CtxTyped
  BY DEF SnullInv, SnullTypes
<1>2. /\ Tx(d).pc = from /\ ~crashed /\ mode' = mode /\ next' = next /\ odd' = odd
      /\ crashed' = crashed /\ fate' = {}
      /\ missed' = IF Deaf(e) THEN missed \cup {e} ELSE missed
      /\ NetTyped' /\ CtxTyped'
      /\ \A b \in Snull!Contexts : b # c => ctx'[b] = ctx[b]
      /\ \A b \in Snull!Devices : /\ net'[b].ppool = net[b].ppool
                                  /\ KeepQueue(b) /\ KeepUp(b)
                                  /\ b # e => KeepPoll(b) /\ net'[b].rx_queue = net[b].rx_queue /\ KeepWord(b)
      /\ net'[e].status = {} /\ (net'[e].skb <=> net[e].skb /\ "tx" \notin net[e].status)
      /\ net'[e].rx_int <=> net[e].rx_int /\ ~(mode.napi /\ "rx" \in net[e].status)
      /\ net'[e].sched <=> net[e].sched \/ (mode.napi /\ "rx" \in net[e].status /\ net[e].up)
      /\ IF Takes(e)
         THEN /\ net'[e].rx_queue = next[net[e].rx_queue] /\ Tx(d)'.pc = "release"
              /\ Tx(d)'.pkt = net[e].rx_queue /\ Tx(d)'.back = back
         ELSE net'[e].rx_queue = net[e].rx_queue /\ Tx(d)'.pc = back
  BY <1>1, InterruptDoes, ZenonT(40)
<1> HIDE DEF c
<1>3. \A b \in Snull!Devices : Poll(b)' = Poll(b) /\ (b # d => Tx(b)' = Tx(b))
  BY <1>2, TxSteps DEF c
<1>4. \A b \in Snull!Devices : ~net[b].gone /\ ~net'[b].gone
  <2>1. Tx(d).pc # "idle"
    BY <1>2
  <2> QED  BY <1>1, <1>2, <2>1, NobodyGone DEF KeepUp
<1>5. \A b \in Snull!Devices : net'[b].stopped = net[b].stopped /\ net'[b].up = net[b].up /\ net'[b].gone = net[b].gone
  BY <1>2 DEF KeepUp, KeepQueue
<1>6. Takes(e) => net[e].rx_queue # Snull!NULL /\ net[e].rx_queue \in Snull!Packets /\ ~mode.napi
  BY <1>1 DEF Takes, NetTyped, SnullNet
<1>7. SnullTypes'
  BY <1>1, <1>2 DEF SnullTypes
<1>8. SnullWhere'
  <2>1. TxWhere(d)'
    <3>1. TxWhere(d)
      BY <1>1 DEF SnullWhere
    <3>2. Tx(d)'.pc \in {"release", back} /\ (Tx(d)'.pc = "release" => Tx(d)'.back = back /\ Tx(d)'.pkt \in Snull!Packets)
          /\ odd' = odd /\ (back = "to_wake" => odd = "forced")
      BY <1>1, <1>2, <1>6, <3>1 DEF TxWhere
    <3> QED  BY <1>1, <3>2 DEF TxWhere, Buffer, SnullCalls
  <2>2. \A b \in Snull!Devices :
           /\ ~mode.napi \/ net'[b].rx_queue = net[b].rx_queue
           /\ net'[b].sched => net[b].sched \/ mode.napi
    BY <1>2, <1>6 DEF KeepPoll
  <2> QED  BY <1>0, <1>1, <1>2, <1>4, <1>5, <2>1, <2>2, TxWhereStep DEF c
<1>9. SnullPackets'
  <2>1. CASE Takes(e)
    <3>1. ctx[c].pc = from /\ from \notin {"enqueue", "release", "wake"} /\ ctx'[c].pc = "release"
          /\ ctx'[c].pkt = net[e].rx_queue
      BY <1>0, <1>2, <2>1
    <3> QED  BY <1>0, <1>1, <1>2, <1>4, <1>6, <2>1, <3>1, PacketsTake DEF Holds, KeepQueue
  <2>2. CASE ~Takes(e)
    <3>1. ctx[c].pc \notin {"enqueue", "release", "wake"} /\ ctx'[c].pc = back /\ back \notin {"enqueue", "release"}
      BY <1>0, <1>2, <2>2
    <3>2. \A b \in Snull!Devices : KeepLists(b)
      BY <1>2, <2>2 DEF KeepLists
    <3>3. \A b \in Snull!Contexts : (Holds(b)' <=> Holds(b)) /\ (Holds(b) => ctx'[b].pkt = ctx[b].pkt)
                                    /\ (ctx[b].pc = "wake" => ctx'[b] = ctx[b])
      BY <1>2, <3>1 DEF Holds
    <3> QED  BY <1>1, <1>2, <1>5, <3>2, <3>3, PoolsKept
  <2> QED  BY <2>1, <2>2
<1>10. SnullSends'
  <2>1. SUFFICES ASSUME odd # "forced", NEW b \in Snull!Devices PROVE Sends(b)'
    BY <1>2 DEF SnullSends
  <2>2. Sends(b) /\ TxWhere(b) /\ Sends(d) /\ TxWhere(d) /\ Sends(e)
    BY <1>1, <2>1 DEF SnullSends, SnullWhere
  <2>3. /\ net'[b].ppool = net[b].ppool /\ net'[b].stopped = net[b].stopped /\ net'[b].gone = net[b].gone
        /\ b # e => net'[b].status = net[b].status /\ net'[b].skb = net[b].skb
    BY <1>2, <1>5 DEF KeepWord
  <2>4. CASE b # d
    <3>1. Tx(b)' = Tx(b)
      BY <1>3, <2>4
    <3>2. CASE b = e
      BY <1>2, <2>2, <2>3, <3>1, <3>2 DEF Sends, Sending, Buffer
    <3>3. CASE b # e
      BY <1>2, <2>2, <2>3, <3>1, <3>3 DEF Sends, Sending, Buffer
    <3> QED  BY <3>2, <3>3
  <2>5. CASE b = d
    <3>1. from # "to_int"
      BY <1>2, <2>1, <2>2 DEF TxWhere
    <3>2. Tx(d)'.pc = back \/ (Tx(d)'.pc = "release" /\ Tx(d)'.back = back)
      BY <1>2
    <3>3. CASE from = "rx_int"
      <4>1. e # d /\ back = "tx_read"
        BY <3>3, SnullSets
      <4> QED  BY <1>2, <2>2, <2>3, <2>5, <3>2, <3>3, <4>1 DEF Sends, Sending, Buffer
    <3>4. CASE from = "tx_int"
      <4>1. e = d /\ back = "idle"
        BY <3>4
      <4>2. net[d].skb <=> "tx" \in net[d].status
        BY <1>2, <2>2, <3>4 DEF Sends
      <4>3. ~net'[d].skb /\ net'[d].status = {}
        BY <1>2, <4>1, <4>2
      <4> QED  BY <2>2, <2>3, <2>5, <3>2, <4>1, <4>3 DEF Sends, Sending, Buffer
    <3> QED  BY <3>1, <3>3, <3>4
  <2> QED  BY <2>4, <2>5
<1>11. SnullAnnounces'
  <2>1. SUFFICES ASSUME odd = "no", NEW b \in Snull!Devices PROVE Announces(b)'
    BY <1>1, <1>2 DEF SnullAnnounces, Deaf
  <2>0. Announces(b) /\ TxWhere(d) /\ Snull!Twin(b) \in Snull!Devices /\ Snull!Twin(b) # b
        /\ Snull!Twin(Snull!Twin(b)) = b
    BY <1>1, <2>1, SnullSets DEF SnullAnnounces, SnullWhere
  <2>2. from # "to_int"
    BY <1>2, <2>0, <2>1 DEF TxWhere
  <2>3. Tx(d)'.pc \in {"release", back} /\ back \in {"idle", "tx_read"}
    BY <1>2, <2>2
  <2>4. CASE b = e
    <3>1. \/ Tx(Snull!Twin(e))'.pc = Tx(Snull!Twin(e)).pc
          \/ Tx(Snull!Twin(e)).pc = "rx_int" /\ Tx(Snull!Twin(e))'.pc \notin {"enabled", "rx_read", "rx_write"}
      <4>1. CASE Snull!Twin(e) = d
        <5>1. from = "rx_int"
          BY <2>0, <2>2, <2>4, <4>1
        <5> QED  BY <1>2, <2>3, <4>1, <5>1
      <4>2. CASE Snull!Twin(e) # d
        BY <1>3, <2>0, <2>4, <4>2
      <4> QED  BY <4>1, <4>2
    <3> QED  BY <1>2, <1>3, <1>4, <2>0, <2>1, <2>4, <3>1, AnnouncesInterrupt
  <2>5. CASE b # e
    <3>1. \/ Tx(Snull!Twin(b))'.pc = Tx(Snull!Twin(b)).pc
          \/ /\ Tx(Snull!Twin(b)).pc \notin {"enabled", "rx_read", "rx_write", "rx_int"}
             /\ Tx(Snull!Twin(b))'.pc \notin {"enabled", "rx_read", "rx_write", "rx_int"}
      <4>1. CASE Snull!Twin(b) = d
        <5>1. from = "tx_int"
          BY <2>0, <2>2, <2>5, <4>1
        <5> QED  BY <1>2, <2>3, <4>1, <5>1
      <4>2. CASE Snull!Twin(b) # d
        BY <1>3, <2>0, <4>2
      <4> QED  BY <4>1, <4>2
    <3> QED  BY <1>2, <1>3, <2>0, <2>5, <3>1, AnnouncesKept DEF KeepWord
  <2> QED  BY <2>4, <2>5
<1> QED  BY <1>7, <1>8, <1>9, <1>10, <1>11 DEF SnullInv

(* A packet that goes back to its pool is in one place still: from its    *)
(* context to the head of the pool (snull.c:150-158).                     *)
LEMMA PacketsRelease ==
  ASSUME SnullTypes, SnullPackets, \A b \in Snull!Devices : ~net[b].gone,
         NEW c \in Snull!Contexts, NEW k \in Snull!Packets, ctx[c].pc = "release", ctx[c].pkt = k,
         ctx'[c].pc = "wake", ctx'[c].pkt = k,
         \A b \in Snull!Contexts : b # c => ctx'[b] = ctx[b],
         net'[k[1]].ppool = k, next' = [next EXCEPT ![k] = net[k[1]].ppool],
         \A b \in Snull!Devices : /\ net'[b].rx_queue = net[b].rx_queue /\ net'[b].stopped = net[b].stopped
                                  /\ KeepUp(b)
                                  /\ b # k[1] => net'[b].ppool = net[b].ppool,
         mode' = mode, odd' = odd
  PROVE  SnullPackets'
<1> DEFINE e == k[1]
           t == Snull!Twin(e)
<1>0. e \in Snull!Devices /\ t \in Snull!Devices /\ t # e /\ Snull!Twin(t) = e /\ Snull!Twin(e) = t
      /\ (\A b \in Snull!Devices : b = t \/ b = e) /\ k \in Mine(e) /\ k \notin Mine(t) /\ k # Snull!NULL
  BY SnullSets
<1>1. PICK pool \in SUBSET Mine(e), queue \in SUBSET Mine(e) : Parts(e, pool, queue)
  BY <1>0 DEF SnullPackets
<1>2. PICK pool2 \in SUBSET Mine(t), queue2 \in SUBSET Mine(t) : Parts(t, pool2, queue2)
  BY <1>0 DEF SnullPackets
<1>20. net'[e].ppool = k /\ next' = [next EXCEPT ![k] = net[e].ppool]
       /\ \A b \in Snull!Devices : b # e => net'[b].ppool = net[b].ppool
  OBVIOUS
<1> HIDE DEF e, t
<1>21. next'[k] = net[e].ppool /\ \A j \in Snull!Packets : j # k => next'[j] = next[j]
  BY <1>20 DEF SnullTypes
<1>22. Mine(e) \subseteq Snull!Packets /\ Mine(t) \subseteq Snull!Packets
  BY <1>0, SnullSets
<1>3. k \notin pool /\ k \notin queue /\ k \notin pool2 /\ k \notin queue2
  <2>1. Holds(c)
    BY DEF Holds
  <2> QED  BY <1>0, <1>1, <2>1 DEF Parts
<1>31. PICK more \in SUBSET Mine(e) : more = pool \cup {k}
  BY <1>0, Zenon
<1>5. \A b \in Snull!Contexts : /\ b # c => (Holds(b)' <=> Holds(b)) /\ ctx'[b] = ctx[b]
                                /\ b = c => ~Holds(b)' /\ Holds(b)
  BY DEF Holds
<1>6. \A b \in Snull!Contexts : Holds(b)' => Holds(b) /\ ctx'[b].pkt = ctx[b].pkt /\ ctx[b].pkt # k
  BY <1>5 DEF SnullPackets, Alone
<1>7. Alone'
  <2>1. \A b, a \in Snull!Contexts : Holds(b) /\ Holds(a) /\ ctx[b].pkt = ctx[a].pkt => b = a
    BY DEF SnullPackets, Alone
  <2> QED  BY <1>6, <2>1 DEF Alone
<1>8. Parts(e, more, queue)'
  <2>1. List(more, net'[e].ppool, next')
    <3>1. List(pool, net[e].ppool, next) /\ \A j \in pool : next'[j] = next[j]
      BY <1>1, <1>21, <1>22, <1>3 DEF Parts
    <3>2. k # Snull!NULL /\ next'[k] = net[e].ppool /\ k \notin pool
      BY <1>0, <1>21, <1>3
    <3>3. List(pool \cup {k}, k, next')
      <4>1. PICK head, links, new : head = net[e].ppool /\ links = next /\ new = next'
        OBVIOUS
      <4>2. List(pool, head, links) /\ (\A j \in pool : new[j] = links[j]) /\ k # Snull!NULL /\ new[k] = head
            /\ k \notin pool
        BY <3>1, <3>2, <4>1
      <4>3. List(pool \cup {k}, k, new)
        BY <4>2, ListPush
      <4> QED  BY <4>1, <4>3
    <3> QED  BY <1>20, <1>31, <3>3
  <2>2. List(queue, net'[Snull!Twin(e)].rx_queue, next')
    <3>1. List(queue, net'[Snull!Twin(e)].rx_queue, next) /\ \A j \in queue : next'[j] = next[j]
      BY <1>0, <1>1, <1>21, <1>22, <1>3 DEF Parts
    <3> QED  BY <3>1, ListKept, ZenonT(40)
  <2>3. more \cap queue = {}
    BY <1>1, <1>3, <1>31 DEF Parts
  <2>4. \A b \in Snull!Contexts : Holds(b)' => ctx'[b].pkt \notin more \cup queue
    BY <1>1, <1>31, <1>6 DEF Parts
  <2>5. \A j \in Mine(e) : j \in more \/ j \in queue \/ \E b \in Snull!Contexts : Holds(b)' /\ ctx'[b].pkt = j
    <3>1. SUFFICES ASSUME NEW j \in Mine(e), j \notin more, j \notin queue
                   PROVE  \E b \in Snull!Contexts : Holds(b)' /\ ctx'[b].pkt = j
      OBVIOUS
    <3>2. PICK b \in Snull!Contexts : Holds(b) /\ ctx[b].pkt = j
      BY <1>1, <1>31, <3>1 DEF Parts
    <3>3. b # c
      BY <1>31, <3>1, <3>2
    <3> QED  BY <1>5, <3>2, <3>3
  <2>6. net'[e].up /\ net'[e].stopped /\ net'[e].ppool # Snull!NULL /\ odd' = "no" =>
          \E b \in Snull!Contexts : ctx'[b].pc = "wake" /\ ctx'[b].pkt \in more /\ next'[ctx'[b].pkt] = Snull!NULL
    <3>1. SUFFICES ASSUME net[e].up, net[e].stopped, odd = "no"
                   PROVE  \E b \in Snull!Contexts : ctx'[b].pc = "wake" /\ ctx'[b].pkt \in more /\ next'[ctx'[b].pkt] = Snull!NULL
      BY <1>0 DEF KeepUp
    <3>2. CASE net[e].ppool = Snull!NULL
      BY <1>21, <1>31, <3>2
    <3>3. CASE net[e].ppool # Snull!NULL
      <4>1. PICK b \in Snull!Contexts : ctx[b].pc = "wake" /\ ctx[b].pkt \in pool /\ next[ctx[b].pkt] = Snull!NULL
        BY <1>1, <3>1, <3>3 DEF Parts
      <4>2. b # c /\ ctx[b].pkt # k /\ ctx[b].pkt \in Snull!Packets
        BY <1>22, <1>3, <4>1
      <4>3. ctx'[b] = ctx[b] /\ next'[ctx[b].pkt] = next[ctx[b].pkt]
        BY <1>21, <4>2
      <4> QED  BY <1>31, <4>1, <4>3
    <3> QED  BY <3>2, <3>3
  <2>7. ~mode'.napi /\ odd' = "no" => queue \subseteq {net'[Snull!Twin(e)].rx_queue}
    BY <1>0, <1>1 DEF Parts
  <2> QED  BY <2>1, <2>2, <2>3, <2>4, <2>5, <2>6, <2>7 DEF Parts, Mine
<1>9. Parts(t, pool2, queue2)'
  <2>1. List(pool2, net'[t].ppool, next')
    <3>1. List(pool2, net'[t].ppool, next) /\ \A j \in pool2 : next'[j] = next[j]
      BY <1>0, <1>2, <1>20, <1>21, <1>22, <1>3 DEF Parts
    <3> QED  BY <3>1, ListKept, ZenonT(40)
  <2>2. List(queue2, net'[Snull!Twin(t)].rx_queue, next')
    <3>1. List(queue2, net'[Snull!Twin(t)].rx_queue, next) /\ \A j \in queue2 : next'[j] = next[j]
      BY <1>0, <1>2, <1>21, <1>22, <1>3 DEF Parts
    <3> QED  BY <3>1, ListKept, ZenonT(40)
  <2>3. pool2 \cap queue2 = {} /\ (~mode'.napi /\ odd' = "no" => queue2 \subseteq {net'[Snull!Twin(t)].rx_queue})
    BY <1>0, <1>2 DEF Parts
  <2>4. \A b \in Snull!Contexts : Holds(b)' => ctx'[b].pkt \notin pool2 \cup queue2
    BY <1>2, <1>6 DEF Parts
  <2>5. \A j \in Mine(t) : j \in pool2 \/ j \in queue2 \/ \E b \in Snull!Contexts : Holds(b)' /\ ctx'[b].pkt = j
    <3>1. SUFFICES ASSUME NEW j \in Mine(t), j \notin pool2, j \notin queue2
                   PROVE  \E b \in Snull!Contexts : Holds(b)' /\ ctx'[b].pkt = j
      OBVIOUS
    <3>2. PICK b \in Snull!Contexts : Holds(b) /\ ctx[b].pkt = j
      BY <1>2, <3>1 DEF Parts
    <3>3. b # c
      BY <1>0, <3>1, <3>2
    <3> QED  BY <1>5, <3>2, <3>3
  <2>6. net'[t].up /\ net'[t].stopped /\ net'[t].ppool # Snull!NULL /\ odd' = "no" =>
          \E b \in Snull!Contexts : ctx'[b].pc = "wake" /\ ctx'[b].pkt \in pool2 /\ next'[ctx'[b].pkt] = Snull!NULL
    <3>1. SUFFICES ASSUME net[t].up, net[t].stopped, odd = "no", net[t].ppool # Snull!NULL
                   PROVE  \E b \in Snull!Contexts : ctx'[b].pc = "wake" /\ ctx'[b].pkt \in pool2 /\ next'[ctx'[b].pkt] = Snull!NULL
      BY <1>0, <1>20 DEF KeepUp
    <3>2. PICK b \in Snull!Contexts : ctx[b].pc = "wake" /\ ctx[b].pkt \in pool2 /\ next[ctx[b].pkt] = Snull!NULL
      BY <1>2, <3>1 DEF Parts
    <3>3. b # c /\ ctx[b].pkt # k /\ ctx[b].pkt \in Snull!Packets
      BY <1>22, <1>3, <3>2
    <3>4. ctx'[b] = ctx[b] /\ next'[ctx[b].pkt] = next[ctx[b].pkt]
      BY <1>21, <3>3
    <3> QED  BY <3>2, <3>4
  <2> QED  BY <2>1, <2>2, <2>3, <2>4, <2>5, <2>6 DEF Parts, Mine
<1>11. ASSUME NEW b \in Snull!Devices PROVE (\E p, q \in SUBSET Mine(b) : Parts(b, p, q))'
  <2>1. CASE b = t
    BY <1>9, <2>1 DEF Mine
  <2>2. CASE b = e
    BY <1>8, <2>2 DEF Mine
  <2> QED  BY <1>0, <2>1, <2>2
<1> QED  BY <1>7, <1>11 DEF SnullPackets

(* snull_release_buffer, from either context of device d                   *)
LEMMA DoRelease ==
  ASSUME SnullInv, NEW d \in Snull!Devices, NEW c, c = <<"tx", d>> \/ c = <<"poll", d>>,
         Snull!ReleaseBuffer(c)
  PROVE  SnullInv'
<1>0. c \in Snull!Contexts
  BY SnullSets
<1>1. SnullTypes /\ SnullWhere /\ SnullPackets /\ SnullSends /\ SnullAnnounces /\ NetTyped /\ CtxTyped
  BY DEF SnullInv, SnullTypes
<1>2. ctx[c].pc = "release" /\ ~crashed /\ mode' = mode /\ odd' = odd /\ missed' = missed /\ fate' = fate
      /\ crashed' = crashed
  BY Zenon DEF Snull!ReleaseBuffer, Snull!At
<1>3. PICK k : k = ctx[c].pkt
  OBVIOUS
<1>4. k \in Snull!Packets
  <2>1. CASE c = <<"tx", d>>
    BY <1>1, <1>2, <1>3, <2>1 DEF SnullWhere, TxWhere, Buffer, Tx
  <2>2. CASE c = <<"poll", d>>
    BY <1>1, <1>2, <1>3, <2>2 DEF SnullWhere, PollWhere, Buffer, Poll
  <2> QED  BY <2>1, <2>2
<1>5. /\ next' = [next EXCEPT ![k] = net[k[1]].ppool] /\ net' = [net EXCEPT ![k[1]].ppool = k]
      /\ Snull!Go(c, "wake")
  BY <1>3, Zenon DEF Snull!ReleaseBuffer
<1>6. PICK e \in Snull!Devices : e = k[1]
  BY <1>4, SnullSets
<1>7. /\ NetTyped' /\ net'[e].ppool = k
      /\ \A b \in Snull!Devices : /\ net'[b].rx_queue = net[b].rx_queue
                                  /\ KeepQueue(b) /\ KeepUp(b) /\ KeepPoll(b) /\ KeepWord(b)
                                  /\ b # e => net'[b].ppool = net[b].ppool
  <2> DEFINE r == [net[e] EXCEPT !.ppool = k]
  <2>1. net[e] \in SnullNet
    BY <1>1 DEF NetTyped
  <2>2. r \in SnullNet /\ r.ppool = k
    BY <1>4, <2>1 DEF SnullNet
  <2>3. net' = [net EXCEPT ![e] = r]
    BY <1>1, <1>5, <1>6, <2>1 DEF NetTyped, SnullNet
  <2>4. /\ r.rx_queue = net[e].rx_queue /\ r.stopped = net[e].stopped /\ r.up = net[e].up
        /\ r.gone = net[e].gone /\ r.rx_int = net[e].rx_int /\ r.sched = net[e].sched
        /\ r.status = net[e].status /\ r.skb = net[e].skb
    BY <2>1 DEF SnullNet
  <2> HIDE DEF r
  <2>5. NetTyped' /\ net'[e] = r /\ \A b \in Snull!Devices : b # e => net'[b] = net[b]
    BY <1>1, <2>2, <2>3, NetOne, Zenon
  <2> QED  BY <2>2, <2>4, <2>5 DEF KeepQueue, KeepUp, KeepPoll, KeepWord
<1>8. /\ CtxTyped' /\ ctx'[c].pc = "wake" /\ ctx'[c].pkt = k /\ ctx'[c].back = ctx[c].back
      /\ \A b \in Snull!Contexts : b # c => ctx'[b] = ctx[b]
  <2>1. "wake" \in SnullCalls \cup PollCalls
    BY DEF SnullCalls
  <2> QED  BY <1>0, <1>1, <1>3, <1>5, <2>1, CtxGo DEF Moves
<1>9. \A b \in Snull!Devices : ~net[b].gone /\ ~net'[b].gone
  <2>1. Tx(d).pc # "idle" \/ Poll(d).pc # "idle"
    BY <1>2 DEF Tx, Poll
  <2> QED  BY <1>1, <1>7, <2>1, NobodyGone DEF KeepUp
<1>10. SnullTypes'
  <2>1. next' \in [Snull!Packets -> Snull!Packets \cup {Snull!NULL}]
    <3>1. net[e].ppool \in Snull!Packets \cup {Snull!NULL} /\ next \in [Snull!Packets -> Snull!Packets \cup {Snull!NULL}]
      BY <1>1 DEF NetTyped, SnullNet, SnullTypes
    <3> QED  BY <1>4, <1>5, <1>6, <3>1
  <2> QED  BY <1>1, <1>2, <1>7, <1>8, <2>1 DEF SnullTypes
<1>11. SnullPackets'
  BY <1>0, <1>1, <1>2, <1>3, <1>4, <1>5, <1>6, <1>7, <1>8, <1>9, PacketsRelease, ZenonT(40) DEF KeepQueue
<1>12. \A b \in Snull!Devices : /\ KeepWord(b) /\ net'[b].gone = net[b].gone /\ net'[b].stopped = net[b].stopped
                                /\ net'[b].ppool = net[b].ppool \/ net'[b].ppool # Snull!NULL
  BY <1>4, <1>7, SnullSets DEF KeepQueue, KeepUp
<1>13. CASE c = <<"tx", d>>
  <2>1. \A b \in Snull!Devices : Poll(b)' = Poll(b) /\ (b # d => Tx(b)' = Tx(b))
    BY <1>8, <1>13, TxSteps
  <2>2. Tx(d).pc = "release" /\ Tx(d)'.pc = "wake" /\ Tx(d)'.back = Tx(d).back /\ Tx(d)'.pkt = Tx(d).pkt
    BY <1>2, <1>3, <1>8, <1>13 DEF Tx
  <2>3. SnullWhere'
    <3>1. TxWhere(d)
      BY <1>1 DEF SnullWhere
    <3>2. TxWhere(d)'
      BY <1>2, <2>2, <3>1 DEF TxWhere, Buffer, SnullCalls
    <3> QED  BY <1>1, <1>2, <1>7, <1>8, <1>9, <1>12, <1>13, <3>2, TxWhereStep DEF KeepPoll
  <2>4. SnullSends'
    <3>1. odd # "forced" => Sends(d)'
      <4>1. ASSUME odd # "forced" PROVE Sends(d)'
        <5>1. Sends(d)
          BY <1>1, <4>1 DEF SnullSends
        <5> QED  BY <1>2, <1>12, <2>2, <5>1 DEF Sends, Sending, Buffer, KeepWord
      <4> QED  BY <4>1
    <3>2. fate' = {} /\ ~crashed'
      BY <1>1, <1>2 DEF SnullSends
    <3> QED  BY <1>1, <1>2, <1>8, <1>12, <1>13, <3>1, <3>2, TxSendsStep
  <2>5. SnullAnnounces'
    <3>1. SUFFICES ASSUME odd = "no", NEW b \in Snull!Devices PROVE Announces(b)'
      BY <1>1, <1>2 DEF SnullAnnounces
    <3>2. Announces(b) /\ Snull!Twin(b) \in Snull!Devices
      BY <1>1, <3>1, SnullSets DEF SnullAnnounces
    <3> QED  BY <1>2, <1>7, <2>1, <2>2, <3>2, AnnouncesKept DEF KeepWord
  <2> QED  BY <1>10, <1>11, <2>3, <2>4, <2>5 DEF SnullInv
<1>14. CASE c = <<"poll", d>>
  <2>1. \A b \in Snull!Devices : Tx(b)' = Tx(b) /\ (b # d => Poll(b)' = Poll(b))
    BY <1>8, <1>14, PollSteps
  <2>2. Poll(d).pc = "release" /\ Poll(d)'.pc = "wake" /\ Poll(d)'.back = Poll(d).back /\ Poll(d)'.pkt = Poll(d).pkt
    BY <1>2, <1>3, <1>8, <1>14 DEF Poll
  <2>3. SnullWhere'
    <3>1. PollWhere(d)
      BY <1>1 DEF SnullWhere
    <3>2. PollWhere(d)'
      BY <1>2, <2>2, <3>1 DEF PollWhere, Buffer, PollCalls
    <3> QED  BY <1>1, <1>2, <1>7, <1>8, <1>9, <1>12, <1>14, <3>2, PollWhereStep DEF KeepPoll
  <2>4. SnullSends'
    BY <1>1, <1>2, <1>8, <1>12, <1>14, PollSendsStep
  <2>5. SnullAnnounces'
    <3>1. SUFFICES ASSUME odd = "no", NEW b \in Snull!Devices PROVE Announces(b)'
      BY <1>1, <1>2 DEF SnullAnnounces
    <3>2. Announces(b) /\ Snull!Twin(b) \in Snull!Devices
      BY <1>1, <3>1, SnullSets DEF SnullAnnounces
    <3> QED  BY <1>2, <1>7, <2>1, <2>2, <3>2, AnnouncesKept DEF KeepWord
  <2> QED  BY <1>10, <1>11, <2>3, <2>4, <2>5 DEF SnullInv
<1> QED  BY <1>13, <1>14

(* The queue of device e waits for the packet k that was put into an      *)
(* empty pool (snull.c:159).                                              *)
Wakes(e, k) == net[e].stopped /\ next[k] = Snull!NULL

(* What WakeQueue(c) changes, k being the packet released to device e      *)
LEMMA WakeDoes ==
  ASSUME NetTyped, NEW c \in Snull!Contexts, Snull!WakeQueue(c), NEW e \in Snull!Devices, NEW k,
         k = ctx[c].pkt, e = k[1]
  PROVE  /\ NetTyped' /\ \A b \in Snull!Devices : /\ KeepLists(b) /\ KeepWord(b) /\ KeepPoll(b) /\ KeepUp(b)
                                                  /\ b # e => net'[b].stopped = net[b].stopped
         /\ net'[e].stopped = IF Wakes(e, k) THEN FALSE ELSE net[e].stopped
         /\ odd' = IF Wakes(e, k) /\ (net[e].ppool = Snull!NULL \/ odd = "hung") THEN "forced" ELSE odd
<1>1. IF net[k[1]].stopped /\ next[k] = Snull!NULL THEN Snull!Start(k[1]) ELSE UNCHANGED <<net, odd>>
  BY Zenon DEF Snull!WakeQueue
<1>2. CASE Wakes(e, k)
  <2> DEFINE r == [net[e] EXCEPT !.stopped = FALSE]
  <2>1. net' = [net EXCEPT ![e].stopped = FALSE]
        /\ odd' = IF net[e].ppool = Snull!NULL \/ odd = "hung" THEN "forced" ELSE odd
    BY <1>1, <1>2 DEF Wakes, Snull!Start
  <2>2. net[e] \in SnullNet
    BY DEF NetTyped
  <2>3. r \in SnullNet /\ net' = [net EXCEPT ![e] = r] /\ r.stopped = FALSE
    BY <2>1, <2>2, Zenon DEF SnullNet, NetTyped
  <2>4. /\ r.ppool = net[e].ppool /\ r.gone = net[e].gone /\ r.up = net[e].up /\ r.status = net[e].status
        /\ r.rx_queue = net[e].rx_queue /\ r.sched = net[e].sched /\ r.rx_int = net[e].rx_int
        /\ r.skb = net[e].skb
    BY <2>2 DEF SnullNet
  <2> HIDE DEF r
  <2>5. NetTyped' /\ net'[e] = r /\ \A b \in Snull!Devices : b # e => net'[b] = net[b]
    BY <2>3, NetOne, Zenon
  <2>6. \A b \in Snull!Devices : /\ KeepLists(b) /\ KeepWord(b) /\ KeepPoll(b) /\ KeepUp(b)
                                 /\ b # e => net'[b].stopped = net[b].stopped
    BY <2>4, <2>5 DEF KeepLists, KeepWord, KeepPoll, KeepUp
  <2> QED  BY <1>2, <2>1, <2>3, <2>5, <2>6, Zenon
<1>3. CASE ~Wakes(e, k)
  <2>1. net' = net /\ odd' = odd
    BY <1>1, <1>3 DEF Wakes
  <2> QED  BY <1>3, <2>1, NetSame DEF NetTyped
<1> QED  BY <1>2, <1>3, Zenon

(* A stopped queue is started again (snull.c:159-161).                    *)
LEMMA DoWake ==
  ASSUME SnullInv, NEW d \in Snull!Devices, NEW c, c = <<"tx", d>> \/ c = <<"poll", d>>,
         Snull!WakeQueue(c)
  PROVE  SnullInv'
<1>0. c \in Snull!Contexts
  BY SnullSets
<1>1. SnullTypes /\ SnullWhere /\ SnullPackets /\ SnullSends /\ SnullAnnounces /\ NetTyped /\ CtxTyped
  BY DEF SnullInv, SnullTypes
<1>2. ctx[c].pc = "wake" /\ ~crashed /\ mode' = mode /\ next' = next /\ missed' = missed /\ fate' = fate
      /\ crashed' = crashed /\ Snull!To(c, ctx[c].back, Snull!NULL)
  BY Zenon DEF Snull!WakeQueue, Snull!At
<1>3. PICK k : k = ctx[c].pkt
  OBVIOUS
<1>4. k \in Snull!Packets /\ ctx[c].back \in {"idle", "to_wake", "tx_read", "test"}
      /\ (c = <<"poll", d>> => ctx[c].back = "test") /\ (c = <<"tx", d>> => ctx[c].back # "test")
  <2>1. CASE c = <<"tx", d>>
    BY <1>1, <1>2, <1>3, <2>1, ContextNames DEF SnullWhere, TxWhere, Buffer, Tx
  <2>2. CASE c = <<"poll", d>>
    BY <1>1, <1>2, <1>3, <2>2, ContextNames DEF SnullWhere, PollWhere, Buffer, Poll
  <2> QED  BY <2>1, <2>2
<1>6. PICK e \in Snull!Devices : e = k[1]
  BY <1>4, SnullSets
<1>60. k \in Mine(e) /\ \A b \in Snull!Devices : k \in Mine(b) => b = e
  BY <1>4, <1>6, SnullSets
<1>7. /\ NetTyped' /\ \A b \in Snull!Devices : /\ KeepLists(b) /\ KeepWord(b) /\ KeepPoll(b) /\ KeepUp(b)
                                               /\ b # e => net'[b].stopped = net[b].stopped
      /\ net'[e].stopped = IF Wakes(e, k) THEN FALSE ELSE net[e].stopped
      /\ odd' = IF Wakes(e, k) /\ (net[e].ppool = Snull!NULL \/ odd = "hung") THEN "forced" ELSE odd
  BY <1>0, <1>1, <1>3, <1>6, WakeDoes, Zenon
<1>70. odd' \in {odd, "forced"} /\ odd \in {"no", "hung", "forced"} /\ (odd = "forced" => odd' = "forced")
  BY <1>1, <1>7 DEF SnullTypes
<1>8. CtxTyped' /\ ctx'[c].pc = ctx[c].back /\ \A b \in Snull!Contexts : b # c => ctx'[b] = ctx[b]
  <2>1. ctx[c].back \in SnullCalls \cup PollCalls /\ Snull!NULL \in Snull!Packets \cup {Snull!NULL}
    BY <1>4 DEF SnullCalls, PollCalls
  <2>2. CtxTyped' /\ Moves(c, ctx[c].back, Snull!NULL)
    BY <1>0, <1>1, <1>2, <2>1, CtxTo
  <2> QED  BY <2>2 DEF Moves
<1>9. \A b \in Snull!Devices : ~net[b].gone /\ ~net'[b].gone
  <2>1. Tx(d).pc # "idle" \/ Poll(d).pc # "idle"
    BY <1>2 DEF Tx, Poll
  <2> QED  BY <1>1, <1>7, <2>1, NobodyGone DEF KeepUp
<1>90. \A b \in Snull!Devices : net'[b].stopped => net[b].stopped
  BY <1>7, Zenon
<1>10. SnullTypes'
  BY <1>1, <1>2, <1>7, <1>70, <1>8 DEF SnullTypes
<1>11. SnullPackets'
  <2>1. \A b \in Snull!Contexts : (Holds(b)' <=> Holds(b)) /\ (Holds(b) => ctx'[b].pkt = ctx[b].pkt)
    BY <1>2, <1>4, <1>8 DEF Holds
  <2>2. ASSUME NEW a \in Snull!Devices, net'[a].up, net'[a].stopped, odd' = "no"
        PROVE  /\ net[a].up /\ net[a].stopped
               /\ \A b \in Snull!Contexts :
                    ctx[b].pc = "wake" /\ ctx[b].pkt \in Mine(a) /\ next[ctx[b].pkt] = Snull!NULL =>
                      ctx'[b].pc = "wake" /\ ctx'[b].pkt = ctx[b].pkt
    <3>1. net[a].up /\ net[a].stopped
      BY <1>7, <1>90, <2>2 DEF KeepUp
    <3>2. ASSUME ctx[c].pkt \in Mine(a), next[ctx[c].pkt] = Snull!NULL PROVE FALSE
      <4>1. a = e
        BY <1>3, <1>60, <3>2
      <4> QED  BY <1>3, <1>7, <2>2, <3>1, <3>2, <4>1, Zenon DEF Wakes
    <3> QED  BY <1>8, <3>1, <3>2
  <2>3. \A b \in Snull!Devices : KeepLists(b) /\ net'[b].gone = net[b].gone
    BY <1>7 DEF KeepUp
  <2>4. odd' = "no" => odd = "no"
    BY <1>70
  <2> QED  BY <1>1, <1>2, <2>1, <2>2, <2>3, <2>4, PoolsKept
<1>12. \A b \in Snull!Devices : net'[b].rx_queue = net[b].rx_queue /\ net'[b].sched = net[b].sched
                                /\ net'[b].ppool = net[b].ppool /\ net'[b].gone = net[b].gone
  BY <1>7 DEF KeepLists, KeepPoll, KeepUp
<1>120. fate' = {} /\ ~crashed'
  BY <1>1, <1>2 DEF SnullSends
(* A device whose transmit path is where it was                            *)
<1>121. ASSUME NEW b \in Snull!Devices, odd' # "forced", Tx(b)' = Tx(b) PROVE Sends(b)'
  <2>1. Sends(b) /\ odd' = odd
    BY <1>1, <1>70, <1>121 DEF SnullSends
  <2>2. CASE b = e /\ Wakes(e, k)
    <3>1. net[e].ppool # Snull!NULL /\ odd = "no"
      BY <1>7, <1>70, <1>121, <2>2
    <3> QED  BY <1>7, <1>12, <1>121, <2>1, <2>2, <3>1 DEF Sends, Sending, Buffer, KeepWord
  <2>3. CASE ~(b = e /\ Wakes(e, k))
    <3>1. net'[b].stopped = net[b].stopped
      BY <1>7, <2>3, Zenon
    <3> QED  BY <1>7, <1>12, <1>121, <2>1, <3>1 DEF Sends, Sending, Buffer, KeepWord
  <2> QED  BY <2>2, <2>3
<1>13. CASE c = <<"tx", d>>
  <2>1. \A b \in Snull!Devices : Poll(b)' = Poll(b) /\ (b # d => Tx(b)' = Tx(b))
    BY <1>8, <1>13, TxSteps
  <2>2. Tx(d).pc = "wake" /\ Tx(d)'.pc = Tx(d).back /\ Tx(d).back \in {"idle", "to_wake", "tx_read"}
    BY <1>2, <1>4, <1>8, <1>13 DEF Tx
  <2>3. SnullWhere'
    <3>1. TxWhere(d)
      BY <1>1 DEF SnullWhere
    <3>2. TxWhere(d)'
      BY <1>70, <2>2, <3>1 DEF TxWhere, Buffer, SnullCalls
    <3> QED  BY <1>1, <1>2, <1>70, <1>8, <1>9, <1>90, <1>12, <1>13, <3>2, TxWhereStep
  <2>4. ASSUME odd' # "forced" PROVE Sends(d)'
    <3>1. Sends(d) /\ odd' = odd
      BY <1>1, <1>70, <2>4 DEF SnullSends
    <3>2. net'[d].status = net[d].status /\ net'[d].skb = net[d].skb
      BY <1>7 DEF KeepWord
    <3>3. net'[d].stopped \/ net'[d].gone \/ net'[d].ppool # Snull!NULL
      <4>1. net'[d].stopped \/ net[d].ppool # Snull!NULL
        BY <1>7, <1>9, <2>4, <3>1, Zenon DEF Sends
      <4> QED  BY <1>12, <4>1
    <3> QED  BY <2>2, <3>1, <3>2, <3>3 DEF Sends, Sending, Buffer
  <2>5. SnullSends'
    BY <1>120, <1>121, <2>1, <2>4 DEF SnullSends
  <2>6. SnullAnnounces'
    <3>1. SUFFICES ASSUME odd' = "no" PROVE \A b \in Snull!Devices : Announces(b)'
      BY <1>1, <1>2, <1>70 DEF SnullAnnounces
    <3>2. ASSUME NEW b \in Snull!Devices PROVE Announces(b)'
      <4>1. Announces(b) /\ Snull!Twin(b) \in Snull!Devices
        BY <1>1, <1>70, <3>1, SnullSets DEF SnullAnnounces
      <4> QED  BY <1>2, <1>7, <1>12, <2>1, <2>2, <4>1, AnnouncesKept DEF KeepWord
    <3> QED  BY <3>2
  <2> QED  BY <1>10, <1>11, <2>3, <2>5, <2>6 DEF SnullInv
<1>14. CASE c = <<"poll", d>>
  <2>1. \A b \in Snull!Devices : Tx(b)' = Tx(b) /\ (b # d => Poll(b)' = Poll(b))
    BY <1>8, <1>14, PollSteps
  <2>2. Poll(d).pc = "wake" /\ Poll(d)'.pc = "test"
    BY <1>2, <1>4, <1>8, <1>14 DEF Poll
  <2>3. SnullWhere'
    <3>1. PollWhere(d)
      BY <1>1 DEF SnullWhere
    <3>2. PollWhere(d)'
      BY <1>2, <2>2, <3>1 DEF PollWhere, Buffer, PollCalls
    <3> QED  BY <1>1, <1>2, <1>70, <1>8, <1>9, <1>90, <1>12, <1>14, <3>2, PollWhereStep
  <2>4. SnullSends'
    BY <1>120, <1>121, <2>1 DEF SnullSends
  <2>5. SnullAnnounces'
    <3>1. SUFFICES ASSUME odd' = "no" PROVE \A b \in Snull!Devices : Announces(b)'
      BY <1>1, <1>2, <1>70 DEF SnullAnnounces
    <3>2. ASSUME NEW b \in Snull!Devices PROVE Announces(b)'
      <4>1. Announces(b) /\ Snull!Twin(b) \in Snull!Devices
        BY <1>1, <1>70, <3>1, SnullSets DEF SnullAnnounces
      <4> QED  BY <1>2, <1>7, <1>12, <2>1, <2>2, <4>1, AnnouncesKept DEF KeepWord
    <3> QED  BY <3>2
  <2> QED  BY <1>10, <1>11, <2>3, <2>4, <2>5 DEF SnullInv
<1> QED  BY <1>13, <1>14

(* The kernel hands a frame over (snull.c:509-532).                       *)
LEMMA DoTransmit ==
  ASSUME SnullInv, NEW d \in Snull!Devices, Snull!Transmit(<<"tx", d>>, d)
  PROVE  SnullInv'
<1> DEFINE c == <<"tx", d>>
           r == [net[d] EXCEPT !.skb = TRUE]
<1>0. c \in Snull!Contexts
  BY SnullSets
<1>1. ctx[c].pc = "idle" /\ ~crashed /\ net[d].up /\ ~net[d].stopped /\ Snull!Go(c, "get")
      /\ fate' = IF net[d].skb /\ odd = "no" THEN {"lost"} ELSE fate
  BY Zenon DEF Snull!Transmit, Snull!At
<1>2. net' = [net EXCEPT ![d].skb = TRUE]
  BY Zenon DEF Snull!Transmit
<1>3. mode' = mode /\ next' = next /\ odd' = odd /\ crashed' = crashed /\ missed' = missed
  BY Zenon DEF Snull!Transmit
<1>4. SnullTypes /\ SnullWhere /\ SnullPackets /\ SnullSends /\ SnullAnnounces /\ NetTyped /\ CtxTyped
  BY DEF SnullInv, SnullTypes
<1>5. net[d] \in SnullNet
  BY <1>4 DEF NetTyped
<1>6. r \in SnullNet /\ net' = [net EXCEPT ![d] = r] /\ r.skb = TRUE
  BY <1>2, <1>4, <1>5, Zenon DEF SnullNet, NetTyped
<1>7. /\ r.ppool = net[d].ppool /\ r.up = net[d].up /\ r.gone = net[d].gone /\ r.stopped = net[d].stopped
      /\ r.rx_queue = net[d].rx_queue /\ r.sched = net[d].sched /\ r.rx_int = net[d].rx_int
      /\ r.status = net[d].status
  BY <1>5 DEF SnullNet
<1> HIDE DEF r, c
<1>8. NetTyped' /\ net'[d] = r /\ \A e \in Snull!Devices : e # d => net'[e] = net[e]
  BY <1>4, <1>6, NetOne, Zenon
<1>9. CtxTyped' /\ ctx'[c].pc = "get" /\ \A b \in Snull!Contexts : b # c => ctx'[b] = ctx[b]
  <2>1. "get" \in SnullCalls \cup PollCalls
    BY DEF SnullCalls
  <2> QED  BY <1>0, <1>1, <1>4, <2>1, CtxGo DEF Moves
<1>10. Tx(d).pc = "idle" /\ Tx(d)'.pc = "get" /\ \A b \in Snull!Devices : Poll(b)' = Poll(b) /\ (b # d => Tx(b)' = Tx(b))
  BY <1>1, <1>9, TxSteps DEF Tx, c
<1>11. \A e \in Snull!Devices : ~net[e].gone
  BY <1>1, <1>4, NobodyGone
<1>12. \A e \in Snull!Devices : /\ KeepLists(e) /\ KeepUp(e) /\ KeepPoll(e) /\ KeepQueue(e)
                                /\ net'[e].status = net[e].status
                                /\ e # d => KeepWord(e)
  BY <1>7, <1>8 DEF KeepLists, KeepUp, KeepPoll, KeepWord, KeepQueue
<1>13. SnullTypes'
  BY <1>3, <1>4, <1>8, <1>9 DEF SnullTypes
<1>14. SnullWhere'
  <2>1. TxWhere(d)'
    BY <1>1, <1>7, <1>8, <1>10 DEF TxWhere, Buffer, SnullCalls
  <2>2. \A b \in Snull!Devices : ~net'[b].gone
    BY <1>11, <1>12 DEF KeepUp
  <2> QED  BY <1>3, <1>4, <1>9, <1>12, <2>1, <2>2, TxWhereStep DEF c, KeepLists, KeepPoll, KeepQueue
<1>15. SnullPackets'
  <2>1. \A b \in Snull!Contexts : (Holds(b)' <=> Holds(b)) /\ (Holds(b) => ctx'[b].pkt = ctx[b].pkt)
                                  /\ (ctx[b].pc = "wake" => ctx'[b] = ctx[b])
    BY <1>1, <1>9 DEF Holds
  <2> QED  BY <1>3, <1>4, <1>12, <2>1, PoolsKept DEF KeepUp, KeepQueue
<1>16. SnullSends'
  <2>1. odd # "forced" => "tx" \notin net[d].status /\ ~net[d].skb /\ net[d].ppool # Snull!NULL
    BY <1>1, <1>4, <1>10, <1>11 DEF SnullSends, Sends
  <2>2. odd # "forced" => Sends(d)'
    BY <1>6, <1>7, <1>8, <1>10, <2>1 DEF Sends, Sending, Buffer
  <2>3. fate' = {} /\ ~crashed'
    BY <1>1, <1>3, <1>4, <2>1 DEF SnullSends
  <2>4. \A e \in Snull!Devices : e # d =>
           /\ KeepWord(e) /\ net'[e].gone = net[e].gone
           /\ net'[e].stopped = net[e].stopped /\ net'[e].ppool = net[e].ppool
    BY <1>12 DEF KeepLists, KeepUp, KeepQueue
  <2> QED  BY <1>3, <1>4, <1>9, <2>2, <2>3, <2>4, TxSendsStep DEF c
<1>17. SnullAnnounces'
  <2>1. SUFFICES ASSUME odd = "no", NEW e \in Snull!Devices PROVE Announces(e)'
    BY <1>3, <1>4 DEF SnullAnnounces
  <2>2. Announces(e) /\ Snull!Twin(e) \in Snull!Devices
    BY <1>4, <2>1, SnullSets DEF SnullAnnounces
  <2> QED  BY <1>3, <1>10, <1>12, <2>2, AnnouncesKept DEF KeepLists
<1> QED  BY <1>13, <1>14, <1>15, <1>16, <1>17 DEF SnullInv

(* The poll takes a packet (snull.c:295-316).                             *)
LEMMA DoDequeue ==
  ASSUME SnullInv, NEW d \in Snull!Devices, Snull!PollDequeue(<<"poll", d>>, d)
  PROVE  SnullInv'
<1> DEFINE c == <<"poll", d>>
<1>0. c \in Snull!Contexts /\ Poll(d) = ctx[c] /\ Poll(d)' = ctx'[c]
  BY SnullSets DEF Poll
<1>1. ctx[c].pc = "dequeue" /\ ~crashed /\ mode' = mode /\ next' = next /\ odd' = odd /\ fate' = fate
      /\ crashed' = crashed /\ missed' = missed
  BY Zenon DEF Snull!PollDequeue, Snull!At
<1>2. PICK k : k = net[d].rx_queue
  OBVIOUS
<1>3. net' = [net EXCEPT ![d].rx_queue = next[k]]
  BY <1>2, Zenon DEF Snull!PollDequeue
<1>4. PICK done \in {0, 1} : ctx' = [ctx EXCEPT ![c].pc = "release", ![c].pkt = k, ![c].back = "test", ![c].n = @ + done]
  BY <1>2, Zenon DEF Snull!PollDequeue
<1>5. SnullTypes /\ SnullWhere /\ SnullPackets /\ SnullSends /\ SnullAnnounces /\ NetTyped /\ CtxTyped
  BY DEF SnullInv, SnullTypes
<1>6. k \in Snull!Packets /\ k # Snull!NULL /\ ctx[c].n < Quota /\ Poll(d).pc = "dequeue" /\ mode.napi
  <2>1. PollWhere(d) /\ net[d].rx_queue \in Snull!Packets \cup {Snull!NULL}
    BY <1>5 DEF SnullWhere, NetTyped, SnullNet
  <2> QED  BY <1>0, <1>1, <1>2, <2>1 DEF PollWhere
<1> HIDE DEF c
<1>7. CtxTyped' /\ ctx'[c].pc = "release" /\ ctx'[c].pkt = k /\ ctx'[c].back = "test"
      /\ \A b \in Snull!Contexts : b # c => ctx'[b] = ctx[b]
  <2> DEFINE r == [ctx[c] EXCEPT !.pc = "release", !.pkt = k, !.back = "test", !.n = @ + done]
  <2>1. ctx[c] \in SnullCtx /\ "release" \in SnullCalls \cup PollCalls /\ Quota \in Nat
    BY <1>0, <1>5, DriversAssumption DEF CtxTyped, SnullCalls
  <2>2. ctx[c].n + done \in 0..Quota
    BY <1>6, <2>1 DEF SnullCtx
  <2>3. r \in SnullCtx /\ r.pc = "release" /\ r.pkt = k /\ r.back = "test"
    BY <1>6, <2>1, <2>2, Zenon DEF SnullCtx
  <2>4. ctx' = [ctx EXCEPT ![c] = r]
    BY <1>0, <1>4, <1>5, <2>1, Zenon DEF CtxTyped, SnullCtx
  <2> HIDE DEF r
  <2>5. CtxTyped' /\ ctx'[c] = r /\ \A b \in Snull!Contexts : b # c => ctx'[b] = ctx[b]
    BY <1>0, <1>5, <2>3, <2>4, CtxOne, Zenon
  <2> QED  BY <2>3, <2>5
<1>8. /\ NetTyped' /\ net'[d].rx_queue = next[k]
      /\ \A b \in Snull!Devices : /\ net'[b].ppool = net[b].ppool /\ net'[b].stopped = net[b].stopped
                                  /\ KeepUp(b) /\ KeepWord(b) /\ KeepPoll(b)
                                  /\ b # d => net'[b].rx_queue = net[b].rx_queue
  <2> DEFINE r == [net[d] EXCEPT !.rx_queue = next[k]]
  <2>1. net[d] \in SnullNet /\ next[k] \in Snull!Packets \cup {Snull!NULL}
    BY <1>5, <1>6 DEF NetTyped, SnullTypes
  <2>2. r \in SnullNet /\ net' = [net EXCEPT ![d] = r] /\ r.rx_queue = next[k]
    BY <1>3, <1>5, <2>1 DEF SnullNet, NetTyped
  <2>3. /\ r.ppool = net[d].ppool /\ r.up = net[d].up /\ r.gone = net[d].gone /\ r.stopped = net[d].stopped
        /\ r.skb = net[d].skb /\ r.sched = net[d].sched /\ r.rx_int = net[d].rx_int
        /\ r.status = net[d].status
    BY <2>1 DEF SnullNet
  <2> HIDE DEF r
  <2>4. NetTyped' /\ net'[d] = r /\ \A e \in Snull!Devices : e # d => net'[e] = net[e]
    BY <1>5, <2>2, NetOne, Zenon
  <2> QED  BY <2>2, <2>3, <2>4 DEF KeepUp, KeepWord, KeepPoll
<1>9. \A b \in Snull!Devices : ~net[b].gone /\ ~net'[b].gone
  BY <1>5, <1>6, <1>8, NobodyGone DEF KeepUp
<1>10. \A b \in Snull!Devices : Tx(b)' = Tx(b) /\ (b # d => Poll(b)' = Poll(b))
  BY <1>7, PollSteps DEF c
<1>11. SnullTypes'
  BY <1>1, <1>5, <1>7, <1>8 DEF SnullTypes
<1>12. SnullWhere'
  <2>1. PollWhere(d)'
    BY <1>0, <1>1, <1>6, <1>7 DEF PollWhere, Buffer, PollCalls
  <2> QED  BY <1>1, <1>5, <1>7, <1>8, <1>9, <2>1, PollWhereStep DEF c, KeepPoll
<1>13. SnullPackets'
  BY <1>0, <1>1, <1>2, <1>5, <1>6, <1>7, <1>8, <1>9, PacketsTake DEF Holds
<1>14. SnullSends'
  <2>1. \A b \in Snull!Devices : KeepWord(b) /\ net'[b].gone = net[b].gone /\ net'[b].stopped = net[b].stopped
                                 /\ net'[b].ppool = net[b].ppool
    BY <1>8 DEF KeepUp
  <2> QED  BY <1>1, <1>5, <1>7, <2>1, PollSendsStep DEF c
<1>15. SnullAnnounces'
  <2>1. SUFFICES ASSUME odd = "no", NEW b \in Snull!Devices PROVE Announces(b)'
    BY <1>1, <1>5 DEF SnullAnnounces
  <2>2. Announces(b) /\ Snull!Twin(b) \in Snull!Devices
    BY <1>5, <2>1, SnullSets DEF SnullAnnounces
  <2>3. CASE b = d
    <3>1. Poll(d)'.pc = "release" /\ net'[d].status = net[d].status /\ net'[d].rx_int = net[d].rx_int
          /\ net'[d].sched = net[d].sched /\ Tx(Snull!Twin(d))' = Tx(Snull!Twin(d))
      BY <1>0, <1>7, <1>8, <1>10, <2>2, <2>3 DEF KeepWord, KeepPoll
    <3> QED  BY <1>1, <1>6, <2>2, <2>3, <3>1 DEF Announces
  <2>4. CASE b # d
    BY <1>1, <1>8, <1>10, <2>2, <2>4, AnnouncesKept DEF KeepWord
  <2> QED  BY <2>3, <2>4
<1> QED  BY <1>11, <1>12, <1>13, <1>14, <1>15 DEF SnullInv

(* The devices are unregistered and their pools freed (snull.c:690-703).  *)
LEMMA DoCleanup ==
  ASSUME SnullInv, Snull!Cleanup
  PROVE  SnullInv'
<1>1. (\A d \in Snull!Devices : ~net[d].up /\ ~net[d].sched) /\ \A c \in Snull!Contexts : ctx[c].pc = "idle" /\ ~crashed
  BY Zenon DEF Snull!Cleanup, Snull!At
<1>2. net' = [d \in Snull!Devices |-> [net[d] EXCEPT !.ppool = Snull!NULL, !.gone = TRUE]]
  BY Zenon DEF Snull!Cleanup
<1>3. mode' = mode /\ next' = next /\ ctx' = ctx /\ odd' = odd /\ fate' = fate /\ crashed' = crashed /\ missed' = missed
  BY Zenon DEF Snull!Cleanup
<1>4. SnullTypes /\ SnullWhere /\ SnullPackets /\ SnullSends /\ SnullAnnounces /\ NetTyped /\ CtxTyped
  BY DEF SnullInv, SnullTypes
<1>5. ASSUME NEW d \in Snull!Devices
      PROVE  /\ net'[d] \in SnullNet /\ net'[d].gone = TRUE /\ net'[d].ppool = Snull!NULL
             /\ net'[d].up = net[d].up /\ net'[d].stopped = net[d].stopped /\ net'[d].rx_queue = net[d].rx_queue
             /\ net'[d].status = net[d].status /\ net'[d].skb = net[d].skb /\ net'[d].rx_int = net[d].rx_int
             /\ net'[d].sched = net[d].sched
  <2>1. net[d] \in SnullNet /\ net'[d] = [net[d] EXCEPT !.ppool = Snull!NULL, !.gone = TRUE]
    BY <1>2, <1>4, Zenon DEF NetTyped
  <2> QED  BY <2>1, Zenon DEF SnullNet
<1>6. \A d \in Snull!Devices : Tx(d).pc = "idle" /\ Poll(d).pc = "idle" /\ Tx(d)' = Tx(d) /\ Poll(d)' = Poll(d)
  BY <1>1, <1>3, SnullSets DEF Tx, Poll
<1>7. NetTyped'
  <2>1. net' = [d \in Snull!Devices |-> net'[d]]
    BY <1>2, Zenon
  <2> QED  BY <1>5, <2>1, Zenon DEF NetTyped
<1>8. SnullTypes'
  BY <1>3, <1>4, <1>7 DEF SnullTypes, CtxTyped
<1>9. SnullWhere'
  <2>1. AllGone'
    <3>1. ASSUME NEW e \in Snull!Devices
          PROVE  net'[e].gone /\ ~net'[e].up /\ ~net'[e].sched /\ Tx(e)'.pc = "idle" /\ Poll(e)'.pc = "idle"
      <4>1. Tx(e)'.pc = "idle" /\ Poll(e)'.pc = "idle"
        BY <1>6
      <4>2. net'[e].gone /\ ~net'[e].up /\ ~net'[e].sched
        BY <1>1, <1>5, Zenon
      <4> QED  BY <4>1, <4>2
    <3> QED  BY <3>1 DEF AllGone
  <2>2. \A d \in Snull!Devices : TxWhere(d)'
    BY <1>6 DEF TxWhere, Buffer, SnullCalls
  <2>3. \A d \in Snull!Devices : PollWhere(d)'
    BY <1>1, <1>5, <1>6, Zenon DEF PollWhere, Buffer, PollCalls
  <2> QED  BY <2>1, <2>2, <2>3 DEF SnullWhere
<1>10. SnullPackets'
  <2>1. \A c \in Snull!Contexts : ~Holds(c)'
    BY <1>1, <1>3 DEF Holds
  <2>2. \A d \in Snull!Devices : net'[d].gone
    BY <1>5, Zenon
  <2> QED  BY <2>1, <2>2 DEF SnullPackets, Alone
<1>11. SnullSends'
  <2>1. ASSUME odd # "forced", NEW d \in Snull!Devices PROVE Sends(d)'
    <3>1. Sends(d)
      BY <1>4, <2>1 DEF SnullSends
    <3> QED  BY <1>3, <1>5, <1>6, <3>1, Zenon DEF Sends, Sending, Buffer
  <2> QED  BY <1>3, <1>4, <2>1 DEF SnullSends
<1>12. SnullAnnounces'
  <2>1. SUFFICES ASSUME odd = "no", NEW d \in Snull!Devices PROVE Announces(d)'
    BY <1>3, <1>4 DEF SnullAnnounces
  <2>2. Announces(d) /\ Snull!Twin(d) \in Snull!Devices
    BY <1>4, <2>1, SnullSets DEF SnullAnnounces
  <2> QED  BY <1>3, <1>5, <1>6, <2>2, AnnouncesKept, Zenon DEF KeepPoll
<1> QED  BY <1>8, <1>9, <1>10, <1>11, <1>12 DEF SnullInv

(* A packet that is taken from the pool is in one place still; when it    *)
(* was the last, the queue was stopped with it (snull.c:132-147).         *)
LEMMA PacketsGet ==
  ASSUME SnullTypes, SnullPackets, \A b \in Snull!Devices : ~net[b].gone,
         NEW e \in Snull!Devices, NEW c \in Snull!Contexts, ctx[c].pc = "get", ~net[e].stopped,
         net[e].ppool # Snull!NULL, net'[e].ppool = next[net[e].ppool],
         ctx'[c].pc = "enqueue", ctx'[c].pkt = net[e].ppool,
         \A b \in Snull!Contexts : b # c => ctx'[b] = ctx[b],
         net'[e].stopped => next[net[e].ppool] = Snull!NULL,
         \A b \in Snull!Devices : /\ net'[b].rx_queue = net[b].rx_queue
                                  /\ KeepUp(b)
                                  /\ b # e => net'[b].ppool = net[b].ppool /\ net'[b].stopped = net[b].stopped,
         mode' = mode, next' = next, odd' = odd
  PROVE  SnullPackets' /\ net[e].ppool \in Mine(e)
<1> DEFINE t == Snull!Twin(e)
<1>0. t \in Snull!Devices /\ t # e /\ Snull!Twin(t) = e /\ Snull!Twin(e) = t /\ \A b \in Snull!Devices : b = t \/ b = e
  BY SnullSets
<1>1. PICK pool \in SUBSET Mine(e), queue \in SUBSET Mine(e) : Parts(e, pool, queue)
  BY DEF SnullPackets
<1>2. PICK pool2 \in SUBSET Mine(t), queue2 \in SUBSET Mine(t) : Parts(t, pool2, queue2)
  BY <1>0 DEF SnullPackets
<1> HIDE DEF t
<1>30. PICK k : k = net[e].ppool
  OBVIOUS
<1>3. List(pool, k, next) /\ k \in pool /\ k \notin queue /\ k # Snull!NULL
  <2>1. List(pool, k, next) /\ pool \cap queue = {}
    BY <1>1, <1>30 DEF Parts
  <2> QED  BY <1>30, <2>1, ListHead
<1>31. PICK rest \in SUBSET Mine(e) : rest = pool \ {k}
  BY Zenon
<1>4. ctx'[c].pkt = k /\ net'[e].ppool = next[k] /\ k \in Mine(e) /\ k \notin Mine(t)
  <2>1. k \in Mine(e)
    BY <1>1, <1>3
  <2>2. k \notin Mine(t)
    BY <1>0, <2>1, SnullSets
  <2> QED  BY <1>30, <2>1, <2>2
<1>5. \A b \in Snull!Contexts : /\ b # c => (Holds(b)' <=> Holds(b)) /\ ctx'[b] = ctx[b]
                                /\ b = c => Holds(b)' /\ ~Holds(b) /\ ctx[b].pc # "wake"
  BY DEF Holds
<1>6. \A b \in Snull!Contexts : Holds(b) => ctx[b].pkt # k
  BY <1>1, <1>3 DEF Parts
<1>7. Alone'
  <2>1. \A b, a \in Snull!Contexts : Holds(b) /\ Holds(a) /\ ctx[b].pkt = ctx[a].pkt => b = a
    BY DEF SnullPackets, Alone
  <2> QED  BY <1>4, <1>5, <1>6, <2>1 DEF Alone
<1>8. Parts(e, rest, queue)'
  <2>1. List(rest, net'[e].ppool, next')
    BY <1>3, <1>31, <1>4, ListPop, Zenon
  <2>2. List(queue, net'[Snull!Twin(e)].rx_queue, next')
    BY <1>0, <1>1 DEF Parts
  <2>3. rest \cap queue = {}
    BY <1>1, <1>31 DEF Parts
  <2>4. \A b \in Snull!Contexts : Holds(b)' => ctx'[b].pkt \notin rest \cup queue
    <3>1. \A b \in Snull!Contexts : Holds(b) => ctx[b].pkt \notin pool \cup queue
      BY <1>1 DEF Parts
    <3> QED  BY <1>3, <1>31, <1>4, <1>5, <3>1
  <2>5. \A j \in Mine(e) : j \in rest \/ j \in queue \/ \E b \in Snull!Contexts : Holds(b)' /\ ctx'[b].pkt = j
    <3>1. SUFFICES ASSUME NEW j \in Mine(e), j \notin rest, j \notin queue
                   PROVE  \E b \in Snull!Contexts : Holds(b)' /\ ctx'[b].pkt = j
      OBVIOUS
    <3>2. CASE j = k
      BY <1>4, <1>5, <3>2
    <3>3. CASE j # k
      <4>1. PICK b \in Snull!Contexts : Holds(b) /\ ctx[b].pkt = j
        BY <1>1, <1>31, <3>1, <3>3 DEF Parts
      <4> QED  BY <1>5, <4>1
    <3> QED  BY <3>2, <3>3
  <2>6. net'[e].up /\ net'[e].stopped /\ net'[e].ppool # Snull!NULL /\ odd' = "no" =>
          \E b \in Snull!Contexts : ctx'[b].pc = "wake" /\ ctx'[b].pkt \in rest /\ next'[ctx'[b].pkt] = Snull!NULL
    OBVIOUS
  <2>7. ~mode'.napi /\ odd' = "no" => queue \subseteq {net'[Snull!Twin(e)].rx_queue}
    BY <1>0, <1>1 DEF Parts
  <2> QED  BY <2>1, <2>2, <2>3, <2>4, <2>5, <2>6, <2>7 DEF Parts, Mine
<1>9. Parts(t, pool2, queue2)'
  <2>1. List(pool2, net'[t].ppool, next') /\ List(queue2, net'[Snull!Twin(t)].rx_queue, next') /\ pool2 \cap queue2 = {}
        /\ (~mode'.napi /\ odd' = "no" => queue2 \subseteq {net'[Snull!Twin(t)].rx_queue})
    BY <1>0, <1>2 DEF Parts
  <2>4. \A b \in Snull!Contexts : Holds(b)' => ctx'[b].pkt \notin pool2 \cup queue2
    BY <1>2, <1>4, <1>5 DEF Parts
  <2>5. \A j \in Mine(t) : j \in pool2 \/ j \in queue2 \/ \E b \in Snull!Contexts : Holds(b)' /\ ctx'[b].pkt = j
    BY <1>2, <1>5 DEF Parts
  <2>6. net'[t].up /\ net'[t].stopped /\ net'[t].ppool # Snull!NULL /\ odd' = "no" =>
          \E b \in Snull!Contexts : ctx'[b].pc = "wake" /\ ctx'[b].pkt \in pool2 /\ next'[ctx'[b].pkt] = Snull!NULL
    <3>1. \A b \in Snull!Contexts : ctx[b].pc = "wake" => ctx'[b] = ctx[b]
      BY <1>5
    <3>2. net'[t].up = net[t].up /\ net'[t].stopped = net[t].stopped /\ net'[t].ppool = net[t].ppool
      BY <1>0 DEF KeepUp
    <3> QED  BY <1>2, <3>1, <3>2 DEF Parts
  <2> QED  BY <2>1, <2>4, <2>5, <2>6 DEF Parts, Mine
<1>11. ASSUME NEW b \in Snull!Devices PROVE (\E p, q \in SUBSET Mine(b) : Parts(b, p, q))'
  <2>1. CASE b = t
    BY <1>9, <2>1 DEF Mine
  <2>2. CASE b = e
    BY <1>8, <2>2 DEF Mine
  <2> QED  BY <1>0, <2>1, <2>2
<1> QED  BY <1>4, <1>7, <1>11, <1>30 DEF SnullPackets

(* snull_tx takes a packet; the pool of an open queue is not empty        *)
(* (snull.c:132-147).                                                     *)
LEMMA DoGet ==
  ASSUME SnullInv, NEW d \in Snull!Devices, Snull!GetTxBuffer(<<"tx", d>>, d)
  PROVE  SnullInv'
<1> DEFINE c == <<"tx", d>>
<1>0. c \in Snull!Contexts /\ Tx(d) = ctx[c] /\ Tx(d)' = ctx'[c]
  BY SnullSets DEF Tx
<1>1. ctx[c].pc = "get" /\ ~crashed /\ mode' = mode /\ next' = next /\ odd' = odd /\ fate' = fate
      /\ missed' = missed
  BY Zenon DEF Snull!GetTxBuffer, Snull!At
<1>2. PICK k : k = net[d].ppool
  OBVIOUS
<1>3. IF k = Snull!NULL THEN crashed' = TRUE /\ mode' = mode /\ net' = net /\ ctx' = ctx
      ELSE /\ net' = [net EXCEPT ![d].ppool = next[k], ![d].stopped = @ \/ next[k] = Snull!NULL]
           /\ Snull!To(c, "enqueue", k) /\ crashed' = crashed
  BY <1>2, Zenon DEF Snull!GetTxBuffer
<1>4. SnullTypes /\ SnullWhere /\ SnullPackets /\ SnullSends /\ SnullAnnounces /\ NetTyped /\ CtxTyped
  BY DEF SnullInv, SnullTypes
<1>5. odd # "forced" => k # Snull!NULL
  BY <1>0, <1>1, <1>2, <1>4 DEF SnullSends, Sends
<1>6. ~net[d].stopped /\ TxWhere(d)
  BY <1>0, <1>1, <1>4 DEF SnullWhere, TxWhere
<1>7. \A b \in Snull!Devices : ~net[b].gone
  BY <1>0, <1>1, <1>4, NobodyGone
<1>8. CASE k = Snull!NULL
  <2>1. net' = net /\ ctx' = ctx /\ odd = "forced" /\ \A b \in Snull!Devices : Tx(b)' = Tx(b) /\ Poll(b)' = Poll(b)
    BY <1>3, <1>5, <1>8 DEF Tx, Poll
  <2>2. SnullTypes'
    BY <1>1, <1>4, <2>1 DEF SnullTypes, NetTyped, CtxTyped
  <2>3. SnullWhere'
    <3>1. TxWhere(d)'
      BY <1>1, <1>6, <2>1, TxKept
    <3> QED  BY <1>1, <1>4, <1>7, <2>1, <3>1, TxWhereStep
  <2>4. SnullPackets'
    BY <1>1, <1>4, <2>1, PoolsKept DEF KeepLists, Holds
  <2>5. SnullSends' /\ SnullAnnounces'
    BY <1>1, <1>4, <2>1 DEF SnullSends, SnullAnnounces
  <2> QED  BY <2>2, <2>3, <2>4, <2>5 DEF SnullInv
<1>9. CASE k # Snull!NULL
  <2>0. k \in Snull!Packets /\ next[k] \in Snull!Packets \cup {Snull!NULL} /\ net[d] \in SnullNet
    BY <1>2, <1>4, <1>9 DEF NetTyped, SnullNet, SnullTypes
  <2>1. /\ NetTyped' /\ net'[d].ppool = next[k] /\ net'[d].stopped = (next[k] = Snull!NULL)
        /\ \A b \in Snull!Devices : /\ net'[b].rx_queue = net[b].rx_queue
                                    /\ KeepUp(b) /\ KeepWord(b) /\ KeepPoll(b)
                                    /\ b # d => net'[b].ppool = net[b].ppool /\ net'[b].stopped = net[b].stopped
    <3> DEFINE full == (net[d].stopped \/ next[k] = Snull!NULL)
               r == [net[d] EXCEPT !.ppool = next[k], !.stopped = full]
    <3>1. net' = [net EXCEPT ![d].ppool = next[k], ![d].stopped = @ \/ next[k] = Snull!NULL]
      BY <1>3, <1>9
    <3>2. full \in BOOLEAN /\ full = (next[k] = Snull!NULL)
      BY <1>6
    <3>3. net' = [net EXCEPT ![d] = r]
      BY <1>4, <2>0, <3>1, Zenon DEF NetTyped, SnullNet
    <3> HIDE DEF full
    <3>4. r \in SnullNet /\ r.ppool = next[k] /\ r.stopped = full
      BY <2>0, <3>2, Zenon DEF SnullNet
    <3>5. /\ r.rx_queue = net[d].rx_queue /\ r.up = net[d].up /\ r.gone = net[d].gone
          /\ r.skb = net[d].skb /\ r.sched = net[d].sched /\ r.rx_int = net[d].rx_int
          /\ r.status = net[d].status
      BY <2>0 DEF SnullNet
    <3> HIDE DEF r
    <3>6. NetTyped' /\ net'[d] = r /\ \A e \in Snull!Devices : e # d => net'[e] = net[e]
      BY <1>4, <3>3, <3>4, NetOne, Zenon
    <3> QED  BY <3>2, <3>4, <3>5, <3>6 DEF KeepUp, KeepWord, KeepPoll
  <2>2. CtxTyped' /\ ctx'[c].pc = "enqueue" /\ ctx'[c].pkt = k /\ \A b \in Snull!Contexts : b # c => ctx'[b] = ctx[b]
    <3>1. "enqueue" \in SnullCalls \cup PollCalls /\ Snull!To(c, "enqueue", k) /\ k \in Snull!Packets \cup {Snull!NULL}
      BY <1>3, <1>9, <2>0 DEF SnullCalls
    <3>2. CtxTyped' /\ Moves(c, "enqueue", k)
      BY <1>0, <1>4, <3>1, CtxTo
    <3> QED  BY <3>2 DEF Moves
  <2> HIDE DEF c
  <2>3. SnullPackets' /\ k \in Mine(d)
    <3>1. net[d].ppool # Snull!NULL /\ net'[d].ppool = next[net[d].ppool] /\ ctx'[c].pkt = net[d].ppool
          /\ (net'[d].stopped => next[net[d].ppool] = Snull!NULL)
      BY <1>2, <1>9, <2>1, <2>2, Zenon
    <3> QED  BY <1>0, <1>1, <1>2, <1>4, <1>6, <1>7, <2>1, <2>2, <3>1, PacketsGet
  <2>4. \A b \in Snull!Devices : Poll(b)' = Poll(b) /\ (b # d => Tx(b)' = Tx(b))
    BY <2>2, TxSteps DEF c
  <2>5. SnullTypes'
    BY <1>1, <1>4, <2>1, <2>2 DEF SnullTypes
  <2>6. SnullWhere'
    <3>1. TxWhere(d)'
      BY <1>0, <2>2, <2>3 DEF TxWhere, Buffer, SnullCalls, Mine
    <3>2. \A b \in Snull!Devices : ~net'[b].gone
      BY <1>7, <2>1 DEF KeepUp
    <3> QED  BY <1>1, <1>4, <2>1, <2>2, <3>1, <3>2, TxWhereStep DEF c, KeepPoll
  <2>7. SnullSends'
    <3>1. ASSUME odd # "forced" PROVE Sends(d)'
      <4>1. Sends(d) /\ net'[d].status = net[d].status /\ net'[d].skb = net[d].skb
        BY <1>4, <2>1, <3>1 DEF SnullSends, KeepWord
      <4>2. net'[d].stopped \/ net'[d].ppool # Snull!NULL
        BY <2>1, Zenon
      <4> QED  BY <1>0, <1>1, <2>2, <4>1, <4>2 DEF Sends, Sending, Buffer
    <3>2. fate' = {} /\ ~crashed'
      BY <1>1, <1>3, <1>4, <1>9 DEF SnullSends
    <3>3. \A b \in Snull!Devices : b # d =>
             KeepWord(b) /\ net'[b].gone = net[b].gone /\ net'[b].stopped = net[b].stopped /\ net'[b].ppool = net[b].ppool
      BY <2>1 DEF KeepUp
    <3> QED  BY <1>1, <1>4, <2>2, <3>1, <3>2, <3>3, TxSendsStep DEF c
  <2>8. SnullAnnounces'
    <3>1. SUFFICES ASSUME odd = "no", NEW b \in Snull!Devices PROVE Announces(b)'
      BY <1>1, <1>4 DEF SnullAnnounces
    <3>2. Announces(b) /\ Snull!Twin(b) \in Snull!Devices
      BY <1>4, <3>1, SnullSets DEF SnullAnnounces
    <3>3. Tx(d).pc = "get" /\ Tx(d)'.pc = "enqueue"
      BY <1>0, <1>1, <2>2
    <3> QED  BY <1>1, <2>1, <2>4, <3>2, <3>3, AnnouncesKept DEF KeepWord
  <2> QED  BY <2>3, <2>5, <2>6, <2>7, <2>8 DEF SnullInv
<1> QED  BY <1>8, <1>9

(* A packet that is put before the head of the receiver's queue is in one *)
(* place still (snull.c:163-172).                                         *)
LEMMA PacketsEnqueue ==
  ASSUME SnullTypes, SnullPackets, \A b \in Snull!Devices : ~net[b].gone,
         NEW e \in Snull!Devices, NEW t \in Snull!Devices, t = Snull!Twin(e),
         NEW c \in Snull!Contexts, NEW k \in Mine(e), ctx[c].pc = "enqueue", ctx[c].pkt = k,
         ctx'[c].pc = "enabled",
         \A b \in Snull!Contexts : b # c => ctx'[b] = ctx[b],
         net'[t].rx_queue = k, next' = [next EXCEPT ![k] = net[t].rx_queue],
         ~mode.napi /\ odd = "no" => net[t].rx_queue = Snull!NULL,
         \A b \in Snull!Devices : /\ net'[b].ppool = net[b].ppool /\ net'[b].stopped = net[b].stopped
                                  /\ KeepUp(b)
                                  /\ b # t => net'[b].rx_queue = net[b].rx_queue,
         mode' = mode, odd' = odd
  PROVE  SnullPackets'
<1>0. t # e /\ Snull!Twin(t) = e /\ Snull!Twin(e) = t
      /\ (\A b \in Snull!Devices : b = t \/ b = e) /\ k \in Snull!Packets /\ k \notin Mine(t) /\ k # Snull!NULL
  BY SnullSets
<1>1. PICK pool \in SUBSET Mine(e), queue \in SUBSET Mine(e) : Parts(e, pool, queue)
  BY <1>0 DEF SnullPackets
<1>2. PICK pool2 \in SUBSET Mine(t), queue2 \in SUBSET Mine(t) : Parts(t, pool2, queue2)
  BY <1>0 DEF SnullPackets
<1>21. next'[k] = net[t].rx_queue /\ \A j \in Snull!Packets : j # k => next'[j] = next[j]
  BY <1>0 DEF SnullTypes
<1>22. Mine(e) \subseteq Snull!Packets /\ Mine(t) \subseteq Snull!Packets
  BY <1>0, SnullSets
<1>3. k \notin pool /\ k \notin queue /\ k \notin pool2 /\ k \notin queue2
  <2>1. Holds(c)
    BY DEF Holds
  <2> QED  BY <1>0, <1>1, <2>1 DEF Parts
<1>31. PICK more \in SUBSET Mine(e) : more = queue \cup {k}
  BY <1>0, Zenon
<1>5. \A b \in Snull!Contexts : /\ b # c => (Holds(b)' <=> Holds(b)) /\ ctx'[b] = ctx[b]
                                /\ b = c => ~Holds(b)' /\ Holds(b) /\ ctx[b].pc # "wake"
  BY DEF Holds
<1>6. \A b \in Snull!Contexts : Holds(b)' => Holds(b) /\ ctx'[b].pkt = ctx[b].pkt /\ ctx[b].pkt # k
  BY <1>5 DEF SnullPackets, Alone
<1>7. Alone'
  <2>1. \A b, a \in Snull!Contexts : Holds(b) /\ Holds(a) /\ ctx[b].pkt = ctx[a].pkt => b = a
    BY DEF SnullPackets, Alone
  <2> QED  BY <1>6, <2>1 DEF Alone
<1>71. ASSUME NEW a \in Snull!Contexts, ctx[a].pc = "wake", ctx[a].pkt \in pool \cup pool2
       PROVE  ctx'[a] = ctx[a] /\ next'[ctx[a].pkt] = next[ctx[a].pkt]
  <2>1. ctx[a].pkt # k /\ ctx[a].pkt \in Snull!Packets
    BY <1>22, <1>3, <1>71
  <2> QED  BY <1>21, <1>5, <1>71, <2>1
<1>8. Parts(e, pool, more)'
  <2>1. List(pool, net'[e].ppool, next')
    <3>1. List(pool, net'[e].ppool, next) /\ \A j \in pool : next'[j] = next[j]
      BY <1>1, <1>21, <1>22, <1>3 DEF Parts
    <3> QED  BY <3>1, ListKept, ZenonT(40)
  <2>2. List(more, net'[Snull!Twin(e)].rx_queue, next')
    <3>1. PICK head, links, new : head = net[t].rx_queue /\ links = next /\ new = next'
      OBVIOUS
    <3>2. List(queue, head, links) /\ (\A j \in queue : new[j] = links[j]) /\ k # Snull!NULL /\ new[k] = head
          /\ k \notin queue
      BY <1>0, <1>1, <1>21, <1>22, <1>3, <3>1 DEF Parts
    <3>3. List(queue \cup {k}, k, new)
      BY <3>2, ListPush
    <3> QED  BY <1>0, <1>31, <3>1, <3>3
  <2>3. pool \cap more = {}
    BY <1>1, <1>3, <1>31 DEF Parts
  <2>4. \A b \in Snull!Contexts : Holds(b)' => ctx'[b].pkt \notin pool \cup more
    BY <1>1, <1>31, <1>6 DEF Parts
  <2>5. \A j \in Mine(e) : j \in pool \/ j \in more \/ \E b \in Snull!Contexts : Holds(b)' /\ ctx'[b].pkt = j
    <3>1. SUFFICES ASSUME NEW j \in Mine(e), j \notin pool, j \notin more
                   PROVE  \E b \in Snull!Contexts : Holds(b)' /\ ctx'[b].pkt = j
      OBVIOUS
    <3>2. PICK b \in Snull!Contexts : Holds(b) /\ ctx[b].pkt = j
      BY <1>1, <1>31, <3>1 DEF Parts
    <3>3. b # c
      BY <1>31, <3>1, <3>2
    <3> QED  BY <1>5, <3>2, <3>3
  <2>6. net'[e].up /\ net'[e].stopped /\ net'[e].ppool # Snull!NULL /\ odd' = "no" =>
          \E b \in Snull!Contexts : ctx'[b].pc = "wake" /\ ctx'[b].pkt \in pool /\ next'[ctx'[b].pkt] = Snull!NULL
    <3>1. SUFFICES ASSUME net[e].up, net[e].stopped, odd = "no", net[e].ppool # Snull!NULL
                   PROVE  \E b \in Snull!Contexts : ctx'[b].pc = "wake" /\ ctx'[b].pkt \in pool /\ next'[ctx'[b].pkt] = Snull!NULL
      BY <1>0 DEF KeepUp
    <3>2. PICK b \in Snull!Contexts : ctx[b].pc = "wake" /\ ctx[b].pkt \in pool /\ next[ctx[b].pkt] = Snull!NULL
      BY <1>1, <3>1 DEF Parts
    <3> QED  BY <1>71, <3>2
  <2>7. ~mode'.napi /\ odd' = "no" => more \subseteq {net'[Snull!Twin(e)].rx_queue}
    <3>1. ASSUME ~mode.napi, odd = "no" PROVE queue = {}
      BY <1>0, <1>1, <3>1, ListHead DEF Parts
    <3> QED  BY <1>0, <1>31, <3>1
  <2> QED  BY <2>1, <2>2, <2>3, <2>4, <2>5, <2>6, <2>7 DEF Parts, Mine
<1>9. Parts(t, pool2, queue2)'
  <2>1. List(pool2, net'[t].ppool, next')
    <3>1. List(pool2, net'[t].ppool, next) /\ \A j \in pool2 : next'[j] = next[j]
      BY <1>0, <1>2, <1>21, <1>22, <1>3 DEF Parts
    <3> QED  BY <3>1, ListKept, ZenonT(40)
  <2>2. List(queue2, net'[Snull!Twin(t)].rx_queue, next')
    <3>1. List(queue2, net'[Snull!Twin(t)].rx_queue, next) /\ \A j \in queue2 : next'[j] = next[j]
      BY <1>0, <1>2, <1>21, <1>22, <1>3 DEF Parts
    <3> QED  BY <3>1, ListKept, ZenonT(40)
  <2>3. pool2 \cap queue2 = {} /\ (~mode'.napi /\ odd' = "no" => queue2 \subseteq {net'[Snull!Twin(t)].rx_queue})
    BY <1>0, <1>2 DEF Parts
  <2>4. \A b \in Snull!Contexts : Holds(b)' => ctx'[b].pkt \notin pool2 \cup queue2
    BY <1>2, <1>6 DEF Parts
  <2>5. \A j \in Mine(t) : j \in pool2 \/ j \in queue2 \/ \E b \in Snull!Contexts : Holds(b)' /\ ctx'[b].pkt = j
    <3>1. SUFFICES ASSUME NEW j \in Mine(t), j \notin pool2, j \notin queue2
                   PROVE  \E b \in Snull!Contexts : Holds(b)' /\ ctx'[b].pkt = j
      OBVIOUS
    <3>2. PICK b \in Snull!Contexts : Holds(b) /\ ctx[b].pkt = j
      BY <1>2, <3>1 DEF Parts
    <3>3. b # c
      BY <1>0, <3>1, <3>2
    <3> QED  BY <1>5, <3>2, <3>3
  <2>6. net'[t].up /\ net'[t].stopped /\ net'[t].ppool # Snull!NULL /\ odd' = "no" =>
          \E b \in Snull!Contexts : ctx'[b].pc = "wake" /\ ctx'[b].pkt \in pool2 /\ next'[ctx'[b].pkt] = Snull!NULL
    <3>1. SUFFICES ASSUME net[t].up, net[t].stopped, odd = "no", net[t].ppool # Snull!NULL
                   PROVE  \E b \in Snull!Contexts : ctx'[b].pc = "wake" /\ ctx'[b].pkt \in pool2 /\ next'[ctx'[b].pkt] = Snull!NULL
      BY DEF KeepUp
    <3>2. PICK b \in Snull!Contexts : ctx[b].pc = "wake" /\ ctx[b].pkt \in pool2 /\ next[ctx[b].pkt] = Snull!NULL
      BY <1>2, <3>1 DEF Parts
    <3> QED  BY <1>71, <3>2
  <2> QED  BY <2>1, <2>2, <2>3, <2>4, <2>5, <2>6 DEF Parts, Mine
<1>11. ASSUME NEW b \in Snull!Devices PROVE (\E p, q \in SUBSET Mine(b) : Parts(b, p, q))'
  <2>1. CASE b = t
    BY <1>9, <2>1 DEF Mine
  <2>2. CASE b = e
    BY <1>8, <2>2 DEF Mine
  <2> QED  BY <1>0, <2>1, <2>2
<1> QED  BY <1>7, <1>11 DEF SnullPackets

(* snull_hw_tx puts the packet into the receiver's queue                  *)
(* (snull.c:163-172).                                                     *)
LEMMA DoEnqueue ==
  ASSUME SnullInv, NEW d \in Snull!Devices, Snull!EnqueueBuf(<<"tx", d>>, Snull!Twin(d))
  PROVE  SnullInv'
<1> DEFINE c == <<"tx", d>>
           t == Snull!Twin(d)
<1>0. c \in Snull!Contexts /\ Tx(d) = ctx[c] /\ Tx(d)' = ctx'[c]
      /\ t \in Snull!Devices /\ t # d /\ Snull!Twin(t) = d /\ \A b \in Snull!Devices : b = d \/ b = t
  BY SnullSets DEF Tx
<1>1. ctx[c].pc = "enqueue" /\ ~crashed /\ mode' = mode /\ odd' = odd /\ fate' = fate
      /\ crashed' = crashed /\ missed' = missed /\ Snull!To(c, "enabled", Snull!NULL)
  BY Zenon DEF Snull!EnqueueBuf, Snull!At
<1>2. PICK k : k = ctx[c].pkt
  OBVIOUS
<1>3. next' = [next EXCEPT ![k] = net[t].rx_queue] /\ net' = [net EXCEPT ![t].rx_queue = k]
  BY <1>2, Zenon DEF Snull!EnqueueBuf
<1>4. SnullTypes /\ SnullWhere /\ SnullPackets /\ SnullSends /\ SnullAnnounces /\ NetTyped /\ CtxTyped
  BY DEF SnullInv, SnullTypes
<1>5. k \in Mine(d) /\ k \in Snull!Packets /\ k # Snull!NULL
  <2>1. TxWhere(d)
    BY <1>4 DEF SnullWhere
  <2>2. k \in Mine(d)
    BY <1>0, <1>1, <1>2, <2>1 DEF TxWhere
  <2> QED  BY <2>2, SnullSets
<1>6. \A b \in Snull!Devices : ~net[b].gone
  BY <1>0, <1>1, <1>4, NobodyGone
<1>61. t = Snull!Twin(d)
  OBVIOUS
<1> HIDE DEF c, t
<1>7. /\ NetTyped' /\ net'[t].rx_queue = k
      /\ \A b \in Snull!Devices : /\ net'[b].ppool = net[b].ppool /\ net'[b].stopped = net[b].stopped
                                  /\ KeepUp(b) /\ KeepWord(b) /\ KeepPoll(b)
                                  /\ b # t => net'[b].rx_queue = net[b].rx_queue
  <2> DEFINE r == [net[t] EXCEPT !.rx_queue = k]
  <2>1. net[t] \in SnullNet
    BY <1>0, <1>4 DEF NetTyped
  <2>2. r \in SnullNet /\ net' = [net EXCEPT ![t] = r] /\ r.rx_queue = k
    BY <1>0, <1>3, <1>4, <1>5, <2>1 DEF SnullNet, NetTyped
  <2>3. /\ r.ppool = net[t].ppool /\ r.up = net[t].up /\ r.gone = net[t].gone /\ r.stopped = net[t].stopped
        /\ r.skb = net[t].skb /\ r.sched = net[t].sched /\ r.rx_int = net[t].rx_int
        /\ r.status = net[t].status
    BY <2>1 DEF SnullNet
  <2> HIDE DEF r
  <2>4. NetTyped' /\ net'[t] = r /\ \A e \in Snull!Devices : e # t => net'[e] = net[e]
    BY <1>0, <1>4, <2>2, NetOne, Zenon
  <2> QED  BY <2>2, <2>3, <2>4 DEF KeepUp, KeepWord, KeepPoll
<1>8. CtxTyped' /\ ctx'[c].pc = "enabled" /\ \A b \in Snull!Contexts : b # c => ctx'[b] = ctx[b]
  <2>1. "enabled" \in SnullCalls \cup PollCalls /\ Snull!NULL \in Snull!Packets \cup {Snull!NULL}
    BY DEF SnullCalls
  <2>2. CtxTyped' /\ Moves(c, "enabled", Snull!NULL)
    BY <1>0, <1>1, <1>4, <2>1, CtxTo
  <2> QED  BY <2>2 DEF Moves
<1>9. \A b \in Snull!Devices : Poll(b)' = Poll(b) /\ (b # d => Tx(b)' = Tx(b))
  BY <1>8, TxSteps DEF c
<1>10. ~mode.napi /\ odd = "no" => net[t].rx_queue = Snull!NULL
  <2>1. SUFFICES ASSUME ~mode.napi, odd = "no" PROVE net[t].rx_queue = Snull!NULL
    OBVIOUS
  <2>2. Announces(t) /\ missed = {} /\ PollWhere(t)
    BY <1>0, <1>4, <2>1 DEF SnullAnnounces, SnullWhere
  <2> QED  BY <1>0, <1>1, <2>1, <2>2 DEF Announces, PollWhere
<1>11. SnullTypes'
  <2>1. next' \in [Snull!Packets -> Snull!Packets \cup {Snull!NULL}]
    <3>1. net[t].rx_queue \in Snull!Packets \cup {Snull!NULL} /\ next \in [Snull!Packets -> Snull!Packets \cup {Snull!NULL}]
      BY <1>0, <1>4 DEF NetTyped, SnullNet, SnullTypes
    <3> QED  BY <1>3, <1>5, <3>1
  <2> QED  BY <1>1, <1>4, <1>7, <1>8, <2>1 DEF SnullTypes
<1>12. SnullWhere'
  <2>1. TxWhere(d)'
    BY <1>0, <1>8 DEF TxWhere, Buffer, SnullCalls
  <2>2. \A b \in Snull!Devices : ~net'[b].gone
    BY <1>6, <1>7 DEF KeepUp
  <2>3. \A b \in Snull!Devices : net'[b].rx_queue = net[b].rx_queue \/ net'[b].rx_queue # Snull!NULL
    BY <1>0, <1>5, <1>7
  <2> QED  BY <1>1, <1>4, <1>7, <1>8, <2>1, <2>2, <2>3, TxWhereStep DEF c, KeepPoll
<1>13. SnullPackets'
  <2>1. c \in Snull!Contexts /\ t \in Snull!Devices /\ ctx[c].pc = "enqueue" /\ ctx[c].pkt = k /\ mode' = mode /\ odd' = odd
    BY <1>0, <1>1, <1>2
  <2>2. \A b \in Snull!Devices : /\ net'[b].ppool = net[b].ppool /\ net'[b].stopped = net[b].stopped
                                 /\ KeepUp(b)
                                 /\ b # t => net'[b].rx_queue = net[b].rx_queue
    BY <1>7
  <2>3. SnullTypes /\ SnullPackets /\ net'[t].rx_queue = k /\ ctx'[c].pc = "enabled"
        /\ \A b \in Snull!Contexts : b # c => ctx'[b] = ctx[b]
    BY <1>4, <1>7, <1>8
  <2>4. next' = [next EXCEPT ![k] = net[t].rx_queue] /\ k \in Mine(d)
    BY <1>3, <1>5
  <2> QED  BY <1>6, <1>61, <1>10, <2>1, <2>2, <2>3, <2>4, PacketsEnqueue, Zenon
<1>14. SnullSends'
  <2>1. ASSUME odd # "forced" PROVE Sends(d)'
    <3>1. Sends(d) /\ net'[d].status = net[d].status /\ net'[d].skb = net[d].skb /\ net'[d].gone = net[d].gone
      BY <1>4, <1>7, <2>1 DEF SnullSends, KeepWord, KeepUp
    <3> QED  BY <1>0, <1>1, <1>7, <1>8, <3>1 DEF Sends, Sending, Buffer
  <2>2. fate' = {} /\ ~crashed'
    BY <1>1, <1>4 DEF SnullSends
  <2>3. \A b \in Snull!Devices : b # d =>
           KeepWord(b) /\ net'[b].gone = net[b].gone /\ net'[b].stopped = net[b].stopped /\ net'[b].ppool = net[b].ppool
    BY <1>7 DEF KeepUp
  <2> QED  BY <1>1, <1>4, <1>8, <2>1, <2>2, <2>3, TxSendsStep DEF c
<1>15. SnullAnnounces'
  <2>1. SUFFICES ASSUME odd = "no", NEW b \in Snull!Devices PROVE Announces(b)'
    BY <1>1, <1>4 DEF SnullAnnounces
  <2>2. Announces(b)
    BY <1>4, <2>1 DEF SnullAnnounces
  <2>3. CASE b = d
    <3>1. Tx(Snull!Twin(b))' = Tx(Snull!Twin(b)) /\ b # t
      BY <1>0, <1>61, <1>9, <2>3
    <3> QED  BY <1>1, <1>7, <1>9, <2>2, <3>1, AnnouncesKept DEF KeepWord
  <2>4. CASE b = t
    <3>1. Tx(Snull!Twin(b)).pc = "enqueue" /\ Tx(Snull!Twin(b))'.pc = "enabled" /\ Poll(b)' = Poll(b)
      BY <1>0, <1>1, <1>8, <1>9, <2>4
    <3>2. net'[b].status = net[b].status /\ net'[b].rx_int = net[b].rx_int /\ net'[b].sched = net[b].sched
      BY <1>7 DEF KeepWord, KeepPoll
    <3> QED  BY <1>1, <2>2, <3>1, <3>2 DEF Announces
  <2> QED  BY <1>0, <2>3, <2>4
<1> QED  BY <1>11, <1>12, <1>13, <1>14, <1>15 DEF SnullInv

(* The pools are linked when snull is loaded.                              *)
LEMMA SnullInit == ASSUME Snull!Init PROVE SnullInv
<1>0. PoolSize \in Nat \ {0} /\ Quota \in Nat
  BY DriversAssumption
<1>1. /\ NetTyped
      /\ \A d \in Snull!Devices :
           /\ net[d].ppool = <<d, PoolSize>> /\ net[d].rx_queue = Snull!NULL /\ net[d].status = {}
           /\ net[d].rx_int /\ ~net[d].skb /\ net[d].stopped /\ ~net[d].sched /\ ~net[d].up /\ ~net[d].gone
  <2> DEFINE r(d) == [ppool |-> <<d, PoolSize>>, rx_queue |-> Snull!NULL, status |-> {}, rx_int |-> TRUE,
                      skb |-> FALSE, stopped |-> TRUE, sched |-> FALSE, up |-> FALSE, gone |-> FALSE]
  <2>1. net = [d \in Snull!Devices |-> r(d)]
    BY Zenon DEF Snull!Init
  <2>2. \A d \in Snull!Devices : <<d, PoolSize>> \in Snull!Packets
    BY <1>0 DEF Snull!Packets
  <2>3. \A d \in Snull!Devices : r(d) \in SnullNet
    BY <2>2 DEF SnullNet
  <2> QED  BY <2>1, <2>3 DEF NetTyped
<1>2. /\ CtxTyped
      /\ \A c \in Snull!Contexts : ctx[c].pc = "idle"
  <2>1. ctx = [c \in Snull!Contexts |-> Snull!Idle]
    BY Zenon DEF Snull!Init
  <2>2. Snull!Idle \in SnullCtx /\ Snull!Idle.pc = "idle"
    BY <1>0 DEF Snull!Idle, SnullCtx, SnullCalls
  <2> QED  BY <2>1, <2>2 DEF CtxTyped
<1>3. \A d \in Snull!Devices : Tx(d).pc = "idle" /\ Poll(d).pc = "idle"
  BY <1>2, SnullSets DEF Tx, Poll
<1>4. odd = "no" /\ missed = {} /\ fate = {} /\ crashed = FALSE
  BY Zenon DEF Snull!Init
<1>5. /\ next \in [Snull!Packets -> Snull!Packets \cup {Snull!NULL}]
      /\ \A d \in Snull!Devices : \A i \in 1..PoolSize :
           next[<<d, i>>] = IF i = 1 THEN Snull!NULL ELSE <<d, i - 1>>
  <2> DEFINE at(k) == IF k[2] = 1 THEN Snull!NULL ELSE <<k[1], k[2] - 1>>
  <2>1. next = [k \in Snull!Packets |-> at(k)]
    BY Zenon DEF Snull!Init
  <2>2. \A d \in Snull!Devices : \A i \in 1..PoolSize : <<d, i>> \in Snull!Packets
    BY DEF Snull!Packets
  <2>3. \A k \in Snull!Packets : \E d \in Snull!Devices : \E i \in 1..PoolSize : k = <<d, i>>
    BY DEF Snull!Packets
  <2>4. \A d \in Snull!Devices : \A i \in 1..PoolSize :
          at(<<d, i>>) = IF i = 1 THEN Snull!NULL ELSE <<d, i - 1>>
    OBVIOUS
  <2>5. \A d \in Snull!Devices : \A i \in 1..PoolSize : i # 1 => i - 1 \in 1..PoolSize
    BY <1>0
  <2>6. \A k \in Snull!Packets : at(k) \in Snull!Packets \cup {Snull!NULL}
    BY <2>2, <2>3, <2>4, <2>5
  <2> HIDE DEF at
  <2> QED  BY <2>1, <2>2, <2>4, <2>6
<1>6. SnullTypes
  BY <1>1, <1>2, <1>4, <1>5 DEF SnullTypes
<1>7. SnullWhere
  BY <1>1, <1>3 DEF SnullWhere, AllGone, TxWhere, PollWhere, Buffer, SnullCalls, PollCalls
<1>8. SnullPackets
  <2>1. \A c \in Snull!Contexts : ~Holds(c)
    BY <1>2 DEF Holds
  <2>2. ASSUME NEW d \in Snull!Devices
        PROVE  \E pool, queue \in SUBSET Mine(d) : Parts(d, pool, queue)
    <3> DEFINE f == [i \in 1..PoolSize |-> <<d, i>>]
    <3>1. f \in [1..PoolSize -> Mine(d)]
      BY DEF Mine
    <3>2. Snull!NULL \notin Mine(d)
      BY SnullSets
    <3>3. \A k \in Mine(d) : \E i \in 1..PoolSize : f[i] = k
      BY DEF Mine
    <3>4. \A i \in 1..PoolSize : i # 1 => i - 1 \in 1..PoolSize
      BY <1>0
    <3>5. \A i \in 1..PoolSize : next[f[i]] = IF i = 1 THEN Snull!NULL ELSE f[i - 1]
      BY <1>5, <3>4
    <3>6. PoolSize \in 1..PoolSize /\ PoolSize # 0
      BY <1>0
    <3>7. net[d].ppool = f[PoolSize]
      BY <1>1, <3>6
    <3>8. \A i, j \in 1..PoolSize : f[i] = f[j] => i = j
      OBVIOUS
    <3> HIDE DEF f
    <3>9. Linked(Mine(d), net[d].ppool, next, PoolSize, f)
      BY <3>1, <3>2, <3>3, <3>5, <3>6, <3>7, <3>8 DEF Linked
    <3>10. List(Mine(d), net[d].ppool, next)
      BY <3>9, <1>0 DEF List
    <3>11. List({}, net[Snull!Twin(d)].rx_queue, next)
      BY <1>1, ListEmpty, SnullSets
    <3>12. Parts(d, Mine(d), {})
      BY <3>10, <3>11, <2>1, <1>1 DEF Parts
    <3> QED  BY <3>12
  <2> QED  BY <2>1, <2>2, Zenon DEF SnullPackets, Alone
<1>9. SnullSends
  BY <1>1, <1>3, <1>4 DEF SnullSends, Sends, Sending, Buffer
<1>10. SnullAnnounces
  BY <1>1, <1>3, <1>4, SnullSets DEF SnullAnnounces, Announces
<1> QED  BY <1>6, <1>7, <1>8, <1>9, <1>10 DEF SnullInv

(* A step of another driver, or none, leaves snull alone.                  *)
LEMMA SnullStutter == ASSUME SnullInv, UNCHANGED SnullVars PROVE SnullInv'
<1>1. mode' = mode /\ net' = net /\ next' = next /\ ctx' = ctx /\ odd' = odd /\ missed' = missed
      /\ fate' = fate /\ crashed' = crashed
  BY DEF SnullVars
<1>2. SnullTypes' /\ SnullWhere'
  BY <1>1 DEF SnullInv, SnullTypes, NetTyped, CtxTyped, SnullWhere, AllGone, TxWhere, PollWhere, Tx, Poll, Mine
<1>3. SnullPackets'
  <2>1. \A e \in Snull!Devices : KeepLists(e) /\ net'[e].gone = net[e].gone
    BY <1>1, NetSame
  <2>2. \A c \in Snull!Contexts : (Holds(c)' <=> Holds(c)) /\ ctx'[c] = ctx[c]
    BY <1>1 DEF Holds
  <2> QED  BY <1>1, <2>1, <2>2, PoolsKept DEF SnullInv
<1>4. SnullSends' /\ SnullAnnounces'
  BY <1>1 DEF SnullInv, SnullSends, Sends, SnullAnnounces, Announces, Tx, Poll
<1> QED  BY <1>2, <1>3, <1>4 DEF SnullInv

(* Every step of snull keeps its invariant.                                *)
LEMMA SnullNext == ASSUME SnullInv, Snull!Next PROVE SnullInv'
<1>1. CASE Snull!Cleanup
  BY <1>1, DoCleanup
<1>2. ASSUME NEW d \in Snull!Devices, Snull!TxStep(d)
      PROVE  SnullInv'
  <2> DEFINE c == <<"tx", d>>
             e == Snull!Twin(d)
             tos == {"tx_int"} \cup IF mode.lockup THEN {"hang"} ELSE {}
  <2>0. e \in Snull!Devices /\ tos \subseteq {"tx_int", "hang"}
    BY SnullSets
  <2>1. \/ Snull!GetTxBuffer(c, d) \/ Snull!EnqueueBuf(c, e) \/ Snull!TestEnabled(c, e)
        \/ Snull!OrRead(c, "rx_read", e, "rx_write") \/ Snull!OrWrite(c, "rx_write", e, "rx", {"rx_int"})
        \/ Snull!Interrupt(c, "rx_int", e, "tx_read") \/ Snull!OrRead(c, "tx_read", d, "tx_write")
        \/ Snull!OrWrite(c, "tx_write", d, "tx", tos) \/ Snull!Interrupt(c, "tx_int", d, "idle")
        \/ Snull!Hang(c, d) \/ Snull!Interrupt(c, "to_int", d, "to_wake") \/ Snull!TimeoutWake(c, d)
        \/ Snull!ReleaseBuffer(c) \/ Snull!WakeQueue(c)
    BY <1>2, Zenon DEF Snull!TxStep
  <2> HIDE DEF tos
  <2>2. CASE Snull!GetTxBuffer(c, d) \/ Snull!EnqueueBuf(c, e) \/ Snull!TestEnabled(c, e)
    BY <2>2, DoGet, DoEnqueue, DoTestEnabled
  <2>3. CASE Snull!OrRead(c, "rx_read", e, "rx_write") \/ Snull!OrRead(c, "tx_read", d, "tx_write")
    <3> HIDE DEF e
    <3> QED  BY <2>0, <2>3, DoOrRead
  <2>4. CASE Snull!OrWrite(c, "rx_write", e, "rx", {"rx_int"})
    BY <2>4, DoRxWrite
  <2>5. CASE Snull!OrWrite(c, "tx_write", d, "tx", tos)
    BY <2>0, <2>5, DoTxWrite, Zenon
  <2>6. CASE Snull!Interrupt(c, "rx_int", e, "tx_read")
    BY <2>0, <2>6, DoInterrupt
  <2>7. CASE Snull!Interrupt(c, "tx_int", d, "idle") \/ Snull!Interrupt(c, "to_int", d, "to_wake")
    BY <2>7, DoInterrupt
  <2>8. CASE Snull!Hang(c, d) \/ Snull!TimeoutWake(c, d)
    BY <2>8, DoHang, DoTimeoutWake
  <2>9. CASE Snull!ReleaseBuffer(c) \/ Snull!WakeQueue(c)
    <3>1. CASE Snull!ReleaseBuffer(c)
      BY <3>1, DoRelease, Zenon
    <3>2. CASE Snull!WakeQueue(c)
      BY <3>2, DoWake, Zenon
    <3> QED  BY <2>9, <3>1, <3>2
  <2> QED  BY <2>1, <2>2, <2>3, <2>4, <2>5, <2>6, <2>7, <2>8, <2>9
<1>3. ASSUME NEW d \in Snull!Devices, Snull!PollStep(d)
      PROVE  SnullInv'
  <2> DEFINE c == <<"poll", d>>
  <2>1. \/ Snull!PollStart(c, d) \/ Snull!PollTest(c, d) \/ Snull!PollDequeue(c, d) \/ Snull!PollEnd(c, d)
        \/ Snull!PollComplete(c, d) \/ Snull!PollEnable(c, d)
        \/ Snull!ReleaseBuffer(c) \/ Snull!WakeQueue(c)
    BY <1>3, Zenon DEF Snull!PollStep
  <2>2. CASE Snull!PollStart(c, d) \/ Snull!PollTest(c, d) \/ Snull!PollDequeue(c, d)
    BY <2>2, DoPollStart, DoPollTest, DoDequeue
  <2>3. CASE Snull!PollEnd(c, d) \/ Snull!PollComplete(c, d) \/ Snull!PollEnable(c, d)
    BY <2>3, DoPollEnd, DoPollComplete, DoPollEnable
  <2>4. CASE Snull!ReleaseBuffer(c)
    BY <2>4, DoRelease, Zenon
  <2>5. CASE Snull!WakeQueue(c)
    BY <2>5, DoWake, Zenon
  <2> QED  BY <2>1, <2>2, <2>3, <2>4, <2>5
<1>4. ASSUME NEW d \in Snull!Devices,
             Snull!Transmit(<<"tx", d>>, d) \/ Snull!Timeout(<<"tx", d>>, d) \/ Snull!Open(d) \/ Snull!Stop(d)
      PROVE  SnullInv'
  BY <1>4, DoTransmit, DoTimeout, DoOpen, DoStop
<1> QED
  <2>1. \/ Snull!Cleanup
        \/ \E d \in Snull!Devices :
             \/ Snull!TxStep(d) \/ Snull!PollStep(d)
             \/ Snull!Transmit(<<"tx", d>>, d) \/ Snull!Timeout(<<"tx", d>>, d) \/ Snull!Open(d) \/ Snull!Stop(d)
    BY Zenon DEF Snull!Next
  <2> QED  BY <1>1, <1>2, <1>3, <1>4, <2>1, Zenon

(* What is in a list of packets of a device, Listed finds, and Cardinality *)
(* counts.                                                                 *)
LEMMA SnullCounts == \A S : Snull!Cardinality(S) = Cardinality(S)
BY DEF Snull!Cardinality, Cardinality

(* A device has PoolSize packets.                                         *)
LEMMA MineCounted ==
  ASSUME NEW d
  PROVE  IsFiniteSet(Mine(d)) /\ Cardinality(Mine(d)) = PoolSize
<1> DEFINE f == [i \in 1..PoolSize |-> <<d, i>>]
<1>0. PoolSize \in Nat
  BY DriversAssumption
<1>1. f \in [1..PoolSize -> Mine(d)] /\ \A i \in 1..PoolSize : f[i] = <<d, i>>
  BY DEF Mine
<1> HIDE DEF f
<1>2. f \in Injection(1..PoolSize, Mine(d)) /\ f \in Surjection(1..PoolSize, Mine(d))
  BY <1>1 DEF Injection, Surjection, IsInjective, Mine
<1>3. ExistsBijection(1..PoolSize, Mine(d))
  BY <1>2 DEF Bijection, ExistsBijection
<1> QED  BY <1>0, <1>3, FS_CountingElements, FS_NatBijection

(* From each packet in one place to the count: the pool, the queue of the *)
(* twin and the packets in hand make PoolSize.                            *)
LEMMA SnullConserved ==
  ASSUME SnullInv
  PROVE  Snull!PoolConserved
<1>0. PoolSize \in Nat
  BY DriversAssumption
<1>1. SnullTypes /\ SnullPackets
  BY DEF SnullInv
<1> SUFFICES ASSUME NEW d \in Snull!Devices, ~net[d].gone
             PROVE  LET pool == Snull!Listed(net[d].ppool)
                        queue == Snull!Listed(net[Snull!Twin(d)].rx_queue)
                        held == Snull!Held(d)
                    IN  /\ pool \cup queue \cup held = Mine(d)
                        /\ Cardinality(pool) + Cardinality(queue) + Cardinality(held) = PoolSize
  BY SnullCounts, Zenon DEF Snull!PoolConserved, Mine
<1>2. PICK pool \in SUBSET Mine(d), queue \in SUBSET Mine(d) : Parts(d, pool, queue)
  BY <1>1 DEF SnullPackets
<1>3. /\ List(pool, net[d].ppool, next) /\ List(queue, net[Snull!Twin(d)].rx_queue, next)
      /\ pool \cap queue = {}
      /\ \A c \in Snull!Contexts : Holds(c) => ctx[c].pkt \notin pool \cup queue
      /\ \A k \in Mine(d) : k \in pool \/ k \in queue \/ \E c \in Snull!Contexts : Holds(c) /\ ctx[c].pkt = k
  BY <1>2 DEF Parts
<1> DEFINE held == Snull!Held(d)
<1>4. held = {k \in Mine(d) : \E c \in Snull!Contexts : Holds(c) /\ ctx[c].pkt = k}
  BY SnullSets DEF Snull!Held, Holds
<1> HIDE DEF held
<1>5. held \subseteq Mine(d) /\ held \cap pool = {} /\ held \cap queue = {}
      /\ pool \cup queue \cup held = Mine(d)
  BY <1>3, <1>4
<1>6. IsFiniteSet(Mine(d)) /\ Cardinality(Mine(d)) = PoolSize
  BY MineCounted
<1>7. /\ IsFiniteSet(pool) /\ Cardinality(pool) \in Nat /\ Cardinality(pool) =< PoolSize
      /\ IsFiniteSet(queue) /\ Cardinality(queue) \in Nat /\ Cardinality(queue) =< PoolSize
      /\ IsFiniteSet(held) /\ Cardinality(held) \in Nat
  BY <1>5, <1>6, FS_Subset, FS_CardinalityType
<1>8. Snull!Listed(net[d].ppool) = pool
  <2>1. Cardinality(pool) =< 2 * PoolSize /\ 2 * PoolSize \in Nat
    BY <1>0, <1>7
  <2> QED  BY <1>3, <1>7, <2>1, ListListed
<1>9. Snull!Listed(net[Snull!Twin(d)].rx_queue) = queue
  <2>1. Cardinality(queue) =< 2 * PoolSize /\ 2 * PoolSize \in Nat
    BY <1>0, <1>7
  <2> QED  BY <1>3, <1>7, <2>1, ListListed
<1>10. Cardinality(pool) + Cardinality(queue) + Cardinality(held) = PoolSize
  <2>1. Cardinality({}) = 0
    BY FS_EmptySet
  <2>2. /\ IsFiniteSet(pool \cup queue)
        /\ Cardinality(pool \cup queue) = Cardinality(pool) + Cardinality(queue) - Cardinality({})
    BY <1>3, <1>7, FS_Union
  <2>3. Cardinality((pool \cup queue) \cup held)
          = Cardinality(pool \cup queue) + Cardinality(held) - Cardinality((pool \cup queue) \cap held)
    BY <1>7, <2>2, FS_Union
  <2>4. (pool \cup queue) \cap held = {}
    BY <1>5
  <2>5. PoolSize = Cardinality(pool \cup queue) + Cardinality(held) - 0
    BY <1>5, <1>6, <2>1, <2>3, <2>4
  <2> QED  BY <1>7, <2>1, <2>2, <2>5
<1> QED  BY <1>5, <1>8, <1>9, <1>10 DEF held

(* What the invariant says of the properties.                             *)
LEMMA SnullSafe ==
  ASSUME SnullInv
  PROVE  /\ Snull!TypeOK /\ Snull!PoolConserved /\ Snull!NeverEmpty /\ Snull!QueueWoken
         /\ Snull!FreedOnce /\ Snull!PacketsAnnounced
<1>1. Snull!TypeOK
  <2>1. SnullTypes
    BY DEF SnullInv
  <2>2. \A d \in Snull!Devices : net[d] \in SnullNet
    BY <2>1 DEF SnullTypes, NetTyped
  <2>3. \A c \in Snull!Contexts : ctx[c] \in SnullCtx
    BY <2>1 DEF SnullTypes, CtxTyped
  <2>4. \A c \in Snull!Contexts : ctx[c].pkt \in Snull!Packets \cup {Snull!NULL} /\ ctx[c].n \in 0..Quota
    BY <2>3 DEF SnullCtx
  <2>5. ASSUME NEW d \in Snull!Devices
        PROVE  /\ net[d].ppool \in Snull!Packets \cup {Snull!NULL}
               /\ net[d].rx_queue \in Snull!Packets \cup {Snull!NULL}
               /\ net[d].status \subseteq {"rx", "tx"}
               /\ net[d].rx_int \in BOOLEAN /\ net[d].skb \in BOOLEAN /\ net[d].stopped \in BOOLEAN
               /\ net[d].sched \in BOOLEAN /\ net[d].up \in BOOLEAN /\ net[d].gone \in BOOLEAN
    BY <2>2 DEF SnullNet
  <2>6. next \in [Snull!Packets -> Snull!Packets \cup {Snull!NULL}]
    BY <2>1 DEF SnullTypes
  <2>7. ASSUME NEW d \in Snull!Devices
        PROVE  {net[d].rx_int, net[d].skb, net[d].stopped, net[d].sched, net[d].up, net[d].gone} \subseteq BOOLEAN
    BY <2>5, Zenon
  <2> QED  BY <2>4, <2>5, <2>6, <2>7, Zenon DEF Snull!TypeOK
<1>2. Snull!NeverEmpty /\ Snull!FreedOnce
  BY DEF SnullInv, SnullSends, Snull!NeverEmpty, Snull!FreedOnce
<1>3. Snull!QueueWoken
  <2> SUFFICES ASSUME NEW d \in Snull!Devices,
                      net[d].up /\ net[d].stopped /\ net[d].ppool # Snull!NULL /\ odd = "no"
               PROVE  \E c \in Snull!Contexts : ctx[c].pc = "wake" /\ ctx[c].pkt[1] = d
    BY Zenon DEF Snull!QueueWoken
  <2>1. ~net[d].gone
    BY DEF SnullInv, SnullWhere, AllGone
  <2>2. PICK pool \in SUBSET Mine(d), queue \in SUBSET Mine(d) : Parts(d, pool, queue)
    BY <2>1 DEF SnullInv, SnullPackets
  <2>3. PICK c \in Snull!Contexts : ctx[c].pc = "wake" /\ ctx[c].pkt \in pool
    BY <2>2 DEF Parts
  <2> QED  BY <2>3, SnullSets
<1>4. Snull!PacketsAnnounced
  <2> SUFFICES ASSUME NEW d \in Snull!Devices,
                      net[d].rx_queue # Snull!NULL, odd = "no", d \notin missed
               PROVE  \/ net[d].sched \/ "rx" \in net[d].status
                      \/ \E c \in Snull!Contexts : ctx[c].pc # "idle"
    BY Zenon DEF Snull!PacketsAnnounced
  <2>1. \/ net[d].sched \/ "rx" \in net[d].status
        \/ Tx(Snull!Twin(d)).pc \in {"enabled", "rx_read", "rx_write"}
    BY DEF SnullInv, SnullAnnounces, Announces
  <2>2. <<"tx", Snull!Twin(d)>> \in Snull!Contexts
    BY SnullSets
  <2> QED  BY <2>1, <2>2 DEF Tx
<1> QED  BY <1>1, <1>2, <1>3, <1>4, SnullConserved

----------------------------------------------------------------------------
(* sleepy and complete *)

SleepyCalls == {"out", "queue", "queued", "asleep", "woken", "clear", "wake", "waiting", "called"}

SleepyTypes ==
  /\ sleepyProc \in [Procs -> SleepyCalls]
  /\ sleepyFlag \in {0, 1} /\ complete \in Nat
  /\ sleepyCount \in [flags : Nat, completes : Nat, completed : Nat]

Called(calls) == {p \in Procs : calls[p] = "called"}

(* A process that waits for the completion has not been called for nothing: *)
(* each of the counted writes has called one.                               *)
AllCalled == (\E p \in Procs : sleepyProc[p] = "waiting") => complete <= Cardinality(Called(sleepyProc))

SleepyInv ==
  /\ SleepyTypes /\ AllCalled /\ Sleepy!SleeperServed
  /\ sleepyCount.completed + complete = sleepyCount.completes

(* The processes in complete_read that were let go are finitely many.       *)
LEMMA CalledCounted ==
  ASSUME NEW calls
  PROVE  IsFiniteSet(Called(calls)) /\ Cardinality(Called(calls)) \in Nat
<1>1. Called(calls) \subseteq Procs
  BY DEF Called
<1> QED  BY <1>1, DriversAssumption, FS_Subset, FS_CardinalityType

(* When there are some, there is one.                                       *)
LEMMA CalledSome ==
  ASSUME NEW calls, Cardinality(Called(calls)) >= 1
  PROVE  \E p \in Procs : calls[p] = "called"
<1>1. Called(calls) # {}
  BY FS_EmptySet
<1> QED  BY <1>1 DEF Called

(* They depend only on who was called.                                      *)
LEMMA CalledSame ==
  ASSUME NEW calls, NEW new, \A p \in Procs : calls[p] = "called" <=> new[p] = "called"
  PROVE  Called(new) = Called(calls)
BY DEF Called

(* One process more is called.                                              *)
LEMMA CalledMore ==
  ASSUME NEW calls, NEW q \in Procs, calls \in [Procs -> SleepyCalls], calls[q] # "called"
  PROVE  Cardinality(Called([calls EXCEPT ![q] = "called"])) = Cardinality(Called(calls)) + 1
<1>1. Called([calls EXCEPT ![q] = "called"]) = Called(calls) \cup {q} /\ q \notin Called(calls)
  BY DEF Called
<1> QED  BY <1>1, CalledCounted, FS_AddElement

(* A called process goes on.                                                *)
LEMMA CalledLess ==
  ASSUME NEW calls, NEW q \in Procs, calls \in [Procs -> SleepyCalls], calls[q] = "called",
         NEW l \in SleepyCalls, l # "called"
  PROVE  Cardinality(Called([calls EXCEPT ![q] = l])) = Cardinality(Called(calls)) - 1
<1>1. Called([calls EXCEPT ![q] = l]) = Called(calls) \ {q} /\ q \in Called(calls)
  BY DEF Called
<1>2. IsFiniteSet(Called(calls))
  BY CalledCounted
<1> HIDE DEF Called
<1>3. Cardinality(Called(calls) \ {q}) = Cardinality(Called(calls)) - 1
  BY <1>1, <1>2, FS_RemoveElement
<1> QED  BY <1>1, <1>3

(* sleepy and complete as they are loaded                                   *)
LEMMA SleepyInit ==
  ASSUME Sleepy!Init
  PROVE  SleepyInv
<1>1. sleepyProc = [p \in Procs |-> "out"]
  BY DEF Sleepy!Init
<1> QED  BY <1>1 DEF Sleepy!Init, SleepyInv, SleepyTypes, SleepyCalls, AllCalled, Sleepy!SleeperServed, Sleepy!At

(* sleepy: a read that tests, sleeps and clears the flag, and a write       *)
LEMMA SleepyStep ==
  ASSUME SleepyInv, NEW p \in Procs,
         Sleepy!ReadTest(p) \/ Sleepy!ReadSignalled(p) \/ Sleepy!ReadClear(p)
           \/ Sleepy!WriteFlag(p) \/ Sleepy!WriteWake(p)
  PROVE  SleepyInv'
<1> USE DEF Sleepy!At, Sleepy!To
<1>0. SleepyTypes /\ AllCalled /\ Sleepy!SleeperServed /\ sleepyCount.completed + complete = sleepyCount.completes
  BY DEF SleepyInv
<1>1. /\ SleepyTypes'
      /\ complete' = complete
      /\ sleepyCount'.completed = sleepyCount.completed /\ sleepyCount'.completes = sleepyCount.completes
  <2>1. CASE sleepyProc'[p] = "wake" /\ Sleepy!WriteFlag(p)
    BY <1>0, <2>1 DEF SleepyTypes, SleepyCalls, Sleepy!WriteFlag
  <2>2. CASE Sleepy!WriteWake(p)
    BY <1>0, <2>2 DEF SleepyTypes, SleepyCalls, Sleepy!WriteWake
  <2>3. CASE Sleepy!ReadTest(p)
    BY <1>0, <2>3 DEF SleepyTypes, SleepyCalls, Sleepy!ReadTest
  <2>4. CASE Sleepy!ReadSignalled(p) \/ Sleepy!ReadClear(p)
    BY <1>0, <2>4 DEF SleepyTypes, SleepyCalls, Sleepy!ReadSignalled, Sleepy!ReadClear
  <2>5. Sleepy!WriteFlag(p) => sleepyProc'[p] = "wake"
    BY <1>0 DEF SleepyTypes, Sleepy!WriteFlag
  <2> QED  BY <2>1, <2>2, <2>3, <2>4, <2>5
<1>2. \A q \in Procs : /\ sleepyProc[q] = "called" <=> sleepyProc'[q] = "called"
                       /\ sleepyProc[q] = "waiting" <=> sleepyProc'[q] = "waiting"
  BY <1>0 DEF SleepyTypes, SleepyCalls, Sleepy!ReadTest, Sleepy!ReadSignalled, Sleepy!ReadClear, Sleepy!WriteFlag, Sleepy!WriteWake
<1>3. AllCalled'
  <2>1. Called(sleepyProc') = Called(sleepyProc)
    BY <1>2, CalledSame
  <2> QED  BY <1>0, <1>1, <1>2, <2>1 DEF AllCalled
<1>4. Sleepy!SleeperServed'
  <2>1. CASE Sleepy!WriteWake(p)
    <3>1. \A q \in Procs : sleepyProc'[q] # "asleep"
      BY <2>1 DEF Sleepy!WriteWake
    <3> QED  BY <3>1 DEF Sleepy!SleeperServed
  <2>2. CASE Sleepy!WriteFlag(p)
    <3>1. sleepyProc'[p] = "wake"
      BY <1>0, <2>2 DEF SleepyTypes, Sleepy!WriteFlag
    <3> QED  BY <3>1 DEF Sleepy!SleeperServed
  <2>3. CASE Sleepy!ReadTest(p)
    <3>1. /\ sleepyFlag' = sleepyFlag
          /\ \A q \in Procs \ {p} : sleepyProc'[q] = sleepyProc[q]
          /\ sleepyProc[p] # "wake" /\ (sleepyProc'[p] = "asleep" => sleepyFlag = 0)
      BY <1>0, <2>3 DEF SleepyTypes, Sleepy!ReadTest
    <3> QED  BY <1>0, <3>1 DEF Sleepy!SleeperServed
  <2>4. CASE Sleepy!ReadSignalled(p) \/ Sleepy!ReadClear(p)
    <3>1. /\ sleepyFlag' \in {0, sleepyFlag}
          /\ \A q \in Procs \ {p} : sleepyProc'[q] = sleepyProc[q]
          /\ sleepyProc[p] # "wake" /\ sleepyProc'[p] # "asleep"
      BY <1>0, <2>4 DEF SleepyTypes, Sleepy!ReadSignalled, Sleepy!ReadClear
    <3> QED  BY <1>0, <3>1 DEF Sleepy!SleeperServed
  <2> QED  BY <2>1, <2>2, <2>3, <2>4
<1> QED  BY <1>0, <1>1, <1>3, <1>4 DEF SleepyInv

(* complete: a read that waits, and a write that lets one go                *)
LEMMA CompleteStep ==
  ASSUME SleepyInv, NEW p \in Procs, Sleepy!CompleteWait(p) \/ Sleepy!Complete(p)
  PROVE  SleepyInv'
<1> USE DEF Sleepy!At, Sleepy!To
<1>0. SleepyTypes /\ AllCalled /\ Sleepy!SleeperServed /\ sleepyCount.completed + complete = sleepyCount.completes
  BY DEF SleepyInv
<1> DEFINE N == Cardinality(Called(sleepyProc))
<1>n. N \in Nat /\ Cardinality(Called(sleepyProc')) \in Nat
  BY CalledCounted
<1>1. ASSUME Sleepy!CompleteWait(p) PROVE SleepyInv'
  <2>1. sleepyProc[p] \in {"out", "called"} /\ sleepyFlag' = sleepyFlag
    BY <1>1 DEF Sleepy!CompleteWait
  <2>2. CASE complete > 0
    <3>1. /\ complete' = complete - 1 /\ sleepyCount' = [sleepyCount EXCEPT !.completed = @ + 1]
          /\ sleepyProc' = [sleepyProc EXCEPT ![p] = "out"]
      BY <1>1, <2>2 DEF Sleepy!CompleteWait
    <3>2. SleepyTypes' /\ sleepyCount'.completed + complete' = sleepyCount'.completes
      BY <1>0, <2>1, <2>2, <3>1 DEF SleepyTypes, SleepyCalls
    <3>3. sleepyProc \in [Procs -> SleepyCalls] /\ "out" \in SleepyCalls
      BY <1>0 DEF SleepyTypes, SleepyCalls
    <3>4. Cardinality(Called(sleepyProc')) = IF sleepyProc[p] = "called" THEN N - 1 ELSE N
      <4>1. CASE sleepyProc[p] = "called"
        <5> HIDE DEF N
        <5>1. Cardinality(Called([sleepyProc EXCEPT ![p] = "out"])) = Cardinality(Called(sleepyProc)) - 1
          BY <4>1, <3>3, CalledLess
        <5> QED  BY <4>1, <3>1, <5>1 DEF N
      <4>2. CASE sleepyProc[p] # "called"
        <5>1. Called(sleepyProc') = Called(sleepyProc)
          BY <4>2, <3>1, <3>3 DEF Called
        <5> QED  BY <5>1, <4>2
      <4> QED  BY <4>1, <4>2
    <3>5. AllCalled'
      <4> SUFFICES ASSUME NEW q \in Procs, sleepyProc'[q] = "waiting" PROVE complete' <= Cardinality(Called(sleepyProc'))
        BY DEF AllCalled
      <4>1. sleepyProc[q] = "waiting"
        BY <3>1, <3>3
      <4>2. complete <= N
        BY <4>1, <1>0 DEF AllCalled
      <4>3. complete \in Nat
        BY <1>0 DEF SleepyTypes
      <4> HIDE DEF N
      <4> QED  BY <4>2, <4>3, <3>1, <3>4, <1>n
    <3>6. Sleepy!SleeperServed'
      BY <1>0, <2>1, <3>1, <3>3 DEF Sleepy!SleeperServed
    <3> QED  BY <3>2, <3>5, <3>6 DEF SleepyInv
  <2>3. CASE ~(complete > 0)
    <3>1. complete' = 0 /\ sleepyCount' = sleepyCount /\ complete = 0
          /\ sleepyProc' = [sleepyProc EXCEPT ![p] = "waiting"]
      BY <1>0, <1>1, <2>3 DEF Sleepy!CompleteWait, SleepyTypes
    <3>2. SleepyTypes' /\ sleepyCount'.completed + complete' = sleepyCount'.completes
      BY <1>0, <2>1, <3>1 DEF SleepyTypes, SleepyCalls
    <3>3. AllCalled'
      <4> HIDE DEF N
      <4> QED  BY <3>1, <1>n DEF AllCalled
    <3>4. Sleepy!SleeperServed'
      BY <1>0, <2>1, <3>1 DEF Sleepy!SleeperServed, SleepyTypes
    <3> QED  BY <3>2, <3>3, <3>4 DEF SleepyInv
  <2> QED  BY <2>2, <2>3
<1>2. ASSUME Sleepy!Complete(p) PROVE SleepyInv'
  <2>1. /\ complete' = complete + 1 /\ sleepyCount' = [sleepyCount EXCEPT !.completes = @ + 1]
        /\ sleepyFlag' = sleepyFlag
    BY <1>2 DEF Sleepy!Complete
  <2>2. CASE \E q \in Procs : sleepyProc[q] = "waiting"
    <3>1. PICK q \in Procs : sleepyProc[q] = "waiting" /\ sleepyProc' = [sleepyProc EXCEPT ![q] = "called"]
      BY <1>2, <2>2 DEF Sleepy!Complete
    <3>2. SleepyTypes' /\ sleepyCount'.completed + complete' = sleepyCount'.completes
      BY <1>0, <2>1, <3>1 DEF SleepyTypes, SleepyCalls
    <3>3. Cardinality(Called(sleepyProc')) = N + 1
      <4>1. sleepyProc \in [Procs -> SleepyCalls]
        BY <1>0 DEF SleepyTypes
      <4> QED  BY <4>1, <3>1, CalledMore
    <3>4. AllCalled'
      <4>1. complete <= N /\ complete \in Nat
        BY <1>0, <3>1 DEF AllCalled, SleepyTypes
      <4>2. complete' <= Cardinality(Called(sleepyProc'))
        <5> HIDE DEF N
        <5> QED  BY <4>1, <2>1, <3>3, <1>n
      <4> QED  BY <4>2 DEF AllCalled
    <3>5. Sleepy!SleeperServed'
      BY <1>0, <2>1, <3>1 DEF Sleepy!SleeperServed, SleepyTypes
    <3> QED  BY <3>2, <3>4, <3>5 DEF SleepyInv
  <2>3. CASE ~\E q \in Procs : sleepyProc[q] = "waiting"
    <3>1. sleepyProc' = sleepyProc
      BY <1>2, <2>3 DEF Sleepy!Complete
    <3>2. SleepyTypes' /\ sleepyCount'.completed + complete' = sleepyCount'.completes
      BY <1>0, <2>1, <3>1 DEF SleepyTypes, SleepyCalls
    <3> QED  BY <1>0, <2>1, <2>3, <3>1, <3>2 DEF SleepyInv, AllCalled, Sleepy!SleeperServed
  <2> QED  BY <2>2, <2>3
<1> QED  BY <1>1, <1>2

(* Every step of sleepy and of complete *)
LEMMA SleepyNext ==
  ASSUME SleepyInv, Sleepy!Next
  PROVE  SleepyInv'
BY SleepyStep, CompleteStep DEF Sleepy!Next

(* And those of other drivers                                               *)
LEMMA SleepyStutter ==
  ASSUME SleepyInv, UNCHANGED SleepyVars
  PROVE  SleepyInv'
BY DEF SleepyInv, SleepyVars, SleepyTypes, AllCalled, Sleepy!SleeperServed, Sleepy!At

(* What the invariant says of sleepers, and of reads against writes         *)
LEMMA SleepySafe ==
  ASSUME SleepyInv
  PROVE  Sleepy!SleeperServed /\ Sleepy!OneForOne
<1>1. ASSUME \E p \in Procs : sleepyProc[p] = "waiting", complete > 0
      PROVE  \E q \in Procs : sleepyProc[q] = "called"
  <2>1. complete \in Nat /\ complete <= Cardinality(Called(sleepyProc))
    BY <1>1 DEF SleepyInv, SleepyTypes, AllCalled
  <2>2. Cardinality(Called(sleepyProc)) \in Nat
    BY CalledCounted
  <2>3. Cardinality(Called(sleepyProc)) >= 1
    BY <1>1, <2>1, <2>2
  <2> QED  BY <2>3, CalledSome
<1> QED  BY <1>1 DEF SleepyInv, Sleepy!OneForOne, Sleepy!At

----------------------------------------------------------------------------
(* jiq *)

JiqReads == [pc : {"out", "set", "started", "asleep", "awake"}, file : {"wq", "tasklet", "timer", "none"}]

JiqTypes ==
  /\ jiq \in [len : Nat, buf : Procs \cup {"none"}, loaded : BOOLEAN,
              work : BOOLEAN, tasklet : BOOLEAN, timer : BOOLEAN]
  /\ jiqReader \in [Procs -> JiqReads]

(* A read that has met no other is the one that jiq_data is set for. *)
JiqAlone ==
  "shared" \notin jiqSeen => \A r \in Procs : jiqReader[r].pc # "out" => jiq.buf = r

JiqRuns(file) ==
  CASE file = "wq" -> jiq.work
    [] file = "tasklet" -> jiq.tasklet
    [] OTHER -> jiq.timer

(* What is pending belongs to the read that jiq_data is set for, which is  *)
(* on its way to sleep or asleep, unless a signal has ended one.           *)
JiqOwned ==
  jiqSeen \cap {"signal", "shared"} = {} =>
    \A file \in Jiq!Files :
      JiqRuns(file) => /\ jiq.buf \in Procs
                       /\ jiqReader[jiq.buf].pc \in {"started", "asleep"}
                       /\ jiqReader[jiq.buf].file = file

JiqStarted ==
  \A r \in Procs : jiqReader[r].pc = "started" => jiqReader[r].file \in {"tasklet", "timer"}

JiqInv == JiqTypes /\ JiqAlone /\ JiqOwned /\ JiqStarted /\ Jiq!PrintsInPage /\ Jiq!SleeperServed

(* jiq as it is loaded                                                      *)
LEMMA JiqInit ==
  ASSUME Jiq!Init
  PROVE  JiqInv
<1>1. JiqTypes
  BY DEF Jiq!Init, Jiq!NoFile, JiqTypes, JiqReads
<1>2. /\ \A r \in Procs : jiqReader[r].pc = "out"
      /\ jiqSeen = {} /\ jiq.work = FALSE /\ jiq.tasklet = FALSE /\ jiq.timer = FALSE
  BY DEF Jiq!Init, Jiq!NoFile
<1>3. \A file \in Jiq!Files : ~JiqRuns(file)
  BY <1>2 DEF JiqRuns, Jiq!Files
<1> QED
  BY <1>1, <1>2, <1>3 DEF JiqInv, JiqAlone, JiqOwned, JiqStarted, Jiq!PrintsInPage, Jiq!Damage, Jiq!SleeperServed, Jiq!At

(* What wake_up leaves of the reads: nobody sleeps, the rest is as it was.  *)
LEMMA JiqWoken ==
  ASSUME NEW reads \in [Procs -> JiqReads]
  PROVE  /\ Jiq!Woken(reads) \in [Procs -> JiqReads]
         /\ \A r \in Procs :
              /\ Jiq!Woken(reads)[r].file = reads[r].file
              /\ Jiq!Woken(reads)[r].pc # "asleep"
              /\ Jiq!Woken(reads)[r].pc = reads[r].pc \/ (reads[r].pc = "asleep" /\ Jiq!Woken(reads)[r].pc = "awake")
<1> DEFINE new(r) == IF reads[r].pc = "asleep" THEN [reads[r] EXCEPT !.pc = "awake"] ELSE reads[r]
<1>1. ASSUME NEW r \in Procs
      PROVE  /\ new(r) \in JiqReads /\ new(r).file = reads[r].file /\ new(r).pc # "asleep"
             /\ new(r).pc = reads[r].pc \/ (reads[r].pc = "asleep" /\ new(r).pc = "awake")
  <2>1. reads[r] \in JiqReads
    OBVIOUS
  <2>2. CASE reads[r].pc = "asleep"
    <3>1. new(r) = [reads[r] EXCEPT !.pc = "awake"]
      BY <2>2
    <3> HIDE DEF new
    <3> QED  BY <2>1, <2>2, <3>1 DEF JiqReads
  <2>3. CASE reads[r].pc # "asleep"
    BY <2>1, <2>3
  <2> QED  BY <2>2, <2>3
<1>2. Jiq!Woken(reads) = [r \in Procs |-> new(r)]
  BY DEF Jiq!Woken
<1> HIDE DEF new
<1> QED  BY <1>1, <1>2

(* A read sets the data and queues itself, or its work.                     *)
LEMMA JiqReadStart ==
  ASSUME JiqInv, NEW r \in Procs, \E file \in Jiq!Files : Jiq!ReadSet(r, file)
  PROVE  JiqInv'
<1>0. JiqTypes /\ JiqAlone /\ JiqOwned /\ JiqStarted /\ Jiq!PrintsInPage /\ Jiq!SleeperServed
  BY DEF JiqInv
<1>1. PICK file \in Jiq!Files : Jiq!ReadSet(r, file)
  OBVIOUS
<1>2. /\ jiq'.buf = r /\ jiq'.work = jiq.work /\ jiq'.tasklet = jiq.tasklet /\ jiq'.timer = jiq.timer
      /\ jiqReader[r].pc = "out" /\ jiqReader'[r].pc = "set"
      /\ \A q \in Procs \ {r} : jiqReader'[q] = jiqReader[q]
  BY <1>0, <1>1 DEF Jiq!ReadSet, Jiq!At, JiqTypes, JiqReads
<1>3. /\ jiqSeen' \cap Jiq!Damage = jiqSeen \cap Jiq!Damage /\ jiqSeen \subseteq jiqSeen'
      /\ "shared" \notin jiqSeen' => \A q \in Procs \ {r} : jiqReader[q].pc = "out"
      /\ "signal" \in jiqSeen' <=> "signal" \in jiqSeen
  BY <1>1 DEF Jiq!ReadSet, Jiq!At, Jiq!Saw, Jiq!If, Jiq!Damage
<1>4. JiqTypes'
  BY <1>0, <1>1 DEF Jiq!ReadSet, Jiq!Files, JiqTypes, JiqReads
<1>5. JiqAlone'
  BY <1>2, <1>3 DEF JiqAlone
<1>6. JiqOwned'
  <2> SUFFICES ASSUME jiqSeen' \cap {"signal", "shared"} = {}, NEW f \in Jiq!Files, JiqRuns(f)' PROVE FALSE
    BY DEF JiqOwned, Jiq!Files
  <2>1. JiqRuns(f) /\ jiqSeen \cap {"signal", "shared"} = {}
    BY <1>2, <1>3 DEF JiqRuns
  <2>2. jiq.buf \in Procs /\ jiqReader[jiq.buf].pc # "out"
    BY <1>0, <2>1 DEF JiqOwned
  <2> QED  BY <1>2, <1>3, <2>2
<1>7. Jiq!PrintsInPage'
  BY <1>0, <1>3 DEF Jiq!PrintsInPage
<1>8. Jiq!SleeperServed'
  BY <1>0, <1>2, <1>3 DEF Jiq!SleeperServed, Jiq!At
<1>9. JiqStarted'
  BY <1>0, <1>2 DEF JiqStarted
<1> QED  BY <1>4, <1>5, <1>6, <1>7, <1>8, <1>9 DEF JiqInv

(* A read whose page is its own prints into it. *)
LEMMA JiqPageThere ==
  ASSUME JiqInv, jiqSeen \cap {"signal", "shared"} = {},
         jiq.work \/ jiq.tasklet \/ jiq.timer \/ \E r \in Procs : jiqReader[r].pc = "set"
  PROVE  Jiq!PrintDamage = {} /\ \E r \in Procs : jiqReader[r].pc # "out"
<1>0. JiqAlone /\ JiqOwned
  BY DEF JiqInv
<1>1. jiq.buf \in Procs /\ jiqReader[jiq.buf].pc # "out"
  <2>1. CASE \E r \in Procs : jiqReader[r].pc = "set"
    BY <1>0, <2>1 DEF JiqAlone
  <2>2. CASE jiq.work \/ jiq.tasklet \/ jiq.timer
    <3>1. \E file \in Jiq!Files : JiqRuns(file)
      <4>1. JiqRuns("wq") = jiq.work /\ JiqRuns("tasklet") = jiq.tasklet /\ JiqRuns("timer") = jiq.timer
        BY DEF JiqRuns
      <4> QED  BY <2>2, <4>1 DEF Jiq!Files
    <3> QED  BY <1>0, <3>1 DEF JiqOwned
  <2> QED  BY <2>1, <2>2
<1> QED  BY <1>1 DEF Jiq!PrintDamage, Jiq!If

(* A read that starts its work, its tasklet or its timer, and one that goes to sleep. *)
LEMMA JiqReadGoes ==
  ASSUME JiqInv, NEW r \in Procs,
         Jiq!ReadWqPrepare(r) \/ Jiq!ReadTaskletSchedule(r) \/ Jiq!ReadTimerAdd(r) \/ Jiq!SleepOn(r)
  PROVE  JiqInv'
<1>0. JiqTypes /\ JiqAlone /\ JiqOwned /\ JiqStarted /\ Jiq!PrintsInPage /\ Jiq!SleeperServed
  BY DEF JiqInv
<1>1. /\ jiqReader[r].pc \in {"set", "started"} /\ jiqReader'[r].pc \in {"started", "asleep"}
      /\ jiqReader'[r].file = jiqReader[r].file
      /\ JiqTypes' /\ jiq'.buf = jiq.buf
      /\ \A q \in Procs \ {r} : /\ jiqReader[q].pc = "out" <=> jiqReader'[q].pc = "out"
                                /\ jiqReader'[q].file = jiqReader[q].file
                                /\ jiqReader'[q].pc \in {"asleep", "started"} => jiqReader'[q].pc = jiqReader[q].pc
  <2>1. CASE Jiq!ReadWqPrepare(r) \/ Jiq!ReadTaskletSchedule(r) \/ Jiq!SleepOn(r)
    <3>1. PICK l \in {"started", "asleep"} : jiqReader' = [jiqReader EXCEPT ![r].pc = l]
      BY <2>1 DEF Jiq!ReadWqPrepare, Jiq!ReadTaskletSchedule, Jiq!SleepOn, Jiq!To
    <3>2. jiqReader[r].pc \in {"set", "started"} /\ jiq' \in {[jiq EXCEPT !.work = TRUE], [jiq EXCEPT !.tasklet = TRUE], jiq}
      BY <2>1 DEF Jiq!ReadWqPrepare, Jiq!ReadTaskletSchedule, Jiq!SleepOn, Jiq!At
    <3>3. jiq' \in [len : Nat, buf : Procs \cup {"none"}, loaded : BOOLEAN,
              work : BOOLEAN, tasklet : BOOLEAN, timer : BOOLEAN] /\ jiq'.buf = jiq.buf
      BY <1>0, <3>2 DEF JiqTypes
    <3> QED  BY <1>0, <3>1, <3>2, <3>3 DEF JiqTypes, JiqReads
  <2>2. CASE Jiq!ReadTimerAdd(r)
    <3> DEFINE started == [jiqReader EXCEPT ![r].pc = "started"]
    <3>1. started \in [Procs -> JiqReads] /\ started[r].pc = "started" /\ started[r].file = jiqReader[r].file
          /\ \A q \in Procs \ {r} : started[q] = jiqReader[q]
      BY <1>0 DEF JiqTypes, JiqReads
    <3>2. jiqReader' = Jiq!Woken(started) \/ jiqReader' = started
      BY <2>2 DEF Jiq!ReadTimerAdd
    <3>3. PICK n \in Nat : jiqReader[r].pc = "set" /\ jiq' = [jiq EXCEPT !.timer = TRUE, !.len = n]
      <4>1. jiqReader[r].pc = "set" /\ jiq' = [jiq EXCEPT !.timer = TRUE, !.len = IF jiq.len >= Lines THEN @ ELSE @ + 1]
        BY <2>2 DEF Jiq!ReadTimerAdd, Jiq!At
      <4>2. (IF jiq.len >= Lines THEN jiq.len ELSE jiq.len + 1) \in Nat
        BY <1>0 DEF JiqTypes
      <4> QED  BY <1>0, <4>1, <4>2 DEF JiqTypes
    <3>4. jiq' \in [len : Nat, buf : Procs \cup {"none"}, loaded : BOOLEAN,
              work : BOOLEAN, tasklet : BOOLEAN, timer : BOOLEAN] /\ jiq'.buf = jiq.buf
      BY <1>0, <3>3 DEF JiqTypes
    <3> HIDE DEF started
    <3>5. CASE jiqReader' = started
      BY <3>1, <3>3, <3>4, <3>5 DEF JiqTypes
    <3>6. CASE jiqReader' = Jiq!Woken(started)
      <4>1. /\ jiqReader' \in [Procs -> JiqReads]
            /\ \A q \in Procs : /\ jiqReader'[q].file = started[q].file /\ jiqReader'[q].pc # "asleep"
                                /\ jiqReader'[q].pc = started[q].pc \/ (started[q].pc = "asleep" /\ jiqReader'[q].pc = "awake")
        BY <3>1, <3>6, JiqWoken
      <4> QED  BY <3>1, <3>3, <3>4, <4>1 DEF JiqTypes
    <3> QED  BY <3>2, <3>5, <3>6
  <2> QED  BY <2>1, <2>2
<1>2. /\ jiq.work => jiq'.work
      /\ jiq.tasklet => jiq'.tasklet
      /\ jiq.timer => jiq'.timer
      /\ jiq'.work => jiq.work \/ (jiqReader[r].file = "wq" /\ jiqReader[r].pc = "set")
      /\ jiq'.tasklet => jiq.tasklet \/ (jiqReader[r].file = "tasklet" /\ jiqReader[r].pc = "set")
      /\ jiq'.timer => jiq.timer \/ (jiqReader[r].file = "timer" /\ jiqReader[r].pc = "set")
      /\ jiqReader[r].pc = "set" => jiq'.work \/ jiq'.tasklet \/ jiq'.timer
  BY <1>0 DEF Jiq!ReadWqPrepare, Jiq!ReadTaskletSchedule, Jiq!ReadTimerAdd, Jiq!SleepOn, Jiq!At, JiqTypes
<1>3. /\ jiqSeen \subseteq jiqSeen'
      /\ jiqSeen' \cap {"signal", "shared", "held"} = jiqSeen \cap {"signal", "shared", "held"}
      /\ jiqReader[r].pc = "started" => "late" \in jiqSeen' \/ jiq'.tasklet \/ jiq'.timer
      /\ jiqReader[r].pc = "started" => jiqSeen' \cap Jiq!Damage = jiqSeen \cap Jiq!Damage
      /\ jiqReader[r].pc = "set" => jiqSeen' \subseteq jiqSeen \cup Jiq!PrintDamage
  <2>1. CASE Jiq!ReadWqPrepare(r) \/ Jiq!ReadTaskletSchedule(r)
    BY <2>1 DEF Jiq!ReadWqPrepare, Jiq!ReadTaskletSchedule, Jiq!At
  <2>2. CASE Jiq!ReadTimerAdd(r)
    BY <2>2 DEF Jiq!ReadTimerAdd, Jiq!At, Jiq!Saw, Jiq!PrintDamage, Jiq!If
  <2>3. CASE Jiq!SleepOn(r)
    <3>1. jiqReader[r].pc = "started" /\ jiq' = jiq /\ jiqReader[r].file \in {"tasklet", "timer"}
      BY <1>0, <2>3 DEF Jiq!SleepOn, Jiq!At, JiqStarted
    <3>2. jiqSeen' = jiqSeen \cup Jiq!If("late", CASE jiqReader[r].file = "tasklet" -> ~jiq.tasklet [] OTHER -> ~jiq.timer)
      BY <2>3 DEF Jiq!SleepOn, Jiq!Saw
    <3>3. jiqSeen' = jiqSeen \/ jiqSeen' = jiqSeen \cup {"late"}
      BY <3>2 DEF Jiq!If
    <3>4. "late" \in jiqSeen' \/ jiq'.tasklet \/ jiq'.timer
      BY <3>1, <3>2 DEF Jiq!If
    <3> QED  BY <3>1, <3>3, <3>4 DEF Jiq!Damage
  <2> QED  BY <2>1, <2>2, <2>3
<1>4. JiqAlone'
  <2> SUFFICES ASSUME "shared" \notin jiqSeen', NEW q \in Procs, jiqReader'[q].pc # "out" PROVE jiq'.buf = q
    BY DEF JiqAlone
  <2>1. jiqReader[q].pc # "out" /\ "shared" \notin jiqSeen
    BY <1>1, <1>3
  <2> QED  BY <1>0, <1>1, <2>1 DEF JiqAlone
<1>5. JiqOwned'
  <2> SUFFICES ASSUME jiqSeen' \cap {"signal", "shared"} = {}, NEW f \in Jiq!Files, JiqRuns(f)'
               PROVE  jiq'.buf \in Procs /\ jiqReader'[jiq'.buf].pc \in {"started", "asleep"} /\ jiqReader'[jiq'.buf].file = f
    BY DEF JiqOwned, Jiq!Files
  <2>1. jiqSeen \cap {"signal", "shared"} = {} /\ jiq.buf = r
    BY <1>0, <1>1, <1>3 DEF JiqAlone
  <2>2. jiqReader[r].file = f
    <3>1. CASE JiqRuns(f)
      BY <1>0, <2>1, <3>1 DEF JiqOwned
    <3>2. CASE ~JiqRuns(f)
      BY <1>2, <3>2 DEF JiqRuns, Jiq!Files
    <3> QED  BY <3>1, <3>2
  <2> QED  BY <1>1, <2>1, <2>2
<1>6. JiqStarted'
  <2>1. jiqReader'[r].pc = "started" => jiqReader'[r].file \in {"tasklet", "timer"}
    <3>1. CASE Jiq!ReadWqPrepare(r) \/ Jiq!SleepOn(r)
      <4>1. jiqReader'[r].pc = "asleep"
        BY <1>0, <3>1 DEF Jiq!ReadWqPrepare, Jiq!SleepOn, Jiq!To, JiqTypes, JiqReads
      <4> QED  BY <4>1
    <3>2. CASE Jiq!ReadTaskletSchedule(r) \/ Jiq!ReadTimerAdd(r)
      BY <1>1, <3>2 DEF Jiq!ReadTaskletSchedule, Jiq!ReadTimerAdd
    <3> QED  BY <3>1, <3>2
  <2> QED  BY <1>0, <1>1, <2>1 DEF JiqStarted
<1>7. Jiq!PrintsInPage'
  <2>1. CASE jiqReader[r].pc = "started"
    BY <1>0, <1>3, <2>1 DEF Jiq!PrintsInPage
  <2>2. CASE jiqReader[r].pc = "set" /\ jiqSeen \cap {"signal", "shared"} = {}
    BY <1>0, <1>3, <2>2, JiqPageThere DEF Jiq!PrintsInPage
  <2>3. CASE jiqSeen \cap {"signal", "shared"} # {}
    BY <1>3, <2>3 DEF Jiq!PrintsInPage
  <2> QED  BY <1>1, <2>1, <2>2, <2>3
<1>8. Jiq!SleeperServed'
  <2> SUFFICES jiq'.work \/ jiq'.tasklet \/ jiq'.timer \/ jiqSeen' \cap {"late", "shared"} # {}
    BY DEF Jiq!SleeperServed
  <2> QED  BY <1>1, <1>2, <1>3
<1> QED  BY <1>1, <1>4, <1>5, <1>6, <1>7, <1>8 DEF JiqInv

(* A read that ends. *)
LEMMA JiqReadEnds ==
  ASSUME JiqInv, NEW r \in Procs, Jiq!ReadWoken(r) \/ Jiq!ReadSignalled(r)
  PROVE  JiqInv'
<1>0. JiqTypes /\ JiqAlone /\ JiqOwned /\ JiqStarted /\ Jiq!PrintsInPage /\ Jiq!SleeperServed
  BY DEF JiqInv
<1>1. /\ jiqReader[r].pc \in {"awake", "asleep"}
      /\ jiqReader[r].pc = "asleep" => "signal" \in jiqSeen'
      /\ jiqReader' = [jiqReader EXCEPT ![r] = Jiq!NoFile]
      /\ jiq' = [jiq EXCEPT !.timer = IF jiqReader[r].file = "timer" THEN FALSE ELSE @]
      /\ jiqSeen' \in {jiqSeen, jiqSeen \cup {"signal"}}
  BY DEF Jiq!ReadWoken, Jiq!ReadSignalled, Jiq!At, Jiq!Return, Jiq!Ends, Jiq!Saw
<1>2. /\ jiqReader'[r].pc = "out" /\ \A q \in Procs \ {r} : jiqReader'[q] = jiqReader[q]
      /\ jiqReader' \in [Procs -> JiqReads]
  BY <1>0, <1>1 DEF JiqTypes, JiqReads, Jiq!NoFile
<1>3. /\ jiq'.buf = jiq.buf /\ jiq'.work = jiq.work /\ jiq'.tasklet = jiq.tasklet
      /\ jiq'.timer => jiq.timer
      /\ jiq' \in [len : Nat, buf : Procs \cup {"none"}, loaded : BOOLEAN,
                   work : BOOLEAN, tasklet : BOOLEAN, timer : BOOLEAN]
  <2>1. CASE jiqReader[r].file = "timer"
    <3>1. jiq' = [jiq EXCEPT !.timer = FALSE]
      BY <1>1, <2>1
    <3> QED  BY <1>0, <3>1 DEF JiqTypes
  <2>2. CASE jiqReader[r].file # "timer"
    <3>1. jiq' = jiq
      BY <1>0, <1>1, <2>2 DEF JiqTypes
    <3> QED  BY <1>0, <3>1 DEF JiqTypes
  <2> QED  BY <2>1, <2>2
<1>4. JiqTypes' /\ JiqAlone' /\ JiqStarted' /\ Jiq!PrintsInPage'
  BY <1>0, <1>1, <1>2, <1>3 DEF JiqTypes, JiqAlone, JiqStarted, Jiq!PrintsInPage, Jiq!Damage
\* Nothing is pending for a read that was woken.
<1>5. JiqOwned'
  <2> SUFFICES ASSUME jiqSeen' \cap {"signal", "shared"} = {}, NEW f \in Jiq!Files, JiqRuns(f)' PROVE FALSE
    BY DEF JiqOwned, Jiq!Files
  <2>1. JiqRuns(f)
    BY <1>3 DEF JiqRuns, Jiq!Files
  <2>2. jiqSeen \cap {"signal", "shared"} = {} /\ jiqReader[r].pc = "awake" /\ jiq.buf = r
    BY <1>0, <1>1 DEF JiqAlone
  <2> QED  BY <1>0, <2>1, <2>2 DEF JiqOwned
<1>6. Jiq!SleeperServed'
  <2> SUFFICES ASSUME NEW q \in Procs, jiqReader'[q].pc = "asleep" PROVE "shared" \in jiqSeen'
    BY DEF Jiq!SleeperServed, Jiq!At
  <2>1. q # r /\ jiqReader[q].pc # "out" /\ jiqReader[r].pc # "out"
    BY <1>1, <1>2
  <2> QED  BY <1>0, <1>1, <2>1 DEF JiqAlone
<1> QED  BY <1>4, <1>5, <1>6 DEF JiqInv

(* The work, the tasklet and the timer run; the module goes. *)
LEMMA JiqRun ==
  ASSUME JiqInv, Jiq!PrintWq \/ Jiq!PrintTasklet \/ Jiq!TimedOut \/ Jiq!Cleanup
  PROVE  JiqInv'
<1>0. JiqTypes /\ JiqAlone /\ JiqOwned /\ JiqStarted /\ Jiq!PrintsInPage /\ Jiq!SleeperServed
  BY DEF JiqInv
<1>1. ASSUME jiq.work \/ jiq.tasklet, Jiq!PrintLine PROVE JiqInv'
  <2>1. jiq' = [jiq EXCEPT !.len = @ + 1] /\ jiqReader' = jiqReader /\ jiqSeen' = jiqSeen \cup Jiq!PrintDamage
    BY <1>1 DEF Jiq!PrintLine, Jiq!Printed, Jiq!Saw
  <2>2. JiqTypes' /\ jiq'.buf = jiq.buf /\ jiq'.work = jiq.work /\ jiq'.tasklet = jiq.tasklet /\ jiq'.timer = jiq.timer
    BY <1>0, <2>1 DEF JiqTypes
  <2>3. Jiq!PrintDamage \subseteq {"freed page"}
    BY DEF Jiq!PrintDamage, Jiq!If
  <2>4. Jiq!PrintsInPage'
    BY <1>0, <1>1, <2>1, <2>3, JiqPageThere DEF Jiq!PrintsInPage
  <2>5. JiqAlone' /\ JiqStarted' /\ Jiq!SleeperServed'
    BY <1>0, <1>1, <2>1, <2>2, <2>3 DEF JiqAlone, JiqStarted, Jiq!SleeperServed, Jiq!At
  <2>6. JiqOwned'
    BY <1>0, <2>1, <2>2, <2>3 DEF JiqOwned, JiqRuns, Jiq!Files
  <2> QED  BY <2>2, <2>4, <2>5, <2>6 DEF JiqInv
\* All sleepers are woken, and what runs is not pending any more.
<1>2. ASSUME jiqReader' = Jiq!Woken(jiqReader), JiqTypes', jiq'.buf = jiq.buf,
             jiq'.work => jiq.work, jiq'.tasklet => jiq.tasklet, jiq'.timer => jiq.timer,
             NEW file \in Jiq!Files, JiqRuns(file), ~JiqRuns(file)',
             jiqSeen \subseteq jiqSeen', jiqSeen' \subseteq jiqSeen \cup Jiq!PrintDamage
      PROVE  JiqInv'
  <2>1. \A r \in Procs : /\ jiqReader'[r].file = jiqReader[r].file /\ jiqReader'[r].pc # "asleep"
                         /\ jiqReader'[r].pc = jiqReader[r].pc \/ (jiqReader[r].pc = "asleep" /\ jiqReader'[r].pc = "awake")
    BY <1>0, <1>2, JiqWoken DEF JiqTypes
  <2>2. Jiq!PrintDamage \subseteq {"freed page"}
    BY DEF Jiq!PrintDamage, Jiq!If
  <2>3. jiq.work \/ jiq.tasklet \/ jiq.timer
    BY <1>2 DEF JiqRuns, Jiq!Files
  <2>4. Jiq!PrintsInPage'
    BY <1>0, <1>2, <2>2, <2>3, JiqPageThere DEF Jiq!PrintsInPage
  <2>5. JiqAlone'
    <3> SUFFICES ASSUME "shared" \notin jiqSeen', NEW q \in Procs, jiqReader'[q].pc # "out" PROVE jiq'.buf = q
      BY DEF JiqAlone
    <3>1. jiqReader[q].pc # "out" /\ "shared" \notin jiqSeen
      BY <1>2, <2>1
    <3> QED  BY <1>0, <1>2, <3>1 DEF JiqAlone
  <2>6. JiqStarted' /\ Jiq!SleeperServed'
    BY <1>0, <2>1 DEF JiqStarted, Jiq!SleeperServed, Jiq!At
  <2>7. JiqOwned'
    <3> SUFFICES ASSUME jiqSeen' \cap {"signal", "shared"} = {}, NEW f \in Jiq!Files, JiqRuns(f)' PROVE FALSE
      BY DEF JiqOwned, Jiq!Files
    <3>1. JiqRuns(f) /\ f # file
      BY <1>2 DEF JiqRuns, Jiq!Files
    <3>2. jiqSeen \cap {"signal", "shared"} = {}
      BY <1>2
    <3> QED  BY <1>0, <1>2, <3>1, <3>2 DEF JiqOwned
  <2> QED  BY <1>2, <2>4, <2>5, <2>6, <2>7 DEF JiqInv
<1>w. Jiq!Woken(jiqReader) \in [Procs -> JiqReads]
  BY <1>0, JiqWoken DEF JiqTypes
<1>3. ASSUME Jiq!PrintWq PROVE JiqInv'
  <2>1. CASE Jiq!PrintLine
    BY <1>1, <1>3, <2>1 DEF Jiq!PrintWq
  <2>2. CASE jiq.work /\ Jiq!PrintLimit("work")
    <3>1. jiq' = [jiq EXCEPT !.work = FALSE] /\ jiqReader' = Jiq!Woken(jiqReader) /\ jiqSeen' = jiqSeen
      BY <2>2 DEF Jiq!PrintLimit
    <3>2. JiqTypes' /\ jiq'.buf = jiq.buf /\ jiq'.work = FALSE /\ jiq'.tasklet = jiq.tasklet /\ jiq'.timer = jiq.timer
      BY <1>0, <1>w, <3>1 DEF JiqTypes
    <3>3. "wq" \in Jiq!Files /\ JiqRuns("wq") /\ ~JiqRuns("wq")'
      BY <2>2, <3>2 DEF JiqRuns, Jiq!Files
    <3>4. jiqSeen \subseteq jiqSeen' /\ jiqSeen' \subseteq jiqSeen \cup Jiq!PrintDamage
      BY <3>1
    <3> QED  BY <1>2, <3>1, <3>2, <3>3, <3>4
  <2> QED  BY <1>3, <2>1, <2>2 DEF Jiq!PrintWq
<1>4. ASSUME Jiq!PrintTasklet PROVE JiqInv'
  <2>1. CASE Jiq!PrintLine
    BY <1>1, <1>4, <2>1 DEF Jiq!PrintTasklet
  <2>2. CASE jiq.tasklet /\ Jiq!PrintLimit("tasklet")
    <3>1. jiq' = [jiq EXCEPT !.tasklet = FALSE] /\ jiqReader' = Jiq!Woken(jiqReader) /\ jiqSeen' = jiqSeen
      BY <2>2 DEF Jiq!PrintLimit
    <3>2. JiqTypes' /\ jiq'.buf = jiq.buf /\ jiq'.work = jiq.work /\ jiq'.tasklet = FALSE /\ jiq'.timer = jiq.timer
      BY <1>0, <1>w, <3>1 DEF JiqTypes
    <3>3. "tasklet" \in Jiq!Files /\ JiqRuns("tasklet") /\ ~JiqRuns("tasklet")'
      BY <2>2, <3>2 DEF JiqRuns, Jiq!Files
    <3>4. jiqSeen \subseteq jiqSeen' /\ jiqSeen' \subseteq jiqSeen \cup Jiq!PrintDamage
      BY <3>1
    <3> QED  BY <1>2, <3>1, <3>2, <3>3, <3>4
  <2> QED  BY <1>4, <2>1, <2>2 DEF Jiq!PrintTasklet
<1>5. ASSUME Jiq!TimedOut PROVE JiqInv'
  <2>1. /\ jiq.timer /\ jiq' = [jiq EXCEPT !.timer = FALSE, !.len = IF @ < Lines THEN @ + 1 ELSE @]
        /\ jiqReader' = Jiq!Woken(jiqReader)
        /\ jiqSeen' = jiqSeen \cup (IF jiq.len < Lines THEN Jiq!PrintDamage ELSE {})
    BY <1>5 DEF Jiq!TimedOut, Jiq!Saw
  <2>2. JiqTypes' /\ jiq'.buf = jiq.buf /\ jiq'.work = jiq.work /\ jiq'.tasklet = jiq.tasklet /\ jiq'.timer = FALSE
    <3>1. PICK n \in Nat : jiq' = [jiq EXCEPT !.timer = FALSE, !.len = n]
      <4>1. (IF jiq.len < Lines THEN jiq.len + 1 ELSE jiq.len) \in Nat
        BY <1>0 DEF JiqTypes
      <4> QED  BY <1>0, <2>1, <4>1 DEF JiqTypes
    <3> QED  BY <1>0, <1>w, <2>1, <3>1 DEF JiqTypes
  <2>3. "timer" \in Jiq!Files /\ JiqRuns("timer") /\ ~JiqRuns("timer")'
    BY <2>1, <2>2 DEF JiqRuns, Jiq!Files
  <2>4. jiqSeen \subseteq jiqSeen' /\ jiqSeen' \subseteq jiqSeen \cup Jiq!PrintDamage
    BY <2>1
  <2> QED  BY <1>2, <2>1, <2>2, <2>3, <2>4
<1>6. ASSUME Jiq!Cleanup PROVE JiqInv'
  <2>1. /\ jiq' = [jiq EXCEPT !.loaded = FALSE] /\ jiqReader' = jiqReader
        /\ jiqSeen' \subseteq jiqSeen \cup {"held", "left running"} /\ jiqSeen \subseteq jiqSeen'
        /\ "left running" \in jiqSeen' => "left running" \in jiqSeen \/ jiq.work \/ jiq.tasklet \/ jiq.timer
        /\ (\E r \in Procs : jiqReader[r].pc # "out") => "held" \in jiqSeen'
    BY <1>6 DEF Jiq!Cleanup, Jiq!Saw, Jiq!If, Jiq!At
  <2>2. JiqTypes' /\ jiq'.buf = jiq.buf /\ jiq'.work = jiq.work /\ jiq'.tasklet = jiq.tasklet /\ jiq'.timer = jiq.timer
    BY <1>0, <2>1 DEF JiqTypes
  <2>3. Jiq!PrintsInPage'
    <3>1. jiqSeen' \cap Jiq!Damage # {} =>
            jiqSeen \cap Jiq!Damage # {} \/ jiq.work \/ jiq.tasklet \/ jiq.timer
      BY <2>1 DEF Jiq!Damage
    <3> QED  BY <1>0, <2>1, <3>1, JiqPageThere DEF Jiq!PrintsInPage
  <2>4. JiqAlone' /\ JiqStarted' /\ Jiq!SleeperServed'
    BY <1>0, <2>1, <2>2 DEF JiqAlone, JiqStarted, Jiq!SleeperServed, Jiq!At
  <2>5. JiqOwned'
    BY <1>0, <2>1, <2>2 DEF JiqOwned, JiqRuns, Jiq!Files
  <2> QED  BY <2>2, <2>3, <2>4, <2>5 DEF JiqInv
<1> QED  BY <1>3, <1>4, <1>5, <1>6

(* Every step of jiq                                                        *)
LEMMA JiqNext ==
  ASSUME JiqInv, Jiq!Next
  PROVE  JiqInv'
BY JiqReadStart, JiqReadGoes, JiqReadEnds, JiqRun DEF Jiq!Next

(* And those of other drivers                                               *)
LEMMA JiqStutter ==
  ASSUME JiqInv, UNCHANGED JiqVars
  PROVE  JiqInv'
<1>1. jiq' = jiq /\ jiqReader' = jiqReader /\ jiqSeen' = jiqSeen
  BY DEF JiqVars
<1> QED
  BY <1>1 DEF JiqInv, JiqTypes, JiqAlone, JiqOwned, JiqRuns, JiqStarted, Jiq!PrintsInPage, Jiq!SleeperServed, Jiq!At

----------------------------------------------------------------------------
(* jit *)

JitData == [loops : Nat, pending : BOOLEAN, handler : {"idle", "count", "wake"}]

JitTypes ==
  /\ jit \in [Procs -> JitData]
  /\ jitReader \in [Procs -> {"out", "test", "queued", "asleep", "woken", "done", "signalled"}]

TimerSet(data) == data.pending

(* Loops are left exactly while the timer is set or its handler counts.    *)
JitLoops(data) ==
  /\ TimerSet(data) => data.handler = "idle"
  /\ data.loops > 0 <=> TimerSet(data) \/ data.handler = "count"

(* Once it has seen the last loop a read leaves nothing behind but a       *)
(* handler that has still to wake it.                                      *)
JitReads ==
  \A r \in Procs :
    /\ JitLoops(jit[r])
    /\ jitReader[r] \in {"out", "done"} => jit[r].loops = 0
    /\ jitReader[r] = "out" /\ jit[r].handler = "wake" => "late wake" \in jitSeen
    /\ jitReader[r] = "signalled" => "signal" \in jitSeen

JitInv == JitTypes /\ JitReads /\ Jit!DataKept /\ Jit!SleeperServed

(* jit as it is loaded                                                      *)
LEMMA JitInit ==
  ASSUME Jit!Init
  PROVE  JitInv
BY DEF TimerSet, Jit!Init, Jit!NoData, JitInv, JitTypes, JitData, JitReads, JitLoops, Jit!DataKept, Jit!SleeperServed, Jit!At

(* What holds after a step of one read holds if it holds of that read.     *)
LEMMA JitOne ==
  ASSUME JitInv, NEW r \in Procs, NEW data \in JitData,
         NEW at \in {"out", "test", "queued", "asleep", "woken", "done", "signalled"},
         jit' = [jit EXCEPT ![r] = data], jitReader' = [jitReader EXCEPT ![r] = at],
         jitSeen \subseteq jitSeen', Jit!DataKept',
         JitLoops(data),
         at \in {"out", "done"} => data.loops = 0,
         at = "out" /\ data.handler = "wake" => "late wake" \in jitSeen',
         at = "signalled" => "signal" \in jitSeen',
         at = "asleep" => TimerSet(data) \/ data.handler # "idle"
  PROVE  JitInv'
<1>0. JitTypes /\ JitReads /\ Jit!SleeperServed
  BY DEF JitInv
<1>1. JitTypes'
  BY <1>0 DEF JitTypes
<1>2. /\ jit'[r] = data /\ jitReader'[r] = at
      /\ \A q \in Procs \ {r} : jit'[q] = jit[q] /\ jitReader'[q] = jitReader[q]
  BY <1>0 DEF JitTypes
<1>3. JitReads'
  <2> SUFFICES ASSUME NEW q \in Procs
               PROVE  /\ JitLoops(jit'[q])
                      /\ jitReader'[q] \in {"out", "done"} => jit'[q].loops = 0
                      /\ jitReader'[q] = "out" /\ jit'[q].handler = "wake" => "late wake" \in jitSeen'
                      /\ jitReader'[q] = "signalled" => "signal" \in jitSeen'
    BY DEF JitReads, JitLoops
  <2>1. CASE q = r
    BY <1>2, <2>1
  <2>2. CASE q # r
    <3>1. jit'[q] = jit[q] /\ jitReader'[q] = jitReader[q]
      BY <1>2, <2>2
    <3> QED  BY <1>0, <3>1 DEF JitReads
  <2> QED  BY <2>1, <2>2
<1>4. Jit!SleeperServed'
  BY <1>0, <1>2 DEF Jit!SleeperServed, Jit!At, TimerSet
<1> QED  BY <1>1, <1>3, <1>4 DEF JitInv

(* The data of a read with one field changed                                *)
LEMMA JitUpdated ==
  ASSUME NEW data \in JitData
  PROVE  /\ data.loops \in Nat
         /\ \A h \in {"idle", "count", "wake"} :
              /\ [data EXCEPT !.handler = h] \in JitData
              /\ [data EXCEPT !.handler = h].loops = data.loops
              /\ TimerSet([data EXCEPT !.handler = h]) <=> TimerSet(data)
              /\ [data EXCEPT !.handler = h].handler = h
         /\ [data EXCEPT !.loops = 0] \in JitData
         /\ [data EXCEPT !.loops = 0].loops = 0
         /\ [data EXCEPT !.loops = 0].handler = data.handler
         /\ TimerSet([data EXCEPT !.loops = 0]) <=> TimerSet(data)
         /\ [data EXCEPT !.pending = FALSE, !.handler = "count"] \in JitData
         /\ [data EXCEPT !.pending = FALSE, !.handler = "count"].loops = data.loops
         /\ ~TimerSet([data EXCEPT !.pending = FALSE, !.handler = "count"])
         /\ [data EXCEPT !.pending = FALSE, !.handler = "count"].handler = "count"
<1>1. data.loops \in Nat /\ data.handler \in {"idle", "count", "wake"}
  BY DEF JitData
<1>2. ASSUME NEW h \in {"idle", "count", "wake"}
      PROVE  /\ [data EXCEPT !.handler = h] \in JitData
             /\ [data EXCEPT !.handler = h].loops = data.loops
             /\ TimerSet([data EXCEPT !.handler = h]) <=> TimerSet(data)
             /\ [data EXCEPT !.handler = h].handler = h
  BY DEF JitData, TimerSet
<1>3. /\ [data EXCEPT !.loops = 0] \in JitData
      /\ [data EXCEPT !.loops = 0].loops = 0
      /\ [data EXCEPT !.loops = 0].handler = data.handler
      /\ TimerSet([data EXCEPT !.loops = 0]) <=> TimerSet(data)
  BY DEF JitData, TimerSet
<1>4. /\ [data EXCEPT !.pending = FALSE, !.handler = "count"] \in JitData
      /\ [data EXCEPT !.pending = FALSE, !.handler = "count"].loops = data.loops
      /\ ~TimerSet([data EXCEPT !.pending = FALSE, !.handler = "count"])
      /\ [data EXCEPT !.pending = FALSE, !.handler = "count"].handler = "count"
  BY DEF JitData, TimerSet
<1> QED  BY <1>1, <1>2, <1>3, <1>4

(* The data of a read with all its fields given                             *)
LEMMA JitCounted ==
  ASSUME NEW data \in JitData, NEW n \in Nat, NEW set \in BOOLEAN, NEW h \in {"idle", "count", "wake"}
  PROVE  [data EXCEPT !.loops = n, !.pending = set, !.handler = h] = [loops |-> n, pending |-> set, handler |-> h]
<1>1. data = [f \in {"loops", "pending", "handler"} |-> data[f]]
  BY DEF JitData
<1> DEFINE one == [data EXCEPT !.loops = n, !.pending = set, !.handler = h]
           two == [loops |-> n, pending |-> set, handler |-> h]
<1>2. DOMAIN one = DOMAIN two
  BY <1>1
<1>3. one.loops = two.loops /\ one.handler = two.handler
  BY <1>1
<1>4. one.pending = two.pending
  BY <1>1, Zenon
<1> QED  BY <1>1, <1>2, <1>3, <1>4

(* The loops that are left, where the timer and its function are            *)
LEMMA JitLeft ==
  ASSUME NEW data \in JitData, JitLoops(data)
  PROVE  /\ data.handler = "wake" \/ (data.handler = "idle" /\ ~TimerSet(data)) => data.loops = 0
         /\ data.handler = "count" \/ TimerSet(data) => data.loops > 0 /\ data.loops # 0
         /\ data.handler = "count" => ~TimerSet(data)
<1>1. data.loops \in Nat
  BY DEF JitData
<1>2. (TimerSet(data) => data.handler = "idle") /\ (data.loops > 0 <=> TimerSet(data) \/ data.handler = "count")
  BY DEF JitLoops
<1>3. data.loops > 0 <=> data.loops # 0
  BY <1>1
<1> QED  BY <1>2, <1>3, Zenon

(* Every step of jit                                                        *)
LEMMA JitNext ==
  ASSUME JitInv, Jit!Next
  PROVE  JitInv'
<1>0. JitTypes /\ JitReads /\ Jit!DataKept /\ Jit!SleeperServed
  BY DEF JitInv
<1>p. PICK r \in Procs :
        \/ Jit!Start(r) \/ Jit!Wait(r) \/ Jit!Signalled(r) \/ Jit!Finish(r) \/ Jit!Forget(r)
        \/ Jit!HandlerPrint(r) \/ Jit!HandlerCount(r) \/ Jit!HandlerWake(r)
  BY DEF Jit!Next
<1> DEFINE at == jitReader[r]
           d == jit[r]
<1>t. d \in JitData /\ d.loops \in Nat
  BY <1>0 DEF JitTypes, JitData
<1>l. JitLoops(d)
  BY <1>0 DEF JitReads
<1>z. /\ d.handler = "wake" \/ (d.handler = "idle" /\ ~TimerSet(d)) => d.loops = 0
      /\ d.handler = "count" \/ TimerSet(d) => d.loops > 0 /\ d.loops # 0
      /\ d.handler = "count" => ~TimerSet(d)
  BY <1>t, <1>l, JitLeft
<1>e. /\ at \in {"out", "done"} => d.loops = 0
      /\ at = "out" /\ d.handler = "wake" => "late wake" \in jitSeen
      /\ at = "signalled" => "signal" \in jitSeen
      /\ at \in {"out", "test", "queued", "asleep", "woken", "done", "signalled"}
  BY <1>0 DEF JitTypes, JitReads
<1>k. jitReader = [jitReader EXCEPT ![r] = at] /\ jit = [jit EXCEPT ![r] = d]
  BY <1>0 DEF JitTypes
<1>1. ASSUME Jit!Start(r) PROVE JitInv'
  <2> DEFINE data == [loops |-> Loops, pending |-> TRUE, handler |-> "idle"]
  <2>1. data \in JitData /\ JitLoops(data)
    BY DriversAssumption DEF JitData, JitLoops, TimerSet
  <2>2. jit' = [jit EXCEPT ![r] = data] /\ jitReader' = [jitReader EXCEPT ![r] = "test"]
        /\ jitSeen' = jitSeen
    BY <1>1 DEF Jit!Start, Jit!To
  <2>3. Jit!DataKept'
    BY <1>0, <2>2 DEF Jit!DataKept
  <2> HIDE DEF data
  <2> QED  BY <2>1, <2>2, <2>3, JitOne
<1>2. ASSUME Jit!Wait(r) PROVE JitInv'
  <2>1. PICK to \in {"done", "queued", "asleep"} :
          /\ jitReader' = [jitReader EXCEPT ![r] = to]
          /\ to = "done" <=> d.loops = 0
          /\ jit' = jit /\ jitSeen' = jitSeen
    BY <1>2 DEF Jit!Wait, Jit!At, Jit!To
  <2>2. Jit!DataKept'
    BY <1>0, <2>1 DEF Jit!DataKept
  <2> HIDE DEF d
  <2>3. to = "asleep" => TimerSet(d) \/ d.handler # "idle"
    <3>1. to = "asleep" => ~(d.loops = 0)
      BY <2>1
    <3> QED  BY <1>z, <1>t, <2>1, <3>1 DEF JitData
  <2>4. jit' = [jit EXCEPT ![r] = d]
    BY <1>k, <2>1
  <2> QED  BY <1>t, <1>l, <2>1, <2>2, <2>3, <2>4, JitOne
<1>3. ASSUME Jit!Signalled(r) PROVE JitInv'
  <2>1. jitReader' = [jitReader EXCEPT ![r] = "signalled"] /\ jit' = jit
        /\ jitSeen' = jitSeen \cup {"signal"}
    BY <1>3 DEF Jit!Signalled, Jit!To, Jit!Saw
  <2>2. Jit!DataKept'
    BY <1>0, <2>1 DEF Jit!DataKept
  <2> HIDE DEF d
  <2>3. jit' = [jit EXCEPT ![r] = d] /\ JitLoops(d)
    BY <1>k, <1>l, <2>1
  <2> QED  BY <1>t, <2>1, <2>2, <2>3, JitOne
<1>4. ASSUME Jit!Finish(r) PROVE JitInv'
  <2> DEFINE data == [d EXCEPT !.loops = 0]
  <2>1. at = "done" /\ jitReader' = [jitReader EXCEPT ![r] = "out"] /\ jit' = [jit EXCEPT ![r] = data]
        /\ jitSeen' = jitSeen \cup (IF d.handler = "wake" THEN {"late wake"} ELSE {})
    BY <1>4 DEF Jit!Finish, Jit!To, Jit!At, Jit!Saw, Jit!If
  <2> HIDE DEF d
  <2>2. /\ data \in JitData /\ data.loops = 0 /\ data.handler = d.handler /\ (TimerSet(data) <=> TimerSet(d))
    BY <1>t, JitUpdated
  <2>3. Jit!DataKept'
    BY <1>0, <2>1 DEF Jit!DataKept
  <2> HIDE DEF data
  <2>4. JitLoops(data)
    BY <1>l, <1>e, <2>1, <2>2 DEF JitLoops
  <2> QED  BY <2>1, <2>2, <2>3, <2>4, JitOne
<1>5. ASSUME Jit!Forget(r) PROVE JitInv'
  <2> DEFINE data == [loops |-> 0, pending |-> FALSE, handler |-> "idle"]
  <2>1. data \in JitData /\ JitLoops(data) /\ data.loops = 0 /\ data.handler = "idle"
    BY DEF JitData, JitLoops, TimerSet
  <2>2. jit' = [jit EXCEPT ![r] = data] /\ jitReader' = [jitReader EXCEPT ![r] = "out"] /\ jitSeen' = jitSeen
    BY <1>5 DEF Jit!Forget, Jit!To, Jit!NoData
  <2>3. Jit!DataKept'
    BY <1>0, <2>2 DEF Jit!DataKept
  <2> HIDE DEF data
  <2> QED  BY <2>1, <2>2, <2>3, JitOne
<1>6. ASSUME Jit!HandlerPrint(r) PROVE JitInv'
  <2> DEFINE data == [d EXCEPT !.pending = FALSE, !.handler = "count"]
  <2>1. /\ TimerSet(d) /\ jitReader' = jitReader
        /\ jitSeen' = jitSeen \cup (IF at \in {"signalled", "out"} THEN {"freed page"} ELSE {})
    BY <1>6 DEF Jit!HandlerPrint, Jit!Saw, Jit!If, Jit!Lost, Jit!Freed, Jit!At, TimerSet
  <2>2. jit' = [jit EXCEPT ![r] = data]
    BY <1>6 DEF Jit!HandlerPrint
  <2> HIDE DEF d
  <2>4. d.loops > 0 /\ at \notin {"out", "done"}
    <3>1. d.loops > 0 /\ d.loops # 0
      BY <1>t, <1>z, <2>1
    <3> QED  BY <1>e, <3>1
  <2>5. data \in JitData /\ data.loops = d.loops /\ ~TimerSet(data) /\ data.handler = "count"
    BY <1>t, JitUpdated
  <2>6. Jit!DataKept'
    BY <1>0, <1>e, <2>1, <2>4 DEF Jit!DataKept
  <2>7. jitReader' = [jitReader EXCEPT ![r] = at] /\ jitSeen \subseteq jitSeen'
    BY <1>k, <2>1
  <2> HIDE DEF data
  <2>8. JitLoops(data)
    BY <2>4, <2>5 DEF JitLoops
  <2> QED  BY <1>e, <2>2, <2>4, <2>5, <2>6, <2>7, <2>8, JitOne
<1>7. ASSUME Jit!HandlerCount(r) PROVE JitInv'
  <2>1. /\ d.handler = "count" /\ jitReader' = jitReader
        /\ jitSeen' = jitSeen \cup (IF at = "out" THEN {"freed data"} ELSE {})
    BY <1>7 DEF Jit!HandlerCount, Jit!Saw, Jit!If, Jit!Freed, Jit!At
  <2>2. d.loops > 0 /\ at \notin {"out", "done"}
    <3> HIDE DEF d
    <3>1. d.loops > 0 /\ d.loops # 0
      BY <1>t, <1>z, <2>1
    <3> QED  BY <1>e, <3>1
  <2>3. jitSeen' = jitSeen /\ jitReader' = [jitReader EXCEPT ![r] = at]
    BY <1>k, <2>1, <2>2
  <2>4. Jit!DataKept'
    BY <1>0, <2>3 DEF Jit!DataKept
  <2>5. CASE d.loops > 1
    <3> DEFINE data == [loops |-> d.loops - 1, pending |-> TRUE, handler |-> "idle"]
    <3>1. jit' = [jit EXCEPT ![r] = data]
      <4>1. jit' = [jit EXCEPT ![r] = [d EXCEPT !.loops = @ - 1, !.pending = TRUE, !.handler = "idle"]]
        BY <1>7, <2>5 DEF Jit!HandlerCount
      <4>2. [d EXCEPT !.loops = @ - 1, !.pending = TRUE, !.handler = "idle"] = data
        <5> HIDE DEF d
        <5>1. d.loops - 1 \in Nat
          BY <1>t, <2>5
        <5>2. [d EXCEPT !.loops = d.loops - 1, !.pending = TRUE, !.handler = "idle"] = data
          BY <1>t, <5>1, JitCounted
        <5> QED  BY <5>2
      <4> HIDE DEF d, data
      <4> QED  BY <4>1, <4>2
    <3> HIDE DEF d
    <3>2. data \in JitData /\ data.loops > 0 /\ data.handler = "idle" /\ TimerSet(data)
      BY <1>t, <2>5 DEF JitData, TimerSet
    <3> HIDE DEF data
    <3>3. JitLoops(data)
      BY <3>2 DEF JitLoops
    <3> QED  BY <1>e, <2>2, <2>3, <2>4, <3>1, <3>2, <3>3, JitOne
  <2>6. CASE ~(d.loops > 1)
    <3> DEFINE data == [loops |-> 0, pending |-> FALSE, handler |-> "wake"]
    <3>0. d.loops = 1
      <4> HIDE DEF d
      <4> QED  BY <1>t, <2>2, <2>6
    <3>1. jit' = [jit EXCEPT ![r] = data]
      <4>1. jit' = [jit EXCEPT ![r] = [d EXCEPT !.loops = @ - 1, !.pending = FALSE, !.handler = "wake"]]
        <5>1. (d.loops > 1) = FALSE
          BY <2>6
        <5>2. jit' = [jit EXCEPT ![r].loops = @ - 1, ![r].pending = d.loops > 1,
                                 ![r].handler = IF d.loops > 1 THEN "idle" ELSE "wake"]
          BY <1>7 DEF Jit!HandlerCount
        <5>3. jit' = [jit EXCEPT ![r].loops = @ - 1, ![r].pending = FALSE, ![r].handler = "wake"]
          BY <5>1, <5>2, <2>6
        <5> QED  BY <5>3
      <4>2. [d EXCEPT !.loops = @ - 1, !.pending = FALSE, !.handler = "wake"] = data
        <5> HIDE DEF d
        <5>1. [d EXCEPT !.loops = 0, !.pending = FALSE, !.handler = "wake"] = data
          BY <1>t, JitCounted
        <5> QED  BY <3>0, <5>1
      <4> HIDE DEF d, data
      <4> QED  BY <4>1, <4>2
    <3> HIDE DEF d
    <3>2. data \in JitData /\ data.loops = 0 /\ data.handler = "wake" /\ ~TimerSet(data)
      BY DEF JitData, TimerSet
    <3> HIDE DEF data
    <3>3. JitLoops(data)
      BY <3>2 DEF JitLoops
    <3> QED  BY <1>e, <2>2, <2>3, <2>4, <3>1, <3>2, <3>3, JitOne
  <2> QED  BY <2>5, <2>6
<1>8. ASSUME Jit!HandlerWake(r) PROVE JitInv'
  <2> DEFINE data == [d EXCEPT !.handler = "idle"]
  <2>1. /\ d.handler = "wake" /\ jit' = [jit EXCEPT ![r] = data]
        /\ jitReader' = [jitReader EXCEPT ![r] = IF at \in {"queued", "asleep"} THEN "woken" ELSE at]
        /\ jitSeen' = jitSeen \cup (IF at = "out" THEN {"freed data"} ELSE {})
    BY <1>8, <1>0 DEF Jit!HandlerWake, Jit!Saw, Jit!If, Jit!Freed, Jit!At, JitTypes
  <2> HIDE DEF d
  <2>2. d.loops = 0 /\ d.handler # "idle"
    BY <1>z, <2>1
  <2>3. data \in JitData /\ data.loops = d.loops /\ (TimerSet(data) <=> TimerSet(d)) /\ data.handler = "idle"
    BY <1>t, JitUpdated
  <2>4. PICK to \in {"out", "test", "woken", "done", "signalled"} :
          jitReader' = [jitReader EXCEPT ![r] = to] /\ (to = at \/ to = "woken")
    BY <1>e, <2>1
  <2>5. Jit!DataKept'
    BY <1>0, <1>e, <2>1, <2>2 DEF Jit!DataKept
  <2>6. jitSeen \subseteq jitSeen'
    BY <2>1
  <2> HIDE DEF data
  <2>7. JitLoops(data)
    BY <1>l, <2>1, <2>2, <2>3 DEF JitLoops
  <2> QED  BY <1>e, <2>1, <2>2, <2>3, <2>4, <2>5, <2>6, <2>7, JitOne
<1> QED  BY <1>p, <1>1, <1>2, <1>3, <1>4, <1>5, <1>6, <1>7, <1>8

(* And those of other drivers                                               *)
LEMMA JitStutter ==
  ASSUME JitInv, UNCHANGED JitVars
  PROVE  JitInv'
<1>1. jit' = jit /\ jitReader' = jitReader /\ jitSeen' = jitSeen
  BY DEF JitVars
<1> QED  BY <1>1 DEF JitInv, JitTypes, JitReads, Jit!DataKept, Jit!SleeperServed, Jit!At

----------------------------------------------------------------------------
(* The invariants, in the behaviours with their drivers loaded             *)

(* Short's invariant in every behaviour with that driver *)
LEMMA ShortKept == Spec => [](loaded = "short" => ShortInv)
<1> DEFINE I == loaded = "short" => ShortInv
<1>1. Init => I
  BY ShortInit DEF Init
<1>2. I /\ [Next]_vars => I'
  <2> SUFFICES ASSUME I, [Next]_vars, loaded' = "short" PROVE ShortInv'
    OBVIOUS
  <2>1. loaded = "short" /\ (Short!Next \/ UNCHANGED ShortVars)
    BY DEF Next, vars, Of
  <2> QED  BY <2>1, ShortNext, ShortStutter
<1> QED  BY <1>1, <1>2, PTL DEF Spec

(* Snull's invariant in every behaviour with that driver *)
LEMMA SnullKept == Spec => [](loaded = "snull" => SnullInv)
<1> DEFINE I == loaded = "snull" => SnullInv
<1>1. Init => I
  BY SnullInit DEF Init
<1>2. I /\ [Next]_vars => I'
  <2> SUFFICES ASSUME I, [Next]_vars, loaded' = "snull" PROVE SnullInv'
    OBVIOUS
  <2>1. loaded = "snull" /\ (Snull!Next \/ UNCHANGED SnullVars)
    BY DEF Next, vars, Of
  <2> QED  BY <2>1, SnullNext, SnullStutter
<1> QED  BY <1>1, <1>2, PTL DEF Spec

(* Jiq's invariant in every behaviour with that driver *)
LEMMA JiqKept == Spec => [](loaded = "jiq" => JiqInv)
<1> DEFINE I == loaded = "jiq" => JiqInv
<1>1. Init => I
  BY JiqInit DEF Init
<1>2. I /\ [Next]_vars => I'
  <2> SUFFICES ASSUME I, [Next]_vars, loaded' = "jiq" PROVE JiqInv'
    OBVIOUS
  <2>1. loaded = "jiq" /\ (Jiq!Next \/ UNCHANGED JiqVars)
    BY DEF Next, vars, Of
  <2> QED  BY <2>1, JiqNext, JiqStutter
<1> QED  BY <1>1, <1>2, PTL DEF Spec

(* Jit's invariant in every behaviour with that driver *)
LEMMA JitKept == Spec => [](loaded = "jit" => JitInv)
<1> DEFINE I == loaded = "jit" => JitInv
<1>1. Init => I
  BY JitInit DEF Init
<1>2. I /\ [Next]_vars => I'
  <2> SUFFICES ASSUME I, [Next]_vars, loaded' = "jit" PROVE JitInv'
    OBVIOUS
  <2>1. loaded = "jit" /\ (Jit!Next \/ UNCHANGED JitVars)
    BY DEF Next, vars, Of
  <2> QED  BY <2>1, JitNext, JitStutter
<1> QED  BY <1>1, <1>2, PTL DEF Spec

(* Sleepy's invariant in every behaviour with that driver *)
LEMMA SleepyKept == Spec => [](loaded = "sleepy" => SleepyInv)
<1> DEFINE I == loaded = "sleepy" => SleepyInv
<1>1. Init => I
  BY SleepyInit DEF Init
<1>2. I /\ [Next]_vars => I'
  <2> SUFFICES ASSUME I, [Next]_vars, loaded' = "sleepy" PROVE SleepyInv'
    OBVIOUS
  <2>1. loaded = "sleepy" /\ (Sleepy!Next \/ UNCHANGED SleepyVars)
    BY DEF Next, vars, Of
  <2> QED  BY <2>1, SleepyNext, SleepyStutter
<1> QED  BY <1>1, <1>2, PTL DEF Spec

(* A read of short copies bytes of the page that an interrupt wrote and     *)
(* nobody read, and does not sleep with some there that nobody is about to  *)
(* announce (short.c:277-303).                                              *)
THEOREM RingReads == Spec => []RingRead
<1>1. (loaded = "short" => ShortInv) => RingRead
  BY ShortSafe DEF RingRead
<1> QED  BY <1>1, ShortKept, PTL

(* No time stamp of short waits for ever, and none is printed twice unless  *)
(* the bottom half was scheduled behind it (short.c:388-434).               *)
THEOREM StampsOnce == Spec => []StampsPrinted
<1>1. (loaded = "short" => ShortInv) => StampsPrinted
  BY ShortSafe DEF StampsPrinted
<1> QED  BY <1>1, ShortKept, PTL

(* No packet of snull's pools is lost or in two places, an open queue has  *)
(* one, and a queue that was stopped for want of one is started when one   *)
(* comes back, unless a transmission hung (snull.c:132-186, 287-323).      *)
THEOREM PacketsStay == Spec => []PacketsKept
<1>1. (loaded = "snull" => SnullInv) => PacketsKept
  BY SnullSafe DEF PacketsKept
<1> QED  BY <1>1, SnullKept, PTL

(* Snull's interrupts free every skb once and announce every packet that   *)
(* came while the poll was not ending (snull.c:285-418).                   *)
THEOREM FramesDone == Spec => []FramesHandled
<1>1. (loaded = "snull" => SnullInv) => FramesHandled
  BY SnullSafe DEF FramesHandled
<1> QED  BY <1>1, SnullKept, PTL

(* Nobody sleeps for ever: the invariants of jiq, jit, sleepy and complete, *)
(* each with who is on the way to the wake-up of each sleeper (jiq.c:81-108, *)
(* jit.c:116-190, sleepy.c:33-52, complete.c:34-48).                        *)
THEOREM SleepersWoken == Spec => []WakeupsCome
<1>1. /\ loaded = "jiq" => JiqInv
      /\ loaded = "jit" => JitInv
      /\ loaded = "sleepy" => SleepyInv
      => WakeupsCome
  BY SleepySafe DEF WakeupsCome, JiqInv, JitInv
<1> QED  BY <1>1, JiqKept, JitKept, SleepyKept, PTL

(* What jiq and jit write to later is still the page and the data of the    *)
(* read that asked for it (jiq.c:81-260, jit.c:116-190).                    *)
THEOREM LatePrints == Spec => []PagesKept
<1>1. /\ loaded = "jiq" => JiqInv
      /\ loaded = "jit" => JitInv
      => PagesKept
  BY DEF PagesKept, JiqInv, JitInv
<1> QED  BY <1>1, JiqKept, JitKept, PTL
=============================================================================

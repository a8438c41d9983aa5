------------------------------- MODULE Snull -------------------------------
(***************************************************************************)
(* The pair of network interfaces of examples/snull/snull.c. What one      *)
(* transmits the other receives: snull_hw_tx takes a packet of its own     *)
(* pool, puts it in the receive queue of the twin and calls the interrupt  *)
(* handler of the twin and then its own. With NAPI the handler only        *)
(* schedules snull_poll.                                                   *)
(*                                                                         *)
(* The contexts are, for each device, its transmit path (serialised by the *)
(* kernel's transmit lock, the watchdog included) and its poll. A region   *)
(* under priv->lock is one action. "status |= bit" is outside any lock and *)
(* is a read and a write. Lists are linked through next, as in the code.   *)
(***************************************************************************)
EXTENDS Integers, FiniteSets

CONSTANTS PoolSize,     \* pool_size
          Modes,        \* [napi, lockup, senders]: use_napi, lockup # 0, and the
                        \* interfaces that have packets to send
          Quota         \* dev->weight

Devices == {0, 1}
Twin(d) == 1 - d
NULL == <<2, 0>>      \* no packet
Packets == Devices \X (1 .. PoolSize)   \* <<pkt->dev, number>>
Contexts == {"tx", "poll"} \X Devices

VARIABLES mode,         \* the parameters the module was loaded with
          net,          \* net[d]: struct snull_priv and the kernel's queue state
          next,         \* pkt->next
          ctx,          \* where each context is, its packet and its locals
          odd,          \* history: "no", a queue "hung" by the lockup, or "forced": started
                        \* hung or with an empty pool, timed out, or an update lost
          missed,       \* history: devices whose poll ended beside a new packet, or
                        \* was not scheduled as the device was down
          fate,         \* history: an skb freed "twice" or "lost", unless odd explains it
          crashed       \* NULL was dereferenced

vars == <<mode, net, next, ctx, odd, missed, fate, crashed>>

Idle == [pc |-> "idle", pkt |-> NULL, tmp |-> {}, back |-> "idle", n |-> 0]

\* snull_init and snull_setup_pool
Init ==
  /\ net = [d \in Devices |->
       [ppool |-> <<d, PoolSize>>, rx_queue |-> NULL, status |-> {}, rx_int |-> TRUE,
        skb |-> FALSE, stopped |-> TRUE, sched |-> FALSE, up |-> FALSE, gone |-> FALSE]]
  /\ next = [k \in Packets |-> IF k[2] = 1 THEN NULL ELSE <<k[1], k[2] - 1>>]
  /\ ctx = [c \in Contexts |-> Idle]
  /\ mode \in Modes
  /\ odd = "no" /\ missed = {} /\ fate = {} /\ crashed = FALSE

At(c, l) == ctx[c].pc = l /\ ~crashed
To(c, l, k) == ctx' = [ctx EXCEPT ![c] = IF l = "idle" THEN Idle
                                         ELSE [@ EXCEPT !.pc = l, !.pkt = k]]
Go(c, l) == To(c, l, ctx[c].pkt)

-----------------------------------------------------------------------------
(* The interrupt handlers, called for device d; afterwards c is at back.   *)

\* Mutant: the status word is left as it is.
RegularKeepStatus(c, d, back) ==
  LET bits == net[d].status
      pkt == IF "rx" \in bits THEN net[d].rx_queue ELSE NULL
  IN  /\ net' = [net EXCEPT ![d].rx_queue = IF pkt # NULL THEN next[pkt] ELSE @,
                            ![d].skb = @ /\ "tx" \notin bits]
      /\ fate' = IF "tx" \in bits /\ ~net[d].skb /\ odd # "forced" THEN {"twice"} ELSE fate
      /\ UNCHANGED missed
      /\ IF pkt = NULL THEN To(c, back, NULL)
         ELSE ctx' = [ctx EXCEPT ![c].pc = "release", ![c].pkt = pkt, ![c].back = back]

Regular(c, d, back) ==
  LET bits == net[d].status
      pkt == IF "rx" \in bits THEN net[d].rx_queue ELSE NULL
  IN  /\ net' = [net EXCEPT ![d].status = {},
                            ![d].rx_queue = IF pkt # NULL THEN next[pkt] ELSE @,
                            ![d].skb = @ /\ "tx" \notin bits]
      /\ fate' = IF "tx" \in bits /\ ~net[d].skb /\ odd # "forced" THEN {"twice"} ELSE fate
      /\ UNCHANGED missed
      /\ IF pkt = NULL THEN To(c, back, NULL)
         ELSE ctx' = [ctx EXCEPT ![c].pc = "release", ![c].pkt = pkt, ![c].back = back]

\* Receive interrupts are disabled and the poll scheduled; but netif_rx_schedule
\* does nothing for a device that is down, and then only a poll enables them again.
NapiInterrupt(c, d, back) ==
  LET bits == net[d].status
  IN  /\ net' = [net EXCEPT ![d].status = {},
                            ![d].rx_int = @ /\ "rx" \notin bits,
                            ![d].sched = @ \/ ("rx" \in bits /\ net[d].up),
                            ![d].skb = @ /\ "tx" \notin bits]
      /\ fate' = IF "tx" \in bits /\ ~net[d].skb /\ odd # "forced" THEN {"twice"} ELSE fate
      /\ missed' = IF "rx" \in bits /\ ~net[d].up /\ ~net[d].sched THEN missed \cup {d} ELSE missed
      /\ To(c, back, NULL)

Interrupt(c, from, d, back) ==
  /\ At(c, from)
  /\ IF mode.napi THEN NapiInterrupt(c, d, back) ELSE Regular(c, d, back)
  /\ UNCHANGED <<mode, next, odd, crashed>>

-----------------------------------------------------------------------------
(* snull_release_buffer: back to the pool of pkt->dev, then outside the    *)
(* lock the test whether the queue waits for it                            *)

ReleaseBuffer(c) ==
  LET k == ctx[c].pkt
  IN  /\ At(c, "release")
      /\ next' = [next EXCEPT ![k] = net[k[1]].ppool]
      /\ net' = [net EXCEPT ![k[1]].ppool = k]
      /\ Go(c, "wake")
      /\ UNCHANGED <<mode, odd, missed, fate, crashed>>

\* netif_wake_queue, netif_start_queue
Start(d) ==
  /\ net' = [net EXCEPT ![d].stopped = FALSE]
  /\ odd' = IF net[d].ppool = NULL \/ odd = "hung" THEN "forced" ELSE odd

\* Mutant: the queue is woken whenever a buffer comes back, or never.
WakeNever(c) ==
  /\ At(c, "wake")
  /\ To(c, ctx[c].back, NULL)
  /\ UNCHANGED <<mode, net, next, odd, missed, fate, crashed>>

WakeQueue(c) ==
  LET k == ctx[c].pkt
  IN  /\ At(c, "wake")
      /\ IF net[k[1]].stopped /\ next[k] = NULL THEN Start(k[1])
         ELSE UNCHANGED <<net, odd>>
      /\ To(c, ctx[c].back, NULL)
      /\ UNCHANGED <<mode, next, missed, fate, crashed>>

-----------------------------------------------------------------------------
(* snull_tx and snull_hw_tx, from the kernel's queue of device d           *)

Transmit(c, d) ==
  /\ At(c, "idle") /\ net[d].up /\ ~net[d].stopped /\ d \in mode.senders
  /\ net' = [net EXCEPT ![d].skb = TRUE]
  /\ fate' = IF net[d].skb /\ odd = "no" THEN {"lost"} ELSE fate
  /\ Go(c, "get")
  /\ UNCHANGED <<mode, next, odd, missed, crashed>>

\* Mutant: the queue is stopped when a packet is missing, one packet too late.
GetLate(c, d) ==
  LET k == net[d].ppool
  IN  /\ At(c, "get")
      /\ IF k = NULL
         THEN crashed' = TRUE /\ UNCHANGED <<mode, net, ctx>>
         ELSE /\ net' = [net EXCEPT ![d].ppool = next[k]]
              /\ To(c, "enqueue", k)
              /\ UNCHANGED crashed
      /\ UNCHANGED <<mode, next, odd, missed, fate>>

\* snull_get_tx_buffer: pkt->next is read without a test of pkt.
GetTxBuffer(c, d) ==
  LET k == net[d].ppool
  IN  /\ At(c, "get")
      /\ IF k = NULL
         THEN crashed' = TRUE /\ UNCHANGED <<mode, net, ctx>>
         ELSE /\ net' = [net EXCEPT ![d].ppool = next[k],
                                    ![d].stopped = @ \/ next[k] = NULL]
              /\ To(c, "enqueue", k)
              /\ UNCHANGED crashed
      /\ UNCHANGED <<mode, next, odd, missed, fate>>

\* Mutant: the packet is not linked to the queue it becomes the head of.
EnqueueUnlinked(c, dest) ==
  LET k == ctx[c].pkt
  IN  /\ At(c, "enqueue")
      /\ next' = [next EXCEPT ![k] = NULL]
      /\ net' = [net EXCEPT ![dest].rx_queue = k]
      /\ To(c, "enabled", NULL)
      /\ UNCHANGED <<mode, odd, missed, fate, crashed>>

EnqueueBuf(c, dest) ==
  LET k == ctx[c].pkt
  IN  /\ At(c, "enqueue")
      /\ next' = [next EXCEPT ![k] = net[dest].rx_queue]
      /\ net' = [net EXCEPT ![dest].rx_queue = k]
      /\ To(c, "enabled", NULL)
      /\ UNCHANGED <<mode, odd, missed, fate, crashed>>

\* Past its last look at the queue, the poll has not yet enabled interrupts.
PollEnding(d) == ctx[<<"poll", d>>].pc \in {"complete", "enable"}

TestEnabled(c, dest) ==
  /\ At(c, "enabled")
  /\ Go(c, IF net[dest].rx_int THEN "rx_read" ELSE "tx_read")
  /\ missed' = IF ~net[dest].rx_int /\ PollEnding(dest) THEN missed \cup {dest} ELSE missed
  /\ UNCHANGED <<mode, net, next, odd, fate, crashed>>

OrRead(c, from, d, to) ==
  /\ At(c, from)
  /\ ctx' = [ctx EXCEPT ![c].pc = to, ![c].tmp = net[d].status]
  /\ UNCHANGED <<mode, net, next, odd, missed, fate, crashed>>

OrWrite(c, from, d, bit, tos) ==
  /\ At(c, from)
  /\ net' = [net EXCEPT ![d].status = ctx[c].tmp \cup {bit}]
  /\ odd' = IF net[d].status # ctx[c].tmp THEN "forced" ELSE odd
  /\ \E to \in tos : ctx' = [ctx EXCEPT ![c] = [Idle EXCEPT !.pc = to]]
  /\ UNCHANGED <<mode, next, missed, fate, crashed>>

\* The simulated lockup stops the queue instead of interrupting.
Hang(c, d) ==
  /\ At(c, "hang")
  /\ net' = [net EXCEPT ![d].stopped = TRUE]
  /\ odd' = IF odd = "no" THEN "hung" ELSE odd
  /\ Go(c, "idle")
  /\ UNCHANGED <<mode, next, missed, fate, crashed>>

\* snull_tx_timeout, called by the watchdog while the queue is stopped
Timeout(c, d) ==
  /\ At(c, "idle") /\ net[d].up /\ net[d].stopped
  /\ net' = [net EXCEPT ![d].status = {"tx"}]
  /\ odd' = "forced"
  /\ Go(c, "to_int")
  /\ UNCHANGED <<mode, next, missed, fate, crashed>>

TimeoutWake(c, d) ==
  /\ At(c, "to_wake")
  /\ Start(d)
  /\ Go(c, "idle")
  /\ UNCHANGED <<mode, next, missed, fate, crashed>>

TxStep(d) ==
  LET c == <<"tx", d>>
  IN  \/ GetTxBuffer(c, d) \/ EnqueueBuf(c, Twin(d)) \/ TestEnabled(c, Twin(d))
      \/ OrRead(c, "rx_read", Twin(d), "rx_write")
      \/ OrWrite(c, "rx_write", Twin(d), "rx", {"rx_int"})
      \/ Interrupt(c, "rx_int", Twin(d), "tx_read")
      \/ OrRead(c, "tx_read", d, "tx_write")
      \/ OrWrite(c, "tx_write", d, "tx", {"tx_int"} \cup IF mode.lockup THEN {"hang"} ELSE {})
      \/ Interrupt(c, "tx_int", d, "idle")
      \/ Hang(c, d)
      \/ Interrupt(c, "to_int", d, "to_wake") \/ TimeoutWake(c, d)
      \/ ReleaseBuffer(c) \/ WakeQueue(c)

-----------------------------------------------------------------------------
(* snull_poll                                                              *)

PollStart(c, d) ==
  /\ At(c, "idle") /\ net[d].sched
  /\ ctx' = [ctx EXCEPT ![c].pc = "test", ![c].n = 0]
  /\ UNCHANGED <<mode, net, next, odd, missed, fate, crashed>>

\* Mutant: the quota is not looked at.
PollTestAll(c, d) ==
  /\ At(c, "test")
  /\ Go(c, IF net[d].rx_queue # NULL THEN "dequeue" ELSE "end")
  /\ UNCHANGED <<mode, net, next, odd, missed, fate, crashed>>

PollTest(c, d) ==
  /\ At(c, "test")
  /\ Go(c, IF ctx[c].n < Quota /\ net[d].rx_queue # NULL THEN "dequeue" ELSE "end")
  /\ UNCHANGED <<mode, net, next, odd, missed, fate, crashed>>

\* An skb may be refused, then the packet does not count.
PollDequeue(c, d) ==
  LET k == net[d].rx_queue
  IN  /\ At(c, "dequeue")
      /\ net' = [net EXCEPT ![d].rx_queue = next[k]]
      /\ \E done \in {0, 1} :
           ctx' = [ctx EXCEPT ![c].pc = "release", ![c].pkt = k, ![c].back = "test",
                              ![c].n = @ + done]
      /\ UNCHANGED <<mode, next, odd, missed, fate, crashed>>

\* Mutant: the poll is over whatever is left.
PollEndAlways(c, d) ==
  /\ At(c, "end")
  /\ Go(c, "complete") /\ missed' = missed \ {d}
  /\ UNCHANGED <<mode, net, next, odd, fate, crashed>>

PollEnd(c, d) ==
  /\ At(c, "end")
  /\ IF net[d].rx_queue = NULL
     THEN Go(c, "complete") /\ missed' = missed \ {d}
     ELSE Go(c, "idle") /\ UNCHANGED missed
  /\ UNCHANGED <<mode, net, next, odd, fate, crashed>>

PollComplete(c, d) ==
  /\ At(c, "complete")
  /\ net' = [net EXCEPT ![d].sched = FALSE]
  /\ Go(c, "enable")
  /\ UNCHANGED <<mode, next, odd, missed, fate, crashed>>

PollEnable(c, d) ==
  /\ At(c, "enable")
  /\ net' = [net EXCEPT ![d].rx_int = TRUE]
  /\ To(c, "idle", NULL)
  /\ UNCHANGED <<mode, next, odd, missed, fate, crashed>>

PollStep(d) ==
  LET c == <<"poll", d>>
  IN  \/ PollStart(c, d) \/ PollTest(c, d) \/ PollDequeue(c, d) \/ PollEnd(c, d)
      \/ PollComplete(c, d) \/ PollEnable(c, d)
      \/ ReleaseBuffer(c) \/ WakeQueue(c)

-----------------------------------------------------------------------------
(* ifconfig up and down                                                    *)

Open(d) ==
  /\ At(<<"tx", d>>, "idle") /\ ~net[d].up /\ ~net[d].gone
  /\ net' = [net EXCEPT ![d].stopped = FALSE, ![d].up = TRUE]
  /\ odd' = IF net[d].skb \/ net[d].ppool = NULL THEN "forced" ELSE odd
  /\ UNCHANGED <<mode, next, ctx, missed, fate, crashed>>

Stop(d) ==
  /\ At(<<"tx", d>>, "idle") /\ net[d].up
  /\ net' = [net EXCEPT ![d].stopped = TRUE, ![d].up = FALSE]
  /\ UNCHANGED <<mode, next, ctx, odd, missed, fate, crashed>>

\* snull_cleanup, after snull_unload has taken the interfaces down
Cleanup ==
  /\ \A d \in Devices : ~net[d].up /\ ~net[d].sched /\ ~net[d].gone
  /\ \A c \in Contexts : At(c, "idle")
  /\ net' = [d \in Devices |-> [net[d] EXCEPT !.ppool = NULL, !.gone = TRUE]]
  /\ UNCHANGED <<mode, next, ctx, odd, missed, fate, crashed>>

Next ==
  \/ Cleanup
  \/ \E d \in Devices :
       \/ Transmit(<<"tx", d>>, d) \/ Timeout(<<"tx", d>>, d)
       \/ TxStep(d) \/ PollStep(d) \/ Open(d) \/ Stop(d)

Spec == Init /\ [][Next]_vars

-----------------------------------------------------------------------------
(* Properties *)

TypeOK ==
  /\ \A d \in Devices :
       /\ net[d].ppool \in Packets \cup {NULL} /\ net[d].rx_queue \in Packets \cup {NULL}
       /\ net[d].status \subseteq {"rx", "tx"}
       /\ {net[d].rx_int, net[d].skb, net[d].stopped, net[d].sched, net[d].up, net[d].gone} \subseteq BOOLEAN
  /\ next \in [Packets -> Packets \cup {NULL}]
  /\ \A c \in Contexts : ctx[c].pkt \in Packets \cup {NULL} /\ ctx[c].n \in 0 .. Quota

\* The packets of a list, found by following it as far as there are packets
Listed(head) ==
  LET walk[n \in 0 .. 2 * PoolSize] ==
        IF n = 0 THEN head
        ELSE IF walk[n - 1] = NULL THEN NULL ELSE next[walk[n - 1]]
  IN  { walk[n] : n \in 0 .. 2 * PoolSize } \ {NULL}

Held(d) == { k \in Packets : k[1] = d /\ \E c \in Contexts : ctx[c].pkt = k
                                 /\ ctx[c].pc \in {"enqueue", "release"} }

\* No packet is lost or in two places (snull.c:132-186): those of a device are
\* in its pool, in the receive queue of the twin, or in the hand of a context.
PoolConserved ==
  \A d \in Devices : ~net[d].gone =>
    LET pool == Listed(net[d].ppool)
        queue == Listed(net[Twin(d)].rx_queue)
    IN  /\ pool \cup queue \cup Held(d) = {d} \X (1 .. PoolSize)
        /\ Cardinality(pool) + Cardinality(queue) + Cardinality(Held(d)) = PoolSize

\* The queue is stopped before the pool is used empty (snull.c:140), unless it
\* was started with an empty pool: by an open, by a timeout, or by a wake-up
\* decided on a packet that had left the pool again (snull.c:159).
NeverEmpty == crashed => odd = "forced"

\* A queue stopped for want of packets is not left stopped when there are some
\* (snull.c:153-160): somebody is about to wake it.
QueueWoken ==
  \A d \in Devices :
    net[d].up /\ net[d].stopped /\ net[d].ppool # NULL /\ odd = "no" =>
      \E c \in Contexts : ctx[c].pc = "wake" /\ ctx[c].pkt[1] = d

\* Every skb is freed once (snull.c:367, 412). The exceptions are those the code
\* has: an update of the status word lost because snull.c:488 and 495 write it
\* without the lock; the interrupt a timeout simulates (snull.c:544); a queue
\* that hangs and is started by an open or by a wake-up meant for the pool.
FreedOnce == fate = {}

\* A received packet is announced (snull.c:487-490): it is not left in the queue
\* with nobody about to take it, unless one came while the poll was ending or,
\* with NAPI, while the device was down (snull.c:405): then no poll comes, and
\* without one the interrupts stay off, for the packets after it too.
PacketsAnnounced ==
  \A d \in Devices :
    net[d].rx_queue # NULL /\ odd = "no" /\ d \notin missed =>
      \/ net[d].sched \/ "rx" \in net[d].status
      \/ \E c \in Contexts : ctx[c].pc # "idle"

=============================================================================

------------------------------ MODULE TinyTty ------------------------------
(***************************************************************************)
(* One port of examples/tty/tiny_tty.c: a timer inserts a character into   *)
(* the tty while the port is open. tiny_open runs under the big kernel     *)
(* lock, but it gives that up where it sleeps: for memory and for          *)
(* tiny->sem. A region under tiny->sem is one action; the timer handler    *)
(* takes no lock. Termios, the modem lines and the counters, which no      *)
(* other operation looks at, are left out.                                 *)
(***************************************************************************)
EXTENDS Integers, FiniteSets

CONSTANTS Procs,        \* processes that open, use and close the tty
          Tinys,        \* numbers of the struct tiny_serial that may be allocated, 1 .. n
          MaxCount      \* bound of open_count, which grows where closes are skipped

VARIABLES tiny,         \* [Tinys -> struct tiny_serial; its timer and the handler]
          tinyTable,    \* tiny_table[index]
          driverData,   \* tty->driver_data, of the tty that is open
          tinyProc,     \* [Procs -> where it is, and its local tiny]
          tinySeen      \* history: the windows that have been hit, and what they did

vars == <<tiny, tinyTable, driverData, tinyProc, tinySeen>>

NULL == 0
Gone == [pc |-> "out", tiny |-> NULL]

Init ==
  /\ tiny = [k \in Tinys |-> [made |-> FALSE, open_count |-> 0, timer |-> "none", handler |-> "idle"]]
  /\ tinyTable = NULL /\ driverData = NULL
  /\ tinyProc = [p \in Procs |-> Gone]
  /\ tinySeen = {}

At(p, l) == tinyProc[p].pc = l
To(p, l, k) == tinyProc' = [tinyProc EXCEPT ![p] = [pc |-> l, tiny |-> k]]

-----------------------------------------------------------------------------
(* tiny_open                                                               *)

OpenStart(p) ==
  /\ At(p, "out") /\ \A k \in Tinys : tiny[k].open_count < MaxCount
  /\ driverData' = NULL
  /\ To(p, IF tinyTable = NULL THEN "alloc" ELSE "down", tinyTable)
  /\ UNCHANGED <<tiny, tinyTable, tinySeen>>

\* kmalloc sleeps: a second first open may be here, too, and make its own. When
\* there is no memory the tty layer closes a tty that has no driver_data.
OpenAlloc(p) ==
  /\ At(p, "alloc")
  /\ \/ \E k \in Tinys :
          /\ ~tiny[k].made /\ \A j \in Tinys : j < k => tiny[j].made
          /\ tiny' = [tiny EXCEPT ![k].made = TRUE]
          /\ tinySeen' = IF tinyTable # NULL THEN tinySeen \cup {"two"} ELSE tinySeen
          /\ tinyTable' = k
          /\ To(p, "down", k)
     \/ To(p, "close", NULL) /\ UNCHANGED <<tiny, tinyTable, tinySeen>>
  /\ UNCHANGED driverData

\* Mutant: the timer is started by a second open as well, not by a first.
OpenLockedSecond(p) ==
  LET k == tinyProc[p].tiny
  IN  /\ At(p, "down")
      /\ driverData' = k
      /\ tiny' = [tiny EXCEPT ![k].open_count = @ + 1,
                              ![k].timer = IF tiny[k].open_count = 1 THEN "set" ELSE @]
      /\ To(p, "open", k)
      /\ UNCHANGED <<tinyTable, tinySeen>>

\* Under tiny->sem. Without memory for the timer the open fails, with the count
\* already increased; the tty layer then closes.
OpenLocked(p) ==
  LET k == tinyProc[p].tiny
      first == tiny[k].open_count = 0
  IN  /\ At(p, "down")
      /\ driverData' = k
      /\ \/ /\ tiny' = [tiny EXCEPT ![k].open_count = @ + 1, ![k].timer = IF first THEN "set" ELSE @]
            /\ To(p, "open", k)
            /\ UNCHANGED tinySeen
         \/ /\ first /\ tiny[k].timer = "none"
            /\ tiny' = [tiny EXCEPT ![k].open_count = @ + 1]
            /\ To(p, "close", k)
            /\ tinySeen' = tinySeen \cup {"no timer"}
      /\ UNCHANGED tinyTable

-----------------------------------------------------------------------------
(* tiny_close and do_close                                                 *)

\* The process closes, or the tty layer after a failed open; tty->driver_data is
\* read without the semaphore. It may be NULL or there again by another open.
CloseStart(p) ==
  /\ At(p, "open") \/ At(p, "close")
  /\ To(p, IF driverData = NULL THEN "out" ELSE "close_down", driverData)
  /\ tinySeen' = IF driverData = tinyProc[p].tiny THEN tinySeen ELSE tinySeen \cup {"mixed"}
  /\ UNCHANGED <<tiny, tinyTable, driverData>>

\* Mutant: the timer is left to itself.
CloseLockedNoDel(p) ==
  LET k == tinyProc[p].tiny
  IN  /\ At(p, "close_down")
      /\ tiny' = [tiny EXCEPT ![k].open_count = IF @ > 0 THEN @ - 1 ELSE 0]
      /\ To(p, "out", NULL)
      /\ UNCHANGED <<tinyTable, driverData, tinySeen>>

\* Under tiny->sem. del_timer does not wait for a handler that runs; a timer that
\* was never allocated is dereferenced.
CloseLocked(p) ==
  LET k == tinyProc[p].tiny
      last == tiny[k].open_count = 1
  IN  /\ At(p, "close_down")
      /\ tiny' = [tiny EXCEPT ![k].open_count = IF @ > 0 THEN @ - 1 ELSE 0,
                              ![k].timer = IF last /\ @ = "set" THEN "idle" ELSE @]
      /\ tinySeen' = tinySeen \cup
           (IF last /\ tiny[k].timer = "none" THEN {"crash"} ELSE {}) \cup
           (IF last /\ tiny[k].handler # "idle" THEN {"late"} ELSE {})
      /\ To(p, "out", NULL)
      /\ UNCHANGED <<tinyTable, driverData>>

-----------------------------------------------------------------------------
(* tiny_timer                                                              *)

TimerStart(k) ==
  /\ tiny[k].timer = "set" /\ tiny[k].handler = "idle"
  /\ tiny' = [tiny EXCEPT ![k].timer = "idle", ![k].handler = "push"]
  /\ UNCHANGED <<tinyTable, driverData, tinyProc, tinySeen>>

InUse == \E p \in Procs : ~At(p, "out")

\* The character goes to tiny->tty, which was freed if nobody has it open.
TimerPush(k) ==
  /\ tiny[k].handler = "push"
  /\ tiny' = [tiny EXCEPT ![k].handler = "resubmit"]
  /\ tinySeen' = IF InUse THEN tinySeen ELSE tinySeen \cup {"stale"}
  /\ UNCHANGED <<tinyTable, driverData, tinyProc>>

\* Mutant: the timer runs once.
TimerOnce(k) ==
  /\ tiny[k].handler = "resubmit"
  /\ tiny' = [tiny EXCEPT ![k].handler = "idle"]
  /\ UNCHANGED <<tinyTable, driverData, tinyProc, tinySeen>>

TimerResubmit(k) ==
  /\ tiny[k].handler = "resubmit"
  /\ tiny' = [tiny EXCEPT ![k].handler = "idle", ![k].timer = "set"]
  /\ UNCHANGED <<tinyTable, driverData, tinyProc, tinySeen>>

\* tiny_exit, when nobody uses the module. It frees the timer without waiting for
\* a handler, which (ClosedQuiet) is there only if a window was hit before.
Exit ==
  /\ ~InUse /\ tinyTable # NULL
  /\ tiny' = [tiny EXCEPT ![tinyTable].timer = "freed", ![tinyTable].open_count = 0]
  /\ tinyTable' = NULL
  /\ UNCHANGED <<driverData, tinyProc, tinySeen>>

Next ==
  \/ \E p \in Procs : \/ OpenStart(p) \/ OpenAlloc(p) \/ OpenLocked(p)
                      \/ CloseStart(p) \/ CloseLocked(p)
  \/ \E k \in Tinys : TimerStart(k) \/ TimerPush(k) \/ TimerResubmit(k)
  \/ Exit

Spec == Init /\ [][Next]_vars

-----------------------------------------------------------------------------
(* Properties *)

\* When nobody has the port open its timer is off (tiny_tty.c:145-164), unless one
\* of the windows of the code was hit: two opens that both allocated (108), a
\* close that saw the driver_data of another open (97, 154), or a handler that ran
\* while the last close deleted the timer (160). Nothing else leaves it on.
ClosedQuiet ==
  tinySeen \cap {"two", "mixed", "late"} = {} /\ ~InUse =>
    \A k \in Tinys : tiny[k].timer # "set" /\ tiny[k].handler = "idle"

\* The same windows are the only way to a character for a freed tty (tiny_tty.c:80).
TtyAlive == "stale" \in tinySeen => tinySeen \cap {"two", "mixed", "late"} # {}

\* Characters keep coming while the port is open (tiny_tty.c:85-87, 120-136): the
\* timer is set or its handler is about to set it, unless there was no timer.
CharactersCome ==
  \A p \in Procs : At(p, "open") /\ tinySeen \cap {"two", "mixed", "no timer"} = {} =>
    tiny[tinyProc[p].tiny].timer = "set" \/ tiny[tinyProc[p].tiny].handler # "idle"

\* The last close finds a timer to delete (tiny_tty.c:160), unless an open failed.
TimerThere == "crash" \in tinySeen => "no timer" \in tinySeen
=============================================================================

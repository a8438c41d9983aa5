------------------------------- MODULE Echo -------------------------------
(***************************************************************************)
(* lab2/echo/echo_lambidelas.c: one buffer and one counter for all files,  *)
(* without a lock. A write copies to the start of the buffer and then adds *)
(* to bc, also when the copy fails; a read chooses its count by bc, copies *)
(* from the start of the buffer and then subtracts. Of the contents it is  *)
(* kept which bytes have been written since the last open.                 *)
(***************************************************************************)
EXTENDS Integers, FiniteSets

CONSTANTS Procs,        \* processes that open, write and read the device
          BS,           \* size of the buffer, 20 in the source
          MaxBc         \* bound of bc, which nothing bounds in the source

VARIABLES echo,         \* [loaded; device: was cdev_add done; bc; fresh: bytes written since the open]
          echoProc,     \* [Procs -> the call it is in, its count, and whether others came between]
          echoSeen      \* history: what calls have met, and what came of it

vars == <<echo, echoProc, echoSeen>>

Out == [pc |-> "out", count |-> 0, disturbed |-> FALSE]

Init ==
  /\ echo = [loaded |-> FALSE, device |-> FALSE, bc |-> 0, fresh |-> {}]
  /\ echoProc = [p \in Procs |-> Out]
  /\ echoSeen = {}

At(p, l) == echoProc[p].pc = l
Saw(things) == echoSeen' = echoSeen \cup things
If(thing, holds) == IF holds THEN {thing} ELSE {}

\* p goes to l; the others that are in a call have been disturbed.
To(p, l, n) ==
  echoProc' = [q \in Procs |->
    IF q = p THEN [Out EXCEPT !.pc = l, !.count = n]
    ELSE [echoProc[q] EXCEPT !.disturbed = echoProc[q].pc \in {"write", "read"}]]

-----------------------------------------------------------------------------
\* When cdev_add fails res is still 0: the module stays, without a device.
Load ==
  /\ ~echo.loaded
  /\ \E device \in BOOLEAN : echo' = [echo EXCEPT !.loaded = TRUE, !.device = device]
  /\ UNCHANGED <<echoProc, echoSeen>>

Unload ==
  /\ echo.loaded
  /\ \A p \in Procs : At(p, "out")
  /\ echo' = [loaded |-> FALSE, device |-> FALSE, bc |-> 0, fresh |-> {}]
  /\ UNCHANGED <<echoProc, echoSeen>>

\* Mutant: the counter is left as it is.
DevOpenKeeps(p) ==
  /\ echo.device /\ At(p, "out")
  /\ echo' = [echo EXCEPT !.fresh = {}]
  /\ To(p, "open", 0)
  /\ UNCHANGED echoSeen

DevOpen(p) ==
  /\ echo.device /\ At(p, "out")
  /\ echo' = [echo EXCEPT !.bc = 0, !.fresh = {}]
  /\ To(p, "open", 0)
  /\ UNCHANGED echoSeen

DevRelease(p) ==
  /\ At(p, "open")
  /\ echo' = [echo EXCEPT !.bc = 0]
  /\ To(p, "out", 0)
  /\ UNCHANGED echoSeen

\* A count above BS is refused. The whole count is added whatever was copied.
DevWriteCopy(p) ==
  /\ At(p, "open")
  /\ \E count \in 1 .. BS, copied \in BOOLEAN :
       /\ echo.bc + count =< MaxBc
       /\ echo' = IF copied THEN [echo EXCEPT !.fresh = @ \cup 1 .. count] ELSE echo
       /\ Saw(If("unread", echo.bc # 0) \cup If("fault", ~copied))
       /\ To(p, "write", count)

DevWriteCount(p) ==
  /\ At(p, "write")
  /\ echo' = [echo EXCEPT !.bc = @ + echoProc[p].count]
  /\ Saw(If("raced", echoProc[p].disturbed))
  /\ To(p, "open", 0)

\* Mutant: what is there does not limit the count.
ChosenAll(count) == count

\* count is unsigned: a bc below 0 is above every count.
Chosen(count) == IF 0 =< echo.bc /\ echo.bc < count THEN echo.bc ELSE count

DevReadChoose(p) ==
  /\ At(p, "open")
  /\ \E count \in 1 .. 2 * BS :
       echoProc' = [echoProc EXCEPT ![p] = [Out EXCEPT !.pc = "read", !.count = Chosen(count)]]
  /\ Saw(If("raced", echo.bc < 0))
  /\ UNCHANGED echo

\* The call returns the bytes that could not be copied, 0 as a rule.
DevReadTake(p) ==
  LET c == echoProc[p].count
  IN  /\ At(p, "read") /\ echo.bc - c >= -BS
      /\ echo' = [echo EXCEPT !.bc = @ - c]
      /\ Saw(If("raced", echoProc[p].disturbed)
             \cup If("outside", c > BS)
             \cup If("old", ~(1 .. c \subseteq echo.fresh)))
      /\ To(p, "open", 0)

Step(p) ==
  \/ DevOpen(p) \/ DevRelease(p)
  \/ DevWriteCopy(p) \/ DevWriteCount(p)
  \/ DevReadChoose(p) \/ DevReadTake(p)

Next == Load \/ Unload \/ \E p \in Procs : Step(p)

Spec == Init /\ [][Next]_vars

-----------------------------------------------------------------------------
\* A read copies bytes beyond buf to the caller only after a write that came
\* before what was there had been read (bc then counts more than buf holds,
\* line 53), or where two calls ran at once (lines 53, 62-67).
ReadInside == "outside" \in echoSeen => "unread" \in echoSeen \/ "raced" \in echoSeen

\* A read returns bytes that nobody wrote since the device was opened only in
\* those cases, or after a write whose copy failed and was counted (lines 49-53).
ReadFresh ==
  "old" \in echoSeen => "unread" \in echoSeen \/ "raced" \in echoSeen \/ "fault" \in echoSeen
==========================================================================

------------------------------ MODULE SerpProofs ------------------------------
(***************************************************************************)
(* Theorems about Serp: for every set of processes, whichever of them read *)
(* and write at the same time, every byte count, 0 included, and whatever  *)
(* the transmitter is doing when the module is loaded.                     *)
(***************************************************************************)
EXTENDS Serp, TLAPS

(* A process about to touch its next byte has not reached its count, but   *)
(* that a read stores its first byte without a look at it; between calls   *)
(* the index is 0.                                                         *)
InCount == \A p \in Procs :
             /\ pc[p] = "w_out" => i[p] < count[p]
             /\ pc[p] \in {"r_test", "r_error", "r_byte"} => i[p] < count[p] \/ i[p] = 0
             /\ pc[p] \in {"closed", "user"} => i[p] = 0

(* Files are opened after the configuration only.                          *)
ConfiguredFirst == \A p \in Procs : pc[p] # "closed" => config = 7

IInv == TypeOK /\ InCount /\ ConfiguredFirst

(* The initial state satisfies the invariant.                              *)
LEMMA InitIInv == Init => IInv
<1> SUFFICES ASSUME Init PROVE IInv
  OBVIOUS
<1>1. thr \in BOOLEAN
  BY SerpAssumption DEF Init
<1>2. TypeOK
  <2>1. pc \in [Procs -> Labels] /\ rec \in [Procs -> {"x", "nl"}]
    BY DEF Init, Labels
  <2>2. /\ count \in [Procs -> Nat] /\ handed \in [Procs -> Nat]
        /\ i \in [Procs -> Nat]
        /\ \A p \in Procs : i[p] <= count[p] \/ (count[p] = 0 /\ i[p] = 1)
    BY DEF Init
  <2>3. /\ dr \in BOOLEAN /\ err \in BOOLEAN /\ format \in BOOLEAN
        /\ dlab \in BOOLEAN /\ ier \in BOOLEAN
        /\ tstate \in BOOLEAN /\ timer \in BOOLEAN
    BY Zenon DEF Init
  <2>4. /\ rbr \in {"x", "nl"} /\ divisor \subseteq {"DLL", "DLM"}
        /\ config \in 1..7
        /\ rbuf \in Procs \cup {NULL} /\ alive \subseteq Procs
        /\ nonblock \subseteq NonBlock /\ burst \subseteq Procs
        /\ shared \subseteq Procs /\ skipped \subseteq 1..6
    BY DEF Init
  <2> QED  BY <1>1, <2>1, <2>2, <2>3, <2>4 DEF TypeOK
<1> QED  BY <1>2 DEF Init, IInv, InCount, ConfiguredFirst

(* Every step preserves the types.                                         *)
LEMMA TypeStep == IInv /\ [Next]_vars => TypeOK'
<1> SUFFICES ASSUME IInv, [Next]_vars PROVE TypeOK'
  OBVIOUS
<1> USE DEF TypeOK, Labels, uart, setup, wait, heap, procs, locals, At, Goto, ReadLSR, kfree
<1>0. TypeOK /\ InCount
  BY DEF IInv
<1>1. ASSUME NEW p \in Procs, Open(p) PROVE TypeOK'
  BY <1>0, <1>1 DEF Open
<1>2. ASSUME NEW p \in Procs, Release(p) PROVE TypeOK'
  BY <1>0, <1>2 DEF Release
<1>3. ASSUME NEW p \in Procs, WriteTest(p) PROVE TypeOK'
  <2>1. pc' \in [Procs -> Labels]
    BY <1>0, <1>3 DEF WriteTest
  <2>2. i' \in [Procs -> Nat] /\ \A q \in Procs : i'[q] <= count[q] \/ (count[q] = 0 /\ i'[q] = 1)
    BY <1>0, <1>3 DEF WriteTest, InCount
  <2> QED  BY <1>0, <1>3, <2>1, <2>2 DEF WriteTest
<1>4. ASSUME NEW p \in Procs, WriteOut(p) PROVE TypeOK'
  <2>1. pc' \in [Procs -> Labels]
    BY <1>0, <1>4 DEF WriteOut
  <2>2. /\ i' \in [Procs -> Nat] /\ handed' \in [Procs -> Nat]
        /\ \A q \in Procs : i'[q] <= count[q] \/ (count[q] = 0 /\ i'[q] = 1)
    BY <1>0, <1>4 DEF WriteOut, InCount
  <2> QED  BY <1>0, <1>4, <2>1, <2>2 DEF WriteOut
<1>5. ASSUME NEW p \in Procs, WriteReturn(p) PROVE TypeOK'
  <2>1. pc' \in [Procs -> Labels] /\ rec' \in [Procs -> {"x", "nl"}]
    BY <1>0, <1>5 DEF WriteReturn, Return
  <2>2. /\ count' \in [Procs -> Nat] /\ handed' \in [Procs -> Nat]
        /\ i' \in [Procs -> Nat]
        /\ \A q \in Procs : i'[q] <= count'[q] \/ (count'[q] = 0 /\ i'[q] = 1)
    BY <1>0, <1>5 DEF WriteReturn, Return
  <2>3. shared' \subseteq Procs /\ alive' \subseteq Procs
    BY <1>0, <1>5 DEF WriteReturn, Return
  <2> QED  BY <1>0, <1>5, <2>1, <2>2, <2>3 DEF WriteReturn, Return
<1>6. ASSUME NEW p \in Procs, ReadTest(p) PROVE TypeOK'
  <2>1. pc' \in [Procs -> Labels] /\ rec' \in [Procs -> {"x", "nl"}]
    BY <1>0, <1>6 DEF ReadTest, Return
  <2>2. /\ count' \in [Procs -> Nat] /\ handed' \in [Procs -> Nat]
        /\ i' \in [Procs -> Nat]
        /\ \A q \in Procs : i'[q] <= count'[q] \/ (count'[q] = 0 /\ i'[q] = 1)
    BY <1>0, <1>6 DEF ReadTest, Return
  <2>3. shared' \subseteq Procs /\ alive' \subseteq Procs
    BY <1>0, <1>6 DEF ReadTest, Return
  <2> QED  BY <1>0, <1>6, <2>1, <2>2, <2>3 DEF ReadTest, Return
<1>7. ASSUME NEW p \in Procs, ReadError(p) PROVE TypeOK'
  <2>1. pc' \in [Procs -> Labels] /\ rec' \in [Procs -> {"x", "nl"}]
    BY <1>0, <1>7 DEF ReadError, Return
  <2>2. /\ count' \in [Procs -> Nat] /\ handed' \in [Procs -> Nat]
        /\ i' \in [Procs -> Nat]
        /\ \A q \in Procs : i'[q] <= count'[q] \/ (count'[q] = 0 /\ i'[q] = 1)
    BY <1>0, <1>7 DEF ReadError, Return
  <2>3. shared' \subseteq Procs /\ alive' \subseteq Procs
    BY <1>0, <1>7 DEF ReadError, Return
  <2> QED  BY <1>0, <1>7, <2>1, <2>2, <2>3 DEF ReadError, Return
<1>8. ASSUME NEW p \in Procs, ReadByte(p) PROVE TypeOK'
  <2>1. pc' \in [Procs -> Labels] /\ rec' \in [Procs -> {"x", "nl"}]
    BY <1>0, <1>8 DEF ReadByte
  <2>2. i' \in [Procs -> Nat] /\ \A q \in Procs : i'[q] <= count[q] \/ (count[q] = 0 /\ i'[q] = 1)
    BY <1>0, <1>8 DEF ReadByte, InCount
  <2> QED  BY <1>0, <1>8, <2>1, <2>2 DEF ReadByte
<1>9. ASSUME NEW p \in Procs, ReadLoop(p) PROVE TypeOK'
  BY <1>0, <1>9 DEF ReadLoop
<1>10. ASSUME NEW p \in Procs, ReadReturn(p) PROVE TypeOK'
  <2>1. pc' \in [Procs -> Labels] /\ rec' \in [Procs -> {"x", "nl"}]
    BY <1>0, <1>10 DEF ReadReturn, Return
  <2>2. /\ count' \in [Procs -> Nat] /\ handed' \in [Procs -> Nat]
        /\ i' \in [Procs -> Nat]
        /\ \A q \in Procs : i'[q] <= count'[q] \/ (count'[q] = 0 /\ i'[q] = 1)
    BY <1>0, <1>10 DEF ReadReturn, Return
  <2>3. shared' \subseteq Procs /\ alive' \subseteq Procs
    BY <1>0, <1>10 DEF ReadReturn, Return
  <2> QED  BY <1>0, <1>10, <2>1, <2>2, <2>3 DEF ReadReturn, Return
<1>11. ASSUME NEW p \in Procs, NEW n \in Counts, CallWrite(p, n) PROVE TypeOK'
  <2>1. pc' \in [Procs -> Labels] /\ count' \in [Procs -> Nat]
    BY <1>0, <1>11, SerpAssumption DEF CallWrite
  <2>2. \A q \in Procs : i[q] <= count'[q] \/ (count'[q] = 0 /\ i[q] = 1)
    BY <1>0, <1>11, SerpAssumption DEF CallWrite, InCount
  <2> QED  BY <1>0, <1>11, <2>1, <2>2 DEF CallWrite
<1>12. ASSUME NEW p \in Procs, NEW n \in Counts, CallRead(p, n) PROVE TypeOK'
  <2>1. pc' \in [Procs -> Labels] /\ count' \in [Procs -> Nat]
    BY <1>0, <1>12, SerpAssumption DEF CallRead
  <2>2. \A q \in Procs : i[q] <= count'[q] \/ (count'[q] = 0 /\ i[q] = 1)
    BY <1>0, <1>12, SerpAssumption DEF CallRead, InCount
  <2>3. shared' \subseteq Procs /\ rbuf' \in Procs \cup {NULL} /\ alive' \subseteq Procs
    BY <1>0, <1>12 DEF CallRead, OtherReads
  <2> QED  BY <1>0, <1>12, <2>1, <2>2, <2>3 DEF CallRead
<1>13. ASSUME NEW b \in {"x", "nl"}, Receive(b) PROVE TypeOK'
  BY <1>0, <1>13 DEF Receive
<1>14. CASE Transmit
  BY <1>0, <1>14 DEF Transmit
<1>15. CASE Configure
  <2>1. config \in 1..6 /\ config' = config + 1 /\ skipped' \subseteq skipped \cup {config}
    BY <1>0, <1>15 DEF Configure
  <2>2. /\ thr' \in BOOLEAN /\ format' \in BOOLEAN /\ dlab' \in BOOLEAN
        /\ ier' \in BOOLEAN /\ divisor' \subseteq {"DLL", "DLM"}
    BY <1>0, <1>15 DEF Configure, Write, SetIER, SetLCR, SetLatch, SendByte
  <2>3. config' \in 1..7 /\ skipped' \subseteq 1..6
    BY <1>0, <2>1
  <2> QED  BY <1>0, <1>15, <2>2, <2>3 DEF Configure
<1>16. CASE TimerEnd
  BY <1>0, <1>16 DEF TimerEnd
<1>17. CASE UNCHANGED vars
  BY <1>0, <1>17 DEF vars
<1> QED
  BY <1>1, <1>2, <1>3, <1>4, <1>5, <1>6, <1>7, <1>8, <1>9, <1>10, <1>11,
     <1>12, <1>13, <1>14, <1>15, <1>16, <1>17
  DEF Next, Driver, Call, Line

(* Every step keeps the indices below the counts.                          *)
LEMMA CountStep == IInv /\ [Next]_vars => InCount'
<1> SUFFICES ASSUME IInv, [Next]_vars PROVE InCount'
  OBVIOUS
<1> USE DEF InCount, uart, setup, wait, heap, procs, locals, At, Goto, ReadLSR, kfree
<1>0. /\ pc \in [Procs -> Labels] /\ i \in [Procs -> Nat] /\ count \in [Procs -> Nat]
      /\ \A p \in Procs : i[p] <= count[p] \/ (count[p] = 0 /\ i[p] = 1)
      /\ InCount
  BY DEF IInv, TypeOK
<1>1. ASSUME NEW p \in Procs, Open(p) PROVE InCount'
  BY <1>0, <1>1 DEF Open
<1>2. ASSUME NEW p \in Procs, Release(p) PROVE InCount'
  BY <1>0, <1>2 DEF Release
<1>3. ASSUME NEW p \in Procs, WriteTest(p) PROVE InCount'
  BY <1>0, <1>3 DEF WriteTest
<1>4. ASSUME NEW p \in Procs, WriteOut(p) PROVE InCount'
  BY <1>0, <1>4 DEF WriteOut
<1>5. ASSUME NEW p \in Procs, WriteReturn(p) PROVE InCount'
  BY <1>0, <1>5 DEF WriteReturn, Return
<1>6. ASSUME NEW p \in Procs, ReadTest(p) PROVE InCount'
  BY <1>0, <1>6 DEF ReadTest, Return
<1>7. ASSUME NEW p \in Procs, ReadError(p) PROVE InCount'
  BY <1>0, <1>7 DEF ReadError, Return
<1>8. ASSUME NEW p \in Procs, ReadByte(p) PROVE InCount'
  BY <1>0, <1>8 DEF ReadByte
<1>9. ASSUME NEW p \in Procs, ReadLoop(p) PROVE InCount'
  BY <1>0, <1>9 DEF ReadLoop, ReadAgain
<1>10. ASSUME NEW p \in Procs, ReadReturn(p) PROVE InCount'
  BY <1>0, <1>10 DEF ReadReturn, Return
<1>11. ASSUME NEW p \in Procs, NEW n \in Counts, CallWrite(p, n) PROVE InCount'
  BY <1>0, <1>11, SerpAssumption DEF CallWrite
<1>12. ASSUME NEW p \in Procs, NEW n \in Counts, CallRead(p, n) PROVE InCount'
  BY <1>0, <1>12, SerpAssumption DEF CallRead
<1>13. ASSUME NEW b \in {"x", "nl"}, Receive(b) PROVE InCount'
  BY <1>0, <1>13 DEF Receive
<1>14. CASE Transmit
  BY <1>0, <1>14 DEF Transmit
<1>15. CASE Configure
  BY <1>0, <1>15 DEF Configure
<1>16. CASE TimerEnd
  BY <1>0, <1>16 DEF TimerEnd
<1>17. CASE UNCHANGED vars
  BY <1>0, <1>17 DEF vars
<1> QED
  BY <1>1, <1>2, <1>3, <1>4, <1>5, <1>6, <1>7, <1>8, <1>9, <1>10, <1>11,
     <1>12, <1>13, <1>14, <1>15, <1>16, <1>17
  DEF Next, Driver, Call, Line

(* Every step keeps the files closed until the configuration is over.      *)
LEMMA ConfigStep == IInv /\ [Next]_vars => ConfiguredFirst'
<1> SUFFICES ASSUME IInv, [Next]_vars PROVE ConfiguredFirst'
  OBVIOUS
<1> USE DEF ConfiguredFirst, uart, setup, wait, heap, procs, locals, At, Goto, ReadLSR, kfree
<1>0. pc \in [Procs -> Labels] /\ ConfiguredFirst
  BY DEF IInv, TypeOK
<1>1. ASSUME NEW p \in Procs, Open(p) PROVE ConfiguredFirst'
  BY <1>0, <1>1 DEF Open
<1>2. ASSUME NEW p \in Procs, Release(p) PROVE ConfiguredFirst'
  BY <1>0, <1>2 DEF Release
<1>3. ASSUME NEW p \in Procs, WriteTest(p) PROVE ConfiguredFirst'
  BY <1>0, <1>3 DEF WriteTest
<1>4. ASSUME NEW p \in Procs, WriteOut(p) PROVE ConfiguredFirst'
  BY <1>0, <1>4 DEF WriteOut
<1>5. ASSUME NEW p \in Procs, WriteReturn(p) PROVE ConfiguredFirst'
  BY <1>0, <1>5 DEF WriteReturn, Return
<1>6. ASSUME NEW p \in Procs, ReadTest(p) PROVE ConfiguredFirst'
  BY <1>0, <1>6 DEF ReadTest, Return
<1>7. ASSUME NEW p \in Procs, ReadError(p) PROVE ConfiguredFirst'
  BY <1>0, <1>7 DEF ReadError, Return
<1>8. ASSUME NEW p \in Procs, ReadByte(p) PROVE ConfiguredFirst'
  BY <1>0, <1>8 DEF ReadByte
<1>9. ASSUME NEW p \in Procs, ReadLoop(p) PROVE ConfiguredFirst'
  BY <1>0, <1>9 DEF ReadLoop
<1>10. ASSUME NEW p \in Procs, ReadReturn(p) PROVE ConfiguredFirst'
  BY <1>0, <1>10 DEF ReadReturn, Return
<1>11. ASSUME NEW p \in Procs, NEW n \in Counts, CallWrite(p, n) PROVE ConfiguredFirst'
  BY <1>0, <1>11 DEF CallWrite
<1>12. ASSUME NEW p \in Procs, NEW n \in Counts, CallRead(p, n) PROVE ConfiguredFirst'
  BY <1>0, <1>12 DEF CallRead
<1>13. ASSUME NEW b \in {"x", "nl"}, Receive(b) PROVE ConfiguredFirst'
  BY <1>0, <1>13 DEF Receive
<1>14. CASE Transmit
  BY <1>0, <1>14 DEF Transmit
<1>15. CASE Configure
  BY <1>0, <1>15 DEF Configure
<1>16. CASE TimerEnd
  BY <1>0, <1>16 DEF TimerEnd
<1>17. CASE UNCHANGED vars
  BY <1>0, <1>17 DEF vars
<1> QED
  BY <1>1, <1>2, <1>3, <1>4, <1>5, <1>6, <1>7, <1>8, <1>9, <1>10, <1>11,
     <1>12, <1>13, <1>14, <1>15, <1>16, <1>17
  DEF Next, Driver, Call, Line

(* The parts of the invariant hold in every reachable state.               *)
THEOREM Invariance == Spec => []IInv
<1>1. IInv /\ [Next]_vars => IInv'
  BY TypeStep, CountStep, ConfigStep DEF IInv
<1> QED  BY InitIInv, <1>1, PTL DEF Spec

(* Every variable has its type; no index of a read or a write passes its   *)
(* count, but that a read of no bytes stores one.                          *)
THEOREM TypeCorrect == Spec => []TypeOK
<1>1. IInv => TypeOK
  BY DEF IInv
<1> QED  BY Invariance, <1>1, PTL

----------------------------------------------------------------------------
(* An empty transmitter starts a new round.  Who tested it and has yet to  *)
(* send has not sent in this round; if the transmitter is full again, one  *)
(* who has did it.                                                         *)
Rounds == /\ ~thr => burst = {}
          /\ \A p \in Procs : At(p, "w_out") => p \notin burst /\ (thr => burst # {})

(* Every step keeps the rounds.                                            *)
LEMMA RoundStep == IInv /\ Rounds /\ [Next]_vars => Rounds'
<1> SUFFICES ASSUME IInv /\ Rounds, [Next]_vars PROVE Rounds'
  OBVIOUS
<1> USE DEF Rounds, THRE, uart, setup, wait, heap, procs, locals, At, Goto, ReadLSR, kfree
<1>0. pc \in [Procs -> Labels] /\ Rounds /\ ConfiguredFirst
  BY DEF IInv, TypeOK
<1>1. ASSUME NEW p \in Procs, Open(p) PROVE Rounds'
  BY <1>0, <1>1 DEF Open
<1>2. ASSUME NEW p \in Procs, Release(p) PROVE Rounds'
  BY <1>0, <1>2 DEF Release
<1>3. ASSUME NEW p \in Procs, WriteTest(p) PROVE Rounds'
  BY <1>0, <1>3 DEF WriteTest
<1>4. ASSUME NEW p \in Procs, WriteOut(p) PROVE Rounds'
  BY <1>0, <1>4 DEF WriteOut
<1>5. ASSUME NEW p \in Procs, WriteReturn(p) PROVE Rounds'
  BY <1>0, <1>5 DEF WriteReturn, Return
<1>6. ASSUME NEW p \in Procs, ReadTest(p) PROVE Rounds'
  BY <1>0, <1>6 DEF ReadTest, Return
<1>7. ASSUME NEW p \in Procs, ReadError(p) PROVE Rounds'
  BY <1>0, <1>7 DEF ReadError, Return
<1>8. ASSUME NEW p \in Procs, ReadByte(p) PROVE Rounds'
  BY <1>0, <1>8 DEF ReadByte
<1>9. ASSUME NEW p \in Procs, ReadLoop(p) PROVE Rounds'
  BY <1>0, <1>9 DEF ReadLoop
<1>10. ASSUME NEW p \in Procs, ReadReturn(p) PROVE Rounds'
  BY <1>0, <1>10 DEF ReadReturn, Return
<1>11. ASSUME NEW p \in Procs, NEW n \in Counts, CallWrite(p, n) PROVE Rounds'
  BY <1>0, <1>11 DEF CallWrite
<1>12. ASSUME NEW p \in Procs, NEW n \in Counts, CallRead(p, n) PROVE Rounds'
  BY <1>0, <1>12 DEF CallRead
<1>13. ASSUME NEW b \in {"x", "nl"}, Receive(b) PROVE Rounds'
  BY <1>0, <1>13 DEF Receive
<1>14. CASE Transmit
  BY <1>0, <1>14 DEF Transmit
<1>15. CASE Configure
  <2>1. \A p \in Procs : ~At(p, "w_out")
    BY <1>0, <1>15 DEF Configure, ConfiguredFirst
  <2>2. ~thr' => ~thr
    BY <1>0, <1>15 DEF Configure, Write, SetIER, SetLCR, SetLatch, SendByte
  <2> QED  BY <1>0, <1>15, <2>1, <2>2 DEF Configure
<1>16. CASE TimerEnd
  BY <1>0, <1>16 DEF TimerEnd
<1>17. CASE UNCHANGED vars
  BY <1>0, <1>17 DEF vars
<1> QED
  BY <1>1, <1>2, <1>3, <1>4, <1>5, <1>6, <1>7, <1>8, <1>9, <1>10, <1>11,
     <1>12, <1>13, <1>14, <1>15, <1>16, <1>17
  DEF Next, Driver, Call, Line

(* However many processes write at once, and whatever is in the            *)
(* transmitter when they start: between two bytes that leave each of them  *)
(* sends at most one, so none overwrites its own byte, and a byte is only  *)
(* overwritten by a process that tested THRE before that byte was sent.    *)
THEOREM SendersTakeTurns == Spec => NoOverwrite
<1>1. Init => Rounds
  BY DEF Init, Rounds, At
<1>2. IInv /\ Rounds /\ [Next]_vars => Rounds'
  BY RoundStep
<1>3. Rounds /\ [Next]_vars
        => [\A p \in Procs : WriteOut(p) => p \notin burst /\ (thr => burst # {})]_vars
  BY DEF Rounds, WriteOut
<1> QED  BY Invariance, <1>1, <1>2, <1>3, PTL DEF Spec, NoOverwrite

----------------------------------------------------------------------------
(* A read that overlaps no other is the only one.                          *)
Alone == \A p, q \in Procs : Reading(p) /\ Reading(q) /\ p \notin shared => p = q

(* Every step keeps a read that overlaps no other in possession.           *)
LEMMA BufferStep == IInv /\ Alone /\ BufferOwned /\ [Next]_vars => (Alone /\ BufferOwned)'
<1> SUFFICES ASSUME IInv /\ Alone /\ BufferOwned, [Next]_vars PROVE (Alone /\ BufferOwned)'
  OBVIOUS
<1> USE DEF Alone, Reading, BufferOwned, uart, setup, wait, heap, procs, locals, At, Goto, ReadLSR, kfree
<1>0. pc \in [Procs -> Labels] /\ i \in [Procs -> Nat] /\ alive \subseteq Procs /\ Alone /\ BufferOwned
  BY DEF IInv, TypeOK
<1>1. ASSUME NEW p \in Procs, Open(p) PROVE (Alone /\ BufferOwned)'
  BY <1>0, <1>1 DEF Open
<1>2. ASSUME NEW p \in Procs, Release(p) PROVE (Alone /\ BufferOwned)'
  BY <1>0, <1>2 DEF Release
<1>3. ASSUME NEW p \in Procs, WriteTest(p) PROVE (Alone /\ BufferOwned)'
  BY <1>0, <1>3 DEF WriteTest
<1>4. ASSUME NEW p \in Procs, WriteOut(p) PROVE (Alone /\ BufferOwned)'
  BY <1>0, <1>4 DEF WriteOut
<1>5. ASSUME NEW p \in Procs, WriteReturn(p) PROVE (Alone /\ BufferOwned)'
  BY <1>0, <1>5 DEF WriteReturn, Return
<1>6. ASSUME NEW p \in Procs, ReadTest(p) PROVE (Alone /\ BufferOwned)'
  BY <1>0, <1>6 DEF ReadTest, Return
<1>7. ASSUME NEW p \in Procs, ReadError(p) PROVE (Alone /\ BufferOwned)'
  <2>1. ~err /\ pc[p] = "r_error" => i[p] <= count[p]
    BY DEF IInv, TypeOK, InCount
  <2> QED  BY <1>0, <1>7, <2>1 DEF ReadError, Return
<1>8. ASSUME NEW p \in Procs, ReadByte(p) PROVE (Alone /\ BufferOwned)'
  BY <1>0, <1>8 DEF ReadByte
<1>9. ASSUME NEW p \in Procs, ReadLoop(p) PROVE (Alone /\ BufferOwned)'
  BY <1>0, <1>9 DEF ReadLoop
<1>10. ASSUME NEW p \in Procs, ReadReturn(p) PROVE (Alone /\ BufferOwned)'
  BY <1>0, <1>10 DEF ReadReturn, Return
<1>11. ASSUME NEW p \in Procs, NEW n \in Counts, CallWrite(p, n) PROVE (Alone /\ BufferOwned)'
  BY <1>0, <1>11 DEF CallWrite
<1>12. ASSUME NEW p \in Procs, NEW n \in Counts, CallRead(p, n) PROVE (Alone /\ BufferOwned)'
  <2>1. \A q \in Procs \ {p} : q \notin shared' => ~Reading(q)
    BY <1>0, <1>12 DEF CallRead, OtherReads
  <2>2. p \notin shared' => \A q \in Procs \ {p} : ~Reading(q)
    BY <1>0, <1>12 DEF CallRead, OtherReads
  <2>3. pc' = [pc EXCEPT ![p] = "r_test"] /\ rbuf' = p /\ alive' = alive \cup {p}
    BY <1>12 DEF CallRead
  <2>4. Alone'
    BY <1>0, <2>1, <2>2, <2>3
  <2>5. BufferOwned'
    BY <1>0, <2>1, <2>3
  <2> QED  BY <2>4, <2>5
<1>13. ASSUME NEW b \in {"x", "nl"}, Receive(b) PROVE (Alone /\ BufferOwned)'
  BY <1>0, <1>13 DEF Receive
<1>14. CASE Transmit
  BY <1>0, <1>14 DEF Transmit
<1>15. CASE Configure
  BY <1>0, <1>15 DEF Configure
<1>16. CASE TimerEnd
  BY <1>0, <1>16 DEF TimerEnd
<1>17. CASE UNCHANGED vars
  BY <1>0, <1>17 DEF vars
<1> QED
  BY <1>1, <1>2, <1>3, <1>4, <1>5, <1>6, <1>7, <1>8, <1>9, <1>10, <1>11,
     <1>12, <1>13, <1>14, <1>15, <1>16, <1>17
  DEF Next, Driver, Call, Line

(* A read that no other overlaps keeps the buffer it allocated until it    *)
(* returns and stores within it, beside any number of writers, and         *)
(* whatever earlier reads that did overlap have done to rbuf.              *)
THEOREM ReadOwnsBuffer == Spec => []BufferOwned
<1>1. Init => Alone /\ BufferOwned
  BY DEF Init, Alone, Reading, BufferOwned
<1>2. IInv /\ Alone /\ BufferOwned /\ [Next]_vars => Alone' /\ BufferOwned'
  BY BufferStep
<1> QED  BY Invariance, <1>1, <1>2, PTL DEF Spec

----------------------------------------------------------------------------
(* What config_uart_dev has reached, whichever of its writes it skipped.   *)
(* Once DLAB is set the transmitter stays empty, so nothing more is        *)
(* skipped; while it is not set, the latch is out of reach.                *)
Progress == /\ \A k \in skipped : k < config
            /\ config > 1 /\ 1 \notin skipped => ~ier
            /\ config > 2 /\ 2 \notin skipped => format
            /\ config > 3 /\ 3 \notin skipped => format
            /\ config > 6 /\ 6 \notin skipped => format
            /\ config \in 4..6 => (dlab <=> 3 \notin skipped)
            /\ config \notin 4..6 => ~dlab
            /\ config <= 4 \/ 3 \in skipped => divisor = {}
            /\ config > 3 /\ 3 \notin skipped =>
                 /\ config < 7 => ~thr
                 /\ \A k \in skipped : k < 3
                 /\ config > 4 => "DLL" \in divisor
                 /\ config > 5 => "DLM" \in divisor

(* No write but those of config_uart_dev touches the set-up.               *)
LEMMA ProgressStep == IInv /\ Progress /\ [Next]_vars => Progress'
<1> SUFFICES ASSUME IInv /\ Progress, [Next]_vars PROVE Progress'
  OBVIOUS
<1> USE DEF Progress, uart, setup, wait, heap, procs, locals, At, Goto, ReadLSR, kfree
<1>0. /\ config \in 1..7 /\ skipped \subseteq 1..6 /\ pc \in [Procs -> Labels]
      /\ Progress /\ ConfiguredFirst
  BY DEF IInv, TypeOK
<1>1. ASSUME NEW p \in Procs, Open(p) PROVE Progress'
  BY <1>0, <1>1 DEF Open
<1>2. ASSUME NEW p \in Procs, Release(p) PROVE Progress'
  BY <1>0, <1>2 DEF Release
<1>3. ASSUME NEW p \in Procs, WriteTest(p) PROVE Progress'
  BY <1>0, <1>3 DEF WriteTest
<1>4. ASSUME NEW p \in Procs, WriteOut(p) PROVE Progress'
  BY <1>0, <1>4 DEF WriteOut, ConfiguredFirst
<1>5. ASSUME NEW p \in Procs, WriteReturn(p) PROVE Progress'
  BY <1>0, <1>5 DEF WriteReturn, Return
<1>6. ASSUME NEW p \in Procs, ReadTest(p) PROVE Progress'
  BY <1>0, <1>6 DEF ReadTest, Return
<1>7. ASSUME NEW p \in Procs, ReadError(p) PROVE Progress'
  BY <1>0, <1>7 DEF ReadError, Return
<1>8. ASSUME NEW p \in Procs, ReadByte(p) PROVE Progress'
  BY <1>0, <1>8 DEF ReadByte
<1>9. ASSUME NEW p \in Procs, ReadLoop(p) PROVE Progress'
  BY <1>0, <1>9 DEF ReadLoop
<1>10. ASSUME NEW p \in Procs, ReadReturn(p) PROVE Progress'
  BY <1>0, <1>10 DEF ReadReturn, Return
<1>11. ASSUME NEW p \in Procs, NEW n \in Counts, CallWrite(p, n) PROVE Progress'
  BY <1>0, <1>11 DEF CallWrite
<1>12. ASSUME NEW p \in Procs, NEW n \in Counts, CallRead(p, n) PROVE Progress'
  BY <1>0, <1>12 DEF CallRead
<1>13. ASSUME NEW b \in {"x", "nl"}, Receive(b) PROVE Progress'
  BY <1>0, <1>13 DEF Receive
<1>14. CASE Transmit
  BY <1>0, <1>14 DEF Transmit
<1>15. CASE Configure
  <2>1. config \in 1..6 /\ config' = config + 1
    BY <1>0, <1>15 DEF Configure
  <2>2. CASE ~thr /\ Write(config) /\ skipped' = skipped
    <3>1. CASE config = 1
      BY <1>0, <2>1, <2>2, <3>1 DEF Write, SetIER
    <3>2. CASE config = 2
      BY <1>0, <2>1, <2>2, <3>2 DEF Write, SetLCR
    <3>3. CASE config = 3
      BY <1>0, <2>1, <2>2, <3>3 DEF Write, SetLCR
    <3>4. CASE config = 4
      BY <1>0, <2>1, <2>2, <3>4 DEF Write, SetLatch, SendByte
    <3>5. CASE config = 5
      BY <1>0, <2>1, <2>2, <3>5 DEF Write, SetLatch, SetIER
    <3>6. CASE config = 6
      BY <1>0, <2>1, <2>2, <3>6 DEF Write, SetLCR
    <3> QED  BY <2>1, <3>1, <3>2, <3>3, <3>4, <3>5, <3>6
  <2>3. CASE thr /\ skipped' = skipped \cup {config} /\ UNCHANGED <<thr, format, dlab, divisor, ier>>
    <3>1. CASE config = 1
      BY <1>0, <2>1, <2>3, <3>1
    <3>2. CASE config = 2
      BY <1>0, <2>1, <2>3, <3>2
    <3>3. CASE config = 3
      BY <1>0, <2>1, <2>3, <3>3
    <3>4. CASE config = 4
      BY <1>0, <2>1, <2>3, <3>4
    <3>5. CASE config = 5
      BY <1>0, <2>1, <2>3, <3>5
    <3>6. CASE config = 6
      BY <1>0, <2>1, <2>3, <3>6
    <3> QED  BY <2>1, <3>1, <3>2, <3>3, <3>4, <3>5, <3>6
  <2> QED  BY <1>0, <1>15, <2>2, <2>3 DEF Configure, THRE
<1>16. CASE TimerEnd
  BY <1>0, <1>16 DEF TimerEnd
<1>17. CASE UNCHANGED vars
  BY <1>0, <1>17 DEF vars
<1> QED
  BY <1>1, <1>2, <1>3, <1>4, <1>5, <1>6, <1>7, <1>8, <1>9, <1>10, <1>11,
     <1>12, <1>13, <1>14, <1>15, <1>16, <1>17
  DEF Next, Driver, Call, Line

(* Whatever the transmitter is doing at load: no file is opened with the   *)
(* divisor latch open, the divisor is written whole or not at all, and     *)
(* interrupts and format miss their value only by a write that was skipped.*)
THEOREM ConfigurationReached == Spec => []Configured
<1>1. Init => Progress
  BY DEF Init, Progress
<1>2. IInv /\ Progress /\ [Next]_vars => Progress'
  BY ProgressStep
<1>3. IInv /\ Progress => Configured
  <2> SUFFICES ASSUME IInv, Progress, config = 7
               PROVE  /\ ~dlab
                      /\ IF 3 \in skipped THEN divisor = {}
                         ELSE divisor = {"DLL", "DLM"} /\ skipped \subseteq {1, 2}
                      /\ 1 \notin skipped => ~ier
                      /\ ~({2, 3, 6} \subseteq skipped) => format
    BY DEF Configured
  <2>1. ~dlab /\ (3 \in skipped => divisor = {}) /\ (1 \notin skipped => ~ier)
    BY DEF Progress
  <2>2. ~({2, 3, 6} \subseteq skipped) => format
    BY DEF Progress
  <2>3. ASSUME 3 \notin skipped PROVE divisor = {"DLL", "DLM"} /\ skipped \subseteq {1, 2}
    <3>1. "DLL" \in divisor /\ "DLM" \in divisor /\ \A k \in skipped : k < 3
      BY <2>3 DEF Progress
    <3>2. divisor \subseteq {"DLL", "DLM"} /\ skipped \subseteq 1..6
      BY DEF IInv, TypeOK
    <3>3. divisor = {"DLL", "DLM"}
      BY <3>1, <3>2
    <3>4. skipped \subseteq {1, 2}
      BY <3>1, <3>2
    <3> QED  BY <3>3, <3>4
  <2> QED  BY <2>1, <2>2, <2>3
<1> QED  BY Invariance, <1>1, <1>2, <1>3, PTL DEF Spec

(* Both halves of the invariant the run checks: the fields keep their      *)
(* types and the indices their bounds, and the UART is set up but for the  *)
(* writes that were skipped.                                               *)
THEOREM InvariantKept == Spec => []Inv
<1>1. TypeOK /\ Configured => Inv
  BY DEF Inv
<1> QED  BY TypeCorrect, ConfigurationReached, <1>1, PTL
===============================================================================

--------------------------- MODULE ShortPrintProofs ---------------------------
(***************************************************************************)
(* Theorems about ShortPrint, for every set of processes, every size of    *)
(* the page and every byte count, with lost interrupts, signals and        *)
(* unloading.                                                              *)
(***************************************************************************)
EXTENDS ShortPrint, RingTheorems, FiniteSetTheorems, TLAPS

(* The semaphore admits one write at a time.                               *)
Lock == /\ sem \in {0, 1}
        /\ \A p, q \in Holders : p = q
        /\ sem = 0 <=> Holders # {}

(* The module is not unloaded under an open file, and the work thread gets *)
(* past its wait only while the printer is ready.                          *)
ClosedAtUnload == module # "loaded" => \A p \in Procs : At(p, "closed")
LockedReady    == worker = "locked" => ~busy

IInv == /\ TypeOK /\ Lock /\ ClosedAtUnload /\ LockedReady
        /\ OutputNeverStalls /\ StoredIsActive /\ SleepersWaitForOutput

(* What the assumptions say of the numbers.                                *)
LEMMA Numbers == /\ PageSize \in Nat /\ PageSize >= 4
                 /\ Modulus \in Nat /\ Modulus > 0
                 /\ \A n \in Counts : n \in Nat /\ n > 0
  BY PrintAssumption

(* The free space that WakeWriters and the sleepers talk about.            *)
LEMMA FreeSpace ==
  ASSUME NEW h \in 0..PageSize - 1, NEW t \in 0..PageSize - 1
  PROVE  (PageSize + t - h) % PageSize = IF t >= h THEN t - h ELSE PageSize + t - h
<1>1. PageSize \in Nat /\ PageSize >= 4
  BY Numbers
<1>2. CASE t >= h
  <2> DEFINE d == t - h
  <2>1. d \in 0..PageSize - 1 /\ PageSize + t - h = d + PageSize
    BY <1>1, <1>2
  <2>2. (d + PageSize) % PageSize = d
    BY <1>1, <2>1
  <2> QED  BY <1>2, <2>1, <2>2
<1>3. CASE t < h
  BY <1>1, <1>3
<1> QED  BY <1>1, <1>2, <1>3

(* Half of a page leaves room for the byte kept free.                      *)
LEMMA MinSpaceRange == MinSpace \in Nat /\ 1 <= MinSpace /\ MinSpace + 1 < PageSize
  BY Numbers DEF MinSpace

(* What a write stores at once stays inside the page.                      *)
LEMMA FillRange ==
  ASSUME TypeOK, NEW n \in Nat, n > 0, space > 0
  PROVE  /\ min(space, n) \in 1..PageSize - head
         /\ incr(head, min(space, n)) \in 0..PageSize - 1
         /\ min(space, n) <= n
<1>1. space \in 1..PageSize - head
  BY Numbers DEF TypeOK, space
<1> QED  BY <1>1, Numbers DEF TypeOK, min, incr

(* A step of the tail stays inside the page.                               *)
LEMMA IncrTail == TypeOK => /\ incr(tail, 1) \in 0..PageSize - 1
                            /\ incr(tail, 1) = IF tail = PageSize - 1 THEN 0 ELSE tail + 1
  BY Numbers DEF TypeOK, incr

(* The initial state satisfies the invariant.                              *)
LEMMA InitIInv == Init => IInv
<1> SUFFICES ASSUME Init PROVE IInv
  OBVIOUS
<1>1. TypeOK
  <2>1. 0 \in 0..PageSize - 1 /\ 0 \in 0..Modulus - 1
    BY Numbers
  <2>2. mem \in [0..PageSize - 1 -> 0..Modulus - 1]
    BY <2>1 DEF Init
  <2>3. pc \in [Procs -> Labels] /\ left \in [Procs -> Nat]
    BY DEF Init, Labels
  <2> QED  BY <2>1, <2>2, <2>3 DEF Init, TypeOK
<1>2. Lock
  BY DEF Init, Lock, Holders
<1>3. ClosedAtUnload /\ LockedReady /\ OutputNeverStalls
  BY DEF Init, ClosedAtUnload, LockedReady, OutputNeverStalls
<1>4. StoredIsActive /\ SleepersWaitForOutput
  BY DEF Init, StoredIsActive, SleepersWaitForOutput
<1> QED  BY <1>1, <1>2, <1>3, <1>4 DEF IInv

(* Every step preserves the types.                                         *)
LEMMA TypeStep == IInv /\ [Next]_vars => TypeOK'
<1> SUFFICES ASSUME IInv, [Next]_vars PROVE TypeOK'
  OBVIOUS
<1> USE DEF TypeOK, Labels, buffer, output, queues, printer, users, At, Goto, Leave
<1>0. TypeOK /\ Lock
  BY DEF IInv, TypeOK
<1>1. ASSUME NEW p \in Procs, CallOpen(p) PROVE TypeOK'
  BY <1>0, <1>1 DEF CallOpen
<1>2. ASSUME NEW p \in Procs, CallRelease(p) PROVE TypeOK'
  BY <1>0, <1>2 DEF CallRelease
<1>3. ASSUME NEW p \in Procs, Signal(p) PROVE TypeOK'
  BY <1>0, <1>3 DEF Signal
<1>4. ASSUME NEW p \in Procs, Down(p) PROVE TypeOK'
  BY <1>0, <1>4 DEF Down, Lock
<1>5. ASSUME NEW p \in Procs, WriteEnd(p) PROVE TypeOK'
  BY <1>0, <1>5 DEF WriteEnd
<1>6. ASSUME NEW p \in Procs, WriteFill(p) PROVE TypeOK'
  <2> DEFINE k == min(space, left[p])
  <2>1. k \in 1..PageSize - head /\ incr(head, k) \in 0..PageSize - 1 /\ k <= left[p]
    BY <1>0, <1>6, FillRange DEF WriteFill
  <2>2. /\ head' = incr(head, k)
        /\ sent' = (sent + k) % Modulus
        /\ left' = [left EXCEPT ![p] = left[p] - k]
        /\ mem' = [i \in DOMAIN mem |->
                     IF i \in head..head + k - 1 THEN (sent + i - head) % Modulus
                     ELSE mem[i]]
    BY <1>6 DEF WriteFill
  <2> HIDE DEF k
  <2>3. sent' \in 0..Modulus - 1
    <3> DEFINE x == sent + k
    <3>1. x \in Int
      BY <1>0, <2>1, Numbers
    <3> HIDE DEF x
    <3>2. x % Modulus \in 0..Modulus - 1
      BY <3>1, Numbers
    <3> QED  BY <2>2, <3>2 DEF x
  <2>4. mem' \in [0..PageSize - 1 -> 0..Modulus - 1]
    <3>1. ASSUME NEW i \in 0..PageSize - 1
          PROVE  (sent + i - head) % Modulus \in 0..Modulus - 1
      <4> DEFINE x == sent + i - head
      <4>1. x \in Int
        BY <1>0, Numbers
      <4> HIDE DEF x
      <4>2. x % Modulus \in 0..Modulus - 1
        BY <4>1, Numbers
      <4> QED  BY <4>2 DEF x
    <3> QED  BY <1>0, <2>2, <3>1
  <2>5. left' \in [Procs -> Nat]
    BY <1>0, <2>1, <2>2, Numbers
  <2>6. pc' \in [Procs -> Labels]
    BY <1>0, <1>6 DEF WriteFill
  <2> QED  BY <1>0, <1>6, <2>1, <2>2, <2>3, <2>4, <2>5, <2>6 DEF WriteFill
<1>7. ASSUME NEW p \in Procs, WriteStart(p) PROVE TypeOK'
  BY <1>0, <1>7, Zenon DEF WriteStart
<1>8. ASSUME NEW p \in Procs, WritePrepare(p) PROVE TypeOK'
  BY <1>0, <1>8 DEF WritePrepare
<1>9. ASSUME NEW p \in Procs, WriteCheck(p) PROVE TypeOK'
  BY <1>0, <1>9 DEF WriteCheck
<1>10. ASSUME NEW p \in Procs, WriteWoken(p) PROVE TypeOK'
  BY <1>0, <1>10 DEF WriteWoken
<1>11. ASSUME NEW p \in Procs, ReleasePrepare(p) PROVE TypeOK'
  BY <1>0, <1>11 DEF ReleasePrepare
<1>12. ASSUME NEW p \in Procs, ReleaseCheck(p) PROVE TypeOK'
  BY <1>0, <1>12 DEF ReleaseCheck
<1>13. ASSUME NEW p \in Procs, ReleaseWoken(p) PROVE TypeOK'
  BY <1>0, <1>13 DEF ReleaseWoken
<1>14. ASSUME NEW p \in Procs, NEW n \in Counts, CallWrite(p, n) PROVE TypeOK'
  <2>1. n \in Nat
    BY Numbers
  <2> QED  BY <1>0, <1>14, <2>1 DEF CallWrite
<1>15. CASE WorkBegin
  BY <1>0, <1>15 DEF WorkBegin
<1>16. CASE WorkReady
  BY <1>0, <1>16 DEF WorkReady
<1>17. CASE WorkEmpty
  BY <1>0, <1>17 DEF WorkEmpty, WakeWriters
<1>18. CASE WorkStrobe
  <2>1. tail' \in 0..PageSize - 1
    BY <1>0, <1>18, IncrTail DEF WorkStrobe
  <2>2. outq' \subseteq Procs
    BY <1>0, <1>18 DEF WorkStrobe, WakeWriters
  <2>3. printed' \in {<<x>> : x \in 0..Modulus - 1}
    BY <1>0, <1>18 DEF WorkStrobe
  <2> QED  BY <1>0, <1>18, <2>1, <2>2, <2>3 DEF WorkStrobe
<1>19. CASE PrinterDone
  <2>1. irq' \in BOOLEAN /\ busy' \in BOOLEAN
    BY <1>0, <1>19 DEF PrinterDone
  <2> QED  BY <1>0, <1>19, <2>1 DEF PrinterDone
<1>20. CASE Interrupt
  <2>1. irq' \in BOOLEAN /\ work' \in BOOLEAN
    BY <1>0, <1>20 DEF Interrupt
  <2> QED  BY <1>0, <1>20, <2>1 DEF Interrupt
<1>21. CASE TimerExpires
  BY <1>0, <1>21 DEF TimerExpires
<1>22. CASE TimeoutCheck
  BY <1>0, <1>22 DEF TimeoutCheck
<1>23. CASE TimeoutRearm
  BY <1>0, <1>23 DEF TimeoutRearm
<1>24. CASE TimeoutReady
  BY <1>0, <1>24 DEF TimeoutReady
<1>25. CASE TimeoutInterrupt
  <2>1. work' \in BOOLEAN /\ timeout' = "idle"
    BY <1>0, <1>25 DEF TimeoutInterrupt
  <2> QED  BY <1>0, <1>25, <2>1 DEF TimeoutInterrupt
<1>26. CASE CleanupIrq
  BY <1>0, <1>26 DEF CleanupIrq
<1>27. CASE CleanupTimer
  <2>1. timer' \in BOOLEAN
    BY <1>0, <1>27 DEF CleanupTimer
  <2> QED  BY <1>0, <1>27, <2>1 DEF CleanupTimer
<1>28. CASE CleanupFlush
  BY <1>0, <1>28 DEF CleanupFlush
<1>29. CASE Load
  <2>1. 0 \in 0..PageSize - 1
    BY Numbers
  <2> QED  BY <1>0, <1>29, <2>1 DEF Load
<1>30. CASE UNCHANGED vars
  BY <1>0, <1>30 DEF vars
<1> QED
  BY <1>1, <1>2, <1>3, <1>4, <1>5, <1>6, <1>7, <1>8, <1>9, <1>10, <1>11,
     <1>12, <1>13, <1>14, <1>15, <1>16, <1>17, <1>18, <1>19, <1>20,
     <1>21, <1>22, <1>23, <1>24, <1>25, <1>26, <1>27, <1>28, <1>29,
     <1>30
  DEF Next, User, Kernel, Worker, Timeout, Cleanup

(* Every step preserves mutual exclusion.                                  *)
LEMMA LockStep == IInv /\ [Next]_vars => Lock'
<1> SUFFICES ASSUME IInv, [Next]_vars PROVE Lock'
  OBVIOUS
<1> USE DEF Lock, Holders, buffer, output, queues, printer, users, At, Goto, Leave
<1>0. sem \in Nat /\ pc \in [Procs -> Labels] /\ Lock /\ ClosedAtUnload
  BY DEF IInv, TypeOK
<1>1. ASSUME NEW p \in Procs, CallOpen(p) PROVE Lock'
  BY <1>0, <1>1 DEF CallOpen
<1>2. ASSUME NEW p \in Procs, CallRelease(p) PROVE Lock'
  BY <1>0, <1>2 DEF CallRelease
<1>3. ASSUME NEW p \in Procs, Signal(p) PROVE Lock'
  BY <1>0, <1>3 DEF Signal
<1>4. ASSUME NEW p \in Procs, Down(p) PROVE Lock'
  BY <1>0, <1>4 DEF Down
<1>5. ASSUME NEW p \in Procs, WriteEnd(p) PROVE Lock'
  BY <1>0, <1>5 DEF WriteEnd
<1>6. ASSUME NEW p \in Procs, WriteFill(p) PROVE Lock'
  BY <1>0, <1>6 DEF WriteFill
<1>7. ASSUME NEW p \in Procs, WriteStart(p) PROVE Lock'
  BY <1>0, <1>7 DEF WriteStart
<1>8. ASSUME NEW p \in Procs, WritePrepare(p) PROVE Lock'
  BY <1>0, <1>8 DEF WritePrepare
<1>9. ASSUME NEW p \in Procs, WriteCheck(p) PROVE Lock'
  BY <1>0, <1>9 DEF WriteCheck
<1>10. ASSUME NEW p \in Procs, WriteWoken(p) PROVE Lock'
  BY <1>0, <1>10 DEF WriteWoken
<1>11. ASSUME NEW p \in Procs, ReleasePrepare(p) PROVE Lock'
  BY <1>0, <1>11 DEF ReleasePrepare
<1>12. ASSUME NEW p \in Procs, ReleaseCheck(p) PROVE Lock'
  BY <1>0, <1>12 DEF ReleaseCheck
<1>13. ASSUME NEW p \in Procs, ReleaseWoken(p) PROVE Lock'
  BY <1>0, <1>13 DEF ReleaseWoken
<1>14. ASSUME NEW p \in Procs, NEW n \in Counts, CallWrite(p, n) PROVE Lock'
  BY <1>0, <1>14 DEF CallWrite
<1>15. CASE WorkBegin
  BY <1>0, <1>15 DEF WorkBegin
<1>16. CASE WorkReady
  BY <1>0, <1>16 DEF WorkReady
<1>17. CASE WorkEmpty
  BY <1>0, <1>17 DEF WorkEmpty
<1>18. CASE WorkStrobe
  BY <1>0, <1>18 DEF WorkStrobe
<1>19. CASE PrinterDone
  BY <1>0, <1>19 DEF PrinterDone
<1>20. CASE Interrupt
  BY <1>0, <1>20 DEF Interrupt
<1>21. CASE TimerExpires
  BY <1>0, <1>21 DEF TimerExpires
<1>22. CASE TimeoutCheck
  BY <1>0, <1>22 DEF TimeoutCheck
<1>23. CASE TimeoutRearm
  BY <1>0, <1>23 DEF TimeoutRearm
<1>24. CASE TimeoutReady
  BY <1>0, <1>24 DEF TimeoutReady
<1>25. CASE TimeoutInterrupt
  BY <1>0, <1>25 DEF TimeoutInterrupt
<1>26. CASE CleanupIrq
  BY <1>0, <1>26 DEF CleanupIrq
<1>27. CASE CleanupTimer
  BY <1>0, <1>27 DEF CleanupTimer
<1>28. CASE CleanupFlush
  BY <1>0, <1>28 DEF CleanupFlush
<1>29. CASE Load
  BY <1>0, <1>29 DEF Load, ClosedAtUnload
<1>30. CASE UNCHANGED vars
  BY <1>0, <1>30 DEF vars
<1> QED
  BY <1>1, <1>2, <1>3, <1>4, <1>5, <1>6, <1>7, <1>8, <1>9, <1>10, <1>11,
     <1>12, <1>13, <1>14, <1>15, <1>16, <1>17, <1>18, <1>19, <1>20,
     <1>21, <1>22, <1>23, <1>24, <1>25, <1>26, <1>27, <1>28, <1>29,
     <1>30
  DEF Next, User, Kernel, Worker, Timeout, Cleanup

(* Every step keeps the module loaded while a file is open, and the        *)
(* printer ready under the lock.                                           *)
LEMMA ContextStep == IInv /\ [Next]_vars => (ClosedAtUnload /\ LockedReady)'
<1> SUFFICES ASSUME IInv, [Next]_vars PROVE (ClosedAtUnload /\ LockedReady)'
  OBVIOUS
<1> USE DEF ClosedAtUnload, LockedReady, buffer, output, queues, printer, users, At, Goto, Leave
<1>0. pc \in [Procs -> Labels] /\ ClosedAtUnload /\ LockedReady
  BY DEF IInv, TypeOK
<1>1. ASSUME NEW p \in Procs, CallOpen(p) PROVE (ClosedAtUnload /\ LockedReady)'
  BY <1>0, <1>1 DEF CallOpen
<1>2. ASSUME NEW p \in Procs, CallRelease(p) PROVE (ClosedAtUnload /\ LockedReady)'
  BY <1>0, <1>2 DEF CallRelease
<1>3. ASSUME NEW p \in Procs, Signal(p) PROVE (ClosedAtUnload /\ LockedReady)'
  BY <1>0, <1>3 DEF Signal
<1>4. ASSUME NEW p \in Procs, Down(p) PROVE (ClosedAtUnload /\ LockedReady)'
  BY <1>0, <1>4 DEF Down
<1>5. ASSUME NEW p \in Procs, WriteEnd(p) PROVE (ClosedAtUnload /\ LockedReady)'
  BY <1>0, <1>5 DEF WriteEnd
<1>6. ASSUME NEW p \in Procs, WriteFill(p) PROVE (ClosedAtUnload /\ LockedReady)'
  BY <1>0, <1>6 DEF WriteFill
<1>7. ASSUME NEW p \in Procs, WriteStart(p) PROVE (ClosedAtUnload /\ LockedReady)'
  BY <1>0, <1>7 DEF WriteStart
<1>8. ASSUME NEW p \in Procs, WritePrepare(p) PROVE (ClosedAtUnload /\ LockedReady)'
  BY <1>0, <1>8 DEF WritePrepare
<1>9. ASSUME NEW p \in Procs, WriteCheck(p) PROVE (ClosedAtUnload /\ LockedReady)'
  BY <1>0, <1>9 DEF WriteCheck
<1>10. ASSUME NEW p \in Procs, WriteWoken(p) PROVE (ClosedAtUnload /\ LockedReady)'
  BY <1>0, <1>10 DEF WriteWoken
<1>11. ASSUME NEW p \in Procs, ReleasePrepare(p) PROVE (ClosedAtUnload /\ LockedReady)'
  BY <1>0, <1>11 DEF ReleasePrepare
<1>12. ASSUME NEW p \in Procs, ReleaseCheck(p) PROVE (ClosedAtUnload /\ LockedReady)'
  BY <1>0, <1>12 DEF ReleaseCheck
<1>13. ASSUME NEW p \in Procs, ReleaseWoken(p) PROVE (ClosedAtUnload /\ LockedReady)'
  BY <1>0, <1>13 DEF ReleaseWoken
<1>14. ASSUME NEW p \in Procs, NEW n \in Counts, CallWrite(p, n) PROVE (ClosedAtUnload /\ LockedReady)'
  BY <1>0, <1>14 DEF CallWrite
<1>15. CASE WorkBegin
  BY <1>0, <1>15 DEF WorkBegin
<1>16. CASE WorkReady
  BY <1>0, <1>16 DEF WorkReady
<1>17. CASE WorkEmpty
  BY <1>0, <1>17 DEF WorkEmpty
<1>18. CASE WorkStrobe
  BY <1>0, <1>18 DEF WorkStrobe
<1>19. CASE PrinterDone
  BY <1>0, <1>19 DEF PrinterDone
<1>20. CASE Interrupt
  BY <1>0, <1>20 DEF Interrupt
<1>21. CASE TimerExpires
  BY <1>0, <1>21 DEF TimerExpires
<1>22. CASE TimeoutCheck
  BY <1>0, <1>22 DEF TimeoutCheck
<1>23. CASE TimeoutRearm
  BY <1>0, <1>23 DEF TimeoutRearm
<1>24. CASE TimeoutReady
  BY <1>0, <1>24 DEF TimeoutReady
<1>25. CASE TimeoutInterrupt
  BY <1>0, <1>25 DEF TimeoutInterrupt
<1>26. CASE CleanupIrq
  BY <1>0, <1>26 DEF CleanupIrq
<1>27. CASE CleanupTimer
  BY <1>0, <1>27 DEF CleanupTimer
<1>28. CASE CleanupFlush
  BY <1>0, <1>28 DEF CleanupFlush
<1>29. CASE Load
  BY <1>0, <1>29 DEF Load
<1>30. CASE UNCHANGED vars
  BY <1>0, <1>30 DEF vars
<1> QED
  BY <1>1, <1>2, <1>3, <1>4, <1>5, <1>6, <1>7, <1>8, <1>9, <1>10, <1>11,
     <1>12, <1>13, <1>14, <1>15, <1>16, <1>17, <1>18, <1>19, <1>20,
     <1>21, <1>22, <1>23, <1>24, <1>25, <1>26, <1>27, <1>28, <1>29,
     <1>30
  DEF Next, User, Kernel, Worker, Timeout, Cleanup

(* Every step leaves somebody to carry on an active output.                *)
LEMMA ActiveStep == IInv /\ [Next]_vars => OutputNeverStalls'
<1> SUFFICES ASSUME IInv, [Next]_vars PROVE OutputNeverStalls'
  OBVIOUS
<1> USE DEF OutputNeverStalls, buffer, output, queues, printer, users, At, Goto, Leave
<1>0. OutputNeverStalls /\ TypeOK
  BY DEF IInv, TypeOK
<1>1. ASSUME NEW p \in Procs, CallOpen(p) PROVE OutputNeverStalls'
  BY <1>0, <1>1 DEF CallOpen
<1>2. ASSUME NEW p \in Procs, CallRelease(p) PROVE OutputNeverStalls'
  BY <1>0, <1>2 DEF CallRelease
<1>3. ASSUME NEW p \in Procs, Signal(p) PROVE OutputNeverStalls'
  BY <1>0, <1>3 DEF Signal
<1>4. ASSUME NEW p \in Procs, Down(p) PROVE OutputNeverStalls'
  BY <1>0, <1>4 DEF Down
<1>5. ASSUME NEW p \in Procs, WriteEnd(p) PROVE OutputNeverStalls'
  BY <1>0, <1>5 DEF WriteEnd
<1>6. ASSUME NEW p \in Procs, WriteFill(p) PROVE OutputNeverStalls'
  BY <1>0, <1>6 DEF WriteFill
<1>7. ASSUME NEW p \in Procs, WriteStart(p) PROVE OutputNeverStalls'
  BY <1>0, <1>7 DEF WriteStart
<1>8. ASSUME NEW p \in Procs, WritePrepare(p) PROVE OutputNeverStalls'
  BY <1>0, <1>8 DEF WritePrepare
<1>9. ASSUME NEW p \in Procs, WriteCheck(p) PROVE OutputNeverStalls'
  BY <1>0, <1>9 DEF WriteCheck
<1>10. ASSUME NEW p \in Procs, WriteWoken(p) PROVE OutputNeverStalls'
  BY <1>0, <1>10 DEF WriteWoken
<1>11. ASSUME NEW p \in Procs, ReleasePrepare(p) PROVE OutputNeverStalls'
  BY <1>0, <1>11 DEF ReleasePrepare
<1>12. ASSUME NEW p \in Procs, ReleaseCheck(p) PROVE OutputNeverStalls'
  BY <1>0, <1>12 DEF ReleaseCheck
<1>13. ASSUME NEW p \in Procs, ReleaseWoken(p) PROVE OutputNeverStalls'
  BY <1>0, <1>13 DEF ReleaseWoken
<1>14. ASSUME NEW p \in Procs, NEW n \in Counts, CallWrite(p, n) PROVE OutputNeverStalls'
  BY <1>0, <1>14 DEF CallWrite
<1>15. CASE WorkBegin
  BY <1>0, <1>15 DEF WorkBegin
<1>16. CASE WorkReady
  BY <1>0, <1>16 DEF WorkReady
<1>17. CASE WorkEmpty
  BY <1>0, <1>17 DEF WorkEmpty
<1>18. CASE WorkStrobe
  BY <1>0, <1>18 DEF WorkStrobe
<1>19. CASE PrinterDone
  BY <1>0, <1>19 DEF PrinterDone
<1>20. CASE Interrupt
  BY <1>0, <1>20 DEF Interrupt
<1>21. CASE TimerExpires
  BY <1>0, <1>21 DEF TimerExpires
<1>22. CASE TimeoutCheck
  BY <1>0, <1>22 DEF TimeoutCheck
<1>23. CASE TimeoutRearm
  BY <1>0, <1>23 DEF TimeoutRearm
<1>24. CASE TimeoutReady
  BY <1>0, <1>24 DEF TimeoutReady
<1>25. CASE TimeoutInterrupt
  BY <1>0, <1>25 DEF TimeoutInterrupt
<1>26. CASE CleanupIrq
  BY <1>0, <1>26 DEF CleanupIrq
<1>27. CASE CleanupTimer
  BY <1>0, <1>27 DEF CleanupTimer
<1>28. CASE CleanupFlush
  BY <1>0, <1>28 DEF CleanupFlush
<1>29. CASE Load
  BY <1>0, <1>29 DEF Load
<1>30. CASE UNCHANGED vars
  BY <1>0, <1>30 DEF vars
<1> QED
  BY <1>1, <1>2, <1>3, <1>4, <1>5, <1>6, <1>7, <1>8, <1>9, <1>10, <1>11,
     <1>12, <1>13, <1>14, <1>15, <1>16, <1>17, <1>18, <1>19, <1>20,
     <1>21, <1>22, <1>23, <1>24, <1>25, <1>26, <1>27, <1>28, <1>29,
     <1>30
  DEF Next, User, Kernel, Worker, Timeout, Cleanup

(* Every step keeps stored bytes under an active output.                   *)
LEMMA StoredStep == IInv /\ [Next]_vars => StoredIsActive'
<1> SUFFICES ASSUME IInv, [Next]_vars PROVE StoredIsActive'
  OBVIOUS
<1> USE DEF StoredIsActive, buffer, output, queues, printer, users, At, Goto, Leave
<1>0. pc \in [Procs -> Labels] /\ StoredIsActive
  BY DEF IInv, TypeOK
<1>1. ASSUME NEW p \in Procs, CallOpen(p) PROVE StoredIsActive'
  BY <1>0, <1>1 DEF CallOpen
<1>2. ASSUME NEW p \in Procs, CallRelease(p) PROVE StoredIsActive'
  BY <1>0, <1>2 DEF CallRelease
<1>3. ASSUME NEW p \in Procs, Signal(p) PROVE StoredIsActive'
  BY <1>0, <1>3 DEF Signal
<1>4. ASSUME NEW p \in Procs, Down(p) PROVE StoredIsActive'
  BY <1>0, <1>4 DEF Down
<1>5. ASSUME NEW p \in Procs, WriteEnd(p) PROVE StoredIsActive'
  BY <1>0, <1>5 DEF WriteEnd
<1>6. ASSUME NEW p \in Procs, WriteFill(p) PROVE StoredIsActive'
  BY <1>0, <1>6 DEF WriteFill
<1>7. ASSUME NEW p \in Procs, WriteStart(p) PROVE StoredIsActive'
  BY <1>0, <1>7 DEF WriteStart
<1>8. ASSUME NEW p \in Procs, WritePrepare(p) PROVE StoredIsActive'
  BY <1>0, <1>8 DEF WritePrepare
<1>9. ASSUME NEW p \in Procs, WriteCheck(p) PROVE StoredIsActive'
  BY <1>0, <1>9 DEF WriteCheck
<1>10. ASSUME NEW p \in Procs, WriteWoken(p) PROVE StoredIsActive'
  BY <1>0, <1>10 DEF WriteWoken
<1>11. ASSUME NEW p \in Procs, ReleasePrepare(p) PROVE StoredIsActive'
  BY <1>0, <1>11 DEF ReleasePrepare
<1>12. ASSUME NEW p \in Procs, ReleaseCheck(p) PROVE StoredIsActive'
  BY <1>0, <1>12 DEF ReleaseCheck
<1>13. ASSUME NEW p \in Procs, ReleaseWoken(p) PROVE StoredIsActive'
  BY <1>0, <1>13 DEF ReleaseWoken
<1>14. ASSUME NEW p \in Procs, NEW n \in Counts, CallWrite(p, n) PROVE StoredIsActive'
  BY <1>0, <1>14 DEF CallWrite
<1>15. CASE WorkBegin
  BY <1>0, <1>15 DEF WorkBegin
<1>16. CASE WorkReady
  BY <1>0, <1>16 DEF WorkReady
<1>17. CASE WorkEmpty
  BY <1>0, <1>17 DEF WorkEmpty
<1>18. CASE WorkStrobe
  BY <1>0, <1>18 DEF WorkStrobe
<1>19. CASE PrinterDone
  BY <1>0, <1>19 DEF PrinterDone
<1>20. CASE Interrupt
  BY <1>0, <1>20 DEF Interrupt
<1>21. CASE TimerExpires
  BY <1>0, <1>21 DEF TimerExpires
<1>22. CASE TimeoutCheck
  BY <1>0, <1>22 DEF TimeoutCheck
<1>23. CASE TimeoutRearm
  BY <1>0, <1>23 DEF TimeoutRearm
<1>24. CASE TimeoutReady
  BY <1>0, <1>24 DEF TimeoutReady
<1>25. CASE TimeoutInterrupt
  BY <1>0, <1>25 DEF TimeoutInterrupt
<1>26. CASE CleanupIrq
  BY <1>0, <1>26 DEF CleanupIrq
<1>27. CASE CleanupTimer
  BY <1>0, <1>27 DEF CleanupTimer
<1>28. CASE CleanupFlush
  BY <1>0, <1>28 DEF CleanupFlush
<1>29. CASE Load
  BY <1>0, <1>29 DEF Load
<1>30. CASE UNCHANGED vars
  BY <1>0, <1>30 DEF vars
<1> QED
  BY <1>1, <1>2, <1>3, <1>4, <1>5, <1>6, <1>7, <1>8, <1>9, <1>10, <1>11,
     <1>12, <1>13, <1>14, <1>15, <1>16, <1>17, <1>18, <1>19, <1>20,
     <1>21, <1>22, <1>23, <1>24, <1>25, <1>26, <1>27, <1>28, <1>29,
     <1>30
  DEF Next, User, Kernel, Worker, Timeout, Cleanup

(* Every step keeps a wake-up in store for the sleepers.                   *)
LEMMA SleepersStep == IInv /\ [Next]_vars => SleepersWaitForOutput'
<1> SUFFICES ASSUME IInv, [Next]_vars PROVE SleepersWaitForOutput'
  OBVIOUS
<1> USE DEF SleepersWaitForOutput, buffer, output, queues, printer, users, At, Goto, Leave
<1>0. pc \in [Procs -> Labels] /\ outq \subseteq Procs /\ emptyq \subseteq Procs /\ SleepersWaitForOutput
  BY DEF IInv, TypeOK
<1>1. ASSUME NEW p \in Procs, CallOpen(p) PROVE SleepersWaitForOutput'
  BY <1>0, <1>1 DEF CallOpen
<1>2. ASSUME NEW p \in Procs, CallRelease(p) PROVE SleepersWaitForOutput'
  BY <1>0, <1>2 DEF CallRelease
<1>3. ASSUME NEW p \in Procs, Signal(p) PROVE SleepersWaitForOutput'
  BY <1>0, <1>3 DEF Signal
<1>4. ASSUME NEW p \in Procs, Down(p) PROVE SleepersWaitForOutput'
  BY <1>0, <1>4 DEF Down
<1>5. ASSUME NEW p \in Procs, WriteEnd(p) PROVE SleepersWaitForOutput'
  BY <1>0, <1>5 DEF WriteEnd
<1>6. ASSUME NEW p \in Procs, WriteFill(p) PROVE SleepersWaitForOutput'
  <2>1. \A q \in Procs : ~At(q, "w_sleep")
    BY <1>0, <1>6 DEF WriteFill, IInv, Lock, Holders
  <2> QED  BY <1>0, <1>6, <2>1 DEF WriteFill
<1>7. ASSUME NEW p \in Procs, WriteStart(p) PROVE SleepersWaitForOutput'
  BY <1>0, <1>7 DEF WriteStart
<1>8. ASSUME NEW p \in Procs, WritePrepare(p) PROVE SleepersWaitForOutput'
  BY <1>0, <1>8 DEF WritePrepare
<1>9. ASSUME NEW p \in Procs, WriteCheck(p) PROVE SleepersWaitForOutput'
  <2>1. CASE space > 0 \/ p \in sig
    BY <1>0, <1>9, <2>1 DEF WriteCheck
  <2>2. CASE space = 0 /\ p \notin sig
    <3>1. head \in 0..PageSize - 1 /\ tail \in 0..PageSize - 1
      BY DEF IInv, TypeOK
    <3>2. (PageSize + tail - head) % PageSize = IF tail >= head THEN tail - head ELSE PageSize + tail - head
      BY <3>1, FreeSpace
    <3>3. head # tail /\ (PageSize + tail - head) % PageSize = 1
      BY <2>2, <3>1, <3>2, Numbers DEF space
    <3> QED  BY <1>0, <1>9, <2>2, <3>3, MinSpaceRange DEF WriteCheck
  <2> QED  BY <2>1, <2>2, <1>9 DEF WriteCheck
<1>10. ASSUME NEW p \in Procs, WriteWoken(p) PROVE SleepersWaitForOutput'
  BY <1>0, <1>10 DEF WriteWoken
<1>11. ASSUME NEW p \in Procs, ReleasePrepare(p) PROVE SleepersWaitForOutput'
  BY <1>0, <1>11 DEF ReleasePrepare
<1>12. ASSUME NEW p \in Procs, ReleaseCheck(p) PROVE SleepersWaitForOutput'
  BY <1>0, <1>12 DEF ReleaseCheck
<1>13. ASSUME NEW p \in Procs, ReleaseWoken(p) PROVE SleepersWaitForOutput'
  BY <1>0, <1>13 DEF ReleaseWoken
<1>14. ASSUME NEW p \in Procs, NEW n \in Counts, CallWrite(p, n) PROVE SleepersWaitForOutput'
  BY <1>0, <1>14 DEF CallWrite
<1>15. CASE WorkBegin
  BY <1>0, <1>15 DEF WorkBegin
<1>16. CASE WorkReady
  BY <1>0, <1>16 DEF WorkReady
<1>17. CASE WorkEmpty
  <2>1. outq' \subseteq outq
    BY <1>17 DEF WorkEmpty, WakeWriters
  <2> QED  BY <1>0, <1>17, <2>1 DEF WorkEmpty
<1>18. CASE WorkStrobe
  <2>1. ASSUME NEW q \in outq', At(q, "w_sleep")'
        PROVE  head' # tail' /\ (PageSize + tail' - head') % PageSize <= MinSpace
    <3>1. head \in 0..PageSize - 1 /\ tail \in 0..PageSize - 1
      BY DEF IInv, TypeOK
    <3>2. tail' \in 0..PageSize - 1 /\ tail' = IF tail = PageSize - 1 THEN 0 ELSE tail + 1
      BY <1>18, IncrTail DEF WorkStrobe, IInv
    <3>3. (PageSize + tail' - head) % PageSize = IF tail' >= head THEN tail' - head ELSE PageSize + tail' - head
      BY <3>1, <3>2, FreeSpace
    <3>4. (PageSize + tail' - head) % PageSize \in Nat
      BY <3>1, <3>2, <3>3, Numbers
    <3>5. q \in outq /\ At(q, "w_sleep") /\ (PageSize + tail' - head) % PageSize <= MinSpace
      BY <1>18, <2>1, <3>4, MinSpaceRange DEF WorkStrobe, WakeWriters
    <3>6. head # tail /\ (PageSize + tail - head) % PageSize <= MinSpace
      BY <1>0, <3>5
    <3>7. (PageSize + tail - head) % PageSize = IF tail >= head THEN tail - head ELSE PageSize + tail - head
      BY <3>1, FreeSpace
    <3>8. head # tail'
      BY <3>1, <3>2, <3>6, <3>7, MinSpaceRange, Numbers
    <3> QED  BY <1>18, <3>5, <3>8 DEF WorkStrobe
  <2> QED  BY <1>0, <1>18, <2>1 DEF WorkStrobe
<1>19. CASE PrinterDone
  BY <1>0, <1>19 DEF PrinterDone
<1>20. CASE Interrupt
  BY <1>0, <1>20 DEF Interrupt
<1>21. CASE TimerExpires
  BY <1>0, <1>21 DEF TimerExpires
<1>22. CASE TimeoutCheck
  BY <1>0, <1>22 DEF TimeoutCheck
<1>23. CASE TimeoutRearm
  BY <1>0, <1>23 DEF TimeoutRearm
<1>24. CASE TimeoutReady
  BY <1>0, <1>24 DEF TimeoutReady
<1>25. CASE TimeoutInterrupt
  BY <1>0, <1>25 DEF TimeoutInterrupt
<1>26. CASE CleanupIrq
  BY <1>0, <1>26 DEF CleanupIrq
<1>27. CASE CleanupTimer
  BY <1>0, <1>27 DEF CleanupTimer
<1>28. CASE CleanupFlush
  BY <1>0, <1>28 DEF CleanupFlush
<1>29. CASE Load
  BY <1>0, <1>29 DEF Load, IInv, ClosedAtUnload
<1>30. CASE UNCHANGED vars
  BY <1>0, <1>30 DEF vars
<1> QED
  BY <1>1, <1>2, <1>3, <1>4, <1>5, <1>6, <1>7, <1>8, <1>9, <1>10, <1>11,
     <1>12, <1>13, <1>14, <1>15, <1>16, <1>17, <1>18, <1>19, <1>20,
     <1>21, <1>22, <1>23, <1>24, <1>25, <1>26, <1>27, <1>28, <1>29,
     <1>30
  DEF Next, User, Kernel, Worker, Timeout, Cleanup

(* The invariant holds in every reachable state.                           *)
THEOREM Invariance == Spec => []IInv
<1>1. IInv /\ [Next]_vars => IInv'
  BY TypeStep, LockStep, ContextStep, ActiveStep, StoredStep, SleepersStep DEF IInv
<1> QED  BY InitIInv, <1>1, PTL DEF Spec

(* Every variable of the printer driver keeps its type; both offsets stay  *)
(* inside the page.                                                        *)
THEOREM TypeCorrect == Spec => []TypeOK
<1>1. IInv => TypeOK
  BY DEF IInv
<1> QED  BY Invariance, <1>1, PTL

(* Complete, interrupted and failed writes release the semaphore once.     *)
THEOREM SemaphoreExact == Spec => []SemExact
<1>1. IInv => SemExact
  <2> SUFFICES ASSUME IInv PROVE SemExact
    OBVIOUS
  <2>1. Lock
    BY DEF IInv
  <2>2. CASE sem = 1
    BY <2>1, <2>2, FS_EmptySet DEF Lock, SemExact
  <2>3. CASE sem = 0
    <3>1. PICK p \in Holders : TRUE
      BY <2>1, <2>3 DEF Lock
    <3>2. Holders = {p}
      BY <2>1, <3>1 DEF Lock
    <3>3. Cardinality({p}) = 1
      BY FS_Singleton
    <3> QED  BY <2>3, <3>2, <3>3 DEF SemExact
  <2> QED  BY <2>1, <2>2, <2>3 DEF Lock
<1> QED  BY Invariance, <1>1, PTL

(* At every step the types hold and the semaphore is free exactly when    *)
(* nobody is inside: both halves of the invariant the run checks.          *)
THEOREM InvariantKept == Spec => []Inv
<1>1. TypeOK /\ SemExact => Inv
  BY DEF Inv
<1> QED  BY TypeCorrect, SemaphoreExact, <1>1, PTL

(* An active output always has a timer, a handler or the work thread to    *)
(* carry it on, even if every interrupt of the printer is lost.            *)
THEOREM OutputCarriedOn == Spec => []OutputNeverStalls
<1>1. IInv => OutputNeverStalls
  BY DEF IInv
<1> QED  BY Invariance, <1>1, PTL

(* The end of the output strands no byte that a writer has just stored.    *)
THEOREM NothingLeftBehind == Spec => []StoredIsActive
<1>1. IInv => StoredIsActive
  BY DEF IInv
<1> QED  BY Invariance, <1>1, PTL

(* No writer and no closing process misses its wake-up.                    *)
THEOREM SleepersWoken == Spec => []SleepersWaitForOutput
<1>1. IInv => SleepersWaitForOutput
  BY DEF IInv
<1> QED  BY Invariance, <1>1, PTL

(* The printer is strobed only when it is ready.                           *)
THEOREM StrobesReadyPrinter == Spec => StrobeWhenReady
<1>1. IInv /\ [Next]_vars => [WorkStrobe => ~busy]_vars
  BY DEF IInv, LockedReady, WorkStrobe
<1> QED  BY Invariance, <1>1, PTL DEF Spec, StrobeWhenReady

----------------------------------------------------------------------------
(* The steps that store, print or forget bytes.                            *)
Moves == \/ \E p \in Procs : WriteFill(p)
         \/ WorkStrobe \/ Load

(* Every other step leaves the page, its indices and the printer's byte    *)
(* alone.                                                                  *)
LEMMA MovingSteps == [Next]_vars => Moves \/ UNCHANGED <<buffer, printed, sent>>
<1> SUFFICES ASSUME [Next]_vars, ~Moves PROVE UNCHANGED <<buffer, printed, sent>>
  OBVIOUS
<1> USE DEF buffer, printer
<1>1. ASSUME NEW p \in Procs, User(p) \/ Down(p) PROVE UNCHANGED <<buffer, printed, sent>>
  BY <1>1 DEF User, CallOpen, CallRelease, Signal, CallWrite, Down
<1>2. ASSUME NEW p \in Procs, Kernel(p) PROVE UNCHANGED <<buffer, printed, sent>>
  BY <1>2 DEF Kernel, Moves, WriteEnd, WriteStart, WritePrepare, WriteCheck, WriteWoken,
     ReleasePrepare, ReleaseCheck, ReleaseWoken
<1>3. CASE Worker
  BY <1>3 DEF Worker, Moves, WorkBegin, WorkReady, WorkEmpty
<1>4. CASE PrinterDone \/ Interrupt
  BY <1>4 DEF PrinterDone, Interrupt
<1>5. CASE Timeout
  BY <1>5 DEF Timeout, TimerExpires, TimeoutCheck, TimeoutRearm, TimeoutReady, TimeoutInterrupt
<1>6. CASE Cleanup
  BY <1>6 DEF Cleanup, Moves, CleanupIrq, CleanupTimer, CleanupFlush
<1>7. CASE UNCHANGED vars
  BY <1>7 DEF vars
<1> QED  BY <1>1, <1>2, <1>3, <1>4, <1>5, <1>6, <1>7 DEF Next

(* The page holds the ring that the channel is made of.                    *)
LEMMA ContentsUnrolled ==
  ASSUME TypeOK
  PROVE  /\ PageSize \in Nat \ {0} /\ head - tail # PageSize
         /\ head \in 0..PageSize /\ tail \in 0..PageSize
         /\ Filled(PageSize, tail, head) \in 0..PageSize - 1
         /\ Contents = Unroll(mem, PageSize, tail, head)
<1>1. /\ PageSize \in Nat \ {0} /\ head - tail # PageSize
      /\ head \in 0..PageSize /\ tail \in 0..PageSize
  BY Numbers DEF TypeOK
<1>2. Contents = RingOf(mem, PageSize, tail, head)
  BY DEF Contents, RingOf
<1> QED  BY <1>1, <1>2, Unrolled

(* What a write stores at once leaves one byte of the page free.           *)
LEMMA FillFits ==
  ASSUME TypeOK, NEW n \in Nat, n > 0, space > 0
  PROVE  /\ min(space, n) \in Nat \ {0}
         /\ Filled(PageSize, tail, head) + min(space, n) <= PageSize - 1
         /\ head + min(space, n) <= PageSize
<1>1. PageSize \in Nat /\ head \in 0..PageSize - 1 /\ tail \in 0..PageSize - 1
  BY Numbers DEF TypeOK
<1>2. space \in Nat /\ space <= PageSize - 1 - Filled(PageSize, tail, head) /\ head + space <= PageSize
  BY <1>1 DEF space, Filled
<1>3. min(space, n) \in 1..space
  BY <1>2 DEF min
<1>4. Filled(PageSize, tail, head) \in Nat
  BY <1>1 DEF Filled
<1> HIDE DEF space
<1> QED  BY <1>1, <1>2, <1>3, <1>4

(* A write appends the next bytes to the channel.                          *)
LEMMA FillAccepts ==
  ASSUME TypeOK, TypeOK', NEW p \in Procs, WriteFill(p)
  PROVE  Channel!Next
<1> DEFINE k == min(space, left[p])
           s == [i \in Int |-> (sent + i - 1) % Modulus]
           q == Unroll(mem, PageSize, tail, head)
<1>1. /\ mem' = [i \in DOMAIN mem |->
                   IF i \in head..head + k - 1 THEN (sent + i - head) % Modulus ELSE mem[i]]
      /\ head' = (IF head + k >= PageSize THEN head + k - PageSize ELSE head + k)
      /\ sent' = (sent + k) % Modulus
      /\ UNCHANGED <<tail, printed>>
  BY DEF WriteFill, incr, printer
<1>2. left[p] \in Nat /\ left[p] > 0 /\ space > 0
  BY DEF WriteFill, TypeOK
<1>3. /\ PageSize \in Nat \ {0} /\ head \in 0..PageSize - 1 /\ tail \in 0..PageSize - 1
      /\ k \in Nat \ {0} /\ Filled(PageSize, tail, head) + k <= PageSize - 1
      /\ head + k <= PageSize
      /\ Filled(PageSize, tail, head) \in 0..PageSize - 1
      /\ Contents = q
  <2>1. PageSize \in Nat \ {0} /\ head \in 0..PageSize - 1 /\ tail \in 0..PageSize - 1
    BY Numbers DEF TypeOK
  <2>2. /\ k \in Nat \ {0} /\ Filled(PageSize, tail, head) + k <= PageSize - 1
        /\ head + k <= PageSize
    BY <1>2, FillFits
  <2> QED  BY <2>1, <2>2, ContentsUnrolled
<1>4. DOMAIN mem = 0..PageSize - 1 /\ sent \in 0..Modulus - 1 /\ Modulus \in Nat \ {0}
  BY Numbers DEF TypeOK
<1> HIDE DEF k, q, s
<1>5. PICK m2 : m2 = mem'
  OBVIOUS
<1>6. Overwrites(m2, mem, PageSize, head, k, s)
  <2>1. ASSUME NEW i \in 0..PageSize - 1, i \in head..head + k - 1
        PROVE  s[i - head + 1] = (sent + i - head) % Modulus
    <3>1. i - head + 1 \in Int /\ sent + (i - head + 1) - 1 = sent + i - head
      BY <1>3, <1>4
    <3> QED  BY <3>1 DEF s
  <2> QED  BY <1>1, <1>4, <1>5, <2>1 DEF Overwrites
<1>7. /\ head + k - tail # PageSize
      /\ Len(Unroll(mem, PageSize, tail, head)) + k <= PageSize - 1
      /\ Unroll(m2, PageSize, tail, head + k)
           = Unroll(mem, PageSize, tail, head) \o [i \in 1..k |-> s[i]]
  BY <1>3, <1>6, RingAccept
<1>8. Contents' = Unroll(m2, PageSize, tail, head + k)
  <2>1. Contents' = RingOf(m2, PageSize, tail, head')
    BY <1>1, <1>5 DEF Contents, RingOf
  <2>2. CASE head + k < PageSize
    <3>1. head' = head + k /\ head + k \in 0..PageSize /\ tail \in 0..PageSize
      BY <1>1, <1>3, <2>2
    <3>2. RingOf(m2, PageSize, tail, head + k) = Unroll(m2, PageSize, tail, head + k)
      BY <1>3, <1>7, <3>1, Unrolled
    <3> QED  BY <2>1, <3>1, <3>2
  <2>3. CASE head + k = PageSize
    <3>1. /\ head' = 0 /\ tail \in 1..PageSize - 1
          /\ 0 \in 0..PageSize /\ tail \in 0..PageSize /\ 0 - tail # PageSize
      BY <1>1, <1>3, <1>7, <2>3
    <3>2. RingOf(m2, PageSize, tail, 0) = Unroll(m2, PageSize, tail, 0)
      BY <1>3, <3>1, Unrolled
    <3>3. Unroll(m2, PageSize, tail, 0) = Unroll(m2, PageSize, tail, PageSize)
      BY <1>3, <3>1, RingWrap
    <3> QED  BY <2>1, <2>3, <3>1, <3>2, <3>3
  <2> QED  BY <1>3, <2>2, <2>3
<1>9. [i \in 1..k |-> s[i]] = Channel!Fresh(k)
  BY <1>3 DEF s, Channel!Fresh
<1>10. Len(q) \in Nat
  BY <1>3 DEF q, Unroll
<1>11. Channel!Accept(k)
  <2>1. Contents' = Contents \o Channel!Fresh(k) /\ Len(Contents) + k <= PageSize - 1
    BY <1>3, <1>7, <1>8, <1>9 DEF q
  <2> QED  BY <1>1, <2>1 DEF Channel!Accept
<1>12. k \in 1..PageSize - 1
  BY <1>3
<1> QED  BY <1>11, <1>12 DEF Channel!Next

(* The work thread delivers the oldest byte to the printer.                *)
LEMMA StrobeDelivers ==
  ASSUME TypeOK, WorkStrobe
  PROVE  Channel!Next
<1> DEFINE q == Unroll(mem, PageSize, tail, head)
<1>1. /\ head # tail
      /\ printed' = << mem[tail] >>
      /\ tail' = IF tail = PageSize - 1 THEN 0 ELSE tail + 1
      /\ UNCHANGED <<head, mem, sent>>
  BY IncrTail DEF WorkStrobe
<1>2. /\ PageSize \in Nat \ {0} /\ head - tail # PageSize
      /\ head \in 0..PageSize /\ tail \in 0..PageSize
      /\ Filled(PageSize, tail, head) \in 0..PageSize - 1
      /\ Contents = q
  BY ContentsUnrolled
<1>3. head \in 0..PageSize - 1 /\ tail \in 0..PageSize - 1
  BY DEF TypeOK
<1>4. 1 \in 1..Filled(PageSize, tail, head) /\ tail + 1 <= PageSize
  BY <1>1, <1>2, <1>3 DEF Filled
<1>5. /\ head - (tail + 1) # PageSize
      /\ 1 <= Len(q)
      /\ [i \in 1..1 |-> mem[tail + i - 1]] = SubSeq(q, 1, 1)
      /\ Unroll(mem, PageSize, tail + 1, head) = SubSeq(q, 2, Len(q))
  BY <1>2, <1>4, RingDeliver
<1>6. << mem[tail] >> = SubSeq(q, 1, 1)
  <2>1. [i \in 1..1 |-> mem[tail + i - 1]] = << mem[tail] >>
    BY <1>3
  <2> QED  BY <1>5, <2>1
<1> HIDE DEF q
<1>7. Contents' = SubSeq(q, 2, Len(q))
  <2>1. Contents' = RingOf(mem, PageSize, tail', head)
    BY <1>1 DEF Contents, RingOf
  <2>2. CASE tail # PageSize - 1
    <3>1. tail' = tail + 1 /\ tail + 1 \in 0..PageSize
      BY <1>1, <1>2, <1>3, <2>2
    <3>2. RingOf(mem, PageSize, tail + 1, head) = Unroll(mem, PageSize, tail + 1, head)
      BY <1>2, <1>3, <1>5, <3>1, Unrolled
    <3> QED  BY <1>5, <2>1, <3>1, <3>2
  <2>3. CASE tail = PageSize - 1
    <3>1. tail' = 0 /\ tail + 1 = PageSize /\ 0 \in 0..PageSize /\ head - 0 # PageSize
      BY <1>1, <1>2, <1>3, <2>3
    <3>2. RingOf(mem, PageSize, 0, head) = Unroll(mem, PageSize, 0, head)
      BY <1>2, <1>3, <3>1, Unrolled
    <3>3. Unroll(mem, PageSize, 0, head) = Unroll(mem, PageSize, PageSize, head)
      BY <1>2, <1>3, RingWrap
    <3> QED  BY <1>5, <2>1, <3>1, <3>2, <3>3
  <2> QED  BY <2>2, <2>3
<1>8. Channel!Deliver("printer", 1)
  <2>1. [d \in {"printer"} |-> printed']
          = [[d \in {"printer"} |-> printed] EXCEPT !["printer"] = SubSeq(q, 1, 1)]
    BY <1>1, <1>6
  <2>2. 1 <= Len(Contents) /\ Contents' = SubSeq(Contents, 1 + 1, Len(Contents))
    BY <1>2, <1>5, <1>7
  <2> QED  BY <1>1, <1>2, <2>1, <2>2 DEF Channel!Deliver
<1>9. 1 \in 1..PageSize - 1
  BY Numbers
<1> QED  BY <1>8, <1>9 DEF Channel!Next

(* Every step of the driver is a step of the channel, or leaves it alone.  *)
LEMMA ChannelStep ==
  IInv /\ IInv' /\ [Next]_vars => [Channel!Next]_Channel!channelVars
<1> SUFFICES ASSUME TypeOK, TypeOK', [Next]_vars
             PROVE  Channel!Next \/ UNCHANGED Channel!channelVars
  BY DEF IInv
<1>1. CASE UNCHANGED <<buffer, printed, sent>>
  BY <1>1 DEF buffer, Contents, Channel!channelVars
<1>2. CASE Load
  <2>1. Contents' = << >>
    <3>1. head' = 0 /\ tail' = 0 /\ 0 % PageSize = 0
      BY <1>2, Numbers DEF Load
    <3> QED  BY <3>1, Numbers DEF Contents
  <2>2. Channel!Discard
    BY <1>2, <2>1 DEF Load, printer, Channel!Discard
  <2> QED  BY <2>2 DEF Channel!Next
<1> QED  BY <1>1, <1>2, MovingSteps, FillAccepts, StrobeDelivers DEF Moves

(* The printer gets every byte once and in order, unless a later load      *)
(* empties the page: for every page size and any number of writers, lost   *)
(* interrupts, signals and unloads included.                               *)
THEOREM PrinterIsChannel == Spec => ImplementsChannel
<1>1. Init => Channel!Init
  <2> SUFFICES ASSUME Init PROVE Channel!Init
    OBVIOUS
  <2>1. Contents = << >>
    <3>1. head = 0 /\ tail = 0 /\ 0 % PageSize = 0
      BY Numbers DEF Init
    <3> QED  BY <3>1, Numbers DEF Contents
  <2> QED  BY <2>1 DEF Init, Channel!Init
<1>2. IInv /\ IInv' /\ [Next]_vars => [Channel!Next]_Channel!channelVars
  BY ChannelStep
<1> QED
  BY Invariance, <1>1, <1>2, PTL DEF Spec, ImplementsChannel, Channel!Spec
=============================================================================

--------------------------- MODULE ScullPipeProofs ---------------------------
(***************************************************************************)
(* Theorems about ScullPipe, for every set of processes, every size of the *)
(* buffer and every byte count.                                            *)
(***************************************************************************)
EXTENDS ScullPipe, RingTheorems, FiniteSetTheorems, SequenceTheorems, TLAPS

(* The semaphore admits one process at a time, and is taken only by one    *)
(* that is inside a critical section.                                      *)
Lock == /\ sem \in {0, 1}
        /\ \A p, q \in Procs : pc[p] \in Locked /\ pc[q] \in Locked => p = q
        /\ sem = 0 <=> \E p \in Procs : pc[p] \in Locked

IInv == TypeOK /\ Lock /\ PointersInRange

(* MaxSize bounds every size the ioctl can set.                            *)
LEMMA MaxSizeType == MaxSize \in Sizes /\ \A s \in Sizes : s <= MaxSize
  BY SizesAssumption DEF MaxSize

(* The free space a writer computes for two different pointers.            *)
LEMMA FreeRange ==
  ASSUME NEW n \in Nat, NEW a \in 0..n - 1, NEW c \in 0..n - 1, a # c
  PROVE  ((a + n - c) % n) - 1 \in 0..n - 2
<1>1. CASE a > c
  <2>1. a - c \in 1..n - 1  BY <1>1
  <2> DEFINE d == a - c
  <2>2. (d + n) % n = d  BY <2>1
  <2>3. a + n - c = d + n  BY DEF d
  <2> QED BY <2>1, <2>2, <2>3
<1>2. CASE a < c
  <2>1. a + n - c \in 1..n - 1  BY <1>2
  <2>2. (a + n - c) % n = a + n - c  BY <2>1
  <2> QED BY <2>1, <2>2
<1> QED BY <1>1, <1>2

(* The initial state satisfies the invariant.                              *)
LEMMA InitIInv == Init => IInv
<1> SUFFICES ASSUME Init PROVE IInv
  OBVIOUS
<1>1. TypeOK
  BY SizesAssumption, MaxSizeType DEF Init, TypeOK, Labels, Outside, Locked
<1>2. Lock
  BY DEF Init, Lock, Locked
<1>3. PointersInRange
  BY DEF Init, PointersInRange, end, Opened
<1> QED  BY <1>1, <1>2, <1>3 DEF IInv

(* How much a read may take and a write may fill, under the semaphore.     *)
LEMMA ReadableRange ==
  ASSUME IInv, NEW p \in Procs, At(p, "r_test"), rp # wp
  PROVE  readable \in Nat /\ rp + readable <= end
<1> SUFFICES rp \in Nat /\ wp \in Nat /\ end \in Nat /\ rp <= end /\ wp <= end
  BY DEF readable
<1> QED  BY SizesAssumption DEF IInv, TypeOK, PointersInRange, end

(* A write that finds free space stays inside the buffer.                  *)
LEMMA WritableRange ==
  ASSUME IInv, NEW p \in Procs, At(p, "w_test"), spacefree # 0
  PROVE  writable \in Nat /\ wp + writable <= end
<1>1. rp \in Nat /\ wp \in Nat /\ end \in Nat /\ end > 0 /\ rp < end /\ wp < end
  BY SizesAssumption DEF IInv, TypeOK, PointersInRange, Lock, At, Opened, Locked, end
<1>2. spacefree \in Nat
  <2>1. CASE rp = wp
    BY <1>1, <2>1 DEF spacefree, end
  <2>2. CASE rp # wp
    BY <1>1, <2>2, FreeRange DEF spacefree, end
  <2> QED  BY <2>1, <2>2
<1> QED  BY <1>1, <1>2 DEF writable, min

(* Every step preserves the types.                                         *)
LEMMA TypeStep == IInv /\ [Next]_vars => TypeOK'
<1> SUFFICES ASSUME IInv, [Next]_vars PROVE TypeOK'
  OBVIOUS
<1> USE DEF TypeOK, up, pointers, counts, queues, At, Goto, Leave, Labels, Outside, Locked, AfterDown
<1>0. TypeOK /\ Lock
  BY DEF IInv, TypeOK
<1>1. ASSUME NEW p \in Procs, CallOpen(p) PROVE TypeOK'
  BY <1>0, <1>1 DEF CallOpen
<1>2. ASSUME NEW p \in Procs, CallRead(p) PROVE TypeOK'
  BY <1>0, <1>2 DEF CallRead
<1>3. ASSUME NEW p \in Procs, CallWrite(p) PROVE TypeOK'
  BY <1>0, <1>3 DEF CallWrite
<1>4. ASSUME NEW p \in Procs, CallPoll(p) PROVE TypeOK'
  BY <1>0, <1>4 DEF CallPoll
<1>5. ASSUME NEW p \in Procs, CallRelease(p) PROVE TypeOK'
  BY <1>0, <1>5 DEF CallRelease
<1>6. ASSUME NEW p \in Procs, Fasync(p) PROVE TypeOK'
  BY <1>0, <1>6 DEF Fasync
<1>7. ASSUME NEW p \in Procs, Signal(p) PROVE TypeOK'
  BY <1>0, <1>7 DEF Signal
<1>8. ASSUME NEW p \in Procs, Down(p) PROVE TypeOK'
  BY <1>0, <1>8 DEF Down, Lock
<1>9. ASSUME NEW p \in Procs, DownInterrupted(p) PROVE TypeOK'
  BY <1>0, <1>9 DEF DownInterrupted
<1>10. ASSUME NEW p \in Procs, Open(p) PROVE TypeOK'
  BY <1>0, <1>10, SizesAssumption DEF Open
<1>11. ASSUME NEW p \in Procs, OpenNoMem(p) PROVE TypeOK'
  BY <1>0, <1>11 DEF OpenNoMem
<1>12. ASSUME NEW p \in Procs, Release(p) PROVE TypeOK'
  BY <1>0, <1>12 DEF Release
<1>13. ASSUME NEW p \in Procs, ReadEmpty(p) PROVE TypeOK'
  BY <1>0, <1>13 DEF ReadEmpty
<1>14. ASSUME NEW p \in Procs, ReadWrap(p) PROVE TypeOK'
  BY <1>0, <1>14 DEF ReadWrap
<1>15. ASSUME NEW p \in Procs, ReadWake(p) PROVE TypeOK'
  BY <1>0, <1>15 DEF ReadWake
<1>16. ASSUME NEW p \in Procs, ReadPrepare(p) PROVE TypeOK'
  BY <1>0, <1>16 DEF ReadPrepare
<1>17. ASSUME NEW p \in Procs, ReadCheck(p) PROVE TypeOK'
  BY <1>0, <1>17 DEF ReadCheck
<1>18. ASSUME NEW p \in Procs, ReadWoken(p) PROVE TypeOK'
  BY <1>0, <1>18 DEF ReadWoken
<1>19. ASSUME NEW p \in Procs, WriteFull(p) PROVE TypeOK'
  BY <1>0, <1>19 DEF WriteFull
<1>20. ASSUME NEW p \in Procs, WriteWrap(p) PROVE TypeOK'
  BY <1>0, <1>20 DEF WriteWrap
<1>21. ASSUME NEW p \in Procs, WriteWake(p) PROVE TypeOK'
  BY <1>0, <1>21 DEF WriteWake
<1>22. ASSUME NEW p \in Procs, WritePrepare(p) PROVE TypeOK'
  BY <1>0, <1>22 DEF WritePrepare
<1>23. ASSUME NEW p \in Procs, WriteCheck(p) PROVE TypeOK'
  BY <1>0, <1>23 DEF WriteCheck
<1>24. ASSUME NEW p \in Procs, WriteWoken(p) PROVE TypeOK'
  BY <1>0, <1>24 DEF WriteWoken
<1>25. ASSUME NEW p \in Procs, WriteFinish(p) PROVE TypeOK'
  BY <1>0, <1>25 DEF WriteFinish
<1>26. ASSUME NEW p \in Procs, Fault(p) PROVE TypeOK'
  BY <1>0, <1>26 DEF Fault
<1>27. ASSUME NEW p \in Procs, Poll(p) PROVE TypeOK'
  <2>1. pc' \in [Procs -> Labels]
    BY <1>0, <1>27 DEF Poll
  <2>2. sig' \subseteq Procs /\ inq' \subseteq Procs /\ outq' \subseteq Procs
    BY <1>0, <1>27 DEF Poll
  <2> QED  BY <1>0, <1>27, <2>1, <2>2 DEF Poll
<1>28. ASSUME NEW p \in Procs, PollWoken(p) PROVE TypeOK'
  BY <1>0, <1>28 DEF PollWoken
<1>29. ASSUME NEW p \in Procs, NEW n \in Counts, ReadCopy(p, n) PROVE TypeOK'
  <2> DEFINE k == min(n, readable)
             chunk == [i \in 1..k |-> mem[rp + i - 1]]
  <2>1. k \in Nat /\ rp + k <= end
    BY <1>0, <1>29, ReadableRange, SizesAssumption DEF ReadCopy, min, end
  <2>2. end <= MaxSize /\ MaxSize \in Nat
    BY <1>0, MaxSizeType, SizesAssumption DEF end
  <2>3. chunk \in Seq(0..Modulus - 1)
    <3>1. \A i \in 1..k : mem[rp + i - 1] \in 0..Modulus - 1
      BY <1>0, <2>1, <2>2, SizesAssumption DEF end
    <3>2. chunk \in [1..k -> 0..Modulus - 1]
      BY <3>1
    <3> HIDE DEF chunk, k
    <3> QED  BY <2>1, <3>2, SeqDef
  <2>4. ubuf' = [ubuf EXCEPT ![p] = chunk] /\ rp' = rp + k
    BY <1>29 DEF ReadCopy
  <2>5. ubuf' \in [Procs -> Seq(0..Modulus - 1)] /\ rp' \in Nat
    BY <1>0, <2>1, <2>3, <2>4
  <2>6. pc' \in [Procs -> Labels]
    BY <1>0, <1>29 DEF ReadCopy
  <2> QED  BY <1>0, <1>29, <2>5, <2>6 DEF ReadCopy
<1>30. ASSUME NEW p \in Procs, NEW n \in Counts, WriteCopy(p, n) PROVE TypeOK'
  <2> DEFINE k == min(n, writable)
  <2>1. k \in Nat
    BY <1>0, <1>30, WritableRange, SizesAssumption DEF WriteCopy, min
  <2>2. /\ wp' = wp + k
        /\ sent' = (sent + k) % Modulus
        /\ mem' = [i \in DOMAIN mem |->
                     IF i \in wp..wp + k - 1 THEN (sent + i - wp) % Modulus
                     ELSE mem[i]]
    BY <1>30 DEF WriteCopy
  <2> HIDE DEF k
  <2>3. wp' \in Nat /\ sent' \in 0..Modulus - 1
    <3> DEFINE x == sent + k
    <3>1. x \in Int
      BY <1>0, <2>1, SizesAssumption
    <3> HIDE DEF x
    <3>2. x % Modulus \in 0..Modulus - 1
      BY <3>1, SizesAssumption
    <3> QED  BY <1>0, <2>1, <2>2, <3>2 DEF x
  <2>4. mem' \in [0..MaxSize - 1 -> 0..Modulus - 1]
    <3>1. MaxSize \in Nat
      BY MaxSizeType, SizesAssumption
    <3>2. ASSUME NEW i \in 0..MaxSize - 1
          PROVE  (sent + i - wp) % Modulus \in 0..Modulus - 1
      <4> DEFINE x == sent + i - wp
      <4>1. x \in Int
        BY <1>0, <3>1
      <4> HIDE DEF x
      <4>2. x % Modulus \in 0..Modulus - 1
        BY <4>1, SizesAssumption
      <4> QED  BY <4>2 DEF x
    <3> QED  BY <1>0, <2>2, <3>2
  <2>5. pc' \in [Procs -> Labels]
    BY <1>0, <1>30 DEF WriteCopy
  <2> QED  BY <1>0, <1>30, <2>3, <2>4, <2>5 DEF WriteCopy
<1>31. ASSUME NEW s \in Sizes, SetSize(s) PROVE TypeOK'
  BY <1>0, <1>31 DEF SetSize
<1>32. CASE UNCHANGED vars
  BY <1>0, <1>32 DEF vars
<1> QED
  BY <1>1, <1>2, <1>3, <1>4, <1>5, <1>6, <1>7, <1>8, <1>9, <1>10, <1>11,
     <1>12, <1>13, <1>14, <1>15, <1>16, <1>17, <1>18, <1>19, <1>20,
     <1>21, <1>22, <1>23, <1>24, <1>25, <1>26, <1>27, <1>28, <1>29,
     <1>30, <1>31, <1>32
  DEF Next, User, Kernel

(* Every step preserves mutual exclusion.                                  *)
LEMMA LockStep == IInv /\ [Next]_vars => Lock'
<1> SUFFICES ASSUME IInv, [Next]_vars PROVE Lock'
  OBVIOUS
<1> USE DEF Lock, up, pointers, counts, queues, At, Goto, Leave, Outside, Locked, AfterDown
<1>0. sem \in Nat /\ pc \in [Procs -> Labels] /\ Lock
  BY DEF IInv, TypeOK
<1>1. ASSUME NEW p \in Procs, CallOpen(p) PROVE Lock'
  BY <1>0, <1>1 DEF CallOpen
<1>2. ASSUME NEW p \in Procs, CallRead(p) PROVE Lock'
  BY <1>0, <1>2 DEF CallRead
<1>3. ASSUME NEW p \in Procs, CallWrite(p) PROVE Lock'
  BY <1>0, <1>3 DEF CallWrite
<1>4. ASSUME NEW p \in Procs, CallPoll(p) PROVE Lock'
  BY <1>0, <1>4 DEF CallPoll
<1>5. ASSUME NEW p \in Procs, CallRelease(p) PROVE Lock'
  BY <1>0, <1>5 DEF CallRelease
<1>6. ASSUME NEW p \in Procs, Fasync(p) PROVE Lock'
  BY <1>0, <1>6 DEF Fasync
<1>7. ASSUME NEW p \in Procs, Signal(p) PROVE Lock'
  BY <1>0, <1>7 DEF Signal
<1>8. ASSUME NEW p \in Procs, Down(p) PROVE Lock'
  BY <1>0, <1>8 DEF Down
<1>9. ASSUME NEW p \in Procs, DownInterrupted(p) PROVE Lock'
  BY <1>0, <1>9 DEF DownInterrupted
<1>10. ASSUME NEW p \in Procs, Open(p) PROVE Lock'
  BY <1>0, <1>10 DEF Open
<1>11. ASSUME NEW p \in Procs, OpenNoMem(p) PROVE Lock'
  BY <1>0, <1>11 DEF OpenNoMem
<1>12. ASSUME NEW p \in Procs, Release(p) PROVE Lock'
  BY <1>0, <1>12 DEF Release
<1>13. ASSUME NEW p \in Procs, ReadEmpty(p) PROVE Lock'
  BY <1>0, <1>13 DEF ReadEmpty
<1>14. ASSUME NEW p \in Procs, ReadWrap(p) PROVE Lock'
  BY <1>0, <1>14 DEF ReadWrap
<1>15. ASSUME NEW p \in Procs, ReadWake(p) PROVE Lock'
  BY <1>0, <1>15 DEF ReadWake
<1>16. ASSUME NEW p \in Procs, ReadPrepare(p) PROVE Lock'
  BY <1>0, <1>16 DEF ReadPrepare
<1>17. ASSUME NEW p \in Procs, ReadCheck(p) PROVE Lock'
  BY <1>0, <1>17 DEF ReadCheck
<1>18. ASSUME NEW p \in Procs, ReadWoken(p) PROVE Lock'
  BY <1>0, <1>18 DEF ReadWoken
<1>19. ASSUME NEW p \in Procs, WriteFull(p) PROVE Lock'
  BY <1>0, <1>19 DEF WriteFull
<1>20. ASSUME NEW p \in Procs, WriteWrap(p) PROVE Lock'
  BY <1>0, <1>20 DEF WriteWrap
<1>21. ASSUME NEW p \in Procs, WriteWake(p) PROVE Lock'
  BY <1>0, <1>21 DEF WriteWake
<1>22. ASSUME NEW p \in Procs, WritePrepare(p) PROVE Lock'
  BY <1>0, <1>22 DEF WritePrepare
<1>23. ASSUME NEW p \in Procs, WriteCheck(p) PROVE Lock'
  BY <1>0, <1>23 DEF WriteCheck
<1>24. ASSUME NEW p \in Procs, WriteWoken(p) PROVE Lock'
  BY <1>0, <1>24 DEF WriteWoken
<1>25. ASSUME NEW p \in Procs, WriteFinish(p) PROVE Lock'
  BY <1>0, <1>25 DEF WriteFinish
<1>26. ASSUME NEW p \in Procs, Fault(p) PROVE Lock'
  BY <1>0, <1>26 DEF Fault
<1>27. ASSUME NEW p \in Procs, Poll(p) PROVE Lock'
  BY <1>0, <1>27 DEF Poll
<1>28. ASSUME NEW p \in Procs, PollWoken(p) PROVE Lock'
  BY <1>0, <1>28 DEF PollWoken
<1>29. ASSUME NEW p \in Procs, NEW n \in Counts, ReadCopy(p, n) PROVE Lock'
  BY <1>0, <1>29 DEF ReadCopy
<1>30. ASSUME NEW p \in Procs, NEW n \in Counts, WriteCopy(p, n) PROVE Lock'
  BY <1>0, <1>30 DEF WriteCopy
<1>31. ASSUME NEW s \in Sizes, SetSize(s) PROVE Lock'
  BY <1>0, <1>31 DEF SetSize
<1>32. CASE UNCHANGED vars
  BY <1>0, <1>32 DEF vars
<1> QED
  BY <1>1, <1>2, <1>3, <1>4, <1>5, <1>6, <1>7, <1>8, <1>9, <1>10, <1>11,
     <1>12, <1>13, <1>14, <1>15, <1>16, <1>17, <1>18, <1>19, <1>20,
     <1>21, <1>22, <1>23, <1>24, <1>25, <1>26, <1>27, <1>28, <1>29,
     <1>30, <1>31, <1>32
  DEF Next, User, Kernel

(* Every step keeps the pointers in range.                                 *)
LEMMA RangeStep == IInv /\ [Next]_vars => PointersInRange'
<1> SUFFICES ASSUME IInv, [Next]_vars PROVE PointersInRange'
  OBVIOUS
<1> USE DEF PointersInRange, Opened, end, pointers, counts, queues, up, At, Goto, Leave, Outside, Locked, AfterDown
<1>0. TypeOK /\ Lock /\ PointersInRange /\ pc \in [Procs -> Labels]
  BY DEF IInv, TypeOK
<1>1. ASSUME NEW p \in Procs, CallOpen(p) PROVE PointersInRange'
  BY <1>0, <1>1 DEF CallOpen
<1>2. ASSUME NEW p \in Procs, CallRead(p) PROVE PointersInRange'
  BY <1>0, <1>2 DEF CallRead
<1>3. ASSUME NEW p \in Procs, CallWrite(p) PROVE PointersInRange'
  BY <1>0, <1>3 DEF CallWrite
<1>4. ASSUME NEW p \in Procs, CallPoll(p) PROVE PointersInRange'
  BY <1>0, <1>4 DEF CallPoll
<1>5. ASSUME NEW p \in Procs, CallRelease(p) PROVE PointersInRange'
  BY <1>0, <1>5 DEF CallRelease
<1>6. ASSUME NEW p \in Procs, Fasync(p) PROVE PointersInRange'
  BY <1>0, <1>6 DEF Fasync
<1>7. ASSUME NEW p \in Procs, Signal(p) PROVE PointersInRange'
  BY <1>0, <1>7 DEF Signal
<1>8. ASSUME NEW p \in Procs, Down(p) PROVE PointersInRange'
  BY <1>0, <1>8 DEF Down
<1>9. ASSUME NEW p \in Procs, DownInterrupted(p) PROVE PointersInRange'
  BY <1>0, <1>9 DEF DownInterrupted
<1>10. ASSUME NEW p \in Procs, Open(p) PROVE PointersInRange'
  BY <1>0, <1>10, SizesAssumption DEF Open, TypeOK, Lock
<1>11. ASSUME NEW p \in Procs, OpenNoMem(p) PROVE PointersInRange'
  BY <1>0, <1>11 DEF OpenNoMem
<1>12. ASSUME NEW p \in Procs, Release(p) PROVE PointersInRange'
  BY <1>0, <1>12 DEF Release
<1>13. ASSUME NEW p \in Procs, ReadEmpty(p) PROVE PointersInRange'
  BY <1>0, <1>13 DEF ReadEmpty
<1>14. ASSUME NEW p \in Procs, ReadWrap(p) PROVE PointersInRange'
  BY <1>0, <1>14, SizesAssumption DEF ReadWrap, TypeOK, Lock
<1>15. ASSUME NEW p \in Procs, ReadWake(p) PROVE PointersInRange'
  BY <1>0, <1>15 DEF ReadWake
<1>16. ASSUME NEW p \in Procs, ReadPrepare(p) PROVE PointersInRange'
  BY <1>0, <1>16 DEF ReadPrepare
<1>17. ASSUME NEW p \in Procs, ReadCheck(p) PROVE PointersInRange'
  BY <1>0, <1>17 DEF ReadCheck
<1>18. ASSUME NEW p \in Procs, ReadWoken(p) PROVE PointersInRange'
  BY <1>0, <1>18 DEF ReadWoken
<1>19. ASSUME NEW p \in Procs, WriteFull(p) PROVE PointersInRange'
  BY <1>0, <1>19 DEF WriteFull
<1>20. ASSUME NEW p \in Procs, WriteWrap(p) PROVE PointersInRange'
  BY <1>0, <1>20, SizesAssumption DEF WriteWrap, TypeOK, Lock
<1>21. ASSUME NEW p \in Procs, WriteWake(p) PROVE PointersInRange'
  BY <1>0, <1>21 DEF WriteWake
<1>22. ASSUME NEW p \in Procs, WritePrepare(p) PROVE PointersInRange'
  BY <1>0, <1>22 DEF WritePrepare
<1>23. ASSUME NEW p \in Procs, WriteCheck(p) PROVE PointersInRange'
  BY <1>0, <1>23 DEF WriteCheck
<1>24. ASSUME NEW p \in Procs, WriteWoken(p) PROVE PointersInRange'
  BY <1>0, <1>24 DEF WriteWoken
<1>25. ASSUME NEW p \in Procs, WriteFinish(p) PROVE PointersInRange'
  BY <1>0, <1>25 DEF WriteFinish
<1>26. ASSUME NEW p \in Procs, Fault(p) PROVE PointersInRange'
  BY <1>0, <1>26 DEF Fault
<1>27. ASSUME NEW p \in Procs, Poll(p) PROVE PointersInRange'
  BY <1>0, <1>27 DEF Poll
<1>28. ASSUME NEW p \in Procs, PollWoken(p) PROVE PointersInRange'
  BY <1>0, <1>28 DEF PollWoken
<1>29. ASSUME NEW p \in Procs, NEW n \in Counts, ReadCopy(p, n) PROVE PointersInRange'
  <2>1. min(n, readable) \in Nat /\ rp + min(n, readable) <= end
    BY <1>29, ReadableRange, SizesAssumption DEF ReadCopy, min, IInv, TypeOK
  <2> QED  BY <1>0, <1>29, <2>1 DEF ReadCopy, TypeOK, Lock
<1>30. ASSUME NEW p \in Procs, NEW n \in Counts, WriteCopy(p, n) PROVE PointersInRange'
  <2>1. min(n, writable) \in Nat /\ wp + min(n, writable) <= end
    BY <1>30, WritableRange, SizesAssumption DEF WriteCopy, min, IInv, TypeOK
  <2> QED  BY <1>0, <1>30, <2>1 DEF WriteCopy, TypeOK, Lock
<1>31. ASSUME NEW s \in Sizes, SetSize(s) PROVE PointersInRange'
  BY <1>0, <1>31 DEF SetSize
<1>32. CASE UNCHANGED vars
  BY <1>0, <1>32 DEF vars
<1> QED
  BY <1>1, <1>2, <1>3, <1>4, <1>5, <1>6, <1>7, <1>8, <1>9, <1>10, <1>11,
     <1>12, <1>13, <1>14, <1>15, <1>16, <1>17, <1>18, <1>19, <1>20,
     <1>21, <1>22, <1>23, <1>24, <1>25, <1>26, <1>27, <1>28, <1>29,
     <1>30, <1>31, <1>32
  DEF Next, User, Kernel


(* The parts of the invariant hold in every reachable state.               *)
THEOREM Invariance == Spec => []IInv
<1>1. IInv /\ [Next]_vars => IInv'
  BY TypeStep, LockStep, RangeStep DEF IInv
<1> QED  BY InitIInv, <1>1, PTL DEF Spec

(* scull_pipe keeps the type of every variable.                            *)
THEOREM TypeCorrect == Spec => []TypeOK
<1>1. IInv => TypeOK
  BY DEF IInv
<1> QED  BY Invariance, <1>1, PTL

(* rp and wp never leave the buffer that the last open laid out, for any   *)
(* number of processes that sleep, fail, open and resize.                  *)
THEOREM PointersStayInRange == Spec => []PointersInRange
<1>1. IInv => PointersInRange
  BY DEF IInv
<1> QED  BY Invariance, <1>1, PTL

(* Every path releases the semaphore exactly once.                         *)
THEOREM SemaphoreExact == Spec => []SemExact
<1>1. IInv => SemExact
  <2> SUFFICES ASSUME IInv PROVE SemExact
    OBVIOUS
  <2>1. Lock
    BY DEF IInv
  <2>2. CASE sem = 1
    <3>1. Holders = {}
      BY <2>1, <2>2 DEF Lock, Holders
    <3> QED  BY <2>2, <3>1, FS_EmptySet DEF SemExact
  <2>3. CASE sem = 0
    <3>1. PICK p \in Procs : pc[p] \in Locked
      BY <2>1, <2>3 DEF Lock
    <3>2. Holders = {p}
      BY <2>1, <3>1 DEF Lock, Holders
    <3> QED  BY <2>3, <3>2, FS_Singleton DEF SemExact
  <2> QED  BY <2>1, <2>2, <2>3 DEF Lock
<1> QED  BY Invariance, <1>1, PTL

(* At every step the types hold and the semaphore is free exactly when    *)
(* nobody is inside: both halves of the invariant the run checks.          *)
THEOREM InvariantKept == Spec => []Inv
<1>1. TypeOK /\ SemExact => Inv
  BY DEF Inv
<1> QED  BY TypeCorrect, SemaphoreExact, <1>1, PTL

----------------------------------------------------------------------------
(* Every step keeps the asynchronous readers among the open files.         *)
LEMMA AsyncStep == IInv /\ AsyncOpen /\ [Next]_vars => AsyncOpen'
<1> SUFFICES ASSUME IInv /\ AsyncOpen, [Next]_vars PROVE AsyncOpen'
  OBVIOUS
<1> USE DEF AsyncOpen, Opened, pointers, counts, queues, At, Goto, Leave, Outside, Locked, AfterDown
<1>0. async \subseteq Procs /\ pc \in [Procs -> Labels] /\ AsyncOpen
  BY DEF IInv, TypeOK
<1>1. ASSUME NEW p \in Procs, CallOpen(p) PROVE AsyncOpen'
  BY <1>0, <1>1 DEF CallOpen
<1>2. ASSUME NEW p \in Procs, CallRead(p) PROVE AsyncOpen'
  BY <1>0, <1>2 DEF CallRead
<1>3. ASSUME NEW p \in Procs, CallWrite(p) PROVE AsyncOpen'
  BY <1>0, <1>3 DEF CallWrite
<1>4. ASSUME NEW p \in Procs, CallPoll(p) PROVE AsyncOpen'
  BY <1>0, <1>4 DEF CallPoll
<1>5. ASSUME NEW p \in Procs, CallRelease(p) PROVE AsyncOpen'
  BY <1>0, <1>5 DEF CallRelease
<1>6. ASSUME NEW p \in Procs, Fasync(p) PROVE AsyncOpen'
  BY <1>0, <1>6 DEF Fasync
<1>7. ASSUME NEW p \in Procs, Signal(p) PROVE AsyncOpen'
  BY <1>0, <1>7 DEF Signal
<1>8. ASSUME NEW p \in Procs, Down(p) PROVE AsyncOpen'
  BY <1>0, <1>8 DEF Down
<1>9. ASSUME NEW p \in Procs, DownInterrupted(p) PROVE AsyncOpen'
  BY <1>0, <1>9 DEF DownInterrupted
<1>10. ASSUME NEW p \in Procs, Open(p) PROVE AsyncOpen'
  BY <1>0, <1>10 DEF Open
<1>11. ASSUME NEW p \in Procs, OpenNoMem(p) PROVE AsyncOpen'
  BY <1>0, <1>11 DEF OpenNoMem
<1>12. ASSUME NEW p \in Procs, Release(p) PROVE AsyncOpen'
  BY <1>0, <1>12 DEF Release
<1>13. ASSUME NEW p \in Procs, ReadEmpty(p) PROVE AsyncOpen'
  BY <1>0, <1>13 DEF ReadEmpty
<1>14. ASSUME NEW p \in Procs, ReadWrap(p) PROVE AsyncOpen'
  BY <1>0, <1>14 DEF ReadWrap
<1>15. ASSUME NEW p \in Procs, ReadWake(p) PROVE AsyncOpen'
  BY <1>0, <1>15 DEF ReadWake
<1>16. ASSUME NEW p \in Procs, ReadPrepare(p) PROVE AsyncOpen'
  BY <1>0, <1>16 DEF ReadPrepare
<1>17. ASSUME NEW p \in Procs, ReadCheck(p) PROVE AsyncOpen'
  BY <1>0, <1>17 DEF ReadCheck
<1>18. ASSUME NEW p \in Procs, ReadWoken(p) PROVE AsyncOpen'
  BY <1>0, <1>18 DEF ReadWoken
<1>19. ASSUME NEW p \in Procs, WriteFull(p) PROVE AsyncOpen'
  BY <1>0, <1>19 DEF WriteFull
<1>20. ASSUME NEW p \in Procs, WriteWrap(p) PROVE AsyncOpen'
  BY <1>0, <1>20 DEF WriteWrap
<1>21. ASSUME NEW p \in Procs, WriteWake(p) PROVE AsyncOpen'
  BY <1>0, <1>21 DEF WriteWake
<1>22. ASSUME NEW p \in Procs, WritePrepare(p) PROVE AsyncOpen'
  BY <1>0, <1>22 DEF WritePrepare
<1>23. ASSUME NEW p \in Procs, WriteCheck(p) PROVE AsyncOpen'
  BY <1>0, <1>23 DEF WriteCheck
<1>24. ASSUME NEW p \in Procs, WriteWoken(p) PROVE AsyncOpen'
  BY <1>0, <1>24 DEF WriteWoken
<1>25. ASSUME NEW p \in Procs, WriteFinish(p) PROVE AsyncOpen'
  BY <1>0, <1>25 DEF WriteFinish
<1>26. ASSUME NEW p \in Procs, Fault(p) PROVE AsyncOpen'
  BY <1>0, <1>26 DEF Fault
<1>27. ASSUME NEW p \in Procs, Poll(p) PROVE AsyncOpen'
  BY <1>0, <1>27 DEF Poll
<1>28. ASSUME NEW p \in Procs, PollWoken(p) PROVE AsyncOpen'
  BY <1>0, <1>28 DEF PollWoken
<1>29. ASSUME NEW p \in Procs, NEW n \in Counts, ReadCopy(p, n) PROVE AsyncOpen'
  BY <1>0, <1>29 DEF ReadCopy
<1>30. ASSUME NEW p \in Procs, NEW n \in Counts, WriteCopy(p, n) PROVE AsyncOpen'
  BY <1>0, <1>30 DEF WriteCopy
<1>31. ASSUME NEW s \in Sizes, SetSize(s) PROVE AsyncOpen'
  BY <1>0, <1>31 DEF SetSize
<1>32. CASE UNCHANGED vars
  BY <1>0, <1>32 DEF vars
<1> QED
  BY <1>1, <1>2, <1>3, <1>4, <1>5, <1>6, <1>7, <1>8, <1>9, <1>10, <1>11,
     <1>12, <1>13, <1>14, <1>15, <1>16, <1>17, <1>18, <1>19, <1>20,
     <1>21, <1>22, <1>23, <1>24, <1>25, <1>26, <1>27, <1>28, <1>29,
     <1>30, <1>31, <1>32
  DEF Next, User, Kernel

(* Only open files are on the list that kill_fasync() walks.               *)
THEOREM AsyncReadersOpen == Spec => []AsyncOpen
<1>1. Init => AsyncOpen
  BY DEF Init, AsyncOpen
<1>2. IInv /\ IInv' /\ AsyncOpen /\ [Next]_vars => AsyncOpen'
  BY AsyncStep
<1> QED  BY Invariance, <1>1, <1>2, PTL DEF Spec

(* A reader, or a poller that wants to read, that nobody has woken yet.    *)
SleepsForBytes(p) ==
    p \in inq /\ (At(p, "r_sleep") \/ (At(p, "p_sleep") /\ p \in Readers /\ p \in outq))

(* A step that moves no pointer, lets no writer past its wake-up, and puts *)
(* nobody to sleep beside stored bytes.                                    *)
LEMMA SameBytes ==
  ASSUME ReaderWakeup, UNCHANGED <<rp, wp>>,
         \A w \in Procs : At(w, "w_wake") \/ At(w, "w_wrap")
                             => At(w, "w_wake")' \/ At(w, "w_wrap")',
         \A q \in inq' : SleepsForBytes(q)' => SleepsForBytes(q) \/ rp = wp
  PROVE  ReaderWakeup'
BY DEF ReaderWakeup, SleepsForBytes

(* A step that stores bytes is followed by a wake-up of the readers; every *)
(* other step keeps the promise.                                           *)
LEMMA WakeupStep == IInv /\ ReaderWakeup /\ [Next]_vars => ReaderWakeup'
<1> SUFFICES ASSUME IInv /\ ReaderWakeup, [Next]_vars PROVE ReaderWakeup'
  OBVIOUS
<1> USE DEF ReaderWakeup, pointers, counts, queues, At, Goto, Leave, Outside, Locked, AfterDown
<1>0. TypeOK /\ pc \in [Procs -> Labels] /\ inq \subseteq Procs /\ ReaderWakeup
  BY DEF IInv, TypeOK
<1>1. ASSUME NEW p \in Procs, CallOpen(p) PROVE ReaderWakeup'
  BY <1>0, <1>1 DEF CallOpen
<1>2. ASSUME NEW p \in Procs, CallRead(p) PROVE ReaderWakeup'
  BY <1>0, <1>2 DEF CallRead
<1>3. ASSUME NEW p \in Procs, CallWrite(p) PROVE ReaderWakeup'
  BY <1>0, <1>3 DEF CallWrite
<1>4. ASSUME NEW p \in Procs, CallPoll(p) PROVE ReaderWakeup'
  BY <1>0, <1>4 DEF CallPoll
<1>5. ASSUME NEW p \in Procs, CallRelease(p) PROVE ReaderWakeup'
  BY <1>0, <1>5 DEF CallRelease
<1>6. ASSUME NEW p \in Procs, Fasync(p) PROVE ReaderWakeup'
  BY <1>0, <1>6 DEF Fasync
<1>7. ASSUME NEW p \in Procs, Signal(p) PROVE ReaderWakeup'
  BY <1>0, <1>7 DEF Signal
<1>8. ASSUME NEW p \in Procs, Down(p) PROVE ReaderWakeup'
  BY <1>0, <1>8 DEF Down
<1>9. ASSUME NEW p \in Procs, DownInterrupted(p) PROVE ReaderWakeup'
  BY <1>0, <1>9 DEF DownInterrupted
<1>10. ASSUME NEW p \in Procs, Open(p) PROVE ReaderWakeup'
  BY <1>0, <1>10 DEF Open
<1>11. ASSUME NEW p \in Procs, OpenNoMem(p) PROVE ReaderWakeup'
  BY <1>0, <1>11 DEF OpenNoMem
<1>12. ASSUME NEW p \in Procs, Release(p) PROVE ReaderWakeup'
  BY <1>0, <1>12 DEF Release
<1>13. ASSUME NEW p \in Procs, ReadEmpty(p) PROVE ReaderWakeup'
  BY <1>0, <1>13 DEF ReadEmpty
<1>14. ASSUME NEW p \in Procs, ReadWrap(p) PROVE ReaderWakeup'
  <2>1. rp = end => rp # wp
    BY <1>0, <1>14, SizesAssumption DEF IInv, TypeOK, PointersInRange, Lock, Opened, end, ReadWrap
  <2> QED  BY <1>0, <1>14, <2>1 DEF ReadWrap
<1>15. ASSUME NEW p \in Procs, ReadWake(p) PROVE ReaderWakeup'
  BY <1>0, <1>15 DEF ReadWake
<1>16. ASSUME NEW p \in Procs, ReadPrepare(p) PROVE ReaderWakeup'
  BY <1>0, <1>16 DEF ReadPrepare
<1>17. ASSUME NEW p \in Procs, ReadCheck(p) PROVE ReaderWakeup'
  <2>1. \A w \in Procs : At(w, "w_wake") \/ At(w, "w_wrap")
                             => At(w, "w_wake")' \/ At(w, "w_wrap")'
    BY <1>0, <1>17 DEF ReadCheck
  <2>2. \A q \in inq' : SleepsForBytes(q)' => SleepsForBytes(q) \/ rp = wp
    BY <1>0, <1>17 DEF ReadCheck, SleepsForBytes
  <2> QED  BY <1>0, <1>17, <2>1, <2>2, SameBytes DEF ReadCheck
<1>18. ASSUME NEW p \in Procs, ReadWoken(p) PROVE ReaderWakeup'
  BY <1>0, <1>18 DEF ReadWoken
<1>19. ASSUME NEW p \in Procs, WriteFull(p) PROVE ReaderWakeup'
  <2>1. \A w \in Procs : At(w, "w_wake") \/ At(w, "w_wrap")
                             => At(w, "w_wake")' \/ At(w, "w_wrap")'
    BY <1>0, <1>19 DEF WriteFull
  <2>2. \A q \in inq' : SleepsForBytes(q)' => SleepsForBytes(q) \/ rp = wp
    BY <1>0, <1>19 DEF WriteFull, SleepsForBytes
  <2> QED  BY <1>0, <1>19, <2>1, <2>2, SameBytes DEF WriteFull
<1>20. ASSUME NEW p \in Procs, WriteWrap(p) PROVE ReaderWakeup'
  BY <1>0, <1>20 DEF WriteWrap
<1>21. ASSUME NEW p \in Procs, WriteWake(p) PROVE ReaderWakeup'
  BY <1>0, <1>21 DEF WriteWake
<1>22. ASSUME NEW p \in Procs, WritePrepare(p) PROVE ReaderWakeup'
  BY <1>0, <1>22 DEF WritePrepare
<1>23. ASSUME NEW p \in Procs, WriteCheck(p) PROVE ReaderWakeup'
  BY <1>0, <1>23 DEF WriteCheck
<1>24. ASSUME NEW p \in Procs, WriteWoken(p) PROVE ReaderWakeup'
  BY <1>0, <1>24 DEF WriteWoken
<1>25. ASSUME NEW p \in Procs, WriteFinish(p) PROVE ReaderWakeup'
  <2>1. \A w \in Procs : At(w, "w_wake") \/ At(w, "w_wrap")
                             => At(w, "w_wake")' \/ At(w, "w_wrap")'
    BY <1>0, <1>25 DEF WriteFinish
  <2>2. \A q \in inq' : SleepsForBytes(q)' => SleepsForBytes(q) \/ rp = wp
    BY <1>0, <1>25 DEF WriteFinish, SleepsForBytes
  <2> QED  BY <1>0, <1>25, <2>1, <2>2, SameBytes DEF WriteFinish
<1>26. ASSUME NEW p \in Procs, Fault(p) PROVE ReaderWakeup'
  BY <1>0, <1>26 DEF Fault
<1>27. ASSUME NEW p \in Procs, Poll(p) PROVE ReaderWakeup'
  <2>1. \A w \in Procs : At(w, "w_wake") \/ At(w, "w_wrap")
                             => At(w, "w_wake")' \/ At(w, "w_wrap")'
    BY <1>0, <1>27 DEF Poll, Ready
  <2>2. \A q \in inq' : SleepsForBytes(q)' => SleepsForBytes(q) \/ rp = wp
    BY <1>0, <1>27 DEF Poll, Ready, SleepsForBytes
  <2> QED  BY <1>0, <1>27, <2>1, <2>2, SameBytes DEF Poll
<1>28. ASSUME NEW p \in Procs, PollWoken(p) PROVE ReaderWakeup'
  <2>1. \A w \in Procs : At(w, "w_wake") \/ At(w, "w_wrap")
                             => At(w, "w_wake")' \/ At(w, "w_wrap")'
    BY <1>0, <1>28 DEF PollWoken
  <2>2. \A q \in inq' : SleepsForBytes(q)' => SleepsForBytes(q) \/ rp = wp
    BY <1>0, <1>28 DEF PollWoken, SleepsForBytes
  <2> QED  BY <1>0, <1>28, <2>1, <2>2, SameBytes DEF PollWoken
<1>29. ASSUME NEW p \in Procs, NEW n \in Counts, ReadCopy(p, n) PROVE ReaderWakeup'
  BY <1>0, <1>29 DEF ReadCopy
<1>30. ASSUME NEW p \in Procs, NEW n \in Counts, WriteCopy(p, n) PROVE ReaderWakeup'
  BY <1>0, <1>30 DEF WriteCopy
<1>31. ASSUME NEW s \in Sizes, SetSize(s) PROVE ReaderWakeup'
  BY <1>0, <1>31 DEF SetSize
<1>32. CASE UNCHANGED vars
  BY <1>0, <1>32 DEF vars
<1> QED
  BY <1>1, <1>2, <1>3, <1>4, <1>5, <1>6, <1>7, <1>8, <1>9, <1>10, <1>11,
     <1>12, <1>13, <1>14, <1>15, <1>16, <1>17, <1>18, <1>19, <1>20,
     <1>21, <1>22, <1>23, <1>24, <1>25, <1>26, <1>27, <1>28, <1>29,
     <1>30, <1>31, <1>32
  DEF Next, User, Kernel

(* No reader and no poller is left asleep beside stored bytes: the wake-up *)
(* of every write is still to come, although the tests are made without    *)
(* the semaphore.                                                          *)
THEOREM ReadersWoken == Spec => []ReaderWakeup
<1>1. Init => ReaderWakeup
  BY DEF Init, ReaderWakeup, At
<1>2. IInv /\ IInv' /\ ReaderWakeup /\ [Next]_vars => ReaderWakeup'
  BY WakeupStep
<1> QED  BY Invariance, <1>1, <1>2, PTL DEF Spec

(* The counters of the device count its open files, and the buffer exists  *)
(* exactly while there is one.                                             *)
OpenFiles(S) == {p \in S : Opened(p)}

FilesCounted == /\ nreaders = Cardinality(OpenFiles(Readers))
                /\ nwriters = Cardinality(OpenFiles(Writers))
                /\ BufferLifetime

(* Sets of processes can be counted.                                       *)
LEMMA ProcsCountable ==
  ASSUME NEW S, S \subseteq Procs
  PROVE  IsFiniteSet(S) /\ Cardinality(S) \in Nat
BY ProcsAssumption, FS_Subset, FS_CardinalityType

(* A step that opens and closes nothing and leaves the buffer where it is. *)
LEMMA SameFiles ==
  ASSUME FilesCounted, UNCHANGED <<alloc, counts>>,
         \A q \in Procs : Opened(q)' <=> Opened(q)
  PROVE  FilesCounted'
<1>1. OpenFiles(Readers)' = OpenFiles(Readers) /\ OpenFiles(Writers)' = OpenFiles(Writers)
  BY ProcsAssumption DEF OpenFiles
<1>2. BufferLifetime'
  BY DEF FilesCounted, BufferLifetime
<1> QED  BY <1>1, <1>2 DEF FilesCounted, counts

(* The last step of an open counts the file, and the buffer is there.      *)
LEMMA OpenCounts ==
  ASSUME IInv, FilesCounted, NEW p \in Procs, Open(p)
  PROVE  FilesCounted'
<1>1. /\ ~Opened(p) /\ Opened(p)'
      /\ \A q \in Procs \ {p} : Opened(q)' <=> Opened(q)
  BY DEF Open, Leave, Goto, At, Opened, IInv, TypeOK
<1>2. ASSUME NEW S \in SUBSET Procs
      PROVE  Cardinality(OpenFiles(S))' = Cardinality(OpenFiles(S)) + (IF p \in S THEN 1 ELSE 0)
  <2>1. OpenFiles(S)' = IF p \in S THEN OpenFiles(S) \cup {p} ELSE OpenFiles(S)
    BY <1>1 DEF OpenFiles
  <2>2. p \notin OpenFiles(S) /\ IsFiniteSet(OpenFiles(S)) /\ Cardinality(OpenFiles(S)) \in Nat
    BY <1>1, ProcsCountable DEF OpenFiles
  <2>3. Cardinality(OpenFiles(S) \cup {p}) = Cardinality(OpenFiles(S)) + 1
    BY <2>2, FS_AddElement
  <2> QED  BY <2>1, <2>2, <2>3
<1>3. Readers \subseteq Procs /\ Writers \subseteq Procs
  BY ProcsAssumption
<1>4. alloc' # 0
  BY SizesAssumption DEF Open, IInv, TypeOK
<1>5. BufferLifetime'
  BY <1>1, <1>4 DEF BufferLifetime
<1> QED  BY <1>2, <1>3, <1>5 DEF Open, FilesCounted

(* The last step of a close: the buffer goes with the last file.           *)
LEMMA ReleaseCounts ==
  ASSUME IInv, FilesCounted, NEW p \in Procs, Release(p)
  PROVE  FilesCounted'
<1>1. /\ Opened(p) /\ ~Opened(p)'
      /\ \A q \in Procs \ {p} : Opened(q)' <=> Opened(q)
  BY DEF Release, Leave, Goto, At, Opened, IInv, TypeOK
<1>2. ASSUME NEW S \in SUBSET Procs
      PROVE  Cardinality(OpenFiles(S))' = Cardinality(OpenFiles(S)) - (IF p \in S THEN 1 ELSE 0)
  <2>1. OpenFiles(S)' = OpenFiles(S) \ {p}
    BY <1>1 DEF OpenFiles
  <2>2. (p \in OpenFiles(S) <=> p \in S) /\ IsFiniteSet(OpenFiles(S)) /\ Cardinality(OpenFiles(S)) \in Nat
    BY <1>1, ProcsCountable DEF OpenFiles
  <2>3. Cardinality(OpenFiles(S) \ {p}) =
          IF p \in OpenFiles(S) THEN Cardinality(OpenFiles(S)) - 1 ELSE Cardinality(OpenFiles(S))
    BY <2>2, FS_RemoveElement
  <2> QED  BY <2>1, <2>2, <2>3
<1>3. Readers \subseteq Procs /\ Writers \subseteq Procs
  BY ProcsAssumption
<1>4. /\ nreaders' = Cardinality(OpenFiles(Readers)')
      /\ nwriters' = Cardinality(OpenFiles(Writers)')
  BY <1>2, <1>3 DEF Release, FilesCounted
<1>5. nreaders' + nwriters' = 0 <=> \A q \in Procs : ~Opened(q)'
  <2>1. \A S \in SUBSET Procs : /\ Cardinality(OpenFiles(S)') \in Nat
                                /\ Cardinality(OpenFiles(S)') = 0 <=> OpenFiles(S)' = {}
    BY ProcsCountable, FS_EmptySet DEF OpenFiles
  <2>2. nreaders' + nwriters' = 0 <=> OpenFiles(Readers)' = {} /\ OpenFiles(Writers)' = {}
    BY <1>3, <1>4, <2>1
  <2> QED  BY <2>2, ProcsAssumption DEF OpenFiles
<1>6. alloc # 0
  BY <1>1 DEF FilesCounted, BufferLifetime
<1>7. BufferLifetime'
  BY <1>5, <1>6 DEF BufferLifetime, Release
<1> QED  BY <1>4, <1>7 DEF FilesCounted

(* Every step keeps the count.                                             *)
LEMMA FilesStep == IInv /\ FilesCounted /\ [Next]_vars => FilesCounted'
<1> SUFFICES ASSUME IInv /\ FilesCounted, [Next]_vars PROVE FilesCounted'
  OBVIOUS
<1> USE DEF Opened, pointers, counts, queues, At, Goto, Leave, Outside, Locked, AfterDown
<1>0. pc \in [Procs -> Labels] /\ FilesCounted
  BY DEF IInv, TypeOK
<1>1. ASSUME NEW p \in Procs, CallOpen(p) PROVE FilesCounted'
  BY <1>0, <1>1, SameFiles DEF CallOpen
<1>2. ASSUME NEW p \in Procs, CallRead(p) PROVE FilesCounted'
  BY <1>0, <1>2, SameFiles DEF CallRead
<1>3. ASSUME NEW p \in Procs, CallWrite(p) PROVE FilesCounted'
  BY <1>0, <1>3, SameFiles DEF CallWrite
<1>4. ASSUME NEW p \in Procs, CallPoll(p) PROVE FilesCounted'
  BY <1>0, <1>4, SameFiles DEF CallPoll
<1>5. ASSUME NEW p \in Procs, CallRelease(p) PROVE FilesCounted'
  BY <1>0, <1>5, SameFiles DEF CallRelease
<1>6. ASSUME NEW p \in Procs, Fasync(p) PROVE FilesCounted'
  BY <1>0, <1>6, SameFiles DEF Fasync
<1>7. ASSUME NEW p \in Procs, Signal(p) PROVE FilesCounted'
  BY <1>0, <1>7, SameFiles DEF Signal
<1>8. ASSUME NEW p \in Procs, Down(p) PROVE FilesCounted'
  BY <1>0, <1>8, SameFiles DEF Down
<1>9. ASSUME NEW p \in Procs, DownInterrupted(p) PROVE FilesCounted'
  BY <1>0, <1>9, SameFiles DEF DownInterrupted
<1>10. ASSUME NEW p \in Procs, Open(p) PROVE FilesCounted'
  BY <1>10, OpenCounts
<1>11. ASSUME NEW p \in Procs, OpenNoMem(p) PROVE FilesCounted'
  BY <1>0, <1>11, SameFiles DEF OpenNoMem
<1>12. ASSUME NEW p \in Procs, Release(p) PROVE FilesCounted'
  BY <1>12, ReleaseCounts
<1>13. ASSUME NEW p \in Procs, ReadEmpty(p) PROVE FilesCounted'
  BY <1>0, <1>13, SameFiles DEF ReadEmpty
<1>14. ASSUME NEW p \in Procs, ReadWrap(p) PROVE FilesCounted'
  BY <1>0, <1>14, SameFiles DEF ReadWrap
<1>15. ASSUME NEW p \in Procs, ReadWake(p) PROVE FilesCounted'
  BY <1>0, <1>15, SameFiles DEF ReadWake
<1>16. ASSUME NEW p \in Procs, ReadPrepare(p) PROVE FilesCounted'
  BY <1>0, <1>16, SameFiles DEF ReadPrepare
<1>17. ASSUME NEW p \in Procs, ReadCheck(p) PROVE FilesCounted'
  BY <1>0, <1>17, SameFiles DEF ReadCheck
<1>18. ASSUME NEW p \in Procs, ReadWoken(p) PROVE FilesCounted'
  BY <1>0, <1>18, SameFiles DEF ReadWoken
<1>19. ASSUME NEW p \in Procs, WriteFull(p) PROVE FilesCounted'
  BY <1>0, <1>19, SameFiles DEF WriteFull
<1>20. ASSUME NEW p \in Procs, WriteWrap(p) PROVE FilesCounted'
  BY <1>0, <1>20, SameFiles DEF WriteWrap
<1>21. ASSUME NEW p \in Procs, WriteWake(p) PROVE FilesCounted'
  BY <1>0, <1>21, SameFiles DEF WriteWake
<1>22. ASSUME NEW p \in Procs, WritePrepare(p) PROVE FilesCounted'
  BY <1>0, <1>22, SameFiles DEF WritePrepare
<1>23. ASSUME NEW p \in Procs, WriteCheck(p) PROVE FilesCounted'
  BY <1>0, <1>23, SameFiles DEF WriteCheck
<1>24. ASSUME NEW p \in Procs, WriteWoken(p) PROVE FilesCounted'
  BY <1>0, <1>24, SameFiles DEF WriteWoken
<1>25. ASSUME NEW p \in Procs, WriteFinish(p) PROVE FilesCounted'
  BY <1>0, <1>25, SameFiles DEF WriteFinish
<1>26. ASSUME NEW p \in Procs, Fault(p) PROVE FilesCounted'
  BY <1>0, <1>26, SameFiles DEF Fault
<1>27. ASSUME NEW p \in Procs, Poll(p) PROVE FilesCounted'
  BY <1>0, <1>27, SameFiles DEF Poll
<1>28. ASSUME NEW p \in Procs, PollWoken(p) PROVE FilesCounted'
  BY <1>0, <1>28, SameFiles DEF PollWoken
<1>29. ASSUME NEW p \in Procs, NEW n \in Counts, ReadCopy(p, n) PROVE FilesCounted'
  BY <1>0, <1>29, SameFiles DEF ReadCopy
<1>30. ASSUME NEW p \in Procs, NEW n \in Counts, WriteCopy(p, n) PROVE FilesCounted'
  BY <1>0, <1>30, SameFiles DEF WriteCopy
<1>31. ASSUME NEW s \in Sizes, SetSize(s) PROVE FilesCounted'
  BY <1>0, <1>31, SameFiles DEF SetSize
<1>32. CASE UNCHANGED vars
  BY <1>0, <1>32, SameFiles DEF vars
<1> QED
  BY <1>1, <1>2, <1>3, <1>4, <1>5, <1>6, <1>7, <1>8, <1>9, <1>10, <1>11,
     <1>12, <1>13, <1>14, <1>15, <1>16, <1>17, <1>18, <1>19, <1>20,
     <1>21, <1>22, <1>23, <1>24, <1>25, <1>26, <1>27, <1>28, <1>29,
     <1>30, <1>31, <1>32
  DEF Next, User, Kernel

(* No process inside the driver can find the buffer freed, and the last    *)
(* close frees it.                                                         *)
THEOREM BufferLivesWithFiles == Spec => []BufferLifetime
<1>1. Init => FilesCounted
  <2> SUFFICES ASSUME Init PROVE FilesCounted
    OBVIOUS
  <2>1. OpenFiles(Readers) = {} /\ OpenFiles(Writers) = {}
    BY ProcsAssumption DEF Init, OpenFiles, Opened
  <2>2. BufferLifetime
    BY DEF Init, BufferLifetime, Opened
  <2> QED  BY <2>1, <2>2, FS_EmptySet DEF Init, FilesCounted
<1>2. IInv /\ IInv' /\ FilesCounted /\ [Next]_vars => FilesCounted'
  BY FilesStep
<1>3. FilesCounted => BufferLifetime
  BY DEF FilesCounted
<1> QED  BY Invariance, <1>1, <1>2, <1>3, PTL DEF Spec

----------------------------------------------------------------------------
(* The steps that touch the buffer, its pointers, or the bytes of a user.  *)
Stores(p) == \/ Open(p) \/ Release(p) \/ ReadWrap(p) \/ ReadWake(p) \/ WriteWrap(p)
             \/ \E n \in Counts : ReadCopy(p, n) \/ WriteCopy(p, n)

(* Every other step leaves them alone.                                     *)
LEMMA StoringSteps ==
  [Next]_vars => \/ UNCHANGED <<pointers, sent, ubuf>>
                 \/ \E p \in Procs : Stores(p)
<1> SUFFICES ASSUME [Next]_vars, ~ \E p \in Procs : Stores(p)
             PROVE  UNCHANGED <<pointers, sent, ubuf>>
  OBVIOUS
<1>1. ASSUME NEW p \in Procs, User(p) PROVE UNCHANGED <<pointers, sent, ubuf>>
  BY <1>1 DEF User, CallOpen, CallRead, CallWrite, CallPoll, CallRelease, Fasync, Signal
<1>2. ASSUME NEW p \in Procs, Down(p) PROVE UNCHANGED <<pointers, sent, ubuf>>
  BY <1>2 DEF Down
<1>3. ASSUME NEW p \in Procs, Kernel(p) PROVE UNCHANGED <<pointers, sent, ubuf>>
  BY <1>3 DEF Kernel, Stores, DownInterrupted, OpenNoMem, ReadEmpty, ReadPrepare, ReadCheck,
     ReadWoken, WriteFull, WriteWake, WritePrepare, WriteCheck, WriteWoken, WriteFinish,
     Fault, Poll, PollWoken
<1>4. ASSUME NEW s \in Sizes, SetSize(s) PROVE UNCHANGED <<pointers, sent, ubuf>>
  BY <1>4 DEF SetSize
<1> QED  BY <1>1, <1>2, <1>3, <1>4 DEF Next, vars

(* A writer that fills the buffer to its end has a reader ahead of it, so  *)
(* that wrapping does not make a full buffer look empty.                   *)
Room == end # 0 /\ wp = end => rp # 0

(* The free space a writer finds, without remainders.                      *)
LEMMA FreeSpace ==
  ASSUME end \in Nat \ {0}, rp \in 0..end - 1, wp \in 0..end, Room
  PROVE  spacefree = IF wp >= rp THEN end - (wp - rp) - 1 ELSE rp - wp - 1
<1> DEFINE x == rp + end - wp
<1>1. CASE rp = wp
  BY <1>1 DEF spacefree, end
<1>2. CASE wp > rp
  <2>1. x \in 0..end - 1
    <3>1. wp - rp \in 1..end - 1
      BY <1>2 DEF Room
    <3> QED  BY <3>1
  <2>2. x % end = x
    <3>1. x \in Int
      OBVIOUS
    <3> HIDE DEF x
    <3> QED  BY <2>1, <3>1, Turn
  <2> QED  BY <1>2, <2>2 DEF spacefree, end
<1>3. CASE wp < rp
  <2>1. x \in end..(2 * end) - 1
    BY <1>3
  <2>2. x % end = x - end
    BY <2>1, Turn
  <2> QED  BY <1>3, <2>2 DEF spacefree, end
<1> QED  BY <1>1, <1>2, <1>3

(* A write never takes the byte kept free.                                 *)
LEMMA WriteFits ==
  ASSUME IInv, Room, NEW p \in Procs, NEW n \in Counts, WriteCopy(p, n)
  PROVE  /\ rp \in 0..end - 1 /\ wp \in 0..end - 1 /\ end \in Nat \ {0}
         /\ min(n, writable) \in Nat
         /\ IF wp >= rp THEN /\ min(n, writable) <= end - (wp - rp) - 1
                             /\ min(n, writable) <= end - wp
                        ELSE min(n, writable) <= rp - wp - 1
<1>1. rp \in 0..end - 1 /\ wp \in 0..end - 1 /\ end \in Nat \ {0}
  <2>1. At(p, "w_test")
    BY DEF WriteCopy
  <2>2. rp \in Nat /\ wp \in Nat /\ end \in Nat /\ end > 0 /\ rp < end /\ wp < end
    BY <2>1, SizesAssumption DEF IInv, TypeOK, PointersInRange, Lock, At, Opened, Locked, end
  <2> QED  BY <2>2
<1>2. min(n, writable) \in Nat
  <2>1. writable \in Nat
    BY WritableRange DEF WriteCopy
  <2> QED  BY <2>1, SizesAssumption DEF min
<1>3. spacefree = IF wp >= rp THEN end - (wp - rp) - 1 ELSE rp - wp - 1
  BY <1>1, FreeSpace
<1> HIDE DEF spacefree, end
<1> QED  BY <1>1, <1>2, <1>3, SizesAssumption DEF writable, min

(* Every step leaves room for the byte kept free.                          *)
LEMMA RoomStep == IInv /\ Room /\ [Next]_vars => Room'
<1> SUFFICES ASSUME IInv, Room, [Next]_vars PROVE Room'
  OBVIOUS
<1>0. TypeOK /\ PointersInRange /\ Lock
  BY DEF IInv
<1>1. CASE UNCHANGED <<pointers, sent, ubuf>>
  BY <1>1 DEF Room, end, pointers
<1>2. ASSUME NEW p \in Procs, Open(p) PROVE Room'
  BY <1>0, <1>2, SizesAssumption DEF Open, Room, end, TypeOK
<1>3. ASSUME NEW p \in Procs, Release(p) PROVE Room'
  BY <1>3 DEF Release, Room, end
<1>4. ASSUME NEW p \in Procs, ReadWrap(p) PROVE Room'
  BY <1>0, <1>4 DEF ReadWrap, Room, end, TypeOK, PointersInRange, Lock, Locked, At
<1>5. ASSUME NEW p \in Procs, ReadWake(p) PROVE Room'
  BY <1>5 DEF ReadWake, Room, end, pointers
<1>6. ASSUME NEW p \in Procs, WriteWrap(p) PROVE Room'
  BY <1>6 DEF WriteWrap, Room, end
<1>7. ASSUME NEW p \in Procs, NEW n \in Counts, ReadCopy(p, n) PROVE Room'
  <2>1. min(n, readable) \in Nat
    BY <1>7, ReadableRange, SizesAssumption DEF ReadCopy, min, IInv, TypeOK
  <2>2. rp' = rp + min(n, readable) /\ wp' = wp /\ end' = end /\ rp \in Nat
    BY <1>0, <1>7 DEF ReadCopy, end, TypeOK
  <2> QED  BY <2>1, <2>2 DEF Room
<1>8. ASSUME NEW p \in Procs, NEW n \in Counts, WriteCopy(p, n) PROVE Room'
  <2>1. wp' = wp + min(n, writable) /\ rp' = rp /\ end' = end
    BY <1>8 DEF WriteCopy, end
  <2> QED  BY <1>8, <2>1, WriteFits DEF Room
<1> QED  BY <1>1, <1>2, <1>3, <1>4, <1>5, <1>6, <1>7, <1>8, StoringSteps DEF Stores

(* The last byte of the buffer is never stored while the first is unread.  *)
LEMMA RoomKept == Spec => []Room
<1>1. Init => Room
  BY DEF Init, Room, end
<1> QED  BY Invariance, RoomStep, <1>1, PTL DEF Spec

(* Readers on their way to the wake-up of the writers.                     *)
AboutToWake(r) == At(r, "r_wake") \/ At(r, "r_wrap")

(* A step that moves no pointer, lets no reader past its wake-up, and puts *)
(* no writer to sleep beside free space.                                   *)
LEMMA SameSpace ==
  ASSUME WriterWakeup, UNCHANGED <<rp, wp, buffersize>>,
         \A r \in Procs : AboutToWake(r) => AboutToWake(r)',
         \A q \in outq' : At(q, "w_sleep")' => (q \in outq /\ At(q, "w_sleep")) \/ spacefree = 0
  PROVE  WriterWakeup'
BY DEF WriterWakeup, AboutToWake, spacefree

(* Every step but an open keeps the promise that a writer asleep beside    *)
(* free space has a wake-up coming.                                        *)
LEMMA WriterStep ==
  IInv /\ Room /\ WriterWakeup /\ [Next]_vars /\ (~ \E p \in Procs : Open(p)) => WriterWakeup'
<1> SUFFICES ASSUME IInv, Room, WriterWakeup, [Next]_vars, ~ \E p \in Procs : Open(p)
             PROVE  WriterWakeup'
  OBVIOUS
<1> USE DEF AboutToWake, pointers, counts, queues, At, Goto, Leave
<1>0. pc \in [Procs -> Labels] /\ outq \subseteq Procs
  BY DEF IInv, TypeOK
<1>1. ASSUME NEW p \in Procs, User(p) PROVE WriterWakeup'
  BY <1>0, <1>1, SameSpace DEF User, CallOpen, CallRead, CallWrite, CallPoll, CallRelease, Fasync, Signal
<1>2. ASSUME NEW p \in Procs, Down(p) PROVE WriterWakeup'
  BY <1>0, <1>2, SameSpace DEF Down, AfterDown
<1>3. ASSUME NEW p \in Procs, DownInterrupted(p) PROVE WriterWakeup'
  BY <1>0, <1>3, SameSpace DEF DownInterrupted
<1>4. ASSUME NEW p \in Procs, OpenNoMem(p) PROVE WriterWakeup'
  BY <1>0, <1>4, SameSpace DEF OpenNoMem
<1>5. ASSUME NEW p \in Procs, Release(p) PROVE WriterWakeup'
  BY <1>0, <1>5, SameSpace DEF Release
<1>6. ASSUME NEW p \in Procs, ReadEmpty(p) PROVE WriterWakeup'
  BY <1>0, <1>6, SameSpace DEF ReadEmpty
<1>7. ASSUME NEW p \in Procs, ReadWrap(p) PROVE WriterWakeup'
  <2>1. At(p, "r_wake")'
    BY <1>0, <1>7 DEF ReadWrap
  <2> QED  BY <2>1 DEF WriterWakeup
<1>8. ASSUME NEW p \in Procs, ReadWake(p) PROVE WriterWakeup'
  BY <1>8 DEF ReadWake, WriterWakeup
<1>9. ASSUME NEW p \in Procs, ReadPrepare(p) PROVE WriterWakeup'
  BY <1>0, <1>9, SameSpace DEF ReadPrepare
<1>10. ASSUME NEW p \in Procs, ReadCheck(p) PROVE WriterWakeup'
  BY <1>0, <1>10, SameSpace DEF ReadCheck
<1>11. ASSUME NEW p \in Procs, ReadWoken(p) PROVE WriterWakeup'
  BY <1>0, <1>11, SameSpace DEF ReadWoken
<1>12. ASSUME NEW p \in Procs, WriteFull(p) PROVE WriterWakeup'
  BY <1>0, <1>12, SameSpace DEF WriteFull
<1>13. ASSUME NEW p \in Procs, WriteWrap(p) PROVE WriterWakeup'
  <2>1. /\ rp' = rp /\ buffersize' = buffersize /\ outq' = outq
        /\ wp' = IF wp = end THEN 0 ELSE wp
    BY <1>13 DEF WriteWrap
  <2>2. /\ \A q \in Procs : AboutToWake(q) => AboutToWake(q)'
        /\ \A q \in Procs : At(q, "w_sleep")' => At(q, "w_sleep")
    BY <1>0, <1>13 DEF WriteWrap
  <2>3. rp \in 0..end - 1 /\ wp \in 0..end /\ end \in Nat \ {0}
    <3>1. rp \in Nat /\ wp \in Nat /\ end \in Nat /\ end > 0 /\ rp < end /\ wp <= end
      BY <1>13, SizesAssumption
      DEF WriteWrap, IInv, TypeOK, PointersInRange, Lock, Opened, Locked, end
    <3> QED  BY <3>1
  <2>4. spacefree' = spacefree
    <3>1. spacefree = IF wp >= rp THEN end - (wp - rp) - 1 ELSE rp - wp - 1
      BY <2>3, FreeSpace
    <3>2. CASE wp # end
      BY <2>1, <3>2 DEF spacefree
    <3>3. CASE wp = end
      <4>1. wp' = 0 /\ rp # 0 /\ spacefree = rp - 1
        BY <2>1, <2>3, <3>1, <3>3 DEF Room
      <4>2. spacefree' = ((rp + end - 0) % end) - 1
        BY <2>1, <4>1 DEF spacefree, end
      <4>3. rp + end \in end..(2 * end) - 1 /\ rp + end - 0 = rp + end
        BY <2>3
      <4>4. (rp + end - 0) % end = rp
        BY <2>3, <4>3, Turn
      <4> QED  BY <4>1, <4>2, <4>4
    <3> QED  BY <3>2, <3>3
  <2> QED  BY <1>0, <2>1, <2>2, <2>4 DEF WriterWakeup
<1>14. ASSUME NEW p \in Procs, WriteWake(p) PROVE WriterWakeup'
  BY <1>0, <1>14, SameSpace DEF WriteWake
<1>15. ASSUME NEW p \in Procs, WritePrepare(p) PROVE WriterWakeup'
  BY <1>0, <1>15, SameSpace DEF WritePrepare
<1>16. ASSUME NEW p \in Procs, WriteCheck(p) PROVE WriterWakeup'
  BY <1>0, <1>16, SameSpace DEF WriteCheck
<1>17. ASSUME NEW p \in Procs, WriteWoken(p) PROVE WriterWakeup'
  BY <1>0, <1>17, SameSpace DEF WriteWoken
<1>18. ASSUME NEW p \in Procs, WriteFinish(p) PROVE WriterWakeup'
  BY <1>0, <1>18, SameSpace DEF WriteFinish
<1>19. ASSUME NEW p \in Procs, Fault(p) PROVE WriterWakeup'
  BY <1>0, <1>19, SameSpace DEF Fault
<1>20. ASSUME NEW p \in Procs, Poll(p) PROVE WriterWakeup'
  BY <1>0, <1>20, SameSpace DEF Poll
<1>21. ASSUME NEW p \in Procs, PollWoken(p) PROVE WriterWakeup'
  BY <1>0, <1>21, SameSpace DEF PollWoken
<1>22. ASSUME NEW p \in Procs, NEW n \in Counts, ReadCopy(p, n) PROVE WriterWakeup'
  <2>1. At(p, "r_wrap")'
    BY <1>0, <1>22 DEF ReadCopy
  <2> QED  BY <2>1 DEF WriterWakeup
<1>23. ASSUME NEW p \in Procs, NEW n \in Counts, WriteCopy(p, n) PROVE WriterWakeup'
  <2>1. /\ \A q \in Procs : AboutToWake(q) => AboutToWake(q)'
        /\ \A q \in outq' : At(q, "w_sleep")' => q \in outq /\ At(q, "w_sleep")
        /\ spacefree # 0
    BY <1>0, <1>23 DEF WriteCopy
  <2> QED  BY <2>1 DEF WriterWakeup
<1>24. ASSUME NEW s \in Sizes, SetSize(s) PROVE WriterWakeup'
  BY <1>0, <1>24, SameSpace DEF SetSize
<1>25. CASE UNCHANGED vars
  BY <1>0, <1>25, SameSpace DEF vars
<1> QED
  BY <1>1, <1>2, <1>3, <1>4, <1>5, <1>6, <1>7, <1>8, <1>9, <1>10, <1>11,
     <1>12, <1>13, <1>14, <1>15, <1>16, <1>17, <1>18, <1>19, <1>20,
     <1>21, <1>22, <1>23, <1>24, <1>25
  DEF Next, Kernel

(* An open is the only step that can leave a writer asleep beside free     *)
(* space with no wake-up on its way.                                       *)
THEOREM WritersForgottenByOpen == Spec => WakeupLostOnlyByOpen
<1>1. IInv /\ Room /\ [Next]_vars
        => [WriterWakeup /\ ~WriterWakeup' => \E p \in Procs : Open(p)]_vars
  BY WriterStep
<1> QED  BY Invariance, RoomKept, <1>1, PTL DEF Spec, WakeupLostOnlyByOpen

----------------------------------------------------------------------------
(* The buffer, while it is there, holds the ring the channel is made of.   *)
LEMMA ContentsUnrolled ==
  ASSUME IInv, Room, BufferLifetime, alloc # 0
  PROVE  /\ end \in Nat \ {0} /\ rp \in 0..end /\ wp \in 0..end /\ wp - rp # end
         /\ end <= MaxSize /\ MaxSize \in Nat
         /\ Filled(end, rp, wp) \in 0..end - 1
         /\ Contents = Unroll(mem, end, rp, wp)
<1>1. end # 0
  BY DEF BufferLifetime, IInv, PointersInRange
<1>2. end \in Nat \ {0} /\ rp \in 0..end /\ wp \in 0..end /\ end <= MaxSize /\ MaxSize \in Nat
  BY <1>1, MaxSizeType, SizesAssumption DEF IInv, TypeOK, PointersInRange, end
<1>3. wp - rp # end
  BY <1>1, <1>2 DEF Room
<1>4. Contents = RingOf(mem, end, rp, wp)
  BY DEF Contents, RingOf, end
<1> HIDE DEF end
<1> QED  BY <1>2, <1>3, <1>4, Unrolled

(* A freed or an emptied buffer is an empty queue.                         *)
LEMMA EmptyContents ==
  ASSUME alloc = 0 \/ (wp = rp /\ rp \in Nat /\ buffersize \in Nat \ {0})
  PROVE  Contents = << >>
<1>1. CASE alloc = 0
  BY <1>1 DEF Contents
<1>2. CASE wp = rp /\ rp \in Nat /\ buffersize \in Nat \ {0}
  <2>1. wp - rp = 0 /\ 0 % buffersize = 0
    BY <1>2
  <2> QED  BY <2>1 DEF Contents
<1> QED  BY <1>1, <1>2

(* What the channel's invariant needs beside the pipe's: room in the ring, *)
(* and a buffer that lives with the open files.                            *)
PipeInv == IInv /\ Room /\ BufferLifetime

(* A read takes the oldest bytes out of the channel, or none.              *)
LEMMA ReadDelivers ==
  ASSUME PipeInv, NEW p \in Procs, NEW c \in Counts, ReadCopy(p, c)
  PROVE  Channel!Next \/ UNCHANGED Channel!channelVars
<1> DEFINE k == min(c, readable)
           q == Unroll(mem, end, rp, wp)
<1>1. /\ At(p, "r_test") /\ rp # wp
      /\ ubuf' = [ubuf EXCEPT ![p] = [i \in 1..k |-> mem[rp + i - 1]]]
      /\ rp' = rp + k
      /\ UNCHANGED <<alloc, buffersize, wp, mem, sent>>
  BY DEF ReadCopy
<1>2. alloc # 0
  BY <1>1 DEF PipeInv, BufferLifetime, Opened, At
<1>3. /\ end \in Nat \ {0} /\ rp \in 0..end /\ wp \in 0..end /\ wp - rp # end
      /\ end <= MaxSize /\ MaxSize \in Nat
      /\ Filled(end, rp, wp) \in 0..end - 1
      /\ Contents = q
  BY <1>2, ContentsUnrolled DEF PipeInv
<1>4. k \in Nat /\ k <= Filled(end, rp, wp) /\ rp + k <= end
  <2>1. readable \in Nat /\ rp + readable <= end
    BY <1>1, ReadableRange DEF PipeInv
  <2>2. readable <= Filled(end, rp, wp)
    BY <1>1, <1>3 DEF readable, Filled
  <2> HIDE DEF readable, end
  <2> QED  BY <1>3, <2>1, <2>2, SizesAssumption DEF min
<1> HIDE DEF k, q
<1>5. CASE k = 0
  <2>1. Contents' = Contents
    BY <1>1, <1>3, <1>5 DEF Contents
  <2>2. [i \in 1..k |-> mem[rp + i - 1]] = << >>
    BY <1>5
  <2>3. Channel!Return(p)
    BY <1>1, <2>1, <2>2 DEF Channel!Return
  <2> QED  BY <2>3 DEF Channel!Next
<1>6. CASE k # 0
  <2>1. k \in 1..Filled(end, rp, wp)
    BY <1>3, <1>4, <1>6
  <2>2. /\ wp - (rp + k) # end
        /\ k <= Len(q)
        /\ [i \in 1..k |-> mem[rp + i - 1]] = SubSeq(q, 1, k)
        /\ Unroll(mem, end, rp + k, wp) = SubSeq(q, k + 1, Len(q))
    BY <1>3, <1>4, <2>1, RingDeliver DEF q
  <2>3. Contents' = SubSeq(q, k + 1, Len(q))
    <3>1. Contents' = RingOf(mem, end, rp + k, wp)
      BY <1>1, <1>2 DEF Contents, RingOf, end
    <3>2. rp + k \in 0..end
      BY <1>3, <1>4
    <3>3. RingOf(mem, end, rp + k, wp) = Unroll(mem, end, rp + k, wp)
      BY <1>3, <2>2, <3>2, Unrolled
    <3> QED  BY <2>2, <3>1, <3>3
  <2>4. Channel!Deliver(p, k)
    BY <1>1, <1>3, <2>2, <2>3 DEF Channel!Deliver
  <2>5. k \in 1..MaxSize - 1
    BY <1>3, <2>1
  <2> QED  BY <2>4, <2>5 DEF Channel!Next
<1> QED  BY <1>5, <1>6

(* A write appends the next bytes of the writers, or none.                 *)
LEMMA WriteAccepts ==
  ASSUME PipeInv, NEW p \in Procs, NEW c \in Counts, WriteCopy(p, c)
  PROVE  Channel!Next \/ UNCHANGED Channel!channelVars
<1> DEFINE k == min(c, writable)
           s == [i \in Int |-> (sent + i - 1) % Modulus]
           q == Unroll(mem, end, rp, wp)
<1>1. /\ At(p, "w_test")
      /\ mem' = [i \in DOMAIN mem |->
                   IF i \in wp..wp + k - 1 THEN (sent + i - wp) % Modulus ELSE mem[i]]
      /\ wp' = wp + k
      /\ sent' = (sent + k) % Modulus
      /\ UNCHANGED <<alloc, buffersize, rp, ubuf>>
  BY DEF WriteCopy
<1>2. alloc # 0
  BY <1>1 DEF PipeInv, BufferLifetime, Opened, At
<1>3. /\ end \in Nat \ {0} /\ rp \in 0..end /\ wp \in 0..end /\ wp - rp # end
      /\ end <= MaxSize /\ MaxSize \in Nat
      /\ Filled(end, rp, wp) \in 0..end - 1
      /\ Contents = q
  BY <1>2, ContentsUnrolled DEF PipeInv
<1>4. /\ rp \in 0..end - 1 /\ wp \in 0..end - 1 /\ k \in Nat
      /\ Filled(end, rp, wp) + k <= end - 1 /\ wp + k <= end
  BY WriteFits DEF PipeInv, Filled
<1>5. DOMAIN mem = 0..MaxSize - 1 /\ sent \in 0..Modulus - 1 /\ Modulus \in Nat \ {0}
  BY SizesAssumption DEF PipeInv, IInv, TypeOK
<1> HIDE DEF k, q, s
<1>6. CASE k = 0
  <2>1. mem' = [i \in DOMAIN mem |-> mem[i]] /\ wp' = wp
    BY <1>1, <1>3, <1>4, <1>6
  <2>2. mem' = mem
    BY <2>1 DEF PipeInv, IInv, TypeOK
  <2>3. sent' = sent
    BY <1>1, <1>5, <1>6, Turn
  <2> QED  BY <1>1, <2>1, <2>2, <2>3 DEF Channel!channelVars, Contents
<1>7. CASE k # 0
  <2>0. PICK m2 : m2 = mem'
    OBVIOUS
  <2>1. Overwrites(m2, mem, end, wp, k, s)
    <3>1. ASSUME NEW i \in 0..end - 1, i \in wp..wp + k - 1
          PROVE  s[i - wp + 1] = (sent + i - wp) % Modulus
      <4>1. i - wp + 1 \in Int /\ sent + (i - wp + 1) - 1 = sent + i - wp
        BY <1>4, <1>5
      <4> QED  BY <4>1 DEF s
    <3>2. 0..end - 1 \subseteq DOMAIN mem
      BY <1>3, <1>5
    <3> QED  BY <1>1, <2>0, <3>1, <3>2 DEF Overwrites
  <2>2. /\ wp + k - rp # end
        /\ Len(q) + k <= end - 1
        /\ Unroll(m2, end, rp, wp + k) = q \o [i \in 1..k |-> s[i]]
    <3>1. k \in Nat \ {0}
      BY <1>4, <1>7
    <3>2. /\ wp + k - rp # end
          /\ Len(Unroll(mem, end, rp, wp)) + k <= end - 1
          /\ Unroll(m2, end, rp, wp + k) = Unroll(mem, end, rp, wp) \o [i \in 1..k |-> s[i]]
      BY <1>3, <1>4, <2>1, <3>1, RingAccept
    <3> QED  BY <3>2 DEF q
  <2>3. [i \in 1..k |-> s[i]] = Channel!Fresh(k)
    BY <1>4 DEF s, Channel!Fresh
  <2>4. Contents' = q \o Channel!Fresh(k)
    <3>1. Contents' = RingOf(m2, end, rp, wp + k)
      BY <1>1, <1>2, <2>0 DEF Contents, RingOf, end
    <3>2. wp + k \in 0..end
      BY <1>3, <1>4
    <3>3. RingOf(m2, end, rp, wp + k) = Unroll(m2, end, rp, wp + k)
      BY <1>3, <1>4, <2>2, <3>2, Unrolled
    <3> QED  BY <2>2, <2>3, <3>1, <3>3
  <2>5. Len(q) \in Nat
    BY <1>3 DEF q
  <2>6. Channel!Accept(k)
    BY <1>1, <1>3, <1>4, <2>2, <2>4, <2>5 DEF Channel!Accept
  <2>7. k \in 1..MaxSize - 1
    BY <1>3, <1>4, <1>7, <2>2, <2>5
  <2> QED  BY <2>6, <2>7 DEF Channel!Next
<1> QED  BY <1>6, <1>7

(* Wrapping a pointer moves no byte.                                       *)
LEMMA WrapKeeps ==
  ASSUME PipeInv, NEW p \in Procs, ReadWrap(p) \/ WriteWrap(p)
  PROVE  UNCHANGED Channel!channelVars
<1>1. alloc # 0
  BY DEF PipeInv, BufferLifetime, Opened, At, ReadWrap, WriteWrap
<1>2. /\ end \in Nat \ {0} /\ rp \in 0..end /\ wp \in 0..end /\ wp - rp # end
      /\ Contents = Unroll(mem, end, rp, wp)
  BY <1>1, ContentsUnrolled DEF PipeInv
<1>3. UNCHANGED <<alloc, buffersize, mem, sent, ubuf>>
  BY DEF ReadWrap, WriteWrap
<1>4. CASE ReadWrap(p)
  <2>1. rp' = (IF rp = end THEN 0 ELSE rp) /\ wp' = wp
    BY <1>4 DEF ReadWrap
  <2>2. wp # end
    BY <1>2, <1>4 DEF ReadWrap, At, PipeInv, IInv, PointersInRange, Lock, Locked
  <2>3. Contents' = RingOf(mem, end, rp', wp)
    BY <1>1, <1>3, <2>1 DEF Contents, RingOf, end
  <2>4. CASE rp = end
    <3>1. wp \in 0..end - 1
      BY <1>2, <2>2
    <3>3. Unroll(mem, end, 0, wp) = Unroll(mem, end, end, wp)
      BY <1>2, <3>1, RingWrap
    <3>4. 0 \in 0..end /\ wp - 0 # end
      BY <1>2, <2>2
    <3>5. RingOf(mem, end, 0, wp) = Unroll(mem, end, 0, wp)
      BY <1>2, <3>4, Unrolled
    <3>6. Contents' = Contents
      BY <1>2, <2>1, <2>3, <2>4, <3>3, <3>5
    <3> QED  BY <1>3, <3>6 DEF Channel!channelVars
  <2>5. CASE rp # end
    BY <1>3, <2>1, <2>5 DEF Channel!channelVars, Contents
  <2> QED  BY <2>4, <2>5
<1>5. CASE WriteWrap(p)
  <2>1. wp' = (IF wp = end THEN 0 ELSE wp) /\ rp' = rp
    BY <1>5 DEF WriteWrap
  <2>2. rp # end
    BY <1>2, <1>5 DEF WriteWrap, At, PipeInv, IInv, PointersInRange, Lock, Locked
  <2>3. Contents' = RingOf(mem, end, rp, wp')
    BY <1>1, <1>3, <2>1 DEF Contents, RingOf, end
  <2>4. CASE wp = end
    <3>0. rp # 0
      BY <1>2, <2>4 DEF PipeInv, Room
    <3>1. rp \in 1..end - 1
      BY <1>2, <2>2, <3>0
    <3>3. Unroll(mem, end, rp, 0) = Unroll(mem, end, rp, end)
      BY <1>2, <3>1, RingWrap
    <3>4. 0 \in 0..end /\ 0 - rp # end
      BY <1>2
    <3>5. RingOf(mem, end, rp, 0) = Unroll(mem, end, rp, 0)
      BY <1>2, <3>4, Unrolled
    <3>6. Contents' = Contents
      BY <1>2, <2>1, <2>3, <2>4, <3>3, <3>5
    <3> QED  BY <1>3, <3>6 DEF Channel!channelVars
  <2>5. CASE wp # end
    BY <1>3, <2>1, <2>5 DEF Channel!channelVars, Contents
  <2> QED  BY <2>4, <2>5
<1> QED  BY <1>4, <1>5

(* Every step of the pipe is a step of the channel, or leaves it alone.    *)
LEMMA ChannelStep ==
  PipeInv /\ [Next]_vars => [Channel!Next]_Channel!channelVars
<1> SUFFICES ASSUME PipeInv, [Next]_vars
             PROVE  Channel!Next \/ UNCHANGED Channel!channelVars
  OBVIOUS
<1>1. CASE UNCHANGED <<pointers, sent, ubuf>>
  BY <1>1 DEF pointers, Contents, Channel!channelVars
<1>2. ASSUME NEW p \in Procs, Open(p) PROVE Channel!Discard
  <2>1. Contents' = << >>
    BY <1>2, SizesAssumption DEF Open, Contents, PipeInv, IInv, TypeOK
  <2> QED  BY <1>2, <2>1 DEF Open, Channel!Discard
<1>3. ASSUME NEW p \in Procs, Release(p)
      PROVE  Channel!Discard \/ UNCHANGED Channel!channelVars
  <2>1. CASE alloc' = 0
    BY <1>3, <2>1 DEF Release, Contents, Channel!Discard
  <2>2. CASE alloc' = alloc
    BY <1>3, <2>2 DEF Release, Contents, Channel!channelVars
  <2> QED  BY <1>3, <2>1, <2>2 DEF Release
<1>4. ASSUME NEW p \in Procs, ReadWake(p) PROVE Channel!Return(p)
  BY <1>4 DEF ReadWake, pointers, Contents, Channel!Return
<1>5. ASSUME NEW p \in Procs, Stores(p)
      PROVE  Channel!Next \/ UNCHANGED Channel!channelVars
  BY <1>2, <1>3, <1>4, <1>5, ReadDelivers, WriteAccepts, WrapKeeps DEF Stores, Channel!Next
<1> QED  BY <1>1, <1>5, StoringSteps

(* The pipe is a bounded FIFO channel, for any number of readers and       *)
(* writers and any size: bytes come out in the order they went in, each    *)
(* once, and only opens and the last close drop some.                      *)
THEOREM PipeIsChannel == Spec => ImplementsChannel
<1>1. Init => Channel!Init
  BY DEF Init, Contents, Channel!Init
<1>2. IInv /\ Room /\ BufferLifetime /\ [Next]_vars => [Channel!Next]_Channel!channelVars
  BY ChannelStep DEF PipeInv
<1> QED
  BY Invariance, RoomKept, BufferLivesWithFiles, <1>1, <1>2, PTL
  DEF Spec, ImplementsChannel, Channel!Spec
=============================================================================

------------------------------ MODULE SeriProofs ------------------------------
(***************************************************************************)
(* Theorems about Seri, for every set of processes, every size of the fifo *)
(* and every byte count.                                                   *)
(***************************************************************************)
EXTENDS Seri, SequenceTheorems, TLAPS

(* What the semaphore theorem rests on: SemExact is inductive once the     *)
(* types are known.                                                        *)
IInv == TypeOK /\ SemExact

(* The smaller of two numbers, as Take computes it.                        *)
LEMMA MinOfTwo ==
  ASSUME NEW a \in Nat, NEW b \in Nat
  PROVE  Min({a, b}) \in Nat /\ Min({a, b}) <= a /\ Min({a, b}) <= b
<1>1. \E x \in {a, b} : \A y \in {a, b} : x <= y
  OBVIOUS
<1> QED  BY <1>1 DEF Min

(* What kfifo_get copies out, and the part of a write that fits.           *)
LEMMA TakeType ==
  ASSUME NEW S, NEW s \in Seq(S), NEW n \in Nat
  PROVE  Take(s, n) \in Seq(S) /\ Len(Take(s, n)) <= n
<1> DEFINE m == Min({n, Len(s)})
<1>1. Len(s) \in Nat /\ \A k \in 1..Len(s) : s[k] \in S
  BY LenProperties
<1>2. m \in Nat /\ m <= n /\ m <= Len(s)
  BY <1>1, MinOfTwo
<1> HIDE DEF m
<1>3. \A k \in 1..m : s[k] \in S
  BY <1>1, <1>2
<1>4. SubSeq(s, 1, m) \in Seq(S) /\ Len(SubSeq(s, 1, m)) = IF 1 <= m THEN m - 1 + 1 ELSE 0
  BY <1>2, <1>3, SubSeqProperties
<1>5. Len(SubSeq(s, 1, m)) <= n
  BY <1>2, <1>4
<1> QED  BY <1>4, <1>5 DEF Take, m

(* What kfifo_get leaves behind.                                           *)
LEMMA DropType ==
  ASSUME NEW S, NEW s \in Seq(S), NEW n \in Nat
  PROVE  Drop(s, n) \in Seq(S) /\ Len(Drop(s, n)) <= Len(s)
<1>1. Len(s) \in Nat /\ \A k \in 1..Len(s) : s[k] \in S
  BY LenProperties
<1>2. \A k \in n + 1..Len(s) : s[k] \in S
  BY <1>1
<1>3. /\ SubSeq(s, n + 1, Len(s)) \in Seq(S)
      /\ Len(SubSeq(s, n + 1, Len(s))) = IF n + 1 <= Len(s) THEN Len(s) - (n + 1) + 1 ELSE 0
  BY <1>1, <1>2, SubSeqProperties
<1> QED  BY <1>1, <1>3 DEF Drop

(* The byte that dev_read compares with the newline.                       *)
LEMMA LastType ==
  ASSUME NEW S, NEW T, NEW x \in S, NEW s \in Seq(T), T \subseteq S
  PROVE  Last(<<x>> \o s) \in S
<1>1. <<x>> \in Seq(S) /\ Len(<<x>>) = 1
  OBVIOUS
<1>2. s \in Seq(S) /\ Len(s) \in Nat
  BY SeqMonotonic, LenProperties
<1>3. <<x>> \o s \in Seq(S) /\ Len(<<x>> \o s) = 1 + Len(s)
  BY <1>1, <1>2, ConcatProperties
<1>4. (<<x>> \o s)[Len(<<x>> \o s)] \in S
  BY <1>2, <1>3, ElementOfSeq
<1> QED  BY <1>4 DEF Last

(* The bytes found at mydev->data are bytes, freed or not.                 *)
LEMMA DataBytesType ==
  ASSUME TypeOK, NEW n \in Nat
  PROVE  DataBytes(n) \in Seq(Byte) /\ (n > 0 => Head(DataBytes(n)) \in Byte)
<1>1. buf[data] \in Seq(Byte)
  BY DEF TypeOK
<1>2. Len(buf[data]) \in Nat /\ \A k \in 1..Len(buf[data]) : buf[data][k] \in Byte
  BY <1>1, LenProperties
<1>3. \A k \in 1..n : (IF data \in alive /\ k <= Len(buf[data]) THEN buf[data][k] ELSE Junk) \in Byte
  BY <1>2 DEF Byte
<1>4. DataBytes(n) \in [1..n -> Byte]
  BY <1>3 DEF DataBytes
<1>5. DataBytes(n) \in Seq(Byte)
  BY <1>4, SeqDef
<1>6. n > 0 => DataBytes(n) # <<>>
  <2>1. DOMAIN DataBytes(n) = 1..n
    BY <1>4
  <2> QED  BY <2>1
<1> QED  BY <1>5, <1>6, HeadTailProperties

(* The fifo never grows past its size.                                     *)
LEMMA PutType ==
  ASSUME TypeOK, NEW s \in Seq(Byte), kfifo_put(s)
  PROVE  fifo' \in Seq(Byte) /\ Len(fifo') <= FIFO_SIZE
<1>1. fifo \in Seq(Byte) /\ Len(fifo) \in Nat /\ Len(fifo) <= FIFO_SIZE /\ FIFO_SIZE \in Nat
  BY SeriAssumption, LenProperties DEF TypeOK
<1> DEFINE t == Take(s, FIFO_SIZE - Len(fifo))
<1>2. FIFO_SIZE - Len(fifo) \in Nat
  BY <1>1
<1>3. t \in Seq(Byte) /\ Len(t) <= FIFO_SIZE - Len(fifo) /\ Len(t) \in Nat
  BY <1>2, TakeType, LenProperties
<1>4. fifo \o t \in Seq(Byte) /\ Len(fifo \o t) = Len(fifo) + Len(t)
  BY <1>1, <1>3, ConcatProperties
<1> QED  BY <1>1, <1>3, <1>4 DEF kfifo_put

(* Nor does taking bytes out make it longer.                               *)
LEMMA GetType ==
  ASSUME TypeOK, NEW n \in Nat, kfifo_get(n)
  PROVE  fifo' \in Seq(Byte) /\ Len(fifo') <= FIFO_SIZE
<1>1. fifo \in Seq(Byte) /\ Len(fifo) \in Nat /\ Len(fifo) <= FIFO_SIZE /\ FIFO_SIZE \in Nat
  BY SeriAssumption, LenProperties DEF TypeOK
<1>2. Drop(fifo, n) \in Seq(Byte) /\ Len(Drop(fifo, n)) <= Len(fifo) /\ Len(Drop(fifo, n)) \in Nat
  BY <1>1, DropType, LenProperties
<1> QED  BY <1>1, <1>2 DEF kfifo_get

(* The byte count of a call, or 0 before the first call, is a number.      *)
LEMMA CountsType == \A n \in Counts \cup {0} : n \in Nat
  BY SeriAssumption

(* Whoever passes down leaves a natural number behind.                     *)
LEMMA DownType ==
  ASSUME TypeOK, down
  PROVE  sem' \in Nat /\ skipped' \in BOOLEAN
<1>1. sem \in Nat /\ skipped \in BOOLEAN
  BY DEF TypeOK
<1>2. CASE sem > 0 /\ sem' = sem - 1 /\ skipped' = skipped
  BY <1>1, <1>2
<1>3. CASE sem = 0 /\ skipped' = TRUE /\ sem' = sem
  BY <1>1, <1>3
<1> QED  BY <1>2, <1>3 DEF down

(* The initial state satisfies the invariant.                              *)
LEMMA InitIInv == Init => IInv
<1> SUFFICES ASSUME Init PROVE IInv
  OBVIOUS
<1> USE DEF Init
<1>1. <<>> \in Seq(Byte) /\ Len(<<>>) = 0 /\ <<>> \in Seq(Nat \ {0})
  BY EmptySeq
<1>2. TypeOK
  <2>1. fifo \in Seq(Byte) /\ Len(fifo) <= FIFO_SIZE /\ hbuf \in Seq(Byte)
    BY <1>1, SeriAssumption
  <2>2. buf \in [Procs -> Seq(Byte)] /\ msg \in [Procs -> Seq(Nat \ {0})]
    BY <1>1
  <2>3. first \in [Procs -> Byte] /\ last \in [Procs -> {NewLine, Other, None}]
    BY DEF Byte
  <2>4. pc \in [Procs -> Labels] /\ count \in [Procs -> Counts \cup {0}]
    BY DEF Labels
  <2>5. written \in Nat /\ received \in 0..MaxIn /\ lastOut \in Nat \cup {Junk}
    BY SeriAssumption
  <2> QED  BY <2>1, <2>2, <2>3, <2>4, <2>5 DEF TypeOK
<1>3. SemExact
  BY DEF SemExact, InHandler, InProcess
<1> QED  BY <1>2, <1>3 DEF IInv

(* Every step keeps the semaphore exact.                                   *)
LEMMA LockStep == IInv /\ [Next]_vars => SemExact'
<1> SUFFICES ASSUME IInv, [Next]_vars PROVE SemExact'
  OBVIOUS
<1> USE DEF SemExact, InHandler, InProcess, down, up, uart, shared, message, locals, handler, traffic, history, At, Goto, Return, Done
<1>0. sem \in Nat /\ pc \in [Procs -> Labels] /\ skipped \in BOOLEAN /\ SemExact
  BY DEF IInv, TypeOK
<1>1. ASSUME NEW p \in Procs, WriteAlloc(p) PROVE SemExact'
  BY <1>0, <1>1 DEF WriteAlloc
<1>2. ASSUME NEW p \in Procs, WriteCopy(p) PROVE SemExact'
  BY <1>0, <1>2 DEF WriteCopy
<1>3. ASSUME NEW p \in Procs, WriteFirst(p) PROVE SemExact'
  BY <1>0, <1>3 DEF WriteFirst
<1>4. ASSUME NEW p \in Procs, WriteDown(p) PROVE SemExact'
  BY <1>0, <1>4 DEF WriteDown
<1>5. ASSUME NEW p \in Procs, WritePut(p) PROVE SemExact'
  BY <1>0, <1>5 DEF WritePut
<1>6. ASSUME NEW p \in Procs, WriteOut(p) PROVE SemExact'
  BY <1>0, <1>6 DEF WriteOut
<1>7. ASSUME NEW p \in Procs, WriteFree(p) PROVE SemExact'
  BY <1>0, <1>7 DEF WriteFree
<1>8. ASSUME NEW p \in Procs, ReadPoll(p) PROVE SemExact'
  BY <1>0, <1>8 DEF ReadPoll
<1>9. ASSUME NEW p \in Procs, ReadDown(p) PROVE SemExact'
  BY <1>0, <1>9 DEF ReadDown
<1>10. ASSUME NEW p \in Procs, ReadGet(p) PROVE SemExact'
  BY <1>0, <1>10 DEF ReadGet
<1>11. ASSUME NEW p \in Procs, ReadReturn(p) PROVE SemExact'
  BY <1>0, <1>11 DEF ReadReturn
<1>12. ASSUME Interrupt PROVE SemExact'
  BY <1>0, <1>12 DEF Interrupt
<1>13. ASSUME TxDown PROVE SemExact'
  BY <1>0, <1>13 DEF TxDown
<1>14. ASSUME TxGet PROVE SemExact'
  BY <1>0, <1>14 DEF TxGet
<1>15. ASSUME TxOut PROVE SemExact'
  BY <1>0, <1>15 DEF TxOut
<1>16. ASSUME TxEnd PROVE SemExact'
  BY <1>0, <1>16 DEF TxEnd
<1>17. ASSUME RxIn PROVE SemExact'
  BY <1>0, <1>17 DEF RxIn
<1>18. ASSUME RxDown PROVE SemExact'
  BY <1>0, <1>18 DEF RxDown
<1>19. ASSUME RxPut PROVE SemExact'
  BY <1>0, <1>19 DEF RxPut
<1>20. ASSUME Transmit PROVE SemExact'
  BY <1>0, <1>20 DEF Transmit
<1>21. ASSUME NEW b \in {NewLine, Other}, Receive(b) PROVE SemExact'
  BY <1>0, <1>21 DEF Receive
<1>22. ASSUME NEW p \in Procs, NEW n \in Counts, CallWrite(p, n) PROVE SemExact'
  BY <1>0, <1>22 DEF CallWrite
<1>23. ASSUME NEW p \in Procs, NEW n \in Counts, CallRead(p, n) PROVE SemExact'
  BY <1>0, <1>23 DEF CallRead
<1>24. CASE UNCHANGED vars
  BY <1>0, <1>24 DEF vars
<1> QED
  BY <1>1, <1>2, <1>3, <1>4, <1>5, <1>6, <1>7, <1>8, <1>9, <1>10, <1>11,
     <1>12, <1>13, <1>14, <1>15, <1>16, <1>17, <1>18, <1>19, <1>20,
     <1>21, <1>22, <1>23, <1>24
  DEF Next, Line, Handler, Write, Read, Call

(* Every step preserves the types.                                         *)
LEMMA TypeStep == IInv /\ [Next]_vars => TypeOK'
<1> SUFFICES ASSUME IInv, [Next]_vars PROVE TypeOK'
  OBVIOUS
<1> USE DEF TypeOK, up, outb, uart, shared, message, locals, handler, traffic, history, At, Goto, Done
<1>0. TypeOK
  BY DEF IInv
<1>1. ASSUME NEW p \in Procs, WriteAlloc(p) PROVE TypeOK'
  <2>1. [k \in 1..count[p] + 1 |-> Nul] \in Seq(Byte)
    <3>1. count[p] \in Counts \cup {0}
      BY <1>0
    <3>2. count[p] + 1 \in Nat
      BY <3>1, CountsType
    <3>3. [k \in 1..count[p] + 1 |-> Nul] \in [1..count[p] + 1 -> Byte]
      BY DEF Byte
    <3> QED  BY <3>2, <3>3, SeqDef
  <2>2. mcount' \in Counts \cup {0} /\ pc' \in [Procs -> Labels]
    BY <1>0, <1>1 DEF WriteAlloc, Labels
  <2>3. buf' \in [Procs -> Seq(Byte)]
    BY <1>0, <1>1, <2>1 DEF WriteAlloc
  <2> QED  BY <1>0, <1>1, <2>2, <2>3 DEF WriteAlloc
<1>2. ASSUME NEW p \in Procs, WriteCopy(p) PROVE TypeOK'
  <2>1. msg[p] \in Seq(Nat \ {0}) /\ count[p] \in Counts \cup {0} /\ buf[data] \in Seq(Byte)
    BY <1>0
  <2>2. msg[p] \in Seq(Byte)
    BY <2>1, SeqMonotonic DEF Byte
  <2>3. Drop(buf[data], count[p]) \in Seq(Byte)
    BY <2>1, CountsType, DropType
  <2>4. msg[p] \o Drop(buf[data], count[p]) \in Seq(Byte)
    BY <2>2, <2>3, ConcatProperties
  <2>5. pc' \in [Procs -> Labels] /\ buf' \in [Procs -> Seq(Byte)]
    BY <1>0, <1>2, <2>4 DEF WriteCopy, Labels
  <2> QED  BY <1>0, <1>2, <2>5 DEF WriteCopy
<1>3. ASSUME NEW p \in Procs, WriteFirst(p) PROVE TypeOK'
  <2>1. Head(DataBytes(1)) \in Byte
    BY <1>0, DataBytesType
  <2>2. pc' \in [Procs -> Labels]
    BY <1>0, <1>3 DEF WriteFirst, Labels
  <2> QED  BY <1>0, <1>3, <2>1, <2>2 DEF WriteFirst
<1>4. ASSUME NEW p \in Procs, WriteDown(p) PROVE TypeOK'
  <2>1. sem' \in Nat /\ skipped' \in BOOLEAN
    BY <1>0, <1>4, DownType DEF WriteDown
  <2>2. pc' \in [Procs -> Labels]
    BY <1>0, <1>4 DEF WriteDown, Labels
  <2> QED  BY <1>0, <1>4, <2>1, <2>2 DEF WriteDown
<1>5. ASSUME NEW p \in Procs, WritePut(p) PROVE TypeOK'
  <2>1. count[p] \in Nat
    <3>1. count[p] \in Counts \cup {0}
      BY <1>0
    <3> QED  BY <3>1, CountsType
  <2>2. DataBytes(count[p]) \in Seq(Byte)
    BY <1>0, <2>1, DataBytesType
  <2>3. fifo' \in Seq(Byte) /\ Len(fifo') <= FIFO_SIZE
    BY <1>0, <1>5, <2>2, PutType DEF WritePut
  <2>4. pc' \in [Procs -> Labels]
    BY <1>0, <1>5 DEF WritePut, Labels
  <2> QED  BY <1>0, <1>5, <2>3, <2>4 DEF WritePut
<1>a. ASSUME NEW p \in Procs, Return(p)
      PROVE  /\ pc' \in [Procs -> Labels] /\ count' \in [Procs -> Counts \cup {0}]
             /\ msg' \in [Procs -> Seq(Nat \ {0})] /\ first' \in [Procs -> Byte]
             /\ last' \in [Procs -> {NewLine, Other, None}]
  <2>1. <<>> \in Seq(Nat \ {0})
    BY EmptySeq
  <2>2. msg' \in [Procs -> Seq(Nat \ {0})]
    BY <1>0, <1>a, <2>1 DEF Return
  <2> QED  BY <1>0, <1>a, <2>2 DEF Return, Labels, Byte
<1>6. ASSUME NEW p \in Procs, WriteOut(p) PROVE TypeOK'
  BY <1>0, <1>6 DEF WriteOut, Labels
<1>7. ASSUME NEW p \in Procs, WriteFree(p) PROVE TypeOK'
  <2>1. <<>> \in Seq(Byte)
    BY EmptySeq
  <2>2. buf' \in [Procs -> Seq(Byte)] /\ alive' \subseteq Procs
    BY <1>0, <1>7, <2>1 DEF WriteFree
  <2>3. Return(p)
    BY <1>7 DEF WriteFree
  <2> QED  BY <1>0, <1>7, <1>a, <2>2, <2>3 DEF WriteFree
<1>8. ASSUME NEW p \in Procs, ReadPoll(p) PROVE TypeOK'
  BY <1>0, <1>8 DEF ReadPoll, Labels
<1>9. ASSUME NEW p \in Procs, ReadDown(p) PROVE TypeOK'
  <2>1. sem' \in Nat /\ skipped' \in BOOLEAN
    BY <1>0, <1>9, DownType DEF ReadDown
  <2>2. pc' \in [Procs -> Labels]
    BY <1>0, <1>9 DEF ReadDown, Labels
  <2> QED  BY <1>0, <1>9, <2>1, <2>2 DEF ReadDown
<1>10. ASSUME NEW p \in Procs, ReadGet(p) PROVE TypeOK'
  <2>1. count[p] \in Nat
    <3>1. count[p] \in Counts \cup {0}
      BY <1>0
    <3> QED  BY <3>1, CountsType
  <2>2. fifo' \in Seq(Byte) /\ Len(fifo') <= FIFO_SIZE
    BY <1>0, <1>10, <2>1, GetType DEF ReadGet
  <2>3. Take(fifo, count[p]) \in Seq(Byte)
    BY <1>0, <2>1, TakeType
  <2>4. Last(<<last[p]>> \o Take(fifo, count[p])) \in Byte \cup {None}
    <3>1. last[p] \in Byte \cup {None}
      BY <1>0 DEF Byte
    <3> QED  BY <3>1, <2>3, LastType
  <2>5. pc' \in [Procs -> Labels]
    BY <1>0, <1>10 DEF ReadGet, Labels
  <2>6. Seen(Last(<<last[p]>> \o Take(fifo, count[p]))) \in {NewLine, Other, None}
    BY <2>4 DEF Seen, Byte
  <2>7. last' \in [Procs -> {NewLine, Other, None}]
    BY <1>0, <1>10, <2>6 DEF ReadGet
  <2> QED  BY <1>0, <1>10, <2>2, <2>5, <2>7 DEF ReadGet
<1>11. ASSUME NEW p \in Procs, ReadReturn(p) PROVE TypeOK'
  <2>1. Return(p)
    BY <1>11 DEF ReadReturn
  <2> QED  BY <1>0, <1>11, <1>a, <2>1 DEF ReadReturn
<1>12. ASSUME Interrupt PROVE TypeOK'
  BY <1>0, <1>12 DEF Interrupt
<1>13. ASSUME TxDown PROVE TypeOK'
  <2>1. sem' \in Nat /\ skipped' \in BOOLEAN
    BY <1>0, <1>13, DownType DEF TxDown
  <2> QED  BY <1>0, <1>13, <2>1 DEF TxDown
<1>14. ASSUME TxGet PROVE TypeOK'
  <2>1. mcount \in Nat
    BY <1>0, SeriAssumption
  <2>2. fifo' \in Seq(Byte) /\ Len(fifo') <= FIFO_SIZE
    BY <1>0, <1>14, <2>1, GetType DEF TxGet
  <2>3. /\ hbuf' \in Seq(Byte) /\ hi' \in Nat /\ room' \in Counts \cup {0}
        /\ hpc' \in {"idle", "tx_out"}
    <3>1. <<>> \in Seq(Byte) /\ Take(fifo, mcount) \in Seq(Byte)
      BY <1>0, <2>1, EmptySeq, TakeType
    <3> QED  BY <1>0, <1>14, <3>1 DEF TxGet
  <2> QED  BY <1>0, <1>14, <2>2, <2>3 DEF TxGet
<1>15. ASSUME TxOut PROVE TypeOK'
  <2>1. thr' \in Byte
    <3>1. Len(hbuf) \in Nat /\ hi \in Nat
      BY <1>0, LenProperties
    <3>2. CASE hi < Len(hbuf)
      <4>1. hbuf[hi + 1] \in Byte
        BY <1>0, <3>1, <3>2, ElementOfSeq
      <4> QED  BY <1>15, <3>2, <4>1 DEF TxOut
    <3>3. CASE ~(hi < Len(hbuf))
      BY <1>15, <3>3 DEF TxOut, Byte
    <3> QED  BY <3>2, <3>3
  <2>2. hi' \in Nat
    BY <1>0, <1>15 DEF TxOut
  <2> QED  BY <1>0, <1>15, <2>1, <2>2 DEF TxOut
<1>16. ASSUME TxEnd PROVE TypeOK'
  <2>1. <<>> \in Seq(Byte)
    BY EmptySeq
  <2> QED  BY <1>0, <1>16, <2>1 DEF TxEnd
<1>17. ASSUME RxIn PROVE TypeOK'
  <2>1. rbr \in Byte
    BY <1>0 DEF Byte
  <2>2. hbuf' \in Seq(Byte)
    BY <1>17, <2>1 DEF RxIn
  <2> QED  BY <1>0, <1>17, <2>2 DEF RxIn
<1>18. ASSUME RxDown PROVE TypeOK'
  <2>1. sem' \in Nat /\ skipped' \in BOOLEAN
    BY <1>0, <1>18, DownType DEF RxDown
  <2> QED  BY <1>0, <1>18, <2>1 DEF RxDown
<1>19. ASSUME RxPut PROVE TypeOK'
  <2>1. fifo' \in Seq(Byte) /\ Len(fifo') <= FIFO_SIZE
    BY <1>0, <1>19, PutType DEF RxPut
  <2>2. <<>> \in Seq(Byte)
    BY EmptySeq
  <2> QED  BY <1>0, <1>19, <2>1, <2>2 DEF RxPut
<1>20. ASSUME Transmit PROVE TypeOK'
  BY <1>0, <1>20 DEF Transmit, LineHigh
<1>21. ASSUME NEW b \in {NewLine, Other}, Receive(b) PROVE TypeOK'
  BY <1>0, <1>21, SeriAssumption DEF Receive, LineHigh
<1>22. ASSUME NEW p \in Procs, NEW n \in Counts, CallWrite(p, n) PROVE TypeOK'
  <2> DEFINE m == [k \in 1..n |-> k]
  <2>1. n \in Nat
    BY SeriAssumption
  <2>2. m \in Seq(Nat \ {0})
    <3>1. m \in [1..n -> Nat \ {0}]
      BY <2>1
    <3> QED  BY <2>1, <3>1, SeqDef
  <2> HIDE DEF m
  <2>3. written' \in Nat /\ lastOut' \in Nat \cup {Junk} /\ mixed' \in BOOLEAN
    BY <1>0, <1>22, <2>1 DEF CallWrite
  <2>4. msg' \in [Procs -> Seq(Nat \ {0})]
    BY <1>0, <1>22, <2>2 DEF CallWrite, m
  <2>5. pc' \in [Procs -> Labels] /\ count' \in [Procs -> Counts \cup {0}]
    BY <1>0, <1>22 DEF CallWrite, Labels
  <2> QED  BY <1>0, <1>22, <2>3, <2>4, <2>5 DEF CallWrite
<1>23. ASSUME NEW p \in Procs, NEW n \in Counts, CallRead(p, n) PROVE TypeOK'
  BY <1>0, <1>23 DEF CallRead, Labels, Byte
<1>24. CASE UNCHANGED vars
  BY <1>0, <1>24 DEF vars
<1> QED
  BY <1>1, <1>2, <1>3, <1>4, <1>5, <1>6, <1>7, <1>8, <1>9, <1>10, <1>11,
     <1>12, <1>13, <1>14, <1>15, <1>16, <1>17, <1>18, <1>19, <1>20,
     <1>21, <1>22, <1>23, <1>24
  DEF Next, Line, Handler, Write, Read, Call

(* The strengthened invariant holds in every behaviour.                    *)
THEOREM Invariance == Spec => []IInv
<1>1. IInv /\ [Next]_vars => IInv'
  BY TypeStep, LockStep DEF IInv
<1> QED  BY InitIInv, <1>1, PTL DEF Spec

(* Type correctness of the driver and its UART: in particular the fifo     *)
(* never holds more than FIFO_SIZE bytes.                                  *)
THEOREM TypeCorrect == Spec => []TypeOK
<1>1. IInv => TypeOK
  BY DEF IInv
<1> QED  BY Invariance, <1>1, PTL

(* Processes and the interrupt handler never hold mydev->sem together,     *)
(* and it is 0 only while one of them holds it, until a signal ends a wait *)
(* for it; after that it is still never left at 0 by nobody.               *)
THEOREM SemaphoreExact == Spec => []SemExact
<1>1. IInv => SemExact
  BY DEF IInv
<1> QED  BY Invariance, <1>1, PTL

(* At every step the types hold and the semaphore is free exactly when    *)
(* nobody is inside: both halves of the invariant the run checks.          *)
THEOREM InvariantKept == Spec => []Inv
<1>1. TypeOK /\ SemExact => Inv
  BY DEF Inv
<1> QED  BY TypeCorrect, SemaphoreExact, <1>1, PTL

----------------------------------------------------------------------------
(***************************************************************************)
(* A write that has the driver for itself.  While ~mixed, from the call    *)
(* until the driver is quiet again, the writer and the interrupt handler   *)
(* take turns -- for any bytes of the write and any size of the fifo, on   *)
(* one processor or several, with or without signals.                      *)
(***************************************************************************)

(* From its call until it starts the transmitter such a write meets        *)
(* nobody: no byte is on the line, and the handler rests.                  *)
Sending(p) == pc[p] \in {"w_alloc", "w_copy", "w_first", "w_down", "w_put", "w_out"}

TakesTurns ==
    /\ ~dr /\ hpc \in {"idle", "tx_down", "tx_get", "tx_out"}
    /\ \A p \in Procs : ~At(p, "user") => Sending(p) \/ At(p, "w_free")
    /\ \A p, q \in Procs : ~At(p, "user") /\ ~At(q, "user") => p = q
    /\ \A p \in Procs : Sending(p) => thr = Empty /\ ~thri /\ hpc = "idle"
    /\ hpc \in {"tx_down", "tx_get"} => mcount <= room

Turns == ~mixed => TakesTurns

(* The steps that a write alone with the driver can see.                   *)
TxSteps == \/ UNCHANGED vars \/ Transmit
           \/ \E p \in Procs : Write(p)
           \/ Interrupt \/ TxDown \/ TxGet \/ TxOut \/ TxEnd

(* A step that leaves a write alone either starts one with the driver      *)
(* quiet, or is one of those.                                              *)
LEMMA AloneSteps ==
  ASSUME TypeOK, Turns, [Next]_vars, ~mixed'
  PROVE  \/ \E p \in Procs, n \in Counts : CallWrite(p, n) /\ Quiet
         \/ TxSteps /\ ~mixed /\ TakesTurns
<1>1. \A b \in {NewLine, Other} : ~Receive(b)
  BY DEF Receive
<1>2. \A p \in Procs, n \in Counts : ~CallRead(p, n)
  BY DEF CallRead
<1>3. \A p \in Procs, n \in Counts : CallWrite(p, n) => Quiet
  BY DEF CallWrite
<1>4. ASSUME \A p \in Procs, n \in Counts : ~CallWrite(p, n) PROVE ~mixed
  <2>1. \A p \in Procs : Write(p) \/ Read(p) => mixed' = mixed
    BY DEF Write, Read, WriteAlloc, WriteCopy, WriteFirst, WriteDown, WritePut, WriteOut, WriteFree,
           ReadPoll, ReadDown, ReadGet, ReadReturn, history
  <2>2. Handler \/ Transmit => mixed' = mixed
    BY DEF Handler, Interrupt, TxDown, TxGet, TxOut, TxEnd, RxIn, RxDown, RxPut, Transmit, history
  <2>3. UNCHANGED vars => mixed' = mixed
    BY DEF vars, history
  <2> QED  BY <1>1, <1>2, <1>4, <2>1, <2>2, <2>3 DEF Next, Line, Call
<1>5. ASSUME TakesTurns PROVE (\A p \in Procs : ~Read(p)) /\ ~RxIn /\ ~RxDown /\ ~RxPut
  BY <1>5 DEF TakesTurns, Sending, At, Read, ReadPoll, ReadDown, ReadGet, ReadReturn, RxIn, RxDown, RxPut
<1> QED  BY <1>1, <1>2, <1>3, <1>4, <1>5 DEF Turns, TxSteps, Next, Line, Handler, Call

(* Writer and handler take turns.                                          *)
LEMMA TurnsStep == TypeOK /\ Turns /\ [Next]_vars => Turns'
<1> SUFFICES ASSUME TypeOK, Turns, [Next]_vars, ~mixed' PROVE TakesTurns'
  BY DEF Turns
<1> USE DEF Sending, At, Goto, uart, shared, message, locals, handler, traffic, history
<1>0. pc \in [Procs -> Labels] /\ mcount \in Nat
  BY SeriAssumption DEF TypeOK
<1>1. ASSUME NEW p \in Procs, NEW n \in Counts, CallWrite(p, n), Quiet PROVE TakesTurns'
  BY <1>0, <1>1 DEF CallWrite, Quiet, TakesTurns
<1>2. ASSUME TakesTurns, TxSteps PROVE TakesTurns'
  <2>1. CASE UNCHANGED vars
    BY <1>2, <2>1 DEF vars, TakesTurns
  <2>2. CASE Transmit
    BY <1>2, <2>2 DEF Transmit, TakesTurns
  <2>3. ASSUME NEW p \in Procs, Write(p) PROVE TakesTurns'
    <3>1. CASE WriteAlloc(p)
      BY <1>0, <1>2, <3>1 DEF WriteAlloc, TakesTurns
    <3>2. CASE WriteCopy(p)
      BY <1>0, <1>2, <3>2 DEF WriteCopy, TakesTurns
    <3>3. CASE WriteFirst(p)
      BY <1>0, <1>2, <3>3 DEF WriteFirst, TakesTurns
    <3>4. CASE WriteDown(p)
      BY <1>0, <1>2, <3>4 DEF WriteDown, TakesTurns
    <3>5. CASE WritePut(p)
      BY <1>0, <1>2, <3>5 DEF WritePut, TakesTurns
    <3>6. CASE WriteOut(p)
      BY <1>0, <1>2, <3>6 DEF WriteOut, outb, TakesTurns
    <3>7. CASE WriteFree(p)
      BY <1>0, <1>2, <3>7 DEF WriteFree, Return, TakesTurns
    <3> QED  BY <2>3, <3>1, <3>2, <3>3, <3>4, <3>5, <3>6, <3>7 DEF Write
  <2>4. CASE Interrupt
    BY <1>0, <1>2, <2>4 DEF Interrupt, TakesTurns
  <2>5. CASE TxDown
    BY <1>2, <2>5 DEF TxDown, TakesTurns
  <2>6. CASE TxGet
    BY <1>2, <2>6 DEF TxGet, Done, TakesTurns
  <2>7. CASE TxOut
    BY <1>2, <2>7 DEF TxOut, outb, TakesTurns
  <2>8. CASE TxEnd
    BY <1>2, <2>8 DEF TxEnd, Done, TakesTurns
  <2> QED  BY <1>2, <2>1, <2>2, <2>3, <2>4, <2>5, <2>6, <2>7, <2>8 DEF TxSteps
<1> QED  BY <1>1, <1>2, AloneSteps

(* At the start everybody is in user space and the handler rests.          *)
LEMMA TurnsInit == Init => Turns
BY DEF Init, Turns, TakesTurns, Sending, At

(* The handler meets a held semaphore, or an array too small for the bytes *)
(* it takes, only after two calls have met or a read or a byte received    *)
(* has come in -- whatever the byte counts, and with or without signals.   *)
THEOREM HandlerFindsSemaphoreFree == Spec => []HandlerUndisturbed
<1>1. Init => IInv /\ Turns
  BY InitIInv, TurnsInit
<1>2. IInv /\ Turns /\ [Next]_vars => IInv' /\ Turns'
  BY TypeStep, LockStep, TurnsStep DEF IInv
<1>3. IInv /\ Turns => HandlerUndisturbed
  BY DEF IInv, SemExact, Turns, TakesTurns, HandlerUndisturbed, InHandler, InProcess, Sending, At
<1> QED  BY <1>1, <1>2, <1>3, PTL DEF Spec

(***************************************************************************)
(* What the line carries of such a write.  dev_write sends its first byte  *)
(* itself; the fifo holds as many as fit, and the handler sends them from  *)
(* the second on.                                                          *)
(***************************************************************************)
Places(n) == [k \in 1..n |-> k]

(* How many bytes of the write the fifo has taken, and its first byte.     *)
Fits     == Min({written, FIFO_SIZE})
FirstOut == IF written = 0 THEN Nul ELSE 1

(* While it is under way its bytes are in the buffer, then in the fifo.    *)
Prepared(p) ==
    /\ lastOut = 0 /\ count[p] = written /\ msg[p] = Places(written)
    /\ fifo = IF At(p, "w_out") THEN Places(Fits) ELSE <<>>
    /\ ~At(p, "w_alloc") => data = p /\ p \in alive /\ mcount = written
    /\ At(p, "w_copy") => buf[p] = [k \in 1..written + 1 |-> Nul]
    /\ pc[p] \in {"w_first", "w_down", "w_put"} =>
         /\ Len(buf[p]) = written + 1 /\ buf[p][written + 1] = Nul
         /\ \A k \in 1..written : buf[p][k] = k
    /\ pc[p] \in {"w_down", "w_put", "w_out"} => first[p] = FirstOut

(* After it, the fifo, the handler's buffer or the register has the rest.  *)
InFifo == /\ fifo = Places(Fits)
          /\ \/ hpc = "idle" /\ thr = FirstOut /\ ~thri /\ lastOut = 0
             \/ /\ hpc \in {"idle", "tx_down", "tx_get"} /\ thr = Empty
                /\ lastOut = IF written = 0 THEN Junk ELSE 1

InHand == /\ fifo = <<>> /\ hpc = "tx_out" /\ Fits > 0 /\ hbuf = Places(Fits)
          /\ 1 <= hi /\ hi <= written /\ lastOut # 0
          /\ hi <= Fits => \/ thr = Empty /\ lastOut = hi
                           \/ thr = hi /\ lastOut \in 1..hi - 1
          /\ hi > Fits => thr \in {Empty, Junk}

AllOut == /\ fifo = <<>> /\ hpc # "tx_out"
          /\ \/ thr = Empty /\ (written \in 1..FIFO_SIZE => lastOut = written)
             \/ thr = Junk /\ written > FIFO_SIZE /\ lastOut # 0
             \/ thr = written /\ written \in 1..FIFO_SIZE /\ lastOut \in 1..written - 1

Stream == /\ \A p \in Procs : Sending(p) => Prepared(p)
          /\ (\A p \in Procs : ~Sending(p)) =>
               mcount = written /\ (InFifo \/ InHand \/ AllOut)

AloneStream == ~mixed => Stream

(* The bytes of a write, each its own place in it.                         *)
LEMMA PlacesType ==
  ASSUME NEW n \in Nat
  PROVE  /\ Places(n) \in Seq(Nat \ {0}) /\ Places(n) \in Seq(Byte)
         /\ Len(Places(n)) = n /\ \A k \in 1..n : Places(n)[k] = k
         /\ Places(n) = <<>> <=> n = 0
<1>1. Places(n) \in [1..n -> Nat \ {0}] /\ \A k \in 1..n : Places(n)[k] = k
  BY DEF Places
<1>2. Places(n) \in Seq(Nat \ {0})
  BY <1>1, SeqDef
<1>3. Len(Places(n)) = n
  <2>1. DOMAIN Places(n) = 1..Len(Places(n)) /\ Len(Places(n)) \in Nat
    BY <1>2, LenProperties
  <2> DEFINE l == Len(Places(n))
  <2>2. 1..l = 1..n
    BY <1>1, <2>1
  <2> HIDE DEF l
  <2>3. l \in Nat /\ (\A k \in Nat : k \in 1..l <=> k \in 1..n)
    BY <2>1, <2>2 DEF l
  <2>4. (l \in 1..l <=> l \in 1..n) /\ (n \in 1..l <=> n \in 1..n)
    BY <2>3
  <2>5. l = n
    BY <2>3, <2>4
  <2> QED  BY <2>5 DEF l
<1>4. Places(n) \in Seq(Byte)
  BY <1>2, SeqMonotonic DEF Byte
<1> QED  BY <1>1, <1>2, <1>3, <1>4, EmptySeq

(* The smaller of two numbers is one of them.                              *)
LEMMA MinIs ==
  ASSUME NEW a \in Nat, NEW b \in Nat
  PROVE  Min({a, b}) = IF b <= a THEN b ELSE a
<1>1. \E x \in {a, b} : \A y \in {a, b} : x <= y
  OBVIOUS
<1>2. Min({a, b}) \in {a, b} /\ \A y \in {a, b} : Min({a, b}) <= y
  BY <1>1 DEF Min
<1> QED  BY <1>2

(* What the fifo takes of a write is its first bytes, as many as fit.      *)
LEMMA FitsIs == TypeOK => /\ written \in Nat /\ mcount \in Nat /\ FIFO_SIZE \in Nat \ {0}
                          /\ Fits = IF written <= FIFO_SIZE THEN written ELSE FIFO_SIZE
<1> SUFFICES ASSUME TypeOK PROVE /\ written \in Nat /\ mcount \in Nat /\ FIFO_SIZE \in Nat \ {0}
                          /\ Fits = IF written <= FIFO_SIZE THEN written ELSE FIFO_SIZE
  OBVIOUS
<1>1. written \in Nat /\ mcount \in Nat /\ FIFO_SIZE \in Nat \ {0}
  BY SeriAssumption DEF TypeOK
<1>2. {written, FIFO_SIZE} = {FIFO_SIZE, written}
  OBVIOUS
<1> QED  BY <1>1, <1>2, MinIs DEF Fits

LEMMA TakePlaces ==
  ASSUME NEW n \in Nat, NEW m \in Nat
  PROVE  Take(Places(n), m) = Places(Min({m, n}))
<1>1. Len(Places(n)) = n /\ \A k \in 1..n : Places(n)[k] = k
  BY PlacesType
<1> DEFINE j == Min({m, n})
<1>2. j \in Nat /\ j <= n
  BY MinOfTwo
<1> HIDE DEF j
<1>3. \A k \in 1..j : Places(n)[k] \in Nat
  BY <1>1, <1>2
<1> DEFINE s == SubSeq(Places(n), 1, j)
<1>4. s \in Seq(Nat) /\ Len(s) = (IF 1 <= j THEN j - 1 + 1 ELSE 0)
      /\ \A k \in 1..j - 1 + 1 : s[k] = Places(n)[1 + k - 1]
  BY <1>2, <1>3, SubSeqProperties
<1> HIDE DEF s
<1>5. Len(s) = j /\ \A k \in 1..j : s[k] = k
  BY <1>1, <1>2, <1>4
<1>6. Places(j) \in Seq(Nat) /\ Len(Places(j)) = j /\ \A k \in 1..j : Places(j)[k] = k
  BY <1>2, PlacesType, SeqMonotonic
<1>7. s = Places(j)
  BY <1>4, <1>5, <1>6, SeqEqual
<1> QED  BY <1>1, <1>7 DEF Take, s, j

(* Asking for at least as many bytes as there are gets them all.           *)
LEMMA TakeAll ==
  ASSUME NEW S, NEW s \in Seq(S), NEW n \in Nat, Len(s) <= n
  PROVE  Take(s, n) = s /\ Drop(s, n) = <<>>
<1>1. Len(s) \in Nat /\ \A k \in 1..Len(s) : s[k] \in S
  BY LenProperties
<1>2. Min({n, Len(s)}) = Len(s)
  BY <1>1, MinIs
<1>3. SubSeq(s, 1, Len(s)) = s
  OBVIOUS
<1>4. SubSeq(s, n + 1, Len(s)) = <<>>
  BY <1>1
<1> QED  BY <1>2, <1>3, <1>4 DEF Take, Drop

(* A sequence with one more byte behind it.                                *)
LEMMA OneMore ==
  ASSUME NEW S, NEW w \in Seq(S), NEW d \in Seq(S), Len(d) = 1
  PROVE  /\ Len(w \o d) = Len(w) + 1 /\ (w \o d)[Len(w) + 1] = d[1]
         /\ \A k \in 1..Len(w) : (w \o d)[k] = w[k]
<1>1. /\ Len(w) \in Nat /\ Len(w \o d) = Len(w) + Len(d)
      /\ \A k \in 1..Len(w) + Len(d) : (w \o d)[k] = IF k <= Len(w) THEN w[k] ELSE d[k - Len(w)]
  BY ConcatProperties, LenProperties
<1> QED  BY <1>1

(* copy_from_user fills all of the cleared buffer but its last byte.       *)
LEMMA FillsBuffer ==
  ASSUME NEW n \in Nat, NEW s, s = [k \in 1..n + 1 |-> Nul],
         NEW t, t = Places(n) \o Drop(s, n)
  PROVE  Len(t) = n + 1 /\ t[n + 1] = Nul /\ \A k \in 1..n : t[k] = k
<1>1. s \in Seq(Byte) /\ Len(s) = n + 1 /\ s[n + 1] = Nul
  <2>1. s \in [1..n + 1 -> Byte] /\ n + 1 \in Nat
    BY DEF Byte
  <2>2. s \in Seq(Byte)
    BY <2>1, SeqDef
  <2>3. DOMAIN s = 1..Len(s) /\ Len(s) \in Nat
    BY <2>2, LenProperties
  <2> QED  BY <2>1, <2>2, <2>3
<1>2. \A k \in n + 1..n + 1 : s[k] \in Byte
  BY <1>1, ElementOfSeq
<1>3. /\ Drop(s, n) \in Seq(Byte) /\ Len(Drop(s, n)) = 1
      /\ Drop(s, n)[1] = Nul
  <2>1. /\ SubSeq(s, n + 1, n + 1) \in Seq(Byte)
        /\ Len(SubSeq(s, n + 1, n + 1)) = IF n + 1 <= n + 1 THEN n + 1 - (n + 1) + 1 ELSE 0
        /\ \A k \in 1..n + 1 - (n + 1) + 1 : SubSeq(s, n + 1, n + 1)[k] = s[n + 1 + k - 1]
    BY <1>2, SubSeqProperties
  <2>2. SubSeq(s, n + 1, n + 1)[1] = s[n + 1 + 1 - 1] /\ n + 1 + 1 - 1 = n + 1
    BY <2>1
  <2> QED  BY <1>1, <2>1, <2>2 DEF Drop
<1>4. /\ Places(n) \in Seq(Byte) /\ Len(Places(n)) = n
      /\ \A k \in 1..n : Places(n)[k] = k
  BY PlacesType
<1>5. /\ Len(Places(n) \o Drop(s, n)) = Len(Places(n)) + 1
      /\ (Places(n) \o Drop(s, n))[Len(Places(n)) + 1] = Drop(s, n)[1]
      /\ \A k \in 1..Len(Places(n)) : (Places(n) \o Drop(s, n))[k] = Places(n)[k]
  BY <1>3, <1>4, OneMore, Zenon
<1>6. Len(t) = n + 1
  BY <1>4, <1>5, Zenon
<1>7. t[n + 1] = Nul
  BY <1>3, <1>4, <1>5, Zenon
<1>8. \A k \in 1..n : t[k] = k
  BY <1>4, <1>5, Zenon
<1> QED  BY <1>6, <1>7, <1>8, Zenon

(* From the buffer that a write filled, dev_write takes the message back,  *)
(* and the first byte of it, or the Nul behind a message of none.          *)
LEMMA DataBytesAre ==
  ASSUME NEW n \in Nat, data \in alive, Len(buf[data]) = n + 1, buf[data][n + 1] = Nul,
         \A k \in 1..n : buf[data][k] = k
  PROVE  /\ DataBytes(n) = Places(n)
         /\ Head(DataBytes(1)) = IF n = 0 THEN Nul ELSE 1
<1>1. DataBytes(n) = Places(n)
  BY DEF DataBytes, Places
<1>2. DataBytes(1) = [k \in 1..1 |-> buf[data][k]]
  BY DEF DataBytes
<1>3. buf[data][1] = IF n = 0 THEN Nul ELSE 1
  OBVIOUS
<1>4. Head(DataBytes(1)) = DataBytes(1)[1]
  <2>1. \A k \in 1..1 : buf[data][k] \in Byte
    BY <1>3 DEF Byte
  <2>2. DataBytes(1) \in Seq(Byte)
    <3>1. DataBytes(1) \in [1..1 -> Byte]
      BY <1>2, <2>1
    <3> QED  BY <3>1, SeqDef
  <2>3. DOMAIN DataBytes(1) = 1..1
    BY <1>2
  <2>4. DataBytes(1) # <<>>
    BY <2>3
  <2> QED  BY <2>2, <2>4, HeadTailProperties
<1> QED  BY <1>1, <1>2, <1>3, <1>4

(* What the stream and the turns together say before a step of a write.    *)
LEMMA WriterAlone ==
  ASSUME TypeOK, TakesTurns, Stream, NEW p \in Procs, Sending(p)
  PROVE  /\ Prepared(p) /\ thr = Empty /\ ~thri /\ hpc = "idle"
         /\ \A q \in Procs : q # p => ~Sending(q)
BY DEF TakesTurns, Stream, Sending, At

(* A step of a write leads on to the bytes in the fifo and the first one   *)
(* of them in the transmitter.                                             *)
LEMMA WriteStream ==
  ASSUME TypeOK, TakesTurns, Stream, NEW p \in Procs, Write(p)
  PROVE  Stream'
<1> USE DEF At, Goto, uart, shared, message, locals, handler, traffic, history
<1>0. pc \in [Procs -> Labels] /\ fifo \in Seq(Byte)
  BY DEF TypeOK
<1>a. ASSUME Sending(p), Sending(p)', Prepared(p)', \A q \in Procs : q # p => pc'[q] = pc[q]
      PROVE  Stream'
  <2>1. \A q \in Procs : q # p => ~Sending(q)'
    BY <1>a, WriterAlone DEF Sending
  <2> QED  BY <1>a, <2>1 DEF Stream
<1>1. CASE WriteAlloc(p)
  <2>1. Sending(p) /\ Sending(p)' /\ \A q \in Procs : q # p => pc'[q] = pc[q]
    BY <1>0, <1>1 DEF WriteAlloc, Sending
  <2>2. pc'[p] = "w_copy" /\ data' = p /\ p \in alive' /\ mcount' = count[p]
    BY <1>0, <1>1 DEF WriteAlloc
  <2>3. buf'[p] = [k \in 1..count[p] + 1 |-> Nul]
    BY <1>1 DEF WriteAlloc, TypeOK
  <2>4. Prepared(p)'
    BY <1>1, <2>1, <2>2, <2>3, WriterAlone DEF WriteAlloc, Prepared
  <2> QED  BY <1>a, <2>1, <2>4
<1>2. CASE WriteCopy(p)
  <2>1. Sending(p) /\ Sending(p)' /\ \A q \in Procs : q # p => pc'[q] = pc[q]
    BY <1>0, <1>2 DEF WriteCopy, Sending
  <2>2. /\ data = p /\ buf[p] = [k \in 1..written + 1 |-> Nul] /\ written \in Nat
        /\ msg[p] = Places(written) /\ count[p] = written
    BY <1>2, <2>1, WriterAlone, FitsIs DEF WriteCopy, Prepared
  <2>3. buf'[p] = Places(written) \o Drop(buf[p], written)
    BY <1>2, <2>2 DEF WriteCopy, TypeOK
  <2>4. /\ Len(buf'[p]) = written + 1 /\ buf'[p][written + 1] = Nul
        /\ \A k \in 1..written : buf'[p][k] = k
    <3> DEFINE s == buf[p]
               u == buf'[p]
    <3>1. s = [k \in 1..written + 1 |-> Nul] /\ u = Places(written) \o Drop(s, written) /\ written \in Nat
      BY <2>2, <2>3
    <3> HIDE DEF s, u
    <3>2. Len(u) = written + 1 /\ u[written + 1] = Nul /\ \A k \in 1..written : u[k] = k
      BY <3>1, FillsBuffer, Zenon
    <3> QED  BY <3>2 DEF u
  <2>5. pc'[p] = "w_first"
    BY <1>0, <1>2 DEF WriteCopy
  <2>6. Prepared(p)'
    BY <1>2, <2>1, <2>4, <2>5, WriterAlone DEF WriteCopy, Prepared
  <2> QED  BY <1>a, <2>1, <2>6
<1>3. CASE WriteFirst(p)
  <2>1. Sending(p) /\ Sending(p)' /\ \A q \in Procs : q # p => pc'[q] = pc[q]
    BY <1>0, <1>3 DEF WriteFirst, Sending
  <2>2. Head(DataBytes(1)) = FirstOut
    <3>1. /\ data \in alive /\ Len(buf[data]) = written + 1 /\ buf[data][written + 1] = Nul
          /\ (\A k \in 1..written : buf[data][k] = k) /\ written \in Nat
      BY <1>3, <2>1, WriterAlone, FitsIs DEF WriteFirst, Prepared
    <3> QED  BY <3>1, DataBytesAre DEF FirstOut
  <2>3. first'[p] = FirstOut /\ pc'[p] = "w_down"
    BY <1>0, <1>3, <2>2 DEF WriteFirst, TypeOK
  <2>4. Prepared(p)'
    BY <1>3, <2>1, <2>3, WriterAlone DEF WriteFirst, Prepared, FirstOut
  <2> QED  BY <1>a, <2>1, <2>4
<1>4. CASE WriteDown(p)
  <2>1. Sending(p) /\ Sending(p)' /\ \A q \in Procs : q # p => pc'[q] = pc[q]
    BY <1>0, <1>4 DEF WriteDown, Sending
  <2>2. pc'[p] = "w_put"
    BY <1>0, <1>4 DEF WriteDown
  <2>3. Prepared(p)'
    BY <1>4, <2>1, <2>2, WriterAlone DEF WriteDown, Prepared, FirstOut
  <2> QED  BY <1>a, <2>1, <2>3
<1>5. CASE WritePut(p)
  <2>1. Sending(p) /\ Sending(p)' /\ \A q \in Procs : q # p => pc'[q] = pc[q]
    BY <1>0, <1>5 DEF WritePut, Sending
  <2>2. /\ data \in alive /\ Len(buf[data]) = written + 1 /\ buf[data][written + 1] = Nul
        /\ (\A k \in 1..written : buf[data][k] = k) /\ fifo = <<>> /\ count[p] = written
    BY <1>5, <2>1, WriterAlone DEF WritePut, Prepared
  <2>3. written \in Nat /\ FIFO_SIZE \in Nat
    BY FitsIs
  <2>4. DataBytes(count[p]) = Places(written)
    BY <2>2, <2>3, DataBytesAre
  <2>5. FIFO_SIZE - Len(fifo) = FIFO_SIZE
    BY <2>2, <2>3, EmptySeq
  <2>6. Take(Places(written), FIFO_SIZE) = Places(Fits)
    <3>1. {FIFO_SIZE, written} = {written, FIFO_SIZE}
      OBVIOUS
    <3> QED  BY <2>3, <3>1, TakePlaces DEF Fits
  <2>7. fifo' = Places(Fits)
    <3>1. fifo' = <<>> \o Places(Fits)
      BY <1>5, <2>2, <2>4, <2>5, <2>6 DEF WritePut, kfifo_put
    <3>2. Fits \in Nat
      BY FitsIs
    <3>3. Places(Fits) \in Seq(Byte)
      BY <3>2, PlacesType
    <3> QED  BY <3>1, <3>3, ConcatEmptySeq
  <2>8. pc'[p] = "w_out" /\ Fits' = Fits /\ FirstOut' = FirstOut
    BY <1>0, <1>5 DEF WritePut, Fits, FirstOut
  <2>9. Prepared(p)'
    BY <1>5, <2>1, <2>7, <2>8, WriterAlone DEF WritePut, Prepared
  <2> QED  BY <1>a, <2>1, <2>9
<1>6. CASE WriteOut(p)
  <2>1. Sending(p) /\ pc' = [pc EXCEPT ![p] = "w_free"]
    BY <1>6 DEF WriteOut, Sending
  <2>2. \A q \in Procs : ~Sending(q)'
    BY <1>0, <2>1, WriterAlone DEF Sending
  <2>3. /\ fifo = Places(Fits) /\ mcount = written /\ first[p] = FirstOut
        /\ hpc = "idle" /\ lastOut = 0
    BY <1>6, <2>1, WriterAlone DEF WriteOut, Prepared
  <2>4. mcount' = written' /\ InFifo'
    BY <1>6, <2>3 DEF WriteOut, outb, InFifo, Fits, FirstOut
  <2> QED  BY <2>2, <2>4 DEF Stream
<1>7. CASE WriteFree(p)
  <2>1. \A q \in Procs : ~Sending(q) /\ ~Sending(q)'
    <3>1. \A q \in Procs : q # p => pc[q] = "user"
      BY <1>7 DEF WriteFree, TakesTurns
    <3> QED  BY <1>0, <1>7, <3>1 DEF WriteFree, Return, Sending
  <2>2. UNCHANGED <<thr, thri, fifo, mcount, hpc, hbuf, hi, written, lastOut>>
    BY <1>7 DEF WriteFree
  <2> QED  BY <2>1, <2>2 DEF Stream, InFifo, InHand, AllOut, Fits, FirstOut
<1> QED  BY <1>1, <1>2, <1>3, <1>4, <1>5, <1>6, <1>7 DEF Write

(* A call that finds the driver quiet starts with an empty fifo.           *)
LEMMA CallStream ==
  ASSUME TypeOK, Quiet, NEW p \in Procs, NEW n \in Counts, CallWrite(p, n)
  PROVE  Stream'
<1>1. pc' = [pc EXCEPT ![p] = "w_alloc"] /\ fifo' = <<>> /\ lastOut' = 0 /\ written' = n
  BY DEF CallWrite, Goto, shared, Quiet
<1>2. Sending(p)' /\ \A q \in Procs : q # p => ~Sending(q)'
  BY <1>1 DEF Sending, TypeOK, Quiet, At
<1>3. msg'[p] = Places(n) /\ count'[p] = n
  BY DEF CallWrite, TypeOK, Places
<1>4. Prepared(p)'
  BY <1>1, <1>3 DEF Prepared, At, TypeOK
<1> QED  BY <1>2, <1>4 DEF Stream

(* The transmitter and the handler pass the bytes on in their order.       *)
LEMMA HandlerStream ==
  ASSUME TypeOK, TakesTurns, Stream,
         \A q \in Procs : ~Sending(q),
         Transmit \/ Interrupt \/ TxDown \/ TxGet \/ TxOut \/ TxEnd
  PROVE  Stream'
<1> USE DEF uart, shared, message, locals, handler, traffic, history, Empty, Junk, Nul
<1>0. pc' = pc /\ mcount' = mcount /\ written' = written
  BY DEF Transmit, Interrupt, TxDown, TxGet, TxOut, TxEnd, Done
<1>1. Fits' = Fits /\ FirstOut' = FirstOut
  BY <1>0 DEF Fits, FirstOut
<1>2. mcount = written /\ (InFifo \/ InHand \/ AllOut)
  BY DEF Stream
<1>3. SUFFICES InFifo' \/ InHand' \/ AllOut'
  <2>1. \A q \in Procs : ~Sending(q)'
    BY <1>0 DEF Sending
  <2> QED  BY <1>0, <1>2, <2>1 DEF Stream
<1>4. /\ written \in Nat /\ FIFO_SIZE \in Nat \ {0} /\ hi \in Nat /\ Fits \in Nat
      /\ Fits = IF written <= FIFO_SIZE THEN written ELSE FIFO_SIZE
  BY FitsIs DEF TypeOK
<1>a. /\ Len(Places(Fits)) = Fits /\ Places(Fits) \in Seq(Byte)
      /\ (\A k \in 1..Fits : Places(Fits)[k] = k) /\ (Places(Fits) = <<>> <=> Fits = 0)
  BY <1>4, PlacesType
<1>5. CASE Transmit
  <2>1. /\ thr # Empty /\ lastOut' = (IF thr \in Nat THEN thr ELSE Junk) /\ thr' = Empty
        /\ UNCHANGED <<fifo, hpc, hbuf, hi>>
    BY <1>5 DEF Transmit
  <2>2. CASE InFifo
    BY <1>0, <1>1, <2>1, <2>2 DEF InFifo, FirstOut
  <2>3. CASE InHand
    BY <1>0, <1>1, <1>4, <2>1, <2>3 DEF InHand
  <2>4. CASE AllOut
    BY <1>0, <1>4, <2>1, <2>4 DEF AllOut
  <2> QED  BY <1>2, <2>2, <2>3, <2>4
<1>6. CASE Interrupt
  <2>1. /\ hpc = "idle" /\ UNCHANGED <<thr, fifo, hbuf, hi, lastOut>>
        /\ \/ thri /\ hpc' = "tx_down"
           \/ UNCHANGED <<thri, hpc>>
    BY <1>6 DEF Interrupt, TakesTurns
  <2>2. CASE InFifo
    BY <1>0, <1>1, <2>1, <2>2 DEF InFifo
  <2>3. CASE AllOut
    BY <1>0, <2>1, <2>3 DEF AllOut
  <2> QED  BY <1>2, <2>1, <2>2, <2>3 DEF InHand
<1>7. CASE TxDown
  <2>1. hpc = "tx_down" /\ hpc' = "tx_get" /\ UNCHANGED <<thr, thri, fifo, hbuf, hi, lastOut>>
    BY <1>7 DEF TxDown
  <2>2. CASE InFifo
    BY <1>0, <1>1, <2>1, <2>2 DEF InFifo
  <2>3. CASE AllOut
    BY <1>0, <2>1, <2>3 DEF AllOut
  <2> QED  BY <1>2, <2>1, <2>2, <2>3 DEF InHand
<1>8. CASE TxGet
  <2>1. hpc = "tx_get" /\ UNCHANGED <<thr, lastOut>> /\ fifo' = Drop(fifo, mcount)
    BY <1>8 DEF TxGet, kfifo_get
  <2>2. ASSUME fifo \in Seq(Byte), Len(fifo) <= mcount
        PROVE  fifo' = <<>> /\ Take(fifo, mcount) = fifo
    BY <1>2, <1>4, <2>1, <2>2, TakeAll
  <2>3. CASE InFifo /\ Fits > 0
    <3>1. fifo = Places(Fits) /\ fifo # <<>> /\ thr = Empty /\ lastOut = 1
      BY <1>4, <1>a, <2>1, <2>3 DEF InFifo
    <3>2. fifo' = <<>> /\ Take(fifo, mcount) = fifo
      BY <1>2, <1>4, <1>a, <2>2, <3>1
    <3>3. hbuf' = Places(Fits) /\ hi' = 1 /\ hpc' = "tx_out"
      BY <1>8, <3>1, <3>2 DEF TxGet
    <3> QED  BY <1>0, <1>1, <1>4, <2>1, <2>3, <3>1, <3>2, <3>3 DEF InHand
  <2>4. CASE (InFifo /\ Fits = 0) \/ AllOut
    <3>1. fifo = <<>> /\ Len(fifo) <= mcount
      BY <1>2, <1>4, <1>a, <2>4, EmptySeq DEF InFifo, AllOut
    <3>2. fifo' = <<>> /\ Take(fifo, mcount) = <<>>
      BY <2>2, <3>1, EmptySeq
    <3>3. hpc' = "idle"
      BY <1>8, <3>2 DEF TxGet, Done
    <3> QED  BY <1>0, <1>4, <2>1, <2>4, <3>2, <3>3 DEF InFifo, AllOut
  <2> QED  BY <1>2, <1>4, <2>1, <2>3, <2>4 DEF InHand
<1>9. CASE TxOut
  <2>1. /\ hpc = "tx_out" /\ hi < written /\ UNCHANGED <<fifo, hpc, hbuf, lastOut>>
        /\ thr' = (IF hi < Len(hbuf) THEN hbuf[hi + 1] ELSE Junk) /\ hi' = hi + 1
    BY <1>2, <1>9 DEF TxOut, outb
  <2>2. InHand
    BY <1>2, <2>1 DEF InFifo, AllOut
  <2>3. thr' = IF hi < Fits THEN hi + 1 ELSE Junk
    <3>1. hbuf = Places(Fits)
      BY <2>2 DEF InHand
    <3> QED  BY <1>4, <1>a, <2>1, <3>1
  <2> QED  BY <1>0, <1>1, <1>4, <2>1, <2>2, <2>3 DEF InHand
<1>10. CASE TxEnd
  <2>1. hpc = "tx_out" /\ hi >= written /\ hpc' = "idle" /\ UNCHANGED <<thr, fifo, lastOut>>
    BY <1>2, <1>10 DEF TxEnd, Done
  <2>2. InHand
    BY <1>2, <2>1 DEF InFifo, AllOut
  <2> QED  BY <1>0, <1>4, <2>1, <2>2 DEF InHand, AllOut
<1> QED  BY <1>5, <1>6, <1>7, <1>8, <1>9, <1>10

(* Every step keeps the stream whole.                                      *)
LEMMA StreamStep ==
  TypeOK /\ Turns /\ AloneStream /\ [Next]_vars => AloneStream'
<1> SUFFICES ASSUME TypeOK, Turns, AloneStream, [Next]_vars, ~mixed' PROVE Stream'
  BY DEF AloneStream
<1>1. ASSUME NEW p \in Procs, NEW n \in Counts, CallWrite(p, n), Quiet PROVE Stream'
  BY <1>1, CallStream
<1>2. ASSUME TxSteps, ~mixed, TakesTurns PROVE Stream'
  <2>0. Stream
    BY <1>2 DEF AloneStream
  <2> USE DEF uart, shared, message, locals, handler, traffic, history, At
  <2>1. CASE UNCHANGED vars
    BY <2>0, <2>1 DEF vars, Stream, Sending, Prepared, InFifo, InHand, AllOut, Fits, FirstOut
  <2>2. ASSUME NEW q \in Procs, Sending(q),
               Transmit \/ Interrupt \/ TxDown \/ TxGet \/ TxOut \/ TxEnd
        PROVE  UNCHANGED <<thr, fifo, message, pc, count, msg, first, handler, written, lastOut>>
    BY <1>2, <2>2 DEF TakesTurns, Transmit, Interrupt, TxDown, TxGet, TxOut, TxEnd
  <2>3. ASSUME NEW q \in Procs, Sending(q),
               UNCHANGED <<thr, fifo, message, pc, count, msg, first, handler, written, lastOut>>
        PROVE  Stream'
    BY <2>0, <2>3 DEF Stream, Sending, Prepared, Fits, FirstOut
  <2> QED  BY <1>2, <2>0, <2>1, <2>2, <2>3, WriteStream, HandlerStream DEF TxSteps
<1> QED  BY <1>1, <1>2, AloneSteps

(* At the start nothing is written and nothing is out.                     *)
LEMMA StreamInit == Init => AloneStream
BY DEF Init, AloneStream, Stream, Sending, AllOut

(* Of a write that has the driver for itself the bytes leave on the line   *)
(* in order and each at most once, the first one always, and once all is   *)
(* quiet the last one too: dev_write's own outb, the kfifo and the         *)
(* handler's loop between them repeat and overtake nothing, and of one or  *)
(* two bytes they lose none -- for every byte count and size of the fifo.  *)
THEOREM LineCarriesWrites == Spec => OutputExact
<1> DEFINE Inv3 == IInv /\ Turns /\ AloneStream
           Whole == ~mixed /\ Quiet /\ written \in 1..FIFO_SIZE => lastOut = written
           Follows == ~mixed /\ thr # Empty /\ thr' = Empty => MayFollow(thr)
<1>1. Init => Inv3
  BY InitIInv, TurnsInit, StreamInit
<1>2. Inv3 /\ [Next]_vars => Inv3'
  BY TypeStep, LockStep, TurnsStep, StreamStep DEF IInv
<1>3. ASSUME Inv3, ~mixed, \A q \in Procs : ~Sending(q)
      PROVE  /\ InFifo \/ InHand \/ AllOut
             /\ written \in Nat /\ FIFO_SIZE \in Nat \ {0}
             /\ Fits = IF written <= FIFO_SIZE THEN written ELSE FIFO_SIZE
  BY <1>3, FitsIs DEF IInv, AloneStream, Stream
<1>4. Inv3 => Whole
  <2> SUFFICES ASSUME Inv3, ~mixed, Quiet, written \in 1..FIFO_SIZE PROVE lastOut = written
    OBVIOUS
  <2>1. \A q \in Procs : ~Sending(q)
    BY DEF Quiet, Sending, At
  <2>2. ~InFifo
    <3>1. Fits \in Nat /\ Fits # 0
      BY <1>3, <2>1
    <3>2. Places(Fits) # <<>>
      BY <3>1, PlacesType
    <3> QED  BY <3>2 DEF InFifo, Quiet
  <2>3. AllOut
    BY <1>3, <2>1, <2>2 DEF InHand, Quiet
  <2> QED  BY <1>3, <2>1, <2>3 DEF Quiet, AllOut, Empty, Junk
<1>5. Inv3 => Follows
  <2> SUFFICES ASSUME Inv3, ~mixed, thr # Empty PROVE MayFollow(thr)
    OBVIOUS
  <2>1. \A q \in Procs : ~Sending(q)
    BY DEF Turns, TakesTurns
  <2>2. /\ InFifo \/ InHand \/ AllOut
        /\ written \in Nat /\ FIFO_SIZE \in Nat \ {0}
        /\ Min({written, FIFO_SIZE}) = IF written <= FIFO_SIZE THEN written ELSE FIFO_SIZE
    BY <1>3, <2>1 DEF Fits
  <2>3. CASE InFifo
    BY <2>2, <2>3 DEF InFifo, FirstOut, MayFollow, Empty, Nul
  <2>4. CASE InHand
    <3>1. hi \in Nat
      BY DEF IInv, TypeOK
    <3> QED  BY <2>2, <2>4, <3>1 DEF InHand, Fits, MayFollow, Empty, Junk
  <2>5. CASE AllOut
    BY <2>2, <2>5 DEF AllOut, MayFollow, Empty, Junk
  <2> QED  BY <2>2, <2>3, <2>4, <2>5
<1>6. Spec => []Whole
  BY <1>1, <1>2, <1>4, PTL DEF Spec
<1>7. Inv3 /\ [Next]_vars => [Follows]_vars
  BY <1>5
<1>8. Spec => [][Follows]_vars
  BY <1>1, <1>2, <1>7, PTL DEF Spec
<1> QED  BY <1>6, <1>8, PTL DEF OutputExact
=============================================================================

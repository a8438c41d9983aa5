---------------------------- MODULE ScullDevice ----------------------------
(***************************************************************************)
(* The memory device of examples/scull/main.c: a list of quantum sets that *)
(* grows as it is written and is emptied by an open for writing.           *)
(*                                                                         *)
(* dev[d].data is the list, one entry per scull_qset; an entry is the      *)
(* array of quanta, a quantum the bytes of one kmalloc, and <<>> is NULL.  *)
(* A process that goes through the list holds a pointer into it (ref[p]),  *)
(* which a trim by somebody else turns from "live" into "freed".           *)
(***************************************************************************)
EXTENDS Integers, Sequences, FiniteSets

CONSTANTS Procs,        \* processes, with one open file at most each
          Devs,         \* devices
          Capable,      \* the processes with CAP_SYS_ADMIN and CAP_DAC_OVERRIDE
          MaxPos,       \* bound: positions are 0 .. MaxPos - 1
          Counts,       \* byte counts of reads and writes
          Params,       \* values of <<scull_quantum, scull_qset>>
          Default       \* <<SCULL_QUANTUM, SCULL_QSET>>

Junk == -1              \* memory that kmalloc returned and nobody wrote
None == "none"

ASSUME DeviceAssumption ==
  /\ IsFiniteSet(Procs) /\ Capable \subseteq Procs
  /\ Devs # {} /\ None \notin Devs
  /\ MaxPos \in Nat \ {0}
  /\ Counts \subseteq Nat \ {0}
  /\ Params \subseteq (Nat \ {0}) \X (Nat \ {0}) /\ Default \in Params

VARIABLES params,       \* <<scull_quantum, scull_qset>> for the next trim
          dev,          \* the struct scull_dev of each device
          written,      \* history: the positions written since the last trim
          pc, file, ref,
          loc,          \* the locals quantum, qset and count of a call
          mixed,        \* history: devices whose list a call used with other parameters
          hits          \* history: accesses outside the device's memory

deviceVars == <<params, dev, written, pc, file, ref, loc, mixed, hits>>

NoFile == [dev |-> None, mode |-> None, pos |-> 0]
NoLocals == [quantum |-> 0, qset |-> 0, count |-> 0]
Empty(par) == [data |-> <<>>, quantum |-> par[1], qset |-> par[2], size |-> 0, sem |-> 1]

DeviceInit ==
  /\ params \in Params
  /\ dev = [d \in Devs |-> Empty(params)]
  /\ written = [d \in Devs |-> {}]
  /\ pc = [p \in Procs |-> "idle"]
  /\ file = [p \in Procs |-> NoFile]
  /\ ref = [p \in Procs |-> None]
  /\ loc = [p \in Procs |-> NoLocals]
  /\ mixed = {}
  /\ hits = {}

At(p, l) == pc[p] = l
Go(p, l) == pc' = [pc EXCEPT ![p] = l]
Dev(p) == file[p].dev

-----------------------------------------------------------------------------
(* scull_trim. The list is freed through a pointer read from dev->data.    *)

TrimStart(p) ==
  /\ At(p, "t_start")
  /\ ref' = [ref EXCEPT ![p] = "live"]
  /\ Go(p, "t_free")
  /\ UNCHANGED <<params, dev, written, file, loc, mixed, hits>>

Freed(d) == [q \in Procs |-> IF ref[q] = "live" /\ Dev(q) = d THEN "freed" ELSE ref[q]]

FreeList(d) ==
  dev' = [dev EXCEPT ![d] = [Empty(params) EXCEPT !.sem = dev[d].sem]]

TrimFree(p, next) ==
  /\ At(p, "t_free")
  /\ hits' = IF ref[p] = "freed" THEN hits \cup {"trim"} ELSE hits
  /\ FreeList(Dev(p))
  /\ written' = [written EXCEPT ![Dev(p)] = {}]
  /\ ref' = [Freed(Dev(p)) EXCEPT ![p] = None]
  /\ mixed' = mixed \ {Dev(p)}
  /\ Go(p, next)
  /\ UNCHANGED <<params, file, loc>>

-----------------------------------------------------------------------------
(* scull_open and scull_release                                            *)

\* What every open does once it has its device: trim if write-only.
Enter(p, d, mode, trim) ==
  /\ file' = [file EXCEPT ![p] = [dev |-> d, mode |-> mode, pos |-> 0]]
  /\ Go(p, IF mode = "wronly" THEN trim ELSE "open")

Open(p, d) ==
  /\ At(p, "idle")
  /\ \E mode \in {"wronly", "rdwr"} : Enter(p, d, mode, "o_down")
  /\ UNCHANGED <<params, dev, written, ref, loc, mixed, hits>>

Down(p, from, to) ==
  /\ At(p, from)
  /\ dev[Dev(p)].sem > 0
  /\ dev' = [dev EXCEPT ![Dev(p)].sem = @ - 1]
  /\ Go(p, to)

Up(p, from, to) ==
  /\ At(p, from)
  /\ dev' = [dev EXCEPT ![Dev(p)].sem = @ + 1]
  /\ Go(p, to)

\* Mutant: the open trims without the semaphore.
OpenDownSkip(p) ==
  /\ At(p, "o_down")
  /\ Go(p, "t_start")
  /\ UNCHANGED <<params, dev, written, file, ref, loc, mixed, hits>>

OpenDown(p) ==
  /\ Down(p, "o_down", "t_start")
  /\ UNCHANGED <<params, written, file, ref, loc, mixed, hits>>

\* down_interruptible ended by a signal: -ERESTARTSYS
OpenSignal(p) ==
  /\ At(p, "o_down")
  /\ file' = [file EXCEPT ![p] = NoFile]
  /\ Go(p, "idle")
  /\ UNCHANGED <<params, dev, written, ref, loc, mixed, hits>>

OpenUp(p) ==
  /\ Up(p, "o_up", "open")
  /\ UNCHANGED <<params, written, file, ref, loc, mixed, hits>>

Release(p) ==
  /\ At(p, "open")
  /\ file' = [file EXCEPT ![p] = NoFile]
  /\ Go(p, "idle")
  /\ UNCHANGED <<params, dev, written, ref, loc, mixed, hits>>

-----------------------------------------------------------------------------
(* The way to a byte: list item, index in the quantum set, offset          *)

Place(pos, l) ==
  LET rest == pos % (l.quantum * l.qset)
  IN  [item |-> pos \div (l.quantum * l.qset),
       s_pos |-> rest \div l.quantum, q_pos |-> rest % l.quantum]

\* scull_follow: the list with the items up to n allocated, or, when kmalloc
\* fails, up to some earlier one.
Follow(data, n) ==
  { data \o [i \in 1 .. k |-> <<>>] :
      k \in 0 .. IF n + 1 > Len(data) THEN n + 1 - Len(data) ELSE 0 }

Reached(data, at) == Len(data) > at.item
Least(a, b) == IF a < b THEN a ELSE b

\* read and write copy the parameters before they take the semaphore
Start(p, from) ==
  /\ At(p, "open")
  /\ from = "w_down" => file[p].pos < MaxPos       \* bound
  /\ \E n \in Counts :
       loc' = [loc EXCEPT ![p] = [quantum |-> dev[Dev(p)].quantum,
                                  qset |-> dev[Dev(p)].qset, count |-> n]]
  /\ Go(p, from)
  /\ UNCHANGED <<params, dev, written, file, ref, mixed, hits>>

Stale(p) ==
  LET D == dev[Dev(p)]
  IN  mixed' = IF <<D.quantum, D.qset>> # <<loc[p].quantum, loc[p].qset>>
               THEN mixed \cup {Dev(p)} ELSE mixed

Outside(d) == IF d \in mixed' THEN "mixed" ELSE "bounds"

\* A call leaves: up(), and its locals are gone.
Finish(p) ==
  /\ Up(p, "up", "open")
  /\ loc' = [loc EXCEPT ![p] = NoLocals]
  /\ UNCHANGED <<params, written, file, ref, mixed, hits>>

Enters(p) ==
  /\ \/ Down(p, "r_down", "r_follow")
     \/ Down(p, "w_down", "w_follow")
  /\ UNCHANGED <<params, written, file, ref, loc, mixed, hits>>

Interrupted(p) ==
  /\ pc[p] \in {"r_down", "w_down"}
  /\ Go(p, "open")
  /\ loc' = [loc EXCEPT ![p] = NoLocals]
  /\ UNCHANGED <<params, dev, written, file, ref, mixed, hits>>

-----------------------------------------------------------------------------
(* scull_read                                                              *)

ReadFollow(p) ==
  LET d == Dev(p)
      at == Place(file[p].pos, loc[p])
      end == Least(loc[p].count, dev[d].size - file[p].pos)
  IN  /\ At(p, "r_follow")
      /\ Stale(p)
      /\ \/ /\ file[p].pos >= dev[d].size
            /\ Go(p, "up") /\ UNCHANGED <<dev, ref, loc, hits>>
         \/ /\ file[p].pos < dev[d].size
            /\ \E data \in Follow(dev[d].data, at.item) :
                 LET set == IF Reached(data, at) THEN data[at.item + 1] ELSE <<>>
                     inside == at.s_pos < Len(set)
                 IN /\ dev' = [dev EXCEPT ![d].data = data]
                    /\ hits' = IF set # <<>> /\ ~inside THEN hits \cup {Outside(d)} ELSE hits
                    /\ IF inside /\ set[at.s_pos + 1] # <<>>
                       THEN /\ Go(p, "r_copy")
                            /\ ref' = [ref EXCEPT ![p] = "live"]
                            /\ loc' = [loc EXCEPT ![p].count =
                                         Least(end, loc[p].quantum - at.q_pos)]
                       ELSE /\ Go(p, "up")         \* don't fill holes
                            /\ UNCHANGED <<ref, loc>>
      /\ UNCHANGED <<params, written, file>>

\* The bytes of the quantum at which a call has arrived
Quantum(p) ==
  LET at == Place(file[p].pos, loc[p])
      data == dev[Dev(p)].data
  IN  IF Reached(data, at) /\ at.s_pos < Len(data[at.item + 1])
      THEN data[at.item + 1][at.s_pos + 1] ELSE <<>>

Within(p) == Place(file[p].pos, loc[p]).q_pos + loc[p].count <= Len(Quantum(p))

\* What a copy through ref[p] does wrong
Miss(p) == IF ref[p] = "freed" THEN {"copy"} ELSE IF Within(p) THEN {} ELSE {Outside(Dev(p))}

ReadCopy(p) ==
  /\ At(p, "r_copy")
  /\ UNCHANGED mixed
  /\ hits' = hits \cup Miss(p)
  /\ \E fault \in BOOLEAN :
       file' = [file EXCEPT ![p].pos = IF fault THEN @ ELSE @ + loc[p].count]
  /\ ref' = [ref EXCEPT ![p] = None]
  /\ Go(p, "up")
  /\ UNCHANGED <<params, dev, written, loc>>

-----------------------------------------------------------------------------
(* scull_write: the byte written at a position is the position             *)

\* Mutant: the array is allocated even if there is one.
GrownFresh(set, at, l) ==
  [i \in 1 .. l.qset |-> IF i = at.s_pos + 1 THEN [j \in 1 .. l.quantum |-> Junk] ELSE <<>>]

\* The quantum set with the array allocated, and with the quantum as well
WithArray(set, l) == IF set = <<>> THEN [i \in 1 .. l.qset |-> <<>>] ELSE set

Grown(set, at, l) ==
  LET array == WithArray(set, l)
  IN  IF at.s_pos < Len(array) /\ array[at.s_pos + 1] = <<>>
      THEN [array EXCEPT ![at.s_pos + 1] = [i \in 1 .. l.quantum |-> Junk]] ELSE array

\* The lists that a kmalloc leaves which fails: that of an item, of the array
\* or of the quantum
Failed(data, at, l) ==
  LET set == data[at.item + 1]
      lacks(s) == s = <<>> \/ (at.s_pos < Len(s) /\ s[at.s_pos + 1] = <<>>)
  IN  IF Reached(data, at)
      THEN {[data EXCEPT ![at.item + 1] = s] : s \in {s \in {set, WithArray(set, l)} : lacks(s)}}
      ELSE {data}

Clamp(p, at) == Least(Least(loc[p].count, MaxPos - file[p].pos), loc[p].quantum - at.q_pos)

WriteFollow(p) ==
  LET d == Dev(p)
      at == Place(file[p].pos, loc[p])
  IN  /\ At(p, "w_follow")
      /\ Stale(p)
      /\ \E data \in Follow(dev[d].data, at.item) :
           \/ /\ \E left \in Failed(data, at, loc[p]) : dev' = [dev EXCEPT ![d].data = left]
              /\ Go(p, "up") /\ UNCHANGED <<ref, loc, hits>>       \* -ENOMEM
           \/ /\ Reached(data, at)
              /\ LET set == Grown(data[at.item + 1], at, loc[p])
                 IN  /\ dev' = [dev EXCEPT ![d].data = [data EXCEPT ![at.item + 1] = set]]
                     /\ IF at.s_pos < Len(set)
                        THEN /\ ref' = [ref EXCEPT ![p] = "live"]
                             /\ loc' = [loc EXCEPT ![p].count = Clamp(p, at)]
                             /\ Go(p, "w_copy") /\ UNCHANGED hits
                        ELSE /\ hits' = hits \cup {Outside(d)}
                             /\ Go(p, "up") /\ UNCHANGED <<ref, loc>>
      /\ UNCHANGED <<params, written, file>>

WriteFault(p) ==
  /\ At(p, "w_copy")
  /\ UNCHANGED mixed
  /\ ref' = [ref EXCEPT ![p] = None]
  /\ hits' = hits \cup Miss(p)
  /\ Go(p, "up")
  /\ UNCHANGED <<params, dev, written, file, loc>>

WriteCopy(p) ==
  LET d == Dev(p)
      pos == file[p].pos
      n == loc[p].count
      at == Place(pos, loc[p])
      lands == ref[p] = "live" /\ Within(p)
      size == IF dev[d].size < pos + n THEN pos + n ELSE dev[d].size
      new == [i \in 1 .. Len(Quantum(p)) |->
                IF i - 1 \in at.q_pos .. at.q_pos + n - 1 THEN pos + i - 1 - at.q_pos ELSE Quantum(p)[i]]
  IN  /\ At(p, "w_copy")
      /\ UNCHANGED mixed
      /\ hits' = hits \cup Miss(p)
      /\ file' = [file EXCEPT ![p].pos = pos + n]
      /\ dev' = IF lands THEN [dev EXCEPT ![d].size = size,
                                          ![d].data[at.item + 1][at.s_pos + 1] = new]
                ELSE [dev EXCEPT ![d].size = size]
      /\ written' = IF lands THEN [written EXCEPT ![d] = @ \cup (pos .. pos + n - 1)]
                    ELSE written
      /\ ref' = [ref EXCEPT ![p] = None]
      /\ Go(p, "up")
      /\ UNCHANGED <<params, loc>>

-----------------------------------------------------------------------------
(* scull_llseek, scull_ioctl and the two /proc files                       *)

Llseek(p) ==
  /\ At(p, "open")
  /\ \E new \in 0 .. MaxPos :     \* SEEK_SET, SEEK_CUR, SEEK_END with any offset
       file' = [file EXCEPT ![p].pos = new]
  /\ UNCHANGED <<params, dev, written, pc, ref, loc, mixed, hits>>

\* IOCRESET, which anybody may ask for, and the Set, Tell, eXchange and sHift
\* commands for both values
Ioctl(p) ==
  /\ At(p, "open")
  /\ params' \in IF p \in Capable THEN Params ELSE {Default}
  /\ UNCHANGED <<dev, written, pc, file, ref, loc, mixed, hits>>

\* scull_read_procmem takes dev->data, then the semaphore, then walks the list.
ProcPeek(p, d) ==
  /\ At(p, "idle")
  /\ file' = [file EXCEPT ![p] = [dev |-> d, mode |-> "proc", pos |-> 0]]
  /\ ref' = [ref EXCEPT ![p] = IF dev[d].data # <<>> THEN "live" ELSE None]
  /\ Go(p, "p_down")
  /\ UNCHANGED <<params, dev, written, loc, mixed, hits>>

\* scull_seq_show takes the semaphore first.
SeqStart(p, d) ==
  /\ At(p, "idle")
  /\ file' = [file EXCEPT ![p] = [dev |-> d, mode |-> "seq", pos |-> 0]]
  /\ Go(p, "p_down")
  /\ UNCHANGED <<params, dev, written, ref, loc, mixed, hits>>

ProcDown(p) ==
  /\ Down(p, "p_down", "p_walk")
  /\ ref' = IF file[p].mode = "seq" /\ dev[Dev(p)].data # <<>>
            THEN [ref EXCEPT ![p] = "live"] ELSE ref
  /\ UNCHANGED <<params, written, file, loc, mixed, hits>>

ProcWalk(p) ==
  /\ Up(p, "p_walk", "idle")
  /\ hits' = IF ref[p] = "freed" THEN hits \cup {file[p].mode} ELSE hits
  /\ ref' = [ref EXCEPT ![p] = None]
  /\ file' = [file EXCEPT ![p] = NoFile]
  /\ UNCHANGED <<params, written, loc, mixed>>

-----------------------------------------------------------------------------
(* What reads, writes and the other calls on an open file do               *)

Call(p) == Start(p, "r_down") \/ Start(p, "w_down") \/ Llseek(p)

FileStep(p) ==
  \/ Enters(p) \/ Interrupted(p) \/ Finish(p)
  \/ ReadFollow(p) \/ ReadCopy(p)
  \/ WriteFollow(p) \/ WriteFault(p) \/ WriteCopy(p)
  \/ Ioctl(p) \/ TrimStart(p)

ProcStep(p) ==
  \/ \E d \in Devs : ProcPeek(p, d) \/ SeqStart(p, d)
  \/ ProcDown(p) \/ ProcWalk(p)

PlainStep(p) ==
  \/ \E d \in Devs : Open(p, d)
  \/ OpenDown(p) \/ OpenSignal(p)
  \/ TrimFree(p, "o_up") \/ OpenUp(p) \/ Release(p)

\* scull_cleanup_module trims the devices; a module with open files stays.
Unload ==
  /\ \A p \in Procs : At(p, "idle")
  /\ dev' = [d \in Devs |-> Empty(params)]
  /\ written' = [d \in Devs |-> {}]
  /\ mixed' = {}
  /\ UNCHANGED <<params, pc, file, ref, loc, hits>>
=============================================================================

------------------------------- MODULE Sbull -------------------------------
(***************************************************************************)
(* The RAM disk of examples/sbull/sbull.c: its three ways to serve writes  *)
(* (reads copy the same sectors the other way), and the media change that  *)
(* a timer simulates 30 s after the last user has gone. A region under     *)
(* dev->lock, which is also the lock of the request queue, is one action.  *)
(***************************************************************************)
EXTENDS Integers, FiniteSets, Sequences, Folds

CONSTANTS Procs,        \* processes that open the disk and write to it
          Size,         \* dev->size in sectors
          Writes        \* what they write: [sector, segs], the lengths of the segments

VARIABLES sbull,        \* struct sbull_dev and request_mode; whether it was ever used
          sbullData,    \* dev->data, by sectors: who wrote it, or that it is blank
          sbullProc,    \* [Procs -> where it is, and the write it has in flight]
          sbullSeen     \* history: what each sector should hold ("any" after writes that
                        \* crossed), and whether an uneven bio wrote it

vars == <<sbull, sbullData, sbullProc, sbullSeen>>

Sectors == 0 .. Size - 1
Holds(who) == [by |-> who, uneven |-> FALSE]
NoWrite == [sector |-> 0, segs |-> <<>>]
Outside == [pc |-> "out", bio |-> NoWrite, done |-> 0, i |-> 1, mixed |-> FALSE]

\* setup_device: vmalloc'ed memory is not zeroed.
Init ==
  /\ sbull = [mode |-> "none", users |-> 0, media_change |-> FALSE, timer |-> FALSE, used |-> FALSE]
  /\ sbullData = [s \in Sectors |-> "junk"]
  /\ sbullProc = [p \in Procs |-> Outside]
  /\ sbullSeen = [s \in Sectors |-> Holds("any")]

Setup ==
  /\ sbull.mode = "none"
  /\ \E mode \in {"RM_SIMPLE", "RM_FULL", "RM_NOQUEUE"} : sbull' = [sbull EXCEPT !.mode = mode]
  /\ UNCHANGED <<sbullData, sbullProc, sbullSeen>>

-----------------------------------------------------------------------------
(* Users and the media                                                     *)

\* sbull_open: del_timer_sync, and only then the lock
OpenTimer(p) ==
  /\ sbullProc[p].pc = "out" /\ sbull.mode \notin {"none", "gone"}
  /\ sbull' = [sbull EXCEPT !.timer = FALSE]
  /\ sbullProc' = [sbullProc EXCEPT ![p].pc = "lock"]
  /\ UNCHANGED <<sbullData, sbullSeen>>

\* The first user looks for a change of media (check_disk_change), which wipes
\* the disk: sbull_media_changed, sbull_revalidate.
OpenLocked(p) ==
  /\ sbullProc[p].pc = "lock"
  /\ LET wipe == sbull.users = 0 /\ sbull.media_change
     IN  /\ sbull' = [sbull EXCEPT !.users = @ + 1, !.used = TRUE, !.media_change = @ /\ ~wipe]
         /\ sbullData' = IF wipe THEN [s \in Sectors |-> "blank"] ELSE sbullData
         /\ sbullSeen' = IF wipe THEN [s \in Sectors |-> Holds("blank")] ELSE sbullSeen
  /\ sbullProc' = [sbullProc EXCEPT ![p].pc = "in"]

\* Mutant: the timer is started while there are users.
ReleaseEarly(p) ==
  /\ sbullProc[p].pc = "in"
  /\ sbull' = [sbull EXCEPT !.users = @ - 1, !.timer = @ \/ sbull.users > 1]
  /\ sbullProc' = [sbullProc EXCEPT ![p] = Outside]
  /\ UNCHANGED <<sbullData, sbullSeen>>

Release(p) ==
  /\ sbullProc[p].pc = "in"
  /\ sbull' = [sbull EXCEPT !.users = @ - 1, !.timer = @ \/ sbull.users = 1]
  /\ sbullProc' = [sbullProc EXCEPT ![p] = Outside]
  /\ UNCHANGED <<sbullData, sbullSeen>>

\* Mutant: no "sanity check" in the timer.
InvalidateAlways ==
  /\ sbull.timer
  /\ sbull' = [sbull EXCEPT !.timer = FALSE, !.media_change = TRUE]
  /\ UNCHANGED <<sbullData, sbullProc, sbullSeen>>

\* sbull_invalidate
Invalidate ==
  /\ sbull.timer
  /\ sbull' = [sbull EXCEPT !.timer = FALSE, !.media_change = @ \/ sbull.users = 0]
  /\ UNCHANGED <<sbullData, sbullProc, sbullSeen>>

\* sbull_exit
Exit ==
  /\ sbull.mode \notin {"none", "gone"} /\ \A p \in Procs : sbullProc[p].pc = "out"
  /\ sbull' = [sbull EXCEPT !.mode = "gone", !.timer = FALSE]
  /\ UNCHANGED <<sbullData, sbullProc, sbullSeen>>

-----------------------------------------------------------------------------
(* Transfers                                                               *)

\* sbull_transfer of n sectors from a buffer that holds len
Transfer(data, sector, n, len, who) ==
  IF sector + n > Size THEN data
  ELSE [s \in Sectors |-> IF s \notin sector .. sector + n - 1 THEN data[s]
                          ELSE IF s - sector < len THEN who ELSE "junk"]

Total(segs) ==
  LET last(S) == CHOOSE i \in S : \A j \in S : i >= j
  IN  MapThenFoldSet(LAMBDA len, n : n + len, 0, LAMBDA i : segs[i], last, DOMAIN segs)
Covers(bio) == bio.sector .. bio.sector + Total(bio.segs) - 1
Uniform(bio) == \A i \in DOMAIN bio.segs : bio.segs[i] = bio.segs[1]

\* The sectors a bio may touch: sbull_xfer_bio moves on by the first segment's
\* length, so that an uneven bio may also write past its own end.
Reach(bio) ==
  Covers(bio) \cup (IF sbull.mode = "RM_SIMPLE" THEN {}
                   ELSE bio.sector .. bio.sector + Len(bio.segs) * bio.segs[1] - 1)
InFlight(p) == sbullProc[p].pc = "write"
Crossing(p, bio) == { q \in Procs \ {p} : InFlight(q) /\ Reach(sbullProc[q].bio) \cap Reach(bio) # {} }

\* The block layer hands a write to the driver.
Submit(p) ==
  /\ sbullProc[p].pc = "in"
  /\ \E bio \in Writes :
       LET cross == Crossing(p, bio)
       IN  /\ sbullProc' = [q \in Procs |->
                IF q = p THEN [pc |-> "write", bio |-> bio, done |-> 0, i |-> 1,
                               mixed |-> cross # {}]
                ELSE [sbullProc[q] EXCEPT !.mixed = @ \/ q \in cross]]
           /\ sbullSeen' = [s \in Sectors |-> IF s \in Reach(bio) THEN Holds("any") ELSE sbullSeen[s]]
  /\ UNCHANGED <<sbull, sbullData>>

\* The write of p is over, with success whatever became of it.
Complete(p) ==
  LET w == sbullProc[p]
  IN  /\ sbullProc' = [sbullProc EXCEPT ![p] = [Outside EXCEPT !.pc = "in"]]
      /\ sbullSeen' = [s \in Sectors |->
           IF s \in Covers(w.bio) /\ ~w.mixed
           THEN [by |-> p, uneven |-> sbull.mode # "RM_SIMPLE" /\ ~Uniform(w.bio)]
           ELSE sbullSeen[s]]

\* Mutant: the sector does not move on with the segments.
SegmentStays(p, n) ==
  LET w == sbullProc[p]
  IN  /\ sbullData' = Transfer(sbullData, w.bio.sector, n, w.bio.segs[w.i], p)
      /\ IF w.i = Len(w.bio.segs) THEN Complete(p)
         ELSE /\ sbullProc' = [sbullProc EXCEPT ![p].i = @ + 1, ![p].done = @ + n]
              /\ UNCHANGED sbullSeen

\* Segment w.i, taken to have n sectors
Segment(p, n) ==
  LET w == sbullProc[p]
  IN  /\ sbullData' = Transfer(sbullData, w.bio.sector + w.done, n, w.bio.segs[w.i], p)
      /\ IF w.i = Len(w.bio.segs) THEN Complete(p)
         ELSE /\ sbullProc' = [sbullProc EXCEPT ![p].i = @ + 1, ![p].done = @ + n]
              /\ UNCHANGED sbullSeen

\* sbull_request: a turn of its loop is a segment, end_request finds the next.
Request(p) ==
  /\ InFlight(p) /\ sbull.mode = "RM_SIMPLE"
  /\ Segment(p, sbullProc[p].bio.segs[sbullProc[p].i])
  /\ UNCHANGED sbull

\* sbull_xfer_bio: bio_cur_sectors is the length of the first segment, always.
XferBio(p) == Segment(p, sbullProc[p].bio.segs[1])

\* sbull_full_request holds the lock through a request: nobody else is in one.
FullRequest(p) ==
  /\ InFlight(p) /\ sbull.mode = "RM_FULL"
  /\ \A q \in Procs \ {p} : InFlight(q) => sbullProc[q].i = 1
  /\ XferBio(p)
  /\ UNCHANGED sbull

\* sbull_make_request runs in the writer, without a lock.
MakeRequest(p) ==
  /\ InFlight(p) /\ sbull.mode = "RM_NOQUEUE"
  /\ XferBio(p)
  /\ UNCHANGED sbull

Next ==
  \/ Setup \/ Invalidate \/ Exit
  \/ \E p \in Procs : \/ OpenTimer(p) \/ OpenLocked(p) \/ Release(p) \/ Submit(p)
                      \/ Request(p) \/ FullRequest(p) \/ MakeRequest(p)

Spec == Init /\ [][Next]_vars

-----------------------------------------------------------------------------
(* Properties *)

\* The media never changes under a user (sbull.c:206-275): revalidate, which the
\* kernel may call at any moment and which takes no lock, then wipes nothing.
MediaKept == sbull.users > 0 => ~sbull.media_change

\* What a write put on the disk stays there until another write or a change of
\* media (sbull.c:85-199), in each mode; crossing writes leave either, and a bio
\* whose segments differ in length is not transferred whole, and may spoil the
\* sectors behind it.
Stored == \A s \in Sectors : sbullSeen[s].uneven \/ sbullSeen[s].by \in {"any", sbullData[s]}

\* A disk that its last user has left changes its media (sbull.c:208-229): it has,
\* the timer is set, or a process that deleted the timer is about to use the disk.
ChangeComes ==
  sbull.used /\ sbull.users = 0 /\ sbull.mode # "gone" =>
    sbull.media_change \/ sbull.timer \/ \E p \in Procs : sbullProc[p].pc = "lock"
=============================================================================

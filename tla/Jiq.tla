------------------------------- MODULE Jiq -------------------------------
(***************************************************************************)
(* examples/misc-modules/jiq.c: four /proc files whose read starts a work, *)
(* a tasklet or a timer that prints into the page of the read, and sleeps  *)
(* until it is woken. There is one jiq_data, one work_struct, one tasklet, *)
(* one timer and one wait queue for all reads. A print is one step, and so *)
(* is the setting of jiq_data. The page of a read is freed when it ends.   *)
(* When the work runs again, at once or after a delay, makes no difference *)
(* here: jiqwq and jiqwqdelay are one file.                                *)
(***************************************************************************)
EXTENDS Integers, FiniteSets

CONSTANTS Readers,
          Lines         \* lines that fit in a page, LIMIT / the length of one in the source

VARIABLES jiq,          \* [len: lines printed; buf: whose page; loaded; what is pending]
          jiqReader,    \* [Readers -> the file it reads and where it is]
          jiqSeen       \* history: what has come between, and what came of it

vars == <<jiq, jiqReader, jiqSeen>>

Files == {"wq", "tasklet", "timer"}

NoFile == [pc |-> "out", file |-> "none"]

Init ==
  /\ jiq = [len |-> 0, buf |-> "none", loaded |-> TRUE,
            work |-> FALSE, tasklet |-> FALSE, timer |-> FALSE]
  /\ jiqReader = [r \in Readers |-> NoFile]
  /\ jiqSeen = {}

At(r, l) == jiqReader[r].pc = l
To(r, l) == jiqReader' = [jiqReader EXCEPT ![r].pc = l]
Ends(r) == jiqReader' = [jiqReader EXCEPT ![r] = NoFile]
Saw(things) == jiqSeen' = jiqSeen \cup things
If(thing, holds) == IF holds THEN {thing} ELSE {}

\* wake_up_interruptible(&jiq_wait), over readers as they are.
Woken(readers) ==
  [r \in Readers |-> IF readers[r].pc = "asleep" THEN [readers[r] EXCEPT !.pc = "awake"]
                     ELSE readers[r]]

\* A line goes where the last read that set jiq_data has said: is that page still its own?
PrintDamage == If("freed page", jiqReader[jiq.buf].pc = "out")

-----------------------------------------------------------------------------
(* The reads                                                               *)

\* Another read in progress shares all that this one sets.
ReadSet(r, file) ==
  /\ jiq.loaded /\ At(r, "out")
  /\ jiq' = [jiq EXCEPT !.len = 0, !.buf = r]
  /\ jiqReader' = [jiqReader EXCEPT ![r] = [pc |-> "set", file |-> file]]
  /\ Saw(If("shared", \E q \in Readers \ {r} : ~At(q, "out")))

\* prepare_to_wait, then schedule_work or schedule_delayed_work, then schedule.
ReadWqPrepare(r) ==
  /\ At(r, "set") /\ jiqReader[r].file = "wq"
  /\ To(r, "asleep")
  /\ jiq' = [jiq EXCEPT !.work = TRUE]
  /\ UNCHANGED jiqSeen

ReadTaskletSchedule(r) ==
  /\ At(r, "set") /\ jiqReader[r].file = "tasklet"
  /\ To(r, "started")
  /\ jiq' = [jiq EXCEPT !.tasklet = TRUE]
  /\ UNCHANGED jiqSeen

\* init_timer forgets a timer that is pending; the reader calls jiq_print itself,
\* which with a page that another read has filled wakes instead.
ReadTimerAdd(r) ==
  LET started == [jiqReader EXCEPT ![r].pc = "started"]
      full == jiq.len >= Lines
  IN  /\ At(r, "set") /\ jiqReader[r].file = "timer"
      /\ jiqReader' = IF full THEN Woken(started) ELSE started
      /\ jiq' = [jiq EXCEPT !.timer = TRUE, !.len = IF full THEN @ ELSE @ + 1]
      /\ Saw(IF full THEN {} ELSE PrintDamage)

\* interruptible_sleep_on: a wake-up that came before this is not seen.
SleepOn(r) ==
  /\ At(r, "started")
  /\ To(r, "asleep")
  /\ Saw(If("late", CASE jiqReader[r].file = "tasklet" -> ~jiq.tasklet
                      [] OTHER -> ~jiq.timer))
  /\ UNCHANGED jiq

\* Only a read of the timer takes back what it has started.
Return(r) ==
  /\ Ends(r)
  /\ jiq' = [jiq EXCEPT !.timer = IF jiqReader[r].file = "timer" THEN FALSE ELSE @]

ReadWoken(r) ==
  /\ At(r, "awake")
  /\ Return(r)
  /\ UNCHANGED jiqSeen

ReadSignalled(r) ==
  /\ At(r, "asleep")
  /\ Return(r)
  /\ Saw({"signal"})

-----------------------------------------------------------------------------
(* What has been started                                                   *)

Printed == [jiq EXCEPT !.len = @ + 1]

PrintLine ==
  /\ jiq.len < Lines
  /\ jiq' = Printed
  /\ Saw(PrintDamage)
  /\ UNCHANGED jiqReader

\* Mutant: at the limit the work is scheduled again.
PrintLimitAgain(item) ==
  /\ jiq.len >= Lines
  /\ jiqReader' = Woken(jiqReader)
  /\ UNCHANGED <<jiq, jiqSeen>>

\* Mutant: at the limit nobody is woken.
PrintLimitQuiet(item) ==
  /\ jiq.len >= Lines
  /\ jiq' = [jiq EXCEPT ![item] = FALSE]
  /\ UNCHANGED <<jiqReader, jiqSeen>>

\* At the limit jiq_print wakes the readers, and asks for no further run.
PrintLimit(item) ==
  /\ jiq.len >= Lines
  /\ jiq' = [jiq EXCEPT ![item] = FALSE]
  /\ jiqReader' = Woken(jiqReader)
  /\ UNCHANGED jiqSeen

PrintWq == jiq.work /\ (PrintLine \/ PrintLimit("work"))

PrintTasklet == jiq.tasklet /\ (PrintLine \/ PrintLimit("tasklet"))

\* The timer prints a line, if there is room, and wakes in any case.
TimedOut ==
  /\ jiq.timer
  /\ jiq' = [jiq EXCEPT !.timer = FALSE, !.len = IF @ < Lines THEN @ + 1 ELSE @]
  /\ jiqReader' = Woken(jiqReader)
  /\ Saw(IF jiq.len < Lines THEN PrintDamage ELSE {})

-----------------------------------------------------------------------------
\* The /proc entries have no owner: the module goes while reads are in progress.
Cleanup ==
  /\ jiq.loaded
  /\ jiq' = [jiq EXCEPT !.loaded = FALSE]
  /\ Saw(If("held", \E r \in Readers : ~At(r, "out"))
         \cup If("left running", jiq.work \/ jiq.tasklet \/ jiq.timer))
  /\ UNCHANGED jiqReader

Damage == {"freed page", "left running"}

Next ==
  /\ jiqSeen \cap Damage = {}
  /\ \/ \E r \in Readers :
          \/ \E file \in Files : ReadSet(r, file)
          \/ ReadWqPrepare(r) \/ ReadTaskletSchedule(r) \/ ReadTimerAdd(r)
          \/ SleepOn(r) \/ ReadWoken(r) \/ ReadSignalled(r)
     \/ PrintWq \/ PrintTasklet \/ TimedOut \/ Cleanup

Spec == Init /\ [][Next]_vars

-----------------------------------------------------------------------------
\* A line is printed into a page that its read has given back, or the module goes
\* with work, tasklet or timer still to run, only where a signal has ended a read
\* before its printing was done, where two reads were in progress together, or
\* where a read was in progress when the module went.
PrintsInPage ==
  jiqSeen \cap Damage # {} => jiqSeen \cap {"signal", "shared", "held"} # {}

\* A read that sleeps has something pending that will wake it, except where two
\* shared jiq_data and the rest, or where the tasklet or the timer was done before
\* the read slept ("RACE", line 227).
SleeperServed ==
  (\E r \in Readers : At(r, "asleep"))
    => \/ jiq.work \/ jiq.tasklet \/ jiq.timer
       \/ jiqSeen \cap {"late", "shared"} # {}
==========================================================================

------------------------------ MODULE Usocat ------------------------------
(***************************************************************************)
(* lab3/serp/usocat.c: the host's end of the emulated serial line. Bytes   *)
(* go from the standard input to a Unix domain socket, one by one, or from *)
(* the socket to the standard output. When the input is a terminal it is   *)
(* put out of canonical mode first. SIGINT may come between any two steps; *)
(* its handler, which ends the program, is one step.                       *)
(***************************************************************************)
EXTENDS Integers, Sequences

CONSTANTS BUF_LEN,      \* bytes of one recv
          Inputs        \* bound: how many bytes the source may have

VARIABLES usocat,       \* the program: where it is, its globals and locals
          usocatLine,   \* [input: bytes left; output: those written; term: the terminal's mode]
          usocatSeen    \* history: what has gone wrong

vars == <<usocat, usocatLine, usocatSeen>>

Init ==
  /\ usocat = [pc |-> "args", dir |-> "none", raw |-> FALSE, oldparams |-> "NULL",
               buf |-> <<>>]
  /\ usocatLine = [total |-> 0, input |-> <<>>, output |-> <<>>, term |-> "canonical"]
  /\ usocatSeen = {}

At(l) == usocat.pc = l
To(l) == usocat' = [usocat EXCEPT !.pc = l]

\* An error message and exit(1), wherever the terminal is left; a write to a
\* socket the peer has closed ends the program by SIGPIPE.
Fail ==
  /\ To("failed")
  /\ usocatSeen' = usocatSeen \cup {"error"}
  /\ UNCHANGED usocatLine

-----------------------------------------------------------------------------
(* The arguments                                                           *)

Names == {"-", "-x", "socket", "file"}

IsSocket(path) == path = "socket"

\* The direction that the arguments ask for. option: "none", "-b" or another.
Direction(option, src, dest) ==
  CASE option # "none" /\ (option # "-b" \/ src # "-") -> "usage"
    [] src = "-" /\ IsSocket(dest) -> "send"
    [] src \notin {"-", "-x"} /\ dest = "-" /\ IsSocket(src) -> "receive"
    [] OTHER -> "usage"

\* isatty is asked only for two arguments.
ProcessArgs ==
  \E option \in {"none", "-b", "-c"}, src \in Names, dest \in Names, tty \in BOOLEAN, n \in Inputs :
    LET dir == Direction(option, src, dest)
    IN  /\ At("args")
        /\ usocat' = [usocat EXCEPT !.dir = dir, !.raw = dir = "send" /\ option = "none" /\ tty,
                                    !.pc = IF dir = "usage" THEN "failed" ELSE "signal"]
        /\ usocatLine' = [usocatLine EXCEPT !.total = IF dir = "usage" THEN 0 ELSE n,
                            !.input = IF dir = "usage" THEN <<>> ELSE [i \in 1 .. n |-> i]]
        /\ UNCHANGED usocatSeen

Main ==
  /\ At("signal")
  /\ To(IF usocat.raw THEN "malloc" ELSE "socket") \/ To("failed")
  /\ UNCHANGED <<usocatLine, usocatSeen>>

-----------------------------------------------------------------------------
(* dis_stdin_buf                                                           *)

Malloc ==
  /\ At("malloc")
  /\ \/ usocat' = [usocat EXCEPT !.oldparams = "garbage", !.pc = "tcgetattr"]
     \/ To("failed")
  /\ UNCHANGED <<usocatLine, usocatSeen>>

TcGetAttr ==
  /\ At("tcgetattr")
  /\ \/ usocat' = [usocat EXCEPT !.oldparams = usocatLine.term, !.pc = "tcsetattr"]
     \/ To("failed")
  /\ UNCHANGED <<usocatLine, usocatSeen>>

TcSetAttr ==
  /\ At("tcsetattr")
  /\ \/ /\ usocatLine' = [usocatLine EXCEPT !.term = "raw"]
        /\ To("socket")
     \/ To("failed") /\ UNCHANGED usocatLine
  /\ UNCHANGED usocatSeen

\* What oldparams holds is given back to the terminal.
Restored == IF usocat.oldparams = "NULL" THEN usocatLine.term ELSE usocat.oldparams

-----------------------------------------------------------------------------
(* send_data and receive_data                                              *)

Connect ==
  /\ At("socket")
  /\ \/ To("loop") /\ UNCHANGED <<usocatLine, usocatSeen>>
     \/ Fail

Taken(n) ==
  /\ usocat' = [usocat EXCEPT !.buf = SubSeq(usocatLine.input, 1, n),
                              !.pc = IF n = 0 THEN "close" ELSE "print"]
  /\ usocatLine' = [usocatLine EXCEPT !.input = SubSeq(@, n + 1, Len(@))]

\* One byte, or the end; an error of read ends the loop like the end.
SendRead ==
  /\ At("loop") /\ usocat.dir = "send"
  /\ \/ Taken(IF usocatLine.input = <<>> THEN 0 ELSE 1) /\ UNCHANGED usocatSeen
     \/ /\ To("close")
        /\ usocatSeen' = usocatSeen \cup {"read error"}
        /\ UNCHANGED usocatLine

ReceiveRecv ==
  /\ At("loop") /\ usocat.dir = "receive"
  /\ \/ \E n \in 0 .. BUF_LEN :
          /\ n =< Len(usocatLine.input) /\ (n = 0 => usocatLine.input = <<>>)
          /\ Taken(n)
          /\ UNCHANGED usocatSeen
     \/ Fail

\* Mutant: the next write begins at the start of the buffer again.
RestAgain(buf, w) == SubSeq(buf, 1, Len(buf) - w)
Rest(buf, w) == SubSeq(buf, w + 1, Len(buf))

\* write takes any number of the bytes.
Output ==
  /\ At("print")
  /\ \/ \E w \in 1 .. Len(usocat.buf) :
          /\ usocatLine' = [usocatLine EXCEPT !.output = @ \o SubSeq(usocat.buf, 1, w)]
          /\ usocat' = [usocat EXCEPT !.buf = Rest(usocat.buf, w),
                                      !.pc = IF w = Len(usocat.buf) THEN "loop" ELSE "print"]
          /\ UNCHANGED usocatSeen
     \/ Fail

\* What can be read from s: the line, or, before socket() when s is 0, the input.
OnS ==
  IF (usocat.dir = "receive") = (usocat.pc \in {"loop", "print", "close"})
  THEN usocatLine.input ELSE <<>>

\* After the shutdown for writing, what comes within 5 ms is read, and dropped.
CloseSock(term) ==
  \E n \in 0 .. BUF_LEN :
    /\ n =< Len(OnS)
    /\ usocatLine' = [usocatLine EXCEPT !.term = term, !.input = SubSeq(@, n + 1, Len(@))]

\* The end of send_data or receive_data, and of main.
Finish ==
  /\ At("close")
  /\ CloseSock(Restored)
  /\ To("ended")
  /\ usocatSeen' = usocatSeen \cup {"finished"}

\* Mutant: the handler leaves the terminal as it is.
HandlerTermKept == usocatLine.term
HandlerTerm == Restored

SigkillHandler ==
  /\ usocat.pc \notin {"args", "signal", "failed", "ended"}
  /\ CloseSock(HandlerTerm)
  /\ To("ended")
  /\ usocatSeen' =
       usocatSeen \cup {IF usocat.oldparams = "garbage" THEN "early" ELSE "interrupted"}

-----------------------------------------------------------------------------
Next ==
  \/ ProcessArgs \/ Main \/ Malloc \/ TcGetAttr \/ TcSetAttr \/ Connect
  \/ SendRead \/ ReceiveRecv \/ Output \/ Finish \/ SigkillHandler

Spec == Init /\ [][Next]_vars
-----------------------------------------------------------------------------
\* The bytes come out in order, none twice; and when the loop has ended without
\* an error of read, all of them have, however write has cut them up.
Delivered ==
  /\ usocatLine.output = [i \in 1 .. Len(usocatLine.output) |-> i]
  /\ usocatSeen = {"finished"} => Len(usocatLine.output) = usocatLine.total

\* When the program is over the terminal is in canonical mode again, except after
\* an error that ends in exit(1) (296, 305, 334, 350, 359), and after a SIGINT
\* between malloc and tcgetattr, when the handler sets what malloc returned.
TerminalRestored ==
  usocat.pc \in {"ended", "failed"} /\ usocatLine.term # "canonical"
    => "error" \in usocatSeen \/ "early" \in usocatSeen
==========================================================================

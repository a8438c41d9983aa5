----------------------------- MODULE TinySerial -----------------------------
(***************************************************************************)
(* The port of examples/tty/tiny_serial.c under the serial core: a writer  *)
(* puts characters in the circular buffer, the timer takes one in each run *)
(* (fifosize is 0, so the count of tiny_tx_chars is spent after one). The  *)
(* writer holds port->lock, the timer does not.                            *)
(***************************************************************************)
EXTENDS Integers

CONSTANTS XmitSize,     \* UART_XMIT_SIZE, a power of two
          MaxChars      \* bound: characters written between two openings

VARIABLES uart,         \* the port: xmit, tty, stopped; the timer and its handler
          uartSeen      \* history: characters written and sent, windows hit

vars == <<uart, uartSeen>>

Init ==
  /\ uart = [open |-> FALSE, tty |-> FALSE, stopped |-> FALSE, x_char |-> FALSE, head |-> 0, tail |-> 0,
             timer |-> "off", handler |-> "idle"]
  /\ uartSeen = [written |-> 0, sent |-> 0, odd |-> {}]

\* uart_open: the tty first, then tiny_startup
Open ==
  /\ ~uart.tty
  /\ uart' = [uart EXCEPT !.tty = TRUE, !.stopped = FALSE]
  /\ UNCHANGED uartSeen

Startup ==
  /\ uart.tty /\ ~uart.open
  /\ uart' = [uart EXCEPT !.open = TRUE, !.timer = "set"]
  /\ UNCHANGED uartSeen

\* uart_close of the last user: tiny_shutdown, whose del_timer does not wait for
\* the handler, the buffer, then the tty
Shutdown ==
  /\ uart.open
  /\ uart' = [uart EXCEPT !.open = FALSE, !.timer = "off"]
  /\ UNCHANGED uartSeen

Close ==
  /\ uart.tty /\ ~uart.open
  /\ uart' = [uart EXCEPT !.tty = FALSE, !.head = 0, !.tail = 0, !.x_char = FALSE]
  /\ uartSeen' = [written |-> 0, sent |-> 0,
                  odd |-> IF uart.handler = "take" THEN {"cleared"} ELSE {}]

Full == (uart.head + 1) % XmitSize = uart.tail

\* uart_write and tiny_start_tx, which leaves it to the timer
Write ==
  /\ uart.open /\ ~Full /\ uartSeen.written < MaxChars
  /\ uart' = [uart EXCEPT !.head = (@ + 1) % XmitSize]
  /\ uartSeen' = [uartSeen EXCEPT !.written = @ + 1]

\* Flow control of the line discipline: a character out of turn, stop and start
Flow ==
  /\ uart.open
  /\ \/ uart' = [uart EXCEPT !.x_char = TRUE]
     \/ uart' = [uart EXCEPT !.stopped = ~@]
  /\ UNCHANGED uartSeen

\* uart_flush_buffer clears the buffer; the handler may be between its test and
\* its use of the tail.
Flush ==
  /\ uart.open
  /\ uart' = [uart EXCEPT !.head = 0, !.tail = 0]
  /\ uartSeen' = [uartSeen EXCEPT !.written = 0, !.sent = 0,
                    !.odd = IF uart.handler = "take" THEN @ \cup {"cleared"} ELSE @]

-----------------------------------------------------------------------------
(* tiny_timer                                                              *)

TimerStart ==
  /\ uart.timer = "set" /\ uart.handler = "idle"
  /\ uart' = [uart EXCEPT !.timer = "off", !.handler = "test"]
  /\ UNCHANGED uartSeen

TimerTest ==
  /\ uart.handler = "test"
  /\ uart' = [uart EXCEPT !.handler = IF uart.tty THEN "resubmit" ELSE "idle"]
  /\ UNCHANGED uartSeen

\* Mutant: the timer is not set again when there is nothing to send.
TimerResubmitBusy ==
  /\ uart.handler = "resubmit"
  /\ uart' = [uart EXCEPT !.timer = IF uart.head # uart.tail THEN "set" ELSE @, !.handler = "tx"]
  /\ UNCHANGED uartSeen

TimerResubmit ==
  /\ uart.handler = "resubmit"
  /\ uart' = [uart EXCEPT !.timer = "set", !.handler = "tx"]
  /\ UNCHANGED uartSeen

\* Mutant: a character out of turn is sent with the next of the buffer.
TxTestNoReturn ==
  /\ uart.handler = "tx"
  /\ uart' = [uart EXCEPT !.x_char = FALSE,
                          !.handler = IF uart.x_char \/ (uart.head # uart.tail /\ ~uart.stopped)
                                      THEN "take" ELSE "idle"]
  /\ UNCHANGED uartSeen

\* tiny_tx_chars
TxTest ==
  /\ uart.handler = "tx"
  /\ uart' = [uart EXCEPT !.x_char = FALSE,
                          !.handler = IF ~uart.x_char /\ uart.head # uart.tail /\ ~uart.stopped
                                      THEN "take" ELSE "idle"]
  /\ UNCHANGED uartSeen

TxTake ==
  /\ uart.handler = "take"
  /\ uart' = [uart EXCEPT !.tail = (@ + 1) % XmitSize, !.handler = "idle"]
  /\ uartSeen' = IF uartSeen.odd # {} THEN uartSeen ELSE [uartSeen EXCEPT !.sent = @ + 1]

Next ==
  \/ Open \/ Startup \/ Shutdown \/ Close \/ Write \/ Flow \/ Flush
  \/ TimerStart \/ TimerTest \/ TimerResubmit \/ TxTest \/ TxTake

Spec == Init /\ [][Next]_vars

-----------------------------------------------------------------------------
(* Properties *)

\* Every character written is sent once (tiny_serial.c:59-89): those in the buffer
\* are those written and not sent, unless the buffer was cleared between the test
\* and the use of the tail, which the timer makes without the lock of the port.
SentOnce ==
  uartSeen.odd = {} => /\ uartSeen.sent <= uartSeen.written
                       /\ (uart.head - uart.tail) % XmitSize = uartSeen.written - uartSeen.sent

\* Output never stalls (tiny_serial.c:59-122, 191-216): while the port is open its
\* timer is set or the handler is about to set it, whatever closes and openings
\* it overlapped; one that found no tty is not missed.
TimerRuns == uart.open => uart.timer = "set" \/ uart.handler \in {"test", "resubmit"}
=============================================================================

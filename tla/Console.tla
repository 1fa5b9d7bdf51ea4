------------------------------- MODULE Console -------------------------------
(***************************************************************************)
(* The console's input line buffer (kernel/console.c) and the transmit     *)
(* buffer of the UART (platform/qemu/driver/uart.c), as operators on their *)
(* records.  The locks, the sleeping and the interrupts are in Machine.    *)
(***************************************************************************)
EXTENDS Integers, SequencesExt

CONSTANTS
  INPUT_BUF,         \* characters in cons.buf
  UART_TX_BUF_SIZE,
  Word,              \* what a uint index wraps at, a multiple of INPUT_BUF
  Start              \* where the input indices stand, from lines read before

-----------------------------------------------------------------------------
(* Input.  cons.lines and cons.taken are history: the characters that have *)
(* been handed to the readers by moving w, and those consoleread() took.   *)

NoInput == [buf |-> [i \in 0 .. INPUT_BUF - 1 |-> "nl"],
            r |-> Start, w |-> Start, e |-> Start,
            lines |-> <<>>, taken |-> <<>>]

(* Unsigned subtraction: the distance from index a up to index b. *)
Span(a, b) == (b + Word - a) % Word

Char(c, i) == c.buf[i % INPUT_BUF]

(* The characters from index a up to, not including, b. *)
Chars(c, a, b) == [k \in 1 .. Span(a, b) |-> Char(c, (a + k - 1) % Word)]

(* ^U: the edit index goes back to w, or to behind a newline. *)
KillLine(c) ==
  LET back == {k \in 0 .. Span(c.w, c.e) :
                 \A j \in 1 .. k : Char(c, (c.e + Word - j) % Word) # "nl"}
  IN [c EXCEPT !.e = (@ + Word - Max(back)) % Word]

Backspace(c) == IF c.e = c.w THEN c ELSE [c EXCEPT !.e = (@ + Word - 1) % Word]

(* Mutant of HasRoom: only the characters being edited are counted. *)
HasRoomEdited(c) == Span(c.w, c.e) < INPUT_BUF

HasRoom(c) == Span(c.r, c.e) < INPUT_BUF

(* w := e: the line is there for consoleread(). *)
Commit(c) == [c EXCEPT !.w = c.e, !.lines = @ \o Chars(c, c.w, c.e)]

Store(c, ch) ==
  LET d == [c EXCEPT !.buf[c.e % INPUT_BUF] = ch, !.e = (@ + 1) % Word]
  IN IF ch \in {"nl", "^D"} \/ Span(d.r, d.e) = INPUT_BUF THEN Commit(d) ELSE d

(* The switch of consoleintr(). *)
Consoleintr(c, ch) ==
  CASE ch = "^U" -> KillLine(c)
    [] ch = "^H" -> Backspace(c)
    [] OTHER     -> IF ~HasRoom(c) THEN c ELSE Store(c, IF ch = "cr" THEN "nl" ELSE ch)

(* The character that consoleread() looks at, and r++. *)
Next1(c) == Char(c, c.r)
Take(c)  == [c EXCEPT !.r = (@ + 1) % Word, !.taken = Append(@, Next1(c))]

-----------------------------------------------------------------------------
(* Output.  busy is the complement of LSR_TX_IDLE; sent is history: what   *)
(* uartstart() has written to THR.                                         *)

NoOutput == [buf |-> [i \in 0 .. UART_TX_BUF_SIZE - 1 |-> <<>>], w |-> 0, r |-> 0,
             sent |-> <<>>, busy |-> FALSE, rx |-> <<>>, irq |-> FALSE, claimed |-> FALSE]

(* Mutant of Full: the ring takes one character too many. *)
FullLate(u) == u.w = u.r + UART_TX_BUF_SIZE + 1

Full(u) == u.w = u.r + UART_TX_BUF_SIZE

Put(u, ch) == [u EXCEPT !.buf[u.w % UART_TX_BUF_SIZE] = ch, !.w = @ + 1]

(* The characters in the ring. *)
Buffered(u) == [k \in 1 .. u.w - u.r |-> u.buf[(u.r + k - 1) % UART_TX_BUF_SIZE]]

(* How many characters the loop of uartstart() may send: none if the ring  *)
(* is empty or the UART is not idle; else at least one, and more if LSR is *)
(* idle again when the loop reads it.                                      *)
Sends(u) == IF u.w = u.r \/ u.busy THEN {0} ELSE 1 .. u.w - u.r

(* uartstart() that sends n: the UART has interrupted for all but the last. *)
Uartstart(u, n) ==
  [u EXCEPT !.r = @ + n, !.sent = @ \o SubSeq(Buffered(u), 1, n),
            !.busy = @ \/ n > 0, !.irq = @ \/ n > 1]

(* uartputc_sync(), once the UART is idle: a character past the ring. *)
UartputcSync(u) == [u EXCEPT !.busy = TRUE]
=============================================================================

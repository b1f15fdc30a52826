----------------------------- MODULE UserInput -----------------------------
(***************************************************************************)
(* Reading from the console in user mode (user/ulib_stdio.c): the line     *)
(* editor u_gets with its echo, u_read_line, u_read_until, u_readn and     *)
(* u_getchar, and what the shell makes of a line (user/shell.c).  One step *)
(* is one return of read(), which gives a character, 0 or an error.  The   *)
(* buffer is the same in all calls, as in the shell, so a call starts with *)
(* what earlier lines left there.                                          *)
(***************************************************************************)
EXTENDS Integers, Sequences, SequencesExt

CONSTANTS
  Visible,   \* characters from 0x20 on, DEL apart
  buf_size,  \* of the caller's buffer
  MaxKeys    \* bound: the characters one call reads

CR == "CR"
LF == "LF"
ETX == "ETX"  \* Ctrl-C
BS == "BS"
DEL == "DEL"
CTL == "CTL"  \* another control character
NUL == "NUL"
Control == {CR, LF, ETX, BS, DEL, CTL, NUL}
Key == Visible \cup Control
Blank == " "

InputAssumption ==
  /\ buf_size \in Nat /\ buf_size > 1 /\ MaxKeys \in Nat
  /\ Visible \cap Control = {}

LineFn == {"u_gets", "u_read_line", "u_read_until"}
Fn == LineFn \cup {"u_readn", "u_getchar"}
U_GETS_INTR == -2  \* ulib.h
ERR == -1          \* what a failing read() returns
EOF == -1          \* what u_getchar returns at the end of input

VARIABLES
  reader,   \* the call in progress, or "none"
  buf, used,
  got,      \* auxiliary: the characters this call has read
  result,   \* what the call returned, for u_getchar maybe a character; 0 before
  cells,    \* what the terminal shows from where the call began, in its line
  cursor    \* number of these cells before the cursor
terminal == <<cells, cursor>>
input_vars == <<reader, buf, used, got, result, terminal>>

InputInit ==
  /\ reader = "none" /\ buf = [k \in 0 .. buf_size - 1 |-> NUL] /\ used = 0
  /\ got = <<>> /\ result = 0
  /\ cells = <<>> /\ cursor = 0

----------------------------------------------------------------------------
(* The echo: what the terminal (external) shows after u_putchar(c).        *)

u_putchar(t, c) ==
  CASE c = LF -> [cells |-> <<>>, cursor |-> 0]
    [] c = BS -> [t EXCEPT !.cursor = @ - 1]
    [] OTHER  -> [cells |-> IF t.cursor < Len(t.cells) THEN [t.cells EXCEPT ![t.cursor + 1] = c]
                            ELSE Append(t.cells, c),
                  cursor |-> t.cursor + 1]

Screen == [cells |-> cells, cursor |-> cursor]
Shows(t) == cells' = t.cells /\ cursor' = t.cursor

----------------------------------------------------------------------------
Call(f) ==
  /\ reader = "none"
  /\ reader' = f /\ used' = 0 /\ got' = <<>> /\ result' = 0
  /\ cells' = <<>> /\ cursor' = 0
  /\ UNCHANGED buf

Reads(c) == Len(got) < MaxKeys /\ got' = Append(got, c)
Return(r) == reader' = "none" /\ result' = r
Terminate(n) == buf' = [buf EXCEPT ![n] = NUL]

\* u_read_line and u_read_until look for room before the next read(), u_gets
\* when it has a character for it.
Full == used >= buf_size - 1
Asks == reader # "none" /\ (reader \in {"u_read_line", "u_read_until"} => ~Full)

\* The end of input, or an error; u_readn does not terminate its buffer.
read_eof ==
  /\ Asks
  /\ Return(IF reader = "u_getchar" THEN EOF ELSE used)
  /\ IF reader \in {"u_readn", "u_getchar"} \/ (used = 0 /\ reader # "u_read_until")
     THEN UNCHANGED buf ELSE Terminate(used)
  /\ UNCHANGED <<used, got, terminal>>
read_error == Asks /\ Return(ERR) /\ UNCHANGED <<buf, used, got, terminal>>

u_gets_interrupt ==
  /\ reader = "u_gets" /\ Reads(ETX)
  /\ Shows(u_putchar(u_putchar(u_putchar(Screen, "^"), "C"), LF))
  /\ Terminate(0) /\ used' = 0
  /\ Return(U_GETS_INTR)

u_gets_newline(c) ==
  /\ reader = "u_gets" /\ Reads(c)
  /\ Shows(u_putchar(Screen, LF))
  /\ Terminate(used) /\ Return(used)
  /\ UNCHANGED used

\* The character is taken from the line but left on the screen.
Bad_u_gets_backspace(c) ==
  /\ reader = "u_gets" /\ Reads(c)
  /\ IF used > 0 THEN used' = used - 1 /\ Shows(u_putchar(Screen, BS))
     ELSE UNCHANGED <<used, terminal>>
  /\ UNCHANGED <<reader, buf, result>>
u_gets_backspace(c) ==
  /\ reader = "u_gets" /\ Reads(c)
  /\ IF used > 0
     THEN used' = used - 1 /\ Shows(u_putchar(u_putchar(u_putchar(Screen, BS), Blank), BS))
     ELSE UNCHANGED <<used, terminal>>
  /\ UNCHANGED <<reader, buf, result>>

u_gets_ignore(c) == reader = "u_gets" /\ Reads(c) /\ UNCHANGED <<reader, buf, used, result, terminal>>

u_gets_visible(c) ==
  /\ reader = "u_gets" /\ Reads(c)
  /\ IF used < buf_size - 1
     THEN buf' = [buf EXCEPT ![used] = c] /\ used' = used + 1 /\ Shows(u_putchar(Screen, c))
     ELSE UNCHANGED <<buf, used, terminal>>
  /\ UNCHANGED <<reader, result>>

----------------------------------------------------------------------------
(* Nothing of the others is echoed, and a full buffer ends the call.  They *)
(* store a NUL like any other character.                                   *)

buffer_full ==
  /\ reader \in {"u_read_line", "u_read_until"} /\ Full
  /\ Terminate(used) /\ Return(used)
  /\ UNCHANGED <<used, got, terminal>>

u_read_line(c) ==
  /\ reader = "u_read_line" /\ Asks /\ Reads(c)
  /\ IF c \in {LF, CR}
     THEN Terminate(used) /\ Return(used) /\ UNCHANGED used
     ELSE buf' = [buf EXCEPT ![used] = c] /\ used' = used + 1 /\ UNCHANGED <<reader, result>>
  /\ UNCHANGED terminal

\* The delimiter (here LF) is kept.
u_read_until(c) ==
  /\ reader = "u_read_until" /\ Asks /\ Reads(c)
  /\ used' = used + 1
  /\ IF c = LF
     THEN buf' = [buf EXCEPT ![used] = c, ![used + 1] = NUL] /\ Return(used + 1)
     ELSE buf' = [buf EXCEPT ![used] = c] /\ UNCHANGED <<reader, result>>
  /\ UNCHANGED terminal

\* One read() may give several characters, at which u_readn does not look; the
\* call is for buf_size of them.
u_readn(s) ==
  /\ reader = "u_readn" /\ Len(s) <= buf_size - used /\ Len(got) + Len(s) <= MaxKeys
  /\ got' = got \o s
  /\ buf' = [k \in DOMAIN buf |-> IF k \in used .. used + Len(s) - 1 THEN s[k - used + 1] ELSE buf[k]]
  /\ used' = used + Len(s)
  /\ IF used' = buf_size THEN Return(used') ELSE UNCHANGED <<reader, result>>
  /\ UNCHANGED terminal

u_getchar(c) == reader = "u_getchar" /\ Reads(c) /\ Return(c) /\ UNCHANGED <<buf, used, terminal>>

\* What the shell is told of a line that u_gets returned.
SHELL_READ_OK == 1
SHELL_READ_EOF == 0
SHELL_READ_INTR == -2
SHELL_READ_ERR == -1
shell_read_line(len) ==
  CASE len = U_GETS_INTR             -> SHELL_READ_INTR
    [] len < 0 /\ len # U_GETS_INTR -> SHELL_READ_ERR
    [] len = 0                       -> SHELL_READ_EOF
    [] OTHER                         -> SHELL_READ_OK

InputNext ==
  \/ \E f \in Fn : Call(f)
  \/ read_eof \/ read_error \/ buffer_full
  \/ u_gets_interrupt
  \/ \E c \in {CTL, NUL} : u_gets_ignore(c)
  \/ \E c \in {CR, LF} : u_gets_newline(c)
  \/ \E c \in {BS, DEL} : u_gets_backspace(c)
  \/ \E c \in Visible : u_gets_visible(c)
  \/ \E c \in Key : u_read_line(c) \/ u_read_until(c) \/ u_getchar(c)
  \/ \E n \in 1 .. buf_size : \E s \in [1 .. n -> Visible] : u_readn(s)

InputSpec == InputInit /\ [][InputNext]_input_vars

----------------------------------------------------------------------------
\* The C string in a buffer.
CString(b) == LET n == CHOOSE k \in 0 .. buf_size : /\ k = buf_size \/ b[k] = NUL
                                                   /\ \A j \in 0 .. k - 1 : b[j] # NUL
              IN  [k \in 1 .. n |-> b[k - 1]]

\* While u_gets edits a line the terminal shows exactly what is in the buffer,
\* with the cursor behind it: erasing, refusing a character that does not fit
\* and ignoring control characters keep the two together.
ScreenShowsLine ==
  reader = "u_gets" =>
    /\ cursor = used
    /\ \A k \in 1 .. Len(cells) : cells[k] = IF k <= used THEN buf[k - 1] ELSE Blank

\* What the keys of a call say, as a text editor would take them.
Edit(line, c) == CASE c \in {BS, DEL} -> IF line = <<>> THEN line ELSE Front(line)
                   [] c \in Visible /\ Len(line) < buf_size - 1 -> Append(line, c)
                   [] OTHER -> line
Edited(keys) ==
  LET line[n \in 0 .. Len(keys)] == IF n = 0 THEN <<>> ELSE Edit(line[n - 1], keys[n])
  IN  line[Len(keys)]

\* The first n characters of a buffer.
Held(b, n) == [k \in 1 .. n |-> b[k - 1]]

\* What is left of the keys of a call: for u_gets what an editor makes of them,
\* for u_read_line and u_read_until every character but the end of line.
LineOf(f, keys) ==
  CASE f = "u_gets" -> Edited(keys)
    [] f = "u_read_line" /\ keys[Len(keys)] \in {LF, CR} -> Front(keys)
    [] OTHER -> keys

\* A call that returns a length returns that many characters and a terminator
\* behind them, whatever earlier calls left in the buffer, and they are what
\* was typed.  For u_gets they are a C string of that length.  The other two
\* may hold a NUL that was read before the terminator: only the length they
\* return tells how much was read.
LineReturned ==
  [][(reader \in LineFn /\ reader' = "none" /\ result' > 0) =>
       /\ Held(buf', result') = LineOf(reader, got') /\ buf'[result'] = NUL
       /\ reader = "u_gets" => CString(buf') = Held(buf', result')]_input_vars

\* The shell runs a line only if it is what was typed, is not empty and was not
\* interrupted; it is told of Ctrl-C exactly when that was the last key; and an
\* end of input in the middle of a line does not lose what was typed.
ShellToldRight ==
  [][(reader = "u_gets" /\ reader' = "none") =>
       LET told == shell_read_line(result')
       IN  /\ told = SHELL_READ_OK => Edited(got') # <<>> /\ CString(buf') = Edited(got')
           /\ told = SHELL_READ_INTR <=> got' # <<>> /\ got'[Len(got')] = ETX
           /\ told = SHELL_READ_EOF => Edited(got') = <<>>]_input_vars

\* u_readn puts together what its reads give, in order and without a gap.
ReadnInOrder == [][(reader = "u_readn" /\ reader' = "none" /\ result' >= 0) =>
                     got' = Held(buf', result')]_input_vars

\* u_getchar returns the one character it read, or that there was none.
CharReturned ==
  [][(reader = "u_getchar" /\ reader' = "none") =>
       IF got' = <<>> THEN result' < 0 ELSE got' = <<result'>>]_input_vars

\* What is typed is what is shown and what is returned (u_gets and the other
\* readers of ulib_stdio.c), and what the shell acts on.
InputExact ==
  [][ScreenShowsLine']_input_vars /\ LineReturned /\ ShellToldRight /\ ReadnInOrder /\ CharReturned
=============================================================================

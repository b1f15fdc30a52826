------------------------------- MODULE Format -------------------------------
(***************************************************************************)
(* The two formatters of ccos: u_vsnprintf behind u_snprintf and u_printf  *)
(* (user/ulib_stdio.c), and log_vformat (lib/log.c).  One step formats one *)
(* literal character or one directive.  Integers wrap at INT_MAX: where C  *)
(* leaves the overflow of a signed number undefined (-v of the most        *)
(* negative one, and the sums of u_atol and shell_atoi), this assumes what *)
(* RISC-V's instructions do; mk/flags.mk does not say -fwrapv.             *)
(***************************************************************************)
EXTENDS Integers, Sequences

CONSTANTS
  Formats,  \* format strings, as sequences of characters
  Sizes,    \* of the destination
  INT_MAX,  \* the largest integer: 2^(w-1) - 1 for w bits
  Values,   \* the integers that are printed
  Strings   \* the strings that are printed

Modulus == 2 * (INT_MAX + 1)
Wrap(v) == v % Modulus
Int_(v) == IF Wrap(v) <= INT_MAX THEN Wrap(v) ELSE Wrap(v) - Modulus
EOS == "NUL"   \* the terminator
JUNK == "JUNK"  \* what was in the destination before

FormatAssumption ==
  /\ INT_MAX \in Nat /\ Sizes \subseteq Nat /\ Values \subseteq -(INT_MAX + 1) .. INT_MAX
  /\ \A s \in Formats \cup Strings : s \in Seq(STRING)

VARIABLES
  formatter,
  fmt, p,   \* format string and the position in it
  size,
  dest,     \* the destination and one byte behind it
  pos,      \* position in dest; for u_vsnprintf also its total
  out,      \* auxiliary: the text without truncation
  arg,      \* the last integer argument, or 0
  returned, \* what was returned, -1 before
  written   \* what u_printf gave to write()
format_vars == <<formatter, fmt, p, size, dest, pos, out, arg, returned, written>>

Digit == <<"0", "1", "2", "3", "4", "5", "6", "7", "8", "9", "a", "b", "c", "d", "e", "f">>
DigitUpper == <<"0", "1", "2", "3", "4", "5", "6", "7", "8", "9", "A", "B", "C", "D", "E", "F">>
Decimal == {Digit[k] : k \in 1 .. 10}
DigitValue(c) == (CHOOSE k \in 1 .. 10 : Digit[k] = c) - 1

\* The first position from q on whose character is not in S; behind the last
\* character stands NUL.
Skip(f, q, S) == CHOOSE r \in q .. Len(f) + 1 : /\ r = Len(f) + 1 \/ f[r] \notin S
                                                /\ \A k \in q .. r - 1 : f[k] \in S
At(f, q) == IF q \in 1 .. Len(f) THEN f[q] ELSE EOS
Number(s) ==
  LET val[n \in 0 .. Len(s)] == IF n = 0 THEN 0 ELSE 10 * val[n - 1] + DigitValue(s[n])
  IN  val[Len(s)]

----------------------------------------------------------------------------
(* Conversions.                                                            *)

\* The digits of an unsigned number, most significant first.
Digits(v, base, set) ==
  LET digits[n \in Nat] == IF n < base THEN <<set[n + 1]>>
                           ELSE Append(digits[n \div base], set[(n % base) + 1])
  IN  digits[v]

u_itoa(v) ==
  IF v < 0 THEN <<"-">> \o Digits(Wrap(-v), 10, Digit) ELSE Digits(Wrap(v), 10, Digit)

\* An optional sign at q and the digits behind it.
Signed(s, q) ==
  LET r == IF At(s, q) \in {"+", "-"} THEN q + 1 ELSE q
      val == Number(SubSeq(s, r, Skip(s, r, Decimal) - 1))
  IN  Int_(IF At(s, q) = "-" THEN -val ELSE val)

\* u_atol skips leading white space, the shell's own reader does not.
u_isspace_ch == {" ", "TAB", "LF", "CR", "FF", "VT"}
u_atol(s) == Signed(s, Skip(s, 1, u_isspace_ch))
shell_atoi(s) == Signed(s, 1)

Rep(c, n) == [k \in 1 .. n |-> c]
Pad(c, width, text) == Rep(c, width - Len(text))

\* What one directive prints.
u_field(d, v, s) ==
  LET text == CASE d.spec = "d" -> u_itoa(v)
                [] d.spec = "u" -> Digits(Wrap(v), 10, Digit)
                [] d.spec = "x" -> Digits(Wrap(v), 16, Digit)
                [] d.spec = "X" -> Digits(Wrap(v), 16, DigitUpper)
                [] d.spec = "p" -> <<"0", "x">> \o Digits(Wrap(v), 16, Digit)
                [] d.spec = "c" -> <<"c">>
                [] d.spec = "s" -> s
      zero == d.zero /\ d.spec \notin {"s", "p"}
  IN  IF d.left THEN text \o Pad(" ", d.width, text)
      ELSE Pad(IF zero THEN "0" ELSE " ", d.width, text) \o text

\* Only numbers have a width here, and the sign comes before the padding.
log_field(d, v, s) ==
  LET Padded(width, text) == Pad(IF d.zero THEN "0" ELSE " ", width, text) \o text
  IN  CASE d.spec = "d" -> IF v < 0 THEN <<"-">> \o Padded(d.width - 1, Digits(Wrap(-v), 10, Digit))
                           ELSE Padded(d.width, Digits(v, 10, Digit))
        [] d.spec = "u" -> Padded(d.width, Digits(Wrap(v), 10, Digit))
        [] d.spec = "x" -> Padded(d.width, Digits(Wrap(v), 16, Digit))
        [] d.spec = "X" -> Padded(d.width, Digits(Wrap(v), 16, DigitUpper))
        [] d.spec = "p" -> <<"0", "x">> \o Digits(Wrap(v), 16, Digit)
        [] d.spec = "c" -> <<"c">>
        [] d.spec = "s" -> s

\* The directive whose flags start at q: %[flags][width][.precision][length]
\* for u_vsnprintf, %[0][width][length] for log_vformat.
u_directive(f, q) ==
  LET w == Skip(f, q, {"-", "0"})
      e == Skip(f, w, Decimal)
      r == IF At(f, e) = "." THEN Skip(f, e + 1, Decimal) ELSE e
      l == CASE At(f, r) = "z" -> r + 1
             [] At(f, r) = "l" -> IF At(f, r + 1) = "l" THEN r + 2 ELSE r + 1
             [] OTHER -> r
  IN  [left |-> "-" \in {f[k] : k \in q .. w - 1}, zero |-> "0" \in {f[k] : k \in q .. w - 1},
       width |-> Number(SubSeq(f, w, e - 1)), spec |-> At(f, l), next |-> l + 1]
log_directive(f, q) ==
  LET w == IF At(f, q) = "0" THEN q + 1 ELSE q
      e == Skip(f, w, Decimal)
      l == IF At(f, e) # "l" THEN e ELSE IF At(f, e + 1) = "l" THEN e + 2 ELSE e + 1
  IN  [left |-> FALSE, zero |-> w # q,
       width |-> Number(SubSeq(f, w, e - 1)), spec |-> At(f, l), next |-> l + 1]

Known == {"d", "u", "x", "X", "p", "c", "s"}
IsLog == formatter = "log_vformat"
Directive == IF IsLog THEN log_directive(fmt, p + 1) ELSE u_directive(fmt, p + 1)
Field(d, v, s) == IF d.spec \notin Known THEN <<"%", d.spec>>
                  ELSE IF IsLog THEN log_field(d, v, s) ELSE u_field(d, v, s)

----------------------------------------------------------------------------
(* The loops.  The formats of the log are literals of the kernel, none of  *)
(* which ends inside a directive: log_vformat would go on behind the       *)
(* string.  "d" stands for %d and %i.                                      *)

Complete(f) == \A k \in 1 .. Len(f) : f[k] = "%" => log_directive(f, k + 1).spec # EOS

FormatInit ==
  /\ formatter \in {"u_printf", "u_snprintf", "log_vformat"}
  /\ fmt \in {f \in Formats : IsLog => Complete(f)}
  /\ size \in Sizes /\ (formatter # "u_snprintf" => size > 0)
  /\ p = 1 /\ pos = 0 /\ dest = [k \in 0 .. size |-> JUNK]
  /\ out = <<>> /\ arg = 0 /\ returned = -1 /\ written = <<>>

avail == IF size > 0 THEN size - 1 ELSE 0

\* The terminator has no room.
Bad_out_char(text) ==
  /\ dest' = [k \in DOMAIN dest |-> IF k - pos + 1 \in 1 .. Len(text) /\ k < size
                                  THEN text[k - pos + 1] ELSE dest[k]]
  /\ pos' = IF IsLog /\ pos + Len(text) > size THEN size ELSE pos + Len(text)
  /\ out' = out \o text
\* u_vsnprintf counts on behind the end of the buffer, log_vformat stops.
out_char(text) ==
  /\ dest' = [k \in DOMAIN dest |-> IF k - pos + 1 \in 1 .. Len(text) /\ k < avail
                                  THEN text[k - pos + 1] ELSE dest[k]]
  /\ pos' = IF IsLog /\ pos + Len(text) > avail THEN avail ELSE pos + Len(text)
  /\ out' = out \o text

\* An unfinished directive ends u_vsnprintf, a full buffer log_vformat.
Ended == \/ At(fmt, p) = EOS
         \/ IsLog /\ pos >= avail
         \/ ~IsLog /\ At(fmt, p) = "%" /\ At(fmt, p + 1) # "%" /\ Directive.spec = EOS
Running == returned = -1 /\ ~Ended
Same == UNCHANGED <<formatter, fmt, size, returned, written>>

Literal ==
  /\ Running /\ At(fmt, p) # "%"
  /\ out_char(<<fmt[p]>>) /\ p' = p + 1 /\ UNCHANGED arg /\ Same

Percent ==
  /\ Running /\ At(fmt, p) = "%" /\ At(fmt, p + 1) = "%"
  /\ out_char(<<"%">>) /\ p' = p + 2 /\ UNCHANGED arg /\ Same

Convert(v, s) ==
  /\ Running /\ At(fmt, p) = "%" /\ At(fmt, p + 1) # "%"
  /\ out_char(Field(Directive, v, s)) /\ p' = Directive.next
  /\ arg' = v
  /\ Same

Finish ==
  /\ returned = -1 /\ Ended
  /\ dest' = IF size > 0 THEN [dest EXCEPT ![IF pos <= avail THEN pos ELSE avail] = EOS] ELSE dest
  /\ returned' = pos
  /\ written' = IF formatter = "u_printf"
                THEN [k \in 1 .. (IF pos < size THEN pos ELSE size - 1) |-> dest'[k - 1]]
                ELSE written
  /\ UNCHANGED <<formatter, fmt, p, size, pos, out, arg>>

FormatNext == Literal \/ Percent \/ (\E v \in Values, s \in Strings : Convert(v, s)) \/ Finish

FormatSpec == FormatInit /\ [][FormatNext]_format_vars

----------------------------------------------------------------------------
MaxWidth == 6  \* bound: of the fields NumberReadBack looks at
First(s, n) == SubSeq(s, 1, IF Len(s) < n THEN Len(s) ELSE n)

\* Neither formatter writes behind the destination, and the first size - 1
\* characters of the full text are what it finally holds, terminated; the
\* user's formatter returns the full length, the log's what it stored.
TextTruncated ==
  /\ \A k \in DOMAIN dest : k >= size => dest[k] = JUNK
  /\ returned # -1 =>
       /\ size > 0 => \E n \in 0 .. avail : /\ n = Len(First(out, avail)) /\ dest[n] = EOS
                                            /\ [k \in 1 .. n |-> dest[k - 1]] = First(out, avail)
       /\ returned = IF IsLog THEN Len(First(out, avail)) ELSE Len(out)

\* u_printf sends what it formatted and nothing else, however long the text.
PrintedIsText == returned # -1 /\ formatter = "u_printf" => written = First(out, avail)

\* A number that was printed with %d is read back as it was, also the most
\* negative one, whose negation overflows: by the shell, and by u_atol from a
\* field padded with blanks as well.
NumberReadBack ==
  returned # -1 =>
    /\ shell_atoi(u_itoa(arg)) = arg
    /\ \A w \in 0 .. MaxWidth : u_atol(Pad(" ", w, u_itoa(arg)) \o u_itoa(arg)) = arg

\* What is formatted is what is stored, sent and read back (u_vsnprintf,
\* u_printf, log_vformat, u_atol, shell_atoi).
TextExact == TextTruncated /\ PrintedIsText /\ NumberReadBack
=============================================================================

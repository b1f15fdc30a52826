----------------------------- MODULE MCLibrary -----------------------------
(***************************************************************************)
(* One small instance each, for TLC, of the functions that other code      *)
(* calls one at a time, RunQueue.tla, DateTime.tla, Format.tla,            *)
(* Strings.tla, UserInput.tla and Clock.tla, and of the way into the       *)
(* kernel, TrapPath.tla.  They share no state, so they are not             *)
(* interleaved: unit says which of them a behaviour is about, and the      *)
(* others rest in an initial state.                                        *)
(***************************************************************************)
EXTENDS RunQueue, DateTime, Format, Strings, UserInput, Clock, TrapPath

\* The days around the end of every February and of every year from 1970 to
\* 2037, at the first and the last second of the day.  Later years need more
\* than TLC's 32 bits, and are left to the proof.
MCEpochs ==
  {(DaysBeforeYear(y) + d) * SECS_PER_DAY + s :
     y \in 1970 .. 2037, d \in {0, 58, 59, 60, 364}, s \in {0, SECS_PER_DAY - 1}}

\* Every format of up to four of these characters, a directive of each kind
\* after a literal, and one with everything u_vsnprintf skips.
MCFormats == BoundedSeq({"a", "%", "-", "0", "3", "l", "d"}, 4)
             \cup {<<"a", "%", "3", s, "a">> : s \in {"d", "u", "x", "X", "p", "c", "s", "?"}}
             \cup {<<"%", "-", "3", ".", "3", "l", "l", "s", "%", "z", "u">>}

\* The strings that are printed: none, and one longer than a width of 3.
MCStrings == {<<>>, <<"s", "s", "s", "s">>}

\* The limits of 8 bits, both sides of 0 and a number of two digits.
MCValues == {-128, -1, 0, 10, 127}

ASSUME LibraryAssumption ==
  FormatAssumption /\ StringsAssumption /\ InputAssumption /\ ClockAssumption

VARIABLE unit
library_vars == <<unit, vars, date_vars, format_vars, string_vars, input_vars, clock_vars,
                  trap_vars>>

----------------------------------------------------------------------------
\* Two bytes fewer than the shell's line of three words needs are enough for the
\* other functions on memory: the last two are NUL.
LibraryInit ==
  /\ unit \in {"runqueue", "date", "format", "strings", "input", "clock", "trap"}
  /\ unit # "date" => epoch_sec = 0
  /\ unit # "format" => formatter = "u_printf" /\ fmt = <<>> /\ size = 1
  /\ unit # "strings" => mem = [k \in Address |-> ZERO] /\ fn = "strlen" /\ a = 0 /\ b = 0 /\ n = 0
  /\ unit # "clock" => fdt_hz = 0
  /\ Init /\ DateInit /\ FormatInit /\ StringsInit /\ InputInit /\ ClockInit /\ TrapInit
  /\ fn # "shell_parse_line" => mem[M - 2] = ZERO /\ mem[M - 1] = ZERO

\* Every other unit rests.
Resting(others) == UNCHANGED <<unit, others>>

LibraryNext ==
  \/ /\ unit = "runqueue" /\ Next
     /\ Resting(<<date_vars, format_vars, string_vars, input_vars, clock_vars, trap_vars>>)
  \/ /\ unit = "date" /\ DateNext
     /\ Resting(<<vars, format_vars, string_vars, input_vars, clock_vars, trap_vars>>)
  \/ /\ unit = "format" /\ FormatNext
     /\ Resting(<<vars, date_vars, string_vars, input_vars, clock_vars, trap_vars>>)
  \/ /\ unit = "strings" /\ StringsNext
     /\ Resting(<<vars, date_vars, format_vars, input_vars, clock_vars, trap_vars>>)
  \/ /\ unit = "input" /\ InputNext
     /\ Resting(<<vars, date_vars, format_vars, string_vars, clock_vars, trap_vars>>)
  \/ /\ unit = "clock" /\ ClockNext
     /\ Resting(<<vars, date_vars, format_vars, string_vars, input_vars, trap_vars>>)
  \/ /\ unit = "trap" /\ TrapNext
     /\ Resting(<<vars, date_vars, format_vars, string_vars, input_vars, clock_vars>>)

LibrarySpec == LibraryInit /\ [][LibraryNext]_library_vars
=============================================================================

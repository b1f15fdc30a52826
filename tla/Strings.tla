------------------------------ MODULE Strings ------------------------------
(***************************************************************************)
(* The memory and string functions of the kernel (lib/string.c) and of     *)
(* user mode (user/ulib_string.c), which are the same loops, and the       *)
(* splitting of a command line by the shell (shell_parse_line).  They work *)
(* on one small memory, so that regions may overlap; one step is one       *)
(* iteration of a loop.                                                    *)
(***************************************************************************)
EXTENDS Integers, Sequences

CONSTANTS
  M,         \* size of the memory
  Char,      \* the characters, without NUL, 1 .. n
  SHELL_MAX_ARGS

ZERO == 0
Byte == Char \cup {ZERO}
SPACE == 1  \* white space, when a command line is split
Address == 0 .. M - 1
NULL == -1

StringsAssumption ==
  /\ M \in Nat \ {0} /\ Char \subseteq Nat \ {0} /\ SPACE \in Char /\ SHELL_MAX_ARGS \in Nat \ {0}

StringFn == {"memmove", "memcpy", "memset", "memcmp", "memchr", "strlen", "strnlen", "strcmp",
             "strncmp", "strcpy", "strncpy", "strchr", "strrchr", "shell_parse_line"}

VARIABLES
  mem, mem0,   \* the memory, and auxiliary what it was at the call
  fn, a, b, n, \* the call: addresses of destination and source, length
  c,           \* or the character
  i,           \* the loop variable
  last,        \* of strrchr, of shell_parse_line the argv so far
  value        \* <<>> until the function returns, then what it returns
string_vars == <<mem, mem0, fn, a, b, n, c, i, last, value>>

ByteAt(m, k) == IF k \in Address THEN m[k] ELSE ZERO
\* Length of the C string at s.
Length(m, s) == CHOOSE k \in 0 .. M : ByteAt(m, s + k) = ZERO /\ \A j \in 0 .. k - 1 : ByteAt(m, s + j) # ZERO

\* The calls C allows: the regions lie in the memory, a string ends there,
\* and only memmove may be given regions that overlap.
Legal(f, m, x, y, len) ==
  LET Fits(s, k) == s + k <= M
      Ends(s) == s + Length(m, s) < M
      Apart(k) == x + k <= y \/ y + k <= x
  IN  CASE f = "memmove" -> Fits(x, len) /\ Fits(y, len)
        [] f = "memcpy" -> Fits(x, len) /\ Fits(y, len) /\ Apart(len)
        [] f = "memcmp" -> Fits(x, len) /\ Fits(y, len)
        [] f \in {"memset", "memchr", "strnlen"} -> Fits(x, len) /\ y = 0
        [] f \in {"strlen", "strchr", "strrchr"} -> Ends(x) /\ y = 0 /\ len = 0
        [] f = "strcmp" -> Ends(x) /\ Ends(y) /\ len = 0
        [] f = "strncmp" -> Ends(x) /\ Ends(y)
        [] f = "strcpy" -> Ends(y) /\ Fits(x, Length(m, y) + 1) /\ Apart(Length(m, y) + 1) /\ len = 0
        [] f = "strncpy" -> Ends(y) /\ Fits(x, len) /\ (x + len <= y \/ y + Length(m, y) + 1 <= x)
        [] OTHER -> Ends(x) /\ x = 0 /\ y = 0 /\ len = 0

Backward == fn = "memmove" /\ a > b

StringsInit ==
  /\ mem \in [Address -> Byte] /\ mem0 = mem
  /\ fn \in StringFn /\ a \in Address /\ b \in Address /\ n \in 0 .. M
  /\ Legal(fn, mem, a, b, n)
  /\ c \in IF fn \in {"memset", "memchr", "strchr", "strrchr"} THEN Byte ELSE {ZERO}
  /\ i = IF Backward THEN n ELSE 0
  /\ last = IF fn = "shell_parse_line" THEN <<>> ELSE <<NULL>>
  /\ value = <<>>

----------------------------------------------------------------------------
Runs(f) == fn \in f /\ value = <<>>
SameCall == UNCHANGED <<mem0, fn, a, b, n, c>>
Returns(r) == value' = <<r>> /\ UNCHANGED <<mem, i, last>> /\ SameCall
Loop == i' = i + 1 /\ UNCHANGED <<last, value>> /\ SameCall
Store(k, v) == mem' = [mem EXCEPT ![k] = v]
X == ByteAt(mem, a + i)  \* what the two pointers of a loop point at
Y == ByteAt(mem, b + i)

\* An overlapping region is copied forward too.
Bad_memmove ==
  /\ Runs({"memmove"})
  /\ IF a = b \/ (IF Backward THEN i = 0 ELSE i = n) THEN Returns(a)
     ELSE IF Backward
          THEN Store(a + n - i, mem[b + n - i]) /\ i' = i - 1 /\ UNCHANGED <<last, value>> /\ SameCall
          ELSE Store(a + i, Y) /\ Loop
memmove ==
  /\ Runs({"memmove"})
  /\ IF a = b \/ (IF Backward THEN i = 0 ELSE i = n) THEN Returns(a)
     ELSE IF Backward
          THEN Store(a + i - 1, mem[b + i - 1]) /\ i' = i - 1 /\ UNCHANGED <<last, value>> /\ SameCall
          ELSE Store(a + i, Y) /\ Loop

memcpy == Runs({"memcpy"}) /\ IF i = n THEN Returns(a) ELSE Store(a + i, Y) /\ Loop
memset == Runs({"memset"}) /\ IF i = n THEN Returns(a) ELSE Store(a + i, c) /\ Loop

memcmp ==
  /\ Runs({"memcmp"})
  /\ IF i = n THEN Returns(0) ELSE IF X # Y THEN Returns(X - Y) ELSE Loop /\ UNCHANGED mem

memchr ==
  /\ Runs({"memchr"})
  /\ IF i = n THEN Returns(NULL) ELSE IF X = c THEN Returns(a + i) ELSE Loop /\ UNCHANGED mem

strlen ==
  /\ Runs({"strlen", "strnlen"})
  /\ IF X = ZERO \/ (fn = "strnlen" /\ i = n) THEN Returns(i) ELSE Loop /\ UNCHANGED mem

strcmp ==
  /\ Runs({"strcmp"})
  /\ IF X = ZERO \/ X # Y THEN Returns(X - Y) ELSE Loop /\ UNCHANGED mem

strncmp ==
  /\ Runs({"strncmp"})
  /\ IF i = n THEN Returns(0)
     ELSE IF X # Y THEN Returns(X - Y)
     ELSE IF X = ZERO THEN Returns(0) ELSE Loop /\ UNCHANGED mem

strcpy ==
  /\ Runs({"strcpy"})
  /\ Store(a + i, Y)
  /\ IF Y = ZERO THEN value' = <<a>> /\ UNCHANGED <<i, last>> /\ SameCall ELSE Loop

\* Behind the end of the source the rest is filled with NUL.
strncpy ==
  /\ Runs({"strncpy"})
  /\ IF i = n THEN Returns(a)
     ELSE Loop /\ Store(a + i, IF \E k \in 0 .. i : ByteAt(mem, b + k) = ZERO THEN ZERO ELSE Y)

strchr ==
  /\ Runs({"strchr"})
  /\ IF X = ZERO THEN Returns(IF c = ZERO THEN a + i ELSE NULL)
     ELSE IF X = c THEN Returns(a + i) ELSE Loop /\ UNCHANGED mem

strrchr ==
  /\ Runs({"strrchr"})
  /\ IF X = ZERO THEN Returns(IF c = ZERO THEN a + i ELSE last[1])
     ELSE /\ last' = IF X = c THEN <<a + i>> ELSE last
          /\ i' = i + 1 /\ UNCHANGED <<mem, value>> /\ SameCall

\* One step skips white space and takes a token, whose end it overwrites.
shell_parse_line ==
  /\ Runs({"shell_parse_line"})
  /\ LET p == CHOOSE k \in i .. M : /\ ByteAt(mem, k) # SPACE
                                    /\ \A j \in i .. k - 1 : ByteAt(mem, j) = SPACE
         e == CHOOSE k \in p .. M : /\ ByteAt(mem, k) \in {SPACE, ZERO}
                                    /\ \A j \in p .. k - 1 : ByteAt(mem, j) \notin {SPACE, ZERO}
     IN  IF ByteAt(mem, p) = ZERO \/ Len(last) = SHELL_MAX_ARGS THEN Returns(Len(last))
         ELSE /\ last' = Append(last, p) /\ i' = IF ByteAt(mem, e) = ZERO THEN e ELSE e + 1
              /\ mem' = IF e < M THEN [mem EXCEPT ![e] = ZERO] ELSE mem
              /\ UNCHANGED value /\ SameCall

StringsNext == \/ memmove \/ memcpy \/ memset \/ memcmp \/ memchr \/ strlen \/ strcmp \/ strncmp
               \/ strcpy \/ strncpy \/ strchr \/ strrchr \/ shell_parse_line

StringsSpec == StringsInit /\ [][StringsNext]_string_vars

----------------------------------------------------------------------------
(* References, over a memory m: the one at the call.                       *)

StringAt(m, s) == [k \in 1 .. Length(m, s) |-> m[s + k - 1]]
Bytes(m, s, len) == [k \in 1 .. len |-> m[s + k - 1]]
Prefix(s, len) == SubSeq(s, 1, IF Len(s) < len THEN Len(s) ELSE len)

\* The difference at the first place where two zero-extended sequences differ.
Compare(s, t) ==
  LET Z(u, k) == IF k <= Len(u) THEN u[k] ELSE ZERO
      D == {k \in 1 .. M : Z(s, k) # Z(t, k)}
  IN  IF D = {} THEN 0
      ELSE LET k == CHOOSE k \in D : \A j \in D : k <= j IN Z(s, k) - Z(t, k)

\* The memory with s at address x.
With(m, x, s) == [k \in Address |-> IF k - x + 1 \in 1 .. Len(s) THEN s[k - x + 1] ELSE m[k]]

\* Every copy leaves what was at the source, in full, at the destination and
\* nothing else changed - when the regions overlap too (memmove).
CopiesExact ==
  value # <<>> =>
    mem = CASE fn \in {"memmove", "memcpy"} -> With(mem0, a, Bytes(mem0, b, n))
            [] fn = "memset" -> With(mem0, a, [k \in 1 .. n |-> c])
            [] fn = "strcpy" -> With(mem0, a, Append(StringAt(mem0, b), ZERO))
            [] fn = "strncpy" -> With(mem0, a, Prefix(StringAt(mem0, b) \o [k \in 1 .. n |-> ZERO], n))
            [] fn = "shell_parse_line" -> mem
            [] OTHER -> mem0

\* The comparisons and searches return what C's library promises.
SearchesExact ==
  value # <<>> =>
    LET s == StringAt(mem0, a)
        Found == {k \in 1 .. Len(s) : s[k] = c}
    IN  CASE fn = "memcmp" -> value[1] = Compare(Bytes(mem0, a, n), Bytes(mem0, b, n))
          [] fn = "strcmp" -> value[1] = Compare(s, StringAt(mem0, b))
          [] fn = "strncmp" -> value[1] = Compare(Prefix(s, n), Prefix(StringAt(mem0, b), n))
          [] fn = "strlen" -> value[1] = Len(s)
          [] fn = "strnlen" -> value[1] = Len(Prefix(s, n))
          [] fn = "memchr" -> LET F == {k \in a .. a + n - 1 : mem0[k] = c}
                              IN  value[1] = IF F = {} THEN NULL ELSE CHOOSE k \in F : \A j \in F : k <= j
          [] fn \in {"strchr", "strrchr"} ->
               value[1] = IF c = ZERO THEN a + Len(s)
                        ELSE IF Found = {} THEN NULL
                        ELSE LET F == {a + k - 1 : k \in Found}
                             IN  CHOOSE k \in F : \A j \in F : IF fn = "strchr" THEN k <= j ELSE j <= k
          [] OTHER -> TRUE

\* The arguments of a command are the words of the line, up to the maximum,
\* each one a string of its own: the last one too.
WordStarts(s) == {k \in 1 .. Len(s) : s[k] # SPACE /\ (k = 1 \/ s[k - 1] = SPACE)}
WordEnd(s, k) == CHOOSE e \in k .. Len(s) + 1 :
                   /\ e = Len(s) + 1 \/ s[e] = SPACE
                   /\ \A j \in k .. e - 1 : s[j] # SPACE
ArgvIsWords ==
  value # <<>> /\ fn = "shell_parse_line" =>
    LET line == StringAt(mem0, a)
        argc == Len(last)
        Start(k) == last[k] + 1
    IN  /\ value[1] = argc /\ argc <= SHELL_MAX_ARGS
        /\ \A k \in 1 .. argc : Start(k) \in WordStarts(line) /\ \A j \in 1 .. k - 1 : last[j] < last[k]
        /\ \A w \in WordStarts(line) : \/ \E k \in 1 .. argc : Start(k) = w
                                       \/ argc = SHELL_MAX_ARGS /\ Start(argc) < w
        /\ \A k \in 1 .. argc : last[k] + Length(mem, last[k]) = WordEnd(line, Start(k)) - 1

\* Every function of string.c and ulib_string.c, and shell_parse_line, does
\* what its caller relies on.
StringsExact == CopiesExact /\ SearchesExact /\ ArgvIsWords
=============================================================================

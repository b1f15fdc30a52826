--------------------------- MODULE StringsProofs ---------------------------
(***************************************************************************)
(* The memory and string functions and shell_parse_line do what their      *)
(* callers rely on, for a memory, an alphabet and a maximum number of      *)
(* arguments of any size.                                                  *)
(***************************************************************************)
EXTENDS Strings, SequenceTheorems, NaturalsInduction, WellFoundedInduction, TLAPS

----------------------------------------------------------------------------
(* The loops' invariants.                                                  *)

\* The memory m with v at the addresses from x + lo to x + hi - 1.
Put(m, x, lo, hi, v) ==
  [k \in Address |-> IF x + lo <= k /\ k < x + hi THEN v[k - x] ELSE m[k]]

\* What a copy is to leave at each place of its destination.
Wanted(f, m, y, ch) ==
  [k \in 0 .. M |->
     CASE f = "memset" -> ch
       [] f = "strncpy" -> IF k < Length(m, y) THEN ByteAt(m, y + k) ELSE ZERO
       [] OTHER -> ByteAt(m, y + k)]

\* An argument at x ends at e: where the line does or at white space.
EndsAt(m, x, e) ==
  /\ \A k \in x .. e - 1 : ByteAt(m, k) \notin {SPACE, ZERO}
  /\ ByteAt(m, e) \in {SPACE, ZERO}

CopyFn == {"memmove", "memcpy", "memset", "strcpy", "strncpy"}
CountFn == {"memmove", "memcpy", "memset", "strncpy", "memcmp", "memchr", "strnlen", "strncmp"}

StrTypeOK ==
  /\ mem \in [Address -> Byte] /\ mem0 \in [Address -> Byte]
  /\ fn \in StringFn /\ a \in Address /\ b \in Address /\ n \in 0 .. M /\ c \in Byte
  /\ i \in Nat

LegalCall == Legal(fn, mem0, a, b, n)

InvCount == value = <<>> /\ fn \in CountFn => i <= n

\* A copy has done one end of its destination and touched nothing else.
InvCopy ==
  value = <<>> /\ fn \in CopyFn =>
    mem = IF Backward THEN Put(mem0, a, i, n, Wanted(fn, mem0, b, c))
          ELSE Put(mem0, a, 0, i, Wanted(fn, mem0, b, c))

\* A search has not passed the end of its string, nor what it looks for.
InvString ==
  value = <<>> => /\ fn \in {"strlen", "strnlen", "strcmp", "strncmp", "strchr", "strrchr"}
                       => \A j \in 0 .. i - 1 : ByteAt(mem0, a + j) # ZERO
                  /\ fn = "strcpy" => \A j \in 0 .. i - 1 : ByteAt(mem0, b + j) # ZERO
InvSame == value = <<>> /\ fn \in {"memcmp", "strcmp", "strncmp"} =>
             \A j \in 0 .. i - 1 : ByteAt(mem0, a + j) = ByteAt(mem0, b + j)
InvNot == value = <<>> /\ fn \in {"memchr", "strchr"} => \A j \in 0 .. i - 1 : ByteAt(mem0, a + j) # c
InvLast ==
  value = <<>> /\ fn = "strrchr" =>
    \/ last = <<NULL>> /\ \A j \in 0 .. i - 1 : ByteAt(mem0, a + j) # c
    \/ \E q \in 0 .. i - 1 : /\ last = <<a + q>> /\ ByteAt(mem0, a + q) = c
                             /\ \A j \in q + 1 .. i - 1 : ByteAt(mem0, a + j) # c
InvRead == value = <<>> /\ fn \notin CopyFn \cup {"shell_parse_line"} => mem = mem0

\* The part of a line behind i is untouched and begins a word or follows
\* white space; before it every word is an argument with its end cut off.
InvParse ==
  fn = "shell_parse_line" =>
    LET L == Length(mem0, 0) IN
    /\ i <= L
    /\ i = 0 \/ i = L \/ mem0[i - 1] = SPACE
    /\ \A k \in i .. M - 1 : mem[k] = mem0[k]
    /\ last \in Seq(Nat) /\ Len(last) <= SHELL_MAX_ARGS
    /\ \A k \in 1 .. Len(last) : last[k] < i /\ \A j \in 1 .. k - 1 : last[j] < last[k]
    /\ \A k \in 1 .. Len(last) : last[k] + 1 \in WordStarts(StringAt(mem0, 0))
    /\ \A w \in WordStarts(StringAt(mem0, 0)) : w <= i => \E k \in 1 .. Len(last) : last[k] + 1 = w
    /\ \A k \in 1 .. Len(last) : \E e \in last[k] .. i :
         /\ EndsAt(mem0, last[k], e)
         /\ \A j \in last[k] .. e - 1 : mem[j] = mem0[j]
         /\ ByteAt(mem, e) = ZERO
InvArgv == fn = "shell_parse_line" /\ value # <<>> =>
             /\ value = <<Len(last)>>
             /\ Len(last) = SHELL_MAX_ARGS \/ \A k \in i .. Length(mem0, 0) - 1 : mem0[k] = SPACE

StrInv == /\ StrTypeOK /\ LegalCall /\ InvCount /\ InvCopy /\ InvString /\ InvSame /\ InvNot
          /\ InvLast /\ InvRead /\ InvParse /\ InvArgv
          /\ CopiesExact /\ SearchesExact

----------------------------------------------------------------------------
(* Bytes, addresses and the length of a string.                            *)

\* A nonempty set of naturals has a least element.
LEMMA LeastOf ==
  ASSUME NEW F, F \subseteq Nat, F # {}
  PROVE  \E x \in F : \A y \in F : x <= y
<1> DEFINE R == {p \in Nat \X Nat : p[1] < p[2]}
<1>1. IsWellFoundedOn(R, Nat)
  BY NatLessThanWellFounded, Zenon DEF OpToRel
<1> HIDE DEF R
<1>2. PICK x \in F : \A y \in F : ~ (<<y, x>> \in R)
  BY <1>1, WFMin
<1>3. ASSUME NEW y \in F PROVE x <= y
  <2>1. y \in Nat /\ x \in Nat /\ <<y, x>> \in Nat \X Nat
    OBVIOUS
  <2>2. ~ (y < x)
    BY <1>2, <2>1 DEF R
  <2> QED
    BY <2>1, <2>2
<1> QED
  BY <1>3

\* The constants, as the steps below use them.
LEMMA StrConstants ==
  ASSUME StringsAssumption
  PROVE  /\ M \in Nat /\ M > 0 /\ Byte \subseteq Nat /\ ZERO \in Byte /\ SPACE \in Byte
         /\ ZERO = 0 /\ SPACE = 1 /\ SHELL_MAX_ARGS \in Nat
         /\ \A x : x \in Address <=> x \in Int /\ 0 <= x /\ x < M
<1>1. M \in Nat /\ M > 0 /\ Char \subseteq Nat /\ SPACE \in Char /\ SHELL_MAX_ARGS \in Nat
  BY DEF StringsAssumption
<1> QED
  BY <1>1 DEF Byte, ZERO, SPACE, Address

\* At reads the memory, and NUL behind it.
LEMMA AtIs ==
  ASSUME StringsAssumption, NEW m \in [Address -> Byte], NEW x \in Nat
  PROVE  /\ ByteAt(m, x) \in Nat /\ ByteAt(m, x) \in Byte
         /\ x < M => ByteAt(m, x) = m[x] /\ x \in Address
         /\ x >= M => ByteAt(m, x) = ZERO
BY StrConstants DEF ByteAt

\* The length of a string: where its first NUL is.
LEMMA LengthIs ==
  ASSUME StringsAssumption, NEW m \in [Address -> Byte], NEW s \in Nat
  PROVE  /\ Length(m, s) \in 0 .. M
         /\ ByteAt(m, s + Length(m, s)) = ZERO
         /\ \A j \in 0 .. Length(m, s) - 1 : ByteAt(m, s + j) # ZERO
<1> DEFINE F == {k \in 0 .. M : ByteAt(m, s + k) = ZERO}
<1>1. M \in Nat
  BY StrConstants
<1>2. M \in F
  <2>1. s + M \in Nat /\ s + M >= M
    BY <1>1
  <2> QED
    BY <1>1, <2>1, AtIs
<1>3. PICK k \in F : \A j \in F : k <= j
  <2>1. F \subseteq Nat /\ F # {}
    BY <1>1, <1>2
  <2> QED
    BY <2>1, LeastOf
<1>4. ASSUME NEW j \in 0 .. k - 1 PROVE ByteAt(m, s + j) # ZERO
  <2>1. k \in 0 .. M /\ j \in 0 .. M /\ ~ (k <= j)
    BY <1>1
  <2> QED
    BY <1>3, <2>1
<1>5. \E q \in 0 .. M : ByteAt(m, s + q) = ZERO /\ \A j \in 0 .. q - 1 : ByteAt(m, s + j) # ZERO
  BY <1>4
<1> QED
  BY <1>5 DEF Length

\* It is the only such place.
LEMMA LengthOnly ==
  ASSUME StringsAssumption, NEW m \in [Address -> Byte], NEW s \in Nat, NEW k \in Nat,
         \A j \in 0 .. k - 1 : ByteAt(m, s + j) # ZERO
  PROVE  /\ k <= Length(m, s)
         /\ ByteAt(m, s + k) = ZERO <=> k = Length(m, s)
<1>1. /\ Length(m, s) \in 0 .. M
      /\ ByteAt(m, s + Length(m, s)) = ZERO
      /\ \A j \in 0 .. Length(m, s) - 1 : ByteAt(m, s + j) # ZERO
  BY LengthIs
<1>2. M \in Nat /\ Length(m, s) \in Nat
  BY <1>1, StrConstants
<1>3. k <= Length(m, s)
  <2>1. Length(m, s) < k => Length(m, s) \in 0 .. k - 1
    BY <1>2
  <2> QED
    BY <1>1, <1>2, <2>1
<1>4. k < Length(m, s) => k \in 0 .. Length(m, s) - 1
  BY <1>2
<1> QED
  BY <1>1, <1>2, <1>3, <1>4

\* The string at s as a sequence, and a number of bytes.
LEMMA StringIs ==
  ASSUME StringsAssumption, NEW m \in [Address -> Byte], NEW s \in Nat
  PROVE  /\ StringAt(m, s) \in Seq(Nat) /\ Len(StringAt(m, s)) = Length(m, s)
         /\ \A k \in 1 .. Length(m, s) : StringAt(m, s)[k] = ByteAt(m, s + k - 1)
<1>1. M \in Nat /\ Length(m, s) \in Nat
  BY LengthIs, StrConstants
<1>2. ASSUME NEW k \in 1 .. Length(m, s)
      PROVE  m[s + k - 1] = ByteAt(m, s + k - 1) /\ m[s + k - 1] \in Nat
  <2>1. k - 1 \in 0 .. Length(m, s) - 1 /\ s + (k - 1) = s + k - 1 /\ s + k - 1 \in Nat
    BY <1>1
  <2>2. ByteAt(m, s + k - 1) # ZERO
    BY <2>1, LengthIs
  <2> QED
    BY <2>1, <2>2, <1>1, AtIs
<1>3. StringAt(m, s) \in [1 .. Length(m, s) -> Nat]
  BY <1>2 DEF StringAt
<1>4. StringAt(m, s) \in Seq(Nat) /\ Len(StringAt(m, s)) = Length(m, s)
  BY <1>1, <1>3
<1> QED
  BY <1>2, <1>4 DEF StringAt

\* The bytes from s, likewise.
LEMMA BytesIs ==
  ASSUME StringsAssumption, NEW m \in [Address -> Byte], NEW s \in Nat, NEW len \in Nat, s + len <= M
  PROVE  /\ Bytes(m, s, len) \in Seq(Nat) /\ Len(Bytes(m, s, len)) = len
         /\ \A k \in 1 .. len : Bytes(m, s, len)[k] = ByteAt(m, s + k - 1)
<1>1. M \in Nat
  BY StrConstants
<1>2. ASSUME NEW k \in 1 .. len
      PROVE  m[s + k - 1] = ByteAt(m, s + k - 1) /\ m[s + k - 1] \in Nat
  <2>1. s + k - 1 \in Nat /\ s + k - 1 < M
    BY <1>1
  <2> QED
    BY <2>1, <1>1, AtIs
<1>3. Bytes(m, s, len) \in [1 .. len -> Nat]
  BY <1>2 DEF Bytes
<1>4. Bytes(m, s, len) \in Seq(Nat) /\ Len(Bytes(m, s, len)) = len
  BY <1>1, <1>3
<1> QED
  BY <1>2, <1>4 DEF Bytes

\* A prefix is as long as asked for, or as there is.
LEMMA PrefixIs ==
  ASSUME NEW s \in Seq(Nat), NEW len \in Nat
  PROVE  LET z == IF Len(s) < len THEN Len(s) ELSE len
         IN  /\ Prefix(s, len) \in Seq(Nat) /\ Len(Prefix(s, len)) = z
             /\ \A k \in 1 .. z : Prefix(s, len)[k] = s[k]
<1> DEFINE z == IF Len(s) < len THEN Len(s) ELSE len
<1>1. Len(s) \in Nat /\ z \in 0 .. Len(s) /\ 1 \in 1 .. Len(s) + 1
  OBVIOUS
<1>2. Prefix(s, len) = SubSeq(s, 1, z)
  BY DEF Prefix
<1> HIDE DEF z
<1>3. SubSeq(s, 1, z) \in Seq(Nat) /\ Len(SubSeq(s, 1, z)) = z
  BY <1>1
<1>4. \A k \in 1 .. z : SubSeq(s, 1, z)[k] = s[k]
  BY <1>1
<1> QED
  BY <1>2, <1>3, <1>4 DEF z

----------------------------------------------------------------------------
(* Copies.                                                                 *)

\* A store just behind what is already placed extends it.
LEMMA PutUp ==
  ASSUME StringsAssumption, NEW m \in [Address -> Byte], NEW x \in Nat, NEW hi \in Nat, NEW v,
         NEW w \in [Address -> Byte], x + hi < M, w[x + hi] = v[hi],
         \A k \in Address \ {x + hi} : w[k] = Put(m, x, 0, hi, v)[k]
  PROVE  w = Put(m, x, 0, hi + 1, v)
<1>1. M \in Nat /\ \A k : k \in Address <=> k \in Int /\ 0 <= k /\ k < M
  BY StrConstants
<1>2. ASSUME NEW k \in Address
      PROVE  w[k] = Put(m, x, 0, hi + 1, v)[k]
  <2>1. k = x + hi => k - x = hi
    BY <1>1
  <2>2. k # x + hi => (k < x + hi <=> k < x + (hi + 1))
    BY <1>1
  <2> QED
    BY <1>1, <2>1, <2>2 DEF Put
<1> QED
  BY <1>2 DEF Put

\* So does one just before it.
LEMMA PutDown ==
  ASSUME StringsAssumption, NEW m \in [Address -> Byte], NEW x \in Nat, NEW lo \in Nat, NEW hi \in Nat,
         NEW v, lo <= hi, lo > 0, x + hi <= M
  PROVE  [Put(m, x, lo, hi, v) EXCEPT ![x + lo - 1] = v[lo - 1]] = Put(m, x, lo - 1, hi, v)
<1>1. M \in Nat /\ \A k : k \in Address <=> k \in Int /\ 0 <= k /\ k < M
  BY StrConstants
<1>2. ASSUME NEW k \in Address
      PROVE  [Put(m, x, lo, hi, v) EXCEPT ![x + lo - 1] = v[lo - 1]][k] = Put(m, x, lo - 1, hi, v)[k]
  <2>1. k = x + lo - 1 => k - x = lo - 1
    BY <1>1
  <2>2. k # x + lo - 1 => (x + lo <= k <=> x + (lo - 1) <= k)
    BY <1>1
  <2> QED
    BY <1>1, <2>1, <2>2 DEF Put
<1> QED
  BY <1>2 DEF Put

\* Before the first store the memory is as it was.
LEMMA PutNone ==
  ASSUME StringsAssumption, NEW m \in [Address -> Byte], NEW x \in Nat, NEW lo \in Nat, NEW v
  PROVE  Put(m, x, lo, lo, v) = m
<1>1. \A k : k \in Address => k \in Int
  BY StrConstants
<1> QED
  BY <1>1 DEF Put

\* What is placed has the type of the memory, and lies only where it should.
LEMMA PutIs ==
  ASSUME StringsAssumption, NEW m \in [Address -> Byte], NEW x \in Nat, NEW lo \in Nat, NEW hi \in Nat,
         NEW v \in [0 .. M -> Byte]
  PROVE  /\ Put(m, x, lo, hi, v) \in [Address -> Byte]
         /\ \A k \in Nat : k < x + lo \/ k >= x + hi => ByteAt(Put(m, x, lo, hi, v), k) = ByteAt(m, k)
<1>1. M \in Nat /\ \A k : k \in Address <=> k \in Int /\ 0 <= k /\ k < M
  BY StrConstants
<1>2. ASSUME NEW k \in Address
      PROVE  (IF x + lo <= k /\ k < x + hi THEN v[k - x] ELSE m[k]) \in Byte
  <2>1. x + lo <= k => k - x \in 0 .. M
    BY <1>1
  <2> QED
    BY <2>1
<1> QED
  BY <1>1, <1>2 DEF Put, ByteAt

\* What a copy is to leave is bytes.
LEMMA WantedIs ==
  ASSUME StringsAssumption, NEW f \in StringFn, NEW m \in [Address -> Byte], NEW y \in Nat, NEW ch \in Byte
  PROVE  /\ Wanted(f, m, y, ch) \in [0 .. M -> Byte]
         /\ f = "memset" => \A k \in 0 .. M : Wanted(f, m, y, ch)[k] = ch
         /\ f = "strncpy" => \A k \in 0 .. M :
              Wanted(f, m, y, ch)[k] = IF k < Length(m, y) THEN ByteAt(m, y + k) ELSE ZERO
<1>1. \A k \in 0 .. M : ByteAt(m, y + k) \in Byte
  BY AtIs, StrConstants
<1>2. ZERO \in Byte
  BY StrConstants
<1>3. CASE f = "memset"
  BY <1>3 DEF Wanted
<1>4. CASE f = "strncpy"
  BY <1>1, <1>2, <1>4 DEF Wanted
<1>5. CASE f \notin {"memset", "strncpy"}
  BY <1>1, <1>5 DEF Wanted
<1> QED
  BY <1>3, <1>4, <1>5

\* The other copies are to leave what is at the source.
LEMMA WantedSource ==
  ASSUME NEW f \in {"memmove", "memcpy", "strcpy"}, NEW m, NEW y, NEW ch, NEW k \in 0 .. M
  PROVE  Wanted(f, m, y, ch)[k] = ByteAt(m, y + k)
<1>1. f # "memset" /\ f # "strncpy"
  OBVIOUS
<1> QED
  BY <1>1 DEF Wanted

\* A finished copy is the memory with the right sequence in it.
LEMMA WithIsPut ==
  ASSUME StringsAssumption, NEW m \in [Address -> Byte], NEW x \in Nat, NEW s \in Seq(Nat), NEW v,
         \A k \in 1 .. Len(s) : s[k] = v[k - 1]
  PROVE  With(m, x, s) = Put(m, x, 0, Len(s), v)
<1>1. M \in Nat /\ Len(s) \in Nat /\ \A k : k \in Address <=> k \in Int /\ 0 <= k /\ k < M
  BY StrConstants
<1>2. ASSUME NEW k \in Address
      PROVE  (IF k - x + 1 \in 1 .. Len(s) THEN s[k - x + 1] ELSE m[k])
               = (IF x + 0 <= k /\ k < x + Len(s) THEN v[k - x] ELSE m[k])
  <2>1. k - x + 1 \in 1 .. Len(s) <=> x + 0 <= k /\ k < x + Len(s)
    BY <1>1
  <2>2. (k - x + 1) - 1 = k - x
    BY <1>1
  <2> QED
    BY <2>1, <2>2
<1> QED
  BY <1>2 DEF With, Put

\* The sequence that memmove and memcpy leave behind, place by place.
LEMMA CopiedBytes ==
  ASSUME StringsAssumption, NEW m \in [Address -> Byte], NEW x \in Nat, NEW y \in Nat, NEW len \in Nat,
         NEW ch \in Byte, NEW f \in {"memmove", "memcpy"}, y + len <= M
  PROVE  With(m, x, Bytes(m, y, len)) = Put(m, x, 0, len, Wanted(f, m, y, ch))
<1>1. /\ Bytes(m, y, len) \in Seq(Nat) /\ Len(Bytes(m, y, len)) = len
      /\ \A k \in 1 .. len : Bytes(m, y, len)[k] = ByteAt(m, y + k - 1)
  BY BytesIs
<1>2. ASSUME NEW k \in 1 .. len PROVE Wanted(f, m, y, ch)[k - 1] = ByteAt(m, y + k - 1)
  <2>1. k - 1 \in 0 .. M /\ y + (k - 1) = y + k - 1
    BY StrConstants
  <2>2. \A j \in 0 .. M : Wanted(f, m, y, ch)[j] = ByteAt(m, y + j)
    BY WantedSource
  <2> QED
    BY <2>1, <2>2
<1> QED
  BY <1>1, <1>2, WithIsPut

\* That of memset.
LEMMA CopiedFill ==
  ASSUME StringsAssumption, NEW m \in [Address -> Byte], NEW x \in Nat, NEW y \in Nat, NEW len \in Nat,
         NEW ch \in Byte, len <= M, NEW z, z = [k \in 1 .. len |-> ch]
  PROVE  With(m, x, z) = Put(m, x, 0, len, Wanted("memset", m, y, ch))
<1>0. M \in Nat /\ ch \in Nat
  BY StrConstants
<1>1. z \in Seq(Nat) /\ Len(z) = len /\ \A k \in 1 .. len : z[k] = ch
  BY <1>0
<1>2. ASSUME NEW k \in 1 .. len PROVE Wanted("memset", m, y, ch)[k - 1] = ch
  <2>1. k - 1 \in 0 .. M
    BY <1>0
  <2>2. \A j \in 0 .. M : Wanted("memset", m, y, ch)[j] = ch
    BY WantedIs DEF StringFn
  <2> QED
    BY <2>1, <2>2
<1> QED
  BY <1>1, <1>2, WithIsPut

\* That of strcpy: the string and its NUL.
LEMMA CopiedString ==
  ASSUME StringsAssumption, NEW m \in [Address -> Byte], NEW x \in Nat, NEW y \in Nat, NEW ch \in Byte
  PROVE  With(m, x, Append(StringAt(m, y), ZERO))
           = Put(m, x, 0, Length(m, y) + 1, Wanted("strcpy", m, y, ch))
<1>0. /\ M \in Nat /\ Length(m, y) \in Nat /\ Length(m, y) <= M /\ ch \in Nat
      /\ ZERO \in Nat /\ ByteAt(m, y + Length(m, y)) = ZERO
  BY LengthIs, StrConstants
<1> DEFINE s == StringAt(m, y)
           L == Length(m, y)
           u == Append(s, ZERO)
<1>1. s \in Seq(Nat) /\ Len(s) = L /\ \A k \in 1 .. L : s[k] = ByteAt(m, y + k - 1)
  BY StringIs
<1>2. L \in Nat /\ L <= M /\ ByteAt(m, y + L) = ZERO
  BY <1>0
<1> HIDE DEF s, L
<1>3. /\ u \in Seq(Nat) /\ Len(u) = L + 1
      /\ \A k \in 1 .. L : u[k] = s[k]
      /\ u[L + 1] = ZERO
  BY <1>0, <1>1
<1> HIDE DEF u
<1>4. ASSUME NEW k \in 1 .. L + 1 PROVE u[k] = Wanted("strcpy", m, y, ch)[k - 1]
  <2>1. /\ k - 1 \in 0 .. M /\ y + (k - 1) = y + k - 1
        /\ k \in 1 .. L \/ (k = L + 1 /\ y + k - 1 = y + L)
    BY <1>0, <1>2
  <2>3. \A j \in 0 .. M : Wanted("strcpy", m, y, ch)[j] = ByteAt(m, y + j)
    BY WantedSource
  <2>4. Wanted("strcpy", m, y, ch)[k - 1] = ByteAt(m, y + k - 1)
    BY <2>1, <2>3
  <2> QED
    BY <1>1, <1>2, <1>3, <2>1, <2>4
<1>5. With(m, x, u) = Put(m, x, 0, L + 1, Wanted("strcpy", m, y, ch))
  <2>1. \A k \in 1 .. Len(u) : u[k] = Wanted("strcpy", m, y, ch)[k - 1]
    BY <1>3, <1>4
  <2>2. With(m, x, u) = Put(m, x, 0, Len(u), Wanted("strcpy", m, y, ch))
    BY <1>3, <2>1, WithIsPut
  <2> QED
    BY <1>3, <2>2
<1> QED
  BY <1>5 DEF s, L, u

\* That of strncpy: the string cut off, or filled up with NUL.
LEMMA CopiedPadded ==
  ASSUME StringsAssumption, NEW m \in [Address -> Byte], NEW x \in Nat, NEW y \in Nat, NEW len \in Nat,
         NEW ch \in Byte, len <= M
  PROVE  With(m, x, Prefix(StringAt(m, y) \o [k \in 1 .. len |-> ZERO], len))
           = Put(m, x, 0, len, Wanted("strncpy", m, y, ch))
<1>0. /\ M \in Nat /\ Length(m, y) \in Nat /\ Length(m, y) <= M /\ ch \in Nat
      /\ ZERO \in Nat /\ ByteAt(m, y + Length(m, y)) = ZERO
  BY LengthIs, StrConstants
<1> DEFINE s == StringAt(m, y)
           L == Length(m, y)
           z == [k \in 1 .. len |-> ZERO]
           t == s \o z
           u == Prefix(t, len)
<1>1. s \in Seq(Nat) /\ Len(s) = L /\ \A k \in 1 .. L : s[k] = ByteAt(m, y + k - 1)
  BY StringIs
<1>2. L \in Nat /\ L <= M
  BY <1>0
<1>3. z \in Seq(Nat) /\ Len(z) = len /\ \A k \in 1 .. len : z[k] = ZERO
  BY <1>0
<1> HIDE DEF s, L, z
<1>4. /\ t \in Seq(Nat) /\ Len(t) = L + len
      /\ \A k \in 1 .. L + len : t[k] = IF k <= L THEN s[k] ELSE z[k - L]
  <2>1. /\ t \in Seq(Nat) /\ Len(t) = Len(s) + Len(z)
        /\ \A k \in 1 .. Len(s) + Len(z) : t[k] = IF k <= Len(s) THEN s[k] ELSE z[k - Len(s)]
    BY <1>1, <1>3, ConcatProperties
  <2> HIDE DEF t
  <2> QED
    BY <1>1, <1>3, <2>1
<1> HIDE DEF t
<1>5. /\ u \in Seq(Nat) /\ Len(u) = len
      /\ \A k \in 1 .. len : u[k] = t[k]
  <2>1. (IF Len(t) < len THEN Len(t) ELSE len) = len
    BY <1>2, <1>4
  <2> QED
    BY <1>4, <2>1, PrefixIs
<1> HIDE DEF u
<1>6. ASSUME NEW k \in 1 .. len PROVE u[k] = Wanted("strncpy", m, y, ch)[k - 1]
  <2>1. /\ k - 1 \in 0 .. M /\ y + (k - 1) = y + k - 1 /\ k \in 1 .. L + len
        /\ k - 1 < L <=> k <= L
        /\ k <= L => k \in 1 .. L
        /\ ~ (k <= L) => k - L \in 1 .. len
    BY <1>0, <1>2
  <2>2. \A j \in 0 .. M : Wanted("strncpy", m, y, ch)[j] = IF j < L THEN ByteAt(m, y + j) ELSE ZERO
    BY WantedIs DEF L, StringFn
  <2>3. Wanted("strncpy", m, y, ch)[k - 1] = IF k - 1 < L THEN ByteAt(m, y + (k - 1)) ELSE ZERO
    BY <2>1, <2>2
  <2> QED
    BY <1>1, <1>3, <1>4, <1>5, <2>1, <2>3
<1>7. With(m, x, u) = Put(m, x, 0, len, Wanted("strncpy", m, y, ch))
  BY <1>5, <1>6, WithIsPut
<1> QED
  BY <1>7 DEF s, z, t, u

----------------------------------------------------------------------------
(* What every step shares.                                                 *)

\* The calls C allows, function by function.
LEMMA LegalIs ==
  ASSUME LegalCall
  PROVE  /\ fn = "memmove" => a + n <= M /\ b + n <= M
         /\ fn = "memcpy" => a + n <= M /\ b + n <= M /\ (a + n <= b \/ b + n <= a)
         /\ fn = "memcmp" => a + n <= M /\ b + n <= M
         /\ fn \in {"memset", "memchr", "strnlen"} => a + n <= M
         /\ fn \in {"strlen", "strchr", "strrchr"} => a + Length(mem0, a) < M
         /\ fn \in {"strcmp", "strncmp"} => a + Length(mem0, a) < M /\ b + Length(mem0, b) < M
         /\ fn = "strcpy" => /\ b + Length(mem0, b) < M /\ a + (Length(mem0, b) + 1) <= M
                             /\ \/ a + (Length(mem0, b) + 1) <= b
                                \/ b + (Length(mem0, b) + 1) <= a
         /\ fn = "strncpy" => /\ b + Length(mem0, b) < M /\ a + n <= M
                              /\ a + n <= b \/ b + Length(mem0, b) + 1 <= a
         /\ fn = "shell_parse_line" => a = 0 /\ a + Length(mem0, a) < M
<1>1. CASE fn = "memmove"
  BY <1>1 DEF LegalCall, Legal
<1>2. CASE fn = "memcpy"
  BY <1>2 DEF LegalCall, Legal
<1>3. CASE fn = "memcmp"
  BY <1>3 DEF LegalCall, Legal
<1>4. CASE fn \in {"memset", "memchr", "strnlen"}
  BY <1>4 DEF LegalCall, Legal
<1>5. CASE fn \in {"strlen", "strchr", "strrchr"}
  BY <1>5 DEF LegalCall, Legal
<1>6. CASE fn \in {"strcmp", "strncmp"}
  BY <1>6 DEF LegalCall, Legal
<1>7. CASE fn = "strcpy"
  BY <1>7 DEF LegalCall, Legal
<1>8. CASE fn = "strncpy"
  BY <1>8 DEF LegalCall, Legal
<1>9. CASE fn = "shell_parse_line"
  BY <1>9 DEF LegalCall, Legal
<1> QED
  BY <1>1, <1>2, <1>3, <1>4, <1>5, <1>6, <1>7, <1>8, <1>9

\* The variables, in the form the steps use.
LEMMA TypesOf ==
  ASSUME StringsAssumption, StrInv
  PROVE  /\ mem \in [Address -> Byte] /\ mem0 \in [Address -> Byte] /\ M \in Nat
         /\ a \in Nat /\ a < M /\ b \in Nat /\ b < M /\ n \in Nat /\ n <= M /\ c \in Byte /\ c \in Nat
         /\ i \in Nat /\ fn \in StringFn
BY StrConstants DEF StrInv, StrTypeOK

\* The call stays as it is.
LEMMA CallKept ==
  ASSUME StrInv, SameCall, mem' \in [Address -> Byte], i' \in Nat
  PROVE  /\ StrTypeOK' /\ LegalCall'
         /\ mem0' = mem0 /\ fn' = fn /\ a' = a /\ b' = b /\ n' = n /\ c' = c
BY DEF StrInv, StrTypeOK, LegalCall, SameCall

\* A function that has returned has no loop.
LEMMA Returned ==
  ASSUME value' # <<>>
  PROVE  (InvCount /\ InvCopy /\ InvString /\ InvSame /\ InvNot /\ InvLast /\ InvRead)'
BY DEF InvCount, InvCopy, InvString, InvSame, InvNot, InvLast, InvRead

\* A function that runs has left no result.
LEMMA Running ==
  ASSUME value' = <<>>
  PROVE  (CopiesExact /\ SearchesExact /\ InvArgv)'
BY DEF CopiesExact, SearchesExact, InvArgv

\* The invariants of shell_parse_line are about no other function.
LEMMA NotParsing ==
  ASSUME fn' # "shell_parse_line"
  PROVE  InvParse' /\ InvArgv'
BY DEF InvParse, InvArgv

\* Nor are those of the searches about a copy.
LEMMA OnlyCopying ==
  ASSUME fn' \in CopyFn
  PROVE  (InvSame /\ InvNot /\ InvLast /\ InvRead /\ InvParse /\ InvArgv /\ SearchesExact)'
<1>1. /\ fn' \notin {"memcmp", "strcmp", "strncmp"} /\ fn' \notin {"memchr", "strchr"}
      /\ fn' # "strrchr" /\ fn' # "shell_parse_line"
  BY DEF CopyFn
<1>2. SearchesExact'
  BY DEF CopyFn, SearchesExact
<1> QED
  BY <1>1, <1>2 DEF InvSame, InvNot, InvLast, InvRead, InvParse, InvArgv

\* Nor is that of the copies about a search.
LEMMA OnlySearching ==
  ASSUME fn' \notin CopyFn, fn' # "shell_parse_line"
  PROVE  InvCopy' /\ InvParse' /\ InvArgv' /\ (mem' = mem0' => CopiesExact')
<1>1. mem' = mem0' => CopiesExact'
  BY DEF CopyFn, CopiesExact
<1> QED
  BY <1>1 DEF InvCopy, InvParse, InvArgv

----------------------------------------------------------------------------
(* The copies.                                                             *)

\* One iteration that stores what is wanted behind what is copied.
LEMMA CopyStep ==
  ASSUME StringsAssumption, StrInv, value = <<>>, fn \in CopyFn, ~ Backward, a + i < M, i <= M,
         Store(a + i, Wanted(fn, mem0, b, c)[i])
  PROVE  /\ mem' = Put(mem0, a, 0, i + 1, Wanted(fn, mem0, b, c))
         /\ mem' \in [Address -> Byte]
<1>1. mem = Put(mem0, a, 0, i, Wanted(fn, mem0, b, c))
  BY DEF StrInv, InvCopy
<1> DEFINE v == Wanted(fn, mem0, b, c)
<1>2. v \in [0 .. M -> Byte]
  BY TypesOf, WantedIs
<1>3. mem = Put(mem0, a, 0, i, v) /\ mem' = [mem EXCEPT ![a + i] = v[i]]
  BY <1>1 DEF Store
<1> HIDE DEF v
<1>4. /\ i \in Nat /\ i \in 0 .. M /\ a \in Nat /\ mem0 \in [Address -> Byte] /\ a + i \in Address
      /\ mem \in [Address -> Byte] /\ v[i] \in Byte
  <2>1. /\ i \in Nat /\ a \in Nat /\ mem0 \in [Address -> Byte] /\ mem \in [Address -> Byte]
        /\ M \in Nat
    BY TypesOf
  <2>2. i \in 0 .. M /\ a + i \in Int /\ 0 <= a + i
    BY <2>1
  <2>3. a + i \in Address
    BY <2>2, StrConstants
  <2> QED
    BY <1>2, <2>1, <2>2, <2>3
<1>5. /\ mem' \in [Address -> Byte] /\ mem'[a + i] = v[i]
      /\ \A k \in Address \ {a + i} : mem'[k] = mem[k]
  BY ONLY <1>3, <1>4
<1>6. mem' = Put(mem0, a, 0, i + 1, v)
  <2>1. \A k \in Address \ {a + i} : mem'[k] = Put(mem0, a, 0, i, v)[k]
    BY <1>3, <1>5
  <2> QED
    BY <1>4, <1>5, <2>1, PutUp
<1> QED
  BY <1>5, <1>6 DEF v

\* The source of a copy, away from what is copied, is as it was at the call.
LEMMA SourceKept ==
  ASSUME StringsAssumption, StrInv, value = <<>>, fn \in CopyFn, NEW k \in Nat,
         IF Backward THEN k < a + i ELSE k < a \/ k >= a + i
  PROVE  ByteAt(mem, k) = ByteAt(mem0, k)
<1> DEFINE v == Wanted(fn, mem0, b, c)
<1>1. v \in [0 .. M -> Byte]
  BY TypesOf, WantedIs
<1>2. mem = IF Backward THEN Put(mem0, a, i, n, v) ELSE Put(mem0, a, 0, i, v)
  BY DEF StrInv, InvCopy
<1>3. mem0 \in [Address -> Byte] /\ a \in Nat /\ i \in Nat /\ n \in Nat /\ 0 \in Nat /\ a + 0 = a
  BY TypesOf
<1> HIDE DEF v
<1>4. CASE Backward
  BY <1>1, <1>2, <1>3, <1>4, PutIs
<1>5. CASE ~ Backward
  BY <1>1, <1>2, <1>3, <1>5, PutIs
<1> QED
  BY <1>4, <1>5

\* A forward copy that goes on.
LEMMA CopyGoesOn ==
  ASSUME StringsAssumption, StrInv, value = <<>>, fn \in CopyFn, ~ Backward, Loop,
         mem' = Put(mem0, a, 0, i + 1, Wanted(fn, mem0, b, c)), mem' \in [Address -> Byte],
         fn \in CountFn => i + 1 <= n,
         fn = "strcpy" => ByteAt(mem0, b + i) # ZERO
  PROVE  StrInv'
<1>1. i' = i + 1 /\ value' = <<>> /\ SameCall
  BY DEF Loop
<1>2. i \in Nat /\ i' \in Nat
  BY <1>1, TypesOf
<1>3. /\ StrTypeOK' /\ LegalCall'
      /\ mem0' = mem0 /\ fn' = fn /\ a' = a /\ b' = b /\ n' = n /\ c' = c
  BY <1>1, <1>2, CallKept
<1>4. (InvSame /\ InvNot /\ InvLast /\ InvRead /\ InvParse /\ InvArgv /\ SearchesExact)'
  BY <1>3, OnlyCopying
<1>5. (CopiesExact /\ SearchesExact)'
  BY <1>1, Running
<1>6. InvCount'
  BY <1>1, <1>3 DEF InvCount
<1>7. InvCopy'
  BY <1>1, <1>3 DEF InvCopy, Backward
<1>8. InvString'
  <2>1. fn' \notin {"strlen", "strnlen", "strcmp", "strncmp", "strchr", "strrchr"}
    BY <1>3 DEF CopyFn
  <2>2. fn = "strcpy" => \A j \in 0 .. i - 1 : ByteAt(mem0, b + j) # ZERO
    BY DEF StrInv, InvString
  <2>3. \A j \in 0 .. i' - 1 : j \in 0 .. i - 1 \/ j = i
    BY <1>1, <1>2
  <2>4. fn = "strcpy" => \A j \in 0 .. i' - 1 : ByteAt(mem0, b + j) # ZERO
    BY <2>2, <2>3
  <2> QED
    BY <1>3, <2>1, <2>4 DEF InvString
<1> QED
  BY <1>3, <1>4, <1>5, <1>6, <1>7, <1>8 DEF StrInv

\* A copy that returns the memory it should.
LEMMA CopyReturns ==
  ASSUME StrInv, SameCall, fn \in CopyFn, mem' \in [Address -> Byte], i' \in Nat, value' # <<>>,
         mem' = CASE fn \in {"memmove", "memcpy"} -> With(mem0, a, Bytes(mem0, b, n))
                  [] fn = "memset" -> With(mem0, a, [k \in 1 .. n |-> c])
                  [] fn = "strcpy" -> With(mem0, a, Append(StringAt(mem0, b), ZERO))
                  [] OTHER -> With(mem0, a, Prefix(StringAt(mem0, b) \o [k \in 1 .. n |-> ZERO], n))
  PROVE  StrInv'
<1>1. /\ StrTypeOK' /\ LegalCall'
      /\ mem0' = mem0 /\ fn' = fn /\ a' = a /\ b' = b /\ n' = n /\ c' = c
  BY CallKept
<1>2. (InvSame /\ InvNot /\ InvLast /\ InvRead /\ InvParse /\ InvArgv /\ SearchesExact)'
  BY <1>1, OnlyCopying
<1>3. (InvCount /\ InvCopy /\ InvString)'
  BY Returned
<1>4. CopiesExact'
  BY <1>1 DEF CopiesExact, CopyFn
<1> QED
  BY <1>1, <1>2, <1>3, <1>4 DEF StrInv

\* Return changes only value.
LEMMA ReturnIs ==
  ASSUME StringsAssumption, StrInv, NEW r, Returns(r)
  PROVE  /\ value' = <<r>> /\ value' # <<>> /\ value'[1] = r /\ mem' = mem /\ i' = i /\ last' = last /\ SameCall
         /\ mem' \in [Address -> Byte] /\ i' \in Nat
<1>1. value' = <<r>> /\ mem' = mem /\ i' = i /\ last' = last /\ SameCall
  BY DEF Returns
<1> QED
  BY <1>1, TypesOf

\* Every iteration of memmove, in either direction.
LEMMA MemmoveInv ==
  ASSUME StringsAssumption, StrInv, memmove
  PROVE  StrInv'
<1>1. fn = "memmove" /\ value = <<>> /\ fn \in CopyFn /\ fn \in CountFn
  BY DEF memmove, Runs, CopyFn, CountFn
<1>2. /\ a \in Nat /\ b \in Nat /\ n \in Nat /\ i \in Nat /\ M \in Nat /\ i <= n /\ n <= M
      /\ a + n <= M /\ b + n <= M /\ a < M
      /\ mem0 \in [Address -> Byte] /\ mem \in [Address -> Byte] /\ c \in Byte
  BY <1>1, TypesOf, LegalIs DEF StrInv, InvCount
<1> DEFINE v == Wanted(fn, mem0, b, c)
<1>3. v \in [0 .. M -> Byte] /\ \A k \in 0 .. M : v[k] = ByteAt(mem0, b + k)
  <2>1. v \in [0 .. M -> Byte]
    BY TypesOf, WantedIs
  <2>2. fn \in {"memmove", "memcpy", "strcpy"}
    BY <1>1
  <2>3. \A k \in 0 .. M : v[k] = ByteAt(mem0, b + k)
    BY <2>2, WantedSource
  <2> QED
    BY <2>1, <2>3
<1>4. mem = IF Backward THEN Put(mem0, a, i, n, v) ELSE Put(mem0, a, 0, i, v)
  BY <1>1 DEF StrInv, InvCopy
<1>5. Backward <=> a > b
  BY <1>1 DEF Backward
<1>6. With(mem0, a, Bytes(mem0, b, n)) = Put(mem0, a, 0, n, v)
  <2>1. fn \in {"memmove", "memcpy"}
    BY <1>1
  <2> QED
    BY <1>2, <2>1, CopiedBytes DEF v
<1> HIDE DEF v
<1>7. CASE a = b \/ (IF Backward THEN i = 0 ELSE i = n)
  <2>1. Returns(a)
    BY <1>7 DEF memmove
  <2>2. mem = Put(mem0, a, 0, n, v)
    <3>1. CASE a = b
      <4>1. ASSUME NEW h \in Nat, h <= n PROVE Put(mem0, a, 0, h, v) = mem0
        <5>1. ASSUME NEW k \in Address, a + 0 <= k, k < a + h PROVE v[k - a] = mem0[k]
          <6>1. k - a \in 0 .. M /\ b + (k - a) = k /\ k \in Nat /\ k < M
            BY <1>2, <3>1, <4>1, <5>1, StrConstants
          <6>2. v[k - a] = ByteAt(mem0, k)
            BY <1>3, <6>1
          <6>3. ByteAt(mem0, k) = mem0[k]
            BY <1>2, <6>1, AtIs
          <6> QED
            BY <6>2, <6>3
        <5> QED
          BY <1>2, <5>1 DEF Put
      <4>2. ~ Backward
        BY <1>2, <1>5, <3>1
      <4> QED
        BY <1>2, <1>4, <4>1, <4>2
    <3>2. CASE a # b
      BY <1>4, <1>7, <3>2
    <3> QED
      BY <3>1, <3>2
  <2> QED
    BY <1>1, <1>6, <2>1, <2>2, ReturnIs, CopyReturns
<1>8. CASE ~ (a = b \/ (IF Backward THEN i = 0 ELSE i = n)) /\ Backward
  <2>1. /\ mem' = [mem EXCEPT ![a + i - 1] = mem[b + i - 1]]
        /\ i' = i - 1 /\ value' = <<>> /\ SameCall
    BY <1>1, <1>8 DEF memmove, Store
  <2>2. i > 0 /\ i - 1 \in Nat /\ i - 1 \in 0 .. M /\ b + (i - 1) = b + i - 1 /\ b + i - 1 \in Nat
        /\ b + i - 1 < M /\ b + i - 1 < a + i
    BY <1>2, <1>5, <1>8
  <2>3. mem[b + i - 1] = v[i - 1]
    <3>1. ByteAt(mem, b + i - 1) = ByteAt(mem0, b + i - 1)
      BY <1>1, <1>8, <2>2, SourceKept
    <3>2. ByteAt(mem, b + i - 1) = mem[b + i - 1]
      BY <1>2, <2>2, AtIs
    <3> QED
      BY <1>3, <2>2, <3>1, <3>2
  <2>4. mem' = Put(mem0, a, i - 1, n, v)
    <3>1. [Put(mem0, a, i, n, v) EXCEPT ![a + i - 1] = v[i - 1]] = Put(mem0, a, i - 1, n, v)
      BY <1>2, <2>2, PutDown
    <3> QED
      BY <1>4, <1>8, <2>1, <2>3, <3>1
  <2>5. mem' \in [Address -> Byte] /\ i' \in Nat
    <3>1. Put(mem0, a, i - 1, n, v) \in [Address -> Byte]
      BY <1>2, <1>3, <2>2, PutIs
    <3> QED
      BY <2>1, <2>2, <2>4, <3>1
  <2>6. /\ StrTypeOK' /\ LegalCall'
        /\ mem0' = mem0 /\ fn' = fn /\ a' = a /\ b' = b /\ n' = n /\ c' = c
    BY <2>1, <2>5, CallKept
  <2>7. (InvSame /\ InvNot /\ InvLast /\ InvRead /\ InvParse /\ InvArgv /\ SearchesExact)'
    BY <1>1, <2>6, OnlyCopying
  <2>8. CopiesExact'
    BY <2>1, Running
  <2>9. InvCount'
    BY <1>2, <2>1, <2>6 DEF InvCount
  <2>10. InvCopy'
    BY <1>5, <1>8, <2>1, <2>4, <2>6 DEF InvCopy, Backward, v
  <2>11. InvString'
    BY <1>1, <2>6 DEF InvString
  <2> QED
    BY <2>6, <2>7, <2>8, <2>9, <2>10, <2>11 DEF StrInv
<1>9. CASE ~ (a = b \/ (IF Backward THEN i = 0 ELSE i = n)) /\ ~ Backward
  <2>1. Store(a + i, Y) /\ Loop
    BY <1>9 DEF memmove
  <2>2. i \in 0 .. M /\ a + i < M /\ b + i \in Nat /\ b + i >= a + i /\ i + 1 <= n /\ i <= M
    BY <1>2, <1>5, <1>9
  <2>3. Y = v[i]
    BY <1>1, <1>3, <1>9, <2>2, SourceKept DEF Y
  <2>4. /\ mem' = Put(mem0, a, 0, i + 1, v)
        /\ mem' \in [Address -> Byte]
    BY <1>1, <1>9, <2>1, <2>2, <2>3, CopyStep DEF v
  <2> QED
    BY <1>1, <1>9, <2>1, <2>2, <2>4, CopyGoesOn DEF v
<1> QED
  BY <1>7, <1>8, <1>9

\* Every iteration of memcpy: the regions do not overlap.
LEMMA MemcpyInv ==
  ASSUME StringsAssumption, StrInv, memcpy
  PROVE  StrInv'
<1>1. fn = "memcpy" /\ value = <<>> /\ fn \in CopyFn /\ fn \in CountFn /\ ~ Backward
  BY DEF memcpy, Runs, CopyFn, CountFn, Backward
<1>2. /\ a \in Nat /\ b \in Nat /\ n \in Nat /\ i \in Nat /\ M \in Nat /\ i <= n /\ n <= M
      /\ a + n <= M /\ b + n <= M /\ a < M /\ (a + n <= b \/ b + n <= a)
      /\ mem0 \in [Address -> Byte] /\ mem \in [Address -> Byte] /\ c \in Byte
  BY <1>1, TypesOf, LegalIs DEF StrInv, InvCount
<1> DEFINE v == Wanted(fn, mem0, b, c)
<1>3. \A k \in 0 .. M : v[k] = ByteAt(mem0, b + k)
  <2>1. fn \in {"memmove", "memcpy", "strcpy"}
    BY <1>1
  <2> QED
    BY <2>1, WantedSource
<1>4. With(mem0, a, Bytes(mem0, b, n)) = Put(mem0, a, 0, n, v)
  <2>1. fn \in {"memmove", "memcpy"}
    BY <1>1
  <2> QED
    BY <1>2, <2>1, CopiedBytes DEF v
<1>5. mem = Put(mem0, a, 0, i, v)
  BY <1>1 DEF StrInv, InvCopy
<1> HIDE DEF v
<1>6. CASE i = n
  <2>1. Returns(a)
    BY <1>6 DEF memcpy
  <2> QED
    BY <1>1, <1>4, <1>5, <1>6, <2>1, ReturnIs, CopyReturns
<1>7. CASE i # n
  <2>1. Store(a + i, Y) /\ Loop
    BY <1>7 DEF memcpy
  <2>2. /\ i \in 0 .. M /\ a + i < M /\ b + i \in Nat /\ (b + i < a \/ b + i >= a + i)
        /\ i + 1 <= n /\ i <= M
    BY <1>2, <1>7
  <2>3. Y = v[i]
    BY <1>1, <1>3, <2>2, SourceKept DEF Y
  <2>4. mem' = Put(mem0, a, 0, i + 1, v) /\ mem' \in [Address -> Byte]
    BY <1>1, <2>1, <2>2, <2>3, CopyStep DEF v
  <2> QED
    BY <1>1, <2>1, <2>2, <2>4, CopyGoesOn DEF v
<1> QED
  BY <1>6, <1>7

\* Every iteration of memset.
LEMMA MemsetInv ==
  ASSUME StringsAssumption, StrInv, memset
  PROVE  StrInv'
<1>1. fn = "memset" /\ value = <<>> /\ fn \in CopyFn /\ fn \in CountFn /\ ~ Backward
  BY DEF memset, Runs, CopyFn, CountFn, Backward
<1>2. /\ a \in Nat /\ b \in Nat /\ n \in Nat /\ i \in Nat /\ M \in Nat /\ i <= n /\ n <= M
      /\ a + n <= M /\ a < M
      /\ mem0 \in [Address -> Byte] /\ mem \in [Address -> Byte] /\ c \in Byte
  BY <1>1, TypesOf, LegalIs DEF StrInv, InvCount
<1> DEFINE v == Wanted(fn, mem0, b, c)
<1>3. \A k \in 0 .. M : v[k] = c
  BY <1>1, <1>2, WantedIs DEF StringFn
<1>4. With(mem0, a, [k \in 1 .. n |-> c]) = Put(mem0, a, 0, n, v)
  <2> DEFINE z == [k \in 1 .. n |-> c]
  <2>1. z = [k \in 1 .. n |-> c]
    OBVIOUS
  <2> HIDE DEF z
  <2>2. With(mem0, a, z) = Put(mem0, a, 0, n, Wanted("memset", mem0, b, c))
    BY <1>2, <2>1, CopiedFill
  <2> QED
    BY <1>1, <2>2 DEF z
<1>5. mem = Put(mem0, a, 0, i, v)
  BY <1>1 DEF StrInv, InvCopy
<1> HIDE DEF v
<1>6. CASE i = n
  <2>1. Returns(a)
    BY <1>6 DEF memset
  <2>2. mem = CASE fn \in {"memmove", "memcpy"} -> With(mem0, a, Bytes(mem0, b, n))
                [] fn = "memset" -> With(mem0, a, [k \in 1 .. n |-> c])
                [] fn = "strcpy" -> With(mem0, a, Append(StringAt(mem0, b), ZERO))
                [] OTHER -> With(mem0, a, Prefix(StringAt(mem0, b) \o [k \in 1 .. n |-> ZERO], n))
    BY <1>1, <1>4, <1>5, <1>6
  <2> QED
    BY <1>1, <2>1, <2>2, ReturnIs, CopyReturns
<1>7. CASE i # n
  <2>1. Store(a + i, c) /\ Loop
    BY <1>7 DEF memset
  <2>2. i \in 0 .. M /\ a + i < M /\ i + 1 <= n /\ i <= M
    BY <1>2, <1>7
  <2>3. mem' = Put(mem0, a, 0, i + 1, v) /\ mem' \in [Address -> Byte]
    <3>1. c = v[i]
      BY <1>3, <2>2
    <3> QED
      BY <1>1, <2>1, <2>2, <3>1, CopyStep DEF v
  <2> QED
    BY <1>1, <2>1, <2>2, <2>3, CopyGoesOn DEF v
<1> QED
  BY <1>6, <1>7

\* Every iteration of strcpy, the one that copies the NUL included.
LEMMA StrcpyInv ==
  ASSUME StringsAssumption, StrInv, strcpy
  PROVE  StrInv'
<1>1. fn = "strcpy" /\ value = <<>> /\ fn \in CopyFn /\ fn \notin CountFn /\ ~ Backward
  BY DEF strcpy, Runs, CopyFn, CountFn, Backward
<1> DEFINE L == Length(mem0, b)
           v == Wanted(fn, mem0, b, c)
<1>2. /\ a \in Nat /\ b \in Nat /\ i \in Nat /\ M \in Nat /\ a < M /\ n \in Nat
      /\ mem0 \in [Address -> Byte] /\ mem \in [Address -> Byte] /\ c \in Byte
  BY TypesOf
<1>3. L \in 0 .. M /\ b + L < M /\ a + (L + 1) <= M /\ (a + (L + 1) <= b \/ b + (L + 1) <= a)
  BY <1>1, <1>2, LegalIs, LengthIs DEF StrInv
<1>4. i <= L /\ (ByteAt(mem0, b + i) = ZERO <=> i = L)
  <2>1. \A j \in 0 .. i - 1 : ByteAt(mem0, b + j) # ZERO
    BY <1>1 DEF StrInv, InvString
  <2> QED
    BY <1>2, <2>1, LengthOnly
<1>5. \A k \in 0 .. M : v[k] = ByteAt(mem0, b + k)
  <2>1. fn \in {"memmove", "memcpy", "strcpy"}
    BY <1>1
  <2> QED
    BY <2>1, WantedSource
<1>6. With(mem0, a, Append(StringAt(mem0, b), ZERO)) = Put(mem0, a, 0, L + 1, v)
  <2>1. With(mem0, a, Append(StringAt(mem0, b), ZERO))
          = Put(mem0, a, 0, L + 1, Wanted("strcpy", mem0, b, c))
    BY <1>2, CopiedString
  <2> QED
    BY <1>1, <2>1
<1> HIDE DEF v, L
<1>7. /\ i \in 0 .. M /\ a + i < M /\ b + i \in Nat /\ (b + i < a \/ b + i >= a + i) /\ i <= M
  BY <1>2, <1>3, <1>4
<1>8. Y = v[i] /\ Y = ByteAt(mem0, b + i)
  BY <1>1, <1>5, <1>7, SourceKept DEF Y
<1>9. mem' = Put(mem0, a, 0, i + 1, v) /\ mem' \in [Address -> Byte]
  <2>1. Store(a + i, Y)
    BY DEF strcpy
  <2> QED
    BY <1>1, <1>7, <1>8, <2>1, CopyStep DEF v
<1>10. CASE Y = ZERO
  <2>1. value' = <<a>> /\ i' = i /\ SameCall
    BY <1>10 DEF strcpy
  <2>2. i = L
    BY <1>4, <1>8, <1>10
  <2>3. mem' = CASE fn \in {"memmove", "memcpy"} -> With(mem0, a, Bytes(mem0, b, n))
                 [] fn = "memset" -> With(mem0, a, [k \in 1 .. n |-> c])
                 [] fn = "strcpy" -> With(mem0, a, Append(StringAt(mem0, b), ZERO))
                 [] OTHER -> With(mem0, a, Prefix(StringAt(mem0, b) \o [k \in 1 .. n |-> ZERO], n))
    BY <1>1, <1>6, <1>9, <2>2
  <2>4. value' # <<>> /\ i' \in Nat
    BY <1>2, <2>1
  <2> QED
    BY <1>1, <1>9, <2>1, <2>3, <2>4, CopyReturns
<1>11. CASE Y # ZERO
  <2>1. Loop
    BY <1>11 DEF strcpy
  <2> QED
    BY <1>1, <1>8, <1>9, <1>11, <2>1, CopyGoesOn DEF v
<1> QED
  BY <1>10, <1>11

\* Every iteration of strncpy, before and behind the end of the source.
LEMMA StrncpyInv ==
  ASSUME StringsAssumption, StrInv, strncpy
  PROVE  StrInv'
<1>1. fn = "strncpy" /\ value = <<>> /\ fn \in CopyFn /\ fn \in CountFn /\ ~ Backward
  BY DEF strncpy, Runs, CopyFn, CountFn, Backward
<1> DEFINE L == Length(mem0, b)
           v == Wanted(fn, mem0, b, c)
<1>2. /\ a \in Nat /\ b \in Nat /\ n \in Nat /\ i \in Nat /\ M \in Nat /\ i <= n /\ n <= M
      /\ a + n <= M /\ a < M
      /\ mem0 \in [Address -> Byte] /\ mem \in [Address -> Byte] /\ c \in Byte
  BY <1>1, TypesOf, LegalIs DEF StrInv, InvCount
<1>3. /\ L \in 0 .. M /\ ByteAt(mem0, b + L) = ZERO /\ (a + n <= b \/ b + L + 1 <= a)
      /\ \A j \in 0 .. L - 1 : ByteAt(mem0, b + j) # ZERO
  BY <1>1, <1>2, LegalIs, LengthIs DEF StrInv
<1>4. \A k \in 0 .. M : v[k] = IF k < L THEN ByteAt(mem0, b + k) ELSE ZERO
  BY <1>1, <1>2, WantedIs DEF StringFn
<1>5. With(mem0, a, Prefix(StringAt(mem0, b) \o [k \in 1 .. n |-> ZERO], n)) = Put(mem0, a, 0, n, v)
  <2>1. With(mem0, a, Prefix(StringAt(mem0, b) \o [k \in 1 .. n |-> ZERO], n))
          = Put(mem0, a, 0, n, Wanted("strncpy", mem0, b, c))
    BY <1>2, CopiedPadded
  <2> QED
    BY <1>1, <2>1
<1>6. mem = Put(mem0, a, 0, i, v)
  BY <1>1 DEF StrInv, InvCopy
<1> HIDE DEF v, L
<1>7. CASE i = n
  <2>1. Returns(a)
    BY <1>7 DEF strncpy
  <2>2. mem = CASE fn \in {"memmove", "memcpy"} -> With(mem0, a, Bytes(mem0, b, n))
                [] fn = "memset" -> With(mem0, a, [k \in 1 .. n |-> c])
                [] fn = "strcpy" -> With(mem0, a, Append(StringAt(mem0, b), ZERO))
                [] OTHER -> With(mem0, a, Prefix(StringAt(mem0, b) \o [k \in 1 .. n |-> ZERO], n))
    BY <1>1, <1>5, <1>6, <1>7
  <2> QED
    BY <1>1, <2>1, <2>2, ReturnIs, CopyReturns
<1>8. CASE i # n
  <2> DEFINE z == IF \E k \in 0 .. i : ByteAt(mem, b + k) = ZERO THEN ZERO ELSE Y
  <2>1. Store(a + i, z) /\ Loop
    BY <1>8 DEF strncpy
  <2>2. i \in 0 .. M /\ a + i < M /\ b + i \in Nat /\ i + 1 <= n /\ i <= M
    BY <1>2, <1>8
  <2>3. \A k \in Nat : k <= i /\ k <= L => ByteAt(mem, b + k) = ByteAt(mem0, b + k)
    <3>1. ASSUME NEW k \in Nat, k <= i, k <= L PROVE ByteAt(mem, b + k) = ByteAt(mem0, b + k)
      <4>1. b + k \in Nat /\ (b + k < a \/ b + k >= a + i)
        BY <1>2, <1>3, <1>8, <3>1
      <4> QED
        BY <1>1, <4>1, SourceKept
    <3> QED
      BY <3>1
  <2>4. z = v[i]
    <3>1. CASE i < L
      <4>1. ASSUME NEW k \in 0 .. i PROVE ByteAt(mem, b + k) # ZERO
        <5>1. k \in Nat /\ k <= i /\ k <= L /\ k \in 0 .. L - 1
          BY <1>2, <1>3, <3>1
        <5> QED
          BY <1>3, <2>3, <5>1
      <4>2. Y = ByteAt(mem0, b + i)
        BY <1>2, <1>3, <2>3, <3>1 DEF Y
      <4>3. v[i] = ByteAt(mem0, b + i)
        BY <1>4, <2>2, <3>1
      <4> QED
        BY <4>1, <4>2, <4>3
    <3>2. CASE ~ (i < L)
      <4>1. L \in Nat /\ L <= i /\ L <= L /\ L \in 0 .. i
        BY <1>2, <1>3, <3>2
      <4>2. ByteAt(mem, b + L) = ZERO
        BY <1>3, <2>3, <4>1
      <4>3. v[i] = ZERO
        BY <1>4, <2>2, <3>2
      <4> QED
        BY <4>1, <4>2, <4>3
    <3> QED
      BY <3>1, <3>2
  <2> HIDE DEF z
  <2>5. mem' = Put(mem0, a, 0, i + 1, v) /\ mem' \in [Address -> Byte]
    BY <1>1, <2>1, <2>2, <2>4, CopyStep DEF v
  <2> QED
    BY <1>1, <2>1, <2>2, <2>5, CopyGoesOn DEF v
<1> QED
  BY <1>7, <1>8

----------------------------------------------------------------------------
(* Comparisons.                                                            *)

\* A sequence extended with NUL.
Extended(s, k) == IF k <= Len(s) THEN s[k] ELSE ZERO

\* Sequences that differ first at k compare as their elements there.
LEMMA CompareDiffers ==
  ASSUME StringsAssumption, NEW s, NEW t, NEW k \in 1 .. M,
         Extended(s, k) # Extended(t, k),
         \A j \in 1 .. k - 1 : Extended(s, j) = Extended(t, j)
  PROVE  Compare(s, t) = Extended(s, k) - Extended(t, k)
<1> DEFINE D == {j \in 1 .. M : Extended(s, j) # Extended(t, j)}
           q == CHOOSE j \in D : \A h \in D : j <= h
<1>1. M \in Nat
  BY StrConstants
<1>2. k \in D /\ D # {}
  OBVIOUS
<1>3. \A h \in D : k <= h
  <2>1. \A h \in 1 .. M : ~ (k <= h) => h \in 1 .. k - 1
    BY <1>1
  <2> QED
    BY <2>1
<1>4. Compare(s, t) = Extended(s, q) - Extended(t, q)
  BY <1>2 DEF Compare, Extended
<1>5. q \in D /\ \A h \in D : q <= h
  BY <1>2, <1>3
<1>6. q = k
  <2>1. q \in 1 .. M /\ k \in 1 .. M
    BY <1>2, <1>5
  <2>2. q <= k /\ k <= q
    BY <1>2, <1>3, <1>5
  <2> HIDE DEF q
  <2> QED
    BY <1>1, <2>1, <2>2
<1> QED
  BY <1>4, <1>6

\* Sequences that differ nowhere compare equal.
LEMMA CompareSame ==
  ASSUME NEW s, NEW t, \A j \in 1 .. M : Extended(s, j) = Extended(t, j)
  PROVE  Compare(s, t) = 0
BY DEF Compare, Extended

----------------------------------------------------------------------------
(* The searches.                                                           *)

\* A search that has not found its end yet.
LEMMA SearchGoesOn ==
  ASSUME StringsAssumption, StrInv, value = <<>>, fn \notin CopyFn, fn # "shell_parse_line",
         SameCall, i' = i + 1, mem' = mem, value' = <<>>, InvLast',
         fn \in CountFn => i + 1 <= n,
         fn \in {"strlen", "strnlen", "strcmp", "strncmp", "strchr", "strrchr"} => ByteAt(mem0, a + i) # ZERO,
         fn \in {"memcmp", "strcmp", "strncmp"} => ByteAt(mem0, a + i) = ByteAt(mem0, b + i),
         fn \in {"memchr", "strchr"} => ByteAt(mem0, a + i) # c
  PROVE  StrInv'
<1>1. i \in Nat /\ i' \in Nat /\ mem' \in [Address -> Byte]
  BY TypesOf
<1>2. /\ StrTypeOK' /\ LegalCall'
      /\ mem0' = mem0 /\ fn' = fn /\ a' = a /\ b' = b /\ n' = n /\ c' = c
  BY <1>1, CallKept
<1>3. (CopiesExact /\ SearchesExact)'
  BY Running
<1>4. InvCopy' /\ InvParse' /\ InvArgv'
  BY <1>2, OnlySearching
<1>5. InvCount'
  BY <1>2 DEF InvCount
<1>6. \A j \in 0 .. i' - 1 : j \in 0 .. i - 1 \/ j = i
  BY <1>1
<1>7. InvString'
  <2>1. fn \in {"strlen", "strnlen", "strcmp", "strncmp", "strchr", "strrchr"}
          => \A j \in 0 .. i - 1 : ByteAt(mem0, a + j) # ZERO
    BY DEF StrInv, InvString
  <2>2. fn # "strcpy"
    BY DEF CopyFn
  <2>3. fn \in {"strlen", "strnlen", "strcmp", "strncmp", "strchr", "strrchr"}
          => \A j \in 0 .. i' - 1 : ByteAt(mem0, a + j) # ZERO
    BY <1>6, <2>1
  <2> QED
    BY <1>2, <2>2, <2>3 DEF InvString
<1>8. InvSame'
  <2>1. fn \in {"memcmp", "strcmp", "strncmp"} => \A j \in 0 .. i - 1 : ByteAt(mem0, a + j) = ByteAt(mem0, b + j)
    BY DEF StrInv, InvSame
  <2>2. fn \in {"memcmp", "strcmp", "strncmp"} => \A j \in 0 .. i' - 1 : ByteAt(mem0, a + j) = ByteAt(mem0, b + j)
    BY <1>6, <2>1
  <2> QED
    BY <1>2, <2>2 DEF InvSame
<1>9. InvNot'
  <2>1. fn \in {"memchr", "strchr"} => \A j \in 0 .. i - 1 : ByteAt(mem0, a + j) # c
    BY DEF StrInv, InvNot
  <2>2. fn \in {"memchr", "strchr"} => \A j \in 0 .. i' - 1 : ByteAt(mem0, a + j) # c
    BY <1>6, <2>1
  <2> QED
    BY <1>2, <2>2 DEF InvNot
<1>10. InvRead'
  <2>1. mem = mem0
    BY DEF StrInv, InvRead
  <2> QED
    BY <1>2, <2>1 DEF InvRead
<1> QED
  BY <1>2, <1>3, <1>4, <1>5, <1>7, <1>8, <1>9, <1>10 DEF StrInv

\* A search that returns the right result.
LEMMA SearchReturns ==
  ASSUME StringsAssumption, StrInv, value = <<>>, fn \notin CopyFn, fn # "shell_parse_line",
         NEW r, Returns(r), SearchesExact'
  PROVE  StrInv'
<1>1. value' # <<>> /\ mem' = mem /\ SameCall /\ mem' \in [Address -> Byte] /\ i' \in Nat
  BY ReturnIs
<1>2. /\ StrTypeOK' /\ LegalCall'
      /\ mem0' = mem0 /\ fn' = fn /\ a' = a /\ b' = b /\ n' = n /\ c' = c
  BY <1>1, CallKept
<1>3. mem' = mem0'
  BY <1>1, <1>2 DEF StrInv, InvRead
<1>4. InvCopy' /\ InvParse' /\ InvArgv' /\ CopiesExact'
  BY <1>2, <1>3, OnlySearching
<1>5. (InvCount /\ InvString /\ InvSame /\ InvNot /\ InvLast /\ InvRead)'
  BY <1>1, Returned
<1> QED
  BY <1>2, <1>4, <1>5 DEF StrInv

\* What a search looks at, and that it changes nothing.
LEMMA SearchIs ==
  ASSUME StringsAssumption, StrInv, value = <<>>, fn \notin CopyFn, fn # "shell_parse_line"
  PROVE  /\ X = ByteAt(mem0, a + i) /\ Y = ByteAt(mem0, b + i) /\ mem = mem0
         /\ X \in Nat /\ Y \in Nat
         /\ fn \in CountFn => i <= n
<1>1. mem = mem0 /\ (fn \in CountFn => i <= n)
  BY DEF StrInv, InvRead, InvCount
<1>2. /\ a + i \in Nat /\ b + i \in Nat /\ mem0 \in [Address -> Byte]
  BY TypesOf
<1> QED
  BY <1>1, <1>2, AtIs DEF X, Y

\* Every iteration of memcmp.
LEMMA MemcmpInv ==
  ASSUME StringsAssumption, StrInv, memcmp
  PROVE  StrInv'
<1>1. /\ fn = "memcmp" /\ value = <<>> /\ fn \notin CopyFn /\ fn # "shell_parse_line" /\ fn \in CountFn
      /\ fn \notin {"strlen", "strnlen", "strcmp", "strncmp", "strchr", "strrchr"}
      /\ fn \notin {"memchr", "strchr"}
  BY DEF memcmp, Runs, CopyFn, CountFn
<1>2. /\ a \in Nat /\ b \in Nat /\ n \in Nat /\ i \in Nat /\ M \in Nat /\ n <= M
      /\ a + n <= M /\ b + n <= M /\ mem0 \in [Address -> Byte]
  BY <1>1, TypesOf, LegalIs DEF StrInv
<1>3. X = ByteAt(mem0, a + i) /\ Y = ByteAt(mem0, b + i) /\ mem = mem0 /\ X \in Nat /\ Y \in Nat /\ i <= n
  BY <1>1, SearchIs
<1> DEFINE s == Bytes(mem0, a, n)
           t == Bytes(mem0, b, n)
<1>4. /\ Len(s) = n /\ Len(t) = n
      /\ \A k \in 1 .. n : s[k] = ByteAt(mem0, a + k - 1) /\ t[k] = ByteAt(mem0, b + k - 1)
  BY <1>2, BytesIs
<1> HIDE DEF s, t
<1>5. \A j \in 0 .. i - 1 : ByteAt(mem0, a + j) = ByteAt(mem0, b + j)
  BY <1>1 DEF StrInv, InvSame
<1>6. \A k \in 1 .. i : Extended(s, k) = Extended(t, k)
  <2>1. ASSUME NEW k \in 1 .. i PROVE Extended(s, k) = Extended(t, k)
    <3>1. k - 1 \in 0 .. i - 1 /\ a + k - 1 = a + (k - 1) /\ b + k - 1 = b + (k - 1) /\ k \in 1 .. n
      BY <1>2, <1>3
    <3> QED
      BY <1>4, <1>5, <3>1 DEF Extended
  <2> QED
    BY <2>1
<1>7. ASSUME NEW r, Returns(r), r = Compare(s, t) PROVE StrInv'
  <2>1. value'[1] = Compare(s, t) /\ mem0' = mem0 /\ fn' = fn /\ a' = a /\ b' = b /\ n' = n
    BY <1>7, ReturnIs DEF SameCall
  <2>2. SearchesExact'
    BY <1>1, <2>1 DEF SearchesExact, s, t
  <2> QED
    BY <1>1, <1>7, <2>2, SearchReturns
<1>8. CASE i = n
  <2>1. Returns(0)
    BY <1>8 DEF memcmp
  <2>2. ASSUME NEW k \in 1 .. M PROVE Extended(s, k) = Extended(t, k)
    <3>1. CASE k <= n
      BY <1>2, <1>6, <1>8, <3>1
    <3>2. CASE ~ (k <= n)
      BY <1>4, <3>2 DEF Extended
    <3> QED
      BY <3>1, <3>2
  <2> QED
    BY <1>7, <2>1, <2>2, CompareSame
<1>9. CASE i # n /\ X # Y
  <2>1. Returns(X - Y)
    BY <1>9 DEF memcmp
  <2>2. i + 1 \in 1 .. M /\ i + 1 \in 1 .. n /\ a + (i + 1) - 1 = a + i /\ b + (i + 1) - 1 = b + i
        /\ (i + 1) - 1 = i
    BY <1>2, <1>3, <1>9
  <2>3. Extended(s, i + 1) = X /\ Extended(t, i + 1) = Y
    BY <1>2, <1>3, <1>4, <2>2 DEF Extended
  <2>4. \A j \in 1 .. (i + 1) - 1 : Extended(s, j) = Extended(t, j)
    BY <1>6, <2>2
  <2> QED
    BY <1>7, <1>9, <2>1, <2>2, <2>3, <2>4, CompareDiffers
<1>10. CASE i # n /\ X = Y
  <2>1. Loop /\ mem' = mem
    BY <1>10 DEF memcmp
  <2>2. i + 1 <= n /\ ByteAt(mem0, a + i) = ByteAt(mem0, b + i)
    BY <1>2, <1>3, <1>10
  <2>3. SameCall /\ i' = i + 1 /\ value' = <<>> /\ fn' = fn
    BY <1>1, <2>1 DEF Loop, SameCall
  <2>4. InvLast'
    BY <1>1, <2>3 DEF InvLast
  <2> QED
    BY <1>1, <2>1, <2>2, <2>3, <2>4, SearchGoesOn
<1> QED
  BY <1>8, <1>9, <1>10

\* A string read past its end gives NUL, as its memory does at its end.
LEMMA ExtendedString ==
  ASSUME StringsAssumption, NEW m \in [Address -> Byte], NEW s \in Nat, NEW k \in Nat \ {0}
  PROVE  /\ k <= Length(m, s) + 1 => Extended(StringAt(m, s), k) = ByteAt(m, s + k - 1)
         /\ k > Length(m, s) => Extended(StringAt(m, s), k) = ZERO
<1> DEFINE L == Length(m, s)
           t == StringAt(m, s)
<1>1. Len(t) = L /\ \A j \in 1 .. L : t[j] = ByteAt(m, s + j - 1)
  BY StringIs
<1>2. L \in Nat /\ ByteAt(m, s + L) = ZERO
  BY LengthIs, StrConstants
<1> HIDE DEF L, t
<1>3. CASE k <= L
  <2>1. k \in 1 .. L /\ ~ (k > L)
    BY <1>2, <1>3
  <2>2. Extended(t, k) = ByteAt(m, s + k - 1)
    BY <1>1, <1>3, <2>1 DEF Extended
  <2> QED
    BY <2>1, <2>2 DEF L, t
<1>4. CASE ~ (k <= L)
  <2>1. Extended(t, k) = ZERO
    BY <1>1, <1>4 DEF Extended
  <2>2. k <= L + 1 => s + k - 1 = s + L
    BY <1>2, <1>4
  <2> QED
    BY <1>2, <2>1, <2>2 DEF L, t
<1> QED
  BY <1>3, <1>4

\* A prefix is the sequence up to its length.
LEMMA ExtendedPrefix ==
  ASSUME NEW s \in Seq(Nat), NEW len \in Nat, NEW k \in Nat \ {0}
  PROVE  Extended(Prefix(s, len), k) = IF k <= len THEN Extended(s, k) ELSE ZERO
<1> DEFINE t == Prefix(s, len)
           z == IF Len(s) < len THEN Len(s) ELSE len
<1>1. Len(t) = z /\ \A j \in 1 .. z : t[j] = s[j]
  BY PrefixIs
<1>2. Len(s) \in Nat /\ (k <= z <=> k <= Len(s) /\ k <= len) /\ (k <= z => k \in 1 .. z)
  OBVIOUS
<1> HIDE DEF t, z
<1>3. Extended(t, k) = IF k <= len THEN Extended(s, k) ELSE ZERO
  BY <1>1, <1>2 DEF Extended
<1> QED
  BY <1>3 DEF t

\* Where two strings compared so far stand.
LEMMA ComparedSoFar ==
  ASSUME StringsAssumption, StrInv, value = <<>>, fn \in {"strcmp", "strncmp"}
  PROVE  /\ \A k \in 1 .. i + 1 : /\ Extended(StringAt(mem0, a), k) = ByteAt(mem0, a + k - 1)
                                  /\ Extended(StringAt(mem0, b), k) = ByteAt(mem0, b + k - 1)
         /\ \A k \in 1 .. i : Extended(StringAt(mem0, a), k) = Extended(StringAt(mem0, b), k)
         /\ X = ZERO /\ Y = ZERO =>
              \A k \in 1 .. M : Extended(StringAt(mem0, a), k) = Extended(StringAt(mem0, b), k)
         /\ i + 1 \in 1 .. M
<1>1. fn \notin CopyFn /\ fn # "shell_parse_line"
  BY DEF CopyFn
<1> DEFINE K == Length(mem0, a)
           L == Length(mem0, b)
<1>2. /\ a \in Nat /\ b \in Nat /\ i \in Nat /\ M \in Nat /\ mem0 \in [Address -> Byte]
  BY TypesOf
<1>3. K \in Nat /\ L \in Nat /\ a + K < M
  <2>1. a + K < M
    BY LegalIs DEF StrInv
  <2>2. K \in 0 .. M
    BY <1>2, LengthIs
  <2>3. L \in 0 .. M
    BY <1>2, LengthIs
  <2> QED
    BY <1>2, <2>1, <2>2, <2>3
<1>4. X = ByteAt(mem0, a + i) /\ Y = ByteAt(mem0, b + i)
  BY <1>1, SearchIs
<1>5. /\ \A j \in 0 .. i - 1 : ByteAt(mem0, a + j) # ZERO
      /\ \A j \in 0 .. i - 1 : ByteAt(mem0, a + j) = ByteAt(mem0, b + j)
  BY DEF StrInv, InvString, InvSame
<1>6. \A j \in 0 .. i - 1 : ByteAt(mem0, b + j) # ZERO
  BY <1>5
<1>7. i <= K /\ (X = ZERO <=> i = K)
  BY <1>2, <1>4, <1>5, LengthOnly
<1>8. i <= L /\ (Y = ZERO <=> i = L)
  BY <1>2, <1>4, <1>6, LengthOnly
<1>9. ASSUME NEW k \in 1 .. i + 1
      PROVE  /\ Extended(StringAt(mem0, a), k) = ByteAt(mem0, a + k - 1)
             /\ Extended(StringAt(mem0, b), k) = ByteAt(mem0, b + k - 1)
  <2>1. k \in Nat \ {0} /\ k <= K + 1 /\ k <= L + 1
    BY <1>2, <1>3, <1>7, <1>8
  <2>2. Extended(StringAt(mem0, a), k) = ByteAt(mem0, a + k - 1)
    BY <1>2, <2>1, ExtendedString
  <2>3. Extended(StringAt(mem0, b), k) = ByteAt(mem0, b + k - 1)
    BY <1>2, <2>1, ExtendedString
  <2> QED
    BY <2>2, <2>3
<1>10. ASSUME NEW k \in 1 .. i PROVE Extended(StringAt(mem0, a), k) = Extended(StringAt(mem0, b), k)
  <2>1. k \in 1 .. i + 1 /\ k - 1 \in 0 .. i - 1 /\ a + k - 1 = a + (k - 1) /\ b + k - 1 = b + (k - 1)
    BY <1>2
  <2> QED
    BY <1>5, <1>9, <2>1
<1>11. ASSUME X = ZERO, Y = ZERO, NEW k \in 1 .. M
       PROVE  Extended(StringAt(mem0, a), k) = Extended(StringAt(mem0, b), k)
  <2>1. K = i /\ L = i /\ k \in Nat \ {0}
    BY <1>2, <1>7, <1>8, <1>11
  <2>2. CASE k <= i
    <3>1. k \in 1 .. i
      BY <1>2, <2>1, <2>2
    <3> QED
      BY <1>10, <3>1
  <2>3. CASE ~ (k <= i)
    <3>1. k > K /\ k > L
      BY <1>2, <2>1, <2>3
    <3> QED
      BY <1>2, <2>1, <3>1, ExtendedString
  <2> QED
    BY <2>2, <2>3
<1>12. i + 1 \in 1 .. M
  BY <1>2, <1>3, <1>7
<1> QED
  BY <1>9, <1>10, <1>11, <1>12

\* Every iteration of strcmp.
LEMMA StrcmpInv ==
  ASSUME StringsAssumption, StrInv, strcmp
  PROVE  StrInv'
<1>1. /\ fn = "strcmp" /\ value = <<>> /\ fn \notin CopyFn /\ fn # "shell_parse_line" /\ fn \notin CountFn
      /\ fn \notin {"memchr", "strchr"} /\ fn \in {"strcmp", "strncmp"}
  BY DEF strcmp, Runs, CopyFn, CountFn
<1>2. a \in Nat /\ b \in Nat /\ i \in Nat /\ M \in Nat
  BY TypesOf
<1>3. X = ByteAt(mem0, a + i) /\ Y = ByteAt(mem0, b + i) /\ X \in Nat /\ Y \in Nat
  BY <1>1, SearchIs
<1> DEFINE s == StringAt(mem0, a)
           t == StringAt(mem0, b)
<1>4. /\ \A k \in 1 .. i + 1 : Extended(s, k) = ByteAt(mem0, a + k - 1) /\ Extended(t, k) = ByteAt(mem0, b + k - 1)
      /\ \A k \in 1 .. i : Extended(s, k) = Extended(t, k)
      /\ X = ZERO /\ Y = ZERO => \A k \in 1 .. M : Extended(s, k) = Extended(t, k)
      /\ i + 1 \in 1 .. M
  BY <1>1, ComparedSoFar
<1> HIDE DEF s, t
<1>5. ASSUME NEW r, Returns(r), r = Compare(s, t) PROVE StrInv'
  <2>1. value'[1] = Compare(s, t) /\ mem0' = mem0 /\ fn' = fn /\ a' = a /\ b' = b
    BY <1>5, ReturnIs DEF SameCall
  <2>2. SearchesExact'
    BY <1>1, <2>1 DEF SearchesExact, s, t
  <2> QED
    BY <1>1, <1>5, <2>2, SearchReturns
<1>6. CASE X # Y
  <2>1. Returns(X - Y)
    BY <1>6 DEF strcmp
  <2>2. i + 1 \in 1 .. i + 1 /\ a + (i + 1) - 1 = a + i /\ b + (i + 1) - 1 = b + i /\ (i + 1) - 1 = i
    BY <1>2
  <2>3. Extended(s, i + 1) = X /\ Extended(t, i + 1) = Y
    BY <1>3, <1>4, <2>2
  <2>4. \A j \in 1 .. (i + 1) - 1 : Extended(s, j) = Extended(t, j)
    BY <1>4, <2>2
  <2> QED
    BY <1>4, <1>5, <1>6, <2>1, <2>3, <2>4, CompareDiffers
<1>7. CASE X = ZERO /\ Y = ZERO
  <2>1. Returns(X - Y) /\ X - Y = 0
    BY <1>3, <1>7 DEF strcmp
  <2>2. Compare(s, t) = 0
    BY <1>4, <1>7, CompareSame
  <2> QED
    BY <1>5, <2>1, <2>2
<1>8. CASE X # ZERO /\ X = Y
  <2>1. Loop /\ mem' = mem
    BY <1>8 DEF strcmp
  <2>2. SameCall /\ i' = i + 1 /\ value' = <<>> /\ fn' = fn
    BY <1>1, <2>1 DEF Loop, SameCall
  <2>3. InvLast'
    BY <1>1, <2>2 DEF InvLast
  <2> QED
    BY <1>1, <1>3, <1>8, <2>1, <2>2, <2>3, SearchGoesOn
<1> QED
  BY <1>6, <1>7, <1>8

\* Every iteration of strncmp.
LEMMA StrncmpInv ==
  ASSUME StringsAssumption, StrInv, strncmp
  PROVE  StrInv'
<1>1. /\ fn = "strncmp" /\ value = <<>> /\ fn \notin CopyFn /\ fn # "shell_parse_line" /\ fn \in CountFn
      /\ fn \notin {"memchr", "strchr"} /\ fn \in {"strcmp", "strncmp"}
  BY DEF strncmp, Runs, CopyFn, CountFn
<1>2. a \in Nat /\ b \in Nat /\ i \in Nat /\ M \in Nat /\ n \in Nat /\ mem0 \in [Address -> Byte]
  BY TypesOf
<1>3. X = ByteAt(mem0, a + i) /\ Y = ByteAt(mem0, b + i) /\ X \in Nat /\ Y \in Nat /\ i <= n
  BY <1>1, SearchIs
<1> DEFINE u == StringAt(mem0, a)
           v == StringAt(mem0, b)
           s == Prefix(u, n)
           t == Prefix(v, n)
<1>4. /\ \A k \in 1 .. i + 1 : Extended(u, k) = ByteAt(mem0, a + k - 1) /\ Extended(v, k) = ByteAt(mem0, b + k - 1)
      /\ \A k \in 1 .. i : Extended(u, k) = Extended(v, k)
      /\ X = ZERO /\ Y = ZERO => \A k \in 1 .. M : Extended(u, k) = Extended(v, k)
      /\ i + 1 \in 1 .. M
  BY <1>1, ComparedSoFar
<1>5. u \in Seq(Nat) /\ v \in Seq(Nat)
  BY <1>2, StringIs
<1> HIDE DEF u, v
<1>6. \A k \in Nat \ {0} : /\ Extended(s, k) = IF k <= n THEN Extended(u, k) ELSE ZERO
                           /\ Extended(t, k) = IF k <= n THEN Extended(v, k) ELSE ZERO
  BY <1>2, <1>5, ExtendedPrefix
<1> HIDE DEF s, t
<1>7. \A k \in 1 .. i : Extended(s, k) = Extended(t, k)
  <2>1. \A k \in 1 .. i : k \in Nat \ {0}
    BY <1>2
  <2> QED
    BY <1>4, <1>6, <2>1
<1>8. ASSUME NEW r, Returns(r), r = Compare(s, t) PROVE StrInv'
  <2>1. value'[1] = Compare(s, t) /\ mem0' = mem0 /\ fn' = fn /\ a' = a /\ b' = b /\ n' = n
    BY <1>8, ReturnIs DEF SameCall
  <2>2. SearchesExact'
    BY <1>1, <2>1 DEF SearchesExact, s, t, u, v
  <2> QED
    BY <1>1, <1>8, <2>2, SearchReturns
<1>9. CASE i = n
  <2>1. Returns(0)
    BY <1>9 DEF strncmp
  <2>2. ASSUME NEW k \in 1 .. M PROVE Extended(s, k) = Extended(t, k)
    <3>1. k \in Nat \ {0} /\ (k <= n => k \in 1 .. i)
      BY <1>2, <1>9
    <3> QED
      BY <1>6, <1>7, <3>1
  <2>3. Compare(s, t) = 0
    BY <2>2, CompareSame
  <2> QED
    BY <1>8, <2>1, <2>3
<1>10. CASE i # n /\ X # Y
  <2>1. Returns(X - Y)
    BY <1>10 DEF strncmp
  <2>2. /\ i + 1 \in 1 .. i + 1 /\ a + (i + 1) - 1 = a + i /\ b + (i + 1) - 1 = b + i /\ (i + 1) - 1 = i
        /\ i + 1 \in Nat \ {0} /\ i + 1 <= n
    BY <1>2, <1>3, <1>10
  <2>3. Extended(u, i + 1) = X /\ Extended(v, i + 1) = Y
    BY <1>3, <1>4, <2>2
  <2>4. Extended(s, i + 1) = X /\ Extended(t, i + 1) = Y
    BY <1>6, <2>2, <2>3
  <2>5. \A j \in 1 .. (i + 1) - 1 : Extended(s, j) = Extended(t, j)
    BY <1>7, <2>2
  <2> QED
    BY <1>4, <1>8, <1>10, <2>1, <2>4, <2>5, CompareDiffers
<1>11. CASE i # n /\ X = Y /\ X = ZERO
  <2>1. Returns(0)
    BY <1>11 DEF strncmp
  <2>2. ASSUME NEW k \in 1 .. M PROVE Extended(s, k) = Extended(t, k)
    <3>1. k \in Nat \ {0} /\ Extended(u, k) = Extended(v, k)
      BY <1>2, <1>4, <1>11
    <3> QED
      BY <1>6, <3>1
  <2>3. Compare(s, t) = 0
    BY <2>2, CompareSame
  <2> QED
    BY <1>8, <2>1, <2>3
<1>12. CASE i # n /\ X = Y /\ X # ZERO
  <2>1. Loop /\ mem' = mem
    BY <1>12 DEF strncmp
  <2>2. SameCall /\ i' = i + 1 /\ value' = <<>> /\ fn' = fn
    BY <1>1, <2>1 DEF Loop, SameCall
  <2>3. InvLast'
    BY <1>1, <2>2 DEF InvLast
  <2>4. i + 1 <= n
    BY <1>2, <1>3, <1>12
  <2> QED
    BY <1>1, <1>3, <1>12, <2>1, <2>2, <2>3, <2>4, SearchGoesOn
<1> QED
  BY <1>9, <1>10, <1>11, <1>12

\* Every iteration of strlen and strnlen.
LEMMA StrlenInv ==
  ASSUME StringsAssumption, StrInv, strlen
  PROVE  StrInv'
<1>1. /\ fn \in {"strlen", "strnlen"} /\ value = <<>> /\ fn \notin CopyFn /\ fn # "shell_parse_line"
      /\ fn \in {"strlen", "strnlen", "strcmp", "strncmp", "strchr", "strrchr"}
      /\ fn \notin {"memcmp", "strcmp", "strncmp"} /\ fn \notin {"memchr", "strchr"} /\ fn # "strrchr"
      /\ (fn \in CountFn <=> fn = "strnlen")
  BY DEF strlen, Runs, CopyFn, CountFn
<1>2. a \in Nat /\ i \in Nat /\ M \in Nat /\ n \in Nat /\ mem0 \in [Address -> Byte]
  BY TypesOf
<1>3. X = ByteAt(mem0, a + i) /\ (fn = "strnlen" => i <= n)
  BY <1>1, SearchIs
<1> DEFINE s == StringAt(mem0, a)
<1>4. Length(mem0, a) \in Nat /\ i <= Length(mem0, a) /\ (X = ZERO <=> i = Length(mem0, a))
  <2>1. \A j \in 0 .. i - 1 : ByteAt(mem0, a + j) # ZERO
    BY <1>1 DEF StrInv, InvString
  <2>2. Length(mem0, a) \in Nat
    BY <1>2, LengthIs
  <2> QED
    BY <1>2, <1>3, <2>1, <2>2, LengthOnly
<1>5. /\ s \in Seq(Nat) /\ Len(s) = Length(mem0, a)
      /\ Len(Prefix(s, n)) = IF Len(s) < n THEN Len(s) ELSE n
  <2>1. s \in Seq(Nat) /\ Len(s) = Length(mem0, a)
    BY <1>2, StringIs
  <2> QED
    BY <1>2, <2>1, PrefixIs
<1> HIDE DEF s
<1>6. CASE X = ZERO \/ (fn = "strnlen" /\ i = n)
  <2>1. Returns(i)
    BY <1>6 DEF strlen
  <2>2. value'[1] = i /\ mem0' = mem0 /\ fn' = fn /\ a' = a /\ n' = n
    BY <2>1, ReturnIs DEF SameCall
  <2>3. (fn = "strlen" => i = Len(s)) /\ (fn = "strnlen" => i = Len(Prefix(s, n)))
    <3>1. fn = "strlen" => X = ZERO
      BY <1>6
    <3> QED
      BY <1>2, <1>3, <1>4, <1>5, <1>6, <3>1
  <2>4. SearchesExact'
    BY <1>1, <2>2, <2>3 DEF SearchesExact, s
  <2> QED
    BY <1>1, <2>1, <2>4, SearchReturns
<1>7. CASE ~ (X = ZERO \/ (fn = "strnlen" /\ i = n))
  <2>1. Loop /\ mem' = mem
    BY <1>7 DEF strlen
  <2>2. SameCall /\ i' = i + 1 /\ value' = <<>> /\ fn' = fn
    BY <1>1, <2>1 DEF Loop, SameCall
  <2>3. InvLast'
    BY <1>1, <2>2 DEF InvLast
  <2>4. fn = "strnlen" => i + 1 <= n
    BY <1>2, <1>3, <1>7
  <2> QED
    BY <1>1, <1>3, <1>7, <2>1, <2>2, <2>3, <2>4, SearchGoesOn
<1> QED
  BY <1>6, <1>7

\* The least element of a set is the one that CHOOSE finds, and the greatest.
LEMMA LeastChosen ==
  ASSUME NEW F, F \subseteq Int, NEW x \in F, \A y \in F : x <= y
  PROVE  F # {} /\ (CHOOSE k \in F : \A j \in F : k <= j) = x
<1> DEFINE z == CHOOSE k \in F : \A j \in F : k <= j
<1>1. z \in F /\ \A j \in F : z <= j
  OBVIOUS
<1> HIDE DEF z
<1>2. z \in Int /\ x \in Int /\ z <= x /\ x <= z
  BY <1>1
<1>3. z = x
  BY <1>2
<1> QED
  BY <1>3 DEF z

\* The same for the greatest.
LEMMA GreatestChosen ==
  ASSUME NEW F, F \subseteq Int, NEW x \in F, \A y \in F : y <= x
  PROVE  F # {} /\ (CHOOSE k \in F : \A j \in F : j <= k) = x
<1> DEFINE z == CHOOSE k \in F : \A j \in F : j <= k
<1>1. z \in F /\ \A j \in F : j <= z
  OBVIOUS
<1> HIDE DEF z
<1>2. z \in Int /\ x \in Int /\ z <= x /\ x <= z
  BY <1>1
<1>3. z = x
  BY <1>2
<1> QED
  BY <1>3 DEF z

\* Every iteration of memchr.
LEMMA MemchrInv ==
  ASSUME StringsAssumption, StrInv, memchr
  PROVE  StrInv'
<1>1. /\ fn = "memchr" /\ value = <<>> /\ fn \notin CopyFn /\ fn # "shell_parse_line" /\ fn \in CountFn
      /\ fn \notin {"strlen", "strnlen", "strcmp", "strncmp", "strchr", "strrchr"}
      /\ fn \notin {"memcmp", "strcmp", "strncmp"}
  BY DEF memchr, Runs, CopyFn, CountFn
<1>2. a \in Nat /\ i \in Nat /\ M \in Nat /\ n \in Nat /\ a + n <= M /\ mem0 \in [Address -> Byte]
  BY <1>1, TypesOf, LegalIs DEF StrInv
<1>3. X = ByteAt(mem0, a + i) /\ i <= n
  BY <1>1, SearchIs
<1>4. \A j \in 0 .. i - 1 : ByteAt(mem0, a + j) # c
  BY <1>1 DEF StrInv, InvNot
<1> DEFINE F == {k \in a .. a + n - 1 : mem0[k] = c}
           r == IF F = {} THEN NULL ELSE CHOOSE k \in F : \A j \in F : k <= j
<1>5. \A k \in F : k \in Int /\ k >= a + i
  <2>1. ASSUME NEW k \in F, k < a + i PROVE FALSE
    <3>1. k \in Nat /\ k < M /\ k - a \in 0 .. i - 1 /\ a + (k - a) = k /\ mem0[k] = c
      BY <1>2, <2>1
    <3>2. ByteAt(mem0, k) = c
      BY <1>2, <3>1, AtIs
    <3> QED
      BY <1>4, <3>1, <3>2
  <2>2. F \subseteq Int /\ a + i \in Int
    BY <1>2
  <2> QED
    BY <2>1, <2>2
<1>6. ASSUME Returns(r) PROVE StrInv'
  <2>1. value'[1] = r /\ mem0' = mem0 /\ fn' = fn /\ a' = a /\ n' = n /\ c' = c
    BY <1>6, ReturnIs DEF SameCall
  <2>2. SearchesExact'
    BY <1>1, <2>1 DEF SearchesExact
  <2> QED
    BY <1>1, <1>6, <2>2, SearchReturns
<1> HIDE DEF F
<1>7. CASE i = n
  <2>1. Returns(NULL)
    BY <1>7 DEF memchr
  <2>2. F = {}
    <3>1. \A k \in F : k \in a .. a + n - 1
      BY DEF F
    <3> QED
      BY <1>2, <1>5, <1>7, <3>1
  <2> QED
    BY <1>6, <2>1, <2>2
<1>8. CASE i # n /\ X = c
  <2>1. Returns(a + i)
    BY <1>8 DEF memchr
  <2>2. a + i \in Nat /\ a + i < M /\ a + i \in a .. a + n - 1
    BY <1>2, <1>3, <1>8
  <2>3. mem0[a + i] = c
    BY <1>2, <1>3, <1>8, <2>2, AtIs
  <2>4. a + i \in F /\ F \subseteq Int /\ \A k \in F : a + i <= k
    <3>1. a + i \in F
      BY <2>2, <2>3 DEF F
    <3>2. a + i \in Int
      BY <2>2
    <3> QED
      BY <1>5, <3>1, <3>2
  <2>5. r = a + i
    BY <2>4, LeastChosen
  <2> QED
    BY <1>6, <2>1, <2>5
<1>9. CASE i # n /\ X # c
  <2>1. Loop /\ mem' = mem
    BY <1>9 DEF memchr
  <2>2. SameCall /\ i' = i + 1 /\ value' = <<>> /\ fn' = fn
    BY <1>1, <2>1 DEF Loop, SameCall
  <2>3. InvLast'
    BY <1>1, <2>2 DEF InvLast
  <2>4. i + 1 <= n
    BY <1>2, <1>3, <1>9
  <2> QED
    BY <1>1, <1>3, <1>9, <2>1, <2>2, <2>3, <2>4, SearchGoesOn
<1> QED
  BY <1>7, <1>8, <1>9

\* The places of a character in a string, and their addresses.
Places(m, x, ch) == {k \in 1 .. Len(StringAt(m, x)) : StringAt(m, x)[k] = ch}
Hits(m, x, ch) == {x + k - 1 : k \in Places(m, x, ch)}

\* The hits are where the memory has the character, before the end.
LEMMA HitsAre ==
  ASSUME StringsAssumption, NEW m \in [Address -> Byte], NEW x \in Nat, NEW ch
  PROVE  /\ Hits(m, x, ch) \subseteq Int /\ (Hits(m, x, ch) = {} <=> Places(m, x, ch) = {})
         /\ \A k \in Hits(m, x, ch) :
              k - x \in 0 .. Length(m, x) - 1 /\ ByteAt(m, k) = ch /\ k = x + (k - x)
         /\ \A j \in 0 .. Length(m, x) - 1 : ByteAt(m, x + j) = ch => x + j \in Hits(m, x, ch)
<1> DEFINE s == StringAt(m, x)
           Found == {k \in 1 .. Len(s) : s[k] = ch}
           F == {x + k - 1 : k \in Found}
<1>0. Places(m, x, ch) = Found /\ Hits(m, x, ch) = F
  BY DEF Places, Hits
<1> DEFINE L == Length(m, x)
<1>1. L \in Nat
  BY LengthIs, StrConstants
<1>2. Len(s) = L /\ \A k \in 1 .. L : s[k] = ByteAt(m, x + k - 1)
  BY StringIs
<1> HIDE DEF L, s
<1>3. F \subseteq Int /\ (F = {} <=> Found = {})
  BY <1>1, <1>2
<1>4. ASSUME NEW k \in F PROVE k - x \in 0 .. L - 1 /\ ByteAt(m, k) = ch /\ k = x + (k - x)
  <2>1. PICK q \in Found : k = x + q - 1
    OBVIOUS
  <2>2. q \in 1 .. L /\ s[q] = ch
    BY <1>2, <2>1
  <2>3. ByteAt(m, k) = ch
    BY <1>2, <2>1, <2>2
  <2> QED
    BY <1>1, <2>1, <2>2, <2>3
<1>5. ASSUME NEW j \in 0 .. L - 1, ByteAt(m, x + j) = ch PROVE x + j \in F
  <2>1. j + 1 \in 1 .. L /\ x + (j + 1) - 1 = x + j
    BY <1>1
  <2>2. j + 1 \in Found
    BY <1>2, <1>5, <2>1
  <2> QED
    BY <2>1, <2>2
<1> QED
  BY <1>0, <1>3, <1>4, <1>5 DEF L

\* Every iteration of strchr.
LEMMA StrchrInv ==
  ASSUME StringsAssumption, StrInv, strchr
  PROVE  StrInv'
<1>1. /\ fn = "strchr" /\ value = <<>> /\ fn \notin CopyFn /\ fn # "shell_parse_line" /\ fn \notin CountFn
      /\ fn \notin {"memcmp", "strcmp", "strncmp"}
  BY DEF strchr, Runs, CopyFn, CountFn
<1>2. a \in Nat /\ i \in Nat /\ M \in Nat /\ mem0 \in [Address -> Byte]
  BY TypesOf
<1>3. X = ByteAt(mem0, a + i)
  BY <1>1, SearchIs
<1>4. /\ \A j \in 0 .. i - 1 : ByteAt(mem0, a + j) # c
      /\ \A j \in 0 .. i - 1 : ByteAt(mem0, a + j) # ZERO
  BY <1>1 DEF StrInv, InvNot, InvString
<1> DEFINE L == Length(mem0, a)
           s == StringAt(mem0, a)
           Found == {k \in 1 .. Len(s) : s[k] = c}
           F == {a + k - 1 : k \in Found}
           r == IF c = ZERO THEN a + Len(s)
                ELSE IF Found = {} THEN NULL ELSE CHOOSE k \in F : \A j \in F : k <= j
<1>5. L \in Nat /\ i <= L /\ (X = ZERO <=> i = L) /\ Len(s) = L
  <2>1. L \in 0 .. M
    BY <1>2, LengthIs
  <2>2. i <= L /\ (X = ZERO <=> i = L)
    BY <1>2, <1>3, <1>4, LengthOnly
  <2>3. Len(s) = L
    BY <1>2, StringIs
  <2> QED
    BY <1>2, <2>1, <2>2, <2>3
<1>6. ASSUME Returns(r) PROVE StrInv'
  <2>1. value'[1] = r /\ mem0' = mem0 /\ fn' = fn /\ a' = a /\ n' = n /\ c' = c
    BY <1>6, ReturnIs DEF SameCall
  <2>2. SearchesExact'
    BY <1>1, <2>1 DEF SearchesExact
  <2> QED
    BY <1>1, <1>6, <2>2, SearchReturns
<1>7. /\ F \subseteq Int /\ (F = {} <=> Found = {})
      /\ \A k \in F : k - a \in 0 .. L - 1 /\ ByteAt(mem0, k) = c /\ k = a + (k - a)
      /\ \A j \in 0 .. L - 1 : ByteAt(mem0, a + j) = c => a + j \in F
  <2>1. F = Hits(mem0, a, c) /\ Found = Places(mem0, a, c)
    BY DEF Hits, Places
  <2> HIDE DEF s, Found, F
  <2> QED
    BY <1>2, <2>1, HitsAre
<1> HIDE DEF F, Found, s, L
<1>8. ASSUME NEW k \in F PROVE k >= a + i
  <2>1. k \in Int /\ k - a \in 0 .. L - 1 /\ k = a + (k - a) /\ ByteAt(mem0, a + (k - a)) = c
    BY <1>7
  <2>2. ~ (k - a \in 0 .. i - 1)
    BY <1>4, <2>1
  <2> QED
    BY <1>2, <1>5, <2>1, <2>2
<1>9. CASE X = ZERO
  <2>1. Returns(IF c = ZERO THEN a + i ELSE NULL)
    BY <1>9 DEF strchr
  <2>2. F = {}
    <3>1. ASSUME NEW k \in F PROVE FALSE
      <4>1. k \in Int /\ k - a \in 0 .. L - 1
        BY <1>7
      <4> QED
        BY <1>2, <1>5, <1>8, <1>9, <4>1
    <3> QED
      BY <3>1
  <2>3. r = IF c = ZERO THEN a + i ELSE NULL
    BY <1>5, <1>7, <1>9, <2>2
  <2> QED
    BY <1>6, <2>1, <2>3
<1>10. CASE X # ZERO /\ X = c
  <2>1. Returns(a + i)
    BY <1>10 DEF strchr
  <2>2. i \in 0 .. L - 1
    BY <1>2, <1>5, <1>10
  <2>3. a + i \in F /\ \A k \in F : a + i <= k
    <3>1. a + i \in F
      BY <1>3, <1>7, <1>10, <2>2
    <3>2. a + i \in Int
      BY <1>2
    <3> QED
      BY <1>7, <1>8, <3>1, <3>2
  <2>4. F # {} /\ (CHOOSE k \in F : \A j \in F : k <= j) = a + i
    BY <1>7, <2>3, LeastChosen
  <2>5. r = a + i
    BY <1>7, <1>10, <2>4
  <2> QED
    BY <1>6, <2>1, <2>5
<1>11. CASE X # ZERO /\ X # c
  <2>1. Loop /\ mem' = mem
    BY <1>11 DEF strchr
  <2>2. SameCall /\ i' = i + 1 /\ value' = <<>> /\ fn' = fn
    BY <1>1, <2>1 DEF Loop, SameCall
  <2>3. InvLast'
    BY <1>1, <2>2 DEF InvLast
  <2> QED
    BY <1>1, <1>3, <1>11, <2>1, <2>2, <2>3, SearchGoesOn
<1> QED
  BY <1>9, <1>10, <1>11

\* Every iteration of strrchr.
LEMMA StrrchrInv ==
  ASSUME StringsAssumption, StrInv, strrchr
  PROVE  StrInv'
<1>1. /\ fn = "strrchr" /\ value = <<>> /\ fn \notin CopyFn /\ fn # "shell_parse_line" /\ fn \notin CountFn
      /\ fn \notin {"memcmp", "strcmp", "strncmp"} /\ fn \notin {"memchr", "strchr"}
  BY DEF strrchr, Runs, CopyFn, CountFn
<1>2. a \in Nat /\ i \in Nat /\ M \in Nat /\ mem0 \in [Address -> Byte]
  BY TypesOf
<1>3. X = ByteAt(mem0, a + i)
  BY <1>1, SearchIs
<1>4. /\ \A j \in 0 .. i - 1 : ByteAt(mem0, a + j) # ZERO
      /\ \/ last = <<NULL>> /\ \A j \in 0 .. i - 1 : ByteAt(mem0, a + j) # c
         \/ \E q \in 0 .. i - 1 : /\ last = <<a + q>> /\ ByteAt(mem0, a + q) = c
                                  /\ \A j \in q + 1 .. i - 1 : ByteAt(mem0, a + j) # c
  BY <1>1 DEF StrInv, InvLast, InvString
<1> DEFINE L == Length(mem0, a)
           s == StringAt(mem0, a)
           Found == {k \in 1 .. Len(s) : s[k] = c}
           F == {a + k - 1 : k \in Found}
           r == IF c = ZERO THEN a + Len(s)
                ELSE IF Found = {} THEN NULL ELSE CHOOSE k \in F : \A j \in F : j <= k
<1>5. L \in Nat /\ i <= L /\ (X = ZERO <=> i = L) /\ Len(s) = L
  <2>1. L \in 0 .. M
    BY <1>2, LengthIs
  <2>2. i <= L /\ (X = ZERO <=> i = L)
    BY <1>2, <1>3, <1>4, LengthOnly
  <2>3. Len(s) = L
    BY <1>2, StringIs
  <2> QED
    BY <1>2, <2>1, <2>2, <2>3
<1>6. ASSUME Returns(r) PROVE StrInv'
  <2>1. value'[1] = r /\ mem0' = mem0 /\ fn' = fn /\ a' = a /\ n' = n /\ c' = c
    BY <1>6, ReturnIs DEF SameCall
  <2>2. fn' # "strchr"
    BY <1>1, <2>1
  <2>3. SearchesExact'
    BY <1>1, <2>1, <2>2 DEF SearchesExact
  <2> QED
    BY <1>1, <1>6, <2>3, SearchReturns
<1>7. /\ F \subseteq Int /\ (F = {} <=> Found = {})
      /\ \A k \in F : k - a \in 0 .. L - 1 /\ ByteAt(mem0, k) = c /\ k = a + (k - a)
      /\ \A j \in 0 .. L - 1 : ByteAt(mem0, a + j) = c => a + j \in F
  <2>1. F = Hits(mem0, a, c) /\ Found = Places(mem0, a, c)
    BY DEF Hits, Places
  <2> HIDE DEF s, Found, F
  <2> QED
    BY <1>2, <2>1, HitsAre
<1> HIDE DEF F, Found, s, L
<1>8. CASE X = ZERO
  <2>1. Returns(IF c = ZERO THEN a + i ELSE last[1])
    BY <1>8 DEF strrchr
  <2>2. i = L
    BY <1>5, <1>8
  <2>3. CASE c = ZERO
    BY <1>5, <1>6, <2>1, <2>2, <2>3
  <2>4. CASE c # ZERO /\ last = <<NULL>> /\ \A j \in 0 .. i - 1 : ByteAt(mem0, a + j) # c
    <3>1. ASSUME NEW k \in F PROVE FALSE
      <4>1. k - a \in 0 .. i - 1 /\ ByteAt(mem0, a + (k - a)) = c
        BY <1>7, <2>2
      <4> QED
        BY <2>4, <4>1
    <3>2. r = last[1]
      BY <1>7, <2>4, <3>1
    <3> QED
      BY <1>6, <2>1, <2>4, <3>2
  <2>5. ASSUME c # ZERO, NEW q \in 0 .. i - 1, last = <<a + q>>, ByteAt(mem0, a + q) = c,
               \A j \in q + 1 .. i - 1 : ByteAt(mem0, a + j) # c
        PROVE  StrInv'
    <3>1. a + q \in F
      BY <1>7, <2>2, <2>5
    <3>2. ASSUME NEW k \in F PROVE k <= a + q
      <4>1. k \in Int /\ k - a \in 0 .. i - 1 /\ ByteAt(mem0, a + (k - a)) = c
        BY <1>7, <2>2
      <4>2. ~ (k - a \in q + 1 .. i - 1)
        BY <2>5, <4>1
      <4> QED
        BY <1>2, <4>1, <4>2
    <3>3. F # {} /\ (CHOOSE k \in F : \A j \in F : j <= k) = a + q
      BY <1>7, <3>1, <3>2, GreatestChosen
    <3>4. r = a + q /\ last[1] = a + q
      BY <1>7, <2>5, <3>3
    <3> QED
      BY <1>6, <2>1, <2>5, <3>4
  <2> QED
    BY <1>4, <2>3, <2>4, <2>5
<1>9. CASE X # ZERO
  <2>1. /\ last' = IF X = c THEN <<a + i>> ELSE last
        /\ i' = i + 1 /\ mem' = mem /\ value' = <<>> /\ SameCall
    BY <1>1, <1>9 DEF strrchr
  <2>2. fn' = fn /\ a' = a /\ c' = c /\ mem0' = mem0
    BY <2>1 DEF SameCall
  <2>3. InvLast'
    <3>1. i' - 1 = i /\ i \in 0 .. i' - 1 /\ \A j \in 0 .. i' - 1 : j \in 0 .. i - 1 \/ j = i
      BY <1>2, <2>1
    <3>2. CASE X = c
      <4>1. last' = <<a + i>> /\ ByteAt(mem0, a + i) = c
        BY <1>3, <2>1, <3>2
      <4>2. \A j \in i + 1 .. i' - 1 : FALSE
        BY <1>2, <3>1
      <4>3. \E q \in 0 .. i' - 1 : /\ last' = <<a + q>> /\ ByteAt(mem0, a + q) = c
                                   /\ \A j \in q + 1 .. i' - 1 : ByteAt(mem0, a + j) # c
        BY <3>1, <4>1, <4>2
      <4> QED
        BY <2>2, <4>3 DEF InvLast
    <3>3. CASE X # c
      <4>1. last' = last /\ ByteAt(mem0, a + i) # c
        BY <1>3, <2>1, <3>3
      <4>2. CASE last = <<NULL>> /\ \A j \in 0 .. i - 1 : ByteAt(mem0, a + j) # c
        <5>1. last' = <<NULL>> /\ \A j \in 0 .. i' - 1 : ByteAt(mem0, a + j) # c
          BY <3>1, <4>1, <4>2
        <5> QED
          BY <2>2, <5>1 DEF InvLast
      <4>3. ASSUME NEW q \in 0 .. i - 1, last = <<a + q>>, ByteAt(mem0, a + q) = c,
                   \A j \in q + 1 .. i - 1 : ByteAt(mem0, a + j) # c
            PROVE  InvLast'
        <5>1. q \in 0 .. i' - 1 /\ \A j \in q + 1 .. i' - 1 : j \in q + 1 .. i - 1 \/ j = i
          BY <1>2, <2>1
        <5>2. /\ last' = <<a + q>>
              /\ \A j \in q + 1 .. i' - 1 : ByteAt(mem0, a + j) # c
          BY <4>1, <4>3, <5>1
        <5> QED
          BY <2>2, <4>3, <5>1, <5>2 DEF InvLast
      <4> QED
        BY <1>4, <4>2, <4>3
    <3> QED
      BY <3>2, <3>3
  <2> QED
    BY <1>1, <1>3, <1>9, <2>1, <2>3, SearchGoesOn
<1> QED
  BY <1>8, <1>9

----------------------------------------------------------------------------
(* The shell's command line.                                               *)

\* The words of the line at 0, by the memory it lies in.
LEMMA WordStartsAre ==
  ASSUME StringsAssumption, NEW m \in [Address -> Byte], NEW w
  PROVE  w \in WordStarts(StringAt(m, 0)) <=>
           /\ w \in 1 .. Length(m, 0) /\ ByteAt(m, w - 1) # SPACE
           /\ w = 1 \/ ByteAt(m, w - 2) = SPACE
<1> DEFINE s == StringAt(m, 0)
           L == Length(m, 0)
<1>1. L \in Nat
  BY LengthIs, StrConstants
<1>2. Len(s) = L /\ \A k \in 1 .. L : s[k] = ByteAt(m, 0 + k - 1)
  BY StringIs
<1> HIDE DEF s, L
<1>3. ASSUME w \in 1 .. L
      PROVE  s[w] = ByteAt(m, w - 1) /\ (w # 1 => s[w - 1] = ByteAt(m, w - 2))
  <2>1. 0 + w - 1 = w - 1 /\ (w # 1 => w - 1 \in 1 .. L /\ 0 + (w - 1) - 1 = w - 2)
    BY <1>1, <1>3
  <2> QED
    BY <1>2, <1>3, <2>1
<1>4. w \in WordStarts(s) <=> w \in 1 .. L /\ s[w] # SPACE /\ (w = 1 \/ s[w - 1] = SPACE)
  BY <1>2 DEF WordStarts
<1> QED
  BY <1>3, <1>4 DEF s, L

\* White space ends, and so does a word, in the memory or behind it.
LEMMA Stops ==
  ASSUME StringsAssumption, NEW m \in [Address -> Byte], NEW x \in Nat, x <= M, NEW C, ZERO \in C
  PROVE  \E k \in x .. M : ByteAt(m, k) \in C /\ \A j \in x .. k - 1 : ByteAt(m, j) \notin C
<1> DEFINE F == {k \in x .. M : ByteAt(m, k) \in C}
<1>1. M \in Nat
  BY StrConstants
<1>2. M \in F
  <2>1. M \in x .. M /\ M >= M
    BY <1>1
  <2>2. ByteAt(m, M) = ZERO
    BY <1>1, <2>1, AtIs
  <2> QED
    BY <2>1, <2>2
<1>3. F \subseteq Nat /\ F # {}
  BY <1>1, <1>2
<1>4. PICK k \in F : \A j \in F : k <= j
  BY <1>3, LeastOf
<1>5. ASSUME NEW j \in x .. k - 1 PROVE ByteAt(m, j) \notin C
  <2>1. k \in x .. M
    BY <1>4
  <2>2. j \in x .. M /\ ~ (k <= j)
    BY <1>1, <2>1
  <2> QED
    BY <1>4, <2>2
<1> QED
  BY <1>4, <1>5

\* The next word of the line behind i: from p to e - 1.
NextWord(p, e) ==
  /\ p \in i .. M /\ ByteAt(mem, p) # SPACE /\ \A j \in i .. p - 1 : ByteAt(mem, j) = SPACE
  /\ e \in p .. M /\ ByteAt(mem, e) \in {SPACE, ZERO} /\ \A j \in p .. e - 1 : ByteAt(mem, j) \notin {SPACE, ZERO}

\* What a step of shell_parse_line does with it.
LEMMA ParseStep ==
  ASSUME StringsAssumption, StrInv, shell_parse_line
  PROVE  \E p, e : /\ NextWord(p, e)
                   /\ IF ByteAt(mem, p) = ZERO \/ Len(last) = SHELL_MAX_ARGS THEN Returns(Len(last))
                      ELSE /\ last' = Append(last, p) /\ i' = IF ByteAt(mem, e) = ZERO THEN e ELSE e + 1
                           /\ mem' = IF e < M THEN [mem EXCEPT ![e] = ZERO] ELSE mem
                           /\ value' = value /\ SameCall
<1> DEFINE p == CHOOSE k \in i .. M : /\ ByteAt(mem, k) # SPACE
                                      /\ \A j \in i .. k - 1 : ByteAt(mem, j) = SPACE
           e == CHOOSE k \in p .. M : /\ ByteAt(mem, k) \in {SPACE, ZERO}
                                      /\ \A j \in p .. k - 1 : ByteAt(mem, j) \notin {SPACE, ZERO}
<1>1. fn = "shell_parse_line" /\ mem \in [Address -> Byte] /\ i \in Nat /\ M \in Nat
  BY TypesOf DEF shell_parse_line, Runs
<1>2. i <= M
  <2>1. i <= Length(mem0, 0)
    BY <1>1 DEF StrInv, InvParse
  <2>2. Length(mem0, 0) \in 0 .. M
    BY TypesOf, LengthIs
  <2> QED
    BY <1>1, <2>1, <2>2
<1>3. p \in i .. M /\ ByteAt(mem, p) # SPACE /\ \A j \in i .. p - 1 : ByteAt(mem, j) = SPACE
  <2> DEFINE C == Nat \ {SPACE}
  <2>1. ZERO \in C
    BY StrConstants
  <2>2. \A k \in Nat : ByteAt(mem, k) \in Nat
    BY <1>1, AtIs
  <2>3. PICK k \in i .. M : ByteAt(mem, k) \in C /\ \A j \in i .. k - 1 : ByteAt(mem, j) \notin C
    <3> HIDE DEF C
    <3> QED
      BY <1>1, <1>2, <2>1, Stops
  <2>4. \A j \in i .. k - 1 : j \in Nat
    BY <1>1
  <2>5. ByteAt(mem, k) # SPACE /\ \A j \in i .. k - 1 : ByteAt(mem, j) = SPACE
    BY <2>2, <2>3, <2>4
  <2> QED
    BY <2>5
<1> HIDE DEF p
<1>4. e \in p .. M /\ ByteAt(mem, e) \in {SPACE, ZERO} /\ \A j \in p .. e - 1 : ByteAt(mem, j) \notin {SPACE, ZERO}
  <2> DEFINE C == {SPACE, ZERO}
  <2>1. p \in Nat /\ p <= M /\ ZERO \in C
    BY <1>1, <1>3
  <2>2. \E k \in p .. M : ByteAt(mem, k) \in C /\ \A j \in p .. k - 1 : ByteAt(mem, j) \notin C
    <3> HIDE DEF C
    <3> QED
      BY <1>1, <2>1, Stops
  <2> QED
    BY <2>2
<1>5. IF ByteAt(mem, p) = ZERO \/ Len(last) = SHELL_MAX_ARGS THEN Returns(Len(last))
      ELSE /\ last' = Append(last, p) /\ i' = IF ByteAt(mem, e) = ZERO THEN e ELSE e + 1
           /\ mem' = IF e < M THEN [mem EXCEPT ![e] = ZERO] ELSE mem
           /\ value' = value /\ SameCall
  BY DEF shell_parse_line, p
<1> HIDE DEF e
<1> QED
  BY <1>3, <1>4, <1>5 DEF NextWord

\* The next word lies in the line, which is untouched from i on.
LEMMA NextWordIs ==
  ASSUME StringsAssumption, StrInv, fn = "shell_parse_line", NEW p, NEW e, NextWord(p, e)
  PROVE  LET L == Length(mem0, 0) IN
         /\ \A k \in Nat : k >= i => ByteAt(mem, k) = ByteAt(mem0, k)
         /\ L \in Nat /\ L < M /\ i <= L /\ p \in Nat /\ p >= i /\ e \in Nat /\ e >= p /\ e <= L
         /\ \A j \in i .. p - 1 : ByteAt(mem0, j) = SPACE
         /\ ByteAt(mem, p) = ZERO => p = L
         /\ ByteAt(mem, p) # ZERO => /\ p < e /\ EndsAt(mem0, p, e)
                                     /\ ByteAt(mem0, e) = ZERO <=> e = L
<1> DEFINE L == Length(mem0, 0)
<1>1. /\ mem \in [Address -> Byte] /\ mem0 \in [Address -> Byte] /\ i \in Nat /\ M \in Nat
      /\ ZERO = 0 /\ SPACE = 1
  BY TypesOf, StrConstants
<1>2. /\ L \in Nat /\ L < M /\ ByteAt(mem0, L) = ZERO
      /\ \A j \in 0 .. L - 1 : ByteAt(mem0, j) # ZERO
  <2>1. a = 0 /\ a + Length(mem0, a) < M
    BY LegalIs DEF StrInv
  <2>2. /\ L \in 0 .. M /\ ByteAt(mem0, 0 + L) = ZERO
        /\ \A j \in 0 .. L - 1 : ByteAt(mem0, 0 + j) # ZERO
    BY <1>1, LengthIs
  <2>3. \A j \in 0 .. L - 1 : 0 + j = j
    BY <1>1, <2>2
  <2> QED
    BY <1>1, <2>1, <2>2, <2>3
<1>3. i <= L /\ \A k \in i .. M - 1 : mem[k] = mem0[k]
  BY DEF StrInv, InvParse
<1> HIDE DEF L
<1>4. ASSUME NEW k \in Nat, k >= i PROVE ByteAt(mem, k) = ByteAt(mem0, k)
  <2>1. CASE k < M
    <3>1. k \in i .. M - 1
      BY <1>1, <1>4, <2>1
    <3> QED
      BY <1>1, <1>3, <2>1, <3>1, AtIs
  <2>2. CASE ~ (k < M)
    <3>1. k >= M
      BY <1>1, <2>2
    <3> QED
      BY <1>1, <3>1, AtIs
  <2> QED
    BY <2>1, <2>2
<1>5. /\ p \in i .. M /\ ByteAt(mem, p) # SPACE /\ \A j \in i .. p - 1 : ByteAt(mem, j) = SPACE
      /\ e \in p .. M /\ ByteAt(mem, e) \in {SPACE, ZERO}
      /\ \A j \in p .. e - 1 : ByteAt(mem, j) \notin {SPACE, ZERO}
  BY DEF NextWord
<1>6. p \in Nat /\ p >= i /\ e \in Nat /\ e >= p
  BY <1>1, <1>5
<1>7. L \in Nat /\ L >= i /\ ByteAt(mem, L) = ZERO
  BY <1>1, <1>2, <1>3, <1>4
<1>8. e <= L
  <2>1. ~ (L \in i .. p - 1)
    BY <1>1, <1>5, <1>7
  <2>2. ~ (L \in p .. e - 1)
    BY <1>1, <1>5, <1>7
  <2> QED
    BY <1>1, <1>6, <1>7, <2>1, <2>2
<1>9. \A j \in i .. p - 1 : ByteAt(mem0, j) = SPACE
  <2>1. \A j \in i .. p - 1 : j \in Nat /\ j >= i
    BY <1>1, <1>6
  <2> QED
    BY <1>4, <1>5, <2>1
<1>10. ASSUME ByteAt(mem, p) = ZERO PROVE p = L
  <2>1. ByteAt(mem0, p) = ZERO
    BY <1>4, <1>6, <1>10
  <2>2. ~ (p \in 0 .. L - 1)
    BY <1>2, <2>1
  <2> QED
    BY <1>6, <1>7, <1>8, <2>2
<1>11. ASSUME ByteAt(mem, p) # ZERO PROVE p < e /\ EndsAt(mem0, p, e) /\ (ByteAt(mem0, e) = ZERO <=> e = L)
  <2>1. p # e
    BY <1>5, <1>11
  <2>2. \A j \in p .. e - 1 : j \in Nat /\ j >= i
    BY <1>1, <1>6
  <2>3. \A j \in p .. e - 1 : ByteAt(mem0, j) \notin {SPACE, ZERO}
    BY <1>4, <1>5, <2>2
  <2>4. e >= i
    BY <1>1, <1>6
  <2>5. ByteAt(mem0, e) \in {SPACE, ZERO}
    BY <1>4, <1>5, <1>6, <2>4
  <2>6. ByteAt(mem0, e) = ZERO <=> e = L
    <3>1. e < L => e \in 0 .. L - 1
      BY <1>6, <1>7
    <3> QED
      BY <1>2, <1>6, <1>7, <1>8, <3>1
  <2> QED
    BY <1>6, <2>1, <2>3, <2>5, <2>6 DEF EndsAt
<1> QED
  BY <1>2, <1>3, <1>4, <1>6, <1>8, <1>9, <1>10, <1>11 DEF L

\* Every step of shell_parse_line: an argument more, or the end.
LEMMA ParseInv ==
  ASSUME StringsAssumption, StrInv, shell_parse_line
  PROVE  StrInv'
<1>1. fn = "shell_parse_line" /\ value = <<>> /\ fn \notin CopyFn /\ fn \notin CountFn
  BY DEF shell_parse_line, Runs, CopyFn, CountFn
<1>2. PICK p, e : /\ NextWord(p, e)
                  /\ IF ByteAt(mem, p) = ZERO \/ Len(last) = SHELL_MAX_ARGS THEN Returns(Len(last))
                     ELSE /\ last' = Append(last, p) /\ i' = IF ByteAt(mem, e) = ZERO THEN e ELSE e + 1
                          /\ mem' = IF e < M THEN [mem EXCEPT ![e] = ZERO] ELSE mem
                          /\ value' = value /\ SameCall
  BY ParseStep
<1> DEFINE L == Length(mem0, 0)
           Words == WordStarts(StringAt(mem0, 0))
<1>3. /\ \A k \in Nat : k >= i => ByteAt(mem, k) = ByteAt(mem0, k)
      /\ L \in Nat /\ L < M /\ i <= L /\ p \in Nat /\ p >= i /\ e \in Nat /\ e >= p /\ e <= L
      /\ \A j \in i .. p - 1 : ByteAt(mem0, j) = SPACE
      /\ ByteAt(mem, p) = ZERO => p = L
      /\ ByteAt(mem, p) # ZERO => /\ p < e /\ EndsAt(mem0, p, e)
                                  /\ ByteAt(mem0, e) = ZERO <=> e = L
  BY <1>1, <1>2, NextWordIs
<1>4. /\ mem \in [Address -> Byte] /\ mem0 \in [Address -> Byte] /\ i \in Nat /\ M \in Nat
      /\ ZERO = 0 /\ SPACE = 1 /\ ZERO \in Byte /\ SHELL_MAX_ARGS \in Nat
      /\ \A x : x \in Address <=> x \in Int /\ 0 <= x /\ x < M
  BY TypesOf, StrConstants
<1>5. /\ i = 0 \/ i = L \/ mem0[i - 1] = SPACE
      /\ \A k \in i .. M - 1 : mem[k] = mem0[k]
      /\ last \in Seq(Nat) /\ Len(last) <= SHELL_MAX_ARGS
      /\ \A k \in 1 .. Len(last) : last[k] < i /\ \A j \in 1 .. k - 1 : last[j] < last[k]
      /\ \A k \in 1 .. Len(last) : last[k] + 1 \in Words
      /\ \A w \in Words : w <= i => \E k \in 1 .. Len(last) : last[k] + 1 = w
      /\ \A k \in 1 .. Len(last) : \E q \in last[k] .. i :
           /\ EndsAt(mem0, last[k], q)
           /\ \A j \in last[k] .. q - 1 : mem[j] = mem0[j]
           /\ ByteAt(mem, q) = ZERO
  BY <1>1 DEF StrInv, InvParse
<1>6. \A w : w \in Words <=> /\ w \in 1 .. L /\ ByteAt(mem0, w - 1) # SPACE
                             /\ w = 1 \/ ByteAt(mem0, w - 2) = SPACE
  BY <1>4, WordStartsAre
<1> HIDE DEF L, Words
<1>7. CASE ByteAt(mem, p) = ZERO \/ Len(last) = SHELL_MAX_ARGS
  <2>1. /\ value' = <<Len(last)>> /\ value' # <<>> /\ mem' = mem /\ i' = i /\ last' = last /\ SameCall
        /\ mem' \in [Address -> Byte] /\ i' \in Nat
    BY <1>2, <1>7, ReturnIs
  <2>2. /\ StrTypeOK' /\ LegalCall'
        /\ mem0' = mem0 /\ fn' = fn /\ a' = a /\ b' = b /\ n' = n /\ c' = c
    BY <2>1, CallKept
  <2>3. (InvCount /\ InvCopy /\ InvString /\ InvSame /\ InvNot /\ InvLast /\ InvRead)'
    BY <2>1, Returned
  <2>4. InvParse'
    <3>1. InvParse
      BY DEF StrInv
    <3> QED
      BY <2>1, <2>2, <3>1 DEF InvParse
  <2>5. InvArgv'
    <3>1. ASSUME Len(last) # SHELL_MAX_ARGS, NEW k \in i .. L - 1 PROVE mem0[k] = SPACE
      <4>1. k \in i .. p - 1 /\ k \in Nat /\ k < M
        BY <1>3, <1>4, <1>7, <3>1
      <4> QED
        BY <1>3, <1>4, <4>1, AtIs
    <3> QED
      BY <2>1, <2>2, <3>1 DEF InvArgv, L
  <2>6. CopiesExact' /\ SearchesExact'
    BY <1>1, <2>2 DEF CopiesExact, SearchesExact
  <2> QED
    BY <2>2, <2>3, <2>4, <2>5, <2>6 DEF StrInv
<1>8. CASE ~ (ByteAt(mem, p) = ZERO \/ Len(last) = SHELL_MAX_ARGS)
  <2>1. /\ last' = Append(last, p) /\ i' = IF ByteAt(mem, e) = ZERO THEN e ELSE e + 1
        /\ mem' = IF e < M THEN [mem EXCEPT ![e] = ZERO] ELSE mem
        /\ value' = <<>> /\ SameCall
    BY <1>1, <1>2, <1>8
  <2>2. p < e /\ EndsAt(mem0, p, e) /\ (ByteAt(mem0, e) = ZERO <=> e = L)
    BY <1>3, <1>8
  <2>3. /\ ByteAt(mem, e) = ByteAt(mem0, e) /\ e < M /\ e \in Address
        /\ p < L /\ p \in 0 .. L - 1
    BY <1>3, <1>4, <2>2
  <2>4. /\ \A k \in p .. e - 1 : ByteAt(mem0, k) \notin {SPACE, ZERO}
        /\ ByteAt(mem0, e) \in {SPACE, ZERO}
    BY <2>2 DEF EndsAt
  <2>5. /\ i' \in Nat /\ i' <= L /\ i' >= e /\ i' > p /\ i' >= i
        /\ \/ i' = e /\ e = L
           \/ i' = e + 1 /\ ByteAt(mem0, e) = SPACE
    BY <1>3, <1>4, <2>1, <2>2, <2>3, <2>4
  <2>6. /\ mem' \in [Address -> Byte] /\ mem'[e] = ZERO
        /\ \A k \in Address \ {e} : mem'[k] = mem[k]
    <3>1. mem' = [mem EXCEPT ![e] = ZERO]
      BY <2>1, <2>3
    <3>2. mem \in [Address -> Byte] /\ ZERO \in Byte /\ e \in Address
      BY <1>4, <2>3
    <3> QED
      BY ONLY <3>1, <3>2
  <2>7. /\ StrTypeOK' /\ LegalCall'
        /\ mem0' = mem0 /\ fn' = fn /\ a' = a /\ b' = b /\ n' = n /\ c' = c
    BY <2>1, <2>5, <2>6, CallKept
  <2>8. (CopiesExact /\ SearchesExact /\ InvArgv)'
    BY <2>1, Running
  <2>9. (InvCount /\ InvCopy /\ InvString /\ InvSame /\ InvNot /\ InvLast /\ InvRead)'
    <3>1. fn' = "shell_parse_line" /\ fn' \notin CountFn /\ fn' \notin CopyFn
      BY <1>1, <2>7
    <3> QED
      BY <3>1 DEF InvCount, InvCopy, InvString, InvSame, InvNot, InvLast, InvRead
  <2>10. i' = L \/ mem0[i' - 1] = SPACE
    <3>1. i' = e + 1 => i' - 1 = e
      BY <1>3
    <3>2. ByteAt(mem0, e) = mem0[e]
      BY <1>3, <1>4, <2>3, AtIs
    <3> QED
      BY <2>5, <3>1, <3>2
  <2>11. ASSUME NEW k \in i' .. M - 1 PROVE mem'[k] = mem0[k]
    <3>1. k \in Address /\ k \in i .. M - 1 /\ k \in Nat
      BY <1>3, <1>4, <2>5
    <3>2. CASE k = e
      <4>1. e = L /\ ByteAt(mem0, e) = ZERO
        BY <1>3, <2>2, <2>5, <3>2
      <4>2. ByteAt(mem0, e) = mem0[e]
        BY <1>3, <1>4, <2>3, AtIs
      <4> QED
        BY <2>6, <3>2, <4>1, <4>2
    <3>3. CASE k # e
      BY <1>5, <2>6, <3>1, <3>3
    <3> QED
      BY <3>2, <3>3
  <2>12. /\ last' \in Seq(Nat) /\ Len(last') = Len(last) + 1 /\ Len(last) \in Nat
         /\ \A k \in 1 .. Len(last) : last'[k] = last[k] /\ last[k] \in Nat
         /\ last'[Len(last) + 1] = p
    BY <1>3, <1>5, <2>1
  <2>13. \A k \in 1 .. Len(last') : k \in 1 .. Len(last) \/ k = Len(last) + 1
    BY <2>12
  <2>14. Len(last') <= SHELL_MAX_ARGS
    BY <1>4, <1>5, <1>8, <2>12
  <2>15. ASSUME NEW k \in 1 .. Len(last')
         PROVE  last'[k] < i' /\ \A j \in 1 .. k - 1 : last'[j] < last'[k]
    <3>1. CASE k \in 1 .. Len(last)
      <4>1. last'[k] = last[k] /\ last[k] < i /\ last[k] \in Nat
        BY <1>5, <2>12, <3>1
      <4>2. \A j \in 1 .. k - 1 : j \in 1 .. Len(last)
        BY <2>12, <3>1
      <4>3. \A j \in 1 .. k - 1 : last'[j] < last'[k]
        BY <1>5, <2>12, <3>1, <4>1, <4>2
      <4> QED
        BY <1>4, <2>5, <4>1, <4>3
    <3>2. CASE k = Len(last) + 1
      <4>1. last'[k] = p /\ p < i'
        BY <1>3, <2>5, <2>12, <3>2
      <4>2. \A j \in 1 .. k - 1 : j \in 1 .. Len(last)
        BY <2>12, <3>2
      <4>3. ASSUME NEW j \in 1 .. k - 1 PROVE last'[j] < p
        <5>1. last'[j] = last[j] /\ last[j] < i /\ last[j] \in Nat
          BY <1>5, <2>12, <4>2
        <5> QED
          BY <1>3, <1>4, <5>1
      <4> QED
        BY <4>1, <4>3
    <3> QED
      BY <2>13, <3>1, <3>2
  <2>16. p + 1 \in Words
    <3>1. p + 1 \in 1 .. L /\ (p + 1) - 1 = p /\ (p + 1) - 2 = p - 1
      BY <1>3, <2>3
    <3>2. ByteAt(mem0, p) # SPACE
      <4>1. p \in p .. e - 1
        BY <1>3, <2>2
      <4> QED
        BY <2>4, <4>1
    <3>3. p + 1 = 1 \/ ByteAt(mem0, p - 1) = SPACE
      <4>1. CASE p = i
        <5>1. p = 0 \/ mem0[p - 1] = SPACE
          BY <1>5, <2>3, <4>1
        <5>2. p # 0 => p - 1 \in Nat /\ p - 1 < M
          BY <1>3, <1>4, <2>3
        <5>3. p # 0 => ByteAt(mem0, p - 1) = mem0[p - 1]
          BY <1>4, <5>2, AtIs
        <5> QED
          BY <1>3, <5>1, <5>3
      <4>2. CASE p # i
        <5>1. p - 1 \in i .. p - 1
          BY <1>3, <1>4, <4>2
        <5> QED
          BY <1>3, <5>1
      <4> QED
        BY <4>1, <4>2
    <3> QED
      BY <1>6, <3>1, <3>2, <3>3
  <2>17. ASSUME NEW k \in 1 .. Len(last') PROVE last'[k] + 1 \in Words
    <3>1. CASE k \in 1 .. Len(last)
      BY <1>5, <2>12, <3>1
    <3>2. CASE k = Len(last) + 1
      BY <2>12, <2>16, <3>2
    <3> QED
      BY <2>13, <3>1, <3>2
  <2>18. ASSUME NEW w \in Words, w <= i' PROVE \E k \in 1 .. Len(last') : last'[k] + 1 = w
    <3>1. /\ w \in 1 .. L /\ ByteAt(mem0, w - 1) # SPACE
          /\ w = 1 \/ ByteAt(mem0, w - 2) = SPACE
      BY <1>6
    <3>2. CASE w <= i
      <4>1. PICK k \in 1 .. Len(last) : last[k] + 1 = w
        BY <1>5, <3>2
      <4>2. k \in 1 .. Len(last') /\ last'[k] = last[k]
        BY <2>12
      <4> QED
        BY <4>1, <4>2
    <3>3. CASE ~ (w <= i)
      <4>1. ~ (w - 1 \in i .. p - 1)
        BY <1>3, <3>1
      <4>2. ~ (w - 1 = e /\ i' = e + 1)
        BY <1>3, <2>5, <3>1
      <4>3. ~ (w - 2 \in p .. e - 1)
        BY <1>3, <1>4, <2>4, <3>1
      <4>4. w = p + 1
        BY <1>3, <1>4, <2>5, <2>18, <3>1, <3>3, <4>1, <4>2, <4>3
      <4>5. Len(last) + 1 \in 1 .. Len(last')
        BY <2>12
      <4> QED
        BY <2>12, <4>4, <4>5
    <3> QED
      BY <3>2, <3>3
  <2>19. ASSUME NEW k \in 1 .. Len(last')
         PROVE  \E q \in last'[k] .. i' : /\ EndsAt(mem0, last'[k], q)
                                          /\ \A j \in last'[k] .. q - 1 : mem'[j] = mem0[j]
                                          /\ ByteAt(mem', q) = ZERO
    <3>1. CASE k \in 1 .. Len(last)
      <4>1. PICK q \in last[k] .. i : /\ EndsAt(mem0, last[k], q)
                                      /\ \A j \in last[k] .. q - 1 : mem[j] = mem0[j]
                                      /\ ByteAt(mem, q) = ZERO
        BY <1>5, <3>1
      <4>2. last'[k] = last[k] /\ last[k] \in Nat
        BY <2>12, <3>1
      <4>3. q \in last[k] .. i' /\ q \in Nat /\ q < M /\ q \in Address
        BY <1>3, <1>4, <2>5, <4>2
      <4>4. ASSUME NEW j \in last[k] .. q - 1 PROVE mem'[j] = mem0[j]
        <5>1. j \in Int /\ 0 <= j /\ j < M /\ j < e
          BY <1>3, <1>4, <2>2, <4>2, <4>3
        <5>2. j \in Address \ {e}
          BY <1>3, <1>4, <5>1
        <5> QED
          BY <2>6, <4>1, <5>2
      <4>5. ByteAt(mem', q) = ZERO
        BY <2>6, <4>1, <4>3 DEF ByteAt
      <4> QED
        BY <4>1, <4>2, <4>3, <4>4, <4>5
    <3>2. CASE k = Len(last) + 1
      <4>1. last'[k] = p
        BY <2>12, <3>2
      <4>2. e \in p .. i'
        BY <1>3, <2>2, <2>5
      <4>3. ASSUME NEW j \in p .. e - 1 PROVE mem'[j] = mem0[j]
        <5>1. j \in Address \ {e} /\ j \in i .. M - 1
          BY <1>3, <1>4, <2>3
        <5> QED
          BY <1>5, <2>6, <5>1
      <4>4. ByteAt(mem', e) = ZERO
        BY <2>3, <2>6 DEF ByteAt
      <4> QED
        BY <2>2, <4>1, <4>2, <4>3, <4>4
    <3> QED
      BY <2>13, <3>1, <3>2
  <2>20. InvParse'
    <3>1. /\ i' <= L
          /\ i' = 0 \/ i' = L \/ mem0[i' - 1] = SPACE
          /\ \A k \in i' .. M - 1 : mem'[k] = mem0[k]
          /\ last' \in Seq(Nat) /\ Len(last') <= SHELL_MAX_ARGS
          /\ \A k \in 1 .. Len(last') : last'[k] < i' /\ \A j \in 1 .. k - 1 : last'[j] < last'[k]
          /\ \A k \in 1 .. Len(last') : last'[k] + 1 \in Words
          /\ \A w \in Words : w <= i' => \E k \in 1 .. Len(last') : last'[k] + 1 = w
          /\ \A k \in 1 .. Len(last') : \E q \in last'[k] .. i' :
               /\ EndsAt(mem0, last'[k], q)
               /\ \A j \in last'[k] .. q - 1 : mem'[j] = mem0[j]
               /\ ByteAt(mem', q) = ZERO
      BY <2>5, <2>10, <2>11, <2>12, <2>14, <2>15, <2>17, <2>18, <2>19
    <3> QED
      BY <2>7, <3>1, Zenon DEF InvParse, L, Words
  <2> QED
    BY <2>7, <2>8, <2>9, <2>20 DEF StrInv
<1> QED
  BY <1>7, <1>8

\* When shell_parse_line returns, its arguments are the words of the line.
LEMMA ArgvFollows ==
  ASSUME StringsAssumption, StrInv
  PROVE  ArgvIsWords
<1> SUFFICES ASSUME value # <<>>, fn = "shell_parse_line" PROVE ArgvIsWords
  BY DEF ArgvIsWords
<1> DEFINE L == Length(mem0, 0)
           line == StringAt(mem0, 0)
           Words == WordStarts(line)
<1>1. a = 0
  BY LegalIs DEF StrInv
<1>2. /\ mem \in [Address -> Byte] /\ mem0 \in [Address -> Byte] /\ i \in Nat /\ M \in Nat
      /\ ZERO = 0 /\ SPACE = 1 /\ SHELL_MAX_ARGS \in Nat /\ SHELL_MAX_ARGS > 0
  BY TypesOf, StrConstants DEF StringsAssumption
<1>3. L \in Nat /\ L <= M /\ Len(line) = L /\ \A k \in 1 .. L : line[k] = ByteAt(mem0, k - 1)
  <2>1. L \in 0 .. M
    BY <1>2, LengthIs
  <2>2. Len(line) = L /\ \A k \in 1 .. L : line[k] = ByteAt(mem0, 0 + k - 1)
    BY <1>2, StringIs
  <2>3. \A k \in 1 .. L : 0 + k - 1 = k - 1
    BY <1>2, <2>1
  <2> QED
    BY <1>2, <2>1, <2>2, <2>3
<1>4. /\ i <= L /\ last \in Seq(Nat) /\ Len(last) <= SHELL_MAX_ARGS
      /\ \A k \in 1 .. Len(last) : last[k] < i /\ \A j \in 1 .. k - 1 : last[j] < last[k]
      /\ \A k \in 1 .. Len(last) : last[k] + 1 \in Words
      /\ \A w \in Words : w <= i => \E k \in 1 .. Len(last) : last[k] + 1 = w
      /\ \A k \in 1 .. Len(last) : \E q \in last[k] .. i :
           /\ EndsAt(mem0, last[k], q)
           /\ \A j \in last[k] .. q - 1 : mem[j] = mem0[j]
           /\ ByteAt(mem, q) = ZERO
  BY DEF StrInv, InvParse
<1>5. /\ value = <<Len(last)>>
      /\ Len(last) = SHELL_MAX_ARGS \/ \A k \in i .. L - 1 : mem0[k] = SPACE
  BY DEF StrInv, InvArgv
<1>6. Len(last) \in Nat /\ \A k \in 1 .. Len(last) : last[k] \in Nat
  BY <1>4
<1>7. \A w : w \in Words <=> /\ w \in 1 .. L /\ ByteAt(mem0, w - 1) # SPACE
                             /\ w = 1 \/ ByteAt(mem0, w - 2) = SPACE
  BY <1>2, WordStartsAre
<1> HIDE DEF L, line, Words
<1>8. ASSUME NEW w \in Words
      PROVE  \/ \E k \in 1 .. Len(last) : last[k] + 1 = w
             \/ Len(last) = SHELL_MAX_ARGS /\ last[Len(last)] + 1 < w
  <2>1. w \in 1 .. L /\ ByteAt(mem0, w - 1) # SPACE
    BY <1>7
  <2>2. CASE w <= i
    BY <1>4, <2>2
  <2>3. CASE ~ (w <= i) /\ Len(last) = SHELL_MAX_ARGS
    <3>1. Len(last) \in 1 .. Len(last)
      BY <1>2, <1>6, <2>3
    <3>2. last[Len(last)] < i /\ last[Len(last)] \in Nat
      BY <1>4, <1>6, <3>1
    <3> QED
      BY <1>2, <1>3, <2>1, <2>3, <3>2
  <2>4. CASE ~ (w <= i) /\ \A k \in i .. L - 1 : mem0[k] = SPACE
    <3>1. w - 1 \in i .. L - 1 /\ w - 1 \in Nat /\ w - 1 < M
      BY <1>2, <1>3, <2>1, <2>4
    <3>2. ByteAt(mem0, w - 1) = mem0[w - 1]
      BY <1>2, <3>1, AtIs
    <3> QED
      BY <2>1, <2>4, <3>1, <3>2
  <2> QED
    BY <1>5, <2>2, <2>3, <2>4
<1>9. ASSUME NEW k \in 1 .. Len(last)
      PROVE  last[k] + Length(mem, last[k]) = WordEnd(line, last[k] + 1) - 1
  <2> DEFINE x == last[k]
  <2>1. x \in Nat
    BY <1>6
  <2>2. PICK q \in x .. i : /\ EndsAt(mem0, x, q)
                            /\ \A j \in x .. q - 1 : mem[j] = mem0[j]
                            /\ ByteAt(mem, q) = ZERO
    BY <1>4
  <2>3. x < i
    BY <1>4
  <2> HIDE DEF x
  <2>4. q \in Nat /\ q >= x /\ q <= L /\ q - x \in Nat /\ x + (q - x) = q
    BY <1>2, <1>3, <1>4, <2>1, <2>2
  <2>5. /\ \A j \in x .. q - 1 : ByteAt(mem0, j) \notin {SPACE, ZERO}
        /\ ByteAt(mem0, q) \in {SPACE, ZERO}
    BY <2>2 DEF EndsAt
  <2>6. Length(mem, x) = q - x
    <3>1. ASSUME NEW j \in 0 .. (q - x) - 1 PROVE ByteAt(mem, x + j) # ZERO
      <4>1. x + j \in x .. q - 1 /\ x + j \in Nat /\ x + j < M
        BY <1>2, <1>3, <2>1, <2>4
      <4>2. ByteAt(mem, x + j) = mem[x + j] /\ ByteAt(mem0, x + j) = mem0[x + j]
        BY <1>2, <4>1, AtIs
      <4> QED
        BY <2>2, <2>5, <4>1, <4>2
    <3>2. ByteAt(mem, x + (q - x)) = ZERO
      BY <2>2, <2>4
    <3> QED
      BY <1>2, <2>1, <2>4, <3>1, <3>2, LengthOnly
  <2>7. /\ q + 1 \in x + 1 .. Len(line) + 1
        /\ q + 1 = Len(line) + 1 \/ line[q + 1] = SPACE
        /\ \A j \in x + 1 .. (q + 1) - 1 : line[j] # SPACE
    <3>1. q + 1 \in x + 1 .. Len(line) + 1
      BY <1>3, <2>1, <2>4
    <3>2. q + 1 = Len(line) + 1 \/ line[q + 1] = SPACE
      <4>1. CASE q = L
        BY <1>3, <4>1
      <4>2. CASE q # L
        <5>1. q + 1 \in 1 .. L /\ (q + 1) - 1 = q /\ q \in 0 .. L - 1
          BY <1>3, <2>4, <4>2
        <5>2. line[q + 1] = ByteAt(mem0, q)
          BY <1>3, <5>1
        <5>3. ByteAt(mem0, q) # ZERO
          <6>1. \A j \in 0 .. L - 1 : ByteAt(mem0, 0 + j) # ZERO
            BY <1>2, LengthIs DEF L
          <6>2. 0 + q = q
            BY <2>4
          <6> QED
            BY <5>1, <6>1, <6>2
        <5> QED
          BY <2>5, <5>2, <5>3
      <4> QED
        BY <4>1, <4>2
    <3>3. ASSUME NEW j \in x + 1 .. (q + 1) - 1 PROVE line[j] # SPACE
      <4>1. j \in 1 .. L /\ j - 1 \in x .. q - 1
        BY <1>3, <2>1, <2>4
      <4> QED
        BY <1>3, <2>5, <4>1
    <3> QED
      BY <3>1, <3>2, <3>3
  <2> DEFINE z == WordEnd(line, x + 1)
  <2>8. /\ z \in x + 1 .. Len(line) + 1
        /\ z = Len(line) + 1 \/ line[z] = SPACE
        /\ \A j \in x + 1 .. z - 1 : line[j] # SPACE
    BY <2>7 DEF WordEnd
  <2> HIDE DEF z
  <2>9. z = q + 1
    <3>1. z \in Nat /\ z >= x + 1 /\ z <= L + 1
      BY <1>3, <2>1, <2>8
    <3>2. ~ (z < q + 1)
      <4>1. z < q + 1 => z \in x + 1 .. (q + 1) - 1 /\ z # Len(line) + 1
        BY <1>3, <2>1, <2>4, <3>1
      <4> QED
        BY <2>7, <2>8, <4>1
    <3>3. ~ (q + 1 < z)
      <4>1. q + 1 < z => q + 1 \in x + 1 .. z - 1 /\ q + 1 # Len(line) + 1
        BY <1>3, <2>1, <2>4, <3>1
      <4> QED
        BY <2>7, <2>8, <4>1
    <3> QED
      BY <2>4, <3>1, <3>2, <3>3
  <2>10. x + Length(mem, x) = z - 1
    BY <2>1, <2>4, <2>6, <2>9
  <2> QED
    BY <2>10 DEF x, z
<1>10. value[1] = Len(last)
  BY <1>5
<1> QED
  <2>1. line = StringAt(mem0, a) /\ Words = WordStarts(line)
    BY <1>1 DEF line, Words
  <2>2. /\ value[1] = Len(last) /\ Len(last) <= SHELL_MAX_ARGS
        /\ \A k \in 1 .. Len(last) : last[k] + 1 \in WordStarts(line) /\ \A j \in 1 .. k - 1 : last[j] < last[k]
        /\ \A w \in WordStarts(line) : \/ \E k \in 1 .. Len(last) : last[k] + 1 = w
                                       \/ Len(last) = SHELL_MAX_ARGS /\ last[Len(last)] + 1 < w
        /\ \A k \in 1 .. Len(last) : last[k] + Length(mem, last[k]) = WordEnd(line, last[k] + 1) - 1
    BY <1>4, <1>8, <1>9, <1>10, <2>1
  <2> QED
    BY <2>1, <2>2, Zenon DEF ArgvIsWords

----------------------------------------------------------------------------
(* The theorem.                                                            *)

\* At the call every loop is at its start.
LEMMA StrInit ==
  ASSUME StringsAssumption, StringsInit
  PROVE  StrInv
<1>1. /\ mem \in [Address -> Byte] /\ mem0 = mem
      /\ fn \in StringFn /\ a \in Address /\ b \in Address /\ n \in 0 .. M
      /\ Legal(fn, mem, a, b, n) /\ value = <<>>
      /\ i = IF Backward THEN n ELSE 0
      /\ last = IF fn = "shell_parse_line" THEN <<>> ELSE <<NULL>>
  BY DEF StringsInit
<1>2. c \in Byte
  BY StrConstants DEF StringsInit
<1>3. M \in Nat /\ a \in Nat /\ b \in Nat /\ n \in Nat /\ i \in Nat /\ i <= n /\ i <= M
  BY <1>1, StrConstants
<1>4. StrTypeOK /\ LegalCall /\ InvCount
  BY <1>1, <1>2, <1>3 DEF StrTypeOK, LegalCall, InvCount
<1>5. InvCopy
  <2> DEFINE v == Wanted(fn, mem0, b, c)
  <2> HIDE DEF v
  <2>1. Put(mem0, a, n, n, v) = mem0
    BY <1>1, <1>3, PutNone
  <2>2. Put(mem0, a, 0, 0, v) = mem0
    BY <1>1, <1>3, PutNone
  <2> QED
    BY <1>1, <2>1, <2>2 DEF InvCopy, v
<1>6. i = 0 \/ fn = "memmove"
  BY <1>1 DEF Backward
<1>7. i = 0 => \A j \in 0 .. i - 1 : FALSE
  BY <1>3
<1>8. InvString /\ InvSame /\ InvNot
  BY <1>6, <1>7 DEF InvString, InvSame, InvNot
<1>9. InvLast /\ InvRead
  BY <1>1, <1>6, <1>7 DEF InvLast, InvRead
<1>10. InvParse
  <2>1. SUFFICES ASSUME fn = "shell_parse_line" PROVE InvParse
    BY DEF InvParse
  <2>2. last = <<>> /\ i = 0
    BY <1>1, <1>6, <2>1
  <2>3. last \in Seq(Nat) /\ Len(last) = 0 /\ SHELL_MAX_ARGS \in Nat
    BY <2>2, StrConstants
  <2>4. Length(mem0, 0) \in 0 .. M
    BY <1>1, LengthIs
  <2>5. i <= Length(mem0, 0)
    BY <1>3, <2>2, <2>4
  <2>6. \A k \in 1 .. Len(last) : FALSE
    BY <2>3
  <2>7. Len(last) <= SHELL_MAX_ARGS
    BY <2>3
  <2>8. \A w \in WordStarts(StringAt(mem0, 0)) : ~ (w <= i)
    <3>1. \A w \in WordStarts(StringAt(mem0, 0)) : w \in 1 .. Length(mem0, 0)
      BY <1>1, WordStartsAre
    <3> QED
      BY <2>2, <2>4, <3>1
  <2> QED
    BY <1>1, <2>2, <2>3, <2>5, <2>6, <2>7, <2>8 DEF InvParse
<1>11. CopiesExact /\ SearchesExact /\ InvArgv
  BY <1>1 DEF CopiesExact, SearchesExact, InvArgv
<1> QED
  BY <1>4, <1>5, <1>8, <1>9, <1>10, <1>11 DEF StrInv

\* No step leaves the invariant.
LEMMA StrStep ==
  ASSUME StringsAssumption, StrInv, [StringsNext]_string_vars
  PROVE  StrInv'
<1>1. CASE StringsNext
  BY <1>1, MemmoveInv, MemcpyInv, MemsetInv, MemcmpInv, MemchrInv, StrlenInv, StrcmpInv, StrncmpInv,
     StrcpyInv, StrncpyInv, StrchrInv, StrrchrInv, ParseInv DEF StringsNext
<1>2. CASE UNCHANGED string_vars
  BY <1>2 DEF string_vars, StrInv, StrTypeOK, LegalCall, InvCount, InvCopy, InvString, InvSame, InvNot, InvLast,
              InvRead, InvParse, InvArgv, CopiesExact, SearchesExact, Backward
<1> QED
  BY <1>1, <1>2

\* The loop invariants of string.c, ulib_string.c and shell_parse_line, for a
\* memory of any size.
THEOREM StringLoops ==
  ASSUME StringsAssumption
  PROVE  StringsSpec => []StrInv
<1>1. StringsInit => StrInv
  BY StrInit
<1>2. StrInv /\ [StringsNext]_string_vars => StrInv'
  BY StrStep
<1> QED
  BY <1>1, <1>2, PTL DEF StringsSpec

\* Every function of string.c and ulib_string.c, and shell_parse_line, does
\* what its caller relies on: every copy is exact, for memmove also when the
\* regions overlap, every comparison and search returns what C's library
\* promises, and the arguments of a command are the words of its line.
THEOREM StringsAreExact ==
  ASSUME StringsAssumption
  PROVE  StringsSpec => []StringsExact
<1>1. StrInv => StringsExact
  BY ArgvFollows DEF StringsExact, StrInv
<1> QED
  BY <1>1, StringLoops, PTL
=============================================================================

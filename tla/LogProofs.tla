----------------------------- MODULE LogProofs -----------------------------
(***************************************************************************)
(* The ring of the log implements the bounded queue of LogSpec.tla, for    *)
(* every size of the ring and of the line buffer and any number of harts.  *)
(***************************************************************************)
EXTENDS Log, SequenceTheorems, TLAPS

----------------------------------------------------------------------------
(* The inductive invariant.                                                *)

Line_ == {Line(b) : b \in Bodies}

\* What is left of a line when the ring is shorter.
Kept(l) == IF Len(l) > RingSize THEN SubSeq(l, Len(l) - RingSize + 1, Len(l)) ELSE l

Calls == [pc : {"none", "lock", "locked", "unlock"},
          op : {"none", "write", "peek", "read", "clear"},
          data : Seq(Char), i : Nat, max : Nat]

TypeOK ==
  /\ s_ring_buf \in [Index -> Char] /\ s_ring_head \in Index /\ s_ring_size \in 0 .. RingSize
  /\ g_log_lock \in Logger \cup {NONE}
  /\ call \in [Logger -> Calls]
  /\ before \in Seq(Char)

\* Who is between LOG_LOCK and LOG_UNLOCK holds the lock.
Exclusive == \A h \in Logger : call[h].pc \in {"locked", "unlock"} => g_log_lock = h

\* A write that waits for the lock has a whole line.
Waiting == \A h \in Logger : call[h].pc = "lock" /\ call[h].op = "write" => call[h].data \in Line_

\* A read that waits for the lock has read nothing, and may read max.
Fresh == \A h \in Logger : call[h].pc = "lock" => call[h].i = 0 /\ (call[h].op # "write" => call[h].data = <<>>) 
Sizes == \A h \in Logger : call[h].op \in {"peek", "read"} => call[h].max \in ReadSizes

\* Position j of the ring, counted from head.
Pos(j) == (s_ring_head + j) % RingSize

\* A write in progress: the first i characters of its line are in the ring, from
\* head on; of what the ring held before, the part they did not reach.
WriteHalf(h) ==
  LET d == call[h].data  i == call[h].i
  IN  /\ \E l \in Line_ : d = Kept(l)
      /\ i <= Len(d)
      /\ \A j \in 0 .. RingSize - 1 : j < i => s_ring_buf[Pos(j)] = d[j + 1]
      /\ Len(before) = s_ring_size
      /\ \A k \in 1 .. s_ring_size :
           RingSize - s_ring_size + k - 1 >= i => before[k] = s_ring_buf[Pos(RingSize - s_ring_size + k - 1)]

\* A read in progress: what it has copied is the beginning of the contents.
ReadHalf(h) ==
  LET d == call[h].data  i == call[h].i
  IN  i = Len(d) /\ i <= ToRead(h) /\ \A k \in 1 .. i : d[k] = Contents[k]

Halves == \A h \in Logger : /\ In(h, "write") => WriteHalf(h)
                            /\ In(h, "peek") \/ In(h, "read") => ReadHalf(h)

LInv == TypeOK /\ Exclusive /\ Waiting /\ Fresh /\ Sizes /\ Halves


----------------------------------------------------------------------------
(* Positions in the ring.                                                  *)

\* The remainders that occur: of numbers below twice the size of the ring.
LEMMA Wrap ==
  ASSUME LogAssumption, NEW a \in 0 .. 2 * RingSize - 1
  PROVE  a % RingSize = IF a < RingSize THEN a ELSE a - RingSize
<1> DEFINE M == RingSize
<1>1. M \in Nat \ {0}
  BY DEF LogAssumption
<1> HIDE DEF M
<1>2. a \in 0 .. 2 * M - 1 => a % M = IF a < M THEN a ELSE a - M
  BY <1>1
<1>3. QED
  BY <1>2 DEF M

\* The positions from head on are the slots of the ring, each once.
LEMMA Positions ==
  ASSUME LogAssumption, s_ring_head \in Index
  PROVE  /\ \A j \in 0 .. RingSize - 1 : /\ Pos(j) \in Index
                                         /\ Pos(j) = IF s_ring_head + j < RingSize THEN s_ring_head + j
                                                     ELSE s_ring_head + j - RingSize
         /\ \A j, k \in 0 .. RingSize - 1 : Pos(j) = Pos(k) => j = k
<1>0. RingSize \in Nat \ {0}
  BY DEF LogAssumption
<1>1. ASSUME NEW j \in 0 .. RingSize - 1
      PROVE  /\ Pos(j) \in Index
             /\ Pos(j) = IF s_ring_head + j < RingSize THEN s_ring_head + j ELSE s_ring_head + j - RingSize
  <2>1. s_ring_head + j \in 0 .. 2 * RingSize - 1
    BY <1>0 DEF Index
  <2>2. Pos(j) = IF s_ring_head + j < RingSize THEN s_ring_head + j ELSE s_ring_head + j - RingSize
    <3> DEFINE a == s_ring_head + j
    <3> HIDE DEF a
    <3>1. a \in 0 .. 2 * RingSize - 1
      BY <2>1 DEF a
    <3>2. a % RingSize = IF a < RingSize THEN a ELSE a - RingSize
      BY <3>1, Wrap
    <3>3. QED
      BY <3>2, <1>0 DEF a, Pos, Index
  <2>3. QED
    BY <2>2, <1>0 DEF Index
<1>2. ASSUME NEW j \in 0 .. RingSize - 1, NEW k \in 0 .. RingSize - 1, Pos(j) = Pos(k)
      PROVE  j = k
  BY <1>0, <1>1, <1>2 DEF Index
<1>3. QED
  BY <1>1, <1>2

\* The contents of a ring are the slots below its head, as many as its size says.
ContentsOf(buf, head, size) ==
  [k \in 1 .. size |-> buf[(((head + RingSize - size) % RingSize) + k - 1) % RingSize]]

\* The contents of a ring, character by character.
LEMMA RingContents ==
  ASSUME LogAssumption, NEW buf \in [Index -> Char], NEW head \in Index, NEW size \in 0 .. RingSize
  PROVE  LET c == ContentsOf(buf, head, size)
         IN  /\ c \in Seq(Char) /\ Len(c) = size
             /\ \A k \in 1 .. size : /\ RingSize - size + k - 1 \in 0 .. RingSize - 1
                                     /\ c[k] = buf[(head + (RingSize - size + k - 1)) % RingSize]
<1> DEFINE tail == (head + RingSize - size) % RingSize  c == ContentsOf(buf, head, size)
<1>0. RingSize \in Nat \ {0} /\ head \in 0 .. RingSize - 1
  BY DEF LogAssumption, Index
<1>1. ASSUME NEW k \in 1 .. size
      PROVE  /\ RingSize - size + k - 1 \in 0 .. RingSize - 1
             /\ (tail + k - 1) % RingSize = (head + (RingSize - size + k - 1)) % RingSize
             /\ (tail + k - 1) % RingSize \in Index
  <2> DEFINE a == head + RingSize - size  b == tail + k - 1  e == head + (RingSize - size + k - 1)
  <2>1. a \in 0 .. 2 * RingSize - 1 /\ e \in 0 .. 2 * RingSize - 1 /\ RingSize - size + k - 1 \in 0 .. RingSize - 1
    BY <1>0
  <2>2. tail = IF a < RingSize THEN a ELSE a - RingSize
    BY <2>1, <1>0, Wrap
  <2> HIDE DEF tail
  <2>3. b \in 0 .. 2 * RingSize - 1
    BY <2>2, <1>0
  <2>4. b = e \/ b = e - RingSize \/ b = e + RingSize
    BY <2>2, <1>0
  <2> HIDE DEF b, e
  <2>5. b % RingSize = (IF b < RingSize THEN b ELSE b - RingSize) /\ e % RingSize = (IF e < RingSize THEN e ELSE e - RingSize)
    BY <2>1, <2>3, Wrap
  <2>6. b % RingSize = e % RingSize /\ b % RingSize \in Index
    BY <2>1, <2>3, <2>4, <2>5, <1>0 DEF Index
  <2>7. QED
    BY <2>1, <2>6 DEF b, e
<1>2. \A k \in 1 .. size : c[k] = buf[(tail + k - 1) % RingSize]
  BY DEF ContentsOf
<1> HIDE DEF tail
<1>3. \A k \in 1 .. size : c[k] = buf[(head + (RingSize - size + k - 1)) % RingSize] /\ c[k] \in Char
  BY <1>1, <1>2
<1>4. c = [k \in 1 .. size |-> c[k]]
  BY DEF ContentsOf
<1> HIDE DEF c
<1>5. c \in [1 .. size -> Char]
  BY <1>3, <1>4
<1>6. c \in Seq(Char) /\ Len(c) = size
  <2>1. size \in Nat
    BY <1>0
  <2>2. c \in Seq(Char)
    BY <1>5, <2>1
  <2>3. Len(c) = size
    BY <1>5, <2>1, <2>2
  <2>4. QED
    BY <2>2, <2>3
<1>7. QED
  BY <1>1, <1>3, <1>6 DEF c

\* The contents of the ring of the log.
LEMMA ContentsAt ==
  ASSUME LogAssumption, TypeOK
  PROVE  /\ Contents \in Seq(Char) /\ Len(Contents) = s_ring_size
         /\ \A k \in 1 .. s_ring_size :
              /\ RingSize - s_ring_size + k - 1 \in 0 .. RingSize - 1
              /\ Contents[k] = s_ring_buf[Pos(RingSize - s_ring_size + k - 1)]
<1>1. /\ s_ring_buf \in [Index -> Char] /\ s_ring_head \in Index /\ s_ring_size \in 0 .. RingSize
  BY DEF TypeOK
<1>2. Contents = ContentsOf(s_ring_buf, s_ring_head, s_ring_size)
  BY DEF Contents, Tail_, ContentsOf
<1>3. QED
  BY <1>1, <1>2, RingContents DEF Pos

\* A line is a sequence of characters, and what is kept of it fits the ring.
LEMMA LineKept ==
  ASSUME LogAssumption, NEW l \in Line_
  PROVE  /\ l \in Seq(Char)
         /\ Kept(l) \in Seq(Char) /\ Len(Kept(l)) <= RingSize
<1>0. RingSize \in Nat \ {0} /\ LOG_BUFFER_SIZE \in Nat /\ LOG_BUFFER_SIZE > 1 /\ NL \in Char
  BY DEF LogAssumption, Char
<1>1. PICK b \in Bodies : l = Line(b)
  BY DEF Line_
<1>2. b \in Seq(Char) /\ Len(b) \in Nat
  BY DEF LogAssumption
<1>3. l \in Seq(Char)
  <2>1. CASE Len(b) < LOG_BUFFER_SIZE - 1
    BY <2>1, <1>0, <1>1, <1>2 DEF Line
  <2>2. CASE ~(Len(b) < LOG_BUFFER_SIZE - 1)
    <3>1. l = SubSeq(b, 1, LOG_BUFFER_SIZE - 1)
      BY <2>2, <1>1 DEF Line
    <3>2. \A j \in 1 .. LOG_BUFFER_SIZE - 1 : b[j] \in Char
      BY <1>0, <1>2, <2>2
    <3>3. QED
      BY <3>1, <3>2, <1>0, SubSeqProperties
  <2>3. QED
    BY <2>1, <2>2
<1>4. CASE Len(l) > RingSize
  <2>0. Len(l) \in Nat
    BY <1>3
  <2>1. Kept(l) = SubSeq(l, Len(l) - RingSize + 1, Len(l))
    BY <1>4 DEF Kept
  <2>2. \A j \in Len(l) - RingSize + 1 .. Len(l) : l[j] \in Char
    BY <1>0, <1>3, <1>4
  <2>3. Kept(l) \in Seq(Char) /\ Len(Kept(l)) = RingSize
    BY <1>0, <2>0, <2>1, <2>2, <1>4, SubSeqProperties
  <2>4. QED
    BY <2>3, <1>3, <1>0
<1>5. CASE ~(Len(l) > RingSize)
  BY <1>3, <1>5, <1>0 DEF Kept
<1>6. QED
  BY <1>4, <1>5


----------------------------------------------------------------------------
(* The invariant is inductive.                                             *)

\* The invariant holds initially.
LEMMA InitInv ==
  ASSUME LogAssumption, LoggingInit
  PROVE  LInv
<1>1. Returned \in Calls
  BY DEF Returned, Calls
<1>2. call = [h \in Logger |-> Returned] /\ \A h \in Logger : call[h] = Returned
  BY DEF LoggingInit
<1>3. TypeOK
  <2>1. RingSize \in Nat \ {0} /\ NL \in Char
    BY DEF LogAssumption, Char
  <2>2. s_ring_buf \in [Index -> Char] /\ s_ring_head \in Index /\ s_ring_size \in 0 .. RingSize
    BY <2>1 DEF LoggingInit, Index
  <2>3. before \in Seq(Char) /\ g_log_lock \in Logger \cup {NONE}
    BY DEF LoggingInit
  <2>4. QED
    BY <1>1, <1>2, <2>2, <2>3 DEF TypeOK
<1>4. \A h \in Logger : call[h].pc = "none" /\ call[h].op = "none"
  BY <1>2 DEF Returned
<1>5. QED
  BY <1>3, <1>4 DEF LInv, Exclusive, Waiting, Fresh, Sizes, Halves, In

\* A hart whose call, and the ring, did not change is where it was.
LEMMA HalvesKept ==
  ASSUME NEW g \in Logger, call'[g] = call[g], UNCHANGED <<ring, before>>
  PROVE  /\ WriteHalf(g) => WriteHalf(g)'
         /\ ReadHalf(g) => ReadHalf(g)'
         /\ \A op : In(g, op)' <=> In(g, op)
         /\ Contents' = Contents
BY DEF WriteHalf, ReadHalf, In, Contents, Tail_, ToRead, Pos, ring, Line_

\* A hart calls a function of the log.
LEMMA CallStep ==
  ASSUME LogAssumption, LInv, NEW h \in Logger, NEW data \in Seq(Char), NEW max \in Nat,
         NEW op \in {"write", "peek", "read", "clear"}, Call(h, op, data, max),
         op = "write" => data \in Line_, op # "write" => data = <<>>,
         op \in {"peek", "read"} => max \in ReadSizes
  PROVE  LInv'
<1> DEFINE c == [pc |-> "lock", op |-> op, data |-> data, i |-> 0, max |-> max]
<1>1. /\ call' = [call EXCEPT ![h] = c] /\ call[h].pc = "none"
      /\ UNCHANGED <<ring, s_log_level, g_log_lock, ret, before>>
      /\ s_ring_buf' = s_ring_buf /\ s_ring_head' = s_ring_head /\ s_ring_size' = s_ring_size
  BY DEF Call, ring
<1>2. c \in Calls
  BY DEF Calls
<1>3. TypeOK'
  BY <1>1, <1>2 DEF LInv, TypeOK
<1>4. call'[h] = c /\ \A g \in Logger \ {h} : call'[g] = call[g]
  BY <1>1 DEF LInv, TypeOK
<1>5. Exclusive' /\ Waiting' /\ Fresh' /\ Sizes'
  BY <1>1, <1>4 DEF LInv, Exclusive, Waiting, Fresh, Sizes, Line_
<1>6. Halves'
  <2>1. \A o : ~In(h, o)'
    BY <1>4 DEF In
  <2>2. \A g \in Logger \ {h} : /\ In(g, "write")' => WriteHalf(g)'
                                /\ In(g, "peek")' \/ In(g, "read")' => ReadHalf(g)'
    BY <1>1, <1>4, HalvesKept DEF LInv, Halves
  <2>3. QED
    BY <2>1, <2>2 DEF Halves
<1>7. QED
  BY <1>3, <1>5, <1>6 DEF LInv

\* LOG_LOCK preserves the invariant.
LEMMA LockStep ==
  ASSUME LogAssumption, LInv, NEW h \in Logger, LOG_LOCK(h)
  PROVE  LInv'
<1> DEFINE c == [call[h] EXCEPT !.pc = "locked", !.data = Data(h)]
<1>0. call[h] \in Calls /\ call \in [Logger -> Calls]
  BY DEF LInv, TypeOK
<1>1. /\ call' = [call EXCEPT ![h] = c] /\ call[h].pc = "lock" /\ g_log_lock = NONE
      /\ g_log_lock' = h /\ UNCHANGED <<ring, s_log_level, ret>>
      /\ before' = IF call[h].op = "write" THEN Contents ELSE before
      /\ s_ring_buf' = s_ring_buf /\ s_ring_head' = s_ring_head /\ s_ring_size' = s_ring_size
  BY DEF LOG_LOCK, ring
<1>2. Data(h) = Kept(call[h].data)
  BY DEF Data, Kept
<1>3. call[h].op = "write" => call[h].data \in Line_ /\ Data(h) \in Seq(Char)
  BY <1>1, <1>2, LineKept DEF LInv, Waiting
<1>4. call[h].op # "write" => Data(h) = <<>>
  <2>1. SUFFICES ASSUME call[h].op # "write" PROVE Data(h) = <<>>
    OBVIOUS
  <2>2. call[h].data = <<>>
    BY <1>1, <2>1 DEF LInv, Fresh
  <2>3. RingSize \in Nat \ {0} /\ Len(<<>>) = 0
    BY DEF LogAssumption
  <2>4. QED
    BY <2>2, <2>3 DEF Data
<1>5. Data(h) \in Seq(Char)
  <2>1. <<>> \in Seq(Char)
    OBVIOUS
  <2>2. QED
    BY <1>3, <1>4, <2>1, Zenon
<1>6. /\ c.pc = "locked" /\ c.op = call[h].op /\ c.data = Data(h)
      /\ c.i = call[h].i /\ c.max = call[h].max /\ c \in Calls
  BY <1>0, <1>5 DEF Calls
<1> HIDE DEF c
<1>7. call'[h] = c /\ \A g \in Logger \ {h} : call'[g] = call[g]
  BY <1>0, <1>1
<1>8. before' \in Seq(Char)
  BY <1>1, ContentsAt DEF LInv, TypeOK
<1>9. TypeOK'
  <2>1. call' \in [Logger -> Calls]
    BY <1>0, <1>1, <1>6
  <2>2. QED
    BY <1>1, <1>8, <2>1 DEF LInv, TypeOK
<1>10. \A g \in Logger : call[g].pc \notin {"locked", "unlock"}
  BY <1>1 DEF LInv, Exclusive, LogAssumption
<1>11. Exclusive' /\ Waiting' /\ Fresh' /\ Sizes'
  BY <1>1, <1>6, <1>7, <1>10 DEF LInv, Exclusive, Waiting, Fresh, Sizes, Line_
<1>12. \A g \in Logger \ {h} : \A o : ~In(g, o)'
  BY <1>7, <1>10 DEF In
<1>13. call'[h].i = 0 /\ call'[h].data = Data(h)
  BY <1>1, <1>6, <1>7 DEF LInv, Fresh
<1>14. ASSUME In(h, "write")' PROVE WriteHalf(h)'
  <2>1. call[h].op = "write"
    BY <1>14, <1>6, <1>7 DEF In
  <2>2. \E l \in Line_ : Data(h) = Kept(l)
    BY <2>1, <1>2, <1>3
  <2>3. /\ before' = Contents /\ Len(Contents) = s_ring_size
        /\ \A k \in 1 .. s_ring_size : Contents[k] = s_ring_buf[Pos(RingSize - s_ring_size + k - 1)]
    BY <2>1, <1>1, ContentsAt DEF LInv
  <2>4. Len(Data(h)) \in Nat
    BY <1>5
  <2>5. QED
    BY <2>2, <2>3, <2>4, <1>1, <1>13 DEF WriteHalf, Pos, Line_
<1>15. ASSUME In(h, "peek")' \/ In(h, "read")' PROVE ReadHalf(h)'
  <2>1. call'[h].data = <<>>
    BY <1>4, <1>6, <1>7, <1>15 DEF In
  <2>2. 0 <= ToRead(h)'
    BY <1>9 DEF ToRead, TypeOK, Calls
  <2>3. QED
    BY <2>1, <2>2, <1>13 DEF ReadHalf
<1>16. QED
  BY <1>9, <1>11, <1>12, <1>14, <1>15 DEF LInv, Halves

\* LOG_UNLOCK preserves the invariant.
LEMMA UnlockStep ==
  ASSUME LogAssumption, LInv, NEW h \in Logger, LOG_UNLOCK(h)
  PROVE  LInv'
<1>0. call[h] \in Calls /\ call \in [Logger -> Calls]
  BY DEF LInv, TypeOK
<1>1. /\ call' = [call EXCEPT ![h] = Returned] /\ call[h].pc = "unlock"
      /\ g_log_lock' = NONE /\ UNCHANGED <<ring, s_log_level, ret, before>>
      /\ s_ring_buf' = s_ring_buf /\ s_ring_head' = s_ring_head /\ s_ring_size' = s_ring_size
  BY DEF LOG_UNLOCK, ring
<1>2. call'[h] = Returned /\ \A g \in Logger \ {h} : call'[g] = call[g]
  BY <1>0, <1>1
<1>3. TypeOK'
  BY <1>1 DEF LInv, TypeOK, Returned, Calls
<1>4. \A g \in Logger \ {h} : call[g].pc \notin {"locked", "unlock"}
  BY <1>1 DEF LInv, Exclusive
<1>5. Exclusive' /\ Waiting' /\ Fresh' /\ Sizes'
  BY <1>1, <1>2, <1>4 DEF LInv, Exclusive, Waiting, Fresh, Sizes, Returned, Line_
<1>6. Halves'
  BY <1>2, <1>4 DEF Halves, In, Returned
<1>7. QED
  BY <1>3, <1>5, <1>6 DEF LInv


\* While a hart holds the lock, no other is in a write or a read.
LEMMA Alone ==
  ASSUME LInv, NEW h \in Logger, call[h].pc \in {"locked", "unlock"}
  PROVE  /\ g_log_lock = h
         /\ \A g \in Logger \ {h} : call[g].pc \notin {"locked", "unlock"}
BY DEF LInv, Exclusive

\* A step of the hart h that holds the lock and leaves everything but its place
\* in the call alone; the type of the ring and the progress of h remain to show.
LEMMA HolderStep ==
  ASSUME LInv, NEW h \in Logger, call[h].pc = "locked", NEW c \in Calls,
         call' = [call EXCEPT ![h] = c], c.op = call[h].op, c.max = call[h].max,
         c.pc \in {"locked", "unlock"}, UNCHANGED <<g_log_lock, before>>,
         s_ring_buf' \in [Index -> Char], s_ring_head' \in Index, s_ring_size' \in 0 .. RingSize,
         In(h, "write")' => WriteHalf(h)',
         In(h, "peek")' \/ In(h, "read")' => ReadHalf(h)'
  PROVE  LInv'
<1>1. call'[h] = c /\ (\A g \in Logger \ {h} : call'[g] = call[g]) /\ call' \in [Logger -> Calls]
  BY DEF LInv, TypeOK
<1>2. TypeOK'
  BY <1>1 DEF LInv, TypeOK
<1>3. g_log_lock = h /\ \A g \in Logger \ {h} : call[g].pc \notin {"locked", "unlock"}
  BY Alone
<1>4. Exclusive' /\ Waiting' /\ Fresh' /\ Sizes'
  BY <1>1, <1>3 DEF LInv, Exclusive, Waiting, Fresh, Sizes, Line_
<1>5. \A g \in Logger \ {h} : \A o : ~In(g, o)'
  BY <1>1, <1>3 DEF In
<1>6. QED
  BY <1>2, <1>4, <1>5 DEF LInv, Halves

\* One character is written, over the oldest one if the ring is full.
LEMMA WriteCharStep ==
  ASSUME LogAssumption, LInv, NEW h \in Logger, ring_write_char(h)
  PROVE  LInv'
<1> DEFINE d == call[h].data  i == call[h].i  c == [call[h] EXCEPT !.i = i + 1]
           s == s_ring_size
<1>0. call[h] \in Calls /\ i \in Nat /\ d \in Seq(Char) /\ RingSize \in Nat \ {0} /\ s \in 0 .. RingSize
      /\ s_ring_buf \in [Index -> Char] /\ s_ring_head \in Index /\ Len(d) \in Nat
  BY DEF LInv, TypeOK, Calls, LogAssumption
<1>1. /\ call' = [call EXCEPT ![h] = c] /\ call[h].pc = "locked" /\ call[h].op = "write"
      /\ i < Len(d) /\ s_ring_buf' = [s_ring_buf EXCEPT ![Pos(i)] = d[i + 1]]
      /\ s_ring_head' = s_ring_head /\ s_ring_size' = s_ring_size
      /\ UNCHANGED <<g_log_lock, before>>
  BY DEF ring_write_char, In, Pos
<1>2. /\ c \in Calls /\ c.pc = "locked" /\ c.op = call[h].op /\ c.max = call[h].max
      /\ c.data = d /\ c.i = i + 1
  BY <1>0, <1>1 DEF Calls
<1>3. WriteHalf(h)
  BY <1>1 DEF LInv, Halves, In
<1>4. Len(d) <= RingSize
  <2>1. PICK l \in Line_ : d = Kept(l)
    BY <1>3 DEF WriteHalf
  <2>2. QED
    BY <2>1, LineKept
<1>5. i \in 0 .. RingSize - 1 /\ Pos(i) \in Index
  BY <1>0, <1>1, <1>4, Positions
<1>6. call'[h] = c
  BY <1>1 DEF LInv, TypeOK
<1>7. s_ring_buf' \in [Index -> Char]
  BY <1>0, <1>1, <1>5
<1>8. s_ring_buf'[Pos(i)] = d[i + 1]
      /\ \A j \in 0 .. RingSize - 1 : j # i => s_ring_buf'[Pos(j)] = s_ring_buf[Pos(j)]
  <2>1. \A j \in 0 .. RingSize - 1 : Pos(j) \in Index /\ (j # i => Pos(j) # Pos(i))
    BY <1>0, <1>5, Positions
  <2>2. QED
    BY <1>0, <1>1, <1>5, <2>1
<1>9. WriteHalf(h)'
  <2>1. \E l \in Line_ : d = Kept(l)
    BY <1>3 DEF WriteHalf
  <2>2. \A j \in 0 .. RingSize - 1 : j < i => s_ring_buf[Pos(j)] = d[j + 1]
    BY <1>3 DEF WriteHalf
  <2>3. \A j \in 0 .. RingSize - 1 : j < i + 1 => s_ring_buf'[Pos(j)] = d[j + 1]
    BY <2>2, <1>0, <1>8
  <2>4. Len(before) = s /\ \A k \in 1 .. s :
          RingSize - s + k - 1 >= i => before[k] = s_ring_buf[Pos(RingSize - s + k - 1)]
    BY <1>3 DEF WriteHalf
  <2>5. \A k \in 1 .. s :
          RingSize - s + k - 1 >= i + 1 => before[k] = s_ring_buf'[Pos(RingSize - s + k - 1)]
    <3>1. SUFFICES ASSUME NEW k \in 1 .. s, RingSize - s + k - 1 >= i + 1
                   PROVE  before[k] = s_ring_buf'[Pos(RingSize - s + k - 1)]
      OBVIOUS
    <3>2. RingSize - s + k - 1 \in 0 .. RingSize - 1 /\ RingSize - s + k - 1 # i /\ RingSize - s + k - 1 >= i
      BY <1>0, <3>1
    <3>3. QED
      BY <3>2, <2>4, <1>8
  <2>6. \A j : Pos(j)' = Pos(j)
    BY <1>1 DEF Pos
  <2> HIDE DEF d, i, c, s
  <2>7. i + 1 <= Len(d)
    BY <1>0, <1>1
  <2>8. QED
    BY <2>1, <2>3, <2>4, <2>5, <2>6, <2>7, <1>1, <1>2, <1>6, SMTT(30) DEF WriteHalf, Line_, s
<1>10. ~(In(h, "peek")' \/ In(h, "read")')
  BY <1>1, <1>2, <1>6 DEF In
<1> HIDE DEF c
<1>11. QED
  BY <1>0, <1>1, <1>2, <1>7, <1>9, <1>10, HolderStep

\* One character is copied out.
LEMMA PeekCharStep ==
  ASSUME LogAssumption, LInv, NEW h \in Logger, ring_peek_char(h)
  PROVE  LInv'
<1> DEFINE d == call[h].data  i == call[h].i
           x == s_ring_buf[(Tail_ + i) % RingSize]
           c == [call[h] EXCEPT !.i = i + 1, !.data = Append(d, x)]
<1>0. call[h] \in Calls /\ i \in Nat /\ d \in Seq(Char) /\ call[h].max \in Nat
      /\ s_ring_size \in 0 .. RingSize /\ RingSize \in Nat \ {0}
  BY DEF LInv, TypeOK, Calls, LogAssumption
<1>1. /\ call' = [call EXCEPT ![h] = c] /\ call[h].pc = "locked" /\ call[h].op \in {"peek", "read"}
      /\ i < ToRead(h) /\ UNCHANGED <<g_log_lock, before>>
      /\ s_ring_buf' = s_ring_buf /\ s_ring_head' = s_ring_head /\ s_ring_size' = s_ring_size
  BY DEF ring_peek_char, In, ring
<1>2. ToRead(h) \in Nat /\ ToRead(h) <= s_ring_size
  BY <1>0 DEF ToRead
<1>3. Contents \in Seq(Char) /\ Len(Contents) = s_ring_size /\ i + 1 \in 1 .. s_ring_size
  BY <1>0, <1>1, <1>2, ContentsAt DEF LInv
<1>4. x = Contents[i + 1]
  <2>1. Contents[i + 1] = s_ring_buf[(Tail_ + (i + 1) - 1) % RingSize]
    BY <1>3 DEF Contents
  <2>2. Tail_ \in Int
    BY <1>0 DEF Tail_, LInv, TypeOK, Index
  <2>3. Tail_ + (i + 1) - 1 = Tail_ + i
    BY <2>2, <1>0
  <2>4. QED
    BY <2>1, <2>3
<1>5. x \in Char
  BY <1>3, <1>4
<1> HIDE DEF x
<1>6. /\ c \in Calls /\ c.pc = "locked" /\ c.op = call[h].op /\ c.max = call[h].max
      /\ c.data = Append(d, x) /\ c.i = i + 1
  <2> DEFINE e == Append(d, x)
  <2>1. e \in Seq(Char) /\ i + 1 \in Nat
    BY <1>0, <1>5
  <2> HIDE DEF e
  <2>2. [call[h] EXCEPT !.i = i + 1, !.data = e] \in Calls
    BY <1>0, <2>1 DEF Calls
  <2>3. QED
    BY <2>2, <1>0, <1>1 DEF e, Calls
<1>7. call'[h] = c
  BY <1>1 DEF LInv, TypeOK
<1>8. ReadHalf(h)
  BY <1>1 DEF LInv, Halves, In
<1>9. i = Len(d) /\ \A k \in 1 .. i : d[k] = Contents[k]
  BY <1>8 DEF ReadHalf
<1>10. ReadHalf(h)'
  <2>1. Len(Append(d, x)) = i + 1 /\ \A k \in 1 .. i + 1 : Append(d, x)[k] = Contents[k]
    BY <1>0, <1>4, <1>5, <1>9
  <2>2. Contents' = Contents
    BY <1>1 DEF Contents, Tail_
  <2>3. ToRead(h)' = ToRead(h) /\ i + 1 <= ToRead(h)
    BY <1>0, <1>1, <1>2, <1>6, <1>7 DEF ToRead
  <2> HIDE DEF c
  <2>4. QED
    BY <2>1, <2>2, <2>3, <1>6, <1>7 DEF ReadHalf
<1>11. ~In(h, "write")'
  BY <1>1, <1>6, <1>7 DEF In
<1>12. s_ring_buf' \in [Index -> Char] /\ s_ring_head' \in Index /\ s_ring_size' \in 0 .. RingSize
  BY <1>1 DEF LInv, TypeOK
<1> HIDE DEF c
<1>13. QED
  BY <1>1, <1>6, <1>10, <1>11, <1>12, HolderStep


\* The three steps after which a call is over.
LEMMA LastStep ==
  ASSUME LogAssumption, LInv, NEW h \in Logger,
         ring_write(h) \/ ring_peek_internal(h) \/ ring_clear(h)
  PROVE  LInv'
<1> DEFINE i == call[h].i  c == [call[h] EXCEPT !.pc = "unlock"]
<1>0. call[h] \in Calls /\ i \in Nat /\ s_ring_size \in 0 .. RingSize /\ RingSize \in Nat \ {0}
      /\ s_ring_buf \in [Index -> Char] /\ s_ring_head \in Index /\ call[h].max \in Nat
  BY DEF LInv, TypeOK, Calls, LogAssumption
<1>1. /\ call' = [call EXCEPT ![h] = c] /\ call[h].pc = "locked"
      /\ UNCHANGED <<g_log_lock, before>> /\ s_ring_buf' = s_ring_buf
  BY DEF ring_write, ring_peek_internal, ring_clear, In
<1>2. c \in Calls /\ c.pc = "unlock" /\ c.op = call[h].op /\ c.max = call[h].max
  BY <1>0 DEF Calls
<1>3. s_ring_head' \in Index /\ s_ring_size' \in 0 .. RingSize
  <2>1. CASE ring_write(h)
    <3>1. s_ring_head' = (s_ring_head + i) % RingSize
      BY <2>1 DEF ring_write
    <3>2. s_ring_head' \in Index
      <4> PICK M, a : M = RingSize /\ a = s_ring_head + i
        OBVIOUS
      <4>1. M \in Nat \ {0} /\ a \in Nat
        BY <1>0 DEF Index
      <4>2. a % M \in 0 .. M - 1
        BY ONLY <4>1
      <4>3. QED
        BY ONLY <3>1, <4>2, M = RingSize /\ a = s_ring_head + i DEF Index
    <3>3. QED
      BY <2>1, <3>2, <1>0 DEF ring_write
  <2>2. CASE ring_peek_internal(h)
    BY <2>2, <1>0 DEF ring_peek_internal, ToRead
  <2>3. CASE ring_clear(h)
    BY <2>3, <1>0 DEF ring_clear
  <2>4. QED
    BY <2>1, <2>2, <2>3
<1>4. \A o : ~In(h, o)'
  BY <1>1, <1>2 DEF In, LInv, TypeOK
<1> HIDE DEF c
<1>5. QED
  BY <1>0, <1>1, <1>2, <1>3, <1>4, HolderStep

\* Steps that do not touch the ring or a call.
LEMMA StutterStep ==
  ASSUME LInv, UNCHANGED <<ring, g_log_lock, call, before>>
  PROVE  LInv'
<1>1. TypeOK' /\ Exclusive' /\ Waiting' /\ Fresh' /\ Sizes'
  BY DEF LInv, TypeOK, Exclusive, Waiting, Fresh, Sizes, Line_, ring
<1>2. Halves'
  <2>1. SUFFICES ASSUME NEW g \in Logger
                 PROVE  (In(g, "write") => WriteHalf(g))'
                        /\ (In(g, "peek") \/ In(g, "read") => ReadHalf(g))'
    BY DEF Halves
  <2>2. QED
    BY HalvesKept DEF LInv, Halves
<1>3. QED
  BY <1>1, <1>2 DEF LInv

\* Every step preserves the invariant.
LEMMA NextInv ==
  ASSUME LogAssumption, LInv, [LoggingNext]_log_vars
  PROVE  LInv'
<1>1. ASSUME NEW l \in Levels, log_set_level(l) PROVE LInv'
  BY <1>1, StutterStep DEF log_set_level
<1>2. ASSUME NEW h \in Logger, NEW l \in Levels, NEW b \in Bodies, log_vprintf(h, l, b) PROVE LInv'
  <2>1. Line(b) \in Line_ /\ Line(b) \in Seq(Char)
    BY LineKept DEF Line_
  <2>2. Call(h, "write", Line(b), 0)
    BY <1>2 DEF log_vprintf
  <2>3. QED
    BY <2>1, <2>2, CallStep
<1>3. ASSUME NEW h \in Logger, NEW max \in ReadSizes, log_ring_peek(h, max) \/ log_ring_read(h, max)
      PROVE  LInv'
  <2>1. max \in Nat /\ <<>> \in Seq(Char)
    BY DEF LogAssumption
  <2>2. Call(h, "peek", <<>>, max) \/ Call(h, "read", <<>>, max)
    BY <1>3 DEF log_ring_peek, log_ring_read
  <2>3. QED
    BY <2>1, <2>2, CallStep
<1>4. ASSUME NEW h \in Logger, log_ring_clear(h) PROVE LInv'
  <2>1. <<>> \in Seq(Char)
    OBVIOUS
  <2>2. Call(h, "clear", <<>>, 0)
    BY <1>4 DEF log_ring_clear
  <2>3. QED
    BY <2>1, <2>2, CallStep
<1>5. ASSUME NEW h \in Logger, spin(h) PROVE LInv'
  BY <1>5, StutterStep DEF spin, log_vars
<1>6. ASSUME NEW h \in Logger, Step(h) PROVE LInv'
  BY <1>6, LockStep, UnlockStep, WriteCharStep, PeekCharStep, LastStep DEF Step
<1>7. ASSUME UNCHANGED log_vars PROVE LInv'
  BY <1>7, StutterStep DEF log_vars
<1>8. QED
  BY <1>1, <1>2, <1>3, <1>4, <1>5, <1>6, <1>7 DEF LoggingNext

\* The invariant, for every size of the ring and of the line buffer.
THEOREM RingInvariant ==
  ASSUME LogAssumption
  PROVE  LoggingSpec => []LInv
<1>1. LoggingInit => LInv
  BY InitInv
<1>2. LInv /\ [LoggingNext]_log_vars => LInv'
  BY NextInv
<1>3. QED
  BY <1>1, <1>2, PTL DEF LoggingSpec


----------------------------------------------------------------------------
(* The refinement.                                                         *)

\* What the abstract log is, in a state of the ring.
Bar == IF Writing THEN before ELSE Contents

\* Two sequences of characters with the same elements are the same.
LEMMA SameChars ==
  ASSUME NEW s \in Seq(Char), NEW t \in Seq(Char), Len(s) = Len(t),
         \A k \in 1 .. Len(s) : s[k] = t[k]
  PROVE  s = t
OBVIOUS

\* An empty ring has no contents.
LEMMA EmptyContents ==
  ASSUME s_ring_size = 0
  PROVE  Contents = <<>>
BY DEF Contents

\* A step of a call that neither starts nor ends a write, nor changes the ring.
LEMMA BarKept ==
  ASSUME UNCHANGED <<ring, before>>, Writing' <=> Writing
  PROVE  Bar' = Bar
BY DEF Bar, Contents, Tail_, ring

\* Who holds the lock decides whether a write is in progress.
LEMMA WriterHolds ==
  ASSUME LInv, NEW h \in Logger, call[h].pc \in {"locked", "unlock"}
  PROVE  Writing <=> In(h, "write")
BY Alone DEF Writing, In

\* The first n characters of d stand behind head, and of the s characters old
\* that the ring held those that they did not reach are still there.
Laid(buf, head, d, n) == \A j \in 0 .. RingSize - 1 : j < n => buf[(head + j) % RingSize] = d[j + 1]
Spared(buf, head, old, s, n) ==
  \A m \in 1 .. s : RingSize - s + m - 1 >= n => old[m] = buf[(head + (RingSize - s + m - 1)) % RingSize]

\* The z elements of c are the last ones of old, of length s, and d, of length n.
Spliced(c, old, s, d, n, z) ==
  \A k \in 1 .. z : c[k] = IF k + s + n - z <= s THEN old[k + s + n - z] ELSE d[k + n - z]

\* What the ring holds once head and size have moved.
LEMMA RingAppend ==
  ASSUME LogAssumption, NEW buf \in [Index -> Char], NEW head \in 0 .. RingSize - 1,
         NEW s \in 0 .. RingSize, NEW n \in 0 .. RingSize,
         NEW old, NEW d, Laid(buf, head, d, n), Spared(buf, head, old, s, n),
         NEW z \in 0 .. RingSize, z = (IF s + n >= RingSize THEN RingSize ELSE s + n)
  PROVE  Spliced(ContentsOf(buf, (head + n) % RingSize, z), old, s, d, n, z)
<1> DEFINE head2 == (head + n) % RingSize  c == ContentsOf(buf, head2, z)
<1>1. head2 \in Index
  BY DEF Index, LogAssumption
<1>2. SUFFICES ASSUME NEW k \in 1 .. z
               PROVE  c[k] = IF k + s + n - z <= s THEN old[k + s + n - z] ELSE d[k + n - z]
  BY DEF Spliced
<1>3. buf[(head2 + (RingSize - z + k - 1)) % RingSize] =
        IF k + s + n - z <= s THEN old[k + s + n - z] ELSE d[k + n - z]
  <2> DEFINE f == head + n  g == (f % RingSize) + (RingSize - z + k - 1)
  <2>0. RingSize \in Nat \ {0}
    BY DEF LogAssumption
  <2>1. f \in 0 .. 2 * RingSize - 1
    BY <2>0
  <2>2. f % RingSize = IF f < RingSize THEN f ELSE f - RingSize
    <3> HIDE DEF f
    <3>1. QED
      BY <2>1, Wrap
  <2>3. g \in 0 .. 2 * RingSize - 1 /\ (g = f + (RingSize - z + k - 1) \/ g = f + (RingSize - z + k - 1) - RingSize)
    <3> DEFINE y == f % RingSize
    <3>1. y \in 0 .. RingSize - 1 /\ (y = f \/ y = f - RingSize)
      BY <2>0, <2>1, <2>2
    <3>2. g = y + (RingSize - z + k - 1)
      OBVIOUS
    <3>3. f \in Int
      OBVIOUS
    <3> HIDE DEF y, f, g
    <3>4. QED
      BY <3>1, <3>2, <3>3, <2>0
  <2> HIDE DEF g
  <2>4. g % RingSize = IF g < RingSize THEN g ELSE g - RingSize
    BY <2>3, Wrap
  <2>5. CASE k + s + n - z <= s
    <3> DEFINE m == k + s + n - z  e == head + (RingSize - s + m - 1)
    <3>1. m \in 1 .. s /\ RingSize - s + m - 1 >= n /\ e \in 0 .. 2 * RingSize - 1
          /\ (e = g \/ e = g - RingSize \/ e = g + RingSize)
      BY <2>0, <2>3, <2>5
    <3>2. old[m] = buf[e % RingSize]
      BY <3>1 DEF Spared
    <3> HIDE DEF m, e
    <3>3. e % RingSize = IF e < RingSize THEN e ELSE e - RingSize
      BY <3>1, Wrap
    <3>4. e % RingSize = g % RingSize
      BY <3>1, <3>3, <2>0, <2>3, <2>4
    <3>5. QED
      BY <3>2, <3>4, <2>5 DEF m, g
  <2>6. CASE ~(k + s + n - z <= s)
    <3> DEFINE m == k + n - z - 1  e == head + m
    <3>1. m \in 0 .. RingSize - 1 /\ m < n /\ e \in 0 .. 2 * RingSize - 1 /\ m + 1 = k + n - z
          /\ (e = g \/ e = g - RingSize \/ e = g + RingSize)
      BY <2>0, <2>3, <2>6
    <3>2. d[m + 1] = buf[e % RingSize]
      BY <3>1 DEF Laid
    <3> HIDE DEF m, e
    <3>3. e % RingSize = IF e < RingSize THEN e ELSE e - RingSize
      BY <3>1, Wrap
    <3>4. e % RingSize = g % RingSize
      BY <3>1, <3>3, <2>0, <2>3, <2>4
    <3>5. QED
      BY <3>1, <3>2, <3>4, <2>6 DEF g
  <2>7. QED
    BY <2>5, <2>6
<1> HIDE DEF head2
<1>4. c[k] = buf[(head2 + (RingSize - z + k - 1)) % RingSize]
  BY <1>1, RingContents
<1>5. QED
  BY <1>3, <1>4

\* The last M characters of a longer sequence.
LEMMA LastChars ==
  ASSUME NEW M \in Nat, NEW t \in Seq(Char), Len(t) >= M, NEW c \in Seq(Char), Len(c) = M,
         \A k \in 1 .. M : c[k] = t[Len(t) - M + k]
  PROVE  c = SubSeq(t, Len(t) - M + 1, Len(t))
<1> DEFINE L == Len(t)  last == SubSeq(t, L - M + 1, L)
<1>1. L \in Nat /\ \A k \in 1 .. L : t[k] \in Char
  OBVIOUS
<1>2. \A k \in L - M + 1 .. L : t[k] \in Char
  BY <1>1
<1> HIDE DEF L
<1>3. /\ last \in Seq(Char) /\ Len(last) = (IF L - M + 1 <= L THEN L - (L - M + 1) + 1 ELSE 0)
      /\ \A k \in 1 .. L - (L - M + 1) + 1 : last[k] = t[(L - M + 1) + k - 1]
  BY <1>1, <1>2, SubSeqProperties
<1>4. L - (L - M + 1) + 1 = M /\ \A k \in 1 .. M : (L - M + 1) + k - 1 = L - M + k
  BY <1>1
<1> HIDE DEF last
<1>5. Len(last) = M /\ \A k \in 1 .. M : last[k] = t[L - M + k]
  BY <1>1, <1>3, <1>4
<1>6. c = last
  BY <1>3, <1>5, SameChars DEF L
<1>7. QED
  BY <1>6 DEF last, L

\* The last N characters of old \o l are those of old \o Kept(l).
LEMMA LastOfLine ==
  ASSUME LogAssumption, NEW l \in Seq(Char), NEW old \in Seq(Char), NEW n, n = Len(Kept(l)),
         NEW s, s = Len(old),
         NEW z, z = (IF s + n >= RingSize THEN RingSize ELSE s + n), NEW c \in Seq(Char), Len(c) = z,
         Spliced(c, old, s, Kept(l), n, z)
  PROVE  c = Abs!Last(old \o l, RingSize)
<1> DEFINE full == old \o l  L == Len(l)  F == Len(full)
<1>0. RingSize \in Nat \ {0} /\ L \in Nat /\ s \in Nat
  BY DEF LogAssumption
<1>1. full \in Seq(Char)
      /\ \A k \in 1 .. s + L : full[k] = IF k <= s THEN old[k] ELSE l[k - s]
  OBVIOUS
<1>2. F \in Nat /\ F = s + L
  BY <1>0, <1>1
<1> HIDE DEF full, L, F
<1>3. CASE L > RingSize
  <2>1. Kept(l) = SubSeq(l, L - RingSize + 1, L)
    BY <1>3 DEF Kept, L
  <2>2. \A k \in L - RingSize + 1 .. L : l[k] \in Char
    BY <1>0, <1>3 DEF L
  <2>3. /\ Len(Kept(l)) = (IF L - RingSize + 1 <= L THEN L - (L - RingSize + 1) + 1 ELSE 0)
        /\ \A k \in 1 .. L - (L - RingSize + 1) + 1 : Kept(l)[k] = l[(L - RingSize + 1) + k - 1]
    BY <2>1, <2>2, <1>0, SubSeqProperties
  <2>4. n = RingSize
    BY <2>3, <1>0
  <2>5. z = RingSize
    BY <2>4, <1>0
  <2>6. ASSUME NEW k \in 1 .. RingSize PROVE c[k] = full[F - RingSize + k]
    <3>1. /\ k + n - z = k /\ ~(k + s + n - z <= s) /\ k \in 1 .. L - (L - RingSize + 1) + 1
          /\ (L - RingSize + 1) + k - 1 = L - RingSize + k
          /\ F - RingSize + k \in 1 .. s + L /\ ~(F - RingSize + k <= s) /\ F - RingSize + k - s = L - RingSize + k
      BY <2>4, <2>5, <1>0, <1>2, <1>3
    <3>2. c[k] = Kept(l)[k]
      BY <2>5, <3>1 DEF Spliced
    <3>3. Kept(l)[k] = l[L - RingSize + k]
      BY <2>3, <3>1
    <3>4. full[F - RingSize + k] = l[L - RingSize + k]
      <4> DEFINE p == F - RingSize + k
      <4>1. p \in 1 .. s + L /\ ~(p <= s) /\ p - s = L - RingSize + k
        BY <3>1, <1>0, <1>2
      <4> HIDE DEF p
      <4>2. full[p] = l[p - s]
        BY <4>1, <1>1
      <4>3. QED
        BY <4>1, <4>2 DEF p
    <3>5. QED
      BY <3>2, <3>3, <3>4
  <2>7. F > RingSize
    BY <1>0, <1>2, <1>3
  <2>8. c = SubSeq(full, Len(full) - RingSize + 1, Len(full))
    BY <2>5, <2>6, <2>7, <1>0, <1>1, <1>2, LastChars, SMTT(30) DEF F
  <2>9. ~(Len(full) <= RingSize)
    BY <2>7, <1>0, <1>2 DEF F
  <2>10. c = Abs!Last(full, RingSize)
    BY <2>8, <2>9 DEF Abs!Last
  <2>11. QED
    BY <2>10 DEF full
<1>4. CASE ~(L > RingSize)
  <2>1. Kept(l) = l /\ n = L
    BY <1>4 DEF Kept, L
  <2>2. z \in Nat /\ z <= F /\ n \in Nat
    BY <2>1, <1>0, <1>2
  <2>3. ASSUME NEW k \in 1 .. z PROVE c[k] = full[F - z + k]
    <3>0. k \in Int /\ 1 <= k /\ k <= z /\ z \in Int /\ F \in Int /\ n \in Int /\ L \in Int /\ s \in Int
          /\ z <= F /\ n = L /\ F = s + L
      BY <2>1, <2>2, <1>0, <1>2
    <3>1. F - z + k \in 1 .. s + L /\ F - z + k = k + s + n - z /\ F - z + k - s = k + n - z
      BY ONLY <3>0
    <3>2. c[k] = IF F - z + k <= s THEN old[F - z + k] ELSE l[F - z + k - s]
      BY <3>1, <2>1 DEF Spliced
    <3> DEFINE p == F - z + k
    <3> HIDE DEF p
    <3>3. p \in 1 .. s + L /\ c[k] = IF p <= s THEN old[p] ELSE l[p - s]
      BY <3>1, <3>2, <2>2, <1>0, <1>2 DEF p
    <3>4. c[k] = full[p]
      BY <3>3, <1>1
    <3>5. QED
      BY <3>4 DEF p
  <2>4. c = SubSeq(full, Len(full) - z + 1, Len(full))
    BY <2>2, <2>3, <1>1, <1>2, LastChars DEF F
  <2>5. CASE F <= RingSize
    <3>1. z = F
      BY <2>1, <2>5, <1>0, <1>2
    <3>2. \A k \in 1 .. z : c[k] = full[k]
      <4>1. \A k \in 1 .. z : F - z + k = k
        BY <3>1, <1>2, <2>2
      <4>2. QED
        BY <4>1, <2>3
    <3>3. c = full
      BY <3>1, <3>2, <1>1, SameChars DEF F
    <3>4. QED
      BY <3>3, <2>5 DEF Abs!Last, full, F
  <2>6. CASE ~(F <= RingSize)
    <3>1. z = RingSize
      BY <2>1, <2>6, <1>0, <1>2
    <3>2. QED
      BY <3>1, <2>4, <2>6 DEF Abs!Last, full, F
  <2>7. QED
    BY <2>5, <2>6
<1>5. QED
  BY <1>3, <1>4

\* The write is over: head and size move, and the ring holds the last of what it
\* held before, followed by the line.
LEMMA WriteEnds ==
  ASSUME LogAssumption, LInv, LInv', NEW h \in Logger, ring_write(h)
  PROVE  \E l \in Line_ : Contents' = Abs!Last(before \o l, RingSize)
<1> DEFINE d == call[h].data  n == Len(d)  s == s_ring_size  z == s_ring_size'  c == Contents'
<1>0. /\ call[h] \in Calls /\ d \in Seq(Char) /\ RingSize \in Nat \ {0} /\ s \in 0 .. RingSize
      /\ s_ring_head \in 0 .. RingSize - 1 /\ before \in Seq(Char) /\ z \in 0 .. RingSize
      /\ s_ring_buf \in [Index -> Char] /\ s_ring_head' \in Index
      /\ z \in 0 .. RingSize
  BY DEF LInv, TypeOK, Calls, LogAssumption, Index
<1>1. /\ call[h].i = n /\ s_ring_head' = (s_ring_head + n) % RingSize /\ s_ring_buf' = s_ring_buf
      /\ z = IF s + n >= RingSize THEN RingSize ELSE s + n
      /\ WriteHalf(h)
  BY DEF ring_write, LInv, Halves, In
<1>2. PICK l \in Line_ : d = Kept(l)
  BY <1>1 DEF WriteHalf
<1>3. l \in Seq(Char) /\ n \in 0 .. RingSize
  BY <1>0, <1>2, LineKept
<1>4. Laid(s_ring_buf, s_ring_head, d, n)
  BY <1>1 DEF WriteHalf, Pos, Laid
<1>5. Len(before) = s /\ Spared(s_ring_buf, s_ring_head, before, s, n)
  BY <1>1 DEF WriteHalf, Pos, Spared
<1>6. c = ContentsOf(s_ring_buf, s_ring_head', z)
  BY <1>1 DEF Contents, Tail_, ContentsOf
<1> HIDE DEF d, n, s, z, c
<1>7. /\ c \in Seq(Char) /\ Len(c) = z
      /\ \A k \in 1 .. z : c[k] = s_ring_buf[(s_ring_head' + (RingSize - z + k - 1)) % RingSize]
  BY <1>0, <1>6, RingContents, ZenonT(40)
<1>8. Spliced(c, before, s, d, n, z)
  <2>1. z \in 0 .. RingSize /\ z = (IF s + n >= RingSize THEN RingSize ELSE s + n) /\ c = ContentsOf(s_ring_buf, (s_ring_head + n) % RingSize, z)
    BY <1>0, <1>1, <1>6
  <2>2. QED
    BY <2>1, <1>0, <1>3, <1>4, <1>5, RingAppend
<1>9. c = Abs!Last(before \o l, RingSize)
  <2>1. n = Len(Kept(l)) /\ s = Len(before)
    BY <1>2, <1>5 DEF n
  <2>2. Spliced(c, before, s, Kept(l), n, z)
    BY <1>2, <1>8
  <2>3. QED
    BY <2>1, <2>2, <1>0, <1>1, <1>3, <1>7, LastOfLine
<1>10. QED
  BY <1>9 DEF c


\* A ring of smaller size and the same head has lost its oldest characters.
LEMMA RingDrop ==
  ASSUME LogAssumption, NEW buf \in [Index -> Char], NEW head \in Index,
         NEW size \in 0 .. RingSize, NEW i \in 0 .. size
  PROVE  ContentsOf(buf, head, size - i) = SubSeq(ContentsOf(buf, head, size), i + 1, size)
<1> DEFINE M == size - i  t == ContentsOf(buf, head, size)  c == ContentsOf(buf, head, M)
<1>0. RingSize \in Nat \ {0} /\ size \in Nat /\ i \in Nat /\ M \in 0 .. RingSize /\ M \in Nat /\ size >= M
      /\ size - M + 1 = i + 1
  BY DEF LogAssumption
<1> HIDE DEF M
<1>1. /\ t \in Seq(Char) /\ Len(t) = size
      /\ \A k \in 1 .. size : t[k] = buf[(head + (RingSize - size + k - 1)) % RingSize]
  BY RingContents
<1>2. /\ c \in Seq(Char) /\ Len(c) = M
      /\ \A k \in 1 .. M : c[k] = buf[(head + (RingSize - M + k - 1)) % RingSize]
  <2>1. M \in 0 .. RingSize
    BY <1>0
  <2>2. LogAssumption
    OBVIOUS
  <2>3. QED
    BY ONLY <2>1, <2>2, RingContents
<1> HIDE DEF t, c
<1>3. ASSUME NEW k \in 1 .. M PROVE c[k] = t[Len(t) - M + k]
  <2> DEFINE p == size - M + k
  <2>1. p \in 1 .. size /\ RingSize - size + p - 1 = RingSize - M + k - 1
    BY <1>0
  <2> HIDE DEF p
  <2>2. t[p] = c[k]
    BY <2>1, <1>1, <1>2
  <2>3. QED
    BY <2>2, <1>1 DEF p
<1>4. c = SubSeq(t, Len(t) - M + 1, Len(t))
  BY <1>0, <1>1, <1>2, <1>3, LastChars
<1>5. c = SubSeq(t, i + 1, size)
  BY <1>0, <1>1, <1>4
<1>6. QED
  BY <1>5 DEF c, t, M

\* A read is over: it returns the oldest characters and takes them out of the
\* ring; a peek returns the same ones and leaves them.
LEMMA ReadEnds ==
  ASSUME LogAssumption, LInv, NEW h \in Logger, ring_peek_internal(h)
  PROVE  LET first == Abs!First(Contents, call[h].max)
         IN  /\ call[h].data = first
             /\ call[h].op = "peek" => Contents' = Contents
             /\ call[h].op = "read" => Contents' = SubSeq(Contents, Len(first) + 1, Len(Contents))
<1> DEFINE d == call[h].data  i == call[h].i  max == call[h].max  s == s_ring_size
           first == Abs!First(Contents, max)
<1>0. d \in Seq(Char) /\ i \in Nat /\ max \in Nat /\ RingSize \in Nat \ {0} /\ s \in 0 .. RingSize
      /\ s_ring_buf \in [Index -> Char] /\ s_ring_head \in Index
  BY DEF LInv, TypeOK, Calls, LogAssumption
<1>1. /\ i = (IF s < max THEN s ELSE max) /\ call[h].op \in {"peek", "read"}
      /\ s_ring_size' = IF call[h].op = "read" THEN s - i ELSE s
      /\ s_ring_buf' = s_ring_buf /\ s_ring_head' = s_ring_head
  BY DEF ring_peek_internal, ToRead, In
<1>2. i = Len(d) /\ \A k \in 1 .. i : d[k] = Contents[k]
  BY DEF ring_peek_internal, LInv, Halves, ReadHalf, In
<1>3. Contents \in Seq(Char) /\ Len(Contents) = s
  BY ContentsAt DEF LInv
<1>4. i \in 0 .. s
  BY <1>0, <1>1
<1>5. Contents = ContentsOf(s_ring_buf, s_ring_head, s)
  BY DEF Contents, Tail_, ContentsOf
<1>6. Contents' = ContentsOf(s_ring_buf, s_ring_head, s_ring_size')
  BY <1>1 DEF Contents, Tail_, ContentsOf
<1> DEFINE c == Contents
<1> HIDE DEF c, i, d, s, max
<1>7. first = SubSeq(c, 1, i)
  <2>1. first = SubSeq(c, 1, IF Len(c) < max THEN Len(c) ELSE max)
    BY DEF Abs!First, c
  <2>2. QED
    BY <2>1, <1>1, <1>3 DEF c
<1>8. d = first
  <2>1. \A k \in 1 .. i : c[k] \in Char
    BY <1>0, <1>3, <1>4 DEF c
  <2>2. SubSeq(c, 1, i) \in Seq(Char) /\ Len(SubSeq(c, 1, i)) = (IF 1 <= i THEN i - 1 + 1 ELSE 0)
        /\ \A k \in 1 .. i - 1 + 1 : SubSeq(c, 1, i)[k] = c[1 + k - 1]
    BY <2>1, <1>0, <1>4, SubSeqProperties
  <2> DEFINE f == SubSeq(c, 1, i)
  <2> HIDE DEF f
  <2>3. i \in Nat /\ i - 1 + 1 = i /\ (IF 1 <= i THEN i - 1 + 1 ELSE 0) = i
        /\ \A k \in 1 .. i : 1 + k - 1 = k
    BY <1>0, <1>4
  <2>4. f \in Seq(Char) /\ Len(f) = i /\ \A k \in 1 .. i : f[k] = c[k]
    BY <2>2, <2>3 DEF f
  <2>5. d = f
    BY <2>4, <1>0, <1>2, SameChars DEF c
  <2>6. QED
    BY <2>5, <1>7 DEF f
<1>9. ASSUME call[h].op = "peek" PROVE Contents' = Contents
  BY <1>1, <1>5, <1>6, <1>9 DEF s
<1>10. ASSUME call[h].op = "read" PROVE Contents' = SubSeq(c, Len(first) + 1, Len(c))
  <2>1. s_ring_size' = s - i
    BY <1>1, <1>10
  <2>2. Contents' = SubSeq(c, i + 1, s)
    BY <2>1, <1>0, <1>4, <1>5, <1>6, RingDrop DEF c
  <2>3. Len(first) = i /\ Len(c) = s
    BY <1>2, <1>3, <1>8 DEF c
  <2>4. QED
    BY <2>2, <2>3
<1>11. QED
  BY <1>8, <1>9, <1>10 DEF c, d, max


\* An initial state maps to one of LogSpec.
LEMMA InitRefines ==
  ASSUME LoggingInit
  PROVE  Abs!Init
<1>1. ~Writing
  BY DEF LoggingInit, Writing, Returned
<1>2. Contents = <<>>
  BY EmptyContents DEF LoggingInit
<1>3. QED
  BY <1>1, <1>2 DEF Abs!Init, LoggingInit

\* A step that leaves the abstract log alone.
LEMMA Stutters ==
  ASSUME Bar' = Bar, ret' = ret
  PROVE  UNCHANGED Abs!vars
BY DEF Abs!vars, Bar

\* LOG_LOCK takes the contents as they are; the steps of a loop show nothing.
LEMMA QuietSteps ==
  ASSUME LogAssumption, LInv, NEW h \in Logger,
         \/ LOG_LOCK(h) \/ LOG_UNLOCK(h) \/ ring_write_char(h) \/ ring_peek_char(h)
  PROVE  UNCHANGED Abs!vars
<1>0. call \in [Logger -> Calls] /\ NONE \notin Logger
  BY DEF LInv, TypeOK, LogAssumption
<1>1. ret' = ret /\ \A g \in Logger \ {h} : call'[g] = call[g]
  BY <1>0 DEF LOG_LOCK, LOG_UNLOCK, ring_write_char, ring_peek_char
<1>2. CASE LOG_LOCK(h)
  <2>1. /\ ~Writing /\ call'[h].pc = "locked" /\ call'[h].op = call[h].op
        /\ \A g \in Logger \ {h} : call[g].pc # "locked"
    BY <1>0, <1>2 DEF LOG_LOCK, LInv, Exclusive, Writing, Calls
  <2>2. Writing' <=> call[h].op = "write"
    BY <1>1, <2>1 DEF Writing
  <2>3. Contents' = Contents /\ before' = IF call[h].op = "write" THEN Contents ELSE before
    BY <1>2 DEF LOG_LOCK, Contents, Tail_, ring
  <2>4. Bar' = Bar
    BY <2>1, <2>2, <2>3 DEF Bar
  <2>5. QED
    BY <1>1, <2>4, Stutters
<1>3. CASE LOG_UNLOCK(h)
  <2>1. call[h].pc = "unlock" /\ call'[h].pc = "none"
    BY <1>0, <1>3 DEF LOG_UNLOCK, Returned
  <2>2. Writing' <=> Writing
    BY <1>1, <2>1 DEF Writing
  <2>3. QED
    BY <1>1, <1>3, <2>2, BarKept, Stutters DEF LOG_UNLOCK
<1>4. CASE ring_write_char(h)
  <2>1. call[h].pc = "locked" /\ call[h].op = "write" /\ call'[h].pc = "locked" /\ call'[h].op = "write"
    BY <1>0, <1>4 DEF ring_write_char, In, Calls
  <2>2. Writing /\ Writing' /\ before' = before
    BY <1>4, <2>1 DEF Writing, ring_write_char
  <2>3. QED
    BY <1>1, <2>2, Stutters DEF Bar
<1>5. CASE ring_peek_char(h)
  <2>1. call'[h].pc = call[h].pc /\ call'[h].op = call[h].op
    BY <1>0, <1>5 DEF ring_peek_char, Calls
  <2>2. Writing' <=> Writing
    BY <1>1, <2>1 DEF Writing
  <2>3. QED
    BY <1>1, <1>5, <2>2, BarKept, Stutters DEF ring_peek_char
<1>6. QED
  BY <1>2, <1>3, <1>4, <1>5

\* The last step of a call is the operation of LogSpec.
LEMMA EffectSteps ==
  ASSUME LogAssumption, LInv, LInv', NEW h \in Logger,
         ring_write(h) \/ ring_peek_internal(h) \/ ring_clear(h)
  PROVE  Abs!Next
<1>0. call \in [Logger -> Calls] /\ call[h].pc = "locked"
  BY DEF LInv, TypeOK, ring_write, ring_peek_internal, ring_clear, In
<1>1. (\A g \in Logger \ {h} : call'[g] = call[g]) /\ call'[h].pc = "unlock"
  BY <1>0 DEF ring_write, ring_peek_internal, ring_clear, Calls
<1>2. ~Writing'
  BY <1>0, <1>1, Alone DEF Writing
<1>3. Writing <=> In(h, "write")
  BY <1>0, WriterHolds
<1>4. CASE ring_write(h)
  <2>1. Writing /\ ret' = ret
    BY <1>3, <1>4 DEF ring_write
  <2>2. PICK l \in Line_ : Contents' = Abs!Last(before \o l, RingSize)
    BY <1>4, WriteEnds
  <2>3. Abs!Write(l)
    BY <1>2, <2>1, <2>2 DEF Abs!Write, Abs!Last, RingSize
  <2>4. QED
    BY <2>3 DEF Abs!Next, Line_
<1>5. CASE ring_peek_internal(h)
  <2> DEFINE max == call[h].max  first == Abs!First(Contents, max)
  <2>1. ~Writing /\ call[h].op \in {"peek", "read"} /\ max \in ReadSizes
        /\ ret' = <<h, call[h].op, max, call[h].data>>
    BY <1>3, <1>5 DEF ring_peek_internal, In, LInv, Sizes
  <2>2. /\ call[h].data = first
        /\ call[h].op = "peek" => Contents' = Contents
        /\ call[h].op = "read" => Contents' = SubSeq(Contents, Len(first) + 1, Len(Contents))
    BY <1>5, ReadEnds
  <2>3. CASE call[h].op = "peek"
    <3>1. Abs!Peek(h, max)
      BY <1>2, <2>1, <2>2, <2>3 DEF Abs!Peek, Abs!First
    <3>2. QED
      BY <2>1, <3>1 DEF Abs!Next
  <2>4. CASE call[h].op = "read"
    <3>1. Abs!Read(h, max)
      BY <1>2, <2>1, <2>2, <2>4 DEF Abs!Read, Abs!First
    <3>2. QED
      BY <2>1, <3>1 DEF Abs!Next
  <2>5. QED
    BY <2>1, <2>3, <2>4
<1>6. CASE ring_clear(h)
  <2>1. s_ring_size' = 0 /\ ret' = ret
    BY <1>6 DEF ring_clear
  <2>2. Contents' = <<>>
    BY <2>1 DEF Contents
  <2>3. QED
    BY <1>2, <2>1, <2>2 DEF Abs!Next, Abs!Clear
<1>7. QED
  BY <1>4, <1>5, <1>6

\* Every step maps to a step of LogSpec or to none.
LEMMA NextRefines ==
  ASSUME LogAssumption, LInv, LInv', [LoggingNext]_log_vars
  PROVE  [Abs!Next]_(Abs!vars)
<1>1. ASSUME UNCHANGED <<ring, before, call, ret>> PROVE UNCHANGED Abs!vars
  BY <1>1, BarKept, Stutters DEF Writing
<1>2. ASSUME NEW h \in Logger, NEW op, NEW data, NEW max, Call(h, op, data, max)
      PROVE  UNCHANGED Abs!vars
  <2>1. /\ call[h].pc = "none" /\ call'[h].pc = "lock" /\ UNCHANGED <<ring, before, ret>>
        /\ \A g \in Logger \ {h} : call'[g] = call[g]
    BY <1>2 DEF Call, LInv, TypeOK
  <2>2. Writing' <=> Writing
    BY <2>1 DEF Writing
  <2>3. QED
    BY <2>1, <2>2, BarKept, Stutters
<1>3. ASSUME NEW h \in Logger, Step(h) PROVE [Abs!Next]_(Abs!vars)
  BY <1>3, QuietSteps, EffectSteps DEF Step
<1>4. CASE UNCHANGED log_vars
  BY <1>1, <1>4 DEF log_vars
<1>5. ASSUME NEW l \in Levels, log_set_level(l) PROVE UNCHANGED Abs!vars
  BY <1>1, <1>5 DEF log_set_level
<1>6. ASSUME NEW h \in Logger, spin(h) PROVE UNCHANGED Abs!vars
  BY <1>1, <1>6 DEF spin, log_vars
<1>7. QED
  BY <1>2, <1>3, <1>4, <1>5, <1>6 DEF LoggingNext, log_vprintf, log_ring_peek, log_ring_read, log_ring_clear

\* The ring implements the bounded queue of LogSpec.tla: ring_write keeps the last
\* characters, log_ring_read and log_ring_peek return the oldest ones, and every
\* call takes effect at once although it copies one character at a time, for
\* every size of the ring and of the line buffer and any number of harts.
THEOREM Implements ==
  ASSUME LogAssumption
  PROVE  LoggingSpec => ImplementsLog
<1>1. LoggingInit => Abs!Init
  BY InitRefines
<1>2. LInv /\ LInv' /\ [LoggingNext]_log_vars => [Abs!Next]_(Abs!vars)
  BY NextRefines
<1>3. QED
  BY <1>1, <1>2, RingInvariant, PTL DEF LoggingSpec, ImplementsLog, Abs!Spec
=============================================================================

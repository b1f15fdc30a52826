----------------------------- MODULE IrqProofs -----------------------------
(***************************************************************************)
(* For every size of the receiver and of the ring, every number of         *)
(* characters and of interrupts: what the UART received is accounted for,  *)
(* in order, and the interrupt statistics are those of the interrupts.     *)
(***************************************************************************)
EXTENDS Irq, SequenceTheorems, TLAPS

\* Two facts about sequences of numbers.
LEMMA SameSeq ==
  ASSUME NEW s \in Seq(Nat), NEW t \in Seq(Nat), Len(s) = Len(t), \A k \in 1 .. Len(s) : s[k] = t[k]
  PROVE  s = t
BY SeqEqual

\* Concatenation is associative.
LEMMA Assoc ==
  ASSUME NEW s \in Seq(Nat), NEW t \in Seq(Nat), NEW u \in Seq(Nat)
  PROVE  (s \o t) \o u = s \o (t \o u)
BY SMTT(30)

USE IrqAssumption

----------------------------------------------------------------------------
(* The inductive invariant.                                                *)

Stat == [count : Nat, first_tick : Nat, last_tick : Nat, max_delta : Nat]

Types ==
  /\ now \in Nat /\ uart_irq \in Nat /\ typed \in Nat /\ lost \in Nat
  /\ fifo \in Seq(Nat) /\ got \in Seq(Nat) /\ claims \in Seq(Nat)
  /\ s_irq_stats \in [0 .. MAX_IRQ - 1 -> Stat]
  /\ g_rx_buf \in [0 .. N - 1 -> Nat] /\ g_rx_head \in 0 .. N - 1 /\ g_rx_tail \in 0 .. N - 1
  /\ waiter \in Nat

\* The characters that are not lost, in the order in which they are read.
All == got \o Ring \o fifo
Increasing(s) == \A j, k \in 1 .. Len(s) : j < k => s[j] < s[k]

\* The numbers of the characters that are left are those of characters typed.
Chars == Len(All) + lost = typed /\ Increasing(All) /\ \A k \in 1 .. Len(All) : All[k] <= typed

\* Only the UART asks for interrupts.
Own == pending \subseteq {uart_irq}

\* The statistics st of interrupts at the times c: max_delta is an upper bound
\* of the gaps and one of them; the times are not in the future.
Delta(c, st) ==
  IF Len(c) <= 1 THEN st.max_delta = 0
  ELSE /\ \E k \in 1 .. Len(c) - 1 : st.max_delta = c[k + 1] - c[k]
       /\ \A k \in 1 .. Len(c) - 1 : c[k + 1] - c[k] <= st.max_delta
Counted(c, st, t) ==
  /\ st.count = Len(c)
  /\ Len(c) > 0 => st.first_tick = c[1] /\ st.last_tick = c[Len(c)] /\ c[Len(c)] <= t
  /\ Delta(c, st)
Stats == uart_irq \in 1 .. MAX_IRQ - 1 => Counted(claims, s_irq_stats[uart_irq], now)

IrqInv == Types /\ Chars /\ Own /\ Stats

----------------------------------------------------------------------------
(* The ring.                                                               *)

RingOf(buf, head, tail) == [k \in 1 .. (head + N - tail) % N |-> buf[(tail + k - 1) % N]]

\* The remainders that occur: of numbers below twice the size of the ring.
LEMMA Wrap ==
  ASSUME NEW a \in 0 .. 2 * N - 1
  PROVE  a % N = (IF a < N THEN a ELSE a - N) /\ a % N \in 0 .. N - 1
<1> DEFINE M == N
<1>1. M \in Nat \ {0}
  BY DEF N
<1> HIDE DEF M
<1>2. a \in 0 .. 2 * M - 1 => a % M = (IF a < M THEN a ELSE a - M) /\ a % M \in 0 .. M - 1
  BY <1>1
<1> QED
  BY <1>2 DEF M

\* How many characters are in the ring.
LEMMA Filled ==
  ASSUME NEW head \in 0 .. N - 1, NEW tail \in 0 .. N - 1
  PROVE  /\ (head + N - tail) % N = (IF tail <= head THEN head - tail ELSE head + N - tail)
         /\ (head + N - tail) % N \in 0 .. N - 1
<1> DEFINE a == head + N - tail
<1>0. N \in Nat \ {0, 1}
  BY DEF N
<1>1. a \in 0 .. 2 * N - 1
  BY <1>0
<1> HIDE DEF a
<1>2. a % N = (IF a < N THEN a ELSE a - N) /\ a % N \in 0 .. N - 1
  BY <1>1, Wrap
<1> QED
  BY <1>0, <1>2 DEF a

\* The slot of the k-th character of the ring.
LEMMA Slot ==
  ASSUME NEW tail \in 0 .. N - 1, NEW k \in 1 .. N
  PROVE  /\ (tail + k - 1) % N = (IF tail + k <= N THEN tail + k - 1 ELSE tail + k - 1 - N)
         /\ (tail + k - 1) % N \in 0 .. N - 1
<1> DEFINE a == tail + k - 1
<1>0. N \in Nat \ {0, 1}
  BY DEF N
<1>1. a \in 0 .. 2 * N - 1
  BY <1>0
<1> HIDE DEF a
<1>2. a % N = (IF a < N THEN a ELSE a - N) /\ a % N \in 0 .. N - 1
  BY <1>1, Wrap
<1> QED
  BY <1>0, <1>2 DEF a

\* The first n characters of the ring.
First(buf, tail, n) == [k \in 1 .. n |-> buf[(tail + k - 1) % N]]
Holds(s, buf, tail, n) ==
  s \in Seq(Nat) /\ Len(s) = n /\ \A k \in 1 .. n : s[k] = buf[(tail + k - 1) % N]

\* The n characters from tail on.
LEMMA RingChars ==
  ASSUME NEW buf \in [0 .. N - 1 -> Nat], NEW tail \in 0 .. N - 1, NEW n \in 0 .. N
  PROVE  Holds(First(buf, tail, n), buf, tail, n)
<1>0. N \in Nat \ {0, 1}
  BY DEF N
<1>1. \A k \in 1 .. n : buf[(tail + k - 1) % N] \in Nat
  <2> SUFFICES ASSUME NEW k \in 1 .. n PROVE buf[(tail + k - 1) % N] \in Nat
    OBVIOUS
  <2>1. k \in 1 .. N
    BY <1>0
  <2>2. (tail + k - 1) % N \in 0 .. N - 1
    BY <2>1, Slot
  <2> QED
    BY <2>2
<1> DEFINE s == First(buf, tail, n)
<1>2. s = [k \in 1 .. n |-> s[k]] /\ \A k \in 1 .. n : s[k] = buf[(tail + k - 1) % N]
  BY DEF First
<1> HIDE DEF s
<1>3. n \in Nat /\ \A k \in 1 .. n : s[k] \in Nat
  BY <1>0, <1>1, <1>2
<1>4. s \in Seq(Nat) /\ Len(s) = n
  BY ONLY <1>2, <1>3
<1> QED
  BY <1>2, <1>4 DEF s, Holds

\* The contents of the ring between tail and head.
LEMMA RingSeq ==
  ASSUME NEW buf \in [0 .. N - 1 -> Nat], NEW head \in 0 .. N - 1, NEW tail \in 0 .. N - 1,
         NEW a, a = (head + N - tail) % N
  PROVE  Holds(RingOf(buf, head, tail), buf, tail, a)
<1>0. N \in Nat \ {0, 1}
  BY DEF N
<1>1. a \in 0 .. N - 1
  BY Filled
<1>2. a \in 0 .. N
  BY ONLY <1>0, <1>1
<1>3. RingOf(buf, head, tail) = First(buf, tail, a)
  BY DEF RingOf, First
<1> QED
  BY <1>2, <1>3, RingChars

\* A ring that is not full takes a character at its end.
Pushes(head, tail, head2) == head2 = (head + 1) % N /\ head2 # tail

Pushed(buf, head, tail, c, buf2, head2) ==
  /\ RingOf(buf2, head2, tail) = Append(RingOf(buf, head, tail), c)
  /\ head2 \in 0 .. N - 1

\* A character put at head comes last.
LEMMA RingPush ==
  ASSUME NEW buf \in [0 .. N - 1 -> Nat], NEW head \in 0 .. N - 1, NEW tail \in 0 .. N - 1, NEW c \in Nat,
         NEW head2, Pushes(head, tail, head2), NEW buf2, buf2 = [buf EXCEPT ![head] = c]
  PROVE  Pushed(buf, head, tail, c, buf2, head2)
<1> PICK a : a = (head + N - tail) % N
  OBVIOUS
<1> PICK b : b = (head2 + N - tail) % N
  OBVIOUS
<1>0. N \in Nat \ {0, 1} /\ head \in 0 .. N - 1 /\ tail \in 0 .. N - 1
  BY DEF N
<1>1. head2 = (IF head + 1 < N THEN head + 1 ELSE 0) /\ head2 \in 0 .. N - 1 /\ head2 # tail
  <2>1. head + 1 \in 0 .. 2 * N - 1
    BY ONLY <1>0
  <2> PICK e : e = head + 1
    OBVIOUS
  <2>2. e % N = (IF e < N THEN e ELSE e - N) /\ e % N \in 0 .. N - 1
    BY <2>1, Wrap
  <2>3. head2 = e % N /\ e = head + 1 /\ head2 # tail
    BY DEF Pushes
  <2> QED
    BY ONLY <1>0, <2>2, <2>3
<1>2. a = (IF tail <= head THEN head - tail ELSE head + N - tail) /\ a \in 0 .. N - 1
  BY Filled
<1>3. b = (IF tail <= head2 THEN head2 - tail ELSE head2 + N - tail) /\ b \in 0 .. N - 1
  BY <1>1, Filled
<1>4. b = a + 1 /\ a \in Nat
  BY ONLY <1>0, <1>1, <1>2, <1>3
<1> DEFINE new == RingOf(buf2, head2, tail)  old == RingOf(buf, head, tail)
<1>5. buf2 \in [0 .. N - 1 -> Nat] /\ buf2[head] = c /\ \A i \in 0 .. N - 1 : i # head => buf2[i] = buf[i]
  OBVIOUS
<1>6. new \in Seq(Nat) /\ Len(new) = b /\ \A k \in 1 .. b : new[k] = buf2[(tail + k - 1) % N]
  <2>1. Holds(RingOf(buf2, head2, tail), buf2, tail, b)
    BY <1>1, <1>5, RingSeq
  <2> HIDE DEF new
  <2>2. Holds(new, buf2, tail, b)
    BY <2>1 DEF new
  <2> QED
    BY <2>2 DEF Holds
<1>7. old \in Seq(Nat) /\ Len(old) = a /\ \A k \in 1 .. a : old[k] = buf[(tail + k - 1) % N]
  <2>1. Holds(RingOf(buf, head, tail), buf, tail, a)
    BY RingSeq
  <2> HIDE DEF old
  <2>2. Holds(old, buf, tail, a)
    BY <2>1 DEF old
  <2> QED
    BY <2>2 DEF Holds
<1> HIDE DEF new, old
<1>8. /\ Append(old, c) \in Seq(Nat) /\ Len(Append(old, c)) = a + 1
      /\ \A k \in 1 .. a : Append(old, c)[k] = old[k]
      /\ Append(old, c)[a + 1] = c
  BY <1>7, AppendProperties
<1>9. ASSUME NEW k \in 1 .. a + 1 PROVE new[k] = Append(old, c)[k]
  <2> PICK i : i = (tail + k - 1) % N
    OBVIOUS
  <2>1. k \in 1 .. b /\ k \in 1 .. N /\ k \in 1 .. a + 1
    BY ONLY <1>0, <1>3, <1>4, <1>9
  <2>2. i = (IF tail + k <= N THEN tail + k - 1 ELSE tail + k - 1 - N) /\ i \in 0 .. N - 1
    BY <2>1, Slot
  <2>3. new[k] = buf2[i]
    BY <1>6, <2>1
  <2>4. CASE k = a + 1
    <3>1. i = head
      BY ONLY <1>0, <1>2, <2>2, <2>4
    <3> QED
      BY <1>5, <1>8, <2>3, <2>4, <3>1
  <2>5. CASE k # a + 1
    <3>1. k \in 1 .. a
      BY ONLY <1>4, <2>1, <2>5
    <3>2. i # head
      BY ONLY <1>0, <1>2, <2>2, <3>1
    <3> QED
      BY <1>5, <1>7, <1>8, <2>2, <2>3, <3>1, <3>2
  <2> QED
    BY <2>4, <2>5
<1>10. new = Append(old, c)
  <2> PICK e : e = Append(old, c)
    OBVIOUS
  <2>1. new \in Seq(Nat) /\ e \in Seq(Nat) /\ Len(new) = Len(e) /\ \A k \in 1 .. Len(new) : new[k] = e[k]
    BY <1>4, <1>6, <1>8, <1>9
  <2>2. new = e
    BY ONLY <2>1, SameSeq
  <2> QED
    BY <2>2
<1> QED
  BY <1>1, <1>10 DEF new, old, Pushed

\* Reading n characters takes them from the front of the ring.
Takes(head, tail, n, tail2) ==
  n \in Nat /\ n <= (head + N - tail) % N /\ tail2 = (tail + n) % N

\* Characters taken at tail come first.
LEMMA RingPop ==
  ASSUME NEW buf \in [0 .. N - 1 -> Nat], NEW head \in 0 .. N - 1, NEW tail \in 0 .. N - 1,
         NEW n, NEW tail2, Takes(head, tail, n, tail2)
  PROVE  /\ RingOf(buf, head, tail) = First(buf, tail, n) \o RingOf(buf, head, tail2)
         /\ First(buf, tail, n) \in Seq(Nat) /\ RingOf(buf, head, tail2) \in Seq(Nat)
         /\ tail2 \in 0 .. N - 1
<1> PICK a : a = (head + N - tail) % N
  OBVIOUS
<1> PICK b : b = (head + N - tail2) % N
  OBVIOUS
<1>0. N \in Nat \ {0, 1} /\ head \in 0 .. N - 1 /\ tail \in 0 .. N - 1 /\ n \in Nat /\ n <= a
  BY DEF N, Takes
<1>1. a = (IF tail <= head THEN head - tail ELSE head + N - tail) /\ a \in 0 .. N - 1
  BY Filled
<1>2. tail2 = (IF tail + n < N THEN tail + n ELSE tail + n - N) /\ tail2 \in 0 .. N - 1
  <2>1. tail + n \in 0 .. 2 * N - 1
    BY ONLY <1>0, <1>1
  <2> PICK e : e = tail + n
    OBVIOUS
  <2>2. e % N = (IF e < N THEN e ELSE e - N) /\ e % N \in 0 .. N - 1
    BY <2>1, Wrap
  <2>3. tail2 = e % N /\ e = tail + n
    BY DEF Takes
  <2> QED
    BY ONLY <1>0, <2>2, <2>3
<1>3. b = (IF tail2 <= head THEN head - tail2 ELSE head + N - tail2) /\ b \in 0 .. N - 1
  BY <1>2, Filled
<1>4. a = n + b /\ b \in Nat /\ a \in Nat /\ n \in 0 .. N
  BY ONLY <1>0, <1>1, <1>2, <1>3
<1> DEFINE old == RingOf(buf, head, tail)  new == RingOf(buf, head, tail2)  f == First(buf, tail, n)
<1>5. old \in Seq(Nat) /\ Len(old) = a /\ \A k \in 1 .. a : old[k] = buf[(tail + k - 1) % N]
  <2>1. Holds(RingOf(buf, head, tail), buf, tail, a)
    BY RingSeq
  <2> HIDE DEF old
  <2>2. Holds(old, buf, tail, a)
    BY <2>1 DEF old
  <2> QED
    BY <2>2 DEF Holds
<1>6. new \in Seq(Nat) /\ Len(new) = b /\ \A k \in 1 .. b : new[k] = buf[(tail2 + k - 1) % N]
  <2>1. Holds(RingOf(buf, head, tail2), buf, tail2, b)
    BY <1>2, RingSeq
  <2> HIDE DEF new
  <2>2. Holds(new, buf, tail2, b)
    BY <2>1 DEF new
  <2> QED
    BY <2>2 DEF Holds
<1>7. f \in Seq(Nat) /\ Len(f) = n /\ \A k \in 1 .. n : f[k] = buf[(tail + k - 1) % N]
  <2>1. Holds(First(buf, tail, n), buf, tail, n)
    BY <1>4, RingChars
  <2> HIDE DEF f
  <2>2. Holds(f, buf, tail, n)
    BY <2>1 DEF f
  <2> QED
    BY <2>2 DEF Holds
<1> HIDE DEF old, new, f
<1>8. /\ f \o new \in Seq(Nat) /\ Len(f \o new) = n + b
      /\ \A k \in 1 .. n + b : (f \o new)[k] = IF k <= n THEN f[k] ELSE new[k - n]
  <2>1. f \in Seq(Nat) /\ new \in Seq(Nat) /\ Len(f) = n /\ Len(new) = b
    BY <1>6, <1>7
  <2>2. /\ f \o new \in Seq(Nat) /\ Len(f \o new) = Len(f) + Len(new)
        /\ \A k \in 1 .. Len(f) + Len(new) : (f \o new)[k] = IF k <= Len(f) THEN f[k] ELSE new[k - Len(f)]
    BY ONLY <2>1, ConcatProperties
  <2> QED
    BY ONLY <2>1, <2>2
<1>9. ASSUME NEW k \in 1 .. n + b PROVE old[k] = (f \o new)[k]
  <2>1. k \in 1 .. a /\ k \in Int
    BY ONLY <1>4, <1>9
  <2>2. CASE k <= n
    <3>1. k \in 1 .. n
      BY ONLY <1>4, <2>1, <2>2
    <3> QED
      BY <1>5, <1>7, <1>8, <2>1, <2>2, <3>1
  <2>3. CASE ~(k <= n)
    <3> PICK m : m = k - n
      OBVIOUS
    <3>0. m = k - n
      OBVIOUS
    <3>1. m \in 1 .. b /\ m \in 1 .. N /\ k \in 1 .. N
      BY ONLY <1>0, <1>1, <1>3, <1>4, <2>1, <2>3, <3>0
    <3> PICK i : i = (tail + k - 1) % N
      OBVIOUS
    <3> PICK j : j = (tail2 + m - 1) % N
      OBVIOUS
    <3>2. i = (IF tail + k <= N THEN tail + k - 1 ELSE tail + k - 1 - N)
      BY <3>1, Slot
    <3>3. j = (IF tail2 + m <= N THEN tail2 + m - 1 ELSE tail2 + m - 1 - N)
      BY <1>2, <3>1, Slot
    <3>4. i = j
      BY ONLY <1>0, <1>1, <1>2, <1>4, <2>1, <3>0, <3>1, <3>2, <3>3
    <3>5. old[k] = buf[i] /\ new[m] = buf[j] /\ (f \o new)[k] = new[m]
      BY <1>5, <1>6, <1>8, <2>1, <2>3, <3>1
    <3> QED
      BY <3>4, <3>5
  <2> QED
    BY <2>2, <2>3
<1>10. old = f \o new
  <2> PICK g : g = f \o new
    OBVIOUS
  <2>1. old \in Seq(Nat) /\ g \in Seq(Nat) /\ Len(old) = Len(g) /\ \A k \in 1 .. Len(old) : old[k] = g[k]
    BY <1>4, <1>5, <1>8, <1>9
  <2>2. old = g
    BY ONLY <2>1, SameSeq
  <2> QED
    BY <2>2
<1> QED
  BY <1>2, <1>6, <1>7, <1>10 DEF old, new, f

----------------------------------------------------------------------------
(* Characters.                                                             *)

\* The characters s are left of t that were typed, and l were lost.
Left(s, l, t) == Len(s) + l = t /\ Increasing(s) /\ \A k \in 1 .. Len(s) : s[k] <= t

\* A character is typed: it is kept behind the others or lost.
LEMMA OneMore ==
  ASSUME NEW s \in Seq(Nat), NEW l \in Nat, NEW t \in Nat, Left(s, l, t)
  PROVE  Left(Append(s, t + 1), l, t + 1) /\ Left(s, l + 1, t + 1)
<1> PICK r : r = Append(s, t + 1)
  OBVIOUS
<1>1. /\ r \in Seq(Nat) /\ Len(r) = Len(s) + 1 /\ r[Len(s) + 1] = t + 1
      /\ \A k \in 1 .. Len(s) : r[k] = s[k] /\ r[k] \in Nat
  BY AppendProperties
<1>2. Len(s) \in Nat /\ \A k \in 1 .. Len(s) : s[k] <= t /\ s[k] \in Nat
  BY DEF Left
<1>3. Increasing(r)
  <2> SUFFICES ASSUME NEW j \in 1 .. Len(r), NEW k \in 1 .. Len(r), j < k PROVE r[j] < r[k]
    BY DEF Increasing
  <2>1. j \in 1 .. Len(s) /\ r[j] = s[j] /\ s[j] <= t /\ s[j] \in Nat
    BY <1>1, <1>2
  <2>2. CASE k = Len(s) + 1
    BY <1>1, <2>1, <2>2
  <2>3. CASE k # Len(s) + 1
    <3> PICK m : m = Len(s)
      OBVIOUS
    <3>0. m \in Nat /\ k \in 1 .. m + 1 /\ k # m + 1
      BY <1>1, <1>2, <2>3
    <3>1. k \in 1 .. m
      BY ONLY <3>0
    <3> QED
      BY <1>1, <2>1, <3>1 DEF Left, Increasing
  <2> QED
    BY <2>2, <2>3
<1>4. \A k \in 1 .. Len(r) : r[k] <= t + 1
  <2> SUFFICES ASSUME NEW k \in 1 .. Len(r) PROVE r[k] <= t + 1
    OBVIOUS
  <2>1. CASE k = Len(s) + 1
    BY <1>1, <2>1
  <2>2. CASE k # Len(s) + 1
    <3> PICK m : m = Len(s)
      OBVIOUS
    <3>0. m \in Nat /\ k \in 1 .. m + 1 /\ k # m + 1
      BY <1>1, <1>2, <2>2
    <3>1. k \in 1 .. m
      BY ONLY <3>0
    <3> QED
      BY <1>1, <1>2, <3>1
  <2> QED
    BY <2>1, <2>2
<1>5. Left(r, l, t + 1)
  <2>1. Len(s) + l = t
    BY DEF Left
  <2>2. Len(r) + l = t + 1
    BY ONLY <1>1, <1>2, <2>1, l \in Nat, t \in Nat
  <2> QED
    BY ONLY <1>3, <1>4, <2>2 DEF Left
<1>6. Left(s, l + 1, t + 1)
  BY <1>2 DEF Left
<1> QED
  BY <1>5, <1>6

\* A character in the middle is dropped.
LEMMA OneLess ==
  ASSUME NEW p \in Seq(Nat), NEW q \in Seq(Nat), NEW c \in Nat, NEW l \in Nat, NEW t \in Nat,
         Left((p \o <<c>>) \o q, l, t)
  PROVE  Left(p \o q, l + 1, t)
<1> PICK one : one = <<c>>
  OBVIOUS
<1> PICK s : s = (p \o <<c>>) \o q
  OBVIOUS
<1> PICK r : r = p \o q
  OBVIOUS
<1> PICK P, Q : P = Len(p) /\ Q = Len(q)
  OBVIOUS
<1>0. P \in Nat /\ Q \in Nat
  OBVIOUS
<1>1. one \in Seq(Nat) /\ Len(one) = 1
  OBVIOUS
<1>2. /\ r \in Seq(Nat) /\ Len(r) = P + Q
      /\ \A k \in 1 .. P + Q : r[k] = IF k <= P THEN p[k] ELSE q[k - P]
  BY ConcatProperties
<1>3. p \o one \in Seq(Nat) /\ Len(p \o one) = P + 1 /\ \A k \in 1 .. P : (p \o one)[k] = p[k]
  <2>1. /\ p \o one \in Seq(Nat) /\ Len(p \o one) = Len(p) + Len(one)
        /\ \A k \in 1 .. Len(p) + Len(one) : (p \o one)[k] = IF k <= Len(p) THEN p[k] ELSE one[k - Len(p)]
    BY <1>1, ConcatProperties
  <2> QED
    BY <1>0, <1>1, <2>1
<1>4. /\ s \in Seq(Nat) /\ Len(s) = P + 1 + Q
      /\ \A k \in 1 .. P + 1 + Q : s[k] = IF k <= P + 1 THEN (p \o one)[k] ELSE q[k - (P + 1)]
  <2> PICK u : u = p \o one
    OBVIOUS
  <2>1. u \in Seq(Nat) /\ Len(u) = P + 1 /\ s = u \o q
    BY <1>3
  <2>2. /\ u \o q \in Seq(Nat) /\ Len(u \o q) = Len(u) + Len(q)
        /\ \A k \in 1 .. Len(u) + Len(q) : (u \o q)[k] = IF k <= Len(u) THEN u[k] ELSE q[k - Len(u)]
    BY <2>1, ConcatProperties
  <2> QED
    BY <2>1, <2>2
<1> DEFINE at(k) == IF k <= P THEN k ELSE k + 1
<1>5. ASSUME NEW k \in 1 .. P + Q PROVE at(k) \in 1 .. Len(s) /\ r[k] = s[at(k)] /\ s[at(k)] \in Nat
  <2>1. CASE k <= P
    BY <1>0, <1>2, <1>3, <1>4, <2>1
  <2>2. CASE ~(k <= P)
    <3>1. k + 1 \in 1 .. P + 1 + Q /\ ~(k + 1 <= P + 1) /\ (k + 1) - (P + 1) = k - P
      BY <1>0, <2>2
    <3>2. s[k + 1] = q[k - P]
      BY <1>4, <3>1
    <3> QED
      BY <1>2, <1>4, <2>2, <3>1, <3>2
  <2> QED
    BY <2>1, <2>2
<1>6. Left(s, l, t)
  OBVIOUS
<1>7. Increasing(r)
  <2> SUFFICES ASSUME NEW j \in 1 .. Len(r), NEW k \in 1 .. Len(r), j < k PROVE r[j] < r[k]
    BY DEF Increasing
  <2>1. /\ at(j) \in 1 .. Len(s) /\ r[j] = s[at(j)]
        /\ at(k) \in 1 .. Len(s) /\ r[k] = s[at(k)]
    BY <1>2, <1>5
  <2>2. at(j) < at(k)
    BY <1>0, <1>2
  <2> QED
    BY <1>6, <2>1, <2>2 DEF Left, Increasing
<1>8. \A k \in 1 .. Len(r) : r[k] <= t
  <2> SUFFICES ASSUME NEW k \in 1 .. Len(r) PROVE r[k] <= t
    OBVIOUS
  <2>1. at(k) \in 1 .. Len(s) /\ r[k] = s[at(k)]
    BY <1>2, <1>5
  <2> QED
    BY <1>6, <2>1 DEF Left
<1>9. Len(r) + (l + 1) = t
  BY <1>0, <1>2, <1>4, <1>6 DEF Left
<1> QED
  BY <1>7, <1>8, <1>9 DEF Left

\* A read moves characters from the front of the ring to its caller.
Reads(head, tail, len, n, tail2) ==
  LET a == (head + N - tail) % N
  IN  n = (IF a < len THEN a ELSE len) /\ tail2 = (tail + n) % N

Moved(buf, head, tail, g, n, tail2) ==
  /\ g \o First(buf, tail, n) \in Seq(Nat) /\ tail2 \in 0 .. N - 1
  /\ (g \o First(buf, tail, n)) \o RingOf(buf, head, tail2) = g \o RingOf(buf, head, tail)

\* A read moves characters from the ring to the reader.
LEMMA ReadMoves ==
  ASSUME NEW buf \in [0 .. N - 1 -> Nat], NEW head \in 0 .. N - 1, NEW tail \in 0 .. N - 1,
         NEW g \in Seq(Nat), NEW len \in Nat, NEW n, NEW tail2, Reads(head, tail, len, n, tail2)
  PROVE  Moved(buf, head, tail, g, n, tail2)
<1> PICK a : a = (head + N - tail) % N
  OBVIOUS
<1>0. N \in Nat \ {0, 1}
  BY DEF N
<1>1. a \in 0 .. N - 1
  BY Filled
<1>2. n \in Nat /\ n <= a
  BY <1>0, <1>1 DEF Reads
<1>3. /\ RingOf(buf, head, tail) = First(buf, tail, n) \o RingOf(buf, head, tail2)
      /\ First(buf, tail, n) \in Seq(Nat) /\ RingOf(buf, head, tail2) \in Seq(Nat)
      /\ tail2 \in 0 .. N - 1
  <2>1. Takes(head, tail, n, tail2)
    BY <1>2 DEF Takes, Reads
  <2> QED
    BY ONLY <2>1, RingPop
<1> PICK f : f = First(buf, tail, n)
  OBVIOUS
<1> PICK u : u = RingOf(buf, head, tail2)
  OBVIOUS
<1>4. f \in Seq(Nat) /\ u \in Seq(Nat) /\ g \in Seq(Nat)
  BY <1>3
<1>5. (g \o f) \o u = g \o (f \o u) /\ g \o f \in Seq(Nat) /\ g \o (f \o u) \in Seq(Nat)
  <2>1. g \o f \in Seq(Nat) /\ f \o u \in Seq(Nat)
    BY <1>4, ConcatProperties
  <2>2. g \o (f \o u) \in Seq(Nat)
    BY <1>4, <2>1, ConcatProperties
  <2>3. (g \o f) \o u = g \o (f \o u)
    BY ONLY <1>4, Assoc
  <2> QED
    BY <2>1, <2>2, <2>3
<1> QED
  BY <1>3, <1>5 DEF Moved

----------------------------------------------------------------------------
(* Steps.                                                                  *)

\* The ring of the console is such a ring.
LEMMA RingIs ==
  ASSUME Types
  PROVE  /\ Ring = RingOf(g_rx_buf, g_rx_head, g_rx_tail) /\ Ring \in Seq(Nat)
         /\ got \o Ring \in Seq(Nat) /\ All \in Seq(Nat)
<1>0. /\ g_rx_buf \in [0 .. N - 1 -> Nat] /\ g_rx_head \in 0 .. N - 1 /\ g_rx_tail \in 0 .. N - 1
      /\ got \in Seq(Nat) /\ fifo \in Seq(Nat)
  BY DEF Types
<1>1. Ring = RingOf(g_rx_buf, g_rx_head, g_rx_tail)
  BY DEF Ring, RingOf, Available
<1> PICK a : a = (g_rx_head + N - g_rx_tail) % N
  OBVIOUS
<1>2. Ring \in Seq(Nat)
  <2>1. Holds(RingOf(g_rx_buf, g_rx_head, g_rx_tail), g_rx_buf, g_rx_tail, a)
    BY <1>0, RingSeq
  <2> QED
    BY <1>1, <2>1 DEF Holds
<1>3. got \o Ring \in Seq(Nat)
  BY <1>0, <1>2, ConcatProperties
<1>4. All \in Seq(Nat)
  BY <1>0, <1>3, ConcatProperties DEF All
<1> QED
  BY <1>1, <1>2, <1>3, <1>4

\* The invariant holds initially.
LEMMA InitIrqInv == Init => IrqInv
<1> SUFFICES ASSUME Init PROVE IrqInv
  OBVIOUS
<1>0. N \in Nat \ {0, 1} /\ MAX_IRQ \in Nat \ {0}
  BY DEF N
<1>1. Types
  <2>1. NoStat \in Stat
    BY DEF NoStat, Stat
  <2>2. s_irq_stats \in [0 .. MAX_IRQ - 1 -> Stat]
    BY <2>1 DEF Init
  <2>3. g_rx_buf \in [0 .. N - 1 -> Nat] /\ g_rx_head \in 0 .. N - 1 /\ g_rx_tail \in 0 .. N - 1
    BY <1>0 DEF Init
  <2> QED
    BY <2>2, <2>3 DEF Init, Types
<1>2. Chars
  <2>1. (0 + N - 0) % N = 0
    BY <1>0, Filled
  <2>2. Ring = <<>>
    BY <2>1 DEF Init, Ring, Available
  <2>3. All = <<>>
    BY <2>2 DEF Init, All
  <2> QED
    BY <2>3 DEF Init, Chars, Increasing
<1>3. Own /\ Stats
  <2>1. Own
    BY DEF Init, Own
  <2>2. ASSUME uart_irq \in 1 .. MAX_IRQ - 1 PROVE Counted(claims, s_irq_stats[uart_irq], now)
    <3>1. s_irq_stats[uart_irq] = NoStat /\ claims = <<>>
      BY <1>0, <2>2 DEF Init
    <3> QED
      BY <3>1 DEF NoStat, Counted, Delta
  <2> QED
    BY <2>1, <2>2 DEF Stats
<1> QED
  BY <1>1, <1>2, <1>3 DEF IrqInv

\* Steps that touch neither characters nor statistics.
LEMMA QuietStep ==
  ASSUME IrqInv, UNCHANGED <<now, uart_irq, uart, s_irq_stats, claims, console>>, pending' \subseteq {uart_irq}
  PROVE  IrqInv'
<1>1. Types'
  BY DEF IrqInv, Types, uart, console
<1>2. All' = All
  BY DEF All, Ring, Available, console, uart
<1>3. Chars'
  BY <1>2 DEF IrqInv, Chars, uart
<1>4. Own' /\ Stats'
  BY DEF IrqInv, Own, Stats
<1> QED
  BY <1>1, <1>3, <1>4 DEF IrqInv

\* Time passes.
LEMMA TickStep ==
  ASSUME IrqInv, tick
  PROVE  IrqInv'
<1>1. now' = now + 1 /\ UNCHANGED <<uart_irq, uart, pending, s_irq_stats, claims, console>> /\ now \in Nat
  BY DEF tick, plic, table, IrqInv, Types
<1>2. Types' /\ claims \in Seq(Nat)
  BY <1>1 DEF IrqInv, Types, uart, console
<1>3. All' = All
  BY <1>1 DEF All, Ring, Available, console, uart
<1>4. Chars'
  BY <1>1, <1>3 DEF IrqInv, Chars, uart
<1>5. ASSUME uart_irq \in 1 .. MAX_IRQ - 1 PROVE Counted(claims, s_irq_stats[uart_irq], now + 1)
  <2>1. Counted(claims, s_irq_stats[uart_irq], now)
    BY <1>5 DEF IrqInv, Stats
  <2>2. Len(claims) > 0 => claims[Len(claims)] \in Nat /\ claims[Len(claims)] <= now
    BY <1>2, <2>1 DEF Counted
  <2> QED
    BY <1>1, <2>1, <2>2 DEF Counted
<1>6. Own' /\ Stats'
  BY <1>1, <1>5 DEF IrqInv, Own, Stats
<1> QED
  BY <1>2, <1>4, <1>6 DEF IrqInv

\* The receiver takes a character, or drops it because it is full.
LEMMA ReceiveStep ==
  ASSUME IrqInv, receive
  PROVE  IrqInv'
<1>0. Types /\ typed \in Nat /\ lost \in Nat /\ fifo \in Seq(Nat) /\ got \in Seq(Nat)
  BY DEF IrqInv, Types
<1>1. typed' = typed + 1 /\ UNCHANGED <<now, uart_irq, pending, s_irq_stats, claims, console>>
  BY DEF receive, plic, table
<1>2. (fifo' = Append(fifo, typed + 1) /\ lost' = lost) \/ (fifo' = fifo /\ lost' = lost + 1)
  BY <1>1 DEF receive
<1>3. Types'
  <2>1. typed' \in Nat /\ lost' \in Nat /\ fifo' \in Seq(Nat)
    <3>1. typed + 1 \in Nat /\ lost + 1 \in Nat
      BY <1>0
    <3>2. Append(fifo, typed + 1) \in Seq(Nat)
      BY <1>0, <3>1, AppendProperties
    <3> QED
      BY <1>0, <1>1, <1>2, <3>1, <3>2
  <2> QED
    BY <1>1, <2>1 DEF IrqInv, Types, console
<1>4. Ring' = Ring /\ got' = got
  BY <1>1 DEF Ring, Available, console
<1>5. All \in Seq(Nat) /\ got \o Ring \in Seq(Nat) /\ Left(All, lost, typed)
  BY <1>0, RingIs DEF IrqInv, Chars, Left
<1>6. Left(Append(All, typed + 1), lost, typed + 1) /\ Left(All, lost + 1, typed + 1)
  BY <1>0, <1>5, OneMore
<1>7. Left(All', lost', typed + 1)
  <2>1. CASE fifo' = Append(fifo, typed + 1) /\ lost' = lost
    <3> PICK p : p = got \o Ring
      OBVIOUS
    <3> PICK x : x = typed + 1
      OBVIOUS
    <3>1. p \in Seq(Nat) /\ x \in Nat /\ <<x>> \in Seq(Nat)
      BY <1>0, <1>5
    <3>2. p \o Append(fifo, x) = Append(p \o fifo, x)
      <4>1. Append(fifo, x) = fifo \o <<x>>
        BY <1>0, <3>1, AppendIsConcat
      <4>2. Append(p \o fifo, x) = (p \o fifo) \o <<x>>
        BY <1>0, <3>1, AppendIsConcat, ConcatProperties
      <4>3. (p \o fifo) \o <<x>> = p \o (fifo \o <<x>>)
        BY ONLY <1>0, <3>1, Assoc
      <4> QED
        BY <4>1, <4>2, <4>3
    <3>3. All' = Append(All, x)
      BY <1>4, <2>1, <3>2 DEF All
    <3> QED
      BY <1>6, <2>1, <3>3
  <2>2. CASE fifo' = fifo /\ lost' = lost + 1
    BY <1>4, <1>6, <2>2 DEF All
  <2> QED
    BY <1>2, <2>1, <2>2
<1>8. Chars'
  BY <1>1, <1>7 DEF Chars, Left
<1>9. Own' /\ Stats'
  BY <1>1 DEF IrqInv, Own, Stats
<1> QED
  BY <1>3, <1>8, <1>9 DEF IrqInv

\* A read, of the ring or of a waiter: nothing is lost between ring and reader.
LEMMA ReadStep ==
  ASSUME NEW buf \in [0 .. N - 1 -> Nat], NEW head \in 0 .. N - 1, NEW len \in Nat,
         g_rx_tail \in 0 .. N - 1, got \in Seq(Nat), console_read_nonblock(buf, head, len)
  PROVE  /\ got' \in Seq(Nat) /\ g_rx_tail' \in 0 .. N - 1
         /\ got' \o RingOf(buf, head, g_rx_tail') = got \o RingOf(buf, head, g_rx_tail)
<1> PICK a : a = (head + N - g_rx_tail) % N
  OBVIOUS
<1> PICK n : n = (IF a < len THEN a ELSE len)
  OBVIOUS
<1> PICK tail2 : tail2 = (g_rx_tail + n) % N
  OBVIOUS
<1> PICK tail : tail = g_rx_tail
  OBVIOUS
<1> PICK g : g = got
  OBVIOUS
<1>1. got' = g \o First(buf, tail, n) /\ g_rx_tail' = tail2
  BY DEF console_read_nonblock, Available, First
<1>2. tail \in 0 .. N - 1 /\ g \in Seq(Nat)
  OBVIOUS
<1>3. /\ g \o First(buf, tail, n) \in Seq(Nat) /\ tail2 \in 0 .. N - 1
      /\ (g \o First(buf, tail, n)) \o RingOf(buf, head, tail2) = g \o RingOf(buf, head, tail)
  <2>1. Reads(head, tail, len, n, tail2)
    BY DEF Reads
  <2>2. Moved(buf, head, tail, g, n, tail2)
    BY ONLY <1>2, <2>1, ReadMoves
  <2> QED
    BY <2>2 DEF Moved
<1> QED
  BY <1>1, <1>3

\* sys_read preserves the invariant.
LEMMA SysReadStep ==
  ASSUME IrqInv, NEW len \in ReadLens, sys_read(len)
  PROVE  IrqInv'
<1>0. /\ g_rx_buf \in [0 .. N - 1 -> Nat] /\ g_rx_head \in 0 .. N - 1 /\ g_rx_tail \in 0 .. N - 1
      /\ got \in Seq(Nat) /\ len \in Nat /\ Types /\ waiter \in Nat
  BY DEF IrqInv, Types
<1>1. UNCHANGED <<now, uart_irq, uart, pending, s_irq_stats, claims, g_rx_buf, g_rx_head>>
  BY DEF sys_read, plic, table
<1>2. CASE Available(g_rx_head) > 0
  <2>1. console_read_nonblock(g_rx_buf, g_rx_head, len) /\ waiter' = waiter
    BY <1>2 DEF sys_read
  <2>2. /\ got' \in Seq(Nat) /\ g_rx_tail' \in 0 .. N - 1
        /\ got' \o RingOf(g_rx_buf, g_rx_head, g_rx_tail') = got \o RingOf(g_rx_buf, g_rx_head, g_rx_tail)
    BY <1>0, <2>1, ReadStep
  <2>3. Types'
    BY <1>0, <1>1, <2>1, <2>2 DEF Types, uart
  <2>4. Ring' = RingOf(g_rx_buf, g_rx_head, g_rx_tail')
    BY <1>1 DEF Ring, RingOf, Available
  <2>5. All' = All
    BY <1>0, <1>1, <2>2, <2>4, RingIs DEF All, uart
  <2>6. Chars' /\ Own' /\ Stats'
    BY <1>1, <2>5 DEF IrqInv, Chars, Own, Stats, uart
  <2> QED
    BY <2>3, <2>6 DEF IrqInv
<1>3. CASE ~(Available(g_rx_head) > 0)
  <2>1. waiter' = len /\ UNCHANGED <<got, g_rx_tail>>
    BY <1>3 DEF sys_read
  <2>2. Types'
    BY <1>0, <1>1, <2>1 DEF Types, uart
  <2>3. All' = All
    BY <1>1, <2>1 DEF All, Ring, Available, uart
  <2>4. Chars' /\ Own' /\ Stats'
    BY <1>1, <2>3 DEF IrqInv, Chars, Own, Stats, uart
  <2> QED
    BY <2>2, <2>4 DEF IrqInv
<1> QED
  BY <1>2, <1>3

\* A character goes from the receiver to the end of the ring, or is lost, and
\* from the front of the ring to a reader that waits.
LEMMA CharStep ==
  ASSUME IrqInv, fifo # <<>>, fifo' = Tail(fifo), console_on_char_from_irq(Head(fifo)),
         UNCHANGED <<now, uart_irq, typed, pending, s_irq_stats, claims>>
  PROVE  IrqInv'
<1> PICK c : c = Head(fifo)
  OBVIOUS
<1> PICK rest : rest = Tail(fifo)
  OBVIOUS
<1> PICK g : g = got
  OBVIOUS
<1> PICK tail : tail = g_rx_tail
  OBVIOUS
<1> PICK old : old = RingOf(g_rx_buf, g_rx_head, g_rx_tail)
  OBVIOUS
<1> PICK new : new = RingOf(g_rx_buf', g_rx_head', tail)
  OBVIOUS
<1>0. /\ g_rx_buf \in [0 .. N - 1 -> Nat] /\ g_rx_head \in 0 .. N - 1 /\ g_rx_tail \in 0 .. N - 1
      /\ got \in Seq(Nat) /\ fifo \in Seq(Nat) /\ Types /\ waiter \in Nat /\ lost \in Nat /\ typed \in Nat
  BY DEF IrqInv, Types
<1>1. c \in Nat /\ rest \in Seq(Nat) /\ fifo = <<c>> \o rest /\ <<c>> \in Seq(Nat)
  <2>1. c \in Nat /\ rest \in Seq(Nat) /\ <<c>> \in Seq(Nat)
    BY <1>0, HeadTailProperties
  <2>2. fifo = <<c>> \o rest
    BY <1>0
  <2> QED
    BY <2>1, <2>2
<1>2. old = Ring /\ old \in Seq(Nat) /\ g \o old \in Seq(Nat) /\ All = (g \o old) \o fifo
  BY <1>0, RingIs DEF All
<1>3. Left(((g \o old) \o <<c>>) \o rest, lost, typed)
  <2> PICK p : p = g \o old
    OBVIOUS
  <2>1. (p \o <<c>>) \o rest = p \o (<<c>> \o rest)
    <3> PICK one : one = <<c>>
      OBVIOUS
    <3>1. p \in Seq(Nat) /\ one \in Seq(Nat) /\ rest \in Seq(Nat)
      BY <1>1, <1>2
    <3>2. (p \o one) \o rest = p \o (one \o rest)
      BY ONLY <3>1, Assoc
    <3> QED
      BY <3>2
  <2>2. Left(All, lost, typed)
    BY DEF IrqInv, Chars, Left
  <2> QED
    BY <1>1, <1>2, <2>1, <2>2
<1>4. /\ g_rx_buf' \in [0 .. N - 1 -> Nat] /\ g_rx_head' \in 0 .. N - 1 /\ lost' \in Nat
      /\ g \o new \in Seq(Nat) /\ Left((g \o new) \o rest, lost', typed)
  <2>1. CASE rb_is_full
    <3>1. lost' = lost + 1 /\ UNCHANGED <<g_rx_buf, g_rx_head>>
      BY <2>1 DEF console_on_char_from_irq
    <3>2. new = old
      BY <3>1
    <3>3. Left((g \o old) \o rest, lost + 1, typed)
      BY <1>0, <1>1, <1>2, <1>3, OneLess
    <3> QED
      BY <1>0, <1>2, <3>1, <3>2, <3>3
  <2>2. CASE ~rb_is_full
    <3>1. g_rx_buf' = [g_rx_buf EXCEPT ![g_rx_head] = c] /\ g_rx_head' = (g_rx_head + 1) % N /\ lost' = lost
      BY <2>2 DEF console_on_char_from_irq
    <3>2. Pushes(g_rx_head, g_rx_tail, g_rx_head')
      BY <2>2, <3>1 DEF rb_is_full, Pushes
    <3>3. new = Append(old, c) /\ g_rx_head' \in 0 .. N - 1
      <4> PICK head2 : head2 = g_rx_head'
        OBVIOUS
      <4> PICK buf2 : buf2 = g_rx_buf'
        OBVIOUS
      <4> PICK buf, head : buf = g_rx_buf /\ head = g_rx_head
        OBVIOUS
      <4>1. /\ buf \in [0 .. N - 1 -> Nat] /\ head \in 0 .. N - 1 /\ tail \in 0 .. N - 1 /\ c \in Nat
            /\ Pushes(head, tail, head2) /\ buf2 = [buf EXCEPT ![head] = c]
        BY <1>0, <1>1, <3>1, <3>2
      <4>2. Pushed(buf, head, tail, c, buf2, head2)
        BY ONLY <4>1, RingPush
      <4> QED
        BY <4>2 DEF Pushed
    <3>4. g_rx_buf' \in [0 .. N - 1 -> Nat]
      BY <1>0, <1>1, <3>1
    <3>5. g \o new = (g \o old) \o <<c>> /\ g \o new \in Seq(Nat)
      <4>1. new = old \o <<c>>
        BY <1>1, <1>2, <3>3, AppendIsConcat
      <4> PICK one : one = <<c>>
        OBVIOUS
      <4>2. g \in Seq(Nat) /\ old \in Seq(Nat) /\ one \in Seq(Nat)
        BY <1>0, <1>1, <1>2
      <4>3. (g \o old) \o one = g \o (old \o one)
        BY ONLY <4>2, Assoc
      <4>4. (g \o old) \o one \in Seq(Nat)
        BY <1>2, <4>2, ConcatProperties
      <4> QED
        BY <4>1, <4>3, <4>4
    <3> QED
      BY <1>0, <1>3, <3>1, <3>3, <3>4, <3>5
  <2> QED
    BY <2>1, <2>2
<1>5. /\ got' \in Seq(Nat) /\ g_rx_tail' \in 0 .. N - 1 /\ waiter' = 0
      /\ got' \o RingOf(g_rx_buf', g_rx_head', g_rx_tail') = g \o new
  <2>1. waiter' = 0
    BY DEF console_on_char_from_irq
  <2>2. CASE waiter = 0
    BY <1>0, <2>1, <2>2 DEF console_on_char_from_irq
  <2>3. CASE waiter # 0
    <3> PICK buf : buf = g_rx_buf'
      OBVIOUS
    <3> PICK head : head = g_rx_head'
      OBVIOUS
    <3> PICK len : len = waiter
      OBVIOUS
    <3>1. buf \in [0 .. N - 1 -> Nat] /\ head \in 0 .. N - 1 /\ len \in Nat
      BY <1>0, <1>4
    <3>2. console_read_nonblock(buf, head, len)
      BY <2>3 DEF console_on_char_from_irq
    <3>3. /\ got' \in Seq(Nat) /\ g_rx_tail' \in 0 .. N - 1
          /\ got' \o RingOf(buf, head, g_rx_tail') = got \o RingOf(buf, head, g_rx_tail)
      BY <1>0, <3>1, <3>2, ReadStep
    <3> QED
      BY <2>1, <3>3
  <2> QED
    BY <2>2, <2>3
<1>6. Types'
  BY <1>0, <1>1, <1>4, <1>5 DEF Types
<1>7. All' = (g \o new) \o rest
  <2>1. Ring' = RingOf(g_rx_buf', g_rx_head', g_rx_tail')
    BY DEF Ring, RingOf, Available
  <2> QED
    BY <1>5, <2>1 DEF All
<1>8. Chars'
  BY <1>4, <1>7 DEF Chars, Left
<1>9. Own' /\ Stats'
  BY DEF IrqInv, Own, Stats
<1> QED
  BY <1>6, <1>8, <1>9 DEF IrqInv

----------------------------------------------------------------------------
(* The statistics.                                                         *)

Bumped(r, st, t) ==
  /\ r \in Stat /\ r.count = st.count + 1 /\ r.last_tick = t
  /\ r.first_tick = (IF st.count = 0 THEN t ELSE st.first_tick)
  /\ r.max_delta = IF st.count > 0 /\ t - st.last_tick > st.max_delta THEN t - st.last_tick ELSE st.max_delta

\* What count_irq does to the statistics of an interrupt.
LEMMA CountStat ==
  ASSUME NEW st \in Stat, NEW t \in Nat
  PROVE  Bumped(count_irq(st, t), st, t)
<1> PICK m : m = IF st.count > 0 /\ t - st.last_tick > st.max_delta THEN t - st.last_tick ELSE st.max_delta
  OBVIOUS
<1> PICK f : f = IF st.count = 0 THEN t ELSE st.first_tick
  OBVIOUS
<1> PICK r : r = count_irq(st, t)
  OBVIOUS
<1>1. st.count \in Nat /\ st.first_tick \in Nat /\ st.last_tick \in Nat /\ st.max_delta \in Nat
  BY DEF Stat
<1>2. m \in Nat /\ f \in Nat /\ st.count + 1 \in Nat
  BY <1>1
<1>3. r = [count |-> st.count + 1, first_tick |-> f, last_tick |-> t, max_delta |-> m]
  BY DEF count_irq, Stat
<1>4. r \in Stat /\ r.count = st.count + 1 /\ r.first_tick = f /\ r.last_tick = t /\ r.max_delta = m
  BY <1>2, <1>3 DEF Stat
<1> QED
  BY <1>4 DEF Bumped

\* One more interrupt, at the time t.
LEMMA CountedStep ==
  ASSUME NEW c \in Seq(Nat), NEW st \in Stat, NEW t \in Nat, Counted(c, st, t)
  PROVE  Counted(Append(c, t), count_irq(st, t), t)
<1> PICK r : r = count_irq(st, t)
  OBVIOUS
<1> PICK L : L = Len(c)
  OBVIOUS
<1> PICK e : e = Append(c, t)
  OBVIOUS
<1>1. /\ r \in Stat /\ r.count = st.count + 1 /\ r.last_tick = t
      /\ r.first_tick = (IF st.count = 0 THEN t ELSE st.first_tick)
      /\ r.max_delta = IF st.count > 0 /\ t - st.last_tick > st.max_delta THEN t - st.last_tick ELSE st.max_delta
  <2>1. Bumped(r, st, t)
    BY CountStat
  <2> QED
    BY <2>1 DEF Bumped
<1>2. L \in Nat /\ e \in Seq(Nat) /\ Len(e) = L + 1 /\ e[L + 1] = t /\ \A k \in 1 .. L : e[k] = c[k] /\ c[k] \in Nat
  BY AppendProperties
<1>3. st.count = L /\ st.max_delta \in Nat /\ st.last_tick \in Nat /\ st.count \in Nat
  BY DEF Counted, Stat
<1>4. CASE L = 0
  <2>1. r.count = 1 /\ r.first_tick = t /\ r.last_tick = t /\ r.max_delta = 0
    BY <1>1, <1>3, <1>4 DEF Counted, Delta
  <2>2. Len(e) = 1 /\ e[1] = t
    BY <1>2, <1>4
  <2>3. Counted(e, r, t)
    BY <2>1, <2>2 DEF Counted, Delta
  <2> QED
    BY <2>3
<1>5. CASE L # 0
  <2>0. L \in 1 .. L /\ L > 0
    BY <1>2, <1>5
  <2>1. /\ st.first_tick = c[1] /\ st.last_tick = c[L] /\ c[L] <= t /\ c[L] \in Nat
        /\ e[1] = c[1] /\ e[L] = c[L]
    BY <1>2, <2>0 DEF Counted
  <2> PICK d, md, md2 : d = t - c[L] /\ md = st.max_delta /\ md2 = r.max_delta
    OBVIOUS
  <2>2. d \in Nat /\ md \in Nat /\ md2 = (IF d > md THEN d ELSE md) /\ e[L + 1] - e[L] = d
    BY <1>1, <1>2, <1>3, <2>0, <2>1
  <2>3. md2 \in Nat /\ md <= md2 /\ d <= md2
    BY ONLY <2>2
  <2>4. L <= 1 => md = 0
    BY DEF Counted, Delta
  <2>5. ~(L <= 1) => /\ \E k \in 1 .. L - 1 : md = c[k + 1] - c[k]
                     /\ \A k \in 1 .. L - 1 : c[k + 1] - c[k] <= md
    BY DEF Counted, Delta
  <2>6. ASSUME NEW k \in 1 .. L - 1 PROVE /\ e[k + 1] - e[k] = c[k + 1] - c[k] /\ e[k + 1] - e[k] \in Int
                                          /\ k \in 1 .. L
    <3>1. k \in 1 .. L /\ k + 1 \in 1 .. L
      BY <1>2
    <3> QED
      BY <1>2, <3>1
  <2>7. \E k \in 1 .. L : md2 = e[k + 1] - e[k]
    <3>1. CASE d > md
      BY <2>0, <2>2, <3>1
    <3>2. CASE ~(d > md) /\ L <= 1
      <4>1. md2 = d
        BY ONLY <2>2, <2>4, <3>2
      <4> QED
        BY <2>0, <2>2, <4>1
    <3>3. CASE ~(d > md) /\ ~(L <= 1)
      <4>1. PICK k \in 1 .. L - 1 : md = c[k + 1] - c[k]
        BY <2>5, <3>3
      <4>2. md2 = e[k + 1] - e[k] /\ k \in 1 .. L
        BY <2>2, <2>6, <3>3, <4>1
      <4> QED
        BY <4>2
    <3> QED
      BY <3>1, <3>2, <3>3
  <2>8. ASSUME NEW k \in 1 .. L PROVE e[k + 1] - e[k] <= md2
    <3>1. CASE k = L
      BY <2>2, <2>3, <3>1
    <3>2. CASE k # L
      <4>1. k \in 1 .. L - 1 /\ ~(L <= 1)
        BY <1>2, <3>2
      <4>2. c[k + 1] - c[k] <= md /\ e[k + 1] - e[k] = c[k + 1] - c[k] /\ e[k + 1] - e[k] \in Int
        BY <2>5, <2>6, <4>1
      <4>3. c[k + 1] - c[k] \in Int
        BY ONLY <4>2
      <4> QED
        BY ONLY <2>2, <2>3, <4>2, <4>3
    <3> QED
      BY <3>1, <3>2
  <2>9. Delta(e, r)
    <3>1. ~(Len(e) <= 1) /\ Len(e) - 1 = L
      BY <1>2, <1>5
    <3> QED
      BY <2>7, <2>8, <3>1 DEF Delta
  <2>10. r.count = Len(e) /\ r.first_tick = e[1] /\ r.last_tick = e[Len(e)] /\ e[Len(e)] <= t
    BY <1>1, <1>2, <1>3, <1>5, <2>1
  <2>11. Counted(e, r, t)
    BY <2>9, <2>10 DEF Counted
  <2> QED
    BY <2>11
<1> QED
  BY <1>4, <1>5

\* plic_claim counts the interrupt it claims.
LEMMA ClaimStep ==
  ASSUME IrqInv, plic_claim
  PROVE  IrqInv'
<1>1. PICK i \in pending \cap enabled[Boot] :
        /\ pending' = pending \ {i} /\ claims' = Append(claims, now)
        /\ s_irq_stats' = IF i < MAX_IRQ THEN [s_irq_stats EXCEPT ![i] = count_irq(@, now)] ELSE s_irq_stats
  BY DEF plic_claim
<1>2. UNCHANGED <<now, uart_irq, uart, console>>
  BY DEF plic_claim
<1>3. i = uart_irq /\ i \in Nat /\ now \in Nat /\ claims \in Seq(Nat) /\ claims' \in Seq(Nat)
  BY <1>1, AppendProperties DEF IrqInv, Own, Types
<1>4. s_irq_stats \in [0 .. MAX_IRQ - 1 -> Stat]
  BY DEF IrqInv, Types
<1>5. i < MAX_IRQ => s_irq_stats[i] \in Stat /\ i \in 0 .. MAX_IRQ - 1
  BY <1>3, <1>4
<1> PICK r : r = count_irq(s_irq_stats[i], now)
  OBVIOUS
<1>6. i < MAX_IRQ => r \in Stat
  BY <1>3, <1>5, CountStat DEF Bumped
<1>7. s_irq_stats' = IF i < MAX_IRQ THEN [s_irq_stats EXCEPT ![i] = r] ELSE s_irq_stats
  BY <1>1
<1>8. s_irq_stats' \in [0 .. MAX_IRQ - 1 -> Stat] /\ (i < MAX_IRQ => s_irq_stats'[i] = r)
  BY <1>4, <1>5, <1>6, <1>7
<1>9. Types'
  BY <1>2, <1>3, <1>8 DEF IrqInv, Types, uart, console
<1>10. All' = All
  BY <1>2 DEF All, Ring, Available, console, uart
<1>11. Chars' /\ Own'
  BY <1>1, <1>2, <1>10 DEF IrqInv, Chars, Own, uart
<1>12. ASSUME uart_irq \in 1 .. MAX_IRQ - 1 PROVE Counted(claims', s_irq_stats'[uart_irq], now)
  <2>1. i < MAX_IRQ
    BY <1>3, <1>12
  <2>2. Counted(claims, s_irq_stats[i], now)
    BY <1>3, <1>12 DEF IrqInv, Stats
  <2>3. Counted(Append(claims, now), r, now)
    BY <1>3, <1>5, <2>1, <2>2, CountedStep
  <2> QED
    BY <1>1, <1>3, <1>8, <2>1, <2>3
<1>13. Stats'
  BY <1>2, <1>12 DEF Stats
<1> QED
  BY <1>9, <1>11, <1>13 DEF IrqInv

\* Every step preserves the invariant.
LEMMA NextIrqInv ==
  ASSUME IrqInv, [Next]_vars
  PROVE  IrqInv'
<1>1. pending \subseteq {uart_irq}
  BY DEF IrqInv, Own
<1>2. CASE UNCHANGED vars
  BY <1>1, <1>2, QuietStep DEF vars, plic, table
<1>3. CASE gateway
  BY <1>1, <1>3, QuietStep DEF gateway, table
<1>4. CASE SetUp \/ \E h \in Secondary : platform_secondary_hart_init(h)
  BY <1>1, <1>4, QuietStep DEF SetUp, platform_init, platform_boot_hart_init, platform_secondary_hart_init, table
<1>5. CASE trap_external \/ plic_claim_none \/ uart16550_irq_handler
  BY <1>1, <1>5, QuietStep DEF trap_external, plic_claim_none, uart16550_irq_handler, plic, table
<1>6. CASE plic_complete
  BY <1>1, <1>6, QuietStep DEF plic_complete, table
<1>7. CASE uart16550_drain
  <2>1. CASE fifo = <<>>
    BY <1>1, <1>7, <2>1, QuietStep DEF uart16550_drain, plic, table, uart
  <2>2. CASE fifo # <<>>
    BY <1>7, <2>2, CharStep DEF uart16550_drain, plic, table
  <2> QED
    BY <2>1, <2>2
<1> QED
  BY <1>2, <1>3, <1>4, <1>5, <1>6, <1>7, TickStep, ReceiveStep, ClaimStep, SysReadStep DEF Next, Handling

\* InputAccounted for every size of the receiver, the ring and the handler
\* table, any number of characters, reads and interrupts: console.c loses a
\* character only to a full ring and hands the others over once and in order,
\* and platform.c counts each interrupt of the UART and measures each gap.
THEOREM InputNeverLost == Spec => []InputAccounted
<1>1. IrqInv => InputAccounted
  <2> SUFFICES ASSUME IrqInv PROVE InputAccounted
    OBVIOUS
  <2>1. InputInOrder
    BY DEF IrqInv, Chars, InputInOrder, All, Increasing
  <2>2. StatsRight
    <3> SUFFICES ASSUME uart_irq \in 1 .. MAX_IRQ - 1
                 PROVE  LET st == s_irq_stats[uart_irq]
                        IN  /\ st.count = Len(claims)
                            /\ Len(claims) > 0 => st.first_tick = claims[1] /\ st.last_tick = claims[Len(claims)]
                            /\ st.max_delta = IF Gaps = {} THEN 0 ELSE CHOOSE g \in Gaps : \A f \in Gaps : f <= g
      BY DEF StatsRight
    <3> PICK st : st = s_irq_stats[uart_irq]
      OBVIOUS
    <3> PICK L : L = Len(claims)
      OBVIOUS
    <3>1. Counted(claims, st, now) /\ claims \in Seq(Nat)
      BY DEF IrqInv, Types, Stats
    <3>2. CASE L <= 1
      <4>1. Gaps = {} /\ st.max_delta = 0
        BY <3>1, <3>2 DEF Counted, Delta, Gaps
      <4> QED
        BY <3>1, <4>1 DEF Counted
    <3>3. CASE ~(L <= 1)
      <4>1. /\ \E k \in 1 .. L - 1 : st.max_delta = claims[k + 1] - claims[k]
            /\ \A k \in 1 .. L - 1 : claims[k + 1] - claims[k] <= st.max_delta
        BY <3>1, <3>3 DEF Counted, Delta
      <4>2. st.max_delta \in Gaps /\ \A f \in Gaps : f <= st.max_delta
        BY <4>1 DEF Gaps
      <4>3. Gaps \subseteq Int
        BY <3>1 DEF Gaps
      <4>4. \A g \in Gaps : (\A f \in Gaps : f <= g) => g = st.max_delta
        <5> SUFFICES ASSUME NEW g \in Gaps, \A f \in Gaps : f <= g PROVE g = st.max_delta
          OBVIOUS
        <5> PICK m : m = st.max_delta
          OBVIOUS
        <5>1. m <= g /\ g <= m /\ m \in Int /\ g \in Int
          BY <4>2, <4>3
        <5> QED
          BY <5>1
      <4>5. st.max_delta = CHOOSE g \in Gaps : \A f \in Gaps : f <= g
        BY <4>2, <4>4
      <4> QED
        BY <3>1, <4>2, <4>5 DEF Counted
    <3> QED
      BY <3>2, <3>3
  <2> QED
    BY <2>1, <2>2 DEF InputAccounted
<1> QED
  BY <1>1, InitIrqInv, NextIrqInv, PTL DEF Spec
=============================================================================

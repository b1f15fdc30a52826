---------------------------- MODULE LibraryProofs ----------------------------
(***************************************************************************)
(* Theorems about the functions other code calls one at a time: the linked *)
(* lists of runqueue.c are well formed and implement the queues of         *)
(* RunQueueSpec, for any number of harts, threads and buffer sizes;        *)
(* epoch_to_utc_datetime is right for every number of seconds; the clocks  *)
(* are exact and never go back, whatever the timebase, and the timer does  *)
(* not storm; what the readers of ulib_stdio.c return is what was typed,   *)
(* for every buffer; what the formatters store is the text cut to the      *)
(* room, for every format, and u_atol and shell_atoi read back every       *)
(* number printed.                                                         *)
(***************************************************************************)
EXTENDS RunQueue, DateTime, Clock, UserInput, Format, SequenceTheorems,
        WellFoundedInduction, TLAPS

----------------------------------------------------------------------------
(* Run queues.                                                             *)

Inv == TypeOK /\ ListsWellFormed

\* The members and the length of a SubSeq.
LEMMA SubSeqFields ==
  ASSUME NEW S, NEW q \in Seq(S), NEW m \in 1 .. Len(q) + 1, NEW n \in m - 1 .. Len(q)
  PROVE  /\ SubSeq(q, m, n) \in Seq(S)
         /\ Len(SubSeq(q, m, n)) = n - m + 1
         /\ \A j \in 1 .. n - m + 1 : SubSeq(q, m, n)[j] = q[m + j - 1]
<1>1. Len(q) \in Nat /\ n \in 0 .. Len(q)
  OBVIOUS
<1>2. QED
  BY <1>1, SubSeqProperties

\* RemoveAt drops entry i and moves the later ones up.
LEMMA RemoveAtFields ==
  ASSUME NEW S, NEW q \in Seq(S), NEW i \in 1 .. Len(q)
  PROVE  /\ RemoveAt(q, i) \in Seq(S)
         /\ Len(RemoveAt(q, i)) = Len(q) - 1
         /\ \A j \in 1 .. Len(q) - 1 :
              RemoveAt(q, i)[j] = IF j < i THEN q[j] ELSE q[j + 1]
<1> DEFINE a == SubSeq(q, 1, i - 1)
           b == SubSeq(q, i + 1, Len(q))
<1>1. Len(q) \in Nat
  OBVIOUS
<1>2. a \in Seq(S) /\ Len(a) = i - 1 /\ \A j \in 1 .. i - 1 : a[j] = q[j]
  <2>1. 1 \in 1 .. Len(q) + 1 /\ i - 1 \in 1 - 1 .. Len(q) /\ (i - 1) - 1 + 1 = i - 1
    BY <1>1
  <2>2. \A j \in 1 .. i - 1 : 1 + j - 1 = j
    BY <1>1
  <2>3. QED
    BY <2>1, <2>2, SubSeqFields
<1>3. b \in Seq(S) /\ Len(b) = Len(q) - i /\ \A j \in 1 .. Len(q) - i : b[j] = q[i + j]
  <2>1. /\ i + 1 \in 1 .. Len(q) + 1 /\ Len(q) \in (i + 1) - 1 .. Len(q)
        /\ Len(q) - (i + 1) + 1 = Len(q) - i
    BY <1>1
  <2>2. /\ b \in Seq(S) /\ Len(b) = Len(q) - (i + 1) + 1
        /\ \A j \in 1 .. Len(q) - (i + 1) + 1 : b[j] = q[(i + 1) + j - 1]
    BY <2>1, SubSeqFields
  <2> HIDE DEF b
  <2>3. \A j \in 1 .. Len(q) - i : (i + 1) + j - 1 = i + j
    BY <1>1
  <2>4. QED
    BY <2>1, <2>2, <2>3
<1>4. RemoveAt(q, i) = a \o b
  BY DEF RemoveAt
<1> HIDE DEF a, b
<1>5. /\ a \o b \in Seq(S) /\ Len(a \o b) = Len(a) + Len(b)
      /\ \A j \in 1 .. Len(a) + Len(b) :
           (a \o b)[j] = IF j <= Len(a) THEN a[j] ELSE b[j - Len(a)]
  BY <1>2, <1>3, ConcatProperties
<1>6. Len(a) + Len(b) = Len(q) - 1
  BY <1>1, <1>2, <1>3
<1>7. ASSUME NEW j \in 1 .. Len(q) - 1
      PROVE  (a \o b)[j] = IF j < i THEN q[j] ELSE q[j + 1]
  <2>1. CASE j < i
    BY <2>1, <1>1, <1>2, <1>5, <1>6
  <2>2. CASE ~(j < i)
    <3>1. j - (i - 1) \in 1 .. Len(q) - i /\ i + (j - (i - 1)) = j + 1 /\ ~(j <= i - 1)
      BY <2>2, <1>1
    <3>2. (a \o b)[j] = b[j - (i - 1)]
      BY <3>1, <1>2, <1>5, <1>6
    <3>3. b[j - (i - 1)] = q[j + 1]
      BY <3>1, <1>3
    <3>4. QED
      BY <2>2, <3>2, <3>3
  <2>3. QED
    BY <2>1, <2>2
<1>8. QED
  BY <1>4, <1>5, <1>6, <1>7

\* The first entry of a sequence over S is in S.
LEMMA FirstTyped ==
  ASSUME NEW S, NEW q \in Seq(S), q # <<>>
  PROVE  q[1] \in S
  OBVIOUS

\* Tail drops the first entry.
LEMMA TailFields ==
  ASSUME NEW S, NEW q \in Seq(S), q # <<>>
  PROVE  /\ Tail(q) \in Seq(S)
         /\ Len(Tail(q)) = Len(q) - 1
         /\ \A j \in 1 .. Len(q) - 1 : Tail(q)[j] = q[j + 1]
  OBVIOUS

\* Append adds one entry at the end.
LEMMA AppendFields ==
  ASSUME NEW S, NEW q \in Seq(S), NEW t \in S
  PROVE  /\ Append(q, t) \in Seq(S)
         /\ Len(Append(q, t)) = Len(q) + 1
         /\ \A j \in 1 .. Len(q) : Append(q, t)[j] = q[j]
         /\ Append(q, t)[Len(q) + 1] = t
  OBVIOUS

\* Thread ids are integers and -1 is none of them.
LEMMA Ids == /\ Hart \subseteq Nat /\ User \subseteq Nat /\ NONE \notin User /\ NONE \in Int
             /\ \A h \in Hart : 0 .. h - 1 \subseteq Hart
             /\ 0 \in Hart
  BY RunQueueAssumption DEF Hart, User, NONE

\* The record for no call in progress is a Walk.
LEMMA IdleOK == Idle \in Walk
  BY Ids DEF Idle, Walk

\* The invariant holds after rq_init_all.
LEMMA InitInv == Init => Inv
  BY RunQueueAssumption, IdleOK DEF Init, Inv, TypeOK, WalkOK, ListsWellFormed, Spells, Idle, Hart, User, NONE

\* rq_push_tail keeps the lists well formed.
LEMMA PushInv ==
  ASSUME Inv, NEW h \in Hart, NEW t \in User, rq_push_tail(h, t)
  PROVE  Inv'
<1> DEFINE q == queue[h]
           n == Len(queue[h])
<1> USE DEF rq_push_tail
<1>1. q \in Seq(User) /\ n \in Nat /\ (q = <<>> <=> n = 0)
  BY DEF Inv, TypeOK
<1>2. /\ queue' \in [Hart -> Seq(User)]
      /\ Len(queue'[h]) = n + 1 /\ queue'[h][n + 1] = t
      /\ \A j \in 1 .. n : queue'[h][j] = q[j]
      /\ \A g \in Hart \ {h} : queue'[g] = queue[g]
  BY <1>1, AppendFields DEF Inv, TypeOK
<1>3. \A g \in Hart : \A i \in 1 .. Len(queue[g]) : queue[g][i] # t /\ queue[g][i] \in User
  BY DEF Inv, TypeOK, ListsWellFormed
<1>4. tail[h] = NONE <=> n = 0
  BY <1>1, Ids, SMTT(30) DEF Inv, TypeOK, ListsWellFormed, Spells
<1>5. n # 0 => tail[h] = q[n] /\ tail[h] \in User /\ tail[h] # t
  BY <1>1, <1>3 DEF Inv, TypeOK, ListsWellFormed, Spells
<1>6. TypeOK'
  <2>1. walk' = Idle
    BY DEF Inv, TypeOK, WalkOK
  <2>2. WalkOK' /\ walk' \in Walk
    BY <2>1, IdleOK DEF WalkOK, Idle
  <2>3. rq_next' \in [User -> User \cup {NONE}]
    BY <1>4, <1>5 DEF Inv, TypeOK
  <2>4. head' \in [Hart -> User \cup {NONE}] /\ tail' \in [Hart -> User \cup {NONE}]
    BY DEF Inv, TypeOK
  <2>5. len' \in [Hart -> Nat] /\ on_rq' \in [User -> {0, 1}]
    BY DEF Inv, TypeOK
  <2>6. QED
    BY <2>2, <2>3, <2>4, <2>5, <1>2 DEF TypeOK
<1>7. Spells(h)'
  <2>1. CASE n = 0
    <3>1. /\ len'[h] = 1 /\ tail'[h] = t /\ head'[h] = t /\ rq_next'[t] = NONE
      BY <2>1, <1>1, <1>4 DEF Inv, TypeOK, ListsWellFormed, Spells
    <3>2. Len(queue'[h]) = 1 /\ queue'[h][1] = t /\ queue'[h] # <<>>
      BY <2>1, <1>2
    <3>3. QED
      BY <3>1, <3>2 DEF Spells
  <2>2. CASE n # 0
    <3>1. /\ len'[h] = n + 1 /\ tail'[h] = t /\ head'[h] = queue'[h][1]
          /\ queue'[h] # <<>>
      <4>1. len'[h] = n + 1 /\ tail'[h] = t
        BY DEF Inv, TypeOK, ListsWellFormed, Spells
      <4>2. head'[h] = q[1]
        BY <2>2, <1>1, <1>4 DEF Inv, ListsWellFormed, Spells
      <4>3. queue'[h][1] = q[1] /\ queue'[h] # <<>>
        BY <2>2, <1>1, <1>2
      <4>4. QED
        BY <4>1, <4>2, <4>3
    <3>2. rq_next'[t] = NONE /\ rq_next'[q[n]] = t
      BY <2>2, <1>1, <1>2, <1>3, <1>4, <1>5 DEF Inv, TypeOK
    <3>3. ASSUME NEW i \in 1 .. n - 1  PROVE rq_next'[q[i]] = q[i + 1]
      <4>1. q[i] # q[n] /\ q[i] # t /\ q[i] \in User
        BY <2>2, <1>1, <1>3 DEF Inv, ListsWellFormed
      <4>2. rq_next[q[i]] = q[i + 1]
        BY <1>1, SMTT(30) DEF Inv, ListsWellFormed, Spells
      <4>3. QED
        BY <4>1, <4>2, <1>4, <1>5 DEF Inv, TypeOK
    <3>4. QED
      BY <3>1, <3>2, <3>3, <1>1, <1>2 DEF Spells
  <2>3. QED
    BY <2>1, <2>2
<1>8. ASSUME NEW g \in Hart \ {h}  PROVE Spells(g)'
  <2>1. \A i \in 1 .. Len(queue[g]) : queue[g][i] # t /\ (n # 0 => queue[g][i] # q[n])
    BY <1>1, <1>3 DEF Inv, ListsWellFormed
  <2>2. \A i \in 1 .. Len(queue[g]) : rq_next'[queue[g][i]] = rq_next[queue[g][i]]
    BY <2>1, <1>3, <1>4, <1>5 DEF Inv, TypeOK
  <2>3. head'[g] = head[g] /\ tail'[g] = tail[g] /\ len'[g] = len[g]
    BY <1>4 DEF Inv, TypeOK
  <2>4. QED
    BY <2>2, <2>3, <1>2 DEF Inv, ListsWellFormed, Spells
<1>9. ASSUME NEW f \in Hart, NEW g \in Hart, NEW i \in 1 .. Len(queue'[f]), NEW j \in 1 .. Len(queue'[g]),
             queue'[f][i] = queue'[g][j]
      PROVE  f = g /\ i = j
  BY <1>9, <1>1, <1>2, <1>3 DEF Inv, ListsWellFormed
<1>10. ASSUME NEW u \in User
       PROVE  IF on_rq'[u] = 1 THEN \E g \in Hart : \E i \in 1 .. Len(queue'[g]) : queue'[g][i] = u
              ELSE /\ rq_next'[u] = NONE
                   /\ \A g \in Hart : \A i \in 1 .. Len(queue'[g]) : queue'[g][i] # u
  <2>1. CASE u = t
    BY <2>1, <1>1, <1>2 DEF Inv, TypeOK
  <2>2. CASE u # t /\ on_rq[u] = 1
    <3>1. PICK g \in Hart : \E i \in 1 .. Len(queue[g]) : queue[g][i] = u
      BY <2>2 DEF Inv, ListsWellFormed
    <3>2. \E i \in 1 .. Len(queue'[g]) : queue'[g][i] = u
      BY <3>1, <1>1, <1>2
    <3>3. on_rq'[u] = 1
      BY <2>2 DEF Inv, TypeOK
    <3>4. QED
      BY <3>2, <3>3
  <2>3. CASE u # t /\ on_rq[u] # 1
    <3>1. on_rq'[u] # 1
      BY <2>3 DEF Inv, TypeOK
    <3>2. \A g \in Hart : \A i \in 1 .. Len(queue[g]) : queue[g][i] # u
      BY <2>3 DEF Inv, ListsWellFormed
    <3>3. \A g \in Hart : \A i \in 1 .. Len(queue'[g]) : queue'[g][i] # u
      BY <2>3, <3>2, <1>1, <1>2
    <3>4. rq_next'[u] = NONE
      BY <2>3, <3>2, <1>1, <1>4, <1>5 DEF Inv, TypeOK, ListsWellFormed
    <3>5. QED
      BY <3>1, <3>3, <3>4
  <2>4. QED
    BY <2>1, <2>2, <2>3
<1>11. QED
  BY <1>6, <1>7, <1>8, <1>9, <1>10 DEF Inv, ListsWellFormed

\* The node at position nth of the list of hart h is unlinked.
Unlinked(h, nth) ==
  LET q == queue[h]
      t == queue[h][nth]
  IN  /\ head' = [head EXCEPT ![h] = IF nth = 1 THEN rq_next[t] ELSE @]
      /\ tail' = [tail EXCEPT ![h] = IF @ = t THEN (IF nth = 1 THEN NONE ELSE q[nth - 1]) ELSE @]
      /\ len' = [len EXCEPT ![h] = IF @ > 0 THEN @ - 1 ELSE @]
      /\ rq_next' = IF nth = 1 THEN [rq_next EXCEPT ![t] = NONE]
                    ELSE [rq_next EXCEPT ![q[nth - 1]] = rq_next[t], ![t] = NONE]
      /\ on_rq' = [on_rq EXCEPT ![t] = 0]
      /\ queue' \in [Hart -> Seq(User)]
      /\ \A g \in Hart \ {h} : queue'[g] = queue[g]
      /\ Len(queue'[h]) = Len(q) - 1
      /\ \A j \in 1 .. Len(q) - 1 : queue'[h][j] = IF j < nth THEN q[j] ELSE q[j + 1]

\* Unlinking any one node keeps the lists well formed.
LEMMA UnlinkInv ==
  ASSUME Inv, NEW h \in Hart, NEW nth \in 1 .. Len(queue[h]), Unlinked(h, nth), walk' = Idle
  PROVE  Inv'
<1> DEFINE q == queue[h]
           t == queue[h][nth]
<1>1. PICK n \in Nat : n = Len(queue[h])
  BY DEF Inv, TypeOK
<1>2. n > 0 /\ nth \in 1 .. n
  BY <1>1
<1>3. q \in Seq(User) /\ t \in User
  BY DEF Inv, TypeOK
<1>4. /\ Len(queue'[h]) = n - 1 /\ queue'[h] \in Seq(User)
      /\ \A j \in 1 .. n - 1 : queue'[h][j] = IF j < nth THEN q[j] ELSE q[j + 1]
  BY <1>1 DEF Unlinked
<1>5. \A i \in 1 .. n : q[i] \in User /\ (q[i] = t => i = nth)
  BY <1>1, <1>2, <1>3 DEF Inv, ListsWellFormed
<1>6. rq_next[t] = IF nth < n THEN q[nth + 1] ELSE NONE
  BY <1>1, <1>2, <1>3 DEF Inv, ListsWellFormed, Spells
<1>7. tail[h] = q[n] /\ head[h] = q[1] /\ len[h] = n
  BY <1>1, <1>2, <1>3 DEF Inv, ListsWellFormed, Spells
<1>8. rq_next[t] \in User \cup {NONE}
  BY <1>2, <1>3, <1>5, <1>6
<1>9. nth # 1 => nth - 1 \in 1 .. n /\ q[nth - 1] \in User /\ q[nth - 1] # t
  BY <1>2, <1>3, <1>5
<1>10. TypeOK'
  <2>1. WalkOK' /\ walk' \in Walk
    BY IdleOK DEF WalkOK, Idle
  <2>2. rq_next' \in [User -> User \cup {NONE}]
    BY <1>2, <1>3, <1>8, <1>9 DEF Inv, TypeOK, Unlinked
  <2>3. head' \in [Hart -> User \cup {NONE}]
    BY <1>8 DEF Inv, TypeOK, Unlinked
  <2>4. tail' \in [Hart -> User \cup {NONE}]
    BY <1>9 DEF Inv, TypeOK, Unlinked
  <2>5. len' \in [Hart -> Nat]
    BY DEF Inv, TypeOK, Unlinked
  <2>6. on_rq' \in [User -> {0, 1}]
    BY DEF Inv, TypeOK, Unlinked
  <2>7. QED
    BY <2>1, <2>2, <2>3, <2>4, <2>5, <2>6 DEF TypeOK, Unlinked
<1>11. /\ rq_next'[t] = NONE
       /\ nth # 1 => rq_next'[q[nth - 1]] = rq_next[t]
       /\ \A u \in User : u # t /\ (nth # 1 => u # q[nth - 1]) => rq_next'[u] = rq_next[u]
  BY <1>2, <1>3, <1>9 DEF Inv, TypeOK, Unlinked
<1>12. Spells(h)'
  <2>1. len'[h] = n - 1 /\ Len(queue'[h]) = n - 1
    <3>1. len'[h] = IF len[h] > 0 THEN len[h] - 1 ELSE len[h]
      BY DEF Inv, TypeOK, Unlinked
    <3>2. QED
      BY <3>1, <1>7, <1>4, <1>2
  <2>2. queue'[h] \in Seq(User) /\ (queue'[h] = <<>> <=> n = 1)
    BY <2>1, <1>2, <1>4
  <2>3. head'[h] = IF n = 1 THEN NONE ELSE queue'[h][1]
    <3>1. head'[h] = IF nth = 1 THEN rq_next[t] ELSE head[h]
      BY DEF Inv, TypeOK, Unlinked
    <3>2. n # 1 => queue'[h][1] = IF 1 < nth THEN q[1] ELSE q[2]
      BY <1>2, <1>4
    <3>3. QED
      BY <3>1, <3>2, <1>2, <1>3, <1>6, <1>7
  <2>4. tail'[h] = IF n = 1 THEN NONE ELSE queue'[h][n - 1]
    <3>1. tail'[h] = IF nth = n THEN (IF nth = 1 THEN NONE ELSE q[nth - 1]) ELSE q[n]
      BY <1>2, <1>3, <1>5, <1>7 DEF Inv, TypeOK, Unlinked
    <3>2. n # 1 => queue'[h][n - 1] = IF n - 1 < nth THEN q[n - 1] ELSE q[n]
      <4>1. n # 1 => n - 1 \in 1 .. n - 1 /\ (n - 1) + 1 = n
        BY <1>2
      <4>2. QED
        BY <4>1, <1>4
    <3>3. QED
      BY <3>1, <3>2, <1>2, <1>3
  <2>5. ASSUME NEW i \in 1 .. n - 1
        PROVE  rq_next'[queue'[h][i]] = IF i < n - 1 THEN queue'[h][i + 1] ELSE NONE
    <3>1. queue'[h][i] = IF i < nth THEN q[i] ELSE q[i + 1]
      BY <1>4
    <3>2. i < n - 1 => queue'[h][i + 1] = IF i + 1 < nth THEN q[i + 1] ELSE q[i + 2]
      <4>1. i < n - 1 => i + 1 \in 1 .. n - 1 /\ (i + 1) + 1 = i + 2
        BY <1>2
      <4>2. QED
        BY <4>1, <1>4
    <3>3. \A k \in 1 .. n : rq_next[q[k]] = IF k < n THEN q[k + 1] ELSE NONE
      BY <1>1, <1>2, <1>3 DEF Inv, ListsWellFormed, Spells
    <3>4. \A k \in 1 .. n : k # nth /\ k # nth - 1 => q[k] # t /\ (nth # 1 => q[k] # q[nth - 1])
      BY <1>1, <1>2, <1>3, <1>5, <1>9 DEF Inv, ListsWellFormed
    <3>5. CASE i = nth - 1
      BY <3>1, <3>2, <3>5, <1>2, <1>3, <1>6, <1>11
    <3>6. CASE i < nth - 1
      <4>1. queue'[h][i] = q[i] /\ i \in 1 .. n /\ i < n - 1 /\ queue'[h][i + 1] = q[i + 1]
        BY <3>1, <3>2, <3>6, <1>2, <1>3
      <4>2. rq_next'[q[i]] = rq_next[q[i]]
        BY <4>1, <3>4, <3>6, <1>2, <1>3, <1>5, <1>11
      <4>3. QED
        BY <4>1, <4>2, <3>3, <1>2, <1>3
    <3>7. CASE i > nth - 1
      <4>1. queue'[h][i] = q[i + 1] /\ i + 1 \in 1 .. n /\ (i < n - 1 => queue'[h][i + 1] = q[i + 2])
        BY <3>1, <3>2, <3>7, <1>2, <1>3
      <4>2. rq_next'[q[i + 1]] = rq_next[q[i + 1]]
        <5>1. i + 1 # nth /\ i + 1 # nth - 1
          BY <3>7, <1>2, <1>3
        <5>2. q[i + 1] # t /\ (nth # 1 => q[i + 1] # q[nth - 1]) /\ q[i + 1] \in User
          BY <5>1, <4>1, <3>4, <1>5
        <5>3. QED
          BY <5>2, <1>11
      <4>3. rq_next[q[i + 1]] = IF i + 1 < n THEN q[(i + 1) + 1] ELSE NONE
        BY <4>1, <3>3
      <4>4. (i + 1) + 1 = i + 2 /\ (i + 1 < n <=> i < n - 1)
        BY <1>2, <1>3
      <4>5. QED
        BY <4>1, <4>2, <4>3, <4>4
    <3>8. QED
      BY <3>5, <3>6, <3>7, <1>2, <1>3
  <2>6. QED
    BY <2>1, <2>2, <2>3, <2>4, <2>5 DEF Spells
<1>13. ASSUME NEW g \in Hart \ {h}  PROVE Spells(g)'
  <2>1. ASSUME NEW i \in 1 .. Len(queue[g])
        PROVE  rq_next'[queue[g][i]] = rq_next[queue[g][i]]
    <3>1. queue[g][i] \in User
      BY DEF Inv, TypeOK
    <3>2. queue[g][i] # t
      BY DEF Inv, ListsWellFormed
    <3>3. nth # 1 => queue[g][i] # q[nth - 1]
      BY <1>1, <1>9 DEF Inv, ListsWellFormed
    <3>4. QED
      BY <3>1, <3>2, <3>3, <1>11
  <2>2. head'[g] = head[g] /\ tail'[g] = tail[g] /\ len'[g] = len[g] /\ queue'[g] = queue[g]
    BY DEF Inv, TypeOK, Unlinked
  <2>3. QED
    <3>1. Spells(g)
      BY DEF Inv, ListsWellFormed
    <3>2. QED
      BY <2>1, <2>2, <3>1 DEF Spells
<1>14. ASSUME NEW g \in Hart, NEW i \in 1 .. Len(queue'[g])
       PROVE  /\ queue'[g][i] # t
              /\ \E k \in 1 .. Len(queue[g]) :
                   /\ queue'[g][i] = queue[g][k]
                   /\ k = IF g = h /\ i >= nth THEN i + 1 ELSE i
  <2>1. CASE g = h
    <3>1. i \in 1 .. n - 1 /\ queue'[h][i] = IF i < nth THEN q[i] ELSE q[i + 1]
      BY <2>1, <1>4
    <3>2. i >= nth => i + 1 \in 1 .. n /\ i + 1 # nth /\ ~(i < nth)
      BY <3>1, <1>2
    <3>3. ~(i >= nth) => i \in 1 .. n /\ i # nth /\ i < nth
      BY <3>1, <1>2
    <3>4. QED
      BY <2>1, <1>1, <3>1, <3>2, <3>3, <1>2, <1>5
  <2>2. CASE g # h
    BY <2>2, <1>2, <1>3 DEF Unlinked, Inv, ListsWellFormed
  <2>3. QED
    BY <2>1, <2>2
<1>15. ASSUME NEW f \in Hart, NEW g \in Hart, NEW i \in 1 .. Len(queue'[f]), NEW j \in 1 .. Len(queue'[g]),
             queue'[f][i] = queue'[g][j]
      PROVE  f = g /\ i = j
  <2>1. PICK k \in 1 .. Len(queue[f]) : /\ queue'[f][i] = queue[f][k]
                                        /\ k = IF f = h /\ i >= nth THEN i + 1 ELSE i
    BY <1>14
  <2>2. PICK l \in 1 .. Len(queue[g]) : /\ queue'[g][j] = queue[g][l]
                                        /\ l = IF g = h /\ j >= nth THEN j + 1 ELSE j
    BY <1>14
  <2>3. f = g /\ k = l
    BY <2>1, <2>2, <1>15 DEF Inv, ListsWellFormed
  <2>4. i \in Int /\ j \in Int /\ nth \in Int
    BY <1>10, <1>2, <1>3 DEF TypeOK
  <2>5. QED
    BY <2>1, <2>2, <2>3, <2>4
<1>16. ASSUME NEW u \in User
       PROVE  IF on_rq'[u] = 1 THEN \E g \in Hart : \E i \in 1 .. Len(queue'[g]) : queue'[g][i] = u
              ELSE /\ rq_next'[u] = NONE
                   /\ \A g \in Hart : \A i \in 1 .. Len(queue'[g]) : queue'[g][i] # u
  <2>1. CASE u = t
    BY <2>1, <1>2, <1>3, <1>11, <1>14 DEF Inv, TypeOK, Unlinked
  <2>2. CASE u # t /\ on_rq[u] = 1
    <3>1. PICK g \in Hart : \E i \in 1 .. Len(queue[g]) : queue[g][i] = u
      BY <2>2 DEF Inv, ListsWellFormed
    <3>2. PICK i \in 1 .. Len(queue[g]) : queue[g][i] = u
      BY <3>1
    <3>3. \E k \in 1 .. Len(queue'[g]) : queue'[g][k] = u
      <4>1. CASE g # h
        BY <3>2, <4>1 DEF Unlinked
      <4>2. CASE g = h /\ i < nth
        BY <3>2, <4>2, <1>1, <1>2, <1>4, SMTT(30)
      <4>3. CASE g = h /\ i > nth
        <5>1. i - 1 \in 1 .. n - 1 /\ ~(i - 1 < nth) /\ (i - 1) + 1 = i
          BY <1>1, <4>3, <1>2, <1>3
        <5>2. QED
          BY <5>1, <3>2, <4>3, <1>2, <1>4
      <4>4. g = h => i # nth
        BY <2>2, <3>2
      <4>5. QED
        BY <4>1, <4>2, <4>3, <4>4, <1>2, <1>3
    <3>4. on_rq'[u] = 1
      BY <2>2 DEF Inv, TypeOK, Unlinked
    <3>5. QED
      BY <3>3, <3>4
  <2>3. CASE u # t /\ on_rq[u] # 1
    <3>1. on_rq'[u] # 1
      BY <2>3 DEF Inv, TypeOK, Unlinked
    <3>2. \A g \in Hart : \A i \in 1 .. Len(queue[g]) : queue[g][i] # u
      BY <2>3 DEF Inv, ListsWellFormed
    <3>3. \A g \in Hart : \A i \in 1 .. Len(queue'[g]) : queue'[g][i] # u
      <4> TAKE g \in Hart
      <4> TAKE i \in 1 .. Len(queue'[g])
      <4>1. PICK k \in 1 .. Len(queue[g]) : queue'[g][i] = queue[g][k]
        BY <1>14
      <4>2. QED
        BY <4>1, <3>2
    <3>4. rq_next'[u] = NONE
      BY <2>3, <3>2, <1>9, <1>11 DEF Inv, ListsWellFormed
    <3>5. QED
      BY <3>1, <3>3, <3>4
  <2>4. QED
    BY <2>1, <2>2, <2>3
<1>17. QED
  BY <1>10, <1>12, <1>13, <1>15, <1>16 DEF Inv, ListsWellFormed

\* rq_pop_head unlinks the first node, which is the head of the queue.
LEMMA PopInv ==
  ASSUME Inv, NEW h \in Hart, rq_pop_head(h)
  PROVE  Inv' /\ queue[h] # <<>> /\ head[h] = queue[h][1]
<1> DEFINE q == queue[h]
           n == Len(queue[h])
<1> USE DEF rq_pop_head
<1>1. q \in Seq(User) /\ n \in Nat /\ q # <<>> /\ n > 0 /\ head[h] = q[1]
  BY DEF Inv, TypeOK, ListsWellFormed, Spells
<1>2. rq_next[head[h]] = NONE <=> tail[h] = head[h]
  <2>1. rq_next[q[1]] = (IF 1 < n THEN q[2] ELSE NONE) /\ tail[h] = q[n]
    BY <1>1 DEF Inv, ListsWellFormed, Spells
  <2>2. q[1] = q[n] => n = 1
    <3>1. 1 \in 1 .. n /\ n \in 1 .. n
      BY <1>1
    <3>2. \A i, j \in 1 .. n : q[i] = q[j] => i = j
      BY DEF Inv, ListsWellFormed
    <3>3. QED
      BY <3>1, <3>2
  <2>3. n > 1 => q[2] \in User
    BY <1>1
  <2>4. QED
    BY <1>1, <2>1, <2>2, <2>3, Ids
<1>3. queue' = [queue EXCEPT ![h] = Tail(q)]
  OBVIOUS
<1>4. Tail(q) \in Seq(User) /\ Len(Tail(q)) = n - 1 /\ \A j \in 1 .. n - 1 : Tail(q)[j] = q[j + 1]
  BY <1>1, TailFields
<1>5. queue' \in [Hart -> Seq(User)] /\ queue'[h] = Tail(q) /\ \A g \in Hart \ {h} : queue'[g] = queue[g]
  BY <1>3, <1>4 DEF Inv, TypeOK
<1>6. tail' = [tail EXCEPT ![h] = IF @ = q[1] THEN NONE ELSE @]
  BY <1>1, <1>2 DEF Inv, TypeOK
<1>7. 1 \in 1 .. n /\ \A j \in 1 .. n - 1 : ~(j < 1)
  BY <1>1
<1>8. Unlinked(h, 1)
  BY <1>1, <1>4, <1>5, <1>6, <1>7 DEF Unlinked
<1>9. walk' = Idle
  BY DEF Inv, TypeOK, WalkOK
<1>10. QED
  BY <1>1, <1>7, <1>8, <1>9, UnlinkInv

\* What remove_unlink knows of the node it unlinks.
LEMMA UnlinkStep ==
  ASSUME Inv, remove_unlink
  PROVE  /\ Inv' /\ walk.h \in Hart /\ walk.t \in User /\ walk.pos \in 1 .. Len(queue[walk.h])
         /\ queue[walk.h][walk.pos] = walk.t
         /\ queue' = [queue EXCEPT ![walk.h] = RemoveAt(@, walk.pos)]
<1> DEFINE h == walk.h
           nth == walk.pos
           q == queue[walk.h]
           n == Len(queue[walk.h])
<1>1. /\ walk.pc = "remove" /\ walk.cur = walk.t /\ walk' = Idle
      /\ queue' = [queue EXCEPT ![h] = RemoveAt(@, nth)]
  BY DEF remove_unlink
<1>2. h \in Hart /\ q \in Seq(User) /\ n \in Nat /\ nth \in 1 .. n + 1 /\ walk.t \in User
  BY <1>1 DEF Inv, TypeOK, WalkOK, Walk
<1>3. nth \in 1 .. n /\ q[nth] = walk.t
  BY <1>1, <1>2, Ids DEF Inv, TypeOK, WalkOK
<1>4. walk.prev = (IF nth = 1 THEN NONE ELSE q[nth - 1]) /\ (nth # 1 => q[nth - 1] \in User)
  BY <1>1, <1>2, <1>3 DEF Inv, TypeOK, WalkOK
<1>5. walk.prev = NONE <=> nth = 1
  BY <1>4, Ids
<1>6. /\ RemoveAt(q, nth) \in Seq(User) /\ Len(RemoveAt(q, nth)) = n - 1
      /\ \A j \in 1 .. n - 1 : RemoveAt(q, nth)[j] = IF j < nth THEN q[j] ELSE q[j + 1]
  BY <1>2, <1>3, RemoveAtFields
<1>7. queue' \in [Hart -> Seq(User)] /\ queue'[h] = RemoveAt(q, nth) /\ \A g \in Hart \ {h} : queue'[g] = queue[g]
  BY <1>1, <1>2, <1>6 DEF Inv, TypeOK
<1>8. Unlinked(h, nth)
  <2>1. head' = [head EXCEPT ![h] = IF nth = 1 THEN rq_next[q[nth]] ELSE @]
    BY <1>2, <1>3, <1>5 DEF remove_unlink, Inv, TypeOK
  <2>2. tail' = [tail EXCEPT ![h] = IF @ = q[nth] THEN (IF nth = 1 THEN NONE ELSE q[nth - 1]) ELSE @]
    BY <1>3, <1>4 DEF remove_unlink
  <2>3. rq_next' = IF nth = 1 THEN [rq_next EXCEPT ![q[nth]] = NONE]
                   ELSE [rq_next EXCEPT ![q[nth - 1]] = rq_next[q[nth]], ![q[nth]] = NONE]
    BY <1>3, <1>4, <1>5 DEF remove_unlink
  <2>4. on_rq' = [on_rq EXCEPT ![q[nth]] = 0] /\ len' = [len EXCEPT ![h] = IF @ > 0 THEN @ - 1 ELSE @]
    BY <1>3 DEF remove_unlink
  <2>5. QED
    BY <2>1, <2>2, <2>3, <2>4, <1>6, <1>7 DEF Unlinked
<1>9. Inv'
  BY <1>1, <1>2, <1>3, <1>8, UnlinkInv
<1>10. QED
  BY <1>1, <1>2, <1>3, <1>9

\* A step that leaves the lists alone keeps Inv if it keeps WalkOK.
LEMMA WalkOnly ==
  ASSUME Inv, UNCHANGED lists, WalkOK', walk' \in Walk
  PROVE  Inv'
  BY DEF Inv, TypeOK, ListsWellFormed, Spells, lists

\* A loop that starts at the head of a list is at its first position.
LEMMA StartOK ==
  ASSUME Inv, NEW g \in Hart
  PROVE  /\ 1 \in 1 .. Len(queue[g]) + 1
         /\ head[g] = (IF 1 <= Len(queue[g]) THEN queue[g][1] ELSE NONE)
         /\ queue[g] \in Seq(User) /\ Len(queue[g]) \in Nat
  BY DEF Inv, TypeOK, ListsWellFormed, Spells

\* A loop that follows rq_next reaches the next position.
LEMMA StepOK ==
  ASSUME Inv, NEW g \in Hart, NEW i \in 1 .. Len(queue[g])
  PROVE  /\ i + 1 \in 1 .. Len(queue[g]) + 1
         /\ rq_next[queue[g][i]] = (IF i + 1 <= Len(queue[g]) THEN queue[g][i + 1] ELSE NONE)
         /\ queue[g][i] \in User /\ (i + 1) - 1 = i
<1>1. queue[g] \in Seq(User) /\ Len(queue[g]) \in Nat
  BY DEF Inv, TypeOK
<1>2. rq_next[queue[g][i]] = (IF i < Len(queue[g]) THEN queue[g][i + 1] ELSE NONE)
  BY DEF Inv, ListsWellFormed, Spells
<1>3. QED
  BY <1>1, <1>2

\* A removal starts with nothing passed on the list of hart g.
LEMMA RemoveStartInv ==
  ASSUME Inv, NEW g \in Hart, NEW t \in User, NEW any \in {0, 1},
         any = 1 => \A f \in 0 .. g - 1 : \A i \in 1 .. Len(queue[f]) : queue[f][i] # t,
         Start("remove", g, t, any, 0), UNCHANGED lists
  PROVE  Inv'
<1>1. /\ walk'.pc = "remove" /\ walk'.h = g /\ walk'.t = t /\ walk'.prev = NONE
      /\ walk'.cur = head[g] /\ walk'.pos = 1 /\ walk'.any = any
  BY DEF Start
<1>2. queue' = queue
  BY DEF lists
<1>3. \A i \in 1 .. 1 - 1 : queue[g][i] # t
  OBVIOUS
<1>4. WalkOK'
  BY <1>1, <1>2, <1>3, StartOK DEF WalkOK
<1>5. walk' \in Walk
  BY Ids DEF Start, Walk, Inv, TypeOK
<1>6. QED
  BY <1>4, <1>5, WalkOnly

\* A removal that passes a node has not passed its thread.
LEMMA RemoveStepInv ==
  ASSUME Inv, remove_step
  PROVE  Inv'
<1> DEFINE g == walk.h
           nth == walk.pos
<1>1. /\ walk.pc = "remove" /\ g \in Hart /\ walk.cur # NONE /\ walk.cur # walk.t
      /\ nth \in 1 .. Len(queue[g]) + 1
      /\ walk.cur = (IF nth <= Len(queue[g]) THEN queue[g][nth] ELSE NONE)
      /\ \A i \in 1 .. nth - 1 : queue[g][i] # walk.t
      /\ walk.t \in User /\ walk.any \in {0, 1}
      /\ walk.any = 1 => \A f \in 0 .. g - 1 : \A i \in 1 .. Len(queue[f]) : queue[f][i] # walk.t
  BY DEF Inv, TypeOK, WalkOK, Walk, remove_step
<1>2. Len(queue[g]) \in Nat
  BY <1>1, StartOK
<1>3. nth \in 1 .. Len(queue[g]) /\ walk.cur = queue[g][nth]
  BY <1>1, <1>2
<1>4. /\ walk' = [walk EXCEPT !.prev = walk.cur, !.cur = rq_next[walk.cur], !.pos = nth + 1]
      /\ UNCHANGED lists /\ queue' = queue
  BY DEF remove_step, lists
<1>5. /\ walk'.pc = "remove" /\ walk'.h = g /\ walk'.t = walk.t /\ walk'.prev = queue[g][nth]
      /\ walk'.cur = rq_next[queue[g][nth]] /\ walk'.pos = nth + 1 /\ walk'.any = walk.any
  <2>1. walk \in Walk
    BY DEF Inv, TypeOK
  <2>2. QED
    BY <2>1, <1>1, <1>3, <1>4 DEF Walk
<1>6. \A i \in 1 .. (nth + 1) - 1 : queue[g][i] # walk.t
  BY <1>1, <1>2, <1>3
<1>7. (nth + 1 = 1) = FALSE /\ (nth + 1) - 1 = nth
  BY <1>2, <1>3
<1>8. WalkOK'
  BY <1>1, <1>3, <1>4, <1>5, <1>6, <1>7, StepOK, SMTT(30) DEF WalkOK
<1>9. walk' \in Walk
  <2>1. rq_next[queue[g][nth]] \in User \cup {NONE} /\ queue[g][nth] \in User /\ nth + 1 \in Nat
    BY <1>1, <1>2, <1>3, StepOK DEF Inv, TypeOK
  <2>2. walk' = [walk EXCEPT !.prev = queue[g][nth], !.cur = rq_next[queue[g][nth]], !.pos = nth + 1]
    BY <1>3, <1>4
  <2>3. QED
    BY <2>1, <2>2 DEF Inv, TypeOK, Walk
<1>10. QED
  BY <1>4, <1>8, <1>9, WalkOnly

\* At the end of a list the thread was on none of the lists passed.
LEMMA MissOK ==
  ASSUME Inv, walk.pc = "remove", walk.cur = NONE
  PROVE  /\ \A i \in 1 .. Len(queue[walk.h]) : queue[walk.h][i] # walk.t
         /\ walk.any = 1 => \A f \in 0 .. walk.h - 1 : \A i \in 1 .. Len(queue[f]) : queue[f][i] # walk.t
<1>1. /\ walk.h \in Hart /\ queue[walk.h] \in Seq(User) /\ Len(queue[walk.h]) \in Nat
      /\ walk.pos \in 1 .. Len(queue[walk.h]) + 1
      /\ NONE = (IF walk.pos <= Len(queue[walk.h]) THEN queue[walk.h][walk.pos] ELSE NONE)
      /\ \A i \in 1 .. walk.pos - 1 : queue[walk.h][i] # walk.t
  BY DEF Inv, TypeOK, WalkOK, Walk
<1>2. ~(walk.pos <= Len(queue[walk.h]))
  BY <1>1, Ids
<1>3. walk.pos - 1 = Len(queue[walk.h])
  <2>1. ASSUME NEW L \in Nat, NEW k \in 1 .. L + 1, ~(k <= L)  PROVE k - 1 = L
    BY <2>1
  <2>2. QED
    BY <1>1, <1>2, <2>1
<1>4. QED
  BY <1>1, <1>3 DEF Inv, TypeOK, WalkOK

\* The end of a list starts the next hart or ends the call.
LEMMA RemoveMissInv ==
  ASSUME Inv, remove_miss
  PROVE  Inv'
<1>1. /\ walk.pc = "remove" /\ walk.h \in Hart /\ walk.t \in User /\ UNCHANGED lists
      /\ walk.any \in {0, 1} /\ walk.cur = NONE
  BY DEF Inv, TypeOK, WalkOK, Walk, remove_miss
<1>2. /\ \A i \in 1 .. Len(queue[walk.h]) : queue[walk.h][i] # walk.t
      /\ walk.any = 1 => \A f \in 0 .. walk.h - 1 : \A i \in 1 .. Len(queue[f]) : queue[f][i] # walk.t
  BY <1>1, MissOK
<1>3. CASE walk.any = 1 /\ walk.h + 1 < MAX_HARTS
  <2>1. walk.h + 1 \in Hart /\ 0 .. (walk.h + 1) - 1 = (0 .. walk.h - 1) \cup {walk.h}
    BY <1>1, <1>3, RunQueueAssumption DEF Hart
  <2>2. Start("remove", walk.h + 1, walk.t, 1, 0)
    BY <1>3 DEF remove_miss
  <2>3. \A f \in 0 .. (walk.h + 1) - 1 : \A i \in 1 .. Len(queue[f]) : queue[f][i] # walk.t
    BY <2>1, <1>2, <1>3
  <2>4. QED
    BY <1>1, <2>1, <2>2, <2>3, RemoveStartInv
<1>4. CASE ~(walk.any = 1 /\ walk.h + 1 < MAX_HARTS)
  <2>1. walk' = Idle
    BY <1>4 DEF remove_miss
  <2>2. WalkOK' /\ walk' \in Walk
    BY <2>1, IdleOK DEF WalkOK, Idle
  <2>3. QED
    BY <1>1, <2>2, WalkOnly
<1>5. QED
  BY <1>3, <1>4

\* A snapshot starts with nothing copied.
LEMMA SnapshotStartInv ==
  ASSUME Inv, NEW g \in Hart, NEW max \in SnapshotSizes, rq_snapshot(g, max)
  PROVE  Inv'
<1>1. /\ walk'.pc = "snapshot" /\ walk'.h = g /\ walk'.cur = head[g] /\ walk'.pos = 1
      /\ walk'.max = max /\ walk'.out = <<>> /\ UNCHANGED lists /\ queue' = queue
  BY DEF rq_snapshot, Start, lists
<1>2. max \in Nat /\ 1 - 1 <= max
  BY RunQueueAssumption
<1>3. WalkOK'
  BY <1>1, <1>2, StartOK DEF WalkOK
<1>4. walk' \in Walk
  BY <1>2, Ids DEF rq_snapshot, Start, Walk, Inv, TypeOK
<1>5. QED
  BY <1>1, <1>3, <1>4, WalkOnly

\* What a snapshot in progress holds.
LEMMA SnapshotAt ==
  ASSUME Inv, walk.pc = "snapshot"
  PROVE  /\ walk.h \in Hart /\ walk.max \in SnapshotSizes /\ walk.max \in Nat \ {0}
         /\ walk.pos \in 1 .. Len(queue[walk.h]) + 1 /\ walk.pos - 1 <= walk.max
         /\ walk.cur = (IF walk.pos <= Len(queue[walk.h]) THEN queue[walk.h][walk.pos] ELSE NONE)
         /\ walk.out \in Seq(User) /\ Len(walk.out) = walk.pos - 1
         /\ \A i \in 1 .. Len(walk.out) : walk.out[i] = queue[walk.h][i]
         /\ queue[walk.h] \in Seq(User) /\ Len(queue[walk.h]) \in Nat
  BY RunQueueAssumption DEF Inv, TypeOK, WalkOK, Walk

\* A snapshot that copies a node has copied the front of the list.
LEMMA SnapshotStepInv ==
  ASSUME Inv, snapshot_step
  PROVE  Inv'
<1> DEFINE g == walk.h
           nth == walk.pos
<1>1. /\ walk.pc = "snapshot" /\ walk.cur # NONE /\ Len(walk.out) < walk.max
      /\ UNCHANGED lists /\ queue' = queue
  BY DEF snapshot_step, lists
<1>2. /\ g \in Hart /\ nth \in 1 .. Len(queue[g]) /\ walk.cur = queue[g][nth]
      /\ Len(queue[g]) \in Nat
  BY <1>1, SnapshotAt
<1>3. /\ walk'.pc = "snapshot" /\ walk'.h = g /\ walk'.max = walk.max /\ walk'.pos = nth + 1
      /\ walk'.cur = rq_next[queue[g][nth]] /\ walk'.out = Append(walk.out, queue[g][nth])
  BY <1>1, <1>2 DEF snapshot_step, Inv, TypeOK, Walk
<1>4. /\ Len(walk'.out) = nth /\ walk'.out \in Seq(User)
      /\ \A i \in 1 .. nth : walk'.out[i] = queue[g][i]
  <2>1. queue[g][nth] \in User /\ walk.out \in Seq(User) /\ Len(walk.out) = nth - 1
        /\ \A i \in 1 .. nth - 1 : walk.out[i] = queue[g][i]
    BY <1>1, <1>2, SnapshotAt, StepOK
  <2>2. /\ Append(walk.out, queue[g][nth]) \in Seq(User)
        /\ Len(Append(walk.out, queue[g][nth])) = (nth - 1) + 1
        /\ \A i \in 1 .. nth - 1 : Append(walk.out, queue[g][nth])[i] = walk.out[i]
        /\ Append(walk.out, queue[g][nth])[(nth - 1) + 1] = queue[g][nth]
    BY <2>1, AppendFields
  <2>3. (nth - 1) + 1 = nth /\ \A i \in 1 .. nth : i \in 1 .. nth - 1 \/ i = nth
    BY <1>2
  <2>4. QED
    BY <1>3, <2>1, <2>2, <2>3
<1>5. (nth + 1) - 1 = nth /\ (nth + 1) - 1 <= walk.max
  BY <1>1, <1>2, SnapshotAt
<1>6. WalkOK'
  <2>1. walk.max \in SnapshotSizes
    BY <1>1, SnapshotAt
  <2>2. QED
    BY <1>1, <1>2, <1>3, <1>4, <1>5, <2>1, StepOK DEF WalkOK
<1>7. walk' \in Walk
  <2>1. rq_next[queue[g][nth]] \in User \cup {NONE} /\ nth + 1 \in Nat
    BY <1>2, StepOK DEF Inv, TypeOK
  <2>2. walk' = [walk EXCEPT !.cur = rq_next[queue[g][nth]], !.pos = nth + 1, !.out = Append(walk.out, queue[g][nth])]
    BY <1>2 DEF snapshot_step
  <2>3. QED
    BY <2>1, <2>2, <1>3, <1>4 DEF Inv, TypeOK, Walk
<1>8. QED
  BY <1>1, <1>6, <1>7, WalkOnly

\* A step that ends a call, or changes a result only, keeps the invariant.
LEMMA IdleInv ==
  ASSUME Inv, UNCHANGED lists, walk' = Idle \/ walk' = walk
  PROVE  Inv'
<1>1. CASE walk' = Idle
  <2>1. WalkOK' /\ walk' \in Walk
    BY <1>1, IdleOK DEF WalkOK, Idle
  <2>2. QED
    BY <2>1, WalkOnly
<1>2. CASE walk' = walk
  <2>1. /\ head' = head /\ tail' = tail /\ len' = len /\ rq_next' = rq_next /\ on_rq' = on_rq
        /\ queue' = queue /\ walk' = walk
    BY <1>2 DEF lists
  <2>2. WalkOK' = WalkOK
    BY <2>1 DEF WalkOK
  <2>3. ListsWellFormed' = ListsWellFormed
    BY <2>1 DEF ListsWellFormed, Spells
  <2>4. TypeOK' = TypeOK
    BY <2>1, <2>2 DEF TypeOK
  <2>5. QED
    BY <2>3, <2>4 DEF Inv
<1>3. QED
  BY <1>1, <1>2

\* Every step keeps the invariant.
LEMMA NextInv == Inv /\ [Next]_vars => Inv'
<1> SUFFICES ASSUME Inv, [Next]_vars PROVE Inv'
  OBVIOUS
<1>1. ASSUME NEW h \in Hart, rq_pop_head(h) PROVE Inv'
  BY <1>1, PopInv
<1>2. ASSUME NEW h \in Hart, pop_empty(h) \/ rq_len(h) PROVE Inv'
  BY <1>2, IdleInv DEF pop_empty, rq_len
<1>3. ASSUME NEW h \in Hart, NEW t \in User, rq_push_tail(h, t) PROVE Inv'
  BY <1>3, PushInv
<1>4. ASSUME NEW h \in Hart, NEW t \in User, rq_remove(h, t) PROVE Inv'
  BY <1>4, RemoveStartInv DEF rq_remove
<1>5. ASSUME NEW t \in User, rq_remove_any(t) PROVE Inv'
  <2>1. 0 \in Hart /\ 0 .. 0 - 1 = {}
    BY Ids
  <2>2. QED
    BY <1>5, <2>1, RemoveStartInv DEF rq_remove_any
<1>6. ASSUME NEW h \in Hart, NEW max \in SnapshotSizes, rq_snapshot(h, max) PROVE Inv'
  BY <1>6, SnapshotStartInv
<1>7. CASE snapshot_done
  BY <1>7, IdleInv DEF snapshot_done
<1>8. CASE UNCHANGED vars
  BY <1>8, IdleInv DEF vars
<1>9. QED
  BY <1>1, <1>2, <1>3, <1>4, <1>5, <1>6, <1>7, <1>8, RemoveStepInv, RemoveMissInv,
     SnapshotStepInv, UnlinkStep DEF Next

\* The loops of runqueue.c keep the meaning of their locals.
THEOREM TypeCorrect == Spec => []TypeOK
<1>1. Spec => []Inv
  BY InitInv, NextInv, PTL DEF Spec
<1>2. QED
  BY <1>1, PTL DEF Inv

\* Every list is well formed at every step of every function of runqueue.c,
\* for any number of harts and threads.
THEOREM WellFormed == Spec => []ListsWellFormed
<1>1. Spec => []Inv
  BY InitInv, NextInv, PTL DEF Spec
<1>2. QED
  BY <1>1, PTL DEF Inv

----------------------------------------------------------------------------
(* The refinement.                                                         *)

\* Where the lists and the results do not change, the queues stutter.
LEMMA Stutter ==
  ASSUME UNCHANGED <<lists, ret, dst>>
  PROVE  UNCHANGED Abs!vars
  BY DEF lists, Abs!vars

\* A finished snapshot is the front of the queue.
LEMMA SnapshotRefines ==
  ASSUME Inv, snapshot_done
  PROVE  Abs!Snapshot(walk.h, walk.max)
<1> DEFINE q == queue[walk.h]
           k == IF Len(q) <= walk.max THEN Len(q) ELSE walk.max
<1>1. /\ walk.pc = "snapshot" /\ (walk.cur = NONE \/ Len(walk.out) >= walk.max)
      /\ ret' = <<"snapshot", walk.h, walk.max, Len(walk.out)>> /\ dst' = walk.out /\ queue' = queue
  BY DEF snapshot_done, lists
<1>2. /\ q \in Seq(User) /\ Len(q) \in Nat /\ walk.max \in Nat \ {0}
      /\ walk.pos \in 1 .. Len(q) + 1 /\ Len(walk.out) = walk.pos - 1 /\ walk.pos - 1 <= walk.max
      /\ walk.out \in Seq(User) /\ \A i \in 1 .. Len(walk.out) : walk.out[i] = q[i]
      /\ walk.cur = (IF walk.pos <= Len(q) THEN q[walk.pos] ELSE NONE)
  BY <1>1, SnapshotAt
<1>3. walk.pos <= Len(q) => q[walk.pos] \in User
  BY <1>2
<1>4. Len(walk.out) = k
  <2>1. walk.cur = NONE => ~ (walk.pos <= Len(q))
    BY <1>2, <1>3, Ids
  <2>2. \/ ~ (walk.pos <= Len(q))
        \/ Len(walk.out) >= walk.max
    BY <1>1, <2>1
  <2> DEFINE n == Len(q)
             m == walk.max
             nth == walk.pos
             l == Len(walk.out)
  <2>3. /\ n \in Nat /\ m \in Nat /\ nth \in 1 .. n + 1 /\ l = nth - 1 /\ nth - 1 <= m
        /\ (~ (nth <= n) \/ l >= m)
    BY <1>2, <2>2
  <2> HIDE DEF n, m, nth, l
  <2>4. l = (IF n <= m THEN n ELSE m)
    BY <2>3
  <2>5. QED
    BY <2>4 DEF n, m, nth, l
<1>5. 1 \in 1 .. Len(q) + 1 /\ k \in 1 - 1 .. Len(q) /\ k - 1 + 1 = k /\ \A j \in 1 .. k : 1 + j - 1 = j
  BY <1>2
<1> HIDE DEF k
<1>6. /\ SubSeq(q, 1, k) \in Seq(User) /\ Len(SubSeq(q, 1, k)) = k
      /\ \A j \in 1 .. k : SubSeq(q, 1, k)[j] = q[j]
  BY <1>2, <1>5, SubSeqFields
<1>7. walk.out = SubSeq(q, 1, k)
  BY <1>2, <1>4, <1>6, SeqEqual
<1>8. QED
  BY <1>1, <1>4, <1>7 DEF Abs!Snapshot, k

\* A step of the linked lists is a step of the queues or leaves them alone.
LEMMA NextRefines == Inv /\ [Next]_vars => [Abs!Next]_Abs!vars
<1> SUFFICES ASSUME Inv, [Next]_vars PROVE [Abs!Next]_Abs!vars
  OBVIOUS
<1> USE DEF Abs!Hart, Abs!User, Abs!NONE, Hart, User, NONE
<1>1. ASSUME NEW h \in Hart, rq_pop_head(h) PROVE Abs!Pop(h)
  BY <1>1, PopInv DEF rq_pop_head, Abs!Pop
<1>2. ASSUME NEW h \in Hart, pop_empty(h) PROVE Abs!Pop(h)
  <2>1. queue[h] = <<>>
    <3>1. head[h] = NONE /\ queue[h] \in Seq(User)
      BY <1>2 DEF pop_empty, Inv, TypeOK
    <3>2. head[h] = (IF queue[h] = <<>> THEN NONE ELSE queue[h][1])
      BY DEF Inv, ListsWellFormed, Spells
    <3>3. queue[h] # <<>> => queue[h][1] \in User
      BY <3>1, FirstTyped
    <3>4. QED
      BY <3>1, <3>2, <3>3, Ids
  <2>2. QED
    BY <1>2, <2>1 DEF pop_empty, lists, Abs!Pop
<1>3. ASSUME NEW h \in Hart, rq_len(h) PROVE Abs!Length(h)
  BY <1>3 DEF rq_len, lists, Abs!Length, Inv, ListsWellFormed, Spells
<1>4. ASSUME NEW h \in Hart, NEW t \in User, rq_push_tail(h, t) PROVE Abs!Push(h, t)
  BY <1>4 DEF rq_push_tail, Abs!Push, Abs!Absent, Inv, ListsWellFormed
<1>5. CASE remove_unlink
  <2>1. /\ walk.h \in Hart /\ walk.t \in User /\ Abs!Take(walk.h, walk.t)
        /\ ret' = (IF walk.any = 1 THEN <<"remove_any", walk.t, walk.h>>
                   ELSE <<"remove", walk.h, walk.t, 0>>)
        /\ dst' = dst
    <3>1. /\ walk.h \in Hart /\ walk.t \in User /\ walk.pos \in 1 .. Len(queue[walk.h])
          /\ queue[walk.h][walk.pos] = walk.t
          /\ queue' = [queue EXCEPT ![walk.h] = RemoveAt(@, walk.pos)]
      BY <1>5, UnlinkStep
    <3>2. Abs!Take(walk.h, walk.t)
      BY <3>1 DEF Abs!Take, Abs!RemoveAt, RemoveAt
    <3>3. /\ ret' = (IF walk.any = 1 THEN <<"remove_any", walk.t, walk.h>>
                     ELSE <<"remove", walk.h, walk.t, 0>>)
          /\ dst' = dst
      BY <1>5 DEF remove_unlink
    <3>4. QED
      BY <3>1, <3>2, <3>3
  <2>2. Abs!RemoveAny(walk.t) \/ Abs!RemoveFrom(walk.h, walk.t)
    BY <2>1 DEF Abs!RemoveAny, Abs!RemoveFrom
  <2>3. QED
    BY <2>1, <2>2 DEF Abs!Next
<1>6. CASE remove_miss
  <2>1. /\ walk.pc = "remove" /\ walk.h \in Hart /\ walk.t \in User /\ UNCHANGED lists
        /\ queue' = queue /\ dst' = dst /\ walk.any \in {0, 1} /\ walk.cur = NONE
    BY <1>6 DEF Inv, TypeOK, WalkOK, Walk, remove_miss, lists
  <2>2. /\ \A i \in 1 .. Len(queue[walk.h]) : queue[walk.h][i] # walk.t
        /\ walk.any = 1 => \A f \in 0 .. walk.h - 1 : \A i \in 1 .. Len(queue[f]) : queue[f][i] # walk.t
    BY <2>1, MissOK
  <2>3. CASE walk.any = 1 /\ walk.h + 1 < MAX_HARTS
    BY <1>6, <2>1, <2>3, Stutter DEF remove_miss
  <2>4. CASE walk.any = 1 /\ ~(walk.h + 1 < MAX_HARTS)
    <3>1. \A g \in Hart : g = walk.h \/ g \in 0 .. walk.h - 1
      BY <2>1, <2>4, RunQueueAssumption
    <3>2. \A g \in Hart : Abs!Absent(g, walk.t)
      BY <3>1, <2>2, <2>4 DEF Abs!Absent
    <3>3. ret' = <<"remove_any", walk.t, NONE>>
      BY <1>6, <2>4 DEF remove_miss
    <3>4. Abs!RemoveAny(walk.t)
      BY <2>1, <3>2, <3>3 DEF Abs!RemoveAny
    <3>5. QED
      BY <3>4, <2>1 DEF Abs!Next
  <2>5. CASE walk.any # 1
    <3>1. ret' = <<"remove", walk.h, walk.t, NONE>>
      BY <1>6, <2>5 DEF remove_miss
    <3>2. Abs!RemoveFrom(walk.h, walk.t)
      BY <2>1, <2>2, <3>1 DEF Abs!RemoveFrom, Abs!Absent
    <3>3. QED
      BY <3>2, <2>1 DEF Abs!Next
  <2>6. QED
    BY <2>3, <2>4, <2>5
<1>7. CASE snapshot_done
  <2>1. walk.h \in Hart /\ walk.max \in SnapshotSizes
    BY <1>7, SnapshotAt DEF snapshot_done
  <2>2. QED
    BY <1>7, <2>1, SnapshotRefines DEF Abs!Next
<1>8. ASSUME NEW h \in Hart, NEW t \in User, rq_remove(h, t) PROVE UNCHANGED Abs!vars
  BY <1>8, Stutter DEF rq_remove
<1>9. ASSUME NEW t \in User, rq_remove_any(t) PROVE UNCHANGED Abs!vars
  BY <1>9, Stutter DEF rq_remove_any
<1>10. ASSUME NEW h \in Hart, NEW max \in SnapshotSizes, rq_snapshot(h, max) PROVE UNCHANGED Abs!vars
  BY <1>10, Stutter DEF rq_snapshot
<1>11. CASE remove_step
  BY <1>11, Stutter DEF remove_step
<1>12. CASE snapshot_step
  BY <1>12, Stutter DEF snapshot_step
<1>13. CASE UNCHANGED vars
  BY <1>13, Stutter DEF vars
<1>14. ASSUME NEW h \in Hart, Abs!Pop(h) \/ Abs!Length(h) PROVE Abs!Next
  BY <1>14 DEF Abs!Next
<1>15. ASSUME NEW h \in Hart, NEW t \in User, Abs!Push(h, t) PROVE Abs!Next
  BY <1>15 DEF Abs!Next
<1>16. QED
  BY <1>1, <1>2, <1>3, <1>4, <1>5, <1>6, <1>7, <1>8, <1>9, <1>10, <1>11, <1>12, <1>13,
     <1>14, <1>15 DEF Next

\* The linked lists implement one first-in first-out queue for each hart.
THEOREM Implements == Spec => ImplementsQueues
<1>1. Spec => []Inv
  BY InitInv, NextInv, PTL DEF Spec
<1>2. Init => Abs!Init
  BY DEF Init, Abs!Init, Abs!Hart, Abs!NONE, Hart, NONE
<1>3. Inv /\ Inv' /\ [Next]_vars => [Abs!vars' # Abs!vars => Abs!Next]_(Abs!vars)
  BY NextRefines
<1> QED
  BY <1>1, <1>2, <1>3, PTL DEF Spec, ImplementsQueues, Abs!Spec

----------------------------------------------------------------------------
(* The date.                                                               *)

\* The closed form counts leap years as is_leap_year tells them.
LEMMA LeapCount ==
  ASSUME NEW y \in Nat, y >= 1970
  PROVE  LeapsBefore(y + 1) = LeapsBefore(y) + (IF is_leap_year(y) THEN 1 ELSE 0)
<1>1. y \div 4 = ((y - 1) \div 4) + (IF y % 4 = 0 THEN 1 ELSE 0)
  OBVIOUS
<1>2. y \div 100 = ((y - 1) \div 100) + (IF y % 100 = 0 THEN 1 ELSE 0)
  OBVIOUS
<1>3. y \div 400 = ((y - 1) \div 400) + (IF y % 400 = 0 THEN 1 ELSE 0)
  OBVIOUS
<1>4. (y % 400 = 0 => y % 100 = 0) /\ (y % 100 = 0 => y % 4 = 0)
  OBVIOUS
<1>5. (y + 1) - 1 = y
  OBVIOUS
<1> QED
  BY <1>1, <1>2, <1>3, <1>4, <1>5 DEF LeapsBefore, is_leap_year

\* A year of the loop is a year of the calendar.
LEMMA YearLength ==
  ASSUME NEW y \in Nat, y >= 1970
  PROVE  /\ DaysBeforeYear(y + 1) = DaysBeforeYear(y) + days_in_year(y)
         /\ DaysBeforeYear(y) \in Int
<1>1. LeapsBefore(y) \in Int /\ LeapsBefore(y + 1) \in Int /\ LeapsBefore(1970) \in Int
  BY DEF LeapsBefore
<1> QED
  BY <1>1, LeapCount DEF DaysBeforeYear, days_in_year

\* A month of the loop is a month of the calendar, and twelve are the year.
LEMMA MonthLength ==
  ASSUME NEW y \in Nat, NEW m \in 0 .. 11
  PROVE  /\ DaysBeforeMonth(y, m + 1) = DaysBeforeMonth(y, m) + dim(y, m)
         /\ dim(y, m) \in Nat
<1>1. \/ m = 0 \/ m = 1 \/ m = 2 \/ m = 3 \/ m = 4 \/ m = 5
      \/ m = 6 \/ m = 7 \/ m = 8 \/ m = 9 \/ m = 10 \/ m = 11
  OBVIOUS
<1> QED
  BY <1>1 DEF DaysBeforeMonth, dim, month_days

\* The months start with the year and end with it.
LEMMA MonthBounds ==
  ASSUME NEW y \in Nat
  PROVE  /\ DaysBeforeMonth(y, 0) = 0
         /\ DaysBeforeMonth(y, 12) = days_in_year(y)
         /\ days_in_year(y) \in Nat
  BY DEF DaysBeforeMonth, days_in_year

\* The days before a month are a natural number.
LEMMA MonthNat ==
  ASSUME NEW y \in Nat, NEW m \in 0 .. 12
  PROVE  DaysBeforeMonth(y, m) \in Nat
  BY DEF DaysBeforeMonth

----------------------------------------------------------------------------
\* Splitting a number of seconds loses nothing.
LEMMA SplitTime ==
  ASSUME NEW t \in Nat
  PROVE  LET s == t % SECS_PER_DAY
             h == s \div SECS_PER_HOUR
             m == (s % SECS_PER_HOUR) \div SECS_PER_MIN
             r == (s % SECS_PER_HOUR) % SECS_PER_MIN
         IN  /\ h \in 0 .. 23 /\ m \in 0 .. 59 /\ r \in 0 .. 59
             /\ s = h * SECS_PER_HOUR + m * SECS_PER_MIN + r
             /\ t \div SECS_PER_DAY \in Nat
             /\ t = (t \div SECS_PER_DAY) * SECS_PER_DAY + s
  BY DEF SECS_PER_DAY, SECS_PER_HOUR, SECS_PER_MIN

\* The conversion starts in the invariant.
LEMMA IInvInit == DateInit => IInv
  BY EpochAssumption
  DEF DateInit, IInv, DateTypeOK, InvSplit, InvTime, InvDays, InvYear, InvMonth, InvDone

\* Splitting the seconds keeps the invariant.
LEMMA IInvSplit == IInv /\ Split => IInv'
<1> SUFFICES ASSUME IInv, Split
             PROVE  IInv'
  OBVIOUS
<1>1. epoch_sec \in Nat /\ epoch_sec' = epoch_sec /\ year' = 1970 /\ month' = 0 /\ pc' = "year"
  BY DEF IInv, DateTypeOK, InvSplit, Split
<1>2. /\ hour' \in 0 .. 23 /\ min' \in 0 .. 59 /\ sec' \in 0 .. 59
      /\ epoch_sec % SECS_PER_DAY = hour' * SECS_PER_HOUR + min' * SECS_PER_MIN + sec'
      /\ days' \in Nat /\ days' = epoch_sec \div SECS_PER_DAY
  BY <1>1, SplitTime DEF Split
<1>3. DaysBeforeYear(1970) = 0 /\ DaysBeforeMonth(1970, 0) = 0
  <2>1. LeapsBefore(1970) \in Int
    BY DEF LeapsBefore
  <2> QED
    BY <2>1, MonthBounds DEF DaysBeforeYear
<1>4. DateTypeOK'
  BY <1>1, <1>2 DEF DateTypeOK
<1>5. InvTime' /\ InvDays'
  BY <1>1, <1>2, <1>3 DEF InvTime, InvDays
<1> QED
  BY <1>1, <1>4, <1>5 DEF IInv, InvSplit, InvYear, InvMonth, InvDone

\* The loop over the years keeps the invariant.
LEMMA IInvYear == IInv /\ Year => IInv'
<1> SUFFICES ASSUME IInv, Year
             PROVE  IInv'
  OBVIOUS
<1>1. /\ pc = "year" /\ year \in Nat /\ year >= 1970 /\ days \in Nat /\ month = 0 /\ month' = 0
      /\ epoch_sec' = epoch_sec /\ hour' = hour /\ min' = min /\ sec' = sec
  BY DEF IInv, DateTypeOK, InvYear, Year, time_of_day
<1>2. /\ epoch_sec \div SECS_PER_DAY = DaysBeforeYear(year) + days
      /\ DaysBeforeYear(year) \in Int
      /\ DaysBeforeYear(year + 1) = DaysBeforeYear(year) + days_in_year(year)
  BY <1>1, MonthBounds, YearLength DEF IInv, InvDays
<1>3. days_in_year(year) \in Nat
  BY <1>1, MonthBounds
<1>4. InvTime'
  BY <1>1 DEF IInv, InvTime, Year
<1>5. CASE days >= days_in_year(year)
  <2>1. days' = days - days_in_year(year) /\ year' = year + 1 /\ pc' = "year"
    BY <1>1, <1>5 DEF Year
  <2>2. DateTypeOK'
    BY <1>1, <1>3, <1>5, <2>1 DEF IInv, DateTypeOK
  <2>3. epoch_sec \div SECS_PER_DAY = DaysBeforeYear(year') + 0 + days'
    BY <1>1, <1>2, <1>3, <2>1
  <2>4. DaysBeforeMonth(year', month') = 0
    BY <1>1, <2>1, MonthBounds
  <2>5. InvDays'
    BY <1>1, <2>3, <2>4 DEF InvDays
  <2> QED
    BY <1>1, <1>4, <2>1, <2>2, <2>5 DEF IInv, InvSplit, InvYear, InvMonth, InvDone
<1>6. CASE ~(days >= days_in_year(year))
  <2>1. days' = days /\ year' = year /\ pc' = "month"
    BY <1>6 DEF Year
  <2>2. DateTypeOK'
    BY <1>1, <2>1 DEF IInv, DateTypeOK
  <2>3. InvDays'
    BY <1>1, <2>1 DEF IInv, InvDays
  <2>4. InvMonth'
    BY <1>1, <1>3, <1>6, <2>1, MonthBounds DEF InvMonth
  <2> QED
    BY <1>4, <2>1, <2>2, <2>3, <2>4 DEF IInv, InvSplit, InvYear, InvDone
<1> QED
  BY <1>5, <1>6

\* The loop over the months keeps the invariant.
LEMMA IInvMonth == IInv /\ Month => IInv'
<1> SUFFICES ASSUME IInv, Month
             PROVE  IInv'
  OBVIOUS
<1>1. /\ pc = "month" /\ year \in Nat /\ year >= 1970 /\ days \in Nat /\ month \in 0 .. 12
      /\ year' = year /\ epoch_sec' = epoch_sec /\ hour' = hour /\ min' = min /\ sec' = sec
  BY DEF IInv, DateTypeOK, Month, time_of_day
<1>2. /\ epoch_sec \div SECS_PER_DAY = DaysBeforeYear(year) + DaysBeforeMonth(year, month) + days
      /\ DaysBeforeYear(year) \in Int /\ DaysBeforeMonth(year, month) \in Nat
      /\ DaysBeforeMonth(year, month) + days < days_in_year(year)
      /\ days_in_year(year) \in Nat
  <2>1. DaysBeforeYear(year) \in Int
    BY <1>1, YearLength
  <2>2. days_in_year(year) \in Nat
    BY <1>1, MonthBounds
  <2>3. DaysBeforeMonth(year, month) \in Nat
    <3>1. year \in Nat /\ month \in 0 .. 12
      BY <1>1
    <3> QED
      BY <3>1, MonthNat, Zenon
  <2> QED
    BY <1>1, <2>1, <2>2, <2>3 DEF IInv, InvDays, InvMonth
<1>3. month \in 0 .. 11
  <2>1. month # 12
    BY <1>1, <1>2, MonthBounds
  <2> QED
    BY <1>1, <2>1
<1>4. /\ DaysBeforeMonth(year, month + 1) = DaysBeforeMonth(year, month) + dim(year, month)
      /\ dim(year, month) \in Nat
  BY <1>1, <1>3, MonthLength
<1>5. InvTime'
  BY <1>1 DEF IInv, InvTime, Month
<1>6. CASE days >= dim(year, month)
  <2>1. days' = days - dim(year, month) /\ month' = month + 1 /\ pc' = "month"
    BY <1>1, <1>3, <1>6 DEF Month
  <2>2. DateTypeOK'
    BY <1>1, <1>3, <1>4, <1>6, <2>1 DEF IInv, DateTypeOK
  <2>3. DaysBeforeMonth(year', month') + days' = DaysBeforeMonth(year, month) + days
    BY <1>1, <1>2, <1>4, <2>1
  <2>4. DaysBeforeMonth(year', month') \in Nat /\ days' \in Nat
    BY <1>1, <1>2, <1>4, <2>1, <2>2 DEF DateTypeOK
  <2>5. InvDays'
    BY <1>1, <1>2, <2>3, <2>4 DEF InvDays
  <2>6. InvMonth'
    BY <1>1, <1>2, <2>3 DEF InvMonth
  <2> QED
    BY <1>5, <2>1, <2>2, <2>5, <2>6 DEF IInv, InvSplit, InvYear, InvDone
<1>7. CASE ~(days >= dim(year, month))
  <2>1. days' = days /\ month' = month /\ pc' = "done"
    BY <1>7 DEF Month
  <2>2. DateTypeOK'
    BY <1>1, <2>1 DEF IInv, DateTypeOK
  <2>3. InvDays' /\ InvMonth'
    BY <1>1, <1>2, <2>1 DEF InvDays, InvMonth
  <2>4. InvDone'
    BY <1>1, <1>3, <1>4, <1>7, <2>1 DEF InvDone
  <2> QED
    BY <1>5, <2>1, <2>2, <2>3, <2>4 DEF IInv, InvSplit, InvYear
<1> QED
  BY <1>6, <1>7

----------------------------------------------------------------------------
\* The loop invariant of epoch_to_utc_datetime, for every argument.
THEOREM LoopInvariant == DateSpec => []IInv
<1>1. IInv /\ [DateNext]_date_vars => IInv'
  <2> SUFFICES ASSUME IInv, [DateNext]_date_vars
               PROVE  IInv'
    OBVIOUS
  <2>1. CASE UNCHANGED date_vars
    BY <2>1 DEF IInv, DateTypeOK, InvSplit, InvTime, InvDays, InvYear, InvMonth, InvDone, date_vars, time_of_day
  <2> QED
    BY <2>1, IInvSplit, IInvYear, IInvMonth DEF DateNext
<1> QED
  BY <1>1, IInvInit, PTL DEF DateSpec

\* The date that epoch_to_utc_datetime returns is the one the calendar gives,
\* for every number of seconds, over all centuries.
THEOREM DateCorrect == DateSpec => []DateIsRight
<1>1. IInv => DateIsRight
  <2> SUFFICES ASSUME IInv, pc = "done"
               PROVE  /\ month \in 0 .. 11 /\ days + 1 \in 1 .. dim(year, month)
                      /\ hour \in 0 .. 23 /\ min \in 0 .. 59 /\ sec \in 0 .. 59
                      /\ epoch_sec = (DaysBeforeYear(year) + DaysBeforeMonth(year, month) + days)
                                     * SECS_PER_DAY
                                     + hour * SECS_PER_HOUR + min * SECS_PER_MIN + sec
    BY DEF DateIsRight
  <2>1. month \in 0 .. 11 /\ days \in Nat /\ year \in Nat /\ epoch_sec \in Nat
    BY DEF IInv, DateTypeOK, InvDone
  <2>2. days + 1 \in 1 .. dim(year, month)
    <3>1. dim(year, month) \in Nat
      BY <2>1, MonthLength
    <3> QED
      BY <2>1, <3>1 DEF IInv, InvDone
  <2>3. /\ hour \in 0 .. 23 /\ min \in 0 .. 59 /\ sec \in 0 .. 59
        /\ epoch_sec % SECS_PER_DAY = hour * SECS_PER_HOUR + min * SECS_PER_MIN + sec
        /\ epoch_sec \div SECS_PER_DAY =
             DaysBeforeYear(year) + DaysBeforeMonth(year, month) + days
    BY DEF IInv, InvTime, InvDays
  <2>4. /\ epoch_sec = (epoch_sec \div SECS_PER_DAY) * SECS_PER_DAY + (epoch_sec % SECS_PER_DAY)
        /\ epoch_sec \div SECS_PER_DAY \in Int
    BY <2>1, SplitTime
  <2> QED
    BY <2>1, <2>2, <2>3, <2>4 DEF SECS_PER_DAY, SECS_PER_HOUR, SECS_PER_MIN
<1> QED
  BY <1>1, LoopInvariant, PTL

----------------------------------------------------------------------------
(* The clocks and the timer.                                               *)

\* Division, by what it means.
LEMMA DivRange ==
  ASSUME NEW a \in Nat, NEW b \in Nat \ {0}
  PROVE  /\ a \div b \in Nat
         /\ (a \div b) * b <= a /\ a < (a \div b) * b + b
OBVIOUS

\* The quotient is the only number with that property.
LEMMA DivUnique ==
  ASSUME NEW a \in Nat, NEW b \in Nat \ {0}, NEW q \in Int, q * b <= a, a < q * b + b
  PROVE  a \div b = q
<1> DEFINE nth == a \div b
<1>1. nth \in Nat /\ nth * b <= a /\ a < nth * b + b
  BY DivRange
<1>2. ASSUME NEW x \in Int, NEW y \in Int, x < y PROVE x * b + b <= y * b
  <2>1. (y - x) - 1 \in Nat
    BY <1>2
  <2>2. ((y - x) - 1) * b \in Nat
    BY <2>1
  <2>3. ((y - x) - 1) * b = y * b - x * b - b
    OBVIOUS
  <2> QED
    BY <2>2, <2>3
<1>3. q * b \in Int /\ nth * b \in Int
  BY <1>1
<1>4. ~(nth < q)
  BY <1>1, <1>2, <1>3
<1>5. ~(q < nth)
  BY <1>1, <1>2, <1>3
<1> QED
  BY <1>1, <1>4, <1>5

\* A larger number has no smaller quotient.
LEMMA DivMonotone ==
  ASSUME NEW a \in Nat, NEW c \in Nat, NEW b \in Nat \ {0}, a <= c
  PROVE  a \div b <= c \div b
<1> DEFINE nth == a \div b
           q == c \div b
<1>1. nth \in Nat /\ nth * b <= a /\ q \in Nat /\ c < q * b + b
  BY DivRange
<1>2. ASSUME q < nth PROVE FALSE
  <2>1. (nth - q) - 1 \in Nat
    BY <1>1, <1>2
  <2>2. ((nth - q) - 1) * b \in Nat
    BY <2>1
  <2>3. ((nth - q) - 1) * b = nth * b - q * b - b
    BY <1>1
  <2>4. nth * b \in Int /\ q * b \in Int
    BY <1>1
  <2> QED
    BY <1>1, <2>2, <2>3, <2>4
<1> QED
  BY <1>1, <1>2

\* Dividing t * n by hz: whole seconds and the rest may be converted apart, as
\* platform_rtc_read_ns does to stay within 64 bits.
LEMMA DivSplit ==
  ASSUME NEW t \in Nat, NEW n \in Nat, NEW hz \in Nat \ {0}
  PROVE  (t * n) \div hz = (t \div hz) * n + ((t - (t \div hz) * hz) * n) \div hz
<1> DEFINE q == t \div hz
           r == t - q * hz
           nth == (r * n) \div hz
<1>1. q \in Nat /\ q * hz \in Nat /\ r \in Nat
  BY DivRange
<1>2. r * n \in Nat /\ t * n \in Nat /\ q * n \in Nat
  BY <1>1
<1>3. nth \in Nat /\ nth * hz <= r * n /\ r * n < nth * hz + hz
  BY <1>1, <1>2, DivRange
<1> HIDE DEF nth
<1>4. t * n = q * hz * n + r * n
  <2>1. t = q * hz + r
    BY <1>1
  <2> HIDE DEF q, r
  <2>2. (q * hz + r) * n = q * hz * n + r * n
    BY <1>1
  <2> QED
    BY <2>1, <2>2
<1> HIDE DEF q, r
<1>5. (q * n + nth) * hz = q * hz * n + nth * hz
  BY <1>1, <1>3
<1>6. nth * hz \in Nat /\ q * hz * n \in Nat /\ q * n + nth \in Int
  BY <1>1, <1>2, <1>3
<1>7. (q * n + nth) * hz <= t * n /\ t * n < (q * n + nth) * hz + hz
  BY <1>2, <1>3, <1>4, <1>5, <1>6
<1>8. (t * n) \div hz = q * n + nth
  BY <1>2, <1>6, <1>7, DivUnique
<1> QED
  BY <1>8 DEF nth, q, r

----------------------------------------------------------------------------
(* The inductive invariant.                                                *)

\* The frequency, looked up or still to be looked up, and what follows from it.
Hz == IF fdt_hz # 0 THEN fdt_hz ELSE DEFAULT_HZ
Exact(t) == (t * NSEC_PER_SEC) \div Hz
Slice == IF Hz \div MSEC_PER_SEC = 0 THEN 1 ELSE Hz \div MSEC_PER_SEC

ClockTypeOK ==
  /\ time \in Nat /\ fdt_hz \in Nat /\ g_timebase_hz \in {0, Hz}
  /\ boot_real_ns \in Nat \cup {-1}
  /\ ts \in [ClockId -> [tv_sec : Nat, tv_nsec : Nat]] /\ read_at \in [ClockId -> Nat \cup {Never}]
  /\ timecmp \in Nat \cup {Never} /\ arming \in Nat \cup {Never} /\ fired \in Nat \cup {Never}

\* A clock that was read was read after time_init, and exactly.
ReadRight(c) ==
  IF read_at[c] = Never THEN Ns(ts[c]) = 0
  ELSE /\ boot_real_ns # -1
       /\ read_at[c] <= time /\ boot_real_ns <= Exact(read_at[c])
       /\ ts[c].tv_nsec \in 0 .. NSEC_PER_SEC - 1
       /\ Ns(ts[c]) = IF c = "CLOCK_REALTIME" THEN Exact(read_at[c]) ELSE Exact(read_at[c]) - boot_real_ns
ClocksRight ==
  /\ boot_real_ns # -1 => g_timebase_hz = Hz /\ boot_real_ns <= Exact(time)
  /\ \A c \in ClockId : ReadRight(c)

\* A timer that is set fires a slice after the interrupt before, at the soonest.
TimerSpaced ==
  fired # Never =>
    /\ fired <= time
    /\ arming # Never => fired <= arming
    /\ arming = Never /\ timecmp # Never => timecmp >= fired + Slice

ClockInv == ClockTypeOK /\ ClocksRight /\ TimerSpaced

\* The frequency is positive, and the same for whoever asks.
LEMMA HzFacts ==
  ASSUME ClockAssumption, ClockTypeOK
  PROVE  /\ Hz \in Nat \ {0} /\ platform_timebase_hz = Hz
         /\ Slice \in Nat \ {0} /\ Slice >= Hz \div MSEC_PER_SEC /\ Hz \div MSEC_PER_SEC \in Nat
         /\ platform_sched_delta_ticks = Slice
<1>1. Hz \in Nat \ {0} /\ MSEC_PER_SEC \in Nat \ {0}
  BY DEF ClockAssumption, ClockTypeOK, Hz
<1>2. platform_timebase_hz = Hz
  BY <1>1 DEF ClockTypeOK, platform_timebase_hz, Hz
<1>3. Hz \div MSEC_PER_SEC \in Nat
  BY <1>1, DivRange
<1>4. platform_sched_delta_ticks = Slice
  BY <1>2, Zenon DEF platform_sched_delta_ticks, Slice
<1>5. Slice \in Nat \ {0} /\ Slice >= Hz \div MSEC_PER_SEC
  BY <1>3 DEF Slice
<1> QED
  BY <1>1, <1>2, <1>3, <1>4, <1>5

\* Seconds and rest converted apart lose nothing (platform_rtc_read_ns).
LEMMA RtcExact ==
  ASSUME ClockAssumption, ClockTypeOK
  PROVE  platform_rtc_read_ns = Exact(time)
<1>1. time \in Nat /\ NSEC_PER_SEC \in Nat
  BY DEF ClockAssumption, ClockTypeOK
<1>2. Hz \in Nat \ {0} /\ platform_timebase_hz = Hz
  BY HzFacts
<1>3. platform_rtc_read_ns =
        (time \div Hz) * NSEC_PER_SEC + ((time - (time \div Hz) * Hz) * NSEC_PER_SEC) \div Hz
  BY <1>2, Zenon DEF platform_rtc_read_ns
<1>4. Exact(time) =
        (time \div Hz) * NSEC_PER_SEC + ((time - (time \div Hz) * Hz) * NSEC_PER_SEC) \div Hz
  <2>1. (time * NSEC_PER_SEC) \div Hz =
          (time \div Hz) * NSEC_PER_SEC + ((time - (time \div Hz) * Hz) * NSEC_PER_SEC) \div Hz
    BY <1>1, <1>2, DivSplit
  <2> QED
    BY <2>1, Zenon DEF Exact
<1> QED
  BY <1>3, <1>4, Zenon

\* The nanoseconds are a number, and grow with the counter.
LEMMA ExactGrows ==
  ASSUME ClockAssumption, ClockTypeOK, NEW t \in Nat, NEW u \in Nat, t <= u
  PROVE  Exact(t) \in Nat /\ Exact(u) \in Nat /\ Exact(t) <= Exact(u)
<1>1. Hz \in Nat \ {0} /\ NSEC_PER_SEC \in Nat
  BY HzFacts DEF ClockAssumption
<1>2. t * NSEC_PER_SEC \in Nat /\ u * NSEC_PER_SEC \in Nat
  BY <1>1
<1>3. t * NSEC_PER_SEC <= u * NSEC_PER_SEC
  <2>1. (u - t) * NSEC_PER_SEC \in Nat
    BY <1>1
  <2>2. (u - t) * NSEC_PER_SEC = u * NSEC_PER_SEC - t * NSEC_PER_SEC
    BY <1>1
  <2> QED
    BY <1>2, <2>1, <2>2
<1> QED
  BY <1>1, <1>2, <1>3, DivRange, DivMonotone DEF Exact

\* A number of nanoseconds survives its split into a timespec.
LEMMA SplitNs ==
  ASSUME NEW n \in Nat, NEW s \in Nat \ {0}
  PROVE  /\ n \div s \in Nat /\ n % s \in 0 .. s - 1
         /\ (n \div s) * s + (n % s) = n
<1>1. n \div s \in Nat
  BY DivRange
<1>2. n % s \in 0 .. s - 1
  OBVIOUS
<1>3. n = s * (n \div s) + (n % s)
  OBVIOUS
<1>4. s * (n \div s) = (n \div s) * s
  BY <1>1
<1> QED
  BY <1>1, <1>2, <1>3, <1>4

\* What a clock gives (ktime_get_real_ts, ktime_get_monotonic_ts).
LEMMA KtimeRight ==
  ASSUME ClockAssumption, ClockInv, boot_real_ns # -1, NEW c \in ClockId
  PROVE  /\ ktime_get_ts(c) \in [tv_sec : Nat, tv_nsec : Nat]
         /\ ktime_get_ts(c).tv_nsec \in 0 .. NSEC_PER_SEC - 1
         /\ Ns(ktime_get_ts(c)) = IF c = "CLOCK_REALTIME" THEN Exact(time) ELSE Exact(time) - boot_real_ns
<1> DEFINE ns == IF c = "CLOCK_REALTIME" THEN Exact(time) ELSE Exact(time) - boot_real_ns
<1>1. Exact(time) \in Nat /\ boot_real_ns \in Nat /\ boot_real_ns <= Exact(time) /\ NSEC_PER_SEC \in Nat \ {0}
  <2>1. time \in Nat /\ time <= time
    BY DEF ClockInv, ClockTypeOK
  <2> QED
    BY <2>1, ExactGrows DEF ClockInv, ClockTypeOK, ClocksRight, ClockAssumption
<1>2. ns \in Nat
  BY <1>1
<1>3. ktime_get_ts(c) = [tv_sec |-> ns \div NSEC_PER_SEC, tv_nsec |-> ns % NSEC_PER_SEC]
  BY RtcExact, Zenon DEF ktime_get_ts, ClockInv
<1> HIDE DEF ns
<1>4. /\ ns \div NSEC_PER_SEC \in Nat /\ ns % NSEC_PER_SEC \in 0 .. NSEC_PER_SEC - 1
      /\ (ns \div NSEC_PER_SEC) * NSEC_PER_SEC + (ns % NSEC_PER_SEC) = ns
  BY <1>1, <1>2, SplitNs
<1>5. Ns(ktime_get_ts(c)) = ns
  <2>1. /\ ktime_get_ts(c).tv_sec = ns \div NSEC_PER_SEC
        /\ ktime_get_ts(c).tv_nsec = ns % NSEC_PER_SEC
    BY <1>3
  <2> QED
    BY <2>1, <1>4, Zenon DEF Ns
<1>6. ns % NSEC_PER_SEC \in Nat
  BY <1>1, <1>4
<1> QED
  BY <1>3, <1>4, <1>5, <1>6 DEF ns

\* Nothing but a read changes what was read.
LEMMA ReadsKept ==
  ASSUME ClockAssumption, ClockInv, UNCHANGED <<fdt_hz, ts, read_at>>,
         boot_real_ns # -1 => boot_real_ns' = boot_real_ns,
         time' \in Nat, time <= time'
  PROVE  \A c \in ClockId : ReadRight(c)'
<1> SUFFICES ASSUME NEW c \in ClockId PROVE ReadRight(c)'
  OBVIOUS
<1>1. ReadRight(c) /\ time \in Nat /\ read_at[c] \in Nat \cup {Never}
  BY DEF ClockInv, ClocksRight, ClockTypeOK
<1>2. Exact(read_at[c])' = Exact(read_at[c]) /\ Ns(ts[c])' = Ns(ts[c])
  BY DEF Exact, Hz, Ns
<1> QED
  BY <1>1, <1>2 DEF ReadRight, Never

\* The machine starts in it.
LEMMA ClockInitInv ==
  ASSUME ClockAssumption, ClockInit
  PROVE  ClockInv
<1>1. ClockTypeOK
  BY DEF ClockInit, ClockAssumption, ClockTypeOK, Never
<1>2. ClocksRight
  <2>1. ASSUME NEW c \in ClockId PROVE ReadRight(c)
    <3>1. read_at[c] = Never /\ ts[c] = [tv_sec |-> 0, tv_nsec |-> 0]
      BY DEF ClockInit
    <3>2. 0 * NSEC_PER_SEC + 0 = 0
      BY DEF ClockAssumption
    <3> QED
      BY <3>1, <3>2 DEF ReadRight, Ns
  <2> QED
    BY <2>1 DEF ClocksRight, ClockInit
<1>3. TimerSpaced
  BY DEF ClockInit, TimerSpaced
<1> QED
  BY <1>1, <1>2, <1>3 DEF ClockInv

\* Every step keeps it.
LEMMA ClockNextInv ==
  ASSUME ClockAssumption, ClockInv, [ClockNext]_clock_vars
  PROVE  ClockInv'
<1> USE DEF clocks, timer
<1>a. ClockTypeOK /\ ClocksRight /\ TimerSpaced /\ time \in Nat
  BY DEF ClockInv, ClockTypeOK
<1>b. /\ Hz \in Nat \ {0} /\ platform_timebase_hz = Hz /\ Slice \in Nat \ {0}
      /\ platform_sched_delta_ticks = Slice
  BY <1>a, HzFacts
<1>1. CASE advance
  <2> USE <1>1 DEF advance
  <2>1. ClockTypeOK'
    BY <1>a DEF ClockTypeOK, Hz
  <2>2. ClocksRight'
    <3>1. Exact(time) <= Exact(time + 1) /\ Exact(time) \in Nat /\ Exact(time + 1) \in Nat
      BY <1>a, ExactGrows
    <3>2. Exact(time)' = Exact(time + 1) /\ Hz' = Hz
      BY DEF Exact, Hz
    <3>3. boot_real_ns \in Int
      BY <1>a DEF ClockTypeOK
    <3> QED
      BY <3>1, <3>2, <3>3, <1>a, ReadsKept DEF ClocksRight
  <2>3. TimerSpaced'
    BY <1>a DEF TimerSpaced, ClockTypeOK, Slice, Hz, Never
  <2> QED
    BY <2>1, <2>2, <2>3 DEF ClockInv
<1>2. CASE time_init
  <2> USE <1>2 DEF time_init, CacheHz
  <2>1. boot_real_ns' = Exact(time) /\ Exact(time) \in Nat /\ g_timebase_hz' = Hz /\ Hz' = Hz
    BY <1>a, <1>b, RtcExact, ExactGrows DEF Hz
  <2>2. ClockTypeOK'
    BY <2>1, <1>a DEF ClockTypeOK
  <2>3. ClocksRight'
    <3>1. Exact(time)' = Exact(time)
      BY DEF Exact, Hz
    <3> QED
      BY <3>1, <2>1, <1>a, ReadsKept DEF ClocksRight
  <2>4. TimerSpaced'
    BY <1>a DEF TimerSpaced, Slice, Hz
  <2> QED
    BY <2>2, <2>3, <2>4 DEF ClockInv
<1>3. ASSUME NEW c \in ClockId, sys_clock_gettime(c) PROVE ClockInv'
  <2> USE <1>3 DEF sys_clock_gettime, CacheHz
  <2>1. /\ ktime_get_ts(c) \in [tv_sec : Nat, tv_nsec : Nat]
        /\ ktime_get_ts(c).tv_nsec \in 0 .. NSEC_PER_SEC - 1
        /\ Ns(ktime_get_ts(c)) = IF c = "CLOCK_REALTIME" THEN Exact(time) ELSE Exact(time) - boot_real_ns
    BY KtimeRight
  <2>2. g_timebase_hz' = Hz /\ Hz' = Hz
    BY <1>b DEF Hz
  <2>3. ClockTypeOK'
    BY <2>1, <2>2, <1>a DEF ClockTypeOK
  <2>4. ASSUME NEW d \in ClockId PROVE ReadRight(d)'
    <3>1. CASE d = c
      <4>1. ts'[d] = ktime_get_ts(c) /\ read_at'[d] = time
        BY <3>1, <1>a DEF ClockTypeOK
      <4>2. Exact(read_at[d])' = Exact(time) /\ Ns(ts[d])' = Ns(ktime_get_ts(c))
        BY <4>1 DEF Exact, Hz, Ns
      <4>3. boot_real_ns <= Exact(time) /\ time <= time /\ time # Never
        BY <1>a DEF ClocksRight, Never
      <4> QED
        BY <4>1, <4>2, <4>3, <3>1, <2>1 DEF ReadRight
    <3>2. CASE d # c
      <4>1. ts'[d] = ts[d] /\ read_at'[d] = read_at[d]
        BY <3>2, <1>a DEF ClockTypeOK
      <4>2. Exact(read_at[d])' = Exact(read_at[d]) /\ Ns(ts[d])' = Ns(ts[d])
        BY <4>1 DEF Exact, Hz, Ns
      <4>3. ReadRight(d)
        BY <1>a DEF ClocksRight
      <4> QED
        BY <4>1, <4>2, <4>3 DEF ReadRight
    <3> QED
      BY <3>1, <3>2
  <2>5. ClocksRight'
    <3>1. Exact(time)' = Exact(time)
      BY DEF Exact, Hz
    <3> QED
      BY <3>1, <2>2, <2>4, <1>a DEF ClocksRight
  <2>6. TimerSpaced'
    BY <1>a DEF TimerSpaced, Slice, Hz
  <2> QED
    BY <2>3, <2>5, <2>6 DEF ClockInv
<1>4. ASSUME UNCHANGED <<time, clocks>>, g_timebase_hz' \in {g_timebase_hz, Hz}
      PROVE  ClocksRight' /\ Hz' = Hz /\ Slice' = Slice
  <2>1. Hz' = Hz /\ Slice' = Slice /\ Exact(time)' = Exact(time)
    BY <1>4 DEF Hz, Slice, Exact
  <2>2. \A c \in ClockId : ReadRight(c)'
    BY <1>4, <1>a, ReadsKept
  <2> QED
    BY <2>1, <2>2, <1>4, <1>a DEF ClocksRight
<1>5. ASSUME NEW first \in BOOLEAN, timer_now(first) PROVE ClockInv'
  <2> USE <1>5 DEF timer_now
  <2>1. ClocksRight' /\ Hz' = Hz /\ Slice' = Slice
    BY <1>4
  <2>2. ClockTypeOK'
    BY <2>1, <1>a DEF ClockTypeOK
  <2>3. TimerSpaced'
    BY <2>1, <1>a DEF TimerSpaced, Never
  <2> QED
    BY <2>1, <2>2, <2>3 DEF ClockInv
<1>6. CASE timer_start_at
  <2> USE <1>6 DEF timer_start_at, CacheHz
  <2>1. ClocksRight' /\ Hz' = Hz /\ Slice' = Slice
    BY <1>4, <1>b
  <2>2. arming \in Nat /\ timecmp' = arming + Slice /\ arming + Slice \in Nat /\ g_timebase_hz' = Hz
    BY <1>a, <1>b DEF ClockTypeOK
  <2>3. ClockTypeOK'
    BY <2>1, <2>2, <1>a DEF ClockTypeOK
  <2>4. TimerSpaced'
    <3>1. fired \in Nat \cup {Never}
      BY <1>a DEF ClockTypeOK
    <3> QED
      BY <3>1, <2>1, <2>2, <1>a, <1>b DEF TimerSpaced, Never
  <2> QED
    BY <2>1, <2>3, <2>4 DEF ClockInv
<1>7. CASE timer_stop
  <2> USE <1>7 DEF timer_stop
  <2>1. ClocksRight' /\ Hz' = Hz /\ Slice' = Slice
    BY <1>4
  <2>2. ClockTypeOK' /\ TimerSpaced'
    BY <2>1, <1>a DEF ClockTypeOK, TimerSpaced
  <2> QED
    BY <2>1, <2>2 DEF ClockInv
<1>8. CASE UNCHANGED clock_vars
  <2> USE <1>8 DEF clock_vars
  <2>1. ClocksRight' /\ Hz' = Hz /\ Slice' = Slice
    BY <1>4
  <2>2. ClockTypeOK' /\ TimerSpaced'
    BY <2>1, <1>a DEF ClockTypeOK, TimerSpaced
  <2> QED
    BY <2>1, <2>2 DEF ClockInv
<1> QED
  BY <1>1, <1>2, <1>3, <1>5, <1>6, <1>7, <1>8 DEF ClockNext

\* A clock is never read lower than before.
LEMMA ReadsGrow ==
  ASSUME ClockAssumption, ClockInv, [ClockNext]_clock_vars, NEW d \in ClockId
  PROVE  Ns(ts'[d]) >= Ns(ts[d])
<1>a. Ns(ts[d]) \in Int /\ time \in Nat /\ boot_real_ns \in Int /\ read_at[d] \in Nat \cup {Never}
  BY DEF ClockInv, ClockTypeOK, Ns, ClockAssumption
<1>1. CASE ts' = ts
  BY <1>1, <1>a
<1>2. ASSUME NEW c \in ClockId, sys_clock_gettime(c) PROVE Ns(ts'[d]) >= Ns(ts[d])
  <2> USE <1>2 DEF sys_clock_gettime
  <2>1. CASE d # c
    BY <2>1, <1>a DEF ClockInv, ClockTypeOK
  <2>2. CASE d = c
    <3>1. ts'[d] = ktime_get_ts(d) /\ boot_real_ns # -1
      BY <2>2 DEF ClockInv, ClockTypeOK
    <3>2. Ns(ts'[d]) = IF d = "CLOCK_REALTIME" THEN Exact(time) ELSE Exact(time) - boot_real_ns
      BY <3>1, KtimeRight
    <3>3. ReadRight(d) /\ boot_real_ns <= Exact(time)
      BY <3>1 DEF ClockInv, ClocksRight
    <3>4. Exact(time) \in Nat
      BY <1>a, ExactGrows DEF ClockInv
    <3>5. CASE read_at[d] = Never
      BY <3>1, <3>2, <3>3, <3>4, <3>5, <1>a DEF ReadRight
    <3>6. CASE read_at[d] # Never
      <4>1. read_at[d] \in Nat /\ read_at[d] <= time
        BY <3>3, <3>6, <1>a DEF ReadRight
      <4>2. Exact(read_at[d]) \in Nat /\ Exact(read_at[d]) <= Exact(time)
        BY <4>1, <1>a, ExactGrows DEF ClockInv
      <4> QED
        BY <4>2, <3>2, <3>3, <3>4, <3>6, <1>a DEF ReadRight
    <3> QED
      BY <3>5, <3>6
  <2> QED
    BY <2>1, <2>2
<1> QED
  BY <1>1, <1>2 DEF ClockNext, advance, time_init, timer_now, timer_start_at, timer_stop,
     clock_vars, clocks

\* Two timer interrupts are a slice apart.
LEMMA TimerApart ==
  ASSUME ClockAssumption, ClockInv, [ClockNext]_clock_vars,
         arming = Never, arming' # Never, fired # Never
  PROVE  time - fired >= 1 /\ time - fired >= g_timebase_hz \div MSEC_PER_SEC
<1>1. PICK first \in BOOLEAN : timer_now(first)
  BY DEF ClockNext, advance, time_init, sys_clock_gettime, timer_start_at, timer_stop,
     clock_vars, clocks, timer
<1>2. timecmp # Never /\ time >= timecmp
  BY <1>1 DEF timer_now
<1>3. /\ timecmp \in Nat /\ time \in Nat /\ fired \in Nat
      /\ g_timebase_hz \in {0, Hz} /\ MSEC_PER_SEC \in Nat \ {0}
  BY <1>2 DEF ClockInv, ClockTypeOK, ClockAssumption
<1>4. timecmp >= fired + Slice
  BY <1>2 DEF ClockInv, TimerSpaced
<1>5. Slice \in Nat \ {0} /\ Slice >= Hz \div MSEC_PER_SEC /\ Hz \div MSEC_PER_SEC \in Nat
  BY HzFacts DEF ClockInv
<1>6. 0 \div MSEC_PER_SEC = 0
  BY <1>3
<1> QED
  BY <1>2, <1>3, <1>4, <1>5, <1>6

\* sys_clock_gettime returns the time the counter stands for, neither clock goes
\* back, and the timer interrupts are at least a tick apart, for every counter
\* frequency.
THEOREM ClockIsRight ==
  ASSUME ClockAssumption
  PROVE  ClockSpec => TimeRight
<1>1. ClockInit => ClockInv
  BY ClockInitInv
<1>2. ClockInv /\ [ClockNext]_clock_vars => ClockInv'
  BY ClockNextInv
<1>3. ClockInv => TimeExact
  <2> SUFFICES ASSUME ClockInv, NEW c \in ClockId, read_at[c] # Never
               PROVE  /\ ts[c].tv_nsec \in 0 .. NSEC_PER_SEC - 1
                      /\ Ns(ts[c]) = IF c = "CLOCK_REALTIME" THEN (read_at[c] * NSEC_PER_SEC) \div g_timebase_hz
                                     ELSE ((read_at[c] * NSEC_PER_SEC) \div g_timebase_hz) - boot_real_ns
    BY DEF TimeExact
  <2>1. ReadRight(c) /\ boot_real_ns # -1
    BY DEF ClockInv, ClocksRight, ReadRight
  <2>2. g_timebase_hz = Hz
    BY <2>1 DEF ClockInv, ClocksRight
  <2> QED
    BY <2>1, <2>2 DEF ReadRight, Exact
<1>4. ClockInv /\ [ClockNext]_clock_vars => [\A c \in ClockId : Ns(ts'[c]) >= Ns(ts[c])]_clock_vars
  BY ReadsGrow
<1>5. ClockInv /\ [ClockNext]_clock_vars =>
        [arming = Never /\ arming' # Never /\ fired # Never =>
           time - fired >= 1 /\ time - fired >= g_timebase_hz \div MSEC_PER_SEC]_clock_vars
  BY TimerApart
<1> QED
  BY <1>1, <1>2, <1>3, <1>4, <1>5, PTL DEF ClockSpec, TimeRight, NeverBack, TicksSpaced

----------------------------------------------------------------------------
(* Induction: a property of the naturals that fails somewhere has a least  *)
(* counterexample.                                                         *)

\* A nonempty set of naturals has a least element.
LEMMA LeastOf ==
  ASSUME NEW F, F \subseteq Nat, F # {}
  PROVE  \E x \in F : \A y \in F : x <= y
<1> DEFINE R == {pair \in Nat \X Nat : pair[1] < pair[2]}
<1>1. IsWellFoundedOn(R, Nat)
  BY NatLessThanWellFounded, Zenon DEF OpToRel
<1> HIDE DEF R
<1>2. PICK x \in F : \A y \in F : ~ (<<y, x>> \in R)
  BY <1>1, WFMin
<1>3. ASSUME NEW y \in F PROVE x <= y
  <2>1. y \in Nat /\ x \in Nat /\ <<y, x>> \in Nat \X Nat
    OBVIOUS
  <2>2. ~ (y < x)
    BY <1>2, <2>1 DEF R
  <2> QED
    BY <2>1, <2>2
<1> QED
  BY <1>3

----------------------------------------------------------------------------
(* Input.  What an editor makes of the keys is a recursive function of     *)
(* their number.                                                           *)

\* line[m] is what an editor makes of the first m keys, for all m up to n.
IsLine(line, keys, n) ==
  line = [m \in 0 .. n |-> IF m = 0 THEN <<>> ELSE Edit(line[m - 1], keys[m])]

\* One more key extends such a function.
LEMMA LineExtends ==
  ASSUME NEW keys, NEW n \in Nat, NEW line, IsLine(line, keys, n)
  PROVE  \E longer : IsLine(longer, keys, n + 1)
<1> DEFINE longer == [m \in 0 .. n + 1 |-> IF m <= n THEN line[m] ELSE Edit(line[n], keys[m])]
<1>1. longer = [m \in 0 .. n + 1 |-> IF m = 0 THEN <<>> ELSE Edit(longer[m - 1], keys[m])]
  <2>1. ASSUME NEW m \in 0 .. n + 1
        PROVE  longer[m] = IF m = 0 THEN <<>> ELSE Edit(longer[m - 1], keys[m])
    <3>1. CASE m = 0
      BY <3>1 DEF IsLine
    <3>2. CASE m \in 1 .. n
      <4>1. m - 1 \in 0 .. n + 1 /\ m - 1 <= n /\ m \in 0 .. n /\ m # 0
        BY <3>2
      <4>2. longer[m - 1] = line[m - 1] /\ longer[m] = line[m]
        BY <4>1
      <4>3. line[m] = Edit(line[m - 1], keys[m])
        BY <4>1 DEF IsLine
      <4> QED
        BY <4>1, <4>2, <4>3
    <3>3. CASE m = n + 1
      <4>1. n \in 0 .. n + 1 /\ ~(n + 1 <= n) /\ (n + 1) - 1 = n
        OBVIOUS
      <4> QED
        BY <3>3, <4>1
    <3> QED
      BY <3>1, <3>2, <3>3
  <2> HIDE DEF longer
  <2>2. DOMAIN longer = 0 .. n + 1 /\ longer = [m \in DOMAIN longer |-> longer[m]]
    BY DEF longer
  <2> QED
    BY <2>1, <2>2
<1> QED
  BY <1>1 DEF IsLine

\* So there is one for every number of keys.
LEMMA LineExists ==
  ASSUME NEW keys, NEW n \in Nat
  PROVE  \E line : IsLine(line, keys, n)
<1> DEFINE F == {m \in Nat : ~\E line : IsLine(line, keys, m)}
<1>1. SUFFICES ASSUME F # {} PROVE FALSE
  OBVIOUS
<1>2. PICK x \in F : \A y \in F : x <= y
  <2> HIDE DEF F
  <2>1. F \subseteq Nat
    BY DEF F
  <2> QED
    BY <1>1, <2>1, LeastOf
<1>3. IsLine([m \in 0 .. 0 |-> <<>>], keys, 0)
  BY DEF IsLine
<1>4. x # 0
  BY <1>3
<1>5. x - 1 \in Nat /\ x - 1 \notin F /\ (x - 1) + 1 = x
  BY <1>2, <1>4
<1>6. PICK line : IsLine(line, keys, x - 1)
  BY <1>5
<1> QED
  BY <1>5, <1>6, LineExtends

Agree(keys, others, n) == \A m \in 1 .. n : keys[m] = others[m]

\* Two of them agree as far as their keys do.
LEMMA LineUnique ==
  ASSUME NEW keys, NEW others, NEW n \in Nat, NEW f, NEW g,
         IsLine(f, keys, n), IsLine(g, others, n + 1),
         Agree(keys, others, n)
  PROVE  \A m \in 0 .. n : f[m] = g[m]
<1> DEFINE F == {m \in 0 .. n : f[m] # g[m]}
<1>1. SUFFICES ASSUME F # {} PROVE FALSE
  OBVIOUS
<1>2. PICK x \in F : \A y \in F : x <= y
  <2> HIDE DEF F
  <2>1. F \subseteq Nat
    BY DEF F
  <2> QED
    BY <1>1, <2>1, LeastOf
<1>3. x \in 0 .. n /\ x \in 0 .. n + 1 /\ f[x] # g[x]
  OBVIOUS
<1>4. x # 0
  BY <1>3 DEF IsLine
<1>5. x - 1 \in 0 .. n /\ x \in 1 .. n /\ f[x - 1] = g[x - 1]
  BY <1>2, <1>3, <1>4
<1>6. f[x] = Edit(f[x - 1], keys[x]) /\ g[x] = Edit(g[x - 1], others[x])
  BY <1>3, <1>4 DEF IsLine
<1> QED
  BY <1>3, <1>5, <1>6 DEF Agree

\* Edited is the end of such a function.
LEMMA EditedLine ==
  ASSUME NEW keys \in Seq(Key)
  PROVE  \E line : IsLine(line, keys, Len(keys)) /\ Edited(keys) = line[Len(keys)]
<1>1. PICK f : IsLine(f, keys, Len(keys))
  BY LineExists
<1>2. f = [n \in 0 .. Len(keys) |-> IF n = 0 THEN <<>> ELSE Edit(f[n - 1], keys[n])]
  BY <1>1 DEF IsLine
<1>3. \E g : /\ g = [n \in 0 .. Len(keys) |-> IF n = 0 THEN <<>> ELSE Edit(g[n - 1], keys[n])]
             /\ Edited(keys) = g[Len(keys)]
  BY <1>2 DEF Edited
<1> QED
  BY <1>3 DEF IsLine

\* Without keys the line is empty, and one more key edits it.
LEMMA EditedKeys ==
  /\ Edited(<<>>) = <<>>
  /\ \A keys \in Seq(Key), c \in Key : Edited(Append(keys, c)) = Edit(Edited(keys), c)
<1>1. Edited(<<>>) = <<>>
  <2>1. <<>> \in Seq(Key) /\ Len(<<>>) = 0
    OBVIOUS
  <2>2. PICK line : IsLine(line, <<>>, 0) /\ Edited(<<>>) = line[0]
    BY <2>1, EditedLine
  <2> QED
    BY <2>2 DEF IsLine
<1>2. ASSUME NEW keys \in Seq(Key), NEW c \in Key
      PROVE  Edited(Append(keys, c)) = Edit(Edited(keys), c)
  <2> DEFINE n == Len(keys)
             more == Append(keys, c)
  <2>1. n \in Nat /\ more \in Seq(Key) /\ Len(more) = n + 1 /\ more[n + 1] = c
        /\ \A m \in 1 .. n : keys[m] = more[m]
    OBVIOUS
  <2>2. PICK f : IsLine(f, keys, n) /\ Edited(keys) = f[n]
    BY EditedLine
  <2>3. PICK g : IsLine(g, more, n + 1) /\ Edited(more) = g[n + 1]
    BY <2>1, EditedLine
  <2>4. f[n] = g[n]
    <3>1. n \in Nat /\ n \in 0 .. n
      BY <2>1
    <3> HIDE DEF n, more
    <3>2. Agree(keys, more, n)
      BY <2>1 DEF Agree
    <3>3. IsLine(f, keys, n) /\ IsLine(g, more, n + 1)
      BY <2>2, <2>3
    <3>4. \A m \in 0 .. n : f[m] = g[m]
      BY <3>1, <3>2, <3>3, LineUnique
    <3> QED
      BY <3>1, <3>4
  <2>5. g[n + 1] = Edit(g[n], more[n + 1])
    <3>1. n + 1 \in 0 .. n + 1 /\ n + 1 # 0 /\ (n + 1) - 1 = n
      BY <2>1
    <3> HIDE DEF n, more
    <3> QED
      BY <2>3, <3>1 DEF IsLine
  <2> QED
    BY <2>1, <2>2, <2>3, <2>4, <2>5
<1> QED
  BY <1>1, <1>2

\* The buffer holds s, up to where the next character goes.
Holding(s) == Len(s) = used /\ \A k \in 1 .. used : s[k] = buf[k - 1]

InputTypes ==
  /\ reader \in Fn \cup {"none"}
  /\ buf \in [0 .. buf_size - 1 -> Key \cup {NUL}]
  /\ used \in 0 .. buf_size
  /\ got \in Seq(Key)
  /\ cells \in Seq(Visible \cup {Blank})
  /\ cursor \in Nat

\* u_gets: the buffer holds what an editor makes of the keys, the terminal shows
\* it, and Ctrl-C has not been pressed.
Gets ==
  reader = "u_gets" =>
    /\ used < buf_size
    /\ Edited(got) \in Seq(Visible) /\ Holding(Edited(got))
    /\ \A k \in 1 .. Len(got) : got[k] # ETX
    /\ cursor = used /\ used <= Len(cells)
    /\ \A k \in 1 .. Len(cells) : cells[k] = IF k <= used THEN buf[k - 1] ELSE Blank

\* The others: the buffer holds what was read, in u_read_line and u_read_until
\* with room for the terminator; u_getchar has read nothing yet.
Others ==
  /\ reader \in {"u_read_line", "u_read_until"} => used < buf_size
  /\ reader \in {"u_read_line", "u_read_until", "u_readn"} => Holding(got)
  /\ reader = "u_read_line" => \A k \in 1 .. Len(got) : got[k] \notin {LF, CR}
  /\ reader = "u_getchar" => got = <<>>

InputInv == InputTypes /\ Gets /\ Others

\* The invariant holds before the first call.
LEMMA InputInitInv ==
  ASSUME InputAssumption
  PROVE  InputInit => InputInv
BY DEF InputAssumption, InputInit, InputInv, InputTypes, Gets, Others, Fn, LineFn

\* A call begins with an empty line, whatever is in the buffer.
LEMMA InputCall ==
  ASSUME InputAssumption, InputInv, NEW f \in Fn, Call(f)
  PROVE  InputInv'
<1>1. reader' = f /\ used' = 0 /\ got' = <<>> /\ cells' = <<>> /\ cursor' = 0 /\ buf' = buf
  BY DEF Call
<1>2. Edited(got') = <<>> /\ <<>> \in Seq(Visible) /\ Len(<<>>) = 0
  BY <1>1, EditedKeys
<1>3. InputTypes'
  BY <1>1 DEF InputInv, InputTypes, InputAssumption
<1>4. Gets'
  <2>1. Len(cells') = 0 /\ used' < buf_size /\ used' <= Len(cells') /\ cursor' = used'
    BY <1>1, <1>2 DEF InputAssumption
  <2>2. Holding(Edited(got))'
    BY <1>1, <1>2 DEF Holding
  <2>3. \A m \in 1 .. Len(cells') : FALSE
    BY <2>1
  <2>4. \A m \in 1 .. Len(got') : FALSE
    BY <1>1
  <2> QED
    BY <1>2, <2>1, <2>2, <2>3, <2>4 DEF Gets
<1>5. Others'
  BY <1>1, <1>2 DEF Others, Holding, InputAssumption
<1> QED
  BY <1>3, <1>4, <1>5 DEF InputInv

\* A call that returns leaves a buffer of characters.
LEMMA InputReturn ==
  ASSUME InputAssumption, InputInv,
         reader' = "none", used' \in 0 .. buf_size, got' \in Seq(Key),
         buf' \in [0 .. buf_size - 1 -> Key \cup {NUL}],
         cells' \in Seq(Visible \cup {Blank}), cursor' \in Nat
  PROVE  InputInv'
BY DEF InputInv, InputTypes, Gets, Others

\* read_eof, read_error and buffer_full return.
LEMMA InputEnds ==
  ASSUME InputAssumption, InputInv, read_eof \/ read_error \/ buffer_full
  PROVE  InputInv'
<1>1. buf' \in [0 .. buf_size - 1 -> Key \cup {NUL}]
  BY DEF InputInv, InputTypes, Gets, Others, read_eof, read_error, buffer_full, Terminate,
         Fn, LineFn, InputAssumption
<1>2. /\ reader' = "none" /\ UNCHANGED <<used, got, terminal>>
  BY DEF read_eof, read_error, buffer_full, Return
<1> QED
  BY <1>1, <1>2, InputReturn DEF InputInv, InputTypes, terminal

\* One key, appended to what was read.
LEMMA Keyed ==
  ASSUME InputInv, NEW c \in Key, Reads(c)
  PROVE  /\ got' \in Seq(Key) /\ Len(got') = Len(got) + 1
         /\ \A k \in 1 .. Len(got) : got'[k] = got[k]
         /\ got'[Len(got) + 1] = c
         /\ Edited(got') = Edit(Edited(got), c)
<1>1. got \in Seq(Key) /\ got' = Append(got, c)
  BY DEF InputInv, InputTypes, Reads
<1> QED
  BY <1>1, EditedKeys

\* What the terminal does with a new line, an erased and a visible character.
LEMMA Putting ==
  /\ \A t : u_putchar(t, LF) = [cells |-> <<>>, cursor |-> 0]
  /\ \A s, n : u_putchar([cells |-> s, cursor |-> n], BS) = [cells |-> s, cursor |-> n - 1]
  /\ \A s, n, c : c \notin {LF, BS} =>
       u_putchar([cells |-> s, cursor |-> n], c) =
         [cells |-> IF n < Len(s) THEN [s EXCEPT ![n + 1] = c] ELSE Append(s, c), cursor |-> n + 1]
BY DEF u_putchar, LF, BS

\* Ctrl-C and the end of a line.
LEMMA InputGetsReturn ==
  ASSUME InputAssumption, InputInv, u_gets_interrupt \/ \E c \in {CR, LF} : u_gets_newline(c)
  PROVE  InputInv'
<1>1. got' \in Seq(Key)
  BY Keyed DEF u_gets_interrupt, u_gets_newline, Key, Control
<1>2. cells' = <<>> /\ cursor' = 0
  BY Putting DEF u_gets_interrupt, u_gets_newline, Shows
<1>3. buf' \in [0 .. buf_size - 1 -> Key \cup {NUL}]
  BY DEF InputInv, InputTypes, Gets, u_gets_interrupt, u_gets_newline, Terminate, InputAssumption
<1>4. reader' = "none" /\ used' \in 0 .. buf_size
  BY DEF InputInv, InputTypes, u_gets_interrupt, u_gets_newline, Return, InputAssumption
<1> QED
  BY <1>1, <1>2, <1>3, <1>4, InputReturn

\* Ctrl-C has still not been pressed after another key.
LEMMA NoInterrupt ==
  ASSUME InputAssumption, InputInv, reader = "u_gets", NEW c \in Key, c # ETX, Reads(c)
  PROVE  \A k \in 1 .. Len(got') : got'[k] # ETX
<1>1. /\ Len(got') = Len(got) + 1
      /\ \A k \in 1 .. Len(got) : got'[k] = got[k]
      /\ got'[Len(got) + 1] = c
  BY Keyed
<1>2. Len(got) \in Nat /\ \A k \in 1 .. Len(got) : got[k] # ETX
  BY DEF InputInv, InputTypes, Gets
<1> QED
  BY <1>1, <1>2

\* A control character that u_gets ignores changes nothing.
LEMMA InputIgnore ==
  ASSUME InputAssumption, InputInv, NEW c \in {CTL, NUL}, u_gets_ignore(c)
  PROVE  InputInv'
<1>1. c \in Key /\ c \notin {BS, DEL, ETX} /\ c \notin Visible
  BY DEF Key, Control, InputAssumption, CTL, NUL, BS, DEL, ETX
<1>2. /\ reader = "u_gets" /\ Reads(c) /\ reader' = reader /\ buf' = buf /\ used' = used
      /\ cells' = cells /\ cursor' = cursor
  BY DEF u_gets_ignore, terminal
<1>3. got' \in Seq(Key) /\ Edited(got') = Edited(got)
  BY <1>1, <1>2, Keyed DEF Edit
<1>4. \A k \in 1 .. Len(got') : got'[k] # ETX
  BY <1>1, <1>2, NoInterrupt
<1>5. InputTypes' /\ Others'
  BY <1>2, <1>3 DEF InputInv, InputTypes, Others
<1>6. Holding(Edited(got))'
  BY <1>2, <1>3 DEF InputInv, Gets, Holding
<1>7. Gets'
  BY <1>2, <1>3, <1>4, <1>6 DEF InputInv, Gets
<1> QED
  BY <1>5, <1>7 DEF InputInv

\* What backspace, blank and backspace leave of the last character.
LEMMA Erasing ==
  ASSUME cells \in Seq(Visible \cup {Blank}), cursor \in 1 .. Len(cells),
         Shows(u_putchar(u_putchar(u_putchar(Screen, BS), Blank), BS))
  PROVE  cells' = [cells EXCEPT ![cursor] = Blank] /\ cursor' = cursor - 1
<1>1. Blank \notin {LF, BS}
  BY DEF Blank, LF, BS
<1>2. u_putchar(Screen, BS) = [cells |-> cells, cursor |-> cursor - 1]
  BY Putting DEF Screen
<1>3. cursor - 1 < Len(cells) /\ (cursor - 1) + 1 = cursor
  OBVIOUS
<1>4. u_putchar([cells |-> cells, cursor |-> cursor - 1], Blank)
        = [cells |-> [cells EXCEPT ![cursor] = Blank], cursor |-> cursor]
  BY <1>1, <1>3, Putting
<1>5. u_putchar([cells |-> [cells EXCEPT ![cursor] = Blank], cursor |-> cursor], BS)
        = [cells |-> [cells EXCEPT ![cursor] = Blank], cursor |-> cursor - 1]
  BY Putting
<1>6. u_putchar(u_putchar(u_putchar(Screen, BS), Blank), BS)
        = [cells |-> [cells EXCEPT ![cursor] = Blank], cursor |-> cursor - 1]
  BY <1>2, <1>4, <1>5
<1> QED
  BY <1>6 DEF Shows

\* Erasing takes the last character from the line and from the screen; there
\* is nothing to erase from an empty line.
LEMMA InputErase ==
  ASSUME InputAssumption, InputInv, NEW c \in {BS, DEL}, u_gets_backspace(c)
  PROVE  InputInv'
<1> DEFINE line == Edited(got)
<1>1. /\ reader = "u_gets" /\ Reads(c) /\ reader' = reader /\ buf' = buf
  BY DEF u_gets_backspace
<1>2. got' \in Seq(Key) /\ Edited(got') = Edit(line, c)
  BY <1>1, Keyed DEF Key, Control
<1>3. line \in Seq(Visible) /\ Len(line) = used /\ \A k \in 1 .. used : line[k] = buf[k - 1]
  BY <1>1 DEF InputInv, Gets, Holding
<1>4. Edited(got') = IF line = <<>> THEN line ELSE Front(line)
  <2>1. c \notin Visible
    BY DEF InputAssumption, Control
  <2> QED
    BY <1>2, <2>1 DEF Edit
<1>4e. \A k \in 1 .. Len(got') : got'[k] # ETX
  <2>1. c \in Key /\ c # ETX
    BY DEF Key, Control, BS, DEL, ETX
  <2> QED
    BY <1>1, <2>1, NoInterrupt
<1> HIDE DEF line
<1>5. CASE used = 0
  <2>1. Edited(got') = line
    BY <1>3, <1>4, <1>5
  <2>2. used' = used /\ cells' = cells /\ cursor' = cursor
    BY <1>5 DEF u_gets_backspace, terminal
  <2> QED
    BY <1>1, <1>2, <1>4e, <2>1, <2>2 DEF InputInv, InputTypes, Gets, Others, Holding, line
<1>6. CASE used > 0
  <2>1. used' = used - 1 /\ Shows(u_putchar(u_putchar(u_putchar(Screen, BS), Blank), BS))
    BY <1>6 DEF u_gets_backspace
  <2>2. /\ cursor = used /\ used <= Len(cells) /\ cells \in Seq(Visible \cup {Blank})
        /\ used \in 1 .. buf_size - 1 /\ buf_size \in Nat
        /\ \A k \in 1 .. Len(cells) : cells[k] = IF k <= used THEN buf[k - 1] ELSE Blank
    BY <1>1, <1>6 DEF InputInv, InputTypes, Gets, InputAssumption
  <2>3. cells' = [cells EXCEPT ![cursor] = Blank] /\ cursor' = cursor - 1
    BY <2>1, <2>2, Erasing
  <2>4. /\ cells' \in Seq(Visible \cup {Blank}) /\ Len(cells') = Len(cells)
        /\ \A k \in 1 .. Len(cells) : cells'[k] = IF k = cursor THEN Blank ELSE cells[k]
    BY <2>2, <2>3
  <2>5. Edited(got') = SubSeq(line, 1, used - 1)
    BY <1>3, <1>4, <1>6 DEF Front
  <2>6. /\ Edited(got') \in Seq(Visible) /\ Len(Edited(got')) = used - 1
        /\ \A k \in 1 .. used - 1 : Edited(got')[k] = line[k]
    BY <1>3, <2>2, <2>5
  <2>7. InputTypes'
    BY <1>1, <1>2, <2>1, <2>2, <2>3, <2>4 DEF InputInv, InputTypes
  <2>8. Gets'
    BY <1>1, <1>3, <1>4e, <2>1, <2>2, <2>3, <2>4, <2>6 DEF Gets, Holding
  <2>9. Others'
    BY <1>1 DEF Others
  <2> QED
    BY <2>7, <2>8, <2>9 DEF InputInv
<1> QED
  BY <1>5, <1>6 DEF InputInv, InputTypes

\* A visible character is added to both, or to neither if there is no room.
LEMMA InputVisible ==
  ASSUME InputAssumption, InputInv, NEW c \in Visible, u_gets_visible(c)
  PROVE  InputInv'
<1> DEFINE line == Edited(got)
<1>1. /\ reader = "u_gets" /\ Reads(c) /\ reader' = reader
  BY DEF u_gets_visible
<1>2. got' \in Seq(Key) /\ Edited(got') = Edit(line, c)
  BY <1>1, Keyed DEF Key
<1>3. line \in Seq(Visible) /\ Len(line) = used /\ \A k \in 1 .. used : line[k] = buf[k - 1]
  BY <1>1 DEF InputInv, Gets, Holding
<1>4. c \notin {BS, DEL, LF}
  BY DEF InputAssumption, Control
<1>5. Edited(got') = IF used < buf_size - 1 THEN Append(line, c) ELSE line
  BY <1>2, <1>3, <1>4 DEF Edit
<1>5e. \A k \in 1 .. Len(got') : got'[k] # ETX
  <2>1. c \in Key /\ c # ETX
    BY DEF Key, Control, InputAssumption
  <2> QED
    BY <1>1, <2>1, NoInterrupt
<1> HIDE DEF line
<1>6. CASE ~(used < buf_size - 1)
  <2>1. Edited(got') = line
    BY <1>5, <1>6
  <2>2. used' = used /\ cells' = cells /\ cursor' = cursor /\ buf' = buf
    BY <1>6 DEF u_gets_visible, terminal
  <2> QED
    BY <1>1, <1>2, <1>5e, <2>1, <2>2 DEF InputInv, InputTypes, Gets, Others, Holding, line
<1>7. CASE used < buf_size - 1
  <2>1. used' = used + 1 /\ buf' = [buf EXCEPT ![used] = c] /\ Shows(u_putchar(Screen, c))
    BY <1>7 DEF u_gets_visible
  <2>2. /\ cursor = used /\ used <= Len(cells) /\ cells \in Seq(Visible \cup {Blank})
        /\ used \in 0 .. buf_size - 2 /\ buf_size \in Nat
        /\ buf \in [0 .. buf_size - 1 -> Key \cup {NUL}]
        /\ \A k \in 1 .. Len(cells) : cells[k] = IF k <= used THEN buf[k - 1] ELSE Blank
    BY <1>1, <1>7 DEF InputInv, InputTypes, Gets, InputAssumption
  <2>3. /\ cells' = IF used < Len(cells) THEN [cells EXCEPT ![used + 1] = c] ELSE Append(cells, c)
        /\ cursor' = used + 1
    <3>1. u_putchar([cells |-> cells, cursor |-> cursor], c)
            = [cells |-> IF cursor < Len(cells) THEN [cells EXCEPT ![cursor + 1] = c]
                         ELSE Append(cells, c), cursor |-> cursor + 1]
      BY <1>4 DEF u_putchar
    <3>2. Shows([cells |-> IF cursor < Len(cells) THEN [cells EXCEPT ![cursor + 1] = c]
                           ELSE Append(cells, c), cursor |-> cursor + 1])
      BY <2>1, <3>1 DEF Screen
    <3>3. /\ cells' = IF cursor < Len(cells) THEN [cells EXCEPT ![cursor + 1] = c] ELSE Append(cells, c)
          /\ cursor' = cursor + 1
      BY <3>2 DEF Shows
    <3> QED
      BY <2>2, <3>3
  <2>4. /\ cells' \in Seq(Visible \cup {Blank}) /\ used + 1 <= Len(cells')
        /\ \A k \in 1 .. Len(cells') : cells'[k] = IF k = used + 1 THEN c ELSE cells[k]
        /\ \A k \in 1 .. Len(cells') : k # used + 1 => k \in 1 .. Len(cells)
    <3>1. CASE used < Len(cells)
      <4>1. cells' = [cells EXCEPT ![used + 1] = c] /\ Len(cells') = Len(cells)
        BY <2>2, <2>3, <3>1
      <4> QED
        BY <2>2, <3>1, <4>1
    <3>2. CASE used = Len(cells)
      <4>1. cells' = Append(cells, c) /\ Len(cells') = used + 1
        BY <2>2, <2>3, <3>2
      <4> QED
        BY <2>2, <3>2, <4>1
    <3>3. used < Len(cells) \/ used = Len(cells)
      BY <2>2
    <3> QED
      BY ONLY <3>1, <3>2, <3>3
  <2>5. /\ Edited(got') \in Seq(Visible) /\ Len(Edited(got')) = used + 1
        /\ \A k \in 1 .. used + 1 : Edited(got')[k] = IF k = used + 1 THEN c ELSE line[k]
    BY <1>3, <1>5, <1>7, <2>2
  <2>6. /\ buf' \in [0 .. buf_size - 1 -> Key \cup {NUL}]
        /\ \A k \in 0 .. buf_size - 1 : buf'[k] = IF k = used THEN c ELSE buf[k]
    BY <2>1, <2>2 DEF Key
  <2>7. InputTypes'
    BY <1>1, <1>2, <2>1, <2>2, <2>3, <2>4, <2>6 DEF InputInv, InputTypes
  <2>8. Gets'
    <3>1. Holding(Edited(got))'
      BY <1>3, <2>1, <2>2, <2>5, <2>6 DEF Holding
    <3>2. \A k \in 1 .. Len(cells') : cells'[k] = IF k <= used' THEN buf'[k - 1] ELSE Blank
      <4> SUFFICES ASSUME NEW k \in 1 .. Len(cells')
                   PROVE  cells'[k] = IF k <= used' THEN buf'[k - 1] ELSE Blank
        OBVIOUS
      <4>1. CASE k = used + 1
        BY <2>1, <2>2, <2>4, <2>6, <4>1
      <4>2. CASE k # used + 1
        <5>1. k \in 1 .. Len(cells) /\ cells'[k] = cells[k] /\ Len(cells) \in Nat
          BY <2>2, <2>4, <4>2
        <5>2. k <= used => buf'[k - 1] = buf[k - 1]
          BY <2>2, <2>6, <5>1
        <5> QED
          BY <2>1, <2>2, <4>2, <5>1, <5>2
      <4> QED
        BY <4>1, <4>2
    <3> QED
      BY <1>5e, <2>1, <2>2, <2>3, <2>4, <2>5, <3>1, <3>2 DEF Gets
  <2>9. Others'
    BY <1>1 DEF Others
  <2> QED
    BY <2>7, <2>8, <2>9 DEF InputInv
<1> QED
  BY <1>6, <1>7

\* Reading one more character and storing it.
LEMMA Stores ==
  ASSUME InputAssumption, InputInv, NEW c \in Key, Reads(c), Holding(got), used < buf_size,
         used' = used + 1, buf' = [buf EXCEPT ![used] = c]
  PROVE  Holding(got)' /\ buf' \in [0 .. buf_size - 1 -> Key \cup {NUL}] /\ used' \in 0 .. buf_size
<1>1. /\ got' \in Seq(Key) /\ Len(got') = Len(got) + 1
      /\ \A k \in 1 .. Len(got) : got'[k] = got[k]
      /\ got'[Len(got) + 1] = c
  BY Keyed
<1>2. /\ used \in 0 .. buf_size - 1 /\ buf_size \in Nat
      /\ buf \in [0 .. buf_size - 1 -> Key \cup {NUL}]
  BY DEF InputInv, InputTypes, InputAssumption
<1>3. \A k \in 0 .. buf_size - 1 : buf'[k] = IF k = used THEN c ELSE buf[k]
  BY <1>2
<1>4. Len(got) = used /\ \A k \in 1 .. used : got[k] = buf[k - 1]
  BY DEF Holding
<1>5. ASSUME NEW k \in 1 .. used + 1 PROVE got'[k] = buf'[k - 1]
  <2>1. CASE k = used + 1
    BY <1>1, <1>2, <1>3, <1>4, <2>1
  <2>2. CASE k \in 1 .. used
    BY <1>1, <1>2, <1>3, <1>4, <2>2
  <2> QED
    BY <1>2, <2>1, <2>2
<1> QED
  BY <1>1, <1>2, <1>4, <1>5 DEF Holding

\* A key of u_read_line is stored, or ends the line.
LEMMA InputReadLine ==
  ASSUME InputAssumption, InputInv, NEW c \in Key, u_read_line(c)
  PROVE  InputInv'
<1>1. reader = "u_read_line" /\ Reads(c) /\ ~Full /\ UNCHANGED <<cells, cursor>>
  BY DEF u_read_line, Asks, terminal
<1>2. /\ Holding(got) /\ used < buf_size - 1 /\ used \in 0 .. buf_size /\ buf_size \in Nat
      /\ \A k \in 1 .. Len(got) : got[k] \notin {LF, CR}
      /\ got \in Seq(Key) /\ buf \in [0 .. buf_size - 1 -> Key \cup {NUL}]
      /\ cells \in Seq(Visible \cup {Blank}) /\ cursor \in Nat
  BY <1>1 DEF InputInv, InputTypes, Others, Full, InputAssumption
<1>3. /\ got' \in Seq(Key) /\ Len(got') = Len(got) + 1
      /\ \A k \in 1 .. Len(got) : got'[k] = got[k]
      /\ got'[Len(got) + 1] = c
  BY <1>1, Keyed
<1>4. CASE c \in {LF, CR}
  <2>1. Terminate(used) /\ Return(used) /\ used' = used
    BY <1>4 DEF u_read_line
  <2>2. reader' = "none" /\ buf' \in [0 .. buf_size - 1 -> Key \cup {NUL}]
    BY <1>2, <2>1 DEF Terminate, Return
  <2> QED
    BY <1>1, <1>2, <1>3, <2>1, <2>2, InputReturn
<1>5. CASE c \notin {LF, CR}
  <2>1. buf' = [buf EXCEPT ![used] = c] /\ used' = used + 1 /\ reader' = reader
    BY <1>5 DEF u_read_line
  <2>2. Holding(got)' /\ buf' \in [0 .. buf_size - 1 -> Key \cup {NUL}] /\ used' \in 0 .. buf_size
    <3>1. used < buf_size /\ used' = used + 1
      BY <1>1, <1>2, <2>1
    <3> QED
      BY <1>1, <1>2, <2>1, <3>1, Stores, Zenon
  <2>3. \A k \in 1 .. Len(got') : got'[k] \notin {LF, CR}
    <3>1. Len(got) \in Nat /\ Len(got') = Len(got) + 1
      BY <1>2, <1>3
    <3>2. ASSUME NEW k \in 1 .. Len(got') PROVE k \in 1 .. Len(got) \/ k = Len(got) + 1
      BY <3>1
    <3>3. \A k \in 1 .. Len(got) : got'[k] \notin {LF, CR}
      BY <1>2, <1>3, Zenon
    <3>4. got'[Len(got) + 1] \notin {LF, CR}
      BY <1>3, <1>5, Zenon
    <3> QED
      BY <3>2, <3>3, <3>4, Zenon
  <2>4. used' < buf_size
    BY <1>2, <2>1
  <2>5. InputTypes'
    BY <1>1, <1>2, <1>3, <2>1, <2>2 DEF InputTypes, Fn, LineFn
  <2>6. Gets' /\ Others'
    BY <1>1, <2>1, <2>2, <2>3, <2>4 DEF Gets, Others
  <2> QED
    BY <2>5, <2>6 DEF InputInv
<1> QED
  BY <1>4, <1>5

\* A key of u_read_until is stored, also the delimiter.
LEMMA InputReadUntil ==
  ASSUME InputAssumption, InputInv, NEW c \in Key, u_read_until(c)
  PROVE  InputInv'
<1>1. reader = "u_read_until" /\ Reads(c) /\ ~Full /\ UNCHANGED <<cells, cursor>> /\ used' = used + 1
  BY DEF u_read_until, Asks, terminal
<1>2. /\ Holding(got) /\ used < buf_size - 1 /\ used \in 0 .. buf_size /\ buf_size \in Nat
      /\ got \in Seq(Key) /\ buf \in [0 .. buf_size - 1 -> Key \cup {NUL}]
      /\ cells \in Seq(Visible \cup {Blank}) /\ cursor \in Nat
  BY <1>1 DEF InputInv, InputTypes, Others, Full, InputAssumption
<1>3. got' \in Seq(Key)
  BY <1>1, Keyed
<1>4. CASE c = LF
  <2>1. reader' = "none" /\ buf' = [buf EXCEPT ![used] = c, ![used + 1] = NUL]
    BY <1>4 DEF u_read_until, Return
  <2>2. buf' \in [0 .. buf_size - 1 -> Key \cup {NUL}]
    BY <1>2, <2>1
  <2> QED
    BY <1>1, <1>2, <1>3, <2>1, <2>2, InputReturn
<1>5. CASE c # LF
  <2>1. buf' = [buf EXCEPT ![used] = c] /\ reader' = reader
    BY <1>5 DEF u_read_until
  <2>2. Holding(got)' /\ buf' \in [0 .. buf_size - 1 -> Key \cup {NUL}] /\ used' \in 0 .. buf_size
    <3>1. used < buf_size /\ used' = used + 1
      BY <1>1, <1>2, <2>1
    <3> QED
      BY <1>1, <1>2, <2>1, <3>1, Stores, Zenon
  <2>4. used' < buf_size
    BY <1>1, <1>2
  <2>5. InputTypes'
    BY <1>1, <1>2, <1>3, <2>1, <2>2 DEF InputTypes, Fn, LineFn
  <2>6. Gets' /\ Others'
    BY <1>1, <2>1, <2>2, <2>4 DEF Gets, Others
  <2> QED
    BY <2>5, <2>6 DEF InputInv
<1> QED
  BY <1>4, <1>5

\* What u_readn has after a read() of several characters.
LEMMA InputReadn ==
  ASSUME InputAssumption, InputInv, NEW n \in 1 .. buf_size, NEW s \in [1 .. n -> Visible], u_readn(s)
  PROVE  InputInv' /\ Holding(got)'
<1>1. /\ reader = "u_readn" /\ Len(s) <= buf_size - used /\ got' = got \o s /\ used' = used + Len(s)
      /\ buf' = [k \in DOMAIN buf |-> IF k \in used .. used + Len(s) - 1 THEN s[k - used + 1] ELSE buf[k]]
      /\ UNCHANGED <<cells, cursor>> /\ reader' \in {"u_readn", "none"}
  BY DEF u_readn, terminal, Return
<1>2. /\ Holding(got) /\ used \in 0 .. buf_size /\ buf_size \in Nat
      /\ got \in Seq(Key) /\ buf \in [0 .. buf_size - 1 -> Key \cup {NUL}]
      /\ cells \in Seq(Visible \cup {Blank}) /\ cursor \in Nat
  BY <1>1 DEF InputInv, InputTypes, Others, InputAssumption
<1>3. s \in Seq(Key) /\ Len(s) = n /\ n \in Nat
  BY <1>2 DEF Key
<1>4. /\ got' \in Seq(Key) /\ Len(got') = Len(got) + n
      /\ \A k \in 1 .. Len(got) + n : got'[k] = IF k <= Len(got) THEN got[k] ELSE s[k - Len(got)]
  BY <1>1, <1>2, <1>3, ConcatProperties
<1>5. used' \in 0 .. buf_size
  BY <1>1, <1>2, <1>3
<1>6. DOMAIN buf' = 0 .. buf_size - 1
      /\ \A k \in 0 .. buf_size - 1 : buf'[k] = IF k \in used .. used + n - 1 THEN s[k - used + 1] ELSE buf[k]
  BY <1>1, <1>2, <1>3
<1>7. buf' \in [0 .. buf_size - 1 -> Key \cup {NUL}]
  <2>1. ASSUME NEW k \in 0 .. buf_size - 1 PROVE buf'[k] \in Key \cup {NUL}
    <3>1. CASE k \in used .. used + n - 1
      <4>1. k - used + 1 \in 1 .. n
        BY <1>2, <1>3, <3>1
      <4> QED
        BY <1>6, <3>1, <4>1 DEF Key
    <3>2. CASE k \notin used .. used + n - 1
      BY <1>2, <1>6, <3>2
    <3> QED
      BY <3>1, <3>2
  <2>2. buf' = [k \in 0 .. buf_size - 1 |-> buf'[k]]
    BY <1>1, <1>2
  <2> QED
    BY <2>1, <2>2
<1>8. Holding(got)'
  <2>1. Len(got) = used /\ \A k \in 1 .. used : got[k] = buf[k - 1]
    BY <1>2 DEF Holding
  <2>2. ASSUME NEW k \in 1 .. used + n PROVE got'[k] = buf'[k - 1]
    <3>1. k - 1 \in 0 .. buf_size - 1
      BY <1>1, <1>2, <1>3
    <3>2. CASE k <= used
      BY <1>2, <1>4, <1>6, <2>1, <3>1, <3>2
    <3>3. CASE k > used
      <4>1. k - 1 \in used .. used + n - 1 /\ (k - 1) - used + 1 = k - used
        BY <1>2, <1>3, <3>3
      <4>2. buf'[k - 1] = s[k - used]
        BY <1>6, <3>1, <4>1
      <4>3. got'[k] = s[k - used]
        BY <1>2, <1>4, <2>1, <3>3
      <4> QED
        BY <4>2, <4>3
    <3> QED
      BY <1>2, <3>2, <3>3
  <2> QED
    BY <1>1, <1>2, <1>3, <1>4, <2>1, <2>2 DEF Holding
<1>9. InputTypes'
  BY <1>1, <1>2, <1>4, <1>5, <1>7 DEF InputTypes, Fn, LineFn
<1>10. Gets' /\ Others'
  BY <1>1, <1>8 DEF Gets, Others
<1> QED
  BY <1>8, <1>9, <1>10 DEF InputInv

\* A character of u_getchar ends it.
LEMMA InputGetchar ==
  ASSUME InputAssumption, InputInv, NEW c \in Key, u_getchar(c)
  PROVE  InputInv'
<1>1. Reads(c) /\ reader' = "none" /\ UNCHANGED <<buf, used, cells, cursor>>
  BY DEF u_getchar, Return, terminal
<1>2. got' \in Seq(Key)
  BY <1>1, Keyed
<1> QED
  BY <1>1, <1>2, InputReturn DEF InputInv, InputTypes

\* The inductive step.
LEMMA InputNextInv ==
  ASSUME InputAssumption
  PROVE  InputInv /\ [InputNext]_input_vars => InputInv'
<1> SUFFICES ASSUME InputInv, [InputNext]_input_vars PROVE InputInv'
  OBVIOUS
<1>1. CASE UNCHANGED input_vars
  BY <1>1 DEF input_vars, terminal, InputInv, InputTypes, Gets, Others, Holding
<1>2. CASE InputNext
  BY <1>2, InputCall, InputEnds, InputGetsReturn, InputIgnore, InputErase, InputVisible,
     InputReadLine, InputReadUntil, InputReadn, InputGetchar DEF InputNext
<1> QED
  BY <1>1, <1>2

----------------------------------------------------------------------------
\* A sequence is held if its characters are.
LEMMA HeldIs ==
  ASSUME NEW b, NEW n \in Nat, NEW s \in Seq(Key), Len(s) = n, \A k \in 1 .. n : s[k] = b[k - 1]
  PROVE  Held(b, n) = s
<1>1. s = [k \in 1 .. n |-> s[k]]
  OBVIOUS
<1> QED
  BY <1>1 DEF Held

\* Visible characters and a terminator behind them are a C string.
LEMMA CStringIs ==
  ASSUME InputAssumption, NEW b, NEW s \in Seq(Visible), Len(s) < buf_size, b[Len(s)] = NUL,
         \A k \in 1 .. Len(s) : s[k] = b[k - 1]
  PROVE  CString(b) = s
<1> DEFINE n == Len(s)
           End(k) == /\ k = buf_size \/ b[k] = NUL
                     /\ \A j \in 0 .. k - 1 : b[j] # NUL
           e == CHOOSE k \in 0 .. buf_size : End(k)
<1>1. n \in Nat /\ n \in 0 .. buf_size /\ buf_size \in Nat
  BY DEF InputAssumption
<1>2. NUL \notin Visible
  BY DEF InputAssumption, Control
<1>3. ASSUME NEW j \in 0 .. n - 1 PROVE b[j] # NUL
  <2>1. j + 1 \in 1 .. n /\ (j + 1) - 1 = j
    BY <1>1
  <2>2. s[j + 1] = b[j] /\ s[j + 1] \in Visible
    BY <2>1
  <2> QED
    BY <1>2, <2>2
<1>4. End(n)
  BY <1>3
<1>5. e \in 0 .. buf_size /\ End(e)
  <2> HIDE DEF End
  <2> QED
    BY <1>1, <1>4
<1> HIDE DEF e
<1>6. e = n
  <2>1. ~(e < n)
    <3>1. e < n => e \in 0 .. n - 1 /\ e # buf_size
      BY <1>1, <1>5
    <3> QED
      BY <1>3, <1>5, <3>1
  <2>2. ~(n < e)
    <3>1. n < e => n \in 0 .. e - 1
      BY <1>1, <1>5
    <3> QED
      BY <1>5, <3>1
  <2> QED
    BY <1>1, <1>5, <2>1, <2>2
<1>7. CString(b) = [k \in 1 .. e |-> b[k - 1]]
  BY DEF CString, e, End
<1>8. s = [k \in 1 .. n |-> s[k]]
  OBVIOUS
<1> QED
  BY <1>6, <1>7, <1>8

\* What a terminated buffer holds.
LEMMA Terminated ==
  ASSUME InputAssumption, InputInv, NEW s \in Seq(Key), Holding(s), used < buf_size, Terminate(used)
  PROVE  /\ Held(buf', used) = s /\ Len(s) = used /\ buf'[used] = NUL
         /\ s \in Seq(Visible) => CString(buf') = s
<1>1. /\ used \in 0 .. buf_size - 1 /\ buf_size \in Nat
      /\ buf \in [0 .. buf_size - 1 -> Key \cup {NUL}]
  BY DEF InputInv, InputTypes, InputAssumption
<1>2. buf'[used] = NUL /\ \A k \in 0 .. used - 1 : buf'[k] = buf[k]
  BY <1>1 DEF Terminate
<1>3. Len(s) = used /\ \A k \in 1 .. used : s[k] = buf[k - 1]
  BY DEF Holding
<1>4. \A k \in 1 .. Len(s) : s[k] = buf'[k - 1]
  BY <1>1, <1>2, <1>3
<1>5. Held(buf', used) = s
  BY <1>1, <1>3, <1>4, HeldIs
<1>6. s \in Seq(Visible) => CString(buf') = s
  BY <1>2, <1>3, <1>4, CStringIs
<1> QED
  BY <1>2, <1>3, <1>5, <1>6

\* What a call that returns a length leaves.
LineRight ==
  /\ Held(buf', result') = LineOf(reader, got') /\ buf'[result'] = NUL
  /\ reader = "u_gets" => CString(buf') = Held(buf', result')

\* A line that ends with the input or with the buffer.
LEMMA LineAtEnd ==
  ASSUME InputAssumption, InputInv, read_eof \/ buffer_full, reader \in LineFn, Terminate(used)
  PROVE  LineRight
<1>1. result' = used /\ got' = got
  BY DEF read_eof, buffer_full, Return, LineFn
<1>2. /\ used \in 0 .. buf_size /\ used < buf_size /\ got \in Seq(Key)
      /\ reader = "u_gets" => Holding(Edited(got)) /\ Edited(got) \in Seq(Visible)
      /\ reader # "u_gets" => Holding(got)
      /\ reader = "u_read_line" => \A k \in 1 .. Len(got) : got[k] \notin {LF, CR}
  BY DEF InputInv, InputTypes, Gets, Others, LineFn
<1>3. CASE reader = "u_gets"
  <2>1. Edited(got) \in Seq(Key)
    BY <1>2, <1>3 DEF Key
  <2>2. Held(buf', used) = Edited(got) /\ buf'[used] = NUL /\ CString(buf') = Edited(got)
    BY <1>2, <1>3, <2>1, Terminated
  <2> QED
    BY <1>1, <1>3, <2>2 DEF LineRight, LineOf
<1>4. CASE reader # "u_gets"
  <2>1. Held(buf', used) = got /\ Len(got) = used /\ buf'[used] = NUL
    BY <1>2, <1>4, Terminated
  <2>2. CASE reader = "u_read_line" /\ used = 0
    <3>1. got = <<>>
      BY <1>2, <2>1, <2>2
    <3>2. got[0] \in {LF, CR} => Front(got) = got
      BY <3>1 DEF Front
    <3> QED
      BY <1>1, <1>4, <2>1, <2>2, <3>2 DEF LineRight, LineOf
  <2>3. CASE ~(reader = "u_read_line" /\ used = 0)
    <3>1. reader = "u_read_line" => got[Len(got)] \notin {LF, CR}
      BY <1>2, <2>1, <2>3
    <3> QED
      BY <1>1, <1>4, <2>1, <3>1 DEF LineRight, LineOf
  <2> QED
    BY <2>2, <2>3
<1> QED
  BY <1>3, <1>4

\* A key that ends a line of u_gets does not change it.
LEMMA NewlineEdit ==
  ASSUME InputAssumption, InputInv, NEW c \in {CR, LF}, Reads(c)
  PROVE  Edited(got') = Edited(got)
<1>1. c \in Key /\ c \notin {BS, DEL} /\ c \notin Visible
  BY DEF Key, Control, InputAssumption, CR, LF, BS, DEL
<1>2. Edited(got') = Edit(Edited(got), c)
  BY <1>1, Keyed
<1> QED
  BY <1>1, <1>2 DEF Edit

\* A line that u_gets ends.
LEMMA LineAtNewline ==
  ASSUME InputAssumption, InputInv, NEW c \in {CR, LF}, u_gets_newline(c)
  PROVE  LineRight /\ result' = Len(Edited(got'))
<1>1. reader = "u_gets" /\ Reads(c) /\ Terminate(used) /\ result' = used
  BY DEF u_gets_newline, Return
<1>2. used < buf_size /\ Holding(Edited(got)) /\ Edited(got) \in Seq(Visible)
  BY <1>1 DEF InputInv, Gets
<1>3. Edited(got') = Edited(got)
  BY <1>1, NewlineEdit
<1>4. Edited(got) \in Seq(Key)
  BY <1>2 DEF Key
<1>5. /\ Held(buf', used) = Edited(got) /\ Len(Edited(got)) = used
      /\ buf'[used] = NUL /\ CString(buf') = Edited(got)
  BY <1>1, <1>2, <1>4, Terminated
<1> QED
  BY <1>1, <1>3, <1>5 DEF LineRight, LineOf

\* A line that u_read_line ends.
LEMMA LineReadToEnd ==
  ASSUME InputAssumption, InputInv, NEW c \in Key, u_read_line(c), reader' = "none"
  PROVE  LineRight
<1>1. reader = "u_read_line" /\ Reads(c) /\ c \in {LF, CR} /\ Terminate(used) /\ result' = used
  BY DEF u_read_line, Return
<1>2. used < buf_size /\ Holding(got) /\ got \in Seq(Key)
  BY <1>1 DEF InputInv, InputTypes, Others
<1>3. Held(buf', used) = got /\ Len(got) = used /\ buf'[used] = NUL
  BY <1>1, <1>2, Terminated
<1>4. got' = Append(got, c)
  BY <1>1 DEF Reads
<1>5. got'[Len(got')] = c /\ Front(got') = got
  BY <1>2, <1>4 DEF Front
<1> QED
  BY <1>1, <1>3, <1>5 DEF LineRight, LineOf

\* A text that u_read_until ends.
LEMMA LineReadUntil ==
  ASSUME InputAssumption, InputInv, NEW c \in Key, u_read_until(c), reader' = "none"
  PROVE  LineRight
<1>1. /\ reader = "u_read_until" /\ Reads(c) /\ ~Full /\ result' = used + 1
      /\ buf' = [buf EXCEPT ![used] = c, ![used + 1] = NUL]
  BY DEF u_read_until, Return, Asks
<1>2. /\ used \in 0 .. buf_size - 2 /\ buf_size \in Nat /\ Len(got) = used
      /\ \A k \in 1 .. used : got[k] = buf[k - 1]
      /\ buf \in [0 .. buf_size - 1 -> Key \cup {NUL}]
  BY <1>1 DEF InputInv, InputTypes, Others, Full, InputAssumption, Holding
<1>3. /\ got' \in Seq(Key) /\ Len(got') = used + 1
      /\ \A k \in 1 .. used : got'[k] = got[k]
      /\ got'[used + 1] = c
  BY <1>1, <1>2, Keyed
<1>4. buf'[used] = c /\ buf'[used + 1] = NUL /\ \A k \in 0 .. used - 1 : buf'[k] = buf[k]
  BY <1>1, <1>2
<1>5. ASSUME NEW k \in 1 .. used + 1 PROVE got'[k] = buf'[k - 1]
  <2>1. CASE k = used + 1
    BY <1>2, <1>3, <1>4, <2>1
  <2>2. CASE k \in 1 .. used
    BY <1>2, <1>3, <1>4, <2>2
  <2> QED
    BY <1>2, <2>1, <2>2
<1>6. used + 1 \in Nat
  BY <1>2
<1>7. Held(buf', used + 1) = got'
  BY <1>3, <1>5, <1>6, HeldIs
<1> QED
  BY <1>1, <1>4, <1>7 DEF LineRight, LineOf

\* Whichever step returns a line returns the right one.
LEMMA LineStep ==
  ASSUME InputAssumption, InputInv, [InputNext]_input_vars,
         reader \in LineFn, reader' = "none", result' > 0
  PROVE  LineRight
<1>1. reader \notin {"none", "u_readn", "u_getchar"} /\ reader' # reader
  BY DEF LineFn
<1>2. InputNext
  BY <1>1 DEF input_vars
<1>3. ~read_error /\ ~u_gets_interrupt
  BY DEF read_error, u_gets_interrupt, Return, ERR, U_GETS_INTR
<1>4. /\ \A c : ~u_gets_ignore(c) /\ ~u_getchar(c)
      /\ \A c : ~u_gets_backspace(c) /\ ~u_gets_visible(c)
      /\ \A f : ~Call(f)
      /\ \A s : ~u_readn(s)
  BY <1>1 DEF u_gets_ignore, u_getchar, Call, u_gets_backspace, u_gets_visible, u_readn
<1>5. read_eof \/ buffer_full => Terminate(used)
  <2>1. read_eof => result' = used
    BY <1>1 DEF read_eof, Return
  <2>2. read_eof => Terminate(used)
    BY <1>1, <2>1 DEF read_eof, InputInv, InputTypes
  <2> QED
    BY <2>2 DEF buffer_full
<1> QED
  BY <1>2, <1>3, <1>4, <1>5, LineAtEnd, LineAtNewline, LineReadToEnd, LineReadUntil DEF InputNext

\* What the shell is told of a line.
ToldRight ==
  /\ shell_read_line(result') = SHELL_READ_OK => Edited(got') # <<>> /\ CString(buf') = Edited(got')
  /\ shell_read_line(result') = SHELL_READ_INTR <=> got' # <<>> /\ got'[Len(got')] = ETX
  /\ shell_read_line(result') = SHELL_READ_EOF => Edited(got') = <<>>

\* The four outcomes, told apart by the length.
LEMMA Outcomes ==
  /\ \A k \in Nat \ {0} : shell_read_line(k) = SHELL_READ_OK
  /\ shell_read_line(0) = SHELL_READ_EOF
  /\ shell_read_line(U_GETS_INTR) = SHELL_READ_INTR
  /\ shell_read_line(ERR) = SHELL_READ_ERR
BY DEF shell_read_line, U_GETS_INTR, ERR

\* The shell is told right, whichever step ends u_gets.
LEMMA ToldStep ==
  ASSUME InputAssumption, InputInv, [InputNext]_input_vars, reader = "u_gets", reader' = "none"
  PROVE  ToldRight
<1> USE DEF SHELL_READ_OK, SHELL_READ_EOF, SHELL_READ_INTR, SHELL_READ_ERR
<1>1. InputNext
  BY DEF input_vars
<1>2. /\ \A c : ~u_gets_ignore(c) /\ ~u_getchar(c)
      /\ \A c : ~u_gets_backspace(c) /\ ~u_gets_visible(c) /\ ~u_read_line(c) /\ ~u_read_until(c)
      /\ \A f : ~Call(f)
      /\ \A s : ~u_readn(s)
      /\ ~buffer_full
  BY DEF u_gets_ignore, u_getchar, Call, u_gets_backspace, u_gets_visible, u_readn, u_read_line,
         u_read_until, buffer_full
<1>3. /\ used \in Nat /\ used < buf_size /\ got \in Seq(Key)
      /\ Edited(got) \in Seq(Visible) /\ Len(Edited(got)) = used
      /\ \A k \in 1 .. Len(got) : got[k] # ETX
  BY DEF InputInv, InputTypes, Gets, Holding, InputAssumption
<1>4. got # <<>> => got[Len(got)] # ETX
  BY <1>3
<1>5. CASE read_error
  <2>1. got' = got /\ result' = ERR
    BY <1>5 DEF read_error, Return
  <2> QED
    BY <1>4, <2>1, Outcomes DEF ToldRight
<1>6. CASE read_eof
  <2>1. got' = got /\ result' = used
    BY <1>6 DEF read_eof, Return
  <2>2. CASE used = 0
    BY <1>3, <1>4, <2>1, <2>2, Outcomes DEF ToldRight
  <2>3. CASE used # 0
    <3>1. Terminate(used)
      BY <1>6, <2>3 DEF read_eof
    <3>2. LineRight
      BY <1>6, <3>1, LineAtEnd DEF LineFn
    <3>3. CString(buf') = Edited(got')
      BY <2>1, <3>2 DEF LineRight, LineOf
    <3>4. shell_read_line(result') = SHELL_READ_OK
      BY <1>3, <2>1, <2>3, Outcomes
    <3>5. Edited(got') # <<>>
      BY <1>3, <2>1, <2>3
    <3> QED
      BY <1>4, <2>1, <3>3, <3>4, <3>5 DEF ToldRight
  <2> QED
    BY <2>2, <2>3
<1>7. CASE u_gets_interrupt
  <2>1. Reads(ETX) /\ result' = U_GETS_INTR
    BY <1>7 DEF u_gets_interrupt, Return
  <2>2. ETX \in Key
    BY DEF Key, Control
  <2>3. got' \in Seq(Key) /\ Len(got') = Len(got) + 1 /\ got'[Len(got) + 1] = ETX
    BY <2>1, <2>2, Keyed
  <2>4. got' # <<>> /\ got'[Len(got')] = ETX
    BY <1>3, <2>3
  <2> QED
    BY <2>1, <2>4, Outcomes DEF ToldRight
<1>8. ASSUME NEW c \in {CR, LF}, u_gets_newline(c) PROVE ToldRight
  <2>1. LineRight /\ result' = Len(Edited(got'))
    BY <1>8, LineAtNewline
  <2>2. Reads(c) /\ c \in Key /\ c # ETX
    BY <1>8 DEF u_gets_newline, Key, Control, CR, LF, ETX
  <2>3. Edited(got') = Edited(got)
    BY <2>2, NewlineEdit
  <2>4. got' \in Seq(Key) /\ Len(got') = Len(got) + 1 /\ got'[Len(got) + 1] = c
    BY <2>2, Keyed
  <2>5. got'[Len(got')] # ETX
    BY <2>2, <2>4
  <2>6. CString(buf') = Edited(got')
    BY <2>1 DEF LineRight, LineOf
  <2>7. CASE used = 0
    BY <1>3, <2>1, <2>3, <2>5, <2>7, Outcomes DEF ToldRight
  <2>8. CASE used # 0
    <3>1. Edited(got') # <<>> /\ shell_read_line(result') = SHELL_READ_OK
      BY <1>3, <2>1, <2>3, <2>8, Outcomes
    <3> QED
      BY <2>5, <2>6, <3>1 DEF ToldRight
  <2> QED
    BY <2>7, <2>8
<1> QED
  BY <1>1, <1>2, <1>5, <1>6, <1>7, <1>8 DEF InputNext

\* u_getchar returns what it read.
LEMMA CharStep ==
  ASSUME InputAssumption, InputInv, [InputNext]_input_vars, reader = "u_getchar", reader' = "none"
  PROVE  IF got' = <<>> THEN result' < 0 ELSE got' = <<result'>>
<1>1. InputNext
  BY DEF input_vars
<1>2. got = <<>>
  BY DEF InputInv, Others
<1>3. /\ \A c : ~u_gets_ignore(c) /\ ~u_gets_backspace(c) /\ ~u_gets_visible(c)
      /\ \A c : ~u_gets_newline(c) /\ ~u_read_line(c) /\ ~u_read_until(c)
      /\ \A f : ~Call(f)
      /\ \A s : ~u_readn(s)
      /\ ~buffer_full /\ ~u_gets_interrupt
  BY DEF u_gets_ignore, Call, u_gets_backspace, u_gets_visible, u_readn, u_read_line,
         u_read_until, buffer_full, u_gets_newline, u_gets_interrupt
<1>4. CASE read_eof \/ read_error
  <2>1. got' = <<>> /\ result' = -1
    BY <1>2, <1>4 DEF read_eof, read_error, Return, EOF, ERR
  <2> QED
    BY <2>1
<1>5. ASSUME NEW c \in Key, u_getchar(c) PROVE got' = <<result'>> /\ got' # <<>>
  BY <1>2, <1>5 DEF u_getchar, Reads, Return
<1> QED
  BY <1>1, <1>3, <1>4, <1>5 DEF InputNext

\* u_readn returns the bytes in the order they came.
LEMMA ReadnStep ==
  ASSUME InputAssumption, InputInv, [InputNext]_input_vars,
         reader = "u_readn", reader' = "none", result' >= 0
  PROVE  got' = Held(buf', result')
<1>1. InputNext
  BY DEF input_vars
<1>2. \/ read_eof
      \/ \E n \in 1 .. buf_size : \E s \in [1 .. n -> Visible] : u_readn(s)
  <2>1. ~read_error
    BY DEF read_error, Return, ERR
  <2>2. /\ ~u_gets_interrupt /\ ~buffer_full /\ \A f : ~Call(f)
        /\ \A c : ~u_gets_ignore(c) /\ ~u_getchar(c)
        /\ \A c : ~u_gets_backspace(c) /\ ~u_gets_visible(c) /\ ~u_gets_newline(c)
        /\ \A c : ~u_read_line(c) /\ ~u_read_until(c)
    BY DEF u_gets_ignore, u_getchar, u_gets_interrupt, buffer_full, Call, u_gets_backspace, u_gets_visible,
           u_gets_newline, u_read_line, u_read_until
  <2> QED
    BY <1>1, <2>1, <2>2 DEF InputNext
<1>3. Holding(got)' /\ result' = used' /\ got' \in Seq(Key)
  <2>1. CASE read_eof
    BY <2>1 DEF read_eof, Return, InputInv, InputTypes, Others, Holding
  <2>2. ASSUME NEW n \in 1 .. buf_size, NEW s \in [1 .. n -> Visible], u_readn(s)
        PROVE  Holding(got)' /\ result' = used' /\ got' \in Seq(Key)
    <3>1. result' = used'
      BY <2>2 DEF u_readn, Return
    <3> QED
      BY <2>2, <3>1, InputReadn DEF InputInv, InputTypes
  <2> QED
    BY <1>2, <2>1, <2>2
<1>4. Len(got') = result' /\ \A k \in 1 .. result' : got'[k] = buf'[k - 1]
  BY <1>3 DEF Holding
<1>5. result' \in Nat
  BY <1>3, <1>4
<1> QED
  BY <1>3, <1>4, <1>5, HeldIs

\* What is typed is what is shown and what is returned, for buffers of any size
\* and any number of keys: u_gets returns what an editor makes of its keys and
\* shows it while it is edited; u_read_line, u_read_until, u_readn and u_getchar
\* return what they read, in order; and the shell is told of an interrupt, of an
\* empty line and of a line exactly when there was one.
THEOREM InputIsExact ==
  ASSUME InputAssumption
  PROVE  InputSpec => InputExact
<1>1. InputInit => InputInv
  BY InputInitInv
<1>2. InputInv /\ [InputNext]_input_vars => InputInv'
  BY InputNextInv
<1>3. InputInv' => ScreenShowsLine'
  BY DEF InputInv, Gets, ScreenShowsLine
<1>4. InputInv /\ [InputNext]_input_vars =>
        [(reader \in LineFn /\ reader' = "none" /\ result' > 0) => LineRight]_input_vars
  BY LineStep
<1>5. InputInv /\ [InputNext]_input_vars =>
        [(reader = "u_gets" /\ reader' = "none") => ToldRight]_input_vars
  BY ToldStep
<1>6. InputInv /\ [InputNext]_input_vars =>
        [(reader = "u_readn" /\ reader' = "none" /\ result' >= 0) =>
           got' = Held(buf', result')]_input_vars
  BY ReadnStep
<1>7. InputInv /\ [InputNext]_input_vars =>
        [(reader = "u_getchar" /\ reader' = "none") =>
           IF got' = <<>> THEN result' < 0 ELSE got' = <<result'>>]_input_vars
  BY CharStep
<1> QED
  BY <1>1, <1>2, <1>3, <1>4, <1>5, <1>6, <1>7, PTL
  DEF InputSpec, InputExact, LineReturned, ShellToldRight, ReadnInOrder, CharReturned, LineRight, ToldRight

----------------------------------------------------------------------------
(* Text.  The digits of a number are a recursive function of the number.   *)

Base == {10, 16}
\* The characters of formats and strings, and those the formatters add.
Chars == STRING \cup {"0", "1", "2", "3", "4", "5", "6", "7", "8", "9", "a", "b", "c", "d", "e", "f",
                       "A", "B", "C", "D", "E", "F", "x", "-", "%", " ", EOS}

\* f[m] is the text of m, for all m up to n.
AreDigits(f, n, base, set) ==
  f = [m \in 0 .. n |-> IF m < base THEN <<set[m + 1]>>
                        ELSE Append(f[m \div base], set[(m % base) + 1])]

\* The quotient is smaller.
LEMMA Quotient ==
  ASSUME NEW base \in Base, NEW m \in Nat, ~(m < base)
  PROVE  m \div base \in 0 .. m - 1
BY DEF Base

\* Such a function extends to one more number.
LEMMA DigitsExtend ==
  ASSUME NEW base \in Base, NEW set, NEW n \in Nat, NEW f, AreDigits(f, n, base, set)
  PROVE  \E longer : AreDigits(longer, n + 1, base, set)
<1> DEFINE Text(g, m) == IF m < base THEN <<set[m + 1]>>
                         ELSE Append(g[m \div base], set[(m % base) + 1])
           longer == [m \in 0 .. n + 1 |-> IF m <= n THEN f[m] ELSE Text(f, m)]
<1>1. ASSUME NEW m \in 0 .. n + 1 PROVE longer[m] = Text(longer, m)
  <2>1. ~(m < base) => m \div base \in 0 .. m - 1
    BY Quotient
  <2>2. ~(m < base) => m \div base \in 0 .. n + 1 /\ m \div base <= n
    BY <2>1
  <2>3. ~(m < base) => longer[m \div base] = f[m \div base]
    BY <2>2
  <2>4. Text(longer, m) = Text(f, m)
    <3> HIDE DEF longer
    <3> QED
      BY <2>3
  <2>5. longer[m] = Text(f, m)
    <3>1. CASE m <= n
      <4>1. m \in 0 .. n /\ longer[m] = f[m]
        BY <3>1
      <4> HIDE DEF longer
      <4> QED
        BY <4>1 DEF AreDigits
    <3>2. CASE ~(m <= n)
      <4> HIDE DEF Text
      <4> QED
        BY <3>2
    <3> QED
      BY <3>1, <3>2
  <2> HIDE DEF longer, Text
  <2> QED
    BY <2>4, <2>5
<1>2. longer = [m \in 0 .. n + 1 |-> longer[m]]
  OBVIOUS
<1> HIDE DEF longer
<1>3. longer = [m \in 0 .. n + 1 |-> Text(longer, m)]
  <2> HIDE DEF Text
  <2> QED
    BY <1>1, <1>2
<1> QED
  BY <1>3 DEF AreDigits

\* So there is one for every bound,
LEMMA DigitsExist ==
  ASSUME NEW base \in Base, NEW set, NEW n \in Nat
  PROVE  \E f : AreDigits(f, n, base, set)
<1> DEFINE F == {m \in Nat : ~\E f : AreDigits(f, m, base, set)}
<1>1. SUFFICES ASSUME F # {} PROVE FALSE
  OBVIOUS
<1>2. PICK x \in F : \A y \in F : x <= y
  <2> HIDE DEF F
  <2>1. F \subseteq Nat
    BY DEF F
  <2> QED
    BY <1>1, <2>1, LeastOf
<1>3. AreDigits([m \in 0 .. 0 |-> <<set[m + 1]>>], 0, base, set)
  BY DEF AreDigits, Base
<1>4. x # 0
  BY <1>3
<1>5. x - 1 \in Nat /\ x - 1 \notin F /\ (x - 1) + 1 = x
  BY <1>2, <1>4
<1>6. PICK f : AreDigits(f, x - 1, base, set)
  BY <1>5
<1>7. \E f2 : AreDigits(f2, x, base, set)
  BY <1>5, <1>6, DigitsExtend
<1> QED
  BY <1>7

\* and two of them agree where both are defined.
LEMMA DigitsUnique ==
  ASSUME NEW base \in Base, NEW set, NEW n \in Nat, NEW k \in Nat, NEW f, NEW g, n <= k,
         AreDigits(f, n, base, set), AreDigits(g, k, base, set)
  PROVE  \A m \in 0 .. n : f[m] = g[m]
<1> DEFINE F == {m \in 0 .. n : f[m] # g[m]}
<1>1. SUFFICES ASSUME F # {} PROVE FALSE
  OBVIOUS
<1>2. PICK x \in F : \A y \in F : x <= y
  <2> HIDE DEF F
  <2>1. F \subseteq Nat
    BY DEF F
  <2> QED
    BY <1>1, <2>1, LeastOf
<1>3. x \in 0 .. n /\ x \in 0 .. k /\ f[x] # g[x]
  OBVIOUS
<1>4. ~(x < base) => x \div base \in 0 .. x - 1
  BY <1>3, Quotient
<1>5. ~(x < base) => f[x \div base] = g[x \div base]
  <2>1. ~(x < base) => x \div base \in 0 .. n /\ x \div base < x
    BY <1>3, <1>4
  <2> QED
    BY <1>2, <2>1
<1>6. /\ f[x] = IF x < base THEN <<set[x + 1]>> ELSE Append(f[x \div base], set[(x % base) + 1])
      /\ g[x] = IF x < base THEN <<set[x + 1]>> ELSE Append(g[x \div base], set[(x % base) + 1])
  BY <1>3 DEF AreDigits
<1> QED
  BY <1>3, <1>5, <1>6

\* The text of a number is the text of its quotient and the last digit.
LEMMA DigitsStep ==
  ASSUME NEW base \in Base, NEW set, NEW v \in Nat
  PROVE  Digits(v, base, set) = IF v < base THEN <<set[v + 1]>>
                                ELSE Append(Digits(v \div base, base, set), set[(v % base) + 1])
<1> DEFINE Upto(n) == CHOOSE f : AreDigits(f, n, base, set)
           all == [n \in Nat |-> Upto(n)[n]]
           Text(g, m) == IF m < base THEN <<set[m + 1]>>
                         ELSE Append(g[m \div base], set[(m % base) + 1])
<1>1. ASSUME NEW n \in Nat PROVE AreDigits(Upto(n), n, base, set)
  BY DigitsExist
<1>2. ASSUME NEW n \in Nat, NEW m \in 0 .. n PROVE Upto(n)[m] = all[m]
  <2>1. m \in Nat /\ m <= n /\ all[m] = Upto(m)[m] /\ m \in 0 .. m
    OBVIOUS
  <2>2. AreDigits(Upto(n), n, base, set) /\ AreDigits(Upto(m), m, base, set)
    BY <1>1, <2>1
  <2> HIDE DEF Upto, all
  <2>3. \A j \in 0 .. m : Upto(m)[j] = Upto(n)[j]
    BY <2>1, <2>2, DigitsUnique
  <2> QED
    BY <2>1, <2>3
<1> HIDE DEF Upto
<1>3. ASSUME NEW n \in Nat PROVE all[n] = Text(all, n)
  <2>1. all[n] = Upto(n)[n] /\ n \in 0 .. n
    OBVIOUS
  <2>2. Upto(n)[n] = Text(Upto(n), n)
    BY <1>1, <2>1 DEF AreDigits
  <2> HIDE DEF all
  <2>3. ~(n < base) => n \div base \in 0 .. n
    BY Quotient
  <2>4. ~(n < base) => Upto(n)[n \div base] = all[n \div base]
    BY <1>2, <2>3
  <2>5. Text(Upto(n), n) = Text(all, n)
    BY <2>4
  <2> QED
    BY <2>1, <2>2, <2>5, Zenon
<1>4. all = [n \in Nat |-> all[n]]
  OBVIOUS
<1> HIDE DEF all
<1>5. all = [n \in Nat |-> Text(all, n)]
  <2> HIDE DEF Text
  <2> QED
    BY <1>3, <1>4
<1> DEFINE digits == CHOOSE g : g = [n \in Nat |-> Text(g, n)]
<1>6. digits = [n \in Nat |-> Text(digits, n)]
  BY <1>5
<1>7. \A w : Digits(w, base, set) = digits[w]
  BY DEF Digits
<1> HIDE DEF digits
<1>8. digits[v] = Text(digits, v)
  BY <1>6
<1> QED
  BY <1>7, <1>8

\* Every digit is a character.
LEMMA DigitChars ==
  /\ Digit \in [1 .. 16 -> Chars] /\ DigitUpper \in [1 .. 16 -> Chars]
  /\ \A k \in 1 .. 10 : Digit[k] \in Decimal /\ DigitValue(Digit[k]) = k - 1
  /\ \A c \in Decimal : DigitValue(c) \in 0 .. 9 /\ c \in Chars /\ c \notin {"+", "-"}
<1>1. Digit \in [1 .. 16 -> Chars] /\ DigitUpper \in [1 .. 16 -> Chars]
  <2>1. /\ Digit \in [1 .. 16 -> {"0", "1", "2", "3", "4", "5", "6", "7", "8", "9",
                                  "a", "b", "c", "d", "e", "f"}]
        /\ DigitUpper \in [1 .. 16 -> {"0", "1", "2", "3", "4", "5", "6", "7", "8", "9",
                                       "A", "B", "C", "D", "E", "F"}]
    BY DEF Digit, DigitUpper
  <2> QED
    BY <2>1 DEF Chars
<1>2. \A j, k \in 1 .. 10 : Digit[j] = Digit[k] => j = k
  BY DEF Digit
<1>3. ASSUME NEW k \in 1 .. 10 PROVE Digit[k] \in Decimal /\ DigitValue(Digit[k]) = k - 1
  <2>1. (CHOOSE j \in 1 .. 10 : Digit[j] = Digit[k]) = k
    BY <1>2
  <2> QED
    BY <2>1 DEF Decimal, DigitValue
<1>4. \A k \in 1 .. 10 : Digit[k] \notin {"+", "-"}
  BY DEF Digit
<1>5. ASSUME NEW c \in Decimal PROVE DigitValue(c) \in 0 .. 9 /\ c \in Chars /\ c \notin {"+", "-"}
  <2>1. PICK k \in 1 .. 10 : c = Digit[k]
    BY DEF Decimal
  <2> QED
    BY <1>1, <1>3, <1>4, <2>1
<1> QED
  BY <1>1, <1>3, <1>5

\* The text of a number is a text; in base 10 it has decimal digits only.
LEMMA DigitsText ==
  ASSUME NEW base \in Base, NEW set \in [1 .. 16 -> Chars], NEW v \in Nat
  PROVE  Digits(v, base, set) \in Seq(Chars) /\ Len(Digits(v, base, set)) > 0
<1> DEFINE IsText(n) == Digits(n, base, set) \in Seq(Chars) /\ Len(Digits(n, base, set)) > 0
           F == {n \in Nat : ~IsText(n)}
<1>1. SUFFICES ASSUME F # {} PROVE FALSE
  OBVIOUS
<1> HIDE DEF IsText
<1>2. PICK x \in F : \A y \in F : x <= y
  <2> HIDE DEF F
  <2>1. F \subseteq Nat
    BY DEF F
  <2> QED
    BY <1>1, <2>1, LeastOf
<1>3. x \in Nat /\ ~IsText(x)
  OBVIOUS
<1>4. CASE x < base
  <2>1. x + 1 \in 1 .. 16
    BY <1>3, <1>4 DEF Base
  <2>2. Digits(x, base, set) = <<set[x + 1]>>
    BY <1>3, <1>4, DigitsStep
  <2> QED
    BY <1>3, <2>1, <2>2 DEF IsText
<1>5. CASE ~(x < base)
  <2>1. x \div base \in 0 .. x - 1
    BY <1>3, <1>5, Quotient
  <2>2. IsText(x \div base)
    BY <1>2, <1>3, <2>1
  <2>3. (x % base) + 1 \in 1 .. 16
    BY <1>3 DEF Base
  <2>4. Digits(x, base, set) = Append(Digits(x \div base, base, set), set[(x % base) + 1])
    BY <1>3, <1>5, DigitsStep
  <2> QED
    BY <1>3, <2>2, <2>3, <2>4 DEF IsText
<1> QED
  BY <1>4, <1>5

----------------------------------------------------------------------------
(* The value of a text is a recursive function of its length.              *)

\* f[m] is the value of the first m digits of s, for all m up to n.
AreValues(f, s, n) ==
  f = [m \in 0 .. n |-> IF m = 0 THEN 0 ELSE 10 * f[m - 1] + DigitValue(s[m])]

\* Such a function extends to one more digit.
LEMMA ValuesExtend ==
  ASSUME NEW s, NEW n \in Nat, NEW f, AreValues(f, s, n)
  PROVE  \E longer : AreValues(longer, s, n + 1)
<1> DEFINE longer == [m \in 0 .. n + 1 |-> IF m <= n THEN f[m] ELSE 10 * f[n] + DigitValue(s[m])]
<1>1. longer = [m \in 0 .. n + 1 |-> IF m = 0 THEN 0 ELSE 10 * longer[m - 1] + DigitValue(s[m])]
  <2>1. ASSUME NEW m \in 0 .. n + 1
        PROVE  longer[m] = IF m = 0 THEN 0 ELSE 10 * longer[m - 1] + DigitValue(s[m])
    <3>1. CASE m = 0
      BY <3>1 DEF AreValues
    <3>2. CASE m \in 1 .. n
      <4>1. m - 1 \in 0 .. n + 1 /\ m - 1 <= n /\ m \in 0 .. n /\ m # 0
        BY <3>2
      <4>2. longer[m - 1] = f[m - 1] /\ longer[m] = f[m]
        BY <4>1
      <4>3. f[m] = 10 * f[m - 1] + DigitValue(s[m])
        BY <4>1 DEF AreValues
      <4> QED
        BY <4>1, <4>2, <4>3
    <3>3. CASE m = n + 1
      <4>1. n \in 0 .. n + 1 /\ ~(n + 1 <= n) /\ (n + 1) - 1 = n
        OBVIOUS
      <4> QED
        BY <3>3, <4>1
    <3> QED
      BY <3>1, <3>2, <3>3
  <2> HIDE DEF longer
  <2>2. longer = [m \in 0 .. n + 1 |-> longer[m]]
    BY DEF longer
  <2> QED
    BY <2>1, <2>2
<1> QED
  BY <1>1 DEF AreValues

\* So there is one for every number of digits,
LEMMA ValuesExist ==
  ASSUME NEW s, NEW n \in Nat
  PROVE  \E f : AreValues(f, s, n)
<1> DEFINE F == {m \in Nat : ~\E f : AreValues(f, s, m)}
<1>1. SUFFICES ASSUME F # {} PROVE FALSE
  OBVIOUS
<1>2. PICK x \in F : \A y \in F : x <= y
  <2> HIDE DEF F
  <2>1. F \subseteq Nat
    BY DEF F
  <2> QED
    BY <1>1, <2>1, LeastOf
<1>3. AreValues([m \in 0 .. 0 |-> 0], s, 0)
  BY DEF AreValues
<1>4. x # 0
  BY <1>3
<1>5. x - 1 \in Nat /\ x - 1 \notin F /\ (x - 1) + 1 = x
  BY <1>2, <1>4
<1>6. PICK f : AreValues(f, s, x - 1)
  BY <1>5
<1> QED
  BY <1>5, <1>6, ValuesExtend

SameDigits(s, r, n) == \A m \in 1 .. n : s[m] = r[m]

\* and it depends on these digits only.
LEMMA ValuesUnique ==
  ASSUME NEW s, NEW r, NEW n \in Nat, NEW f, NEW g,
         AreValues(f, s, n), AreValues(g, r, n + 1), SameDigits(s, r, n)
  PROVE  \A m \in 0 .. n : f[m] = g[m]
<1> DEFINE F == {m \in 0 .. n : f[m] # g[m]}
<1>1. SUFFICES ASSUME F # {} PROVE FALSE
  OBVIOUS
<1>2. PICK x \in F : \A y \in F : x <= y
  <2> HIDE DEF F
  <2>1. F \subseteq Nat
    BY DEF F
  <2> QED
    BY <1>1, <2>1, LeastOf
<1>3. x \in 0 .. n /\ x \in 0 .. n + 1 /\ f[x] # g[x]
  OBVIOUS
<1>4. x # 0
  BY <1>3 DEF AreValues
<1>5. x - 1 \in 0 .. n /\ x \in 1 .. n /\ f[x - 1] = g[x - 1]
  BY <1>2, <1>3, <1>4
<1>6. f[x] = 10 * f[x - 1] + DigitValue(s[x]) /\ g[x] = 10 * g[x - 1] + DigitValue(r[x])
  BY <1>3, <1>4 DEF AreValues
<1> QED
  BY <1>3, <1>5, <1>6 DEF SameDigits

\* Number is the last value of such a function.
LEMMA NumberValue ==
  ASSUME NEW S, NEW s \in Seq(S)
  PROVE  \E f : AreValues(f, s, Len(s)) /\ Number(s) = f[Len(s)]
<1>1. PICK f : AreValues(f, s, Len(s))
  BY ValuesExist
<1>2. f = [n \in 0 .. Len(s) |-> IF n = 0 THEN 0 ELSE 10 * f[n - 1] + DigitValue(s[n])]
  BY <1>1 DEF AreValues
<1>3. \E g : /\ g = [n \in 0 .. Len(s) |-> IF n = 0 THEN 0 ELSE 10 * g[n - 1] + DigitValue(s[n])]
             /\ Number(s) = g[Len(s)]
  BY <1>2 DEF Number
<1> QED
  BY <1>3 DEF AreValues

\* One more digit.
LEMMA NumberAppend ==
  /\ Number(<<>>) = 0
  /\ \A s \in Seq(Decimal), c \in Decimal : Number(Append(s, c)) = 10 * Number(s) + DigitValue(c)
<1>1. Number(<<>>) = 0
  <2>1. <<>> \in Seq(Decimal) /\ Len(<<>>) = 0
    OBVIOUS
  <2>2. PICK f : AreValues(f, <<>>, 0) /\ Number(<<>>) = f[0]
    BY <2>1, NumberValue
  <2> QED
    BY <2>2 DEF AreValues
<1>2. ASSUME NEW s \in Seq(Decimal), NEW c \in Decimal
      PROVE  Number(Append(s, c)) = 10 * Number(s) + DigitValue(c)
  <2> DEFINE n == Len(s)
             more == Append(s, c)
  <2>1. n \in Nat /\ more \in Seq(Decimal) /\ Len(more) = n + 1 /\ more[n + 1] = c
        /\ \A m \in 1 .. n : s[m] = more[m]
    OBVIOUS
  <2>2. PICK f : AreValues(f, s, n) /\ Number(s) = f[n]
    BY NumberValue
  <2>3. PICK g : AreValues(g, more, n + 1) /\ Number(more) = g[n + 1]
    BY <2>1, NumberValue
  <2>4. f[n] = g[n]
    <3>1. n \in Nat /\ n \in 0 .. n
      BY <2>1
    <3> HIDE DEF n, more
    <3>2. SameDigits(s, more, n)
      BY <2>1 DEF SameDigits
    <3>3. \A m \in 0 .. n : f[m] = g[m]
      BY <2>2, <2>3, <3>1, <3>2, ValuesUnique
    <3> QED
      BY <3>1, <3>3
  <2>5. g[n + 1] = 10 * g[n] + DigitValue(more[n + 1])
    <3>1. n + 1 \in 0 .. n + 1 /\ n + 1 # 0 /\ (n + 1) - 1 = n
      BY <2>1
    <3> HIDE DEF n, more
    <3> QED
      BY <2>3, <3>1 DEF AreValues
  <2> QED
    BY <2>1, <2>2, <2>3, <2>4, <2>5
<1> QED
  BY <1>1, <1>2

\* The width of a directive is a natural number.
LEMMA NumberNat ==
  ASSUME NEW s \in Seq(Decimal)
  PROVE  Number(s) \in Nat
<1>1. PICK f : AreValues(f, s, Len(s)) /\ Number(s) = f[Len(s)]
  BY NumberValue
<1> DEFINE F == {m \in 0 .. Len(s) : f[m] \notin Nat}
<1>2. SUFFICES ASSUME F # {} PROVE FALSE
  BY <1>1
<1>3. PICK x \in F : \A y \in F : x <= y
  <2> HIDE DEF F
  <2>1. F \subseteq Nat
    BY DEF F
  <2> QED
    BY <1>2, <2>1, LeastOf
<1>4. x \in 0 .. Len(s) /\ f[x] \notin Nat
  OBVIOUS
<1>5. x # 0
  BY <1>1, <1>4 DEF AreValues
<1>6. x - 1 \in 0 .. Len(s) /\ x \in 1 .. Len(s) /\ f[x - 1] \in Nat
  BY <1>3, <1>4, <1>5
<1>7. f[x] = 10 * f[x - 1] + DigitValue(s[x])
  BY <1>1, <1>4, <1>5 DEF AreValues
<1>8. DigitValue(s[x]) \in Nat
  <2>1. s[x] \in Decimal
    BY <1>6
  <2>2. DigitValue(s[x]) \in 0 .. 9
    BY <2>1, DigitChars
  <2> QED
    BY <2>2
<1> QED
  BY <1>4, <1>6, <1>7, <1>8

\* The decimal text of a number has its value.
LEMMA DecimalValue ==
  ASSUME NEW v \in Nat
  PROVE  Digits(v, 10, Digit) \in Seq(Decimal) /\ Number(Digits(v, 10, Digit)) = v
<1> DEFINE Good(n) == Digits(n, 10, Digit) \in Seq(Decimal) /\ Number(Digits(n, 10, Digit)) = n
           F == {n \in Nat : ~Good(n)}
<1>0. 10 \in Base
  BY DEF Base
<1>1. SUFFICES ASSUME F # {} PROVE FALSE
  OBVIOUS
<1> HIDE DEF Good
<1>2. PICK x \in F : \A y \in F : x <= y
  <2> HIDE DEF F
  <2>1. F \subseteq Nat
    BY DEF F
  <2> QED
    BY <1>1, <2>1, LeastOf
<1>3. x \in Nat /\ ~Good(x)
  OBVIOUS
<1>4. CASE x < 10
  <2>1. x + 1 \in 1 .. 10 /\ (x + 1) - 1 = x
    BY <1>3, <1>4
  <2>2. Digits(x, 10, Digit) = <<Digit[x + 1]>>
    BY <1>0, <1>3, <1>4, DigitsStep
  <2>3. Digit[x + 1] \in Decimal /\ DigitValue(Digit[x + 1]) = x
    BY <2>1, DigitChars
  <2>4. <<Digit[x + 1]>> = Append(<<>>, Digit[x + 1]) /\ <<>> \in Seq(Decimal)
    OBVIOUS
  <2>5. Number(<<Digit[x + 1]>>) = 10 * 0 + x
    BY <2>3, <2>4, NumberAppend
  <2>6. Digits(x, 10, Digit) \in Seq(Decimal)
    <3> HIDE DEF F, Decimal
    <3>1. Append(<<>>, Digit[x + 1]) \in Seq(Decimal)
      BY <2>3, <2>4
    <3> QED
      BY <2>2, <2>4, <3>1
  <2>7. Number(Digits(x, 10, Digit)) = x
    BY <1>3, <2>2, <2>5
  <2> QED
    BY <1>3, <2>6, <2>7 DEF Good
<1>5. CASE ~(x < 10)
  <2>1. x \div 10 \in 0 .. x - 1
    BY <1>0, <1>3, <1>5, Quotient
  <2>2. Good(x \div 10)
    BY <1>2, <1>3, <2>1
  <2>3. (x % 10) + 1 \in 1 .. 10 /\ 10 * (x \div 10) + (x % 10) = x
    BY <1>3
  <2>4. Digits(x, 10, Digit) = Append(Digits(x \div 10, 10, Digit), Digit[(x % 10) + 1])
    BY <1>0, <1>3, <1>5, DigitsStep
  <2>5. Digit[(x % 10) + 1] \in Decimal /\ DigitValue(Digit[(x % 10) + 1]) = x % 10
    BY <2>3, DigitChars
  <2>6. Number(Digits(x, 10, Digit)) = 10 * (x \div 10) + (x % 10)
    BY <2>2, <2>4, <2>5, NumberAppend DEF Good
  <2>7. Digits(x, 10, Digit) \in Seq(Decimal)
    BY <2>2, <2>4, <2>5 DEF Good
  <2> QED
    BY <1>3, <2>3, <2>6, <2>7 DEF Good
<1> QED
  BY <1>4, <1>5

----------------------------------------------------------------------------
(* Numbers that are printed are read back.                                 *)

\* The remainders that occur: of numbers within one modulus of 0.
LEMMA Remainder ==
  ASSUME NEW m \in Nat \ {0}, NEW x \in -m .. m - 1
  PROVE  x % m = IF x >= 0 THEN x ELSE x + m
OBVIOUS

\* What wrapping does to the numbers that occur.
LEMMA WrapInt ==
  ASSUME FormatAssumption
  PROVE  /\ Modulus \in Nat \ {0} /\ Modulus = 2 * INT_MAX + 2 /\ INT_MAX \in Nat
         /\ \A x \in Int : Wrap(x) \in Nat
         /\ \A x \in 0 .. INT_MAX + 1 : Wrap(x) = x
         /\ \A x \in -(INT_MAX + 1) .. INT_MAX : Int_(x) = x
<1>1. Modulus \in Nat \ {0} /\ Modulus = 2 * INT_MAX + 2 /\ INT_MAX \in Nat
  BY DEF FormatAssumption, Modulus
<1>2. ASSUME NEW x \in Int PROVE Wrap(x) \in Nat
  <2> HIDE DEF Modulus
  <2> QED
    BY <1>1 DEF Wrap
<1>3. ASSUME NEW x \in -Modulus .. Modulus - 1 PROVE Wrap(x) = IF x >= 0 THEN x ELSE x + Modulus
  BY <1>1, Remainder DEF Wrap
<1>4. ASSUME NEW x \in 0 .. INT_MAX + 1 PROVE Wrap(x) = x
  <2>1. x \in -Modulus .. Modulus - 1 /\ x >= 0
    BY <1>1
  <2> QED
    BY <1>3, <2>1
<1>5. ASSUME NEW x \in -(INT_MAX + 1) .. INT_MAX PROVE Int_(x) = x
  <2>1. x \in -Modulus .. Modulus - 1
    BY <1>1
  <2>2. Wrap(x) = IF x >= 0 THEN x ELSE x + Modulus
    BY <1>3, <2>1
  <2>3. CASE x >= 0
    BY <1>1, <2>2, <2>3 DEF Int_
  <2>4. CASE x < 0
    <3>1. Wrap(x) = x + Modulus /\ ~(x + Modulus <= INT_MAX)
      BY <1>1, <2>2, <2>4
    <3> QED
      BY <1>1, <3>1 DEF Int_
  <2> QED
    BY <2>3, <2>4
<1> QED
  BY <1>1, <1>2, <1>4, <1>5

\* Skip stops at the first character that is not in C.
LEMMA SkipStops ==
  ASSUME NEW S, NEW f \in Seq(S), NEW q \in 1 .. Len(f) + 1, NEW C
  PROVE  LET r == Skip(f, q, C)
         IN  /\ r \in q .. Len(f) + 1 /\ (r = Len(f) + 1 \/ f[r] \notin C)
             /\ \A k \in q .. r - 1 : f[k] \in C
<1> DEFINE Stop(r) == /\ r = Len(f) + 1 \/ f[r] \notin C
                      /\ \A k \in q .. r - 1 : f[k] \in C
           F == {r \in q .. Len(f) + 1 : r = Len(f) + 1 \/ f[r] \notin C}
<1>1. F \subseteq Nat /\ Len(f) + 1 \in F
  OBVIOUS
<1>2. PICK x \in F : \A y \in F : x <= y
  <2> HIDE DEF F
  <2> QED
    BY <1>1, LeastOf
<1>3. \A k \in q .. x - 1 : f[k] \in C
  BY <1>2
<1>4. \E r \in q .. Len(f) + 1 : Stop(r)
  BY <1>3
<1>5. Skip(f, q, C) = CHOOSE r \in q .. Len(f) + 1 : Stop(r)
  BY DEF Skip
<1> HIDE DEF Stop
<1>6. Skip(f, q, C) \in q .. Len(f) + 1 /\ Stop(Skip(f, q, C))
  BY <1>4, <1>5
<1> QED
  BY <1>6 DEF Stop

\* A sign is a text.
LEMMA SignText == <<"-">> \in Seq(Chars) /\ Len(<<"-">>) = 1 /\ <<"-">>[1] = "-"
BY DEF Chars

\* No digit is a sign or white space.
LEMMA DigitApart == \A c \in Decimal : c \notin {"+", "-"} /\ c \notin u_isspace_ch
<1>1. Decimal \subseteq {"0", "1", "2", "3", "4", "5", "6", "7", "8", "9"}
  BY DEF Decimal, Digit
<1> QED
  BY <1>1 DEF u_isspace_ch

\* The magnitude of a number between the limits.
LEMMA Magnitude ==
  ASSUME NEW M \in Nat, NEW v \in -(M + 1) .. M
  PROVE  (IF v < 0 THEN -v ELSE v) \in 0 .. M + 1 /\ (IF v < 0 THEN -v ELSE v) \in Nat
OBVIOUS

\* A position that is not behind the end is before it.
LEMMA BeforeEnd ==
  ASSUME NEW l \in Nat, NEW q \in Nat, NEW r \in q .. l + 1, r # l + 1
  PROVE  r \in q .. l
OBVIOUS

\* A number that u_itoa wrote is read back from where it stands in a text, also
\* the most negative one.
LEMMA SignedReads ==
  ASSUME FormatAssumption, NEW v \in -(INT_MAX + 1) .. INT_MAX, NEW o \in Nat, NEW t \in Seq(Chars),
         Len(t) = o + Len(u_itoa(v)), \A k \in 1 .. Len(u_itoa(v)) : t[o + k] = u_itoa(v)[k]
  PROVE  Signed(t, o + 1) = v /\ o + 1 \in 1 .. Len(t) /\ t[o + 1] \notin u_isspace_ch
<1>1. INT_MAX \in Nat
  BY WrapInt
<1> DEFINE m == IF v < 0 THEN -v ELSE v
           d == Digits(m, 10, Digit)
           s == u_itoa(v)
           q == IF v < 0 THEN o + 2 ELSE o + 1
<1>2. m \in 0 .. INT_MAX + 1 /\ m \in Nat /\ Wrap(m) = m
  <2>1. m \in 0 .. INT_MAX + 1 /\ m \in Nat
    BY <1>1, Magnitude, Zenon
  <2> HIDE DEF m
  <2> QED
    BY <2>1, WrapInt, Zenon
<1>3. d \in Seq(Decimal) /\ Number(d) = m /\ Len(d) > 0 /\ Len(d) \in Nat
  <2>1. 10 \in Base /\ Digit \in [1 .. 16 -> Chars]
    BY DigitChars DEF Base
  <2>2. d \in Seq(Decimal) /\ Number(d) = m /\ Len(d) > 0
    BY <1>2, <2>1, DecimalValue, DigitsText
  <2> HIDE DEF d
  <2> QED
    BY <2>2
<1>4. s = IF v < 0 THEN <<"-">> \o d ELSE d
  BY <1>2 DEF u_itoa
<1>5. Len(t) = o + Len(s) /\ \A k \in 1 .. Len(s) : t[o + k] = s[k]
  OBVIOUS
<1>q. q \in Nat /\ (v < 0 => q = o + 2) /\ (~(v < 0) => q = o + 1)
  OBVIOUS
<1> HIDE DEF d, s, q
<1>6. d \in Seq(Chars)
  BY <1>3, DigitChars
<1>7. /\ Len(t) = (q - 1) + Len(d)
      /\ \A k \in 1 .. Len(d) : t[(q - 1) + k] = d[k]
      /\ v < 0 => t[o + 1] = "-"
  <2>1. CASE v < 0
    <3>1. <<"-">> \in Seq(Chars) /\ Len(<<"-">>) = 1 /\ <<"-">>[1] = "-"
      BY SignText
    <3>2. s = <<"-">> \o d
      BY <1>4, <2>1
    <3>3. /\ Len(s) = 1 + Len(d)
          /\ \A k \in 1 .. 1 + Len(d) : s[k] = IF k <= 1 THEN <<"-">>[k] ELSE d[k - 1]
      BY <1>6, <3>1, <3>2, ConcatProperties
    <3>4. t[o + 1] = "-"
      BY <1>3, <1>5, <3>1, <3>3
    <3>5. ASSUME NEW k \in 1 .. Len(d) PROVE t[(q - 1) + k] = d[k]
      <4>1. k + 1 \in 1 .. Len(s) /\ (q - 1) + k = o + (k + 1) /\ (k + 1) - 1 = k /\ ~(k + 1 <= 1)
        BY <1>3, <1>q, <2>1, <3>3
      <4> QED
        BY <1>3, <1>5, <3>3, <4>1
    <3>6. Len(t) = (q - 1) + Len(d)
      <4>1. Len(t) = o + (1 + Len(d)) /\ q = o + 2
        BY <1>5, <1>q, <2>1, <3>3
      <4> QED
        BY <1>3, <4>1
    <3> QED
      BY <3>4, <3>5, <3>6
  <2>2. CASE ~(v < 0)
    <3>1. s = d /\ q - 1 = o
      BY <1>4, <1>q, <2>2
    <3> QED
      BY <1>5, <2>2, <3>1
  <2> QED
    BY <2>1, <2>2
<1>8. q \in 1 .. Len(t) /\ o + 1 \in 1 .. Len(t) /\ Len(t) \in Nat
  BY <1>3, <1>7, <1>q
<1>9. ASSUME NEW j \in q .. Len(t) PROVE t[j] \in Decimal
  <2>1. j - (q - 1) \in 1 .. Len(d) /\ (q - 1) + (j - (q - 1)) = j
    BY <1>3, <1>7, <1>8
  <2>2. t[j] = d[j - (q - 1)]
    BY <1>7, <2>1
  <2> QED
    BY <1>3, <2>1, <2>2
<1>10. Skip(t, q, Decimal) = Len(t) + 1
  <2>1. /\ Skip(t, q, Decimal) \in q .. Len(t) + 1
        /\ Skip(t, q, Decimal) = Len(t) + 1 \/ t[Skip(t, q, Decimal)] \notin Decimal
    <3>1. q \in 1 .. Len(t) + 1
      BY <1>8
    <3> QED
      BY <3>1, SkipStops
  <2> DEFINE r == Skip(t, q, Decimal)
  <2> HIDE DEF r
  <2>2. r \in q .. Len(t) + 1 /\ (r = Len(t) + 1 \/ t[r] \notin Decimal)
    BY <2>1 DEF r
  <2>3. r # Len(t) + 1 => r \in q .. Len(t)
    BY <1>q, <1>8, <2>2, BeforeEnd, Zenon
  <2>4. r = Len(t) + 1
    BY <1>9, <2>2, <2>3
  <2> QED
    BY <2>4 DEF r
<1>11. SubSeq(t, q, Len(t)) = d
  <2>1. SubSeq(t, q, Len(t)) = [k \in 1 .. Len(t) - q + 1 |-> t[k + q - 1]]
    BY <1>8
  <2>2. d = [k \in 1 .. Len(d) |-> d[k]]
    BY <1>3
  <2> DEFINE n == Len(d)
             l == Len(t)
  <2> HIDE DEF n, l
  <2>n. n \in Nat /\ l \in Nat /\ q \in Nat /\ l = (q - 1) + n
    BY <1>3, <1>7, <1>8, <1>q DEF n, l
  <2>m. l - q + 1 = n /\ \A k \in 1 .. n : k + q - 1 = (q - 1) + k
    BY <2>n
  <2>3. Len(t) - q + 1 = Len(d) /\ \A k \in 1 .. Len(d) : k + q - 1 = (q - 1) + k
    BY <2>m DEF n, l
  <2>4. \A k \in 1 .. Len(d) : t[k + q - 1] = d[k]
    BY <1>7, <2>3
  <2> QED
    BY <2>1, <2>2, <2>3, <2>4
<1>12. At(t, o + 1) = t[o + 1] /\ (Len(t) + 1) - 1 = Len(t)
  BY <1>8 DEF At
<1>13. CASE v < 0
  <2>1. q = (o + 1) + 1 /\ t[o + 1] = "-"
    BY <1>7, <1>13, <1>q
  <2>2. Signed(t, o + 1) = Int_(-m)
    BY <1>3, <1>10, <1>11, <1>12, <2>1 DEF Signed
  <2>3. -m = v /\ "-" \notin u_isspace_ch
    BY <1>13 DEF u_isspace_ch
  <2> QED
    BY <1>8, <2>1, <2>2, <2>3, WrapInt
<1>14. CASE ~(v < 0)
  <2>1. q = o + 1 /\ m = v
    BY <1>14, <1>q
  <2>2. t[o + 1] \in Decimal
    BY <1>8, <1>9, <2>1
  <2>3. t[o + 1] \notin {"+", "-"} /\ t[o + 1] \notin u_isspace_ch
    BY <2>2, DigitApart
  <2>4. Signed(t, o + 1) = Int_(m)
    BY <1>3, <1>10, <1>11, <1>12, <2>1, <2>3 DEF Signed
  <2>5. Int_(v) = v
    BY WrapInt
  <2> QED
    BY <1>8, <2>1, <2>3, <2>4, <2>5
<1> QED
  BY <1>13, <1>14

----------------------------------------------------------------------------
(* What a directive prints is a text.                                      *)

\* Padding is a text, also when the field is wider than its width.
LEMMA PadText ==
  ASSUME NEW c \in Chars, NEW n \in Int, NEW text \in Seq(Chars)
  PROVE  Pad(c, n, text) \in Seq(Chars)
<1> DEFINE m == n - Len(text)
<1>1. m \in Int
  OBVIOUS
<1> HIDE DEF m
<1>2. CASE m >= 0
  <2>1. m \in Nat
    BY <1>1, <1>2
  <2>2. [k \in 1 .. m |-> c] \in Seq(Chars)
    BY <2>1
  <2> QED
    BY <2>2 DEF Pad, Rep, m
<1>3. CASE m < 0
  <2>1. 1 .. m = 1 .. 0
    BY <1>1, <1>3
  <2>2. [k \in 1 .. 0 |-> c] \in Seq(Chars)
    OBVIOUS
  <2> QED
    BY <2>1, <2>2 DEF Pad, Rep, m
<1> QED
  BY <1>1, <1>2, <1>3

\* Padding is nothing but its character.
LEMMA PadChars ==
  ASSUME NEW c \in Chars, NEW n \in Int, NEW text \in Seq(Chars)
  PROVE  \A k \in 1 .. Len(Pad(c, n, text)) : Pad(c, n, text)[k] = c
<1> DEFINE m == n - Len(text)
           pad == [k \in 1 .. m |-> c]
<1>1. m \in Int /\ Pad(c, n, text) = pad
  BY DEF Pad, Rep
<1> HIDE DEF m
<1>2. pad \in Seq(Chars)
  BY <1>1, PadText
<1>3. DOMAIN pad = 1 .. Len(pad) /\ DOMAIN pad = 1 .. m
  <2>1. DOMAIN pad = 1 .. m
    OBVIOUS
  <2> HIDE DEF pad
  <2> QED
    BY <1>2, <2>1, LenProperties
<1>4. \A k \in 1 .. m : pad[k] = c
  OBVIOUS
<1> HIDE DEF pad
<1> QED
  BY <1>1, <1>3, <1>4

\* The text of a number.
LEMMA ItoaText ==
  ASSUME FormatAssumption, NEW v \in -(INT_MAX + 1) .. INT_MAX
  PROVE  u_itoa(v) \in Seq(Chars)
<1>1. 10 \in Base /\ Digit \in [1 .. 16 -> Chars] /\ Wrap(v) \in Nat /\ Wrap(-v) \in Nat
  BY DigitChars, WrapInt DEF Base
<1>2. Digits(Wrap(v), 10, Digit) \in Seq(Chars) /\ Digits(Wrap(-v), 10, Digit) \in Seq(Chars)
  BY <1>1, DigitsText
<1>3. <<"-">> \in Seq(Chars)
  BY DEF Chars
<1> QED
  BY <1>2, <1>3, ConcatProperties DEF u_itoa

\* u_atol reads a number behind blanks, the shell's reader one without.
LEMMA ReadBack ==
  ASSUME FormatAssumption, NEW v \in -(INT_MAX + 1) .. INT_MAX
  PROVE  /\ shell_atoi(u_itoa(v)) = v
         /\ \A w \in Int : u_atol(Pad(" ", w, u_itoa(v)) \o u_itoa(v)) = v
<1> DEFINE s == u_itoa(v)
<1>1. s \in Seq(Chars) /\ Len(s) \in Nat
  <2>1. s \in Seq(Chars)
    BY ItoaText
  <2> HIDE DEF s
  <2> QED
    BY <2>1
<1>2. shell_atoi(s) = v
  <2>1. Len(s) = 0 + Len(s) /\ \A k \in 1 .. Len(s) : s[0 + k] = s[k]
    BY <1>1
  <2>2. Signed(s, 0 + 1) = v
    BY <1>1, <2>1, SignedReads
  <2> QED
    BY <2>2 DEF shell_atoi
<1>3. ASSUME NEW w \in Int PROVE u_atol(Pad(" ", w, s) \o s) = v
  <2> DEFINE blanks == Pad(" ", w, s)
             o == Len(blanks)
             t == blanks \o s
  <2>1. " " \in Chars
    BY DEF Chars
  <2>2. blanks \in Seq(Chars) /\ \A k \in 1 .. Len(blanks) : blanks[k] = " "
    <3> HIDE DEF s
    <3> QED
      BY <1>1, <2>1, PadText, PadChars
  <2> HIDE DEF blanks
  <2>3. o \in Nat
    BY <2>2, LenProperties
  <2> HIDE DEF s
  <2>4. /\ t \in Seq(Chars) /\ Len(t) = o + Len(s)
        /\ \A k \in 1 .. o + Len(s) : t[k] = IF k <= o THEN blanks[k] ELSE s[k - o]
    BY <1>1, <2>2, ConcatProperties
  <2> HIDE DEF t, o
  <2>5. ASSUME NEW k \in 1 .. Len(s) PROVE t[o + k] = s[k]
    <3>1. o + k \in 1 .. o + Len(s) /\ ~(o + k <= o) /\ (o + k) - o = k
      BY <1>1, <2>3
    <3> QED
      BY <2>4, <3>1
  <2>6. Signed(t, o + 1) = v /\ o + 1 \in 1 .. Len(t) /\ t[o + 1] \notin u_isspace_ch
    BY <2>3, <2>4, <2>5, SignedReads DEF s
  <2>7. ASSUME NEW k \in 1 .. o PROVE t[k] \in u_isspace_ch
    <3>1. k \in 1 .. o + Len(s) /\ k <= o
      BY <1>1, <2>3
    <3>2. t[k] = " "
      BY <2>2, <2>4, <3>1 DEF o
    <3> QED
      BY <3>2 DEF u_isspace_ch
  <2>8. Skip(t, 1, u_isspace_ch) = o + 1
    <3> DEFINE r == Skip(t, 1, u_isspace_ch)
    <3>1. 1 \in 1 .. Len(t) + 1
      BY <2>3, <2>6
    <3>2. /\ r \in 1 .. Len(t) + 1 /\ (r = Len(t) + 1 \/ t[r] \notin u_isspace_ch)
          /\ \A k \in 1 .. r - 1 : t[k] \in u_isspace_ch
      BY <2>4, <3>1, SkipStops
    <3> HIDE DEF r
    <3>3. ~(r <= o)
      <4>1. r <= o => r \in 1 .. o /\ r # Len(t) + 1
        BY <2>3, <2>6, <3>2
      <4> QED
        BY <2>7, <3>2, <4>1
    <3>4. ~(o + 1 < r)
      <4>1. o + 1 < r => o + 1 \in 1 .. r - 1
        BY <2>3, <3>2
      <4> QED
        BY <2>6, <3>2, <4>1
    <3>5. r = o + 1
      BY <2>3, <3>2, <3>3, <3>4
    <3> QED
      BY <3>5 DEF r
  <2> QED
    BY <2>6, <2>8 DEF u_atol, t, blanks
<1> QED
  BY <1>2, <1>3

\* The character at a position, or the terminator.
LEMMA AtChar ==
  ASSUME NEW f \in Seq(STRING), NEW q
  PROVE  At(f, q) \in Chars /\ (At(f, q) # EOS => q \in 1 .. Len(f))
<1>1. q \in 1 .. Len(f) => f[q] \in STRING
  OBVIOUS
<1>2. EOS \in Chars
  BY DEF Chars
<1> QED
  BY <1>1, <1>2 DEF At, Chars

\* The width is read from digits.
LEMMA WidthNat ==
  ASSUME NEW f \in Seq(STRING), NEW w \in 1 .. Len(f) + 1
  PROVE  Number(SubSeq(f, w, Skip(f, w, Decimal) - 1)) \in Nat
<1> DEFINE e == Skip(f, w, Decimal)
<1>1. e \in w .. Len(f) + 1 /\ \A k \in w .. e - 1 : f[k] \in Decimal
  BY SkipStops
<1> HIDE DEF e
<1>2. SubSeq(f, w, e - 1) \in Seq(Decimal)
  <2>1. SubSeq(f, w, e - 1) = [i \in 1 .. e - w |-> f[i + w - 1]]
    BY <1>1
  <2>2. e - w \in Nat /\ \A i \in 1 .. e - w : i + w - 1 \in w .. e - 1
    BY <1>1
  <2>3. [i \in 1 .. e - w |-> f[i + w - 1]] \in Seq(Decimal)
    BY <1>1, <2>2
  <2> QED
    BY <2>1, <2>3
<1> QED
  BY <1>2, NumberNat DEF e

\* Both readers of directives find a width and a character.
LEMMA DirectiveFound ==
  ASSUME NEW f \in Seq(STRING), NEW q \in 1 .. Len(f) + 1
  PROVE  /\ u_directive(f, q).width \in Nat /\ u_directive(f, q).spec \in Chars
         /\ log_directive(f, q).width \in Nat /\ log_directive(f, q).spec \in Chars
<1>1. u_directive(f, q).width \in Nat
  <2>1. Skip(f, q, {"-", "0"}) \in 1 .. Len(f) + 1
    <3>1. Skip(f, q, {"-", "0"}) \in q .. Len(f) + 1
      BY SkipStops
    <3> QED
      BY <3>1
  <2> QED
    BY <2>1, WidthNat DEF u_directive
<1>2. u_directive(f, q).spec \in Chars
  BY AtChar DEF u_directive
<1>3. log_directive(f, q).width \in Nat
  <2> DEFINE w == IF At(f, q) = "0" THEN q + 1 ELSE q
  <2>1. At(f, q) = "0" => q \in 1 .. Len(f)
    BY AtChar DEF EOS
  <2>2. w \in 1 .. Len(f) + 1
    BY <2>1
  <2>3. log_directive(f, q).width = Number(SubSeq(f, w, Skip(f, w, Decimal) - 1))
    BY DEF log_directive
  <2> QED
    BY <2>2, <2>3, WidthNat
<1>4. log_directive(f, q).spec \in Chars
  BY AtChar DEF log_directive
<1> QED
  BY <1>1, <1>2, <1>3, <1>4

\* The digits of a printed number, in the bases of the formatters.
LEMMA NumberText ==
  ASSUME FormatAssumption, NEW v \in Values
  PROVE  /\ Digits(Wrap(v), 10, Digit) \in Seq(Chars) /\ Digits(Wrap(-v), 10, Digit) \in Seq(Chars)
         /\ Digits(Wrap(v), 16, Digit) \in Seq(Chars) /\ Digits(Wrap(v), 16, DigitUpper) \in Seq(Chars)
         /\ v >= 0 => Digits(v, 10, Digit) \in Seq(Chars)
<1>1. v \in Int /\ -v \in Int
  BY DEF FormatAssumption
<1>2. Wrap(v) \in Nat /\ Wrap(-v) \in Nat /\ (v >= 0 => v \in Nat)
  BY <1>1, WrapInt
<1>3. 10 \in Base /\ 16 \in Base
  BY DEF Base
<1>4. Digit \in [1 .. 16 -> Chars] /\ DigitUpper \in [1 .. 16 -> Chars]
  BY DigitChars
<1> QED
  BY <1>2, <1>3, <1>4, DigitsText

\* Texts the formatters put in front or print themselves.
LEMMA ConstantText ==
  /\ <<"-">> \in Seq(Chars) /\ <<"0", "x">> \in Seq(Chars) /\ <<"c">> \in Seq(Chars)
  /\ "0" \in Chars /\ " " \in Chars /\ "%" \in Chars
  /\ \A c \in Chars : <<c>> \in Seq(Chars) /\ <<"%", c>> \in Seq(Chars)
<1>1. /\ "-" \in Chars /\ "0" \in Chars /\ "x" \in Chars /\ "c" \in Chars
      /\ " " \in Chars /\ "%" \in Chars
  BY DEF Chars
<1> HIDE DEF Chars
<1>2. ASSUME NEW c \in Chars PROVE <<c>> \in Seq(Chars)
  OBVIOUS
<1>3. ASSUME NEW b \in Chars, NEW c \in Chars PROVE <<b, c>> \in Seq(Chars)
  OBVIOUS
<1> QED
  BY <1>1, <1>2, <1>3

\* Joining texts.
LEMMA JoinText ==
  ASSUME NEW s \in Seq(Chars), NEW t \in Seq(Chars)
  PROVE  s \o t \in Seq(Chars)
OBVIOUS

\* A sequence over a set is one over a larger set.
LEMMA WiderSeq ==
  ASSUME NEW S, NEW T, S \subseteq T, NEW s \in Seq(S)
  PROVE  s \in Seq(T)
OBVIOUS

\* What the directive of the log prints.
LEMMA LogFieldText ==
  ASSUME FormatAssumption, NEW d, d.width \in Nat, d.spec \in Known,
         NEW v \in Values, NEW s \in Seq(Chars)
  PROVE  log_field(d, v, s) \in Seq(Chars)
<1> DEFINE fill == IF d.zero THEN "0" ELSE " "
           Padded(width, text) == Pad(fill, width, text) \o text
<1>1. ASSUME NEW width \in Int, NEW text \in Seq(Chars) PROVE Padded(width, text) \in Seq(Chars)
  <2>1. fill \in Chars
    BY ConstantText
  <2> HIDE DEF fill
  <2> QED
    BY <2>1, PadText, JoinText
<1>2. d.width \in Int /\ d.width - 1 \in Int
  OBVIOUS
<1>3. v \in Int
  BY DEF FormatAssumption
<1>4. log_field(d, v, s) =
        CASE d.spec = "d" -> IF v < 0 THEN <<"-">> \o Padded(d.width - 1, Digits(Wrap(-v), 10, Digit))
                             ELSE Padded(d.width, Digits(v, 10, Digit))
          [] d.spec = "u" -> Padded(d.width, Digits(Wrap(v), 10, Digit))
          [] d.spec = "x" -> Padded(d.width, Digits(Wrap(v), 16, Digit))
          [] d.spec = "X" -> Padded(d.width, Digits(Wrap(v), 16, DigitUpper))
          [] d.spec = "p" -> <<"0", "x">> \o Digits(Wrap(v), 16, Digit)
          [] d.spec = "c" -> <<"c">>
          [] d.spec = "s" -> s
  BY DEF log_field
<1> HIDE DEF Padded
<1>5. CASE d.spec = "d"
  <2>1. CASE v < 0
    <3>1. <<"-">> \o Padded(d.width - 1, Digits(Wrap(-v), 10, Digit)) \in Seq(Chars)
      BY <1>1, <1>2, NumberText, ConstantText, JoinText
    <3> QED
      BY <1>4, <1>5, <2>1, <3>1
  <2>2. CASE ~(v < 0)
    <3>1. Padded(d.width, Digits(v, 10, Digit)) \in Seq(Chars)
      BY <1>1, <1>2, <1>3, <2>2, NumberText
    <3> QED
      BY <1>4, <1>5, <2>2, <3>1
  <2> QED
    BY <2>1, <2>2
<1>6. CASE d.spec = "u"
  <2>1. Padded(d.width, Digits(Wrap(v), 10, Digit)) \in Seq(Chars)
    BY <1>1, <1>2, NumberText
  <2> QED
    BY <1>4, <1>6, <2>1
<1>7. CASE d.spec = "x"
  <2>1. Padded(d.width, Digits(Wrap(v), 16, Digit)) \in Seq(Chars)
    BY <1>1, <1>2, NumberText
  <2> QED
    BY <1>4, <1>7, <2>1
<1>8. CASE d.spec = "X"
  <2>1. Padded(d.width, Digits(Wrap(v), 16, DigitUpper)) \in Seq(Chars)
    BY <1>1, <1>2, NumberText
  <2> QED
    BY <1>4, <1>8, <2>1
<1>9. CASE d.spec = "p"
  <2>1. <<"0", "x">> \o Digits(Wrap(v), 16, Digit) \in Seq(Chars)
    BY NumberText, ConstantText, JoinText
  <2> QED
    BY <1>4, <1>9, <2>1
<1>10. CASE d.spec = "c"
  BY <1>4, <1>10, ConstantText
<1>11. CASE d.spec = "s"
  BY <1>4, <1>11
<1> QED
  BY <1>5, <1>6, <1>7, <1>8, <1>9, <1>10, <1>11 DEF Known

\* What the directive of the user's formatter prints.
LEMMA UserFieldText ==
  ASSUME FormatAssumption, NEW d, d.width \in Nat, d.spec \in Known,
         NEW v \in Values, NEW s \in Seq(Chars)
  PROVE  u_field(d, v, s) \in Seq(Chars)
<1> DEFINE text == CASE d.spec = "d" -> u_itoa(v)
                     [] d.spec = "u" -> Digits(Wrap(v), 10, Digit)
                     [] d.spec = "x" -> Digits(Wrap(v), 16, Digit)
                     [] d.spec = "X" -> Digits(Wrap(v), 16, DigitUpper)
                     [] d.spec = "p" -> <<"0", "x">> \o Digits(Wrap(v), 16, Digit)
                     [] d.spec = "c" -> <<"c">>
                     [] d.spec = "s" -> s
           fill == IF d.zero /\ d.spec \notin {"s", "p"} THEN "0" ELSE " "
<1>1. u_itoa(v) \in Seq(Chars)
  <2>1. <<"-">> \o Digits(Wrap(-v), 10, Digit) \in Seq(Chars)
    BY NumberText, ConstantText, JoinText
  <2> QED
    BY <2>1, NumberText DEF u_itoa
<1>2. <<"0", "x">> \o Digits(Wrap(v), 16, Digit) \in Seq(Chars)
  BY NumberText, ConstantText, JoinText
<1>3. text \in Seq(Chars)
  <2>1. CASE d.spec = "d"
    BY <1>1, <2>1
  <2>2. CASE d.spec = "u"
    BY <2>2, NumberText
  <2>3. CASE d.spec = "x"
    BY <2>3, NumberText
  <2>4. CASE d.spec = "X"
    BY <2>4, NumberText
  <2>5. CASE d.spec = "p"
    BY <1>2, <2>5
  <2>6. CASE d.spec = "c"
    BY <2>6, ConstantText
  <2>7. CASE d.spec = "s"
    BY <2>7
  <2> HIDE DEF text
  <2> QED
    BY <2>1, <2>2, <2>3, <2>4, <2>5, <2>6, <2>7 DEF Known
<1>4. fill \in Chars
  BY ConstantText
<1>5. u_field(d, v, s) = IF d.left THEN text \o Pad(" ", d.width, text)
                         ELSE Pad(fill, d.width, text) \o text
  BY DEF u_field
<1> HIDE DEF text, fill
<1>6. Pad(" ", d.width, text) \in Seq(Chars) /\ Pad(fill, d.width, text) \in Seq(Chars)
  <2>1. d.width \in Int
    OBVIOUS
  <2> QED
    BY <1>3, <1>4, <2>1, PadText, ConstantText
<1>7. text \o Pad(" ", d.width, text) \in Seq(Chars) /\ Pad(fill, d.width, text) \o text \in Seq(Chars)
  BY <1>3, <1>6, JoinText
<1>8. CASE d.left
  BY <1>5, <1>7, <1>8
<1>9. CASE ~d.left
  BY <1>5, <1>7, <1>9
<1> QED
  BY <1>8, <1>9

----------------------------------------------------------------------------
(* The formatters, step by step.                                           *)

FormatTypes ==
  /\ formatter \in {"u_printf", "u_snprintf", "log_vformat"}
  /\ fmt \in Seq(STRING) /\ size \in Nat /\ (formatter # "u_snprintf" => size > 0)
  /\ out \in Seq(Chars) /\ arg \in -(INT_MAX + 1) .. INT_MAX

\* Until the end the destination holds what fits of the text so far, with
\* nothing behind it, and the position is where the next character goes.
Loop ==
  returned = -1 =>
    /\ pos = IF IsLog /\ Len(out) > avail THEN avail ELSE Len(out)
    /\ dest = [k \in 0 .. size |-> IF k < avail /\ k < Len(out) THEN out[k + 1] ELSE JUNK]
    /\ written = <<>>

Done == returned # -1 => TextTruncated /\ PrintedIsText

FormatInv == FormatTypes /\ Loop /\ Done

\* The room for characters.
LEMMA Room ==
  ASSUME size \in Nat
  PROVE  avail \in 0 .. size /\ (size > 0 => avail = size - 1)
BY DEF avail

\* The first call of a formatter finds an empty text.
LEMMA FormatInitInv ==
  ASSUME FormatAssumption
  PROVE  FormatInit => FormatInv
<1> SUFFICES ASSUME FormatInit PROVE FormatInv
  OBVIOUS
<1>1. FormatTypes
  <2>1. size \in Nat /\ fmt \in Seq(STRING) /\ 0 \in -(INT_MAX + 1) .. INT_MAX
    BY DEF FormatInit, FormatAssumption
  <2> QED
    BY <2>1 DEF FormatInit, FormatTypes
<1>2. Loop
  <2>1. Len(out) = 0 /\ avail \in 0 .. size /\ size \in Nat
    BY <1>1, Room DEF FormatInit, FormatTypes
  <2>2. pos = IF IsLog /\ Len(out) > avail THEN avail ELSE Len(out)
    BY <2>1 DEF FormatInit
  <2>3. dest = [k \in 0 .. size |-> IF k < avail /\ k < Len(out) THEN out[k + 1] ELSE JUNK]
    BY <2>1 DEF FormatInit
  <2> QED
    BY <2>2, <2>3 DEF FormatInit, Loop
<1> QED
  BY <1>1, <1>2 DEF FormatInit, FormatInv, Done

\* Storing a text after the one so far.
LEMMA OutChar ==
  ASSUME FormatInv, Running, NEW text \in Seq(Chars), out_char(text), Same,
         arg' \in -(INT_MAX + 1) .. INT_MAX
  PROVE  FormatInv'
<1>1. /\ FormatTypes /\ returned = -1 /\ avail \in 0 .. size /\ size \in Nat /\ written = <<>>
      /\ pos = IF IsLog /\ Len(out) > avail THEN avail ELSE Len(out)
      /\ dest = [k \in 0 .. size |-> IF k < avail /\ k < Len(out) THEN out[k + 1] ELSE JUNK]
  BY Room DEF FormatInv, FormatTypes, Loop, Running
<1>2. Len(out) \in Nat /\ Len(text) \in Nat /\ out \in Seq(Chars)
  BY <1>1 DEF FormatTypes
<1>3. pos = Len(out)
  <2>1. IsLog => ~(pos >= avail)
    BY DEF Running, Ended
  <2> QED
    BY <1>1, <1>2, <2>1
<1>4. /\ out' = out \o text /\ out' \in Seq(Chars) /\ Len(out') = Len(out) + Len(text)
      /\ \A i \in 1 .. Len(out) + Len(text) :
           out'[i] = IF i <= Len(out) THEN out[i] ELSE text[i - Len(out)]
  <2>1. out' = out \o text
    BY DEF out_char
  <2> QED
    BY <1>2, <2>1, ConcatProperties
<1>5. formatter' = formatter /\ fmt' = fmt /\ size' = size /\ returned' = -1 /\ written' = <<>>
  BY <1>1 DEF Same
<1>6. avail' = avail /\ IsLog' = IsLog
  BY <1>5 DEF avail, IsLog
<1>7. FormatTypes'
  BY <1>1, <1>4, <1>5 DEF FormatTypes
<1>8. pos' = IF IsLog' /\ Len(out') > avail' THEN avail' ELSE Len(out')
  BY <1>3, <1>4, <1>6 DEF out_char
<1>9. dest' = [k \in (0 .. size)' |-> IF k < avail' /\ k < Len(out') THEN out'[k + 1] ELSE JUNK]
  <2>1. DOMAIN dest = 0 .. size
    BY <1>1
  <2>2. dest' = [k \in 0 .. size |-> IF k - Len(out) + 1 \in 1 .. Len(text) /\ k < avail
                                     THEN text[k - Len(out) + 1] ELSE dest[k]]
    BY <1>3, <2>1 DEF out_char
  <2>3. ASSUME NEW k \in 0 .. size
        PROVE  (IF k - Len(out) + 1 \in 1 .. Len(text) /\ k < avail
                THEN text[k - Len(out) + 1] ELSE dest[k])
               = (IF k < avail /\ k < Len(out') THEN out'[k + 1] ELSE JUNK)
    <3>1. dest[k] = IF k < avail /\ k < Len(out) THEN out[k + 1] ELSE JUNK
      BY <1>1
    <3>2. CASE k < avail /\ k < Len(out)
      <4>1. k + 1 \in 1 .. Len(out) + Len(text) /\ k + 1 <= Len(out) /\ k < Len(out')
        BY <1>1, <1>2, <1>4, <3>2
      <4>2. out'[k + 1] = out[k + 1]
        BY <1>4, <4>1
      <4>3. ~(k - Len(out) + 1 \in 1 .. Len(text))
        BY <1>1, <1>2, <3>2
      <4> QED
        BY <3>1, <3>2, <4>1, <4>2, <4>3
    <3>3. CASE k < avail /\ ~(k < Len(out)) /\ k < Len(out')
      <4>1. k + 1 \in 1 .. Len(out) + Len(text) /\ ~(k + 1 <= Len(out))
            /\ k - Len(out) + 1 \in 1 .. Len(text) /\ (k + 1) - Len(out) = k - Len(out) + 1
        BY <1>1, <1>2, <1>4, <3>3
      <4>2. out'[k + 1] = text[k - Len(out) + 1]
        BY <1>4, <4>1
      <4> QED
        BY <3>3, <4>1, <4>2
    <3>4. CASE ~(k < avail) \/ ~(k < Len(out'))
      <4>1. ~(k < avail) \/ (~(k < Len(out)) /\ ~(k - Len(out) + 1 \in 1 .. Len(text)))
        BY <1>1, <1>2, <1>4, <3>4
      <4> QED
        BY <3>1, <3>4, <4>1
    <3> QED
      BY <3>2, <3>3, <3>4
  <2> QED
    BY <1>5, <1>6, <2>2, <2>3
<1>10. Loop'
  BY <1>5, <1>8, <1>9 DEF Loop
<1> QED
  BY <1>5, <1>7, <1>10 DEF FormatInv, Done

\* The end of a call.
LEMMA FormatFinish ==
  ASSUME FormatInv, Finish
  PROVE  FormatInv'
<1>1. /\ FormatTypes /\ returned = -1 /\ avail \in 0 .. size /\ size \in Nat /\ written = <<>>
      /\ (size > 0 => avail = size - 1)
      /\ pos = IF IsLog /\ Len(out) > avail THEN avail ELSE Len(out)
      /\ dest = [k \in 0 .. size |-> IF k < avail /\ k < Len(out) THEN out[k + 1] ELSE JUNK]
  BY Room DEF FormatInv, FormatTypes, Loop, Finish
<1>2. /\ formatter' = formatter /\ fmt' = fmt /\ size' = size /\ out' = out /\ arg' = arg
      /\ returned' = pos /\ avail' = avail /\ IsLog' = IsLog
  BY DEF Finish, avail, IsLog
<1>3. FormatTypes'
  BY <1>1, <1>2 DEF FormatTypes
<1> DEFINE n == IF Len(out) < avail THEN Len(out) ELSE avail
<1>4. out \in Seq(Chars) /\ Len(out) \in Nat /\ n \in 0 .. avail /\ n <= Len(out)
  BY <1>1 DEF FormatTypes
<1>5. returned' \in Nat /\ returned' # -1
  BY <1>1, <1>2, <1>4
<1>6. First(out, avail) = [k \in 1 .. n |-> out[k]] /\ Len(First(out, avail)) = n
  <2>1. First(out, avail) = SubSeq(out, 1, n)
    BY DEF First
  <2> HIDE DEF n
  <2>2. SubSeq(out, 1, n) = [k \in 1 .. n |-> out[k]]
    BY <1>4
  <2>3. Len(SubSeq(out, 1, n)) = n
    BY <1>4
  <2> QED
    BY <2>1, <2>2, <2>3
<1>7. First(out', avail') = First(out, avail)
  BY <1>2
<1>8. returned' = IF IsLog' THEN Len(First(out', avail')) ELSE Len(out')
  BY <1>1, <1>2, <1>4, <1>6, <1>7
<1>9. dest' = IF size > 0 THEN [dest EXCEPT ![n] = EOS] ELSE dest
  <2>1. (IF pos <= avail THEN pos ELSE avail) = n
    BY <1>1, <1>4
  <2> HIDE DEF n
  <2> QED
    BY <2>1 DEF Finish
<1> HIDE DEF n
<1>10. ASSUME size > 0
       PROVE  /\ n <= avail /\ avail < size /\ DOMAIN dest' = 0 .. size /\ dest'[n] = EOS
              /\ [k \in 1 .. n |-> dest'[k - 1]] = First(out, avail)
              /\ \A k \in 0 .. size : k >= size => dest'[k] = JUNK
  <2>1. n <= avail /\ avail < size /\ n \in 0 .. size
    BY <1>1, <1>4, <1>10
  <2>2. dest' = [dest EXCEPT ![n] = EOS]
    BY <1>9, <1>10
  <2>3. DOMAIN dest = 0 .. size /\ DOMAIN dest' = 0 .. size /\ dest'[n] = EOS
        /\ \A k \in 0 .. size : k # n => dest'[k] = dest[k]
    BY <1>1, <2>1, <2>2
  <2>4. ASSUME NEW k \in 1 .. n PROVE dest'[k - 1] = out[k]
    <3>1. k - 1 \in 0 .. size /\ k - 1 # n /\ k - 1 < avail /\ k - 1 < Len(out) /\ (k - 1) + 1 = k
      BY <1>1, <1>4, <2>1
    <3> QED
      BY <1>1, <2>3, <3>1
  <2>5. ASSUME NEW k \in 0 .. size, k >= size PROVE dest'[k] = JUNK
    <3>1. k # n /\ ~(k < avail)
      BY <1>1, <1>4, <2>1, <2>5
    <3> QED
      BY <1>1, <2>3, <3>1
  <2>6. [k \in 1 .. n |-> dest'[k - 1]] = [k \in 1 .. n |-> out[k]]
    BY <2>4
  <2> QED
    BY <1>6, <2>1, <2>3, <2>5, <2>6
<1>11. ASSUME ~(size > 0) PROVE \A k \in DOMAIN dest' : k >= size => dest'[k] = JUNK
  <2>1. size = 0 /\ avail = 0 /\ dest' = dest
    BY <1>1, <1>9, <1>11
  <2> QED
    BY <1>1, <2>1
<1>12. TextTruncated'
  <2>1. \A k \in DOMAIN dest' : k >= size => dest'[k] = JUNK
    BY <1>10, <1>11
  <2>2. size > 0 => \E m \in 0 .. avail : /\ m = Len(First(out, avail)) /\ dest'[m] = EOS
                                          /\ [k \in 1 .. m |-> dest'[k - 1]] = First(out, avail)
    <3> SUFFICES ASSUME size > 0
                 PROVE  \E m \in 0 .. avail : /\ m = Len(First(out, avail)) /\ dest'[m] = EOS
                                              /\ [k \in 1 .. m |-> dest'[k - 1]] = First(out, avail)
      OBVIOUS
    <3>1. /\ n \in 0 .. avail /\ n = Len(First(out, avail)) /\ dest'[n] = EOS
          /\ [k \in 1 .. n |-> dest'[k - 1]] = First(out, avail)
      BY <1>4, <1>6, <1>10
    <3> QED
      BY <3>1
  <2> QED
    BY <1>2, <1>7, <1>8, <2>1, <2>2 DEF TextTruncated
<1>13. PrintedIsText'
  <2> SUFFICES ASSUME formatter = "u_printf" PROVE written' = First(out, avail)
    BY <1>2, <1>7 DEF PrintedIsText
  <2>1. size > 0 /\ ~IsLog
    BY <1>1 DEF FormatTypes, IsLog
  <2>2. (IF pos < size THEN pos ELSE size - 1) = n
    BY <1>1, <1>4, <2>1 DEF n
  <2>3. written' = [k \in 1 .. n |-> dest'[k - 1]]
    BY <2>2 DEF Finish
  <2> QED
    BY <1>10, <2>1, <2>3
<1> QED
  BY <1>3, <1>5, <1>12, <1>13 DEF FormatInv, Loop, Done

\* Every step of a formatter keeps the invariant.
LEMMA FormatStep ==
  ASSUME FormatAssumption, FormatInv, FormatNext
  PROVE  FormatInv'
<1>1. FormatTypes /\ fmt \in Seq(STRING) /\ arg \in -(INT_MAX + 1) .. INT_MAX
  BY DEF FormatInv, FormatTypes
<1>2. CASE Literal
  <2>1. At(fmt, p) # EOS
    BY <1>2 DEF Literal, Running, Ended
  <2>2. fmt[p] \in Chars
    <3>1. p \in 1 .. Len(fmt)
      BY <1>1, <2>1, AtChar
    <3>2. fmt[p] \in STRING
      BY <1>1, <3>1
    <3> QED
      BY <3>2 DEF Chars
  <2>3. <<fmt[p]>> \in Seq(Chars)
    BY <2>2, ConstantText
  <2> QED
    BY <1>1, <1>2, <2>3, OutChar DEF Literal
<1>3. CASE Percent
  <2>1. <<"%">> \in Seq(Chars)
    BY ConstantText
  <2> QED
    BY <1>1, <1>3, <2>1, OutChar DEF Percent
<1>4. ASSUME NEW v \in Values, NEW s \in Strings, Convert(v, s) PROVE FormatInv'
  <2>1. At(fmt, p) # EOS
    BY <1>4 DEF Convert, EOS
  <2>2. p \in 1 .. Len(fmt)
    BY <1>1, <2>1, AtChar
  <2>3. p + 1 \in 1 .. Len(fmt) + 1
    BY <1>1, <2>2
  <2>4. Directive.width \in Nat /\ Directive.spec \in Chars
    BY <1>1, <2>3, DirectiveFound DEF Directive
  <2>5. s \in Seq(Chars) /\ v \in -(INT_MAX + 1) .. INT_MAX
    <3>1. s \in Seq(STRING) /\ STRING \subseteq Chars
      BY DEF FormatAssumption, Chars
    <3>2. v \in -(INT_MAX + 1) .. INT_MAX
      BY DEF FormatAssumption
    <3> HIDE DEF Chars
    <3>3. s \in Seq(Chars)
      BY <3>1, WiderSeq
    <3> QED
      BY <3>2, <3>3
  <2>6. Field(Directive, v, s) \in Seq(Chars)
    <3>1. CASE Directive.spec \notin Known
      BY <2>4, <3>1, ConstantText DEF Field
    <3>2. CASE Directive.spec \in Known
      <4>1. log_field(Directive, v, s) \in Seq(Chars) /\ u_field(Directive, v, s) \in Seq(Chars)
        BY <2>4, <2>5, <3>2, LogFieldText, UserFieldText
      <4> QED
        BY <3>2, <4>1 DEF Field
    <3> QED
      BY <3>1, <3>2
  <2>7. Running /\ out_char(Field(Directive, v, s)) /\ Same /\ arg' = v
    BY <1>4 DEF Convert
  <2> QED
    BY <2>5, <2>6, <2>7, OutChar
<1>5. CASE Finish
  BY <1>5, FormatFinish
<1> QED
  BY <1>2, <1>3, <1>4, <1>5 DEF FormatNext

\* What the two formatters store, return and send is the full text cut to the
\* room, terminated, with nothing written behind the destination, for every
\* format, size, argument and width of the integers; and u_atol reads back
\* every number that %d printed, the shell too (u_vsnprintf, u_printf, log_vformat,
\* u_atol, shell_atoi).
THEOREM FormatIsExact ==
  ASSUME FormatAssumption
  PROVE  FormatSpec => []TextExact
<1>1. FormatInit => FormatInv
  BY FormatInitInv
<1>2. FormatInv /\ [FormatNext]_format_vars => FormatInv'
  <2>1. ASSUME FormatInv, UNCHANGED format_vars PROVE FormatInv'
    BY <2>1 DEF format_vars, FormatInv, FormatTypes, Loop, Done, TextTruncated, PrintedIsText,
                First, avail, IsLog
  <2> QED
    BY <2>1, FormatStep
<1>3. FormatInv => TextExact
  <2> SUFFICES ASSUME FormatInv PROVE TextExact
    OBVIOUS
  <2>1. NumberReadBack
    <3>1. arg \in -(INT_MAX + 1) .. INT_MAX
      BY DEF FormatInv, FormatTypes
    <3>2. \A w \in 0 .. MaxWidth : w \in Int
      OBVIOUS
    <3> QED
      BY <3>1, <3>2, ReadBack DEF NumberReadBack
  <2>2. CASE returned = -1
    <3>1. /\ avail \in 0 .. size /\ size \in Nat
          /\ dest = [k \in 0 .. size |-> IF k < avail /\ k < Len(out) THEN out[k + 1] ELSE JUNK]
      BY <2>2, Room DEF FormatInv, FormatTypes, Loop
    <3>2. \A k \in DOMAIN dest : k >= size => dest[k] = JUNK
      BY <3>1
    <3> QED
      BY <2>1, <2>2, <3>2 DEF TextExact, TextTruncated, PrintedIsText
  <2>3. CASE returned # -1
    BY <2>1, <2>3 DEF FormatInv, Done, TextExact
  <2> QED
    BY <2>2, <2>3
<1> QED
  BY <1>1, <1>2, <1>3, PTL DEF FormatSpec
=============================================================================

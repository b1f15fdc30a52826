---------------------------- MODULE KernelProofs ----------------------------
(***************************************************************************)
(* Theorems about the specification of Kernel.tla.                         *)
(*                                                                         *)
(* The first part says what the functions of the scheduler (Sched.tla) do  *)
(* to the kernel record, for every number of harts and threads: which      *)
(* fields a function changes, that it keeps the record well typed, and     *)
(* that it keeps threads placed and run queues consistent.  A handler is a *)
(* chain of functions, so these lemmas are stated for the records in the   *)
(* middle of a handler, with the notion Placed defined below.              *)
(*                                                                         *)
(* The second part has a lemma for each handler: applied to a record that  *)
(* is Sound it gives one that is Sound, and it keeps the record            *)
(* Consistent.  NextStep puts the handlers together and the theorems       *)
(* behind it follow.                                                       *)
(*                                                                         *)
(* The third part is about threads that wait (for a hart to notice them,   *)
(* for a character, for the result of a system call, for another thread or *)
(* for a tick), about their death, and about the slots of threads that are *)
(* killed while they run.  Its first lemmas say, field by field, what      *)
(* schedule and the other functions of the scheduler do; each property is  *)
(* then a property of the kernel record, or of a pair of records, that     *)
(* every handler keeps.                                                    *)
(***************************************************************************)
EXTENDS Kernel, WellFoundedInduction, SequenceTheorems, TLAPS

USE HartsAssumption, ThreadsAssumption, BootAssumption, SliceAssumption,
    RbufAssumption, CodesAssumption

----------------------------------------------------------------------------
(* Arithmetic and sequences.                                               *)

\* A nonempty set of naturals has a least element and Min returns it.  The
\* lowest free slot, due sleeper and shortest queue are such minima.
LEMMA MinOfNats ==
  ASSUME NEW S, S \subseteq Nat, S # {}
  PROVE  Min(S) \in S /\ \A y \in S : Min(S) <= y
<1>1. PICK n \in S : \A m \in S : n <= m
  <2> DEFINE R == {p \in Nat \X Nat : p[1] < p[2]}
  <2>1. IsWellFoundedOn(R, Nat)
    BY NatLessThanWellFounded, Zenon DEF OpToRel
  <2> HIDE DEF R
  <2>2. PICK n \in S : \A m \in S : ~ (<<m, n>> \in R)
    BY <2>1, WFMin
  <2>3. ASSUME NEW m \in S PROVE n <= m
    <3>1. m \in Nat /\ n \in Nat /\ <<m, n>> \in Nat \X Nat
      OBVIOUS
    <3>2. ~ (m < n)
      BY <2>2, <3>1 DEF R
    <3>3. QED
      BY <3>1, <3>2
  <2>4. QED
    BY <2>3
<1>2. QED
  BY <1>1 DEF Min

\* r is a kernel record that agrees with s outside the fields F.
Frame(r, s, F) == DOMAIN r = Fields /\ \A f \in Fields \ F : r[f] = s[f]

\* r is s with t appended to the queue of hart h.
Pushed(r, s, h, t) ==
  Frame(r, s, {"rq"}) /\ r.rq = [s.rq EXCEPT ![h] = Append(@, t)]

\* What rq_push_tail changes.
LEMMA PushFields ==
  ASSUME NEW s, Typed(s), NEW h \in Hart, NEW t \in Tid
  PROVE  Pushed(rq_push_tail(s, h, t), s, h, t)
BY DEF rq_push_tail, Pushed, Frame, Typed, Fields

\* r is s with other pending IPIs.
Kicked(r, s) == Frame(r, s, {"ipi"}) /\ r.ipi \in [Hart -> BOOLEAN]

\* What smp_kick_hart changes.
LEMMA KickFields ==
  ASSUME NEW s, Typed(s), NEW h \in Hart
  PROVE  Kicked(smp_kick_hart(s, h), s)
BY DEF smp_kick_hart, Kicked, Frame, Typed, Fields

\* sched_pick_target_hart names a hart, also when no hart is online.
LEMMA PickTarget ==
  ASSUME NEW s, NEW h \in Hart
  PROVE  sched_pick_target_hart(s, h) \in Hart
<1> DEFINE on == {g \in Hart : s.online[g]}
           best == {g \in on : \A f \in on : rq_len(s, g) <= rq_len(s, f)}
<1>1. best \subseteq Nat /\ best \subseteq Hart
  BY DEF Hart
<1>2. best # {} => Min(best) \in Hart
  BY <1>1, MinOfNats
<1>3. QED
  BY <1>2 DEF sched_pick_target_hart

\* rq_push_tail keeps the record well typed.
LEMMA PushTyped ==
  ASSUME NEW s, Typed(s), NEW h \in Hart, NEW t \in Tid, NEW r, Pushed(r, s, h, t)
  PROVE  Typed(r)
<1>1. r.rq \in [Hart -> Seq(Tid)]
  BY AppendProperties DEF Typed, Pushed
<1>2. QED
  BY <1>1 DEF Typed, Pushed, Frame, Fields

\* The two outcomes of thread_make_runnable: nothing, for an idle, queued or
\* running thread, or t is RUNNABLE at the tail of some queue.
MadeRunnable(r, s, t) ==
  \/ r = s /\ (t \notin User \/ on_rq(s, t) \/ s.state[t] = "RUNNING")
  \/ /\ t \in User /\ ~on_rq(s, t) /\ s.state[t] # "RUNNING"
     /\ Frame(r, s, {"rq", "state", "wakeup_tick", "ipi"})
     /\ \E g \in Hart : r.rq = [s.rq EXCEPT ![g] = Append(@, t)]
     /\ r.state = [s.state EXCEPT ![t] = "RUNNABLE"]
     /\ r.wakeup_tick = [s.wakeup_tick EXCEPT ![t] = 0]
     /\ r.ipi \in [Hart -> BOOLEAN]

\* thread_make_runnable has one of these outcomes, whatever the target hart.
LEMMA MakeRunnableFields ==
  ASSUME NEW s, Typed(s), NEW h \in Hart, NEW t \in Tid, NEW p \in Hart
  PROVE  MadeRunnable(thread_make_runnable(s, h, t, p), s, t)
<1> DEFINE target == sched_pick_target_hart(s, p)
           a == [s EXCEPT !.state[t] = "RUNNABLE", !.wakeup_tick[t] = 0]
           queued == rq_push_tail(a, target, t)
           r == thread_make_runnable(s, h, t, p)
<1>1. target \in Hart
  BY PickTarget
<1>2. /\ Frame(a, s, {"state", "wakeup_tick"})
      /\ a.state = [s.state EXCEPT ![t] = "RUNNABLE"]
      /\ a.wakeup_tick = [s.wakeup_tick EXCEPT ![t] = 0]
  BY DEF Frame, Typed, Fields
<1> HIDE DEF a
<1>3. Typed(a)
  BY <1>2, SMTT(30) DEF Typed, Frame, Fields, States
<1>4. Pushed(queued, a, target, t)
  BY <1>1, <1>3, PushFields
<1>5. Typed(queued)
  BY <1>1, <1>3, <1>4, PushTyped
<1>6. Kicked(smp_kick_hart(queued, target), queued)
  BY <1>1, <1>5, KickFields
<1>7. r = IF t \notin User \/ on_rq(s, t) \/ s.state[t] = "RUNNING" THEN s
          ELSE IF target = h THEN queued ELSE smp_kick_hart(queued, target)
  BY DEF thread_make_runnable, a
<1> HIDE DEF r, queued, target
<1>8. CASE t \notin User \/ on_rq(s, t) \/ s.state[t] = "RUNNING"
  BY <1>7, <1>8 DEF MadeRunnable, r
<1>9. CASE /\ t \in User /\ ~on_rq(s, t) /\ s.state[t] # "RUNNING"
           /\ target = h
  <2>1. r = queued
    BY <1>7, <1>9
  <2>2. /\ Frame(r, s, {"rq", "state", "wakeup_tick", "ipi"})
        /\ r.rq = [s.rq EXCEPT ![target] = Append(@, t)]
        /\ r.state = [s.state EXCEPT ![t] = "RUNNABLE"]
        /\ r.wakeup_tick = [s.wakeup_tick EXCEPT ![t] = 0]
        /\ r.ipi \in [Hart -> BOOLEAN]
    BY <2>1, <1>2, <1>4 DEF Frame, Pushed, Typed, Fields
  <2>3. QED
    BY <2>2, <1>1, <1>9 DEF MadeRunnable, Typed, r
<1>10. CASE /\ t \in User /\ ~on_rq(s, t) /\ s.state[t] # "RUNNING"
            /\ target # h
  <2>1. r = smp_kick_hart(queued, target)
    BY <1>7, <1>10
  <2>2. /\ Frame(r, s, {"rq", "state", "wakeup_tick", "ipi"})
        /\ r.rq = [s.rq EXCEPT ![target] = Append(@, t)]
        /\ r.state = [s.state EXCEPT ![t] = "RUNNABLE"]
        /\ r.wakeup_tick = [s.wakeup_tick EXCEPT ![t] = 0]
        /\ r.ipi \in [Hart -> BOOLEAN]
    BY <2>1, <1>2, <1>4, <1>6 DEF Frame, Pushed, Kicked, Typed, Fields
  <2>3. QED
    BY <2>2, <1>1, <1>10 DEF MadeRunnable, Typed, r
<1>11. QED
  BY <1>8, <1>9, <1>10

\* What recycle_thread writes.
Recycled(r, s, t) ==
  /\ Frame(r, s, {"state", "wakeup_tick", "detached", "exit_code",
                  "join_waiter", "waiting_for", "ret", "running_hart",
                  "g_stdin_waiter"})
  /\ r.state = [s.state EXCEPT ![t] = "UNUSED"]
  /\ r.wakeup_tick = [s.wakeup_tick EXCEPT ![t] = 0]
  /\ r.detached = [s.detached EXCEPT ![t] = FALSE]
  /\ r.exit_code = [s.exit_code EXCEPT ![t] = Zero]
  /\ r.join_waiter = [s.join_waiter EXCEPT ![t] = NONE]
  /\ r.waiting_for = [s.waiting_for EXCEPT ![t] = NONE]
  /\ r.ret = [s.ret EXCEPT ![t] = "none"]
  /\ r.running_hart = [s.running_hart EXCEPT ![t] = NONE]
  /\ r.g_stdin_waiter = IF s.g_stdin_waiter = t THEN NONE
                        ELSE s.g_stdin_waiter

\* What recycle_thread changes.
LEMMA RecycleFields ==
  ASSUME NEW s, Typed(s), NEW t \in Tid
  PROVE  Recycled(recycle_thread(s, t), s, t)
BY DEF recycle_thread, Typed, Fields, Frame, Recycled

\* recycle_thread keeps the record well typed.
LEMMA RecycleTyped ==
  ASSUME NEW s, Typed(s), NEW t \in Tid, NEW r, Recycled(r, s, t)
  PROVE  Typed(r)
BY DEF Recycled, Typed, Fields, Frame, States, Codes

\* thread_make_runnable keeps the record well typed.
LEMMA MakeRunnableTyped ==
  ASSUME NEW s, Typed(s), NEW t \in Tid, NEW r, MadeRunnable(r, s, t)
  PROVE  Typed(r)
<1>1. CASE r = s
  BY <1>1
<1>2. CASE r # s
  <2>1. PICK g \in Hart : r.rq = [s.rq EXCEPT ![g] = Append(@, t)]
    BY <1>2 DEF MadeRunnable
  <2>2. r.rq \in [Hart -> Seq(Tid)]
    BY <2>1, AppendProperties DEF Typed
  <2>3. /\ Frame(r, s, {"rq", "state", "wakeup_tick", "ipi"})
        /\ r.state = [s.state EXCEPT ![t] = "RUNNABLE"]
        /\ r.wakeup_tick = [s.wakeup_tick EXCEPT ![t] = 0]
        /\ r.ipi \in [Hart -> BOOLEAN]
    BY <1>2, Zenon DEF MadeRunnable
  <2>4. r.state \in [Tid -> States] /\ r.wakeup_tick \in [Tid -> Nat]
    BY <2>3 DEF Typed, States
  <2>5. QED
    BY <2>2, <2>3, <2>4 DEF Typed, Fields, Frame
<1>3. QED
  BY <1>1, <1>2

\* From s to r no thread falls asleep, no sleeper gets another wakeup_tick,
\* and nobody becomes a joiner.
Gentle(r, s) ==
  /\ \A t \in Tid : r.state[t] = "SLEEPING" =>
       s.state[t] = "SLEEPING" /\ r.wakeup_tick[t] = s.wakeup_tick[t]
  /\ \A t \in Tid : r.join_waiter[t] \in {s.join_waiter[t], NONE}

\* The outcomes of the first half of schedule on hart h.
SwitchedOut(r, s, h) ==
  LET cur == s.current[h]
  IN  /\ r.current = s.current /\ r.online = s.online
      /\ r.running_hart = [s.running_hart EXCEPT ![cur] = NONE]
      /\ \/ /\ cur = h
            /\ r.state = [s.state EXCEPT ![cur] = "RUNNABLE"]
            /\ r.rq = s.rq
         \/ /\ cur # h /\ s.state[cur] = "RUNNING"
            /\ r.state = [s.state EXCEPT ![cur] = "RUNNABLE"]
            /\ r.rq = [s.rq EXCEPT ![h] = Append(@, cur)]
         \/ /\ cur # h /\ s.state[cur] # "RUNNING"
            /\ r.state \in {s.state, [s.state EXCEPT ![cur] = "UNUSED"]}
            /\ r.rq = s.rq

\* switch_out keeps the record well typed, is gentle, and has one of these
\* outcomes.
LEMMA SwitchOutFields ==
  ASSUME NEW s, Typed(s), NEW h \in Hart, s.current[h] # NONE
  PROVE  LET r == switch_out(s, h)
         IN  Typed(r) /\ Gentle(r, s) /\ SwitchedOut(r, s, h)
<1> DEFINE cur == s.current[h]
           off == [s EXCEPT !.running_hart[cur] = NONE]
           off2 == [off EXCEPT !.state[cur] = "RUNNABLE"]
           r == switch_out(s, h)
<1>1. cur \in Tid
  BY DEF Typed
<1>2. /\ Frame(off, s, {"running_hart"})
      /\ off.running_hart = [s.running_hart EXCEPT ![cur] = NONE]
  BY <1>1 DEF Frame, Typed, Fields
<1>3. r = IF cur = h THEN off2
          ELSE IF s.state[cur] = "RUNNING" THEN rq_push_tail(off2, h, cur)
          ELSE IF /\ s.state[cur] = "ZOMBIE"
                  /\ s.join_waiter[cur] # NONE \/ s.detached[cur]
               THEN recycle_thread(off, cur)
          ELSE off
  BY DEF switch_out
<1> HIDE DEF off
<1>4. Typed(off)
  BY <1>1, <1>2, SMTT(30) DEF Frame, Typed, Fields
<1>5. /\ Frame(off2, off, {"state"})
      /\ off2.state = [off.state EXCEPT ![cur] = "RUNNABLE"]
  BY <1>1, <1>4 DEF Frame, Typed, Fields
<1> HIDE DEF off2, cur
<1>6. Typed(off2)
  <2>1. off.state \in [Tid -> States] /\ "RUNNABLE" \in States
    BY <1>4 DEF Typed, States
  <2>2. off2.state \in [Tid -> States]
    BY <2>1, <1>1, <1>5
  <2>3. QED
    BY <2>2, <1>4, <1>5 DEF Frame, Typed, Fields
<1>7. /\ off.state = s.state /\ off.rq = s.rq /\ off.current = s.current
      /\ off.online = s.online /\ off.wakeup_tick = s.wakeup_tick
      /\ off.join_waiter = s.join_waiter
  BY <1>2 DEF Frame, Fields
<1>8. /\ off2.rq = s.rq /\ off2.current = s.current
      /\ off2.online = s.online /\ off2.wakeup_tick = s.wakeup_tick
      /\ off2.join_waiter = s.join_waiter
      /\ off2.running_hart = off.running_hart
      /\ off2.state = [s.state EXCEPT ![cur] = "RUNNABLE"]
  BY <1>5, <1>7 DEF Frame, Fields
<1> HIDE DEF r
<1>9. CASE cur = h
  <2>1. r = off2
    BY <1>3, <1>9
  <2>2. Gentle(r, s)
    BY <2>1, <1>1, <1>8 DEF Gentle, Typed
  <2>3. SwitchedOut(r, s, h)
    BY <2>1, <1>2, <1>8, <1>9 DEF SwitchedOut, cur
  <2>4. QED
    BY <2>1, <2>2, <2>3, <1>6 DEF r
<1>10. CASE cur # h /\ s.state[cur] = "RUNNING"
  <2>1. r = rq_push_tail(off2, h, cur)
    BY <1>3, <1>10
  <2>2. Pushed(r, off2, h, cur)
    BY <2>1, <1>1, <1>6, PushFields
  <2>3. Typed(r)
    BY <2>2, <1>1, <1>6, PushTyped
  <2>4. /\ r.current = s.current /\ r.online = s.online
        /\ r.wakeup_tick = s.wakeup_tick /\ r.join_waiter = s.join_waiter
        /\ r.running_hart = [s.running_hart EXCEPT ![cur] = NONE]
        /\ r.state = [s.state EXCEPT ![cur] = "RUNNABLE"]
        /\ r.rq = [s.rq EXCEPT ![h] = Append(@, cur)]
    BY <2>2, <1>2, <1>8 DEF Pushed, Frame, Fields
  <2>5. Gentle(r, s)
    BY <2>4, <1>1 DEF Gentle, Typed
  <2>6. SwitchedOut(r, s, h)
    BY <2>4, <1>10 DEF SwitchedOut, cur
  <2>7. QED
    BY <2>3, <2>5, <2>6 DEF r
<1>11. CASE cur # h /\ s.state[cur] # "RUNNING" /\ r = off
  <2>1. Gentle(r, s)
    BY <1>7, <1>11 DEF Gentle
  <2>2. SwitchedOut(r, s, h)
    BY <1>2, <1>7, <1>11 DEF SwitchedOut, cur
  <2>3. QED
    BY <2>1, <2>2, <1>4, <1>11 DEF r
<1>12. CASE cur # h /\ s.state[cur] # "RUNNING" /\ r = recycle_thread(off, cur)
  <2>1. Recycled(r, off, cur)
    BY <1>1, <1>4, <1>12, RecycleFields
  <2>2. Typed(r)
    BY <1>1, <1>4, <2>1, RecycleTyped
  <2>3. /\ r.current = s.current /\ r.online = s.online /\ r.rq = s.rq
        /\ r.state = [s.state EXCEPT ![cur] = "UNUSED"]
        /\ r.wakeup_tick = [s.wakeup_tick EXCEPT ![cur] = 0]
        /\ r.join_waiter = [s.join_waiter EXCEPT ![cur] = NONE]
        /\ r.running_hart = [off.running_hart EXCEPT ![cur] = NONE]
    BY <2>1, <1>7 DEF Recycled, Frame, Fields
  <2>4. r.running_hart = [s.running_hart EXCEPT ![cur] = NONE]
    BY <2>3, <1>1, <1>2 DEF Typed
  <2>5. Gentle(r, s)
    BY <2>3, <1>1 DEF Gentle, Typed
  <2>6. SwitchedOut(r, s, h)
    BY <2>3, <2>4, <1>12 DEF SwitchedOut, cur
  <2>7. QED
    BY <2>2, <2>5, <2>6 DEF r
<1>13. QED
  BY <1>3, <1>9, <1>10, <1>11, <1>12

\* The outcomes of the second half of schedule on hart h: idle runs and the
\* queue is empty, or the first RUNNABLE entry runs and leaves the queue
\* together with the entries before it.
SwitchedIn(r, s, h) ==
  \E next \in Tid :
    /\ \A g \in Hart : r.current[g] = IF g = h THEN next ELSE s.current[g]
    /\ r.online = s.online
    /\ r.state = [s.state EXCEPT ![next] = "RUNNING"]
    /\ r.running_hart = [s.running_hart EXCEPT ![next] = h]
    /\ r.wakeup_tick = s.wakeup_tick /\ r.join_waiter = s.join_waiter
    /\ \/ /\ next = h
          /\ \A j \in 1 .. Len(s.rq[h]) : s.state[s.rq[h][j]] # "RUNNABLE"
          /\ r.rq = [s.rq EXCEPT ![h] = <<>>]
       \/ \E i \in 1 .. Len(s.rq[h]) :
            /\ next = s.rq[h][i] /\ s.state[next] = "RUNNABLE"
            /\ \A j \in 1 .. i - 1 : s.state[s.rq[h][j]] # "RUNNABLE"
            /\ r.rq = [s.rq EXCEPT ![h] = SubSeq(s.rq[h], i + 1, Len(s.rq[h]))]

\* switch_in keeps the record well typed, is gentle, and has one of these
\* outcomes.
LEMMA SwitchInFields ==
  ASSUME NEW s, Typed(s), NEW h \in Hart
  PROVE  LET r == switch_in(s, h)
         IN  Typed(r) /\ Gentle(r, s) /\ SwitchedIn(r, s, h)
<1> DEFINE r == switch_in(s, h)
           q == s.rq[h]
           I == {j \in 1 .. Len(q) : s.state[q[j]] = "RUNNABLE"}
           i == IF I # {} THEN Min(I) ELSE 0
           next == IF i = 0 THEN h ELSE q[i]
           rest == IF i = 0 THEN <<>> ELSE SubSeq(q, i + 1, Len(q))
<1>1. q \in Seq(Tid) /\ I \subseteq Nat /\ h \in Tid
  <2>1. q \in Seq(Tid)
    BY DEF Typed
  <2>2. h \in Tid
    BY DEF Hart, Tid
  <2>3. QED
    BY <2>1, <2>2
<1>2. SelectInSeq(q, LAMBDA t : s.state[t] = "RUNNABLE") = i
  BY DEF SelectInSeq
<1>3. \/ i = 0 /\ I = {}
      \/ /\ i \in 1 .. Len(q) /\ s.state[q[i]] = "RUNNABLE"
         /\ \A j \in 1 .. i - 1 : s.state[q[j]] # "RUNNABLE"
  <2>1. CASE I = {}
    BY <2>1
  <2>2. CASE I # {}
    <3>1. i = Min(I) /\ i \in I /\ \A y \in I : i <= y
      BY <2>2, <1>1, MinOfNats
    <3> HIDE DEF i
    <3>2. ASSUME NEW j \in 1 .. i - 1 PROVE s.state[q[j]] # "RUNNABLE"
      <4>1. i \in 1 .. Len(q) /\ Len(q) \in Nat
        <5>1. Len(q) \in Nat
          BY ONLY <1>1, LenProperties
        <5>2. i \in 1 .. Len(q)
          BY ONLY <3>1
        <5>3. QED
          BY ONLY <5>1, <5>2
      <4>2. j \in 1 .. Len(q) /\ ~ (i <= j)
        BY ONLY <4>1, j \in 1 .. i - 1
      <4>3. j \notin I
        BY ONLY <3>1, <4>2
      <4>4. QED
        BY <4>2, <4>3
    <3>3. QED
      BY <3>1, <3>2
  <2>3. QED
    BY <2>1, <2>2
<1> HIDE DEF i, I
<1>4. next \in Tid /\ rest \in Seq(Tid)
  BY <1>1, <1>3, SubSeqProperties
<1> HIDE DEF next, rest
<1>5. r = [s EXCEPT !.rq[h] = rest, !.current[h] = next,
                    !.state[next] = "RUNNING", !.running_hart[next] = h,
                    !.ret[next] = "none", !.slice_left[h] = SCHED_SLICE_TICKS]
  BY <1>2, Zenon DEF switch_in, next, rest
<1>6. /\ Frame(r, s, {"rq", "current", "state", "running_hart", "ret",
                      "slice_left"})
      /\ r.rq = [s.rq EXCEPT ![h] = rest]
      /\ r.current = [s.current EXCEPT ![h] = next]
      /\ r.state = [s.state EXCEPT ![next] = "RUNNING"]
      /\ r.running_hart = [s.running_hart EXCEPT ![next] = h]
      /\ r.ret = [s.ret EXCEPT ![next] = "none"]
      /\ r.slice_left = [s.slice_left EXCEPT ![h] = SCHED_SLICE_TICKS]
  <2> HIDE DEF r
  <2> QED BY <1>4, <1>5 DEF Frame, Typed, Fields
<1> HIDE DEF r
<1>7. Typed(r)
  <2>1. /\ DOMAIN r = Fields
        /\ r.wakeup_tick = s.wakeup_tick /\ r.detached = s.detached /\ r.exit_code = s.exit_code
        /\ r.join_waiter = s.join_waiter /\ r.waiting_for = s.waiting_for
        /\ r.pending_read = s.pending_read /\ r.online = s.online /\ r.ipi = s.ipi /\ r.rx = s.rx
        /\ r.g_stdin_waiter = s.g_stdin_waiter
    BY ONLY <1>6 DEF Frame, Fields
  <2>2. r.rq \in [Hart -> Seq(Tid)] /\ r.current \in [Hart -> Tid \cup {NONE}]
    BY ONLY <1>4, <1>6, Typed(s) DEF Typed
  <2>3. r.state \in [Tid -> States]
    BY ONLY <1>4, <1>6, Typed(s) DEF Typed, States
  <2>4. r.running_hart \in [Tid -> Hart \cup {NONE}]
    BY ONLY <1>4, <1>6, Typed(s), h \in Hart DEF Typed
  <2>5. r.ret \in [Tid -> Codes \cup {"none", "due", "read"}]
    BY ONLY <1>4, <1>6, Typed(s) DEF Typed
  <2>6. r.slice_left \in [Hart -> 1 .. SCHED_SLICE_TICKS]
    BY ONLY <1>4, <1>6, Typed(s), SliceAssumption DEF Typed
  <2>7. QED
    BY ONLY <2>1, <2>2, <2>3, <2>4, <2>5, <2>6, Typed(s) DEF Typed
<1>8. Gentle(r, s)
  BY <1>4, <1>6 DEF Gentle, Frame, Typed, Fields
<1>9. SwitchedIn(r, s, h)
  <2>1. /\ \A g \in Hart : r.current[g] = IF g = h THEN next ELSE s.current[g]
        /\ r.online = s.online
        /\ r.wakeup_tick = s.wakeup_tick /\ r.join_waiter = s.join_waiter
    BY <1>4, <1>6 DEF Frame, Typed, Fields
  <2>2. CASE i = 0 /\ I = {}
    BY <2>1, <2>2, <1>4, <1>6 DEF SwitchedIn, next, rest, I
  <2>3. CASE i # 0
    <3>1. /\ i \in 1 .. Len(q) /\ s.state[q[i]] = "RUNNABLE"
          /\ \A j \in 1 .. i - 1 : s.state[q[j]] # "RUNNABLE"
      BY <2>3, <1>3
    <3>2. next = q[i] /\ rest = SubSeq(q, i + 1, Len(q))
      BY <2>3 DEF next, rest
    <3>3. QED
      BY <2>1, <3>1, <3>2, <1>4, <1>6, ZenonT(30) DEF SwitchedIn
  <2>4. QED
    BY <2>2, <2>3, <1>3
<1>10. QED
  BY <1>7, <1>8, <1>9 DEF r

\* The threads on the harts of H are where their structs say, the threads of
\* X excepted.  Between two traps H is Hart and X is empty; inside a handler
\* of hart h the current thread of h is exempt and h is not counted, because
\* the handler changes the thread's state before schedule takes it off the
\* CPU.  The other conjuncts hold throughout: a hart runs a user thread or
\* its own idle thread, only an online hart runs one, and no thread is its
\* own joiner (else thread_sys_exit would requeue the dying thread).
Placed(s, H, X) ==
  /\ \A t \in Tid \ X : s.state[t] = "RUNNING" <=> \E g \in H : s.current[g] = t
  /\ \A t \in Tid \ X, g \in Hart :
       s.running_hart[t] = g <=> g \in H /\ s.current[g] = t
  /\ \A g \in H : s.current[g] \notin X
  /\ \A g \in Hart : s.current[g] \in User \cup {g, NONE}
  /\ \A g \in Hart : ~s.online[g] => s.current[g] = NONE
  /\ \A t \in Tid : s.join_waiter[t] # t

\* The run queues hold the RUNNABLE threads other than idle, each once.
Queued(s) ==
  /\ \A h \in Hart : \A i \in DOMAIN s.rq[h] : s.rq[h][i] \in User
  /\ \A t \in User : s.state[t] = "RUNNABLE" <=> on_rq(s, t)
  /\ \A g, h \in Hart : \A i \in DOMAIN s.rq[g], j \in DOMAIN s.rq[h] :
       s.rq[g][i] = s.rq[h][j] => g = h /\ i = j

\* on_rq in terms of positions in the queues.
LEMMA OnRq ==
  ASSUME NEW s, Typed(s), NEW t
  PROVE  on_rq(s, t) <=> \E h \in Hart : \E i \in 1 .. Len(s.rq[h]) : s.rq[h][i] = t
<1>1. \A h \in Hart : DOMAIN s.rq[h] = 1 .. Len(s.rq[h])
  BY DEF Typed
<1>2. QED
  BY <1>1 DEF on_rq, Range

\* on_rq in terms of the domains of the queues.
LEMMA InQueue ==
  ASSUME NEW s, NEW t
  PROVE  on_rq(s, t) <=> \E h \in Hart : \E i \in DOMAIN s.rq[h] : s.rq[h][i] = t
BY DEF on_rq, Range

\* rq_push_tail of a thread on no queue keeps the queues consistent when the
\* thread becomes RUNNABLE.
LEMMA PushQueued ==
  ASSUME NEW s, Typed(s), Queued(s), NEW t \in User, ~on_rq(s, t),
         NEW r, Typed(r), NEW h \in Hart,
         r.rq = [s.rq EXCEPT ![h] = Append(@, t)],
         r.state = [s.state EXCEPT ![t] = "RUNNABLE"]
  PROVE  Queued(r)
<1> DEFINE n == Len(s.rq[h])
<1>1. t \in Tid
  BY DEF User, Tid
<1>2. \A g \in Hart : /\ s.rq[g] \in Seq(Tid) /\ r.rq[g] \in Seq(Tid)
                      /\ DOMAIN s.rq[g] = 1 .. Len(s.rq[g])
                      /\ DOMAIN r.rq[g] = 1 .. Len(r.rq[g])
  <2>1. \A g \in Hart : s.rq[g] \in Seq(Tid) /\ r.rq[g] \in Seq(Tid)
    BY DEF Typed
  <2>2. QED
    BY <2>1
<1>3. \A g \in Hart \ {h} : r.rq[g] = s.rq[g]
  BY DEF Typed
<1>4. /\ n \in Nat /\ Len(r.rq[h]) = n + 1 /\ r.rq[h][n + 1] = t
      /\ \A i \in 1 .. n : r.rq[h][i] = s.rq[h][i]
  <2>1. r.rq[h] = Append(s.rq[h], t)
    BY DEF Typed
  <2>2. QED
    BY <2>1, <1>1, <1>2, AppendProperties
<1>5. \A g \in Hart : \A i \in 1 .. Len(r.rq[g]) :
        \/ g = h /\ i = n + 1 /\ r.rq[g][i] = t
        \/ i \in 1 .. Len(s.rq[g]) /\ r.rq[g][i] = s.rq[g][i]
  BY <1>3, <1>4
<1>6. \A g \in Hart : \A i \in 1 .. Len(s.rq[g]) :
        i \in 1 .. Len(r.rq[g]) /\ r.rq[g][i] = s.rq[g][i] /\ s.rq[g][i] # t
  BY <1>3, <1>4, OnRq
<1>7. \A g \in Hart : \A i \in DOMAIN r.rq[g] : r.rq[g][i] \in User
  BY <1>2, <1>5 DEF Queued
<1>8. ASSUME NEW u \in User PROVE r.state[u] = "RUNNABLE" <=> on_rq(r, u)
  <2>1. u \in Tid
    BY DEF User, Tid
  <2>2. on_rq(r, u) <=> on_rq(s, u) \/ u = t
    <3>1. on_rq(r, u) <=> \E g \in Hart : \E i \in 1 .. Len(r.rq[g]) : r.rq[g][i] = u
      BY <1>2, ZenonT(90) DEF on_rq, Range
    <3>2. on_rq(s, u) <=> \E g \in Hart : \E i \in 1 .. Len(s.rq[g]) : s.rq[g][i] = u
      BY OnRq
    <3>3. h \in Hart /\ n + 1 \in 1 .. Len(r.rq[h]) /\ r.rq[h][n + 1] = t
      BY <1>4
    <3>4. ASSUME on_rq(r, u), u # t PROVE on_rq(s, u)
      <4>1. PICK g \in Hart : \E i \in 1 .. Len(r.rq[g]) : r.rq[g][i] = u
        BY <3>1, <3>4
      <4>2. PICK i \in 1 .. Len(r.rq[g]) : r.rq[g][i] = u
        BY <4>1
      <4>3. i \in 1 .. Len(s.rq[g]) /\ s.rq[g][i] = u
        BY <4>2, <3>4, <1>5
      <4>4. QED
        BY <4>3, <3>2
    <3>5. on_rq(s, u) => on_rq(r, u)
      BY <3>1, <3>2, <1>6
    <3>6. on_rq(r, t)
      BY <3>3, OnRq
    <3>7. QED
      BY <3>4, <3>5, <3>6
  <2>3. QED
    BY <2>1, <2>2, <1>1 DEF Queued, Typed
<1>9. ASSUME NEW f \in Hart, NEW g \in Hart,
             NEW i \in DOMAIN r.rq[f], NEW j \in DOMAIN r.rq[g],
             r.rq[f][i] = r.rq[g][j]
      PROVE  f = g /\ i = j
  BY <1>2, <1>5, <1>6, <1>9 DEF Queued
<1>10. QED
  BY <1>7, <1>8, <1>9 DEF Queued

\* The first half of schedule leaves hart h with no thread and everything
\* else in place: the thread that was on it is queued exactly if it is
\* RUNNABLE now.
LEMMA SwitchOutConsistent ==
  ASSUME NEW s, Typed(s), NEW h \in Hart, s.current[h] # NONE,
         Placed(s, Hart \ {h}, {s.current[h]}), Queued(s),
         s.current[h] \in User => s.state[s.current[h]] # "RUNNABLE",
         NEW r, Typed(r), Gentle(r, s), SwitchedOut(r, s, h)
  PROVE  Placed(r, Hart \ {h}, {}) /\ Queued(r)
<1> DEFINE cur == s.current[h]
<1>1. /\ cur \in Tid /\ cur \in User \cup {h} /\ h \notin User
      /\ User \subseteq Tid
  <2>1. cur \in Tid
    BY DEF Typed
  <2>2. cur \in User \cup {h}
    BY DEF Placed
  <2>3. h \notin User /\ User \subseteq Tid
    BY DEF User, Hart, Tid
  <2>4. QED
    BY <2>1, <2>2, <2>3
<1>2. /\ r.current = s.current /\ r.online = s.online
      /\ r.running_hart = [s.running_hart EXCEPT ![cur] = NONE]
      /\ r.state[cur] # "RUNNING"
      /\ \A t \in Tid \ {cur} : r.state[t] = s.state[t]
  BY <1>1, ZenonT(60) DEF SwitchedOut, Typed
<1>3. Placed(r, Hart \ {h}, {})
  <2>1. ASSUME NEW t \in Tid
        PROVE  r.state[t] = "RUNNING" <=> \E g \in Hart \ {h} : r.current[g] = t
    BY <1>2 DEF Placed
  <2>2. ASSUME NEW t \in Tid, NEW g \in Hart
        PROVE  r.running_hart[t] = g <=> g \in Hart \ {h} /\ r.current[g] = t
    <3>1. r.running_hart[t] = IF t = cur THEN NONE ELSE s.running_hart[t]
      BY <1>1, <1>2 DEF Typed
    <3>2. CASE t = cur
      <4>1. r.running_hart[t] # g
        BY <3>1, <3>2 DEF Hart, NONE
      <4>2. g \in Hart \ {h} => s.current[g] # t
        BY <3>2 DEF Placed
      <4>3. QED
        BY <4>1, <4>2, <1>2
    <3>3. CASE t # cur
      BY <3>1, <3>3, <1>2 DEF Placed
    <3>4. QED
      BY <3>2, <3>3
  <2>3. \A t \in Tid : r.join_waiter[t] # t
    BY DEF Placed, Gentle, Tid, NONE
  <2>4. QED
    BY <2>1, <2>2, <2>3, <1>2 DEF Placed
<1>4. Queued(r)
  <2>1. CASE cur # h /\ s.state[cur] = "RUNNING"
    <3>1. /\ r.state = [s.state EXCEPT ![cur] = "RUNNABLE"]
          /\ r.rq = [s.rq EXCEPT ![h] = Append(@, cur)]
      BY <2>1 DEF SwitchedOut
    <3>2. cur \in User /\ ~on_rq(s, cur)
      BY <2>1, <1>1 DEF Queued
    <3>3. QED
      BY <3>1, <3>2, PushQueued
  <2>2. CASE ~(cur # h /\ s.state[cur] = "RUNNING")
    <3>1. r.rq = s.rq
      BY <2>2 DEF SwitchedOut
    <3>2. \A t \in User : r.state[t] = "RUNNABLE" <=> s.state[t] = "RUNNABLE"
      BY <2>2, <1>1 DEF SwitchedOut, Typed
    <3>3. QED
      BY <3>1, <3>2 DEF Queued, on_rq
  <2>3. QED
    BY <2>1, <2>2
<1>5. QED
  BY <1>3, <1>4

\* z is q without its entry p.
WithoutEntry(z, q, p) ==
  /\ Len(z) = Len(q) - 1
  /\ \A i \in 1 .. Len(q) - 1 : z[i] = q[IF i < p THEN i ELSE i + 1]

\* From s to r entry p leaves the queue of hart h and its thread is no longer
\* RUNNABLE.
LeavesQueue(r, s, h, p) ==
  /\ p \in 1 .. Len(s.rq[h])
  /\ WithoutEntry(r.rq[h], s.rq[h], p)
  /\ \A g \in Hart \ {h} : r.rq[g] = s.rq[g]
  /\ r.state[s.rq[h][p]] # "RUNNABLE"
  /\ \A t \in Tid \ {s.rq[h][p]} : r.state[t] = s.state[t]

\* Such a step keeps the queues consistent.  This is where it matters that a
\* thread is queued once: one removal takes it off every queue.
LEMMA UnlinkQueued ==
  ASSUME NEW s, Typed(s), Queued(s), NEW h \in Hart, NEW r, Typed(r),
         NEW p, LeavesQueue(r, s, h, p)
  PROVE  Queued(r)
<1> DEFINE n == Len(s.rq[h])
           first == s.rq[h][p]
           old(g, i) == IF g = h /\ ~(i < p) THEN i + 1 ELSE i
<1>1. \A g \in Hart : /\ s.rq[g] \in Seq(Tid) /\ r.rq[g] \in Seq(Tid)
                      /\ DOMAIN s.rq[g] = 1 .. Len(s.rq[g])
                      /\ DOMAIN r.rq[g] = 1 .. Len(r.rq[g])
  <2>1. \A g \in Hart : s.rq[g] \in Seq(Tid) /\ r.rq[g] \in Seq(Tid)
    BY DEF Typed
  <2>2. QED
    BY <2>1
<1>2. /\ \A g \in Hart \ {h} : r.rq[g] = s.rq[g]
      /\ r.state[first] # "RUNNABLE"
      /\ \A t \in Tid \ {first} : r.state[t] = s.state[t]
  BY DEF LeavesQueue
<1>3. n \in Nat \ {0} /\ first \in Tid /\ p \in 1 .. n
  BY <1>1 DEF LeavesQueue
<1>4. /\ Len(r.rq[h]) = n - 1
      /\ \A i \in 1 .. n - 1 : r.rq[h][i] = s.rq[h][IF i < p THEN i ELSE i + 1]
  BY DEF LeavesQueue, WithoutEntry
<1>5. \A g \in Hart : \A i \in 1 .. Len(r.rq[g]) :
        /\ old(g, i) \in 1 .. Len(s.rq[g]) /\ r.rq[g][i] = s.rq[g][old(g, i)]
        /\ ~(g = h /\ old(g, i) = p)
  <2>1. ASSUME NEW i \in 1 .. n - 1
        PROVE  /\ old(h, i) \in 1 .. n /\ r.rq[h][i] = s.rq[h][old(h, i)]
               /\ old(h, i) # p
    <3>1. CASE i < p
      BY <3>1, <1>3, <1>4
    <3>2. CASE ~(i < p)
      BY <3>2, <1>3, <1>4
    <3>3. QED
      BY <3>1, <3>2
  <2>2. \A g \in Hart \ {h} : \A i : old(g, i) = i
    OBVIOUS
  <2>3. QED
    BY <2>1, <2>2, <1>2, <1>4
<1>6. \A g \in Hart : \A i, j \in 1 .. Len(r.rq[g]) :
         old(g, i) = old(g, j) => i = j
  BY <1>1, <1>3
<1> HIDE DEF old
<1>7. \A g \in Hart : \A j \in 1 .. Len(s.rq[g]) :
        ~(g = h /\ j = p) =>
        \E i \in 1 .. Len(r.rq[g]) : r.rq[g][i] = s.rq[g][j]
  <2>1. ASSUME NEW j \in 1 .. n, j # p
        PROVE  \E i \in 1 .. Len(r.rq[h]) : r.rq[h][i] = s.rq[h][j]
    <3>1. CASE j < p
      <4>1. j \in 1 .. n - 1
        BY <3>1, <1>3
      <4>2. QED
        BY <4>1, <3>1, <1>4
    <3>2. CASE ~(j < p)
      <4>1. j - 1 \in 1 .. n - 1 /\ ~(j - 1 < p) /\ (j - 1) + 1 = j
        BY <2>1, <3>2, <1>3
      <4>2. QED
        BY <4>1, <3>2, <1>4
    <3>3. QED
      BY <3>1, <3>2
  <2>2. QED
    BY <2>1, <1>2
<1>8. \A g \in Hart : \A j \in 1 .. Len(s.rq[g]) :
        s.rq[g][j] = first => g = h /\ j = p
  BY <1>1, <1>3 DEF Queued
<1>9. ASSUME NEW g \in Hart, NEW i \in DOMAIN r.rq[g] PROVE r.rq[g][i] \in User
  <2>1. old(g, i) \in DOMAIN s.rq[g] /\ r.rq[g][i] = s.rq[g][old(g, i)]
    BY <1>1, <1>5
  <2>2. QED
    BY <2>1 DEF Queued
<1>10. ASSUME NEW u \in User PROVE r.state[u] = "RUNNABLE" <=> on_rq(r, u)
  <2>1. u \in Tid
    BY DEF User, Tid
  <2>2. on_rq(r, u) <=> \E g \in Hart : \E i \in DOMAIN r.rq[g] : r.rq[g][i] = u
    BY InQueue, Zenon
  <2>3. on_rq(s, u) <=> \E g \in Hart : \E i \in DOMAIN s.rq[g] : s.rq[g][i] = u
    BY InQueue, Zenon
  <2>4. ASSUME on_rq(r, u) PROVE on_rq(s, u) /\ u # first
    <3>1. PICK g \in Hart : \E i \in DOMAIN r.rq[g] : r.rq[g][i] = u
      BY <2>2, <2>4
    <3>2. PICK i \in 1 .. Len(r.rq[g]) : r.rq[g][i] = u
      BY <3>1, <1>1
    <3>3. PICK j \in 1 .. Len(s.rq[g]) : s.rq[g][j] = u /\ ~(g = h /\ j = p)
      BY <3>2, <1>5
    <3>4. QED
      BY <3>3, <2>3, <1>1, <1>8
  <2>5. ASSUME on_rq(s, u), u # first PROVE on_rq(r, u)
    <3>1. PICK g \in Hart : \E j \in DOMAIN s.rq[g] : s.rq[g][j] = u
      BY <2>3, <2>5
    <3>2. PICK j \in 1 .. Len(s.rq[g]) : s.rq[g][j] = u
      BY <3>1, <1>1
    <3>3. ~(g = h /\ j = p)
      BY <3>2, <2>5
    <3>4. \E i \in 1 .. Len(r.rq[g]) : r.rq[g][i] = u
      BY <3>2, <3>3, <1>7
    <3>5. QED
      BY <3>4, <2>2, <1>1
  <2>6. QED
    BY <2>1, <2>4, <2>5, <1>2, <1>3 DEF Queued
<1>11. ASSUME NEW f \in Hart, NEW g \in Hart,
              NEW i \in DOMAIN r.rq[f], NEW j \in DOMAIN r.rq[g],
              r.rq[f][i] = r.rq[g][j]
       PROVE  f = g /\ i = j
  <2>1. /\ old(f, i) \in DOMAIN s.rq[f] /\ old(g, j) \in DOMAIN s.rq[g]
        /\ s.rq[f][old(f, i)] = s.rq[g][old(g, j)]
    BY <1>1, <1>5, <1>11
  <2>2. f = g /\ old(f, i) = old(g, j)
    BY <2>1 DEF Queued
  <2>3. QED
    BY <2>2, <1>1, <1>6
<1>12. QED
  BY <1>9, <1>10, <1>11 DEF Queued

\* rq_pop_head keeps the queues consistent when the thread starts to run.
LEMMA PopQueued ==
  ASSUME NEW s, Typed(s), Queued(s), NEW h \in Hart, s.rq[h] # <<>>,
         NEW r, Typed(r),
         r.rq = [s.rq EXCEPT ![h] = SubSeq(@, 2, Len(@))],
         r.state = [s.state EXCEPT ![s.rq[h][1]] = "RUNNING"]
  PROVE  Queued(r)
<1> DEFINE n == Len(s.rq[h])
<1>1. s.rq[h] \in Seq(Tid) /\ n \in Nat \ {0}
  <2>1. s.rq[h] \in Seq(Tid)
    BY DEF Typed
  <2>2. QED
    BY <2>1
<1>2. \A g \in Hart \ {h} : r.rq[g] = s.rq[g]
  BY DEF Typed
<1>3. 1 \in 1 .. n /\ s.rq[h][1] \in Tid
  BY <1>1
<1>4. /\ Len(r.rq[h]) = n - 1
      /\ \A i \in 1 .. n - 1 : r.rq[h][i] = s.rq[h][i + 1]
  <2>1. r.rq[h] = SubSeq(s.rq[h], 2, n)
    BY DEF Typed
  <2>2. s.rq[h] \in Seq(Tid) /\ 2 \in 1 .. n + 1 /\ n \in 1 .. n
    BY <1>1
  <2>3. /\ Len(SubSeq(s.rq[h], 2, n)) = IF 2 <= n THEN n - 2 + 1 ELSE 0
        /\ \A i \in 1 .. n - 2 + 1 : SubSeq(s.rq[h], 2, n)[i] = s.rq[h][2 + i - 1]
    BY <2>2, SubSeqProperties
  <2>4. QED
    BY <2>1, <2>3, <1>1
<1>5. /\ r.state[s.rq[h][1]] # "RUNNABLE"
      /\ \A t \in Tid \ {s.rq[h][1]} : r.state[t] = s.state[t]
  BY <1>3 DEF Typed
<1> DEFINE p == 1
<1>6. LeavesQueue(r, s, h, p)
  BY <1>1, <1>2, <1>3, <1>4, <1>5 DEF LeavesQueue, WithoutEntry
<1>7. QED
  BY <1>6, UnlinkQueued

\* RemoveFirst drops one entry that is t.
LEMMA RemoveFirstFields ==
  ASSUME NEW q \in Seq(Tid), NEW t, t \in Range(q)
  PROVE  /\ RemoveFirst(q, t) \in Seq(Tid)
         /\ \E p \in 1 .. Len(q) :
              q[p] = t /\ WithoutEntry(RemoveFirst(q, t), q, p)
<1> DEFINE n == Len(q)
           I == {j \in 1 .. n : q[j] = t}
           p == Min(I)
           front == SubSeq(q, 1, p - 1)
           back == SubSeq(q, p + 1, n)
<1>1. n \in Nat /\ I \subseteq Nat /\ I # {}
  BY DEF Range
<1>2. p \in 1 .. n /\ q[p] = t
  BY <1>1, MinOfNats
<1>3. SelectInSeq(q, LAMBDA v : v = t) = p
  BY <1>1 DEF SelectInSeq
<1> HIDE DEF p
<1>4. RemoveFirst(q, t) = front \o back
  BY <1>2, <1>3 DEF RemoveFirst, RemoveAt
<1>5. /\ front \in Seq(Tid) /\ Len(front) = p - 1
      /\ \A i \in 1 .. p - 1 : front[i] = q[i]
  <2>1. 1 \in 1 .. n + 1 /\ p - 1 \in 0 .. n
    BY <1>1, <1>2
  <2>2. QED
    BY <2>1, <1>1, <1>2, SubSeqProperties
<1>6. /\ back \in Seq(Tid) /\ Len(back) = n - p
      /\ \A i \in 1 .. n - p : back[i] = q[p + i]
  <2>1. p + 1 \in 1 .. n + 1 /\ n \in 0 .. n
    BY <1>1, <1>2
  <2>2. QED
    BY <2>1, <1>1, <1>2, SubSeqProperties
<1> HIDE DEF front, back
<1>7. /\ front \o back \in Seq(Tid) /\ Len(front \o back) = n - 1
      /\ \A i \in 1 .. n - 1 :
           (front \o back)[i] = IF i < p THEN front[i] ELSE back[i - (p - 1)]
  <2>1. /\ front \o back \in Seq(Tid)
        /\ Len(front \o back) = Len(front) + Len(back)
        /\ \A i \in 1 .. Len(front) + Len(back) :
             (front \o back)[i] = IF i <= Len(front) THEN front[i]
                                  ELSE back[i - Len(front)]
    BY <1>5, <1>6, ConcatProperties
  <2>2. Len(front) + Len(back) = n - 1
    BY <1>1, <1>2, <1>5, <1>6
  <2>3. \A i \in 1 .. n - 1 : i <= p - 1 <=> i < p
    BY <1>1, <1>2
  <2>4. QED
    BY <2>1, <2>2, <2>3, <1>5
<1>8. ASSUME NEW i \in 1 .. n - 1
      PROVE  (front \o back)[i] = q[IF i < p THEN i ELSE i + 1]
  <2>1. CASE i < p
    BY <2>1, <1>1, <1>2, <1>5, <1>7
  <2>2. CASE ~(i < p)
    <3>1. i - (p - 1) \in 1 .. n - p /\ p + (i - (p - 1)) = i + 1
      BY <2>2, <1>1, <1>2
    <3>2. QED
      BY <2>2, <3>1, <1>6, <1>7
  <2>3. QED
    BY <2>1, <2>2
<1>9. WithoutEntry(front \o back, q, p)
  BY <1>7, <1>8 DEF WithoutEntry
<1>10. QED
  BY <1>2, <1>4, <1>7, <1>9

\* What rq_remove_any changes: one entry of t goes, if there is one.
Unlinked(r, s, t) ==
  /\ Frame(r, s, {"rq"})
  /\ \/ r.rq = s.rq /\ ~on_rq(s, t)
     \/ \E h \in Hart : \E p \in 1 .. Len(s.rq[h]) :
          /\ s.rq[h][p] = t
          /\ \A g \in Hart \ {h} : r.rq[g] = s.rq[g]
          /\ WithoutEntry(r.rq[h], s.rq[h], p)

\* rq_remove_any does that and keeps the record well typed.
LEMMA RemoveFields ==
  ASSUME NEW s, Typed(s), NEW t \in Tid
  PROVE  Unlinked(rq_remove_any(s, t), s, t) /\ Typed(rq_remove_any(s, t))
<1> DEFINE holders == {h \in Hart : t \in Range(s.rq[h])}
           h == Min(holders)
           q == RemoveFirst(s.rq[h], t)
           r == [s EXCEPT !.rq[h] = q]
<1>1. CASE holders = {}
  <2>1. rq_remove_any(s, t) = s /\ ~on_rq(s, t)
    BY <1>1 DEF rq_remove_any, on_rq
  <2>2. QED
    BY <2>1 DEF Unlinked, Frame, Typed
<1>2. CASE holders # {}
  <2>1. h \in Hart /\ t \in Range(s.rq[h])
    <3>1. holders \subseteq Nat
      BY DEF Hart
    <3>2. h \in holders
      BY <1>2, <3>1, MinOfNats
    <3>3. QED
      BY <3>2
  <2>2. rq_remove_any(s, t) = r
    BY <1>2 DEF rq_remove_any, rq_remove
  <2> HIDE DEF h, holders
  <2>3. s.rq[h] \in Seq(Tid)
    BY <2>1 DEF Typed
  <2>4. /\ q \in Seq(Tid)
        /\ \E p \in 1 .. Len(s.rq[h]) :
             s.rq[h][p] = t /\ WithoutEntry(q, s.rq[h], p)
    BY <2>1, <2>3, RemoveFirstFields
  <2> HIDE DEF q
  <2>5. Frame(r, s, {"rq"}) /\ r.rq = [s.rq EXCEPT ![h] = q]
    BY <2>1 DEF Frame, Fields, Typed
  <2> HIDE DEF r
  <2>6. /\ r.rq \in [Hart -> Seq(Tid)] /\ r.rq[h] = q
        /\ \A g \in Hart \ {h} : r.rq[g] = s.rq[g]
    BY <2>1, <2>4, <2>5, SMTT(30) DEF Typed
  <2>7. Typed(r)
    BY <2>5, <2>6 DEF Frame, Fields, Typed
  <2>8. Unlinked(r, s, t)
    BY <2>1, <2>4, <2>5, <2>6, Zenon DEF Unlinked
  <2>9. QED
    BY <2>2, <2>7, <2>8
<1>3. QED
  BY <1>1, <1>2

\* The second half of schedule gives hart h a thread and everything is in
\* place again.
LEMMA SwitchInConsistent ==
  ASSUME NEW s, Typed(s), NEW h \in Hart, s.online[h],
         Placed(s, Hart \ {h}, {}), Queued(s),
         NEW r, Typed(r), SwitchedIn(r, s, h)
  PROVE  Placed(r, Hart, {}) /\ Queued(r)
<1> DEFINE q == s.rq[h]
<1>1. h \in Tid /\ h \notin User /\ User \subseteq Tid /\ NONE \notin Tid
  BY DEF User, Hart, Tid, NONE
<1>2. PICK next \in Tid :
    /\ \A g \in Hart : r.current[g] = IF g = h THEN next ELSE s.current[g]
    /\ r.online = s.online
    /\ r.state = [s.state EXCEPT ![next] = "RUNNING"]
    /\ r.running_hart = [s.running_hart EXCEPT ![next] = h]
    /\ r.wakeup_tick = s.wakeup_tick /\ r.join_waiter = s.join_waiter
    /\ \/ /\ next = h
          /\ \A j \in 1 .. Len(s.rq[h]) : s.state[s.rq[h][j]] # "RUNNABLE"
          /\ r.rq = [s.rq EXCEPT ![h] = <<>>]
       \/ \E i \in 1 .. Len(s.rq[h]) :
            /\ next = s.rq[h][i] /\ s.state[next] = "RUNNABLE"
            /\ \A j \in 1 .. i - 1 : s.state[s.rq[h][j]] # "RUNNABLE"
            /\ r.rq = [s.rq EXCEPT ![h] = SubSeq(s.rq[h], i + 1, Len(s.rq[h]))]
  BY DEF SwitchedIn
<1>3. /\ \A t \in Tid : r.state[t] = IF t = next THEN "RUNNING" ELSE s.state[t]
      /\ \A t \in Tid : r.running_hart[t] = IF t = next THEN h ELSE s.running_hart[t]
  <2>1. /\ r.state = [s.state EXCEPT ![next] = "RUNNING"]
        /\ r.running_hart = [s.running_hart EXCEPT ![next] = h]
    BY <1>2
  <2>2. s.state \in [Tid -> States] /\ s.running_hart \in [Tid -> Hart \cup {NONE}]
    BY DEF Typed
  <2>3. QED
    BY <2>1, <2>2
<1>4. q \in Seq(Tid) /\ DOMAIN q = 1 .. Len(q) /\ Len(q) \in Nat
  <2>1. q \in Seq(Tid)
    BY DEF Typed
  <2>2. QED
    BY <2>1
<1>5. \A j \in 1 .. Len(q) : q[j] \in User /\ s.state[q[j]] = "RUNNABLE"
  <2>1. \A j \in 1 .. Len(q) : q[j] \in User
    BY <1>4 DEF Queued
  <2>2. \A j \in 1 .. Len(q) : on_rq(s, q[j])
    BY OnRq
  <2>3. QED
    BY <2>1, <2>2 DEF Queued
<1>6. \/ next = h /\ q = <<>> /\ r.rq = s.rq
      \/ /\ q # <<>> /\ next = q[1] /\ next \in User /\ s.state[next] = "RUNNABLE"
         /\ r.rq = [s.rq EXCEPT ![h] = SubSeq(@, 2, Len(@))]
  <2>1. CASE /\ next = h
             /\ \A j \in 1 .. Len(q) : s.state[q[j]] # "RUNNABLE"
             /\ r.rq = [s.rq EXCEPT ![h] = <<>>]
    <3>1. q = <<>>
      BY <2>1, <1>4, <1>5
    <3>2. s.rq \in [Hart -> Seq(Tid)]
      BY DEF Typed
    <3>3. r.rq = s.rq
      BY <2>1, <3>1, <3>2
    <3>4. QED
      BY <2>1, <3>1, <3>3
  <2>2. CASE \E i \in 1 .. Len(q) :
               /\ next = q[i] /\ s.state[next] = "RUNNABLE"
               /\ \A j \in 1 .. i - 1 : s.state[q[j]] # "RUNNABLE"
               /\ r.rq = [s.rq EXCEPT ![h] = SubSeq(s.rq[h], i + 1, Len(s.rq[h]))]
    <3>1. PICK i \in 1 .. Len(q) :
               /\ next = q[i] /\ s.state[next] = "RUNNABLE"
               /\ \A j \in 1 .. i - 1 : s.state[q[j]] # "RUNNABLE"
               /\ r.rq = [s.rq EXCEPT ![h] = SubSeq(s.rq[h], i + 1, Len(s.rq[h]))]
      BY <2>2
    <3>2. i = 1
      BY <3>1, <1>4, <1>5
    <3>3. r.rq = [s.rq EXCEPT ![h] = SubSeq(@, 2, Len(@))]
      BY <3>1, <3>2
    <3>4. q # <<>> /\ next = q[1] /\ next \in User /\ s.state[next] = "RUNNABLE"
      BY <3>1, <3>2, <1>4, <1>5
    <3>5. QED
      BY <3>3, <3>4
  <2>3. QED
    BY <1>2, <2>1, <2>2, Zenon
<1>7. \A g \in Hart \ {h} : s.current[g] # next
  <2>1. CASE next = h
    BY <2>1, <1>1 DEF Placed, Hart, NONE
  <2>2. CASE next # h
    BY <2>2, <1>6 DEF Placed
  <2>3. QED
    BY <2>1, <2>2
<1>8. Queued(r)
  <2>1. CASE next = h /\ r.rq = s.rq
    <3>1. \A t \in User : r.state[t] = s.state[t]
      BY <2>1, <1>1, <1>3
    <3>2. QED
      BY <2>1, <3>1 DEF Queued, on_rq
  <2>2. CASE q # <<>> /\ next = q[1] /\ r.rq = [s.rq EXCEPT ![h] = SubSeq(@, 2, Len(@))]
    BY <2>2, <1>2, PopQueued
  <2>3. QED
    BY <1>6, <2>1, <2>2
<1>9. Placed(r, Hart, {})
  <2>1. ASSUME NEW t \in Tid
        PROVE  r.state[t] = "RUNNING" <=> \E g \in Hart : r.current[g] = t
    BY <1>3, <1>2 DEF Placed
  <2>2. ASSUME NEW t \in Tid, NEW g \in Hart
        PROVE  r.running_hart[t] = g <=> g \in Hart /\ r.current[g] = t
    BY <1>3, <1>2, <1>7 DEF Placed
  <2>3. \A g \in Hart : r.current[g] \in User \cup {g, NONE}
    BY <1>2, <1>6 DEF Placed
  <2>4. \A g \in Hart : ~r.online[g] => r.current[g] = NONE
    BY <1>2 DEF Placed
  <2>5. QED
    BY <2>1, <2>2, <2>3, <2>4, <1>2 DEF Placed
<1>10. QED
  BY <1>8, <1>9

\* Two gentle steps make a gentle step.
LEMMA GentleTransitive ==
  ASSUME NEW s, NEW m, NEW r, Gentle(m, s), Gentle(r, m)
  PROVE  Gentle(r, s)
BY DEF Gentle

\* schedule keeps the record well typed and is gentle.
LEMMA ScheduleTyped ==
  ASSUME NEW s, Typed(s), NEW h \in Hart, s.current[h] # NONE
  PROVE  Typed(schedule(s, h)) /\ Gentle(schedule(s, h), s)
<1> DEFINE m == switch_out(s, h)
           r == switch_in(m, h)
<1>1. Typed(m) /\ Gentle(m, s)
  BY SwitchOutFields
<1> HIDE DEF m
<1>2. Typed(r) /\ Gentle(r, m)
  BY <1>1, SwitchInFields
<1>3. QED
  BY <1>1, <1>2, GentleTransitive DEF schedule, m

\* schedule ends a handler: it puts the current thread of hart h where its
\* state says, whatever state other than RUNNABLE the handler gave it.
LEMMA ScheduleConsistent ==
  ASSUME NEW s, Typed(s), NEW h \in Hart, s.current[h] # NONE,
         Placed(s, Hart \ {h}, {s.current[h]}), Queued(s),
         s.current[h] \in User => s.state[s.current[h]] # "RUNNABLE"
  PROVE  Placed(schedule(s, h), Hart, {}) /\ Queued(schedule(s, h))
<1> DEFINE m == switch_out(s, h)
           r == switch_in(m, h)
<1>1. Typed(m) /\ Gentle(m, s) /\ SwitchedOut(m, s, h)
  BY SwitchOutFields
<1> HIDE DEF m
<1>2. Placed(m, Hart \ {h}, {}) /\ Queued(m)
  BY <1>1, SwitchOutConsistent
<1>3. m.online[h]
  BY <1>1 DEF SwitchedOut, Placed
<1>4. Typed(r) /\ SwitchedIn(r, m, h)
  BY <1>1, SwitchInFields
<1>5. QED
  BY <1>1, <1>2, <1>3, <1>4, SwitchInConsistent DEF schedule, m

\* thread_make_runnable keeps threads in place and queues consistent, also
\* in the middle of a handler, unless the thread is the one being handled.
LEMMA MakeRunnableConsistent ==
  ASSUME NEW s, Typed(s), NEW H, H \subseteq Hart, NEW X,
         Placed(s, H, X), Queued(s),
         NEW t \in Tid \ X, NEW r, MadeRunnable(r, s, t)
  PROVE  Placed(r, H, X) /\ Queued(r)
<1>1. CASE r = s
  BY <1>1
<1>2. CASE r # s
  <2>1. Typed(r)
    BY MakeRunnableTyped
  <2>2. /\ t \in User /\ ~on_rq(s, t) /\ s.state[t] # "RUNNING"
        /\ Frame(r, s, {"rq", "state", "wakeup_tick", "ipi"})
        /\ \E g \in Hart : r.rq = [s.rq EXCEPT ![g] = Append(@, t)]
        /\ r.state = [s.state EXCEPT ![t] = "RUNNABLE"]
    BY <1>2, Zenon DEF MadeRunnable
  <2>3. Queued(r)
    <3>1. PICK g \in Hart : r.rq = [s.rq EXCEPT ![g] = Append(@, t)]
      BY <2>2
    <3>2. QED
      BY <3>1, <2>1, <2>2, PushQueued
  <2>4. /\ r.running_hart = s.running_hart /\ r.current = s.current
        /\ r.online = s.online /\ r.join_waiter = s.join_waiter
    BY <2>2 DEF Frame, Fields
  <2>5. \A u \in Tid : r.state[u] = "RUNNING" <=> s.state[u] = "RUNNING"
    BY <2>2 DEF Typed
  <2>6. QED
    BY <2>3, <2>4, <2>5 DEF Placed
<1>3. QED
  BY <1>1, <1>2

\* thread_make_runnable is gentle and switches no hart.
LEMMA MakeRunnableGentle ==
  ASSUME NEW s, Typed(s), NEW t \in Tid, NEW r, MadeRunnable(r, s, t)
  PROVE  Gentle(r, s) /\ r.current = s.current
<1>1. CASE r = s
  BY <1>1 DEF Gentle
<1>2. CASE r # s
  <2>1. /\ Frame(r, s, {"rq", "state", "wakeup_tick", "ipi"})
        /\ r.state = [s.state EXCEPT ![t] = "RUNNABLE"]
        /\ r.wakeup_tick = [s.wakeup_tick EXCEPT ![t] = 0]
    BY <1>2, Zenon DEF MadeRunnable
  <2>2. r.current = s.current /\ r.join_waiter = s.join_waiter
    BY <2>1 DEF Frame, Fields
  <2>3. QED
    BY <2>1, <2>2 DEF Gentle, Typed
<1>3. QED
  BY <1>1, <1>2

\* recycle_thread keeps threads in place and queues consistent for a thread
\* that neither runs nor is queued, or is the one being handled.
LEMMA RecycleConsistent ==
  ASSUME NEW s, Typed(s), NEW H, H \subseteq Hart, NEW X,
         Placed(s, H, X), Queued(s),
         NEW t \in Tid, t \in X \/ s.state[t] # "RUNNING",
         t \in User => s.state[t] # "RUNNABLE",
         NEW r, Recycled(r, s, t)
  PROVE  Placed(r, H, X) /\ Queued(r)
<1>1. /\ r.current = s.current /\ r.online = s.online /\ r.rq = s.rq
      /\ r.state = [s.state EXCEPT ![t] = "UNUSED"]
      /\ r.join_waiter = [s.join_waiter EXCEPT ![t] = NONE]
      /\ r.running_hart = [s.running_hart EXCEPT ![t] = NONE]
  BY DEF Recycled, Frame, Fields
<1>2. \A u \in Tid : /\ r.state[u] = IF u = t THEN "UNUSED" ELSE s.state[u]
                     /\ r.join_waiter[u] = IF u = t THEN NONE ELSE s.join_waiter[u]
                     /\ r.running_hart[u] = IF u = t THEN NONE ELSE s.running_hart[u]
  BY <1>1 DEF Typed
<1>3. \A u \in Tid \ X : r.state[u] = "RUNNING" <=> \E g \in H : r.current[g] = u
  BY <1>1, <1>2 DEF Placed
<1>4. ASSUME NEW u \in Tid \ X, NEW g \in Hart
      PROVE  r.running_hart[u] = g <=> g \in H /\ r.current[g] = u
  <2>1. CASE u = t
    <3>1. NONE # g
      BY DEF NONE, Hart
    <3>2. \A f \in H : s.current[f] # u
      BY <2>1 DEF Placed
    <3>3. QED
      BY <2>1, <3>1, <3>2, <1>1, <1>2
  <2>2. CASE u # t
    BY <2>2, <1>1, <1>2 DEF Placed
  <2>3. QED
    BY <2>1, <2>2
<1>5. \A u \in Tid : r.join_waiter[u] # u
  BY <1>2 DEF Placed, NONE, Tid
<1>6. Placed(r, H, X)
  BY <1>1, <1>3, <1>4, <1>5 DEF Placed
<1>7. Queued(r)
  <2>1. \A u \in User : u \in Tid
    BY DEF User, Tid
  <2>2. \A u \in User : r.state[u] = "RUNNABLE" <=> s.state[u] = "RUNNABLE"
    BY <1>2, <2>1
  <2>3. QED
    BY <1>1, <2>2 DEF Queued, on_rq
<1>8. QED
  BY <1>6, <1>7

\* recycle_thread is gentle and switches no hart.
LEMMA RecycleGentle ==
  ASSUME NEW s, Typed(s), NEW t \in Tid, NEW r, Recycled(r, s, t)
  PROVE  Gentle(r, s) /\ r.current = s.current
<1>1. /\ r.current = s.current
      /\ r.state = [s.state EXCEPT ![t] = "UNUSED"]
      /\ r.wakeup_tick = [s.wakeup_tick EXCEPT ![t] = 0]
      /\ r.join_waiter = [s.join_waiter EXCEPT ![t] = NONE]
  BY DEF Recycled, Frame, Fields
<1>2. QED
  BY <1>1 DEF Gentle, Typed

\* A trap on hart h: the record between two traps is one in which the
\* current thread of h is exempt.
LEMMA TakeTrap ==
  ASSUME NEW s, Typed(s), NEW h \in Hart, s.current[h] # NONE,
         Placed(s, Hart, {})
  PROVE  Placed(s, Hart \ {h}, {s.current[h]}) /\ s.state[s.current[h]] = "RUNNING"
<1>1. s.current[h] \in Tid
  BY DEF Typed
<1>2. s.running_hart[s.current[h]] = h
  BY <1>1 DEF Placed
<1>3. \A g \in Hart \ {h} : s.current[g] # s.current[h]
  BY <1>1, <1>2 DEF Placed
<1>4. \A t \in Tid \ {s.current[h]} :
        s.state[t] = "RUNNING" <=> \E g \in Hart \ {h} : s.current[g] = t
  BY DEF Placed
<1>5. \A t \in Tid \ {s.current[h]}, g \in Hart :
        s.running_hart[t] = g <=> g \in Hart \ {h} /\ s.current[g] = t
  BY DEF Placed
<1>6. QED
  BY <1>1, <1>3, <1>4, <1>5 DEF Placed

----------------------------------------------------------------------------
(* The handlers.                                                           *)

USE SyscallsAssumption, ArgumentsAssumption

\* What a handler keeps of the memory, for any set D: it is well typed and no
\* thread outside D is overdue.
Sound(s, D) == Typed(s) /\ Due(s) \subseteq D

\* Threads, harts and run queues agree.
Consistent(s) == Placed(s, Hart, {}) /\ Queued(s)

\* A gentle change of a record makes no sleeper overdue.
LEMMA GentleSound ==
  ASSUME NEW s, NEW D, Due(s) \subseteq D, NEW r, Typed(r), Gentle(r, s)
  PROVE  Sound(r, D)
BY DEF Sound, Due, Gentle

\* The state of a user thread that gives up its CPU may be set to anything
\* but RUNNABLE before schedule is called.
LEMMA LeaveCpu ==
  ASSUME NEW s, Typed(s), NEW h \in Hart, s.current[h] \in User, Consistent(s),
         NEW m, Typed(m), m.current = s.current, m.online = s.online,
         m.running_hart = s.running_hart, m.rq = s.rq,
         m.state[s.current[h]] # "RUNNABLE",
         \A t \in Tid \ {s.current[h]} : m.state[t] = s.state[t],
         \A t \in Tid : m.join_waiter[t] # t
  PROVE  /\ Placed(m, Hart \ {h}, {m.current[h]}) /\ Queued(m)
         /\ m.state[m.current[h]] # "RUNNABLE"
<1> DEFINE cur == s.current[h]
<1>1. cur \in Tid /\ cur # NONE /\ User \subseteq Tid
  BY DEF User, Tid, NONE
<1>2. \A t \in Tid \ {cur} : m.state[t] = s.state[t]
  OBVIOUS
<1>3. Placed(s, Hart \ {h}, {cur}) /\ s.state[cur] = "RUNNING"
  BY <1>1, TakeTrap DEF Consistent
<1>4. Placed(m, Hart \ {h}, {cur})
  BY <1>2, <1>3 DEF Placed
<1>5. Queued(m)
  <2>1. \A t \in User : m.state[t] = "RUNNABLE" <=> s.state[t] = "RUNNABLE"
    BY <1>1, <1>2, <1>3
  <2>2. QED
    BY <2>1 DEF Queued, on_rq, Consistent
<1>6. QED
  BY <1>1, <1>2, <1>4, <1>5

\* schedule at the end of a handler that leaves the current thread RUNNING.
LEMMA ScheduleStep ==
  ASSUME NEW s, NEW D, Sound(s, D), NEW h \in Hart, s.current[h] # NONE
  PROVE  /\ Sound(schedule(s, h), D)
         /\ Consistent(s) => Consistent(schedule(s, h))
<1>1. Sound(schedule(s, h), D)
  BY ScheduleTyped, GentleSound DEF Sound
<1>2. ASSUME Consistent(s) PROVE Consistent(schedule(s, h))
  <2>1. Placed(s, Hart \ {h}, {s.current[h]}) /\ s.state[s.current[h]] = "RUNNING"
    BY <1>2, TakeTrap DEF Consistent, Sound
  <2>2. QED
    BY <1>2, <2>1, ScheduleConsistent DEF Consistent, Sound
<1>3. QED
  BY <1>1, <1>2

\* cpu_init_this_hart, also in the middle of threads_tick: a hart comes up
\* without the lock.
LEMMA HartOnlineStep ==
  ASSUME NEW s, Typed(s), NEW h \in Hart, ~s.online[h]
  PROVE  LET r == cpu_init_this_hart(s, h)
         IN  /\ Typed(r) /\ Due(r) = Due(s)
             /\ \A g \in Hart \ {h} : r.current[g] = s.current[g]
             /\ Consistent(s) => Consistent(r)
<1> DEFINE r == cpu_init_this_hart(s, h)
<1>1. /\ Frame(r, s, {"online", "current", "slice_left"})
      /\ r.online = [s.online EXCEPT ![h] = TRUE]
      /\ r.current = [s.current EXCEPT ![h] = NONE]
      /\ r.slice_left = [s.slice_left EXCEPT ![h] = SCHED_SLICE_TICKS]
  BY DEF cpu_init_this_hart, Frame, Fields, Typed
<1> HIDE DEF r
<1>2. Typed(r)
  BY <1>1 DEF Frame, Fields, Typed
<1>3. r.state = s.state /\ r.wakeup_tick = s.wakeup_tick /\ r.rq = s.rq
      /\ r.join_waiter = s.join_waiter /\ r.running_hart = s.running_hart
  BY <1>1 DEF Frame, Fields
<1>4. Due(r) = Due(s) /\ \A g \in Hart \ {h} : r.current[g] = s.current[g]
  BY <1>1, <1>3 DEF Due, Typed
<1>5. ASSUME Consistent(s) PROVE Consistent(r)
  <2>1. s.current[h] = NONE
    BY <1>5 DEF Consistent, Placed
  <2>2. r.current = s.current
    BY <2>1, <1>1 DEF Typed
  <2>3. \A g \in Hart : ~r.online[g] => ~s.online[g]
    BY <1>1 DEF Typed
  <2>4. Placed(r, Hart, {})
    BY <1>3, <1>5, <2>2, <2>3 DEF Consistent, Placed
  <2>5. QED
    BY <1>3, <1>5, <2>4 DEF Consistent, Queued, on_rq
<1>6. QED
  BY <1>2, <1>4, <1>5 DEF r

\* cpu_enter_idle, also in the middle of threads_tick.
LEMMA EnterIdleStep ==
  ASSUME NEW s, Typed(s), NEW h \in Hart, s.online[h], s.current[h] = NONE
  PROVE  LET r == cpu_enter_idle(s, h)
         IN  /\ Typed(r) /\ Due(r) \subseteq Due(s)
             /\ \A g \in Hart : s.current[g] # NONE => r.current[g] # NONE
             /\ Consistent(s) => Consistent(r)
<1> DEFINE r == cpu_enter_idle(s, h)
<1>1. h \in Tid /\ h \notin User /\ User \subseteq Tid /\ NONE \notin Tid
  BY DEF Hart, Tid, User, NONE
<1>2. /\ Frame(r, s, {"current", "state", "running_hart"})
      /\ r.current = [s.current EXCEPT ![h] = h]
      /\ r.state = [s.state EXCEPT ![h] = "RUNNING"]
      /\ r.running_hart = [s.running_hart EXCEPT ![h] = h]
  BY <1>1 DEF cpu_enter_idle, Frame, Fields, Typed
<1> HIDE DEF r
<1>3. Typed(r)
  <2>1. /\ r.state \in [Tid -> States] /\ r.current \in [Hart -> Tid \cup {NONE}]
        /\ r.running_hart \in [Tid -> Hart \cup {NONE}]
    BY <1>1, <1>2 DEF Typed, States
  <2>2. QED
    BY <1>2, <2>1 DEF Frame, Fields, Typed
<1>4. r.online = s.online /\ r.wakeup_tick = s.wakeup_tick /\ r.rq = s.rq
      /\ r.join_waiter = s.join_waiter
  BY <1>2 DEF Frame, Fields
<1>5. \A t \in Tid : /\ r.state[t] = IF t = h THEN "RUNNING" ELSE s.state[t]
                     /\ r.running_hart[t] = IF t = h THEN h ELSE s.running_hart[t]
  BY <1>2 DEF Typed
<1>6. \A g \in Hart : r.current[g] = IF g = h THEN h ELSE s.current[g]
  BY <1>2 DEF Typed
<1>7. Due(r) \subseteq Due(s)
  BY <1>4, <1>5 DEF Due
<1>8. \A g \in Hart : s.current[g] # NONE => r.current[g] # NONE
  BY <1>1, <1>6
<1>9. ASSUME Consistent(s) PROVE Consistent(r)
  <2>1. \A g \in Hart : s.current[g] # h
    BY <1>9, <1>1 DEF Consistent, Placed
  <2>2. Placed(r, Hart, {})
    <3>1. \A t \in Tid : r.state[t] = "RUNNING" <=> \E g \in Hart : r.current[g] = t
      BY <1>1, <1>5, <1>6, <1>9, <2>1 DEF Consistent, Placed
    <3>2. \A t \in Tid, g \in Hart :
            r.running_hart[t] = g <=> g \in Hart /\ r.current[g] = t
      BY <1>1, <1>5, <1>6, <1>9, <2>1 DEF Consistent, Placed
    <3>3. QED
      BY <3>1, <3>2, <1>4, <1>6, <1>9 DEF Consistent, Placed
  <2>3. \A t \in User : r.state[t] = s.state[t]
    BY <1>1, <1>5
  <2>4. QED
    BY <1>4, <1>9, <2>2, <2>3 DEF Consistent, Queued, on_rq
<1>10. QED
  BY <1>3, <1>7, <1>9, <1>8 DEF r

\* sched_on_ipi_irq.
LEMMA IpiStep ==
  ASSUME NEW s, NEW D, Sound(s, D), NEW h \in Hart, s.current[h] # NONE
  PROVE  LET r == sched_on_ipi_irq(s, h)
         IN  Sound(r, D) /\ (Consistent(s) => Consistent(r))
<1> DEFINE m == [s EXCEPT !.ipi[h] = FALSE]
<1>1. Frame(m, s, {"ipi"}) /\ m.ipi = [s.ipi EXCEPT ![h] = FALSE]
  BY DEF Frame, Fields, Typed, Sound
<1> HIDE DEF m
<1>2. Typed(m)
  <2>1. DOMAIN m = Fields /\ \A f \in Fields \ {"ipi"} : m[f] = s[f]
    BY <1>1 DEF Frame
  <2>2. m.ipi \in [Hart -> BOOLEAN]
    BY <1>1 DEF Typed, Sound
  <2>3. QED
    BY ONLY <2>1, <2>2, Sound(s, D) DEF Fields, Typed, Sound
<1>3. /\ m.state = s.state /\ m.wakeup_tick = s.wakeup_tick /\ m.rq = s.rq
      /\ m.join_waiter = s.join_waiter /\ m.running_hart = s.running_hart
      /\ m.current = s.current /\ m.online = s.online
  BY <1>1 DEF Frame, Fields
<1>4. Sound(m, D)
  BY <1>2, <1>3 DEF Sound, Due
<1>5. Consistent(s) => Consistent(m)
  BY <1>3 DEF Consistent, Placed, Queued, on_rq
<1>6. QED
  BY <1>3, <1>4, <1>5, ScheduleStep DEF sched_on_ipi_irq, m

\* A system call that changes the state of its caller and calls schedule.
LEMMA BlockStep ==
  ASSUME NEW s, NEW D, Sound(s, D), NEW h \in Hart, s.current[h] \in User,
         NEW m, Sound(m, D), m.current = s.current, m.online = s.online,
         m.running_hart = s.running_hart, m.rq = s.rq,
         m.state[s.current[h]] # "RUNNABLE",
         \A t \in Tid \ {s.current[h]} : m.state[t] = s.state[t],
         Consistent(s) => \A t \in Tid : m.join_waiter[t] # t
  PROVE  /\ Sound(schedule(m, h), D)
         /\ Consistent(s) => Consistent(schedule(m, h))
<1>1. m.current[h] # NONE
  BY DEF User, NONE
<1>2. Sound(schedule(m, h), D)
  BY <1>1, ScheduleStep
<1>3. ASSUME Consistent(s) PROVE Consistent(schedule(m, h))
  <2>1. Typed(s) /\ Typed(m)
    BY DEF Sound
  <2>2. /\ Placed(m, Hart \ {h}, {m.current[h]}) /\ Queued(m)
        /\ m.state[m.current[h]] # "RUNNABLE"
    BY <1>3, <2>1, LeaveCpu
  <2>3. QED
    BY <1>1, <2>1, <2>2, ScheduleConsistent DEF Consistent
<1>4. QED
  BY <1>2, <1>3

\* thread_sys_sleep, and with no ticks thread_sys_yield.
LEMMA SleepStep ==
  ASSUME NEW s, NEW D, Sound(s, D), NEW h \in Hart, s.current[h] \in User, NEW n \in Nat
  PROVE  LET r == thread_sys_sleep(s, h, n)
         IN  Sound(r, D) /\ (Consistent(s) => Consistent(r))
<1> DEFINE cur == s.current[h]
           m == [s EXCEPT !.state[cur] = "SLEEPING", !.wakeup_tick[cur] = n]
<1>1. cur \in Tid /\ cur # NONE
  BY DEF User, Tid, NONE
<1>2. CASE n = 0
  BY <1>1, <1>2, ScheduleStep DEF thread_sys_sleep
<1>3. CASE n # 0
  <2>1. /\ Frame(m, s, {"state", "wakeup_tick"})
        /\ m.state = [s.state EXCEPT ![cur] = "SLEEPING"]
        /\ m.wakeup_tick = [s.wakeup_tick EXCEPT ![cur] = n]
    BY <1>1 DEF Frame, Fields, Typed, Sound
  <2> HIDE DEF m
  <2>2. /\ m.state \in [Tid -> States] /\ m.wakeup_tick \in [Tid -> Nat]
        /\ m.state[cur] = "SLEEPING" /\ m.wakeup_tick[cur] = n
        /\ \A t \in Tid \ {cur} : /\ m.state[t] = s.state[t]
                                  /\ m.wakeup_tick[t] = s.wakeup_tick[t]
    BY <1>1, <2>1 DEF Typed, Sound, States
  <2>3. Typed(m)
    BY <2>1, <2>2 DEF Frame, Fields, Typed, Sound
  <2>4. /\ m.rq = s.rq /\ m.join_waiter = s.join_waiter /\ m.online = s.online
        /\ m.running_hart = s.running_hart /\ m.current = s.current
    BY <2>1 DEF Frame, Fields
  <2>5. Sound(m, D)
    BY <1>3, <2>2, <2>3 DEF Sound, Due
  <2>6. m.state[s.current[h]] # "RUNNABLE"
    BY <2>2
  <2>7. Consistent(s) => \A t \in Tid : m.join_waiter[t] # t
    BY <2>4 DEF Consistent, Placed
  <2>8. Sound(schedule(m, h), D) /\ (Consistent(s) => Consistent(schedule(m, h)))
    BY <2>2, <2>4, <2>5, <2>6, <2>7, BlockStep
  <2>9. QED
    BY <1>3, <2>8 DEF thread_sys_sleep, m
<1>4. QED
  BY <1>2, <1>3

\* m and s differ in nothing that placement, queues and sleepers depend on.
SameCore(m, s) ==
  /\ m.state = s.state /\ m.wakeup_tick = s.wakeup_tick /\ m.rq = s.rq
  /\ m.join_waiter = s.join_waiter /\ m.running_hart = s.running_hart
  /\ m.current = s.current /\ m.online = s.online

\* A handler that touches none of that.
LEMMA CoreStep ==
  ASSUME NEW s, NEW D, Sound(s, D), NEW m, Typed(m), SameCore(m, s)
  PROVE  Sound(m, D) /\ (Consistent(s) => Consistent(m))
<1>1. Sound(m, D)
  BY DEF Sound, Due, SameCore
<1>2. Consistent(s) => Consistent(m)
  BY DEF Consistent, Placed, Queued, on_rq, SameCore
<1>3. QED
  BY <1>1, <1>2

\* thread_sys_create.
LEMMA CreateStep ==
  ASSUME NEW s, NEW D, Sound(s, D), NEW h \in Hart
  PROVE  LET r == thread_sys_create(s, h)
         IN  Sound(r, D) /\ (Consistent(s) => Consistent(r))
<1> DEFINE t == Min(FreeSlots(s))
           m == [s EXCEPT !.state[t] = "RUNNABLE", !.wakeup_tick[t] = 0,
                          !.detached[t] = FALSE, !.ret[t] = "none"]
           r == thread_make_runnable(m, h, t, h)
<1>1. CASE FreeSlots(s) = {}
  BY <1>1 DEF thread_sys_create
<1>2. CASE FreeSlots(s) # {}
  <2>1. t \in Tid /\ s.state[t] = "UNUSED"
    <3>1. FreeSlots(s) \subseteq Nat
      BY DEF FreeSlots, Tid
    <3>2. t \in FreeSlots(s)
      BY <1>2, <3>1, MinOfNats
    <3>3. QED
      BY <3>2 DEF FreeSlots
  <2>2. thread_sys_create(s, h) = r
    BY <1>2 DEF thread_sys_create
  <2> HIDE DEF t
  <2>3. /\ Frame(m, s, {"state", "wakeup_tick", "detached", "ret"})
        /\ m.state = [s.state EXCEPT ![t] = "RUNNABLE"]
        /\ m.wakeup_tick = [s.wakeup_tick EXCEPT ![t] = 0]
        /\ m.detached = [s.detached EXCEPT ![t] = FALSE]
        /\ m.ret = [s.ret EXCEPT ![t] = "none"]
    BY <2>1 DEF Frame, Fields, Typed, Sound
  <2> HIDE DEF m
  <2>4. Typed(m)
    <3>1. /\ m.state \in [Tid -> States] /\ m.wakeup_tick \in [Tid -> Nat]
          /\ m.detached \in [Tid -> BOOLEAN]
          /\ m.ret \in [Tid -> Codes \cup {"none", "due", "read"}]
      BY <2>1, <2>3 DEF Typed, Sound, States
    <3>2. /\ DOMAIN m = Fields
          /\ m.running_hart = s.running_hart /\ m.exit_code = s.exit_code /\ m.join_waiter = s.join_waiter
          /\ m.waiting_for = s.waiting_for /\ m.pending_read = s.pending_read /\ m.current = s.current
          /\ m.slice_left = s.slice_left /\ m.online = s.online /\ m.ipi = s.ipi /\ m.rq = s.rq
          /\ m.rx = s.rx /\ m.g_stdin_waiter = s.g_stdin_waiter
      BY ONLY <2>3 DEF Frame, Fields
    <3>3. QED
      BY ONLY <3>1, <3>2, Sound(s, D) DEF Typed, Sound
  <2>5. /\ m.rq = s.rq /\ m.join_waiter = s.join_waiter /\ m.online = s.online
        /\ m.running_hart = s.running_hart /\ m.current = s.current
    BY <2>3 DEF Frame, Fields
  <2>6. \A u \in Tid : /\ m.state[u] = IF u = t THEN "RUNNABLE" ELSE s.state[u]
                       /\ m.wakeup_tick[u] = IF u = t THEN 0 ELSE s.wakeup_tick[u]
    BY <2>1, <2>3 DEF Sound, Typed
  <2>7. MadeRunnable(r, m, t)
    BY <2>1, <2>4, MakeRunnableFields
  <2> HIDE DEF r
  <2>8. Typed(r) /\ Gentle(r, m)
    BY <2>1, <2>4, <2>7, MakeRunnableTyped, MakeRunnableGentle
  <2>9. Due(m) \subseteq D
    BY <2>6 DEF Sound, Due
  <2>10. Sound(r, D)
    BY <2>8, <2>9, GentleSound
  <2>11. ASSUME Consistent(s) PROVE Consistent(r)
    <3>1. User \subseteq Tid
      BY DEF User, Tid
    <3>2. t \in User => ~on_rq(s, t)
      BY <2>1, <2>11 DEF Consistent, Queued
    <3>3. on_rq(m, t) <=> on_rq(s, t)
      BY <2>5 DEF on_rq
    <3>4. Placed(m, Hart, {})
      BY <2>1, <2>5, <2>6, <2>11 DEF Consistent, Placed
    <3>5. CASE t \notin User
      <4>1. r = m
        BY <3>5, <2>7, Zenon DEF MadeRunnable
      <4>2. \A u \in User : m.state[u] = s.state[u]
        BY <3>1, <3>5, <2>6
      <4>3. QED
        BY <3>4, <4>1, <4>2, <2>5, <2>11 DEF Consistent, Queued, on_rq
    <3>6. CASE t \in User
      <4>1. ~on_rq(m, t) /\ m.state[t] # "RUNNING"
        BY <3>2, <3>3, <3>6, <2>1, <2>6
      <4>2. /\ \E g \in Hart : r.rq = [m.rq EXCEPT ![g] = Append(@, t)]
            /\ r.state = [m.state EXCEPT ![t] = "RUNNABLE"]
            /\ Frame(r, m, {"rq", "state", "wakeup_tick", "ipi"})
        BY <3>6, <4>1, <2>7, Zenon DEF MadeRunnable
      <4>3. r.state = [s.state EXCEPT ![t] = "RUNNABLE"]
        <5>1. s.state \in [Tid -> States]
          BY DEF Sound, Typed
        <5>2. QED
          BY <4>2, <5>1, <2>1, <2>3
      <4>4. PICK g \in Hart : r.rq = [s.rq EXCEPT ![g] = Append(@, t)]
        BY <4>2, <2>5
      <4>5. Queued(r)
        BY <3>2, <3>6, <4>3, <4>4, <2>8, <2>11, PushQueued DEF Sound, Consistent
      <4>6. /\ r.running_hart = m.running_hart /\ r.current = m.current
            /\ r.online = m.online /\ r.join_waiter = m.join_waiter
        BY <4>2 DEF Frame, Fields
      <4>7. \A u \in Tid : r.state[u] = m.state[u]
        BY <4>3, <2>1, <2>6, SMTT(30) DEF Sound, Typed
      <4>8. Placed(r, Hart, {})
        BY <3>4, <4>6, <4>7 DEF Placed
      <4>9. QED
        BY <4>5, <4>8 DEF Consistent
    <3>7. QED
      BY <3>5, <3>6
  <2>12. QED
    BY <2>2, <2>10, <2>11
<1>3. QED
  BY <1>1, <1>2

\* release_joiner, at any point of a handler that the joiner is not the
\* subject of.
LEMMA ReleaseJoinerFields ==
  ASSUME NEW s, Typed(s), NEW h \in Hart, NEW w \in Tid, NEW code \in Codes
  PROVE  LET r == release_joiner(s, h, w, code)
         IN  /\ Typed(r) /\ Gentle(r, s) /\ r.current = s.current
             /\ \A t \in Tid \ {w} : r.state[t] = s.state[t]
             /\ \A H \in SUBSET Hart, X \in SUBSET (Tid \ {w}) :
                  Placed(s, H, X) /\ Queued(s) => Placed(r, H, X) /\ Queued(r)
<1> DEFINE a == IF s.state[w] = "RUNNING" THEN s.ret[w] ELSE code
           m == [s EXCEPT !.ret[w] = a, !.waiting_for[w] = NONE]
           r == thread_make_runnable(m, h, w, h)
<1>1. a \in Codes \cup {"none", "due", "read"}
  BY DEF Typed
<1>2. release_joiner(s, h, w, code) = r
  BY DEF release_joiner
<1> HIDE DEF a
<1>3. /\ Frame(m, s, {"ret", "waiting_for"})
      /\ m.ret = [s.ret EXCEPT ![w] = a]
      /\ m.waiting_for = [s.waiting_for EXCEPT ![w] = NONE]
  BY DEF Frame, Fields, Typed
<1> HIDE DEF m
<1>4. Typed(m)
  <2>1. /\ m.ret \in [Tid -> Codes \cup {"none", "due", "read"}]
        /\ m.waiting_for \in [Tid -> Tid \cup {NONE}]
    BY <1>1, <1>3 DEF Typed
  <2>2. QED
    BY <1>3, <2>1 DEF Frame, Fields, Typed
<1>5. SameCore(m, s)
  BY <1>3 DEF Frame, Fields, SameCore
<1>6. MadeRunnable(r, m, w)
  BY <1>4, MakeRunnableFields
<1> HIDE DEF r
<1>7. Typed(r) /\ Gentle(r, m) /\ r.current = m.current
  BY <1>4, <1>6, MakeRunnableTyped, MakeRunnableGentle
<1>8. Gentle(r, s) /\ r.current = s.current
  BY <1>5, <1>7 DEF Gentle, SameCore
<1>9. ASSUME NEW t \in Tid \ {w} PROVE r.state[t] = s.state[t]
  <2>1. r = m \/ r.state = [m.state EXCEPT ![w] = "RUNNABLE"]
    BY <1>6, Zenon DEF MadeRunnable
  <2>2. m.state \in [Tid -> States] /\ m.state = s.state
    BY <1>4, <1>5 DEF Typed, SameCore
  <2>3. QED
    BY <2>1, <2>2
<1>10. ASSUME NEW H \in SUBSET Hart, NEW X \in SUBSET (Tid \ {w}),
             Placed(s, H, X), Queued(s)
      PROVE  Placed(r, H, X) /\ Queued(r)
  <2>1. Placed(m, H, X) /\ Queued(m)
    BY <1>5, <1>10 DEF SameCore, Placed, Queued, on_rq
  <2>2. QED
    BY <1>4, <1>6, <2>1, MakeRunnableConsistent
<1>11. QED
  BY <1>2, <1>7, <1>8, <1>9, <1>10

\* thread_sys_exit.  The joiner is not the dying thread, so waking it does
\* not requeue the thread that is about to leave the CPU.
LEMMA ExitStep ==
  ASSUME NEW s, NEW D, Sound(s, D), NEW h \in Hart, s.current[h] \in User,
         NEW code \in Codes
  PROVE  LET r == thread_sys_exit(s, h, code)
         IN  Sound(r, D) /\ (Consistent(s) => Consistent(r))
<1> DEFINE cur == s.current[h]
           w == s.join_waiter[cur]
           dead == [s EXCEPT !.state[cur] = "ZOMBIE", !.exit_code[cur] = code]
           told == release_joiner(dead, h, w, code)
           gone == recycle_thread(told, cur)
<1>1. cur \in Tid /\ cur # NONE /\ Typed(s) /\ w \in Tid \cup {NONE}
  <2>1. cur \in Tid /\ cur # NONE
    BY DEF User, Tid, NONE
  <2>2. Typed(s)
    BY DEF Sound
  <2>3. QED
    BY <2>1, <2>2 DEF Typed
<1>2. thread_sys_exit(s, h, code) =
        IF w # NONE THEN schedule(gone, h) ELSE schedule(dead, h)
  BY DEF thread_sys_exit
<1>3. /\ Frame(dead, s, {"state", "exit_code"})
      /\ dead.state = [s.state EXCEPT ![cur] = "ZOMBIE"]
      /\ dead.exit_code = [s.exit_code EXCEPT ![cur] = code]
  BY <1>1 DEF Frame, Fields, Typed
<1> HIDE DEF dead
<1>4. /\ dead.state \in [Tid -> States] /\ dead.exit_code \in [Tid -> Codes]
      /\ dead.state[cur] = "ZOMBIE"
      /\ \A t \in Tid \ {cur} : dead.state[t] = s.state[t]
  BY <1>1, <1>3, SMTT(30) DEF Typed, States
<1>5. Typed(dead)
  BY <1>1, <1>3, <1>4 DEF Frame, Fields, Typed
<1>6. /\ dead.rq = s.rq /\ dead.join_waiter = s.join_waiter
      /\ dead.online = s.online /\ dead.running_hart = s.running_hart
      /\ dead.current = s.current /\ dead.wakeup_tick = s.wakeup_tick
  BY <1>3 DEF Frame, Fields
<1>7. Sound(dead, D)
  BY <1>4, <1>5, <1>6 DEF Sound, Due
<1>8. CASE w = NONE
  <2>1. dead.state[s.current[h]] # "RUNNABLE"
    BY <1>4
  <2>2. Consistent(s) => \A t \in Tid : dead.join_waiter[t] # t
    BY <1>6 DEF Consistent, Placed
  <2>3. Sound(schedule(dead, h), D) /\ (Consistent(s) => Consistent(schedule(dead, h)))
    BY <1>4, <1>6, <1>7, <2>1, <2>2, BlockStep
  <2>4. QED
    BY <1>2, <1>8, <2>3
<1>9. CASE w # NONE
  <2>1. w \in Tid
    BY <1>1, <1>9
  <2> HIDE DEF w, cur
  <2>2. /\ Typed(told) /\ Gentle(told, dead) /\ told.current = dead.current
        /\ \A t \in Tid \ {w} : told.state[t] = dead.state[t]
        /\ \A H \in SUBSET Hart, X \in SUBSET (Tid \ {w}) :
             Placed(dead, H, X) /\ Queued(dead) => Placed(told, H, X) /\ Queued(told)
    BY <2>1, <1>5, ReleaseJoinerFields
  <2> HIDE DEF told
  <2>3. Recycled(gone, told, cur)
    BY <2>2, <1>1, RecycleFields
  <2> HIDE DEF gone
  <2>4. Typed(gone) /\ Gentle(gone, told) /\ gone.current = told.current
    BY <2>2, <2>3, <1>1, RecycleTyped, RecycleGentle
  <2>5. Sound(gone, D)
    <3>1. Sound(told, D)
      BY <2>2, <1>7, GentleSound DEF Sound
    <3>2. QED
      BY <2>4, <3>1, GentleSound DEF Sound
  <2>6. gone.current[h] = cur /\ gone.current[h] # NONE
    BY <2>2, <2>4, <1>1, <1>6 DEF cur
  <2>7. Sound(schedule(gone, h), D)
    BY <2>5, <2>6, ScheduleStep
  <2>8. ASSUME Consistent(s) PROVE Consistent(schedule(gone, h))
    <3>1. w # cur
      BY <1>1, <2>8 DEF w, Consistent, Placed
    <3>2. Placed(dead, Hart \ {h}, {cur}) /\ Queued(dead)
      <4>1. \A t \in Tid : dead.join_waiter[t] # t
        BY <1>6, <2>8 DEF Consistent, Placed
      <4>2. dead.state[s.current[h]] # "RUNNABLE"
        BY <1>4 DEF cur
      <4>3. \A t \in Tid \ {s.current[h]} : dead.state[t] = s.state[t]
        BY <1>4 DEF cur
      <4>4. Placed(dead, Hart \ {h}, {dead.current[h]}) /\ Queued(dead)
        BY <1>1, <1>5, <1>6, <2>8, <4>1, <4>2, <4>3, LeaveCpu
      <4>5. QED
        BY <4>4, <1>6 DEF cur
    <3>3. Placed(told, Hart \ {h}, {cur}) /\ Queued(told)
      BY <3>1, <3>2, <2>2, <1>1
    <3>4. told.state[cur] = "ZOMBIE"
      BY <3>1, <2>2, <1>1, <1>4
    <3>5. Placed(gone, Hart \ {h}, {cur}) /\ Queued(gone)
      BY <3>3, <3>4, <2>2, <2>3, <1>1, RecycleConsistent
    <3>6. gone.state[cur] # "RUNNABLE"
      BY <2>2, <2>3, <1>1 DEF Recycled, Typed
    <3>7. QED
      BY <3>5, <3>6, <2>4, <2>6, ScheduleConsistent DEF Consistent
  <2>9. QED
    BY <1>2, <1>9, <2>7, <2>8
<1>10. QED
  BY <1>8, <1>9

\* thread_sys_join.
LEMMA JoinStep ==
  ASSUME NEW s, NEW D, Sound(s, D), NEW h \in Hart, s.current[h] \in User, NEW t \in Tid
  PROVE  LET r == thread_sys_join(s, h, t)
         IN  Sound(r, D) /\ (Consistent(s) => Consistent(r))
<1> DEFINE cur == s.current[h]
           gone == recycle_thread(s, t)
           m == [s EXCEPT !.state[cur] = "WAITING", !.waiting_for[cur] = t,
                          !.ret[cur] = "due", !.join_waiter[t] = cur]
<1>1. cur \in Tid /\ Typed(s)
  BY DEF User, Tid, Sound
<1>2. thread_sys_join(s, h, t) =
        IF join_refused(s, h, t) THEN s
        ELSE IF s.state[t] = "ZOMBIE" THEN gone ELSE schedule(m, h)
  BY DEF thread_sys_join
<1>3. CASE join_refused(s, h, t)
  BY <1>2, <1>3
<1>4. CASE ~join_refused(s, h, t) /\ s.state[t] = "ZOMBIE"
  <2>1. Recycled(gone, s, t)
    BY <1>1, RecycleFields
  <2> HIDE DEF gone
  <2>2. Typed(gone) /\ Gentle(gone, s)
    BY <1>1, <2>1, RecycleTyped, RecycleGentle
  <2>3. Sound(gone, D)
    BY <2>2, GentleSound DEF Sound
  <2>4. Consistent(s) => Consistent(gone)
    BY <1>1, <1>4, <2>1, RecycleConsistent DEF Consistent
  <2>5. QED
    BY <1>2, <1>4, <2>3, <2>4
<1>5. CASE ~join_refused(s, h, t) /\ s.state[t] # "ZOMBIE"
  <2>1. t # cur
    BY <1>5 DEF join_refused
  <2>2. /\ Frame(m, s, {"state", "waiting_for", "ret", "join_waiter"})
        /\ m.state = [s.state EXCEPT ![cur] = "WAITING"]
        /\ m.waiting_for = [s.waiting_for EXCEPT ![cur] = t]
        /\ m.ret = [s.ret EXCEPT ![cur] = "due"]
        /\ m.join_waiter = [s.join_waiter EXCEPT ![t] = cur]
    BY <1>1 DEF Frame, Fields, Typed
  <2> HIDE DEF m
  <2>3. /\ m.state \in [Tid -> States] /\ m.waiting_for \in [Tid -> Tid \cup {NONE}]
        /\ m.ret \in [Tid -> Codes \cup {"none", "due", "read"}]
        /\ m.join_waiter \in [Tid -> Tid \cup {NONE}]
    BY <1>1, <2>2, SMTT(30) DEF Typed, States
  <2>4. Typed(m)
    BY <1>1, <2>2, <2>3 DEF Frame, Fields, Typed
  <2>5. /\ m.rq = s.rq /\ m.wakeup_tick = s.wakeup_tick /\ m.online = s.online
        /\ m.running_hart = s.running_hart /\ m.current = s.current
    BY <2>2 DEF Frame, Fields
  <2>6. \A u \in Tid :
          /\ m.state[u] = IF u = cur THEN "WAITING" ELSE s.state[u]
          /\ m.join_waiter[u] = IF u = t THEN cur ELSE s.join_waiter[u]
    BY <1>1, <2>2, SMTT(30) DEF Typed
  <2>7. Sound(m, D)
    BY <2>4, <2>5, <2>6 DEF Sound, Due
  <2>8. Consistent(s) => \A u \in Tid : m.join_waiter[u] # u
    BY <2>1, <2>6 DEF Consistent, Placed
  <2>9. /\ m.state[s.current[h]] # "RUNNABLE"
        /\ \A u \in Tid \ {s.current[h]} : m.state[u] = s.state[u]
    BY <1>1, <2>6
  <2>10. Sound(schedule(m, h), D) /\ (Consistent(s) => Consistent(schedule(m, h)))
    BY <2>5, <2>7, <2>8, <2>9, BlockStep
  <2>11. QED
    BY <1>2, <1>5, <2>10
<1>6. QED
  BY <1>3, <1>4, <1>5

\* thread_sys_detach.
LEMMA DetachStep ==
  ASSUME NEW s, NEW D, Sound(s, D), NEW h \in Hart, NEW t \in Tid
  PROVE  LET r == thread_sys_detach(s, h, t)
         IN  Sound(r, D) /\ (Consistent(s) => Consistent(r))
<1> DEFINE gone == recycle_thread(s, t)
           m == [s EXCEPT !.detached[t] = TRUE]
<1>1. Typed(s)
  BY DEF Sound
<1>2. thread_sys_detach(s, h, t) =
        IF detach_refused(s, t) \/ s.detached[t] THEN s
        ELSE IF s.state[t] = "ZOMBIE" THEN gone ELSE m
  BY DEF thread_sys_detach
<1>3. ASSUME s.state[t] = "ZOMBIE"
      PROVE  Sound(gone, D) /\ (Consistent(s) => Consistent(gone))
  <2>1. Recycled(gone, s, t)
    BY <1>1, RecycleFields
  <2> HIDE DEF gone
  <2>2. Typed(gone) /\ Gentle(gone, s)
    BY <1>1, <2>1, RecycleTyped, RecycleGentle
  <2>3. Sound(gone, D)
    BY <2>2, GentleSound DEF Sound
  <2>4. Consistent(s) => Consistent(gone)
    BY <1>1, <1>3, <2>1, RecycleConsistent DEF Consistent
  <2>5. QED
    BY <2>3, <2>4
<1>4. Sound(m, D) /\ (Consistent(s) => Consistent(m))
  <2>1. Frame(m, s, {"detached"}) /\ m.detached = [s.detached EXCEPT ![t] = TRUE]
    BY <1>1 DEF Frame, Fields, Typed
  <2> HIDE DEF m
  <2>2. Typed(m)
    BY <1>1, <2>1, SMTT(30) DEF Frame, Fields, Typed
  <2>3. SameCore(m, s)
    BY <2>1 DEF Frame, Fields, SameCore
  <2>4. QED
    BY <2>2, <2>3, CoreStep
<1>5. QED
  BY <1>2, <1>3, <1>4

\* sys_read on stdin.
LEMMA ReadStep ==
  ASSUME NEW s, NEW D, Sound(s, D), NEW h \in Hart, s.current[h] \in User, NEW len \in Nat
  PROVE  LET r == sys_read(s, h, len)
         IN  Sound(r, D) /\ (Consistent(s) => Consistent(r))
<1> DEFINE cur == s.current[h]
           n == read_count(s, len)
           a == [s EXCEPT !.rx = s.rx - n]
           w == [s EXCEPT !.pending_read[cur] = len, !.ret[cur] = "due",
                          !.g_stdin_waiter = cur]
           m == [w EXCEPT !.state[w.current[h]] = "BLOCKED"]
<1>1. cur \in Tid /\ Typed(s) /\ n \in 0 .. s.rx
  <2>1. cur \in Tid /\ Typed(s)
    BY DEF User, Tid, Sound
  <2>2. s.rx \in Nat
    BY <2>1 DEF Typed
  <2>3. n \in 0 .. s.rx
    BY <2>2 DEF read_count
  <2>4. QED
    BY <2>1, <2>3
<1>2. sys_read(s, h, len) = IF n > 0 THEN a ELSE schedule(m, h)
  BY DEF sys_read, thread_wait_for_stdin, thread_block
<1> HIDE DEF n
<1>3. Sound(a, D) /\ (Consistent(s) => Consistent(a))
  <2>1. Frame(a, s, {"rx"}) /\ a.rx = s.rx - n
    BY <1>1 DEF Frame, Fields, Typed
  <2> HIDE DEF a
  <2>2. a.rx \in 0 .. CONSOLE_RBUF_SIZE - 1
    <3>1. s.rx \in 0 .. CONSOLE_RBUF_SIZE - 1
      BY <1>1 DEF Typed
    <3>2. QED
      BY ONLY <1>1, <2>1, <3>1, RbufAssumption
  <2>3. Typed(a)
    BY <1>1, <2>1, <2>2 DEF Frame, Fields, Typed
  <2>4. SameCore(a, s)
    BY <2>1 DEF Frame, Fields, SameCore
  <2>5. QED
    BY <2>3, <2>4, CoreStep
<1>4. Sound(schedule(m, h), D) /\ (Consistent(s) => Consistent(schedule(m, h)))
  <2>1. /\ Frame(w, s, {"pending_read", "ret", "g_stdin_waiter"})
        /\ w.pending_read = [s.pending_read EXCEPT ![cur] = len]
        /\ w.ret = [s.ret EXCEPT ![cur] = "due"]
        /\ w.g_stdin_waiter = cur
    BY <1>1 DEF Frame, Fields, Typed
  <2> HIDE DEF w
  <2>2. w.current[h] = cur
    BY <2>1 DEF Frame, Fields
  <2>3. Typed(w)
    BY <1>1, <2>1, SMTT(30) DEF Frame, Fields, Typed
  <2>4. /\ Frame(m, w, {"state"})
        /\ m.state = [w.state EXCEPT ![cur] = "BLOCKED"]
    BY <1>1, <2>2, <2>3 DEF Frame, Fields, Typed
  <2> HIDE DEF m, cur
  <2>5. /\ m.rq = s.rq /\ m.wakeup_tick = s.wakeup_tick /\ m.online = s.online
        /\ m.running_hart = s.running_hart /\ m.current = s.current
        /\ m.join_waiter = s.join_waiter
        /\ m.state = [s.state EXCEPT ![cur] = "BLOCKED"]
    BY <2>1, <2>4 DEF Frame, Fields
  <2>6. m.state \in [Tid -> States]
    BY <1>1, <2>5, SMTT(30) DEF Typed, States
  <2>7. Typed(m)
    BY <2>3, <2>4, <2>6 DEF Frame, Fields, Typed
  <2>8. \A u \in Tid : m.state[u] = IF u = cur THEN "BLOCKED" ELSE s.state[u]
    BY <1>1, <2>5 DEF Typed
  <2>9. Sound(m, D)
    BY <2>5, <2>7, <2>8 DEF Sound, Due
  <2>10. Consistent(s) => \A u \in Tid : m.join_waiter[u] # u
    BY <2>5 DEF Consistent, Placed
  <2>11. /\ m.state[s.current[h]] # "RUNNABLE"
         /\ \A u \in Tid \ {s.current[h]} : m.state[u] = s.state[u]
    BY <1>1, <2>8 DEF cur
  <2>12. QED
    BY <2>5, <2>9, <2>10, <2>11, BlockStep
<1>5. QED
  BY <1>2, <1>3, <1>4

\* thread_wake.
LEMMA WakeBlocked ==
  ASSUME NEW s, NEW D, Sound(s, D), NEW h \in Hart, NEW t \in Tid
  PROVE  LET r == thread_wake(s, h, t)
         IN  Sound(r, D) /\ (Consistent(s) => Consistent(r))
<1> DEFINE r == thread_make_runnable(s, h, t, h)
<1>1. Typed(s)
  BY DEF Sound
<1>2. MadeRunnable(r, s, t)
  BY <1>1, MakeRunnableFields
<1>3. thread_wake(s, h, t) = IF s.state[t] = "BLOCKED" THEN r ELSE s
  BY DEF thread_wake
<1> HIDE DEF r
<1>4. Typed(r) /\ Gentle(r, s)
  BY <1>1, <1>2, MakeRunnableTyped, MakeRunnableGentle
<1>5. Sound(r, D)
  BY <1>4, GentleSound DEF Sound
<1>6. Consistent(s) => Consistent(r)
  BY <1>1, <1>2, MakeRunnableConsistent DEF Consistent
<1>7. QED
  BY <1>3, <1>5, <1>6

\* console_on_char_from_irq.
LEMMA UartStep ==
  ASSUME NEW s, NEW D, Sound(s, D), NEW h \in Hart
  PROVE  LET r == console_on_char_from_irq(s, h)
         IN  Sound(r, D) /\ (Consistent(s) => Consistent(r))
<1> DEFINE w == s.g_stdin_waiter
           more == [s EXCEPT !.rx = s.rx + 1]
           p == IF rb_is_full(s) THEN s ELSE more
           n == read_count(p, p.pending_read[w])
           taken == [p EXCEPT !.rx = p.rx - n, !.ret[w] = "read",
                              !.pending_read[w] = 0]
           woken == thread_read_from_stdin(p, h)
           r == [woken EXCEPT !.g_stdin_waiter = NONE]
<1>1. Typed(s)
  BY DEF Sound
<1>2. Sound(p, D) /\ (Consistent(s) => Consistent(p)) /\ p.g_stdin_waiter = w
  <2>1. CASE rb_is_full(s)
    BY <2>1
  <2>2. CASE ~rb_is_full(s)
    <3>1. Frame(more, s, {"rx"}) /\ more.rx = s.rx + 1
      BY <1>1 DEF Frame, Fields, Typed
    <3>2. more.rx \in 0 .. CONSOLE_RBUF_SIZE - 1
      BY <1>1, <2>2, <3>1, SMTT(30) DEF Typed, rb_is_full
    <3> HIDE DEF more
    <3>3. Typed(more)
      BY <1>1, <3>1, <3>2 DEF Frame, Fields, Typed
    <3>4. SameCore(more, s) /\ more.g_stdin_waiter = w
      BY <3>1 DEF Frame, Fields, SameCore
    <3>5. QED
      BY <2>2, <3>3, <3>4, CoreStep
  <2>3. QED
    BY <2>1, <2>2
<1>3. console_on_char_from_irq(s, h) = IF w = NONE THEN p ELSE r
  BY DEF console_on_char_from_irq
<1> HIDE DEF p
<1>4. Typed(p)
  BY <1>2 DEF Sound
<1>5. ASSUME w # NONE
      PROVE  Sound(woken, D) /\ (Consistent(s) => Consistent(woken))
  <2>1. w \in Tid
    BY <1>1, <1>5 DEF Typed
  <2> HIDE DEF w
  <2>2. woken = IF p.pending_read[w] = 0 THEN thread_wake(p, h, w)
                ELSE IF n = 0 THEN p ELSE thread_wake(taken, h, w)
    BY <1>2 DEF thread_read_from_stdin
  <2>3. n \in 0 .. p.rx
    <3>1. p.rx \in Nat /\ p.pending_read[w] \in Nat
      BY <1>4, <2>1 DEF Typed
    <3>2. QED
      BY <3>1 DEF read_count
  <2> HIDE DEF n
  <2>4. /\ Frame(taken, p, {"rx", "ret", "pending_read"})
        /\ taken.rx = p.rx - n
        /\ taken.ret = [p.ret EXCEPT ![w] = "read"]
        /\ taken.pending_read = [p.pending_read EXCEPT ![w] = 0]
    BY <1>4, <2>1 DEF Frame, Fields, Typed
  <2> HIDE DEF taken, woken
  <2>5. /\ taken.rx \in 0 .. CONSOLE_RBUF_SIZE - 1
        /\ taken.ret \in [Tid -> Codes \cup {"none", "due", "read"}]
        /\ taken.pending_read \in [Tid -> Nat]
    <3>1. taken.rx \in 0 .. CONSOLE_RBUF_SIZE - 1
      BY <1>4, <2>3, <2>4 DEF Typed
    <3>2. QED
      BY <3>1, <1>4, <2>1, <2>4 DEF Typed
  <2>6. Typed(taken)
    BY <1>4, <2>4, <2>5 DEF Frame, Fields, Typed
  <2>7. SameCore(taken, p)
    BY <2>4 DEF Frame, Fields, SameCore
  <2>8. Sound(taken, D) /\ (Consistent(p) => Consistent(taken))
    BY <2>6, <2>7, <1>2, CoreStep
  <2>9. /\ Sound(thread_wake(p, h, w), D)
        /\ Consistent(p) => Consistent(thread_wake(p, h, w))
    BY <2>1, <1>2, WakeBlocked
  <2>10. /\ Sound(thread_wake(taken, h, w), D)
         /\ Consistent(taken) => Consistent(thread_wake(taken, h, w))
    BY <2>1, <2>8, WakeBlocked
  <2>11. CASE woken = p
    BY <2>11, <1>2
  <2>12. CASE woken = thread_wake(p, h, w)
    BY <2>9, <2>12, <1>2
  <2>13. CASE woken = thread_wake(taken, h, w)
    BY <2>8, <2>10, <2>13, <1>2
  <2>14. QED
    BY <2>2, <2>11, <2>12, <2>13
<1>6. ASSUME w # NONE
      PROVE  Sound(r, D) /\ (Consistent(s) => Consistent(r))
  <2> HIDE DEF woken
  <2>1. Typed(woken)
    BY <1>5, <1>6 DEF Sound
  <2>2. Frame(r, woken, {"g_stdin_waiter"}) /\ r.g_stdin_waiter = NONE
    BY <2>1 DEF Frame, Fields, Typed
  <2> HIDE DEF r
  <2>3. Typed(r) /\ SameCore(r, woken)
    BY <2>1, <2>2 DEF Frame, Fields, Typed, SameCore
  <2>4. QED
    BY <2>3, <1>5, <1>6, CoreStep
<1>7. QED
  BY <1>2, <1>3, <1>6

\* g_ticks++ keeps every wakeup_tick a natural.
LEMMA TickStep ==
  ASSUME NEW s, Typed(s)
  PROVE  LET r == tick(s)
         IN  Typed(r) /\ r.current = s.current /\ (Consistent(s) => Consistent(r))
<1> DEFINE f == [t \in Tid |->
                   IF s.state[t] = "SLEEPING" /\ s.wakeup_tick[t] > 0
                   THEN s.wakeup_tick[t] - 1 ELSE s.wakeup_tick[t]]
           r == tick(s)
<1>2. f \in [Tid -> Nat]
  <2>1. ASSUME NEW t \in Tid PROVE f[t] \in Nat
    <3>1. s.wakeup_tick[t] \in Nat
      BY DEF Typed
    <3>2. QED
      BY <3>1
  <2>2. QED
    BY <2>1
<1>3. r = [s EXCEPT !.wakeup_tick = f]
  BY DEF tick
<1> HIDE DEF f
<1>4. Frame(r, s, {"wakeup_tick"}) /\ r.wakeup_tick = f
  BY <1>3 DEF Frame, Fields, Typed
<1> HIDE DEF r
<1>5. Typed(r)
  BY <1>2, <1>4 DEF Frame, Fields, Typed
<1>6. /\ r.state = s.state /\ r.rq = s.rq /\ r.join_waiter = s.join_waiter
      /\ r.running_hart = s.running_hart /\ r.current = s.current
      /\ r.online = s.online
  BY <1>4 DEF Frame, Fields
<1>7. Consistent(s) => Consistent(r)
  BY <1>6 DEF Consistent, Placed, Queued, on_rq
<1>8. QED
  BY <1>5, <1>6, <1>7 DEF r

\* The body of the loop of threads_tick.  If the queues are consistent, a
\* thread other than idle is no sleeper afterwards, and no thread becomes one.
LEMMA WakeStep ==
  ASSUME NEW s, Typed(s), NEW t \in Due(s)
  PROVE  LET r == wake_sleeper(s, t)
         IN  /\ Typed(r) /\ r.current = s.current
             /\ Consistent(s) => Consistent(r)
             /\ Consistent(s) /\ t \notin Hart => Due(r) \subseteq Due(s) \ {t}
<1> DEFINE r == thread_make_runnable(s, BootHart, t, BootHart)
<1>1. t \in Tid /\ s.state[t] = "SLEEPING"
  BY DEF Due
<1>2. wake_sleeper(s, t) = r
  BY DEF wake_sleeper
<1>3. MadeRunnable(r, s, t)
  BY <1>1, MakeRunnableFields
<1> HIDE DEF r
<1>4. Typed(r) /\ r.current = s.current /\ Gentle(r, s)
  BY <1>1, <1>3, MakeRunnableTyped, MakeRunnableGentle
<1>5. Consistent(s) => Consistent(r)
  BY <1>1, <1>3, MakeRunnableConsistent DEF Consistent
<1>6. ASSUME Consistent(s), t \notin Hart PROVE Due(r) \subseteq Due(s) \ {t}
  <2>1. t \in User /\ ~on_rq(s, t)
    BY <1>1, <1>6 DEF Consistent, Queued, User, Tid, Hart
  <2>2. r.state = [s.state EXCEPT ![t] = "RUNNABLE"]
    BY <2>1, <1>1, <1>3 DEF MadeRunnable
  <2>3. r.state[t] # "SLEEPING"
    BY <2>2, <1>1 DEF Typed
  <2>4. QED
    BY <2>3, <1>4 DEF Due, Gentle
<1>7. QED
  BY <1>2, <1>4, <1>5, <1>6

\* The next thread the loop of threads_tick wakes is the first due one from
\* its position on.
LEMMA WakesOne ==
  ASSUME scan \in 0 .. THREAD_MAX \cup {NONE}, WakeSleeper
  PROVE  \E t \in Due(k) : /\ k' = wake_sleeper(k, t) /\ scan' = t + 1
                          /\ scan <= t /\ t \in Tid
                          /\ \A u \in Due(k) : scan <= u => t <= u
<1> DEFINE D == DueFrom(k, scan)
<1>1. D \subseteq Nat /\ D # {}
  BY DEF DueFrom, Due, Tid, WakeSleeper
<1>2. Min(D) \in D /\ \A y \in D : Min(D) <= y
  BY <1>1, MinOfNats
<1>3. k' = wake_sleeper(k, Min(D)) /\ scan' = Min(D) + 1
  BY DEF WakeSleeper
<1> DEFINE t == Min(D)
<1>4. t \in D /\ \A y \in D : t <= y
  BY <1>2
<1>5. k' = wake_sleeper(k, t) /\ scan' = t + 1
  BY <1>3
<1> HIDE DEF t
<1>6. t \in Due(k) /\ scan <= t /\ t \in Tid
  BY <1>4 DEF DueFrom, Due
<1>7. \A u \in Due(k) : scan <= u => t <= u
  BY <1>4 DEF DueFrom
<1>8. QED
  BY <1>5, <1>6, <1>7

\* The end of sched_on_timer_irq.
LEMMA EndOfTickStep ==
  ASSUME NEW s, NEW D, Sound(s, D), NEW h \in Hart, s.current[h] # NONE
  PROVE  LET r == end_of_tick(s, h)
         IN  Sound(r, D) /\ (Consistent(s) => Consistent(r))
<1> DEFINE m == [s EXCEPT !.slice_left[h] = s.slice_left[h] - 1]
<1>1. Typed(s)
  BY DEF Sound
<1>2. end_of_tick(s, h) = IF s.slice_left[h] <= 1 THEN schedule(s, h) ELSE m
  BY DEF end_of_tick
<1>3. CASE s.slice_left[h] <= 1
  BY <1>2, <1>3, ScheduleStep
<1>4. CASE ~(s.slice_left[h] <= 1)
  <2>1. /\ Frame(m, s, {"slice_left"})
        /\ m.slice_left = [s.slice_left EXCEPT ![h] = s.slice_left[h] - 1]
    BY <1>1 DEF Frame, Fields, Typed
  <2> HIDE DEF m
  <2>2. m.slice_left \in [Hart -> 1 .. SCHED_SLICE_TICKS]
    <3>1. s.slice_left \in [Hart -> 1 .. SCHED_SLICE_TICKS]
      BY <1>1 DEF Typed
    <3>2. s.slice_left[h] - 1 \in 1 .. SCHED_SLICE_TICKS
      BY <1>4, <3>1
    <3>3. QED
      BY <2>1, <3>1, <3>2
  <2>3. Typed(m)
    BY <1>1, <2>1, <2>2 DEF Frame, Fields, Typed
  <2>4. SameCore(m, s)
    BY <2>1 DEF Frame, Fields, SameCore
  <2>5. QED
    BY <1>2, <1>4, <2>3, <2>4, CoreStep
<1>5. QED
  BY <1>3, <1>4

\* thread_sys_kill.  It leaves threads and queues consistent when its victim
\* is on no CPU; a victim that another hart runs becomes ZOMBIE there.
LEMMA KillStep ==
  ASSUME NEW s, NEW D, Sound(s, D), NEW h \in Hart, NEW t \in Tid
  PROVE  LET r == thread_sys_kill(s, h, t)
         IN  /\ Sound(r, D)
             /\ Consistent(s) /\ s.running_hart[t] = NONE => Consistent(r)
<1> DEFINE w == s.join_waiter[t]
           rh == s.running_hart[t]
           a == [s EXCEPT !.state[t] = "ZOMBIE", !.exit_code[t] = "killed",
                          !.wakeup_tick[t] = 0]
           dead == rq_remove_any(a, t)
           kicked == IF rh \in Hart \ {h} THEN smp_kick_hart(dead, rh) ELSE dead
           told == IF w # NONE THEN release_joiner(kicked, h, w, "killed")
                   ELSE kicked
           gone == recycle_thread(told, t)
<1>1. Typed(s) /\ w \in Tid \cup {NONE} /\ "killed" \in Codes
  <2>1. Typed(s)
    BY DEF Sound
  <2>2. QED
    BY <2>1 DEF Typed, Codes
<1>2. thread_sys_kill(s, h, t) =
        IF kill_refused(s, h, t) THEN s
        ELSE IF rh = NONE /\ (w # NONE \/ s.detached[t]) THEN gone ELSE told
  BY DEF thread_sys_kill
<1>3. /\ Frame(a, s, {"state", "exit_code", "wakeup_tick"})
      /\ a.state = [s.state EXCEPT ![t] = "ZOMBIE"]
      /\ a.exit_code = [s.exit_code EXCEPT ![t] = "killed"]
      /\ a.wakeup_tick = [s.wakeup_tick EXCEPT ![t] = 0]
  BY <1>1 DEF Frame, Fields, Typed
<1> HIDE DEF a
<1>4. Typed(a)
  <2>1. /\ a.state \in [Tid -> States] /\ a.exit_code \in [Tid -> Codes]
        /\ a.wakeup_tick \in [Tid -> Nat]
    BY <1>1, <1>3, SMTT(30) DEF Typed, States
  <2>2. QED
    BY <1>1, <1>3, <2>1 DEF Frame, Fields, Typed
<1>5. Unlinked(dead, a, t) /\ Typed(dead)
  BY <1>4, RemoveFields
<1> HIDE DEF dead
<1>6. /\ dead.state = a.state /\ dead.wakeup_tick = a.wakeup_tick
      /\ dead.join_waiter = s.join_waiter /\ dead.running_hart = s.running_hart
      /\ dead.current = s.current /\ dead.online = s.online /\ a.rq = s.rq
  BY <1>3, <1>5 DEF Unlinked, Frame, Fields
<1>7. \A u \in Tid :
        /\ dead.state[u] = IF u = t THEN "ZOMBIE" ELSE s.state[u]
        /\ dead.wakeup_tick[u] = IF u = t THEN 0 ELSE s.wakeup_tick[u]
  BY <1>1, <1>3, <1>6 DEF Typed
<1>8. Sound(dead, D)
  BY <1>5, <1>7 DEF Sound, Due
<1>9. Typed(kicked) /\ Sound(kicked, D)
  <2>1. CASE rh \notin Hart \ {h}
    BY <2>1, <1>5, <1>8
  <2>2. CASE rh \in Hart \ {h}
    <3>1. Kicked(kicked, dead)
      BY <2>2, <1>5, KickFields
    <3> HIDE DEF kicked
    <3>2. Typed(kicked)
      BY <3>1, <1>5 DEF Kicked, Frame, Fields, Typed
    <3>3. kicked.state = dead.state /\ kicked.wakeup_tick = dead.wakeup_tick
      BY <3>1 DEF Kicked, Frame, Fields
    <3>4. QED
      BY <3>2, <3>3, <1>8 DEF Sound, Due
  <2>3. QED
    BY <2>1, <2>2
<1>10. rh = NONE => kicked = dead
  BY DEF Hart, NONE
<1> HIDE DEF kicked, w, rh
<1>11. w # NONE =>
         /\ Typed(told) /\ Gentle(told, kicked)
         /\ \A u \in Tid \ {w} : told.state[u] = kicked.state[u]
         /\ \A H \in SUBSET Hart, X \in SUBSET (Tid \ {w}) :
              Placed(kicked, H, X) /\ Queued(kicked) => Placed(told, H, X) /\ Queued(told)
  BY <1>1, <1>9, ReleaseJoinerFields
<1>12. w = NONE => told = kicked
  OBVIOUS
<1> HIDE DEF told
<1>13. Typed(told) /\ Sound(told, D)
  <2>1. CASE w = NONE
    BY <2>1, <1>9, <1>12
  <2>2. CASE w # NONE
    BY <2>2, <1>9, <1>11, GentleSound DEF Sound
  <2>3. QED
    BY <2>1, <2>2
<1>14. Recycled(gone, told, t)
  BY <1>13, RecycleFields
<1> HIDE DEF gone
<1>15. Typed(gone) /\ Gentle(gone, told)
  BY <1>13, <1>14, RecycleTyped, RecycleGentle
<1>16. Sound(gone, D)
  BY <1>13, <1>15, GentleSound DEF Sound
<1>17. ASSUME Consistent(s), rh = NONE, ~kill_refused(s, h, t)
       PROVE  Consistent(told) /\ Consistent(gone)
  <2>1. w # t /\ s.state[t] # "RUNNING" /\ \A g \in Hart : s.current[g] # t
    <3>1. w # t
      BY <1>17 DEF w, Consistent, Placed
    <3>2. \A g \in Hart : s.current[g] # t
      BY <1>17 DEF rh, Consistent, Placed, Hart, NONE
    <3>3. s.state[t] # "RUNNING"
      BY <1>17, <3>2 DEF Consistent, Placed
    <3>4. QED
      BY <3>1, <3>2, <3>3
  <2>2. Placed(dead, Hart, {})
    BY <1>6, <1>7, <1>17, <2>1 DEF Consistent, Placed
  <2>3. Queued(dead)
    <3>1. \A u \in Tid \ {t} : dead.state[u] = s.state[u]
      BY <1>7
    <3>2. dead.state[t] = "ZOMBIE"
      BY <1>7
    <3>3. CASE dead.rq = s.rq /\ ~on_rq(s, t)
      <4>1. \A u \in User : dead.state[u] = "RUNNABLE" <=> s.state[u] = "RUNNABLE"
        BY <3>1, <3>2, <3>3, <1>17 DEF Consistent, Queued, User, Tid
      <4>2. QED
        BY <4>1, <3>3, <1>17 DEF Consistent, Queued, on_rq
    <3>4. CASE \E g \in Hart : \E p \in 1 .. Len(s.rq[g]) :
                 /\ s.rq[g][p] = t
                 /\ \A f \in Hart \ {g} : dead.rq[f] = s.rq[f]
                 /\ WithoutEntry(dead.rq[g], s.rq[g], p)
      <4>1. PICK g \in Hart : \E p \in 1 .. Len(s.rq[g]) :
                 /\ s.rq[g][p] = t
                 /\ \A f \in Hart \ {g} : dead.rq[f] = s.rq[f]
                 /\ WithoutEntry(dead.rq[g], s.rq[g], p)
        BY <3>4
      <4>2. PICK p \in 1 .. Len(s.rq[g]) :
                 /\ s.rq[g][p] = t
                 /\ \A f \in Hart \ {g} : dead.rq[f] = s.rq[f]
                 /\ WithoutEntry(dead.rq[g], s.rq[g], p)
        BY <4>1
      <4>3. LeavesQueue(dead, s, g, p)
        BY <4>2, <3>1, <3>2 DEF LeavesQueue
      <4>4. QED
        BY <4>3, <1>1, <1>5, <1>17, UnlinkQueued DEF Consistent
    <3>5. on_rq(a, t) <=> on_rq(s, t)
      BY <1>6 DEF on_rq
    <3>6. QED
      BY <3>3, <3>4, <3>5, <1>5, <1>6, Zenon DEF Unlinked
  <2>4. Placed(told, Hart, {}) /\ Queued(told) /\ told.state[t] = "ZOMBIE"
    <3>1. Placed(kicked, Hart, {}) /\ Queued(kicked) /\ kicked.state[t] = "ZOMBIE"
      BY <2>2, <2>3, <1>7, <1>10, <1>17
    <3>2. CASE w = NONE
      BY <3>1, <3>2, <1>12
    <3>3. CASE w # NONE
      BY <3>1, <3>3, <2>1, <1>11
    <3>4. QED
      BY <3>2, <3>3
  <2>5. Placed(gone, Hart, {}) /\ Queued(gone)
    BY <2>4, <1>13, <1>14, RecycleConsistent
  <2>6. QED
    BY <2>4, <2>5 DEF Consistent
<1>18. QED
  BY <1>2, <1>13, <1>16, <1>17 DEF rh

\* threads_init.
LEMMA InitStep ==
  /\ Typed(threads_init) /\ Due(threads_init) = {}
  /\ Consistent(threads_init)
<1> DEFINE s == threads_init
<1>1. /\ MAX_HARTS \in Tid /\ MAX_HARTS \in User /\ NONE \notin Tid
      /\ Hart \subseteq Tid /\ User \subseteq Tid
  BY DEF Tid, User, NONE, Hart
<1>2. /\ s.state = [t \in Tid |-> IF t <= MAX_HARTS THEN "RUNNABLE" ELSE "UNUSED"]
      /\ s.running_hart = [t \in Tid |-> NONE]
      /\ s.wakeup_tick = [t \in Tid |-> 0]
      /\ s.join_waiter = [t \in Tid |-> NONE]
      /\ s.current = [h \in Hart |-> NONE]
      /\ s.online = [h \in Hart |-> h = BootHart]
      /\ s.rq = [h \in Hart |-> IF h = BootHart THEN <<MAX_HARTS>> ELSE <<>>]
  BY DEF threads_init
<1>3. Typed(s)
  <2>1. DOMAIN s = Fields
    BY DEF threads_init, Fields
  <2>2. s.rq \in [Hart -> Seq(Tid)]
    BY <1>1, <1>2
  <2>3. s.state \in [Tid -> States]
    BY <1>2 DEF States
  <2>4. /\ s.detached = [t \in Tid |-> FALSE]
        /\ s.exit_code = [t \in Tid |-> Zero]
        /\ s.waiting_for = [t \in Tid |-> NONE]
        /\ s.ret = [t \in Tid |-> "none"]
        /\ s.pending_read = [t \in Tid |-> 0]
        /\ s.slice_left = [h \in Hart |-> SCHED_SLICE_TICKS]
        /\ s.ipi = [h \in Hart |-> FALSE]
        /\ s.rx = 0 /\ s.g_stdin_waiter = NONE
    BY DEF threads_init
  <2> HIDE DEF s
  <2>5. QED
    BY <1>2, <2>1, <2>2, <2>3, <2>4 DEF Typed, Codes
<1> HIDE DEF s
<1>4. Due(s) = {}
  BY <1>2 DEF Due
<1>5. Placed(s, Hart, {})
  <2>1. \A t \in Tid : s.state[t] # "RUNNING"
    BY <1>2
  <2>2. QED
    BY <2>1, <1>1, <1>2 DEF Placed, Hart, NONE
<1>6. Queued(s)
  <2>1. s.rq[BootHart] = <<MAX_HARTS>> /\ \A h \in Hart \ {BootHart} : s.rq[h] = <<>>
    BY <1>2
  <2>2. /\ \A h \in Hart : \A i \in DOMAIN s.rq[h] :
             h = BootHart /\ i = 1 /\ s.rq[h][i] = MAX_HARTS
        /\ 1 \in DOMAIN s.rq[BootHart] /\ s.rq[BootHart][1] = MAX_HARTS
    BY <2>1
  <2>3. \A t \in User : s.state[t] = "RUNNABLE" <=> t = MAX_HARTS
    BY <1>1, <1>2 DEF User
  <2>4. \A t : on_rq(s, t) <=> t = MAX_HARTS
    BY <2>2, InQueue
  <2>5. QED
    BY <1>1, <2>2, <2>3, <2>4 DEF Queued
<1>7. QED
  BY <1>3, <1>4, <1>5, <1>6 DEF Consistent, s

\* No thread can kill a thread that another hart is running.
NoRemoteKill == "KILL" \notin Syscalls \/ MAX_HARTS = 1

\* The inductive invariant behind type correctness.  While the boot hart is
\* in threads_tick it has a thread for schedule to take off the CPU.
ITyped ==
  /\ Typed(k) /\ scan \in 0 .. THREAD_MAX \cup {NONE}
  /\ ticking => k.current[BootHart] # NONE

\* A handler that runs under the lock and keeps the memory Sound.
LEMMA TrapStep ==
  ASSUME ITyped, NEW h \in Hart, CanTrap(h), UNCHANGED scan,
         Sound(k, Due(k)) => /\ Sound(k', Due(k))
                             /\ NoRemoteKill /\ Consistent(k) => Consistent(k')
  PROVE  /\ ITyped' /\ scan' = scan /\ Due(k') \subseteq Due(k)
         /\ NoRemoteKill /\ Consistent(k) => Consistent(k')
<1>1. ~ticking /\ Sound(k, Due(k))
  BY DEF ITyped, CanTrap, Sound
<1>2. ~ticking' /\ Sound(k', Due(k))
  BY <1>1 DEF ITyped, ticking
<1>3. QED
  BY <1>1, <1>2 DEF ITyped, Sound

\* Every step keeps ITyped, and with it Consistent unless a thread can be
\* killed while another hart runs it; and a step outside the loop of
\* threads_tick makes no sleeper overdue.
LEMMA NextStep ==
  ASSUME ITyped, [Next]_vars
  PROVE  /\ ITyped'
         /\ NoRemoteKill /\ Consistent(k) => Consistent(k')
         /\ \/ TimerIrq \/ WakeSleeper
            \/ (scan' = scan \/ TimerDone) /\ Due(k') \subseteq Due(k)
<1> DEFINE Goal == /\ ITyped'
                   /\ NoRemoteKill /\ Consistent(k) => Consistent(k')
                   /\ \/ TimerIrq \/ WakeSleeper
                      \/ (scan' = scan \/ TimerDone) /\ Due(k') \subseteq Due(k)
<1>1. Typed(k) /\ Sound(k, Due(k))
  BY DEF ITyped, Sound
<1>2. ASSUME NEW h \in Hart, HartOnline(h) PROVE Goal
  <2>1. h # BootHart /\ ~k.online[h] /\ k' = cpu_init_this_hart(k, h) /\ scan' = scan
    BY <1>2 DEF HartOnline
  <2>2. /\ Typed(k') /\ Due(k') = Due(k)
        /\ \A g \in Hart \ {h} : k'.current[g] = k.current[g]
        /\ Consistent(k) => Consistent(k')
    BY <1>1, <2>1, HartOnlineStep
  <2>3. QED
    BY <2>1, <2>2 DEF ITyped, ticking
<1>3. ASSUME NEW h \in Hart, EnterIdle(h) PROVE Goal
  <2>1. k.online[h] /\ k.current[h] = NONE /\ k' = cpu_enter_idle(k, h) /\ scan' = scan
    BY <1>3 DEF EnterIdle
  <2>2. /\ Typed(k') /\ Due(k') \subseteq Due(k)
        /\ \A g \in Hart : k.current[g] # NONE => k'.current[g] # NONE
        /\ Consistent(k) => Consistent(k')
    BY <1>1, <2>1, EnterIdleStep
  <2>3. QED
    BY <2>1, <2>2 DEF ITyped, ticking
<1>4. ASSUME NEW h \in Hart, IpiIrq(h) PROVE Goal
  BY <1>4, IpiStep, TrapStep DEF IpiIrq, CanTrap
<1>5. CASE TimerIrq
  <2>1. k' = tick(k) /\ scan' = 0 /\ k.current[BootHart] # NONE
    BY <1>5 DEF TimerIrq, CanTrap
  <2>2. Typed(k') /\ k'.current = k.current /\ (Consistent(k) => Consistent(k'))
    BY <1>1, <2>1, TickStep
  <2>3. QED
    BY <1>5, <2>1, <2>2 DEF ITyped
<1>6. CASE WakeSleeper
  <2>1. PICK t \in Due(k) : k' = wake_sleeper(k, t) /\ scan' = t + 1 /\ t \in Tid
    BY <1>6, WakesOne DEF ITyped
  <2>2. Typed(k') /\ k'.current = k.current /\ (Consistent(k) => Consistent(k'))
    BY <1>1, <2>1, WakeStep
  <2>3. scan' \in 0 .. THREAD_MAX
    BY <2>1 DEF Tid
  <2>4. ticking
    BY <1>6 DEF WakeSleeper
  <2>5. QED
    BY <1>6, <2>2, <2>3, <2>4 DEF ITyped
<1>7. CASE TimerDone
  <2>1. k' = end_of_tick(k, BootHart) /\ scan' = NONE /\ k.current[BootHart] # NONE
    BY <1>7 DEF TimerDone, ITyped
  <2>2. Sound(k', Due(k)) /\ (Consistent(k) => Consistent(k'))
    BY <1>1, <2>1, EndOfTickStep
  <2>3. ~ticking'
    BY <2>1 DEF ticking
  <2>4. QED
    BY <1>7, <2>1, <2>2, <2>3 DEF ITyped, Sound
<1>8. CASE UartIrq
  BY <1>8, UartStep, TrapStep DEF UartIrq
<1>9. ASSUME NEW h \in Hart, Sleep(h) PROVE Goal
  <2>1. PICK n \in SleepTicks : k' = thread_sys_sleep(k, h, n)
    BY <1>9 DEF Sleep
  <2>2. CanTrap(h) /\ k.current[h] \in User /\ UNCHANGED scan /\ n \in Nat
    BY <1>9 DEF Sleep, Ecall
  <2>3. QED
    BY <2>1, <2>2, SleepStep, TrapStep
<1>10. ASSUME NEW h \in Hart, Yield(h) PROVE Goal
  <2>1. CanTrap(h) /\ k.current[h] \in User /\ UNCHANGED scan
        /\ k' = thread_sys_sleep(k, h, 0)
    BY <1>10 DEF Yield, Ecall, thread_sys_yield
  <2>2. QED
    BY <2>1, SleepStep, TrapStep
<1>11. ASSUME NEW h \in Hart, Create(h) PROVE Goal
  BY <1>11, CreateStep, TrapStep DEF Create, Ecall
<1>12. ASSUME NEW h \in Hart, Exit(h) \/ Fault(h) PROVE Goal
  <2>1. PICK c \in Codes : k' = thread_sys_exit(k, h, c)
    BY <1>12 DEF Exit, Fault, Codes
  <2>2. CanTrap(h) /\ k.current[h] \in User /\ UNCHANGED scan
    BY <1>12 DEF Exit, Fault, Ecall
  <2>3. QED
    BY <2>1, <2>2, ExitStep, TrapStep
<1>13. ASSUME NEW h \in Hart, Join(h) PROVE Goal
  <2>1. PICK t \in Tid : k' = thread_sys_join(k, h, t)
    BY <1>13 DEF Join
  <2>2. CanTrap(h) /\ k.current[h] \in User /\ UNCHANGED scan
    BY <1>13 DEF Join, Ecall
  <2>3. QED
    BY <2>1, <2>2, JoinStep, TrapStep
<1>14. ASSUME NEW h \in Hart, Kill(h) PROVE Goal
  <2>1. PICK t \in Tid : k' = thread_sys_kill(k, h, t)
    BY <1>14 DEF Kill
  <2>2. CanTrap(h) /\ UNCHANGED scan /\ "KILL" \in Syscalls
    BY <1>14 DEF Kill, Ecall
  <2>3. ASSUME Sound(k, Due(k))
        PROVE  /\ Sound(k', Due(k))
               /\ Consistent(k) /\ k.running_hart[t] = NONE => Consistent(k')
    BY <2>1, <2>3, KillStep
  <2>4. ASSUME Sound(k, Due(k)), NoRemoteKill, Consistent(k) PROVE Consistent(k')
    <3>1. CASE kill_refused(k, h, t)
      <4>1. k' = k
        BY <2>1, <3>1 DEF thread_sys_kill
      <4>2. QED
        BY <4>1, <2>4
    <3>2. CASE ~kill_refused(k, h, t)
      <4>1. Hart = {h} /\ t # k.current[h]
        BY <2>2, <2>4, <3>2 DEF NoRemoteKill, Hart, kill_refused
      <4>2. k.running_hart[t] # h /\ k.running_hart[t] \in Hart \cup {NONE}
        BY <4>1, <2>4, <1>1 DEF Consistent, Placed, Typed
      <4>3. QED
        BY <4>1, <4>2, <2>3, <2>4
    <3>3. QED
      BY <3>1, <3>2
  <2>5. QED
    BY <2>2, <2>3, <2>4, TrapStep
<1>15. ASSUME NEW h \in Hart, Detach(h) PROVE Goal
  <2>1. PICK t \in Tid : k' = thread_sys_detach(k, h, t)
    BY <1>15 DEF Detach
  <2>2. CanTrap(h) /\ UNCHANGED scan
    BY <1>15 DEF Detach, Ecall
  <2>3. QED
    BY <2>1, <2>2, DetachStep, TrapStep
<1>16. ASSUME NEW h \in Hart, Read(h) PROVE Goal
  <2>1. PICK n \in ReadLens : k' = sys_read(k, h, n)
    BY <1>16 DEF Read
  <2>2. CanTrap(h) /\ k.current[h] \in User /\ UNCHANGED scan /\ n \in Nat
    BY <1>16 DEF Read, Ecall
  <2>3. QED
    BY <2>1, <2>2, ReadStep, TrapStep
<1>17. CASE UNCHANGED vars
  BY <1>17 DEF vars, ITyped, ticking, Due
<1>18. QED
  BY <1>2, <1>3, <1>4, <1>5, <1>6, <1>7, <1>8, <1>9, <1>10, <1>11, <1>12, <1>13,
     <1>14, <1>15, <1>16, <1>17 DEF Next

\* The initial state satisfies both parts of the invariant.
LEMMA InitInvariant == Init => ITyped /\ Consistent(k) /\ Due(k) = {}
BY InitStep DEF Init, ITyped, ticking

\* TypeOK holds in every reachable state, for any number of harts and
\* threads, with every system call, kill included: no handler of kernel/
\* stores an index outside g_threads or g_cpus, empties a time slice or
\* overfills the character ring.
THEOREM TypeCorrect == Spec => []TypeOK
<1>1. Init => ITyped
  BY InitInvariant
<1>2. ITyped /\ [Next]_vars => ITyped'
  BY NextStep
<1>3. ITyped => TypeOK
  BY DEF ITyped, TypeOK
<1>4. QED
  BY <1>1, <1>2, <1>3, PTL DEF Spec

\* The inductive invariant behind the theorems that follow.
IConsistent == ITyped /\ Consistent(k)

\* IConsistent holds in every reachable state.
LEMMA ConsistentAlways == ASSUME NoRemoteKill PROVE Spec => []IConsistent
<1>1. Init => IConsistent
  BY InitInvariant DEF IConsistent
<1>2. IConsistent /\ [Next]_vars => IConsistent'
  BY NextStep DEF IConsistent
<1>3. QED
  BY <1>1, <1>2, PTL DEF Spec

\* Unless a thread can be killed while another hart runs it, state,
\* running_hart and current_tid agree in every reachable state (schedule,
\* thread_mark_running, thread_mark_not_running).
THEOREM StatesAgree ==
  ASSUME NoRemoteKill PROVE Spec => []ThreadStatesConsistent
<1>1. IConsistent => ThreadStatesConsistent
  BY DEF IConsistent, Consistent, Placed, ThreadStatesConsistent
<1>2. QED
  BY <1>1, ConsistentAlways, PTL

\* Unless a thread can be killed while another hart runs it, the run queues
\* hold exactly the RUNNABLE threads, each once, in every reachable state:
\* the PANICF of rq_push_tail is out of reach.
THEOREM QueuesAgree ==
  ASSUME NoRemoteKill PROVE Spec => []QueuesConsistent
<1>1. IConsistent => QueuesConsistent
  BY DEF IConsistent, Consistent, Queued, QueuesConsistent
<1>2. QED
  BY <1>1, ConsistentAlways, PTL

\* Unless a thread can be killed while another hart runs it, the slot of a
\* thread on a CPU is never free: with the run recycled_running this shows
\* that thread_sys_kill of a remote victim is the only way to lose it.
THEOREM SlotHeld ==
  ASSUME NoRemoteKill PROVE Spec => []SlotHeldWhileRunning
<1>1. IConsistent => SlotHeldWhileRunning
  <2>1. ASSUME IConsistent, NEW h \in Hart, k.current[h] # NONE
        PROVE  k.state[k.current[h]] = "RUNNING"
    BY <2>1 DEF IConsistent, ITyped, Typed, Consistent, Placed
  <2>2. QED
    BY <2>1 DEF SlotHeldWhileRunning
<1>2. QED
  BY <1>1, ConsistentAlways, PTL

----------------------------------------------------------------------------
(* What schedule does, field by field.                                     *)

\* From here on a step cites the assumptions that it needs.
HIDE ArgumentsAssumption
HIDE SyscallsAssumption
HIDE CodesAssumption
HIDE RbufAssumption
HIDE SliceAssumption
HIDE BootAssumption
HIDE ThreadsAssumption
HIDE HartsAssumption

\* switch_out gives the slot of the current thread of h back.
Frees(s, h) ==
  LET cur == s.current[h]
  IN  /\ cur # h /\ s.state[cur] = "ZOMBIE"
      /\ s.join_waiter[cur] # NONE \/ s.detached[cur]

\* The state in which switch_out leaves the current thread of h.
StateOff(s, h) ==
  LET cur == s.current[h]
  IN  IF cur = h \/ s.state[cur] = "RUNNING" THEN "RUNNABLE"
      ELSE IF Frees(s, h) THEN "UNUSED" ELSE s.state[cur]

\* What no half of schedule touches.
SameIo(r, s) ==
  r.online = s.online /\ r.ipi = s.ipi /\ r.rx = s.rx /\ r.pending_read = s.pending_read

\* The fields of the thread that leaves the CPU.
ThreadOff(r, s, h) ==
  LET cur == s.current[h]
  IN  /\ \A t \in Tid \ {cur} :
           /\ r.state[t] = s.state[t] /\ r.ret[t] = s.ret[t]
           /\ r.join_waiter[t] = s.join_waiter[t]
           /\ r.waiting_for[t] = s.waiting_for[t]
           /\ r.detached[t] = s.detached[t]
      /\ r.state[cur] = StateOff(s, h)
      /\ r.ret[cur] = IF Frees(s, h) THEN "none" ELSE s.ret[cur]
      /\ r.join_waiter[cur] = IF Frees(s, h) THEN NONE ELSE s.join_waiter[cur]
      /\ r.waiting_for[cur] = IF Frees(s, h) THEN NONE ELSE s.waiting_for[cur]
      /\ r.detached[cur] = (s.detached[cur] /\ ~Frees(s, h))
      /\ r.g_stdin_waiter = IF Frees(s, h) /\ s.g_stdin_waiter = cur THEN NONE
                            ELSE s.g_stdin_waiter

\* The queue of h after switch_out.
QueueOff(r, s, h) ==
  LET cur == s.current[h]
  IN  r.rq = IF cur # h /\ s.state[cur] = "RUNNING"
             THEN [s.rq EXCEPT ![h] = Append(@, cur)] ELSE s.rq

\* switch_out, field by field.
LEMMA SwitchOutAll ==
  ASSUME NEW s, Typed(s), NEW h \in Hart, s.current[h] # NONE
  PROVE  LET r == switch_out(s, h)
         IN  /\ Typed(r) /\ r.current = s.current
             /\ SameIo(r, s) /\ ThreadOff(r, s, h) /\ QueueOff(r, s, h)
<1> DEFINE cur == s.current[h]
           off == [s EXCEPT !.running_hart[cur] = NONE]
           off2 == [off EXCEPT !.state[cur] = "RUNNABLE"]
           r == switch_out(s, h)
<1>1. cur \in Tid
  BY DEF Typed
<1>2. /\ Frame(off, s, {"running_hart"})
      /\ off.running_hart = [s.running_hart EXCEPT ![cur] = NONE]
  BY <1>1 DEF Frame, Typed, Fields
<1>3. r = IF cur = h THEN off2
          ELSE IF s.state[cur] = "RUNNING" THEN rq_push_tail(off2, h, cur)
          ELSE IF Frees(s, h) THEN recycle_thread(off, cur)
          ELSE off
  BY DEF switch_out, Frees
<1>4. Typed(r) /\ r.current = s.current
  BY SwitchOutFields DEF SwitchedOut
<1> HIDE DEF off
<1>5. Typed(off)
  BY <1>1, <1>2 DEF Frame, Typed, Fields
<1>6. /\ Frame(off2, off, {"state"})
      /\ off2.state = [off.state EXCEPT ![cur] = "RUNNABLE"]
  BY <1>1, <1>5 DEF Frame, Typed, Fields
<1> HIDE DEF off2, r
<1>7. Frame(off2, s, {"state", "running_hart"})
      /\ off2.state = [s.state EXCEPT ![cur] = "RUNNABLE"]
  BY <1>2, <1>6 DEF Frame, Fields
<1>8. cur = h => ~Frees(s, h)
  BY DEF Frees
<1>9. s.state[cur] = "RUNNING" => ~Frees(s, h)
  BY DEF Frees
<1>10. CASE cur = h \/ s.state[cur] = "RUNNING"
  <2>1. /\ Frame(r, s, {"state", "running_hart", "rq"})
        /\ r.state = [s.state EXCEPT ![cur] = "RUNNABLE"]
        /\ QueueOff(r, s, h)
    <3>1. CASE cur = h
      <4>1. r = off2
        BY <1>3, <3>1
      <4>2. r.rq = s.rq
        BY <4>1, <1>7 DEF Frame, Fields
      <4>3. QED
        BY <4>1, <4>2, <3>1, <1>7 DEF Frame, QueueOff
    <3>2. CASE cur # h /\ s.state[cur] = "RUNNING"
      <4>1. Typed(off2)
        <5>1. off2.state \in [Tid -> States]
          BY <1>1, <1>7 DEF Typed, States
        <5>2. QED
          BY <5>1, <1>5, <1>6 DEF Typed, Frame, Fields
      <4>2. Pushed(r, off2, h, cur)
        BY <3>2, <4>1, <1>1, <1>3, PushFields
      <4>3. Frame(r, s, {"state", "running_hart", "rq"})
            /\ r.state = off2.state /\ off2.rq = s.rq
        BY <4>2, <1>7 DEF Pushed, Frame, Fields
      <4>4. QED
        BY <4>2, <4>3, <3>2, <1>7 DEF Pushed, QueueOff
    <3>3. QED
      BY <3>1, <3>2, <1>10
  <2>2. /\ r.ret = s.ret /\ r.join_waiter = s.join_waiter
        /\ r.waiting_for = s.waiting_for /\ r.detached = s.detached
        /\ r.g_stdin_waiter = s.g_stdin_waiter /\ SameIo(r, s)
    BY <2>1 DEF Frame, Fields, SameIo
  <2>3. /\ r.state[cur] = "RUNNABLE"
        /\ \A t \in Tid \ {cur} : r.state[t] = s.state[t]
    BY <2>1, <1>1 DEF Typed
  <2>4. s.detached[cur] \in BOOLEAN
    BY <1>1 DEF Typed
  <2>5. ThreadOff(r, s, h)
    BY <2>2, <2>3, <2>4, <1>8, <1>9, <1>10 DEF ThreadOff, StateOff
  <2>6. QED
    BY <2>1, <2>2, <2>5, <1>4 DEF r
<1>11. CASE ~(cur = h \/ s.state[cur] = "RUNNING") /\ ~Frees(s, h)
  <2>1. r = off
    BY <1>3, <1>11
  <2>2. /\ r.ret = s.ret /\ r.join_waiter = s.join_waiter
        /\ r.waiting_for = s.waiting_for /\ r.detached = s.detached
        /\ r.g_stdin_waiter = s.g_stdin_waiter /\ SameIo(r, s)
        /\ r.state = s.state /\ r.rq = s.rq
    BY <2>1, <1>2 DEF Frame, Fields, SameIo
  <2>3. s.detached[cur] \in BOOLEAN
    BY <1>1 DEF Typed
  <2>4. ThreadOff(r, s, h) /\ QueueOff(r, s, h)
    BY <2>2, <2>3, <1>11 DEF ThreadOff, StateOff, QueueOff
  <2>5. QED
    BY <2>2, <2>4, <1>4 DEF r
<1>12. CASE ~(cur = h \/ s.state[cur] = "RUNNING") /\ Frees(s, h)
  <2>1. r = recycle_thread(off, cur)
    BY <1>3, <1>12
  <2>2. Recycled(r, off, cur)
    BY <2>1, <1>1, <1>5, RecycleFields
  <2>3. /\ r.state = [s.state EXCEPT ![cur] = "UNUSED"]
        /\ r.ret = [s.ret EXCEPT ![cur] = "none"]
        /\ r.join_waiter = [s.join_waiter EXCEPT ![cur] = NONE]
        /\ r.waiting_for = [s.waiting_for EXCEPT ![cur] = NONE]
        /\ r.detached = [s.detached EXCEPT ![cur] = FALSE]
        /\ r.g_stdin_waiter = IF s.g_stdin_waiter = cur THEN NONE
                              ELSE s.g_stdin_waiter
        /\ r.rq = s.rq /\ SameIo(r, s)
    BY <2>2, <1>2 DEF Recycled, Frame, Fields, SameIo
  <2>4. ThreadOff(r, s, h)
    <3>1. /\ r.state[cur] = "UNUSED" /\ r.ret[cur] = "none" /\ r.join_waiter[cur] = NONE
          /\ r.waiting_for[cur] = NONE /\ r.detached[cur] = FALSE
      BY <2>3, <1>1 DEF Typed
    <3>2. \A t \in Tid \ {cur} : /\ r.state[t] = s.state[t] /\ r.ret[t] = s.ret[t]
                                 /\ r.join_waiter[t] = s.join_waiter[t]
                                 /\ r.waiting_for[t] = s.waiting_for[t]
                                 /\ r.detached[t] = s.detached[t]
      BY <2>3, <1>1 DEF Typed
    <3>3. QED
      BY <2>3, <3>1, <3>2, <1>12 DEF ThreadOff, StateOff
  <2>5. QueueOff(r, s, h)
    BY <2>3, <1>12 DEF QueueOff
  <2>6. QED
    BY <2>3, <2>4, <2>5, <1>4 DEF r
<1>13. QED
  BY <1>10, <1>11, <1>12

\* The thread that runs next, and the queue that is left behind.
TakesOver(r, s, h) ==
  LET next == r.current[h]
  IN  /\ next \in Tid
      /\ \/ next = h /\ r.rq[h] = <<>>
         \/ /\ \E i \in 1 .. Len(s.rq[h]) : next = s.rq[h][i]
            /\ s.state[next] = "RUNNABLE"
      /\ \A g \in Hart \ {h} : r.rq[g] = s.rq[g] /\ r.current[g] = s.current[g]
      /\ \A i \in 1 .. Len(r.rq[h]) : \E j \in 1 .. Len(s.rq[h]) :
           r.rq[h][i] = s.rq[h][j]

\* switch_in, field by field.
LEMMA SwitchInAll ==
  ASSUME NEW s, Typed(s), NEW h \in Hart
  PROVE  LET r == switch_in(s, h)
         IN  /\ Typed(r) /\ SameIo(r, s) /\ TakesOver(r, s, h)
             /\ r.state = [s.state EXCEPT ![r.current[h]] = "RUNNING"]
             /\ r.ret = [s.ret EXCEPT ![r.current[h]] = "none"]
             /\ r.join_waiter = s.join_waiter /\ r.waiting_for = s.waiting_for
             /\ r.detached = s.detached /\ r.g_stdin_waiter = s.g_stdin_waiter
<1> DEFINE r == switch_in(s, h)
           q == s.rq[h]
           i == SelectInSeq(q, LAMBDA t : s.state[t] = "RUNNABLE")
           next == IF i = 0 THEN h ELSE q[i]
           rest == IF i = 0 THEN <<>> ELSE SubSeq(q, i + 1, Len(q))
<1>1. Typed(r) /\ SwitchedIn(r, s, h)
  BY SwitchInFields
<1>2. r = [s EXCEPT !.rq[h] = rest, !.current[h] = next,
                    !.state[next] = "RUNNING", !.running_hart[next] = h,
                    !.ret[next] = "none", !.slice_left[h] = SCHED_SLICE_TICKS]
  BY Zenon DEF switch_in
<1> HIDE DEF next, rest, i, r
<1>3. /\ r.current = [s.current EXCEPT ![h] = next]
      /\ r.state = [s.state EXCEPT ![next] = "RUNNING"]
      /\ r.ret = [s.ret EXCEPT ![next] = "none"]
      /\ r.join_waiter = s.join_waiter /\ r.waiting_for = s.waiting_for
      /\ r.detached = s.detached /\ r.g_stdin_waiter = s.g_stdin_waiter
      /\ r.online = s.online /\ r.ipi = s.ipi /\ r.rx = s.rx
      /\ r.pending_read = s.pending_read
  BY <1>2 DEF Typed, Fields
<1>4. next = r.current[h]
  BY <1>3 DEF Typed
<1>5. q \in Seq(Tid) /\ Len(q) \in Nat
  <2>1. q \in Seq(Tid)
    BY DEF Typed
  <2>2. QED
    BY <2>1
<1>6. PICK n \in Tid :
    /\ \A g \in Hart : r.current[g] = IF g = h THEN n ELSE s.current[g]
    /\ \/ /\ n = h
          /\ r.rq = [s.rq EXCEPT ![h] = <<>>]
       \/ \E j \in 1 .. Len(s.rq[h]) :
            /\ n = s.rq[h][j] /\ s.state[n] = "RUNNABLE"
            /\ r.rq = [s.rq EXCEPT ![h] = SubSeq(s.rq[h], j + 1, Len(s.rq[h]))]
  BY <1>1 DEF SwitchedIn
<1>7. n = r.current[h] /\ \A g \in Hart \ {h} : r.current[g] = s.current[g]
  BY <1>6
<1>8. TakesOver(r, s, h)
  <2>1. CASE n = h /\ r.rq = [s.rq EXCEPT ![h] = <<>>]
    <3>1. r.rq[h] = <<>> /\ \A g \in Hart \ {h} : r.rq[g] = s.rq[g]
      BY <2>1 DEF Typed
    <3>2. QED
      BY <2>1, <3>1, <1>7 DEF TakesOver
  <2>2. CASE \E j \in 1 .. Len(s.rq[h]) :
            /\ n = s.rq[h][j] /\ s.state[n] = "RUNNABLE"
            /\ r.rq = [s.rq EXCEPT ![h] = SubSeq(s.rq[h], j + 1, Len(s.rq[h]))]
    <3>1. PICK j \in 1 .. Len(q) :
            /\ n = q[j] /\ s.state[n] = "RUNNABLE"
            /\ r.rq = [s.rq EXCEPT ![h] = SubSeq(q, j + 1, Len(q))]
      BY <2>2
    <3>2. /\ r.rq[h] = SubSeq(q, j + 1, Len(q))
          /\ \A g \in Hart \ {h} : r.rq[g] = s.rq[g]
      BY <3>1 DEF Typed
    <3>3. /\ Len(SubSeq(q, j + 1, Len(q))) = Len(q) - j
          /\ \A l \in 1 .. Len(q) - j : SubSeq(q, j + 1, Len(q))[l] = q[j + l]
      <4>1. j + 1 \in 1 .. Len(q) + 1 /\ Len(q) \in 0 .. Len(q)
        BY <1>5
      <4>2. QED
        BY <4>1, <1>5, SubSeqProperties, SMTT(30)
    <3>4. ASSUME NEW l \in 1 .. Len(r.rq[h])
          PROVE  \E a \in 1 .. Len(q) : r.rq[h][l] = q[a]
      <4>1. l \in 1 .. Len(q) - j /\ j + l \in 1 .. Len(q)
        BY <3>2, <3>3, <1>5
      <4>2. QED
        BY <4>1, <3>2, <3>3
    <3>5. QED
      BY <3>1, <3>2, <3>4, <1>7 DEF TakesOver
  <2>3. QED
    BY <1>6, <2>1, <2>2
<1>9. QED
  BY <1>1, <1>3, <1>4, <1>8 DEF r, SameIo

\* schedule, field by field.  cur is the thread that leaves the CPU of hart
\* h, next the one that gets it; they may be the same.
Scheduled(r, s, h) ==
  LET cur  == s.current[h]
      next == r.current[h]
  IN  /\ SameIo(r, s)
      /\ next \in Tid
      /\ \/ next = h /\ r.rq[h] = <<>>
         \/ /\ (next = cur /\ cur # h) \/ \E i \in 1 .. Len(s.rq[h]) : next = s.rq[h][i]
            /\ IF next = cur THEN StateOff(s, h) = "RUNNABLE"
               ELSE s.state[next] = "RUNNABLE"
      /\ \A g \in Hart \ {h} : r.rq[g] = s.rq[g] /\ r.current[g] = s.current[g]
      /\ \A i \in 1 .. Len(r.rq[h]) :
           \/ r.rq[h][i] = cur /\ cur # h
           \/ \E j \in 1 .. Len(s.rq[h]) : r.rq[h][i] = s.rq[h][j]
      /\ \A t \in Tid :
           LET freed == t = cur /\ Frees(s, h)
           IN  /\ r.state[t] = IF t = next THEN "RUNNING"
                               ELSE IF t = cur THEN StateOff(s, h) ELSE s.state[t]
               /\ r.ret[t] = IF t = next \/ freed THEN "none" ELSE s.ret[t]
               /\ r.join_waiter[t] = IF freed THEN NONE ELSE s.join_waiter[t]
               /\ r.waiting_for[t] = IF freed THEN NONE ELSE s.waiting_for[t]
               /\ r.detached[t] = (s.detached[t] /\ ~freed)
      /\ r.g_stdin_waiter = IF Frees(s, h) /\ s.g_stdin_waiter = cur THEN NONE
                            ELSE s.g_stdin_waiter

\* schedule does that.
LEMMA ScheduleAll ==
  ASSUME NEW s, Typed(s), NEW h \in Hart, s.current[h] # NONE
  PROVE  Typed(schedule(s, h)) /\ Scheduled(schedule(s, h), s, h)
<1> DEFINE cur == s.current[h]
           m == switch_out(s, h)
           r == switch_in(m, h)
           next == r.current[h]
<1>1. cur \in Tid
  BY DEF Typed
<1>2. /\ Typed(m) /\ m.current = s.current
      /\ SameIo(m, s) /\ ThreadOff(m, s, h) /\ QueueOff(m, s, h)
  BY SwitchOutAll
<1>3. r = schedule(s, h)
  BY DEF schedule
<1> HIDE DEF m
<1>4. /\ Typed(r) /\ SameIo(r, m) /\ TakesOver(r, m, h)
      /\ r.state = [m.state EXCEPT ![next] = "RUNNING"]
      /\ r.ret = [m.ret EXCEPT ![next] = "none"]
      /\ r.join_waiter = m.join_waiter /\ r.waiting_for = m.waiting_for
      /\ r.detached = m.detached /\ r.g_stdin_waiter = m.g_stdin_waiter
  BY <1>2, SwitchInAll
<1> HIDE DEF r
<1>5. next \in Tid
  BY <1>4 DEF TakesOver
<1>6. /\ \A g \in Hart \ {h} : m.rq[g] = s.rq[g]
      /\ \A j \in 1 .. Len(m.rq[h]) :
           \/ m.rq[h][j] = cur /\ cur # h
           \/ \E l \in 1 .. Len(s.rq[h]) : m.rq[h][j] = s.rq[h][l]
  <2>1. CASE cur # h /\ s.state[cur] = "RUNNING"
    <3>1. m.rq = [s.rq EXCEPT ![h] = Append(@, cur)]
      BY <2>1, <1>2 DEF QueueOff
    <3>2. s.rq[h] \in Seq(Tid) /\ m.rq[h] = Append(s.rq[h], cur)
          /\ \A g \in Hart \ {h} : m.rq[g] = s.rq[g]
      BY <3>1 DEF Typed
    <3>3. QED
      BY <2>1, <3>2, <1>1, AppendProperties
  <2>2. CASE ~(cur # h /\ s.state[cur] = "RUNNING")
    <3>1. m.rq = s.rq
      BY <2>2, <1>2 DEF QueueOff
    <3>2. QED
      BY <3>1
  <2>3. QED
    BY <2>1, <2>2
<1>7. \A g \in Hart \ {h} : r.rq[g] = s.rq[g] /\ r.current[g] = s.current[g]
  BY <1>2, <1>4, <1>6 DEF TakesOver
<1>8. \A i \in 1 .. Len(r.rq[h]) :
        \/ r.rq[h][i] = cur /\ cur # h
        \/ \E j \in 1 .. Len(s.rq[h]) : r.rq[h][i] = s.rq[h][j]
  <2>1. ASSUME NEW i \in 1 .. Len(r.rq[h])
        PROVE  \/ r.rq[h][i] = cur /\ cur # h
               \/ \E j \in 1 .. Len(s.rq[h]) : r.rq[h][i] = s.rq[h][j]
    <3>1. PICK j \in 1 .. Len(m.rq[h]) : r.rq[h][i] = m.rq[h][j]
      BY <1>4 DEF TakesOver
    <3>2. QED
      BY <3>1, <1>6
  <2>2. QED
    BY <2>1
<1>9. \A t \in Tid : m.state[t] = IF t = cur THEN StateOff(s, h) ELSE s.state[t]
  BY <1>2 DEF ThreadOff
<1>10. \/ next = h /\ r.rq[h] = <<>>
       \/ /\ (next = cur /\ cur # h) \/ \E i \in 1 .. Len(s.rq[h]) : next = s.rq[h][i]
          /\ IF next = cur THEN StateOff(s, h) = "RUNNABLE"
             ELSE s.state[next] = "RUNNABLE"
  <2>1. CASE next = h /\ r.rq[h] = <<>>
    BY <2>1
  <2>2. CASE /\ \E i \in 1 .. Len(m.rq[h]) : next = m.rq[h][i]
             /\ m.state[next] = "RUNNABLE"
    <3>1. PICK i \in 1 .. Len(m.rq[h]) : next = m.rq[h][i]
      BY <2>2
    <3>2. (next = cur /\ cur # h) \/ \E l \in 1 .. Len(s.rq[h]) : next = s.rq[h][l]
      BY <3>1, <1>6
    <3>3. QED
      BY <2>2, <3>2, <1>5, <1>9
  <2>3. QED
    BY <2>1, <2>2, <1>4 DEF TakesOver
<1>11. ASSUME NEW t \in Tid
       PROVE  LET freed == t = cur /\ Frees(s, h)
              IN  /\ r.state[t] = IF t = next THEN "RUNNING"
                                  ELSE IF t = cur THEN StateOff(s, h) ELSE s.state[t]
                  /\ r.ret[t] = IF t = next \/ freed THEN "none" ELSE s.ret[t]
                  /\ r.join_waiter[t] = IF freed THEN NONE ELSE s.join_waiter[t]
                  /\ r.waiting_for[t] = IF freed THEN NONE ELSE s.waiting_for[t]
                  /\ r.detached[t] = (s.detached[t] /\ ~freed)
  <2>1. /\ r.state[t] = IF t = next THEN "RUNNING" ELSE m.state[t]
        /\ r.ret[t] = IF t = next THEN "none" ELSE m.ret[t]
    BY <1>2, <1>4 DEF Typed
  <2>2. m.ret[t] = IF t = cur /\ Frees(s, h) THEN "none" ELSE s.ret[t]
    BY <1>2 DEF ThreadOff
  <2>3. /\ r.join_waiter[t] = IF t = cur /\ Frees(s, h) THEN NONE ELSE s.join_waiter[t]
        /\ r.waiting_for[t] = IF t = cur /\ Frees(s, h) THEN NONE ELSE s.waiting_for[t]
    BY <1>2, <1>4 DEF ThreadOff
  <2>4. s.detached[t] \in BOOLEAN
    BY DEF Typed
  <2>5. r.detached[t] = (s.detached[t] /\ ~(t = cur /\ Frees(s, h)))
    BY <2>4, <1>2, <1>4 DEF ThreadOff
  <2>6. QED
    BY <2>1, <2>2, <2>3, <2>5, <1>9
<1>12. r.g_stdin_waiter = IF Frees(s, h) /\ s.g_stdin_waiter = cur THEN NONE
                          ELSE s.g_stdin_waiter
  BY <1>2, <1>4 DEF ThreadOff
<1>13. SameIo(r, s)
  BY <1>2, <1>4 DEF SameIo
<1>14. Scheduled(r, s, h)
  BY <1>5, <1>7, <1>8, <1>10, <1>11, <1>12, <1>13 DEF Scheduled
<1>15. QED
  BY <1>3, <1>4, <1>14

----------------------------------------------------------------------------
(* Work queued on a hart that has no timer.                                *)

\* What is true of the harts at any point of any handler, kill included: a
\* hart runs a user thread or its own idle thread, a hart that is not up
\* runs nothing and has an empty queue, queues hold user threads, and an idle
\* thread is RUNNABLE or RUNNING.
Grounded(s) ==
  /\ \A g \in Hart : s.current[g] \in User \cup {g, NONE}
  /\ \A g \in Hart : ~s.online[g] => s.current[g] = NONE /\ s.rq[g] = <<>>
  /\ \A g \in Hart : \A i \in 1 .. Len(s.rq[g]) : s.rq[g][i] \in User
  /\ \A g \in Hart : s.state[g] \in {"RUNNABLE", "RUNNING"}

\* A hart outside X that is idle, or on its way to idle, and has work queued
\* has an IPI pending.  NoLostKick says it with the boot hart in X; inside a
\* handler of hart h, h is in X too, for it will look at its queue itself.
Kicks(s, X) ==
  \A g \in Hart \ X : s.current[g] \in {g, NONE} /\ s.rq[g] # <<>> => s.ipi[g]

\* The two together.
Attended(s, X) == Grounded(s) /\ Kicks(s, X)

\* Idle threads, user threads and NONE are different things.
LEMMA Kinds ==
  /\ Hart \subseteq Tid /\ User \subseteq Tid /\ NONE \notin Tid
  /\ \A g \in Hart : g \notin User
BY HartsAssumption, ThreadsAssumption DEF Hart, Tid, User, NONE

\* A change that is not about harts, queues and idle threads.
LEMMA AttendedSame ==
  ASSUME NEW s, NEW m, NEW X, Attended(s, X),
         m.current = s.current, m.online = s.online, m.rq = s.rq, m.ipi = s.ipi,
         \A g \in Hart : m.state[g] = s.state[g]
  PROVE  Attended(m, X)
BY DEF Attended, Grounded, Kicks

\* A trap on hart h, and the return to a user thread of h without a call of
\* schedule.
LEMMA AttendedTrap ==
  ASSUME NEW s, NEW h \in Hart
  PROVE  /\ Attended(s, {BootHart}) => Attended(s, {BootHart, h})
         /\ Attended(s, {BootHart, h}) /\ s.current[h] \in User \cup {h}
              /\ (s.current[h] = h => h = BootHart) => Attended(s, {BootHart})
BY Kinds DEF Attended, Kicks

\* thread_make_runnable kicks the hart whose queue it uses, unless it is the
\* hart of the caller.
LEMMA MakeRunnableAttended ==
  ASSUME NEW s, Typed(s), NEW h \in Hart, NEW t \in Tid, s.online[h],
         NEW X, h \in X, Attended(s, X)
  PROVE  Attended(thread_make_runnable(s, h, t, h), X)
<1> DEFINE target == sched_pick_target_hart(s, h)
           a == [s EXCEPT !.state[t] = "RUNNABLE", !.wakeup_tick[t] = 0]
           queued == rq_push_tail(a, target, t)
           kicked == smp_kick_hart(queued, target)
           r == thread_make_runnable(s, h, t, h)
<1>1. target \in Hart /\ s.online[target]
  <2> DEFINE on == {g \in Hart : s.online[g]}
             best == {g \in on : \A f \in on : rq_len(s, g) <= rq_len(s, f)}
  <2>1. best \subseteq Nat /\ best \subseteq on
    BY DEF Hart
  <2>2. best # {} => Min(best) \in on
    BY <2>1, MinOfNats
  <2>3. QED
    BY <2>2 DEF sched_pick_target_hart
<1>2. /\ Frame(a, s, {"state", "wakeup_tick"})
      /\ a.state = [s.state EXCEPT ![t] = "RUNNABLE"]
      /\ a.wakeup_tick = [s.wakeup_tick EXCEPT ![t] = 0]
  BY DEF Frame, Typed, Fields
<1> HIDE DEF a
<1>3. Typed(a)
  BY <1>2, SMTT(30) DEF Typed, Frame, Fields, States
<1>4. Pushed(queued, a, target, t)
  BY <1>1, <1>3, PushFields
<1>5. kicked = [queued EXCEPT !.ipi[target] = TRUE]
  <2>1. queued.online = s.online
    BY <1>2, <1>4 DEF Pushed, Frame, Fields
  <2>2. QED
    BY <1>1, <2>1 DEF smp_kick_hart
<1>6. r = IF t \notin User \/ on_rq(s, t) \/ s.state[t] = "RUNNING" THEN s
          ELSE IF target = h THEN queued ELSE kicked
  BY DEF thread_make_runnable, a
<1>7. Typed(queued)
  BY <1>1, <1>3, <1>4, PushTyped
<1> HIDE DEF r, queued, target, kicked
<1>8. /\ Frame(kicked, queued, {"ipi"})
      /\ kicked.ipi = [queued.ipi EXCEPT ![target] = TRUE]
  BY <1>1, <1>5, <1>7 DEF Frame, Fields, Typed
<1>9. CASE r = s
  BY <1>9 DEF r
<1>10. CASE t \in User /\ (IF target = h THEN r = queued ELSE r = kicked)
  <2>1. /\ r.current = s.current /\ r.online = s.online
        /\ r.rq = [s.rq EXCEPT ![target] = Append(@, t)]
        /\ r.state = [s.state EXCEPT ![t] = "RUNNABLE"]
        /\ r.ipi \in {s.ipi, [s.ipi EXCEPT ![target] = TRUE]}
        /\ target # h => r.ipi = [s.ipi EXCEPT ![target] = TRUE]
    <3>1. /\ queued.current = s.current /\ queued.online = s.online
          /\ queued.rq = [s.rq EXCEPT ![target] = Append(@, t)]
          /\ queued.state = [s.state EXCEPT ![t] = "RUNNABLE"]
          /\ queued.ipi = s.ipi
      BY <1>2, <1>4 DEF Pushed, Frame, Fields
    <3>2. /\ kicked.current = s.current /\ kicked.online = s.online
          /\ kicked.rq = queued.rq /\ kicked.state = queued.state
          /\ kicked.ipi = [s.ipi EXCEPT ![target] = TRUE]
      BY <3>1, <1>8 DEF Frame, Fields
    <3>3. QED
      BY <3>1, <3>2, <1>10
  <2>2. s.rq[target] \in Seq(Tid) /\ r.rq[target] = Append(s.rq[target], t)
        /\ \A g \in Hart \ {target} : r.rq[g] = s.rq[g]
    <3>1. s.rq \in [Hart -> Seq(Tid)]
      BY DEF Typed
    <3>2. QED
      BY <3>1, <2>1, <1>1
  <2>3. \A i \in 1 .. Len(r.rq[target]) :
          r.rq[target][i] = t \/ \E j \in 1 .. Len(s.rq[target]) :
                                   r.rq[target][i] = s.rq[target][j]
    BY <2>2, AppendProperties
  <2>4. \A g \in Hart : \A i \in 1 .. Len(r.rq[g]) : r.rq[g][i] \in User
    <3>1. \A g \in Hart : \A i \in 1 .. Len(s.rq[g]) : s.rq[g][i] \in User
      BY DEF Attended, Grounded
    <3>2. \A i \in 1 .. Len(r.rq[target]) : r.rq[target][i] \in User
      BY <2>3, <3>1, <1>1, <1>10
    <3>3. QED
      BY <2>2, <3>1, <3>2
  <2>5. \A g \in Hart : r.state[g] = s.state[g]
    <3>1. s.state \in [Tid -> States] /\ \A g \in Hart : g \in Tid /\ g # t
      BY <1>10, Kinds DEF Typed
    <3>2. QED
      BY <2>1, <3>1
  <2>6. Grounded(r)
    BY <2>1, <2>2, <2>4, <2>5, <1>1 DEF Attended, Grounded
  <2>7. \A g \in Hart : s.ipi[g] => r.ipi[g]
    <3>1. s.ipi \in [Hart -> BOOLEAN]
      BY DEF Typed
    <3>2. QED
      BY <2>1, <3>1, <1>1
  <2>8. target # h => r.ipi[target]
    BY <2>1, <1>1 DEF Typed
  <2>9. Kicks(r, X)
    BY <2>1, <2>2, <2>7, <2>8 DEF Attended, Kicks
  <2>10. QED
    BY <2>6, <2>9 DEF Attended, r
<1>11. QED
  BY <1>6, <1>9, <1>10

\* schedule runs idle only when the queue is empty, so hart h itself needs
\* no IPI afterwards.
LEMMA ScheduleAttended ==
  ASSUME NEW s, Typed(s), NEW h \in Hart, s.current[h] # NONE,
         Attended(s, {BootHart, h})
  PROVE  Attended(schedule(s, h), {BootHart})
<1> DEFINE r == schedule(s, h)
           cur == s.current[h]
           next == r.current[h]
<1>1. Typed(r) /\ Scheduled(r, s, h)
  BY ScheduleAll
<1> HIDE DEF r
<1>2. cur \in User \cup {h} /\ s.online[h]
  BY DEF Attended, Grounded
<1>3. \A g \in Hart : \A i \in 1 .. Len(s.rq[g]) : s.rq[g][i] \in User
  BY DEF Attended, Grounded
<1>4. \/ next = h /\ r.rq[h] = <<>>
      \/ next \in User
  BY <1>1, <1>2, <1>3 DEF Scheduled
<1>5. /\ \A g \in Hart \ {h} : r.rq[g] = s.rq[g] /\ r.current[g] = s.current[g]
      /\ r.online = s.online /\ r.ipi = s.ipi
  BY <1>1 DEF Scheduled, SameIo
<1>6. \A i \in 1 .. Len(r.rq[h]) : r.rq[h][i] \in User
  BY <1>1, <1>2, <1>3 DEF Scheduled
<1>7. ASSUME NEW g \in Hart PROVE r.state[g] \in {"RUNNABLE", "RUNNING"}
  <2>1. g \in Tid /\ (g = cur => g = h)
    BY <1>2, Kinds
  <2>2. s.state[g] \in {"RUNNABLE", "RUNNING"}
    BY DEF Attended, Grounded
  <2>3. r.state[g] = IF g = next THEN "RUNNING"
                     ELSE IF g = cur THEN StateOff(s, h) ELSE s.state[g]
    BY <2>1, <1>1 DEF Scheduled
  <2>4. QED
    BY <2>1, <2>2, <2>3 DEF StateOff
<1>8. Grounded(r)
  <2>1. \A g \in Hart : r.current[g] \in User \cup {g, NONE}
    BY <1>4, <1>5 DEF Attended, Grounded
  <2>2. \A g \in Hart : ~r.online[g] => r.current[g] = NONE /\ r.rq[g] = <<>>
    BY <1>2, <1>5 DEF Attended, Grounded
  <2>3. \A g \in Hart : \A i \in 1 .. Len(r.rq[g]) : r.rq[g][i] \in User
    BY <1>3, <1>5, <1>6
  <2>4. QED
    BY <2>1, <2>2, <2>3, <1>7 DEF Grounded
<1>9. Kicks(r, {BootHart})
  BY <1>4, <1>5, Kinds DEF Attended, Kicks
<1>10. QED
  BY <1>8, <1>9 DEF Attended, r

\* recycle_thread of a user thread.
LEMMA RecycleAttended ==
  ASSUME NEW s, Typed(s), NEW t \in User, NEW X, Attended(s, X),
         NEW r, Recycled(r, s, t)
  PROVE  Attended(r, X)
<1>1. /\ r.current = s.current /\ r.online = s.online /\ r.rq = s.rq
      /\ r.ipi = s.ipi /\ r.state = [s.state EXCEPT ![t] = "UNUSED"]
  BY DEF Recycled, Frame, Fields
<1>2. \A g \in Hart : r.state[g] = s.state[g]
  <2>1. s.state \in [Tid -> States] /\ \A g \in Hart : g \in Tid /\ g # t
    BY Kinds DEF Typed
  <2>2. QED
    BY <1>1, <2>1
<1>3. QED
  BY <1>1, <1>2 DEF Attended, Grounded, Kicks

----------------------------------------------------------------------------
(* The records in the middle of the handlers, field by field.              *)

\* thread_sys_sleep before it calls schedule.
LEMMA SleepFields ==
  ASSUME NEW s, Typed(s), NEW t \in Tid, NEW n \in Nat
  PROVE  LET m == [s EXCEPT !.state[t] = "SLEEPING", !.wakeup_tick[t] = n]
         IN  /\ Typed(m) /\ Frame(m, s, {"state", "wakeup_tick"})
             /\ \A u \in Tid : m.state[u] = IF u = t THEN "SLEEPING" ELSE s.state[u]
<1> DEFINE m == [s EXCEPT !.state[t] = "SLEEPING", !.wakeup_tick[t] = n]
<1>1. /\ Frame(m, s, {"state", "wakeup_tick"})
      /\ m.state = [s.state EXCEPT ![t] = "SLEEPING"]
      /\ m.wakeup_tick = [s.wakeup_tick EXCEPT ![t] = n]
  BY DEF Frame, Fields, Typed
<1> HIDE DEF m
<1>2. /\ m.state \in [Tid -> States] /\ m.wakeup_tick \in [Tid -> Nat]
      /\ \A u \in Tid : m.state[u] = IF u = t THEN "SLEEPING" ELSE s.state[u]
  BY <1>1 DEF Typed, States
<1>3. Typed(m)
  BY <1>1, <1>2 DEF Frame, Fields, Typed
<1>4. QED
  BY <1>1, <1>2, <1>3 DEF m

\* sched_on_ipi_irq before it calls schedule.
LEMMA AckFields ==
  ASSUME NEW s, Typed(s), NEW h \in Hart
  PROVE  LET m == [s EXCEPT !.ipi[h] = FALSE]
         IN  Typed(m) /\ Frame(m, s, {"ipi"})
<1> DEFINE m == [s EXCEPT !.ipi[h] = FALSE]
<1>1. Frame(m, s, {"ipi"}) /\ m.ipi = [s.ipi EXCEPT ![h] = FALSE]
  BY DEF Frame, Fields, Typed
<1> HIDE DEF m
<1>2. s.ipi \in [Hart -> BOOLEAN]
  BY DEF Typed
<1>3. m.ipi \in [Hart -> BOOLEAN]
  BY <1>1, <1>2
<1>4. Typed(m)
  BY <1>1, <1>3 DEF Frame, Fields, Typed
<1>5. QED
  BY <1>1, <1>4 DEF m

\* thread_sys_exit before it wakes the joiner.
LEMMA DeadFields ==
  ASSUME NEW s, Typed(s), NEW t \in Tid, NEW code \in Codes
  PROVE  LET m == [s EXCEPT !.state[t] = "ZOMBIE", !.exit_code[t] = code]
         IN  /\ Typed(m) /\ Frame(m, s, {"state", "exit_code"})
             /\ \A u \in Tid : m.state[u] = IF u = t THEN "ZOMBIE" ELSE s.state[u]
<1> DEFINE m == [s EXCEPT !.state[t] = "ZOMBIE", !.exit_code[t] = code]
<1>1. /\ Frame(m, s, {"state", "exit_code"})
      /\ m.state = [s.state EXCEPT ![t] = "ZOMBIE"]
      /\ m.exit_code = [s.exit_code EXCEPT ![t] = code]
  BY DEF Frame, Fields, Typed
<1> HIDE DEF m
<1>2. /\ m.state \in [Tid -> States] /\ m.exit_code \in [Tid -> Codes]
      /\ \A u \in Tid : m.state[u] = IF u = t THEN "ZOMBIE" ELSE s.state[u]
  BY <1>1 DEF Typed, States
<1>3. Typed(m)
  BY <1>1, <1>2 DEF Frame, Fields, Typed
<1>4. QED
  BY <1>1, <1>2, <1>3 DEF m

\* thread_sys_kill before it unlinks the victim.
LEMMA KilledFields ==
  ASSUME NEW s, Typed(s), NEW t \in Tid
  PROVE  LET m == [s EXCEPT !.state[t] = "ZOMBIE", !.exit_code[t] = "killed",
                            !.wakeup_tick[t] = 0]
         IN  /\ Typed(m) /\ Frame(m, s, {"state", "exit_code", "wakeup_tick"})
             /\ \A u \in Tid : m.state[u] = IF u = t THEN "ZOMBIE" ELSE s.state[u]
<1> DEFINE m == [s EXCEPT !.state[t] = "ZOMBIE", !.exit_code[t] = "killed",
                          !.wakeup_tick[t] = 0]
<1>1. /\ Frame(m, s, {"state", "exit_code", "wakeup_tick"})
      /\ m.state = [s.state EXCEPT ![t] = "ZOMBIE"]
      /\ m.exit_code = [s.exit_code EXCEPT ![t] = "killed"]
      /\ m.wakeup_tick = [s.wakeup_tick EXCEPT ![t] = 0]
  BY DEF Frame, Fields, Typed
<1> HIDE DEF m
<1>2. /\ m.state \in [Tid -> States] /\ m.exit_code \in [Tid -> Codes]
      /\ \A u \in Tid : m.state[u] = IF u = t THEN "ZOMBIE" ELSE s.state[u]
  BY <1>1 DEF Typed, States, Codes
<1>3. m.wakeup_tick \in [Tid -> Nat]
  BY <1>1 DEF Typed
<1>4. Typed(m)
  BY <1>1, <1>2, <1>3 DEF Frame, Fields, Typed
<1>5. QED
  BY <1>1, <1>2, <1>4 DEF m

\* Thread c has become the joiner of t.
Joining(m, s, c, t) ==
  /\ Frame(m, s, {"state", "waiting_for", "ret", "join_waiter"})
  /\ \A u \in Tid : /\ m.state[u] = IF u = c THEN "WAITING" ELSE s.state[u]
                    /\ m.waiting_for[u] = IF u = c THEN t ELSE s.waiting_for[u]
                    /\ m.ret[u] = IF u = c THEN "due" ELSE s.ret[u]
                    /\ m.join_waiter[u] = IF u = t THEN c ELSE s.join_waiter[u]

\* thread_sys_join of a living thread before schedule.
LEMMA JoinFields ==
  ASSUME NEW s, Typed(s), NEW c \in Tid, NEW t \in Tid, NEW m,
         m = [s EXCEPT !.state[c] = "WAITING", !.waiting_for[c] = t,
                       !.ret[c] = "due", !.join_waiter[t] = c]
  PROVE  Typed(m) /\ Joining(m, s, c, t)
<1>1. /\ Frame(m, s, {"state", "waiting_for", "ret", "join_waiter"})
      /\ m.state = [s.state EXCEPT ![c] = "WAITING"]
      /\ m.waiting_for = [s.waiting_for EXCEPT ![c] = t]
      /\ m.ret = [s.ret EXCEPT ![c] = "due"]
      /\ m.join_waiter = [s.join_waiter EXCEPT ![t] = c]
  BY DEF Frame, Fields, Typed
<1>2. /\ m.state \in [Tid -> States] /\ m.waiting_for \in [Tid -> Tid \cup {NONE}]
      /\ m.ret \in [Tid -> Codes \cup {"none", "due", "read"}]
      /\ m.join_waiter \in [Tid -> Tid \cup {NONE}]
  BY <1>1 DEF Typed, States
<1>3. Typed(m)
  BY <1>1, <1>2 DEF Frame, Fields, Typed
<1>4. \A u \in Tid :
        /\ m.state[u] = IF u = c THEN "WAITING" ELSE s.state[u]
        /\ m.waiting_for[u] = IF u = c THEN t ELSE s.waiting_for[u]
        /\ m.ret[u] = IF u = c THEN "due" ELSE s.ret[u]
        /\ m.join_waiter[u] = IF u = t THEN c ELSE s.join_waiter[u]
  BY <1>1, SMTT(30) DEF Typed
<1>5. QED
  BY <1>1, <1>3, <1>4 DEF Joining

\* A new thread in slot t before thread_make_runnable.
LEMMA CreateFields ==
  ASSUME NEW s, Typed(s), NEW t \in Tid
  PROVE  LET m == [s EXCEPT !.state[t] = "RUNNABLE", !.wakeup_tick[t] = 0,
                            !.detached[t] = FALSE, !.ret[t] = "none"]
         IN  /\ Typed(m)
             /\ Frame(m, s, {"state", "wakeup_tick", "detached", "ret"})
             /\ \A u \in Tid :
                  /\ m.state[u] = IF u = t THEN "RUNNABLE" ELSE s.state[u]
                  /\ m.ret[u] = IF u = t THEN "none" ELSE s.ret[u]
                  /\ m.detached[u] = IF u = t THEN FALSE ELSE s.detached[u]
<1> DEFINE m == [s EXCEPT !.state[t] = "RUNNABLE", !.wakeup_tick[t] = 0,
                          !.detached[t] = FALSE, !.ret[t] = "none"]
<1>1. /\ Frame(m, s, {"state", "wakeup_tick", "detached", "ret"})
      /\ m.state = [s.state EXCEPT ![t] = "RUNNABLE"]
      /\ m.wakeup_tick = [s.wakeup_tick EXCEPT ![t] = 0]
      /\ m.detached = [s.detached EXCEPT ![t] = FALSE]
      /\ m.ret = [s.ret EXCEPT ![t] = "none"]
  BY DEF Frame, Fields, Typed
<1> HIDE DEF m
<1>2. /\ m.state \in [Tid -> States] /\ m.wakeup_tick \in [Tid -> Nat]
      /\ m.detached \in [Tid -> BOOLEAN]
      /\ m.ret \in [Tid -> Codes \cup {"none", "due", "read"}]
  BY <1>1 DEF Typed, States
<1>3. Typed(m)
  BY <1>1, <1>2 DEF Frame, Fields, Typed
<1>4. \A u \in Tid :
        /\ m.state[u] = IF u = t THEN "RUNNABLE" ELSE s.state[u]
        /\ m.ret[u] = IF u = t THEN "none" ELSE s.ret[u]
        /\ m.detached[u] = IF u = t THEN FALSE ELSE s.detached[u]
  <2>1. \A u \in Tid : /\ m.state[u] = IF u = t THEN "RUNNABLE" ELSE s.state[u]
                       /\ m.ret[u] = IF u = t THEN "none" ELSE s.ret[u]
    BY <1>1 DEF Typed
  <2>2. s.detached \in [Tid -> BOOLEAN]
    BY DEF Typed
  <2>3. \A u \in Tid : m.detached[u] = IF u = t THEN FALSE ELSE s.detached[u]
    BY <2>2, <1>1, Zenon
  <2>4. QED
    BY <2>1, <2>3
<1>5. QED
  BY <1>1, <1>3, <1>4 DEF m

\* Thread c has become the thread that waits for len characters.
Reading(m, s, c, len) ==
  /\ Frame(m, s, {"state", "ret", "pending_read", "g_stdin_waiter"})
  /\ m.g_stdin_waiter = c
  /\ \A u \in Tid :
       /\ m.state[u] = IF u = c THEN "BLOCKED" ELSE s.state[u]
       /\ m.ret[u] = IF u = c THEN "due" ELSE s.ret[u]
       /\ m.pending_read[u] = IF u = c THEN len ELSE s.pending_read[u]

\* sys_read: it takes characters, or it blocks its caller and schedules.
LEMMA ReadFields ==
  ASSUME NEW s, Typed(s), NEW h \in Hart, s.current[h] \in Tid, NEW len \in Nat
  PROVE  \/ /\ s.rx > 0 /\ len > 0
            /\ Frame(sys_read(s, h, len), s, {"rx"})
         \/ /\ s.rx = 0 \/ len = 0
            /\ \E m : /\ sys_read(s, h, len) = schedule(m, h)
                     /\ Typed(m) /\ Reading(m, s, s.current[h], len)
<1> DEFINE c == s.current[h]
           n == read_count(s, len)
           a == [s EXCEPT !.rx = s.rx - n]
           w == [s EXCEPT !.pending_read[c] = len, !.ret[c] = "due",
                          !.g_stdin_waiter = c]
           m == [w EXCEPT !.state[w.current[h]] = "BLOCKED"]
<1>1. sys_read(s, h, len) = IF n > 0 THEN a ELSE schedule(m, h)
  BY DEF sys_read, thread_wait_for_stdin, thread_block
<1>2. s.rx \in Nat /\ (n > 0 <=> s.rx > 0 /\ len > 0)
  <2>1. s.rx \in Nat
    BY DEF Typed
  <2>2. QED
    BY <2>1 DEF read_count
<1> HIDE DEF n
<1>3. CASE n > 0
  <2>1. Frame(a, s, {"rx"})
    BY DEF Frame, Fields, Typed
  <2>2. QED
    BY <2>1, <1>1, <1>2, <1>3
<1>4. CASE ~(n > 0)
  <2>1. /\ Frame(w, s, {"pending_read", "ret", "g_stdin_waiter"})
        /\ w.pending_read = [s.pending_read EXCEPT ![c] = len]
        /\ w.ret = [s.ret EXCEPT ![c] = "due"]
        /\ w.g_stdin_waiter = c
    BY DEF Frame, Fields, Typed
  <2> HIDE DEF w
  <2>2. w.current[h] = c /\ w.state = s.state
    BY <2>1 DEF Frame, Fields
  <2>3. /\ Frame(m, w, {"state"})
        /\ m.state = [s.state EXCEPT ![c] = "BLOCKED"]
    BY <2>1, <2>2 DEF Frame, Fields, Typed
  <2> HIDE DEF m
  <2>4. /\ Frame(m, s, {"state", "ret", "pending_read", "g_stdin_waiter"})
        /\ m.pending_read = [s.pending_read EXCEPT ![c] = len]
        /\ m.ret = [s.ret EXCEPT ![c] = "due"]
        /\ m.g_stdin_waiter = c
    BY <2>1, <2>3 DEF Frame, Fields
  <2> HIDE DEF c
  <2>5. c \in Tid
    BY DEF c
  <2>6. /\ m.state \in [Tid -> States] /\ m.pending_read \in [Tid -> Nat]
        /\ m.ret \in [Tid -> Codes \cup {"none", "due", "read"}]
    BY <2>3, <2>4, <2>5 DEF Typed, States
  <2>7. Typed(m)
    BY <2>4, <2>5, <2>6 DEF Frame, Fields, Typed
  <2>8. \A u \in Tid :
          /\ m.state[u] = IF u = c THEN "BLOCKED" ELSE s.state[u]
          /\ m.ret[u] = IF u = c THEN "due" ELSE s.ret[u]
          /\ m.pending_read[u] = IF u = c THEN len ELSE s.pending_read[u]
    BY <2>3, <2>4, SMTT(30) DEF Typed
  <2>9. Reading(m, s, s.current[h], len)
    BY <2>4, <2>8 DEF Reading, c
  <2>10. s.rx = 0 \/ len = 0
    BY <1>2, <1>4
  <2>11. QED
    BY <2>7, <2>9, <2>10, <1>1, <1>4
<1>5. QED
  BY <1>3, <1>4

\* release_joiner before thread_make_runnable.
LEMMA ReleaseFields ==
  ASSUME NEW s, Typed(s), NEW h \in Hart, NEW w \in Tid, NEW code \in Codes
  PROVE  \E m : /\ release_joiner(s, h, w, code) = thread_make_runnable(m, h, w, h)
                /\ Typed(m) /\ Frame(m, s, {"ret", "waiting_for"})
                /\ \A u \in Tid :
                     /\ m.ret[u] = IF u = w /\ s.state[w] # "RUNNING" THEN code
                                   ELSE s.ret[u]
                     /\ m.waiting_for[u] = IF u = w THEN NONE ELSE s.waiting_for[u]
<1> DEFINE a == IF s.state[w] = "RUNNING" THEN s.ret[w] ELSE code
           m == [s EXCEPT !.ret[w] = a, !.waiting_for[w] = NONE]
<1>1. a \in Codes \cup {"none", "due", "read"}
  BY DEF Typed
<1>2. release_joiner(s, h, w, code) = thread_make_runnable(m, h, w, h)
  BY DEF release_joiner
<1> HIDE DEF a
<1>3. /\ Frame(m, s, {"ret", "waiting_for"})
      /\ m.ret = [s.ret EXCEPT ![w] = a]
      /\ m.waiting_for = [s.waiting_for EXCEPT ![w] = NONE]
  BY DEF Frame, Fields, Typed
<1> HIDE DEF m
<1>4. /\ m.ret \in [Tid -> Codes \cup {"none", "due", "read"}]
      /\ m.waiting_for \in [Tid -> Tid \cup {NONE}]
  BY <1>1, <1>3 DEF Typed
<1>5. Typed(m)
  BY <1>3, <1>4 DEF Frame, Fields, Typed
<1>6. \A u \in Tid :
        /\ m.ret[u] = IF u = w /\ s.state[w] # "RUNNING" THEN code ELSE s.ret[u]
        /\ m.waiting_for[u] = IF u = w THEN NONE ELSE s.waiting_for[u]
  <2>1. \A u \in Tid : m.ret[u] = IF u = w THEN a ELSE s.ret[u]
    BY <1>3 DEF Typed
  <2>2. \A u \in Tid : m.waiting_for[u] = IF u = w THEN NONE ELSE s.waiting_for[u]
    BY <1>3 DEF Typed
  <2>3. QED
    BY <2>1, <2>2 DEF a
<1>7. QED
  BY <1>2, <1>3, <1>5, <1>6

\* console_on_char_from_irq before thread_wake.  The ring is not empty once
\* the character is in it, so a reader that waits for characters gets some.
LEMMA UartFields ==
  ASSUME NEW s, Typed(s), NEW h \in Hart
  PROVE  \E m :
           LET w == s.g_stdin_waiter
           IN  /\ Typed(m) /\ Frame(m, s, {"rx", "ret", "pending_read"})
               /\ \/ /\ w = NONE /\ console_on_char_from_irq(s, h) = m
                     /\ m.ret = s.ret /\ m.pending_read = s.pending_read
                  \/ /\ w \in Tid
                     /\ console_on_char_from_irq(s, h) =
                          [thread_wake(m, h, w) EXCEPT !.g_stdin_waiter = NONE]
                     /\ \A u \in Tid \ {w} : /\ m.ret[u] = s.ret[u]
                                             /\ m.pending_read[u] = s.pending_read[u]
                     /\ m.pending_read[w] = 0
                     /\ m.ret[w] = IF s.pending_read[w] = 0 THEN s.ret[w] ELSE "read"
<1> DEFINE w == s.g_stdin_waiter
           more == [s EXCEPT !.rx = s.rx + 1]
           p == IF rb_is_full(s) THEN s ELSE more
           n == read_count(p, p.pending_read[w])
           taken == [p EXCEPT !.rx = p.rx - n, !.ret[w] = "read",
                              !.pending_read[w] = 0]
           r == console_on_char_from_irq(s, h)
<1>1. s.rx \in 0 .. CONSOLE_RBUF_SIZE - 1 /\ w \in Tid \cup {NONE}
  BY DEF Typed
<1>2. Typed(p) /\ Frame(p, s, {"rx"}) /\ p.rx \in 1 .. CONSOLE_RBUF_SIZE - 1
  <2>1. CASE rb_is_full(s)
    BY <2>1, <1>1, RbufAssumption DEF rb_is_full, Frame, Typed
  <2>2. CASE ~rb_is_full(s)
    <3>1. Frame(more, s, {"rx"}) /\ more.rx = s.rx + 1
      BY DEF Frame, Fields, Typed
    <3>2. more.rx \in 1 .. CONSOLE_RBUF_SIZE - 1
      BY <1>1, <2>2, <3>1, RbufAssumption DEF rb_is_full
    <3> HIDE DEF more
    <3>3. more.rx \in 0 .. CONSOLE_RBUF_SIZE - 1
      BY <3>2, RbufAssumption
    <3>4. Typed(more)
      BY <3>1, <3>3 DEF Frame, Fields, Typed
    <3>5. QED
      BY <2>2, <3>1, <3>2, <3>4
  <2>3. QED
    BY <2>1, <2>2
<1>3. r = IF w = NONE THEN p
          ELSE [thread_read_from_stdin(p, h) EXCEPT !.g_stdin_waiter = NONE]
  BY DEF console_on_char_from_irq
<1> HIDE DEF p, r
<1>4. /\ p.ret = s.ret /\ p.pending_read = s.pending_read /\ p.g_stdin_waiter = w
      /\ Frame(p, s, {"rx", "ret", "pending_read"})
  BY <1>2 DEF Frame, Fields
<1>5. CASE w = NONE
  BY <1>2, <1>3, <1>4, <1>5 DEF r
<1>6. CASE w \in Tid /\ p.pending_read[w] = 0
  <2>1. r = [thread_wake(p, h, w) EXCEPT !.g_stdin_waiter = NONE]
    BY <1>3, <1>4, <1>6, Kinds DEF thread_read_from_stdin
  <2>2. QED
    BY <2>1, <1>2, <1>4, <1>6 DEF r
<1>7. CASE w \in Tid /\ p.pending_read[w] # 0
  <2>1. p.pending_read[w] \in Nat \ {0} /\ p.rx \in Nat \ {0}
    BY <1>2, <1>7, RbufAssumption DEF Typed
  <2>2. n \in 1 .. p.rx
    BY <2>1 DEF read_count
  <2>3. r = [thread_wake(taken, h, w) EXCEPT !.g_stdin_waiter = NONE]
    <3>1. n # 0
      BY <2>1, <2>2
    <3>2. thread_read_from_stdin(p, h) = thread_wake(taken, h, w)
      BY <3>1, <1>4, <1>7 DEF thread_read_from_stdin
    <3>3. QED
      BY <3>2, <1>3, <1>7, Kinds
  <2> HIDE DEF n
  <2>4. /\ Frame(taken, p, {"rx", "ret", "pending_read"})
        /\ taken.rx = p.rx - n
        /\ taken.ret = [p.ret EXCEPT ![w] = "read"]
        /\ taken.pending_read = [p.pending_read EXCEPT ![w] = 0]
    BY <1>2, <1>7 DEF Frame, Fields, Typed
  <2> HIDE DEF taken, w
  <2>5. taken.rx \in 0 .. CONSOLE_RBUF_SIZE - 1
    BY <2>1, <2>2, <2>4, <1>2, RbufAssumption
  <2>6. /\ taken.ret \in [Tid -> Codes \cup {"none", "due", "read"}]
        /\ taken.pending_read \in [Tid -> Nat]
    <3>1. /\ p.ret \in [Tid -> Codes \cup {"none", "due", "read"}]
          /\ p.pending_read \in [Tid -> Nat]
      BY <1>2 DEF Typed
    <3>2. QED
      BY <2>4, <3>1, <1>7
  <2>7. Typed(taken)
    BY <2>4, <2>5, <2>6, <1>2 DEF Frame, Fields, Typed
  <2>8. \A u \in Tid : /\ taken.ret[u] = IF u = w THEN "read" ELSE s.ret[u]
                       /\ taken.pending_read[u] = IF u = w THEN 0 ELSE s.pending_read[u]
    BY <2>4, <1>4 DEF Typed
  <2>9. Frame(taken, s, {"rx", "ret", "pending_read"})
    BY <2>4, <1>2 DEF Frame
  <2>10. s.pending_read[w] # 0
    BY <1>4, <1>7
  <2>11. QED
    BY <2>3, <2>7, <2>8, <2>9, <2>10, <1>7 DEF r, w
<1>8. QED
  BY <1>1, <1>5, <1>6, <1>7

----------------------------------------------------------------------------
(* Every handler keeps Attended.                                           *)

\* schedule at the end of a handler that changed nothing but its own thread.
LEMMA BlockAttended ==
  ASSUME NEW s, NEW h \in Hart, s.current[h] \in User, Attended(s, {BootHart}),
         NEW m, Typed(m), m.current = s.current, m.online = s.online,
         m.rq = s.rq, m.ipi = s.ipi,
         \A t \in Tid \ {s.current[h]} : m.state[t] = s.state[t]
  PROVE  Attended(schedule(m, h), {BootHart})
<1>1. m.current[h] # NONE
  BY Kinds
<1>2. \A g \in Hart : m.state[g] = s.state[g]
  BY Kinds
<1>3. Attended(m, {BootHart, h})
  BY <1>2 DEF Attended, Grounded, Kicks
<1>4. QED
  BY <1>1, <1>3, ScheduleAttended

\* thread_sys_sleep and thread_sys_yield.
LEMMA SleepAttended ==
  ASSUME NEW s, Typed(s), NEW h \in Hart, s.current[h] \in User, NEW n \in Nat,
         Attended(s, {BootHart})
  PROVE  Attended(thread_sys_sleep(s, h, n), {BootHart})
<1> DEFINE cur == s.current[h]
           m == [s EXCEPT !.state[cur] = "SLEEPING", !.wakeup_tick[cur] = n]
<1>1. cur \in Tid
  BY Kinds
<1>2. CASE n = 0
  BY <1>2, BlockAttended DEF thread_sys_sleep
<1>3. CASE n # 0
  <2>1. /\ Typed(m) /\ Frame(m, s, {"state", "wakeup_tick"})
        /\ \A u \in Tid : m.state[u] = IF u = cur THEN "SLEEPING" ELSE s.state[u]
    BY <1>1, SleepFields
  <2>2. thread_sys_sleep(s, h, n) = schedule(m, h)
    BY <1>3 DEF thread_sys_sleep
  <2> HIDE DEF m
  <2>3. /\ m.current = s.current /\ m.online = s.online
        /\ m.rq = s.rq /\ m.ipi = s.ipi
    BY <2>1 DEF Frame, Fields
  <2>4. QED
    BY <2>1, <2>2, <2>3, BlockAttended
<1>4. QED
  BY <1>2, <1>3

\* thread_sys_create.  With idle threads never UNUSED the slot is a user's.
LEMMA CreateAttended ==
  ASSUME NEW s, Typed(s), NEW h \in Hart, s.online[h], NEW X, h \in X,
         Attended(s, X)
  PROVE  LET r == thread_sys_create(s, h)
         IN  Attended(r, X) /\ r.current = s.current
<1> DEFINE t == Min(FreeSlots(s))
           m == [s EXCEPT !.state[t] = "RUNNABLE", !.wakeup_tick[t] = 0,
                          !.detached[t] = FALSE, !.ret[t] = "none"]
<1>1. CASE FreeSlots(s) = {}
  BY <1>1 DEF thread_sys_create
<1>2. CASE FreeSlots(s) # {}
  <2>1. t \in Tid /\ s.state[t] = "UNUSED"
    <3>1. FreeSlots(s) \subseteq Nat
      BY DEF FreeSlots, Tid
    <3>2. t \in FreeSlots(s)
      BY <1>2, <3>1, MinOfNats
    <3>3. QED
      BY <3>2 DEF FreeSlots
  <2>2. thread_sys_create(s, h) = thread_make_runnable(m, h, t, h)
    BY <1>2 DEF thread_sys_create
  <2> HIDE DEF t
  <2>3. /\ Typed(m) /\ Frame(m, s, {"state", "wakeup_tick", "detached", "ret"})
        /\ \A u \in Tid : m.state[u] = IF u = t THEN "RUNNABLE" ELSE s.state[u]
    BY <2>1, CreateFields, ZenonT(40)
  <2> HIDE DEF m
  <2>4. /\ m.current = s.current /\ m.online = s.online
        /\ m.rq = s.rq /\ m.ipi = s.ipi
    BY <2>3 DEF Frame, Fields
  <2>5. \A g \in Hart : m.state[g] = s.state[g]
    BY <2>1, <2>3, Kinds DEF Attended, Grounded
  <2>6. Attended(m, X)
    BY <2>4, <2>5 DEF Attended, Grounded, Kicks
  <2>7. QED
    <3>1. Attended(thread_make_runnable(m, h, t, h), X)
      BY <2>1, <2>3, <2>4, <2>6, MakeRunnableAttended
    <3>2. MadeRunnable(thread_make_runnable(m, h, t, h), m, t)
      BY <2>1, <2>3, MakeRunnableFields
    <3>3. thread_make_runnable(m, h, t, h).current = m.current
      BY <3>2, <2>1, <2>3, MakeRunnableGentle
    <3>4. QED
      BY <3>1, <3>3, <2>2, <2>4
<1>3. QED
  BY <1>1, <1>2

\* release_joiner.
LEMMA ReleaseAttended ==
  ASSUME NEW s, Typed(s), NEW h \in Hart, s.online[h], NEW X, h \in X,
         Attended(s, X), NEW w \in Tid, NEW code \in Codes
  PROVE  Attended(release_joiner(s, h, w, code), X)
<1>1. PICK m : /\ release_joiner(s, h, w, code) = thread_make_runnable(m, h, w, h)
               /\ Typed(m) /\ Frame(m, s, {"ret", "waiting_for"})
  BY ReleaseFields
<1>2. /\ m.current = s.current /\ m.online = s.online
      /\ m.rq = s.rq /\ m.ipi = s.ipi /\ m.state = s.state
  BY <1>1 DEF Frame, Fields
<1>3. Attended(m, X)
  BY <1>2 DEF Attended, Grounded, Kicks
<1>4. QED
  BY <1>1, <1>2, <1>3, MakeRunnableAttended

\* thread_sys_exit.
LEMMA ExitAttended ==
  ASSUME NEW s, Typed(s), NEW h \in Hart, s.current[h] \in User,
         NEW code \in Codes, Attended(s, {BootHart})
  PROVE  Attended(thread_sys_exit(s, h, code), {BootHart})
<1> DEFINE cur == s.current[h]
           w == s.join_waiter[cur]
           dead == [s EXCEPT !.state[cur] = "ZOMBIE", !.exit_code[cur] = code]
           told == release_joiner(dead, h, w, code)
           gone == recycle_thread(told, cur)
<1>1. cur \in Tid /\ cur # NONE /\ w \in Tid \cup {NONE} /\ s.online[h]
  BY Kinds DEF Typed, Attended, Grounded
<1>2. thread_sys_exit(s, h, code) =
        IF w # NONE THEN schedule(gone, h) ELSE schedule(dead, h)
  BY DEF thread_sys_exit
<1>3. /\ Typed(dead) /\ Frame(dead, s, {"state", "exit_code"})
      /\ \A u \in Tid : dead.state[u] = IF u = cur THEN "ZOMBIE" ELSE s.state[u]
  BY <1>1, DeadFields
<1> HIDE DEF dead
<1>4. /\ dead.current = s.current /\ dead.online = s.online
      /\ dead.rq = s.rq /\ dead.ipi = s.ipi
  BY <1>3 DEF Frame, Fields
<1>5. CASE w = NONE
  BY <1>2, <1>3, <1>4, <1>5, BlockAttended
<1>6. CASE w # NONE
  <2>1. w \in Tid
    BY <1>1, <1>6
  <2>2. \A g \in Hart : dead.state[g] = s.state[g]
    BY <1>3, Kinds
  <2>3. Attended(dead, {BootHart, h})
    BY <1>4, <2>2 DEF Attended, Grounded, Kicks
  <2>4. Attended(told, {BootHart, h})
    BY <1>1, <1>3, <1>4, <2>1, <2>3, ReleaseAttended
  <2>5. Typed(told) /\ told.current = dead.current
    BY <1>3, <2>1, ReleaseJoinerFields
  <2> HIDE DEF told, w
  <2>6. Recycled(gone, told, cur)
    BY <2>5, <1>1, RecycleFields
  <2> HIDE DEF gone
  <2>7. Typed(gone) /\ gone.current = told.current
    BY <2>5, <2>6, <1>1, RecycleTyped, RecycleGentle
  <2>8. Attended(gone, {BootHart, h})
    BY <2>4, <2>5, <2>6, RecycleAttended
  <2>9. gone.current[h] # NONE
    BY <2>5, <2>7, <1>1, <1>4
  <2>10. QED
    BY <2>7, <2>8, <2>9, <1>2, <1>6, ScheduleAttended
<1>7. QED
  BY <1>5, <1>6

\* thread_sys_join.  The thread that is reaped is a user thread, for idle
\* threads are never ZOMBIE.
LEMMA JoinAttended ==
  ASSUME NEW s, Typed(s), NEW h \in Hart, s.current[h] \in User, NEW t \in Tid,
         Attended(s, {BootHart})
  PROVE  Attended(thread_sys_join(s, h, t), {BootHart})
<1> DEFINE cur == s.current[h]
           gone == recycle_thread(s, t)
           m == [s EXCEPT !.state[cur] = "WAITING", !.waiting_for[cur] = t,
                          !.ret[cur] = "due", !.join_waiter[t] = cur]
<1>1. cur \in Tid
  BY Kinds
<1>2. thread_sys_join(s, h, t) =
        IF join_refused(s, h, t) THEN s
        ELSE IF s.state[t] = "ZOMBIE" THEN gone ELSE schedule(m, h)
  BY DEF thread_sys_join
<1>3. ASSUME s.state[t] = "ZOMBIE" PROVE Attended(gone, {BootHart})
  <2>1. t \in User
    <3>1. t \notin Hart
      BY <1>3 DEF Attended, Grounded
    <3>2. QED
      BY <3>1, HartsAssumption, ThreadsAssumption DEF Hart, Tid, User
  <2>2. Recycled(gone, s, t)
    BY RecycleFields
  <2> HIDE DEF gone
  <2>3. QED
    BY <2>1, <2>2, RecycleAttended
<1>4. Attended(schedule(m, h), {BootHart})
  <2>1. m = [s EXCEPT !.state[cur] = "WAITING", !.waiting_for[cur] = t,
                      !.ret[cur] = "due", !.join_waiter[t] = cur]
    OBVIOUS
  <2> HIDE DEF m
  <2>2. Typed(m) /\ Joining(m, s, cur, t)
    BY <2>1, <1>1, JoinFields
  <2>3. /\ m.current = s.current /\ m.online = s.online
        /\ m.rq = s.rq /\ m.ipi = s.ipi
        /\ \A u \in Tid \ {cur} : m.state[u] = s.state[u]
    BY <2>2 DEF Joining, Frame, Fields
  <2>4. QED
    BY <2>2, <2>3, BlockAttended
<1>5. QED
  BY <1>2, <1>3, <1>4

\* thread_sys_detach.
LEMMA DetachAttended ==
  ASSUME NEW s, Typed(s), NEW h \in Hart, NEW t \in Tid, NEW X, Attended(s, X)
  PROVE  Attended(thread_sys_detach(s, h, t), X)
<1> DEFINE gone == recycle_thread(s, t)
           m == [s EXCEPT !.detached[t] = TRUE]
<1>1. thread_sys_detach(s, h, t) =
        IF detach_refused(s, t) \/ s.detached[t] THEN s
        ELSE IF s.state[t] = "ZOMBIE" THEN gone ELSE m
  BY DEF thread_sys_detach
<1>2. ASSUME ~detach_refused(s, t) PROVE Attended(gone, X)
  <2>1. t \in User
    BY <1>2 DEF detach_refused
  <2>2. Recycled(gone, s, t)
    BY RecycleFields
  <2> HIDE DEF gone
  <2>3. QED
    BY <2>1, <2>2, RecycleAttended
<1>3. Attended(m, X)
  <2>1. /\ m.current = s.current /\ m.online = s.online
        /\ m.rq = s.rq /\ m.ipi = s.ipi /\ m.state = s.state
    BY DEF Typed, Fields
  <2>2. QED
    BY <2>1 DEF Attended, Grounded, Kicks
<1>4. QED
  BY <1>1, <1>2, <1>3

\* sys_read.
LEMMA ReadAttended ==
  ASSUME NEW s, Typed(s), NEW h \in Hart, s.current[h] \in User, NEW len \in Nat,
         Attended(s, {BootHart})
  PROVE  Attended(sys_read(s, h, len), {BootHart})
<1> DEFINE r == sys_read(s, h, len)
<1>1. s.current[h] \in Tid
  BY Kinds
<1>2. \/ Frame(r, s, {"rx"})
      \/ \E m : /\ r = schedule(m, h)
               /\ Typed(m) /\ Reading(m, s, s.current[h], len)
  BY <1>1, ReadFields
<1> HIDE DEF r
<1>3. CASE Frame(r, s, {"rx"})
  <2>1. /\ r.current = s.current /\ r.online = s.online
        /\ r.rq = s.rq /\ r.ipi = s.ipi /\ r.state = s.state
    BY <1>3 DEF Frame, Fields
  <2>2. QED
    BY <2>1 DEF Attended, Grounded, Kicks, r
<1>4. ASSUME NEW m, r = schedule(m, h), Typed(m), Reading(m, s, s.current[h], len)
      PROVE  Attended(r, {BootHart})
  <2>1. /\ m.current = s.current /\ m.online = s.online
        /\ m.rq = s.rq /\ m.ipi = s.ipi
        /\ \A u \in Tid \ {s.current[h]} : m.state[u] = s.state[u]
    BY <1>4 DEF Reading, Frame, Fields
  <2>2. QED
    BY <2>1, <1>4, BlockAttended
<1>5. QED
  BY <1>2, <1>3, <1>4 DEF r

\* console_on_char_from_irq.
LEMMA UartAttended ==
  ASSUME NEW s, Typed(s), NEW h \in Hart, s.online[h], NEW X, h \in X,
         Attended(s, X)
  PROVE  Attended(console_on_char_from_irq(s, h), X)
<1> DEFINE w == s.g_stdin_waiter
           r == console_on_char_from_irq(s, h)
<1>1. PICK m :
        /\ Typed(m) /\ Frame(m, s, {"rx", "ret", "pending_read"})
        /\ \/ r = m
           \/ /\ w \in Tid
              /\ r = [thread_wake(m, h, w) EXCEPT !.g_stdin_waiter = NONE]
  BY UartFields
<1> HIDE DEF r
<1>2. /\ m.current = s.current /\ m.online = s.online
      /\ m.rq = s.rq /\ m.ipi = s.ipi /\ m.state = s.state
  BY <1>1 DEF Frame, Fields
<1>3. Attended(m, X)
  BY <1>2 DEF Attended, Grounded, Kicks
<1>4. CASE r = m
  BY <1>3, <1>4 DEF r
<1>5. CASE w \in Tid /\ r = [thread_wake(m, h, w) EXCEPT !.g_stdin_waiter = NONE]
  <2> DEFINE x == thread_wake(m, h, w)
  <2>1. Attended(x, X)
    BY <1>1, <1>2, <1>3, <1>5, MakeRunnableAttended DEF thread_wake
  <2>2. DOMAIN x = Fields
    <3>1. MadeRunnable(thread_make_runnable(m, h, w, h), m, w)
      BY <1>1, <1>5, MakeRunnableFields
    <3>2. Typed(thread_make_runnable(m, h, w, h))
      BY <3>1, <1>1, <1>5, MakeRunnableTyped
    <3>3. Typed(x)
      BY <3>2, <1>1 DEF thread_wake
    <3>4. QED
      BY <3>3 DEF Typed
  <2> HIDE DEF x
  <2>3. r = [x EXCEPT !.g_stdin_waiter = NONE]
    BY <1>5 DEF x
  <2>4. /\ r.current = x.current /\ r.online = x.online
        /\ r.rq = x.rq /\ r.ipi = x.ipi /\ r.state = x.state
    BY <2>2, <2>3 DEF Fields
  <2>5. QED
    BY <2>1, <2>4 DEF Attended, Grounded, Kicks, r
<1>6. QED
  BY <1>1, <1>4, <1>5

\* Unlinking a thread makes no queue longer.
LEMMA UnlinkAttended ==
  ASSUME NEW s, Typed(s), NEW t \in Tid, NEW X, Attended(s, X),
         NEW r, Typed(r), Unlinked(r, s, t)
  PROVE  Attended(r, X)
<1>1. /\ r.current = s.current /\ r.online = s.online
      /\ r.ipi = s.ipi /\ r.state = s.state
  BY DEF Unlinked, Frame, Fields
<1>2. CASE r.rq = s.rq
  BY <1>1, <1>2 DEF Attended, Grounded, Kicks
<1>3. ASSUME NEW h \in Hart, NEW p \in 1 .. Len(s.rq[h]),
             \A g \in Hart \ {h} : r.rq[g] = s.rq[g],
             WithoutEntry(r.rq[h], s.rq[h], p)
      PROVE  Attended(r, X)
  <2> DEFINE n == Len(s.rq[h])
  <2>1. s.rq[h] \in Seq(Tid) /\ n \in Nat
    <3>1. s.rq[h] \in Seq(Tid)
      BY DEF Typed
    <3>2. QED
      BY <3>1
  <2>2. s.rq[h] # <<>>
    BY <1>3, <2>1
  <2>3. \A i \in 1 .. Len(r.rq[h]) : \E j \in 1 .. n : r.rq[h][i] = s.rq[h][j]
    <3>1. Len(r.rq[h]) = n - 1
      BY <1>3 DEF WithoutEntry
    <3>2. ASSUME NEW i \in 1 .. n - 1 PROVE \E j \in 1 .. n : r.rq[h][i] = s.rq[h][j]
      <4> DEFINE j == IF i < p THEN i ELSE i + 1
      <4>1. j \in 1 .. n
        BY <2>1
      <4>2. r.rq[h][i] = s.rq[h][j]
        BY <1>3 DEF WithoutEntry
      <4>3. QED
        BY <4>1, <4>2
    <3>3. QED
      BY <3>1, <3>2
  <2>4. \A g \in Hart : \A i \in 1 .. Len(r.rq[g]) : r.rq[g][i] \in User
    <3>1. \A g \in Hart : \A i \in 1 .. Len(s.rq[g]) : s.rq[g][i] \in User
      BY DEF Attended, Grounded
    <3>2. \A i \in 1 .. Len(r.rq[h]) : r.rq[h][i] \in User
      BY <2>3, <3>1
    <3>3. QED
      BY <1>3, <3>1, <3>2
  <2>5. \A g \in Hart : ~r.online[g] => r.current[g] = NONE /\ r.rq[g] = <<>>
    BY <1>1, <1>3, <2>2 DEF Attended, Grounded
  <2>6. Grounded(r)
    BY <2>4, <2>5, <1>1 DEF Attended, Grounded
  <2>7. Kicks(r, X)
    BY <1>1, <1>3, <2>2 DEF Attended, Kicks
  <2>8. QED
    BY <2>6, <2>7 DEF Attended
<1>4. QED
  BY <1>2, <1>3, Zenon DEF Unlinked

\* thread_sys_kill, of any thread on any hart.
LEMMA KillAttended ==
  ASSUME NEW s, Typed(s), NEW h \in Hart, s.online[h], NEW t \in Tid,
         NEW X, h \in X, Attended(s, X)
  PROVE  LET r == thread_sys_kill(s, h, t)
         IN  Attended(r, X) /\ r.current = s.current
<1> DEFINE w == s.join_waiter[t]
           rh == s.running_hart[t]
           a == [s EXCEPT !.state[t] = "ZOMBIE", !.exit_code[t] = "killed",
                          !.wakeup_tick[t] = 0]
           dead == rq_remove_any(a, t)
           kicked == IF rh \in Hart \ {h} THEN smp_kick_hart(dead, rh) ELSE dead
           told == IF w # NONE THEN release_joiner(kicked, h, w, "killed")
                   ELSE kicked
           gone == recycle_thread(told, t)
<1>1. w \in Tid \cup {NONE} /\ "killed" \in Codes
  BY DEF Typed, Codes
<1>2. thread_sys_kill(s, h, t) =
        IF kill_refused(s, h, t) THEN s
        ELSE IF rh = NONE /\ (w # NONE \/ s.detached[t]) THEN gone ELSE told
  BY DEF thread_sys_kill
<1>3. CASE kill_refused(s, h, t)
  BY <1>2, <1>3
<1>4. CASE ~kill_refused(s, h, t)
  <2>1. t \in User
    BY <1>4 DEF kill_refused
  <2>2. /\ Typed(a) /\ Frame(a, s, {"state", "exit_code", "wakeup_tick"})
        /\ \A u \in Tid : a.state[u] = IF u = t THEN "ZOMBIE" ELSE s.state[u]
    BY KilledFields
  <2> HIDE DEF a
  <2>3. Attended(a, X)
    <3>1. /\ a.current = s.current /\ a.online = s.online
          /\ a.rq = s.rq /\ a.ipi = s.ipi
      BY <2>2 DEF Frame, Fields
    <3>2. \A g \in Hart : a.state[g] = s.state[g]
      BY <2>1, <2>2, Kinds
    <3>3. QED
      BY <3>1, <3>2 DEF Attended, Grounded, Kicks
  <2>4. Unlinked(dead, a, t) /\ Typed(dead)
    BY <2>2, RemoveFields
  <2> HIDE DEF dead
  <2>5. Attended(dead, X) /\ dead.online = s.online /\ dead.current = s.current
    <3>1. /\ dead.online = a.online /\ a.online = s.online
          /\ dead.current = a.current /\ a.current = s.current
      BY <2>2, <2>4 DEF Unlinked, Frame, Fields
    <3>2. QED
      BY <3>1, <2>2, <2>3, <2>4, UnlinkAttended
  <2>6. /\ Attended(kicked, X) /\ Typed(kicked) /\ kicked.online = s.online
        /\ kicked.current = s.current
    <3>1. CASE rh \notin Hart \ {h} \/ ~dead.online[rh]
      <4>1. kicked = dead
        BY <3>1 DEF smp_kick_hart
      <4>2. QED
        BY <4>1, <2>4, <2>5
    <3>2. CASE rh \in Hart \ {h} /\ dead.online[rh]
      <4>1. kicked = [dead EXCEPT !.ipi[rh] = TRUE]
        BY <3>2 DEF smp_kick_hart
      <4>2. Frame(kicked, dead, {"ipi"}) /\ kicked.ipi = [dead.ipi EXCEPT ![rh] = TRUE]
        BY <4>1, <3>2, <2>4 DEF Frame, Fields, Typed
      <4> HIDE DEF kicked, rh
      <4>3. dead.ipi \in [Hart -> BOOLEAN]
        BY <2>4 DEF Typed
      <4>4. \A g \in Hart : dead.ipi[g] => kicked.ipi[g]
        BY <4>2, <4>3, <3>2
      <4>5. kicked.ipi \in [Hart -> BOOLEAN]
        BY <4>2, <4>3, <3>2
      <4>6. Typed(kicked)
        BY <4>2, <4>5, <2>4 DEF Frame, Fields, Typed
      <4>7. /\ kicked.current = dead.current /\ kicked.online = dead.online
            /\ kicked.rq = dead.rq /\ kicked.state = dead.state
        BY <4>2 DEF Frame, Fields
      <4>8. Attended(kicked, X)
        BY <4>4, <4>7, <2>5 DEF Attended, Grounded, Kicks
      <4>9. QED
        BY <4>6, <4>7, <4>8, <2>5
    <3>3. QED
      BY <3>1, <3>2
  <2> HIDE DEF kicked, w
  <2>7. Attended(told, X) /\ Typed(told) /\ told.current = s.current
    <3>1. CASE w = NONE
      BY <3>1, <2>6
    <3>2. CASE w # NONE
      <4>1. Attended(release_joiner(kicked, h, w, "killed"), X)
        BY <3>2, <2>6, <1>1, ReleaseAttended
      <4>2. /\ Typed(release_joiner(kicked, h, w, "killed"))
            /\ release_joiner(kicked, h, w, "killed").current = kicked.current
        BY <3>2, <2>6, <1>1, ReleaseJoinerFields
      <4>3. QED
        BY <3>2, <4>1, <4>2, <2>6
    <3>3. QED
      BY <3>1, <3>2
  <2> HIDE DEF told
  <2>8. Recycled(gone, told, t)
    BY <2>7, RecycleFields
  <2> HIDE DEF gone
  <2>9. Attended(gone, X) /\ gone.current = s.current
    BY <2>1, <2>7, <2>8, RecycleAttended, RecycleGentle
  <2>10. QED
    BY <1>2, <1>4, <2>7, <2>9
<1>5. QED
  BY <1>3, <1>4

\* cpu_init_this_hart: the queue of a hart that was not up is empty.
LEMMA OnlineAttended ==
  ASSUME NEW s, Typed(s), NEW h \in Hart, ~s.online[h], Attended(s, {BootHart})
  PROVE  Attended(cpu_init_this_hart(s, h), {BootHart})
<1> DEFINE r == cpu_init_this_hart(s, h)
<1>1. /\ Frame(r, s, {"online", "current", "slice_left"})
      /\ r.online = [s.online EXCEPT ![h] = TRUE]
      /\ r.current = [s.current EXCEPT ![h] = NONE]
  BY DEF cpu_init_this_hart, Frame, Fields, Typed
<1> HIDE DEF r
<1>2. s.current[h] = NONE
  BY DEF Attended, Grounded
<1>3. /\ r.current = s.current /\ r.rq = s.rq /\ r.ipi = s.ipi /\ r.state = s.state
      /\ \A g \in Hart : ~r.online[g] => ~s.online[g]
  BY <1>1, <1>2 DEF Frame, Fields, Typed
<1>4. QED
  BY <1>3 DEF Attended, Grounded, Kicks, r

\* cpu_enter_idle: what was queued on the hart before has an IPI pending.
LEMMA EnterIdleAttended ==
  ASSUME NEW s, Typed(s), NEW h \in Hart, s.online[h], s.current[h] = NONE,
         Attended(s, {BootHart})
  PROVE  Attended(cpu_enter_idle(s, h), {BootHart})
<1> DEFINE r == cpu_enter_idle(s, h)
<1>1. /\ Frame(r, s, {"current", "state", "running_hart"})
      /\ r.current = [s.current EXCEPT ![h] = h]
      /\ r.state = [s.state EXCEPT ![h] = "RUNNING"]
  BY Kinds DEF cpu_enter_idle, Frame, Fields, Typed
<1> HIDE DEF r
<1>2. /\ r.online = s.online /\ r.rq = s.rq /\ r.ipi = s.ipi
      /\ \A g \in Hart : r.current[g] = IF g = h THEN h ELSE s.current[g]
  BY <1>1 DEF Frame, Fields, Typed
<1>3. \A g \in Hart : r.state[g] = IF g = h THEN "RUNNING" ELSE s.state[g]
  BY <1>1, Kinds DEF Typed
<1>4. Grounded(r)
  BY <1>2, <1>3 DEF Attended, Grounded
<1>5. Kicks(r, {BootHart})
  BY <1>2 DEF Attended, Kicks
<1>6. QED
  BY <1>4, <1>5 DEF Attended, r

\* sched_on_ipi_irq may clear the pending bit: schedule looks at the queue.
LEMMA IpiAttended ==
  ASSUME NEW s, Typed(s), NEW h \in Hart, s.current[h] # NONE,
         Attended(s, {BootHart})
  PROVE  Attended(sched_on_ipi_irq(s, h), {BootHart})
<1> DEFINE m == [s EXCEPT !.ipi[h] = FALSE]
<1>1. Frame(m, s, {"ipi"}) /\ m.ipi = [s.ipi EXCEPT ![h] = FALSE]
  BY DEF Frame, Fields, Typed
<1>2. sched_on_ipi_irq(s, h) = schedule(m, h)
  BY DEF sched_on_ipi_irq
<1> HIDE DEF m
<1>3. s.ipi \in [Hart -> BOOLEAN]
  BY DEF Typed
<1>4. m.ipi \in [Hart -> BOOLEAN] /\ \A g \in Hart \ {h} : m.ipi[g] = s.ipi[g]
  BY <1>1, <1>3
<1>5. Typed(m)
  BY <1>1, <1>4 DEF Frame, Fields, Typed
<1>6. /\ m.current = s.current /\ m.online = s.online /\ m.rq = s.rq
      /\ m.state = s.state
  BY <1>1 DEF Frame, Fields
<1>7. Attended(m, {BootHart, h})
  BY <1>4, <1>6 DEF Attended, Grounded, Kicks
<1>8. QED
  BY <1>2, <1>5, <1>6, <1>7, ScheduleAttended

\* The three parts of sched_on_timer_irq, on the boot hart.
LEMMA TimerAttended ==
  ASSUME NEW s, Typed(s), s.current[BootHart] # NONE, Attended(s, {BootHart})
  PROVE  /\ Attended(tick(s), {BootHart})
         /\ \A t \in Due(s) : Attended(wake_sleeper(s, t), {BootHart})
         /\ Attended(end_of_tick(s, BootHart), {BootHart})
<1>1. s.online[BootHart] /\ BootHart \in Hart
  BY BootAssumption DEF Attended, Grounded
<1>2. Attended(tick(s), {BootHart})
  <2>1. /\ tick(s).current = s.current /\ tick(s).online = s.online
        /\ tick(s).rq = s.rq /\ tick(s).ipi = s.ipi /\ tick(s).state = s.state
    BY DEF tick, Typed, Fields
  <2>2. QED
    BY <2>1 DEF Attended, Grounded, Kicks
<1>3. ASSUME NEW t \in Due(s) PROVE Attended(wake_sleeper(s, t), {BootHart})
  <2>1. t \in Tid
    BY DEF Due
  <2>2. QED
    BY <2>1, <1>1, MakeRunnableAttended DEF wake_sleeper
<1>4. Attended(end_of_tick(s, BootHart), {BootHart})
  <2> DEFINE m == [s EXCEPT !.slice_left[BootHart] = @ - 1]
  <2>1. /\ m.current = s.current /\ m.online = s.online
        /\ m.rq = s.rq /\ m.ipi = s.ipi /\ m.state = s.state
    BY DEF Typed, Fields
  <2>2. Attended(m, {BootHart})
    BY <2>1 DEF Attended, Grounded, Kicks
  <2>3. Attended(schedule(s, BootHart), {BootHart})
    <3>1. Attended(s, {BootHart, BootHart})
      BY DEF Attended, Kicks
    <3>2. QED
      BY <3>1, <1>1, ScheduleAttended
  <2>4. QED
    BY <2>2, <2>3 DEF end_of_tick
<1>5. QED
  BY <1>2, <1>3, <1>4

\* threads_init.
LEMMA InitAttended == Attended(threads_init, {BootHart})
<1> DEFINE s == threads_init
<1>1. /\ s.state = [t \in Tid |-> IF t <= MAX_HARTS THEN "RUNNABLE" ELSE "UNUSED"]
      /\ s.current = [h \in Hart |-> NONE]
      /\ s.online = [h \in Hart |-> h = BootHart]
      /\ s.rq = [h \in Hart |-> IF h = BootHart THEN <<MAX_HARTS>> ELSE <<>>]
  BY DEF threads_init
<1> HIDE DEF s
<1>2. \A g \in Hart : g \in Tid /\ g <= MAX_HARTS
  BY HartsAssumption, ThreadsAssumption DEF Hart, Tid
<1>3. MAX_HARTS \in User
  BY HartsAssumption, ThreadsAssumption DEF User
<1>4. \A g \in Hart : \A i \in 1 .. Len(s.rq[g]) : s.rq[g][i] \in User
  BY <1>1, <1>3
<1>5. \A g \in Hart : ~s.online[g] => g # BootHart
  BY <1>1
<1>6. \A g \in Hart \ {BootHart} : s.rq[g] = <<>>
  BY <1>1
<1>7. QED
  BY <1>1, <1>2, <1>4, <1>5, <1>6 DEF Attended, Grounded, Kicks, s

\* The inductive invariant behind NoLostKick.
IAttended == ITyped /\ Attended(k, {BootHart})

\* Every step keeps it.
LEMMA AttendedStep == IAttended /\ [Next]_vars => IAttended'
<1> SUFFICES ASSUME IAttended, [Next]_vars PROVE IAttended'
  OBVIOUS
<1> DEFINE Goal == Attended(k', {BootHart})
<1>1. Typed(k) /\ Attended(k, {BootHart}) /\ BootHart \in Hart
  BY BootAssumption DEF IAttended, ITyped
<1>2. \A h \in Hart : Attended(k, {BootHart, h})
  BY <1>1 DEF Attended, Kicks
<1>3. \A h \in Hart : k.current[h] # NONE => k.online[h]
  BY <1>1 DEF Attended, Grounded
<1>4. ASSUME NEW h \in Hart, Attended(k', {BootHart, h}), k.current[h] \in User,
             k'.current = k.current
      PROVE  Goal
  BY <1>4, Kinds DEF Attended, Kicks
<1>5. ASSUME NEW h \in Hart, HartOnline(h) PROVE Goal
  BY <1>1, <1>5, OnlineAttended DEF HartOnline
<1>6. ASSUME NEW h \in Hart, EnterIdle(h) PROVE Goal
  BY <1>1, <1>6, EnterIdleAttended DEF EnterIdle
<1>7. ASSUME NEW h \in Hart, IpiIrq(h) PROVE Goal
  BY <1>1, <1>7, IpiAttended DEF IpiIrq, CanTrap
<1>8. ASSUME TimerIrq PROVE Goal
  BY <1>1, <1>8, TimerAttended DEF TimerIrq, CanTrap
<1>9. ASSUME WakeSleeper \/ TimerDone PROVE Goal
  <2>1. k.current[BootHart] # NONE
    BY <1>9 DEF WakeSleeper, TimerDone, IAttended, ITyped
  <2>2. QED
    BY <1>1, <1>9, <2>1, TimerAttended, WakesOne DEF TimerDone, IAttended, ITyped
<1>10. ASSUME UartIrq PROVE Goal
  BY <1>1, <1>3, <1>10, UartAttended DEF UartIrq, CanTrap
<1>11. ASSUME NEW h \in Hart, Sleep(h) \/ Yield(h) PROVE Goal
  <2>1. PICK n \in Nat : k' = thread_sys_sleep(k, h, n)
    BY <1>11, ArgumentsAssumption DEF Sleep, Yield, thread_sys_yield
  <2>2. k.current[h] \in User
    BY <1>11 DEF Sleep, Yield, Ecall
  <2>3. QED
    BY <1>1, <2>1, <2>2, SleepAttended
<1>12. ASSUME NEW h \in Hart, Create(h) PROVE Goal
  <2>1. k.current[h] \in User /\ k.current[h] # NONE /\ k' = thread_sys_create(k, h)
    BY <1>12 DEF Create, Ecall, CanTrap
  <2>2. Attended(k', {BootHart, h}) /\ k'.current = k.current
    BY <1>1, <1>2, <1>3, <2>1, CreateAttended
  <2>3. QED
    BY <1>4, <2>1, <2>2
<1>13. ASSUME NEW h \in Hart, Exit(h) \/ Fault(h) PROVE Goal
  <2>1. PICK c \in Codes : k' = thread_sys_exit(k, h, c)
    BY <1>13 DEF Exit, Fault, Codes
  <2>2. k.current[h] \in User
    BY <1>13 DEF Exit, Fault, Ecall
  <2>3. QED
    BY <1>1, <2>1, <2>2, ExitAttended
<1>14. ASSUME NEW h \in Hart, Join(h) PROVE Goal
  BY <1>1, <1>14, JoinAttended DEF Join, Ecall
<1>15. ASSUME NEW h \in Hart, Kill(h) PROVE Goal
  <2>1. PICK t \in Tid : k' = thread_sys_kill(k, h, t)
    BY <1>15 DEF Kill
  <2>2. k.current[h] \in User /\ k.current[h] # NONE
    BY <1>15 DEF Kill, Ecall, CanTrap
  <2>3. Attended(k', {BootHart, h}) /\ k'.current = k.current
    BY <1>1, <1>2, <1>3, <2>1, <2>2, KillAttended
  <2>4. QED
    BY <1>4, <2>2, <2>3
<1>16. ASSUME NEW h \in Hart, Detach(h) PROVE Goal
  BY <1>1, <1>16, DetachAttended DEF Detach, Ecall
<1>17. ASSUME NEW h \in Hart, Read(h) PROVE Goal
  <2>1. PICK n \in Nat : k' = sys_read(k, h, n)
    BY <1>17, ArgumentsAssumption DEF Read
  <2>2. k.current[h] \in User
    BY <1>17 DEF Read, Ecall
  <2>3. QED
    BY <1>1, <2>1, <2>2, ReadAttended
<1>18. ASSUME UNCHANGED vars PROVE Goal
  BY <1>1, <1>18 DEF vars
<1>19. Goal
  BY <1>5, <1>6, <1>7, <1>8, <1>9, <1>10, <1>11, <1>12, <1>13, <1>14, <1>15,
     <1>16, <1>17, <1>18 DEF Next
<1>20. QED
  BY <1>19, NextStep DEF IAttended

\* NoLostKick holds in every reachable state, for any number of harts and
\* threads and with every system call, also the kill of a thread that another
\* hart runs: whoever queues work on an idle secondary hart has kicked it
\* (thread_make_runnable, smp_kick_hart), and schedule never goes idle, nor
\* does sched_on_ipi_irq consume an IPI, with work in the queue.
THEOREM KicksDelivered == Spec => []NoLostKick
<1>1. Init => IAttended
  BY InitInvariant, InitAttended DEF Init, IAttended
<1>2. IAttended /\ [Next]_vars => IAttended'
  BY AttendedStep
<1>3. IAttended => NoLostKick
  BY DEF IAttended, Attended, Kicks, NoLostKick
<1>4. QED
  BY <1>1, <1>2, <1>3, PTL DEF Spec

\* The loop of threads_tick has passed no sleeper that is due, and outside
\* the loop none is.
IOnTime ==
  /\ IConsistent /\ IAttended
  /\ \A t \in Due(k) : ticking /\ scan <= t

\* NoOverdueSleeper, for any number of harts and threads, unless a thread can
\* be killed while another hart runs it: one pass of threads_tick over
\* g_threads wakes every sleeper whose time has come.  It rests on the
\* consistency of the queues: thread_make_runnable does nothing for a thread
\* that is on a queue, and the pass goes on without it.
THEOREM SleepersOnTime ==
  ASSUME NoRemoteKill PROVE Spec => []NoOverdueSleeper
<1>1. Init => IOnTime
  BY InitInvariant, InitAttended DEF Init, IOnTime, IConsistent, IAttended
<1>2. IOnTime /\ [Next]_vars => IOnTime'
  <2> SUFFICES ASSUME IOnTime, [Next]_vars PROVE IOnTime'
    OBVIOUS
  <2>1. ITyped /\ Consistent(k) /\ Attended(k, {BootHart}) /\ IConsistent' /\ IAttended'
    BY NextStep, AttendedStep DEF IOnTime, IConsistent, IAttended
  <2>2. CASE TimerIrq
    <3>1. scan' = 0 /\ Due(k') \subseteq Nat
      BY <2>2 DEF TimerIrq, Due, Tid
    <3>2. QED
      BY <2>1, <3>1 DEF IOnTime, ticking, NONE
  <2>3. CASE WakeSleeper
    <3>1. PICK t \in Due(k) : /\ k' = wake_sleeper(k, t) /\ scan' = t + 1 /\ t \in Tid
                             /\ \A u \in Due(k) : scan <= u => t <= u
      BY <2>1, <2>3, WakesOne DEF ITyped
    <3>2. Due(k') \subseteq Due(k) \ {t}
      <4>1. t \notin Hart
        BY <2>1 DEF Due, Attended, Grounded
      <4>2. QED
        BY <2>1, <3>1, <4>1, WakeStep DEF ITyped
    <3>3. Due(k) \subseteq Nat
      BY DEF Due, Tid
    <3>4. \A u \in Due(k') : t + 1 <= u
      BY <3>1, <3>2, <3>3 DEF IOnTime, Tid
    <3>5. QED
      BY <2>1, <3>1, <3>4 DEF IOnTime, ticking, NONE, Tid
  <2>4. CASE (scan' = scan \/ TimerDone) /\ Due(k') \subseteq Due(k)
    <3>1. CASE scan' = scan
      BY <2>1, <2>4, <3>1 DEF IOnTime, ticking
    <3>2. CASE TimerDone
      <4>1. Due(k) = {}
        BY <3>2 DEF IOnTime, TimerDone, DueFrom
      <4>2. QED
        BY <2>1, <2>4, <4>1 DEF IOnTime
    <3>3. QED
      BY <2>4, <3>1, <3>2
  <2>5. QED
    BY <2>1, <2>2, <2>3, <2>4, NextStep
<1>3. IOnTime => NoOverdueSleeper
  BY DEF IOnTime, NoOverdueSleeper
<1>4. QED
  BY <1>1, <1>2, <1>3, PTL DEF Spec

----------------------------------------------------------------------------
(* Results of blocked system calls, and the reader of stdin.               *)

\* At most one thread reads from stdin, as in the user programs of the
\* repository, where only the shell does.
OneReader == \A a, b \in Readers : a = b

\* No thread asks for 0 characters.  The run empty_read shows what happens
\* to one that does.
NoEmptyRead == 0 \notin ReadLens

\* A thread whose result is due waits for it; a BLOCKED thread waits for
\* characters; and if only one thread reads, it is the registered waiter and
\* the ring is empty.  All of it holds in the middle of a handler too.
Owed(s) ==
  /\ \A t \in Tid : s.ret[t] = "due" =>
       t \in User /\ s.state[t] \in {"WAITING", "BLOCKED", "ZOMBIE"}
  /\ \A t \in Tid : s.state[t] = "BLOCKED" =>
       t \in User /\ t \in Readers /\ s.pending_read[t] > 0
  /\ OneReader => \A t \in Tid : s.state[t] = "BLOCKED" =>
       s.g_stdin_waiter = t /\ s.rx = 0

\* A change of other fields.
LEMMA OwedSame ==
  ASSUME NEW s, Owed(s), NEW m, m.state = s.state, m.ret = s.ret,
         m.pending_read = s.pending_read, m.g_stdin_waiter = s.g_stdin_waiter,
         m.rx = s.rx
  PROVE  Owed(m)
BY DEF Owed

\* schedule requeues a RUNNING thread, to which nothing is due.
LEMMA ScheduleOwed ==
  ASSUME NEW s, Typed(s), NEW h \in Hart, s.current[h] \in User \cup {h}, Owed(s)
  PROVE  Owed(schedule(s, h))
<1> DEFINE r == schedule(s, h)
           cur == s.current[h]
           next == r.current[h]
<1>1. cur # NONE /\ h \notin User
  BY Kinds
<1>2. Typed(r) /\ Scheduled(r, s, h)
  BY <1>1, ScheduleAll
<1> HIDE DEF r
<1>3. ASSUME NEW t \in Tid
      PROVE  /\ r.state[t] = IF t = next THEN "RUNNING"
                             ELSE IF t = cur THEN StateOff(s, h) ELSE s.state[t]
             /\ r.ret[t] = IF t = next \/ (t = cur /\ Frees(s, h)) THEN "none"
                           ELSE s.ret[t]
  BY <1>2 DEF Scheduled
<1>4. /\ r.rx = s.rx /\ r.pending_read = s.pending_read
      /\ r.g_stdin_waiter = IF Frees(s, h) /\ s.g_stdin_waiter = cur THEN NONE
                            ELSE s.g_stdin_waiter
  BY <1>2 DEF Scheduled, SameIo
<1>5. Frees(s, h) => s.state[cur] = "ZOMBIE"
  BY DEF Frees
<1>6. ASSUME NEW t \in Tid, r.state[t] = "BLOCKED" PROVE s.state[t] = "BLOCKED"
  BY <1>3, <1>6 DEF StateOff
<1>7. ASSUME NEW t \in Tid, r.ret[t] = "due"
      PROVE  t \in User /\ r.state[t] \in {"WAITING", "BLOCKED", "ZOMBIE"}
  <2>1. t # next /\ ~(t = cur /\ Frees(s, h)) /\ s.ret[t] = "due"
    BY <1>3, <1>7
  <2>2. t \in User /\ s.state[t] \in {"WAITING", "BLOCKED", "ZOMBIE"}
    BY <2>1 DEF Owed
  <2>3. QED
    BY <2>1, <2>2, <1>1, <1>3 DEF StateOff
<1>8. ASSUME OneReader, NEW t \in Tid, r.state[t] = "BLOCKED"
      PROVE  r.g_stdin_waiter = t /\ r.rx = 0
  <2>1. s.state[t] = "BLOCKED" /\ s.g_stdin_waiter = t /\ s.rx = 0
    BY <1>6, <1>8 DEF Owed
  <2>2. QED
    BY <2>1, <1>4, <1>5
<1>9. QED
  BY <1>4, <1>6, <1>7, <1>8 DEF Owed, r

\* thread_make_runnable of a thread that has its result.
LEMMA MakeRunnableOwed ==
  ASSUME NEW s, Typed(s), NEW t \in Tid, Owed(s), s.ret[t] # "due",
         NEW r, MadeRunnable(r, s, t)
  PROVE  Owed(r)
<1>1. CASE r = s
  BY <1>1
<1>2. CASE r # s
  <2>1. /\ Frame(r, s, {"rq", "state", "wakeup_tick", "ipi"})
        /\ r.state = [s.state EXCEPT ![t] = "RUNNABLE"]
    BY <1>2, Zenon DEF MadeRunnable
  <2>2. /\ r.ret = s.ret /\ r.pending_read = s.pending_read /\ r.rx = s.rx
        /\ r.g_stdin_waiter = s.g_stdin_waiter
    BY <2>1 DEF Frame, Fields
  <2>3. \A u \in Tid : r.state[u] = IF u = t THEN "RUNNABLE" ELSE s.state[u]
    BY <2>1 DEF Typed
  <2>4. QED
    BY <2>2, <2>3 DEF Owed
<1>3. QED
  BY <1>1, <1>2

\* recycle_thread.
LEMMA RecycleOwed ==
  ASSUME NEW s, Typed(s), NEW t \in Tid, Owed(s), NEW r, Recycled(r, s, t)
  PROVE  Owed(r)
<1>1. /\ r.pending_read = s.pending_read /\ r.rx = s.rx
      /\ r.state = [s.state EXCEPT ![t] = "UNUSED"]
      /\ r.ret = [s.ret EXCEPT ![t] = "none"]
      /\ r.g_stdin_waiter = IF s.g_stdin_waiter = t THEN NONE ELSE s.g_stdin_waiter
  BY DEF Recycled, Frame, Fields
<1>2. \A u \in Tid : /\ r.state[u] = IF u = t THEN "UNUSED" ELSE s.state[u]
                     /\ r.ret[u] = IF u = t THEN "none" ELSE s.ret[u]
  BY <1>1 DEF Typed
<1>3. QED
  BY <1>1, <1>2 DEF Owed

\* release_joiner writes the result before it wakes the joiner.
LEMMA ReleaseOwed ==
  ASSUME NEW s, Typed(s), NEW h \in Hart, NEW w \in Tid, NEW code \in Codes,
         Owed(s)
  PROVE  Owed(release_joiner(s, h, w, code))
<1>1. PICK m : /\ release_joiner(s, h, w, code) = thread_make_runnable(m, h, w, h)
               /\ Typed(m) /\ Frame(m, s, {"ret", "waiting_for"})
               /\ \A u \in Tid :
                    /\ m.ret[u] = IF u = w /\ s.state[w] # "RUNNING" THEN code
                                  ELSE s.ret[u]
                    /\ m.waiting_for[u] = IF u = w THEN NONE ELSE s.waiting_for[u]
  BY ReleaseFields
<1>2. /\ m.state = s.state /\ m.pending_read = s.pending_read
      /\ m.rx = s.rx /\ m.g_stdin_waiter = s.g_stdin_waiter
  BY <1>1 DEF Frame, Fields
<1>3. code # "due"
  BY MarksAssumption DEF Codes
<1>4. m.ret[w] # "due" /\ \A u \in Tid : m.ret[u] = "due" => s.ret[u] = "due"
  BY <1>1, <1>3 DEF Owed
<1>5. Owed(m)
  BY <1>2, <1>4 DEF Owed
<1>6. MadeRunnable(thread_make_runnable(m, h, w, h), m, w)
  BY <1>1, MakeRunnableFields
<1>7. QED
  BY <1>1, <1>4, <1>5, <1>6, MakeRunnableOwed

\* thread_sys_sleep and thread_sys_yield.
LEMMA SleepOwed ==
  ASSUME NEW s, Typed(s), NEW h \in Hart, s.current[h] \in User, NEW n \in Nat,
         s.state[s.current[h]] = "RUNNING", Owed(s)
  PROVE  Owed(thread_sys_sleep(s, h, n))
<1> DEFINE cur == s.current[h]
           m == [s EXCEPT !.state[cur] = "SLEEPING", !.wakeup_tick[cur] = n]
<1>1. cur \in Tid
  BY Kinds
<1>2. CASE n = 0
  BY <1>2, ScheduleOwed DEF thread_sys_sleep
<1>3. CASE n # 0
  <2>1. /\ Typed(m) /\ Frame(m, s, {"state", "wakeup_tick"})
        /\ \A u \in Tid : m.state[u] = IF u = cur THEN "SLEEPING" ELSE s.state[u]
    BY <1>1, SleepFields
  <2>2. thread_sys_sleep(s, h, n) = schedule(m, h)
    BY <1>3 DEF thread_sys_sleep
  <2> HIDE DEF m
  <2>3. /\ m.current = s.current /\ m.ret = s.ret /\ m.rx = s.rx
        /\ m.pending_read = s.pending_read /\ m.g_stdin_waiter = s.g_stdin_waiter
    BY <2>1 DEF Frame, Fields
  <2>4. Owed(m)
    BY <2>1, <2>3, <1>1 DEF Owed
  <2>5. QED
    BY <2>1, <2>2, <2>3, <2>4, ScheduleOwed
<1>4. QED
  BY <1>2, <1>3

\* thread_sys_create.
LEMMA CreateOwed ==
  ASSUME NEW s, Typed(s), NEW h \in Hart, Owed(s)
  PROVE  Owed(thread_sys_create(s, h))
<1> DEFINE t == Min(FreeSlots(s))
           m == [s EXCEPT !.state[t] = "RUNNABLE", !.wakeup_tick[t] = 0,
                          !.detached[t] = FALSE, !.ret[t] = "none"]
<1>1. CASE FreeSlots(s) = {}
  BY <1>1 DEF thread_sys_create
<1>2. CASE FreeSlots(s) # {}
  <2>1. t \in Tid
    <3>1. FreeSlots(s) \subseteq Nat
      BY DEF FreeSlots, Tid
    <3>2. t \in FreeSlots(s)
      BY <1>2, <3>1, MinOfNats
    <3>3. QED
      BY <3>2 DEF FreeSlots
  <2>2. thread_sys_create(s, h) = thread_make_runnable(m, h, t, h)
    BY <1>2 DEF thread_sys_create
  <2> HIDE DEF t
  <2>3. /\ Typed(m) /\ Frame(m, s, {"state", "wakeup_tick", "detached", "ret"})
        /\ \A u \in Tid : /\ m.state[u] = IF u = t THEN "RUNNABLE" ELSE s.state[u]
                          /\ m.ret[u] = IF u = t THEN "none" ELSE s.ret[u]
    BY <2>1, CreateFields
  <2> HIDE DEF m
  <2>4. /\ m.pending_read = s.pending_read /\ m.g_stdin_waiter = s.g_stdin_waiter
        /\ m.rx = s.rx
    BY <2>3 DEF Frame, Fields
  <2>5. Owed(m) /\ m.ret[t] # "due"
    BY <2>1, <2>3, <2>4 DEF Owed
  <2>6. MadeRunnable(thread_make_runnable(m, h, t, h), m, t)
    BY <2>1, <2>3, MakeRunnableFields
  <2>7. QED
    BY <2>1, <2>2, <2>3, <2>5, <2>6, MakeRunnableOwed
<1>3. QED
  BY <1>1, <1>2

\* thread_sys_exit.
LEMMA ExitOwed ==
  ASSUME NEW s, Typed(s), NEW h \in Hart, s.current[h] \in User,
         NEW code \in Codes, Owed(s)
  PROVE  Owed(thread_sys_exit(s, h, code))
<1> DEFINE cur == s.current[h]
           w == s.join_waiter[cur]
           dead == [s EXCEPT !.state[cur] = "ZOMBIE", !.exit_code[cur] = code]
           told == release_joiner(dead, h, w, code)
           gone == recycle_thread(told, cur)
<1>1. cur \in Tid /\ cur \in User /\ w \in Tid \cup {NONE}
  BY Kinds DEF Typed
<1>2. thread_sys_exit(s, h, code) =
        IF w # NONE THEN schedule(gone, h) ELSE schedule(dead, h)
  BY DEF thread_sys_exit
<1>3. /\ Typed(dead) /\ Frame(dead, s, {"state", "exit_code"})
      /\ \A u \in Tid : dead.state[u] = IF u = cur THEN "ZOMBIE" ELSE s.state[u]
  BY <1>1, DeadFields
<1> HIDE DEF dead
<1>4. /\ dead.current = s.current /\ dead.ret = s.ret /\ dead.rx = s.rx
      /\ dead.pending_read = s.pending_read
      /\ dead.g_stdin_waiter = s.g_stdin_waiter
  BY <1>3 DEF Frame, Fields
<1>5. Owed(dead)
  BY <1>1, <1>3, <1>4 DEF Owed
<1>6. CASE w = NONE
  BY <1>2, <1>3, <1>4, <1>5, <1>6, ScheduleOwed
<1>7. CASE w # NONE
  <2>1. w \in Tid
    BY <1>1, <1>7
  <2>2. Owed(told)
    BY <2>1, <1>3, <1>5, ReleaseOwed
  <2>3. Typed(told) /\ told.current = dead.current
    BY <2>1, <1>3, ReleaseJoinerFields
  <2> HIDE DEF told, w
  <2>4. Recycled(gone, told, cur)
    BY <2>3, <1>1, RecycleFields
  <2> HIDE DEF gone
  <2>5. Typed(gone) /\ gone.current = told.current
    BY <2>3, <2>4, <1>1, RecycleTyped, RecycleGentle
  <2>6. Owed(gone)
    BY <2>2, <2>3, <2>4, <1>1, RecycleOwed
  <2>7. gone.current[h] \in User \cup {h}
    BY <2>3, <2>5, <1>1, <1>4
  <2>8. QED
    BY <2>5, <2>6, <2>7, <1>2, <1>7, ScheduleOwed
<1>8. QED
  BY <1>6, <1>7

\* thread_sys_join.
LEMMA JoinOwed ==
  ASSUME NEW s, Typed(s), NEW h \in Hart, s.current[h] \in User, NEW t \in Tid,
         s.state[s.current[h]] = "RUNNING", Owed(s)
  PROVE  Owed(thread_sys_join(s, h, t))
<1> DEFINE cur == s.current[h]
           gone == recycle_thread(s, t)
           m == [s EXCEPT !.state[cur] = "WAITING", !.waiting_for[cur] = t,
                          !.ret[cur] = "due", !.join_waiter[t] = cur]
<1>1. cur \in Tid /\ cur \in User
  BY Kinds
<1>2. thread_sys_join(s, h, t) =
        IF join_refused(s, h, t) THEN s
        ELSE IF s.state[t] = "ZOMBIE" THEN gone ELSE schedule(m, h)
  BY DEF thread_sys_join
<1>3. Owed(gone)
  <2>1. Recycled(gone, s, t)
    BY RecycleFields
  <2> HIDE DEF gone
  <2>2. QED
    BY <2>1, RecycleOwed
<1>4. Owed(schedule(m, h))
  <2>1. m = [s EXCEPT !.state[cur] = "WAITING", !.waiting_for[cur] = t,
                      !.ret[cur] = "due", !.join_waiter[t] = cur]
    OBVIOUS
  <2> HIDE DEF m
  <2>2. Typed(m) /\ Joining(m, s, cur, t)
    BY <2>1, <1>1, JoinFields
  <2>3. /\ m.current = s.current /\ m.rx = s.rx
        /\ m.pending_read = s.pending_read /\ m.g_stdin_waiter = s.g_stdin_waiter
        /\ \A u \in Tid : /\ m.state[u] = IF u = cur THEN "WAITING" ELSE s.state[u]
                          /\ m.ret[u] = IF u = cur THEN "due" ELSE s.ret[u]
    BY <2>2 DEF Joining, Frame, Fields
  <2>4. Owed(m)
    BY <2>3, <1>1 DEF Owed
  <2>5. QED
    BY <2>2, <2>3, <2>4, ScheduleOwed
<1>5. QED
  BY <1>2, <1>3, <1>4

\* thread_sys_detach.
LEMMA DetachOwed ==
  ASSUME NEW s, Typed(s), NEW h \in Hart, NEW t \in Tid, Owed(s)
  PROVE  Owed(thread_sys_detach(s, h, t))
<1> DEFINE gone == recycle_thread(s, t)
           m == [s EXCEPT !.detached[t] = TRUE]
<1>1. thread_sys_detach(s, h, t) \in {s, gone, m}
  BY DEF thread_sys_detach
<1>2. Owed(gone)
  <2>1. Recycled(gone, s, t)
    BY RecycleFields
  <2> HIDE DEF gone
  <2>2. QED
    BY <2>1, RecycleOwed
<1>3. Owed(m)
  <2>1. /\ m.state = s.state /\ m.ret = s.ret /\ m.rx = s.rx
        /\ m.pending_read = s.pending_read /\ m.g_stdin_waiter = s.g_stdin_waiter
    BY DEF Typed, Fields
  <2>2. QED
    BY <2>1 DEF Owed
<1>4. QED
  BY <1>1, <1>2, <1>3

\* sys_read.  A reader that blocks found the ring empty, and it is the only
\* one that is BLOCKED if there is one reader.
LEMMA ReadOwed ==
  ASSUME NEW s, Typed(s), NEW h \in Hart, s.current[h] \in User \cap Readers,
         NEW len \in Nat \ {0}, s.state[s.current[h]] = "RUNNING", Owed(s)
  PROVE  Owed(sys_read(s, h, len))
<1> DEFINE r == sys_read(s, h, len)
           cur == s.current[h]
<1>1. cur \in Tid /\ cur \in User
  BY Kinds
<1>2. \/ s.rx > 0 /\ Frame(r, s, {"rx"})
      \/ s.rx = 0 /\ \E m : /\ r = schedule(m, h)
                            /\ Typed(m) /\ Reading(m, s, cur, len)
  BY <1>1, ReadFields
<1> HIDE DEF r
<1>3. s.rx \in Nat
  BY DEF Typed
<1>4. CASE s.rx > 0 /\ Frame(r, s, {"rx"})
  <2>1. /\ r.state = s.state /\ r.ret = s.ret
        /\ r.pending_read = s.pending_read /\ r.g_stdin_waiter = s.g_stdin_waiter
    BY <1>4 DEF Frame, Fields
  <2>2. OneReader => \A t \in Tid : s.state[t] # "BLOCKED"
    BY <1>3, <1>4 DEF Owed
  <2>3. QED
    BY <2>1, <2>2 DEF Owed, r
<1>5. ASSUME s.rx = 0, NEW m, r = schedule(m, h), Typed(m), Reading(m, s, cur, len)
      PROVE  Owed(r)
  <2>1. /\ m.current = s.current /\ m.rx = 0 /\ m.g_stdin_waiter = cur
        /\ \A u \in Tid :
             /\ m.state[u] = IF u = cur THEN "BLOCKED" ELSE s.state[u]
             /\ m.ret[u] = IF u = cur THEN "due" ELSE s.ret[u]
             /\ m.pending_read[u] = IF u = cur THEN len ELSE s.pending_read[u]
    BY <1>5 DEF Reading, Frame, Fields
  <2>2. OneReader => \A u \in Tid : m.state[u] = "BLOCKED" => u = cur
    BY <2>1 DEF Owed, OneReader
  <2>3. Owed(m)
    BY <2>1, <2>2, <1>1 DEF Owed
  <2>4. QED
    BY <2>1, <2>3, <1>1, <1>5, ScheduleOwed
<1>6. QED
  BY <1>2, <1>4, <1>5 DEF r

\* console_on_char_from_irq.  A BLOCKED reader gets at least one character
\* and leaves its state; with one reader nobody is BLOCKED afterwards.
LEMMA UartOwed ==
  ASSUME NEW s, Typed(s), NEW h \in Hart, Queued(s), Owed(s)
  PROVE  Owed(console_on_char_from_irq(s, h))
<1> DEFINE w == s.g_stdin_waiter
           r == console_on_char_from_irq(s, h)
<1>1. PICK m :
        /\ Typed(m) /\ Frame(m, s, {"rx", "ret", "pending_read"})
        /\ \/ /\ w = NONE /\ r = m
              /\ m.ret = s.ret /\ m.pending_read = s.pending_read
           \/ /\ w \in Tid
              /\ r = [thread_wake(m, h, w) EXCEPT !.g_stdin_waiter = NONE]
              /\ \A u \in Tid \ {w} : /\ m.ret[u] = s.ret[u]
                                      /\ m.pending_read[u] = s.pending_read[u]
              /\ m.pending_read[w] = 0
              /\ m.ret[w] = IF s.pending_read[w] = 0 THEN s.ret[w] ELSE "read"
  BY UartFields
<1> HIDE DEF r
<1>2. m.state = s.state /\ m.g_stdin_waiter = w /\ m.rq = s.rq
  BY <1>1 DEF Frame, Fields
<1>3. CASE w = NONE /\ r = m /\ m.ret = s.ret /\ m.pending_read = s.pending_read
  <2>1. OneReader => \A t \in Tid : s.state[t] # "BLOCKED"
    BY <1>3, Kinds DEF Owed
  <2>2. QED
    BY <2>1, <1>2, <1>3 DEF Owed, r
<1>4. CASE /\ w \in Tid
           /\ r = [thread_wake(m, h, w) EXCEPT !.g_stdin_waiter = NONE]
           /\ \A u \in Tid \ {w} : /\ m.ret[u] = s.ret[u]
                                   /\ m.pending_read[u] = s.pending_read[u]
           /\ m.pending_read[w] = 0
           /\ m.ret[w] = IF s.pending_read[w] = 0 THEN s.ret[w] ELSE "read"
  <2> DEFINE x == thread_wake(m, h, w)
             y == thread_make_runnable(m, h, w, h)
  <2>1. MadeRunnable(y, m, w)
    BY <1>1, <1>4, MakeRunnableFields
  <2>2. x = IF s.state[w] = "BLOCKED" THEN y ELSE m
    BY <1>2 DEF thread_wake
  <2> HIDE DEF x, y, w
  <2>3. ASSUME s.state[w] = "BLOCKED"
        PROVE  /\ Frame(y, m, {"rq", "state", "wakeup_tick", "ipi"})
               /\ y.state = [m.state EXCEPT ![w] = "RUNNABLE"]
    <3>1. w \in User
      BY <2>3, <1>4 DEF Owed
    <3>2. ~on_rq(s, w)
      BY <2>3, <3>1 DEF Queued
    <3>3. ~on_rq(m, w)
      BY <3>2, <1>2 DEF on_rq
    <3>4. m.state[w] # "RUNNING"
      BY <2>3, <1>2
    <3>5. QED
      BY <2>1, <3>1, <3>3, <3>4, Zenon DEF MadeRunnable
  <2>4. /\ DOMAIN x = Fields /\ x.ret = m.ret /\ x.pending_read = m.pending_read
        /\ \A u \in Tid : x.state[u] = IF u = w /\ s.state[w] = "BLOCKED"
                                       THEN "RUNNABLE" ELSE s.state[u]
    <3>1. CASE s.state[w] = "BLOCKED"
      <4>1. x = y
        BY <2>2, <3>1
      <4>2. \A u \in Tid : y.state[u] = IF u = w THEN "RUNNABLE" ELSE s.state[u]
        BY <2>3, <3>1, <1>2 DEF Typed
      <4>3. DOMAIN y = Fields /\ y.ret = m.ret /\ y.pending_read = m.pending_read
        BY <2>3, <3>1 DEF Frame, Fields
      <4>4. QED
        BY <4>1, <4>2, <4>3, <3>1
    <3>2. CASE s.state[w] # "BLOCKED"
      BY <3>2, <2>2, <1>1, <1>2 DEF Typed
    <3>3. QED
      BY <3>1, <3>2
  <2>5. r = [x EXCEPT !.g_stdin_waiter = NONE]
    BY <1>4 DEF x
  <2>6. r.state = x.state /\ r.ret = x.ret /\ r.pending_read = x.pending_read
    BY <2>4, <2>5 DEF Fields
  <2>7. ASSUME NEW t \in Tid, r.ret[t] = "due"
        PROVE  t \in User /\ r.state[t] \in {"WAITING", "BLOCKED", "ZOMBIE"}
    <3>1. s.ret[t] = "due" /\ (t = w => s.pending_read[w] = 0)
      BY <2>4, <2>6, <2>7, <1>4
    <3>2. t = w => s.state[w] # "BLOCKED"
      BY <3>1, <1>4 DEF Owed
    <3>3. QED
      BY <3>1, <3>2, <2>4, <2>6 DEF Owed
  <2>8. ASSUME NEW t \in Tid, r.state[t] = "BLOCKED"
        PROVE  t # w /\ s.state[t] = "BLOCKED" /\ r.pending_read[t] = s.pending_read[t]
    <3>1. t # w /\ s.state[t] = "BLOCKED"
      BY <2>4, <2>6, <2>8
    <3>2. QED
      BY <3>1, <2>4, <2>6, <1>4
  <2>9. OneReader => \A t \in Tid : r.state[t] # "BLOCKED"
    BY <2>8 DEF Owed, w
  <2>10. QED
    BY <2>7, <2>8, <2>9 DEF Owed, r
<1>5. QED
  BY <1>1, <1>3, <1>4

\* thread_sys_kill.
LEMMA KillOwed ==
  ASSUME NEW s, Typed(s), NEW h \in Hart, NEW t \in Tid, Owed(s)
  PROVE  Owed(thread_sys_kill(s, h, t))
<1> DEFINE w == s.join_waiter[t]
           rh == s.running_hart[t]
           a == [s EXCEPT !.state[t] = "ZOMBIE", !.exit_code[t] = "killed",
                          !.wakeup_tick[t] = 0]
           dead == rq_remove_any(a, t)
           kicked == IF rh \in Hart \ {h} THEN smp_kick_hart(dead, rh) ELSE dead
           told == IF w # NONE THEN release_joiner(kicked, h, w, "killed")
                   ELSE kicked
           gone == recycle_thread(told, t)
<1>1. w \in Tid \cup {NONE} /\ "killed" \in Codes
  BY DEF Typed, Codes
<1>2. thread_sys_kill(s, h, t) =
        IF kill_refused(s, h, t) THEN s
        ELSE IF rh = NONE /\ (w # NONE \/ s.detached[t]) THEN gone ELSE told
  BY DEF thread_sys_kill
<1>3. CASE kill_refused(s, h, t)
  BY <1>2, <1>3
<1>4. CASE ~kill_refused(s, h, t)
  <2>1. t \in User
    BY <1>4 DEF kill_refused
  <2>2. /\ Typed(a) /\ Frame(a, s, {"state", "exit_code", "wakeup_tick"})
        /\ \A u \in Tid : a.state[u] = IF u = t THEN "ZOMBIE" ELSE s.state[u]
    BY KilledFields
  <2> HIDE DEF a
  <2>3. Owed(a)
    <3>1. /\ a.ret = s.ret /\ a.pending_read = s.pending_read
          /\ a.g_stdin_waiter = s.g_stdin_waiter /\ a.rx = s.rx
      BY <2>2 DEF Frame, Fields
    <3>2. QED
      BY <3>1, <2>1, <2>2 DEF Owed
  <2>4. Unlinked(dead, a, t) /\ Typed(dead)
    BY <2>2, RemoveFields
  <2> HIDE DEF dead
  <2>5. Owed(dead)
    <3>1. /\ dead.ret = a.ret /\ dead.pending_read = a.pending_read
          /\ dead.g_stdin_waiter = a.g_stdin_waiter /\ dead.rx = a.rx
          /\ dead.state = a.state
      BY <2>4 DEF Unlinked, Frame, Fields
    <3>2. QED
      BY <3>1, <2>3, OwedSame
  <2>6. Owed(kicked) /\ Typed(kicked)
    <3>1. CASE rh \notin Hart \ {h}
      BY <3>1, <2>4, <2>5
    <3>2. CASE rh \in Hart \ {h}
      <4>1. Kicked(kicked, dead)
        BY <3>2, <2>4, KickFields
      <4> HIDE DEF kicked
      <4>2. /\ kicked.ret = dead.ret /\ kicked.pending_read = dead.pending_read
            /\ kicked.g_stdin_waiter = dead.g_stdin_waiter /\ kicked.rx = dead.rx
            /\ kicked.state = dead.state
        BY <4>1 DEF Kicked, Frame, Fields
      <4>3. Typed(kicked)
        BY <4>1, <2>4 DEF Kicked, Frame, Fields, Typed
      <4>4. QED
        BY <4>2, <4>3, <2>5, OwedSame
    <3>3. QED
      BY <3>1, <3>2
  <2> HIDE DEF kicked, w
  <2>7. Owed(told) /\ Typed(told)
    <3>1. CASE w = NONE
      BY <3>1, <2>6
    <3>2. CASE w # NONE
      <4>1. w \in Tid
        BY <3>2, <1>1
      <4>2. /\ Owed(release_joiner(kicked, h, w, "killed"))
            /\ Typed(release_joiner(kicked, h, w, "killed"))
        BY <4>1, <2>6, <1>1, ReleaseOwed, ReleaseJoinerFields
      <4>3. QED
        BY <3>2, <4>2
    <3>3. QED
      BY <3>1, <3>2
  <2> HIDE DEF told
  <2>8. Recycled(gone, told, t)
    BY <2>7, RecycleFields
  <2> HIDE DEF gone
  <2>9. Owed(gone)
    BY <2>7, <2>8, RecycleOwed
  <2>10. QED
    BY <1>2, <1>4, <2>7, <2>9
<1>5. QED
  BY <1>3, <1>4

\* The three parts of sched_on_timer_irq: to a sleeper nothing is due.
LEMMA TimerOwed ==
  ASSUME NEW s, Typed(s), s.current[BootHart] \in User \cup {BootHart}, Owed(s)
  PROVE  /\ Owed(tick(s))
         /\ \A t \in Due(s) : Owed(wake_sleeper(s, t))
         /\ Owed(end_of_tick(s, BootHart))
<1>1. BootHart \in Hart
  BY BootAssumption
<1>2. Owed(tick(s))
  <2>1. /\ tick(s).state = s.state /\ tick(s).ret = s.ret /\ tick(s).rx = s.rx
        /\ tick(s).pending_read = s.pending_read
        /\ tick(s).g_stdin_waiter = s.g_stdin_waiter
    BY DEF tick, Typed, Fields
  <2>2. QED
    BY <2>1, OwedSame
<1>3. ASSUME NEW t \in Due(s) PROVE Owed(wake_sleeper(s, t))
  <2>3. t \in Tid /\ s.ret[t] # "due"
    BY DEF Due, Owed
  <2>4. wake_sleeper(s, t) = thread_make_runnable(s, BootHart, t, BootHart)
    BY DEF wake_sleeper
  <2>5. MadeRunnable(thread_make_runnable(s, BootHart, t, BootHart), s, t)
    BY <2>3, <1>1, MakeRunnableFields
  <2>6. QED
    BY <2>3, <2>4, <2>5, MakeRunnableOwed
<1>4. Owed(end_of_tick(s, BootHart))
  <2> DEFINE m == [s EXCEPT !.slice_left[BootHart] = @ - 1]
  <2>1. /\ m.state = s.state /\ m.ret = s.ret /\ m.rx = s.rx
        /\ m.pending_read = s.pending_read /\ m.g_stdin_waiter = s.g_stdin_waiter
    BY DEF Typed, Fields
  <2>2. Owed(m)
    BY <2>1, OwedSame
  <2>3. Owed(schedule(s, BootHart))
    BY <1>1, ScheduleOwed
  <2>4. QED
    BY <2>2, <2>3 DEF end_of_tick
<1>5. QED
  BY <1>2, <1>3, <1>4

\* sched_on_ipi_irq and the two steps in which a hart comes up.
LEMMA HartOwed ==
  ASSUME NEW s, Typed(s), NEW h \in Hart, Owed(s)
  PROVE  /\ s.current[h] \in User \cup {h} => Owed(sched_on_ipi_irq(s, h))
         /\ Owed(cpu_init_this_hart(s, h))
         /\ Owed(cpu_enter_idle(s, h))
<1>1. ASSUME s.current[h] \in User \cup {h} PROVE Owed(sched_on_ipi_irq(s, h))
  <2> DEFINE m == [s EXCEPT !.ipi[h] = FALSE]
  <2>1. Typed(m) /\ Frame(m, s, {"ipi"})
    BY AckFields
  <2>2. sched_on_ipi_irq(s, h) = schedule(m, h)
    BY DEF sched_on_ipi_irq
  <2> HIDE DEF m
  <2>6. /\ m.current = s.current /\ m.state = s.state /\ m.ret = s.ret
        /\ m.rx = s.rx /\ m.pending_read = s.pending_read
        /\ m.g_stdin_waiter = s.g_stdin_waiter
    BY <2>1 DEF Frame, Fields
  <2>7. Owed(m)
    BY <2>6, OwedSame
  <2>8. QED
    BY <2>1, <2>2, <2>6, <2>7, <1>1, ScheduleOwed
<1>2. Owed(cpu_init_this_hart(s, h))
  <2> DEFINE r == cpu_init_this_hart(s, h)
  <2>1. /\ r.state = s.state /\ r.ret = s.ret /\ r.rx = s.rx
        /\ r.pending_read = s.pending_read /\ r.g_stdin_waiter = s.g_stdin_waiter
    BY DEF cpu_init_this_hart, Typed, Fields
  <2>2. QED
    BY <2>1, OwedSame
<1>3. Owed(cpu_enter_idle(s, h))
  <2> DEFINE r == cpu_enter_idle(s, h)
  <2>1. /\ r.ret = s.ret /\ r.rx = s.rx /\ r.state = [s.state EXCEPT ![h] = "RUNNING"]
        /\ r.pending_read = s.pending_read /\ r.g_stdin_waiter = s.g_stdin_waiter
    BY DEF cpu_enter_idle, Typed, Fields
  <2> HIDE DEF r
  <2>2. \A u \in Tid : r.state[u] = IF u = h THEN "RUNNING" ELSE s.state[u]
    BY <2>1, Kinds DEF Typed
  <2>3. QED
    BY <2>1, <2>2, Kinds DEF Owed, r
<1>4. QED
  BY <1>1, <1>2, <1>3

\* The inductive invariant behind ResultsDelivered and ReaderNotStranded.
IOwed == IConsistent /\ IAttended /\ Owed(k)

\* Every step keeps it.
LEMMA OwedStep ==
  ASSUME NoRemoteKill, NoEmptyRead
  PROVE  IOwed /\ [Next]_vars => IOwed'
<1> SUFFICES ASSUME IOwed, [Next]_vars PROVE IOwed'
  OBVIOUS
<1> DEFINE Goal == Owed(k')
<1>1. Typed(k) /\ Owed(k) /\ Consistent(k) /\ BootHart \in Hart
  BY BootAssumption DEF IOwed, IConsistent, ITyped
<1>2. \A h \in Hart : k.current[h] # NONE => k.current[h] \in User \cup {h}
  BY DEF IOwed, IAttended, Attended, Grounded
<1>3. \A h \in Hart : k.current[h] \in User => k.state[k.current[h]] = "RUNNING"
  BY <1>1, Kinds, TakeTrap DEF Consistent
<1>4. ASSUME NEW h \in Hart, HartOnline(h) \/ EnterIdle(h) PROVE Goal
  BY <1>1, <1>4, HartOwed DEF HartOnline, EnterIdle
<1>5. ASSUME NEW h \in Hart, IpiIrq(h) PROVE Goal
  BY <1>1, <1>2, <1>5, HartOwed DEF IpiIrq, CanTrap
<1>6. ASSUME TimerIrq \/ WakeSleeper \/ TimerDone PROVE Goal
  <2>1. k.current[BootHart] \in User \cup {BootHart}
    BY <1>1, <1>2, <1>6
       DEF TimerIrq, WakeSleeper, TimerDone, CanTrap, IOwed, IConsistent, ITyped
  <2>2. QED
    BY <1>1, <1>6, <2>1, TimerOwed, WakesOne DEF TimerIrq, TimerDone, IOwed, IConsistent, ITyped
<1>7. ASSUME UartIrq PROVE Goal
  BY <1>1, <1>7, UartOwed DEF UartIrq, Consistent
<1>8. ASSUME NEW h \in Hart, Sleep(h) \/ Yield(h) PROVE Goal
  <2>1. PICK n \in Nat : k' = thread_sys_sleep(k, h, n)
    BY <1>8, ArgumentsAssumption DEF Sleep, Yield, thread_sys_yield
  <2>2. k.current[h] \in User
    BY <1>8 DEF Sleep, Yield, Ecall
  <2>3. QED
    BY <1>1, <1>3, <2>1, <2>2, SleepOwed
<1>9. ASSUME NEW h \in Hart, Create(h) PROVE Goal
  BY <1>1, <1>9, CreateOwed DEF Create
<1>10. ASSUME NEW h \in Hart, Exit(h) \/ Fault(h) PROVE Goal
  <2>1. PICK c \in Codes : k' = thread_sys_exit(k, h, c)
    BY <1>10 DEF Exit, Fault, Codes
  <2>2. k.current[h] \in User
    BY <1>10 DEF Exit, Fault, Ecall
  <2>3. QED
    BY <1>1, <2>1, <2>2, ExitOwed
<1>11. ASSUME NEW h \in Hart, Join(h) PROVE Goal
  BY <1>1, <1>3, <1>11, JoinOwed DEF Join, Ecall
<1>12. ASSUME NEW h \in Hart, Kill(h) PROVE Goal
  BY <1>1, <1>12, KillOwed DEF Kill
<1>13. ASSUME NEW h \in Hart, Detach(h) PROVE Goal
  BY <1>1, <1>13, DetachOwed DEF Detach
<1>14. ASSUME NEW h \in Hart, Read(h) PROVE Goal
  <2>1. PICK n \in Nat \ {0} : k' = sys_read(k, h, n)
    BY <1>14, ArgumentsAssumption DEF Read, NoEmptyRead
  <2>2. k.current[h] \in User \cap Readers
    BY <1>14 DEF Read, Ecall
  <2>3. QED
    BY <1>1, <1>3, <2>1, <2>2, ReadOwed
<1>15. ASSUME UNCHANGED vars PROVE Goal
  BY <1>1, <1>15 DEF vars
<1>16. Goal
  BY <1>4, <1>5, <1>6, <1>7, <1>8, <1>9, <1>10, <1>11, <1>12, <1>13, <1>14,
     <1>15 DEF Next
<1>17. IAttended'
  BY AttendedStep DEF IOwed
<1>18. ITyped' /\ Consistent(k')
  BY NextStep DEF IOwed, IConsistent
<1>19. QED
  BY <1>16, <1>17, <1>18 DEF IOwed, IConsistent

\* In the first state nothing is due and nobody is BLOCKED.
LEMMA InitOwed == Init => IOwed
<1> SUFFICES ASSUME Init PROVE IOwed
  OBVIOUS
<1>1. ITyped /\ Consistent(k)
  BY InitInvariant
<1>2. Attended(k, {BootHart})
  BY InitAttended DEF Init
<1>3. /\ k.state = [t \in Tid |-> IF t <= MAX_HARTS THEN "RUNNABLE" ELSE "UNUSED"]
      /\ k.ret = [t \in Tid |-> "none"]
  BY DEF Init, threads_init
<1>4. Owed(k)
  BY <1>3 DEF Owed
<1>5. QED
  BY <1>1, <1>2, <1>4 DEF IOwed, IConsistent, IAttended

\* It always holds.
LEMMA OwedAlways ==
  ASSUME NoRemoteKill, NoEmptyRead
  PROVE  Spec => []IOwed
<1>1. IOwed /\ [Next]_vars => IOwed'
  BY OwedStep
<1>2. QED
  BY <1>1, InitOwed, PTL DEF Spec

\* ResultsDelivered for any number of harts, threads and readers, if no read
\* asks for 0 characters and no thread is killed while another hart runs it:
\* every path that makes a thread runnable again, thread_wake by the console
\* and release_joiner by an exit or a kill, has written its result before.
THEOREM ResultsWritten ==
  ASSUME NoRemoteKill, NoEmptyRead
  PROVE  Spec => []ResultsDelivered
<1>1. IOwed => ResultsDelivered
  BY DEF IOwed, Owed, ResultsDelivered
<1>2. QED
  BY <1>1, OwedAlways, PTL

\* ReaderNotStranded under the same conditions and with one reader: sys_read
\* blocks only if the ring is empty, registers its caller, and each character
\* that comes in wakes the registered reader, so none is left in the ring
\* under a BLOCKED reader.
THEOREM ReaderServed ==
  ASSUME NoRemoteKill, NoEmptyRead, OneReader
  PROVE  Spec => []ReaderNotStranded
<1>1. IOwed => ReaderNotStranded
  BY DEF IOwed, Owed, ReaderNotStranded
<1>2. QED
  BY <1>1, OwedAlways, PTL

----------------------------------------------------------------------------
(* Joins.                                                                  *)

\* JoinsConsistent of a kernel record, and idle threads never wait.
Joined(s) ==
  /\ \A w \in Tid : s.state[w] = "WAITING" <=> s.waiting_for[w] # NONE
  /\ \A w, t \in Tid : s.waiting_for[w] = t <=> s.join_waiter[t] = w
  /\ \A t \in Tid : s.join_waiter[t] # NONE =>
       s.state[t] \notin {"UNUSED", "ZOMBIE"} /\ ~s.detached[t]
  /\ \A g \in Hart : s.state[g] \in {"RUNNABLE", "RUNNING"}

\* A change of the states of threads that neither wait nor have a joiner
\* that would miss their death.
LEMMA JoinedSame ==
  ASSUME NEW s, Joined(s), NEW m,
         m.join_waiter = s.join_waiter, m.waiting_for = s.waiting_for,
         \A t \in Tid : m.detached[t] => s.detached[t] \/ s.join_waiter[t] = NONE,
         \A t \in Tid : m.state[t] # s.state[t] =>
           /\ s.state[t] # "WAITING" /\ m.state[t] # "WAITING"
           /\ m.state[t] \notin {"UNUSED", "ZOMBIE"} \/ s.join_waiter[t] = NONE,
         \A g \in Hart : m.state[g] \in {"RUNNABLE", "RUNNING"}
  PROVE  Joined(m)
<1>1. \A w \in Tid : m.state[w] = "WAITING" <=> s.state[w] = "WAITING"
  OBVIOUS
<1>2. \A t \in Tid : m.state[t] \in {"UNUSED", "ZOMBIE"} =>
        s.state[t] \in {"UNUSED", "ZOMBIE"} \/ s.join_waiter[t] = NONE
  OBVIOUS
<1>3. QED
  BY <1>1, <1>2 DEF Joined

\* schedule frees the slot of a dead thread only if nobody joins it.
LEMMA ScheduleJoined ==
  ASSUME NEW s, Typed(s), NEW h \in Hart, s.current[h] \in User \cup {h}, Joined(s)
  PROVE  Joined(schedule(s, h))
<1> DEFINE r == schedule(s, h)
           cur == s.current[h]
           next == r.current[h]
<1>1. cur # NONE /\ h \notin User /\ cur \in Tid
  BY Kinds
<1>2. Typed(r) /\ Scheduled(r, s, h)
  BY <1>1, ScheduleAll
<1> HIDE DEF r
<1>3. /\ next \in Tid
      /\ next = h \/ (IF next = cur THEN StateOff(s, h) = "RUNNABLE"
                      ELSE s.state[next] = "RUNNABLE")
  BY <1>2 DEF Scheduled
<1>4. ASSUME NEW t \in Tid
      PROVE  /\ r.state[t] = IF t = next THEN "RUNNING"
                             ELSE IF t = cur THEN StateOff(s, h) ELSE s.state[t]
             /\ r.join_waiter[t] = IF t = cur /\ Frees(s, h) THEN NONE
                                   ELSE s.join_waiter[t]
             /\ r.waiting_for[t] = IF t = cur /\ Frees(s, h) THEN NONE
                                   ELSE s.waiting_for[t]
             /\ r.detached[t] = (s.detached[t] /\ ~(t = cur /\ Frees(s, h)))
  BY <1>2 DEF Scheduled
<1>5. Frees(s, h) => /\ s.state[cur] = "ZOMBIE"
                     /\ s.join_waiter[cur] = NONE /\ s.waiting_for[cur] = NONE
  BY <1>1 DEF Frees, Joined
<1>6. s.state[h] \in {"RUNNABLE", "RUNNING"}
  BY DEF Joined
<1>7. \A t \in Tid : /\ r.join_waiter[t] = s.join_waiter[t]
                     /\ r.waiting_for[t] = s.waiting_for[t]
                     /\ r.detached[t] => s.detached[t]
  BY <1>4, <1>5
<1>8. ASSUME NEW t \in Tid
      PROVE  /\ r.state[t] = "WAITING" <=> s.state[t] = "WAITING"
             /\ r.state[t] \in {"UNUSED", "ZOMBIE"} =>
                  s.state[t] \in {"UNUSED", "ZOMBIE"}
  <2>1. CASE t = next
    BY <2>1, <1>3, <1>4, <1>6 DEF StateOff
  <2>2. CASE t # next /\ t = cur
    BY <2>2, <1>4, <1>5, <1>6 DEF StateOff
  <2>3. CASE t # next /\ t # cur
    BY <2>3, <1>4
  <2>4. QED
    BY <2>1, <2>2, <2>3
<1>9. ASSUME NEW g \in Hart PROVE r.state[g] \in {"RUNNABLE", "RUNNING"}
  <2>1. g \in Tid /\ (g = cur => g = h)
    BY Kinds
  <2>2. s.state[g] \in {"RUNNABLE", "RUNNING"}
    BY DEF Joined
  <2>3. QED
    BY <2>1, <2>2, <1>4 DEF StateOff
<1>10. QED
  BY <1>7, <1>8, <1>9 DEF Joined, r

\* thread_make_runnable of a thread that does not wait.
LEMMA MakeRunnableJoined ==
  ASSUME NEW s, Typed(s), NEW t \in Tid, Joined(s), s.state[t] # "WAITING",
         NEW r, MadeRunnable(r, s, t)
  PROVE  Joined(r)
<1>1. CASE r = s
  BY <1>1
<1>2. CASE r # s
  <2>1. /\ t \in User
        /\ Frame(r, s, {"rq", "state", "wakeup_tick", "ipi"})
        /\ r.state = [s.state EXCEPT ![t] = "RUNNABLE"]
    BY <1>2, Zenon DEF MadeRunnable
  <2>2. /\ r.join_waiter = s.join_waiter /\ r.waiting_for = s.waiting_for
        /\ r.detached = s.detached
    BY <2>1 DEF Frame, Fields
  <2>3. \A u \in Tid : r.state[u] = IF u = t THEN "RUNNABLE" ELSE s.state[u]
    BY <2>1 DEF Typed
  <2>4. \A g \in Hart : r.state[g] \in {"RUNNABLE", "RUNNING"}
    BY <2>1, <2>3, Kinds DEF Joined
  <2>5. QED
    BY <2>2, <2>3, <2>4, JoinedSame
<1>3. QED
  BY <1>1, <1>2

\* recycle_thread of a dead thread.
LEMMA RecycleJoined ==
  ASSUME NEW s, Typed(s), NEW t \in Tid, Joined(s), s.state[t] = "ZOMBIE",
         NEW r, Recycled(r, s, t)
  PROVE  Joined(r)
<1>1. /\ r.state = [s.state EXCEPT ![t] = "UNUSED"]
      /\ r.join_waiter = [s.join_waiter EXCEPT ![t] = NONE]
      /\ r.waiting_for = [s.waiting_for EXCEPT ![t] = NONE]
      /\ r.detached = [s.detached EXCEPT ![t] = FALSE]
  BY DEF Recycled, Frame, Fields
<1>2. s.join_waiter[t] = NONE /\ s.waiting_for[t] = NONE
  BY DEF Joined
<1>3. /\ \A u \in Tid : r.state[u] = IF u = t THEN "UNUSED" ELSE s.state[u]
      /\ r.join_waiter = s.join_waiter /\ r.waiting_for = s.waiting_for
  <2>1. \A u \in Tid : r.state[u] = IF u = t THEN "UNUSED" ELSE s.state[u]
    BY <1>1 DEF Typed
  <2>2. /\ s.join_waiter \in [Tid -> Tid \cup {NONE}]
        /\ s.waiting_for \in [Tid -> Tid \cup {NONE}]
    BY DEF Typed
  <2>3. r.join_waiter = s.join_waiter
    BY <2>2, <1>1, <1>2
  <2>4. r.waiting_for = s.waiting_for
    BY <2>2, <1>1, <1>2
  <2>5. QED
    BY <2>1, <2>3, <2>4
<1>4. s.detached \in [Tid -> BOOLEAN]
  BY DEF Typed
<1>5. \A u \in Tid : r.detached[u] => s.detached[u]
  BY <1>1, <1>4
<1>6. \A g \in Hart : g # t /\ g \in Tid
  BY Kinds DEF Joined
<1>7. \A g \in Hart : r.state[g] \in {"RUNNABLE", "RUNNING"}
  BY <1>3, <1>6 DEF Joined
<1>8. QED
  BY <1>2, <1>3, <1>5, <1>7, JoinedSame

\* thread_sys_sleep and thread_sys_yield.
LEMMA SleepJoined ==
  ASSUME NEW s, Typed(s), NEW h \in Hart, s.current[h] \in User, NEW n \in Nat,
         s.state[s.current[h]] = "RUNNING", Joined(s)
  PROVE  Joined(thread_sys_sleep(s, h, n))
<1> DEFINE cur == s.current[h]
           m == [s EXCEPT !.state[cur] = "SLEEPING", !.wakeup_tick[cur] = n]
<1>1. cur \in Tid
  BY Kinds
<1>2. CASE n = 0
  BY <1>2, ScheduleJoined DEF thread_sys_sleep
<1>3. CASE n # 0
  <2>1. /\ Typed(m) /\ Frame(m, s, {"state", "wakeup_tick"})
        /\ \A u \in Tid : m.state[u] = IF u = cur THEN "SLEEPING" ELSE s.state[u]
    BY <1>1, SleepFields
  <2>2. thread_sys_sleep(s, h, n) = schedule(m, h)
    BY <1>3 DEF thread_sys_sleep
  <2> HIDE DEF m
  <2>3. /\ m.current = s.current /\ m.join_waiter = s.join_waiter
        /\ m.waiting_for = s.waiting_for /\ m.detached = s.detached
    BY <2>1 DEF Frame, Fields
  <2>4. \A g \in Hart : m.state[g] \in {"RUNNABLE", "RUNNING"}
    BY <2>1, Kinds DEF Joined
  <2>5. Joined(m)
    BY <2>1, <2>3, <2>4, <1>1, JoinedSame
  <2>6. QED
    BY <2>1, <2>2, <2>3, <2>5, ScheduleJoined
<1>4. QED
  BY <1>2, <1>3

\* thread_sys_create: a free slot has no joiner and waits for nobody.
LEMMA CreateJoined ==
  ASSUME NEW s, Typed(s), NEW h \in Hart, Joined(s)
  PROVE  Joined(thread_sys_create(s, h))
<1> DEFINE t == Min(FreeSlots(s))
           m == [s EXCEPT !.state[t] = "RUNNABLE", !.wakeup_tick[t] = 0,
                          !.detached[t] = FALSE, !.ret[t] = "none"]
<1>1. CASE FreeSlots(s) = {}
  BY <1>1 DEF thread_sys_create
<1>2. CASE FreeSlots(s) # {}
  <2>1. t \in Tid /\ s.state[t] = "UNUSED"
    <3>1. FreeSlots(s) \subseteq Nat
      BY DEF FreeSlots, Tid
    <3>2. t \in FreeSlots(s)
      BY <1>2, <3>1, MinOfNats
    <3>3. QED
      BY <3>2 DEF FreeSlots
  <2>2. thread_sys_create(s, h) = thread_make_runnable(m, h, t, h)
    BY <1>2 DEF thread_sys_create
  <2> HIDE DEF t
  <2>3. /\ Typed(m) /\ Frame(m, s, {"state", "wakeup_tick", "detached", "ret"})
        /\ \A u \in Tid :
             /\ m.state[u] = IF u = t THEN "RUNNABLE" ELSE s.state[u]
             /\ m.detached[u] = IF u = t THEN FALSE ELSE s.detached[u]
    BY <2>1, CreateFields
  <2> HIDE DEF m
  <2>4. m.join_waiter = s.join_waiter /\ m.waiting_for = s.waiting_for
    BY <2>3 DEF Frame, Fields
  <2>5. \A u \in Tid : m.detached[u] => s.detached[u]
    BY <2>3
  <2>6. \A g \in Hart : m.state[g] \in {"RUNNABLE", "RUNNING"}
    BY <2>3, Kinds DEF Joined
  <2>7. Joined(m) /\ m.state[t] # "WAITING"
    BY <2>1, <2>3, <2>4, <2>5, <2>6, JoinedSame
  <2>8. MadeRunnable(thread_make_runnable(m, h, t, h), m, t)
    BY <2>1, <2>3, MakeRunnableFields
  <2>9. QED
    BY <2>1, <2>2, <2>3, <2>7, <2>8, MakeRunnableJoined
<1>3. QED
  BY <1>1, <1>2

\* thread_sys_exit before it calls schedule.  If the dying thread c has a
\* joiner, the joiner is RUNNABLE again and the slot of c is free; otherwise c
\* is a ZOMBIE.
Exiting(m, s, c) ==
  LET w == s.join_waiter[c]
  IN  /\ m.current = s.current
      /\ \A u \in Tid :
           /\ m.state[u] = IF u = c THEN IF w = NONE THEN "ZOMBIE" ELSE "UNUSED"
                           ELSE IF u = w THEN "RUNNABLE" ELSE s.state[u]
           /\ m.waiting_for[u] = IF w # NONE /\ u \in {c, w} THEN NONE
                                 ELSE s.waiting_for[u]
           /\ m.join_waiter[u] = IF u = c THEN NONE ELSE s.join_waiter[u]
           /\ m.detached[u] = IF w # NONE /\ u = c THEN FALSE ELSE s.detached[u]

\* The joiner really is woken: it is WAITING, hence a user thread on no queue.
LEMMA ExitFields ==
  ASSUME NEW s, Typed(s), NEW h \in Hart, s.current[h] \in User,
         s.state[s.current[h]] = "RUNNING", NEW code \in Codes,
         Queued(s), Joined(s)
  PROVE  \E m : /\ thread_sys_exit(s, h, code) = schedule(m, h)
                /\ Typed(m) /\ Exiting(m, s, s.current[h])
<1> DEFINE cur == s.current[h]
           w == s.join_waiter[cur]
           dead == [s EXCEPT !.state[cur] = "ZOMBIE", !.exit_code[cur] = code]
           told == release_joiner(dead, h, w, code)
           gone == recycle_thread(told, cur)
<1>1. cur \in Tid /\ cur \in User /\ w \in Tid \cup {NONE}
  BY Kinds DEF Typed
<1>2. thread_sys_exit(s, h, code) =
        IF w # NONE THEN schedule(gone, h) ELSE schedule(dead, h)
  BY DEF thread_sys_exit
<1>3. /\ Typed(dead) /\ Frame(dead, s, {"state", "exit_code"})
      /\ \A u \in Tid : dead.state[u] = IF u = cur THEN "ZOMBIE" ELSE s.state[u]
  BY <1>1, DeadFields
<1> HIDE DEF dead
<1>4. /\ dead.current = s.current /\ dead.waiting_for = s.waiting_for
      /\ dead.join_waiter = s.join_waiter /\ dead.detached = s.detached
      /\ dead.rq = s.rq
  BY <1>3 DEF Frame, Fields
<1>5. CASE w = NONE
  <2>1. \A u \in Tid : u # w
    BY <1>5, Kinds
  <2>2. \A u \in Tid : u = cur => s.join_waiter[u] = NONE
    BY <1>5
  <2>3. Exiting(dead, s, cur)
    BY <2>1, <2>2, <1>3, <1>4, <1>5 DEF Exiting
  <2>4. QED
    BY <2>3, <1>2, <1>3, <1>5
<1>6. CASE w # NONE
  <2>1. w \in Tid /\ s.state[w] = "WAITING" /\ w # cur /\ w \in User
    <3>1. w \in Tid
      BY <1>1, <1>6
    <3>2. s.state[w] = "WAITING"
      BY <3>1, <1>1, <1>6, Kinds DEF Joined
    <3>3. w \notin Hart
      BY <3>2 DEF Joined
    <3>4. w \in User
      BY <3>1, <3>3, HartsAssumption, ThreadsAssumption DEF Hart, Tid, User
    <3>5. QED
      BY <3>1, <3>2, <3>4
  <2> HIDE DEF w, cur
  <2>2. PICK m : /\ told = thread_make_runnable(m, h, w, h)
                 /\ Typed(m) /\ Frame(m, dead, {"ret", "waiting_for"})
                 /\ \A u \in Tid : m.waiting_for[u] = IF u = w THEN NONE
                                                      ELSE dead.waiting_for[u]
    <3>1. \E m : /\ release_joiner(dead, h, w, code) = thread_make_runnable(m, h, w, h)
                 /\ Typed(m) /\ Frame(m, dead, {"ret", "waiting_for"})
                 /\ \A u \in Tid :
                      /\ m.ret[u] = IF u = w /\ dead.state[w] # "RUNNING" THEN code
                                    ELSE dead.ret[u]
                      /\ m.waiting_for[u] = IF u = w THEN NONE ELSE dead.waiting_for[u]
      BY <2>1, <1>3, ReleaseFields
    <3>2. QED
      BY <3>1
  <2>3. MadeRunnable(told, m, w)
    BY <2>1, <2>2, MakeRunnableFields
  <2> HIDE DEF told
  <2>4. /\ m.state = dead.state /\ m.rq = s.rq /\ m.current = s.current
        /\ m.join_waiter = s.join_waiter /\ m.detached = s.detached
    BY <2>2, <1>4 DEF Frame, Fields
  <2>5. m.state[w] = "WAITING" /\ ~on_rq(m, w)
    <3>1. m.state[w] = "WAITING"
      BY <2>1, <2>4, <1>3
    <3>2. ~on_rq(s, w)
      BY <2>1 DEF Queued
    <3>3. QED
      BY <3>1, <3>2, <2>4 DEF on_rq
  <2>6. /\ Frame(told, m, {"rq", "state", "wakeup_tick", "ipi"})
        /\ told.state = [m.state EXCEPT ![w] = "RUNNABLE"]
    <3>1. m.state[w] # "RUNNING" /\ w \in User /\ ~on_rq(m, w)
      BY <2>1, <2>5
    <3>2. QED
      BY <2>3, <3>1, Zenon DEF MadeRunnable
  <2>7. /\ told.current = s.current /\ told.join_waiter = s.join_waiter
        /\ told.detached = s.detached /\ told.waiting_for = m.waiting_for
    BY <2>4, <2>6 DEF Frame, Fields
  <2>8. Typed(told)
    BY <2>1, <2>2, <2>3, MakeRunnableTyped
  <2>9. \A u \in Tid : told.state[u] = IF u = cur THEN "ZOMBIE"
                                       ELSE IF u = w THEN "RUNNABLE" ELSE s.state[u]
    <3>1. m.state \in [Tid -> States]
      BY <2>2 DEF Typed
    <3>2. \A u \in Tid : told.state[u] = IF u = w THEN "RUNNABLE" ELSE m.state[u]
      BY <3>1, <2>6
    <3>3. QED
      BY <3>2, <2>1, <2>4, <1>3
  <2>10. Recycled(gone, told, cur)
    BY <2>8, <1>1, RecycleFields
  <2> HIDE DEF gone
  <2>11. Typed(gone)
    BY <2>8, <2>10, <1>1, RecycleTyped
  <2>12. /\ gone.current = told.current
         /\ gone.state = [told.state EXCEPT ![cur] = "UNUSED"]
         /\ gone.join_waiter = [told.join_waiter EXCEPT ![cur] = NONE]
         /\ gone.waiting_for = [told.waiting_for EXCEPT ![cur] = NONE]
         /\ gone.detached = [told.detached EXCEPT ![cur] = FALSE]
    BY <2>10 DEF Recycled, Frame, Fields
  <2>13. ASSUME NEW u \in Tid
         PROVE  /\ gone.state[u] = IF u = cur THEN "UNUSED" ELSE told.state[u]
                /\ gone.join_waiter[u] = IF u = cur THEN NONE ELSE s.join_waiter[u]
                /\ gone.waiting_for[u] = IF u = cur THEN NONE ELSE m.waiting_for[u]
    <3>1. /\ told.state \in [Tid -> States]
          /\ told.join_waiter \in [Tid -> Tid \cup {NONE}]
          /\ told.waiting_for \in [Tid -> Tid \cup {NONE}]
      BY <2>8 DEF Typed
    <3>2. gone.state[u] = IF u = cur THEN "UNUSED" ELSE told.state[u]
      BY <3>1, <2>12
    <3>3. gone.join_waiter[u] = IF u = cur THEN NONE ELSE told.join_waiter[u]
      BY <3>1, <2>12
    <3>4. gone.waiting_for[u] = IF u = cur THEN NONE ELSE told.waiting_for[u]
      BY <3>1, <2>12
    <3>5. QED
      BY <3>2, <3>3, <3>4, <2>7
  <2>14. ASSUME NEW u \in Tid
         PROVE  gone.detached[u] = IF u = cur THEN FALSE ELSE s.detached[u]
    <3>1. s.detached \in [Tid -> BOOLEAN]
      BY DEF Typed
    <3>2. QED
      BY <3>1, <2>7, <2>12, Zenon
  <2>15. ASSUME NEW u \in Tid
         PROVE  /\ gone.state[u] = IF u = cur THEN "UNUSED"
                                   ELSE IF u = w THEN "RUNNABLE" ELSE s.state[u]
                /\ gone.waiting_for[u] = IF u \in {cur, w} THEN NONE
                                         ELSE s.waiting_for[u]
    BY <2>2, <2>9, <2>13, <1>4
  <2>16. gone.current = s.current
    BY <2>7, <2>12
  <2>17. Exiting(gone, s, cur)
    <3>1. w = s.join_waiter[cur] /\ w # NONE
      BY <1>6 DEF w
    <3>2. QED
      BY <3>1, <2>13, <2>14, <2>15, <2>16 DEF Exiting
  <2>18. QED
    BY <2>11, <2>17, <1>2, <1>6 DEF cur
<1>7. QED
  BY <1>5, <1>6

\* thread_sys_exit.
LEMMA ExitJoined ==
  ASSUME NEW s, Typed(s), NEW h \in Hart, s.current[h] \in User,
         s.state[s.current[h]] = "RUNNING", NEW code \in Codes,
         Queued(s), Joined(s)
  PROVE  Joined(thread_sys_exit(s, h, code))
<1> DEFINE cur == s.current[h]
           w == s.join_waiter[cur]
<1>1. PICK m : /\ thread_sys_exit(s, h, code) = schedule(m, h)
               /\ Typed(m) /\ Exiting(m, s, cur)
  BY ExitFields
<1>2. cur \in Tid /\ cur \in User /\ w \in Tid \cup {NONE}
  BY Kinds DEF Typed
<1>3. \A t \in Tid : t # NONE
  BY Kinds
<1>4. ASSUME NEW u \in Tid
      PROVE  /\ m.state[u] = IF u = cur THEN IF w = NONE THEN "ZOMBIE" ELSE "UNUSED"
                             ELSE IF u = w THEN "RUNNABLE" ELSE s.state[u]
             /\ m.waiting_for[u] = IF w # NONE /\ u \in {cur, w} THEN NONE
                                   ELSE s.waiting_for[u]
             /\ m.join_waiter[u] = IF u = cur THEN NONE ELSE s.join_waiter[u]
             /\ m.detached[u] = IF w # NONE /\ u = cur THEN FALSE ELSE s.detached[u]
  BY <1>1 DEF Exiting
<1>5. s.waiting_for[cur] = NONE
  BY <1>2 DEF Joined
<1>6. w # NONE => w # cur /\ s.waiting_for[w] = cur
  BY <1>2, <1>3, <1>5 DEF Joined
<1> HIDE DEF cur, w
<1>7. \A u \in Tid : m.waiting_for[u] = IF u = w THEN NONE ELSE s.waiting_for[u]
  BY <1>3, <1>4, <1>5
<1>8. \A u \in Tid : m.state[u] = "WAITING" <=> m.waiting_for[u] # NONE
  <2>1. \A u \in Tid : s.state[u] = "WAITING" <=> s.waiting_for[u] # NONE
    BY DEF Joined
  <2>2. QED
    BY <2>1, <1>4, <1>5, <1>7
<1>9. ASSUME NEW v \in Tid, NEW t \in Tid
      PROVE  m.waiting_for[v] = t <=> m.join_waiter[t] = v
  <2>1. s.waiting_for[v] = t <=> s.join_waiter[t] = v
    BY DEF Joined
  <2>2. s.join_waiter[cur] = w
    BY DEF w, cur
  <2>3. CASE t = cur
    <3>1. m.join_waiter[t] = NONE
      BY <2>3, <1>4
    <3>2. m.waiting_for[v] # t
      BY <2>1, <2>2, <2>3, <1>3, <1>7
    <3>3. QED
      BY <3>1, <3>2, <1>3
  <2>4. CASE t # cur
    <3>1. m.join_waiter[t] = s.join_waiter[t]
      BY <2>4, <1>4
    <3>2. v = w => s.join_waiter[t] # v
      BY <2>1, <2>4, <1>3, <1>6
    <3>3. QED
      BY <3>1, <3>2, <2>1, <1>3, <1>7
  <2>5. QED
    BY <2>3, <2>4
<1>10. ASSUME NEW t \in Tid, m.join_waiter[t] # NONE
       PROVE  m.state[t] \notin {"UNUSED", "ZOMBIE"} /\ ~m.detached[t]
  <2>1. t # cur /\ s.join_waiter[t] # NONE
    BY <1>4, <1>10
  <2>2. s.state[t] \notin {"UNUSED", "ZOMBIE"} /\ ~s.detached[t]
    BY <2>1 DEF Joined
  <2>3. QED
    BY <2>1, <2>2, <1>4
<1>11. ASSUME NEW g \in Hart PROVE m.state[g] \in {"RUNNABLE", "RUNNING"}
  <2>1. g \in Tid /\ g # cur /\ s.state[g] \in {"RUNNABLE", "RUNNING"}
    BY <1>2, Kinds DEF Joined
  <2>2. QED
    BY <2>1, <1>4
<1>12. Joined(m)
  BY <1>8, <1>9, <1>10, <1>11 DEF Joined
<1>13. m.current[h] \in User \cup {h}
  BY <1>1 DEF Exiting
<1>14. QED
  BY <1>1, <1>12, <1>13, ScheduleJoined

\* thread_sys_join: whoever gets as far as waiting is the only joiner of a
\* thread that lives and is not detached.
LEMMA JoinJoined ==
  ASSUME NEW s, Typed(s), NEW h \in Hart, s.current[h] \in User, NEW t \in Tid,
         s.state[s.current[h]] = "RUNNING", Joined(s)
  PROVE  Joined(thread_sys_join(s, h, t))
<1> DEFINE cur == s.current[h]
           gone == recycle_thread(s, t)
           m == [s EXCEPT !.state[cur] = "WAITING", !.waiting_for[cur] = t,
                          !.ret[cur] = "due", !.join_waiter[t] = cur]
<1>1. cur \in Tid /\ cur \in User
  BY Kinds
<1>2. thread_sys_join(s, h, t) =
        IF join_refused(s, h, t) THEN s
        ELSE IF s.state[t] = "ZOMBIE" THEN gone ELSE schedule(m, h)
  BY DEF thread_sys_join
<1>3. ASSUME s.state[t] = "ZOMBIE" PROVE Joined(gone)
  <2>1. Recycled(gone, s, t)
    BY RecycleFields
  <2> HIDE DEF gone
  <2>2. QED
    BY <2>1, <1>3, RecycleJoined
<1>4. ASSUME ~join_refused(s, h, t), s.state[t] # "ZOMBIE"
      PROVE  Joined(schedule(m, h))
  <2>1. m = [s EXCEPT !.state[cur] = "WAITING", !.waiting_for[cur] = t,
                      !.ret[cur] = "due", !.join_waiter[t] = cur]
    OBVIOUS
  <2> HIDE DEF m
  <2>2. Typed(m) /\ Joining(m, s, cur, t)
    BY <2>1, <1>1, JoinFields
  <2>3. /\ m.current = s.current /\ m.detached = s.detached
        /\ \A u \in Tid :
             /\ m.state[u] = IF u = cur THEN "WAITING" ELSE s.state[u]
             /\ m.waiting_for[u] = IF u = cur THEN t ELSE s.waiting_for[u]
             /\ m.join_waiter[u] = IF u = t THEN cur ELSE s.join_waiter[u]
    BY <2>2 DEF Joining, Frame, Fields
  <2>4. /\ t # cur /\ s.state[t] # "UNUSED" /\ ~s.detached[t]
        /\ s.join_waiter[t] \in {NONE, cur}
    BY <1>4 DEF join_refused
  <2>5. \A u \in Tid : u # NONE
    BY Kinds
  <2>6. s.waiting_for[cur] = NONE
    BY <1>1 DEF Joined
  <2>7. s.join_waiter[t] = NONE
    BY <2>4, <2>5, <2>6, <1>1 DEF Joined
  <2> HIDE DEF cur
  <2>8. \A u \in Tid : m.state[u] = "WAITING" <=> m.waiting_for[u] # NONE
    <3>1. \A u \in Tid : s.state[u] = "WAITING" <=> s.waiting_for[u] # NONE
      BY DEF Joined
    <3>2. QED
      BY <3>1, <2>3, <2>5
  <2>9. ASSUME NEW v \in Tid, NEW u \in Tid
        PROVE  m.waiting_for[v] = u <=> m.join_waiter[u] = v
    <3>1. s.waiting_for[v] = u <=> s.join_waiter[u] = v
      BY DEF Joined
    <3>2. QED
      BY <3>1, <2>3, <2>5, <2>6, <2>7
  <2>10. ASSUME NEW u \in Tid, m.join_waiter[u] # NONE
         PROVE  m.state[u] \notin {"UNUSED", "ZOMBIE"} /\ ~m.detached[u]
    <3>1. u # t => s.state[u] \notin {"UNUSED", "ZOMBIE"} /\ ~s.detached[u]
      BY <2>3, <2>10 DEF Joined
    <3>2. QED
      BY <3>1, <2>3, <2>4, <1>4
  <2>11. \A g \in Hart : m.state[g] \in {"RUNNABLE", "RUNNING"}
    BY <2>3, <1>1, Kinds DEF Joined
  <2>12. Joined(m)
    BY <2>8, <2>9, <2>10, <2>11 DEF Joined
  <2>13. m.current[h] \in User \cup {h}
    BY <2>3
  <2>14. QED
    BY <2>2, <2>12, <2>13, ScheduleJoined
<1>5. QED
  BY <1>2, <1>3, <1>4

\* thread_sys_detach: a thread that has a joiner is not detached.
LEMMA DetachJoined ==
  ASSUME NEW s, Typed(s), NEW h \in Hart, NEW t \in Tid, Joined(s)
  PROVE  Joined(thread_sys_detach(s, h, t))
<1> DEFINE gone == recycle_thread(s, t)
           m == [s EXCEPT !.detached[t] = TRUE]
<1>1. thread_sys_detach(s, h, t) =
        IF detach_refused(s, t) \/ s.detached[t] THEN s
        ELSE IF s.state[t] = "ZOMBIE" THEN gone ELSE m
  BY DEF thread_sys_detach
<1>2. ASSUME s.state[t] = "ZOMBIE" PROVE Joined(gone)
  <2>1. Recycled(gone, s, t)
    BY RecycleFields
  <2> HIDE DEF gone
  <2>2. QED
    BY <2>1, <1>2, RecycleJoined
<1>3. ASSUME ~detach_refused(s, t) PROVE Joined(m)
  <2>1. /\ m.state = s.state /\ m.join_waiter = s.join_waiter
        /\ m.waiting_for = s.waiting_for
        /\ m.detached = [s.detached EXCEPT ![t] = TRUE]
    BY DEF Typed, Fields
  <2> HIDE DEF m
  <2>2. s.detached \in [Tid -> BOOLEAN]
    BY DEF Typed
  <2>3. s.join_waiter[t] = NONE
    BY <1>3 DEF detach_refused
  <2>4. \A u \in Tid : m.detached[u] => s.detached[u] \/ s.join_waiter[u] = NONE
    BY <2>1, <2>2, <2>3
  <2>5. QED
    BY <2>1, <2>4, JoinedSame DEF Joined
<1>4. QED
  BY <1>1, <1>2, <1>3

\* sys_read.
LEMMA ReadJoined ==
  ASSUME NEW s, Typed(s), NEW h \in Hart, s.current[h] \in User,
         NEW len \in Nat, s.state[s.current[h]] = "RUNNING", Joined(s)
  PROVE  Joined(sys_read(s, h, len))
<1> DEFINE r == sys_read(s, h, len)
           cur == s.current[h]
<1>1. cur \in Tid /\ cur \in User
  BY Kinds
<1>2. \/ Frame(r, s, {"rx"})
      \/ \E m : r = schedule(m, h) /\ Typed(m) /\ Reading(m, s, cur, len)
  BY <1>1, ReadFields
<1> HIDE DEF r
<1>3. CASE Frame(r, s, {"rx"})
  <2>1. /\ r.state = s.state /\ r.join_waiter = s.join_waiter
        /\ r.waiting_for = s.waiting_for /\ r.detached = s.detached
    BY <1>3 DEF Frame, Fields
  <2>2. QED
    BY <2>1 DEF Joined, r
<1>4. ASSUME NEW m, r = schedule(m, h), Typed(m), Reading(m, s, cur, len)
      PROVE  Joined(r)
  <2>1. /\ m.current = s.current /\ m.join_waiter = s.join_waiter
        /\ m.waiting_for = s.waiting_for /\ m.detached = s.detached
        /\ \A u \in Tid : m.state[u] = IF u = cur THEN "BLOCKED" ELSE s.state[u]
    BY <1>4 DEF Reading, Frame, Fields
  <2>2. \A g \in Hart : m.state[g] \in {"RUNNABLE", "RUNNING"}
    BY <2>1, <1>1, Kinds DEF Joined
  <2>3. Joined(m)
    BY <2>1, <2>2, JoinedSame
  <2>4. QED
    BY <2>1, <2>3, <1>4, ScheduleJoined
<1>5. QED
  BY <1>2, <1>3, <1>4 DEF r

\* console_on_char_from_irq.
LEMMA UartJoined ==
  ASSUME NEW s, Typed(s), NEW h \in Hart, Joined(s)
  PROVE  Joined(console_on_char_from_irq(s, h))
<1> DEFINE w == s.g_stdin_waiter
           r == console_on_char_from_irq(s, h)
<1>1. PICK m :
        /\ Typed(m) /\ Frame(m, s, {"rx", "ret", "pending_read"})
        /\ \/ r = m
           \/ /\ w \in Tid
              /\ r = [thread_wake(m, h, w) EXCEPT !.g_stdin_waiter = NONE]
  BY UartFields
<1> HIDE DEF r
<1>2. /\ m.state = s.state /\ m.join_waiter = s.join_waiter
      /\ m.waiting_for = s.waiting_for /\ m.detached = s.detached
  BY <1>1 DEF Frame, Fields
<1>3. Joined(m)
  BY <1>2 DEF Joined
<1>4. CASE r = m
  BY <1>3, <1>4 DEF r
<1>5. CASE w \in Tid /\ r = [thread_wake(m, h, w) EXCEPT !.g_stdin_waiter = NONE]
  <2> DEFINE x == thread_wake(m, h, w)
             y == thread_make_runnable(m, h, w, h)
  <2>1. MadeRunnable(y, m, w)
    BY <1>1, <1>5, MakeRunnableFields
  <2>2. x = IF m.state[w] = "BLOCKED" THEN y ELSE m
    BY DEF thread_wake
  <2> HIDE DEF x, y
  <2>3. Typed(y) /\ (m.state[w] = "BLOCKED" => Joined(y))
    BY <2>1, <1>1, <1>3, <1>5, MakeRunnableTyped, MakeRunnableJoined
  <2>4. Joined(x) /\ DOMAIN x = Fields
    <3>1. Typed(x) /\ Joined(x)
      BY <2>2, <2>3, <1>1, <1>3
    <3>2. QED
      BY <3>1 DEF Typed
  <2>5. r = [x EXCEPT !.g_stdin_waiter = NONE]
    BY <1>5 DEF x
  <2>6. /\ r.state = x.state /\ r.join_waiter = x.join_waiter
        /\ r.waiting_for = x.waiting_for /\ r.detached = x.detached
    BY <2>4, <2>5 DEF Fields
  <2>7. QED
    BY <2>4, <2>6 DEF Joined, r
<1>6. QED
  BY <1>1, <1>4, <1>5

\* The three parts of sched_on_timer_irq.
LEMMA TimerJoined ==
  ASSUME NEW s, Typed(s), s.current[BootHart] \in User \cup {BootHart}, Joined(s)
  PROVE  /\ Joined(tick(s))
         /\ \A t \in Due(s) : Joined(wake_sleeper(s, t))
         /\ Joined(end_of_tick(s, BootHart))
<1>1. BootHart \in Hart
  BY BootAssumption
<1>2. Joined(tick(s))
  <2>1. /\ tick(s).state = s.state /\ tick(s).join_waiter = s.join_waiter
        /\ tick(s).waiting_for = s.waiting_for /\ tick(s).detached = s.detached
    BY DEF tick, Typed, Fields
  <2>2. QED
    BY <2>1 DEF Joined
<1>3. ASSUME NEW t \in Due(s) PROVE Joined(wake_sleeper(s, t))
  <2>3. t \in Tid /\ s.state[t] = "SLEEPING"
    BY DEF Due
  <2>4. wake_sleeper(s, t) = thread_make_runnable(s, BootHart, t, BootHart)
    BY DEF wake_sleeper
  <2>5. MadeRunnable(thread_make_runnable(s, BootHart, t, BootHart), s, t)
    BY <2>3, <1>1, MakeRunnableFields
  <2>6. QED
    BY <2>3, <2>4, <2>5, MakeRunnableJoined
<1>4. Joined(end_of_tick(s, BootHart))
  <2> DEFINE m == [s EXCEPT !.slice_left[BootHart] = @ - 1]
  <2>1. /\ m.state = s.state /\ m.join_waiter = s.join_waiter
        /\ m.waiting_for = s.waiting_for /\ m.detached = s.detached
    BY DEF Typed, Fields
  <2>2. Joined(m)
    BY <2>1 DEF Joined
  <2>3. Joined(schedule(s, BootHart))
    BY <1>1, ScheduleJoined
  <2>4. QED
    BY <2>2, <2>3 DEF end_of_tick
<1>5. QED
  BY <1>2, <1>3, <1>4

\* sched_on_ipi_irq and the two steps in which a hart comes up.
LEMMA HartJoined ==
  ASSUME NEW s, Typed(s), NEW h \in Hart, Joined(s)
  PROVE  /\ s.current[h] \in User \cup {h} => Joined(sched_on_ipi_irq(s, h))
         /\ Joined(cpu_init_this_hart(s, h))
         /\ Joined(cpu_enter_idle(s, h))
<1>1. ASSUME s.current[h] \in User \cup {h} PROVE Joined(sched_on_ipi_irq(s, h))
  <2> DEFINE m == [s EXCEPT !.ipi[h] = FALSE]
  <2>1. Typed(m) /\ Frame(m, s, {"ipi"})
    BY AckFields
  <2>2. sched_on_ipi_irq(s, h) = schedule(m, h)
    BY DEF sched_on_ipi_irq
  <2> HIDE DEF m
  <2>3. /\ m.current = s.current /\ m.state = s.state
        /\ m.join_waiter = s.join_waiter
        /\ m.waiting_for = s.waiting_for /\ m.detached = s.detached
    BY <2>1 DEF Frame, Fields
  <2>4. Joined(m)
    BY <2>3 DEF Joined
  <2>5. QED
    BY <2>1, <2>2, <2>3, <2>4, <1>1, ScheduleJoined
<1>2. Joined(cpu_init_this_hart(s, h))
  <2> DEFINE r == cpu_init_this_hart(s, h)
  <2>1. /\ r.state = s.state /\ r.join_waiter = s.join_waiter
        /\ r.waiting_for = s.waiting_for /\ r.detached = s.detached
    BY DEF cpu_init_this_hart, Typed, Fields
  <2>2. QED
    BY <2>1 DEF Joined
<1>3. Joined(cpu_enter_idle(s, h))
  <2> DEFINE r == cpu_enter_idle(s, h)
  <2>1. /\ r.state = [s.state EXCEPT ![h] = "RUNNING"]
        /\ r.join_waiter = s.join_waiter
        /\ r.waiting_for = s.waiting_for /\ r.detached = s.detached
    BY DEF cpu_enter_idle, Typed, Fields
  <2> HIDE DEF r
  <2>2. \A u \in Tid : r.state[u] = IF u = h THEN "RUNNING" ELSE s.state[u]
    BY <2>1, Kinds DEF Typed
  <2>3. s.state[h] # "WAITING" /\ \A g \in Hart : r.state[g] \in {"RUNNABLE", "RUNNING"}
    BY <2>2, Kinds DEF Joined
  <2>4. \A u \in Tid : r.state[u] # s.state[u] =>
          s.state[u] # "WAITING" /\ r.state[u] = "RUNNING"
    BY <2>2, <2>3
  <2>5. Joined(r)
    BY <2>1, <2>3, <2>4, JoinedSame
  <2>6. QED
    BY <2>5 DEF r
<1>4. QED
  BY <1>1, <1>2, <1>3

\* No thread is killed.
NoKill == "KILL" \notin Syscalls

\* The inductive invariant behind JoinsConsistent.
IJoined == IConsistent /\ IAttended /\ Joined(k)

\* Every step keeps it.
LEMMA JoinedStep ==
  ASSUME NoKill
  PROVE  IJoined /\ [Next]_vars => IJoined'
<1> SUFFICES ASSUME IJoined, [Next]_vars PROVE IJoined'
  OBVIOUS
<1> DEFINE Goal == Joined(k')
<1>1. Typed(k) /\ Joined(k) /\ Consistent(k) /\ Queued(k) /\ BootHart \in Hart
  BY BootAssumption DEF IJoined, IConsistent, ITyped, Consistent
<1>2. \A h \in Hart : k.current[h] # NONE => k.current[h] \in User \cup {h}
  BY DEF IJoined, IAttended, Attended, Grounded
<1>3. \A h \in Hart : k.current[h] \in User => k.state[k.current[h]] = "RUNNING"
  BY <1>1, Kinds, TakeTrap DEF Consistent
<1>4. ASSUME NEW h \in Hart, HartOnline(h) \/ EnterIdle(h) PROVE Goal
  BY <1>1, <1>4, HartJoined DEF HartOnline, EnterIdle
<1>5. ASSUME NEW h \in Hart, IpiIrq(h) PROVE Goal
  BY <1>1, <1>2, <1>5, HartJoined DEF IpiIrq, CanTrap
<1>6. ASSUME TimerIrq \/ WakeSleeper \/ TimerDone PROVE Goal
  <2>1. k.current[BootHart] \in User \cup {BootHart}
    BY <1>1, <1>2, <1>6
       DEF TimerIrq, WakeSleeper, TimerDone, CanTrap, IJoined, IConsistent, ITyped
  <2>2. QED
    BY <1>1, <1>6, <2>1, TimerJoined, WakesOne DEF TimerIrq, TimerDone, IJoined, IConsistent, ITyped
<1>7. ASSUME UartIrq PROVE Goal
  BY <1>1, <1>7, UartJoined DEF UartIrq
<1>8. ASSUME NEW h \in Hart, Sleep(h) \/ Yield(h) PROVE Goal
  <2>1. PICK n \in Nat : k' = thread_sys_sleep(k, h, n)
    BY <1>8, ArgumentsAssumption DEF Sleep, Yield, thread_sys_yield
  <2>2. k.current[h] \in User
    BY <1>8 DEF Sleep, Yield, Ecall
  <2>3. QED
    BY <1>1, <1>3, <2>1, <2>2, SleepJoined
<1>9. ASSUME NEW h \in Hart, Create(h) PROVE Goal
  BY <1>1, <1>9, CreateJoined DEF Create
<1>10. ASSUME NEW h \in Hart, Exit(h) \/ Fault(h) PROVE Goal
  <2>1. PICK c \in Codes : k' = thread_sys_exit(k, h, c)
    BY <1>10 DEF Exit, Fault, Codes
  <2>2. k.current[h] \in User
    BY <1>10 DEF Exit, Fault, Ecall
  <2>3. QED
    BY <1>1, <1>3, <2>1, <2>2, ExitJoined
<1>11. ASSUME NEW h \in Hart, Join(h) PROVE Goal
  BY <1>1, <1>3, <1>11, JoinJoined DEF Join, Ecall
<1>12. ASSUME NEW h \in Hart, Detach(h) PROVE Goal
  BY <1>1, <1>12, DetachJoined DEF Detach
<1>13. ASSUME NEW h \in Hart, Read(h) PROVE Goal
  <2>1. PICK n \in Nat : k' = sys_read(k, h, n)
    BY <1>13, ArgumentsAssumption DEF Read
  <2>2. k.current[h] \in User
    BY <1>13 DEF Read, Ecall
  <2>3. QED
    BY <1>1, <1>3, <2>1, <2>2, ReadJoined
<1>14. \A h \in Hart : ~Kill(h)
  BY DEF Kill, Ecall, NoKill
<1>15. ASSUME UNCHANGED vars PROVE Goal
  BY <1>1, <1>15 DEF vars
<1>16. Goal
  BY <1>4, <1>5, <1>6, <1>7, <1>8, <1>9, <1>10, <1>11, <1>12, <1>13, <1>14,
     <1>15 DEF Next
<1>17. IAttended'
  BY AttendedStep DEF IJoined
<1>18. ITyped' /\ Consistent(k')
  BY NextStep DEF IJoined, IConsistent, NoRemoteKill, NoKill
<1>19. QED
  BY <1>16, <1>17, <1>18 DEF IJoined, IConsistent

\* In the first state nobody waits.
LEMMA InitJoined == Init => IJoined
<1> SUFFICES ASSUME Init PROVE IJoined
  OBVIOUS
<1>1. ITyped /\ Consistent(k)
  BY InitInvariant
<1>2. Attended(k, {BootHart})
  BY InitAttended DEF Init
<1>3. /\ k.state = [t \in Tid |-> IF t <= MAX_HARTS THEN "RUNNABLE" ELSE "UNUSED"]
      /\ k.join_waiter = [t \in Tid |-> NONE]
      /\ k.waiting_for = [t \in Tid |-> NONE]
  BY DEF Init, threads_init
<1>4. \A g \in Hart : k.state[g] \in {"RUNNABLE", "RUNNING"}
  BY <1>2 DEF Attended, Grounded
<1>5. \A t \in Tid : t # NONE
  BY Kinds
<1>6. Joined(k)
  BY <1>3, <1>4, <1>5 DEF Joined
<1>7. QED
  BY <1>1, <1>2, <1>6 DEF IJoined, IConsistent, IAttended

\* It always holds.
LEMMA JoinedAlways ==
  ASSUME NoKill
  PROVE  Spec => []IJoined
<1>1. IJoined /\ [Next]_vars => IJoined'
  BY JoinedStep
<1>2. QED
  BY <1>1, InitJoined, PTL DEF Spec

\* JoinsConsistent for any number of harts and threads while no thread is
\* killed: thread_sys_join sets both ends of a join or none, detach refuses a
\* thread that is joined, and the exit of the thread clears both ends and
\* wakes its joiner before the slot can be used again.
THEOREM JoinsKept ==
  ASSUME NoKill
  PROVE  Spec => []JoinsConsistent
<1>1. IJoined => JoinsConsistent
  BY DEF IJoined, Joined, JoinsConsistent
<1>2. QED
  BY <1>1, JoinedAlways, PTL

----------------------------------------------------------------------------
(* The life of a thread: what the handlers leave alone.                    *)

\* From s to r no thread outside X stops to sleep or to wait, and none that
\* is dead comes back to life.
Lasting(r, s, X) ==
  \A t \in Tid \ X :
    /\ s.state[t] \in {"SLEEPING", "WAITING"} => r.state[t] = s.state[t]
    /\ s.state[t] = "ZOMBIE" => r.state[t] \in {"ZOMBIE", "UNUSED"}

\* From s to r nobody becomes a joiner and nobody is detached.
Fading(r, s) ==
  \A t \in Tid : /\ r.join_waiter[t] \in {s.join_waiter[t], NONE}
                 /\ r.detached[t] => s.detached[t]

\* Idle threads run or wait for the CPU.
Idling(s) == \A g \in Hart : s.state[g] \in {"RUNNABLE", "RUNNING"}

\* schedule gives the CPU only to a RUNNABLE thread or to idle.
LEMMA ScheduleLasting ==
  ASSUME NEW s, Typed(s), NEW h \in Hart, s.current[h] \in User \cup {h}, Idling(s)
  PROVE  LET r == schedule(s, h)
         IN  /\ Lasting(r, s, {}) /\ Fading(r, s)
             /\ \A t \in Tid : s.state[t] = "UNUSED" => r.state[t] = "UNUSED"
<1> DEFINE r == schedule(s, h)
           cur == s.current[h]
           next == r.current[h]
<1>1. cur # NONE /\ h \notin User /\ cur \in Tid
  BY Kinds
<1>2. Typed(r) /\ Scheduled(r, s, h)
  BY <1>1, ScheduleAll
<1> HIDE DEF r
<1>3. /\ next \in Tid
      /\ next = h \/ (IF next = cur THEN StateOff(s, h) = "RUNNABLE"
                      ELSE s.state[next] = "RUNNABLE")
  BY <1>2 DEF Scheduled
<1>4. ASSUME NEW t \in Tid
      PROVE  /\ r.state[t] = IF t = next THEN "RUNNING"
                             ELSE IF t = cur THEN StateOff(s, h) ELSE s.state[t]
             /\ r.join_waiter[t] = IF t = cur /\ Frees(s, h) THEN NONE
                                   ELSE s.join_waiter[t]
             /\ r.detached[t] = (s.detached[t] /\ ~(t = cur /\ Frees(s, h)))
  BY <1>2 DEF Scheduled
<1>5. s.state[h] \in {"RUNNABLE", "RUNNING"}
  BY DEF Idling
<1>6. ASSUME NEW t \in Tid
      PROVE  /\ s.state[t] \in {"SLEEPING", "WAITING"} => r.state[t] = s.state[t]
             /\ s.state[t] = "ZOMBIE" => r.state[t] \in {"ZOMBIE", "UNUSED"}
             /\ s.state[t] = "UNUSED" => r.state[t] = "UNUSED"
  <2>1. CASE t = next
    BY <2>1, <1>3, <1>5 DEF StateOff
  <2>2. CASE t # next /\ t = cur
    BY <2>2, <1>4, <1>5 DEF StateOff, Frees
  <2>3. CASE t # next /\ t # cur
    BY <2>3, <1>4
  <2>4. QED
    BY <2>1, <2>2, <2>3
<1>7. Fading(r, s)
  BY <1>4 DEF Fading
<1>8. QED
  BY <1>6, <1>7 DEF Lasting, r

\* schedule at the end of a handler that changed the state of its own thread
\* only.
LEMMA BlockLasting ==
  ASSUME NEW s, NEW m, Typed(m), NEW h \in Hart, s.current[h] \in User, Idling(s),
         m.current = s.current,
         \A u \in Tid \ {s.current[h]} : m.state[u] = s.state[u]
  PROVE  LET r == schedule(m, h)
         IN  /\ Lasting(r, s, {s.current[h]}) /\ Fading(r, m)
             /\ m.state[s.current[h]] = "ZOMBIE" =>
                  r.state[s.current[h]] \in {"ZOMBIE", "UNUSED"}
             /\ s.state[s.current[h]] = "RUNNING" => Lasting(r, s, {})
<1> DEFINE r == schedule(m, h)
           cur == s.current[h]
<1>1. Idling(m)
  BY Kinds DEF Idling
<1>2. Lasting(r, m, {}) /\ Fading(r, m)
  BY <1>1, ScheduleLasting
<1> HIDE DEF r
<1>3. Lasting(r, s, {cur})
  BY <1>2 DEF Lasting
<1>4. cur \in Tid
  BY Kinds
<1>5. m.state[cur] = "ZOMBIE" => r.state[cur] \in {"ZOMBIE", "UNUSED"}
  BY <1>2, <1>4 DEF Lasting
<1>6. s.state[cur] = "RUNNING" => Lasting(r, s, {})
  BY <1>3 DEF Lasting
<1>7. QED
  BY <1>2, <1>3, <1>5, <1>6 DEF r

\* thread_make_runnable of a thread that is not a joiner's, a sleeper's or a
\* dead thread's.
LEMMA MakeRunnableLasting ==
  ASSUME NEW s, Typed(s), NEW t \in Tid, NEW r, MadeRunnable(r, s, t)
  PROVE  /\ Lasting(r, s, {t}) /\ Fading(r, s)
         /\ s.state[t] \notin {"SLEEPING", "WAITING", "ZOMBIE"} => Lasting(r, s, {})
<1>1. CASE r = s
  BY <1>1 DEF Lasting, Fading
<1>2. CASE r # s
  <2>1. /\ Frame(r, s, {"rq", "state", "wakeup_tick", "ipi"})
        /\ r.state = [s.state EXCEPT ![t] = "RUNNABLE"]
    BY <1>2, Zenon DEF MadeRunnable
  <2>2. r.join_waiter = s.join_waiter /\ r.detached = s.detached
    BY <2>1 DEF Frame, Fields
  <2>3. \A u \in Tid : r.state[u] = IF u = t THEN "RUNNABLE" ELSE s.state[u]
    BY <2>1 DEF Typed
  <2>4. QED
    BY <2>2, <2>3 DEF Lasting, Fading
<1>3. QED
  BY <1>1, <1>2

\* recycle_thread.
LEMMA RecycleLasting ==
  ASSUME NEW s, Typed(s), NEW t \in Tid, NEW r, Recycled(r, s, t)
  PROVE  /\ Lasting(r, s, {t}) /\ Fading(r, s)
         /\ s.state[t] = "ZOMBIE" => Lasting(r, s, {})
<1>1. /\ r.state = [s.state EXCEPT ![t] = "UNUSED"]
      /\ r.join_waiter = [s.join_waiter EXCEPT ![t] = NONE]
      /\ r.detached = [s.detached EXCEPT ![t] = FALSE]
  BY DEF Recycled, Frame, Fields
<1>2. /\ \A u \in Tid : r.state[u] = IF u = t THEN "UNUSED" ELSE s.state[u]
      /\ \A u \in Tid : r.join_waiter[u] = IF u = t THEN NONE ELSE s.join_waiter[u]
  BY <1>1 DEF Typed
<1>3. s.detached \in [Tid -> BOOLEAN]
  BY DEF Typed
<1>4. \A u \in Tid : r.detached[u] => s.detached[u]
  BY <1>1, <1>3
<1>5. QED
  BY <1>2, <1>4 DEF Lasting, Fading

\* thread_sys_sleep and thread_sys_yield.  A dead thread can only yield.
LEMMA SleepLasting ==
  ASSUME NEW s, Typed(s), NEW h \in Hart, s.current[h] \in User, NEW n \in Nat,
         Idling(s)
  PROVE  LET r == thread_sys_sleep(s, h, n)
         IN  /\ Fading(r, s)
             /\ n = 0 \/ s.state[s.current[h]] = "RUNNING" => Lasting(r, s, {})
<1> DEFINE cur == s.current[h]
           m == [s EXCEPT !.state[cur] = "SLEEPING", !.wakeup_tick[cur] = n]
<1>1. cur \in Tid
  BY Kinds
<1>2. CASE n = 0
  BY <1>2, ScheduleLasting DEF thread_sys_sleep
<1>3. CASE n # 0
  <2>1. /\ Typed(m) /\ Frame(m, s, {"state", "wakeup_tick"})
        /\ \A u \in Tid : m.state[u] = IF u = cur THEN "SLEEPING" ELSE s.state[u]
    BY <1>1, SleepFields
  <2>2. thread_sys_sleep(s, h, n) = schedule(m, h)
    BY <1>3 DEF thread_sys_sleep
  <2> HIDE DEF m
  <2>3. /\ m.current = s.current /\ m.join_waiter = s.join_waiter
        /\ m.detached = s.detached
    BY <2>1 DEF Frame, Fields
  <2>4. /\ Fading(schedule(m, h), m)
        /\ s.state[cur] = "RUNNING" => Lasting(schedule(m, h), s, {})
    BY <2>1, <2>3, BlockLasting
  <2>5. Fading(schedule(m, h), s)
    BY <2>3, <2>4 DEF Fading
  <2>6. QED
    BY <2>2, <2>4, <2>5, <1>3
<1>4. QED
  BY <1>2, <1>3

\* thread_sys_create.
LEMMA CreateLasting ==
  ASSUME NEW s, Typed(s), NEW h \in Hart
  PROVE  LET r == thread_sys_create(s, h) IN Lasting(r, s, {}) /\ Fading(r, s)
<1> DEFINE t == Min(FreeSlots(s))
           m == [s EXCEPT !.state[t] = "RUNNABLE", !.wakeup_tick[t] = 0,
                          !.detached[t] = FALSE, !.ret[t] = "none"]
           r == thread_make_runnable(m, h, t, h)
<1>1. CASE FreeSlots(s) = {}
  BY <1>1 DEF thread_sys_create, Lasting, Fading
<1>2. CASE FreeSlots(s) # {}
  <2>1. t \in Tid /\ s.state[t] = "UNUSED"
    <3>1. FreeSlots(s) \subseteq Nat
      BY DEF FreeSlots, Tid
    <3>2. t \in FreeSlots(s)
      BY <1>2, <3>1, MinOfNats
    <3>3. QED
      BY <3>2 DEF FreeSlots
  <2>2. thread_sys_create(s, h) = r
    BY <1>2 DEF thread_sys_create
  <2> HIDE DEF t
  <2>3. /\ Typed(m) /\ Frame(m, s, {"state", "wakeup_tick", "detached", "ret"})
        /\ \A u \in Tid :
             /\ m.state[u] = IF u = t THEN "RUNNABLE" ELSE s.state[u]
             /\ m.detached[u] = IF u = t THEN FALSE ELSE s.detached[u]
    BY <2>1, CreateFields
  <2> HIDE DEF m
  <2>4. m.join_waiter = s.join_waiter
    BY <2>3 DEF Frame, Fields
  <2>5. MadeRunnable(r, m, t)
    BY <2>1, <2>3, MakeRunnableFields
  <2> HIDE DEF r
  <2>6. Lasting(r, m, {}) /\ Fading(r, m)
    BY <2>1, <2>3, <2>5, MakeRunnableLasting
  <2>7. Lasting(r, s, {})
    BY <2>1, <2>3, <2>6 DEF Lasting
  <2>8. Fading(r, s)
    BY <2>3, <2>4, <2>6 DEF Fading
  <2>9. QED
    BY <2>2, <2>7, <2>8
<1>3. QED
  BY <1>1, <1>2

\* thread_sys_exit of a thread that nobody joins.
LEMMA ExitLasting ==
  ASSUME NEW s, Typed(s), NEW h \in Hart, s.current[h] \in User, Idling(s),
         NEW code \in Codes, s.join_waiter[s.current[h]] = NONE
  PROVE  LET r == thread_sys_exit(s, h, code)
         IN  /\ Lasting(r, s, {s.current[h]}) /\ Fading(r, s)
             /\ r.state[s.current[h]] \in {"ZOMBIE", "UNUSED"}
<1> DEFINE cur == s.current[h]
           m == [s EXCEPT !.state[cur] = "ZOMBIE", !.exit_code[cur] = code]
<1>1. cur \in Tid
  BY Kinds
<1>2. thread_sys_exit(s, h, code) = schedule(m, h)
  BY DEF thread_sys_exit
<1>3. /\ Typed(m) /\ Frame(m, s, {"state", "exit_code"})
      /\ \A u \in Tid : m.state[u] = IF u = cur THEN "ZOMBIE" ELSE s.state[u]
  BY <1>1, DeadFields
<1> HIDE DEF m
<1>4. /\ m.current = s.current /\ m.join_waiter = s.join_waiter
      /\ m.detached = s.detached
  BY <1>3 DEF Frame, Fields
<1>5. /\ Lasting(schedule(m, h), s, {cur}) /\ Fading(schedule(m, h), m)
      /\ schedule(m, h).state[cur] \in {"ZOMBIE", "UNUSED"}
  BY <1>1, <1>3, <1>4, BlockLasting
<1>6. Fading(schedule(m, h), s)
  BY <1>4, <1>5 DEF Fading
<1>7. QED
  BY <1>2, <1>5, <1>6

\* thread_sys_exit with a joiner: it ends the wait of the joiner and of no
\* other thread, and the exiting thread is gone.
LEMMA ExitJoinedLasting ==
  ASSUME NEW s, Typed(s), NEW h \in Hart, s.current[h] \in User,
         s.state[s.current[h]] = "RUNNING", NEW code \in Codes,
         Queued(s), Joined(s)
  PROVE  LET r == thread_sys_exit(s, h, code)
         IN  /\ Lasting(r, s, {s.join_waiter[s.current[h]]})
             /\ r.state[s.current[h]] \in {"ZOMBIE", "UNUSED"}
<1> DEFINE cur == s.current[h]
           w == s.join_waiter[cur]
           r == thread_sys_exit(s, h, code)
<1>1. PICK m : /\ r = schedule(m, h)
               /\ Typed(m) /\ Exiting(m, s, cur)
  BY ExitFields
<1>2. cur \in Tid /\ cur \in User /\ \A t \in Tid : t # NONE
  BY Kinds
<1> HIDE DEF r
<1>3. /\ \A u \in Tid : m.state[u] = IF u = cur THEN IF w = NONE THEN "ZOMBIE" ELSE "UNUSED"
                                     ELSE IF u = w THEN "RUNNABLE" ELSE s.state[u]
      /\ m.current = s.current
  BY <1>1 DEF Exiting
<1>4. Idling(m)
  <2>1. \A g \in Hart : g \in Tid /\ g # cur /\ s.state[g] \in {"RUNNABLE", "RUNNING"}
    BY <1>2, Kinds DEF Joined
  <2>2. QED
    BY <2>1, <1>3 DEF Idling
<1>5. /\ Lasting(r, m, {})
      /\ \A t \in Tid : m.state[t] = "UNUSED" => r.state[t] = "UNUSED"
  BY <1>1, <1>3, <1>4, ScheduleLasting
<1>6. r.state[cur] \in {"ZOMBIE", "UNUSED"}
  BY <1>2, <1>3, <1>5 DEF Lasting
<1>7. Lasting(r, s, {w})
  BY <1>3, <1>5 DEF Lasting
<1>8. QED
  BY <1>6, <1>7 DEF r

\* thread_sys_join.
LEMMA JoinLasting ==
  ASSUME NEW s, Typed(s), NEW h \in Hart, s.current[h] \in User, NEW t \in Tid,
         s.state[s.current[h]] = "RUNNING", Idling(s)
  PROVE  Lasting(thread_sys_join(s, h, t), s, {})
<1> DEFINE cur == s.current[h]
           gone == recycle_thread(s, t)
           m == [s EXCEPT !.state[cur] = "WAITING", !.waiting_for[cur] = t,
                          !.ret[cur] = "due", !.join_waiter[t] = cur]
<1>1. cur \in Tid /\ cur \in User
  BY Kinds
<1>2. thread_sys_join(s, h, t) =
        IF join_refused(s, h, t) THEN s
        ELSE IF s.state[t] = "ZOMBIE" THEN gone ELSE schedule(m, h)
  BY DEF thread_sys_join
<1>3. ASSUME s.state[t] = "ZOMBIE" PROVE Lasting(gone, s, {})
  <2>1. Recycled(gone, s, t)
    BY RecycleFields
  <2> HIDE DEF gone
  <2>2. QED
    BY <2>1, <1>3, RecycleLasting
<1>4. Lasting(schedule(m, h), s, {})
  <2>1. m = [s EXCEPT !.state[cur] = "WAITING", !.waiting_for[cur] = t,
                      !.ret[cur] = "due", !.join_waiter[t] = cur]
    OBVIOUS
  <2> HIDE DEF m
  <2>2. Typed(m) /\ Joining(m, s, cur, t)
    BY <2>1, <1>1, JoinFields
  <2>3. /\ m.current = s.current
        /\ \A u \in Tid \ {cur} : m.state[u] = s.state[u]
    BY <2>2 DEF Joining, Frame, Fields
  <2>4. QED
    BY <2>2, <2>3, BlockLasting
<1>5. Lasting(s, s, {})
  BY DEF Lasting
<1>6. QED
  BY <1>2, <1>3, <1>4, <1>5

\* thread_sys_detach.
LEMMA DetachLasting ==
  ASSUME NEW s, Typed(s), NEW h \in Hart, NEW t \in Tid
  PROVE  LET r == thread_sys_detach(s, h, t)
         IN  /\ Lasting(r, s, {})
             /\ \A u \in Tid : r.join_waiter[u] \in {s.join_waiter[u], NONE}
<1> DEFINE gone == recycle_thread(s, t)
           m == [s EXCEPT !.detached[t] = TRUE]
<1>1. thread_sys_detach(s, h, t) =
        IF detach_refused(s, t) \/ s.detached[t] THEN s
        ELSE IF s.state[t] = "ZOMBIE" THEN gone ELSE m
  BY DEF thread_sys_detach
<1>2. ASSUME s.state[t] = "ZOMBIE" PROVE Lasting(gone, s, {}) /\ Fading(gone, s)
  <2>1. Recycled(gone, s, t)
    BY RecycleFields
  <2> HIDE DEF gone
  <2>2. QED
    BY <2>1, <1>2, RecycleLasting
<1>3. m.state = s.state /\ m.join_waiter = s.join_waiter
  BY DEF Typed, Fields
<1>4. QED
  BY <1>1, <1>2, <1>3 DEF Lasting, Fading

\* sys_read.
LEMMA ReadLasting ==
  ASSUME NEW s, Typed(s), NEW h \in Hart, s.current[h] \in User,
         NEW len \in Nat, Idling(s)
  PROVE  LET r == sys_read(s, h, len)
         IN  /\ Fading(r, s)
             /\ s.state[s.current[h]] = "RUNNING" => Lasting(r, s, {})
<1> DEFINE r == sys_read(s, h, len)
           cur == s.current[h]
<1>1. cur \in Tid
  BY Kinds
<1>2. \/ Frame(r, s, {"rx"})
      \/ \E m : r = schedule(m, h) /\ Typed(m) /\ Reading(m, s, cur, len)
  BY <1>1, ReadFields
<1> HIDE DEF r
<1>3. CASE Frame(r, s, {"rx"})
  <2>1. r.state = s.state /\ r.join_waiter = s.join_waiter /\ r.detached = s.detached
    BY <1>3 DEF Frame, Fields
  <2>2. QED
    BY <2>1 DEF Lasting, Fading, r
<1>4. ASSUME NEW m, r = schedule(m, h), Typed(m), Reading(m, s, cur, len)
      PROVE  Fading(r, s) /\ (s.state[cur] = "RUNNING" => Lasting(r, s, {}))
  <2>1. /\ m.current = s.current /\ m.join_waiter = s.join_waiter
        /\ m.detached = s.detached
        /\ \A u \in Tid \ {cur} : m.state[u] = s.state[u]
    BY <1>4 DEF Reading, Frame, Fields
  <2>2. Fading(r, m) /\ (s.state[cur] = "RUNNING" => Lasting(r, s, {}))
    BY <2>1, <1>4, BlockLasting
  <2>3. QED
    BY <2>1, <2>2 DEF Fading
<1>5. QED
  BY <1>2, <1>3, <1>4 DEF r

\* console_on_char_from_irq.
LEMMA UartLasting ==
  ASSUME NEW s, Typed(s), NEW h \in Hart
  PROVE  LET r == console_on_char_from_irq(s, h)
         IN  Lasting(r, s, {}) /\ Fading(r, s)
<1> DEFINE w == s.g_stdin_waiter
           r == console_on_char_from_irq(s, h)
<1>1. PICK m :
        /\ Typed(m) /\ Frame(m, s, {"rx", "ret", "pending_read"})
        /\ \/ r = m
           \/ /\ w \in Tid
              /\ r = [thread_wake(m, h, w) EXCEPT !.g_stdin_waiter = NONE]
  BY UartFields
<1> HIDE DEF r
<1>2. m.state = s.state /\ m.join_waiter = s.join_waiter /\ m.detached = s.detached
  BY <1>1 DEF Frame, Fields
<1>3. CASE r = m
  BY <1>2, <1>3 DEF Lasting, Fading, r
<1>4. CASE w \in Tid /\ r = [thread_wake(m, h, w) EXCEPT !.g_stdin_waiter = NONE]
  <2> DEFINE x == thread_wake(m, h, w)
             y == thread_make_runnable(m, h, w, h)
  <2>1. MadeRunnable(y, m, w)
    BY <1>1, <1>4, MakeRunnableFields
  <2>2. x = IF m.state[w] = "BLOCKED" THEN y ELSE m
    BY DEF thread_wake
  <2> HIDE DEF x, y
  <2>3. Typed(y) /\ Fading(y, m) /\ (m.state[w] = "BLOCKED" => Lasting(y, m, {}))
    BY <2>1, <1>1, <1>4, MakeRunnableTyped, MakeRunnableLasting
  <2>4. Lasting(x, m, {}) /\ Fading(x, m) /\ DOMAIN x = Fields
    <3>1. Lasting(m, m, {}) /\ Fading(m, m)
      BY DEF Lasting, Fading
    <3>2. QED
      BY <3>1, <2>2, <2>3, <1>1 DEF Typed
  <2>5. r = [x EXCEPT !.g_stdin_waiter = NONE]
    BY <1>4 DEF x
  <2>6. r.state = x.state /\ r.join_waiter = x.join_waiter /\ r.detached = x.detached
    BY <2>4, <2>5 DEF Fields
  <2>7. Lasting(r, s, {}) /\ Fading(r, s)
    BY <2>4, <2>6, <1>2 DEF Lasting, Fading
  <2>8. QED
    BY <2>7 DEF r
<1>5. QED
  BY <1>1, <1>3, <1>4

\* The three parts of sched_on_timer_irq.  threads_tick wakes a thread whose
\* time has come.
LEMMA TimerLasting ==
  ASSUME NEW s, Typed(s), s.current[BootHart] \in User \cup {BootHart}, Idling(s)
  PROVE  /\ Lasting(tick(s), s, {}) /\ Fading(tick(s), s)
         /\ \A t \in Due(s) : /\ Fading(wake_sleeper(s, t), s)
                             /\ Lasting(wake_sleeper(s, t), s, {t})
         /\ Lasting(end_of_tick(s, BootHart), s, {})
         /\ Fading(end_of_tick(s, BootHart), s)
<1>1. BootHart \in Hart
  BY BootAssumption
<1>2. Lasting(tick(s), s, {}) /\ Fading(tick(s), s)
  <2>1. /\ tick(s).state = s.state /\ tick(s).join_waiter = s.join_waiter
        /\ tick(s).detached = s.detached
    BY DEF tick, Typed, Fields
  <2>2. QED
    BY <2>1 DEF Lasting, Fading
<1>3. ASSUME NEW t \in Due(s)
      PROVE  Fading(wake_sleeper(s, t), s) /\ Lasting(wake_sleeper(s, t), s, {t})
  <2>2. t \in Tid
    BY DEF Due
  <2>3. wake_sleeper(s, t) = thread_make_runnable(s, BootHart, t, BootHart)
    BY DEF wake_sleeper
  <2>4. MadeRunnable(thread_make_runnable(s, BootHart, t, BootHart), s, t)
    BY <2>2, <1>1, MakeRunnableFields
  <2>5. QED
    BY <2>2, <2>3, <2>4, MakeRunnableLasting
<1>4. Lasting(end_of_tick(s, BootHart), s, {}) /\ Fading(end_of_tick(s, BootHart), s)
  <2> DEFINE m == [s EXCEPT !.slice_left[BootHart] = @ - 1]
  <2>1. m.state = s.state /\ m.join_waiter = s.join_waiter /\ m.detached = s.detached
    BY DEF Typed, Fields
  <2>2. Lasting(m, s, {}) /\ Fading(m, s)
    BY <2>1 DEF Lasting, Fading
  <2>3. Lasting(schedule(s, BootHart), s, {}) /\ Fading(schedule(s, BootHart), s)
    BY <1>1, ScheduleLasting
  <2>4. QED
    BY <2>2, <2>3 DEF end_of_tick
<1>5. QED
  BY <1>2, <1>3, <1>4

\* sched_on_ipi_irq and the two steps in which a hart comes up.
LEMMA HartLasting ==
  ASSUME NEW s, Typed(s), NEW h \in Hart, Idling(s)
  PROVE  /\ s.current[h] \in User \cup {h} =>
              Lasting(sched_on_ipi_irq(s, h), s, {}) /\ Fading(sched_on_ipi_irq(s, h), s)
         /\ Lasting(cpu_init_this_hart(s, h), s, {})
         /\ Fading(cpu_init_this_hart(s, h), s)
         /\ Lasting(cpu_enter_idle(s, h), s, {}) /\ Fading(cpu_enter_idle(s, h), s)
<1>1. ASSUME s.current[h] \in User \cup {h}
      PROVE  Lasting(sched_on_ipi_irq(s, h), s, {}) /\ Fading(sched_on_ipi_irq(s, h), s)
  <2> DEFINE m == [s EXCEPT !.ipi[h] = FALSE]
             r == schedule(m, h)
  <2>1. Typed(m) /\ Frame(m, s, {"ipi"})
    BY AckFields
  <2>2. sched_on_ipi_irq(s, h) = r
    BY DEF sched_on_ipi_irq
  <2> HIDE DEF m
  <2>3. /\ m.current = s.current /\ m.state = s.state
        /\ m.join_waiter = s.join_waiter /\ m.detached = s.detached
    BY <2>1 DEF Frame, Fields
  <2>4. Lasting(r, m, {}) /\ Fading(r, m)
    BY <2>1, <2>3, <1>1, ScheduleLasting DEF Idling
  <2> HIDE DEF r
  <2>5. QED
    BY <2>2, <2>3, <2>4 DEF Lasting, Fading
<1>2. Lasting(cpu_init_this_hart(s, h), s, {}) /\ Fading(cpu_init_this_hart(s, h), s)
  <2> DEFINE r == cpu_init_this_hart(s, h)
  <2>1. r.state = s.state /\ r.join_waiter = s.join_waiter /\ r.detached = s.detached
    BY DEF cpu_init_this_hart, Typed, Fields
  <2>2. QED
    BY <2>1 DEF Lasting, Fading
<1>3. Lasting(cpu_enter_idle(s, h), s, {}) /\ Fading(cpu_enter_idle(s, h), s)
  <2> DEFINE r == cpu_enter_idle(s, h)
  <2>1. /\ r.state = [s.state EXCEPT ![h] = "RUNNING"]
        /\ r.join_waiter = s.join_waiter /\ r.detached = s.detached
    BY DEF cpu_enter_idle, Typed, Fields
  <2> HIDE DEF r
  <2>2. \A u \in Tid : r.state[u] = IF u = h THEN "RUNNING" ELSE s.state[u]
    BY <2>1, Kinds DEF Typed
  <2>3. s.state[h] \in {"RUNNABLE", "RUNNING"}
    BY DEF Idling
  <2>4. Lasting(r, s, {}) /\ Fading(r, s)
    BY <2>1, <2>2, <2>3 DEF Lasting, Fading
  <2>5. QED
    BY <2>4 DEF r
<1>4. QED
  BY <1>1, <1>2, <1>3

\* thread_sys_kill of a thread that nobody joins: the victim is a ZOMBIE, or
\* its slot is free if it was detached and ran nowhere.
LEMMA KillLasting ==
  ASSUME NEW s, Typed(s), NEW h \in Hart, NEW t \in Tid, s.join_waiter[t] = NONE
  PROVE  LET r == thread_sys_kill(s, h, t)
         IN  /\ Lasting(r, s, {t}) /\ Fading(r, s)
             /\ s.state[t] = "ZOMBIE" => r.state[t] = "ZOMBIE"
             /\ ~s.detached[t] /\ ~kill_refused(s, h, t) => r.state[t] = "ZOMBIE"
<1> DEFINE rh == s.running_hart[t]
           a == [s EXCEPT !.state[t] = "ZOMBIE", !.exit_code[t] = "killed",
                          !.wakeup_tick[t] = 0]
           dead == rq_remove_any(a, t)
           kicked == IF rh \in Hart \ {h} THEN smp_kick_hart(dead, rh) ELSE dead
           gone == recycle_thread(kicked, t)
           r == thread_sys_kill(s, h, t)
<1>1. r = IF kill_refused(s, h, t) THEN s
          ELSE IF rh = NONE /\ s.detached[t] THEN gone ELSE kicked
  BY DEF thread_sys_kill
<1>2. CASE kill_refused(s, h, t)
  BY <1>1, <1>2 DEF Lasting, Fading
<1>3. CASE ~kill_refused(s, h, t)
  <2>1. s.state[t] # "ZOMBIE"
    BY <1>3 DEF kill_refused
  <2>2. /\ Typed(a) /\ Frame(a, s, {"state", "exit_code", "wakeup_tick"})
        /\ \A u \in Tid : a.state[u] = IF u = t THEN "ZOMBIE" ELSE s.state[u]
    BY KilledFields
  <2> HIDE DEF a
  <2>3. Unlinked(dead, a, t) /\ Typed(dead)
    BY <2>2, RemoveFields
  <2> HIDE DEF dead
  <2>4. /\ dead.state = a.state /\ dead.join_waiter = s.join_waiter
        /\ dead.detached = s.detached
    BY <2>2, <2>3 DEF Unlinked, Frame, Fields
  <2>5. /\ Typed(kicked) /\ kicked.state = dead.state
        /\ kicked.join_waiter = dead.join_waiter /\ kicked.detached = dead.detached
    <3>1. CASE rh \notin Hart \ {h}
      BY <3>1, <2>3
    <3>2. CASE rh \in Hart \ {h}
      <4>1. Kicked(kicked, dead)
        BY <3>2, <2>3, KickFields
      <4> HIDE DEF kicked
      <4>2. QED
        BY <4>1, <2>3 DEF Kicked, Frame, Fields, Typed
    <3>3. QED
      BY <3>1, <3>2
  <2> HIDE DEF kicked, rh
  <2>6. /\ Lasting(kicked, s, {t}) /\ Fading(kicked, s) /\ kicked.state[t] = "ZOMBIE"
    BY <2>2, <2>4, <2>5 DEF Lasting, Fading
  <2>7. Recycled(gone, kicked, t)
    BY <2>5, RecycleFields
  <2> HIDE DEF gone
  <2>8. Lasting(gone, kicked, {t}) /\ Fading(gone, kicked)
    BY <2>5, <2>7, RecycleLasting
  <2>9. Lasting(gone, s, {t}) /\ Fading(gone, s)
    <3>1. \A u \in Tid \ {t} : kicked.state[u] = s.state[u]
      BY <2>2, <2>4, <2>5
    <3>2. kicked.join_waiter = s.join_waiter /\ kicked.detached = s.detached
      BY <2>4, <2>5
    <3>3. QED
      BY <3>1, <3>2, <2>8 DEF Lasting, Fading
  <2>10. QED
    BY <2>1, <2>6, <2>9, <1>1, <1>3
<1>4. QED
  BY <1>2, <1>3

\* While no thread is killed, a step ends no sleep and no wait, except that of
\* a sleeper whose time has come in threads_tick, or that of the joiner of a
\* thread which dies in this step; and no dead thread comes back to life.
LEMMA LastingStep ==
  ASSUME NoKill, IJoined, [Next]_vars
  PROVE  \/ Lasting(k', k, {})
         \/ ticking /\ \E t \in Due(k) : Lasting(k', k, {t})
         \/ \E c \in Tid : /\ k.state[c] = "RUNNING"
                           /\ k'.state[c] \in {"ZOMBIE", "UNUSED"}
                           /\ Lasting(k', k, {k.join_waiter[c]})
<1> DEFINE Wakes == ticking /\ \E t \in Due(k) : Lasting(k', k, {t})
           Dies(c) == /\ k.state[c] = "RUNNING"
                      /\ k'.state[c] \in {"ZOMBIE", "UNUSED"}
                      /\ Lasting(k', k, {k.join_waiter[c]})
           Goal == Lasting(k', k, {}) \/ Wakes \/ \E c \in Tid : Dies(c)
<1>1. /\ Typed(k) /\ Joined(k) /\ Consistent(k) /\ Queued(k) /\ Idling(k)
      /\ BootHart \in Hart
  BY BootAssumption DEF IJoined, IConsistent, ITyped, Consistent, Joined, Idling
<1>2. \A h \in Hart : k.current[h] # NONE => k.current[h] \in User \cup {h}
  BY DEF IJoined, IAttended, Attended, Grounded
<1>3. \A h \in Hart : k.current[h] \in User => k.state[k.current[h]] = "RUNNING"
  BY <1>1, Kinds, TakeTrap DEF Consistent
<1>4. ASSUME NEW h \in Hart, HartOnline(h) \/ EnterIdle(h) PROVE Lasting(k', k, {})
  BY <1>1, <1>4, HartLasting DEF HartOnline, EnterIdle
<1>5. ASSUME NEW h \in Hart, IpiIrq(h) PROVE Lasting(k', k, {})
  BY <1>1, <1>2, <1>5, HartLasting DEF IpiIrq, CanTrap
<1>6. ASSUME TimerIrq \/ WakeSleeper \/ TimerDone PROVE Lasting(k', k, {}) \/ Wakes
  <2>1. k.current[BootHart] \in User \cup {BootHart}
    BY <1>1, <1>2, <1>6
       DEF TimerIrq, WakeSleeper, TimerDone, CanTrap, IJoined, IConsistent, ITyped
  <2>2. CASE TimerIrq \/ TimerDone
    BY <1>1, <2>1, <2>2, TimerLasting DEF TimerIrq, TimerDone
  <2>3. CASE WakeSleeper
    <3>1. PICK t \in Due(k) : k' = wake_sleeper(k, t)
      BY <2>3, WakesOne DEF IJoined, IConsistent, ITyped
    <3>2. QED
      BY <1>1, <2>1, <2>3, <3>1, TimerLasting DEF WakeSleeper
  <2>4. QED
    BY <1>6, <2>2, <2>3
<1>7. ASSUME UartIrq PROVE Lasting(k', k, {})
  BY <1>1, <1>7, UartLasting DEF UartIrq
<1>8. ASSUME NEW h \in Hart, Sleep(h) \/ Yield(h) PROVE Lasting(k', k, {})
  <2>1. PICK n \in Nat : k' = thread_sys_sleep(k, h, n)
    BY <1>8, ArgumentsAssumption DEF Sleep, Yield, thread_sys_yield
  <2>2. k.current[h] \in User
    BY <1>8 DEF Sleep, Yield, Ecall
  <2>3. QED
    BY <1>1, <1>3, <2>1, <2>2, SleepLasting
<1>9. ASSUME NEW h \in Hart, Create(h) PROVE Lasting(k', k, {})
  BY <1>1, <1>9, CreateLasting DEF Create
<1>10. ASSUME NEW h \in Hart, Exit(h) \/ Fault(h) PROVE \E c \in Tid : Dies(c)
  <2>1. PICK c \in Codes : k' = thread_sys_exit(k, h, c)
    BY <1>10 DEF Exit, Fault, Codes
  <2>2. k.current[h] \in User /\ k.current[h] \in Tid
    BY <1>10, Kinds DEF Exit, Fault, Ecall
  <2>3. Dies(k.current[h])
    BY <1>1, <1>3, <2>1, <2>2, ExitJoinedLasting
  <2>4. QED
    BY <2>2, <2>3
<1>11. ASSUME NEW h \in Hart, Join(h) PROVE Lasting(k', k, {})
  BY <1>1, <1>3, <1>11, JoinLasting DEF Join, Ecall
<1>12. ASSUME NEW h \in Hart, Detach(h) PROVE Lasting(k', k, {})
  BY <1>1, <1>12, DetachLasting DEF Detach
<1>13. ASSUME NEW h \in Hart, Read(h) PROVE Lasting(k', k, {})
  <2>1. PICK n \in Nat : k' = sys_read(k, h, n)
    BY <1>13, ArgumentsAssumption DEF Read
  <2>2. k.current[h] \in User
    BY <1>13 DEF Read, Ecall
  <2>3. QED
    BY <1>1, <1>3, <2>1, <2>2, ReadLasting
<1>14. \A h \in Hart : ~Kill(h)
  BY DEF Kill, Ecall, NoKill
<1>15. ASSUME UNCHANGED vars PROVE Lasting(k', k, {})
  BY <1>15 DEF vars, Lasting
<1> HIDE DEF Wakes, Dies
<1>16. Goal
  BY <1>4, <1>5, <1>6, <1>7, <1>8, <1>9, <1>10, <1>11, <1>12, <1>13, <1>14,
     <1>15 DEF Next
<1>17. QED
  BY <1>16 DEF Wakes, Dies

\* NotWokenEarly for any number of harts and threads while no thread is
\* killed: a SLEEPING thread leaves that state in the loop of threads_tick,
\* once its wakeup_tick has come, and by no other handler.
THEOREM SleepNotCutShort ==
  ASSUME NoKill
  PROVE  Spec => NotWokenEarly
<1> DEFINE A == \A t \in Tid : k.state[t] = "SLEEPING" /\ k'.state[t] # "SLEEPING" =>
                  ticking /\ k.wakeup_tick[t] = 0
<1>1. ASSUME IJoined, [Next]_vars PROVE A
  <2> SUFFICES ASSUME NEW t \in Tid, k.state[t] = "SLEEPING", k'.state[t] # "SLEEPING"
               PROVE  ticking /\ k.wakeup_tick[t] = 0
    OBVIOUS
  <2>1. Typed(k) /\ Joined(k)
    BY <1>1 DEF IJoined, IConsistent, ITyped
  <2>2. ~Lasting(k', k, {})
    BY DEF Lasting
  <2>3. ASSUME NEW c \in Tid PROVE ~Lasting(k', k, {k.join_waiter[c]})
    <3>1. k.join_waiter[c] # t
      BY <2>1, Kinds DEF Joined
    <3>2. QED
      BY <3>1 DEF Lasting
  <2>4. PICK u \in Due(k) : ticking /\ Lasting(k', k, {u})
    BY <2>2, <2>3, <1>1, LastingStep
  <2>5. t = u
    BY <2>4 DEF Lasting
  <2>6. k.wakeup_tick[t] \in Nat /\ k.wakeup_tick[t] <= 0
    BY <2>1, <2>5 DEF Due, Typed
  <2>7. QED
    BY <2>4, <2>6
<1>2. IJoined /\ [Next]_vars => [A]_vars
  BY <1>1
<1>3. Spec => []IJoined
  BY JoinedAlways
<1>4. QED
  BY <1>2, <1>3, PTL DEF Spec, NotWokenEarly

\* JoinReturnsAtDeath for any number of harts and threads while no thread is
\* killed: a joiner is released by release_joiner, in the exit of the thread
\* it waits for, and by nothing else.
THEOREM JoinEndsAtDeath ==
  ASSUME NoKill
  PROVE  Spec => JoinReturnsAtDeath
<1> DEFINE A == \A w, t \in Tid :
                  k.state[w] = "WAITING" /\ k.waiting_for[w] = t /\ k'.state[w] # "WAITING"
                  => /\ k.state[t] \notin {"UNUSED", "ZOMBIE"}
                     /\ k'.state[t] \in {"UNUSED", "ZOMBIE"}
<1>1. ASSUME IJoined, [Next]_vars PROVE A
  <2> SUFFICES ASSUME NEW w \in Tid, NEW t \in Tid, k.state[w] = "WAITING",
                      k.waiting_for[w] = t, k'.state[w] # "WAITING"
               PROVE  /\ k.state[t] \notin {"UNUSED", "ZOMBIE"}
                      /\ k'.state[t] \in {"UNUSED", "ZOMBIE"}
    OBVIOUS
  <2>1. Joined(k)
    BY <1>1 DEF IJoined
  <2>2. ~Lasting(k', k, {})
    BY DEF Lasting
  <2>3. ASSUME NEW u \in Due(k) PROVE ~Lasting(k', k, {u})
    BY DEF Lasting, Due
  <2>4. PICK c \in Tid : /\ k.state[c] = "RUNNING"
                         /\ k'.state[c] \in {"ZOMBIE", "UNUSED"}
                         /\ Lasting(k', k, {k.join_waiter[c]})
    BY <2>2, <2>3, <1>1, LastingStep
  <2>5. w = k.join_waiter[c]
    BY <2>4 DEF Lasting
  <2>6. t = c
    BY <2>1, <2>5 DEF Joined
  <2>7. QED
    BY <2>4, <2>6
<1>2. IJoined /\ [Next]_vars => [A]_vars
  BY <1>1
<1>3. Spec => []IJoined
  BY JoinedAlways
<1>4. QED
  BY <1>2, <1>3, PTL DEF Spec, JoinReturnsAtDeath

\* The conditions under which a kill is final.  Where threads are killed, none
\* joins (the exit of the joined thread would wake the killed joiner), and a
\* thread that was killed on another hart makes no call that blocks before
\* that hart takes the IPI.  The runs killed_joiner and killed_sleeper show
\* what happens otherwise.
KillsFinal ==
  \/ NoKill
  \/ /\ "JOIN" \notin Syscalls
     /\ MAX_HARTS = 1 \/ Syscalls \cap {"SLEEP", "READ"} = {}

\* Where nobody joins, no step revives a dead thread or makes a joiner.
LEMMA LoneStep ==
  ASSUME KillsFinal, "JOIN" \notin Syscalls, IAttended, NoRemoteKill => Consistent(k),
         \A t \in Tid : k.join_waiter[t] = NONE, [Next]_vars
  PROVE  /\ \A t \in Tid : k'.join_waiter[t] = NONE
         /\ \A t \in Tid : k.state[t] = "ZOMBIE" => k'.state[t] \in {"ZOMBIE", "UNUSED"}
<1> DEFINE Final == \A t \in Tid : k.state[t] = "ZOMBIE" =>
                      k'.state[t] \in {"ZOMBIE", "UNUSED"}
           Goal == Final /\ \A t \in Tid : k'.join_waiter[t] = NONE
<1>1. Typed(k) /\ Idling(k) /\ BootHart \in Hart
  BY BootAssumption DEF IAttended, ITyped, Attended, Grounded, Idling
<1>2. \A h \in Hart : k.current[h] # NONE => k.current[h] \in User \cup {h}
  BY DEF IAttended, Attended, Grounded
<1>3. ASSUME NEW X, \A t \in X : k.state[t] # "ZOMBIE" \/ k'.state[t] \in {"ZOMBIE", "UNUSED"},
             Lasting(k', k, X),
             \A t \in Tid : k'.join_waiter[t] \in {k.join_waiter[t], NONE}
      PROVE  Goal
  BY <1>3 DEF Lasting
<1>4. ASSUME Lasting(k', k, {}), Fading(k', k) PROVE Goal
  BY <1>3, <1>4 DEF Fading
<1>5. ASSUME NEW h \in Hart, k.current[h] \in User, NoRemoteKill
      PROVE  k.state[k.current[h]] = "RUNNING"
  BY <1>1, <1>5, Kinds, TakeTrap DEF Consistent
<1>6. Syscalls \cap {"SLEEP", "READ"} # {} => NoRemoteKill
  BY DEF KillsFinal, NoRemoteKill, NoKill
<1>7. ASSUME NEW h \in Hart, HartOnline(h) \/ EnterIdle(h) PROVE Goal
  BY <1>1, <1>4, <1>7, HartLasting DEF HartOnline, EnterIdle
<1>8. ASSUME NEW h \in Hart, IpiIrq(h) PROVE Goal
  BY <1>1, <1>2, <1>4, <1>8, HartLasting DEF IpiIrq, CanTrap
<1>9. ASSUME TimerIrq \/ WakeSleeper \/ TimerDone PROVE Goal
  <2>1. k.current[BootHart] \in User \cup {BootHart}
    BY <1>1, <1>2, <1>9
       DEF TimerIrq, WakeSleeper, TimerDone, CanTrap, IAttended, ITyped
  <2>2. CASE TimerIrq \/ TimerDone
    BY <1>1, <1>4, <2>1, <2>2, TimerLasting DEF TimerIrq, TimerDone
  <2>3. CASE WakeSleeper
    <3>1. PICK t \in Due(k) : k' = wake_sleeper(k, t)
      BY <2>3, WakesOne DEF IAttended, ITyped
    <3>2. Fading(k', k) /\ Lasting(k', k, {t})
      BY <1>1, <2>1, <3>1, TimerLasting
    <3>3. k.state[t] # "ZOMBIE"
      BY DEF Due
    <3>4. QED
      BY <1>3, <3>1, <3>2, <3>3 DEF Fading
  <2>4. QED
    BY <1>9, <2>2, <2>3
<1>10. ASSUME UartIrq PROVE Goal
  BY <1>1, <1>4, <1>10, UartLasting DEF UartIrq
<1>11. ASSUME NEW h \in Hart, Sleep(h) \/ Yield(h) PROVE Goal
  <2>1. PICK n \in Nat : k' = thread_sys_sleep(k, h, n) /\ (n = 0 \/ "SLEEP" \in Syscalls)
    BY <1>11, ArgumentsAssumption DEF Sleep, Yield, thread_sys_yield, Ecall
  <2>2. k.current[h] \in User
    BY <1>11 DEF Sleep, Yield, Ecall
  <2>3. n = 0 \/ k.state[k.current[h]] = "RUNNING"
    BY <1>5, <1>6, <2>1, <2>2
  <2>4. QED
    BY <1>1, <1>4, <2>1, <2>2, <2>3, SleepLasting
<1>12. ASSUME NEW h \in Hart, Create(h) PROVE Goal
  BY <1>1, <1>4, <1>12, CreateLasting DEF Create
<1>13. ASSUME NEW h \in Hart, Exit(h) \/ Fault(h) PROVE Goal
  <2>1. PICK c \in Codes : k' = thread_sys_exit(k, h, c)
    BY <1>13 DEF Exit, Fault, Codes
  <2>2. k.current[h] \in User /\ k.current[h] \in Tid
    BY <1>13, Kinds DEF Exit, Fault, Ecall
  <2>3. /\ Lasting(k', k, {k.current[h]}) /\ Fading(k', k)
        /\ k'.state[k.current[h]] \in {"ZOMBIE", "UNUSED"}
    BY <1>1, <2>1, <2>2, ExitLasting
  <2>4. QED
    BY <1>3, <2>3 DEF Fading
<1>14. ASSUME NEW h \in Hart, Kill(h) PROVE Goal
  <2>1. PICK t \in Tid : k' = thread_sys_kill(k, h, t)
    BY <1>14 DEF Kill
  <2>2. /\ Lasting(k', k, {t}) /\ Fading(k', k)
        /\ k.state[t] = "ZOMBIE" => k'.state[t] = "ZOMBIE"
    BY <1>1, <2>1, KillLasting
  <2>3. QED
    BY <1>3, <2>2 DEF Fading
<1>15. ASSUME NEW h \in Hart, Detach(h) PROVE Goal
  <2>1. PICK t \in Tid : k' = thread_sys_detach(k, h, t)
    BY <1>15 DEF Detach
  <2>2. /\ Lasting(k', k, {})
        /\ \A u \in Tid : k'.join_waiter[u] \in {k.join_waiter[u], NONE}
    BY <1>1, <2>1, DetachLasting
  <2>3. QED
    BY <1>3, <2>2
<1>16. ASSUME NEW h \in Hart, Read(h) PROVE Goal
  <2>1. PICK n \in Nat : k' = sys_read(k, h, n)
    BY <1>16, ArgumentsAssumption DEF Read
  <2>2. k.current[h] \in User /\ "READ" \in Syscalls
    BY <1>16 DEF Read, Ecall
  <2>3. k.state[k.current[h]] = "RUNNING"
    BY <1>5, <1>6, <2>2
  <2>4. QED
    BY <1>1, <1>4, <2>1, <2>2, <2>3, ReadLasting
<1>17. \A h \in Hart : ~Join(h)
  BY DEF Join, Ecall
<1>18. ASSUME UNCHANGED vars PROVE Goal
  BY <1>18 DEF vars
<1> HIDE DEF Goal
<1>19. Goal
  BY <1>7, <1>8, <1>9, <1>10, <1>11, <1>12, <1>13, <1>14, <1>15, <1>16, <1>17,
     <1>18 DEF Next
<1>20. QED
  BY <1>19 DEF Goal

\* DeadStayDead for any number of harts and threads, kills included, if kills
\* are final: schedule requeues only a RUNNING thread, thread_wake only a
\* BLOCKED one, threads_tick only a SLEEPING one, and a slot is given to a new
\* thread only after it was recycled.
THEOREM DeathIsFinal ==
  ASSUME KillsFinal
  PROVE  Spec => DeadStayDead
<1> DEFINE A == \A t \in Tid : k.state[t] = "ZOMBIE" =>
                  k'.state[t] \in {"ZOMBIE", "UNUSED"}
<1>1. CASE NoKill
  <2>1. ASSUME IJoined, [Next]_vars PROVE A
    <3> SUFFICES ASSUME NEW t \in Tid, k.state[t] = "ZOMBIE"
                 PROVE  k'.state[t] \in {"ZOMBIE", "UNUSED"}
      OBVIOUS
    <3>1. Joined(k)
      BY <2>1 DEF IJoined
    <3>2. \A c \in Tid : k.join_waiter[c] # t
      BY <3>1, Kinds DEF Joined
    <3>3. \A u \in Due(k) : u # t
      BY DEF Due
    <3>4. \E X : t \notin X /\ Lasting(k', k, X)
      BY <3>2, <3>3, <2>1, <1>1, LastingStep
    <3>5. QED
      BY <3>4 DEF Lasting
  <2>2. IJoined /\ [Next]_vars => [A]_vars
    BY <2>1
  <2>3. Spec => []IJoined
    BY <1>1, JoinedAlways
  <2>4. QED
    BY <2>2, <2>3, PTL DEF Spec, DeadStayDead
<1>2. CASE "JOIN" \notin Syscalls
  <2> DEFINE I == /\ IAttended /\ (NoRemoteKill => Consistent(k))
                  /\ \A t \in Tid : k.join_waiter[t] = NONE
  <2>1. Init => I
    <3>1. Init => ITyped /\ Consistent(k)
      BY InitInvariant
    <3>2. Init => Attended(k, {BootHart})
      BY InitAttended DEF Init
    <3>3. Init => \A t \in Tid : k.join_waiter[t] = NONE
      BY DEF Init, threads_init
    <3>4. QED
      BY <3>1, <3>2, <3>3 DEF IAttended
  <2>2. I /\ [Next]_vars => I' /\ A
    <3> SUFFICES ASSUME I, [Next]_vars PROVE I' /\ A
      OBVIOUS
    <3>1. IAttended'
      BY AttendedStep
    <3>2. (NoRemoteKill => Consistent(k))'
      BY NextStep DEF IAttended, NoRemoteKill
    <3>3. (\A t \in Tid : k'.join_waiter[t] = NONE) /\ A
      BY <1>2, LoneStep
    <3>4. QED
      BY <3>1, <3>2, <3>3
  <2>3. I /\ [Next]_vars => [A]_vars
    BY <2>2
  <2>4. QED
    BY <2>1, <2>2, <2>3, PTL DEF Spec, DeadStayDead
<1>3. QED
  BY <1>1, <1>2 DEF KillsFinal

----------------------------------------------------------------------------
(* Slots of running threads, kills included.                               *)

\* Different harts run different threads, and the slot of a thread that a
\* hart of H runs is held.
Held(s, H) ==
  /\ \A g, h \in Hart : s.current[g] # NONE /\ s.current[g] = s.current[h] => g = h
  /\ \A h \in H : s.current[h] # NONE => s.state[s.current[h]] \in {"RUNNING", "ZOMBIE"}

\* Nobody is joined and nobody is detached, so no slot is ever recycled.
Unclaimed(s) == \A t \in Tid : s.join_waiter[t] = NONE /\ ~s.detached[t]

\* A change of the states of threads that no hart runs.
LEMMA HeldSame ==
  ASSUME NEW s, Typed(s), NEW H, H \subseteq Hart, Held(s, H), NEW m, m.current = s.current,
         \A t \in Tid : s.state[t] \in {"RUNNING", "ZOMBIE"} /\ m.state[t] # s.state[t]
           => m.state[t] \in {"RUNNING", "ZOMBIE"}
  PROVE  Held(m, H)
<1>1. \A h \in H : s.current[h] # NONE => s.current[h] \in Tid
  BY DEF Typed
<1>2. QED
  BY <1>1 DEF Held

\* schedule on hart h, when the slots of the threads on the other harts are
\* held.
LEMMA ScheduleHeld ==
  ASSUME NEW s, Typed(s), NEW h \in Hart, s.current[h] \in User \cup {h},
         \A g \in Hart : s.current[g] \in User \cup {g, NONE},
         Idling(s), Unclaimed(s), Held(s, Hart \ {h})
  PROVE  Held(schedule(s, h), Hart)
<1> DEFINE r == schedule(s, h)
           cur == s.current[h]
           next == r.current[h]
<1>1. cur # NONE /\ h \notin User /\ cur \in Tid /\ NONE \notin Tid
  BY Kinds
<1>2. Typed(r) /\ Scheduled(r, s, h)
  BY <1>1, ScheduleAll
<1> HIDE DEF r
<1>3. /\ next \in Tid
      /\ next = h \/ next = cur \/ s.state[next] = "RUNNABLE"
      /\ \A g \in Hart \ {h} : r.current[g] = s.current[g]
  BY <1>2 DEF Scheduled
<1>4. \A t \in Tid : r.state[t] = IF t = next THEN "RUNNING"
                                  ELSE IF t = cur THEN StateOff(s, h) ELSE s.state[t]
  BY <1>2 DEF Scheduled
<1>5. ASSUME NEW g \in Hart \ {h}, s.current[g] # NONE
      PROVE  /\ s.current[g] \in Tid
             /\ s.current[g] # cur /\ s.current[g] # next
             /\ s.state[s.current[g]] \in {"RUNNING", "ZOMBIE"}
  <2>1. s.current[g] \in Tid /\ s.current[g] \in User \cup {g}
    BY <1>5, Kinds
  <2>2. s.current[g] # cur /\ s.state[s.current[g]] \in {"RUNNING", "ZOMBIE"}
    BY <1>5, <1>1 DEF Held
  <2>3. s.current[g] # h
    BY <2>1, <1>1
  <2>4. QED
    BY <2>1, <2>2, <2>3, <1>3
<1>6. ASSUME NEW f \in Hart, NEW g \in Hart,
             r.current[f] # NONE, r.current[f] = r.current[g]
      PROVE  f = g
  <2>1. CASE f # h /\ g # h
    BY <2>1, <1>3, <1>6 DEF Held
  <2>2. CASE f = h \/ g = h
    BY <2>2, <1>3, <1>5, <1>6
  <2>3. QED
    BY <2>1, <2>2
<1>7. ASSUME NEW g \in Hart, r.current[g] # NONE
      PROVE  r.state[r.current[g]] \in {"RUNNING", "ZOMBIE"}
  <2>1. CASE g = h
    BY <2>1, <1>3, <1>4
  <2>2. CASE g # h
    BY <2>2, <1>3, <1>4, <1>5, <1>7
  <2>3. QED
    BY <2>1, <2>2
<1>8. QED
  BY <1>6, <1>7 DEF Held, r

\* schedule at the end of a handler that changed the state of its own thread
\* only.
LEMMA BlockHeld ==
  ASSUME NEW s, Typed(s), NEW h \in Hart, s.current[h] \in User,
         \A g \in Hart : s.current[g] \in User \cup {g, NONE},
         Idling(s), Unclaimed(s), Held(s, Hart),
         NEW m, Typed(m), m.current = s.current,
         m.join_waiter = s.join_waiter, m.detached = s.detached,
         \A u \in Tid \ {s.current[h]} : m.state[u] = s.state[u]
  PROVE  Held(schedule(m, h), Hart)
<1>1. Idling(m) /\ Unclaimed(m)
  BY Kinds DEF Idling, Unclaimed
<1>2. Held(m, Hart \ {h})
  <2>1. \A g \in Hart \ {h} : s.current[g] # NONE =>
          s.current[g] \in Tid \ {s.current[h]}
    BY Kinds DEF Held
  <2>2. QED
    BY <2>1 DEF Held
<1>3. m.current[h] \in User \cup {h}
  OBVIOUS
<1>4. \A g \in Hart : m.current[g] \in User \cup {g, NONE}
  OBVIOUS
<1>5. QED
  BY <1>1, <1>2, <1>3, <1>4, ScheduleHeld

\* thread_make_runnable leaves a RUNNING thread alone.
LEMMA MakeRunnableHeld ==
  ASSUME NEW s, Typed(s), Held(s, Hart), NEW t \in Tid, s.state[t] # "ZOMBIE",
         NEW r, MadeRunnable(r, s, t)
  PROVE  Held(r, Hart)
<1>1. CASE r = s
  BY <1>1
<1>2. CASE r # s
  <2>1. /\ Frame(r, s, {"rq", "state", "wakeup_tick", "ipi"})
        /\ s.state[t] # "RUNNING"
        /\ r.state = [s.state EXCEPT ![t] = "RUNNABLE"]
    BY <1>2, Zenon DEF MadeRunnable
  <2>2. r.current = s.current
    BY <2>1 DEF Frame, Fields
  <2>3. \A u \in Tid : r.state[u] = IF u = t THEN "RUNNABLE" ELSE s.state[u]
    BY <2>1 DEF Typed
  <2>4. QED
    BY <2>1, <2>2, <2>3, HeldSame
<1>3. QED
  BY <1>1, <1>2

\* thread_sys_sleep and thread_sys_yield.
LEMMA SleepHeld ==
  ASSUME NEW s, Typed(s), NEW h \in Hart, s.current[h] \in User, NEW n \in Nat,
         \A g \in Hart : s.current[g] \in User \cup {g, NONE},
         Idling(s), Unclaimed(s), Held(s, Hart)
  PROVE  Held(thread_sys_sleep(s, h, n), Hart)
<1> DEFINE cur == s.current[h]
           m == [s EXCEPT !.state[cur] = "SLEEPING", !.wakeup_tick[cur] = n]
<1>1. cur \in Tid
  BY Kinds
<1>2. CASE n = 0
  BY <1>2, BlockHeld DEF thread_sys_sleep
<1>3. CASE n # 0
  <2>1. /\ Typed(m) /\ Frame(m, s, {"state", "wakeup_tick"})
        /\ \A u \in Tid : m.state[u] = IF u = cur THEN "SLEEPING" ELSE s.state[u]
    BY <1>1, SleepFields
  <2>2. thread_sys_sleep(s, h, n) = schedule(m, h)
    BY <1>3 DEF thread_sys_sleep
  <2> HIDE DEF m
  <2>3. /\ m.current = s.current /\ m.join_waiter = s.join_waiter
        /\ m.detached = s.detached
    BY <2>1 DEF Frame, Fields
  <2>4. QED
    BY <2>1, <2>2, <2>3, BlockHeld
<1>4. QED
  BY <1>2, <1>3

\* thread_sys_create takes a slot that no hart runs.
LEMMA CreateHeld ==
  ASSUME NEW s, Typed(s), NEW h \in Hart, Held(s, Hart)
  PROVE  Held(thread_sys_create(s, h), Hart)
<1> DEFINE t == Min(FreeSlots(s))
           m == [s EXCEPT !.state[t] = "RUNNABLE", !.wakeup_tick[t] = 0,
                          !.detached[t] = FALSE, !.ret[t] = "none"]
<1>1. CASE FreeSlots(s) = {}
  BY <1>1 DEF thread_sys_create
<1>2. CASE FreeSlots(s) # {}
  <2>1. t \in Tid /\ s.state[t] = "UNUSED"
    <3>1. FreeSlots(s) \subseteq Nat
      BY DEF FreeSlots, Tid
    <3>2. t \in FreeSlots(s)
      BY <1>2, <3>1, MinOfNats
    <3>3. QED
      BY <3>2 DEF FreeSlots
  <2>2. thread_sys_create(s, h) = thread_make_runnable(m, h, t, h)
    BY <1>2 DEF thread_sys_create
  <2> HIDE DEF t
  <2>3. /\ Typed(m) /\ Frame(m, s, {"state", "wakeup_tick", "detached", "ret"})
        /\ \A u \in Tid : m.state[u] = IF u = t THEN "RUNNABLE" ELSE s.state[u]
    BY <2>1, CreateFields
  <2> HIDE DEF m
  <2>4. m.current = s.current
    BY <2>3 DEF Frame, Fields
  <2>5. Held(m, Hart) /\ m.state[t] # "ZOMBIE"
    BY <2>1, <2>3, <2>4, HeldSame
  <2>6. MadeRunnable(thread_make_runnable(m, h, t, h), m, t)
    BY <2>1, <2>3, MakeRunnableFields
  <2>7. QED
    BY <2>1, <2>2, <2>3, <2>5, <2>6, MakeRunnableHeld
<1>3. QED
  BY <1>1, <1>2

\* thread_sys_exit.
LEMMA ExitHeld ==
  ASSUME NEW s, Typed(s), NEW h \in Hart, s.current[h] \in User, NEW code \in Codes,
         \A g \in Hart : s.current[g] \in User \cup {g, NONE},
         Idling(s), Unclaimed(s), Held(s, Hart)
  PROVE  Held(thread_sys_exit(s, h, code), Hart)
<1> DEFINE cur == s.current[h]
           m == [s EXCEPT !.state[cur] = "ZOMBIE", !.exit_code[cur] = code]
<1>1. cur \in Tid
  BY Kinds
<1>2. thread_sys_exit(s, h, code) = schedule(m, h)
  BY <1>1 DEF thread_sys_exit, Unclaimed
<1>3. /\ Typed(m) /\ Frame(m, s, {"state", "exit_code"})
      /\ \A u \in Tid : m.state[u] = IF u = cur THEN "ZOMBIE" ELSE s.state[u]
  BY <1>1, DeadFields
<1> HIDE DEF m
<1>4. /\ m.current = s.current /\ m.join_waiter = s.join_waiter
      /\ m.detached = s.detached
  BY <1>3 DEF Frame, Fields
<1>5. QED
  BY <1>2, <1>3, <1>4, BlockHeld

\* thread_sys_kill: the victim may be running, and is a ZOMBIE then.
LEMMA KillHeld ==
  ASSUME NEW s, Typed(s), NEW h \in Hart, NEW t \in Tid, Unclaimed(s), Held(s, Hart)
  PROVE  Held(thread_sys_kill(s, h, t), Hart)
<1> DEFINE rh == s.running_hart[t]
           a == [s EXCEPT !.state[t] = "ZOMBIE", !.exit_code[t] = "killed",
                          !.wakeup_tick[t] = 0]
           dead == rq_remove_any(a, t)
           kicked == IF rh \in Hart \ {h} THEN smp_kick_hart(dead, rh) ELSE dead
<1>1. thread_sys_kill(s, h, t) = IF kill_refused(s, h, t) THEN s ELSE kicked
  BY DEF thread_sys_kill, Unclaimed
<1>2. /\ Typed(a) /\ Frame(a, s, {"state", "exit_code", "wakeup_tick"})
      /\ \A u \in Tid : a.state[u] = IF u = t THEN "ZOMBIE" ELSE s.state[u]
  BY KilledFields
<1> HIDE DEF a
<1>3. Unlinked(dead, a, t) /\ Typed(dead)
  BY <1>2, RemoveFields
<1> HIDE DEF dead
<1>4. dead.state = a.state /\ dead.current = s.current
  BY <1>2, <1>3 DEF Unlinked, Frame, Fields
<1>5. kicked.state = dead.state /\ kicked.current = dead.current
  <2>1. CASE rh \notin Hart \ {h}
    BY <2>1
  <2>2. CASE rh \in Hart \ {h}
    <3>1. Kicked(kicked, dead)
      BY <2>2, <1>3, KickFields
    <3> HIDE DEF kicked
    <3>2. QED
      BY <3>1 DEF Kicked, Frame, Fields
  <2>3. QED
    BY <2>1, <2>2
<1> HIDE DEF kicked, rh
<1>6. Held(kicked, Hart)
  BY <1>2, <1>4, <1>5, HeldSame
<1>7. QED
  BY <1>1, <1>6

\* sys_read.
LEMMA ReadHeld ==
  ASSUME NEW s, Typed(s), NEW h \in Hart, s.current[h] \in User, NEW len \in Nat,
         \A g \in Hart : s.current[g] \in User \cup {g, NONE},
         Idling(s), Unclaimed(s), Held(s, Hart)
  PROVE  Held(sys_read(s, h, len), Hart)
<1> DEFINE r == sys_read(s, h, len)
           cur == s.current[h]
<1>1. cur \in Tid
  BY Kinds
<1>2. \/ Frame(r, s, {"rx"})
      \/ \E m : r = schedule(m, h) /\ Typed(m) /\ Reading(m, s, cur, len)
  BY <1>1, ReadFields
<1> HIDE DEF r
<1>3. CASE Frame(r, s, {"rx"})
  <2>1. r.state = s.state /\ r.current = s.current
    BY <1>3 DEF Frame, Fields
  <2>2. QED
    BY <2>1 DEF Held, r
<1>4. ASSUME NEW m, r = schedule(m, h), Typed(m), Reading(m, s, cur, len)
      PROVE  Held(r, Hart)
  <2>1. /\ m.current = s.current /\ m.join_waiter = s.join_waiter
        /\ m.detached = s.detached
        /\ \A u \in Tid \ {cur} : m.state[u] = s.state[u]
    BY <1>4 DEF Reading, Frame, Fields
  <2>2. QED
    BY <2>1, <1>4, BlockHeld
<1>5. QED
  BY <1>2, <1>3, <1>4 DEF r

\* console_on_char_from_irq.
LEMMA UartHeld ==
  ASSUME NEW s, Typed(s), NEW h \in Hart, Held(s, Hart)
  PROVE  Held(console_on_char_from_irq(s, h), Hart)
<1> DEFINE w == s.g_stdin_waiter
           r == console_on_char_from_irq(s, h)
<1>1. PICK m :
        /\ Typed(m) /\ Frame(m, s, {"rx", "ret", "pending_read"})
        /\ \/ r = m
           \/ /\ w \in Tid
              /\ r = [thread_wake(m, h, w) EXCEPT !.g_stdin_waiter = NONE]
  BY UartFields
<1> HIDE DEF r
<1>2. m.state = s.state /\ m.current = s.current
  BY <1>1 DEF Frame, Fields
<1>3. Held(m, Hart)
  BY <1>2 DEF Held
<1>4. CASE r = m
  BY <1>3, <1>4 DEF r
<1>5. CASE w \in Tid /\ r = [thread_wake(m, h, w) EXCEPT !.g_stdin_waiter = NONE]
  <2> DEFINE x == thread_wake(m, h, w)
             y == thread_make_runnable(m, h, w, h)
  <2>1. MadeRunnable(y, m, w)
    BY <1>1, <1>5, MakeRunnableFields
  <2>2. x = IF m.state[w] = "BLOCKED" THEN y ELSE m
    BY DEF thread_wake
  <2> HIDE DEF x, y
  <2>3. Typed(y) /\ (m.state[w] = "BLOCKED" => Held(y, Hart))
    BY <2>1, <1>1, <1>3, <1>5, MakeRunnableTyped, MakeRunnableHeld
  <2>4. Held(x, Hart) /\ DOMAIN x = Fields
    <3>1. Typed(x) /\ Held(x, Hart)
      BY <2>2, <2>3, <1>1, <1>3
    <3>2. QED
      BY <3>1 DEF Typed
  <2>5. r = [x EXCEPT !.g_stdin_waiter = NONE]
    BY <1>5 DEF x
  <2>6. r.state = x.state /\ r.current = x.current
    BY <2>4, <2>5 DEF Fields
  <2>7. QED
    BY <2>4, <2>6 DEF Held, r
<1>6. QED
  BY <1>1, <1>4, <1>5

\* The three parts of sched_on_timer_irq.
LEMMA TimerHeld ==
  ASSUME NEW s, Typed(s), s.current[BootHart] \in User \cup {BootHart},
         \A g \in Hart : s.current[g] \in User \cup {g, NONE},
         Idling(s), Unclaimed(s), Held(s, Hart)
  PROVE  /\ Held(tick(s), Hart)
         /\ \A t \in Due(s) : Held(wake_sleeper(s, t), Hart)
         /\ Held(end_of_tick(s, BootHart), Hart)
<1>1. BootHart \in Hart
  BY BootAssumption
<1>2. Held(tick(s), Hart)
  <2>1. tick(s).state = s.state /\ tick(s).current = s.current
    BY DEF tick, Typed, Fields
  <2>2. QED
    BY <2>1 DEF Held
<1>3. ASSUME NEW t \in Due(s) PROVE Held(wake_sleeper(s, t), Hart)
  <2>3. t \in Tid /\ s.state[t] # "ZOMBIE"
    BY DEF Due
  <2>4. wake_sleeper(s, t) = thread_make_runnable(s, BootHart, t, BootHart)
    BY DEF wake_sleeper
  <2>5. MadeRunnable(thread_make_runnable(s, BootHart, t, BootHart), s, t)
    BY <2>3, <1>1, MakeRunnableFields
  <2>6. QED
    BY <2>3, <2>4, <2>5, MakeRunnableHeld
<1>4. Held(end_of_tick(s, BootHart), Hart)
  <2> DEFINE m == [s EXCEPT !.slice_left[BootHart] = @ - 1]
  <2>1. m.state = s.state /\ m.current = s.current
    BY DEF Typed, Fields
  <2>2. Held(m, Hart)
    BY <2>1 DEF Held
  <2>3. Held(s, Hart \ {BootHart})
    BY DEF Held
  <2>4. Held(schedule(s, BootHart), Hart)
    BY <2>3, <1>1, ScheduleHeld
  <2>5. QED
    BY <2>2, <2>4 DEF end_of_tick
<1>5. QED
  BY <1>2, <1>3, <1>4

\* sched_on_ipi_irq and the two steps in which a hart comes up.
LEMMA HartHeld ==
  ASSUME NEW s, Typed(s), NEW h \in Hart,
         \A g \in Hart : s.current[g] \in User \cup {g, NONE},
         Idling(s), Unclaimed(s), Held(s, Hart)
  PROVE  /\ s.current[h] \in User \cup {h} => Held(sched_on_ipi_irq(s, h), Hart)
         /\ Held(cpu_init_this_hart(s, h), Hart)
         /\ s.current[h] = NONE => Held(cpu_enter_idle(s, h), Hart)
<1>1. ASSUME s.current[h] \in User \cup {h} PROVE Held(sched_on_ipi_irq(s, h), Hart)
  <2> DEFINE m == [s EXCEPT !.ipi[h] = FALSE]
  <2>1. Typed(m) /\ Frame(m, s, {"ipi"})
    BY AckFields
  <2>2. sched_on_ipi_irq(s, h) = schedule(m, h)
    BY DEF sched_on_ipi_irq
  <2> HIDE DEF m
  <2>3. /\ m.current = s.current /\ m.state = s.state
        /\ m.join_waiter = s.join_waiter /\ m.detached = s.detached
    BY <2>1 DEF Frame, Fields
  <2>4. Held(m, Hart \ {h}) /\ Idling(m) /\ Unclaimed(m)
    BY <2>3 DEF Held, Idling, Unclaimed
  <2>5. /\ m.current[h] \in User \cup {h}
        /\ \A g \in Hart : m.current[g] \in User \cup {g, NONE}
    BY <2>3, <1>1
  <2>6. QED
    BY <2>1, <2>2, <2>4, <2>5, ScheduleHeld
<1>2. Held(cpu_init_this_hart(s, h), Hart)
  <2> DEFINE r == cpu_init_this_hart(s, h)
  <2>1. r.state = s.state /\ r.current = [s.current EXCEPT ![h] = NONE]
    BY DEF cpu_init_this_hart, Typed, Fields
  <2> HIDE DEF r
  <2>2. \A g \in Hart : r.current[g] = IF g = h THEN NONE ELSE s.current[g]
    BY <2>1 DEF Typed
  <2>3. Held(r, Hart)
    BY <2>1, <2>2 DEF Held
  <2>4. QED
    BY <2>3 DEF r
<1>3. ASSUME s.current[h] = NONE PROVE Held(cpu_enter_idle(s, h), Hart)
  <2> DEFINE r == cpu_enter_idle(s, h)
  <2>1. /\ r.state = [s.state EXCEPT ![h] = "RUNNING"]
        /\ r.current = [s.current EXCEPT ![h] = h]
    BY DEF cpu_enter_idle, Typed, Fields
  <2> HIDE DEF r
  <2>2. \A u \in Tid : r.state[u] = IF u = h THEN "RUNNING" ELSE s.state[u]
    BY <2>1 DEF Typed
  <2>3. \A g \in Hart : r.current[g] = IF g = h THEN h ELSE s.current[g]
    BY <2>1 DEF Typed
  <2>4. \A g \in Hart \ {h} : s.current[g] # h /\ (s.current[g] # NONE => s.current[g] \in Tid)
    BY Kinds
  <2>5. h \in Tid
    BY Kinds
  <2>6. Held(r, Hart)
    BY <2>2, <2>3, <2>4, <2>5 DEF Held
  <2>7. QED
    BY <2>6 DEF r
<1>4. QED
  BY <1>1, <1>2, <1>3

\* The inductive invariant of systems in which nobody joins or detaches.
IHeld == IAttended /\ Unclaimed(k) /\ Held(k, Hart)

\* Every step keeps it.
LEMMA HeldStep ==
  ASSUME Syscalls \cap {"JOIN", "DETACH"} = {}
  PROVE  IHeld /\ [Next]_vars => IHeld'
<1> SUFFICES ASSUME IHeld, [Next]_vars PROVE IHeld'
  OBVIOUS
<1> DEFINE Goal == Held(k', Hart) /\ Fading(k', k)
<1>1. /\ Typed(k) /\ Idling(k) /\ Unclaimed(k) /\ Held(k, Hart) /\ BootHart \in Hart
      /\ \A g \in Hart : k.current[g] \in User \cup {g, NONE}
  BY BootAssumption DEF IHeld, IAttended, ITyped, Attended, Grounded, Idling
<1>2. \A h \in Hart : k.current[h] # NONE => k.current[h] \in User \cup {h}
  BY <1>1
<1>3. ASSUME NEW h \in Hart, HartOnline(h) \/ EnterIdle(h) PROVE Goal
  BY <1>1, <1>3, HartHeld, HartLasting DEF HartOnline, EnterIdle
<1>4. ASSUME NEW h \in Hart, IpiIrq(h) PROVE Goal
  <2>1. k.current[h] \in User \cup {h} /\ k' = sched_on_ipi_irq(k, h)
    BY <1>2, <1>4 DEF IpiIrq, CanTrap
  <2>2. QED
    BY <1>1, <2>1, HartHeld, HartLasting
<1>5. ASSUME TimerIrq \/ WakeSleeper \/ TimerDone PROVE Goal
  <2>1. k.current[BootHart] \in User \cup {BootHart}
    BY <1>1, <1>2, <1>5
       DEF TimerIrq, WakeSleeper, TimerDone, CanTrap, IHeld, IAttended, ITyped
  <2>2. WakeSleeper => \E t \in Due(k) : k' = wake_sleeper(k, t)
    BY WakesOne DEF IHeld, IAttended, ITyped
  <2>3. Held(k', Hart)
    BY <1>1, <1>5, <2>1, <2>2, TimerHeld DEF TimerIrq, TimerDone
  <2>4. Fading(k', k)
    BY <1>1, <1>5, <2>1, <2>2, TimerLasting DEF TimerIrq, TimerDone
  <2>5. QED
    BY <2>3, <2>4
<1>6. ASSUME UartIrq PROVE Goal
  BY <1>1, <1>6, UartHeld, UartLasting DEF UartIrq
<1>7. ASSUME NEW h \in Hart, Sleep(h) \/ Yield(h) PROVE Goal
  <2>1. PICK n \in Nat : k' = thread_sys_sleep(k, h, n)
    BY <1>7, ArgumentsAssumption DEF Sleep, Yield, thread_sys_yield
  <2>2. k.current[h] \in User
    BY <1>7 DEF Sleep, Yield, Ecall
  <2>3. QED
    BY <1>1, <2>1, <2>2, SleepHeld, SleepLasting
<1>8. ASSUME NEW h \in Hart, Create(h) PROVE Goal
  BY <1>1, <1>8, CreateHeld, CreateLasting DEF Create
<1>9. ASSUME NEW h \in Hart, Exit(h) \/ Fault(h) PROVE Goal
  <2>1. PICK c \in Codes : k' = thread_sys_exit(k, h, c)
    BY <1>9 DEF Exit, Fault, Codes
  <2>2. k.current[h] \in User /\ k.current[h] \in Tid
    BY <1>9, Kinds DEF Exit, Fault, Ecall
  <2>3. k.join_waiter[k.current[h]] = NONE
    BY <1>1, <2>2 DEF Unclaimed
  <2>4. QED
    BY <1>1, <2>1, <2>2, <2>3, ExitHeld, ExitLasting
<1>10. ASSUME NEW h \in Hart, Kill(h) PROVE Goal
  <2>1. PICK t \in Tid : k' = thread_sys_kill(k, h, t)
    BY <1>10 DEF Kill
  <2>2. k.join_waiter[t] = NONE
    BY <1>1 DEF Unclaimed
  <2>3. QED
    BY <1>1, <2>1, <2>2, KillHeld, KillLasting
<1>11. ASSUME NEW h \in Hart, Read(h) PROVE Goal
  <2>1. PICK n \in Nat : k' = sys_read(k, h, n)
    BY <1>11, ArgumentsAssumption DEF Read
  <2>2. k.current[h] \in User
    BY <1>11 DEF Read, Ecall
  <2>3. QED
    BY <1>1, <2>1, <2>2, ReadHeld, ReadLasting
<1>12. \A h \in Hart : ~Join(h) /\ ~Detach(h)
  BY DEF Join, Detach, Ecall
<1>13. ASSUME UNCHANGED vars PROVE Goal
  BY <1>1, <1>13 DEF vars, Fading
<1> HIDE DEF Goal
<1>14. Goal
  BY <1>3, <1>4, <1>5, <1>6, <1>7, <1>8, <1>9, <1>10, <1>11, <1>12, <1>13 DEF Next
<1>15. Unclaimed(k')
  BY <1>1, <1>14 DEF Goal, Fading, Unclaimed
<1>16. IAttended'
  BY AttendedStep DEF IHeld
<1>17. QED
  BY <1>14, <1>15, <1>16 DEF Goal, IHeld

\* SlotHeldWhileRunning with kills across harts, if nobody joins or detaches:
\* a thread killed while another hart runs it stays a ZOMBIE in its slot until
\* that hart has switched away.  With join, the slot of such a thread is
\* recycled under it (the run recycled_running).
THEOREM SlotHeldDespiteKill ==
  ASSUME Syscalls \cap {"JOIN", "DETACH"} = {}
  PROVE  Spec => []SlotHeldWhileRunning
<1>1. Init => IHeld
  <2> SUFFICES ASSUME Init PROVE IHeld
    OBVIOUS
  <2>1. ITyped /\ Attended(k, {BootHart})
    BY InitInvariant, InitAttended DEF Init
  <2>2. /\ k.current = [h \in Hart |-> NONE]
        /\ k.join_waiter = [t \in Tid |-> NONE]
        /\ k.detached = [t \in Tid |-> FALSE]
    BY DEF Init, threads_init
  <2>3. Held(k, Hart)
    BY <2>2 DEF Held
  <2>4. \A t \in Tid : k.join_waiter[t] = NONE
    BY <2>2
  <2>5. \A t \in Tid : ~k.detached[t]
    BY <2>2
  <2>6. QED
    BY <2>1, <2>3, <2>4, <2>5 DEF IHeld, IAttended, Unclaimed
<1>2. IHeld /\ [Next]_vars => IHeld'
  BY HeldStep
<1>3. IHeld => SlotHeldWhileRunning
  BY DEF IHeld, Held, SlotHeldWhileRunning
<1>4. QED
  BY <1>1, <1>2, <1>3, PTL DEF Spec
=============================================================================

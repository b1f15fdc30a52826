------------------------------ MODULE RunQueue ------------------------------
(***************************************************************************)
(* The linked lists of kernel/runqueue.c: head, tail and len of every      *)
(* hart, rq_next and on_rq of every thread.  The functions run under the   *)
(* kernel lock, so one is in progress at a time; a loop over a list takes  *)
(* one step for each node it visits.                                       *)
(*                                                                         *)
(* queue is an auxiliary variable: the sequence that each list stands for, *)
(* changed only where a list is changed.  No step of the code reads it.    *)
(* Callers outside runqueue.c also write rq_next = -1 and on_rq = 0        *)
(* (thread_sys_sleep, thread_sys_exit, recycle_thread), always for a       *)
(* thread on no queue, where both hold these values already                *)
(* (QueuesConsistent of Kernel.tla).                                       *)
(***************************************************************************)
EXTENDS Integers, Sequences, SequencesExt

CONSTANTS
  MAX_HARTS,     \* number of harts
  THREAD_MAX,    \* size of g_threads
  SnapshotSizes  \* the buffer sizes that rq_snapshot is called with

Hart == 0 .. MAX_HARTS - 1
User == MAX_HARTS .. THREAD_MAX - 1
NONE == -1

ASSUME RunQueueAssumption ==
  /\ MAX_HARTS \in Nat \ {0} /\ THREAD_MAX \in Nat /\ THREAD_MAX > MAX_HARTS
  /\ SnapshotSizes \subseteq Nat \ {0}

VARIABLES
  head, tail, len,  \* runqueue_t of each hart
  rq_next, on_rq,   \* the list members of each Thread
  walk,             \* the loop in progress: its locals, and pos, the number
                    \* of the node cur in its list (pos is auxiliary)
  ret,              \* the last call that returned, its arguments and result
  dst,              \* what the last rq_snapshot wrote to its buffer
  queue             \* auxiliary
lists == <<head, tail, len, rq_next, on_rq, queue>>
vars == <<lists, walk, ret, dst>>

\* No call is in progress.
Idle == [pc |-> "none", h |-> 0, t |-> NONE, prev |-> NONE, cur |-> NONE,
         pos |-> 1, any |-> 0, max |-> 0, out |-> <<>>]

Init ==
  /\ head = [h \in Hart |-> NONE] /\ tail = [h \in Hart |-> NONE]
  /\ len = [h \in Hart |-> 0]
  /\ rq_next = [t \in User |-> NONE] /\ on_rq = [t \in User |-> 0]
  /\ walk = Idle /\ ret = <<>> /\ dst = <<>>
  /\ queue = [h \in Hart |-> <<>>]

----------------------------------------------------------------------------
\* A thread that is already on a queue would end in PANICF; the callers check
\* (thread_make_runnable) or push the thread that was running (schedule).
rq_push_tail(h, t) ==
  /\ walk.pc = "none" /\ on_rq[t] = 0
  /\ IF tail[h] = NONE
     THEN /\ rq_next' = [rq_next EXCEPT ![t] = NONE]
          /\ head' = [head EXCEPT ![h] = t]
     ELSE /\ rq_next' = [rq_next EXCEPT ![t] = NONE, ![tail[h]] = t]
          /\ UNCHANGED head
  /\ tail' = [tail EXCEPT ![h] = t]
  /\ on_rq' = [on_rq EXCEPT ![t] = 1]
  /\ len' = [len EXCEPT ![h] = @ + 1]
  /\ queue' = [queue EXCEPT ![h] = Append(@, t)]
  /\ UNCHANGED <<walk, ret, dst>>

rq_pop_head(h) ==
  /\ walk.pc = "none" /\ head[h] # NONE
  /\ head' = [head EXCEPT ![h] = rq_next[head[h]]]
  /\ tail' = [tail EXCEPT ![h] = IF rq_next[head[h]] = NONE THEN NONE ELSE @]
  /\ rq_next' = [rq_next EXCEPT ![head[h]] = NONE]
  /\ on_rq' = [on_rq EXCEPT ![head[h]] = 0]
  /\ len' = [len EXCEPT ![h] = IF @ > 0 THEN @ - 1 ELSE @]
  /\ ret' = <<"pop", h, head[h]>>
  /\ queue' = [queue EXCEPT ![h] = Tail(@)]
  /\ UNCHANGED <<walk, dst>>

\* rq_pop_head of an empty queue.
pop_empty(h) ==
  /\ walk.pc = "none" /\ head[h] = NONE
  /\ ret' = <<"pop", h, NONE>>
  /\ UNCHANGED <<lists, walk, dst>>

rq_len(h) ==
  /\ walk.pc = "none"
  /\ ret' = <<"len", h, len[h]>>
  /\ UNCHANGED <<lists, walk, dst>>

----------------------------------------------------------------------------
(* rq_remove, and rq_remove_any that tries one hart after the other.       *)

\* The loop starts at the head of the list of hart h.
Start(pc, h, t, any, max) ==
  walk' = [pc |-> pc, h |-> h, t |-> t, prev |-> NONE, cur |-> head[h],
           pos |-> 1, any |-> any, max |-> max, out |-> <<>>]

rq_remove(h, t) ==
  /\ walk.pc = "none"
  /\ Start("remove", h, t, 0, 0)
  /\ UNCHANGED <<lists, ret, dst>>

rq_remove_any(t) ==
  /\ walk.pc = "none"
  /\ Start("remove", 0, t, 1, 0)
  /\ UNCHANGED <<lists, ret, dst>>

remove_step ==
  /\ walk.pc = "remove" /\ walk.cur \notin {NONE, walk.t}
  /\ walk' = [walk EXCEPT !.prev = walk.cur, !.cur = rq_next[walk.cur],
                          !.pos = @ + 1]
  /\ UNCHANGED <<lists, ret, dst>>

\* The node is unlinked but the tail still points to it.
Bad_remove_unlink ==
  LET h == walk.h  t == walk.t  nxt == rq_next[walk.t]
  IN  /\ walk.pc = "remove" /\ walk.cur = t
      /\ IF walk.prev = NONE
         THEN /\ head' = [head EXCEPT ![h] = nxt]
              /\ rq_next' = [rq_next EXCEPT ![t] = NONE]
         ELSE /\ rq_next' = [rq_next EXCEPT ![walk.prev] = nxt, ![t] = NONE]
              /\ UNCHANGED head
      /\ on_rq' = [on_rq EXCEPT ![t] = 0]
      /\ len' = [len EXCEPT ![h] = IF @ > 0 THEN @ - 1 ELSE @]
      /\ ret' = IF walk.any = 1 THEN <<"remove_any", t, h>> ELSE <<"remove", h, t, 0>>
      /\ queue' = [queue EXCEPT ![h] = RemoveAt(@, walk.pos)]
      /\ walk' = Idle
      /\ UNCHANGED <<tail, dst>>

remove_unlink ==
  LET h == walk.h  t == walk.t  nxt == rq_next[walk.t]
  IN  /\ walk.pc = "remove" /\ walk.cur = t
      /\ IF walk.prev = NONE
         THEN /\ head' = [head EXCEPT ![h] = nxt]
              /\ rq_next' = [rq_next EXCEPT ![t] = NONE]
         ELSE /\ rq_next' = [rq_next EXCEPT ![walk.prev] = nxt, ![t] = NONE]
              /\ UNCHANGED head
      /\ tail' = [tail EXCEPT ![h] = IF @ = t THEN walk.prev ELSE @]
      /\ on_rq' = [on_rq EXCEPT ![t] = 0]
      /\ len' = [len EXCEPT ![h] = IF @ > 0 THEN @ - 1 ELSE @]
      /\ ret' = IF walk.any = 1 THEN <<"remove_any", t, h>> ELSE <<"remove", h, t, 0>>
      /\ queue' = [queue EXCEPT ![h] = RemoveAt(@, walk.pos)]
      /\ walk' = Idle
      /\ UNCHANGED dst

\* The loop over the harts stops one hart early.
Bad_remove_miss ==
  /\ walk.pc = "remove" /\ walk.cur = NONE
  /\ IF walk.any = 1 /\ walk.h + 2 < MAX_HARTS
     THEN Start("remove", walk.h + 1, walk.t, 1, 0) /\ UNCHANGED ret
     ELSE /\ walk' = Idle
          /\ ret' = IF walk.any = 1 THEN <<"remove_any", walk.t, NONE>>
                    ELSE <<"remove", walk.h, walk.t, NONE>>
  /\ UNCHANGED <<lists, dst>>

\* The end of the list: the next hart, or the answer -1.
remove_miss ==
  /\ walk.pc = "remove" /\ walk.cur = NONE
  /\ IF walk.any = 1 /\ walk.h + 1 < MAX_HARTS
     THEN Start("remove", walk.h + 1, walk.t, 1, 0) /\ UNCHANGED ret
     ELSE /\ walk' = Idle
          /\ ret' = IF walk.any = 1 THEN <<"remove_any", walk.t, NONE>>
                    ELSE <<"remove", walk.h, walk.t, NONE>>
  /\ UNCHANGED <<lists, dst>>

----------------------------------------------------------------------------
(* rq_snapshot.  The sentinel behind a short list is the value the caller   *)
(* filled the buffer with.                                                  *)

rq_snapshot(h, max) ==
  /\ walk.pc = "none"
  /\ Start("snapshot", h, NONE, 0, max)
  /\ UNCHANGED <<lists, ret, dst>>

snapshot_step ==
  /\ walk.pc = "snapshot" /\ walk.cur # NONE /\ Len(walk.out) < walk.max
  /\ walk' = [walk EXCEPT !.cur = rq_next[walk.cur], !.pos = @ + 1,
                          !.out = Append(@, walk.cur)]
  /\ UNCHANGED <<lists, ret, dst>>

snapshot_done ==
  /\ walk.pc = "snapshot" /\ (walk.cur = NONE \/ Len(walk.out) >= walk.max)
  /\ ret' = <<"snapshot", walk.h, walk.max, Len(walk.out)>> /\ dst' = walk.out
  /\ walk' = Idle
  /\ UNCHANGED lists

Next ==
  \/ \E h \in Hart : \/ rq_pop_head(h) \/ pop_empty(h) \/ rq_len(h)
                     \/ \E t \in User : rq_push_tail(h, t) \/ rq_remove(h, t)
                     \/ \E max \in SnapshotSizes : rq_snapshot(h, max)
  \/ \E t \in User : rq_remove_any(t)
  \/ remove_step \/ remove_unlink \/ remove_miss
  \/ snapshot_step \/ snapshot_done

Spec == Init /\ [][Next]_vars

----------------------------------------------------------------------------
Walk == [pc : {"none", "remove", "snapshot"}, h : Hart, t : User \cup {NONE},
         prev : User \cup {NONE}, cur : User \cup {NONE}, pos : Nat, any : {0, 1},
         max : Nat, out : Seq(User)]

\* What the locals of a loop in progress mean: cur is the node at position
\* pos and prev the one before it, what was passed is not the thread that is
\* looked for, and what was copied is the front of the list.
WalkOK ==
  LET q == queue[walk.h]
      Here == /\ walk.pos \in 1 .. Len(q) + 1
              /\ walk.cur = (IF walk.pos <= Len(q) THEN q[walk.pos] ELSE NONE)
  IN  /\ walk.pc = "none" => walk = Idle
      /\ walk.pc = "remove" =>
           /\ Here /\ walk.t \in User
           /\ walk.prev = (IF walk.pos = 1 THEN NONE ELSE q[walk.pos - 1])
           /\ \A i \in 1 .. walk.pos - 1 : q[i] # walk.t
           /\ walk.any = 1 => \A g \in 0 .. walk.h - 1 :
                                \A i \in 1 .. Len(queue[g]) : queue[g][i] # walk.t
      /\ walk.pc = "snapshot" =>
           /\ Here /\ walk.max \in SnapshotSizes /\ walk.pos - 1 <= walk.max
           /\ Len(walk.out) = walk.pos - 1
           /\ \A i \in 1 .. Len(walk.out) : walk.out[i] = q[i]

TypeOK ==
  /\ head \in [Hart -> User \cup {NONE}] /\ tail \in [Hart -> User \cup {NONE}]
  /\ len \in [Hart -> Nat]
  /\ rq_next \in [User -> User \cup {NONE}] /\ on_rq \in [User -> {0, 1}]
  /\ queue \in [Hart -> Seq(User)]
  /\ walk \in Walk /\ WalkOK

\* The pointers of hart h spell its queue: head and tail are its ends, every
\* node points to its successor, the last to nothing, and len counts them.
Spells(h) ==
  /\ len[h] = Len(queue[h])
  /\ head[h] = (IF queue[h] = <<>> THEN NONE ELSE queue[h][1])
  /\ tail[h] = (IF queue[h] = <<>> THEN NONE ELSE queue[h][Len(queue[h])])
  /\ \A i \in 1 .. Len(queue[h]) :
       rq_next[queue[h][i]] = (IF i < Len(queue[h]) THEN queue[h][i + 1] ELSE NONE)

\* The lists of runqueue.c are well formed after every function and at every
\* step of its loops: no list has a cycle, no two lists share a thread
\* (queue holds each thread once), no tail dangles, len is the length, and
\* on_rq is set for exactly the threads that some list reaches.  A removal
\* from the middle or the end, or the pop of the last thread, must repair
\* two pointers, a flag and a count that later calls trust.
ListsWellFormed ==
  /\ \A h \in Hart : Spells(h)
  /\ \A g, h \in Hart : \A i \in 1 .. Len(queue[g]), j \in 1 .. Len(queue[h]) :
       queue[g][i] = queue[h][j] => g = h /\ i = j
  /\ \A t \in User :
       IF on_rq[t] = 1 THEN \E h \in Hart : \E i \in 1 .. Len(queue[h]) : queue[h][i] = t
       ELSE /\ rq_next[t] = NONE
            /\ \A h \in Hart : \A i \in 1 .. Len(queue[h]) : queue[h][i] # t

\* The linked lists implement the queues of RunQueueSpec: every return value,
\* every snapshot and the order in which threads leave are those of the
\* abstract queues, with a list walked node by node counted as one step at
\* its end.
Abs == INSTANCE RunQueueSpec WITH queue <- queue, ret <- ret, dst <- dst
ImplementsQueues == Abs!Spec
=============================================================================

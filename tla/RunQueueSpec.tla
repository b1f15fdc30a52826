---------------------------- MODULE RunQueueSpec ----------------------------
(***************************************************************************)
(* What the run queues of ccos promise their callers: one first-in         *)
(* first-out queue of thread ids for each hart, each thread in at most one *)
(* of them.  Sched.tla is written against this view; RunQueue.tla shows    *)
(* that the linked lists of kernel/runqueue.c implement it.                *)
(***************************************************************************)
EXTENDS Integers, Sequences, SequencesExt

CONSTANTS MAX_HARTS, THREAD_MAX, SnapshotSizes

VARIABLES
  queue,  \* for each hart, its threads in the order in which they will run
  ret,    \* the last call that returned, with its arguments and its result
  dst     \* what the last rq_snapshot wrote to its buffer
vars == <<queue, ret, dst>>

Hart == 0 .. MAX_HARTS - 1
User == MAX_HARTS .. THREAD_MAX - 1
NONE == -1

Init == queue = [h \in Hart |-> <<>>] /\ ret = <<>> /\ dst = <<>>

Absent(h, t) == \A i \in 1 .. Len(queue[h]) : queue[h][i] # t

Push(h, t) ==
  /\ \A g \in Hart : Absent(g, t)
  /\ queue' = [queue EXCEPT ![h] = Append(@, t)]
  /\ UNCHANGED <<ret, dst>>

Pop(h) ==
  /\ IF queue[h] = <<>> THEN ret' = <<"pop", h, NONE>> /\ UNCHANGED queue
     ELSE ret' = <<"pop", h, queue[h][1]>> /\ queue' = [queue EXCEPT ![h] = Tail(@)]
  /\ UNCHANGED dst

Length(h) == ret' = <<"len", h, Len(queue[h])>> /\ UNCHANGED <<queue, dst>>

\* t leaves the queue of hart h, wherever in it t is.
Take(h, t) == \E i \in 1 .. Len(queue[h]) :
                queue[h][i] = t /\ queue' = [queue EXCEPT ![h] = RemoveAt(@, i)]

RemoveFrom(h, t) ==
  /\ \/ Take(h, t) /\ ret' = <<"remove", h, t, 0>>
     \/ Absent(h, t) /\ ret' = <<"remove", h, t, NONE>> /\ UNCHANGED queue
  /\ UNCHANGED dst

RemoveAny(t) ==
  /\ \/ \E h \in Hart : Take(h, t) /\ ret' = <<"remove_any", t, h>>
     \/ (\A g \in Hart : Absent(g, t)) /\ ret' = <<"remove_any", t, NONE>> /\ UNCHANGED queue
  /\ UNCHANGED dst

\* The first max threads of the queue.
Snapshot(h, max) ==
  /\ dst' = SubSeq(queue[h], 1, IF Len(queue[h]) <= max THEN Len(queue[h]) ELSE max)
  /\ ret' = <<"snapshot", h, max, Len(dst')>>
  /\ UNCHANGED queue

Next ==
  \/ \E h \in Hart : \/ Pop(h) \/ Length(h)
                     \/ \E t \in User : Push(h, t) \/ RemoveFrom(h, t)
                     \/ \E max \in SnapshotSizes : Snapshot(h, max)
  \/ \E t \in User : RemoveAny(t)

\* This is [][Next]_vars; the condition spares TLC a look at Next in the steps
\* along a list, which do not show here.
Spec == Init /\ [][vars' # vars => Next]_vars
=============================================================================

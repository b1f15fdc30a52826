------------------------------- MODULE Sched -------------------------------
(***************************************************************************)
(* The scheduler of ccos: run queues (kernel/runqueue.c), target choice,   *)
(* timer and IPI handling (kernel/sched.c), and the parts of               *)
(* kernel/thread.c and kernel/cpu.c they call.                             *)
(*                                                                         *)
(* Every trap handler runs from kernel_lock() to kernel_unlock()           *)
(* (kernel/trap.c, trap_entry_c), so a handler is a sequential C function  *)
(* of the kernel's memory.  The model keeps that shape: the kernel's       *)
(* memory is one record, a C function is an operator from the record to    *)
(* the record under its C name, and an action of Kernel.tla applies one    *)
(* handler to the whole record.                                            *)
(*                                                                         *)
(* The record s has these fields.                                          *)
(*   g_threads[], one function over Tid for each member of struct Thread:  *)
(*     state, running_hart, wakeup_tick, detached, exit_code,              *)
(*     join_waiter, waiting_for, pending_read (pending_read_len, 0 when    *)
(*     pending_read_buf is NULL), and ret: what tf.a0 (for join also       *)
(*     *status) holds for a thread that is not running ("none", "due"      *)
(*     while a blocked system call still waits for its result, else the    *)
(*     result).  wakeup_tick is kept relative to g_ticks.                  *)
(*   g_cpus[], over Hart: current (current_tid), slice_left, online,       *)
(*     ipi (the pending bit SSIP of the hart).                             *)
(*   g_runqueues[]: rq[h], the sequence of tids that the linked list of    *)
(*     hart h holds; Thread.on_rq is membership in one of them.  Where the *)
(*     code clears on_rq without unlinking (recycle_thread, the two places *)
(*     that set up a slot) the thread is on no queue, except after the     *)
(*     failure the run recycled_running shows: from there on a freed slot  *)
(*     may still be linked, and the model keeps it on_rq.                  *)
(*   kernel/console.c: rx, the number of buffered characters, and          *)
(*     g_stdin_waiter.                                                     *)
(* need_resched is left out: it is written and never read.                 *)
(*                                                                         *)
(* An operator whose name starts with Bad is a faulty variant of the       *)
(* operator that follows it: a bug the properties must be able to see.     *)
(* The specification uses none of them.                                    *)
(***************************************************************************)
EXTENDS Integers, Sequences, FiniteSetsExt, SequencesExt

CONSTANTS
  MAX_HARTS,          \* number of harts the kernel is built for
  THREAD_MAX,         \* size of g_threads
  BootHart,           \* g_boot_hartid
  SCHED_SLICE_TICKS,  \* ticks of one time slice
  CONSOLE_RBUF_SIZE,  \* size of the ring of received characters
  ExitCodes,          \* what threads pass to thread_exit
  Zero                \* the exit code 0

Hart == 0 .. MAX_HARTS - 1
Tid  == 0 .. THREAD_MAX - 1
\* [0, MAX_HARTS-1] are the idle threads; user_main is FIRST_TID = MAX_HARTS.
User == MAX_HARTS .. THREAD_MAX - 1
NONE == -1

ASSUME HartsAssumption   == MAX_HARTS \in Nat \ {0}
ASSUME ThreadsAssumption == THREAD_MAX \in Nat /\ THREAD_MAX > MAX_HARTS
ASSUME BootAssumption    == BootHart \in Hart
ASSUME SliceAssumption   == SCHED_SLICE_TICKS \in Nat \ {0}
ASSUME RbufAssumption    == CONSOLE_RBUF_SIZE \in Nat /\ CONSOLE_RBUF_SIZE > 1
ASSUME CodesAssumption   == ExitCodes \subseteq STRING /\ Zero \in ExitCodes
\* What ret may hold besides an exit code is no exit code.
ASSUME MarksAssumption   == ExitCodes \cap {"none", "due", "read"} = {}

States == {"UNUSED", "RUNNABLE", "RUNNING", "SLEEPING", "WAITING",
           "BLOCKED", "ZOMBIE"}
\* -1 (a fault) and THREAD_EXITCODE_SIGKILL are the codes the kernel sets.
Codes == ExitCodes \cup {"fault", "killed"}

Fields == {"state", "running_hart", "wakeup_tick", "detached", "exit_code",
           "join_waiter", "waiting_for", "ret", "pending_read", "current",
           "slice_left", "online", "ipi", "rq", "rx", "g_stdin_waiter"}

\* What a C declaration says of the memory: s is a kernel record.
Typed(s) ==
  /\ DOMAIN s = Fields
  /\ s.state \in [Tid -> States]
  /\ s.running_hart \in [Tid -> Hart \cup {NONE}]
  /\ s.wakeup_tick \in [Tid -> Nat]
  /\ s.detached \in [Tid -> BOOLEAN]
  /\ s.exit_code \in [Tid -> Codes]
  /\ s.join_waiter \in [Tid -> Tid \cup {NONE}]
  /\ s.waiting_for \in [Tid -> Tid \cup {NONE}]
  /\ s.ret \in [Tid -> Codes \cup {"none", "due", "read"}]
  /\ s.pending_read \in [Tid -> Nat]
  /\ s.current \in [Hart -> Tid \cup {NONE}]
  /\ s.slice_left \in [Hart -> 1 .. SCHED_SLICE_TICKS]
  /\ s.online \in [Hart -> BOOLEAN]
  /\ s.ipi \in [Hart -> BOOLEAN]
  /\ s.rq \in [Hart -> Seq(Tid)]
  /\ s.rx \in 0 .. CONSOLE_RBUF_SIZE - 1
  /\ s.g_stdin_waiter \in Tid \cup {NONE}

----------------------------------------------------------------------------
(* runqueue.c, with the linked list of a hart as the sequence it holds.    *)

on_rq(s, t) == \E h \in Hart : t \in Range(s.rq[h])

Bad_rq_push_tail(s, h, t) == [s EXCEPT !.rq[h] = <<t>> \o @]

rq_push_tail(s, h, t) == [s EXCEPT !.rq[h] = Append(@, t)]

rq_len(s, h) == Len(s.rq[h])

\* The list walk unlinks the first node that is t, if there is one.
rq_remove(q, t) == RemoveFirst(q, t)

\* rq_remove is tried hart after hart until one queue held t.
rq_remove_any(s, t) ==
  LET holders == {h \in Hart : t \in Range(s.rq[h])}
  IN  IF holders = {} THEN s
      ELSE [s EXCEPT !.rq[Min(holders)] = rq_remove(@, t)]

----------------------------------------------------------------------------
(* Waking a thread.                                                        *)

\* The waker's hart unless another online hart has a strictly shorter
\* queue; among those the first with the shortest one.
sched_pick_target_hart(s, waker) ==
  LET on   == {h \in Hart : s.online[h]}
      best == {h \in on : \A g \in on : rq_len(s, h) <= rq_len(s, g)}
  IN  IF waker \in best \/ best = {} THEN waker ELSE Min(best)

\* "An idle hart looks at its queue by itself."
Bad_smp_kick_hart(s, h) ==
  IF s.online[h] /\ s.current[h] # h THEN [s EXCEPT !.ipi[h] = TRUE] ELSE s

smp_kick_hart(s, h) ==
  IF s.online[h] THEN [s EXCEPT !.ipi[h] = TRUE] ELSE s

\* Called on hart h; the target is looked for from hart preferred on.
thread_make_runnable(s, h, t, preferred) ==
  LET target == sched_pick_target_hart(s, preferred)
      queued == rq_push_tail([s EXCEPT !.state[t] = "RUNNABLE",
                                       !.wakeup_tick[t] = 0], target, t)
  IN  IF t \notin User \/ on_rq(s, t) \/ s.state[t] = "RUNNING" THEN s
      ELSE IF target = h THEN queued ELSE smp_kick_hart(queued, target)

----------------------------------------------------------------------------
(* Switching threads.                                                      *)

\* The joiner of the dead thread is remembered.
Bad_recycle_thread(s, t) ==
  [s EXCEPT !.state[t] = "UNUSED",      !.wakeup_tick[t] = 0,
            !.detached[t] = FALSE,      !.exit_code[t] = Zero,
            !.waiting_for[t] = NONE,    !.ret[t] = "none",
            !.running_hart[t] = NONE,
            !.g_stdin_waiter = IF @ = t THEN NONE ELSE @]

\* The slot returns to UNUSED.  pending_read_* is left as it is.
recycle_thread(s, t) ==
  [s EXCEPT !.state[t] = "UNUSED",      !.wakeup_tick[t] = 0,
            !.detached[t] = FALSE,      !.exit_code[t] = Zero,
            !.join_waiter[t] = NONE,    !.waiting_for[t] = NONE,
            !.ret[t] = "none",          !.running_hart[t] = NONE,
            !.g_stdin_waiter = IF @ = t THEN NONE ELSE @]

\* The requeued thread keeps its state.
Bad_switch_out_state(s, h) ==
  LET cur == s.current[h]
      off == [s EXCEPT !.running_hart[cur] = NONE]
  IN  IF cur = h THEN [off EXCEPT !.state[cur] = "RUNNABLE"]
      ELSE IF s.state[cur] = "RUNNING" THEN rq_push_tail(off, h, cur) ELSE off

\* thread_mark_not_running is forgotten.
Bad_switch_out_mark(s, h) ==
  LET cur == s.current[h]
  IN  IF cur = h THEN [s EXCEPT !.state[cur] = "RUNNABLE"]
      ELSE IF s.state[cur] = "RUNNING"
           THEN rq_push_tail([s EXCEPT !.state[cur] = "RUNNABLE"], h, cur)
      ELSE s

\* Any thread that leaves the CPU is requeued unless it waits.
Bad_switch_out_dead(s, h) ==
  LET cur == s.current[h]
      off == [s EXCEPT !.running_hart[cur] = NONE, !.state[cur] = "RUNNABLE"]
  IN  IF cur = h THEN off
      ELSE IF s.state[cur] \in {"RUNNING", "ZOMBIE"} THEN rq_push_tail(off, h, cur)
      ELSE [s EXCEPT !.running_hart[cur] = NONE]

\* The first half: the current thread of h is taken off the CPU; it goes to
\* the tail of the local queue if it can still run, and a dead thread that
\* nobody will join any more gives its slot back.
switch_out(s, h) ==
  LET cur == s.current[h]
      off == [s EXCEPT !.running_hart[cur] = NONE]
  IN  IF cur = h THEN [off EXCEPT !.state[cur] = "RUNNABLE"]
      ELSE IF s.state[cur] = "RUNNING"
           THEN rq_push_tail([off EXCEPT !.state[cur] = "RUNNABLE"], h, cur)
      ELSE IF /\ s.state[cur] = "ZOMBIE"
              /\ s.join_waiter[cur] # NONE \/ s.detached[cur]
           THEN recycle_thread(off, cur)
      ELSE off

\* The second half: the first RUNNABLE thread of the local queue runs, the
\* entries before it are dropped; idle runs if there is none.  The return to
\* user mode hands the new thread the result it has in its trap frame.
switch_in(s, h) ==
  LET q    == s.rq[h]
      i    == SelectInSeq(q, LAMBDA t : s.state[t] = "RUNNABLE")
      next == IF i = 0 THEN h ELSE q[i]
      rest == IF i = 0 THEN <<>> ELSE SubSeq(q, i + 1, Len(q))
  IN  [s EXCEPT !.rq[h] = rest,
                !.current[h] = next,
                !.state[next] = "RUNNING",
                !.running_hart[next] = h,
                !.ret[next] = "none",
                !.slice_left[h] = SCHED_SLICE_TICKS]

schedule(s, h) == switch_in(switch_out(s, h), h)

----------------------------------------------------------------------------
(* The interrupts that schedule.                                           *)

sched_on_ipi_irq(s, h) == schedule([s EXCEPT !.ipi[h] = FALSE], h)

\* Woken one tick early.
Bad_Due(s) == {t \in Tid : s.state[t] = "SLEEPING" /\ s.wakeup_tick[t] <= 1}

\* The threads that have slept long enough.
Due(s) == {t \in Tid : s.state[t] = "SLEEPING" /\ s.wakeup_tick[t] <= 0}

\* Time only advances while the boot hart is idle.
Bad_tick(s) ==
  [s EXCEPT !.wakeup_tick = [t \in Tid |->
     IF /\ s.state[t] = "SLEEPING" /\ s.wakeup_tick[t] > 0
        /\ s.current[BootHart] = BootHart
     THEN s.wakeup_tick[t] - 1 ELSE s.wakeup_tick[t]]]

\* g_ticks++.  A sleeper that is already due stays due.
tick(s) ==
  [s EXCEPT !.wakeup_tick = [t \in Tid |->
     IF s.state[t] = "SLEEPING" /\ s.wakeup_tick[t] > 0
     THEN s.wakeup_tick[t] - 1 ELSE s.wakeup_tick[t]]]

\* The loop stops one slot short of THREAD_MAX.
Bad_DueFrom(s, i) == {t \in Due(s) : i <= t /\ t < THREAD_MAX - 1}

\* The threads that the loop of threads_tick will find due from slot i on.
DueFrom(s, i) == {t \in Due(s) : i <= t}

\* The body of that loop for a thread that is due.
wake_sleeper(s, t) == thread_make_runnable(s, BootHart, t, BootHart)

\* The slice runs one tick too long.
Bad_end_of_tick_late(s, h) ==
  IF s.slice_left[h] = 0 THEN schedule(s, h)
  ELSE [s EXCEPT !.slice_left[h] = @ - 1]

\* The rest of sched_on_timer_irq, once threads_tick has returned.
end_of_tick(s, h) ==
  IF s.slice_left[h] <= 1 THEN schedule(s, h)
  ELSE [s EXCEPT !.slice_left[h] = @ - 1]

----------------------------------------------------------------------------
(* A hart comes up.                                                        *)

cpu_init_this_hart(s, h) ==
  [s EXCEPT !.online[h] = TRUE, !.current[h] = NONE,
            !.slice_left[h] = SCHED_SLICE_TICKS]

cpu_enter_idle(s, h) ==
  [s EXCEPT !.current[h] = h, !.state[h] = "RUNNING", !.running_hart[h] = h]

\* The state after threads_init(user_main) on the boot hart: idle threads
\* are RUNNABLE, user_main waits in the boot hart's queue.
threads_init ==
  [state        |-> [t \in Tid |-> IF t <= MAX_HARTS THEN "RUNNABLE"
                                   ELSE "UNUSED"],
   running_hart |-> [t \in Tid |-> NONE],
   wakeup_tick  |-> [t \in Tid |-> 0],
   detached     |-> [t \in Tid |-> FALSE],
   exit_code    |-> [t \in Tid |-> Zero],
   join_waiter  |-> [t \in Tid |-> NONE],
   waiting_for  |-> [t \in Tid |-> NONE],
   ret          |-> [t \in Tid |-> "none"],
   pending_read |-> [t \in Tid |-> 0],
   current      |-> [h \in Hart |-> NONE],
   slice_left   |-> [h \in Hart |-> SCHED_SLICE_TICKS],
   online       |-> [h \in Hart |-> h = BootHart],
   ipi          |-> [h \in Hart |-> FALSE],
   rq           |-> [h \in Hart |-> IF h = BootHart THEN <<MAX_HARTS>>
                                    ELSE <<>>],
   rx           |-> 0,
   g_stdin_waiter |-> NONE]
=============================================================================

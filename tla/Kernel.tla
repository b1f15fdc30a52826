------------------------------- MODULE Kernel -------------------------------
(***************************************************************************)
(* The ccos kernel after threads_init: harts come up, threads run on them, *)
(* trap into the kernel, are preempted, sleep, wait, block and die.        *)
(*                                                                         *)
(* k is the kernel's memory (the record described in Sched.tla).  Each     *)
(* action is what one hart does between kernel_lock() and kernel_unlock()  *)
(* of trap_entry_c; the loop of threads_tick is one step for each thread   *)
(* it wakes, and scan is its loop variable while the boot hart is in that  *)
(* loop and holds the lock.  A hart comes up without the lock.             *)
(***************************************************************************)
EXTENDS Threads, Console

CONSTANTS
  Syscalls,    \* the system calls the threads of this instance make
  SleepTicks,  \* the arguments of SYS_SLEEP
  ReadLens,    \* the lengths of SYS_READ (0 also stands for a NULL buffer)
  Readers      \* the threads that read from stdin

ASSUME SyscallsAssumption ==
  Syscalls \subseteq {"SLEEP", "YIELD", "CREATE", "EXIT", "JOIN", "KILL",
                      "DETACH", "READ"}
ASSUME ArgumentsAssumption ==
  SleepTicks \subseteq Nat /\ ReadLens \subseteq Nat /\ Readers \subseteq Tid

VARIABLES
  k,     \* the kernel's memory
  scan   \* the slot the loop of threads_tick looks at next, NONE outside it
vars == <<k, scan>>

\* The boot hart is in threads_tick.
ticking == scan # NONE

Init == k = threads_init /\ scan = NONE

----------------------------------------------------------------------------
(* Harts come up (kernel/main.c).                                          *)

\* kernel_main on a secondary hart.
HartOnline(h) ==
  /\ h # BootHart /\ ~k.online[h]
  /\ k' = cpu_init_this_hart(k, h)
  /\ UNCHANGED scan

\* The end of primary_main and of secondary_main.
EnterIdle(h) ==
  /\ k.online[h] /\ k.current[h] = NONE
  /\ k' = cpu_enter_idle(k, h)
  /\ UNCHANGED scan

----------------------------------------------------------------------------
(* Interrupts.  A secondary hart enables only SSIP, so timer and external  *)
(* interrupts are taken by the boot hart.                                  *)

\* Hart h runs a thread and no other hart is inside the kernel.
CanTrap(h) == k.current[h] # NONE /\ ~ticking

IpiIrq(h) ==
  /\ CanTrap(h) /\ k.ipi[h]
  /\ k' = sched_on_ipi_irq(k, h)
  /\ UNCHANGED scan

TimerIrq ==
  /\ CanTrap(BootHart)
  /\ k' = tick(k)
  /\ scan' = 0

\* The loop goes on to the next slot whose thread is due, and past it.
WakeSleeper ==
  /\ ticking /\ DueFrom(k, scan) # {}
  /\ LET t == Min(DueFrom(k, scan))
     IN  k' = wake_sleeper(k, t) /\ scan' = t + 1

\* The loop ends at THREAD_MAX.
TimerDone ==
  /\ ticking /\ DueFrom(k, scan) = {}
  /\ k' = end_of_tick(k, BootHart)
  /\ scan' = NONE

UartIrq ==
  /\ "READ" \in Syscalls /\ CanTrap(BootHart)
  /\ k' = console_on_char_from_irq(k, BootHart)
  /\ UNCHANGED scan

----------------------------------------------------------------------------
(* Exceptions of user threads.  Idle threads run in S-mode and make no     *)
(* system call.                                                            *)

Ecall(h, sys) ==
  /\ CanTrap(h) /\ k.current[h] \in User
  /\ sys \in Syscalls
  /\ UNCHANGED scan

Sleep(h)  == Ecall(h, "SLEEP") /\ \E n \in SleepTicks : k' = thread_sys_sleep(k, h, n)
Yield(h)  == Ecall(h, "YIELD") /\ k' = thread_sys_yield(k, h)
Create(h) == Ecall(h, "CREATE") /\ k' = thread_sys_create(k, h)
Exit(h)   == Ecall(h, "EXIT") /\ \E c \in ExitCodes : k' = thread_sys_exit(k, h, c)
Join(h)   == Ecall(h, "JOIN") /\ \E t \in Tid : k' = thread_sys_join(k, h, t)
Kill(h)   == Ecall(h, "KILL") /\ \E t \in Tid : k' = thread_sys_kill(k, h, t)
Detach(h) == Ecall(h, "DETACH") /\ \E t \in Tid : k' = thread_sys_detach(k, h, t)
Read(h)   == /\ Ecall(h, "READ") /\ k.current[h] \in Readers
             /\ \E n \in ReadLens : k' = sys_read(k, h, n)

\* An illegal instruction or an ebreak in U-mode ends the thread.
Fault(h)  == Ecall(h, "EXIT") /\ k' = thread_sys_exit(k, h, "fault")

Next ==
  \/ \E h \in Hart : HartOnline(h) \/ EnterIdle(h) \/ IpiIrq(h)
  \/ TimerIrq \/ WakeSleeper \/ TimerDone \/ UartIrq
  \/ \E h \in Hart : \/ Sleep(h) \/ Yield(h) \/ Create(h) \/ Exit(h)
                     \/ Join(h) \/ Kill(h) \/ Detach(h) \/ Read(h)
                     \/ Fault(h)

Spec == Init /\ [][Next]_vars

----------------------------------------------------------------------------
(* Safety.                                                                 *)

\* Every field of the kernel's memory has the type its C declaration gives
\* it: indices stay inside g_threads and g_cpus, a time slice is never
\* empty, the ring of characters never holds more than its size less one.
TypeOK == Typed(k) /\ scan \in 0 .. THREAD_MAX \cup {NONE}

\* schedule, thread_mark_running and thread_mark_not_running agree: a thread
\* is RUNNING exactly when it is the current thread of a hart, and
\* running_hart, on which thread_sys_kill relies to find that hart, names it.
\* So no thread runs on two harts.
ThreadStatesConsistent ==
  /\ \A t \in Tid : k.state[t] = "RUNNING" <=> \E h \in Hart : k.current[h] = t
  /\ \A t \in Tid, h \in Hart : k.running_hart[t] = h <=> k.current[h] = t

\* The invariants written at struct Thread: a thread other than idle is
\* RUNNABLE exactly when it is on a run queue, it is there once, on one
\* hart only, and idle threads are on none.  So the PANICF of rq_push_tail is
\* out of reach and no list node is linked twice.
QueuesConsistent ==
  /\ \A h \in Hart : \A i \in DOMAIN k.rq[h] : k.rq[h][i] \in User
  /\ \A t \in User : k.state[t] = "RUNNABLE" <=> on_rq(k, t)
  /\ \A g, h \in Hart : \A i \in DOMAIN k.rq[g], j \in DOMAIN k.rq[h] :
       k.rq[g][i] = k.rq[h][j] => g = h /\ i = j

\* thread_sys_join and thread_sys_exit keep both ends of a join together: a
\* WAITING thread waits for exactly the thread whose join_waiter it is, and
\* that thread is still alive and not detached, so its exit will wake the
\* waiter.  No waiter is left behind.
JoinsConsistent ==
  /\ \A w \in Tid : k.state[w] = "WAITING" <=> k.waiting_for[w] # NONE
  /\ \A w, t \in Tid : k.waiting_for[w] = t <=> k.join_waiter[t] = w
  /\ \A t \in Tid : k.join_waiter[t] # NONE =>
       k.state[t] \notin {"UNUSED", "ZOMBIE"} /\ ~k.detached[t]

\* A blocked system call returns what its waker wrote: a thread whose result
\* is still due in tf.a0 is not runnable (syscall_handler, SYS_READ and
\* SYS_THREAD_JOIN leave a0 to the waker).
ResultsDelivered ==
  \A t \in Tid :
    k.ret[t] = "due" => k.state[t] \in {"WAITING", "BLOCKED", "ZOMBIE"}

\* A secondary hart has no timer, so work that is queued on it while it is
\* idle, or still on its way to idle, must have an IPI pending
\* (thread_make_runnable, smp_kick_hart).
NoLostKick ==
  \A h \in Hart \ {BootHart} :
    k.current[h] \in {h, NONE} /\ k.rq[h] # <<>> => k.ipi[h]

\* No sleeping thread is past its time once threads_tick has returned: its
\* one pass over g_threads misses none, though thread_make_runnable returns
\* early for a thread it takes to be queued already.
NoOverdueSleeper == ~ticking => Due(k) = {}

\* The slot of a thread that a hart is executing is neither free nor given
\* to a new thread ("Only recycle when we can guarantee the victim is no
\* longer executing", thread_sys_kill).
SlotHeldWhileRunning ==
  \A h \in Hart :
    k.current[h] # NONE => k.state[k.current[h]] \in {"RUNNING", "ZOMBIE"}

\* With one reader: a reader blocked in read is registered as the waiter and
\* no character sits in the ring, so the next character wakes it
\* (sys_read, console_on_char_from_irq).
ReaderNotStranded ==
  \A t \in Tid : k.state[t] = "BLOCKED" => k.g_stdin_waiter = t /\ k.rx = 0

\* A thread that died stays dead until its slot is recycled ("Force ZOMBIE
\* state (SIGKILL semantics)", thread_sys_kill).
DeadStayDead ==
  [][\A t \in Tid : k.state[t] = "ZOMBIE" =>
       k'.state[t] \in {"ZOMBIE", "UNUSED"}]_vars

\* join returns in the very step in which the thread it waits for dies:
\* nobody else's exit wakes the joiner, not even that of a thread which got
\* a recycled slot (release_joiner, recycle_thread).
JoinReturnsAtDeath ==
  [][\A w, t \in Tid :
       k.state[w] = "WAITING" /\ k.waiting_for[w] = t /\ k'.state[w] # "WAITING"
       => /\ k.state[t] \notin {"UNUSED", "ZOMBIE"}
          /\ k'.state[t] \in {"UNUSED", "ZOMBIE"}]_vars

\* A sleeping thread leaves that state in threads_tick at its time and in no
\* other way.
NotWokenEarly ==
  [][\A t \in Tid : k.state[t] = "SLEEPING" /\ k'.state[t] # "SLEEPING" =>
       ticking /\ k.wakeup_tick[t] = 0]_vars

----------------------------------------------------------------------------
(* Liveness.  The boot hart's timer keeps firing (it is re-armed first      *)
(* thing in sched_on_timer_irq), a pending IPI is taken, and a hart that is *)
(* up enters idle.  An IPI competes with the boot hart for the kernel lock, *)
(* hence strong fairness: a hart that spins on the lock gets it at last.    *)
(* Nothing is assumed of threads: they may compute forever.                 *)

Tick == TimerIrq \/ WakeSleeper \/ TimerDone

Fairness ==
  /\ WF_vars(Tick)
  /\ \A h \in Hart : SF_vars(IpiIrq(h)) /\ WF_vars(EnterIdle(h))

FairSpec == Spec /\ Fairness

\* A thread queued on the boot hart gets off the queue: round robin with the
\* slice of sched_on_timer_irq.
BootQueueServed ==
  \A t \in User : (t \in Range(k.rq[BootHart])) ~> (t \notin Range(k.rq[BootHart]))

\* Every sleep ends.
SleepersWake ==
  \A t \in User : (k.state[t] = "SLEEPING") ~> (k.state[t] # "SLEEPING")

\* An idle hart with work in its queue takes it, unless another hart kills the
\* thread that was queued first.
IdleHartServes ==
  \A h \in Hart :
    (k.current[h] = h /\ k.rq[h] # <<>>) ~> (k.current[h] # h \/ k.rq[h] = <<>>)

\* No work is left lying in a queue: that of the boot hart is served by its
\* timer, that of an idle hart by the IPI which comes with the work.
QueuesServed == BootQueueServed /\ IdleHartServes

\* A thread killed while another hart runs it is switched away from ("kick
\* that hart so it switches away", thread_sys_kill).
KilledLeavesCpu ==
  \A h \in Hart, t \in User :
    (k.current[h] = t /\ k.state[t] = "ZOMBIE") ~> (k.current[h] # t)

\* Hard preemption: a RUNNABLE thread is not RUNNABLE for ever, whatever the
\* other threads do (the header of sched.c promises it for every hart).
RunnableRuns ==
  \A t \in User : (k.state[t] = "RUNNABLE") ~> (k.state[t] # "RUNNABLE")
=============================================================================

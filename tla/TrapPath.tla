------------------------------ MODULE TrapPath ------------------------------
(***************************************************************************)
(* The way into the kernel and out of it: trap_entry (arch/riscv/trap.S)   *)
(* and trap_entry_c (kernel/trap.c).  Registers are saved in the frame of  *)
(* the current thread before the kernel lock is taken, and those of the    *)
(* next thread are loaded after it was released, so frames are read and    *)
(* written while other harts run handlers: Kernel.tla, which has a whole   *)
(* trap in one step, relies on that being invisible.                       *)
(*                                                                         *)
(* Handlers are cut down to what they do to frames and to the states that  *)
(* decide who may run; which RUNNABLE thread schedule takes is left open   *)
(* (Sched.tla has the queues).  Killing a running thread is left out: what *)
(* that does is in Kernel.tla.  A context is as in TrapSpec.tla.           *)
(***************************************************************************)
EXTENDS Integers, FiniteSetsExt

CONSTANTS Harts,   \* also the tids of the idle threads
          Users    \* the other tids

ASSUME TrapAssumption == Harts \subseteq Nat /\ Users \subseteq Nat /\ Harts \cap Users = {} /\ Users # {}

Tid == Harts \cup Users
None == -1
Fresh == [n |-> 0, a0 |-> "arg"]
Kernel == [n |-> 0, a0 |-> "kernel"]
After(c) == (c.n + 1) % 3

VARIABLES
  trap_pc,      \* where each hart is: run, save, lock, handler,
                \* schedule, unlock, restore, panic
  cause,        \* why the hart trapped
  regs,         \* the registers of each hart
  cur_tf,       \* cpu->cur_tf, as the tid whose frame it is
  g_kernel_lock,
  tf,           \* the frames
  state, join_waiter
kernel == <<tf, state, join_waiter>>
trap_vars == <<trap_pc, cause, regs, cur_tf, g_kernel_lock, kernel>>

TrapInit ==
  /\ trap_pc = [h \in Harts |-> "run"] /\ cause = [h \in Harts |-> "none"]
  /\ regs = [h \in Harts |-> Fresh] /\ cur_tf = [h \in Harts |-> h]
  /\ g_kernel_lock = None
  /\ tf = [t \in Tid |-> Fresh]
  /\ state = [t \in Tid |-> IF t \in Harts THEN "RUNNING" ELSE IF t = Min(Users) THEN "RUNNABLE" ELSE "UNUSED"]
  /\ join_waiter = [t \in Tid |-> None]

Go(h, here, there) == trap_pc[h] = here /\ trap_pc' = [trap_pc EXCEPT ![h] = there]

----------------------------------------------------------------------------
(* Outside the kernel.                                                     *)

execute(h) ==
  /\ trap_pc[h] = "run" /\ cur_tf[h] \in Users
  /\ regs' = [regs EXCEPT ![h] = [n |-> After(@), a0 |-> "arg"]]
  /\ UNCHANGED <<trap_pc, cause, cur_tf, g_kernel_lock, kernel>>

\* An interrupt, or a system call of a user thread with its number in a0.
trap(h, why) ==
  /\ Go(h, "run", "save")
  /\ cause' = [cause EXCEPT ![h] = why]
  /\ IF why \in {"tick", "irq"} THEN UNCHANGED regs
     ELSE cur_tf[h] \in Users /\ regs' = [regs EXCEPT ![h].a0 = "sys"]
  /\ UNCHANGED <<cur_tf, g_kernel_lock, kernel>>

----------------------------------------------------------------------------
(* trap.S and the frame of trap_entry_c.                                   *)

\* From here on the registers are the kernel's.
save(h) ==
  /\ Go(h, "save", "lock")
  /\ tf' = [tf EXCEPT ![cur_tf[h]] = regs[h]]
  /\ regs' = [regs EXCEPT ![h] = Kernel]
  /\ UNCHANGED <<cause, cur_tf, g_kernel_lock, state, join_waiter>>

\* An interrupt does without the lock.
Bad_kernel_lock(h) ==
  /\ Go(h, "lock", "handler")
  /\ g_kernel_lock = None \/ cause[h] = "irq"
  /\ g_kernel_lock' = h
  /\ UNCHANGED <<cause, regs, cur_tf, kernel>>
kernel_lock(h) ==
  /\ Go(h, "lock", "handler")
  /\ g_kernel_lock = None /\ g_kernel_lock' = h
  /\ UNCHANGED <<cause, regs, cur_tf, kernel>>

kernel_unlock(h) ==
  /\ Go(h, "unlock", "restore")
  /\ g_kernel_lock' = None
  /\ UNCHANGED <<cause, regs, cur_tf, kernel>>

restore(h) ==
  /\ Go(h, "restore", "run")
  /\ regs' = [regs EXCEPT ![h] = tf[cur_tf[h]]]
  /\ cause' = [cause EXCEPT ![h] = "none"]
  /\ UNCHANGED <<cur_tf, g_kernel_lock, kernel>>

----------------------------------------------------------------------------
(* Handlers.  S and F are the states and the frames a handler returns      *)
(* with, or leaves to schedule.                                            *)

Done(h, S, F) == trap_pc' = [trap_pc EXCEPT ![h] = "unlock"] /\ state' = S /\ tf' = F

\* The first half of schedule: the current thread may run again later if it
\* is still RUNNING.
Switch(h, S, F) ==
  /\ trap_pc' = [trap_pc EXCEPT ![h] = "schedule"]
  /\ state' = [S EXCEPT ![cur_tf[h]] = IF @ = "RUNNING" THEN "RUNNABLE" ELSE @]
  /\ tf' = F

\* The second half: idle runs when no thread is RUNNABLE on this hart's queue.
schedule(h) ==
  /\ Go(h, "schedule", "unlock")
  /\ \E next \in {t \in Users : state[t] = "RUNNABLE"} \cup {h} :
       /\ state' = [state EXCEPT ![next] = "RUNNING"]
       /\ cur_tf' = [cur_tf EXCEPT ![h] = next]
  /\ UNCHANGED <<cause, regs, g_kernel_lock, tf, join_waiter>>

\* tf->sepc += 4 of syscall_handler, with r for the result.
Result(c, r) == [tf EXCEPT ![c] = [n |-> After(@), a0 |-> r]]

thread_sys_yield(h) == Switch(h, state, Result(cur_tf[h], "sys")) /\ UNCHANGED join_waiter

thread_sys_create(h) ==
  LET free == {t \in Users : state[t] = "UNUSED"}
      t    == Min(free)
  IN  /\ IF free = {} THEN Done(h, state, Result(cur_tf[h], "err"))
         ELSE Done(h, [state EXCEPT ![t] = "RUNNABLE"], [Result(cur_tf[h], "ok") EXCEPT ![t] = Fresh])
      /\ UNCHANGED join_waiter

\* A joiner is told and the slot is free at once; else the thread is a ZOMBIE.
thread_sys_exit(h) ==
  LET c == cur_tf[h]
      w == join_waiter[c]
  IN  /\ IF w = None THEN Switch(h, [state EXCEPT ![c] = "ZOMBIE"], Result(c, "sys"))
         ELSE Switch(h, [state EXCEPT ![c] = "UNUSED", ![w] = "RUNNABLE"],
                       [tf EXCEPT ![c] = Fresh, ![w].a0 = "ok"])
      /\ join_waiter' = [join_waiter EXCEPT ![c] = None]

\* The result is written although the call has blocked.
Bad_thread_sys_join(h, t) ==
  LET c == cur_tf[h]
  IN  IF t = 0 \/ t = c \/ state[t] = "UNUSED" \/ join_waiter[t] \notin {None, c}
      THEN Done(h, state, Result(c, "err")) /\ UNCHANGED join_waiter
      ELSE IF state[t] = "ZOMBIE"
      THEN Done(h, [state EXCEPT ![t] = "UNUSED"], [Result(c, "ok") EXCEPT ![t] = Fresh]) /\ UNCHANGED join_waiter
      ELSE /\ Switch(h, [state EXCEPT ![c] = "WAITING"], Result(c, "ok"))
           /\ join_waiter' = [join_waiter EXCEPT ![t] = c]
\* Tid 0 cannot be joined; the idle thread of another hart can, for ever.
thread_sys_join(h, t) ==
  LET c == cur_tf[h]
  IN  IF t = 0 \/ t = c \/ state[t] = "UNUSED" \/ join_waiter[t] \notin {None, c}
      THEN Done(h, state, Result(c, "err")) /\ UNCHANGED join_waiter
      ELSE IF state[t] = "ZOMBIE"
      THEN Done(h, [state EXCEPT ![t] = "UNUSED"], [Result(c, "ok") EXCEPT ![t] = Fresh]) /\ UNCHANGED join_waiter
      ELSE /\ Switch(h, [state EXCEPT ![c] = "WAITING"], Result(c, "sys"))
           /\ join_waiter' = [join_waiter EXCEPT ![t] = c]

\* Timer and IPI interrupts that end a slice, interrupts that do not, and the
\* system calls.
trap_entry_c(h) ==
  /\ trap_pc[h] = "handler"
  /\ \/ cause[h] = "tick" /\ Done(h, state, tf) /\ UNCHANGED join_waiter
     \/ cause[h] = "irq" /\ Switch(h, state, tf) /\ UNCHANGED join_waiter
     \/ cause[h] = "YIELD" /\ thread_sys_yield(h)
     \/ cause[h] = "CREATE" /\ thread_sys_create(h)
     \/ cause[h] = "EXIT" /\ thread_sys_exit(h)
     \/ cause[h] = "JOIN" /\ \E t \in Tid : thread_sys_join(h, t)
  /\ UNCHANGED <<cause, regs, cur_tf, g_kernel_lock>>

\* The lock is given back first.
Bad_panic(h) ==
  /\ cause[h] = "UNKNOWN" /\ Go(h, "handler", "panic")
  /\ g_kernel_lock' = None
  /\ UNCHANGED <<cause, regs, cur_tf, kernel>>
\* An unknown system call or trap: the hart halts where it is.
panic(h) ==
  /\ cause[h] = "UNKNOWN" /\ Go(h, "handler", "panic")
  /\ UNCHANGED <<cause, regs, cur_tf, g_kernel_lock, kernel>>

TrapNext == \E h \in Harts :
  \/ execute(h) \/ save(h) \/ kernel_lock(h) \/ kernel_unlock(h) \/ restore(h)
  \/ trap_entry_c(h) \/ schedule(h) \/ panic(h)
  \/ \E why \in {"tick", "irq", "YIELD", "CREATE", "EXIT", "JOIN", "UNKNOWN"} : trap(h, why)

TrapPathSpec == TrapInit /\ [][TrapNext]_trap_vars

----------------------------------------------------------------------------
\* Two harts never share a frame, wherever they are on the path, and the frame
\* of a hart belongs to a thread that is RUNNING: the save before the lock and
\* the restore after it need no protection (trap.S).
FramesApart ==
  /\ \A g, h \in Harts : cur_tf[g] = cur_tf[h] => g = h
  /\ \A h \in Harts : trap_pc[h] # "schedule" => state[cur_tf[h]] = "RUNNING"

\* A thread that is being executed has its registers in the hart, any other
\* one in its frame.
Alive == {t \in Tid : state[t] \notin {"UNUSED", "ZOMBIE"}}
Context(t) == IF \E h \in Harts : cur_tf[h] = t /\ trap_pc[h] \in {"run", "save"}
              THEN regs[CHOOSE h \in Harts : cur_tf[h] = t]
              ELSE tf[t]
S == INSTANCE TrapSpec WITH ctx <- [t \in Alive |-> Context(t)],
                            waiting <- {t \in Tid : state[t] = "WAITING"}

\* A thread sees its own registers and the results of its own system calls,
\* whichever harts it runs on and whatever comes between: saving, switching,
\* joining and giving slots to new threads refine TrapSpec.
ImplementsContexts == S!SSpec

\* A panic keeps the kernel lock for ever: no other hart changes the kernel's
\* memory any more, so it is as it was when the panic is reported
\* (trap_entry_c, "unhandled trap").  Only frames are still written, by harts
\* on their way in.
PanicFreezes ==
  [][(\E h \in Harts : trap_pc[h] = "panic") => UNCHANGED <<state, join_waiter, cur_tf>>]_trap_vars
=============================================================================

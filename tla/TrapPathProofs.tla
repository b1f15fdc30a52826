--------------------------- MODULE TrapPathProofs ---------------------------
(***************************************************************************)
(* For any number of harts and threads: the frames of two harts are always *)
(* apart although they are written and read outside the kernel lock, a     *)
(* panic freezes the kernel's memory, and the trap path implements         *)
(* TrapSpec: contexts change only as their own threads make them.          *)
(***************************************************************************)
EXTENDS TrapPath, WellFoundedInduction, TLAPS

USE TrapAssumption

\* The lowest free slot exists and is free.
LEMMA LowestFree ==
  ASSUME NEW F, F \subseteq Nat, F # {}
  PROVE  Min(F) \in F
<1> DEFINE R == {p \in Nat \X Nat : p[1] < p[2]}
<1>1. IsWellFoundedOn(R, Nat)
  BY NatLessThanWellFounded, Zenon DEF OpToRel
<1> HIDE DEF R
<1>2. PICK n \in F : \A m \in F : ~ (<<m, n>> \in R)
  BY <1>1, WFMin
<1>3. ASSUME NEW m \in F PROVE n <= m
  <2>1. m \in Nat /\ n \in Nat /\ <<m, n>> \in Nat \X Nat
    OBVIOUS
  <2>2. ~ (m < n)
    BY <1>2, <2>1 DEF R
  <2> QED
    BY <2>1, <2>2
<1> QED
  BY <1>3 DEF Min

----------------------------------------------------------------------------
(* FramesApart needs to know why a thread that is given a CPU has none.     *)

Critical == {"handler", "schedule", "unlock", "panic"}

Causes == {"none", "tick", "irq", "YIELD", "CREATE", "EXIT", "JOIN", "UNKNOWN"}

Types ==
  /\ trap_pc \in [Harts -> Critical \cup {"run", "save", "lock", "restore"}]
  /\ cur_tf \in [Harts -> Tid]
  /\ state \in [Tid -> {"UNUSED", "RUNNABLE", "RUNNING", "WAITING", "ZOMBIE"}]
  /\ join_waiter \in [Tid -> Users \cup {None}] /\ cause \in [Harts -> Causes]

\* A hart in a handler holds the lock.
Locked == \A h \in Harts : trap_pc[h] \in Critical => g_kernel_lock = h

\* An idle thread runs on its own hart only.
OwnIdle == \A h \in Harts : cur_tf[h] \in Users \cup {h}

\* A system call is that of a user thread, until it is handled.
Callers ==
  \A h \in Harts : trap_pc[h] \in {"save", "lock", "handler"} /\ cause[h] \notin {"tick", "irq"} =>
                 cur_tf[h] \in Users

\* Who is named as a joiner waits, for one thread: an exit that makes it
\* RUNNABLE cannot take it from a CPU.
JoinersWait ==
  \A t \in Tid : join_waiter[t] # None =>
    /\ state[join_waiter[t]] = "WAITING"
    /\ \A u \in Tid : join_waiter[u] = join_waiter[t] => u = t

IInv == Types /\ Locked /\ OwnIdle /\ Callers /\ FramesApart /\ JoinersWait

\* The invariant holds initially.
LEMMA InitIInv == TrapInit => IInv
<1> SUFFICES ASSUME TrapInit PROVE IInv
  OBVIOUS
<1>1. Types
  BY DEF TrapInit, Types, Critical, Causes, Tid
<1>2. Locked /\ OwnIdle /\ Callers /\ JoinersWait
  BY DEF TrapInit, Locked, OwnIdle, Callers, JoinersWait, Critical
<1>3. FramesApart
  BY DEF TrapInit, FramesApart, Tid
<1> QED
  BY <1>1, <1>2, <1>3 DEF IInv

\* None is no thread.
LEMMA NoneIsNoThread == None \notin Tid
BY DEF None, Tid

\* What every handler has in common: it may take the CPU from its own thread
\* only, and leaves the way out to schedule then.
LEMMA HandlerStep ==
  ASSUME IInv, NEW h \in Harts, trap_pc[h] = "handler",
         trap_pc' = [trap_pc EXCEPT ![h] = "unlock"] \/ trap_pc' = [trap_pc EXCEPT ![h] = "schedule"],
         UNCHANGED <<cur_tf, g_kernel_lock, cause>>,
         state' \in [Tid -> {"UNUSED", "RUNNABLE", "RUNNING", "WAITING", "ZOMBIE"}],
         join_waiter' \in [Tid -> Users \cup {None}],
         \A t \in Tid : state[t] = "RUNNING" /\ t # cur_tf[h] => state'[t] = "RUNNING",
         trap_pc'[h] # "schedule" => state'[cur_tf[h]] = "RUNNING",
         JoinersWait'
  PROVE  IInv'
<1>1. Types'
  BY DEF IInv, Types, Critical
<1>2. Locked'
  BY DEF IInv, Types, Locked, Critical
<1>3. OwnIdle'
  BY DEF IInv, OwnIdle
<1>4. FramesApart'
  <2>1. ASSUME NEW g \in Harts, trap_pc'[g] # "schedule" PROVE state'[cur_tf'[g]] = "RUNNING"
    <3>1. CASE g = h
      BY <3>1, <2>1
    <3>2. CASE g # h
      <4>1. trap_pc[g] # "schedule" /\ cur_tf[g] # cur_tf[h] /\ cur_tf[g] \in Tid
        BY <3>2 DEF IInv, Types, Locked, FramesApart, Critical
      <4> QED
        BY <4>1 DEF IInv, FramesApart
    <3> QED
      BY <3>1, <3>2
  <2>2. \A g, k \in Harts : cur_tf'[g] = cur_tf'[k] => g = k
    BY DEF IInv, FramesApart
  <2> QED
    BY <2>1, <2>2 DEF FramesApart
<1>5. Callers'
  BY DEF IInv, Types, Callers, Critical
<1> QED
  BY <1>1, <1>2, <1>3, <1>4, <1>5 DEF IInv

\* SYS_YIELD preserves it.
LEMMA YieldStep ==
  ASSUME IInv, NEW h \in Harts, trap_pc[h] = "handler", thread_sys_yield(h),
         UNCHANGED <<cur_tf, g_kernel_lock, cause>>
  PROVE  IInv'
<1>1. cur_tf[h] \in Tid /\ state[cur_tf[h]] = "RUNNING"
  BY DEF IInv, Types, FramesApart
<1>2. /\ state' = [state EXCEPT ![cur_tf[h]] = "RUNNABLE"] /\ join_waiter' = join_waiter
      /\ trap_pc' = [trap_pc EXCEPT ![h] = "schedule"]
  BY <1>1 DEF thread_sys_yield, Switch, IInv, Types
<1>3. JoinersWait'
  BY <1>1, <1>2, NoneIsNoThread DEF IInv, Types, JoinersWait
<1> QED
  BY <1>1, <1>2, <1>3, HandlerStep DEF IInv, Types

\* SYS_THREAD_CREATE preserves it.
LEMMA CreateStep ==
  ASSUME IInv, NEW h \in Harts, trap_pc[h] = "handler", thread_sys_create(h),
         UNCHANGED <<cur_tf, g_kernel_lock, cause>>
  PROVE  IInv'
<1> DEFINE free == {t \in Users : state[t] = "UNUSED"}
<1>1. cur_tf[h] \in Tid /\ state[cur_tf[h]] = "RUNNING"
  BY DEF IInv, Types, FramesApart
<1>2. CASE free = {}
  <2>1. state' = state /\ join_waiter' = join_waiter /\ trap_pc' = [trap_pc EXCEPT ![h] = "unlock"]
    BY <1>2 DEF thread_sys_create, Done
  <2> QED
    BY <1>1, <2>1, HandlerStep DEF IInv, Types, JoinersWait
<1>3. CASE free # {}
  <2>1. PICK t \in Users : /\ state[t] = "UNUSED" /\ state' = [state EXCEPT ![t] = "RUNNABLE"]
                           /\ join_waiter' = join_waiter /\ trap_pc' = [trap_pc EXCEPT ![h] = "unlock"]
    <3>1. Min(free) \in free
      BY <1>3, LowestFree
    <3> QED
      BY <1>3, <3>1 DEF thread_sys_create, Done
  <2>2. JoinersWait'
    BY <2>1, NoneIsNoThread DEF IInv, Types, JoinersWait, Tid
  <2> QED
    BY <1>1, <2>1, <2>2, HandlerStep DEF IInv, Types, Tid
<1> QED
  BY <1>2, <1>3

\* SYS_THREAD_EXIT preserves it: the joiner it wakes has no CPU.
LEMMA ExitStep ==
  ASSUME IInv, NEW h \in Harts, trap_pc[h] = "handler", thread_sys_exit(h),
         UNCHANGED <<cur_tf, g_kernel_lock, cause>>
  PROVE  IInv'
<1> DEFINE c == cur_tf[h]
           w == join_waiter[c]
<1>1. c \in Tid /\ state[c] = "RUNNING" /\ w \in Users \cup {None}
  BY DEF IInv, Types, FramesApart
<1>2. join_waiter' = [join_waiter EXCEPT ![c] = None] /\ trap_pc' = [trap_pc EXCEPT ![h] = "schedule"]
  BY DEF thread_sys_exit, Switch
<1>3. CASE w = None
  <2>1. state' = [state EXCEPT ![c] = "ZOMBIE"]
    BY <1>1, <1>3 DEF thread_sys_exit, Switch, IInv, Types
  <2>2. JoinersWait'
    BY <1>1, <1>2, <2>1, NoneIsNoThread DEF IInv, Types, JoinersWait
  <2> QED
    BY <1>1, <1>2, <2>1, <2>2, HandlerStep DEF IInv, Types
<1>4. CASE w # None
  <2>1. w \in Users /\ w \in Tid /\ w # c /\ state[w] = "WAITING"
    BY <1>1, <1>4 DEF IInv, Types, JoinersWait, Tid
  <2>2. state' = [state EXCEPT ![c] = "UNUSED", ![w] = "RUNNABLE"]
    BY <1>1, <1>4, <2>1 DEF thread_sys_exit, Switch, IInv, Types
  <2>3. JoinersWait'
    <3> SUFFICES ASSUME NEW t \in Tid, join_waiter'[t] # None
                 PROVE  /\ state'[join_waiter'[t]] = "WAITING"
                        /\ \A u \in Tid : join_waiter'[u] = join_waiter'[t] => u = t
      BY DEF JoinersWait
    <3>1. t # c /\ join_waiter'[t] = join_waiter[t] /\ join_waiter[t] \in Tid
      BY <1>1, <1>2 DEF IInv, Types, Tid
    <3>2. join_waiter[t] # w /\ join_waiter[t] # c
      BY <1>1, <1>4, <3>1 DEF IInv, JoinersWait
    <3>3. state'[join_waiter[t]] = "WAITING"
      BY <1>1, <2>1, <2>2, <3>1, <3>2 DEF IInv, Types, JoinersWait
    <3>4. ASSUME NEW u \in Tid, join_waiter'[u] = join_waiter'[t] PROVE u = t
      BY <1>1, <1>2, <3>1, <3>4, NoneIsNoThread DEF IInv, Types, JoinersWait
    <3> QED
      BY <3>1, <3>3, <3>4
  <2> QED
    BY <1>1, <1>2, <2>1, <2>2, <2>3, HandlerStep DEF IInv, Types
<1> QED
  BY <1>3, <1>4

\* SYS_THREAD_JOIN preserves it.
LEMMA JoinStep ==
  ASSUME IInv, NEW h \in Harts, trap_pc[h] = "handler", cause[h] = "JOIN",
         NEW t \in Tid, thread_sys_join(h, t),
         UNCHANGED <<cur_tf, g_kernel_lock, cause>>
  PROVE  IInv'
<1> DEFINE c == cur_tf[h]
           Refused == t = 0 \/ t = c \/ state[t] = "UNUSED" \/ join_waiter[t] \notin {None, c}
<1>1. c \in Tid /\ c \in Users /\ state[c] = "RUNNING"
  BY DEF IInv, Types, FramesApart, Callers
<1>2. CASE Refused
  <2>1. state' = state /\ join_waiter' = join_waiter /\ trap_pc' = [trap_pc EXCEPT ![h] = "unlock"]
    BY <1>2 DEF thread_sys_join, Done
  <2> QED
    BY <1>1, <2>1, HandlerStep DEF IInv, Types, JoinersWait
<1>3. CASE ~Refused /\ state[t] = "ZOMBIE"
  <2>1. /\ state' = [state EXCEPT ![t] = "UNUSED"] /\ join_waiter' = join_waiter
        /\ trap_pc' = [trap_pc EXCEPT ![h] = "unlock"]
    BY <1>3 DEF thread_sys_join, Done
  <2>2. JoinersWait'
    BY <1>3, <2>1, NoneIsNoThread DEF IInv, Types, JoinersWait
  <2> QED
    BY <1>1, <1>3, <2>1, <2>2, HandlerStep DEF IInv, Types
<1>4. CASE ~Refused /\ state[t] # "ZOMBIE"
  <2>1. /\ state' = [state EXCEPT ![c] = "WAITING"] /\ join_waiter' = [join_waiter EXCEPT ![t] = c]
        /\ trap_pc' = [trap_pc EXCEPT ![h] = "schedule"]
    BY <1>1, <1>4 DEF thread_sys_join, Switch, IInv, Types
  <2>2. \A u \in Tid : join_waiter[u] # c
    BY <1>1, NoneIsNoThread DEF IInv, JoinersWait
  <2>3. JoinersWait'
    BY <1>1, <2>1, <2>2, NoneIsNoThread DEF IInv, Types, JoinersWait
  <2> QED
    BY <1>1, <2>1, <2>3, HandlerStep DEF IInv, Types
<1> QED
  BY <1>2, <1>3, <1>4

\* The thread that schedule takes is on no other hart: it is RUNNABLE, and the
\* other harts' threads are RUNNING while this one holds the lock.
LEMMA ScheduleStep ==
  ASSUME IInv, NEW h \in Harts, schedule(h)
  PROVE  IInv'
<1>1. PICK next \in {t \in Users : state[t] = "RUNNABLE"} \cup {h} :
        state' = [state EXCEPT ![next] = "RUNNING"] /\ cur_tf' = [cur_tf EXCEPT ![h] = next]
  BY DEF schedule
<1>2. /\ trap_pc[h] = "schedule" /\ trap_pc' = [trap_pc EXCEPT ![h] = "unlock"]
      /\ UNCHANGED <<g_kernel_lock, join_waiter>> /\ next \in Tid
  BY DEF schedule, Go, Tid
<1>3. \A g \in Harts \ {h} : trap_pc[g] \notin Critical /\ state[cur_tf[g]] = "RUNNING" /\ cur_tf[g] # next
  BY <1>2 DEF IInv, Types, Locked, OwnIdle, FramesApart, Critical
<1>4. Types'
  BY <1>1, <1>2 DEF IInv, Types, Critical, schedule
<1>5. Locked'
  BY <1>2 DEF IInv, Types, Locked, Critical
<1>6. OwnIdle'
  BY <1>1, <1>2 DEF IInv, Types, OwnIdle
<1>7. FramesApart'
  <2>1. \A g \in Harts : cur_tf'[g] = IF g = h THEN next ELSE cur_tf[g]
    BY <1>1 DEF IInv, Types
  <2>2. \A g, k \in Harts : cur_tf'[g] = cur_tf'[k] => g = k
    BY <1>3, <2>1 DEF IInv, FramesApart
  <2>3. \A g \in Harts : state'[cur_tf'[g]] = "RUNNING"
    BY <1>1, <1>2, <1>3, <2>1 DEF IInv, Types
  <2> QED
    BY <2>2, <2>3 DEF FramesApart
<1>8. JoinersWait'
  <2>1. \A u \in Tid : join_waiter[u] # None => join_waiter[u] # next /\ join_waiter[u] \in Tid
    BY <1>1 DEF IInv, Types, JoinersWait, Tid
  <2> QED
    BY <1>1, <1>2, <2>1 DEF IInv, Types, JoinersWait
<1>9. Callers'
  BY <1>1, <1>2 DEF IInv, Types, Callers, schedule, Critical
<1> QED
  BY <1>4, <1>5, <1>6, <1>7, <1>8, <1>9 DEF IInv

\* The steps of trap.S, of the lock and of user mode leave the kernel's
\* memory alone.
LEMMA PathStep ==
  ASSUME IInv, NEW h \in Harts, UNCHANGED <<cur_tf, state, join_waiter>>, Types',
         Locked', Callers', trap_pc[h] # "schedule", \A g \in Harts \ {h} : trap_pc'[g] = trap_pc[g]
  PROVE  IInv'
BY DEF IInv, OwnIdle, FramesApart, JoinersWait

\* Every step preserves it.
LEMMA NextStep ==
  ASSUME IInv, [TrapNext]_trap_vars
  PROVE  IInv'
<1>1. CASE UNCHANGED trap_vars
  BY <1>1 DEF trap_vars, kernel, IInv, Types, Locked, OwnIdle, Callers, FramesApart, JoinersWait
<1>2. ASSUME NEW h \in Harts, execute(h) PROVE IInv'
  BY <1>2, PathStep DEF execute, kernel, IInv, Types, Locked, Callers
<1>3. ASSUME NEW h \in Harts, save(h) PROVE IInv'
  BY <1>3, PathStep DEF save, Go, IInv, Types, Locked, Callers, Critical
<1>4. ASSUME NEW h \in Harts, kernel_lock(h) PROVE IInv'
  <2>1. Types'
    BY <1>4 DEF kernel_lock, kernel, Go, IInv, Types, Critical
  <2>2. Locked'
    <3>1. \A g \in Harts : trap_pc[g] \notin Critical
      BY <1>4 DEF kernel_lock, IInv, Locked, None
    <3> QED
      BY <1>4, <3>1 DEF kernel_lock, Go, IInv, Types, Locked
  <2>3. Callers'
    BY <1>4 DEF kernel_lock, Go, IInv, Types, Callers
  <2> QED
    BY <1>4, <2>1, <2>2, <2>3, PathStep DEF kernel_lock, kernel, Go, IInv, Types
<1>5. ASSUME NEW h \in Harts, kernel_unlock(h) PROVE IInv'
  BY <1>5, PathStep DEF kernel_unlock, kernel, Go, IInv, Types, Locked, Callers, Critical
<1>6. ASSUME NEW h \in Harts, restore(h) PROVE IInv'
  BY <1>6, PathStep DEF restore, kernel, Go, IInv, Types, Locked, Callers, Critical, Causes
<1>7. ASSUME NEW h \in Harts, trap_entry_c(h) PROVE IInv'
  <2>1. trap_pc[h] = "handler" /\ UNCHANGED <<cur_tf, g_kernel_lock, cause>>
    BY <1>7 DEF trap_entry_c
  <2>2. CASE cause[h] = "tick" /\ Done(h, state, tf) /\ UNCHANGED join_waiter
    <3>1. state' = state /\ join_waiter' = join_waiter /\ trap_pc' = [trap_pc EXCEPT ![h] = "unlock"]
      BY <2>2 DEF Done
    <3> QED
      BY <2>1, <3>1, HandlerStep DEF IInv, Types, JoinersWait, FramesApart
  <2>3. CASE cause[h] = "irq" /\ Switch(h, state, tf) /\ UNCHANGED join_waiter
    <3>1. cur_tf[h] \in Tid /\ state[cur_tf[h]] = "RUNNING"
      BY <2>1 DEF IInv, Types, FramesApart
    <3>2. /\ state' = [state EXCEPT ![cur_tf[h]] = "RUNNABLE"] /\ join_waiter' = join_waiter
          /\ trap_pc' = [trap_pc EXCEPT ![h] = "schedule"]
      BY <2>3, <3>1 DEF Switch, IInv, Types
    <3>3. JoinersWait'
      BY <3>1, <3>2, NoneIsNoThread DEF IInv, Types, JoinersWait, Tid
    <3> QED
      BY <2>1, <3>1, <3>2, <3>3, HandlerStep DEF IInv, Types
  <2>4. CASE thread_sys_yield(h)
    BY <2>1, <2>4, YieldStep
  <2>5. CASE thread_sys_create(h)
    BY <2>1, <2>5, CreateStep
  <2>6. CASE thread_sys_exit(h)
    BY <2>1, <2>6, ExitStep
  <2>7. CASE cause[h] = "JOIN" /\ \E t \in Tid : thread_sys_join(h, t)
    BY <2>1, <2>7, JoinStep
  <2> QED
    BY <1>7, <2>2, <2>3, <2>4, <2>5, <2>6, <2>7 DEF trap_entry_c
<1>8. ASSUME NEW h \in Harts, panic(h) PROVE IInv'
  BY <1>8, PathStep DEF panic, kernel, Go, IInv, Types, Locked, Callers, Critical
<1>9. ASSUME NEW h \in Harts,
             NEW why \in {"tick", "irq", "YIELD", "CREATE", "EXIT", "JOIN", "UNKNOWN"}, trap(h, why)
      PROVE  IInv'
  <2>1. Types'
    BY <1>9 DEF trap, kernel, Go, IInv, Types, Causes, Critical
  <2>2. Locked'
    BY <1>9 DEF trap, Go, IInv, Types, Locked, Critical
  <2>3. Callers'
    BY <1>9 DEF trap, Go, IInv, Types, Callers
  <2> QED
    BY <1>9, <2>1, <2>2, <2>3, PathStep DEF trap, kernel, Go, IInv, Types
<1> QED
  BY <1>1, <1>2, <1>3, <1>4, <1>5, <1>6, <1>7, <1>8, <1>9, ScheduleStep DEF TrapNext

\* trap.S may save and restore frames outside the kernel lock: for every
\* number of harts and threads no two harts have the same frame, and the
\* thread of a frame that is in use is RUNNING.
THEOREM FramesStayApart == TrapPathSpec => []FramesApart
<1>1. IInv => FramesApart
  BY DEF IInv
<1> QED
  BY <1>1, InitIInv, NextStep, PTL DEF TrapPathSpec

\* Once a hart has panicked in a handler the memory of the kernel no longer
\* changes: the lock stays with that hart, and every step that changes thread
\* states, joiners or current threads needs it.
THEOREM PanicStops == TrapPathSpec => PanicFreezes
<1>1. IInv /\ [TrapNext]_trap_vars =>
        [(\E h \in Harts : trap_pc[h] = "panic") => UNCHANGED <<state, join_waiter, cur_tf>>]_trap_vars
  <2> SUFFICES ASSUME IInv, TrapNext, NEW k \in Harts, trap_pc[k] = "panic"
               PROVE  UNCHANGED <<state, join_waiter, cur_tf>>
    OBVIOUS
  <2>1. \A h \in Harts : trap_pc[h] \notin {"handler", "schedule"}
    BY DEF IInv, Locked, Critical
  <2> QED
    BY <2>1 DEF TrapNext, execute, trap, save, kernel_lock, kernel_unlock, restore, trap_entry_c,
                schedule, panic, Go, kernel
<1> QED
  BY <1>1, InitIInv, NextStep, PTL DEF TrapPathSpec, PanicFreezes

----------------------------------------------------------------------------
(* The refinement of TrapSpec.                                             *)

Ctx == [n : 0 .. 2, a0 : {"arg", "sys", "ok", "err", "kernel"}]

\* Idle threads never block or end.
IdleAlive == \A h \in Harts : state[h] \in {"RUNNING", "RUNNABLE"}

\* A system call that is not handled yet has its number in a0.
Asked ==
  \A h \in Harts : cause[h] \notin {"tick", "irq"} =>
    /\ trap_pc[h] = "save" => regs[h].a0 = "sys"
    /\ trap_pc[h] \in {"lock", "handler"} => tf[cur_tf[h]].a0 = "sys"

CInv == IInv /\ regs \in [Harts -> Ctx] /\ tf \in [Tid -> Ctx] /\ IdleAlive /\ Asked

\* The abstract state.
Bar == [t \in Alive |-> Context(t)]
Waiting == {t \in Tid : state[t] = "WAITING"}

\* A step that changes no context of a live thread and no waiter stutters.
LEMMA BarSame ==
  ASSUME Alive' = Alive, \A t \in Alive : Context(t)' = Context(t), Waiting' = Waiting
  PROVE  UNCHANGED S!svars
<1>1. Bar' = Bar
  BY DEF Bar
<1> QED
  BY <1>1 DEF S!svars, Bar, Waiting

\* The thread c alone changes, to the context v.
LEMMA BarChanged ==
  ASSUME NEW c \in Alive, NEW v, Alive' = Alive, Context(c)' = v,
         \A t \in Alive \ {c} : Context(t)' = Context(t)
  PROVE  Bar' = [Bar EXCEPT ![c] = v] /\ Bar[c] = Context(c)
BY DEF Bar

\* The context of a thread that a hart executes, or that nobody does.
LEMMA ContextOf ==
  ASSUME IInv, NEW h \in Harts
  PROVE  /\ cur_tf[h] \in Tid
         /\ trap_pc[h] \in {"run", "save"} => Context(cur_tf[h]) = regs[h] /\ cur_tf[h] \in Alive
         /\ trap_pc[h] \notin {"run", "save"} => Context(cur_tf[h]) = tf[cur_tf[h]]
<1>1. \A g \in Harts : cur_tf[g] = cur_tf[h] => g = h
  BY DEF IInv, FramesApart
<1>2. (CHOOSE g \in Harts : cur_tf[g] = cur_tf[h]) = h
  BY <1>1
<1>3. cur_tf[h] \in Tid /\ (trap_pc[h] # "schedule" => state[cur_tf[h]] = "RUNNING")
  BY DEF IInv, Types, FramesApart
<1>4. trap_pc[h] \in {"run", "save"} => Context(cur_tf[h]) = regs[h]
  BY <1>2 DEF Context
<1>5. trap_pc[h] \notin {"run", "save"} => Context(cur_tf[h]) = tf[cur_tf[h]]
  BY <1>1 DEF Context
<1> QED
  BY <1>3, <1>4, <1>5 DEF Alive

\* A step of hart h on the way in or out leaves all other contexts alone.
LEMMA OtherContexts ==
  ASSUME IInv, NEW h \in Harts, cur_tf' = cur_tf, \A g \in Harts \ {h} : trap_pc'[g] = trap_pc[g] /\ regs'[g] = regs[g],
         NEW t \in Tid, t # cur_tf[h], tf'[t] = tf[t]
  PROVE  Context(t)' = Context(t)
<1>1. CASE \E g \in Harts : cur_tf[g] = t
  <2>1. PICK g \in Harts : cur_tf[g] = t
    BY <1>1
  <2>2. g # h /\ (CHOOSE k \in Harts : cur_tf[k] = t) = g /\ \A k \in Harts : cur_tf[k] = t => k = g
    BY <2>1 DEF IInv, FramesApart
  <2> QED
    BY <2>1, <2>2 DEF Context
<1>2. CASE ~\E g \in Harts : cur_tf[g] = t
  BY <1>2 DEF Context
<1> QED
  BY <1>1, <1>2

----------------------------------------------------------------------------
(* User mode and trap.S.                                                   *)

\* User code changes its own context.
LEMMA ExecuteRefines ==
  ASSUME CInv, NEW h \in Harts, execute(h)
  PROVE  CInv' /\ S!SNext
<1> PICK c : c = cur_tf[h]
  OBVIOUS
<1> PICK v : v = [n |-> After(regs[h]), a0 |-> "arg"]
  OBVIOUS
<1>0. IInv' /\ IInv
  BY NextStep DEF CInv, TrapNext
<1>1. /\ trap_pc[h] = "run" /\ regs' = [regs EXCEPT ![h] = v] /\ trap_pc' = trap_pc /\ cur_tf' = cur_tf /\ tf' = tf
      /\ state' = state /\ cause' = cause
  BY DEF execute, kernel
<1>2. regs \in [Harts -> Ctx] /\ regs[h] \in Ctx /\ v \in Ctx
  BY DEF CInv, Ctx, After
<1>3. CInv'
  <2>1. regs' \in [Harts -> Ctx] /\ tf' \in [Tid -> Ctx] /\ IdleAlive'
    BY <1>1, <1>2 DEF CInv, IdleAlive
  <2>2. Asked'
    BY <1>1, <1>2 DEF CInv, Asked
  <2> QED
    BY <1>0, <2>1, <2>2 DEF CInv
<1>4. c \in Alive /\ Context(c) = regs[h] /\ state[c] = "RUNNING"
  BY <1>0, <1>1, ContextOf DEF IInv, FramesApart
<1>5. Context(c)' = v
  <2>1. \A g \in Harts : cur_tf[g] = c => g = h
    BY <1>0 DEF IInv, FramesApart
  <2>2. (CHOOSE g \in Harts : cur_tf[g] = c) = h
    BY <2>1
  <2> QED
    BY <1>1, <1>2, <2>2 DEF Context
<1>6. \A t \in Alive \ {c} : Context(t)' = Context(t)
  BY <1>0, <1>1, <1>2, OtherContexts DEF Alive
<1>7. Alive' = Alive /\ Waiting' = Waiting /\ c \notin Waiting
  BY <1>1, <1>4 DEF Alive, Waiting
<1>8. Bar' = [Bar EXCEPT ![c] = v] /\ Bar[c] = regs[h]
  BY <1>4, <1>5, <1>6, <1>7, BarChanged
<1>9. S!Execute(c)
  BY <1>7, <1>8 DEF S!Execute, Bar, Waiting, S!After, After
<1> QED
  BY <1>3, <1>4, <1>9 DEF S!SNext, S!live

\* The steps on the path in and out: hart h goes on, and at most its registers
\* and the frame of its own thread are written.
LEMMA PathRefines ==
  ASSUME CInv, IInv', NEW h \in Harts, UNCHANGED <<cur_tf, state>>,
         \A g \in Harts \ {h} : trap_pc'[g] = trap_pc[g] /\ regs'[g] = regs[g] /\ cause'[g] = cause[g],
         \A t \in Tid \ {cur_tf[h]} : tf'[t] = tf[t],
         regs' \in [Harts -> Ctx], tf' \in [Tid -> Ctx],
         cause'[h] \notin {"tick", "irq"} =>
           /\ trap_pc'[h] = "save" => regs'[h].a0 = "sys"
           /\ trap_pc'[h] \in {"lock", "handler"} => tf'[cur_tf[h]].a0 = "sys"
  PROVE  /\ CInv' /\ Alive' = Alive /\ Waiting' = Waiting
         /\ \A t \in Alive \ {cur_tf[h]} : Context(t)' = Context(t)
<1>0. IInv
  BY DEF CInv
<1>1. \A t \in Alive \ {cur_tf[h]} : Context(t)' = Context(t)
  BY <1>0, OtherContexts DEF Alive
<1>2. Alive' = Alive /\ Waiting' = Waiting /\ IdleAlive'
  BY DEF Alive, Waiting, IdleAlive, CInv
<1>3. \A g \in Harts \ {h} : cur_tf[g] \in Tid \ {cur_tf[h]}
  BY <1>0 DEF IInv, Types, FramesApart
<1>4. Asked'
  BY <1>3 DEF CInv, Asked
<1> QED
  BY <1>1, <1>2, <1>4 DEF CInv

\* If the context of the thread of h is where it was, the step shows nothing.
LEMMA PathStutters ==
  ASSUME NEW h \in Harts, Alive' = Alive, Waiting' = Waiting, NEW c, c = cur_tf[h],
         \A t \in Alive \ {cur_tf[h]} : Context(t)' = Context(t), Context(c)' = Context(c)
  PROVE  UNCHANGED S!svars
<1>1. \A t \in Alive : Context(t)' = Context(t)
  OBVIOUS
<1> QED
  BY <1>1, BarSame

\* ContextOf after a step.
LEMMA ContextThen ==
  ASSUME IInv', NEW h \in Harts, NEW c, c = cur_tf'[h]
  PROVE  /\ trap_pc'[h] \in {"run", "save"} => Context(c)' = regs'[h]
         /\ trap_pc'[h] \notin {"run", "save"} => Context(c)' = tf'[c]
<1>1. \A g \in Harts : cur_tf'[g] = c => g = h
  BY DEF IInv, FramesApart
<1>2. (CHOOSE g \in Harts : cur_tf'[g] = c) = h
  BY <1>1
<1>3. trap_pc'[h] \in {"run", "save"} => Context(c)' = regs'[h]
  BY <1>2 DEF Context
<1>4. trap_pc'[h] \notin {"run", "save"} => Context(c)' = tf'[c]
  BY <1>1 DEF Context
<1> QED
  BY <1>3, <1>4

\* A trap changes no context: the registers still are those of the thread.
LEMMA TrapRefines ==
  ASSUME CInv, NEW h \in Harts,
         NEW why \in {"tick", "irq", "YIELD", "CREATE", "EXIT", "JOIN", "UNKNOWN"}, trap(h, why)
  PROVE  CInv' /\ [S!SNext]_(S!svars)
<1> PICK c : c = cur_tf[h]
  OBVIOUS
<1>0. IInv' /\ IInv
  BY NextStep DEF CInv, TrapNext
<1>1. /\ trap_pc[h] = "run" /\ trap_pc' = [trap_pc EXCEPT ![h] = "save"] /\ cause' = [cause EXCEPT ![h] = why]
      /\ UNCHANGED <<cur_tf, tf, state>>
      /\ regs' = IF why \in {"tick", "irq"} THEN regs ELSE [regs EXCEPT ![h].a0 = "sys"]
  BY DEF trap, Go, kernel
<1>2. trap_pc \in [Harts -> Critical \cup {"run", "save", "lock", "restore"}] /\ cause \in [Harts -> Causes]
  BY <1>0 DEF IInv, Types
<1>3. regs \in [Harts -> Ctx] /\ regs[h] \in Ctx /\ tf \in [Tid -> Ctx]
  BY DEF CInv
<1>4. regs' \in [Harts -> Ctx] /\ (why \notin {"tick", "irq"} => regs'[h].a0 = "sys")
  BY <1>1, <1>3 DEF Ctx
<1>5. /\ CInv' /\ Alive' = Alive /\ Waiting' = Waiting
      /\ \A t \in Alive \ {c} : Context(t)' = Context(t)
  BY <1>0, <1>1, <1>2, <1>3, <1>4, PathRefines
<1>6. c \in Alive /\ Context(c) = regs[h] /\ Context(c)' = regs'[h] /\ state[c] = "RUNNING"
  BY <1>0, <1>1, <1>2, ContextOf, ContextThen DEF IInv, FramesApart
<1>7. CASE why \in {"tick", "irq"}
  BY <1>1, <1>5, <1>6, <1>7, PathStutters
<1>8. CASE why \notin {"tick", "irq"}
  <2> PICK v : v = [regs[h] EXCEPT !.a0 = "sys"]
    OBVIOUS
  <2>1. regs'[h] = v
    BY <1>1, <1>3, <1>8
  <2>2. Bar' = [Bar EXCEPT ![c] = v] /\ Bar[c] = regs[h]
    BY <1>5, <1>6, <2>1, BarChanged
  <2>3. Bar' = [Bar EXCEPT ![c].a0 = "sys"]
    BY <2>2
  <2>4. S!Ask(c)
    BY <1>5, <1>6, <2>3 DEF S!Ask, Bar, Waiting
  <2> QED
    BY <1>5, <1>6, <2>4 DEF S!SNext, S!live
<1> QED
  BY <1>5, <1>7, <1>8

\* Saving and restoring move a context between registers and frame.
LEMMA SaveRestoreRefines ==
  ASSUME CInv, NEW h \in Harts, save(h) \/ restore(h)
  PROVE  CInv' /\ UNCHANGED S!svars
<1> PICK c : c = cur_tf[h]
  OBVIOUS
<1>0. IInv' /\ IInv
  BY NextStep DEF CInv, TrapNext
<1>1. trap_pc \in [Harts -> Critical \cup {"run", "save", "lock", "restore"}] /\ cause \in [Harts -> Causes]
      /\ c \in Tid
  BY <1>0 DEF IInv, Types
<1>2. regs \in [Harts -> Ctx] /\ regs[h] \in Ctx /\ tf \in [Tid -> Ctx] /\ Kernel \in Ctx
  BY DEF CInv, Kernel, Ctx
<1>3. UNCHANGED <<cur_tf, state>> /\ cur_tf'[h] = c
  BY DEF save, restore, kernel
<1>4. CASE save(h)
  <2>1. /\ trap_pc[h] = "save" /\ trap_pc' = [trap_pc EXCEPT ![h] = "lock"] /\ cause' = cause
        /\ tf' = [tf EXCEPT ![c] = regs[h]] /\ regs' = [regs EXCEPT ![h] = Kernel]
    BY <1>4 DEF save, Go
  <2>2. regs' \in [Harts -> Ctx] /\ tf' \in [Tid -> Ctx] /\ tf'[c] = regs[h]
    BY <1>1, <1>2, <2>1
  <2>3. cause[h] \notin {"tick", "irq"} => tf'[c].a0 = "sys"
    BY <2>1, <2>2 DEF CInv, Asked
  <2>4. /\ CInv' /\ Alive' = Alive /\ Waiting' = Waiting
        /\ \A t \in Alive \ {c} : Context(t)' = Context(t)
    BY <1>0, <1>1, <1>2, <1>3, <2>1, <2>2, <2>3, PathRefines
  <2>5. Context(c) = regs[h] /\ Context(c)' = tf'[c]
    BY <1>0, <1>1, <1>3, <2>1, ContextOf, ContextThen
  <2> QED
    BY <2>2, <2>4, <2>5, PathStutters
<1>5. CASE restore(h)
  <2>1. /\ trap_pc[h] = "restore" /\ trap_pc' = [trap_pc EXCEPT ![h] = "run"] /\ cause' = [cause EXCEPT ![h] = "none"]
        /\ tf' = tf /\ regs' = [regs EXCEPT ![h] = tf[c]]
    BY <1>5 DEF restore, Go, kernel
  <2>2. regs' \in [Harts -> Ctx] /\ tf' \in [Tid -> Ctx] /\ regs'[h] = tf[c] /\ trap_pc'[h] = "run"
    BY <1>1, <1>2, <2>1
  <2>3. /\ CInv' /\ Alive' = Alive /\ Waiting' = Waiting
        /\ \A t \in Alive \ {c} : Context(t)' = Context(t)
    BY <1>0, <1>1, <1>2, <1>3, <2>1, <2>2, PathRefines
  <2>4. Context(c) = tf[c] /\ Context(c)' = regs'[h]
    BY <1>0, <1>1, <1>3, <2>1, <2>2, ContextOf, ContextThen
  <2> QED
    BY <2>2, <2>3, <2>4, PathStutters
<1> QED
  BY <1>4, <1>5

\* Taking and giving back the lock, and a panic, change no context.
LEMMA LockRefines ==
  ASSUME CInv, NEW h \in Harts, kernel_lock(h) \/ kernel_unlock(h) \/ panic(h)
  PROVE  CInv' /\ UNCHANGED S!svars
<1> PICK c : c = cur_tf[h]
  OBVIOUS
<1>0. IInv' /\ IInv
  BY NextStep DEF CInv, TrapNext
<1>1. trap_pc \in [Harts -> Critical \cup {"run", "save", "lock", "restore"}] /\ c \in Tid
  BY <1>0 DEF IInv, Types
<1>2. /\ UNCHANGED <<cur_tf, state, regs, tf, cause>> /\ trap_pc[h] \in {"lock", "unlock", "handler"}
      /\ \A g \in Harts \ {h} : trap_pc'[g] = trap_pc[g]
      /\ trap_pc'[h] \in {"handler", "restore", "panic"} /\ (trap_pc'[h] = "handler" => trap_pc[h] = "lock")
  BY <1>1 DEF kernel_lock, kernel_unlock, panic, Go, kernel
<1>3. /\ CInv' /\ Alive' = Alive /\ Waiting' = Waiting
      /\ \A t \in Alive \ {c} : Context(t)' = Context(t)
  <2>1. cause'[h] \notin {"tick", "irq"} =>
           /\ trap_pc'[h] = "save" => regs'[h].a0 = "sys"
           /\ trap_pc'[h] \in {"lock", "handler"} => tf'[cur_tf[h]].a0 = "sys"
    BY <1>2 DEF CInv, Asked
  <2> QED
    BY <1>0, <1>2, <2>1, PathRefines DEF CInv
<1>4. Context(c) = tf[c] /\ Context(c)' = tf'[c]
  BY <1>0, <1>1, <1>2, ContextOf, ContextThen
<1> QED
  BY <1>2, <1>3, <1>4, PathStutters

----------------------------------------------------------------------------
(* The handlers.                                                           *)

\* The thread that is switched to is on no other hart, and the one that is
\* switched from has its context in its frame.
LEMMA ScheduleRefines ==
  ASSUME CInv, NEW h \in Harts, schedule(h)
  PROVE  CInv' /\ UNCHANGED S!svars
<1>0. IInv' /\ IInv
  BY NextStep DEF CInv, TrapNext
<1>1. PICK next \in {t \in Users : state[t] = "RUNNABLE"} \cup {h} :
        state' = [state EXCEPT ![next] = "RUNNING"] /\ cur_tf' = [cur_tf EXCEPT ![h] = next]
  BY DEF schedule
<1>2. /\ trap_pc[h] = "schedule" /\ trap_pc' = [trap_pc EXCEPT ![h] = "unlock"] /\ UNCHANGED <<cause, regs, tf>>
      /\ next \in Tid
  BY DEF schedule, Go, Tid
<1>3. /\ trap_pc \in [Harts -> Critical \cup {"run", "save", "lock", "restore"}] /\ cur_tf \in [Harts -> Tid]
      /\ state \in [Tid -> {"UNUSED", "RUNNABLE", "RUNNING", "WAITING", "ZOMBIE"}]
  BY <1>0 DEF IInv, Types
<1>4. \A g \in Harts \ {h} : trap_pc'[g] = trap_pc[g] /\ cur_tf'[g] = cur_tf[g]
  BY <1>1, <1>2, <1>3
<1>5. trap_pc'[h] = "unlock" /\ cur_tf'[h] = next /\ state[next] \in {"RUNNABLE", "RUNNING"}
  BY <1>1, <1>2, <1>3 DEF CInv, IdleAlive
<1>6. Alive' = Alive /\ Waiting' = Waiting /\ IdleAlive'
  BY <1>1, <1>2, <1>3, <1>5 DEF Alive, Waiting, CInv, IdleAlive, Tid
<1>7. Asked'
  BY <1>2, <1>4, <1>5 DEF CInv, Asked
<1>8. ASSUME NEW t \in Tid PROVE Context(t)' = Context(t)
  <2>1. CASE \E g \in Harts \ {h} : cur_tf[g] = t
    <3>1. PICK g \in Harts \ {h} : cur_tf[g] = t
      BY <2>1
    <3>2. /\ \A k \in Harts : cur_tf[k] = t => k = g
          /\ \A k \in Harts : cur_tf'[k] = t => k = g
      BY <3>1, <1>0, <1>4 DEF IInv, FramesApart
    <3>3. (CHOOSE k \in Harts : cur_tf[k] = t) = g /\ (CHOOSE k \in Harts : cur_tf'[k] = t) = g
      BY <3>1, <3>2, <1>4
    <3> QED
      BY <3>1, <3>2, <3>3, <1>2, <1>4 DEF Context
  <2>2. CASE ~\E g \in Harts \ {h} : cur_tf[g] = t
    <3>1. ~\E g \in Harts : cur_tf[g] = t /\ trap_pc[g] \in {"run", "save"}
      BY <2>2, <1>2
    <3>2. ~\E g \in Harts : cur_tf'[g] = t /\ trap_pc'[g] \in {"run", "save"}
      BY <2>2, <1>4, <1>5
    <3> QED
      BY <3>1, <3>2, <1>2 DEF Context
  <2> QED
    BY <2>1, <2>2
<1> QED
  BY <1>0, <1>2, <1>6, <1>7, <1>8, BarSame DEF CInv, Alive

\* A handler leaves the frames of the other harts' threads alone.
LEMMA HandlerContexts ==
  ASSUME CInv, IInv', NEW h \in Harts, NEW c, c = cur_tf[h], trap_pc[h] = "handler",
         \A g \in Harts \ {h} : trap_pc'[g] = trap_pc[g], trap_pc'[h] \in {"unlock", "schedule"},
         UNCHANGED <<cause, regs, cur_tf>>, tf' \in [Tid -> Ctx], IdleAlive',
         \A t \in Tid \ {c} : state[t] = "RUNNING" => tf'[t] = tf[t]
  PROVE  /\ CInv' /\ c \in Alive /\ c \in Tid /\ state[c] = "RUNNING"
         /\ \A t \in Tid \ {c} : tf'[t] = tf[t] => Context(t)' = Context(t)
         /\ \A t \in Tid : state[t] # "RUNNING" \/ t = c => Context(t) = tf[t] /\ Context(t)' = tf'[t]
<1>0. IInv
  BY DEF CInv
<1>1. \A g \in Harts \ {h} : cur_tf[g] \in Tid \ {c} /\ trap_pc[g] # "schedule" /\ state[cur_tf[g]] = "RUNNING"
  BY <1>0 DEF IInv, Types, FramesApart, Locked, Critical
<1>2. Asked'
  BY <1>1 DEF CInv, Asked
<1>3. c \in Tid /\ state[c] = "RUNNING"
  BY <1>0 DEF IInv, Types, FramesApart
<1>4. ASSUME NEW t \in Tid, t # c, tf'[t] = tf[t] PROVE Context(t)' = Context(t)
  BY <1>0, <1>4, OtherContexts
<1>5. ASSUME NEW t \in Tid, state[t] # "RUNNING" \/ t = c PROVE Context(t) = tf[t] /\ Context(t)' = tf'[t]
  <2>1. \A g \in Harts : cur_tf[g] = t => trap_pc[g] = "handler" /\ g = h
    BY <1>1, <1>3, <1>5
  <2> QED
    BY <2>1 DEF Context
<1>6. c \in Alive
  BY <1>3 DEF Alive
<1> QED
  BY <1>2, <1>3, <1>4, <1>5, <1>6 DEF CInv

\* The call returns to the thread c, with r in a0, and nobody else notices.
LEMMA ReturnRefines ==
  ASSUME CInv, IInv', NEW h \in Harts, NEW c, c = cur_tf[h], trap_pc[h] = "handler",
         \A g \in Harts \ {h} : trap_pc'[g] = trap_pc[g], trap_pc'[h] \in {"unlock", "schedule"},
         UNCHANGED <<cause, regs, cur_tf>>, tf' \in [Tid -> Ctx], IdleAlive',
         NEW r \in {"sys", "ok", "err"}, tf'[c] = [n |-> After(tf[c]), a0 |-> r],
         \A t \in Alive \ {c} : tf'[t] = tf[t], Alive' = Alive, Waiting' = Waiting
  PROVE  CInv' /\ S!SNext
<1> PICK v : v = [n |-> After(tf[c]), a0 |-> r]
  OBVIOUS
<1>1. \A t \in Tid \ {c} : state[t] = "RUNNING" => tf'[t] = tf[t]
  BY DEF Alive
<1>2. /\ CInv' /\ c \in Alive /\ c \in Tid /\ state[c] = "RUNNING"
      /\ \A t \in Tid \ {c} : tf'[t] = tf[t] => Context(t)' = Context(t)
      /\ \A t \in Tid : state[t] # "RUNNING" \/ t = c => Context(t) = tf[t] /\ Context(t)' = tf'[t]
  BY <1>1, HandlerContexts
<1>3. Context(c) = tf[c] /\ Context(c)' = v /\ c \notin Waiting
  BY <1>2 DEF Waiting
<1>4. \A t \in Alive \ {c} : Context(t)' = Context(t)
  BY <1>2 DEF Alive
<1>5. Bar' = [Bar EXCEPT ![c] = v] /\ Bar[c] = tf[c]
  BY <1>2, <1>3, <1>4, BarChanged
<1>6. Bar' = [Bar EXCEPT ![c] = [n |-> After(@), a0 |-> r]]
  BY <1>5
<1>7. S!Return(c)
  BY <1>3, <1>6 DEF S!Return, Bar, Waiting, S!After, After
<1> QED
  BY <1>2, <1>7 DEF S!SNext, S!live

\* The frame that Result gives the thread c.
LEMMA ResultFrame ==
  ASSUME CInv, NEW c \in Tid, NEW r \in {"sys", "ok", "err"}
  PROVE  /\ Result(c, r) \in [Tid -> Ctx] /\ Result(c, r)[c] = [n |-> After(tf[c]), a0 |-> r]
         /\ \A t \in Tid \ {c} : Result(c, r)[t] = tf[t]
         /\ Fresh \in Ctx
<1>1. tf \in [Tid -> Ctx] /\ tf[c] \in Ctx
  BY DEF CInv
<1> DEFINE v == [n |-> After(tf[c]), a0 |-> r]
<1>2. v \in Ctx /\ Fresh \in Ctx
  BY <1>1 DEF Ctx, After, Fresh
<1>3. Result(c, r) = [tf EXCEPT ![c] = v]
  BY <1>1 DEF Result
<1> HIDE DEF v
<1>4. Result(c, r) \in [Tid -> Ctx] /\ Result(c, r)[c] = v /\ \A t \in Tid \ {c} : Result(c, r)[t] = tf[t]
  BY <1>1, <1>2, <1>3
<1> QED
  BY <1>2, <1>4 DEF v

\* SYS_YIELD gives its caller its result.
LEMMA YieldRefines ==
  ASSUME CInv, IInv', NEW h \in Harts, trap_pc[h] = "handler", thread_sys_yield(h),
         UNCHANGED <<cause, regs, cur_tf>>
  PROVE  CInv' /\ S!SNext
<1> PICK c : c = cur_tf[h]
  OBVIOUS
<1>0. IInv
  BY DEF CInv
<1>1. /\ trap_pc \in [Harts -> Critical \cup {"run", "save", "lock", "restore"}] /\ c \in Tid
      /\ state \in [Tid -> {"UNUSED", "RUNNABLE", "RUNNING", "WAITING", "ZOMBIE"}] /\ state[c] = "RUNNING"
  BY <1>0 DEF IInv, Types, FramesApart
<1>2. trap_pc' = [trap_pc EXCEPT ![h] = "schedule"] /\ state' = [state EXCEPT ![c] = "RUNNABLE"] /\ tf' = Result(c, "sys")
  BY <1>1 DEF thread_sys_yield, Switch
<1>3. (\A g \in Harts \ {h} : trap_pc'[g] = trap_pc[g]) /\ trap_pc'[h] = "schedule"
  BY <1>1, <1>2
<1>4. Alive' = Alive /\ Waiting' = Waiting /\ IdleAlive'
  BY <1>1, <1>2 DEF Alive, Waiting, CInv, IdleAlive, Tid
<1>5. /\ tf' \in [Tid -> Ctx] /\ tf'[c] = [n |-> After(tf[c]), a0 |-> "sys"]
      /\ \A t \in Alive \ {c} : tf'[t] = tf[t]
  <2>1. /\ Result(c, "sys") \in [Tid -> Ctx] /\ Result(c, "sys")[c] = [n |-> After(tf[c]), a0 |-> "sys"]
        /\ \A t \in Tid \ {c} : Result(c, "sys")[t] = tf[t]
    BY <1>1, ResultFrame
  <2> QED
    BY <2>1, <1>2 DEF Alive
<1> QED
  BY <1>3, <1>4, <1>5, ReturnRefines

\* The new thread starts from a fresh context in a slot that had none.
LEMMA CreateRefines ==
  ASSUME CInv, IInv', NEW h \in Harts, trap_pc[h] = "handler", thread_sys_create(h),
         UNCHANGED <<cause, regs, cur_tf>>
  PROVE  CInv' /\ S!SNext
<1> DEFINE free == {t \in Users : state[t] = "UNUSED"}
<1> PICK c : c = cur_tf[h]
  OBVIOUS
<1>0. IInv
  BY DEF CInv
<1>1. /\ trap_pc \in [Harts -> Critical \cup {"run", "save", "lock", "restore"}] /\ c \in Tid
      /\ state \in [Tid -> {"UNUSED", "RUNNABLE", "RUNNING", "WAITING", "ZOMBIE"}] /\ state[c] = "RUNNING"
  BY <1>0 DEF IInv, Types, FramesApart
<1>2. trap_pc' = [trap_pc EXCEPT ![h] = "unlock"]
  BY DEF thread_sys_create, Done
<1>3. (\A g \in Harts \ {h} : trap_pc'[g] = trap_pc[g]) /\ trap_pc'[h] = "unlock"
  BY <1>1, <1>2
<1>4. CASE free = {}
  <2>1. state' = state /\ tf' = Result(c, "err")
    BY <1>4 DEF thread_sys_create, Done
  <2>2. Alive' = Alive /\ Waiting' = Waiting /\ IdleAlive'
    BY <2>1 DEF Alive, Waiting, CInv, IdleAlive
  <2>3. /\ tf' \in [Tid -> Ctx] /\ tf'[c] = [n |-> After(tf[c]), a0 |-> "err"]
        /\ \A t \in Alive \ {c} : tf'[t] = tf[t]
    <3>1. /\ Result(c, "err") \in [Tid -> Ctx] /\ Result(c, "err")[c] = [n |-> After(tf[c]), a0 |-> "err"]
          /\ \A t \in Tid \ {c} : Result(c, "err")[t] = tf[t]
      BY <1>1, ResultFrame
    <3> QED
      BY <3>1, <2>1 DEF Alive
  <2> QED
    BY <1>3, <2>2, <2>3, ReturnRefines
<1>5. CASE free # {}
  <2>1. PICK u : u = Min(free)
    OBVIOUS
  <2>2. u \in Users /\ u \in Tid /\ state[u] = "UNUSED" /\ u # c
    <3>1. u \in free
      BY <1>5, <2>1, LowestFree
    <3> QED
      BY <3>1, <1>1 DEF Tid
  <2>3. state' = [state EXCEPT ![u] = "RUNNABLE"] /\ tf' = [Result(c, "ok") EXCEPT ![u] = Fresh]
    BY <1>5, <2>1 DEF thread_sys_create, Done
  <2>4. IdleAlive'
    BY <1>1, <2>2, <2>3 DEF CInv, IdleAlive, Tid
  <2>5. Alive' = Alive \cup {u} /\ Waiting' = Waiting /\ u \notin Alive
    BY <1>1, <2>2, <2>3 DEF Alive, Waiting
  <2> PICK v : v = [n |-> After(tf[c]), a0 |-> "ok"]
    OBVIOUS
  <2>6. /\ tf' \in [Tid -> Ctx] /\ tf'[c] = v /\ tf'[u] = Fresh
        /\ \A t \in Tid \ {c, u} : tf'[t] = tf[t]
    <3>1. /\ Result(c, "ok") \in [Tid -> Ctx] /\ Result(c, "ok")[c] = v /\ Fresh \in Ctx
          /\ \A t \in Tid \ {c} : Result(c, "ok")[t] = tf[t]
      BY <1>1, ResultFrame
    <3> QED
      BY <1>1, <2>2, <2>3, <3>1
  <2>7. /\ CInv' /\ c \in Alive
        /\ \A t \in Tid \ {c} : tf'[t] = tf[t] => Context(t)' = Context(t)
        /\ \A t \in Tid : state[t] # "RUNNING" \/ t = c => Context(t) = tf[t] /\ Context(t)' = tf'[t]
    <3>1. \A t \in Tid \ {c} : state[t] = "RUNNING" => tf'[t] = tf[t]
      BY <2>2, <2>6
    <3> HIDE DEF free
    <3> QED
      BY <1>3, <2>4, <2>6, <3>1, HandlerContexts
  <2>8. /\ Context(c) = tf[c] /\ Context(c)' = v /\ Context(u)' = Fresh
        /\ \A t \in Alive \ {c} : Context(t)' = Context(t)
    BY <1>1, <2>2, <2>5, <2>6, <2>7 DEF Alive
  <2>9. Bar' = [[t \in Alive \cup {u} |-> IF t = u THEN Fresh ELSE Bar[t]] EXCEPT ![c] = v] /\ Bar[c] = tf[c]
    BY <2>2, <2>5, <2>7, <2>8 DEF Bar
  <2>10. Bar' = [[t \in Alive \cup {u} |-> IF t = u THEN Fresh ELSE Bar[t]] EXCEPT ![c] = [n |-> After(@), a0 |-> "ok"]]
    BY <2>2, <2>7, <2>9
  <2>11. DOMAIN Bar = Alive
    BY DEF Bar
  <2>12. S!Create(c)
    <3>1. S!With(u) = [t \in Alive \cup {u} |-> IF t = u THEN Fresh ELSE Bar[t]]
      BY <2>11 DEF S!With, S!live, S!Fresh, Fresh, Bar
    <3>2. u \in Tid \ S!live
      BY <2>2, <2>5 DEF S!live
    <3> QED
      BY <2>5, <2>10, <3>1, <3>2 DEF S!Create, Bar, Waiting, S!After, After
  <2> QED
    BY <2>7, <2>12 DEF S!SNext, S!live
<1> QED
  BY <1>4, <1>5

\* The context of a thread that exits is gone; a joiner that is told sees "ok"
\* in a0 and nothing else.
LEMMA ExitRefines ==
  ASSUME CInv, IInv', NEW h \in Harts, trap_pc[h] = "handler", cause[h] = "EXIT", thread_sys_exit(h),
         UNCHANGED <<cause, regs, cur_tf>>
  PROVE  CInv' /\ S!SNext
<1> PICK c : c = cur_tf[h]
  OBVIOUS
<1> PICK w : w = join_waiter[c]
  OBVIOUS
<1>0. IInv
  BY DEF CInv
<1>1. /\ trap_pc \in [Harts -> Critical \cup {"run", "save", "lock", "restore"}] /\ c \in Tid /\ c \in Users
      /\ state \in [Tid -> {"UNUSED", "RUNNABLE", "RUNNING", "WAITING", "ZOMBIE"}] /\ state[c] = "RUNNING"
      /\ w \in Users \cup {None}
  BY <1>0 DEF IInv, Types, FramesApart, Callers
<1>2. trap_pc' = [trap_pc EXCEPT ![h] = "schedule"]
  BY DEF thread_sys_exit, Switch
<1>3. (\A g \in Harts \ {h} : trap_pc'[g] = trap_pc[g]) /\ trap_pc'[h] = "schedule"
  BY <1>1, <1>2
<1>4. c \notin Harts
  BY <1>1
<1>5. CASE w = None
  <2>1. state' = [state EXCEPT ![c] = "ZOMBIE"] /\ tf' = Result(c, "sys")
    BY <1>1, <1>5 DEF thread_sys_exit, Switch
  <2>2. Alive' = Alive \ {c} /\ Waiting' = Waiting /\ IdleAlive'
    BY <1>1, <1>4, <2>1 DEF Alive, Waiting, CInv, IdleAlive, Tid
  <2>3. tf' \in [Tid -> Ctx] /\ \A t \in Tid \ {c} : tf'[t] = tf[t]
    <3>1. Result(c, "sys") \in [Tid -> Ctx] /\ \A t \in Tid \ {c} : Result(c, "sys")[t] = tf[t]
      BY <1>1, ResultFrame
    <3> QED
      BY <2>1, <3>1
  <2>4. CInv' /\ c \in Alive /\ \A t \in Tid \ {c} : tf'[t] = tf[t] => Context(t)' = Context(t)
    BY <1>3, <2>2, <2>3, HandlerContexts
  <2>5. \A t \in Alive \ {c} : Context(t)' = Context(t)
    BY <2>3, <2>4 DEF Alive
  <2>6. Bar' = [t \in Alive \ {c} |-> Bar[t]] /\ DOMAIN Bar = Alive
    BY <2>2, <2>5 DEF Bar
  <2>7. S!Exit(c)
    BY <2>2, <2>6 DEF S!Exit, S!Without, S!live, Bar, Waiting
  <2> QED
    BY <2>4, <2>7 DEF S!SNext, S!live
<1>6. CASE w # None
  <2>1. w \in Tid /\ w \in Users /\ w # c /\ state[w] = "WAITING" /\ w \notin Harts
    BY <1>0, <1>1, <1>6 DEF IInv, JoinersWait, Tid
  <2>2. state' = [state EXCEPT ![c] = "UNUSED", ![w] = "RUNNABLE"] /\ tf' = [tf EXCEPT ![c] = Fresh, ![w].a0 = "ok"]
    BY <1>1, <1>6, <2>1 DEF thread_sys_exit, Switch
  <2>3. Alive' = Alive \ {c} /\ Waiting' = Waiting \ {w} /\ w \in Waiting /\ w \in Alive
    BY <1>1, <2>1, <2>2 DEF Alive, Waiting
  <2>4. IdleAlive'
    BY <1>1, <1>4, <2>1, <2>2 DEF CInv, IdleAlive, Tid
  <2> PICK v : v = [tf[w] EXCEPT !.a0 = "ok"]
    OBVIOUS
  <2>5. tf' \in [Tid -> Ctx] /\ tf'[w] = v /\ \A t \in Tid \ {c, w} : tf'[t] = tf[t]
    <3>1. tf \in [Tid -> Ctx] /\ tf[w] \in Ctx
      BY <2>1 DEF CInv
    <3>2. v \in Ctx /\ Fresh \in Ctx
      BY <3>1 DEF Ctx, Fresh
    <3>3. tf' = [tf EXCEPT ![c] = Fresh, ![w] = v]
      BY <2>1, <2>2, <3>1
    <3> QED
      BY <1>1, <2>1, <3>1, <3>2, <3>3
  <2>6. /\ CInv' /\ c \in Alive
        /\ \A t \in Tid \ {c} : tf'[t] = tf[t] => Context(t)' = Context(t)
        /\ \A t \in Tid : state[t] # "RUNNING" \/ t = c => Context(t) = tf[t] /\ Context(t)' = tf'[t]
    <3>1. \A t \in Tid \ {c} : state[t] = "RUNNING" => tf'[t] = tf[t]
      BY <2>1, <2>5
    <3> QED
      BY <1>3, <2>4, <2>5, <3>1, HandlerContexts
  <2>7. Context(w) = tf[w] /\ Context(w)' = v /\ \A t \in Alive \ {c, w} : Context(t)' = Context(t)
    BY <2>1, <2>5, <2>6 DEF Alive
  <2>8. Bar' = [[t \in Alive \ {c} |-> Bar[t]] EXCEPT ![w] = v] /\ Bar[w] = tf[w] /\ DOMAIN Bar = Alive
    BY <2>1, <2>3, <2>7 DEF Bar
  <2>9. Bar' = [[t \in Alive \ {c} |-> Bar[t]] EXCEPT ![w].a0 = "ok"]
    BY <2>1, <2>3, <2>8
  <2>10. S!Exit(c)
    <3>1. S!Without(c) = [t \in Alive \ {c} |-> Bar[t]]
      BY <2>8 DEF S!Without, S!live, Bar
    <3> QED
      BY <2>1, <2>3, <2>9, <3>1 DEF S!Exit, Bar, Waiting
  <2> QED
    BY <2>6, <2>10 DEF S!SNext, S!live
<1> QED
  BY <1>5, <1>6

\* A joiner that blocks has come past the call, with its number still in a0.
LEMMA JoinRefines ==
  ASSUME CInv, IInv', NEW h \in Harts, trap_pc[h] = "handler", cause[h] = "JOIN",
         NEW u \in Tid, thread_sys_join(h, u), UNCHANGED <<cause, regs, cur_tf>>
  PROVE  CInv' /\ S!SNext
<1> PICK c : c = cur_tf[h]
  OBVIOUS
<1> DEFINE Refused == u = 0 \/ u = c \/ state[u] = "UNUSED" \/ join_waiter[u] \notin {None, c}
<1>0. IInv
  BY DEF CInv
<1>1. /\ trap_pc \in [Harts -> Critical \cup {"run", "save", "lock", "restore"}] /\ c \in Tid /\ c \in Users
      /\ state \in [Tid -> {"UNUSED", "RUNNABLE", "RUNNING", "WAITING", "ZOMBIE"}] /\ state[c] = "RUNNING"
  BY <1>0 DEF IInv, Types, FramesApart, Callers
<1>2. CASE Refused
  <2>1. state' = state /\ tf' = Result(c, "err") /\ trap_pc' = [trap_pc EXCEPT ![h] = "unlock"]
    BY <1>2 DEF thread_sys_join, Done
  <2>2. Alive' = Alive /\ Waiting' = Waiting /\ IdleAlive'
    BY <2>1 DEF Alive, Waiting, CInv, IdleAlive
  <2>3. /\ tf' \in [Tid -> Ctx] /\ tf'[c] = [n |-> After(tf[c]), a0 |-> "err"]
        /\ \A t \in Alive \ {c} : tf'[t] = tf[t]
    <3>1. /\ Result(c, "err") \in [Tid -> Ctx] /\ Result(c, "err")[c] = [n |-> After(tf[c]), a0 |-> "err"]
          /\ \A t \in Tid \ {c} : Result(c, "err")[t] = tf[t]
      BY <1>1, ResultFrame
    <3> QED
      BY <3>1, <2>1 DEF Alive
  <2>4. (\A g \in Harts \ {h} : trap_pc'[g] = trap_pc[g]) /\ trap_pc'[h] = "unlock"
    BY <1>1, <2>1
  <2> QED
    BY <2>2, <2>3, <2>4, ReturnRefines
<1>3. CASE ~Refused /\ state[u] = "ZOMBIE"
  <2>1. /\ state' = [state EXCEPT ![u] = "UNUSED"] /\ tf' = [Result(c, "ok") EXCEPT ![u] = Fresh]
        /\ trap_pc' = [trap_pc EXCEPT ![h] = "unlock"] /\ u # c /\ u \notin Harts /\ u \notin Alive
    BY <1>3 DEF thread_sys_join, Done, Alive, CInv, IdleAlive
  <2>2. Alive' = Alive /\ Waiting' = Waiting /\ IdleAlive'
    BY <1>1, <1>3, <2>1 DEF Alive, Waiting, CInv, IdleAlive, Tid
  <2>3. /\ tf' \in [Tid -> Ctx] /\ tf'[c] = [n |-> After(tf[c]), a0 |-> "ok"]
        /\ \A t \in Alive \ {c} : tf'[t] = tf[t]
    <3>1. /\ Result(c, "ok") \in [Tid -> Ctx] /\ Result(c, "ok")[c] = [n |-> After(tf[c]), a0 |-> "ok"]
          /\ \A t \in Tid \ {c} : Result(c, "ok")[t] = tf[t]
          /\ Fresh \in Ctx
      BY <1>1, ResultFrame
    <3>2. Alive \subseteq Tid
      BY DEF Alive
    <3> QED
      BY <1>1, <3>1, <3>2, <2>1
  <2>4. (\A g \in Harts \ {h} : trap_pc'[g] = trap_pc[g]) /\ trap_pc'[h] = "unlock"
    BY <1>1, <2>1
  <2> QED
    BY <2>2, <2>3, <2>4, ReturnRefines
<1>4. CASE ~Refused /\ state[u] # "ZOMBIE"
  <2>1. /\ state' = [state EXCEPT ![c] = "WAITING"] /\ tf' = Result(c, "sys")
        /\ trap_pc' = [trap_pc EXCEPT ![h] = "schedule"]
    BY <1>1, <1>4 DEF thread_sys_join, Switch
  <2>2. Alive' = Alive /\ Waiting' = Waiting \cup {c} /\ IdleAlive' /\ c \notin Waiting
    BY <1>1, <2>1 DEF Alive, Waiting, CInv, IdleAlive, Tid
  <2> PICK v : v = [n |-> After(tf[c]), a0 |-> "sys"]
    OBVIOUS
  <2>3. tf' \in [Tid -> Ctx] /\ tf'[c] = v /\ \A t \in Tid \ {c} : tf'[t] = tf[t]
    <3>1. /\ Result(c, "sys") \in [Tid -> Ctx] /\ Result(c, "sys")[c] = v
          /\ \A t \in Tid \ {c} : Result(c, "sys")[t] = tf[t]
      BY <1>1, ResultFrame
    <3> QED
      BY <3>1, <2>1
  <2>4. (\A g \in Harts \ {h} : trap_pc'[g] = trap_pc[g]) /\ trap_pc'[h] = "schedule"
    BY <1>1, <2>1
  <2>5. /\ CInv' /\ c \in Alive
        /\ \A t \in Tid \ {c} : tf'[t] = tf[t] => Context(t)' = Context(t)
        /\ \A t \in Tid : state[t] # "RUNNING" \/ t = c => Context(t) = tf[t] /\ Context(t)' = tf'[t]
    BY <2>2, <2>3, <2>4, HandlerContexts
  <2>6. Context(c) = tf[c] /\ Context(c)' = v /\ \A t \in Alive \ {c} : Context(t)' = Context(t)
    BY <1>1, <2>3, <2>5 DEF Alive
  <2>7. Bar' = [Bar EXCEPT ![c] = v] /\ Bar[c] = tf[c] /\ DOMAIN Bar = Alive
    BY <2>2, <2>5, <2>6, BarChanged DEF Bar
  <2>8. tf[c] \in Ctx /\ tf[c].a0 = "sys"
    BY <1>1 DEF CInv, Asked
  <2>9. v = [tf[c] EXCEPT !.n = After(tf[c])]
    BY <2>8 DEF Ctx
  <2>10. Bar' = [Bar EXCEPT ![c].n = After(Bar[c])]
    BY <2>5, <2>7, <2>9
  <2>11. S!Wait(c)
    BY <2>2, <2>10 DEF S!Wait, Bar, Waiting, S!After, After
  <2> QED
    BY <2>5, <2>11 DEF S!SNext, S!live
<1> QED
  BY <1>2, <1>3, <1>4

\* What trap_entry_c does is a step of TrapSpec or none.
LEMMA HandlerRefines ==
  ASSUME CInv, NEW h \in Harts, trap_entry_c(h)
  PROVE  CInv' /\ [S!SNext]_(S!svars)
<1> PICK c : c = cur_tf[h]
  OBVIOUS
<1>0. IInv' /\ IInv
  BY NextStep DEF CInv, TrapNext
<1>1. trap_pc[h] = "handler" /\ UNCHANGED <<cause, regs, cur_tf>>
  BY DEF trap_entry_c
<1>2. /\ trap_pc \in [Harts -> Critical \cup {"run", "save", "lock", "restore"}] /\ c \in Tid
      /\ state \in [Tid -> {"UNUSED", "RUNNABLE", "RUNNING", "WAITING", "ZOMBIE"}] /\ state[c] = "RUNNING"
  BY <1>0, <1>1 DEF IInv, Types, FramesApart
<1>3. CASE (Done(h, state, tf) \/ Switch(h, state, tf)) /\ UNCHANGED join_waiter
  <2>1. /\ tf' = tf /\ \E p \in {"unlock", "schedule"} : trap_pc' = [trap_pc EXCEPT ![h] = p]
        /\ state' = state \/ state' = [state EXCEPT ![c] = "RUNNABLE"]
    BY <1>2, <1>3 DEF Done, Switch
  <2>2. (\A g \in Harts \ {h} : trap_pc'[g] = trap_pc[g]) /\ trap_pc'[h] \in {"unlock", "schedule"}
    BY <1>2, <2>1
  <2>3. Alive' = Alive /\ Waiting' = Waiting /\ IdleAlive'
    <3>1. CASE state' = state
      BY <3>1 DEF Alive, Waiting, CInv, IdleAlive
    <3>2. CASE state' = [state EXCEPT ![c] = "RUNNABLE"]
      BY <1>2, <3>2 DEF Alive, Waiting, CInv, IdleAlive, Tid
    <3> QED
      BY <2>1, <3>1, <3>2
  <2>4. tf' \in [Tid -> Ctx] /\ \A t \in Tid : tf'[t] = tf[t]
    BY <2>1 DEF CInv
  <2>5. /\ CInv'
        /\ \A t \in Tid \ {c} : tf'[t] = tf[t] => Context(t)' = Context(t)
        /\ \A t \in Tid : state[t] # "RUNNING" \/ t = c => Context(t) = tf[t] /\ Context(t)' = tf'[t]
    BY <1>0, <1>1, <2>2, <2>3, <2>4, HandlerContexts
  <2>6. \A t \in Alive : Context(t)' = Context(t)
    BY <2>4, <2>5 DEF Alive
  <2> QED
    BY <2>3, <2>5, <2>6, BarSame
<1>4. CASE thread_sys_yield(h)
  BY <1>0, <1>1, <1>4, YieldRefines
<1>5. CASE thread_sys_create(h)
  BY <1>0, <1>1, <1>5, CreateRefines
<1>6. CASE cause[h] = "EXIT" /\ thread_sys_exit(h)
  BY <1>0, <1>1, <1>6, ExitRefines
<1>7. CASE cause[h] = "JOIN" /\ \E t \in Tid : thread_sys_join(h, t)
  BY <1>0, <1>1, <1>7, JoinRefines
<1> QED
  BY <1>3, <1>4, <1>5, <1>6, <1>7 DEF trap_entry_c

\* An initial state maps to one of TrapSpec.
LEMMA InitRefines ==
  ASSUME TrapInit
  PROVE  CInv /\ S!SInit
<1>1. IInv
  BY InitIInv
<1>2. regs \in [Harts -> Ctx] /\ tf \in [Tid -> Ctx] /\ IdleAlive /\ Asked
  BY DEF TrapInit, Ctx, Fresh, IdleAlive, Asked, Tid
<1>3. \A t \in Tid : Context(t) = Fresh
  <2> SUFFICES ASSUME NEW t \in Tid PROVE Context(t) = Fresh
    OBVIOUS
  <2>1. CASE \E h \in Harts : cur_tf[h] = t
    <3>1. PICK h \in Harts : cur_tf[h] = t
      BY <2>1
    <3> QED
      BY <1>1, <3>1, ContextOf DEF TrapInit
  <2>2. CASE ~\E h \in Harts : cur_tf[h] = t
    BY <2>2 DEF Context, TrapInit
  <2> QED
    BY <2>1, <2>2
<1>4. Bar = [t \in Alive |-> Fresh] /\ Alive \subseteq Tid
  BY <1>3 DEF Bar, Alive
<1>5. Waiting = {}
  BY DEF TrapInit, Waiting
<1>6. S!SInit
  BY <1>4, <1>5 DEF S!SInit, S!Fresh, Fresh, Bar, Waiting
<1> QED
  BY <1>1, <1>2, <1>6 DEF CInv

\* Every step maps to a step of TrapSpec or to none.
LEMMA NextRefines ==
  ASSUME CInv, [TrapNext]_trap_vars
  PROVE  CInv' /\ [S!SNext]_(S!svars)
<1>1. CASE UNCHANGED trap_vars
  <2>1. CInv'
    <3>1. IInv'
      BY NextStep DEF CInv
    <3> QED
      BY <1>1, <3>1 DEF trap_vars, kernel, CInv, IdleAlive, Asked
  <2>2. UNCHANGED S!svars
    BY <1>1 DEF trap_vars, kernel, S!svars, Alive, Context
  <2> QED
    BY <2>1, <2>2
<1>2. ASSUME NEW h \in Harts, execute(h) PROVE CInv' /\ [S!SNext]_(S!svars)
  BY <1>2, ExecuteRefines
<1>3. ASSUME NEW h \in Harts, save(h) \/ restore(h) PROVE CInv' /\ [S!SNext]_(S!svars)
  BY <1>3, SaveRestoreRefines
<1>4. ASSUME NEW h \in Harts, kernel_lock(h) \/ kernel_unlock(h) \/ panic(h) PROVE CInv' /\ [S!SNext]_(S!svars)
  BY <1>4, LockRefines
<1>5. ASSUME NEW h \in Harts, schedule(h) PROVE CInv' /\ [S!SNext]_(S!svars)
  BY <1>5, ScheduleRefines
<1> QED
  BY <1>1, <1>2, <1>3, <1>4, <1>5, TrapRefines, HandlerRefines DEF TrapNext

\* Registers are kept and results reach their caller for every number of harts
\* and threads: the trap path with its frames, its lock and its switches refines
\* TrapSpec, in which a context only changes by the steps of its own thread.
THEOREM ContextsKept == TrapPathSpec => ImplementsContexts
<1>1. CInv /\ [TrapNext]_trap_vars => CInv' /\ [S!svars' # S!svars => S!SNext]_(S!svars)
  BY NextRefines
<1> QED
  BY InitRefines, <1>1, PTL DEF TrapPathSpec, ImplementsContexts, S!SSpec
=============================================================================

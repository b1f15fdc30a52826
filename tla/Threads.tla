------------------------------ MODULE Threads ------------------------------
(***************************************************************************)
(* The thread system calls of ccos (kernel/thread.c, reached through       *)
(* syscall_handler and the U-mode exceptions of kernel/trap.c), as         *)
(* operators on the kernel record of Sched.tla.  h is the hart that        *)
(* executes the call; its current thread is the caller.  A call that       *)
(* returns an error leaves the record as it is: the error code goes back   *)
(* to the caller in a0 and nothing else remembers it.                      *)
(***************************************************************************)
EXTENDS Sched

\* sleep(0) is not told apart.
Bad_thread_sys_sleep(s, h, ticks) ==
  LET cur == s.current[h]
  IN  schedule([s EXCEPT !.state[cur] = "SLEEPING",
                         !.wakeup_tick[cur] = ticks], h)

thread_sys_sleep(s, h, ticks) ==
  LET cur == s.current[h]
  IN  IF ticks = 0 THEN schedule(s, h)
      ELSE schedule([s EXCEPT !.state[cur] = "SLEEPING",
                              !.wakeup_tick[cur] = ticks], h)

thread_sys_yield(s, h) == thread_sys_sleep(s, h, 0)

\* A dead thread's slot is taken before the thread is reaped.
Bad_FreeSlots(s) == {t \in Tid \ {0} : s.state[t] \in {"UNUSED", "ZOMBIE"}}

\* The free slots that alloc_thread_slot looks through.
FreeSlots(s) == {t \in Tid \ {0} : s.state[t] = "UNUSED"}

\* thread_create_user: the lowest free slot, or the error -1.
thread_sys_create(s, h) ==
  LET t == Min(FreeSlots(s))
  IN  IF FreeSlots(s) = {} THEN s
      ELSE thread_make_runnable(
             [s EXCEPT !.state[t] = "RUNNABLE", !.wakeup_tick[t] = 0,
                       !.detached[t] = FALSE, !.ret[t] = "none"], h, t, h)

\* The joiner w of a thread that died with this code gets its result, is no
\* longer waiting, and is woken by hart h.  A result that is written while w
\* runs is overwritten when w next traps.
release_joiner(s, h, w, code) ==
  thread_make_runnable(
    [s EXCEPT !.ret[w] = IF s.state[w] = "RUNNING" THEN @ ELSE code,
              !.waiting_for[w] = NONE], h, w, h)

thread_sys_exit(s, h, code) ==
  LET cur    == s.current[h]
      joiner == s.join_waiter[cur]
      dead   == [s EXCEPT !.state[cur] = "ZOMBIE", !.exit_code[cur] = code]
  IN  IF joiner # NONE
      THEN schedule(recycle_thread(release_joiner(dead, h, joiner, code), cur),
                    h)
      ELSE schedule(dead, h)

\* A second joiner is let in.
Bad_join_refused(s, h, t) ==
  \/ t \notin Tid \ {0}
  \/ t = s.current[h]
  \/ s.state[t] = "UNUSED"
  \/ s.detached[t]

\* The checks of thread_sys_join: EINVAL, EDEADLK, ESRCH, EINVAL for a
\* detached thread, EBUSY for a thread that has another joiner.
join_refused(s, h, t) ==
  \/ t \notin Tid \ {0}
  \/ t = s.current[h]
  \/ s.state[t] = "UNUSED"
  \/ s.detached[t]
  \/ s.join_waiter[t] \notin {NONE, s.current[h]}

thread_sys_join(s, h, t) ==
  LET cur == s.current[h]
  IN  IF join_refused(s, h, t) THEN s
      ELSE IF s.state[t] = "ZOMBIE" THEN recycle_thread(s, t)
      ELSE schedule([s EXCEPT !.state[cur] = "WAITING",
                              !.waiting_for[cur] = t,
                              !.ret[cur] = "due",
                              !.join_waiter[t] = cur], h)

\* EINVAL, idle (can_be_killed = 0), suicide, no such thread, already dead.
kill_refused(s, h, t) ==
  \/ t \notin User
  \/ t = s.current[h]
  \/ s.state[t] \in {"UNUSED", "ZOMBIE"}

\* The hart that runs the victim is not kicked.
Bad_thread_sys_kill_kick(s, h, t) ==
  IF kill_refused(s, h, t) THEN s
  ELSE rq_remove_any([s EXCEPT !.state[t] = "ZOMBIE",
                               !.exit_code[t] = "killed",
                               !.wakeup_tick[t] = 0], t)

thread_sys_kill(s, h, t) ==
  LET joiner == s.join_waiter[t]
      rh     == s.running_hart[t]
      dead   == rq_remove_any([s EXCEPT !.state[t] = "ZOMBIE",
                                        !.exit_code[t] = "killed",
                                        !.wakeup_tick[t] = 0], t)
      kicked == IF rh \in Hart \ {h} THEN smp_kick_hart(dead, rh) ELSE dead
      told   == IF joiner # NONE THEN release_joiner(kicked, h, joiner, "killed")
                ELSE kicked
  IN  IF kill_refused(s, h, t) THEN s
      ELSE IF /\ rh = NONE
              /\ joiner # NONE \/ s.detached[t]
           THEN recycle_thread(told, t)
      ELSE told

\* EINVAL, ESRCH, idle, EBUSY.
detach_refused(s, t) ==
  \/ t \notin User
  \/ s.state[t] = "UNUSED"
  \/ s.join_waiter[t] # NONE

thread_sys_detach(s, h, t) ==
  IF detach_refused(s, t) \/ s.detached[t] THEN s
  ELSE IF s.state[t] = "ZOMBIE" THEN recycle_thread(s, t)
  ELSE [s EXCEPT !.detached[t] = TRUE]
=============================================================================

------------------------------- MODULE Shell -------------------------------
(***************************************************************************)
(* The user programs of ccos: user_main (user/main.c), the shell and its   *)
(* command workers (user/shell.c), the spawn test threads (user/spawn.c)   *)
(* and the monitors (user/monitor.c), on top of the thread calls of        *)
(* kernel/thread.c.                                                        *)
(*                                                                         *)
(* They run in one address space and share static tables without a lock:   *)
(* g_procs, s_spawn_cfg and g_mons.  A system call is one step (the kernel *)
(* lock); user code between two system calls may be preempted, so a        *)
(* function is cut at each of its calls.  A thread that is killed is not   *)
(* on a CPU, as on one hart; the other case is in Kernel.tla.  A thread    *)
(* that sleeps or reads the console is READY and takes its next step later.*)
(*                                                                         *)
(* Commands that only print (help, echo, ps, jobs, rq, spawn list; as      *)
(* workers sleep, date, uptime, irqstat, mon list, mon once) differ only   *)
(* in whether they run in a worker.  The loop of a spawn worker touches    *)
(* nothing but the statistics of its own record, and has no step here.     *)
(***************************************************************************)
EXTENDS Integers, FiniteSets, FiniteSetsExt

CONSTANTS
  MAX_HARTS, THREAD_MAX,
  SHELL_MAX_PROCS, SHELL_THREAD_LIST_MAX, SPAWN_MAX, MON_MAX,
  Counts,       \* the counts that mon start is given (-1: none is given)
  KillTargets,  \* the programs whose tid is given to the command kill
  StopTargets   \* the programs whose tid is given to mon stop

NoTid == -1
Idle == 0 .. MAX_HARTS - 1
User == MAX_HARTS .. THREAD_MAX - 1
Tid  == Idle \cup User
Proc == 0 .. SHELL_MAX_PROCS - 1
Wid  == 0 .. SPAWN_MAX - 1
Mon  == 0 .. MON_MAX - 1

ASSUME ShellAssumption ==
  /\ MAX_HARTS \in Nat \ {0} /\ THREAD_MAX \in Nat /\ THREAD_MAX > MAX_HARTS
  /\ {SHELL_MAX_PROCS, SHELL_THREAD_LIST_MAX, SPAWN_MAX, MON_MAX} \subseteq Nat \ {0}
  /\ Counts \subseteq Int

VARIABLES
  th,              \* g_threads with the registers of each thread, see Thread
  g_procs,         \* for each slot the command line in it, or NoCmd
  s_spawn_tid,     \* s_spawn_cfg[wid].tid
  s_spawn_active,
  g_mons           \* used, tid and remaining of each monitor slot
tables == <<g_procs, s_spawn_tid, s_spawn_active, g_mons>>
shell_vars == <<th, tables>>

NoCmd == [name |-> "none", tid |-> NoTid, count |-> 0]

(* A thread: its state and join_waiter; the program it runs and the         *)
(* argument it was created with; pc, the next call of the program; tgt,     *)
(* slot and cmd, the locals that live across a call.                        *)
Unused == [state |-> "UNUSED", join_waiter |-> NoTid, prog |-> "none", arg |-> NoTid,
           pc |-> "none", tgt |-> NoTid, slot |-> NoTid, cmd |-> NoCmd]

ShellInit ==
  /\ th = [t \in Tid |->
             IF t \in Idle THEN [Unused EXCEPT !.state = "READY", !.prog = "idle"]
             ELSE IF t = MAX_HARTS
                  THEN [Unused EXCEPT !.state = "READY", !.prog = "user_main", !.pc = "start"]
                  ELSE Unused]
  /\ g_procs = [p \in Proc |-> NoCmd]
  /\ s_spawn_tid = [w \in Wid |-> NoTid] /\ s_spawn_active = 0
  /\ g_mons = [m \in Mon |-> [used |-> 0, tid |-> NoTid, remaining |-> 0]]

----------------------------------------------------------------------------
(* The thread calls, as operators from the thread table to the table.      *)

Free(T) == {t \in Tid : T[t].state = "UNUSED"}

\* thread_create_user: T with a new thread in the lowest free slot.
New(T) == Min(Free(T))
thread_create(T, prog, arg, pc) ==
  [T EXCEPT ![New(T)] = [Unused EXCEPT !.state = "READY", !.prog = prog,
                                       !.arg = arg, !.pc = pc]]

\* thread_make_runnable for a joiner: it asks only whether the thread is on a
\* run queue already.
Release(T, w) == [T EXCEPT ![w].state = "READY"]

\* The end of thread t, by thread_exit or by a kill.
Ended(T, t) ==
  LET w == T[t].join_waiter
  IN  IF w # NoTid THEN [Release(T, w) EXCEPT ![t] = Unused]
      ELSE [T EXCEPT ![t].state = "ZOMBIE"]

\* thread_kill and thread_join called by t: the value they return.
kill_rc(T, t, u) == IF u = t THEN -4
                    ELSE IF u \in Idle \/ T[u].state = "UNUSED" THEN -3 ELSE 0
join_rc(T, t, u) == IF u = t THEN -2
                    ELSE IF T[u].state = "UNUSED" THEN -3
                    ELSE IF T[u].join_waiter \notin {NoTid, t} THEN -4 ELSE 0

thread_kill(T, t, u) ==
  IF kill_rc(T, t, u) < 0 \/ T[u].state = "ZOMBIE" THEN T ELSE Ended(T, u)

\* A join that succeeds takes a zombie's slot back, or waits for the end of u.
thread_join(T, t, u) ==
  IF join_rc(T, t, u) < 0 THEN T
  ELSE IF T[u].state = "ZOMBIE" THEN [T EXCEPT ![u] = Unused]
  ELSE [T EXCEPT ![t].state = "WAITING", ![u].join_waiter = t]

\* thread_sys_list for a buffer of max entries: the lowest tids in use.
thread_sys_list(max) ==
  {t \in Tid : /\ th[t].state # "UNUSED"
               /\ Cardinality({u \in 0 .. t - 1 : th[u].state # "UNUSED"}) < max}

\* ps: the threads it prints and whether it says that there may be more.
cmd_ps == LET l == thread_sys_list(SHELL_THREAD_LIST_MAX)
          IN  [shown |-> l, truncated |-> Cardinality(l) = SHELL_THREAD_LIST_MAX]

\* t, running prog, is about to take the step at pc.
AtCall(t, prog, pc) == th[t].state = "READY" /\ th[t].prog = prog /\ th[t].pc = pc

----------------------------------------------------------------------------
(* user_main: start a shell, wait for its end, start the next.              *)

main_start(t) ==
  /\ AtCall(t, "user_main", "start")
  /\ Free(th) # {}     \* otherwise it sleeps and tries again
  /\ th' = [thread_create(th, "shell", NoTid, "prompt") EXCEPT
              ![t].pc = "join", ![t].tgt = New(th)]
  /\ UNCHANGED tables

\* user_main does not wait for the shell it started.
Bad_main_join(t) ==
  /\ AtCall(t, "user_main", "join")
  /\ th' = [th EXCEPT ![t].pc = "start", ![t].tgt = NoTid]
  /\ UNCHANGED tables

\* The return value of the join is not looked at.
main_join(t) ==
  /\ AtCall(t, "user_main", "join")
  /\ th' = [thread_join(th, t, th[t].tgt) EXCEPT ![t].pc = "start", ![t].tgt = NoTid]
  /\ UNCHANGED tables

----------------------------------------------------------------------------
(* The shell at its prompt, and the commands that it runs itself.           *)

cmd_kill(t) ==
  /\ AtCall(t, "shell", "prompt")
  /\ \E u \in User : /\ th[u].prog \in KillTargets
                     /\ th' = IF u = t THEN Ended(th, t) ELSE thread_kill(th, t, u)
  /\ UNCHANGED tables

cmd_exit(t) == AtCall(t, "shell", "prompt") /\ th' = Ended(th, t) /\ UNCHANGED tables

\* spawn spin, yield or sleep: up to n workers.
spawn(t) ==
  /\ AtCall(t, "shell", "prompt")
  /\ \E n \in 1 .. SPAWN_MAX : th' = [th EXCEPT ![t].pc = "spawn", ![t].slot = n]
  /\ UNCHANGED tables

\* The table has no room, or there is no thread: the loop ends.
spawn_add(t) ==
  /\ AtCall(t, "shell", "spawn")
  /\ LET free == {w \in Wid : s_spawn_tid[w] = NoTid}
         Done(T, n) == [T EXCEPT ![t].pc = IF n = 0 THEN "prompt" ELSE "spawn",
                                 ![t].slot = IF n = 0 THEN NoTid ELSE n]
     IN  IF free = {} \/ Free(th) = {}
         THEN th' = Done(th, 0) /\ UNCHANGED <<s_spawn_tid, s_spawn_active>>
         ELSE /\ th' = Done(thread_create(th, "spawn", Min(free), "work"), th[t].slot - 1)
              /\ s_spawn_tid' = [s_spawn_tid EXCEPT ![Min(free)] = New(th)]
              /\ s_spawn_active' = s_spawn_active + 1
  /\ UNCHANGED <<g_procs, g_mons>>

\* spawn kill goes through the table; slot is the entry it is at.
spawn_kill(t) ==
  /\ AtCall(t, "shell", "prompt")
  /\ th' = [th EXCEPT ![t].pc = "spawn kill", ![t].slot = 0]
  /\ UNCHANGED tables

\* The count of the workers is kept.
Bad_spawn_kill_next(t) ==
  /\ AtCall(t, "shell", "spawn kill")
  /\ LET w == th[t].slot  u == s_spawn_tid[w]
     IN  th' = IF w = SPAWN_MAX THEN [th EXCEPT ![t].pc = "prompt", ![t].slot = NoTid]
               ELSE IF u = NoTid THEN [th EXCEPT ![t].slot = w + 1]
               ELSE [thread_kill(th, t, u) EXCEPT
                       ![t].pc = IF kill_rc(th, t, u) < 0 THEN "spawn clear" ELSE "spawn join"]
  /\ UNCHANGED tables
spawn_kill_next(t) ==
  /\ AtCall(t, "shell", "spawn kill")
  /\ LET w == th[t].slot  u == s_spawn_tid[w]
     IN  IF w = SPAWN_MAX
         THEN /\ th' = [th EXCEPT ![t].pc = "prompt", ![t].slot = NoTid]
              /\ s_spawn_active' = 0
         ELSE /\ th' = IF u = NoTid THEN [th EXCEPT ![t].slot = w + 1]
                       ELSE [thread_kill(th, t, u) EXCEPT
                               ![t].pc = IF kill_rc(th, t, u) < 0 THEN "spawn clear"
                                         ELSE "spawn join"]
              /\ UNCHANGED s_spawn_active
  /\ UNCHANGED <<g_procs, s_spawn_tid, g_mons>>

\* The killed worker is not joined.
Bad_spawn_kill_join(t) ==
  /\ AtCall(t, "shell", "spawn join")
  /\ th' = [th EXCEPT ![t].pc = "spawn clear"]
  /\ UNCHANGED tables

spawn_kill_join(t) ==
  /\ AtCall(t, "shell", "spawn join")
  /\ th' = [thread_join(th, t, s_spawn_tid[th[t].slot]) EXCEPT ![t].pc = "spawn clear"]
  /\ UNCHANGED tables

\* The entry is left in the table.
Bad_spawn_kill_clear(t) ==
  /\ AtCall(t, "shell", "spawn clear")
  /\ th' = [th EXCEPT ![t].pc = "spawn kill", ![t].slot = @ + 1]
  /\ UNCHANGED tables
spawn_kill_clear(t) ==
  /\ AtCall(t, "shell", "spawn clear")
  /\ s_spawn_tid' = [s_spawn_tid EXCEPT ![th[t].slot] = NoTid]
  /\ th' = [th EXCEPT ![t].pc = "spawn kill", ![t].slot = @ + 1]
  /\ UNCHANGED <<g_procs, s_spawn_active, g_mons>>

----------------------------------------------------------------------------
(* shell_run_command: the commands that run in a worker.                    *)

Command == [name : {"print"}, tid : {NoTid}, count : {0}] \cup
           [name : {"mon start"}, tid : {NoTid}, count : Counts] \cup
           [name : {"mon stop"}, tid : {u \in User : th[u].prog \in StopTargets}, count : {0}]

shell_proc_alloc(t) ==
  /\ AtCall(t, "shell", "prompt")
  /\ \E p \in Proc : /\ g_procs[p] = NoCmd /\ \A q \in 0 .. p - 1 : g_procs[q] # NoCmd
                     /\ \E c \in Command : g_procs' = [g_procs EXCEPT ![p] = c]
                     /\ th' = [th EXCEPT ![t].pc = "create", ![t].slot = p]
  /\ UNCHANGED <<s_spawn_tid, s_spawn_active, g_mons>>

\* The slot is not given back when there is no thread for the command.
Bad_shell_run_command(t) ==
  /\ AtCall(t, "shell", "create")
  /\ th' = IF Free(th) = {} THEN [th EXCEPT ![t].pc = "prompt", ![t].slot = NoTid]
           ELSE [thread_create(th, "sh-cmd", th[t].slot, "copy") EXCEPT
                   ![t].pc = "join", ![t].tgt = New(th), ![t].slot = NoTid]
  /\ UNCHANGED tables
shell_run_command(t) ==
  /\ AtCall(t, "shell", "create")
  /\ IF Free(th) = {}
     THEN /\ g_procs' = [g_procs EXCEPT ![th[t].slot] = NoCmd]
          /\ th' = [th EXCEPT ![t].pc = "prompt", ![t].slot = NoTid]
     ELSE /\ th' = [thread_create(th, "sh-cmd", th[t].slot, "copy") EXCEPT
                      ![t].pc = "join", ![t].tgt = New(th), ![t].slot = NoTid]
          /\ UNCHANGED g_procs
  /\ UNCHANGED <<s_spawn_tid, s_spawn_active, g_mons>>

shell_join(t) ==
  /\ AtCall(t, "shell", "join")
  /\ th' = [thread_join(th, t, th[t].tgt) EXCEPT ![t].pc = "prompt", ![t].tgt = NoTid]
  /\ UNCHANGED tables

\* The worker copies the command line and frees the slot it came in.
shell_cmd_worker(t) ==
  /\ AtCall(t, "sh-cmd", "copy")
  /\ th' = [th EXCEPT ![t].cmd = g_procs[th[t].arg],
                      ![t].pc = IF g_procs[th[t].arg].name = "print" THEN "exit"
                                ELSE g_procs[th[t].arg].name]
  /\ g_procs' = [g_procs EXCEPT ![th[t].arg] = NoCmd]
  /\ UNCHANGED <<s_spawn_tid, s_spawn_active, g_mons>>

thread_exit(t) ==
  /\ AtCall(t, "sh-cmd", "exit") \/ AtCall(t, "monitor", "exit")
  /\ th' = Ended(th, t)
  /\ UNCHANGED tables

----------------------------------------------------------------------------
(* mon start and mon stop.                                                  *)

\* The free slots: the first is taken.
mon_alloc == {m \in Mon : g_mons[m].used = 0}

\* Without a slot or a thread nothing is left of mon start.
mon_start_ex(t) ==
  /\ AtCall(t, "sh-cmd", "mon start")
  /\ LET m == Min(mon_alloc)
     IN  IF mon_alloc = {} THEN th' = [th EXCEPT ![t].pc = "exit"] /\ UNCHANGED g_mons
         ELSE IF Free(th) = {}
         THEN /\ th' = [th EXCEPT ![t].pc = "exit"]
              /\ g_mons' = [g_mons EXCEPT ![m] = [used |-> 0, tid |-> NoTid,
                                                  remaining |-> th[t].cmd.count]]
         ELSE /\ th' = [thread_create(th, "monitor", m, "check") EXCEPT
                          ![t].pc = "mon record", ![t].slot = m, ![t].tgt = New(th),
                          ![New(th)].cmd = th[t].cmd]
              /\ g_mons' = [g_mons EXCEPT ![m] = [used |-> 1, tid |-> NoTid,
                                                  remaining |-> th[t].cmd.count]]
  /\ UNCHANGED <<g_procs, s_spawn_tid, s_spawn_active>>

mon_record(t) ==
  /\ AtCall(t, "sh-cmd", "mon record")
  /\ g_mons' = [g_mons EXCEPT ![th[t].slot].tid = th[t].tgt]
  /\ th' = [th EXCEPT ![t].pc = "exit"]
  /\ UNCHANGED <<g_procs, s_spawn_tid, s_spawn_active>>

\* The slots in use that carry tid u; the code takes the first.
mon_find_by_tid(u) == {m \in Mon : g_mons[m].used = 1 /\ g_mons[m].tid = u}

\* The slot of the tid, if a monitor in use has it, is marked free.
mon_stop(t) ==
  /\ AtCall(t, "sh-cmd", "mon stop")
  /\ LET own == mon_find_by_tid(th[t].cmd.tid)
     IN  IF own = {} THEN th' = [th EXCEPT ![t].pc = "mon kill"] /\ UNCHANGED g_mons
         ELSE /\ th' = [th EXCEPT ![t].pc = "mon kill", ![t].slot = Min(own)]
              /\ g_mons' = [g_mons EXCEPT ![Min(own)].used = 0]
  /\ UNCHANGED <<g_procs, s_spawn_tid, s_spawn_active>>

\* mon_stop relies on the monitor to see that its slot is free.
Bad_mon_stop_kill(t) ==
  /\ AtCall(t, "sh-cmd", "mon kill")
  /\ th' = [th EXCEPT ![t].pc = "mon clear"]
  /\ UNCHANGED tables
mon_stop_kill(t) ==
  /\ AtCall(t, "sh-cmd", "mon kill")
  /\ LET u == th[t].cmd.tid
     IN  th' = [thread_kill(th, t, u) EXCEPT
                  ![t].pc = IF kill_rc(th, t, u) = 0 THEN "mon join" ELSE "mon clear"]
  /\ UNCHANGED tables

mon_stop_join(t) ==
  /\ AtCall(t, "sh-cmd", "mon join")
  /\ th' = [thread_join(th, t, th[t].cmd.tid) EXCEPT ![t].pc = "mon clear"]
  /\ UNCHANGED tables

mon_stop_clear(t) ==
  /\ AtCall(t, "sh-cmd", "mon clear")
  /\ g_mons' = IF th[t].slot = NoTid THEN g_mons
               ELSE [g_mons EXCEPT ![th[t].slot].tid = NoTid]
  /\ th' = [th EXCEPT ![t].pc = "exit"]
  /\ UNCHANGED <<g_procs, s_spawn_tid, s_spawn_active>>

\* monitor_main: the test of used, the period of sleep, the report and the
\* countdown.
monitor_check(t) ==
  /\ AtCall(t, "monitor", "check")
  /\ th' = [th EXCEPT ![t].pc = IF g_mons[th[t].arg].used = 0 THEN "exit" ELSE "report"]
  /\ UNCHANGED tables

\* The countdown does not count.
Bad_monitor_report(t) ==
  /\ AtCall(t, "monitor", "report")
  /\ th' = [th EXCEPT ![t].pc = IF g_mons[th[t].arg].remaining = 0 THEN "exit" ELSE "check"]
  /\ UNCHANGED tables
monitor_report(t) ==
  /\ AtCall(t, "monitor", "report")
  /\ LET m == th[t].arg  r == g_mons[m].remaining
     IN  IF r < 0 THEN th' = [th EXCEPT ![t].pc = "check"] /\ UNCHANGED g_mons
         ELSE /\ g_mons' = [g_mons EXCEPT ![m].remaining = r - 1,
                                          ![m].used = IF r - 1 = 0 THEN 0 ELSE @]
              /\ th' = [th EXCEPT ![t].pc = IF r - 1 = 0 THEN "exit" ELSE "check"]
  /\ UNCHANGED <<g_procs, s_spawn_tid, s_spawn_active>>

----------------------------------------------------------------------------
\* What a thread does on its own: everything but the operator's commands.
UserStep(t) ==
  \/ main_start(t) \/ main_join(t)
  \/ spawn_add(t) \/ spawn_kill_next(t) \/ spawn_kill_join(t) \/ spawn_kill_clear(t)
  \/ shell_run_command(t) \/ shell_join(t) \/ shell_cmd_worker(t) \/ thread_exit(t)
  \/ mon_start_ex(t) \/ mon_record(t)
  \/ mon_stop(t) \/ mon_stop_kill(t) \/ mon_stop_join(t) \/ mon_stop_clear(t)
  \/ monitor_check(t) \/ monitor_report(t)

Typed(t) == \/ cmd_kill(t) \/ cmd_exit(t) \/ spawn(t) \/ spawn_kill(t)
            \/ shell_proc_alloc(t)

ShellNext == \E t \in User : UserStep(t) \/ Typed(t)

ShellSpec == ShellInit /\ [][ShellNext]_shell_vars

\* The scheduler runs every READY thread again and again (RunnableRuns of
\* Kernel.tla); nobody has to type a command.
ShellFairSpec == ShellSpec /\ \A t \in User : WF_shell_vars(UserStep(t))

----------------------------------------------------------------------------
Live(t) == th[t].state \in {"READY", "WAITING"}

\* Every tid in the table of spawn.c is the tid of the worker that was
\* created for that entry: "so subsequent spawn/kill only targets new
\* workers".  The entry that spawn kill has joined and is about to clear is
\* excepted.  A tid is reused as soon as its thread is joined, so an entry
\* that outlives its worker would make spawn kill kill another program.
SpawnTargetsOwn ==
  \A w \in Wid : s_spawn_tid[w] # NoTid =>
    \/ LET u == th[s_spawn_tid[w]]
       IN  u.state # "UNUSED" /\ u.prog = "spawn" /\ u.arg = w
    \/ \E t \in User : AtCall(t, "shell", "spawn clear") /\ th[t].slot = w

\* A shell at its prompt reports with "spawned=" the number of entries in the
\* table, whatever part of a spawn or a spawn kill failed before.
SpawnCounted ==
  (\E t \in User : AtCall(t, "shell", "prompt")) =>
    s_spawn_active = Cardinality({w \in Wid : s_spawn_tid[w] # NoTid})

\* A monitor that is in its loop owns its slot of g_mons: the slot is in use
\* and carries its tid, unless mon start is about to write the tid or mon
\* stop is about to kill the monitor.  A monitor that loses its slot but goes
\* on would share it with the next one, and mon stop could not find it.
MonitorsAccounted ==
  \A t \in User : Live(t) /\ th[t].prog = "monitor" /\ th[t].pc # "exit" =>
    LET m == g_mons[th[t].arg]
    IN  \/ m.used = 1 /\ m.tid = t
        \/ \E c \in User : /\ th[c].prog = "sh-cmd" /\ th[c].slot = th[t].arg
                           /\ \/ th[c].pc = "mon record" /\ th[c].tgt = t
                              \/ th[c].pc = "mon kill" /\ th[c].cmd.tid = t

\* A slot of g_procs is in use only while a shell is starting a worker for it
\* or a live worker has yet to copy it: no error path keeps one, and with
\* the last one the shell could start no command again.
ProcSlotsReturned ==
  \A p \in Proc : g_procs[p] # NoCmd =>
    \E t \in User : /\ Live(t)
                    /\ \/ th[t].prog = "shell" /\ th[t].pc = "create" /\ th[t].slot = p
                       \/ th[t].prog = "sh-cmd" /\ th[t].pc = "copy" /\ th[t].arg = p

\* One shell reads the console: user_main starts the next one only when the
\* last one has exited.  Two shells would take turns at g_stdin_waiter.
OneShell == Cardinality({t \in User : Live(t) /\ th[t].prog = "shell"}) <= 1

\* ps says that its output may be truncated whenever a thread is missing.
ListingComplete == cmd_ps.truncated \/ \A t \in Tid : th[t].state # "UNUSED" => t \in cmd_ps.shown

\* What the user is told about threads is true: the number of workers at the
\* prompt (spawn.c) and the listing of ps (cmd_ps).
ReportsTrue == SpawnCounted /\ ListingComplete

\* When spawn kill returns to the prompt no spawn worker is left, alive or as
\* a zombie: "kill + join each worker so its TID is actually recycled".
SpawnKillReclaims ==
  [][\A t \in User : th[t].pc = "spawn kill" /\ th'[t].pc = "prompt" =>
       \A u \in User : th'[u].prog # "spawn"]_shell_vars

\* Again and again a shell waits at its prompt: every command ends, and after
\* the end of a shell user_main starts the next one.
PromptReturns == []<>(\E t \in User : AtCall(t, "shell", "prompt"))

\* A monitor that was started with a count ends ("<0: forever, >=0:
\* countdown", user/monitor.c).  One that starts at 0 does not: it is counted
\* down to -1 before the test for 0.
MonitorEnds ==
  \A t \in User : (Live(t) /\ th[t].prog = "monitor" /\ th[t].cmd.count >= 0) ~> ~Live(t)

\* Every command comes to an end, in the foreground and in the background, and
\* no shell is the last one (shell_main, user_main, monitor_main).
CommandsEnd == PromptReturns /\ MonitorEnds
=============================================================================

# ccos: a TLA+ model of the kernel and its programs, with checks and proofs

ccos is a small RISC-V teaching kernel: several harts under SBI firmware, a
fixed table of threads in one address space, per-hart run queues, a timer, a
console and an interactive shell. This directory specifies it, checks it with
TLC on small instances and proves what matters most with TLAPS for instances of
any size. Source paths below are relative to `src/`.

## 1. The system

### Components

| Component | State | Operations | Interacts with |
|---|---|---|---|
| Threads (`kernel/thread.c`) | `g_threads[THREAD_MAX]`: state, `running_hart`, `wakeup_tick`, `detached`, `exit_code`, `join_waiter`, `waiting_for`, pending read, trap frame; `g_ticks`, `g_stdin_waiter` | create, exit, join, kill, detach, sleep, yield, block, wake, `threads_tick`, `schedule`, list | scheduler, run queues, console |
| Scheduler (`kernel/sched.c`) | `g_cpus[].slice_left` | timer interrupt, IPI, choice of the hart a woken thread goes to | threads, CPUs |
| Run queues (`kernel/runqueue.c`) | per hart `head`, `tail`, `len`; per thread `rq_next`, `on_rq` | push at the tail, pop the head, remove, length, snapshot | threads |
| CPUs and idle (`kernel/cpu.c`) | `g_cpus[]`: `online`, `current_tid`; pending software interrupt | bring-up, entering idle, kicking a hart | SBI, boot |
| Boot (`kernel/main.c`, `kernel/probe_illegal.c`, `arch/riscv/`) | boot flags, hart states, `stvec`, enabled interrupts | election of the boot hart, initialisation in order, start of the others with a timeout, ISA probe, first switch | CPUs, SBI |
| Traps (`kernel/trap.c`, `arch/riscv/trap.S`) | trap frames, `cur_tf` | save, dispatch of interrupts, faults and system calls, restore | everything above |
| Kernel lock (`kernel/lock.c`) | one spin lock with interrupts off | lock, unlock | traps |
| Console and stdin (`kernel/console.c`, `kernel/sysfile.c`) | receive ring, stdin waiter | blocking read, completion from the UART interrupt, write | threads, platform |
| Clock and statistics (`kernel/time.c`, `platform.c`) | `boot_real_ns`, time base, timer, interrupt counters | read-only system calls, timer re-arming | user programs, scheduler |
| Platform (`platform/qemu-virt-sbi/`) | handler table, PLIC enables, UART receiver, statistics | PLIC claim and complete, UART receive loop, timer, device tree | traps, console |
| Log (`lib/log.c`) | ring, level, line buffer, lock | write, read, peek, clear, level | everybody |
| Shell, spawn, monitor (`user/`) | `g_procs`, `s_spawn_tid`, `s_spawn_active`, `g_mons` | commands over the thread system calls | threads, stdin |
| User library (`user/ulib_*.c`, `user/datetime.c`) | a line being edited, a text being formatted | `u_gets` and the other readers, `u_vsnprintf`, dates | shell |
| String library (`lib/string.c`) | the caller's memory | copies, comparisons, searches | everybody |
| libfdt | none | device tree access | vendored, not modelled |

A trap enters through `trap.S`, which saves the registers into the thread's trap
frame; `trap_entry_c` takes the kernel lock, runs one handler, may change the
current thread of the hart in `schedule`, releases the lock, and `trap.S`
restores the frame of the thread that is current now. Harts share everything
else. They talk to each other by queueing threads on each other's run queue and
by IPIs. User programs are threads that share static tables without a lock.

### What is hard here

* **Interleaving.** Traps of several harts follow each other in any order; each
  sees what the others did to the thread table and to its own queue. A thread may
  be woken by a tick, an exit, a kill or a character, on any hart. Characters
  arrive between any two steps of the interrupt handler; shell, workers and
  monitors are preempted between any two system calls.
* **Outside the lock.** Frames are saved before the kernel lock is taken and
  restored after it is released; a hart that comes up enables interrupts before
  it has switched to its idle thread.
* **Lost wake-ups.** Only the boot hart has a timer. Work on another hart is
  noticed only if the IPI is sent, also while that hart is on its way to idle.
* **Stale references.** `join_waiter`, `waiting_for`, `running_hart`,
  `g_stdin_waiter`, and the tids in the tables of spawn and monitor, name threads
  that may die and whose slots are reused.
* **Asynchronous kill.** A victim that another hart runs goes on executing until
  that hart takes the IPI, and may make system calls meanwhile.
* **Results delivered later.** A blocked join or read returns what its waker
  writes into the trap frame.
* **Partial failure.** No free thread, a hart that does not start or starts late, a
  kill or join that fails in the middle of a loop over workers.
* **Boundaries.** Sleep of 0 and 1 ticks, the last tick of a slice, full rings,
  buffers and tables, overlapping regions, the most negative number, leap years.
* **Progress.** Preemption, sleeping, service of every queue, end of every handler
  and every command.

`PROJECT.json` lists these as `hazards`, at the line where each one bites.

### What makes each component correct

* Threads: a thread is RUNNING exactly while a hart executes it and
  `running_hart` says which; both ends of a join agree; a joiner returns when its
  target dies, with the result; a dead thread stays dead; a slot is not reused
  while it is executed; sleepers wake neither early nor late.
* Run queues: the lists are first-in first-out queues, and hold the RUNNABLE
  threads other than idle, each once.
* Scheduler and CPUs: slices end, a non-empty queue of an idle hart is served, no
  kick is lost, a runnable thread runs at last.
* Traps: a thread sees its own registers and the results of its own calls.
* Boot: nothing is used before it is initialised, the boot hart always gets going.
* Console and platform: every character is read once and in order or dropped by a
  full buffer; none stays in the receiver; the handler ends.
* Log: a bounded queue of characters with atomic calls.
* Programs: no table entry is lost or names a stranger; commands end; one shell.
* Libraries: the result is that of a reference definition.

## 2. The modules

| Module | Models | Contents |
|---|---|---|
| `Sched` | `kernel/sched.c`, `kernel/cpu.c`, `schedule` and its helpers in `kernel/thread.c` | the kernel's memory as a record, its type, queue operations, waking, switching, tick, bring-up |
| `Threads` | the thread system calls of `kernel/thread.c` | sleep, yield, create, exit, join, kill, detach |
| `Console` | `kernel/console.c`, `sys_read`, the stdin half of `kernel/thread.c` | blocking read and its completion |
| `Kernel` | `kernel/trap.c`, `kernel/main.c` after `threads_init` | the state machine that composes the three: one action per trap cause and system call; the properties |
| `RunQueue` | `kernel/runqueue.c` | the linked lists, loops node by node |
| `RunQueueSpec` | | what they promise: a sequence per hart |
| `TrapPath` | `arch/riscv/trap.S`, `trap_entry_c`, the lock, what handlers do to frames | a trap in seven steps: trap, save, lock, handler, schedule, unlock, restore |
| `TrapSpec` | | what it promises: one register context per thread |
| `Boot` | `start.S`, `kernel/main.c`, `kernel/cpu.c`, `kernel/probe_illegal.c`, `arch_first_switch.S` | each hart call by call, from `_start` on, traps in between |
| `Irq` | `platform.c`, `plic.c`, `uart_16550.c`, `kernel/console.c` | claim, dispatch, receive loop, complete; the ring with its contents; statistics |
| `Clock` | `kernel/time.c`, time and timer of `platform.c` | conversion of the counter, both clocks, the timer |
| `Log` | `lib/log.c` | line, level, ring character by character, lock |
| `LogSpec` | | what it promises: a bounded queue that drops its oldest characters |
| `Shell` | `user/main.c`, `shell.c`, `spawn.c`, `monitor.c`, `thread_list` | the programs cut at their system calls |
| `UserInput` | readers of `user/ulib_stdio.c`, `shell_read_line` | one step per return of `read()`, with the terminal |
| `Format` | formatters of `user/ulib_stdio.c` and `lib/log.c`, `u_atol`, `shell_atoi` | one step per character or directive |
| `Strings` | `lib/string.c`, `user/ulib_string.c`, `shell_parse_line` | one step per loop iteration |
| `DateTime` | `user/datetime.c` | one step per loop iteration |
| `MCKernel` | | instances of `Kernel` for TLC |
| `MCMachine` | | extends `Irq`, `Boot`, `Log` and `Shell` |
| `MCLibrary` | | extends `RunQueue`, `DateTime`, `Format`, `Strings`, `UserInput`, `Clock` and `TrapPath` |
| `MCShell` | | instances of `Shell` for the two runs in which a comment of the programs fails |
| `KernelProofs` | | theorems about `Kernel`: types, placement of threads, run queues, what each function of `Sched` does; wake-ups, results, joins, sleep, death, slots |
| `LibraryProofs` | | theorems about `RunQueue`, `DateTime`, `Clock`, `UserInput` and `Format` |
| `TrapPathProofs`, `LogProofs` | | invariants and refinements of these modules |
| `BootProofs`, `IrqProofs`, `ShellProofs`, `StringsProofs` | | theorems about these modules |

`MCMachine` and `MCLibrary` put specifications that share no state side by side.
Their variable `unit` says which one a behaviour is about; the others rest in
an initial state. So each behaviour of each of them is explored, and none of
the interleavings between them, which would say nothing. Two of the liveness
properties name the unit they are about: `BootCompletes` and `ProgramsEnd` are
`BootFinishes` and `CommandsEnd` for the behaviours of `Boot` and of `Shell`.

### How the layers fit

`Kernel` treats a run queue as a sequence, a trap as one step and the receive
ring as a number. The other modules justify that: `RunQueue` refines
`RunQueueSpec`, whose queues are those of `Sched`; `TrapPath` refines `TrapSpec`,
in which a trap changes only the context of its own thread; `Irq` shows that
the ring keeps its characters. `Boot` shows that a hart reaches the initial
states of `Kernel`, and that an IPI sent meanwhile is taken. `Shell` takes the
thread calls as `Kernel` gives them on one hart, and its fairness is what
`RunnableRuns` establishes there.

### How the model corresponds to the code

**Functions are operators.** In `Kernel` a handler runs from `kernel_lock()` to
`kernel_unlock()`, with interrupts off, so it is a sequential function of the
kernel's memory. The memory is one record (`k`), a C function is an operator on
records under its C name, and an action applies one handler to the whole record.
`schedule` is written as its two halves, `switch_out` and `switch_in`. The header
of `Sched` explains each field. In the other modules a C function or a loop
iteration is an action, named after it.

**The lock.** An action of `Kernel` is one critical section. The exception is
`threads_tick`: its loop is one step for each thread it wakes. The variable `scan`
is the loop variable, the slot looked at next, and `NONE` outside the loop; while
it has a value the boot hart holds the lock (`ticking`). The loop passes over the
table once: a sleeper that it has passed, or that `thread_make_runnable` takes
to be queued already, is not looked at again. A hart
comes online and enters idle without the lock, so `HartOnline` and `EnterIdle` may
happen in the middle of the loop: `sched_pick_target_hart` reads `online` there.

**Which hart takes what.** `cpu_enter_idle` starts the timer and enables the
timer and external interrupts on the boot hart only; the others enable software
interrupts. So `TimerIrq` and `UartIrq` happen on `BootHart`, `IpiIrq` on any hart.

**Abstractions.**
* `wakeup_tick` is relative to `g_ticks`, so `g_ticks++` decrements it for the
  sleepers; it stays 0 for one that is past its time. `g_ticks` has 64 bits and does
  not wrap.
* `on_rq` in `Sched` is membership in a queue, which is what `RunQueue` proves of the
  flag. Three places of `kernel/thread.c` reset the flag without unlinking (`:184`,
  `:441`, `:467`); they find a thread that is not queued, unless its slot
  was given away while it ran (`recycled_running`).
* `ret` in `Kernel` stands for `tf.a0` (for join also `*status`) of a thread that is
  not running: "due" while a blocked system call still waits for its result. It is
  consumed when the thread returns to user mode.
* An exit code is a model value, plus the two codes the kernel sets itself.
* A system call that returns an error leaves the memory as it is.
* `need_resched` is written and never read; `runs`, `migrations` and `last_hart`
  are statistics. They are left out.
* User code in `Kernel` is any sequence of system calls, faults and computation.
* A context in `TrapPath` is a program counter modulo 3 and `a0`; three values tell
  a context from its successor and from a stale one.
* Characters in `Irq` are numbered in the order they are typed; in `Log`,
  `UserInput`, `Format` and `Strings` they are members of small sets that contain
  every character the code treats specially.
* In `Format` integers wrap at `INT_MAX`, 127 in the run; in `Clock` a second has few nanoseconds.
  Wrapping is what the instructions of RISC-V do. For signed numbers it is an
  assumption: C leaves the overflow undefined and `mk/flags.mk` does not say `-fwrapv`.
  It matters for the most negative number only.
  The products of the real constants fit 64 bits with a 32-bit frequency.
* SBI (send-IPI, hart start, set-timer), PLIC and UART are external and modelled
  from how the code uses them. An IPI is reliable: it sets the pending bit. A hart
  start may fail, and a hart may come up late or never.

Operators named `Bad_*` are faulty variants that show that the properties can
fail; the specification uses none of them. Variables marked auxiliary record
history for a property and influence no step.

**Abstract specifications.** `RunQueueSpec` and `TrapSpec` say `[][v' # v => Next]_v`
for `[][Next]_v`. The two are the same formula, since a step of the first kind that
leaves v alone is a stuttering step; TLC need not look for an abstract step when
nothing changed.

## 3. The properties and the runs

The properties of a module are at its end, each with the behaviour of the code it
is about. Some are conjunctions of named parts:

* `QueuesServed` = `BootQueueServed` and `IdleHartServes`;
* `ReportsTrue` = `SpawnCounted` and `ListingComplete`; `CommandsEnd` =
  `PromptReturns` and `MonitorEnds`;
* `InputAccounted` = `InputInOrder` and `StatsRight`; `InputServed` = `FifoDrained`,
  `ReaderServed` and `HandlerReturns`;
* `BootSafe` = `TrapHasFrame`, `InitBeforeUse`, `ProbeVerdicts` and `StackKept`;
* `InputExact` = `ScreenShowsLine`, `LineReturned`, `ShellToldRight`, `ReadnInOrder` and
  `CharReturned`; `TextExact`, `StringsExact`, `TimeRight`: three parts each.

| Run | Instance | Checks | Result |
|---|---|---|---|
| `smp` | 2 harts, 3 user threads, one reader of stdin, all calls but kill | `TypeOK`, `ThreadStatesConsistent`, `QueuesConsistent`, `JoinsConsistent`, `NoLostKick`, `NoOverdueSleeper`, `ReaderNotStranded`, `ResultsDelivered`, `JoinReturnsAtDeath`, `NotWokenEarly` | hold, 503 000 states |
| `uni_kill` | 1 hart, 3 user threads, all thread calls, fairness | `RunnableRuns`, `SleepersWake` | hold, 173 000 states |
| `smp_kill` | 2 harts, 4 user threads, create, yield, exit, kill, fairness | `SlotHeldWhileRunning`, `DeadStayDead`, `KilledLeavesCpu`, `QueuesServed` | hold, 20 000 states |
| `machine` | `Irq`: 2 harts, 4 characters; `Boot`: 2 harts, 3 kinds of core; `Log`: 2 harts; `Shell`: 5 user threads, 2 spawn workers, 1 monitor, 1 command slot; fairness | `InputAccounted`, `InputServed`; `BootSafe`, `BootCompletes`, `KickTaken`; `ImplementsLog`, `LockReleased`; `SpawnTargetsOwn`, `ReportsTrue`, `MonitorsAccounted`, `ProcSlotsReturned`, `OneShell`, `SpawnKillReclaims`, `ProgramsEnd` | hold, 132 000 states |
| `library` | `TrapPath`: 2 harts, 2 user threads; for the others see the bounds | `FramesApart`, `ImplementsContexts`, `PanicFreezes`; `ListsWellFormed`, `ImplementsQueues`, `DateIsRight`, `TextExact`, `StringsExact`, `InputExact`, `TimeRight` | hold, 2 272 000 states |
| `killed_joiner` | 1 hart | `DeadStayDead` | violated |
| `killed_sleeper` | 2 harts | `DeadStayDead` | violated |
| `recycled_running` | 2 harts | `SlotHeldWhileRunning` | violated |
| `no_preemption` | 2 harts | `RunnableRuns` | violated |
| `empty_read` | 1 hart | `ResultsDelivered` | violated |
| `mon_count_zero` | 4 user threads, counts -1, 0 and 1, fairness | `MonitorEnds` | violated |
| `mon_stop_worker` | 5 user threads, mon stop of a spawn worker | `SpawnTargetsOwn` | violated |

### The seven disagreements

1. **`killed_joiner`.** A thread that waits in join is killed. Its target still
   names it as `join_waiter`, so the target's exit makes the dead thread RUNNABLE
   and it returns from join, against "Force ZOMBIE state (SIGKILL semantics)"
   (`kernel/thread.c:640`).
2. **`killed_sleeper`.** A thread killed while another hart runs it reaches
   `SYS_SLEEP` before that hart takes the IPI. `thread_sys_sleep` overwrites
   ZOMBIE and the thread lives on.
3. **`recycled_running`.** Kill and then join: `thread_sys_join` recycles the ZOMBIE
   slot without looking at `running_hart`, although `thread_sys_kill` itself says
   "Only recycle when we can guarantee the victim is no longer executing"
   (`kernel/thread.c:677`).
4. **`no_preemption`.** The header of `kernel/sched.c` says that every hart re-arms
   its own timer; only the boot hart has one, so a thread behind a computing
   thread on another hart never runs.
5. **`empty_read`.** A stdin read of length 0 blocks and is woken on the path of
   `thread_read_from_stdin` that writes no `a0`, although `kernel/trap.c:193`
   leaves `a0` to the waker.
6. **`mon_count_zero`.** `monitor_main` decrements `remaining` before it compares it
   with 0 (`user/monitor.c:112`), so a monitor started with count 0 goes to -1 and
   runs for ever, although `user/monitor.c:25` says "<0: forever, >=0: countdown".
   A count of 1 ends after one report.
7. **`mon_stop_worker`.** `mon stop` kills and joins any tid it is given. With the tid of
   a spawn worker it frees that thread's slot, and the entry of the worker in
   `s_spawn_tid` outlives it: `spawn kill` would then hit whoever gets the
   tid next, which the comment at `user/spawn.c:205` wants to avoid.

The passing runs leave out the calls that lead to these, so they show what does
hold. `smp` has no kill and no empty read; `smp_kill` has no join, detach or sleep;
`uni_kill` has all thread calls but one hart, where 2 and 3 cannot happen, and
does not check `DeadStayDead`. In `machine` monitors have no count or a count of 2,
and `StopTargets` holds monitors only; the theorems of `ShellProofs` have the
second as their condition and speak of every count, since they are about safety.

### Further behaviours

More behaviours of the code that came up while modelling:
* `mon stop` with the tid of the shell kills the shell; `user_main` restarts one,
  which may get the same tid, the join of `mon stop` becomes the joiner of the new
  shell, the join of `user_main` fails, and it starts a second shell: `OneShell`
  fails. It has the cause of `mon_stop_worker`; that configuration with `"shell"` in
  `StopTargets` and `OneShell` as its invariant shows it in 13 steps.
* `trap_entry` starts at the top of the hart's kernel stack (`arch/riscv/trap.S:29`),
  and the code that brings a hart up runs on the same stack. A probed instruction that
  traps (`kernel/probe_illegal.c`) therefore overwrites the frames of its callers,
  among them the return address of `probe_privileged_isa`. A release build (`-O2 -flto`)
  has the function inlined and needs nothing of that frame; the default build
  (`-Og -fno-inline`, `mk/flags.mk`) returns through it. `probe_log` therefore has
  both outcomes, and the second, `"astray"`, ends the hart's boot, although the probe
  is meant to work "without crashing the kernel during bring-up" (`kernel/trap.c:26`).
  `StackKept` says that this is the only way: a core that has all the
  instructions comes up.
* An interrupt that is pending when `cpu_enter_idle` enables it is saved into
  `idle->tf`, the frame `arch_first_switch` is about to load (`kernel/cpu.c:88`,
  `:102`): the hart then resumes where it was interrupted and does the first
  switch again. Its handler too runs over the frames of `cpu_enter_idle`, which does
  not return; the model takes it that what the rest of that function needs, the hart's
  number and two pointers, is in saved registers, which the trap frame keeps. A
  compiler that spills one of them to the stack would lose it. With it intact the
  step harms neither `BootSafe` nor `KickTaken`.
* `u_read_line` and `u_read_until` store a NUL byte like any other, so the C
  string in the buffer may be shorter than the length they return. `LineReturned` speaks of
  the length for these two (they have no caller) and of the string for `u_gets`,
  which ignores NUL.
* `plic_init_s_mode` clears the first word of the enable bits only, though its comment
  speaks of all of them (`plic.c:124`). Nothing has set a bit of the others before
  it runs, so no property depends on it.

### Bounds, and why they are enough

* **Harts.** Two harts show every interaction between a hart and another one. One
  hart is the build where kill is always local.
* **Threads.** With two harts there are three user threads in `smp`. With two, a
  waker's queue is never longer than the other hart's and nothing migrates; with
  three, one runs, one is queued and a third is woken to the other hart. `smp_kill`
  has a fourth so that all slots are taken while a killed thread is still on a CPU.
  `TrapPath` needs two: one that blocks or dies and one that takes its CPU or slot.
* **Slice** of 2 ticks: a tick that ends the slice and one that does not.
* **Sleep** of 0 (yield) and 2 ticks in `smp`: a tick that finds a sleeper not due
  and one that finds it due; several sleepers may be due in one tick.
* **Receive ring** of size 3 holds two characters: empty, partly filled, full and
  wrapped. Reads of 1 and 2 characters take part of it or all of it. In `Irq` a
  receiver of 2 and 4 typed characters overflow both buffers; the UART interrupt is
  valid, absent or beyond the table; time has 3 values.
* **Shell.** `main`, a shell, two spawn workers and one monitor or command need more
  threads than there are, so creation fails at every place it can. A monitor has no
  count or counts from 2 over 1 to 0; 0 and 1 at the start are in `mon_count_zero`.
* **Boot.** Two harts come up in any order, late or never, on cores that have all
  probed instructions or lack some.
* **Log.** A ring of 2 characters; one line fits it exactly, one is cut at the line
  buffer and still longer than the ring, which keeps its end.
* **Run queue lists.** Three threads: removal at the head, in the middle and at the
  tail. A snapshot of 2 cuts a queue of 3.
* **Dates.** The days around the end of February and of the year, 1970 to 2037, at
  the first and the last second. TLC's integers end there; the proof has no limit.
* **Formats.** All of up to 4 of 7 characters, and one directive of each kind in
  context; buffers of 0, 1, 4 and 9; 8-bit integers at their
  limits, -1, 0 and 10, read back from fields up to 6 wide.
* **Strings.** A memory of 6 bytes over 3 values for `shell_parse_line`, so that a line
  may have more words than argv has places; for the others the last two bytes are NUL, and
  two regions overlap in every way in what is left. **Input.** 4 keys out of a
  letter, a blank and every special character, NUL included, and a buffer of 3: the
  line fills up and is erased.
  **Clock.** A counter up to 8; 3, 8 and 14 ticks in a second of 10 nanoseconds.
* `Kernel`, `TrapPath`, `Shell`, `Log` and `RunQueue` are finite without bounds on
  their histories. `MaxTyped`, `MaxTime`, `MaxKeys` and `MaxTicks` bound the others,
  which is why `machine` and `library` do not check deadlock; besides, a panic in
  `TrapPath` and a lost stack in `Boot` stop a hart for good.
* Threads are not interchangeable (`alloc_thread_slot` takes the lowest tid), so no
  symmetry is used.

### Fairness

* `Kernel`: `WF(Tick)`, because `sched_on_timer_irq` re-arms the timer before
  anything else and the loop of `threads_tick` goes on once begun; `SF(IpiIrq(h))`,
  because the interrupt stays pending while the hart competes for the spin lock
  with the boot hart, and a hart that spins gets the lock at last;
  `WF(EnterIdle(h))`. Nothing is assumed of threads: they may compute for ever, and
  a hart may never come online.
* `Shell`: `WF(UserStep(t))` for every thread that is ready, as `RunnableRuns` gives it
  on one hart. Nobody has to type a command.
* `Irq`: the gateway of the PLIC raises a pending interrupt, and the boot hart goes
  on with its handler. Nobody has to type or to read.
* `Boot`: a hart that runs goes on, and an enabled pending interrupt is taken.
  Whether the firmware starts a hart is not assumed.
* `Log`: a hart in a log call goes on. The lock is not assumed to be fair.

## 4. The proofs

For every number of harts, threads, ticks, characters and seconds, and every size
of a table or a buffer:

| Theorem | Statement | Condition |
|---|---|---|
| `KernelProofs!TypeCorrect` | `Spec => []TypeOK` | none |
| `KernelProofs!SleepersOnTime` | `Spec => []NoOverdueSleeper` | `NoRemoteKill` |
| `KernelProofs!StatesAgree` | `Spec => []ThreadStatesConsistent` | `NoRemoteKill` |
| `KernelProofs!QueuesAgree` | `Spec => []QueuesConsistent` | `NoRemoteKill` |
| `KernelProofs!SlotHeld` | `Spec => []SlotHeldWhileRunning` | `NoRemoteKill` |
| `KernelProofs!KicksDelivered` | `Spec => []NoLostKick` | none |
| `KernelProofs!ResultsWritten` | `Spec => []ResultsDelivered` | `NoRemoteKill`, `NoEmptyRead` |
| `KernelProofs!ReaderServed` | `Spec => []ReaderNotStranded` | the same and `OneReader` |
| `KernelProofs!JoinsKept` | `Spec => []JoinsConsistent` | `NoKill` |
| `KernelProofs!SleepNotCutShort` | `Spec => NotWokenEarly` | `NoKill` |
| `KernelProofs!JoinEndsAtDeath` | `Spec => JoinReturnsAtDeath` | `NoKill` |
| `KernelProofs!DeathIsFinal` | `Spec => DeadStayDead` | `KillsFinal` |
| `KernelProofs!SlotHeldDespiteKill` | `Spec => []SlotHeldWhileRunning` | no join, no detach |
| `LibraryProofs!TypeCorrect` | `Spec => []TypeOK` | none |
| `LibraryProofs!WellFormed` | `Spec => []ListsWellFormed` | none |
| `LibraryProofs!Implements` | `Spec => ImplementsQueues` | none |
| `TrapPathProofs!FramesStayApart` | `TrapPathSpec => []FramesApart` | none |
| `TrapPathProofs!PanicStops` | `TrapPathSpec => PanicFreezes` | none |
| `TrapPathProofs!ContextsKept` | `TrapPathSpec => ImplementsContexts` | none |
| `LogProofs!RingInvariant` | `LoggingSpec => []LInv` | `LogAssumption` |
| `LogProofs!Implements` | `LoggingSpec => ImplementsLog` | `LogAssumption` |
| `IrqProofs!InputNeverLost` | `Spec => []InputAccounted` | none |
| `ShellProofs!ShellInvariant` | `ShellSpec => []SInv` | `StopsMonitors` |
| `ShellProofs!ShellUnique` | `ShellSpec => []OneShell` | `StopsMonitors` |
| `ShellProofs!CommandSlotsReturned` | `ShellSpec => []ProcSlotsReturned` | `StopsMonitors` |
| `ShellProofs!SpawnTableTrue` | `ShellSpec => []SpawnTargetsOwn` | `StopsMonitors` |
| `ShellProofs!MonitorsOwnSlots` | `ShellSpec => []MonitorsAccounted` | `StopsMonitors` |
| `ShellProofs!ReportsAreTrue` | `ShellSpec => []ReportsTrue` | `StopsMonitors` |
| `ShellProofs!SpawnKillTakesAllBack` | `ShellSpec => SpawnKillReclaims` | `StopsMonitors` |
| `LibraryProofs!LoopInvariant` | `DateSpec => []IInv` | none |
| `LibraryProofs!DateCorrect` | `DateSpec => []DateIsRight` | none |
| `LibraryProofs!ClockIsRight` | `ClockSpec => TimeRight` | `ClockAssumption` |
| `LibraryProofs!InputIsExact` | `InputSpec => InputExact` | `InputAssumption` |
| `LibraryProofs!FormatIsExact` | `FormatSpec => []TextExact` | `FormatAssumption` |
| `BootProofs!BootInvariant` | `BootSpec => [](Cold \/ IInv)` | `BootAssumption` |
| `BootProofs!BootIsSafe` | `BootSpec => []BootSafe` | `BootAssumption` |
| `StringsProofs!StringLoops` | `StringsSpec => []StrInv` | `StringsAssumption` |
| `StringsProofs!StringsAreExact` | `StringsSpec => []StringsExact` | `StringsAssumption` |

`NoRemoteKill` says that the instance has one hart or that its threads do not use
kill. The condition is needed: a thread killed while another hart runs it is
ZOMBIE and current at once, and `recycled_running` shows where that leads.
The other conditions leave out what the disagreements of section 3 need:
* `NoEmptyRead`: no read of 0 characters (`empty_read`); `OneReader`: one thread
  reads stdin, as the kernel's header asks.
* `NoKill`: nobody uses kill (`killed_joiner`, `killed_sleeper`).
* `KillsFinal`: `NoKill`; or nobody joins and, with more than one hart, nobody
  sleeps or reads. Then a killed thread has no way back to life.
* No join and no detach in `SlotHeldDespiteKill`: with kills across harts, it is the
  join of a killed thread that frees a slot too early (`recycled_running`).
* `StopsMonitors`: mon stop is given the tid of a monitor (`mon_stop_worker`).
* `LogAssumption`, `BootAssumption`, `ClockAssumption`, `StringsAssumption`,
  `InputAssumption` and `FormatAssumption` are what the constants of these modules
  satisfy: a ring of at least one character and a line buffer, a finite set of harts,
  a second of at least one nanosecond and a default frequency, a memory of at least
  one byte, a buffer with room for one character, visible keys that are no control
  characters, integers between the limits. The theorems have these
  formulas as conditions; `MCMachine` and `MCLibrary`, which extend these modules,
  assume them, and TLC evaluates them for the constants of the runs.

**Assumptions.** Those named in the modules: at least one hart, more threads than
harts, the boot hart is a hart, a slice is at least one tick, the ring has at
least two slots, arguments have their types. TLC evaluates them in the runs.

### Kernel

`TypeOK` is not inductive: `schedule` at the end of a tick needs a current thread on
the boot hart. `ITyped` adds that inside `threads_tick` the boot hart runs one.

`IOnTime`, for `NoOverdueSleeper`, says that the loop of `threads_tick` has passed no
sleeper that is due. It needs `IConsistent`: `thread_make_runnable` returns early
for a thread that is on a queue, and a pass that calls it for such a sleeper leaves
it behind. That no SLEEPING thread is queued is `Queued`, hence the condition on kill.

`IConsistent` adds `Consistent(k)`, that is `Placed(k, Hart, {})` and `Queued(k)`.
`Queued` is `QueuesConsistent`. `Placed` strengthens `ThreadStatesConsistent` by
what makes it inductive: a hart runs a user thread or its own idle thread (else
`switch_out` would queue a foreign idle thread), only an online hart runs one
(else bring-up would drop a thread), and no thread is its own joiner (else
`thread_sys_exit` would requeue the thread that is about to leave the CPU).

A handler is a chain of functions, and in the middle of it the thread that
trapped has a state that does not match its CPU: a sleeper is SLEEPING while
still current. `Placed(s, H, X)` therefore has two parameters: the harts `H` that
are counted and the threads `X` that are exempt. A trap on hart h weakens
`Placed(k, Hart, {})` to `Placed(k, Hart \ {h}, {current})` (`TakeTrap`); waking and
recycling keep it (`MakeRunnableConsistent`, `RecycleConsistent`); `switch_out`
gives `Placed(_, Hart \ {h}, {})` and `switch_in` gives `Placed(_, Hart, {})` back.
`Queued` needs that a thread is in the queues once: then one removal, by
`rq_pop_head` or `rq_remove`, takes it off all of them (`UnlinkQueued`). `Gentle`
says that a function puts nobody to sleep and gives nobody a joiner; all but
sleep and join are gentle, which carries `NoOverdueSleeper` through a handler.
Each handler has a lemma of the same form, and `NextStep` collects them.

### Waiting, results and death

The theorems about waiting rest on `ITyped` or `IConsistent` and on a property of
the record that every handler keeps:

* `IAttended`, for `NoLostKick`: a hart other than the boot hart with a non-empty
  queue runs a user thread or has an IPI pending, and only an online hart has
  something to run. `thread_make_runnable` queues on another hart and kicks it in the
  same critical section; `schedule` pops until it finds a RUNNABLE thread,
  so a hart that goes idle has an empty queue. No condition on kill is needed.
* `IOwed`, for results and the reader: a result that is due is that of a thread which
  waits for it, a BLOCKED thread waits for characters, and a single reader is the
  registered waiter of an empty ring. A wake-up of a BLOCKED or WAITING thread
  must therefore write the result, and `empty_read` is the one path that does not.
* `IJoined`, for both ends of a join: `join_waiter` and `waiting_for` are inverse to
  each other and a WAITING thread has both. Exit and recycling clear the two ends in
  one critical section; a killed joiner would leave one of them.
* The action properties follow from `Lasting(r, s, X)`: from record s to record r no
  thread outside X leaves SLEEPING or WAITING or comes back from ZOMBIE. A handler
  is a chain in which at most one step is not `Lasting`, for the thread it wakes.
* `IHeld`, with kills: two harts run different threads, which are RUNNING or ZOMBIE,
  and nobody is joined or detached, so `switch_out` recycles nothing.

### Run queues

The auxiliary variable `queue` is the sequence a list is meant to hold. The
inductive invariant is `TypeOK` with `ListsWellFormed`: head, tail, successors and
count spell `queue` (`Spells`), no thread is in two places, and `on_rq` is
membership. Part of `TypeOK` is `WalkOK`, which gives the locals of a loop their
meaning: `cur` is the node at position `pos`, `prev` the one before it, nothing
before it is what is looked for, and a snapshot holds the first `pos - 1` nodes.
Unlinking is proved once for the head, the middle and the tail (`UnlinkInv`) and
used by pop and remove. The refinement maps `queue` to itself; a loop step
stutters, and the last step of a function is the abstract operation.

### Trap path

`FramesApart` is not inductive: it does not say why the thread `schedule` picks has
no CPU. The invariant adds `Locked` (a hart in a handler holds the lock, so states
change on one hart at a time), `OwnIdle`, `Callers` (a system call is that of a
user thread) and `JoinersWait` (who is named as a joiner waits, for one thread,
so an exit cannot wake a thread that has a CPU). `PanicFreezes` follows from
`Locked`: all changes it forbids need the lock.

The refinement of `TrapSpec` maps the context of a thread to the registers of the
hart that runs it, if they are still or again the thread's, and to its trap frame
otherwise. `CInv` adds that idle threads are alive and `Asked`: `a0` still holds the
number of a system call when the handler reads it from the frame. Idle threads may be
joined, all but thread 0 (`thread_sys_join` refuses only that one); they never
die, so that joiner waits for ever and is in nobody's way. A save or a
restore moves a context and stutters; a handler is the abstract result of the call.

### Log

`LInv` says that only the holder of the lock is inside a copy (`Exclusive`), what a
call that waits for the lock has not done yet (`Waiting`, `Fresh`, `Sizes`), and what
half a copy has achieved (`Halves`): a write at character i has put its first i
characters into the ring from the head on and left what they did not reach; a read
has copied the first i characters. During a write the abstract queue is what the
ring held before it (`before`), so a write takes effect at once. The ring is
indexed modulo its size; `Wrap` and its neighbours do that arithmetic once.

### Interrupts and input

`IrqInv` has four parts. `Types`. `Chars`: what was read, what is in the ring and what
is in the receiver is one increasing sequence, and with the characters lost it is
as long as what was typed; each step moves a piece over one border of that
sequence (`RingPush`, `RingPop`) or appends to it. `Own`: only the UART is pending. `Stats`:
the record of the UART's interrupt is that of the list of claims; the largest gap is
an upper bound that some gap reaches.

### Shell

The tables of the programs have no lock. They are safe because of who can run:
`SInv` says that one shell is alive and `user_main` is about to join it or waits
(`Shells`), that one worker is and the shell is about to join it or waits (`Workers`),
and that nobody else is a joiner (`Joins`). So while a shell is inside a command
of its own no worker runs, and only monitors and `user_main` run between its calls.
On top of that `SInv` says what each table means at each point of each command:
which entries spawn kill has cleared, that the entry it joins is a zombie and the
one it clears has no thread (`Spawned`); that the count is right outside spawn
kill (`Number`); who will free a slot of `g_procs` (`Slots`); which monitor a worker
started or is stopping (`WorkerAt`); that a monitor in its loop owns a slot or a
worker is about to give it one or to kill it (`Monitors`). The join in spawn kill
and in mon stop never waits, since the thread has just been killed. The listing of
`ps` needs no invariant: if the lowest missing thread is n, the threads listed are
those below n, and they are as many as the buffer holds (`ListingFull`).

### Dates

`IInv` says that the days since 1970 are the days before the year and month
reached, plus the rest. Each step moves the length of a year or month from one
side to the other, which rests on `LeapCount` (the closed formula grows by one
exactly after leap years), `YearLength` and `MonthLength`. At the end the
remaining days are fewer than the month, so the date is the one of the formula.

### Boot

`BootSafe` says what must not be seen at a trap, at a use and in the log; why is in
`IInv`, and in `Cold` for the state before `_start`, where the BSS holds anything.
`Election`: the boot hart is elected once and nobody else comes onto its
path. `Alone`: until `set_smp_boot_done` all other harts are parked and none was asked to
start, so the boot hart initialises without company. `Online`: only a hart that has
started is online. `Staged`: what is initialised follows from where the boot hart is,
and everything is once the others may start. `Frames`: a hart past `trap_init` has a
vector; a hart that takes interrupts is past the point in `cpu_enter_idle` where its
frame is that of its idle thread, and that frame resumes at a place from where the
hart may go on or do the first switch again. The last part is what the interrupt
between enabling and `arch_first_switch` needs (section 3): its save goes into the
frame that is about to be loaded. `Probing` gives the flags of the probe their meaning
at each of its three places, so that a verdict is the one on its own instruction;
it also says that a hart that lost its stack did so on a core that lacks one of them.

### Clocks

The counter may advance between any two steps, so `ClockInv` speaks of the counter
at the time of the read. `ClocksRight`: a clock was read after `time_init`, with the
frequency in force, and shows the exact time of that counter value; `time_init` is
not later than any read. `TimerSpaced`: an armed timer fires at least a slice after
the interrupt before it. The conversion splits the counter into seconds and a rest;
`DivUnique` and `DivSplit` show that this is the division of the full product, and
`DivMonotone` that it never decreases.

### Input

`Gets`: while `u_gets` runs, its buffer holds what an editor makes of the keys so far
(`Edited`), the cursor stands behind it, and the terminal shows it followed by blanks
only. `Others`: the other readers hold the keys as they came, with room for the
terminator. The line that `u_gets` returns is then the string up to the first `NUL`, since
what an editor keeps is visible. No key before the last one is Ctrl-C
(`NoInterrupt`), so what `shell_read_line` reports follows from the last key.

### Formats

While a formatter runs the destination holds what fits of the text so far and is
untouched behind it (`Loop`); the log's position stops at the room, the user's goes
on. What a directive prints is a text, however wide (`UserFieldText`,
`LogFieldText`). `Finish` puts the terminator at the end of what fits. That `shell_atoi` and `u_atol` read back what `u_itoa`
wrote, the second also behind blanks (`ReadBack`), rests on `DecimalValue`: the value of the decimal digits of a number
is the number. For the most negative one the negation wraps to itself and its
digits are those of `INT_MAX + 1`.

### Strings

`StrInv` has one conjunct per kind of loop: what a copy has put down, from which
end, over which memory (`InvCopy`; memmove copies from the end when the destination lies
behind the source, so that what it still has to read is intact),
what a comparison or a search has seen (`InvSame`, `InvNot`, `InvLast`), and for
`shell_parse_line` that the rest of the line is untouched while every word before it
is an argument with its end cut off (`InvParse`).

### Recursive definitions

`Edited`, `Digits` and `Number` are recursive functions. The induction theorems of the
library take an operator as a parameter, which the provers cannot instantiate.
Instead a lemma states an induction as the absence of a least counterexample
(`LeastOf`, from the well-foundedness of the naturals): it shows that for every bound
a function with the recursion equation exists (`LineExists`, `DigitsExist`,
`ValuesExist`) and that two of them agree where both are defined (`LineUnique`,
`DigitsUnique`, `ValuesUnique`). So the definition satisfies its equation
(`EditedKeys`, `DigitsStep`, `NumberAppend`), and facts about it are proved the same way.

### Only model-checked

Every invariant, every action property and every refinement that a passing run
checks is also proved, under the conditions above.
Liveness under fairness (`RunnableRuns`, `SleepersWake`, `QueuesServed`,
`KilledLeavesCpu`, `ProgramsEnd`, `InputServed`, `BootCompletes`, `KickTaken`,
`LockReleased`) is outside what the prover handles and stays with TLC.

## 5. Not modelled

* libfdt and `fdt_helper.c`: vendored, and the lookups around it. What the device
  tree says (UART interrupt, time base) is an input of `Irq` and `Clock`.
* Register layout and access of UART and PLIC, and the transmitter: `sys_write` and
  the log hand bytes to it under different locks, so two harts may both see it
  empty and one byte is overwritten; nothing in the code relies on the opposite.
* The contents of kernel stacks. That a trap overwrites what the boot code left on them
  is in `Boot` by its consequences.
* `dump_trap`, backtraces, hex dumps, timestamps and paths in log lines, the
  printing commands of the shell: text for people.
* `user/syscall.c`: stubs that move registers.
* `thread_create_kern`, `smp_kick_all_others`, `smp_wait_hart_online`: no caller. The
  probe of `wfi` is disabled.
* Two stdin readers: `kernel/include/thread.h` restricts the kernel to one pending
  read, and `OneShell` shows that the programs keep to it.
* Cycles of joins and a killed reader that is not yet joined: the code promises
  nothing about them (see the notes of these hazards).

## 6. What could follow

1. `JoinService`: what join, exit, detach and kill promise a caller, with a
   refinement from `Kernel`.
2. A proof of `JoinsConsistent` with kills on one hart, for a weaker statement that
   allows the stale `join_waiter` of `killed_joiner`.

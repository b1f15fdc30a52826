-------------------------------- MODULE Boot --------------------------------
(***************************************************************************)
(* How ccos comes up: start.S, kernel_main and its two branches            *)
(* (kernel/main.c), the per-hart part (kernel/cpu.c), the probe of         *)
(* privileged instructions (kernel/probe_illegal.c), and the first switch  *)
(* to the idle thread (arch_first_switch.S).                               *)
(*                                                                         *)
(* boot_pc says which call a hart makes next.  A trap, from an interrupt   *)
(* or a probed instruction, may come between any two steps once the hart   *)
(* lets it: trap_entry saves the interrupted context in the frame cur_tf   *)
(* points to.  Of the running system only what can meet a hart that is     *)
(* still coming up is kept: threads run, kick other harts and give way to  *)
(* idle.                                                                   *)
(*                                                                         *)
(* trap_entry runs on the hart's kernel stack from its top, and so does    *)
(* the code that is coming up: a trap taken there overwrites its frames.   *)
(* What is still needed of them differs between the builds, see probe_log. *)
(***************************************************************************)
EXTENDS Integers, Sequences, FiniteSetsExt

CONSTANTS
  HartId,   \* 0 .. MAX_HARTS - 1
  Illegal   \* sets of probed instructions that some core does not have

BootAssumption == HartId \subseteq Nat /\ IsFiniteSet(HartId) /\ HartId # {}

NoHart == -1
Irqs   == {"ssip", "stip", "seip"}
\* The instructions that probe_privileged_isa tries, in its order.
Probed == <<"sfence.vma", "sfence.vm", "csrr satp", "csrw satp", "fence.i">>

VARIABLES
  boot_pc,        \* the next call of each hart
  g_boot_hartid, smp_boot_done, online,
  ready,          \* what the boot hart has initialised
  stvec,          \* harts whose trap vector is set
  cur_tf,         \* the frame each hart saves a trapped context in
  idle_sepc,      \* where the frame of each idle thread resumes
  sie, boot_enabled, boot_pending,  \* sstatus.SIE, sie and sip of each hart
  other,          \* start_other_harts: the harts still to be started
  hsm,            \* the firmware's view of a hart
  illegal,        \* the instructions this core does not have
  probe           \* the probe: next instruction, the two flags, the verdicts
smp  == <<g_boot_hartid, smp_boot_done, online, ready, other, hsm>>
trap == <<stvec, cur_tf, idle_sepc>>
irq_bits == <<sie, boot_enabled, boot_pending>>
boot_vars == <<boot_pc, smp, trap, irq_bits, illegal, probe>>

\* Only one hart comes through _start; the others are parked.  Of the data
\* only g_boot_hartid has its value from the image, the rest is in the BSS.
BootInit ==
  /\ \E b \in HartId : boot_pc = [h \in HartId |-> IF h = b THEN "_start" ELSE "parked"]
  /\ g_boot_hartid = NoHart /\ smp_boot_done \in BOOLEAN /\ online \in SUBSET HartId /\ ready = {}
  /\ other = {} /\ hsm = [h \in HartId |-> "STOPPED"]
  /\ stvec = {} /\ cur_tf = [h \in HartId |-> "garbage"] /\ idle_sepc = [h \in HartId |-> "garbage"]
  /\ sie = [h \in HartId |-> FALSE] /\ boot_enabled = [h \in HartId |-> {}] /\ boot_pending = [h \in HartId |-> {}]
  /\ illegal \in Illegal
  /\ probe = [i |-> 1, enabled |-> FALSE, hit |-> FALSE, verdict |-> <<>>]

At(h, here) == boot_pc[h] = here
Go(h, there) == boot_pc' = [boot_pc EXCEPT ![h] = there]

----------------------------------------------------------------------------
(* Every hart.                                                             *)

\* The cold boot path clears the BSS.
_start(h) ==
  /\ At(h, "_start") /\ Go(h, "per_hart_start")
  /\ smp_boot_done' = FALSE /\ online' = {}
  /\ cur_tf' = [g \in HartId |-> "none"] /\ idle_sepc' = [g \in HartId |-> "zero"]
  /\ UNCHANGED <<g_boot_hartid, ready, other, hsm, stvec, irq_bits, illegal, probe>>

\* Where the path of a secondary hart, secondary_entry, joins: the hart takes
\* its own kernel stack.
per_hart_start(h) ==
  /\ At(h, "per_hart_start") /\ Go(h, "kernel_main")
  /\ UNCHANGED <<smp, trap, irq_bits, illegal, probe>>

\* Populates g_cpus[hartid] and announces the hart.
cpu_init_this_hart(h) ==
  /\ At(h, "kernel_main") /\ Go(h, "elect")
  /\ cur_tf' = [cur_tf EXCEPT ![h] = "none"]
  /\ online' = online \cup {h}
  /\ UNCHANGED <<g_boot_hartid, smp_boot_done, ready, other, hsm, stvec, idle_sepc, irq_bits, illegal, probe>>

\* The compare-and-swap on g_boot_hartid.
kernel_main(h) ==
  /\ At(h, "elect")
  /\ IF g_boot_hartid = NoHart THEN g_boot_hartid' = h /\ Go(h, "platform_init")
     ELSE Go(h, "wait_for_smp_boot_done") /\ UNCHANGED g_boot_hartid
  /\ UNCHANGED <<smp_boot_done, online, ready, other, hsm, trap, irq_bits, illegal, probe>>

trap_init(h) ==
  /\ At(h, "trap_init") /\ Go(h, IF h = g_boot_hartid THEN "trap_install_bootstrap_tf" ELSE "cpu_enter_idle")
  /\ stvec' = stvec \cup {h}
  /\ UNCHANGED <<smp, cur_tf, idle_sepc, irq_bits, illegal, probe>>

\* The frame of the idle thread becomes the hart's; the boot hart also arms
\* its timer and takes timer and external interrupts.
cpu_enter_idle(h) ==
  /\ At(h, "cpu_enter_idle")
  /\ cur_tf' = [cur_tf EXCEPT ![h] = "idle"]
  /\ Go(h, IF h = g_boot_hartid THEN "enable_timer" ELSE "enable_software")
  /\ UNCHANGED <<smp, stvec, idle_sepc, irq_bits, illegal, probe>>

Enable(h, i) ==
  /\ sie' = [sie EXCEPT ![h] = TRUE]
  /\ boot_enabled' = [boot_enabled EXCEPT ![h] = @ \cup {i}]
  /\ UNCHANGED <<boot_pending, smp, trap, illegal, probe>>
arch_enable_timer_interrupts(h)    == At(h, "enable_timer") /\ Go(h, "enable_external") /\ Enable(h, "stip")
arch_enable_external_interrupts(h) == At(h, "enable_external") /\ Go(h, "enable_software") /\ Enable(h, "seip")
\* Only the boot hart is kicked.
Bad_arch_enable_software_interrupts(h) ==
  /\ At(h, "enable_software") /\ Go(h, "arch_first_switch")
  /\ IF h = g_boot_hartid THEN Enable(h, "ssip") ELSE UNCHANGED <<irq_bits, smp, trap, illegal, probe>>
arch_enable_software_interrupts(h) == At(h, "enable_software") /\ Go(h, "arch_first_switch") /\ Enable(h, "ssip")

\* sret to where the frame of the idle thread says, with SPIE set there.
arch_first_switch(h) ==
  /\ At(h, "arch_first_switch") /\ Go(h, idle_sepc[h])
  /\ cur_tf' = [cur_tf EXCEPT ![h] = "idle"]
  /\ sie' = [sie EXCEPT ![h] = TRUE]
  /\ UNCHANGED <<smp, stvec, idle_sepc, boot_enabled, boot_pending, illegal, probe>>

----------------------------------------------------------------------------
(* The boot hart.                                                          *)

Initialise(h, here, what, there) ==
  /\ At(h, here) /\ Go(h, there)
  /\ ready' = ready \cup what
  /\ UNCHANGED <<g_boot_hartid, smp_boot_done, online, other, hsm, irq_bits, illegal>>

call_platform_init(h) ==
  /\ Initialise(h, "platform_init", {"dtb", "uart", "plic"}, "platform_boot_hart_init")
  /\ UNCHANGED <<trap, probe>>
\* From here on a character received is an interrupt for the boot hart.
call_platform_boot_hart_init(h) ==
  /\ Initialise(h, "platform_boot_hart_init", {"handlers"}, IF "dtb" \in ready THEN "trap_init" ELSE "panic")
  /\ UNCHANGED <<trap, probe>>
trap_install_bootstrap_tf(h) ==
  /\ At(h, "trap_install_bootstrap_tf") /\ Go(h, "probe_enter")
  /\ cur_tf' = [cur_tf EXCEPT ![h] = "bootstrap"]
  /\ UNCHANGED <<smp, stvec, idle_sepc, irq_bits, illegal, probe>>
\* The threads are set up when the first one is created.
Bad_time_init(h) == Initialise(h, "time_init", {"time"}, "set_smp_boot_done") /\ UNCHANGED <<trap, probe>>
time_init(h) == Initialise(h, "time_init", {"time"}, "threads_init") /\ UNCHANGED <<trap, probe>>
\* The frames of all idle threads resume at idle_main.
threads_init(h) ==
  /\ Initialise(h, "threads_init", {"threads"}, "set_smp_boot_done")
  /\ idle_sepc' = [g \in HartId |-> "idle_main"]
  /\ UNCHANGED <<stvec, cur_tf, probe>>

set_smp_boot_done(h) ==
  /\ At(h, "set_smp_boot_done") /\ Go(h, "start_other_harts")
  /\ smp_boot_done' = TRUE /\ other' = HartId \ {h}
  /\ UNCHANGED <<g_boot_hartid, online, ready, hsm, trap, irq_bits, illegal, probe>>

\* sbi_hart_start for the next hart; an error is logged, and waited out too.
start_other_harts(h) ==
  /\ At(h, "start_other_harts")
  /\ IF other = {} THEN Go(h, "cpu_enter_idle") /\ UNCHANGED hsm
     ELSE /\ Go(h, "wait_online")
          /\ \E result \in {"START_PENDING", "STOPPED"} : hsm' = [hsm EXCEPT ![Min(other)] = result]
  /\ UNCHANGED <<g_boot_hartid, smp_boot_done, online, ready, other, trap, irq_bits, illegal, probe>>

\* A hart that did not come is started again.
Bad_wait_online(h) ==
  /\ At(h, "wait_online") /\ Go(h, "start_other_harts")
  /\ other' = other \ ({Min(other)} \cap online)
  /\ UNCHANGED <<g_boot_hartid, smp_boot_done, online, ready, hsm, trap, irq_bits, illegal, probe>>
\* The loop ends when the hart is online or, at any time, because the 100
\* slices are over.
wait_online(h) ==
  /\ At(h, "wait_online") /\ Go(h, "start_other_harts")
  /\ other' = other \ {Min(other)}
  /\ UNCHANGED <<g_boot_hartid, smp_boot_done, online, ready, hsm, trap, irq_bits, illegal, probe>>

----------------------------------------------------------------------------
(* probe_privileged_isa: an instruction the core does not have traps, and  *)
(* the handler notes it and steps over it.                                 *)

ProbeStep == UNCHANGED <<smp, stvec, idle_sepc, irq_bits, illegal>>

probe_enter(h) ==
  /\ At(h, "probe_enter") /\ Go(h, "probe_clear") /\ cur_tf' = [cur_tf EXCEPT ![h] = "probe"]
  /\ ProbeStep /\ UNCHANGED probe

\* trap_illegal_probe_clear and trap_illegal_probe_enable; satp is only
\* written when it could be read.
probe_clear(h) ==
  /\ At(h, "probe_clear")
  /\ IF probe.i = 4 /\ probe.hit
     THEN /\ Go(h, "probe_clear")
          /\ probe' = [probe EXCEPT !.i = 5, !.verdict = Append(@, "SKIP")]
     ELSE /\ Go(h, "probe_insn")
          /\ probe' = [probe EXCEPT !.hit = FALSE, !.enabled = TRUE]
  /\ ProbeStep /\ UNCHANGED cur_tf

\* The instruction is executed; the handler of trap_entry_c for
\* EXC_ILLEGAL_INSTR is run for one that is illegal.
probe_insn(h) ==
  /\ At(h, "probe_insn")
  /\ IF Probed[probe.i] \notin illegal THEN Go(h, "probe_log") /\ UNCHANGED probe
     ELSE IF h \notin stvec \/ cur_tf[h] = "none" THEN Go(h, "no_tf") /\ UNCHANGED probe
     ELSE IF ~probe.enabled THEN Go(h, "panic") /\ UNCHANGED probe
     ELSE Go(h, "probe_log") /\ probe' = [probe EXCEPT !.hit = TRUE]
  /\ ProbeStep /\ UNCHANGED cur_tf

\* The verdict; after the last one probe_exit restores cur_tf, and
\* probe_privileged_isa returns.  If an instruction trapped, the handler ran
\* over the frame that holds its return address: a build that has inlined
\* the function (-flto) goes on, one that has not (-fno-inline) goes astray.
probe_log(h) ==
  LET last == probe.i = Len(Probed)
      verdicts == Append(probe.verdict, IF probe.hit THEN "ILLEGAL" ELSE "OK")
      trapped == \E i \in DOMAIN verdicts : verdicts[i] = "ILLEGAL"
  IN  /\ At(h, "probe_log")
      /\ \/ ~last /\ Go(h, "probe_clear")
         \/ last /\ Go(h, "time_init")
         \/ last /\ trapped /\ Go(h, "astray")
      /\ probe' = [probe EXCEPT !.enabled = FALSE, !.i = @ + 1, !.verdict = verdicts]
      /\ cur_tf' = [cur_tf EXCEPT ![h] = IF last THEN "bootstrap" ELSE @]
      /\ ProbeStep

----------------------------------------------------------------------------
(* A secondary hart.                                                       *)

\* External: the firmware starts a hart some time after it was asked to.
hart_starts(h) ==
  /\ hsm[h] = "START_PENDING" /\ At(h, "parked") /\ Go(h, "per_hart_start")
  /\ hsm' = [hsm EXCEPT ![h] = "STARTED"]
  /\ UNCHANGED <<g_boot_hartid, smp_boot_done, online, ready, other, trap, irq_bits, illegal, probe>>

wait_for_smp_boot_done(h) ==
  /\ At(h, "wait_for_smp_boot_done") /\ smp_boot_done /\ Go(h, "platform_secondary_hart_init")
  /\ UNCHANGED <<smp, trap, irq_bits, illegal, probe>>

call_platform_secondary_hart_init(h) ==
  /\ At(h, "platform_secondary_hart_init") /\ Go(h, IF "dtb" \in ready THEN "trap_init" ELSE "panic")
  /\ UNCHANGED <<smp, trap, irq_bits, illegal, probe>>

----------------------------------------------------------------------------
(* Interrupts, and the threads.                                            *)

\* External: the timer of the boot hart, once armed, and received characters.
irq_raised(h, i) ==
  /\ h = g_boot_hartid /\ i \notin boot_pending[h]
  /\ \/ i = "stip" /\ cur_tf[h] \in {"idle", "thread"}
     \/ i = "seip" /\ "handlers" \in ready
  /\ boot_pending' = [boot_pending EXCEPT ![h] = @ \cup {i}]
  /\ UNCHANGED <<boot_pc, smp, trap, sie, boot_enabled, illegal, probe>>

\* trap_entry: the context goes to the frame of cur_tf (of frames other than
\* those of idle threads nothing is kept).  The handler clears the interrupt;
\* all but that of the UART call schedule, which goes on with a thread, or with
\* the idle thread where its frame says.  The handler runs over the frames of
\* cpu_enter_idle too, which keeps what it still needs in registers, and so in
\* the trap frame, and never returns.
interrupt(h, i) ==
  /\ i \in boot_pending[h] \cap boot_enabled[h] /\ sie[h] /\ boot_pc[h] \notin {"no_tf", "panic"}
  /\ IF h \notin stvec \/ cur_tf[h] = "none"
     THEN Go(h, "no_tf") /\ UNCHANGED <<boot_pending, trap>>
     ELSE \E next \in IF i = "seip" THEN {cur_tf[h]} ELSE {"idle", "thread"} :
            /\ boot_pending' = [boot_pending EXCEPT ![h] = @ \ {i}]
            /\ idle_sepc' = [idle_sepc EXCEPT ![h] = IF cur_tf[h] = "idle" THEN boot_pc[h] ELSE @]
            /\ cur_tf' = [cur_tf EXCEPT ![h] = next]
            /\ Go(h, IF next = "thread" THEN "thread" ELSE idle_sepc'[h])
            /\ UNCHANGED stvec
  /\ UNCHANGED <<smp, sie, boot_enabled, illegal, probe>>

\* A thread makes another one runnable on hart g (smp_kick_hart).
smp_kick_hart(h, g) ==
  /\ At(h, "thread") /\ g # h /\ smp_boot_done /\ g \in online
  /\ boot_pending' = [boot_pending EXCEPT ![g] = @ \cup {"ssip"}]
  /\ UNCHANGED <<boot_pc, smp, trap, sie, boot_enabled, illegal, probe>>

\* The last thread of a hart blocks or ends.
schedule(h) ==
  /\ At(h, "thread") /\ Go(h, idle_sepc[h])
  /\ cur_tf' = [cur_tf EXCEPT ![h] = "idle"]
  /\ UNCHANGED <<smp, stvec, idle_sepc, irq_bits, illegal, probe>>

Code(h) ==
  \/ _start(h) \/ per_hart_start(h) \/ cpu_init_this_hart(h) \/ kernel_main(h) \/ trap_init(h) \/ cpu_enter_idle(h)
  \/ arch_enable_timer_interrupts(h) \/ arch_enable_external_interrupts(h)
  \/ arch_enable_software_interrupts(h) \/ arch_first_switch(h)
  \/ call_platform_init(h) \/ call_platform_boot_hart_init(h) \/ trap_install_bootstrap_tf(h)
  \/ time_init(h) \/ threads_init(h) \/ set_smp_boot_done(h) \/ start_other_harts(h) \/ wait_online(h)
  \/ probe_enter(h) \/ probe_clear(h) \/ probe_insn(h) \/ probe_log(h)
  \/ wait_for_smp_boot_done(h) \/ call_platform_secondary_hart_init(h)

BootNext == \E h \in HartId :
  \/ Code(h) \/ hart_starts(h) \/ schedule(h)
  \/ \E i \in Irqs : irq_raised(h, i) \/ interrupt(h, i)
  \/ \E g \in HartId : smp_kick_hart(h, g)

\* A hart goes on executing, and takes an interrupt that it lets through.
\* Nothing is assumed of the firmware: a hart may never start.
BootFairness == \A h \in HartId : WF_boot_vars(Code(h)) /\ \A i \in Irqs : WF_boot_vars(interrupt(h, i))
BootSpec == BootInit /\ [][BootNext]_boot_vars /\ BootFairness

----------------------------------------------------------------------------
\* No trap is taken before there is a vector and a frame to save the context
\* in, where trap_entry could only spin in .Lno_tf; and nothing panics on the
\* way up.
TrapHasFrame == \A h \in HartId : boot_pc[h] \notin {"no_tf", "panic"}

\* What the boot hart sets up is there before another hart, or the scheduler,
\* uses it: a hart whose frame is that of a thread finds the threads, a
\* secondary hart everything, and the UART's interrupt finds its handler.
InitBeforeUse ==
  \A h \in HartId :
    /\ cur_tf[h] \in {"idle", "thread"} => "threads" \in ready /\ idle_sepc[h] # "zero"
    /\ h \in online \ {g_boot_hartid} /\ g_boot_hartid # NoHart => {"dtb", "plic", "handlers", "time", "threads"} \subseteq ready
    /\ "seip" \in boot_enabled[h] => "handlers" \in ready

\* What is logged about an instruction is whether this core has it, whatever
\* was found about the ones before; satp is not written if it cannot be read.
ProbeVerdicts ==
  \A i \in DOMAIN probe.verdict :
    probe.verdict[i] = IF Probed[i] = "csrw satp" /\ "csrr satp" \in illegal THEN "SKIP"
                       ELSE IF Probed[i] \in illegal THEN "ILLEGAL" ELSE "OK"

\* On a core that has all the instructions probed no hart loses its stack.
StackKept == \A h \in HartId : boot_pc[h] = "astray" => illegal # {}

\* Coming up is safe: traps find a frame, users find what they use initialised,
\* the log tells the truth about the core and only a probe that trapped can
\* cost the boot hart its stack (kernel_main).
BootSafe == TrapHasFrame /\ InitBeforeUse /\ ProbeVerdicts /\ StackKept

\* The boot hart gets to schedule threads at its timer's interrupts, even if
\* other harts fail to start or never come online, unless a trap of the probe
\* made it lose its stack.
BootFinishes ==
  <>(\E h \in HartId :
       \/ g_boot_hartid = h /\ sie[h] /\ "stip" \in boot_enabled[h] /\ cur_tf[h] \in {"idle", "thread"}
       \/ boot_pc[h] = "astray")

\* An IPI sent to a secondary hart that is online is taken, also when the hart
\* is still on its way to idle: smp_kick_hart relies on it, for these harts
\* have no timer.
KickTaken ==
  \A h \in HartId : (h # g_boot_hartid /\ "ssip" \in boot_pending[h]) ~> ("ssip" \notin boot_pending[h])
=============================================================================

----------------------------- MODULE MCMachine -----------------------------
(***************************************************************************)
(* One small instance each of Irq.tla, Boot.tla, Log.tla and Shell.tla for *)
(* TLC.  They share no state, so they are not interleaved: unit says which *)
(* of them a behaviour is about, and the others rest in an initial state.  *)
(***************************************************************************)
EXTENDS Irq, Boot, Log, Shell

CONSTANTS x, y  \* characters of the log

\* With a line buffer of 4 characters: a line that leaves room for its end of
\* line, and one that is cut and is longer than the ring.
MCBodies == {<<x>>, <<y, x, y, x>>}

\* mon start without a count, and with one that is counted down over 1.  A
\* monitor started with 0 does not end, see MCShell.
MCCounts == {-1, 2}

ASSUME MachineAssumption == BootAssumption /\ LogAssumption

VARIABLE unit
machine_vars == <<unit, vars, boot_vars, log_vars, shell_vars>>

----------------------------------------------------------------------------
MachineInit ==
  /\ Init /\ BootInit /\ LoggingInit /\ ShellInit
  /\ unit \in {"irq", "boot", "log", "shell"}
  /\ unit # "irq" => uart_irq = 0
  /\ unit # "boot" => illegal = {} /\ boot_pc[0] # "parked" /\ ~smp_boot_done /\ online = {}
  /\ unit # "log" => s_log_level = 1

MachineNext ==
  \/ unit = "irq" /\ Next /\ UNCHANGED <<unit, boot_vars, log_vars, shell_vars>>
  \/ unit = "boot" /\ BootNext /\ UNCHANGED <<unit, vars, log_vars, shell_vars>>
  \/ unit = "log" /\ LoggingNext /\ UNCHANGED <<unit, vars, boot_vars, shell_vars>>
  \/ unit = "shell" /\ ShellNext /\ UNCHANGED <<unit, vars, boot_vars, log_vars>>

\* The fairness of the four specifications, each for its own behaviours.
MachineFairness ==
  /\ WF_vars(unit = "irq" /\ gateway) /\ WF_vars(unit = "irq" /\ SetUp)
  /\ WF_vars(unit = "irq" /\ Handling)
  /\ \A h \in HartId : WF_boot_vars(unit = "boot" /\ Code(h))
  /\ \A h \in HartId, i \in Irqs : WF_boot_vars(unit = "boot" /\ interrupt(h, i))
  /\ \A h \in Logger : WF_log_vars(unit = "log" /\ Step(h))
  /\ \A t \in User : WF_shell_vars(unit = "shell" /\ UserStep(t))

MachineSpec == MachineInit /\ [][MachineNext]_machine_vars /\ MachineFairness

\* BootFinishes, of the behaviours that are about Boot: the boot hart gets to
\* schedule threads at its timer's interrupts, even if other harts fail to
\* start or never come online (start_other_harts), unless a trap of the probe
\* cost it its stack.
BootCompletes == unit = "boot" => BootFinishes

\* CommandsEnd, of the behaviours that are about Shell: every command comes to
\* an end, also a monitor with a count, and no shell is the last one
\* (shell_main, user_main, monitor_main).
ProgramsEnd == unit = "shell" => CommandsEnd
=============================================================================

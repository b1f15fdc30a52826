----------------------------- MODULE BootProofs -----------------------------
(***************************************************************************)
(* Coming up is safe, for any number of harts, any core and any answers of *)
(* the firmware.  The inductive invariant says where each hart can be:     *)
(* before _start nothing but that one hart is there (Cold); before         *)
(* smp_boot_done one hart alone is not parked, and what it has initialised *)
(* is known from its boot_pc; a hart that takes interrupts is past         *)
(* cpu_enter_idle, so its vector is set, its frame is that of its idle     *)
(* thread or of a thread, and the frame of its idle thread resumes at a    *)
(* place that the hart may go back to.                                     *)
(***************************************************************************)
EXTENDS Boot, SequenceTheorems, TLAPS

----------------------------------------------------------------------------
(* The inductive invariant.                                                *)

\* Before the election of the boot hart, and where parked harts start.
PrePc == {"parked", "per_hart_start", "kernel_main", "elect"}
\* The boot hart up to set_smp_boot_done, and from there on.
EarlyPc == {"platform_init", "platform_boot_hart_init", "trap_init", "trap_install_bootstrap_tf",
            "probe_enter", "probe_clear", "probe_insn", "probe_log", "time_init", "threads_init",
            "set_smp_boot_done", "astray"}
LatePc == {"start_other_harts", "wait_online", "cpu_enter_idle", "enable_timer",
   "enable_external",
           "enable_software", "arch_first_switch", "idle_main", "thread"}
SecondaryPc == PrePc \cup
  {"wait_for_smp_boot_done", "platform_secondary_hart_init", "trap_init", "cpu_enter_idle",
   "enable_software", "arch_first_switch", "idle_main", "thread"}
\* Where stvec is not set yet.
NoVectorPc == PrePc \cup
  {"platform_init", "platform_boot_hart_init", "wait_for_smp_boot_done",
   "platform_secondary_hart_init", "trap_init"}
\* Where an interrupt may find the idle thread of h, and so where it resumes.
Resume(h) == {"arch_first_switch", "idle_main"}
             \cup (IF h = g_boot_hartid THEN {"enable_external", "enable_software"} ELSE {})
All == {"dtb", "plic", "handlers", "time", "threads"}

ProbeRecord == [i : 1 .. Len(Probed) + 1, enabled : BOOLEAN, hit : BOOLEAN,
                verdict : Seq({"OK", "ILLEGAL", "SKIP"})]

\* The types; no hart has panicked or spins without a frame.
TypeOK ==
  /\ boot_pc \in [HartId -> PrePc \cup EarlyPc \cup LatePc \cup SecondaryPc]
  /\ g_boot_hartid \in HartId \cup {NoHart} /\ smp_boot_done \in BOOLEAN
  /\ cur_tf \in [HartId -> {"none", "bootstrap", "probe", "idle", "thread"}]
  /\ idle_sepc \in [HartId -> {"zero"} \cup LatePc]
  /\ sie \in [HartId -> BOOLEAN]
  /\ boot_enabled \in [HartId -> SUBSET Irqs] /\ boot_pending \in [HartId -> SUBSET Irqs]
  /\ hsm \in [HartId -> {"STOPPED", "START_PENDING", "STARTED"}]
  /\ probe \in ProbeRecord

\* The boot hart is elected once, and no other hart comes onto its path.
Election ==
  /\ g_boot_hartid = NoHart => ~smp_boot_done /\ \A h \in HartId : boot_pc[h] \in PrePc
  /\ g_boot_hartid # NoHart => boot_pc[g_boot_hartid] \in IF smp_boot_done THEN LatePc ELSE EarlyPc
  /\ \A h \in HartId : h # g_boot_hartid => boot_pc[h] \in SecondaryPc

\* Up to set_smp_boot_done one hart runs, and no other was asked to start.
Alone ==
  ~smp_boot_done =>
    /\ \A h \in HartId : hsm[h] = "STOPPED"
    /\ \A h, g \in HartId : boot_pc[h] # "parked" /\ boot_pc[g] # "parked" => h = g

\* Only a hart that has started is online.
Online == \A h \in online : h \in HartId /\ boot_pc[h] # "parked"

\* What is initialised when the boot hart is where it is.
Staged ==
  /\ smp_boot_done => All \subseteq ready
  /\ g_boot_hartid # NoHart /\ ~smp_boot_done =>
       LET at == boot_pc[g_boot_hartid]
       IN  /\ at # "platform_init" => {"dtb", "plic"} \subseteq ready
           /\ at \notin {"platform_init", "platform_boot_hart_init"} => "handlers" \in ready
           /\ at \in {"threads_init", "set_smp_boot_done"} => "time" \in ready
           /\ at = "set_smp_boot_done" =>
                "threads" \in ready /\ \A h \in HartId : idle_sepc[h] = "idle_main"

\* The vector, the frame and the interrupts of hart h.
FrameOf(h) ==
  /\ boot_pc[h] \notin NoVectorPc => h \in stvec
  /\ boot_pc[h] \in Resume(h) \cup {"enable_timer", "enable_software"} => cur_tf[h] = "idle"
  /\ boot_pc[h] = "thread" => cur_tf[h] = "thread"
  /\ boot_pc[h] \in {"probe_clear", "probe_insn", "probe_log"} => cur_tf[h] = "probe"
  /\ cur_tf[h] \in {"idle", "thread"} => smp_boot_done
  /\ smp_boot_done => idle_sepc[h] \in Resume(h)
  /\ sie[h] => boot_pc[h] \in Resume(h) \cup {"thread"}
  /\ boot_enabled[h] # {} => smp_boot_done

Frames == \A h \in HartId : FrameOf(h)

\* Where the probe is, and what its flags mean there.
Probing ==
  /\ Len(probe.verdict) = probe.i - 1
  /\ g_boot_hartid = NoHart => probe.i = 1
  /\ g_boot_hartid # NoHart =>
       LET at == boot_pc[g_boot_hartid]
       IN  /\ at \in {"platform_init", "platform_boot_hart_init", "trap_init",
                      "trap_install_bootstrap_tf", "probe_enter"} => probe.i = 1
           /\ at \in {"probe_clear", "probe_insn", "probe_log"} => probe.i <= Len(Probed)
           /\ at = "probe_clear" /\ probe.i = 4 => (probe.hit <=> "csrr satp" \in illegal)
           /\ at \in {"probe_insn", "probe_log"} /\ probe.i = 4 => "csrr satp" \notin illegal
           /\ at = "probe_insn" => probe.enabled /\ ~probe.hit
           /\ at = "probe_log" => (probe.hit <=> Probed[probe.i] \in illegal)
           /\ at = "astray" => illegal # {}

IInv == TypeOK /\ Election /\ Alone /\ Online /\ Staged /\ Frames /\ Probing /\ ProbeVerdicts

\* Before _start: one hart is there, and nothing can be said of the BSS.
Cold ==
  /\ \E b \in HartId : boot_pc = [h \in HartId |-> IF h = b THEN "_start" ELSE "parked"]
  /\ g_boot_hartid = NoHart
  /\ hsm = [h \in HartId |-> "STOPPED"] /\ stvec = {}
  /\ cur_tf = [h \in HartId |-> "garbage"]
  /\ sie = [h \in HartId |-> FALSE]
  /\ boot_enabled = [h \in HartId |-> {}] /\ boot_pending = [h \in HartId |-> {}]
  /\ probe = [i |-> 1, enabled |-> FALSE, hit |-> FALSE, verdict |-> <<>>]

----------------------------------------------------------------------------
(* The probe.                                                              *)

\* The verdict on instruction k that the log should hold.
Verdict(k) == IF Probed[k] = "csrw satp" /\ "csrr satp" \in illegal THEN "SKIP"
              ELSE IF Probed[k] \in illegal THEN "ILLEGAL" ELSE "OK"

\* The probed instructions, one by one.
LEMMA ProbedLen == Len(Probed) = 5
BY DEF Probed

\* One by one.
LEMMA ProbedIs ==
  /\ Len(Probed) = 5
  /\ Probed[1] = "sfence.vma" /\ Probed[2] = "sfence.vm" /\ Probed[3] = "csrr satp"
  /\ Probed[4] = "csrw satp" /\ Probed[5] = "fence.i"
BY DEF Probed

\* The type of the probe.
LEMMA ProbeType ==
  ASSUME TypeOK
  PROVE  /\ probe.i \in 1 .. 6 /\ probe.enabled \in BOOLEAN /\ probe.hit \in BOOLEAN
         /\ probe.verdict \in Seq({"OK", "ILLEGAL", "SKIP"})
         /\ probe = [i |-> probe.i, enabled |-> probe.enabled, hit |-> probe.hit,
            verdict |-> probe.verdict]
<1>1. probe \in [i : 1 .. 5 + 1, enabled : BOOLEAN, hit : BOOLEAN, verdict : Seq({"OK",
   "ILLEGAL", "SKIP"})]
  BY ProbedIs, Zenon DEF TypeOK, ProbeRecord
<1> QED
  BY <1>1

\* Its first field alone.
LEMMA ProbeIndex ==
  ASSUME TypeOK
  PROVE  probe.i \in Int /\ 1 <= probe.i /\ probe.i <= 6
<1>1. probe.i \in 1 .. 6
  BY ProbeType
<1> QED
  BY <1>1

\* Fields of these types make a probe.
LEMMA ProbeMake ==
  ASSUME NEW p, NEW i \in 1 .. 6, NEW e \in BOOLEAN, NEW t \in BOOLEAN,
         NEW v \in Seq({"OK", "ILLEGAL", "SKIP"}),
         p = [i |-> i, enabled |-> e, hit |-> t, verdict |-> v]
  PROVE  p \in ProbeRecord
<1>1. p \in [i : 1 .. 5 + 1, enabled : BOOLEAN, hit : BOOLEAN, verdict : Seq({"OK", "ILLEGAL",
   "SKIP"})]
  BY SMT
<1> QED
  BY <1>1, ProbedIs, Zenon DEF ProbeRecord

\* A right verdict after right verdicts.
LEMMA AppendVerdict ==
  ASSUME NEW v \in {"OK", "ILLEGAL", "SKIP"}, TypeOK, ProbeVerdicts, Probing,
         probe'.verdict = Append(probe.verdict, v), illegal' = illegal,
         v = Verdict(probe.i)
  PROVE  /\ ProbeVerdicts' /\ probe'.verdict \in Seq({"OK", "ILLEGAL", "SKIP"})
         /\ Len(probe'.verdict) = probe.i
<1> DEFINE old == probe.verdict
           V == {"OK", "ILLEGAL", "SKIP"}
<1>1. probe.verdict \in Seq({"OK", "ILLEGAL",
   "SKIP"}) /\ probe.i \in Nat /\ Len(probe.verdict) = probe.i - 1
  <2>1. Len(probe.verdict) = probe.i - 1
    BY DEF Probing
  <2> QED
    BY <2>1, ProbeType
<1>2. \A k \in 1 .. Len(probe.verdict) : probe.verdict[k] = Verdict(k)
  <2>1. DOMAIN probe.verdict = 1 .. Len(probe.verdict)
    BY <1>1
  <2> QED
    BY <2>1, Zenon DEF ProbeVerdicts, Verdict
<1>3. /\ probe'.verdict \in Seq({"OK", "ILLEGAL", "SKIP"}) /\ Len(probe'.verdict) = probe.i
      /\ \A k \in 1 .. Len(probe.verdict) : probe'.verdict[k] = probe.verdict[k]
      /\ probe'.verdict[probe.i] = v
  BY <1>1
<1>4. \A k \in DOMAIN probe'.verdict : probe'.verdict[k] = Verdict(k)
  <2>1. DOMAIN probe'.verdict = 1 .. probe.i
    BY <1>1, <1>3
  <2>2. ASSUME NEW k \in 1 .. probe.i
        PROVE  probe'.verdict[k] = Verdict(k)
    BY <1>1, <1>2, <1>3
  <2> QED
    BY <2>1, <2>2
<1> QED
  BY <1>3, <1>4 DEF ProbeVerdicts, Verdict

\* Steps that leave the probe alone, and end outside of it.
LEMMA ProbeApart ==
  ASSUME IInv, probe' = probe, illegal' = illegal,
         g_boot_hartid' = NoHart => probe.i = 1,
         g_boot_hartid' # NoHart =>
           /\ boot_pc'[g_boot_hartid'] \notin {"probe_clear", "probe_insn", "probe_log", "astray"}
           /\ \/ probe.i = 1
              \/ boot_pc'[g_boot_hartid'] \notin {"platform_init", "platform_boot_hart_init",
                 "trap_init",
                                           "trap_install_bootstrap_tf", "probe_enter"}
  PROVE  Probing' /\ ProbeVerdicts'
<1>1. Probing'
  BY DEF IInv, Probing
<1>2. ProbeVerdicts'
  BY DEF IInv, ProbeVerdicts
<1> QED
  BY <1>1, <1>2

\* What the probe's steps have in common: they are the boot hart's, in the
\* first half of the boot, with the other harts parked.
LEMMA ProbeAlone ==
  ASSUME BootAssumption, IInv, NEW h \in HartId, boot_pc[h] \in {"probe_enter", "probe_clear",
     "probe_insn", "probe_log"}
  PROVE  /\ h = g_boot_hartid /\ h # NoHart /\ ~smp_boot_done
         /\ \A g \in HartId : g # h => boot_pc[g] = "parked"
<1>1. h = g_boot_hartid /\ h # NoHart /\ ~smp_boot_done
  BY DEF IInv, Election, TypeOK, BootAssumption, NoHart, SecondaryPc, PrePc, LatePc
<1>2. \A g \in HartId : g # h => boot_pc[g] = "parked"
  BY <1>1 DEF IInv, Alone, TypeOK
<1> QED
  BY <1>1, <1>2

\* A step within the probe keeps all but what says where the probe is.
LEMMA ProbeStepKeeps ==
  ASSUME BootAssumption, IInv, NEW h \in HartId, NEW there \in {"probe_clear", "probe_insn",
     "probe_log", "time_init", "astray"},
         boot_pc[h] \in {"probe_clear", "probe_insn", "probe_log"}, Go(h, there), ProbeStep,
         cur_tf' = [cur_tf EXCEPT ![h] = IF there \in {"time_init", "astray"} THEN "bootstrap"
                                         ELSE cur_tf[h]],
         probe' \in ProbeRecord,
         Probing', ProbeVerdicts'
  PROVE  IInv'
<1>a. /\ h = g_boot_hartid /\ h # NoHart /\ ~smp_boot_done
      /\ \A g \in HartId : g # h => boot_pc[g] = "parked"
  BY ProbeAlone
<1> USE DEF IInv, Go, ProbeStep, smp, irq_bits
<1>1. TypeOK'
  <2>1. boot_pc' \in [HartId -> PrePc \cup EarlyPc \cup LatePc \cup SecondaryPc]
    BY DEF TypeOK, EarlyPc
  <2>2. cur_tf' \in [HartId -> {"none", "bootstrap", "probe", "idle", "thread"}]
    BY DEF TypeOK
  <2> QED
    BY <2>1, <2>2 DEF TypeOK
<1>2. Election'
  BY <1>a DEF TypeOK, Election, EarlyPc
<1>3. Alone'
  BY <1>a DEF TypeOK, Alone
<1>4. Online'
  BY DEF TypeOK, Online
<1>5. Staged'
  BY <1>a DEF TypeOK, Staged
<1>6. Frames'
  BY <1>a DEF TypeOK, Frames, FrameOf, Resume, NoVectorPc, PrePc
<1> QED
  BY <1>1, <1>2, <1>3, <1>4, <1>5, <1>6

\* Preparing a probe, or skipping it, keeps the invariant.
LEMMA Keeps_probe_clear ==
  ASSUME BootAssumption, IInv, NEW h \in HartId, probe_clear(h)
  PROVE  IInv'
<1>a. h = g_boot_hartid /\ h # NoHart
  BY ProbeAlone DEF probe_clear, At
<1>b. /\ boot_pc[h] = "probe_clear" /\ ProbeStep /\ illegal' = illegal /\ g_boot_hartid' = h
      /\ cur_tf' = [cur_tf EXCEPT ![h] = cur_tf[h]]
  BY <1>a DEF probe_clear, At, ProbeStep, smp, IInv, TypeOK
<1>c. /\ probe.i <= 5 /\ (probe.i = 4 => (probe.hit <=> "csrr satp" \in illegal))
      /\ Len(probe.verdict) = probe.i - 1
  BY <1>a, <1>b, ProbedIs DEF IInv, Probing
<1>d. ProbeVerdicts /\ TypeOK /\ Probing
  BY DEF IInv
<1>1. CASE probe.i = 4 /\ probe.hit
  <2>1. Go(h, "probe_clear") /\ probe' = [probe EXCEPT !.i = 5, !.verdict = Append(probe.verdict,
     "SKIP")]
    BY <1>1 DEF probe_clear
  <2>2. /\ probe'.i = 5 /\ probe'.enabled = probe.enabled /\ probe'.hit = probe.hit
        /\ probe'.verdict = Append(probe.verdict, "SKIP")
    BY <2>1, <1>d, ProbeType
  <2>3. Verdict(probe.i) = "SKIP"
    BY <1>1, <1>c, ProbedIs DEF Verdict
  <2>4. /\ ProbeVerdicts' /\ probe'.verdict \in Seq({"OK", "ILLEGAL", "SKIP"})
        /\ Len(probe'.verdict) = probe.i
    BY <2>2, <2>3, <1>b, <1>d, AppendVerdict
  <2>5. probe' \in ProbeRecord
    <3>1. probe' = [i |-> 5, enabled |-> probe.enabled, hit |-> probe.hit,
       verdict |-> probe'.verdict]
      BY <2>1, <2>2, <1>d, ProbeType
    <3> QED
      BY <3>1, <2>4, <1>d, ProbeType, ProbeMake
  <2>6. boot_pc'[g_boot_hartid'] = "probe_clear"
    BY <2>1, <1>a, <1>b, <1>d DEF Go, TypeOK
  <2>7. Probing'
    <3>1. probe.i = 4 /\ 5 - 1 = 4 /\ 5 # 4 /\ 5 <= Len(Probed)
      BY ONLY <1>1, ProbedLen
    <3> QED
      BY ONLY <3>1, <2>2, <2>4, <2>6, <1>a, <1>b DEF Probing
  <2> QED
    BY <2>1, <2>4, <2>5, <2>7, <1>b, ProbeStepKeeps
<1>2. CASE ~(probe.i = 4 /\ probe.hit)
  <2>1. Go(h, "probe_insn") /\ probe' = [probe EXCEPT !.hit = FALSE, !.enabled = TRUE]
    BY <1>2 DEF probe_clear
  <2>2. /\ probe'.i = probe.i /\ probe'.enabled = TRUE /\ probe'.hit = FALSE
        /\ probe'.verdict = probe.verdict
    BY <2>1, <1>d, ProbeType
  <2>4. ProbeVerdicts'
    BY <2>2, <1>b, <1>d DEF ProbeVerdicts
  <2>5. probe' \in ProbeRecord
    <3>1. probe' = [i |-> probe.i, enabled |-> TRUE, hit |-> FALSE, verdict |-> probe.verdict]
      BY <2>1, <1>d, ProbeType
    <3> QED
      BY <3>1, <1>d, ProbeType, ProbeMake
  <2>6. boot_pc'[g_boot_hartid'] = "probe_insn"
    BY <2>1, <1>a, <1>b, <1>d DEF Go, TypeOK
  <2>7. Probing'
    BY ONLY <2>2, <2>6, <1>2, <1>a, <1>b, <1>c, ProbedIs DEF Probing
  <2> QED
    BY <2>1, <2>4, <2>5, <2>7, <1>b, ProbeStepKeeps
<1> QED
  BY <1>1, <1>2

\* The probing instruction keeps the invariant, trap or not.
LEMMA Keeps_probe_insn ==
  ASSUME BootAssumption, IInv, NEW h \in HartId, probe_insn(h)
  PROVE  IInv'
<1>a. h = g_boot_hartid /\ h # NoHart
  BY ProbeAlone DEF probe_insn, At
<1>b. /\ boot_pc[h] = "probe_insn" /\ ProbeStep /\ illegal' = illegal /\ g_boot_hartid' = h
      /\ cur_tf' = [cur_tf EXCEPT ![h] = cur_tf[h]]
  BY <1>a DEF probe_insn, At, ProbeStep, smp, IInv, TypeOK
<1>c. /\ probe.i <= 5 /\ (probe.i = 4 => "csrr satp" \notin illegal)
      /\ Len(probe.verdict) = probe.i - 1
      /\ probe.enabled /\ ~probe.hit
  BY <1>a, <1>b, ProbedIs DEF IInv, Probing
<1>d. ProbeVerdicts /\ TypeOK /\ Probing
  BY DEF IInv
<1>e. h \in stvec /\ cur_tf[h] # "none"
  BY <1>b DEF IInv, Frames, FrameOf, NoVectorPc, PrePc
<1>1. /\ Go(h, "probe_log")
      /\ probe' = [probe EXCEPT !.hit = Probed[probe.i] \in illegal]
  <2>1. CASE Probed[probe.i] \notin illegal
    <3>1. probe.hit = FALSE
      BY <1>c, <1>d, ProbeType
    <3> QED
      BY <2>1, <3>1, <1>d, ProbeType DEF probe_insn
  <2>2. CASE Probed[probe.i] \in illegal
    BY <2>2, <1>c, <1>e DEF probe_insn
  <2> QED
    BY <2>1, <2>2
<1>2. /\ probe'.i = probe.i /\ probe'.enabled = probe.enabled
      /\ probe'.hit = (Probed[probe.i] \in illegal)
      /\ probe'.verdict = probe.verdict
  BY <1>1, <1>d, ProbeType
<1>3. ProbeVerdicts'
  BY <1>2, <1>b, <1>d DEF ProbeVerdicts
<1>4. probe' \in ProbeRecord
  <2>1. probe' = [i |-> probe.i, enabled |-> probe.enabled, hit |-> Probed[probe.i] \in illegal,
                  verdict |-> probe.verdict]
    BY <1>1, <1>d, ProbeType
  <2>2. (Probed[probe.i] \in illegal) \in BOOLEAN
    OBVIOUS
  <2> QED
    BY <2>1, <2>2, <1>d, ProbeType, ProbeMake
<1>5. boot_pc'[g_boot_hartid'] = "probe_log"
  BY <1>1, <1>a, <1>b, <1>d DEF Go, TypeOK
<1>6. Probing'
  BY ONLY <1>2, <1>5, <1>a, <1>b, <1>c, ProbedIs DEF Probing
<1> QED
  BY <1>1, <1>3, <1>4, <1>6, <1>b, ProbeStepKeeps

\* Reporting what the probe found keeps the invariant.
LEMMA Keeps_probe_log ==
  ASSUME BootAssumption, IInv, NEW h \in HartId, probe_log(h)
  PROVE  IInv'
<1> DEFINE last == probe.i = Len(Probed)
           v == IF probe.hit THEN "ILLEGAL" ELSE "OK"
           verdicts == Append(probe.verdict, v)
           trapped == \E i \in DOMAIN verdicts : verdicts[i] = "ILLEGAL"
<1>a. h = g_boot_hartid /\ h # NoHart
  BY ProbeAlone DEF probe_log, At
<1>p. PICK there \in {"probe_clear", "time_init", "astray"} :
        /\ Go(h, there) /\ (last <=> there # "probe_clear")
        /\ there = "astray" => trapped
  <2>1. \/ ~last /\ Go(h, "probe_clear")
        \/ last /\ Go(h, "time_init")
        \/ last /\ trapped /\ Go(h, "astray")
    BY Zenon DEF probe_log
  <2> QED
    BY ONLY <2>1
<1>b. /\ boot_pc[h] = "probe_log" /\ ProbeStep /\ illegal' = illegal /\ g_boot_hartid' = h
      /\ cur_tf' = [cur_tf EXCEPT ![h] = IF there \in {"time_init", "astray"} THEN "bootstrap"
                                         ELSE cur_tf[h]]
      /\ Go(h, there)
  <2>1. cur_tf' = [cur_tf EXCEPT ![h] = IF last THEN "bootstrap" ELSE cur_tf[h]]
    BY Zenon DEF probe_log
  <2> QED
    BY <2>1, <1>a, <1>p DEF probe_log, At, ProbeStep, smp
<1>c. /\ probe.i <= 5 /\ (probe.i = 4 => "csrr satp" \notin illegal)
      /\ Len(probe.verdict) = probe.i - 1
      /\ (probe.hit <=> Probed[probe.i] \in illegal)
  BY <1>a, <1>b, ProbedIs DEF IInv, Probing
<1>d. ProbeVerdicts /\ TypeOK /\ Probing
  BY DEF IInv
<1>e. probe.i \in Int /\ 1 <= probe.i /\ probe.i <= 5
  <2>1. probe.i <= 5
    BY <1>c
  <2> QED
    BY ONLY <2>1, <1>d, ProbeIndex
<1>1. probe' = [probe EXCEPT !.enabled = FALSE, !.i = probe.i + 1, !.verdict = verdicts]
  BY DEF probe_log
<1>2. /\ probe'.i = probe.i + 1 /\ probe'.enabled = FALSE /\ probe'.hit = probe.hit
      /\ probe'.verdict = Append(probe.verdict, v)
  BY <1>1, <1>d, ProbeType
<1>3. Verdict(probe.i) = v
  <2>1. probe.i = 1 \/ probe.i = 2 \/ probe.i = 3 \/ probe.i = 4 \/ probe.i = 5
    BY ONLY <1>e
  <2>2. Probed[probe.i] = "csrw satp" => probe.i = 4
    BY <2>1, ProbedIs
  <2> QED
    BY <2>2, <1>c DEF Verdict
<1>4. /\ ProbeVerdicts' /\ probe'.verdict \in Seq({"OK", "ILLEGAL", "SKIP"})
      /\ Len(probe'.verdict) = probe.i
  BY <1>2, <1>3, <1>b, <1>d, AppendVerdict
<1>5. probe' \in ProbeRecord
  <2>1. probe' = [i |-> probe.i + 1, enabled |-> FALSE, hit |-> probe.hit,
     verdict |-> probe'.verdict]
    BY <1>1, <1>2, <1>d, ProbeType
  <2>2. probe.i + 1 \in 1 .. 6
    BY ONLY <1>e
  <2> QED
    BY <2>1, <2>2, <1>4, <1>d, ProbeType, ProbeMake
<1>6. boot_pc'[g_boot_hartid'] = there
  BY <1>a, <1>b, <1>d DEF Go, TypeOK
<1>7. Probing'
  <2>1. probe'.i = 4 => Probed[probe.i] = "csrr satp"
    <3>1. probe.i + 1 = 4 => probe.i = 3
      BY <1>d, ProbeIndex
    <3> QED
      BY <3>1, <1>2, ProbedIs
  <2>2. probe.i # 5 => probe'.i <= 5
    BY ONLY <1>2, <1>e
  <2>3. Len(probe'.verdict) = probe'.i - 1
    BY <1>2, <1>4, <1>d, ProbeIndex
  <2>4. there = "astray" => illegal # {}
    <3>1. SUFFICES ASSUME trapped PROVE illegal # {}
      BY <1>p
    <3>2. PICK i \in DOMAIN probe'.verdict : probe'.verdict[i] = "ILLEGAL"
      BY <3>1, <1>2
    <3>3. Probed[i] \in illegal
      BY <3>2, <1>4, <1>b DEF ProbeVerdicts
    <3> QED
      BY <3>3
  <2> QED
    BY ONLY <2>1, <2>2, <2>3, <2>4, <1>p, <1>2, <1>6, <1>a, <1>b, <1>c, ProbedIs DEF Probing
<1> QED
  BY <1>4, <1>5, <1>7, <1>b, ProbeStepKeeps

----------------------------------------------------------------------------
(* One lemma for each step of a hart.                                      *)

\* A hart announces itself.
LEMMA Keeps_cpu_init_this_hart ==
  ASSUME BootAssumption, IInv, NEW h \in HartId, cpu_init_this_hart(h)
  PROVE  IInv'
<1> USE DEF IInv
<1> USE DEF cpu_init_this_hart, At, Go, smp, irq_bits, trap
<1>1. TypeOK'
  BY DEF TypeOK, PrePc, EarlyPc, LatePc, SecondaryPc, Irqs
<1>2. Election'
  BY DEF TypeOK, Election, PrePc, EarlyPc, LatePc, SecondaryPc, NoHart, BootAssumption, Staged,
     Frames, FrameOf, Resume, Alone, All
<1>3. Alone'
  BY DEF TypeOK, Alone
<1>4. Online'
  BY DEF TypeOK, Online
<1>5. Staged'
  BY DEF TypeOK, Staged
<1>6. Frames'
  BY DEF TypeOK, Election, Staged, Alone, Frames, FrameOf, Resume, PrePc, EarlyPc, LatePc,
     SecondaryPc, NoVectorPc, NoHart
<1>7. Probing'
  <2>1. g_boot_hartid # NoHart => boot_pc'[g_boot_hartid] = boot_pc[g_boot_hartid]
    BY DEF TypeOK, Election, EarlyPc, LatePc
  <2>2. g_boot_hartid' = g_boot_hartid /\ probe' = probe /\ illegal' = illegal
    OBVIOUS
  <2> QED
    BY ONLY <2>1, <2>2, Probing DEF Probing
<1>8. ProbeVerdicts'
  BY DEF ProbeVerdicts
<1> QED
  BY <1>1, <1>2, <1>3, <1>4, <1>5, <1>6, <1>7, <1>8

\* The first hart to get there becomes the boot hart.
LEMMA Keeps_kernel_main ==
  ASSUME BootAssumption, IInv, NEW h \in HartId, kernel_main(h)
  PROVE  IInv'
<1> USE DEF IInv
<1>1. CASE g_boot_hartid = NoHart
  <2> USE DEF kernel_main, At, Go, smp, irq_bits, trap
  <2>1. TypeOK'
    BY <1>1 DEF TypeOK, EarlyPc, LatePc, SecondaryPc
  <2>2. Election'
    BY <1>1 DEF TypeOK, Election, PrePc, EarlyPc, LatePc, SecondaryPc, NoHart, BootAssumption,
       Staged, Frames, FrameOf, Resume, Alone, All
  <2>3. Alone'
    BY <1>1 DEF TypeOK, Alone
  <2>4. Online'
    BY <1>1 DEF TypeOK, Online
  <2>5. Staged'
    BY <1>1 DEF TypeOK, Staged
  <2>6. Frames'
    BY <1>1 DEF TypeOK, Election, Staged, Alone, Frames, FrameOf, Resume, PrePc, EarlyPc, LatePc,
       SecondaryPc, NoVectorPc, NoHart
  <2>7. Probing'
    <3>1. h # NoHart
      BY DEF BootAssumption, NoHart
    <3>2. /\ g_boot_hartid' = h /\ boot_pc'[h] = "platform_init" /\ probe' = probe /\ illegal' = illegal
          /\ probe.i = 1
      BY <1>1 DEF TypeOK, Probing
    <3> QED
      BY <3>1, <3>2, ProbeApart
  <2>8. ProbeVerdicts'
    BY <1>1 DEF ProbeVerdicts
  <2> QED
    BY <2>1, <2>2, <2>3, <2>4, <2>5, <2>6, <2>7, <2>8
<1>2. CASE g_boot_hartid # NoHart
  <2> USE DEF kernel_main, At, Go, smp, irq_bits, trap
  <2>1. TypeOK'
    BY <1>2 DEF TypeOK, EarlyPc, LatePc, SecondaryPc
  <2>2. Election'
    BY <1>2 DEF TypeOK, Election, EarlyPc, LatePc, SecondaryPc
  <2>3. Alone'
    BY <1>2 DEF TypeOK, Alone
  <2>4. Online'
    BY <1>2 DEF TypeOK, Online
  <2>5. Staged'
    BY <1>2 DEF TypeOK, Staged
  <2>6. Frames'
    BY <1>2 DEF TypeOK, Frames, FrameOf, Resume, NoVectorPc
  <2>7. Probing'
    <3>1. h # g_boot_hartid /\ g_boot_hartid' = g_boot_hartid /\ g_boot_hartid \in HartId
      BY <1>2 DEF TypeOK, Election, EarlyPc, LatePc
    <3>2. boot_pc'[g_boot_hartid'] = boot_pc[g_boot_hartid] /\ probe' = probe /\ illegal' = illegal
      BY <3>1, <1>2 DEF TypeOK
    <3> QED
      BY <3>1, <3>2 DEF Probing
  <2>8. ProbeVerdicts'
    BY <1>2 DEF ProbeVerdicts
  <2> QED
    BY <2>1, <2>2, <2>3, <2>4, <2>5, <2>6, <2>7, <2>8
<1> QED
  BY <1>1, <1>2

\* The vector is set.
LEMMA Keeps_trap_init ==
  ASSUME BootAssumption, IInv, NEW h \in HartId, trap_init(h)
  PROVE  IInv'
<1> USE DEF IInv
<1> USE DEF trap_init, At, Go, smp, irq_bits, trap
<1>1. TypeOK'
  BY DEF TypeOK, EarlyPc, LatePc, SecondaryPc
<1>2. Election'
  BY DEF TypeOK, Election, PrePc, EarlyPc, LatePc, SecondaryPc, NoHart, BootAssumption, Staged,
     Frames, FrameOf, Resume, Alone, All
<1>3. Alone'
  BY DEF TypeOK, Alone
<1>4. Online'
  BY DEF TypeOK, Online
<1>5. Staged'
  BY DEF TypeOK, Staged
<1>6. Frames'
  BY DEF TypeOK, Frames, FrameOf, Resume, NoVectorPc
<1>7. Probing'
  <2>1. g_boot_hartid' = g_boot_hartid /\ probe' = probe /\ illegal' = illegal /\ Probing
    OBVIOUS
  <2>2. CASE h = g_boot_hartid
    <3>1. boot_pc'[h] = "trap_install_bootstrap_tf"
      BY <2>2 DEF TypeOK
    <3>2. h # NoHart
      BY DEF BootAssumption, NoHart
    <3>3. boot_pc[h] = "trap_init"
      OBVIOUS
    <3>4. probe.i = 1
      BY ONLY <2>1, <2>2, <3>2, <3>3 DEF Probing
    <3> QED
      BY ONLY <2>1, <2>2, <3>1, <3>2, <3>4, IInv, ProbeApart
  <2>3. CASE h # g_boot_hartid
    <3>1. boot_pc'[g_boot_hartid] = boot_pc[g_boot_hartid] \/ g_boot_hartid = NoHart
      BY <2>3 DEF TypeOK
    <3> QED
      BY ONLY <2>1, <3>1 DEF Probing
  <2> QED
    BY <2>2, <2>3
<1>8. ProbeVerdicts'
  BY DEF ProbeVerdicts
<1> QED
  BY <1>1, <1>2, <1>3, <1>4, <1>5, <1>6, <1>7, <1>8

\* The frame becomes that of the idle thread.
LEMMA Keeps_cpu_enter_idle ==
  ASSUME BootAssumption, IInv, NEW h \in HartId, cpu_enter_idle(h)
  PROVE  IInv'
<1> USE DEF IInv
<1>a. smp_boot_done /\ g_boot_hartid # NoHart
  BY DEF cpu_enter_idle, At, Election, Alone, TypeOK, SecondaryPc, PrePc, EarlyPc
<1>1. CASE h = g_boot_hartid
  <2> USE DEF cpu_enter_idle, At, Go, smp, irq_bits, trap
  <2>1. TypeOK'
    BY <1>a, <1>1 DEF TypeOK, EarlyPc, LatePc, SecondaryPc
  <2>2. Election'
    BY <1>a, <1>1 DEF TypeOK, Election, EarlyPc, LatePc, SecondaryPc
  <2>3. Alone'
    BY <1>a, <1>1 DEF TypeOK, Alone
  <2>4. Online'
    BY <1>a, <1>1 DEF TypeOK, Online
  <2>5. Staged'
    BY <1>a, <1>1 DEF TypeOK, Staged
  <2>6. Frames'
    BY <1>a, <1>1 DEF TypeOK, Election, Staged, Alone, Frames, FrameOf, Resume, PrePc, EarlyPc,
       LatePc, SecondaryPc, NoVectorPc, NoHart
  <2>7. Probing'
    <3>1. /\ g_boot_hartid' = g_boot_hartid /\ g_boot_hartid # NoHart /\ smp_boot_done'
          /\ probe' = probe /\ illegal' = illegal
      BY <1>a, <1>1
    <3>2. boot_pc'[g_boot_hartid'] \in LatePc
      BY <3>1, <2>2 DEF Election
    <3> QED
      BY ONLY <3>1, <3>2, IInv, ProbeApart DEF LatePc
  <2>8. ProbeVerdicts'
    BY <1>a, <1>1 DEF ProbeVerdicts
  <2> QED
    BY <2>1, <2>2, <2>3, <2>4, <2>5, <2>6, <2>7, <2>8
<1>2. CASE h # g_boot_hartid
  <2> USE DEF cpu_enter_idle, At, Go, smp, irq_bits, trap
  <2>1. TypeOK'
    BY <1>a, <1>2 DEF TypeOK, EarlyPc, LatePc, SecondaryPc
  <2>2. Election'
    BY <1>a, <1>2 DEF TypeOK, Election, EarlyPc, LatePc, SecondaryPc
  <2>3. Alone'
    BY <1>a, <1>2 DEF TypeOK, Alone
  <2>4. Online'
    BY <1>a, <1>2 DEF TypeOK, Online
  <2>5. Staged'
    BY <1>a, <1>2 DEF TypeOK, Staged
  <2>6. Frames'
    BY <1>a, <1>2 DEF TypeOK, Election, Staged, Alone, Frames, FrameOf, Resume, PrePc, EarlyPc,
       LatePc, SecondaryPc, NoVectorPc, NoHart
  <2>7. Probing'
    <3>1. /\ g_boot_hartid' = g_boot_hartid /\ g_boot_hartid # NoHart /\ smp_boot_done'
          /\ probe' = probe /\ illegal' = illegal
      BY <1>a, <1>2
    <3>2. boot_pc'[g_boot_hartid'] \in LatePc
      BY <3>1, <2>2 DEF Election
    <3> QED
      BY ONLY <3>1, <3>2, IInv, ProbeApart DEF LatePc
  <2>8. ProbeVerdicts'
    BY <1>a, <1>2 DEF ProbeVerdicts
  <2> QED
    BY <2>1, <2>2, <2>3, <2>4, <2>5, <2>6, <2>7, <2>8
<1> QED
  BY <1>1, <1>2

\* Interrupts are let through, with a vector and a frame there.
LEMMA Keeps_arch_enable_timer_interrupts ==
  ASSUME BootAssumption, IInv, NEW h \in HartId, arch_enable_timer_interrupts(h)
  PROVE  IInv'
<1> USE DEF IInv
<1>a. h = g_boot_hartid /\ h # NoHart /\ smp_boot_done
  BY DEF arch_enable_timer_interrupts, At, Election, TypeOK, BootAssumption, NoHart, SecondaryPc,
     PrePc, EarlyPc
<1> USE DEF arch_enable_timer_interrupts, At, Go, Enable, smp, irq_bits, trap
<1>1. TypeOK'
  BY <1>a DEF TypeOK, PrePc, EarlyPc, LatePc, SecondaryPc, Irqs
<1>2. Election'
  BY <1>a DEF TypeOK, Election, EarlyPc, LatePc, SecondaryPc
<1>3. Alone'
  BY <1>a DEF TypeOK, Alone
<1>4. Online'
  BY <1>a DEF TypeOK, Online
<1>5. Staged'
  BY <1>a DEF TypeOK, Staged
<1>6. Frames'
  BY <1>a DEF TypeOK, Election, Staged, Alone, Frames, FrameOf, Resume, PrePc, EarlyPc, LatePc,
     SecondaryPc, NoVectorPc, NoHart
<1>7. Probing'
  <2>1. /\ g_boot_hartid' = g_boot_hartid /\ g_boot_hartid # NoHart /\ smp_boot_done'
        /\ probe' = probe /\ illegal' = illegal
    BY <1>a
  <2>2. boot_pc'[g_boot_hartid'] \in LatePc
    BY <2>1, <1>2 DEF Election
  <2> QED
    BY ONLY <2>1, <2>2, IInv, ProbeApart DEF LatePc
<1>8. ProbeVerdicts'
  BY <1>a DEF ProbeVerdicts
<1> QED
  BY <1>1, <1>2, <1>3, <1>4, <1>5, <1>6, <1>7, <1>8

\* As before, and the handlers are registered.
LEMMA Keeps_arch_enable_external_interrupts ==
  ASSUME BootAssumption, IInv, NEW h \in HartId, arch_enable_external_interrupts(h)
  PROVE  IInv'
<1> USE DEF IInv
<1>a. h = g_boot_hartid /\ h # NoHart /\ smp_boot_done
  BY DEF arch_enable_external_interrupts, At, Election, TypeOK, BootAssumption, NoHart,
     SecondaryPc, PrePc, EarlyPc
<1> USE DEF arch_enable_external_interrupts, At, Go, Enable, smp, irq_bits, trap
<1>1. TypeOK'
  BY <1>a DEF TypeOK, PrePc, EarlyPc, LatePc, SecondaryPc, Irqs
<1>2. Election'
  BY <1>a DEF TypeOK, Election, EarlyPc, LatePc, SecondaryPc
<1>3. Alone'
  BY <1>a DEF TypeOK, Alone
<1>4. Online'
  BY <1>a DEF TypeOK, Online
<1>5. Staged'
  BY <1>a DEF TypeOK, Staged
<1>6. Frames'
  BY <1>a DEF TypeOK, Election, Staged, Alone, Frames, FrameOf, Resume, PrePc, EarlyPc, LatePc,
     SecondaryPc, NoVectorPc, NoHart
<1>7. Probing'
  <2>1. /\ g_boot_hartid' = g_boot_hartid /\ g_boot_hartid # NoHart /\ smp_boot_done'
        /\ probe' = probe /\ illegal' = illegal
    BY <1>a
  <2>2. boot_pc'[g_boot_hartid'] \in LatePc
    BY <2>1, <1>2 DEF Election
  <2> QED
    BY ONLY <2>1, <2>2, IInv, ProbeApart DEF LatePc
<1>8. ProbeVerdicts'
  BY <1>a DEF ProbeVerdicts
<1> QED
  BY <1>1, <1>2, <1>3, <1>4, <1>5, <1>6, <1>7, <1>8

\* As before, for every hart.
LEMMA Keeps_arch_enable_software_interrupts ==
  ASSUME BootAssumption, IInv, NEW h \in HartId, arch_enable_software_interrupts(h)
  PROVE  IInv'
<1> USE DEF IInv
<1>a. smp_boot_done /\ g_boot_hartid # NoHart
  BY DEF arch_enable_software_interrupts, At, Election, Alone, TypeOK, SecondaryPc, PrePc, EarlyPc
<1>1. CASE h = g_boot_hartid
  <2> USE DEF arch_enable_software_interrupts, At, Go, Enable, smp, irq_bits, trap
  <2>1. TypeOK'
    BY <1>a, <1>1 DEF TypeOK, PrePc, EarlyPc, LatePc, SecondaryPc, Irqs
  <2>2. Election'
    BY <1>a, <1>1 DEF TypeOK, Election, EarlyPc, LatePc, SecondaryPc
  <2>3. Alone'
    BY <1>a, <1>1 DEF TypeOK, Alone
  <2>4. Online'
    BY <1>a, <1>1 DEF TypeOK, Online
  <2>5. Staged'
    BY <1>a, <1>1 DEF TypeOK, Staged
  <2>6. Frames'
    BY <1>a, <1>1 DEF TypeOK, Election, Staged, Alone, Frames, FrameOf, Resume, PrePc, EarlyPc,
       LatePc, SecondaryPc, NoVectorPc, NoHart
  <2>7. Probing'
    <3>1. /\ g_boot_hartid' = g_boot_hartid /\ g_boot_hartid # NoHart /\ smp_boot_done'
          /\ probe' = probe /\ illegal' = illegal
      BY <1>a, <1>1
    <3>2. boot_pc'[g_boot_hartid'] \in LatePc
      BY <3>1, <2>2 DEF Election
    <3> QED
      BY ONLY <3>1, <3>2, IInv, ProbeApart DEF LatePc
  <2>8. ProbeVerdicts'
    BY <1>a, <1>1 DEF ProbeVerdicts
  <2> QED
    BY <2>1, <2>2, <2>3, <2>4, <2>5, <2>6, <2>7, <2>8
<1>2. CASE h # g_boot_hartid
  <2> USE DEF arch_enable_software_interrupts, At, Go, Enable, smp, irq_bits, trap
  <2>1. TypeOK'
    BY <1>a, <1>2 DEF TypeOK, PrePc, EarlyPc, LatePc, SecondaryPc, Irqs
  <2>2. Election'
    BY <1>a, <1>2 DEF TypeOK, Election, EarlyPc, LatePc, SecondaryPc
  <2>3. Alone'
    BY <1>a, <1>2 DEF TypeOK, Alone
  <2>4. Online'
    BY <1>a, <1>2 DEF TypeOK, Online
  <2>5. Staged'
    BY <1>a, <1>2 DEF TypeOK, Staged
  <2>6. Frames'
    BY <1>a, <1>2 DEF TypeOK, Election, Staged, Alone, Frames, FrameOf, Resume, PrePc, EarlyPc,
       LatePc, SecondaryPc, NoVectorPc, NoHart
  <2>7. Probing'
    <3>1. /\ g_boot_hartid' = g_boot_hartid /\ g_boot_hartid # NoHart /\ smp_boot_done'
          /\ probe' = probe /\ illegal' = illegal
      BY <1>a, <1>2
    <3>2. boot_pc'[g_boot_hartid'] \in LatePc
      BY <3>1, <2>2 DEF Election
    <3> QED
      BY ONLY <3>1, <3>2, IInv, ProbeApart DEF LatePc
  <2>8. ProbeVerdicts'
    BY <1>a, <1>2 DEF ProbeVerdicts
  <2> QED
    BY <2>1, <2>2, <2>3, <2>4, <2>5, <2>6, <2>7, <2>8
<1> QED
  BY <1>1, <1>2

\* The idle thread is entered where its frame says.
LEMMA Keeps_arch_first_switch ==
  ASSUME BootAssumption, IInv, NEW h \in HartId, arch_first_switch(h)
  PROVE  IInv'
<1> USE DEF IInv
<1>a. smp_boot_done /\ g_boot_hartid # NoHart /\ idle_sepc[h] \in Resume(h)
  BY DEF arch_first_switch, At, Election, Frames, FrameOf, Resume
<1>b. idle_sepc[h] \in LatePc /\ (h # g_boot_hartid => idle_sepc[h] \in SecondaryPc)
  BY <1>a DEF Resume, LatePc, SecondaryPc
<1> USE DEF arch_first_switch, At, Go, smp, irq_bits, trap
<1>1. TypeOK'
  BY <1>a, <1>b DEF TypeOK, EarlyPc, LatePc, SecondaryPc
<1>2. Election'
  BY <1>a, <1>b DEF TypeOK, Election, EarlyPc, LatePc, SecondaryPc
<1>3. Alone'
  BY <1>a, <1>b DEF TypeOK, Alone
<1>4. Online'
  BY <1>a, <1>b DEF TypeOK, Online, LatePc
<1>5. Staged'
  BY <1>a, <1>b DEF TypeOK, Staged
<1>6. Frames'
  BY <1>a, <1>b DEF TypeOK, Election, Staged, Alone, Frames, FrameOf, Resume, PrePc, EarlyPc,
     LatePc, SecondaryPc, NoVectorPc, NoHart
<1>7. Probing'
  <2>1. /\ g_boot_hartid' = g_boot_hartid /\ g_boot_hartid # NoHart /\ smp_boot_done'
        /\ probe' = probe /\ illegal' = illegal
    BY <1>a
  <2>2. boot_pc'[g_boot_hartid'] \in LatePc
    BY <2>1, <1>2 DEF Election
  <2> QED
    BY ONLY <2>1, <2>2, IInv, ProbeApart DEF LatePc
<1>8. ProbeVerdicts'
  BY <1>a, <1>b DEF ProbeVerdicts
<1> QED
  BY <1>1, <1>2, <1>3, <1>4, <1>5, <1>6, <1>7, <1>8

\* The boot hart alone initialises the platform.
LEMMA Keeps_call_platform_init ==
  ASSUME BootAssumption, IInv, NEW h \in HartId, call_platform_init(h)
  PROVE  IInv'
<1> USE DEF IInv
<1>a. h = g_boot_hartid /\ h # NoHart /\ ~smp_boot_done
  BY DEF call_platform_init, At, Initialise, Election, TypeOK, BootAssumption, NoHart, SecondaryPc,
     PrePc, LatePc
<1>b. \A g \in HartId : g # h => boot_pc[g] = "parked"
  BY <1>a DEF Alone, TypeOK, call_platform_init, At, Initialise
<1> USE DEF call_platform_init, At, Go, Initialise, smp, irq_bits, trap
<1>1. TypeOK'
  BY <1>a, <1>b DEF TypeOK, EarlyPc, LatePc, SecondaryPc
<1>2. Election'
  BY <1>a, <1>b DEF TypeOK, Election, EarlyPc, LatePc, SecondaryPc
<1>3. Alone'
  BY <1>a, <1>b DEF TypeOK, Alone
<1>4. Online'
  BY <1>a, <1>b DEF TypeOK, Online
<1>5. Staged'
  BY <1>a, <1>b DEF TypeOK, Staged
<1>6. Frames'
  BY <1>a, <1>b DEF TypeOK, Frames, FrameOf, Resume, NoVectorPc
<1>7. Probing'
  BY <1>a, <1>b DEF TypeOK, Election, Probing
<1>8. ProbeVerdicts'
  BY <1>a, <1>b DEF ProbeVerdicts
<1> QED
  BY <1>1, <1>2, <1>3, <1>4, <1>5, <1>6, <1>7, <1>8

\* The device tree is there, so this does not panic.
LEMMA Keeps_call_platform_boot_hart_init ==
  ASSUME BootAssumption, IInv, NEW h \in HartId, call_platform_boot_hart_init(h)
  PROVE  IInv'
<1> USE DEF IInv
<1>a. h = g_boot_hartid /\ h # NoHart /\ ~smp_boot_done
  BY DEF call_platform_boot_hart_init, At, Initialise, Election, TypeOK, BootAssumption, NoHart,
     SecondaryPc, PrePc, LatePc
<1>b. \A g \in HartId : g # h => boot_pc[g] = "parked"
  BY <1>a DEF Alone, TypeOK, call_platform_boot_hart_init, At, Initialise
<1>c. "dtb" \in ready
  BY <1>a DEF Staged, call_platform_boot_hart_init, Initialise, At
<1> USE DEF call_platform_boot_hart_init, At, Go, Initialise, smp, irq_bits, trap
<1>1. TypeOK'
  BY <1>a, <1>b, <1>c DEF TypeOK, EarlyPc, LatePc, SecondaryPc
<1>2. Election'
  BY <1>a, <1>b, <1>c DEF TypeOK, Election, EarlyPc, LatePc, SecondaryPc
<1>3. Alone'
  BY <1>a, <1>b, <1>c DEF TypeOK, Alone
<1>4. Online'
  BY <1>a, <1>b, <1>c DEF TypeOK, Online
<1>5. Staged'
  BY <1>a, <1>b, <1>c DEF TypeOK, Staged
<1>6. Frames'
  BY <1>a, <1>b, <1>c DEF TypeOK, Frames, FrameOf, Resume, NoVectorPc
<1>7. Probing'
  BY <1>a, <1>b, <1>c DEF TypeOK, Election, Probing
<1>8. ProbeVerdicts'
  BY <1>a, <1>b, <1>c DEF ProbeVerdicts
<1> QED
  BY <1>1, <1>2, <1>3, <1>4, <1>5, <1>6, <1>7, <1>8

\* The first frame.
LEMMA Keeps_trap_install_bootstrap_tf ==
  ASSUME BootAssumption, IInv, NEW h \in HartId, trap_install_bootstrap_tf(h)
  PROVE  IInv'
<1> USE DEF IInv
<1>a. h = g_boot_hartid /\ h # NoHart /\ ~smp_boot_done
  BY DEF trap_install_bootstrap_tf, At, Initialise, Election, TypeOK, BootAssumption, NoHart,
     SecondaryPc, PrePc, LatePc
<1>b. \A g \in HartId : g # h => boot_pc[g] = "parked"
  BY <1>a DEF Alone, TypeOK, trap_install_bootstrap_tf, At, Initialise
<1> USE DEF trap_install_bootstrap_tf, At, Go, smp, irq_bits, trap
<1>1. TypeOK'
  BY <1>a, <1>b DEF TypeOK, EarlyPc, LatePc, SecondaryPc
<1>2. Election'
  BY <1>a, <1>b DEF TypeOK, Election, EarlyPc, LatePc, SecondaryPc
<1>3. Alone'
  BY <1>a, <1>b DEF TypeOK, Alone
<1>4. Online'
  BY <1>a, <1>b DEF TypeOK, Online
<1>5. Staged'
  BY <1>a, <1>b DEF TypeOK, Staged
<1>6. Frames'
  BY <1>a, <1>b DEF TypeOK, Election, Staged, Alone, Frames, FrameOf, Resume, PrePc, EarlyPc,
     LatePc, SecondaryPc, NoVectorPc, NoHart
<1>7. Probing'
  BY <1>a, <1>b DEF TypeOK, Election, Probing
<1>8. ProbeVerdicts'
  BY <1>a, <1>b DEF ProbeVerdicts
<1> QED
  BY <1>1, <1>2, <1>3, <1>4, <1>5, <1>6, <1>7, <1>8

\* The clock.
LEMMA Keeps_time_init ==
  ASSUME BootAssumption, IInv, NEW h \in HartId, time_init(h)
  PROVE  IInv'
<1> USE DEF IInv
<1>a. h = g_boot_hartid /\ h # NoHart /\ ~smp_boot_done
  BY DEF time_init, At, Initialise, Election, TypeOK, BootAssumption, NoHart, SecondaryPc, PrePc,
     LatePc
<1>b. \A g \in HartId : g # h => boot_pc[g] = "parked"
  BY <1>a DEF Alone, TypeOK, time_init, At, Initialise
<1> USE DEF time_init, At, Go, Initialise, smp, irq_bits, trap
<1>1. TypeOK'
  BY <1>a, <1>b DEF TypeOK, EarlyPc, LatePc, SecondaryPc
<1>2. Election'
  BY <1>a, <1>b DEF TypeOK, Election, EarlyPc, LatePc, SecondaryPc
<1>3. Alone'
  BY <1>a, <1>b DEF TypeOK, Alone
<1>4. Online'
  BY <1>a, <1>b DEF TypeOK, Online
<1>5. Staged'
  BY <1>a, <1>b DEF TypeOK, Staged
<1>6. Frames'
  BY <1>a, <1>b DEF TypeOK, Election, Staged, Alone, Frames, FrameOf, Resume, PrePc, EarlyPc,
     LatePc, SecondaryPc, NoVectorPc, NoHart
<1>7. Probing'
  BY <1>a, <1>b DEF TypeOK, Election, Probing
<1>8. ProbeVerdicts'
  BY <1>a, <1>b DEF ProbeVerdicts
<1> QED
  BY <1>1, <1>2, <1>3, <1>4, <1>5, <1>6, <1>7, <1>8

\* The frames of all idle threads are set before another hart starts.
LEMMA Keeps_threads_init ==
  ASSUME BootAssumption, IInv, NEW h \in HartId, threads_init(h)
  PROVE  IInv'
<1> USE DEF IInv
<1>a. h = g_boot_hartid /\ h # NoHart /\ ~smp_boot_done
  BY DEF threads_init, At, Initialise, Election, TypeOK, BootAssumption, NoHart, SecondaryPc,
     PrePc, LatePc
<1>b. \A g \in HartId : g # h => boot_pc[g] = "parked"
  BY <1>a DEF Alone, TypeOK, threads_init, At, Initialise
<1> USE DEF threads_init, At, Go, Initialise, smp, irq_bits, trap
<1>1. TypeOK'
  BY <1>a, <1>b DEF TypeOK, EarlyPc, LatePc, SecondaryPc
<1>2. Election'
  BY <1>a, <1>b DEF TypeOK, Election, EarlyPc, LatePc, SecondaryPc
<1>3. Alone'
  BY <1>a, <1>b DEF TypeOK, Alone
<1>4. Online'
  BY <1>a, <1>b DEF TypeOK, Online
<1>5. Staged'
  BY <1>a, <1>b DEF TypeOK, Staged
<1>6. Frames'
  BY <1>a, <1>b DEF TypeOK, Election, Staged, Alone, Frames, FrameOf, Resume, PrePc, EarlyPc,
     LatePc, SecondaryPc, NoVectorPc, NoHart
<1>7. Probing'
  BY <1>a, <1>b DEF TypeOK, Election, Probing
<1>8. ProbeVerdicts'
  BY <1>a, <1>b DEF ProbeVerdicts
<1> QED
  BY <1>1, <1>2, <1>3, <1>4, <1>5, <1>6, <1>7, <1>8

\* From here on all is initialised.
LEMMA Keeps_set_smp_boot_done ==
  ASSUME BootAssumption, IInv, NEW h \in HartId, set_smp_boot_done(h)
  PROVE  IInv'
<1> USE DEF IInv
<1>a. h = g_boot_hartid /\ h # NoHart /\ ~smp_boot_done
  BY DEF set_smp_boot_done, At, Initialise, Election, TypeOK, BootAssumption, NoHart,
     SecondaryPc, PrePc, LatePc
<1>b. \A g \in HartId : g # h => boot_pc[g] = "parked"
  BY <1>a DEF Alone, TypeOK, set_smp_boot_done, At, Initialise
<1> USE DEF set_smp_boot_done, At, Go, smp, irq_bits, trap
<1>1. TypeOK'
  BY <1>a, <1>b DEF TypeOK, EarlyPc, LatePc, SecondaryPc
<1>2. Election'
  BY <1>a, <1>b DEF TypeOK, Election, EarlyPc, LatePc, SecondaryPc
<1>3. Alone'
  BY <1>a, <1>b DEF TypeOK, Alone
<1>4. Online'
  BY <1>a, <1>b DEF TypeOK, Online
<1>5. Staged'
  BY <1>a, <1>b DEF TypeOK, Election, Staged, PrePc, EarlyPc, LatePc, SecondaryPc, NoHart, All,
     Alone
<1>6. Frames'
  BY <1>a, <1>b DEF TypeOK, Election, Staged, Alone, Frames, FrameOf, Resume, PrePc, EarlyPc,
     LatePc, SecondaryPc, NoVectorPc, NoHart
<1>7. Probing'
  BY <1>a, <1>b DEF TypeOK, Election, Probing
<1>8. ProbeVerdicts'
  BY <1>a, <1>b DEF ProbeVerdicts
<1> QED
  BY <1>1, <1>2, <1>3, <1>4, <1>5, <1>6, <1>7, <1>8

\* Whatever the firmware answers.
LEMMA Keeps_start_other_harts ==
  ASSUME BootAssumption, IInv, NEW h \in HartId, start_other_harts(h)
  PROVE  IInv'
<1> USE DEF IInv
<1>a. h = g_boot_hartid /\ h # NoHart /\ smp_boot_done
  BY DEF start_other_harts, At, Election, TypeOK, BootAssumption, NoHart, SecondaryPc, PrePc,
     EarlyPc
<1>1. CASE other = {}
  <2> USE DEF start_other_harts, At, Go, smp, irq_bits, trap
  <2>1. TypeOK'
    BY <1>a, <1>1 DEF TypeOK, EarlyPc, LatePc, SecondaryPc
  <2>2. Election'
    BY <1>a, <1>1 DEF TypeOK, Election, EarlyPc, LatePc, SecondaryPc
  <2>3. Alone'
    BY <1>a, <1>1 DEF TypeOK, Alone
  <2>4. Online'
    BY <1>a, <1>1 DEF TypeOK, Online
  <2>5. Staged'
    BY <1>a, <1>1 DEF TypeOK, Staged
  <2>6. Frames'
    BY <1>a, <1>1 DEF TypeOK, Election, Staged, Alone, Frames, FrameOf, Resume, PrePc, EarlyPc,
       LatePc, SecondaryPc, NoVectorPc, NoHart
  <2>7. Probing'
    <3>1. /\ g_boot_hartid' = g_boot_hartid /\ g_boot_hartid # NoHart /\ smp_boot_done'
          /\ probe' = probe /\ illegal' = illegal
      BY <1>a, <1>1
    <3>2. boot_pc'[g_boot_hartid'] \in LatePc
      BY <3>1, <2>2 DEF Election
    <3> QED
      BY ONLY <3>1, <3>2, IInv, ProbeApart DEF LatePc
  <2>8. ProbeVerdicts'
    BY <1>a, <1>1 DEF ProbeVerdicts
  <2> QED
    BY <2>1, <2>2, <2>3, <2>4, <2>5, <2>6, <2>7, <2>8
<1>2. CASE other # {}
  <2> USE DEF start_other_harts, At, Go, smp, irq_bits, trap
  <2>1. TypeOK'
    BY <1>a, <1>2 DEF TypeOK, EarlyPc, LatePc, SecondaryPc
  <2>2. Election'
    BY <1>a, <1>2 DEF TypeOK, Election, EarlyPc, LatePc, SecondaryPc
  <2>3. Alone'
    BY <1>a, <1>2 DEF TypeOK, Alone
  <2>4. Online'
    BY <1>a, <1>2 DEF TypeOK, Online
  <2>5. Staged'
    BY <1>a, <1>2 DEF TypeOK, Staged
  <2>6. Frames'
    BY <1>a, <1>2 DEF TypeOK, Election, Staged, Alone, Frames, FrameOf, Resume, PrePc, EarlyPc,
       LatePc, SecondaryPc, NoVectorPc, NoHart
  <2>7. Probing'
    <3>1. /\ g_boot_hartid' = g_boot_hartid /\ g_boot_hartid # NoHart /\ smp_boot_done'
          /\ probe' = probe /\ illegal' = illegal
      BY <1>a, <1>2
    <3>2. boot_pc'[g_boot_hartid'] \in LatePc
      BY <3>1, <2>2 DEF Election
    <3> QED
      BY ONLY <3>1, <3>2, IInv, ProbeApart DEF LatePc
  <2>8. ProbeVerdicts'
    BY <1>a, <1>2 DEF ProbeVerdicts
  <2> QED
    BY <2>1, <2>2, <2>3, <2>4, <2>5, <2>6, <2>7, <2>8
<1> QED
  BY <1>1, <1>2

\* Whether the hart came or not.
LEMMA Keeps_wait_online ==
  ASSUME BootAssumption, IInv, NEW h \in HartId, wait_online(h)
  PROVE  IInv'
<1> USE DEF IInv
<1>a. h = g_boot_hartid /\ h # NoHart /\ smp_boot_done
  BY DEF wait_online, At, Election, TypeOK, BootAssumption, NoHart, SecondaryPc, PrePc, EarlyPc
<1> USE DEF wait_online, At, Go, smp, irq_bits, trap
<1>1. TypeOK'
  BY <1>a DEF TypeOK, EarlyPc, LatePc, SecondaryPc
<1>2. Election'
  BY <1>a DEF TypeOK, Election, EarlyPc, LatePc, SecondaryPc
<1>3. Alone'
  BY <1>a DEF TypeOK, Alone
<1>4. Online'
  BY <1>a DEF TypeOK, Online
<1>5. Staged'
  BY <1>a DEF TypeOK, Staged
<1>6. Frames'
  BY <1>a DEF TypeOK, Election, Staged, Alone, Frames, FrameOf, Resume, PrePc, EarlyPc, LatePc,
     SecondaryPc, NoVectorPc, NoHart
<1>7. Probing'
  <2>1. /\ g_boot_hartid' = g_boot_hartid /\ g_boot_hartid # NoHart /\ smp_boot_done'
        /\ probe' = probe /\ illegal' = illegal
    BY <1>a
  <2>2. boot_pc'[g_boot_hartid'] \in LatePc
    BY <2>1, <1>2 DEF Election
  <2> QED
    BY ONLY <2>1, <2>2, IInv, ProbeApart DEF LatePc
<1>8. ProbeVerdicts'
  BY <1>a DEF ProbeVerdicts
<1> QED
  BY <1>1, <1>2, <1>3, <1>4, <1>5, <1>6, <1>7, <1>8

\* The probe begins.
LEMMA Keeps_probe_enter ==
  ASSUME BootAssumption, IInv, NEW h \in HartId, probe_enter(h)
  PROVE  IInv'
<1> USE DEF IInv
<1>a. h = g_boot_hartid /\ h # NoHart /\ ~smp_boot_done
  BY DEF probe_enter, At, Initialise, Election, TypeOK, BootAssumption, NoHart, SecondaryPc,
     PrePc, LatePc
<1>b. \A g \in HartId : g # h => boot_pc[g] = "parked"
  BY <1>a DEF Alone, TypeOK, probe_enter, At, Initialise
<1> USE DEF probe_enter, At, Go, ProbeStep, smp, irq_bits, trap
<1>1. TypeOK'
  BY <1>a, <1>b DEF TypeOK, EarlyPc, LatePc, SecondaryPc
<1>2. Election'
  BY <1>a, <1>b DEF TypeOK, Election, EarlyPc, LatePc, SecondaryPc
<1>3. Alone'
  BY <1>a, <1>b DEF TypeOK, Alone
<1>4. Online'
  BY <1>a, <1>b DEF TypeOK, Online
<1>5. Staged'
  BY <1>a, <1>b DEF TypeOK, Staged
<1>6. Frames'
  BY <1>a, <1>b DEF TypeOK, Election, Staged, Alone, Frames, FrameOf, Resume, PrePc, EarlyPc,
     LatePc, SecondaryPc, NoVectorPc, NoHart
<1>7. Probing'
  <2>1. /\ g_boot_hartid' = h /\ boot_pc'[h] = "probe_clear" /\ probe' = probe /\ illegal' = illegal
        /\ probe.i = 1 /\ h # NoHart
    BY <1>a DEF TypeOK, Probing
  <2>2. 1 <= Len(Probed) /\ 1 # 4
    BY ONLY ProbedLen
  <2>3. Len(probe.verdict) = probe.i - 1
    BY DEF Probing
  <2> QED
    BY ONLY <2>1, <2>2, <2>3 DEF Probing
<1>8. ProbeVerdicts'
  BY <1>a, <1>b DEF ProbeVerdicts
<1> QED
  BY <1>1, <1>2, <1>3, <1>4, <1>5, <1>6, <1>7, <1>8

\* A secondary hart is let go.
LEMMA Keeps_wait_for_smp_boot_done ==
  ASSUME BootAssumption, IInv, NEW h \in HartId, wait_for_smp_boot_done(h)
  PROVE  IInv'
<1> USE DEF IInv
<1>a. smp_boot_done /\ g_boot_hartid # NoHart
  BY DEF wait_for_smp_boot_done, At, Election, Alone, TypeOK, SecondaryPc, PrePc, EarlyPc
<1> USE DEF wait_for_smp_boot_done, At, Go, smp, irq_bits, trap
<1>1. TypeOK'
  BY <1>a DEF TypeOK, EarlyPc, LatePc, SecondaryPc
<1>2. Election'
  BY <1>a DEF TypeOK, Election, EarlyPc, LatePc, SecondaryPc
<1>3. Alone'
  BY <1>a DEF TypeOK, Alone
<1>4. Online'
  BY <1>a DEF TypeOK, Online
<1>5. Staged'
  BY <1>a DEF TypeOK, Staged
<1>6. Frames'
  BY <1>a DEF TypeOK, Frames, FrameOf, Resume, NoVectorPc
<1>7. Probing'
  <2>1. /\ g_boot_hartid' = g_boot_hartid /\ g_boot_hartid # NoHart /\ smp_boot_done'
        /\ probe' = probe /\ illegal' = illegal
    BY <1>a
  <2>2. boot_pc'[g_boot_hartid'] \in LatePc
    BY <2>1, <1>2 DEF Election
  <2> QED
    BY ONLY <2>1, <2>2, IInv, ProbeApart DEF LatePc
<1>8. ProbeVerdicts'
  BY <1>a DEF ProbeVerdicts
<1> QED
  BY <1>1, <1>2, <1>3, <1>4, <1>5, <1>6, <1>7, <1>8

\* The device tree is there, so this does not panic.
LEMMA Keeps_call_platform_secondary_hart_init ==
  ASSUME BootAssumption, IInv, NEW h \in HartId, call_platform_secondary_hart_init(h)
  PROVE  IInv'
<1> USE DEF IInv
<1>a. smp_boot_done /\ g_boot_hartid # NoHart
  BY DEF call_platform_secondary_hart_init, At, Election, Alone, TypeOK, SecondaryPc, PrePc, EarlyPc
<1>c. "dtb" \in ready
  BY <1>a DEF Staged, All
<1> USE DEF call_platform_secondary_hart_init, At, Go, smp, irq_bits, trap
<1>1. TypeOK'
  BY <1>a, <1>c DEF TypeOK, EarlyPc, LatePc, SecondaryPc
<1>2. Election'
  BY <1>a, <1>c DEF TypeOK, Election, EarlyPc, LatePc, SecondaryPc
<1>3. Alone'
  BY <1>a, <1>c DEF TypeOK, Alone
<1>4. Online'
  BY <1>a, <1>c DEF TypeOK, Online
<1>5. Staged'
  BY <1>a, <1>c DEF TypeOK, Staged
<1>6. Frames'
  BY <1>a, <1>c DEF TypeOK, Frames, FrameOf, Resume, NoVectorPc
<1>7. Probing'
  <2>1. /\ g_boot_hartid' = g_boot_hartid /\ g_boot_hartid # NoHart /\ smp_boot_done'
        /\ probe' = probe /\ illegal' = illegal
    BY <1>a
  <2>2. boot_pc'[g_boot_hartid'] \in LatePc
    BY <2>1, <1>2 DEF Election
  <2> QED
    BY ONLY <2>1, <2>2, IInv, ProbeApart DEF LatePc
<1>8. ProbeVerdicts'
  BY <1>a, <1>c DEF ProbeVerdicts
<1> QED
  BY <1>1, <1>2, <1>3, <1>4, <1>5, <1>6, <1>7, <1>8

\* The firmware starts only harts that the boot hart asked for.
LEMMA Keeps_hart_starts ==
  ASSUME BootAssumption, IInv, NEW h \in HartId, hart_starts(h)
  PROVE  IInv'
<1> USE DEF IInv
<1>a. smp_boot_done /\ g_boot_hartid # NoHart
  BY DEF hart_starts, Alone, Election
<1> USE DEF hart_starts, At, Go, smp, irq_bits, trap
<1>1. TypeOK'
  BY <1>a DEF TypeOK, PrePc, EarlyPc, LatePc, SecondaryPc, Irqs
<1>2. Election'
  BY <1>a DEF TypeOK, Election, PrePc, EarlyPc, LatePc, SecondaryPc, NoHart, BootAssumption,
     Staged, Frames, FrameOf, Resume, Alone, All
<1>3. Alone'
  BY <1>a DEF TypeOK, Alone
<1>4. Online'
  BY <1>a DEF TypeOK, Online
<1>5. Staged'
  BY <1>a DEF TypeOK, Staged
<1>6. Frames'
  BY <1>a DEF TypeOK, Election, Staged, Alone, Frames, FrameOf, Resume, PrePc, EarlyPc, LatePc,
     SecondaryPc, NoVectorPc, NoHart
<1>7. Probing'
  <2>1. /\ g_boot_hartid' = g_boot_hartid /\ g_boot_hartid # NoHart /\ smp_boot_done'
        /\ probe' = probe /\ illegal' = illegal
    BY <1>a
  <2>2. boot_pc'[g_boot_hartid'] \in LatePc
    BY <2>1, <1>2 DEF Election
  <2> QED
    BY ONLY <2>1, <2>2, IInv, ProbeApart DEF LatePc
<1>8. ProbeVerdicts'
  BY <1>a DEF ProbeVerdicts
<1> QED
  BY <1>1, <1>2, <1>3, <1>4, <1>5, <1>6, <1>7, <1>8

\* The idle thread goes on where it was interrupted.
LEMMA Keeps_schedule ==
  ASSUME BootAssumption, IInv, NEW h \in HartId, schedule(h)
  PROVE  IInv'
<1> USE DEF IInv
<1>a. smp_boot_done /\ g_boot_hartid # NoHart /\ idle_sepc[h] \in Resume(h)
  BY DEF schedule, At, Election, Frames, FrameOf, Resume
<1>b. idle_sepc[h] \in LatePc /\ (h # g_boot_hartid => idle_sepc[h] \in SecondaryPc)
  BY <1>a DEF Resume, LatePc, SecondaryPc
<1> USE DEF schedule, At, Go, smp, irq_bits, trap
<1>1. TypeOK'
  BY <1>a, <1>b DEF TypeOK, EarlyPc, LatePc, SecondaryPc
<1>2. Election'
  BY <1>a, <1>b DEF TypeOK, Election, EarlyPc, LatePc, SecondaryPc
<1>3. Alone'
  BY <1>a, <1>b DEF TypeOK, Alone
<1>4. Online'
  BY <1>a, <1>b DEF TypeOK, Online, LatePc
<1>5. Staged'
  BY <1>a, <1>b DEF TypeOK, Staged
<1>6. Frames'
  BY <1>a, <1>b DEF TypeOK, Election, Staged, Alone, Frames, FrameOf, Resume, PrePc, EarlyPc,
     LatePc, SecondaryPc, NoVectorPc, NoHart
<1>7. Probing'
  <2>1. /\ g_boot_hartid' = g_boot_hartid /\ g_boot_hartid # NoHart /\ smp_boot_done'
        /\ probe' = probe /\ illegal' = illegal
    BY <1>a
  <2>2. boot_pc'[g_boot_hartid'] \in LatePc
    BY <2>1, <1>2 DEF Election
  <2> QED
    BY ONLY <2>1, <2>2, IInv, ProbeApart DEF LatePc
<1>8. ProbeVerdicts'
  BY <1>a, <1>b DEF ProbeVerdicts
<1> QED
  BY <1>1, <1>2, <1>3, <1>4, <1>5, <1>6, <1>7, <1>8

\* A trap, whoever takes it, finds a vector and a frame, and leaves the hart
\* where its idle thread was interrupted or in a thread.
LEMMA Keeps_interrupt ==
  ASSUME BootAssumption, IInv, NEW h \in HartId, NEW i \in Irqs, interrupt(h, i)
  PROVE  IInv'
<1> USE DEF IInv
<1>a. sie[h] /\ boot_pc[h] \in Resume(h) \cup {"thread"}
  BY DEF interrupt, Frames, FrameOf
<1>b. /\ cur_tf[h] = IF boot_pc[h] = "thread" THEN "thread" ELSE "idle"
      /\ smp_boot_done /\ g_boot_hartid # NoHart
  BY <1>a DEF Frames, FrameOf, Resume, Election
<1>c. h \in stvec
  BY <1>a DEF Frames, FrameOf, Resume, NoVectorPc, PrePc
<1>d. PICK next \in {"idle", "thread"} :
        /\ boot_pending' = [boot_pending EXCEPT ![h] = @ \ {i}]
        /\ idle_sepc' = [idle_sepc EXCEPT ![h] = IF cur_tf[h] = "idle" THEN boot_pc[h] ELSE @]
        /\ cur_tf' = [cur_tf EXCEPT ![h] = next]
        /\ Go(h, IF next = "thread" THEN "thread" ELSE idle_sepc'[h])
        /\ UNCHANGED stvec
  BY <1>b, <1>c DEF interrupt
<1>e. UNCHANGED <<smp, sie, boot_enabled, illegal, probe>>
  BY DEF interrupt
<1>f. idle_sepc[h] \in Resume(h)
  BY <1>b DEF Frames, FrameOf
<1> DEFINE sepc == IF cur_tf[h] = "idle" THEN boot_pc[h] ELSE idle_sepc[h]
           there == IF next = "thread" THEN "thread" ELSE sepc
<1>g. sepc \in Resume(h) /\ there \in Resume(h) \cup {"thread"}
  BY <1>a, <1>b, <1>f DEF Resume
<1>h. /\ sepc \in LatePc /\ there \in LatePc /\ there # "parked"
      /\ h # g_boot_hartid => there \in SecondaryPc
  BY <1>g DEF Resume, LatePc, SecondaryPc
<1>i. idle_sepc' = [idle_sepc EXCEPT ![h] = sepc] /\ boot_pc' = [boot_pc EXCEPT ![h] = there]
  BY <1>d DEF TypeOK, Go
<1> HIDE DEF sepc, there
<1> USE DEF smp
<1>1. TypeOK'
  <2>1. boot_pc' \in [HartId -> PrePc \cup EarlyPc \cup LatePc \cup SecondaryPc]
    BY <1>h, <1>i DEF TypeOK
  <2>2. cur_tf' \in [HartId -> {"none", "bootstrap", "probe", "idle", "thread"}]
    BY <1>d DEF TypeOK
  <2>3. idle_sepc' \in [HartId -> {"zero"} \cup LatePc]
    BY <1>h, <1>i DEF TypeOK
  <2>4. boot_pending' \in [HartId -> SUBSET Irqs]
    BY <1>d DEF TypeOK
  <2> QED
    BY <2>1, <2>2, <2>3, <2>4, <1>e DEF TypeOK
<1>2. Election'
  BY <1>b, <1>e, <1>h, <1>i DEF TypeOK, Election
<1>3. Alone'
  BY <1>b, <1>e DEF Alone
<1>4. Online'
  BY <1>e, <1>h, <1>i DEF TypeOK, Online
<1>5. Staged'
  BY <1>b, <1>e DEF Staged
<1>6. Frames'
  <2> SUFFICES ASSUME NEW g \in HartId PROVE FrameOf(g)'
    BY DEF Frames
  <2>1. CASE g = h
    <3>1. /\ boot_pc'[h] = there /\ cur_tf'[h] = next /\ idle_sepc'[h] = sepc
          /\ sie'[h] = sie[h] /\ boot_enabled'[h] = boot_enabled[h]
      BY <1>d, <1>e, <1>i DEF TypeOK
    <3>2. next = "thread" => there = "thread"
      BY DEF there
    <3>3. next = "idle" => there \in Resume(h)
      BY <1>g DEF there
    <3>4. Resume(h)' = Resume(h) /\ smp_boot_done' /\ stvec' = stvec
      BY <1>b, <1>d, <1>e DEF Resume
    <3>5. "thread" \notin Resume(h) \cup {"enable_timer", "enable_software"}
      BY DEF Resume
    <3>6. there \notin {"probe_clear", "probe_insn",
       "probe_log"} /\ ~(next = "idle" /\ there = "thread")
      BY <1>g, <3>3, <3>5 DEF Resume
    <3> QED
      BY <2>1, <3>1, <3>2, <3>3, <3>4, <3>5, <3>6, <1>c, <1>g DEF FrameOf
  <2>2. CASE g # h
    <3>1. /\ boot_pc'[g] = boot_pc[g] /\ cur_tf'[g] = cur_tf[g] /\ idle_sepc'[g] = idle_sepc[g]
          /\ sie'[g] = sie[g] /\ boot_enabled'[g] = boot_enabled[g]
          /\ Resume(g)' = Resume(g) /\ smp_boot_done' = smp_boot_done /\ stvec' = stvec
      BY <2>2, <1>d, <1>e, <1>i DEF TypeOK, Resume
    <3> QED
      BY <3>1 DEF Frames, FrameOf
  <2> QED
    BY <2>1, <2>2
<1>7. Probing' /\ ProbeVerdicts'
  <2>1. boot_pc'[g_boot_hartid'] \in LatePc
    BY <1>2, <1>b, <1>e DEF Election
  <2> QED
    BY <2>1, <1>b, <1>e, ProbeApart DEF LatePc
<1> QED
  BY <1>1, <1>2, <1>3, <1>4, <1>5, <1>6, <1>7

\* An interrupt that is raised changes only what is pending.
LEMMA Keeps_pending ==
  ASSUME IInv, NEW h \in HartId, NEW i \in Irqs, boot_pending' = [boot_pending EXCEPT ![h] = @ \cup {i}],
         UNCHANGED <<boot_pc, smp, trap, sie, boot_enabled, illegal, probe>>
  PROVE  IInv'
<1> USE DEF IInv, smp, trap
<1>1. TypeOK'
  <2>1. boot_pending' \in [HartId -> SUBSET Irqs]
    BY DEF TypeOK
  <2> QED
    BY <2>1 DEF TypeOK
<1>2. Election' /\ Alone' /\ Online' /\ Staged'
  BY DEF Election, Alone, Online, Staged
<1>3. Frames'
  BY DEF Frames, FrameOf, Resume
<1>4. Probing' /\ ProbeVerdicts'
  BY DEF Probing, ProbeVerdicts
<1> QED
  BY <1>1, <1>2, <1>3, <1>4

\* A hart takes its stack.
LEMMA Keeps_per_hart_start ==
  ASSUME BootAssumption, IInv, NEW h \in HartId, per_hart_start(h)
  PROVE  IInv'
<1> USE DEF IInv
<1> USE DEF per_hart_start, At, Go, smp, irq_bits, trap
<1>1. TypeOK'
  BY DEF TypeOK, PrePc, EarlyPc, LatePc, SecondaryPc, Irqs
<1>2. Election'
  BY DEF TypeOK, Election, PrePc, EarlyPc, LatePc, SecondaryPc, NoHart, BootAssumption
<1>3. Alone'
  BY DEF TypeOK, Alone
<1>4. Online'
  BY DEF TypeOK, Online
<1>5. Staged'
  BY DEF TypeOK, Staged
<1>6. Frames'
  BY DEF TypeOK, Frames, FrameOf, Resume, NoVectorPc, PrePc
<1>7. Probing'
  <2>1. g_boot_hartid # NoHart => boot_pc'[g_boot_hartid] = boot_pc[g_boot_hartid]
    BY DEF TypeOK, Election, EarlyPc, LatePc
  <2>2. g_boot_hartid' = g_boot_hartid /\ probe' = probe /\ illegal' = illegal
    OBVIOUS
  <2> QED
    BY ONLY <2>1, <2>2, Probing DEF Probing
<1>8. ProbeVerdicts'
  BY DEF ProbeVerdicts
<1> QED
  BY <1>1, <1>2, <1>3, <1>4, <1>5, <1>6, <1>7, <1>8

\* Clearing the BSS leads from any contents of it into the inductive invariant.
LEMMA ClearedInv ==
  ASSUME BootAssumption, Cold, NEW b \in HartId, _start(b)
  PROVE  IInv'
<1>1. /\ boot_pc' = [h \in HartId |-> IF h = b THEN "per_hart_start" ELSE "parked"]
      /\ g_boot_hartid' = NoHart /\ smp_boot_done' = FALSE /\ online' = {}
      /\ hsm' = [h \in HartId |-> "STOPPED"] /\ stvec' = {}
      /\ cur_tf' = [h \in HartId |-> "none"] /\ idle_sepc' = [h \in HartId |-> "zero"]
      /\ sie' = [h \in HartId |-> FALSE]
      /\ boot_enabled' = [h \in HartId |-> {}] /\ boot_pending' = [h \in HartId |-> {}]
  BY DEF Cold, _start, At, Go, irq_bits
<1>2. /\ probe' = [i |-> 1, enabled |-> FALSE, hit |-> FALSE, verdict |-> <<>>]
      /\ probe'.i = 1 /\ probe'.verdict = <<>>
  BY DEF Cold, _start
<1>3. probe' \in ProbeRecord
  <2>1. <<>> \in Seq({"OK", "ILLEGAL", "SKIP"}) /\ 1 \in 1 .. 6
    OBVIOUS
  <2> QED
    BY <2>1, <1>2, ProbeMake
<1>4. TypeOK'
  BY <1>1, <1>3 DEF TypeOK, NoHart, PrePc, Irqs
<1>5. Election'
  BY <1>1 DEF Election, NoHart, PrePc, SecondaryPc
<1>6. Alone' /\ Online'
  BY <1>1 DEF Alone, Online
<1>7. Staged'
  BY <1>1 DEF Staged
<1>8. Frames'
  BY <1>1 DEF Frames, FrameOf, Resume, NoVectorPc, PrePc, NoHart
<1>9. Probing'
  <2>1. Len(probe'.verdict) = probe'.i - 1
    BY ONLY <1>2
  <2> QED
    BY ONLY <2>1, <1>1, <1>2 DEF Probing
<1>10. ProbeVerdicts'
  <2>1. DOMAIN probe'.verdict = {}
    BY ONLY <1>2
  <2> QED
    BY ONLY <2>1 DEF ProbeVerdicts
<1> QED
  BY <1>4, <1>5, <1>6, <1>7, <1>8, <1>9, <1>10 DEF IInv

\* Nothing but _start happens before it.
LEMMA ColdNext ==
  ASSUME BootAssumption, Cold, [BootNext]_boot_vars
  PROVE  Cold' \/ IInv'
<1>1. CASE UNCHANGED boot_vars
  BY <1>1 DEF Cold, boot_vars, smp, trap, irq_bits
<1>2. \A h \in HartId : boot_pc[h] \in {"_start", "parked"} /\ hsm[h] = "STOPPED"
                        /\ h # g_boot_hartid /\ boot_pending[h] = {}
  BY DEF Cold, BootAssumption, NoHart
<1>3. ASSUME NEW h \in HartId, Code(h) PROVE _start(h)
  BY <1>2, <1>3 DEF Code, per_hart_start, cpu_init_this_hart, kernel_main, trap_init, cpu_enter_idle,
     arch_enable_timer_interrupts, arch_enable_external_interrupts, arch_enable_software_interrupts,
     arch_first_switch, call_platform_init, call_platform_boot_hart_init, Initialise,
     trap_install_bootstrap_tf, time_init, threads_init, set_smp_boot_done, start_other_harts,
     wait_online, probe_enter, probe_clear, probe_insn, probe_log, wait_for_smp_boot_done,
     call_platform_secondary_hart_init, At
<1>4. \A h \in HartId : ~hart_starts(h) /\ ~schedule(h)
  BY <1>2 DEF hart_starts, schedule, At
<1>5. \A h \in HartId, i \in Irqs : ~irq_raised(h, i) /\ ~interrupt(h, i)
  BY <1>2 DEF irq_raised, interrupt
<1>6. \A h, g \in HartId : ~smp_kick_hart(h, g)
  BY <1>2 DEF smp_kick_hart, At
<1> QED
  BY <1>1, <1>3, <1>4, <1>5, <1>6, ClearedInv DEF BootNext

\* Every step keeps it.
LEMMA NextInv ==
  ASSUME BootAssumption, IInv, [BootNext]_boot_vars
  PROVE  IInv'
<1>1. CASE UNCHANGED boot_vars
  <2> USE <1>1 DEF boot_vars, smp, trap, irq_bits
  <2>1. TypeOK'
    BY DEF IInv, TypeOK
  <2>2. Election' /\ Alone' /\ Online' /\ Staged'
    BY DEF IInv, Election, Alone, Online, Staged
  <2>3. Frames'
    BY DEF IInv, Frames, FrameOf, Resume
  <2>4. Probing' /\ ProbeVerdicts'
    BY DEF IInv, Probing, ProbeVerdicts
  <2> QED
    BY <2>1, <2>2, <2>3, <2>4 DEF IInv
<1>s. ASSUME NEW h \in HartId, _start(h) PROVE IInv'
  BY <1>s DEF _start, At, IInv, TypeOK, PrePc, EarlyPc, LatePc, SecondaryPc
<1>2. ASSUME NEW h \in HartId, Code(h) PROVE IInv'
  BY <1>2, <1>s, Keeps_per_hart_start, Keeps_cpu_init_this_hart, Keeps_kernel_main, Keeps_trap_init, Keeps_cpu_enter_idle,
     Keeps_arch_enable_timer_interrupts, Keeps_arch_enable_external_interrupts,
     Keeps_arch_enable_software_interrupts, Keeps_arch_first_switch, Keeps_call_platform_init,
     Keeps_call_platform_boot_hart_init, Keeps_trap_install_bootstrap_tf, Keeps_time_init,
     Keeps_threads_init, Keeps_set_smp_boot_done, Keeps_start_other_harts, Keeps_wait_online,
     Keeps_probe_enter, Keeps_probe_clear, Keeps_probe_insn, Keeps_probe_log,
     Keeps_wait_for_smp_boot_done, Keeps_call_platform_secondary_hart_init, Zenon DEF Code
<1>3. ASSUME NEW h \in HartId, NEW i \in Irqs, irq_raised(h, i) PROVE IInv'
  BY <1>3, Keeps_pending DEF irq_raised
<1>4. ASSUME NEW h \in HartId, NEW g \in HartId, smp_kick_hart(h, g) PROVE IInv'
  BY <1>4, Keeps_pending DEF smp_kick_hart, Irqs
<1> QED
  BY <1>1, <1>2, <1>3, <1>4, Keeps_hart_starts, Keeps_schedule, Keeps_interrupt, Zenon DEF BootNext

\* What the inductive invariant says of a hart is what coming up safely means.
LEMMA InvSafe ==
  ASSUME BootAssumption, IInv
  PROVE  BootSafe
<1> USE DEF IInv
<1>1. TrapHasFrame
  BY DEF TrapHasFrame, TypeOK, PrePc, EarlyPc, LatePc, SecondaryPc
<1>2. InitBeforeUse
  <2> SUFFICES ASSUME NEW h \in HartId
               PROVE  /\ cur_tf[h] \in {"idle", "thread"} =>
                           "threads" \in ready /\ idle_sepc[h] # "zero"
                      /\ h \in online \ {g_boot_hartid} /\ g_boot_hartid # NoHart =>
                           {"dtb", "plic", "handlers", "time", "threads"} \subseteq ready
                      /\ "seip" \in boot_enabled[h] => "handlers" \in ready
    BY DEF InitBeforeUse
  <2>1. smp_boot_done => All \subseteq ready
    BY DEF Staged
  <2>2. cur_tf[h] \in {"idle", "thread"} => smp_boot_done /\ idle_sepc[h] # "zero"
    BY DEF Frames, FrameOf, Resume
  <2>3. "seip" \in boot_enabled[h] => smp_boot_done
    BY DEF Frames, FrameOf
  <2>4. h \in online \ {g_boot_hartid} /\ g_boot_hartid # NoHart => smp_boot_done
    <3>1. g_boot_hartid # NoHart => g_boot_hartid \in HartId /\ boot_pc[g_boot_hartid] # "parked"
      BY DEF TypeOK, Election, EarlyPc, LatePc
    <3> QED
      BY <3>1 DEF Alone, Online
  <2> QED
    BY <2>1, <2>2, <2>3, <2>4 DEF All
<1>3. StackKept
  BY DEF StackKept, Election, Probing, SecondaryPc, PrePc, LatePc, TypeOK
<1> QED
  BY <1>1, <1>2, <1>3 DEF BootSafe

\* Before _start there is nothing that could go wrong.
LEMMA ColdSafe ==
  ASSUME BootAssumption, Cold
  PROVE  BootSafe
<1>1. TrapHasFrame /\ InitBeforeUse /\ StackKept
  BY DEF Cold, TrapHasFrame, InitBeforeUse, StackKept
<1>2. ProbeVerdicts
  <2>1. DOMAIN probe.verdict = {}
    BY DEF Cold
  <2> QED
    BY ONLY <2>1 DEF ProbeVerdicts
<1> QED
  BY <1>1, <1>2 DEF BootSafe

\* What each hart that runs kernel_main relies on at each of its steps, for any
\* number of harts that come up in any order, late or never.
THEOREM BootInvariant ==
  ASSUME BootAssumption
  PROVE  BootSpec => [](Cold \/ IInv)
<1>1. BootInit => Cold
  BY DEF BootInit, Cold
<1>2. (Cold \/ IInv) /\ [BootNext]_boot_vars => (Cold \/ IInv)'
  BY NextInv, ColdNext
<1> QED
  BY <1>1, <1>2, PTL DEF BootSpec

\* Coming up is safe: no trap finds a hart without a frame to save into, no hart
\* uses what the boot hart has not initialised, and the ISA probe reports an
\* instruction as legal exactly if the core has it.
THEOREM BootIsSafe ==
  ASSUME BootAssumption
  PROVE  BootSpec => []BootSafe
<1>1. Cold \/ IInv => BootSafe
  BY InvSafe, ColdSafe
<1> QED
  BY <1>1, BootInvariant, PTL
=============================================================================

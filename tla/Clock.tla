------------------------------- MODULE Clock -------------------------------
(***************************************************************************)
(* Time in ccos: the counter behind the time CSR, the timebase frequency   *)
(* from the device tree, the clocks of kernel/time.c as user programs read *)
(* them, and the timer that drives the scheduler.  The counter may advance *)
(* between any two steps.  NSEC_PER_SEC and MSEC_PER_SEC are scaled down;  *)
(* with a 32-bit frequency no product exceeds 64 bits.                     *)
(***************************************************************************)
EXTENDS Integers

CONSTANTS
  NSEC_PER_SEC, MSEC_PER_SEC,
  FdtHz,       \* what the device tree may say, 0 when it says nothing
  DEFAULT_HZ,
  MaxTicks     \* bound of the counter

ClockAssumption ==
  /\ NSEC_PER_SEC \in Nat \ {0} /\ MSEC_PER_SEC \in Nat \ {0} /\ DEFAULT_HZ \in Nat \ {0}
  /\ FdtHz \subseteq Nat /\ MaxTicks \in Nat

ClockId == {"CLOCK_REALTIME", "CLOCK_MONOTONIC"}
Never == -1  \* the timer is stopped (set_timer(~0)), or a clock not read yet

VARIABLES
  time,          \* the counter
  fdt_hz, g_timebase_hz,
  boot_real_ns,  \* -1 before time_init
  ts,            \* the last timespec read from each clock
  read_at,       \* auxiliary: the counter at these reads, Never before
  timecmp,       \* when the timer fires
  arming,        \* the counter that timer_start_after has read, or Never
  fired          \* auxiliary: the counter at the last timer interrupt
clocks == <<fdt_hz, boot_real_ns, ts, read_at>>
timer == <<timecmp, arming, fired>>
clock_vars == <<time, g_timebase_hz, clocks, timer>>

ClockInit ==
  /\ time = 0 /\ fdt_hz \in FdtHz /\ g_timebase_hz = 0
  /\ boot_real_ns = -1
  /\ ts = [c \in ClockId |-> [tv_sec |-> 0, tv_nsec |-> 0]] /\ read_at = [c \in ClockId |-> Never]
  /\ timecmp = Never /\ arming = Never /\ fired = Never

advance == time < MaxTicks /\ time' = time + 1 /\ UNCHANGED <<g_timebase_hz, clocks, timer>>

\* Looked up once, with a default when the device tree has nothing to say.
platform_timebase_hz == IF g_timebase_hz # 0 THEN g_timebase_hz
                        ELSE IF fdt_hz # 0 THEN fdt_hz ELSE DEFAULT_HZ
CacheHz == g_timebase_hz' = platform_timebase_hz

\* The remainder is converted before it is divided.
Bad_platform_rtc_read_ns ==
  LET hz == platform_timebase_hz
      sec == time \div hz
      rem == time - sec * hz
  IN  sec * NSEC_PER_SEC + rem * (NSEC_PER_SEC \div hz) + rem
platform_rtc_read_ns ==
  LET hz == platform_timebase_hz
      sec == time \div hz
      rem == time - sec * hz
  IN  sec * NSEC_PER_SEC + (rem * NSEC_PER_SEC) \div hz

time_init ==
  /\ boot_real_ns = -1
  /\ boot_real_ns' = platform_rtc_read_ns /\ CacheHz
  /\ UNCHANGED <<time, fdt_hz, ts, read_at, timer>>

\* ktime_get_real_ts and ktime_get_monotonic_ts.
ktime_get_ts(c) ==
  LET ns == IF c = "CLOCK_REALTIME" THEN platform_rtc_read_ns ELSE platform_rtc_read_ns - boot_real_ns
  IN  [tv_sec |-> ns \div NSEC_PER_SEC, tv_nsec |-> ns % NSEC_PER_SEC]

\* Another clock is an error, and nothing is stored.
sys_clock_gettime(c) ==
  /\ boot_real_ns # -1
  /\ ts' = [ts EXCEPT ![c] = ktime_get_ts(c)]
  /\ read_at' = [read_at EXCEPT ![c] = time]
  /\ CacheHz
  /\ UNCHANGED <<time, fdt_hz, boot_real_ns, timer>>

----------------------------------------------------------------------------
platform_sched_delta_ticks ==
  LET ticks == platform_timebase_hz \div MSEC_PER_SEC IN IF ticks = 0 THEN 1 ELSE ticks

\* timer_start_after reads the counter and then sets the timer: when the boot
\* hart goes idle for the first time, and at every timer interrupt.
timer_now(first) ==
  /\ arming = Never
  /\ IF first THEN timecmp = Never /\ fired = Never /\ UNCHANGED fired
     ELSE timecmp # Never /\ time >= timecmp /\ fired' = time
  /\ arming' = time
  /\ UNCHANGED <<time, g_timebase_hz, clocks, timecmp>>

timer_start_at ==
  /\ arming # Never
  /\ timecmp' = arming + platform_sched_delta_ticks /\ CacheHz
  /\ arming' = Never
  /\ UNCHANGED <<time, clocks, fired>>

timer_stop ==
  /\ arming = Never /\ timecmp # Never
  /\ timecmp' = Never
  /\ UNCHANGED <<time, g_timebase_hz, clocks, arming, fired>>

ClockNext == \/ advance \/ time_init \/ timer_start_at \/ timer_stop
             \/ \E c \in ClockId : sys_clock_gettime(c)
             \/ \E first \in BOOLEAN : timer_now(first)

ClockSpec == ClockInit /\ [][ClockNext]_clock_vars

----------------------------------------------------------------------------
Ns(t) == t.tv_sec * NSEC_PER_SEC + t.tv_nsec

\* A clock read by a program is the counter in nanoseconds, rounded down once:
\* splitting it into seconds and a rest to stay within 64 bits, and the two
\* conversions, lose nothing; and the nanoseconds are less than a second.
TimeExact ==
  \A c \in ClockId : read_at[c] # Never =>
    LET exact == (read_at[c] * NSEC_PER_SEC) \div g_timebase_hz
    IN  /\ ts[c].tv_nsec \in 0 .. NSEC_PER_SEC - 1
        /\ Ns(ts[c]) = IF c = "CLOCK_REALTIME" THEN exact ELSE exact - boot_real_ns

\* No clock ever goes back, whichever reads come between.
NeverBack == [][\A c \in ClockId : Ns(ts'[c]) >= Ns(ts[c])]_clock_vars

\* Between two timer interrupts there is at least one slice, of at least one
\* tick, so the timer cannot keep a hart in its handler.
TicksSpaced ==
  [][arming = Never /\ arming' # Never /\ fired # Never =>
       time - fired >= 1 /\ time - fired >= g_timebase_hz \div MSEC_PER_SEC]_clock_vars

\* Clocks are exact, never go back, and the timer cannot storm (time.c,
\* platform_rtc_read_ns, platform_sched_delta_ticks).
TimeRight == [][TimeExact']_clock_vars /\ NeverBack /\ TicksSpaced
=============================================================================

------------------------------- MODULE Clock -------------------------------
(***************************************************************************)
(* The uptime clock: the periodic timers of the local APICs, their tick    *)
(* handler and get_uptime_us (src/apic.cpp), read by clock_gettime on the  *)
(* boot processor, the only one that enters user mode.                     *)
(*                                                                         *)
(* A timer (external) counts down from timer_period_ticks, reloads and     *)
(* raises its interrupt.  User code is open to it; a system call is not    *)
(* (SYSCALL_FMASK), so that the counter may have been reloaded while the   *)
(* interrupt that accounts for it is still pending.  All processors add to *)
(* the one base, each with a load and a store of its own.                  *)
(***************************************************************************)
EXTENDS Naturals, Sequences

CONSTANTS
  Cpu, BSP,
  timer_period_ticks,  \* counts of a period
  timer_ticks_per_ms,
  MaxTime              \* bound: counts a behaviour lasts

VARIABLES
  now,                 \* counts since the start
  counter,             \* TIMER_CUR_CNT of each processor
  pending,             \* the processors whose timer interrupt waits
  ticking,             \* the processors within timer_tick
  loaded,              \* what each has loaded to add to
  g_uptime_us_base,
  call,                \* "user", "entered" or "base": where clock_gettime is
  base,                \* the local variable of get_uptime_us
  results              \* the last two values clock_gettime returned

timers == << now, counter >>
ticks == << ticking, loaded >>
vars == << now, counter, pending, ticking, loaded, g_uptime_us_base, call, base, results >>

us(n) == (n * 1000) \div timer_ticks_per_ms

\* The processors start their timers at different times.
Init ==
  /\ now = 0
  /\ counter \in [Cpu -> 1 .. timer_period_ticks] /\ counter[BSP] = timer_period_ticks
  /\ pending = {} /\ ticking = {} /\ loaded = [c \in Cpu |-> 0]
  /\ g_uptime_us_base = 0
  /\ call = "user" /\ base = 0
  /\ results = << 0, 0 >>

\* The periodic timers count.
Count ==
  /\ now < MaxTime
  /\ now' = now + 1
  /\ counter' = [c \in Cpu |-> IF counter[c] = 1 THEN timer_period_ticks ELSE counter[c] - 1]
  /\ pending' = pending \cup { c \in Cpu : counter[c] = 1 }
  /\ UNCHANGED << ticks, g_uptime_us_base, call, base, results >>

\* The interrupt, taken outside system calls: timer_tick loads the base, ...
TickLoads(c) ==
  /\ c \in pending \ ticking /\ (c = BSP => call = "user")
  /\ pending' = pending \ {c}
  /\ ticking' = ticking \cup {c}
  /\ loaded' = [loaded EXCEPT ![c] = g_uptime_us_base]
  /\ UNCHANGED << timers, g_uptime_us_base, call, base, results >>

\* ... and stores the sum, over whatever others have stored since.
timer_tick(c) ==
  /\ c \in ticking
  /\ g_uptime_us_base' = loaded[c] + us(timer_period_ticks)
  /\ ticking' = ticking \ {c}
  /\ UNCHANGED << timers, pending, loaded, call, base, results >>

\* A pending interrupt is taken before user code executes its next instruction.
sys_clock_gettime ==
  /\ call = "user" /\ BSP \notin pending \cup ticking
  /\ call' = "entered"
  /\ UNCHANGED << timers, pending, ticks, g_uptime_us_base, base, results >>

\* get_uptime_us reads the base first, ...
ReadBase ==
  /\ call = "entered"
  /\ call' = "base"
  /\ base' = g_uptime_us_base
  /\ UNCHANGED << timers, pending, ticks, g_uptime_us_base, results >>

consumed_ticks ==
  IF counter[BSP] <= timer_period_ticks THEN timer_period_ticks - counter[BSP] ELSE 0

\* ... then the counter.
get_uptime_us ==
  /\ call = "base"
  /\ call' = "user"
  /\ results' = << results[2], base + us(consumed_ticks) >>
  /\ UNCHANGED << timers, pending, ticks, g_uptime_us_base, base >>

Next ==
  \/ Count \/ sys_clock_gettime \/ ReadBase \/ get_uptime_us
  \/ \E c \in Cpu : TickLoads(c) \/ timer_tick(c)

Spec == Init /\ [][Next]_vars

\* The comment at clock_gettime calls the clock CLOCK_MONOTONIC: no call returns
\* less than the call before it.
ClockMonotonic == results[1] <= results[2]
=============================================================================

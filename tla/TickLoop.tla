------------------------------ MODULE TickLoop ------------------------------
(***************************************************************************)
(* The sample loop of Src/main.c (lines 144-283) with the millisecond      *)
(* counter of Src/systick.c: an absolute-deadline schedule kept in         *)
(* wrapping 32-bit numbers, the rate, start and stop commands that change  *)
(* it, and the barometer that runs on one tick out of env_decimate.        *)
(*                                                                         *)
(* Time passes in SysTick_Handler() only.  Each point at which the loop    *)
(* reads the clock or changes what it remembers is an action; whatever     *)
(* blocks (console, SD card, the 43 ms conversion) is the ticks that may   *)
(* fall between two actions.                                               *)
(***************************************************************************)
EXTENDS Word

CONSTANTS
  SECOND,            \* milliseconds in a second, 1000
  RATE_HZ_DEFAULT, RATE_HZ_MIN, RATE_HZ_MAX,
  RateArg,           \* arguments of "rate" that reach the loop
  StartTime,         \* values of ms_ticks when bring-up is over
  MaxLag,            \* bound: how far behind its schedule the loop may fall
  MaxOverruns        \* bound: overruns after which nothing is late any more

Rate == RATE_HZ_MIN .. RATE_HZ_MAX

(* MaxLag is what makes the schedule work: the code relies on the loop     *)
(* never being 2^31 ms, 24.8 days, behind.                                 *)
ASSUME TickLoopAssumption ==
  /\ SECOND \in Nat /\ MaxLag \in Nat /\ MaxOverruns \in Nat
  /\ RATE_HZ_MIN \in Nat \ {0} /\ RATE_HZ_MAX \in Nat /\ RATE_HZ_MAX <= SECOND
  /\ RATE_HZ_DEFAULT \in Rate
  /\ RateArg \subseteq Int
  /\ StartTime \subseteq 0 .. WordMod - 1
  /\ SECOND <= WordMod \div 2 /\ MaxLag < WordMod \div 2

VARIABLES
  ms_ticks,          \* the counter of systick.c
  pc,                \* the next point of the loop to be reached
  next_sample,
  rate_hz, tick_ms, env_decimate, logging_enabled,
  tick, overruns,
  t_ms,              \* a local of the iteration
  env_valid, env_fresh,
  \* History:
  row,               \* the row written by this iteration, NoRow before
  lag,               \* real milliseconds since the schedule was started,
                     \* less tick_ms for each iteration begun since
  counted,           \* this iteration was counted as an overrun
  sched,             \* tick_ms of the iterations begun since the barometer's
                     \* last turn, up to 2 * SECOND
  changed,           \* the rate was set since the barometer's last turn
  measured           \* a conversion succeeded in this iteration

schedule == << next_sample, rate_hz, tick_ms, env_decimate >>
envVars  == << env_valid, env_fresh, measured >>
vars == << ms_ticks, pc, schedule, logging_enabled, tick, overruns, t_ms,
           envVars, row, lag, counted, sched, changed >>

NoRow == [t_ms |-> 0, env |-> FALSE, written |-> FALSE]

(* mutant: the counter and the deadline compared as numbers *)
BehindUnsigned == ms_ticks - next_sample

(* (int32_t)(systick_millis() - next_sample) *)
Behind == AsSigned(Minus(ms_ticks, next_sample))

BarometerTurn == tick % env_decimate = 0

Init ==
  /\ ms_ticks \in StartTime
  /\ pc = "start" /\ next_sample = 0
  /\ rate_hz = RATE_HZ_DEFAULT
  /\ tick_ms = SECOND \div RATE_HZ_DEFAULT
  /\ env_decimate = RATE_HZ_DEFAULT
  /\ logging_enabled = TRUE
  /\ tick = 0 /\ overruns = 0 /\ t_ms = 0
  /\ env_valid = FALSE /\ env_fresh = FALSE
  /\ row = NoRow /\ lag = 0 /\ counted = FALSE
  /\ sched = 0 /\ changed = FALSE /\ measured = FALSE

-----------------------------------------------------------------------------
(* ms_ticks++.  The loop reads the counter many times a millisecond while  *)
(* it spins at line 170: once the deadline is there, at most one tick      *)
(* falls before the spin sees it.                                          *)
SysTick_Handler ==
  /\ pc = "wait" => lag <= 0
  /\ lag < (IF overruns < MaxOverruns THEN MaxLag ELSE 0)
  /\ ms_ticks' = Plus(ms_ticks, 1)
  /\ lag' = IF pc = "start" THEN 0 ELSE lag + 1
  /\ UNCHANGED << pc, schedule, logging_enabled, tick, overruns, t_ms,
                  envVars, row, counted, sched, changed >>

(* uint32_t next_sample = systick_millis(); *)
Start ==
  /\ pc = "start"
  /\ next_sample' = ms_ticks
  /\ pc' = "check"
  /\ UNCHANGED << ms_ticks, rate_hz, tick_ms, env_decimate, logging_enabled,
                  tick, overruns, t_ms, envVars, row, lag, counted,
                  sched, changed >>

(* Already past the deadline: the previous tick overran. *)
Check ==
  /\ pc = "check"
  /\ counted' = (Behind > 0)
  /\ overruns' = IF counted' THEN Plus(overruns, 1) ELSE overruns
  /\ pc' = "wait"
  /\ UNCHANGED << ms_ticks, schedule, logging_enabled, tick, t_ms, envVars,
                  row, lag, sched, changed >>

(* The spin ends at the deadline, and the deadline moves by one period. *)
Step(deadline) ==
  /\ pc = "wait"
  /\ Behind >= 0
  /\ next_sample' = deadline
  /\ lag' = lag - tick_ms
  /\ sched' = IF sched + tick_ms < 2 * SECOND THEN sched + tick_ms
              ELSE 2 * SECOND
  /\ row' = NoRow /\ measured' = FALSE
  /\ pc' = "poll"
  /\ UNCHANGED << ms_ticks, rate_hz, tick_ms, env_decimate, logging_enabled,
                  tick, overruns, t_ms, env_valid, env_fresh, counted,
                  changed >>

(* mutant: the deadline stepped from now, so that every delay adds up *)
WaitRelative == Step(Plus(ms_ticks, tick_ms))

(* mutant: a deadline wider than the counter *)
WaitUnwrapped == Step(next_sample + tick_ms)

Wait == Step(Plus(next_sample, tick_ms))

(* mutant: the barometer keeps the decimation of the old rate *)
SetRateOnly(hz) ==
  /\ pc = "poll"
  /\ hz \in Rate
  /\ rate_hz' = hz
  /\ tick_ms' = SECOND \div hz
  /\ next_sample' = Plus(ms_ticks, tick_ms')
  /\ lag' = -tick_ms'
  /\ changed' = TRUE
  /\ pc' = "stamp"
  /\ UNCHANGED << ms_ticks, env_decimate, logging_enabled, tick, overruns,
                  t_ms, envVars, row, counted, sched >>

(* uart_cmd_poll() and the switch on its command. *)
SetRate(hz) ==
  /\ pc = "poll"
  /\ hz \in Rate
  /\ rate_hz' = hz
  /\ tick_ms' = SECOND \div hz
  /\ env_decimate' = hz
  /\ next_sample' = Plus(ms_ticks, tick_ms')
  /\ lag' = -tick_ms'
  /\ changed' = TRUE
  /\ pc' = "stamp"
  /\ UNCHANGED << ms_ticks, logging_enabled, tick, overruns, t_ms, envVars,
                  row, counted, sched >>

EnableLogging(on) ==
  /\ pc = "poll"
  /\ logging_enabled' = on
  /\ pc' = "stamp"
  /\ UNCHANGED << ms_ticks, schedule, tick, overruns, t_ms, envVars, row,
                  lag, counted, sched, changed >>

(* No command, "status", or a rate out of range: messages only. *)
NoChange ==
  /\ pc = "poll"
  /\ pc' = "stamp"
  /\ UNCHANGED << ms_ticks, schedule, logging_enabled, tick, overruns, t_ms,
                  envVars, row, lag, counted, sched, changed >>

Command ==
  \/ \E hz \in RateArg : SetRate(hz)
  \/ \E on \in BOOLEAN : EnableLogging(on)
  \/ NoChange

(* t_ms = systick_millis(), then the accelerometer. *)
Stamp ==
  /\ pc = "stamp"
  /\ t_ms' = ms_ticks
  /\ pc' = "sense"
  /\ UNCHANGED << ms_ticks, schedule, logging_enabled, tick, overruns,
                  envVars, row, lag, counted, sched, changed >>

(* mutant: the tick counted only while logging is on *)
SensePaused ==
  /\ pc = "sense"
  /\ \E ok \in IF BarometerTurn THEN BOOLEAN ELSE {FALSE} :
       /\ measured' = ok
       /\ env_fresh' = ok
       /\ env_valid' = (env_valid \/ ok)
  /\ sched' = IF BarometerTurn THEN 0 ELSE sched
  /\ changed' = (changed /\ ~BarometerTurn)
  /\ tick' = IF logging_enabled THEN Plus(tick, 1) ELSE tick
  /\ pc' = "log"
  /\ UNCHANGED << ms_ticks, schedule, logging_enabled, overruns, t_ms, row,
                  lag, counted >>

(* mutant: the row says whether the barometer was ever read *)
SenseHeld ==
  /\ pc = "sense"
  /\ \E ok \in IF BarometerTurn THEN BOOLEAN ELSE {FALSE} :
       /\ measured' = ok
       /\ env_fresh' = (env_valid \/ ok)
       /\ env_valid' = (env_valid \/ ok)
  /\ sched' = IF BarometerTurn THEN 0 ELSE sched
  /\ changed' = (changed /\ ~BarometerTurn)
  /\ tick' = Plus(tick, 1)
  /\ pc' = "log"
  /\ UNCHANGED << ms_ticks, schedule, logging_enabled, overruns, t_ms, row,
                  lag, counted >>

(* The barometer on its turn, with a conversion that succeeds or not. *)
Sense ==
  /\ pc = "sense"
  /\ \E ok \in IF BarometerTurn THEN BOOLEAN ELSE {FALSE} :
       /\ measured' = ok
       /\ env_fresh' = ok
       /\ env_valid' = (env_valid \/ ok)
  /\ sched' = IF BarometerTurn THEN 0 ELSE sched
  /\ changed' = (changed /\ ~BarometerTurn)
  /\ tick' = Plus(tick, 1)
  /\ pc' = "log"
  /\ UNCHANGED << ms_ticks, schedule, logging_enabled, overruns, t_ms, row,
                  lag, counted >>

(* The row and the line on the console; a failed write is only reported. *)
Log ==
  /\ pc = "log"
  /\ row' = IF logging_enabled
            THEN [t_ms |-> t_ms, env |-> env_fresh, written |-> TRUE]
            ELSE NoRow
  /\ t_ms' = 0 /\ env_fresh' = FALSE         \* out of scope
  /\ pc' = "check"
  /\ UNCHANGED << ms_ticks, schedule, logging_enabled, tick, overruns,
                  env_valid, measured, lag, counted, sched, changed >>

Loop == Start \/ Check \/ Wait \/ Command \/ Stamp \/ Sense \/ Log

Next == SysTick_Handler \/ Loop

Spec == Init /\ [][Next]_vars

(* The hardware timer never stops, and nothing in the loop waits for ever. *)
FairSpec == Spec /\ WF_vars(SysTick_Handler) /\ WF_vars(Loop)
-----------------------------------------------------------------------------
(* Type invariant. *)
TypeOK ==
  /\ ms_ticks \in 0 .. WordMod - 1
  /\ pc \in {"start", "check", "wait", "poll", "stamp", "sense", "log"}
  /\ next_sample \in 0 .. WordMod - 1
  /\ rate_hz \in Rate /\ tick_ms \in 1 .. SECOND /\ env_decimate \in Rate
  /\ logging_enabled \in BOOLEAN
  /\ tick \in 0 .. WordMod - 1 /\ overruns \in 0 .. WordMod - 1
  /\ t_ms \in 0 .. WordMod - 1
  /\ env_valid \in BOOLEAN /\ env_fresh \in BOOLEAN /\ measured \in BOOLEAN
  /\ row \in [t_ms : 0 .. WordMod - 1, env : BOOLEAN, written : BOOLEAN]
  /\ lag \in -SECOND .. MaxLag
  /\ counted \in BOOLEAN /\ changed \in BOOLEAN
  /\ sched \in 0 .. 2 * SECOND

(* Lines 168-170: the signed difference of the two wrapping numbers is the *)
(* real distance to the deadline, before, at and after the counter's wrap, *)
(* whatever rates were set in between.                                     *)
LagIsMeasured == pc # "start" => Behind = lag

(* Lines 163-171: an iteration never begins before its turn, and one that  *)
(* was not counted as an overrun begins within a millisecond of it: the    *)
(* delays of earlier iterations do not add up and none goes uncounted.     *)
OnSchedule ==
  [][pc = "wait" /\ pc' # "wait" =>
       /\ lag >= 0
       /\ lag > 1 => counted
       /\ counted => lag > 0]_vars

(* Lines 150-155, 186-193: within one rate the barometer's turns are       *)
(* env_decimate periods apart, a second less the rounding of tick_ms.  Its *)
(* first turn is at the first tick, and there is one more off the beat     *)
(* when the tick counter wraps.                                            *)
Turn == pc = "sense" /\ BarometerTurn
BarometerKeepsItsBeat ==
  Turn /\ tick # 0 /\ ~changed => sched \in SECOND - rate_hz + 1 .. SECOND

(* README, "Absent samples are written empty, never held"; main.c:221-233: *)
(* a row has barometer fields exactly when a conversion succeeded in its   *)
(* own iteration, and its stamp was taken after its deadline.              *)
RowIsOfThisTick ==
  row.written =>
    /\ row.env <=> measured
    /\ Minus(ms_ticks, row.t_ms) <= lag + tick_ms

(* main.c:150: however often the loop is late, paused or resumed, the      *)
(* barometer gets its turn for ever once the rate is left alone.           *)
RateCommand == \E hz \in RateArg : SetRate(hz)
BarometerIsReadForEver == <>[][~RateCommand]_vars => []<>Turn
=============================================================================

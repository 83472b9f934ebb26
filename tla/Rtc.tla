-------------------------------- MODULE Rtc --------------------------------
(***************************************************************************)
(* Src/rtc.c against the backup domain of the STM32F407: the part of the   *)
(* chip that keeps time through a reset, with its oscillators, the locks   *)
(* on its registers and the shadow registers the calendar is read through. *)
(* A reset may come between any two writes.                                *)
(*                                                                         *)
(* The calendar is the number of ticks of the subsecond counter, counted   *)
(* down from PREDIV_S to 0 within a second; the firmware was built one     *)
(* second into day one.                                                    *)
(***************************************************************************)
EXTENDS Integers

CONSTANTS
  PREDIV_S,      \* 255 with the crystal, 249 with the RC oscillator
  SECS_PER_DAY,
  MaxTicks,      \* bound of the calendar
  MaxResets, MaxFaults

ASSUME RtcAssumption ==
  /\ PREDIV_S \in Nat /\ SECS_PER_DAY \in Nat \ {0}
  /\ MaxTicks \in Nat /\ MaxTicks >= (SECS_PER_DAY + 1) * (PREDIV_S + 1)
  /\ MaxResets \in Nat /\ MaxFaults \in Nat

VARIABLES
  bd,       \* backup domain: oscillator, RTCSEL, RTCEN, PRER, WPR open, BKP0R
  ticks,    \* the calendar behind TR, DR and SSR
  osc,      \* the oscillators that work
  lsion, dbp,    \* in the system domain: LSION, PWR_CR_DBP
  isr,      \* RTC_ISR: init, initf, rsf
  shadow, frozen,   \* the shadow registers; they wait for a read of DR
  pc,
  src, was_running, \* the variables of rtc.c
  ret,      \* what rtc_init() returned
  reg,      \* what rtc_now() has read
  now,      \* the last result of rtc_now(), at first tick 0
  resets, losses, faults    \* resets, those that lost the backup domain

rtcVars == << src, was_running, ret, reg, now >>
hwVars == << bd, ticks, osc, lsion, dbp, isr, shadow, frozen >>
vars == << bd, ticks, osc, lsion, dbp, isr, shadow, frozen, pc, src, was_running,
           ret, reg, now, resets, losses, faults >>
envVars == << osc, resets, losses, faults >>

None == "none"
Source == {"LSE", "LSI"}

(* What SSR, TR and DR hold at a tick, and the tick they stand for.        *)
Fields(n) ==
  [ssr |-> PREDIV_S - (n % (PREDIV_S + 1)),
   sec |-> (n \div (PREDIV_S + 1)) % SECS_PER_DAY,
   day |-> n \div ((PREDIV_S + 1) * SECS_PER_DAY)]
At(f) ==
  (f.day * SECS_PER_DAY + f.sec) * (PREDIV_S + 1) + PREDIV_S - f.ssr
BuildTime == [ssr |-> PREDIV_S, sec |-> 1 % SECS_PER_DAY, day |-> 1]
Cleared == [ssr |-> 0, sec |-> 0, day |-> 0]
NoFlags == [init |-> FALSE, initf |-> FALSE, rsf |-> FALSE]

(* The backup domain after a BDRST or without power. *)
Wiped == [lseon |-> FALSE, rtcsel |-> None, rtcen |-> FALSE, prer |-> "reset",
          open |-> FALSE, bkp |-> FALSE]

Runs(o, b, l) == o \in osc /\ (IF o = "LSE" THEN b.lseon ELSE l)
Ready(o) == Runs(o, bd, lsion)
Clocked == bd.rtcen /\ bd.rtcsel \in Source /\ Ready(bd.rtcsel)

Init ==
  /\ bd = Wiped /\ ticks = 0
  /\ osc \in {{"LSI"}, Source}
  /\ lsion = FALSE /\ dbp = FALSE
  /\ isr = NoFlags
  /\ shadow = Cleared /\ frozen = FALSE
  /\ pc = "boot" /\ src = None /\ was_running = FALSE /\ ret = None
  /\ reg = Cleared /\ now = Fields(0)
  /\ resets = 0 /\ losses = 0 /\ faults = 0

-----------------------------------------------------------------------------
(* Writes: to the backup domain with DBP, to the registers of the RTC also *)
(* with WPR open, to the calendar and the prescaler also in init mode.     *)
WriteBd(b) == bd' = IF dbp THEN b ELSE bd
Open == dbp /\ bd.open
WriteIsr(i) == isr' = IF Open THEN i ELSE isr
WriteInit(b, n) ==
  /\ bd' = IF Open /\ isr.initf THEN b ELSE bd
  /\ ticks' = IF Open /\ isr.initf THEN n ELSE ticks

SameClock == UNCHANGED << ticks, isr >>
SameRtc == UNCHANGED << was_running, reg, now >>
SameShadow == UNCHANGED << shadow, frozen >>

Return(code) == ret' = code /\ pc' = "run"

(* ensure_running(): switch the oscillator on; what follows waits for it.  *)
SwitchOn(o, b) ==
  IF o = "LSE" THEN bd' = [b EXCEPT !.lseon = TRUE] /\ UNCHANGED lsion
               ELSE bd' = b /\ lsion' = TRUE

(* BDRST, then LSEON for start_clock_source(). *)
WipeBd ==
  /\ bd' = [Wiped EXCEPT !.lseon = TRUE] /\ ticks' = 0
  /\ isr' = NoFlags /\ shadow' = Cleared

(* mutant: the magic is not looked at *)
BootCold ==
  /\ pc = "boot" /\ dbp' = TRUE
  /\ WipeBd
  /\ pc' = "lse" /\ UNCHANGED << lsion, src, was_running >>
  /\ UNCHANGED << frozen, ret, reg, now >> /\ UNCHANGED envVars

(* mutant: no BDRST before a cold start *)
BootNoBdrst ==
  /\ pc = "boot" /\ dbp' = TRUE
  /\ IF bd.bkp
     THEN /\ was_running' = TRUE /\ src' = bd.rtcsel
          /\ SwitchOn(bd.rtcsel, bd) /\ pc' = "warm"
     ELSE /\ bd' = [bd EXCEPT !.lseon = TRUE]
          /\ pc' = "lse" /\ UNCHANGED << lsion, src, was_running >>
  /\ UNCHANGED << ticks, isr, ret, reg, now >> /\ SameShadow /\ UNCHANGED envVars

(* The first two locks; then warm start or cold, by the magic in BKP0R.    *)
Boot ==
  /\ pc = "boot" /\ dbp' = TRUE
  /\ IF bd.bkp
     THEN /\ was_running' = TRUE /\ src' = bd.rtcsel
          /\ SwitchOn(bd.rtcsel, bd) /\ pc' = "warm"
          /\ UNCHANGED << ticks, isr, shadow >>
     ELSE /\ WipeBd
          /\ pc' = "lse" /\ UNCHANGED << lsion, src, was_running >>
  /\ UNCHANGED << frozen, ret, reg, now >> /\ UNCHANGED envVars

(* The source runs, or the wait ends: the oscillator has died.             *)
Warm ==
  /\ pc = "warm"
  /\ IF Ready(src)
     THEN WriteIsr([isr EXCEPT !.rsf = FALSE]) /\ pc' = "warmrsf" /\ UNCHANGED << src, ret >>
     ELSE src' = None /\ Return(None) /\ UNCHANGED isr
  /\ UNCHANGED << bd, ticks, lsion, dbp >> /\ SameRtc /\ SameShadow /\ UNCHANGED envVars

(* The shadow registers are in step, or will never be. *)
WarmSynced ==
  /\ pc = "warmrsf" /\ (isr.rsf \/ ~Clocked)
  /\ Return(src) /\ UNCHANGED src
  /\ UNCHANGED hwVars /\ SameRtc /\ UNCHANGED << resets, losses, faults >>

(* RTCSEL can be written once. *)
Select(o) == [bd EXCEPT !.rtcsel = IF @ = None THEN o ELSE @]

LseReady ==
  /\ pc = "lse" /\ Ready("LSE")
  /\ WriteBd(Select("LSE")) /\ src' = "LSE" /\ pc' = "unlock"
  /\ UNCHANGED << lsion, dbp, ret >> /\ SameClock /\ SameRtc /\ SameShadow /\ UNCHANGED envVars

(* A crystal that is slow to start is given up as one that is not fitted.  *)
LseTimeout ==
  /\ pc = "lse"
  /\ WriteBd([bd EXCEPT !.lseon = FALSE]) /\ lsion' = TRUE /\ pc' = "lsi"
  /\ UNCHANGED << dbp, src, ret >> /\ SameClock /\ SameRtc /\ SameShadow /\ UNCHANGED envVars

LsiReady ==
  /\ pc = "lsi" /\ Ready("LSI")
  /\ WriteBd(Select("LSI")) /\ src' = "LSI" /\ pc' = "unlock"
  /\ UNCHANGED << lsion, dbp, ret >> /\ SameClock /\ SameRtc /\ SameShadow /\ UNCHANGED envVars

LsiTimeout ==
  /\ pc = "lsi" /\ ~Ready("LSI")
  /\ src' = None /\ Return(None)
  /\ UNCHANGED << bd, lsion, dbp >> /\ SameClock /\ SameRtc /\ SameShadow /\ UNCHANGED envVars

(* mutant: the magic is written as soon as the registers are open *)
UnlockMarked ==
  /\ pc = "unlock" /\ pc' = "init"
  /\ WriteBd([bd EXCEPT !.rtcen = TRUE, !.open = TRUE, !.bkp = TRUE])
  /\ UNCHANGED << lsion, dbp, src, ret >> /\ SameClock /\ SameRtc /\ SameShadow
  /\ UNCHANGED envVars

(* RTCEN and the third lock. *)
Unlock ==
  /\ pc = "unlock" /\ WriteBd([bd EXCEPT !.rtcen = TRUE, !.open = TRUE]) /\ pc' = "init"
  /\ UNCHANGED << lsion, dbp, src, ret >> /\ SameClock /\ SameRtc /\ SameShadow
  /\ UNCHANGED envVars

EnterInit ==
  /\ pc = "init" /\ WriteIsr([isr EXCEPT !.init = TRUE]) /\ pc' = "initf"
  /\ UNCHANGED << bd, ticks, lsion, dbp, src, ret >> /\ SameRtc /\ SameShadow
  /\ UNCHANGED envVars

(* mutant: the wait for INITF is not checked *)
InitTimeoutIgnored ==
  /\ pc = "initf" /\ ~isr.initf /\ ~Clocked
  /\ pc' = "time" /\ UNCHANGED << bd, ret >>
  /\ UNCHANGED << lsion, dbp, src >> /\ SameClock /\ SameRtc /\ SameShadow /\ UNCHANGED envVars

(* INITF never comes when the oscillator has died. *)
InitTimeout ==
  /\ pc = "initf" /\ ~isr.initf /\ ~Clocked
  /\ WriteBd([bd EXCEPT !.open = FALSE]) /\ Return(None)
  /\ UNCHANGED << lsion, dbp, src >> /\ SameClock /\ SameRtc /\ SameShadow /\ UNCHANGED envVars

SetPrescaler ==
  /\ pc = "initf" /\ isr.initf
  /\ WriteInit([bd EXCEPT !.prer = src], ticks) /\ pc' = "time"
  /\ UNCHANGED << isr, lsion, dbp, src, ret >> /\ SameRtc /\ SameShadow /\ UNCHANGED envVars

SetTime ==
  /\ pc = "time"
  /\ WriteInit(bd, At([BuildTime EXCEPT !.day = Fields(ticks).day])) /\ pc' = "date"
  /\ UNCHANGED << isr, lsion, dbp, src, ret >> /\ SameRtc /\ SameShadow /\ UNCHANGED envVars

SetDate ==
  /\ pc = "date"
  /\ WriteInit(bd, At([Fields(ticks) EXCEPT !.day = BuildTime.day])) /\ pc' = "leave"
  /\ UNCHANGED << isr, lsion, dbp, src, ret >> /\ SameRtc /\ SameShadow /\ UNCHANGED envVars

(* The counter starts. *)
LeaveInit ==
  /\ pc = "leave" /\ WriteIsr([isr EXCEPT !.init = FALSE, !.initf = FALSE]) /\ pc' = "mark"
  /\ UNCHANGED << bd, ticks, lsion, dbp, src, ret >> /\ SameRtc /\ SameShadow
  /\ UNCHANGED envVars

(* RSF has come, or its wait is over: the result is not looked at.         *)
Mark ==
  /\ pc = "mark" /\ (isr.rsf \/ ~Clocked)
  /\ WriteBd([bd EXCEPT !.bkp = TRUE]) /\ pc' = "lock"
  /\ UNCHANGED << lsion, dbp, src, ret >> /\ SameClock /\ SameRtc /\ SameShadow
  /\ UNCHANGED envVars

Lock ==
  /\ pc = "lock" /\ WriteBd([bd EXCEPT !.open = FALSE]) /\ Return(src)
  /\ UNCHANGED << lsion, dbp, src >> /\ SameClock /\ SameRtc /\ SameShadow
  /\ UNCHANGED envVars

rtc_init ==
  \/ Boot \/ Warm \/ WarmSynced \/ LseReady \/ LseTimeout \/ LsiReady \/ LsiTimeout
  \/ Unlock \/ EnterInit \/ InitTimeout \/ SetPrescaler \/ SetTime \/ SetDate
  \/ LeaveInit \/ Mark \/ Lock
-----------------------------------------------------------------------------
(* rtc_now(), for a row, a status report and the banner.  A read of SSR or *)
(* TR holds the shadow registers until DR is read.                         *)
Reads ==
  UNCHANGED << bd, ticks, lsion, dbp, isr, shadow, src, was_running, ret >>
    /\ UNCHANGED envVars

ReadSsr ==
  /\ pc = "run"
  /\ reg' = [Cleared EXCEPT !.ssr = shadow.ssr] /\ frozen' = TRUE /\ pc' = "tr"
  /\ UNCHANGED now /\ Reads

(* mutant: something else takes the time in between *)
ReadTrInterrupted ==
  /\ pc = "tr"
  /\ reg' = [reg EXCEPT !.sec = shadow.sec] /\ frozen' = FALSE /\ pc' = "dr"
  /\ UNCHANGED now /\ Reads

ReadTr ==
  /\ pc = "tr"
  /\ reg' = [reg EXCEPT !.sec = shadow.sec] /\ frozen' = TRUE /\ pc' = "dr"
  /\ UNCHANGED now /\ Reads

ReadDr ==
  /\ pc = "dr"
  /\ reg' = [reg EXCEPT !.day = shadow.day] /\ frozen' = FALSE /\ pc' = "run"
  /\ now' = reg'
  /\ Reads

rtc_now == ReadSsr \/ ReadTr \/ ReadDr
-----------------------------------------------------------------------------
(* The chip: the counter, the shadow registers a cycle or two behind it,   *)
(* and initialisation mode, all driven by the selected oscillator.         *)
Chip == UNCHANGED << bd, osc, lsion, dbp, pc, resets, losses, faults >> /\ UNCHANGED rtcVars

InStep == frozen \/ (isr.rsf /\ shadow = Fields(ticks))

(* The counter starts with RTCEN, less than a second before it is set.     *)
Tick ==
  /\ Clocked /\ ~isr.initf /\ InStep
  /\ ticks < (IF bd.prer = "reset" THEN PREDIV_S ELSE MaxTicks)
  /\ ticks' = ticks + 1
  /\ UNCHANGED << isr, shadow, frozen >> /\ Chip

Sync ==
  /\ Clocked /\ ~isr.initf /\ ~InStep
  /\ shadow' = Fields(ticks) /\ isr' = [isr EXCEPT !.rsf = TRUE]
  /\ UNCHANGED << ticks, frozen >> /\ Chip

(* RSF is not set in initialisation mode. *)
InitMode ==
  /\ Clocked /\ isr.init /\ ~isr.initf
  /\ isr' = [isr EXCEPT !.initf = TRUE, !.rsf = FALSE]
  /\ UNCHANGED << ticks, shadow, frozen >> /\ Chip

Hardware == Tick \/ Sync \/ InitMode

(* A reset of the system, which may take the backup domain along.          *)
Restart ==
  /\ resets < MaxResets /\ resets' = resets + 1
  /\ lsion' = FALSE /\ dbp' = FALSE
  /\ isr' = NoFlags
  /\ shadow' = Cleared /\ frozen' = FALSE
  /\ pc' = "boot" /\ src' = None /\ was_running' = FALSE /\ ret' = None
  /\ reg' = Cleared /\ now' = Fields(0)
  /\ UNCHANGED << osc, faults >>

Reset == Restart /\ UNCHANGED << bd, ticks, losses >>
PowerLoss == Restart /\ bd' = Wiped /\ ticks' = 0 /\ losses' = losses + 1

OscillatorDies ==
  /\ faults < MaxFaults /\ faults' = faults + 1
  /\ \E o \in osc : osc' = osc \ {o}
  /\ UNCHANGED << bd, ticks, lsion, dbp, isr, shadow, frozen, pc, resets, losses >>
  /\ UNCHANGED rtcVars

Next == rtc_init \/ rtc_now \/ Hardware \/ Reset \/ PowerLoss \/ OscillatorDies

Spec == Init /\ [][Next]_vars
(* The program runs, and so does what an oscillator drives. *)
FairSpec == Spec /\ WF_vars(rtc_init) /\ WF_vars(Hardware) /\ WF_vars(rtc_now)

-----------------------------------------------------------------------------
TypeOK ==
  /\ bd \in [lseon : BOOLEAN, rtcsel : Source \cup {None}, rtcen : BOOLEAN,
             prer : Source \cup {"reset"}, open : BOOLEAN, bkp : BOOLEAN]
  /\ ticks \in 0 .. MaxTicks /\ osc \subseteq Source
  /\ isr \in [init : BOOLEAN, initf : BOOLEAN, rsf : BOOLEAN]
  /\ lsion \in BOOLEAN /\ dbp \in BOOLEAN /\ frozen \in BOOLEAN
  /\ src \in Source \cup {None} /\ ret \in Source \cup {None}
  /\ resets \in 0 .. MaxResets /\ losses \in 0 .. resets /\ faults \in 0 .. MaxFaults

(* The magic stands only by a calendar that was set whole, with its source *)
(* selected and the prescaler of that source, wherever a reset fell in the *)
(* cold start: a warm start touches none of them (rtc.c:109-166).          *)
MarkedIsSeeded ==
  /\ TypeOK
  /\ bd.bkp => /\ bd.rtcen /\ bd.rtcsel \in Source /\ bd.prer = bd.rtcsel
               /\ ticks >= At(BuildTime)

(* The source that rtc_init() reports is the one that drives the calendar, *)
(* and unless that oscillator has died since it runs, and the calendar can *)
(* be read, whatever the reset switched off (rtc.c:66-99, 112-122).        *)
SourceIsLive ==
  pc \in {"run", "tr", "dr"} /\ ret # None =>
    /\ bd.rtcsel = ret /\ bd.prer = ret
    /\ ret \in osc => Clocked /\ isr.rsf /\ ~isr.initf

(* A timestamp is one instant of the calendar, never the time of one day   *)
(* with the date of the next, and no earlier than the timestamp before it  *)
(* (rtc.c:169-187).                                                        *)
NowIsOneInstant ==
  [][pc = "dr" /\ pc' = "run" /\ isr.rsf =>
       \E n \in At(now) .. ticks : now' = Fields(n)]_vars

(* No reset sets a calendar back that was marked as running; only the loss *)
(* of the backup domain does (rtc.c:14-16, 109-123).                       *)
KeptThroughResets == [][bd.bkp /\ losses' = losses => bd'.bkp /\ ticks' >= ticks]_vars

(* Wherever resets fall, the next start that is left alone has the         *)
(* calendar running (rtc.c:101-167).                                       *)
StartRecovers == []<>(faults > 0 \/ (pc = "run" /\ Clocked))
=============================================================================

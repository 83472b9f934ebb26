----------------------------- MODULE RtcProofs -----------------------------
(***************************************************************************)
(* Proofs about the start of the RTC for every prescaler and length of the *)
(* day, and any number of resets and of oscillators that die: the magic    *)
(* vouches for a calendar that was set whole, the source that is reported  *)
(* drives it, only the loss of the backup domain sets it back, and every   *)
(* timestamp is one instant of it.                                         *)
(***************************************************************************)
EXTENDS Rtc, TLAPS

(* The calendar with the time of the build but not yet its date, and with  *)
(* both.                                                                   *)
Half == (1 % SECS_PER_DAY) * (PREDIV_S + 1)
Seed == At(BuildTime)

(* The second of rtc_set_time() in a day, which may be one second long.    *)
LEMMA OneSecond == 1 % SECS_PER_DAY \in {0, 1} /\ 1 % SECS_PER_DAY < SECS_PER_DAY
BY RtcAssumption, SMT

(* Dividing by itself, and zero.                                           *)
LEMMA DivSelf ==
  ASSUME NEW k \in Nat \ {0}
  PROVE  k % k = 0 /\ k \div k = 1 /\ 0 % k = 0 /\ 0 \div k = 0
BY SMT

(* Dividing by more.                                                       *)
LEMMA DivSmall ==
  ASSUME NEW n \in Nat, NEW k \in Nat \ {0}, n < k
  PROVE  n \div k = 0
BY SMT

(* The calendar of the build and its half are within the bound.            *)
LEMMA SeedRange ==
  /\ Half \in 0 .. MaxTicks /\ Seed \in 0 .. MaxTicks
  /\ Seed = (SECS_PER_DAY + (1 % SECS_PER_DAY)) * (PREDIV_S + 1)
  /\ PREDIV_S <= MaxTicks
<1> DEFINE m == 1 % SECS_PER_DAY
           k == PREDIV_S + 1
<1>1. m \in 0 .. 1 /\ k \in Nat \ {0} /\ SECS_PER_DAY \in Nat \ {0} /\ MaxTicks \in Nat
  BY OneSecond, RtcAssumption
<1>2. Seed = (1 * SECS_PER_DAY + m) * k + PREDIV_S - PREDIV_S
  BY DEF Seed, At, BuildTime
<1>3. Seed = (SECS_PER_DAY + m) * k
  <2> HIDE DEF m
  <2> QED BY <1>1, <1>2, RtcAssumption
<1>4. (SECS_PER_DAY + 1) * k <= MaxTicks
  BY RtcAssumption
<1>5. /\ 0 <= m * k /\ m * k <= (SECS_PER_DAY + m) * k
      /\ (SECS_PER_DAY + m) * k <= (SECS_PER_DAY + 1) * k
      /\ k <= (SECS_PER_DAY + 1) * k
  <2> HIDE DEF m, k
  <2> SUFFICES ASSUME NEW s \in Nat \ {0}, s = SECS_PER_DAY
               PROVE  /\ 0 <= m * k /\ m * k <= (s + m) * k
                      /\ (s + m) * k <= (s + 1) * k /\ k <= (s + 1) * k
    BY <1>1
  <2>1. 0 <= s * k
    BY <1>1
  <2>2. (s + m) * k = s * k + m * k /\ (s + 1) * k = s * k + k
    BY <1>1
  <2>3. m * k = 0 \/ m * k = k
    BY <1>1
  <2> QED BY <1>1, <2>1, <2>2, <2>3
<1>6. m * k \in Int /\ (SECS_PER_DAY + m) * k \in Int /\ (SECS_PER_DAY + 1) * k \in Int
  BY <1>1
<1>7. Half = m * k
  BY DEF Half
<1> HIDE DEF m
<1>8. Half \in 0 .. MaxTicks /\ Seed \in 0 .. MaxTicks
  <2> HIDE DEF k
  <2>1. \A a, b, c \in Int :
          0 <= a /\ a <= b /\ b <= c /\ c <= MaxTicks => a \in 0 .. MaxTicks /\ b \in 0 .. MaxTicks
    BY <1>1
  <2> QED BY <1>3, <1>4, <1>5, <1>6, <1>7, <2>1
<1>9. PREDIV_S <= MaxTicks
  <2>1. k <= MaxTicks
    <3> HIDE DEF k
    <3> QED BY <1>1, <1>4, <1>5, <1>6
  <2> QED BY <2>1, <1>1, RtcAssumption
<1> QED BY <1>3, <1>8, <1>9 DEF m

(* Writing the time and then the date sets the calendar to the build's.    *)
LEMMA SetTimeSeeds ==
  ASSUME NEW n \in 0 .. PREDIV_S
  PROVE  At([BuildTime EXCEPT !.day = Fields(n).day]) = Half
<1> DEFINE k == PREDIV_S + 1
           day == n \div (k * SECS_PER_DAY)
<1>1. k * SECS_PER_DAY \in Nat \ {0} /\ n \in Nat /\ n < k * SECS_PER_DAY
  <2>1. k <= k * SECS_PER_DAY
    BY RtcAssumption, SMT
  <2> QED BY <2>1, RtcAssumption
<1>2. day = 0
  BY <1>1, DivSmall
<1>3. [BuildTime EXCEPT !.day = Fields(n).day]
        = [ssr |-> PREDIV_S, sec |-> 1 % SECS_PER_DAY, day |-> 0]
  BY <1>2 DEF BuildTime, Fields
<1>4. At([BuildTime EXCEPT !.day = Fields(n).day])
        = (0 * SECS_PER_DAY + (1 % SECS_PER_DAY)) * k + PREDIV_S - PREDIV_S
  BY <1>3 DEF At
<1>5. \A m \in 0 .. 1 : (0 * SECS_PER_DAY + m) * k + PREDIV_S - PREDIV_S = m * k
  BY RtcAssumption
<1>6. 1 % SECS_PER_DAY \in 0 .. 1
  BY OneSecond
<1> QED
  <2> DEFINE m == 1 % SECS_PER_DAY
  <2>1. (0 * SECS_PER_DAY + m) * k + PREDIV_S - PREDIV_S = m * k
    <3> HIDE DEF m
    <3> QED BY <1>5, <1>6 DEF m
  <2> QED BY <1>4, <2>1 DEF Half

(* Writing the date behind the time of the build completes the calendar.   *)
LEMMA SetDateSeeds == At([Fields(Half) EXCEPT !.day = BuildTime.day]) = Seed
<1> DEFINE m == 1 % SECS_PER_DAY
           k == PREDIV_S + 1
<1>1. k \in Nat \ {0} /\ m \in 0 .. 1 /\ m < SECS_PER_DAY
  BY OneSecond, RtcAssumption
<1>2. Half % k = 0 /\ Half \div k = m
  <2>1. CASE m = 0
    <3>1. Half = 0
      BY <2>1, <1>1 DEF Half
    <3> QED BY <3>1, <2>1, <1>1, DivSelf
  <2>2. CASE m = 1
    <3>1. Half = k
      BY <2>2, <1>1 DEF Half
    <3> QED BY <3>1, <2>2, <1>1, DivSelf
  <2> QED BY <2>1, <2>2, <1>1
<1>3. m % SECS_PER_DAY = m
  BY <1>1, RtcAssumption
<1>4. Fields(Half).ssr = PREDIV_S /\ Fields(Half).sec = m
  BY <1>2, <1>3, RtcAssumption DEF Fields
<1>5. [Fields(Half) EXCEPT !.day = BuildTime.day] = [ssr |-> PREDIV_S, sec |-> m, day |-> 1]
  BY <1>4 DEF Fields, BuildTime
<1>6. [Fields(Half) EXCEPT !.day = BuildTime.day] = BuildTime
  BY <1>5 DEF BuildTime
<1> QED BY <1>6 DEF Seed

-----------------------------------------------------------------------------
(* What each point of rtc_init() knows of the backup domain, so that the   *)
(* magic can be trusted from the moment it is written.                     *)
On(o) == IF o = "LSE" THEN bd.lseon ELSE lsion
Selected == {"unlock", "init", "initf", "time", "date", "leave", "mark", "lock"}
Unlocked == {"init", "initf", "time", "date", "leave", "mark"}
Reading == {"run", "tr", "dr"}
Points == {"boot", "warm", "warmrsf", "lse", "lsi"} \cup Selected \cup Reading

Marked ==
  bd.bkp => /\ bd.rtcen /\ bd.rtcsel \in Source /\ bd.prer = bd.rtcsel
            /\ ticks >= Seed

Place ==
  /\ pc \in Points
  /\ pc \in {"lse", "lsi", "unlock"} \cup Unlocked => dbp /\ ~bd.bkp
  /\ pc \in {"warm", "warmrsf", "lock"} => bd.bkp
  /\ pc \in {"lse", "lsi"} => bd.rtcsel = None
  /\ pc \in {"lse", "lsi", "unlock"} => ~bd.rtcen /\ bd.prer = "reset" /\ ticks = 0
  /\ pc \in Selected => src \in Source /\ bd.rtcsel = src /\ On(src)
  /\ pc \in Unlocked => bd.open /\ bd.rtcen
  /\ pc \in {"init", "initf"} => bd.prer = "reset"
  /\ pc \in {"init", "initf", "time"} => ticks <= PREDIV_S
  /\ pc \in {"time", "date", "leave"} => isr.initf
  /\ pc \in {"time", "date", "leave", "mark", "lock"} => bd.prer = src
  /\ pc = "date" => ticks = Half
  /\ pc = "leave" => ticks = Seed
  /\ pc = "mark" => ticks >= Seed

Live ==
  /\ pc \in {"boot", "warm", "warmrsf", "mark", "lock"} => ~isr.init /\ ~isr.initf
  /\ pc \in {"warm", "warmrsf"} => src = bd.rtcsel /\ On(src)
  /\ pc = "lock" => (src \in osc => isr.rsf)
  /\ pc \in Reading /\ ret # None =>
       /\ ret \in Source /\ bd.rtcsel = ret /\ bd.prer = ret /\ bd.rtcen /\ On(ret)
       /\ ~isr.init /\ ~isr.initf
       /\ ret \in osc => isr.rsf

IInv == TypeOK /\ Marked /\ Place /\ Live

(* The bounds, as the proofs cite them.                                    *)
LEMMA Bounds ==
  /\ PREDIV_S \in Nat /\ MaxTicks \in Nat /\ MaxResets \in Nat /\ MaxFaults \in Nat
  /\ PREDIV_S <= MaxTicks /\ Half \in 0 .. MaxTicks /\ Seed \in 0 .. MaxTicks
BY RtcAssumption, SeedRange

(* Power-up: no magic, no source, nothing done yet.                        *)
LEMMA InitIInv == Init => IInv
<1> SUFFICES ASSUME Init PROVE IInv
  OBVIOUS
<1>1. TypeOK
  <2>1. osc \subseteq Source
    BY DEF Init, Source
  <2>2. /\ ticks \in 0 .. MaxTicks
        /\ resets \in 0 .. MaxResets /\ losses \in 0 .. resets /\ faults \in 0 .. MaxFaults
    BY Bounds DEF Init
  <2>3. bd \in [lseon : BOOLEAN, rtcsel : Source \cup {None}, rtcen : BOOLEAN,
                prer : Source \cup {"reset"}, open : BOOLEAN, bkp : BOOLEAN]
    BY DEF Init, Wiped
  <2> QED BY <2>1, <2>2, <2>3 DEF Init, TypeOK, NoFlags
<1>2. Marked /\ Place /\ Live
  BY DEF Init, Marked, Place, Live, Wiped, NoFlags, None, Points, Selected, Unlocked, Reading
<1> QED BY <1>1, <1>2 DEF IInv

(* The types through every step. *)
LEMMA TypeStep == TypeOK /\ Place /\ [Next]_vars => TypeOK'
<1> SUFFICES ASSUME TypeOK, Place, [Next]_vars PROVE TypeOK'
  OBVIOUS
<1>1. ASSUME UNCHANGED vars PROVE TypeOK'
  BY <1>1 DEF TypeOK, vars
<1>2. ASSUME Restart,
             \/ UNCHANGED << bd, ticks, losses >>
             \/ bd' = Wiped /\ ticks' = 0 /\ losses' = losses + 1
      PROVE  TypeOK'
  <2>1. /\ ticks' \in 0 .. MaxTicks
        /\ resets' \in 0 .. MaxResets /\ losses' \in 0 .. resets' /\ faults' \in 0 .. MaxFaults
    BY <1>2, Bounds DEF Restart, TypeOK
  <2>2. bd' \in [lseon : BOOLEAN, rtcsel : Source \cup {None}, rtcen : BOOLEAN,
                 prer : Source \cup {"reset"}, open : BOOLEAN, bkp : BOOLEAN]
    <3>1. CASE UNCHANGED << bd, ticks, losses >>
      BY <3>1 DEF TypeOK
    <3>2. CASE bd' = Wiped
      BY <3>2 DEF Wiped
    <3> QED BY <1>2, <3>1, <3>2
  <2> QED BY <1>2, <2>1, <2>2 DEF Restart, TypeOK, NoFlags
<1>3. ASSUME OscillatorDies PROVE TypeOK'
  <2>1. osc' \subseteq Source /\ faults' \in 0 .. MaxFaults
    BY <1>3, Bounds DEF OscillatorDies, TypeOK
  <2> QED BY <1>3, <2>1 DEF OscillatorDies, TypeOK, rtcVars
<1>4. ASSUME Hardware PROVE TypeOK'
  <2>1. ticks' \in 0 .. MaxTicks
    BY <1>4, Bounds DEF Hardware, Tick, Sync, InitMode, TypeOK
  <2>2. isr' \in [init : BOOLEAN, initf : BOOLEAN, rsf : BOOLEAN] /\ frozen' \in BOOLEAN
    BY <1>4 DEF Hardware, Tick, Sync, InitMode, TypeOK
  <2> QED BY <1>4, <2>1, <2>2 DEF Hardware, Tick, Sync, InitMode, Chip, TypeOK, rtcVars
<1>5. ASSUME rtc_now PROVE TypeOK'
  BY <1>5 DEF rtc_now, ReadSsr, ReadTr, ReadDr, Reads, envVars, TypeOK
<1>6. ASSUME rtc_init PROVE TypeOK'
  <2> USE DEF SameRtc, SameShadow, SameClock, envVars, TypeOK, Return
  <2>1. CASE Boot
    <3>1. CASE bd.bkp
      BY <2>1, <3>1 DEF Boot, SwitchOn
    <3>2. CASE ~bd.bkp
      <4>1. bd' = [lseon |-> TRUE, rtcsel |-> None, rtcen |-> FALSE, prer |-> "reset",
                   open |-> FALSE, bkp |-> FALSE]
        BY <2>1, <3>2 DEF Boot, WipeBd, Wiped
      <4>2. ticks' \in 0 .. MaxTicks /\ isr' = NoFlags
        BY <2>1, <3>2, Bounds DEF Boot, WipeBd
      <4> QED BY <2>1, <3>2, <4>1, <4>2 DEF Boot, NoFlags
    <3> QED BY <3>1, <3>2
  <2>2. CASE Warm
    BY <2>2 DEF Warm, WriteIsr
  <2>3. CASE WarmSynced
    BY <2>3 DEF WarmSynced, hwVars
  <2>4. CASE LseReady
    BY <2>4 DEF LseReady, WriteBd, Select, Source
  <2>5. CASE LseTimeout
    BY <2>5 DEF LseTimeout, WriteBd
  <2>6. CASE LsiReady
    BY <2>6 DEF LsiReady, WriteBd, Select, Source
  <2>7. CASE LsiTimeout
    BY <2>7 DEF LsiTimeout
  <2>8. CASE Unlock
    BY <2>8 DEF Unlock, WriteBd
  <2>9. CASE EnterInit
    BY <2>9 DEF EnterInit, WriteIsr
  <2>10. CASE InitTimeout
    BY <2>10 DEF InitTimeout, WriteBd
  <2>11. CASE SetPrescaler
    BY <2>11 DEF SetPrescaler, WriteInit, Place, Selected
  <2>12. CASE SetTime
    <3>1. Place /\ pc = "time"
      BY <2>12 DEF SetTime
    <3>2. ticks' = Half
      BY <2>12, <3>1, SetTimeSeeds, Bounds DEF SetTime, WriteInit, Open, Place, Unlocked
    <3> QED BY <2>12, <3>2, Bounds DEF SetTime, WriteInit
  <2>13. CASE SetDate
    <3>1. Place /\ pc = "date"
      BY <2>13 DEF SetDate
    <3>2. ticks' = Seed
      BY <2>13, <3>1, SetDateSeeds DEF SetDate, WriteInit, Open, Place, Unlocked
    <3> QED BY <2>13, <3>2, Bounds DEF SetDate, WriteInit
  <2>14. CASE LeaveInit
    BY <2>14 DEF LeaveInit, WriteIsr
  <2>15. CASE Mark
    BY <2>15 DEF Mark, WriteBd
  <2>16. CASE Lock
    BY <2>16 DEF Lock, WriteBd
  <2> QED BY <1>6, <2>1, <2>2, <2>3, <2>4, <2>5, <2>6, <2>7, <2>8, <2>9, <2>10, <2>11,
            <2>12, <2>13, <2>14, <2>15, <2>16
         DEF rtc_init
<1> QED BY <1>1, <1>2, <1>3, <1>4, <1>5, <1>6
     DEF Next, Reset, PowerLoss

(* rtc_init() from each point to the next. *)
LEMMA InitStep == IInv /\ rtc_init => Marked' /\ Place' /\ Live'
<1> SUFFICES ASSUME IInv, rtc_init PROVE Marked' /\ Place' /\ Live'
  OBVIOUS
<1> USE DEF IInv, Marked, Place, Live, On, Selected, Unlocked, Reading, Points,
            SameRtc, SameShadow, SameClock, envVars, Return, Source, None
<1>1. CASE Boot
  BY <1>1, Bounds DEF Boot, WipeBd, SwitchOn, Wiped, NoFlags, TypeOK
<1>2. CASE Warm
  BY <1>2, Bounds DEF Warm, WriteIsr, Open, TypeOK
<1>3. CASE WarmSynced
  BY <1>3, Bounds DEF WarmSynced, hwVars, Clocked, Ready, Runs, TypeOK
<1>4. CASE LseReady
  BY <1>4, Bounds DEF LseReady, WriteBd, Select, Ready, Runs, TypeOK
<1>5. CASE LseTimeout
  BY <1>5, Bounds DEF LseTimeout, WriteBd, TypeOK
<1>6. CASE LsiReady
  BY <1>6, Bounds DEF LsiReady, WriteBd, Select, Ready, Runs, TypeOK
<1>7. CASE LsiTimeout
  BY <1>7, Bounds DEF LsiTimeout, TypeOK
<1>8. CASE Unlock
  BY <1>8, Bounds DEF Unlock, WriteBd, TypeOK
<1>9. CASE EnterInit
  BY <1>9, Bounds DEF EnterInit, WriteIsr, Open, TypeOK
<1>10. CASE InitTimeout
  BY <1>10, Bounds DEF InitTimeout, WriteBd, TypeOK
<1>11. CASE SetPrescaler
  BY <1>11, Bounds DEF SetPrescaler, WriteInit, Open, TypeOK
<1>12. CASE SetTime
  <2>1. ticks' = Half
    BY <1>12, SetTimeSeeds, Bounds DEF SetTime, WriteInit, Open, TypeOK
  <2>2. bd' = bd
    BY <1>12 DEF SetTime, WriteInit
  <2> QED BY <1>12, <2>1, <2>2 DEF SetTime
<1>13. CASE SetDate
  <2>1. ticks' = Seed
    BY <1>13, SetDateSeeds DEF SetDate, WriteInit, Open
  <2>2. bd' = bd
    BY <1>13 DEF SetDate, WriteInit
  <2> QED BY <1>13, <2>1, <2>2 DEF SetDate
<1>14. CASE LeaveInit
  BY <1>14, Bounds DEF LeaveInit, WriteIsr, Open, TypeOK
<1>15. CASE Mark
  BY <1>15, Bounds DEF Mark, WriteBd, Clocked, Ready, Runs, TypeOK
<1>16. CASE Lock
  BY <1>16, Bounds DEF Lock, WriteBd, TypeOK
<1> QED BY <1>1, <1>2, <1>3, <1>4, <1>5, <1>6, <1>7, <1>8, <1>9, <1>10,
           <1>11, <1>12, <1>13, <1>14, <1>15, <1>16
        DEF rtc_init

(* Between its steps time passes, oscillators die and resets come.         *)
LEMMA OutsideStep ==
  IInv /\ (rtc_now \/ Hardware \/ Reset \/ PowerLoss \/ OscillatorDies \/ UNCHANGED vars)
    => Marked' /\ Place' /\ Live'
<1> SUFFICES ASSUME IInv, rtc_now \/ Hardware \/ Reset \/ PowerLoss \/ OscillatorDies
                            \/ UNCHANGED vars
             PROVE  Marked' /\ Place' /\ Live'
  OBVIOUS
<1> USE DEF IInv, Marked, Place, Live, On, Selected, Unlocked, Reading, Points, Source, None
<1>1. CASE rtc_now
  BY <1>1 DEF rtc_now, ReadSsr, ReadTr, ReadDr, Reads, envVars
<1>2. CASE Tick
  <2>1. /\ Clocked /\ ~isr.initf /\ ticks' = ticks + 1
        /\ bd.prer = "reset" => ticks < PREDIV_S
        /\ UNCHANGED << isr, bd, osc, lsion, dbp, pc, src, ret >>
    BY <1>2 DEF Tick, Chip, rtcVars
  <2>2. bd.rtcen /\ ticks \in Nat
    BY <2>1 DEF Clocked, TypeOK
  <2> QED BY <2>1, <2>2, Bounds
<1>3. CASE Sync
  BY <1>3 DEF Sync, Chip, rtcVars, TypeOK
<1>4. CASE InitMode
  BY <1>4 DEF InitMode, Chip, rtcVars, TypeOK
<1>5. CASE Reset
  BY <1>5 DEF Reset, Restart, NoFlags
<1>6. CASE PowerLoss
  BY <1>6 DEF PowerLoss, Restart, NoFlags, Wiped
<1>7. CASE OscillatorDies
  BY <1>7 DEF OscillatorDies, rtcVars
<1>8. CASE UNCHANGED vars
  BY <1>8 DEF vars
<1> QED BY <1>1, <1>2, <1>3, <1>4, <1>5, <1>6, <1>7, <1>8 DEF Hardware

(* No step of rtc_init(), of rtc_now() or of what happens around them      *)
(* breaks the invariant.                                                   *)
LEMMA Invariant == Spec => []IInv
<1>1. IInv /\ [Next]_vars => IInv'
  <2> SUFFICES ASSUME IInv, [Next]_vars PROVE IInv'
    OBVIOUS
  <2>1. TypeOK'
    BY TypeStep DEF IInv
  <2>2. Marked' /\ Place' /\ Live'
    BY InitStep, OutsideStep DEF Next
  <2> QED BY <2>1, <2>2 DEF IInv
<1> QED BY InitIInv, <1>1, PTL DEF Spec

-----------------------------------------------------------------------------
(* Wherever resets fall, the magic vouches for a calendar that was set     *)
(* whole, for its source and for the prescaler of that source              *)
(* (rtc.c:109-166).                                                        *)
THEOREM MagicVouches == Spec => []MarkedIsSeeded
<1>1. IInv => MarkedIsSeeded
  BY DEF IInv, Marked, MarkedIsSeeded, Seed
<1> QED BY <1>1, Invariant, PTL

(* The source that rtc_init() reports drives the calendar, and unless its  *)
(* oscillator has died since, the calendar runs and can be read            *)
(* (rtc.c:66-99, 112-122).                                                 *)
THEOREM ReportedSourceDrives == Spec => []SourceIsLive
<1>1. IInv => SourceIsLive
  <2> SUFFICES ASSUME IInv, pc \in Reading, ret # None, ret \in osc
               PROVE  Clocked
    BY DEF IInv, Live, SourceIsLive, Reading
  <2> QED BY DEF IInv, Live, On, Clocked, Ready, Runs
<1> QED BY <1>1, Invariant, PTL

(* No step but the loss of the backup domain takes the magic away, or sets *)
(* back a calendar that bears it (rtc.c:14-16, 109-123).                   *)
THEOREM OnlyPowerLossForgets == Spec => KeptThroughResets
<1>1. IInv /\ [Next]_vars => [bd.bkp /\ losses' = losses => bd'.bkp /\ ticks' >= ticks]_vars
  <2> SUFFICES ASSUME IInv, [Next]_vars, bd.bkp, losses' = losses
               PROVE  bd'.bkp /\ ticks' >= ticks
    OBVIOUS
  <2> USE DEF IInv, TypeOK, Place, Selected, Unlocked, SameRtc, SameShadow, SameClock,
              envVars, Return
  <2>1. CASE rtc_init
    <3>1. CASE Boot \/ Warm \/ WarmSynced \/ Lock
      BY <3>1, <2>1 DEF Boot, SwitchOn, Warm, WarmSynced, hwVars, Lock, WriteBd
    <3>2. CASE pc \in {"lse", "lsi", "unlock"} \cup Unlocked
      BY <3>2
    <3> QED BY <2>1, <3>1, <3>2
          DEF rtc_init, LseReady, LseTimeout, LsiReady, LsiTimeout, Unlock, EnterInit,
              InitTimeout, SetPrescaler, SetTime, SetDate, LeaveInit, Mark
  <2>2. CASE rtc_now \/ OscillatorDies \/ UNCHANGED vars
    BY <2>2 DEF rtc_now, ReadSsr, ReadTr, ReadDr, Reads, OscillatorDies, vars
  <2>3. CASE Hardware
    BY <2>3 DEF Hardware, Tick, Sync, InitMode, Chip
  <2>4. CASE Reset
    BY <2>4 DEF Reset
  <2>5. ~PowerLoss
    BY DEF PowerLoss, Restart
  <2> QED BY <2>1, <2>2, <2>3, <2>4, <2>5 DEF Next
<1> QED BY <1>1, Invariant, PTL DEF Spec, KeptThroughResets
-----------------------------------------------------------------------------
(* Reading the calendar.  The last timestamp is no later than what the     *)
(* shadow registers hold, which is no later than the calendar; they stand  *)
(* still between the first read and the last.  A calendar that is not in   *)
(* step once rtc_init() has returned has lost its clock, and never is.     *)
Stamp ==
  /\ pc \notin Reading => now = Fields(0)
  /\ isr.rsf => At(now) \in Nat /\ \E n \in At(now) .. ticks : shadow = Fields(n)
  /\ isr.initf => ~isr.rsf
  /\ pc \in Reading /\ (ret = None \/ ~isr.rsf) => ~Clocked
  /\ pc \in {"tr", "dr"} => frozen
  /\ pc = "tr" => reg = [Cleared EXCEPT !.ssr = shadow.ssr]
  /\ pc = "dr" => reg = [Cleared EXCEPT !.ssr = shadow.ssr, !.sec = shadow.sec]

(* Quotient and remainder of what was multiplied out. *)
LEMMA Quotient ==
  ASSUME NEW k \in Nat \ {0}, NEW q \in Nat, NEW r \in 0 .. k - 1
  PROVE  (q * k + r) \div k = q /\ (q * k + r) % k = r
<1> DEFINE a == q * k + r
           p == a \div k
           m == a % k
<1>1. p \in Int /\ m \in 0 .. k - 1 /\ a = k * p + m
  <2>1. a \in Int  OBVIOUS
  <2> HIDE DEF a
  <2> QED BY <2>1
<1>2. ASSUME NEW x \in Int, NEW y \in Int, NEW u \in 0 .. k - 1, NEW v \in 0 .. k - 1,
             x * k + u = y * k + v, x > y
      PROVE  FALSE
  <2>1. PICK d \in Nat : x = y + 1 + d
    <3>1. x - y - 1 \in Nat /\ x = y + 1 + (x - y - 1)  BY <1>2
    <3> QED BY <3>1
  <2>2. (y + 1 + d) * k = y * k + k + d * k /\ d * k >= 0 /\ y * k \in Int /\ d * k \in Int
    OBVIOUS
  <2> QED BY <1>2, <2>1, <2>2
<1>3. q * k + r = p * k + m /\ k * p = p * k
  BY <1>1
<1> HIDE DEF p, m
<1>4. p = q
  BY <1>1, <1>2, <1>3
<1>5. m = r
  BY <1>1, <1>3, <1>4
<1> QED BY <1>4, <1>5 DEF p, m, a

(* The registers determine the tick. *)
LEMMA AtFields == ASSUME NEW n \in Nat  PROVE At(Fields(n)) = n
<1> DEFINE k == PREDIV_S + 1
           S == SECS_PER_DAY
           q == n \div k
           r == n % k
           d == q \div S
           s == q % S
<1>1. k \in Nat \ {0} /\ S \in Nat \ {0} /\ PREDIV_S = k - 1
  BY RtcAssumption
<1>2. q \in Nat /\ r \in 0 .. k - 1 /\ n = q * k + r
  <2> HIDE DEF k
  <2> QED BY <1>1
<1>3. d \in Nat /\ s \in 0 .. S - 1 /\ q = d * S + s
  <2> HIDE DEF q, S
  <2> QED BY <1>1, <1>2
<1>4. n \div (k * S) = d
  <2> SUFFICES ASSUME NEW K \in Nat \ {0}, K = k,  NEW T \in Nat \ {0}, T = S,
                      NEW D \in Nat, D = d, NEW U \in 0 .. T - 1, U = s
               PROVE  n \div (K * T) = D
    BY <1>1, <1>3
  <2> HIDE DEF k, S, d, s, q, r
  <2>1. n = (D * T + U) * K + r  BY <1>2, <1>3
  <2>2. (D * T + U) * K = D * (K * T) + U * K  OBVIOUS
  <2>3. U * K + r \in 0 .. K * T - 1 /\ K * T \in Nat \ {0}
    <3>1. PICK e \in Nat : T = U + 1 + e
      <4>1. T - U - 1 \in Nat /\ T = U + 1 + (T - U - 1)  OBVIOUS
      <4> QED BY <4>1
    <3>2. K * (U + 1 + e) = U * K + K + e * K /\ U * K \in Nat /\ e * K \in Nat
      OBVIOUS
    <3>3. r \in 0 .. K - 1  BY <1>2
    <3>4. \A a, b, c, w \in Nat : w < b => a + w \in 0 .. (a + b + c) - 1
      OBVIOUS
    <3>5. U * K + r \in 0 .. (U * K + K + e * K) - 1  BY <3>2, <3>3, <3>4
    <3>6. U * K + K + e * K \in Nat \ {0}  BY <3>2
    <3> QED BY <3>1, <3>2, <3>5, <3>6
  <2>4. D * (K * T) \in Nat  BY <2>3
  <2>5. r \in Nat /\ U * K \in Nat  BY <1>2
  <2>6. n = D * (K * T) + (U * K + r)
    <3>1. \A a, b, c \in Nat : (a + b) + c = a + (b + c)  OBVIOUS
    <3> QED BY <2>1, <2>2, <2>4, <2>5, <3>1
  <2> DEFINE M == K * T
             w == U * K + r
  <2>7. M \in Nat \ {0} /\ w \in 0 .. M - 1 /\ n = D * M + w  BY <2>3, <2>6
  <2> HIDE DEF M, w
  <2>8. (D * M + w) \div M = D  BY <2>7, Quotient
  <2> QED BY <2>7, <2>8 DEF M
<1>5. Fields(n) = [ssr |-> PREDIV_S - r, sec |-> s, day |-> d]
  BY <1>4 DEF Fields
<1>6. At(Fields(n)) = (d * S + s) * k + PREDIV_S - (PREDIV_S - r)
  BY <1>5 DEF At
<1>7. d * S + s = q  BY <1>3
<1> HIDE DEF d, s, S, k, q, r
<1>8. q * k \in Nat  BY <1>1, <1>2
<1> QED BY <1>1, <1>2, <1>6, <1>7, <1>8

(* Nothing has been read at power-up.                                      *)
LEMMA InitStamp == Init => Stamp
BY DEF Init, Stamp, Reading, NoFlags

(* rtc_init(): RSF is only up outside of initialisation mode, and once it  *)
(* returns the calendar is in step or has no clock.                        *)
LEMMA StampInit == ASSUME IInv, Stamp, rtc_init  PROVE Stamp'
<1> USE DEF IInv, Stamp, Reading, SameRtc, SameShadow, SameClock, envVars, Return
<1>1. CASE Boot
  BY <1>1 DEF Boot, WipeBd, SwitchOn, NoFlags
<1>2. CASE Warm
  <2>1. pc = "warm" /\ now = Fields(0) /\ UNCHANGED << bd, ticks, lsion, osc, shadow, now >>
    BY <1>2 DEF Warm
  <2>2. isr'.rsf => isr.rsf /\ isr'.initf = isr.initf
    BY <1>2 DEF Warm, WriteIsr, TypeOK
  <2>3. isr'.initf = isr.initf
    BY <1>2 DEF Warm, WriteIsr, TypeOK
  <2>4. pc' \in Reading => ~Clocked'
    BY <1>2, <2>1 DEF Warm, Clocked, Ready, Runs, Live
  <2>5. pc' \in {"warmrsf", "run"}  BY <1>2 DEF Warm
  <2> QED BY <2>1, <2>2, <2>3, <2>4, <2>5
<1>3. CASE WarmSynced
  <2>1. src # None  BY <1>3 DEF WarmSynced, Place, Marked, Live, Source, None
  <2> QED BY <1>3, <2>1 DEF WarmSynced, hwVars, Clocked, Ready, Runs
<1>4. CASE LseReady \/ LseTimeout \/ LsiReady \/ Unlock
  BY <1>4 DEF LseReady, LseTimeout, LsiReady, Unlock
<1>5. CASE LsiTimeout
  BY <1>5 DEF LsiTimeout, Place, Clocked
<1>6. CASE EnterInit \/ LeaveInit
  BY <1>6 DEF EnterInit, LeaveInit, WriteIsr, TypeOK
<1>7. CASE InitTimeout
  BY <1>7 DEF InitTimeout, WriteBd, Clocked, Ready, Runs, TypeOK
<1>8. CASE SetPrescaler
  BY <1>8 DEF SetPrescaler, WriteInit
<1>9. CASE SetTime \/ SetDate
  BY <1>9 DEF SetTime, SetDate, WriteInit, Place
<1>10. CASE Mark
  BY <1>10 DEF Mark
<1>11. CASE Lock
  <2>1. bd' = [bd EXCEPT !.open = FALSE] \/ bd' = bd
    BY <1>11 DEF Lock, WriteBd
  <2>2. src \in Source /\ bd.rtcsel = src /\ (src \in osc => isr.rsf)
    BY <1>11 DEF Lock, Place, Selected, Live
  <2>3. ~isr'.rsf => ~Clocked'
    BY <1>11, <2>1, <2>2 DEF Lock, Clocked, Ready, Runs, TypeOK
  <2>4. ret' # None  BY <1>11, <2>2 DEF Lock, Source, None
  <2> QED BY <1>11, <2>3, <2>4 DEF Lock
<1> QED BY <1>1, <1>2, <1>3, <1>4, <1>5, <1>6, <1>7, <1>8, <1>9, <1>10, <1>11 DEF rtc_init

(* rtc_now(): the registers hold still from the first read to the last.    *)
LEMMA StampNow == ASSUME IInv, Stamp, rtc_now  PROVE Stamp'
<1> USE DEF IInv, Stamp, Reading, Reads, envVars
<1>0. pc \in Reading /\ pc' \in Reading
      /\ UNCHANGED << bd, ticks, lsion, isr, shadow, ret, osc >>
  BY DEF rtc_now, ReadSsr, ReadTr, ReadDr
<1>1. Clocked' = Clocked  BY <1>0 DEF Clocked, Ready, Runs
<1>2. CASE ReadSsr
  BY <1>0, <1>1, <1>2 DEF ReadSsr
<1>3. CASE ReadTr
  <2>1. reg' = [Cleared EXCEPT !.ssr = shadow.ssr, !.sec = shadow.sec]
    BY <1>3 DEF ReadTr, Cleared
  <2> QED BY <1>0, <1>1, <1>3, <2>1 DEF ReadTr
<1>4. CASE ReadDr
  <2>1. reg' = [ssr |-> shadow.ssr, sec |-> shadow.sec, day |-> shadow.day]
    BY <1>4 DEF ReadDr, Cleared
  <2>2. ASSUME isr.rsf, NEW n \in At(now) .. ticks, shadow = Fields(n)
        PROVE  At(now') \in Nat /\ n \in At(now') .. ticks'
    <3>1. now' = Fields(n)  BY <1>4, <2>1, <2>2 DEF ReadDr, Fields
    <3>2. n \in Nat /\ ticks \in Nat  BY <2>2 DEF TypeOK
    <3>3. At(now') = n  BY <3>1, <3>2, AtFields
    <3> QED BY <1>0, <2>2, <3>2, <3>3
  <2> QED BY <1>0, <1>1, <1>4, <2>1, <2>2 DEF ReadDr
<1> QED BY <1>2, <1>3, <1>4 DEF rtc_now

(* The calendar only goes on while RSF is up, and only a clock moves it.   *)
LEMMA StampOutside ==
  ASSUME IInv, Stamp, Hardware \/ Reset \/ PowerLoss \/ OscillatorDies \/ UNCHANGED vars
  PROVE  Stamp'
<1> USE DEF IInv, Stamp, Reading
<1>1. CASE Tick
  <2>1. /\ ticks' = ticks + 1 /\ ticks \in Nat
        /\ UNCHANGED << isr, shadow, frozen, bd, osc, lsion, pc, ret, reg, now >>
    BY <1>1 DEF Tick, Chip, rtcVars, TypeOK
  <2>2. Clocked' = Clocked  BY <2>1 DEF Clocked, Ready, Runs
  <2>3. \A n : n \in At(now) .. ticks /\ At(now) \in Nat => n \in At(now) .. ticks'
    BY <2>1
  <2> QED BY <2>1, <2>2, <2>3
<1>2. CASE Sync
  <2>1. /\ Clocked /\ ~isr.initf /\ ~frozen /\ isr'.rsf /\ isr'.initf = isr.initf
        /\ shadow' = Fields(ticks) /\ ticks \in Nat
        /\ UNCHANGED << ticks, frozen, bd, osc, lsion, pc, ret, reg, now >>
    BY <1>2 DEF Sync, InStep, Chip, rtcVars, TypeOK
  <2>2. Clocked' = Clocked  BY <2>1 DEF Clocked, Ready, Runs
  <2>3. At(now) \in Nat /\ ticks \in At(now) .. ticks
    <3>1. CASE pc \in Reading
      <4>1. isr.rsf  BY <2>1, <3>1
      <4> QED BY <2>1, <4>1
    <3>2. CASE pc \notin Reading
      <4>1. At(now) = 0  BY <3>2, AtFields
      <4> QED BY <2>1, <4>1
    <3> QED BY <3>1, <3>2
  <2> QED BY <2>1, <2>2, <2>3
<1>3. CASE InitMode
  <2>1. /\ Clocked /\ isr.init /\ ~isr'.rsf
        /\ UNCHANGED << ticks, shadow, frozen, bd, osc, lsion, pc, ret, reg, now >>
    BY <1>3 DEF InitMode, Chip, rtcVars, TypeOK
  <2>2. pc \notin Reading  BY <2>1 DEF Live
  <2> QED BY <2>1, <2>2
<1>4. CASE Reset \/ PowerLoss
  BY <1>4 DEF Reset, PowerLoss, Restart, NoFlags
<1>5. CASE OscillatorDies
  <2>1. /\ UNCHANGED << ticks, isr, shadow, frozen, bd, lsion, pc, ret, reg, now >>
        /\ osc' \subseteq osc
    BY <1>5 DEF OscillatorDies, rtcVars
  <2>2. Clocked' => Clocked  BY <2>1 DEF Clocked, Ready, Runs
  <2> QED BY <2>1, <2>2
<1>6. CASE UNCHANGED vars
  BY <1>6 DEF vars, Clocked, Ready, Runs
<1> QED BY <1>1, <1>2, <1>3, <1>4, <1>5, <1>6 DEF Hardware

(* A timestamp is one instant of the calendar and no earlier than the one  *)
(* before it, though the calendar goes on between the reads, resets come   *)
(* and oscillators die (rtc.c:169-187).                                    *)
THEOREM TimestampsAreInstants == Spec => NowIsOneInstant
<1>1. Stamp /\ IInv /\ [Next]_vars => Stamp'
  BY StampInit, StampNow, StampOutside DEF Next
<1>2. Stamp /\ IInv /\ [Next]_vars
        => [pc = "dr" /\ pc' = "run" /\ isr.rsf =>
              \E n \in At(now) .. ticks : now' = Fields(n)]_vars
  <2> SUFFICES ASSUME Stamp, IInv, [Next]_vars, pc = "dr", pc' = "run", isr.rsf
               PROVE  \E n \in At(now) .. ticks : now' = Fields(n)
    OBVIOUS
  <2>1. ReadDr
    BY DEF Next, rtc_init, Boot, Warm, WarmSynced, LseReady, LseTimeout, LsiReady, LsiTimeout,
           Unlock, EnterInit, InitTimeout, SetPrescaler, SetTime, SetDate, LeaveInit, Mark,
           Lock, rtc_now, ReadSsr, ReadTr, Hardware, Tick, Sync, InitMode, Chip, Reset,
           PowerLoss, Restart, OscillatorDies, vars
  <2>2. PICK n \in At(now) .. ticks : shadow = Fields(n)  BY DEF Stamp
  <2>3. now' = [ssr |-> shadow.ssr, sec |-> shadow.sec, day |-> shadow.day]
    BY <2>1 DEF ReadDr, Cleared, Stamp
  <2> QED BY <2>2, <2>3 DEF Fields
<1> QED BY <1>1, <1>2, InitStamp, Invariant, PTL DEF Spec, NowIsOneInstant
=============================================================================

--------------------------- MODULE TickLoopProofs ---------------------------
(***************************************************************************)
(* Proofs about the sample loop for every counter width, every second and  *)
(* range of rates that fits the counter, and every bound on the lag below  *)
(* half the counter's range: the signed difference is the real distance to *)
(* the deadline, the schedule is kept, rows carry this tick's data.        *)
(***************************************************************************)
EXTENDS TickLoop, TLAPS

(***************************************************************************)
(* Arithmetic modulo the word, and residues.                               *)
(***************************************************************************)

(* What % does to a number at most one turn out of range. *)
LEMMA ModOnce ==
  ASSUME NEW N \in Nat, N # 0, NEW x \in Int, 1 - N <= x, x < 2 * N
  PROVE  x % N = IF x < 0 THEN x + N ELSE IF x < N THEN x ELSE x - N
<1>1. CASE x < 0             BY <1>1, SMT
<1>2. CASE x >= 0 /\ x < N   BY <1>2, SMT
<1>3. CASE x >= N            BY <1>3, SMT
<1> QED BY <1>1, <1>2, <1>3

(* Sums stay in the range of the word.                                     *)
LEMMA PlusInRange ==
  ASSUME NEW a \in 0 .. WordMod - 1, NEW k \in 0 .. WordMod
  PROVE  Plus(a, k) \in 0 .. WordMod - 1
<1> DEFINE z == a + k
<1>1. /\ WordMod \in Nat /\ WordMod # 0
      /\ z \in Int /\ 1 - WordMod <= z /\ z < 2 * WordMod
  BY WordModAssumption
<1>2. z % WordMod \in 0 .. WordMod - 1
  <2>1. z % WordMod = IF z < 0 THEN z + WordMod
                      ELSE IF z < WordMod THEN z ELSE z - WordMod
    <3> HIDE DEF z
    <3> QED BY <1>1, ModOnce
  <2> QED BY <1>1, <2>1
<1> QED BY <1>2 DEF Plus

(* A time that passes: the distance to an earlier stamp grows by one, or   *)
(* starts again from zero.                                                 *)
LEMMA AgeGrows ==
  ASSUME NEW a \in 0 .. WordMod - 1, NEW t \in 0 .. WordMod - 1
  PROVE  /\ Minus(a, t) \in 0 .. WordMod - 1
         /\ Minus(a, a) = 0
         /\ Minus(Plus(a, 1), t) <= Minus(a, t) + 1
<1> DEFINE c == Plus(a, 1)
           z == a + 1
           x == a - t
           y == c - t
<1>1. WordMod \in Nat /\ WordMod # 0 /\ WordMod >= 2
  BY WordModAssumption
<1>2. /\ z \in Int /\ 1 - WordMod <= z /\ z < 2 * WordMod
      /\ x \in Int /\ 1 - WordMod <= x /\ x < 2 * WordMod
  BY <1>1
<1>3. /\ z % WordMod = IF z < 0 THEN z + WordMod
                       ELSE IF z < WordMod THEN z ELSE z - WordMod
      /\ x % WordMod = IF x < 0 THEN x + WordMod
                       ELSE IF x < WordMod THEN x ELSE x - WordMod
  <2> HIDE DEF x, z
  <2> QED BY <1>1, <1>2, ModOnce
<1>4. c = z % WordMod  BY DEF Plus
<1>5. y \in Int /\ 1 - WordMod <= y /\ y < 2 * WordMod
  <2> HIDE DEF c
  <2> QED BY <1>1, <1>3, <1>4
<1>6. y % WordMod = IF y < 0 THEN y + WordMod
                    ELSE IF y < WordMod THEN y ELSE y - WordMod
  <2> HIDE DEF y
  <2> QED BY <1>1, <1>5, ModOnce
<1>7. Minus(c, t) <= Minus(a, t) + 1 /\ Minus(a, t) \in 0 .. WordMod - 1
  <2>1. Minus(c, t) = y % WordMod /\ Minus(a, t) = x % WordMod  BY DEF Minus
  <2> HIDE DEF c
  <2> QED BY <1>1, <1>3, <1>4, <1>6, <2>1
<1>8. Minus(a, a) = 0
  <2>1. Minus(a, a) = (a - a) % WordMod /\ a - a = 0  BY DEF Minus
  <2>2. 0 % WordMod = 0  BY <1>1, ModOnce
  <2> QED BY <2>1, <2>2
<1> QED BY <1>7, <1>8

(* b is the wrapping number that lies d behind a. *)
Trails(b, a, d) ==
  /\ a \in 0 .. WordMod - 1
  /\ d \in -(WordMod \div 2) .. (WordMod \div 2) - 1
  /\ b = (a - d) % WordMod

(* The trailing number, without the modulus.                               *)
LEMMA TrailsRange ==
  ASSUME NEW a, NEW b, NEW d, Trails(b, a, d)
  PROVE  /\ b \in 0 .. WordMod - 1
         /\ b = IF a - d < 0 THEN a - d + WordMod
                ELSE IF a - d < WordMod THEN a - d ELSE a - d - WordMod
<1> DEFINE x == a - d
<1>1. /\ WordMod \in Nat /\ WordMod # 0
      /\ x \in Int /\ 1 - WordMod <= x /\ x < 2 * WordMod
  BY WordModAssumption DEF Trails
<1>2. b = IF x < 0 THEN x + WordMod
          ELSE IF x < WordMod THEN x ELSE x - WordMod
  <2>1. b = x % WordMod  BY DEF Trails
  <2> HIDE DEF x
  <2> QED BY <1>1, <2>1, ModOnce
<1> QED BY <1>1, <1>2

(* (int32_t)(a - b) is the real distance. *)
LEMMA SignedDistance ==
  ASSUME NEW a, NEW b, NEW d, Trails(b, a, d)
  PROVE  AsSigned(Minus(a, b)) = d
<1> DEFINE y == a - b
<1>1. /\ WordMod \in Nat /\ WordMod # 0 /\ WordMod = 2 * (WordMod \div 2)
      /\ WordMod \div 2 \in Nat
  BY WordModAssumption
<1>2. /\ a \in 0 .. WordMod - 1
      /\ d \in -(WordMod \div 2) .. (WordMod \div 2) - 1
  BY DEF Trails
<1>3. /\ b \in 0 .. WordMod - 1
      /\ b = IF a - d < 0 THEN a - d + WordMod
             ELSE IF a - d < WordMod THEN a - d ELSE a - d - WordMod
  BY TrailsRange
<1>4. y \in Int /\ 1 - WordMod <= y /\ y < 2 * WordMod
  BY <1>1, <1>2, <1>3
<1>5. Minus(a, b) = IF y < 0 THEN y + WordMod
                    ELSE IF y < WordMod THEN y ELSE y - WordMod
  <2>1. Minus(a, b) = y % WordMod  BY DEF Minus
  <2> HIDE DEF y
  <2> QED BY <1>1, <1>4, <2>1, ModOnce
<1>6. Minus(a, b) = IF d < 0 THEN d + WordMod ELSE d
  BY <1>1, <1>2, <1>3, <1>5
<1> QED BY <1>1, <1>2, <1>6 DEF AsSigned

(* The clock moves, the other number does not. *)
LEMMA ClockTicks ==
  ASSUME NEW a, NEW b, NEW d, Trails(b, a, d), d + 1 < WordMod \div 2
  PROVE  Trails(b, Plus(a, 1), d + 1)
<1> DEFINE c == Plus(a, 1)
           z == a + 1
<1>1. /\ WordMod \in Nat /\ WordMod # 0 /\ WordMod = 2 * (WordMod \div 2)
      /\ WordMod \div 2 \in Nat /\ WordMod >= 2
  BY WordModAssumption
<1>2. /\ a \in 0 .. WordMod - 1
      /\ d \in -(WordMod \div 2) .. (WordMod \div 2) - 1
  BY DEF Trails
<1>3. z \in Int /\ 1 - WordMod <= z /\ z < 2 * WordMod
  BY <1>1, <1>2
<1>4. c = IF z < 0 THEN z + WordMod ELSE IF z < WordMod THEN z ELSE z - WordMod
  <2>1. c = z % WordMod  BY DEF Plus
  <2> HIDE DEF c, z
  <2> QED BY <1>1, <1>3, <2>1, ModOnce
<1>5. c \in 0 .. WordMod - 1
  BY <1>1, <1>2, <1>4
<1>6. b = IF a - d < 0 THEN a - d + WordMod
          ELSE IF a - d < WordMod THEN a - d ELSE a - d - WordMod
  BY TrailsRange
<1> DEFINE x == c - (d + 1)
<1>7. x \in Int /\ 1 - WordMod <= x /\ x < 2 * WordMod
  BY <1>1, <1>2, <1>5
<1>8. x % WordMod = IF x < 0 THEN x + WordMod
                    ELSE IF x < WordMod THEN x ELSE x - WordMod
  <2> HIDE DEF x
  <2> QED BY <1>1, <1>7, ModOnce
<1>9. b = x % WordMod
  BY <1>1, <1>2, <1>4, <1>6, <1>8
<1> QED BY <1>1, <1>2, <1>5, <1>9 DEF Trails

(* The other number moves forward by k, the clock does not. *)
LEMMA DeadlineMoves ==
  ASSUME NEW a, NEW b, NEW d, Trails(b, a, d), NEW k \in Nat,
         k <= d + WordMod \div 2
  PROVE  Trails(Plus(b, k), a, d - k)
<1>1. /\ WordMod \in Nat /\ WordMod # 0 /\ WordMod = 2 * (WordMod \div 2)
      /\ WordMod \div 2 \in Nat /\ WordMod >= 2
  BY WordModAssumption
<1>2. /\ a \in 0 .. WordMod - 1
      /\ d \in -(WordMod \div 2) .. (WordMod \div 2) - 1
  BY DEF Trails
<1>3. /\ b \in 0 .. WordMod - 1
      /\ b = IF a - d < 0 THEN a - d + WordMod
             ELSE IF a - d < WordMod THEN a - d ELSE a - d - WordMod
  BY TrailsRange
<1> DEFINE z == b + k
           x == a - (d - k)
<1>4. /\ z \in Int /\ 1 - WordMod <= z /\ z < 2 * WordMod
      /\ x \in Int /\ 1 - WordMod <= x /\ x < 2 * WordMod
  BY <1>1, <1>2, <1>3
<1>5. /\ z % WordMod = IF z < 0 THEN z + WordMod
                       ELSE IF z < WordMod THEN z ELSE z - WordMod
      /\ x % WordMod = IF x < 0 THEN x + WordMod
                       ELSE IF x < WordMod THEN x ELSE x - WordMod
  <2> HIDE DEF x, z
  <2> QED BY <1>1, <1>4, ModOnce
<1>6. z % WordMod = x % WordMod
  BY <1>1, <1>2, <1>3, <1>5
<1>7. d - k \in -(WordMod \div 2) .. (WordMod \div 2) - 1
  BY <1>1, <1>2
<1> QED BY <1>2, <1>6, <1>7 DEF Trails, Plus

(* Of two multiples of d the greater one is greater by d at least.         *)
LEMMA Beyond ==
  ASSUME NEW d \in Nat, d > 0, NEW p \in Int, NEW q \in Int, p > q
  PROVE  d * p >= d * q + d
<1>1. PICK k \in Nat : p = q + 1 + k
  <2>1. p - q - 1 \in Nat /\ p = q + 1 + (p - q - 1)
    OBVIOUS
  <2> QED BY <2>1
<1>2. d * (q + 1 + k) = d * q + d + d * k
  OBVIOUS
<1>3. d * k >= 0 /\ d * q \in Int /\ d * k \in Int
  OBVIOUS
<1> QED BY <1>1, <1>2, <1>3

(* Quotient and remainder of what was multiplied out.                      *)
LEMMA Residue ==
  ASSUME NEW d \in Nat, d > 0, NEW q \in Int, NEW r \in 0 .. d - 1
  PROVE  (d * q + r) % d = r /\ (d * q + r) \div d = q
<1> DEFINE a == d * q + r
           p == a \div d
           m == a % d
<1>1. a \in Int /\ p \in Int /\ m \in 0 .. d - 1
  OBVIOUS
<1>2. a = d * p + m
  <2> HIDE DEF a
  <2> QED BY <1>1
<1>3. d * p + m = d * q + r
  BY <1>2
<1> HIDE DEF p, m
<1>4. p = q
  <2>1. ~(p > q)
    <3> SUFFICES ASSUME p > q PROVE FALSE
      OBVIOUS
    <3>1. d * p >= d * q + d
      BY <1>1, Beyond
    <3> QED BY <1>1, <1>3, <3>1
  <2>2. ~(q > p)
    <3> SUFFICES ASSUME q > p PROVE FALSE
      OBVIOUS
    <3>1. d * q >= d * p + d
      BY <1>1, Beyond
    <3> QED BY <1>1, <1>3, <3>1
  <2> QED BY <1>1, <2>1, <2>2
<1>5. m = r
  BY <1>1, <1>3, <1>4
<1> QED BY <1>4, <1>5 DEF m, p

(* Modulo d a count goes from one residue to the next, and from the last   *)
(* one to 0.                                                               *)
LEMMA NextResidue ==
  ASSUME NEW d \in Nat, d > 0, NEW t \in Nat, t > 0
  PROVE  /\ (t - 1) % d \in 0 .. d - 1
         /\ t % d # 0 => t % d = ((t - 1) % d) + 1
         /\ t % d = 0 => (t - 1) % d = d - 1
<1> DEFINE q == (t - 1) \div d
           r == (t - 1) % d
<1>1. t - 1 = d * q + r /\ q \in Int /\ r \in 0 .. d - 1
  OBVIOUS
<1> HIDE DEF q, r
<1>2. CASE r < d - 1
  <2>1. t = d * q + (r + 1) /\ r + 1 \in 0 .. d - 1
    BY <1>1, <1>2
  <2>2. t % d = r + 1
    BY <2>1, <1>1, Residue
  <2> QED BY <1>1, <1>2, <2>2 DEF r
<1>3. CASE r = d - 1
  <2>1. t = d * (q + 1) + 0 /\ 0 \in 0 .. d - 1 /\ q + 1 \in Int
    BY <1>1, <1>3
  <2>2. t % d = 0
    BY <2>1, Residue
  <2> QED BY <1>1, <1>3, <2>2 DEF r
<1> QED BY <1>1, <1>2, <1>3

(***************************************************************************)
(* The loop.                                                               *)
(***************************************************************************)

(* 1000 / rate_hz is a period of at least a millisecond. *)
LEMMA PeriodRange ==
  ASSUME NEW hz \in Rate
  PROVE  SECOND \div hz \in 1 .. SECOND
<1>1. SECOND \in Nat /\ hz \in Nat /\ 1 <= hz /\ hz <= SECOND
  BY TickLoopAssumption DEF Rate
<1> QED BY <1>1, SMT

(* The deadline trails the clock by the lag, the iteration's state agrees  *)
(* with what really happened in it, and the lag is at least what the last  *)
(* deadline left of a period.                                              *)
Deadline == pc # "start" => Trails(next_sample, ms_ticks, lag)

Counted ==
  /\ lag >= -tick_ms
  /\ pc = "start" => lag = 0
  /\ pc = "wait" => /\ lag > 1 => counted
                    /\ counted => lag > 0

ThisTick ==
  /\ pc \in {"sense", "log"} => Minus(ms_ticks, t_ms) <= lag + tick_ms
  /\ pc = "log" => env_fresh = measured
  /\ row.written => pc \in {"check", "wait"}

Inv == TypeOK /\ Deadline /\ Counted /\ ThisTick /\ RowIsOfThisTick

(* What the loop reads at lines 166 and 170. *)
LEMMA BehindIsLag ==
  ASSUME Deadline, pc # "start"
  PROVE  Behind = lag
BY SignedDistance DEF Deadline, Behind

(* The invariant holds when the loop begins.                               *)
THEOREM InitInv == Init => Inv
<1> SUFFICES ASSUME Init PROVE Inv  OBVIOUS
<1> USE TickLoopAssumption DEF Init
<1>1. TypeOK
  <2>1. tick_ms \in 1 .. SECOND
    BY PeriodRange
  <2>2. WordMod \in Nat /\ 0 \in 0 .. WordMod - 1
    BY WordModAssumption
  <2>3. NoRow \in [t_ms : 0 .. WordMod - 1, env : BOOLEAN, written : BOOLEAN]
    BY <2>2 DEF NoRow
  <2>4. /\ lag \in -SECOND .. MaxLag /\ sched \in 0 .. 2 * SECOND
        /\ rate_hz \in Rate /\ env_decimate \in Rate
    OBVIOUS
  <2> QED BY <2>1, <2>2, <2>3, <2>4 DEF TypeOK
<1>2. Deadline /\ ThisTick /\ RowIsOfThisTick
  BY DEF Deadline, ThisTick, RowIsOfThisTick, NoRow
<1>3. Counted
  BY <1>1 DEF Counted, TypeOK
<1> QED BY <1>1, <1>2, <1>3 DEF Inv

(* It holds after every step: of the loop, of a command and of the clock.  *)
THEOREM NextInv == Inv /\ [Next]_vars => Inv'
<1> SUFFICES ASSUME Inv, [Next]_vars PROVE Inv'  OBVIOUS
<1> USE DEF Inv
<1>0. /\ SECOND \in Nat /\ MaxLag \in Nat
      /\ WordMod \in Nat /\ WordMod = 2 * (WordMod \div 2) /\ WordMod >= 2
      /\ WordMod \div 2 \in Nat
      /\ SECOND <= WordMod \div 2 /\ MaxLag < WordMod \div 2
  BY TickLoopAssumption, WordModAssumption
<1>1. CASE SysTick_Handler
  <2>1. /\ lag' \in -SECOND .. MaxLag
        /\ pc # "start" => lag' = lag + 1
        /\ ms_ticks' = Plus(ms_ticks, 1)
    BY <1>1, <1>0 DEF SysTick_Handler, TypeOK
  <2>2. ms_ticks' \in 0 .. WordMod - 1
    BY <2>1, <1>0, PlusInRange, 1 \in 0 .. WordMod DEF TypeOK
  <2>3. TypeOK'
    BY <1>1, <2>1, <2>2 DEF SysTick_Handler, schedule, envVars, TypeOK
  <2>4. Deadline'
    <3>1. CASE pc = "start"
      BY <1>1, <3>1 DEF SysTick_Handler, Deadline
    <3>2. CASE pc # "start"
      <4>1. Trails(next_sample, ms_ticks, lag) /\ lag + 1 < WordMod \div 2
        BY <2>1, <3>2, <1>0 DEF Deadline
      <4>2. Trails(next_sample, Plus(ms_ticks, 1), lag + 1)
        BY <4>1, ClockTicks
      <4> QED BY <4>2, <3>2, <2>1, <1>1 DEF SysTick_Handler, schedule, Deadline
    <3> QED BY <3>1, <3>2
  <2>5. Counted'
    BY <1>1, <1>0 DEF SysTick_Handler, schedule, Counted, TypeOK
  <2>6. ThisTick'
    <3>1. Minus(ms_ticks', t_ms) <= Minus(ms_ticks, t_ms) + 1
          /\ Minus(ms_ticks, t_ms) \in Nat /\ Minus(ms_ticks', t_ms) \in Nat
      BY <2>1, <2>2, AgeGrows DEF TypeOK
    <3> HIDE DEF Inv
    <3> QED
      BY <1>1, <2>1, <3>1
      DEF SysTick_Handler, schedule, envVars, ThisTick, Inv, TypeOK
  <2>7. RowIsOfThisTick'
    <3>1. Minus(ms_ticks', row.t_ms) <= Minus(ms_ticks, row.t_ms) + 1
          /\ Minus(ms_ticks, row.t_ms) \in Nat /\ Minus(ms_ticks', row.t_ms) \in Nat
      BY <2>1, <2>2, AgeGrows DEF TypeOK
    <3>2. row.written => pc # "start"
      BY DEF ThisTick
    <3> QED
      BY <1>1, <2>1, <3>1, <3>2
      DEF SysTick_Handler, schedule, envVars, RowIsOfThisTick, TypeOK
  <2> QED BY <2>3, <2>4, <2>5, <2>6, <2>7
<1>2. CASE Start
  <2>1. Trails(ms_ticks, ms_ticks, 0)
    <3>1. ms_ticks \in 0 .. WordMod - 1 /\ ms_ticks - 0 = ms_ticks
      BY DEF TypeOK
    <3>2. ms_ticks % WordMod = ms_ticks
      BY <3>1, <1>0, ModOnce
    <3> QED BY <3>1, <3>2, <1>0 DEF Trails
  <2> QED
    BY <1>2, <2>1, <1>0
    DEF Start, envVars, TypeOK, Deadline, Counted, ThisTick, RowIsOfThisTick
<1>3. CASE Check
  <2>1. Behind = lag
    BY <1>3, BehindIsLag DEF Check
  <2>2. overruns' \in 0 .. WordMod - 1 /\ counted' = (lag > 0)
    BY <1>3, <1>0, <2>1, PlusInRange, 1 \in 0 .. WordMod DEF Check, TypeOK
  <2>3. TypeOK'
    BY <1>3, <2>2 DEF Check, schedule, envVars, TypeOK
  <2>4. Deadline' /\ Counted'
    <3>1. Deadline'
      BY <1>3 DEF Check, schedule, Deadline
    <3>2. counted' <=> lag > 0
      BY <2>2, Zenon
    <3>3. /\ lag' = lag /\ tick_ms' = tick_ms /\ pc' = "wait"
          /\ lag >= -tick_ms
      BY <1>3 DEF Check, schedule, Counted
    <3>4. lag \in Int  BY <1>0 DEF TypeOK
    <3> QED BY <3>1, <3>2, <3>3, <3>4 DEF Counted
  <2>5. ThisTick' /\ RowIsOfThisTick'
    BY <1>3 DEF Check, schedule, envVars, ThisTick, RowIsOfThisTick
  <2> QED BY <2>3, <2>4, <2>5
<1>4. CASE Wait
  <2>1. Behind = lag
    BY <1>4, BehindIsLag DEF Wait, Step
  <2>2. /\ lag \in 0 .. MaxLag /\ tick_ms \in 1 .. SECOND
        /\ tick_ms' = tick_ms /\ ms_ticks' = ms_ticks /\ lag' = lag - tick_ms
        /\ lag' \in -SECOND .. MaxLag
    BY <1>4, <2>1, <1>0 DEF Wait, Step, TypeOK
  <2>3. Trails(next_sample', ms_ticks', lag')
    <3>1. Trails(next_sample, ms_ticks, lag)
      BY <1>4 DEF Wait, Step, Deadline
    <3>2. tick_ms \in Nat /\ tick_ms <= lag + WordMod \div 2
      BY <2>2, <1>0
    <3>3. Trails(Plus(next_sample, tick_ms), ms_ticks, lag - tick_ms)
      BY <3>1, <3>2, DeadlineMoves
    <3> QED BY <3>3, <2>2, <1>4 DEF Wait, Step
  <2>4. /\ next_sample' \in 0 .. WordMod - 1
        /\ NoRow \in [t_ms : 0 .. WordMod - 1, env : BOOLEAN, written : BOOLEAN]
        /\ sched' \in 0 .. 2 * SECOND
    <3>1. next_sample' \in 0 .. WordMod - 1  BY <2>3, TrailsRange
    <3>2. sched' \in 0 .. 2 * SECOND
      BY <1>4, <2>2, <1>0 DEF Wait, Step, TypeOK
    <3> QED BY <3>1, <3>2, <1>0 DEF NoRow
  <2>5. TypeOK'
    BY <1>4, <2>2, <2>4 DEF Wait, Step, TypeOK
  <2>6. Deadline' /\ Counted'
    BY <1>4, <2>2, <2>3 DEF Wait, Step, Deadline, Counted
  <2>7. ThisTick' /\ RowIsOfThisTick'
    BY <1>4 DEF Wait, Step, ThisTick, RowIsOfThisTick, NoRow
  <2> QED BY <2>5, <2>6, <2>7
<1>5. ASSUME NEW hz \in RateArg, SetRate(hz) PROVE Inv'
  <2> DEFINE p == SECOND \div hz
  <2>0. p \in 1 .. SECOND
    BY <1>5, PeriodRange DEF SetRate
  <2>1. /\ tick_ms' = p /\ lag' = -p /\ ms_ticks' = ms_ticks
        /\ ms_ticks \in 0 .. WordMod - 1
        /\ next_sample' = Plus(ms_ticks, p)
    BY <1>5 DEF SetRate, TypeOK
  <2> HIDE DEF p
  <2>2. Trails(next_sample', ms_ticks', lag')
    <3>1. /\ -p \in -(WordMod \div 2) .. (WordMod \div 2) - 1
          /\ ms_ticks - (-p) = ms_ticks + p
      BY <2>0, <2>1, <1>0
    <3> QED BY <3>1, <2>1 DEF Trails, Plus
  <2>3. next_sample' \in 0 .. WordMod - 1
    BY <2>2, TrailsRange
  <2>4. lag' \in -SECOND .. MaxLag
    BY <2>0, <2>1, <1>0
  <2>5. TypeOK'
    BY <1>5, <2>0, <2>1, <2>3, <2>4 DEF SetRate, envVars, TypeOK
  <2>6. Deadline' /\ Counted'
    BY <1>5, <2>0, <2>1, <2>2 DEF SetRate, Deadline, Counted
  <2>7. ThisTick' /\ RowIsOfThisTick'
    BY <1>5 DEF SetRate, envVars, ThisTick, RowIsOfThisTick
  <2> QED BY <2>5, <2>6, <2>7
<1>6. ASSUME NEW on \in BOOLEAN, EnableLogging(on) PROVE Inv'
  BY <1>6
  DEF EnableLogging, schedule, envVars, TypeOK, Deadline, Counted, ThisTick,
      RowIsOfThisTick
<1>7. CASE NoChange
  BY <1>7
  DEF NoChange, schedule, envVars, TypeOK, Deadline, Counted, ThisTick,
      RowIsOfThisTick
<1>8. CASE Stamp
  <2>1. Minus(ms_ticks, ms_ticks) = 0
    BY AgeGrows DEF TypeOK
  <2>2. TypeOK' /\ Deadline' /\ Counted'
    BY <1>8 DEF Stamp, schedule, envVars, TypeOK, Deadline, Counted
  <2>3. ThisTick' /\ RowIsOfThisTick'
    BY <1>8, <2>1
    DEF Stamp, schedule, envVars, ThisTick, RowIsOfThisTick, Counted, TypeOK
  <2> QED BY <2>2, <2>3
<1>9. CASE Sense
  <2>1. PICK ok \in BOOLEAN :
          /\ measured' = ok /\ env_fresh' = ok /\ env_valid' = (env_valid \/ ok)
    BY <1>9 DEF Sense
  <2>2. tick' \in 0 .. WordMod - 1
    BY <1>9, <1>0, PlusInRange, 1 \in 0 .. WordMod DEF Sense, TypeOK
  <2>3. TypeOK'
    BY <1>9, <2>1, <2>2, <1>0 DEF Sense, schedule, TypeOK
  <2>4. Deadline' /\ Counted'
    BY <1>9 DEF Sense, schedule, Deadline, Counted
  <2>5. ThisTick' /\ RowIsOfThisTick'
    BY <1>9, <2>1 DEF Sense, schedule, ThisTick, RowIsOfThisTick
  <2> QED BY <2>3, <2>4, <2>5
<1>10. CASE Log
  <2>0. row' \in [t_ms : 0 .. WordMod - 1, env : BOOLEAN, written : BOOLEAN]
    <3>1. CASE logging_enabled
      BY <1>10, <3>1 DEF Log, TypeOK
    <3>2. CASE ~logging_enabled
      BY <1>10, <3>2, <1>0 DEF Log, NoRow
    <3> QED BY <3>1, <3>2
  <2>1. TypeOK'
    <3>1. 0 \in 0 .. WordMod - 1  BY <1>0
    <3>2. pc' \in {"start", "check", "wait", "poll", "stamp", "sense", "log"}
      BY <1>10 DEF Log
    <3> QED BY <1>10, <2>0, <3>1, <3>2, Zenon DEF Log, schedule, TypeOK
  <2>2. Deadline' /\ Counted'
    BY <1>10 DEF Log, schedule, Deadline, Counted
  <2>3. ThisTick' /\ RowIsOfThisTick'
    BY <1>10 DEF Log, schedule, ThisTick, RowIsOfThisTick, NoRow
  <2> QED BY <2>1, <2>2, <2>3
<1>11. CASE UNCHANGED vars
  BY <1>11
  DEF vars, schedule, envVars, TypeOK, Deadline, Counted, ThisTick, RowIsOfThisTick
<1> QED
  BY <1>1, <1>2, <1>3, <1>4, <1>5, <1>6, <1>7, <1>8, <1>9, <1>10, <1>11
  DEF Next, Loop, Command

(* So it always holds.                                                     *)
THEOREM SpecInv == Spec => []Inv
BY InitInv, NextInv, PTL DEF Spec

(* Every variable keeps its type: the rate, the period and the decimation  *)
(* stay in range, so that line 235 never divides by zero (main.c:153-283). *)
THEOREM TypeCorrect == Spec => []TypeOK
<1>1. Inv => TypeOK  BY DEF Inv
<1> QED BY SpecInv, <1>1, PTL

(* The signed 32-bit difference is the real distance to the deadline, at   *)
(* every value of the counter (main.c:168-170).                            *)
THEOREM DeadlineSurvivesTheWrap == Spec => []LagIsMeasured
<1>1. Inv => LagIsMeasured
  BY BehindIsLag DEF Inv, LagIsMeasured
<1> QED BY SpecInv, <1>1, PTL

(* No iteration begins early, and none more than a millisecond late goes   *)
(* uncounted (main.c:163-171).                                             *)
THEOREM KeepsTheSchedule == Spec => OnSchedule
<1>1. Inv /\ [Next]_vars =>
        [pc = "wait" /\ pc' # "wait" =>
           /\ lag >= 0 /\ (lag > 1 => counted) /\ (counted => lag > 0)]_vars
  <2> SUFFICES ASSUME Inv, [Next]_vars, pc = "wait", pc' # "wait"
               PROVE  /\ lag >= 0 /\ (lag > 1 => counted)
                      /\ (counted => lag > 0)
    OBVIOUS
  <2>1. Wait
    BY DEF Next, Loop, vars, SysTick_Handler, Start, Check, Command, SetRate,
           EnableLogging, NoChange, Stamp, Sense, Log
  <2>2. Behind = lag
    BY BehindIsLag DEF Inv
  <2> QED BY <2>1, <2>2 DEF Wait, Step, Inv, Counted
<1> QED BY SpecInv, <1>1, PTL DEF Spec, OnSchedule

(* A row's barometer fields and its stamp are of the iteration that wrote  *)
(* it (main.c:221-253).                                                    *)
THEOREM RowsAreFresh == Spec => []RowIsOfThisTick
<1>1. Inv => RowIsOfThisTick  BY DEF Inv
<1> QED BY SpecInv, <1>1, PTL

-----------------------------------------------------------------------------
(* The barometer's beat.                                                   *)
(* As many periods as the rate are a second, less what the division loses. *)
LEMMA PeriodsFit ==
  ASSUME NEW hz \in Rate
  PROVE  /\ hz \in Nat /\ hz > 0 /\ SECOND \in Nat \ {0}
         /\ hz * (SECOND \div hz) \in SECOND - hz + 1 .. SECOND
<1> DEFINE p == SECOND \div hz
           m == SECOND % hz
<1>1. hz \in Nat /\ hz > 0 /\ SECOND \in Nat \ {0}
  BY TickLoopAssumption DEF Rate
<1>2. p \in Int /\ m \in 0 .. hz - 1
  BY <1>1
<1>3. SECOND = hz * p + m
  BY <1>1
<1> HIDE DEF p, m
<1>4. hz * p \in Int
  BY <1>1, <1>2
<1>5. hz * p \in SECOND - hz + 1 .. SECOND
  BY <1>1, <1>2, <1>3, <1>4
<1> QED BY <1>1, <1>5 DEF p

(* Between two turns at one rate the schedule has moved by a period for    *)
(* each tick, counted from the one after the turn.                         *)
Begun == IF pc \in {"poll", "stamp", "sense"} THEN 1 ELSE 0
OnBeat ==
  /\ env_decimate = rate_hz /\ tick_ms = SECOND \div rate_hz
  /\ pc = "start" => tick = 0
  /\ tick # 0 /\ ~changed => sched = (((tick - 1) % env_decimate) + Begun) * tick_ms

(* No turn of the barometer has been yet.                                  *)
LEMMA InitOnBeat == Init => OnBeat
BY DEF Init, OnBeat

(* Every deadline that passes adds a period to the beat and one to the     *)
(* tick (main.c:233-236).                                                  *)
LEMMA NextOnBeat == TypeOK /\ OnBeat /\ [Next]_vars => OnBeat'
<1> SUFFICES ASSUME TypeOK, OnBeat, [Next]_vars PROVE OnBeat'
  OBVIOUS
<1> DEFINE d == env_decimate
           k == (tick - 1) % d
<1>1. /\ d \in Rate /\ d \in Nat /\ d > 0 /\ tick_ms \in Nat
      /\ d * tick_ms <= SECOND /\ SECOND \in Nat \ {0} /\ tick \in 0 .. WordMod - 1
      /\ WordMod \in Nat
  BY PeriodsFit, WordModAssumption, TickLoopAssumption DEF TypeOK, OnBeat
<1>2. tick # 0 => k \in 0 .. d - 1
  BY <1>1, NextResidue
<1>3. CASE Wait
  <2>1. /\ pc = "wait" /\ pc' = "poll" /\ UNCHANGED << rate_hz, tick_ms, env_decimate, tick, changed >>
        /\ sched' = IF sched + tick_ms < 2 * SECOND THEN sched + tick_ms ELSE 2 * SECOND
    BY <1>3 DEF Wait, Step
  <2>2. ASSUME tick # 0, ~changed PROVE sched' = (k + 1) * tick_ms
    <3>1. sched = (k + 0) * tick_ms
      BY <2>1, <2>2 DEF OnBeat, Begun
    <3> HIDE DEF k, d
    <3>2. k \in 0 .. d - 1
      BY <1>2, <2>2
    <3>3. (k + 1) * tick_ms = k * tick_ms + tick_ms /\ k * tick_ms \in Int
      BY <1>1, <3>2
    <3>4. (k + 1) * tick_ms <= d * tick_ms
      <4>1. CASE k + 1 = d
        BY <4>1, <1>1
      <4>2. CASE d > k + 1
        <5>1. CASE tick_ms = 0
          BY <5>1, <3>2, <1>1
        <5>2. CASE tick_ms > 0
          <6>1. tick_ms * d >= tick_ms * (k + 1) + tick_ms
            BY <5>2, <4>2, <1>1, <3>2, Beyond
          <6> QED BY <6>1, <1>1, <3>2
        <5> QED BY <5>1, <5>2, <1>1
      <4> QED BY <4>1, <4>2, <3>2, <1>1
    <3>5. (k + 1) * tick_ms <= SECOND
      BY <3>3, <3>4, <1>1
    <3>6. sched = k * tick_ms
      BY <3>1, <3>2
    <3>7. sched + tick_ms = (k + 1) * tick_ms
      BY <3>6, <3>3
    <3>8. sched + tick_ms < 2 * SECOND
      BY <3>7, <3>5, <3>3, <1>1
    <3>9. sched' = sched + tick_ms
      BY <2>1, <3>8
    <3> QED BY <3>7, <3>9
  <2> QED BY <2>1, <2>2 DEF OnBeat, Begun
<1>4. CASE Sense
  <2>1. /\ pc = "sense" /\ pc' = "log" /\ UNCHANGED << rate_hz, tick_ms, env_decimate >>
        /\ sched' = (IF BarometerTurn THEN 0 ELSE sched)
        /\ changed' = (changed /\ ~BarometerTurn)
        /\ tick' = Plus(tick, 1)
    BY <1>4 DEF Sense, schedule
  <2>2. tick' # 0 => tick' = tick + 1
    BY <2>1, <1>1 DEF Plus
  <2>3. ASSUME tick' # 0, ~changed' PROVE sched' = (tick % d) * tick_ms
    <3>1. CASE BarometerTurn
      BY <3>1, <2>1, <1>1 DEF BarometerTurn
    <3>2. CASE ~BarometerTurn
      <4>1. tick # 0 /\ ~changed /\ sched' = sched
        <5>1. 0 % d = 0
          BY <1>1
        <5> QED BY <5>1, <3>2, <2>1, <2>3 DEF BarometerTurn
      <4>2. tick % d = k + 1
        <5>1. tick \in Nat /\ tick > 0 /\ tick % d # 0
          BY <4>1, <3>2, <1>1 DEF BarometerTurn
        <5> HIDE DEF d
        <5> QED BY <5>1, <1>1, NextResidue
      <4>3. sched = (k + 1) * tick_ms
        BY <4>1, <2>1 DEF OnBeat, Begun
      <4> QED BY <4>1, <4>2, <4>3
    <3> QED BY <3>1, <3>2
  <2>4. tick' # 0 => ((tick' - 1) % env_decimate') + Begun' = tick % d
    <3>1. tick % d \in Int /\ Begun' = 0
      BY <1>1, <2>1 DEF Begun
    <3>2. tick' # 0 => tick' - 1 = tick
      BY <2>2, <1>1
    <3>3. env_decimate' = d
      BY <2>1
    <3> QED BY <3>1, <3>2, <3>3
  <2> QED BY <2>1, <2>3, <2>4 DEF OnBeat
<1>5. CASE \E hz \in RateArg : SetRate(hz)
  BY <1>5 DEF SetRate, OnBeat
<1>6. CASE SysTick_Handler \/ Check \/ Stamp \/ Log
  BY <1>6 DEF SysTick_Handler, Check, Stamp, Log, schedule, OnBeat, Begun
<1>7. CASE NoChange \/ \E on \in BOOLEAN : EnableLogging(on)
  BY <1>7 DEF NoChange, EnableLogging, schedule, OnBeat, Begun
<1>8. CASE Start \/ UNCHANGED vars
  BY <1>8 DEF Start, vars, schedule, OnBeat, Begun
<1> QED BY <1>3, <1>4, <1>5, <1>6, <1>7, <1>8 DEF Next, Loop, Command

(* Within one rate the barometer's turns are env_decimate periods apart, a *)
(* second less the rounding of the period (main.c:150-155, 186-193).       *)
THEOREM BarometerIsPunctual == Spec => []BarometerKeepsItsBeat
<1>1. TypeOK /\ OnBeat => BarometerKeepsItsBeat
  <2> SUFFICES ASSUME TypeOK, OnBeat, Turn, tick # 0, ~changed
               PROVE  sched \in SECOND - rate_hz + 1 .. SECOND
    BY DEF BarometerKeepsItsBeat
  <2>1. /\ env_decimate \in Rate /\ tick \in Nat /\ tick > 0
        /\ tick % env_decimate = 0
    BY WordModAssumption DEF TypeOK, Turn, BarometerTurn
  <2>2. (tick - 1) % env_decimate = env_decimate - 1
    BY <2>1, PeriodsFit, NextResidue
  <2>3. sched = (env_decimate - 1 + 1) * tick_ms
    BY <2>2 DEF OnBeat, Begun, Turn
  <2>4. env_decimate - 1 + 1 = env_decimate
    BY <2>1, PeriodsFit
  <2> QED BY <2>1, <2>3, <2>4, PeriodsFit DEF OnBeat
<1> QED BY TypeCorrect, InitOnBeat, NextOnBeat, <1>1, PTL DEF Spec
=============================================================================

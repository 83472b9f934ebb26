---------------------------- MODULE SdCardProofs ----------------------------
(***************************************************************************)
(* Proofs about the SD card driver for every number and length of blocks   *)
(* and any number of faults, resets and exchanges: after the handshake the *)
(* card is addressed in its own unit, nothing is in flight when an access  *)
(* has succeeded, only a fault makes one fail, and what disk_read() and    *)
(* disk_write() do is what a disk does.                                    *)
(***************************************************************************)
EXTENDS SdCard, TLAPS

(* Of two multiples of d the greater one is greater by d at least.         *)
LEMMA Beyond ==
  ASSUME NEW d \in Nat, d > 0, NEW p \in Int, NEW q \in Int, p > q
  PROVE  d * p >= d * q + d
<1>1. PICK k \in Nat : p = q + 1 + k
  <2>1. p - q - 1 \in Nat /\ p = q + 1 + (p - q - 1)
    OBVIOUS
  <2> QED BY <2>1
<1>2. d * (q + 1 + k) = d * q + d + d * k
  OBVIOUS
<1>3. d * k >= 0 /\ d * q \in Int /\ d * k \in Int
  OBVIOUS
<1> QED BY <1>1, <1>2, <1>3

(* Quotient and remainder of what was multiplied out.                      *)
LEMMA Residue ==
  ASSUME NEW d \in Nat, d > 0, NEW q \in Int, NEW r \in 0 .. d - 1
  PROVE  (d * q + r) % d = r /\ (d * q + r) \div d = q
<1> DEFINE a == d * q + r
           p == a \div d
           m == a % d
<1>1. a \in Int /\ p \in Int /\ m \in 0 .. d - 1
  OBVIOUS
<1>2. a = d * p + m
  <2> HIDE DEF a
  <2> QED BY <1>1
<1>3. d * p + m = d * q + r
  BY <1>2
<1> HIDE DEF p, m
<1>4. p = q
  <2>1. ~(p > q)
    <3> SUFFICES ASSUME p > q PROVE FALSE
      OBVIOUS
    <3>1. d * p >= d * q + d
      BY <1>1, Beyond
    <3> QED BY <1>1, <1>3, <3>1
  <2>2. ~(q > p)
    <3> SUFFICES ASSUME q > p PROVE FALSE
      OBVIOUS
    <3>1. d * q >= d * p + d
      BY <1>1, Beyond
    <3> QED BY <1>1, <1>3, <3>1
  <2> QED BY <1>1, <2>1, <2>2
<1>5. m = r
  BY <1>1, <1>3, <1>4
<1> QED BY <1>4, <1>5 DEF m, p

(* The requests the driver may be serving.                                 *)
Requests ==
  { r \in [op : {"read", "write"}, sector : Block, count : Nat \ {0}, data : Seq(Content)] :
      /\ r.sector + r.count <= NBLOCK
      /\ Len(r.data) = IF r.op = "write" THEN r.count ELSE 0 }

NoResult == [st |-> "NONE", data |-> << >>]
Starting == {"init", "cmd0", "cmd8", "acmd41", "cmd58", "cmd16", "block0"}
Between == Starting \cup {"run", "halt"}
InLoop == {"wait", "command", "data", "program"}

(* The control part of the state, and its counters.                        *)
Control ==
  /\ card_type \in {"UNKNOWN", "V1", "V2", "V2_HC"}
  /\ block_addressed \in BOOLEAN /\ fast \in BOOLEAN
  /\ v2 \in BOOLEAN /\ up \in BOOLEAN
  /\ pc \in Between \cup InLoop \cup {"next"}
  /\ res.st \in {"NONE", "OK", "ERROR"}
  /\ known \in BOOLEAN /\ hurt \in BOOLEAN
Counters ==
  /\ tries \in 0 .. CMD0_TRIES /\ (pc = "cmd0" => tries < CMD0_TRIES)
  /\ faults \in 0 .. MaxFaults
  /\ resets \in 0 .. MaxResets /\ swaps \in 0 .. MaxSwaps

(* The request: none outside a call, and the loop is within it.            *)
Shape ==
  /\ req \in Requests \cup {Idle}
  /\ i \in 0 .. req.count
  /\ got \in Seq(Content \cup {Garbage}) /\ Len(got) <= i
  /\ pc \in Between => req = Idle /\ i = 0 /\ got = << >>
  /\ pc \notin Between => req \in Requests
  /\ pc \in InLoop => i < req.count
  /\ pc = "program" => req.op = "write"
  /\ pc \in Starting => res = NoResult

(* The card: it programs only after the handshake, and is not busy where   *)
(* the driver relies on it.                                                *)
Quiet ==
  /\ card.state # "ready" => ~Busy
  /\ card.kind = "hc" => card.len512
  /\ pc \in {"command", "data"} => ~Busy
  /\ pc = "next" /\ i > 0 => ~Busy
  /\ res.st = "OK" => pc = "run" /\ ~Busy

(* What the handshake has established so far about the card that obeyed    *)
(* CMD0; one that was put in since speaks its native protocol.             *)
Identified ==
  /\ pc = "cmd0" => ~known
  /\ pc \in {"cmd0", "cmd8", "acmd41", "cmd58"} => ~block_addressed
  /\ pc \notin {"init", "cmd0"} /\ ~known => card.state = "native"
  /\ pc = "cmd16" \/ Serving => sdcard_ready
  /\ known /\ pc = "cmd8" => card.state = "idle"
  /\ known /\ pc = "acmd41" =>
       /\ card.state \in {"idle", "ready"} /\ ~Busy
       /\ card.kind = "hc" /\ card.state = "ready" => v2
  /\ known /\ pc \in {"cmd58", "cmd16"} => card.state = "ready" /\ ~Busy
  /\ known /\ (pc = "cmd16" \/ Serving) => (block_addressed <=> card.kind = "hc")
  /\ known /\ Serving => card.state = "ready" /\ card.len512 /\ fast

IInv == card \in Cards /\ Control /\ Counters /\ Shape /\ Quiet /\ Identified

-----------------------------------------------------------------------------
(* The card and its answers.                                               *)

(* An address is its block's, in the unit of a card that was asked.        *)
LEMMA AddrIsBlock ==
  ASSUME NEW b \in Block, block_addressed <=> card.kind = "hc", card \in Cards
  PROVE  BlockAt(Addr(b)) = b /\ Valid(Addr(b))
<1> DEFINE S == SD_BLOCK_SIZE
           x == b * S
<1>1. /\ S \in Nat /\ S > 0 /\ NBLOCK \in Nat /\ NBLOCK * S <= WordMod
      /\ b \in Nat /\ b + 1 <= NBLOCK /\ WordMod \in Nat /\ WordMod > 0
  BY SdCardAssumption, WordModAssumption DEF Block
<1>2. x = S * b + 0 /\ 0 \in 0 .. S - 1
  BY <1>1
<1>3. x % S = 0 /\ x \div S = b
  BY <1>1, <1>2, Residue
<1>4. x \in Nat /\ x < WordMod
  <2>1. PICK k \in Nat : NBLOCK = b + 1 + k
    <3>1. NBLOCK - b - 1 \in Nat /\ NBLOCK = b + 1 + (NBLOCK - b - 1)
      BY <1>1
    <3> QED BY <3>1
  <2>2. (b + 1 + k) * S = b * S + S + k * S
    BY <1>1
  <2>3. b * S \in Nat /\ k * S \in Nat
    BY <1>1
  <2> QED BY <1>1, <2>1, <2>2, <2>3
<1>5. x % WordMod = x
  <2> HIDE DEF x
  <2> QED BY <1>1, <1>4
<1>6. card.kind \in {"v1", "v2", "hc"}
  BY DEF Cards, Kind
<1>7. Addr(b) = IF card.kind = "hc" THEN b ELSE x
  BY <1>5 DEF Addr
<1> HIDE DEF x
<1>8. CASE card.kind = "hc"
  BY <1>7, <1>8 DEF BlockAt, Valid, Byte
<1>9. CASE card.kind \in Byte
  BY <1>3, <1>7, <1>9 DEF BlockAt, Valid, Byte
<1> QED BY <1>6, <1>8, <1>9 DEF Byte

(* A command changes neither what the card is nor what it holds.           *)
LEMMA ObeyedCard ==
  ASSUME NEW cmd, NEW arg, card \in Cards
  PROVE  /\ Obeyed(cmd, arg) \in Cards
         /\ Obeyed(cmd, arg).kind = card.kind
         /\ Obeyed(cmd, arg).prog = card.prog
         /\ Obeyed(cmd, arg).blocks = card.blocks
         /\ Obeyed(cmd, arg).state \in {"native", "idle", "ready"}
BY DEF Obeyed, Cards

(* Only CMD0 takes a card back, or gets an answer from one that speaks its *)
(* native protocol.                                                        *)
LEMMA OtherCommand ==
  ASSUME NEW cmd, NEW arg, card \in Cards, cmd # "CMD0"
  PROVE  /\ card.state \in {"native", "ready"} => Obeyed(cmd, arg).state = card.state
         /\ card.state = "native" /\ ~Busy => R1(cmd, arg) = NoAnswer
         /\ card.len512 => Obeyed(cmd, arg).len512
<1>1. card.state \in {"native", "ready"} => Obeyed(cmd, arg).state = card.state
  BY DEF Obeyed, Cards
<1>2. card.len512 => Obeyed(cmd, arg).len512
  BY DEF Obeyed, Cards
<1> QED BY <1>1, <1>2 DEF R1

(* A command or its answer may get lost.                                   *)
LEMMA ExchangeCases ==
  ASSUME NEW cmd, NEW arg, NEW a \in Exchange(cmd, arg)
  PROVE  \/ /\ a.card = Obeyed(cmd, arg) /\ a.r = R1(cmd, arg) /\ a.fault = FALSE
         \/ /\ faults # MaxFaults /\ a.card \in {card, Obeyed(cmd, arg)}
            /\ a.r = NoAnswer /\ a.fault = TRUE
<1>1. \/ a = [card |-> Obeyed(cmd, arg), r |-> R1(cmd, arg), fault |-> FALSE]
      \/ /\ faults # MaxFaults
         /\ a \in [card : {card, Obeyed(cmd, arg)}, r : {NoAnswer}, fault : {TRUE}]
  BY DEF Exchange
<1> DEFINE o == Obeyed(cmd, arg)
           r == R1(cmd, arg)
<1>2. \/ a = [card |-> o, r |-> r, fault |-> FALSE]
      \/ faults # MaxFaults /\ a \in [card : {card, o}, r : {NoAnswer}, fault : {TRUE}]
  BY <1>1
<1> HIDE DEF o, r
<1>3. \/ a.card = o /\ a.r = r /\ a.fault = FALSE
      \/ /\ faults # MaxFaults /\ a.card \in {card, o}
         /\ a.r = NoAnswer /\ a.fault = TRUE
  <2>1. CASE a = [card |-> o, r |-> r, fault |-> FALSE]
    BY <2>1
  <2>2. CASE faults # MaxFaults
             /\ a \in [card : {card, o}, r : {NoAnswer}, fault : {TRUE}]
    <3>1. a.card \in {card, o} /\ a.r = NoAnswer /\ a.fault = TRUE
      BY <2>2
    <3> QED BY <2>2, <3>1
  <2> QED BY <1>2, <2>1, <2>2
<1> QED BY <1>3 DEF o, r

(* What any command and its answer leave of the card.                      *)
LEMMA ExchangedCard ==
  ASSUME NEW cmd, NEW arg, NEW a \in Exchange(cmd, arg), card \in Cards
  PROVE  /\ a.card \in Cards /\ a.fault \in BOOLEAN
         /\ a.card.kind = card.kind /\ a.card.prog = card.prog
         /\ a.card.blocks = card.blocks
         /\ \/ a.r = R1(cmd, arg) /\ a.card = Obeyed(cmd, arg)
            \/ a.r = NoAnswer /\ a.fault
         /\ cmd # "CMD0" =>
              /\ card.state \in {"native", "ready"} => a.card.state = card.state
              /\ card.state = "native" /\ ~Busy => a.r = NoAnswer
              /\ card.len512 => a.card.len512
<1> DEFINE o == Obeyed(cmd, arg)
<1>1. /\ o \in Cards /\ o.kind = card.kind /\ o.prog = card.prog
      /\ o.blocks = card.blocks
  BY ObeyedCard
<1>2. cmd # "CMD0" =>
        /\ card.state \in {"native", "ready"} => o.state = card.state
        /\ card.state = "native" /\ ~Busy => R1(cmd, arg) = NoAnswer
        /\ card.len512 => o.len512
  BY OtherCommand
<1>3. \/ a.card = o /\ a.r = R1(cmd, arg) /\ a.fault = FALSE
      \/ a.card \in {card, o} /\ a.r = NoAnswer /\ a.fault = TRUE
  BY ExchangeCases
<1> HIDE DEF o
<1>4. /\ a.card \in Cards /\ a.card.kind = card.kind
      /\ a.card.prog = card.prog /\ a.card.blocks = card.blocks
  <2>1. CASE a.card = o
    BY <1>1, <2>1
  <2>2. CASE a.card = card
    BY <2>2
  <2> QED BY <1>3, <2>1, <2>2
<1>5. \/ a.card = o /\ a.r = R1(cmd, arg) /\ a.fault = FALSE
      \/ a.card = card /\ a.r = NoAnswer /\ a.fault = TRUE
      \/ a.card = o /\ a.r = NoAnswer /\ a.fault = TRUE
  BY <1>3
<1>6. /\ a.fault \in BOOLEAN
      /\ \/ a.r = R1(cmd, arg) /\ a.card = o
         \/ a.r = NoAnswer /\ a.fault
  BY <1>5
<1>7. ASSUME cmd # "CMD0"
      PROVE  /\ card.state \in {"native", "ready"} => a.card.state = card.state
             /\ card.state = "native" /\ ~Busy => a.r = NoAnswer
             /\ card.len512 => a.card.len512
  BY <1>2, <1>5, <1>7
<1> QED BY <1>4, <1>6, <1>7 DEF o

(* What the answers that the driver waits for say.                         *)
LEMMA AnswerToCmd0 ==
  ASSUME NEW a \in Exchange("CMD0", 0), card \in Cards
  PROVE  /\ a.r = R1_IDLE => ~Busy /\ a.card.state = "idle"
         /\ ~Busy /\ (card.kind = "hc" => card.len512) =>
              (card.kind = "hc" => a.card.len512) 
         /\ Busy => a.card = card
<1> DEFINE o == Obeyed("CMD0", 0)
           r == R1("CMD0", 0)
<1>1. \/ a.card = o /\ a.r = r
      \/ a.card \in {card, o} /\ a.r = NoAnswer
  BY ExchangeCases
<1>2. R1_IDLE = 1 /\ R1_READY = 0 /\ NoAnswer = 255
  BY DEF R1_IDLE, R1_READY, NoAnswer
<1>3. /\ r = R1_IDLE => ~Busy
      /\ ~Busy => o.state = "idle" /\ (o.len512 <=> card.kind = "hc")
      /\ Busy => o = card
  <2>1. /\ ~Busy => o.state = "idle" /\ (o.len512 <=> card.kind = "hc")
        /\ Busy => o = card
    BY DEF Obeyed, Cards
  <2>2. Busy => r = 0
    BY DEF R1
  <2> QED BY <1>2, <2>1, <2>2
<1> HIDE DEF o, r
<1> QED BY <1>1, <1>2, <1>3

(* A card is out of idle only by an ACMD41 that it obeyed, and one of high *)
(* capacity only if HCS was set.                                           *)
LEMMA AnswerToAcmd41 ==
  ASSUME NEW hcs \in {0, 1}, NEW a \in Exchange("ACMD41", hcs), card \in Cards,
         ~Busy, card.state \in {"idle", "ready"}
  PROVE  /\ a.r = R1_READY => a.card.state = "ready"
         /\ a.card.state \in {"idle", "ready"}
         /\ card.kind = "hc" /\ card.state = "idle" /\ a.card.state = "ready" => hcs = 1
<1> DEFINE o == Obeyed("ACMD41", hcs)
           r == R1("ACMD41", hcs)
<1>1. \/ a.card = o /\ a.r = r
      \/ a.card \in {card, o} /\ a.r = NoAnswer
  BY ExchangeCases
<1>2. R1_IDLE = 1 /\ R1_READY = 0 /\ NoAnswer = 255
  BY DEF R1_IDLE, R1_READY, NoAnswer
<1>3. /\ o.state \in {"idle", "ready"}
      /\ card.kind = "hc" /\ card.state = "idle" /\ o.state = "ready" => hcs = 1
  BY DEF Obeyed, Cards
<1>4. r = R1_READY => o.state = "ready"
  BY <1>2, <1>3 DEF R1
<1> HIDE DEF o, r
<1>5. CASE a.card = o
  BY <1>1, <1>2, <1>3, <1>4, <1>5
<1>6. CASE a.card = card
  BY <1>1, <1>2, <1>3, <1>4, <1>6
<1> QED BY <1>1, <1>5, <1>6

(* A card that is ready accepts every command that names a block of its    *)
(* own.                                                                    *)
LEMMA AnswerWhenReady ==
  ASSUME NEW cmd \in {"CMD58", "CMD16", "CMD17", "CMD24"}, NEW arg,
         card \in Cards, ~Busy, card.state = "ready",
         cmd \in {"CMD17", "CMD24"} => Valid(arg)
  PROVE  R1(cmd, arg) = R1_READY
<1>1. Obeyed(cmd, arg).state = "ready"
  BY OtherCommand
<1> QED BY <1>1 DEF R1

(* A card that answered CMD16 has its frames at 512 bytes.                 *)
LEMMA AnswerToCmd16 ==
  ASSUME NEW a \in Exchange("CMD16", 0), card \in Cards, ~Busy, card.state = "ready",
         a.r = R1_READY
  PROVE  a.card.len512
<1> DEFINE o == Obeyed("CMD16", 0)
           r == R1("CMD16", 0)
<1>1. \/ a.card = o /\ a.r = r
      \/ a.card \in {card, o} /\ a.r = NoAnswer
  BY ExchangeCases
<1>2. R1_READY = 0 /\ NoAnswer = 255
  BY DEF R1_READY, NoAnswer
<1>3. o.len512
  BY DEF Obeyed, Cards
<1> HIDE DEF o, r
<1> QED BY <1>1, <1>2, <1>3

-----------------------------------------------------------------------------
(* The invariant: what a call's end leaves, then one lemma per action.     *)
LEMMA Ended ==
  ASSUME NEW st, NEW data, Finish(st, data)
  PROVE  Shape' /\ pc' \in {"run", "halt"} /\ res'.st = st /\ up' \in BOOLEAN
BY DEF Finish, Shape, Between, Starting, InLoop, Idle

(* Where the request loop may go without a word about its request.         *)
LEMMA ControlKept ==
  ASSUME Control, UNCHANGED driverVars, UNCHANGED known,
         pc' \in Between \cup InLoop \cup {"next"},
         up' \in BOOLEAN, hurt' \in BOOLEAN, res'.st \in {"NONE", "OK", "ERROR"}
  PROVE  Control'
BY DEF Control, driverVars

(* The counters stay within their bounds.                                  *)
LEMMA CountersKept ==
  ASSUME Counters, UNCHANGED << tries, resets, swaps >>, pc' # "cmd0",
         faults' \in 0 .. MaxFaults
  PROVE  Counters'
BY DEF Counters

(* The bounds, as the proofs cite them.                                    *)
LEMMA Bounds ==
  /\ CMD0_TRIES \in Nat /\ 0 < CMD0_TRIES
  /\ MaxFaults \in Nat /\ MaxResets \in Nat /\ MaxSwaps \in Nat
BY SdCardAssumption

(* A fault is noted and counted.                                           *)
LEMMA Suffered ==
  ASSUME Control, Counters, NEW fault \in BOOLEAN, Suffer(fault)
  PROVE  hurt' \in BOOLEAN /\ faults' \in 0 .. MaxFaults
<1>1. hurt' \in BOOLEAN
  BY DEF Suffer, Control
<1>2. faults' \in 0 .. MaxFaults
  BY Bounds DEF Suffer, Counters
<1> QED BY <1>1, <1>2

(* One lemma for each step.  sdcard_init() begins, with a card of any      *)
(* state.                                                                  *)
LEMMA StartStep == IInv /\ Start => IInv'
<1> SUFFICES ASSUME IInv, Start PROVE IInv'
  OBVIOUS
<1>1. card \in Cards /\ Control /\ Counters /\ Shape /\ Quiet /\ Identified
  BY DEF IInv
<1>2. (card \in Cards)'
  BY <1>1 DEF Start, requestVars, driverVars, Same
<1>3. Control'
  BY <1>1, Bounds DEF Control, Suffer, Between, Starting, InLoop, Start, requestVars, driverVars, Same
<1>4. Counters'
  BY <1>1, Bounds DEF Counters, Suffer, Between, Starting, InLoop, Start, requestVars, driverVars, Same
<1>5. Shape'
  BY <1>1 DEF Shape, Between, Starting, InLoop, Start, requestVars, driverVars, Same
<1>6. Quiet'
  BY <1>1 DEF Quiet, Busy, Start, requestVars, driverVars, Same
<1>7. Identified'
  BY <1>1 DEF Identified, Serving, Busy, sdcard_ready, Start, requestVars, driverVars, Same
<1> QED BY <1>2, <1>3, <1>4, <1>5, <1>6, <1>7 DEF IInv

(* A card that is not ready within the second is given up.                 *)
LEMMA Acmd41ExpiresStep == IInv /\ Acmd41Expires => IInv'
<1> SUFFICES ASSUME IInv, Acmd41Expires PROVE IInv'
  OBVIOUS
<1>1. card \in Cards /\ Control /\ Counters /\ Shape /\ Quiet /\ Identified
  BY DEF IInv
<1>2. (card \in Cards)'
  BY <1>1 DEF Acmd41Expires, requestVars, driverVars, Same
<1>3. Control'
  BY <1>1, Bounds DEF Control, Suffer, Between, Starting, InLoop, Acmd41Expires, requestVars, driverVars, Same
<1>4. Counters'
  BY <1>1, Bounds DEF Counters, Suffer, Between, Starting, InLoop, Acmd41Expires, requestVars, driverVars, Same
<1>5. Shape'
  BY <1>1 DEF Shape, Between, Starting, InLoop, Acmd41Expires, requestVars, driverVars, Same
<1>6. Quiet'
  BY <1>1 DEF Quiet, Busy, Acmd41Expires, requestVars, driverVars, Same
<1>7. Identified'
  BY <1>1 DEF Identified, Serving, Busy, sdcard_ready, Acmd41Expires, requestVars, driverVars, Same
<1> QED BY <1>2, <1>3, <1>4, <1>5, <1>6, <1>7 DEF IInv

(* The handshake over, sdcard_bringup() reads block 0.                     *)
LEMMA ReadBlock0Step == IInv /\ ReadBlock0 => IInv'
<1> SUFFICES ASSUME IInv, ReadBlock0 PROVE IInv'
  OBVIOUS
<1>1. card \in Cards /\ Control /\ Counters /\ Shape /\ Quiet /\ Identified
  BY DEF IInv
<1>2. (card \in Cards)'
  BY <1>1 DEF ReadBlock0, requestVars, driverVars, Same
<1>3. Control'
  BY <1>1, Bounds DEF Control, Between, Starting, InLoop, ReadBlock0, requestVars, driverVars, Same
<1>4. Counters'
  BY <1>1, Bounds DEF Counters, Between, Starting, InLoop, ReadBlock0, requestVars, driverVars, Same
<1>5. Shape'
  BY <1>1, SdCardAssumption DEF Shape, Between, Starting, InLoop, Requests, Block, ReadBlock0, requestVars, driverVars, Same
<1>6. Quiet'
  BY <1>1 DEF Quiet, Shape, NoResult, Between, Starting, InLoop, Busy, ReadBlock0, requestVars, driverVars, Same
<1>7. Identified'
  BY <1>1 DEF Identified, Serving, Busy, sdcard_ready, ReadBlock0, requestVars, driverVars, Same
<1> QED BY <1>2, <1>3, <1>4, <1>5, <1>6, <1>7 DEF IInv

(* A reset of the MCU leaves the card as it is.                            *)
LEMMA ResetStep == IInv /\ Reset => IInv'
<1> SUFFICES ASSUME IInv, Reset PROVE IInv'
  OBVIOUS
<1>1. card \in Cards /\ Control /\ Counters /\ Shape /\ Quiet /\ Identified
  BY DEF IInv
<1>2. (card \in Cards)'
  BY <1>1 DEF Reset
<1>3. Control'
  BY <1>1, Bounds DEF Control, Between, Starting, InLoop, Reset
<1>4. Counters'
  BY <1>1, Bounds DEF Counters, Between, Starting, InLoop, Reset
<1>5. Shape'
  BY <1>1 DEF Shape, Between, Starting, InLoop, Idle, NoResult, Reset
<1>6. Quiet'
  BY <1>1 DEF Quiet, Busy, Reset
<1>7. Identified'
  BY <1>1 DEF Identified, Serving, Reset
<1> QED BY <1>2, <1>3, <1>4, <1>5, <1>6, <1>7 DEF IInv

(* The card is done programming.                                           *)
LEMMA ProgrammedStep == IInv /\ Programmed => IInv'
<1> SUFFICES ASSUME IInv, Programmed PROVE IInv'
  OBVIOUS
<1>1. card \in Cards /\ Control /\ Counters /\ Shape /\ Quiet /\ Identified
  BY DEF IInv
<1>2. (card \in Cards)'
  BY <1>1 DEF Cards, Busy, Programmed
<1>3. Control'
  BY <1>1 DEF Control, Programmed, requestVars, driverVars, Same
<1>4. Counters'
  BY <1>1 DEF Counters, Programmed, requestVars, driverVars, Same
<1>5. Shape'
  BY <1>1 DEF Shape, Programmed, requestVars, driverVars, Same
<1>6. Quiet'
  BY <1>1 DEF Quiet, Busy, Cards, Programmed, requestVars, driverVars, Same
<1>7. Identified'
  BY <1>1 DEF Identified, Serving, Busy, Cards, sdcard_ready, Programmed, requestVars, driverVars, Same
<1> QED BY <1>2, <1>3, <1>4, <1>5, <1>6, <1>7 DEF IInv

(* Another card is in the slot.                                            *)
LEMMA SwapStep == IInv /\ Swap => IInv'
<1> SUFFICES ASSUME IInv, Swap PROVE IInv'
  OBVIOUS
<1>1. card \in Cards /\ Control /\ Counters /\ Shape /\ Quiet /\ Identified
  BY DEF IInv
<1>2. (card \in Cards)'
  BY <1>1 DEF Cards, Kind, PoweredUp, Swap
<1>3. Control'
  BY <1>1, Bounds DEF Control, Swap, requestVars, driverVars, Same
<1>4. Counters'
  BY <1>1, Bounds DEF Counters, Swap, requestVars, driverVars, Same
<1>5. Shape'
  BY <1>1 DEF Shape, Swap, requestVars, driverVars, Same
<1>6. Quiet'
  <2>1. ~Busy' /\ (card'.kind = "hc" => card'.len512)
    <3>1. PICK k \in Kind, c \in Content : card' = PoweredUp(k, [b \in Block |-> c])
      BY DEF Swap
    <3> QED BY <3>1 DEF PoweredUp, Busy
  <2> QED BY <1>1, <2>1 DEF Quiet, Swap, requestVars
<1>7. Identified'
  BY <1>1 DEF Identified, Serving, Busy, PoweredUp, sdcard_ready, Swap, requestVars, driverVars, Same
<1> QED BY <1>2, <1>3, <1>4, <1>5, <1>6, <1>7 DEF IInv

(* A card that obeyed CMD0 is idle, any other one still is as it was.      *)
LEMMA Cmd0Step == IInv /\ Cmd0 => IInv'
<1> SUFFICES ASSUME IInv, Cmd0 PROVE IInv'
  OBVIOUS
<1>1. card \in Cards /\ Control /\ Counters /\ Shape /\ Quiet /\ Identified
  BY DEF IInv
<1>2. PICK a \in Exchange("CMD0", 0) :
        /\ Command(a) /\ tries' = tries + 1 /\ pc = "cmd0"
        /\ pc' = IF a.r = R1_IDLE THEN "cmd8"
                 ELSE IF tries' < CMD0_TRIES THEN "cmd0" ELSE "init"
        /\ known' = (a.r = R1_IDLE)
  BY DEF Cmd0
<1>3. /\ a.card \in Cards /\ a.fault \in BOOLEAN
      /\ a.card.kind = card.kind /\ a.card.prog = card.prog
      /\ card' = a.card
      /\ Suffer(a.fault)
      /\ a.r = R1_IDLE => ~Busy /\ a.card.state = "idle"
      /\ card.kind = "hc" => a.card.len512
      /\ Busy => a.card = card
  BY <1>1, <1>2, ExchangedCard, AnswerToCmd0 DEF Command, Quiet
<1>4. UNCHANGED << card_type, block_addressed, fast, v2, up, resets, swaps >> /\ UNCHANGED requestVars
  BY DEF Cmd0, Same
<1>5. hurt' \in BOOLEAN /\ faults' \in 0 .. MaxFaults
  BY <1>1, <1>2, <1>3, Suffered DEF Command
<1>6. (card \in Cards)' /\ (Busy' <=> Busy)
  BY <1>3 DEF Busy
<1>7. Control'
  BY <1>1, <1>2, <1>4, <1>5 DEF Control, Between, Starting, InLoop, requestVars
<1>8. Counters'
  BY <1>1, <1>2, <1>4, <1>5, Bounds DEF Counters
<1>9. Shape'
  BY <1>1, <1>2, <1>4 DEF Shape, Between, Starting, InLoop, requestVars, Cmd0
<1>10. Quiet'
  BY <1>1, <1>2, <1>3, <1>4, <1>6 DEF Quiet, requestVars
<1>11. Identified'
  BY <1>1, <1>2, <1>3, <1>4, <1>6 DEF Identified, Serving, R1_IDLE
<1> QED BY <1>6, <1>7, <1>8, <1>9, <1>10, <1>11 DEF IInv

(* CMD8 tells version 2 from version 1.                                    *)
LEMMA Cmd8Step == IInv /\ Cmd8 => IInv'
<1> SUFFICES ASSUME IInv, Cmd8 PROVE IInv'
  OBVIOUS
<1>1. card \in Cards /\ Control /\ Counters /\ Shape /\ Quiet /\ Identified
  BY DEF IInv
<1>2. PICK a \in Exchange("CMD8", 0) :
        /\ pc = "cmd8" /\ card' = a.card /\ pc' \in {"acmd41", "init"}
        /\ \E damaged \in BOOLEAN : Suffer(a.fault \/ damaged)
        /\ v2' \in BOOLEAN
  BY DEF Cmd8
<1>3. /\ a.card \in Cards /\ a.fault \in BOOLEAN
      /\ a.card.kind = card.kind /\ a.card.prog = card.prog
      /\ card' = a.card
      /\ card.state \in {"native", "ready"} => a.card.state = card.state
      /\ card.len512 => a.card.len512
      /\ \E f \in BOOLEAN : Suffer(f)
      /\ card.state = "idle" => a.card.state = "idle"
  <2>1. card.state = "idle" => a.card.state = "idle"
    <3>1. Obeyed("CMD8", 0) = card
      BY DEF Obeyed
    <3> QED BY <3>1, <1>2, ExchangeCases
  <2>2. \E f \in BOOLEAN : Suffer(f)
    BY <1>1, <1>2, ExchangedCard
  <2> QED BY <1>1, <1>2, <2>1, <2>2, ExchangedCard
<1>4. UNCHANGED << card_type, block_addressed, fast, tries, known, up, resets, swaps >> /\ UNCHANGED requestVars
  BY DEF Cmd8, Same
<1>5. hurt' \in BOOLEAN /\ faults' \in 0 .. MaxFaults
  BY <1>1, <1>2, <1>3, Suffered DEF Command
<1>6. (card \in Cards)' /\ (Busy' <=> Busy)
  BY <1>3 DEF Busy
<1>7. Control'
  BY <1>1, <1>2, <1>4, <1>5 DEF Control, Between, Starting, InLoop, requestVars
<1>8. Counters'
  BY <1>1, <1>2, <1>4, <1>5, Bounds DEF Counters
<1>9. Shape'
  BY <1>1, <1>2, <1>4 DEF Shape, Between, Starting, InLoop, requestVars, Cmd8
<1>10. Quiet'
  BY <1>1, <1>2, <1>3, <1>4, <1>6 DEF Quiet, requestVars, Cards
<1>11. Identified'
  BY <1>1, <1>2, <1>3, <1>4, <1>6 DEF Identified, Serving, Quiet
<1> QED BY <1>6, <1>7, <1>8, <1>9, <1>10, <1>11 DEF IInv

(* ACMD41 takes the card out of idle.                                      *)
LEMMA Acmd41Step == IInv /\ Acmd41 => IInv'
<1> SUFFICES ASSUME IInv, Acmd41 PROVE IInv'
  OBVIOUS
<1>1. card \in Cards /\ Control /\ Counters /\ Shape /\ Quiet /\ Identified
  BY DEF IInv
<1>2. PICK a \in Exchange("ACMD41", IF Hcs THEN 1 ELSE 0) :
        /\ Command(a)
        /\ pc = "acmd41"
        /\ pc' = IF a.r # R1_READY THEN "acmd41" ELSE IF v2 THEN "cmd58" ELSE "cmd16"
        /\ card_type' = IF a.r = R1_READY /\ ~v2 THEN "V1" ELSE card_type
  BY DEF Acmd41
<1>3. /\ a.card \in Cards /\ a.fault \in BOOLEAN
      /\ a.card.kind = card.kind /\ a.card.prog = card.prog
      /\ card' = a.card /\ Suffer(a.fault)
      /\ card.state \in {"native", "ready"} => a.card.state = card.state
      /\ card.state = "native" => a.r # R1_READY
      /\ card.len512 => a.card.len512
      /\ known => /\ a.r = R1_READY => a.card.state = "ready"
                  /\ a.card.state \in {"idle", "ready"}
                  /\ card.kind = "hc" /\ a.card.state = "ready" => v2
  <2> DEFINE hcs == IF Hcs THEN 1 ELSE 0
  <2>1. hcs \in {0, 1} /\ (hcs = 1 <=> v2)
    BY DEF Hcs
  <2>2. card.state = "native" => ~Busy
    BY <1>1 DEF Quiet, Cards
  <2>3. a \in Exchange("ACMD41", hcs)
    BY <1>2
  <2> HIDE DEF hcs
  <2>4. /\ a.card \in Cards /\ a.fault \in BOOLEAN
        /\ a.card.kind = card.kind /\ a.card.prog = card.prog
        /\ card.state \in {"native", "ready"} => a.card.state = card.state
        /\ card.state = "native" => a.r = NoAnswer
        /\ card.len512 => a.card.len512
    BY <1>1, <2>2, <2>3, ExchangedCard
  <2>5. known => card.state \in {"idle", "ready"} /\ ~Busy
                 /\ (card.kind = "hc" /\ card.state = "ready" => v2)
    BY <1>1, <1>2 DEF Identified
  <2>6. known => /\ a.r = R1_READY => a.card.state = "ready"
                 /\ a.card.state \in {"idle", "ready"}
                 /\ card.kind = "hc" /\ card.state = "idle" /\ a.card.state = "ready" => hcs = 1
    BY <1>1, <2>1, <2>3, <2>5, AnswerToAcmd41
  <2> QED BY <1>2, <2>1, <2>4, <2>5, <2>6 DEF Command, NoAnswer, R1_READY
<1>4. UNCHANGED << block_addressed, fast, tries, v2, known, up, resets, swaps >> /\ UNCHANGED requestVars
  BY DEF Acmd41, Same
<1>5. hurt' \in BOOLEAN /\ faults' \in 0 .. MaxFaults
  BY <1>1, <1>3, Suffered
<1>6. (card \in Cards)' /\ (Busy' <=> Busy)
  BY <1>3 DEF Busy
<1>7. Control'
  BY <1>1, <1>2, <1>4, <1>5 DEF Control, Between, Starting, InLoop, requestVars
<1>8. Counters'
  BY <1>1, <1>2, <1>4, <1>5, Bounds DEF Counters
<1>9. Shape'
  BY <1>1, <1>2, <1>4 DEF Shape, Between, Starting, InLoop, requestVars
<1>10. Quiet'
  BY <1>1, <1>2, <1>3, <1>4, <1>6 DEF Quiet, requestVars, Cards
<1>11. Identified'
  BY <1>1, <1>2, <1>3, <1>4, <1>6 DEF Identified, Serving, sdcard_ready, Quiet
<1> QED BY <1>6, <1>7, <1>8, <1>9, <1>10, <1>11 DEF IInv

(* The OCR says how the card is addressed.                                 *)
LEMMA Cmd58Step == IInv /\ Cmd58 => IInv'
<1> SUFFICES ASSUME IInv, Cmd58 PROVE IInv'
  OBVIOUS
<1>1. card \in Cards /\ Control /\ Counters /\ Shape /\ Quiet /\ Identified
  BY DEF IInv
<1>2. PICK a \in Exchange("CMD58", 0) :
        /\ Command(a)
        /\ pc = "cmd58"
        /\ pc' = IF a.r = R1_READY THEN "cmd16" ELSE "init"
        /\ block_addressed' = (a.r = R1_READY /\ card.kind = "hc")
        /\ card_type' = IF a.r = R1_READY /\ card.kind = "hc" THEN "V2_HC"
                        ELSE IF a.r = R1_READY THEN "V2" ELSE card_type
  BY DEF Cmd58
<1>3. /\ a.card \in Cards /\ a.fault \in BOOLEAN
      /\ a.card.kind = card.kind /\ a.card.prog = card.prog
      /\ card' = a.card /\ Suffer(a.fault)
      /\ card.state \in {"native", "ready"} => a.card.state = card.state
      /\ card.state = "native" => a.r # R1_READY
      /\ card.len512 => a.card.len512
  <2>1. card.state = "native" => ~Busy
    BY <1>1 DEF Quiet, Cards
  <2> QED BY <1>1, <1>2, <2>1, ExchangedCard DEF Command, NoAnswer, R1_READY
<1>4. UNCHANGED << fast, tries, v2, known, up, resets, swaps >> /\ UNCHANGED requestVars
  BY DEF Cmd58, Same
<1>5. hurt' \in BOOLEAN /\ faults' \in 0 .. MaxFaults
  BY <1>1, <1>3, Suffered
<1>6. (card \in Cards)' /\ (Busy' <=> Busy)
  BY <1>3 DEF Busy
<1>7. Control'
  BY <1>1, <1>2, <1>4, <1>5 DEF Control, Between, Starting, InLoop, requestVars
<1>8. Counters'
  BY <1>1, <1>2, <1>4, <1>5, Bounds DEF Counters
<1>9. Shape'
  BY <1>1, <1>2, <1>4 DEF Shape, Between, Starting, InLoop, requestVars
<1>10. Quiet'
  BY <1>1, <1>2, <1>3, <1>4, <1>6 DEF Quiet, requestVars, Cards
<1>11. Identified'
  BY <1>1, <1>2, <1>3, <1>4, <1>6 DEF Identified, Serving, sdcard_ready, Quiet
<1> QED BY <1>6, <1>7, <1>8, <1>9, <1>10, <1>11 DEF IInv

(* A card that is addressed in bytes gets frames of 512.                   *)
LEMMA Cmd16Step == IInv /\ Cmd16 => IInv'
<1> SUFFICES ASSUME IInv, Cmd16 PROVE IInv'
  OBVIOUS
<1>1. card \in Cards /\ Control /\ Counters /\ Shape /\ Quiet /\ Identified
  BY DEF IInv
<1>2. PICK a \in IF block_addressed
                THEN {[card |-> card, r |-> R1_READY, fault |-> FALSE]}
                ELSE Exchange("CMD16", 0) :
        /\ Command(a) /\ pc = "cmd16"
        /\ IF a.r = R1_READY THEN pc' = "block0" /\ fast' = TRUE
                            ELSE pc' = "init" /\ UNCHANGED fast
  BY DEF Cmd16
<1>3. /\ a.card \in Cards /\ a.fault \in BOOLEAN
      /\ a.card.kind = card.kind /\ a.card.prog = card.prog
      /\ card' = a.card /\ Suffer(a.fault)
      /\ card.state \in {"native", "ready"} => a.card.state = card.state
      /\ card.state = "native" /\ ~block_addressed => a.r # R1_READY
      /\ card.len512 => a.card.len512
      /\ known /\ a.r = R1_READY => a.card.len512
  <2>1. CASE block_addressed
    <3>1. a = [card |-> card, r |-> R1_READY, fault |-> FALSE]
      BY <1>2, <2>1
    <3>2. known => card.len512
      BY <1>1, <1>2, <2>1 DEF Identified, Quiet
    <3> QED BY <1>1, <1>2, <2>1, <3>1, <3>2 DEF Command
  <2>2. CASE ~block_addressed
    <3>1. a \in Exchange("CMD16", 0)
      BY <1>2, <2>2
    <3>2. card.state = "native" => ~Busy
      BY <1>1 DEF Quiet, Cards
    <3>3. known => card.state = "ready" /\ ~Busy
      BY <1>1, <1>2 DEF Identified
    <3>4. known /\ a.r = R1_READY => a.card.len512
      BY <1>1, <3>1, <3>3, AnswerToCmd16
    <3> QED BY <1>1, <1>2, <3>1, <3>2, <3>4, ExchangedCard DEF Command, NoAnswer, R1_READY
  <2> QED BY <2>1, <2>2
<1>4. /\ UNCHANGED << card_type, block_addressed, tries, v2, known, up, resets, swaps >>
      /\ UNCHANGED requestVars
  BY DEF Cmd16, Same
<1>5. hurt' \in BOOLEAN /\ faults' \in 0 .. MaxFaults
  BY <1>1, <1>3, Suffered
<1>6. (card \in Cards)' /\ (Busy' <=> Busy)
  BY <1>3 DEF Busy
<1>7. Control'
  BY <1>1, <1>2, <1>4, <1>5 DEF Control, Between, Starting, InLoop, requestVars
<1>8. Counters'
  BY <1>1, <1>2, <1>4, <1>5, Bounds DEF Counters
<1>9. Shape'
  BY <1>1, <1>2, <1>4 DEF Shape, Between, Starting, InLoop, requestVars
<1>10. Quiet'
  BY <1>1, <1>2, <1>3, <1>4, <1>6 DEF Quiet, requestVars, Cards
<1>11. Identified'
  BY <1>1, <1>2, <1>3, <1>4, <1>6 DEF Identified, Serving, sdcard_ready, Quiet
<1> QED BY <1>6, <1>7, <1>8, <1>9, <1>10, <1>11 DEF IInv

(* disk_read() and disk_write(): a request within the card.                *)
LEMMA RequestStep == IInv /\ Request => IInv'
<1> SUFFICES ASSUME IInv, Request PROVE IInv'
  OBVIOUS
<1>1. card \in Cards /\ Control /\ Counters /\ Shape /\ Quiet /\ Identified
  BY DEF IInv
<1>2. PICK op \in {"read", "write"}, s \in Block, n \in 1 .. MaxCount :
        \E data \in IF op = "write" THEN [1 .. n -> Content] ELSE {<< >>} :
          s + n <= NBLOCK /\ req' = [op |-> op, sector |-> s, count |-> n, data |-> data]
  BY DEF Request
<1>3. PICK data \in IF op = "write" THEN [1 .. n -> Content] ELSE {<< >>} :
        s + n <= NBLOCK /\ req' = [op |-> op, sector |-> s, count |-> n, data |-> data]
  BY <1>2
<1>4. req' \in Requests
  <2>1. n \in Nat \ {0}
    BY SdCardAssumption
  <2>2. data \in Seq(Content) /\ Len(data) = IF op = "write" THEN n ELSE 0
    <3>1. CASE op = "write"
      <4>1. data \in [1 .. n -> Content]
        BY <3>1
      <4> QED BY <2>1, <3>1, <4>1
    <3>2. CASE op = "read"
      BY <3>2
    <3> QED BY <3>1, <3>2
  <2> QED BY <1>3, <2>1, <2>2 DEF Requests
<1>5. /\ UNCHANGED << card, i, got, faults >> /\ UNCHANGED driverVars /\ Same
      /\ pc = "run" /\ pc' = "next" /\ hurt' = FALSE
      /\ res' = [st |-> "NONE", data |-> << >>]
  BY DEF Request
<1>6. Control'
  BY <1>1, <1>5, ControlKept DEF Same, Control
<1>7. Counters'
  BY <1>1, <1>5 DEF Same, Counters, driverVars
<1>8. Shape'
  <2>1. i' = 0 /\ got' = << >> /\ req'.count \in Nat
    BY <1>1, <1>4, <1>5 DEF Shape, Between, Requests
  <2> QED BY <1>4, <1>5, <2>1 DEF Shape, Between, Starting, InLoop
<1>9. Quiet'
  BY <1>1, <1>5 DEF Quiet, Busy, Shape, Between
<1>10. Identified'
  BY <1>1, <1>5 DEF Identified, Serving, Busy, sdcard_ready, driverVars, Same
<1> QED BY <1>1, <1>5, <1>6, <1>7, <1>8, <1>9, <1>10 DEF IInv

(* A step of the service that leaves the card alone and ends the call or   *)
(* goes on with it.                                                        *)
LEMMA Served ==
  ASSUME IInv, Driver, card' \in Cards, card'.kind = card.kind,
         card'.state = card.state, card.len512 => card'.len512,
         Busy' => card.state = "ready",
         pc \in InLoop \cup {"next"}, hurt' \in BOOLEAN, faults' \in 0 .. MaxFaults,
         \/ \E st \in {"OK", "ERROR"} :
              (\E data : Finish(st, data)) /\ (st = "OK" => ~Busy')
         \/ /\ pc' \in InLoop \cup {"next"} /\ StillServing /\ Shape'
            /\ pc' \in {"command", "data"} => ~Busy'
            /\ pc' = "next" => ~Busy'
  PROVE  IInv'
<1>1. card \in Cards /\ Control /\ Counters /\ Shape /\ Quiet /\ Identified
  BY DEF IInv
<1>2. UNCHANGED << driverVars, known, resets, swaps >>
  BY DEF Driver
<1>3. res.st = "NONE" \/ res.st = "ERROR"
  BY <1>1 DEF Quiet, Control, InLoop
<1>4. CASE \E st \in {"OK", "ERROR"} :
              (\E data : Finish(st, data)) /\ (st = "OK" => ~Busy')
  <2>1. PICK st \in {"OK", "ERROR"} :
          (\E data : Finish(st, data)) /\ (st = "OK" => ~Busy')
    BY <1>4
  <2>2. /\ Shape' /\ pc' \in {"run", "halt"} /\ res'.st = st /\ up' \in BOOLEAN
        /\ st = "OK" => pc' = "run"
    BY <2>1, Ended DEF Finish
  <2>3. Control'
    BY <1>1, <1>2, <2>2, ControlKept DEF Between
  <2>4. Counters'
    BY <1>1, <1>2, <2>2, CountersKept DEF driverVars
  <2>5. Quiet'
    BY <1>1, <2>1, <2>2 DEF Quiet
  <2>6. Identified'
    BY <1>1, <1>2, <2>2 DEF Identified, Serving, InLoop, sdcard_ready, driverVars
  <2> QED BY <2>2, <2>3, <2>4, <2>5, <2>6 DEF IInv
<1>5. CASE /\ pc' \in InLoop \cup {"next"} /\ StillServing /\ Shape'
           /\ pc' \in {"command", "data"} => ~Busy'
           /\ pc' = "next" => ~Busy'
  <2>1. UNCHANGED << up, res >>
    BY <1>5 DEF StillServing
  <2>3. Control'
    BY <1>1, <1>2, <1>5, <2>1, ControlKept DEF InLoop, Control
  <2>4. Counters'
    BY <1>1, <1>2, <1>5, CountersKept DEF driverVars, InLoop
  <2>5. Quiet'
    BY <1>1, <1>3, <1>5, <2>1 DEF Quiet
  <2>6. Identified'
    BY <1>1, <1>2, <1>5 DEF Identified, Serving, InLoop, sdcard_ready, driverVars
  <2> QED BY <1>5, <2>3, <2>4, <2>5, <2>6 DEF IInv
<1> QED BY <1>4, <1>5

(* The next block of the request, or its end.                              *)
LEMMA NextBlockStep == IInv /\ NextBlock => IInv'
<1> SUFFICES ASSUME IInv, NextBlock PROVE IInv'
  OBVIOUS
<1>1. card \in Cards /\ Control /\ Counters /\ Shape /\ Quiet /\ Identified
  BY DEF IInv
<1>2. /\ pc = "next" /\ UNCHANGED << card, faults, hurt >> /\ Driver
      /\ (Busy' <=> Busy)
  BY DEF NextBlock, Busy
<1>3. req \in Requests /\ i \in 0 .. req.count /\ req.count > 0
  BY <1>1, <1>2 DEF Shape, Between, Starting, Requests
<1>4. /\ hurt' \in BOOLEAN /\ faults' \in 0 .. MaxFaults
      /\ Busy' => card.state = "ready"
  BY <1>1, <1>2 DEF Control, Counters, Quiet
<1>5. CASE ~sdcard_ready
  <2>1. Finish("ERROR", << >>)
    BY <1>5 DEF NextBlock
  <2> QED BY <1>1, <1>2, <1>4, <2>1, Served
<1>6. CASE sdcard_ready /\ i = req.count
  <2>1. Finish("OK", got) /\ ~Busy'
    BY <1>1, <1>2, <1>3, <1>6 DEF NextBlock, Quiet
  <2> QED BY <1>1, <1>2, <1>4, <2>1, Served
<1>7. CASE sdcard_ready /\ i # req.count
  <2>1. pc' = "wait" /\ UNCHANGED << i, got >> /\ StillServing
    BY <1>7 DEF NextBlock
  <2>2. Shape'
    <3>1. i < req.count
      BY <1>3, <1>7 DEF Requests
    <3> QED BY <1>1, <1>2, <2>1, <3>1 DEF Shape, StillServing, Between, Starting, InLoop
  <2> QED BY <1>1, <1>2, <1>4, <2>1, <2>2, Served DEF InLoop
<1> QED BY <1>5, <1>6, <1>7

(* Waiting for the card before a command.                                  *)
LEMMA WaitNotBusyStep == IInv /\ WaitNotBusy => IInv'
<1> SUFFICES ASSUME IInv, WaitNotBusy PROVE IInv'
  OBVIOUS
<1>1. card \in Cards /\ Control /\ Counters /\ Shape /\ Quiet /\ Identified
  BY DEF IInv
<1>2. pc = "wait" /\ UNCHANGED card /\ Driver /\ (Busy' <=> Busy)
  BY DEF WaitNotBusy, Busy
<1>3. Busy' => card.state = "ready"
  BY <1>1, <1>2 DEF Quiet
<1>4. CASE ~Busy /\ pc' = "command" /\ UNCHANGED << faults, hurt, i, got >> /\ StillServing
  <2>1. hurt' \in BOOLEAN /\ faults' \in 0 .. MaxFaults
    BY <1>1, <1>4 DEF Control, Counters
  <2>2. Shape'
    BY <1>1, <1>2, <1>4 DEF Shape, StillServing, Between, Starting, InLoop
  <2> QED BY <1>1, <1>2, <1>3, <1>4, <2>1, <2>2, Served DEF InLoop
<1>5. CASE Busy /\ Suffer(TRUE) /\ Finish("ERROR", << >>)
  <2>1. hurt' \in BOOLEAN /\ faults' \in 0 .. MaxFaults
    BY <1>1, <1>5, Suffered
  <2> QED BY <1>1, <1>2, <1>3, <1>5, <2>1, Served DEF InLoop
<1> QED BY <1>4, <1>5 DEF WaitNotBusy

(* Waiting for the card after a write.                                     *)
LEMMA WaitProgrammedStep == IInv /\ WaitProgrammed => IInv'
<1> SUFFICES ASSUME IInv, WaitProgrammed PROVE IInv'
  OBVIOUS
<1>1. card \in Cards /\ Control /\ Counters /\ Shape /\ Quiet /\ Identified
  BY DEF IInv
<1>2. pc = "program" /\ UNCHANGED card /\ Driver /\ (Busy' <=> Busy)
  BY DEF WaitProgrammed, Busy
<1>3. Busy' => card.state = "ready"
  BY <1>1, <1>2 DEF Quiet
<1>4. CASE ~Busy /\ pc' = "next" /\ i' = i + 1 /\ UNCHANGED << faults, hurt, got >> /\ StillServing
  <2>1. hurt' \in BOOLEAN /\ faults' \in 0 .. MaxFaults
    BY <1>1, <1>4 DEF Control, Counters
  <2>2. Shape'
    <3>1. i' \in 0 .. req.count /\ Len(got) <= i'
      BY <1>1, <1>2, <1>4 DEF Shape, InLoop, Requests, Between, Starting
    <3> QED BY <1>1, <1>2, <1>4, <3>1 DEF Shape, StillServing, Between, Starting, InLoop
  <2> QED BY <1>1, <1>2, <1>3, <1>4, <2>1, <2>2, Served DEF InLoop
<1>5. CASE Busy /\ Suffer(TRUE) /\ Finish("ERROR", << >>)
  <2>1. hurt' \in BOOLEAN /\ faults' \in 0 .. MaxFaults
    BY <1>1, <1>5, Suffered
  <2> QED BY <1>1, <1>2, <1>3, <1>5, <2>1, Served DEF InLoop
<1> QED BY <1>4, <1>5 DEF WaitProgrammed

(* CMD17 or CMD24 with the address of the block.                           *)
LEMMA SendCommandStep == IInv /\ SendCommand => IInv'
<1> SUFFICES ASSUME IInv, SendCommand PROVE IInv'
  OBVIOUS
<1>1. card \in Cards /\ Control /\ Counters /\ Shape /\ Quiet /\ Identified
  BY DEF IInv
<1>2. PICK a \in Exchange(IF req.op = "write" THEN "CMD24" ELSE "CMD17",
                          Addr(req.sector + i)) :
        /\ Command(a)
        /\ IF a.r = R1_READY
           THEN pc' = "data" /\ UNCHANGED << i, got >> /\ StillServing
           ELSE Finish("ERROR", << >>)
  BY DEF SendCommand
<1>3. pc = "command" /\ Driver
  BY DEF SendCommand
<1>4. /\ card' \in Cards /\ card'.kind = card.kind /\ card'.state = card.state
      /\ card.len512 => card'.len512
      /\ card'.prog = card.prog /\ Suffer(a.fault) /\ a.fault \in BOOLEAN
  <2> DEFINE cmd == IF req.op = "write" THEN "CMD24" ELSE "CMD17"
  <2>1. cmd \in {"CMD17", "CMD24"}
    OBVIOUS
  <2>2. a \in Exchange(cmd, Addr(req.sector + i))
    BY <1>2
  <2> HIDE DEF cmd
  <2>3. a.card = card
    <3>1. Obeyed(cmd, Addr(req.sector + i)) = card
      BY <2>1 DEF Obeyed
    <3> QED BY <2>2, <3>1, ExchangeCases
  <2>4. a.fault \in BOOLEAN
    BY <1>1, <2>2, ExchangedCard
  <2> QED BY <1>1, <1>2, <2>3, <2>4 DEF Command
<1>5. hurt' \in BOOLEAN /\ faults' \in 0 .. MaxFaults
  BY <1>1, <1>4, Suffered
<1>6. ~Busy'
  BY <1>1, <1>3, <1>4 DEF Quiet, Busy
<1>7. CASE a.r = R1_READY
  <2>1. pc' = "data" /\ UNCHANGED << i, got >> /\ StillServing
    BY <1>2, <1>7
  <2>2. Shape'
    BY <1>1, <1>3, <2>1 DEF Shape, StillServing, Between, Starting, InLoop
  <2> QED BY <1>3, <1>4, <1>5, <1>6, <2>1, <2>2, Served DEF InLoop
<1>8. CASE a.r # R1_READY
  <2>1. Finish("ERROR", << >>)
    BY <1>2, <1>8
  <2> QED BY <1>3, <1>4, <1>5, <1>6, <2>1, Served DEF InLoop
<1> QED BY <1>7, <1>8

(* The data phase of a card that obeyed: it is the identified one, frames  *)
(* its blocks as the driver does and was sent to the right one.            *)
LEMMA InTheDataPhase ==
  ASSUME IInv, pc = "data", InDataPhase
  PROVE  /\ known /\ Framed /\ req \in Requests /\ i \in Nat /\ i < req.count
         /\ Target = req.sector + i /\ Target \in Block
<1>1. card \in Cards /\ Shape /\ Identified
  BY DEF IInv
<1>2. known /\ Framed /\ (block_addressed <=> card.kind = "hc")
  BY <1>1 DEF Identified, Serving, InDataPhase, Framed
<1>3. req \in Requests /\ i \in Nat /\ i < req.count
  BY <1>1 DEF Shape, Between, Starting, InLoop
<1>4. req.sector + i \in Block
  BY <1>3, SdCardAssumption DEF Requests, Block
<1>5. Target = req.sector + i
  BY <1>1, <1>2, <1>4, AddrIsBlock DEF Target
<1> QED BY <1>2, <1>3, <1>4, <1>5

(* A block is read, or its token or frame is lost.                         *)
LEMMA ReadDataStep == IInv /\ ReadData => IInv'
<1> SUFFICES ASSUME IInv, ReadData PROVE IInv'
  OBVIOUS
<1>1. card \in Cards /\ Control /\ Counters /\ Shape /\ Quiet /\ Identified
  BY DEF IInv
<1>2. /\ pc = "data" /\ req.op = "read" /\ UNCHANGED card /\ Driver
      /\ ~Busy /\ ~Busy'
  BY <1>1 DEF ReadData, Quiet, Busy
<1>3. CASE /\ InDataPhase
           /\ pc' = "next" /\ i' = i + 1
           /\ got' = Append(got, IF Framed THEN card.blocks[Target] ELSE Garbage)
           /\ StillServing /\ UNCHANGED << faults, hurt >>
  <2>1. /\ Framed /\ Target \in Block /\ req \in Requests
        /\ i \in Nat /\ i < req.count
    BY <1>2, <1>3, InTheDataPhase
  <2>2. card.blocks[Target] \in Content
    BY <1>1, <2>1 DEF Cards
  <2>3. /\ got' \in Seq(Content \cup {Garbage}) /\ Len(got') <= i'
        /\ i' \in 0 .. req.count
    <3>1. got \in Seq(Content \cup {Garbage}) /\ Len(got) <= i
      BY <1>1 DEF Shape
    <3>2. got' = Append(got, card.blocks[Target])
      BY <1>3, <2>1
    <3>3. req.count \in Nat
      BY <2>1 DEF Requests
    <3> QED BY <1>3, <2>1, <2>2, <3>1, <3>2, <3>3
  <2>4. Shape'
    BY <1>1, <1>2, <1>3, <2>1, <2>3 DEF Shape, StillServing, Between, Starting, InLoop
  <2>5. hurt' \in BOOLEAN /\ faults' \in 0 .. MaxFaults
    BY <1>1, <1>3 DEF Control, Counters
  <2> QED BY <1>1, <1>2, <1>3, <2>4, <2>5, Served DEF InLoop
<1>4. CASE Suffer(InDataPhase) /\ Finish("ERROR", << >>)
  <2>1. hurt' \in BOOLEAN /\ faults' \in 0 .. MaxFaults
    BY <1>1, <1>4, Suffered DEF InDataPhase
  <2> QED BY <1>1, <1>2, <1>4, <2>1, Served DEF InLoop
<1> QED BY <1>3, <1>4 DEF ReadData

(* What the card that takes a block will have become.                      *)
LEMMA Accepts ==
  ASSUME IInv, pc = "data", req.op = "write", InDataPhase
  PROVE  /\ Accepting \in Cards /\ Accepting.kind = card.kind
         /\ Accepting.state = card.state /\ Accepting.len512 = card.len512
         /\ Accepting.blocks = card.blocks
         /\ Accepting.prog = [at |-> req.sector + i, data |-> req.data[i + 1]]
         /\ req.data[i + 1] \in Content /\ Accepting.prog # Nothing
<1>1. card \in Cards
  BY DEF IInv
<1>2. /\ req \in Requests /\ i \in Nat /\ i < req.count
      /\ Target = req.sector + i /\ Target \in Block
  BY InTheDataPhase
<1>3. req.data[i + 1] \in Content
  <2>1. req.data \in Seq(Content) /\ Len(req.data) = req.count /\ req.count \in Nat
    BY <1>2 DEF Requests
  <2> QED BY <1>2, <2>1
<1> DEFINE b == req.sector + i
           d == req.data[i + 1]
<1>4. Accepting = [card EXCEPT !.prog = [at |-> b, data |-> d]]
  BY <1>2 DEF Accepting
<1>5. b \in Block /\ d \in Content
  BY <1>2, <1>3
<1> HIDE DEF b, d
<1>6. b # NBLOCK
  BY <1>5, SdCardAssumption DEF Block
<1> QED BY <1>1, <1>3, <1>4, <1>5, <1>6 DEF Cards, Nothing, b, d

(* A block is taken, refused or lost.                                      *)
LEMMA WriteDataStep == IInv /\ WriteData => IInv'
<1> SUFFICES ASSUME IInv, WriteData PROVE IInv'
  OBVIOUS
<1>1. card \in Cards /\ Control /\ Counters /\ Shape /\ Quiet /\ Identified
  BY DEF IInv
<1>2. /\ pc = "data" /\ req.op = "write" /\ Driver /\ ~Busy
  BY <1>1 DEF WriteData, Quiet
<1>3. CASE /\ InDataPhase /\ Framed
           /\ card' = Accepting /\ UNCHANGED << faults, hurt, i, got >>
           /\ pc' = "program" /\ StillServing
  <2>1. Shape'
    BY <1>1, <1>2, <1>3 DEF Shape, StillServing, Between, Starting, InLoop
  <2>2. hurt' \in BOOLEAN /\ faults' \in 0 .. MaxFaults
    BY <1>1, <1>3 DEF Control, Counters
  <2>3. /\ card' \in Cards /\ card'.kind = card.kind /\ card'.state = card.state
        /\ card.len512 => card'.len512
        /\ card.state = "ready"
    BY <1>2, <1>3, Accepts DEF InDataPhase
  <2> QED BY <1>2, <1>3, <2>1, <2>2, <2>3, Served DEF InLoop
<1>4. CASE /\ Suffer(InDataPhase /\ Framed) /\ Finish("ERROR", << >>)
           /\ card' \in IF InDataPhase /\ Framed THEN {card, Accepting} ELSE {card}
  <2>1. hurt' \in BOOLEAN /\ faults' \in 0 .. MaxFaults
    BY <1>1, <1>4, Suffered
  <2>2. /\ card' \in Cards /\ card'.kind = card.kind /\ card'.state = card.state
        /\ card.len512 => card'.len512
        /\ Busy' => card.state = "ready"
    <3>1. CASE card' = card
      BY <1>1, <1>2, <3>1 DEF Busy
    <3>2. CASE card' = Accepting /\ InDataPhase
      BY <1>2, <3>2, Accepts DEF InDataPhase
    <3> QED BY <1>4, <3>1, <3>2
  <2> QED BY <1>2, <1>4, <2>1, <2>2, Served DEF InLoop
<1> QED BY <1>3, <1>4 DEF WriteData

(* Power-up.                                                               *)
LEMMA InitStep == Init => IInv
<1> SUFFICES ASSUME Init PROVE IInv
  OBVIOUS
<1>1. PICK k \in Kind, c \in Content : card = PoweredUp(k, [b \in Block |-> c])
  BY DEF Init
<1>2. /\ card \in Cards /\ ~Busy /\ card.state = "native"
      /\ card.kind = "hc" => card.len512
  BY <1>1 DEF PoweredUp, Cards, Busy, Kind
<1>3. Control /\ Counters
  <2>1. Control
    BY DEF Init, Control, Between, Starting
  <2>2. Counters
    BY Bounds DEF Init, Counters
  <2> QED BY <2>1, <2>2
<1>4. Shape
  BY DEF Init, Shape, Between, Starting, InLoop, Idle, NoResult
<1>5. Quiet
  BY <1>2 DEF Init, Quiet
<1>6. Identified
  BY <1>2 DEF Init, Identified, Serving
<1> QED BY <1>2, <1>3, <1>4, <1>5, <1>6 DEF IInv

(* All steps together.                                                     *)
LEMMA StepKeeps == IInv /\ [Next]_vars => IInv'
<1>1. ASSUME IInv, UNCHANGED vars PROVE IInv'
  BY <1>1 DEF vars, IInv, Control, Counters, Shape, Quiet, Identified, Busy,
              Serving, sdcard_ready
<1>2. ASSUME IInv, Next PROVE IInv'
  BY <1>2, StartStep, Cmd0Step, Cmd8Step, Acmd41Step, Acmd41ExpiresStep, Cmd58Step,
     Cmd16Step, ReadBlock0Step, NextBlockStep, WaitNotBusyStep, SendCommandStep,
     ReadDataStep, WriteDataStep, WaitProgrammedStep, RequestStep, ProgrammedStep,
     SwapStep, ResetStep DEF Next, Handshake, Serve
<1> QED BY <1>1, <1>2

(* The invariant holds in every state of the driver and its card.          *)
THEOREM Invariant == Spec => []IInv
BY InitStep, StepKeeps, PTL DEF Spec

-----------------------------------------------------------------------------
(* The properties.                                                         *)

(* The types are part of the invariant.                                    *)
LEMMA WellTyped == IInv => TypeOK
<1> SUFFICES ASSUME IInv PROVE TypeOK
  OBVIOUS
<1>1. card \in Cards /\ Control /\ Counters /\ Shape
  BY DEF IInv
<1>2. req = Idle \/ req.sector + req.count <= NBLOCK
  BY <1>1 DEF Shape, Requests
<1> QED BY <1>1, <1>2 DEF TypeOK, Control, Counters, Shape, Between, Starting, InLoop

(* Once block 0 may be read, the card that obeyed the handshake has left   *)
(* idle, is addressed in its own unit and has blocks of 512 bytes          *)
(* (sdcard.c:93-158), whatever was lost or late and whatever resets there  *)
(* were.                                                                   *)
THEOREM HandshakeIdentifies == Spec => []ReadyForTheFileSystem
<1>1. IInv => ReadyForTheFileSystem
  BY WellTyped DEF IInv, Identified, Serving, ReadyForTheFileSystem
<1> QED BY <1>1, Invariant, PTL

(* An access that was reported as done has left nothing in flight          *)
(* (diskio.c:50-51).                                                       *)
THEOREM DoneMeansDone == Spec => []NothingInFlight
<1>1. IInv => NothingInFlight
  BY DEF IInv, Quiet, NothingInFlight
<1> QED BY <1>1, Invariant, PTL

(* An access turns to ERROR only when it was hit.                          *)
LEMMA FailsForAReason ==
  IInv /\ [Next]_vars => (res'.st = "ERROR" /\ res.st # "ERROR" => hurt' \/ ~known)
<1> SUFFICES ASSUME IInv, [Next]_vars, res'.st = "ERROR", res.st # "ERROR", known
             PROVE  hurt'
  BY DEF IInv, Control
<1>1. card \in Cards /\ Control /\ Counters /\ Shape /\ Quiet /\ Identified
  BY DEF IInv
<1>2. res' # res
  OBVIOUS
<1>3. CASE NextBlock
  <2>1. sdcard_ready
    BY <1>1, <1>3 DEF Identified, Serving, NextBlock
  <2>2. res'.st # "ERROR"
    <3>1. CASE i = req.count
      BY <1>3, <2>1, <3>1 DEF NextBlock, Finish
    <3>2. CASE i # req.count
      BY <1>2, <1>3, <2>1, <3>2 DEF NextBlock, StillServing
    <3> QED BY <3>1, <3>2
  <2> QED BY <2>2
<1>4. CASE WaitNotBusy
  BY <1>2, <1>4 DEF WaitNotBusy, Suffer, StillServing
<1>5. CASE WaitProgrammed
  BY <1>2, <1>5 DEF WaitProgrammed, Suffer, StillServing
<1>6. CASE SendCommand
  <2> DEFINE cmd == IF req.op = "write" THEN "CMD24" ELSE "CMD17"
             addr == Addr(req.sector + i)
  <2>1. PICK a \in Exchange(cmd, addr) :
          Command(a) /\ (a.r = R1_READY \/ Finish("ERROR", << >>))
                     /\ (a.r = R1_READY => StillServing)
    BY <1>6 DEF SendCommand
  <2>2. pc = "command"
    BY <1>6 DEF SendCommand
  <2>3. ~Busy /\ card.state = "ready" /\ (block_addressed <=> card.kind = "hc")
    BY <1>1, <2>2 DEF Quiet, Identified, Serving
  <2>4. req.sector + i \in Block
    BY <1>1, <2>2, SdCardAssumption DEF Shape, Requests, Block, Between, Starting, InLoop
  <2>5. Valid(addr)
    BY <1>1, <2>3, <2>4, AddrIsBlock
  <2>6. cmd \in {"CMD17", "CMD24"}
    OBVIOUS
  <2> HIDE DEF cmd, addr
  <2>7. R1(cmd, addr) = R1_READY
    BY <1>1, <2>3, <2>5, <2>6, AnswerWhenReady
  <2>8. a.r # R1_READY
    BY <1>2, <2>1 DEF StillServing
  <2>9. a.fault = TRUE
    BY <2>7, <2>8, ExchangeCases
  <2> QED BY <2>1, <2>9 DEF Command, Suffer
<1>7. CASE ReadData
  <2>1. InDataPhase
    BY <1>1, <1>7 DEF ReadData, InDataPhase, Quiet, Identified, Serving
  <2> QED BY <1>2, <1>7, <2>1 DEF ReadData, Suffer, StillServing
<1>8. CASE WriteData
  <2>1. InDataPhase /\ Framed
    BY <1>1, <1>8 DEF WriteData, InDataPhase, Framed, Quiet, Identified, Serving
  <2> QED BY <1>2, <1>8, <2>1 DEF WriteData, Suffer, StillServing
<1>9. CASE Request \/ Reset
  BY <1>9 DEF Request, Reset
<1>10. CASE \/ Handshake \/ Programmed \/ Swap \/ UNCHANGED vars
  BY <1>2, <1>10 DEF Handshake, Start, Cmd0, Cmd8, Acmd41, Acmd41Expires, Cmd58, Cmd16,
                    ReadBlock0, Programmed, Swap, requestVars, vars
<1> QED BY <1>3, <1>4, <1>5, <1>6, <1>7, <1>8, <1>9, <1>10 DEF Next, Serve

(* An access to the identified card fails only if a frame, an answer or a  *)
(* deadline was missed during it (sdcard.c:166, diskio.c:50-51).           *)
THEOREM OnlyFaultsFailAccesses == Spec => OnlyFaultsFail
BY Invariant, FailsForAReason, PTL DEF Spec, OnlyFaultsFail

-----------------------------------------------------------------------------
(* The driver implements the block device.                                 *)
Done == i + (IF pc = "program" THEN 1 ELSE 0)
Attached == known /\ Serving

(* Nothing of the device changes.                                          *)
LEMMA Unseen ==
  ASSUME Stored' = Stored, Attached' = Attached, UNCHANGED << req, got, res >>,
         Done' = Done
  PROVE  UNCHANGED Device!deviceVars
BY DEF Device!deviceVars, Attached, Done

(* What the card has accepted changes only with its blocks and what it     *)
(* programs.                                                               *)
LEMMA StoredKept ==
  ASSUME card'.prog = card.prog, card'.blocks = card.blocks
  PROVE  Stored' = Stored
BY DEF Stored, Busy

(* A powered-up card is the device before it is known.                     *)
LEMMA DeviceInit == Init => Device!Init
<1> SUFFICES ASSUME Init PROVE Device!Init
  OBVIOUS
<1>1. PICK k \in Kind, c \in Content : card = PoweredUp(k, [b \in Block |-> c])
  BY DEF Init
<1>2. Stored \in [Block -> Content]
  BY <1>1 DEF Stored, PoweredUp, Busy
<1>3. /\ known = FALSE /\ req = Idle /\ i = 0 /\ pc = "init" /\ got = << >>
      /\ res = [st |-> "NONE", data |-> << >>]
  BY DEF Init
<1> QED BY <1>2, <1>3 DEF Device!Init, Device!Idle, Idle

(* Until the handshake is over there is no device; its end attaches one.   *)
LEMMA HandshakeSteps ==
  ASSUME IInv, IInv', Handshake, ~ReadBlock0
  PROVE  [Device!Next]_Device!deviceVars
<1>1. card \in Cards /\ Control /\ Shape /\ Control' /\ UNCHANGED requestVars
  BY DEF IInv, Handshake, Start, Cmd0, Cmd8, Acmd41, Acmd41Expires, Cmd58, Cmd16
<1>2. Stored' = Stored
  <2>1. card' = card \/ \E cmd, arg : \E a \in Exchange(cmd, arg) : card' = a.card
    BY DEF Handshake, Start, Cmd0, Cmd8, Acmd41, Acmd41Expires, Cmd58, Cmd16, Command
  <2>2. CASE card' = card
    BY <2>2, StoredKept
  <2>3. CASE \E cmd, arg : \E a \in Exchange(cmd, arg) : card' = a.card
    <3>1. PICK cmd, arg : \E a \in Exchange(cmd, arg) : card' = a.card
      BY <2>3
    <3>2. PICK a \in Exchange(cmd, arg) : card' = a.card
      BY <3>1
    <3> QED BY <1>1, <3>2, ExchangedCard, StoredKept
  <2> QED BY <2>1, <2>2, <2>3
<1>3. Done' = Done
  BY <1>1 DEF Done, requestVars, Handshake, Start, Cmd0, Cmd8, Acmd41, Acmd41Expires,
              Cmd58, Cmd16
<1>4. ~Serving /\ (pc' = "block0" \/ ~Serving')
  BY DEF Serving, Handshake, Start, Cmd0, Cmd8, Acmd41, Acmd41Expires, Cmd58, Cmd16
<1>5. CASE ~Attached'
  <2>1. Attached' = Attached
    BY <1>4, <1>5 DEF Attached
  <2> QED BY <1>1, <1>2, <1>3, <2>1, Unseen DEF requestVars
<1>6. CASE Attached'
  <2>1. Device!Attach
    BY <1>1, <1>2, <1>3, <1>6 DEF Device!Attach, Attached, Done, requestVars
  <2> QED BY <2>1 DEF Device!Next
<1> QED BY <1>5, <1>6

(* disk_read() and disk_write() begin.                                     *)
LEMMA RequestSteps ==
  ASSUME IInv, IInv', ReadBlock0 \/ Request
  PROVE  Device!Next
<1>1. Shape /\ Shape' /\ UNCHANGED << card, i, got, known >> /\ pc' = "next"
      /\ pc \in {"block0", "run"}
      /\ res' = [st |-> "NONE", data |-> << >>]
  BY DEF IInv, ReadBlock0, Request, Same, Shape, Starting, NoResult
<1>2. req = Idle /\ i = 0 /\ got = << >> /\ req' \in Requests
  BY <1>1 DEF Shape, Between, Starting
<1>3. Stored' = Stored
  BY <1>1, StoredKept
<1>4. req'.sector + req'.count - 1 \in Block
  BY <1>2, SdCardAssumption DEF Requests, Block
<1>5. /\ req' \in [op : {"read", "write"}, sector : Block, count : Nat \ {0},
                  data : Seq(Content)]
      /\ Len(req'.data) = IF req'.op = "write" THEN req'.count ELSE 0
  BY <1>2 DEF Requests
<1>6. (known /\ Serving)' = (known /\ Serving)
  BY <1>1 DEF Serving
<1>7. Device!Request
  BY <1>1, <1>2, <1>3, <1>4, <1>5, <1>6 DEF Device!Request, Device!Idle, Idle
<1> QED BY <1>7 DEF Device!Next

(* A call that ends without having touched the card in this step.          *)
LEMMA EndSteps ==
  ASSUME IInv, Shape', pc \in InLoop \cup {"next"}, Driver, Stored' = Stored,
         \/ Finish("ERROR", << >>)
         \/ Finish("OK", got) /\ pc = "next" /\ i = req.count
  PROVE  Device!Next
<1>1. req \in Requests /\ req # Idle /\ (pc = "next" => Done = i)
  <2>1. Shape
    BY DEF IInv
  <2>2. req \in Requests
    BY <2>1 DEF Shape, Between, Starting, InLoop
  <2> QED BY <2>1, <2>2, SdCardAssumption DEF Requests, Idle, Done, Shape
<1>2. pc' \in {"run", "halt"} /\ known' = known
  BY DEF Finish, Driver
<1>3. (known /\ Serving)' = (known /\ Serving)
  BY <1>2 DEF Serving, InLoop
<1>4. req' = Idle /\ i' = 0 /\ got' = << >> /\ Done' = 0
  BY <1>2 DEF Finish, Done
<1>5. CASE Finish("ERROR", << >>)
  <2>1. Device!Fail
    BY <1>1, <1>3, <1>4, <1>5 DEF Device!Fail, Device!End, Device!Idle, Idle, Finish, Done
  <2> QED BY <2>1 DEF Device!Next
<1>6. CASE Finish("OK", got) /\ pc = "next" /\ i = req.count
  <2>1. Device!Succeed
    BY <1>1, <1>3, <1>4, <1>6 DEF Device!Succeed, Device!End, Device!Idle, Idle, Finish, Done
  <2> QED BY <2>1 DEF Device!Next
<1> QED BY <1>5, <1>6

(* The driver goes on with the call, and the device sees nothing of it.    *)
LEMMA GoesOn ==
  ASSUME IInv, pc \in InLoop \cup {"next"}, pc' \in InLoop \cup {"next"}, Driver,
         StillServing, Done' = Done, got' = got, Stored' = Stored
  PROVE  UNCHANGED Device!deviceVars
<1>1. Attached' = Attached
  BY DEF Attached, Serving, InLoop, Driver
<1> QED BY <1>1, Unseen DEF StillServing

(* The loop around a block is nothing to the device.                       *)
LEMMA LoopSteps ==
  ASSUME IInv, IInv', NextBlock \/ WaitNotBusy \/ WaitProgrammed \/ SendCommand
  PROVE  [Device!Next]_Device!deviceVars
<1>1. card \in Cards /\ Shape /\ Shape' /\ i \in Int
  BY DEF IInv, Shape
<1>2. CASE NextBlock
  <2>1. pc = "next" /\ Driver /\ Stored' = Stored
    BY <1>2, StoredKept DEF NextBlock
  <2>2. CASE pc' = "wait" /\ UNCHANGED << i, got >> /\ StillServing
    BY <2>1, <2>2, GoesOn DEF InLoop, Done
  <2>3. CASE Finish("ERROR", << >>) \/ (Finish("OK", got) /\ i = req.count)
    BY <1>1, <2>1, <2>3, EndSteps
  <2> QED BY <1>2, <2>2, <2>3 DEF NextBlock
<1>3. CASE WaitNotBusy
  <2>1. pc = "wait" /\ Driver /\ Stored' = Stored
    BY <1>3, StoredKept DEF WaitNotBusy
  <2>2. CASE pc' = "command" /\ UNCHANGED << i, got >> /\ StillServing
    BY <2>1, <2>2, GoesOn DEF InLoop, Done
  <2>3. CASE Finish("ERROR", << >>)
    BY <1>1, <2>1, <2>3, EndSteps DEF InLoop
  <2> QED BY <1>3, <2>2, <2>3 DEF WaitNotBusy
<1>4. CASE WaitProgrammed
  <2>1. pc = "program" /\ Driver /\ Stored' = Stored
    BY <1>4, StoredKept DEF WaitProgrammed
  <2>2. CASE pc' = "next" /\ i' = i + 1 /\ UNCHANGED got /\ StillServing
    BY <1>1, <2>1, <2>2, GoesOn DEF InLoop, Done
  <2>3. CASE Finish("ERROR", << >>)
    BY <1>1, <2>1, <2>3, EndSteps DEF InLoop
  <2> QED BY <1>4, <2>2, <2>3 DEF WaitProgrammed
<1>5. CASE SendCommand
  <2>1. pc = "command" /\ Driver
    BY <1>5 DEF SendCommand
  <2>2. PICK cmd, arg : \E a \in Exchange(cmd, arg) : card' = a.card
    BY <1>5 DEF SendCommand, Command
  <2>3. Stored' = Stored
    BY <1>1, <2>2, ExchangedCard, StoredKept
  <2>4. CASE pc' = "data" /\ UNCHANGED << i, got >> /\ StillServing
    BY <2>1, <2>3, <2>4, GoesOn DEF InLoop, Done
  <2>5. CASE Finish("ERROR", << >>)
    BY <1>1, <2>1, <2>3, <2>5, EndSteps DEF InLoop
  <2> QED BY <1>5, <2>4, <2>5 DEF SendCommand
<1> QED BY <1>2, <1>3, <1>4, <1>5

(* The data phase transfers a block, or fails.                             *)
LEMMA ReadSteps ==
  ASSUME IInv, IInv', ReadData
  PROVE  Device!Next
<1>1. /\ pc = "data" /\ req.op = "read" /\ Driver /\ card' = card /\ ~Busy
      /\ Shape'
  BY DEF ReadData, IInv, Quiet
<1>2. Stored' = Stored /\ Stored = card.blocks
  BY <1>1, StoredKept DEF Stored
<1>3. CASE /\ InDataPhase /\ pc' = "next" /\ i' = i + 1 /\ StillServing
           /\ got' = Append(got, IF Framed THEN card.blocks[Target] ELSE Garbage)
  <2>1. /\ known /\ i \in Nat /\ i < req.count
        /\ got' = Append(got, Stored[req.sector + i])
    BY <1>1, <1>2, <1>3, InTheDataPhase
  <2>2. Done = i /\ Done' = i + 1
    BY <1>1, <1>3, <2>1 DEF Done
  <2>3. known' = known /\ Serving /\ Serving'
    BY <1>1, <1>3 DEF Driver, Serving
  <2>4. Device!Transfer
    BY <1>1, <1>2, <1>3, <2>1, <2>2, <2>3 DEF Device!Transfer, Done, StillServing
  <2> QED BY <2>4 DEF Device!Next
<1>4. CASE Finish("ERROR", << >>)
  BY <1>1, <1>2, <1>4, EndSteps DEF InLoop
<1> QED BY <1>3, <1>4 DEF ReadData

(* A block that the card takes is written, though its answer may be lost.  *)
LEMMA WriteSteps ==
  ASSUME IInv, IInv', WriteData
  PROVE  Device!Next
<1>1. /\ pc = "data" /\ req.op = "write" /\ Driver /\ ~Busy
      /\ Shape /\ Shape' /\ card \in Cards /\ Stored = card.blocks
  BY DEF WriteData, IInv, Quiet, Stored
<1> DEFINE written == [Stored EXCEPT ![req.sector + i] = req.data[i + 1]]
<1>2. ASSUME InDataPhase, card' = Accepting
      PROVE  Stored' = written
  <2>1. /\ Accepting.blocks = card.blocks
        /\ Accepting.prog = [at |-> req.sector + i, data |-> req.data[i + 1]]
        /\ Accepting.prog # Nothing
    BY <1>1, <1>2, Accepts
  <2> QED BY <1>1, <1>2, <2>1 DEF Stored, Busy
<1>3. Done = i /\ i \in Nat /\ i < req.count /\ req \in Requests
  BY <1>1 DEF Done, Shape, InLoop, Between, Starting
<1>4. CASE /\ InDataPhase /\ card' = Accepting /\ UNCHANGED << i, got >>
           /\ pc' = "program" /\ StillServing
  <2>1. known /\ Stored' = written
    BY <1>1, <1>2, <1>4, InTheDataPhase
  <2>2. Done' = i + 1
    BY <1>4 DEF Done
  <2>3. known' = known /\ Serving /\ Serving'
    BY <1>1, <1>4 DEF Driver, Serving
  <2>4. Device!Transfer
    BY <1>1, <1>3, <1>4, <2>1, <2>2, <2>3
       DEF Device!Transfer, Device!Written, Done, StillServing
  <2> QED BY <2>4 DEF Device!Next
<1>5. CASE /\ Finish("ERROR", << >>)
           /\ card' \in IF InDataPhase /\ Framed THEN {card, Accepting} ELSE {card}
  <2>1. CASE card' = card
    BY <1>1, <1>5, <2>1, EndSteps, StoredKept DEF InLoop
  <2>2. CASE InDataPhase /\ card' = Accepting
    <3>1. known /\ Stored' = written
      BY <1>1, <1>2, <2>2, InTheDataPhase
    <3>2. /\ req' = Idle /\ got' = << >> /\ Done' = 0
          /\ res' = [st |-> "ERROR", data |-> << >>]
          /\ known' = known /\ Serving /\ Serving'
      BY <1>1, <1>5 DEF Finish, Driver, Serving, Done
    <3>3. req # Idle
      BY <1>3, SdCardAssumption DEF Requests, Idle
    <3>4. Device!End("ERROR", << >>)
      BY <3>1, <3>2, <3>3 DEF Device!End, Device!Idle, Idle, Done
    <3>5. Device!Fail
      BY <1>1, <1>3, <3>1, <3>2, <3>4 DEF Device!Fail, Device!Written, Done
    <3> QED BY <3>5 DEF Device!Next
  <2> QED BY <1>5, <2>1, <2>2
<1> QED BY <1>4, <1>5 DEF WriteData

(* Around the driver: programming ends, the card is exchanged, the MCU is  *)
(* reset.                                                                  *)
LEMMA OutsideSteps ==
  ASSUME IInv, Programmed \/ Swap \/ Reset
  PROVE  [Device!Next]_Device!deviceVars
<1>1. card \in Cards
  BY DEF IInv
<1>2. CASE Programmed
  <2>1. Stored' = Stored
    <3>1. /\ card' = [card EXCEPT !.blocks[card.prog.at] = card.prog.data, !.prog = Nothing]
          /\ Busy
      BY <1>2 DEF Programmed
    <3>2. /\ card'.blocks = [card.blocks EXCEPT ![card.prog.at] = card.prog.data]
          /\ card'.prog = Nothing
      BY <1>1, <3>1 DEF Cards
    <3> QED BY <3>1, <3>2 DEF Stored, Busy
  <2> QED BY <1>2, <2>1, Unseen DEF Programmed, Attached, Serving, Done, requestVars, Same
<1>3. CASE Swap
  <2>1. Stored' \in [Block -> Content]
    <3>1. PICK k \in Kind, c \in Content : card' = PoweredUp(k, [b \in Block |-> c])
      BY <1>3 DEF Swap
    <3> QED BY <3>1 DEF Stored, PoweredUp, Busy
  <2>2. Device!Exchange
    BY <1>3, <2>1 DEF Device!Exchange, Swap, requestVars
  <2> QED BY <2>2 DEF Device!Next
<1>4. CASE Reset
  <2>1. Stored' = Stored
    BY <1>4, StoredKept DEF Reset
  <2>2. Device!Detach
    BY <1>4, <2>1 DEF Device!Detach, Device!Idle, Idle, Reset
  <2> QED BY <2>2 DEF Device!Next
<1> QED BY <1>2, <1>3, <1>4

(* What disk_read() and disk_write() do is what a disk does, whatever is   *)
(* lost or late and whenever the card is exchanged or the MCU reset        *)
(* (diskio.c:21-43).                                                       *)
THEOREM DriverIsABlockDevice == Spec => ImplementsBlockDevice
<1>1. IInv /\ IInv' /\ [Next]_vars => [Device!Next]_Device!deviceVars
  <2> SUFFICES ASSUME IInv, IInv', [Next]_vars PROVE [Device!Next]_Device!deviceVars
    OBVIOUS
  <2>1. CASE UNCHANGED vars
    BY <2>1, Unseen DEF vars, Stored, Busy, Attached, Serving, Done
  <2>2. CASE Next
    BY <2>2, HandshakeSteps, RequestSteps, LoopSteps, ReadSteps, WriteSteps, OutsideSteps
       DEF Next, Handshake, Serve
  <2> QED BY <2>1, <2>2
<1> QED BY <1>1, DeviceInit, Invariant, PTL DEF Spec, ImplementsBlockDevice, Device!Spec
=============================================================================

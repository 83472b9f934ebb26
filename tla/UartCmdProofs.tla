---------------------------- MODULE UartCmdProofs ---------------------------
(***************************************************************************)
(* Proofs about the command line's ring buffer, for every ring and line    *)
(* size, every set of bytes and every spelling of the keywords: its types, *)
(* that a loss is never reported twice, that the ring with its two         *)
(* unlocked indices implements an atomic bounded queue, that the line is   *)
(* what the user typed less what he rubbed out, and that it is read as the *)
(* command language says.                                                  *)
(***************************************************************************)
EXTENDS UartCmd, CmdLanguage, SequenceTheorems, FiniteSetTheorems,
        WellFoundedInduction, TLAPS

(* What % does to a number at most one turn out of range. *)
LEMMA ModOnce ==
  ASSUME NEW N \in Nat, N # 0, NEW x \in Int, 1 - N <= x, x < 2 * N
  PROVE  x % N = IF x < 0 THEN x + N ELSE IF x < N THEN x ELSE x - N
<1>1. CASE x < 0             BY <1>1, SMT
<1>2. CASE x >= 0 /\ x < N   BY <1>2, SMT
<1>3. CASE x >= N            BY <1>3, SMT
<1> QED BY <1>1, <1>2, <1>3

(* Of two multiples of d the greater one is greater by d at least.         *)
LEMMA Beyond ==
  ASSUME NEW d \in Nat, d > 0, NEW p \in Int, NEW q \in Int, p > q
  PROVE  d * p >= d * q + d
<1>1. PICK k \in Nat : p = q + 1 + k
  <2>1. p - q - 1 \in Nat /\ p = q + 1 + (p - q - 1)
    OBVIOUS
  <2> QED BY <2>1
<1>2. d * (q + 1 + k) = d * q + d + d * k
  OBVIOUS
<1>3. d * k >= 0 /\ d * q \in Int /\ d * k \in Int
  OBVIOUS
<1> QED BY <1>1, <1>2, <1>3

(* Quotient and remainder of what was multiplied out.                      *)
LEMMA Residue ==
  ASSUME NEW d \in Nat, d > 0, NEW q \in Int, NEW r \in 0 .. d - 1
  PROVE  (d * q + r) % d = r /\ (d * q + r) \div d = q
<1> DEFINE a == d * q + r
           p == a \div d
           m == a % d
<1>1. a \in Int /\ p \in Int /\ m \in 0 .. d - 1
  OBVIOUS
<1>2. a = d * p + m
  <2> HIDE DEF a
  <2> QED BY <1>1
<1>3. d * p + m = d * q + r
  BY <1>2
<1> HIDE DEF p, m
<1>4. p = q
  <2>1. ~(p > q)
    <3> SUFFICES ASSUME p > q PROVE FALSE
      OBVIOUS
    <3>1. d * p >= d * q + d
      BY <1>1, Beyond
    <3> QED BY <1>1, <1>3, <3>1
  <2>2. ~(q > p)
    <3> SUFFICES ASSUME q > p PROVE FALSE
      OBVIOUS
    <3>1. d * q >= d * p + d
      BY <1>1, Beyond
    <3> QED BY <1>1, <1>3, <3>1
  <2> QED BY <1>1, <2>1, <2>2
<1>5. m = r
  BY <1>1, <1>3, <1>4
<1> QED BY <1>4, <1>5 DEF m, p

(* The next slot is in the ring.                                           *)
LEMMA SuccInRing ==
  ASSUME NEW i \in 0 .. RXBUF_SIZE - 1
  PROVE  /\ Succ(i) \in 0 .. RXBUF_SIZE - 1
         /\ Succ(i) = IF i = RXBUF_SIZE - 1 THEN 0 ELSE i + 1
<1> DEFINE x == i + 1
<1>1. /\ RXBUF_SIZE \in Nat /\ RXBUF_SIZE # 0
      /\ x \in Int /\ 1 - RXBUF_SIZE <= x /\ x < 2 * RXBUF_SIZE
  BY UartCmdAssumption
<1>2. Succ(i) = IF x < 0 THEN x + RXBUF_SIZE
                ELSE IF x < RXBUF_SIZE THEN x ELSE x - RXBUF_SIZE
  <2> HIDE DEF x
  <2>1. x % RXBUF_SIZE = IF x < 0 THEN x + RXBUF_SIZE
                         ELSE IF x < RXBUF_SIZE THEN x ELSE x - RXBUF_SIZE
    BY <1>1, ModOnce
  <2> QED BY <2>1 DEF Succ, x
<1> QED BY <1>2, UartCmdAssumption

(* A line without its last character. *)
LEMMA PrefixType ==
  ASSUME NEW S, NEW s \in Seq(S), NEW k \in Nat, k <= Len(s)
  PROVE  SubSeq(s, 1, k) \in Seq(S) /\ Len(SubSeq(s, 1, k)) = k
<1>1. 1 \in Int /\ k \in Int /\ \A i \in 1 .. k : s[i] \in S
  BY ElementOfSeq
<1>2. /\ SubSeq(s, 1, k) \in Seq(S)
      /\ Len(SubSeq(s, 1, k)) = IF 1 <= k THEN k - 1 + 1 ELSE 0
  BY <1>1, SubSeqProperties
<1>3. CASE k = 0
  <2>1. Len(SubSeq(s, 1, k)) = 0  BY <1>2, <1>3
  <2> QED BY <2>1, <1>2, <1>3
<1>4. CASE k >= 1
  <2>1. Len(SubSeq(s, 1, k)) = k - 1 + 1  BY <1>2, <1>4
  <2>2. k - 1 + 1 = k  OBVIOUS
  <2>3. Len(SubSeq(s, 1, k)) = k  BY <2>1, <2>2, Zenon
  <2> QED BY <2>3, <1>2
<1> QED BY <1>3, <1>4

(* The editor keeps the line printable and short enough for its NUL. *)
LineType(ln) == ln \in Seq(Printable) /\ Len(ln) < LINE_MAX

(* No byte takes the line out of its type.                                 *)
LEMMA EditKeepsTheType ==
  ASSUME NEW ln, LineType(ln), NEW b \in 0 .. 255
  PROVE  LineType(Edit(ln, b))
<1> USE UartCmdAssumption DEF LineType
<1>1. CASE b \in Rubout
  <2>1. CASE ln = << >>  BY <1>1, <2>1 DEF Edit
  <2>2. CASE ln # << >>
    <3>1. Len(ln) \in Nat /\ Len(ln) > 0  BY <2>2
    <3>2. Edit(ln, b) = SubSeq(ln, 1, Len(ln) - 1)  BY <1>1, <2>2 DEF Edit
    <3>3. SubSeq(ln, 1, Len(ln) - 1) \in Seq(Printable)
          /\ Len(SubSeq(ln, 1, Len(ln) - 1)) = Len(ln) - 1
      BY <3>1, PrefixType, Len(ln) - 1 \in Nat, Len(ln) - 1 <= Len(ln)
    <3> QED BY <3>1, <3>2, <3>3
  <2> QED BY <2>1, <2>2
<1>2. CASE b \notin Rubout /\ b \notin Printable  BY <1>2 DEF Edit
<1>3. CASE b \notin Rubout /\ b \in Printable /\ Len(ln) < LINE_MAX - 1
  BY <1>3 DEF Edit
<1>4. CASE b \notin Rubout /\ b \in Printable /\ ~(Len(ln) < LINE_MAX - 1)
  <2>1. Edit(ln, b) = << >>  BY <1>4 DEF Edit
  <2> QED BY <2>1
<1> QED BY <1>1, <1>2, <1>3, <1>4

-----------------------------------------------------------------------------
(* The inductive invariant.  A fetch happens at a ring that is not empty,  *)
(* and the byte fetched stays in its slot until the slot is given back.    *)
Fetched ==
  /\ pc \in {"fetch", "advance"} => rx_tail # rx_head
  /\ pc = "advance" => byte = rx_buf[rx_tail]

CountedLosses == rx_dropped <= lost

Inv == TypeOK /\ Fetched /\ CountedLosses /\ NeverOverReports

(* The invariant holds at the start.                                       *)
THEOREM InitInv == Init => Inv
<1> SUFFICES ASSUME Init PROVE Inv  OBVIOUS
<1> USE UartCmdAssumption DEF Init
<1>1. TypeOK BY DEF TypeOK
<1>2. Fetched /\ CountedLosses /\ NeverOverReports
  BY DEF Fetched, CountedLosses, NeverOverReports
<1> QED BY <1>1, <1>2 DEF Inv

(* It holds after every step, of the interrupt and of the poll.            *)
THEOREM NextInv == Inv /\ [Next]_vars => Inv'
<1> SUFFICES ASSUME Inv, [Next]_vars PROVE Inv'  OBVIOUS
<1> USE UartCmdAssumption DEF Inv, TypeOK
<1>1. ASSUME NEW b \in Byte, Store(b) PROVE Inv'
  <2>1. b \in 0 .. 255 /\ Succ(rx_head) \in 0 .. RXBUF_SIZE - 1
    BY SuccInRing
  <2>2. TypeOK'
    BY <1>1, <2>1 DEF Store, Types
  <2>3. Fetched'
    BY <1>1, <2>1 DEF Store, Full, Fetched
  <2>4. CountedLosses' /\ NeverOverReports'
    BY <1>1 DEF Store, CountedLosses, NeverOverReports
  <2> QED BY <2>2, <2>3, <2>4
<1>2. ASSUME NEW b \in Byte, Drop(b) PROVE Inv'
  <2>1. CountedLosses' /\ NeverOverReports' /\ lost' \in 0 .. MaxLost
    BY <1>2 DEF Drop, CountedLosses, NeverOverReports
  <2>2. TypeOK'
    BY <1>2, <2>1 DEF Drop, Types, CountedLosses
  <2>3. Fetched'
    BY <1>2 DEF Drop, Fetched
  <2> QED BY <2>1, <2>2, <2>3
<1>3. CASE Enter
  BY <1>3 DEF Enter, rxVars, Fetched, CountedLosses, NeverOverReports
<1>4. CASE Report
  BY <1>4 DEF Report, rxVars, lineVars, Fetched, CountedLosses, NeverOverReports
<1>5. CASE Clear
  BY <1>5 DEF Clear, rxVars, lineVars, Fetched, CountedLosses, NeverOverReports
<1>6. CASE Test
  BY <1>6 DEF Test, rxVars, lineVars, Fetched, CountedLosses, NeverOverReports
<1>7. CASE Fetch
  BY <1>7 DEF Fetch, rxVars, lineVars, Fetched, CountedLosses, NeverOverReports
<1>8. CASE Advance
  <2>1. Succ(rx_tail) \in 0 .. RXBUF_SIZE - 1  BY SuccInRing
  <2> QED
    BY <1>8, <2>1
    DEF Advance, rxVars, lineVars, Fetched, CountedLosses, NeverOverReports
<1>9. CASE EndLine
  <2>1. line' \in Seq(Printable) /\ Len(line') < LINE_MAX /\ segment' \in Seq(0 .. 255)
    BY <1>9 DEF EndLine
  <2> QED
    BY <1>9, <2>1 DEF EndLine, rxVars, Fetched, CountedLosses, NeverOverReports
<1>10. CASE EditLine
  <2>1. LineType(line')
    BY <1>10, EditKeepsTheType DEF EditLine, LineType
  <2> QED
    BY <1>10, <2>1
    DEF EditLine, LineType, rxVars, Fetched, CountedLosses, NeverOverReports
<1>11. CASE UNCHANGED vars
  BY <1>11 DEF vars, Fetched, CountedLosses, NeverOverReports
<1> QED
  BY <1>1, <1>2, <1>3, <1>4, <1>5, <1>6, <1>7, <1>8, <1>9, <1>10, <1>11
  DEF Next, USART2_IRQHandler, Poll

(* So it always holds.                                                     *)
THEOREM SpecInv == Spec => []Inv
BY InitInv, NextInv, PTL DEF Spec

(* The variables keep their types: no index leaves the ring and the line   *)
(* always has room for its NUL (uart_cmd.c:24-30, 129-160).                *)
THEOREM TypeCorrect == Spec => []TypeOK
<1>1. Inv => TypeOK BY DEF Inv
<1> QED BY SpecInv, <1>1, PTL

(* No loss is printed twice, wherever the interrupt falls between the      *)
(* message and the reset of the counter (uart_cmd.c:123-127).              *)
THEOREM NoLossReportedTwice == Spec => []NeverOverReports
<1>1. Inv => NeverOverReports BY DEF Inv
<1> QED BY SpecInv, <1>1, PTL

-----------------------------------------------------------------------------
(* Index arithmetic: what the two indices say about the queue. *)
Ring == 0 .. RXBUF_SIZE - 1

(* How many slots lie between two indices, without the modulus.            *)
LEMMA DistanceValue ==
  ASSUME NEW h \in Ring, NEW t \in Ring
  PROVE  /\ Distance(h, t) \in Ring
         /\ Distance(h, t) = IF h < t THEN h - t + RXBUF_SIZE ELSE h - t
<1> DEFINE x == h - t
<1>1. /\ RXBUF_SIZE \in Nat /\ RXBUF_SIZE # 0
      /\ x \in Int /\ 1 - RXBUF_SIZE <= x /\ x < 2 * RXBUF_SIZE
  BY UartCmdAssumption DEF Ring
<1>2. Distance(h, t) = IF x < 0 THEN x + RXBUF_SIZE
                       ELSE IF x < RXBUF_SIZE THEN x ELSE x - RXBUF_SIZE
  <2> HIDE DEF x
  <2>1. x % RXBUF_SIZE = IF x < 0 THEN x + RXBUF_SIZE
                         ELSE IF x < RXBUF_SIZE THEN x ELSE x - RXBUF_SIZE
    BY <1>1, ModOnce
  <2> QED BY <2>1 DEF Distance, x
<1> QED BY <1>2, UartCmdAssumption DEF Ring

(* The i-th slot from a tail on, without the modulus.                      *)
LEMMA SlotValue ==
  ASSUME NEW t \in Ring, NEW i \in 1 .. RXBUF_SIZE
  PROVE  /\ Slot(t, i) \in Ring
         /\ Slot(t, i) = IF t + i - 1 < RXBUF_SIZE THEN t + i - 1
                         ELSE t + i - 1 - RXBUF_SIZE
<1> DEFINE x == t + i - 1
<1>1. /\ RXBUF_SIZE \in Nat /\ RXBUF_SIZE # 0
      /\ x \in Int /\ 1 - RXBUF_SIZE <= x /\ x < 2 * RXBUF_SIZE
  BY UartCmdAssumption DEF Ring
<1>2. Slot(t, i) = IF x < 0 THEN x + RXBUF_SIZE
                   ELSE IF x < RXBUF_SIZE THEN x ELSE x - RXBUF_SIZE
  <2> HIDE DEF x
  <2>1. x % RXBUF_SIZE = IF x < 0 THEN x + RXBUF_SIZE
                         ELSE IF x < RXBUF_SIZE THEN x ELSE x - RXBUF_SIZE
    BY <1>1, ModOnce
  <2> QED BY <2>1 DEF Slot, x
<1> QED BY <1>2, UartCmdAssumption DEF Ring

(* Filling the slot at the head adds an element behind the others. *)
LEMMA HeadMoves ==
  ASSUME NEW h \in Ring, NEW t \in Ring
  PROVE  /\ Slot(t, Distance(h, t) + 1) = h
         /\ \A i \in 1 .. Distance(h, t) : Slot(t, i) \in Ring \ {h}
         /\ Succ(h) # t => Distance(Succ(h), t) = Distance(h, t) + 1
                            /\ Distance(h, t) < RXBUF_SIZE - 1
         /\ Succ(h) = t => Distance(h, t) = RXBUF_SIZE - 1
<1> DEFINE d == Distance(h, t)
<1>1. d \in Ring /\ d = IF h < t THEN h - t + RXBUF_SIZE ELSE h - t
  BY DistanceValue
<1>2. \A i \in 1 .. RXBUF_SIZE :
        /\ Slot(t, i) \in Ring
        /\ Slot(t, i) = IF t + i - 1 < RXBUF_SIZE THEN t + i - 1
                        ELSE t + i - 1 - RXBUF_SIZE
  BY SlotValue
<1>3. Succ(h) \in Ring /\ Succ(h) = IF h = RXBUF_SIZE - 1 THEN 0 ELSE h + 1
  BY SuccInRing DEF Ring
<1>4. Distance(Succ(h), t) = IF Succ(h) < t THEN Succ(h) - t + RXBUF_SIZE
                             ELSE Succ(h) - t
  BY <1>3, DistanceValue
<1> HIDE DEF d
<1> USE UartCmdAssumption DEF Ring
<1>5. Slot(t, d + 1) = h
  <2>1. d + 1 \in 1 .. RXBUF_SIZE  BY <1>1
  <2>2. Slot(t, d + 1) = IF t + (d + 1) - 1 < RXBUF_SIZE THEN t + (d + 1) - 1
                         ELSE t + (d + 1) - 1 - RXBUF_SIZE
    BY <2>1, <1>2
  <2> QED BY <2>2, <1>1
<1>6. \A i \in 1 .. d : Slot(t, i) \in Ring \ {h}
  BY <1>1, <1>2
<1>7. Succ(h) # t => Distance(Succ(h), t) = d + 1 /\ d < RXBUF_SIZE - 1
  BY <1>1, <1>3, <1>4
<1>8. Succ(h) = t => d = RXBUF_SIZE - 1
  BY <1>1, <1>3
<1> QED BY <1>5, <1>6, <1>7, <1>8 DEF d

(* Giving back the slot at the tail takes the first element away. *)
LEMMA TailMoves ==
  ASSUME NEW h \in Ring, NEW t \in Ring, h # t
  PROVE  /\ Distance(h, t) \in 1 .. RXBUF_SIZE - 1
         /\ Distance(h, Succ(t)) = Distance(h, t) - 1
         /\ Slot(t, 1) = t
         /\ \A i \in 1 .. Distance(h, t) - 1 : Slot(Succ(t), i) = Slot(t, i + 1)
<1> DEFINE d == Distance(h, t)
           u == Succ(t)
<1>1. d \in Ring /\ d = IF h < t THEN h - t + RXBUF_SIZE ELSE h - t
  BY DistanceValue
<1>2. u \in Ring /\ u = IF t = RXBUF_SIZE - 1 THEN 0 ELSE t + 1
  BY SuccInRing DEF Ring
<1>3. Distance(h, u) = IF h < u THEN h - u + RXBUF_SIZE ELSE h - u
  BY <1>2, DistanceValue
<1>4. \A i \in 1 .. RXBUF_SIZE :
        /\ Slot(t, i) = IF t + i - 1 < RXBUF_SIZE THEN t + i - 1
                        ELSE t + i - 1 - RXBUF_SIZE
        /\ Slot(u, i) = IF u + i - 1 < RXBUF_SIZE THEN u + i - 1
                        ELSE u + i - 1 - RXBUF_SIZE
  BY <1>2, SlotValue
<1> HIDE DEF d, u
<1> USE UartCmdAssumption DEF Ring
<1>5. d \in 1 .. RXBUF_SIZE - 1 /\ Distance(h, u) = d - 1
  BY <1>1, <1>2, <1>3
<1>6. Slot(t, 1) = t
  BY <1>4
<1>7. \A i \in 1 .. d - 1 : Slot(u, i) = Slot(t, i + 1)
  <2> TAKE i \in 1 .. d - 1
  <2>1. i \in 1 .. RXBUF_SIZE /\ i + 1 \in 1 .. RXBUF_SIZE  BY <1>5
  <2>2. Slot(t, i + 1) = IF t + (i + 1) - 1 < RXBUF_SIZE THEN t + (i + 1) - 1
                         ELSE t + (i + 1) - 1 - RXBUF_SIZE
    BY <2>1, <1>4
  <2> QED BY <2>1, <2>2, <1>2, <1>4
<1> QED BY <1>5, <1>6, <1>7 DEF d, u

-----------------------------------------------------------------------------
(* The contents are a sequence as long as the indices are apart. *)
IsQueue(q, buf, h, t) ==
  /\ q \in Seq(0 .. 255)
  /\ Len(q) = Distance(h, t)
  /\ \A i \in 1 .. Len(q) : q[i] = buf[Slot(t, i)]

(* What waits in the ring is a sequence, slot by slot.                     *)
LEMMA ContentsAreASeq ==
  ASSUME NEW h \in Ring, NEW t \in Ring, NEW buf \in [Ring -> 0 .. 255]
  PROVE  IsQueue(Contents(buf, h, t), buf, h, t)
<1> DEFINE d == Distance(h, t)
           q == Contents(buf, h, t)
<1>1. d \in Nat
  <2>1. d \in Ring  BY DistanceValue
  <2> QED BY <2>1, UartCmdAssumption DEF Ring
<1>2. \A i \in 1 .. d : buf[Slot(t, i)] \in 0 .. 255
  BY HeadMoves
<1>3. q = [i \in 1 .. d |-> buf[Slot(t, i)]]
  BY DEF Contents
<1> HIDE DEF d, q
<1>4. q \in [1 .. d -> 0 .. 255]
  BY <1>2, <1>3
<1>5. q \in Seq(0 .. 255)
  <2>1. q \in UNION {[1 .. n -> 0 .. 255] : n \in Nat}
    BY <1>1, <1>4, Zenon
  <2> QED BY <2>1, SeqDef, Zenon
<1>6. Len(q) = d
  BY <1>1, <1>4, <1>5, LenProperties
<1>7. \A i \in 1 .. Len(q) : q[i] = buf[Slot(t, i)]
  BY <1>3, <1>6
<1> QED BY <1>5, <1>6, <1>7 DEF d, q, IsQueue

(* A stored byte joins the queue at its end. *)
LEMMA StoreAppends ==
  ASSUME TypeOK, TypeOK', NEW b \in Byte, Store(b)
  PROVE  Queue' = Append(Queue, b) /\ Len(Queue) < RXBUF_SIZE - 1
<1>1. /\ rx_head \in Ring /\ rx_tail \in Ring /\ b \in 0 .. 255
      /\ rx_buf \in [Ring -> 0 .. 255]
      /\ rx_head' \in Ring /\ rx_tail' \in Ring /\ rx_buf' \in [Ring -> 0 .. 255]
  BY UartCmdAssumption DEF TypeOK, Ring
<1>2. /\ Succ(rx_head) # rx_tail
      /\ rx_head' = Succ(rx_head) /\ rx_tail' = rx_tail
      /\ rx_buf' = [rx_buf EXCEPT ![rx_head] = b]
  BY DEF Store, Full
<1>3. IsQueue(Queue, rx_buf, rx_head, rx_tail)
  BY <1>1, ContentsAreASeq DEF Queue
<1>4. IsQueue(Queue', rx_buf', rx_head', rx_tail')
  BY <1>1, ContentsAreASeq DEF Queue
<1> USE DEF IsQueue
<1>5. Len(Queue') = Len(Queue) + 1 /\ Len(Queue) < RXBUF_SIZE - 1
  BY <1>1, <1>2, <1>3, <1>4, HeadMoves
<1>6. /\ Append(Queue, b) \in Seq(0 .. 255)
      /\ Len(Append(Queue, b)) = Len(Queue) + 1
      /\ \A i \in 1 .. Len(Queue) : Append(Queue, b)[i] = Queue[i]
      /\ Append(Queue, b)[Len(Queue) + 1] = b
  BY <1>1, <1>3, AppendProperties
<1>7. \A i \in 1 .. Len(Queue') : Queue'[i] = Append(Queue, b)[i]
  <2> TAKE i \in 1 .. Len(Queue')
  <2>1. Len(Queue) \in Nat  BY <1>3
  <2>2. CASE i \in 1 .. Len(Queue)
    <3>1. Slot(rx_tail, i) \in Ring \ {rx_head}
      BY <2>2, <1>1, <1>3, HeadMoves
    <3> QED BY <2>2, <3>1, <1>2, <1>3, <1>4, <1>6 DEF TypeOK, Ring
  <2>3. CASE i = Len(Queue) + 1
    <3>1. Slot(rx_tail, i) = rx_head
      BY <2>3, <1>1, <1>3, HeadMoves
    <3> QED BY <2>3, <3>1, <1>1, <1>2, <1>4, <1>6 DEF TypeOK, Ring
  <2> QED BY <2>1, <2>2, <2>3, <1>5
<1>8. Queue' = Append(Queue, b)
  BY <1>4, <1>5, <1>6, <1>7, SeqEqual
<1> QED BY <1>5, <1>8

(* The byte taken is the head of the queue. *)
LEMMA AdvanceTakes ==
  ASSUME Inv, Inv', Advance
  PROVE  /\ Queue # << >> /\ last' = << Head(Queue) >>
         /\ Queue' = Tail(Queue)
<1>1. /\ rx_head \in Ring /\ rx_tail \in Ring /\ rx_head # rx_tail
      /\ rx_buf \in [Ring -> 0 .. 255]
      /\ rx_head' \in Ring /\ rx_tail' \in Ring /\ rx_buf' \in [Ring -> 0 .. 255]
  BY DEF Inv, TypeOK, Ring, Fetched, Advance
<1>2. /\ rx_head' = rx_head /\ rx_tail' = Succ(rx_tail)
      /\ rx_buf' = rx_buf /\ last' = << byte >> /\ byte = rx_buf[rx_tail]
  BY DEF Advance, rxVars, Inv, Fetched
<1>3. IsQueue(Queue, rx_buf, rx_head, rx_tail)
  BY <1>1, ContentsAreASeq DEF Queue
<1>4. IsQueue(Queue', rx_buf', rx_head', rx_tail')
  BY <1>1, ContentsAreASeq DEF Queue
<1> USE DEF IsQueue
<1>5. Len(Queue) \in Nat /\ Len(Queue) >= 1 /\ Len(Queue') = Len(Queue) - 1
  BY <1>1, <1>2, <1>3, <1>4, TailMoves
<1>6. Queue # << >>
  BY <1>5
<1>7. /\ Tail(Queue) \in Seq(0 .. 255) /\ Len(Tail(Queue)) = Len(Queue) - 1
      /\ \A i \in 1 .. Len(Tail(Queue)) : Tail(Queue)[i] = Queue[i + 1]
  BY <1>3, <1>6, HeadTailProperties
<1>8. Head(Queue) = byte
  BY <1>1, <1>2, <1>3, <1>5, TailMoves
<1>9. \A i \in 1 .. Len(Queue') : Queue'[i] = Tail(Queue)[i]
  <2> TAKE i \in 1 .. Len(Queue')
  <2>1. i \in 1 .. Distance(rx_head, rx_tail) - 1 /\ i + 1 \in 1 .. Len(Queue)
    BY <1>3, <1>5
  <2>2. Slot(Succ(rx_tail), i) = Slot(rx_tail, i + 1)
    BY <2>1, <1>1, TailMoves
  <2> QED BY <2>1, <2>2, <1>2, <1>3, <1>4, <1>5, <1>7
<1>10. Queue' = Tail(Queue)
  BY <1>4, <1>5, <1>7, <1>9, SeqEqual
<1> QED BY <1>2, <1>6, <1>8, <1>10

-----------------------------------------------------------------------------
(* An empty ring is an empty queue.                                        *)
THEOREM InitRefines == Init => Fifo!Init
<1> SUFFICES ASSUME Init PROVE Fifo!Init  OBVIOUS
<1>1. TypeOK  BY InitInv DEF Inv
<1>2. 0 \in Ring /\ rx_head = 0 /\ rx_tail = 0 /\ rx_buf \in [Ring -> 0 .. 255]
  BY <1>1, UartCmdAssumption DEF Init, TypeOK, Ring
<1>3. Distance(0, 0) = 0
  BY <1>2, DistanceValue
<1>4. Queue = << >>
  <2>1. Queue \in Seq(0 .. 255) /\ Len(Queue) = 0
    BY <1>2, <1>3, ContentsAreASeq DEF Queue, IsQueue
  <2> QED BY <2>1, EmptySeq
<1> QED BY <1>4 DEF Init, Fifo!Init

(* Store is Receive, Drop is Refuse, Advance is Take, and no other step    *)
(* touches the queue.                                                      *)
THEOREM NextRefines == Inv /\ Inv' /\ [Next]_vars => [Fifo!Next]_(Fifo!vars)
<1> SUFFICES ASSUME Inv, Inv', [Next]_vars PROVE [Fifo!Next]_(Fifo!vars)
  OBVIOUS
<1>1. ASSUME NEW b \in Byte, Store(b) PROVE Fifo!Receive(b)
  <2>1. Queue' = Append(Queue, b) /\ Len(Queue) < RXBUF_SIZE - 1
    BY <1>1, StoreAppends DEF Inv
  <2> QED BY <2>1, <1>1 DEF Store, Fifo!Receive
<1>2. ASSUME NEW b \in Byte, Drop(b) PROVE Fifo!Refuse
  <2>1. Distance(rx_head, rx_tail) = RXBUF_SIZE - 1
    BY <1>2, HeadMoves DEF Drop, Full, Inv, TypeOK, Ring
  <2>2. Len(Queue) = RXBUF_SIZE - 1
    BY <2>1, ContentsAreASeq DEF Queue, IsQueue, Inv, TypeOK, Ring
  <2>3. Queue' = Queue
    BY <1>2 DEF Drop, Queue, Contents
  <2> QED BY <2>2, <2>3, <1>2 DEF Drop, Fifo!Refuse
<1>3. CASE Advance
  <2>1. /\ Queue # << >> /\ last' = << Head(Queue) >>
        /\ Queue' = Tail(Queue) /\ lost' = lost
    BY <1>3, AdvanceTakes DEF Advance, rxVars
  <2> QED BY <2>1 DEF Fifo!Next, Fifo!Take
<1>4. CASE Enter \/ Report \/ Clear \/ Test \/ Fetch \/ EndLine \/ EditLine
            \/ UNCHANGED vars
  <2>1. UNCHANGED << rx_buf, rx_head, rx_tail, last, lost >>
    BY <1>4
    DEF Enter, Report, Clear, Test, Fetch, EndLine, EditLine, vars, rxVars
  <2>2. Queue' = Queue
    BY <2>1 DEF Queue, Contents
  <2> QED BY <2>1, <2>2 DEF Fifo!vars
<1> QED
  BY <1>1, <1>2, <1>3, <1>4
  DEF Next, USART2_IRQHandler, Poll, Fifo!Next

(* The interrupt and the poll share the ring without a lock, and yet every *)
(* step of theirs is a step of an atomic bounded queue or leaves it alone: *)
(* each byte stored is drained once, unchanged and in order, and a byte is *)
(* refused only when RXBUF_SIZE - 1 bytes wait (uart_cmd.c:18-27, 37-51,   *)
(* 129-131).                                                               *)
THEOREM RingIsAFifo == Spec => ImplementsFifo
BY InitRefines, NextRefines, SpecInv, PTL DEF Spec, ImplementsFifo, Fifo!Spec

-----------------------------------------------------------------------------
(* The line editor.  A printable byte is still on the line when no run of  *)
(* bytes behind it has more rubouts than printable bytes (Survivors).  The *)
(* editor knows nothing of that, it only takes the last byte away.  What   *)
(* connects the two is balance: behind every survivor the printable bytes  *)
(* are as many as the rubouts and the survivors there together, so that    *)
(* one more rubout takes the last survivor and no other.                   *)

(* How many bytes of a kind stand behind a place, and the survivors there. *)
Hits(s, A, i, j) == {k \in i + 1 .. j : s[k] \in A}
Number(s, A, i, j) == Cardinality(Hits(s, A, i, j))
Later(s, i) == {j \in Survivors(s) : j > i}
Balanced(s) ==
  \A i \in Survivors(s) :
    Cardinality(Later(s, i)) + Number(s, Rubout, i, Len(s)) = Number(s, Printable, i, Len(s))

(* These are finite sets, so their numbers can be calculated with.         *)
LEMMA HitsFinite ==
  ASSUME NEW s, NEW A, NEW i \in Nat, NEW j \in Nat
  PROVE  IsFiniteSet(Hits(s, A, i, j)) /\ Number(s, A, i, j) \in Nat
<1>1. IsFiniteSet(i + 1 .. j)  BY FS_Interval
<1>2. Hits(s, A, i, j) \subseteq i + 1 .. j  BY DEF Hits
<1> QED BY <1>1, <1>2, FS_Subset, FS_CardinalityType DEF Number

(* t is s with one more byte b, which is behind every place but its own. *)
Counts(s, t, b, A) ==
  LET n == Len(s)
  IN  /\ \A i \in 1 .. n : \A j \in i .. n : Number(t, A, i, j) = Number(s, A, i, j)
      /\ \A i \in 1 .. n :
           /\ Number(s, A, i, n) \in Nat
           /\ Number(t, A, i, n + 1) = Number(s, A, i, n) + (IF b \in A THEN 1 ELSE 0)
Appended(s, t, b) ==
  LET n == Len(s)
  IN  /\ n \in Nat /\ t \in Seq(0 .. 255) /\ Len(t) = n + 1
      /\ t[n + 1] = b /\ \A k \in 1 .. n : t[k] = s[k]
      /\ Counts(s, t, b, Rubout) /\ Counts(s, t, b, Printable)
Kept(s, t, b) ==
  LET n == Len(s)
  IN  /\ \A i \in Survivors(s) : i \in 1 .. n
      /\ \A i : i \in Survivors(t) <=>
           \/ i \in Survivors(s) /\ Number(t, Rubout, i, n + 1) <= Number(t, Printable, i, n + 1)
           \/ i = n + 1 /\ b \in Printable

(* One more byte is behind every place but its own. *)
LEMMA NumberAppend ==
  ASSUME NEW s \in Seq(0 .. 255), NEW b \in 0 .. 255
  PROVE  Appended(s, Append(s, b), b)
<1> DEFINE t == Append(s, b)
           n == Len(s)
<1>1. /\ n \in Nat /\ t \in Seq(0 .. 255) /\ Len(t) = n + 1
      /\ t[n + 1] = b /\ \A k \in 1 .. n : t[k] = s[k]
  OBVIOUS
<1> HIDE DEF t, n
<1>2. ASSUME NEW A, NEW i \in 1 .. n, NEW j \in i .. n
      PROVE  Hits(t, A, i, j) = Hits(s, A, i, j)
  <2>1. \A k \in i + 1 .. j : t[k] = s[k]  BY <1>1
  <2> QED BY <2>1 DEF Hits
<1>3. ASSUME NEW A, NEW i \in 1 .. n
      PROVE  /\ Number(s, A, i, n) \in Nat
             /\ Number(t, A, i, n + 1) = Number(s, A, i, n) + (IF b \in A THEN 1 ELSE 0)
  <2>1. i + 1 .. n + 1 = (i + 1 .. n) \cup {n + 1} /\ n + 1 \notin i + 1 .. n  BY <1>1
  <2>2. \A k \in i + 1 .. n : t[k] = s[k]  BY <1>1
  <2>3. n + 1 \notin Hits(s, A, i, n)  BY <2>1 DEF Hits
  <2>4. Hits(t, A, i, n + 1) = IF b \in A THEN Hits(s, A, i, n) \cup {n + 1}
                                          ELSE Hits(s, A, i, n)
    BY <1>1, <2>1, <2>2 DEF Hits
  <2>5. IsFiniteSet(Hits(s, A, i, n)) /\ Number(s, A, i, n) \in Nat
    BY <1>1, HitsFinite
  <2>6. Cardinality(Hits(s, A, i, n) \cup {n + 1}) = Number(s, A, i, n) + 1
    BY <2>3, <2>5, FS_AddElement DEF Number
  <2>7. CASE b \in A  BY <2>4, <2>5, <2>6, <2>7 DEF Number
  <2>8. CASE b \notin A  BY <2>4, <2>5, <2>8 DEF Number
  <2> QED BY <2>7, <2>8
<1>4. ASSUME NEW A  PROVE Counts(s, t, b, A)
  BY <1>2, <1>3 DEF Counts, Number, n
<1> QED BY <1>1, <1>4 DEF Appended, n, t

(* So are the survivors, and those behind a place.                         *)
LEMMA SurvivorsFinite ==
  ASSUME NEW s \in Seq(0 .. 255)
  PROVE  /\ IsFiniteSet(Survivors(s)) /\ Cardinality(Survivors(s)) \in Nat
         /\ \A i : IsFiniteSet(Later(s, i)) /\ Cardinality(Later(s, i)) \in Nat
<1>1. Len(s) \in Nat /\ IsFiniteSet(1 .. Len(s))  BY FS_Interval
<1>2. Survivors(s) \subseteq 1 .. Len(s)  BY DEF Survivors
<1>3. \A i : Later(s, i) \subseteq 1 .. Len(s)  BY <1>2 DEF Later
<1> QED BY <1>1, <1>2, <1>3, FS_Subset, FS_CardinalityType

(* A set of places that is not empty has a last one: the one with the      *)
(* fewest behind it.                                                       *)
LEMMA LastOne ==
  ASSUME NEW n \in Nat, NEW S \in SUBSET (1 .. n), S # {}
  PROVE  \E m \in S : \A j \in S : j <= m
<1> DEFINE I == 1 .. n
           R == StrictSubsetOrdering(I)
           Behind(i) == {j \in S : j > i}
           T == {X \in SUBSET I : \E i \in S : X = Behind(i)}
<1>1. IsWellFoundedOn(R, SUBSET I)
  <2>1. IsFiniteSet(I)  BY FS_Interval
  <2> HIDE DEF I
  <2> QED BY <2>1, FS_StrictSubsetOrderingWellFounded, FS_FiniteSubsetsOfFinite
<1>2. \A i \in S : Behind(i) \in T
  OBVIOUS
<1>3. T # {} /\ T \subseteq SUBSET I
  BY <1>2
<1>4. PICK X \in T : \A Y \in T : << Y, X >> \notin R
  <2> HIDE DEF T, R, I
  <2> QED BY <1>1, <1>3, WFMin
<1>5. PICK m \in S : X = Behind(m)
  BY <1>4
<1>6. ASSUME NEW j \in S, ~(j <= m)  PROVE FALSE
  <2>1. j > m /\ j \in Int /\ m \in Int  BY <1>6
  <2>2. Behind(j) \subseteq X
    <3>1. \A k \in S : k > j => k > m  BY <2>1
    <3> QED BY <1>5, <3>1
  <2>3. j \in X /\ j \notin Behind(j)  BY <1>5, <2>1
  <2>4. << Behind(j), X >> \in R
    <3>1. Behind(j) \in SUBSET I /\ X \in SUBSET I  BY <1>4
    <3> QED BY <2>2, <2>3, <3>1 DEF StrictSubsetOrdering
  <2> QED BY <1>2, <1>4, <2>4
<1> QED BY <1>6

(* A byte is on the line if it was, and is not rubbed out now. *)
LEMMA SurvivorsAppend ==
  ASSUME NEW s, NEW t, NEW b, Appended(s, t, b)
  PROVE  Kept(s, t, b)
<1> DEFINE n == Len(s)
<1>1. /\ n \in Nat /\ Len(t) = n + 1 /\ t[n + 1] = b /\ \A k \in 1 .. n : t[k] = s[k]
  BY DEF Appended
<1> HIDE DEF n
<1>2. \A i \in 1 .. n : \A j \in i .. n :
        /\ Number(t, Rubout, i, j) = Number(s, Rubout, i, j)
        /\ Number(t, Printable, i, j) = Number(s, Printable, i, j)
  BY DEF Appended, Counts, n
<1>3. \A i : i \in Survivors(s) <=>
        /\ i \in 1 .. n /\ s[i] \in Printable
        /\ \A j \in i + 1 .. n : Number(s, Rubout, i, j) <= Number(s, Printable, i, j)
  BY DEF Survivors, Number, Hits, n
<1>4. \A i : i \in Survivors(t) <=>
        /\ i \in 1 .. n + 1 /\ t[i] \in Printable
        /\ \A j \in i + 1 .. n + 1 : Number(t, Rubout, i, j) <= Number(t, Printable, i, j)
  BY <1>1 DEF Survivors, Number, Hits
<1>5. ASSUME NEW i \in 1 .. n
      PROVE  i \in Survivors(t) <=> i \in Survivors(s)
                   /\ Number(t, Rubout, i, n + 1) <= Number(t, Printable, i, n + 1)
  <2>1. i + 1 .. n + 1 = (i + 1 .. n) \cup {n + 1}  BY <1>1
  <2>2. i \in 1 .. n + 1 /\ t[i] = s[i]  BY <1>1
  <2>3. \A j \in i + 1 .. n : j \in i .. n  BY <1>1
  <2>4. \A j \in i + 1 .. n : /\ Number(t, Rubout, i, j) = Number(s, Rubout, i, j)
                              /\ Number(t, Printable, i, j) = Number(s, Printable, i, j)
    BY <1>2, <2>3
  <2> QED BY <1>3, <1>4, <2>1, <2>2, <2>4
<1>6. n + 1 \in Survivors(t) <=> b \in Printable
  <2>1. n + 1 \in 1 .. n + 1 /\ (n + 1) + 1 .. n + 1 = {}  BY <1>1
  <2> QED BY <1>1, <1>4, <2>1
<1>7. ASSUME NEW i, i \notin 1 .. n, i # n + 1
      PROVE  i \notin Survivors(t) /\ i \notin Survivors(s)
  BY <1>1, <1>3, <1>4, <1>7
<1>8. n + 1 \notin Survivors(s)  BY <1>1, <1>3
<1> QED BY <1>3, <1>5, <1>6, <1>7, <1>8 DEF Kept, n

(* A line begins balanced, with no byte on it.                             *)
LEMMA InitBalanced == Balanced(<< >>) /\ Survivors(<< >>) = {}
<1>1. Survivors(<< >>) = {}  BY DEF Survivors
<1> QED BY <1>1 DEF Balanced

(* What is known of a balanced segment and a survivor on it. *)
LEMMA Survivor ==
  ASSUME NEW s \in Seq(0 .. 255), Balanced(s), NEW i \in Survivors(s)
  PROVE  /\ i \in 1 .. Len(s)
         /\ Cardinality(Later(s, i)) + Number(s, Rubout, i, Len(s)) = Number(s, Printable, i, Len(s))
         /\ IsFiniteSet(Later(s, i)) /\ Cardinality(Later(s, i)) \in Nat
         /\ Cardinality(Later(s, i)) = 0 <=> Later(s, i) = {}
<1>1. i \in 1 .. Len(s)  BY DEF Survivors
<1>2. IsFiniteSet(Later(s, i)) /\ Cardinality(Later(s, i)) \in Nat  BY SurvivorsFinite
<1>3. Cardinality(Later(s, i)) = 0 <=> Later(s, i) = {}  BY <1>2, FS_EmptySet
<1> QED BY <1>1, <1>2, <1>3 DEF Balanced

(* A printable byte stays, and those before it do.                         *)
LEMMA PrintableStays ==
  ASSUME NEW s \in Seq(0 .. 255), Balanced(s), NEW b \in Printable, NEW t, t = Append(s, b)
  PROVE  Survivors(t) = Survivors(s) \cup {Len(s) + 1} /\ Balanced(t)
<1> DEFINE n == Len(s)
<1>1. b \in 0 .. 255 /\ b \notin Rubout  BY DEF Printable, Rubout
<1>2. n \in Nat /\ Len(t) = n + 1   BY <1>1
<1>a. Appended(s, t, b) /\ Kept(s, t, b)  BY <1>1, NumberAppend, SurvivorsAppend
<1> HIDE DEF n
<1>3. \A i \in 1 .. n :
        /\ Number(t, Rubout, i, n + 1) = Number(s, Rubout, i, n)
        /\ Number(t, Printable, i, n + 1) = Number(s, Printable, i, n) + 1
        /\ Number(s, Rubout, i, n) \in Nat /\ Number(s, Printable, i, n) \in Nat
  BY <1>1, <1>a DEF Appended, Counts, n
<1>4. \A i \in Survivors(s) :
        /\ i \in 1 .. n
        /\ Cardinality(Later(s, i)) + Number(s, Rubout, i, n) = Number(s, Printable, i, n)
        /\ Cardinality(Later(s, i)) \in Nat
  BY Survivor DEF n
<1>5. \A i : i \in Survivors(t) <=>
        \/ i \in Survivors(s) /\ Number(t, Rubout, i, n + 1) <= Number(t, Printable, i, n + 1)
        \/ i = n + 1 /\ b \in Printable
  BY <1>a DEF Kept, n
<1>6. Survivors(t) = Survivors(s) \cup {n + 1}
  <2>1. \A i \in Survivors(s) : Number(t, Rubout, i, n + 1) <= Number(t, Printable, i, n + 1)
    BY <1>3, <1>4
  <2> QED BY <1>5, <2>1
<1>7. ASSUME NEW i \in Survivors(s)
      PROVE  Cardinality(Later(t, i)) + Number(t, Rubout, i, n + 1) = Number(t, Printable, i, n + 1)
  <2>1. i \in 1 .. n /\ n + 1 > i /\ ~(n + 1 <= n)  BY <1>2, <1>4
  <2>2. Later(t, i) = Later(s, i) \cup {n + 1}  BY <1>6, <2>1 DEF Later
  <2>3. n + 1 \notin Survivors(s)  BY <1>2, <1>4
  <2>4. n + 1 \notin Later(s, i)  BY <2>3 DEF Later
  <2>5. IsFiniteSet(Later(s, i))  BY SurvivorsFinite
  <2>6. Cardinality(Later(t, i)) = Cardinality(Later(s, i)) + 1
    BY <2>2, <2>4, <2>5, FS_AddElement
  <2> QED BY <1>3, <1>4, <2>1, <2>6
<1>8. /\ Cardinality(Later(t, n + 1)) = 0
      /\ Number(t, Rubout, n + 1, n + 1) = 0 /\ Number(t, Printable, n + 1, n + 1) = 0
  <2>1. Later(t, n + 1) = {}
    <3>1. \A j \in Survivors(t) : ~(j > n + 1)  BY <1>2, <1>4, <1>6
    <3> QED BY <3>1 DEF Later
  <2>2. (n + 1) + 1 .. n + 1 = {}  BY <1>2
  <2>3. \A A : Hits(t, A, n + 1, n + 1) = {}  BY <2>2 DEF Hits
  <2> QED BY <2>1, <2>3, FS_EmptySet DEF Number
<1> QED BY <1>2, <1>6, <1>7, <1>8 DEF Balanced, n

(* A byte that is neither printed nor a rubout changes nothing.            *)
LEMMA OthersAreIgnored ==
  ASSUME NEW s \in Seq(0 .. 255), Balanced(s), NEW b \in 0 .. 255,
         b \notin Printable, b \notin Rubout, NEW t, t = Append(s, b)
  PROVE  Survivors(t) = Survivors(s) /\ Balanced(t)
<1> DEFINE n == Len(s)
<1>1. n \in Nat /\ Len(t) = n + 1  OBVIOUS
<1>a. Appended(s, t, b) /\ Kept(s, t, b)  BY NumberAppend, SurvivorsAppend
<1> HIDE DEF n
<1>2. \A i \in 1 .. n :
        /\ Number(t, Rubout, i, n + 1) = Number(s, Rubout, i, n)
        /\ Number(t, Printable, i, n + 1) = Number(s, Printable, i, n)
        /\ Number(s, Rubout, i, n) \in Nat /\ Number(s, Printable, i, n) \in Nat
  BY <1>1, <1>a DEF Appended, Counts, n
<1>3. \A i \in Survivors(s) :
        /\ i \in 1 .. n
        /\ Cardinality(Later(s, i)) + Number(s, Rubout, i, n) = Number(s, Printable, i, n)
        /\ Cardinality(Later(s, i)) \in Nat
  BY Survivor DEF n
<1>4. \A i : i \in Survivors(t) <=>
        \/ i \in Survivors(s) /\ Number(t, Rubout, i, n + 1) <= Number(t, Printable, i, n + 1)
        \/ i = n + 1 /\ b \in Printable
  BY <1>a DEF Kept, n
<1>5. Survivors(t) = Survivors(s)
  <2>1. \A i \in Survivors(s) : Number(t, Rubout, i, n + 1) <= Number(t, Printable, i, n + 1)
    BY <1>2, <1>3
  <2> QED BY <1>4, <2>1
<1>6. \A i : Later(t, i) = Later(s, i)  BY <1>5 DEF Later
<1>7. Balanced(t)  BY <1>1, <1>2, <1>3, <1>5, <1>6 DEF Balanced
<1> QED BY <1>5, <1>7

(* A rubout takes the last survivor. *)
LEMMA RuboutTakesTheLast ==
  ASSUME NEW s \in Seq(0 .. 255), Balanced(s), NEW b \in Rubout, NEW t, t = Append(s, b)
  PROVE  Survivors(t) = {i \in Survivors(s) : Later(s, i) # {}} /\ Balanced(t)
<1> DEFINE n == Len(s)
<1>1. b \in 0 .. 255 /\ b \notin Printable  BY DEF Printable, Rubout
<1>2. n \in Nat /\ Len(t) = n + 1  BY <1>1
<1>a. Appended(s, t, b) /\ Kept(s, t, b)  BY <1>1, NumberAppend, SurvivorsAppend
<1> HIDE DEF n
<1>3. \A i \in 1 .. n :
        /\ Number(t, Rubout, i, n + 1) = Number(s, Rubout, i, n) + 1
        /\ Number(t, Printable, i, n + 1) = Number(s, Printable, i, n)
        /\ Number(s, Rubout, i, n) \in Nat /\ Number(s, Printable, i, n) \in Nat
  BY <1>1, <1>a DEF Appended, Counts, n
<1>4. \A i \in Survivors(s) :
        /\ i \in 1 .. n
        /\ Cardinality(Later(s, i)) + Number(s, Rubout, i, n) = Number(s, Printable, i, n)
        /\ IsFiniteSet(Later(s, i)) /\ Cardinality(Later(s, i)) \in Nat
        /\ Cardinality(Later(s, i)) = 0 <=> Later(s, i) = {}
  BY Survivor DEF n
<1>5. \A i : i \in Survivors(t) <=>
        \/ i \in Survivors(s) /\ Number(t, Rubout, i, n + 1) <= Number(t, Printable, i, n + 1)
        \/ i = n + 1 /\ b \in Printable
  BY <1>a DEF Kept, n
<1>6. Survivors(t) = {i \in Survivors(s) : Later(s, i) # {}}
  <2>1. \A i \in Survivors(s) : Number(t, Rubout, i, n + 1) <= Number(t, Printable, i, n + 1)
                                  <=> Later(s, i) # {}
    BY <1>3, <1>4
  <2> QED BY <1>1, <1>5, <2>1
<1>7. ASSUME NEW i \in Survivors(t)
      PROVE  Cardinality(Later(t, i)) + Number(t, Rubout, i, n + 1) = Number(t, Printable, i, n + 1)
  <2>1. i \in Survivors(s) /\ i \in 1 .. n /\ Later(s, i) # {}  BY <1>4, <1>6
  <2>0. \A j : Later(s, j) \subseteq Survivors(s) /\ Later(s, j) \subseteq 1 .. n
    BY <1>4 DEF Later
  <2>2. PICK m \in Later(s, i) : \A j \in Later(s, i) : j <= m
    <3>1. n \in Nat /\ Later(s, i) \in SUBSET (1 .. n)  BY <1>2, <2>0
    <3> QED BY <2>1, <3>1, LastOne
  <2>3. Later(t, i) = Later(s, i) \ {m}
    <3>1. m \in Survivors(s) /\ m > i /\ m \in 1 .. n  BY <2>0 DEF Later
    <3>2. Later(s, m) = {}
      <4>1. SUFFICES ASSUME NEW j \in Later(s, m) PROVE FALSE  OBVIOUS
      <4>2. j \in Survivors(s) /\ j > m /\ j \in 1 .. n  BY <2>0 DEF Later
      <4>3. j > i  BY <2>1, <3>1, <4>2
      <4>4. j <= m  BY <2>2, <4>2, <4>3 DEF Later
      <4> QED BY <3>1, <4>2, <4>4
    <3>3. \A j \in Later(s, i) \ {m} : m \in Later(s, j)
      <4>1. \A j \in Later(s, i) \ {m} : j \in 1 .. n /\ j <= m /\ j # m
        BY <2>0, <2>2
      <4>2. \A j \in Later(s, i) \ {m} : m > j  BY <3>1, <4>1
      <4> QED BY <3>1, <4>2 DEF Later
    <3>4. \A j : j \in Later(t, i) <=> j \in Later(s, i) /\ Later(s, j) # {}
      BY <1>6 DEF Later
    <3> QED BY <3>2, <3>3, <3>4
  <2>4. Cardinality(Later(t, i)) = Cardinality(Later(s, i)) - 1
    BY <1>4, <2>1, <2>3, FS_RemoveElement
  <2> QED BY <1>3, <1>4, <2>1, <2>4
<1>8. Balanced(t)  BY <1>2, <1>7 DEF Balanced
<1> QED BY <1>6, <1>8

-----------------------------------------------------------------------------
(* The number of a survivor: its place on the line. *)
Rank(s, i) == Cardinality({j \in Survivors(s) : j <= i})
Text(s, ln) ==
  /\ Len(ln) = Cardinality(Survivors(s))
  /\ \A i \in Survivors(s) : ln[Rank(s, i)] = s[i]

(* The numbers of the survivors run from 1 to how many there are, and what *)
(* is behind a survivor makes up the rest.                                 *)
LEMMA RankInLine ==
  ASSUME NEW s \in Seq(0 .. 255), NEW i \in Survivors(s)
  PROVE  /\ Rank(s, i) \in Nat /\ 1 <= Rank(s, i)
         /\ Rank(s, i) + Cardinality(Later(s, i)) = Cardinality(Survivors(s))
         /\ Cardinality(Later(s, i)) = 0 <=> Later(s, i) = {}
<1> DEFINE U == {j \in Survivors(s) : j <= i}
           L == Later(s, i)
<1>1. \A j \in Survivors(s) : j \in Int  BY DEF Survivors
<1>2. U \cup L = Survivors(s) /\ U \cap L = {}  BY <1>1 DEF Later
<1>3. IsFiniteSet(Survivors(s)) /\ IsFiniteSet(L) /\ Cardinality(L) \in Nat
  BY SurvivorsFinite
<1>4. IsFiniteSet(U) /\ Cardinality(U) \in Nat
  BY <1>3, FS_Subset, FS_CardinalityType
<1>5. i \in U  BY <1>1
<1>6. Cardinality(U) # 0 /\ (Cardinality(L) = 0 <=> L = {})
  BY <1>3, <1>4, <1>5, FS_EmptySet
<1>7. Cardinality(U \cup L) = Cardinality(U) + Cardinality(L) - Cardinality(U \cap L)
  BY <1>3, <1>4, FS_Union
<1>8. Cardinality(U \cap L) = 0  BY <1>2, FS_EmptySet
<1>9. Cardinality(Survivors(s)) = Cardinality(U) + Cardinality(L)
  <2> HIDE DEF U, L
  <2>1. Cardinality(U \cup L) = Cardinality(Survivors(s))  BY <1>2
  <2>2. Cardinality(Survivors(s)) = Cardinality(U) + Cardinality(L) - 0
    BY <1>7, <1>8, <2>1, Zenon
  <2>3. Cardinality(U) \in Nat /\ Cardinality(L) \in Nat  BY <1>3, <1>4
  <2> QED BY <2>2, <2>3
<1> QED
  <2>1. Rank(s, i) = Cardinality(U)  BY DEF Rank
  <2> HIDE DEF U
  <2> QED BY <2>1, <1>3, <1>4, <1>6, <1>9

(* The editor appends a printable byte to the line (uart_cmd.c:156).       *)
LEMMA PrintableGoesOn ==
  ASSUME NEW s \in Seq(0 .. 255), Balanced(s), NEW b \in Printable,
         NEW t, t = Append(s, b),
         NEW ln \in Seq(Printable), Text(s, ln)
  PROVE  Text(t, Append(ln, b))
<1> DEFINE n == Len(s)
           c == Cardinality(Survivors(s))
           l == Append(ln, b)
<1>1. /\ n \in Nat /\ t[n + 1] = b /\ \A k \in 1 .. n : t[k] = s[k]
      /\ \A i \in Survivors(s) : i \in 1 .. n
  <2>1. b \in 0 .. 255  BY DEF Printable
  <2>2. \A i \in Survivors(s) : i \in 1 .. n  BY DEF Survivors
  <2> QED BY <2>1, <2>2
<1>2. Survivors(t) = Survivors(s) \cup {n + 1}  BY PrintableStays
<1>3. Len(l) = c + 1 /\ l[c + 1] = b /\ (\A k \in 1 .. c : l[k] = ln[k]) /\ c \in Nat
  <2>1. Len(ln) = c  BY DEF Text
  <2> QED BY <2>1
<1>4. IsFiniteSet(Survivors(s)) /\ c \in Nat  BY SurvivorsFinite
<1> HIDE DEF n, l
<1>5. n + 1 \notin Survivors(s)  BY <1>1
<1>6. Cardinality(Survivors(t)) = c + 1
  BY <1>2, <1>4, <1>5, FS_AddElement
<1>7. ASSUME NEW i \in Survivors(s)  PROVE l[Rank(t, i)] = t[i]
  <2>1. i \in 1 .. n /\ ~(n + 1 <= i)  BY <1>1
  <2>2. {j \in Survivors(t) : j <= i} = {j \in Survivors(s) : j <= i}
    BY <1>2, <2>1
  <2>3. Rank(t, i) = Rank(s, i)  BY <2>2 DEF Rank
  <2>4. Rank(s, i) \in 1 .. c
    <3>1. Cardinality(Later(s, i)) \in Nat  BY SurvivorsFinite
    <3> QED BY <1>4, <3>1, RankInLine
  <2>5. ln[Rank(s, i)] = s[i]  BY DEF Text
  <2> QED BY <1>1, <1>3, <2>1, <2>3, <2>4, <2>5
<1>8. l[Rank(t, n + 1)] = t[n + 1]
  <2>1. \A j \in Survivors(t) : j <= n + 1  BY <1>1, <1>2
  <2>2. {j \in Survivors(t) : j <= n + 1} = Survivors(t)  BY <2>1
  <2>3. Rank(t, n + 1) = c + 1  BY <1>6, <2>2 DEF Rank
  <2> QED BY <1>1, <1>3, <2>3
<1> QED BY <1>2, <1>3, <1>6, <1>7, <1>8 DEF Text, l

(* The editor takes the last byte from the line, if there is one           *)
(* (uart_cmd.c:144-149).                                                   *)
LEMMA RuboutShortens ==
  ASSUME NEW s \in Seq(0 .. 255), Balanced(s), NEW b \in Rubout,
         NEW t, t = Append(s, b),
         NEW ln \in Seq(Printable), Text(s, ln)
  PROVE  Text(t, IF ln = << >> THEN ln ELSE SubSeq(ln, 1, Len(ln) - 1))
<1> DEFINE n == Len(s)
           c == Cardinality(Survivors(s))
           l == SubSeq(ln, 1, Len(ln) - 1)
<1>1. /\ n \in Nat /\ \A k \in 1 .. n : t[k] = s[k]
      /\ Survivors(s) \in SUBSET (1 .. n)
  <2>1. b \in 0 .. 255  BY DEF Rubout
  <2>2. \A i \in Survivors(s) : i \in 1 .. n  BY DEF Survivors
  <2> QED BY <2>1, <2>2
<1>2. Survivors(t) = {i \in Survivors(s) : Later(s, i) # {}}
  BY RuboutTakesTheLast
<1>3. IsFiniteSet(Survivors(s)) /\ c \in Nat /\ (c = 0 <=> Survivors(s) = {})
  BY SurvivorsFinite, FS_EmptySet
<1>4. Len(ln) = c /\ \A i \in Survivors(s) : ln[Rank(s, i)] = s[i]
  BY DEF Text
<1>5. CASE ln = << >>
  <2>1. c = 0  BY <1>4, <1>5
  <2>2. Survivors(s) = {} /\ Survivors(t) = {}  BY <1>2, <1>3, <2>1
  <2> QED BY <1>5, <1>4, <2>2 DEF Text
<1>6. CASE ln # << >>
  <2>1. c # 0 /\ c - 1 \in Nat  BY <1>3, <1>4, <1>6
  <2>2. PICK m \in Survivors(s) : \A j \in Survivors(s) : j <= m
    BY <1>1, <1>3, <2>1, LastOne
  <2>3. Survivors(t) = Survivors(s) \ {m}
    <3>1. Later(s, m) = {}
      <4>1. \A j \in Survivors(s) : ~(j > m)  BY <1>1, <2>2
      <4> QED BY <4>1 DEF Later
    <3>2. \A i \in Survivors(s) \ {m} : m \in Later(s, i)
      <4>1. \A i \in Survivors(s) \ {m} : m > i  BY <1>1, <2>2
      <4> QED BY <4>1 DEF Later
    <3> QED BY <1>2, <3>1, <3>2
  <2>4. Cardinality(Survivors(t)) = c - 1
    BY <1>3, <2>3, FS_RemoveElement
  <2>5. Len(l) = c - 1 /\ \A k \in 1 .. c - 1 : l[k] = ln[k]
    <3>1. 1 \in Int /\ c - 1 \in Int /\ \A k \in 1 .. c - 1 : ln[k] \in Printable
      BY <1>4, <2>1
    <3>2. l = SubSeq(ln, 1, c - 1)  BY <1>4
    <3> HIDE DEF l, c
    <3>3. /\ Len(l) = IF 1 <= c - 1 THEN c - 1 - 1 + 1 ELSE 0
          /\ \A k \in 1 .. c - 1 - 1 + 1 : l[k] = ln[1 + k - 1]
      BY <3>1, <3>2, SubSeqProperties
    <3> QED BY <2>1, <3>3
  <2> HIDE DEF l, c, n
  <2>6. ASSUME NEW i \in Survivors(t)  PROVE l[Rank(t, i)] = t[i]
    <3>1. i \in Survivors(s) /\ i # m /\ i \in 1 .. n /\ i <= m /\ Later(s, i) # {}
      BY <1>1, <1>2, <2>2, <2>3
    <3>2. {j \in Survivors(t) : j <= i} = {j \in Survivors(s) : j <= i}
      <4>1. m \in 1 .. n /\ ~(m <= i)  BY <1>1, <3>1
      <4> QED BY <2>3, <4>1
    <3>3. Rank(t, i) = Rank(s, i)  BY <3>2 DEF Rank
    <3>4. Rank(s, i) \in 1 .. c - 1
      <4>1. Cardinality(Later(s, i)) \in Nat  BY SurvivorsFinite
      <4>2. /\ Rank(s, i) \in Nat /\ 1 <= Rank(s, i)
            /\ Rank(s, i) + Cardinality(Later(s, i)) = c
            /\ Cardinality(Later(s, i)) # 0
        BY <3>1, RankInLine DEF c
      <4> QED BY <1>3, <4>1, <4>2
    <3>5. l[Rank(s, i)] = ln[Rank(s, i)]  BY <2>5, <3>4
    <3> QED BY <1>1, <1>4, <3>1, <3>3, <3>5
  <2> QED BY <1>6, <2>4, <2>5, <2>6 DEF Text, l
<1> QED BY <1>5, <1>6

(* A segment that never outgrew line[] did not before its last byte, and   *)
(* does not with it.                                                       *)
LEMMA NotOverlong ==
  ASSUME NEW s \in Seq(0 .. 255), NEW b \in 0 .. 255,
         NEW t, t = Append(s, b), ~Overlong(t)
  PROVE  ~Overlong(s) /\ Cardinality(Survivors(t)) < LINE_MAX
<1> DEFINE n == Len(s)
<1>1. n \in Nat /\ t \in Seq(0 .. 255) /\ Len(t) = n + 1  OBVIOUS
<1>2. \A k \in 1 .. n : SubSeq(t, 1, k) = SubSeq(s, 1, k)
  OBVIOUS
<1>3. SubSeq(t, 1, n + 1) = t  BY <1>1
<1>4. \A k \in 1 .. n + 1 : ~(Cardinality(Survivors(SubSeq(t, 1, k))) >= LINE_MAX)
  BY <1>1 DEF Overlong
<1>5. ~Overlong(s)
  <2>1. SUFFICES ASSUME NEW k \in 1 .. n, Cardinality(Survivors(SubSeq(s, 1, k))) >= LINE_MAX
                 PROVE  FALSE
    BY DEF Overlong
  <2>2. k \in 1 .. n + 1  BY <1>1
  <2>3. SubSeq(t, 1, k) = SubSeq(s, 1, k)  BY <1>2
  <2> QED BY <1>4, <2>1, <2>2, <2>3, Zenon
<1>6. n + 1 \in 1 .. n + 1  BY <1>1
<1>7. ~(Cardinality(Survivors(t)) >= LINE_MAX)  BY <1>3, <1>4, <1>6
<1>8. Cardinality(Survivors(t)) \in Nat  BY <1>1, SurvivorsFinite
<1> QED BY <1>5, <1>7, <1>8, UartCmdAssumption

(* One byte edited into the line is one byte more to the segment. *)
LEMMA EditFollows ==
  ASSUME NEW s \in Seq(0 .. 255), Balanced(s), NEW b \in 0 .. 255,
         NEW t, t = Append(s, b), ~Overlong(t),
         NEW ln \in Seq(Printable), Text(s, ln)
  PROVE  Text(t, Edit(ln, b))
<1>1. CASE b \in Rubout
  BY <1>1, RuboutShortens DEF Edit
<1>2. CASE b \notin Rubout /\ b \notin Printable
  <2>1. Survivors(t) = Survivors(s)  BY <1>2, OthersAreIgnored
  <2>2. \A i \in Survivors(s) : t[i] = s[i]
    <3>1. \A i \in Survivors(s) : i \in 1 .. Len(s)  BY DEF Survivors
    <3> QED BY <3>1
  <2>3. Edit(ln, b) = ln  BY <1>2 DEF Edit
  <2> QED BY <2>1, <2>2, <2>3 DEF Text, Rank
<1>3. CASE b \notin Rubout /\ b \in Printable
  <2>1. Text(t, Append(ln, b))  BY <1>3, PrintableGoesOn
  <2>2. Len(Append(ln, b)) < LINE_MAX  BY <2>1, NotOverlong DEF Text
  <2>3. Len(ln) < LINE_MAX - 1
    <3>1. Len(Append(ln, b)) = Len(ln) + 1 /\ Len(ln) \in Nat  BY <1>3
    <3> QED BY <2>2, <3>1, UartCmdAssumption
  <2> QED BY <1>3, <2>1, <2>3 DEF Edit
<1> QED BY <1>1, <1>2, <1>3

(* Balance outlives every byte, whether the line has room for it or not.   *)
LEMMA BalancedAppend ==
  ASSUME NEW s \in Seq(0 .. 255), Balanced(s), NEW b \in 0 .. 255
  PROVE  Balanced(Append(s, b))
<1>1. CASE b \in Printable  BY <1>1, PrintableStays
<1>2. CASE b \in Rubout  BY <1>2, RuboutTakesTheLast
<1>3. CASE b \notin Printable /\ b \notin Rubout  BY <1>3, OthersAreIgnored
<1> QED BY <1>1, <1>2, <1>3

LineInv == Balanced(segment) /\ LineIsTheEditedInput

(* The property, in the terms of the lemmas.                               *)
LEMMA LineIsText ==
  LineIsTheEditedInput <=> (~Overlong(segment) => Text(segment, line))
BY DEF LineIsTheEditedInput, Text, Rank

(* It holds of a line that has just begun, ...                             *)
LEMMA EmptyLine == Balanced(<< >>) /\ Text(<< >>, << >>)
<1>1. Balanced(<< >>) /\ Survivors(<< >>) = {}  BY InitBalanced
<1>2. Cardinality(Survivors(<< >>)) = 0  BY <1>1, FS_EmptySet
<1> QED BY <1>1, <1>2 DEF Text

(* ... therefore at the start, ...                                         *)
LEMMA InitLine == Init => LineInv
BY EmptyLine, LineIsText DEF Init, LineInv

(* ... and after every step: a line end begins line and segment anew, any  *)
(* other byte is edited into both, and no other step touches either.       *)
LEMMA NextLine == Inv /\ LineInv /\ [Next]_vars => LineInv'
<1> SUFFICES ASSUME Inv, LineInv, [Next]_vars PROVE LineInv'  OBVIOUS
<1>1. /\ segment \in Seq(0 .. 255) /\ byte \in 0 .. 255 /\ line \in Seq(Printable)
      /\ Balanced(segment) /\ (~Overlong(segment) => Text(segment, line))
  BY LineIsText DEF Inv, TypeOK, LineInv
<1>2. SUFFICES Balanced(segment') /\ (~Overlong(segment') => Text(segment', line'))
  <2>1. LineIsTheEditedInput' <=> (~Overlong(segment') => Text(segment', line'))
    BY DEF LineIsTheEditedInput, Text, Rank
  <2>2. Balanced(segment)' <=> Balanced(segment')
    BY DEF Balanced, Later
  <2> QED BY <2>1, <2>2 DEF LineInv
<1>3. CASE EndLine
  BY <1>3, EmptyLine DEF EndLine
<1>4. CASE EditLine
  <2>1. segment' = Append(segment, byte) /\ line' = Edit(line, byte)
    BY <1>4 DEF EditLine
  <2>2. Balanced(segment')  BY <1>1, <2>1, BalancedAppend
  <2>3. ASSUME ~Overlong(segment')  PROVE Text(segment', line')
    <3>1. ~Overlong(segment)  BY <1>1, <2>1, <2>3, NotOverlong
    <3>2. Text(segment, line)  BY <1>1, <3>1
    <3> QED BY <1>1, <2>1, <2>3, <3>2, EditFollows
  <2> QED BY <2>2, <2>3
<1>5. CASE UNCHANGED << segment, line >>
  BY <1>1, <1>5
<1>6. CASE USART2_IRQHandler \/ Enter \/ Report \/ Clear \/ Test \/ Fetch \/ Advance
           \/ UNCHANGED vars
  BY <1>5, <1>6 DEF USART2_IRQHandler, Store, Drop, Enter, Report, Clear, Test, Fetch,
                    Advance, rxVars, lineVars, vars
<1> QED BY <1>3, <1>4, <1>6 DEF Next, Poll

(* The line handed to the parser is what the user sees after his rubouts,  *)
(* as long as it never outgrew line[] (uart_cmd.c:129-160).                *)
THEOREM LineIsEdited == Spec => []LineIsTheEditedInput
<1>1. LineInv => LineIsTheEditedInput  BY DEF LineInv
<1> QED BY <1>1, InitLine, NextLine, SpecInv, PTL DEF Spec

(***************************************************************************)
(* The command language: what the parser makes of the line, whatever is    *)
(* on it and however the keywords are spelled.                             *)
(***************************************************************************)
(* Induction up to a bound, over the numbers of a set. *)
LEMMA Induction ==
  ASSUME NEW n \in Nat, NEW S, 0 \in S, \A k \in 0 .. n - 1 : k \in S => k + 1 \in S
  PROVE  \A k \in 0 .. n : k \in S
<1> DEFINE I == 0 .. n
           R == StrictSubsetOrdering(I)
           T == {X \in SUBSET I : \E k \in I : k \notin S /\ X = 0 .. k}
<1>1. IsWellFoundedOn(R, SUBSET I)
  <2>1. IsFiniteSet(I)  BY FS_Interval
  <2> HIDE DEF I
  <2> QED BY <2>1, FS_StrictSubsetOrderingWellFounded, FS_FiniteSubsetsOfFinite
<1> SUFFICES ASSUME NEW j \in I, j \notin S  PROVE FALSE
  OBVIOUS
<1>2. T # {} /\ T \subseteq SUBSET I
  <2>1. 0 .. j \in T  OBVIOUS
  <2> QED BY <2>1
<1>3. PICK X \in T : \A Y \in T : << Y, X >> \notin R
  <2> HIDE DEF T, R, I
  <2> QED BY <1>1, <1>2, WFMin
<1>4. PICK k \in I : k \notin S /\ X = 0 .. k
  BY <1>3
<1>5. k # 0 /\ k - 1 \in 0 .. n - 1
  BY <1>4
<1>6. k - 1 \notin S
  <2>1. (k - 1) + 1 = k  BY <1>5
  <2> QED BY <1>4, <1>5, <2>1
<1>7. 0 .. k - 1 \in T
  <2>1. k - 1 \in I /\ 0 .. k - 1 \subseteq I  BY <1>5
  <2> QED BY <1>6, <2>1
<1>8. << 0 .. k - 1, X >> \in R
  <2>1. 0 .. k - 1 \subseteq X /\ k \in X /\ k \notin 0 .. k - 1  BY <1>4, <1>5
  <2>2. 0 .. k - 1 \in SUBSET I /\ X \in SUBSET I  BY <1>5, <1>4
  <2> QED BY <2>1, <2>2 DEF StrictSubsetOrdering
<1> QED BY <1>3, <1>7, <1>8

(* And a first one.                                                        *)
LEMMA FirstOne ==
  ASSUME NEW n \in Nat, NEW S \in SUBSET (1 .. n), S # {}
  PROVE  \E m \in S : \A j \in S : m <= j
<1> DEFINE T == {i \in 1 .. n : n + 1 - i \in S}
<1>1. \A i \in 1 .. n : n + 1 - i \in 1 .. n /\ n + 1 - (n + 1 - i) = i
  OBVIOUS
<1>2. \A i \in S : n + 1 - i \in T
  BY <1>1
<1>3. T # {} /\ T \in SUBSET (1 .. n)
  BY <1>2
<1>4. PICK m \in T : \A j \in T : j <= m
  <2> HIDE DEF T
  <2> QED BY <1>3, LastOne
<1>5. ASSUME NEW j \in S  PROVE n + 1 - m <= j
  <2>1. n + 1 - j <= m  BY <1>2, <1>4
  <2>2. m \in 1 .. n /\ j \in 1 .. n  BY <1>4
  <2> QED BY <2>1, <2>2
<1> QED BY <1>4, <1>5

(* k is the first place from i on, the end of the string included, that    *)
(* is not a blank, and the first that is one.                              *)
BlanksEnd(s, i, k) ==
  /\ k \in i .. Len(s) + 1
  /\ k <= Len(s) => s[k] # SP
  /\ \A j \in i .. k - 1 : s[j] = SP
WordEnds(s, i, k) ==
  /\ k \in i .. Len(s) + 1
  /\ k <= Len(s) => s[k] = SP
  /\ \A j \in i .. k - 1 : s[j] # SP

(* The scan over blanks stops there, and nowhere else.                     *)
LEMMA SkipBlanksIs ==
  ASSUME NEW s, Len(s) \in Nat, NEW i \in 1 .. Len(s) + 1
  PROVE  /\ BlanksEnd(s, i, SkipBlanks(s, i))
         /\ \A k : BlanksEnd(s, i, k) => SkipBlanks(s, i) = k
<1> DEFINE n == Len(s)
           S == {k \in i .. n + 1 : k <= n => s[k] # SP}
<1>1. n \in Nat /\ i \in 1 .. n + 1  OBVIOUS
<1>2. \E k \in i .. n + 1 : BlanksEnd(s, i, k)
  <2>1. n + 1 \in S  BY <1>1
  <2>2. n + 1 \in Nat /\ S \in SUBSET (1 .. n + 1) /\ S # {}  BY <1>1, <2>1
  <2>3. PICK m \in S : \A j \in S : m <= j
    <3> HIDE DEF S, n
    <3> QED BY <2>2, FirstOne
  <2>4. \A j \in i .. m - 1 : s[j] = SP
    <3> TAKE j \in i .. m - 1
    <3>1. j \in i .. n + 1 /\ j <= n /\ ~(m <= j)  BY <1>1, <2>3
    <3>2. j \notin S  BY <3>1, <2>3
    <3> QED BY <3>1, <3>2
  <2> QED BY <2>3, <2>4 DEF BlanksEnd
<1>3. SkipBlanks(s, i) = CHOOSE k \in i .. n + 1 : BlanksEnd(s, i, k)
  BY DEF SkipBlanks, BlanksEnd
<1>4. BlanksEnd(s, i, SkipBlanks(s, i))
  <2> HIDE DEF n
  <2> QED BY <1>2, <1>3
<1>5. ASSUME NEW k, NEW l, BlanksEnd(s, i, k), BlanksEnd(s, i, l)  PROVE ~(k < l)
  <2>1. /\ k \in i .. n + 1 /\ l \in i .. n + 1 /\ (k <= n => s[k] # SP)
        /\ \A j \in i .. l - 1 : s[j] = SP
    BY <1>5 DEF BlanksEnd
  <2> SUFFICES ASSUME k < l  PROVE FALSE  OBVIOUS
  <2>2. k \in i .. l - 1 /\ k <= n  BY <1>1, <2>1
  <2> QED BY <2>1, <2>2
<1>6. ASSUME NEW k, BlanksEnd(s, i, k)  PROVE SkipBlanks(s, i) = k
  <2>1. ~(k < SkipBlanks(s, i)) /\ ~(SkipBlanks(s, i) < k)  BY <1>4, <1>5, <1>6
  <2>2. k \in Int /\ SkipBlanks(s, i) \in Int  BY <1>1, <1>4, <1>6 DEF BlanksEnd
  <2> QED BY <2>1, <2>2
<1> QED BY <1>4, <1>6

(* So does the scan over the keyword.                                      *)
LEMMA WordEndIs ==
  ASSUME NEW s, Len(s) \in Nat, NEW i \in 1 .. Len(s) + 1
  PROVE  /\ WordEnds(s, i, WordEnd(s, i))
         /\ \A k : WordEnds(s, i, k) => WordEnd(s, i) = k
<1> DEFINE n == Len(s)
           S == {k \in i .. n + 1 : k <= n => s[k] = SP}
<1>1. n \in Nat /\ i \in 1 .. n + 1  OBVIOUS
<1>2. \E k \in i .. n + 1 : WordEnds(s, i, k)
  <2>1. n + 1 \in S  BY <1>1
  <2>2. n + 1 \in Nat /\ S \in SUBSET (1 .. n + 1) /\ S # {}  BY <1>1, <2>1
  <2>3. PICK m \in S : \A j \in S : m <= j
    <3> HIDE DEF S, n
    <3> QED BY <2>2, FirstOne
  <2>4. \A j \in i .. m - 1 : s[j] # SP
    <3> TAKE j \in i .. m - 1
    <3>1. j \in i .. n + 1 /\ j <= n /\ ~(m <= j)  BY <1>1, <2>3
    <3>2. j \notin S  BY <3>1, <2>3
    <3> QED BY <3>1, <3>2
  <2> QED BY <2>3, <2>4 DEF WordEnds
<1>3. WordEnd(s, i) = CHOOSE k \in i .. n + 1 : WordEnds(s, i, k)
  BY DEF WordEnd, WordEnds
<1>4. WordEnds(s, i, WordEnd(s, i))
  <2> HIDE DEF n
  <2> QED BY <1>2, <1>3
<1>5. ASSUME NEW k, NEW l, WordEnds(s, i, k), WordEnds(s, i, l)  PROVE ~(k < l)
  <2>1. /\ k \in i .. n + 1 /\ l \in i .. n + 1 /\ (k <= n => s[k] = SP)
        /\ \A j \in i .. l - 1 : s[j] # SP
    BY <1>5 DEF WordEnds
  <2> SUFFICES ASSUME k < l  PROVE FALSE  OBVIOUS
  <2>2. k \in i .. l - 1 /\ k <= n  BY <1>1, <2>1
  <2> QED BY <2>1, <2>2
<1>6. ASSUME NEW k, WordEnds(s, i, k)  PROVE WordEnd(s, i) = k
  <2>1. ~(k < WordEnd(s, i)) /\ ~(WordEnd(s, i) < k)  BY <1>4, <1>5, <1>6
  <2>2. k \in Int /\ WordEnd(s, i) \in Int  BY <1>1, <1>4, <1>6 DEF WordEnds
  <2> QED BY <2>1, <2>2
<1> QED BY <1>4, <1>6

(* A function over the numbers up to N that g computes step by step, and   *)
(* what makes its values stay in V.                                        *)
StaysIn(g, N, V) == \A n \in 1 .. N : \A v \in V : g[<< n, v >>] \in V
ComputedBy(f, g, N, b) ==
  f[0] = b /\ \A n \in 1 .. N : f[n] = g[<< n, f[n - 1] >>]

(* Such a function exists. *)
LEMMA Iteration ==
  ASSUME NEW N \in Nat, NEW V, NEW b \in V, NEW g, StaysIn(g, N, V)
  PROVE  \E f \in [0 .. N -> V] : ComputedBy(f, g, N, b)
<1> USE DEF StaysIn, ComputedBy
<1> DEFINE Fits(f, k) == f[0] = b /\ \A n \in 1 .. k : f[n] = g[<< n, f[n - 1] >>]
           S == {k \in 0 .. N : \E f \in [0 .. k -> V] : Fits(f, k)}
<1>1. 0 \in S
  <2> DEFINE f == [j \in 0 .. 0 |-> b]
  <2>1. f \in [0 .. 0 -> V] /\ Fits(f, 0) /\ 0 \in 0 .. N  OBVIOUS
  <2> HIDE DEF f, Fits
  <2> QED BY <2>1
<1>2. ASSUME NEW k \in 0 .. N - 1, k \in S  PROVE k + 1 \in S
  <2>1. PICK f \in [0 .. k -> V] : Fits(f, k)  BY <1>2
  <2> DEFINE h == [j \in 0 .. k + 1 |-> IF j = k + 1 THEN g[<< k + 1, f[k] >>] ELSE f[j]]
  <2>2. k \in Nat /\ k + 1 \in 1 .. N  OBVIOUS
  <2>3. h \in [0 .. k + 1 -> V]
    <3>1. g[<< k + 1, f[k] >>] \in V  BY <2>1, <2>2
    <3> QED BY <3>1, <2>1, <2>2
  <2>4. h[0] = b  BY <2>1, <2>2
  <2>5. ASSUME NEW j \in 1 .. k + 1  PROVE h[j] = g[<< j, h[j - 1] >>]
    <3>1. CASE j = k + 1
      <4>1. h[j] = g[<< k + 1, f[k] >>] /\ h[j - 1] = f[k]  BY <3>1, <2>2
      <4> QED BY <3>1, <4>1
    <3>2. CASE j # k + 1
      <4>1. j \in 1 .. k /\ j - 1 \in 0 .. k  BY <3>2, <2>2
      <4>2. h[j] = f[j] /\ h[j - 1] = f[j - 1]  BY <4>1, <2>2
      <4> QED BY <4>1, <4>2, <2>1
    <3> QED BY <3>1, <3>2
  <2>6. Fits(h, k + 1)  BY <2>4, <2>5
  <2>7. k + 1 \in 0 .. N  BY <2>2
  <2> HIDE DEF h, Fits
  <2> QED BY <2>3, <2>6, <2>7
<1>3. N \in S
  <2> HIDE DEF S
  <2>1. \A k \in 0 .. N : k \in S  BY <1>1, <1>2, Induction
  <2> QED BY <2>1
<1> QED BY <1>3

(* Multiples of the modulus do not change a remainder.                     *)
LEMMA SameRemainder ==
  ASSUME NEW m \in Nat, m > 0, NEW q \in Int, NEW x \in Int
  PROVE  (m * q + x) % m = x % m
<1> DEFINE p == x \div m
           r == x % m
<1>1. p \in Int /\ r \in 0 .. m - 1 /\ x = m * p + r  OBVIOUS
<1> HIDE DEF p
<1>2. m * q + x = m * (q + p) + r
  <2>1. m * (q + p) = m * q + m * p  BY <1>1
  <2>2. m * q \in Int /\ m * p \in Int  BY <1>1
  <2> QED BY <1>1, <2>1, <2>2
<1>3. q + p \in Int  BY <1>1
<1>4. (m * (q + p) + r) % m = r
  <2> DEFINE w == q + p
  <2>1. w \in Int  BY <1>3
  <2> HIDE DEF w, r
  <2>2. (m * w + r) % m = r  BY <2>1, <1>1, Residue
  <2> QED BY <2>2 DEF w
<1> QED BY <1>2, <1>4 DEF r

(* One more digit, on the number or on its remainder. *)
LEMMA DigitRemainder ==
  ASSUME NEW m \in Nat, m > 0, NEW q \in Nat, NEW d \in Nat
  PROVE  ((q % m) * 10 + d) % m = (10 * q + d) % m
<1> DEFINE k == q \div m
           r == q % m
           x == r * 10 + d
           z == 10 * k
<1>1. k \in Int /\ r \in Int /\ q = m * k + r  OBVIOUS
<1>2. z \in Int /\ x \in Int  BY <1>1
<1>3. m * z = 10 * (m * k)
  <2> HIDE DEF k
  <2> QED BY <1>1
<1>4. 10 * q + d = m * z + x
  <2> DEFINE y == m * k
  <2>1. y \in Int /\ q = y + r /\ m * z = 10 * y  BY <1>1, <1>3
  <2> HIDE DEF y, z, k, r
  <2> QED BY <2>1, <1>1
<1>5. (m * z + x) % m = x % m
  <2> HIDE DEF z, x
  <2> QED BY <1>2, SameRemainder
<1> QED BY <1>4, <1>5

(* Strings of digits. *)
Decimal(s) == s \in Seq(Nat) /\ \A i \in 1 .. Len(s) : s[i] \in Digit

(* parse_uint() step by step. *)
LEMMA AccumulatedIs ==
  ASSUME NEW s, Decimal(s)
  PROVE  \E f : /\ f[0] = 0 /\ Accumulated(s) = f[Len(s)]
                /\ \A n \in 1 .. Len(s) : f[n] = (f[n - 1] * 10 + (s[n] - 48)) % WordMod
<1> DEFINE N == Len(s)
           V == 0 .. WordMod - 1
           Step(v) == [n \in 0 .. N |-> IF n = 0 THEN 0
                                        ELSE (v[n - 1] * 10 + (s[n] - 48)) % WordMod]
           g == [p \in (1 .. N) \X V |-> (p[2] * 10 + (s[p[1]] - 48)) % WordMod]
<1>1. N \in Nat /\ \A i \in 1 .. N : s[i] - 48 \in Nat
  <2>1. N \in Nat  BY DEF Decimal
  <2>2. \A i \in 1 .. N : s[i] \in 48 .. 57  BY DEF Decimal, Digit
  <2> HIDE DEF N
  <2> QED BY <2>1, <2>2
<1>2. WordMod \in Nat /\ WordMod > 0 /\ 0 \in V
  BY WordModAssumption
<1>3. \A n \in 1 .. N : \A v \in V : g[<< n, v >>] = (v * 10 + (s[n] - 48)) % WordMod
  OBVIOUS
<1>4. \A n \in 1 .. N : \A v \in V : (v * 10 + (s[n] - 48)) % WordMod \in V
  <2> TAKE n \in 1 .. N
  <2> TAKE v \in V
  <2> DEFINE x == v * 10 + (s[n] - 48)
  <2>1. x \in Int  BY <1>1
  <2> HIDE DEF x
  <2>2. x % WordMod \in V  BY <2>1, <1>2
  <2> QED BY <2>2 DEF x
<1>5. PICK f \in [0 .. N -> V] :
        f[0] = 0 /\ \A n \in 1 .. N : f[n] = g[<< n, f[n - 1] >>]
  <2>1. StaysIn(g, N, V)
    <3> HIDE DEF g
    <3> QED BY <1>3, <1>4 DEF StaysIn
  <2> HIDE DEF g, V, N
  <2>2. \E f \in [0 .. N -> V] : ComputedBy(f, g, N, 0)
    BY <2>1, <1>1, <1>2, Iteration
  <2> QED BY <2>2 DEF ComputedBy
<1>6. \A n \in 1 .. N : f[n] = (f[n - 1] * 10 + (s[n] - 48)) % WordMod
  <2> TAKE n \in 1 .. N
  <2>1. n - 1 \in 0 .. N  BY <1>1
  <2>2. f[n - 1] \in V  BY <2>1, <1>5
  <2> HIDE DEF g
  <2> QED BY <2>2, <1>3, <1>5
<1>7. f = Step(f)
  <2> HIDE DEF g
  <2>1. f = [n \in 0 .. N |-> f[n]]  BY <1>5
  <2>2. \A n \in 0 .. N : n = 0 \/ n \in 1 .. N  BY <1>1
  <2> QED BY <1>5, <1>6, <2>1, <2>2
<1> DEFINE A == CHOOSE v : v = Step(v)
<1>8. A = Step(A)
  <2> HIDE DEF Step
  <2> QED BY <1>7
<1>9. Accumulated(s) = A[N]
  BY DEF Accumulated
<1>10. A[0] = 0 /\ \A n \in 1 .. N : A[n] = (A[n - 1] * 10 + (s[n] - 48)) % WordMod
  <2> HIDE DEF A, N
  <2>1. \A n \in 0 .. N : A[n] = IF n = 0 THEN 0
                                ELSE (A[n - 1] * 10 + (s[n] - 48)) % WordMod
    BY <1>8
  <2>2. 0 \in 0 .. N /\ \A n \in 1 .. N : n # 0 /\ n \in 0 .. N  BY <1>1
  <2> QED BY <2>1, <2>2, Zenon
<1> QED BY <1>9, <1>10

(* The value of a numeral, digit by digit: the weights of the places, and  *)
(* what the digits so far stand for.                                       *)
DigitByDigit(s, w, t) ==
  /\ w \in [0 .. Len(s) -> Nat]
  /\ w[0] = 1 /\ \A n \in 1 .. Len(s) : w[n] = 10 * w[n - 1]
  /\ t[0] = 0 /\ Value(s) = t[Len(s)]
  /\ \A n \in 1 .. Len(s) : t[n] = t[n - 1] + (s[n] - 48) * w[Len(s) - n]

(* The two recursions of Value() have a solution.                          *)
LEMMA ValueIs ==
  ASSUME NEW s, Decimal(s)
  PROVE  \E w, t : DigitByDigit(s, w, t)
<1> DEFINE N == Len(s)
           StepW(v) == [n \in 0 .. N |-> IF n = 0 THEN 1 ELSE 10 * v[n - 1]]
           gw == [p \in (1 .. N) \X Nat |-> 10 * p[2]]
           W == CHOOSE v : v = StepW(v)
           StepT(v) == [n \in 0 .. N |-> IF n = 0 THEN 0
                                         ELSE v[n - 1] + (s[n] - 48) * W[N - n]]
           gt == [p \in (1 .. N) \X Nat |-> p[2] + (s[p[1]] - 48) * W[N - p[1]]]
           T == CHOOSE v : v = StepT(v)
<1>1. N \in Nat /\ \A i \in 1 .. N : s[i] - 48 \in Nat
  <2>1. N \in Nat  BY DEF Decimal
  <2>2. \A i \in 1 .. N : s[i] \in 48 .. 57  BY DEF Decimal, Digit
  <2> HIDE DEF N
  <2> QED BY <2>1, <2>2
<1>2. Value(s) = T[N]
  BY DEF Value
<1> HIDE DEF N
<1>3. \E f \in [0 .. N -> Nat] : ComputedBy(f, gw, N, 1)
  <2>1. StaysIn(gw, N, Nat)  BY DEF StaysIn
  <2> HIDE DEF gw
  <2> QED BY <2>1, <1>1, Iteration
<1>4. W = StepW(W) /\ W \in [0 .. N -> Nat]
  <2>1. PICK f \in [0 .. N -> Nat] : ComputedBy(f, gw, N, 1)  BY <1>3
  <2>2. \A n \in 1 .. N : f[n - 1] \in Nat  BY <2>1, <1>1
  <2>3. f[0] = 1 /\ \A n \in 1 .. N : f[n] = 10 * f[n - 1]
    BY <2>1, <2>2 DEF ComputedBy
  <2>4. f = StepW(f)
    <3>1. f = [n \in 0 .. N |-> f[n]]  BY <2>1
    <3>2. \A n \in 0 .. N : n = 0 \/ n \in 1 .. N  BY <1>1
    <3> HIDE DEF gw
    <3> QED BY <2>3, <3>1, <3>2
  <2>5. W = StepW(W)
    <3> HIDE DEF StepW
    <3> QED BY <2>4
  <2> HIDE DEF W
  <2>6. \A n \in 0 .. N : W[n] = IF n = 0 THEN 1 ELSE 10 * W[n - 1]  BY <2>5
  <2> DEFINE S == {n \in 0 .. N : W[n] \in Nat}
  <2>7. 0 \in S  BY <2>6, <1>1
  <2>8. ASSUME NEW k \in 0 .. N - 1, k \in S  PROVE k + 1 \in S
    <3>1. k + 1 \in 0 .. N /\ k + 1 # 0 /\ (k + 1) - 1 = k  BY <1>1
    <3>2. W[k + 1] = 10 * W[k]  BY <2>6, <3>1
    <3> QED BY <3>1, <3>2, <2>8
  <2>9. \A n \in 0 .. N : n \in S
    <3> HIDE DEF S
    <3> QED BY <2>7, <2>8, <1>1, Induction
  <2>10. W = [n \in 0 .. N |-> W[n]]
    <3>1. DOMAIN StepW(W) = 0 .. N  OBVIOUS
    <3>2. \E h : W = [n \in 0 .. N |-> h[n]]
      <4> DEFINE h == [n \in 0 .. N |-> IF n = 0 THEN 1 ELSE 10 * W[n - 1]]
      <4>1. W = h /\ h = [n \in 0 .. N |-> h[n]]  BY <2>5
      <4> HIDE DEF h
      <4> QED BY <4>1
    <3> QED BY <3>2
  <2> QED BY <2>5, <2>9, <2>10
<1>5. W[0] = 1 /\ \A n \in 1 .. N : W[n] = 10 * W[n - 1]
  <2> HIDE DEF W
  <2>1. \A n \in 0 .. N : W[n] = IF n = 0 THEN 1 ELSE 10 * W[n - 1]  BY <1>4
  <2>2. 0 \in 0 .. N /\ \A n \in 1 .. N : n # 0 /\ n \in 0 .. N  BY <1>1
  <2> QED BY <2>1, <2>2, Zenon
<1> HIDE DEF W
<1>6. ASSUME NEW n \in 1 .. N, NEW v \in Nat
      PROVE  v + (s[n] - 48) * W[N - n] \in Nat
  <2>1. N - n \in 0 .. N  BY <1>1
  <2>2. W[N - n] \in Nat /\ s[n] - 48 \in Nat  BY <2>1, <1>4, <1>1
  <2> DEFINE x == s[n] - 48
             y == W[N - n]
  <2>3. x \in Nat /\ y \in Nat  BY <2>2
  <2> HIDE DEF x, y
  <2>4. v + x * y \in Nat  BY <2>3
  <2> QED BY <2>4 DEF x, y
<1>7. \A n \in 1 .. N : \A v \in Nat : gt[<< n, v >>] = v + (s[n] - 48) * W[N - n]
  OBVIOUS
<1>8. \E f \in [0 .. N -> Nat] : ComputedBy(f, gt, N, 0)
  <2>1. StaysIn(gt, N, Nat)
    <3> HIDE DEF gt
    <3> QED BY <1>6, <1>7 DEF StaysIn
  <2> HIDE DEF gt
  <2> QED BY <2>1, <1>1, Iteration
<1>9. T = StepT(T)
  <2>1. PICK f \in [0 .. N -> Nat] : ComputedBy(f, gt, N, 0)  BY <1>8
  <2>2. \A n \in 1 .. N : f[n - 1] \in Nat  BY <2>1, <1>1
  <2>3. f[0] = 0 /\ \A n \in 1 .. N : f[n] = f[n - 1] + (s[n] - 48) * W[N - n]
    <3> HIDE DEF gt
    <3> QED BY <2>1, <2>2, <1>7 DEF ComputedBy
  <2>4. f = StepT(f)
    <3>1. f = [n \in 0 .. N |-> f[n]]  BY <2>1
    <3>2. \A n \in 0 .. N : n = 0 \/ n \in 1 .. N  BY <1>1
    <3> HIDE DEF gt
    <3> QED BY <2>3, <3>1, <3>2
  <2> HIDE DEF StepT
  <2> QED BY <2>4
<1>10. T[0] = 0 /\ \A n \in 1 .. N : T[n] = T[n - 1] + (s[n] - 48) * W[N - n]
  <2> HIDE DEF T
  <2>1. \A n \in 0 .. N : T[n] = IF n = 0 THEN 0 ELSE T[n - 1] + (s[n] - 48) * W[N - n]
    BY <1>9
  <2>2. 0 \in 0 .. N /\ \A n \in 1 .. N : n # 0 /\ n \in 0 .. N  BY <1>1
  <2> QED BY <2>1, <2>2, Zenon
<1> HIDE DEF T
<1>11. W \in [0 .. N -> Nat]  BY <1>4
<1>12. DigitByDigit(s, W, T)
  BY <1>2, <1>5, <1>10, <1>11 DEF DigitByDigit, N
<1> QED BY <1>12

(* The accumulator holds the number that was typed, modulo the word.       *)
LEMMA ValueRemainder ==
  ASSUME NEW s, Decimal(s)
  PROVE  /\ Value(s) \in Nat
         /\ Accumulated(s) = Value(s) % WordMod
<1> DEFINE N == Len(s)
<1>1. N \in Nat /\ \A i \in 1 .. N : s[i] - 48 \in Nat
  <2>1. N \in Nat  BY DEF Decimal
  <2>2. \A i \in 1 .. N : s[i] \in 48 .. 57  BY DEF Decimal, Digit
  <2> HIDE DEF N
  <2> QED BY <2>1, <2>2
<1>2. PICK w, t : DigitByDigit(s, w, t)
  BY ValueIs
<1>3. PICK f : /\ f[0] = 0 /\ Accumulated(s) = f[N]
               /\ \A n \in 1 .. N : f[n] = (f[n - 1] * 10 + (s[n] - 48)) % WordMod
  BY AccumulatedIs
<1>11. /\ w \in [0 .. N -> Nat]
       /\ w[0] = 1 /\ \A n \in 1 .. N : w[n] = 10 * w[n - 1]
       /\ t[0] = 0 /\ Value(s) = t[N]
       /\ \A n \in 1 .. N : t[n] = t[n - 1] + (s[n] - 48) * w[N - n]
  BY <1>2 DEF DigitByDigit
<1> HIDE DEF N
<1>4. WordMod \in Nat /\ WordMod > 0
  BY WordModAssumption
<1> DEFINE Holds(n, q) == t[n] = q * w[N - n] /\ f[n] = q % WordMod
           S == {n \in 0 .. N : \E q \in Nat : Holds(n, q)}
<1>5. 0 \in S
  <2>1. N - 0 = N /\ N \in 0 .. N /\ 0 \in 0 .. N  BY <1>1
  <2>2. 0 * w[N] = 0 /\ 0 % WordMod = 0  BY <2>1, <1>11, <1>4
  <2>3. Holds(0, 0)  BY <2>1, <2>2, <1>11, <1>3
  <2> QED BY <2>1, <2>3
<1>6. ASSUME NEW k \in 0 .. N - 1, k \in S  PROVE k + 1 \in S
  <2>1. PICK q \in Nat : Holds(k, q)  BY <1>6
  <2> DEFINE d == s[k + 1] - 48
             x == w[N - (k + 1)]
             r == 10 * q + d
  <2>2. /\ k + 1 \in 1 .. N /\ k + 1 \in 0 .. N /\ (k + 1) - 1 = k /\ k \in Nat
        /\ N - k \in 1 .. N /\ (N - k) - 1 = N - (k + 1) /\ N - (k + 1) \in 0 .. N
    BY <1>1
  <2>3. d \in Nat /\ x \in Nat  BY <2>2, <1>1, <1>11
  <2>4. w[N - k] = 10 * x  BY <2>2, <1>11
  <2>5. t[k + 1] = q * w[N - k] + d * x  BY <2>1, <2>2, <1>11
  <2>6. f[k + 1] = ((q % WordMod) * 10 + d) % WordMod  BY <2>1, <2>2, <1>3
  <2> HIDE DEF d, x
  <2>7. r \in Nat /\ t[k + 1] = r * x
    <3>1. r \in Nat /\ q * (10 * x) + d * x = (10 * q + d) * x  BY <2>3
    <3> QED BY <3>1, <2>4, <2>5
  <2>8. f[k + 1] = r % WordMod  BY <2>6, <2>3, <1>4, DigitRemainder
  <2>9. Holds(k + 1, r)  BY <2>7, <2>8 DEF x
  <2> HIDE DEF r, Holds
  <2> QED BY <2>2, <2>7, <2>9
<1>7. N \in S
  <2> HIDE DEF S
  <2>1. \A k \in 0 .. N : k \in S  BY <1>1, <1>5, <1>6, Induction
  <2> QED BY <2>1, <1>1
<1>8. PICK q \in Nat : Holds(N, q)  BY <1>7
<1>9. t[N] = q
  <2>1. N - N = 0  BY <1>1
  <2>2. q * 1 = q  OBVIOUS
  <2> QED BY <2>1, <2>2, <1>8, <1>11
<1> QED BY <1>11, <1>3, <1>8, <1>9

(* A part of a line. *)
LEMMA PartIs ==
  ASSUME NEW S, NEW s \in Seq(S), NEW m \in 1 .. Len(s) + 1, NEW n \in m - 1 .. Len(s)
  PROVE  /\ SubSeq(s, m, n) \in Seq(S)
         /\ Len(SubSeq(s, m, n)) = n - m + 1
         /\ \A i \in 1 .. n - m + 1 : SubSeq(s, m, n)[i] = s[m + i - 1]
         /\ \A j \in m .. n : j - m + 1 \in 1 .. n - m + 1
                              /\ SubSeq(s, m, n)[j - m + 1] = s[j]
<1> DEFINE L == Len(s)
<1>1. L \in Nat /\ \A i \in 1 .. L : s[i] \in S  BY ElementOfSeq
<1>2. m \in Int /\ n \in Int /\ m >= 1 /\ n <= L /\ m <= n + 1  BY <1>1
<1>3. \A i \in m .. n : s[i] \in S
  <2> HIDE DEF L
  <2> QED BY <1>1, <1>2
<1>4. /\ SubSeq(s, m, n) \in Seq(S)
      /\ Len(SubSeq(s, m, n)) = IF m <= n THEN n - m + 1 ELSE 0
      /\ \A i \in 1 .. n - m + 1 : SubSeq(s, m, n)[i] = s[m + i - 1]
  BY <1>2, <1>3, SubSeqProperties
<1>5. (IF m <= n THEN n - m + 1 ELSE 0) = n - m + 1
  BY <1>2
<1>6. Len(SubSeq(s, m, n)) = n - m + 1
  BY <1>4, <1>5, Zenon
<1>7. ASSUME NEW j \in m .. n
      PROVE  j - m + 1 \in 1 .. n - m + 1 /\ SubSeq(s, m, n)[j - m + 1] = s[j]
  <2>1. j - m + 1 \in 1 .. n - m + 1 /\ m + (j - m + 1) - 1 = j  BY <1>2
  <2> DEFINE i == j - m + 1
  <2>2. i \in 1 .. n - m + 1 /\ m + i - 1 = j  BY <2>1
  <2> HIDE DEF i
  <2>3. SubSeq(s, m, n)[i] = s[j]  BY <2>2, <1>4, Zenon
  <2> QED BY <2>1, <2>3 DEF i
<1> QED BY <1>4, <1>6, <1>7

(* A part of a line is blank when it holds nothing but blanks. *)
LEMMA BlankIs ==
  ASSUME NEW S, NEW s \in Seq(S), NEW m \in 1 .. Len(s) + 1, NEW n \in m - 1 .. Len(s)
  PROVE  Blank(SubSeq(s, m, n)) <=> \A j \in m .. n : s[j] = SP
<1> DEFINE p == SubSeq(s, m, n)
           L == Len(s)
<1>1. /\ Len(p) = n - m + 1
      /\ \A i \in 1 .. n - m + 1 : p[i] = s[m + i - 1]
      /\ \A j \in m .. n : j - m + 1 \in 1 .. n - m + 1 /\ p[j - m + 1] = s[j]
  BY PartIs
<1>2. L \in Nat /\ m \in 1 .. L + 1 /\ n \in m - 1 .. L  OBVIOUS
<1> HIDE DEF p, L
<1>3. \A i \in 1 .. n - m + 1 : m + i - 1 \in m .. n  BY <1>2
<1>4. Blank(p) <=> \A i \in 1 .. n - m + 1 : p[i] = SP
  BY <1>1 DEF Blank
<1> QED BY <1>1, <1>3, <1>4, Zenon DEF p

(* Where the parser finds the first word, and the argument behind it. *)
Kw == SkipBlanks(input, 1)
End == WordEnd(input, Kw)
Arg == SkipBlanks(input, End)
FirstWord(k) == SubSeq(input, Kw, End - 1) = Keyword[k]

(* The three scans.                                                        *)
LEMMA ScansAre ==
  ASSUME input \in Seq(Nat)
  PROVE  /\ Len(input) \in Nat
         /\ BlanksEnd(input, 1, Kw) /\ Kw \in 1 .. Len(input) + 1
         /\ WordEnds(input, Kw, End) /\ End \in Kw .. Len(input) + 1
         /\ BlanksEnd(input, End, Arg) /\ Arg \in End .. Len(input) + 1
<1> DEFINE N == Len(input)
<1>1. N \in Nat /\ 1 \in 1 .. N + 1  OBVIOUS
<1>2. BlanksEnd(input, 1, Kw)  BY <1>1, SkipBlanksIs DEF Kw
<1>3. Kw \in 1 .. N + 1  BY <1>2 DEF BlanksEnd
<1>4. WordEnds(input, Kw, End)  BY <1>1, <1>3, WordEndIs DEF End
<1>5. End \in Kw .. N + 1  BY <1>4 DEF WordEnds
<1>6. End \in 1 .. N + 1
  <2> HIDE DEF N
  <2> QED BY <1>1, <1>3, <1>5
<1>7. BlanksEnd(input, End, Arg)  BY <1>1, <1>6, SkipBlanksIs DEF Arg
<1>8. Arg \in End .. N + 1  BY <1>7 DEF BlanksEnd
<1> QED BY <1>1, <1>2, <1>3, <1>4, <1>5, <1>7, <1>8

(* Every way to read the line begins at the first word, whatever it takes  *)
(* for the argument.                                                       *)
LEMMA ReadingIs ==
  ASSUME input \in Seq(Nat), NEW k \in DOMAIN Keyword, NEW r \in Reading(k)
  PROVE  /\ Kw <= Len(input) /\ FirstWord(k)
         /\ r.arg \in End .. Len(input) + 1
         /\ \A j \in End .. r.arg - 1 : input[j] = SP
<1> DEFINE N == Len(input)
           K == Keyword[k]
           n == Len(K)
           p == r.lead
           a == r.arg
           b == p + 1
           e == p + n
<1>1. N \in Nat /\ K \in Seq(Nat \ {SP}) /\ n \in Nat /\ n >= 1
      /\ \A i \in 1 .. n : K[i] # SP
  <2>1. N \in Nat  OBVIOUS
  <2>2. K \in Seq(Nat \ {SP}) /\ K # << >>  BY KeywordAssumption, Zenon
  <2> HIDE DEF K
  <2>3. \A i \in 1 .. n : K[i] \in Nat \ {SP}  BY <2>2, ElementOfSeq
  <2>4. n \in Nat /\ n >= 1  BY <2>2
  <2> QED BY <2>1, <2>2, <2>3, <2>4
<1>2. /\ p \in 0 .. N /\ a \in 1 .. N + 1
      /\ e < a
      /\ Blank(SubSeq(input, 1, p))
      /\ SubSeq(input, b, e) = K
      /\ Blank(SubSeq(input, e + 1, a - 1))
      /\ e < N => input[e + 1] = SP
  BY DEF Reading
<1> HIDE DEF N, K, n, p, a
<1>3. /\ p \in Nat /\ b \in 1 .. N /\ e \in b .. N /\ e \in Nat /\ b <= N
      /\ a \in e + 1 .. N + 1 /\ e - b + 1 = n
      /\ p \in 1 - 1 .. N /\ e \in b - 1 .. N /\ 1 \in 1 .. N + 1
      /\ e + 1 \in 1 .. N + 1 /\ a - 1 \in (e + 1) - 1 .. N /\ b \in 1 .. N + 1
  <2>1. p \in 0 .. N /\ a \in 1 .. N + 1 /\ p + n < a  BY <1>2 
  <2>2. p \in Nat /\ p + 1 <= p + n /\ p + n <= N  BY <2>1, <1>1
  <2> QED BY <2>1, <2>2, <1>1
<1>4. \A j \in 1 .. p : input[j] = SP
  BY <1>2, <1>3, BlankIs DEF N
<1>5. \A j \in e + 1 .. a - 1 : input[j] = SP
  BY <1>2, <1>3, BlankIs DEF N
<1>6. \A j \in b .. e : j - b + 1 \in 1 .. n /\ K[j - b + 1] = input[j]
  <2>1. \A j \in b .. e : /\ j - b + 1 \in 1 .. e - b + 1
                          /\ SubSeq(input, b, e)[j - b + 1] = input[j]
    <3> HIDE DEF b, e
    <3> QED BY <1>3, PartIs DEF N
  <2> HIDE DEF b, e
  <2> QED BY <2>1, <1>2, <1>3
<1>7. \A j \in b .. e : input[j] # SP
  <2> HIDE DEF b, e
  <2> QED BY <1>1, <1>6
<1>8. Kw = b
  <2>1. b \in 1 .. N + 1 /\ input[b] # SP /\ \A j \in 1 .. b - 1 : input[j] = SP
    <3>1. b - 1 = p /\ b \in b .. e  BY <1>3
    <3> HIDE DEF b, e
    <3> QED BY <3>1, <1>3, <1>4, <1>7
  <2>2. BlanksEnd(input, 1, b)
    <3> HIDE DEF b
    <3> QED BY <2>1 DEF BlanksEnd, N
  <2> QED BY <2>2, <1>1, <1>3, SkipBlanksIs DEF Kw, N
<1>9. End = e + 1
  <2>1. /\ e + 1 \in b .. N + 1 /\ (e + 1 <= N => input[e + 1] = SP)
        /\ \A j \in b .. (e + 1) - 1 : input[j] # SP
    <3>1. (e + 1) - 1 = e  BY <1>3
    <3> HIDE DEF b, e
    <3>2. e + 1 \in b .. N + 1 /\ (e + 1 <= N => e < N)  BY <1>1, <1>3
    <3> QED BY <3>1, <3>2, <1>2, <1>7
  <2> DEFINE x == e + 1
  <2>2. WordEnds(input, b, x)
    <3> HIDE DEF b, e
    <3> QED BY <2>1 DEF WordEnds, N
  <2> HIDE DEF b, x
  <2>3. WordEnd(input, b) = x  BY <2>2, <1>1, <1>3, WordEndIs DEF N
  <2> QED BY <2>3, <1>8 DEF End, x
<1>10. FirstWord(k)
  <2>1. End - 1 = e  BY <1>9, <1>3
  <2> QED BY <2>1, <1>2, <1>8 DEF FirstWord, K
<1> QED BY <1>2, <1>3, <1>5, <1>8, <1>9, <1>10 DEF N, a

(* And the first word read with any start of an argument behind it, blanks *)
(* in between, is a way to read the line.                                  *)
LEMMA WordReads ==
  ASSUME input \in Seq(Nat), NEW k \in DOMAIN Keyword, Kw <= Len(input), FirstWord(k),
         NEW a \in End .. Len(input) + 1, \A j \in End .. a - 1 : input[j] = SP
  PROVE  [lead |-> Kw - 1, arg |-> a] \in Reading(k)
<1> DEFINE N == Len(input)
           K == Keyword[k]
           r == [lead |-> Kw - 1, arg |-> a]
           e == End - 1
<1>1. /\ N \in Nat /\ Kw \in 1 .. N /\ End \in Kw .. N + 1 /\ a \in End .. N + 1
      /\ BlanksEnd(input, 1, Kw) /\ WordEnds(input, Kw, End)
  BY ScansAre
<1>2. SubSeq(input, Kw, e) = K  BY DEF FirstWord
<1> HIDE DEF N, K
<1>3. /\ e \in Kw - 1 .. N /\ a - 1 \in (e + 1) - 1 .. N /\ e + 1 \in 1 .. N + 1
      /\ Kw - 1 \in 1 - 1 .. N /\ 1 \in 1 .. N + 1 /\ e + 1 = End /\ Kw \in 1 .. N + 1
  BY <1>1
<1>4. Len(K) = e - Kw + 1
  <2> HIDE DEF e
  <2>1. Len(SubSeq(input, Kw, e)) = e - Kw + 1  BY <1>3, PartIs DEF N
  <2> QED BY <2>1, <1>2
<1>5. Blank(SubSeq(input, 1, Kw - 1))
  <2>1. \A j \in 1 .. Kw - 1 : input[j] = SP  BY <1>1 DEF BlanksEnd
  <2> QED BY <2>1, <1>3, BlankIs DEF N
<1>6. Blank(SubSeq(input, e + 1, a - 1))
  <2>1. \A j \in e + 1 .. a - 1 : input[j] = SP  BY <1>3
  <2> HIDE DEF e
  <2> QED BY <2>1, <1>3, BlankIs DEF N
<1>7. e < N => input[e + 1] = SP
  <2>1. End <= N => input[End] = SP  BY <1>1 DEF WordEnds, N
  <2> QED BY <2>1, <1>1, <1>3
<1>8. /\ r.lead = Kw - 1 /\ r.arg = a /\ r.lead + Len(K) = e /\ r.lead + 1 = Kw
      /\ e < a /\ r \in [lead : 0 .. N, arg : 1 .. N + 1]
  <2>1. Kw - 1 \in 0 .. N /\ a \in 1 .. N + 1 /\ (Kw - 1) + (e - Kw + 1) = e
        /\ (Kw - 1) + 1 = Kw /\ e < a
    BY <1>1
  <2> HIDE DEF e
  <2> QED BY <2>1, <1>4
<1> HIDE DEF r, e
<1>9. r \in Reading(k)
  <2>1. Blank(SubSeq(input, 1, r.lead))  BY <1>5, <1>8
  <2>2. SubSeq(input, r.lead + 1, r.lead + Len(K)) = K  BY <1>2, <1>8
  <2>3. Blank(SubSeq(input, r.lead + Len(K) + 1, r.arg - 1))  BY <1>6, <1>8
  <2> QED BY <2>1, <2>2, <2>3, <1>7, <1>8 DEF Reading, N, K
<1> QED BY <1>9 DEF r

(* The line has a reading with a keyword when its first word is that one.  *)
LEMMA ReadableIs ==
  ASSUME input \in Seq(Nat), NEW k \in DOMAIN Keyword
  PROVE  /\ Reading(k) # {} <=> FirstWord(k)
         /\ FirstWord(k) => Kw <= Len(input)
         /\ \A j \in DOMAIN Keyword : FirstWord(j) /\ FirstWord(k) => j = k
<1> DEFINE N == Len(input)
<1>1. /\ N \in Nat /\ Kw \in 1 .. N + 1 /\ End \in Kw .. N + 1 /\ Arg \in End .. N + 1
      /\ BlanksEnd(input, End, Arg)
  BY ScansAre
<1>2. ASSUME FirstWord(k)  PROVE Kw <= N
  <2> SUFFICES ASSUME ~(Kw <= N)  PROVE FALSE  OBVIOUS
  <2> DEFINE e == End - 1
  <2>1. e \in Kw - 1 .. N /\ e - Kw + 1 = 0
    <3> HIDE DEF N
    <3> QED BY <1>1
  <2> HIDE DEF e
  <2>2. Len(SubSeq(input, Kw, e)) = 0  BY <1>1, <2>1, PartIs
  <2>3. Keyword[k] \in Seq(Nat \ {SP}) /\ Keyword[k] # << >>
    BY KeywordAssumption, Zenon
  <2>4. SubSeq(input, Kw, e) = Keyword[k]  BY <1>2 DEF FirstWord, e
  <2>5. Len(Keyword[k]) = 0  BY <2>2, <2>4
  <2> DEFINE K == Keyword[k]
  <2> HIDE DEF K
  <2>6. K \in Seq(Nat \ {SP}) /\ K # << >> /\ Len(K) = 0  BY <2>3, <2>5 DEF K
  <2> QED BY <2>6
<1>3. ASSUME FirstWord(k)  PROVE Reading(k) # {}
  <2>1. Arg \in End .. N + 1 /\ \A j \in End .. Arg - 1 : input[j] = SP
    BY <1>1 DEF BlanksEnd
  <2>2. [lead |-> Kw - 1, arg |-> Arg] \in Reading(k)
    BY <1>2, <1>3, <2>1, WordReads
  <2> QED BY <2>2
<1>4. ASSUME Reading(k) # {}  PROVE FirstWord(k)
  BY <1>4, ReadingIs
<1>5. ASSUME NEW j \in DOMAIN Keyword, FirstWord(j), FirstWord(k)  PROVE j = k
  <2>1. Keyword[j] = Keyword[k]  BY <1>5 DEF FirstWord
  <2> QED BY <2>1, KeywordAssumption, Zenon
<1> QED BY <1>2, <1>3, <1>4, <1>5

Argument == SubSeq(input, Arg, Len(input))

(* A reading with a numeral for its argument has the argument the parser   *)
(* finds.                                                                  *)
LEMMA NumeralReading ==
  ASSUME input \in Seq(Nat), NEW r \in Reading("rate"),
         IsUint(SubSeq(input, r.arg, Len(input)))
  PROVE  r.arg = Arg
<1> DEFINE N == Len(input)
           a == r.arg
<1>1. /\ N \in Nat /\ End \in 1 .. N + 1
      /\ a \in End .. N + 1 /\ \A j \in End .. a - 1 : input[j] = SP
  <2>1. "rate" \in DOMAIN Keyword  BY KeywordAssumption
  <2>2. a \in End .. N + 1 /\ \A j \in End .. a - 1 : input[j] = SP
    BY <2>1, ReadingIs
  <2>3. N \in Nat /\ Kw \in 1 .. N + 1 /\ End \in Kw .. N + 1  BY ScansAre
  <2> HIDE DEF N, a
  <2> QED BY <2>2, <2>3
<1>2. IsUint(SubSeq(input, a, N))  OBVIOUS
<1> HIDE DEF a
<1>3. a \in 1 .. N + 1 /\ N \in a - 1 .. N
  <2> HIDE DEF N
  <2> QED BY <1>1
<1>4. /\ Len(SubSeq(input, a, N)) = N - a + 1
      /\ SubSeq(input, a, N) \in Seq(Nat)
      /\ \A i \in 1 .. N - a + 1 : SubSeq(input, a, N)[i] = input[a + i - 1]
  <2>1. a \in 1 .. Len(input) + 1 /\ N \in a - 1 .. Len(input)  BY <1>3
  <2> QED BY <2>1, PartIs
<1> DEFINE p == SubSeq(input, a, N)
<1>5. a <= N /\ input[a] # SP
  <2> HIDE DEF p
  <2>1. p \in Seq(Nat) /\ p # << >> /\ \A i \in 1 .. Len(p) : p[i] \in Digit
    BY <1>2, <1>4 DEF IsUint, p
  <2>2. Len(p) >= 1  BY <2>1
  <2>3. 1 \in 1 .. N - a + 1 /\ a + 1 - 1 = a /\ a <= N
    <3>1. Len(p) = N - a + 1  BY <1>4 DEF p
    <3> HIDE DEF N
    <3> QED BY <2>2, <3>1, <1>1, <1>3
  <2>4. p[1] = input[a]  BY <2>3, <1>4 DEF p
  <2>5. p[1] \in Digit  BY <2>1, <2>2
  <2>6. SP \notin Digit  BY DEF SP, Digit
  <2> QED BY <2>3, <2>4, <2>5, <2>6
<1>6. BlanksEnd(input, End, a)
  BY <1>1, <1>5 DEF BlanksEnd
<1>7. SkipBlanks(input, End) = a
  BY <1>1, <1>6, SkipBlanksIs
<1> QED BY <1>7 DEF Arg, a

(* What handle_line() makes of a line.                                     *)
LEMMA HandleLineIs ==
  ASSUME input \in Seq(Nat)
  PROVE  LET got == HandleLine(input)
         IN  /\ got.id = "START" <=> FirstWord("start")
             /\ got.id = "STOP" <=> FirstWord("stop")
             /\ got.id = "STATUS" <=> FirstWord("status")
             /\ got.id = "RATE" <=> FirstWord("rate") /\ IsUint(Argument)
             /\ got.id = "RATE" => got.arg = AsSigned(Accumulated(Argument))
<1> DEFINE got == HandleLine(input)
           R == FirstWord("rate") /\ IsUint(Argument)
           rate == [id |-> "RATE", arg |-> AsSigned(Accumulated(Argument))]
<1>1. DOMAIN Keyword = {"rate", "start", "stop", "status"}
  BY KeywordAssumption
<1>2. \A k \in DOMAIN Keyword : FirstWord(k) => ~(Kw > Len(input))
  <2> TAKE k \in DOMAIN Keyword
  <2> HAVE FirstWord(k)
  <2>1. Kw <= Len(input)  BY ReadableIs
  <2>2. Len(input) \in Nat /\ Kw \in 1 .. Len(input) + 1  BY ScansAre
  <2> QED BY <2>1, <2>2
<1>3. \A j, k \in DOMAIN Keyword : FirstWord(j) /\ FirstWord(k) => j = k
  BY ReadableIs
<1>4. got = CASE Kw > Len(input)  -> NoCommand
              [] R               -> rate
              [] FirstWord("start")   -> Command("START")
              [] FirstWord("stop")    -> Command("STOP")
              [] FirstWord("status")  -> Command("STATUS")
              [] OTHER           -> NoCommand
  BY DEF HandleLine, Kw, End, Arg, Argument, FirstWord
<1> DEFINE P == Kw > Len(input)
<1> HIDE DEF got, R, rate, P
<1>5. CASE R
  <2>1. FirstWord("rate")  BY <1>5 DEF R
  <2>2. /\ ~P /\ ~FirstWord("start") /\ ~FirstWord("stop") /\ ~FirstWord("status")
    BY <2>1, <1>1, <1>2, <1>3 DEF P
  <2>3. got = rate  BY <1>4, <1>5, <2>2, Zenon DEF P
  <2> QED BY <1>5, <2>2, <2>3 DEF got, R, rate
<1>6. CASE ~R /\ FirstWord("start")
  <2>1. ~P /\ ~FirstWord("stop") /\ ~FirstWord("status")  BY <1>6, <1>1, <1>2, <1>3 DEF P
  <2>2. got = Command("START")  BY <1>4, <1>6, <2>1, Zenon DEF P
  <2> QED BY <1>6, <2>1, <2>2 DEF got, R, Command
<1>7. CASE ~R /\ FirstWord("stop")
  <2>1. ~P /\ ~FirstWord("start") /\ ~FirstWord("status")  BY <1>7, <1>1, <1>2, <1>3 DEF P
  <2>2. got = Command("STOP")  BY <1>4, <1>7, <2>1, Zenon DEF P
  <2> QED BY <1>7, <2>1, <2>2 DEF got, R, Command
<1>8. CASE ~R /\ FirstWord("status")
  <2>1. ~P /\ ~FirstWord("start") /\ ~FirstWord("stop")  BY <1>8, <1>1, <1>2, <1>3 DEF P
  <2>2. got = Command("STATUS")  BY <1>4, <1>8, <2>1, Zenon DEF P
  <2> QED BY <1>8, <2>1, <2>2 DEF got, R, Command
<1>9. CASE ~R /\ ~FirstWord("start") /\ ~FirstWord("stop") /\ ~FirstWord("status")
  <2>1. got = NoCommand
    <3>1. CASE P   BY <1>4, <1>9, <3>1, Zenon DEF P
    <3>2. CASE ~P  BY <1>4, <1>9, <3>2, Zenon DEF P
    <3> QED BY <3>1, <3>2
  <2> QED BY <1>9, <2>1 DEF got, R, NoCommand
<1> QED BY <1>5, <1>6, <1>7, <1>8, <1>9

(* A numeral is what parse_uint() takes for a number. *)
LEMMA NumeralIs == \A s : Numeral(s) <=> IsUint(s)
BY DEF Numeral, IsUint

(* handle_line() accepts exactly the lines of the command language, and    *)
(* reports the number behind "rate" whenever an int32_t can hold it,       *)
(* whatever line it is given (uart_cmd.c:53-120).                          *)
THEOREM ParserAcceptsTheLanguage ==
  ASSUME input \in Seq(Nat)
  PROVE  AcceptsTheLanguage
<1> DEFINE got == HandleLine(input)
           N == Len(input)
           Part(r) == SubSeq(input, r.arg, N)
<1>1. {"rate", "start", "stop", "status"} = DOMAIN Keyword
  BY KeywordAssumption
<1>2. /\ got.id = "START" <=> Reading("start") # {}
      /\ got.id = "STOP" <=> Reading("stop") # {}
      /\ got.id = "STATUS" <=> Reading("status") # {}
  <2>1. /\ got.id = "START" <=> FirstWord("start")
        /\ got.id = "STOP" <=> FirstWord("stop")
        /\ got.id = "STATUS" <=> FirstWord("status")
    BY HandleLineIs
  <2>2. \A k \in DOMAIN Keyword : Reading(k) # {} <=> FirstWord(k)
    BY ReadableIs
  <2> HIDE DEF got
  <2> QED BY <1>1, <2>1, <2>2
<1>3. /\ got.id = "RATE" <=> FirstWord("rate") /\ IsUint(Argument)
      /\ got.id = "RATE" => got.arg = AsSigned(Accumulated(Argument))
  BY HandleLineIs
<1> HIDE DEF got
<1>4. ASSUME NEW r \in Reading("rate"), Numeral(Part(r))
      PROVE  /\ got.id = "RATE" /\ Part(r) = Argument /\ IsUint(Argument)
  <2>1. IsUint(Part(r))  BY <1>4, NumeralIs
  <2>2. r.arg = Arg  BY <2>1, NumeralReading
  <2>3. Part(r) = Argument  BY <2>2 DEF Argument
  <2>4. FirstWord("rate")  BY <1>1, ReadableIs
  <2> QED BY <2>1, <2>3, <2>4, <1>3
<1>5. ASSUME got.id = "RATE"
      PROVE  \E r \in Reading("rate") : Numeral(Part(r))
  <2> DEFINE r == [lead |-> Kw - 1, arg |-> Arg]
  <2>1. FirstWord("rate") /\ IsUint(Argument)  BY <1>3, <1>5
  <2>2. Kw <= Len(input)  BY <2>1, <1>1, ReadableIs
  <2>3. Arg \in End .. N + 1 /\ \A j \in End .. Arg - 1 : input[j] = SP
    BY ScansAre DEF BlanksEnd
  <2>4. r \in Reading("rate")  BY <1>1, <2>1, <2>2, <2>3, WordReads
  <2>5. Part(r) = Argument  BY DEF Argument
  <2>6. Numeral(Part(r))  BY <2>1, <2>5, NumeralIs
  <2> HIDE DEF r
  <2> QED BY <2>4, <2>6
<1>6. ASSUME NEW r \in Reading("rate"), Numeral(Part(r)),
             Value(Part(r)) < WordMod \div 2
      PROVE  got.arg = Value(Part(r))
  <2>1. got.id = "RATE" /\ Part(r) = Argument /\ IsUint(Argument)  BY <1>4, <1>6
  <2>2. Decimal(Argument)
    <3>1. N \in Nat /\ Kw \in 1 .. N + 1 /\ End \in Kw .. N + 1 /\ Arg \in End .. N + 1
      BY ScansAre
    <3>2. Arg \in 1 .. N + 1 /\ N \in Arg - 1 .. N
      <4> HIDE DEF N
      <4> QED BY <3>1
    <3>3. Argument \in Seq(Nat)  BY <3>2, PartIs DEF Argument
    <3> QED BY <3>3, <2>1 DEF Decimal, IsUint
  <2> DEFINE v == Value(Argument)
             h == WordMod \div 2
  <2>3. v \in Nat /\ Accumulated(Argument) = v % WordMod  BY <2>2, ValueRemainder
  <2>4. v < h  BY <1>6, <2>1
  <2>5. WordMod \in Nat /\ h \in Nat /\ h <= WordMod /\ WordMod > 0  BY WordModAssumption
  <2> HIDE DEF v
  <2>6. v % WordMod = v  BY <2>3, <2>4, <2>5
  <2>7. AsSigned(v) = v  BY <2>4 DEF AsSigned
  <2>8. got.arg = v  BY <1>3, <2>1, <2>3, <2>6, <2>7
  <2> QED BY <2>1, <2>8 DEF v
<1>7. got.id = "RATE" <=> TRUE \in {Numeral(Part(r)) : r \in Reading("rate")}
  <2>1. ASSUME TRUE \in {Numeral(Part(r)) : r \in Reading("rate")}
        PROVE  got.id = "RATE"
    <3>1. \E r \in Reading("rate") : TRUE = Numeral(Part(r))  BY <2>1
    <3> QED BY <3>1, <1>4
  <2>2. ASSUME got.id = "RATE"
        PROVE  TRUE \in {Numeral(Part(r)) : r \in Reading("rate")}
    <3>1. \A s : Numeral(s) \in BOOLEAN  BY DEF Numeral
    <3>2. \E r \in Reading("rate") : TRUE = Numeral(Part(r))
      BY <1>5, <2>2, <3>1
    <3> QED BY <3>2
  <2> QED BY <2>1, <2>2
<1> QED BY <1>2, <1>6, <1>7 DEF got, AcceptsTheLanguage

(* Whatever was typed and rubbed out, the parser would read the line as    *)
(* the command language says: a command exactly for the lines of the       *)
(* language, and the number that was typed (uart_cmd.c:53-120).            *)
THEOREM CommandsAreTheLanguage == Spec /\ [](input = line) => []AcceptsTheLanguage
<1>1. TypeOK /\ input = line => AcceptsTheLanguage
  <2> SUFFICES ASSUME TypeOK, input = line  PROVE AcceptsTheLanguage
    OBVIOUS
  <2>1. line \in Seq(Printable) /\ Printable \subseteq Nat  BY DEF TypeOK, Printable
  <2>2. Len(line) \in Nat /\ line \in [1 .. Len(line) -> Printable]
    BY <2>1, LenProperties
  <2>3. line \in [1 .. Len(line) -> Nat]  BY <2>1, <2>2
  <2>4. line \in Seq(Nat)  BY <2>2, <2>3, SeqDef
  <2> QED BY <2>4, ParserAcceptsTheLanguage
<1> QED BY <1>1, TypeCorrect, PTL
=============================================================================

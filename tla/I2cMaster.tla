----------------------------- MODULE I2cMaster -----------------------------
(***************************************************************************)
(* Src/i2c.c against the I2C peripheral: the flags of SR1, the two-deep    *)
(* pipeline of data and shift register, and the bits START, STOP, ACK and  *)
(* POS whose meaning depends on what is on the wire when they are written. *)
(*                                                                         *)
(* The driver polls faster than the bus moves, so the bus makes a step     *)
(* while the driver is blocked on a flag; an interrupt may hold it up for  *)
(* longer than a byte MaxLate times.  A device refuses a byte, or the bus  *)
(* is stuck for longer than a poll lasts, MaxFaults times.                 *)
(***************************************************************************)
EXTENDS Integers, Sequences

CONSTANTS MaxFaults, MaxLate

ASSUME I2cAssumption == MaxFaults \in Nat /\ MaxLate \in Nat

VARIABLES
  cr,      \* CR1: start, stop, ack, pos
  sr,      \* SR1: sb, addr, af, txe, btf, rxne
  dr, sh,  \* data and shift register, Empty or a byte
  bus,     \* "free", "started", "addressed", "tx", "rx" or "ended"
  dir,     \* direction of the address byte: "W" or "R"
  lat,     \* the acknowledge that POS has put off to the next byte
  ptr, first,   \* the device: its register pointer; the next byte sets it
  sent,    \* history: what the device has sent in this read
  nacked,  \* history: it was told to stop sending
  stuck,   \* SCL is held low by something
  call,    \* the transfer
  pc, buf, rc,
  hurt,    \* history: a fault has hit this transfer or is still flagged
  faults, late

hwVars == << cr, sr, dr, sh, bus, dir, lat, ptr, first, sent,
            nacked >>
i2cVars == << cr, sr, dr, sh, bus, dir, lat, ptr, first, sent, nacked,
              stuck, call, pc, buf, rc, hurt, faults, late >>

Empty == -1
NoCall == [op |-> "none", reg |-> 0, len |-> 0, data |-> 0]

I2cInit ==
  /\ cr = [start |-> FALSE, stop |-> FALSE, ack |-> FALSE, pos |-> FALSE]
  /\ sr = [sb |-> FALSE, addr |-> FALSE, af |-> FALSE, txe |-> FALSE,
           btf |-> FALSE, rxne |-> FALSE]
  /\ dr = Empty /\ sh = Empty /\ bus = "free" /\ dir = "W" /\ lat = FALSE
  /\ ptr = 0 /\ first = TRUE /\ sent = << >> /\ nacked = FALSE
  /\ stuck = FALSE
  /\ call = NoCall /\ pc = "idle" /\ buf = << >> /\ rc = 0
  /\ hurt = FALSE /\ faults = 0 /\ late = 0

-----------------------------------------------------------------------------
(* i2c_write_register() and i2c_read_registers(): the caller's side.       *)
(* What a transfer that failed may leave to the next one.                  *)
Traces == sr.af \/ cr.start \/ cr.stop \/ bus # "free"

Transfer(op, reg, len, data) ==
  /\ call' = [op |-> op, reg |-> reg, len |-> len, data |-> data]
  /\ pc' = "free" /\ buf' = << >> /\ hurt' = (stuck \/ (hurt /\ Traces))
  /\ UNCHANGED hwVars /\ UNCHANGED << stuck, rc, faults, late >>

i2c_write_register(reg, data) == Transfer("write", reg, 0, data)
i2c_read_registers(reg, len) == Transfer("read", reg, len, 0)

(* What the driver waits for at each point.                                *)
Flag ==
  CASE pc = "free" -> bus = "free"
    [] pc \in {"sbW", "sbR"} -> sr.sb
    [] pc \in {"addrW", "addrR"} -> sr.addr
    [] pc \in {"reg", "data"} -> sr.txe
    [] pc \in {"n1", "stream", "last"} -> sr.rxne
    [] pc \in {"n2", "three", "two"} -> sr.btf
    [] pc = "stop" -> ~cr.stop
    [] OTHER -> TRUE
NoticesAf == pc \notin {"free", "stop"}
Blocked == pc = "idle" \/ (~Flag /\ ~(NoticesAf /\ sr.af))

(* The bus has a step to make.                                             *)
Drained == sh = Empty /\ dr = Empty
BusMoves ==
  \/ cr.stop
  \/ cr.start /\ (bus \in {"free", "ended"} \/ (bus = "tx" /\ Drained))
  \/ bus = "started" /\ ~sr.sb
  \/ bus = "tx" /\ sh # Empty
  \/ bus = "rx" /\ sh = Empty

Return(code) == pc' = "idle" /\ rc' = code
Env == UNCHANGED << stuck, call, hurt, faults, late >>
Goto(p) == pc' = p /\ UNCHANGED rc
SameBus == UNCHANGED << bus, lat, ptr, first, sent, nacked >>

(* mutant: a wait that only ends on its flag or on AF *)
GiveUpOnAf ==
  /\ NoticesAf /\ ~Flag /\ sr.af
  /\ cr' = [cr EXCEPT !.stop = TRUE] /\ sr' = [sr EXCEPT !.af = FALSE]
  /\ Return(-1)
  /\ UNCHANGED << dr, sh, dir, buf >> /\ SameBus /\ Env

(* i2c_wait_flag() gives up, on AF or after 10000 looks at the flag, and   *)
(* asks for a STOP.  The waits for a free bus and for the end of a STOP    *)
(* only give up.                                                           *)
GiveUp ==
  /\ pc # "idle" /\ ~Flag
  /\ ((NoticesAf /\ sr.af) \/ stuck \/ ~BusMoves)
  /\ IF NoticesAf
     THEN cr' = [cr EXCEPT !.stop = TRUE] /\ sr' = [sr EXCEPT !.af = FALSE]
     ELSE UNCHANGED << cr, sr >>
  /\ Return(-1)
  /\ UNCHANGED << dr, sh, dir, buf >> /\ SameBus /\ Env

(* Writing DR clears RXNE; a byte goes on to an empty shift register.      *)
WriteDR(v) ==
  /\ IF bus = "tx" /\ sh = Empty
     THEN sh' = v /\ dr' = Empty /\ sr' = [sr EXCEPT !.btf = FALSE, !.rxne = FALSE]
     ELSE /\ dr' = v /\ UNCHANGED sh
          /\ sr' = [sr EXCEPT !.sb = FALSE, !.txe = FALSE, !.btf = FALSE,
                              !.rxne = FALSE]
(* Reading DR moves the byte behind it up and lets the bus go on.          *)
ReadDR ==
  /\ buf' = Append(buf, dr) /\ dr' = sh /\ sh' = Empty
  /\ sr' = [sr EXCEPT !.rxne = sh # Empty, !.btf = FALSE]

At(p) == pc = p /\ Flag

BusFree ==
  /\ At("free")
  /\ cr' = [cr EXCEPT !.start = TRUE, !.pos = (call.op = "write" /\ @)]
  /\ Goto("sbW")
  /\ UNCHANGED << sr, dr, sh, dir, buf >> /\ SameBus /\ Env

Started ==
  /\ At("sbW") /\ WriteDR(0) /\ dir' = "W" /\ Goto("addrW")
  /\ UNCHANGED << cr, buf >> /\ SameBus /\ Env

(* Clearing ADDR lets the bus go on.                                       *)
ClearAddr ==
  /\ sr' = [sr EXCEPT !.addr = FALSE, !.txe = dir = "W"]
  /\ bus' = IF dir = "W" THEN "tx" ELSE "rx"
  /\ lat' = cr.ack
  /\ UNCHANGED << dr, sh, dir, ptr, first, sent, nacked >>

AddressedW ==
  /\ At("addrW") /\ ClearAddr /\ Goto("writereg")
  /\ UNCHANGED << cr, buf >> /\ Env

WriteReg ==
  /\ At("writereg") /\ WriteDR(call.reg) /\ Goto("reg")
  /\ UNCHANGED << cr, dir, buf >> /\ SameBus /\ Env

RegWritten ==
  /\ At("reg")
  /\ IF call.op = "write"
     THEN WriteDR(call.data) /\ Goto("data") /\ UNCHANGED cr
     ELSE cr' = [cr EXCEPT !.start = TRUE] /\ Goto("sbR") /\ UNCHANGED << dr, sh, sr >>
  /\ UNCHANGED << dir, buf >> /\ SameBus /\ Env

(* STOP is asked for at TXE, while the last byte is still going out.       *)
DataWritten ==
  /\ At("data") /\ cr' = [cr EXCEPT !.stop = TRUE] /\ Goto("stop")
  /\ UNCHANGED << sr, dr, sh, dir, buf >> /\ SameBus /\ Env

Restarted ==
  /\ At("sbR") /\ WriteDR(0) /\ dir' = "R" /\ Goto("addrR")
  /\ cr' = [cr EXCEPT !.pos = @ \/ call.len = 2, !.ack = @ \/ call.len > 1]
  /\ UNCHANGED buf /\ SameBus /\ Env

(* One byte: no ACK before ADDR is cleared.                                *)
AddressedR ==
  /\ At("addrR")
  /\ cr' = IF call.len = 1 THEN [cr EXCEPT !.ack = FALSE] ELSE cr
  /\ ClearAddr
  /\ Goto(CASE call.len = 1 -> "n1stop" [] call.len = 2 -> "n2ack"
            [] call.len = 3 -> "three" [] OTHER -> "stream")
  /\ UNCHANGED buf /\ Env

OneStop ==
  /\ At("n1stop") /\ cr' = [cr EXCEPT !.stop = TRUE] /\ Goto("n1")
  /\ UNCHANGED << sr, dr, sh, dir, buf >> /\ SameBus /\ Env

OneRead ==
  /\ At("n1") /\ ReadDR /\ Goto("stop")
  /\ UNCHANGED << cr, dir >> /\ SameBus /\ Env

TwoNack ==
  /\ At("n2ack") /\ cr' = [cr EXCEPT !.ack = FALSE] /\ Goto("n2")
  /\ UNCHANGED << sr, dr, sh, dir, buf >> /\ SameBus /\ Env

TwoRead ==
  /\ At("n2") /\ cr' = [cr EXCEPT !.stop = TRUE, !.pos = FALSE] /\ Goto("stop")
  /\ buf' = buf \o << dr, sh >> /\ dr' = Empty /\ sh' = Empty
  /\ sr' = [sr EXCEPT !.rxne = FALSE, !.btf = FALSE]
  /\ UNCHANGED dir /\ SameBus /\ Env

(* More than three bytes are left.                                         *)
Stream ==
  /\ At("stream") /\ ReadDR
  /\ Goto(IF call.len - Len(buf') > 3 THEN "stream" ELSE "three")
  /\ UNCHANGED << cr, dir >> /\ SameBus /\ Env

(* mutant: the last three are read as they come, the NACK set before the last *)
ThreeOnRxne ==
  /\ pc = "three" /\ sr.rxne /\ cr' = [cr EXCEPT !.ack = FALSE] /\ ReadDR /\ Goto("two")
  /\ UNCHANGED dir /\ SameBus /\ Env

(* mutant: the byte is read, and the bus let go, before the NACK is set *)
ThreeNackLate ==
  /\ At("three") /\ UNCHANGED cr /\ ReadDR /\ Goto("two")
  /\ UNCHANGED dir /\ SameBus /\ Env

(* Three are left, the bus stands still: NACK the last one, then let it go.*)
Three ==
  /\ At("three") /\ cr' = [cr EXCEPT !.ack = FALSE] /\ ReadDR /\ Goto("two")
  /\ UNCHANGED dir /\ SameBus /\ Env

Two ==
  /\ At("two") /\ cr' = [cr EXCEPT !.stop = TRUE] /\ ReadDR /\ Goto("last")
  /\ UNCHANGED dir /\ SameBus /\ Env

LastRead ==
  /\ At("last") /\ ReadDR /\ Goto("stop")
  /\ UNCHANGED << cr, dir >> /\ SameBus /\ Env

Stopped ==
  /\ At("stop") /\ Return(0)
  /\ UNCHANGED << cr, sr, dr, sh, dir, buf >> /\ SameBus /\ Env

Driver ==
  \/ GiveUp \/ BusFree \/ Started \/ AddressedW \/ WriteReg \/ RegWritten
  \/ DataWritten \/ Restarted \/ AddressedR \/ OneStop \/ OneRead \/ TwoNack
  \/ TwoRead \/ Stream \/ Three \/ Two \/ LastRead \/ Stopped
-----------------------------------------------------------------------------
(* The bus.  What the device makes of a byte, and what it sends, is for    *)
(* the module that models the device.                                      *)
BusStep ==
  /\ ~stuck
  /\ (Blocked \/ (late < MaxLate /\ pc # "n2ack"))
  /\ late' = IF Blocked THEN late ELSE late + 1
  /\ UNCHANGED << stuck, call, pc, buf, rc >>

(* A refusal that is no fault: the device is not there.                    *)
Answer(ack, there) ==
  /\ ack => there
  /\ (~ack /\ there) => faults < MaxFaults
  /\ faults' = IF ~ack /\ there THEN faults + 1 ELSE faults
  /\ hurt' = (hurt \/ (~ack /\ there))
NoAnswer == UNCHANGED << hurt, faults >>

StartOut ==
  /\ BusStep /\ NoAnswer
  /\ cr.start
  /\ (bus = "free" \/ (~cr.stop /\ (bus = "ended" \/ (bus = "tx" /\ Drained))))
  /\ cr' = [cr EXCEPT !.start = FALSE]
  /\ sr' = [sr EXCEPT !.sb = TRUE, !.txe = FALSE, !.btf = FALSE]
  /\ bus' = "started"
  /\ UNCHANGED << dr, sh, dir, lat, ptr, first, sent, nacked >>

AddressOut(ack, there) ==
  /\ BusStep /\ Answer(ack, there)
  /\ bus = "started" /\ ~sr.sb
  /\ dr' = Empty
  /\ sr' = [sr EXCEPT !.addr = ack, !.af = @ \/ ~ack]
  /\ bus' = IF ack THEN "addressed" ELSE "ended"
  /\ first' = TRUE /\ sent' = << >> /\ nacked' = FALSE
  /\ UNCHANGED << cr, sh, dir, lat, ptr >>

ByteOut(ack) ==
  /\ BusStep /\ Answer(ack, TRUE)
  /\ bus = "tx" /\ sh # Empty
  /\ IF ack
     THEN /\ sh' = dr /\ dr' = Empty
          /\ sr' = [sr EXCEPT !.txe = TRUE, !.btf = dr = Empty]
          /\ ptr' = IF first THEN sh ELSE ptr
          /\ first' = FALSE /\ UNCHANGED bus
     ELSE /\ sh' = Empty /\ sr' = [sr EXCEPT !.af = TRUE] /\ bus' = "ended"
          /\ UNCHANGED << dr, ptr, first >>
  /\ UNCHANGED << cr, dir, lat, sent, nacked >>

(* ACK says whether this byte is acknowledged, with POS the one after it.  *)
ByteIn(v) ==
  LET ack == IF cr.pos THEN lat ELSE cr.ack
  IN  /\ BusStep /\ NoAnswer
      /\ bus = "rx" /\ sh = Empty
      /\ IF sr.rxne
         THEN sh' = v /\ sr' = [sr EXCEPT !.btf = TRUE] /\ UNCHANGED dr
         ELSE dr' = v /\ sr' = [sr EXCEPT !.rxne = TRUE] /\ UNCHANGED sh
      /\ bus' = IF ack /\ ~cr.stop THEN "rx" ELSE "ended"
      /\ lat' = cr.ack /\ ptr' = ptr + 1
      /\ sent' = Append(sent, v) /\ nacked' = ~ack
      /\ UNCHANGED << cr, dir, first >>

(* STOP follows the byte on the wire.  Whether a START that is asked for   *)
(* with it goes out before it, after it or never, RM0090 leaves open.      *)
StopOut ==
  /\ BusStep /\ NoAnswer
  /\ cr.stop
  /\ \/ bus \in {"free", "started", "addressed", "ended"}
     \/ bus = "tx" /\ sh = Empty
     \/ bus = "rx" /\ sh # Empty
  /\ \E kept \in BOOLEAN : cr' = [cr EXCEPT !.stop = FALSE, !.start = @ /\ kept]
  /\ sr' = [sr EXCEPT !.sb = FALSE, !.addr = FALSE, !.txe = FALSE, !.btf = FALSE]
  /\ bus' = "free" /\ sh' = Empty /\ dr' = IF sr.rxne THEN dr ELSE Empty
  /\ UNCHANGED << dir, lat, ptr, first, sent, nacked >>

Stick ==
  /\ ~stuck /\ pc # "idle" /\ faults < MaxFaults
  /\ stuck' = TRUE /\ faults' = faults + 1 /\ hurt' = TRUE
  /\ UNCHANGED hwVars /\ UNCHANGED << call, pc, buf, rc, late >>

Unstick ==
  /\ stuck /\ stuck' = FALSE
  /\ UNCHANGED hwVars /\ UNCHANGED << call, pc, buf, rc, hurt, faults, late >>
=============================================================================

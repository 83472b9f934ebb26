---------------------------- MODULE Bmp280Proofs ----------------------------
(***************************************************************************)
(* Proofs about Src/i2c.c and Src/bmp280.c, for reads of every length and  *)
(* any number of faults and hold-ups.                                      *)
(*                                                                         *)
(* I2cInv says, for each point at which the driver waits, what can be on   *)
(* the bus and where every byte the device has sent is: in the buffer, in  *)
(* DR or in the shift register; and which acknowledge the next byte gets,  *)
(* from ACK and POS.  SensorInv follows the command that starts a          *)
(* conversion from the pipeline into the sensor, and what status and       *)
(* ctrl_meas can read as until the conversion ends.                        *)
(*                                                                         *)
(* Both have one exception: a refused byte that the driver, held up, never *)
(* looked at leaves AF standing.                                           *)
(*                                                                         *)
(* QuietInv, further down, adds what a program that no fault has hit can   *)
(* rely on: no wait of the driver times out.                               *)
(***************************************************************************)
EXTENDS Bmp280, SequenceTheorems, TLAPS

-----------------------------------------------------------------------------
(* Types *)
Points ==
  {"idle", "free", "sbW", "addrW", "writereg", "reg", "data", "sbR", "addrR", "n1stop",
   "n1", "n2ack", "n2", "stream", "three", "two", "last", "stop"}
Receiving == {"n1stop", "n1", "n2ack", "n2", "stream", "three", "two", "last"}
OneByte == {"n1stop", "n1"}
Calls == [op : {"none", "write", "read"}, reg : Nat, len : Nat, data : Nat]
Byte == Nat \cup {Empty}

ControlBits == [start : BOOLEAN, stop : BOOLEAN, ack : BOOLEAN, pos : BOOLEAN]
StatusBits == [sb : BOOLEAN, addr : BOOLEAN, af : BOOLEAN, txe : BOOLEAN, btf : BOOLEAN,
               rxne : BOOLEAN]

RegisterTypes ==
  cr \in ControlBits /\ sr \in StatusBits /\ dr \in Byte /\ sh \in Byte
BusTypes ==
  /\ bus \in {"free", "started", "addressed", "tx", "rx", "ended"}
  /\ dir \in {"W", "R"} /\ lat \in BOOLEAN /\ ptr \in Nat /\ first \in BOOLEAN
  /\ sent \in Seq(Nat) /\ nacked \in BOOLEAN /\ stuck \in BOOLEAN
CallTypes ==
  /\ call \in Calls /\ pc \in Points /\ buf \in Seq(Byte) /\ rc \in {0, -1}
FaultTypes ==
  /\ hurt \in BOOLEAN /\ faults \in 0 .. MaxFaults /\ late \in 0 .. MaxLate
Types == RegisterTypes /\ BusTypes /\ CallTypes /\ FaultTypes

-----------------------------------------------------------------------------
(* The driver and the bus. *)
Control ==
  /\ call.op = "read" <=> call.len > 0
  /\ pc # "idle" => call.op # "none"
  /\ pc = "data" => call.op = "write"
  /\ pc \in {"sbR", "addrR"} \cup Receiving => call.op = "read"
  /\ Len(buf) <= call.len

(* What the flags say of the bus. *)
Wire ==
  /\ sr.sb => bus = "started"
  /\ sr.addr => bus = "addressed"
  /\ bus \in {"free", "started", "addressed"} => sh = Empty
  /\ bus \in {"started", "addressed"} => ~sr.btf
  /\ bus = "addressed" => dr = Empty /\ first /\ sent = << >> /\ ~nacked
  /\ cr.start => bus \in {"free", "tx", "ended"}
  /\ cr.start /\ bus = "ended" => sh = Empty
  /\ bus = "tx" /\ sr.btf => sh = Empty
  /\ bus \in {"rx", "ended"} /\ sr.btf => sr.rxne /\ sh # Empty

(* The device points at the register that was asked for. *)
Named == ptr = call.reg \/ sr.af
RegisterGoesOut ==
  bus = "tx" => /\ dr = Empty
                /\ \/ first /\ sh = call.reg
                   \/ ~first /\ sh = Empty /\ ptr = call.reg

(* From the START to the second address. *)
Addressing ==
  /\ pc \in {"addrW", "writereg", "reg", "addrR", "data", "stop"} \cup Receiving => ~cr.start
  /\ pc \in {"addrW", "writereg", "reg", "sbR", "data"} => dir = "W"
  /\ pc = "sbW" => bus \in {"free", "started"} /\ (bus = "started" => sr.sb)
  /\ pc = "addrW" => bus \in {"free", "started", "addressed", "ended"}
  /\ pc = "writereg" => /\ bus \in {"tx", "free"}
                        /\ bus = "free" => ~sr.txe
                        /\ bus = "tx" => first /\ sh = Empty /\ dr = Empty
  /\ pc = "reg" => /\ bus \in {"tx", "ended", "free"}
                   /\ RegisterGoesOut
                   /\ bus = "ended" => sr.af /\ sh = Empty
                   /\ bus = "free" => ~sr.txe
  /\ pc = "data" => /\ bus \in {"tx", "ended", "free"}
                    /\ bus = "ended" => sr.af
                    /\ bus = "free" => ~sr.txe
  /\ pc = "sbR" => /\ bus \in {"tx", "ended", "free", "started"}
                   /\ RegisterGoesOut
                   /\ bus = "ended" => sr.af /\ sh = Empty
                   /\ bus # "tx" => Named
                   /\ bus = "started" => sr.sb
  /\ pc = "addrR" => /\ bus \in {"started", "addressed", "ended", "free"}
                     /\ Named /\ dir = "R" /\ ~sr.rxne /\ buf = << >>
                     /\ cr.pos <=> call.len = 2
                     /\ call.len > 1 => cr.ack
  /\ pc \in {"free", "sbW", "addrW", "writereg", "reg", "data", "sbR"} => buf = << >>
  /\ pc \in {"sbW", "addrW", "writereg", "reg", "sbR"} /\ call.op = "read" => ~cr.pos

(* What the device has sent is in the buffer, DR or the shift register. *)
InPipe ==
  /\ sent = IF sr.btf THEN Append(Append(buf, dr), sh)
            ELSE IF sr.rxne THEN Append(buf, dr) ELSE buf
  /\ sr.btf => sr.rxne /\ sh # Empty
  /\ sr.rxne => dr # Empty
  /\ ~sr.btf => sh = Empty

(* The four ways to receive. *)
Reception ==
  /\ pc \in Receiving =>
       /\ bus \in {"rx", "ended", "free"} /\ dir = "R"
       /\ ptr = call.reg + Len(sent) \/ sr.af
       /\ bus # "free" => InPipe
       /\ bus = "free" => ~sr.btf
       /\ cr.pos <=> call.len = 2
  /\ pc \in OneByte =>
       /\ call.len = 1 /\ buf = << >> /\ ~cr.ack /\ ~sr.btf
       /\ InPipe
       /\ sr.rxne => nacked /\ bus # "rx"
  /\ pc = "n1" => (bus # "free" => cr.stop)
  /\ pc = "n2ack" => call.len = 2 /\ buf = << >> /\ cr.ack /\ lat /\ bus = "rx" /\ ~sr.rxne
  /\ pc = "n2" =>
       /\ call.len = 2 /\ buf = << >> /\ ~cr.ack
       /\ bus = "rx" => (lat <=> ~sr.rxne) /\ ~sr.btf
       /\ sr.btf => nacked
  /\ pc = "stream" => call.len > 3 /\ Len(buf) + 4 <= call.len /\ cr.ack
  /\ pc = "three" => call.len > 2 /\ Len(buf) + 3 = call.len /\ cr.ack
  /\ pc = "two" => /\ call.len > 2 /\ Len(buf) + 2 = call.len /\ ~cr.ack
                   /\ bus # "free" => sr.rxne
                   /\ sr.btf => nacked /\ bus # "rx"
  /\ pc = "last" => /\ call.len > 2 /\ Len(buf) + 1 = call.len
                    /\ InPipe /\ ~sr.btf /\ sr.rxne /\ nacked
                    /\ bus # "rx" /\ (bus = "ended" => cr.stop)

ReadDone ==
  /\ buf = sent /\ Len(buf) = call.len /\ nacked
  /\ ptr = call.reg + call.len \/ sr.af
Ending ==
  /\ pc = "stop" => /\ bus \in {"tx", "ended", "free"}
                    /\ bus # "free" => cr.stop
                    /\ call.op = "read" => ReadDone /\ bus # "tx"
  /\ pc = "idle" /\ rc = 0 /\ call.op # "none" =>
       /\ ~cr.stop /\ ~cr.start /\ bus = "free"
       /\ call.op = "read" => ReadDone

I2cInv == Types /\ Control /\ Wire /\ Addressing /\ Reception /\ Ending

-----------------------------------------------------------------------------
(* The sensor and the transfers of bmp280.c. *)
Stages ==
  {"begin", "id", "reset", "nvm", "calib", "config", "run", "force", "poll", "burst", "halt"}
Measuring == {"run", "force", "poll", "burst"}
Reads(reg, len) == call = [op |-> "read", reg |-> reg, len |-> len, data |-> 0]
Writes(reg, data) == call = [op |-> "write", reg |-> reg, len |-> 0, data |-> data]
SensorTypes ==
  /\ dev \in Sensors /\ bmp \in Stages /\ out.ok \in BOOLEAN /\ trouble \in BOOLEAN
  /\ dev.mode = IF dev.conv = "none" THEN 0 ELSE 1
  /\ dev.there \/ dev.config = 0
Requests ==
  /\ bmp \in {"begin", "run", "halt"} => pc = "idle"
  /\ bmp = "id" => Reads(BMP280_REG_ID, 1)
  /\ bmp = "reset" => Writes(BMP280_REG_RESET, BMP280_RESET_CMD)
  /\ bmp = "nvm" => Reads(BMP280_REG_STATUS, 1)
  /\ bmp = "calib" => Reads(BMP280_REG_CALIB, CALIB_LEN)
  /\ bmp = "config" => Writes(BMP280_REG_CONFIG, 0)
  /\ bmp = "force" => Writes(BMP280_REG_CTRL_MEAS, BMP280_CTRL_MEAS_FORCED)
  /\ bmp = "poll" => Reads(BMP280_REG_STATUS, 2)
  /\ bmp = "burst" => Reads(BMP280_REG_PRESS_MSB, DATA_LEN)
  /\ bmp # "run" => ~out.ok

(* The register and the byte of every write that can still be on the wire. *)
Commanded(r, v) ==
  \/ bmp \in {"reset", "halt"} /\ r = BMP280_REG_RESET /\ v = BMP280_RESET_CMD
  \/ bmp \in {"config", "halt"} /\ r = BMP280_REG_CONFIG /\ v = 0
  \/ bmp \in Measuring /\ r = BMP280_REG_CTRL_MEAS /\ v = BMP280_CTRL_MEAS_FORCED
CommandGoesOut ==
  bus = "tx" => \/ dr = Empty /\ (first \/ sh = Empty)
                \/ first /\ Commanded(sh, dr)
                \/ ~first /\ dr = Empty /\ Commanded(ptr, sh)

(* The commands whose arrival matters: a conversion, and the reset that    *)
(* switches the filter off.                                                *)
Begun == dev.conv # "none" \/ dev.fresh
Clean == faults > 0 \/ dev.config = 0
Delivered == IF bmp = "force" THEN Begun ELSE Clean
GoesOut ==
  /\ ~first /\ dr = Empty
  /\ (ptr = call.reg /\ sh = call.data) \/ (sh = Empty /\ Delivered)
Delivery ==
  bmp \in {"reset", "force"} =>
    /\ pc = "data" /\ bus = "tx" =>
         \/ first /\ sh = call.reg /\ dr = call.data /\ ~sr.txe
         \/ GoesOut
    /\ pc = "stop" /\ bus = "tx" => GoesOut
    /\ (pc = "stop" /\ bus # "tx") \/ (pc = "idle" /\ rc = 0) => Delivered \/ sr.af

Failed == pc = "idle" /\ rc # 0
Missed == sr.af \/ Failed
Heard == pc \in Receiving \cup {"stop"} \/ (pc = "idle" /\ rc = 0)
PollOK ==
  bmp = "poll" => \/ Missed
                  \/ /\ Begun
                     /\ Heard /\ Len(sent) >= 2 /\ sent[2] = 0 => dev.fresh
BurstOK ==
  bmp = "burst" => \/ Missed
                   \/ /\ dev.fresh
                      /\ Heard => \A k \in 1 .. Len(sent) : sent[k] = 1

NvmOK ==
  bmp = "nvm" => \/ Missed
                 \/ Heard /\ Len(sent) >= 1 /\ ~Bit(sent[1], BMP280_STATUS_IM_UPDATE) =>
                      Copied
CalibOK ==
  bmp = "calib" => \/ Missed
                   \/ /\ Copied
                      /\ Heard => \A k \in 1 .. Len(sent) : sent[k] = Memory[k]
ConfigOK ==
  /\ bmp = "config" => Missed \/ calib = Memory
  /\ sr.af \/ bmp \in {"nvm", "calib", "config"} \cup Measuring => Clean

SensorInv ==
  /\ SensorTypes /\ Requests /\ CommandGoesOut /\ Delivery
  /\ PollOK /\ BurstOK /\ SampleIsFresh
  /\ NvmOK /\ CalibOK /\ ConfigOK

(* The sensor stays as it is, or goes on. *)
Onward ==
  /\ SensorTypes' /\ UNCHANGED << bmp, calib, out, trouble >>
  /\ bmp \in Measuring => (Begun => Begun') /\ (dev.fresh => dev'.fresh)
  /\ bmp \notin {"reset", "halt"} => (Copied => Copied')
  /\ dev.config = 0 => dev'.config = 0

-----------------------------------------------------------------------------
USE I2cAssumption DEF Points, Receiving, OneByte, Byte, Empty

(* What is known of the flags where the driver goes on *)
LEMMA FlagAt ==
  /\ At("free") => bus = "free"
  /\ At("sbW") \/ At("sbR") => sr.sb
  /\ At("addrW") \/ At("addrR") => sr.addr
  /\ At("reg") \/ At("data") => sr.txe
  /\ At("n1") \/ At("stream") \/ At("last") => sr.rxne
  /\ At("n2") \/ At("three") \/ At("two") => sr.btf
  /\ At("stop") => ~cr.stop
<1>1. At("free") => bus = "free"  BY DEF At, Flag
<1>2. At("sbW") \/ At("sbR") => sr.sb  BY DEF At, Flag
<1>3. At("addrW") \/ At("addrR") => sr.addr  BY DEF At, Flag
<1>4. At("reg") \/ At("data") => sr.txe  BY DEF At, Flag
<1>5. At("n1") \/ At("stream") \/ At("last") => sr.rxne  BY DEF At, Flag
<1>6. At("n2") \/ At("three") \/ At("two") => sr.btf  BY DEF At, Flag
<1>7. At("stop") => ~cr.stop  BY DEF At, Flag
<1> QED BY <1>1, <1>2, <1>3, <1>4, <1>5, <1>6, <1>7

(* At(p) is only true at p. *)
LEMMA AtPoint == ASSUME NEW p, At(p)  PROVE pc = p
BY DEF At

(* Both accesses to the data register keep the types. *)
LEMMA WriteTypes ==
  ASSUME RegisterTypes, NEW v \in Nat, WriteDR(v), cr' \in ControlBits  PROVE RegisterTypes'
<1> USE DEF RegisterTypes
<1>1. CASE bus = "tx" /\ sh = Empty
  <2>1. sh' = v /\ dr' = Empty /\ sr' = [sr EXCEPT !.btf = FALSE, !.rxne = FALSE]
    BY <1>1 DEF WriteDR
  <2>2. sr' \in StatusBits  BY <2>1 DEF StatusBits
  <2> QED BY <2>1, <2>2
<1>2. CASE ~(bus = "tx" /\ sh = Empty)
  <2>1. /\ sh' = sh /\ dr' = v
        /\ sr' = [sr EXCEPT !.sb = FALSE, !.txe = FALSE, !.btf = FALSE, !.rxne = FALSE]
    BY <1>2 DEF WriteDR
  <2>2. sr' \in StatusBits  BY <2>1 DEF StatusBits
  <2> QED BY <2>1, <2>2
<1> QED BY <1>1, <1>2

(* Reading DR keeps them, and adds a byte to the buffer. *)
LEMMA ReadTypes ==
  ASSUME RegisterTypes, buf \in Seq(Byte), ReadDR
  PROVE  /\ dr' \in Byte /\ sh' \in Byte /\ sr' \in StatusBits
         /\ buf' \in Seq(Byte) /\ Len(buf') = Len(buf) + 1
<1>1. sr' \in StatusBits
  <2>1. sr' = [sr EXCEPT !.rxne = (sh # Empty), !.btf = FALSE]  BY DEF ReadDR
  <2> QED BY <2>1 DEF StatusBits, RegisterTypes
<1>2. buf' \in Seq(Byte) /\ Len(buf') = Len(buf) + 1
  BY AppendProperties DEF ReadDR, RegisterTypes
<1> QED BY <1>1, <1>2 DEF ReadDR, RegisterTypes

(* Both registers are read one after the other. *)
LEMMA TwoBytes ==
  ASSUME RegisterTypes, buf = << >>
  PROVE  LET both == buf \o << dr, sh >>
         IN  both = Append(Append(buf, dr), sh) /\ both \in Seq(Byte) /\ Len(both) = 2
<1> DEFINE both == << dr, sh >>
<1>1. both \in Seq(Byte) /\ Len(both) = 2 /\ both = Append(Append(<< >>, dr), sh)
  BY DEF RegisterTypes
<1>2. << >> \o both = both
  <2> HIDE DEF both
  <2> QED BY <1>1, ConcatEmptySeq
<1> QED BY <1>1, <1>2

(* A wait given up asks for a STOP and leaves the rest to the next call. *)
LEMMA GiveUpStep == ASSUME I2cInv, GiveUp  PROVE I2cInv'
<1> USE DEF I2cInv, GiveUp, Return, SameBus, Env, NoticesAf
<1>1. Types'
  <2> USE DEF Types, RegisterTypes, ControlBits, StatusBits, BusTypes, CallTypes
  <2>1. RegisterTypes'  OBVIOUS
  <2>2. BusTypes'  OBVIOUS
  <2>3. CallTypes'  BY DEF Calls
  <2>4. FaultTypes'  BY DEF FaultTypes
  <2> QED BY <2>1, <2>2, <2>3, <2>4
<1> USE DEF Types, RegisterTypes, ControlBits, StatusBits, BusTypes, CallTypes
<1>2. Control'  BY DEF Control
<1>3. Wire'  BY DEF Wire, Control, Addressing, Reception
<1>4. Addressing'  BY DEF Addressing, Wire, Control, Named, RegisterGoesOut
<1>5. Reception'  BY DEF Reception, InPipe, Addressing, Control, Wire, Named
<1>6. Ending'  BY DEF Ending, Reception, InPipe, ReadDone, Control, Addressing
<1> QED BY <1>1, <1>2, <1>3, <1>4, <1>5, <1>6

(* The START of a transfer waits for a free bus. *)
LEMMA BusFreeStep == ASSUME I2cInv, BusFree  PROVE I2cInv'
<1>0. pc = "free" /\ bus = "free"  BY AtPoint, FlagAt DEF BusFree
<1> USE <1>0 DEF I2cInv, BusFree, Goto, SameBus, Env
<1>1. Types'
  <2> USE DEF Types, RegisterTypes, ControlBits, StatusBits, BusTypes, CallTypes
  <2>1. RegisterTypes'  OBVIOUS
  <2>2. BusTypes'  OBVIOUS
  <2>3. CallTypes'  BY DEF Calls
  <2>4. FaultTypes'  BY DEF FaultTypes
  <2> QED BY <2>1, <2>2, <2>3, <2>4
<1> USE DEF Types, RegisterTypes, ControlBits, StatusBits, BusTypes, CallTypes
<1>2. Control'  BY DEF Control
<1>3. Wire'  BY DEF Wire, Control, Addressing, Reception
<1>4. Addressing'  BY DEF Addressing, Wire, Control, Named, RegisterGoesOut
<1>5. Reception'  BY DEF Reception, InPipe, Addressing, Control, Wire, Named
<1>6. Ending'  BY DEF Ending, Reception, InPipe, ReadDone, Control, Addressing
<1> QED BY <1>1, <1>2, <1>3, <1>4, <1>5, <1>6

(* The address byte answers SB. *)
LEMMA StartedStep == ASSUME I2cInv, Started  PROVE I2cInv'
<1>0. pc = "sbW" /\ sr.sb  BY AtPoint, FlagAt DEF Started
<1> USE <1>0 DEF I2cInv, Started, WriteDR, Goto, SameBus, Env
<1>1. Types'
  <2> USE DEF Types, RegisterTypes, ControlBits, StatusBits, BusTypes, CallTypes
  <2>1. RegisterTypes'
    <3>1. cr' \in ControlBits  OBVIOUS
    <3>2. 0 \in Nat  BY DEF Calls
    <3> QED BY <3>1, <3>2, WriteTypes
  <2>2. BusTypes'  OBVIOUS
  <2>3. CallTypes'  BY DEF Calls
  <2>4. FaultTypes'  BY DEF FaultTypes
  <2> QED BY <2>1, <2>2, <2>3, <2>4
<1> USE DEF Types, RegisterTypes, ControlBits, StatusBits, BusTypes, CallTypes
<1>2. Control'  BY DEF Control
<1>3. Wire'  BY DEF Wire, Control, Addressing, Reception
<1>4. Addressing'  BY DEF Addressing, Wire, Control, Named, RegisterGoesOut
<1>5. Reception'  BY DEF Reception, InPipe, Addressing, Control, Wire, Named
<1>6. Ending'  BY DEF Ending, Reception, InPipe, ReadDone, Control, Addressing
<1> QED BY <1>1, <1>2, <1>3, <1>4, <1>5, <1>6

(* Clearing ADDR makes the master a transmitter. *)
LEMMA AddressedWStep == ASSUME I2cInv, AddressedW  PROVE I2cInv'
<1>0. pc = "addrW" /\ sr.addr  BY AtPoint, FlagAt DEF AddressedW
<1> USE <1>0 DEF I2cInv, AddressedW, ClearAddr, Goto, Env
<1>1. Types'
  <2> USE DEF Types, RegisterTypes, ControlBits, StatusBits, BusTypes, CallTypes
  <2>1. RegisterTypes'  OBVIOUS
  <2>2. BusTypes'  OBVIOUS
  <2>3. CallTypes'  BY DEF Calls
  <2>4. FaultTypes'  BY DEF FaultTypes
  <2> QED BY <2>1, <2>2, <2>3, <2>4
<1> USE DEF Types, RegisterTypes, ControlBits, StatusBits, BusTypes, CallTypes
<1>2. Control'  BY DEF Control
<1>3. Wire'  BY DEF Wire, Control, Addressing, Reception
<1>4. Addressing'  BY DEF Addressing, Wire, Control, Named, RegisterGoesOut
<1>5. Reception'  BY DEF Reception, InPipe, Addressing, Control, Wire, Named
<1>6. Ending'  BY DEF Ending, Reception, InPipe, ReadDone, Control, Addressing
<1> QED BY <1>1, <1>2, <1>3, <1>4, <1>5, <1>6

(* The register number goes to an empty pipeline. *)
LEMMA WriteRegStep == ASSUME I2cInv, WriteReg  PROVE I2cInv'
<1>0. pc = "writereg"  BY AtPoint, FlagAt DEF WriteReg
<1> USE <1>0 DEF I2cInv, WriteReg, WriteDR, Goto, SameBus, Env
<1>1. Types'
  <2> USE DEF Types, RegisterTypes, ControlBits, StatusBits, BusTypes, CallTypes
  <2>1. RegisterTypes'
    <3>1. cr' \in ControlBits  OBVIOUS
    <3>2. call.reg \in Nat  BY DEF Calls
    <3> QED BY <3>1, <3>2, WriteTypes
  <2>2. BusTypes'  OBVIOUS
  <2>3. CallTypes'  BY DEF Calls
  <2>4. FaultTypes'  BY DEF FaultTypes
  <2> QED BY <2>1, <2>2, <2>3, <2>4
<1> USE DEF Types, RegisterTypes, ControlBits, StatusBits, BusTypes, CallTypes
<1>2. Control'  BY DEF Control
<1>3. Wire'  BY DEF Wire, Control, Addressing, Reception
<1>4. Addressing'  BY DEF Addressing, Wire, Control, Named, RegisterGoesOut
<1>5. Reception'  BY DEF Reception, InPipe, Addressing, Control, Wire, Named
<1>6. Ending'  BY DEF Ending, Reception, InPipe, ReadDone, Control, Addressing
<1> QED BY <1>1, <1>2, <1>3, <1>4, <1>5, <1>6

(* A write goes on with its byte, a read with a second START. *)
LEMMA RegWrittenStep == ASSUME I2cInv, RegWritten  PROVE I2cInv'
<1>0. pc = "reg" /\ sr.txe  BY AtPoint, FlagAt DEF RegWritten
<1> USE <1>0 DEF I2cInv, RegWritten, WriteDR, Goto, SameBus, Env
<1>1. Types'
  <2> USE DEF Types, RegisterTypes, ControlBits, StatusBits, BusTypes, CallTypes
  <2>1. RegisterTypes'
    <3>1. CASE call.op = "write"
      <4>1. WriteDR(call.data) /\ cr' \in ControlBits  BY <3>1
      <4>2. call.data \in Nat  BY DEF Calls
      <4> QED BY <4>1, <4>2, WriteTypes
    <3>2. CASE call.op # "write"  BY <3>2
    <3> QED BY <3>1, <3>2
  <2>2. BusTypes'  OBVIOUS
  <2>3. CallTypes'  BY DEF Calls
  <2>4. FaultTypes'  BY DEF FaultTypes
  <2> QED BY <2>1, <2>2, <2>3, <2>4
<1> USE DEF Types, RegisterTypes, ControlBits, StatusBits, BusTypes, CallTypes
<1>2. Control'
  <2>1. call' = call /\ buf' = buf /\ pc' = (IF call.op = "write" THEN "data" ELSE "sbR")
    OBVIOUS
  <2>2. call.op # "none"  BY DEF Control
  <2>3. call.op = "write" \/ call.op = "read"  BY <2>2 DEF Types, CallTypes, Calls
  <2> QED BY <2>1, <2>3 DEF Control
<1>3. Wire'  BY DEF Wire, Control, Addressing, Reception
<1>4. Addressing'  BY DEF Addressing, Wire, Control, Named, RegisterGoesOut
<1>5. Reception'  BY DEF Reception, InPipe, Addressing, Control, Wire, Named
<1>6. Ending'  BY DEF Ending, Reception, InPipe, ReadDone, Control, Addressing
<1> QED BY <1>1, <1>2, <1>3, <1>4, <1>5, <1>6

(* STOP is asked for while the byte is still going out. *)
LEMMA DataWrittenStep == ASSUME I2cInv, DataWritten  PROVE I2cInv'
<1>0. pc = "data" /\ sr.txe  BY AtPoint, FlagAt DEF DataWritten
<1> USE <1>0 DEF I2cInv, DataWritten, Goto, SameBus, Env
<1>1. Types'
  <2> USE DEF Types, RegisterTypes, ControlBits, StatusBits, BusTypes, CallTypes
  <2>1. RegisterTypes'  OBVIOUS
  <2>2. BusTypes'  OBVIOUS
  <2>3. CallTypes'  BY DEF Calls
  <2>4. FaultTypes'  BY DEF FaultTypes
  <2> QED BY <2>1, <2>2, <2>3, <2>4
<1> USE DEF Types, RegisterTypes, ControlBits, StatusBits, BusTypes, CallTypes
<1>2. Control'  BY DEF Control
<1>3. Wire'  BY DEF Wire, Control, Addressing, Reception
<1>4. Addressing'  BY DEF Addressing, Wire, Control, Named, RegisterGoesOut
<1>5. Reception'  BY DEF Reception, InPipe, Addressing, Control, Wire, Named
<1>6. Ending'  BY DEF Ending, Reception, InPipe, ReadDone, Control, Addressing
<1> QED BY <1>1, <1>2, <1>3, <1>4, <1>5, <1>6

(* The second address byte: nothing is received yet. *)
LEMMA RestartedStep == ASSUME I2cInv, Restarted  PROVE I2cInv'
<1>0. pc = "sbR" /\ sr.sb  BY AtPoint, FlagAt DEF Restarted
<1> USE <1>0 DEF I2cInv, Restarted, WriteDR, Goto, SameBus, Env
<1>1. Types'
  <2> USE DEF Types, RegisterTypes, ControlBits, StatusBits, BusTypes, CallTypes
  <2>1. RegisterTypes'
    <3>1. cr' \in ControlBits  OBVIOUS
    <3>2. 0 \in Nat  BY DEF Calls
    <3> QED BY <3>1, <3>2, WriteTypes
  <2>2. BusTypes'  OBVIOUS
  <2>3. CallTypes'  BY DEF Calls
  <2>4. FaultTypes'  BY DEF FaultTypes
  <2> QED BY <2>1, <2>2, <2>3, <2>4
<1> USE DEF Types, RegisterTypes, ControlBits, StatusBits, BusTypes, CallTypes
<1>2. Control'  BY DEF Control
<1>3. Wire'  BY DEF Wire, Control, Addressing, Reception
<1>4. Addressing'
  <2>1. bus = "started" /\ ~cr.start  BY DEF Wire
  <2>2. Named /\ buf = << >> /\ ~cr.pos  BY <2>1 DEF Addressing, Control
  <2>3. /\ cr'.start = FALSE /\ (cr'.pos <=> cr.pos \/ call.len = 2)
        /\ cr'.ack = (cr.ack \/ call.len > 1)
    BY <2>1 DEF Types, RegisterTypes, ControlBits
  <2>4. sr'.rxne = FALSE /\ sr'.af = sr.af
    BY <2>1 DEF WriteDR, Types, RegisterTypes, StatusBits
  <2>5. Named'  BY <2>2, <2>4 DEF Named
  <2> QED BY <2>1, <2>2, <2>3, <2>4, <2>5 DEF Addressing
<1>5. Reception'  BY DEF Reception, InPipe, Addressing, Control, Wire, Named
<1>6. Ending'  BY DEF Ending, Reception, InPipe, ReadDone, Control, Addressing
<1> QED BY <1>1, <1>2, <1>3, <1>4, <1>5, <1>6

(* Clearing ADDR makes the master a receiver, ACK decided. *)
LEMMA AddressedRStep == ASSUME I2cInv, AddressedR  PROVE I2cInv'
<1>0. pc = "addrR" /\ sr.addr  BY AtPoint, FlagAt DEF AddressedR
<1> USE <1>0 DEF I2cInv, AddressedR, ClearAddr, Goto, Env
<1>1. Types'
  <2> USE DEF Types, RegisterTypes, ControlBits, StatusBits, BusTypes, CallTypes
  <2>1. RegisterTypes'  OBVIOUS
  <2>2. BusTypes'  OBVIOUS
  <2>3. CallTypes'  BY DEF Calls
  <2>4. FaultTypes'  BY DEF FaultTypes
  <2> QED BY <2>1, <2>2, <2>3, <2>4
<1> USE DEF Types, RegisterTypes, ControlBits, StatusBits, BusTypes, CallTypes
<1>2. Control'  BY DEF Control
<1>3. Wire'  BY DEF Wire, Control, Addressing, Reception
<1>4. Addressing'  BY DEF Addressing, Wire, Control, Named, RegisterGoesOut
<1>5. Reception'
  <2>1. /\ Named /\ dir = "R" /\ ~sr.rxne /\ buf = << >> /\ (cr.pos <=> call.len = 2)
        /\ call.len > 1 => cr.ack  BY DEF Addressing
  <2>2. dr = Empty /\ sh = Empty /\ sent = << >> /\ ~sr.btf  BY DEF Wire
  <2>3. /\ sr'.btf = FALSE /\ sr'.rxne = FALSE /\ sr'.af = sr.af /\ bus' = "rx"
        /\ cr'.ack = (call.len # 1 /\ cr.ack) /\ cr'.pos = cr.pos
    BY <2>1, <2>2 DEF Types, RegisterTypes, ControlBits, StatusBits
  <2>4. InPipe'  BY <2>1, <2>2, <2>3 DEF InPipe
  <2>5. (ptr = call.reg + Len(sent) \/ sr.af)'
    BY <2>1, <2>2, <2>3 DEF Named, Types, CallTypes, Calls
  <2>6. call.len \in Nat /\ call.len > 0  BY DEF Control, Types, CallTypes, Calls
  <2>7. Len(buf') = 0 /\ buf' = << >>  BY <2>1
  <2>8. pc' = IF call.len = 1 THEN "n1stop" ELSE IF call.len = 2 THEN "n2ack"
              ELSE IF call.len = 3 THEN "three" ELSE "stream"
    BY <2>6
  <2>9. lat' = cr.ack /\ call' = call /\ dir' = "R"  BY <2>1
  <2> QED
    BY <2>1, <2>3, <2>4, <2>5, <2>6, <2>7, <2>8, <2>9 DEF Reception
<1>6. Ending'  BY DEF Ending, Reception, InPipe, ReadDone, Control, Addressing
<1> QED BY <1>1, <1>2, <1>3, <1>4, <1>5, <1>6

(* One byte: STOP before the byte comes. *)
LEMMA OneStopStep == ASSUME I2cInv, OneStop  PROVE I2cInv'
<1>0. pc = "n1stop"  BY AtPoint, FlagAt DEF OneStop
<1> USE <1>0 DEF I2cInv, OneStop, Goto, SameBus, Env
<1>1. Types'
  <2> USE DEF Types, RegisterTypes, ControlBits, StatusBits, BusTypes, CallTypes
  <2>1. RegisterTypes'  OBVIOUS
  <2>2. BusTypes'  OBVIOUS
  <2>3. CallTypes'  BY DEF Calls
  <2>4. FaultTypes'  BY DEF FaultTypes
  <2> QED BY <2>1, <2>2, <2>3, <2>4
<1> USE DEF Types, RegisterTypes, ControlBits, StatusBits, BusTypes, CallTypes
<1>2. Control'  BY DEF Control
<1>3. Wire'  BY DEF Wire, Control, Addressing, Reception
<1>4. Addressing'  BY DEF Addressing, Wire, Control, Named, RegisterGoesOut
<1>5. Reception'  BY DEF Reception, InPipe, Addressing, Control, Wire, Named
<1>6. Ending'  BY DEF Ending, Reception, InPipe, ReadDone, Control, Addressing
<1> QED BY <1>1, <1>2, <1>3, <1>4, <1>5, <1>6

(* One byte: it is all there is. *)
LEMMA OneReadStep == ASSUME I2cInv, OneRead  PROVE I2cInv'
<1>0. pc = "n1" /\ sr.rxne  BY AtPoint, FlagAt DEF OneRead
<1> USE <1>0 DEF I2cInv, OneRead, ReadDR, Goto, SameBus, Env
<1>a. ReadDR  BY DEF OneRead
<1>b. /\ dr' \in Byte /\ sh' \in Byte /\ sr' \in StatusBits
      /\ buf' \in Seq(Byte) /\ Len(buf') = Len(buf) + 1
  BY <1>a, ReadTypes DEF I2cInv, Types, CallTypes
<1>1. Types'
  <2> USE DEF Types, RegisterTypes, ControlBits, StatusBits, BusTypes, CallTypes
  <2>1. RegisterTypes'  BY <1>b
  <2>2. BusTypes'  OBVIOUS
  <2>3. CallTypes'  BY <1>b DEF Calls
  <2>4. FaultTypes'  BY DEF FaultTypes
  <2> QED BY <2>1, <2>2, <2>3, <2>4
<1> USE DEF Types, RegisterTypes, ControlBits, StatusBits, BusTypes, CallTypes
<1>2. Control'  BY <1>b DEF Control, Types, CallTypes, Calls, Reception
<1>3. Wire'  BY DEF Wire, Control, Addressing, Reception
<1>4. Addressing'  BY DEF Addressing, Wire, Control, Named, RegisterGoesOut
<1>5. Reception'  BY DEF Reception, InPipe, Addressing, Control, Wire, Named
<1>6. Ending'
  <2>1. /\ call.len = 1 /\ buf = << >> /\ ~sr.btf /\ InPipe /\ nacked
        /\ bus \in {"ended", "free"} /\ (bus # "free" => cr.stop)
        /\ ptr = call.reg + Len(sent) \/ sr.af  BY DEF Reception
  <2>2. sent = buf'  BY <2>1 DEF InPipe, ReadDR
  <2>3. Len(buf') = 1  BY <1>b, <2>1
  <2>4. sr'.af = sr.af  BY DEF ReadDR, Types, RegisterTypes, StatusBits
  <2>5. ReadDone'  BY <2>1, <2>2, <2>3, <2>4 DEF ReadDone
  <2> QED BY <2>1, <2>5 DEF Ending
<1> QED BY <1>1, <1>2, <1>3, <1>4, <1>5, <1>6

(* Two bytes: POS puts the NACK on the second one. *)
LEMMA TwoNackStep == ASSUME I2cInv, TwoNack  PROVE I2cInv'
<1>0. pc = "n2ack"  BY AtPoint, FlagAt DEF TwoNack
<1> USE <1>0 DEF I2cInv, TwoNack, Goto, SameBus, Env
<1>1. Types'
  <2> USE DEF Types, RegisterTypes, ControlBits, StatusBits, BusTypes, CallTypes
  <2>1. RegisterTypes'  OBVIOUS
  <2>2. BusTypes'  OBVIOUS
  <2>3. CallTypes'  BY DEF Calls
  <2>4. FaultTypes'  BY DEF FaultTypes
  <2> QED BY <2>1, <2>2, <2>3, <2>4
<1> USE DEF Types, RegisterTypes, ControlBits, StatusBits, BusTypes, CallTypes
<1>2. Control'  BY DEF Control
<1>3. Wire'  BY DEF Wire, Control, Addressing, Reception
<1>4. Addressing'  BY DEF Addressing, Wire, Control, Named, RegisterGoesOut
<1>5. Reception'  BY DEF Reception, InPipe, Addressing, Control, Wire, Named
<1>6. Ending'  BY DEF Ending, Reception, InPipe, ReadDone, Control, Addressing
<1> QED BY <1>1, <1>2, <1>3, <1>4, <1>5, <1>6

(* Two bytes: both are in the pipeline. *)
LEMMA TwoReadStep == ASSUME I2cInv, TwoRead  PROVE I2cInv'
<1>0. pc = "n2" /\ sr.btf  BY AtPoint, FlagAt DEF TwoRead
<1>b. buf = << >> /\ call.len = 2 /\ bus # "free" /\ InPipe /\ nacked
  BY <1>0 DEF I2cInv, Reception
<1>c. buf' = Append(Append(buf, dr), sh) /\ buf' \in Seq(Byte) /\ Len(buf') = 2
  BY <1>b, TwoBytes DEF I2cInv, Types, TwoRead
<1> USE <1>0 DEF I2cInv, TwoRead, Goto, SameBus, Env
<1>1. Types'
  <2> USE DEF Types, RegisterTypes, ControlBits, StatusBits, BusTypes, CallTypes
  <2>1. RegisterTypes'  OBVIOUS
  <2>2. BusTypes'  OBVIOUS
  <2>3. CallTypes'  BY <1>c DEF Calls
  <2>4. FaultTypes'  BY DEF FaultTypes
  <2> QED BY <2>1, <2>2, <2>3, <2>4
<1> USE DEF Types, RegisterTypes, ControlBits, StatusBits, BusTypes, CallTypes
<1>2. Control'  BY <1>b, <1>c DEF Control
<1>3. Wire'  BY DEF Wire, Control, Addressing, Reception
<1>4. Addressing'  BY DEF Addressing, Wire, Control, Named, RegisterGoesOut
<1>5. Reception'  BY DEF Reception, InPipe, Addressing, Control, Wire, Named
<1>6. Ending'
  <2>1. sent = buf'  BY <1>b, <1>c DEF InPipe
  <2>2. ptr = call.reg + Len(sent) \/ sr.af  BY DEF Reception
  <2>3. sr'.af = sr.af  BY DEF Types, RegisterTypes, StatusBits
  <2>4. ReadDone'  BY <2>1, <2>2, <2>3, <1>b, <1>c DEF ReadDone
  <2>5. cr'.stop /\ bus' \in {"ended", "free"}  BY DEF Types, RegisterTypes, ControlBits, Reception
  <2> QED BY <2>4, <2>5 DEF Ending
<1> QED BY <1>1, <1>2, <1>3, <1>4, <1>5, <1>6

(* More than three are left: one is read, the rest is in the pipeline. *)
LEMMA StreamStep == ASSUME I2cInv, Stream  PROVE I2cInv'
<1>0. pc = "stream" /\ sr.rxne  BY AtPoint, FlagAt DEF Stream
<1> USE <1>0 DEF I2cInv, Stream, ReadDR, Goto, SameBus, Env
<1>a. ReadDR  BY DEF Stream
<1>b. /\ dr' \in Byte /\ sh' \in Byte /\ sr' \in StatusBits
      /\ buf' \in Seq(Byte) /\ Len(buf') = Len(buf) + 1
  BY <1>a, ReadTypes DEF I2cInv, Types, CallTypes
<1>1. Types'
  <2> USE DEF Types, RegisterTypes, ControlBits, StatusBits, BusTypes, CallTypes
  <2>1. RegisterTypes'  BY <1>b
  <2>2. BusTypes'  OBVIOUS
  <2>3. CallTypes'  BY <1>b DEF Calls
  <2>4. FaultTypes'  BY DEF FaultTypes
  <2> QED BY <2>1, <2>2, <2>3, <2>4
<1> USE DEF Types, RegisterTypes, ControlBits, StatusBits, BusTypes, CallTypes
<1>2. Control'  BY <1>b DEF Control, Types, CallTypes, Calls, Reception
<1>3. Wire'  BY DEF Wire, Control, Addressing, Reception
<1>4. Addressing'  BY DEF Addressing, Wire, Control, Named, RegisterGoesOut
<1>5. Reception'
  <2>1. /\ bus \in {"rx", "ended", "free"} /\ dir = "R"
        /\ ptr = call.reg + Len(sent) \/ sr.af
        /\ bus # "free" => InPipe
        /\ bus = "free" => ~sr.btf
        /\ cr.pos <=> call.len = 2
        /\ call.len > 3 /\ Len(buf) + 4 <= call.len /\ cr.ack  BY DEF Reception
  <2>2. call' = call /\ bus' = bus /\ dir' = dir /\ cr' = cr /\ ptr' = ptr /\ sent' = sent
    OBVIOUS
  <2>3. sr'.af = sr.af /\ sr'.btf = FALSE /\ sr'.rxne = (sh # Empty)
    BY DEF ReadDR, Types, RegisterTypes, StatusBits
  <2>4. InPipe => InPipe'  BY <2>2, <2>3 DEF InPipe, ReadDR
  <2>5. Len(buf) \in Nat /\ call.len \in Nat /\ Len(buf') = Len(buf) + 1
    BY <1>b DEF Types, CallTypes, Calls
  <2>6. /\ pc' = IF call.len - Len(buf') > 3 THEN "stream" ELSE "three"
        /\ pc' = "stream" => Len(buf') + 4 <= call.len
        /\ pc' = "three" => Len(buf') + 3 = call.len
    BY <2>1, <2>5
  <2> QED BY <2>1, <2>2, <2>3, <2>4, <2>6 DEF Reception
<1>6. Ending'  BY DEF Ending, Reception, InPipe, ReadDone, Control, Addressing
<1> QED BY <1>1, <1>2, <1>3, <1>4, <1>5, <1>6

(* Three are left: two are in the pipeline, the NACK is for the third. *)
LEMMA ThreeStep == ASSUME I2cInv, Three  PROVE I2cInv'
<1>0. pc = "three" /\ sr.btf  BY AtPoint, FlagAt DEF Three
<1> USE <1>0 DEF I2cInv, Three, ReadDR, Goto, SameBus, Env
<1>a. ReadDR  BY DEF Three
<1>b. /\ dr' \in Byte /\ sh' \in Byte /\ sr' \in StatusBits
      /\ buf' \in Seq(Byte) /\ Len(buf') = Len(buf) + 1
  BY <1>a, ReadTypes DEF I2cInv, Types, CallTypes
<1>1. Types'
  <2> USE DEF Types, RegisterTypes, ControlBits, StatusBits, BusTypes, CallTypes
  <2>1. RegisterTypes'  BY <1>b
  <2>2. BusTypes'  OBVIOUS
  <2>3. CallTypes'  BY <1>b DEF Calls
  <2>4. FaultTypes'  BY DEF FaultTypes
  <2> QED BY <2>1, <2>2, <2>3, <2>4
<1> USE DEF Types, RegisterTypes, ControlBits, StatusBits, BusTypes, CallTypes
<1>2. Control'  BY <1>b DEF Control, Types, CallTypes, Calls, Reception
<1>3. Wire'  BY DEF Wire, Control, Addressing, Reception
<1>4. Addressing'  BY DEF Addressing, Wire, Control, Named, RegisterGoesOut
<1>5. Reception'  BY DEF Reception, InPipe, Addressing, Control, Wire, Named
<1>6. Ending'  BY DEF Ending, Reception, InPipe, ReadDone, Control, Addressing
<1> QED BY <1>1, <1>2, <1>3, <1>4, <1>5, <1>6

(* Two are left, in the pipeline. *)
LEMMA TwoStep == ASSUME I2cInv, Two  PROVE I2cInv'
<1>0. pc = "two" /\ sr.btf  BY AtPoint, FlagAt DEF Two
<1> USE <1>0 DEF I2cInv, Two, ReadDR, Goto, SameBus, Env
<1>a. ReadDR  BY DEF Two
<1>b. /\ dr' \in Byte /\ sh' \in Byte /\ sr' \in StatusBits
      /\ buf' \in Seq(Byte) /\ Len(buf') = Len(buf) + 1
  BY <1>a, ReadTypes DEF I2cInv, Types, CallTypes
<1>1. Types'
  <2> USE DEF Types, RegisterTypes, ControlBits, StatusBits, BusTypes, CallTypes
  <2>1. RegisterTypes'  BY <1>b
  <2>2. BusTypes'  OBVIOUS
  <2>3. CallTypes'  BY <1>b DEF Calls
  <2>4. FaultTypes'  BY DEF FaultTypes
  <2> QED BY <2>1, <2>2, <2>3, <2>4
<1> USE DEF Types, RegisterTypes, ControlBits, StatusBits, BusTypes, CallTypes
<1>2. Control'  BY <1>b DEF Control, Types, CallTypes, Calls, Reception
<1>3. Wire'  BY DEF Wire, Control, Addressing, Reception
<1>4. Addressing'  BY DEF Addressing, Wire, Control, Named, RegisterGoesOut
<1>5. Reception'
  <2>1. /\ bus = "ended" /\ nacked /\ InPipe /\ dir = "R" /\ call.len > 2 /\ ~cr.ack
        /\ Len(buf) + 2 = call.len /\ (ptr = call.reg + Len(sent) \/ sr.af)
        /\ cr.pos <=> call.len = 2
    BY DEF Reception
  <2>2. /\ pc' = "last" /\ bus' = "ended" /\ dir' = "R" /\ nacked' /\ cr'.stop
        /\ cr'.pos = cr.pos /\ cr'.ack = cr.ack
        /\ call' = call /\ ptr' = ptr /\ sent' = sent
    BY <2>1
  <2>3. sr'.btf = FALSE /\ sr'.rxne /\ sr'.af = sr.af /\ sh # Empty
    BY <2>1 DEF InPipe
  <2>4. InPipe'  BY <2>1, <2>2, <2>3 DEF InPipe
  <2>5. Len(buf') + 1 = call'.len  BY <1>b, <2>1, <2>2 DEF Calls
  <2>6. (ptr = call.reg + Len(sent) \/ sr.af)'  BY <2>1, <2>2, <2>3
  <2> HIDE DEF Two, ReadDR, I2cInv, Types, RegisterTypes, ControlBits, StatusBits, BusTypes,
              CallTypes, InPipe
  <2> QED BY <2>1, <2>2, <2>3, <2>4, <2>5, <2>6 DEF Reception
<1>6. Ending'  BY DEF Ending, Reception, InPipe, ReadDone, Control, Addressing
<1> QED BY <1>1, <1>2, <1>3, <1>4, <1>5, <1>6

(* The last one is in the pipeline. *)
LEMMA LastReadStep == ASSUME I2cInv, LastRead  PROVE I2cInv'
<1>0. pc = "last" /\ sr.rxne  BY AtPoint, FlagAt DEF LastRead
<1> USE <1>0 DEF I2cInv, LastRead, ReadDR, Goto, SameBus, Env
<1>a. ReadDR  BY DEF LastRead
<1>b. /\ dr' \in Byte /\ sh' \in Byte /\ sr' \in StatusBits
      /\ buf' \in Seq(Byte) /\ Len(buf') = Len(buf) + 1
  BY <1>a, ReadTypes DEF I2cInv, Types, CallTypes
<1>1. Types'
  <2> USE DEF Types, RegisterTypes, ControlBits, StatusBits, BusTypes, CallTypes
  <2>1. RegisterTypes'  BY <1>b
  <2>2. BusTypes'  OBVIOUS
  <2>3. CallTypes'  BY <1>b DEF Calls
  <2>4. FaultTypes'  BY DEF FaultTypes
  <2> QED BY <2>1, <2>2, <2>3, <2>4
<1> USE DEF Types, RegisterTypes, ControlBits, StatusBits, BusTypes, CallTypes
<1>2. Control'  BY <1>b DEF Control, Types, CallTypes, Calls, Reception
<1>3. Wire'  BY DEF Wire, Control, Addressing, Reception
<1>4. Addressing'  BY DEF Addressing, Wire, Control, Named, RegisterGoesOut
<1>5. Reception'  BY DEF Reception, InPipe, Addressing, Control, Wire, Named
<1>6. Ending'  BY DEF Ending, Reception, InPipe, ReadDone, Control, Addressing
<1> QED BY <1>1, <1>2, <1>3, <1>4, <1>5, <1>6

(* A transfer returns 0 once its STOP is out. *)
LEMMA StoppedStep == ASSUME I2cInv, Stopped  PROVE I2cInv'
<1>0. pc = "stop" /\ ~cr.stop  BY AtPoint, FlagAt DEF Stopped
<1> USE <1>0 DEF I2cInv, Stopped, Return, SameBus, Env
<1>1. Types'
  <2> USE DEF Types, RegisterTypes, ControlBits, StatusBits, BusTypes, CallTypes
  <2>1. RegisterTypes'  OBVIOUS
  <2>2. BusTypes'  OBVIOUS
  <2>3. CallTypes'  BY DEF Calls
  <2>4. FaultTypes'  BY DEF FaultTypes
  <2> QED BY <2>1, <2>2, <2>3, <2>4
<1> USE DEF Types, RegisterTypes, ControlBits, StatusBits, BusTypes, CallTypes
<1>2. Control'  BY DEF Control
<1>3. Wire'  BY DEF Wire, Control, Addressing, Reception
<1>4. Addressing'  BY DEF Addressing, Wire, Control, Named, RegisterGoesOut
<1>5. Reception'  BY DEF Reception, InPipe, Addressing, Control, Wire, Named
<1>6. Ending'  BY DEF Ending, Reception, InPipe, ReadDone, Control, Addressing
<1> QED BY <1>1, <1>2, <1>3, <1>4, <1>5, <1>6

(* The bus does not move between the clearing of ADDR and that of ACK. *)
LEMMA BusStepPoint == ASSUME BusStep  PROVE pc # "n2ack"
<1> SUFFICES ASSUME pc = "n2ack"  PROVE FALSE
  OBVIOUS
<1>1. Flag  BY DEF Flag
<1> QED BY <1>1 DEF BusStep, Blocked

(* A step of the bus keeps to its bounds. *)
LEMMA BusStepFaults ==
  ASSUME FaultTypes, BusStep,
         NoAnswer \/ \E ack \in BOOLEAN, there \in BOOLEAN : Answer(ack, there)
  PROVE  FaultTypes'
<1>1. late' \in 0 .. MaxLate  BY DEF BusStep, FaultTypes
<1>2. hurt' \in BOOLEAN /\ faults' \in 0 .. MaxFaults
  BY DEF FaultTypes, NoAnswer, Answer
<1> QED BY <1>1, <1>2 DEF FaultTypes

(* A START goes out. *)
LEMMA StartOutStep == ASSUME I2cInv, StartOut  PROVE I2cInv'
<1>0. pc # "n2ack" /\ UNCHANGED << stuck, call, pc, buf, rc >>
  BY BusStepPoint DEF StartOut, BusStep
<1>f. FaultTypes'  BY BusStepFaults DEF StartOut, I2cInv, Types
<1>p. pc \in {"idle", "free", "sbW", "sbR"}  BY DEF I2cInv, StartOut, Addressing, Types, CallTypes
<1> USE <1>0 DEF I2cInv, StartOut, NoAnswer, Drained
<1>1. Types'
  <2> USE DEF Types, RegisterTypes, ControlBits, StatusBits, BusTypes, CallTypes
  <2>1. RegisterTypes'  OBVIOUS
  <2>2. BusTypes'  OBVIOUS
  <2>3. CallTypes'  BY DEF Calls
  <2> QED BY <2>1, <2>2, <2>3, <1>f
<1> USE DEF Types, RegisterTypes, ControlBits, StatusBits, BusTypes, CallTypes
<1>2. Control'  BY DEF Control
<1>3. Wire'  BY DEF Wire
<1>4. Addressing'
  <2>1. /\ bus' = "started" /\ sr'.sb = TRUE /\ sr'.af = sr.af /\ cr'.pos = cr.pos
        /\ cr'.start = FALSE /\ dir' = dir  BY DEF Types, RegisterTypes, ControlBits, StatusBits
  <2>2. pc = "sbR" => Named  BY DEF Addressing, RegisterGoesOut, Named, Types, CallTypes, Calls
  <2>3. pc = "sbR" => Named'  BY <2>1, <2>2 DEF Named
  <2> QED BY <1>p, <2>1, <2>3 DEF Addressing, RegisterGoesOut
<1>5. Reception'
  BY <1>p DEF Reception, InPipe, Control, Wire
<1>6. Ending'  BY DEF Ending, ReadDone, Control, Addressing
<1> QED BY <1>1, <1>2, <1>3, <1>4, <1>5, <1>6

(* The device hears its address, or is not there. *)
LEMMA AddressOutStep ==
  ASSUME I2cInv, NEW ack \in BOOLEAN, NEW there \in BOOLEAN, AddressOut(ack, there)
  PROVE  I2cInv'
<1>0. pc # "n2ack" /\ UNCHANGED << stuck, call, pc, buf, rc >>
  BY BusStepPoint DEF AddressOut, BusStep
<1>f. FaultTypes'  BY BusStepFaults DEF AddressOut, I2cInv, Types
<1>p. pc \in {"idle", "free", "addrW", "addrR"}
  BY DEF I2cInv, AddressOut, Addressing, Reception, Ending, Types, CallTypes
<1> USE <1>0 DEF I2cInv, AddressOut
<1>1. Types'
  <2> USE DEF Types, RegisterTypes, ControlBits, StatusBits, BusTypes, CallTypes
  <2>1. RegisterTypes'  OBVIOUS
  <2>2. BusTypes'
    <3>1. bus' \in {"addressed", "ended"} /\ sent' \in Seq(Nat)  BY EmptySeq
    <3> QED BY <3>1
  <2>3. CallTypes'  BY DEF Calls
  <2> QED BY <2>1, <2>2, <2>3, <1>f
<1> USE DEF Types, RegisterTypes, ControlBits, StatusBits, BusTypes, CallTypes
<1>2. Control'  BY DEF Control
<1>3. Wire'  BY DEF Wire
<1>4. Addressing'
  <2>1. /\ bus' \in {"addressed", "ended"} /\ cr' = cr /\ dir' = dir /\ ptr' = ptr
        /\ sr'.rxne = sr.rxne /\ (sr.af => sr'.af)
          BY DEF Types, RegisterTypes, ControlBits, StatusBits
  <2>2. pc = "addrR" => Named'  BY <2>1 DEF Addressing, Named
  <2> QED BY <1>p, <2>1, <2>2 DEF Addressing, RegisterGoesOut
<1>5. Reception'  BY DEF Reception, InPipe, Control, Wire
<1>6. Ending'  BY DEF Ending, ReadDone, Control, Addressing
<1> QED BY <1>1, <1>2, <1>3, <1>4, <1>5, <1>6

(* A byte goes out and is acknowledged or refused. *)
LEMMA ByteOutStep == ASSUME I2cInv, NEW ack \in BOOLEAN, ByteOut(ack)  PROVE I2cInv'
<1>0. pc # "n2ack" /\ UNCHANGED << stuck, call, pc, buf, rc >>
  BY BusStepPoint DEF ByteOut, BusStep
<1>f. FaultTypes'  BY BusStepFaults DEF ByteOut, I2cInv, Types
<1> USE <1>0 DEF I2cInv, ByteOut
<1>1. Types'
  <2> USE DEF Types, RegisterTypes, ControlBits, StatusBits, BusTypes, CallTypes
  <2>1. RegisterTypes'  OBVIOUS
  <2>2. BusTypes'  OBVIOUS
  <2>3. CallTypes'  BY DEF Calls
  <2> QED BY <2>1, <2>2, <2>3, <1>f
<1> USE DEF Types, RegisterTypes, ControlBits, StatusBits, BusTypes, CallTypes
<1>2. Control'  BY DEF Control
<1>3. Wire'  BY DEF Wire
<1>4. Addressing'  BY DEF Addressing, Wire, Control, Named, RegisterGoesOut
<1>5. Reception'  BY DEF Reception, InPipe, Control, Wire
<1>6. Ending'  BY DEF Ending, ReadDone, Control, Addressing
<1> QED BY <1>1, <1>2, <1>3, <1>4, <1>5, <1>6

(* A byte comes in: the pipeline has room and the driver expects it. *)
LEMMA ByteInStep == ASSUME I2cInv, NEW v \in Nat, ByteIn(v)  PROVE I2cInv'
<1>0. pc # "n2ack" /\ UNCHANGED << stuck, call, pc, buf, rc >>
  BY BusStepPoint DEF ByteIn, BusStep
<1>f. FaultTypes'  BY BusStepFaults DEF ByteIn, I2cInv, Types
<1>p. pc \in {"idle", "free"} \cup (Receiving \ {"n2ack", "last"})
  BY <1>0 DEF I2cInv, ByteIn, Addressing, Reception, Ending, Types, CallTypes
<1> USE <1>0 DEF I2cInv, ByteIn, NoAnswer
<1>1. Types'
  <2> USE DEF Types, RegisterTypes, ControlBits, StatusBits, BusTypes, CallTypes
  <2>1. RegisterTypes'  OBVIOUS
  <2>2. BusTypes'  OBVIOUS
  <2>3. CallTypes'  BY DEF Calls
  <2> QED BY <2>1, <2>2, <2>3, <1>f
<1> USE DEF Types, RegisterTypes, ControlBits, StatusBits, BusTypes, CallTypes
<1>2. Control'  BY DEF Control
<1>a. bus = "rx" /\ sh = Empty /\ ~sr.btf  BY DEF Wire
<1>b. /\ bus' \in {"rx", "ended"} /\ cr' = cr /\ dir' = dir /\ sent' = Append(sent, v)
      /\ ptr' = ptr + 1 /\ lat' = cr.ack /\ sr'.rxne = TRUE /\ sr'.af = sr.af
      /\ sr'.sb = sr.sb /\ sr'.addr = sr.addr
      /\ sr.rxne => sh' = v /\ sr'.btf = TRUE /\ dr' = dr
      /\ ~sr.rxne => dr' = v /\ sr'.btf = FALSE /\ sh' = sh
  BY <1>a DEF Types, RegisterTypes, StatusBits, ControlBits
<1>c. bus' = "rx" <=> (IF cr.pos THEN lat ELSE cr.ack) /\ ~cr.stop
  OBVIOUS
<1>d. nacked' <=> ~(IF cr.pos THEN lat ELSE cr.ack)
  OBVIOUS
<1>3. Wire'  BY <1>a, <1>b DEF Wire
<1>4. Addressing'  BY DEF Addressing, Wire, Control, Named, RegisterGoesOut
<1>5. Reception'
  <2>1. pc \notin Receiving => Reception'  BY DEF Reception
  <2> SUFFICES ASSUME pc \in Receiving  PROVE Reception'
    BY <2>1
  <2>2. InPipe  BY <1>a DEF Reception
  <2>3. InPipe'  BY <1>a, <1>b, <2>2 DEF InPipe
  <2>4. (ptr = call.reg + Len(sent) \/ sr.af)'
    <3>1. Len(sent') = Len(sent) + 1 /\ Len(sent) \in Nat  BY <1>b DEF Types, BusTypes
    <3>2. ptr = call.reg + Len(sent) \/ sr.af  BY DEF Reception
    <3> QED BY <1>b, <3>1, <3>2 DEF Types, CallTypes, Calls
  <2>5. dir = "R" /\ (cr.pos <=> call.len = 2)  BY DEF Reception
  <2>6. CASE pc \in OneByte
    <3>1. ~sr.rxne /\ ~cr.pos /\ ~cr.ack  BY <1>a, <2>6 DEF Reception
    <3> QED BY <1>b, <1>c, <1>d, <2>3, <2>4, <2>5, <2>6, <3>1 DEF Reception
  <2>7. CASE pc = "n2"
    <3>1. cr.pos /\ ~cr.ack /\ (lat <=> ~sr.rxne)  BY <1>a, <2>7 DEF Reception
    <3> QED BY <1>b, <1>c, <1>d, <2>3, <2>4, <2>5, <2>7, <3>1 DEF Reception
  <2>8. CASE pc = "stream" \/ pc = "three"
    BY <1>b, <2>3, <2>4, <2>5, <2>8 DEF Reception
  <2>9. CASE pc = "two"
    <3>1. sr.rxne /\ ~cr.pos /\ ~cr.ack  BY <1>a, <2>9 DEF Reception
    <3> QED BY <1>b, <1>c, <1>d, <2>3, <2>4, <2>5, <2>9, <3>1 DEF Reception
  <2> QED BY <1>p, <2>6, <2>7, <2>8, <2>9
<1>6. Ending'  BY DEF Ending, ReadDone, Control, Addressing
<1> QED BY <1>1, <1>2, <1>3, <1>4, <1>5, <1>6

(* A STOP goes out and empties the shift register. *)
LEMMA StopOutStep == ASSUME I2cInv, StopOut  PROVE I2cInv'
<1>0. pc # "n2ack" /\ UNCHANGED << stuck, call, pc, buf, rc >>
  BY BusStepPoint DEF StopOut, BusStep
<1>f. FaultTypes'  BY BusStepFaults DEF StopOut, I2cInv, Types
<1> USE <1>0 DEF I2cInv, StopOut, NoAnswer
<1>1. Types'
  <2> USE DEF Types, RegisterTypes, ControlBits, StatusBits, BusTypes, CallTypes
  <2>1. RegisterTypes'  OBVIOUS
  <2>2. BusTypes'  OBVIOUS
  <2>3. CallTypes'  BY DEF Calls
  <2> QED BY <2>1, <2>2, <2>3, <1>f
<1> USE DEF Types, RegisterTypes, ControlBits, StatusBits, BusTypes, CallTypes
<1>2. Control'  BY DEF Control
<1>3. Wire'  BY DEF Wire
<1>4. Addressing'
  <2>1. /\ bus' = "free" /\ dir' = dir /\ sr'.txe = FALSE /\ sr'.af = sr.af
        /\ sr'.rxne = sr.rxne /\ cr'.pos = cr.pos /\ cr'.ack = cr.ack
        /\ cr'.start => cr.start  BY DEF Types, RegisterTypes, ControlBits, StatusBits
  <2>2. pc \in {"sbR", "addrR"} => Named
    BY DEF Addressing, RegisterGoesOut, Named, Types, CallTypes, Calls
  <2>3. pc \in {"sbR", "addrR"} => Named'  BY <2>1, <2>2 DEF Named
  <2> QED BY <2>1, <2>3 DEF Addressing, RegisterGoesOut
<1>5. Reception'  BY DEF Reception, InPipe, Control, Wire
<1>6. Ending'  BY DEF Ending, ReadDone, Control, Addressing
<1> QED BY <1>1, <1>2, <1>3, <1>4, <1>5, <1>6

(* A new transfer may find whatever the last one left. *)
LEMMA TransferStep ==
  ASSUME I2cInv, NEW op \in {"write", "read"}, NEW reg \in Nat, NEW len \in Nat, NEW data \in Nat,
         pc = "idle", op = "read" <=> len > 0, Transfer(op, reg, len, data)
  PROVE  I2cInv'
<1>0. call' \in Calls /\ call'.op = op /\ call'.reg = reg /\ call'.len = len
  BY DEF Transfer, Calls
<1> USE <1>0 DEF I2cInv, Transfer, hwVars, Traces
<1>1. Types'
  <2> USE DEF Types, RegisterTypes, ControlBits, StatusBits, BusTypes, CallTypes
  <2>1. RegisterTypes'  OBVIOUS
  <2>2. BusTypes'  OBVIOUS
  <2>3. CallTypes'  OBVIOUS
  <2>4. FaultTypes'  BY DEF FaultTypes
  <2> QED BY <2>1, <2>2, <2>3, <2>4
<1>2. Control'  BY DEF Control
<1>3. Wire'  BY DEF Wire
<1>4. Addressing'  BY DEF Addressing
<1>5. Reception'  BY DEF Reception
<1>6. Ending'  BY DEF Ending
<1> QED BY <1>1, <1>2, <1>3, <1>4, <1>5, <1>6

(* A bus that is held loses nothing. *)
LEMMA StickStep == ASSUME I2cInv, Stick \/ Unstick  PROVE I2cInv'
<1> USE DEF I2cInv, Stick, Unstick, hwVars
<1>1. Types'
  <2> USE DEF Types, RegisterTypes, ControlBits, StatusBits, BusTypes, CallTypes
  <2>1. RegisterTypes'  OBVIOUS
  <2>2. BusTypes'  OBVIOUS
  <2>3. CallTypes'  OBVIOUS
  <2>4. FaultTypes'
    <3>1. CASE Stick
      <4>1. faults \in 0 .. MaxFaults /\ faults < MaxFaults  BY <3>1 DEF FaultTypes
      <4>2. faults' = faults + 1 /\ late' = late /\ hurt' = TRUE  BY <3>1
      <4> QED BY <4>1, <4>2 DEF FaultTypes
    <3>2. CASE Unstick  BY <3>2 DEF FaultTypes
    <3> QED BY <3>1, <3>2
  <2> QED BY <2>1, <2>2, <2>3, <2>4
<1>2. Control'  BY DEF Control
<1>3. Wire'  BY DEF Wire
<1>4. Addressing'  BY DEF Addressing, Named, RegisterGoesOut
<1>5. Reception'  BY DEF Reception, InPipe
<1>6. Ending'  BY DEF Ending, ReadDone
<1> QED BY <1>1, <1>2, <1>3, <1>4, <1>5, <1>6
(* What the registers read as that a measurement looks at. *)
LEMMA RegisterValues ==
  ASSUME SensorTypes, NEW r \in Nat
  PROVE  /\ Register(r) \in Nat
         /\ r = BMP280_REG_ID => Register(r) = BMP280_CHIP_ID
         /\ r = BMP280_REG_CTRL_MEAS => Register(r) = dev.mode
         /\ r \in BMP280_REG_PRESS_MSB .. BMP280_REG_PRESS_MSB + DATA_LEN - 1 =>
              Register(r) = IF dev.fresh THEN 1 ELSE 0
         /\ r = BMP280_REG_STATUS /\ ~Bit(Register(r), BMP280_STATUS_IM_UPDATE) => Copied
         /\ r \in 1 .. CALIB_LEN /\ Copied => Register(r) = Memory[r]
<1> USE Bmp280Assumption
<1> USE DEF BMP280_REG_ID, BMP280_REG_CALIB, BMP280_REG_STATUS, BMP280_REG_CTRL_MEAS,
        BMP280_REG_CONFIG, BMP280_REG_PRESS_MSB
<1>0. dev.mode \in Nat /\ dev.config \in Nat  BY DEF SensorTypes, Sensors
<1> DEFINE Results == BMP280_REG_PRESS_MSB .. BMP280_REG_PRESS_MSB + DATA_LEN - 1
<1>1. CASE r = BMP280_REG_ID
  <2>1. /\ r \notin BMP280_REG_CALIB .. CALIB_LEN
        /\ r # BMP280_REG_STATUS /\ r # BMP280_REG_CTRL_MEAS
        /\ r # BMP280_REG_CONFIG /\ r \notin Results
    BY <1>1
  <2>2. Register(r) = BMP280_CHIP_ID
    BY <1>1, <2>1, Zenon DEF Register
  <2> QED BY <1>0, <1>1, <2>1, <2>2 DEF BMP280_CHIP_ID
<1>2. CASE r \in BMP280_REG_CALIB .. CALIB_LEN
  <2>1. /\ r # BMP280_REG_ID /\ r # BMP280_REG_STATUS /\ r # BMP280_REG_CTRL_MEAS
        /\ r # BMP280_REG_CONFIG /\ r \notin Results
    BY <1>2
  <2>2. Register(r) = IF r <= dev.copied THEN Memory[r] ELSE 0
    BY <1>2, <2>1, Zenon DEF Register
  <2> QED BY <1>0, <1>2, <2>1, <2>2 DEF Memory, Copied
<1>3. CASE r = BMP280_REG_STATUS
  <2>1. /\ r # BMP280_REG_ID /\ r \notin BMP280_REG_CALIB .. CALIB_LEN /\ r # BMP280_REG_CTRL_MEAS
        /\ r # BMP280_REG_CONFIG /\ r \notin Results
    BY <1>3
  <2>2. Register(r) = (IF dev.conv = "on" THEN BMP280_STATUS_MEASURING ELSE 0)
                        + (IF Copied THEN 0 ELSE BMP280_STATUS_IM_UPDATE)
    BY <1>3, <2>1, Zenon DEF Register
  <2>3. Bit(1, BMP280_STATUS_IM_UPDATE) /\ Bit(9, BMP280_STATUS_IM_UPDATE)
    BY DEF Bit, BMP280_STATUS_IM_UPDATE
  <2>4. Register(r) \in {0, 8, 1, 9} /\ (~Copied => Register(r) \in {1, 9})
    BY <2>2 DEF BMP280_STATUS_MEASURING, BMP280_STATUS_IM_UPDATE
  <2> QED BY <1>3, <2>1, <2>3, <2>4
<1>4. CASE r = BMP280_REG_CTRL_MEAS
  <2>1. /\ r # BMP280_REG_ID /\ r \notin BMP280_REG_CALIB .. CALIB_LEN /\ r # BMP280_REG_STATUS
        /\ r # BMP280_REG_CONFIG /\ r \notin Results
    BY <1>4
  <2>2. Register(r) = dev.mode
    BY <1>4, <2>1, Zenon DEF Register
  <2> QED BY <1>0, <1>4, <2>1, <2>2
<1>5. CASE r = BMP280_REG_CONFIG
  <2>1. /\ r # BMP280_REG_ID /\ r \notin BMP280_REG_CALIB .. CALIB_LEN /\ r # BMP280_REG_STATUS
        /\ r # BMP280_REG_CTRL_MEAS /\ r \notin Results
    BY <1>5
  <2>2. Register(r) = dev.config
    BY <1>5, <2>1, Zenon DEF Register
  <2> QED BY <1>0, <1>5, <2>1, <2>2
<1>6. CASE r \in Results
  <2>1. /\ r # BMP280_REG_ID /\ r \notin BMP280_REG_CALIB .. CALIB_LEN /\ r # BMP280_REG_STATUS
        /\ r # BMP280_REG_CTRL_MEAS /\ r # BMP280_REG_CONFIG
    BY <1>6
  <2>2. Register(r) = IF dev.fresh THEN 1 ELSE 0
    BY <1>6, <2>1, Zenon DEF Register
  <2> QED BY <1>0, <1>6, <2>1, <2>2
<1>7. CASE /\ r # BMP280_REG_ID /\ r \notin BMP280_REG_CALIB .. CALIB_LEN /\ r # BMP280_REG_STATUS
           /\ r # BMP280_REG_CTRL_MEAS /\ r # BMP280_REG_CONFIG /\ r \notin Results
  <2>1. Register(r) = 0  BY <1>7, Zenon DEF Register
  <2> QED BY <1>7, <2>1
<1> QED BY <1>1, <1>2, <1>3, <1>4, <1>5, <1>6, <1>7

(* What a byte written to the sensor makes of it. *)
LEMMA TookTypes ==
  ASSUME SensorTypes, NEW r, NEW v, Commanded(r, v), dev' = Took(r, v),
         UNCHANGED << bmp, calib, out, trouble >>
  PROVE  /\ Onward
         /\ bmp \in Measuring => Begun'
         /\ bmp = "reset" => dev'.config = 0
         /\ bmp \notin {"reset", "halt"} => dev'.there = dev.there
<1> USE Bmp280Assumption DEF Onward
<1> USE DEF BMP280_REG_RESET, BMP280_REG_CONFIG, BMP280_REG_CTRL_MEAS
<1>1. CASE r = BMP280_REG_RESET /\ v = BMP280_RESET_CMD /\ bmp \in {"reset", "halt"}
  <2>1. r # BMP280_REG_CONFIG /\ r # BMP280_REG_CTRL_MEAS  BY <1>1
  <2>2. Took(r, v) = [there |-> FALSE, copied |-> 0, mode |-> 0, conv |-> "none",
                      fresh |-> FALSE, config |-> 0]
    BY <1>1, <2>1, Zenon DEF Took
  <2>3. dev' \in Sensors /\ dev'.mode = 0 /\ dev'.conv = "none" /\ dev'.config = 0
    <3>1. 0 \in 0 .. CALIB_LEN  OBVIOUS
    <3>2. [there |-> FALSE, copied |-> 0, mode |-> 0, conv |-> "none", fresh |-> FALSE,
           config |-> 0] \in Sensors
      BY <3>1 DEF Sensors
    <3>3. dev' \in Sensors  BY <2>2, <3>2
    <3> QED BY <2>2, <3>3
  <2> QED BY <1>1, <2>3 DEF SensorTypes, Measuring
<1>2. CASE r = BMP280_REG_CONFIG /\ v = 0 /\ bmp \in {"config", "halt"}
  <2>1. r # BMP280_REG_RESET /\ r # BMP280_REG_CTRL_MEAS  BY <1>2
  <2>2. Took(r, v) = IF dev.mode = 0 THEN [dev EXCEPT !.config = v] ELSE dev
    <3>1. CASE dev.mode = 0
      <4>1. Took(r, v) = [dev EXCEPT !.config = v]  BY <1>2, <2>1, <3>1, Zenon DEF Took
      <4> QED BY <3>1, <4>1
    <3>2. CASE dev.mode # 0
      <4>1. Took(r, v) = dev  BY <1>2, <2>1, <3>2, Zenon DEF Took
      <4> QED BY <3>2, <4>1
    <3> QED BY <3>1, <3>2
  <2> QED BY <1>2, <2>2 DEF SensorTypes, Sensors, Copied, Measuring
<1>3. CASE r = BMP280_REG_CTRL_MEAS /\ v = BMP280_CTRL_MEAS_FORCED /\ bmp \in Measuring
  <2>1. r # BMP280_REG_RESET /\ r # BMP280_REG_CONFIG  BY <1>3
  <2>2. Took(r, v) = IF dev.conv = "none" THEN [dev EXCEPT !.mode = 1, !.conv = "asked"]
                                          ELSE dev
    <3>1. CASE dev.conv = "none"
      <4>1. Took(r, v) = [dev EXCEPT !.mode = 1, !.conv = "asked"]
        BY <1>3, <2>1, <3>1, Zenon DEF Took
      <4> QED BY <3>1, <4>1
    <3>2. CASE dev.conv # "none"
      <4>1. Took(r, v) = dev  BY <1>3, <2>1, <3>2, Zenon DEF Took
      <4> QED BY <3>2, <4>1
    <3> QED BY <3>1, <3>2
  <2> QED BY <1>3, <2>2 DEF SensorTypes, Sensors, Begun, Copied, Measuring
<1> QED BY <1>1, <1>2, <1>3 DEF Commanded

(* While a byte can come, the device has not sent all that was asked for. *)
LEMMA RoomLeft ==
  ASSUME I2cInv, bus = "rx", sh = Empty, pc \in Receiving
  PROVE  Len(sent) \in Nat /\ Len(sent) < call.len
<1>1. InPipe /\ ~sr.btf  BY DEF I2cInv, Reception, Wire
<1>2. Len(buf) \in Nat /\ sent = IF sr.rxne THEN Append(buf, dr) ELSE buf
  BY <1>1 DEF InPipe, I2cInv, Types, CallTypes
<1>3. Len(sent) = IF sr.rxne THEN Len(buf) + 1 ELSE Len(buf)
  BY <1>2, AppendProperties DEF I2cInv, Types, CallTypes, RegisterTypes
<1>4. call.len \in Nat  BY DEF I2cInv, Types, CallTypes, Calls
<1>5. pc \in OneByte => call.len = 1 /\ Len(buf) = 0 /\ ~sr.rxne  BY DEF I2cInv, Reception
<1>6. pc \in {"n2ack", "n2"} => call.len = 2 /\ Len(buf) = 0  BY DEF I2cInv, Reception
<1>7. pc \in {"stream", "three"} => Len(buf) + 3 <= call.len
  BY <1>2, <1>4 DEF I2cInv, Reception
<1>8. pc = "two" => Len(buf) + 2 = call.len  BY DEF I2cInv, Reception
<1>9. pc # "last"  BY DEF I2cInv, Reception
<1> QED BY <1>2, <1>3, <1>4, <1>5, <1>6, <1>7, <1>8, <1>9

(* What a step of the driver leaves alone, and when it looks past a refusal. *)
LEMMA DriverLeaves ==
  ASSUME I2cInv, Driver
  PROVE  /\ pc # "idle" /\ UNCHANGED << call, ptr, first, sent, faults >>
         /\ sr'.af => sr.af
         /\ \/ pc' = "idle" /\ rc' = -1
            \/ /\ sr'.af = sr.af
               /\ Heard' => Heard \/ sent = << >> \/ call.op = "write"
<1> USE DEF SameBus, Env, Goto, Heard
<1>1. CASE GiveUp
  BY <1>1 DEF GiveUp, Return, I2cInv, Types, RegisterTypes, StatusBits
<1>2. CASE BusFree  BY <1>2, AtPoint DEF BusFree
<1>3. CASE Started
  BY <1>3, AtPoint DEF Started, WriteDR, I2cInv, Types, RegisterTypes, StatusBits
<1>4. CASE AddressedW
  BY <1>4, AtPoint DEF AddressedW, ClearAddr, I2cInv, Types, RegisterTypes, StatusBits
<1>5. CASE WriteReg
  BY <1>5, AtPoint DEF WriteReg, WriteDR, I2cInv, Types, RegisterTypes, StatusBits
<1>6. CASE RegWritten
  BY <1>6, AtPoint DEF RegWritten, WriteDR, I2cInv, Types, RegisterTypes, StatusBits
<1>7. CASE DataWritten
  BY <1>7, AtPoint DEF DataWritten, I2cInv, Control
<1>8. CASE Restarted
  BY <1>8, AtPoint DEF Restarted, WriteDR, I2cInv, Types, RegisterTypes, StatusBits
<1>9. CASE AddressedR
  <2>1. pc = "addrR" /\ sr.addr  BY <1>9, AtPoint, FlagAt DEF AddressedR
  <2>2. sent = << >>  BY <2>1 DEF I2cInv, Wire
  <2> QED BY <1>9, <2>1, <2>2
          DEF AddressedR, ClearAddr, I2cInv, Types, RegisterTypes, StatusBits
<1>10. CASE OneStop  BY <1>10, AtPoint DEF OneStop
<1>11. CASE OneRead
  BY <1>11, AtPoint DEF OneRead, ReadDR, I2cInv, Types, RegisterTypes, StatusBits
<1>12. CASE TwoNack  BY <1>12, AtPoint DEF TwoNack
<1>13. CASE TwoRead
  BY <1>13, AtPoint DEF TwoRead, I2cInv, Types, RegisterTypes, StatusBits
<1>14. CASE Stream
  BY <1>14, AtPoint DEF Stream, ReadDR, I2cInv, Types, RegisterTypes, StatusBits
<1>15. CASE Three
  BY <1>15, AtPoint DEF Three, ReadDR, I2cInv, Types, RegisterTypes, StatusBits
<1>16. CASE Two
  BY <1>16, AtPoint DEF Two, ReadDR, I2cInv, Types, RegisterTypes, StatusBits
<1>17. CASE LastRead
  BY <1>17, AtPoint DEF LastRead, ReadDR, I2cInv, Types, RegisterTypes, StatusBits
<1>18. CASE Stopped  BY <1>18, AtPoint DEF Stopped, Return
<1> QED BY <1>1, <1>2, <1>3, <1>4, <1>5, <1>6, <1>7, <1>8, <1>9, <1>10, <1>11, <1>12,
           <1>13, <1>14, <1>15, <1>16, <1>17, <1>18 DEF Driver

(* The write that is going on is one of the commands of its stage. *)
LEMMA CallIsCommand ==
  ASSUME I2cInv, SensorTypes, Requests, pc # "idle", call.op = "write"
  PROVE  Commanded(call.reg, call.data)
<1>1. bmp \in {"reset", "config", "force"}
  BY DEF SensorTypes, Stages, Requests, Reads
<1> QED BY <1>1 DEF Requests, Writes, Commanded, Measuring

(* The driver puts nothing on the wire but the register and byte of its call. *)
LEMMA DriverCommands ==
  ASSUME I2cInv, SensorTypes, Requests, CommandGoesOut, Driver, UNCHANGED bmpVars
  PROVE  CommandGoesOut'
<1>0. pc # "idle" /\ UNCHANGED << call, ptr, first, sent, bmp >>
  BY DriverLeaves DEF bmpVars
<1> USE DEF SameBus, Env, Goto
<1>1. CASE GiveUp  BY <1>0, <1>1 DEF CommandGoesOut, Commanded, GiveUp
<1>2. CASE BusFree  BY <1>0, <1>2 DEF CommandGoesOut, Commanded, BusFree
<1>3. CASE Started \/ Restarted
  <2>1. sr.sb  BY <1>3, FlagAt DEF Started, Restarted
  <2>2. bus = "started" /\ bus' = bus  BY <1>3, <2>1 DEF I2cInv, Wire, Started, Restarted
  <2> QED BY <2>2 DEF CommandGoesOut, Commanded
<1>4. CASE AddressedW
  <2>1. pc = "addrW" /\ sr.addr  BY <1>4, AtPoint, FlagAt DEF AddressedW
  <2>2. dr = Empty /\ first  BY <2>1 DEF I2cInv, Wire
  <2> QED BY <1>0, <1>4, <2>2 DEF CommandGoesOut, Commanded, AddressedW, ClearAddr
<1>5. CASE WriteReg
  <2>1. pc = "writereg" /\ bus' = bus  BY <1>5, AtPoint DEF WriteReg
  <2>2. bus = "tx" => first /\ sh = Empty  BY <2>1 DEF I2cInv, Addressing
  <2> QED BY <1>0, <1>5, <2>1, <2>2 DEF CommandGoesOut, Commanded, WriteReg, WriteDR
<1>6. CASE RegWritten
  <2>1. pc = "reg" /\ bus' = bus  BY <1>6, AtPoint DEF RegWritten
  <2>2. RegisterGoesOut  BY <2>1 DEF I2cInv, Addressing
  <2>3. CASE call.op = "write"
    <3>1. Commanded(call.reg, call.data)
      BY <1>0, <2>3, CallIsCommand
    <3>2. WriteDR(call.data)  BY <1>6, <2>3 DEF RegWritten
    <3>3. call.reg # Empty  BY DEF I2cInv, Types, CallTypes, Calls
    <3>4. CASE sh = Empty /\ bus = "tx"
      <4>1. ~first /\ ptr = call.reg  BY <2>2, <3>3, <3>4 DEF RegisterGoesOut
      <4>2. sh' = call.data /\ dr' = Empty  BY <3>2, <3>4 DEF WriteDR
      <4> QED BY <1>0, <3>1, <4>1, <4>2 DEF CommandGoesOut, Commanded
    <3>5. CASE sh # Empty /\ bus = "tx"
      <4>1. first /\ sh = call.reg  BY <2>2, <3>5 DEF RegisterGoesOut
      <4>2. dr' = call.data /\ sh' = sh  BY <3>2, <3>5 DEF WriteDR
      <4> QED BY <1>0, <3>1, <4>1, <4>2 DEF CommandGoesOut, Commanded
    <3> QED BY <2>1, <3>4, <3>5 DEF CommandGoesOut, Commanded
  <2>4. CASE call.op # "write"
    BY <1>0, <1>6, <2>1, <2>4 DEF CommandGoesOut, Commanded, RegWritten
  <2> QED BY <2>3, <2>4
<1>7. CASE DataWritten  BY <1>0, <1>7 DEF CommandGoesOut, Commanded, DataWritten
<1>8. CASE AddressedR
  <2>1. pc = "addrR"  BY <1>8, AtPoint DEF AddressedR
  <2>2. dir = "R"  BY <2>1 DEF I2cInv, Addressing
  <2> QED BY <1>8, <2>2 DEF CommandGoesOut, Commanded, AddressedR, ClearAddr
<1>9. CASE OneStop \/ OneRead \/ TwoNack \/ TwoRead \/ Stream \/ Three \/ Two \/ LastRead
  <2>1. pc \in Receiving /\ bus' = bus
    BY <1>9, AtPoint DEF OneStop, OneRead, TwoNack, TwoRead, Stream, Three, Two, LastRead
  <2>2. bus # "tx"  BY <2>1 DEF I2cInv, Reception
  <2> QED BY <2>1, <2>2 DEF CommandGoesOut, Commanded
<1>10. CASE Stopped  BY <1>0, <1>10 DEF CommandGoesOut, Commanded, Stopped
<1> QED BY <1>1, <1>2, <1>3, <1>4, <1>5, <1>6, <1>7, <1>8, <1>9, <1>10 DEF Driver

(* The command is under way, delivered, or refused. *)
LEMMA DriverDelivers ==
  ASSUME I2cInv, SensorTypes, Requests, Delivery, Driver, UNCHANGED bmpVars
  PROVE  Delivery'
<1> SUFFICES ASSUME bmp \in {"reset", "force"}  PROVE Delivery'
  BY DEF Delivery, bmpVars
<1>0. pc # "idle" /\ UNCHANGED << call, ptr, first, sent, faults >>  BY DriverLeaves
<1>1. call.op = "write"
  BY DEF Requests, Writes
<1>2. bmp' = bmp /\ dev' = dev /\ Delivered' = Delivered
  BY <1>0 DEF bmpVars, Delivered, Begun, Clean
<1> USE DEF SameBus, Env, Goto
<1>3. CASE GiveUp
  BY <1>3 DEF Delivery, GiveUp, Return
<1>4. CASE RegWritten
  <2>1. pc = "reg" /\ bus' = bus /\ pc' = "data" /\ WriteDR(call.data)
    BY <1>1, <1>4, AtPoint DEF RegWritten
  <2>2. RegisterGoesOut  BY <2>1 DEF I2cInv, Addressing
  <2>3. call.reg # Empty  BY DEF I2cInv, Types, CallTypes, Calls
  <2>4. CASE sh = Empty /\ bus = "tx"
    <3>1. ~first /\ ptr = call.reg  BY <2>2, <2>3, <2>4 DEF RegisterGoesOut
    <3>2. sh' = call.data /\ dr' = Empty  BY <2>1, <2>4 DEF WriteDR
    <3>3. GoesOut'  BY <1>0, <3>1, <3>2 DEF GoesOut
    <3> QED BY <2>1, <3>3 DEF Delivery
  <2>5. CASE sh # Empty /\ bus = "tx"
    <3>1. first /\ sh = call.reg  BY <2>2, <2>5 DEF RegisterGoesOut
    <3>2. dr' = call.data /\ sh' = sh  BY <2>1, <2>5 DEF WriteDR
    <3>3. ~sr'.txe  BY <2>1, <2>5 DEF WriteDR, I2cInv, Types, RegisterTypes, StatusBits
    <3> QED BY <1>0, <2>1, <3>1, <3>2, <3>3 DEF Delivery
  <2> QED BY <2>1, <2>4, <2>5 DEF Delivery
<1>5. CASE DataWritten
  <2>1. /\ pc = "data" /\ pc' = "stop" /\ sr.txe
        /\ UNCHANGED << sr, dr, sh, bus >>
    BY <1>5, AtPoint, FlagAt DEF DataWritten
  <2>2. bus = "tx" => GoesOut  BY <2>1 DEF Delivery
  <2>3. bus # "tx" => sr.af  BY <2>1 DEF I2cInv, Addressing
  <2>4. GoesOut => GoesOut'  BY <1>0, <1>2, <2>1 DEF GoesOut
  <2> QED BY <2>1, <2>2, <2>3, <2>4 DEF Delivery
<1>6. CASE Stopped
  <2>1. pc = "stop" /\ ~cr.stop /\ pc' = "idle" /\ sr' = sr
    BY <1>6, AtPoint, FlagAt DEF Stopped, Return
  <2>2. bus # "tx"  BY <2>1 DEF I2cInv, Ending
  <2>3. Delivered \/ sr.af  BY <2>1, <2>2 DEF Delivery
  <2> QED BY <1>2, <2>1, <2>3 DEF Delivery
<1>7. CASE BusFree \/ Started \/ AddressedW \/ WriteReg
  <2>1. pc' \in {"sbW", "addrW", "writereg", "reg"}
    BY <1>7 DEF BusFree, Started, AddressedW, WriteReg
  <2> QED BY <2>1 DEF Delivery
<1>8. CASE \/ Restarted \/ AddressedR \/ OneStop \/ OneRead \/ TwoNack \/ TwoRead
           \/ Stream \/ Three \/ Two \/ LastRead
  <2>1. pc \in {"sbR", "addrR"} \cup Receiving
    BY <1>8, AtPoint DEF Restarted, AddressedR, OneStop, OneRead, TwoNack, TwoRead, Stream,
                         Three, Two, LastRead
  <2> QED BY <1>1, <2>1 DEF I2cInv, Control
<1> QED BY <1>3, <1>4, <1>5, <1>6, <1>7, <1>8 DEF Driver

(* A step of the driver keeps what is known of the sensor. *)
LEMMA DriverSensor ==
  ASSUME I2cInv, SensorInv, Driver, UNCHANGED bmpVars
  PROVE  SensorInv'
<1>0. /\ pc # "idle" /\ UNCHANGED << call, ptr, first, sent, faults >>
      /\ sr'.af => sr.af
      /\ \/ pc' = "idle" /\ rc' = -1
         \/ sr'.af = sr.af /\ (Heard' => Heard \/ sent = << >> \/ call.op = "write")
  BY DriverLeaves
<1>1. UNCHANGED << dev, bmp, calib, out, trouble >>  BY DEF bmpVars
<1>2. bmp \notin {"begin", "run", "halt"}  BY <1>0 DEF SensorInv, Requests
<1>3. SensorTypes'  BY <1>1 DEF SensorInv, SensorTypes
<1>4. Requests'  BY <1>0, <1>1, <1>2 DEF SensorInv, Requests, Reads, Writes
<1>5. CommandGoesOut'  BY DriverCommands DEF SensorInv
<1>6. Delivery'  BY DriverDelivers DEF SensorInv
<1>7. sent = << >> => Len(sent) = 0 /\ 1 .. Len(sent) = {}  OBVIOUS
<1>8. Clean' = Clean /\ Begun' = Begun /\ Copied' = Copied
  BY <1>0, <1>1 DEF Clean, Begun, Copied
<1> DEFINE Kept == PollOK' /\ BurstOK' /\ NvmOK' /\ CalibOK' /\ (Missed => Missed')
<1>9. ASSUME pc' = "idle", rc' = -1  PROVE Kept
  <2>1. Missed'  BY <1>9 DEF Missed, Failed
  <2>2. PollOK' /\ BurstOK' /\ NvmOK' /\ CalibOK'
    BY <2>1 DEF PollOK, BurstOK, NvmOK, CalibOK
  <2> QED BY <2>1, <2>2
<1>10. ASSUME sr'.af = sr.af, Heard' => Heard \/ sent = << >> \/ call.op = "write"
       PROVE  Kept
  <2>1. Missed => Missed'  BY <1>0, <1>10 DEF Missed, Failed
  <2>2. bmp \in {"poll", "burst", "nvm", "calib"} => (Heard' => Heard \/ sent = << >>)
    BY <1>10 DEF SensorInv, Requests, Reads
  <2>3. PollOK'  BY <1>0, <1>1, <1>7, <1>8, <2>1, <2>2 DEF SensorInv, PollOK
  <2>4. BurstOK'  BY <1>0, <1>1, <1>7, <2>1, <2>2 DEF SensorInv, BurstOK
  <2>5. NvmOK'  BY <1>0, <1>1, <1>7, <1>8, <2>1, <2>2 DEF SensorInv, NvmOK
  <2>6. CalibOK'  BY <1>0, <1>1, <1>7, <1>8, <2>1, <2>2 DEF SensorInv, CalibOK, Memory
  <2> QED BY <2>1, <2>3, <2>4, <2>5, <2>6
<1>11. Kept  BY <1>0, <1>9, <1>10
<1>12. ConfigOK'  BY <1>0, <1>1, <1>8, <1>11 DEF SensorInv, ConfigOK
<1>13. SampleIsFresh'  BY <1>1, <1>2 DEF SampleIsFresh
<1> QED BY <1>3, <1>4, <1>5, <1>6, <1>11, <1>12, <1>13 DEF SensorInv

(* A step that is none of the sensor leaves it as it is. *)
LEMMA NoDeviceStep == ASSUME SensorTypes, UNCHANGED bmpVars  PROVE Onward
BY DEF SensorTypes, bmpVars, Onward, Begun, Copied

(* What a step of the bus cannot change. *)
BusOnward ==
  /\ BusStep /\ Onward
  /\ sr.af => sr'.af
  /\ sr'.af => sr.af \/ Clean'
  /\ faults > 0 => faults' > 0

(* Neither the driver nor what is known of its call is touched. *)
LEMMA BusKeeps ==
  ASSUME SensorInv, BusOnward
  PROVE  /\ Requests' /\ SampleIsFresh' /\ ConfigOK' /\ UNCHANGED << pc, call, rc, buf >>
         /\ Heard' = Heard /\ (Missed => Missed')
         /\ bmp \in {"reset", "force"} /\ Delivered => Delivered'
<1> USE DEF BusOnward
<1>1. UNCHANGED << pc, call, rc, buf, bmp, calib >>  BY DEF BusStep, Onward
<1>2. Requests'  BY <1>1 DEF SensorInv, Requests, Reads, Writes, Onward
<1>3. SampleIsFresh'  BY DEF SensorInv, SampleIsFresh, Onward
<1>4. Heard' = Heard /\ (Missed => Missed')  BY <1>1 DEF Heard, Missed, Failed
<1>5. Clean => Clean'  BY DEF Clean, Onward
<1>6. ConfigOK'  BY <1>1, <1>4, <1>5 DEF SensorInv, ConfigOK
<1>7. bmp \in {"reset", "force"} /\ Delivered => Delivered'
  BY <1>1, <1>5 DEF Delivered, Onward, Measuring
<1> QED BY <1>1, <1>2, <1>3, <1>4, <1>6, <1>7

(* A read that is not being answered loses nothing of what it knows. *)
LEMMA BusReads ==
  ASSUME SensorInv, BusOnward, sent' = sent \/ sent' = << >>
  PROVE  PollOK' /\ BurstOK' /\ NvmOK' /\ CalibOK'
<1>0. Heard' = Heard /\ (Missed => Missed') /\ bmp' = bmp
  BY BusKeeps DEF BusOnward, Onward
<1>1. sent' = << >> => Len(sent') = 0 /\ 1 .. Len(sent') = {}  OBVIOUS
<1>2. PollOK'
  <2> SUFFICES ASSUME bmp = "poll", ~Missed  PROVE PollOK'
    BY <1>0 DEF PollOK
  <2>1. Begun /\ (Heard /\ Len(sent) >= 2 /\ sent[2] = 0 => dev.fresh)
    BY DEF SensorInv, PollOK
  <2>2. Begun' /\ (dev.fresh => dev'.fresh)  BY <2>1 DEF BusOnward, Onward, Measuring
  <2> QED BY <1>0, <1>1, <2>1, <2>2 DEF PollOK
<1>3. BurstOK'
  <2> SUFFICES ASSUME bmp = "burst", ~Missed  PROVE BurstOK'
    BY <1>0 DEF BurstOK
  <2>1. dev.fresh /\ (Heard => \A k \in 1 .. Len(sent) : sent[k] = 1)
    BY DEF SensorInv, BurstOK
  <2>2. dev'.fresh  BY <2>1 DEF BusOnward, Onward, Measuring
  <2> QED BY <1>0, <1>1, <2>1, <2>2 DEF BurstOK
<1>4. NvmOK'
  <2> SUFFICES ASSUME bmp = "nvm", ~Missed  PROVE NvmOK'
    BY <1>0 DEF NvmOK
  <2>1. Heard /\ Len(sent) >= 1 /\ ~Bit(sent[1], BMP280_STATUS_IM_UPDATE) => Copied
    BY DEF SensorInv, NvmOK
  <2>2. Copied => Copied'  BY DEF BusOnward, Onward
  <2> QED BY <1>0, <1>1, <2>1, <2>2 DEF NvmOK
<1>5. CalibOK'
  <2> SUFFICES ASSUME bmp = "calib", ~Missed  PROVE CalibOK'
    BY <1>0 DEF CalibOK
  <2>1. Copied /\ (Heard => \A k \in 1 .. Len(sent) : sent[k] = Memory[k])
    BY DEF SensorInv, CalibOK
  <2>2. Copied'  BY <2>1 DEF BusOnward, Onward
  <2> QED BY <1>0, <1>1, <2>1, <2>2 DEF CalibOK, Memory
<1> QED BY <1>2, <1>3, <1>4, <1>5

(* A START sends nothing to the sensor. *)
LEMMA StartOutSensor ==
  ASSUME I2cInv, SensorInv, StartOut, UNCHANGED bmpVars
  PROVE  SensorInv'
<1>1. BusStep /\ Onward  BY NoDeviceStep DEF StartOut, SensorInv
<1>2. sr'.af = sr.af /\ bus' = "started" /\ sent' = sent
  BY DEF StartOut, I2cInv, Types, RegisterTypes, StatusBits
<1>3. BusOnward  BY <1>1, <1>2 DEF BusOnward, StartOut, NoAnswer
<1>4. PollOK' /\ BurstOK' /\ NvmOK' /\ CalibOK'  BY <1>2, <1>3, BusReads
<1>5. CommandGoesOut'  BY <1>2 DEF CommandGoesOut
<1>6. Delivery'
  <2>1. bmp \in {"reset", "force"} => pc \notin {"data", "stop"}
    BY DEF StartOut, I2cInv, Addressing
  <2> QED BY <1>1, <1>2, <1>3, <2>1, BusKeeps DEF SensorInv, Delivery, Onward
<1> QED BY <1>1, <1>3, <1>4, <1>5, <1>6, BusKeeps DEF SensorInv, Onward

(* An address begins a new read: nothing is sent yet. *)
LEMMA AddressOutSensor ==
  ASSUME I2cInv, SensorInv, NEW ack \in BOOLEAN, AddressOut(ack, dev.there),
         UNCHANGED bmpVars
  PROVE  SensorInv'
<1>1. BusStep /\ Onward  BY NoDeviceStep DEF AddressOut, SensorInv
<1>2. /\ bus = "started" /\ bus' # "tx" /\ sent' = << >>
      /\ sr'.af <=> sr.af \/ ~ack
  BY DEF AddressOut, I2cInv, Types, RegisterTypes, StatusBits
<1>3. BusOnward
  <2>1. faults' = IF ~ack /\ dev.there THEN faults + 1 ELSE faults
    BY DEF AddressOut, Answer
  <2>2. faults \in Nat  BY DEF I2cInv, Types, FaultTypes
  <2>3. ~ack => Clean'
    BY <2>1, <2>2 DEF Clean, SensorInv, SensorTypes, bmpVars
  <2> QED BY <1>1, <1>2, <2>1, <2>2, <2>3 DEF BusOnward
<1>4. PollOK' /\ BurstOK' /\ NvmOK' /\ CalibOK'  BY <1>2, <1>3, BusReads
<1>5. CommandGoesOut'  BY <1>2 DEF CommandGoesOut
<1>6. Delivery'  BY <1>1, <1>2, <1>3, BusKeeps DEF SensorInv, Delivery, Onward
<1> QED BY <1>1, <1>3, <1>4, <1>5, <1>6, BusKeeps DEF SensorInv, Onward

(* A STOP finds the command delivered. *)
LEMMA StopOutSensor ==
  ASSUME I2cInv, SensorInv, StopOut, UNCHANGED bmpVars
  PROVE  SensorInv'
<1>1. BusStep /\ Onward  BY NoDeviceStep DEF StopOut, SensorInv
<1>2. sr'.af = sr.af /\ bus' = "free" /\ sent' = sent
  BY DEF StopOut, I2cInv, Types, RegisterTypes, StatusBits
<1>3. BusOnward  BY <1>1, <1>2 DEF BusOnward, StopOut, NoAnswer
<1>4. PollOK' /\ BurstOK' /\ NvmOK' /\ CalibOK'  BY <1>2, <1>3, BusReads
<1>5. CommandGoesOut'  BY <1>2 DEF CommandGoesOut
<1>6. Delivery'
  <2>1. bus = "tx" => sh = Empty  BY DEF StopOut
  <2>2. call.data # Empty  BY DEF I2cInv, Types, CallTypes, Calls
  <2>3. bus = "tx" /\ GoesOut => Delivered  BY <2>1, <2>2 DEF GoesOut
  <2> QED BY <1>1, <1>2, <1>3, <2>3, BusKeeps DEF SensorInv, Delivery, Onward
<1> QED BY <1>1, <1>3, <1>4, <1>5, <1>6, BusKeeps DEF SensorInv, Onward

(* The sensor takes a byte. *)
LEMMA ByteOutSensor ==
  ASSUME I2cInv, SensorInv, NEW ack \in BOOLEAN, ByteOut(ack),
         dev' = IF ack /\ ~first THEN Took(ptr, sh) ELSE dev,
         UNCHANGED << bmp, calib, out, trouble >>
  PROVE  SensorInv'
<1>0. BusStep /\ bus = "tx" /\ sh # Empty /\ sent' = sent  BY DEF ByteOut
<1>1. ~first => Commanded(ptr, sh)  BY <1>0 DEF SensorInv, CommandGoesOut
<1>2. /\ Onward
      /\ ack /\ ~first => /\ bmp \in Measuring => Begun'
                          /\ bmp = "reset" => dev'.config = 0
  <2>1. CASE ack /\ ~first
    <3>1. dev' = Took(ptr, sh)  BY <2>1
    <3> QED BY <1>1, <2>1, <3>1, TookTypes DEF SensorInv
  <2>2. CASE ~(ack /\ ~first)
    <3>1. dev' = dev  BY <2>2
    <3>2. UNCHANGED bmpVars  BY <3>1 DEF bmpVars
    <3> QED BY <2>2, <3>2, NoDeviceStep DEF SensorInv
  <2> QED BY <2>1, <2>2
<1>3. /\ sr'.af <=> sr.af \/ ~ack
      /\ ack => /\ bus' = "tx" /\ sh' = dr /\ dr' = Empty /\ first' = FALSE
                /\ ptr' = IF first THEN sh ELSE ptr
      /\ ~ack => bus' = "ended"
  BY <1>0 DEF ByteOut, I2cInv, Types, RegisterTypes, StatusBits
<1>4. BusOnward
  <2>1. faults' = IF ~ack THEN faults + 1 ELSE faults  BY DEF ByteOut, Answer
  <2>2. faults \in Nat  BY DEF I2cInv, Types, FaultTypes
  <2> QED BY <1>0, <1>2, <1>3, <2>1, <2>2 DEF BusOnward, Clean
<1>5. PollOK' /\ BurstOK' /\ NvmOK' /\ CalibOK'  BY <1>0, <1>4, BusReads
<1>6. CommandGoesOut'
  <2>1. bmp' = bmp  BY <1>2 DEF Onward
  <2>2. CASE ~ack  BY <1>3, <2>2 DEF CommandGoesOut
  <2>3. CASE ack /\ first
    BY <1>0, <1>3, <2>1, <2>3 DEF SensorInv, CommandGoesOut, Commanded
  <2>4. CASE ack /\ ~first
    BY <1>0, <1>3, <2>1, <2>4 DEF SensorInv, CommandGoesOut
  <2> QED BY <2>2, <2>3, <2>4
<1>7. Delivery'
  <2> SUFFICES ASSUME bmp \in {"reset", "force"}  PROVE Delivery'
    BY DEF Delivery
  <2>1. UNCHANGED << pc, call, rc >> /\ bmp' = bmp /\ (Delivered => Delivered')
    BY <1>4, BusKeeps DEF BusOnward, Onward
  <2>2. ~(pc = "idle" /\ rc = 0)
    BY <1>0 DEF I2cInv, Ending, SensorInv, Requests, Writes
  <2>3. CASE ~ack  BY <1>3, <2>1, <2>2, <2>3 DEF Delivery
  <2>4. CASE ack /\ first
    <3>1. pc # "stop"  BY <1>0, <2>4 DEF SensorInv, Delivery, GoesOut
    <3>2. pc = "data" => sh = call.reg /\ dr = call.data
      BY <1>0, <2>4 DEF SensorInv, Delivery, GoesOut
    <3>3. pc = "data" => GoesOut'  BY <1>3, <2>1, <2>4, <3>2 DEF GoesOut
    <3> QED BY <2>1, <2>2, <3>1, <3>3 DEF Delivery
  <2>5. CASE ack /\ ~first
    <3>1. Delivered'  BY <1>2, <2>1, <2>5 DEF Measuring, Delivered, Clean
    <3>2. pc \in {"data", "stop"} => dr = Empty
      BY <1>0, <2>5 DEF SensorInv, Delivery, GoesOut
    <3>3. pc \in {"data", "stop"} => GoesOut'
      BY <1>3, <2>5, <3>1, <3>2 DEF GoesOut
    <3> QED BY <2>1, <2>2, <3>1, <3>3 DEF Delivery
  <2> QED BY <2>3, <2>4, <2>5
<1> QED BY <1>2, <1>4, <1>5, <1>6, <1>7, BusKeeps DEF SensorInv, Onward

(* The sensor sends a byte: of a poll the second is its mode. *)
LEMMA ByteInSensor ==
  ASSUME I2cInv, SensorInv, ByteIn(Register(ptr)), UNCHANGED bmpVars
  PROVE  SensorInv'
<1> DEFINE v == Register(ptr)
<1>0. /\ BusStep /\ bus = "rx" /\ bus' # "tx" /\ sh = Empty /\ sr'.af = sr.af
      /\ sent' = Append(sent, v)
  BY DEF ByteIn, I2cInv, Types, RegisterTypes, StatusBits
<1>1. Onward /\ dev' = dev /\ bmp' = bmp  BY NoDeviceStep DEF SensorInv, bmpVars
<1>2. BusOnward /\ UNCHANGED << pc, call, rc >>
  BY <1>0, <1>1 DEF BusOnward, BusStep, ByteIn, NoAnswer
<1>3. CommandGoesOut'  BY <1>0 DEF CommandGoesOut
<1>4. Delivery'
  <2>1. ~(pc = "data" \/ pc = "stop")  BY <1>0 DEF I2cInv, Addressing, Ending
  <2> QED BY <1>0, <1>1, <1>2, <2>1, BusKeeps DEF SensorInv, Delivery
<1>5. Heard /\ bmp \in {"poll", "burst", "nvm", "calib"} => pc \in Receiving
  BY <1>0 DEF Heard, I2cInv, Ending, SensorInv, Requests, Reads
<1>6. Heard' = Heard /\ Missed' = Missed /\ Begun' = Begun /\ Copied' = Copied
  BY <1>0, <1>1, <1>2 DEF Heard, Failed, Missed, Begun, Copied
<1>7. pc \in Receiving =>
        /\ Len(sent) \in Nat /\ Len(sent) < call.len
        /\ sr.af \/ ptr = call.reg + Len(sent)
  BY <1>0, RoomLeft DEF I2cInv, Reception
<1>8. ptr \in Nat /\ sent \in Seq(Nat) /\ v \in Nat
  BY RegisterValues DEF I2cInv, Types, BusTypes, SensorInv
<1>9. /\ Len(sent') = Len(sent) + 1 /\ sent'[Len(sent) + 1] = v
      /\ \A k \in 1 .. Len(sent) : sent'[k] = sent[k]
  BY <1>0, <1>8, AppendProperties
<1>10. PollOK'
  <2> SUFFICES ASSUME bmp = "poll", ~Missed, Heard, Len(sent') >= 2, sent'[2] = 0
               PROVE  dev.fresh
    BY <1>1, <1>6 DEF SensorInv, PollOK
  <2>1. Begun /\ call.len = 2 /\ call.reg = BMP280_REG_STATUS
    BY DEF SensorInv, PollOK, Requests, Reads
  <2>2. Len(sent) = 1 /\ ptr = call.reg + 1
    <3>1. pc \in Receiving /\ ~sr.af  BY <1>5 DEF Missed
    <3>2. Len(sent) \in Nat /\ Len(sent) < 2 /\ ptr = call.reg + Len(sent)
      BY <1>7, <2>1, <3>1
    <3>3. Len(sent) + 1 >= 2  BY <1>9
    <3>4. \A n \in Nat : n < 2 /\ n + 1 >= 2 => n = 1  OBVIOUS
    <3>5. Len(sent) = 1  BY <3>2, <3>3, <3>4, Zenon
    <3> QED BY <3>2, <3>5
  <2>3. ptr = BMP280_REG_CTRL_MEAS
    BY <2>1, <2>2, Bmp280Assumption DEF BMP280_REG_STATUS, BMP280_REG_CTRL_MEAS
  <2>4. v = dev.mode  BY <1>8, <2>3, RegisterValues DEF SensorInv
  <2>5. dev.mode = 0  BY <1>9, <2>2, <2>4
  <2> QED BY <2>1, <2>5 DEF SensorInv, SensorTypes, Begun
<1>11. BurstOK'
  <2> SUFFICES ASSUME bmp = "burst", ~Missed, Heard, NEW k \in 1 .. Len(sent')
               PROVE  dev.fresh /\ sent'[k] = 1
    BY <1>1, <1>6 DEF SensorInv, BurstOK
  <2>1. /\ dev.fresh /\ \A i \in 1 .. Len(sent) : sent[i] = 1
        /\ call.len = DATA_LEN /\ call.reg = BMP280_REG_PRESS_MSB
    BY DEF SensorInv, BurstOK, Requests, Reads
  <2>2. ptr = call.reg + Len(sent) /\ Len(sent) \in Nat /\ Len(sent) < DATA_LEN
    BY <1>5, <1>7, <2>1 DEF Missed
  <2>3. ptr \in BMP280_REG_PRESS_MSB .. BMP280_REG_PRESS_MSB + DATA_LEN - 1
    BY <2>1, <2>2, Bmp280Assumption DEF BMP280_REG_PRESS_MSB
  <2>4. v = 1  BY <1>8, <2>1, <2>3, RegisterValues DEF SensorInv
  <2>5. CASE k = Len(sent) + 1  BY <1>9, <2>1, <2>4, <2>5
  <2>6. CASE k \in 1 .. Len(sent)  BY <1>9, <2>1, <2>6
  <2> QED BY <1>9, <2>2, <2>5, <2>6
<1>12. NvmOK'
  <2> SUFFICES ASSUME bmp = "nvm", ~Missed, Heard, Len(sent') >= 1,
                      ~Bit(sent'[1], BMP280_STATUS_IM_UPDATE)
               PROVE  Copied
    BY <1>1, <1>6 DEF NvmOK
  <2>1. call.len = 1 /\ call.reg = BMP280_REG_STATUS
    BY DEF SensorInv, Requests, Reads
  <2>2. Len(sent) = 0 /\ ptr = call.reg
    <3>1. pc \in Receiving /\ ~sr.af  BY <1>5 DEF Missed
    <3>2. Len(sent) \in Nat /\ Len(sent) < 1 /\ ptr = call.reg + Len(sent)
      BY <1>7, <2>1, <3>1
    <3>3. \A n \in Nat : n < 1 => n = 0  OBVIOUS
    <3>4. Len(sent) = 0  BY <3>2, <3>3, Zenon
    <3>5. call.reg \in Nat  BY DEF I2cInv, Types, CallTypes, Calls
    <3> QED BY <3>2, <3>4, <3>5
  <2>3. sent'[1] = v  BY <1>9, <2>2
  <2> QED BY <1>8, <2>1, <2>2, <2>3, RegisterValues DEF SensorInv
<1>13. CalibOK'
  <2> SUFFICES ASSUME bmp = "calib", ~Missed, Heard, NEW k \in 1 .. Len(sent')
               PROVE  Copied /\ sent'[k] = Memory[k]
    BY <1>1, <1>6 DEF SensorInv, CalibOK, Memory
  <2>1. /\ Copied /\ \A i \in 1 .. Len(sent) : sent[i] = Memory[i]
        /\ call.len = CALIB_LEN /\ call.reg = 1
    BY DEF SensorInv, CalibOK, Requests, Reads, BMP280_REG_CALIB
  <2>2. ptr = 1 + Len(sent) /\ Len(sent) \in Nat /\ Len(sent) < CALIB_LEN
    BY <1>5, <1>7, <2>1 DEF Missed
  <2>3. ptr \in 1 .. CALIB_LEN  BY <2>2, Bmp280Assumption
  <2>4. v = Memory[Len(sent) + 1]
    <3>1. ptr = Len(sent) + 1  BY <2>2
    <3>2. v = Memory[ptr]  BY <1>8, <2>1, <2>3, RegisterValues DEF SensorInv
    <3> QED BY <3>1, <3>2
  <2>5. CASE k = Len(sent) + 1  BY <1>9, <2>1, <2>4, <2>5
  <2>6. CASE k \in 1 .. Len(sent)  BY <1>9, <2>1, <2>6
  <2> QED BY <1>9, <2>2, <2>5, <2>6
<1> QED BY <1>1, <1>2, <1>3, <1>4, <1>10, <1>11, <1>12, <1>13, BusKeeps
        DEF SensorInv, Onward

(* The sensor goes on by itself. *)
LEMMA SensorStepSensor ==
  ASSUME I2cInv, SensorInv, SensorStep
  PROVE  SensorInv'
<1>1. UNCHANGED << bmp, calib, out, trouble >> /\ UNCHANGED i2cVars  BY DEF SensorStep
<1>2. /\ SensorTypes' /\ dev'.config = dev.config
      /\ Begun => Begun'
      /\ Copied => Copied'
      /\ dev.fresh => dev'.fresh
  <2> USE DEF SensorInv, SensorTypes, Sensors, Begun, Copied
  <2>1. CASE ~dev.there /\ dev' = [dev EXCEPT !.there = TRUE]
    BY <1>1, <2>1
  <2>2. CASE dev.there /\ ~Copied /\ dev' = [dev EXCEPT !.copied = @ + 1]
    <3>1. dev.copied + 1 \in 0 .. CALIB_LEN  BY <2>2, Bmp280Assumption
    <3> QED BY <1>1, <2>2, <3>1
  <2>3. CASE dev.conv = "asked" /\ dev' = [dev EXCEPT !.conv = "on"]
    BY <1>1, <2>3
  <2>4. CASE /\ dev.conv = "on"
             /\ dev' = [dev EXCEPT !.conv = "none", !.mode = 0, !.fresh = TRUE]
    BY <1>1, <2>4
  <2> QED BY <2>1, <2>2, <2>3, <2>4 DEF SensorStep
<1>3. Requests' /\ CommandGoesOut' /\ SampleIsFresh'
  BY <1>1 DEF i2cVars, SensorInv, Requests, Reads, Writes, CommandGoesOut, Commanded,
              SampleIsFresh
<1>4. (Clean => Clean') /\ (Delivered => Delivered') /\ Missed' = Missed /\ Heard' = Heard
  BY <1>1, <1>2 DEF i2cVars, Clean, Delivered, Missed, Failed, Heard
<1>5. Delivery'
  BY <1>1, <1>4 DEF i2cVars, SensorInv, Delivery, GoesOut
<1>6. PollOK' /\ BurstOK' /\ NvmOK' /\ CalibOK' /\ ConfigOK'
  BY <1>1, <1>2, <1>4
     DEF i2cVars, SensorInv, PollOK, BurstOK, NvmOK, CalibOK, ConfigOK, Memory
<1> QED BY <1>2, <1>3, <1>5, <1>6 DEF SensorInv

(* A step that leaves the sensor's driver, the registers and the transfer alone. *)
LEMMA SensorSame ==
  ASSUME I2cInv, SensorInv, UNCHANGED << bmpVars, hwVars, call, pc, buf, rc >>,
         faults > 0 => faults' > 0
  PROVE  SensorInv'
<1> USE DEF bmpVars, hwVars
<1>1. SensorTypes' /\ Requests' /\ CommandGoesOut' /\ SampleIsFresh'
  BY DEF SensorInv, SensorTypes, Requests, Reads, Writes, CommandGoesOut, Commanded,
         SampleIsFresh
<1>2. /\ Missed' = Missed /\ Heard' = Heard /\ Begun' = Begun /\ Copied' = Copied
      /\ Clean => Clean'
  BY DEF Missed, Failed, Heard, Begun, Clean, Copied
<1>3. Delivery'  BY <1>2 DEF SensorInv, Delivery, GoesOut, Delivered
<1>4. PollOK' /\ BurstOK' /\ NvmOK' /\ CalibOK' /\ ConfigOK'
  BY <1>2 DEF SensorInv, PollOK, BurstOK, NvmOK, CalibOK, ConfigOK, Memory
<1> QED BY <1>1, <1>3, <1>4 DEF SensorInv

(* A bus that is held tells the sensor nothing. *)
LEMMA FaultsSensor ==
  ASSUME I2cInv, SensorInv, Faults
  PROVE  SensorInv'
<1>1. UNCHANGED << bmpVars, hwVars, call, pc, buf, rc >>  BY DEF Faults, Stick, Unstick
<1>2. faults' \in {faults, faults + 1} /\ faults \in Nat
  BY DEF Faults, Stick, Unstick, I2cInv, Types, FaultTypes
<1> QED BY <1>1, <1>2, SensorSame

(* The parts of I2cInv are about the variables of the driver and the bus. *)
LEMMA I2cSame == ASSUME I2cInv, UNCHANGED i2cVars  PROVE I2cInv'
<1> USE DEF I2cInv, i2cVars
<1>1. Types'  BY DEF Types, RegisterTypes, BusTypes, CallTypes, FaultTypes
<1>2. Control'  BY DEF Control
<1>3. Wire'  BY DEF Wire
<1>4. Addressing'  BY DEF Addressing, Named, RegisterGoesOut
<1>5. Reception'  BY DEF Reception, InPipe
<1>6. Ending'  BY DEF Ending, ReadDone
<1> QED BY <1>1, <1>2, <1>3, <1>4, <1>5, <1>6

(* A transfer of the sensor's driver, asked for when the last one is over. *)
LEMMA ReadRequest ==
  ASSUME I2cInv, pc = "idle", NEW reg \in Nat, NEW len \in Nat \ {0},
         i2c_read_registers(reg, len)
  PROVE  I2cInv' /\ Reads(reg, len)' /\ pc' = "free" /\ UNCHANGED << hwVars, faults >>
<1>1. Transfer("read", reg, len, 0)  BY DEF i2c_read_registers
<1>2. I2cInv'  BY <1>1, TransferStep
<1> QED BY <1>1, <1>2 DEF Transfer, Reads

(* The same for a write. *)
LEMMA WriteRequest ==
  ASSUME I2cInv, pc = "idle", NEW reg \in Nat, NEW data \in Nat,
         i2c_write_register(reg, data)
  PROVE  I2cInv' /\ Writes(reg, data)' /\ pc' = "free" /\ UNCHANGED << hwVars, faults >>
<1>1. Transfer("write", reg, 0, data)  BY DEF i2c_write_register
<1>2. I2cInv'  BY <1>1, TransferStep
<1> QED BY <1>1, <1>2 DEF Transfer, Writes

(* A step of the program that asks for no transfer. *)
LEMMA NoRequest ==
  ASSUME I2cInv, pc = "idle", NoTransfer
  PROVE  I2cInv' /\ pc' = "idle" /\ rc' = rc /\ UNCHANGED << hwVars, faults >>
<1>1. I2cInv'  BY I2cSame DEF NoTransfer
<1> QED BY <1>1 DEF NoTransfer, i2cVars, hwVars

(* The arguments of the transfers are numbers, no length is 0. *)
LEMMA Addresses ==
  /\ BMP280_REG_ID \in Nat /\ BMP280_REG_CALIB \in Nat /\ BMP280_REG_RESET \in Nat
  /\ BMP280_REG_STATUS \in Nat /\ BMP280_REG_CTRL_MEAS \in Nat /\ BMP280_REG_CONFIG \in Nat
  /\ BMP280_REG_PRESS_MSB \in Nat /\ BMP280_RESET_CMD \in Nat
  /\ BMP280_CTRL_MEAS_FORCED \in Nat /\ CALIB_LEN \in Nat \ {0} /\ DATA_LEN \in Nat \ {0}
BY Bmp280Assumption
   DEF BMP280_REG_ID, BMP280_REG_CALIB, BMP280_REG_RESET, BMP280_REG_STATUS,
       BMP280_REG_CTRL_MEAS, BMP280_REG_CONFIG, BMP280_REG_PRESS_MSB, BMP280_RESET_CMD,
       BMP280_CTRL_MEAS_FORCED

(* Bring-up neither measures nor returns a sample; what a stage is sure of *)
(* it hands to the next.                                                   *)
BringUp == {"begin", "id", "reset", "nvm", "calib", "config"}
HandedOn ==
  /\ bmp \in BringUp /\ bmp' \in (BringUp \ {"begin"}) \cup {"run", "halt"}
  /\ bmp' \in BringUp => pc' = "free"
  /\ bmp \in {"reset", "config"} /\ bmp' # "halt" => bus = "free" /\ bmp' # "reset"
  /\ bmp' \in {"nvm", "calib", "config", "run"} => Clean
  /\ bmp' = "calib" => Copied \/ sr.af
  /\ bmp' = "config" => calib' = Memory \/ sr.af

(* What a stage is sure of it hands to the next. *)
LEMMA BringUpStep ==
  ASSUME SensorInv, HandedOn, UNCHANGED << hwVars, dev, out, faults >>,
         trouble' \in BOOLEAN, Requests'
  PROVE  SensorInv'
<1> USE DEF HandedOn
<1>1. SensorTypes'  BY DEF SensorInv, SensorTypes, Stages, BringUp
<1>2. bmp' \notin {"force", "poll", "burst"} /\ ~out'.ok
  BY DEF SensorInv, Requests, BringUp
<1>3. CommandGoesOut'
  <2>1. CASE bus = "free"  BY <2>1 DEF CommandGoesOut, hwVars
  <2>2. CASE bmp \in {"reset", "config"} /\ bmp' = "halt"
    BY <2>2 DEF SensorInv, CommandGoesOut, Commanded, Measuring, hwVars
  <2>3. CASE bmp \notin {"reset", "config"}
    BY <2>3 DEF SensorInv, CommandGoesOut, Commanded, Measuring, hwVars, BringUp
  <2> QED BY <2>1, <2>2, <2>3
<1>4. bmp' \in BringUp => ~Heard'  BY DEF Heard
<1>5. Delivery'  BY <1>2 DEF Delivery, BringUp
<1>6. PollOK' /\ BurstOK' /\ SampleIsFresh'  BY <1>2 DEF PollOK, BurstOK, SampleIsFresh
<1>7. NvmOK'  BY <1>4 DEF NvmOK, BringUp
<1>8. CalibOK'  BY <1>4 DEF CalibOK, BringUp, Missed, Copied, hwVars
<1>9. ConfigOK'
  <2>1. Clean' = Clean /\ sr' = sr  BY DEF Clean, hwVars
  <2>2. sr.af => Clean  BY DEF SensorInv, ConfigOK
  <2> QED BY <1>2, <2>1, <2>2 DEF ConfigOK, Missed, Measuring, BringUp
<1> QED BY <1>1, <1>3, <1>5, <1>6, <1>7, <1>8, <1>9 DEF SensorInv

(* A read that returned 0 was heard to its end, or AF stands. *)
LEMMA ReadHeard ==
  ASSUME I2cInv, pc = "idle", rc = 0, call.op = "read"
  PROVE  /\ Heard /\ ~Failed /\ bus = "free"
         /\ buf = sent /\ Len(sent) = call.len
BY DEF Heard, Failed, I2cInv, Ending, ReadDone

(* The steps of bmp280_bringup() between its transfers. *)
LEMMA BringUpSensor ==
  ASSUME I2cInv, SensorInv,
         \/ ReadId \/ IdRead \/ WasReset \/ PollNvm \/ NvmTimeout \/ NvmCopied \/ CalibRead
         \/ Configured
  PROVE  I2cInv' /\ SensorInv'
<1> DEFINE Next1 == I2cInv' /\ Requests' /\ HandedOn /\ UNCHANGED << hwVars, faults >>
<1>1. UNCHANGED << dev, out >> /\ trouble' \in BOOLEAN
  BY DEF ReadId, IdRead, WasReset, PollNvm, NvmTimeout, NvmCopied, CalibRead, Configured,
         Note, SensorInv, SensorTypes, I2cInv, Types, FaultTypes
<1>2. bmp \in BringUp => ~out'.ok  BY <1>1 DEF SensorInv, Requests, BringUp
<1> SUFFICES Next1
  BY <1>1, BringUpStep
<1> USE DEF Done, BringUp, HandedOn
<1>3. ASSUME bmp \in BringUp, pc = "idle", Halt  PROVE Next1
  BY <1>2, <1>3, NoRequest DEF Halt, Requests
<1>4. CASE ReadId
  BY <1>2, <1>4, Addresses, ReadRequest DEF ReadId, Requests
<1>5. CASE IdRead
  <2>1. CASE rc = 0 /\ buf = << BMP280_CHIP_ID >>
    BY <1>2, <1>5, <2>1, Addresses, WriteRequest DEF IdRead, Requests
  <2>2. CASE ~(rc = 0 /\ buf = << BMP280_CHIP_ID >>)
    BY <1>3, <1>5, <2>2 DEF IdRead
  <2> QED BY <2>1, <2>2
<1>6. CASE WasReset
  <2>1. CASE rc = 0
    <3>1. bmp = "reset" /\ pc = "idle"  BY <1>6 DEF WasReset
    <3>2. bus = "free"  BY <2>1, <3>1 DEF I2cInv, Ending, SensorInv, Requests, Writes
    <3>3. Clean
      BY <2>1, <3>1 DEF SensorInv, Delivery, Delivered, ConfigOK
    <3> QED BY <1>2, <1>6, <2>1, <3>2, <3>3, Addresses, ReadRequest DEF WasReset, Requests
  <2>2. CASE rc # 0  BY <1>3, <1>6, <2>2 DEF WasReset
  <2> QED BY <2>1, <2>2
<1>7. CASE PollNvm
  <2>1. Clean  BY <1>7 DEF PollNvm, SensorInv, ConfigOK
  <2> QED BY <1>2, <1>7, <2>1, Addresses, ReadRequest DEF PollNvm, Requests
<1>8. CASE NvmTimeout
  BY <1>3, <1>8 DEF NvmTimeout
<1>9. CASE NvmCopied
  <2>1. bmp = "nvm" /\ pc = "idle" /\ rc = 0 /\ ~Bit(buf[1], BMP280_STATUS_IM_UPDATE)
    BY <1>9 DEF NvmCopied, StillCopying
  <2>2. call.op = "read" /\ call.len = 1  BY <2>1 DEF SensorInv, Requests, Reads
  <2>3. Heard /\ ~Failed /\ buf = sent /\ Len(sent) = 1  BY <2>1, <2>2, ReadHeard
  <2>4. Copied \/ sr.af  BY <2>1, <2>3 DEF SensorInv, NvmOK, Missed
  <2>5. Clean  BY <2>1 DEF SensorInv, ConfigOK
  <2> QED BY <1>2, <1>9, <2>4, <2>5, Addresses, ReadRequest DEF NvmCopied, Requests
<1>10. CASE CalibRead
  <2>1. CASE rc = 0 /\ buf[1] # 0 /\ buf[3] # 0
    <3>1. bmp = "calib" /\ pc = "idle" /\ calib' = buf  BY <1>10, <2>1 DEF CalibRead
    <3>2. call.op = "read" /\ call.len = CALIB_LEN
      BY <3>1 DEF SensorInv, Requests, Reads
    <3>3. Heard /\ ~Failed /\ buf = sent /\ Len(sent) = CALIB_LEN
      BY <2>1, <3>1, <3>2, ReadHeard
    <3>4. calib' = Memory \/ sr.af
      <4>1. sr.af \/ \A k \in 1 .. CALIB_LEN : buf[k] = Memory[k]
        BY <3>1, <3>3 DEF SensorInv, CalibOK, Missed
      <4>2. buf = [k \in 1 .. CALIB_LEN |-> buf[k]]
        BY <3>3 DEF I2cInv, Types, CallTypes
      <4> QED BY <3>1, <4>1, <4>2 DEF Memory
    <3>5. Clean  BY <3>1 DEF SensorInv, ConfigOK
    <3> QED BY <1>2, <1>10, <2>1, <3>4, <3>5, Addresses, WriteRequest DEF CalibRead, Requests
  <2>2. CASE ~(rc = 0 /\ buf[1] # 0 /\ buf[3] # 0)
    BY <1>3, <1>10, <2>2 DEF CalibRead
  <2> QED BY <2>1, <2>2
<1>11. CASE Configured
  <2>1. /\ bmp = "config" /\ pc = "idle" /\ NoTransfer
        /\ bmp' = IF rc = 0 THEN "run" ELSE "halt"
    BY <1>11 DEF Configured
  <2>2. rc = 0 => bus = "free"  BY <2>1 DEF I2cInv, Ending, SensorInv, Requests, Writes
  <2>3. I2cInv' /\ pc' = "idle" /\ UNCHANGED << hwVars, faults >>  BY <2>1, NoRequest
  <2>4. Requests'  BY <1>2, <2>1, <2>3 DEF Requests
  <2>5. Clean  BY <2>1 DEF SensorInv, ConfigOK
  <2> QED BY <2>1, <2>2, <2>3, <2>4, <2>5
<1> QED BY <1>4, <1>5, <1>6, <1>7, <1>8, <1>9, <1>10, <1>11

(* The steps of bmp280_read() between its transfers. *)
LEMMA MeasureTypes ==
  ASSUME I2cInv, SensorInv,
         ForceMode \/ Forced \/ Poll \/ PollTimeout \/ PollFailed \/ Converted \/ BurstRead
  PROVE  /\ I2cInv' /\ SensorTypes' /\ Requests' /\ CommandGoesOut'
         /\ UNCHANGED << hwVars, faults >> /\ pc = "idle" /\ bmp \in Measuring /\ bmp' \in Measuring
<1> DEFINE Next1 ==
      /\ I2cInv' /\ Requests' /\ bmp' \in Measuring /\ UNCHANGED << hwVars, faults >>
      /\ pc = "idle" /\ bmp \in Measuring
<1>1. SensorTypes'
  <2>1. trouble' \in BOOLEAN /\ out'.ok \in BOOLEAN
    <3>1. trouble' = FALSE \/ trouble' = (trouble \/ hurt)
      BY DEF ForceMode, Forced, Poll, PollTimeout, PollFailed, Converted, BurstRead, Note
    <3>2. \/ out' = out \/ out' = [ok |-> FALSE, data |-> << >>]
          \/ out' = [ok |-> TRUE, data |-> buf]
      BY DEF ForceMode, Forced, Poll, PollTimeout, PollFailed, Converted, BurstRead, Fail
    <3>3. trouble' \in BOOLEAN  BY <3>1
    <3>4. out'.ok \in BOOLEAN
      <4>1. out.ok \in BOOLEAN  BY DEF SensorInv, SensorTypes
      <4>2. CASE out' = out  BY <4>1, <4>2
      <4>3. CASE out' = [ok |-> FALSE, data |-> << >>]  BY <4>3
      <4>4. CASE out' = [ok |-> TRUE, data |-> buf]  BY <4>4
      <4> QED BY <3>2, <4>2, <4>3, <4>4
    <3> QED BY <3>3, <3>4
  <2>2. bmp' \in Stages
    BY DEF ForceMode, Forced, Poll, PollTimeout, PollFailed, Converted, BurstRead, Fail, Stages
  <2>3. dev' \in {dev, [dev EXCEPT !.fresh = FALSE]}
    BY DEF ForceMode, Forced, Poll, PollTimeout, PollFailed, Converted, BurstRead
  <2> QED BY <2>1, <2>2, <2>3 DEF SensorInv, SensorTypes, Sensors
<1> SUFFICES Next1
  <2>1. Next1 => CommandGoesOut'
    BY DEF SensorInv, CommandGoesOut, Commanded, Measuring, hwVars
  <2> QED BY <1>1, <2>1
<1> USE DEF Done, Measuring
<1>2. bmp # "run" => ~out.ok  BY DEF SensorInv, Requests
<1>3. ASSUME bmp \in {"force", "poll", "burst"}, pc = "idle", Fail  PROVE Next1
  BY <1>2, <1>3, NoRequest DEF Fail, Requests
<1>4. CASE ForceMode
  BY <1>4, Addresses, WriteRequest DEF ForceMode, Requests
<1>5. CASE Forced
  <2>1. CASE rc = 0  BY <1>2, <1>5, <2>1, Addresses, ReadRequest DEF Forced, Requests
  <2>2. CASE rc # 0  BY <1>3, <1>5, <2>2 DEF Forced
  <2> QED BY <2>1, <2>2
<1>6. CASE Poll
  BY <1>2, <1>6, Addresses, ReadRequest DEF Poll, Requests
<1>7. CASE PollTimeout \/ PollFailed
  BY <1>3, <1>7 DEF PollTimeout, PollFailed
<1>8. CASE Converted
  BY <1>2, <1>8, Addresses, ReadRequest DEF Converted, Requests
<1>9. CASE BurstRead
  BY <1>9, NoRequest DEF BurstRead, Requests
<1> QED BY <1>4, <1>5, <1>6, <1>7, <1>8, <1>9

(* What each of them knows from the transfer before. *)
LEMMA MeasureSensor ==
  ASSUME I2cInv, SensorInv,
         ForceMode \/ Forced \/ Poll \/ PollTimeout \/ PollFailed \/ Converted \/ BurstRead
  PROVE  I2cInv' /\ SensorInv'
<1>0. /\ I2cInv' /\ SensorTypes' /\ Requests' /\ CommandGoesOut'
      /\ UNCHANGED << hwVars, faults >> /\ pc = "idle" /\ bmp \in Measuring /\ bmp' \in Measuring
  BY MeasureTypes
<1>1. sr' = sr /\ sent' = sent  BY <1>0 DEF hwVars
<1>a. NvmOK' /\ CalibOK' /\ ConfigOK'
  <2>1. dev'.config = dev.config
    BY DEF ForceMode, Forced, Poll, PollTimeout, PollFailed, Converted, BurstRead,
           SensorInv, SensorTypes, Sensors
  <2>2. Clean' = Clean  BY <1>0, <2>1 DEF Clean
  <2> QED BY <1>0, <2>2 DEF SensorInv, NvmOK, CalibOK, ConfigOK, Measuring
<1> USE DEF Done, Failed, Missed, Heard
<1> SUFFICES Delivery' /\ PollOK' /\ BurstOK' /\ SampleIsFresh'
  BY <1>0, <1>a DEF SensorInv
<1>2. CASE ForceMode
  <2>1. bmp' = "force" /\ pc' = "free"
    BY <1>2 DEF ForceMode, i2c_write_register, Transfer
  <2> QED BY <2>1 DEF Delivery, PollOK, BurstOK, SampleIsFresh
<1>3. CASE bmp' = "run" /\ UNCHANGED out /\ bmp # "run"
  BY <1>3 DEF Delivery, PollOK, BurstOK, SampleIsFresh, SensorInv, Requests
<1>4. CASE Forced /\ rc = 0
  <2>1. bmp = "force" /\ bmp' = "poll" /\ pc' = "free" /\ dev' = dev
    BY <1>4 DEF Forced, i2c_read_registers, Transfer
  <2>2. Begun \/ sr.af  BY <1>0, <1>4, <2>1 DEF SensorInv, Delivery, Delivered
  <2>3. PollOK'  BY <1>1, <2>1, <2>2 DEF PollOK, Begun
  <2> QED BY <2>1, <2>3 DEF Delivery, BurstOK, SampleIsFresh
<1>5. CASE Poll
  <2>1. bmp = "poll" /\ bmp' = "poll" /\ pc' = "free" /\ dev' = dev /\ rc = 0
    BY <1>5 DEF Poll, i2c_read_registers, Transfer
  <2>2. Begun \/ sr.af  BY <1>0, <2>1 DEF SensorInv, PollOK
  <2>3. PollOK'  BY <1>1, <2>1, <2>2 DEF PollOK, Begun
  <2> QED BY <2>1, <2>3 DEF Delivery, BurstOK, SampleIsFresh
<1>6. CASE Converted
  <2>1. /\ bmp = "poll" /\ bmp' = "burst" /\ pc' = "free" /\ dev' = dev /\ rc = 0
        /\ ~Converting
    BY <1>6 DEF Converted, i2c_read_registers, Transfer
  <2>2. buf = sent /\ Len(sent) = 2
    <3>1. call.op = "read" /\ call.len = 2  BY <2>1 DEF SensorInv, Requests, Reads
    <3> QED BY <1>0, <2>1, <3>1, ReadHeard
  <2>3. sent[2] = 0  BY <2>1, <2>2 DEF Converting
  <2>4. dev.fresh \/ sr.af  BY <1>0, <2>1, <2>2, <2>3 DEF SensorInv, PollOK
  <2>5. BurstOK'  BY <1>1, <2>1, <2>4 DEF BurstOK
  <2> QED BY <2>1, <2>5 DEF Delivery, PollOK, SampleIsFresh
<1>7. CASE BurstRead /\ rc = 0
  <2>1. bmp = "burst" /\ bmp' = "run" /\ out' = [ok |-> TRUE, data |-> buf]
    BY <1>7 DEF BurstRead
  <2>2. buf = sent /\ Len(sent) = DATA_LEN
    <3>1. call.op = "read" /\ call.len = DATA_LEN
      BY <2>1 DEF SensorInv, Requests, Reads
    <3> QED BY <1>0, <1>7, <3>1, ReadHeard
  <2>3. sr.af \/ \A k \in 1 .. DATA_LEN : sent[k] = 1
    BY <1>0, <1>7, <2>1, <2>2 DEF SensorInv, BurstOK
  <2>4. SampleIsFresh'  BY <1>1, <2>1, <2>2, <2>3 DEF SampleIsFresh
  <2> QED BY <2>1, <2>4 DEF Delivery, PollOK, BurstOK
<1> QED BY <1>2, <1>3, <1>4, <1>5, <1>6, <1>7
        DEF Forced, PollTimeout, PollFailed, BurstRead, Fail

(* The first state: no transfer has been made, the bus is free. *)
LEMMA InitInv == ASSUME Init  PROVE I2cInv /\ SensorInv
<1>1. I2cInv
  <2> USE DEF Init, I2cInit, NoCall
  <2>1. Types
    <3>1. RegisterTypes  BY DEF RegisterTypes, ControlBits, StatusBits
    <3>2. BusTypes
      <4>1. sent \in Seq(Nat)  BY EmptySeq
      <4> QED BY <4>1 DEF BusTypes
    <3>3. CallTypes  BY DEF CallTypes, Calls
    <3>4. FaultTypes
      <4>1. hurt = FALSE /\ faults = 0 /\ late = 0  OBVIOUS
      <4>2. 0 \in 0 .. MaxFaults /\ 0 \in 0 .. MaxLate  OBVIOUS
      <4> QED BY <4>1, <4>2 DEF FaultTypes
    <3> QED BY <3>1, <3>2, <3>3, <3>4 DEF Types
  <2>2. Control  BY DEF Control
  <2>3. Wire  BY DEF Wire
  <2>4. Addressing  BY DEF Addressing
  <2>5. Reception  BY DEF Reception
  <2>6. Ending  BY DEF Ending
  <2> QED BY <2>1, <2>2, <2>3, <2>4, <2>5, <2>6 DEF I2cInv
<1>2. bmp = "begin" /\ pc = "idle" /\ bus = "free" /\ trouble = FALSE /\ out.ok = FALSE
  BY DEF Init, I2cInit
<1>3. SensorTypes
  <2>1. dev \in Sensors /\ dev.there /\ dev.mode = IF dev.conv = "none" THEN 0 ELSE 1
    <3>1. PICK c \in {"none", "asked", "on"}, f \in {0, 1} :
            dev = [there |-> TRUE, copied |-> CALIB_LEN, mode |-> IF c = "none" THEN 0 ELSE 1,
                   conv |-> c, fresh |-> FALSE, config |-> f]
      BY DEF Init
    <3>2. CALIB_LEN \in 0 .. CALIB_LEN  BY Bmp280Assumption
    <3> QED BY <3>1, <3>2 DEF Sensors
  <2> QED BY <1>2, <2>1 DEF SensorTypes, Stages
<1>4. Requests /\ CommandGoesOut /\ Delivery /\ PollOK /\ BurstOK /\ SampleIsFresh
  BY <1>2 DEF Requests, CommandGoesOut, Delivery, PollOK, BurstOK, SampleIsFresh
<1>5. NvmOK /\ CalibOK /\ ConfigOK
  <2>1. ~sr.af  BY DEF Init, I2cInit
  <2> QED BY <1>2, <2>1 DEF NvmOK, CalibOK, ConfigOK, Measuring
<1> QED BY <1>1, <1>3, <1>4, <1>5 DEF SensorInv

(* The eighteen steps of the driver. *)
LEMMA DriverI2c == ASSUME I2cInv, Driver  PROVE I2cInv'
BY GiveUpStep, BusFreeStep, StartedStep, AddressedWStep, WriteRegStep, RegWrittenStep,
   DataWrittenStep, RestartedStep, AddressedRStep, OneStopStep, OneReadStep, TwoNackStep,
   TwoReadStep, StreamStep, ThreeStep, TwoStep, LastReadStep, StoppedStep DEF Driver

(* The steps of the bus, with what the sensor makes of them. *)
LEMMA BusInv == ASSUME I2cInv, SensorInv, Bus  PROVE I2cInv' /\ SensorInv'
<1>1. CASE StartOut /\ UNCHANGED bmpVars
  BY <1>1, StartOutStep, StartOutSensor
<1>2. CASE StopOut /\ UNCHANGED bmpVars
  BY <1>2, StopOutStep, StopOutSensor
<1>3. CASE (\E ack \in BOOLEAN : AddressOut(ack, dev.there)) /\ UNCHANGED bmpVars
  <2>1. PICK ack \in BOOLEAN : AddressOut(ack, dev.there)  BY <1>3
  <2>2. dev.there \in BOOLEAN  BY DEF SensorInv, SensorTypes, Sensors
  <2> QED BY <1>3, <2>1, <2>2, AddressOutStep, AddressOutSensor
<1>4. ASSUME NEW ack \in BOOLEAN, ByteOut(ack),
             dev' = IF ack /\ ~first THEN Took(ptr, sh) ELSE dev,
             UNCHANGED << bmp, calib, out, trouble >>
      PROVE  I2cInv' /\ SensorInv'
  BY <1>4, ByteOutStep, ByteOutSensor
<1>5. CASE ByteIn(Register(ptr)) /\ UNCHANGED bmpVars
  <2>1. ptr \in Nat  BY DEF I2cInv, Types, BusTypes
  <2>2. Register(ptr) \in Nat  BY <2>1, RegisterValues DEF SensorInv
  <2> QED BY <1>5, <2>2, ByteInStep, ByteInSensor
<1> QED BY <1>1, <1>2, <1>3, <1>4, <1>5 DEF Bus

(* Every step of the program. *)
LEMMA NextInv == ASSUME I2cInv, SensorInv, [Next]_vars  PROVE I2cInv' /\ SensorInv'
<1>1. CASE ReadId \/ IdRead \/ WasReset \/ PollNvm \/ NvmTimeout \/ NvmCopied \/ CalibRead
           \/ Configured
  BY <1>1, BringUpSensor
<1>2. CASE ForceMode \/ Forced \/ Poll \/ PollTimeout \/ PollFailed \/ Converted \/ BurstRead
  BY <1>2, MeasureSensor
<1>3. CASE Driver /\ UNCHANGED bmpVars  BY <1>3, DriverI2c, DriverSensor
<1>4. CASE Bus  BY <1>4, BusInv
<1>5. CASE SensorStep  BY <1>5, I2cSame, SensorStepSensor DEF SensorStep
<1>6. CASE Faults  BY <1>6, StickStep, FaultsSensor DEF Faults
<1>7. CASE UNCHANGED vars
  <2>1. UNCHANGED i2cVars /\ UNCHANGED bmpVars  BY <1>7 DEF vars, i2cVars, bmpVars
  <2>2. I2cInv'  BY <2>1, I2cSame
  <2>3. UNCHANGED << bmpVars, hwVars, call, pc, buf, rc, faults >>
    BY <2>1 DEF i2cVars, hwVars
  <2> QED BY <2>2, <2>3, SensorSame
<1> QED BY <1>1, <1>2, <1>3, <1>4, <1>5, <1>6, <1>7 DEF Next, Program

(* I2cInv and SensorInv hold in every state the driver, the bus and the    *)
(* sensor reach, for every length of the reads and every number of faults  *)
(* and hold-ups.                                                           *)
THEOREM InvariantHolds == Spec => [](I2cInv /\ SensorInv)
<1>1. Init => I2cInv /\ SensorInv  BY InitInv
<1>2. (I2cInv /\ SensorInv) /\ [Next]_vars => (I2cInv /\ SensorInv)'  BY NextInv
<1> QED BY <1>1, <1>2, PTL DEF Spec

(* i2c_read_registers() (i2c.c:140-215), each of its four ways to receive: *)
(* a read that returns 0 has in its buffer every byte the device sent,     *)
(* once and in order, and the device was told to stop with the last.       *)
THEOREM ReadsAreExact == Spec => []ReadIsExact
<1>1. I2cInv /\ SensorInv => ReadIsExact
  <2> SUFFICES ASSUME I2cInv, SensorInv  PROVE ReadIsExact
    OBVIOUS
  <2>1. TypeOK
    BY DEF TypeOK, I2cInv, Types, BusTypes, FaultTypes, Control, Wire, SensorInv,
           SensorTypes, Stages
  <2>2. pc = "idle" /\ call.op = "read" /\ rc = 0 =>
          /\ buf = sent /\ Len(buf) = call.len /\ nacked
          /\ ptr = call.reg + call.len \/ sr.af
          /\ bus = "free"
    BY DEF I2cInv, Ending, ReadDone
  <2> QED BY <2>1, <2>2 DEF ReadIsExact
<1> QED BY <1>1, InvariantHolds, PTL

(* bmp280_read() (bmp280.c:102-137): the bytes of a sample it returns are  *)
(* all of the conversion this call asked for, unless a refused byte went   *)
(* unnoticed and AF still stands.                                          *)
THEOREM SamplesAreFresh == Spec => []SampleIsFresh
<1>1. SensorInv => SampleIsFresh  BY DEF SensorInv
<1> QED BY <1>1, InvariantHolds, PTL

(* bmp280_bringup() and bmp280_init() (bmp280.c:19-62): the calibration the *)
(* logger starts with is that of the sensor's memory, though the reset, the *)
(* poll or the reads may have been refused, and the filter is off unless a  *)
(* byte was refused.                                                        *)
THEOREM CalibratesFirst == Spec => CalibratedBeforeUse
<1>1. ASSUME I2cInv, SensorInv, [Next]_vars, bmp = "config", bmp' = "run"
      PROVE  (calib = Memory \/ sr.af) /\ (dev.config = 0 \/ faults > 0)
  <2>1. Configured
    BY <1>1 DEF Next, Program, Bus, SensorStep, Faults, bmpVars, vars, Done, Halt, Fail,
                ReadId, IdRead, WasReset, PollNvm, NvmTimeout, NvmCopied, CalibRead,
                ForceMode, Forced, Poll, PollTimeout, PollFailed, Converted, BurstRead
  <2>2. pc = "idle" /\ rc = 0  BY <1>1, <2>1 DEF Configured, Done
  <2>3. calib = Memory \/ sr.af  BY <1>1, <2>2 DEF SensorInv, ConfigOK, Missed, Failed
  <2>4. Clean  BY <1>1 DEF SensorInv, ConfigOK
  <2> QED BY <2>3, <2>4 DEF Clean
<1>2. (I2cInv /\ SensorInv) /\ [Next]_vars
        => [bmp = "config" /\ bmp' = "run" =>
              (calib = Memory \/ sr.af) /\ (dev.config = 0 \/ faults > 0)]_vars
  BY <1>1
<1> QED BY <1>2, InvariantHolds, PTL DEF Spec, CalibratedBeforeUse

-----------------------------------------------------------------------------
(* While no fault has hit, every wait of the driver has a bus that moves.  *)
(* The sensor answers but for its reset, which a command on the wire or    *)
(* the bus let go of after it may have begun.                              *)
There ==
  /\ bmp \notin {"reset", "nvm", "halt"} => dev.there
  /\ bmp = "reset" /\ pc \notin {"data", "stop", "idle"} => dev.there
  /\ bmp = "reset" /\ pc = "free" => bus = "free" /\ ~cr.start
  /\ bmp = "nvm" /\ (Heard \/ sr.addr) => dev.there

(* What the identity reads as. *)
IdOK ==
  bmp = "id" /\ Heard /\ ~Missed => \A k \in 1 .. Len(sent) : sent[k] = BMP280_CHIP_ID

(* At each point the driver waits at, the flag is there or can still come. *)
AddressedOut ==
  pc \in {"addrW", "addrR"} =>
    \/ bus = "started" /\ ~sr.sb
    \/ bus = "addressed" /\ sr.addr
    \/ bus = "ended" /\ sr.af
Going ==
  /\ sr.af => pc \in {"addrW", "addrR"} /\ bus = "ended" /\ bmp = "nvm"
  /\ bus \in {"free", "started"} => ~cr.stop
  /\ pc \in {"idle", "free"} => ~cr.start /\ (bus = "free" \/ (bus = "ended" /\ cr.stop))
  /\ pc \in {"sbW", "addrW", "writereg", "reg", "data", "sbR", "addrR", "n1stop", "n2ack",
             "n2", "stream", "three", "two"} => ~cr.stop
  /\ pc = "sbW" => cr.start \/ sr.sb
  /\ AddressedOut
  /\ pc \in {"writereg", "reg", "data"} => bus = "tx"
  /\ pc \in {"reg", "data"} => sr.txe \/ sh # Empty
  /\ pc = "sbR" => sr.sb \/ (cr.start /\ bus = "tx")
  /\ pc = "n1stop" => bus # "free"
  /\ pc \in OneByte => bus = "rx" \/ sr.rxne
  /\ pc \in {"n2", "two"} => bus = "rx" \/ sr.btf
  /\ pc \in {"stream", "three"} => bus = "rx"

Unhurt == ~hurt => ~stuck /\ Going

(* A transfer that no fault has hit has returned 0, but to the poll for    *)
(* the sensor's return.                                                    *)
Returned == pc = "idle" /\ ~hurt /\ bmp \notin {"nvm", "halt"} => rc = 0

QuietInv == There /\ IdOK /\ Unhurt /\ Returned

(* While no fault has hit, a wait without its flag has a bus that moves. *)
LEMMA NeverWaits ==
  ASSUME I2cInv, Going, ~stuck, pc # "idle", ~Flag, ~(NoticesAf /\ sr.af)
  PROVE  BusMoves
<1> USE DEF Flag, NoticesAf, BusMoves
<1>1. CASE pc = "free"  BY <1>1 DEF Going
<1>2. CASE pc = "sbW"  BY <1>2 DEF Going, I2cInv, Addressing
<1>3. CASE pc \in {"addrW", "addrR"}  BY <1>3 DEF Going, AddressedOut
<1>4. CASE pc \in {"reg", "data"}  BY <1>4 DEF Going
<1>5. CASE pc = "sbR"
  BY <1>5 DEF Going, Drained, I2cInv, Addressing, RegisterGoesOut
<1>6. CASE pc = "n1"  BY <1>6 DEF Going, I2cInv, Reception, InPipe
<1>7. CASE pc \in {"n2", "two", "stream", "three"}
  BY <1>7 DEF Going, I2cInv, Reception, InPipe
<1>8. CASE pc = "last"  BY <1>8 DEF I2cInv, Reception
<1>9. CASE pc = "stop"  BY <1>9
<1>10. CASE pc \in {"writereg", "n1stop", "n2ack"}  BY <1>10
<1>11. pc \in Points  BY DEF I2cInv, Types, CallTypes
<1> QED BY <1>1, <1>2, <1>3, <1>4, <1>5, <1>6, <1>7, <1>8, <1>9, <1>10, <1>11

(* So the driver gives up on AF alone, and that is the sensor that is not back. *)
LEMMA GiveUpGoing ==
  ASSUME I2cInv, Going, ~stuck, GiveUp, bmp' = bmp
  PROVE  Going' /\ bmp = "nvm" /\ pc' = "idle"
<1>1. NoticesAf /\ sr.af  BY NeverWaits DEF GiveUp
<1>2. pc \in {"addrW", "addrR"} /\ bus = "ended" /\ bmp = "nvm"  BY <1>1 DEF Going
<1>3. ~cr.start  BY <1>2 DEF I2cInv, Addressing
<1>4. /\ cr' = [cr EXCEPT !.stop = TRUE] /\ sr' = [sr EXCEPT !.af = FALSE]
      /\ pc' = "idle" /\ bus' = bus
  BY <1>1 DEF GiveUp, Return, SameBus
<1>5. cr'.stop /\ ~cr'.start /\ ~sr'.af
  BY <1>3, <1>4 DEF I2cInv, Types, RegisterTypes, ControlBits, StatusBits
<1> QED BY <1>2, <1>4, <1>5 DEF Going, AddressedOut

(* The other steps of the driver keep it going, and return 0. *)
LEMMA DriverGoing ==
  ASSUME I2cInv, Going, ~stuck, Driver, ~GiveUp, bmp' = bmp
  PROVE  Going' /\ (pc' = "idle" => rc' = 0) /\ pc' # "free"
<1> USE DEF I2cInv, Types, RegisterTypes, ControlBits, StatusBits, SameBus, Env, Goto
<1>2. CASE BusFree
  BY <1>2, AtPoint, FlagAt DEF BusFree, Going, AddressedOut
<1>3. CASE Started
  BY <1>3, AtPoint, FlagAt DEF Started, WriteDR, Going, AddressedOut, Wire
<1>4. CASE AddressedW
  BY <1>4, AtPoint, FlagAt DEF AddressedW, ClearAddr, Going, AddressedOut, Wire, Addressing
<1>5. CASE WriteReg
  <2>1. pc = "writereg" /\ bus = "tx" /\ ~cr.stop /\ ~sr.af /\ call.reg \in Nat
    BY <1>5, AtPoint DEF WriteReg, Going, CallTypes, Calls
  <2>2. sh = Empty  BY <2>1 DEF Addressing
  <2>3. sh' = call.reg /\ pc' = "reg" /\ bus' = "tx" /\ cr' = cr /\ sr'.af = sr.af
    BY <1>5, <2>1, <2>2 DEF WriteReg, WriteDR
  <2> QED BY <2>1, <2>3 DEF Going, AddressedOut
<1>6. CASE RegWritten
  <2>1. call.data \in Nat  BY DEF CallTypes, Calls
  <2>2. CASE call.op = "write"
    BY <1>6, <2>1, <2>2, AtPoint, FlagAt
       DEF RegWritten, WriteDR, Going, AddressedOut, Addressing, RegisterGoesOut
  <2>3. CASE call.op # "write"
    BY <1>6, <2>3, AtPoint, FlagAt DEF RegWritten, Going, AddressedOut, Addressing
  <2> QED BY <2>2, <2>3
<1>7. CASE DataWritten
  BY <1>7, AtPoint DEF DataWritten, Going, AddressedOut
<1>8. CASE Restarted
  BY <1>8, AtPoint, FlagAt DEF Restarted, WriteDR, Going, AddressedOut, Wire
<1>9. CASE AddressedR
  <2>1. pc = "addrR" /\ sr.addr /\ bus = "addressed" /\ ~cr.stop /\ ~sr.af
    BY <1>9, AtPoint, FlagAt DEF AddressedR, Going, Wire
  <2>2. pc' \in {"n1stop", "n2ack", "three", "stream"}  BY <1>9 DEF AddressedR
  <2>3. bus' = "rx" /\ ~cr'.stop /\ ~sr'.af
    BY <1>9, <2>1 DEF AddressedR, ClearAddr, Addressing
  <2> QED BY <2>1, <2>2, <2>3 DEF Going, AddressedOut
<1>10. CASE OneStop
  BY <1>10, AtPoint DEF OneStop, Going, AddressedOut, Reception
<1>11. CASE OneRead
  BY <1>11, AtPoint, FlagAt DEF OneRead, ReadDR, Going, AddressedOut, Reception
<1>12. CASE TwoNack
  BY <1>12, AtPoint DEF TwoNack, Going, AddressedOut, Reception
<1>13. CASE TwoRead
  BY <1>13, AtPoint, FlagAt DEF TwoRead, Going, AddressedOut, Reception
<1>14. CASE Stream
  <2>1. pc = "stream" /\ bus = "rx" /\ ~cr.stop /\ ~sr.af
    BY <1>14, AtPoint DEF Stream, Going
  <2>2. pc' \in {"three", "stream"} /\ bus' = bus /\ cr' = cr /\ sr'.af = sr.af
    BY <1>14 DEF Stream, ReadDR
  <2> QED BY <2>1, <2>2 DEF Going, AddressedOut
<1>15. CASE Three
  BY <1>15, AtPoint, FlagAt DEF Three, ReadDR, Going, AddressedOut
<1>16. CASE Two
  BY <1>16, AtPoint, FlagAt DEF Two, ReadDR, Going, AddressedOut, Reception
<1>17. CASE LastRead
  BY <1>17, AtPoint DEF LastRead, ReadDR, Going, AddressedOut, Reception
<1>18. CASE Stopped
  <2>1. pc = "stop" /\ ~cr.stop  BY <1>18, AtPoint, FlagAt DEF Stopped
  <2>2. bus = "free" /\ ~cr.start  BY <2>1 DEF Ending, Addressing
  <2>3. pc' = "idle" /\ rc' = 0 /\ UNCHANGED << bus, cr, sr >>
    BY <1>18 DEF Stopped, Return
  <2> QED BY <2>1, <2>2, <2>3 DEF Going, AddressedOut
<1> QED BY <1>2, <1>3, <1>4, <1>5, <1>6, <1>7, <1>8, <1>9, <1>10, <1>11, <1>12,
           <1>13, <1>14, <1>15, <1>16, <1>17, <1>18 DEF Driver

(* What the bus does says where the driver is. *)
LEMMA OnTheWire ==
  ASSUME I2cInv, Going
  PROVE  /\ bus = "started" /\ ~sr.sb => pc \in {"addrW", "addrR"}
         /\ bus = "rx" => pc \in Receiving
         /\ bus = "tx" => pc \in {"writereg", "reg", "data", "sbR", "stop"}
         /\ cr.start => pc \in {"sbW", "sbR"}
         /\ cr.stop => pc \in {"idle", "free", "n1", "last", "stop"}
<1>1. pc \in Points  BY DEF I2cInv, Types, CallTypes
<1> USE <1>1 DEF I2cInv, Going
<1>2. bus = "started" /\ ~sr.sb => pc \in {"addrW", "addrR"}
  BY DEF Addressing, Reception, Ending
<1>3. bus = "rx" => pc \in Receiving
  BY DEF Addressing, Reception, Ending
<1>4. bus = "tx" => pc \in {"writereg", "reg", "data", "sbR", "stop"}
  BY DEF Addressing, Reception, Ending
<1>5. cr.start => pc \in {"sbW", "sbR"}
  BY DEF Addressing
<1>6. cr.stop => pc \in {"idle", "free", "n1", "last", "stop"}
  OBVIOUS
<1> QED BY <1>2, <1>3, <1>4, <1>5, <1>6

(* A START goes out. *)
LEMMA StartOutGoing ==
  ASSUME I2cInv, Going, StartOut, bmp' = bmp  PROVE Going'
<1>1. pc \in {"sbW", "sbR"} /\ pc' = pc /\ ~cr.stop /\ ~sr.af
  BY OnTheWire DEF StartOut, BusStep, Going
<1>2. bus' = "started" /\ sr'.sb /\ sr'.af = sr.af /\ cr'.stop = cr.stop
  BY DEF StartOut, I2cInv, Types, RegisterTypes, ControlBits, StatusBits
<1> QED BY <1>1, <1>2 DEF Going, AddressedOut

(* The sensor answers its address, or is not back from its reset. *)
LEMMA AddressOutGoing ==
  ASSUME I2cInv, SensorInv, There, Going, NEW ack \in BOOLEAN, AddressOut(ack, dev.there),
         ~hurt', bmp' = bmp
  PROVE  Going' /\ (sr'.addr => dev.there)
<1>1. bus = "started" /\ ~sr.sb /\ pc \in {"addrW", "addrR"} /\ pc' = pc
  BY OnTheWire DEF AddressOut, BusStep
<1>2. ~cr.stop /\ ~sr.af /\ cr' = cr  BY <1>1 DEF Going, AddressOut
<1>3. /\ sr'.addr = ack /\ (sr'.af <=> ~ack)
      /\ bus' = IF ack THEN "addressed" ELSE "ended"
  BY <1>2 DEF AddressOut, I2cInv, Types, RegisterTypes, StatusBits
<1>4. ack => dev.there  BY DEF AddressOut, Answer
<1>5. ~ack => bmp = "nvm"
  <2>1. ~ack => ~dev.there  BY DEF AddressOut, Answer
  <2>2. bmp # "halt"  BY <1>1 DEF SensorInv, Requests
  <2> QED BY <1>1, <2>1, <2>2 DEF There
<1> QED BY <1>1, <1>2, <1>3, <1>4, <1>5 DEF Going, AddressedOut

(* A byte is taken. *)
LEMMA ByteOutGoing ==
  ASSUME I2cInv, Going, NEW ack \in BOOLEAN, ByteOut(ack), ~hurt', bmp' = bmp  PROVE Going'
<1>1. /\ pc \in {"writereg", "reg", "data", "sbR", "stop"} /\ bus = "tx"
      /\ pc' = pc /\ cr' = cr
  BY OnTheWire DEF ByteOut, BusStep
<1>2. ack  BY DEF ByteOut, Answer
<1>3. bus' = "tx" /\ sr'.txe /\ sr'.af = sr.af /\ sr'.sb = sr.sb
  BY <1>1, <1>2 DEF ByteOut, I2cInv, Types, RegisterTypes, StatusBits
<1> QED BY <1>1, <1>3 DEF Going, AddressedOut

(* A byte comes in, and sets the flag that the driver waits for. *)
LEMMA ByteInGoing ==
  ASSUME I2cInv, Going, NEW v \in Nat, ByteIn(v), bmp' = bmp  PROVE Going'
<1>1. /\ bus = "rx" /\ sh = Empty /\ pc \in Receiving /\ pc # "n2ack" /\ pc' = pc /\ cr' = cr
  BY OnTheWire, BusStepPoint DEF ByteIn, BusStep
<1>2. ~sr.af  BY <1>1 DEF Going
<1>3. /\ sr'.af = sr.af /\ sr'.rxne /\ (sr.rxne => sr'.btf)
      /\ bus' \in {"rx", "ended"}
  BY DEF ByteIn, I2cInv, Types, RegisterTypes, StatusBits
<1>4. pc \in {"stream", "three"} => bus' = "rx"
  <2> SUFFICES ASSUME pc \in {"stream", "three"}  PROVE bus' = "rx"
    OBVIOUS
  <2>1. call.len > 2 /\ call.len # 2  BY DEF I2cInv, Reception, Types, CallTypes, Calls
  <2>2. cr.ack /\ ~cr.pos  BY <1>1, <2>1 DEF I2cInv, Reception
  <2> QED BY <2>2 DEF ByteIn, Going
<1>5. pc = "n2" => bus' = "rx" \/ sr'.btf
  <2> SUFFICES ASSUME pc = "n2", ~sr.rxne  PROVE bus' = "rx"
    BY <1>3
  <2>1. cr.pos /\ lat  BY <1>1 DEF I2cInv, Reception
  <2> QED BY <2>1 DEF ByteIn, Going
<1>6. pc = "two" => sr'.btf  BY <1>1, <1>3 DEF I2cInv, Reception
<1> QED BY <1>1, <1>2, <1>3, <1>4, <1>5, <1>6 DEF Going, AddressedOut

(* A STOP goes out. *)
LEMMA StopOutGoing ==
  ASSUME I2cInv, Going, StopOut, bmp' = bmp  PROVE Going'
<1>1. pc \in {"idle", "free", "n1", "last", "stop"} /\ pc' = pc /\ ~sr.af
  BY OnTheWire DEF StopOut, BusStep, Going
<1>2. /\ bus' = "free" /\ ~cr'.stop /\ (cr'.start => cr.start)
      /\ sr'.af = sr.af /\ sr'.rxne = sr.rxne
  BY DEF StopOut, I2cInv, Types, RegisterTypes, ControlBits, StatusBits
<1>3. pc = "n1" => sr.rxne
  BY DEF StopOut, Going, I2cInv, Reception, InPipe
<1> QED BY <1>1, <1>2, <1>3 DEF Going, AddressedOut

(* The next transfer begins on a bus that the last one left in order. *)
LEMMA TransferGoing ==
  ASSUME I2cInv, Unhurt, pc = "idle", NEW op, NEW reg, NEW len, NEW data,
         Transfer(op, reg, len, data)
  PROVE  Unhurt' /\ Returned'
<1>1. pc' = "free" /\ UNCHANGED hwVars /\ stuck' = stuck /\ hurt' = (stuck \/ (hurt /\ Traces))
  BY DEF Transfer
<1>2. Returned'  BY <1>1 DEF Returned
<1>3. ASSUME ~hurt'  PROVE ~stuck' /\ Going'
  <2>1. ~stuck  BY <1>1, <1>3
  <2>2. /\ ~sr.af /\ ~cr.start /\ (bus = "free" => ~cr.stop)
        /\ bus = "free" \/ (bus = "ended" /\ cr.stop)
    <3>1. CASE hurt  BY <1>1, <1>3, <3>1 DEF Traces
    <3>2. CASE ~hurt  BY <3>2 DEF Unhurt, Going
    <3> QED BY <3>1, <3>2
  <2> QED BY <1>1, <2>1, <2>2 DEF Going, AddressedOut, hwVars
<1> QED BY <1>2, <1>3 DEF Unhurt


(* A read that is not being answered loses nothing of what it knows. *)
LEMMA IdKeeps ==
  ASSUME SensorInv, IdOK, BusOnward, sent' = sent \/ sent' = << >>
  PROVE  IdOK'
<1>0. Heard' = Heard /\ (Missed => Missed') /\ bmp' = bmp
  BY BusKeeps DEF BusOnward, Onward
<1>1. sent' = << >> => 1 .. Len(sent') = {}  OBVIOUS
<1> QED BY <1>0, <1>1 DEF IdOK

(* The driver sends nothing of its own in a read. *)
LEMMA IdDriver ==
  ASSUME I2cInv, SensorInv, IdOK, Driver, UNCHANGED bmpVars
  PROVE  IdOK'
<1> SUFFICES ASSUME bmp = "id", Heard', ~Missed'
             PROVE  \A k \in 1 .. Len(sent') : sent'[k] = BMP280_CHIP_ID
  BY DEF IdOK, bmpVars
<1>1. /\ pc # "idle" /\ sent' = sent /\ ~(pc' = "idle" /\ rc' = -1)
      /\ sr'.af = sr.af /\ (Heard \/ sent = << >> \/ call.op = "write")
  BY DriverLeaves DEF Missed, Failed
<1>2. call.op # "write"  BY DEF SensorInv, Requests, Reads
<1>3. ~Missed  BY <1>1 DEF Missed, Failed
<1>4. sent = << >> => 1 .. Len(sent) = {}  OBVIOUS
<1> QED BY <1>1, <1>2, <1>3, <1>4 DEF IdOK

(* The one byte of the read of the identity. *)
LEMMA IdByteIn ==
  ASSUME I2cInv, SensorInv, IdOK, ByteIn(Register(ptr)), UNCHANGED bmpVars
  PROVE  IdOK'
<1> DEFINE v == Register(ptr)
<1>0. /\ BusStep /\ bus = "rx" /\ sh = Empty /\ sr'.af = sr.af /\ sent' = Append(sent, v)
  BY DEF ByteIn, I2cInv, Types, RegisterTypes, StatusBits
<1>1. /\ UNCHANGED << pc, call, rc, bmp >> /\ Heard' = Heard /\ Missed' = Missed
  BY <1>0 DEF BusStep, bmpVars, Heard, Missed, Failed
<1> SUFFICES ASSUME bmp = "id", Heard, ~Missed, NEW k \in 1 .. Len(sent')
             PROVE  sent'[k] = BMP280_CHIP_ID
  BY <1>1 DEF IdOK
<1>2. call.len = 1 /\ call.reg = BMP280_REG_ID /\ call.op = "read"
  BY DEF SensorInv, Requests, Reads
<1>3. pc \in Receiving  BY <1>0, <1>2 DEF Heard, I2cInv, Ending
<1>4. Len(sent) \in Nat /\ Len(sent) < 1 /\ (sr.af \/ ptr = call.reg + Len(sent))
  BY <1>0, <1>2, <1>3, RoomLeft DEF I2cInv, Reception
<1>5. Len(sent) = 0
  <2>1. \A n \in Nat : n < 1 => n = 0  OBVIOUS
  <2> QED BY <1>4, <2>1, Zenon
<1>6. ptr = 0
  <2>1. ptr = 0 + 0  BY <1>2, <1>4, <1>5 DEF Missed, BMP280_REG_ID
  <2> QED BY <2>1
<1>7. ptr \in Nat /\ sent \in Seq(Nat)  BY DEF I2cInv, Types, BusTypes
<1>8. v = BMP280_CHIP_ID  BY <1>6, <1>7, RegisterValues DEF SensorInv, BMP280_REG_ID
<1>9. v \in Nat  BY <1>8 DEF BMP280_CHIP_ID
<1>10. Len(sent') = 1 /\ sent'[1] = v
  <2>1. Len(sent') = Len(sent) + 1 /\ sent'[Len(sent) + 1] = v
    BY <1>0, <1>7, <1>9, AppendProperties
  <2> QED BY <1>5, <2>1
<1> QED BY <1>8, <1>10

(* Where a step of the driver leads, and what it leaves alone. *)
LEMMA DriverPoints ==
  ASSUME I2cInv, Driver, UNCHANGED bmpVars
  PROVE  /\ UNCHANGED << stuck, hurt, call >> /\ pc' # "free"
         /\ sr'.addr => sr.addr
         /\ pc \in {"data", "stop"} => pc' \in {"stop", "idle"}
         /\ pc' \in Receiving => pc \in Receiving \/ sr.addr
         /\ pc' = "stop" => pc \in Receiving \cup {"data"}
         /\ pc' = "idle" /\ rc' = 0 => pc = "stop"
         /\ pc' = "data" => call.op = "write"
<1> USE DEF I2cInv, Types, RegisterTypes, StatusBits, Env, Goto
<1>1. CASE GiveUp
  BY <1>1 DEF GiveUp, Return
<1>2. CASE BusFree  BY <1>2, AtPoint DEF BusFree
<1>3. CASE Started  BY <1>3, AtPoint DEF Started, WriteDR
<1>4. CASE AddressedW  BY <1>4, AtPoint DEF AddressedW, ClearAddr
<1>5. CASE WriteReg  BY <1>5, AtPoint DEF WriteReg, WriteDR
<1>6. CASE RegWritten  BY <1>6, AtPoint DEF RegWritten, WriteDR
<1>7. CASE DataWritten  BY <1>7, AtPoint DEF DataWritten
<1>8. CASE Restarted  BY <1>8, AtPoint DEF Restarted, WriteDR
<1>9. CASE AddressedR  BY <1>9, AtPoint, FlagAt DEF AddressedR, ClearAddr
<1>10. CASE OneStop  BY <1>10, AtPoint DEF OneStop
<1>11. CASE OneRead  BY <1>11, AtPoint DEF OneRead, ReadDR
<1>12. CASE TwoNack  BY <1>12, AtPoint DEF TwoNack
<1>13. CASE TwoRead  BY <1>13, AtPoint DEF TwoRead
<1>14. CASE Stream  BY <1>14, AtPoint DEF Stream, ReadDR
<1>15. CASE Three  BY <1>15, AtPoint DEF Three, ReadDR
<1>16. CASE Two  BY <1>16, AtPoint DEF Two, ReadDR
<1>17. CASE LastRead  BY <1>17, AtPoint DEF LastRead, ReadDR
<1>18. CASE Stopped  BY <1>18, AtPoint DEF Stopped, Return
<1> QED BY <1>1, <1>2, <1>3, <1>4, <1>5, <1>6, <1>7, <1>8, <1>9, <1>10, <1>11, <1>12,
           <1>13, <1>14, <1>15, <1>16, <1>17, <1>18 DEF Driver

(* A step of the driver. *)
LEMMA DriverQuiet ==
  ASSUME I2cInv, SensorInv, QuietInv, Driver, UNCHANGED bmpVars
  PROVE  QuietInv'
<1> USE DEF QuietInv, bmpVars
<1>1. IdOK'  BY IdDriver
<1>2. There'
  <2>1. bmp = "reset" /\ pc' \notin {"data", "stop", "idle"} => pc \notin {"data", "stop", "idle"}
    BY DriverPoints, DriverLeaves
  <2>2. bmp = "nvm" => pc # "data"  BY DEF SensorInv, Requests, Reads, I2cInv, Control
  <2>3. bmp = "nvm" /\ (Heard' \/ sr'.addr) => Heard \/ sr.addr
    BY <2>2, DriverPoints DEF Heard
  <2> QED BY <2>1, <2>3, DriverPoints DEF There
<1>3. Unhurt' /\ Returned'
  <2> SUFFICES ASSUME ~hurt  PROVE ~stuck /\ Going' /\ Returned'
    BY DriverPoints DEF Unhurt, Returned
  <2>1. ~stuck /\ Going  BY DEF Unhurt
  <2>2. CASE GiveUp  BY <2>1, <2>2, GiveUpGoing DEF Returned
  <2>3. CASE ~GiveUp  BY <2>1, <2>3, DriverGoing DEF Returned
  <2> QED BY <2>1, <2>2, <2>3
<1> QED BY <1>1, <1>2, <1>3

(* A step of the bus that the sensor only takes or answers. *)
LEMMA BusThere ==
  ASSUME I2cInv, There, BusStep, bmp' = bmp, dev.there => dev'.there,
         bus = "free" => bus' = "free" \/ cr.start, cr'.start => cr.start,
         sr'.addr => sr.addr \/ dev.there
  PROVE  There'
<1>1. UNCHANGED << pc, rc >>  BY DEF BusStep
<1> QED BY <1>1 DEF There, Heard

(* A step of the bus, with what the sensor makes of it. *)
LEMMA BusQuiet ==
  ASSUME I2cInv, SensorInv, QuietInv, Bus
  PROVE  QuietInv'
<1> USE DEF QuietInv
<1>0. ASSUME BusStep, bmp' = bmp, hurt => hurt', ~hurt' => Going'
      PROVE  Unhurt' /\ Returned'
  <2>1. UNCHANGED << stuck, pc, rc >>  BY <1>0 DEF BusStep
  <2> QED BY <1>0, <2>1 DEF Unhurt, Returned
<1>1. CASE StartOut /\ UNCHANGED bmpVars
  <2>1. BusStep /\ hurt' = hurt /\ sent' = sent /\ faults' = faults /\ bmp' = bmp /\ dev' = dev
    BY <1>1 DEF StartOut, NoAnswer, bmpVars
  <2>2. sr'.af = sr.af /\ sr'.addr = sr.addr /\ cr.start /\ ~cr'.start
    BY <1>1 DEF StartOut, I2cInv, Types, RegisterTypes, StatusBits, ControlBits
  <2>3. IdOK'  BY <1>1, <2>1, <2>2, IdKeeps, NoDeviceStep DEF BusOnward, SensorInv
  <2>4. There'  BY <2>1, <2>2, BusThere
  <2>5. ~hurt => Going'  BY <1>1, <2>1, StartOutGoing DEF Unhurt
  <2> QED BY <1>0, <2>1, <2>3, <2>4, <2>5
<1>2. CASE StopOut /\ UNCHANGED bmpVars
  <2>1. BusStep /\ hurt' = hurt /\ sent' = sent /\ faults' = faults /\ bmp' = bmp /\ dev' = dev
    BY <1>2 DEF StopOut, NoAnswer, bmpVars
  <2>2. sr'.af = sr.af /\ ~sr'.addr /\ bus' = "free" /\ (cr'.start => cr.start)
    BY <1>2 DEF StopOut, I2cInv, Types, RegisterTypes, StatusBits, ControlBits
  <2>3. IdOK'  BY <1>2, <2>1, <2>2, IdKeeps, NoDeviceStep DEF BusOnward, SensorInv
  <2>4. There'  BY <2>1, <2>2, BusThere
  <2>5. ~hurt => Going'  BY <1>2, <2>1, StopOutGoing DEF Unhurt
  <2> QED BY <1>0, <2>1, <2>3, <2>4, <2>5
<1>3. CASE (\E ack \in BOOLEAN : AddressOut(ack, dev.there)) /\ UNCHANGED bmpVars
  <2>0. PICK ack \in BOOLEAN : AddressOut(ack, dev.there)  BY <1>3
  <2>1. BusStep /\ (hurt => hurt') /\ sent' = << >> /\ bmp' = bmp /\ dev' = dev
    BY <1>3, <2>0 DEF AddressOut, Answer, bmpVars
  <2>2. /\ bus = "started" /\ cr' = cr /\ (sr'.af <=> sr.af \/ ~ack) /\ (ack => dev.there)
        /\ sr'.addr = ack
    BY <2>0 DEF AddressOut, Answer, I2cInv, Types, RegisterTypes, StatusBits
  <2>3. BusOnward
    <3>1. faults' = IF ~ack /\ dev.there THEN faults + 1 ELSE faults
      BY <2>0 DEF AddressOut, Answer
    <3>2. faults \in Nat  BY DEF I2cInv, Types, FaultTypes
    <3>3. ~ack => Clean'
      BY <1>3, <2>2, <3>1, <3>2 DEF Clean, SensorInv, SensorTypes, bmpVars
    <3> QED BY <1>3, <2>1, <2>2, <3>1, <3>2, <3>3, NoDeviceStep DEF BusOnward, SensorInv
  <2>4. IdOK'  BY <2>1, <2>3, IdKeeps
  <2>5. There'  BY <2>1, <2>2, BusThere
  <2>6. ~hurt' => Going'  BY <2>0, <2>1, AddressOutGoing DEF Unhurt
  <2> QED BY <1>0, <2>1, <2>4, <2>5, <2>6
<1>4. ASSUME NEW ack \in BOOLEAN, ByteOut(ack),
             dev' = IF ack /\ ~first THEN Took(ptr, sh) ELSE dev,
             UNCHANGED << bmp, calib, out, trouble >>
      PROVE  QuietInv'
  <2>1. BusStep /\ (hurt => hurt') /\ sent' = sent /\ bus = "tx" /\ sh # Empty /\ cr' = cr
    BY <1>4 DEF ByteOut, Answer
  <2>2. (sr'.af <=> sr.af \/ ~ack) /\ sr'.addr = sr.addr
    BY <1>4 DEF ByteOut, I2cInv, Types, RegisterTypes, StatusBits
  <2>3. ~first => Commanded(ptr, sh)  BY <2>1 DEF SensorInv, CommandGoesOut
  <2>4. Onward
    <3>1. CASE ack /\ ~first
      <4>1. dev' = Took(ptr, sh)  BY <1>4, <3>1
      <4> QED BY <1>4, <2>3, <3>1, <4>1, TookTypes DEF SensorInv
    <3>2. CASE ~(ack /\ ~first)
      <4>1. dev' = dev  BY <1>4, <3>2
      <4>2. UNCHANGED bmpVars  BY <1>4, <4>1 DEF bmpVars
      <4> QED BY <4>2, NoDeviceStep DEF SensorInv
    <3> QED BY <3>1, <3>2
  <2>5. BusOnward
    <3>1. faults' = IF ~ack THEN faults + 1 ELSE faults  BY <1>4 DEF ByteOut, Answer
    <3>2. faults \in Nat  BY DEF I2cInv, Types, FaultTypes
    <3> QED BY <2>1, <2>2, <2>4, <3>1, <3>2 DEF BusOnward, Clean
  <2>6. IdOK'  BY <2>1, <2>5, IdKeeps
  <2>7. bmp \in {"reset", "halt"} \/ dev'.there = dev.there
    <3>1. CASE ack /\ ~first
      <4>1. dev' = Took(ptr, sh)  BY <1>4, <3>1
      <4> QED BY <1>4, <2>3, <3>1, <4>1, TookTypes DEF SensorInv
    <3>2. CASE ~(ack /\ ~first)  BY <1>4, <3>2
    <3> QED BY <3>1, <3>2
  <2>8. bmp = "reset" /\ pc \notin {"data", "stop", "idle"} => dev' = dev /\ pc # "free"
    <3>1. bmp = "reset" /\ pc = "free" => FALSE  BY <2>1 DEF There
    <3>2. pc \in {"sbW", "addrW", "writereg", "addrR"} \cup Receiving => sh = Empty \/ bus # "tx"
      BY DEF I2cInv, Addressing, Reception
    <3>3. pc \in {"reg", "sbR"} => first \/ sh = Empty
      BY <2>1 DEF I2cInv, Addressing, RegisterGoesOut
    <3>4. pc \in Points  BY DEF I2cInv, Types, CallTypes
    <3> QED BY <1>4, <2>1, <3>1, <3>2, <3>3, <3>4
  <2>9. There'
    <3>1. UNCHANGED << pc, rc, bmp >> /\ Heard' = Heard  BY <1>4, <2>1 DEF BusStep, Heard
    <3> QED BY <2>2, <2>7, <2>8, <3>1 DEF There
  <2>10. ~hurt' => Going'  BY <1>4, <2>1, ByteOutGoing DEF Unhurt
  <2> QED BY <1>0, <1>4, <2>1, <2>6, <2>9, <2>10
<1>5. CASE ByteIn(Register(ptr)) /\ UNCHANGED bmpVars
  <2>1. BusStep /\ hurt' = hurt /\ bmp' = bmp /\ dev' = dev /\ bus = "rx" /\ cr' = cr
    BY <1>5 DEF ByteIn, NoAnswer, bmpVars
  <2>2. sr'.addr = sr.addr
    BY <1>5 DEF ByteIn, I2cInv, Types, RegisterTypes, StatusBits
  <2>3. IdOK'  BY <1>5, IdByteIn
  <2>4. There'  BY <2>1, <2>2, BusThere
  <2>5. Register(ptr) \in Nat
    <3>1. ptr \in Nat  BY DEF I2cInv, Types, BusTypes
    <3> QED BY <3>1, RegisterValues DEF SensorInv
  <2>6. ~hurt => Going'  BY <1>5, <2>1, <2>5, ByteInGoing DEF Unhurt
  <2> QED BY <1>0, <2>1, <2>3, <2>4, <2>6
<1> QED BY <1>1, <1>2, <1>3, <1>4, <1>5 DEF Bus

(* The sensor goes on by itself. *)
LEMMA SensorStepQuiet ==
  ASSUME SensorInv, QuietInv, SensorStep
  PROVE  QuietInv'
<1>1. UNCHANGED << bmp, calib, out, trouble >> /\ UNCHANGED i2cVars  BY DEF SensorStep
<1>2. dev.there => dev'.there
  BY DEF SensorStep, SensorInv, SensorTypes, Sensors
<1>3. There'  BY <1>1, <1>2 DEF QuietInv, There, Heard, i2cVars
<1>4. IdOK'  BY <1>1 DEF QuietInv, IdOK, Heard, Missed, Failed, i2cVars
<1>5. Unhurt' /\ Returned'
  BY <1>1 DEF QuietInv, Unhurt, Going, AddressedOut, Returned, i2cVars
<1> QED BY <1>3, <1>4, <1>5 DEF QuietInv

(* A fault, or nothing. *)
LEMMA SameQuiet ==
  ASSUME QuietInv, UNCHANGED << bmpVars, hwVars, call, pc, buf, rc >>,
         hurt' \/ (hurt' = hurt /\ (stuck' => stuck))
  PROVE  QuietInv'
<1> USE DEF bmpVars, hwVars
<1>1. There' /\ IdOK'  BY DEF QuietInv, There, IdOK, Heard, Missed, Failed
<1>2. Unhurt' /\ Returned'  BY DEF QuietInv, Unhurt, Going, AddressedOut, Returned
<1> QED BY <1>1, <1>2 DEF QuietInv

(* The program between two transfers. *)
LEMMA RequestQuiet ==
  ASSUME I2cInv, SensorInv, QuietInv, pc = "idle", NEW op, NEW reg, NEW len, NEW data,
         Transfer(op, reg, len, data), dev'.there = dev.there,
         bmp' \notin {"nvm", "halt"} => dev.there,
         bmp' = "reset" => bus = "free" /\ ~cr.start,
         bmp' = "nvm" => bus = "free" \/ bmp = "nvm"
  PROVE  QuietInv'
<1>1. Unhurt' /\ Returned'  BY TransferGoing DEF QuietInv
<1>2. pc' = "free" /\ UNCHANGED hwVars  BY DEF Transfer
<1>3. ~Heard'  BY <1>2 DEF Heard
<1>4. sr.addr => bus # "free"  BY DEF I2cInv, Wire
<1>5. There'  BY <1>2, <1>3, <1>4 DEF There, QuietInv, hwVars
<1>6. IdOK'  BY <1>3 DEF IdOK
<1> QED BY <1>1, <1>5, <1>6 DEF QuietInv

(* The program returns, or halts. *)
LEMMA NoRequestQuiet ==
  ASSUME SensorInv, QuietInv, pc = "idle", NoTransfer, dev' = dev, bmp' \in {"run", "halt"},
         bmp' = "run" => bmp \notin {"nvm", "halt"} /\ dev.there
  PROVE  QuietInv'
<1>0. UNCHANGED << pc, rc, stuck, hurt, sr, bus, cr, sh >>  BY DEF NoTransfer, i2cVars
<1>1. There' /\ IdOK'  BY DEF There, IdOK
<1>2. Unhurt'
  <2>1. Going => Going'  BY <1>0 DEF Going, AddressedOut
  <2> QED BY <1>0, <2>1 DEF QuietInv, Unhurt
<1>3. Returned'
  BY <1>0 DEF QuietInv, Returned
<1> QED BY <1>1, <1>2, <1>3 DEF QuietInv

(* Every step of bmp280_bringup() and bmp280_read() between two transfers. *)
LEMMA ProgramQuiet ==
  ASSUME I2cInv, SensorInv, QuietInv, Program \/ ForceMode, ~(Driver /\ UNCHANGED bmpVars)
  PROVE  QuietInv'
<1> USE DEF Done
<1>0. /\ bmp \in Stages /\ bmp # "halt" /\ pc = "idle" /\ dev'.there = dev.there
      /\ \/ bmp = "run" \/ dev' = dev
  BY DEF SensorInv, SensorTypes, Sensors, Program, ReadId, IdRead, WasReset, PollNvm,
         NvmTimeout, NvmCopied, CalibRead, Configured, ForceMode, Forced, Poll, PollTimeout,
         PollFailed, Converted, BurstRead
<1>1. bmp \notin {"reset", "nvm"} => dev.there  BY <1>0 DEF QuietInv, There
<1>2. rc = 0 /\ bmp \notin {"begin", "run"} =>
        bus = "free" /\ ~cr.start /\ (Heard \/ call.op = "write")
  BY <1>0 DEF I2cInv, Ending, Heard, SensorInv, Requests, Reads, Writes, Stages, Addressing
<1>3. bmp = "nvm" /\ rc = 0 => dev.there
  BY <1>0, <1>2 DEF SensorInv, Requests, Reads, Heard, QuietInv, There
<1>4. ASSUME bmp # "run", Halt  PROVE QuietInv'
  BY <1>0, <1>4, NoRequestQuiet DEF Halt
<1>5. CASE ReadId
  <2>1. bmp' = "id" /\ Transfer("read", BMP280_REG_ID, 1, 0)
    BY <1>5 DEF ReadId, i2c_read_registers
  <2> QED BY <1>0, <1>1, <1>5, <2>1, RequestQuiet DEF ReadId
<1>6. CASE IdRead
  <2>1. CASE rc = 0 /\ buf = << BMP280_CHIP_ID >>
    <3>1. bmp' = "reset" /\ Transfer("write", BMP280_REG_RESET, 0, BMP280_RESET_CMD)
      BY <1>6, <2>1 DEF IdRead, i2c_write_register
    <3> QED BY <1>0, <1>1, <1>2, <1>6, <2>1, <3>1, RequestQuiet DEF IdRead
  <2>2. CASE ~(rc = 0 /\ buf = << BMP280_CHIP_ID >>)
    BY <1>4, <1>6, <2>2 DEF IdRead
  <2> QED BY <2>1, <2>2
<1>7. CASE WasReset
  <2>1. CASE rc = 0
    <3>1. bmp' = "nvm" /\ Transfer("read", BMP280_REG_STATUS, 1, 0)
      BY <1>7, <2>1 DEF WasReset, i2c_read_registers
    <3> QED BY <1>0, <1>2, <1>7, <2>1, <3>1, RequestQuiet DEF WasReset
  <2>2. CASE rc # 0  BY <1>4, <1>7, <2>2 DEF WasReset
  <2> QED BY <2>1, <2>2
<1>8. CASE PollNvm
  <2>1. bmp' = "nvm" /\ Transfer("read", BMP280_REG_STATUS, 1, 0)
    BY <1>8 DEF PollNvm, i2c_read_registers
  <2> QED BY <1>0, <1>8, <2>1, RequestQuiet DEF PollNvm
<1>9. CASE NvmTimeout  BY <1>4, <1>9 DEF NvmTimeout
<1>10. CASE NvmCopied
  <2>1. bmp' = "calib" /\ Transfer("read", BMP280_REG_CALIB, CALIB_LEN, 0) /\ rc = 0
    BY <1>10 DEF NvmCopied, i2c_read_registers, StillCopying
  <2> QED BY <1>0, <1>3, <1>10, <2>1, RequestQuiet DEF NvmCopied
<1>11. CASE CalibRead
  <2>1. CASE rc = 0 /\ buf[1] # 0 /\ buf[3] # 0
    <3>1. bmp' = "config" /\ Transfer("write", BMP280_REG_CONFIG, 0, 0)
      BY <1>11, <2>1 DEF CalibRead, i2c_write_register
    <3> QED BY <1>0, <1>1, <1>11, <3>1, RequestQuiet DEF CalibRead
  <2>2. CASE ~(rc = 0 /\ buf[1] # 0 /\ buf[3] # 0)
    BY <1>4, <1>11, <2>2 DEF CalibRead
  <2> QED BY <2>1, <2>2
<1>12. CASE Configured
  BY <1>0, <1>1, <1>12, NoRequestQuiet DEF Configured
<1>13. CASE ForceMode
  <2>1. bmp' = "force" /\ Transfer("write", BMP280_REG_CTRL_MEAS, 0, BMP280_CTRL_MEAS_FORCED)
    BY <1>13 DEF ForceMode, i2c_write_register
  <2> QED BY <1>0, <1>1, <1>13, <2>1, RequestQuiet DEF ForceMode
<1>14. CASE /\ bmp \in {"force", "poll", "burst"}
            /\ Forced \/ PollTimeout \/ PollFailed \/ BurstRead
            /\ bmp' = "run" /\ NoTransfer
  <2>1. dev' = dev  BY <1>0, <1>14
  <2>2. dev.there  BY <1>1, <1>14
  <2> QED BY <1>0, <1>14, <2>1, <2>2, NoRequestQuiet
<1>15. CASE Forced
  <2>1. CASE rc = 0
    <3>1. bmp' = "poll" /\ Transfer("read", BMP280_REG_STATUS, 2, 0)
      BY <1>15, <2>1 DEF Forced, i2c_read_registers
    <3> QED BY <1>0, <1>1, <1>15, <3>1, RequestQuiet DEF Forced
  <2>2. CASE rc # 0  BY <1>14, <1>15, <2>2 DEF Forced, Fail
  <2> QED BY <2>1, <2>2
<1>16. CASE Poll
  <2>1. bmp' = "poll" /\ Transfer("read", BMP280_REG_STATUS, 2, 0)
    BY <1>16 DEF Poll, i2c_read_registers
  <2> QED BY <1>0, <1>1, <1>16, <2>1, RequestQuiet DEF Poll
<1>17. CASE PollTimeout \/ PollFailed
  BY <1>14, <1>17 DEF PollTimeout, PollFailed, Fail
<1>18. CASE Converted
  <2>1. bmp' = "burst" /\ Transfer("read", BMP280_REG_PRESS_MSB, DATA_LEN, 0)
    BY <1>18 DEF Converted, i2c_read_registers
  <2> QED BY <1>0, <1>1, <1>18, <2>1, RequestQuiet DEF Converted
<1>19. CASE BurstRead  BY <1>14, <1>19 DEF BurstRead
<1> QED BY <1>5, <1>6, <1>7, <1>8, <1>9, <1>10, <1>11, <1>12, <1>13, <1>15, <1>16, <1>17,
           <1>18, <1>19 DEF Program

(* The first state. *)
LEMMA InitQuiet == ASSUME Init  PROVE QuietInv
<1> USE DEF Init, I2cInit, NoCall
<1>1. bmp = "begin" /\ dev.there /\ ~hurt  OBVIOUS
<1>2. There /\ IdOK  BY <1>1 DEF There, IdOK
<1>3. Unhurt  BY DEF Unhurt, Going, AddressedOut
<1>4. Returned  BY DEF Returned
<1> QED BY <1>2, <1>3, <1>4 DEF QuietInv

(* Every step of the program. *)
LEMMA NextQuiet ==
  ASSUME I2cInv, SensorInv, QuietInv, [Next]_vars
  PROVE  QuietInv'
<1>1. CASE (Program \/ ForceMode) /\ ~(Driver /\ UNCHANGED bmpVars)  BY <1>1, ProgramQuiet
<1>2. CASE Driver /\ UNCHANGED bmpVars  BY <1>2, DriverQuiet
<1>3. CASE Bus  BY <1>3, BusQuiet
<1>4. CASE SensorStep  BY <1>4, SensorStepQuiet
<1>5. CASE Faults
  BY <1>5, SameQuiet DEF Faults, Stick, Unstick
<1>6. CASE UNCHANGED vars
  <2>1. UNCHANGED << bmpVars, hwVars, call, pc, buf, rc >> /\ hurt' = hurt /\ stuck' = stuck
    BY <1>6 DEF vars, bmpVars, hwVars
  <2> QED BY <2>1, SameQuiet
<1> QED BY <1>1, <1>2, <1>3, <1>4, <1>5, <1>6 DEF Next

(* Bring-up halts: each way to do so has had a fault. *)
LEMMA HaltsOnFault ==
  ASSUME I2cInv, SensorInv, QuietInv, Next, bmp' = "halt", bmp # "halt"
  PROVE  trouble'
<1> USE DEF Done
<1>1. \/ IdRead \/ WasReset \/ NvmTimeout \/ CalibRead \/ Configured
  BY DEF Next, Program, Bus, SensorStep, Faults, bmpVars, Fail,
         ReadId, PollNvm, NvmCopied, ForceMode, Forced, Poll, PollTimeout, PollFailed,
         Converted, BurstRead
<1>2. pc = "idle" /\ trouble' = (trouble \/ hurt)
  BY <1>1 DEF IdRead, WasReset, NvmTimeout, CalibRead, Configured, Note
<1> SUFFICES ASSUME ~hurt, ~trouble  PROVE FALSE
  BY <1>2 DEF SensorInv, SensorTypes
<1>3. bmp \notin {"nvm", "halt"} => rc = 0  BY <1>2 DEF QuietInv, Returned
<1>4. ~sr.af  BY <1>2 DEF QuietInv, Unhurt, Going
<1>5. CASE IdRead
  <2>1. bmp = "id" /\ rc = 0 /\ buf # << BMP280_CHIP_ID >>  BY <1>3, <1>5 DEF IdRead
  <2>2. call.op = "read" /\ call.len = 1  BY <2>1 DEF SensorInv, Requests, Reads
  <2>3. Heard /\ ~Failed /\ buf = sent /\ Len(buf) = 1
    BY <1>2, <2>1, <2>2, ReadHeard
  <2>4. buf[1] = BMP280_CHIP_ID
    BY <1>4, <2>1, <2>3 DEF QuietInv, IdOK, Missed
  <2>5. buf \in Seq(Byte)  BY DEF I2cInv, Types, CallTypes
  <2> QED BY <2>1, <2>3, <2>4, <2>5
<1>6. CASE WasReset  BY <1>3, <1>6 DEF WasReset
<1>7. CASE NvmTimeout  BY <1>7 DEF NvmTimeout
<1>8. CASE CalibRead
  <2>1. bmp = "calib" /\ rc = 0 /\ ~(buf[1] # 0 /\ buf[3] # 0)  BY <1>3, <1>8 DEF CalibRead
  <2>2. call.op = "read" /\ call.len = CALIB_LEN  BY <2>1 DEF SensorInv, Requests, Reads
  <2>3. Heard /\ ~Failed /\ buf = sent /\ Len(sent) = CALIB_LEN
    BY <1>2, <2>1, <2>2, ReadHeard
  <2>4. \A k \in 1 .. CALIB_LEN : buf[k] = Memory[k]
    BY <1>4, <2>1, <2>3 DEF SensorInv, CalibOK, Missed
  <2>5. 1 \in 1 .. CALIB_LEN /\ 3 \in 1 .. CALIB_LEN  BY Bmp280Assumption
  <2>6. Memory[1] = 1 /\ Memory[3] = 3  BY <2>5 DEF Memory
  <2> QED BY <2>1, <2>4, <2>5, <2>6
<1>9. CASE Configured  BY <1>3, <1>9 DEF Configured
<1> QED BY <1>1, <1>5, <1>6, <1>7, <1>8, <1>9

(* A measurement fails: so has each way to do that. *)
LEMMA FailsOnFault ==
  ASSUME I2cInv, SensorInv, QuietInv, Next, bmp # "run", bmp' = "run", ~out'.ok, bmp # "config"
  PROVE  trouble'
<1> USE DEF Done
<1>1. \/ Forced \/ PollTimeout \/ PollFailed \/ BurstRead
  BY DEF Next, Program, Bus, SensorStep, Faults, bmpVars, Halt,
         ReadId, IdRead, WasReset, PollNvm, NvmTimeout, NvmCopied, CalibRead, Configured,
         ForceMode, Poll, Converted
<1>2. pc = "idle" /\ trouble' = (trouble \/ hurt)
  BY <1>1 DEF Forced, PollTimeout, PollFailed, BurstRead, Note
<1> SUFFICES ASSUME ~hurt, ~trouble  PROVE FALSE
  BY <1>2 DEF SensorInv, SensorTypes
<1>3. bmp \notin {"nvm", "halt"} => rc = 0  BY <1>2 DEF QuietInv, Returned
<1> QED BY <1>1, <1>3 DEF Forced, PollTimeout, PollFailed, BurstRead

(* bmp280_bringup() and bmp280_read() (bmp280.c:19-137): the program halts, *)
(* and a measurement fails, only if a byte was refused or the bus was stuck *)
(* in this call or the transfer before; every wait that could time out, and *)
(* every value that is refused, is otherwise excluded (i2c.c:54-68).        *)
THEOREM CallsFailOnFaultsOnly == Spec => OnlyFaultsFail
<1>1. Init => I2cInv /\ SensorInv /\ QuietInv  BY InitInv, InitQuiet
<1>2. (I2cInv /\ SensorInv /\ QuietInv) /\ [Next]_vars => (I2cInv /\ SensorInv /\ QuietInv)'
  BY NextInv, NextQuiet
<1>3. (I2cInv /\ SensorInv /\ QuietInv) /\ [Next]_vars
        => [/\ bmp' = "halt" /\ bmp # "halt" => trouble'
            /\ bmp # "run" /\ bmp' = "run" /\ ~out'.ok => trouble' \/ bmp = "config"]_vars
  BY HaltsOnFault, FailsOnFault
<1> QED BY <1>1, <1>2, <1>3, PTL DEF Spec, OnlyFaultsFail
=============================================================================

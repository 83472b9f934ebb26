------------------------------- MODULE Bmp280 -------------------------------
(***************************************************************************)
(* Src/bmp280.c and bmp280_bringup() of Src/main.c over I2cMaster, with    *)
(* the sensor as the device: it is reset, copies its calibration out of    *)
(* its memory, and takes one measurement each time it is put in forced     *)
(* mode.  The main loop measures again and again.                          *)
(*                                                                         *)
(* A result register holds whether its content is of a conversion that     *)
(* ended since the last bmp280_read() began.                               *)
(***************************************************************************)
EXTENDS I2cMaster

CONSTANTS CALIB_LEN, DATA_LEN     \* 24 and 6: bytes of the two long reads

ASSUME Bmp280Assumption ==
  CALIB_LEN \in Nat /\ DATA_LEN \in Nat /\ CALIB_LEN > 2 /\ DATA_LEN > 2

VARIABLES
  dev,      \* the sensor: answers?, calibration bytes copied, mode, conv, fresh
  bmp,      \* the transfer bmp280.c waits for; "run" between measurements
  calib,    \* the calibration read at bring-up
  out,      \* the last bmp280_read(): what it returned and its data
  trouble   \* history: a fault has hit this call

bmpVars == << dev, bmp, calib, out, trouble >>
vars == << cr, sr, dr, sh, bus, dir, lat, ptr, first, sent, nacked, stuck, call,
           pc, buf, rc, hurt, faults, late, dev, bmp, calib, out, trouble >>

BMP280_REG_ID == 0
BMP280_REG_CALIB == 1                      \* CALIB_LEN registers
BMP280_REG_RESET == CALIB_LEN + 1
BMP280_REG_STATUS == CALIB_LEN + 2
BMP280_REG_CTRL_MEAS == CALIB_LEN + 3
BMP280_REG_CONFIG == CALIB_LEN + 4
BMP280_REG_PRESS_MSB == CALIB_LEN + 5      \* DATA_LEN registers

BMP280_CHIP_ID == 88
BMP280_RESET_CMD == 182
BMP280_STATUS_MEASURING == 8
BMP280_STATUS_IM_UPDATE == 1
BMP280_CTRL_MEAS_FORCED == 1

Bit(v, mask) == (v \div mask) % 2 = 1

-----------------------------------------------------------------------------
(* The sensor. *)
Memory == [k \in 1 .. CALIB_LEN |-> k]
Copied == dev.copied = CALIB_LEN
Sensors == [there : BOOLEAN, copied : 0 .. CALIB_LEN, mode : {0, 1},
            conv : {"none", "asked", "on"}, fresh : BOOLEAN, config : {0, 1}]

(* What a register reads as. *)
Register(r) ==
  CASE r = BMP280_REG_ID -> BMP280_CHIP_ID
    [] r \in BMP280_REG_CALIB .. CALIB_LEN ->
         IF r <= dev.copied THEN Memory[r] ELSE 0
    [] r = BMP280_REG_STATUS ->
         (IF dev.conv = "on" THEN BMP280_STATUS_MEASURING ELSE 0)
           + (IF Copied THEN 0 ELSE BMP280_STATUS_IM_UPDATE)
    [] r = BMP280_REG_CTRL_MEAS -> dev.mode
    [] r = BMP280_REG_CONFIG -> dev.config
    [] r \in BMP280_REG_PRESS_MSB .. BMP280_REG_PRESS_MSB + DATA_LEN - 1 ->
         IF dev.fresh THEN 1 ELSE 0
    [] OTHER -> 0

(* What writing a register does.  config is only written in sleep.         *)
Took(r, v) ==
  CASE r = BMP280_REG_RESET /\ v = BMP280_RESET_CMD ->
         [there |-> FALSE, copied |-> 0, mode |-> 0, conv |-> "none",
          fresh |-> FALSE, config |-> 0]
    [] r = BMP280_REG_CTRL_MEAS /\ v = BMP280_CTRL_MEAS_FORCED /\ dev.conv = "none" ->
         [dev EXCEPT !.mode = 1, !.conv = "asked"]
    [] r = BMP280_REG_CONFIG /\ dev.mode = 0 -> [dev EXCEPT !.config = v]
    [] OTHER -> dev

(* It comes back after a reset and copies its calibration; it takes a      *)
(* moment before it says that it is measuring.                             *)
SensorStep ==
  /\ \/ ~dev.there /\ dev' = [dev EXCEPT !.there = TRUE]
     \/ dev.there /\ ~Copied /\ dev' = [dev EXCEPT !.copied = @ + 1]
     \/ dev.conv = "asked" /\ dev' = [dev EXCEPT !.conv = "on"]
     \/ dev.conv = "on" /\ dev' = [dev EXCEPT !.conv = "none", !.mode = 0, !.fresh = TRUE]
  /\ UNCHANGED << bmp, calib, out, trouble >> /\ UNCHANGED i2cVars

-----------------------------------------------------------------------------
Init ==
  /\ I2cInit
  /\ dev \in {[there |-> TRUE, copied |-> CALIB_LEN, mode |-> IF c = "none" THEN 0 ELSE 1,
               conv |-> c, fresh |-> FALSE, config |-> f] :
                c \in {"none", "asked", "on"}, f \in {0, 1}}
  /\ bmp = "begin" /\ calib = << >>
  /\ out = [ok |-> FALSE, data |-> << >>] /\ trouble = FALSE

Done(transfer) == bmp = transfer /\ pc = "idle"
Note == trouble' = (trouble \/ hurt)
NoTransfer == UNCHANGED i2cVars
Halt == bmp' = "halt" /\ NoTransfer

(* bmp280_bringup(): any failure stops the program for good.               *)
ReadId ==
  /\ Done("begin")
  /\ bmp' = "id" /\ i2c_read_registers(BMP280_REG_ID, 1)
  /\ UNCHANGED << dev, calib, out, trouble >>

IdRead ==
  /\ Done("id")
  /\ IF rc = 0 /\ buf = << BMP280_CHIP_ID >>
     THEN bmp' = "reset" /\ i2c_write_register(BMP280_REG_RESET, BMP280_RESET_CMD)
     ELSE Halt
  /\ Note /\ UNCHANGED << dev, calib, out >>

WasReset ==
  /\ Done("reset")
  /\ IF rc = 0
     THEN bmp' = "nvm" /\ i2c_read_registers(BMP280_REG_STATUS, 1)
     ELSE Halt
  /\ Note /\ UNCHANGED << dev, calib, out >>

(* mutant: a read that fails is not taken for im_update *)
StillCopyingIfRead == IF rc = 0 THEN Bit(buf[1], BMP280_STATUS_IM_UPDATE) ELSE FALSE
(* A read that fails means that the sensor is not back yet.                *)
StillCopying == IF rc = 0 THEN Bit(buf[1], BMP280_STATUS_IM_UPDATE) ELSE TRUE

PollNvm ==
  /\ Done("nvm") /\ StillCopying
  /\ bmp' = "nvm" /\ i2c_read_registers(BMP280_REG_STATUS, 1)
  /\ Note /\ UNCHANGED << dev, calib, out >>

(* 1000 reads are more than the copy takes, but for a fault.               *)
NvmTimeout ==
  /\ Done("nvm") /\ StillCopying /\ (trouble \/ hurt)
  /\ Halt /\ Note /\ UNCHANGED << dev, calib, out >>

NvmCopied ==
  /\ Done("nvm") /\ ~StillCopying
  /\ bmp' = "calib" /\ i2c_read_registers(BMP280_REG_CALIB, CALIB_LEN)
  /\ Note /\ UNCHANGED << dev, calib, out >>

(* Two words that are never 0 tell the sensor's memory from an idle bus.   *)
CalibRead ==
  /\ Done("calib")
  /\ IF rc = 0 /\ buf[1] # 0 /\ buf[3] # 0
     THEN bmp' = "config" /\ i2c_write_register(BMP280_REG_CONFIG, 0)
     ELSE Halt
  /\ calib' = IF rc = 0 THEN buf ELSE calib
  /\ Note /\ UNCHANGED << dev, out >>

Configured ==
  /\ Done("config")
  /\ bmp' = IF rc = 0 THEN "run" ELSE "halt"
  /\ NoTransfer /\ Note /\ UNCHANGED << dev, calib, out >>

-----------------------------------------------------------------------------
(* bmp280_read(), called by the main loop: a second after the last one,    *)
(* when the bus has done what it was asked for.                            *)
ForceMode ==
  /\ Done("run") /\ (stuck \/ ~BusMoves)
  /\ bmp' = "force" /\ i2c_write_register(BMP280_REG_CTRL_MEAS, BMP280_CTRL_MEAS_FORCED)
  /\ dev' = [dev EXCEPT !.fresh = FALSE]
  /\ out' = [ok |-> FALSE, data |-> << >>] /\ trouble' = FALSE
  /\ UNCHANGED calib

Fail == bmp' = "run" /\ NoTransfer /\ UNCHANGED out

Forced ==
  /\ Done("force")
  /\ IF rc = 0 THEN /\ bmp' = "poll" /\ i2c_read_registers(BMP280_REG_STATUS, 2)
                    /\ UNCHANGED out
               ELSE Fail
  /\ Note /\ UNCHANGED << dev, calib >>

(* mutant: the measuring bit alone *)
ConvertingBit == Bit(buf[1], BMP280_STATUS_MEASURING)
(* status and ctrl_meas, side by side: measuring, or about to.             *)
Converting == Bit(buf[1], BMP280_STATUS_MEASURING) \/ buf[2] # 0

Poll ==
  /\ Done("poll") /\ rc = 0 /\ Converting
  /\ bmp' = "poll" /\ i2c_read_registers(BMP280_REG_STATUS, 2)
  /\ Note /\ UNCHANGED << dev, calib, out >>

(* 1000 polls are more than a conversion takes, but for a fault.           *)
PollTimeout ==
  /\ Done("poll") /\ rc = 0 /\ Converting /\ (trouble \/ hurt)
  /\ Fail /\ Note /\ UNCHANGED << dev, calib >>

PollFailed ==
  /\ Done("poll") /\ rc # 0
  /\ Fail /\ Note /\ UNCHANGED << dev, calib >>

Converted ==
  /\ Done("poll") /\ rc = 0 /\ ~Converting
  /\ bmp' = "burst" /\ i2c_read_registers(BMP280_REG_PRESS_MSB, DATA_LEN)
  /\ Note /\ UNCHANGED << dev, calib, out >>

BurstRead ==
  /\ Done("burst")
  /\ bmp' = "run" /\ NoTransfer
  /\ out' = IF rc = 0 THEN [ok |-> TRUE, data |-> buf] ELSE out
  /\ Note /\ UNCHANGED << dev, calib >>

Program ==
  \/ ReadId \/ IdRead \/ WasReset \/ PollNvm \/ NvmTimeout \/ NvmCopied
  \/ CalibRead \/ Configured \/ Forced \/ Poll \/ PollTimeout \/ PollFailed \/ Converted \/ BurstRead
  \/ Driver /\ UNCHANGED bmpVars

(* The bus, with the sensor at the other end. *)
Bus ==
  \/ (StartOut \/ StopOut) /\ UNCHANGED bmpVars
  \/ /\ \E ack \in BOOLEAN : AddressOut(ack, dev.there)
     /\ UNCHANGED bmpVars
  \/ /\ \E ack \in BOOLEAN :
          /\ ByteOut(ack)
          /\ dev' = IF ack /\ ~first THEN Took(ptr, sh) ELSE dev
     /\ UNCHANGED << bmp, calib, out, trouble >>
  \/ ByteIn(Register(ptr)) /\ UNCHANGED bmpVars

Faults == (Stick \/ Unstick) /\ UNCHANGED bmpVars

Next == Program \/ ForceMode \/ Bus \/ SensorStep \/ Faults

Spec == Init /\ [][Next]_vars
(* The program runs whenever its loop calls it, a byte on the wire takes   *)
(* its time and no more, the sensor finishes what it began, whatever holds *)
(* the bus lets go, and a loop of polls is not run for ever.               *)
FairSpec ==
  /\ Spec
  /\ WF_vars(Program) /\ WF_vars(Bus) /\ WF_vars(SensorStep)
  /\ WF_vars(Unstick /\ UNCHANGED bmpVars)
  /\ SF_vars(NvmTimeout) /\ SF_vars(PollTimeout)

-----------------------------------------------------------------------------
TypeOK ==
  /\ dev \in Sensors
  /\ bmp \in {"begin", "id", "reset", "nvm", "calib", "config", "run", "force",
              "poll", "burst", "halt"}
  /\ out.ok \in BOOLEAN /\ trouble \in BOOLEAN
  /\ bus \in {"free", "started", "addressed", "tx", "rx", "ended"}
  /\ Len(buf) <= call.len
  /\ sr.btf /\ bus \in {"rx", "ended"} => sr.rxne /\ sh # Empty
  /\ faults \in 0 .. MaxFaults /\ late \in 0 .. MaxLate

(* A read that succeeds has taken the bytes the device sent, each once and *)
(* in order; and the device sent no more, was told so with the last one,   *)
(* and has let go of the bus.  They are of the register asked for, but for *)
(* one case: the register number was refused, the driver was held up until *)
(* the repeated START, so that it saw SB before AF, and AF still stands    *)
(* (i2c.c:54-68, 140-215).                                                 *)
ReadIsExact ==
  /\ TypeOK
  /\ pc = "idle" /\ call.op = "read" /\ rc = 0 =>
       /\ buf = sent /\ Len(buf) = call.len /\ nacked
       /\ ptr = call.reg + call.len \/ sr.af
       /\ bus = "free"

(* A sample that is returned was measured in this call, and all its bytes  *)
(* by the same conversion, though the command that starts the conversion   *)
(* may have been refused without its write noticing; unless a read went to *)
(* another register, as above, and AF still stands (bmp280.c:102-137,      *)
(* i2c.c:117-131).                                                         *)
SampleIsFresh == bmp = "run" /\ out.ok => sr.af \/ \A k \in 1 .. DATA_LEN : out.data[k] = 1

(* The logger starts with the calibration of the sensor's memory, never    *)
(* with what is read before it was copied, unless a refusal went unnoticed *)
(* and AF still stands; and the filter that an earlier run left on is      *)
(* switched off, unless a byte was refused: the reset, while the sensor    *)
(* was measuring, or the filter's own (bmp280.c:19-62).                    *)
CalibratedBeforeUse ==
  [][bmp = "config" /\ bmp' = "run" =>
       (calib = Memory \/ sr.af) /\ (dev.config = 0 \/ faults > 0)]_vars

(* Bring-up halts and a measurement fails only if a byte was refused or    *)
(* the bus was stuck, now or in the transfer before (i2c.c:54-68).         *)
OnlyFaultsFail ==
  [][/\ bmp' = "halt" /\ bmp # "halt" => trouble'
     /\ bmp # "run" /\ bmp' = "run" /\ ~out'.ok => trouble' \/ bmp = "config"]_vars

(* Whatever the bus does, bring-up and every measurement end.              *)
EveryCallEnds == []<>(bmp \in {"run", "halt"})
=============================================================================

------------------------------- MODULE SdCard -------------------------------
(***************************************************************************)
(* Src/sdcard.c, the glue of Src/diskio.c above it and sdcard_bringup() of *)
(* Src/main.c, against a card in SPI mode: the handshake that identifies   *)
(* the card, block reads and writes with their timeouts, a card that is    *)
(* slow, swallows a frame or loses an answer, is exchanged, or is found in *)
(* the state an MCU reset left it in.                                      *)
(*                                                                         *)
(* A command is one exchange: the card obeys and its R1 comes back.  The   *)
(* time an access takes is abstracted to whether its deadline passes first.*)
(***************************************************************************)
EXTENDS Word, Sequences, FiniteSets

CONSTANTS
  SD_BLOCK_SIZE,      \* 512
  NBLOCK,             \* blocks on a card
  Content,            \* what a block may hold
  CMD0_TRIES,         \* 10
  MaxCount,           \* blocks of one disk_read() or disk_write()
  MaxFaults,          \* bound: lost frames, lost answers, deadlines missed
  MaxResets,          \* bound: resets of the MCU, the card keeps its power
  MaxSwaps            \* bound: exchanges of the card

ASSUME SdCardAssumption ==
  /\ SD_BLOCK_SIZE \in Nat \ {0} /\ NBLOCK \in Nat \ {0}
  /\ NBLOCK * SD_BLOCK_SIZE <= WordMod
  /\ CMD0_TRIES \in Nat \ {0} /\ MaxCount \in Nat \ {0}
  /\ MaxFaults \in Nat /\ MaxResets \in Nat /\ MaxSwaps \in Nat

VARIABLES
  card,               \* the card: see Cards
  card_type, block_addressed,
  fast,               \* SCK is at its speed for the data phase
  pc, tries, v2,      \* sdcard_init(): where it is, CMD0s sent, version seen
  up,                 \* sdcard_bringup() has returned
  req, i, got,        \* the disk_read() or disk_write(): its loop and its data
  res,                \* how the last one ended
  known,              \* history: the card is the one that obeyed CMD0
  hurt,               \* history: a fault has hit this call
  faults, resets, swaps

driverVars == << card_type, block_addressed, fast, tries, v2 >>
requestVars == << req, i, got, res >>
vars == << card, card_type, block_addressed, fast, pc, tries, v2, up, req, i, got,
           res, known, hurt, faults, resets, swaps >>

Block == 0 .. NBLOCK - 1
Idle == [op |-> "idle", sector |-> 0, count |-> 0, data |-> << >>]
Nothing == [at |-> NBLOCK, data |-> "none"]
Garbage == "garbage"

R1_READY == 0
R1_IDLE == 1
R1_ILLEGAL_CMD == 4
Refused == 32        \* an address that is not the card's
NoAnswer == 255
Illegal(r) == (r \div R1_ILLEGAL_CMD) % 2 = 1

-----------------------------------------------------------------------------
(* The card.  A card that was just powered up speaks its native protocol   *)
(* and answers nothing but CMD0; one that is programming a block holds its *)
(* output low, which reads as an R1 of 0, and obeys nothing.               *)
Kind == {"v1", "v2", "hc"}
Byte == {"v1", "v2"}                           \* the kinds addressed by byte
PoweredUp(k, content) ==
  [kind |-> k, state |-> "native", len512 |-> k = "hc", prog |-> Nothing,
   blocks |-> content]
Cards == [kind : Kind, state : {"native", "idle", "ready"}, len512 : BOOLEAN,
          prog : [at : Block, data : Content] \cup {Nothing},
          blocks : [Block -> Content]]

Busy == card.prog # Nothing
BlockAt(addr) == IF card.kind \in Byte THEN addr \div SD_BLOCK_SIZE ELSE addr
Valid(addr) == /\ card.kind \in Byte => addr % SD_BLOCK_SIZE = 0
               /\ BlockAt(addr) \in Block

(* What the card does with a command, and its R1 when it answers.          *)
Obeyed(cmd, arg) ==
  IF Busy THEN card
  ELSE CASE cmd = "CMD0" ->
              [card EXCEPT !.state = "idle", !.len512 = card.kind = "hc"]
         [] cmd = "ACMD41" /\ card.state = "idle" /\ (card.kind = "hc" => arg = 1) ->
              [card EXCEPT !.state = "ready"]
         [] cmd = "CMD16" /\ card.state = "ready" -> [card EXCEPT !.len512 = TRUE]
         [] OTHER -> card

R1(cmd, arg) ==
  LET after == Obeyed(cmd, arg).state
      idle == IF after = "idle" THEN R1_IDLE ELSE R1_READY
  IN  IF Busy THEN 0
      ELSE IF after = "native" THEN NoAnswer
      ELSE CASE \/ cmd = "CMD8" /\ (card.kind = "v1" \/ card.state = "ready")
                \/ cmd \in {"CMD16", "CMD17", "CMD24"} /\ card.state = "idle" ->
                  idle + R1_ILLEGAL_CMD
             [] cmd \in {"CMD17", "CMD24"} /\ card.state = "ready" /\ ~Valid(arg) ->
                  Refused
             [] OTHER -> idle

(* sd_command(), sd_acommand(): the frame or the answer may get lost.  A   *)
(* lost CMD55 has the effect of a lost ACMD41.                             *)
Exchange(cmd, arg) ==
  {[card |-> Obeyed(cmd, arg), r |-> R1(cmd, arg), fault |-> FALSE]}
    \cup IF faults = MaxFaults THEN {}
         ELSE [card : {card, Obeyed(cmd, arg)}, r : {NoAnswer}, fault : {TRUE}]

Suffer(fault) ==
  /\ fault => faults < MaxFaults
  /\ faults' = IF fault THEN faults + 1 ELSE faults
  /\ hurt' = (hurt \/ fault)

Command(a) == card' = a.card /\ Suffer(a.fault)

-----------------------------------------------------------------------------
Init ==
  /\ \E k \in Kind, c \in Content : card = PoweredUp(k, [b \in Block |-> c])
  /\ card_type = "UNKNOWN" /\ block_addressed = FALSE /\ fast = FALSE
  /\ pc = "init" /\ tries = 0 /\ v2 = FALSE /\ up = FALSE
  /\ req = Idle /\ i = 0 /\ got = << >>
  /\ res = [st |-> "NONE", data |-> << >>]
  /\ known = FALSE /\ hurt = FALSE
  /\ faults = 0 /\ resets = 0 /\ swaps = 0

Same == UNCHANGED << known, up, resets, swaps >>
-----------------------------------------------------------------------------
(* sdcard_init(), called by sdcard_bringup() until it succeeds.            *)
Start ==
  /\ pc = "init"
  /\ pc' = "cmd0" /\ tries' = 0 /\ v2' = FALSE
  /\ card_type' = "UNKNOWN" /\ block_addressed' = FALSE /\ fast' = FALSE
  /\ known' = FALSE /\ hurt' = FALSE
  /\ UNCHANGED << card, up, faults, resets, swaps >> /\ UNCHANGED requestVars

Cmd0 ==
  /\ pc = "cmd0"
  /\ \E a \in Exchange("CMD0", 0) :
       /\ Command(a)
       /\ tries' = tries + 1
       /\ pc' = IF a.r = R1_IDLE THEN "cmd8"
                ELSE IF tries' < CMD0_TRIES THEN "cmd0" ELSE "init"
       /\ known' = (a.r = R1_IDLE)
  /\ UNCHANGED << card_type, block_addressed, fast, v2, up, resets, swaps >>
  /\ UNCHANGED requestVars

(* No answer reads as 0xFF, which has the bit of an illegal command: such  *)
(* a card is taken for a v1.  The tail of the answer may be damaged.       *)
Cmd8 ==
  /\ pc = "cmd8"
  /\ \E a \in Exchange("CMD8", 0), damaged \in BOOLEAN :
       /\ damaged => a.r = R1_IDLE
       /\ card' = a.card /\ Suffer(a.fault \/ damaged)
       /\ v2' = (a.r = R1_IDLE /\ ~damaged)
       /\ pc' = IF v2' \/ (a.r # R1_IDLE /\ Illegal(a.r)) THEN "acmd41" ELSE "init"
  /\ UNCHANGED << card_type, block_addressed, fast, tries >>
  /\ UNCHANGED requestVars /\ Same

(* mutant: the host never announces that it knows high capacity *)
HcsForgotten == FALSE
(* HCS is announced to a v2 card only. *)
Hcs == v2

Acmd41 ==
  /\ pc = "acmd41"
  /\ \E a \in Exchange("ACMD41", IF Hcs THEN 1 ELSE 0) :
       /\ Command(a)
       /\ pc' = IF a.r # R1_READY THEN "acmd41" ELSE IF v2 THEN "cmd58" ELSE "cmd16"
       /\ card_type' = IF a.r = R1_READY /\ ~v2 THEN "V1" ELSE card_type
  /\ UNCHANGED << block_addressed, fast, tries, v2 >>
  /\ UNCHANGED requestVars /\ Same

(* The second has passed: the card was slow, was told nothing of HCS and   *)
(* never gets ready, or is not the one that got the CMD0.                  *)
Acmd41Expires ==
  /\ pc = "acmd41"
  /\ \E slow \in BOOLEAN :
       /\ slow \/ R1("ACMD41", IF Hcs THEN 1 ELSE 0) # R1_READY
       /\ Suffer(slow)
  /\ pc' = "init"
  /\ UNCHANGED card /\ UNCHANGED driverVars /\ UNCHANGED requestVars /\ Same

(* mutant: CCS is not looked at *)
Cmd58NoCcs ==
  /\ pc = "cmd58"
  /\ \E a \in Exchange("CMD58", 0) :
       /\ Command(a)
       /\ pc' = IF a.r = R1_READY THEN "cmd16" ELSE "init"
       /\ card_type' = IF a.r = R1_READY THEN "V2" ELSE card_type
  /\ UNCHANGED << block_addressed, fast, tries, v2 >>
  /\ UNCHANGED requestVars /\ Same

(* OCR bit 30, CCS, tells the cards addressed by block from the others.    *)
Cmd58 ==
  /\ pc = "cmd58"
  /\ \E a \in Exchange("CMD58", 0) :
       LET ccs == a.r = R1_READY /\ card.kind = "hc"
       IN  /\ Command(a)
           /\ pc' = IF a.r = R1_READY THEN "cmd16" ELSE "init"
           /\ block_addressed' = ccs
           /\ card_type' = IF ccs THEN "V2_HC"
                           ELSE IF a.r = R1_READY THEN "V2" ELSE card_type
  /\ UNCHANGED << fast, tries, v2 >>
  /\ UNCHANGED requestVars /\ Same

(* CMD16 for the cards addressed by byte, then SCK at full speed.  A       *)
(* failure leaves card_type set, so that sdcard_ready() holds.             *)
Cmd16 ==
  /\ pc = "cmd16"
  /\ \E a \in IF block_addressed THEN {[card |-> card, r |-> R1_READY, fault |-> FALSE]}
              ELSE Exchange("CMD16", 0) :
       /\ Command(a)
       /\ IF a.r = R1_READY
          THEN pc' = "block0" /\ fast' = TRUE
          ELSE pc' = "init" /\ UNCHANGED fast
  /\ UNCHANGED << card_type, block_addressed, tries, v2 >>
  /\ UNCHANGED requestVars /\ Same
-----------------------------------------------------------------------------
(* disk_read() and disk_write().  sdcard_bringup() reads block 0 without   *)
(* the glue; if that fails the program stops there for good.               *)
sdcard_ready == card_type # "UNKNOWN"

ReadBlock0 ==
  /\ pc = "block0"
  /\ req' = [op |-> "read", sector |-> 0, count |-> 1, data |-> << >>]
  /\ pc' = "next" /\ hurt' = FALSE
  /\ UNCHANGED << card, i, got, res, faults >> /\ UNCHANGED driverVars /\ Same

Request ==
  /\ pc = "run"
  /\ \E op \in {"read", "write"}, s \in Block, n \in 1 .. MaxCount :
       \E data \in IF op = "write" THEN [1 .. n -> Content] ELSE {<< >>} :
         /\ s + n <= NBLOCK
         /\ req' = [op |-> op, sector |-> s, count |-> n, data |-> data]
  /\ pc' = "next" /\ hurt' = FALSE
  /\ res' = [st |-> "NONE", data |-> << >>]
  /\ UNCHANGED << card, i, got, faults >> /\ UNCHANGED driverVars /\ Same

Finish(st, data) ==
  /\ pc' = IF up \/ st = "OK" THEN "run" ELSE "halt"
  /\ up' = (up \/ st = "OK")
  /\ req' = Idle /\ i' = 0 /\ got' = << >>
  /\ res' = [st |-> st, data |-> data]

Driver == UNCHANGED driverVars /\ UNCHANGED << known, resets, swaps >>
StillServing == UNCHANGED << up, req, res >>

(* The head of the loop over the blocks, and the first test of each block. *)
NextBlock ==
  /\ pc = "next"
  /\ IF ~sdcard_ready THEN Finish("ERROR", << >>)
     ELSE IF i = req.count THEN Finish("OK", got)
     ELSE pc' = "wait" /\ UNCHANGED << i, got >> /\ StillServing
  /\ UNCHANGED << card, faults, hurt >> /\ Driver

(* mutant: byte offsets for every card *)
AddrInBytes(lba) == (lba * SD_BLOCK_SIZE) % WordMod
Addr(lba) == IF block_addressed THEN lba ELSE (lba * SD_BLOCK_SIZE) % WordMod

(* mutant: the command is sent whether the card is busy or not *)
NoWaitNotBusy ==
  /\ pc = "wait"
  /\ pc' = "command" /\ UNCHANGED << faults, hurt, i, got >> /\ StillServing
  /\ UNCHANGED card /\ Driver

(* Half a second for a card that is still programming a block of before.   *)
WaitNotBusy ==
  /\ pc = "wait"
  /\ \/ ~Busy /\ pc' = "command" /\ UNCHANGED << faults, hurt, i, got >> /\ StillServing
     \/ Busy /\ Suffer(TRUE) /\ Finish("ERROR", << >>)
  /\ UNCHANGED card /\ Driver

SendCommand ==
  /\ pc = "command"
  /\ \E a \in Exchange(IF req.op = "write" THEN "CMD24" ELSE "CMD17",
                       Addr(req.sector + i)) :
       /\ Command(a)
       /\ IF a.r = R1_READY
          THEN pc' = "data" /\ UNCHANGED << i, got >> /\ StillServing
          ELSE Finish("ERROR", << >>)
  /\ Driver

(* The card has obeyed CMD17 or CMD24 and waits for the data phase.        *)
InDataPhase == card.state = "ready" /\ ~Busy
Framed == card.len512
Target == BlockAt(Addr(req.sector + i))

(* The data token and 512 bytes, an error token, or silence until the      *)
(* deadline.                                                               *)
ReadData ==
  /\ pc = "data" /\ req.op = "read"
  /\ \/ /\ InDataPhase
        /\ pc' = "next" /\ i' = i + 1
        /\ got' = Append(got, IF Framed THEN card.blocks[Target] ELSE Garbage)
        /\ StillServing /\ UNCHANGED << faults, hurt >>
     \/ Suffer(InDataPhase) /\ Finish("ERROR", << >>)
  /\ UNCHANGED card /\ Driver

Accepting == [card EXCEPT !.prog = [at |-> Target, data |-> req.data[i + 1]]]

(* The data response: accepted, refused, or lost on its way.               *)
WriteData ==
  /\ pc = "data" /\ req.op = "write"
  /\ \/ /\ InDataPhase /\ Framed
        /\ card' = Accepting /\ UNCHANGED << faults, hurt, i, got >>
        /\ pc' = "program" /\ StillServing
     \/ /\ Suffer(InDataPhase /\ Framed) /\ Finish("ERROR", << >>)
        /\ card' \in IF InDataPhase /\ Framed THEN {card, Accepting} ELSE {card}
  /\ Driver

(* mutant: does not wait for the end of programming *)
NoWaitProgrammed ==
  /\ pc = "program"
  /\ pc' = "next" /\ i' = i + 1 /\ UNCHANGED << faults, hurt, got >> /\ StillServing
  /\ UNCHANGED card /\ Driver

(* Programming ends, or takes longer than half a second: the write is      *)
(* reported as failed and the card goes on with it.                        *)
WaitProgrammed ==
  /\ pc = "program"
  /\ \/ ~Busy /\ pc' = "next" /\ i' = i + 1 /\ UNCHANGED << faults, hurt, got >> /\ StillServing
     \/ Busy /\ Suffer(TRUE) /\ Finish("ERROR", << >>)
  /\ UNCHANGED card /\ Driver

-----------------------------------------------------------------------------
(* The card ends programming, is exchanged, and the MCU is reset.          *)
Programmed ==
  /\ Busy
  /\ card' = [card EXCEPT !.blocks[card.prog.at] = card.prog.data, !.prog = Nothing]
  /\ UNCHANGED << pc, faults, hurt >> /\ UNCHANGED driverVars
  /\ UNCHANGED requestVars /\ Same

Swap ==
  /\ swaps < MaxSwaps /\ swaps' = swaps + 1
  /\ \E k \in Kind, c \in Content : card' = PoweredUp(k, [b \in Block |-> c])
  /\ known' = FALSE
  /\ UNCHANGED << pc, up, faults, hurt, resets >> /\ UNCHANGED driverVars
  /\ UNCHANGED requestVars

Reset ==
  /\ resets < MaxResets /\ resets' = resets + 1
  /\ card_type' = "UNKNOWN" /\ block_addressed' = FALSE /\ fast' = FALSE
  /\ pc' = "init" /\ tries' = 0 /\ v2' = FALSE /\ up' = FALSE
  /\ req' = Idle /\ i' = 0 /\ got' = << >>
  /\ res' = [st |-> "NONE", data |-> << >>]
  /\ known' = FALSE /\ hurt' = FALSE
  /\ UNCHANGED << card, faults, swaps >>

Handshake == Start \/ Cmd0 \/ Cmd8 \/ Acmd41 \/ Acmd41Expires \/ Cmd58 \/ Cmd16
               \/ ReadBlock0
Serve == NextBlock \/ WaitNotBusy \/ SendCommand \/ ReadData \/ WriteData
           \/ WaitProgrammed
Next == Handshake \/ Serve \/ Request \/ Programmed \/ Swap \/ Reset

Spec == Init /\ [][Next]_vars
(* The firmware runs and every poll has a deadline; programming ends.      *)
FairSpec == Spec /\ WF_vars(Handshake \/ Serve) /\ WF_vars(Programmed)
-----------------------------------------------------------------------------
TypeOK ==
  /\ card \in Cards
  /\ card_type \in {"UNKNOWN", "V1", "V2", "V2_HC"}
  /\ block_addressed \in BOOLEAN /\ fast \in BOOLEAN
  /\ v2 \in BOOLEAN /\ up \in BOOLEAN
  /\ pc \in {"init", "cmd0", "cmd8", "acmd41", "cmd58", "cmd16", "block0",
             "next", "wait", "command", "data", "program", "run", "halt"}
  /\ tries \in 0 .. CMD0_TRIES
  /\ req = Idle \/ req.sector + req.count <= NBLOCK
  /\ i \in 0 .. req.count /\ Len(got) <= i
  /\ res.st \in {"NONE", "OK", "ERROR"}
  /\ known \in BOOLEAN /\ hurt \in BOOLEAN
  /\ faults \in 0 .. MaxFaults /\ resets \in 0 .. MaxResets
  /\ swaps \in 0 .. MaxSwaps

(* Whatever was lost, late or left over from before a reset during the     *)
(* handshake: once block 0 may be read, the card that obeyed it has left   *)
(* idle, is addressed in its own unit, has blocks of 512 bytes and is      *)
(* clocked at full speed (sdcard.c:93-158).                                *)
ReadyForTheFileSystem ==
  /\ TypeOK
  /\ known /\ pc \in {"next", "wait", "command", "data", "program", "run"} =>
       /\ card.state = "ready" /\ card.len512
       /\ block_addressed <=> card.kind = "hc"
       /\ fast /\ sdcard_ready

(* "sdcard_write_block() already waits out the card's busy line before     *)
(* returning, so nothing is left in flight": true after an access that was *)
(* reported as done (diskio.c:50-51, sdcard.c:221-229).                    *)
NothingInFlight == res.st = "OK" => ~Busy

(* An access to the identified card fails only if a frame, an answer or a  *)
(* deadline was missed during it: a write that timed out before does not   *)
(* make the next access fail (sdcard.c:166, 50-51).  Bring-up halts for    *)
(* nothing else either (main.c:93-97).                                     *)
OnlyFaultsFail ==
  [][res'.st = "ERROR" /\ res.st # "ERROR" => hurt' \/ ~known]_vars

(* The bring-up loop ends, whatever state the card was found in, and so    *)
(* does every access (main.c:84, sdcard.c:52-58).                          *)
EveryCallEnds == []<>(pc \in {"run", "halt"})

-----------------------------------------------------------------------------
(* Block device: what the card holds, or has accepted and is programming.  *)
Stored == IF Busy THEN [card.blocks EXCEPT ![card.prog.at] = card.prog.data]
                  ELSE card.blocks
Serving == pc \in {"block0", "next", "wait", "command", "data", "program", "run", "halt"}

Device == INSTANCE BlockDevice WITH
  blocks <- Stored, attached <- known /\ Serving, req <- req,
  done <- i + (IF pc = "program" THEN 1 ELSE 0), got <- got, res <- res

(* With a card that is late, exchanged or reset around, what disk_read()   *)
(* and disk_write() do is what a disk does: a read returns what was        *)
(* written, a failed write has changed nothing beyond its own blocks, and  *)
(* no access reaches a card that was not identified (diskio.c:21-43).      *)
ImplementsBlockDevice == Device!Spec
=============================================================================

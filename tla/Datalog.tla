------------------------------ MODULE Datalog ------------------------------
(***************************************************************************)
(* Src/datalog.c on top of FatFs, as the bring-up and the main loop of     *)
(* Src/main.c call it: datalog_open() until it succeeds, then              *)
(* datalog_write_row() for ever, with power lost at any moment.            *)
(*                                                                         *)
(* dl is the FatFs call that datalog.c waits for; "ready" between rows     *)
(* (open_ok is set), "closed" between attempts to open.  A row stands for  *)
(* its number in the file.                                                 *)
(***************************************************************************)
EXTENDS FatFs

CONSTANTS
  DATALOG_SYNC_ROWS,
  HdrLen, RowLen,      \* slots of the header and of a row
  MaxName,             \* 99999 in the code
  MaxResets            \* bound: losses of power

ASSUME DatalogAssumption ==
  /\ DATALOG_SYNC_ROWS \in Nat \ {0}
  /\ HdrLen \in Nat \ {0} /\ RowLen \in Nat \ {0}
  /\ MaxName \in Nat \ {0} /\ Names = 1 .. MaxName
  /\ \A k \in OldFiles : k <= MaxName
  /\ MaxResets \in Nat

VARIABLES
  dl, fname, rows_since_sync,
  rows,        \* history: rows that f_write() took in full
  acked,       \* history: those datalog_write_row() returned 0 for
  failedSyncs, \* history: how often f_sync() failed since it last succeeded
  resets       \* history: losses of power

logVars == << dl, fname, rows_since_sync, rows, acked, failedSyncs, resets >>
vars == << disk, win, vol, fp, dp, cc, call, pc, res, faults, dl, fname,
           rows_since_sync, rows, acked, failedSyncs, resets >>

Init ==
  /\ FatFsInit
  /\ dl = "closed" /\ fname = 0 /\ rows_since_sync = 0
  /\ rows = 0 /\ acked = {} /\ failedSyncs = 0 /\ resets = 0

Piece(of, row) == [of |-> of, row |-> row]            \* row 0 is the header

-----------------------------------------------------------------------------
(* datalog_open().  The call it makes next has to wait for the last one.   *)
Answered(call_) == dl = call_ /\ pc = "idle"
SameRows == UNCHANGED << rows_since_sync, rows, acked, failedSyncs, resets >>

Open ==
  /\ Answered("closed")
  /\ dl' = "mount" /\ f_mount
  /\ UNCHANGED fname /\ SameRows

(* Returning an error: main.c prints it, waits and tries again. *)
OpenFailed == dl' = "closed" /\ UNCHANGED fname /\ UNCHANGED fatVars

Probe(n) == fname' = n /\ dl' = "stat" /\ f_stat(n)

Mounted ==
  /\ Answered("mount")
  /\ IF res = "OK" THEN Probe(1) ELSE OpenFailed
  /\ SameRows

(* mutant: the series begins again at the first name *)
NameTakenRestart ==
  /\ Answered("stat") /\ res = "OK"
  /\ Probe(1)
  /\ SameRows

NameTaken ==
  /\ Answered("stat") /\ res = "OK"
  /\ IF fname < MaxName THEN Probe(fname + 1)
     ELSE dl' = "closed" /\ fname' = 0 /\ UNCHANGED fatVars
  /\ SameRows

NameFree ==
  /\ Answered("stat") /\ res # "OK"
  /\ IF res = "NO_FILE"
     THEN dl' = "open" /\ f_open(fname) /\ UNCHANGED fname
     ELSE OpenFailed
  /\ SameRows

(* bw of the header's f_write() is not looked at. *)
Opened ==
  /\ Answered("open")
  /\ IF res = "OK"
     THEN /\ dl' = "header" /\ f_write(Piece(fname, 0), HdrLen)
          /\ UNCHANGED fname
     ELSE OpenFailed
  /\ SameRows

HeaderWritten ==
  /\ Answered("header")
  /\ IF res = "OK" THEN dl' = "hsync" /\ f_sync
                   ELSE dl' = "hclose" /\ f_close
  /\ UNCHANGED fname /\ SameRows

HeaderSynced ==
  /\ Answered("hsync")
  /\ IF res = "OK" THEN dl' = "ready" /\ UNCHANGED fatVars
                   ELSE dl' = "hclose" /\ f_close
  /\ UNCHANGED fname /\ SameRows

HeaderClosed ==
  /\ Answered("hclose") /\ OpenFailed
  /\ SameRows

-----------------------------------------------------------------------------
(* datalog_write_row() *)
WriteRow ==
  /\ Answered("ready")
  /\ dl' = "row" /\ f_write(Piece(fname, rows + 1), RowLen)
  /\ UNCHANGED fname /\ SameRows

(* An error, or a short write: the card is full. *)
RowRefused ==
  /\ Answered("row") /\ (res # "OK" \/ call.todo > 0)
  /\ dl' = "ready"
  /\ UNCHANGED fatVars /\ UNCHANGED fname /\ SameRows

(* mutant: one row too many between two f_sync() *)
RowWrittenOneMore ==
  /\ Answered("row") /\ res = "OK" /\ call.todo = 0
  /\ rows' = rows + 1
  /\ IF rows_since_sync >= DATALOG_SYNC_ROWS
     THEN /\ rows_since_sync' = 0
          /\ dl' = "rsync" /\ f_sync /\ UNCHANGED acked
     ELSE /\ rows_since_sync' = rows_since_sync + 1
          /\ dl' = "ready" /\ acked' = acked \cup {rows'}
          /\ UNCHANGED fatVars
  /\ UNCHANGED << fname, failedSyncs, resets >>

RowWritten ==
  /\ Answered("row") /\ res = "OK" /\ call.todo = 0
  /\ rows' = rows + 1
  /\ IF rows_since_sync + 1 >= DATALOG_SYNC_ROWS
     THEN /\ rows_since_sync' = 0
          /\ dl' = "rsync" /\ f_sync /\ UNCHANGED acked
     ELSE /\ rows_since_sync' = rows_since_sync + 1
          /\ dl' = "ready" /\ acked' = acked \cup {rows'}
          /\ UNCHANGED fatVars
  /\ UNCHANGED << fname, failedSyncs, resets >>

RowSynced ==
  /\ Answered("rsync")
  /\ dl' = "ready"
  /\ IF res = "OK" THEN acked' = acked \cup {rows} /\ failedSyncs' = 0
                   ELSE UNCHANGED acked /\ failedSyncs' = failedSyncs + 1
  /\ UNCHANGED fatVars
  /\ UNCHANGED << fname, rows_since_sync, rows, resets >>

-----------------------------------------------------------------------------
(* FatFs goes on with the call it was given. *)
Working == FatFsStep /\ UNCHANGED logVars

(* Power is lost and comes back: the card is what remains. *)
Reset ==
  /\ resets < MaxResets /\ resets' = resets + 1
  /\ LosePower
  /\ dl' = "closed" /\ fname' = 0 /\ rows_since_sync' = 0
  /\ rows' = 0 /\ acked' = {} /\ failedSyncs' = 0

Program ==
  \/ Open \/ Mounted \/ NameTaken \/ NameFree \/ Opened
  \/ HeaderWritten \/ HeaderSynced \/ HeaderClosed
  \/ WriteRow \/ RowRefused \/ RowWritten \/ RowSynced
  \/ Working

Next == Program \/ Reset

Spec == Init /\ [][Next]_vars

(* The processor runs as long as it has power, and nothing waits for ever. *)
LiveSpec == Spec /\ WF_vars(Program)

-----------------------------------------------------------------------------
(* What a reader finds on a card d: its FAT, the clusters of the chain that *)
(* begins at c, by position, the slots of a chain and the directory.       *)
Links(d) == [c \in Cluster |-> d[FatSector(c)][c % SS].next]

Follow(next, c) == IF c \in Cluster THEN next[c] ELSE EOC
Chain(next, c) ==
  LET at[k \in 0 .. NCLST] == IF k = 0 THEN c ELSE Follow(next, at[k - 1])
  IN  at

CardSlot == 0 .. NCLST * CSIZE * SS - 1

SlotOf(d, chain, i) ==
  LET c == chain[i \div (SS * CSIZE)]
  IN  IF c \in Cluster
      THEN d[DataSector(c, (i \div SS) % CSIZE)][i % SS] ELSE Junk

IsEntry(e) == "name" \in DOMAIN e /\ e.name # 0

Entries(d) ==
  LET root == Chain(Links(d), dirbase)
  IN  {e \in {SlotOf(d, root, i) : i \in CardSlot} : IsEntry(e)}

SlotOnCard(d, e, i) == SlotOf(d, Chain(Links(d), e.sclust), i)

(* What a file is meant to hold, slot by slot *)
Expected(n, i) ==
  Piece(n, IF i < HdrLen THEN 0 ELSE 1 + (i - HdrLen) \div RowLen)

RowEnd(r) == HdrLen + r * RowLen

Durable(r) == \E e \in Entries(disk) : e.name = fname /\ e.size >= RowEnd(r)

Logging == dl \in {"header", "hsync", "hclose", "ready", "row", "rsync"}

-----------------------------------------------------------------------------
(* Type invariant: the ranges of the window, the file object and the       *)
(* history.                                                                *)
TypeOK ==
  /\ win.sect \in Sector \cup {Nowhere} /\ win.wflag \in BOOLEAN
  /\ DOMAIN disk = Sector
  /\ fp.sclust \in Cluster \cup {0} /\ fp.clust \in Cluster \cup {0}
  /\ fp.objsize \in 0 .. NCLST * CSIZE * SS /\ fp.fptr = fp.objsize
  /\ fp.dirty => fp.sect \in Sector
  /\ vol.free_clst \in 0 .. NCLST \cup {Unknown}
  /\ rows_since_sync \in 0 .. DATALOG_SYNC_ROWS - 1
  /\ acked \subseteq 1 .. rows
  /\ RowEnd(rows) <= fp.objsize \/ rows = 0

(* Every file on the card reads back as what was written to it, at every   *)
(* moment, so also if power is lost now: f_sync() writes the data and the  *)
(* FAT before the directory entry that gives them to the file.             *)
CardFilesIntact ==
  /\ TypeOK
  /\ \A e \in Entries(disk) : \A i \in 0 .. e.size - 1 :
       SlotOnCard(disk, e, i) = Expected(e.name, i)

(* On the card no cluster belongs to two chains, whatever allocation was   *)
(* under way when it was last written.                                     *)
ChainsDisjoint ==
  LET next == Links(disk)
      heads == {e \in Entries(disk) : e.sclust # 0}
  IN  /\ \A c, d \in Cluster :
           next[c] \in Cluster /\ next[c] = next[d] => c = d
      /\ \A e \in heads : \A c \in Cluster : next[c] # e.sclust
      /\ \A e, f \in heads : e.sclust = f.sclust => e = f

(* create_chain() and dir_next() never meet a chain that is broken, even   *)
(* on a card that lost power in the middle of an allocation.               *)
NoInternalError == res # "INT_ERR" /\ fp.err # "INT_ERR"

(* A short write means what datalog_write_row() takes it for: the volume   *)
(* has no free cluster.                                                    *)
ShortWriteMeansFull ==
  (Answered("row") /\ res = "OK" /\ call.todo > 0) =>
     \A c \in Cluster :
        (IF win.sect = FatSector(c) THEN Fat(c) ELSE Links(disk)[c]) # 0

(* Losing the card or power now loses fewer rows that were acknowledged    *)
(* than an interval has, and as many again for each attempt to synchronise *)
(* that failed since one succeeded.                                        *)
Unsafe == {r \in acked : ~Durable(r)}
LossIsBounded ==
  Cardinality(Unsafe) <= (DATALOG_SYNC_ROWS - 1) * (failedSyncs + 1)

(* datalog.h:14 says of datalog_open() that it opens a file "with a header *)
(* row" when it returns 0.                                                 *)
OpenFileHasHeader ==
  dl = "ready" => \E e \in Entries(disk) : e.name = fname /\ e.size >= HdrLen

(* When f_sync() says a row is safe, all rows of the session are on the    *)
(* card.                                                                   *)
SyncMakesDurable ==
  [][RowSynced /\ res = "OK" => \A r \in 1 .. rows : Durable(r)]_vars

(* The bring-up's loop ends, whatever failed before and however power was  *)
(* lost: the file is open at last, or the card and its directory are full  *)
(* and f_open() has said so.                                               *)
OpensInTheEnd == dl = "closed" ~> (dl = "ready" \/ res = "DENIED")

-----------------------------------------------------------------------------
(* Logging to the card implements DurableLog: a directory entry reaching   *)
(* the card is a commit, every other access to it changes nothing a reader *)
(* would see.                                                              *)
CardFiles ==
  [n \in {e.name : e \in Entries(disk)} |->
     LET e == CHOOSE e \in Entries(disk) : e.name = n
     IN  [i \in 1 .. e.size |-> SlotOnCard(disk, e, i - 1)]]

WrittenLog ==
  IF Logging
  THEN [name |-> fname, text |-> [i \in 1 .. fp.objsize |-> Expected(fname, i - 1)]]
  ELSE [name |-> 0, text |-> << >>]

Log == INSTANCE DurableLog WITH
  Item <- [of : 0 .. MaxName, row : Nat],
  files <- CardFiles, log <- WrittenLog

DurableLogSpec == Log!Spec
=============================================================================

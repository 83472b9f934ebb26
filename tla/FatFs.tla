------------------------------- MODULE FatFs -------------------------------
(***************************************************************************)
(* What Src/datalog.c uses of FatFs (Lib/fatfs/ff.c): f_mount(), f_stat()  *)
(* and f_open(FA_CREATE_NEW) of a name in the root directory, f_write(),   *)
(* f_sync() and f_close() of the one file it appends to.                   *)
(*                                                                         *)
(* An action makes at most one access to the card, because that is where   *)
(* an operation can fail and where losing power makes a difference.  pc    *)
(* is the next point to be reached, "idle" when no operation runs.  The    *)
(* volume is FAT32 with one data, directory or FAT sector as a function    *)
(* from its slots; the second copy of the FAT, which is written after the  *)
(* first, with its result ignored, and never read, is left out, and so are *)
(* f_write()'s transfers of whole sectors, which no row is long enough for.*)
(***************************************************************************)
EXTENDS Integers, Sequences, FiniteSets

CONSTANTS
  SS,          \* slots of a sector: pieces of data, directory entries or
               \* entries of the FAT
  CSIZE,       \* sectors of a cluster
  NCLST,       \* clusters of the volume
  Names,       \* names are numbers, as in LOGnnnnn.CSV
  OldFiles,    \* empty files the card may hold at the start, as a number
  MaxFaults    \* bound: accesses to the card that fail

n_fatent == NCLST + 2
Cluster == 2 .. n_fatent - 1
dirbase == 2                            \* first cluster of the root directory
EOC == n_fatent + 1                     \* 0xFFFFFFFF as an entry of the FAT
Unknown == n_fatent                     \* 0xFFFFFFFF as a hint of FSInfo

ASSUME FatFsAssumption ==
  /\ SS \in Nat \ {0} /\ CSIZE \in Nat \ {0} /\ NCLST \in Nat \ {0}
  /\ Names \subseteq Nat \ {0}
  /\ OldFiles \subseteq 0 .. SS * CSIZE
  /\ MaxFaults \in Nat

Slot == 0 .. SS - 1
FatSector(c) == << "fat", c \div SS >>
DataSector(c, k) == << "data", c, k >>
InfoSector == << "info" >>
Nowhere == << >>
Sector == {FatSector(c) : c \in 0 .. n_fatent - 1}
            \cup {DataSector(c, k) : c \in Cluster, k \in 0 .. CSIZE - 1}
            \cup {InfoSector}

NoEntry == [name |-> 0, sclust |-> 0, size |-> 0]      \* end of a directory
Junk == [of |-> 0, row |-> 0]                          \* what a used card holds
Zeros == [i \in Slot |-> NoEntry]
FatEntry(val) == [next |-> val]

VARIABLES
  disk,        \* the card, sector by sector: all that survives a reset
  win,         \* the window: winsect, win[], wflag
  vol,         \* last_clst, free_clst, fsi_flag of the mounted volume
  fp,          \* the file object
  dp,          \* the directory object: position and its cluster
  cc,          \* locals of create_chain(): clst, scl, ncl
  call,        \* the operation, its name or item, what is left of btw
  pc, res,
  faults       \* history: accesses that failed

fatVars == << disk, win, vol, fp, dp, cc, call, pc, res, faults >>

Closed == [sclust |-> 0, objsize |-> 0, fptr |-> 0, clust |-> 0,
           sect |-> Nowhere, buf |-> [i \in Slot |-> Junk], dirty |-> FALSE,
           modified |-> FALSE, err |-> "OK", dir_sect |-> Nowhere, dir |-> 0]

NoWindow == [sect |-> Nowhere, data |-> Zeros, wflag |-> FALSE]
NoVolume == [last_clst |-> Unknown, free_clst |-> Unknown, fsi |-> "off"]
NoChain == [clst |-> 0, scl |-> 0, ncl |-> 0]
NoCall == [op |-> "none", key |-> 0, item |-> Junk, todo |-> 0]
Rewind == [ofs |-> 0, clust |-> dirbase]

(* A formatted card that was in use before, with or without hints, and     *)
(* with the entries of sessions that ended before their first f_sync().    *)
FatFsInit ==
  /\ \E old \in OldFiles,
        hint \in {[free |-> NCLST - 1, next |-> 2],
                  [free |-> NCLST - 1, next |-> n_fatent - 2],
                  [free |-> Unknown, next |-> Unknown]} :
       disk = [s \in Sector |->
                 IF s = InfoSector THEN hint
                 ELSE IF s[1] = "fat"
                 THEN [i \in Slot |-> FatEntry(
                         IF s[2] * SS + i <= dirbase THEN EOC ELSE 0)]
                 ELSE IF s[2] = dirbase
                 THEN [i \in Slot |-> IF s[3] * SS + i < old
                                     THEN [NoEntry EXCEPT !.name = s[3] * SS + i + 1]
                                     ELSE NoEntry]
                 ELSE [i \in Slot |-> Junk]]
  /\ win = NoWindow /\ vol = NoVolume /\ fp = Closed /\ dp = Rewind
  /\ cc = NoChain /\ call = NoCall /\ pc = "idle" /\ res = "OK"
  /\ faults = 0

(* The memory of FatFs is lost, the card is not. *)
LosePower ==
  /\ win' = NoWindow /\ vol' = NoVolume /\ fp' = Closed /\ dp' = Rewind
  /\ cc' = NoChain /\ call' = NoCall /\ pc' = "idle" /\ res' = "OK"
  /\ UNCHANGED << disk, faults >>

-----------------------------------------------------------------------------
(* Accesses to the card.  A write that is reported as failed may have been *)
(* carried out: the card accepted the data and stayed busy for too long.   *)
Attempt(ok) ==
  /\ ok \/ faults < MaxFaults
  /\ faults' = IF ok THEN faults ELSE faults + 1

DiskWrite(s, data, ok) ==
  LET written == [disk EXCEPT ![s] = data]
  IN  /\ Attempt(ok)
      /\ disk' \in IF ok THEN {written} ELSE {disk, written}

Return(r) == pc' = "idle" /\ res' = r
Goto(p) == pc' = p /\ UNCHANGED res

(* An error ends the operation; f_write() remembers it in fp->err.         *)
Abort(r) ==
  /\ Return(r)
  /\ fp' = IF call.op = "write" THEN [fp EXCEPT !.err = r] ELSE fp

OnlyPc == UNCHANGED << disk, win, vol, fp, dp, cc, call, faults >>

-----------------------------------------------------------------------------
(* move_window(): the sector the next step looks at. *)
DirSector == DataSector(dp.clust, (dp.ofs \div SS) % CSIZE)

Want ==
  CASE pc \in {"find", "alloc"}           -> DirSector
    [] pc \in {"find_next", "alloc_next"} -> FatSector(dp.clust)
    [] pc \in {"status", "link"}          -> FatSector(cc.clst)
    [] pc \in {"contig", "search"}        -> FatSector(cc.ncl)
    [] pc = "entry"                       -> fp.dir_sect
    [] OTHER                              -> win.sect

At(p) == pc = p /\ win.sect = Want
Fat(c) == win.data[c % SS].next              \* with FatSector(c) in the window

(* sync_window(), called by move_window() *)
Flush(ok) ==
  /\ win.sect # Want /\ win.wflag
  /\ DiskWrite(win.sect, win.data, ok)
  /\ IF ok THEN /\ win' = [win EXCEPT !.wflag = FALSE]
                /\ UNCHANGED << fp, pc, res >>
           ELSE Abort("DISK_ERR") /\ UNCHANGED win
  /\ UNCHANGED << vol, dp, cc, call >>

Load(ok) ==
  /\ win.sect # Want /\ ~win.wflag
  /\ Attempt(ok)
  /\ IF ok THEN /\ win' = [win EXCEPT !.sect = Want, !.data = disk[Want]]
                /\ UNCHANGED << fp, pc, res >>
           ELSE /\ win' = [win EXCEPT !.sect = Nowhere]
                /\ Abort("DISK_ERR")
  /\ UNCHANGED << disk, vol, dp, cc, call >>

MoveWindow == \E ok \in BOOLEAN : Flush(ok) \/ Load(ok)

-----------------------------------------------------------------------------
(* f_mount(): the window is dropped, the boot sector read (as one access)  *)
(* and then FSInfo, whose absence is no error.                             *)
MountVolume ==
  /\ pc = "mount"
  /\ \E ok \in BOOLEAN :
       /\ Attempt(ok)
       /\ IF ok THEN Goto("fsinfo") ELSE Return("DISK_ERR")
  /\ win' = [win EXCEPT !.sect = Nowhere, !.wflag = FALSE]
  /\ UNCHANGED << disk, vol, fp, dp, cc, call >>

MountInfo ==
  /\ pc = "fsinfo"
  /\ \E ok \in BOOLEAN :
       /\ Attempt(ok)
       /\ win' = IF ok THEN [win EXCEPT !.sect = InfoSector] ELSE win
       /\ vol' = IF ok THEN [last_clst |-> disk[InfoSector].next,
                             free_clst |-> disk[InfoSector].free,
                             fsi |-> "clean"]
                 ELSE NoVolume
  /\ Return("OK")
  /\ UNCHANGED << disk, fp, dp, cc, call >>

-----------------------------------------------------------------------------
(* dir_find() for f_stat() and f_open(), entry by entry. *)
Entry == win.data[dp.ofs % SS]
Named(e, n) == e \notin {NoEntry, Junk} /\ "name" \in DOMAIN e /\ e.name = n

(* f_stat() answers; f_open() refuses a file that exists, and looks for a  *)
(* free entry when there is none.                                          *)
Missing ==
  IF call.op = "stat"
  THEN Return("NO_FILE") /\ UNCHANGED dp
  ELSE Goto("alloc") /\ dp' = Rewind

(* dir_next(), up to the point where it needs the FAT *)
LastOfCluster(ofs) == (ofs + 1) % (SS * CSIZE) = 0
NextEntry(lookup) ==
  IF LastOfCluster(dp.ofs)
  THEN Goto(lookup) /\ UNCHANGED dp
  ELSE UNCHANGED << pc, res >> /\ dp' = [dp EXCEPT !.ofs = @ + 1]

DirFind ==
  /\ At("find")
  /\ IF Entry = NoEntry THEN Missing
     ELSE IF Named(Entry, call.key)
     THEN /\ Return(IF call.op = "stat" THEN "OK" ELSE "EXIST")
          /\ UNCHANGED dp
     ELSE NextEntry("find_next")
  /\ UNCHANGED << disk, win, vol, fp, cc, call, faults >>

DirFindNext ==
  /\ At("find_next")
  /\ IF Fat(dp.clust) <= 1 THEN Return("INT_ERR") /\ UNCHANGED dp
     ELSE IF Fat(dp.clust) = EOC THEN Missing
     ELSE /\ Goto("find")
          /\ dp' = [ofs |-> dp.ofs + 1, clust |-> Fat(dp.clust)]
  /\ UNCHANGED << disk, win, vol, fp, cc, call, faults >>

-----------------------------------------------------------------------------
(* dir_alloc() and the rest of f_open(): the first free entry is filled    *)
(* in, in the window only, and the file object starts at its top.          *)
DirAlloc ==
  /\ At("alloc") /\ Entry # NoEntry
  /\ NextEntry("alloc_next")
  /\ UNCHANGED << disk, win, vol, fp, cc, call, faults >>

DirAllocNext ==
  /\ At("alloc_next")
  /\ IF Fat(dp.clust) <= 1 THEN Return("INT_ERR") /\ UNCHANGED << dp, cc >>
     ELSE IF Fat(dp.clust) = EOC
     THEN Goto("chain") /\ cc' = [cc EXCEPT !.clst = dp.clust]
                        /\ UNCHANGED dp
     ELSE /\ Goto("alloc") /\ UNCHANGED cc
          /\ dp' = [ofs |-> dp.ofs + 1, clust |-> Fat(dp.clust)]
  /\ UNCHANGED << disk, win, vol, fp, call, faults >>

(* mutant: the entry is taken without being free *)
DirRegisterAnywhere ==
  /\ At("alloc")
  /\ win' = [win EXCEPT !.wflag = TRUE, !.data[dp.ofs % SS] =
               [name |-> call.key, sclust |-> 0, size |-> 0]]
  /\ fp' = [Closed EXCEPT !.modified = TRUE, !.dir_sect = win.sect,
                          !.dir = dp.ofs % SS]
  /\ Return("OK")
  /\ UNCHANGED << disk, vol, dp, cc, call, faults >>

DirRegister ==
  /\ At("alloc") /\ Entry = NoEntry
  /\ win' = [win EXCEPT !.wflag = TRUE, !.data[dp.ofs % SS] =
               [name |-> call.key, sclust |-> 0, size |-> 0]]
  /\ fp' = [Closed EXCEPT !.modified = TRUE, !.dir_sect = win.sect,
                          !.dir = dp.ofs % SS]
  /\ Return("OK")
  /\ UNCHANGED << disk, vol, dp, cc, call, faults >>

(* dir_clear() of the cluster that was linked to a full directory *)
DirClear ==
  /\ pc = "clear"
  /\ \E ok \in BOOLEAN :
       IF win.wflag
       THEN /\ DiskWrite(win.sect, win.data, ok)
            /\ win' = [win EXCEPT !.wflag = ~ok]
            /\ IF ok THEN UNCHANGED << pc, res >> ELSE Return("DISK_ERR")
       ELSE /\ ok
            /\ win' = [win EXCEPT !.sect = DataSector(cc.ncl, 0),
                                  !.data = Zeros]
            /\ Goto("zero") /\ UNCHANGED << disk, faults >>
  /\ call' = [call EXCEPT !.todo = CSIZE]
  /\ UNCHANGED << vol, fp, dp, cc >>

DirClearSector ==
  /\ pc = "zero"
  /\ \E ok \in BOOLEAN :
       /\ DiskWrite(DataSector(cc.ncl, CSIZE - call.todo), Zeros, ok)
       /\ IF ~ok THEN Return("DISK_ERR")
          ELSE Goto(IF call.todo = 1 THEN "alloc" ELSE "zero")
       /\ dp' = IF ok /\ call.todo = 1
                THEN [ofs |-> dp.ofs + 1, clust |-> cc.ncl] ELSE dp
  /\ call' = [call EXCEPT !.todo = @ - 1]
  /\ UNCHANGED << win, vol, fp, cc >>

-----------------------------------------------------------------------------
(* create_chain(): a cluster for the end of the chain of cc.clst, or for a *)
(* new chain when that is 0.                                               *)
SuccClusterStays(c) == IF c + 1 < n_fatent THEN c + 1 ELSE c      \* mutant
SuccCluster(c) == IF c + 1 < n_fatent THEN c + 1 ELSE 2

(* No free cluster: f_write() ends early, a directory cannot grow. *)
NoCluster ==
  IF call.op = "write"
  THEN Return("OK") /\ fp' = [fp EXCEPT !.modified = TRUE]
  ELSE Return("DENIED") /\ UNCHANGED fp

CreateChain ==
  /\ pc = "chain"
  /\ IF cc.clst # 0 THEN Goto("status") /\ UNCHANGED << fp, cc >>
     ELSE LET scl == IF vol.last_clst \in 1 .. n_fatent - 1
                     THEN vol.last_clst ELSE 1
          IN  /\ cc' = [cc EXCEPT !.scl = scl, !.ncl = SuccCluster(scl)]
              /\ IF vol.free_clst = 0 THEN NoCluster
                 ELSE Goto("search") /\ UNCHANGED fp
  /\ UNCHANGED << disk, win, vol, dp, call, faults >>

(* The cluster to stretch may be followed by one already. *)
Stretch ==
  /\ At("status")
  /\ IF Fat(cc.clst) <= 1 THEN Abort("INT_ERR") /\ UNCHANGED cc
     ELSE IF Fat(cc.clst) # EOC
     THEN /\ cc' = [cc EXCEPT !.ncl = Fat(cc.clst)]
          /\ Goto("got") /\ UNCHANGED fp
     ELSE /\ cc' = [cc EXCEPT !.scl = cc.clst, !.ncl = SuccCluster(cc.clst)]
          /\ IF vol.free_clst = 0 THEN NoCluster
             ELSE Goto("contig") /\ UNCHANGED fp
  /\ UNCHANGED << disk, win, vol, dp, call, faults >>

(* mutant: only the link is written, the new end of the chain is not *)
MarkForgotten ==
  /\ Goto(IF cc.clst = 0 THEN "found" ELSE "link")
  /\ UNCHANGED << win, fp, cc >>

(* put_fat(ncl, EOC) in the sector that get_fat() left in the window *)
Mark ==
  /\ win' = [win EXCEPT !.wflag = TRUE, !.data[cc.ncl % SS] = FatEntry(EOC)]
  /\ Goto(IF cc.clst = 0 THEN "found" ELSE "link")
  /\ UNCHANGED << fp, cc >>

(* mutant: the next cluster is taken whether it is free or not *)
ContiguousAnyway ==
  /\ At("contig") /\ Mark
  /\ UNCHANGED << disk, vol, dp, call, faults >>

(* The next cluster is tried first, then all of them from the hint on. *)
Contiguous ==
  /\ At("contig")
  /\ IF Fat(cc.ncl) = 0 THEN Mark
     ELSE LET scl == IF vol.last_clst \in Cluster THEN vol.last_clst
                     ELSE cc.scl
          IN  /\ cc' = [cc EXCEPT !.scl = scl, !.ncl = SuccCluster(scl)]
              /\ Goto("search") /\ UNCHANGED << win, fp >>
  /\ UNCHANGED << disk, vol, dp, call, faults >>

Search ==
  /\ At("search")
  /\ IF Fat(cc.ncl) = 0 THEN Mark
     ELSE IF cc.ncl = cc.scl \/ (SuccCluster(cc.ncl) = 2 /\ cc.scl = 1)
     THEN NoCluster /\ UNCHANGED << win, cc >>
     ELSE /\ cc' = [cc EXCEPT !.ncl = SuccCluster(cc.ncl)]
          /\ UNCHANGED << win, fp, pc, res >>
  /\ UNCHANGED << disk, vol, dp, call, faults >>

Link ==
  /\ At("link")
  /\ win' = [win EXCEPT !.wflag = TRUE, !.data[cc.clst % SS] = FatEntry(cc.ncl)]
  /\ Goto("found")
  /\ UNCHANGED << disk, vol, fp, dp, cc, call, faults >>

Found ==
  /\ pc = "found"
  /\ LET counted == vol.free_clst \in 1 .. n_fatent - 2
     IN  vol' = [last_clst |-> cc.ncl,
                 free_clst |-> vol.free_clst - (IF counted THEN 1 ELSE 0),
                 fsi |-> IF counted /\ vol.fsi = "clean" THEN "changed"
                         ELSE vol.fsi]
  /\ Goto("got")
  /\ UNCHANGED << disk, win, fp, dp, cc, call, faults >>

Got ==
  /\ pc = "got"
  /\ IF call.op = "open" THEN Goto("clear") /\ UNCHANGED fp
     ELSE /\ Goto("place")
          /\ fp' = [fp EXCEPT !.clust = cc.ncl,
                              !.sclust = IF @ = 0 THEN cc.ncl ELSE @]
  /\ UNCHANGED << disk, win, vol, dp, cc, call, faults >>

-----------------------------------------------------------------------------
(* f_write() of call.todo slots *)
AtSector == fp.fptr % SS = 0
AtCluster == fp.fptr % (SS * CSIZE) = 0

WriteRefused ==
  /\ pc = "write" /\ fp.err # "OK"
  /\ Return(fp.err)
  /\ OnlyPc

WriteDone ==
  /\ pc = "write" /\ fp.err = "OK" /\ call.todo = 0
  /\ fp' = [fp EXCEPT !.modified = TRUE]
  /\ Return("OK")
  /\ UNCHANGED << disk, win, vol, dp, cc, call, faults >>

WriteCluster ==
  /\ pc = "write" /\ fp.err = "OK" /\ call.todo > 0 /\ AtCluster
  /\ cc' = [cc EXCEPT !.clst = IF fp.fptr = 0 THEN 0 ELSE fp.clust,
                      !.ncl = fp.sclust]
  /\ Goto(IF fp.fptr = 0 /\ fp.sclust # 0 THEN "got" ELSE "chain")
  /\ UNCHANGED << disk, win, vol, fp, dp, call, faults >>

WriteSector ==
  /\ pc = "write" /\ fp.err = "OK" /\ call.todo > 0 /\ ~AtCluster
  /\ Goto(IF AtSector THEN "place" ELSE "fill")
  /\ OnlyPc

(* mutant: the outcome of the transfer is not looked at *)
WriteBackUnchecked ==
  /\ pc = "place" /\ fp.dirty
  /\ \E ok \in BOOLEAN : DiskWrite(fp.sect, fp.buf, ok)
  /\ fp' = [fp EXCEPT !.dirty = FALSE]
  /\ UNCHANGED << win, vol, dp, cc, call, pc, res >>

(* The sector in the file's buffer goes out before the next one starts. *)
WriteBack ==
  /\ pc = "place" /\ fp.dirty
  /\ \E ok \in BOOLEAN :
       /\ DiskWrite(fp.sect, fp.buf, ok)
       /\ IF ok THEN fp' = [fp EXCEPT !.dirty = FALSE] /\ UNCHANGED << pc, res >>
          ELSE Abort("DISK_ERR")
  /\ UNCHANGED << win, vol, dp, cc, call >>

Place ==
  /\ pc = "place" /\ ~fp.dirty
  /\ fp' = [fp EXCEPT !.sect =
              DataSector(fp.clust, (fp.fptr \div SS) % CSIZE)]
  /\ Goto("fill")
  /\ UNCHANGED << disk, win, vol, dp, cc, call, faults >>

Fill ==
  /\ pc = "fill"
  /\ LET ofs == fp.fptr % SS
         wcnt == IF call.todo < SS - ofs THEN call.todo ELSE SS - ofs
     IN  /\ fp' = [fp EXCEPT
                     !.buf = [i \in Slot |-> IF i \in ofs .. ofs + wcnt - 1
                                             THEN call.item ELSE @[i]],
                     !.dirty = TRUE,
                     !.fptr = @ + wcnt,
                     !.objsize = @ + wcnt]
         /\ call' = [call EXCEPT !.todo = @ - wcnt]
  /\ Goto("write")
  /\ UNCHANGED << disk, win, vol, dp, cc, faults >>

-----------------------------------------------------------------------------
(* f_sync(), which is also what f_close() does to the card *)
SyncNothing ==
  /\ pc = "sync" /\ ~fp.modified
  /\ Return("OK")
  /\ OnlyPc

(* mutant: the data stays in the buffer until the sector is full *)
SyncDataLater ==
  /\ pc = "sync" /\ fp.modified
  /\ Goto("entry")
  /\ UNCHANGED << disk, win, vol, fp, dp, cc, call, faults >>

SyncData ==
  /\ pc = "sync" /\ fp.modified
  /\ IF ~fp.dirty THEN Goto("entry") /\ UNCHANGED << disk, fp, faults >>
     ELSE \E ok \in BOOLEAN :
            /\ DiskWrite(fp.sect, fp.buf, ok)
            /\ fp' = [fp EXCEPT !.dirty = ~ok]
            /\ IF ok THEN Goto("entry") ELSE Return("DISK_ERR")
  /\ UNCHANGED << win, vol, dp, cc, call >>

SyncEntry ==
  /\ At("entry")
  /\ win' = [win EXCEPT !.wflag = TRUE, !.data[fp.dir].sclust = fp.sclust,
                        !.data[fp.dir].size = fp.objsize]
  /\ Goto("sync_fs")
  /\ UNCHANGED << disk, vol, fp, dp, cc, call, faults >>

(* mutant: a failed write is taken for a good one *)
SyncFsUnchecked ==
  /\ pc = "sync_fs"
  /\ \E ok \in BOOLEAN :
       /\ DiskWrite(win.sect, win.data, ok)
       /\ win' = [win EXCEPT !.wflag = FALSE]
       /\ IF vol.fsi = "changed" THEN Goto("sync_info") ELSE Return("OK")
  /\ fp' = [fp EXCEPT !.modified = FALSE]
  /\ UNCHANGED << vol, dp, cc, call >>

(* sync_fs(): the window, then FSInfo if the allocation changed.  The      *)
(* file counts as unmodified whatever the outcome, and the write of FSInfo *)
(* is not tested.                                                          *)
SyncFs ==
  /\ pc = "sync_fs"
  /\ \E ok \in BOOLEAN :
       /\ DiskWrite(win.sect, win.data, ok)
       /\ win' = [win EXCEPT !.wflag = ~ok]
       /\ IF ~ok THEN Return("DISK_ERR")
          ELSE IF vol.fsi = "changed" THEN Goto("sync_info") ELSE Return("OK")
  /\ fp' = [fp EXCEPT !.modified = FALSE]
  /\ UNCHANGED << vol, dp, cc, call >>

SyncInfo ==
  /\ pc = "sync_info"
  /\ LET info == [free |-> vol.free_clst, next |-> vol.last_clst]
     IN  /\ \E ok \in BOOLEAN : DiskWrite(InfoSector, info, ok)
         /\ win' = [win EXCEPT !.sect = InfoSector]
  /\ vol' = [vol EXCEPT !.fsi = "clean"]
  /\ Return("OK")
  /\ UNCHANGED << fp, dp, cc, call >>

-----------------------------------------------------------------------------
FatFsStep ==
  \/ MoveWindow
  \/ MountVolume \/ MountInfo
  \/ DirFind \/ DirFindNext \/ DirAlloc \/ DirAllocNext \/ DirRegister
  \/ DirClear \/ DirClearSector
  \/ CreateChain \/ Stretch \/ Contiguous \/ Search \/ Link \/ Found \/ Got
  \/ WriteRefused \/ WriteDone \/ WriteCluster \/ WriteSector \/ WriteBack
  \/ Place \/ Fill
  \/ SyncNothing \/ SyncData \/ SyncEntry \/ SyncFs \/ SyncInfo

(* Beginning an operation *)
Start(op, point, key, item, todo) ==
  /\ pc = "idle"
  /\ call' = [op |-> op, key |-> key, item |-> item, todo |-> todo]
  /\ pc' = point
  /\ dp' = Rewind
  /\ UNCHANGED << disk, win, vol, fp, cc, res, faults >>

f_mount == Start("mount", "mount", 0, Junk, 0)
f_stat(n) == Start("stat", "find", n, Junk, 0)
f_open(n) == Start("open", "find", n, Junk, 0)
f_write(item, btw) == Start("write", "write", 0, item, btw)
f_sync == Start("sync", "sync", 0, Junk, 0)
f_close == Start("close", "sync", 0, Junk, 0)
=============================================================================

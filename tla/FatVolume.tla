----------------------------- MODULE FatVolume -----------------------------
(***************************************************************************)
(* The API of Lib/fatfs/ff.c as Inc/ffconf.h configures it: one volume,    *)
(* short names, paths from the root, no locks, no tasks.  An action is a   *)
(* whole call, of a single caller, on a card that does not fail: module    *)
(* FatFs has the accesses to the card one by one, and their failures, for  *)
(* the six calls the data logger makes.  The window is then transparent,   *)
(* so that the FAT and the sectors are simply what the last put_fat() or   *)
(* disk_write() made of them; the buffer of an open file is not.           *)
(***************************************************************************)
EXTENDS Integers, SequencesExt, FiniteSetsExt, FiniteSets, TLC

CONSTANTS
  SS,          \* slots of a sector: bytes of data, or entries of a directory
  CSIZE,       \* sectors of a cluster
  NCLST,       \* clusters of the volume
  MAX_DIR,     \* entries of the largest directory
  BODY, EXT,   \* characters of a name and of its extension: 8 and 3
  Callers      \* applications: the card they find, the calls they make and
               \* with which paths, modes and lengths, and the bounds:
               \* how many times it mounts, and calls what makes a change

n_fatent == NCLST + 2
Cluster == 2 .. n_fatent - 1
EOC == n_fatent                         \* 0xFFFFFFFF as an entry of the FAT
Unknown == n_fatent                     \* 0xFFFFFFFF as a hint of FSInfo
dirbase == 2                            \* first cluster of the root directory
CLSZ == CSIZE * SS                      \* slots of a cluster

ASSUME FatVolumeAssumption ==
  /\ {SS, CSIZE, NCLST, MAX_DIR, BODY, EXT} \subseteq Nat \ {0}
  /\ SS >= 2 /\ MAX_DIR >= 2            \* "." and ".." are in one sector

Slot == 0 .. SS - 1
Sector == 1 .. NCLST * CSIZE            \* of data; 0 is no sector
Lesser(a, b) == IF a < b THEN a ELSE b

(* F(x), with x evaluated once. *)
With(x, F(_)) == CHOOSE y \in {F(z) : z \in {x}} : TRUE

(* A byte of a file says which call wrote it, and where in its buffer. *)
Zero == [call |-> 0, at |-> 0]

(* An entry of a directory.  Names are << body, extension >>.  *)
EndName == << >>                        \* the first byte is 0
DDEM == << "DDEM" >>
Dot == << "." >>
DotDot == << ".." >>
NoName == EndName
Entry(name, attr, sclust, size) ==
  [name |-> name, attr |-> attr, sclust |-> sclust, size |-> size]
NoEntry == Entry(EndName, {}, 0, 0)
RootEntry == Entry(NoName, {"DIR"}, 0, 0)

Closed == [id |-> 0, flag |-> {}, err |-> "OK", sclust |-> 0, objsize |-> 0,
           fptr |-> 0, clust |-> 0, sect |-> 0, buf |-> [i \in Slot |-> Zero],
           dir |-> << 0, 0 >>]
NoDir == [id |-> 0, sclust |-> 0, dptr |-> 0, ended |-> FALSE]

VARIABLES
  vol,         \* the card (fat, disk, info) and the FATFS object; wflag says
               \* that a call ended with something left in the window
  fp, dp,      \* a FIL and a DIR
  answer,      \* the last call and what it returned
  changes,     \* history: calls so far of those that make a change
  caller       \* the application

vars == << vol, fp, dp, answer, changes, caller >>

-----------------------------------------------------------------------------
(* The FAT.  get_fat() and clst2sect() refuse what is not a cluster. *)
get_fat(v, c) == IF c \in Cluster THEN v.fat[c] ELSE 1
clst2sect(c) == IF c \in Cluster THEN (c - 2) * CSIZE + 1 ELSE 0

(* The links from c on, the chain that begins there, and the cluster n     *)
(* links down it.                                                          *)
Walk(v, c) ==
  LET link == [d \in 0 .. EOC |-> IF d \in Cluster THEN v.fat[d] ELSE EOC]
      go[n \in 0 .. NCLST - 1] == IF n = 0 THEN c ELSE link[go[n - 1]]
  IN  [k \in 1 .. NCLST |-> go[k - 1]]
Chain(v, c) ==
  With(Walk(v, c), LAMBDA walk :
    SubSeq(walk, 1, Cardinality({k \in 1 .. NCLST : walk[k] \in Cluster})))
Links(v, c) == ToSet(Chain(v, c))
Nth(v, c, n) ==
  LET chain == Chain(v, c) IN IF n < Len(chain) THEN chain[n + 1] ELSE 1
Free(v) == {c \in Cluster : v.fat[c] = 0}

(* mutant: what comes before the clusters that go is not made the end *)
remove_chain_keeps_link(v, clst, pclst) ==
  LET gone == Links(v, clst) \ Free(v)
  IN  [res |-> "OK",
       v |-> [v EXCEPT
         !.fat = [c \in Cluster |-> IF c \in gone THEN 0 ELSE @[c]],
         !.free_clst = IF @ < NCLST THEN Lesser(@ + Cardinality(gone), NCLST) ELSE @,
         !.fsi_flag = @ \/ (v.free_clst < NCLST /\ gone # {})]]

(* remove_chain(): up to the end, or to a cluster that is free already. *)
remove_chain(v, clst, pclst) ==
  LET cut == IF pclst = 0 THEN v ELSE [v EXCEPT !.fat[pclst] = EOC]
      gone == Links(cut, clst) \ Free(cut)
  IN  IF clst \notin Cluster THEN [v |-> v, res |-> "INT_ERR"]
      ELSE [res |-> "OK",
            v |-> [cut EXCEPT
              !.fat = [c \in Cluster |-> IF c \in gone THEN 0 ELSE @[c]],
              !.free_clst = IF @ < NCLST THEN Lesser(@ + Cardinality(gone), NCLST) ELSE @,
              !.fsi_flag = @ \/ (v.free_clst < NCLST /\ gone # {})]]

(* mutant: the search ends where the FAT does *)
Search_to_the_end(v, scl) ==
  LET free == {c \in Free(v) : c > scl} IN IF free = {} THEN 0 ELSE Min(free)

(* The first free cluster after scl, around the end of the FAT, or 0. *)
Search(v, scl) ==
  LET Away(c) == IF c > scl THEN c - scl ELSE c - scl + NCLST
  IN  IF Free(v) = {} THEN 0
      ELSE CHOOSE c \in Free(v) : \A d \in Free(v) : Away(c) <= Away(d)

Hint(v, otherwise) ==
  IF v.last_clst \in Cluster THEN v.last_clst ELSE otherwise

NextFree(v, clst) ==
  LET beside == IF clst + 1 < n_fatent THEN clst + 1 ELSE 2
  IN  IF clst # 0 /\ v.fat[beside] = 0 THEN beside
      ELSE Search(v, Hint(v, IF clst = 0 THEN 1 ELSE clst))

Linked(v, clst, ncl) ==
  IF ncl = 0 THEN [v |-> v, clst |-> 0]
  ELSE [clst |-> ncl,
        v |-> [v EXCEPT
          !.fat = [c \in Cluster |-> IF c = ncl THEN EOC
                                     ELSE IF c = clst THEN ncl ELSE @[c]],
          !.last_clst = ncl,
          !.free_clst = IF @ <= NCLST THEN @ - 1 ELSE @,
          !.fsi_flag = @ \/ v.free_clst <= NCLST]]

(* create_chain(): a new chain when clst is 0, or the next cluster of the  *)
(* chain that ends at clst, preferably the one beside it.                  *)
create_chain(v, clst) ==
  IF clst # 0 /\ get_fat(v, clst) < 2 THEN [v |-> v, clst |-> 1]
  ELSE IF clst # 0 /\ get_fat(v, clst) # EOC
  THEN [v |-> v, clst |-> get_fat(v, clst)]
  ELSE IF v.free_clst = 0 THEN [v |-> v, clst |-> 0]
  ELSE Linked(v, clst, NextFree(v, clst))

(* sync_fs(): the hints that changed go to FSInfo. *)
sync_fs(v) ==
  [v EXCEPT !.info = IF v.fsi_flag THEN [free |-> v.free_clst, next |-> v.last_clst]
                                   ELSE @,
            !.fsi_flag = FALSE, !.wflag = FALSE]

-----------------------------------------------------------------------------
(* Directories.  Entry i of the directory whose table begins at cluster d, *)
(* 0 for the root, is in a sector and a slot of it.                        *)
Base(d) == IF d = 0 THEN dirbase ELSE d
Place(v, d, i) ==
  << clst2sect(Nth(v, Base(d), i \div CLSZ)) + (i % CLSZ) \div SS, i % SS >>
Slotted(chain, i) ==
  << clst2sect(chain[i \div CLSZ + 1]) + (i % CLSZ) \div SS, i % SS >>
At(v, place) == v.disk[place[1]][place[2]]
Put(v, place, e) == [v EXCEPT !.disk[place[1]][place[2]] = e]
EntryAt(v, d, i) == At(v, Place(v, d, i))

Room(v, d) == Len(Chain(v, Base(d))) * CLSZ
Places(v, d) ==
  With(Chain(v, Base(d)), LAMBDA chain :
    [i \in 0 .. Lesser(Len(chain) * CLSZ, MAX_DIR) - 1 |-> Slotted(chain, i)])
Table(v, d) ==
  With(Places(v, d), LAMBDA places : [i \in DOMAIN places |-> At(v, places[i])])

(* What dir_find() and dir_read() get to: all that is before the end mark. *)
Entries(table) ==
  LET ends == {i \in DOMAIN table : table[i].name = EndName}
  IN  {i \in DOMAIN table : \A end \in ends : i < end}

(* dir_read(): files and directories only. *)
Listed(table) ==
  {i \in Entries(table) : /\ table[i].name \notin {DDEM, Dot, DotDot}
                          /\ "VOL" \notin table[i].attr}

None == -1
dir_find(v, d, name) ==
  LET Hits(table) == {i \in Entries(table) : /\ table[i].name = name
                                             /\ "VOL" \notin table[i].attr}
  IN  With(Hits(Table(v, d)), LAMBDA hits : IF hits = {} THEN None ELSE Min(hits))

dir_clear(v, c) ==
  [v EXCEPT !.disk = [s \in Sector |->
     IF s \in clst2sect(c) .. clst2sect(c) + CSIZE - 1
     THEN [i \in Slot |-> NoEntry] ELSE @[s]]]

Registered(v, place, name) ==
  [v |-> Put(v, place, Entry(name, {}, 0, 0)), res |-> "OK", place |-> place]
Unregistered(v, res) == [v |-> v, res |-> res, place |-> << 0, 0 >>]

(* dir_next(): the table gets the cluster of r, cleared. *)
Stretched(v, d, name, r) ==
  IF r.clst \in Cluster
  THEN With(dir_clear(r.v, r.clst), LAMBDA w : Registered(w, Place(w, d, Room(v, d)), name))
  ELSE Unregistered(v, IF r.clst = 0 THEN "DENIED" ELSE "INT_ERR")

(* dir_alloc() and dir_register(): the first entry that is free or was     *)
(* deleted, else one in a cluster more.                                    *)
dir_register(v, d, name) ==
  LET free == With(Table(v, d), LAMBDA table :
                {i \in DOMAIN table : table[i].name \in {EndName, DDEM}})
  IN  IF free # {} THEN Registered(v, Place(v, d, Min(free)), name)
      ELSE IF Room(v, d) >= MAX_DIR THEN Unregistered(v, "DENIED")
      ELSE Stretched(v, d, name, create_chain(v, Last(Chain(v, Base(d)))))

dir_remove(v, place) == Put(v, place, Entry(DDEM, {}, 0, 0))

(* create_name(): capitals, one dot, no character that is reserved. *)
Capital == [a |-> "A", b |-> "B", c |-> "C"]
Upper(str) ==
  [k \in DOMAIN str |-> IF str[k] \in DOMAIN Capital THEN Capital[str[k]] ELSE str[k]]
Reserved == {"*", "+", ",", ":", ";", "<", "=", ">", "[", "]", "|", "\"", "?"}

create_name(seg) ==
  LET dots == {k \in DOMAIN seg : seg[k] = "."}
      dot == IF dots = {} THEN Len(seg) + 1 ELSE Min(dots)
      body == SubSeq(seg, 1, dot - 1)
      ext == SubSeq(seg, dot + 1, Len(seg))
  IN  IF /\ seg # << >> /\ Cardinality(dots) <= 1
         /\ Len(body) <= BODY /\ Len(ext) <= EXT
         /\ \A k \in DOMAIN seg : seg[k] \notin Reserved
      THEN << Upper(body), Upper(ext) >> ELSE NoName

(* Segment k of a path is looked up in the directory that w, the segment   *)
(* before it, led to.                                                      *)
Segment(v, path, k, w) ==
  LET Found(d, name, i, last) ==
        [dir |-> d, name |-> name, dptr |-> i,
         res |-> IF i # None THEN "OK" ELSE IF last THEN "NO_FILE" ELSE "NO_PATH"]
      Find(d, name, last) ==
        IF name = NoName THEN [w EXCEPT !.res = "INVALID_NAME"]
        ELSE Found(d, name, dir_find(v, d, name), last)
      Into(e) ==
        IF "DIR" \notin e.attr THEN [w EXCEPT !.res = "NO_PATH"]
        ELSE Find(e.sclust, create_name(path[k]), k = Len(path))
  IN  IF w.res # "OK" THEN w
      ELSE Into(IF k = 1 THEN RootEntry ELSE EntryAt(v, w.dir, w.dptr))

(* follow_path(): the directory in which the last name was looked up, and  *)
(* its entry.  The root itself has no name (NS_NONAME).                    *)
follow_path(v, path) ==
  LET top == [dir |-> 0, name |-> NoName, dptr |-> 0,
              res |-> IF v.registered THEN "OK" ELSE "NOT_ENABLED"]
      go[k \in 0 .. Len(path)] ==
        IF k = 0 THEN top ELSE With(go[k - 1], LAMBDA w : Segment(v, path, k, w))
  IN  go[Len(path)]

(* For the calls that want an object with a name. *)
Named(w) ==
  IF w.res = "OK" /\ w.name = NoName THEN "INVALID_NAME" ELSE w.res

-----------------------------------------------------------------------------
(* mount_volume(): the volume registered by f_mount() is mounted by the    *)
(* first call that needs it, and gets a new id.                            *)
mount_volume(v) ==
  IF ~v.registered \/ v.mounted THEN v
  ELSE [v EXCEPT !.mounted = TRUE, !.id = @ + 1, !.fsi_flag = FALSE,
                 !.free_clst = v.info.free, !.last_clst = v.info.next]

Creating(mode) == mode \cap {"CREATE_NEW", "CREATE_ALWAYS", "OPEN_ALWAYS"} # {}

(* validate(): objects opened under an earlier id are refused. *)
validate(obj) == vol.mounted /\ obj.id = vol.id

Changing(call) ==
  \/ call[1] \in {"f_write", "f_mkdir", "f_unlink", "f_rename"}
  \/ call[1] = "f_open" /\ Creating(call[3])

Reply(call, v, res, out) ==
  /\ call[1] \in caller.calls
  /\ vol' = v /\ answer' = [call |-> call, res |-> res, out |-> out]
  /\ changes' = IF Changing(call) THEN changes + 1 ELSE changes
  /\ changes' <= caller.changes
  /\ UNCHANGED caller

(* f_mount() drops the window, and objects that were opened before with    *)
(* what they have yet to write: the caller has synchronised.               *)
f_mount(how) ==
  LET v == [vol EXCEPT !.mounted = FALSE, !.registered = how # "never"]
  IN  /\ validate(fp) => "MODIFIED" \notin fp.flag
      /\ ~vol.wflag
      /\ vol.id < caller.mounts
      /\ Reply(<< "f_mount", how >>, IF how = "now" THEN mount_volume(v) ELSE v,
               "OK", << >>)
      /\ UNCHANGED << fp, dp >>

-----------------------------------------------------------------------------
(* f_open().  What the flags ask for and what the path leads to: *)
OpenResult(v, w, mode) ==
  LET attr == EntryAt(v, w.dir, w.dptr).attr
  IN  IF Named(w) # "OK" THEN Named(w)
      ELSE IF "CREATE_NEW" \in mode THEN "EXIST"
      ELSE IF Creating(mode) /\ attr \cap {"RDO", "DIR"} # {} THEN "DENIED"
      ELSE IF "DIR" \in attr THEN "NO_FILE"
      ELSE IF "WRITE" \in mode /\ "RDO" \in attr THEN "DENIED" ELSE "OK"

(* Creating a file that exists: its entry is emptied first. *)
Overwrite(v, place) ==
  LET sclust == At(v, place).sclust
      emptied == Put(v, place, Entry(At(v, place).name, {}, 0, 0))
  IN  IF sclust = 0 THEN emptied
      ELSE [remove_chain(emptied, sclust, 0).v EXCEPT !.last_clst = sclust - 1]

(* FA_OPEN_APPEND: the last cluster, and its last sector if it is not full. *)
SeekEnd(v, f) ==
  LET last == (f.objsize - 1) \div CLSZ
      ofs == f.objsize - last * CLSZ
      clst == Nth(v, f.sclust, last)
      at == [f EXCEPT !.fptr = f.objsize, !.clust = clst]
      sect == clst2sect(clst) + ofs \div SS
  IN  IF ofs % SS = 0 THEN at
      ELSE [at EXCEPT !.sect = sect, !.buf = v.disk[sect]]

Opened(v, place, flag) ==
  LET e == At(v, place)
      f == [Closed EXCEPT !.id = v.id, !.flag = flag, !.sclust = e.sclust,
                          !.objsize = e.size, !.dir = place]
  IN  IF "SEEKEND" \in flag /\ e.size > 0 THEN SeekEnd(v, f) ELSE f

f_open(path, mode) ==
  \E m \in {mount_volume(vol)} : \E w \in {follow_path(m, path)} :
  \E res \in {OpenResult(m, w, mode)} :
  LET call == << "f_open", path, mode >>
      old == Place(m, w.dir, w.dptr)
      fresh == mode \cup {"MODIFIED"}
  IN  /\ ~validate(fp)
      /\ IF res = "NO_FILE" /\ Creating(mode)
         THEN \E new \in {dir_register(m, w.dir, w.name)} :
                /\ Reply(call, new.v, new.res, << >>)
                /\ fp' = IF new.res = "OK" THEN Opened(new.v, new.place, fresh) ELSE Closed
         ELSE IF res = "OK" /\ "CREATE_ALWAYS" \in mode
         THEN \E v \in {Overwrite(m, old)} :
                Reply(call, v, "OK", << >>) /\ fp' = Opened(v, old, fresh)
         ELSE /\ Reply(call, m, res, << >>)
              /\ fp' = IF res = "OK" THEN Opened(m, old, mode) ELSE Closed
      /\ UNCHANGED dp

-----------------------------------------------------------------------------
(* A transfer goes on from one sector to the next.  Its state s: the       *)
(* volume, the file object, the bytes left and got, and the result.        *)
Repeat(Step(_), s, n) ==
  LET go[k \in 0 .. n] == IF k = 0 THEN s ELSE Step(go[k - 1]) IN go[n]

Abort(s) == [s EXCEPT !.res = "INT_ERR", !.fp.err = "INT_ERR"]

WriteBack(s) ==
  IF "DIRTY" \notin s.fp.flag THEN s
  ELSE [s EXCEPT !.v.disk[s.fp.sect] = s.fp.buf, !.fp.flag = @ \ {"DIRTY"}]

Fill(s, sect) == [s EXCEPT !.fp.buf = s.v.disk[sect], !.fp.sect = sect]

OnSector(f) == f.fptr % SS = 0
Csect(f) == (f.fptr \div SS) % CSIZE
Advance(s, n, bytes) ==
  [s EXCEPT !.fp.fptr = @ + n, !.left = @ - n, !.got = @ \o bytes]

(* mutant: a sector that the buffer has changed is read from the card *)
ReadSectors_stale(s, sect, cc) ==
  Advance(s, cc * SS, [k \in 1 .. cc * SS |->
            s.v.disk[sect + (k - 1) \div SS][(k - 1) % SS]])

(* Whole sectors go to the caller directly, past the buffer, which may be  *)
(* newer than one of them.                                                 *)
ReadSectors(s, sect, cc) ==
  LET Newest(q) == IF "DIRTY" \in s.fp.flag /\ s.fp.sect = q
                   THEN s.fp.buf ELSE s.v.disk[q]
  IN  Advance(s, cc * SS, [k \in 1 .. cc * SS |->
                Newest(sect + (k - 1) \div SS)[(k - 1) % SS]])

ReadPart(s) ==
  LET ofs == s.fp.fptr % SS
      n == Lesser(SS - ofs, s.left)
  IN  Advance(s, n, [k \in 1 .. n |-> s.fp.buf[ofs + k - 1]])

ReadFrom(s, sect, cc) ==
  IF cc > 0 THEN ReadSectors(s, sect, cc)
  ELSE ReadPart(IF s.fp.sect = sect THEN s ELSE Fill(WriteBack(s), sect))

ReadStep(s) ==
  LET f == s.fp
      clst == IF Csect(f) # 0 THEN f.clust
              ELSE IF f.fptr = 0 THEN f.sclust ELSE get_fat(s.v, f.clust)
  IN  IF s.left = 0 \/ s.res # "OK" THEN s
      ELSE IF ~OnSector(f) THEN ReadPart(s)
      ELSE IF clst \notin Cluster THEN Abort(s)
      ELSE ReadFrom([s EXCEPT !.fp.clust = clst], clst2sect(clst) + Csect(f),
                    Lesser(s.left \div SS, CSIZE - Csect(f)))

(* The checks that begin f_read() and f_write(). *)
Refusal(flag) ==
  IF ~validate(fp) THEN "INVALID_OBJECT"
  ELSE IF fp.err # "OK" THEN fp.err
  ELSE IF flag \notin fp.flag THEN "DENIED" ELSE "OK"

Transfer(left) == [v |-> vol, fp |-> fp, left |-> left, got |-> << >>, res |-> "OK"]

f_read(n) ==
  /\ IF Refusal("READ") # "OK"
     THEN Reply(<< "f_read", n >>, vol, Refusal("READ"), << >>) /\ UNCHANGED fp
     ELSE \E s \in {Repeat(ReadStep, Transfer(Lesser(n, fp.objsize - fp.fptr)), n)} :
            Reply(<< "f_read", n >>, s.v, s.res, s.got) /\ fp' = s.fp
  /\ UNCHANGED dp

-----------------------------------------------------------------------------
(* f_write(): whole sectors go to the card directly, and replace what the  *)
(* buffer has of them.                                                     *)
Bytes(n) == [k \in 1 .. n |-> [call |-> changes + 1, at |-> k]]

Accept(s, bytes, n) ==
  LET a == Advance(s, n, SubSeq(bytes, Len(s.got) + 1, Len(s.got) + n))
  IN  [a EXCEPT !.fp.objsize = IF a.fp.fptr > @ THEN a.fp.fptr ELSE @]

WriteSectors(s, bytes, sect, cc) ==
  LET Item(q, i) == bytes[Len(s.got) + (q - sect) * SS + i + 1]
      disk == [q \in Sector |-> IF q \in sect .. sect + cc - 1
                                THEN [i \in Slot |-> Item(q, i)] ELSE s.v.disk[q]]
      a == Accept([s EXCEPT !.v.disk = disk], bytes, cc * SS)
  IN  IF s.fp.sect \in sect .. sect + cc - 1
      THEN [a EXCEPT !.fp.buf = disk[s.fp.sect], !.fp.flag = @ \ {"DIRTY"}]
      ELSE a

WritePart(s, bytes) ==
  LET ofs == s.fp.fptr % SS
      n == Lesser(SS - ofs, s.left)
      buf == [i \in Slot |-> IF i \in ofs .. ofs + n - 1
                             THEN bytes[Len(s.got) + i - ofs + 1] ELSE s.fp.buf[i]]
  IN  Accept([s EXCEPT !.fp.buf = buf, !.fp.flag = @ \cup {"DIRTY"}], bytes, n)

(* The cluster to write to, allocated when the file has none there. *)
WriteCluster(s) ==
  IF Csect(s.fp) # 0 THEN [v |-> s.v, clst |-> s.fp.clust]
  ELSE IF s.fp.fptr # 0 THEN create_chain(s.v, s.fp.clust)
  ELSE IF s.fp.sclust # 0 THEN [v |-> s.v, clst |-> s.fp.sclust]
  ELSE create_chain(s.v, 0)

WriteTo(s, bytes, sect, cc) ==
  IF cc > 0 THEN WriteSectors(s, bytes, sect, cc)
  ELSE WritePart(IF s.fp.sect # sect /\ s.fp.fptr < s.fp.objsize THEN Fill(s, sect)
                 ELSE [s EXCEPT !.fp.sect = sect], bytes)

WriteIn(s, bytes, r) ==
  IF r.clst = 0 THEN [s EXCEPT !.left = 0]
  ELSE IF r.clst = 1 THEN Abort(s)
  ELSE WriteTo(WriteBack([s EXCEPT !.v = r.v, !.fp.clust = r.clst,
                                   !.fp.sclust = IF @ = 0 THEN r.clst ELSE @]),
               bytes, clst2sect(r.clst) + Csect(s.fp),
               Lesser(s.left \div SS, CSIZE - Csect(s.fp)))

WriteStep(s, bytes) ==
  IF s.left = 0 \/ s.res # "OK" THEN s
  ELSE IF ~OnSector(s.fp) THEN WritePart(s, bytes)
  ELSE WriteIn(s, bytes, WriteCluster(s))

WriteAll(s, bytes, n) == Repeat(LAMBDA t : WriteStep(t, bytes), s, n)

f_write(n) ==
  \E bytes \in {Bytes(n)} :
  /\ IF Refusal("WRITE") # "OK"
     THEN Reply(<< "f_write", bytes >>, vol, Refusal("WRITE"), << >>) /\ UNCHANGED fp
     ELSE \E s \in {WriteAll(Transfer(n), bytes, n)} :
            /\ Reply(<< "f_write", bytes >>, s.v, s.res, << Len(s.got) >>)
            /\ fp' = IF s.res = "OK" THEN [s.fp EXCEPT !.flag = @ \cup {"MODIFIED"}]
                     ELSE s.fp
  /\ UNCHANGED dp

-----------------------------------------------------------------------------
(* f_sync(): the buffer, then the entry, then FSInfo. *)
Synced ==
  LET s == WriteBack(Transfer(0))
      e == At(s.v, fp.dir)
  IN  IF "MODIFIED" \notin fp.flag THEN Transfer(0)
      ELSE [s EXCEPT !.v = sync_fs(Put(s.v, fp.dir,
                             Entry(e.name, e.attr, fp.sclust, fp.objsize))),
                     !.fp.flag = @ \ {"MODIFIED"}]

f_sync ==
  /\ IF validate(fp)
     THEN Reply(<< "f_sync" >>, Synced.v, "OK", << >>) /\ fp' = Synced.fp
     ELSE Reply(<< "f_sync" >>, vol, "INVALID_OBJECT", << >>) /\ UNCHANGED fp
  /\ UNCHANGED dp

f_close ==
  /\ IF validate(fp)
     THEN Reply(<< "f_close" >>, Synced.v, "OK", << >>) /\ fp' = Closed
     ELSE Reply(<< "f_close" >>, vol, "INVALID_OBJECT", << >>) /\ UNCHANGED fp
  /\ UNCHANGED dp

-----------------------------------------------------------------------------
(* f_lseek().  It starts at the current cluster when that is not beyond    *)
(* the target, and else at the first one, which it may have to allocate.   *)
SeekStart(ofs) ==
  LET near == fp.fptr > 0 /\ (ofs - 1) \div CLSZ >= (fp.fptr - 1) \div CLSZ
      base == ((fp.fptr - 1) \div CLSZ) * CLSZ
      From(r) == [Transfer(ofs) EXCEPT !.v = r.v, !.fp.fptr = 0,
                    !.fp.sclust = r.clst, !.fp.clust = r.clst,
                    !.left = IF r.clst = 0 THEN 0 ELSE @]
  IN  IF near THEN [Transfer(ofs - base) EXCEPT !.fp.fptr = base]
      ELSE From(IF fp.sclust = 0 THEN create_chain(vol, 0)
                ELSE [v |-> vol, clst |-> fp.sclust])

(* One cluster further, stretching the chain of a file open for writing;   *)
(* on a full volume the seek ends where the chain does.                    *)
SeekStep(s) ==
  LET on == [s EXCEPT !.left = @ - CLSZ, !.fp.fptr = @ + CLSZ]
      Into(r) == IF r.clst = 0 /\ "WRITE" \in s.fp.flag THEN [on EXCEPT !.left = 0]
                 ELSE IF r.clst \notin Cluster THEN Abort(on)
                 ELSE [on EXCEPT !.v = r.v, !.fp.clust = r.clst]
  IN  IF s.left <= CLSZ \/ s.res # "OK" THEN s
      ELSE Into(IF "WRITE" \in s.fp.flag THEN create_chain(s.v, s.fp.clust)
                ELSE [v |-> s.v, clst |-> get_fat(s.v, s.fp.clust)])

(* The position is reached: the file may be longer now, and the buffer is  *)
(* to hold the sector the position is in, unless it is at its start.       *)
SeekEnds(s) ==
  LET sect == clst2sect(s.fp.clust) + s.left \div SS
      at == [s EXCEPT !.fp.fptr = @ + s.left]
      long == IF at.fp.fptr <= fp.objsize THEN at
              ELSE [at EXCEPT !.fp.objsize = at.fp.fptr,
                              !.fp.flag = @ \cup {"MODIFIED"}]
  IN  IF s.res # "OK" THEN s
      ELSE IF OnSector(at.fp) \/ sect = fp.sect THEN long
      ELSE Fill(WriteBack(long), sect)

f_lseek(target) ==
  LET ofs == IF "WRITE" \in fp.flag THEN target ELSE Lesser(target, fp.objsize)
      call == << "f_lseek", target >>
  IN  /\ IF ~validate(fp) THEN Reply(call, vol, "INVALID_OBJECT", << >>) /\ UNCHANGED fp
         ELSE IF fp.err # "OK" THEN Reply(call, vol, fp.err, << >>) /\ UNCHANGED fp
         ELSE \E s \in {IF ofs = 0 THEN [Transfer(0) EXCEPT !.fp.fptr = 0]
                       ELSE SeekEnds(Repeat(SeekStep, SeekStart(ofs), NCLST))} :
                Reply(call, s.v, s.res, << >>) /\ fp' = s.fp
      /\ UNCHANGED dp

(* f_truncate(): the clusters after the position are freed. *)
Truncated ==
  LET next == get_fat(vol, fp.clust)
      Without(r) ==
        LET s == [Transfer(0) EXCEPT !.v = r.v, !.fp.objsize = fp.fptr,
                    !.fp.sclust = IF fp.fptr = 0 THEN 0 ELSE @,
                    !.fp.flag = @ \cup {"MODIFIED"}]
        IN  IF r.res # "OK" THEN Abort(s) ELSE WriteBack(s)
  IN  IF fp.fptr >= fp.objsize THEN Transfer(0)
      ELSE Without(IF fp.fptr = 0 THEN remove_chain(vol, fp.sclust, 0)
                   ELSE IF next = 1 THEN [v |-> vol, res |-> "INT_ERR"]
                   ELSE IF next < n_fatent THEN remove_chain(vol, next, fp.clust)
                   ELSE [v |-> vol, res |-> "OK"])

f_truncate ==
  /\ IF Refusal("WRITE") # "OK"
     THEN Reply(<< "f_truncate" >>, vol, Refusal("WRITE"), << >>) /\ UNCHANGED fp
     ELSE \E s \in {Truncated} :
            Reply(<< "f_truncate" >>, s.v, s.res, << >>) /\ fp' = s.fp
  /\ UNCHANGED dp

-----------------------------------------------------------------------------
(* Calls by path that change no object. *)
f_stat(path) ==
  \E m \in {mount_volume(vol)} : \E w \in {follow_path(m, path)} :
  LET e == EntryAt(m, w.dir, w.dptr)
  IN  /\ Reply(<< "f_stat", path >>, m, Named(w),
               IF Named(w) = "OK" THEN << e.name, "DIR" \in e.attr, e.size >>
                                  ELSE << >>)
      /\ UNCHANGED << fp, dp >>

f_opendir(path) ==
  \E m \in {mount_volume(vol)} : \E w \in {follow_path(m, path)} :
  LET e == EntryAt(m, w.dir, w.dptr)
      res == IF w.res = "NO_FILE" THEN "NO_PATH"
             ELSE IF w.res = "OK" /\ w.name # NoName /\ "DIR" \notin e.attr
             THEN "NO_PATH" ELSE w.res
  IN  /\ Reply(<< "f_opendir", path >>, m, res, << >>)
      /\ dp' = IF res # "OK" THEN NoDir
               ELSE [id |-> m.id, dptr |-> 0, ended |-> FALSE,
                     sclust |-> IF w.name = NoName THEN 0 ELSE e.sclust]
      /\ UNCHANGED fp

(* f_readdir(): the next item, and then dir_next(), which turns the object *)
(* off at the end of the table: items that come later are not listed.      *)
f_readdir ==
  \E table \in {Table(vol, dp.sclust)} :
  LET items == {i \in Listed(table) : i >= dp.dptr}
      i == Min(items)
      end == \/ i + 1 >= MAX_DIR
             \/ i + 1 >= Room(vol, dp.sclust)
  IN  /\ IF ~validate(dp)
         THEN Reply(<< "f_readdir" >>, vol, "INVALID_OBJECT", << >>) /\ UNCHANGED dp
         ELSE IF dp.ended \/ items = {}
         THEN Reply(<< "f_readdir" >>, vol, "OK", << >>)
              /\ dp' = [dp EXCEPT !.ended = TRUE]
         ELSE Reply(<< "f_readdir" >>, vol, "OK",
                    << table[i].name >>)
              /\ dp' = [dp EXCEPT !.dptr = IF end THEN i ELSE i + 1, !.ended = end]
      /\ UNCHANGED fp

f_rewinddir ==
  /\ Reply(<< "f_rewinddir" >>, vol,
           IF validate(dp) THEN "OK" ELSE "INVALID_OBJECT", << >>)
  /\ dp' = IF validate(dp) THEN [dp EXCEPT !.dptr = 0, !.ended = FALSE] ELSE dp
  /\ UNCHANGED fp

f_closedir ==
  /\ Reply(<< "f_closedir" >>, vol,
           IF validate(dp) THEN "OK" ELSE "INVALID_OBJECT", << >>)
  /\ dp' = IF validate(dp) THEN NoDir ELSE dp
  /\ UNCHANGED fp

(* f_getfree(): counted once, then kept up to date. *)
f_getfree ==
  LET m == mount_volume(vol)
      nfree == IF m.free_clst <= NCLST THEN m.free_clst ELSE Cardinality(Free(m))
  IN  /\ IF ~m.registered
         THEN Reply(<< "f_getfree" >>, m, "NOT_ENABLED", << >>)
         ELSE Reply(<< "f_getfree" >>,
                    [m EXCEPT !.free_clst = nfree,
                              !.fsi_flag = @ \/ m.free_clst > NCLST],
                    "OK", << nfree >>)
      /\ UNCHANGED << fp, dp >>

-----------------------------------------------------------------------------
(* Calls that change the tree.  No lock keeps the caller from removing or  *)
(* renaming what is open, or from moving a directory into itself.          *)
OpenFile(place) == validate(fp) /\ fp.dir = place
OpenDir(clst) == validate(dp) /\ dp.sclust = clst

NewDir(v, clst, parent) ==
  LET top == clst2sect(clst)
  IN  Put(Put(dir_clear(v, clst), << top, 0 >>, Entry(Dot, {"DIR"}, clst, 0)),
          << top + 1 \div SS, 1 % SS >>, Entry(DotDot, {"DIR"}, parent, 0))

f_mkdir(path) ==
  \E m \in {mount_volume(vol)} :
  \E w \in {follow_path(m, path)}, r \in {create_chain(m, 0)} :
  LET call == << "f_mkdir", path >>
  IN  /\ IF w.res # "NO_FILE"
         THEN Reply(call, m, IF Named(w) = "OK" THEN "EXIST" ELSE Named(w), << >>)
         ELSE IF r.clst = 0 THEN Reply(call, m, "DENIED", << >>)
         ELSE \E new \in {dir_register(NewDir(r.v, r.clst, w.dir), w.dir, w.name)} :
                IF new.res = "OK"
                THEN Reply(call, sync_fs(Put(new.v, new.place,
                                   Entry(w.name, {"DIR"}, r.clst, 0))), "OK", << >>)
                ELSE Reply(call, [remove_chain(new.v, r.clst, 0).v EXCEPT !.wflag = TRUE],
                           new.res, << >>)
      /\ UNCHANGED << fp, dp >>

f_unlink(path) ==
  \E m \in {mount_volume(vol)} : \E w \in {follow_path(m, path)} :
  LET place == Place(m, w.dir, w.dptr)
      e == At(m, place)
      gone == dir_remove(m, place)
      Unlinked(r) == /\ ~OpenFile(place) /\ ("DIR" \in e.attr => ~OpenDir(e.sclust))
                     /\ Reply(<< "f_unlink", path >>,
                              IF r.res = "OK" THEN sync_fs(r.v)
                              ELSE [r.v EXCEPT !.wflag = TRUE], r.res, << >>)
      Refuse(res) == Reply(<< "f_unlink", path >>, m, res, << >>)
  IN  /\ IF Named(w) # "OK" THEN Refuse(Named(w))
         ELSE IF \/ "RDO" \in e.attr
                 \/ "DIR" \in e.attr /\ Listed(Table(m, e.sclust)) # {}
         THEN Refuse("DENIED")
         ELSE Unlinked(IF e.sclust = 0 THEN [v |-> gone, res |-> "OK"]
                       ELSE remove_chain(gone, e.sclust, 0))
      /\ UNCHANGED << fp, dp >>

(* f_rename(): the object gets a second entry, the ".." of a directory     *)
(* that moves is set, and the first entry goes.  A path that names the     *)
(* root leaves the old name in djn.fn.                                     *)
Renamed(m, djo, djn, new) ==
  LET place == Place(m, djo.dir, djo.dptr)
      e == At(m, place)
      copied == Put(new.v, new.place, [e EXCEPT !.name = At(new.v, new.place).name])
      dotdot == << clst2sect(e.sclust) + 1 \div SS, 1 % SS >>
  IN  dir_remove(IF "DIR" \in e.attr /\ djo.dir # djn.dir /\ At(copied, dotdot).name = DotDot
                 THEN Put(copied, dotdot, Entry(DotDot, {"DIR"}, djn.dir, 0))
                 ELSE copied, place)

f_rename(path, path2) ==
  \E m \in {mount_volume(vol)} :
  \E djo \in {follow_path(m, path)}, djn \in {follow_path(m, path2)} :
  LET same == djn.dir = djo.dir /\ djn.dptr = djo.dptr
      call == << "f_rename", path, path2 >>
  IN  /\ ~(Len(path) < Len(path2)
             /\ \A k \in DOMAIN path : create_name(path[k]) = create_name(path2[k]))
      /\ IF Named(djo) # "OK" THEN Reply(call, m, Named(djo), << >>)
         ELSE IF djn.res = "OK" /\ ~same THEN Reply(call, m, "EXIST", << >>)
         ELSE IF djn.res \notin {"OK", "NO_FILE"} THEN Reply(call, m, djn.res, << >>)
         ELSE /\ ~OpenFile(Place(m, djo.dir, djo.dptr))
              /\ \E new \in {dir_register(m, djn.dir,
                              IF djn.name = NoName THEN djo.name ELSE djn.name)} :
                   IF new.res # "OK" THEN Reply(call, new.v, new.res, << >>)
                   ELSE Reply(call, sync_fs(Renamed(m, djo, djn, new)), "OK", << >>)
      /\ UNCHANGED << fp, dp >>

-----------------------------------------------------------------------------
(* A sound card, told cluster by cluster and entry by entry: ch has the    *)
(* chains by their first clusters, tab the tables of those that are        *)
(* directories.                                                            *)
IsChain(fat, q) ==
  /\ q \in Seq(Cluster) /\ q # << >> /\ fat[q[Len(q)]] = EOC
  /\ \A k \in 1 .. Len(q) - 1 : fat[q[k]] = q[k + 1]

Chained(fat, ch) ==
  /\ fat \in [Cluster -> {0, EOC} \cup Cluster]
  /\ \A h \in DOMAIN ch : IsChain(fat, ch[h]) /\ ch[h][1] = h
  /\ \A g, h \in DOMAIN ch : \A j \in DOMAIN ch[g], k \in DOMAIN ch[h] :
       ch[g][j] = ch[h][k] => g = h /\ j = k
  /\ \A c \in Cluster : fat[c] # 0 => \E h \in DOMAIN ch : c \in ToSet(ch[h])

IdOf(h) == IF h = dirbase THEN 0 ELSE h
IsEntry(e) ==
  /\ e = Entry(e.name, e.attr, e.sclust, e.size)
  /\ e.sclust \in Cluster \cup {0} /\ e.size \in Nat

(* Nothing follows the end mark; "." and ".." come first, and no name      *)
(* comes twice.                                                            *)
TableIsSound(h, q, t) ==
  /\ DOMAIN t = 0 .. Lesser(Len(q) * CLSZ, MAX_DIR) - 1
  /\ \A i \in DOMAIN t :
       /\ IsEntry(t[i])
       /\ t[i].name = EndName => \A j \in DOMAIN t : j > i => t[j].name = EndName
       /\ t[i].name = Dot <=> h # dirbase /\ i = 0
       /\ t[i].name = DotDot <=> h # dirbase /\ i = 1
  /\ h # dirbase => /\ t[0] = Entry(Dot, {"DIR"}, h, 0)
                    /\ t[1] = Entry(DotDot, {"DIR"}, t[1].sclust, 0)
  /\ \A i, j \in Listed(t) : t[i].name = t[j].name => i = j

(* An entry is the only one of its chain, and a chain has an entry; from   *)
(* every directory the way up leads to the root.                           *)
EntryIsSound(ch, tab, h, e) ==
  IF "DIR" \in e.attr
  THEN e.sclust \in DOMAIN tab \ {dirbase} /\ tab[e.sclust][1].sclust = IdOf(h)
  ELSE IF e.sclust = 0 THEN e.size = 0
  ELSE /\ e.sclust \in DOMAIN ch \ DOMAIN tab
       /\ e.size \in (Len(ch[e.sclust]) - 1) * CLSZ + 1 .. Len(ch[e.sclust]) * CLSZ

TreeIsSound(ch, tab) ==
  /\ dirbase \in DOMAIN tab /\ DOMAIN tab \subseteq DOMAIN ch
  /\ \A h \in DOMAIN tab :
       /\ TableIsSound(h, ch[h], tab[h])
       /\ \A i \in Listed(tab[h]) : EntryIsSound(ch, tab, h, tab[h][i])
  /\ \A g, h \in DOMAIN tab : \A i \in Listed(tab[g]), j \in Listed(tab[h]) :
       tab[g][i].sclust = tab[h][j].sclust => tab[g][i].sclust = 0 \/ (g = h /\ i = j)
  /\ \A c \in DOMAIN ch \ {dirbase} :
       \E h \in DOMAIN tab : \E i \in Listed(tab[h]) : tab[h][i].sclust = c
  /\ \A X \in SUBSET (DOMAIN tab \ {dirbase}) :
       X # {} => \E h \in X : Base(tab[h][1].sclust) \notin X

TableOf(disk, q) ==
  [i \in 0 .. Lesser(Len(q) * CLSZ, MAX_DIR) - 1 |->
     disk[Slotted(q, i)[1]][Slotted(q, i)[2]]]

SoundCard(card) ==
  \E H \in SUBSET Cluster : \E D \in SUBSET H :
    LET ch == [h \in H |-> Chain(card, h)]
    IN  /\ Chained(card.fat, ch)
        /\ TreeIsSound(ch, [h \in D |-> TableOf(card.disk, ch[h])])
        /\ card.disk = [s \in Sector |-> [i \in Slot |-> card.disk[s][i]]]
        /\ card.info.free \in {Unknown, Cardinality(Free(card))}
        /\ card.info.next \in 0 .. n_fatent - 1 \cup {Unknown}
        /\ card = [fat |-> card.fat, disk |-> card.disk,
                   info |-> [free |-> card.info.free, next |-> card.info.next]]

ASSUME CallersAssumption ==
  \A c \in Callers :
    /\ SoundCard(c.card)
    /\ c.paths \subseteq Seq(Seq(STRING)) /\ c.lengths \subseteq Nat
    /\ c.modes \subseteq SUBSET {"READ", "WRITE", "CREATE_NEW", "CREATE_ALWAYS",
                                "OPEN_ALWAYS", "SEEKEND"}

Init ==
  /\ caller \in Callers
  /\ vol = [fat |-> caller.card.fat, disk |-> caller.card.disk,
            info |-> caller.card.info, registered |-> FALSE, mounted |-> FALSE,
            id |-> 0, last_clst |-> 0, free_clst |-> 0, fsi_flag |-> FALSE,
            wflag |-> FALSE]
  /\ fp = Closed /\ dp = NoDir /\ changes = 0
  /\ answer = [call |-> << "none" >>, res |-> "OK", out |-> << >>]

OnFile ==
  \/ \E n \in caller.lengths : (n > 0 /\ (f_read(n) \/ f_write(n))) \/ f_lseek(n)
  \/ f_truncate \/ f_sync \/ f_close

OnDirectory == f_readdir \/ f_rewinddir \/ f_closedir

OnTree ==
  \/ f_getfree
  \/ \E path \in caller.paths :
       \/ f_stat(path) \/ f_opendir(path) \/ f_mkdir(path) \/ f_unlink(path)
       \/ \E mode \in caller.modes : f_open(path, mode)
       \/ \E path2 \in caller.paths : f_rename(path, path2)

Next ==
  \/ OnFile \/ OnDirectory \/ OnTree
  \/ \E how \in {"now", "later", "never"} : f_mount(how)

Spec == Init /\ [][Next]_vars

-----------------------------------------------------------------------------
(* The objects on the card, as a reader finds them from the root, and what *)
(* an open file has made of its own.                                       *)
Root == [path |-> << >>, dir |-> 0, place |-> << 0, 0 >>,
         e |-> RootEntry]

In(o) ==
  LET Now(e, place) ==
        IF OpenFile(place) THEN Entry(e.name, e.attr, fp.sclust, fp.objsize) ELSE e
      Object(e, place) == [path |-> Append(o.path, e.name), dir |-> o.e.sclust,
                           place |-> place, e |-> Now(e, place)]
  IN  With(Places(vol, o.e.sclust), LAMBDA places :
        {Object(At(vol, places[i]), places[i]) :
           i \in Listed([i \in DOMAIN places |-> At(vol, places[i])])})

Objects ==
  LET Deepest(os, n) == {o \in os : "DIR" \in o.e.attr /\ Len(o.path) = n}
      within[n \in 0 .. NCLST] ==
        IF n = 0 THEN {Root}
        ELSE With(within[n - 1], LAMBDA os :
               os \cup UNION {In(o) : o \in Deepest(os, n - 1)})
  IN  within[NCLST] \ {Root}

DataOf(o) ==
  LET Item(sect, i) == IF OpenFile(o.place) /\ "DIRTY" \in fp.flag /\ fp.sect = sect
                       THEN fp.buf[i] ELSE vol.disk[sect][i]
  IN  With(Chain(vol, o.e.sclust), LAMBDA chain :
        [i \in 1 .. Lesser(o.e.size, Len(chain) * CLSZ) |->
           Item(Slotted(chain, i - 1)[1], (i - 1) % SS)])

-----------------------------------------------------------------------------
(* Type invariant *)
TypeOK ==
  /\ vol.fat \in [Cluster -> {0, EOC} \cup Cluster]
  /\ vol.free_clst \in 0 .. NCLST \cup {Unknown}
  /\ vol.last_clst \in 0 .. n_fatent - 1 \cup {Unknown}
  /\ fp.sclust \in Cluster \cup {0} /\ fp.clust \in Cluster \cup {0}
  /\ fp.sect \in Sector \cup {0} /\ fp.fptr \in 0 .. fp.objsize

(* Between any two calls, with a file open and not synchronised or not,    *)
(* the volume is sound: every cluster in use belongs to one object, as     *)
(* many to a file as its size asks for; a directory knows itself and its   *)
(* parent, and holds a name once; a free count that is known is right.     *)
VolumeIsSound ==
  LET owners == Objects \cup {[Root EXCEPT !.e.sclust = dirbase]}
      has == [o \in owners |-> Links(vol, o.e.sclust)]
  IN  /\ TypeOK
      /\ UNION Range(has) = Cluster \ Free(vol)
      /\ \A o, p \in owners : o # p => has[o] \cap has[p] = {} /\ o.path # p.path
      /\ \A o \in owners :
           /\ has[o] # {} => \E c \in has[o] : vol.fat[c] = EOC
           /\ IF "DIR" \notin o.e.attr
              THEN Cardinality(has[o]) = (o.e.size + CLSZ - 1) \div CLSZ
              ELSE /\ has[o] # {}
                   /\ o.path # << >> =>
                        /\ EntryAt(vol, o.e.sclust, 0) = Entry(Dot, {"DIR"}, o.e.sclust, 0)
                        /\ EntryAt(vol, o.e.sclust, 1) = Entry(DotDot, {"DIR"}, o.dir, 0)
      /\ vol.mounted /\ vol.free_clst # Unknown =>
           vol.free_clst = Cardinality(Free(vol))

(* What the call that has just been made left of the volume, and found.    *)
RefusalIsDue ==
  LET call == answer'.call
      left == Cardinality(Free(vol'))
      denied == answer'.res = "DENIED"
      m == mount_volume(vol)
      New(path) == follow_path(m, path).res = "NO_FILE"
      Crowded(path) == Room(m, follow_path(m, path).dir) >= MAX_DIR
  IN  /\ call[1] = "f_write" /\ answer'.res = "OK" =>
           answer'.out[1] = Len(call[2]) \/ left = 0
      /\ call[1] = "f_lseek" /\ answer'.res = "OK" /\ "WRITE" \in fp.flag =>
           fp'.fptr = call[2] \/ left = 0
      /\ call[1] = "f_open" /\ denied /\ New(call[2]) => left = 0 \/ Crowded(call[2])
      /\ call[1] = "f_mkdir" /\ denied => left <= 1 \/ Crowded(call[2])
      /\ call[1] = "f_rename" /\ denied => left = 0 \/ Crowded(call[3])

(* A call that wants room is refused, or does less than it was asked to,   *)
(* only when the volume is full, or the directory it would put an entry    *)
(* into: f_write(), f_lseek() past the end, f_open() of a new file,        *)
(* f_mkdir(), which needs a second cluster when the directory's table is   *)
(* full, and f_rename(), which needs an entry although the object has one. *)
RefusedOnlyWhenFull == [][RefusalIsDue]_vars

-----------------------------------------------------------------------------
(* Clusters, sectors and buffers implement the tree of files. *)
PathOf(os) ==
  With({o.path : o \in os}, LAMBDA paths :
    IF paths = {} THEN << >> ELSE CHOOSE p \in paths : TRUE)

Tree ==
  LET Object(o) == [dir |-> "DIR" \in o.e.attr, rdo |-> "RDO" \in o.e.attr,
                    data |-> DataOf(o)]
  IN  With(Objects, LAMBDA objects :
        [p \in {o.path : o \in objects} |->
           Object(CHOOSE o \in objects : o.path = p)])

TheFile ==
  IF ~validate(fp) THEN [path |-> << >>, pos |-> 0, mode |-> {}]
  ELSE [path |-> PathOf({o \in Objects : o.place = fp.dir}), pos |-> fp.fptr,
        mode |-> fp.flag \ {"DIRTY", "MODIFIED"}]

TheList ==
  IF ~validate(dp) THEN [open |-> FALSE, path |-> << >>, todo |-> {}]
  ELSE [open |-> TRUE,
        path |-> IF dp.sclust = 0 THEN << >>
                 ELSE PathOf({o \in Objects : o.e.sclust = dp.sclust}),
        todo |-> IF dp.ended THEN {}
                 ELSE With(Table(vol, dp.sclust), LAMBDA table :
                        {table[i].name : i \in {i \in Listed(table) : i >= dp.dptr}})]

Files == INSTANCE FileTree WITH
  NameOf <- create_name, MaxLength <- NCLST * CLSZ,
  enabled <- vol.registered, tree <- Tree, file <- TheFile, list <- TheList

FileTreeSpec == Files!Spec
=============================================================================

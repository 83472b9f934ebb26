---------------------------- MODULE MCFatVolume ----------------------------
(***************************************************************************)
(* A volume of a few clusters, and two applications for it: one works on   *)
(* the bytes of a file, the other on the tree.                             *)
(***************************************************************************)
EXTENDS FatVolume

a == << "a" >>
A == << "A" >>
bc == << "b", ".", "c" >>
long == << "a", "b", "c" >>

Named_a == << << "A" >>, << >> >>
Named_bc == << << "B" >>, << "C" >> >>
Named_c == << << "C" >>, << >> >>
Label == Entry(<< << "V" >>, << >> >>, {"VOL"}, 0, 0)

(* Formatted, with the volume's label, and with or without hints. *)
Formatted(hint) ==
  [fat |-> [c \in Cluster |-> IF c = dirbase THEN EOC ELSE 0],
   disk |-> [s \in Sector |->
               IF s > CSIZE THEN [i \in Slot |-> Zero]
               ELSE [i \in Slot |-> IF s = 1 /\ i = 0 THEN Label ELSE NoEntry]],
   info |-> hint]

(* A file that an earlier session left, on the given clusters. *)
WithFile(card, name, attr, chain, size) ==
  [card EXCEPT
     !.fat = [c \in Cluster |->
                IF c \notin {chain[k] : k \in DOMAIN chain} THEN @[c]
                ELSE LET k == CHOOSE k \in DOMAIN chain : chain[k] = c
                     IN  IF k = Len(chain) THEN EOC ELSE chain[k + 1]],
     !.disk[1][1] = Entry(name, attr, IF chain = << >> THEN 0 ELSE chain[1], size),
     !.info.free = IF @ = Unknown THEN @ ELSE @ - Len(chain)]

NoHint == [free |-> Unknown, next |-> Unknown]
Hint0 == [free |-> NCLST - 1, next |-> 2]

(* Two clusters are left to the file, which is new. *)
BytesCaller ==
  [card |-> WithFile(Formatted(Hint0), Named_bc, {"RDO"}, << 4 >>, 1),
   calls |-> {"f_mount", "f_open", "f_read", "f_write", "f_lseek", "f_truncate"},
   paths |-> {<< a >>},
   modes |-> {{"READ", "WRITE", "OPEN_ALWAYS"}},
   lengths |-> {0, 1, 3, 9}, mounts |-> 1, changes |-> 2]

(* The file is there, on clusters that lie the wrong way round. *)
SyncCaller ==
  [card |-> WithFile(Formatted(NoHint), Named_a, {}, << 5, 3 >>, 6),
   calls |-> {"f_mount", "f_open", "f_read", "f_write", "f_sync", "f_close", "f_stat"},
   paths |-> {<< a >>},
   modes |-> {{"READ"}, {"WRITE", "OPEN_ALWAYS", "SEEKEND"},
              {"READ", "WRITE", "CREATE_ALWAYS"}},
   lengths |-> {3}, mounts |-> 2, changes |-> 3]

TreeCaller ==
  [card |-> WithFile(Formatted(Hint0), Named_c, {}, << >>, 0),
   calls |-> {"f_mount", "f_open", "f_close", "f_mkdir", "f_unlink", "f_rename"},
   paths |-> {<< a >>, << bc >>, << A, bc >>},
   modes |-> {{"WRITE", "CREATE_NEW"}},
   lengths |-> {}, mounts |-> 1, changes |-> 4]

ListCaller ==
  [card |-> WithFile(Formatted(NoHint), Named_bc, {"RDO"}, << 4 >>, 1),
   calls |-> {"f_mount", "f_opendir", "f_readdir", "f_rewinddir", "f_closedir",
              "f_getfree", "f_mkdir", "f_unlink"},
   paths |-> {<< >>, << a >>, << A, bc >>, << a, long >>},
   modes |-> {},
   lengths |-> {}, mounts |-> 1, changes |-> 4]

(* Every cluster is in use, and every entry of the root. *)
FullCaller ==
  [card |-> [WithFile(Formatted(NoHint), Named_bc, {}, << 4, 3, 5 >>, 12)
               EXCEPT !.disk[2] = [i \in Slot |-> IF i = 0 THEN Entry(Named_c, {"RDO"}, 0, 0)
                                               ELSE Entry(<< << "A", "B" >>, << >> >>, {}, 0, 0)]],
   calls |-> {"f_mount", "f_open", "f_read", "f_close", "f_mkdir", "f_unlink", "f_rename"},
   paths |-> {<< a >>, << bc >>},
   modes |-> {{"READ"}, {"WRITE", "CREATE_NEW"}},
   lengths |-> {9}, mounts |-> 1, changes |-> 3]

MCCallers == {BytesCaller, SyncCaller, TreeCaller, ListCaller, FullCaller}
=============================================================================

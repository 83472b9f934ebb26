------------------------------ MODULE FileTree ------------------------------
(***************************************************************************)
(* What the calls of FatFs promise a single caller, whatever clusters,     *)
(* sectors and buffers they use: a tree of directories and files, at most  *)
(* one file and one directory of it open.  answer holds the last call with *)
(* what it returned; the rest of the state is what the calls are about.    *)
(* A call that needs room may be refused, which FatVolume makes precise.   *)
(***************************************************************************)
EXTENDS Naturals, SequencesExt, FiniteSets, TLC

CONSTANTS
  NameOf(_),    \* the name that a segment stands for
  NoName,       \* ... when it is not a name
  MaxLength     \* no file is longer

VARIABLES
  enabled,      \* f_mount() registered the volume
  tree,         \* the objects by path; the root is always there
  file,         \* the open file: path, position, flags
  list,         \* the open directory: path, names it has yet to list
  answer        \* call, res, out

treeVars == << enabled, tree, file, list, answer >>

NoFile == [path |-> << >>, pos |-> 0, mode |-> {}]
NoList == [open |-> FALSE, path |-> << >>, todo |-> {}]

Dir == [dir |-> TRUE, rdo |-> FALSE, data |-> << >>]
EmptyFile == [dir |-> FALSE, rdo |-> FALSE, data |-> << >>]

Names(p) == [k \in DOMAIN p |-> NameOf(p[k])]
IsDir(t, q) == q = << >> \/ (q \in DOMAIN t /\ t[q].dir)
Inside(t, q) == {c \in DOMAIN t : IsStrictPrefix(q, c)}
Content(t, q) == {Last(c) : c \in {c \in Inside(t, q) : Len(c) = Len(q) + 1}}

(* Following the names q from the root: the first one that leads nowhere   *)
(* decides.                                                                *)
Lookup(t, q) ==
  LET Wrong(k) == \/ ~IsDir(t, SubSeq(q, 1, k - 1)) \/ q[k] = NoName
                  \/ SubSeq(q, 1, k) \notin DOMAIN t
      k == CHOOSE k \in DOMAIN q : Wrong(k) /\ \A j \in 1 .. k - 1 : ~Wrong(j)
  IN  IF ~enabled THEN "NOT_ENABLED"
      ELSE IF q = << >> THEN "ROOT"
      ELSE IF \A j \in DOMAIN q : ~Wrong(j) THEN "OK"
      ELSE IF ~IsDir(t, SubSeq(q, 1, k - 1)) THEN "NO_PATH"
      ELSE IF q[k] = NoName THEN "INVALID_NAME"
      ELSE IF k = Len(q) THEN "NO_FILE" ELSE "NO_PATH"

Error(r) == IF r = "ROOT" THEN "INVALID_NAME" ELSE r

Called(call) == answer'.call = call
Returned(res, out) == answer'.res = res /\ answer'.out = out
Refused(t, res) == Returned(res, << >>) /\ tree' = t /\ UNCHANGED << file, list >>

(* A name that comes into a directory may or may not be listed by a caller *)
(* that is in the middle of it.                                            *)
Appears(q) ==
  list' \in {list} \cup
    IF list.open /\ list.path = Front(q)
    THEN {[list EXCEPT !.todo = @ \cup {Last(q)}]} ELSE {}

-----------------------------------------------------------------------------
Mount(t, how) ==
  /\ Called(<< "f_mount", how >>) /\ Returned("OK", << >>)
  /\ enabled' = (how # "never")
  /\ file' = NoFile /\ list' = NoList /\ tree' = t

Open(t, p, mode) ==
  LET q == Names(p)
      r == Lookup(t, q)
      create == mode \cap {"CREATE_NEW", "CREATE_ALWAYS", "OPEN_ALWAYS"} # {}
      old == t[q]
      refusal ==
        CASE r = "OK" /\ create ->
               IF "CREATE_NEW" \in mode THEN {"EXIST"}
               ELSE IF old.dir \/ old.rdo THEN {"DENIED"} ELSE {}
          [] r = "OK" /\ ~create ->
               IF old.dir THEN {"NO_FILE"}
               ELSE IF old.rdo /\ "WRITE" \in mode THEN {"DENIED"} ELSE {}
          [] r = "NO_FILE" /\ create -> {"DENIED"}
          [] OTHER -> {Error(r)}
      opened == IF r = "OK" /\ "CREATE_ALWAYS" \notin mode THEN old ELSE EmptyFile
  IN  /\ file = NoFile
      /\ Called(<< "f_open", p, mode >>)
      /\ \/ \E e \in refusal : Refused(t, e)
         \/ /\ refusal = {} \/ (r = "NO_FILE" /\ create)
            /\ Returned("OK", << >>)
            /\ tree' = (q :> opened) @@ t
            /\ file' = [path |-> q, mode |-> mode,
                        pos |-> IF "SEEKEND" \in mode THEN Len(opened.data) ELSE 0]
            /\ IF r = "OK" THEN UNCHANGED list ELSE Appears(q)
      /\ UNCHANGED enabled

-----------------------------------------------------------------------------
(* Calls on the file: refused when none is open, or not in the right mode. *)
WithData(t, f, data) == [t EXCEPT ![f.path].data = data]
InMode(t, flag, call) ==
  /\ Called(call)
  /\ IF file = NoFile THEN Refused(t, "INVALID_OBJECT")
     ELSE flag \notin file.mode /\ Refused(t, "DENIED")

Read(t, n) ==
  LET f == file
      data == t[f.path].data
      last == IF f.pos + n < Len(data) THEN f.pos + n ELSE Len(data)
  IN  \/ InMode(t, "READ", << "f_read", n >>)
      \/ /\ Called(<< "f_read", n >>) /\ "READ" \in f.mode
         /\ Returned("OK", SubSeq(data, f.pos + 1, last))
         /\ file' = [f EXCEPT !.pos = last]
         /\ tree' = t /\ UNCHANGED list

(* What is accepted of the bytes takes the place of what was there. *)
Write(t, bytes) ==
  LET f == file
      data == t[f.path].data
  IN  \/ InMode(t, "WRITE", << "f_write", bytes >>)
      \/ /\ Called(<< "f_write", bytes >>) /\ "WRITE" \in f.mode
         /\ \E k \in 0 .. Len(bytes) :
              /\ Returned("OK", << k >>)
              /\ tree' = WithData(t, f, SubSeq(data, 1, f.pos) \o SubSeq(bytes, 1, k)
                                        \o SubSeq(data, f.pos + k + 1, Len(data)))
              /\ file' = [f EXCEPT !.pos = @ + k]
         /\ UNCHANGED list

(* Seeking beyond the end makes a file longer, by bytes nobody chose.      *)
Seek(t, ofs) ==
  LET f == file
      data == t[f.path].data
      new == tree'[f.path].data
  IN  /\ Called(<< "f_lseek", ofs >>)
      /\ IF f = NoFile THEN Refused(t, "INVALID_OBJECT")
         ELSE /\ Returned("OK", << >>) /\ UNCHANGED list
              /\ IF ofs <= Len(data)
                 THEN file' = [f EXCEPT !.pos = ofs] /\ tree' = t
                 ELSE \E pos \in Len(data) .. ofs :
                        /\ "WRITE" \notin f.mode => pos = Len(data)
                        /\ file' = [f EXCEPT !.pos = pos]
                        /\ DOMAIN tree' = DOMAIN t
                        /\ tree' = WithData(t, f, new)
                        /\ Len(new) = pos /\ IsPrefix(data, new)

Truncate(t) ==
  LET f == file
  IN  \/ InMode(t, "WRITE", << "f_truncate" >>)
      \/ /\ Called(<< "f_truncate" >>) /\ "WRITE" \in f.mode
         /\ Returned("OK", << >>) /\ UNCHANGED << file, list >>
         /\ tree' = WithData(t, f, SubSeq(t[f.path].data, 1, f.pos))

Sync(t) ==
  /\ Called(<< "f_sync" >>)
  /\ Refused(t, IF file = NoFile THEN "INVALID_OBJECT" ELSE "OK")

Close(t) ==
  /\ Called(<< "f_close" >>)
  /\ Returned(IF file = NoFile THEN "INVALID_OBJECT" ELSE "OK", << >>)
  /\ file' = NoFile /\ tree' = t /\ UNCHANGED list

-----------------------------------------------------------------------------
(* The length of a file that is open may be that of its last f_sync(). *)
Stat(t, p) ==
  LET q == Names(p)
  IN  /\ Called(<< "f_stat", p >>) /\ tree' = t /\ UNCHANGED << file, list >>
      /\ IF Lookup(t, q) # "OK" THEN Returned(Error(Lookup(t, q)), << >>)
         ELSE \E length \in 0 .. MaxLength :
                /\ q # file.path => length = Len(t[q].data)
                /\ Returned("OK", << Last(q), t[q].dir, length >>)

OpenDir(t, p) ==
  LET q == Names(p)
      r == Lookup(t, q)
      error == IF r = "NO_FILE" \/ (r = "OK" /\ ~IsDir(t, q)) THEN "NO_PATH" ELSE r
  IN  /\ Called(<< "f_opendir", p >>) /\ tree' = t /\ UNCHANGED file
      /\ IF error \in {"OK", "ROOT"}
         THEN /\ Returned("OK", << >>)
              /\ list' = [open |-> TRUE, path |-> q, todo |-> Content(t, q)]
         ELSE Returned(error, << >>) /\ list' = NoList

(* Each name once, and the empty one when no name is left. *)
ReadDir(t) ==
  /\ Called(<< "f_readdir" >>) /\ tree' = t /\ UNCHANGED file
  /\ IF ~list.open THEN Returned("INVALID_OBJECT", << >>) /\ UNCHANGED list
     ELSE IF list.todo = {} THEN Returned("OK", << >>) /\ UNCHANGED list
     ELSE \E n \in list.todo : /\ Returned("OK", << n >>)
                               /\ list' = [list EXCEPT !.todo = @ \ {n}]

RewindDir(t) ==
  /\ Called(<< "f_rewinddir" >>) /\ tree' = t /\ UNCHANGED file
  /\ IF ~list.open THEN Returned("INVALID_OBJECT", << >>) /\ UNCHANGED list
     ELSE /\ Returned("OK", << >>)
          /\ list' = [list EXCEPT !.todo = Content(t, list.path)]

CloseDir(t) ==
  /\ Called(<< "f_closedir" >>) /\ tree' = t /\ UNCHANGED file
  /\ Returned(IF list.open THEN "OK" ELSE "INVALID_OBJECT", << >>)
  /\ list' = NoList

-----------------------------------------------------------------------------
MakeDir(t, p) ==
  LET q == Names(p)
      r == Lookup(t, q)
  IN  /\ Called(<< "f_mkdir", p >>)
      /\ CASE r = "NO_FILE" ->
                \/ Refused(t, "DENIED")
                \/ /\ Returned("OK", << >>) /\ Appears(q)
                   /\ tree' = (q :> Dir) @@ t /\ UNCHANGED file
           [] r = "OK" -> Refused(t, "EXIST")
           [] OTHER -> Refused(t, Error(r))

Unlink(t, p) ==
  LET q == Names(p)
      r == Lookup(t, q)
  IN  /\ Called(<< "f_unlink", p >>)
      /\ IF r # "OK" THEN Refused(t, Error(r))
         ELSE IF t[q].rdo \/ Inside(t, q) # {} THEN Refused(t, "DENIED")
         ELSE /\ Returned("OK", << >>) /\ UNCHANGED file
              /\ tree' = [c \in DOMAIN t \ {q} |-> t[c]]
              /\ list' = IF list.path = Front(q)
                         THEN [list EXCEPT !.todo = @ \ {Last(q)}] ELSE list

(* An object moves with all it holds.  Renamed to itself it may be listed  *)
(* again, or not at all; to the root it stays what it is, if it can.       *)
Rename(t, p, p2) ==
  LET q == Names(p)
      r == Lookup(t, q)
      to == Names(p2)
      r2 == Lookup(t, to)
      Moved(c) == IF IsPrefix(q, c) THEN to \o SubSeq(c, Len(q) + 1, Len(c)) ELSE c
      listed == [list EXCEPT !.path = Moved(@),
                             !.todo = IF list.path = Front(q) THEN @ \ {Last(q)} ELSE @]
  IN  /\ Called(<< "f_rename", p, p2 >>)
      /\ \/ r # "OK" /\ Refused(t, Error(r))
         \/ /\ r = "OK" /\ r2 \notin {"OK", "ROOT", "NO_FILE"}
            /\ Refused(t, r2)
         \/ r = "OK" /\ to # q /\ r2 \in {"OK", "ROOT"} /\ Refused(t, "EXIST")
         \/ /\ r = "OK" /\ (r2 = "NO_FILE" \/ to = q \/ (r2 = "ROOT" /\ Len(q) = 1))
            /\ Refused(t, "DENIED")
         \/ /\ r = "OK" /\ (to = q \/ (r2 = "ROOT" /\ Len(q) = 1))
            /\ Returned("OK", << >>) /\ tree' = t /\ UNCHANGED file
            /\ list' \in {list, [list EXCEPT !.todo = @ \ {Last(q)}]} \cup
                 IF list.open /\ list.path = Front(q)
                 THEN {[list EXCEPT !.todo = @ \cup {Last(q)}]} ELSE {}
         \/ /\ r = "OK" /\ r2 = "NO_FILE"
            /\ Returned("OK", << >>)
            /\ tree' = [c \in {Moved(d) : d \in DOMAIN t} |->
                          t[CHOOSE d \in DOMAIN t : Moved(d) = c]]
            /\ file' = [file EXCEPT !.path = Moved(@)]
            /\ list' \in {listed} \cup
                 IF list.open /\ listed.path = Front(to)
                 THEN {[listed EXCEPT !.todo = @ \cup {Last(to)}]} ELSE {}

GetFree(t) ==
  /\ Called(<< "f_getfree" >>) /\ tree' = t /\ UNCHANGED << file, list >>
  /\ answer'.res = IF enabled THEN "OK" ELSE "NOT_ENABLED"

-----------------------------------------------------------------------------
Init == file = NoFile /\ list = NoList /\ DOMAIN answer = {"call", "res", "out"}

Next ==
  LET t == tree
      call == answer'.call
      op == call[1]
  IN  \/ op = "f_mount" /\ Mount(t, call[2])
      \/ op = "f_open" /\ Open(t, call[2], call[3])
      \/ /\ UNCHANGED enabled
         /\ \/ op = "f_read" /\ Read(t, call[2])
            \/ op = "f_write" /\ Write(t, call[2])
            \/ op = "f_lseek" /\ Seek(t, call[2])
            \/ op = "f_stat" /\ Stat(t, call[2])
            \/ op = "f_opendir" /\ OpenDir(t, call[2])
            \/ op = "f_mkdir" /\ MakeDir(t, call[2])
            \/ op = "f_unlink" /\ Unlink(t, call[2])
            \/ op = "f_rename" /\ Rename(t, call[2], call[3])
            \/ op = "f_truncate" /\ Truncate(t)
            \/ op = "f_sync" /\ Sync(t)
            \/ op = "f_close" /\ Close(t)
            \/ op = "f_readdir" /\ ReadDir(t)
            \/ op = "f_rewinddir" /\ RewindDir(t)
            \/ op = "f_closedir" /\ CloseDir(t)
            \/ op = "f_getfree" /\ GetFree(t)

Spec == Init /\ [][Next]_treeVars
=============================================================================

---------------------------- MODULE BlockDevice ----------------------------
(***************************************************************************)
(* What FatFs expects of a disk: a request transfers its blocks in order,  *)
(* a read returns what the disk holds, and a request that fails has        *)
(* transferred some first part of its blocks and nothing else.  A disk     *)
(* that was exchanged serves no request before it is attached.             *)
(***************************************************************************)
EXTENDS Naturals, Sequences

CONSTANTS Block, Content

VARIABLES
  blocks,    \* what the disk holds
  attached,
  req,       \* the request being served, Idle if none
  done,      \* blocks of it transferred so far
  got,       \* what they held, for a read
  res        \* how the last request ended

deviceVars == << blocks, attached, req, done, got, res >>

Idle == [op |-> "idle", sector |-> 0, count |-> 0, data |-> << >>]

Init ==
  /\ blocks \in [Block -> Content]
  /\ attached = FALSE
  /\ req = Idle /\ done = 0 /\ got = << >>
  /\ res = [st |-> "NONE", data |-> << >>]

Attach == attached' = TRUE /\ UNCHANGED << blocks, req, done, got, res >>

Request ==
  /\ req = Idle
  /\ req' \in [op : {"read", "write"}, sector : Block, count : Nat \ {0},
               data : Seq(Content)]
  /\ req'.sector + req'.count - 1 \in Block
  /\ Len(req'.data) = IF req'.op = "write" THEN req'.count ELSE 0
  /\ done' = 0 /\ got' = << >>
  /\ res' = [st |-> "NONE", data |-> << >>]
  /\ UNCHANGED << blocks, attached >>

Written == [blocks EXCEPT ![req.sector + done] = req.data[done + 1]]

Transfer ==
  /\ attached /\ done < req.count
  /\ done' = done + 1
  /\ IF req.op = "write"
     THEN blocks' = Written /\ UNCHANGED got
     ELSE got' = Append(got, blocks[req.sector + done]) /\ UNCHANGED blocks
  /\ UNCHANGED << attached, req, res >>

End(st, data) ==
  /\ req # Idle
  /\ req' = Idle /\ done' = 0 /\ got' = << >>
  /\ res' = [st |-> st, data |-> data]
  /\ UNCHANGED attached

Succeed == done = req.count /\ End("OK", got) /\ UNCHANGED blocks

(* The block that fails may have been written.                             *)
Fail ==
  /\ End("ERROR", << >>)
  /\ \/ UNCHANGED blocks
     \/ attached /\ req.op = "write" /\ done < req.count /\ blocks' = Written

(* The host is reset: the request is forgotten, the disk keeps its blocks. *)
Detach ==
  /\ attached' = FALSE /\ req' = Idle /\ done' = 0 /\ got' = << >>
  /\ res' = [st |-> "NONE", data |-> << >>]
  /\ UNCHANGED blocks

Exchange ==
  /\ attached' = FALSE /\ blocks' \in [Block -> Content]
  /\ UNCHANGED << req, done, got, res >>

Next == \/ Attach \/ Request \/ Transfer \/ Succeed \/ Fail
        \/ Detach \/ Exchange

Spec == Init /\ [][Next]_deviceVars
=============================================================================

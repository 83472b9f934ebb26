----------------------------- MODULE DurableLog -----------------------------
(***************************************************************************)
(* What logging to a card promises: a file on the card is never lost or    *)
(* changed, and the one being written only grows, at the moments its       *)
(* directory entry reaches the card, to what was written to it by then.    *)
(* Losing power loses what has not been committed, and nothing else.       *)
(***************************************************************************)
EXTENDS Naturals, Sequences, SequencesExt

CONSTANTS Names, Item

VARIABLES
  files,       \* what the card holds: contents by name
  log          \* what the program is writing: a name and the contents so far

logVars == << files, log >>

NoLog == [name |-> 0, text |-> << >>]

Init ==
  /\ \E held \in SUBSET Names : files \in [held -> Seq(Item)]
  /\ log = NoLog

(* A log begins under a name that the card does not hold. *)
Begin ==
  /\ log = NoLog
  /\ \E n \in Names \ DOMAIN files : log' = [name |-> n, text |-> << >>]
  /\ UNCHANGED files

Write ==
  /\ log # NoLog
  /\ log' \in [name : {log.name}, text : Seq(Item)]
  /\ IsStrictPrefix(log.text, log'.text)
  /\ UNCHANGED files

(* Some of what was written reaches the card, never less than before. *)
Commit ==
  /\ log # NoLog
  /\ \E len \in 0 .. Len(log.text) :
       /\ log.name \in DOMAIN files => len >= Len(files[log.name])
       /\ files' = [n \in DOMAIN files \cup {log.name} |->
                     IF n = log.name THEN SubSeq(log.text, 1, len) ELSE files[n]]
  /\ UNCHANGED log

Lose == log' = NoLog /\ UNCHANGED files

Next == Begin \/ Write \/ Commit \/ Lose

Spec == Init /\ [][Next]_logVars
=============================================================================

----------------------------- MODULE MCDatalog -----------------------------
(***************************************************************************)
(* Small cards for Datalog: names and directories of a few files, two      *)
(* slots to the sector.                                                    *)
(***************************************************************************)
EXTENDS Datalog

MCNames == 1 .. MaxName
NoOldFiles == {0}
MCOldFiles == {0, 1}
=============================================================================

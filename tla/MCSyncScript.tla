---------------------------- MODULE MCSyncScript ----------------------------
(***************************************************************************)
(* Instances of SyncScript for TLC: two files of one page (Notes.md and    *)
(* notes.md) and one with a blank in its name ("notes.md old.md"), whose   *)
(* events are read as those of notes.md; a text with a newline at its end, *)
(* and one that is an @ and the name of a file.                            *)
(***************************************************************************)
EXTENDS SyncScript, TLC

CONSTANTS Upper, Lower, Blank, notes, line, at

MCPageOf == Upper :> notes @@ Lower :> notes @@ Blank :> None
MCReadAs == Upper :> Upper @@ Lower :> Lower @@ Blank :> Lower
MCBody == line :> "without newline" @@ at :> at
MCNamed == at :> Lower
=============================================================================

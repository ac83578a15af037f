---- MODULE MCLedgers ----
(* Files and require side by side: what each counts while finalisers, errors and *)
(* calls back come between its steps.  They share no variable, each behaviour    *)
(* moves one of them, and the states are the sum of theirs.                      *)
EXTENDS Files, Require, TLC

VARIABLE part

LedgersInit ==
    /\ part \in {"files", "require"}
    /\ FilesInit /\ RequireInit
    /\ part = "require" => disk = {} /\ account.ranged

LedgersNext ==
    /\ UNCHANGED part
    /\ \/ part = "files" /\ FilesNext /\ UNCHANGED requireVars
       \/ part = "require" /\ RequireNext /\ UNCHANGED filesVars

LedgersSpec == LedgersInit /\ [][LedgersNext]_<<part, filesVars, requireVars>>

(* Handles exchanged, or modules: a behaviour moves one of the two parts, and    *)
(* only the exchange in that one changes its states.                             *)
Symmetry == Permutations(FileSlots) \cup Permutations(Modules)
====

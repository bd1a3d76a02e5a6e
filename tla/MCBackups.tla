----------------------------- MODULE MCBackups ------------------------------
(* Backups with one run of each scheduled kind to keep. *)
EXTENDS Backups

KeepOne == [k \in Kinds |-> 1]
=============================================================================

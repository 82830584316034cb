------------------------------ MODULE MCFiles -------------------------------
(* A file being written and CURRENT being set, which share no state: a     *)
(* part moves while the other is in one of its initial states.             *)
EXTENDS WritableFile, CurrentFile, TLC

FilesInit == Init /\ CurrentInit
FilesNext ==
  \/ CurrentInit /\ number = 1 /\ Next /\ UNCHANGED currentVars
  \/ Init /\ ~is_manifest_ /\ CurrentNext /\ UNCHANGED vars

FilesSpec == FilesInit /\ [][FilesNext]_<<vars, currentVars>>

Symmetry == Permutations(Inode)
=============================================================================

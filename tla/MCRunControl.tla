---------------------------- MODULE MCRunControl ----------------------------
(***************************************************************************)
(* Small instances of RunControl for TLC.  Processes are interchangeable.  *)
(***************************************************************************)
EXTENDS RunControl, TLC

ProcSymmetry == Permutations(Procs)
=============================================================================

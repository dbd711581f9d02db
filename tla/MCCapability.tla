---------------------------- MODULE MCCapability ----------------------------
(***************************************************************************)
(* A small instance of Capability for TLC.                                 *)
(***************************************************************************)
EXTENDS Capability, TLC

CONSTANTS m1, m2, m3

\* Two models whose ids make the same file name, and one with its own.
MCFileOf == m1 :> "f" @@ m2 :> "f" @@ m3 :> "g"

MCRungs == <<819, 4001>>

MCTrialOutcomes ==
  {[source |-> "native", applied |-> TRUE], [source |-> "json-mode-only", applied |-> FALSE]}
=============================================================================

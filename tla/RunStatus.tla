------------------------------ MODULE RunStatus ------------------------------
(***************************************************************************)
(* The statuses of a run and the transitions the runtime accepts, from     *)
(* packages/runtime/src/run-state.ts.  Every module that moves a run       *)
(* through its life extends this one: the table is the only arbiter of     *)
(* what `transition` accepts, and `transition` throws on anything else.    *)
(***************************************************************************)

RunStatuses ==
  {"CREATED", "UNDERSTANDING", "PLANNING", "INSPECTING", "ACTING", "EDITING",
   "VERIFYING", "REPAIRING", "AWAITING_APPROVAL", "COMMITTING", "DONE",
   "PAUSED", "ESCALATED", "FAILED", "CANCELLED"}

TerminalStates == {"DONE", "FAILED", "CANCELLED"}

\* The edges of the table, one row per source status.
HappyPathEdges ==
  [s \in RunStatuses |->
     CASE s = "CREATED"           -> {"UNDERSTANDING"}
       [] s = "UNDERSTANDING"     -> {"PLANNING", "INSPECTING"}
       [] s = "PLANNING"          -> {"INSPECTING"}
       [] s = "INSPECTING"        -> {"ACTING"}
       [] s = "ACTING"            -> {"ACTING", "EDITING", "VERIFYING", "DONE"}
       [] s = "EDITING"           -> {"ACTING", "EDITING", "VERIFYING"}
       [] s = "VERIFYING"         -> {"REPAIRING", "AWAITING_APPROVAL", "DONE",
                                      "ESCALATED", "FAILED"}
       [] s = "REPAIRING"         -> {"EDITING"}
       [] s = "AWAITING_APPROVAL" -> {"COMMITTING", "CANCELLED", "ESCALATED"}
       [] s = "COMMITTING"        -> {"DONE"}
       [] OTHER                   -> {}]

EscapeHatches == {"PAUSED", "ESCALATED", "FAILED", "CANCELLED"}

\* Mutant: nothing guards the statuses that end a run.
CanLeaveTerminal(from, to) ==
  \/ to \in HappyPathEdges[from]
  \/ from # "PAUSED" /\ to \in EscapeHatches
  \/ from = "PAUSED"

\* A paused run may be resumed into any status: the caller decides which.
CanTransition(from, to) ==
  /\ from \notin TerminalStates
  /\ \/ to \in HappyPathEdges[from]
     \/ from # "PAUSED" /\ to \in EscapeHatches
     \/ from = "PAUSED"
=============================================================================

----------------------------- MODULE MCAgentLoop -----------------------------
(***************************************************************************)
(* Small instances of AgentLoop for TLC.                                   *)
(***************************************************************************)
EXTENDS AgentLoop, TLC

KindOf == "edit" :> "write" @@ "undo" :> "write" @@ "new" :> "write"
          @@ "sh" :> "shell" @@ "look" :> "read"

\* "new" writes the path g, which the base commit does not have; the others f.
MCKind   == [c \in Calls |-> KindOf[c]]
MCTarget == [c \in Calls |-> IF c = "new" THEN "g" ELSE "f"]
MCBase   == [x \in Files |-> IF x \in Tracked THEN "v0" ELSE "absent"]

\* The statistic of a diff tells a change from none, not one change from another.
MCStatOf == [v \in Versions |-> IF v = "v0" THEN "" ELSE "1 +-"]
=============================================================================

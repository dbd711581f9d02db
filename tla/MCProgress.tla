----------------------------- MODULE MCProgress -----------------------------
(***************************************************************************)
(* AgentLoop with a history of what the worktree really held when each     *)
(* turn ended, to compare with what the no-progress detector concludes     *)
(* from diff statistics.                                                   *)
(***************************************************************************)
EXTENDS MCAgentLoop

VARIABLE seen

HistoryInit == Init /\ seen = <<>>

HistoryNext ==
  /\ Next
  /\ seen' = IF pc = "batch" /\ left = 0
             THEN PushBounded(seen, content, NoProgressWindow)
             ELSE seen

HistorySpec == HistoryInit /\ [][HistoryNext]_<<vars, seen>>

\* "No file/verification-state change over a window of steps" (loop-detector.ts):
\* a run escalated for no progress really ended its last turns, as many as the
\* window, with the same files.
NoProgressIsReal ==
  status = "ESCALATED" /\ escalationReason = "no-progress" =>
    \A i \in DOMAIN seen : seen[i] = seen[1]
=============================================================================

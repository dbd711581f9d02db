--------------------------- MODULE AgentLoopProofs ---------------------------
(***************************************************************************)
(* Proofs about AgentLoop, for every value of its constants.               *)
(***************************************************************************)
EXTENDS AgentLoop, SequenceTheorems, TLAPS

\* push-then-shift keeps a history a sequence of its elements.
LEMMA PushBoundedType ==
  ASSUME NEW S, NEW h \in Seq(S), NEW x \in S, NEW b
  PROVE  PushBounded(h, x, b) \in Seq(S)
<1>1. Append(h, x) \in Seq(S) /\ Append(h, x) # <<>>
  BY AppendProperties
<1>2. Tail(Append(h, x)) \in Seq(S)
  BY <1>1, HeadTailProperties
<1>3. QED
  BY <1>1, <1>2 DEF PushBounded

\* A call seen once more has been seen.
LEMMA OnceMoreType ==
  ASSUME NEW c, NEW n \in Nat
  PROVE  /\ OnceMore(c, n) \in Nat \ {0}
         /\ c \notin NewEachTime => OnceMore(c, n) = n + 1
BY DEF OnceMore

\* The detector's methods keep its state well-formed.
LEMMA DetectorTypes ==
  /\ InitLoopDetectorState \in Detectors
  /\ \A d \in Detectors :
       /\ \A c \in Calls : RecordToolCall(d, c) \in Detectors
       /\ \A f \in Files, h \in Hashes : RecordEdit(d, f, h) \in Detectors
       /\ \A s \in Stats : RecordProgress(d, s) \in Detectors
       /\ \A passed \in BOOLEAN : RecordVerifyResult(d, passed) \in Detectors
<1>1. InitLoopDetectorState \in Detectors
  BY DEF InitLoopDetectorState, Detectors
<1>2. ASSUME NEW d \in Detectors, NEW c \in Calls
      PROVE  RecordToolCall(d, c) \in Detectors
  <2>1. [d.toolCallCounts EXCEPT ![c] = OnceMore(c, @)] \in [Calls -> Nat]
    <3>1. d.toolCallCounts \in [Calls -> Nat]
      BY DEF Detectors
    <3>2. OnceMore(c, d.toolCallCounts[c]) \in Nat
      BY <3>1, OnceMoreType
    <3>3. QED
      BY <3>1, <3>2
  <2>2. QED
    BY <2>1 DEF RecordToolCall, Detectors
<1>3. ASSUME NEW d \in Detectors, NEW f \in Files, NEW h \in Hashes
      PROVE  RecordEdit(d, f, h) \in Detectors
  <2>1. PushBounded(d.editHistoryByFile[f], h, OscillationHistory) \in Seq(Hashes)
    BY PushBoundedType DEF Detectors
  <2>2. QED
    BY <2>1 DEF RecordEdit, Detectors
<1>4. ASSUME NEW d \in Detectors, NEW s \in Stats
      PROVE  RecordProgress(d, s) \in Detectors
  <2>1. PushBounded(d.progressHistory, s, NoProgressWindow) \in Seq(Stats)
    BY PushBoundedType DEF Detectors
  <2>2. QED
    BY <2>1 DEF RecordProgress, Detectors
<1>5. ASSUME NEW d \in Detectors, NEW passed \in BOOLEAN
      PROVE  RecordVerifyResult(d, passed) \in Detectors
  <2>1. CASE passed
    BY <2>1 DEF RecordVerifyResult, Detectors
  <2>2. CASE ~passed
    BY <2>2 DEF RecordVerifyResult, Detectors
  <2>3. QED
    BY <2>1, <2>2
<1>6. QED
  BY <1>1, <1>2, <1>3, <1>4, <1>5

\* What the backend's diff statistic shows of a worktree is a statistic.
LEMMA DiffStatType ==
  ASSUME NEW tree \in Contents
  PROVE  DiffStat(tree) \in Stats
<1>1. \A f \in Tracked : f \in Files /\ tree[f] \in Versions
  BY WorktreeAssumption DEF Contents
<1>2. QED
  BY <1>1 DEF DiffStat, Stats

-----------------------------------------------------------------------------
(* Type correctness *)

LEMMA InitTypeOK == Init => TypeOK
<1>1. InitLoopDetectorState \in Detectors
  BY DetectorTypes
<1> SUFFICES ASSUME Init PROVE TypeOK
  OBVIOUS
<1>2. /\ status \in RunStatuses /\ escalationReason \in Reasons /\ pc \in Pcs
      /\ aborted \in BOOLEAN /\ anyEdit \in BOOLEAN
  BY DEF Init, RunStatuses, Reasons, Pcs
<1>3. /\ workflow \in [planMode : PlanModes, readonly : BOOLEAN, yes : BOOLEAN]
      /\ gate \in [green : BOOLEAN, of : Contents, meddled : BOOLEAN]
      /\ content \in Contents /\ head \in Contents
      /\ landed \in Contents \cup {NotLanded}
  BY WorktreeAssumption DEF Init
<1>4. /\ budgets \in [steps : Nat, costUsd : Nat]
      /\ consumed \in [steps : Nat, costUsd : Nat]
      /\ spent \in Nat /\ repairs \in Nat
      /\ resumes \in 0..MaxResumes /\ left \in 0..MaxBatch
      /\ toolCallLog \in [Calls -> Nat]
  BY BoundsAssumption DEF Init
<1>5. QED
  BY <1>1, <1>2, <1>3, <1>4 DEF Init, TypeOK

LEMMA StepTypeOK == TypeOK /\ [Next]_vars => TypeOK'
<1> SUFFICES ASSUME TypeOK, [Next]_vars PROVE TypeOK'
  OBVIOUS
<1> USE DEF TypeOK
<1>1. CASE Prelude
  BY <1>1 DEF Prelude, Understand, Plan, Inspect, StartActing, Enter, SetStatus,
              budgetVars, turnVars, watchVars, treeVars, RunStatuses, Pcs
<1>2. CASE BudgetHit
  BY <1>2 DEF BudgetHit, Stop, SetStatus, budgetVars, turnVars, watchVars,
              treeVars, RunStatuses, Pcs, Reasons
<1>3. CASE AskModel
  BY <1>3 DEF AskModel, budgetVars, turnVars, watchVars, treeVars, Pcs
<1>4. CASE Dispatch
  <2>1. PICK c \in Calls :
          /\ detector' = RecordToolCall(detector, c)
          /\ \/ Stop("ESCALATED", "repeated-call") /\ UNCHANGED <<left, call>>
             \/ /\ pc' = "tool"
                /\ call' = c
                /\ left' = left - 1
                /\ UNCHANGED <<status, escalationReason>>
    BY <1>4 DEF Dispatch
  <2>2. detector' \in Detectors
    BY <2>1, DetectorTypes
  <2>3. left \in 1..MaxBatch
    BY <1>4, BoundsAssumption DEF Dispatch, MoreCalls
  <2>4. QED
    BY <1>4, <2>1, <2>2, <2>3, BoundsAssumption
       DEF Dispatch, Stop, SetStatus, budgetVars, treeVars, RunStatuses, Pcs, Reasons
<1>5. CASE WriteSucceeds
  <2>1. call \in Calls /\ Target[call] \in Files
    BY <1>5, WorktreeAssumption DEF WriteSucceeds
  <2>2. PICK v \in Versions :
          /\ content' = [content EXCEPT ![Target[call]] = v]
          /\ detector' = RecordEdit(detector, Target[call], v)
          /\ \/ Stop("ESCALATED", "oscillating-edit")
             \/ pc' = "batch" /\ UNCHANGED <<status, escalationReason>>
    BY <1>5 DEF WriteSucceeds
  <2>3. detector' \in Detectors
    BY <2>1, <2>2, DetectorTypes DEF Hashes
  <2>4. content' \in Contents
    BY <2>1, <2>2 DEF Contents
  <2>5. toolCallLog' \in [Calls -> Nat] /\ call' = NoCall
    <3>1. OnceMore(call, toolCallLog[call]) \in Nat
      BY <2>1, OnceMoreType
    <3>2. QED
      BY <1>5, <3>1 DEF WriteSucceeds, Logged
  <2>6. QED
    BY <1>5, <2>1, <2>2, <2>3, <2>4, <2>5
       DEF WriteSucceeds, Stop, SetStatus, budgetVars, RunStatuses, Pcs, Reasons
<1>6. CASE ToolReturns
  <2>1. call \in Calls /\ content' \in Contents
    BY <1>6 DEF ToolReturns, SideEffects
  <2>2. toolCallLog' \in [Calls -> Nat] /\ call' = NoCall
    <3>1. OnceMore(call, toolCallLog[call]) \in Nat
      BY <2>1, OnceMoreType
    <3>2. QED
      BY <1>6, <3>1 DEF ToolReturns, Logged
  <2>3. QED
    BY <1>6, <2>1, <2>2
       DEF ToolReturns, Stop, SetStatus, budgetVars, RunStatuses, Pcs, Reasons
<1>7. CASE ToolThrows
  BY <1>7 DEF ToolThrows, budgetVars, turnVars, watchVars, treeVars, Pcs
<1>8. CASE EndTurn
  <2>1. detector' = RecordProgress(detector, DiffStat(content))
    BY <1>8 DEF EndTurn
  <2>2. detector' \in Detectors
    BY <2>1, DetectorTypes, DiffStatType
  <2>3. QED
    BY <1>8, <2>2
       DEF EndTurn, Stop, SetStatus, budgetVars, turnVars, treeVars, RunStatuses,
           Pcs, Reasons
<1>9. CASE RunPipeline
  BY <1>9 DEF RunPipeline, budgetVars, turnVars, watchVars, Pcs
<1>10. CASE GateIsRed
  <2>1. detector' \in Detectors
    BY <1>10, DetectorTypes DEF GateIsRed
  <2>2. \/ Stop("ESCALATED", "almost-done-stall") /\ UNCHANGED repairs
        \/ /\ SetStatus("FAILED") /\ pc' = "ended"
           /\ UNCHANGED <<escalationReason, repairs>>
        \/ /\ SetStatus("REPAIRING") /\ repairs' = repairs + 1 /\ pc' = "repair"
           /\ UNCHANGED escalationReason
    BY <1>10 DEF GateIsRed
  <2>3. UNCHANGED <<aborted, workflow, budgetVars, turnVars, toolCallLog, treeVars>>
    BY <1>10 DEF GateIsRed
  <2>4. QED
    BY <2>1, <2>2, <2>3
       DEF Stop, SetStatus, budgetVars, turnVars, treeVars, RunStatuses, Pcs, Reasons
<1>11. CASE GateIsGreen
  <2>1. detector' \in Detectors
    BY <1>11, DetectorTypes DEF GateIsGreen
  <2>2. /\ status' \in RunStatuses
        /\ escalationReason' \in Reasons
        /\ pc' \in Pcs \ {"tool"}
    BY <1>11 DEF GateIsGreen, Stop, SetStatus, RunStatuses, Pcs, Reasons
  <2>3. head' \in Contents
    BY <1>11 DEF GateIsGreen, Checkpoint
  <2>4. UNCHANGED <<aborted, workflow, budgetVars, turnVars, toolCallLog, repairs,
                    content, gate, landed>>
    BY <1>11 DEF GateIsGreen
  <2>5. QED
    BY <2>1, <2>2, <2>3, <2>4 DEF budgetVars, turnVars
<1>12. CASE BackToActing
  BY <1>12 DEF BackToActing, SetStatus, budgetVars, turnVars, watchVars, treeVars,
               RunStatuses, Pcs
<1>13. CASE Complete
  BY <1>13 DEF Complete, EvaluateCompletion, SetStatus, budgetVars, turnVars, watchVars, treeVars,
               RunStatuses, Pcs, Reasons
<1>14. CASE Land
  BY <1>14 DEF Land, SetStatus, budgetVars, turnVars, watchVars, RunStatuses, Pcs
<1>15. CASE Cancel
  BY <1>15 DEF Cancel, CancelAtTop, CancelInBatch, CancelAfterGate, Cancelled,
               SetStatus, budgetVars, turnVars, watchVars, treeVars, RunStatuses, Pcs
<1>16. CASE GitThrows
  BY <1>16 DEF GitThrows, budgetVars, turnVars, watchVars, treeVars, Pcs
<1>17. CASE Reply
  <2>1. Charge => consumed' \in [steps : Nat, costUsd : Nat] /\ spent' \in Nat
    BY BoundsAssumption DEF Charge, RecordedCost
  <2>2. CASE ReplyAfterAbort
    BY <2>1, <2>2 DEF ReplyAfterAbort, SetStatus, turnVars, watchVars, treeVars,
                      RunStatuses, Pcs
  <2>3. CASE ReplyIsError
    BY <2>1, <2>3 DEF ReplyIsError, Stop, SetStatus, turnVars, watchVars, treeVars,
                      RunStatuses, Pcs, Reasons
  <2>4. CASE ReplyIsFinal
    BY <2>1, <2>4 DEF ReplyIsFinal, SetStatus, turnVars, watchVars, treeVars,
                      RunStatuses, Pcs
  <2>5. CASE ReplyHasCalls
    <3>1. left' \in 0..MaxBatch
      BY <2>5, BoundsAssumption DEF ReplyHasCalls
    <3>2. QED
      BY <2>1, <2>5, <3>1 DEF ReplyHasCalls, watchVars, treeVars, Pcs
  <2>6. CASE ProviderThrows
    BY <2>6 DEF ProviderThrows, budgetVars, turnVars, watchVars, treeVars, Pcs
  <2>7. QED
    BY <1>17, <2>2, <2>3, <2>4, <2>5, <2>6 DEF Reply
<1>18. CASE Abort
  BY <1>18 DEF Abort, budgetVars, turnVars, watchVars, treeVars
<1>19. CASE Resume
  <2>1. /\ budgets' \in [steps : Nat, costUsd : Nat]
        /\ resumes' \in 0..MaxResumes
    BY <1>19, BoundsAssumption DEF Resume
  <2>2. workflow' \in [planMode : PlanModes, readonly : BOOLEAN, yes : BOOLEAN]
    BY <1>19 DEF Resume
  <2>3. QED
    BY <1>19, <2>1, <2>2
       DEF Resume, RestoredDetector, SetStatus, turnVars, treeVars, RunStatuses, Pcs
<1>20. CASE Meddle
  BY <1>20 DEF Meddle, budgetVars, turnVars, watchVars
<1>21. CASE UNCHANGED vars
  BY <1>21 DEF vars
<1>22. QED
  BY <1>1, <1>2, <1>3, <1>4, <1>5, <1>6, <1>7, <1>8, <1>9, <1>10, <1>11, <1>12,
     <1>13, <1>14, <1>15, <1>16, <1>17, <1>18, <1>19, <1>20, <1>21
     DEF Next, LoopStep, Tool, Verify, Rest

\* Every reachable state of a run has the shape RunState declares.
THEOREM TypeCorrect == Spec => []TypeOK
<1>1. QED
  BY InitTypeOK, StepTypeOK, PTL DEF Spec

-----------------------------------------------------------------------------
(* The statuses of the loop: no setStatus ever throws. *)

\* Where the loop stands tells the statuses it can have there, and a readonly
\* run never gets past its turns, in which nothing counts as an edit.
StatusInv ==
  /\ pc = "prelude" => status \in {"CREATED", "UNDERSTANDING", "PLANNING", "INSPECTING"}
  /\ pc \in {"top", "request", "batch", "tool"} => status \in {"ACTING", "EDITING"}
  /\ pc \in {"gate", "tick"} => status = "VERIFYING"
  /\ pc = "repair" => status \in {"REPAIRING", "EDITING"}
  /\ pc = "complete" => status = "AWAITING_APPROVAL"
  /\ pc = "commit" => status = "COMMITTING"
  /\ pc = "ended" => status \in {"DONE", "PAUSED", "ESCALATED", "FAILED", "CANCELLED",
                                 "AWAITING_APPROVAL"}
  /\ pc = "threw" => status \notin TerminalStates \cup {"PAUSED", "ESCALATED"}
  /\ workflow.readonly =>
       /\ pc \in {"prelude", "top", "request", "batch", "tool", "ended", "threw"}
       /\ pc \in {"top", "request", "batch", "tool"} => status = "ACTING"
       /\ pc \in {"batch", "tool"} => ~anyEdit

LEMMA StatusStep ==
  ASSUME TypeOK, StatusInv, [Next]_vars
  PROVE  StatusInv' /\ (status' # status => CanTransition(status, status'))
<1> USE DEF StatusInv, CanTransition, HappyPathEdges, EscapeHatches, TerminalStates,
            RunStatuses, SetStatus, Stop
<1>1. CASE Prelude
  BY <1>1 DEF Prelude, Understand, Plan, Inspect, StartActing, Enter
<1>2. CASE BudgetHit
  BY <1>2 DEF BudgetHit
<1>3. CASE AskModel
  BY <1>3 DEF AskModel
<1>4. CASE Dispatch
  BY <1>4 DEF Dispatch
<1>5. CASE WriteSucceeds
  <2>1. ~workflow.readonly /\ pc = "tool" /\ UNCHANGED workflow
    BY <1>5 DEF WriteSucceeds, Withheld
  <2>2. \/ status' = "ESCALATED" /\ pc' = "ended"
        \/ pc' = "batch" /\ UNCHANGED status
    BY <1>5 DEF WriteSucceeds
  <2>3. QED
    BY <2>1, <2>2
<1>6. CASE ToolReturns
  BY <1>6 DEF ToolReturns
<1>7. CASE ToolThrows
  BY <1>7 DEF ToolThrows
<1>8. CASE EndTurn
  BY <1>8 DEF EndTurn
<1>9. CASE RunPipeline
  BY <1>9 DEF RunPipeline
<1>10. CASE GateIsRed
  BY <1>10 DEF GateIsRed
<1>11. CASE GateIsGreen
  BY <1>11 DEF GateIsGreen
<1>12. CASE BackToActing
  BY <1>12 DEF BackToActing
<1>13. CASE Complete
  BY <1>13 DEF Complete, EvaluateCompletion
<1>14. CASE Land
  BY <1>14 DEF Land
<1>15. CASE Cancel
  BY <1>15 DEF Cancel, CancelAtTop, CancelInBatch, CancelAfterGate, Cancelled
<1>16. CASE GitThrows
  BY <1>16 DEF GitThrows
<1>17. CASE Reply
  BY <1>17 DEF Reply, ReplyAfterAbort, ReplyIsError, ReplyIsFinal, ReplyHasCalls, ProviderThrows
<1>18. CASE Abort
  BY <1>18 DEF Abort, turnVars
<1>19. CASE Resume
  <2>1. status = "PAUSED" /\ status' = "ACTING" /\ pc' = "top"
    BY <1>19 DEF Resume
  <2>2. workflow'.readonly = workflow.readonly
    BY <1>19 DEF Resume, TypeOK
  <2>3. QED
    BY <2>1, <2>2
<1>20. CASE Meddle
  BY <1>20 DEF Meddle
<1>21. CASE UNCHANGED vars
  BY <1>21 DEF vars
<1>22. QED
  BY <1>1, <1>2, <1>3, <1>4, <1>5, <1>6, <1>7, <1>8, <1>9, <1>10, <1>11, <1>12,
     <1>13, <1>14, <1>15, <1>16, <1>17, <1>18, <1>19, <1>20, <1>21
     DEF Next, LoopStep, Tool, Verify, Rest

LEMMA StatusInvariant == Spec => []StatusInv
<1>1. Init => StatusInv
  BY DEF Init, StatusInv
<1>2. TypeOK /\ StatusInv /\ [Next]_vars => StatusInv'
  BY StatusStep
<1>3. QED
  BY <1>1, <1>2, TypeCorrect, PTL DEF Spec

\* Every status the loop sets is an edge of the table from the one before.
THEOREM TransitionsAreLegal == Spec => LegalTransitions
<1>1. TypeOK /\ StatusInv /\ [Next]_vars
        => [status' # status => CanTransition(status, status')]_vars
  BY StatusStep
<1>2. QED
  BY <1>1, TypeCorrect, StatusInvariant, PTL DEF Spec, LegalTransitions

-----------------------------------------------------------------------------
(* Repeated calls: the log never runs ahead of the detector's counts. *)

\* Executions of c, the one in progress included.
Started(c) == toolCallLog[c] + (IF call = c THEN 1 ELSE 0)

\* Every execution was counted before it started, and was still under the cap.
CallInv ==
  /\ pc \notin {"tool", "threw"} => call = NoCall
  /\ \A c \in Calls \ NewEachTime :
       /\ Started(c) <= detector.toolCallCounts[c]
       /\ Started(c) < RepeatedCallEscalateAt

LEMMA CallStep == ASSUME TypeOK, CallInv, [Next]_vars PROVE CallInv'
<1> USE DEF CallInv, Started
<1>1. CASE Dispatch
  <2>1. PICK c \in Calls :
          /\ detector' = RecordToolCall(detector, c)
          /\ \/ /\ UNCHANGED call
                /\ pc' = "ended"
             \/ /\ ~ToolCallWarning(RecordToolCall(detector, c), c).escalate
                /\ pc' = "tool"
                /\ call' = c
    BY <1>1 DEF Dispatch, Stop
  <2>2. /\ pc = "batch" /\ call = NoCall /\ toolCallLog' = toolCallLog
        /\ NoCall \notin Calls
    BY <1>1, WorktreeAssumption DEF Dispatch
  <2>3. /\ detector.toolCallCounts \in [Calls -> Nat]
        /\ toolCallLog \in [Calls -> Nat]
        /\ RepeatedCallEscalateAt \in Nat
    BY ThresholdsAssumption DEF TypeOK, Detectors
  <2>4. /\ \A x \in Calls \ {c} : detector'.toolCallCounts[x] = detector.toolCallCounts[x]
        /\ detector'.toolCallCounts[c] \in Nat
        /\ c \notin NewEachTime =>
             detector'.toolCallCounts[c] = detector.toolCallCounts[c] + 1
    <3>1. detector'.toolCallCounts = [detector.toolCallCounts EXCEPT ![c] = OnceMore(c, @)]
      BY <2>1 DEF RecordToolCall, TypeOK, Detectors
    <3>2. QED
      BY <2>3, <3>1, OnceMoreType
  <2>5. \/ call' = NoCall /\ pc' = "ended"
        \/ /\ call' = c /\ pc' = "tool"
           /\ detector'.toolCallCounts[c] < RepeatedCallEscalateAt
    <3>1. CASE UNCHANGED call /\ pc' = "ended"
      BY <3>1, <2>2
    <3>2. CASE /\ ~ToolCallWarning(RecordToolCall(detector, c), c).escalate
               /\ pc' = "tool"
               /\ call' = c
      <4>1. ~(detector'.toolCallCounts[c] >= RepeatedCallEscalateAt)
        BY <3>2, <2>1 DEF ToolCallWarning
      <4>2. QED
        BY <4>1, <3>2, <2>3, <2>4
    <3>3. QED
      BY <2>1, <3>1, <3>2
  <2>6. QED
    BY <2>2, <2>3, <2>4, <2>5
<1>2. CASE WriteSucceeds \/ ToolReturns
  <2>1. /\ toolCallLog' = [toolCallLog EXCEPT ![call] = OnceMore(call, @)]
        /\ call' = NoCall /\ call \in Calls
        /\ call \notin NewEachTime =>
             OnceMore(call, toolCallLog[call]) = toolCallLog[call] + 1
    BY <1>2, OnceMoreType DEF WriteSucceeds, ToolReturns, Logged, TypeOK
  <2>2. UNCHANGED detector.toolCallCounts
    <3>1. CASE ToolReturns
      BY <3>1 DEF ToolReturns
    <3>2. CASE WriteSucceeds
      BY <3>2 DEF WriteSucceeds, RecordEdit, TypeOK, Detectors
    <3>3. QED
      BY <1>2, <3>1, <3>2
  <2>3. \A c \in Calls \ NewEachTime : Started(c)' = Started(c)
    BY <2>1, WorktreeAssumption DEF TypeOK
  <2>4. QED
    BY <2>1, <2>2, <2>3
<1>3. CASE EndTurn
  BY <1>3 DEF EndTurn, RecordProgress, turnVars, Stop, TypeOK, Detectors
<1>4. CASE GateIsRed
  BY <1>4 DEF GateIsRed, RecordVerifyResult, turnVars, TypeOK, Detectors
<1>5. CASE GateIsGreen
  BY <1>5 DEF GateIsGreen, RecordVerifyResult, turnVars, TypeOK, Detectors
<1>6. CASE Resume
  BY <1>6 DEF Resume, RestoredDetector, turnVars
<1>7. CASE ToolThrows
  BY <1>7 DEF ToolThrows, turnVars, watchVars
<1>8. CASE Prelude \/ BudgetHit \/ AskModel \/ RunPipeline \/ BackToActing \/ Complete
           \/ Land \/ Cancel \/ GitThrows \/ Reply \/ Abort \/ Meddle \/ UNCHANGED vars
  <2>1. UNCHANGED <<call, watchVars>>
    BY <1>8 DEF Prelude, Understand, Plan, Inspect, StartActing, Enter, BudgetHit,
                AskModel, RunPipeline, BackToActing, Complete, Land, Cancel,
                CancelAtTop, CancelInBatch, CancelAfterGate, Cancelled, GitThrows,
                Reply, ReplyAfterAbort, ReplyIsError, ReplyIsFinal, ReplyHasCalls, ProviderThrows,
                Abort, Meddle, turnVars, watchVars, vars
  <2>2. pc' \notin {"tool", "threw"} => pc \notin {"tool", "threw"}
    BY <1>8 DEF Prelude, Understand, Plan, Inspect, StartActing, Enter, BudgetHit,
                AskModel, RunPipeline, BackToActing, Complete, Land, Cancel,
                CancelAtTop, CancelInBatch, CancelAfterGate, Cancelled, GitThrows,
                Reply, ReplyAfterAbort, ReplyIsError, ReplyIsFinal, ReplyHasCalls, ProviderThrows,
                Abort, Meddle, vars
  <2>3. QED
    BY <2>1, <2>2 DEF watchVars
<1>9. QED
  BY <1>1, <1>2, <1>3, <1>4, <1>5, <1>6, <1>7, <1>8
     DEF Next, LoopStep, Tool, Verify, Rest

\* No call is run as often as the cap, however the run is paused and resumed.
THEOREM RepeatedCallsStayBounded == Spec => []RepeatedCallsAreBounded
<1>1. Init => CallInv
  BY ThresholdsAssumption, WorktreeAssumption
     DEF Init, CallInv, Started, InitLoopDetectorState
<1>2. TypeOK /\ CallInv /\ [Next]_vars => CallInv'
  BY CallStep
<1>3. TypeOK /\ CallInv => RepeatedCallsAreBounded
  BY ThresholdsAssumption DEF TypeOK, CallInv, Started, RepeatedCallsAreBounded
<1>4. QED
  BY <1>1, <1>2, <1>3, TypeCorrect, PTL DEF Spec

-----------------------------------------------------------------------------
(* The stall detector and the repair cap. *)

\* While the run goes on, or is paused, every failed gate was counted by both
\* counters; the streak runs one ahead only in the run it ended.
Going == pc \notin {"complete", "commit", "ended", "threw"} \/ status = "PAUSED"

RepairInv ==
  /\ Going => /\ detector.verifyFailStreak = repairs
              /\ status \notin {"ESCALATED", "FAILED"}
  /\ RepairsMatchFailures

LEMMA RepairStep ==
  ASSUME TypeOK, TypeOK', StatusInv, StatusInv', RepairInv, [Next]_vars
  PROVE  RepairInv'
<1> USE DEF RepairInv, RepairsMatchFailures, Going, TerminalStates
<1>1. CASE GateIsRed
  <2>1. /\ pc = "tick" /\ status = "VERIFYING"
        /\ detector.verifyFailStreak = repairs /\ repairs \in Nat
    BY <1>1 DEF GateIsRed, StatusInv, TypeOK
  <2>2. detector'.verifyFailStreak = repairs + 1
    BY <1>1, <2>1 DEF GateIsRed, RecordVerifyResult, TypeOK, Detectors
  <2>3. \/ /\ status' = "ESCALATED" /\ escalationReason' = "almost-done-stall"
           /\ pc' = "ended" /\ repairs' = repairs
        \/ /\ repairs + 1 < VerifyFailEscalateAt
           /\ repairs >= MaxRepairIters
           /\ status' = "FAILED" /\ pc' = "ended" /\ repairs' = repairs
        \/ /\ status' = "REPAIRING" /\ pc' = "repair" /\ repairs' = repairs + 1
    <3>1. ~VerifyWarning(RecordVerifyResult(detector, FALSE), FALSE).escalate
            => ~(repairs + 1 >= VerifyFailEscalateAt)
      BY <1>1, <2>2 DEF GateIsRed, VerifyWarning
    <3>2. repairs + 1 \in Nat /\ VerifyFailEscalateAt \in Nat
      BY <2>1, ThresholdsAssumption
    <3>3. CASE VerifyWarning(RecordVerifyResult(detector, FALSE), FALSE).escalate
      BY <1>1, <3>3 DEF GateIsRed, Stop, SetStatus
    <3>4. CASE ~VerifyWarning(RecordVerifyResult(detector, FALSE), FALSE).escalate
      <4>1. ~(repairs + 1 >= VerifyFailEscalateAt)
        BY <3>1, <3>4, Zenon
      <4>2. repairs + 1 < VerifyFailEscalateAt
        BY <3>2, <4>1
      <4>3. \/ /\ repairs >= MaxRepairIters
               /\ status' = "FAILED" /\ pc' = "ended" /\ repairs' = repairs
            \/ /\ status' = "REPAIRING" /\ pc' = "repair" /\ repairs' = repairs + 1
        BY <1>1, <3>4 DEF GateIsRed, Stop, SetStatus
      <4>4. QED
        BY <4>2, <4>3
    <3>5. QED
      BY <3>3, <3>4
  <2>4. VerifyFailEscalateAt \in Nat /\ MaxRepairIters \in Nat
    BY ThresholdsAssumption, BoundsAssumption
  <2>5. CASE status' = "ESCALATED" /\ escalationReason' = "almost-done-stall"
             /\ pc' = "ended" /\ repairs' = repairs
    BY <2>1, <2>2, <2>5
  <2>6. CASE /\ repairs + 1 < VerifyFailEscalateAt
             /\ repairs >= MaxRepairIters
             /\ status' = "FAILED" /\ pc' = "ended" /\ repairs' = repairs
    <3>1. ~(VerifyFailEscalateAt <= MaxRepairIters)
      BY <2>1, <2>4, <2>6
    <3>2. QED
      BY <2>1, <2>2, <2>6, <3>1
  <2>7. CASE status' = "REPAIRING" /\ pc' = "repair" /\ repairs' = repairs + 1
    BY <2>1, <2>2, <2>7
  <2>8. QED
    BY <2>3, <2>5, <2>6, <2>7
<1>2. CASE GateIsGreen
  <2>1. detector'.verifyFailStreak = 0
    BY <1>2 DEF GateIsGreen, RecordVerifyResult, TypeOK, Detectors
  <2>2. status' \in {"ESCALATED", "AWAITING_APPROVAL"} /\ pc' \in {"ended", "complete"}
    BY <1>2 DEF GateIsGreen, Stop, SetStatus
  <2>3. QED
    BY <2>1, <2>2
<1>3. CASE \/ Prelude \/ BudgetHit \/ AskModel \/ Dispatch \/ Tool \/ EndTurn
           \/ RunPipeline \/ BackToActing \/ Complete \/ Land \/ Cancel \/ GitThrows
           \/ Reply \/ Abort \/ Resume \/ Meddle \/ UNCHANGED vars
  <2>1. UNCHANGED <<detector.verifyFailStreak, repairs>>
    <3>1. CASE Dispatch
      BY <3>1 DEF Dispatch, RecordToolCall, TypeOK, Detectors
    <3>2. CASE Tool
      <4>1. CASE WriteSucceeds
        BY <4>1 DEF WriteSucceeds, RecordEdit, TypeOK, Detectors
      <4>2. CASE ToolReturns \/ ToolThrows
        BY <4>2 DEF ToolReturns, ToolThrows, watchVars
      <4>3. QED
        BY <3>2, <4>1, <4>2 DEF Tool
    <3>3. CASE EndTurn
      BY <3>3 DEF EndTurn, RecordProgress, TypeOK, Detectors
    <3>4. CASE Prelude \/ BudgetHit \/ AskModel \/ RunPipeline \/ BackToActing
      BY <3>4 DEF Prelude, Understand, Plan, Inspect, StartActing, Enter, BudgetHit,
                  AskModel, RunPipeline, BackToActing, watchVars
    <3>5. CASE Complete \/ Land \/ Cancel \/ GitThrows \/ Reply
      BY <3>5 DEF Complete, Land, Cancel, CancelAtTop, CancelInBatch, CancelAfterGate,
                  Cancelled, GitThrows, Reply, ReplyAfterAbort, ReplyIsError,
                  ReplyIsFinal, ReplyHasCalls, ProviderThrows, watchVars
    <3>6. CASE Abort \/ Meddle \/ UNCHANGED vars
      BY <3>6 DEF Abort, Meddle, watchVars, vars
    <3>7. CASE Resume
      BY <3>7 DEF Resume, RestoredDetector
    <3>8. QED
      BY <1>3, <3>1, <3>2, <3>3, <3>4, <3>5, <3>6, <3>7
  <2>2. Going' => Going
    <3>1. CASE Complete \/ Land \/ GitThrows
      BY <3>1 DEF Complete, Land, GitThrows, SetStatus, StatusInv
    <3>2. CASE Abort \/ Resume \/ Meddle \/ UNCHANGED vars
      BY <3>2 DEF Abort, Resume, Meddle, SetStatus, vars
    <3>3. CASE \/ Prelude \/ BudgetHit \/ AskModel \/ Dispatch \/ Tool \/ EndTurn
               \/ RunPipeline \/ BackToActing \/ Cancel \/ Reply
      BY <3>3 DEF Prelude, Understand, Plan, Inspect, StartActing, Enter, BudgetHit,
                  AskModel, Dispatch, Tool, WriteSucceeds, ToolReturns, ToolThrows,
                  EndTurn, RunPipeline, BackToActing, Cancel, CancelAtTop,
                  CancelInBatch, CancelAfterGate, Cancelled, Reply, ReplyAfterAbort,
                  ReplyIsError, ReplyIsFinal, ReplyHasCalls, ProviderThrows
    <3>4. QED
      BY <1>3, <3>1, <3>2, <3>3
  <2>3. status' # "FAILED" \/ UNCHANGED status
    BY <1>3 DEF Prelude, Understand, Plan, Inspect, StartActing, Enter, BudgetHit,
                AskModel, Dispatch, Tool, WriteSucceeds, ToolReturns, ToolThrows,
                EndTurn, RunPipeline, BackToActing, Complete, Land, Cancel, CancelAtTop,
                CancelInBatch, CancelAfterGate, Cancelled, GitThrows, Reply,
                ReplyAfterAbort, ReplyIsError, ReplyIsFinal, ReplyHasCalls, ProviderThrows, Abort,
                Resume, Meddle, Stop, SetStatus, vars
  <2>4. \/ Going /\ ~(status' = "ESCALATED" /\ escalationReason' = "almost-done-stall")
        \/ UNCHANGED <<status, escalationReason>>
        \/ /\ status \notin {"ESCALATED", "FAILED"}
           /\ status' \notin {"ESCALATED", "FAILED"}
    <3>1. CASE Complete \/ Land
      BY <3>1 DEF Complete, Land, SetStatus, StatusInv
    <3>2. CASE GitThrows \/ Abort \/ Meddle \/ UNCHANGED vars
      BY <3>2 DEF GitThrows, Abort, Meddle, vars
    <3>3. CASE \/ Prelude \/ BudgetHit \/ AskModel \/ Dispatch \/ Tool \/ EndTurn
               \/ RunPipeline \/ BackToActing \/ Cancel \/ Reply \/ Resume
      BY <3>3 DEF Prelude, Understand, Plan, Inspect, StartActing, Enter, BudgetHit,
                  AskModel, Dispatch, Tool, WriteSucceeds, ToolReturns, ToolThrows,
                  EndTurn, RunPipeline, BackToActing, Cancel, CancelAtTop,
                  CancelInBatch, CancelAfterGate, Cancelled, Reply, ReplyAfterAbort,
                  ReplyIsError, ReplyIsFinal, ReplyHasCalls, ProviderThrows, Resume, Stop, SetStatus
    <3>4. QED
      BY <1>3, <3>1, <3>2, <3>3
  <2>5. detector.verifyFailStreak \in Nat /\ repairs \in Nat
    BY DEF TypeOK, Detectors
  <2>6. Going' => status' \notin {"ESCALATED", "FAILED"}
    BY DEF StatusInv, TypeOK, Pcs
  <2>7. RepairsMatchFailures'
    <3>1. CASE /\ Going
               /\ ~(status' = "ESCALATED" /\ escalationReason' = "almost-done-stall")
      BY <3>1, <2>1, <2>3, <2>5
    <3>2. CASE UNCHANGED <<status, escalationReason>>
      BY <3>2, <2>1
    <3>3. CASE /\ status \notin {"ESCALATED", "FAILED"}
               /\ status' \notin {"ESCALATED", "FAILED"}
      BY <3>3, <2>1
    <3>4. QED
      BY <2>4, <3>1, <3>2, <3>3
  <2>8. QED
    BY <2>1, <2>2, <2>6, <2>7
<1>4. QED
  BY <1>1, <1>2, <1>3 DEF Next, LoopStep, Verify, Rest

\* The streak and the repair count agree, and a run never reaches FAILED while
\* the stall cap is no greater than the repair cap, as in the source.
THEOREM RepairsAlwaysMatchFailures == Spec => []RepairsMatchFailures
<1>1. Init => RepairInv
  BY DEF Init, RepairInv, RepairsMatchFailures, Going, InitLoopDetectorState
<1>2. TypeOK /\ TypeOK' /\ StatusInv /\ StatusInv' /\ RepairInv /\ [Next]_vars => RepairInv'
  BY RepairStep
<1>3. RepairInv => RepairsMatchFailures
  BY DEF RepairInv
<1>4. QED
  BY <1>1, <1>2, <1>3, TypeCorrect, StatusInvariant, PTL DEF Spec

-----------------------------------------------------------------------------
(* Cancellation. *)

\* Between the green verdict and the end of the run nothing is awaited, so the
\* signal cannot be set once the check after the gate has passed.
AbortInv == pc \in {"complete", "commit"} => ~aborted

LEMMA AbortStep ==
  ASSUME TypeOK, AbortInv, [Next]_vars
  PROVE  /\ AbortInv'
         /\ aborted => /\ pc' \in {"request", "tool", "gate"} => pc' = pc
                       /\ head' = head
                       /\ landed' = landed
<1> USE DEF AbortInv, CheckCancelled, treeVars
<1>1. CASE Prelude \/ BudgetHit \/ AskModel \/ Dispatch \/ EndTurn \/ Cancel
  BY <1>1 DEF Prelude, Understand, Plan, Inspect, StartActing, Enter, BudgetHit,
              AskModel, Dispatch, EndTurn, Cancel, CancelAtTop, CancelInBatch,
              CancelAfterGate, Cancelled, Stop
<1>2. CASE Tool
  BY <1>2 DEF Tool, WriteSucceeds, ToolReturns, ToolThrows, Stop
<1>3. CASE Verify
  <2>1. CASE RunPipeline \/ BackToActing
    BY <2>1 DEF RunPipeline, BackToActing
  <2>2. CASE Complete
    BY <2>2 DEF Complete
  <2>3. CASE Land
    BY <2>3 DEF Land
  <2>4. CASE GateIsRed
    BY <2>4 DEF GateIsRed, Stop
  <2>5. CASE GateIsGreen
    BY <2>5 DEF GateIsGreen, Stop
  <2>6. QED
    BY <1>3, <2>1, <2>2, <2>3, <2>4, <2>5 DEF Verify
<1>4. CASE GitThrows \/ Reply
  BY <1>4 DEF GitThrows, Reply, ReplyAfterAbort, ReplyIsError, ReplyIsFinal,
              ReplyHasCalls, ProviderThrows, Stop
<1>5. CASE Abort \/ Resume \/ Meddle \/ UNCHANGED vars
  BY <1>5 DEF Abort, Resume, Meddle, vars
<1>6. QED
  BY <1>1, <1>2, <1>3, <1>4, <1>5 DEF Next, LoopStep, Rest

\* Wherever the abort lands, nothing is requested, run, gated, checkpointed or
\* merged after it.
THEOREM AbortAlwaysStartsNothing == Spec => AbortStartsNothing
<1>1. Init => AbortInv
  BY DEF Init, AbortInv
<1>2. TypeOK /\ AbortInv /\ [Next]_vars => AbortInv'
  BY AbortStep
<1>3. TypeOK /\ AbortInv /\ [Next]_vars
        => [aborted => /\ pc' \in {"request", "tool", "gate"} => pc' = pc
                       /\ head' = head
                       /\ landed' = landed]_vars
  BY AbortStep
<1>4. QED
  BY <1>1, <1>2, <1>3, TypeCorrect, PTL DEF Spec, AbortStartsNothing

-----------------------------------------------------------------------------
(* What lands was vouched for. *)

\* The verdict is about the worktree until it is acted on, and it is not taken
\* back: a run that offered or landed its work has nothing left to do to it.
VouchInv ==
  /\ pc = "tick" => gate.of = content \/ gate.meddled
  /\ pc = "commit" => workflow.yes
  /\ status \in {"AWAITING_APPROVAL", "COMMITTING"} => head = content /\ Vouched(head)
  /\ landed # NotLanded => Vouched(landed) /\ workflow.yes /\ status = "DONE"

LEMMA VouchStep ==
  ASSUME TypeOK, StatusInv, StatusInv', VouchInv, [Next]_vars
  PROVE  VouchInv'
<1> USE DEF VouchInv, Vouched, SetStatus, TerminalStates
<1>1. CASE Prelude \/ BudgetHit \/ AskModel \/ Dispatch \/ EndTurn \/ Cancel
  BY <1>1 DEF Prelude, Understand, Plan, Inspect, StartActing, Enter, BudgetHit,
              AskModel, Dispatch, EndTurn, Cancel, CancelAtTop, CancelInBatch,
              CancelAfterGate, Cancelled, Stop, StatusInv, treeVars
<1>2. CASE Tool
  BY <1>2 DEF Tool, WriteSucceeds, ToolReturns, ToolThrows, Stop, StatusInv, treeVars
<1>3. CASE RunPipeline
  <2>1. /\ pc = "gate" /\ pc' = "tick" /\ UNCHANGED <<status, landed>>
        /\ gate'.of = content /\ gate'.meddled = (content' # content)
    BY <1>3 DEF RunPipeline
  <2>2. gate'.of = content' \/ gate'.meddled
    <3>1. CASE content' = content
      BY <2>1, <3>1
    <3>2. CASE content' # content
      BY <2>1, <3>2
    <3>3. QED
      BY <3>1, <3>2
  <2>3. status = "VERIFYING"
    BY <2>1 DEF StatusInv
  <2>4. QED
    BY <2>1, <2>2, <2>3
<1>4. CASE GateIsRed \/ BackToActing
  BY <1>4 DEF GateIsRed, BackToActing, Stop, StatusInv, treeVars
<1>5. CASE GateIsGreen
  BY <1>5 DEF GateIsGreen, Checkpoint, Stop, StatusInv
<1>6. CASE Complete
  BY <1>6 DEF Complete, EvaluateCompletion, StatusInv, treeVars
<1>7. CASE Land
  BY <1>7 DEF Land, StatusInv
<1>8. CASE GitThrows \/ Reply
  BY <1>8 DEF GitThrows, Reply, ReplyAfterAbort, ReplyIsError, ReplyIsFinal,
              ReplyHasCalls, ProviderThrows, Stop, StatusInv, treeVars
<1>9. CASE Abort \/ Resume \/ UNCHANGED vars
  BY <1>9 DEF Abort, Resume, StatusInv, treeVars, vars
<1>10. CASE Meddle
  <2>1. /\ pc \in {"request", "tick"} /\ UNCHANGED <<pc, status, landed>>
        /\ gate'.meddled = (gate.meddled \/ pc = "tick")
    BY <1>10 DEF Meddle, TypeOK
  <2>2. status \in {"ACTING", "EDITING", "VERIFYING"}
    BY <2>1 DEF StatusInv
  <2>3. QED
    BY <2>1, <2>2
<1>11. QED
  BY <1>1, <1>2, <1>3, <1>4, <1>5, <1>6, <1>7, <1>8, <1>9, <1>10
     DEF Next, LoopStep, Verify, Rest

\* A run offers and lands nothing but what the gate found green and the diff
\* showed clean, or what somebody else made of it after the gate.
THEOREM OnlyVouchedWorkEverLands == Spec => []OnlyVouchedWorkLands
<1>1. Init => VouchInv
  BY DEF Init, VouchInv
<1>2. TypeOK /\ StatusInv /\ StatusInv' /\ VouchInv /\ [Next]_vars => VouchInv'
  BY VouchStep
<1>3. VouchInv => OnlyVouchedWorkLands
  BY DEF VouchInv, OnlyVouchedWorkLands
<1>4. QED
  BY <1>1, <1>2, <1>3, TypeCorrect, StatusInvariant, PTL DEF Spec

-----------------------------------------------------------------------------
(* Reviews are short: a readonly run that runs no shell command cannot change  *)
(* its diff, so every turn adds one more equal sample.                         *)

Quiet ==
  /\ workflow.readonly
  /\ \A c \in Calls : Kind[c] = "shell" => toolCallLog[c] = 0

Samples == Len(detector.progressHistory)

ReviewInv ==
  Quiet =>
    /\ content = Base
    /\ \A i \in 1..Samples : detector.progressHistory[i] = DiffStat(Base)
    /\ pc \in {"prelude", "top", "request"} \/ status = "PAUSED" =>
         consumed.steps = Samples /\ Samples < NoProgressWindow
    /\ pc \in {"batch", "tool"} =>
         consumed.steps = Samples + 1 /\ Samples < NoProgressWindow
    /\ consumed.steps <= NoProgressWindow

\* One more sample, while the window is not full: nothing is dropped.
LEMMA PushBelowBound ==
  ASSUME NEW S, NEW h \in Seq(S), NEW x \in S, NEW b \in Nat, Len(h) < b
  PROVE  /\ Len(PushBounded(h, x, b)) = Len(h) + 1
         /\ \A i \in 1..Len(h) : PushBounded(h, x, b)[i] = h[i]
         /\ PushBounded(h, x, b)[Len(h) + 1] = x
<1>1. /\ Len(Append(h, x)) = Len(h) + 1
      /\ \A i \in 1..Len(h) : Append(h, x)[i] = h[i]
      /\ Append(h, x)[Len(h) + 1] = x
  BY AppendProperties
<1>2. ~(Len(Append(h, x)) > b)
  BY <1>1
<1>3. PushBounded(h, x, b) = Append(h, x)
  BY <1>2 DEF PushBounded
<1>4. QED
  BY <1>1, <1>3

LEMMA ReviewStep ==
  ASSUME TypeOK, StatusInv, ReviewInv, [Next]_vars
  PROVE  ReviewInv'
<1> SUFFICES ASSUME Quiet'
             PROVE  /\ content' = Base
                    /\ \A i \in 1..Samples' :
                         detector'.progressHistory[i] = DiffStat(Base)
                    /\ pc' \in {"prelude", "top", "request"} \/ status' = "PAUSED" =>
                         consumed'.steps = Samples' /\ Samples' < NoProgressWindow
                    /\ pc' \in {"batch", "tool"} =>
                         consumed'.steps = Samples' + 1 /\ Samples' < NoProgressWindow
                    /\ consumed'.steps <= NoProgressWindow
  BY DEF ReviewInv
<1>1. Quiet
  <2>1. UNCHANGED workflow.readonly
    BY DEF Next, LoopStep, Prelude, Understand, Plan, Inspect, StartActing, Enter,
           BudgetHit, AskModel, Dispatch, Tool, WriteSucceeds, ToolReturns, ToolThrows,
           EndTurn, Verify, RunPipeline, GateIsRed, GateIsGreen, BackToActing, Complete,
           Land, Cancel, CancelAtTop, CancelInBatch, CancelAfterGate, Cancelled,
           GitThrows, Reply, ReplyAfterAbort, ReplyIsError, ReplyIsFinal,
           ReplyHasCalls, ProviderThrows, Abort, Resume, Meddle, Rest, vars, TypeOK
  <2>2. \/ UNCHANGED toolCallLog
        \/ (WriteSucceeds \/ ToolReturns) /\ Logged
    BY DEF Next, LoopStep, Prelude, Understand, Plan, Inspect, StartActing, Enter,
           BudgetHit, AskModel, Dispatch, Tool, WriteSucceeds, ToolReturns, ToolThrows,
           EndTurn, Verify, RunPipeline, GateIsRed, GateIsGreen, BackToActing, Complete,
           Land, Cancel, CancelAtTop, CancelInBatch, CancelAfterGate, Cancelled,
           GitThrows, Reply, ReplyAfterAbort, ReplyIsError, ReplyIsFinal,
           ReplyHasCalls, ProviderThrows, Abort, Resume, Meddle, Rest, watchVars, vars
  <2>3. \A c \in Calls : toolCallLog'[c] = 0 => toolCallLog[c] = 0
    BY <2>2, OnceMoreType DEF Logged, WriteSucceeds, ToolReturns, TypeOK
  <2>4. QED
    BY <2>1, <2>3 DEF Quiet
<1>2. /\ content = Base
      /\ \A i \in 1..Samples : detector.progressHistory[i] = DiffStat(Base)
      /\ pc \in {"prelude", "top", "request"} \/ status = "PAUSED" =>
           consumed.steps = Samples /\ Samples < NoProgressWindow
      /\ pc \in {"batch", "tool"} =>
           consumed.steps = Samples + 1 /\ Samples < NoProgressWindow
      /\ consumed.steps <= NoProgressWindow
  BY <1>1 DEF ReviewInv
<1>3. /\ detector.progressHistory \in Seq(Stats)
      /\ Samples \in Nat /\ consumed.steps \in Nat /\ NoProgressWindow \in Nat
      /\ workflow.readonly
  BY <1>1, ThresholdsAssumption DEF TypeOK, Detectors, Samples, Quiet
<1>4. CASE EndTurn
  <2>1. /\ pc = "batch" /\ status = "ACTING" /\ content' = content
        /\ consumed' = consumed
        /\ detector' = RecordProgress(detector, DiffStat(content))
        /\ \/ status' = "ESCALATED" /\ pc' = "ended"
           \/ /\ ~ProgressWarning(RecordProgress(detector, DiffStat(content))).escalate
              /\ status' \in {"ACTING", "EDITING"} /\ pc' = "top"
    BY <1>4, <1>3 DEF EndTurn, StatusInv, Stop, SetStatus, budgetVars, treeVars
  <2>2. detector'.progressHistory =
          PushBounded(detector.progressHistory, DiffStat(Base), NoProgressWindow)
    BY <2>1, <1>2 DEF RecordProgress, TypeOK, Detectors
  <2>3. DiffStat(Base) \in Stats
    BY DiffStatType, WorktreeAssumption
  <2>4. /\ Samples' = Samples + 1
        /\ \A i \in 1..Samples : detector'.progressHistory[i] = DiffStat(Base)
        /\ detector'.progressHistory[Samples + 1] = DiffStat(Base)
    BY <1>2, <1>3, <2>1, <2>2, <2>3, PushBelowBound DEF Samples
  <2>5. \A i \in 1..Samples' : detector'.progressHistory[i] = DiffStat(Base)
    BY <1>3, <2>4
  <2>6. pc' = "top" => Samples' # NoProgressWindow
    <3>1. SUFFICES ASSUME Samples' = NoProgressWindow
                   PROVE  ProgressWarning(detector').escalate
      BY <2>1
    <3>2. \A i \in 1..NoProgressWindow :
            detector'.progressHistory[i] = detector'.progressHistory[1]
      BY <2>5, <3>1, <1>3, ThresholdsAssumption
    <3>3. QED
      BY <3>1, <3>2 DEF ProgressWarning, Samples
  <2>7. QED
    BY <1>2, <1>3, <2>1, <2>4, <2>5, <2>6
<1>5. CASE Tool
  <2>1. ~WriteSucceeds /\ ~ToolThrows => ToolReturns
    BY <1>5 DEF Tool
  <2>2. ~WriteSucceeds
    BY <1>3 DEF WriteSucceeds, Withheld
  <2>3. CASE ToolThrows
    BY <2>3, <1>3 DEF ToolThrows, Withheld
  <2>4. CASE ToolReturns
    <3>1. call \in Calls /\ pc = "tool" /\ status = "ACTING"
      BY <2>4, <1>3 DEF ToolReturns, TypeOK, StatusInv
    <3>2. Kind[call] # "shell"
      <4>1. toolCallLog'[call] # 0
        BY <2>4, <3>1, OnceMoreType DEF ToolReturns, Logged, TypeOK
      <4>2. QED
        BY <3>1, <4>1 DEF Quiet
    <3>3. content' = content
      BY <2>4, <3>2 DEF ToolReturns, SideEffects
    <3>4. UNCHANGED <<detector, consumed>>
      BY <2>4 DEF ToolReturns, budgetVars
    <3>5. \/ pc' = "batch" /\ status' = status
          \/ pc' = "ended" /\ status' = "ESCALATED"
      BY <2>4 DEF ToolReturns, Stop, SetStatus
    <3>6. QED
      BY <1>2, <3>1, <3>3, <3>4, <3>5 DEF Samples
  <2>5. QED
    BY <2>1, <2>2, <2>3, <2>4
<1>6. CASE Dispatch
  <2>1. UNCHANGED detector.progressHistory
    BY <1>6 DEF Dispatch, RecordToolCall, TypeOK, Detectors
  <2>2. /\ pc = "batch" /\ UNCHANGED <<consumed, content>> /\ status = "ACTING"
        /\ \/ pc' = "ended" /\ status' = "ESCALATED"
           \/ pc' = "tool" /\ status' = status
    BY <1>6, <1>3 DEF Dispatch, Stop, SetStatus, budgetVars, treeVars, StatusInv
  <2>3. QED
    BY <1>2, <2>1, <2>2 DEF Samples
<1>7. CASE Reply
  <2>1. /\ pc = "request" /\ status = "ACTING" /\ UNCHANGED <<detector, content>>
        /\ \/ /\ consumed'.steps = consumed.steps + 1
              /\ \/ pc' = "ended" /\ status' # "PAUSED"
                 \/ pc' = "batch" /\ status' = status
           \/ /\ consumed' = consumed
              /\ pc' = "threw" /\ status' = status
    BY <1>7, <1>3 DEF Reply, ReplyAfterAbort, ReplyIsError, ReplyIsFinal,
                      ReplyHasCalls, ProviderThrows, Charge, Stop, SetStatus,
                      budgetVars, watchVars, treeVars, StatusInv
  <2>2. QED
    BY <1>2, <1>3, <2>1 DEF Samples
<1>8. CASE Verify \/ Meddle
  <2>1. ~Verify
    BY <1>3 DEF Verify, RunPipeline, GateIsRed, GateIsGreen, BackToActing, Complete,
                Land, StatusInv
  <2>2. ~Meddle
    BY <1>1 DEF Meddle, Quiet, TypeOK
  <2>3. QED
    BY <1>8, <2>1, <2>2
<1>9. CASE Prelude \/ BudgetHit \/ AskModel \/ Cancel \/ GitThrows
  <2>1. UNCHANGED <<detector, content, consumed>>
    BY <1>9 DEF Prelude, Understand, Plan, Inspect, StartActing, Enter, BudgetHit,
                AskModel, Cancel, CancelAtTop, CancelInBatch, CancelAfterGate,
                Cancelled, GitThrows, budgetVars, watchVars, treeVars
  <2>2. \/ /\ pc \in {"prelude", "top"}
           /\ pc' \in {"prelude", "top", "request", "ended"}
        \/ pc' \in {"ended", "threw"} /\ status' # "PAUSED"
    BY <1>9 DEF Prelude, Understand, Plan, Inspect, StartActing, Enter, BudgetHit,
                AskModel, Cancel, CancelAtTop, CancelInBatch, CancelAfterGate,
                Cancelled, GitThrows, Stop, SetStatus, StatusInv
  <2>3. QED
    BY <1>2, <2>1, <2>2 DEF Samples
<1>10. CASE Abort \/ Resume \/ UNCHANGED vars
  <2>1. UNCHANGED <<detector, content, consumed>>
    BY <1>10 DEF Abort, Resume, RestoredDetector, budgetVars, watchVars, treeVars, vars
  <2>2. \/ UNCHANGED <<pc, status>>
        \/ status = "PAUSED" /\ pc' = "top" /\ status' = "ACTING"
    BY <1>10 DEF Abort, Resume, SetStatus, vars
  <2>3. QED
    BY <1>2, <2>1, <2>2 DEF Samples
<1>11. QED
  BY <1>4, <1>5, <1>6, <1>7, <1>8, <1>9, <1>10 DEF Next, LoopStep, Rest

\* A readonly run without a shell command never gets more replies than the
\* no-progress window, whatever its step budget.
THEOREM ReviewsAreAlwaysShort == Spec => []ReviewsAreShort
<1>1. Init => ReviewInv
  <2>1. Init => /\ content = Base /\ detector.progressHistory = <<>>
                /\ consumed.steps = 0
    BY DEF Init, InitLoopDetectorState
  <2>2. QED
    BY <2>1, ThresholdsAssumption DEF ReviewInv, Samples, Init
<1>2. TypeOK /\ StatusInv /\ ReviewInv /\ [Next]_vars => ReviewInv'
  BY ReviewStep
<1>3. ReviewInv => ReviewsAreShort
  BY DEF ReviewInv, ReviewsAreShort, Quiet
<1>4. QED
  BY <1>1, <1>2, <1>3, TypeCorrect, StatusInvariant, PTL DEF Spec

-----------------------------------------------------------------------------
(* The loop implements the completion contract. *)

LEMMA ContractStep ==
  ASSUME TypeOK, TypeOK', StatusInv, StatusInv', VouchInv, VouchInv', [Next]_vars,
         ~gate'.meddled
  PROVE  [Contract!Next]_(Contract!contractVars)
<1> USE DEF Contract!Next, Contract!contractVars
<1>1. CASE RunPipeline
  <2>1. status = "VERIFYING" /\ UNCHANGED <<status, workflow, landed>>
    BY <1>1 DEF RunPipeline, StatusInv
  <2>2. gate' \in [green : BOOLEAN, of : Contents, meddled : BOOLEAN]
    BY DEF TypeOK
  <2>3. Contract!Judge
    BY <2>1, <2>2 DEF Contract!Judge, TypeOK, TerminalStates
  <2>4. QED
    BY <2>3
<1>2. CASE GateIsGreen
  <2>1. /\ status = "VERIFYING" /\ gate.green /\ gate.of = content
        /\ content \in Contents
        /\ UNCHANGED <<gate, workflow, landed>>
    BY <1>2 DEF GateIsGreen, StatusInv, VouchInv, TypeOK
  <2>2. CASE CheatFlagged(content) /\ Stop("ESCALATED", "cheat")
    BY <2>1, <2>2 DEF Contract!Close, Stop, SetStatus, TerminalStates
  <2>3. CASE ~CheatFlagged(content) /\ SetStatus("AWAITING_APPROVAL")
    BY <2>1, <2>3 DEF Contract!Offer, SetStatus, TerminalStates
  <2>4. QED
    BY <1>2, <2>2, <2>3 DEF GateIsGreen
<1>3. CASE Complete
  <2>1. status = "AWAITING_APPROVAL" /\ UNCHANGED <<gate, workflow, landed>>
    BY <1>3 DEF Complete, StatusInv, treeVars
  <2>2. CASE workflow.yes /\ SetStatus("COMMITTING")
    BY <2>1, <2>2 DEF Contract!StartLanding, SetStatus, TerminalStates
  <2>3. CASE UNCHANGED status
    BY <2>1, <2>3
  <2>4. QED
    BY <1>3, <2>2, <2>3 DEF Complete, EvaluateCompletion
<1>4. CASE Land
  <2>1. /\ status = "COMMITTING" /\ status' = "DONE"
        /\ UNCHANGED <<gate, workflow>> /\ landed' = head
    BY <1>4 DEF Land, SetStatus, StatusInv
  <2>2. gate.green /\ gate.of = head
    BY <2>1 DEF VouchInv, Vouched
  <2>3. QED
    BY <2>1, <2>2 DEF Contract!Land, TerminalStates
<1>5. CASE Resume
  <2>1. /\ status = "PAUSED" /\ status' = "ACTING"
        /\ UNCHANGED <<gate, landed>>
    BY <1>5 DEF Resume, SetStatus, treeVars
  <2>2. gate \in [green : BOOLEAN, of : Contents, meddled : BOOLEAN] /\ workflow'.yes \in BOOLEAN
    BY DEF TypeOK
  <2>3. Contract!Judge
    BY <2>1, <2>2 DEF Contract!Judge, TerminalStates
  <2>4. QED
    BY <2>3
<1>6. CASE \/ Prelude \/ BudgetHit \/ AskModel \/ Dispatch \/ Tool \/ EndTurn
           \/ GateIsRed \/ BackToActing \/ Cancel \/ GitThrows \/ Reply \/ Abort
           \/ UNCHANGED vars
  <2>1. UNCHANGED <<gate, workflow, landed>>
    BY <1>6 DEF Prelude, Understand, Plan, Inspect, StartActing, Enter, BudgetHit,
                AskModel, Dispatch, Tool, WriteSucceeds, ToolReturns, ToolThrows,
                EndTurn, GateIsRed, BackToActing, Cancel, CancelAtTop, CancelInBatch,
                CancelAfterGate, Cancelled, GitThrows, Reply, ReplyAfterAbort,
                ReplyIsError, ReplyIsFinal, ReplyHasCalls, ProviderThrows, Abort, treeVars, vars
  <2>2. \/ UNCHANGED status
        \/ /\ status \notin TerminalStates \cup {"ESCALATED", "AWAITING_APPROVAL",
                                                 "COMMITTING"}
           /\ status' \notin {"AWAITING_APPROVAL", "COMMITTING"}
    BY <1>6 DEF Prelude, Understand, Plan, Inspect, StartActing, Enter, BudgetHit,
                AskModel, Dispatch, Tool, WriteSucceeds, ToolReturns, ToolThrows,
                EndTurn, GateIsRed, BackToActing, Cancel, CancelAtTop, CancelInBatch,
                CancelAfterGate, Cancelled, GitThrows, Reply, ReplyAfterAbort,
                ReplyIsError, ReplyIsFinal, ReplyHasCalls, ProviderThrows, Abort, Stop,
                SetStatus, StatusInv, TerminalStates, vars
  <2>3. CASE UNCHANGED status
    BY <2>1, <2>3
  <2>4. CASE /\ status \notin TerminalStates \cup {"ESCALATED", "AWAITING_APPROVAL",
                                                   "COMMITTING"}
             /\ status' \notin {"AWAITING_APPROVAL", "COMMITTING"}
    BY <2>1, <2>4 DEF Contract!Close, TerminalStates
  <2>5. QED
    BY <2>2, <2>3, <2>4
<1>7. CASE Meddle
  <2>1. /\ gate'.green = gate.green /\ gate'.of = gate.of
        /\ UNCHANGED <<status, workflow, landed>>
    BY <1>7 DEF Meddle, TypeOK
  <2>2. QED
    BY <2>1
<1>8. QED
  BY <1>1, <1>2, <1>3, <1>4, <1>5, <1>6, <1>7 DEF Next, LoopStep, Verify, Rest

\* Every run implements RunContract, step by step, as long as nobody else has
\* written to the worktree since the gate saw it.
THEOREM AgentLoopKeepsContract == Spec => KeepsContract
<1>1. Init => Contract!Init
  BY DEF Init, Contract!Init, TerminalStates
<1>2. Init => VouchInv
  BY DEF Init, VouchInv
<1>3. TypeOK /\ StatusInv /\ StatusInv' /\ VouchInv /\ [Next]_vars => VouchInv'
  BY VouchStep
<1>4. /\ TypeOK /\ TypeOK' /\ StatusInv /\ StatusInv' /\ VouchInv /\ VouchInv'
      /\ [Next]_vars
      => [Contract!Next \/ gate'.meddled]_(Contract!contractVars)
  BY ContractStep
<1>5. QED
  BY <1>1, <1>2, <1>3, <1>4, TypeCorrect, StatusInvariant, PTL
     DEF Spec, KeepsContract
=============================================================================

---------------------------- MODULE LoopDetector ----------------------------
(***************************************************************************)
(* Loop and thrash detection, from packages/runtime/src/loop-detector.ts.  *)
(* The detector is a record carried inside the run's persisted state; each *)
(* operator below is one of its four methods, split into the state it      *)
(* leaves behind (Record...) and the warning it returns (a record with the *)
(* field `escalate`, or NoWarning).                                        *)
(*                                                                         *)
(* Calls stands for the (tool, arguments) hashes, Files for the edited     *)
(* paths; content hashes and diff statistics are arbitrary values that are *)
(* only compared for equality.                                             *)
(***************************************************************************)
EXTENDS Integers, Sequences, FiniteSets

CONSTANTS
  Calls,                 \* identities of tool calls: tool name and arguments
  NewEachTime,           \* those that stand for calls with new arguments each time
  Files,                 \* paths a write can target
  RepeatedCallWarnAt, RepeatedCallEscalateAt,
  OscillationHistory, OscillationEscalateAt,
  NoProgressWindow, VerifyFailEscalateAt

ASSUME CallsAssumption == NewEachTime \subseteq Calls

ASSUME ThresholdsAssumption ==
  /\ RepeatedCallWarnAt \in Nat \ {0}
  /\ RepeatedCallEscalateAt \in Nat \ {0}
  /\ OscillationHistory \in Nat \ {0}
  /\ OscillationEscalateAt \in Nat \ {0}
  /\ NoProgressWindow \in Nat \ {0}
  /\ VerifyFailEscalateAt \in Nat \ {0}

InitLoopDetectorState ==
  [toolCallCounts    |-> [c \in Calls |-> 0],
   editHistoryByFile |-> [f \in Files |-> <<>>],
   progressHistory   |-> <<>>,
   verifyFailStreak  |-> 0]

NoWarning == [kind |-> "none", escalate |-> FALSE]

\* Mutant: the history is cut one entry too early and never fills its window.
PushBoundedShort(history, x, bound) ==
  LET pushed == Append(history, x)
  IN  IF Len(pushed) >= bound THEN Tail(pushed) ELSE pushed

\* history.push(x), then history.shift() when it has outgrown its bound.
PushBounded(history, x, bound) ==
  LET pushed == Append(history, x)
  IN  IF Len(pushed) > bound THEN Tail(pushed) ELSE pushed

-----------------------------------------------------------------------------
\* How often the call's hash has been seen, after n times and once more: a call
\* of NewEachTime has a hash of its own every time.
OnceMore(c, n) == IF c \in NewEachTime THEN 1 ELSE n + 1

RecordToolCall(d, c) == [d EXCEPT !.toolCallCounts[c] = OnceMore(c, @)]

\* The warning returned by the call that recorded c, from the state after it.
ToolCallWarning(d, c) ==
  LET count == d.toolCallCounts[c]
  IN  IF count >= RepeatedCallWarnAt \/ count >= RepeatedCallEscalateAt
      THEN [kind |-> "repeated-call", escalate |-> count >= RepeatedCallEscalateAt]
      ELSE NoWarning

-----------------------------------------------------------------------------
RecordEdit(d, f, hash) ==
  [d EXCEPT !.editHistoryByFile[f] = PushBounded(@, hash, OscillationHistory)]

\* Positions where the history returns to the value of two edits before.
CountOscillations(history) ==
  Cardinality({i \in 3..Len(history) :
                 /\ history[i] = history[i - 2]
                 /\ history[i] # history[i - 1]})

EditWarning(d, f) ==
  LET history == d.editHistoryByFile[f]
      n       == Len(history)
  IN  IF n >= 3 /\ history[n] = history[n - 2]
      THEN [kind     |-> "oscillating-edit",
            escalate |-> CountOscillations(history) >= OscillationEscalateAt]
      ELSE NoWarning

-----------------------------------------------------------------------------
RecordProgress(d, diffStat) ==
  [d EXCEPT !.progressHistory = PushBounded(@, diffStat, NoProgressWindow)]

ProgressWarning(d) ==
  IF /\ Len(d.progressHistory) = NoProgressWindow
     /\ \A i \in 1..NoProgressWindow : d.progressHistory[i] = d.progressHistory[1]
  THEN [kind |-> "no-progress", escalate |-> TRUE]
  ELSE NoWarning

-----------------------------------------------------------------------------
RecordVerifyResult(d, passed) ==
  [d EXCEPT !.verifyFailStreak = IF passed THEN 0 ELSE @ + 1]

VerifyWarning(d, passed) ==
  IF ~passed /\ d.verifyFailStreak >= VerifyFailEscalateAt
  THEN [kind |-> "almost-done-stall", escalate |-> TRUE]
  ELSE NoWarning
=============================================================================

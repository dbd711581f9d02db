------------------------------ MODULE AgentLoop ------------------------------
(***************************************************************************)
(* One run of the agent loop, from packages/runtime/src/agent-loop.ts: the *)
(* model and the tools take turns until the model stops calling tools, the *)
(* deterministic gate decides, and a green run is checkpointed, offered    *)
(* for approval or, in yes mode, landed.                                   *)
(*                                                                         *)
(* One action is one stretch of code between two `setStatus` calls or two  *)
(* awaits: each `setStatus` emits an event, and each event persists the    *)
(* run.  pc names where the loop stands; an abort can land only while the  *)
(* event loop runs, that is before the run starts and at the awaits of the *)
(* provider's reply, of a shell command, and of the tick that follows the  *)
(* gate.  All other tools return without letting the event loop turn.      *)
(*                                                                         *)
(* Files holds one version per path of the run's worktree.  Paths outside  *)
(* Tracked are new: `git diff` against the base commit does not show them. *)
(***************************************************************************)
EXTENDS RunStatus, LoopDetector

CONSTANTS
  Kind,             \* what a call is: "write", "shell" or "read"
  Target,           \* the path a call of kind "write" edits
  Versions, Absent, \* contents of a path; the content of a missing path
  Base,             \* the worktree at the base commit
  Tracked,          \* paths the base commit has
  Cheats,           \* contents that gut a test, when the diff shows them
  StatOf,           \* what `diff --stat` tells of a content
  PlanModes,        \* the workflows' plan modes to explore
  StepBudget,       \* budgets.steps of a new run
  CostCeiling,      \* budgets.costUsd
  Prices,           \* what one request may really cost
  MaxRepairIters,   \* verification's MAX_REPAIR_ITERS
  MaxBatch,         \* bound: calls in one reply
  MaxResumes,       \* bound: resumes of one run, each extending the steps by one
  Meddling,         \* does the instance explore writes to the worktree by the
                    \* gate's own commands and by processes left behind?
  NoCall, NotLanded \* no call in progress; nothing merged

Contents == [Files -> Versions]

ASSUME WorktreeAssumption ==
  /\ Kind \in [Calls -> {"write", "shell", "read"}]
  /\ Target \in [Calls -> Files]
  /\ Absent \in Versions
  /\ Base \in Contents
  /\ Tracked \subseteq Files
  /\ Cheats \subseteq Versions
  /\ DOMAIN StatOf = Versions
  /\ Meddling \in BOOLEAN
  /\ NoCall \notin Calls
  /\ NotLanded \notin Contents

ASSUME BoundsAssumption ==
  /\ PlanModes \subseteq {"always", "auto", "never"}
  /\ StepBudget \in Nat
  /\ CostCeiling \in Nat
  /\ Prices \subseteq Nat
  /\ MaxRepairIters \in Nat
  /\ MaxBatch \in Nat \ {0}
  /\ MaxResumes \in Nat

VARIABLES
  status, escalationReason,    \* RunState
  pc,                          \* where the loop stands
  aborted,                     \* opts.signal.aborted
  workflow,                    \* planMode, readonly, and the run's yes mode
  budgets, consumed,           \* steps and costUsd of the persisted budgets
  spent,                       \* money the provider really charged
  resumes,                     \* how often the run was resumed
  left, call, anyEdit,         \* the reply being worked off
  detector,                    \* loopDetectorState
  toolCallLog,                 \* executions per call
  repairs,                     \* repairIterations
  content,                     \* the worktree's files
  gate,                        \* the last verdict, what it was given on, and
                               \* whether the worktree was meddled with since
  head,                        \* content of the run branch's last checkpoint
  landed                       \* content merged into the user's branch

vars == <<status, escalationReason, pc, aborted, workflow, budgets, consumed,
          spent, resumes, left, call, anyEdit, detector, toolCallLog, repairs,
          content, gate, head, landed>>

budgetVars == <<budgets, consumed, spent, resumes>>
turnVars   == <<left, call, anyEdit>>
watchVars  == <<detector, toolCallLog, repairs>>
treeVars   == <<content, gate, head, landed>>

-----------------------------------------------------------------------------
(* What the backend shows of the worktree. *)

\* `git diff --stat <base>`: untracked files are not part of it.
DiffStat(tree) == [f \in Tracked |-> StatOf[tree[f]]]

\* detectCheats over `git diff <base>`.
CheatFlagged(tree) == \E f \in Tracked : tree[f] \in Cheats /\ tree[f] # Base[f]

-----------------------------------------------------------------------------
(* The run's status, and the ways the loop comes to rest. *)

SetStatus(to) == status' = to

\* setStatus, then the reason, then `return "stopped"`.
Stop(to, why) ==
  /\ SetStatus(to)
  /\ escalationReason' = why
  /\ pc' = "ended"

\* Mutant: the check between two calls of a reply is forgotten.
CheckCancelledNotInBatch(at) == aborted /\ at # "batch"

\* checkCancelled, called where the loop stands at pc.
CheckCancelled(at) == aborted

\* What it does when the signal is set; the reason is left alone.
Cancelled ==
  /\ CheckCancelled(pc)
  /\ SetStatus("CANCELLED")
  /\ pc' = "ended"
  /\ UNCHANGED <<escalationReason, aborted, workflow, budgetVars, turnVars,
                 watchVars, treeVars>>

Init ==
  /\ status = "CREATED"
  /\ escalationReason = "none"
  /\ pc = "prelude"
  /\ aborted = FALSE
  /\ workflow \in [planMode : PlanModes, readonly : BOOLEAN, yes : BOOLEAN]
  /\ budgets = [steps |-> StepBudget, costUsd |-> CostCeiling]
  /\ consumed = [steps |-> 0, costUsd |-> 0]
  /\ spent = 0
  /\ resumes = 0
  /\ left = 0
  /\ call = NoCall
  /\ anyEdit = FALSE
  /\ detector = InitLoopDetectorState
  /\ toolCallLog = [c \in Calls |-> 0]
  /\ repairs = 0
  /\ content = Base
  /\ gate = [green |-> FALSE, of |-> Base, meddled |-> FALSE]
  /\ head = Base
  /\ landed = NotLanded

-----------------------------------------------------------------------------
(* run() up to the first turn; resume(). *)

Enter(from, to, at) ==
  /\ pc = "prelude"
  /\ status = from
  /\ SetStatus(to)
  /\ pc' = at
  /\ UNCHANGED <<escalationReason, aborted, workflow, budgetVars, turnVars,
                 watchVars, treeVars>>

Understand == Enter("CREATED", "UNDERSTANDING", "prelude")

\* planMode "auto" leaves it to a heuristic over the task's wording.
Plan ==
  /\ workflow.planMode # "never"
  /\ Enter("UNDERSTANDING", "PLANNING", "prelude")

Inspect ==
  \/ Enter("PLANNING", "INSPECTING", "prelude")
  \/ /\ workflow.planMode # "always"
     /\ Enter("UNDERSTANDING", "INSPECTING", "prelude")

StartActing == Enter("INSPECTING", "ACTING", "top")

\* Mutant: a resumed run gets a fresh detector.
FreshDetector == InitLoopDetectorState

\* The constructor takes the detector's state up from the persisted run.
RestoredDetector == detector

\* Agent.resume: only a paused run; the caller extends the step budget, the
\* rest of the run is as persisted, and the abort signal is a new one.
Resume ==
  /\ pc = "ended"
  /\ status = "PAUSED"
  /\ resumes < MaxResumes
  /\ resumes' = resumes + 1
  /\ \E extend \in {0, 1} : budgets' = [budgets EXCEPT !.steps = @ + extend]
  /\ \E yes \in BOOLEAN : workflow' = [workflow EXCEPT !.yes = yes]
  /\ SetStatus("ACTING")
  /\ pc' = "top"
  /\ aborted' = FALSE
  /\ detector' = RestoredDetector
  /\ UNCHANGED <<escalationReason, consumed, spent, turnVars, toolCallLog,
                 repairs, treeVars>>

\* The signal: Ctrl-C or session/cancel, handled when the event loop turns.
Abort ==
  /\ ~aborted
  /\ \/ pc = "prelude" /\ status = "CREATED"
     \/ pc = "request"
     \/ pc = "tool" /\ Kind[call] = "shell"
     \/ pc = "tick"
  /\ aborted' = TRUE
  /\ UNCHANGED <<status, escalationReason, pc, workflow, budgetVars, turnVars,
                 watchVars, treeVars>>

-----------------------------------------------------------------------------
(* actLoop: the top of an iteration, the request and its reply. *)

CancelAtTop == pc = "top" /\ Cancelled

StepsExceeded == consumed.steps >= budgets.steps
CostExceeded  == budgets.costUsd > 0 /\ consumed.costUsd >= budgets.costUsd

\* The wall clock and the token count may exceed their budgets at any check.
BudgetHit ==
  /\ pc = "top"
  /\ ~CheckCancelled(pc)
  /\ IF CostExceeded
     THEN Stop("ESCALATED", "cost")
     ELSE Stop("PAUSED", "budget")
  /\ UNCHANGED <<aborted, workflow, budgetVars, turnVars, watchVars, treeVars>>

AskModel ==
  /\ pc = "top"
  /\ ~CheckCancelled(pc)
  /\ ~StepsExceeded
  /\ ~CostExceeded
  /\ pc' = "request"
  /\ UNCHANGED <<status, escalationReason, aborted, workflow, budgetVars,
                 turnVars, watchVars, treeVars>>

\* recordUsage's cost parameter defaults to 0, and its only caller leaves it out.
RecordedCost(price) == 0

\* Mutant: the turn is paid for and not counted.
ChargeForgetsStep ==
  \E price \in Prices :
    /\ consumed' = [consumed EXCEPT !.costUsd = @ + RecordedCost(price)]
    /\ spent' = spent + price

\* The reply is charged and counted before the loop looks at the signal.
Charge ==
  \E price \in Prices :
    /\ consumed' = [steps   |-> consumed.steps + 1,
                    costUsd |-> consumed.costUsd + RecordedCost(price)]
    /\ spent' = spent + price

\* The adapter tells an abort as any other error, and the loop asks the signal
\* before it asks the reply.
ReplyAfterAbort ==
  /\ pc = "request"
  /\ CheckCancelled(pc)
  /\ Charge
  /\ SetStatus("CANCELLED")
  /\ pc' = "ended"
  /\ UNCHANGED <<escalationReason, aborted, workflow, budgets, resumes,
                 turnVars, watchVars, treeVars>>

ReplyIsError ==
  /\ pc = "request"
  /\ ~CheckCancelled(pc)
  /\ Charge
  /\ Stop("ESCALATED", "provider")
  /\ UNCHANGED <<aborted, workflow, budgets, resumes, turnVars, watchVars, treeVars>>

\* No tool calls: the model is done.  A readonly run ends here; any other
\* goes to the gate.
ReplyIsFinal ==
  /\ pc = "request"
  /\ ~CheckCancelled(pc)
  /\ Charge
  /\ IF workflow.readonly
     THEN SetStatus("DONE") /\ pc' = "ended"
     ELSE SetStatus("VERIFYING") /\ pc' = "gate"
  /\ UNCHANGED <<escalationReason, aborted, workflow, budgets, resumes,
                 turnVars, watchVars, treeVars>>

ReplyHasCalls ==
  /\ pc = "request"
  /\ ~CheckCancelled(pc)
  /\ Charge
  /\ left' \in 1..MaxBatch
  /\ anyEdit' = FALSE
  /\ pc' = "batch"
  /\ UNCHANGED <<status, escalationReason, aborted, workflow, budgets, resumes,
                 call, watchVars, treeVars>>

\* The adapters catch what fetch throws, not what reading the body throws: a
\* connection lost in the middle of the reply, or an abort that lands there,
\* escapes from the loop.  Nothing is charged, and the run stays as persisted.
ProviderThrows ==
  /\ pc = "request"
  /\ pc' = "threw"
  /\ UNCHANGED <<status, escalationReason, aborted, workflow, budgetVars,
                 turnVars, watchVars, treeVars>>

-----------------------------------------------------------------------------
(* The calls of one reply. *)

\* Mutant: one call too many.
MoreCallsOffByOne == left >= 0

MoreCalls == left > 0

CancelInBatch == pc = "batch" /\ MoreCalls /\ Cancelled

\* The repeat detector sees the call before it runs, and may stop the run.
Dispatch ==
  /\ pc = "batch"
  /\ MoreCalls
  /\ ~CheckCancelled(pc)
  /\ \E c \in Calls :
       LET d == RecordToolCall(detector, c)
       IN  /\ detector' = d
           /\ IF ToolCallWarning(d, c).escalate
              THEN Stop("ESCALATED", "repeated-call") /\ UNCHANGED <<left, call>>
              ELSE /\ pc' = "tool"
                   /\ call' = c
                   /\ left' = left - 1
                   /\ UNCHANGED <<status, escalationReason>>
  /\ UNCHANGED <<aborted, workflow, budgetVars, anyEdit, toolCallLog, repairs,
                 treeVars>>

\* The result is logged and pushed onto the transcript.
Logged ==
  /\ toolCallLog' = [toolCallLog EXCEPT ![call] = OnceMore(call, @)]
  /\ call' = NoCall

\* Mutant: a readonly run is only told that it has no write tools.
NothingWithheld(c) == FALSE

\* readonly removes write_file and edit_file from the tools the run has.
Withheld(c) == workflow.readonly /\ Kind[c] = "write"

\* An edit that succeeds goes to the oscillation detector with its new hash.
WriteSucceeds ==
  /\ pc = "tool"
  /\ Kind[call] = "write"
  /\ ~Withheld(call)
  /\ \E v \in Versions \ {Absent} :
       LET f == Target[call]
           d == RecordEdit(detector, f, v)
       IN  /\ content' = [content EXCEPT ![f] = v]
           /\ detector' = d
           /\ IF EditWarning(d, f).escalate
              THEN Stop("ESCALATED", "oscillating-edit")
              ELSE pc' = "batch" /\ UNCHANGED <<status, escalationReason>>
  /\ anyEdit' = TRUE
  /\ Logged
  /\ UNCHANGED <<aborted, workflow, budgetVars, left, repairs, gate, head, landed>>

\* What a tool may leave in the worktree without being a successful edit: a
\* shell command anything, whether it succeeds or not; the others nothing.
SideEffects(c) == IF Kind[c] = "shell" THEN Contents ELSE {content}

\* A read, a shell command, an edit that failed or was withheld: the loop goes
\* on, unless the error is the environment's.
ToolReturns ==
  /\ pc = "tool"
  /\ content' \in SideEffects(call)
  /\ Logged
  /\ \/ pc' = "batch" /\ UNCHANGED <<status, escalationReason>>
     \/ ~Withheld(call) /\ Stop("ESCALATED", "environment")
  /\ UNCHANGED <<aborted, workflow, budgetVars, left, anyEdit, detector, repairs,
                 gate, head, landed>>

\* writeFileSync throws out of the tool, and out of the loop.
ToolThrows ==
  /\ pc = "tool"
  /\ Kind[call] = "write"
  /\ ~Withheld(call)
  /\ pc' = "threw"
  /\ UNCHANGED <<status, escalationReason, aborted, workflow, budgetVars,
                 turnVars, watchVars, treeVars>>

\* The end of the turn: one sample for the no-progress detector.
EndTurn ==
  /\ pc = "batch"
  /\ left = 0
  /\ LET d == RecordProgress(detector, DiffStat(content))
     IN  /\ detector' = d
         /\ IF ProgressWarning(d).escalate
            THEN Stop("ESCALATED", "no-progress")
            ELSE /\ SetStatus(IF anyEdit THEN "EDITING" ELSE "ACTING")
                 /\ pc' = "top"
                 /\ UNCHANGED escalationReason
  /\ UNCHANGED <<aborted, workflow, budgetVars, turnVars, toolCallLog, repairs,
                 treeVars>>

-----------------------------------------------------------------------------
(* verifyAndFinish *)

\* runPipeline: synchronous; its commands run in the worktree.
RunPipeline ==
  /\ pc = "gate"
  /\ content' \in IF Meddling THEN Contents ELSE {content}
  /\ \E green \in BOOLEAN :
       gate' = [green |-> green, of |-> content, meddled |-> content' # content]
  /\ pc' = "tick"
  /\ UNCHANGED <<status, escalationReason, aborted, workflow, budgetVars,
                 turnVars, watchVars, head, landed>>

\* A background process a shell command left behind writes while the loop waits;
\* after the gate, what it writes is not what the gate judged.
Meddle ==
  /\ Meddling
  /\ pc \in {"request", "tick"}
  /\ \E c \in Calls : Kind[c] = "shell" /\ toolCallLog[c] > 0
  /\ content' \in Contents \ {content}
  /\ gate' = [gate EXCEPT !.meddled = @ \/ pc = "tick"]
  /\ UNCHANGED <<status, escalationReason, pc, aborted, workflow, budgetVars,
                 turnVars, watchVars, head, landed>>

CancelAfterGate == pc = "tick" /\ Cancelled

\* Red: the stall detector first, then the repair cap, then a repair message.
GateIsRed ==
  /\ pc = "tick"
  /\ ~CheckCancelled(pc)
  /\ ~gate.green
  /\ LET d == RecordVerifyResult(detector, FALSE)
     IN  /\ detector' = d
         /\ \/ /\ VerifyWarning(d, FALSE).escalate
               /\ Stop("ESCALATED", "almost-done-stall")
               /\ UNCHANGED repairs
            \/ /\ ~VerifyWarning(d, FALSE).escalate
               /\ repairs >= MaxRepairIters
               /\ SetStatus("FAILED")
               /\ pc' = "ended"
               /\ UNCHANGED <<escalationReason, repairs>>
            \/ /\ ~VerifyWarning(d, FALSE).escalate
               /\ repairs < MaxRepairIters
               /\ SetStatus("REPAIRING")
               /\ repairs' = repairs + 1
               /\ pc' = "repair"
               /\ UNCHANGED escalationReason
  /\ UNCHANGED <<aborted, workflow, budgetVars, turnVars, toolCallLog, treeVars>>

\* REPAIRING, EDITING, ACTING, and back to the top.
BackToActing ==
  /\ pc = "repair"
  /\ \/ status = "REPAIRING" /\ SetStatus("EDITING") /\ UNCHANGED pc
     \/ status = "EDITING" /\ SetStatus("ACTING") /\ pc' = "top"
  /\ UNCHANGED <<escalationReason, aborted, workflow, budgetVars, turnVars,
                 watchVars, treeVars>>

\* Mutant: the commit is left out.
CheckpointSkipped == head

\* checkpoint: add -A, so the commit has everything the worktree has.
Checkpoint == content

\* Green: everything in the worktree is checkpointed before the flags decide.
GateIsGreen ==
  /\ pc = "tick"
  /\ ~CheckCancelled(pc)
  /\ gate.green
  /\ detector' = RecordVerifyResult(detector, TRUE)
  /\ head' = Checkpoint
  /\ \/ CheatFlagged(content) /\ Stop("ESCALATED", "cheat")
     \/ /\ ~CheatFlagged(content)
        /\ SetStatus("AWAITING_APPROVAL")
        /\ pc' = "complete"
        /\ UNCHANGED escalationReason
  /\ UNCHANGED <<aborted, workflow, budgetVars, turnVars, toolCallLog, repairs,
                 content, gate, landed>>

\* Mutant: a green gate is enough.
DoneOnGreen(green, flagged, yes) == green /\ ~flagged

\* evaluateCompletion without a human's approval: is it DONE-SUCCESS?
EvaluateCompletion(green, flagged, yes) == green /\ ~flagged /\ yes

\* Called with a green gate and no flags: only yes mode goes on.
Complete ==
  /\ pc = "complete"
  /\ \/ /\ EvaluateCompletion(TRUE, FALSE, workflow.yes)
        /\ SetStatus("COMMITTING")
        /\ pc' = "commit"
        /\ UNCHANGED escalationReason
     \/ /\ ~EvaluateCompletion(TRUE, FALSE, workflow.yes)
        /\ escalationReason' = "approval"
        /\ pc' = "ended"
        /\ UNCHANGED status
  /\ UNCHANGED <<aborted, workflow, budgetVars, turnVars, watchVars, treeVars>>

\* The run branch's tip, not the worktree, is what the merge takes.
Land ==
  /\ pc = "commit"
  /\ landed' = head
  /\ SetStatus("DONE")
  /\ pc' = "ended"
  /\ UNCHANGED <<escalationReason, aborted, workflow, budgetVars, turnVars,
                 watchVars, content, gate, head>>

\* git throws: in diffStat, in the diff or the checkpoint, or in the merge (a
\* conflict, a hook).  The run stays as last persisted.
GitThrows ==
  /\ \/ pc = "batch" /\ left = 0
     \/ pc = "tick" /\ ~CheckCancelled(pc)
     \/ pc = "commit"
  /\ pc' = "threw"
  /\ UNCHANGED <<status, escalationReason, aborted, workflow, budgetVars,
                 turnVars, watchVars, treeVars>>

-----------------------------------------------------------------------------
\* Nothing left to do: the run ended, or its exception reached the caller.
Rest ==
  /\ pc \in {"ended", "threw"}
  /\ UNCHANGED vars

Prelude  == Understand \/ Plan \/ Inspect \/ StartActing
Reply    == ReplyAfterAbort \/ ReplyIsError \/ ReplyIsFinal \/ ReplyHasCalls
            \/ ProviderThrows
Tool     == WriteSucceeds \/ ToolReturns \/ ToolThrows
Verify   == RunPipeline \/ GateIsRed \/ GateIsGreen \/ BackToActing
            \/ Complete \/ Land
Cancel   == CancelAtTop \/ CancelInBatch \/ CancelAfterGate

\* The steps the loop takes by itself once what it awaits has arrived.
LoopStep == Prelude \/ BudgetHit \/ AskModel \/ Dispatch \/ Tool \/ EndTurn
            \/ Verify \/ Cancel \/ GitThrows

Next == LoopStep \/ Reply \/ Abort \/ Resume \/ Meddle \/ Rest

Spec == Init /\ [][Next]_vars

\* Mutant: the request is made without the signal.
SignalReachesNothing == {}

\* The awaits the loop hands its signal to: the request's fetch, and no tool.
SignalReaches == {"request"}

\* What the loop awaits or calls out for: the provider's reply, a tool's result,
\* the gate's commands.  None of them has to come back.
Awaits == {"request", "tool", "gate"}

\* The loop takes the steps that are its own, and a request whose signal is set
\* is over: its fetch or its read rejects, or the rest of the reply was there.
\* Nothing is assumed of providers, tools and the gate.
FairSpec ==
  /\ Spec
  /\ WF_vars(pc \notin Awaits /\ LoopStep)
  /\ WF_vars(aborted /\ pc \in SignalReaches /\ Reply)

-----------------------------------------------------------------------------
(* Properties *)

Pcs == {"prelude", "top", "request", "batch", "tool", "gate", "tick", "repair",
        "complete", "commit", "ended", "threw"}

Reasons == {"none", "cost", "budget", "provider", "repeated-call", "environment",
            "oscillating-edit", "no-progress", "almost-done-stall", "cheat",
            "approval"}

Hashes == Versions
Stats  == [Tracked -> {StatOf[v] : v \in Versions}]

Detectors ==
  [toolCallCounts    : [Calls -> Nat],
   editHistoryByFile : [Files -> Seq(Hashes)],
   progressHistory   : Seq(Stats),
   verifyFailStreak  : Nat]

TypeOK ==
  /\ status \in RunStatuses
  /\ escalationReason \in Reasons
  /\ pc \in Pcs
  /\ aborted \in BOOLEAN
  /\ workflow \in [planMode : PlanModes, readonly : BOOLEAN, yes : BOOLEAN]
  /\ budgets \in [steps : Nat, costUsd : Nat]
  /\ consumed \in [steps : Nat, costUsd : Nat]
  /\ spent \in Nat
  /\ resumes \in 0..MaxResumes
  /\ left \in 0..MaxBatch
  /\ call \in Calls \cup {NoCall}
  /\ (pc = "tool") => (call \in Calls)
  /\ anyEdit \in BOOLEAN
  /\ detector \in Detectors
  /\ toolCallLog \in [Calls -> Nat]
  /\ repairs \in Nat
  /\ content \in Contents
  /\ gate \in [green : BOOLEAN, of : Contents, meddled : BOOLEAN]
  /\ head \in Contents
  /\ landed \in Contents \cup {NotLanded}

\* No setStatus of the loop ever throws InvalidTransitionError: whatever order
\* the turns, aborts, pauses and resumes come in, the next status is an edge.
LegalTransitions == [][status' # status => CanTransition(status, status')]_vars

\* The completion contract (completion.ts): what is offered for approval or
\* landed shows no cheat in its diff, is exactly what the gate last found green
\* unless somebody else wrote to the worktree meanwhile, and only a yes-mode run
\* lands by itself.
Vouched(tree) ==
  /\ gate.green
  /\ gate.of = tree \/ gate.meddled
  /\ ~CheatFlagged(tree)

OnlyVouchedWorkLands ==
  /\ status \in {"AWAITING_APPROVAL", "COMMITTING"} =>
       /\ head = content
       /\ Vouched(head)
  /\ landed # NotLanded => Vouched(landed) /\ workflow.yes

\* Once the signal is set, the loop starts nothing: no request, no tool, no
\* gate, no checkpoint and no merge, wherever the abort landed.
AbortStartsNothing ==
  [][aborted => /\ pc' \in {"request", "tool", "gate"} => pc' = pc
                /\ head' = head
                /\ landed' = landed]_vars

\* A call that was answered RepeatedCallEscalateAt - 1 times is never run again
\* in the life of the run, pauses and resumes included.
RepeatedCallsAreBounded ==
  \A c \in Calls \ NewEachTime : toolCallLog[c] < RepeatedCallEscalateAt

\* The stall detector's streak and the repair count are two counters of the
\* same failures, kept by different code and both persisted.  While the stall
\* cap is no greater than the repair cap, the repair cap never decides: a run
\* never reaches FAILED, it escalates first.
RepairsMatchFailures ==
  /\ detector.verifyFailStreak = 0 \/
       detector.verifyFailStreak - repairs =
         IF \/ status = "ESCALATED" /\ escalationReason = "almost-done-stall"
            \/ status = "FAILED"
         THEN 1 ELSE 0
  /\ VerifyFailEscalateAt <= MaxRepairIters => status # "FAILED"

\* A readonly run that runs no shell command cannot change its diff, so the
\* no-progress detector ends it: it never gets more replies than the window.
ReviewsAreShort ==
  /\ workflow.readonly
  /\ \A c \in Calls : Kind[c] = "shell" => toolCallLog[c] = 0
  => consumed.steps <= NoProgressWindow

\* The run keeps the completion contract: each of its steps is one of the
\* contract's or none, as long as nobody else has written to the worktree since
\* the gate saw it.
Contract == INSTANCE RunContract WITH
  Trees    <- Contents,
  Clean    <- {tree \in Contents : ~CheatFlagged(tree)},
  None     <- NotLanded,
  phase    <- CASE status = "AWAITING_APPROVAL" -> "offered"
                [] status = "COMMITTING" -> "landing"
                [] status \in TerminalStates \cup {"ESCALATED"} -> "closed"
                [] OTHER -> "open",
  accepted <- IF gate.green THEN gate.of ELSE NotLanded,
  consent  <- workflow.yes,
  landed   <- landed

KeepsContract ==
  /\ Contract!Init
  /\ [][Contract!Next \/ gate'.meddled]_(Contract!contractVars)

\* A tool that runs comes back; a shell command whose output some process holds
\* open need not, whatever the signal says.
ToolsReturn == pc = "tool" ~> pc # "tool"

\* An aborted run comes to rest if its tools return, even when the provider
\* would never answer.  At rest it is CANCELLED, stopped for another reason, or
\* its exception reached the caller.
AbortIsHonoured == ToolsReturn => (aborted ~> pc \in {"ended", "threw"})

\* If the provider answers, the tools return and the gate ends, every run and
\* every resume comes to rest, whatever calls the model thinks of: the step
\* budget bounds the turns and every repair costs a turn.
EveryRunRests ==
  (\A at \in Awaits : pc = at ~> pc # at) => []<>(pc \in {"ended", "threw"})

-----------------------------------------------------------------------------
(* Statements of the documentation that the code does not keep. *)

\* "Cost ceiling: hard stop" (PROJECT_SPEC 6.3): no request is made once the
\* money spent has reached the ceiling.
CostCeilingHolds ==
  [][(pc # "request" /\ pc' = "request") => spent < budgets.costUsd]_vars

\* "any flag forces review" (PROJECT_SPEC 14.6): a worktree with a gutted test
\* never lands without a human.
NoCheatLands ==
  landed # NotLanded => \A f \in Files : landed[f] \in Cheats => landed[f] = Base[f]
=============================================================================

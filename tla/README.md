# ClutchCode in TLA+

A verification development of ClutchCode: TLA+ modules that follow the code, TLC
configurations that check them on small instances, and TLAPS proofs of the results that
matter most for every value of the constants. `PROJECT.json` is the index: components,
runs, mutants, the lines each definition models, hazards, findings and theorems.

1. [What the system is](#1-what-the-system-is)
2. [Modules and how they correspond to the code](#2-modules)
3. [Runs: bounds, fairness and what they show](#3-runs)
4. [What is proved, and how](#4-proofs)
5. [Where the code and its documents disagree](#5-disagreements)
6. [What is left out, and why](#6-limits)
7. [Plan](#7-plan)

Paths below are relative to `src/`; runtime, git and so on stand for `packages/runtime/src`
and `packages/git/src`.

## 1. What the system is

ClutchCode runs a coding agent on a repository. `agent run` stashes the user's uncommitted
changes, creates a git worktree and a branch for the run, lets a model and tools take turns
in it, and hands the result to a deterministic gate (build, test, lint, typecheck). Green
work is committed on the run branch and waits for a human, who approves it (merge) or
rejects it (discard). The run's state is a JSON file, rewritten at every event.

| Component | State it keeps | Operations | What makes it correct |
|---|---|---|---|
| Status machine (`runtime/run-state.ts`) | `status` | `transition` | terminal statuses are final; nobody asks for an edge that is not there |
| Agent loop (`runtime/agent-loop.ts`) | the persisted `RunState`, the transcript | `run`, `resume`, turns, tool calls, `verifyAndFinish` | only vouched work is offered or landed; every run comes to rest; an abort is honoured and starts nothing |
| Budgets (`runtime/budget.ts`) | steps, tokens, wall clock, cost consumed | `recordStep`, `recordUsage`, `check` | each limit really limits |
| Loop detector (`runtime/loop-detector.ts`) | counts per call, edit and progress histories, failure streak | four `record...` methods | it survives a pause; it agrees with the repair cap; it does not stop a run that progresses |
| Gate and cheat detection (`verification`) | none | `runPipeline`, `detectCheats`, `evaluateCompletion` | the verdict is about what lands; any flag forces a review |
| Git backend (`git/worktree.ts`, `dirty-tree.ts`) | worktree, run branch, stash, the user's branch | create, checkpoint, list, roll back, merge, discard | the user's changes are never lost; what the loop checkpoints is green |
| Snapshot backend (`git/snapshot-backup.ts`) | backups of edited files | back up, diff, restore | the backup is the content before the run, across resumes |
| Agent API (`agent-api/agent.ts`) | `state.json`, `worktree.json`, `events.jsonl` | `run`, `approve`, `reject`, `rollback`, `resume`, `pr`, `diff` | commands that overlap or die leave the run explainable |
| Toolchain memory (`memory`) | one file of facts per repository | detect, correct, mark stale | a human's correction wins |
| ACP server (`acp`) | a session: controller, last run, pending tool calls | prompt, cancel, the run's events | a cancel reaches the prompt it was sent for, and no other |
| Agent RPC (`agent-rpc`) | pending requests, a byte buffer on each side | request, dispatch, frame, close | every request is settled; a run's events come before its answer |
| Context (`runtime/context-compaction.ts`, `tool-result-pruning.ts`, `capability/budget.ts`) | the transcript | prune, compact | the task and the latest turn stay, no result without its call |
| Tools and sandbox (`tools`, `sandbox`) | none, or child processes | edit, write, read, shell, policy | an edit applies wholly or not at all; a command ends |
| Credentials (`agent-api/credentials.ts` and stores) | keychain, encrypted file, machine key | get, set, clear | what was set is served; a failing write destroys nothing |
| Stream adapters (`providers/hermes.ts`, `anthropic.ts`, `openai-compatible.ts`, `sse.ts`) | a parser, blocks under way | push, end; events; the next request | a complete reply is the whole message, and the server is told it again |
| Capability (`capability`) | one profile file per model | probe, load, budget, edit format | a run works within what its model was seen to recall |
| VS Code extension (`apps/vscode`) | a cached connection, open diffs, listeners | the commands | what the user is told is so |
| Evaluation harness (`src/evals`) | scratch repositories, observations | the A/B schedule, the naked reply, the oracle, the verdict | the oracle is held out; a reply lands as it was meant; solved means right |
| What a tool answers (`tools/truncate.ts`, `sandbox/policy.ts`) | the log of decisions, the evidence files | decide, truncate, save | failures are shown, what is not shown is kept |
| Sandbox, redaction, CLI parsing | none | | see section 6 |

How they interact. A *process* (a CLI command, the RPC server, the ACP server) calls `Agent`.
`Agent.run` builds a backend and an `AgentLoop`; the loop calls the provider and the shell
tool asynchronously, and everything else, including git and the whole gate, synchronously.
Each `emit` of the loop runs the caller's `onEvent`, which saves the loop's copy of the state:
so a status is on disk before the next line runs. Other processes load that file, act on the
same worktree and branches, and save *their* copy at the end. No lock connects them.

What is hard, and where the models look:

* **Interleaving.** An abort lands at an await and must take effect at the next check. Commands
  of several processes overlap with a live loop and with each other; the last save wins.
* **Shared files without locks.** The stash stack, the memory file, the credential file and the
  profiles are read, changed and written by several processes; the user works on the same tree.
* **Streams and pipes.** A tag, a frame or a block is cut anywhere; deltas, answers and events
  come in orders nobody chose.
* **Crash.** A CLI run has no signal handler: Ctrl-C is a process death between any two steps,
  and `approve` and `reject` save nothing until their last git command has returned.
* **Stale looks.** The gate, the diff and the checkpoint look at the worktree one after the
  other; the diff does not show what the checkpoint stages.
* **Two counters of one thing.** The stall streak and the repair count; the budget of the run
  and the window of the detector.
* **Sequences of legal calls.** Pause and approve; roll back and approve; die and resume; prune
  and then compact; use a scratch directory twice.

## 2. Modules

The run and its commands:

```
RunStatus ──────┬────────────── RunControl ── MCRunControl
LoopDetector ── AgentLoop            └─────── RunControlProofs
                 │  ├─ MCAgentLoop ── MCProgress
                 │  └─ AgentLoopProofs
RunContract <────┘ (implemented by AgentLoop, INSTANCE ... WITH)
```

What the run works on and with, each component a module of its own; they share no state:

```
UserShelf <── StashStack (implemented, INSTANCE ... WITH)
MCWorkspace: StashStack SnapshotBackup ToolchainMemory CredentialStore EvalHarness Transcript
             HermesStream AnthropicStream EditCascade MCCapability EditorClient MCOutputs
MCServer:    AcpSession AgentRpc ShellTool
MCOutputs:   WholeFileReply NativeStream ToolOutput
             (the instances of these three; MCWorkspace explores them)
Selection:   what a filter by place keeps; used by ToolOutput and NativeStream

UserTreeProofs: StashStack SnapshotBackup       OutputProofs: ToolOutput Transcript
ServerProofs:   ShellTool AcpSession AgentRpc   StreamProofs: HermesStream AnthropicStream NativeStream WholeFileReply
StoreProofs:    CredentialStore ToolchainMemory Capability EditorClient EvalHarness
WorkspaceProofs: MCWorkspace, from the proofs of its parts
```

**RunStatus** is `run-state.ts`: the statuses, the table, the escape hatches, `CanTransition`.

**LoopDetector** is `loop-detector.ts`: a record with the four histories, and per method the
state it leaves (`RecordEdit`) and the warning it returns (`EditWarning`). `Calls` stands for
the hashes of tool name and arguments, except that a call of `NewEachTime` has a hash of its own
each time (`OnceMore`): a model that never repeats itself is never stopped for repetition.

**RunContract** is the abstract specification, the contract of `verification/completion.ts`
over five phases: work lands only if the gate accepted it, nothing in it is flagged, and
somebody consented. It has no code of its own and no entry in the map.

**AgentLoop** is one run, from `CREATED` to rest. `pc` is the place in the code:

| `pc` | the loop is | actions | code |
|---|---|---|---|
| `prelude` | before the first turn | `Understand` `Plan` `Inspect` `StartActing` | `run` |
| `top` | at the top of `actLoop` | `CancelAtTop` `BudgetHit` `AskModel` | 347-390 |
| `request` | awaiting the provider | `ReplyAfterAbort` `ReplyIsError` `ReplyIsFinal` `ReplyHasCalls` `ProviderThrows` | 381-431 |
| `batch` | between two calls of a reply | `CancelInBatch` `Dispatch` `EndTurn` | 433-470, 504-514 |
| `tool` | in a tool | `WriteSucceeds` `ToolReturns` `ToolThrows` | 477-501, `runToolCall` |
| `gate`, `tick` | in the pipeline, in the `setImmediate` after it | `RunPipeline` `CancelAfterGate` `GateIsRed` `GateIsGreen` | `verifyAndFinish` |
| `repair` | on its way back | `BackToActing` | 694-698 |
| `complete`, `commit` | deciding, merging | `Complete` `Land` | 713-723 |
| `ended`, `threw` | returned, left by an exception | `Resume` `Rest` | `Agent.resume` |

An abort is an action of its own, enabled exactly where the event loop turns: before the run,
during a request, during a shell command and in the tick after the gate. `GitThrows`,
`ToolThrows` and `ProviderThrows` are the exceptions that leave the loop with the status last
persisted; the last is a read of a reply that fails half way (`sse.ts:28`, outside of the adapters'
`try`), as it does when the signal aborts it. `content`
is the worktree as one version per path, `head` what the run branch's tip holds, `gate` the
last verdict *and what it was given on*, so that a property can ask whether what lands is
what was verified; `gate.meddled` says that somebody else wrote to the worktree since the gate looked. `Tracked` are the paths of the base commit, the only ones `git diff` shows.
The wall clock and the token budget may expire at any check; steps and cost are counted.

**RunControl** is the same run seen from all processes. A process is at one command and one
place in it (`proc[p].cmd`, `.at`), with its own copy of the state (`.mem`). A step is one git
command, one save, or one stretch of the loop between two saves; the loop's statuses from
UNDERSTANDING to REPAIRING are one, ACTING, because no command tells them apart. `branch` is
the sequence of the contents committed on it, by the loop's checkpoint or by the run's own shell
(`ShellCommits`: the worktree is a git worktree, and `git.ts:43-44` sends git work to the shell),
`userWork` says where the user's uncommitted changes
are, `landed` what the run put on their branch. `Crash` ends a process between any two steps.
A rollback is two git commands (`Reset`, `Clean`), and may stop between them.
Three history variables serve the properties: `greens`, the contents the gate was green on;
`trouble`, the worst that has happened so far (nothing, a process died, commands overlapped, a loop
ran beside another loop or a rollback); and `strayed`, how far the run is from what was vouched for:
not at all, untidy (a rollback stopped between its two commands), astray (a paused run was approved,
or a rollback went to a commit that no gate saw).

### What the run works on

**StashStack** is the user's repository under `dirty-tree.ts` and the two ends of a run
(`createRunWorktree`, `approveRun`, `discardRun`, `restoreStashIfAny`), one git command per
action. `wt`, `idx` and a commit are the sets of changes they contain; `stash` is the list, top
first, each entry with an identity (its SHA). `run[r].at` is the command run `r` is about to
give: `Looks` (`isDirty`), then `Pushes` `NamesStash`, or `WritesTree` `AddsAll` `Commits`
`ReadsHead` `Resets` `RestoresIndex`, then `Bases` or `BasingFails`; `Discards` or `Approves`,
`FindsPosition`, `Pops`; and `Dies` between any two. The user edits, stages, commits, stashes and
pops in between. `disturbed` are the runs a foreign command came in between of: no lock prevents it,
so the properties say what holds of them and what only holds of the others.
**UserShelf** is what the user is promised: changes move between hand and shelf, and are not lost.

**SnapshotBackup** is `snapshot-backup.ts` behind `SnapshotRunBackend`: `Starts`, `BeforeEdit`,
`EndsBackup`, `Writes` are a run; `Rejects`, `RollsBack`, `Restores`, `EndsWalk`, `Approve` its
commands; `Crashes` falls into a copy in either direction; `Meddles` is a shell command's child or
the user. `DiffStatus` is `diffEntries`, which asks git two questions of a path, whether it is binary
and what differs; a question that git fails to answer has the empty answer (`execGitNoIndex`).

**ToolchainMemory** is `toolchain-memory.ts`: a resolve, a correction, a stale mark and a
removal load the file, change their copy and write it, each in a process of its own. A record is valid
while the manifests have its hash; AGENTS.md is not hashed, and `record.guide` remembers which of its
versions the record was derived with.
**CredentialStore** is `credentials.ts` with the keychain before the encrypted file before the
environment, the machine key made by whoever misses it, and writers that die between the two.
**Capability** is the probe, the profile file, and the budget and edit format a run takes from it
(`probe.ts`, `store.ts`, `resolve.ts`, `budget.ts`, `edit-format.ts`); models whose ids make the same
file name share it.

### What the run says and hears

**Transcript** is the conversation before every request: `pruneRedundantToolResults`, then
`compactMessages`, over replies with calls that repeat. Sizes are estimated tokens, `ask` stands
for a tool and its arguments, `id` is the provider's identifier of the call.
**HermesStream** is `HermesStreamParser` fed with chunks cut anywhere: `Push`, `End`, the
scratch pads, unclosed and nested tags. A message is a sequence of lexemes, a tag two of them.
The loop of `drain` is a recursive function that takes as many turns as there is text.
**AnthropicStream** is the adapter in both directions: events and deltas by block index,
`collect`, and `toAnthropicMessages` for the next request.
**NativeStream** is `parseSSE` and the openai-compatible adapter with native calls: an event is
four symbols on the wire (its data in two halves, and the two line ends that separate it), a read
brings any number of them, the connection may end or fail anywhere. `Takes` is one turn of the
adapter's loop, and the actions built on it its branches; `gathered` is what `collect` has so far.
**WholeFileReply** is what the naked arm makes of the reply of its model (`parseWholeFileBlocks`,
`applyWholeFileBlocks`): `SkipsLine` `OpensBlock` `CollectsLine` `ClosesBlock` `EndsUnterminated`
read the lines of a reply that may be cut after any of them, `ApplyFile` writes. A line is a fence, a
name, blank or prose; which names look like a path and which paths are safe are constants.
**ToolOutput** is what a tool answers: `Decide` is the policy, `Truncate` the choice of lines and
`Saves` the evidence file, named by label and content (the code's hash is the content itself).
`Shell` `Process` `Git` `ReadsFile` `Search` are calls, `RunStage` a stage of the gate.
**EditCascade** is the `edit_file` tool with its four strategies in the order of the code
(exactly, between ellipses, without a leading blank line, at another indentation): an attempt
is the set of the texts it yields, empty when it does not apply.

### What surrounds the run

**ShellTool** is one command: the group, the timer, SIGTERM, the grace, SIGKILL, members that
ignore signals, let go of the pipes or leave the group, and `close`.
**AcpSession** is a session with prompts that may overlap, cancels that name only the session, and
the mapping of tool events. **AgentRpc** is two pipes with frames cut anywhere, the pending
requests, handlers that end in any order and events meanwhile.
**EditorClient** is the extension: its commands interleave over one connection; what the user
picked may be out of date when the request arrives; prompts may be dismissed; the server may die.
A handler may throw at any of its steps, and a server may die in one: `Halves` is what an `approve`,
`reject` or `rollback` then leaves, a merge or a restored stash whose status was never saved among them.
**EvalHarness** is the schedule of `ab.ts` with both arms (`eval-runner.ts`, `naked-arm.ts`): which
scratch directory a cell works in, when the oracle is copied in, and what counts as solved.

**MCAgentLoop**, **MCProgress** and **MCRunControl** hold only values for TLC: what each call
is, symmetry of processes, and (MCProgress) a history of what the worktree held at the end of
each turn. **MCWorkspace** (with the values of **MCOutputs**) and **MCServer** put components that share no state side by side:
`part` says which one moves, the others stand still, so the states are the sum of the parts'
and not their product. The `...Proofs` modules hold theorems. Operators whose comment begins with
"Mutant:" are plausible bugs; `PROJECT.json` says which property notices which.

## 3. Runs

Twelve runs, four that pass and eight that show a disagreement of section 5.

| Run | States | What it shows |
|---|---|---|
| `AgentLoop_safety` | 0.13 M | `TypeOK`, `OnlyVouchedWorkLands`, `RepeatedCallsAreBounded`, `RepairsMatchFailures`, `ReviewsAreShort`, `LegalTransitions`, `AbortStartsNothing`, `KeepsContract` (the loop implements RunContract), and the liveness `AbortIsHonoured`, `EveryRunRests` |
| `RunControl_safety` | 1.9 M (under symmetry) | `TypeOK`, `OnlyGreenLands`, `OfferedIsVouched`, `CancelledLandsNothing`, `TerminalIsFinal`, `StashIsReturnedOrReported` |
| `Workspace_safety` | 1.3 M (the sum of its parts, under symmetry) | per part, see below |
| `Server_liveness` | 52 k | `OnlyTheCancelledStop`, `EventsBeforeAnswer`, `TimeoutKillsTheGroup`, and the liveness `CancelPreempts`, `EveryRequestSettles`, `CommandReturns` |
| `AgentLoop_cost`, `_cheat`, `_progress` | | violated: `CostCeilingHolds`, `NoCheatLands`, `NoProgressIsReal` |
| `RunControl_approve`, `_cleanup`, `_crash` | | violated: `DoneIsGreen`, `TerminalIsCleanedUp`, `CrashedRunsCanGoOn` |
| `Capability_probes` | | violated: `FailedProbesFallBack` |
| `Transcript_pruning` | | violated: `PrunedWasAskedAgain` |

`Workspace_safety` part by part:

| Part | States | Instance | Properties |
|---|---|---|---|
| stash | 61 k | two runs, two changes of the user and two moves of theirs, two stash entries, two commits | `KeepsUserWork` (implements UserShelf), `RestoresItsOwn`, `NoSilentOrphan`, `TempCommitLeavesNoTrace` |
| snapshot | 112 k | two files, one of them AGENTS.md, a text and a binary content, any number of crashes, git answering or not | `RejectRestores`, `DiffTellsEdits` |
| memory | 78 k | two manifests with different commands, two facts, two processes, four operations | `MemoryIsCurrent` |
| credentials | 107 k | two accounts, one of them in the environment, two writers, two machine keys | `CredentialsAreKept` (`SavedIsServed`, `WritesKeepOthers`) |
| evals | 344 k | two suites of two cells, one naming a task twice, two repetitions, both arms | `VerdictsAreFair` (`OracleStaysHeldOut`, `SolvedIsRight`) |
| transcript | 18 k | three turns of up to two calls, two sizes, a budget of two results | `RequestIsWellFormed` |
| stream | 151 k | every message of four pieces (half tags, tags, calls, pads) after an opening tag or not, every cut | `RepliesAreWhole` |
| anthropic | 10 k | three replies of up to three blocks, deltas in any order, two turns | `RepliesAreWhole` |
| edits | 8 k | files of three lines, blocks of up to three with ellipses, blank lines and indentation, two blocks | `EditsWhatItNames` |
| capability | 73 k | three models, two of them with one file, two processes, a ladder of two rungs, two probes | `RunFitsItsModel` |
| editor | 234 k | two commands over one run in each parked status, handlers cut short anywhere | `EditorTellsTheTruth` |
| native | 2 k | two calls whose pieces alternate, every reason to finish, every cut | `RepliesAreWhole` |
| reply | 101 k | two blocks, every kind of label, names and fences among their lines, cut after every line | `RepliesAreWhole` |
| output | 44 k | two tool calls with outputs of up to seven lines, a trusted repository or not | `FailuresAreShown`, `EvidenceIsWhole` |

**Bounds.** `AgentLoop_safety` has one tracked file with a missing, an original and a flagged
version, an edit of it and shell commands that are never the same, a read that is always the same,
readonly and yes mode either way (mode `auto` leaves both plan decisions open), two turns of up to
two calls, one resume that gives two more, aborts everywhere, and others that write to the worktree
(`Meddling`). The thresholds are smaller than the source's (4 calls, a window of 5, 3 failures) and
keep its order: warn before escalate, and a stall cap no greater than the repair cap. So the repeated
read, the window, the repair cycle, a pause between two failures and a resumed detector all happen
within four turns, and the step budget is what ends a run whose calls never repeat.
`AgentLoop_progress` uses the source's thresholds.
Files, contents and thresholds are arbitrary in the proofs, so the instance only has to make the
interesting cases happen; the mutants show that it does.

`RunControl_safety` has two processes, each at any command: the loop and a command beside it, two
commands, or one after the other as often as the status allows. Three contents (base, good, flagged)
distinguish everything the properties do. A loop makes one checkpoint and then offers or lands it, so
the second commit of a branch is the shell's, or a checkpoint on top of the shell's commits; with
`MaxCommits = 2` a rollback goes to an earlier commit, to one the gate vouched for as well as to one of the
shell's. `MaxTrouble = 2` leaves out two simultaneous loops and a rollback beside a loop: with them
`OnlyGreenLands` without its guard `trouble < Tangled` is false, because one loop checkpoints
what the other has just edited (see the hazards). The other properties carry the degree of
trouble they tolerate in their statement, so that one run checks all of them.

The instances of `Workspace_safety` are as small as their hazards allow: a stash position moves
when a second entry is made, so two runs and two entries; a torn backup matters when a path
is touched again, so two paths; a lost update needs two processes. `SYMMETRY` permutes runs,
clients and writers, and the user's changes, which no definition tells apart; the run checks
invariants and action properties only, for which it is sound.

The parts native, reply and output scale limits of the source down: one line of head and of tail for 40, three
extra failures for 50, a budget of four for 20 000 characters, two matches per file for 200, one
shown match for 50. So outputs of five to seven lines have omitted failures, more of them than the
cap, and the same text inside and outside of the windows. Replies have two blocks, with every kind of
label at the distances 0, 1, 3 and 4 (the last is beyond the limit), names and fences among their lines, and
are cut after every line. The streams have two calls whose pieces alternate, and every way to end. Two tool
calls suffice: evidence can only be lost, a path refused or a class asked about again by a second one.

**Fairness.** `FairSpec` asks for weak fairness of the loop's own steps, those that await nothing
(`pc` is not in `Awaits`): they are synchronous code. Nothing is asked of what the loop waits for: a
provider has no timeout, a shell command is let go only when `close` comes, which any process that
holds its pipes can delay for ever, and a command of the gate gets a SIGTERM it may ignore. The one
exception is a request after an abort: `fetch` and the reading of its body are given the signal
(`SignalReaches`, `agent-loop.ts:388`) and end, in a reply or in an exception. So `AbortIsHonoured` has the
premise that a tool that runs comes back, and `EveryRunRests` the premise that whatever is awaited does;
without an abort neither follows from the code. RunControl has no
fairness: nothing makes a human approve. In `MCServer` each part has its own when it is the one that
moves: an aborted loop ends (which is AgentLoop's `AbortIsHonoured`, with its premise), a pipe delivers, a handler
ends (so `EveryRequestSettles` assumes that the provider of a run answers), timers fire, and a group nobody holds pipes of is closed. A command has no fairness at all: it may
run for ever and ignore SIGTERM. Deadlock is checked for the loop and the commands, where `Rest`
is the only way to stay; the components of `MCWorkspace` and `MCServer` really may stop, when a
stream has ended, a bound is reached or nobody asks for anything.

**What the other properties exclude.** Each of them names, in its statement, the case the code has
no answer for: runs disturbed by a foreign stash command, paths others wrote to during a copy or whose
backup a crash cut short, two writers of the credential file at once, prompts that overlapped, members
that left the group. Without the exclusion TLC finds the counterexample; section 5 lists them.

**Meddling.** `AgentLoop_safety` lets the gate's own commands, and processes a shell command
left behind, write to the worktree while the loop waits. What is written before the gate looks is
verified like anything else; what is written between its look and the checkpoint lands unverified, since
the gate, the diff and the checkpoint look at the worktree at different times. `OnlyVouchedWorkLands`
and `KeepsContract` except exactly that (`gate.meddled`); that it happens is a limit of the code.

## 4. Proofs

The eight proof modules prove, for all constants that satisfy the named assumptions of the
modules, the following. TLC checks each property first.

| Theorem | Property | Rests on |
|---|---|---|
| `AgentLoopProofs!TypeCorrect` | `TypeOK` | itself inductive |
| `TransitionsAreLegal` | `LegalTransitions` | `StatusInv` |
| `RepeatedCallsStayBounded` | `RepeatedCallsAreBounded`, of the calls that repeat | `CallInv` |
| `RepairsAlwaysMatchFailures` | `RepairsMatchFailures` | `RepairInv`, `StatusInv` |
| `AbortAlwaysStartsNothing` | `AbortStartsNothing` | `AbortInv` |
| `OnlyVouchedWorkEverLands` | `OnlyVouchedWorkLands` | `VouchInv`, `StatusInv` |
| `ReviewsAreAlwaysShort` | `ReviewsAreShort` | `ReviewInv`, `StatusInv` |
| `AgentLoopKeepsContract` | `KeepsContract` | `VouchInv`, `StatusInv` |
| `RunControlProofs!TypeCorrect` | `TypeOK` | itself inductive |
| `OnlyGreenEverLands` | `OnlyGreenLands` | `PlaceInv`, `LoopInv`, `VouchInv` (of RunControlProofs) |
| `OfferedIsAlwaysVouched` | `OfferedIsVouched` | `PlaceInv`, `LoopInv`, `VouchInv` (of RunControlProofs) |
| `CancelledNeverLands` | `CancelledLandsNothing` | `LandInv`, `FinalInv`, `PlaceInv` |
| `EndedRunsStayEnded` | `TerminalIsFinal` | `PlaceInv`, `FinalInv` |
| `StashAlwaysReturnedOrReported` | `StashIsReturnedOrReported` | `NewInv`, `ReturnInv` |
| `UserTreeProofs!UserWorkIsKept` | `KeepsUserWork`: StashStack implements UserShelf | `StashInv` (its `GitInv`) |
| `OwnEntryComesBack`, `OrphansAreKnown` | `RestoresItsOwn`, `NoSilentOrphan` | `StashInv` |
| `TempCommitIsInvisible` | `TempCommitLeavesNoTrace` | `StashInv` |
| `RejectAlwaysRestores` | `RejectRestores` | `SnapshotInv` |
| `DiffAlwaysTellsEdits` | `DiffTellsEdits` | `SnapshotInv` |
| `ServerProofs!TimedOutGroupsAreGone` | `TimeoutKillsTheGroup` | `ShellInv` |
| `OnlyCancelledPromptsStop` | `OnlyTheCancelledStop` | `AcpInv` |
| `EventsAlwaysPrecedeTheAnswer` | `EventsBeforeAnswer` | `RpcInv` |
| `ServerKeepsTypes` | `ServerTypeOK` | `ServerInv` (`ShellInv`, `AcpInv`, `RpcInv`, the bound on requests) |
| `OutputProofs!FailuresAreAlwaysShown` | `FailuresAreShown` | `FailureInv` |
| `EvidenceStaysWhole` | `EvidenceIsWhole` | `OutputInv` |
| `EditsChangeWhatTheyName` | `EditsWhatItNames` | `EditInv` |
| `RequestsAreAlwaysWellFormed` | `RequestIsWellFormed` | `TranscriptInv` |
| `StreamProofs!NativeRepliesAreWhole` | `NativeReplyIsWhole`, a part of `RepliesAreWhole` | `NativeInv` |
| `HermesRepliesAreWhole` | `ReplyIsTheMessage`, a part of `RepliesAreWhole` | `StreamInv` |
| `AnthropicRequestsTellTheReplies` | `RequestTellsTheReplies`, a part of `RepliesAreWhole` | `AnthropicInv` |
| `NakedRepliesAreDelivered` | `DeliversTheReply`, a part of `RepliesAreWhole` | `NakedInv` |
| `StoreProofs!CredentialsAreAlwaysKept` | `CredentialsAreKept` | `CredentialInv` |
| `MemoryIsAlwaysCurrent` | `MemoryIsCurrent` | `MemoryInv` |
| `RunsAlwaysFitTheirModel` | `RunFitsItsModel` | `CapabilityInv` |
| `VerdictsAreAlwaysFair` | `VerdictsAreFair` | `EvalInv` |
| `EditorAlwaysTellsTheTruth` | `EditorTellsTheTruth` | `EditorInv` |
| `WorkspaceProofs!RepliesAreAlwaysWhole` | `RepliesAreWhole` | the four theorems of StreamProofs and their invariants |
| `WorkspaceKeepsTypes` | `WorkspaceTypeOK` | the invariants of the parts, and a lemma per part |

Why the strengthenings are needed, in one line each:

* `StatusInv`: which statuses are possible at which `pc`; without it a step's source status is
  unknown. It also says that a readonly run never counts an edit, so that it never needs the
  edge from EDITING to DONE, which the table does not have.
* `CallInv`: the log never runs ahead of the detector's counts, and only the call in the tool
  lies between them.
* `RepairInv`: streak and repairs differ by what happened in the last red verdict.
* `AbortInv`: where `pc` can be with the signal set, so that the next check is the first thing met.
* `VouchInv`: between the verdict, the checkpoint and the merge, head and worktree agree, and with the
  verdict unless `gate.meddled`.
* `ReviewInv`: in a review without shell commands the worktree is still the base and every sample
  of the window is the same; steps and samples grow together.
* `PlaceInv`: which command can be at which place with which status in its copy. `LoopInv`: no
  loop runs beside another or beside a rollback, before the run is tangled.
* `VouchInv` of RunControlProofs: before a run is tangled or astray, nobody edits it while somebody offers
  or lands it (`Apart`), so that the shell's commits cannot come on top of what was vouched for; the head
  of what is offered is green and unflagged and the worktree shows it (`HeadOK`), as are a rollback's goal
  and what landed, and a worktree the loop is about to commit was green.
* `FinalInv`: without overlap there is one command, and it works on a run that has not ended.
* `LandInv`: what was merged belongs to a run that is done, or to the one command that is about to say so.
* `NewInv`, `ReturnInv`: only the process that creates the run stashes, and past `Unstash` the changes are
  back or the copy carries the warning; no other step can take them away again.

* `StashInv`: `GitInv` says of the repository that identities in the stash are distinct and no
  greater than the last one made, that nothing is in it nobody made, and that no work is lost. For
  each run, `Fresh` says that before it has named its entry it has none to bring back;
  `KnowsItsEntry` and `KnowsItsTree` that what an undisturbed run remembers of the stash and of the
  tree it commits for a while is so *now*, at each place; `Orphans` who knows of its entry. A step
  of one run or of the user leaves that of the others true or disturbs them (lemma `Bystanders`).
* `SnapshotInv`: a path has a backup exactly when the run touched it, the backup of a file is what it
  held then unless the copy is under way, cut or interfered with (`BackupIsOriginal`), nothing is
  edited unsaved, and a walk has restored whatever is no longer pending (`WalksRestore`).
* `ShellInv`: the escalation comes after the timeout, and nobody is left to fork into the group.
* `AcpInv`: the controller a session holds belongs to a prompt in flight, so an abort reaches only one
  that a cancel came for.
* `OutputInv`: every evidence file has the name of its content, so writing one again writes the same,
  and every reference an answer gave is such a name. It assumes that the hash of twelve digits is one to one.
* `FailureInv`: what an answer tells of an output was made by `Truncate` of it. That head, tail and the failing lines
  between them show every failing line as often as the output has it is counted by place (`Selection`): the places
  shown in the three parts map one to one onto places of the output.
* `NativeInv`: what was taken so far is a prefix of the events; the buffers are the indices begun in it, each with the
  id of its first chunk, and the call with that id has the pieces of its index in that prefix, in order. The rest is
  that a prefix that reached the finish reason has all text and calls, which the protocol promises (`NativeAssumption`).
* `StreamInv`: pushing the chunks fed so far one by one gives what pushing their concatenation gives. That is lemma
  `PushTwice`, and the reason is that the first tag of a text stays the first whatever follows it, so that a turn of
  `drain` and an append may change places (`TurnAtTagThenMore`, `TurnOfTextThenMore`); turns shrink the text and settle
  (`TurnsSettle`). `RenderedText` says that output and pending text together render to what was fed.
* `AnthropicInv`: the blocks started are the first ones of the reply, and of each what was sent is a prefix of it. What is
  collected tells them (`IsStreamed`): a text has the pieces sent, block after block, and the call at a place has the id,
  the name and the pieces of the block at that place. A reply once put into the conversation stays told in the request
  (`Retells`), since a conversation only grows. It assumes what the protocol promises: two calls of a reply have two
  ids and the arguments of one are one object (`AnthropicAssumption`).
* `NakedInv`: the lines read so far end within one block of the reply; the blocks before it were read, and the file of each
  path is the one its last block told; of the block under way the fence, the path and the content read are at hand.
  Nothing is applied before everything is read. That a label is found where the code looks for it, at most four lines
  above a fence, is so because only the closing fence of the block before, prose and blanks stand between.
* `TranscriptInv`: at every place of the loop, each call of the transcript is answered right behind it or is
  still owed by the batch under way; a result stands behind its call; the first message is the task.
  `compactMessages` cuts only where a turn begins, and pruning changes a result's text and not its place.
* `RpcInv`: what the client heard, plus the events still in its pipe, is what the server told of a run; in the
  pipe no event comes after the answer of its request; each request is asked once, so no handler starts
  again. `DeliverAll` is a fold over the messages of a chunk: it is unrolled once by hand
  (`FoldExists`, `DeliveredInOrder`) and the induction is a minimal counterexample (`LeastOf`).
* `CredentialInv`: while no two writers raced, the file decrypts under the machine key, a writer holds that key,
  and every account reads what was last saved (`CalmInv`); and there is one writer, whose copy is the file
  as it is (`RaceInv`).
* `EditInv`: the texts of a call follow one another by a rewrite of what a block names, and the text a block was
  refused on has it nowhere (`RefusedIsNotSought`). That the cascade finds what is there rests on lemmas about lines
  joined again, about indentation put on and taken off, and about segments found in order.
* `MemoryInv`: facts of a record are what its hash and its version of AGENTS.md give (`DerivedInv`); while corrections are kept,
  at most one process is at work, its copy is the file, and the file tells every correction (`KeptInv`).
* `CapabilityInv`: a probe in progress has a context somewhere on its ladder (`Climbs`), and a saved profile is
  one whose ladder was climbed (`Climbed`), under the name of its own model's file.
* `EvalInv`: every scratch directory in use belongs to a cell that has run or is running, and two cells never
  have the same one (`CellsHaveTheirOwnDirectory`, which needs a named work directory to come with distinct tasks).
* `EditorInv`: an answer in the pipe is still true of the run when it is read, a task awaits one answer, and
  what it will say to the user follows from that answer (`TaskInv`, `AwaitInv`, `ReplyInv`, `NoticeInv`, `ListenInv`).

The theorems about the workspace are of the module that TLC explores, in which one part moves and the others stand still in
an initial state: the lemmas `RunsStash` ... `RunsOutput` show that it implements the specification of each of its parts,
and what is proved of a part follows.

The proofs about RunControl are split by the *shape* of a step (lemmas `Continues`, `Ends`,
`Starts`): what a step does to its own process and that it leaves the others alone. Each
invariant is then proved from the shapes and the few steps that touch what it speaks of.

What the proofs assume of the constants is in the named `ASSUME`s of the modules, which TLC evaluates in every
run: suites have tasks (`ab.ts:426`), what detection finds and what the agent guides say are sets of commands, the
values that stand for "no file" are not files, the runs an editor first sees are well-typed, calls of `edit_file` are
sequences of blocks (`EditAssumption`), and the naked replies are sequences of blocks in which neither the language
nor a missing info string looks like a path (`WholeFileAssumption`). Where the
code tries cases in an order, the definitions do too (IF chains rather than a CASE whose guards overlap), so that no
proof can rest on an arbitrary choice among them.

Only model-checked, each for a reason:

* the liveness properties (`AbortIsHonoured`, `EveryRunRests`, `CancelPreempts`, `EveryRequestSettles`, `CommandReturns`):
  fairness and ENABLED are out of the prover's reach;
* the violations of section 5, of course.

Folds and induction over numbers are used where a proof needed them (`RpcInv`, `TranscriptInv`, `StreamInv`), through
minimal counterexamples (`LeastOf`, `AllNumbers`): only the library's induction theorems, which take an operator, cannot be instantiated.

`OnlyVouchedWorkEverLands` is about the content of tracked *and* new paths, but "unflagged"
means what the diff shows: that the diff is blind to new files is the second finding, not a
gap of the proof.

## 5. Disagreements

Each of these is a counterexample of a run, with the quoted sentence in `PROJECT.json`.

1. The cost ceiling is never enforced: no request's cost is recorded (`AgentLoop_cost`).
2. A flagged pattern in a file the run created is not seen and lands in yes mode (`AgentLoop_cheat`).
3. The no-progress detector takes equal diff statistics for equal files (`AgentLoop_progress`).
4. `approve` on a paused run makes it DONE without a green gate (`RunControl_approve`): what it merges is what
   the run's own shell committed on the branch, which nobody verified.
5. A run the loop ended keeps the user's changes in the stash; no command returns them (`RunControl_cleanup`).
6. A run whose process died cannot be resumed (`RunControl_crash`).
7. A model whose probe recalled nothing, as when every request failed, is refused every run instead of
   working with the static defaults (`Capability_probes`).
8. A tool result is replaced by a note that its call was made again, although it was not, with a
   provider whose call ids restart in every reply (`Transcript_pruning`).

What follows showed while modelling. These are behaviours of the code that a property excludes by
name, or that are noted here only; no run is spent on them.

* **The branch of a run.** `listCheckpoints` is `git log base..HEAD`, so a commit of the run's shell is a
  checkpoint for `agent checkpoints` and `rollback`, although `agent.ts:463` describes "one commit per verify pass"; a
  rollback to one is offered, and approved, without a verdict. An `approve` that fails after its merge leaves
  the run awaiting approval, and a `reject` then calls rejected what has landed (`worktree.ts:325-342`,
  `agent.ts:447-452`); `CancelledLandsNothing` and `EditorTellsTheTruth` except it by name. A shell that checks out another
  branch in its worktree is outside of the model.
* **Stash.** A foreign stash command between two of a run's own makes it restore the wrong entry, or
  fail to find its own; a temporary commit the user commits onto is reset with theirs on top. `NeverStarts`:
  `Agent.run` throws between the worktree and the loop (a bad scope, a profile that gives no budget),
  and no command returns the stash.
* **Snapshots.** A backup a crash cut short counts as one, and a reject restores it. The marker of a
  missing AGENTS.md is made before the user may create the file, and a reject deletes theirs.
  `rollback` asks nothing of the status: after an approve it overwrites the user's later edits.
  A diff that git fails to make is taken for no difference (`snapshot-backup.ts:182`, `216-224`): a modified file is
  missing from what the user sees and from what cheat detection reads.
* **Capability.** An `effectiveContext` of 0 is also what a usage with no or 0 `prompt_tokens` leaves
  (`openai-compatible.ts:199`, `probe.ts:171`); the run that is refused has its worktree and stash made by then. "One
  file per model id" (`store.ts:10`) does not hold of `a/b` and `a_b`, whose runs use the other's profile. The save is not atomic (`store.ts:31`), and a file cut to nothing parses
  as a profile with no fields. The rungs are tokens used as characters (`probe.ts:146-151`).
* **Edits.** The first occurrence wins, no uniqueness is asked for; an empty SEARCH matches at the
  start; the header's order (1-2-3-4) is not the code's (1-4-3-2), and "retry 1 & 2" (line 137)
  only retries the exact match; ellipsis replacements are joined without a newline.
* **Streams.** Arguments Anthropic cut at `max_tokens` are sent back as `{}`; an event that does not
  parse is skipped; `parseSSE` knows only `\n\n` (`sse.ts:33`); calls without an index, or with one id, are
  merged (`openai-compatible.ts:212`, `types.ts:97`); a reply of finish `length` without
  calls counts as completed (`agent-loop.ts:422`).
* **Shell, ACP, RPC.** A member that left the group keeps `close` waiting; the SIGKILL timer is never
  cleared; of two overlapping prompts one loses its cancel; an RPC request sent after the stream ended
  never settles, nor does one in flight when the server dies.
* **Extension.** The cached connection is not replaced when the server died (`extension.ts:37`); the child
  has no error listener (`connection.ts:22`); a run's events are not filtered by run
  (`runTask.ts:41-45`); a rollback during the decision prompt changes what is approved.
* **Tools.** A longer fence in the content of a file ends its block, although the comment at `naked-arm.ts:295-296` names it as the
  one that round-trips. The character budget decides whether an output is truncated, not how much of it is shown
  (`truncate.ts:40`, `55`): one long line is shown whole. The model is told to `read_file` the evidence
  (`truncate.ts:105`, `types.ts:39`), which lies below the state directory, and `read_file` refuses paths outside the workspace
  (`read-file.ts:50`). No answer to a policy question is remembered (`policy.ts:16-18`): only tests call `remember`. The total
  count of a search leaves out what `--max-count 200` did not look for (`search.ts:64`). `git` goes on when the policy asks, and only a denial stops it (`git.ts:76`); a short test log shows
  the lines that are in head and tail twice (`truncate.ts:53-56`); a file that is too large is refused with the advice to ask for a
  window, which is refused, too (`read-file.ts:69`); a cut correction of a file replaces the whole one before it (`naked-arm.ts:353`).
* **Credentials and memory.** Two writers at once lose one of the writes; a keychain that appears
  shadows the file; a mere read of the file store makes a machine key. An edit of AGENTS.md is not seen while
  the record is valid, although `toolchain.ts:14` and `PROJECT_SPEC.md:629` let its commands win; a correction made over
  manifests that are not committed is lost when a run derives the record from those that are (`toolchain-memory.ts:216-229`).
* **Evaluation.** `ab --task a --task a` runs everything and then throws; the bias note of `ab.ts:486`
  also counts naked runs that were refused or solved with an error. A `--work-dir` used again by another
  process finds the directories of the first; the model is one process.

## 6. Limits

* RunControl models a git run with the default stash strategy. A merge that stops in a conflict
  is `GitFails`; the markers it leaves in the user's tree are not modelled. When a tool writes
  after the worktree was removed, the directory that comes back is still `Absent`: git does not
  know it. Saves are atomic (write and rename), except that two processes share the temporary
  name, which is listed as a hazard only. StashStack has the tree, the index and the stash in detail and
  leaves the run's status to RunControl.
* In StashStack a change is there or not: two changes of one line are two changes that conflict or not
  as git pleases, and a merge of a result that conflicts with the branch is refused.
* In AgentLoop a tool is its effect on the worktree. Which edits apply (EditCascade) and what the policy
  refuses only decide between `WriteSucceeds` and `ToolReturns`, and both are always possible. The
  transcript is a module of its own, since it cannot change what the loop does, only what the model
  answers, and the model may answer anything.
* Cheat detection is a predicate of contents; its regular expressions are not modelled, nor are the
  stages and failure classes of the pipeline, which decide only the wording of a repair message.
* ToolOutput has the policy's answers to reads and executions; the network and writes, which AgentLoop and
  SnapshotBackup have as effects, are left out, and so are redaction, binary files and LFS pointers, which change the text
  of an answer and no state. The verdict on a destructive command or a denylisted path is a constant.
* Not modelled: the regular expressions of the denylist and the destructive commands, sandbox command lines,
  environment filters and redaction (construction of strings), the CLI's parsing and printing (`commands.ts`,
  `program.ts`: each command on a run is a process of RunControl, what it prints is no state), Ollama's choice of protocol, the
  request of the openai-compatible adapter, the statistics and stored scoreboards of the evaluation, the naked arm's
  prompt, the ACP extension methods and `session/load`, checks 2, 4 and 6 of the probe, `diffFiles`
  and pull requests, which stage or push but change neither the state file nor the user's branch.

## 7. Plan

Done: the run, its commands, its contract; the stash, the snapshots, the shell, the sessions and
pipes, the transcript, three streams, the edit tool, what the tools answer, the profiles, the credentials, the
toolchain memory, the extension, the evaluation's schedule and its naked reply; thirty-nine theorems, which state every
safety property of the passing runs.

Next, the most important first:

1. `diffFiles` as an action of AgentLoop that makes new paths tracked.
2. The pipeline's stages and failure classes; the store of scoreboards, which two evaluations may write at once.

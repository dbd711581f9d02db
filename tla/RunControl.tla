----------------------------- MODULE RunControl -----------------------------
(***************************************************************************)
(* One run of a git repository as all the processes that touch it see it:  *)
(* the process that runs the loop, and the processes of the commands       *)
(* `approve`, `reject`, `rollback` and `resume`, from agent-api's agent.ts *)
(* and what it calls.  Nothing locks the run: every command loads its own  *)
(* copy of state.json, works on the repository, and saves its copy.        *)
(*                                                                         *)
(* The loop itself is AgentLoop's; here its statuses from UNDERSTANDING to *)
(* REPAIRING are one, ACTING, and a step of it is what reaches the disk.   *)
(* A process may die between any two steps.                                *)
(***************************************************************************)
EXTENDS RunStatus, Integers, Sequences, SequencesExt

CONSTANTS
  Procs,           \* processes, each of one command at a time
  Works, Base,     \* contents of a worktree; that of the base commit
  Flagged,         \* contents whose diff raises a cheat flag
  MaxCommits,      \* bound: commits on the run branch
  MaxTrouble,      \* bound: the worst disturbance to explore, see below
  Absent, NoBranch, NotLanded

ASSUME RunControlAssumption ==
  /\ Base \in Works
  /\ Flagged \subseteq Works \ {Base}
  /\ MaxCommits \in Nat \ {0}
  /\ MaxTrouble \in 0..3
  /\ {Absent, NotLanded} \cap Works = {}
  /\ NoBranch \notin Seq(Works)

VARIABLES
  disk,      \* state.json: the status and stashRestoreWarning
  tree,      \* the run's worktree, or Absent
  branch,    \* its commits since the base, or NoBranch
  userWork,  \* the user's uncommitted changes: "none", in the "tree", in the "stash"
  landed,    \* what the run put on the user's branch
  readonly,  \* the run's workflow
  proc,      \* what each process is doing
  greens,    \* history: the contents the gate was green on
  trouble,   \* history: the worst that has happened, see below
  strayed    \* history: how far the run is from what was vouched for, see below

repoVars    == <<tree, branch, userWork, landed>>
historyVars == <<greens, trouble, strayed>>
vars        == <<disk, repoVars, readonly, proc, historyVars>>

-----------------------------------------------------------------------------
(* What may disturb a run, in order. *)

NoTrouble  == 0  \* one command at a time, each to its end
Died       == 1  \* one command at a time, some cut short
Overlapped == 2  \* two commands at once
Tangled    == 3  \* a loop at once with another loop or with a rollback

AtLeast(level) ==
  /\ level <= MaxTrouble
  /\ trouble' = IF trouble < level THEN level ELSE trouble

(* What takes a run away from what its gate and checkpoint vouched for. *)

Straight == 0
Untidy   == 1  \* a rollback stopped between its two git commands
Astray   == 2  \* a paused run was approved, or rolled back to some other commit

Strays(level) == strayed' = IF strayed < level THEN level ELSE strayed

-----------------------------------------------------------------------------
(* Processes *)

NoState == [status |-> "NONE", warned |-> FALSE]

\* A command a process is at: its copy of the run state is mem, and goal the
\* branch as a rollback will leave it.
Job(cmd, at, mem, goal) == [cmd |-> cmd, at |-> at, mem |-> mem, goal |-> goal]

Idle == Job("none", "idle", NoState, <<>>)

Loops(p) == proc[p].cmd \in {"run", "resume"}

At(p, at) == proc[p].at = at

Move(p, at) == proc' = [proc EXCEPT ![p].at = at]

\* The process returns, or its exception reaches main().
Exit(p) == proc' = [proc EXCEPT ![p] = Idle]

\* Two commands that both rework the worktree, one of them a loop.
Tangles(cmd, other) ==
  /\ {cmd, other} \subseteq {"run", "resume", "rollback"}
  /\ {cmd, other} # {"rollback"}

Begin(p, command) ==
  /\ proc[p] = Idle
  /\ proc' = [proc EXCEPT ![p] = command]
  /\ AtLeast(LET others == {q \in Procs \ {p} : proc[q] # Idle} IN
             CASE others = {} -> NoTrouble
               [] \E q \in others : Tangles(command.cmd, proc[q].cmd) -> Tangled
               [] OTHER -> Overlapped)

\* setStatus of the loop: the process's copy changes and is saved.
SaveAs(p, status) == disk' = [proc[p].mem EXCEPT !.status = status]

SaveAndMove(p, status, at) ==
  /\ SaveAs(p, status)
  /\ proc' = [proc EXCEPT ![p].mem.status = status, ![p].at = at]

SaveAndExit(p, status) == SaveAs(p, status) /\ Exit(p)

HeadOf(commits) == IF commits = <<>> THEN Base ELSE Last(commits)

Init ==
  /\ disk = NoState
  /\ tree = Absent
  /\ branch = NoBranch
  /\ userWork \in {"none", "tree"}
  /\ landed = NotLanded
  /\ readonly \in BOOLEAN
  /\ \E p \in Procs :
       proc = [q \in Procs |-> IF q = p THEN Job("run", "stash", NoState, <<>>) ELSE Idle]
  /\ greens = {}
  /\ trouble = NoTrouble
  /\ strayed = Straight

-----------------------------------------------------------------------------
(* Agent.run up to the loop. *)

\* handleDirtyTree, with the default strategy.
StashUserWork(p) ==
  /\ At(p, "stash")
  /\ userWork' = IF userWork = "tree" THEN "stash" ELSE userWork
  /\ Move(p, "worktree")
  /\ UNCHANGED <<disk, tree, branch, landed, readonly, historyVars>>

AddWorktree(p) ==
  /\ At(p, "worktree")
  /\ tree' = Base
  /\ branch' = <<>>
  /\ Move(p, "build")
  /\ UNCHANGED <<disk, userWork, landed, readonly, historyVars>>

\* createRunWorktree throws, after trying to put the stash back.
AddWorktreeFails(p) ==
  /\ At(p, "worktree")
  /\ userWork' \in {userWork, IF userWork = "stash" THEN "tree" ELSE userWork}
  /\ Exit(p)
  /\ UNCHANGED <<disk, tree, branch, landed, readonly, historyVars>>

\* buildRunDeps throws, before a new run's state was ever saved.
BuildFails(p) ==
  /\ proc[p].at \in {"build", "resume"}
  /\ Exit(p)
  /\ UNCHANGED <<disk, repoVars, readonly, historyVars>>

SaveNew(p) ==
  /\ At(p, "build")
  /\ SaveAndMove(p, "CREATED", "loop")
  /\ UNCHANGED <<repoVars, readonly, historyVars>>

-----------------------------------------------------------------------------
(* The loop, from outside. *)

Loop(p, status) == At(p, "loop") /\ proc[p].mem.status = status

StartWork(p) ==
  /\ Loop(p, "CREATED")
  /\ SaveAndMove(p, "ACTING", "loop")
  /\ UNCHANGED <<repoVars, readonly, historyVars>>

\* A `git commit` of the run's own shell, of what it chooses to stage.
ShellCommits ==
  {Append(branch, work) : work \in IF Len(branch) < MaxCommits
                                    THEN Works \ {HeadOf(branch)} ELSE {}}

\* A turn: tools may edit the worktree, the shell may commit there, and every
\* event saves the loop's copy of the state, also when the worktree is gone.
Work(p) ==
  /\ Loop(p, "ACTING")
  /\ \/ tree = Absent /\ UNCHANGED <<tree, branch>>
     \/ /\ tree # Absent
        /\ tree' \in Works
        /\ branch' \in {branch} \cup (IF branch = NoBranch THEN {} ELSE ShellCommits)
  /\ SaveAs(p, "ACTING")
  /\ UNCHANGED <<userWork, landed, readonly, proc, historyVars>>

\* A budget, a detector, the provider or an abort ends the loop.
StopWork(p) ==
  /\ Loop(p, "ACTING")
  /\ \E status \in {"PAUSED", "ESCALATED", "CANCELLED"} : SaveAndExit(p, status)
  /\ UNCHANGED <<repoVars, readonly, historyVars>>

FinishReview(p) ==
  /\ Loop(p, "ACTING")
  /\ readonly
  /\ SaveAndExit(p, "DONE")
  /\ UNCHANGED <<repoVars, readonly, historyVars>>

AskGate(p) ==
  /\ Loop(p, "ACTING")
  /\ ~readonly
  /\ SaveAndMove(p, "VERIFYING", "gate")
  /\ UNCHANGED <<repoVars, readonly, historyVars>>

GateIsGreen(p) ==
  /\ At(p, "gate")
  /\ tree # Absent
  /\ greens' = greens \cup {tree}
  /\ Move(p, "green")
  /\ UNCHANGED <<disk, repoVars, readonly, trouble, strayed>>

GateIsRed(p) ==
  /\ At(p, "gate")
  /\ tree # Absent
  /\ \/ SaveAndMove(p, "ACTING", "loop")
     \/ \E status \in {"ESCALATED", "FAILED"} : SaveAndExit(p, status)
  /\ UNCHANGED <<repoVars, readonly, historyVars>>

CancelAfterGate(p) ==
  /\ proc[p].at \in {"gate", "green"}
  /\ SaveAndExit(p, "CANCELLED")
  /\ UNCHANGED <<repoVars, readonly, historyVars>>

\* Mutant: a flagged diff is offered like any other.
NeverFlagged == FALSE

\* detectCheats over the run's diff.
CheatFlagged == tree \in Flagged

\* The commit, unless nothing changed since the last; then the flags decide.
\* Yes mode, a choice of the process that nothing looked at before, goes on.
Checkpoint(p) ==
  /\ At(p, "green")
  /\ tree # Absent
  /\ branch # NoBranch
  /\ Len(branch) < MaxCommits \/ HeadOf(branch) = tree
  /\ branch' = IF HeadOf(branch) = tree THEN branch ELSE Append(branch, tree)
  /\ \/ CheatFlagged /\ SaveAndExit(p, "ESCALATED")
     \/ /\ ~CheatFlagged
        /\ \/ SaveAndExit(p, "AWAITING_APPROVAL")
           \/ SaveAndMove(p, "AWAITING_APPROVAL", "offer")
  /\ UNCHANGED <<tree, userWork, landed, readonly, historyVars>>

StartCommit(p) ==
  /\ At(p, "offer")
  /\ SaveAndMove(p, "COMMITTING", "merge")
  /\ UNCHANGED <<repoVars, readonly, historyVars>>

-----------------------------------------------------------------------------
(* approveRun and discardRun, one git command at a time; approve and reject  *)
(* save nothing until the last has returned.                                *)

\* Mutant: approve takes what the worktree holds.
MergedWorktree == {IF tree = Absent THEN landed ELSE tree}

\* What the user's branch may hold after the merge: the branch's head, unless a
\* later state of it was merged before.
Merged ==
  IF branch = <<>> THEN {landed}
  ELSE {Last(branch)} \cup ({landed} \ {NotLanded})

Merge(p) ==
  /\ At(p, "merge")
  /\ branch # NoBranch
  /\ landed' \in Merged
  /\ Move(p, "remove")
  /\ UNCHANGED <<disk, tree, branch, userWork, readonly, historyVars>>

\* The process stops after its rollback's first command, or elsewhere.
LeavesUntidy(p) == Strays(IF At(p, "clean") THEN Untidy ELSE Straight)

\* A git command whose failure is not allowed for throws: no branch or no
\* worktree any more, a conflict, a hook, a lock.
GitFails(p) ==
  /\ Loop(p, "ACTING") \/ proc[p].at \in {"gate", "green", "merge", "reset", "clean"}
  /\ Exit(p)
  /\ LeavesUntidy(p)
  /\ UNCHANGED <<disk, repoVars, readonly, greens, trouble>>

\* `git worktree remove --force`, whose failure goes unnoticed.
RemoveWorktree(p) ==
  /\ At(p, "remove")
  /\ tree' \in {tree, Absent}
  /\ Move(p, IF proc[p].cmd = "reject" THEN "unbranch" ELSE "unstash")
  /\ UNCHANGED <<disk, branch, userWork, landed, readonly, historyVars>>

\* `git branch -D` refuses while a worktree has the branch checked out.
DeleteBranch(p) ==
  /\ At(p, "unbranch")
  /\ branch' = IF tree = Absent THEN NoBranch ELSE branch
  /\ Move(p, "unstash")
  /\ UNCHANGED <<disk, tree, userWork, landed, readonly, historyVars>>

\* Mutant: the result of restoring the stash is dropped.
WarningDropped(p, failed) == FALSE

\* approve and reject keep the warning; the loop's own commit drops it.
Warning(p, failed) == failed /\ ~Loops(p)

\* restoreStashIfAny: the pop may fail, and finds nothing the second time.
Unstash(p) ==
  /\ At(p, "unstash")
  /\ \E failed \in BOOLEAN :
       /\ userWork = "none" => ~failed
       /\ userWork = "tree" => failed
       /\ userWork' = IF failed \/ userWork = "none" THEN userWork ELSE "tree"
       /\ proc' = [proc EXCEPT ![p].at = "finish", ![p].mem.warned = Warning(p, failed)]
  /\ UNCHANGED <<disk, tree, branch, landed, readonly, historyVars>>

Finish(p) ==
  /\ At(p, "finish")
  /\ SaveAndExit(p, IF proc[p].cmd = "reject" THEN "CANCELLED" ELSE "DONE")
  /\ UNCHANGED <<repoVars, readonly, historyVars>>

-----------------------------------------------------------------------------
(* The commands: load the state, check the transition, work, save. *)

\* Mutant: the command looks only at whether the run exists.
AnyTransition(from, to) == TRUE

\* transition() throws before anything was done.
Accepts(from, to) == CanTransition(from, to)

Saved == disk.status # "NONE"

Approve(p) ==
  /\ Saved
  /\ Accepts(disk.status, "COMMITTING")
  /\ Begin(p, Job("approve", "merge", [disk EXCEPT !.status = "COMMITTING"], <<>>))
  /\ Strays(IF disk.status = "AWAITING_APPROVAL" THEN Straight ELSE Astray)
  /\ UNCHANGED <<disk, repoVars, readonly, greens>>

Reject(p) ==
  /\ Saved
  /\ Accepts(disk.status, "CANCELLED")
  /\ Begin(p, Job("reject", "remove", [disk EXCEPT !.status = "CANCELLED"], <<>>))
  /\ UNCHANGED <<disk, repoVars, readonly, greens, strayed>>

\* Mutant: the list of checkpoints begins with the base commit.
CheckpointsFromBase == {SubSeq(branch, 1, i) : i \in 0..Len(branch)}

\* listCheckpoints: the commits after the base, whoever made them, each with
\* those before it.
Checkpoints == {SubSeq(branch, 1, i) : i \in DOMAIN branch}

\* Any status; the checkpoint must be one of the branch's.
Rollback(p) ==
  /\ Saved
  /\ tree # Absent
  /\ branch # NoBranch
  /\ \E goal \in Checkpoints :
       /\ Begin(p, Job("rollback", "reset", disk, goal))
       /\ Strays(IF HeadOf(goal) \in greens \ Flagged THEN Straight ELSE Astray)
  /\ UNCHANGED <<disk, repoVars, readonly, greens>>

\* `reset --hard` moves the run's branch, and leaves files it does not track.
Reset(p) ==
  /\ At(p, "reset")
  /\ tree # Absent
  /\ tree' \in Works
  /\ branch' = proc[p].goal
  /\ Move(p, "clean")
  /\ UNCHANGED <<disk, userWork, landed, readonly, historyVars>>

\* `clean -fd` removes those; what a loop beside it edited may stay.
Clean(p) ==
  /\ At(p, "clean")
  /\ tree # Absent
  /\ branch # NoBranch
  /\ tree' \in IF trouble < Tangled THEN {HeadOf(branch)} ELSE Works
  /\ Move(p, "resave")
  /\ UNCHANGED <<disk, branch, userWork, landed, readonly, historyVars>>

\* Saves the state as rollback loaded it.
Resave(p) ==
  /\ At(p, "resave")
  /\ disk' = proc[p].mem
  /\ Exit(p)
  /\ UNCHANGED <<repoVars, readonly, historyVars>>

\* A run that is not paused is returned unchanged.
Resume(p) ==
  /\ disk.status = "PAUSED"
  /\ tree # Absent
  /\ Begin(p, Job("resume", "resume", disk, <<>>))
  /\ UNCHANGED <<disk, repoVars, readonly, greens, strayed>>

ResumeStarts(p) ==
  /\ At(p, "resume")
  /\ SaveAndMove(p, "ACTING", "loop")
  /\ UNCHANGED <<repoVars, readonly, historyVars>>

-----------------------------------------------------------------------------
\* Ctrl-C in the terminal, a kill, a power failure.
Crash(p) ==
  /\ proc[p] # Idle
  /\ Exit(p)
  /\ AtLeast(Died)
  /\ LeavesUntidy(p)
  /\ UNCHANGED <<disk, repoVars, readonly, greens>>

AtRest == \A p \in Procs : proc[p] = Idle

Rest == AtRest /\ UNCHANGED vars

Create(p)  == StashUserWork(p) \/ AddWorktree(p) \/ AddWorktreeFails(p)
              \/ BuildFails(p) \/ SaveNew(p)
LoopStep(p) == StartWork(p) \/ Work(p) \/ StopWork(p) \/ FinishReview(p)
              \/ AskGate(p) \/ GateIsGreen(p) \/ GateIsRed(p)
              \/ CancelAfterGate(p) \/ Checkpoint(p) \/ StartCommit(p)
Close(p)   == Merge(p) \/ RemoveWorktree(p) \/ DeleteBranch(p) \/ Unstash(p)
              \/ Finish(p)
Command(p) == Approve(p) \/ Reject(p) \/ Rollback(p) \/ Reset(p) \/ Clean(p)
              \/ Resave(p) \/ Resume(p) \/ ResumeStarts(p)

Next ==
  \/ \E p \in Procs : Create(p) \/ LoopStep(p) \/ Close(p) \/ Command(p)
                      \/ GitFails(p) \/ Crash(p)
  \/ Rest

Spec == Init /\ [][Next]_vars

-----------------------------------------------------------------------------
(* Properties *)

States == [status : RunStatuses \cup {"NONE"}, warned : BOOLEAN]

Places == {"idle", "stash", "worktree", "build", "resume", "loop", "gate", "green",
           "offer", "merge", "remove", "unbranch", "unstash", "finish", "reset",
           "clean", "resave"}

Jobs ==
  [at   : Places,
   cmd  : {"none", "run", "resume", "approve", "reject", "rollback"},
   mem  : States,
   goal : Seq(Works)]

\* A rollback goes to a checkpoint, never to the base commit.
JobsOK ==
  /\ proc \in [Procs -> Jobs]
  /\ \A p \in Procs : proc[p].cmd = "rollback" => proc[p].goal # <<>>

TypeOK ==
  /\ disk \in States
  /\ tree \in Works \cup {Absent}
  /\ branch \in Seq(Works) \cup {NoBranch}
  /\ userWork \in {"none", "tree", "stash"}
  /\ landed \in Works \cup {NotLanded}
  /\ readonly \in BOOLEAN
  /\ JobsOK
  /\ greens \subseteq Works
  /\ trouble \in NoTrouble..Tangled
  /\ strayed \in Straight..Astray

\* Whatever the run's shell has committed, whichever approvals, rejections and
\* rollbacks race with a live loop or with each other, and wherever processes
\* die, the user's branch receives only what the gate was green on and no flag
\* was raised on.  Three ways round it are the code's, and history: a loop beside
\* a second loop or a rollback (Tangled), and the approval of a paused run or a
\* rollback to a commit of the shell's (Astray); DoneIsGreen shows one.
OnlyGreenLands ==
  trouble < Tangled /\ strayed < Astray /\ landed # NotLanded
    => landed \in greens \ Flagged

\* With the same exceptions, a run that waits for approval offers a green and
\* unflagged head; and unless a rollback was or is between its two git commands,
\* the worktree the human looks at is that head, whatever the shell left there.
OfferedIsVouched ==
  /\ trouble < Tangled /\ strayed < Astray
  /\ disk.status = "AWAITING_APPROVAL"
  /\ branch # NoBranch
  => /\ HeadOf(branch) \in greens \ Flagged
     /\ strayed = Straight /\ (\A p \in Procs : ~At(p, "clean"))
          => tree \in {HeadOf(branch), Absent}

\* With one command at a time, no command changes how a run ended.
TerminalIsFinal ==
  [][trouble' < Overlapped /\ disk.status \in TerminalStates
       => disk'.status = disk.status]_vars

\* With one command at a time and no crash, a cancelled run left nothing on the
\* user's branch.
CancelledLandsNothing ==
  trouble = NoTrouble /\ disk.status = "CANCELLED" => landed = NotLanded

\* However commands overlap or die, an approve or reject that completes has
\* given the user's uncommitted changes back, or has recorded that it could not.
StashIsReturnedOrReported ==
  [][\A p \in Procs :
       At(p, "finish") /\ ~Loops(p) /\ proc'[p] = Idle /\ disk' # disk
         => userWork # "stash" \/ disk'.warned]_vars

-----------------------------------------------------------------------------
(* Statements of the source and its documents that the code does not keep. *)

\* "A run is DONE-SUCCESS only if: deterministic gate is green" (completion.ts):
\* the gate was green on what a run that is DONE has put on the user's branch.
DoneIsGreen ==
  disk.status = "DONE" /\ ~readonly /\ landed # NotLanded => landed \in greens

\* "DONE/FAILED/CANCELLED are terminal (and already cleaned up their worktree
\* via approve/reject)" (Agent.resume): once a run is terminal, the user's
\* changes are back or the run says that they are not.
TerminalIsCleanedUp ==
  AtRest /\ disk.status \in TerminalStates => userWork # "stash" \/ disk.warned

\* "a crash or Ctrl-C loses at most the in-flight step" (state-store.ts): a run
\* that nobody works on has ended, or waits for a human, or can be resumed.
CrashedRunsCanGoOn ==
  trouble = Died /\ AtRest /\ Saved =>
    disk.status \in TerminalStates \cup {"PAUSED", "AWAITING_APPROVAL", "ESCALATED"}
=============================================================================

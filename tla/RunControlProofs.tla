-------------------------- MODULE RunControlProofs --------------------------
(***************************************************************************)
(* Proofs about RunControl, for any set of processes, any contents and any *)
(* bounds.                                                                 *)
(***************************************************************************)
EXTENDS RunControl, SequenceTheorems, TLAPS

-----------------------------------------------------------------------------
(* What the helpers do to the processes. *)

\* Move changes one process's place and nothing else.
LEMMA MoveEffect ==
  ASSUME JobsOK, NEW p \in Procs, NEW at \in Places, Move(p, at)
  PROVE  /\ JobsOK'
         /\ proc'[p].at = at /\ proc'[p].cmd = proc[p].cmd
         /\ proc'[p].mem = proc[p].mem /\ proc'[p].goal = proc[p].goal
         /\ \A q \in Procs \ {p} : proc'[q] = proc[q]
  BY DEF JobsOK, Move, Jobs

\* Exit makes one process idle.
LEMMA ExitEffect ==
  ASSUME JobsOK, NEW p \in Procs, Exit(p)
  PROVE  /\ JobsOK'
         /\ proc'[p] = Idle
         /\ \A q \in Procs \ {p} : proc'[q] = proc[q]
<1>1. Idle \in Jobs /\ Idle.cmd # "rollback"
  BY DEF Idle, Job, NoState, Jobs, States, Places
<1>2. QED
  BY <1>1 DEF JobsOK, Exit

\* SaveAs writes a run state.
LEMMA SaveAsEffect ==
  ASSUME JobsOK, NEW p \in Procs, NEW status \in RunStatuses, SaveAs(p, status)
  PROVE  disk' \in States /\ disk'.status = status /\ disk'.warned = proc[p].mem.warned
  BY DEF JobsOK, SaveAs, Jobs, States

\* SaveAndMove is a save and a move of a process that keeps what it saved.
LEMMA SaveAndMoveEffect ==
  ASSUME JobsOK, NEW p \in Procs, NEW status \in RunStatuses,
         NEW at \in Places, SaveAndMove(p, status, at)
  PROVE  /\ disk' \in States /\ disk'.status = status
         /\ disk'.warned = proc[p].mem.warned
         /\ JobsOK'
         /\ proc'[p].at = at /\ proc'[p].cmd = proc[p].cmd
         /\ proc'[p].goal = proc[p].goal /\ proc'[p].mem = disk'
         /\ \A q \in Procs \ {p} : proc'[q] = proc[q]
<1>1. disk' \in States /\ disk'.status = status /\ disk'.warned = proc[p].mem.warned
  BY SaveAsEffect DEF SaveAndMove
<1>2. proc' = [proc EXCEPT ![p] = [proc[p] EXCEPT !.mem = disk', !.at = at]]
  BY DEF SaveAndMove, SaveAs, JobsOK, Jobs, States
<1>3. QED
  BY <1>1, <1>2 DEF JobsOK, Jobs

\* SaveAndExit is a save after which the process is idle.
LEMMA SaveAndExitEffect ==
  ASSUME JobsOK, NEW p \in Procs, NEW status \in RunStatuses, SaveAndExit(p, status)
  PROVE  /\ disk' \in States /\ disk'.status = status
         /\ disk'.warned = proc[p].mem.warned
         /\ JobsOK'
         /\ proc'[p] = Idle
         /\ \A q \in Procs \ {p} : proc'[q] = proc[q]
  BY SaveAsEffect, ExitEffect DEF SaveAndExit

\* Begin gives an idle process a command.
LEMMA BeginEffect ==
  ASSUME JobsOK, NEW p \in Procs, NEW command \in Jobs,
         command.cmd = "rollback" => command.goal # <<>>,
         Begin(p, command), trouble \in NoTrouble..Tangled
  PROVE  /\ proc[p] = Idle
         /\ JobsOK'
         /\ proc'[p] = command
         /\ \A q \in Procs \ {p} : proc'[q] = proc[q]
         /\ trouble' \in NoTrouble..Tangled
         /\ trouble' >= trouble
         /\ (\E q \in Procs \ {p} : proc[q] # Idle) => trouble' >= Overlapped
         /\ (\E q \in Procs \ {p} : Tangles(command.cmd, proc[q].cmd)) => trouble' >= Tangled
<1> DEFINE others == {q \in Procs \ {p} : proc[q] # Idle}
           level  == CASE others = {} -> NoTrouble
                       [] \E q \in others : Tangles(command.cmd, proc[q].cmd) -> Tangled
                       [] OTHER -> Overlapped
<1>1. /\ proc[p] = Idle
      /\ proc' = [proc EXCEPT ![p] = command]
      /\ AtLeast(level)
  BY DEF Begin
<1>2. \A q \in Procs : Tangles(command.cmd, proc[q].cmd) => proc[q] # Idle
  BY DEF Tangles, Idle, Job
<1>3. (\E q \in Procs \ {p} : Tangles(command.cmd, proc[q].cmd)) => level = Tangled
  BY <1>2 DEF NoTrouble, Overlapped, Tangled
<1>4. (\E q \in Procs \ {p} : proc[q] # Idle) => level \in {Overlapped, Tangled}
  BY DEF NoTrouble, Overlapped, Tangled
<1>5. level \in {NoTrouble, Overlapped, Tangled}
  OBVIOUS
<1>6. JobsOK' /\ proc'[p] = command /\ \A q \in Procs \ {p} : proc'[q] = proc[q]
  BY <1>1 DEF JobsOK
<1> HIDE DEF level
<1>7. trouble' = (IF trouble < level THEN level ELSE trouble)
  BY <1>1 DEF AtLeast
<1>8. QED
  BY <1>1, <1>3, <1>4, <1>5, <1>6, <1>7 DEF NoTrouble, Overlapped, Tangled

\* Strays moves one way.
LEMMA StraysEffect ==
  ASSUME strayed \in Straight..Astray, NEW level \in Straight..Astray, Strays(level)
  PROVE  strayed' \in Straight..Astray /\ strayed' >= strayed /\ strayed' >= level
  BY DEF Strays, Straight, Astray

\* So does the end of a process, and after half a rollback it leaves a mark.
LEMMA LeavesUntidyEffect ==
  ASSUME strayed \in Straight..Astray, NEW p \in Procs, LeavesUntidy(p)
  PROVE  /\ strayed' \in Straight..Astray /\ strayed' >= strayed
         /\ At(p, "clean") => strayed' >= Untidy
<1>1. Straight \in Straight..Astray /\ Untidy \in Straight..Astray
  BY DEF Straight, Untidy, Astray
<1> QED
  BY <1>1, StraysEffect DEF LeavesUntidy

\* Unstash sets the warning of one process and moves it on.
LEMMA UnstashEffect ==
  ASSUME JobsOK, NEW p \in Procs, Unstash(p)
  PROVE  /\ JobsOK'
         /\ proc'[p].at = "finish" /\ proc'[p].cmd = proc[p].cmd
         /\ proc'[p].mem.status = proc[p].mem.status
         /\ proc'[p].goal = proc[p].goal
         /\ ~Loops(p) /\ userWork' = "stash" => proc'[p].mem.warned
         /\ \A q \in Procs \ {p} : proc'[q] = proc[q]
<1>1. PICK failed \in BOOLEAN :
        /\ userWork' = IF failed \/ userWork = "none" THEN userWork ELSE "tree"
        /\ proc' = [proc EXCEPT ![p].at = "finish", ![p].mem.warned = Warning(p, failed)]
  BY Zenon DEF Unstash
<1>2. PICK w : w = Warning(p, failed)
  OBVIOUS
<1>3. w \in BOOLEAN /\ (~Loops(p) /\ userWork' = "stash" => w = TRUE)
  BY <1>1, <1>2, Zenon DEF Warning
<1>4. proc' = [proc EXCEPT ![p] = [proc[p] EXCEPT !.at = "finish",
                                    !.mem = [proc[p].mem EXCEPT !.warned = w]]]
  BY <1>1, <1>2 DEF JobsOK, Jobs, States
<1>5. [proc[p].mem EXCEPT !.warned = w] \in States
  BY <1>3 DEF JobsOK, Jobs, States
<1>6. JobsOK'
  BY <1>4, <1>5 DEF JobsOK, Jobs, Places
<1>7. QED
  BY <1>3, <1>4, <1>6 DEF JobsOK, Jobs, States

-----------------------------------------------------------------------------
(* Types *)

\* A checkpoint to roll back to is a beginning of the branch, and not empty.
LEMMA CheckpointFacts ==
  ASSUME branch \in Seq(Works), NEW goal \in Checkpoints
  PROVE  /\ goal \in Seq(Works)
         /\ goal # <<>>
         /\ \A i \in DOMAIN goal : i \in DOMAIN branch /\ goal[i] = branch[i]
<1>1. PICK i \in DOMAIN branch : goal = SubSeq(branch, 1, i)
  BY DEF Checkpoints
<1>2. i \in 1..Len(branch)
  BY <1>1, LenProperties
<1>3. /\ goal \in Seq(Works)
      /\ Len(goal) = i
      /\ \A j \in 1..i : goal[j] = branch[j]
  BY <1>1, <1>2, SubSeqProperties, LenProperties
<1>4. QED
  BY <1>2, <1>3, LenProperties, EmptySeq

\* The head of a branch is one of the contents.
LEMMA HeadType ==
  ASSUME NEW commits \in Seq(Works)
  PROVE  /\ HeadOf(commits) \in Works
         /\ commits # <<>> => /\ Last(commits) \in Works
                              /\ Len(commits) \in DOMAIN commits
                              /\ Last(commits) = commits[Len(commits)]
  BY LenProperties, EmptySeq, RunControlAssumption DEF HeadOf, Last

\* A run begins well-typed.
LEMMA InitTypeOK == Init => TypeOK
<1> SUFFICES ASSUME Init PROVE TypeOK
  OBVIOUS
<1> DEFINE job == Job("run", "stash", NoState, <<>>)
<1>1. PICK p \in Procs : proc = [q \in Procs |-> IF q = p THEN job ELSE Idle]
  BY DEF Init
<1>2. /\ Idle \in Jobs /\ Idle.cmd = "none" /\ NoState \in States
      /\ job \in Jobs /\ job.cmd = "run"
  BY DEF Idle, Job, NoState, Jobs, States, Places
<1> HIDE DEF job
<1>3. JobsOK
  BY <1>1, <1>2 DEF JobsOK
<1>4. QED
  BY <1>2, <1>3 DEF Init, TypeOK, NoTrouble, Tangled, Straight, Astray

\* The steps that create a run keep the types.
LEMMA CreateTypeOK ==
  ASSUME TypeOK, NEW p \in Procs, Create(p)
  PROVE  TypeOK'
<1> USE DEF TypeOK
<1>1. CASE StashUserWork(p)
  BY <1>1, MoveEffect DEF StashUserWork, historyVars, Places
<1>2. CASE AddWorktree(p)
  BY <1>2, MoveEffect, RunControlAssumption DEF AddWorktree, historyVars, Places
<1>3. CASE AddWorktreeFails(p)
  BY <1>3, ExitEffect DEF AddWorktreeFails, historyVars, Idle
<1>4. CASE BuildFails(p)
  BY <1>4, ExitEffect DEF BuildFails, repoVars, historyVars, Idle
<1>5. CASE SaveNew(p)
  BY <1>5, SaveAndMoveEffect DEF SaveNew, repoVars, historyVars, RunStatuses, Places
<1>6. QED
  BY <1>1, <1>2, <1>3, <1>4, <1>5 DEF Create

\* The loop's steps keep the types.
LEMMA LoopStepTypeOK ==
  ASSUME TypeOK, NEW p \in Procs, LoopStep(p)
  PROVE  TypeOK'
<1> USE DEF TypeOK
<1>1. CASE StartWork(p) \/ AskGate(p) \/ StartCommit(p)
  BY <1>1, SaveAndMoveEffect
     DEF StartWork, AskGate, StartCommit, repoVars, historyVars, RunStatuses, Places
<1>2. CASE Work(p)
  <2>1. branch' \in Seq(Works) \cup {NoBranch}
    BY <1>2, AppendProperties DEF Work, ShellCommits
  <2>2. QED
    BY <1>2, <2>1, SaveAsEffect DEF Work, Loop, JobsOK, historyVars, RunStatuses
<1>3. CASE StopWork(p) \/ FinishReview(p) \/ CancelAfterGate(p)
  BY <1>3, SaveAndExitEffect
     DEF StopWork, FinishReview, CancelAfterGate, repoVars, historyVars,
         RunStatuses, Idle
<1>4. CASE GateIsGreen(p)
  BY <1>4, MoveEffect DEF GateIsGreen, repoVars, Places
<1>5. CASE GateIsRed(p)
  BY <1>5, SaveAndMoveEffect, SaveAndExitEffect
     DEF GateIsRed, repoVars, historyVars, RunStatuses, Places, Idle
<1>6. CASE Checkpoint(p)
  <2>1. branch' \in Seq(Works)
    BY <1>6, AppendProperties DEF Checkpoint
  <2>2. CASE SaveAndMove(p, "AWAITING_APPROVAL", "offer")
    BY <1>6, <2>1, <2>2, SaveAndMoveEffect
       DEF Checkpoint, historyVars, RunStatuses, Places
  <2>3. CASE SaveAndExit(p, "AWAITING_APPROVAL") \/ SaveAndExit(p, "ESCALATED")
    BY <1>6, <2>1, <2>3, SaveAndExitEffect
       DEF Checkpoint, historyVars, RunStatuses, Idle
  <2>4. QED
    BY <1>6, <2>2, <2>3 DEF Checkpoint
<1>7. QED
  BY <1>1, <1>2, <1>3, <1>4, <1>5, <1>6 DEF LoopStep

\* The steps that land or discard a run keep the types.
LEMMA CloseTypeOK ==
  ASSUME TypeOK, NEW p \in Procs, Close(p)
  PROVE  TypeOK'
<1> USE DEF TypeOK
<1>1. CASE Merge(p)
  <2>1. landed' \in Works \cup {NotLanded}
    BY <1>1, HeadType DEF Merge, Merged
  <2>2. QED
    BY <1>1, <2>1, MoveEffect DEF Merge, historyVars, Places
<1>2. CASE RemoveWorktree(p)
  BY <1>2, MoveEffect DEF RemoveWorktree, historyVars, Places
<1>3. CASE DeleteBranch(p)
  BY <1>3, MoveEffect DEF DeleteBranch, historyVars, Places
<1>4. CASE Unstash(p)
  <2>1. JobsOK'
    BY <1>4, UnstashEffect
  <2>2. QED
    BY <1>4, <2>1 DEF Unstash, historyVars
<1>5. CASE Finish(p)
  BY <1>5, SaveAndExitEffect
     DEF Finish, repoVars, historyVars, RunStatuses, Idle
<1>6. QED
  BY <1>1, <1>2, <1>3, <1>4, <1>5 DEF Close

\* The commands keep the types.
LEMMA CommandTypeOK ==
  ASSUME TypeOK, NEW p \in Procs, Command(p)
  PROVE  TypeOK'
<1> USE DEF TypeOK
<1>0. Straight \in Straight..Astray /\ Astray \in Straight..Astray
  BY DEF Straight, Astray
<1>1. CASE Approve(p)
  <2> DEFINE job == Job("approve", "merge", [disk EXCEPT !.status = "COMMITTING"], <<>>)
  <2>1. job \in Jobs /\ job.cmd # "rollback"
    BY DEF Job, Jobs, States, RunStatuses, Places
  <2>2. QED
    BY <1>1, <2>1, <1>0, BeginEffect, StraysEffect DEF Approve, repoVars
<1>2. CASE Reject(p)
  <2> DEFINE job == Job("reject", "remove", [disk EXCEPT !.status = "CANCELLED"], <<>>)
  <2>1. job \in Jobs /\ job.cmd # "rollback"
    BY DEF Job, Jobs, States, RunStatuses, Places
  <2>2. QED
    BY <1>2, <2>1, BeginEffect DEF Reject, repoVars
<1>3. CASE Rollback(p)
  <2>1. PICK goal \in Checkpoints :
          /\ Begin(p, Job("rollback", "reset", disk, goal))
          /\ Strays(IF HeadOf(goal) \in greens \ Flagged THEN Straight ELSE Astray)
    BY <1>3 DEF Rollback
  <2>2. goal \in Seq(Works) /\ goal # <<>>
    BY <1>3, CheckpointFacts DEF Rollback
  <2>3. /\ Job("rollback", "reset", disk, goal) \in Jobs
        /\ Job("rollback", "reset", disk, goal).goal # <<>>
    BY <2>2 DEF Job, Jobs, Places
  <2>4. QED
    BY <1>3, <2>1, <2>3, <1>0, BeginEffect, StraysEffect DEF Rollback, repoVars
<1>4. CASE Resume(p)
  <2> DEFINE job == Job("resume", "resume", disk, <<>>)
  <2>1. job \in Jobs /\ job.cmd # "rollback"
    BY DEF Job, Jobs, Places
  <2>2. QED
    BY <1>4, <2>1, BeginEffect DEF Resume, repoVars
<1>5. CASE Reset(p)
  <2>1. proc[p].goal \in Seq(Works)
    BY DEF JobsOK, Jobs
  <2>2. QED
    BY <1>5, <2>1, MoveEffect DEF Reset, historyVars, Places
<1>9. CASE Clean(p)
  <2>1. branch \in Seq(Works) => HeadOf(branch) \in Works
    BY HeadType
  <2>2. tree' \in Works
    BY <1>9, <2>1, RunControlAssumption DEF Clean
  <2>3. QED
    BY <1>9, <2>2, MoveEffect DEF Clean, historyVars, Places
<1>6. CASE Resave(p)
  <2>1. disk' \in States
    BY <1>6 DEF Resave, JobsOK, Jobs
  <2>2. QED
    BY <1>6, <2>1, ExitEffect DEF Resave, repoVars, historyVars, Idle
<1>7. CASE ResumeStarts(p)
  BY <1>7, SaveAndMoveEffect DEF ResumeStarts, repoVars, historyVars, RunStatuses, Places
<1>8. QED
  BY <1>1, <1>2, <1>3, <1>4, <1>5, <1>6, <1>7, <1>9 DEF Command

\* Every step keeps the types.
LEMMA StepTypeOK ==
  ASSUME TypeOK, [Next]_vars
  PROVE  TypeOK'
<1>1. ASSUME NEW p \in Procs, GitFails(p)
      PROVE  TypeOK'
  BY <1>1, ExitEffect, LeavesUntidyEffect DEF TypeOK, GitFails, repoVars, Idle
<1>2. ASSUME NEW p \in Procs, Crash(p)
      PROVE  TypeOK'
  <2>1. trouble' \in NoTrouble..Tangled
    BY <1>2 DEF Crash, AtLeast, TypeOK, NoTrouble, Died, Tangled
  <2>2. QED
    BY <1>2, <2>1, ExitEffect, LeavesUntidyEffect DEF TypeOK, Crash, repoVars, Idle
<1>3. CASE UNCHANGED vars
  BY <1>3 DEF TypeOK, JobsOK, vars, repoVars, historyVars
<1>4. QED
  BY <1>1, <1>2, <1>3, CreateTypeOK, LoopStepTypeOK, CloseTypeOK, CommandTypeOK
     DEF Next, Rest

\* Every variable keeps its type.
THEOREM TypeCorrect == Spec => []TypeOK
<1>1. TypeOK /\ [Next]_vars => TypeOK'
  BY StepTypeOK
<1>2. QED
  BY InitTypeOK, <1>1, PTL DEF Spec

-----------------------------------------------------------------------------
(* What a step of one process does to its command. *)

Step(p) == \/ Create(p) \/ LoopStep(p) \/ Close(p) \/ Command(p)
           \/ GitFails(p) \/ Crash(p)

LoopPlaces     == {"stash", "worktree", "build", "resume", "loop", "gate", "green", "offer"}
RollbackPlaces == {"reset", "clean", "resave"}

\* A command is where its kind can be.
PlaceOK(job) == /\ job.at \in LoopPlaces => job.cmd \in {"run", "resume"}
                /\ job.at \in RollbackPlaces <=> job.cmd = "rollback"
                /\ job.at = "merge" => job.cmd # "reject"

\* The process is at the same command after the step.
Continues(p) == /\ proc[p] # Idle
                /\ proc'[p].cmd = proc[p].cmd
                /\ proc'[p].goal = proc[p].goal
                /\ proc'[p].at \in LoopPlaces => proc[p].at \in LoopPlaces
                /\ proc'[p].at \in RollbackPlaces <=> proc[p].at \in RollbackPlaces
                /\ proc'[p].at = "merge" => proc[p].at \in LoopPlaces
                /\ trouble' = trouble

Ends(p) == proc[p] # Idle /\ proc'[p] = Idle /\ trouble' >= trouble

\* The process begins a command.
Starts(p) == /\ proc[p] = Idle
             /\ Saved
             /\ PlaceOK(proc'[p])
             /\ proc'[p].at \notin {"stash", "worktree", "build", "green", "finish"}
             /\ IF proc'[p].cmd = "rollback"
                  THEN proc'[p].mem = disk /\ proc'[p].goal \in Checkpoints /\ branch # NoBranch
                  ELSE disk.status \notin TerminalStates
             /\ UNCHANGED <<disk, repoVars, readonly, greens>>
             /\ trouble' >= trouble
             /\ (\E q \in Procs \ {p} : proc[q] # Idle) => trouble' >= Overlapped
             /\ (\E q \in Procs \ {p} : Tangles(proc'[p].cmd, proc[q].cmd))
                  => trouble' >= Tangled
             /\ proc'[p].cmd # "run"

OthersStay(p) == \A q \in Procs \ {p} : proc'[q] = proc[q]

\* A process that is anywhere is at a command.
LEMMA NotIdle ==
  ASSUME NEW p \in Procs, proc[p].at # "idle"
  PROVE  proc[p] # Idle
  BY DEF Idle, Job

\* A step of the creation continues its command or ends it.
LEMMA CreateShape ==
  ASSUME TypeOK, NEW p \in Procs, Create(p)
  PROVE  OthersStay(p) /\ (Continues(p) \/ Ends(p))
<1>1. JobsOK /\ trouble \in Int
  BY DEF TypeOK, NoTrouble, Tangled
<1>2. CASE StashUserWork(p)
  BY <1>1, <1>2, NotIdle, MoveEffect
     DEF StashUserWork, At, Places, OthersStay, Continues, LoopPlaces, RollbackPlaces,
         historyVars
<1>3. CASE AddWorktree(p)
  BY <1>1, <1>3, NotIdle, MoveEffect
     DEF AddWorktree, At, Places, OthersStay, Continues, LoopPlaces, RollbackPlaces,
         historyVars
<1>4. CASE AddWorktreeFails(p) \/ BuildFails(p)
  BY <1>1, <1>4, NotIdle, ExitEffect
     DEF AddWorktreeFails, BuildFails, At, OthersStay, Ends, historyVars
<1>5. CASE SaveNew(p)
  BY <1>1, <1>5, NotIdle, SaveAndMoveEffect
     DEF SaveNew, At, Places, RunStatuses, OthersStay, Continues, LoopPlaces,
         RollbackPlaces, historyVars
<1>6. QED
  BY <1>2, <1>3, <1>4, <1>5 DEF Create

\* What a red gate and a checkpoint do to their process, and what they save.
LEMMA GateEnds ==
  ASSUME TypeOK, NEW p \in Procs, GateIsRed(p) \/ Checkpoint(p)
  PROVE  /\ proc[p].at \in {"gate", "green"} /\ OthersStay(p) /\ UNCHANGED trouble
         /\ \/ proc'[p] = Idle
            \/ /\ proc'[p].at \in {"loop", "offer"}
               /\ proc'[p].cmd = proc[p].cmd /\ proc'[p].goal = proc[p].goal
               /\ disk'.status \in {"ACTING", "AWAITING_APPROVAL"}
<1>1. JobsOK
  BY DEF TypeOK
<1>2. CASE GateIsRed(p)
  <2>1. CASE SaveAndMove(p, "ACTING", "loop")
    BY <1>1, <1>2, <2>1, SaveAndMoveEffect
       DEF GateIsRed, At, Places, RunStatuses, OthersStay, historyVars
  <2>2. CASE \E status \in {"ESCALATED", "FAILED"} : SaveAndExit(p, status)
    BY <1>1, <1>2, <2>2, SaveAndExitEffect
       DEF GateIsRed, At, RunStatuses, OthersStay, historyVars
  <2>3. QED
    BY <1>2, <2>1, <2>2 DEF GateIsRed
<1>3. CASE Checkpoint(p)
  <2>1. CASE SaveAndMove(p, "AWAITING_APPROVAL", "offer")
    BY <1>1, <1>3, <2>1, SaveAndMoveEffect
       DEF Checkpoint, At, Places, RunStatuses, OthersStay, historyVars
  <2>2. CASE SaveAndExit(p, "AWAITING_APPROVAL") \/ SaveAndExit(p, "ESCALATED")
    BY <1>1, <1>3, <2>2, SaveAndExitEffect
       DEF Checkpoint, At, RunStatuses, OthersStay, historyVars
  <2>3. QED
    BY <1>3, <2>1, <2>2 DEF Checkpoint
<1>4. QED
  BY <1>2, <1>3

\* So does a step of the loop.
LEMMA LoopStepShape ==
  ASSUME TypeOK, NEW p \in Procs, LoopStep(p)
  PROVE  OthersStay(p) /\ (Continues(p) \/ Ends(p))
<1>1. JobsOK /\ trouble \in Int
  BY DEF TypeOK, NoTrouble, Tangled
<1>2. CASE StartWork(p) \/ AskGate(p) \/ StartCommit(p)
  <2>1. CASE StartWork(p)
    BY <1>1, <2>1, NotIdle, SaveAndMoveEffect
       DEF StartWork, Loop, At, Places, RunStatuses, OthersStay, Continues, LoopPlaces,
           RollbackPlaces, historyVars
  <2>2. CASE AskGate(p)
    BY <1>1, <2>2, NotIdle, SaveAndMoveEffect
       DEF AskGate, Loop, At, Places, RunStatuses, OthersStay, Continues, LoopPlaces,
           RollbackPlaces, historyVars
  <2>3. CASE StartCommit(p)
    BY <1>1, <2>3, NotIdle, SaveAndMoveEffect
       DEF StartCommit, At, Places, RunStatuses, OthersStay, Continues, LoopPlaces,
           RollbackPlaces, historyVars
  <2>4. QED
    BY <1>2, <2>1, <2>2, <2>3
<1>3. CASE Work(p)
  BY <1>3, NotIdle DEF Work, Loop, At, OthersStay, Continues, historyVars
<1>4. CASE StopWork(p) \/ FinishReview(p) \/ CancelAfterGate(p)
  BY <1>1, <1>4, NotIdle, SaveAndExitEffect
     DEF StopWork, FinishReview, CancelAfterGate, Loop, At, RunStatuses, OthersStay,
         Ends, historyVars
<1>5. CASE GateIsGreen(p)
  BY <1>1, <1>5, NotIdle, MoveEffect
     DEF GateIsGreen, At, Places, OthersStay, Continues, LoopPlaces, RollbackPlaces
<1>6. CASE GateIsRed(p) \/ Checkpoint(p)
  <2>1. proc[p].at \in LoopPlaces \ RollbackPlaces /\ proc[p] # Idle
    BY <1>6, GateEnds, NotIdle DEF LoopPlaces, RollbackPlaces
  <2>2. QED
    BY <1>1, <1>6, <2>1, GateEnds DEF Continues, Ends, LoopPlaces, RollbackPlaces
<1>8. QED
  BY <1>2, <1>3, <1>4, <1>5, <1>6 DEF LoopStep

\* So does a step that lands or discards a run.
LEMMA CloseShape ==
  ASSUME TypeOK, NEW p \in Procs, Close(p)
  PROVE  OthersStay(p) /\ (Continues(p) \/ Ends(p))
<1>1. JobsOK /\ trouble \in Int
  BY DEF TypeOK, NoTrouble, Tangled
<1>2. CASE Merge(p) \/ RemoveWorktree(p) \/ DeleteBranch(p)
  BY <1>1, <1>2, NotIdle, MoveEffect
     DEF Merge, RemoveWorktree, DeleteBranch, At, Places, OthersStay, Continues,
         LoopPlaces, RollbackPlaces, historyVars
<1>3. CASE Unstash(p)
  BY <1>1, <1>3, NotIdle, UnstashEffect
     DEF Unstash, At, OthersStay, Continues, LoopPlaces, RollbackPlaces, historyVars
<1>4. CASE Finish(p)
  BY <1>1, <1>4, NotIdle, SaveAndExitEffect
     DEF Finish, At, RunStatuses, OthersStay, Ends, historyVars
<1>5. QED
  BY <1>2, <1>3, <1>4 DEF Close

\* A step of a command may also start it.
LEMMA CommandShape ==
  ASSUME TypeOK, NEW p \in Procs, Command(p)
  PROVE  OthersStay(p) /\ (Continues(p) \/ Ends(p) \/ Starts(p))
<1>1. JobsOK /\ trouble \in NoTrouble..Tangled /\ trouble \in Int /\ disk \in States
  BY DEF TypeOK, NoTrouble, Tangled
<1>2. CASE Reset(p)
  BY <1>1, <1>2, NotIdle, MoveEffect
     DEF Reset, At, Places, OthersStay, Continues, LoopPlaces, RollbackPlaces, historyVars
<1>11. CASE Clean(p)
  BY <1>1, <1>11, NotIdle, MoveEffect
     DEF Clean, At, Places, OthersStay, Continues, LoopPlaces, RollbackPlaces, historyVars
<1>3. CASE Resave(p)
  BY <1>1, <1>3, NotIdle, ExitEffect DEF Resave, At, OthersStay, Ends, historyVars
<1>4. CASE ResumeStarts(p)
  BY <1>1, <1>4, NotIdle, SaveAndMoveEffect
     DEF ResumeStarts, At, Places, RunStatuses, OthersStay, Continues, LoopPlaces,
         RollbackPlaces, historyVars
<1>5. ASSUME NEW command \in Jobs,
             Begin(p, command),
             command.cmd = "rollback" => command.goal # <<>>,
             PlaceOK(command),
             command.at \notin {"stash", "worktree", "build", "green", "finish"},
             command.cmd # "run",
             Saved,
             IF command.cmd = "rollback"
               THEN command.mem = disk /\ command.goal \in Checkpoints /\ branch # NoBranch
               ELSE disk.status \notin TerminalStates,
             UNCHANGED <<disk, repoVars, readonly, greens>>
      PROVE  OthersStay(p) /\ Starts(p)
  BY <1>1, <1>5, BeginEffect DEF OthersStay, Starts
<1>6. CASE Approve(p)
  <2> DEFINE job == Job("approve", "merge", [disk EXCEPT !.status = "COMMITTING"], <<>>)
  <2>1. job \in Jobs /\ job.cmd = "approve" /\ PlaceOK(job) /\ job.at = "merge"
    BY <1>1 DEF Job, Jobs, States, RunStatuses, Places, PlaceOK, LoopPlaces, RollbackPlaces
  <2>2. disk.status \notin TerminalStates
    BY <1>6 DEF Approve, Accepts, CanTransition
  <2> HIDE DEF job
  <2>3. QED
    BY <1>5, <1>6, <2>1, <2>2 DEF Approve, job
<1>7. CASE Reject(p)
  <2> DEFINE job == Job("reject", "remove", [disk EXCEPT !.status = "CANCELLED"], <<>>)
  <2>1. job \in Jobs /\ job.cmd = "reject" /\ PlaceOK(job) /\ job.at = "remove"
    BY <1>1 DEF Job, Jobs, States, RunStatuses, Places, PlaceOK, LoopPlaces, RollbackPlaces
  <2>2. disk.status \notin TerminalStates
    BY <1>7 DEF Reject, Accepts, CanTransition
  <2> HIDE DEF job
  <2>3. QED
    BY <1>5, <1>7, <2>1, <2>2 DEF Reject, job
<1>8. CASE Rollback(p)
  <2>1. PICK goal \in Checkpoints : Begin(p, Job("rollback", "reset", disk, goal))
    BY <1>8 DEF Rollback
  <2> DEFINE job == Job("rollback", "reset", disk, goal)
  <2>2. goal \in Seq(Works) /\ goal # <<>> /\ branch # NoBranch
    BY <1>8, CheckpointFacts DEF Rollback, TypeOK
  <2>3. /\ job \in Jobs /\ job.cmd = "rollback" /\ job.goal = goal /\ PlaceOK(job)
        /\ job.at = "reset" /\ job.mem = disk
    BY <1>1, <2>2 DEF Job, Jobs, Places, PlaceOK, LoopPlaces, RollbackPlaces
  <2> HIDE DEF job
  <2>4. QED
    BY <1>5, <1>8, <2>1, <2>2, <2>3 DEF Rollback, job
<1>9. CASE Resume(p)
  <2> DEFINE job == Job("resume", "resume", disk, <<>>)
  <2>1. job \in Jobs /\ job.cmd = "resume" /\ PlaceOK(job) /\ job.at = "resume"
    BY <1>1 DEF Job, Jobs, Places, PlaceOK, LoopPlaces, RollbackPlaces
  <2>2. disk.status \notin TerminalStates /\ Saved
    BY <1>9 DEF Resume, TerminalStates, Saved
  <2> HIDE DEF job
  <2>3. QED
    BY <1>5, <1>9, <2>1, <2>2 DEF Resume, job
<1>10. QED
  BY <1>2, <1>3, <1>4, <1>6, <1>7, <1>8, <1>9, <1>11 DEF Command

\* Every step of a process continues, ends or starts its command.
LEMMA StepShape ==
  ASSUME TypeOK, NEW p \in Procs, Step(p)
  PROVE  /\ OthersStay(p)
         /\ Continues(p) \/ Ends(p) \/ Starts(p)
<1>1. JobsOK /\ trouble \in Int
  BY DEF TypeOK, NoTrouble, Tangled
<1>2. CASE GitFails(p)
  BY <1>1, <1>2, NotIdle, ExitEffect DEF GitFails, Loop, At, OthersStay, Ends
<1>3. CASE Crash(p)
  BY <1>1, <1>3, ExitEffect DEF Crash, AtLeast, Died, OthersStay, Ends
<1>4. QED
  BY <1>2, <1>3, CreateShape, LoopStepShape, CloseShape, CommandShape DEF Step

\* Every step is one process's, or changes nothing.
LEMMA NextIsStep ==
  ASSUME [Next]_vars
  PROVE  (\E p \in Procs : Step(p)) \/ UNCHANGED vars
  BY DEF Next, Step, Rest

-----------------------------------------------------------------------------
(* Where commands are, and which of them are at the run at once. *)

PlaceInv == \A p \in Procs : PlaceOK(proc[p])

Untangled == \A p, q \in Procs : p # q => ~Tangles(proc[p].cmd, proc[q].cmd)

LoopInv == trouble < Tangled => Untangled

\* A run begins with one process, which is where it may be.
LEMMA InitPlaces == Init => PlaceInv /\ LoopInv
<1> SUFFICES ASSUME Init PROVE PlaceInv /\ LoopInv
  OBVIOUS
<1> DEFINE job == Job("run", "stash", NoState, <<>>)
<1>1. PICK p \in Procs : proc = [q \in Procs |-> IF q = p THEN job ELSE Idle]
  BY DEF Init
<1>2. PlaceOK(job) /\ PlaceOK(Idle) /\ Idle.cmd = "none"
  BY DEF Job, Idle, PlaceOK, LoopPlaces, RollbackPlaces
<1> HIDE DEF job
<1>3. \A q \in Procs \ {p} : proc[q].cmd = "none"
  BY <1>1, <1>2
<1>4. QED
  BY <1>1, <1>2, <1>3 DEF PlaceInv, LoopInv, Untangled, Tangles

\* Every step keeps commands where they may be.
LEMMA StepPlaceInv ==
  ASSUME TypeOK, PlaceInv, [Next]_vars
  PROVE  PlaceInv'
<1>1. PlaceOK(Idle)
  BY DEF Job, Idle, PlaceOK, LoopPlaces, RollbackPlaces
<1>2. ASSUME NEW p \in Procs, Step(p)
      PROVE  PlaceInv'
  <2>1. PlaceOK(proc[p])
    BY DEF PlaceInv
  <2>2. CASE Continues(p)
    <3>1. PlaceOK(proc'[p])
      BY <2>1, <2>2 DEF PlaceOK, Continues
    <3>2. QED
      BY <1>2, <3>1, StepShape DEF PlaceInv, OthersStay
  <2>3. CASE Ends(p)
    BY <1>1, <1>2, <2>3, StepShape DEF PlaceInv, OthersStay, Ends
  <2>4. CASE Starts(p)
    BY <1>2, <2>4, StepShape DEF PlaceInv, OthersStay, Starts
  <2>5. QED
    BY <1>2, <2>2, <2>3, <2>4, StepShape
<1>3. CASE UNCHANGED vars
  BY <1>3 DEF PlaceInv, vars
<1>4. QED
  BY <1>2, <1>3, NextIsStep

\* Before two commands tangle no step makes two.
LEMMA StepLoopInv ==
  ASSUME TypeOK, LoopInv, [Next]_vars
  PROVE  LoopInv'
<1>1. ASSUME NEW p \in Procs, Step(p), trouble' < Tangled
      PROVE  Untangled'
  <2>1. /\ trouble \in Int /\ trouble' >= trouble /\ trouble' \in Int
        /\ OthersStay(p)
        /\ Continues(p) \/ Ends(p) \/ Starts(p)
    <3>1. trouble \in NoTrouble..Tangled /\ trouble' \in NoTrouble..Tangled
      BY StepTypeOK DEF TypeOK
    <3>2. QED
      BY <1>1, <3>1, StepShape DEF Continues, Ends, Starts, NoTrouble, Tangled
  <2>2. Untangled
    BY <1>1, <2>1 DEF LoopInv, Tangled
  <2>3. \A q \in Procs \ {p} : ~Tangles(proc'[p].cmd, proc[q].cmd)
    <3>1. CASE Continues(p)
      BY <2>2, <3>1 DEF Continues, Untangled
    <3>2. CASE Ends(p)
      BY <3>2 DEF Ends, Idle, Job, Tangles
    <3>3. CASE Starts(p)
      BY <1>1, <2>1, <3>3 DEF Starts, Tangled
    <3>4. QED
      BY <2>1, <3>1, <3>2, <3>3
  <2>4. \A q, r \in Procs : Tangles(proc'[q].cmd, proc'[r].cmd) => Tangles(proc'[r].cmd, proc'[q].cmd)
    BY DEF Tangles
  <2>5. \A q \in Procs \ {p} : proc'[q] = proc[q]
    BY <2>1 DEF OthersStay
  <2>6. QED
    BY <2>2, <2>3, <2>4, <2>5 DEF Untangled
<1>2. CASE UNCHANGED vars
  BY <1>2 DEF LoopInv, Untangled, vars, historyVars
<1>3. QED
  BY <1>1, <1>2, NextIsStep DEF LoopInv


-----------------------------------------------------------------------------
(* A run that has ended stays as it ended: with one command at a time, either *)
(* nothing runs, or a rollback that saves what it loaded, or a command whose  *)
(* run has not ended.                                                         *)

OneCommand == \A p, q \in Procs : proc[p] # Idle /\ proc[q] # Idle => p = q

Unended(p) == IF proc[p].cmd = "rollback" THEN proc[p].mem = disk
                                          ELSE disk.status \notin TerminalStates

FinalInv == trouble < Overlapped =>
              OneCommand /\ \A p \in Procs : proc[p] # Idle => Unended(p)

\* A run begins with one command, and no state.
LEMMA InitFinalInv == Init => FinalInv
<1> SUFFICES ASSUME Init PROVE FinalInv
  OBVIOUS
<1> DEFINE job == Job("run", "stash", NoState, <<>>)
<1>1. PICK p \in Procs : proc = [q \in Procs |-> IF q = p THEN job ELSE Idle]
  BY DEF Init
<1>2. job.cmd # "rollback" /\ NoState.status \notin TerminalStates
  BY DEF Job, NoState, TerminalStates
<1> HIDE DEF job
<1>3. QED
  BY <1>1, <1>2 DEF Init, FinalInv, OneCommand, Unended

\* A rollback moves the worktree, saves what it loaded, fails or dies.
LEMMA RollbackSteps ==
  ASSUME TypeOK, NEW p \in Procs, PlaceOK(proc[p]), proc[p].cmd = "rollback", Step(p)
  PROVE  /\ disk' \in {disk, proc[p].mem}
         /\ proc'[p] # Idle => disk' = disk /\ proc'[p].mem = proc[p].mem
<1>1. proc[p].at \in {"reset", "clean", "resave"} /\ proc[p] # Idle /\ JobsOK
  BY DEF PlaceOK, RollbackPlaces, Idle, Job, TypeOK
<1>2. ~Create(p) /\ ~LoopStep(p) /\ ~Close(p)
  BY <1>1 DEF Create, StashUserWork, AddWorktree, AddWorktreeFails, BuildFails, SaveNew,
              LoopStep, StartWork, Work, StopWork, FinishReview, AskGate, GateIsGreen,
              GateIsRed, CancelAfterGate, Checkpoint, StartCommit,
              Close, Merge, RemoveWorktree, DeleteBranch, Unstash, Finish, Loop, At
<1>3. ~Approve(p) /\ ~Reject(p) /\ ~Rollback(p) /\ ~Resume(p) /\ ~ResumeStarts(p)
  BY <1>1 DEF Approve, Reject, Rollback, Resume, ResumeStarts, Begin, At
<1>4. CASE Reset(p) \/ Clean(p)
  BY <1>1, <1>4, MoveEffect DEF Reset, Clean, Places
<1>5. CASE Resave(p) \/ GitFails(p) \/ Crash(p)
  BY <1>1, <1>5, ExitEffect DEF Resave, GitFails, Crash
<1>6. QED
  BY <1>2, <1>3, <1>4, <1>5 DEF Step, Command

\* A command that goes on saves no end.
LEMMA GoingOnSavesNoEnd ==
  ASSUME TypeOK, NEW p \in Procs, Step(p), proc'[p] # Idle
  PROVE  disk' = disk \/ disk'.status \notin TerminalStates
<1>1. JobsOK
  BY DEF TypeOK
<1>2. CASE Create(p)
  BY <1>1, <1>2, ExitEffect, SaveAndMoveEffect
     DEF Create, StashUserWork, AddWorktree, AddWorktreeFails, BuildFails, SaveNew,
         RunStatuses, TerminalStates, Places
<1>3. CASE LoopStep(p)
  <2>1. CASE Work(p)
    BY <1>1, <2>1, SaveAsEffect DEF Work, RunStatuses, TerminalStates
  <2>2. CASE StopWork(p) \/ FinishReview(p) \/ CancelAfterGate(p)
    BY <1>1, <2>2, SaveAndExitEffect DEF StopWork, FinishReview, CancelAfterGate, RunStatuses
  <2>3. CASE StartWork(p) \/ AskGate(p) \/ StartCommit(p) \/ GateIsGreen(p)
    BY <1>1, <2>3, SaveAndMoveEffect
       DEF StartWork, AskGate, StartCommit, GateIsGreen, RunStatuses, TerminalStates, Places
  <2>4. CASE GateIsRed(p) \/ Checkpoint(p)
    BY <2>4, GateEnds DEF TerminalStates
  <2>5. QED
    BY <1>3, <2>1, <2>2, <2>3, <2>4 DEF LoopStep
<1>4. CASE Close(p)
  BY <1>1, <1>4, SaveAndExitEffect
     DEF Close, Merge, RemoveWorktree, DeleteBranch, Unstash, Finish, RunStatuses
<1>5. CASE Command(p)
  BY <1>1, <1>5, SaveAndMoveEffect, ExitEffect
     DEF Command, Approve, Reject, Rollback, Reset, Clean, Resave, Resume, ResumeStarts,
         RunStatuses, TerminalStates, Places
<1>6. CASE GitFails(p) \/ Crash(p)
  BY <1>6 DEF GitFails, Crash
<1>7. QED
  BY <1>2, <1>3, <1>4, <1>5, <1>6 DEF Step

\* With one command at a time, a step keeps the run as it ended, and either ends
\* its command or leaves it with a run that has not ended.
LEMMA StepFinal ==
  ASSUME TypeOK, PlaceInv, FinalInv, NEW p \in Procs, Step(p), trouble' < Overlapped
  PROVE  /\ OneCommand'
         /\ \A q \in Procs : (proc[q] # Idle => Unended(q))'
         /\ disk.status \in TerminalStates => disk'.status = disk.status
<1>1. trouble \in NoTrouble..Tangled /\ trouble' \in NoTrouble..Tangled
  BY StepTypeOK DEF TypeOK, Step, Next
<1>2. OthersStay(p) /\ (Continues(p) \/ Ends(p) \/ Starts(p))
  BY StepShape
<1>3. OneCommand /\ \A q \in Procs : proc[q] # Idle => Unended(q)
  BY <1>1, <1>2 DEF FinalInv, Continues, Ends, Starts, NoTrouble, Overlapped, Tangled
<1>4. \A q \in Procs \ {p} : proc[q] = Idle /\ proc'[q] = Idle
  BY <1>1, <1>2, <1>3 DEF OneCommand, Continues, Ends, Starts, OthersStay, NoTrouble,
                          Overlapped, Tangled
<1>5. proc'[p] # Idle => Unended(p)'
  <2>1. CASE Continues(p)
    BY <1>3, <2>1, RollbackSteps, GoingOnSavesNoEnd DEF Continues, Unended, PlaceInv
  <2>2. CASE Ends(p)
    BY <2>2 DEF Ends
  <2>3. CASE Starts(p)
    BY <2>3 DEF Starts, Unended
  <2>4. QED
    BY <1>2, <2>1, <2>2, <2>3
<1>6. disk.status \in TerminalStates => disk'.status = disk.status
  <2>1. CASE proc[p] # Idle
    BY <1>3, <2>1, RollbackSteps DEF Unended, PlaceInv
  <2>2. CASE Starts(p)
    BY <2>2 DEF Starts
  <2>3. QED
    BY <1>2, <2>1, <2>2 DEF Continues, Ends
<1>7. QED
  BY <1>4, <1>5, <1>6 DEF OneCommand

\* Every step keeps the invariant.
LEMMA StepFinalInv ==
  ASSUME TypeOK, PlaceInv, FinalInv, [Next]_vars
  PROVE  FinalInv'
<1>1. CASE UNCHANGED vars
  BY <1>1 DEF FinalInv, OneCommand, Unended, vars, historyVars
<1>2. QED
  BY <1>1, NextIsStep, StepFinal DEF FinalInv

\* With one command at a time, crashes included, how a run ended is how it stays.
THEOREM EndedRunsStayEnded == Spec => TerminalIsFinal
<1> DEFINE Inv == TypeOK /\ PlaceInv /\ FinalInv
<1>1. Init => Inv
  BY InitTypeOK, InitPlaces, InitFinalInv
<1>2. Inv /\ [Next]_vars => Inv'
  BY StepTypeOK, StepPlaceInv, StepFinalInv
<1>3. Inv /\ [Next]_vars
        => [trouble' < Overlapped /\ disk.status \in TerminalStates
              => disk'.status = disk.status]_vars
  BY NextIsStep, StepFinal
<1>4. QED
  BY <1>1, <1>2, <1>3, PTL DEF Spec, TerminalIsFinal

-----------------------------------------------------------------------------
(* The user's changes are returned: only a run that nothing can see yet takes *)
(* them, and an approve or reject about to save has them back or a warning.   *)

NewPlaces == {"stash", "worktree", "build"}

New(p) == proc[p].at \in NewPlaces

NewInv == \A p \in Procs : New(p) => ~Saved /\ \A q \in Procs \ {p} : proc[q] = Idle

ReturnInv == \A p \in Procs :
  At(p, "finish") /\ ~Loops(p) => userWork # "stash" \/ proc[p].mem.warned

\* At first only the new run is there, and has stashed nothing.
LEMMA InitReturnInv == Init => NewInv /\ ReturnInv
<1> SUFFICES ASSUME Init PROVE NewInv /\ ReturnInv
  OBVIOUS
<1> DEFINE job == Job("run", "stash", NoState, <<>>)
<1>1. PICK p \in Procs : proc = [q \in Procs |-> IF q = p THEN job ELSE Idle]
  BY DEF Init
<1>2. Idle.at = "idle" /\ job.at = "stash" /\ NoState.status = "NONE"
  BY DEF Idle, Job, NoState
<1> HIDE DEF job
<1>3. QED
  BY <1>1, <1>2 DEF Init, NewInv, ReturnInv, New, NewPlaces, Saved, At

\* A run is new only while it is being created, and a new run has saved nothing.
LEMMA NewSteps ==
  ASSUME TypeOK, NEW p \in Procs, Step(p), New(p)'
  PROVE  New(p) /\ disk' = disk
<1>1. JobsOK /\ Idle.at = "idle"
  BY DEF TypeOK, Idle, Job
<1>2. CASE Create(p)
  BY <1>1, <1>2, ExitEffect, SaveAndMoveEffect
     DEF Create, StashUserWork, AddWorktree, AddWorktreeFails, BuildFails, SaveNew, At,
         RunStatuses, Places, New, NewPlaces
<1>3. CASE LoopStep(p)
  <2>1. CASE Work(p)
    BY <2>1 DEF Work, Loop, At, New, NewPlaces
  <2>2. CASE StopWork(p) \/ FinishReview(p) \/ CancelAfterGate(p)
    BY <1>1, <2>2, SaveAndExitEffect
       DEF StopWork, FinishReview, CancelAfterGate, RunStatuses, New, NewPlaces
  <2>3. CASE StartWork(p) \/ AskGate(p) \/ StartCommit(p) \/ GateIsGreen(p)
    BY <1>1, <2>3, SaveAndMoveEffect, MoveEffect
       DEF StartWork, AskGate, StartCommit, GateIsGreen, RunStatuses, Places, New, NewPlaces
  <2>4. CASE GateIsRed(p) \/ Checkpoint(p)
    BY <1>1, <2>4, GateEnds DEF New, NewPlaces
  <2>5. QED
    BY <1>3, <2>1, <2>2, <2>3, <2>4 DEF LoopStep
<1>4. CASE Close(p)
  BY <1>1, <1>4, SaveAndExitEffect, MoveEffect, UnstashEffect
     DEF Close, Merge, RemoveWorktree, DeleteBranch, Finish, RunStatuses, Places, New,
         NewPlaces
<1>5. CASE Command(p)
  <2>1. CASE Reset(p) \/ Clean(p) \/ Resave(p) \/ ResumeStarts(p)
    BY <1>1, <2>1, SaveAndMoveEffect, MoveEffect, ExitEffect
       DEF Reset, Clean, Resave, ResumeStarts, RunStatuses, Places, New, NewPlaces
  <2>2. CASE Starts(p)
    BY <2>2 DEF Starts, New, NewPlaces
  <2>3. CASE ~Reset(p) /\ ~Clean(p) /\ ~Resave(p) /\ ~ResumeStarts(p)
    <3>1. proc[p] = Idle
      BY <1>5, <2>3 DEF Command, Approve, Reject, Rollback, Resume, Begin
    <3>2. Starts(p)
      BY <1>1, <1>5, <3>1, CommandShape DEF Continues, Ends, New
    <3>3. QED
      BY <2>2, <3>2
  <2>4. QED
    BY <2>1, <2>3
<1>6. CASE GitFails(p) \/ Crash(p)
  BY <1>1, <1>6, ExitEffect DEF GitFails, Crash, New, NewPlaces
<1>7. QED
  BY <1>2, <1>3, <1>4, <1>5, <1>6 DEF Step

\* Only a new run takes the user's changes.
LEMMA OnlyNewStashes ==
  ASSUME NEW p \in Procs, Step(p), ~New(p)
  PROVE  userWork' = "stash" => userWork = "stash"
  BY DEF Step, Create, StashUserWork, AddWorktree, AddWorktreeFails, BuildFails, SaveNew,
         LoopStep, StartWork, Work, StopWork, FinishReview, AskGate, GateIsGreen, GateIsRed,
         CancelAfterGate, Checkpoint, StartCommit, Close, Merge, RemoveWorktree,
         DeleteBranch, Unstash, Finish, Command, Approve, Reject, Rollback, Reset, Clean, Resave,
         Resume, ResumeStarts, GitFails, Crash, New, NewPlaces, At, repoVars

\* Only the restoring of the stash leads to the end of an approve or reject.
LEMMA FinishSteps ==
  ASSUME TypeOK, NEW p \in Procs, Step(p), proc'[p].at = "finish"
  PROVE  Unstash(p)
<1>1. JobsOK /\ Idle.at = "idle"
  BY DEF TypeOK, Idle, Job
<1>2. CASE Create(p)
  BY <1>1, <1>2, ExitEffect, SaveAndMoveEffect, MoveEffect
     DEF Create, StashUserWork, AddWorktree, AddWorktreeFails, BuildFails, SaveNew,
         RunStatuses, Places
<1>3. CASE LoopStep(p)
  <2>1. CASE Work(p)
    BY <2>1 DEF Work, Loop, At
  <2>2. CASE StopWork(p) \/ FinishReview(p) \/ CancelAfterGate(p)
    BY <1>1, <2>2, SaveAndExitEffect DEF StopWork, FinishReview, CancelAfterGate, RunStatuses
  <2>3. CASE StartWork(p) \/ AskGate(p) \/ StartCommit(p) \/ GateIsGreen(p)
    BY <1>1, <2>3, SaveAndMoveEffect, MoveEffect
       DEF StartWork, AskGate, StartCommit, GateIsGreen, RunStatuses, Places
  <2>4. CASE GateIsRed(p) \/ Checkpoint(p)
    BY <1>1, <2>4, GateEnds
  <2>5. QED
    BY <1>3, <2>1, <2>2, <2>3, <2>4 DEF LoopStep
<1>4. CASE Close(p)
  BY <1>1, <1>4, SaveAndExitEffect, MoveEffect
     DEF Close, Merge, RemoveWorktree, DeleteBranch, Finish, RunStatuses, Places
<1>5. CASE Command(p)
  <2>1. CASE Reset(p) \/ Clean(p) \/ Resave(p) \/ ResumeStarts(p)
    BY <1>1, <2>1, SaveAndMoveEffect, MoveEffect, ExitEffect
       DEF Reset, Clean, Resave, ResumeStarts, RunStatuses, Places
  <2>2. CASE ~Reset(p) /\ ~Clean(p) /\ ~Resave(p) /\ ~ResumeStarts(p)
    <3>1. proc[p] = Idle
      BY <1>5, <2>2 DEF Command, Approve, Reject, Rollback, Resume, Begin
    <3>2. Starts(p)
      BY <1>1, <1>5, <3>1, CommandShape DEF Continues, Ends
    <3>3. QED
      BY <3>2 DEF Starts
  <2>3. QED
    BY <2>1, <2>2
<1>6. CASE GitFails(p) \/ Crash(p)
  BY <1>1, <1>6, ExitEffect DEF GitFails, Crash
<1>7. QED
  BY <1>2, <1>3, <1>4, <1>5, <1>6 DEF Step

\* Every step keeps both invariants.
LEMMA StepReturnInv ==
  ASSUME TypeOK, NewInv, ReturnInv, [Next]_vars
  PROVE  NewInv' /\ ReturnInv'
<1>1. CASE UNCHANGED vars
  BY <1>1 DEF NewInv, ReturnInv, New, Saved, At, Loops, vars, repoVars
<1>2. ASSUME NEW p \in Procs, Step(p)
      PROVE  NewInv' /\ ReturnInv'
  <2>1. OthersStay(p) /\ (Continues(p) \/ Ends(p) \/ Starts(p))
    BY <1>2, StepShape
  <2>2. \A q \in Procs \ {p} : ~New(q)
    BY <2>1 DEF NewInv, Continues, Ends, Starts
  <2>3. NewInv'
    <3>1. New(p)' => ~Saved' /\ \A q \in Procs \ {p} : proc'[q] = Idle
      BY <1>2, <2>1, NewSteps DEF NewInv, OthersStay, Saved
    <3>2. \A q \in Procs \ {p} : ~New(q)'
      BY <2>1, <2>2 DEF OthersStay, New
    <3>3. QED
      BY <3>1, <3>2 DEF NewInv
  <2>4. ASSUME NEW q \in Procs \ {p}, At(q, "finish")', ~Loops(q)'
        PROVE  userWork' # "stash" \/ proc'[q].mem.warned
    <3>1. At(q, "finish") /\ ~Loops(q) /\ proc'[q] = proc[q] /\ proc[q] # Idle
      BY <2>1, <2>4 DEF OthersStay, At, Loops, Idle, Job
    <3>2. ~New(p)
      BY <3>1 DEF NewInv
    <3>3. QED
      BY <1>2, <3>1, <3>2, OnlyNewStashes DEF ReturnInv
  <2>5. ASSUME At(p, "finish")', ~Loops(p)'
        PROVE  userWork' # "stash" \/ proc'[p].mem.warned
    <3>1. Unstash(p) /\ JobsOK
      BY <1>2, <2>5, FinishSteps DEF At, TypeOK
    <3>2. proc'[p].cmd = proc[p].cmd
      BY <3>1, UnstashEffect
    <3>3. ~Loops(p)
      BY <2>5, <3>2 DEF Loops
    <3>4. QED
      BY <3>1, <3>3, UnstashEffect
  <2>6. QED
    BY <2>3, <2>4, <2>5 DEF ReturnInv
<1>3. QED
  BY <1>1, <1>2, NextIsStep

\* However commands overlap and wherever they die, an approve or reject that
\* completes gave the user's changes back or recorded that it could not.
THEOREM StashAlwaysReturnedOrReported == Spec => StashIsReturnedOrReported
<1> DEFINE Inv == TypeOK /\ NewInv /\ ReturnInv
<1>1. Init => Inv
  BY InitTypeOK, InitReturnInv
<1>2. Inv /\ [Next]_vars => Inv'
  BY StepTypeOK, StepReturnInv
<1>3. ASSUME Inv, Next, NEW p \in Procs, At(p, "finish"), ~Loops(p), proc'[p] = Idle,
             disk' # disk
      PROVE  userWork # "stash" \/ disk'.warned
  <2>1. proc[p] # Idle /\ JobsOK /\ disk' \in States
    BY <1>3, StepTypeOK DEF At, Idle, Job, TypeOK
  <2>2. PICK q \in Procs : Step(q)
    BY <1>3, NextIsStep DEF vars
  <2>3. q = p
    BY <1>3, <2>1, <2>2, StepShape DEF OthersStay
  <2>4. Finish(p)
    BY <1>3, <2>2, <2>3
       DEF Step, Create, StashUserWork, AddWorktree, AddWorktreeFails, BuildFails, SaveNew,
           LoopStep, StartWork, Work, StopWork, FinishReview, AskGate, GateIsGreen,
           GateIsRed, CancelAfterGate, Checkpoint, StartCommit, Close, Merge,
           RemoveWorktree, DeleteBranch, Unstash, Command, Approve, Reject, Rollback,
           Reset, Clean, Resave, Resume, ResumeStarts, Begin, Idle, Job, GitFails, Crash, Loop, At
  <2>5. disk'.warned = proc[p].mem.warned
    BY <2>1, <2>4, SaveAndExitEffect DEF Finish, RunStatuses
  <2>6. QED
    BY <1>3, <2>5 DEF ReturnInv
<1>4. Inv /\ [Next]_vars
        => [\A p \in Procs : At(p, "finish") /\ ~Loops(p) /\ proc'[p] = Idle /\ disk' # disk
              => userWork # "stash" \/ disk'.warned]_vars
  BY <1>3
<1>5. QED
  BY <1>1, <1>2, <1>4, PTL DEF Spec, StashIsReturnedOrReported

-----------------------------------------------------------------------------
(* What lands was vouched for.  Before two commands tangle and the run is led *)
(* astray, nobody edits a run that somebody offers or lands: so the head that *)
(* a checkpoint or a rollback left is still there, green and unflagged.       *)

EditPlaces == {"stash", "worktree", "build", "resume", "loop", "gate", "green"}

Offers(p) == \/ proc[p].at \in {"offer", "merge"}
             \/ proc[p].cmd = "rollback" /\ proc[p].mem.status = "AWAITING_APPROVAL"

Edits(p) == \/ proc[p].at \in EditPlaces
            \/ proc[p].cmd = "rollback" /\ proc[p].mem.status = "PAUSED"

Offered == disk.status = "AWAITING_APPROVAL" \/ \E p \in Procs : Offers(p)

Editable == disk.status = "PAUSED" \/ \E p \in Procs : Edits(p)

Apart == ~(Offered /\ Editable)

GoalIsVouched(p) ==
  proc[p].cmd = "rollback" => HeadOf(proc[p].goal) \in greens \ Flagged

NextIsGreen(p) == proc[p].at = "green" => tree \in greens \cup {Absent}

Vouched == HeadOf(branch) \in greens \ Flagged

Shown == strayed = Straight /\ (\A p \in Procs : ~At(p, "clean"))
           => tree \in {HeadOf(branch), Absent}

HeadOK == Offered /\ branch # NoBranch => Vouched /\ Shown

LandedOK == landed \in (greens \ Flagged) \cup {NotLanded}

AllVouched == /\ Apart /\ HeadOK /\ LandedOK
              /\ \A p \in Procs : GoalIsVouched(p) /\ NextIsGreen(p)

VouchInv == trouble < Tangled /\ strayed < Astray => AllVouched

\* Nothing was committed or offered before a run begins.
LEMMA InitVouchInv == Init => VouchInv
<1> SUFFICES ASSUME Init PROVE AllVouched
  BY DEF VouchInv
<1> DEFINE job == Job("run", "stash", NoState, <<>>)
<1>1. PICK p \in Procs : proc = [q \in Procs |-> IF q = p THEN job ELSE Idle]
  BY DEF Init
<1>2. /\ Idle.cmd = "none" /\ Idle.at = "idle" /\ job.cmd = "run" /\ job.at = "stash"
      /\ disk.status = "NONE"
  BY DEF Init, Idle, Job, NoState
<1> HIDE DEF job
<1>3. \A q \in Procs : proc[q].cmd \in {"none", "run"} /\ proc[q].at \in {"idle", "stash"}
  BY <1>1, <1>2
<1>4. ~Offered
  BY <1>2, <1>3 DEF Offered, Offers
<1>5. QED
  BY <1>3, <1>4 DEF Init, AllVouched, Apart, HeadOK, LandedOK, GoalIsVouched, NextIsGreen

\* Only seven steps change the worktree or the branch.
LEMMA ContentSteps ==
  ASSUME NEW p \in Procs, Step(p)
  PROVE  \/ UNCHANGED <<tree, branch>>
         \/ AddWorktree(p) \/ Work(p) \/ Checkpoint(p) \/ RemoveWorktree(p)
         \/ DeleteBranch(p) \/ Reset(p) \/ Clean(p)
  BY DEF Step, Create, StashUserWork, AddWorktreeFails, BuildFails, SaveNew, LoopStep,
         StartWork, StopWork, FinishReview, AskGate, GateIsGreen, GateIsRed,
         CancelAfterGate, StartCommit, Close, Merge, Unstash, Finish, Command, Approve,
         Reject, Rollback, Resave, Resume, ResumeStarts, GitFails, Crash, repoVars

\* What was green stays known.
LEMMA GreensGrow ==
  ASSUME NEW p \in Procs, Step(p)
  PROVE  greens \subseteq greens'
  BY DEF Step, Create, StashUserWork, AddWorktree, AddWorktreeFails, BuildFails, SaveNew,
         LoopStep, StartWork, Work, StopWork, FinishReview, AskGate, GateIsGreen, GateIsRed,
         CancelAfterGate, Checkpoint, StartCommit, Close, Merge, RemoveWorktree,
         DeleteBranch, Unstash, Finish, Command, Approve, Reject, Rollback, Reset, Clean, Resave,
         Resume, ResumeStarts, GitFails, Crash, historyVars

\* A run is led away from its gate only, and never back.
LEMMA StraysGrow ==
  ASSUME TypeOK, NEW p \in Procs, Step(p)
  PROVE  strayed' \in Straight..Astray /\ strayed' >= strayed
<1>1. strayed \in Straight..Astray /\ Straight \in Straight..Astray /\ Astray \in Straight..Astray
  BY DEF TypeOK, Straight, Astray
<1>2. CASE Approve(p)
  BY <1>1, <1>2, StraysEffect DEF Approve
<1>3. CASE Rollback(p)
  <2>1. PICK level \in {Straight, Astray} : Strays(level)
    BY <1>3 DEF Rollback
  <2>2. QED
    BY <1>1, <2>1, StraysEffect
<1>4. CASE GitFails(p) \/ Crash(p)
  BY <1>1, <1>4, LeavesUntidyEffect DEF GitFails, Crash
<1>5. CASE UNCHANGED strayed
  BY <1>1, <1>5 DEF Straight, Astray
<1>6. QED
  BY <1>2, <1>3, <1>4, <1>5
     DEF Step, Create, StashUserWork, AddWorktree, AddWorktreeFails, BuildFails, SaveNew,
         LoopStep, StartWork, Work, StopWork, FinishReview, AskGate, GateIsGreen, GateIsRed,
         CancelAfterGate, Checkpoint, StartCommit, Close, Merge, RemoveWorktree,
         DeleteBranch, Unstash, Finish, Command, Reject, Reset, Clean, Resave, Resume,
         ResumeStarts, historyVars

\* What a command finds that starts without leading the run astray.
LEMMA StartsStraight ==
  ASSUME TypeOK, NEW p \in Procs, Step(p), Starts(p), strayed' < Astray
  PROVE  /\ proc'[p].at \in {"offer", "merge"} => disk.status = "AWAITING_APPROVAL"
         /\ proc'[p].at \in EditPlaces => disk.status = "PAUSED"
         /\ proc'[p].at # "green" /\ proc'[p].at # "clean"
         /\ proc'[p].cmd = "rollback" => HeadOf(proc'[p].goal) \in greens \ Flagged
<1>1. JobsOK /\ strayed \in Straight..Astray /\ Astray \in Straight..Astray
      /\ Straight \in Straight..Astray
  BY DEF TypeOK, Straight, Astray
<1>2. Approve(p) \/ Reject(p) \/ Rollback(p) \/ Resume(p)
  BY DEF Starts, Step, Create, StashUserWork, AddWorktree, AddWorktreeFails, BuildFails,
         SaveNew, LoopStep, StartWork, Work, StopWork, FinishReview, AskGate, GateIsGreen,
         GateIsRed, CancelAfterGate, Checkpoint, StartCommit, Close, Merge, RemoveWorktree,
         DeleteBranch, Unstash, Finish, Command, Reset, Clean, Resave, ResumeStarts,
         GitFails, Crash, Loop, At, Idle, Job
<1>3. ~(strayed' >= Astray)
  BY <1>1, StraysGrow DEF Straight, Astray
<1>4. CASE Approve(p)
  <2>1. disk.status = "AWAITING_APPROVAL"
    BY <1>1, <1>3, <1>4, StraysEffect DEF Approve
  <2>2. proc'[p].at = "merge" /\ proc'[p].cmd = "approve"
    BY <1>1, <1>4 DEF Approve, Begin, Job, JobsOK
  <2>3. QED
    BY <2>1, <2>2 DEF EditPlaces
<1>5. CASE Reject(p)
  <2>1. proc'[p].at = "remove" /\ proc'[p].cmd = "reject"
    BY <1>1, <1>5 DEF Reject, Begin, Job, JobsOK
  <2>2. QED
    BY <2>1 DEF EditPlaces
<1>6. CASE Rollback(p)
  <2>1. PICK goal \in Checkpoints :
          /\ Begin(p, Job("rollback", "reset", disk, goal))
          /\ Strays(IF HeadOf(goal) \in greens \ Flagged THEN Straight ELSE Astray)
    BY <1>6 DEF Rollback
  <2>2. proc'[p].at = "reset" /\ proc'[p].goal = goal
    BY <1>1, <2>1 DEF Begin, Job, JobsOK
  <2>3. HeadOf(goal) \in greens \ Flagged
    BY <1>1, <1>3, <2>1, StraysEffect
  <2>4. QED
    BY <2>2, <2>3 DEF EditPlaces
<1>7. CASE Resume(p)
  <2>1. proc'[p].at = "resume" /\ proc'[p].cmd = "resume" /\ disk.status = "PAUSED"
    BY <1>1, <1>7 DEF Resume, Begin, Job, JobsOK
  <2>2. QED
    BY <2>1 DEF EditPlaces
<1>8. QED
  BY <1>2, <1>4, <1>5, <1>6, <1>7

\* Only a checkpoint offers the run for approval, or a rollback does again.
LEMMA OfferSteps ==
  ASSUME TypeOK, NEW p \in Procs, Step(p), disk'.status = "AWAITING_APPROVAL"
  PROVE  Checkpoint(p) \/ disk' = disk \/ Resave(p)
<1>1. JobsOK
  BY DEF TypeOK
<1>2. CASE Create(p)
  BY <1>1, <1>2, SaveAndMoveEffect
     DEF Create, StashUserWork, AddWorktree, AddWorktreeFails, BuildFails, SaveNew,
         RunStatuses, Places
<1>3. CASE LoopStep(p)
  <2>1. CASE Work(p)
    BY <1>1, <2>1, SaveAsEffect DEF Work, RunStatuses
  <2>2. CASE StopWork(p) \/ FinishReview(p) \/ CancelAfterGate(p)
    BY <1>1, <2>2, SaveAndExitEffect DEF StopWork, FinishReview, CancelAfterGate, RunStatuses
  <2>3. CASE StartWork(p) \/ AskGate(p) \/ StartCommit(p) \/ GateIsGreen(p)
    BY <1>1, <2>3, SaveAndMoveEffect
       DEF StartWork, AskGate, StartCommit, GateIsGreen, RunStatuses, Places
  <2>4. CASE GateIsRed(p)
    BY <1>1, <2>4, SaveAndMoveEffect, SaveAndExitEffect DEF GateIsRed, RunStatuses, Places
  <2>5. QED
    BY <1>3, <2>1, <2>2, <2>3, <2>4 DEF LoopStep
<1>4. CASE Close(p)
  BY <1>1, <1>4, SaveAndExitEffect
     DEF Close, Merge, RemoveWorktree, DeleteBranch, Unstash, Finish, RunStatuses
<1>5. CASE Command(p)
  BY <1>1, <1>5, SaveAndMoveEffect
     DEF Command, Approve, Reject, Rollback, Reset, Clean, Resume, ResumeStarts, RunStatuses, Places
<1>6. CASE GitFails(p) \/ Crash(p)
  BY <1>6 DEF GitFails, Crash
<1>7. QED
  BY <1>2, <1>3, <1>4, <1>5, <1>6 DEF Step

\* A checkpoint that offers the run saw no flag.
LEMMA OfferIsUnflagged ==
  ASSUME TypeOK, NEW p \in Procs, Checkpoint(p),
         disk'.status = "AWAITING_APPROVAL" \/ proc'[p] # Idle
  PROVE  ~CheatFlagged
BY SaveAndExitEffect DEF TypeOK, Checkpoint, RunStatuses

\* Only the end of a loop's work pauses a run, or a rollback does again.
LEMMA PauseSteps ==
  ASSUME TypeOK, NEW p \in Procs, Step(p), disk'.status = "PAUSED"
  PROVE  StopWork(p) \/ disk' = disk \/ Resave(p)
<1>1. JobsOK
  BY DEF TypeOK
<1>2. CASE Create(p)
  BY <1>1, <1>2, SaveAndMoveEffect
     DEF Create, StashUserWork, AddWorktree, AddWorktreeFails, BuildFails, SaveNew,
         RunStatuses, Places
<1>3. CASE LoopStep(p)
  <2>1. CASE Work(p)
    BY <1>1, <2>1, SaveAsEffect DEF Work, RunStatuses
  <2>2. CASE FinishReview(p) \/ CancelAfterGate(p)
    BY <1>1, <2>2, SaveAndExitEffect DEF FinishReview, CancelAfterGate, RunStatuses
  <2>3. CASE StartWork(p) \/ AskGate(p) \/ StartCommit(p) \/ GateIsGreen(p)
    BY <1>1, <2>3, SaveAndMoveEffect
       DEF StartWork, AskGate, StartCommit, GateIsGreen, RunStatuses, Places
  <2>4. CASE GateIsRed(p)
    BY <1>1, <2>4, SaveAndMoveEffect, SaveAndExitEffect DEF GateIsRed, RunStatuses, Places
  <2>5. CASE Checkpoint(p)
    BY <1>1, <2>5, SaveAndMoveEffect, SaveAndExitEffect DEF Checkpoint, RunStatuses, Places
  <2>6. QED
    BY <1>3, <2>1, <2>2, <2>3, <2>4, <2>5 DEF LoopStep
<1>4. CASE Close(p)
  BY <1>1, <1>4, SaveAndExitEffect
     DEF Close, Merge, RemoveWorktree, DeleteBranch, Unstash, Finish, RunStatuses
<1>5. CASE Command(p)
  BY <1>1, <1>5, SaveAndMoveEffect
     DEF Command, Approve, Reject, Rollback, Reset, Clean, Resume, ResumeStarts,
         RunStatuses, Places
<1>6. CASE GitFails(p) \/ Crash(p)
  BY <1>6 DEF GitFails, Crash
<1>7. QED
  BY <1>2, <1>3, <1>4, <1>5, <1>6 DEF Step

\* How a process that goes on came to where it offers, edits or cleans.
LEMMA GoingOnPlaces ==
  ASSUME TypeOK, PlaceInv, NEW p \in Procs, Step(p), Continues(p)
  PROVE  /\ proc'[p].at \in {"offer", "merge"} => proc[p].at = "offer" \/ Checkpoint(p)
         /\ proc'[p].at \in EditPlaces => proc[p].at \in EditPlaces
         /\ proc'[p].at = "green" => GateIsGreen(p)
         /\ proc'[p].at = "clean" => Reset(p)
<1>1. JobsOK /\ proc[p] # Idle /\ proc'[p].cmd = proc[p].cmd /\ PlaceOK(proc[p])
  BY DEF TypeOK, Continues, PlaceInv
<1>2. CASE Create(p)
  <2>1. CASE SaveNew(p)
    BY <1>1, <2>1, SaveAndMoveEffect DEF SaveNew, At, EditPlaces, RunStatuses, Places
  <2>2. CASE StashUserWork(p) \/ AddWorktree(p)
    BY <1>1, <2>2, MoveEffect DEF StashUserWork, AddWorktree, At, EditPlaces, Places
  <2>3. CASE AddWorktreeFails(p) \/ BuildFails(p)
    BY <1>1, <2>3, ExitEffect DEF AddWorktreeFails, BuildFails, Idle, Job, EditPlaces
  <2>4. QED
    BY <1>2, <2>1, <2>2, <2>3 DEF Create
<1>3. CASE LoopStep(p)
  <2>1. CASE Work(p)
    BY <2>1 DEF Work, Loop, At, EditPlaces
  <2>2. CASE StopWork(p) \/ FinishReview(p) \/ CancelAfterGate(p)
    BY <1>1, <2>2, SaveAndExitEffect
       DEF StopWork, FinishReview, CancelAfterGate, RunStatuses, Idle, Job, EditPlaces
  <2>3. CASE StartWork(p) \/ AskGate(p)
    BY <1>1, <2>3, SaveAndMoveEffect
       DEF StartWork, AskGate, Loop, At, RunStatuses, Places, EditPlaces
  <2>4. CASE StartCommit(p)
    BY <1>1, <2>4, SaveAndMoveEffect DEF StartCommit, At, RunStatuses, Places, EditPlaces
  <2>5. CASE GateIsGreen(p)
    BY <1>1, <2>5, MoveEffect DEF GateIsGreen, At, Places, EditPlaces
  <2>6. CASE GateIsRed(p)
    <3>1. CASE SaveAndMove(p, "ACTING", "loop")
      BY <1>1, <2>6, <3>1, SaveAndMoveEffect
         DEF GateIsRed, At, RunStatuses, Places, EditPlaces
    <3>2. CASE ~SaveAndMove(p, "ACTING", "loop")
      BY <1>1, <2>6, <3>2, SaveAndExitEffect DEF GateIsRed, RunStatuses, Idle, Job, EditPlaces
    <3>3. QED
      BY <3>1, <3>2
  <2>7. CASE Checkpoint(p)
    BY <1>1, <2>7, GateEnds DEF EditPlaces, Idle, Job
  <2>8. QED
    BY <1>3, <2>1, <2>2, <2>3, <2>4, <2>5, <2>6, <2>7 DEF LoopStep
<1>4. CASE Close(p)
  <2>1. CASE Merge(p) \/ RemoveWorktree(p) \/ DeleteBranch(p)
    BY <1>1, <2>1, MoveEffect DEF Merge, RemoveWorktree, DeleteBranch, Places, EditPlaces
  <2>2. CASE Unstash(p)
    BY <1>1, <2>2, UnstashEffect DEF EditPlaces
  <2>3. CASE Finish(p)
    BY <1>1, <2>3, SaveAndExitEffect DEF Finish, RunStatuses, Idle, Job, EditPlaces
  <2>4. QED
    BY <1>4, <2>1, <2>2, <2>3 DEF Close
<1>5. CASE Command(p)
  <2>1. CASE Reset(p) \/ Clean(p)
    BY <1>1, <2>1, MoveEffect DEF Reset, Clean, Places, EditPlaces
  <2>2. CASE Resave(p)
    BY <1>1, <2>2, ExitEffect DEF Resave, Idle, Job, EditPlaces
  <2>3. CASE ResumeStarts(p)
    BY <1>1, <2>3, SaveAndMoveEffect DEF ResumeStarts, At, RunStatuses, Places, EditPlaces
  <2>4. ~Approve(p) /\ ~Reject(p) /\ ~Rollback(p) /\ ~Resume(p)
    BY <1>1 DEF Approve, Reject, Rollback, Resume, Begin
  <2>5. QED
    BY <1>5, <2>1, <2>2, <2>3, <2>4 DEF Command
<1>6. CASE GitFails(p) \/ Crash(p)
  BY <1>1, <1>6, ExitEffect DEF GitFails, Crash, Idle, Job, EditPlaces
<1>7. QED
  BY <1>2, <1>3, <1>4, <1>5, <1>6 DEF Step

\* A run that is offered was so before, or by this checkpoint.
LEMMA OfferSource ==
  ASSUME TypeOK, PlaceInv, NEW p \in Procs, Step(p), strayed' < Astray, Offered'
  PROVE  Offered \/ (Checkpoint(p) /\ ~CheatFlagged)
<1>1. OthersStay(p) /\ (Continues(p) \/ Ends(p) \/ Starts(p))
  BY StepShape
<1>2. ASSUME NEW q \in Procs \ {p}, Offers(q)' PROVE Offered
  BY <1>1, <1>2 DEF OthersStay, Offered, Offers
<1>3. CASE disk'.status = "AWAITING_APPROVAL"
  <2>1. CASE Resave(p)
    <3>1. proc[p].cmd = "rollback" /\ disk' = proc[p].mem
      BY <2>1 DEF Resave, At, PlaceInv, PlaceOK, RollbackPlaces
    <3>2. QED
      BY <1>3, <3>1 DEF Offered, Offers
  <2>2. CASE Checkpoint(p)
    BY <1>3, <2>2, OfferIsUnflagged
  <2>3. CASE disk' = disk
    BY <1>3, <2>3 DEF Offered
  <2>4. QED
    BY <1>3, <2>1, <2>2, <2>3, OfferSteps
<1>4. CASE Offers(p)'
  <2>1. CASE Continues(p)
    <3>1. CASE proc'[p].at \in {"offer", "merge"}
      BY <2>1, <3>1, GoingOnPlaces, OfferIsUnflagged DEF Offered, Offers, Idle, Job
    <3>2. CASE proc'[p].cmd = "rollback" /\ proc'[p].mem.status = "AWAITING_APPROVAL"
      <4>1. proc[p].cmd = "rollback" /\ proc'[p] # Idle /\ PlaceOK(proc[p])
        BY <2>1, <3>2 DEF Continues, PlaceInv, Idle, Job
      <4>2. proc'[p].mem = proc[p].mem
        BY <4>1, RollbackSteps
      <4>3. QED
        BY <3>2, <4>1, <4>2 DEF Offered, Offers
    <3>3. QED
      BY <1>4, <3>1, <3>2 DEF Offers
  <2>2. CASE Ends(p)
    BY <1>4, <2>2 DEF Ends, Offers, Idle, Job
  <2>3. CASE Starts(p)
    <3>1. disk.status = "AWAITING_APPROVAL"
      BY <1>4, <2>3, StartsStraight DEF Starts, Offers
    <3>2. QED
      BY <3>1 DEF Offered
  <2>4. QED
    BY <1>1, <2>1, <2>2, <2>3
<1>5. QED
  BY <1>2, <1>3, <1>4 DEF Offered

\* A run that can be edited could be before.
LEMMA EditSource ==
  ASSUME TypeOK, PlaceInv, NEW p \in Procs, Step(p), strayed' < Astray, Editable'
  PROVE  Editable
<1>1. OthersStay(p) /\ (Continues(p) \/ Ends(p) \/ Starts(p))
  BY StepShape
<1>2. ASSUME NEW q \in Procs \ {p}, Edits(q)' PROVE Editable
  BY <1>1, <1>2 DEF OthersStay, Editable, Edits
<1>3. CASE disk'.status = "PAUSED"
  <2>1. CASE Resave(p)
    <3>1. proc[p].cmd = "rollback" /\ disk' = proc[p].mem
      BY <2>1 DEF Resave, At, PlaceInv, PlaceOK, RollbackPlaces
    <3>2. QED
      BY <1>3, <3>1 DEF Editable, Edits
  <2>2. CASE StopWork(p)
    BY <2>2 DEF StopWork, Loop, At, Editable, Edits, EditPlaces
  <2>3. CASE disk' = disk
    BY <1>3, <2>3 DEF Editable
  <2>4. QED
    BY <1>3, <2>1, <2>2, <2>3, PauseSteps
<1>4. CASE Edits(p)'
  <2>1. CASE Continues(p)
    <3>1. CASE proc'[p].at \in EditPlaces
      BY <2>1, <3>1, GoingOnPlaces DEF Editable, Edits
    <3>2. CASE proc'[p].cmd = "rollback" /\ proc'[p].mem.status = "PAUSED"
      <4>1. proc[p].cmd = "rollback" /\ proc'[p] # Idle /\ PlaceOK(proc[p])
        BY <2>1, <3>2 DEF Continues, PlaceInv, Idle, Job
      <4>2. proc'[p].mem = proc[p].mem
        BY <4>1, RollbackSteps
      <4>3. QED
        BY <3>2, <4>1, <4>2 DEF Editable, Edits
    <3>3. QED
      BY <1>4, <3>1, <3>2 DEF Edits
  <2>2. CASE Ends(p)
    BY <1>4, <2>2 DEF Ends, Edits, Idle, Job, EditPlaces
  <2>3. CASE Starts(p)
    <3>1. disk.status = "PAUSED"
      BY <1>4, <2>3, StartsStraight DEF Starts, Edits
    <3>2. QED
      BY <3>1 DEF Editable
  <2>4. QED
    BY <1>1, <2>1, <2>2, <2>3
<1>5. QED
  BY <1>2, <1>3, <1>4 DEF Editable

\* A loop has no other loop and no rollback beside it.
LEMMA LoopIsAlone ==
  ASSUME Untangled, PlaceInv, NEW p \in Procs, Loops(p), NEW q \in Procs \ {p}
  PROVE  proc[q].at \notin LoopPlaces /\ proc[q].cmd # "rollback"
<1>1. ~Tangles(proc[p].cmd, proc[q].cmd) /\ PlaceOK(proc[q])
  BY DEF Untangled, PlaceInv
<1>2. QED
  BY <1>1 DEF Loops, Tangles, PlaceOK

\* Offering and editing stay apart.
LEMMA StepApart ==
  ASSUME TypeOK, PlaceInv, Untangled, Apart, NEW p \in Procs, Step(p), strayed' < Astray
  PROVE  Apart'
<1> SUFFICES ASSUME Offered', Editable' PROVE FALSE
  BY DEF Apart
<1>1. Editable
  BY EditSource
<1>2. Checkpoint(p) /\ ~CheatFlagged
  BY <1>1, OfferSource DEF Apart
<1>3. Loops(p) /\ OthersStay(p) /\ JobsOK
  BY <1>2, GateEnds DEF TypeOK, PlaceInv, PlaceOK, Loops, LoopPlaces
<1>4. \/ SaveAndExit(p, "AWAITING_APPROVAL") \/ SaveAndExit(p, "ESCALATED")
      \/ SaveAndMove(p, "AWAITING_APPROVAL", "offer")
  BY <1>2 DEF Checkpoint
<1>5. /\ proc'[p] = Idle \/ (proc'[p].at = "offer" /\ proc'[p].cmd = proc[p].cmd)
      /\ disk'.status # "PAUSED"
  BY <1>3, <1>4, SaveAndMoveEffect, SaveAndExitEffect DEF RunStatuses, Places
<1>6. ~Edits(p)'
  BY <1>3, <1>5 DEF Edits, EditPlaces, Loops, Idle, Job
<1>7. ASSUME NEW q \in Procs \ {p} PROVE ~Edits(q)'
  <2>1. proc[q].at \notin LoopPlaces /\ proc[q].cmd # "rollback" /\ proc'[q] = proc[q]
    BY <1>3, LoopIsAlone DEF OthersStay
  <2>2. QED
    BY <2>1 DEF Edits, EditPlaces, LoopPlaces
<1>8. QED
  BY <1>5, <1>6, <1>7 DEF Editable

\* Rollbacks stay bound for what was vouched for.
LEMMA StepGoals ==
  ASSUME TypeOK, AllVouched, NEW p \in Procs, Step(p), strayed' < Astray, NEW q \in Procs
  PROVE  GoalIsVouched(q)'
<1>1. OthersStay(p) /\ (Continues(p) \/ Ends(p) \/ Starts(p)) /\ greens \subseteq greens'
  BY StepShape, GreensGrow
<1>2. CASE q # p
  BY <1>1, <1>2 DEF AllVouched, GoalIsVouched, OthersStay
<1>3. CASE q = p /\ Continues(p)
  BY <1>1, <1>3 DEF AllVouched, GoalIsVouched, Continues
<1>4. CASE q = p /\ Ends(p)
  BY <1>4 DEF GoalIsVouched, Ends, Idle, Job
<1>5. CASE q = p /\ Starts(p)
  BY <1>1, <1>5, StartsStraight DEF GoalIsVouched
<1>6. QED
  BY <1>1, <1>2, <1>3, <1>4, <1>5

\* The tree that a loop is about to commit stays green: nobody else edits it.
LEMMA StepNext ==
  ASSUME TypeOK, PlaceInv, Untangled, AllVouched, NEW p \in Procs, Step(p),
         strayed' < Astray, NEW q \in Procs
  PROVE  NextIsGreen(q)'
<1> SUFFICES ASSUME proc'[q].at = "green" PROVE tree' \in greens' \cup {Absent}
  BY DEF NextIsGreen
<1>1. OthersStay(p) /\ (Continues(p) \/ Ends(p) \/ Starts(p)) /\ greens \subseteq greens'
  BY StepShape, GreensGrow
<1>2. CASE q = p
  <2>1. GateIsGreen(p)
    BY <1>1, <1>2, GoingOnPlaces, StartsStraight DEF Ends, Idle, Job
  <2>2. QED
    BY <2>1 DEF GateIsGreen, repoVars
<1>3. CASE q # p
  <2>1. proc[q].at = "green" /\ Loops(q)
    BY <1>1, <1>3 DEF OthersStay, PlaceInv, PlaceOK, LoopPlaces, Loops
  <2>2. proc[p].at \notin LoopPlaces /\ proc[p].cmd # "rollback" /\ PlaceOK(proc[p])
    BY <1>3, <2>1, LoopIsAlone DEF PlaceInv
  <2>3. ~AddWorktree(p) /\ ~Work(p) /\ ~Checkpoint(p) /\ ~Reset(p) /\ ~Clean(p)
    BY <2>2 DEF AddWorktree, Work, Checkpoint, Reset, Clean, Loop, At, LoopPlaces, PlaceOK,
                RollbackPlaces
  <2>4. tree' \in {tree, Absent}
    BY <2>3, ContentSteps DEF RemoveWorktree, DeleteBranch
  <2>5. QED
    BY <1>1, <2>1, <2>4 DEF AllVouched, NextIsGreen
<1>4. QED
  BY <1>2, <1>3

\* What a checkpoint that saw no flag has committed.
LEMMA CheckpointIsVouched ==
  ASSUME TypeOK, AllVouched, NEW p \in Procs, Checkpoint(p), ~CheatFlagged
  PROVE  (Vouched /\ Shown)'
<1>1. tree \in Works /\ tree \in greens /\ UNCHANGED <<tree, greens>>
  BY DEF TypeOK, Checkpoint, At, AllVouched, NextIsGreen, historyVars
<1>2. branch \in Seq(Works) /\ branch' \in {branch, Append(branch, tree)}
  BY DEF TypeOK, Checkpoint
<1>3. HeadOf(branch') = tree
  <2>1. CASE HeadOf(branch) = tree
    BY <2>1 DEF Checkpoint
  <2>2. CASE HeadOf(branch) # tree
    <3>1. branch' = Append(branch, tree)
      BY <2>2 DEF Checkpoint
    <3>2. /\ Len(branch') = Len(branch) + 1
          /\ branch'[Len(branch) + 1] = tree
          /\ branch' # <<>>
      BY <1>1, <1>2, <3>1, AppendProperties, LenProperties, EmptySeq
    <3>3. QED
      BY <3>2 DEF HeadOf, Last
  <2>3. QED
    BY <2>1, <2>2
<1>4. QED
  BY <1>1, <1>3 DEF Vouched, Shown, CheatFlagged

\* A rollback's second command tidies the worktree, or it never will.
LEMMA CleanSteps ==
  ASSUME TypeOK, PlaceInv, NEW p \in Procs, Step(p), At(p, "clean"), strayed' = Straight
  PROVE  Clean(p)
<1>1. proc[p].cmd = "rollback" /\ proc[p].at = "clean" /\ proc[p] # Idle
  BY DEF At, PlaceInv, PlaceOK, RollbackPlaces, Idle, Job
<1>2. ~Create(p) /\ ~LoopStep(p) /\ ~Close(p)
  BY <1>1 DEF Create, StashUserWork, AddWorktree, AddWorktreeFails, BuildFails, SaveNew,
              LoopStep, StartWork, Work, StopWork, FinishReview, AskGate, GateIsGreen,
              GateIsRed, CancelAfterGate, Checkpoint, StartCommit,
              Close, Merge, RemoveWorktree, DeleteBranch, Unstash, Finish, Loop, At
<1>3. ~Approve(p) /\ ~Reject(p) /\ ~Rollback(p) /\ ~Resume(p) /\ ~ResumeStarts(p)
      /\ ~Reset(p) /\ ~Resave(p)
  BY <1>1 DEF Approve, Reject, Rollback, Resume, ResumeStarts, Reset, Resave, Begin, At
<1>4. ~GitFails(p) /\ ~Crash(p)
  BY LeavesUntidyEffect DEF GitFails, Crash, TypeOK, Straight, Untidy, Astray
<1>5. QED
  BY <1>2, <1>3, <1>4 DEF Step, Command

\* What is offered keeps its head, and the tree that shows it.
LEMMA StepHead ==
  ASSUME TypeOK, PlaceInv, Untangled, AllVouched, NEW p \in Procs, Step(p),
         strayed' < Astray, trouble < Tangled
  PROVE  HeadOK'
<1> SUFFICES ASSUME Offered', branch' # NoBranch PROVE (Vouched /\ Shown)'
  BY DEF HeadOK
<1>1. CASE Checkpoint(p) /\ ~CheatFlagged
  BY <1>1, CheckpointIsVouched
<1>2. CASE Offered
  <2>1. ~Editable /\ (branch # NoBranch => Vouched /\ Shown)
    BY <1>2 DEF AllVouched, Apart, HeadOK
  <2>2. proc[p].at \notin EditPlaces
    BY <2>1 DEF Editable, Edits
  <2>3. ~AddWorktree(p) /\ ~Work(p) /\ ~Checkpoint(p)
    BY <2>2 DEF AddWorktree, Work, Checkpoint, Loop, At, EditPlaces
  <2>4. greens \subseteq greens' /\ OthersStay(p) /\ JobsOK
    BY StepShape, GreensGrow DEF TypeOK
  <2>5. strayed' = Straight => strayed = Straight
    BY StraysGrow DEF TypeOK, Straight, Astray
  <2>6. CASE Reset(p)
    <3>1. /\ branch' = proc[p].goal /\ greens' = greens /\ proc'[p].at = "clean"
          /\ proc[p].cmd = "rollback"
      BY <2>4, <2>6, MoveEffect
         DEF Reset, At, PlaceInv, PlaceOK, RollbackPlaces, Places, historyVars
    <3>2. Vouched'
      BY <3>1 DEF AllVouched, GoalIsVouched, Vouched
    <3>3. Shown'
      BY <3>1 DEF Shown, At
    <3>4. QED
      BY <3>2, <3>3
  <2>7. CASE Clean(p)
    <3>1. branch' = branch /\ tree' = HeadOf(branch) /\ greens' = greens
      BY <2>7 DEF Clean, historyVars
    <3>2. QED
      BY <2>1, <3>1 DEF Vouched, Shown
  <2>8. CASE ~Reset(p) /\ ~Clean(p)
    <3>1. branch' = branch /\ tree' \in {tree, Absent}
      BY <2>3, <2>8, ContentSteps DEF RemoveWorktree, DeleteBranch
    <3>2. ASSUME strayed' = Straight, \A q \in Procs : ~At(q, "clean")'
          PROVE  strayed = Straight /\ \A q \in Procs : ~At(q, "clean")
      <4>1. ~At(p, "clean")
        BY <2>8, <3>2, CleanSteps
      <4>2. \A q \in Procs \ {p} : ~At(q, "clean")
        BY <2>4, <3>2 DEF OthersStay, At
      <4>3. QED
        BY <2>5, <3>2, <4>1, <4>2
    <3>3. QED
      BY <2>1, <2>4, <3>1, <3>2 DEF Vouched, Shown
  <2>9. QED
    BY <2>6, <2>7, <2>8
<1>3. QED
  BY <1>1, <1>2, OfferSource

\* Only a merge lands anything, and it takes the head of a branch that is offered.
LEMMA StepLanded ==
  ASSUME TypeOK, AllVouched, NEW p \in Procs, Step(p)
  PROVE  LandedOK'
<1>1. greens \subseteq greens'
  BY GreensGrow
<1>2. CASE Merge(p)
  <2>1. branch \in Seq(Works) /\ landed' \in Merged /\ branch # NoBranch
    BY <1>2 DEF Merge, TypeOK
  <2>2. Offered
    BY <1>2 DEF Merge, At, Offered, Offers
  <2>3. HeadOf(branch) \in greens \ Flagged
    BY <2>1, <2>2 DEF AllVouched, HeadOK, Vouched
  <2>4. QED
    BY <1>1, <2>1, <2>3 DEF Merged, HeadOf, AllVouched, LandedOK
<1>3. CASE ~Merge(p)
  <2>1. landed' = landed
    BY <1>3 DEF Step, Create, StashUserWork, AddWorktree, AddWorktreeFails, BuildFails,
         SaveNew, LoopStep, StartWork, Work, StopWork, FinishReview, AskGate, GateIsGreen,
         GateIsRed, CancelAfterGate, Checkpoint, StartCommit, Close, RemoveWorktree,
         DeleteBranch, Unstash, Finish, Command, Approve, Reject, Rollback, Reset, Clean,
         Resave, Resume, ResumeStarts, GitFails, Crash, repoVars
  <2>2. QED
    BY <1>1, <2>1 DEF AllVouched, LandedOK
<1>4. QED
  BY <1>2, <1>3

\* Every step keeps what is offered and what has landed vouched for.
LEMMA StepVouchInv ==
  ASSUME TypeOK, PlaceInv, LoopInv, VouchInv, [Next]_vars
  PROVE  VouchInv'
<1>1. CASE UNCHANGED vars
  BY <1>1 DEF VouchInv, AllVouched, Apart, Offered, Offers, Editable, Edits, HeadOK,
              Vouched, Shown, LandedOK, GoalIsVouched, NextIsGreen, At, vars, repoVars,
              historyVars
<1>2. ASSUME NEW p \in Procs, Step(p), trouble' < Tangled, strayed' < Astray
      PROVE  AllVouched'
  <2>1. trouble \in NoTrouble..Tangled /\ trouble' \in NoTrouble..Tangled
    BY StepTypeOK DEF TypeOK
  <2>2. trouble' >= trouble
    BY <1>2, <2>1, StepShape DEF Continues, Ends, Starts, NoTrouble, Tangled
  <2>3. trouble < Tangled
    BY <1>2, <2>1, <2>2 DEF NoTrouble, Tangled
  <2>4. strayed < Astray
    BY <1>2, StraysGrow DEF TypeOK, Straight, Astray
  <2>5. Untangled /\ AllVouched
    BY <2>3, <2>4 DEF LoopInv, VouchInv
  <2>6. Apart'
    BY <1>2, <2>5, StepApart DEF AllVouched
  <2>7. QED
    BY <1>2, <2>3, <2>5, <2>6, StepHead, StepLanded, StepGoals, StepNext DEF AllVouched
<1>3. QED
  BY <1>1, <1>2, NextIsStep DEF VouchInv

VouchedInv == TypeOK /\ PlaceInv /\ LoopInv /\ VouchInv

LEMMA AlwaysVouched == Spec => []VouchedInv
<1>1. Init => VouchedInv
  BY InitTypeOK, InitPlaces, InitVouchInv DEF VouchedInv
<1>2. VouchedInv /\ [Next]_vars => VouchedInv'
  BY StepTypeOK, StepPlaceInv, StepLoopInv, StepVouchInv DEF VouchedInv
<1>3. QED
  BY <1>1, <1>2, PTL DEF Spec

\* Whatever the shell of a run commits, and however approvals, rejections, rollbacks
\* and crashes race with its loop, the user's branch receives nothing but what the
\* gate was green on and no flag was raised on: until a loop runs beside a second
\* one or a rollback, or the run is led astray.
THEOREM OnlyGreenEverLands == Spec => []OnlyGreenLands
<1>1. VouchedInv => OnlyGreenLands
  BY DEF VouchedInv, VouchInv, AllVouched, LandedOK, OnlyGreenLands
<1>2. QED
  BY <1>1, AlwaysVouched, PTL

\* Until then, what a run offers for approval is green and unflagged, and what its
\* worktree shows.
THEOREM OfferedIsAlwaysVouched == Spec => []OfferedIsVouched
<1>1. VouchedInv => OfferedIsVouched
  BY DEF VouchedInv, VouchInv, AllVouched, HeadOK, Offered, Vouched, Shown, OfferedIsVouched
<1>2. QED
  BY <1>1, AlwaysVouched, PTL


-----------------------------------------------------------------------------
(* A cancelled run left nothing: with one command at a time and no crash, what *)
(* landed is of a run that is done, or of a command that will make it so.      *)

Landing(p) == /\ proc[p].at \in {"remove", "unstash", "finish"}
              /\ proc[p].cmd # "reject"

LandInv == trouble = NoTrouble /\ landed # NotLanded =>
             disk.status = "DONE" \/ \E p \in Procs : Landing(p)

\* With one command at a time nobody but the process that steps is at anything.
LEMMA Alone ==
  ASSUME TypeOK, FinalInv, NEW p \in Procs, Step(p), trouble' < Overlapped
  PROVE  /\ trouble < Overlapped
         /\ proc[p] # Idle => Unended(p)
         /\ \A q \in Procs \ {p} : proc[q] = Idle /\ proc'[q] = Idle
<1>1. trouble \in NoTrouble..Tangled /\ trouble' \in NoTrouble..Tangled
  BY StepTypeOK DEF TypeOK, Step, Next
<1>2. OthersStay(p) /\ (Continues(p) \/ Ends(p) \/ Starts(p))
  BY StepShape
<1>3. trouble < Overlapped
  BY <1>1, <1>2 DEF Continues, Ends, Starts, NoTrouble, Overlapped, Tangled
<1>4. \A q \in Procs \ {p} : proc[q] = Idle
  BY <1>1, <1>2, <1>3
     DEF FinalInv, OneCommand, Continues, Ends, Starts, NoTrouble, Overlapped, Tangled
<1>5. QED
  BY <1>2, <1>3, <1>4 DEF FinalInv, OthersStay

\* Nothing that was merged is left before the run is called done.
LEMMA LandingSteps ==
  ASSUME TypeOK, NEW p \in Procs, Landing(p), Step(p), trouble' = NoTrouble
  PROVE  disk'.status = "DONE" \/ Landing(p)'
<1>1. proc[p].at \in {"remove", "unstash", "finish"} /\ proc[p] # Idle /\ JobsOK
  BY DEF Landing, Idle, Job, TypeOK
<1>2. ~Create(p) /\ ~LoopStep(p) /\ ~Command(p) /\ ~GitFails(p) /\ ~Merge(p)
      /\ ~DeleteBranch(p)
  BY <1>1 DEF Create, StashUserWork, AddWorktree, AddWorktreeFails, BuildFails, SaveNew,
              LoopStep, StartWork, Work, StopWork, FinishReview, AskGate, GateIsGreen,
              GateIsRed, CancelAfterGate, Checkpoint, StartCommit, Loop, At, Command,
              Approve, Reject, Rollback, Reset, Clean, Resave, Resume, ResumeStarts, Begin,
              GitFails, Merge, DeleteBranch
<1>3. ~Crash(p)
  BY DEF Crash, AtLeast, TypeOK, NoTrouble, Died, Tangled
<1>4. CASE RemoveWorktree(p)
  BY <1>1, <1>4, MoveEffect DEF RemoveWorktree, Landing, Places
<1>5. CASE Unstash(p)
  BY <1>1, <1>5, UnstashEffect DEF Landing
<1>6. CASE Finish(p)
  BY <1>1, <1>6, SaveAndExitEffect DEF Finish, Landing, RunStatuses
<1>7. QED
  BY <1>2, <1>3, <1>4, <1>5, <1>6 DEF Step, Close

\* Only a merge lands anything, and its process goes on to call the run done.
LEMMA MergeLands ==
  ASSUME TypeOK, PlaceInv, NEW p \in Procs, Step(p), landed' # landed
  PROVE  Landing(p)'
<1>1. Merge(p)
  BY DEF Step, Create, StashUserWork, AddWorktree, AddWorktreeFails, BuildFails, SaveNew,
         LoopStep, StartWork, Work, StopWork, FinishReview, AskGate, GateIsGreen, GateIsRed,
         CancelAfterGate, Checkpoint, StartCommit, Close, RemoveWorktree, DeleteBranch,
         Unstash, Finish, Command, Approve, Reject, Rollback, Reset, Clean, Resave, Resume,
         ResumeStarts, GitFails, Crash, repoVars
<1>2. proc[p].cmd # "reject" /\ JobsOK
  BY <1>1 DEF Merge, At, PlaceInv, PlaceOK, TypeOK
<1>3. QED
  BY <1>1, <1>2, MoveEffect DEF Merge, Landing, Places

\* Every step keeps the invariant.
LEMMA StepLandInv ==
  ASSUME TypeOK, PlaceInv, FinalInv, LandInv, [Next]_vars
  PROVE  LandInv'
<1>1. CASE UNCHANGED vars
  BY <1>1 DEF LandInv, Landing, vars, repoVars, historyVars
<1>2. ASSUME NEW p \in Procs, Step(p), trouble' = NoTrouble, landed' # NotLanded
      PROVE  disk'.status = "DONE" \/ \E q \in Procs : Landing(q)'
  <2>1. trouble' < Overlapped
    BY <1>2 DEF NoTrouble, Overlapped
  <2>2. trouble = NoTrouble
    BY <1>2, StepShape DEF Continues, Ends, Starts, TypeOK, NoTrouble, Tangled
  <2>3. CASE landed' # landed
    BY <1>2, <2>3, MergeLands
  <2>4. CASE landed' = landed /\ disk.status = "DONE"
    BY <1>2, <2>1, <2>4, StepFinal DEF TerminalStates
  <2>5. CASE landed' = landed /\ disk.status # "DONE"
    <3>1. PICK q \in Procs : Landing(q)
      BY <1>2, <2>2, <2>5 DEF LandInv
    <3>2. q = p
      BY <1>2, <2>1, <3>1, Alone DEF Landing, Idle, Job
    <3>3. QED
      BY <1>2, <3>1, <3>2, LandingSteps
  <2>6. QED
    BY <2>3, <2>4, <2>5
<1>3. QED
  BY <1>1, <1>2, NextIsStep DEF LandInv

\* With one command at a time and no crash, a run that was cancelled left nothing
\* on the user's branch.
THEOREM CancelledNeverLands == Spec => []CancelledLandsNothing
<1> DEFINE Inv == TypeOK /\ PlaceInv /\ FinalInv /\ LandInv
<1>1. Init => Inv
  BY InitTypeOK, InitPlaces, InitFinalInv DEF Init, LandInv
<1>2. Inv /\ [Next]_vars => Inv'
  BY StepTypeOK, StepPlaceInv, StepFinalInv, StepLandInv
<1>3. ASSUME Inv PROVE CancelledLandsNothing
  <2>1. SUFFICES ASSUME trouble = NoTrouble, disk.status = "CANCELLED", landed # NotLanded
                 PROVE  FALSE
    BY DEF CancelledLandsNothing
  <2>2. PICK p \in Procs : Landing(p)
    BY <1>3, <2>1 DEF LandInv
  <2>3. proc[p] # Idle /\ proc[p].cmd # "rollback"
    BY <1>3, <2>2 DEF Landing, Idle, Job, PlaceInv, PlaceOK, RollbackPlaces
  <2>4. QED
    BY <1>3, <2>1, <2>3 DEF FinalInv, Unended, NoTrouble, Overlapped, TerminalStates
<1>4. QED
  BY <1>1, <1>2, <1>3, PTL DEF Spec
=============================================================================

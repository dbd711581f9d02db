---------------------------- MODULE EditorClient ----------------------------
(***************************************************************************)
(* The VS Code extension (apps/vscode): its commands run side by side over *)
(* one cached connection to a spawned `clutchcode serve`, whose Agent      *)
(* serves requests in order and answers each when it is done.  A command   *)
(* asks the server for the runs, the user picks one, and what is picked    *)
(* may be out of date when the request for it arrives.                     *)
(*                                                                         *)
(* A command awaits one request at a time; its stage is the method it      *)
(* awaits, or the prompt it shows.  AgentRpc has the pipes.                *)
(***************************************************************************)
EXTENDS Naturals, Sequences

CONSTANTS
  Tasks,      \* the invocations of commands that may be under way at once
  RunIds,     \* the runs of the repository
  FirstRuns,  \* what the runs may be when the editor starts
  MaxVersion, \* bound: how often a run's work changes
  NoRunId     \* no run

Statuses == {"NONE", "RUNNING", "AWAITING_APPROVAL", "PAUSED", "FAILED", "DONE", "CANCELLED"}
RunRecords == [status : Statuses, version : 0..MaxVersion, conflict : BOOLEAN,
               landed : BOOLEAN, cut : BOOLEAN]

\* What was merged was approved, and what left a conflict was approved or
\* rejected, unless that was cut short.
IsAccountedFor(run) ==
  /\ run.landed => run.status = "DONE" \/ run.cut
  /\ run.conflict => run.status \in {"DONE", "CANCELLED"} \/ run.cut

ASSUME EditorAssumption ==
  /\ MaxVersion \in Nat
  /\ FirstRuns \subseteq
       [RunIds -> {run \in RunRecords : run.version = 0 /\ IsAccountedFor(run)}]

VARIABLES
  runs,       \* server: each run's status, the version of its work, whether
              \* landing or discarding it left a stash conflict, whether its
              \* work was merged, and (history) whether an approve or a reject
              \* of it was cut short
  serverUp,   \* the child process lives
  cached,     \* extension: `connection` is set
  requests,   \* the tasks whose requests are in the pipe
  replies,    \* the answers in the pipe back
  serving,    \* server: the tasks that wait for a loop, and its run
  tasks,      \* the commands
  listeners,  \* client: the tasks subscribed to events
  notices,    \* what the user has been told of landed and discarded runs
  views       \* the version of each run's diff its editors show
editorVars == <<runs, serverUp, cached, requests, replies, serving, tasks,
                listeners, notices, views>>
servedVars == <<runs, serving>>
clientVars == <<cached, tasks, listeners, notices, views>>

Kinds == {"run", "diff", "approve", "reject", "resume", "rollback", "pr"}
NoTask == [kind |-> "none", stage |-> "idle", run |-> NoRunId, choices |-> {}]

EditorInit ==
  /\ runs \in FirstRuns
  /\ serverUp = FALSE /\ cached = FALSE
  /\ requests = <<>> /\ replies = <<>> /\ serving = {}
  /\ tasks = [t \in Tasks |-> NoTask]
  /\ listeners = {} /\ notices = {}
  /\ views = [r \in RunIds |-> 0]

-----------------------------------------------------------------------------
(* The extension. *)

Listens(kind) == kind \in {"run", "resume"}

\* Task t, now as given, awaits a method of the server.
Sends(t, task, method) ==
  /\ tasks' = [tasks EXCEPT ![t] = [task EXCEPT !.stage = method]]
  /\ requests' = Append(requests, t)

Prompts(t, task, stage) ==
  /\ tasks' = [tasks EXCEPT ![t] = [task EXCEPT !.stage = stage]]
  /\ UNCHANGED <<requests, listeners, notices>>

\* The command is over; of an approved or rejected run it has told the user.
IsOver(t, told) ==
  /\ tasks' = [tasks EXCEPT ![t] = NoTask]
  /\ notices' = notices \cup told
  /\ listeners' = listeners \ {t}
  /\ UNCHANGED requests

\* What was opened once is used again, whatever became of it.
GetConnection == cached' = TRUE /\ serverUp' = (serverUp \/ ~cached)

Command(t, kind) ==
  /\ tasks[t] = NoTask
  /\ GetConnection
  /\ Sends(t, [NoTask EXCEPT !.kind = kind], IF kind = "run" THEN "run" ELSE "listRuns")
  /\ listeners' = IF kind = "run" THEN listeners \cup {t} ELSE listeners
  /\ UNCHANGED <<servedVars, replies, notices, views>>

\* What the command asks of the run that was picked.
MethodOf(kind) == CASE kind = "diff"     -> "diffFiles"
                    [] kind = "rollback" -> "checkpoints"
                    [] OTHER             -> kind

PickRun(t) ==
  /\ tasks[t].stage = "pick"
  /\ \/ \E r \in tasks[t].choices :
          /\ Sends(t, [tasks[t] EXCEPT !.run = r], MethodOf(tasks[t].kind))
          /\ listeners' = IF Listens(tasks[t].kind) THEN listeners \cup {t} ELSE listeners
          /\ UNCHANGED notices
     \/ IsOver(t, {})
  /\ UNCHANGED <<servedVars, serverUp, cached, replies, views>>

PickCheckpoint(t) ==
  /\ tasks[t].stage = "pick checkpoint"
  /\ \/ Sends(t, tasks[t], "rollback") /\ UNCHANGED <<listeners, notices>>
     \/ IsOver(t, {})
  /\ UNCHANGED <<servedVars, serverUp, cached, replies, views>>

AskApproveOrReject(t) ==
  /\ tasks[t].stage = "decide"
  /\ \/ \E m \in {"approve", "reject"} :
          Sends(t, tasks[t], m) /\ UNCHANGED <<listeners, notices>>
     \/ IsOver(t, {})
  /\ UNCHANGED <<servedVars, serverUp, cached, replies, views>>

\* showDiff: the documents of a run are replaced in the editors that show them.
ShowDiff(answer) == [views EXCEPT ![answer.run] = answer.version]

\* What the user is told when a run was approved or rejected.
Notices(what, answer) ==
  {<<what, answer.run>>} \cup
    IF answer.conflict THEN {<<"warning", answer.run>>} ELSE {}

\* The promise of the task's request settles, and the task goes on.
TakesAnswer(t, answer) ==
  LET stage == tasks[t].stage
      task == [tasks[t] EXCEPT !.run = answer.run]
  IN /\ views' = IF answer.ok /\ stage = "diffFiles"
                 THEN ShowDiff(answer) ELSE views
     /\ IF ~answer.ok THEN IsOver(t, {})
        ELSE CASE stage = "listRuns" ->
                    IF answer.choices = {} THEN IsOver(t, {})
                    ELSE Prompts(t, [task EXCEPT !.choices = answer.choices], "pick")
               [] stage \in {"run", "resume"} ->
                    IF answer.status # "AWAITING_APPROVAL" THEN IsOver(t, {})
                    ELSE Sends(t, task, "diffFiles") /\ UNCHANGED <<listeners, notices>>
               [] stage = "diffFiles" ->
                    IF Listens(task.kind) THEN Prompts(t, task, "decide") ELSE IsOver(t, {})
               [] stage = "approve"  -> IsOver(t, Notices("approved", answer))
               [] stage = "reject"   -> IsOver(t, Notices("rejected", answer))
               [] stage = "checkpoints" ->
                    IF answer.choices = {} THEN IsOver(t, {})
                    ELSE Prompts(t, task, "pick checkpoint")
               [] stage \in {"rollback", "pr"} -> IsOver(t, {})

Deliver ==
  /\ replies # <<>>
  /\ replies' = Tail(replies)
  /\ TakesAnswer(Head(replies).task, Head(replies))
  /\ UNCHANGED <<servedVars, serverUp, cached>>

-----------------------------------------------------------------------------
(* A handler may stop before its end: a step of it throws, or the process is *)
(* gone.                                                                     *)

Worked(run) == run.status \notin {"NONE", "DONE", "CANCELLED"}

\* What it leaves of its run.  approve merges, and approve and reject restore
\* the stash, before the status is saved; rollback resets before it cleans.
Halves(method, run) ==
  CASE method \in {"approve", "reject"} /\ run.status = "AWAITING_APPROVAL" ->
         {[run EXCEPT !.landed = @ \/ method = "approve", !.conflict = @ \/ conflict,
                      !.cut = TRUE] : conflict \in BOOLEAN}
    [] method = "rollback" /\ Worked(run) /\ run.version < MaxVersion ->
         {[run EXCEPT !.version = @ + 1]}
    [] OTHER -> {}

\* The runs it may leave.
LeftBy(method, r) ==
  {runs} \cup {[runs EXCEPT ![r] = left] : left \in Halves(method, runs[r])}

\* The runs a server may leave that is killed, whatever it was at.
LeftByServer ==
  IF ~serverUp \/ requests = <<>> THEN {runs}
  ELSE LeftBy(tasks[Head(requests)].stage, tasks[Head(requests)].run)

\* deactivate: the connection is disposed of and its process killed; every
\* request is rejected.
Deactivate ==
  /\ cached
  /\ cached' = FALSE /\ serverUp' = FALSE
  /\ runs' \in LeftByServer
  /\ tasks' = [t \in Tasks |-> NoTask]
  /\ requests' = <<>> /\ replies' = <<>> /\ serving' = {} /\ listeners' = {}
  /\ UNCHANGED <<notices, views>>

-----------------------------------------------------------------------------
(* The server. *)

ServerExits ==
  /\ serverUp
  /\ runs' \in LeftByServer
  /\ serverUp' = FALSE /\ requests' = <<>> /\ serving' = {}
  /\ UNCHANGED <<replies, clientVars>>

Response(t, r, ok) == [task |-> t, run |-> r, ok |-> ok, status |-> "NONE",
                     version |-> 0, conflict |-> FALSE, choices |-> {}]
Sound(t, r) == [Response(t, r, TRUE) EXCEPT !.status = runs[r].status,
                                          !.version = runs[r].version]

Replies(answer) == replies' = Append(replies, answer)

\* The runs a command offers: its filter, on the statuses as they are now.
Offers(kind) ==
  {r \in RunIds :
     CASE kind \in {"approve", "reject"} -> runs[r].status = "AWAITING_APPROVAL"
       [] kind = "resume"                -> runs[r].status = "PAUSED"
       [] OTHER                          -> runs[r].status # "NONE"}

\* Mutant: the status is not looked at before the work is merged or discarded.
LandsAnything(t, r, status) ==
  /\ \E conflict \in BOOLEAN :
       /\ runs' = [runs EXCEPT ![r].status = status, ![r].conflict = @ \/ conflict,
                               ![r].landed = @ \/ status = "DONE"]
       /\ Replies([Sound(t, r) EXCEPT !.conflict = conflict])
  /\ UNCHANGED serving

\* approve and reject: only of a run that awaits it, and what it left.
Lands(t, r, status) ==
  /\ runs[r].status = "AWAITING_APPROVAL"
  /\ \E conflict \in BOOLEAN :
       /\ runs' = [runs EXCEPT ![r].status = status, ![r].conflict = @ \/ conflict,
                               ![r].landed = @ \/ status = "DONE"]
       /\ Replies([Sound(t, r) EXCEPT !.conflict = conflict])
  /\ UNCHANGED serving

\* A loop starts; its answer comes when it ends.
LoopStarts(t, r) ==
  /\ runs' = [runs EXCEPT ![r].status = "RUNNING"]
  /\ serving' = serving \cup {<<t, r>>}
  /\ UNCHANGED replies

OnlyReplies(answer) == Replies(answer) /\ UNCHANGED <<runs, serving>>

\* The handler of the oldest request runs to its end or to its first await.
\* Any handler but listRuns may throw, at any of its steps.
Serve ==
  /\ serverUp /\ requests # <<>>
  /\ LET t == Head(requests)
         r == tasks[t].run
         method == tasks[t].stage
     IN \/ /\ method # "listRuns" /\ runs' \in LeftBy(method, r)
           /\ Replies(Response(t, r, FALSE)) /\ UNCHANGED serving
        \/ /\ method = "listRuns"
           /\ OnlyReplies([Response(t, r, TRUE) EXCEPT !.choices = Offers(tasks[t].kind)])
        \/ /\ method = "run"
           /\ \E new \in RunIds : runs[new].status = "NONE" /\ LoopStarts(t, new)
        \/ method = "resume" /\ runs[r].status = "PAUSED" /\ LoopStarts(t, r)
        \/ method = "resume" /\ runs[r].status # "PAUSED" /\ OnlyReplies(Sound(t, r))
        \/ method = "diffFiles" /\ Worked(runs[r]) /\ OnlyReplies(Sound(t, r))
        \/ method = "approve" /\ Lands(t, r, "DONE")
        \/ method = "reject" /\ Lands(t, r, "CANCELLED")
        \/ /\ method = "checkpoints"
           /\ \E some \in SUBSET {r} : OnlyReplies([Sound(t, r) EXCEPT !.choices = some])
        \/ /\ method = "rollback" /\ Worked(runs[r]) /\ runs[r].version < MaxVersion
           /\ runs' = [runs EXCEPT ![r].version = @ + 1]
           /\ Replies(Sound(t, r))
           /\ UNCHANGED serving
        \/ method = "pr" /\ Worked(runs[r]) /\ OnlyReplies(Sound(t, r))
  /\ requests' = Tail(requests)
  /\ UNCHANGED <<serverUp, clientVars>>

\* The loop of a run ends: it waits for approval, is paused or is over, or it
\* threw and the run stays as it was last saved.
LoopEnds ==
  /\ serverUp
  /\ \E s \in serving, status \in {"AWAITING_APPROVAL", "PAUSED", "FAILED", "RUNNING"} :
       LET t == s[1]  r == s[2]
       IN /\ runs[r].version < MaxVersion
          /\ runs' = [runs EXCEPT ![r].status = status, ![r].version = @ + 1]
          /\ serving' = serving \ {s}
          /\ Replies([Response(t, r, status # "RUNNING") EXCEPT !.status = status])
  /\ UNCHANGED <<serverUp, requests, clientVars>>

EditorNext ==
  \/ \E t \in Tasks : \/ \E kind \in Kinds : Command(t, kind)
                      \/ PickRun(t) \/ PickCheckpoint(t) \/ AskApproveOrReject(t)
  \/ Deliver \/ Deactivate \/ ServerExits \/ Serve \/ LoopEnds

EditorSpec == EditorInit /\ [][EditorNext]_editorVars

-----------------------------------------------------------------------------
(* Properties. *)

\* The variables have their types.
EditorTypeOK ==
  /\ runs \in [RunIds -> RunRecords] /\ views \in [RunIds -> 0..MaxVersion]
  /\ listeners \subseteq Tasks
  /\ \A t \in Tasks : tasks[t].kind \in Kinds \cup {"none"}
  /\ cached \/ ~serverUp

\* What the user is told holds, however the commands overlap, whatever was
\* picked is worth by then and wherever a handler stopped: the work of a run
\* called approved was merged and that of one called rejected was not, and a
\* conflict that left markers in the user's files was told too.  The exception
\* is a run of which an approve or a reject was cut short before it saved: its
\* status still awaits approval, so a reject may call rejected what was merged,
\* and nobody tells of the conflict (worktree.ts:325-342, agent.ts:447-452).  No
\* editor goes back to an older diff, and no command that is over still listens.
EditorTellsTheTruth ==
  /\ \A r \in RunIds :
       /\ <<"approved", r>> \in notices => runs[r].status = "DONE" /\ runs[r].landed
       /\ <<"rejected", r>> \in notices =>
            runs[r].status = "CANCELLED" /\ (runs[r].landed => runs[r].cut)
       /\ runs[r].conflict /\ ~runs[r].cut
          /\ notices \cap {<<"approved", r>>, <<"rejected", r>>} # {}
            => <<"warning", r>> \in notices
  /\ \A i \in DOMAIN replies :
       replies[i].ok /\ tasks[replies[i].task].stage = "diffFiles"
         => replies[i].version >= views[replies[i].run]
  /\ \A t \in listeners :
       Listens(tasks[t].kind) /\ tasks[t].stage \notin {"listRuns", "pick", "idle"}
=============================================================================

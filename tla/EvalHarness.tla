---------------------------- MODULE EvalHarness ----------------------------
(***************************************************************************)
(* The A/B comparison of the evaluation harness (src/evals): for each      *)
(* repetition and each task the ClutchCode arm, then the naked arm, each   *)
(* in a scratch repository, each graded by an oracle copied in after the   *)
(* arm has finished, and at the end one report over the pairs that ran.    *)
(*                                                                         *)
(* A scratch repository is two things: the code (still the fixture's,      *)
(* right or wrong) and the file at the oracle's path (absent, the arm's    *)
(* own, or the held-out one).  What the agent or the model writes is the   *)
(* environment's choice, and so is what the host answers each time it is   *)
(* asked whether the binaries of a task are usable.                        *)
(***************************************************************************)
EXTENDS Naturals, Sequences, FiniteSets, SequencesExt

CONSTANTS
  Suites,       \* the suites a comparison may be asked for: sequences of tasks
  Repetitions,  \* the repetitions of a comparison
  Rejected      \* the comparison threw instead of returning a report

AllTasks == UNION {Range(s) : s \in Suites}

\* An empty suite is refused before anything else is done.
ASSUME EvalAssumption ==
  /\ Repetitions \in Nat \ {0}
  /\ \A s \in Suites : s \in Seq(AllTasks) /\ s # <<>>

VARIABLES
  suite, keep, named, \* the options: tasks, keepWorkDir, an explicit workDir
  asked,     \* requirementCache: what the host answered the first time
  cell,      \* the cell being run: repetition, index in the suite, arm
  stage,     \* where the comparison stands
  scratch,   \* the scratch directories on disk
  work,      \* the repository of the cell being run
  claim,     \* the agent's run of the cell was DONE, green and not flagged
  clutchcode, naked, \* the observations of the two arms
  report, board      \* what the comparison returned
evalVars == <<suite, keep, named, asked, cell, stage, scratch, work, claim,
              clutchcode, naked, report, board>>
options == <<suite, keep, named>>

Task == suite[cell.index]
Repos == [code : {"fixture", "right", "wrong"}, check : {"none", "own", "held"}]
Gone == [code |-> "fixture", check |-> "none"]

EvalInit ==
  /\ suite \in Suites
  /\ keep \in BOOLEAN
  /\ named \in BOOLEAN
  \* only the command line repeats a task, and it names no directory
  /\ named => IsInjective(suite)
  /\ asked = [t \in AllTasks |-> "unasked"]
  /\ cell = [repetition |-> 1, index |-> 1, arm |-> "clutchcode"]
  /\ stage = "check"
  /\ scratch = {}
  /\ work = Gone
  /\ claim = FALSE
  /\ clutchcode = <<>>
  /\ naked = <<>>
  /\ report = Rejected
  /\ board = Rejected

(***************************************************************************)
(* Requirements, scratch directories and the oracle.                       *)
(***************************************************************************)
\* What the check may answer: it runs the binaries the first time, and the
\* first answer is remembered for the rest of the process.
CheckTaskRequirements(t) ==
  IF asked[t] = "unasked" THEN {"yes", "no"} ELSE {asked[t]}

\* Mutant: the repetitions of a task share their directory.
TaskDirOfTask(c, t) == <<c.arm, c.index, t>>

\* Where the cell runs: a directory of its own, or one under workDir that is
\* named after the repetition and the task.
TaskDir(c, t) ==
  IF named THEN <<c.arm, c.repetition, t>>
           ELSE <<c.arm, c.repetition, c.index>>

\* Copies the fixture over the directory: it overwrites and never deletes.
Materialized(dir) ==
  [code |-> "fixture", check |-> IF dir \in scratch THEN "held" ELSE "none"]

\* Mutant: a check the arm has written is not overwritten.
WithOracleIfMissing(r) == [r EXCEPT !.check = IF @ = "none" THEN "held" ELSE @]

\* The oracle's files are copied over whatever the arm left at their path.
WithOracle(r) == [r EXCEPT !.check = "held"]

OraclePasses(r, timedOut) ==
  /\ ~timedOut
  /\ \/ r.check = "own"
     \/ r.check = "held" /\ r.code = "right"

(***************************************************************************)
(* The report and the board.                                               *)
(***************************************************************************)
CellKey(o) == <<o.task, o.repetition>>
CellKeys(arm) == {CellKey(o) : o \in Range(arm)}
Pair(o, arm) == CHOOSE p \in Range(arm) : CellKey(p) = CellKey(o)
Scored(arm) == SelectSeq(arm, LAMBDA o : ~o.refused)
Solved(arm) == Len(SelectSeq(arm, LAMBDA o : o.solved))
RepetitionsOf(t, arm) == Len(SelectSeq(Scored(arm), LAMBDA o : o.task = t))

Comparable(c, n) ==
  /\ Len(c) > 0 /\ Len(c) = Len(n)
  /\ Cardinality(CellKeys(n)) = Len(n)
  /\ CellKeys(c) \subseteq CellKeys(n)
  /\ \A o \in Range(c) : o.refused = Pair(o, n).refused
  /\ Len(Scored(c)) > 0
  /\ \A o, p \in Range(Scored(c)) :
        RepetitionsOf(o.task, c) = RepetitionsOf(p.task, c)

ComputeAbReport(c, n) ==
  IF ~Comparable(c, n) THEN Rejected
  ELSE [observations |-> Len(Scored(c)),
        refused |-> Len(c) - Len(Scored(c)),
        clutchcode |-> Solved(Scored(c)),
        naked |-> Len(SelectSeq(Scored(c), LAMBDA o : Pair(o, n).solved))]

ComputeScoreboard(c) ==
  [taskCount |-> Len(c),
   solved |-> Solved(c),
   claimed |-> Len(SelectSeq(c, LAMBDA o : o.claimed)),
   falseCompletions |-> Len(SelectSeq(c, LAMBDA o : o.claimed /\ ~o.passed))]

(***************************************************************************)
(* One cell.                                                               *)
(***************************************************************************)
LastCell == cell.repetition = Repetitions /\ cell.index = Len(suite)

NextCell ==
  IF cell.arm = "clutchcode" THEN [cell EXCEPT !.arm = "naked"]
  ELSE IF cell.index < Len(suite)
       THEN [cell EXCEPT !.arm = "clutchcode", !.index = @ + 1]
       ELSE [repetition |-> cell.repetition + 1, index |-> 1,
             arm |-> "clutchcode"]

\* The observation of the cell: the naked arm is solved by the oracle alone,
\* the ClutchCode arm must have claimed the task done as well.
Observe(refused, passed) ==
  LET o == [task |-> Task, repetition |-> cell.repetition, refused |-> refused,
            claimed |-> claim, passed |-> passed,
            solved |-> passed /\ (cell.arm = "clutchcode" => claim)]
  IN IF cell.arm = "clutchcode"
     THEN clutchcode' = Append(clutchcode, o) /\ UNCHANGED naked
     ELSE naked' = Append(naked, o) /\ UNCHANGED clutchcode

Removed == IF keep THEN scratch ELSE scratch \ {TaskDir(cell, Task)}

\* The cell is over: its directory is removed unless it is to be kept, and the
\* comparison goes on to the next one, or to the report.
Advance ==
  /\ work' = Gone
  /\ claim' = FALSE
  /\ scratch' = Removed
  /\ IF LastCell /\ cell.arm = "naked"
     THEN stage' = "report" /\ UNCHANGED cell
     ELSE stage' = "check" /\ cell' = NextCell

\* The host cannot run the task: the arm refuses it before touching the disk.
Refuse ==
  /\ stage = "check"
  /\ "no" \in CheckTaskRequirements(Task)
  /\ asked' = [asked EXCEPT ![Task] = "no"]
  /\ Observe(TRUE, FALSE)
  /\ Advance
  /\ UNCHANGED <<options, report, board>>

Materialize ==
  /\ stage = "check"
  /\ "yes" \in CheckTaskRequirements(Task)
  /\ asked' = [asked EXCEPT ![Task] = "yes"]
  /\ work' = Materialized(TaskDir(cell, Task))
  /\ scratch' = scratch \cup {TaskDir(cell, Task)}
  /\ stage' = "work"
  /\ UNCHANGED <<options, cell, claim, clutchcode, naked, report, board>>

\* What the arm left: any code, and perhaps a file of its own where the
\* oracle's will go.
Leaves == work' \in [code : {"fixture", "right", "wrong"},
                     check : {work.check, "own"}]

\* The agent's run ends with some status; it counts as a claim only if it is
\* DONE with a green gate and no cheat flag.
AgentEnds ==
  /\ stage = "work" /\ cell.arm = "clutchcode"
  /\ Leaves
  /\ \E done, green, flagged \in BOOLEAN : claim' = (done /\ green /\ ~flagged)
  /\ stage' = "grade"
  /\ UNCHANGED <<options, asked, cell, scratch, clutchcode, naked, report, board>>

\* The agent throws: nothing is claimed, and what is there is still graded.
AgentThrows ==
  /\ stage = "work" /\ cell.arm = "clutchcode"
  /\ Leaves
  /\ claim' = FALSE
  /\ stage' = "grade"
  /\ UNCHANGED <<options, asked, cell, scratch, clutchcode, naked, report, board>>

\* The reply's whole-file blocks are written, those of a reply whose stream
\* ended in an error too.
ModelReplies ==
  /\ stage = "work" /\ cell.arm = "naked"
  /\ Leaves
  /\ stage' = "grade"
  /\ UNCHANGED <<options, asked, cell, scratch, claim, clutchcode, naked, report, board>>

\* The call throws: an unsolved observation, and no oracle.
ModelThrows ==
  /\ stage = "work" /\ cell.arm = "naked"
  /\ Observe(FALSE, FALSE)
  /\ Advance
  /\ UNCHANGED <<options, asked, report, board>>

Grade ==
  /\ stage = "grade"
  /\ \E timedOut \in BOOLEAN :
       Observe(FALSE, OraclePasses(WithOracle(work), timedOut))
  /\ Advance
  /\ UNCHANGED <<options, asked, report, board>>

\* git, a copy or the removal throws: the scratch directory goes and the whole
\* comparison is rejected.
HarnessThrows ==
  /\ stage \in {"work", "grade"}
  /\ scratch' = Removed
  /\ stage' = "over"
  /\ UNCHANGED <<options, asked, cell, work, claim, clutchcode, naked, report, board>>

\* No board is returned when there is no report.
Report ==
  /\ stage = "report"
  /\ report' = ComputeAbReport(clutchcode, naked)
  /\ board' = IF report' = Rejected THEN Rejected ELSE ComputeScoreboard(clutchcode)
  /\ stage' = "over"
  /\ UNCHANGED <<options, asked, cell, scratch, work, claim, clutchcode, naked>>

EvalNext ==
  \/ Refuse \/ Materialize \/ AgentEnds \/ AgentThrows
  \/ ModelReplies \/ ModelThrows \/ Grade \/ HarnessThrows \/ Report

EvalSpec == EvalInit /\ [][EvalNext]_evalVars

(***************************************************************************)
(* Properties.                                                             *)
(***************************************************************************)
\* The variables have their types.
EvalTypeOK ==
  /\ suite \in Suites /\ keep \in BOOLEAN /\ named \in BOOLEAN
  /\ asked \in [AllTasks -> {"unasked", "yes", "no"}]
  /\ cell.repetition \in 1..Repetitions /\ cell.index \in DOMAIN suite
  /\ cell.arm \in {"clutchcode", "naked"}
  /\ stage \in {"check", "work", "grade", "report", "over"}
  /\ work \in Repos
  /\ claim \in BOOLEAN

OracleStaysHeldOut == stage = "work" => work.check # "held"
SolvedIsRight ==
  \A o \in (Range(clutchcode') \ Range(clutchcode)) \cup (Range(naked') \ Range(naked)) :
    o.solved => work.code = "right"

\* The oracle is held out: while an arm works on a cell, the oracle's files of
\* an earlier run of the same task are not in its repository (materializing
\* never deletes, so a directory used twice would hand the check to the arm);
\* and an observation is solved only by code that is right, whatever test file
\* the arm wrote where the oracle's goes.
VerdictsAreFair == [][OracleStaysHeldOut' /\ SolvedIsRight]_evalVars
=============================================================================

------------------------------ MODULE ToolOutput ------------------------------
(***************************************************************************)
(* What a tool tells the model: the policy's decision before it runs       *)
(* (sandbox/src/policy.ts), the truncation of what it put out and the      *)
(* evidence of the rest (tools/src/truncate.ts), for the tools that read   *)
(* or execute and for the stages of the verification.                      *)
(*                                                                         *)
(* An output is a sequence of lines [word, fails, size]: whether the line  *)
(* matches FAILURE_LINE_RE, and its characters.                            *)
(***************************************************************************)
EXTENDS Integers, Functions, FiniteSetsExt, SequencesExt, Selection

CONSTANTS
  Outputs,             \* what a command may put out on one stream
  OutputBudget, HeadLines, TailLines, MaxExtraFailures,
  ShellCommands,       \* the commands of a model: [class, destructive]
  WorkspaceFiles,      \* path -> its lines
  MissingFile,         \* a path where there is nothing
  Denylisted,          \* the paths of it on the denylist
  EvidenceInWorkspace, \* is the state directory inside the workspace
  MaxBytes,            \* of a file that may be read
  MatchCounts,         \* what a pattern may match: file -> lines
  MaxMatchesPerFile, TopK,
  NoRef,               \* of an output that needs no file
  MaxToolCalls         \* bound: calls of the run

\* The labels of the evidence files.
GitLabels == {"git-status", "git-diff", "git-log"}
StageLabels == {"build-stdout", "test-stdout"}   \* the other stages and stderr are alike
Labels == {"shell-stdout", "shell-stderr"} \cup GitLabels \cup StageLabels

ASSUME OutputAssumption ==
  /\ \A text \in Outputs : text \in Seq(Range(text))
  /\ {OutputBudget, HeadLines, TailLines, MaxExtraFailures, MaxBytes,
      MaxMatchesPerFile, TopK, MaxToolCalls} \subseteq Nat
  /\ EvidenceInWorkspace \in BOOLEAN
  /\ Denylisted \subseteq DOMAIN WorkspaceFiles
  /\ NoRef \notin Labels \X Outputs

VARIABLES
  repoTrustMode,   \* "trusted", "untrusted"
  decisions,       \* PolicyEngine.log
  evidence,        \* evidence file -> its text
  answers          \* what the model was told, call by call

outputVars == <<repoTrustMode, decisions, evidence, answers>>

OutputInit ==
  /\ repoTrustMode \in {"trusted", "untrusted"}
  /\ decisions = <<>>
  /\ evidence = <<>>
  /\ answers = <<>>

-----------------------------------------------------------------------------
(* PolicyEngine.decide.  Nothing in the program calls remember(), so no    *)
(* decision is ever remembered.                                            *)

Decide(r) ==
  IF \/ r.permission = "READ"
     \/ r.permission = "EXECUTE" /\ ~r.destructive /\ repoTrustMode = "trusted"
  THEN "ALLOW" ELSE "ASK"
Read(class) == [permission |-> "READ", class |-> class, destructive |-> FALSE]
Execute(class, destructive) ==
  [permission |-> "EXECUTE", class |-> class, destructive |-> destructive]
Decided(r) == decisions' = Append(decisions, [class |-> r.class, decision |-> Decide(r),
                                              destructive |-> r.destructive])

-----------------------------------------------------------------------------
(* truncate. *)

SizeOf(text) == FoldSeq(LAMBDA line, n : n + line.size, 0, text)
Smaller(m, n) == IF m < n THEN m ELSE n
HeadOf(text) == SubSeq(text, 1, Smaller(HeadLines, Len(text)))
TailOf(text, from) == SubSeq(text, Max({1, from, Len(text) - TailLines + 1}), Len(text))

Note(what, n) == [word |-> what, fails |-> FALSE, size |-> n]

TruncateGeneric(text) ==
  LET tail == TailOf(text, HeadLines + 1)
  IN HeadOf(text) \o <<Note("lines skipped", Len(text) - Len(HeadOf(text)) - Len(tail))>> \o tail

\* Mutant: a line whose text is shown already is left out.
NotShownByText(text) ==
  LET shown == Range(HeadOf(text) \o TailOf(text, 1))
  IN Selected(text, {i \in DOMAIN text : text[i].fails /\ text[i] \notin shown})

\* The failing lines that are neither in the head nor in the tail.
OmittedFailures(text) ==
  Selected(text, {i \in DOMAIN text : text[i].fails /\ i > HeadLines /\ i <= Len(text) - TailLines})

Failures(text) == Selected(text, {i \in DOMAIN text : text[i].fails})
TruncateTestLog(text) ==
  LET extra == OmittedFailures(text)
  IN <<Note("failure signatures detected", Len(Failures(text)))>> \o HeadOf(text)
       \o <<Note("passing middle omitted", 0)>> \o TailOf(text, 1)
       \o SubSeq(extra, 1, Smaller(MaxExtraFailures, Len(extra)))

\* Mutant: the name of the file is the tool's alone.
NameOfTool(label, text) == <<label>>
\* The name has the hash of the text.
EvidenceFile(label, text) == <<label, text>>

Truncate(text, kind, label) ==
  IF SizeOf(text) <= OutputBudget
  THEN [kind |-> kind, full |-> text, shown |-> text, ref |-> NoRef]
  ELSE [kind |-> kind, full |-> text, ref |-> EvidenceFile(label, text),
        shown |-> IF kind = "test" THEN TruncateTestLog(text) ELSE TruncateGeneric(text)]

\* writeEvidence of the outputs that are truncated.
Saves(outs) ==
  LET saved == {o \in Range(outs) : o.ref # NoRef}
  IN evidence' = [f \in DOMAIN evidence \cup {o.ref : o \in saved} |->
                    IF \E o \in saved : o.ref = f
                    THEN (CHOOSE o \in saved : o.ref = f).full ELSE evidence[f]]

-----------------------------------------------------------------------------
(* The tools. *)

Answers(tool, code, outs) ==
  answers' = Append(answers, [tool |-> tool, code |-> code, outputs |-> outs])
MayCall == Len(answers) < MaxToolCalls /\ UNCHANGED repoTrustMode
Untouched == UNCHANGED evidence

\* A command class is the first two words of a simple command, all of another.
Shell ==
  /\ MayCall
  /\ \E c \in ShellCommands, stdout, stderr \in Outputs :
       LET request == Execute(c.class, c.destructive)
           outs == <<Truncate(stdout, "log", "shell-stdout"), Truncate(stderr, "log", "shell-stderr")>>
       IN /\ Decided(request)
          /\ IF Decide(request) # "ALLOW" THEN Answers("shell", "needs-approval", <<>>) /\ Untouched
             ELSE \/ Saves(outs) /\ \E code \in {"ok", "timeout"} : Answers("shell", code, outs)
                  \/ Answers("shell", "spawn-error", <<>>) /\ Untouched

\* Listing or killing processes.
Process ==
  /\ MayCall
  /\ \E op \in {"process list", "process kill"} :
       /\ Decided(Execute(op, FALSE))
       /\ \E code \in IF Decide(Execute(op, FALSE)) # "ALLOW" THEN {"needs-approval"}
                      ELSE IF op = "process list" THEN {"ok", "exec-error"}
                      ELSE {"ok", "no-such-process", "kill-failed"} :
            Answers("process", code, <<>>)
  /\ Untouched

\* Inspection goes on when the policy asks; only a denial stops it.
Git ==
  /\ MayCall
  /\ \E op \in GitLabels, stdout \in Outputs :
       LET outs == <<Truncate(stdout, "log", op)>>
       IN /\ Decided(Execute(op, FALSE))
          /\ \/ Answers("git", "ok", outs) /\ Saves(outs)
             \/ Answers("git", "git-error", <<>>) /\ Untouched

\* A stage of the verification, which asks no one.
RunStage ==
  /\ MayCall
  /\ \E stage \in StageLabels, stdout \in Outputs :
       LET outs == <<Truncate(stdout, "test", stage)>>
       IN Answers("verification", "ok", outs) /\ Saves(outs)
  /\ UNCHANGED decisions

Known(path) == path \in DOMAIN WorkspaceFiles \/ (EvidenceInWorkspace /\ path \in DOMAIN evidence)
TextAt(path) == IF path \in DOMAIN evidence THEN evidence[path] ELSE WorkspaceFiles[path]
Inside(path) == path \notin DOMAIN evidence \/ EvidenceInWorkspace

\* The size is that of the file, not of the window.
ReadFile(path, window) ==
  LET text == TextAt(path)
      from == Max({1, window[1]})
      to == Smaller(Len(text), window[2])
  IN IF ~Inside(path) THEN "path-outside-workspace"
     ELSE IF path \in Denylisted THEN "denylisted"
     ELSE IF ~Known(path) THEN "not-found"
     ELSE IF SizeOf(text) > MaxBytes THEN "too-large"
     ELSE IF from > to THEN "bad-window" ELSE "ok"

ReadsFile ==
  /\ MayCall
  /\ \E path \in DOMAIN WorkspaceFiles \cup DOMAIN evidence \cup {MissingFile}, from, to \in 0..3 :
       LET code == ReadFile(path, <<from, to>>)
       IN /\ IF code \in {"path-outside-workspace", "denylisted"} THEN UNCHANGED decisions
             ELSE Decided(Read("read_file"))
          /\ answers' = Append(answers, [tool |-> "read_file", code |-> code, outputs |-> <<>>,
                                         path |-> path, window |-> <<from, to>>])
  /\ Untouched

\* ripgrep stops in a file at its --max-count; of what it finds the first are shown.
Found(counts) == FoldFunction(LAMBDA n, m : m + Smaller(n, MaxMatchesPerFile), 0, counts)
Search ==
  /\ MayCall
  /\ \E counts \in MatchCounts :
       answers' = Append(answers,
         [tool |-> "search", code |-> "ok", outputs |-> <<>>, matches |-> counts,
          totalCount |-> Found(counts), truncated |-> Found(counts) > TopK])
  /\ Decided(Read("search"))
  /\ Untouched

OutputNext == Shell \/ Process \/ Git \/ RunStage \/ ReadsFile \/ Search

OutputSpec == OutputInit /\ [][OutputNext]_outputVars

-----------------------------------------------------------------------------
(* Properties. *)

\* The variables have their types.
OutputTypeOK ==
  /\ \A d \in Range(decisions) : d.decision \in {"ALLOW", "ASK", "DENY"}
  /\ Len(decisions) <= Len(answers)
  /\ Range(evidence) \subseteq Outputs

ToldOutputs == UNION {Range(a.outputs) : a \in Range(answers)}
Count(line, text) == Cardinality({i \in DOMAIN text : text[i] = line})

\* Of the output of a verification stage every failing line is shown, as often as
\* it was put out, or as many as the cap allows (truncate.ts:47-82).
FailuresAreShown ==
  \A o \in ToldOutputs : o.kind = "test" =>
    \/ \A line \in Range(Failures(o.full)) : Count(line, o.shown) >= Count(line, o.full)
    \/ Len(Failures(o.shown)) >= MaxExtraFailures

\* What the model is shown is all of the output, or a file it is told of holds
\* all of it, for as long as the run lasts and whatever is put out after it
\* (truncate.ts:28-34, 88-108).
EvidenceIsWhole ==
  \A o \in ToldOutputs :
    IF o.ref = NoRef THEN o.shown = o.full
    ELSE o.ref \in DOMAIN evidence /\ evidence[o.ref] = o.full
=============================================================================

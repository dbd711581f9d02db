----------------------------- MODULE OutputProofs -----------------------------
(***************************************************************************)
(* Proofs about what a model is given: the outputs of the tools, for any   *)
(* outputs, budgets, commands and number of calls; the conversation that   *)
(* every request sends, for any tools, sizes and budgets; and about what   *)
(* its edits do, for any file and any blocks.                              *)
(***************************************************************************)
EXTENDS ToolOutput, Transcript, EditCascade, SequenceTheorems, FiniteSetTheorems,
        WellFoundedInduction, TLAPS

-----------------------------------------------------------------------------
(* The outputs.                                                              *)

\* The answers are a sequence, and the name of every evidence file tells what is
\* in it: writing another can only write the same again.
EvidenceIsNamed ==
  /\ answers \in Seq(Range(answers))
  /\ \A f \in DOMAIN evidence : \E l \in Labels : f = <<l, evidence[f]>>

\* What can be said of one output.
IsKept(o, files) ==
  IF o.ref = NoRef THEN o.shown = o.full
  ELSE /\ \E l \in Labels : o.ref = <<l, o.full>>
       /\ o.ref \in DOMAIN files /\ files[o.ref] = o.full
OutputInv == EvidenceIsNamed /\ \A o \in ToldOutputs : IsKept(o, evidence)

\* An answer more is told what was told before and its own outputs.
LEMMA OneMoreAnswer ==
  ASSUME answers \in Seq(Range(answers)), NEW a, answers' = Append(answers, a)
  PROVE  /\ answers' \in Seq(Range(answers'))
         /\ ToldOutputs' = ToldOutputs \cup Range(a.outputs)
<1>1. /\ Len(answers) \in Nat /\ DOMAIN answers = 1..Len(answers)
      /\ DOMAIN answers' = 1..(Len(answers) + 1)
      /\ \A k \in DOMAIN answers : answers'[k] = answers[k]
      /\ answers'[Len(answers) + 1] = a
  OBVIOUS
<1>2. Range(answers') = Range(answers) \cup {a}
  BY <1>1 DEF Range
<1>3. answers' \in Seq(Range(answers'))
  <2>1. answers \in Seq(Range(answers) \cup {a})
    OBVIOUS
  <2> QED  BY <2>1, <1>2
<1>4. ToldOutputs' = ToldOutputs \cup Range(a.outputs)
  BY <1>2 DEF ToldOutputs
<1> QED  BY <1>3, <1>4

\* What truncate returns is whole, or names the file that will hold it.
LEMMA TruncatedIsNamed ==
  ASSUME NEW text \in Outputs, NEW kind, NEW label \in Labels,
         NEW o, o = Truncate(text, kind, label)
  PROVE  IF o.ref = NoRef THEN o.shown = o.full ELSE o.ref = <<label, o.full>>
<1>1. <<label, text>> # NoRef
  BY OutputAssumption
<1>2. CASE SizeOf(text) <= OutputBudget
  BY <1>2 DEF Truncate
<1>3. CASE ~(SizeOf(text) <= OutputBudget)
  BY <1>1, <1>3 DEF Truncate, EvidenceFile
<1> QED  BY <1>2, <1>3

\* Saving outputs that are whole or named keeps all that was saved before.
LEMMA SavingKeeps ==
  ASSUME OutputInv, NEW outs, Saves(outs),
         \A o \in Range(outs) : IF o.ref = NoRef THEN o.shown = o.full
                                ELSE \E l \in Labels : o.ref = <<l, o.full>>
  PROVE  /\ \A f \in DOMAIN evidence' : \E l \in Labels : f = <<l, evidence'[f]>>
         /\ \A o \in ToldOutputs \cup Range(outs) : IsKept(o, evidence')
<1> DEFINE saved == {o \in Range(outs) : o.ref # NoRef}
<1>1. evidence' = [f \in DOMAIN evidence \cup {o.ref : o \in saved} |->
                     IF \E o \in saved : o.ref = f
                     THEN (CHOOSE o \in saved : o.ref = f).full ELSE evidence[f]]
  BY DEF Saves
<1>2. DOMAIN evidence' = DOMAIN evidence \cup {o.ref : o \in saved}
  BY <1>1
<1>3. ASSUME NEW o \in saved  PROVE evidence'[o.ref] = o.full
  <2>1. PICK p \in saved : p.ref = o.ref /\ evidence'[o.ref] = p.full
    BY <1>1, <1>3
  <2>2. PICK l \in Labels : o.ref = <<l, o.full>>
    BY <1>3
  <2>3. PICK k \in Labels : p.ref = <<k, p.full>>
    BY <2>1
  <2> QED  BY <2>1, <2>2, <2>3
<1>4. ASSUME NEW f \in DOMAIN evidence  PROVE evidence'[f] = evidence[f]
  <2>1. CASE \E o \in saved : o.ref = f
    <3>1. PICK o \in saved : o.ref = f
      BY <2>1
    <3>2. evidence'[f] = o.full /\ \E l \in Labels : f = <<l, o.full>>
      BY <1>3, <3>1
    <3>3. \E l \in Labels : f = <<l, evidence[f]>>
      BY <1>4 DEF OutputInv, EvidenceIsNamed
    <3> QED  BY <3>2, <3>3
  <2>2. CASE ~\E o \in saved : o.ref = f
    BY <1>1, <1>4, <2>2
  <2> QED  BY <2>1, <2>2
<1>5. \A f \in DOMAIN evidence' : \E l \in Labels : f = <<l, evidence'[f]>>
  <2> TAKE f \in DOMAIN evidence'
  <2>1. CASE f \in DOMAIN evidence
    BY <2>1, <1>4 DEF OutputInv, EvidenceIsNamed
  <2>2. CASE \E o \in saved : o.ref = f
    BY <2>2, <1>3
  <2> QED  BY <1>2, <2>1, <2>2
<1>6. \A o \in ToldOutputs : IsKept(o, evidence')
  BY <1>2, <1>4 DEF OutputInv, IsKept
<1>7. \A o \in Range(outs) : IsKept(o, evidence')
  BY <1>2, <1>3 DEF IsKept
<1> QED  BY <1>5, <1>6, <1>7

\* An answer with outputs that were saved, and one without any.
LEMMA SavedAnswerKeeps ==
  ASSUME OutputInv, NEW a, answers' = Append(answers, a), Saves(a.outputs),
         \A o \in Range(a.outputs) : IF o.ref = NoRef THEN o.shown = o.full
                                     ELSE \E l \in Labels : o.ref = <<l, o.full>>
  PROVE  OutputInv'
<1>1. /\ answers' \in Seq(Range(answers'))
      /\ ToldOutputs' = ToldOutputs \cup Range(a.outputs)
  BY OneMoreAnswer DEF OutputInv, EvidenceIsNamed
<1>2. /\ \A f \in DOMAIN evidence' : \E l \in Labels : f = <<l, evidence'[f]>>
      /\ \A o \in ToldOutputs \cup Range(a.outputs) : IsKept(o, evidence')
  BY SavingKeeps
<1> QED  BY <1>1, <1>2 DEF OutputInv, EvidenceIsNamed, IsKept

LEMMA SilentAnswerKeeps ==
  ASSUME OutputInv, NEW a, answers' = Append(answers, a), a.outputs = <<>>, UNCHANGED evidence
  PROVE  OutputInv'
<1>1. /\ answers' \in Seq(Range(answers'))
      /\ ToldOutputs' = ToldOutputs \cup Range(a.outputs)
  BY OneMoreAnswer DEF OutputInv, EvidenceIsNamed
<1>2. Range(a.outputs) = {}
  BY DEF Range
<1> QED  BY <1>1, <1>2 DEF OutputInv, EvidenceIsNamed, IsKept

LEMMA OutputInvInit == OutputInit => OutputInv
<1> SUFFICES ASSUME OutputInit PROVE OutputInv
  OBVIOUS
<1>1. Range(answers) = {}
  BY DEF OutputInit, Range
<1> QED  BY <1>1 DEF OutputInit, OutputInv, EvidenceIsNamed, ToldOutputs

LEMMA OutputInvNext == OutputInv /\ [OutputNext]_outputVars => OutputInv'
<1> SUFFICES ASSUME OutputInv, [OutputNext]_outputVars PROVE OutputInv'
  OBVIOUS
<1>1. CASE Shell
  <2>1. PICK c \in ShellCommands, stdout \in Outputs, stderr \in Outputs :
          LET outs == <<Truncate(stdout, "log", "shell-stdout"), Truncate(stderr, "log", "shell-stderr")>>
          IN \/ \E code : Answers("shell", code, <<>>) /\ Untouched
             \/ Saves(outs) /\ \E code \in {"ok", "timeout"} : Answers("shell", code, outs)
    BY <1>1 DEF Shell
  <2> DEFINE out == Truncate(stdout, "log", "shell-stdout")
             err == Truncate(stderr, "log", "shell-stderr")
  <2>2. CASE \E code : Answers("shell", code, <<>>) /\ Untouched
    BY <2>2, SilentAnswerKeeps DEF Answers, Untouched
  <2>3. CASE Saves(<<out, err>>) /\ \E code \in {"ok", "timeout"} : Answers("shell", code, <<out, err>>)
    <3>1. Range(<<out, err>>) = {out, err}
      BY DEF Range
    <3>2. \A o \in {out, err} : IF o.ref = NoRef THEN o.shown = o.full
                                ELSE \E l \in Labels : o.ref = <<l, o.full>>
      BY TruncatedIsNamed DEF Labels
    <3>3. PICK code : answers' = Append(answers, [tool |-> "shell", code |-> code, outputs |-> <<out, err>>])
      BY <2>3 DEF Answers
    <3> HIDE DEF out, err
    <3> QED  BY <2>3, <3>1, <3>2, <3>3, SavedAnswerKeeps
  <2> QED  BY <2>1, <2>2, <2>3
<1>2. CASE Process
  BY <1>2, SilentAnswerKeeps DEF Process, Answers, Untouched
<1>3. CASE Git
  <2>1. PICK op \in GitLabels, stdout \in Outputs :
          LET outs == <<Truncate(stdout, "log", op)>>
          IN \/ Answers("git", "ok", outs) /\ Saves(outs)
             \/ Answers("git", "git-error", <<>>) /\ Untouched
    BY <1>3 DEF Git
  <2> DEFINE out == Truncate(stdout, "log", op)
  <2>2. CASE Answers("git", "git-error", <<>>) /\ Untouched
    BY <2>2, SilentAnswerKeeps DEF Answers, Untouched
  <2>3. CASE Answers("git", "ok", <<out>>) /\ Saves(<<out>>)
    <3>1. Range(<<out>>) = {out}
      BY DEF Range
    <3>2. IF out.ref = NoRef THEN out.shown = out.full ELSE \E l \in Labels : out.ref = <<l, out.full>>
      <4>1. op \in Labels
        BY DEF Labels
      <4> QED  BY <4>1, TruncatedIsNamed
    <3>3. answers' = Append(answers, [tool |-> "git", code |-> "ok", outputs |-> <<out>>])
      BY <2>3 DEF Answers
    <3> HIDE DEF out
    <3> QED  BY <2>3, <3>1, <3>2, <3>3, SavedAnswerKeeps
  <2> QED  BY <2>1, <2>2, <2>3
<1>4. CASE RunStage
  <2>1. PICK stage \in StageLabels, stdout \in Outputs :
          LET outs == <<Truncate(stdout, "test", stage)>>
          IN Answers("verification", "ok", outs) /\ Saves(outs)
    BY <1>4 DEF RunStage
  <2> DEFINE out == Truncate(stdout, "test", stage)
  <2>2. Range(<<out>>) = {out}
    BY DEF Range
  <2>3. IF out.ref = NoRef THEN out.shown = out.full ELSE \E l \in Labels : out.ref = <<l, out.full>>
    <3>1. stage \in Labels
      BY DEF Labels
    <3> QED  BY <3>1, TruncatedIsNamed
  <2>4. answers' = Append(answers, [tool |-> "verification", code |-> "ok", outputs |-> <<out>>])
        /\ Saves(<<out>>)
    BY <2>1 DEF Answers
  <2> HIDE DEF out
  <2> QED  BY <2>2, <2>3, <2>4, SavedAnswerKeeps
<1>5. CASE ReadsFile
  BY <1>5, SilentAnswerKeeps DEF ReadsFile, Untouched
<1>6. CASE Search
  BY <1>6, SilentAnswerKeeps DEF Search, Untouched
<1>7. CASE UNCHANGED outputVars
  BY <1>7 DEF outputVars, OutputInv, EvidenceIsNamed, ToldOutputs, IsKept
<1> QED  BY <1>1, <1>2, <1>3, <1>4, <1>5, <1>6, <1>7 DEF OutputNext

\* However often the same tool is called, every reference the model was given
\* holds all of the output it stands for (truncate.ts:28-34, 88-108).
THEOREM EvidenceStaysWhole == OutputSpec => []EvidenceIsWhole
<1>1. OutputInv => EvidenceIsWhole
  BY DEF OutputInv, IsKept, EvidenceIsWhole
<1> QED  BY <1>1, OutputInvInit, OutputInvNext, PTL DEF OutputSpec

-----------------------------------------------------------------------------
(* The failures of a stage.  What a filter keeps is enumerated by the ranks  *)
(* of the places it keeps.                                                   *)

\* Every rank is that of one place, and the places come in their order.
Enumerates(I) ==
  /\ \A i \in I : Rank(I, i) \in 1..Cardinality(I) /\ Nth(I, Rank(I, i)) = i
  /\ \A k \in 1..Cardinality(I) : Nth(I, k) \in I /\ Rank(I, Nth(I, k)) = k
  /\ \A i, j \in I : i < j <=> Rank(I, i) < Rank(I, j)

LEMMA PlacesAreEnumerated ==
  ASSUME NEW n \in Nat, NEW I \in SUBSET (1..n)
  PROVE  Enumerates(I) /\ IsFiniteSet(I) /\ Cardinality(I) \in Nat
<1>1. IsFiniteSet(I) /\ Cardinality(I) \in Nat
  <2>1. IsFiniteSet(1..n)
    BY FS_Interval
  <2>2. IsFiniteSet(I)
    BY <2>1, FS_Subset
  <2> QED  BY <2>2, FS_CardinalityType
<1> DEFINE Upto(i) == {j \in I : j <= i}
           c == Cardinality(I)
<1>2. \A i \in I : Upto(i) \in SUBSET I /\ i \in Upto(i)
  OBVIOUS
<1>3. \A i \in I : IsFiniteSet(Upto(i)) /\ Rank(I, i) \in 1..c
  <2> TAKE i \in I
  <2>1. IsFiniteSet(Upto(i)) /\ Cardinality(Upto(i)) <= c
    BY <1>1, <1>2, FS_Subset
  <2>2. Cardinality(Upto(i)) \in Nat /\ Cardinality(Upto(i)) # 0
    BY <1>2, <2>1, FS_CardinalityType, FS_EmptySet
  <2>3. Rank(I, i) = Cardinality(Upto(i))
    BY DEF Rank
  <2> QED  BY <1>1, <2>1, <2>2, <2>3
<1>4. \A i, j \in I : i < j => Rank(I, i) < Rank(I, j)
  <2> SUFFICES ASSUME NEW i \in I, NEW j \in I, i < j  PROVE Rank(I, i) < Rank(I, j)
    OBVIOUS
  <2>0. i \in Nat /\ j \in Nat /\ \A x \in I : x \in Nat
    OBVIOUS
  <2>1. Upto(i) \in SUBSET Upto(j) /\ j \in Upto(j) /\ j \notin Upto(i)
    <3>1. \A x \in Upto(i) : x \in Upto(j)
      BY <2>0
    <3>2. j \in Upto(j) /\ ~(j <= i)
      BY <2>0
    <3> QED  BY <3>1, <3>2
  <2>2. Upto(i) # Upto(j)
    BY <2>1
  <2>3. /\ Cardinality(Upto(i)) <= Cardinality(Upto(j))
        /\ Cardinality(Upto(i)) # Cardinality(Upto(j))
    BY <1>3, <2>1, <2>2, FS_Subset
  <2>4. Rank(I, i) = Cardinality(Upto(i)) /\ Rank(I, j) = Cardinality(Upto(j))
    BY DEF Rank
  <2> QED  BY <1>3, <2>3, <2>4
<1> HIDE DEF Upto
<1>5. \A i, j \in I : i < j <=> Rank(I, i) < Rank(I, j)
  <2> TAKE i, j \in I
  <2>1. i = j \/ i < j \/ j < i
    OBVIOUS
  <2>2. Rank(I, i) \in Nat /\ Rank(I, j) \in Nat
    BY <1>3
  <2> QED  BY <1>4, <2>1, <2>2
<1>6. \A i, j \in I : Rank(I, i) = Rank(I, j) => i = j
  <2> TAKE i, j \in I
  <2>1. i = j \/ i < j \/ j < i
    OBVIOUS
  <2>2. Rank(I, i) \in Nat /\ Rank(I, j) \in Nat
    BY <1>3
  <2> QED  BY <1>4, <2>1, <2>2
<1>7. \A k \in 1..c : \E i \in I : Rank(I, i) = k
  <2> DEFINE f == [i \in I |-> Rank(I, i)]
  <2>1. f \in Injection(I, 1..c)
    BY <1>3, <1>6 DEF Injection, IsInjective
  <2>2. IsFiniteSet(1..c) /\ Cardinality(1..c) = c
    BY <1>1, FS_Interval
  <2>3. f \in Surjection(I, 1..c)
    BY <2>1, <2>2, FS_Injection
  <2> QED  BY <2>3 DEF Surjection
<1>8. \A k \in 1..c : Nth(I, k) \in I /\ Rank(I, Nth(I, k)) = k
  BY <1>7 DEF Nth
<1>9. \A i \in I : Nth(I, Rank(I, i)) = i
  BY <1>3, <1>6, <1>8
<1> QED  BY <1>1, <1>3, <1>5, <1>8, <1>9 DEF Enumerates

\* The set is counted no further than another it goes into.
LEMMA GoesInto ==
  ASSUME NEW S, NEW T, IsFiniteSet(T), NEW f \in [S -> T],
         \A x, y \in S : f[x] = f[y] => x = y
  PROVE  IsFiniteSet(S) /\ Cardinality(S) <= Cardinality(T)
<1>1. f \in Injection(S, T)
  BY DEF Injection, IsInjective
<1> QED  BY <1>1, FS_Injection

LEMMA PlacesAreFinite ==
  ASSUME NEW S, NEW s \in Seq(S), NEW I, I \subseteq DOMAIN s
  PROVE  IsFiniteSet(I) /\ Cardinality(I) \in Nat /\ Enumerates(I)
<1>1. Len(s) \in Nat /\ I \in SUBSET (1..Len(s))
  OBVIOUS
<1> QED  BY <1>1, PlacesAreEnumerated

\* Of a sequence put together of five, each part is where it should be.
IsMadeOf(s, a, b, c, d, e) ==
  /\ Len(s) = Len(a) + Len(b) + Len(c) + Len(d) + Len(e)
  /\ \A i \in 1..Len(b) : s[Len(a) + i] = b[i]
  /\ \A i \in 1..Len(d) : s[Len(a) + Len(b) + Len(c) + i] = d[i]
  /\ \A i \in 1..Len(e) : s[Len(a) + Len(b) + Len(c) + Len(d) + i] = e[i]

LEMMA FiveParts ==
  ASSUME NEW S, NEW a \in Seq(S), NEW b \in Seq(S), NEW c \in Seq(S), NEW d \in Seq(S),
         NEW e \in Seq(S), NEW s, s = a \o b \o c \o d \o e
  PROVE  s \in Seq(S) /\ IsMadeOf(s, a, b, c, d, e)
<1> DEFINE ab == a \o b
           abc == ab \o c
           abcd == abc \o d
<1>1. /\ ab \in Seq(S) /\ Len(ab) = Len(a) + Len(b)
      /\ \A i \in 1..Len(b) : ab[Len(a) + i] = b[i]
  BY ConcatProperties
<1>2. /\ abc \in Seq(S) /\ Len(abc) = Len(ab) + Len(c)
      /\ \A i \in 1..Len(ab) : abc[i] = ab[i]
  BY <1>1, ConcatProperties
<1>3. /\ abcd \in Seq(S) /\ Len(abcd) = Len(abc) + Len(d)
      /\ \A i \in 1..Len(abc) : abcd[i] = abc[i]
      /\ \A i \in 1..Len(d) : abcd[Len(abc) + i] = d[i]
  BY <1>2, ConcatProperties
<1>4. /\ s \in Seq(S) /\ Len(s) = Len(abcd) + Len(e)
      /\ \A i \in 1..Len(abcd) : s[i] = abcd[i]
      /\ \A i \in 1..Len(e) : s[Len(abcd) + i] = e[i]
  BY <1>3, ConcatProperties
<1> HIDE DEF ab, abc, abcd
<1>5. /\ Len(a) \in Nat /\ Len(b) \in Nat /\ Len(c) \in Nat /\ Len(d) \in Nat /\ Len(e) \in Nat
  OBVIOUS
<1>6. \A i \in 1..Len(b) : s[Len(a) + i] = b[i]
  <2> TAKE i \in 1..Len(b)
  <2>1. Len(a) + i \in 1..Len(ab) /\ Len(a) + i \in 1..Len(abc) /\ Len(a) + i \in 1..Len(abcd)
    BY <1>1, <1>2, <1>3, <1>5
  <2> QED  BY <1>1, <1>2, <1>3, <1>4, <2>1
<1>7. \A i \in 1..Len(d) : s[Len(a) + Len(b) + Len(c) + i] = d[i]
  <2> TAKE i \in 1..Len(d)
  <2>1. Len(abc) + i \in 1..Len(abcd) /\ Len(abc) = Len(a) + Len(b) + Len(c)
    BY <1>1, <1>2, <1>3, <1>5
  <2> QED  BY <1>3, <1>4, <2>1
<1>8. Len(abcd) = Len(a) + Len(b) + Len(c) + Len(d)
  BY <1>1, <1>2, <1>3
<1> QED  BY <1>4, <1>6, <1>7, <1>8 DEF IsMadeOf

\* Each line of an output is in the head, in the tail, or between them.  In the
\* second case the filter keeps it if it fails.
LinesShown(text) == Range(text) \cup {Note("failure signatures detected", Len(Failures(text))),
                                  Note("passing middle omitted", 0)}

Middle(text) == {i \in DOMAIN text : text[i].fails /\ i > HeadLines /\ i <= Len(text) - TailLines}
TailFrom(text) == IF Len(text) - TailLines + 1 >= 1 THEN Len(text) - TailLines + 1 ELSE 1

\* Where the lines of a truncated log come from.
Shows(text, shown) ==
  LET h == Smaller(HeadLines, Len(text))
      t == TailFrom(text)
      extra == Cardinality(Middle(text))
      last == h + 2 + (Len(text) - t + 1)
  IN /\ Len(shown) = last + Smaller(MaxExtraFailures, extra)
     /\ \A i \in 1..h : shown[1 + i] = text[i]
     /\ \A i \in t..Len(text) : shown[h + 2 + (i - t + 1)] = text[i]
     /\ \A k \in 1..Smaller(MaxExtraFailures, extra) : shown[last + k] = text[Nth(Middle(text), k)]

LEMMA TestLogShows ==
  ASSUME NEW text \in Outputs
  PROVE  Shows(text, TruncateTestLog(text)) /\ TruncateTestLog(text) \in Seq(LinesShown(text))
<1> DEFINE S == LinesShown(text)
           M == Middle(text)
           n == Len(text)
           h == Smaller(HeadLines, n)
           t == TailFrom(text)
           x == Smaller(MaxExtraFailures, Cardinality(M))
           a == <<Note("failure signatures detected", Len(Failures(text)))>>
           b == HeadOf(text)
           c == <<Note("passing middle omitted", 0)>>
           d == TailOf(text, 1)
           extra == OmittedFailures(text)
           e == SubSeq(extra, 1, x)
<1>1. text \in Seq(Range(text)) /\ HeadLines \in Nat /\ TailLines \in Nat /\ MaxExtraFailures \in Nat
  BY OutputAssumption
<1>2. text \in Seq(S) /\ n \in Nat /\ DOMAIN text = 1..n
  <2>1. Range(text) \subseteq S
    BY DEF LinesShown
  <2> HIDE DEF S
  <2> QED  BY <1>1, <2>1, SeqMonotonic
<1>3. M \subseteq DOMAIN text /\ Cardinality(M) \in Nat /\ Enumerates(M)
  BY <1>2, PlacesAreFinite DEF Middle
<1>4. h \in Nat /\ h <= n /\ t \in Nat /\ t >= 1 /\ t <= n + 1 /\ x \in Nat /\ x <= Cardinality(M)
  BY <1>1, <1>2, <1>3 DEF Smaller, TailFrom
<1>5. /\ b \in Seq(S) /\ Len(b) = h /\ \A i \in 1..h : b[i] = text[i]
  BY <1>2, <1>4, SubSeqProperties DEF HeadOf
<1>6. d = SubSeq(text, t, n)
  <2> DEFINE u == n - TailLines + 1
  <2>1. u \in Int /\ t = IF u >= 1 THEN u ELSE 1
    BY <1>1, <1>2 DEF TailFrom
  <2> HIDE DEF u
  <2>2. Max({1, 1, u}) = t
    <3>1. t \in {1, 1, u} /\ \A y \in {1, 1, u} : t >= y
      BY <2>1, <1>4
    <3>2. \A z \in {1, 1, u} : (\A y \in {1, 1, u} : z >= y) => z = t
      BY <2>1, <1>4
    <3> QED  BY <3>1, <3>2 DEF Max
  <2> QED  BY <2>2 DEF TailOf, u
<1>7. /\ d \in Seq(S) /\ Len(d) = n - t + 1 /\ \A i \in 1..(n - t + 1) : d[i] = text[t + i - 1]
  <2> HIDE DEF S, n, t, d, h, x
  <2>1. SubSeq(text, t, n) \in Seq(S)
    BY <1>2, <1>4
  <2>2. Len(SubSeq(text, t, n)) = IF t <= n THEN n - t + 1 ELSE 0
    BY <1>2, <1>4
  <2>3. \A i \in 1..(n - t + 1) : SubSeq(text, t, n)[i] = text[t + i - 1]
    BY <1>2, <1>4
  <2>4. Len(SubSeq(text, t, n)) = n - t + 1
    BY <1>2, <1>4, <2>2
  <2>5. d = SubSeq(text, t, n)
    BY <1>6 DEF d, t, n
  <2> QED  BY <2>1, <2>3, <2>4, <2>5
<1>8. /\ extra \in Seq(S) /\ Len(extra) = Cardinality(M)
      /\ \A k \in 1..Cardinality(M) : extra[k] = text[Nth(M, k)]
  <2>1. extra = [k \in 1..Cardinality(M) |-> text[Nth(M, k)]]
    BY DEF OmittedFailures, Selected, Middle
  <2>2. \A k \in 1..Cardinality(M) : Nth(M, k) \in DOMAIN text
    BY <1>3 DEF Enumerates
  <2>3. \A k \in 1..Cardinality(M) : text[Nth(M, k)] \in S
    BY <1>2, <2>2
  <2> HIDE DEF extra, M, S
  <2>4. extra \in [1..Cardinality(M) -> S]
    BY <2>1, <2>3
  <2> QED  BY <1>3, <2>1, <2>4
<1>9. /\ e \in Seq(S) /\ Len(e) = x /\ \A k \in 1..x : e[k] = text[Nth(M, k)]
  <2> HIDE DEF extra, S, M
  <2>1. /\ e \in Seq(S) /\ Len(e) = x /\ \A k \in 1..x : e[k] = extra[k]
    BY <1>3, <1>4, <1>8, SubSeqProperties
  <2> QED  BY <1>3, <1>4, <1>8, <2>1
<1>10. a \in Seq(S) /\ c \in Seq(S) /\ Len(a) = 1 /\ Len(c) = 1
  BY DEF LinesShown
<1>11. TruncateTestLog(text) = a \o b \o c \o d \o e
  <2>1. x = Smaller(MaxExtraFailures, Len(extra))
    BY <1>8
  <2> QED  BY <2>1 DEF TruncateTestLog
<1> DEFINE s == TruncateTestLog(text)
<1> HIDE DEF S, M, a, b, c, d, e, s, extra, n, h, t, x
<1>12. /\ s \in Seq(S) /\ Len(s) = Len(a) + Len(b) + Len(c) + Len(d) + Len(e)
       /\ \A i \in 1..Len(b) : s[Len(a) + i] = b[i]
       /\ \A i \in 1..Len(d) : s[Len(a) + Len(b) + Len(c) + i] = d[i]
       /\ \A i \in 1..Len(e) : s[Len(a) + Len(b) + Len(c) + Len(d) + i] = e[i]
  <2>1. s = a \o b \o c \o d \o e
    BY <1>11 DEF s
  <2>2. s \in Seq(S) /\ IsMadeOf(s, a, b, c, d, e)
    <3>1. a \in Seq(S) /\ b \in Seq(S) /\ c \in Seq(S) /\ d \in Seq(S) /\ e \in Seq(S)
      BY <1>5, <1>7, <1>9, <1>10
    <3> QED  BY <2>1, <3>1, FiveParts
  <2> QED  BY <2>2 DEF IsMadeOf
<1>13. \A i \in 1..h : s[1 + i] = text[i]
  BY <1>5, <1>10, <1>12
<1>14. \A i \in t..n : s[h + 2 + (i - t + 1)] = text[i]
  <2> TAKE i \in t..n
  <2> DEFINE k == i - t + 1
  <2>1. k \in 1..(n - t + 1) /\ i = t + k - 1 /\ k \in Nat
    BY <1>2, <1>4
  <2> HIDE DEF k
  <2>2. s[Len(a) + Len(b) + Len(c) + k] = d[k] /\ d[k] = text[i]
    BY <1>7, <1>12, <2>1
  <2>3. Len(a) + Len(b) + Len(c) + k = h + 2 + k
    BY <1>4, <1>5, <1>10, <2>1
  <2> QED  BY <2>2, <2>3 DEF k
<1> DEFINE last == h + 2 + (n - t + 1)
<1>15. last \in Nat /\ Len(a) + Len(b) + Len(c) + Len(d) = last
  BY <1>2, <1>4, <1>5, <1>7, <1>10
<1>16. Len(s) = last + x
  BY <1>9, <1>12, <1>15
<1>17. \A k \in 1..x : s[last + k] = text[Nth(M, k)]
  BY <1>9, <1>12, <1>15
<1>18. Shows(text, s)
  BY <1>13, <1>14, <1>16, <1>17 DEF Shows, h, t, n, M, x, last
<1> QED  BY <1>12, <1>18 DEF s, S

\* The failing lines that are kept are the places of the middle, by rank.
LEMMA MiddleIsEnumerated ==
  ASSUME NEW text \in Outputs
  PROVE  /\ Len(text) \in Nat /\ DOMAIN text = 1..Len(text)
         /\ Middle(text) \subseteq DOMAIN text
         /\ Cardinality(Middle(text)) \in Nat /\ Enumerates(Middle(text))
<1>1. text \in Seq(Range(text))
  BY OutputAssumption
<1>2. Middle(text) \subseteq DOMAIN text
  BY DEF Middle
<1> QED  BY <1>1, <1>2, PlacesAreFinite

\* All of the failing lines are shown, or as many as the cap.
ShowsFailures(o) ==
  \/ \A line \in Range(Failures(o.full)) : Count(line, o.shown) >= Count(line, o.full)
  \/ Len(Failures(o.shown)) >= MaxExtraFailures

LEMMA FailuresFail ==
  ASSUME NEW S, NEW s \in Seq(S)
  PROVE  /\ \A line \in Range(Failures(s)) : line.fails
         /\ Len(Failures(s)) = Cardinality({i \in DOMAIN s : s[i].fails})
<1> DEFINE I == {i \in DOMAIN s : s[i].fails}
<1>1. IsFiniteSet(I) /\ Cardinality(I) \in Nat /\ Enumerates(I)
  BY PlacesAreFinite
<1>2. Failures(s) = [k \in 1..Cardinality(I) |-> s[Nth(I, k)]]
  BY DEF Failures, Selected
<1>3. \A k \in 1..Cardinality(I) : Nth(I, k) \in I
  BY <1>1 DEF Enumerates
<1>4. \A line \in Range(Failures(s)) : line.fails
  <2> TAKE line \in Range(Failures(s))
  <2>1. PICK k \in 1..Cardinality(I) : line = s[Nth(I, k)]
    BY <1>2 DEF Range
  <2> QED  BY <1>3, <2>1
<1>5. Len(Failures(s)) = Cardinality(I)
  <2> HIDE DEF I
  <2> QED  BY <1>1, <1>2
<1> QED  BY <1>4, <1>5

LEMMA TestLogShowsFailures ==
  ASSUME NEW text \in Outputs, NEW shown, NEW S, shown \in Seq(S), Shows(text, shown)
  PROVE  \/ \A line \in Range(Failures(text)) : Count(line, shown) >= Count(line, text)
         \/ Len(Failures(shown)) >= MaxExtraFailures
<1> DEFINE M == Middle(text)
           n == Len(text)
           h == Smaller(HeadLines, n)
           t == TailFrom(text)
           last == h + 2 + (n - t + 1)
           c == Cardinality(M)
           x == Smaller(MaxExtraFailures, c)
<1>1. HeadLines \in Nat /\ TailLines \in Nat /\ MaxExtraFailures \in Nat
  BY OutputAssumption
<1>2. n \in Nat /\ DOMAIN text = 1..n /\ M \subseteq DOMAIN text /\ c \in Nat /\ Enumerates(M)
  BY MiddleIsEnumerated
<1>3. text \in Seq(Range(text))
  BY OutputAssumption
<1>4. /\ h \in Nat /\ h <= n /\ h <= HeadLines /\ (h = n \/ h = HeadLines)
      /\ t \in Nat /\ 1 <= t /\ t <= n + 1 /\ (t = 1 \/ t = n - TailLines + 1)
      /\ last \in Nat /\ h + 2 <= last
      /\ x \in Nat /\ x <= c /\ (x = c \/ x = MaxExtraFailures)
  <2> HIDE DEF M, n, c
  <2>1. h \in Nat /\ h <= n /\ h <= HeadLines /\ (h = n \/ h = HeadLines)
    BY <1>1, <1>2 DEF Smaller
  <2>2. x \in Nat /\ x <= c /\ (x = c \/ x = MaxExtraFailures)
    BY <1>1, <1>2 DEF Smaller
  <2>3. t \in Nat /\ 1 <= t /\ t <= n + 1 /\ (t = 1 \/ t = n - TailLines + 1)
    BY <1>1, <1>2 DEF TailFrom, n
  <2> HIDE DEF h, t, x
  <2>4. last \in Nat /\ h + 2 <= last
    BY <1>2, <2>1, <2>3
  <2> QED  BY <2>1, <2>2, <2>3, <2>4
<1>5. /\ Len(shown) = last + x
      /\ \A i \in 1..h : shown[1 + i] = text[i]
      /\ \A i \in t..n : shown[h + 2 + (i - t + 1)] = text[i]
      /\ \A k \in 1..x : shown[last + k] = text[Nth(M, k)]
  BY DEF Shows
<1>6. DOMAIN shown = 1..(last + x)
  BY <1>5
<1>7. M = {i \in DOMAIN text : text[i].fails /\ i > HeadLines /\ i <= n - TailLines}
  BY DEF Middle
<1> HIDE DEF M, n, h, t, last, c, x
<1>8. CASE x = c
  <2> SUFFICES ASSUME NEW line \in Range(Failures(text))
               PROVE  Count(line, shown) >= Count(line, text)
    OBVIOUS
  <2> DEFINE From == {i \in DOMAIN text : text[i] = line}
             To == {i \in DOMAIN shown : shown[i] = line}
             f == [i \in From |-> IF i <= h THEN 1 + i
                                  ELSE IF t <= i THEN h + 2 + (i - t + 1)
                                  ELSE last + Rank(M, i)]
  <2>1. line.fails
    BY <1>3, FailuresFail
  <2>2. \A i \in From : ~(i <= h) /\ ~(t <= i) => i \in M /\ Rank(M, i) \in 1..c /\ Nth(M, Rank(M, i)) = i
    <3> SUFFICES ASSUME NEW i \in From, ~(i <= h), ~(t <= i)
                 PROVE  i \in M /\ Rank(M, i) \in 1..c /\ Nth(M, Rank(M, i)) = i
      OBVIOUS
    <3>1. i \in 1..n /\ text[i] = line
      BY <1>2
    <3>2. i > HeadLines /\ i <= n - TailLines
      BY <1>1, <1>2, <1>4, <3>1
    <3>3. i \in M
      BY <1>7, <2>1, <3>1, <3>2
    <3> QED  BY <1>2, <3>3 DEF Enumerates, c
  <2>3. \A i \in From : f[i] \in To
    <3> TAKE i \in From
    <3>1. i \in 1..n /\ text[i] = line
      BY <1>2
    <3>2. CASE i <= h
      BY <1>2, <1>4, <1>5, <1>6, <3>1, <3>2
    <3>3. CASE ~(i <= h) /\ t <= i
      <4>1. f[i] = h + 2 + (i - t + 1) /\ f[i] \in 1..last /\ i \in t..n
        BY <1>2, <1>4, <3>1, <3>3 DEF last
      <4> QED  BY <1>4, <1>5, <1>6, <3>1, <4>1
    <3>4. CASE ~(i <= h) /\ ~(t <= i)
      <4>1. f[i] = last + Rank(M, i) /\ Rank(M, i) \in 1..x /\ Nth(M, Rank(M, i)) = i
        BY <1>8, <2>2, <3>4
      <4>2. shown[f[i]] = line /\ f[i] \in 1..(last + x)
        BY <1>4, <1>5, <3>1, <4>1
      <4> QED  BY <1>6, <4>2
    <3> QED  BY <3>2, <3>3, <3>4
  <2>4. \A i, j \in From : f[i] = f[j] => i = j
    <3> SUFFICES ASSUME NEW i \in From, NEW j \in From, f[i] = f[j]  PROVE i = j
      OBVIOUS
    <3>1. i \in 1..n /\ j \in 1..n
      BY <1>2
    <3>2. CASE i <= h
      BY <1>2, <1>4, <2>2, <3>1, <3>2
    <3>3. CASE ~(i <= h) /\ t <= i
      BY <1>2, <1>4, <2>2, <3>1, <3>3 DEF last
    <3>4. CASE ~(i <= h) /\ ~(t <= i)
      <4>1. f[i] = last + Rank(M, i) /\ Rank(M, i) \in 1..c /\ Nth(M, Rank(M, i)) = i
        BY <2>2, <3>4
      <4>2. ~(j <= h)
        BY <1>2, <1>4, <3>1, <4>1
      <4>3. ~(t <= j)
        BY <1>2, <1>4, <3>1, <4>1, <4>2 DEF last
      <4>4. f[j] = last + Rank(M, j) /\ Rank(M, j) \in 1..c /\ Nth(M, Rank(M, j)) = j
        BY <2>2, <4>2, <4>3
      <4>5. Rank(M, i) = Rank(M, j)
        BY <1>2, <1>4, <4>1, <4>4
      <4> QED  BY <4>1, <4>4, <4>5
    <3> QED  BY <3>2, <3>3, <3>4
  <2> HIDE DEF f
  <2>5. IsFiniteSet(To) /\ f \in [From -> To]
    <3>1. IsFiniteSet(To)
      BY PlacesAreFinite
    <3> QED  BY <2>3, <3>1 DEF f
  <2>6. IsFiniteSet(From) /\ Cardinality(From) <= Cardinality(To)
    <3> HIDE DEF From, To
    <3> QED  BY <2>4, <2>5, GoesInto
  <2>7. Cardinality(From) \in Nat /\ Cardinality(To) \in Nat
    BY <2>5, <2>6, FS_CardinalityType
  <2> QED  BY <2>6, <2>7 DEF Count
<1>9. CASE x = MaxExtraFailures
  <2> DEFINE To == {i \in DOMAIN shown : shown[i].fails}
             f == [k \in 1..x |-> last + k]
  <2>1. \A k \in 1..x : f[k] \in To
    <3> TAKE k \in 1..x
    <3>1. k \in 1..c /\ f[k] \in 1..(last + x) /\ f[k] = last + k
      BY <1>2, <1>4
    <3>2. Nth(M, k) \in M
      BY <1>2, <3>1 DEF Enumerates, c
    <3>3. text[Nth(M, k)].fails
      BY <1>7, <3>2
    <3> QED  BY <1>5, <1>6, <3>1, <3>3
  <2>2. \A k, l \in 1..x : f[k] = f[l] => k = l
    BY <1>4
  <2> HIDE DEF f
  <2>3. IsFiniteSet(To) /\ f \in [1..x -> To]
    <3>1. IsFiniteSet(To)
      BY PlacesAreFinite
    <3> QED  BY <2>1, <3>1 DEF f
  <2>4. Cardinality(1..x) <= Cardinality(To)
    <3> HIDE DEF To
    <3> QED  BY <2>2, <2>3, GoesInto
  <2>5. Cardinality(1..x) = x
    BY <1>4, FS_Interval
  <2>6. Len(Failures(shown)) = Cardinality(To) /\ Cardinality(To) \in Nat
    BY <2>3, FailuresFail, FS_CardinalityType
  <2> QED  BY <1>1, <1>9, <2>4, <2>5, <2>6
<1> QED  BY <1>4, <1>8, <1>9

LEMMA TruncateShowsFailures ==
  ASSUME NEW text \in Outputs, NEW label
  PROVE  ShowsFailures(Truncate(text, "test", label))
<1>1. PICK o : o = Truncate(text, "test", label)
  OBVIOUS
<1>2. o.full = text
  BY <1>1 DEF Truncate
<1>3. CASE SizeOf(text) <= OutputBudget
  <2>1. o.shown = text
    BY <1>1, <1>3 DEF Truncate
  <2>2. text \in Seq(Range(text))
    BY OutputAssumption
  <2>3. \A line \in Range(Failures(o.full)) : Count(line, o.shown) >= Count(line, o.full)
    <3> TAKE line \in Range(Failures(o.full))
    <3>1. Count(line, text) \in Nat
      BY <2>2, PlacesAreFinite DEF Count
    <3>2. Count(line, o.shown) = Count(line, text) /\ Count(line, o.full) = Count(line, text)
      BY <1>2, <2>1
    <3> QED  BY <3>1, <3>2
  <2> QED  BY <1>1, <2>3 DEF ShowsFailures
<1>4. CASE ~(SizeOf(text) <= OutputBudget)
  <2>1. o.shown = TruncateTestLog(text)
    BY <1>1, <1>4 DEF Truncate
  <2>2. Shows(text, o.shown) /\ o.shown \in Seq(LinesShown(text))
    BY <2>1, TestLogShows
  <2>3. \/ \A line \in Range(Failures(o.full)) : Count(line, o.shown) >= Count(line, o.full)
        \/ Len(Failures(o.shown)) >= MaxExtraFailures
    BY <1>2, <2>2, TestLogShowsFailures
  <2> QED  BY <1>1, <2>3 DEF ShowsFailures
<1> QED  BY <1>3, <1>4

FailureInv ==
  /\ answers \in Seq(Range(answers))
  /\ \A o \in ToldOutputs : o.kind = "test" => ShowsFailures(o)

LEMMA AnswerShowsFailures ==
  ASSUME FailureInv, NEW a, answers' = Append(answers, a),
         \A o \in Range(a.outputs) : o.kind = "test" => ShowsFailures(o)
  PROVE  FailureInv'
<1>1. /\ answers' \in Seq(Range(answers'))
      /\ ToldOutputs' = ToldOutputs \cup Range(a.outputs)
  BY OneMoreAnswer DEF FailureInv
<1> QED  BY <1>1 DEF FailureInv, ShowsFailures, Failures, Count

LEMMA SilenceShowsFailures ==
  ASSUME FailureInv, NEW a, answers' = Append(answers, a), a.outputs = <<>>
  PROVE  FailureInv'
<1>1. Range(a.outputs) = {}
  BY DEF Range
<1> QED  BY <1>1, AnswerShowsFailures

LEMMA FailureInvNext == FailureInv /\ [OutputNext]_outputVars => FailureInv'
<1> SUFFICES ASSUME FailureInv, [OutputNext]_outputVars PROVE FailureInv'
  OBVIOUS
<1>1. CASE Shell
  <2>1. PICK stdout \in Outputs, stderr \in Outputs :
          \E code : \/ Answers("shell", code, <<>>)
                    \/ Answers("shell", code, <<Truncate(stdout, "log", "shell-stdout"),
                                                Truncate(stderr, "log", "shell-stderr")>>)
    BY <1>1 DEF Shell
  <2> DEFINE out == Truncate(stdout, "log", "shell-stdout")
             err == Truncate(stderr, "log", "shell-stderr")
  <2>2. ASSUME NEW code, Answers("shell", code, <<>>)  PROVE FailureInv'
    BY <2>2, SilenceShowsFailures DEF Answers
  <2>3. ASSUME NEW code, Answers("shell", code, <<out, err>>)  PROVE FailureInv'
    <3>1. out.kind = "log" /\ err.kind = "log"
      BY DEF Truncate
    <3>2. Range(<<out, err>>) = {out, err}
      BY DEF Range
    <3>3. answers' = Append(answers, [tool |-> "shell", code |-> code, outputs |-> <<out, err>>])
      BY <2>3 DEF Answers
    <3> HIDE DEF out, err
    <3> QED  BY <3>1, <3>2, <3>3, AnswerShowsFailures
  <2> QED  BY <2>1, <2>2, <2>3
<1>2. CASE Process
  BY <1>2, SilenceShowsFailures DEF Process, Answers
<1>3. CASE Git
  <2>1. PICK op \in GitLabels, stdout \in Outputs :
          \/ Answers("git", "ok", <<Truncate(stdout, "log", op)>>)
          \/ Answers("git", "git-error", <<>>)
    BY <1>3 DEF Git
  <2> DEFINE out == Truncate(stdout, "log", op)
  <2>2. CASE Answers("git", "git-error", <<>>)
    BY <2>2, SilenceShowsFailures DEF Answers
  <2>3. CASE Answers("git", "ok", <<out>>)
    <3>1. out.kind = "log" /\ Range(<<out>>) = {out}
      BY DEF Truncate, Range
    <3>2. answers' = Append(answers, [tool |-> "git", code |-> "ok", outputs |-> <<out>>])
      BY <2>3 DEF Answers
    <3> HIDE DEF out
    <3> QED  BY <3>1, <3>2, AnswerShowsFailures
  <2> QED  BY <2>1, <2>2, <2>3
<1>4. CASE RunStage
  <2>1. PICK stage \in StageLabels, stdout \in Outputs :
          Answers("verification", "ok", <<Truncate(stdout, "test", stage)>>)
    BY <1>4 DEF RunStage
  <2> DEFINE out == Truncate(stdout, "test", stage)
  <2>2. ShowsFailures(out)
    BY TruncateShowsFailures
  <2>3. Range(<<out>>) = {out}
    BY DEF Range
  <2>4. answers' = Append(answers, [tool |-> "verification", code |-> "ok", outputs |-> <<out>>])
    BY <2>1 DEF Answers
  <2> HIDE DEF out
  <2> QED  BY <2>2, <2>3, <2>4, AnswerShowsFailures
<1>5. CASE ReadsFile
  BY <1>5, SilenceShowsFailures DEF ReadsFile
<1>6. CASE Search
  BY <1>6, SilenceShowsFailures DEF Search
<1>7. CASE UNCHANGED outputVars
  BY <1>7 DEF outputVars, FailureInv, ToldOutputs
<1> QED  BY <1>1, <1>2, <1>3, <1>4, <1>5, <1>6, <1>7 DEF OutputNext

\* Whatever a stage of the verification puts out, the model is shown each failing
\* line as often as it was put out, or as many failures as the cap allows, also
\* where the head and the tail overlap and where the same line fails more than
\* once (truncate.ts:47-82).
THEOREM FailuresAreAlwaysShown == OutputSpec => []FailuresAreShown
<1>1. OutputInit => FailureInv
  <2>1. ASSUME OutputInit  PROVE Range(answers) = {} /\ answers = <<>>
    BY <2>1 DEF OutputInit, Range
  <2> QED  BY <2>1 DEF FailureInv, ToldOutputs
<1>2. FailureInv => FailuresAreShown
  BY DEF FailureInv, ShowsFailures, FailuresAreShown
<1> QED  BY <1>1, <1>2, FailureInvNext, PTL DEF OutputSpec

-----------------------------------------------------------------------------
(* The conversation of a run.                                                *)

\* A set of naturals has a least element: what inductions are made of here.
LEMMA LeastOf ==
  ASSUME NEW T, T \subseteq Nat, T # {}
  PROVE  \E x \in T : \A y \in T : x <= y
<1> DEFINE R == OpToRel(<, Nat)
<1>1. \A x, y \in Nat : <<x, y>> \in R <=> x < y
  BY DEF OpToRel
<1>2. IsWellFoundedOn(R, Nat)
  BY NatLessThanWellFounded
<1> HIDE DEF R
<1>3. PICK x \in T : \A y \in T : ~ (<<y, x>> \in R)
  BY <1>2, WFMin
<1>4. ASSUME NEW y \in T  PROVE x <= y
  <2>1. x \in Nat /\ y \in Nat
    OBVIOUS
  <2>2. ~(y < x)
    BY <1>1, <1>3, <2>1, Zenon
  <2> QED  BY <2>1, <2>2
<1> QED  BY <1>4

CallRecords == [id : Nat, ask : Asks]
MessageRecords == [role : {"system", "user", "assistant", "tool"}, calls : Seq(CallRecords),
                   id : Nat, ask : Asks \cup {NoAsk}, pruned : BOOLEAN, size : Nat]

\* The conversation opens with the system prompt and the task, and only a reply
\* has calls.
OpensWithTask(ms) == Len(ms) >= 2 /\ ms[1].role = "system" /\ ms[2].role = "user"
OnlyRepliesCall(ms) == \A i \in DOMAIN ms : ms[i].role # "assistant" => ms[i].calls = <<>>

\* Each call of a reply is answered where it should be, or still owed.
CallsAnswered(ms, owed) ==
  \A i \in DOMAIN ms : \A k \in 1..Len(ms[i].calls) :
    IF i + k <= Len(ms)
    THEN ms[i + k].role = "tool" /\ ms[i + k].id = ms[i].calls[k].id
    ELSE i + k - Len(ms) <= Len(owed) /\ owed[i + k - Len(ms)] = ms[i].calls[k]

\* Each result is one of a reply's calls, and what is owed is the last reply's.
ResultsCalled(ms) ==
  \A i \in DOMAIN ms : ms[i].role = "tool" =>
    \E j \in 1..(i - 1) : i - j <= Len(ms[j].calls)
OwedIsCalled(ms, owed) ==
  owed # <<>> => \E j \in DOMAIN ms : Len(ms) + Len(owed) - j <= Len(ms[j].calls)

Follows(ms, owed) ==
  /\ ms \in Seq(MessageRecords) /\ owed \in Seq(CallRecords)
  /\ OpensWithTask(ms) /\ OnlyRepliesCall(ms)
  /\ CallsAnswered(ms, owed) /\ ResultsCalled(ms) /\ OwedIsCalled(ms, owed)

TranscriptTypes ==
  /\ provider \in Providers /\ turns \in 0..MaxTurns
  /\ step \in {"top", "request", "batch", "final", "ended"}

TranscriptInv ==
  /\ TranscriptTypes
  /\ step \in {"top", "request", "final"} => awaiting = <<>>
  /\ Follows(messages, awaiting)

LEMMA MessageType ==
  ASSUME NEW role \in {"system", "user", "assistant", "tool"}
  PROVE  /\ Message(role) \in MessageRecords
         /\ Message(role).role = role /\ Message(role).calls = <<>>
BY DEF Message, MessageRecords

LEMMA CallsAreCounted ==
  ASSUME NEW m \in MessageRecords
  PROVE  m.calls \in Seq(CallRecords) /\ Len(m.calls) \in Nat
<1>1. m.calls \in Seq(CallRecords)
  BY DEF MessageRecords
<1> QED  BY <1>1

\* Pruning keeps every message where it is, with its role, its calls and its
\* identifier.
LEMMA PruningKeepsPlaces ==
  ASSUME NEW ms \in Seq(MessageRecords)
  PROVE  LET p == PruneSupersededToolResults(ms)
         IN /\ p \in Seq(MessageRecords) /\ Len(p) = Len(ms)
            /\ \A i \in DOMAIN ms : /\ p[i].role = ms[i].role /\ p[i].calls = ms[i].calls
                                    /\ p[i].id = ms[i].id
<1>1. Placeholder \in Nat
  BY TranscriptAssumption
<1>2. ASSUME NEW m \in MessageRecords
      PROVE  /\ Blank(m) \in MessageRecords
             /\ Blank(m).role = m.role /\ Blank(m).calls = m.calls /\ Blank(m).id = m.id
  BY <1>1 DEF Blank, MessageRecords
<1>3. PICK S : PruneSupersededToolResults(ms)
                 = [i \in DOMAIN ms |-> IF i \in S THEN Blank(ms[i]) ELSE ms[i]]
  BY DEF PruneSupersededToolResults
<1> DEFINE p == [i \in DOMAIN ms |-> IF i \in S THEN Blank(ms[i]) ELSE ms[i]]
<1>4. /\ DOMAIN ms = 1..Len(ms) /\ Len(ms) \in Nat
      /\ \A i \in DOMAIN ms : ms[i] \in MessageRecords
  OBVIOUS
<1>5. \A i \in DOMAIN ms : /\ p[i] \in MessageRecords
                           /\ p[i].role = ms[i].role /\ p[i].calls = ms[i].calls
                           /\ p[i].id = ms[i].id
  BY <1>2, <1>4
<1>6. p \in [1..Len(ms) -> MessageRecords]
  BY <1>4, <1>5
<1>7. p \in Seq(MessageRecords) /\ Len(p) = Len(ms)
  BY <1>4, <1>6
<1> QED  BY <1>3, <1>5, <1>7

LEMMA PruningFollows ==
  ASSUME NEW ms, Follows(ms, <<>>)
  PROVE  Follows(PruneSupersededToolResults(ms), <<>>)
<1> DEFINE p == PruneSupersededToolResults(ms)
<1>1. ms \in Seq(MessageRecords) /\ Len(ms) \in Nat /\ Len(ms) >= 2 /\ DOMAIN ms = 1..Len(ms)
  BY DEF Follows, OpensWithTask
<1>2. /\ p \in Seq(MessageRecords) /\ Len(p) = Len(ms)
      /\ \A i \in DOMAIN ms : /\ p[i].role = ms[i].role /\ p[i].calls = ms[i].calls
                              /\ p[i].id = ms[i].id
  BY <1>1, PruningKeepsPlaces
<1> HIDE DEF p
<1>3. DOMAIN p = 1..Len(ms)
  BY <1>2
<1>4. OpensWithTask(p) /\ OnlyRepliesCall(p)
  BY <1>1, <1>2, <1>3 DEF Follows, OpensWithTask, OnlyRepliesCall
<1>5. CallsAnswered(p, <<>>)
  <2> SUFFICES ASSUME NEW i \in 1..Len(ms), NEW k \in 1..Len(ms[i].calls)
      PROVE IF i + k <= Len(p)
            THEN p[i + k].role = "tool" /\ p[i + k].id = p[i].calls[k].id
            ELSE i + k - Len(p) <= Len(<<>>) /\ <<>>[i + k - Len(p)] = p[i].calls[k]
    BY <1>1, <1>2, <1>3 DEF CallsAnswered
  <2>1. IF i + k <= Len(ms)
        THEN ms[i + k].role = "tool" /\ ms[i + k].id = ms[i].calls[k].id
        ELSE i + k - Len(ms) <= Len(<<>>) /\ <<>>[i + k - Len(ms)] = ms[i].calls[k]
    BY <1>1 DEF Follows, CallsAnswered
  <2>2. CASE i + k <= Len(ms)
    <3>1. i + k \in 1..Len(ms)
      BY <1>1, <2>2
    <3> QED  BY <1>1, <1>2, <2>1, <2>2, <3>1
  <2>3. CASE ~(i + k <= Len(ms))
    BY <1>1, <1>2, <2>1, <2>3
  <2> QED  BY <2>2, <2>3
<1>6. ResultsCalled(p)
  <2> SUFFICES ASSUME NEW i \in 1..Len(ms), p[i].role = "tool"
      PROVE \E j \in 1..(i - 1) : i - j <= Len(p[j].calls)
    BY <1>3 DEF ResultsCalled
  <2>1. PICK j \in 1..(i - 1) : i - j <= Len(ms[j].calls)
    BY <1>1, <1>2 DEF Follows, ResultsCalled
  <2>2. j \in 1..Len(ms) /\ p[j].calls = ms[j].calls
    BY <1>1, <1>2
  <2> QED  BY <2>1, <2>2
<1>7. OwedIsCalled(p, <<>>) /\ <<>> \in Seq(CallRecords)
  BY DEF OwedIsCalled
<1>8. Follows(p, <<>>)
  BY <1>2, <1>4, <1>5, <1>6, <1>7 DEF Follows
<1> QED  BY <1>8 DEF p

\* What is kept begins with a turn.
LEMMA KeptIsATurnSuffix ==
  ASSUME NEW ms \in Seq(MessageRecords), Rest(ms) # <<>>, Rest(ms) \in Seq(MessageRecords)
  PROVE  \E i \in TurnStarts(Rest(ms)) : Kept(ms) = SubSeq(Rest(ms), i, Len(Rest(ms)))
<1> DEFINE r == Rest(ms)
           turnsOf == TurnSuffixes(r)
           fits == {s \in turnsOf : Tokens(Pinned(ms)) + Tokens(s) <= Budget}
<1> HIDE DEF r
<1>1. r \in Seq(MessageRecords) /\ r # <<>>
  BY DEF r
<1>2. ASSUME NEW s \in turnsOf  PROVE Len(s) \in 0..Len(r)
  <2>1. PICK i \in TurnStarts(r) : s = SubSeq(r, i, Len(r))
    BY DEF TurnSuffixes
  <2>2. i \in 1..Len(r)
    BY <1>1 DEF TurnStarts
  <2> QED  BY <1>1, <2>1, <2>2
<1>3. turnsOf # {}
  <2>1. 1 \in TurnStarts(r)
    BY <1>1 DEF TurnStarts
  <2> QED  BY <2>1 DEF TurnSuffixes
<1> HIDE DEF turnsOf
<1>4. \E s \in turnsOf : \A t \in turnsOf : Len(s) <= Len(t)
  <2> DEFINE T == {Len(s) : s \in turnsOf}
  <2>1. \A s \in turnsOf : Len(s) \in Nat
    BY <1>1, <1>2
  <2>2. T \subseteq Nat /\ T # {}
    BY <1>3, <2>1
  <2>3. PICK x \in T : \A y \in T : x <= y
    BY <2>2, LeastOf
  <2> QED  BY <2>3
<1>5. ASSUME fits # {}  PROVE \E s \in fits : \A t \in fits : Len(t) <= Len(s)
  <2> DEFINE T == {Len(r) - Len(s) : s \in fits}
  <2>1. T \subseteq Nat /\ T # {}
    BY <1>1, <1>2, <1>5
  <2>2. PICK x \in T : \A y \in T : x <= y
    BY <2>1, LeastOf
  <2>3. PICK s \in fits : x = Len(r) - Len(s)
    OBVIOUS
  <2>4. ASSUME NEW t \in fits  PROVE Len(t) <= Len(s)
    <3>1. Len(r) - Len(s) <= Len(r) - Len(t)
      BY <2>2, <2>3
    <3>2. Len(r) \in Nat /\ Len(s) \in 0..Len(r) /\ Len(t) \in 0..Len(r)
      BY <1>1, <1>2
    <3> QED  BY <3>1, <3>2
  <2> QED  BY <2>4
<1>6. Kept(ms) = IF fits = {}
                 THEN CHOOSE s \in turnsOf : \A t \in turnsOf : Len(s) <= Len(t)
                 ELSE CHOOSE s \in fits : \A t \in fits : Len(t) <= Len(s)
  BY DEF Kept, turnsOf, r
<1>7. Kept(ms) \in turnsOf
  BY <1>4, <1>5, <1>6
<1> QED  BY <1>7 DEF turnsOf, TurnSuffixes, r

\* The pinned messages, a notice, and what the history has from a turn on.
CutAt(n, ms, s) ==
  /\ s \in 1..(Len(ms) - 2) /\ (s = 1 \/ ms[s + 2].role # "tool")
  /\ n \in Seq(MessageRecords) /\ Len(n) = Len(ms) - s + 2
  /\ n[1] = ms[1] /\ n[2] = ms[2] /\ n[3].role = "user" /\ n[3].calls = <<>>
  /\ \A i \in 4..Len(n) : n[i] = ms[i + s - 2]

\* What is left when the history is cut at a turn follows as it did.
LEMMA CutFollows ==
  ASSUME NEW ms, Follows(ms, <<>>), NEW s, NEW n, CutAt(n, ms, s)
  PROVE  Follows(n, <<>>)
<1>0. /\ s \in 1..(Len(ms) - 2) /\ n \in Seq(MessageRecords) /\ Len(n) = Len(ms) - s + 2
      /\ s = 1 \/ ms[s + 2].role # "tool"
      /\ n[1] = ms[1] /\ n[2] = ms[2] /\ n[3].role = "user" /\ n[3].calls = <<>>
      /\ \A i \in 4..Len(n) : n[i] = ms[i + s - 2]
  BY DEF CutAt
<1>1. /\ ms \in Seq(MessageRecords) /\ Len(ms) \in Nat /\ Len(ms) >= 2 /\ DOMAIN ms = 1..Len(ms)
      /\ Len(n) \in Nat /\ Len(n) >= 4 /\ DOMAIN n = 1..Len(n)
      /\ s \in Int /\ s >= 1 /\ Len(n) = Len(ms) - s + 2
  BY <1>0 DEF Follows, OpensWithTask
<1>2. /\ n[1].role = "system" /\ n[2].role = "user" /\ n[3].role = "user"
      /\ n[1].calls = <<>> /\ n[2].calls = <<>> /\ n[3].calls = <<>>
      /\ ms[1].calls = <<>> /\ ms[2].calls = <<>>
  <2>1. ms[1].role = "system" /\ ms[2].role = "user"
    BY DEF Follows, OpensWithTask
  <2>2. 1 \in DOMAIN ms /\ 2 \in DOMAIN ms
    BY <1>1
  <2>3. ms[1].calls = <<>> /\ ms[2].calls = <<>>
    BY <2>1, <2>2 DEF Follows, OnlyRepliesCall
  <2> QED  BY <1>0, <2>1, <2>3
<1>3. ASSUME NEW i \in 4..Len(n)
      PROVE  /\ i + s - 2 \in 1..Len(ms) /\ n[i] = ms[i + s - 2]
             /\ Len(n[i].calls) \in Nat
  <2>1. i + s - 2 \in 1..Len(ms)
    BY <1>1
  <2>2. ms[i + s - 2] \in MessageRecords
    BY <1>1, <2>1
  <2>3. n[i] = ms[i + s - 2]
    BY <1>0
  <2> QED  BY <2>1, <2>2, <2>3, CallsAreCounted
<1>4. \A i \in DOMAIN n : i \in {1, 2, 3} \/ i \in 4..Len(n)
  BY <1>1
<1>5. OpensWithTask(n)
  BY <1>1, <1>2 DEF OpensWithTask
<1>6. OnlyRepliesCall(n)
  <2> SUFFICES ASSUME NEW i \in DOMAIN n, n[i].role # "assistant" PROVE n[i].calls = <<>>
    BY DEF OnlyRepliesCall
  <2>1. CASE i \in 4..Len(n)
    BY <1>1, <1>3, <2>1 DEF Follows, OnlyRepliesCall
  <2>2. CASE i \in {1, 2, 3}
    BY <1>2, <2>2
  <2> QED  BY <1>4, <2>1, <2>2
<1>7. CallsAnswered(n, <<>>)
  <2> SUFFICES ASSUME NEW i \in DOMAIN n, NEW k \in 1..Len(n[i].calls)
      PROVE i + k <= Len(n) /\ n[i + k].role = "tool" /\ n[i + k].id = n[i].calls[k].id
    BY <1>1 DEF CallsAnswered
  <2>1. i \in 4..Len(n)
    BY <1>2, <1>4
  <2> DEFINE at == i + s - 2
  <2>2. at \in 1..Len(ms) /\ n[i] = ms[at] /\ k \in 1..Len(ms[at].calls)
        /\ k \in Nat /\ k > 0
    <3>1. at \in 1..Len(ms) /\ n[i] = ms[at] /\ Len(n[i].calls) \in Nat
      BY <1>3, <2>1
    <3> HIDE DEF at
    <3> QED  BY <3>1
  <2>3. /\ at + k <= Len(ms)
        /\ ms[at + k].role = "tool" /\ ms[at + k].id = ms[at].calls[k].id
    <3>1. IF at + k <= Len(ms)
          THEN ms[at + k].role = "tool" /\ ms[at + k].id = ms[at].calls[k].id
          ELSE at + k - Len(ms) <= Len(<<>>)
      BY <1>1, <2>2 DEF Follows, CallsAnswered
    <3>2. at + k <= Len(ms)
      BY <1>1, <2>2, <3>1
    <3> QED  BY <3>1, <3>2
  <2>4. i + k \in 4..Len(n) /\ (i + k) + s - 2 = at + k
    <3>1. k \in Nat /\ at + k <= Len(ms)
      BY <2>2, <2>3
    <3>2. /\ i \in Int /\ i >= 4 /\ s \in Int /\ Len(n) \in Int /\ Len(ms) \in Int
          /\ Len(n) = Len(ms) - s + 2
      BY <1>1, <2>1
    <3>3. i + s - 2 + k <= Len(ms)
      BY <3>1
    <3>4. i + k <= Len(n)
      BY <3>1, <3>2, <3>3
    <3>5. i + k \in Int /\ i + k >= 4
      BY <3>1, <3>2
    <3>6. (i + k) + s - 2 = (i + s - 2) + k
      BY <3>1, <3>2
    <3> QED  BY <3>2, <3>4, <3>5, <3>6
  <2>5. n[i + k] = ms[at + k]
    BY <1>3, <2>4
  <2> QED  BY <2>2, <2>3, <2>4, <2>5
<1>8. ResultsCalled(n)
  <2> SUFFICES ASSUME NEW i \in DOMAIN n, n[i].role = "tool"
      PROVE \E j \in 1..(i - 1) : i - j <= Len(n[j].calls)
    BY DEF ResultsCalled
  <2>1. i \in 4..Len(n)
    BY <1>2, <1>4
  <2> DEFINE at == i + s - 2
  <2>2. at \in 1..Len(ms) /\ n[i] = ms[at]
    BY <1>3, <2>1
  <2>3. PICK j \in 1..(at - 1) : at - j <= Len(ms[j].calls)
    BY <1>1, <2>2 DEF Follows, ResultsCalled
  <2>4. j \in 1..Len(ms) /\ ms[j] \in MessageRecords /\ Len(ms[j].calls) \in Nat
    <3>1. j \in 1..Len(ms)
      BY <1>1, <2>2
    <3>2. ms[j] \in MessageRecords
      BY <1>1, <3>1
    <3> QED  BY <3>1, <3>2, CallsAreCounted
  \* The reply was kept too: its results follow it, and the cut is at none.
  <2>5. j >= s + 2
    <3> SUFFICES ASSUME j < s + 2 PROVE FALSE
      BY <1>1, <2>4
    <3>1. s + 2 \in 1..Len(ms) /\ s + 2 - j \in 1..Len(ms[j].calls) /\ j + (s + 2 - j) = s + 2
      <4> DEFINE m == Len(ms)
                 c == Len(ms[j].calls)
      <4>1. /\ i \in Int /\ s \in Int /\ j \in Int /\ m \in Int /\ c \in Int
            /\ i >= 4 /\ j >= 1 /\ s >= 1
        BY <1>1, <2>1, <2>4
      <4>2. i + s - 2 <= m /\ i + s - 2 - j <= c
        BY <1>1, <2>2, <2>3
      <4> HIDE DEF m, c
      <4>3. s + 2 \in 1..m /\ s + 2 - j \in 1..c /\ j + (s + 2 - j) = s + 2
        BY <4>1, <4>2
      <4> QED  BY <4>3 DEF m, c
    <3>2. ms[s + 2].role = "tool"
      <4>1. CallsAnswered(ms, <<>>) /\ j \in DOMAIN ms
        BY <1>1, <2>4 DEF Follows
      <4>2. PICK k \in 1..Len(ms[j].calls) : j + k = s + 2
        BY <3>1
      <4>3. j + k <= Len(ms)
        BY <1>1, <3>1, <4>2
      <4>4. ms[j + k].role = "tool"
        BY <4>1, <4>3 DEF CallsAnswered
      <4> QED  BY <4>2, <4>4
    <3>3. s = 1 /\ j \in {1, 2}
      BY <1>0, <2>4, <3>2
    <3>4. ms[j].calls = <<>>
      BY <1>2, <3>3
    <3> QED  BY <3>1, <3>4
  <2>6. j - s + 2 \in 4..Len(n) /\ j - s + 2 \in 1..(i - 1) /\ (j - s + 2) + s - 2 = j
    BY <1>1, <2>1, <2>3, <2>4, <2>5
  <2>7. n[j - s + 2] = ms[j]
    BY <1>3, <2>6
  <2>8. i - (j - s + 2) <= Len(n[j - s + 2].calls)
    <3>1. i \in Int /\ s \in Int /\ j \in Int
      BY <1>1, <2>1, <2>4
    <3>2. i - (j - s + 2) = (i + s - 2) - j
      BY <3>1
    <3> QED  BY <2>3, <2>7, <3>2
  <2> QED  BY <2>6, <2>8
<1>9. OwedIsCalled(n, <<>>) /\ <<>> \in Seq(CallRecords)
  BY DEF OwedIsCalled
<1> QED  BY <1>0, <1>5, <1>6, <1>7, <1>8, <1>9 DEF Follows

LEMMA CompactionFollows ==
  ASSUME NEW ms, Follows(ms, <<>>)
  PROVE  Follows(CompactHistory(ms), <<>>)
<1>1. ms \in Seq(MessageRecords) /\ Len(ms) \in Nat /\ Len(ms) >= 2
  BY DEF Follows, OpensWithTask
<1>2. CASE Rest(ms) = <<>> \/ Kept(ms) = Rest(ms)
  BY <1>2 DEF CompactHistory
<1>3. CASE ~(Rest(ms) = <<>> \/ Kept(ms) = Rest(ms))
  <2> DEFINE r == Rest(ms)
             n == Pinned(ms) \o <<Message("user")>> \o Kept(ms)
  <2>1. /\ r \in Seq(MessageRecords) /\ Len(r) = IF 3 <= Len(ms) THEN Len(ms) - 2 ELSE 0
        /\ \A i \in 1..(Len(ms) - 2) : r[i] = ms[i + 2]
    BY <1>1, SubSeqProperties DEF Rest
  <2> HIDE DEF r
  <2>2. PICK s \in TurnStarts(r) : Kept(ms) = SubSeq(r, s, Len(r))
    BY <1>1, <1>3, <2>1, KeptIsATurnSuffix DEF r
  <2>3. s \in 1..Len(r) /\ (s = 1 \/ r[s].role # "tool") /\ Len(r) = Len(ms) - 2
    BY <2>1, <2>2 DEF TurnStarts
  <2>4. s \in 1..(Len(ms) - 2) /\ (s = 1 \/ ms[s + 2].role # "tool")
    BY <2>1, <2>3
  <2>5. /\ Kept(ms) \in Seq(MessageRecords) /\ Len(Kept(ms)) = Len(ms) - 1 - s
        /\ \A i \in 1..(Len(ms) - 1 - s) : Kept(ms)[i] = r[s + i - 1]
    BY <1>1, <2>1, <2>2, <2>3, SubSeqProperties
  <2>6. /\ Pinned(ms) \in Seq(MessageRecords) /\ Len(Pinned(ms)) = 2
        /\ Pinned(ms)[1] = ms[1] /\ Pinned(ms)[2] = ms[2]
    BY <1>1, SubSeqProperties DEF Pinned
  <2>7. Message("user") \in MessageRecords /\ Message("user").role = "user"
        /\ Message("user").calls = <<>>
    BY MessageType
  <2> DEFINE open == Pinned(ms) \o <<Message("user")>>
  <2>8. /\ open \in Seq(MessageRecords) /\ Len(open) = 3
        /\ open[1] = ms[1] /\ open[2] = ms[2] /\ open[3] = Message("user")
    <3> DEFINE user == <<Message("user")>>
    <3>1. user \in Seq(MessageRecords) /\ Len(user) = 1 /\ user[1] = Message("user")
      BY <2>7
    <3> HIDE DEF user
    <3>2. /\ open \in Seq(MessageRecords) /\ Len(open) = Len(Pinned(ms)) + Len(user)
          /\ \A i \in 1..(Len(Pinned(ms)) + Len(user)) :
               open[i] = IF i <= Len(Pinned(ms)) THEN Pinned(ms)[i] ELSE user[i - Len(Pinned(ms))]
      BY <2>6, <3>1, ConcatProperties DEF user
    <3> HIDE DEF open
    <3>3. \A i \in 1..3 : open[i] = IF i <= 2 THEN Pinned(ms)[i] ELSE user[i - 2]
      BY <2>6, <3>1, <3>2
    <3>4. open[1] = ms[1] /\ open[2] = ms[2] /\ open[3] = user[1]
      BY <2>6, <3>3
    <3> QED  BY <2>6, <3>1, <3>2, <3>4
  <2> HIDE DEF open
  <2>9. /\ n \in Seq(MessageRecords) /\ Len(n) = Len(ms) - s + 2
        /\ \A i \in 1..3 : n[i] = open[i]
        /\ \A i \in 4..Len(n) : n[i] = Kept(ms)[i - 3]
    <3>1. n = open \o Kept(ms)
      BY DEF open
    <3> HIDE DEF n
    <3>2. n \in Seq(MessageRecords) /\ Len(n) = 3 + Len(Kept(ms))
      <4>1. /\ open \in Seq(MessageRecords) /\ Kept(ms) \in Seq(MessageRecords)
            /\ Len(open) = 3
        BY <2>5, <2>8
      <4>2. /\ open \o Kept(ms) \in Seq(MessageRecords)
            /\ Len(open \o Kept(ms)) = Len(open) + Len(Kept(ms))
        BY <4>1, ConcatProperties
      <4> QED  BY <3>1, <4>1, <4>2
    <3>3. Len(n) = Len(ms) - s + 2
      BY <1>1, <2>4, <2>5, <3>2
    <3>4. \A i \in 1..(3 + Len(Kept(ms))) :
            n[i] = IF i <= 3 THEN open[i] ELSE Kept(ms)[i - 3]
      <4>1. /\ open \in Seq(MessageRecords) /\ Kept(ms) \in Seq(MessageRecords)
            /\ Len(open) = 3
        BY <2>5, <2>8
      <4>2. \A i \in 1..(Len(open) + Len(Kept(ms))) :
              (open \o Kept(ms))[i] = IF i <= Len(open) THEN open[i]
                                      ELSE Kept(ms)[i - Len(open)]
        BY <4>1, ConcatProperties
      <4> QED  BY <3>1, <4>1, <4>2
    <3> QED  BY <1>1, <2>4, <2>5, <3>2, <3>3, <3>4
  <2>10. \A i \in 4..Len(n) : n[i] = ms[i + s - 2]
    <3> HIDE DEF n
    <3> SUFFICES ASSUME NEW i \in 4..Len(n) PROVE n[i] = ms[i + s - 2]
      OBVIOUS
    <3>1. i - 3 \in 1..(Len(ms) - 1 - s) /\ s + (i - 3) - 1 \in 1..(Len(ms) - 2)
          /\ (s + (i - 3) - 1) + 2 = i + s - 2
      BY <1>1, <2>4, <2>9
    <3>2. Kept(ms)[i - 3] = r[s + (i - 3) - 1]
      BY <2>5, <3>1
    <3>3. r[s + (i - 3) - 1] = ms[i + s - 2]
      BY <2>1, <3>1
    <3> QED  BY <2>9, <3>2, <3>3
  <2>11. CompactHistory(ms) = n
    BY <1>3 DEF CompactHistory
  <2> HIDE DEF n
  <2>12. CutAt(n, ms, s)
    BY <2>4, <2>7, <2>8, <2>9, <2>10 DEF CutAt
  <2>13. Follows(n, <<>>)
    BY <2>12, CutFollows
  <2> QED  BY <2>11, <2>13
<1> QED  BY <1>2, <1>3

\* A message that is no result opens a turn, and owes an answer to each of its
\* calls.
LEMMA TurnFollows ==
  ASSUME NEW ms, Follows(ms, <<>>), NEW m \in MessageRecords, m.role # "tool",
         m.role # "assistant" => m.calls = <<>>
  PROVE  Follows(Append(ms, m), m.calls)
<1> DEFINE n == Append(ms, m)
           L == Len(ms)
<1>1. ms \in Seq(MessageRecords) /\ L \in Nat /\ L >= 2 /\ DOMAIN ms = 1..L
  BY DEF Follows, OpensWithTask
<1>2. /\ n \in Seq(MessageRecords) /\ Len(n) = L + 1 /\ DOMAIN n = 1..(L + 1)
      /\ n[L + 1] = m /\ \A i \in 1..L : n[i] = ms[i]
  BY <1>1
<1>3. m.calls \in Seq(CallRecords) /\ Len(m.calls) \in Nat
  BY CallsAreCounted
<1> HIDE DEF n, L
<1>4. \A i \in DOMAIN n : i \in 1..L \/ i = L + 1
  BY <1>1, <1>2
<1>5. OpensWithTask(n)
  BY <1>1, <1>2 DEF Follows, OpensWithTask
<1>6. OnlyRepliesCall(n)
  BY <1>1, <1>2, <1>4 DEF Follows, OnlyRepliesCall
<1>7. CallsAnswered(n, m.calls)
  <2> SUFFICES ASSUME NEW i \in DOMAIN n, NEW k \in 1..Len(n[i].calls)
      PROVE IF i + k <= Len(n)
            THEN n[i + k].role = "tool" /\ n[i + k].id = n[i].calls[k].id
            ELSE i + k - Len(n) <= Len(m.calls) /\ m.calls[i + k - Len(n)] = n[i].calls[k]
    BY DEF CallsAnswered
  <2>1. CASE i \in 1..L
    <3>1. n[i] = ms[i] /\ k \in 1..Len(ms[i].calls) /\ ms[i] \in MessageRecords
      BY <1>1, <1>2, <2>1
    <3>2. Len(ms[i].calls) \in Nat /\ k \in Nat /\ k > 0
      BY <3>1, CallsAreCounted
    <3>3. /\ i + k <= L => ms[i + k].role = "tool" /\ ms[i + k].id = ms[i].calls[k].id
          /\ ~(i + k <= L) => i + k - L <= 0
      <4>1. CallsAnswered(ms, <<>>) /\ i \in DOMAIN ms /\ Len(<<>>) = 0
        BY <1>1, <2>1 DEF Follows
      <4> QED  BY <3>1, <4>1 DEF CallsAnswered, L
    <3>4. i + k <= L /\ i + k \in 1..L
      BY <1>1, <2>1, <3>2, <3>3
    <3>5. n[i + k] = ms[i + k]
      BY <1>2, <3>4
    <3>6. i + k <= Len(n)
      BY <1>1, <1>2, <3>4
    <3> QED  BY <3>1, <3>3, <3>4, <3>5, <3>6
  <2>2. CASE i = L + 1
    <3>1. n[i] = m /\ k \in 1..Len(m.calls)
      BY <1>2, <2>2
    <3>2. k \in Nat /\ k > 0 /\ k <= Len(m.calls)
      BY <1>3, <3>1
    <3>3. ~(i + k <= Len(n)) /\ i + k - Len(n) = k
      BY <1>1, <1>2, <2>2, <3>2
    <3> QED  BY <3>1, <3>2, <3>3
  <2> QED  BY <1>4, <2>1, <2>2
<1>8. ResultsCalled(n)
  <2> SUFFICES ASSUME NEW i \in DOMAIN n, n[i].role = "tool"
      PROVE \E j \in 1..(i - 1) : i - j <= Len(n[j].calls)
    BY DEF ResultsCalled
  <2>1. i \in 1..L /\ n[i] = ms[i]
    BY <1>2, <1>4
  <2>2. PICK j \in 1..(i - 1) : i - j <= Len(ms[j].calls)
    BY <1>1, <2>1 DEF Follows, ResultsCalled
  <2>3. j \in 1..L
    BY <1>1, <2>1
  <2> QED  BY <1>2, <2>2, <2>3
<1>9. OwedIsCalled(n, m.calls)
  <2>1. L + 1 \in DOMAIN n /\ n[L + 1].calls = m.calls
    BY <1>1, <1>2
  <2>2. Len(n) + Len(m.calls) - (L + 1) <= Len(m.calls)
    <3>1. Len(n) = L + 1 /\ L \in Int /\ Len(m.calls) \in Int
      BY <1>1, <1>2, <1>3
    <3>2. \A x, y \in Int : (x + 1) + y - (x + 1) <= y
      OBVIOUS
    <3> QED  BY <3>1, <3>2
  <2> QED  BY <2>1, <2>2 DEF OwedIsCalled
<1>10. Follows(n, m.calls)
  BY <1>2, <1>3, <1>5, <1>6, <1>7, <1>8, <1>9 DEF Follows
<1> QED  BY <1>10 DEF n

\* The result of the first call that is owed.
LEMMA ResultFollows ==
  ASSUME NEW ms, NEW owed, Follows(ms, owed), owed # <<>>,
         NEW m \in MessageRecords, m.role = "tool", m.calls = <<>>, m.id = Head(owed).id
  PROVE  Follows(Append(ms, m), Tail(owed))
<1> DEFINE n == Append(ms, m)
           L == Len(ms)
           rest == Tail(owed)
<1>1. ms \in Seq(MessageRecords) /\ L \in Nat /\ L >= 2 /\ DOMAIN ms = 1..L
  BY DEF Follows, OpensWithTask
<1>2. /\ n \in Seq(MessageRecords) /\ Len(n) = L + 1 /\ DOMAIN n = 1..(L + 1)
      /\ n[L + 1] = m /\ \A i \in 1..L : n[i] = ms[i]
  BY <1>1
<1>3. /\ owed \in Seq(CallRecords) /\ Len(owed) \in Nat \ {0} /\ m.id = owed[1].id
      /\ rest \in Seq(CallRecords) /\ Len(rest) = Len(owed) - 1
      /\ \A i \in 1..(Len(owed) - 1) : rest[i] = owed[i + 1]
  BY DEF Follows
<1> HIDE DEF n, L, rest
<1>4. \A i \in DOMAIN n : i \in 1..L \/ i = L + 1
  BY <1>1, <1>2
<1>5. OpensWithTask(n)
  BY <1>1, <1>2 DEF Follows, OpensWithTask
<1>6. OnlyRepliesCall(n)
  BY <1>1, <1>2, <1>4 DEF Follows, OnlyRepliesCall
<1>7. CallsAnswered(n, rest)
  <2> SUFFICES ASSUME NEW i \in DOMAIN n, NEW k \in 1..Len(n[i].calls)
      PROVE IF i + k <= Len(n)
            THEN n[i + k].role = "tool" /\ n[i + k].id = n[i].calls[k].id
            ELSE i + k - Len(n) <= Len(rest) /\ rest[i + k - Len(n)] = n[i].calls[k]
    BY DEF CallsAnswered
  <2>1. i \in 1..L
    <3>1. i # L + 1
      BY <1>2
    <3> QED  BY <1>4, <3>1
  <2>2. n[i] = ms[i] /\ k \in 1..Len(ms[i].calls) /\ ms[i] \in MessageRecords
    BY <1>1, <1>2, <2>1
  <2>3. Len(ms[i].calls) \in Nat /\ k \in Nat /\ k > 0
    BY <2>2, CallsAreCounted
  <2>4. /\ i + k <= L => ms[i + k].role = "tool" /\ ms[i + k].id = ms[i].calls[k].id
        /\ ~(i + k <= L) => i + k - L <= Len(owed) /\ owed[i + k - L] = ms[i].calls[k]
    <3>1. CallsAnswered(ms, owed) /\ i \in DOMAIN ms
      BY <1>1, <2>1 DEF Follows
    <3> QED  BY <2>2, <3>1 DEF CallsAnswered, L
  <2>5. CASE i + k <= L
    <3>1. i + k \in 1..L /\ i + k <= Len(n)
      BY <1>1, <1>2, <2>1, <2>3, <2>5
    <3>2. n[i + k] = ms[i + k]
      BY <1>2, <3>1
    <3> QED  BY <2>2, <2>4, <2>5, <3>1, <3>2
  <2>6. CASE i + k = L + 1
    <3>1. ~(i + k <= L) /\ i + k - L = 1 /\ i + k <= Len(n)
      BY <1>1, <1>2, <2>6
    <3>2. owed[1] = ms[i].calls[k]
      BY <2>4, <3>1
    <3> QED  BY <1>2, <1>3, <2>2, <2>6, <3>1, <3>2
  <2>7. CASE i + k > L + 1
    <3>1. ~(i + k <= L) /\ ~(i + k <= Len(n))
      BY <1>1, <1>2, <2>1, <2>3, <2>7
    <3>2. i + k - L <= Len(owed) /\ owed[i + k - L] = ms[i].calls[k]
      BY <2>4, <3>1
    <3>3. /\ i + k - Len(n) \in 1..(Len(owed) - 1) /\ i + k - Len(n) <= Len(rest)
          /\ (i + k - Len(n)) + 1 = i + k - L
      <4>1. i \in Int /\ k \in Int /\ L \in Int /\ Len(owed) \in Int
        BY <1>1, <1>3, <2>1, <2>3
      <4>2. i + k - L > 1
        BY <4>1, <2>7
      <4>3. i + k - Len(n) = i + k - L - 1
        BY <1>2, <4>1
      <4> QED  BY <1>3, <3>2, <4>1, <4>2, <4>3
    <3>4. rest[i + k - Len(n)] = owed[i + k - L]
      BY <1>3, <3>3
    <3> QED  BY <2>2, <3>1, <3>2, <3>3, <3>4
  <2>8. i + k \in Int
    BY <2>1, <2>3
  <2> QED  BY <1>1, <2>5, <2>6, <2>7, <2>8
<1>8. PICK c \in 1..L : L + Len(owed) - c <= Len(ms[c].calls)
  BY <1>1 DEF Follows, OwedIsCalled, L
<1>9. n[c] = ms[c] /\ Len(ms[c].calls) \in Nat
  <2>1. ms[c] \in MessageRecords
    BY <1>1
  <2> QED  BY <1>2, <2>1, CallsAreCounted
<1>10. ResultsCalled(n)
  <2> SUFFICES ASSUME NEW i \in DOMAIN n, n[i].role = "tool"
      PROVE \E j \in 1..(i - 1) : i - j <= Len(n[j].calls)
    BY DEF ResultsCalled
  <2>1. CASE i \in 1..L
    <3>1. n[i] = ms[i]
      BY <1>2, <2>1
    <3>2. PICK j \in 1..(i - 1) : i - j <= Len(ms[j].calls)
      BY <1>1, <2>1, <3>1 DEF Follows, ResultsCalled
    <3>3. j \in 1..L
      BY <1>1, <2>1
    <3> QED  BY <1>2, <3>2, <3>3
  <2>2. CASE i = L + 1
    <3>1. c \in 1..(i - 1)
      BY <1>1, <2>2
    <3>2. i - c <= Len(n[c].calls)
      BY <1>1, <1>3, <1>8, <1>9, <2>2
    <3> QED  BY <3>1, <3>2
  <2> QED  BY <1>4, <2>1, <2>2
<1>11. OwedIsCalled(n, rest)
  <2>1. c \in DOMAIN n
    BY <1>1, <1>2
  <2>2. Len(n) + Len(rest) - c <= Len(n[c].calls)
    BY <1>1, <1>2, <1>3, <1>8, <1>9
  <2> QED  BY <2>1, <2>2 DEF OwedIsCalled
<1>12. Follows(n, rest)
  BY <1>2, <1>3, <1>5, <1>6, <1>7, <1>10, <1>11 DEF Follows
<1> QED  BY <1>12 DEF n, rest

LEMMA TranscriptInvInit == TranscriptInit => TranscriptInv
<1> SUFFICES ASSUME TranscriptInit PROVE TranscriptInv
  OBVIOUS
<1> DEFINE system == Message("system")
           user == Message("user")
<1>1. /\ system \in MessageRecords /\ system.role = "system" /\ system.calls = <<>>
      /\ user \in MessageRecords /\ user.role = "user" /\ user.calls = <<>>
  BY MessageType
<1>2. messages = <<system, user>> /\ awaiting = <<>> /\ turns = 0 /\ step = "top"
      /\ provider \in Providers
  BY DEF TranscriptInit
<1> HIDE DEF system, user
<1>3. /\ messages \in Seq(MessageRecords) /\ Len(messages) = 2 /\ DOMAIN messages = {1, 2}
      /\ messages[1] = system /\ messages[2] = user
  BY <1>1, <1>2
<1> HIDE DEF TranscriptInit
<1>4. Follows(messages, <<>>)
  <2>1. OpensWithTask(messages) /\ OnlyRepliesCall(messages)
    BY <1>1, <1>3 DEF OpensWithTask, OnlyRepliesCall
  <2>2. CallsAnswered(messages, <<>>)
    BY <1>1, <1>3 DEF CallsAnswered
  <2>3. ResultsCalled(messages)
    BY <1>1, <1>3 DEF ResultsCalled
  <2>4. OwedIsCalled(messages, <<>>) /\ <<>> \in Seq(CallRecords)
    BY DEF OwedIsCalled
  <2> QED  BY <1>3, <2>1, <2>2, <2>3, <2>4 DEF Follows
<1>5. TranscriptTypes
  BY <1>2, TranscriptAssumption DEF TranscriptTypes
<1> QED  BY <1>2, <1>4, <1>5 DEF TranscriptInv

LEMMA TranscriptInvNext == TranscriptInv /\ [TranscriptNext]_transcriptVars => TranscriptInv'
<1> SUFFICES ASSUME TranscriptInv, [TranscriptNext]_transcriptVars PROVE TranscriptInv'
  OBVIOUS
<1>1. TranscriptTypes /\ Follows(messages, awaiting) /\ MaxTurns \in Nat /\ MaxBatch \in Nat
  BY TranscriptAssumption DEF TranscriptInv
<1>2. ASSUME step \in {"top", "request", "final"}  PROVE Follows(messages, <<>>)
  BY <1>2 DEF TranscriptInv
<1>3. CASE Ask
  <2>1. Follows(CompactHistory(PruneSupersededToolResults(messages)), <<>>)
    BY <1>2, <1>3, PruningFollows, CompactionFollows DEF Ask
  <2>2. Follows(messages, awaiting)' /\ awaiting' = <<>>
    BY <1>3, <2>1 DEF Ask, TranscriptInv, Follows, OpensWithTask, OnlyRepliesCall, CallsAnswered,
                      ResultsCalled, OwedIsCalled
  <2>3. TranscriptTypes'
    BY <1>1, <1>3 DEF Ask, TranscriptTypes
  <2> QED  BY <2>2, <2>3 DEF TranscriptInv
<1>4. CASE Reply
  <2>0. PICK k \in 1..MaxBatch : \E asked \in [1..k -> Asks] :
          LET calls == [n \in 1..k |-> [id |-> CallId(n), ask |-> asked[n]]]
          IN /\ messages' = Append(messages, [Message("assistant") EXCEPT !.calls = calls])
             /\ awaiting' = calls
    BY <1>4, Zenon DEF Reply
  <2>1. PICK asked \in [1..k -> Asks] :
          LET calls == [n \in 1..k |-> [id |-> CallId(n), ask |-> asked[n]]]
          IN /\ messages' = Append(messages, [Message("assistant") EXCEPT !.calls = calls])
             /\ awaiting' = calls
    BY <2>0, Zenon
  <2> DEFINE calls == [n \in 1..k |-> [id |-> CallId(n), ask |-> asked[n]]]
             m == [Message("assistant") EXCEPT !.calls = calls]
  <2>2. calls \in Seq(CallRecords)
    <3>1. \A n \in 1..k : CallId(n) \in Nat
      <4>1. MaxBatch * turns \in Nat
        BY <1>1 DEF TranscriptTypes
      <4> QED  BY <4>1 DEF CallId
    <3>2. \A n \in 1..k : [id |-> CallId(n), ask |-> asked[n]] \in CallRecords
      BY <3>1 DEF CallRecords
    <3>3. calls \in [1..k -> CallRecords]
      BY <3>2
    <3> QED  BY <1>1, <3>3
  <2> HIDE DEF calls
  <2>3. m \in MessageRecords /\ m.role = "assistant" /\ m.calls = calls
    BY <2>2, MessageType DEF MessageRecords
  <2>4. messages' = Append(messages, m) /\ awaiting' = m.calls
    BY <2>1, <2>3 DEF calls
  <2> HIDE DEF m
  <2>5. Follows(Append(messages, m), m.calls)
    BY <1>2, <1>4, <2>3, TurnFollows DEF Reply
  <2>6. Follows(messages', awaiting')
    BY <2>4, <2>5
  <2>7. TranscriptTypes'
    BY <1>1, <1>4 DEF Reply, TranscriptTypes
  <2>8. step' = "batch"
    BY <1>4 DEF Reply
  <2> QED  BY <2>6, <2>7, <2>8 DEF TranscriptInv, Follows, OpensWithTask, OnlyRepliesCall,
                                    CallsAnswered, ResultsCalled, OwedIsCalled
<1>5. CASE Answer
  <2>1. PICK size \in ResultSizes :
          messages' = Append(messages, [Message("tool") EXCEPT !.id = Head(awaiting).id,
                                                               !.ask = Head(awaiting).ask,
                                                               !.size = size])
    BY <1>5 DEF Answer
  <2> DEFINE m == [Message("tool") EXCEPT !.id = Head(awaiting).id,
                                          !.ask = Head(awaiting).ask, !.size = size]
  <2>2. awaiting \in Seq(CallRecords) /\ awaiting # <<>> /\ size \in Nat
    BY <1>1, <1>5, TranscriptAssumption DEF Answer, Follows
  <2>3. Head(awaiting) \in CallRecords
    BY <2>2
  <2>4. /\ m \in MessageRecords /\ m.role = "tool" /\ m.calls = <<>>
        /\ m.id = Head(awaiting).id
    BY <2>2, <2>3, MessageType DEF MessageRecords, CallRecords
  <2>5. messages' = Append(messages, m) /\ awaiting' = Tail(awaiting)
    BY <1>5, <2>1 DEF Answer
  <2> HIDE DEF m
  <2>6. Follows(Append(messages, m), Tail(awaiting))
    BY <1>1, <2>2, <2>4, ResultFollows
  <2>7. Follows(messages', awaiting')
    BY <2>5, <2>6
  <2>8. TranscriptTypes'
    BY <1>1, <1>5 DEF Answer, TranscriptTypes
  <2>9. step' \in {"top", "request", "final"} => awaiting' = <<>>
    <3>1. step' = IF Len(awaiting) = 1 THEN "top" ELSE "batch"
      BY <1>5 DEF Answer
    <3>2. Len(awaiting) = 1 => Tail(awaiting) = <<>>
      <4>1. Tail(awaiting) \in Seq(CallRecords) /\ Len(Tail(awaiting)) = Len(awaiting) - 1
        BY <2>2
      <4>2. ASSUME Len(awaiting) = 1  PROVE Tail(awaiting) = <<>>
        <5>1. Len(Tail(awaiting)) = 0
          BY <4>1, <4>2
        <5> QED  BY <4>1, <5>1, EmptySeq
      <4> QED  BY <4>2
    <3> QED  BY <2>5, <3>1, <3>2
  <2> QED  BY <2>7, <2>8, <2>9 DEF TranscriptInv, Follows, OpensWithTask, OnlyRepliesCall,
                                    CallsAnswered, ResultsCalled, OwedIsCalled
<1>6. ASSUME NEW role \in {"assistant", "user"}, messages' = Append(messages, Message(role)),
             UNCHANGED <<provider, awaiting>>, step \in {"request", "final"},
             turns' \in 0..MaxTurns, step' \in {"final", "top"}
      PROVE  TranscriptInv'
  <2> DEFINE m == Message(role)
  <2>1. m \in MessageRecords /\ m.role = role /\ m.calls = <<>>
    BY MessageType
  <2> HIDE DEF m
  <2>2. Follows(Append(messages, m), m.calls)
    BY <1>2, <1>6, <2>1, TurnFollows
  <2>3. awaiting' = <<>> /\ messages' = Append(messages, m)
    BY <1>6 DEF m, TranscriptInv
  <2>4. Follows(messages', awaiting')
    BY <2>1, <2>2, <2>3
  <2>5. TranscriptTypes'
    BY <1>1, <1>6 DEF TranscriptTypes
  <2> QED  BY <2>3, <2>4, <2>5 DEF TranscriptInv, Follows, OpensWithTask, OnlyRepliesCall,
                                    CallsAnswered, ResultsCalled, OwedIsCalled
<1>7. CASE Concludes
  <2>1. turns' \in 0..MaxTurns
    BY <1>1, <1>7 DEF Concludes, TranscriptTypes
  <2> QED  BY <1>6, <1>7, <2>1 DEF Concludes
<1>8. CASE Repairs
  <2>1. turns' \in 0..MaxTurns
    BY <1>1, <1>8 DEF Repairs, TranscriptTypes
  <2> QED  BY <1>6, <1>8, <2>1 DEF Repairs
<1>9. CASE RunEnds
  BY <1>9 DEF RunEnds, TranscriptInv, TranscriptTypes, Follows, OpensWithTask, OnlyRepliesCall,
              CallsAnswered, ResultsCalled, OwedIsCalled
<1>10. CASE UNCHANGED transcriptVars
  BY <1>10 DEF transcriptVars, TranscriptInv, TranscriptTypes, Follows, OpensWithTask,
               OnlyRepliesCall, CallsAnswered, ResultsCalled, OwedIsCalled
<1> QED  BY <1>3, <1>4, <1>5, <1>7, <1>8, <1>9, <1>10 DEF TranscriptNext

LEMMA InvIsWellFormed == TranscriptInv => RequestIsWellFormed
<1> SUFFICES ASSUME TranscriptInv, step = "request" PROVE RequestIsWellFormed
  BY DEF RequestIsWellFormed
<1> DEFINE L == Len(messages)
<1>1. Follows(messages, <<>>) /\ messages \in Seq(MessageRecords) /\ L \in Nat
      /\ DOMAIN messages = 1..L
  BY DEF TranscriptInv, Follows
<1>2. messages[1].role = "system" /\ messages[2].role = "user"
  BY <1>1 DEF Follows, OpensWithTask
<1>3. ASSUME NEW i \in 1..L, NEW k \in 1..Len(messages[i].calls)
      PROVE  /\ i + k <= L
             /\ messages[i + k].role = "tool" /\ messages[i + k].id = messages[i].calls[k].id
  <2>1. /\ i + k <= L => /\ messages[i + k].role = "tool"
                         /\ messages[i + k].id = messages[i].calls[k].id
        /\ ~(i + k <= L) => i + k - L <= 0
    BY <1>1 DEF Follows, CallsAnswered
  <2>2. messages[i] \in MessageRecords
    BY <1>1
  <2>3. k \in Int
    BY <2>2, CallsAreCounted
  <2> QED  BY <1>1, <2>1, <2>3
<1>4. ASSUME NEW i \in 1..L  PROVE i + Len(messages[i].calls) <= L
  <2>1. messages[i] \in MessageRecords
    BY <1>1
  <2>2. Len(messages[i].calls) \in Nat
    BY <2>1, CallsAreCounted
  <2>3. CASE Len(messages[i].calls) = 0
    BY <1>1, <2>3
  <2>4. CASE Len(messages[i].calls) # 0
    <3>1. Len(messages[i].calls) \in 1..Len(messages[i].calls)
      BY <2>2, <2>4
    <3> QED  BY <1>3, <3>1
  <2> QED  BY <2>3, <2>4
<1>5. ASSUME NEW i \in 1..L, messages[i].role = "tool"
      PROVE  \E j \in 1..(i - 1) : i - j <= Len(messages[j].calls)
  BY <1>1, <1>5 DEF Follows, ResultsCalled
<1> QED  BY <1>1, <1>2, <1>3, <1>4, <1>5 DEF RequestIsWellFormed

\* Every request is one a provider accepts, whatever was blanked and dropped to
\* bring it within the budget (context-compaction.ts, tool-result-pruning.ts).
THEOREM RequestsAreAlwaysWellFormed == TranscriptSpec => []RequestIsWellFormed
<1> QED  BY TranscriptInvInit, TranscriptInvNext, InvIsWellFormed, PTL DEF TranscriptSpec

-----------------------------------------------------------------------------
(* Sequences put one after the other: FlattenSeq, and one sequence more.     *)

Flattens(f, ss, n) == f = [i \in 1..n |-> IF i = 1 THEN ss[i] ELSE f[i - 1] \o ss[i]]

LEMMA FlatteningExists ==
  ASSUME NEW ss, NEW n \in Nat
  PROVE  \E f : Flattens(f, ss, n)
<1> DEFINE Bad == {m \in Nat : ~ \E f : Flattens(f, ss, m)}
<1>1. SUFFICES ASSUME Bad # {} PROVE FALSE
  OBVIOUS
<1>2. PICK m \in Bad : \A k \in Bad : m <= k
  BY <1>1, LeastOf
<1>3. m # 0
  <2> DEFINE f == [i \in 1..0 |-> <<>>]
  <2>1. Flattens(f, ss, 0)
    BY DEF Flattens
  <2> QED  BY <2>1
<1>4. PICK g : Flattens(g, ss, m - 1)
  <2>1. m - 1 \in Nat /\ ~(m <= m - 1)
    BY <1>3
  <2> QED  BY <1>2, <2>1
<1> DEFINE f == [i \in 1..m |-> IF i < m THEN g[i]
                               ELSE IF i = 1 THEN ss[i] ELSE g[i - 1] \o ss[i]]
<1>5. ASSUME NEW i \in 1..m
      PROVE  f[i] = IF i = 1 THEN ss[i] ELSE f[i - 1] \o ss[i]
  <2>1. CASE i < m
    <3>1. i \in 1..(m - 1) /\ (i # 1 => i - 1 \in 1..m /\ i - 1 < m)
      BY <2>1
    <3>2. g[i] = IF i = 1 THEN ss[i] ELSE g[i - 1] \o ss[i]
      BY <1>4, <3>1 DEF Flattens
    <3>3. f[i] = g[i] /\ (i # 1 => f[i - 1] = g[i - 1])
      BY <2>1, <3>1
    <3> QED  BY <3>2, <3>3
  <2>2. CASE i = m
    <3>1. i # 1 => i - 1 \in 1..m /\ i - 1 < m
      BY <2>2
    <3>2. i # 1 => f[i - 1] = g[i - 1]
      BY <3>1
    <3>3. f[i] = IF i = 1 THEN ss[i] ELSE g[i - 1] \o ss[i]
      BY <2>2
    <3> HIDE DEF f
    <3> QED  BY <3>2, <3>3
  <2> QED  BY <2>1, <2>2
<1>6. f = [i \in 1..m |-> IF i = 1 THEN ss[i] ELSE f[i - 1] \o ss[i]]
  <2> DEFINE h == [i \in 1..m |-> IF i = 1 THEN ss[i] ELSE f[i - 1] \o ss[i]]
  <2>1. \A i \in 1..m : f[i] = h[i]
    BY <1>5
  <2>2. f = [i \in 1..m |-> f[i]] /\ h = [i \in 1..m |-> h[i]]
    OBVIOUS
  <2> HIDE DEF f, h
  <2>3. f = h
    BY <2>1, <2>2
  <2> QED  BY <2>3 DEF h
<1> HIDE DEF f
<1>7. Flattens(f, ss, m)
  BY <1>6 DEF Flattens
<1> QED  BY <1>7

LEMMA FlatteningIs ==
  ASSUME NEW S, NEW ss \in Seq(S), Len(ss) # 0
  PROVE  \E f : Flattens(f, ss, Len(ss)) /\ FlattenSeq(ss) = f[Len(ss)]
<1> DEFINE n == Len(ss)
<1>1. n \in Nat
  OBVIOUS
<1>2. PICK f : f = (CHOOSE h : Flattens(h, ss, n)) /\ FlattenSeq(ss) = f[n]
  BY DEF FlattenSeq, Flattens
<1>3. Flattens(f, ss, n)
  BY <1>1, <1>2, FlatteningExists
<1> QED  BY <1>2, <1>3

AgreeUpTo(f, g, n) == \A k \in 1..n : f[k] = g[k]

\* What is flattened of the first of them does not depend on the rest.
LEMMA FlatteningAgrees ==
  ASSUME NEW f, NEW g, NEW ss, NEW tt, NEW n \in Nat, NEW m \in Nat, n <= m,
         Flattens(f, ss, n), Flattens(g, tt, m), AgreeUpTo(ss, tt, n)
  PROVE  AgreeUpTo(f, g, n)
<1> USE DEF AgreeUpTo
<1> DEFINE Bad == {k \in 1..n : f[k] # g[k]}
<1>1. SUFFICES ASSUME Bad # {} PROVE FALSE
  OBVIOUS
<1>2. PICK k \in Bad : \A j \in Bad : k <= j
  <2>1. Bad \subseteq Nat
    OBVIOUS
  <2> QED  BY <1>1, <2>1, LeastOf
<1>3. /\ f[k] = IF k = 1 THEN ss[k] ELSE f[k - 1] \o ss[k]
      /\ g[k] = IF k = 1 THEN tt[k] ELSE g[k - 1] \o tt[k]
  <2>1. k \in 1..n /\ k \in 1..m
    OBVIOUS
  <2>2. f[k] = IF k = 1 THEN ss[k] ELSE f[k - 1] \o ss[k]
    BY <2>1, Zenon DEF Flattens
  <2>3. g[k] = IF k = 1 THEN tt[k] ELSE g[k - 1] \o tt[k]
    BY <2>1, Zenon DEF Flattens
  <2> QED  BY <2>2, <2>3
<1>4. k # 1 => f[k - 1] = g[k - 1]
  <2>1. k # 1 => k - 1 \in 1..n /\ ~(k <= k - 1)
    OBVIOUS
  <2> QED  BY <1>2, <2>1
<1> QED  BY <1>3, <1>4

LEMMA FlattenAppends ==
  ASSUME NEW S, NEW ss \in Seq(Seq(S)), NEW x \in Seq(S)
  PROVE  FlattenSeq(Append(ss, x)) = FlattenSeq(ss) \o x
<1> DEFINE n == Len(ss)
           tt == Append(ss, x)
<1>1. /\ n \in Nat /\ tt \in Seq(Seq(S)) /\ Len(tt) = n + 1
      /\ (\A k \in 1..n : tt[k] = ss[k]) /\ tt[n + 1] = x
  BY AppendProperties
<1>2. PICK g : Flattens(g, tt, n + 1) /\ FlattenSeq(tt) = g[n + 1]
  <2> HIDE DEF tt, n
  <2>1. Len(tt) # 0
    BY <1>1
  <2> QED  BY <1>1, <2>1, FlatteningIs
<1>3. g[n + 1] = IF n + 1 = 1 THEN tt[n + 1] ELSE g[(n + 1) - 1] \o tt[n + 1]
  <2>1. n + 1 \in 1..(n + 1)
    BY <1>1
  <2> HIDE DEF tt, n
  <2> QED  BY <1>2, <2>1, Zenon DEF Flattens
<1>4. CASE n = 0
  <2>1. ss = <<>>
    BY <1>4
  <2>2. FlattenSeq(ss) = <<>>
    BY <2>1 DEF FlattenSeq
  <2>3. g[n + 1] = x
    BY <1>1, <1>3, <1>4
  <2>4. <<>> \o x = x
    OBVIOUS
  <2> QED  BY <1>2, <2>2, <2>3, <2>4
<1>5. CASE n # 0
  <2>1. PICK f : Flattens(f, ss, n) /\ FlattenSeq(ss) = f[n]
    BY <1>5, FlatteningIs
  <2> HIDE DEF tt, n
  <2>2. AgreeUpTo(f, g, n)
    <3>1. n <= n + 1 /\ n + 1 \in Nat /\ AgreeUpTo(ss, tt, n)
      BY <1>1 DEF AgreeUpTo
    <3> QED  BY <1>1, <1>2, <2>1, <3>1, FlatteningAgrees
  <2> HIDE DEF tt, n
  <2>9. (n + 1) - 1 = n /\ n + 1 # 1 /\ n \in 1..n
    BY <1>1, <1>5
  <2>3. g[n + 1] = g[n] \o x /\ n \in 1..n
    BY <1>1, <1>3, <2>9
  <2>4. FlattenSeq(tt) = FlattenSeq(ss) \o x
    BY <1>2, <2>1, <2>2, <2>3 DEF AgreeUpTo
  <2> QED  BY <2>4 DEF tt
<1> QED  BY <1>4, <1>5

JoinsTo(s, t, u) == (s \o t) \o u = s \o (t \o u)

LEMMA Joined ==
  ASSUME NEW S, NEW s \in Seq(S), NEW t \in Seq(S), NEW u \in Seq(S)
  PROVE  JoinsTo(s, t, u)
<1> DEFINE a == s \o t
           b == t \o u
           k == Len(s)
           m == Len(t)
           n == Len(u)
<1>1. k \in Nat /\ m \in Nat /\ n \in Nat
  OBVIOUS
<1>2. a \in Seq(S) /\ Len(a) = k + m /\ \A i \in 1..(k + m) : a[i] = IF i <= k THEN s[i] ELSE t[i - k]
  BY ConcatProperties
<1>3. b \in Seq(S) /\ Len(b) = m + n /\ \A i \in 1..(m + n) : b[i] = IF i <= m THEN t[i] ELSE u[i - m]
  BY ConcatProperties
<1> HIDE DEF a, b, k, m, n
<1> DEFINE c == a \o u
           d == s \o b
<1>4. /\ c \in Seq(S) /\ Len(c) = (k + m) + n
      /\ \A i \in 1..((k + m) + n) : c[i] = IF i <= k + m THEN a[i] ELSE u[i - (k + m)]
  BY <1>2, ConcatProperties DEF n
<1>5. /\ d \in Seq(S) /\ Len(d) = k + (m + n)
      /\ \A i \in 1..(k + (m + n)) : d[i] = IF i <= k THEN s[i] ELSE b[i - k]
  BY <1>3, ConcatProperties DEF k
<1> HIDE DEF c, d
<1>6. ASSUME NEW i \in 1..((k + m) + n)
      PROVE  c[i] = d[i]
  <2>1. i \in 1..(k + (m + n)) /\ (i <= k + m => i \in 1..(k + m)) /\ (~(i <= k) => i - k \in 1..(m + n))
    BY <1>1
  <2>2. /\ i <= k => i <= k + m
        /\ i - k <= m <=> i <= k + m
        /\ (i - k) - m = i - (k + m)
    BY <1>1
  <2> QED  BY <1>2, <1>3, <1>4, <1>5, <2>1, <2>2
<1>7. Len(c) = Len(d) /\ \A i \in 1..Len(c) : c[i] = d[i]
  <2>1. (k + m) + n = k + (m + n)
    BY <1>1
  <2> QED  BY <1>4, <1>5, <1>6, <2>1
<1>8. c = d
  BY <1>4, <1>5, <1>7, SeqEqual
<1> QED  BY <1>8 DEF JoinsTo, a, b, c, d

\* Cuts of two sequences put together.
LEMMA CutOfBoth ==
  ASSUME NEW S, NEW s \in Seq(S), NEW t \in Seq(S)
  PROVE  /\ \A k \in 1..(Len(s) + 1) : SubSeq(s \o t, k, Len(s \o t)) = SubSeq(s, k, Len(s)) \o t
         /\ \A k \in 1..(Len(t) + 1) : SubSeq(s \o t, Len(s) + k, Len(s \o t)) = SubSeq(t, k, Len(t))
         /\ \A k \in 0..Len(t) : SubSeq(s \o t, 1, Len(s) + k) = s \o SubSeq(t, 1, k)
<1> DEFINE m == Len(s)
           n == Len(t)
           u == s \o t
<1>1. /\ m \in Nat /\ n \in Nat /\ u \in Seq(S) /\ Len(u) = m + n
      /\ \A i \in 1..(m + n) : u[i] = IF i <= m THEN s[i] ELSE t[i - m]
      /\ \A i \in 1..m : s[i] \in S
      /\ \A i \in 1..n : t[i] \in S
  BY ConcatProperties
<1> HIDE DEF m, n, u
<1>2. \A i \in 1..(m + n) : u[i] \in S
  BY <1>1, ElementOfSeq
<1>3. ASSUME NEW k \in 1..(m + 1)
      PROVE  SubSeq(u, k, m + n) = SubSeq(s, k, m) \o t
  <2> DEFINE a == SubSeq(u, k, m + n)
             b == SubSeq(s, k, m)
             l == (m - k) + 1
  <2>1. k \in Nat /\ l \in Nat /\ l = (m - k) + 1 /\ 1 <= k
    BY <1>1
  <2>2. /\ a \in Seq(S) /\ Len(a) = l + n /\ \A i \in 1..(l + n) : a[i] = u[(k + i) - 1]
    <3>1. \A i \in k..(m + n) : u[i] \in S
      BY <1>1, <1>2
    <3>2. /\ a \in Seq(S) /\ Len(a) = IF k <= m + n THEN ((m + n) - k) + 1 ELSE 0
          /\ \A i \in 1..(((m + n) - k) + 1) : a[i] = u[(k + i) - 1]
      BY <1>1, <2>1, <3>1, SubSeqProperties
    <3> HIDE DEF a, l
    <3>3. ((m + n) - k) + 1 = l + n /\ (~(k <= m + n) => l + n = 0)
      BY <1>1, <2>1
    <3> QED  BY <3>2, <3>3
  <2>3. /\ b \in Seq(S) /\ Len(b) = l /\ \A i \in 1..l : b[i] = s[(k + i) - 1]
    <3>1. \A i \in k..m : s[i] \in S
      BY <1>1, <2>1
    <3>2. /\ b \in Seq(S) /\ Len(b) = IF k <= m THEN (m - k) + 1 ELSE 0
          /\ \A i \in 1..((m - k) + 1) : b[i] = s[(k + i) - 1]
      BY <1>1, <2>1, <3>1, SubSeqProperties
    <3>3. ~(k <= m) => l = 0
      BY <1>1, <2>1
    <3> QED  BY <3>2, <3>3
  <2> HIDE DEF a, b, l
  <2>4. /\ b \o t \in Seq(S) /\ Len(b \o t) = l + n
        /\ \A i \in 1..(l + n) : (b \o t)[i] = IF i <= l THEN b[i] ELSE t[i - l]
    BY <2>3, ConcatProperties DEF n
  <2>5. \A i \in 1..Len(a) : a[i] = (b \o t)[i]
    <3> TAKE i \in 1..Len(a)
    <3>0. m \in Nat /\ n \in Nat /\ k \in Nat /\ l \in Nat /\ l = (m - k) + 1 /\ i \in 1..(l + n)
      BY <1>1, <2>1, <2>2
    <3>1. i \in Nat /\ 1 <= i /\ i <= l + n
      BY <3>0
    <3>2. (k + i) - 1 \in 1..(m + n)
      BY <3>0, <3>1
    <3>3. (k + i) - 1 <= m <=> i <= l
      BY <3>0, <3>1
    <3>4. ((k + i) - 1) - m = i - l
      BY <3>0, <3>1
    <3>5. i <= l => i \in 1..l
      BY <3>0, <3>1
    <3> QED  BY <1>1, <2>2, <2>3, <2>4, <3>0, <3>2, <3>3, <3>4, <3>5
  <2>6. a = b \o t
    BY <2>2, <2>4, <2>5, SeqEqual
  <2> QED  BY <2>6 DEF a, b
<1>4. ASSUME NEW k \in 1..(n + 1)
      PROVE  SubSeq(u, m + k, m + n) = SubSeq(t, k, n)
  <2> DEFINE a == SubSeq(u, m + k, m + n)
             b == SubSeq(t, k, n)
             l == (n - k) + 1
  <2>1. k \in Nat /\ l \in Nat /\ m + k \in Nat
    BY <1>1
  <2>2. /\ a \in Seq(S) /\ Len(a) = l /\ \A i \in 1..l : a[i] = u[((m + k) + i) - 1]
    <3> DEFINE from == m + k
               to == m + n
    <3>0. from \in Int /\ to \in Int
      BY <1>1, <2>1
    <3>1. \A i \in from..to : u[i] \in S
      BY <1>1, <1>2
    <3> HIDE DEF from, to
    <3>2. /\ SubSeq(u, from, to) \in Seq(S)
          /\ Len(SubSeq(u, from, to)) = IF from <= to THEN (to - from) + 1 ELSE 0
          /\ \A i \in 1..((to - from) + 1) : SubSeq(u, from, to)[i] = u[(from + i) - 1]
      BY <3>0, <3>1, SubSeqProperties
    <3> HIDE DEF a, l
    <3>4. a = SubSeq(u, from, to)
      BY DEF a, from, to
    <3>5. to - from = n - k /\ l = (n - k) + 1 /\ (~(from <= to) => l = 0)
      BY <1>1, <2>1 DEF from, to, l
    <3> QED  BY <3>2, <3>4, <3>5 DEF from
  <2>3. /\ b \in Seq(S) /\ Len(b) = l /\ \A i \in 1..l : b[i] = t[(k + i) - 1]
    <3>1. \A i \in k..n : t[i] \in S
      BY <1>1, <2>1
    <3>2. /\ b \in Seq(S) /\ Len(b) = IF k <= n THEN (n - k) + 1 ELSE 0
          /\ \A i \in 1..((n - k) + 1) : b[i] = t[(k + i) - 1]
      BY <1>1, <2>1, <3>1, SubSeqProperties
    <3>3. ~(k <= n) => l = 0
      BY <1>1, <2>1
    <3> QED  BY <3>2, <3>3
  <2>4. \A i \in 1..l : a[i] = b[i]
    <3> TAKE i \in 1..l
    <3>0. i \in Nat /\ 1 <= i /\ i <= (n - k) + 1 /\ 1 <= k /\ k \in Nat
      BY <2>1
    <3> HIDE DEF a, b, l
    <3>1. /\ ((m + k) + i) - 1 \in 1..(m + n) /\ ~(((m + k) + i) - 1 <= m)
          /\ (((m + k) + i) - 1) - m = (k + i) - 1
      BY <1>1, <3>0
    <3> QED  BY <1>1, <2>2, <2>3, <3>1
  <2> HIDE DEF a, b, l
  <2>5. a = b
    BY <2>2, <2>3, <2>4, SeqEqual
  <2> QED  BY <2>5 DEF a, b
<1>5. ASSUME NEW k \in 0..n
      PROVE  SubSeq(u, 1, m + k) = s \o SubSeq(t, 1, k)
  <2> DEFINE a == SubSeq(u, 1, m + k)
             b == SubSeq(t, 1, k)
  <2>1. k \in Nat /\ m + k \in Nat /\ \A i \in 1..k : t[i] \in S
    BY <1>1
  <2>2. a \in Seq(S) /\ Len(a) = m + k /\ \A i \in 1..(m + k) : a[i] = u[i]
    <3>1. \A i \in 1..(m + k) : u[i] \in S
      BY <1>1, <1>2
    <3>2. /\ a \in Seq(S) /\ Len(a) = IF 1 <= m + k THEN ((m + k) - 1) + 1 ELSE 0
          /\ \A i \in 1..(((m + k) - 1) + 1) : a[i] = u[(1 + i) - 1]
      BY <2>1, <3>1, SubSeqProperties
    <3> HIDE DEF a
    <3> QED  BY <2>1, <3>2
  <2>3. b \in Seq(S) /\ Len(b) = k /\ \A i \in 1..k : b[i] = t[i]
    <3>1. /\ b \in Seq(S) /\ Len(b) = IF 1 <= k THEN (k - 1) + 1 ELSE 0
          /\ \A i \in 1..((k - 1) + 1) : b[i] = t[(1 + i) - 1]
      BY <2>1, SubSeqProperties
    <3>2. (k - 1) + 1 = k /\ (~(1 <= k) => k = 0)
      BY <2>1
    <3>3. \A i \in 1..k : (1 + i) - 1 = i
      BY <2>1
    <3> HIDE DEF b
    <3>4. Len(b) = k
      BY <3>1, <3>2
    <3>5. \A i \in 1..k : b[i] = t[i]
      BY <3>1, <3>2, <3>3
    <3> QED  BY <3>1, <3>4, <3>5
  <2> HIDE DEF a, b
  <2>4. /\ s \o b \in Seq(S) /\ Len(s \o b) = m + k
        /\ \A i \in 1..(m + k) : (s \o b)[i] = IF i <= m THEN s[i] ELSE b[i - m]
    BY <2>3, ConcatProperties DEF m
  <2>5. \A i \in 1..Len(a) : a[i] = (s \o b)[i]
    <3> TAKE i \in 1..Len(a)
    <3>1. i \in 1..(m + k) /\ i \in 1..(m + n) /\ (~(i <= m) => i - m \in 1..k)
      BY <1>1, <2>1, <2>2
    <3> QED  BY <1>1, <2>2, <2>3, <2>4, <3>1
  <2>6. a = s \o b
    BY <2>2, <2>4, <2>5, SeqEqual
  <2> QED  BY <2>6 DEF a, b
<1> QED  BY <1>1, <1>3, <1>4, <1>5 DEF m, n, u

LEMMA CutBehind ==
  ASSUME NEW S, NEW s \in Seq(S), NEW t \in Seq(S), NEW k \in 1..(Len(t) + 1)
  PROVE  SubSeq(s \o t, Len(s) + k, Len(s \o t)) = SubSeq(t, k, Len(t))
BY CutOfBoth

LEMMA StartOfBoth ==
  ASSUME NEW S, NEW s \in Seq(S), NEW t \in Seq(S), NEW k \in 0..Len(t)
  PROVE  SubSeq(s \o t, 1, Len(s) + k) = s \o SubSeq(t, 1, k)
BY CutOfBoth

LEMMA EndOfBoth ==
  ASSUME NEW S, NEW s \in Seq(S), NEW t \in Seq(S), NEW k \in 1..(Len(t) + 1)
  PROVE  SubSeq(s \o t, Len(s) + k, Len(s \o t)) = SubSeq(t, k, Len(t))
BY CutOfBoth

\* A set that has 0 and with every number the next has them all.
LEMMA AllNumbers ==
  ASSUME NEW T, 0 \in T, \A n \in Nat : n \in T => n + 1 \in T
  PROVE  \A n \in Nat : n \in T
<1> DEFINE Bad == Nat \ T
<1> SUFFICES ASSUME Bad # {} PROVE FALSE
  OBVIOUS
<1>1. PICK n \in Bad : \A m \in Bad : n <= m
  <2>1. Bad \subseteq Nat
    OBVIOUS
  <2> QED  BY <2>1, LeastOf
<1>2. n \in Nat /\ n \notin T /\ n # 0
  BY <1>1
<1>3. n - 1 \in Nat /\ ~(n <= n - 1) /\ (n - 1) + 1 = n
  BY <1>2
<1>4. n - 1 \notin Bad
  BY <1>1, <1>3
<1>5. n - 1 \in T
  BY <1>3, <1>4
<1> QED  BY <1>2, <1>3, <1>5

-----------------------------------------------------------------------------
(* Sequences, from their start on.                                           *)

LEMMA StartGrows ==
  ASSUME NEW S, NEW s \in Seq(S), NEW n \in Nat, n + 1 <= Len(s)
  PROVE  /\ SubSeq(s, 1, n) \in Seq(S) /\ Len(SubSeq(s, 1, n)) = n
         /\ s[n + 1] \in S
         /\ SubSeq(s, 1, n + 1) = Append(SubSeq(s, 1, n), s[n + 1])
<1>1. /\ n + 1 \in 1..Len(s) /\ 1 \in 1..Len(s) /\ n + 1 \in 1..Len(s) /\ (n + 1) - 1 = n
      /\ \A i \in 1..n : i \in 1..Len(s)
  OBVIOUS
<1>2. s[n + 1] \in S /\ \A i \in 1..n : s[i] \in S
  BY <1>1, ElementOfSeq
<1>3. SubSeq(s, 1, n) \in Seq(S) /\ Len(SubSeq(s, 1, n)) = n
  BY <1>2, SubSeqProperties
<1>4. SubSeq(s, 1, n + 1) = SubSeq(s, 1, n) \o <<s[n + 1]>>
  BY <1>1, SubSeqRecursiveSecond
<1> QED  BY <1>2, <1>3, <1>4, AppendIsConcat

\* Of two sequences put together, each can be cut off again.
PutTogether(s, t) ==
  /\ SubSeq(s \o t, 1, Len(s)) = s
  /\ SubSeq(s \o t, Len(s) + 1, Len(s \o t)) = t

LEMMA CutApart ==
  ASSUME NEW S, NEW s \in Seq(S), NEW t \in Seq(S)
  PROVE  PutTogether(s, t)
<1>1. /\ 1 \in 1..(Len(t) + 1) /\ 0 \in 0..Len(t) /\ Len(s) \in Nat /\ Len(t) \in Nat
      /\ Len(s) + 0 = Len(s)
  OBVIOUS
<1>3. SubSeq(s \o t, Len(s) + 1, Len(s \o t)) = SubSeq(t, 1, Len(t))
  BY <1>1, EndOfBoth
<1>4. SubSeq(s \o t, 1, Len(s) + 0) = s \o SubSeq(t, 1, 0)
  BY <1>1, StartOfBoth
<1>5. SubSeq(t, 1, Len(t)) = t /\ SubSeq(t, 1, 0) = <<>> /\ s \o <<>> = s
  BY SubSeqFull, SubSeqEmpty, ConcatEmptySeq
<1> QED  BY <1>1, <1>3, <1>4, <1>5 DEF PutTogether

HasParts(f, n) == f = [i \in 1..n |-> f[i]]

\* One part more is put at the end.
PartAdded(S, n, f, g) ==
  /\ HasParts(f, n) /\ HasParts(g, n + 1) /\ g[n + 1] \in Seq(S)
  /\ \A i \in 1..n : f[i] \in Seq(S) /\ g[i] = f[i]

FlattensTo(g, f, n) == FlattenSeq(g) = FlattenSeq(f) \o g[n + 1]

LEMMA OnePartMore ==
  ASSUME NEW S, NEW n \in Nat, NEW f, NEW g, PartAdded(S, n, f, g)
  PROVE  FlattensTo(g, f, n)
<1> DEFINE P == Seq(S)
           x == g[n + 1]
<1>1. /\ HasParts(f, n) /\ HasParts(g, n + 1) /\ x \in P
      /\ \A i \in 1..n : f[i] \in P /\ g[i] = f[i]
  BY DEF PartAdded
<1> HIDE DEF P
<1>2. f \in Seq(P) /\ Len(f) = n
  <2>1. f \in [1..n -> P]
    <3>1. f = [i \in 1..n |-> f[i]]
      BY <1>1 DEF HasParts
    <3> QED  BY <1>1, <3>1
  <2> QED  BY <2>1
<1>3. g \in Seq(P) /\ Len(g) = n + 1
  <2>1. \A i \in 1..(n + 1) : g[i] \in P
    <3> TAKE i \in 1..(n + 1)
    <3>1. i \in 1..n \/ i = n + 1
      OBVIOUS
    <3> QED  BY <1>1, <3>1
  <2>2. g \in [1..(n + 1) -> P]
    <3>1. g = [i \in 1..(n + 1) |-> g[i]]
      BY <1>1 DEF HasParts
    <3> QED  BY <2>1, <3>1
  <2> QED  BY <2>2
<1> HIDE DEF x
<1>4. Append(f, x) \in Seq(P) /\ Len(Append(f, x)) = n + 1
      /\ (\A i \in 1..n : Append(f, x)[i] = f[i]) /\ Append(f, x)[n + 1] = x
  BY <1>1, <1>2, AppendProperties
<1> DEFINE h == Append(f, x)
<1> HIDE DEF h
<1>5. \A i \in 1..(n + 1) : g[i] = h[i]
  <2> TAKE i \in 1..(n + 1)
  <2>1. i \in 1..n \/ i = n + 1
    OBVIOUS
  <2> QED  BY <1>1, <1>4, <2>1 DEF h, x
<1>6. g = h
  BY <1>3, <1>4, <1>5, SeqEqual DEF h
<1>7. FlattenSeq(Append(f, x)) = FlattenSeq(f) \o x
  BY <1>1, <1>2, FlattenAppends DEF P
<1> QED  BY <1>6, <1>7 DEF h, x, FlattensTo

LEMMA FlattenOfNone == FlattenSeq(<<>>) = <<>>
BY DEF FlattenSeq

-----------------------------------------------------------------------------
(* The words of a text.                                                      *)

WordOf(x) == IF x \in Whitespace \cup {Newline} THEN <<>> ELSE <<x>>

LEMMA WordOfIs ==
  ASSUME NEW S, NEW x \in S
  PROVE  WordOf(x) \in Seq(S)
BY DEF WordOf

LEMMA WordsOfNone == Words(<<>>) = <<>>
<1>1. [i \in DOMAIN <<>> |-> WordOf(<<>>[i])] = <<>>
  OBVIOUS
<1> QED  BY <1>1, FlattenOfNone DEF Words, WordOf

LEMMA WordsGrow ==
  ASSUME NEW S, NEW t \in Seq(S), NEW x \in S
  PROVE  Words(Append(t, x)) = Words(t) \o WordOf(x)
<1> DEFINE n == Len(t)
           a == Append(t, x)
           f == [i \in DOMAIN t |-> WordOf(t[i])]
           g == [i \in DOMAIN a |-> WordOf(a[i])]
<1>1. /\ n \in Nat /\ a \in Seq(S) /\ Len(a) = n + 1
      /\ (\A i \in 1..n : a[i] = t[i]) /\ a[n + 1] = x
  BY AppendProperties
<1>2. DOMAIN t = 1..n /\ DOMAIN a = 1..(n + 1)
  <2> HIDE DEF a
  <2> QED  BY <1>1
<1>3. \A i \in 1..n : WordOf(t[i]) \in Seq(S)
  <2> TAKE i \in 1..n
  <2>1. t[i] \in S
    BY ElementOfSeq
  <2> QED  BY <2>1, WordOfIs
<1>4. WordOf(x) \in Seq(S)
  BY WordOfIs
<1> HIDE DEF a, n
<1>5. f = [i \in 1..n |-> WordOf(t[i])] /\ g = [i \in 1..(n + 1) |-> WordOf(a[i])]
  BY <1>2
<1> HIDE DEF f, g
<1>6. \A i \in 1..n : f[i] \in Seq(S) /\ g[i] = f[i]
  <2> TAKE i \in 1..n
  <2>1. i \in 1..(n + 1) /\ a[i] = t[i]
    BY <1>1
  <2>2. f[i] = WordOf(t[i]) /\ g[i] = WordOf(a[i])
    BY <1>5, <2>1
  <2> QED  BY <1>3, <2>1, <2>2
<1>7. g[n + 1] = WordOf(x)
  BY <1>1, <1>5
<1>8. HasParts(f, n) /\ HasParts(g, n + 1) /\ g[n + 1] \in Seq(S)
  BY <1>4, <1>5, <1>7 DEF HasParts
<1>9. FlattenSeq(g) = FlattenSeq(f) \o g[n + 1]
  <2>1. PartAdded(S, n, f, g)
    BY <1>6, <1>8 DEF PartAdded
  <2>2. n \in Nat
    BY <1>1
  <2>3. FlattensTo(g, f, n)
    BY <2>1, <2>2, OnePartMore
  <2> QED  BY <2>3 DEF FlattensTo
<1>10. Words(t) = FlattenSeq(f) /\ Words(a) = FlattenSeq(g)
  BY DEF Words, WordOf, f, g
<1> QED  BY <1>7, <1>9, <1>10 DEF a

LEMMA WordsAre ==
  ASSUME NEW S, NEW t \in Seq(S)
  PROVE  Words(t) \in Seq(S)
<1> DEFINE T == {n \in Nat : n <= Len(t) => Words(SubSeq(t, 1, n)) \in Seq(S)}
<1>1. 0 \in T
  <2>1. SubSeq(t, 1, 0) = <<>>
    BY SubSeqEmpty
  <2>2. <<>> \in Seq(S)
    OBVIOUS
  <2> QED  BY <2>1, <2>2, WordsOfNone
<1>2. ASSUME NEW n \in Nat, n \in T  PROVE n + 1 \in T
  <2> SUFFICES ASSUME n + 1 <= Len(t) PROVE Words(SubSeq(t, 1, n + 1)) \in Seq(S)
    OBVIOUS
  <2> DEFINE s == SubSeq(t, 1, n)
  <2>1. s \in Seq(S) /\ t[n + 1] \in S /\ SubSeq(t, 1, n + 1) = Append(s, t[n + 1])
    BY StartGrows
  <2>2. Words(s) \in Seq(S)
    BY <1>2
  <2> HIDE DEF s
  <2>3. Words(Append(s, t[n + 1])) = Words(s) \o WordOf(t[n + 1])
    BY <2>1, WordsGrow
  <2> QED  BY <2>1, <2>2, <2>3, WordOfIs, ConcatProperties
<1> HIDE DEF T
<1>3. Len(t) \in Nat /\ Len(t) \in T /\ SubSeq(t, 1, Len(t)) = t
  BY <1>1, <1>2, AllNumbers, SubSeqFull
<1>4. Len(t) <= Len(t)
  BY <1>3
<1>5. Words(SubSeq(t, 1, Len(t))) \in Seq(S)
  BY <1>3, <1>4 DEF T
<1> QED  BY <1>3, <1>5

LEMMA WordsOfBoth ==
  ASSUME NEW S, NEW s \in Seq(S), NEW t \in Seq(S)
  PROVE  Words(s \o t) = Words(s) \o Words(t)
<1> DEFINE T == {n \in Nat : n <= Len(t) =>
                   Words(s \o SubSeq(t, 1, n)) = Words(s) \o Words(SubSeq(t, 1, n))}
<1>1. 0 \in T
  <2>1. SubSeq(t, 1, 0) = <<>>
    BY SubSeqEmpty
  <2>2. Words(s) \o <<>> = Words(s) /\ s \o <<>> = s
    BY WordsAre, ConcatEmptySeq
  <2> QED  BY <2>1, <2>2, WordsOfNone
<1>2. ASSUME NEW n \in Nat, n \in T  PROVE n + 1 \in T
  <2> SUFFICES ASSUME n + 1 <= Len(t)
               PROVE  Words(s \o SubSeq(t, 1, n + 1)) = Words(s) \o Words(SubSeq(t, 1, n + 1))
    OBVIOUS
  <2> DEFINE u == SubSeq(t, 1, n)
             x == t[n + 1]
  <2>1. u \in Seq(S) /\ x \in S /\ SubSeq(t, 1, n + 1) = Append(u, x)
    BY StartGrows
  <2>2. Words(s \o u) = Words(s) \o Words(u)
    BY <1>2
  <2> HIDE DEF u, x
  <2>3. s \o Append(u, x) = Append(s \o u, x)
    <3>1. Append(u, x) = u \o <<x>>
      BY <2>1, AppendIsConcat
    <3>4. <<x>> \in Seq(S)
      BY <2>1
    <3>2. s \o u \in Seq(S)
      BY <2>1, ConcatProperties
    <3>3. Append(s \o u, x) = (s \o u) \o <<x>>
      BY <2>1, <3>2, AppendIsConcat
    <3>5. JoinsTo(s, u, <<x>>)
      BY <2>1, <3>4, Joined
    <3> QED  BY <3>1, <3>3, <3>5 DEF JoinsTo
  <2>4. Words(Append(s \o u, x)) = Words(s \o u) \o WordOf(x)
    BY <2>1, ConcatProperties, WordsGrow
  <2>5. Words(Append(u, x)) = Words(u) \o WordOf(x)
    BY <2>1, WordsGrow
  <2>6. Words(s) \in Seq(S) /\ Words(u) \in Seq(S) /\ WordOf(x) \in Seq(S)
    BY <2>1, WordsAre, WordOfIs
  <2>7. (Words(s) \o Words(u)) \o WordOf(x) = Words(s) \o (Words(u) \o WordOf(x))
    <3>1. JoinsTo(Words(s), Words(u), WordOf(x))
      BY <2>6, Joined
    <3> QED  BY <3>1 DEF JoinsTo
  <2> QED  BY <2>1, <2>2, <2>3, <2>4, <2>5, <2>7
<1> HIDE DEF T
<1>3. Len(t) \in Nat /\ Len(t) \in T /\ SubSeq(t, 1, Len(t)) = t
  BY <1>1, <1>2, AllNumbers, SubSeqFull
<1>4. Len(t) <= Len(t)
  BY <1>3
<1>5. Words(s \o SubSeq(t, 1, Len(t))) = Words(s) \o Words(SubSeq(t, 1, Len(t)))
  BY <1>3, <1>4 DEF T
<1> QED  BY <1>3, <1>5

\* Blanks are no words.
LEMMA WordsOfBlanks ==
  ASSUME NEW S, NEW t \in Seq(S), \A i \in 1..Len(t) : t[i] \in Whitespace
  PROVE  Words(t) = <<>>
<1> DEFINE T == {n \in Nat : n <= Len(t) => Words(SubSeq(t, 1, n)) = <<>>}
<1>1. 0 \in T
  <2>1. SubSeq(t, 1, 0) = <<>>
    BY SubSeqEmpty
  <2> QED  BY <2>1, WordsOfNone
<1>2. ASSUME NEW n \in Nat, n \in T  PROVE n + 1 \in T
  <2> SUFFICES ASSUME n + 1 <= Len(t) PROVE Words(SubSeq(t, 1, n + 1)) = <<>>
    OBVIOUS
  <2> DEFINE s == SubSeq(t, 1, n)
  <2>1. s \in Seq(S) /\ t[n + 1] \in S /\ SubSeq(t, 1, n + 1) = Append(s, t[n + 1])
    BY StartGrows
  <2>2. Words(s) = <<>> /\ t[n + 1] \in Whitespace
    BY <1>2
  <2> HIDE DEF s
  <2>3. Words(Append(s, t[n + 1])) = Words(s) \o WordOf(t[n + 1])
    BY <2>1, WordsGrow
  <2>4. WordOf(t[n + 1]) = <<>>
    BY <2>2 DEF WordOf
  <2>5. <<>> \o <<>> = <<>>
    OBVIOUS
  <2> QED  BY <2>1, <2>2, <2>3, <2>4, <2>5
<1> HIDE DEF T
<1>3. Len(t) \in Nat /\ Len(t) \in T /\ SubSeq(t, 1, Len(t)) = t
  BY <1>1, <1>2, AllNumbers, SubSeqFull
<1>4. Len(t) <= Len(t)
  BY <1>3
<1>5. Words(SubSeq(t, 1, Len(t))) = <<>>
  BY <1>3, <1>4 DEF T
<1> QED  BY <1>3, <1>5

-----------------------------------------------------------------------------
(* Lines put together.                                                       *)

JoinPart(ls, i) == IF i = 1 THEN ls[i] ELSE <<Newline>> \o ls[i]

LEMMA JoinOfNone == JoinLines(<<>>) = <<>>
<1>1. [i \in DOMAIN <<>> |-> JoinPart(<<>>, i)] = <<>>
  OBVIOUS
<1> QED  BY <1>1, FlattenOfNone DEF JoinLines, JoinPart

LEMMA JoinOfOne ==
  ASSUME NEW S, NEW l \in Seq(S)
  PROVE  JoinLines(<<l>>) = l
<1> DEFINE P == Seq(S)
<1>1. l \in P /\ <<>> \in Seq(P)
  OBVIOUS
<1> HIDE DEF P
<1>2. Append(<<>>, l) = <<l>>
  OBVIOUS
<1>3. FlattenSeq(Append(<<>>, l)) = FlattenSeq(<<>>) \o l
  BY <1>1, FlattenAppends DEF P
<1>4. <<>> \o l = l
  BY ConcatEmptySeq
<1>5. [i \in DOMAIN <<l>> |-> JoinPart(<<l>>, i)] = <<l>>
  BY DEF JoinPart
<1> QED  BY <1>2, <1>3, <1>4, <1>5, FlattenOfNone DEF JoinLines, JoinPart

LEMMA JoinGrows ==
  ASSUME NEW S, Newline \in S, NEW ls \in Seq(Seq(S)), ls # <<>>, NEW l \in Seq(S)
  PROVE  JoinLines(Append(ls, l)) = JoinLines(ls) \o (<<Newline>> \o l)
<1> DEFINE P == Seq(S)
           n == Len(ls)
           a == Append(ls, l)
           f == [i \in DOMAIN ls |-> JoinPart(ls, i)]
           g == [i \in DOMAIN a |-> JoinPart(a, i)]
<1>1. ls \in Seq(P) /\ l \in P
  OBVIOUS
<1> HIDE DEF P
<1>2. /\ n \in Nat /\ n # 0 /\ a \in Seq(P) /\ Len(a) = n + 1
      /\ (\A i \in 1..n : a[i] = ls[i]) /\ a[n + 1] = l
  BY <1>1, AppendProperties, EmptySeq
<1>3. DOMAIN ls = 1..n /\ DOMAIN a = 1..(n + 1)
  <2> HIDE DEF a
  <2> QED  BY <1>1, <1>2
<1>4. \A i \in 1..n : ls[i] \in P
  BY <1>1, ElementOfSeq
<1> HIDE DEF a, n
<1>5. f = [i \in 1..n |-> JoinPart(ls, i)] /\ g = [i \in 1..(n + 1) |-> JoinPart(a, i)]
  BY <1>3
<1> HIDE DEF f, g
<1>6. \A i \in 1..n : f[i] \in Seq(S) /\ g[i] = f[i]
  <2> TAKE i \in 1..n
  <2>1. i \in 1..(n + 1) /\ a[i] = ls[i]
    BY <1>2
  <2>2. f[i] = JoinPart(ls, i) /\ g[i] = JoinPart(a, i)
    BY <1>5, <2>1
  <2>3. ls[i] \in Seq(S) /\ <<Newline>> \in Seq(S)
    BY <1>4 DEF P
  <2>4. <<Newline>> \o ls[i] \in Seq(S)
    BY <2>3, ConcatProperties
  <2> QED  BY <2>1, <2>2, <2>3, <2>4 DEF JoinPart
<1>7. g[n + 1] = <<Newline>> \o l
  <2>1. n + 1 # 1 /\ n + 1 \in 1..(n + 1)
    BY <1>2
  <2>2. g[n + 1] = JoinPart(a, n + 1)
    BY <1>5, <2>1
  <2> QED  BY <1>2, <2>1, <2>2 DEF JoinPart
<1>8. HasParts(f, n) /\ HasParts(g, n + 1)
  BY <1>5 DEF HasParts
<1>9. g[n + 1] \in Seq(S)
  <2>1. <<Newline>> \in Seq(S)
    OBVIOUS
  <2> QED  BY <1>7, <2>1, ConcatProperties
<1>10. n \in Nat
  BY <1>2
<1>11. FlattenSeq(g) = FlattenSeq(f) \o g[n + 1]
  <2>1. PartAdded(S, n, f, g)
    BY <1>6, <1>8, <1>9 DEF PartAdded
  <2>2. FlattensTo(g, f, n)
    BY <1>10, <2>1, OnePartMore
  <2> QED  BY <2>2 DEF FlattensTo
<1>12. JoinLines(ls) = FlattenSeq(f) /\ JoinLines(a) = FlattenSeq(g)
  BY DEF JoinLines, JoinPart, f, g
<1> QED  BY <1>7, <1>11, <1>12 DEF a

LEMMA JoinIs ==
  ASSUME NEW S, Newline \in S, NEW ls \in Seq(Seq(S))
  PROVE  JoinLines(ls) \in Seq(S)
<1> DEFINE P == Seq(S)
           T == {n \in Nat : n <= Len(ls) => JoinLines(SubSeq(ls, 1, n)) \in P}
<1>0. ls \in Seq(P)
  OBVIOUS
<1>1. 0 \in T
  <2>1. SubSeq(ls, 1, 0) = <<>> /\ <<>> \in P
    BY SubSeqEmpty
  <2> QED  BY <2>1, JoinOfNone
<1>2. ASSUME NEW n \in Nat, n \in T  PROVE n + 1 \in T
  <2> SUFFICES ASSUME n + 1 <= Len(ls) PROVE JoinLines(SubSeq(ls, 1, n + 1)) \in P
    OBVIOUS
  <2> DEFINE s == SubSeq(ls, 1, n)
             l == ls[n + 1]
  <2> HIDE DEF P
  <2>1. s \in Seq(P) /\ l \in P /\ SubSeq(ls, 1, n + 1) = Append(s, l)
    BY <1>0, StartGrows
  <2>2. JoinLines(s) \in P
    BY <1>2
  <2> HIDE DEF s, l
  <2>3. CASE s = <<>>
    <3>1. Append(s, l) = <<l>>
      BY <2>3
    <3> QED  BY <2>1, <3>1, JoinOfOne DEF P
  <2>4. CASE s # <<>>
    <3>1. JoinLines(Append(s, l)) = JoinLines(s) \o (<<Newline>> \o l)
      BY <2>1, <2>4, JoinGrows DEF P
    <3>2. <<Newline>> \in P
      BY DEF P
    <3>3. <<Newline>> \o l \in P
      BY <2>1, <3>2, ConcatProperties DEF P
    <3>4. JoinLines(s) \o (<<Newline>> \o l) \in P
      BY <2>2, <3>3, ConcatProperties DEF P
    <3> QED  BY <2>1, <3>1, <3>4
  <2> QED  BY <2>3, <2>4
<1> HIDE DEF T, P
<1>3. Len(ls) \in Nat /\ Len(ls) \in T /\ SubSeq(ls, 1, Len(ls)) = ls
  <2>1. \A n \in Nat : n \in T
    BY <1>1, <1>2, AllNumbers
  <2>2. Len(ls) \in Nat /\ SubSeq(ls, 1, Len(ls)) = ls
    BY <1>0, SubSeqFull
  <2> QED  BY <2>1, <2>2
<1>4. Len(ls) <= Len(ls)
  BY <1>3
<1>5. JoinLines(SubSeq(ls, 1, Len(ls))) \in P
  BY <1>3, <1>4 DEF T
<1> QED  BY <1>3, <1>5 DEF P

\* Two texts of lines, with a newline between them.
Adjoined(a, b) == JoinLines(a \o b) = JoinLines(a) \o (<<Newline>> \o JoinLines(b))

LEMMA JoinOfBoth ==
  ASSUME NEW S, Newline \in S, NEW a \in Seq(Seq(S)), NEW b \in Seq(Seq(S)), a # <<>>, b # <<>>
  PROVE  Adjoined(a, b)
<1> DEFINE P == Seq(S)
           N == <<Newline>>
           T == {n \in Nat : n + 1 <= Len(b) => Adjoined(a, SubSeq(b, 1, n + 1))}
<1>0. a \in Seq(P) /\ b \in Seq(P) /\ N \in P
  OBVIOUS
<1> HIDE DEF P, N
<1>1. 0 \in T
  <2> SUFFICES ASSUME 0 + 1 <= Len(b) PROVE Adjoined(a, SubSeq(b, 1, 0 + 1))
    OBVIOUS
  <2> DEFINE l == b[0 + 1]
  <2>1. l \in P /\ SubSeq(b, 1, 0 + 1) = Append(SubSeq(b, 1, 0), l)
    BY <1>0, StartGrows
  <2>2. SubSeq(b, 1, 0) = <<>>
    BY SubSeqEmpty
  <2> HIDE DEF l
  <2>3. Append(<<>>, l) = <<l>> /\ a \o <<l>> = Append(a, l)
    BY <1>0, <2>1, AppendIsConcat
  <2>4. JoinLines(Append(a, l)) = JoinLines(a) \o (N \o l)
    BY <1>0, <2>1, JoinGrows DEF P, N
  <2>5. JoinLines(<<l>>) = l
    BY <2>1, JoinOfOne DEF P
  <2>6. Adjoined(a, <<l>>)
    BY <2>3, <2>4, <2>5 DEF Adjoined, N
  <2> QED  BY <2>1, <2>2, <2>3, <2>6
<1>2. ASSUME NEW n \in Nat, n \in T  PROVE n + 1 \in T
  <2> SUFFICES ASSUME (n + 1) + 1 <= Len(b) PROVE Adjoined(a, SubSeq(b, 1, (n + 1) + 1))
    OBVIOUS
  <2> DEFINE s == SubSeq(b, 1, n + 1)
             l == b[(n + 1) + 1]
  <2>1. s \in Seq(P) /\ l \in P /\ SubSeq(b, 1, (n + 1) + 1) = Append(s, l) /\ Len(s) = n + 1
    BY <1>0, StartGrows
  <2>2. Adjoined(a, s)
    <3>1. n + 1 <= Len(b)
      BY <1>0
    <3> QED  BY <1>2, <3>1
  <2> HIDE DEF s, l
  <2>3. s # <<>> /\ a \o s # <<>> /\ a \o s \in Seq(P)
    <3>1. s # <<>>
      BY <2>1
    <3> QED  BY <1>0, <2>1, <3>1, ConcatProperties, ConcatEqualIffEmpty
  <2>4. a \o Append(s, l) = Append(a \o s, l)
    <3> DEFINE L == <<l>>
    <3>1. L \in Seq(P)
      BY <2>1
    <3>2. Append(s, l) = s \o L
      BY <2>1, AppendIsConcat
    <3>3. Append(a \o s, l) = (a \o s) \o L
      BY <2>1, <2>3, AppendIsConcat
    <3> HIDE DEF L
    <3>4. JoinsTo(a, s, L)
      BY <1>0, <2>1, <3>1, Joined
    <3> QED  BY <3>2, <3>3, <3>4 DEF JoinsTo
  <2>5. JoinLines(Append(a \o s, l)) = JoinLines(a \o s) \o (N \o l)
    BY <2>1, <2>3, JoinGrows DEF P, N
  <2>6. JoinLines(Append(s, l)) = JoinLines(s) \o (N \o l)
    BY <2>1, <2>3, JoinGrows DEF P, N
  <2> DEFINE x == JoinLines(a)
             y == JoinLines(s)
  <2>7. x \in P /\ y \in P
    BY <1>0, <2>1, JoinIs DEF P
  <2> HIDE DEF x, y
  <2>8. N \o l \in P /\ N \o y \in P
    BY <1>0, <2>1, <2>7, ConcatProperties DEF P
  <2>9. (x \o (N \o y)) \o (N \o l) = x \o (N \o (y \o (N \o l)))
    <3>1. JoinsTo(x, N \o y, N \o l) /\ JoinsTo(N, y, N \o l)
      BY <1>0, <2>7, <2>8, Joined DEF P
    <3> QED  BY <3>1 DEF JoinsTo
  <2>10. Adjoined(a, Append(s, l))
    BY <2>2, <2>4, <2>5, <2>6, <2>9 DEF Adjoined, x, y, N
  <2> QED  BY <2>1, <2>10
<1> HIDE DEF T
<1>3. Len(b) - 1 \in Nat /\ Len(b) - 1 \in T /\ SubSeq(b, 1, Len(b)) = b /\ (Len(b) - 1) + 1 = Len(b)
  <2>1. Len(b) \in Nat \ {0}
    BY <1>0, EmptySeq
  <2>2. SubSeq(b, 1, Len(b)) = b
    BY <1>0, SubSeqFull
  <2>3. \A n \in Nat : n \in T
    BY <1>1, <1>2, AllNumbers
  <2> QED  BY <2>1, <2>2, <2>3
<1>4. (Len(b) - 1) + 1 <= Len(b)
  BY <1>3
<1>5. Adjoined(a, SubSeq(b, 1, (Len(b) - 1) + 1))
  BY <1>3, <1>4 DEF T
<1> QED  BY <1>3, <1>5

-----------------------------------------------------------------------------
(* A sequence cut at its separators.                                         *)

\* The parts after one element more.
CutOn(ps, x, separators) ==
  IF x \in separators THEN Append(ps, <<>>)
  ELSE [ps EXCEPT ![Len(ps)] = Append(@, x)]

Splits(f, s, separators, n) ==
  f = [i \in 0..n |-> IF i = 0 THEN << <<>> >> ELSE CutOn(f[i - 1], s[i], separators)]

LEMMA SplitExists ==
  ASSUME NEW s, NEW separators, NEW n \in Nat
  PROVE  \E f : Splits(f, s, separators, n)
<1> DEFINE T == {m \in Nat : \E f : Splits(f, s, separators, m)}
<1>1. 0 \in T
  <2>1. Splits([i \in 0..0 |-> << <<>> >>], s, separators, 0)
    BY DEF Splits
  <2> QED  BY <2>1
<1>2. ASSUME NEW m \in Nat, m \in T
      PROVE  m + 1 \in T
  <2>1. PICK f : Splits(f, s, separators, m)
    BY <1>2
  <2> DEFINE g == [i \in 0..(m + 1) |->
                     IF i = m + 1 THEN CutOn(f[m], s[m + 1], separators) ELSE f[i]]
  <2>2. \A i \in 0..(m + 1) :
          g[i] = IF i = 0 THEN << <<>> >> ELSE CutOn(g[i - 1], s[i], separators)
    <3> TAKE i \in 0..(m + 1)
    <3>1. CASE i = 0
      <4>1. 0 \in 0..m /\ 0 # m + 1 /\ 0 \in 0..(m + 1)
        OBVIOUS
      <4> QED  BY <2>1, <3>1, <4>1 DEF Splits
    <3>2. CASE i = m + 1
      <4>1. i - 1 = m /\ m \in 0..(m + 1) /\ m # m + 1 /\ i # 0
        BY <3>2
      <4> QED  BY <3>2, <4>1
    <3>3. CASE i # 0 /\ i # m + 1
      <4>1. i \in 0..m /\ i - 1 \in 0..(m + 1) /\ i - 1 # m + 1
        BY <3>3
      <4>2. f[i] = CutOn(f[i - 1], s[i], separators)
        BY <2>1, <3>3, <4>1 DEF Splits
      <4> QED  BY <3>3, <4>1, <4>2
    <3> QED  BY <3>1, <3>2, <3>3
  <2>3. g = [i \in 0..(m + 1) |-> g[i]]
    OBVIOUS
  <2> HIDE DEF g
  <2>4. Splits(g, s, separators, m + 1)
    BY <2>2, <2>3 DEF Splits
  <2> QED  BY <2>4
<1> HIDE DEF T
<1>3. \A m \in Nat : m \in T
  BY <1>1, <1>2, AllNumbers
<1> QED  BY <1>3 DEF T

LEMMA SplitIs ==
  ASSUME NEW s, NEW separators, Len(s) \in Nat
  PROVE  \E f : Splits(f, s, separators, Len(s)) /\ Split(s, separators) = f[Len(s)]
<1>1. PICK f : f = (CHOOSE h : Splits(h, s, separators, Len(s)))
               /\ Split(s, separators) = f[Len(s)]
  BY DEF Split, Splits, CutOn
<1>2. Splits(f, s, separators, Len(s))
  BY <1>1, SplitExists
<1> QED  BY <1>1, <1>2

\* An element that separates nothing is put to the last part.
LastGrows(P, ps, x, separators) ==
  \E init \in Seq(P), l \in P :
    ps = Append(init, l) /\ CutOn(ps, x, separators) = Append(init, Append(l, x))

LEMMA LastPartGrows ==
  ASSUME NEW S, NEW ps \in Seq(Seq(S)), ps # <<>>, NEW x \in S, NEW separators,
         x \notin separators
  PROVE  LastGrows(Seq(S), ps, x, separators)
<1> DEFINE P == Seq(S)
<1>0. ps \in Seq(P)
  OBVIOUS
<1> HIDE DEF P
<1>1. PICK init \in Seq(P), l \in P : ps = Append(init, l)
  BY <1>0, SequenceEmptyOrAppend
<1>2. Append(l, x) \in P
  BY <1>1, AppendProperties DEF P
<1> DEFINE m == Append(l, x)
           n == Len(init)
           a == Append(init, m)
           e == [ps EXCEPT ![Len(ps)] = m]
<1> HIDE DEF m
<1>3. /\ n \in Nat /\ Len(ps) = n + 1
      /\ (\A i \in 1..n : ps[i] = init[i]) /\ ps[n + 1] = l
  BY <1>1, AppendProperties
<1>4. /\ a \in Seq(P) /\ Len(a) = n + 1
      /\ (\A i \in 1..n : a[i] = init[i]) /\ a[n + 1] = m
  BY <1>1, <1>2, AppendProperties DEF m
<1>5. /\ e \in Seq(P) /\ Len(e) = n + 1
      /\ \A i \in 1..(n + 1) : e[i] = IF i = n + 1 THEN m ELSE ps[i]
  <2>1. Len(ps) \in 1..Len(ps)
    BY <1>3
  <2>2. m \in P
    BY <1>2 DEF m
  <2>3. /\ e \in Seq(P) /\ Len(e) = Len(ps)
        /\ \A i \in 1..Len(ps) : e[i] = IF i = Len(ps) THEN m ELSE ps[i]
    BY <1>0, <2>1, <2>2, ExceptSeq
  <2> HIDE DEF e
  <2> QED  BY <1>3, <2>3
<1>6. CutOn(ps, x, separators) = e
  <2>1. ps[Len(ps)] = l
    BY <1>3
  <2>2. CutOn(ps, x, separators) = [ps EXCEPT ![Len(ps)] = Append(ps[Len(ps)], x)]
    BY DEF CutOn
  <2> QED  BY <2>1, <2>2 DEF m
<1> HIDE DEF a, e, n
<1>7. e = a
  <2>1. \A i \in 1..(n + 1) : e[i] = a[i]
    <3> TAKE i \in 1..(n + 1)
    <3>1. i \in 1..n \/ i = n + 1
      BY <1>3
    <3> QED  BY <1>3, <1>4, <1>5, <3>1
  <2> QED  BY <1>4, <1>5, <2>1, SeqEqual
<1>8. LastGrows(P, ps, x, separators)
  BY <1>1, <1>6, <1>7 DEF a, m, LastGrows
<1> QED  BY <1>8 DEF P

\* The parts of what was read so far, which is one part as long as nothing separated.
PartsOf(ps, S, u) == ps \in Seq(Seq(S)) /\ ps # <<>> /\ (Len(ps) = 1 => ps = <<u>>)

LEMMA PartsGrow ==
  ASSUME NEW S, NEW ps, NEW u \in Seq(S), PartsOf(ps, S, u), NEW x \in S, NEW separators
  PROVE  PartsOf(CutOn(ps, x, separators), S, Append(u, x))
<1> DEFINE P == Seq(S)
<1>0. ps \in Seq(P) /\ ps # <<>> /\ (Len(ps) = 1 => ps = <<u>>)
  BY DEF PartsOf
<1> HIDE DEF P
<1>1. CASE x \in separators
  <2> DEFINE a == Append(ps, <<>>)
  <2>1. <<>> \in P
    BY DEF P
  <2>2. a \in Seq(P) /\ a # <<>> /\ Len(a) = Len(ps) + 1
    BY <1>0, <2>1, AppendProperties
  <2>3. Len(ps) \in Nat \ {0}
    BY <1>0, EmptySeq
  <2>4. CutOn(ps, x, separators) = a
    BY <1>1 DEF CutOn
  <2> HIDE DEF a
  <2>5. a \in Seq(P) /\ a # <<>> /\ Len(a) # 1
    BY <2>2, <2>3
  <2>6. PartsOf(a, S, Append(u, x))
    BY <2>5 DEF PartsOf, P
  <2> QED  BY <2>4, <2>6
<1>2. CASE x \notin separators
  <2>1. PICK init \in Seq(P), l \in P :
          ps = Append(init, l) /\ CutOn(ps, x, separators) = Append(init, Append(l, x))
    <3>1. ps \in Seq(Seq(S)) /\ ps # <<>> /\ x \in S /\ x \notin separators
      BY <1>0, <1>2 DEF P
    <3>2. LastGrows(Seq(S), ps, x, separators)
      BY <3>1, LastPartGrows
    <3>3. LastGrows(P, ps, x, separators)
      BY <3>2 DEF P
    <3> QED  BY <3>3 DEF LastGrows
  <2> DEFINE m == Append(l, x)
  <2>2. m \in P
    BY <2>1, AppendProperties DEF P
  <2> HIDE DEF m
  <2>3. /\ Append(init, m) \in Seq(P) /\ Append(init, m) # <<>>
        /\ Len(Append(init, m)) = Len(init) + 1 /\ Len(ps) = Len(init) + 1
    BY <2>1, <2>2, AppendProperties
  <2>4. ASSUME Len(Append(init, m)) = 1
        PROVE  Append(init, m) = <<Append(u, x)>>
    <3>1. Len(init) = 0 /\ Len(ps) = 1
      BY <2>1, <2>3, <2>4
    <3>2. init = <<>>
      BY <2>1, <3>1, EmptySeq
    <3>3. ps = <<l>> /\ ps = <<u>>
      BY <1>0, <2>1, <3>1, <3>2
    <3>4. l = u
      BY <3>3
    <3> QED  BY <3>2, <3>4 DEF m
  <2> QED  BY <2>1, <2>3, <2>4 DEF PartsOf, P, m
<1> QED  BY <1>1, <1>2

LEMMA SplitParts ==
  ASSUME NEW S, NEW s \in Seq(S), NEW separators
  PROVE  PartsOf(Split(s, separators), S, s)
<1> DEFINE N == Len(s)
<1>0. N \in Nat
  OBVIOUS
<1>1. PICK f : Splits(f, s, separators, N) /\ Split(s, separators) = f[N]
  BY <1>0, SplitIs
<1> DEFINE T == {n \in Nat : n <= N => PartsOf(f[n], S, SubSeq(s, 1, n))}
<1>2. 0 \in T
  <2>1. 0 \in 0..N
    BY <1>0
  <2>2. f[0] = << <<>> >>
    BY <1>1, <2>1, Zenon DEF Splits
  <2>3. SubSeq(s, 1, 0) = <<>>
    BY SubSeqEmpty
  <2>4. PartsOf(<< <<>> >>, S, <<>>)
    BY DEF PartsOf
  <2> QED  BY <2>2, <2>3, <2>4
<1>3. ASSUME NEW n \in Nat, n \in T
      PROVE  n + 1 \in T
  <2> SUFFICES ASSUME n + 1 <= N PROVE PartsOf(f[n + 1], S, SubSeq(s, 1, n + 1))
    OBVIOUS
  <2>1. n + 1 \in 0..N /\ n + 1 # 0 /\ (n + 1) - 1 = n /\ n <= N
    BY <1>0
  <2>2. f[n + 1] = CutOn(f[(n + 1) - 1], s[n + 1], separators)
    BY <1>1, <2>1, Zenon DEF Splits
  <2>3. PartsOf(f[n], S, SubSeq(s, 1, n))
    BY <1>3, <2>1
  <2>4. /\ SubSeq(s, 1, n) \in Seq(S) /\ s[n + 1] \in S
        /\ SubSeq(s, 1, n + 1) = Append(SubSeq(s, 1, n), s[n + 1])
    BY StartGrows
  <2> HIDE DEF N
  <2>5. PartsOf(CutOn(f[n], s[n + 1], separators), S, Append(SubSeq(s, 1, n), s[n + 1]))
    BY <2>3, <2>4, PartsGrow
  <2> QED  BY <2>1, <2>2, <2>4, <2>5
<1> HIDE DEF T
<1>4. N \in T /\ SubSeq(s, 1, N) = s
  BY <1>0, <1>2, <1>3, AllNumbers, SubSeqFull
<1>5. N <= N
  BY <1>0
<1>6. PartsOf(f[N], S, SubSeq(s, 1, N))
  BY <1>0, <1>4, <1>5 DEF T
<1> QED  BY <1>1, <1>4, <1>6

\* Lines put together again are the text.
LEMMA LinesGrow ==
  ASSUME NEW S, Newline \in S, NEW ps \in Seq(Seq(S)), ps # <<>>, NEW x \in S
  PROVE  JoinLines(CutOn(ps, x, {Newline})) = Append(JoinLines(ps), x)
<1> DEFINE P == Seq(S)
           N == <<Newline>>
           j == JoinLines(ps)
<1>0. ps \in Seq(P) /\ N \in P /\ <<>> \in P
  OBVIOUS
<1> HIDE DEF P
<1>1. j \in P
  BY <1>0, JoinIs DEF P
<1> HIDE DEF N
<1>2. CASE x = Newline
  <2>1. CutOn(ps, x, {Newline}) = Append(ps, <<>>)
    BY <1>2 DEF CutOn
  <2>2. JoinLines(Append(ps, <<>>)) = j \o (N \o <<>>)
    BY <1>0, JoinGrows DEF P, N
  <2> HIDE DEF j
  <2>3. N \o <<>> = N
    BY <1>0, ConcatEmptySeq DEF P
  <2>4. Append(j, x) = j \o N
    BY <1>1, <1>2, AppendIsConcat DEF P, N
  <2> QED  BY <2>1, <2>2, <2>3, <2>4 DEF j
<1>3. CASE x # Newline
  <2>1. PICK init \in Seq(P), l \in P :
          ps = Append(init, l) /\ CutOn(ps, x, {Newline}) = Append(init, Append(l, x))
    <3>1. x \notin {Newline}
      BY <1>3
    <3>2. LastGrows(Seq(S), ps, x, {Newline})
      BY <1>0, <1>3, <3>1, LastPartGrows DEF P
    <3>3. LastGrows(P, ps, x, {Newline})
      BY <3>2 DEF P
    <3> QED  BY <3>3 DEF LastGrows
  <2> DEFINE m == Append(l, x)
             X == <<x>>
  <2>2. m \in P /\ X \in P /\ m = l \o X
    BY <2>1, AppendProperties, AppendIsConcat DEF P
  <2>3. Append(j, x) = j \o X
    BY <1>1, AppendIsConcat DEF P
  <2> HIDE DEF m, X, j
  <2>4. CASE init = <<>>
    <3>1. ps = <<l>> /\ Append(init, m) = <<m>>
      BY <2>1, <2>4
    <3>2. JoinLines(<<m>>) = m /\ JoinLines(<<l>>) = l
      BY <2>1, <2>2, JoinOfOne DEF P
    <3> QED  BY <2>1, <2>2, <2>3, <3>1, <3>2 DEF m, j
  <2>5. CASE init # <<>>
    <3> DEFINE i == JoinLines(init)
    <3>1. JoinLines(Append(init, l)) = i \o (N \o l) /\ JoinLines(Append(init, m)) = i \o (N \o m)
      BY <2>1, <2>2, <2>5, JoinGrows DEF P, N
    <3>2. i \in P
      BY <2>1, JoinIs DEF P
    <3> HIDE DEF i
    <3>3. N \o l \in P
      BY <1>0, <2>1, ConcatProperties DEF P
    <3>4. JoinsTo(i, N \o l, X) /\ JoinsTo(N, l, X)
      BY <1>0, <2>1, <2>2, <3>2, <3>3, Joined DEF P
    <3>5. i \o (N \o m) = (i \o (N \o l)) \o X
      BY <2>2, <3>4 DEF JoinsTo
    <3> QED  BY <2>1, <2>3, <3>1, <3>5 DEF j, m
  <2> QED  BY <2>4, <2>5
<1> QED  BY <1>2, <1>3

LEMMA LinesMakeTheText ==
  ASSUME NEW S, Newline \in S, NEW text \in Seq(S)
  PROVE  Lines(text) \in Seq(Seq(S)) /\ Lines(text) # <<>> /\ JoinLines(Lines(text)) = text
<1> DEFINE N == Len(text)
           ok(ps, u) == ps \in Seq(Seq(S)) /\ ps # <<>> /\ JoinLines(ps) = u
<1>0. N \in Nat
  OBVIOUS
<1>1. PICK f : Splits(f, text, {Newline}, N) /\ Split(text, {Newline}) = f[N]
  BY <1>0, SplitIs
<1> DEFINE T == {n \in Nat : n <= N => ok(f[n], SubSeq(text, 1, n))}
<1>2. 0 \in T
  <2>1. 0 \in 0..N
    BY <1>0
  <2>2. f[0] = << <<>> >>
    BY <1>1, <2>1, Zenon DEF Splits
  <2>3. SubSeq(text, 1, 0) = <<>> /\ <<>> \in Seq(S)
    BY SubSeqEmpty
  <2>4. JoinLines(<< <<>> >>) = <<>>
    BY <2>3, JoinOfOne
  <2>5. ok(<< <<>> >>, <<>>)
    BY <2>4
  <2> HIDE DEF ok
  <2> QED  BY <2>2, <2>3, <2>5
<1>3. ASSUME NEW n \in Nat, n \in T
      PROVE  n + 1 \in T
  <2> SUFFICES ASSUME n + 1 <= N PROVE ok(f[n + 1], SubSeq(text, 1, n + 1))
    OBVIOUS
  <2> DEFINE u == SubSeq(text, 1, n)
             x == text[n + 1]
  <2>1. n + 1 \in 0..N /\ n + 1 # 0 /\ (n + 1) - 1 = n /\ n <= N
    BY <1>0
  <2>2. f[n + 1] = CutOn(f[(n + 1) - 1], text[n + 1], {Newline})
    BY <1>1, <2>1, Zenon DEF Splits
  <2>3. ok(f[n], u)
    BY <1>3, <2>1
  <2>4. u \in Seq(S) /\ x \in S /\ SubSeq(text, 1, n + 1) = Append(u, x)
    BY StartGrows
  <2> HIDE DEF u, x, N
  <2>5. JoinLines(CutOn(f[n], x, {Newline})) = Append(u, x)
    BY <2>3, <2>4, LinesGrow
  <2>6. CutOn(f[n], x, {Newline}) \in Seq(Seq(S)) /\ CutOn(f[n], x, {Newline}) # <<>>
    <3> DEFINE v == IF Len(f[n]) = 1 THEN f[n][1] ELSE <<>>
    <3>1. f[n] \in Seq(Seq(S)) /\ f[n] # <<>>
      BY <2>3
    <3>2. v \in Seq(S)
      BY <3>1
    <3>3. Len(f[n]) = 1 => f[n] = <<v>>
      BY <3>1
    <3> HIDE DEF v
    <3>4. PartsOf(f[n], S, v)
      BY <3>1, <3>3 DEF PartsOf
    <3>5. PartsOf(CutOn(f[n], x, {Newline}), S, Append(v, x))
      BY <2>4, <3>2, <3>4, PartsGrow
    <3> QED  BY <3>5 DEF PartsOf
  <2> QED  BY <2>1, <2>2, <2>4, <2>5, <2>6 DEF x
<1> HIDE DEF T
<1>4. N \in T /\ SubSeq(text, 1, N) = text
  BY <1>0, <1>2, <1>3, AllNumbers, SubSeqFull
<1>5. N <= N
  BY <1>0
<1>6. ok(f[N], SubSeq(text, 1, N))
  BY <1>0, <1>4, <1>5 DEF T
<1> QED  BY <1>1, <1>4, <1>6 DEF Lines

-----------------------------------------------------------------------------
(* Indentation.                                                              *)

Lead(line, n) ==
  /\ n \in 0..Len(line)
  /\ \A i \in 1..n : line[i] \in Whitespace
  /\ n < Len(line) => line[n + 1] \notin Whitespace

LEMMA LeadExists ==
  ASSUME NEW S, NEW line \in Seq(S)
  PROVE  \E n \in Nat : Lead(line, n)
<1> DEFINE N == Len(line)
           T == {n \in 0..N : n = N \/ line[n + 1] \notin Whitespace}
<1>1. N \in Nat
  OBVIOUS
<1> HIDE DEF N
<1>2. N \in T /\ T \subseteq Nat
  BY <1>1
<1>3. PICK n \in T : \A k \in T : n <= k
  BY <1>2, LeastOf
<1>4. n \in Nat /\ n \in 0..N
  BY <1>1, <1>3
<1>5. ASSUME NEW i \in 1..n  PROVE line[i] \in Whitespace
  <2>1. i - 1 \in 0..N /\ i - 1 # N /\ ~(n <= i - 1) /\ (i - 1) + 1 = i
    BY <1>1, <1>4
  <2>2. i - 1 \notin T
    BY <1>3, <2>1
  <2> QED  BY <2>1, <2>2
<1>6. n < N => line[n + 1] \notin Whitespace
  BY <1>1, <1>3, <1>4
<1> QED  BY <1>4, <1>5, <1>6 DEF Lead, N

LEMMA LeadIsUnique ==
  ASSUME NEW S, NEW line \in Seq(S), NEW m \in Nat, NEW n \in Nat, Lead(line, m), Lead(line, n)
  PROVE  m = n
<1>0. Len(line) \in Nat
  OBVIOUS
<1>1. ASSUME NEW j \in Nat, NEW k \in Nat, Lead(line, j), Lead(line, k), j < k
      PROVE  FALSE
  <2>1. j + 1 \in 1..k /\ j < Len(line)
    BY <1>0, <1>1 DEF Lead
  <2> QED  BY <1>1, <2>1 DEF Lead
<1> QED  BY <1>1

LEMMA LeadIs ==
  ASSUME NEW S, NEW line \in Seq(S), NEW n \in Nat, Lead(line, n)
  PROVE  LeadingWhitespace(line) = SubSeq(line, 1, n)
<1> DEFINE ok(v) == Range(v) \subseteq Whitespace /\ (v # line => line[Len(v) + 1] \notin Whitespace)
           w == SubSeq(line, 1, n)
<1>0. Len(line) \in Nat /\ n \in 0..Len(line) /\ \A i \in 1..Len(line) : line[i] \in S
  BY DEF Lead
<1>1. ASSUME NEW m \in 0..Len(line)
      PROVE  /\ Len(SubSeq(line, 1, m)) = m
             /\ SubSeq(line, 1, m) \in Seq(S)
             /\ \A i \in 1..m : SubSeq(line, 1, m)[i] = line[i]
  <2>1. \A i \in 1..m : line[i] \in S
    BY <1>0
  <2>2. /\ SubSeq(line, 1, m) \in Seq(S)
        /\ Len(SubSeq(line, 1, m)) = IF 1 <= m THEN m - 1 + 1 ELSE 0
        /\ \A i \in 1..(m - 1 + 1) : SubSeq(line, 1, m)[i] = line[1 + i - 1]
    BY <2>1, SubSeqProperties
  <2>3. m - 1 + 1 = m /\ \A i \in 1..m : 1 + i - 1 = i
    BY <1>0
  <2>4. Len(SubSeq(line, 1, m)) = m
    BY <1>0, <2>2
  <2> QED  BY <2>2, <2>3, <2>4
<1>2. w \in Prefixes(line)
  BY <1>0 DEF Prefixes
<1>3. ok(w)
  <2>1. Len(w) = n /\ w \in Seq(S) /\ \A i \in 1..n : w[i] = line[i]
    BY <1>0, <1>1
  <2>2. n = Len(line) => w = line
    BY SubSeqFull
  <2> HIDE DEF w
  <2>3. Range(w) \subseteq Whitespace
    BY <2>1 DEF Lead, Range
  <2>4. n # Len(line) => n < Len(line)
    BY <1>0
  <2> QED  BY <2>1, <2>2, <2>3, <2>4 DEF Lead
<1>4. ASSUME NEW v \in Prefixes(line), ok(v)
      PROVE  v = w
  <2>1. PICK m \in 0..Len(line) : v = SubSeq(line, 1, m)
    BY <1>4 DEF Prefixes
  <2>2. Len(v) = m /\ v \in Seq(S) /\ \A i \in 1..m : v[i] = line[i]
    BY <1>1, <2>1
  <2>3. \A i \in 1..m : line[i] \in Whitespace
    BY <1>4, <2>2 DEF Range
  <2>4. m < Len(line) => line[m + 1] \notin Whitespace
    BY <1>0, <1>4, <2>2
  <2>5. Lead(line, m) /\ m \in Nat
    BY <1>0, <2>3, <2>4 DEF Lead
  <2>6. m = n
    BY <2>5, LeadIsUnique
  <2> QED  BY <2>1, <2>6
<1> HIDE DEF w
<1>5. LeadingWhitespace(line) = CHOOSE v \in Prefixes(line) : ok(v)
  BY DEF LeadingWhitespace
<1> HIDE DEF ok
<1>6. (CHOOSE v \in Prefixes(line) : ok(v)) = w
  BY <1>2, <1>3, <1>4
<1> QED  BY <1>5, <1>6 DEF w

\* A line is its indentation and the rest.
Indents(line, w, r) == line = w \o r

LEMMA LineIs ==
  ASSUME NEW S, NEW line \in Seq(S)
  PROVE  /\ LeadingWhitespace(line) \in Seq(S) /\ Stripped(line) \in Seq(S)
         /\ Indents(line, LeadingWhitespace(line), Stripped(line))
         /\ \A i \in 1..Len(LeadingWhitespace(line)) : LeadingWhitespace(line)[i] \in Whitespace
         /\ Lead(line, Len(LeadingWhitespace(line)))
<1>1. PICK n \in Nat : Lead(line, n)
  BY LeadExists
<1> DEFINE w == SubSeq(line, 1, n)
<1>2. LeadingWhitespace(line) = w
  BY <1>1, LeadIs
<1>3. Len(line) \in Nat /\ n \in 0..Len(line) /\ \A i \in 1..Len(line) : line[i] \in S
  BY <1>1 DEF Lead
<1>4. w \in Seq(S) /\ Len(w) = n /\ \A i \in 1..n : w[i] = line[i]
  <2>1. \A i \in 1..n : line[i] \in S
    BY <1>3
  <2>2. /\ w \in Seq(S)
        /\ Len(w) = IF 1 <= n THEN n - 1 + 1 ELSE 0
        /\ \A i \in 1..(n - 1 + 1) : w[i] = line[1 + i - 1]
    BY <2>1, SubSeqProperties
  <2> HIDE DEF w
  <2>3. n - 1 + 1 = n /\ \A i \in 1..n : 1 + i - 1 = i
    BY <1>1
  <2>4. Len(w) = n
    BY <1>1, <2>2
  <2> QED  BY <2>2, <2>3, <2>4
<1>5. Stripped(line) = SubSeq(line, n + 1, Len(line))
  BY <1>2, <1>4 DEF Stripped
<1>6. Stripped(line) \in Seq(S)
  <2>1. \A i \in (n + 1)..Len(line) : line[i] \in S
    BY <1>3
  <2>2. n + 1 \in Int /\ Len(line) \in Int
    BY <1>3
  <2> QED  BY <1>5, <2>1, <2>2, SubSeqProperties
<1>7. w \o SubSeq(line, n + 1, Len(line)) = line
  <2>1. 1 \in 1..(Len(line) + 1) /\ n \in (1 - 1)..Len(line) /\ Len(line) \in n..Len(line)
    BY <1>3
  <2>2. w \o SubSeq(line, n + 1, Len(line)) = SubSeq(line, 1, Len(line))
    BY <2>1, ConcatAdjacentSubSeq
  <2> QED  BY <2>2, SubSeqFull
<1>8. \A i \in 1..n : w[i] \in Whitespace
  BY <1>1, <1>4 DEF Lead
<1> HIDE DEF w
<1> QED  BY <1>1, <1>2, <1>4, <1>5, <1>6, <1>7, <1>8 DEF Indents

LEMMA WordsIndented ==
  ASSUME NEW S, NEW d \in Seq(S), NEW l \in Seq(S), \A i \in 1..Len(d) : d[i] \in Whitespace
  PROVE  Words(d \o l) = Words(l)
<1>1. Words(d \o l) = Words(d) \o Words(l)
  BY WordsOfBoth
<1>2. Words(d) = <<>>
  BY WordsOfBlanks
<1>3. Words(l) \in Seq(S)
  BY WordsAre
<1>4. <<>> \o Words(l) = Words(l)
  BY <1>3, ConcatEmptySeq
<1> QED  BY <1>1, <1>2, <1>4

LEMMA WordsStripped ==
  ASSUME NEW S, NEW line \in Seq(S)
  PROVE  Words(line) = Words(Stripped(line))
<1> DEFINE w == LeadingWhitespace(line)
           r == Stripped(line)
<1>1. w \in Seq(S) /\ r \in Seq(S) /\ line = w \o r /\ \A i \in 1..Len(w) : w[i] \in Whitespace
  BY LineIs DEF Indents
<1> HIDE DEF w, r
<1>2. Words(w \o r) = Words(r)
  BY <1>1, WordsIndented
<1> QED  BY <1>1, <1>2 DEF r

\* A line further in.
LEMMA FurtherIn ==
  ASSUME NEW S, NEW d \in Seq(S), NEW l \in Seq(S), \A i \in 1..Len(d) : d[i] \in Whitespace
  PROVE  /\ Indents(LeadingWhitespace(d \o l), d, LeadingWhitespace(l))
         /\ Stripped(d \o l) = Stripped(l)
<1> DEFINE a == d \o l
           w == LeadingWhitespace(l)
           r == Stripped(l)
           m == Len(d)
           n == Len(w)
<1>1. /\ w \in Seq(S) /\ r \in Seq(S) /\ l = w \o r /\ Lead(l, n)
      /\ \A i \in 1..n : w[i] \in Whitespace
  BY LineIs DEF Indents
<1> HIDE DEF w, r
<1>2. m \in Nat /\ n \in Nat /\ Len(l) \in Nat
  BY <1>1
<1>3. a \in Seq(S) /\ Len(a) = m + Len(l)
      /\ \A i \in 1..(m + Len(l)) : a[i] = IF i <= m THEN d[i] ELSE l[i - m]
  BY ConcatProperties
<1> DEFINE b == d \o w
<1>4. a = b \o r /\ b \in Seq(S) /\ Len(b) = m + n
  <2>1. JoinsTo(d, w, r)
    BY <1>1, Joined
  <2>2. b \in Seq(S) /\ Len(b) = m + n
    BY <1>1, ConcatProperties
  <2> QED  BY <1>1, <2>1, <2>2 DEF JoinsTo
<1> HIDE DEF a, b, m, n
<1>5. n \in 0..Len(l) /\ (\A i \in 1..n : l[i] \in Whitespace)
      /\ (n < Len(l) => l[n + 1] \notin Whitespace)
  BY <1>1 DEF Lead
<1>6. Lead(a, m + n)
  <2>1. m + n \in 0..Len(a)
    BY <1>2, <1>3, <1>5
  <2>2. \A i \in 1..(m + n) : a[i] \in Whitespace
    <3> TAKE i \in 1..(m + n)
    <3>1. i \in 1..(m + Len(l)) /\ (i <= m => i \in 1..m) /\ (~(i <= m) => i - m \in 1..n)
      BY <1>2, <1>5
    <3>2. \A k \in 1..m : d[k] \in Whitespace
      BY DEF m
    <3> QED  BY <1>3, <1>5, <3>1, <3>2
  <2>3. ASSUME m + n < Len(a)  PROVE a[(m + n) + 1] \notin Whitespace
    <3>1. n < Len(l) /\ (m + n) + 1 \in 1..(m + Len(l)) /\ ~((m + n) + 1 <= m)
          /\ ((m + n) + 1) - m = n + 1
      BY <1>2, <1>3, <2>3
    <3> QED  BY <1>3, <1>5, <3>1
  <2> QED  BY <2>1, <2>2, <2>3 DEF Lead
<1>7. LeadingWhitespace(a) = SubSeq(a, 1, m + n)
  <2>1. m + n \in Nat
    BY <1>2
  <2> QED  BY <1>3, <1>6, <2>1, LeadIs
<1>8. /\ SubSeq(b \o r, 1, Len(b)) = b
      /\ SubSeq(b \o r, Len(b) + 1, Len(b \o r)) = r
  <2>1. PutTogether(b, r)
    BY <1>1, <1>4, CutApart
  <2> QED  BY <2>1 DEF PutTogether
<1>9. LeadingWhitespace(a) = b
  BY <1>4, <1>7, <1>8
<1>10. Stripped(a) = r
  <2>1. Stripped(a) = SubSeq(a, Len(b) + 1, Len(a))
    BY <1>9 DEF Stripped
  <2> QED  BY <1>4, <1>8, <2>1
<1> QED  BY <1>9, <1>10 DEF Indents, a, b, w, r

-----------------------------------------------------------------------------
(* The words of lines.                                                       *)

LEMMA WordsOfJoin ==
  ASSUME NEW S, Newline \in S, NEW ls \in Seq(Seq(S)), NEW l \in Seq(S)
  PROVE  Words(JoinLines(Append(ls, l))) = Words(JoinLines(ls)) \o Words(l)
<1> DEFINE P == Seq(S)
           N == <<Newline>>
<1>0. ls \in Seq(P) /\ N \in P /\ Words(l) \in P
  BY WordsAre
<1> HIDE DEF P
<1>1. CASE ls = <<>>
  <2>1. Append(ls, l) = <<l>>
    BY <1>1
  <2>2. JoinLines(<<l>>) = l
    BY JoinOfOne
  <2>3. <<>> \o Words(l) = Words(l)
    BY <1>0, ConcatEmptySeq DEF P
  <2> QED  BY <1>1, <2>1, <2>2, <2>3, JoinOfNone, WordsOfNone
<1>2. CASE ls # <<>>
  <2> DEFINE j == JoinLines(ls)
  <2> HIDE DEF N
  <2>1. JoinLines(Append(ls, l)) = j \o (N \o l)
    BY <1>2, JoinGrows DEF P, N
  <2>2. j \in Seq(S)
    BY JoinIs
  <2> HIDE DEF j
  <2>3. N \o l \in Seq(S)
    BY <1>0, ConcatProperties DEF P
  <2>4. Words(j \o (N \o l)) = Words(j) \o Words(N \o l)
    BY <2>2, <2>3, WordsOfBoth
  <2>5. Words(N \o l) = Words(N) \o Words(l)
    BY <1>0, WordsOfBoth DEF P
  <2>6. Words(N) = <<>>
    <3>1. Append(<<>>, Newline) = N /\ <<>> \in Seq(S)
      BY DEF N
    <3>2. Words(Append(<<>>, Newline)) = Words(<<>>) \o WordOf(Newline)
      BY <3>1, WordsGrow
    <3>3. WordOf(Newline) = <<>> /\ <<>> \o <<>> = <<>>
      BY DEF WordOf
    <3> QED  BY <3>1, <3>2, <3>3, WordsOfNone
  <2>7. <<>> \o Words(l) = Words(l)
    BY <1>0, ConcatEmptySeq DEF P
  <2> QED  BY <2>1, <2>4, <2>5, <2>6, <2>7 DEF j
<1> QED  BY <1>1, <1>2

SameWords(a, b) == \A i \in 1..Len(a) : Words(a[i]) = Words(b[i])

LEMMA WordsOfLines ==
  ASSUME NEW S, Newline \in S, NEW a \in Seq(Seq(S)), NEW b \in Seq(Seq(S)),
         Len(a) = Len(b), SameWords(a, b)
  PROVE  Words(JoinLines(a)) = Words(JoinLines(b))
<1> DEFINE P == Seq(S)
           T == {n \in Nat : n <= Len(a) =>
                   Words(JoinLines(SubSeq(a, 1, n))) = Words(JoinLines(SubSeq(b, 1, n)))}
<1>0. a \in Seq(P) /\ b \in Seq(P)
  OBVIOUS
<1> HIDE DEF P
<1>1. 0 \in T
  <2>1. SubSeq(a, 1, 0) = <<>> /\ SubSeq(b, 1, 0) = <<>>
    BY SubSeqEmpty
  <2> QED  BY <2>1
<1>2. ASSUME NEW n \in Nat, n \in T  PROVE n + 1 \in T
  <2> SUFFICES ASSUME n + 1 <= Len(a)
               PROVE  Words(JoinLines(SubSeq(a, 1, n + 1))) = Words(JoinLines(SubSeq(b, 1, n + 1)))
    OBVIOUS
  <2> DEFINE s == SubSeq(a, 1, n)
             t == SubSeq(b, 1, n)
  <2>1. s \in Seq(P) /\ a[n + 1] \in P /\ SubSeq(a, 1, n + 1) = Append(s, a[n + 1])
    BY <1>0, StartGrows
  <2>2. t \in Seq(P) /\ b[n + 1] \in P /\ SubSeq(b, 1, n + 1) = Append(t, b[n + 1])
    BY <1>0, StartGrows
  <2>3. Words(JoinLines(s)) = Words(JoinLines(t)) /\ n + 1 \in 1..Len(a)
    BY <1>0, <1>2
  <2> HIDE DEF s, t
  <2>4. Words(JoinLines(Append(s, a[n + 1]))) = Words(JoinLines(s)) \o Words(a[n + 1])
    BY <2>1, WordsOfJoin DEF P
  <2>5. Words(JoinLines(Append(t, b[n + 1]))) = Words(JoinLines(t)) \o Words(b[n + 1])
    BY <2>2, WordsOfJoin DEF P
  <2>6. Words(a[n + 1]) = Words(b[n + 1])
    BY <2>3 DEF SameWords
  <2> QED  BY <2>1, <2>2, <2>3, <2>4, <2>5, <2>6
<1> HIDE DEF T
<1>3. /\ Len(a) \in Nat /\ Len(a) \in T
      /\ SubSeq(a, 1, Len(a)) = a /\ SubSeq(b, 1, Len(a)) = b
  <2>1. \A n \in Nat : n \in T
    BY <1>1, <1>2, AllNumbers
  <2>2. Len(a) \in Nat /\ SubSeq(a, 1, Len(a)) = a /\ SubSeq(b, 1, Len(b)) = b
    BY <1>0, SubSeqFull
  <2> QED  BY <2>1, <2>2
<1>4. Len(a) <= Len(a)
  BY <1>3
<1>5. Words(JoinLines(SubSeq(a, 1, Len(a)))) = Words(JoinLines(SubSeq(b, 1, Len(a))))
  BY <1>3, <1>4 DEF T
<1> QED  BY <1>3, <1>5

-----------------------------------------------------------------------------
(* One stretch of a text became another.                                     *)

LEMMA SuffixIs ==
  ASSUME NEW S, NEW u \in Seq(S), NEW s \in Seq(S)
  PROVE  IsSuffix(s, u \o s)
<1> DEFINE t == u \o s
           m == Len(s)
           n == Len(u)
           a == Reverse(s)
           b == Reverse(t)
<1>1. /\ m \in Nat /\ n \in Nat /\ t \in Seq(S) /\ Len(t) = n + m
      /\ \A i \in 1..(n + m) : t[i] = IF i <= n THEN u[i] ELSE s[i - n]
  BY ConcatProperties
<1>2. (\A i \in 1..m : s[i] \in S) /\ \A i \in 1..(n + m) : t[i] \in S
  BY <1>1, ElementOfSeq
<1> HIDE DEF t, m, n
<1>3. a = [i \in 1..m |-> s[(m - i) + 1]] /\ b = [i \in 1..(n + m) |-> t[((n + m) - i) + 1]]
  BY <1>1 DEF Reverse, m
<1>4. \A i \in 1..m : (m - i) + 1 \in 1..m
  BY <1>1
<1>5. \A i \in 1..(n + m) : ((n + m) - i) + 1 \in 1..(n + m)
  BY <1>1
<1> HIDE DEF a, b
<1>6. /\ a \in Seq(S) /\ Len(a) = m
      /\ \A i \in 1..m : a[i] = s[(m - i) + 1]
  <2>1. a \in [1..m -> S]
    BY <1>2, <1>3, <1>4
  <2> QED  BY <1>1, <1>3, <2>1
<1>7. /\ b \in Seq(S) /\ Len(b) = n + m
      /\ \A i \in 1..(n + m) : b[i] = t[((n + m) - i) + 1]
  <2> DEFINE N == n + m
  <2>1. N \in Nat
    BY <1>1
  <2>2. b = [i \in 1..N |-> t[(N - i) + 1]] /\ \A i \in 1..N : t[(N - i) + 1] \in S
    BY <1>2, <1>3, <1>5
  <2> HIDE DEF N
  <2>3. b \in [1..N -> S] /\ \A i \in 1..N : b[i] = t[(N - i) + 1]
    BY <2>2
  <2>4. b \in Seq(S) /\ Len(b) = N
    BY <2>1, <2>3
  <2> QED  BY <2>3, <2>4 DEF N
<1>8. ASSUME NEW i \in 1..m  PROVE a[i] = b[i]
  <2>1. /\ i \in 1..(n + m) /\ ((n + m) - i) + 1 \in 1..(n + m) /\ ~(((n + m) - i) + 1 <= n)
        /\ (((n + m) - i) + 1) - n = (m - i) + 1
    BY <1>1
  <2> QED  BY <1>1, <1>6, <1>7, <2>1
<1>9. SubSeq(a, 1, m) = SubSeq(b, 1, m)
  <2>1. SubSeq(a, 1, m) = a
    BY <1>6, SubSeqFull
  <2> DEFINE c == SubSeq(b, 1, m)
  <2>2. c \in Seq(S) /\ Len(c) = m /\ \A i \in 1..m : c[i] = b[i]
    <3>1. \A i \in 1..m : b[i] \in S
      BY <1>1, <1>7, ElementOfSeq
    <3>2. /\ c \in Seq(S) /\ Len(c) = IF 1 <= m THEN m - 1 + 1 ELSE 0
          /\ \A i \in 1..(m - 1 + 1) : c[i] = b[1 + i - 1]
      BY <1>1, <3>1, SubSeqProperties
    <3> HIDE DEF c
    <3>3. m - 1 + 1 = m /\ \A i \in 1..m : 1 + i - 1 = i
      BY <1>1
    <3>4. Len(c) = m
      BY <1>1, <3>2
    <3> QED  BY <3>2, <3>3, <3>4
  <2> HIDE DEF c
  <2>3. \A i \in 1..Len(a) : a[i] = c[i]
    BY <1>6, <1>8, <2>2
  <2>4. a = c
    BY <1>6, <2>2, <2>3, SeqEqual
  <2> QED  BY <2>1, <2>4 DEF c
<1>10. m <= n + m
  BY <1>1
<1> QED  BY <1>6, <1>7, <1>9, <1>10 DEF IsSuffix, IsPrefix, a, b, t

\* A text around one of its stretches.
Around(t, p, w, q) ==
  /\ Len(t) = (Len(p) + Len(w)) + Len(q)
  /\ SubSeq(t, 1, Len(p)) = p
  /\ SubSeq(t, Len(p) + 1, Len(p) + Len(w)) = w
  /\ SubSeq(t, (Len(p) + Len(w)) + 1, Len(t)) = q
  /\ IsPrefix(p, t) /\ IsSuffix(q, t)

LEMMA AroundIs ==
  ASSUME NEW S, NEW p \in Seq(S), NEW w \in Seq(S), NEW q \in Seq(S),
         NEW t, t = (p \o w) \o q
  PROVE  t \in Seq(S) /\ Around(t, p, w, q)
<1> DEFINE k == Len(p)
           m == Len(w)
           n == Len(q)
           a == p \o w
           b == w \o q
<1>1. /\ k \in Nat /\ m \in Nat /\ n \in Nat
      /\ a \in Seq(S) /\ Len(a) = k + m /\ b \in Seq(S) /\ Len(b) = m + n
  BY ConcatProperties
<1>2. t = a \o q /\ t \in Seq(S) /\ Len(t) = (k + m) + n
  BY <1>1, ConcatProperties
<1>3. t = p \o b
  <2>1. JoinsTo(p, w, q)
    BY Joined
  <2> QED  BY <1>2, <2>1 DEF JoinsTo
<1>4. SubSeq(t, 1, k) = p
  <2> HIDE DEF b
  <2>1. PutTogether(p, b)
    BY <1>1, CutApart
  <2> QED  BY <1>3, <2>1 DEF PutTogether
<1>5. SubSeq(t, (k + m) + 1, Len(t)) = q
  <2> HIDE DEF a
  <2>1. PutTogether(a, q)
    BY <1>1, CutApart
  <2> QED  BY <1>1, <1>2, <2>1 DEF PutTogether
<1>6. SubSeq(t, k + 1, k + m) = w
  <2>1. CASE w = <<>>
    <3>1. m = 0
      BY <2>1
    <3>2. k + m < k + 1 /\ k + 1 \in Int /\ k + m \in Int
      BY <1>1, <3>1
    <3> HIDE DEF k, m
    <3> QED  BY <2>1, <3>2, SubSeqEmpty
  <2>2. CASE w # <<>>
    <3>1. m \in Nat \ {0}
      BY <2>2, EmptySeq
    <3>2. k + 1 \in 1..Len(a) /\ k + m \in 1..Len(a)
      BY <1>1, <3>1
    <3>3. SubSeq(t, k + 1, k + m) = SubSeq(a, k + 1, k + m)
      <4> HIDE DEF a
      <4> QED  BY <1>1, <1>2, <3>2, SubSeqOfConcat1
    <3>4. PutTogether(p, w)
      BY CutApart
    <3> QED  BY <1>1, <3>3, <3>4 DEF PutTogether
  <2> QED  BY <2>1, <2>2
<1>7. IsPrefix(p, t)
  <2>1. SubSeq(p, 1, k) = p /\ k <= Len(t)
    BY <1>1, <1>2, SubSeqFull
  <2> QED  BY <1>4, <2>1 DEF IsPrefix
<1>8. IsSuffix(q, t)
  <2> HIDE DEF a
  <2> QED  BY <1>1, <1>2, SuffixIs
<1> QED  BY <1>2, <1>4, <1>5, <1>6, <1>7, <1>8 DEF Around

LEMMA StretchRewritten ==
  ASSUME NEW S, NEW p \in Seq(S), NEW w \in Seq(S), NEW q \in Seq(S), NEW r \in Seq(S), NEW b,
         Words(w) = Words(b.search), Words(r) = Words(b.replace),
         NEW old, old = (p \o w) \o q, NEW new, new = (p \o r) \o q
  PROVE  RewritesOneStretch(old, b, new)
<1> DEFINE i == Len(p) + 1
           j == Len(p) + Len(w)
<1>1. Len(p) \in Nat /\ Len(w) \in Nat /\ Len(q) \in Nat /\ Len(r) \in Nat
  OBVIOUS
<1>2. /\ Len(old) = (Len(p) + Len(w)) + Len(q)
      /\ SubSeq(old, 1, Len(p)) = p
      /\ SubSeq(old, i, j) = w
      /\ SubSeq(old, j + 1, Len(old)) = q
  <2>1. Around(old, p, w, q)
    BY AroundIs
  <2> QED  BY <2>1 DEF Around
<1>3. /\ Len(new) = (Len(p) + Len(r)) + Len(q)
      /\ SubSeq(new, i, Len(p) + Len(r)) = r
      /\ IsPrefix(p, new) /\ IsSuffix(q, new)
  <2>1. Around(new, p, r, q)
    BY AroundIs
  <2> QED  BY <2>1 DEF Around
<1>4. /\ i \in 1..(Len(old) + 1) /\ j \in 0..Len(old) /\ i <= j + 1 /\ i - 1 = Len(p)
      /\ Len(new) - Len(q) = Len(p) + Len(r) /\ Len(p) <= Len(p) + Len(r)
  BY <1>1, <1>2, <1>3
<1> HIDE DEF i, j
<1> QED  BY <1>2, <1>3, <1>4, Zenon DEF RewritesOneStretch

\* A text is what is before a stretch, the stretch, and what is after it.
CutOut(S, text, i, j) ==
  /\ SubSeq(text, 1, i - 1) \in Seq(S) /\ SubSeq(text, i, j) \in Seq(S)
  /\ SubSeq(text, j + 1, Len(text)) \in Seq(S)
  /\ text = (SubSeq(text, 1, i - 1) \o SubSeq(text, i, j)) \o SubSeq(text, j + 1, Len(text))

LEMMA CutAround ==
  ASSUME NEW S, NEW text \in Seq(S), NEW i \in 1..(Len(text) + 1), NEW j \in (i - 1)..Len(text)
  PROVE  CutOut(S, text, i, j)
<1>1. Len(text) \in Nat /\ i \in Nat /\ j \in Nat /\ i - 1 \in Nat
  OBVIOUS
<1>2. \A k \in 1..Len(text) : text[k] \in S
  BY ElementOfSeq
<1>3. SubSeq(text, 1, i - 1) \in Seq(S)
  <2>1. \A k \in 1..(i - 1) : text[k] \in S
    BY <1>1, <1>2
  <2> QED  BY <1>1, <2>1, SubSeqProperties
<1>4. SubSeq(text, i, j) \in Seq(S)
  <2>1. \A k \in i..j : text[k] \in S
    BY <1>1, <1>2
  <2> QED  BY <1>1, <2>1, SubSeqProperties
<1>5. SubSeq(text, j + 1, Len(text)) \in Seq(S)
  <2>1. \A k \in (j + 1)..Len(text) : text[k] \in S
    BY <1>1, <1>2
  <2>2. j + 1 \in Int /\ Len(text) \in Int
    BY <1>1
  <2> QED  BY <2>1, <2>2, SubSeqProperties
<1>6. SubSeq(text, 1, i - 1) \o SubSeq(text, i, j) = SubSeq(text, 1, j)
  <2>1. 1 \in 1..(Len(text) + 1) /\ i - 1 \in (1 - 1)..Len(text) /\ j \in (i - 1)..Len(text)
    BY <1>1
  <2>2. SubSeq(text, 1, i - 1) \o SubSeq(text, (i - 1) + 1, j) = SubSeq(text, 1, j)
    BY <2>1, ConcatAdjacentSubSeq
  <2>3. (i - 1) + 1 = i
    BY <1>1
  <2> QED  BY <2>2, <2>3
<1>7. SubSeq(text, 1, j) \o SubSeq(text, j + 1, Len(text)) = SubSeq(text, 1, Len(text))
  <2>1. 1 \in 1..(Len(text) + 1) /\ j \in (1 - 1)..Len(text) /\ Len(text) \in j..Len(text)
    BY <1>1
  <2> QED  BY <2>1, ConcatAdjacentSubSeq
<1> QED  BY <1>3, <1>4, <1>5, <1>6, <1>7, SubSeqFull DEF CutOut

LEMMA ReplacesRewrite ==
  ASSUME NEW S, NEW text \in Seq(S), NEW search \in Seq(S), NEW b, b.replace \in Seq(S),
         Words(search) = Words(b.search), NEW t \in Replaces(search, b, text)
  PROVE  t \in Seq(S) /\ RewritesOneStretch(text, b, t)
<1> DEFINE n == Len(search)
<1>1. PICK i \in IndexOf(search, text, 1) : t = ReplaceSubSeqAt(i, b.replace, search, text)
  BY DEF Replaces
<1>2. i \in 1..(Len(text) - n + 1) /\ SubSeq(text, i, i + n - 1) = search
  BY <1>1 DEF IndexOf
<1>3. Len(text) \in Nat /\ n \in Nat
  OBVIOUS
<1> HIDE DEF n
<1>4. i \in 1..(Len(text) + 1) /\ i + n - 1 \in (i - 1)..Len(text) /\ (i + n - 1) + 1 = i + n
  BY <1>2, <1>3
<1> DEFINE p == SubSeq(text, 1, i - 1)
           q == SubSeq(text, i + n, Len(text))
<1>5. p \in Seq(S) /\ q \in Seq(S) /\ text = (p \o search) \o q
  <2> DEFINE j == i + n - 1
  <2>1. j \in (i - 1)..Len(text) /\ j + 1 = i + n /\ SubSeq(text, i, j) = search
    BY <1>2, <1>4
  <2> HIDE DEF j, p, q
  <2>2. CutOut(S, text, i, j)
    BY <1>4, <2>1, CutAround
  <2> QED  BY <2>1, <2>2 DEF CutOut, p, q
<1>6. t = (p \o b.replace) \o q
  BY <1>1 DEF ReplaceSubSeqAt, n
<1> HIDE DEF p, q
<1>7. t \in Seq(S)
  BY <1>5, <1>6, ConcatProperties
<1> QED  BY <1>5, <1>6, <1>7, StretchRewritten

-----------------------------------------------------------------------------
(* The attempt without a leading blank line.                                 *)

LEMMA WordsOfNewline == Words(<<Newline>>) = <<>>
<1> DEFINE S == {Newline}
<1>1. Append(<<>>, Newline) = <<Newline>> /\ <<>> \in Seq(S) /\ Newline \in S
  OBVIOUS
<1> HIDE DEF S
<1>2. Words(Append(<<>>, Newline)) = Words(<<>>) \o WordOf(Newline)
  BY <1>1, WordsGrow
<1>3. WordOf(Newline) = <<>> /\ <<>> \o <<>> = <<>>
  BY DEF WordOf
<1> QED  BY <1>1, <1>2, <1>3, WordsOfNone

LEMMA BlankIsNoWord ==
  ASSUME NEW S, NEW line \in Seq(S), IsBlank(line)
  PROVE  Words(line) = <<>>
<1>1. Words(line) = Words(Stripped(line)) /\ Stripped(line) = <<>>
  BY WordsStripped DEF IsBlank
<1> QED  BY <1>1, WordsOfNone

LEMMA BlankLineRewrites ==
  ASSUME NEW S, Newline \in S, NEW text \in Seq(S), NEW b,
         b.search \in Seq(S), b.replace \in Seq(S), NEW t \in BlankLineDrop(text, b)
  PROVE  t \in Seq(S) /\ RewritesOneStretch(text, b, t)
<1> DEFINE P == Seq(S)
           sought == Lines(b.search)
           h == Head(sought)
           rest == Tail(sought)
           N == <<Newline>>
<1>1. sought \in Seq(P) /\ sought # <<>> /\ JoinLines(sought) = b.search
  BY LinesMakeTheText
<1>2. Len(sought) > 1 /\ IsBlank(h) /\ t \in Replaces(JoinLines(rest), b, text)
  BY DEF BlankLineDrop
<1> HIDE DEF P, sought
<1>3. h \in P /\ rest \in Seq(P) /\ Len(rest) = Len(sought) - 1 /\ sought = <<h>> \o rest
  BY <1>1, HeadTailProperties
<1>4. rest # <<>> /\ <<h>> \in Seq(P) /\ <<h>> # <<>>
  <2>1. rest # <<>>
    <3>1. Len(rest) # 0
      BY <1>1, <1>2, <1>3
    <3> QED  BY <1>3, <3>1, EmptySeq
  <2>2. h \in P
    BY <1>3
  <2> HIDE DEF h
  <2>3. <<h>> \in Seq(P) /\ <<h>> # <<>>
    BY <2>2
  <2> QED  BY <2>1, <2>3
<1> HIDE DEF h, rest
<1> DEFINE j == JoinLines(rest)
           one == <<h>>
<1>5. JoinLines(sought) = h \o (N \o j)
  <2>1. JoinLines(one) = h
    BY <1>3, JoinOfOne DEF P
  <2> HIDE DEF one, j
  <2>2. Adjoined(one, rest)
    BY <1>3, <1>4, JoinOfBoth DEF P, one
  <2> QED  BY <1>3, <2>1, <2>2 DEF Adjoined, one, j
<1>6. j \in P /\ N \in P
  BY <1>3, JoinIs DEF P
<1> HIDE DEF j, N
<1>7. Words(h \o (N \o j)) = Words(j)
  <2>1. N \o j \in P
    BY <1>6, ConcatProperties DEF P
  <2>2. Words(h \o (N \o j)) = Words(h) \o Words(N \o j) /\ Words(N \o j) = Words(N) \o Words(j)
    BY <1>3, <1>6, <2>1, WordsOfBoth DEF P
  <2>3. Words(h) = <<>> /\ Words(N) = <<>>
    BY <1>2, <1>3, BlankIsNoWord, WordsOfNewline DEF P, N
  <2>4. Words(j) \in P
    BY <1>6, WordsAre DEF P
  <2>5. <<>> \o Words(j) = Words(j)
    BY <2>4, ConcatEmptySeq DEF P
  <2> QED  BY <2>2, <2>3, <2>5
<1>8. Words(j) = Words(b.search)
  BY <1>1, <1>5, <1>7
<1>9. t \in Replaces(j, b, text)
  BY <1>2 DEF j
<1> QED  BY <1>6, <1>8, <1>9, ReplacesRewrite DEF P

-----------------------------------------------------------------------------
(* The attempt at another indentation.                                       *)

TextBefore(a) == IF a = <<>> THEN <<>> ELSE JoinLines(a) \o <<Newline>>
TextAfter(c) == IF c = <<>> THEN <<>> ELSE <<Newline>> \o JoinLines(c)

\* The text of lines around some of them.
Framed(a, m, c) ==
  JoinLines((a \o m) \o c) = (TextBefore(a) \o JoinLines(m)) \o TextAfter(c)

LEMMA LinesFramed ==
  ASSUME NEW S, Newline \in S, NEW a \in Seq(Seq(S)), NEW m \in Seq(Seq(S)),
         NEW c \in Seq(Seq(S)), m # <<>>
  PROVE  /\ TextBefore(a) \in Seq(S) /\ TextAfter(c) \in Seq(S)
         /\ Framed(a, m, c)
<1> DEFINE P == Seq(S)
           N == <<Newline>>
           j == JoinLines(m)
           am == a \o m
<1>0. a \in Seq(P) /\ m \in Seq(P) /\ c \in Seq(P) /\ N \in P
  OBVIOUS
<1> HIDE DEF P, N
<1>1. JoinLines(a) \in P /\ j \in P /\ JoinLines(c) \in P
  BY <1>0, JoinIs DEF P
<1>2. TextBefore(a) \in P /\ TextAfter(c) \in P
  <2>1. JoinLines(a) \o N \in P /\ N \o JoinLines(c) \in P /\ <<>> \in P
    BY <1>0, <1>1, ConcatProperties DEF P
  <2> QED  BY <2>1 DEF TextBefore, TextAfter, N
<1>3. am \in Seq(P) /\ am # <<>>
  BY <1>0, ConcatProperties, ConcatEqualIffEmpty
<1>4. JoinLines(am) = TextBefore(a) \o j
  <2>1. CASE a = <<>>
    <3>1. am = m /\ <<>> \o j = j
      BY <1>0, <1>1, <2>1, ConcatEmptySeq DEF P
    <3> QED  BY <2>1, <3>1 DEF TextBefore
  <2>2. CASE a # <<>>
    <3>1. Adjoined(a, m)
      BY <1>0, <2>2, JoinOfBoth DEF P
    <3>2. JoinsTo(JoinLines(a), N, j)
      <4> HIDE DEF j
      <4> QED  BY <1>0, <1>1, Joined DEF P
    <3> QED  BY <2>2, <3>1, <3>2 DEF Adjoined, JoinsTo, TextBefore, N
  <2> QED  BY <2>1, <2>2
<1> DEFINE u == TextBefore(a) \o j
<1>5. u \in P
  <2> HIDE DEF j
  <2> QED  BY <1>1, <1>2, ConcatProperties DEF P
<1> HIDE DEF am, u
<1>6. JoinLines(am \o c) = u \o TextAfter(c)
  <2>1. CASE c = <<>>
    <3>1. am \o c = am /\ u \o <<>> = u
      BY <1>3, <1>5, <2>1, ConcatEmptySeq DEF P
    <3> QED  BY <1>4, <2>1, <3>1 DEF TextAfter, u
  <2>2. CASE c # <<>>
    <3>1. Adjoined(am, c)
      BY <1>0, <1>3, <2>2, JoinOfBoth DEF P
    <3> QED  BY <1>4, <2>2, <3>1 DEF Adjoined, TextAfter, u, N
  <2> QED  BY <2>1, <2>2
<1> QED  BY <1>2, <1>6 DEF Framed, P, am, u

LEMMA ApplyDeltaIs ==
  ASSUME NEW S, NEW ls \in Seq(Seq(S)), NEW d \in Seq(S)
  PROVE  /\ ApplyDelta(ls, d) \in Seq(Seq(S)) /\ Len(ApplyDelta(ls, d)) = Len(ls)
         /\ \A i \in 1..Len(ls) :
              ApplyDelta(ls, d)[i] = IF ls[i] = <<>> THEN <<>> ELSE d \o ls[i]
<1> DEFINE P == Seq(S)
           n == Len(ls)
           moved(i) == IF ls[i] = <<>> THEN <<>> ELSE d \o ls[i]
           r == ApplyDelta(ls, d)
<1>0. ls \in Seq(P)
  OBVIOUS
<1> HIDE DEF P
<1>1. n \in Nat /\ DOMAIN ls = 1..n /\ \A i \in 1..n : ls[i] \in P
  BY <1>0, ElementOfSeq
<1>2. \A i \in 1..n : moved(i) \in P
  <2> TAKE i \in 1..n
  <2>1. d \o ls[i] \in P /\ <<>> \in P
    BY <1>1, ConcatProperties DEF P
  <2> QED  BY <2>1
<1>3. r = [i \in 1..n |-> moved(i)]
  BY <1>1 DEF ApplyDelta
<1> HIDE DEF r, n, moved
<1>4. r \in [1..n -> P]
  BY <1>2, <1>3
<1>5. r \in Seq(P) /\ Len(r) = n
  BY <1>1, <1>3, <1>4
<1>6. \A i \in 1..n : r[i] = moved(i)
  BY <1>3
<1> QED  BY <1>5, <1>6 DEF P, n, moved, r

AllBlank(d) == \A i \in 1..Len(d) : d[i] \in Whitespace

\* Lines that are further in have the same words.
LEMMA DeltaKeepsWords ==
  ASSUME NEW S, Newline \in S, NEW ls \in Seq(Seq(S)), NEW d \in Seq(S), AllBlank(d)
  PROVE  Words(JoinLines(ApplyDelta(ls, d))) = Words(JoinLines(ls))
<1> DEFINE P == Seq(S)
           r == ApplyDelta(ls, d)
<1>0. ls \in Seq(P)
  OBVIOUS
<1>1. /\ r \in Seq(P) /\ Len(r) = Len(ls)
      /\ \A i \in 1..Len(ls) : r[i] = IF ls[i] = <<>> THEN <<>> ELSE d \o ls[i]
  BY ApplyDeltaIs
<1> HIDE DEF P, r
<1>2. SameWords(r, ls)
  <2>1. ASSUME NEW i \in 1..Len(ls)  PROVE Words(r[i]) = Words(ls[i])
    <3>1. ls[i] \in Seq(S)
      BY <1>0, ElementOfSeq DEF P
    <3>2. Words(d \o ls[i]) = Words(ls[i])
      BY <3>1, WordsIndented DEF AllBlank
    <3> QED  BY <1>1, <3>2
  <2> QED  BY <1>1, <2>1 DEF SameWords
<1>3. Words(JoinLines(r)) = Words(JoinLines(ls))
  BY <1>1, <1>2, WordsOfLines DEF P
<1> QED  BY <1>3 DEF r

\* How much further in a line is, is an indentation.
LEMMA DeltaIs ==
  ASSUME NEW S, NEW line \in Seq(S), NEW sought \in Seq(S)
  PROVE  Delta(line, sought) \in Seq(S) /\ AllBlank(Delta(line, sought))
<1> DEFINE w == LeadingWhitespace(line)
           v == LeadingWhitespace(sought)
           n == Len(w) - Len(v)
           d == SubSeq(w, 1, n)
<1>1. w \in Seq(S) /\ v \in Seq(S) /\ \A i \in 1..Len(w) : w[i] \in Whitespace
  BY LineIs
<1>2. Delta(line, sought) = d
  BY DEF Delta
<1> HIDE DEF w, v
<1>3. Len(w) \in Nat /\ n \in Int /\ n <= Len(w) /\ \A i \in 1..Len(w) : w[i] \in S
  BY <1>1, ElementOfSeq
<1> HIDE DEF n
<1>4. \A i \in 1..n : w[i] \in S /\ w[i] \in Whitespace
  <2>1. \A i \in 1..n : i \in 1..Len(w)
    BY <1>3
  <2> QED  BY <1>1, <1>3, <2>1
<1>5. /\ d \in Seq(S) /\ Len(d) = IF 1 <= n THEN n - 1 + 1 ELSE 0
      /\ \A i \in 1..(n - 1 + 1) : d[i] = w[1 + i - 1]
  BY <1>3, <1>4, SubSeqProperties
<1> HIDE DEF d
<1>6. ASSUME NEW i \in 1..Len(d)  PROVE d[i] \in Whitespace
  <2>1. i \in 1..(n - 1 + 1) /\ i \in 1..n /\ 1 + i - 1 = i
    BY <1>3, <1>5
  <2> QED  BY <1>4, <1>5, <2>1
<1> QED  BY <1>2, <1>5, <1>6 DEF AllBlank

LEMMA WhitespaceRewrites ==
  ASSUME NEW S, Newline \in S, NEW text \in Seq(S), NEW b,
         b.search \in Seq(S), b.replace \in Seq(S), NEW t \in WhitespaceTolerant(text, b)
  PROVE  t \in Seq(S) /\ RewritesOneStretch(text, b, t)
<1> DEFINE P == Seq(S)
           ls == Lines(text)
           sought == Lines(b.search)
           put == Lines(b.replace)
           n == Len(ls)
           m == Len(sought)
           window(k) == SubSeq(ls, k, k + m - 1)
           delta(k) == IF Deltas(window(k), sought) = {} THEN <<>>
                       ELSE CHOOSE d \in Deltas(window(k), sought) : TRUE
<1>1. /\ ls \in Seq(P) /\ JoinLines(ls) = text
      /\ sought \in Seq(P) /\ sought # <<>> /\ JoinLines(sought) = b.search
      /\ put \in Seq(P) /\ put # <<>> /\ JoinLines(put) = b.replace
  BY LinesMakeTheText
<1>2. PICK k \in 1..(n - m + 1) :
        /\ DriftsUniformly(window(k), sought)
        /\ t = JoinLines((SubSeq(ls, 1, k - 1) \o ApplyDelta(put, delta(k))) \o SubSeq(ls, k + m, n))
  <2> HIDE DEF ls, sought, put
  <2> QED  BY DEF WhitespaceTolerant, ls, sought, put
<1> HIDE DEF P, ls, sought, put
<1>3. n \in Nat /\ m \in Nat /\ m # 0
  BY <1>1, EmptySeq
<1> DEFINE a == SubSeq(ls, 1, k - 1)
           w == window(k)
           c == SubSeq(ls, k + m, n)
           d == delta(k)
           r == ApplyDelta(put, d)
<1>4. a \in Seq(P) /\ w \in Seq(P) /\ c \in Seq(P) /\ ls = (a \o w) \o c /\ Len(w) = m
      /\ \A i \in 1..m : w[i] \in P /\ sought[i] \in P
  <2> DEFINE e == k + m - 1
  <2>1. k \in 1..(Len(ls) + 1) /\ e \in (k - 1)..Len(ls) /\ e + 1 = k + m /\ e - k + 1 = m /\ k <= e
        /\ k \in Int /\ e \in Int /\ \A i \in k..e : i \in 1..Len(ls)
    BY <1>3
  <2>2. \A i \in k..e : ls[i] \in P
    BY <1>1, <2>1, ElementOfSeq
  <2> HIDE DEF e
  <2>3. CutOut(P, ls, k, e)
    BY <1>1, <2>1, CutAround
  <2>4. Len(SubSeq(ls, k, e)) = m
    BY <2>1, <2>2, SubSeqProperties
  <2>5. w \in Seq(P) /\ Len(w) = m
    BY <2>3, <2>4 DEF CutOut, e
  <2>6. \A i \in 1..m : w[i] \in P /\ sought[i] \in P
    <3> HIDE DEF w
    <3> QED  BY <1>1, <2>5, ElementOfSeq
  <2> QED  BY <2>1, <2>3, <2>5, <2>6 DEF CutOut, e
<1>5. DriftsUniformly(w, sought)
  BY <1>2
<1>6. d \in P /\ AllBlank(d)
  <2>1. CASE Deltas(w, sought) = {}
    BY <2>1 DEF AllBlank, P
  <2>2. CASE Deltas(w, sought) # {}
    <3>1. d \in Deltas(w, sought)
      BY <2>2
    <3> HIDE DEF d, w, m
    <3>2. PICK i \in DOMAIN sought : d = Delta(w[i], sought[i])
      BY <3>1 DEF Deltas
    <3>3. i \in 1..m
      BY <1>1 DEF m
    <3> QED  BY <1>4, <3>2, <3>3, DeltaIs DEF P
  <2> QED  BY <2>1, <2>2
<1>7. t = JoinLines((a \o r) \o c)
  BY <1>2
<1> HIDE DEF a, w, c, d, m, n
<1>8. Words(JoinLines(w)) = Words(b.search)
  <2>1. ASSUME NEW i \in 1..m  PROVE Words(w[i]) = Words(sought[i])
    <3>1. Stripped(w[i]) = Stripped(sought[i])
      <4>1. i \in DOMAIN sought
        BY <1>1 DEF m
      <4> QED  BY <1>5, <4>1 DEF DriftsUniformly
    <3>2. Words(w[i]) = Words(Stripped(w[i])) /\ Words(sought[i]) = Words(Stripped(sought[i]))
      BY <1>4, WordsStripped DEF P
    <3> QED  BY <3>1, <3>2
  <2>2. SameWords(w, sought)
    BY <1>4, <2>1 DEF SameWords
  <2>3. Len(w) = Len(sought)
    BY <1>4 DEF m
  <2>4. Words(JoinLines(w)) = Words(JoinLines(sought))
    BY <1>1, <1>4, <2>2, <2>3, WordsOfLines DEF P
  <2> QED  BY <1>1, <2>4
<1>9. Words(JoinLines(r)) = Words(b.replace)
  BY <1>1, <1>6, DeltaKeepsWords DEF P
<1>10. r \in Seq(P) /\ r # <<>> /\ w # <<>>
  <2>1. r \in Seq(P) /\ Len(r) = Len(put)
    BY <1>1, <1>6, ApplyDeltaIs DEF P
  <2> HIDE DEF r
  <2>2. Len(put) # 0 /\ Len(w) # 0
    BY <1>1, <1>3, <1>4, EmptySeq
  <2> QED  BY <1>4, <2>1, <2>2
<1> HIDE DEF r
<1> DEFINE p == TextBefore(a)
           q == TextAfter(c)
           jw == JoinLines(w)
           jr == JoinLines(r)
<1>11. p \in P /\ q \in P /\ Framed(a, w, c) /\ Framed(a, r, c)
  BY <1>4, <1>10, LinesFramed DEF P
<1>12. jw \in P /\ jr \in P
  BY <1>4, <1>10, JoinIs DEF P
<1>13. text = (p \o jw) \o q /\ t = (p \o jr) \o q
  BY <1>1, <1>4, <1>7, <1>11 DEF Framed
<1> HIDE DEF p, q
<1>14. t \in P
  <2> HIDE DEF jr, jw
  <2> QED  BY <1>11, <1>12, <1>13, ConcatProperties DEF P
<1>15. Words(jw) = Words(b.search) /\ Words(jr) = Words(b.replace)
  BY <1>8, <1>9
<1> HIDE DEF jw, jr
<1> QED  BY <1>11, <1>12, <1>13, <1>14, <1>15, StretchRewritten DEF P

-----------------------------------------------------------------------------
(* The attempt between ellipses.                                             *)

LEMMA SegmentsAre ==
  ASSUME NEW S, Newline \in S, NEW text \in Seq(S)
  PROVE  /\ Segments(text) \in Seq(Seq(S)) /\ Len(Segments(text)) \in Nat \ {0}
         /\ Len(Segments(text)) = 1 => Segments(text) = <<text>>
<1> DEFINE P == Seq(S)
           ls == Lines(text)
           seps == {l \in Range(ls) : IsEllipsisLine(l)}
           cut == Split(ls, seps)
           segs == [i \in DOMAIN cut |-> JoinLines(cut[i])]
<1>1. ls \in Seq(P) /\ JoinLines(ls) = text
  BY LinesMakeTheText
<1> HIDE DEF P, ls, seps
<1>2. PartsOf(cut, P, ls)
  BY <1>1, SplitParts
<1>3. Segments(text) = segs
  BY DEF Segments, ls, seps
<1> HIDE DEF cut
<1>4. cut \in Seq(Seq(P)) /\ cut # <<>> /\ (Len(cut) = 1 => cut = <<ls>>)
  BY <1>2 DEF PartsOf
<1> DEFINE Q == Seq(P)
           n == Len(cut)
<1>5. cut \in Seq(Q)
  BY <1>4
<1> HIDE DEF Q
<1>6. n \in Nat \ {0} /\ DOMAIN cut = 1..n /\ \A i \in 1..n : cut[i] \in Q
  BY <1>4, <1>5, EmptySeq, ElementOfSeq
<1>7. \A i \in 1..n : JoinLines(cut[i]) \in P
  BY <1>6, JoinIs DEF P, Q
<1> HIDE DEF n
<1>8. segs = [i \in 1..n |-> JoinLines(cut[i])]
  BY <1>6
<1> HIDE DEF segs
<1>9. segs \in [1..n -> P]
  BY <1>7, <1>8
<1>10. segs \in Seq(P) /\ Len(segs) = n
  BY <1>6, <1>8, <1>9
<1>11. ASSUME Len(segs) = 1  PROVE segs = <<text>>
  <2>1. n = 1 /\ cut = <<ls>>
    BY <1>4, <1>10, <1>11 DEF n
  <2>2. segs = [i \in 1..1 |-> JoinLines(<<ls>>[i])]
    BY <1>8, <2>1
  <2>3. <<ls>>[1] = ls
    OBVIOUS
  <2>4. segs[1] = text
    BY <1>1, <2>2, <2>3
  <2>5. segs \in Seq(P) /\ Len(segs) = 1
    BY <1>10, <2>1
  <2> QED  BY <2>4, <2>5
<1> QED  BY <1>3, <1>6, <1>10, <1>11 DEF P

\* The states of the search after each segment.
Reaches(f, text, sought, put, n) ==
  f = [i \in 0..n |->
         IF i = 0 THEN {[cursor |-> 1, first |-> 0, out |-> <<>>]}
         ELSE UNION {AppliesSegment(text, sought[i], put[i], d) : d \in f[i - 1]}]

LEMMA ReachExists ==
  ASSUME NEW text, NEW sought, NEW put, NEW n \in Nat
  PROVE  \E f : Reaches(f, text, sought, put, n)
<1> DEFINE T == {m \in Nat : \E f : Reaches(f, text, sought, put, m)}
           start == {[cursor |-> 1, first |-> 0, out |-> <<>>]}
           after(D, i) == UNION {AppliesSegment(text, sought[i], put[i], d) : d \in D}
<1> HIDE DEF start, after
<1>0. \A f, m : Reaches(f, text, sought, put, m) <=>
                  f = [i \in 0..m |-> IF i = 0 THEN start ELSE after(f[i - 1], i)]
  BY DEF Reaches, start, after
<1>1. 0 \in T
  <2> DEFINE g == [i \in 0..0 |-> start]
  <2>1. g = [i \in 0..0 |-> IF i = 0 THEN start ELSE after(g[i - 1], i)]
    OBVIOUS
  <2> HIDE DEF g
  <2>2. Reaches(g, text, sought, put, 0)
    BY <1>0, <2>1
  <2> QED  BY <2>2
<1>2. ASSUME NEW m \in Nat, m \in T
      PROVE  m + 1 \in T
  <2>1. PICK f : Reaches(f, text, sought, put, m)
    BY <1>2
  <2>2. f = [i \in 0..m |-> IF i = 0 THEN start ELSE after(f[i - 1], i)]
    BY <1>0, <2>1
  <2> DEFINE g == [i \in 0..(m + 1) |-> IF i = m + 1 THEN after(f[m], m + 1) ELSE f[i]]
  <2>3. \A i \in 0..(m + 1) : g[i] = IF i = 0 THEN start ELSE after(g[i - 1], i)
    <3> TAKE i \in 0..(m + 1)
    <3>1. CASE i = 0
      <4>1. 0 \in 0..m /\ 0 # m + 1 /\ 0 \in 0..(m + 1)
        OBVIOUS
      <4> QED  BY <2>2, <3>1, <4>1
    <3>2. CASE i = m + 1
      <4>1. i - 1 = m /\ m \in 0..(m + 1) /\ m # m + 1 /\ i # 0
        BY <3>2
      <4> QED  BY <3>2, <4>1
    <3>3. CASE i # 0 /\ i # m + 1
      <4>1. i \in 0..m /\ i - 1 \in 0..(m + 1) /\ i - 1 # m + 1
        BY <3>3
      <4>2. f[i] = after(f[i - 1], i)
        BY <2>2, <3>3, <4>1
      <4> QED  BY <3>3, <4>1, <4>2
    <3> QED  BY <3>1, <3>2, <3>3
  <2>4. g = [i \in 0..(m + 1) |-> g[i]]
    OBVIOUS
  <2> HIDE DEF g
  <2>5. Reaches(g, text, sought, put, m + 1)
    <3>1. g = [i \in 0..(m + 1) |-> IF i = 0 THEN start ELSE after(g[i - 1], i)]
      BY <2>3, <2>4
    <3> QED  BY <1>0, <3>1
  <2> QED  BY <2>5
<1> HIDE DEF T
<1>3. \A m \in Nat : m \in T
  BY <1>1, <1>2, AllNumbers
<1> QED  BY <1>3 DEF T

\* What the attempt yields, of the states after the last segment.
Elided(text, D) ==
  {(SubSeq(text, 1, d.first - 1) \o d.out) \o SubSeq(text, d.cursor, Len(text)) :
     d \in {r \in D : r.first # 0}}

LEMMA ElisionIs ==
  ASSUME NEW text, NEW b, Len(Segments(b.search)) \in Nat
  PROVE  \E f : /\ Reaches(f, text, Segments(b.search), Segments(b.replace), Len(Segments(b.search)))
                /\ EllipsisElision(text, b) =
                     IF Len(Segments(b.search)) # Len(Segments(b.replace))
                        \/ Len(Segments(b.search)) < 2 THEN {}
                     ELSE Elided(text, f[Len(Segments(b.search))])
<1> DEFINE sought == Segments(b.search)
           put == Segments(b.replace)
<1>1. PICK f : /\ f = (CHOOSE h : Reaches(h, text, sought, put, Len(sought)))
               /\ EllipsisElision(text, b) =
                    IF Len(sought) # Len(put) \/ Len(sought) < 2 THEN {}
                    ELSE Elided(text, f[Len(sought)])
  BY DEF EllipsisElision, Reaches, Elided
<1>2. Reaches(f, text, sought, put, Len(sought))
  <2> HIDE DEF sought, put
  <2>1. \E h : Reaches(h, text, sought, put, Len(sought))
    BY ReachExists DEF sought
  <2> QED  BY <1>1, <2>1
<1> QED  BY <1>1, <1>2

From(sought, at, i) == IF i = 1 THEN 1 ELSE at[i - 1] + Len(sought[i - 1])
SegmentPiece(text, sought, put, at, i) ==
  SubSeq(text, From(sought, at, i), at[i] - 1) \o put[i]
FirstPieces(text, sought, put, at, i) ==
  FlattenSeq([j \in 1..i |-> SegmentPiece(text, sought, put, at, j)])

\* The first i segments are at these places, and what was put out is what they became.
Chain(text, sought, put, at, F, out, i) ==
  /\ at \in [DOMAIN sought -> 1..(Len(text) + 1)]
  /\ \A j \in 1..i : /\ at[j] \in IndexOf(sought[j], text, at[j])
                     /\ j > 1 => at[j] >= at[j - 1] + Len(sought[j - 1])
  /\ i = 0 => out = <<>>
  /\ i # 0 => FirstPieces(text, sought, put, at, i) = SubSeq(text, 1, F - 1) \o out

SegmentsAt(S, text, sought, put) ==
  /\ text \in Seq(S) /\ sought \in Seq(Seq(S)) /\ put \in Seq(Seq(S)) /\ Len(put) = Len(sought)

\* An empty part is wherever it is looked for.
LEMMA EmptyIsFound ==
  ASSUME NEW S, NEW text \in Seq(S), NEW k \in 1..(Len(text) + 1)
  PROVE  k \in IndexOf(<<>>, text, k)
<1>1. Len(<<>>) = 0 /\ Len(text) \in Nat /\ k \in Nat
  OBVIOUS
<1>2. SubSeq(text, k, k + 0 - 1) = <<>>
  <2>1. k + 0 - 1 < k /\ k \in Int /\ k + 0 - 1 \in Int
    BY <1>1
  <2> HIDE DEF IndexOf
  <2> QED  BY <2>1, SubSeqEmpty
<1>3. k \in k..(Len(text) - 0 + 1)
  BY <1>1
<1> DEFINE at == {i \in k..(Len(text) - 0 + 1) : SubSeq(text, i, i + 0 - 1) = <<>>}
<1>4. k \in at /\ \A j \in at : k <= j
  BY <1>2, <1>3
<1>5. IndexOf(<<>>, text, k) = {i \in at : \A j \in at : i <= j}
  BY <1>1 DEF IndexOf
<1> HIDE DEF at
<1> QED  BY <1>4, <1>5

\* What is found is found where it is.
LEMMA FoundIsThere ==
  ASSUME NEW S, NEW text \in Seq(S), NEW part \in Seq(S), NEW c \in 1..(Len(text) + 1),
         NEW k \in IndexOf(part, text, c)
  PROVE  /\ k \in 1..(Len(text) + 1) /\ c <= k /\ k + Len(part) <= Len(text) + 1
         /\ SubSeq(text, k, k + Len(part) - 1) = part
         /\ k \in IndexOf(part, text, k)
<1>1. Len(text) \in Nat /\ Len(part) \in Nat /\ c \in Nat
  OBVIOUS
<1>2. k \in c..(Len(text) - Len(part) + 1) /\ SubSeq(text, k, k + Len(part) - 1) = part
  BY DEF IndexOf
<1>3. k \in k..(Len(text) - Len(part) + 1)
  BY <1>1, <1>2
<1> DEFINE at == {i \in k..(Len(text) - Len(part) + 1) : SubSeq(text, i, i + Len(part) - 1) = part}
<1>4. k \in at /\ \A j \in at : k <= j
  BY <1>1, <1>2, <1>3
<1>5. IndexOf(part, text, k) = {i \in at : \A j \in at : i <= j}
  BY DEF IndexOf
<1>6. k \in 1..(Len(text) + 1) /\ c <= k /\ k + Len(part) <= Len(text) + 1
  BY <1>1, <1>2
<1> HIDE DEF at
<1> QED  BY <1>2, <1>4, <1>5, <1>6

\* What is somewhere from c on is found, and no later.
LEMMA ThereIsFound ==
  ASSUME NEW S, NEW text \in Seq(S), NEW part \in Seq(S), NEW c \in 1..(Len(text) + 1),
         NEW p \in 1..(Len(text) + 1), c <= p, p \in IndexOf(part, text, p)
  PROVE  \E k \in IndexOf(part, text, c) : k <= p
<1>1. Len(text) \in Nat /\ Len(part) \in Nat /\ c \in Nat /\ p \in Nat
  OBVIOUS
<1>2. p \in p..(Len(text) - Len(part) + 1) /\ SubSeq(text, p, p + Len(part) - 1) = part
  BY DEF IndexOf
<1> DEFINE at == {i \in c..(Len(text) - Len(part) + 1) : SubSeq(text, i, i + Len(part) - 1) = part}
<1>3. p \in at /\ at \subseteq Nat
  BY <1>1, <1>2
<1>4. IndexOf(part, text, c) = {i \in at : \A j \in at : i <= j}
  BY DEF IndexOf
<1> HIDE DEF at
<1>5. PICK k \in at : \A j \in at : k <= j
  BY <1>3, LeastOf
<1> QED  BY <1>3, <1>4, <1>5

\* One segment more, with its piece.
PiecesGrow(text, sought, put, at, i) ==
  FirstPieces(text, sought, put, at, i + 1) =
    FirstPieces(text, sought, put, at, i) \o SegmentPiece(text, sought, put, at, i + 1)

PieceFits(S, text, sought, put, at, i) == SegmentPiece(text, sought, put, at, i) \in Seq(S)

LEMMA OnePieceMore ==
  ASSUME NEW S, NEW text, NEW sought, NEW put, NEW at, NEW i \in Nat,
         \A j \in 1..(i + 1) : PieceFits(S, text, sought, put, at, j)
  PROVE  PiecesGrow(text, sought, put, at, i)
<1> DEFINE piece(j) == SegmentPiece(text, sought, put, at, j)
           f == [j \in 1..i |-> piece(j)]
           g == [j \in 1..(i + 1) |-> piece(j)]
<1>1. \A j \in 1..(i + 1) : piece(j) \in Seq(S)
  BY DEF PieceFits
<1>2. FirstPieces(text, sought, put, at, i) = FlattenSeq(f)
      /\ FirstPieces(text, sought, put, at, i + 1) = FlattenSeq(g)
  BY DEF FirstPieces
<1> HIDE DEF piece
<1>3. HasParts(f, i) /\ HasParts(g, i + 1) /\ g[i + 1] = piece(i + 1)
  BY DEF HasParts
<1>4. ASSUME NEW j \in 1..i  PROVE f[j] \in Seq(S) /\ g[j] = f[j]
  <2>1. j \in 1..(i + 1)
    OBVIOUS
  <2> QED  BY <1>1, <2>1
<1>5. g[i + 1] \in Seq(S)
  <2>1. i + 1 \in 1..(i + 1)
    OBVIOUS
  <2> QED  BY <1>1, <1>3, <2>1
<1> HIDE DEF f, g
<1>6. PartAdded(S, i, f, g)
  BY <1>3, <1>4, <1>5 DEF PartAdded
<1>7. FlattensTo(g, f, i)
  BY <1>6, OnePartMore
<1> QED  BY <1>2, <1>3, <1>7 DEF FlattensTo, PiecesGrow, piece

\* A stretch of a text is of what the text is of.
LEMMA StretchIs ==
  ASSUME NEW S, NEW text \in Seq(S), NEW i \in Nat \ {0}, NEW j \in Int, j <= Len(text)
  PROVE  SubSeq(text, i, j) \in Seq(S)
<1>1. \A k \in i..j : text[k] \in S
  BY ElementOfSeq
<1> QED  BY <1>1, SubSeqProperties

\* The first segment is at k.
LEMMA ChainStarts ==
  ASSUME NEW S, NEW text, NEW sought, NEW put, SegmentsAt(S, text, sought, put),
         1 <= Len(sought), NEW k \in 1..(Len(text) + 1), k \in IndexOf(sought[1], text, k),
         NEW at \in [DOMAIN sought -> 1..(Len(text) + 1)], at[1] = k
  PROVE  Chain(text, sought, put, at, k, put[1], 1)
<1> DEFINE P == Seq(S)
           N == Len(text)
           pre == SubSeq(text, 1, k - 1)
<1>1. text \in Seq(S) /\ sought \in Seq(P) /\ put \in Seq(P) /\ Len(put) = Len(sought)
  BY DEF SegmentsAt
<1> HIDE DEF P
<1>2. 1 \in 1..Len(put) /\ put[1] \in P /\ N \in Nat /\ k \in Nat /\ k # 0 /\ k <= N + 1
  BY <1>1, ElementOfSeq
<1>3. pre \in P
  <2>1. k - 1 \in Int /\ k - 1 <= Len(text) /\ 1 \in Nat \ {0}
    BY <1>2
  <2> QED  BY <1>1, <2>1, StretchIs DEF P
<1> HIDE DEF N
<1>4. SegmentPiece(text, sought, put, at, 1) = pre \o put[1]
  BY DEF SegmentPiece, From
<1> HIDE DEF pre
<1>5. PieceFits(S, text, sought, put, at, 1)
  <2>1. pre \o put[1] \in P
    BY <1>2, <1>3, ConcatProperties DEF P
  <2> QED  BY <1>4, <2>1 DEF PieceFits, P
<1>6. FirstPieces(text, sought, put, at, 1) = pre \o put[1]
  <2>1. \A j \in 1..(0 + 1) : PieceFits(S, text, sought, put, at, j)
    BY <1>5
  <2>2. PiecesGrow(text, sought, put, at, 0)
    BY <2>1, OnePieceMore
  <2>3. FirstPieces(text, sought, put, at, 0) = <<>>
    <3>1. [j \in 1..0 |-> SegmentPiece(text, sought, put, at, j)] = <<>>
      OBVIOUS
    <3> QED  BY <3>1, FlattenOfNone DEF FirstPieces
  <2>4. FirstPieces(text, sought, put, at, 1) = <<>> \o SegmentPiece(text, sought, put, at, 1)
    <3>1. FirstPieces(text, sought, put, at, 0 + 1) =
            FirstPieces(text, sought, put, at, 0) \o SegmentPiece(text, sought, put, at, 0 + 1)
      BY <2>2 DEF PiecesGrow
    <3>2. 0 + 1 = 1
      OBVIOUS
    <3> QED  BY <2>3, <3>1, <3>2
  <2>5. <<>> \o SegmentPiece(text, sought, put, at, 1) = SegmentPiece(text, sought, put, at, 1)
    BY <1>5, ConcatEmptySeq DEF PieceFits
  <2> QED  BY <1>4, <2>4, <2>5
<1>7. \A j \in 1..1 : /\ at[j] \in IndexOf(sought[j], text, at[j])
                      /\ j > 1 => at[j] >= at[j - 1] + Len(sought[j - 1])
  OBVIOUS
<1>8. FirstPieces(text, sought, put, at, 1) = SubSeq(text, 1, k - 1) \o put[1]
  BY <1>6, Zenon DEF pre
<1>9. 1 # 0
  OBVIOUS
<1> HIDE DEF FirstPieces
<1> QED  BY <1>7, <1>8, <1>9 DEF Chain

\* The next segment is at k, behind those before it.
Later(text, from, k, out, p) == (out \o SubSeq(text, from, k - 1)) \o p

LEMMA ChainGrows ==
  ASSUME NEW S, NEW text, NEW sought, NEW put, SegmentsAt(S, text, sought, put),
         NEW i \in Nat \ {0}, i + 1 <= Len(sought),
         NEW at, NEW F \in 1..(Len(text) + 1), NEW out \in Seq(S),
         Chain(text, sought, put, at, F, out, i),
         NEW k \in 1..(Len(text) + 1), k \in IndexOf(sought[i + 1], text, k),
         NEW from \in Nat, from = at[i] + Len(sought[i]), from <= k
  PROVE  Chain(text, sought, put, [at EXCEPT ![i + 1] = k], F,
               Later(text, from, k, out, put[i + 1]), i + 1)
<1> DEFINE P == Seq(S)
           N == Len(text)
           new == [at EXCEPT ![i + 1] = k]
           pre == SubSeq(text, 1, F - 1)
           gap == SubSeq(text, from, k - 1)
           p == put[i + 1]
           first(j) == SegmentPiece(text, sought, put, at, j)
           piece(j) == SegmentPiece(text, sought, put, new, j)
<1>1. /\ text \in Seq(S) /\ sought \in Seq(P) /\ put \in Seq(P) /\ Len(put) = Len(sought)
      /\ N \in Nat
  BY DEF SegmentsAt
<1>2. /\ at \in [DOMAIN sought -> 1..(N + 1)]
      /\ \A j \in 1..i : /\ at[j] \in IndexOf(sought[j], text, at[j])
                         /\ j > 1 => at[j] >= at[j - 1] + Len(sought[j - 1])
      /\ FirstPieces(text, sought, put, at, i) = pre \o out
  BY DEF Chain
<1> HIDE DEF P, N
<1>3. DOMAIN sought = 1..Len(sought) /\ Len(sought) \in Nat
      /\ \A j \in 1..Len(sought) : /\ sought[j] \in P /\ put[j] \in P /\ Len(sought[j]) \in Nat
                                   /\ at[j] \in 1..(N + 1)
  <2>1. DOMAIN sought = 1..Len(sought) /\ Len(sought) \in Nat
        /\ \A j \in 1..Len(sought) : sought[j] \in P /\ put[j] \in P
    BY <1>1, ElementOfSeq
  <2>2. \A j \in 1..Len(sought) : Len(sought[j]) \in Nat
    BY <2>1 DEF P
  <2> QED  BY <1>2, <2>1, <2>2
<1>4. /\ new \in [DOMAIN sought -> 1..(N + 1)]
      /\ new[i + 1] = k /\ \A j \in 1..i : new[j] = at[j]
  <2>1. k \in 1..(N + 1) /\ i + 1 \in DOMAIN sought /\ \A j \in 1..i : j \in DOMAIN sought /\ j # i + 1
    BY <1>3 DEF N
  <2> QED  BY <1>2, <2>1
<1> HIDE DEF new
<1>5. \A j \in 1..(i + 1) : /\ new[j] \in IndexOf(sought[j], text, new[j])
                            /\ j > 1 => new[j] >= new[j - 1] + Len(sought[j - 1])
  <2> TAKE j \in 1..(i + 1)
  <2>1. CASE j = i + 1
    <3>1. j - 1 = i /\ i \in 1..i
      BY <2>1
    <3>2. new[j] = k /\ new[j - 1] = at[i]
      BY <1>4, <2>1, <3>1
    <3>3. k >= from
      BY <1>1
    <3> QED  BY <2>1, <3>1, <3>2, <3>3
  <2>2. CASE j # i + 1
    <3>1. j \in 1..i /\ (j > 1 => j - 1 \in 1..i)
      BY <2>2
    <3> QED  BY <1>2, <1>4, <3>1
  <2> QED  BY <2>1, <2>2
<1>6. ASSUME NEW j \in 1..(i + 1)  PROVE PieceFits(S, text, sought, put, new, j)
  <2>1. j \in 1..Len(sought) /\ (j # 1 => j - 1 \in 1..i /\ j - 1 \in 1..Len(sought))
    BY <1>3
  <2>2. From(sought, new, j) \in Nat \ {0}
    <3>1. CASE j = 1
      BY <3>1 DEF From
    <3>2. CASE j # 1
      <4>1. new[j - 1] = at[j - 1] /\ at[j - 1] \in 1..(N + 1) /\ Len(sought[j - 1]) \in Nat
        BY <1>3, <1>4, <2>1, <3>2
      <4>3. \A x \in 1..(N + 1), y \in Nat : x + y \in Nat \ {0}
        BY <1>1
      <4>2. at[j - 1] + Len(sought[j - 1]) \in Nat \ {0}
        BY <4>1, <4>3
      <4> QED  BY <3>2, <4>1, <4>2 DEF From
    <3> QED  BY <3>1, <3>2
  <2>3. new[j] \in 1..(N + 1)
    BY <1>3, <1>4, <2>1
  <2>4. new[j] - 1 \in Int /\ new[j] - 1 <= Len(text)
    BY <1>1, <2>3 DEF N
  <2> DEFINE g == SubSeq(text, From(sought, new, j), new[j] - 1)
  <2>5. g \in P
    BY <1>1, <2>2, <2>4, StretchIs DEF P
  <2> HIDE DEF g
  <2>6. g \o put[j] \in P
    BY <1>3, <2>1, <2>5, ConcatProperties DEF P
  <2> QED  BY <2>6 DEF PieceFits, SegmentPiece, P, g
<1>7. FirstPieces(text, sought, put, new, i) = FirstPieces(text, sought, put, at, i)
  <2>1. ASSUME NEW j \in 1..i  PROVE piece(j) = first(j)
    <3>1. new[j] = at[j] /\ (j # 1 => new[j - 1] = at[j - 1])
      BY <1>4
    <3> QED  BY <3>1 DEF SegmentPiece, From
  <2> HIDE DEF piece, first
  <2>2. [j \in 1..i |-> piece(j)] = [j \in 1..i |-> first(j)]
    BY <2>1
  <2> QED  BY <2>2 DEF FirstPieces, piece, first
<1>8. SegmentPiece(text, sought, put, new, i + 1) = gap \o p
  <2>1. i + 1 # 1 /\ (i + 1) - 1 = i /\ i \in 1..i
    OBVIOUS
  <2>2. From(sought, new, i + 1) = from /\ new[i + 1] = k
    BY <1>4, <2>1 DEF From
  <2> QED  BY <2>2 DEF SegmentPiece
<1>9. pre \in P /\ gap \in P /\ p \in P /\ out \in P
  <2>1. /\ F - 1 \in Int /\ F - 1 <= Len(text) /\ 1 \in Nat \ {0}
        /\ k - 1 \in Int /\ k - 1 <= Len(text)
    BY <1>1 DEF N
  <2>2. from \in Nat \ {0}
    <3>1. i \in 1..Len(sought)
      BY <1>3
    <3>2. at[i] \in 1..(N + 1) /\ Len(sought[i]) \in Nat
      BY <1>3, <3>1
    <3> QED  BY <1>1, <3>2
  <2>3. i + 1 \in 1..Len(sought)
    BY <1>3
  <2>4. pre \in P /\ gap \in P
    BY <1>1, <2>1, <2>2, StretchIs DEF P
  <2> QED  BY <1>3, <2>3, <2>4 DEF P
<1>10. FirstPieces(text, sought, put, new, i + 1) = (pre \o out) \o (gap \o p)
  <2>1. PiecesGrow(text, sought, put, new, i)
    BY <1>6, OnePieceMore
  <2> QED  BY <1>2, <1>7, <1>8, <2>1 DEF PiecesGrow
<1> HIDE DEF pre, gap, p
<1>11. (pre \o out) \o (gap \o p) = pre \o ((out \o gap) \o p)
  <2>1. gap \o p \in P
    BY <1>9, ConcatProperties DEF P
  <2>2. JoinsTo(pre, out, gap \o p) /\ JoinsTo(out, gap, p)
    BY <1>9, <2>1, Joined DEF P
  <2> QED  BY <2>2 DEF JoinsTo
<1>12. i + 1 # 0
  OBVIOUS
<1>13. Later(text, from, k, out, put[i + 1]) = (out \o gap) \o p
  BY DEF Later, gap, p
<1> QED  BY <1>4, <1>5, <1>10, <1>11, <1>12, <1>13 DEF Chain, N, new, pre

\* Places of segments that are not fixed yet.
AllAt(sought, k) == [j \in DOMAIN sought |-> k]

\* The state of the search after i segments.
Seeks(S, text, sought, put, d, i) ==
  /\ d \in [cursor : 1..(Len(text) + 1), first : 0..(Len(text) + 1), out : Seq(S)]
  /\ d.first = 0 =>
       /\ d.cursor = 1
       /\ \A j \in 1..i : sought[j] = <<>>
       /\ \A F \in 1..(Len(text) + 1) :
            Chain(text, sought, put, AllAt(sought, F), F, d.out, i)
  /\ d.first # 0 =>
       /\ i # 0
       /\ \E at : /\ Chain(text, sought, put, at, d.first, d.out, i)
                  /\ d.cursor = at[i] + Len(sought[i])

LEMMA SeekStarts ==
  ASSUME NEW S, NEW text \in Seq(S), NEW sought, NEW put
  PROVE  Seeks(S, text, sought, put, [cursor |-> 1, first |-> 0, out |-> <<>>], 0)
<1> DEFINE d == [cursor |-> 1, first |-> 0, out |-> <<>>]
<1>1. Len(text) \in Nat
  OBVIOUS
<1>2. d \in [cursor : 1..(Len(text) + 1), first : 0..(Len(text) + 1), out : Seq(S)]
      /\ d.first = 0 /\ d.cursor = 1 /\ d.out = <<>>
  BY <1>1
<1> HIDE DEF d
<1>3. ASSUME NEW F \in 1..(Len(text) + 1)
      PROVE  Chain(text, sought, put, AllAt(sought, F), F, d.out, 0)
  BY <1>2 DEF Chain, AllAt
<1>4. Seeks(S, text, sought, put, d, 0)
  BY <1>2, <1>3 DEF Seeks
<1> QED  BY <1>4 DEF d

\* A segment more where all before it were empty.
LEMMA FirstPlace ==
  ASSUME NEW S, NEW text, NEW sought, NEW put, SegmentsAt(S, text, sought, put),
         NEW i \in Nat, i + 1 <= Len(sought), NEW out \in Seq(S), NEW F \in 1..(Len(text) + 1),
         \A j \in 1..i : sought[j] = <<>>,
         Chain(text, sought, put, AllAt(sought, F), F, out, i),
         F \in IndexOf(sought[i + 1], text, F)
  PROVE  Chain(text, sought, put, AllAt(sought, F), F, out \o put[i + 1], i + 1)
<1> DEFINE P == Seq(S)
           at == AllAt(sought, F)
           p == put[i + 1]
<1>1. text \in Seq(S) /\ sought \in Seq(P) /\ put \in Seq(P) /\ Len(put) = Len(sought)
  BY DEF SegmentsAt
<1> HIDE DEF P
<1>2. DOMAIN sought = 1..Len(sought) /\ i + 1 \in 1..Len(put) /\ Len(sought) \in Nat
  BY <1>1
<1>3. p \in P
  BY <1>1, <1>2, ElementOfSeq
<1>4. at \in [DOMAIN sought -> 1..(Len(text) + 1)] /\ \A j \in DOMAIN sought : at[j] = F
  BY DEF AllAt
<1> HIDE DEF at, p
<1>5. CASE i = 0
  <2>1. at[1] = F /\ 1 <= Len(sought) /\ F \in IndexOf(sought[1], text, F)
    BY <1>1, <1>2, <1>4, <1>5
  <2>2. Chain(text, sought, put, at, F, put[1], 1)
    BY <1>4, <2>1, ChainStarts
  <2>3. out = <<>>
    BY <1>5 DEF Chain
  <2>4. <<>> \o p = p
    BY <1>3, ConcatEmptySeq DEF P
  <2>5. i + 1 = 1
    BY <1>5
  <2> QED  BY <2>2, <2>3, <2>4, <2>5 DEF at, p
<1>6. CASE i # 0
  <2>1. i \in 1..i /\ i \in DOMAIN sought /\ i \in Nat \ {0}
    BY <1>1, <1>2, <1>6
  <2>2. sought[i] = <<>> /\ at[i] = F /\ F \in Nat /\ F = at[i] + Len(sought[i]) /\ F <= F
    BY <1>4, <2>1
  <2>3. Chain(text, sought, put, at, F, out, i)
    BY DEF at
  <2> DEFINE new == [at EXCEPT ![i + 1] = F]
  <2>4. new = at
    <3>1. i + 1 \in DOMAIN sought /\ DOMAIN at = DOMAIN sought
      BY <1>1, <1>2, <1>4
    <3>2. at[i + 1] = F
      BY <1>4, <3>1
    <3> QED  BY <1>4, <3>2
  <2> HIDE DEF new
  <2>5. Chain(text, sought, put, new, F, Later(text, F, F, out, put[i + 1]), i + 1)
    BY <2>1, <2>2, <2>3, ChainGrows DEF new
  <2>6. Later(text, F, F, out, put[i + 1]) = out \o p
    <3>1. SubSeq(text, F, F - 1) = <<>>
      <4>1. F - 1 < F /\ F \in Int /\ F - 1 \in Int
        BY <2>2
      <4> QED  BY <4>1, SubSeqEmpty
    <3>2. out \o <<>> = out
      BY ConcatEmptySeq
    <3> QED  BY <3>1, <3>2 DEF Later, p
  <2> QED  BY <2>4, <2>5, <2>6 DEF at, p
<1> QED  BY <1>5, <1>6

\* A segment more.
LEMMA SeekSteps ==
  ASSUME NEW S, NEW text, NEW sought, NEW put, SegmentsAt(S, text, sought, put),
         NEW i \in Nat, i + 1 <= Len(sought),
         NEW d, Seeks(S, text, sought, put, d, i),
         NEW e \in AppliesSegment(text, sought[i + 1], put[i + 1], d)
  PROVE  Seeks(S, text, sought, put, e, i + 1)
<1> DEFINE P == Seq(S)
           L == Len(text) + 1
           x == sought[i + 1]
           p == put[i + 1]
           D == [cursor : 1..L, first : 0..L, out : Seq(S)]
<1>1. /\ text \in Seq(S) /\ sought \in Seq(P) /\ put \in Seq(P) /\ Len(put) = Len(sought)
      /\ L \in Nat
  BY DEF SegmentsAt
<1> HIDE DEF P, L
<1>2. x \in P /\ p \in P /\ DOMAIN sought = 1..Len(sought)
  <2>1. i + 1 \in 1..Len(sought) /\ i + 1 \in 1..Len(put)
    BY <1>1
  <2> QED  BY <1>1, <2>1, ElementOfSeq
<1> HIDE DEF x, p
<1>3. /\ d \in D
      /\ d.first = 0 =>
           /\ d.cursor = 1 /\ \A j \in 1..i : sought[j] = <<>>
           /\ \A F \in 1..L : Chain(text, sought, put, AllAt(sought, F), F, d.out, i)
      /\ d.first # 0 =>
           /\ i # 0
           /\ \E at : /\ Chain(text, sought, put, at, d.first, d.out, i)
                      /\ d.cursor = at[i] + Len(sought[i])
  BY DEF Seeks, L
<1>4. d.cursor \in 1..L /\ d.first \in 0..L /\ d.out \in Seq(S)
  BY <1>3
<1>5. d.out \o p \in Seq(S) /\ d.out \o <<>> = d.out
  BY <1>2, <1>4, ConcatProperties, ConcatEmptySeq DEF P
<1>6. i + 1 # 0
  OBVIOUS
\* As long as nothing was found, the places are not fixed yet.
<1>7. ASSUME d.first = 0, NEW k \in 1..L, k \in IndexOf(x, text, k)
      PROVE  Chain(text, sought, put, AllAt(sought, k), k, d.out \o p, i + 1)
  <2>1. Chain(text, sought, put, AllAt(sought, k), k, d.out, i)
        /\ \A j \in 1..i : sought[j] = <<>>
    BY <1>3, <1>7
  <2>2. Chain(text, sought, put, AllAt(sought, k), k, d.out \o put[i + 1], i + 1)
    BY <1>4, <1>7, <2>1, FirstPlace DEF x, L
  <2> QED  BY <2>2 DEF p
\* Once something was found, they are.
<1>8. ASSUME d.first # 0, NEW k \in 1..L, d.cursor <= k, k \in IndexOf(x, text, k)
      PROVE  \E at : /\ Chain(text, sought, put, at, d.first, Later(text, d.cursor, k, d.out, p), i + 1)
                     /\ at[i + 1] = k
  <2>1. PICK at : /\ Chain(text, sought, put, at, d.first, d.out, i)
                  /\ d.cursor = at[i] + Len(sought[i])
    BY <1>3, <1>8
  <2> DEFINE new == [at EXCEPT ![i + 1] = k]
  <2>2. i \in Nat \ {0} /\ d.first \in 1..L /\ d.cursor \in Nat
    BY <1>1, <1>3, <1>4, <1>8
  <2>3. Chain(text, sought, put, new, d.first,
              Later(text, d.cursor, k, d.out, put[i + 1]), i + 1)
    BY <1>4, <1>8, <2>1, <2>2, ChainGrows DEF x, L
  <2>4. new[i + 1] = k
    <3>1. i + 1 \in DOMAIN sought
      BY <1>1, <1>2
    <3>2. at \in [DOMAIN sought -> 1..(Len(text) + 1)]
      BY <2>1 DEF Chain
    <3> QED  BY <3>1, <3>2
  <2> HIDE DEF new
  <2> QED  BY <2>3, <2>4 DEF p
<1>9. CASE x = <<>>
  <2>1. e = [d EXCEPT !.out = @ \o p]
    BY <1>9 DEF AppliesSegment, x, p
  <2>2. e \in D /\ e.first = d.first /\ e.cursor = d.cursor /\ e.out = d.out \o p
    BY <1>3, <1>5, <2>1
  <2>3. ASSUME NEW k \in 1..L  PROVE k \in IndexOf(x, text, k)
    BY <1>1, <1>9, EmptyIsFound DEF L
  <2>4. ASSUME d.first = 0
        PROVE  /\ \A j \in 1..(i + 1) : sought[j] = <<>>
               /\ \A F \in 1..L : Chain(text, sought, put, AllAt(sought, F), F, e.out, i + 1)
    <3>1. \A j \in 1..(i + 1) : sought[j] = <<>>
      <4> TAKE j \in 1..(i + 1)
      <4>1. j \in 1..i \/ j = i + 1
        OBVIOUS
      <4> QED  BY <1>3, <1>9, <2>4, <4>1 DEF x
    <3> QED  BY <1>7, <2>2, <2>3, <2>4, <3>1
  <2>5. ASSUME d.first # 0
        PROVE  \E at : /\ Chain(text, sought, put, at, e.first, e.out, i + 1)
                       /\ e.cursor = at[i + 1] + Len(sought[i + 1])
    <3> DEFINE k == d.cursor
    <3>1. k \in 1..L /\ k <= k /\ k \in IndexOf(x, text, k)
      BY <1>1, <1>4, <2>3
    <3> HIDE DEF k
    <3>2. PICK at : Chain(text, sought, put, at, d.first, Later(text, d.cursor, k, d.out, p), i + 1)
                    /\ at[i + 1] = k
      <4>1. d.cursor <= k
        BY <3>1 DEF k
      <4> QED  BY <1>8, <2>5, <3>1, <4>1
    <3>3. Later(text, d.cursor, k, d.out, p) = e.out
      <4>1. SubSeq(text, k, k - 1) = <<>>
        <5>1. k - 1 < k /\ k \in Int /\ k - 1 \in Int
          BY <1>1, <3>1
        <5> QED  BY <5>1, SubSeqEmpty
      <4> QED  BY <1>5, <2>2, <4>1 DEF Later, k
    <3>4. e.cursor = at[i + 1] + Len(sought[i + 1])
      <4>1. Len(x) = 0 /\ e.cursor = k /\ k \in Nat
        BY <1>9, <2>2, <3>1 DEF k
      <4> QED  BY <3>2, <4>1 DEF x
    <3> QED  BY <2>2, <3>2, <3>3, <3>4
  <2> QED  BY <1>3, <1>6, <2>2, <2>4, <2>5 DEF Seeks, L
<1>10. CASE x # <<>>
  <2>1. PICK k \in IndexOf(x, text, d.cursor) :
          e = [cursor |-> k + Len(x),
               first |-> IF d.first = 0 THEN k ELSE d.first,
               out |-> (d.out \o (IF d.first = 0 THEN <<>>
                                  ELSE Gap(text, d.cursor, k))) \o p]
    BY <1>10 DEF AppliesSegment, x, p
  <2>2. /\ k \in 1..L /\ d.cursor <= k /\ k + Len(x) <= L /\ k \in IndexOf(x, text, k)
    BY <1>1, <1>2, <1>4, FoundIsThere DEF P, L
  <2>3. Len(x) \in Nat
    BY <1>2 DEF P
  <2>4. e.cursor = k + Len(x) /\ e.cursor \in 1..L
    BY <1>1, <2>1, <2>2, <2>3
  <2>5. CASE d.first = 0
    <3>1. e.first = k /\ e.out = d.out \o p
      BY <1>5, <2>1, <2>5
    <3>2. e \in D
      <4>1. k \in 0..L /\ k + Len(x) \in 1..L
        BY <1>1, <2>1, <2>2, <2>4
      <4> QED  BY <1>5, <2>1, <2>5, <3>1, <4>1
    <3>3. k # 0
      BY <1>1, <2>2
    <3> DEFINE at == AllAt(sought, k)
    <3>4. Chain(text, sought, put, at, e.first, e.out, i + 1)
      BY <1>7, <2>2, <2>5, <3>1
    <3>5. at[i + 1] = k
      <4>1. i + 1 \in DOMAIN sought
        BY <1>1, <1>2
      <4> QED  BY <4>1 DEF AllAt
    <3> HIDE DEF at
    <3>6. e.cursor = at[i + 1] + Len(sought[i + 1])
      BY <2>4, <3>5 DEF x
    <3> QED  BY <1>6, <3>1, <3>2, <3>3, <3>4, <3>6 DEF Seeks, L
  <2>6. CASE d.first # 0
    <3>1. e.first = d.first /\ e.out = Later(text, d.cursor, k, d.out, p)
      BY <2>1, <2>6 DEF Gap, Later
    <3>2. PICK at : /\ Chain(text, sought, put, at, d.first, Later(text, d.cursor, k, d.out, p), i + 1)
                    /\ at[i + 1] = k
      BY <1>8, <2>2, <2>6
    <3>3. e.out \in Seq(S)
      <4> DEFINE gap == SubSeq(text, d.cursor, k - 1)
      <4>1. gap \in P
        <5>1. d.cursor \in Nat \ {0} /\ k - 1 \in Int /\ k - 1 <= Len(text)
          BY <1>1, <1>4, <2>2 DEF L
        <5> QED  BY <1>1, <5>1, StretchIs DEF P
      <4> HIDE DEF gap
      <4>2. d.out \o gap \in P
        BY <1>4, <4>1, ConcatProperties DEF P
      <4>3. (d.out \o gap) \o p \in P
        BY <1>2, <4>2, ConcatProperties DEF P
      <4> QED  BY <3>1, <4>3 DEF Later, P, gap
    <3>4. e \in D
      <4>1. e = [cursor |-> e.cursor, first |-> e.first, out |-> e.out]
        BY <2>1
      <4> QED  BY <1>4, <2>4, <3>1, <3>3, <4>1
    <3>5. e.cursor = at[i + 1] + Len(sought[i + 1])
      BY <2>4, <3>2 DEF x
    <3> QED  BY <1>6, <2>6, <3>1, <3>2, <3>4, <3>5 DEF Seeks, L
  <2> QED  BY <2>5, <2>6
<1> QED  BY <1>9, <1>10

LEMMA AllSeek ==
  ASSUME NEW S, NEW text, NEW sought, NEW put, SegmentsAt(S, text, sought, put),
         NEW f, Reaches(f, text, sought, put, Len(sought))
  PROVE  \A i \in 0..Len(sought) : \A d \in f[i] : Seeks(S, text, sought, put, d, i)
<1> DEFINE n == Len(sought)
           T == {i \in Nat : i <= n => \A d \in f[i] : Seeks(S, text, sought, put, d, i)}
<1>1. text \in Seq(S) /\ n \in Nat
  BY DEF SegmentsAt
<1>2. \A i \in 0..n :
        f[i] = IF i = 0 THEN {[cursor |-> 1, first |-> 0, out |-> <<>>]}
               ELSE UNION {AppliesSegment(text, sought[i], put[i], d) : d \in f[i - 1]}
  BY Zenon DEF Reaches
<1> HIDE DEF n
<1>3. 0 \in T
  <2>1. f[0] = {[cursor |-> 1, first |-> 0, out |-> <<>>]}
    <3>1. 0 \in 0..n
      BY <1>1
    <3> QED  BY <1>2, <3>1, Zenon
  <2> QED  BY <1>1, <2>1, SeekStarts
<1>4. ASSUME NEW i \in Nat, i \in T  PROVE i + 1 \in T
  <2> SUFFICES ASSUME i + 1 <= n, NEW e \in f[i + 1]
               PROVE  Seeks(S, text, sought, put, e, i + 1)
    OBVIOUS
  <2>1. i <= n /\ i + 1 \in 0..n /\ i + 1 # 0 /\ (i + 1) - 1 = i
    BY <1>1
  <2>2. f[i + 1] = UNION {AppliesSegment(text, sought[i + 1], put[i + 1], d) : d \in f[i]}
    BY <1>2, <2>1
  <2>3. PICK d \in f[i] : e \in AppliesSegment(text, sought[i + 1], put[i + 1], d)
    BY <2>2
  <2>4. Seeks(S, text, sought, put, d, i)
    BY <1>4, <2>1
  <2> QED  BY <2>3, <2>4, SeekSteps DEF n
<1> HIDE DEF T
<1>5. \A i \in Nat : i \in T
  BY <1>3, <1>4, AllNumbers
<1>6. ASSUME NEW i \in 0..n, NEW d \in f[i]  PROVE Seeks(S, text, sought, put, d, i)
  <2>1. i \in Nat /\ i <= n
    BY <1>1
  <2> QED  BY <1>5, <2>1 DEF T
<1> QED  BY <1>6 DEF n

LEMMA EllipsisRewrites ==
  ASSUME NEW S, Newline \in S, NEW text \in Seq(S), NEW b,
         b.search \in Seq(S), b.replace \in Seq(S), NEW t \in EllipsisElision(text, b)
  PROVE  t \in Seq(S) /\ RewritesSegments(text, b, t)
<1> DEFINE P == Seq(S)
           sought == Segments(b.search)
           put == Segments(b.replace)
           n == Len(sought)
           old == text
<1>1. sought \in Seq(P) /\ put \in Seq(P) /\ n \in Nat \ {0}
  BY SegmentsAre
<1>2. PICK f : /\ Reaches(f, text, sought, put, n)
               /\ EllipsisElision(text, b) =
                    IF n # Len(put) \/ n < 2 THEN {} ELSE Elided(text, f[n])
  <2>1. Len(Segments(b.search)) \in Nat
    BY <1>1
  <2> QED  BY <2>1, ElisionIs
<1> HIDE DEF sought, put
<1>3. n = Len(put) /\ t \in Elided(text, f[n])
  BY <1>2
<1>4. SegmentsAt(S, text, sought, put)
  BY <1>1, <1>3 DEF SegmentsAt, P
<1>5. PICK d \in f[n] :
        /\ d.first # 0
        /\ t = (SubSeq(text, 1, d.first - 1) \o d.out) \o SubSeq(text, d.cursor, Len(text))
  BY <1>3 DEF Elided
<1>6. Seeks(S, text, sought, put, d, n)
  <2>1. n \in 0..n
    BY <1>1
  <2> QED  BY <1>2, <1>4, <2>1, AllSeek
<1> HIDE DEF n
<1>7. PICK at : Chain(text, sought, put, at, d.first, d.out, n)
                /\ d.cursor = at[n] + Len(sought[n])
  BY <1>5, <1>6 DEF Seeks
<1>8. /\ d.cursor \in 1..(Len(text) + 1) /\ d.first \in 0..(Len(text) + 1) /\ d.out \in Seq(S)
      /\ Len(text) \in Nat
  BY <1>6 DEF Seeks
<1>9. t \in Seq(S)
  <2> DEFINE a == SubSeq(text, 1, d.first - 1)
             c == SubSeq(text, d.cursor, Len(text))
  <2>1. /\ 1 \in Nat \ {0} /\ d.first - 1 \in Int /\ d.first - 1 <= Len(text)
        /\ d.cursor \in Nat \ {0} /\ Len(text) \in Int /\ Len(text) <= Len(text)
    BY <1>8
  <2>2. a \in Seq(S) /\ c \in Seq(S)
    BY <2>1, StretchIs
  <2>3. t = (a \o d.out) \o c
    BY <1>5
  <2> HIDE DEF a, c
  <2>4. a \o d.out \in Seq(S)
    BY <1>8, <2>2, ConcatProperties
  <2> QED  BY <2>2, <2>3, <2>4, ConcatProperties
<1>10. DOMAIN sought = 1..n /\ n # 0 /\ Last(sought) = sought[n]
  BY <1>1 DEF n, Last
<1>11. at \in Placements(text, sought)
  BY <1>7, <1>10 DEF Chain, Placements
<1>12. Last(at) = at[n]
  <2>1. DOMAIN at = 1..n
    BY <1>7, <1>10 DEF Chain
  <2>2. at = [i \in 1..n |-> at[i]]
    BY <1>7, <1>10 DEF Chain
  <2>3. Len(at) = n
    BY <1>1, <2>1, <2>2 DEF n
  <2> QED  BY <2>3 DEF Last
<1>13. t = FirstPieces(text, sought, put, at, n) \o SubSeq(text, Last(at) + Len(Last(sought)), Len(text))
  BY <1>5, <1>7, <1>10, <1>12 DEF Chain
<1>14. FirstPieces(text, sought, put, at, n) =
         FlattenSeq([i \in DOMAIN sought |-> SegmentPiece(text, sought, put, at, i)])
  BY <1>10 DEF FirstPieces
<1>15. RewritesSegments(text, b, t)
  <2> DEFINE from(a, i) == IF i = 1 THEN 1 ELSE a[i - 1] + Len(sought[i - 1])
  <2>1. RewritesSegments(text, b, t) =
          (/\ Len(sought) = Len(put)
           /\ \E a \in Placements(text, sought) :
                t = FlattenSeq([i \in DOMAIN sought |->
                                  SubSeq(text, from(a, i), a[i] - 1) \o put[i]])
                      \o SubSeq(text, Last(a) + Len(Last(sought)), Len(text)))
    BY DEF RewritesSegments, sought, put
  <2>2. [i \in DOMAIN sought |-> SubSeq(text, from(at, i), at[i] - 1) \o put[i]] =
        [i \in DOMAIN sought |-> SegmentPiece(text, sought, put, at, i)]
    BY DEF SegmentPiece, From
  <2>3. t = FlattenSeq([i \in DOMAIN sought |-> SubSeq(text, from(at, i), at[i] - 1) \o put[i]])
              \o SubSeq(text, Last(at) + Len(Last(sought)), Len(text))
    BY <1>13, <1>14, <2>2
  <2>4. Len(sought) = Len(put)
    BY <1>3 DEF n
  <2> HIDE DEF from
  <2> QED  BY <1>11, <2>1, <2>3, <2>4
<1> QED  BY <1>9, <1>15

\* Where the segments are in the text, the search comes past them, and no later.
LEMMA EllipsisFinds ==
  ASSUME NEW S, Newline \in S, NEW text \in Seq(S), NEW b,
         b.search \in Seq(S), b.replace \in Seq(S),
         Len(Segments(b.search)) = Len(Segments(b.replace)), 2 <= Len(Segments(b.search)),
         \E s \in Range(Segments(b.search)) : s # <<>>,
         NEW at \in Placements(text, Segments(b.search))
  PROVE  EllipsisElision(text, b) # {}
<1> DEFINE P == Seq(S)
           sought == Segments(b.search)
           put == Segments(b.replace)
           n == Len(sought)
<1>1. sought \in Seq(P) /\ put \in Seq(P) /\ n \in Nat \ {0}
  BY SegmentsAre
<1>2. PICK f : /\ Reaches(f, text, sought, put, n)
               /\ EllipsisElision(text, b) =
                    IF n # Len(put) \/ n < 2 THEN {} ELSE Elided(text, f[n])
  <2>1. Len(Segments(b.search)) \in Nat
    BY <1>1
  <2> QED  BY <2>1, ElisionIs
<1>3. EllipsisElision(text, b) = Elided(text, f[n])
  BY <1>1, <1>2
<1>4. SegmentsAt(S, text, sought, put)
  BY <1>1 DEF SegmentsAt
<1>5. PICK m \in 1..n : sought[m] # <<>>
  <2> HIDE DEF sought
  <2>1. \E s \in Range(sought) : s # <<>>
    BY DEF sought
  <2> QED  BY <1>1, <2>1 DEF Range
<1>6. /\ at \in [1..n -> 1..(Len(text) + 1)]
      /\ \A i \in 1..n : /\ at[i] \in IndexOf(sought[i], text, at[i])
                         /\ i > 1 => at[i] >= at[i - 1] + Len(sought[i - 1])
  <2>1. DOMAIN sought = 1..n
    BY <1>1
  <2> QED  BY <2>1 DEF Placements
<1> HIDE DEF P, sought, put, n
<1>7. \A i \in 1..n : sought[i] \in P /\ Len(sought[i]) \in Nat /\ at[i] \in 1..(Len(text) + 1)
  <2>1. \A i \in 1..n : sought[i] \in P
    BY <1>1, ElementOfSeq DEF n
  <2>2. \A i \in 1..n : Len(sought[i]) \in Nat
    BY <2>1 DEF P
  <2>3. \A i \in 1..n : at[i] \in 1..(Len(text) + 1)
    BY <1>6
  <2> QED  BY <2>1, <2>2, <2>3
<1>8. \A i \in 0..n : \A d \in f[i] : Seeks(S, text, sought, put, d, i)
  BY <1>2, <1>4, AllSeek DEF n
<1>9. \A i \in 0..n :
        f[i] = IF i = 0 THEN {[cursor |-> 1, first |-> 0, out |-> <<>>]}
               ELSE UNION {AppliesSegment(text, sought[i], put[i], d) : d \in f[i - 1]}
  BY <1>2, Zenon DEF Reaches
<1> DEFINE behind(i) == IF i = 0 THEN 1 ELSE at[i] + Len(sought[i])
           good(d, i) == /\ d.cursor <= behind(i)
                         /\ (\E j \in 1..i : sought[j] # <<>>) => d.first # 0
           T == {i \in Nat : i <= n => \E d \in f[i] : good(d, i)}
<1>10. 0 \in T
  <2> DEFINE d == [cursor |-> 1, first |-> 0, out |-> <<>>]
  <2>1. d \in f[0]
    <3>1. 0 \in 0..n
      BY <1>1
    <3>2. f[0] = {d}
      BY <1>9, <3>1, Zenon
    <3> QED  BY <3>2
  <2>2. good(d, 0)
    OBVIOUS
  <2> HIDE DEF d, good
  <2> QED  BY <2>1, <2>2
<1>11. ASSUME NEW i \in Nat, i \in T  PROVE i + 1 \in T
  <2> SUFFICES ASSUME i + 1 <= n  PROVE \E e \in f[i + 1] : good(e, i + 1)
    OBVIOUS
  <2>1. i <= n /\ i + 1 \in 0..n /\ i + 1 \in 1..n /\ i + 1 # 0 /\ (i + 1) - 1 = i /\ i \in 0..n
    BY <1>1
  <2>2. PICK d \in f[i] : good(d, i)
    BY <1>11, <2>1
  <2>3. f[i + 1] = UNION {AppliesSegment(text, sought[i + 1], put[i + 1], c) : c \in f[i]}
    BY <1>9, <2>1
  <2>4. d.cursor \in 1..(Len(text) + 1)
    BY <1>8, <2>1 DEF Seeks
  <2>5. at[i + 1] \in 1..(Len(text) + 1) /\ Len(sought[i + 1]) \in Nat /\ sought[i + 1] \in P
        /\ at[i + 1] \in IndexOf(sought[i + 1], text, at[i + 1])
    BY <1>6, <1>7, <2>1
  <2>6. d.cursor <= at[i + 1]
    <3>1. behind(i) <= at[i + 1]
      <4>1. CASE i = 0
        BY <2>5, <4>1
      <4>2. CASE i # 0
        <5>1. i + 1 > 1 /\ i \in 1..n
          BY <1>1, <2>1, <4>2
        <5>2. at[i + 1] >= at[i] + Len(sought[i])
          BY <1>6, <2>1, <5>1
        <5>3. at[i] \in Nat /\ Len(sought[i]) \in Nat /\ at[i + 1] \in Nat
          BY <1>7, <2>5, <5>1
        <5> QED  BY <4>2, <5>2, <5>3
      <4> QED  BY <4>1, <4>2
    <3>2. behind(i) \in Nat
      <4>1. i # 0 => i \in 1..n
        BY <2>1
      <4> QED  BY <1>7, <4>1
    <3>3. d.cursor <= behind(i)
      BY <2>2
    <3> HIDE DEF behind
    <3> QED  BY <2>4, <2>5, <3>1, <3>2, <3>3
  <2>7. behind(i + 1) = at[i + 1] + Len(sought[i + 1])
    BY <2>1
  <2>8. (\E j \in 1..i : sought[j] # <<>>) => d.first # 0
    BY <2>2
  <2>9. ASSUME (\E j \in 1..(i + 1) : sought[j] # <<>>), sought[i + 1] = <<>>
        PROVE  d.first # 0
    <3>1. PICK j \in 1..(i + 1) : sought[j] # <<>>
      BY <2>9
    <3>2. j \in 1..i
      BY <2>9, <3>1
    <3> QED  BY <2>8, <3>1, <3>2
  <2> HIDE DEF behind
  <2>10. CASE sought[i + 1] = <<>>
    <3> DEFINE e == [d EXCEPT !.out = @ \o put[i + 1]]
    <3>1. e \in AppliesSegment(text, sought[i + 1], put[i + 1], d)
      BY <2>10 DEF AppliesSegment
    <3>2. d \in [cursor : 1..(Len(text) + 1), first : 0..(Len(text) + 1), out : Seq(S)]
      BY <1>8, <2>1 DEF Seeks
    <3>3. e.cursor = d.cursor /\ e.first = d.first
      BY <3>2
    <3> HIDE DEF e
    <3>4. e.cursor <= behind(i + 1)
      <4>1. at[i + 1] \in Nat /\ Len(sought[i + 1]) \in Nat /\ d.cursor \in Nat
        BY <2>4, <2>5
      <4> QED  BY <2>6, <2>7, <3>3, <4>1
    <3>5. good(e, i + 1)
      BY <2>9, <2>10, <3>3, <3>4
    <3>6. e \in f[i + 1]
      BY <2>3, <3>1
    <3> QED  BY <3>5, <3>6
  <2>11. CASE sought[i + 1] # <<>>
    <3>1. PICK k \in IndexOf(sought[i + 1], text, d.cursor) : k <= at[i + 1]
      BY <2>4, <2>5, <2>6, ThereIsFound DEF P
    <3>2. k \in 1..(Len(text) + 1)
      BY <2>4, <2>5, FoundIsThere DEF P
    <3> DEFINE e == [cursor |-> k + Len(sought[i + 1]),
                     first |-> IF d.first = 0 THEN k ELSE d.first,
                     out |-> d.out \o (IF d.first = 0 THEN <<>>
                                       ELSE Gap(text, d.cursor, k)) \o put[i + 1]]
    <3>3. e \in AppliesSegment(text, sought[i + 1], put[i + 1], d)
      BY <2>11 DEF AppliesSegment
    <3>4. e.cursor = k + Len(sought[i + 1]) /\ e.first # 0
      BY <3>2
    <3> HIDE DEF e
    <3>5. e.cursor <= behind(i + 1)
      <4>1. at[i + 1] \in Nat /\ Len(sought[i + 1]) \in Nat /\ k \in Nat
        BY <2>5, <3>2
      <4> QED  BY <2>7, <3>1, <3>4, <4>1
    <3>6. good(e, i + 1)
      BY <3>4, <3>5
    <3>7. e \in f[i + 1]
      BY <2>3, <3>3
    <3> QED  BY <3>6, <3>7
  <2> QED  BY <2>10, <2>11
<1> HIDE DEF T, good
<1>12. n \in T /\ n <= n
  <2>1. \A i \in Nat : i \in T
    BY <1>10, <1>11, AllNumbers
  <2> QED  BY <1>1, <2>1
<1>13. PICK d \in f[n] : good(d, n)
  BY <1>12 DEF T
<1>14. d.first # 0
  BY <1>5, <1>13 DEF good
<1>15. (SubSeq(text, 1, d.first - 1) \o d.out) \o SubSeq(text, d.cursor, Len(text))
         \in Elided(text, f[n])
  BY <1>14 DEF Elided
<1> QED  BY <1>3, <1>15

-----------------------------------------------------------------------------
(* Blocks that are refused.                                                  *)

LEMMA BlankOfNone == IsBlank(<<>>)
<1> DEFINE w == LeadingWhitespace(<<>>)
           r == Stripped(<<>>)
           S == {}
<1>1. <<>> \in Seq(S)
  OBVIOUS
<1> HIDE DEF S
<1>2. w \in Seq(S) /\ r \in Seq(S) /\ <<>> = w \o r
  BY <1>1, LineIs DEF Indents
<1> HIDE DEF w, r
<1>3. r = <<>>
  <2>1. Len(w \o r) = Len(w) + Len(r) /\ Len(w) \in Nat /\ Len(r) \in Nat
    BY <1>2, ConcatProperties
  <2>2. Len(<<>>) = 0
    OBVIOUS
  <2>3. Len(w \o r) = 0
    BY <1>2, <2>2
  <2>4. Len(r) = 0
    BY <2>1, <2>3
  <2> QED  BY <1>2, <2>4, EmptySeq
<1> QED  BY <1>3 DEF IsBlank, r

LEMMA PrefixOfBlank ==
  ASSUME NEW S, NEW line \in Seq(S), NEW d \in Prefixes(LeadingWhitespace(line))
  PROVE  d \in Seq(S) /\ AllBlank(d)
<1> DEFINE w == LeadingWhitespace(line)
<1>1. w \in Seq(S) /\ \A i \in 1..Len(w) : w[i] \in Whitespace
  BY LineIs
<1>2. PICK j \in 0..Len(w) : d = SubSeq(w, 1, j)
  BY DEF Prefixes
<1> HIDE DEF w
<1>3. /\ Len(w) \in Nat /\ j \in Int /\ \A i \in 1..j : w[i] \in S /\ w[i] \in Whitespace
  <2>1. \A i \in 1..j : i \in 1..Len(w)
    BY <1>1
  <2> QED  BY <1>1, <2>1, ElementOfSeq
<1>4. /\ d \in Seq(S) /\ Len(d) = IF 1 <= j THEN j - 1 + 1 ELSE 0
      /\ \A i \in 1..(j - 1 + 1) : d[i] = w[1 + i - 1]
  BY <1>2, <1>3, SubSeqProperties
<1>5. ASSUME NEW i \in 1..Len(d)  PROVE d[i] \in Whitespace
  <2>1. i \in 1..(j - 1 + 1) /\ i \in 1..j /\ 1 + i - 1 = i
    BY <1>2, <1>3, <1>4
  <2> QED  BY <1>3, <1>4, <2>1
<1> QED  BY <1>4, <1>5 DEF AllBlank

FoundAt(k, part, text, c) ==
  /\ k \in 1..(Len(text) + 1) /\ c <= k /\ k + Len(part) <= Len(text) + 1
  /\ SubSeq(text, k, k + Len(part) - 1) = part

LEMMA FoundInside ==
  ASSUME NEW S, NEW text \in Seq(S), NEW part \in Seq(S),
         NEW k \in IndexOf(part, text, 1)
  PROVE  FoundAt(k, part, text, 1)
<1>1. 1 \in 1..(Len(text) + 1)
  OBVIOUS
<1> QED  BY <1>1, FoundIsThere DEF FoundAt

\* Lines that are all further in by the same indentation.
LEMMA DriftFound ==
  ASSUME NEW S, NEW sought \in Seq(Seq(S)), NEW d \in Seq(S), AllBlank(d)
  PROVE  DriftsUniformly(ApplyDelta(sought, d), sought)
<1> DEFINE P == Seq(S)
           r == ApplyDelta(sought, d)
           w(i) == LeadingWhitespace(sought[i])
<1>1. /\ sought \in Seq(P) /\ DOMAIN sought = 1..Len(sought)
      /\ \A i \in 1..Len(sought) : r[i] = IF sought[i] = <<>> THEN <<>> ELSE d \o sought[i]
  BY ApplyDeltaIs
<1> HIDE DEF P, r
<1>2. \A i \in DOMAIN sought : sought[i] \in P
  BY <1>1, ElementOfSeq
<1>3. ASSUME NEW i \in DOMAIN sought, sought[i] # <<>>
      PROVE  /\ Stripped(r[i]) = Stripped(sought[i])
             /\ w(i) \in P /\ LeadingWhitespace(r[i]) = d \o w(i)
  <2>1. r[i] = d \o sought[i] /\ sought[i] \in Seq(S)
    BY <1>1, <1>2, <1>3 DEF P
  <2>2. Indents(LeadingWhitespace(d \o sought[i]), d, LeadingWhitespace(sought[i]))
        /\ Stripped(d \o sought[i]) = Stripped(sought[i])
    BY <2>1, FurtherIn DEF AllBlank
  <2>3. w(i) \in P
    BY <2>1, LineIs DEF P
  <2> QED  BY <2>1, <2>2, <2>3 DEF Indents
<1>4. ASSUME NEW i \in DOMAIN sought
      PROVE  /\ Stripped(r[i]) = Stripped(sought[i])
             /\ IsBlank(sought[i]) \/ IsSuffix(LeadingWhitespace(sought[i]), LeadingWhitespace(r[i]))
  <2>1. CASE sought[i] = <<>>
    <3>1. r[i] = sought[i]
      BY <1>1, <2>1
    <3> QED  BY <2>1, <3>1, BlankOfNone
  <2>2. CASE sought[i] # <<>>
    <3>1. Stripped(r[i]) = Stripped(sought[i]) /\ w(i) \in P /\ LeadingWhitespace(r[i]) = d \o w(i)
      BY <1>3, <2>2
    <3>2. IsSuffix(w(i), d \o w(i))
      <4> HIDE DEF w
      <4> QED  BY <3>1, SuffixIs DEF P
    <3> QED  BY <3>1, <3>2
  <2> QED  BY <2>1, <2>2
<1>5. Deltas(r, sought) \subseteq {d}
  <2> SUFFICES ASSUME NEW e \in Deltas(r, sought)  PROVE e = d
    OBVIOUS
  <2>1. PICK i \in DOMAIN sought : ~IsBlank(sought[i]) /\ e = Delta(r[i], sought[i])
    BY DEF Deltas
  <2>2. sought[i] # <<>>
    BY <2>1, BlankOfNone
  <2>3. w(i) \in P /\ LeadingWhitespace(r[i]) = d \o w(i)
    BY <1>3, <2>2
  <2>4. e = SubSeq(d \o w(i), 1, Len(d \o w(i)) - Len(w(i)))
    BY <2>1, <2>3 DEF Delta
  <2> HIDE DEF w
  <2>5. Len(d \o w(i)) - Len(w(i)) = Len(d)
    <3>1. Len(d \o w(i)) = Len(d) + Len(w(i)) /\ Len(d) \in Nat /\ Len(w(i)) \in Nat
      BY <2>3, ConcatProperties DEF P
    <3> QED  BY <3>1
  <2>6. PutTogether(d, w(i))
    BY <2>3, CutApart DEF P
  <2> QED  BY <2>4, <2>5, <2>6 DEF PutTogether
<1>6. Cardinality(Deltas(r, sought)) <= 1
  <2>1. Deltas(r, sought) = {} \/ Deltas(r, sought) = {d}
    BY <1>5
  <2>2. CASE Deltas(r, sought) = {}
    <3>1. Cardinality(Deltas(r, sought)) = 0
      BY <2>2, FS_EmptySet
    <3> QED  BY <3>1
  <2>3. CASE Deltas(r, sought) = {d}
    <3>1. Cardinality(Deltas(r, sought)) = 1
      BY <2>3, FS_Singleton
    <3> QED  BY <3>1
  <2> QED  BY <2>1, <2>2, <2>3
<1>7. DriftsUniformly(r, sought)
  BY <1>4, <1>6, Zenon DEF DriftsUniformly
<1> QED  BY <1>7 DEF r

LEMMA IndentedIsFound ==
  ASSUME NEW S, Newline \in S, NEW text \in Seq(S), NEW b, b.search \in Seq(S),
         NEW d \in Seq(S), AllBlank(d),
         IndexOf(ApplyDelta(Lines(b.search), d), Lines(text), 1) # {}
  PROVE  WhitespaceTolerant(text, b) # {}
<1> DEFINE P == Seq(S)
           ls == Lines(text)
           sought == Lines(b.search)
           n == Len(ls)
           m == Len(sought)
           r == ApplyDelta(sought, d)
           window(k) == SubSeq(ls, k, k + m - 1)
           K == {k \in 1..(n - m + 1) : DriftsUniformly(window(k), sought)}
<1>1. ls \in Seq(P) /\ sought \in Seq(P) /\ sought # <<>>
  BY LinesMakeTheText
<1> HIDE DEF P, ls, sought
<1>2. n \in Nat /\ m \in Nat
  BY <1>1
<1>3. r \in Seq(P) /\ Len(r) = m
  BY <1>1, ApplyDeltaIs DEF P
<1>4. PICK k : k \in IndexOf(r, ls, 1)
  BY DEF ls, sought
<1> HIDE DEF n, m
<1>5. k \in 1..(n - m + 1) /\ window(k) = r
  <2> HIDE DEF r
  <2>1. FoundAt(k, r, ls, 1)
    BY <1>1, <1>3, <1>4, FoundInside
  <2>2. k \in 1..(Len(ls) + 1) /\ k + Len(r) <= Len(ls) + 1 /\ SubSeq(ls, k, k + Len(r) - 1) = r
    BY <2>1 DEF FoundAt
  <2>3. k \in Nat /\ 1 <= k /\ k + m <= n + 1
    BY <1>2, <1>3, <2>2 DEF n
  <2>4. k \in 1..(n - m + 1)
    BY <1>2, <2>3
  <2> QED  BY <1>3, <2>2, <2>4
<1>6. DriftsUniformly(r, sought)
  BY <1>1, DriftFound DEF P
<1> HIDE DEF r, window
<1>7. k \in K
  BY <1>5, <1>6
<1>8. K \subseteq Nat
  BY <1>2 DEF K
<1>9. PICK j \in K : \A i \in K : j <= i
  BY <1>7, <1>8, LeastOf
<1> DEFINE delta(i) == IF Deltas(window(i), sought) = {} THEN <<>>
                       ELSE CHOOSE e \in Deltas(window(i), sought) : TRUE
           out(i) == JoinLines(SubSeq(ls, 1, i - 1) \o ApplyDelta(Lines(b.replace), delta(i))
                                 \o SubSeq(ls, i + m, n))
<1>10. WhitespaceTolerant(text, b) = {out(i) : i \in {x \in K : \A y \in K : x <= y}}
  BY DEF WhitespaceTolerant, K, n, m, window, ls, sought
<1>11. j \in {x \in K : \A y \in K : x <= y}
  BY <1>9
<1> HIDE DEF out
<1>12. out(j) \in {out(i) : i \in {x \in K : \A y \in K : x <= y}}
  BY <1>11
<1> QED  BY <1>10, <1>12
LEMMA AttemptsAre ==
  ASSUME NEW text, NEW b
  PROVE  /\ ApplyEditBlock(text, b) = {} =>
              /\ Exact(text, b) = {} /\ EllipsisElision(text, b) = {}
              /\ BlankLineDrop(text, b) = {} /\ WhitespaceTolerant(text, b) = {}
         /\ \A t \in ApplyEditBlock(text, b) :
              \/ t \in Exact(text, b) \/ t \in EllipsisElision(text, b)
              \/ t \in BlankLineDrop(text, b) \/ t \in WhitespaceTolerant(text, b)
<1> DEFINE E1 == Exact(text, b)
           E2 == EllipsisElision(text, b)
           E3 == BlankLineDrop(text, b)
           E4 == WhitespaceTolerant(text, b)
           A == <<E1, E2, E3, E4>>
           hits == {n \in DOMAIN A : A[n] # {}}
           best == {k \in hits : \A j \in hits : k <= j}
<1>1. ApplyEditBlock(text, b) = UNION {A[n] : n \in best}
  BY Zenon DEF ApplyEditBlock
<1> HIDE DEF E1, E2, E3, E4
<1>2. DOMAIN A = 1..4 /\ A[1] = E1 /\ A[2] = E2 /\ A[3] = E3 /\ A[4] = E4
  OBVIOUS
<1> HIDE DEF A
<1>3. ASSUME ApplyEditBlock(text, b) = {}, NEW n \in 1..4  PROVE A[n] = {}
  <2> SUFFICES ASSUME A[n] # {} PROVE FALSE
    OBVIOUS
  <2>1. hits \subseteq Nat /\ n \in hits
    BY <1>2
  <2>2. PICK k \in hits : \A j \in hits : k <= j
    <3> HIDE DEF hits
    <3> QED  BY <2>1, LeastOf
  <2>3. k \in best /\ A[k] # {}
    BY <2>2
  <2> HIDE DEF best
  <2> QED  BY <1>1, <1>3, <2>3
<1>4. ASSUME NEW t \in ApplyEditBlock(text, b)
      PROVE  t \in E1 \/ t \in E2 \/ t \in E3 \/ t \in E4
  <2>1. PICK n \in best : t \in A[n]
    <3> HIDE DEF best
    <3> QED  BY <1>1
  <2>2. n \in 1..4
    BY <1>2
  <2>3. n = 1 \/ n = 2 \/ n = 3 \/ n = 4
    BY <2>2
  <2> QED  BY <1>2, <2>1, <2>3
<1>5. ApplyEditBlock(text, b) = {} => E1 = {} /\ E2 = {} /\ E3 = {} /\ E4 = {}
  <2> SUFFICES ASSUME ApplyEditBlock(text, b) = {} PROVE E1 = {} /\ E2 = {} /\ E3 = {} /\ E4 = {}
    OBVIOUS
  <2>1. 1 \in 1..4 /\ 2 \in 1..4 /\ 3 \in 1..4 /\ 4 \in 1..4
    OBVIOUS
  <2> QED  BY <1>2, <1>3, <2>1
<1> QED  BY <1>4, <1>5 DEF E1, E2, E3, E4

LEMMA BlockRewrites ==
  ASSUME NEW S, Newline \in S, NEW text \in Seq(S), NEW b,
         b.search \in Seq(S), b.replace \in Seq(S), NEW t \in ApplyEditBlock(text, b)
  PROVE  /\ t \in Seq(S)
         /\ RewritesOneStretch(text, b, t) \/ RewritesSegments(text, b, t)
<1>1. \/ t \in Exact(text, b) \/ t \in EllipsisElision(text, b)
      \/ t \in BlankLineDrop(text, b) \/ t \in WhitespaceTolerant(text, b)
  BY AttemptsAre
<1>2. CASE t \in Exact(text, b)
  <2>1. t \in Replaces(b.search, b, text)
    BY <1>2 DEF Exact
  <2> QED  BY <2>1, ReplacesRewrite
<1>3. CASE t \in EllipsisElision(text, b)
  BY <1>3, EllipsisRewrites
<1>4. CASE t \in BlankLineDrop(text, b)
  BY <1>4, BlankLineRewrites
<1>5. CASE t \in WhitespaceTolerant(text, b)
  BY <1>5, WhitespaceRewrites
<1> QED  BY <1>1, <1>2, <1>3, <1>4, <1>5

LEMMA RefusedIsNotSought ==
  ASSUME NEW S, Newline \in S, NEW text \in Seq(S), NEW b,
         b.search \in Seq(S), b.replace \in Seq(S), ApplyEditBlock(text, b) = {}
  PROVE  ~Sought(text, b)
<1> SUFFICES ASSUME Sought(text, b) PROVE FALSE
  OBVIOUS
<1>1. /\ Exact(text, b) = {} /\ EllipsisElision(text, b) = {}
      /\ WhitespaceTolerant(text, b) = {}
  BY AttemptsAre
<1>2. CASE \E w \in {LeadingWhitespace(l) : l \in Range(Lines(text))} :
             \E d \in Prefixes(w) :
               IndexOf(ApplyDelta(Lines(b.search), d), Lines(text), 1) # {}
  <2>0. PICK l \in Range(Lines(text)) :
          \E d \in Prefixes(LeadingWhitespace(l)) :
            IndexOf(ApplyDelta(Lines(b.search), d), Lines(text), 1) # {}
    BY <1>2
  <2>1. PICK d \in Prefixes(LeadingWhitespace(l)) :
          IndexOf(ApplyDelta(Lines(b.search), d), Lines(text), 1) # {}
    BY <2>0
  <2>2. l \in Seq(S)
    <3> DEFINE P == Seq(S)
    <3>1. Lines(text) \in Seq(P)
      BY LinesMakeTheText
    <3> HIDE DEF P
    <3>2. PICK i \in DOMAIN Lines(text) : l = Lines(text)[i]
      BY DEF Range
    <3>3. l \in P
      BY <3>1, <3>2
    <3> QED  BY <3>3 DEF P
  <2>3. d \in Seq(S) /\ AllBlank(d)
    BY <2>2, PrefixOfBlank
  <2> QED  BY <1>1, <2>1, <2>3, IndentedIsFound
<1>3. CASE /\ Len(Segments(b.search)) = Len(Segments(b.replace))
           /\ \E s \in Range(Segments(b.search)) : s # <<>>
           /\ Placements(text, Segments(b.search)) # {}
  <2>1. PICK pos : pos \in Placements(text, Segments(b.search))
    BY <1>3
  <2>2. /\ Len(Segments(b.search)) \in Nat \ {0}
        /\ Len(Segments(b.search)) = 1 => Segments(b.search) = <<b.search>>
    BY SegmentsAre
  <2>3. CASE 2 <= Len(Segments(b.search))
    BY <1>1, <1>3, <2>1, <2>3, EllipsisFinds
  <2>4. CASE Len(Segments(b.search)) = 1
    <3>1. Segments(b.search) = <<b.search>>
      BY <2>2, <2>4
    <3>2. /\ pos \in [{1} -> 1..(Len(text) + 1)] /\ pos[1] \in IndexOf(b.search, text, pos[1])
      <4>1. DOMAIN <<b.search>> = {1} /\ <<b.search>>[1] = b.search /\ 1 \in {1}
        OBVIOUS
      <4>2. /\ pos \in [{1} -> 1..(Len(text) + 1)]
            /\ \A i \in {1} : pos[i] \in IndexOf(<<b.search>>[i], text, pos[i])
        BY <2>1, <3>1, <4>1 DEF Placements
      <4> QED  BY <4>1, <4>2
    <3>3. 1 \in 1..(Len(text) + 1) /\ pos[1] \in 1..(Len(text) + 1) /\ 1 <= pos[1]
      BY <3>2
    <3>4. PICK k \in IndexOf(b.search, text, 1) : k <= pos[1]
      BY <3>2, <3>3, ThereIsFound
    <3>5. Exact(text, b) # {}
      BY <3>4 DEF Exact, Replaces
    <3> QED  BY <1>1, <3>5
  <2>5. 2 <= Len(Segments(b.search)) \/ Len(Segments(b.search)) = 1
    <3> DEFINE n == Len(Segments(b.search))
    <3>1. n \in Nat \ {0}
      BY <2>2
    <3> HIDE DEF n
    <3>2. 2 <= n \/ n = 1
      BY <3>1
    <3> QED  BY <3>2 DEF n
  <2> QED  BY <2>3, <2>4, <2>5
<1> QED  BY <1>2, <1>3 DEF Sought

-----------------------------------------------------------------------------
(* Block after block.                                                        *)

\* The texts a call has gone through after one block more.
EditedOnce(ts, i, b) ==
  LET next == IF Len(ts) < i THEN {} ELSE ApplyEditBlock(ts[i], b)
  IN IF next = {} THEN ts ELSE Append(ts, CHOOSE t \in next : TRUE)

Been(f, text, bs, n) ==
  f = [i \in 0..n |-> IF i = 0 THEN <<text>> ELSE EditedOnce(f[i - 1], i, bs[i])]

LEMMA BeenExists ==
  ASSUME NEW text, NEW bs, NEW n \in Nat
  PROVE  \E f : Been(f, text, bs, n)
<1> DEFINE T == {m \in Nat : \E f : Been(f, text, bs, m)}
<1>1. 0 \in T
  <2>1. Been([i \in 0..0 |-> <<text>>], text, bs, 0)
    BY DEF Been
  <2> QED  BY <2>1
<1>2. ASSUME NEW m \in Nat, m \in T
      PROVE  m + 1 \in T
  <2>1. PICK f : Been(f, text, bs, m)
    BY <1>2
  <2> DEFINE g == [i \in 0..(m + 1) |->
                     IF i = m + 1 THEN EditedOnce(f[m], m + 1, bs[m + 1]) ELSE f[i]]
  <2>2. \A i \in 0..(m + 1) : g[i] = IF i = 0 THEN <<text>> ELSE EditedOnce(g[i - 1], i, bs[i])
    <3> TAKE i \in 0..(m + 1)
    <3>1. CASE i = 0
      <4>1. 0 \in 0..m /\ 0 # m + 1 /\ 0 \in 0..(m + 1)
        OBVIOUS
      <4> QED  BY <2>1, <3>1, <4>1 DEF Been
    <3>2. CASE i = m + 1
      <4>1. i - 1 = m /\ m \in 0..(m + 1) /\ m # m + 1 /\ i # 0
        BY <3>2
      <4> QED  BY <3>2, <4>1
    <3>3. CASE i # 0 /\ i # m + 1
      <4>1. i \in 0..m /\ i - 1 \in 0..(m + 1) /\ i - 1 # m + 1
        BY <3>3
      <4>2. f[i] = EditedOnce(f[i - 1], i, bs[i])
        BY <2>1, <3>3, <4>1 DEF Been
      <4> QED  BY <3>3, <4>1, <4>2
    <3> QED  BY <3>1, <3>2, <3>3
  <2>3. g = [i \in 0..(m + 1) |-> g[i]]
    OBVIOUS
  <2> HIDE DEF g
  <2>4. Been(g, text, bs, m + 1)
    BY <2>2, <2>3 DEF Been
  <2> QED  BY <2>4
<1> HIDE DEF T
<1>3. \A m \in Nat : m \in T
  BY <1>1, <1>2, AllNumbers
<1> QED  BY <1>3 DEF T

LEMMA EditsGoThrough ==
  ASSUME NEW text, NEW bs, Len(bs) \in Nat
  PROVE  \E f : Been(f, text, bs, Len(bs)) /\ ApplyEdits(text, bs) = f[Len(bs)]
<1>1. PICK f : f = (CHOOSE h : Been(h, text, bs, Len(bs))) /\ ApplyEdits(text, bs) = f[Len(bs)]
  BY DEF ApplyEdits, Been, EditedOnce
<1>2. Been(f, text, bs, Len(bs))
  BY <1>1, BeenExists
<1> QED  BY <1>1, <1>2

Rewrites(old, b, new) == RewritesOneStretch(old, b, new) \/ RewritesSegments(old, b, new)

\* What `current` has been after n blocks: a text for each that applied, and the
\* block after the last of them applies nowhere.
Edited(ts, text, bs, n) ==
  /\ Len(ts) \in 1..(n + 1) /\ ts[1] = text
  /\ \A k \in 1..(Len(ts) - 1) : Rewrites(ts[k], bs[k], ts[k + 1])
  /\ Len(ts) < n + 1 => ApplyEditBlock(ts[Len(ts)], bs[Len(ts)]) = {}

LEMMA EditsAfterOne ==
  ASSUME NEW S, Newline \in S, NEW text, NEW bs, NEW n \in Nat,
         bs[n + 1].search \in Seq(S), bs[n + 1].replace \in Seq(S),
         NEW ts \in Seq(Seq(S)), Edited(ts, text, bs, n)
  PROVE  LET next == EditedOnce(ts, n + 1, bs[n + 1])
         IN next \in Seq(Seq(S)) /\ Edited(next, text, bs, n + 1)
<1> DEFINE P == Seq(S)
           m == Len(ts)
           next == IF m < n + 1 THEN {} ELSE ApplyEditBlock(ts[n + 1], bs[n + 1])
           t == CHOOSE x \in next : TRUE
           after == EditedOnce(ts, n + 1, bs[n + 1])
<1>1. ts \in Seq(P) /\ m \in 1..(n + 1) /\ m \in Nat
  BY DEF Edited
<1>2. after = IF next = {} THEN ts ELSE Append(ts, t)
  BY Zenon DEF EditedOnce
<1>3. CASE next = {}
  <2>1. after = ts
    BY <1>2, <1>3
  <2>2. m < n + 1 \/ (m = n + 1 /\ ApplyEditBlock(ts[n + 1], bs[n + 1]) = {})
    <3>1. m < n + 1 \/ m = n + 1
      BY <1>1
    <3> QED  BY <1>3, <3>1
  <2>3. ApplyEditBlock(ts[m], bs[m]) = {}
    BY <2>2 DEF Edited
  <2>4. m \in 1..(n + 1 + 1)
    BY <1>1
  <2> HIDE DEF next, after
  <2>5. Edited(ts, text, bs, n + 1)
    BY <2>3, <2>4 DEF Edited
  <2> QED  BY <2>1, <2>5 DEF after
<1>4. CASE next # {}
  <2>1. m = n + 1 /\ ApplyEditBlock(ts[n + 1], bs[n + 1]) = next
    <3>1. ~(m < n + 1)
      BY <1>4
    <3> QED  BY <1>1, <3>1
  <2>2. ts[n + 1] \in P
    <3>1. n + 1 \in 1..Len(ts)
      BY <2>1
    <3> QED  BY <1>1, <3>1, ElementOfSeq
  <2>3. t \in ApplyEditBlock(ts[n + 1], bs[n + 1])
    BY <1>4, <2>1
  <2> HIDE DEF t, next
  <2>4. t \in P /\ Rewrites(ts[n + 1], bs[n + 1], t)
    BY <2>2, <2>3, BlockRewrites DEF Rewrites
  <2> HIDE DEF P
  <2>5. after = Append(ts, t)
    BY <1>2, <1>4
  <2>6. /\ Append(ts, t) \in Seq(P) /\ Len(Append(ts, t)) = n + 1 + 1
        /\ \A i \in 1..(n + 1) : Append(ts, t)[i] = ts[i]
        /\ Append(ts, t)[n + 1 + 1] = t
    BY <1>1, <2>1, <2>4, AppendProperties
  <2> HIDE DEF after
  <2>7. after \in Seq(P) /\ Len(after) = n + 1 + 1 /\ after[n + 1 + 1] = t
        /\ \A i \in 1..(n + 1) : after[i] = ts[i]
    BY <2>5, <2>6
  <2>8. Len(after) \in 1..(n + 1 + 1) /\ after[1] = text
    <3>1. 1 \in 1..(n + 1)
      OBVIOUS
    <3>2. ts[1] = text
      BY DEF Edited
    <3> QED  BY <2>7, <3>1, <3>2
  <2>9. ASSUME NEW k \in 1..(n + 1)  PROVE Rewrites(after[k], bs[k], after[k + 1])
    <3>1. CASE k = n + 1
      <4>1. after[k] = ts[n + 1] /\ after[k + 1] = t
        BY <2>7, <3>1
      <4> QED  BY <2>4, <3>1, <4>1
    <3>2. CASE k # n + 1
      <4>1. k \in 1..(m - 1) /\ k \in 1..(n + 1) /\ k + 1 \in 1..(n + 1)
        BY <2>1, <3>2
      <4>2. Rewrites(ts[k], bs[k], ts[k + 1])
        BY <4>1 DEF Edited, m
      <4> QED  BY <2>7, <4>1, <4>2
    <3> QED  BY <3>1, <3>2
  <2>10. \A k \in 1..(Len(after) - 1) : Rewrites(after[k], bs[k], after[k + 1])
    <3>1. Len(after) - 1 = n + 1
      BY <2>7
    <3> QED  BY <2>9, <3>1
  <2>11. ~(Len(after) < n + 1 + 1)
    BY <2>7
  <2>12. Edited(after, text, bs, n + 1)
    BY <2>8, <2>10, <2>11 DEF Edited
  <2> QED  BY <2>7, <2>12 DEF after, P
<1> QED  BY <1>3, <1>4

LEMMA EditsAreRight ==
  ASSUME NEW S, Newline \in S, NEW text \in Seq(S), NEW bs, Len(bs) \in Nat,
         \A k \in 1..Len(bs) : bs[k].search \in Seq(S) /\ bs[k].replace \in Seq(S)
  PROVE  ApplyEdits(text, bs) \in Seq(Seq(S)) /\ Edited(ApplyEdits(text, bs), text, bs, Len(bs))
<1> DEFINE N == Len(bs)
           P == Seq(S)
<1>1. PICK f : Been(f, text, bs, N) /\ ApplyEdits(text, bs) = f[N]
  BY EditsGoThrough
<1> DEFINE T == {i \in Nat : i <= N => f[i] \in Seq(P) /\ Edited(f[i], text, bs, i)}
<1>2. 0 \in T
  <2>1. 0 \in 0..N
    OBVIOUS
  <2>2. f[0] = <<text>>
    BY <1>1, <2>1, Zenon DEF Been
  <2>3. text \in P
    OBVIOUS
  <2> HIDE DEF P
  <2>4. f[0] \in Seq(P) /\ Len(f[0]) = 1 /\ f[0][1] = text
    BY <2>2, <2>3
  <2>5. /\ Len(f[0]) \in 1..(0 + 1) /\ ~(Len(f[0]) < 0 + 1)
        /\ \A k \in 1..(Len(f[0]) - 1) : Rewrites(f[0][k], bs[k], f[0][k + 1])
    BY <2>4
  <2>6. Edited(f[0], text, bs, 0)
    BY <2>4, <2>5 DEF Edited
  <2> QED  BY <2>4, <2>6
<1>3. ASSUME NEW i \in Nat, i \in T  PROVE i + 1 \in T
  <2> SUFFICES ASSUME i + 1 <= N
               PROVE  f[i + 1] \in Seq(P) /\ Edited(f[i + 1], text, bs, i + 1)
    OBVIOUS
  <2>1. i <= N /\ i + 1 \in 0..N /\ i + 1 # 0 /\ (i + 1) - 1 = i /\ i + 1 \in 1..N
    OBVIOUS
  <2>2. f[i] \in Seq(P) /\ Edited(f[i], text, bs, i)
    BY <1>3, <2>1
  <2>3. f[i + 1] = EditedOnce(f[(i + 1) - 1], i + 1, bs[i + 1])
    BY <1>1, <2>1, Zenon DEF Been
  <2>4. bs[i + 1].search \in Seq(S) /\ bs[i + 1].replace \in Seq(S)
    BY <2>1
  <2> HIDE DEF N, T
  <2>5. LET next == EditedOnce(f[i], i + 1, bs[i + 1])
        IN next \in Seq(Seq(S)) /\ Edited(next, text, bs, i + 1)
    BY <2>2, <2>4, EditsAfterOne
  <2> QED  BY <2>1, <2>3, <2>5
<1> HIDE DEF T
<1>4. \A i \in Nat : i \in T
  BY <1>2, <1>3, AllNumbers
<1>5. N \in T /\ N <= N
  BY <1>4
<1>6. f[N] \in Seq(P) /\ Edited(f[N], text, bs, N)
  BY <1>5 DEF T
<1> QED  BY <1>1, <1>6

\* Every lexeme of a call and of the text it edits.
CallLexemes(text, bs) ==
  {Newline} \cup Range(text)
    \cup UNION {Range(bs[k].search) \cup Range(bs[k].replace) : k \in 1..Len(bs)}

LEMMA InALargerSet ==
  ASSUME NEW s, s \in Seq(Range(s)), NEW S, Range(s) \subseteq S
  PROVE  s \in Seq(S)
<1> DEFINE R == Range(s)
<1>1. s \in Seq(R) /\ R \subseteq S
  OBVIOUS
<1> HIDE DEF R
<1>2. \A i \in 1..Len(s) : s[i] \in S
  BY <1>1, ElementOfSeq
<1>3. Len(s) \in Nat /\ s = [i \in 1..Len(s) |-> s[i]]
  BY <1>1
<1>4. s \in [1..Len(s) -> S]
  BY <1>2, <1>3
<1> QED  BY <1>3, <1>4

LEMMA LexemesMakeTheTexts ==
  ASSUME NEW text \in SourceTexts, NEW bs \in EditCalls
  PROVE  /\ text \in Seq(CallLexemes(text, bs)) /\ Len(bs) \in Nat
         /\ \A k \in 1..Len(bs) : /\ bs[k].search \in Seq(CallLexemes(text, bs))
                                  /\ bs[k].replace \in Seq(CallLexemes(text, bs))
<1> DEFINE S == CallLexemes(text, bs)
<1>1. text \in Seq(S)
  <2>1. text \in Seq(Range(text)) /\ Range(text) \subseteq S
    BY EditAssumption DEF CallLexemes
  <2> HIDE DEF S
  <2> QED  BY <2>1, InALargerSet
<1>2. /\ bs \in Seq(Range(bs)) /\ Len(bs) \in Nat
      /\ \A b \in Range(bs) : b.search \in Seq(Range(b.search)) /\ b.replace \in Seq(Range(b.replace))
  <2>1. /\ bs \in Seq(Range(bs))
        /\ \A b \in Range(bs) : b.search \in Seq(Range(b.search)) /\ b.replace \in Seq(Range(b.replace))
    BY EditAssumption
  <2> QED  BY <2>1
<1>3. ASSUME NEW k \in 1..Len(bs)  PROVE bs[k].search \in Seq(S) /\ bs[k].replace \in Seq(S)
  <2>1. bs[k] \in Range(bs)
    BY <1>2, ElementOfSeq
  <2>2. Range(bs[k].search) \subseteq S /\ Range(bs[k].replace) \subseteq S
    BY DEF CallLexemes
  <2>3. bs[k].search \in Seq(Range(bs[k].search)) /\ bs[k].replace \in Seq(Range(bs[k].replace))
    BY <1>2, <2>1
  <2> HIDE DEF S
  <2> QED  BY <2>2, <2>3, InALargerSet
<1> QED  BY <1>1, <1>2, <1>3

EditInv ==
  /\ EditTypeOK
  /\ EditsWhatItNames
  /\ blocks = NoCall => source \in SourceTexts

LEMMA CallEditsRight ==
  ASSUME EditInv, NEW bs \in EditCalls, EditFile(bs)
  PROVE  EditInv'
<1> DEFINE S == CallLexemes(source, bs)
           N == Len(bs)
           m == Len(texts')
<1>1. /\ source \in SourceTexts /\ blocks' = bs /\ bs # NoCall
      /\ texts' = ApplyEdits(source, bs)
      /\ source' = IF m = N + 1 THEN Last(texts') ELSE source
  BY EditAssumption DEF EditInv, EditFile
<1>2. /\ source \in Seq(S) /\ N \in Nat
      /\ \A k \in 1..N : bs[k].search \in Seq(S) /\ bs[k].replace \in Seq(S)
  BY <1>1, LexemesMakeTheTexts
<1>3. Newline \in S
  BY DEF CallLexemes
<1> HIDE DEF S
<1>4. texts' \in Seq(Seq(S)) /\ Edited(texts', source, bs, N)
  BY <1>1, <1>2, <1>3, EditsAreRight
<1>5. /\ m \in 1..(N + 1) /\ texts'[1] = source
      /\ \A k \in 1..(m - 1) : Rewrites(texts'[k], bs[k], texts'[k + 1])
      /\ m < N + 1 => ApplyEditBlock(texts'[m], bs[m]) = {}
  BY <1>4 DEF Edited
<1>6. Applied' <=> m = N + 1
  BY <1>1 DEF Applied
<1>7. ASSUME ~Applied'  PROVE ~Sought(Last(texts'), bs[m])
  <2>1. m \in 1..N /\ m < N + 1
    BY <1>2, <1>5, <1>6, <1>7
  <2>2. texts'[m] \in Seq(S)
    <3> DEFINE P == Seq(S)
    <3>1. texts' \in Seq(P) /\ m \in 1..Len(texts')
      BY <1>4, <1>5
    <3> HIDE DEF P
    <3>2. texts'[m] \in P
      BY <3>1, ElementOfSeq
    <3> QED  BY <3>2 DEF P
  <2>3. bs[m].search \in Seq(S) /\ bs[m].replace \in Seq(S)
    BY <1>2, <2>1
  <2>4. ApplyEditBlock(texts'[m], bs[m]) = {}
    BY <1>5, <2>1
  <2>5. ~Sought(texts'[m], bs[m])
    BY <1>3, <2>2, <2>3, <2>4, RefusedIsNotSought
  <2> QED  BY <2>5 DEF Last
<1>8. source' = IF Applied' THEN Last(texts') ELSE texts'[1]
  BY <1>1, <1>5, <1>6
<1>9. \A k \in 1..(m - 1) : \/ RewritesOneStretch(texts'[k], bs[k], texts'[k + 1])
                            \/ RewritesSegments(texts'[k], bs[k], texts'[k + 1])
  BY <1>5 DEF Rewrites
<1>10. EditsWhatItNames'
  BY <1>1, <1>7, <1>8, <1>9 DEF EditsWhatItNames
<1>11. EditTypeOK'
  BY <1>1, <1>5 DEF EditTypeOK
<1> QED  BY <1>1, <1>10, <1>11 DEF EditInv

LEMMA EditsNameTheirTexts == EditSpec => [](EditTypeOK /\ EditsWhatItNames)
<1>1. EditInit => EditInv
  BY DEF EditInit, EditInv, EditTypeOK, EditsWhatItNames
<1>2. EditInv /\ [EditNext]_editVars => EditInv'
  <2> SUFFICES ASSUME EditInv, [EditNext]_editVars PROVE EditInv'
    OBVIOUS
  <2>1. CASE EditNext
    BY <2>1, CallEditsRight DEF EditNext
  <2>2. CASE UNCHANGED editVars
    BY <2>2, Zenon DEF editVars, EditInv, EditTypeOK, EditsWhatItNames, Applied
  <2> QED  BY <2>1, <2>2
<1>3. EditInv => EditTypeOK /\ EditsWhatItNames
  BY DEF EditInv
<1> QED  BY <1>1, <1>2, <1>3, PTL DEF EditSpec

\* A call of the edit tool changes what its blocks name and nothing else, it
\* refuses no block whose text is there, and the file is what it was when a block
\* was refused (edit-cascade.ts:118-264, edit-file.ts:82-97): for any file and
\* any blocks.
THEOREM EditsChangeWhatTheyName == EditSpec => []EditsWhatItNames
BY EditsNameTheirTexts, PTL
=============================================================================

---------------------------- MODULE UserTreeProofs ----------------------------
(***************************************************************************)
(* Proofs about the user's own tree, which a run works in and gives back:  *)
(* the repository and the stash, for any runs, any changes of the user and *)
(* any bounds; and the snapshot backend where there is no repository, for  *)
(* any workspace and any contents.                                         *)
(***************************************************************************)
EXTENDS StashStack, SnapshotBackup, SequenceTheorems, TLAPS

-----------------------------------------------------------------------------
(* The repository and the stash.                                             *)

\* The changes anybody has made so far.
MadeSoFar == made \cup Runs

\* Nothing is in the repository that nobody made.
RepositoryOK ==
  /\ wt \in SUBSET MadeSoFar /\ idx \in SUBSET MadeSoFar
  /\ branch \in Seq(SUBSET MadeSoFar)
  /\ made \in SUBSET Works

\* Entries have distinct identities, and nothing is in them that nobody made.
StashOK ==
  /\ minted \in 0..MaxShas
  /\ stash \in Seq(Entries)
  /\ \A i \in DOMAIN stash :
       /\ stash[i].sha <= minted /\ stash[i].works \subseteq MadeSoFar /\ stash[i].staged \subseteq MadeSoFar
       /\ \A j \in DOMAIN stash : stash[i].sha = stash[j].sha => i = j

Jobs == [at : RunStates, ref : Nat \cup {NoSha}, saved : SUBSET Things,
         base : SUBSET Things, temp : BOOLEAN, pos : Nat, warned : BOOLEAN]

RunsOK ==
  /\ run \in [Runs -> Jobs]
  /\ \A r \in Runs : run[r].saved \subseteq MadeSoFar /\ run[r].base \subseteq MadeSoFar
  /\ mine \in [Runs -> 0..minted \cup {NoSha}]
  /\ popped \in [Runs -> Nat \cup {NoSha}]
  /\ before = [r \in Runs |-> before[r]]
  /\ disturbed \in SUBSET Runs /\ moves \in 0..MaxMoves

\* Every change the user made is in the working tree or in a stash entry.
NoWorkLost == made \subseteq wt \cup Stashed

GitInv == RepositoryOK /\ StashOK /\ NoWorkLost

-----------------------------------------------------------------------------
(* What git's commands do to the repository. *)

LEMMA TipIsKnown ==
  ASSUME RepositoryOK
  PROVE  /\ Tip \subseteq MadeSoFar
         /\ branch # <<>> => Front(branch) \in Seq(SUBSET MadeSoFar)
<1>1. CASE branch = <<>>
  BY <1>1 DEF Tip
<1>2. CASE branch # <<>>
  <2>1. Len(branch) \in DOMAIN branch /\ Len(branch) \in Nat
    BY <1>2 DEF RepositoryOK
  <2>2. Tip = branch[Len(branch)]
    BY <1>2 DEF Tip, Last
  <2>3. Front(branch) \in Seq(SUBSET MadeSoFar)
    BY <1>2, <2>1 DEF RepositoryOK, Front
  <2>4. QED
    BY <2>1, <2>2, <2>3 DEF RepositoryOK
<1>3. QED
  BY <1>1, <1>2

\* A push puts everything uncommitted into a new top entry.
LEMMA PushEffect ==
  ASSUME GitInv, PushEntry, UNCHANGED made
  PROVE  /\ GitInv'
         /\ Shas' = Shas \cup {minted'} /\ minted' = minted + 1 /\ minted \in Nat
         /\ stash' # <<>> /\ stash'[1].sha = minted'
<1> USE DEF GitInv
<1> DEFINE e == [sha |-> minted', works |-> wt \ Tip, staged |-> idx \ Tip, base |-> Tip]
<1>1. Tip \subseteq MadeSoFar /\ MadeSoFar \subseteq Things
  BY TipIsKnown DEF RepositoryOK, MadeSoFar, Things
<1>2. minted' = minted + 1 /\ minted \in Nat /\ minted' \in 1..MaxShas /\ minted' \in 0..MaxShas
  BY StashStackAssumption DEF PushEntry, StashOK
<1>3. e \in Entries
  BY <1>1, <1>2 DEF Entries, RepositoryOK
<1>4. /\ stash' = <<e>> \o stash
      /\ stash' \in Seq(Entries)
      /\ Len(stash') = Len(stash) + 1
      /\ DOMAIN stash' = 1..(Len(stash) + 1) /\ DOMAIN stash = 1..Len(stash) /\ Len(stash) \in Nat
      /\ stash'[1] = e
      /\ \A i \in 1..Len(stash) : stash'[i + 1] = stash[i]
  BY <1>3 DEF PushEntry, StashOK
<1>e. e.sha = minted' /\ e.works = wt \ Tip /\ e.staged = idx \ Tip
  OBVIOUS
<1> HIDE DEF e
<1>5. /\ 1 \in DOMAIN stash'
      /\ \A i \in DOMAIN stash' : i = 1 \/ (i - 1 \in DOMAIN stash /\ stash'[i] = stash[i - 1])
      /\ \A i \in DOMAIN stash : i + 1 \in DOMAIN stash' /\ stash'[i + 1] = stash[i]
  BY <1>4
<1>6. StashOK'
  <2>1. \A i \in DOMAIN stash : stash[i].sha <= minted /\ stash[i].sha \in Nat
    <3>1. ASSUME NEW i \in DOMAIN stash PROVE stash[i] \in Entries
      BY <1>4 DEF StashOK
    <3>2. QED
      BY <3>1, StashStackAssumption DEF StashOK, Entries
  <2>2. MadeSoFar' = MadeSoFar
    BY DEF MadeSoFar
  <2>3. ASSUME NEW i \in DOMAIN stash'
        PROVE  /\ stash'[i].sha <= minted'
               /\ stash'[i].works \subseteq MadeSoFar /\ stash'[i].staged \subseteq MadeSoFar
               /\ \A j \in DOMAIN stash' : stash'[i].sha = stash'[j].sha => i = j
    <3>1. CASE i = 1
      <4>1. stash'[i].sha = minted' /\ stash'[i].works = wt \ Tip /\ stash'[i].staged = idx \ Tip
        BY <3>1, <1>4, <1>e
      <4>2. ASSUME NEW j \in DOMAIN stash', j # i PROVE stash'[j].sha # minted'
        <5>1. j - 1 \in DOMAIN stash /\ stash'[j] = stash[j - 1]
          BY <3>1, <4>2, <1>5
        <5>2. stash'[j].sha <= minted /\ stash'[j].sha \in Nat
          BY <5>1, <2>1
        <5>3. QED
          BY <5>2, <1>2
      <4>3. minted' <= minted'
        BY <1>2
      <4>4. QED
        BY <4>1, <4>2, <4>3 DEF RepositoryOK
    <3>2. CASE i # 1
      <4>1. i - 1 \in DOMAIN stash /\ stash'[i] = stash[i - 1]
        BY <3>2, <1>5
      <4>2. ASSUME NEW j \in DOMAIN stash', stash'[i].sha = stash'[j].sha PROVE i = j
        <5>1. CASE j = 1
          <6>1. stash[i - 1].sha = minted + 1
            BY <5>1, <4>1, <4>2, <1>2, <1>4, <1>e
          <6>2. QED
            BY <6>1, <4>1, <2>1, <1>2
        <5>2. CASE j # 1
          <6>1. j - 1 \in DOMAIN stash /\ stash'[j] = stash[j - 1]
            BY <5>2, <1>5
          <6>2. i - 1 = j - 1
            BY <4>1, <4>2, <6>1 DEF StashOK
          <6>3. QED
            BY <6>2, <1>4
        <5>3. QED
          BY <5>1, <5>2
      <4>3. QED
        BY <4>1, <4>2, <1>2, <2>1 DEF StashOK
    <3>3. QED
      BY <3>1, <3>2
  <2>4. QED
    BY <1>2, <1>4, <2>2, <2>3 DEF StashOK
<1>7. Stashed' = Stashed \cup (wt \ Tip)
  <2>1. ASSUME NEW w \in Stashed' PROVE w \in Stashed \cup (wt \ Tip)
    <3>1. PICK i \in DOMAIN stash' : w \in stash'[i].works
      BY DEF Stashed
    <3>2. QED
      BY <3>1, <1>4, <1>5, <1>e DEF Stashed
  <2>2. wt \ Tip \subseteq Stashed'
    BY <1>4, <1>5, <1>e DEF Stashed
  <2>3. ASSUME NEW w \in Stashed PROVE w \in Stashed'
    <3>1. PICK i \in DOMAIN stash : w \in stash[i].works
      BY DEF Stashed
    <3>2. QED
      BY <3>1, <1>5 DEF Stashed
  <2>4. QED
    BY <2>1, <2>2, <2>3
<1>8. Shas' = Shas \cup {minted'}
  <2>1. ASSUME NEW h \in Shas' PROVE h \in Shas \cup {minted'}
    <3>1. PICK i \in DOMAIN stash' : h = stash'[i].sha
      BY DEF Shas
    <3>2. QED
      BY <3>1, <1>4, <1>5, <1>e DEF Shas
  <2>2. minted' \in Shas'
    BY <1>4, <1>5, <1>e DEF Shas
  <2>3. ASSUME NEW h \in Shas PROVE h \in Shas'
    <3>1. PICK i \in DOMAIN stash : h = stash[i].sha
      BY DEF Shas
    <3>2. QED
      BY <3>1, <1>5 DEF Shas
  <2>4. QED
    BY <2>1, <2>2, <2>3
<1>9. RepositoryOK'
  BY <1>1 DEF RepositoryOK, PushEntry, MadeSoFar
<1>10. NoWorkLost'
  BY <1>7 DEF NoWorkLost, PushEntry
<1>11. QED
  BY <1>2, <1>4, <1>5, <1>6, <1>8, <1>9, <1>10, <1>e

\* What is left when one entry is removed.
LEMMA Removal ==
  ASSUME NEW s \in Seq(Entries), NEW i \in DOMAIN s
  PROVE  /\ RemoveAt(s, i) \in Seq(Entries)
         /\ DOMAIN s = 1..Len(s) /\ Len(s) \in Nat
         /\ DOMAIN RemoveAt(s, i) = 1..(Len(s) - 1)
         /\ \A j \in 1..(Len(s) - 1) : RemoveAt(s, i)[j] = s[IF j < i THEN j ELSE j + 1]
<1>1. /\ SubSeq(s, 1, i - 1) \in Seq(Entries) /\ Len(SubSeq(s, 1, i - 1)) = i - 1
      /\ SubSeq(s, i + 1, Len(s)) \in Seq(Entries)
      /\ Len(SubSeq(s, i + 1, Len(s))) = Len(s) - i
      /\ i \in 1..Len(s)
  OBVIOUS
<1>2. /\ \A j \in 1..(i - 1) : SubSeq(s, 1, i - 1)[j] = s[j]
      /\ \A j \in 1..(Len(s) - i) : SubSeq(s, i + 1, Len(s))[j] = s[i + j]
  OBVIOUS
<1> DEFINE a == SubSeq(s, 1, i - 1)
          b == SubSeq(s, i + 1, Len(s))
<1>3. RemoveAt(s, i) = a \o b
  BY DEF RemoveAt
<1> HIDE DEF a, b
<1>4. /\ Len(s) \in Nat /\ i \in 1..Len(s) /\ DOMAIN s = 1..Len(s)
      /\ a \in Seq(Entries) /\ Len(a) = i - 1
      /\ b \in Seq(Entries) /\ Len(b) = Len(s) - i
  BY <1>1 DEF a, b
<1>5. /\ a \o b \in Seq(Entries)
      /\ DOMAIN (a \o b) = 1..(Len(s) - 1)
      /\ \A j \in 1..(Len(s) - 1) : (a \o b)[j] = IF j <= i - 1 THEN a[j] ELSE b[j - (i - 1)]
  <2>1. (i - 1) + (Len(s) - i) = Len(s) - 1
    BY <1>4
  <2>2. /\ a \o b \in Seq(Entries) /\ Len(a \o b) = Len(a) + Len(b)
        /\ \A j \in 1..(Len(a) + Len(b)) :
             (a \o b)[j] = IF j <= Len(a) THEN a[j] ELSE b[j - Len(a)]
    BY <1>4, ConcatProperties, Zenon
  <2>3. Len(a) + Len(b) = Len(s) - 1
    BY <1>4, <2>1
  <2>4. \A j \in 1..(Len(s) - 1) : (a \o b)[j] = IF j <= i - 1 THEN a[j] ELSE b[j - (i - 1)]
    BY <1>4, <2>2, <2>3, Zenon
  <2>5. a \o b \in Seq(Entries)
    BY <2>2, Zenon
  <2>6. Len(a \o b) = Len(s) - 1
    BY <2>2, <2>3, Zenon
  <2>7. DOMAIN (a \o b) = 1..(Len(s) - 1)
    BY <2>5, <2>6, LenProperties, Zenon
  <2>8. QED
    BY <2>4, <2>5, <2>7, Zenon
<1>6. ASSUME NEW j \in 1..(Len(s) - 1)
      PROVE  (a \o b)[j] = s[IF j < i THEN j ELSE j + 1]
  <2>1. CASE j < i
    BY <2>1, <1>2, <1>4, <1>5 DEF a
  <2>2. CASE ~(j < i)
    <3>1. j - (i - 1) \in 1..(Len(s) - i) /\ i + (j - (i - 1)) = j + 1
      BY <2>2, <1>4
    <3>2. b[j - (i - 1)] = s[j + 1]
      BY <3>1, <1>2 DEF b
    <3>3. ~(j <= i - 1)
      BY <2>2, <1>4
    <3>4. QED
      BY <2>2, <3>2, <3>3, <1>5
  <2>3. QED
    BY <2>1, <2>2
<1>7. QED
  BY <1>3, <1>4, <1>5, <1>6

\* An entry that is popped and applies goes into the working tree.
LEMMA AppliesEffect ==
  ASSUME GitInv, NEW i \in DOMAIN stash, Applies(i), UNCHANGED made
  PROVE  /\ GitInv'
         /\ Shas' = Shas \ {stash[i].sha}
<1> USE DEF GitInv
<1>1. /\ stash' \in Seq(Entries)
      /\ DOMAIN stash = 1..Len(stash) /\ Len(stash) \in Nat
      /\ DOMAIN stash' = 1..(Len(stash) - 1)
      /\ \A j \in DOMAIN stash' : stash'[j] = stash[IF j < i THEN j ELSE j + 1]
  BY Removal DEF Applies, StashOK
<1>2. \A j \in DOMAIN stash' :
        \E k \in DOMAIN stash \ {i} : stash'[j] = stash[k] /\ k = IF j < i THEN j ELSE j + 1
  BY <1>1
<1>3. \A k \in DOMAIN stash \ {i} : \E j \in DOMAIN stash' : stash'[j] = stash[k]
  <2>1. ASSUME NEW k \in DOMAIN stash, k < i
        PROVE  k \in DOMAIN stash' /\ stash'[k] = stash[k]
    BY <1>1, <2>1
  <2>2. ASSUME NEW k \in DOMAIN stash, k > i
        PROVE  k - 1 \in DOMAIN stash' /\ stash'[k - 1] = stash[k]
    BY <1>1, <2>2
  <2>3. QED
    BY <1>1, <2>1, <2>2
<1>4. Stashed \subseteq Stashed' \cup stash[i].works /\ Stashed' \subseteq Stashed
  BY <1>2, <1>3 DEF Stashed
<1>5. Shas' = Shas \ {stash[i].sha}
  BY <1>2, <1>3 DEF Shas, StashOK
<1>6. StashOK'
  <2>1. MadeSoFar' = MadeSoFar /\ minted' = minted
    BY DEF MadeSoFar, Applies
  <2>2. ASSUME NEW j \in DOMAIN stash', NEW l \in DOMAIN stash', stash'[j].sha = stash'[l].sha
        PROVE  j = l
    <3>1. PICK k \in DOMAIN stash \ {i} : stash'[j] = stash[k] /\ k = IF j < i THEN j ELSE j + 1
      BY <1>2
    <3>2. PICK m \in DOMAIN stash \ {i} : stash'[l] = stash[m] /\ m = IF l < i THEN l ELSE l + 1
      BY <1>2
    <3>3. k = m
      BY <2>2, <3>1, <3>2 DEF StashOK
    <3>4. QED
      BY <1>1, <3>1, <3>2, <3>3
  <2>3. QED
    BY <1>1, <1>2, <2>1, <2>2 DEF StashOK
<1>7. RepositoryOK'
  BY DEF Applies, RepositoryOK, StashOK, MadeSoFar
<1>8. NoWorkLost'
  BY <1>4 DEF NoWorkLost, Applies
<1>9. QED
  BY <1>5, <1>6, <1>7, <1>8

\* A pop that does not apply leaves the entry, and may leave its changes too.
LEMMA ConflictsEffect ==
  ASSUME GitInv, NEW i \in DOMAIN stash, Conflicts(i), UNCHANGED made
  PROVE  GitInv' /\ UNCHANGED stash
  BY DEF Conflicts, GitInv, RepositoryOK, StashOK, NoWorkLost, Stashed, MadeSoFar

\* Nothing that leaves the stash alone and takes nothing out of the working
\* tree loses work.
LEMMA OnlyAdds ==
  ASSUME GitInv, UNCHANGED <<stash, minted>>, RepositoryOK', made \subseteq made',
         made' \ made \subseteq wt', wt \subseteq wt'
  PROVE  GitInv'
  BY DEF GitInv, StashOK, NoWorkLost, Stashed, MadeSoFar

LEMMA CommitEffect ==
  ASSUME RepositoryOK, NEW content \in SUBSET MadeSoFar, CommitAs(content)
  PROVE  /\ branch' \in Seq(SUBSET MadeSoFar)
         /\ branch' # <<>> /\ Last(branch') = content /\ Front(branch') = branch
<1>1. branch' = Append(branch, content) /\ branch \in Seq(SUBSET MadeSoFar)
  BY DEF CommitAs, RepositoryOK
<1>2. branch' \in Seq(SUBSET MadeSoFar) /\ Len(branch') = Len(branch) + 1 /\ Len(branch) \in Nat
  BY <1>1
<1>3. branch'[Len(branch')] = content /\ SubSeq(branch', 1, Len(branch)) = branch
  BY <1>1, <1>2
<1>4. QED
  BY <1>2, <1>3 DEF Last, Front

-----------------------------------------------------------------------------
(* What a run remembers. *)

\* Before it has named its entry a run has none to bring back, and before it
\* is over it has said nothing of it.
Fresh(r) ==
  /\ run[r].at \in {"idle"} \cup TreeWindow => mine[r] = NoSha
  /\ run[r].at \in {"idle", "naming"} \cup TreeWindow =>
       run[r].ref = NoSha /\ popped[r] = NoSha
  /\ run[r].warned => run[r].at \in {"over", "failed"}

\* Unless another's command came in between, what a run knows of the stash is so.
KnowsItsEntry(r) ==
  r \notin disturbed =>
    /\ run[r].at = "pushing" => Dirty
    /\ run[r].at = "naming" => stash # <<>> /\ stash[1].sha = mine[r]
    /\ run[r].ref # NoSha => run[r].ref = mine[r]
    /\ run[r].at \in {"popping", "unpopping"} =>
         run[r].pos \in DOMAIN stash /\ stash[run[r].pos].sha = run[r].ref
    /\ popped[r] # NoSha => popped[r] = mine[r]

\* And so is what it knows of the tree it commits for a while.
KnowsItsTree(r) ==
  r \notin disturbed =>
    /\ run[r].at = "writing" => before[r] = repo
    /\ run[r].at = "adding" => before[r] = <<wt, run[r].saved, branch>>
    /\ run[r].at = "committing" => before[r] = <<wt, run[r].saved, branch>> /\ idx = wt
    /\ run[r].at \in {"reading", "resetting"} =>
         /\ branch # <<>> /\ Last(branch) = wt
         /\ before[r] = <<wt, run[r].saved, Front(branch)>>
    /\ run[r].at = "resetting" => run[r].base = wt
    /\ run[r].at = "indexing" => before[r] = <<wt, run[r].saved, branch>> /\ run[r].base = wt

\* Its entry is known to somebody.
Orphans(r) ==
  mine[r] # NoSha /\ mine[r] \in Shas =>
    \/ run[r].at \in {"dead", "unstarted"} \/ r \in disturbed
    \/ run[r].warned
    \/ run[r].at = "naming"
    \/ run[r].ref = mine[r] /\ run[r].at \notin {"over", "failed"}

OwnInv(r) == Fresh(r) /\ KnowsItsEntry(r) /\ KnowsItsTree(r) /\ Orphans(r)

StashInv == GitInv /\ RunsOK /\ \A r \in Runs : OwnInv(r)

LEMMA JobIsTyped == RunsOK => \A r \in Runs : run[r] \in Jobs
BY DEF RunsOK

\* What a step of run r must show: for the others see Bystanders.
StepOK(r) ==
  /\ GitInv' /\ RunsOK' /\ OwnInv(r)'
  /\ \A h \in Shas' \ Shas : h = minted + 1

-----------------------------------------------------------------------------

\* A run that does not move keeps its invariant, or is disturbed.
LEMMA Bystanders ==
  ASSUME GitInv, RunsOK, NEW r \in Runs, OwnInv(r),
         run'[r] = run[r], mine'[r] = mine[r], popped'[r] = popped[r], before'[r] = before[r],
         disturbed' = disturbed \cup {q \in Runs : Interrupted(q)},
         \A h \in Shas' \ Shas : h = minted + 1
  PROVE  OwnInv(r)'
<1>1. r \notin disturbed' =>
        /\ r \notin disturbed
        /\ run[r].at \in TreeWindow => repo' = repo
        /\ run[r].at \in StashWindow => stash' = stash
  BY DEF Interrupted
<1>2. Fresh(r)'
  BY DEF OwnInv, Fresh
<1>3. KnowsItsEntry(r)'
  <2>1. run[r].at = "pushing" => run[r].at \in TreeWindow
    BY DEF TreeWindow
  <2>2. run[r].at \in {"naming", "popping", "unpopping"} => run[r].at \in StashWindow
    BY DEF StashWindow
  <2>3. repo' = repo => Dirty' = Dirty
    BY DEF repo, Dirty, Tip
  <2>4. QED
    BY <1>1, <2>1, <2>2, <2>3 DEF OwnInv, KnowsItsEntry
<1>4. KnowsItsTree(r)'
  <2>1. run[r].at \in {"writing", "adding", "committing", "reading", "resetting", "indexing"} =>
          run[r].at \in TreeWindow
    BY DEF TreeWindow
  <2>2. QED
    BY <1>1, <2>1 DEF OwnInv, KnowsItsTree, repo
<1>5. Orphans(r)'
  <2>1. minted \in Nat /\ mine[r] \in 0..minted \cup {NoSha}
    BY StashStackAssumption DEF GitInv, StashOK, RunsOK
  <2>2. mine[r] # NoSha => mine[r] # minted + 1
    BY <2>1
  <2>3. mine[r] # NoSha /\ mine[r] \in Shas' => mine[r] \in Shas
    BY <2>2
  <2>4. r \in disturbed => r \in disturbed'
    OBVIOUS
  <2>5. QED
    BY <2>3, <2>4 DEF OwnInv, Orphans
<1>6. QED
  BY <1>2, <1>3, <1>4, <1>5 DEF OwnInv

LEMMA GoesEffect ==
  ASSUME RunsOK, NEW r \in Runs, NEW to \in RunStates, Goes(r, to)
  PROVE  /\ run' \in [Runs -> Jobs]
         /\ run'[r].at = to /\ run'[r].ref = run[r].ref /\ run'[r].saved = run[r].saved
         /\ run'[r].base = run[r].base /\ run'[r].pos = run[r].pos
         /\ run'[r].warned = run[r].warned
         /\ \A q \in Runs \ {r} : run'[q] = run[q]
  BY DEF RunsOK, Goes, Jobs

LEMMA EndsEffect ==
  ASSUME RunsOK, NEW r \in Runs, NEW to \in RunStates, NEW warned \in BOOLEAN,
         Ends(r, to, warned)
  PROVE  /\ run' \in [Runs -> Jobs]
         /\ run'[r].at = to /\ run'[r].ref = NoSha /\ run'[r].saved = {}
         /\ run'[r].base = {} /\ run'[r].warned = warned
         /\ \A q \in Runs \ {r} : run'[q] = run[q]
<1> DEFINE e == [Unused EXCEPT !.at = to, !.warned = warned]
<1>1. Unused \in Jobs
  BY DEF Unused, Jobs, RunStates
<1>2. e \in Jobs /\ e.at = to /\ e.warned = warned
      /\ e.ref = Unused.ref /\ e.saved = Unused.saved /\ e.base = Unused.base
  BY <1>1 DEF Jobs
<1>3. Unused.ref = NoSha /\ Unused.saved = {} /\ Unused.base = {}
  BY DEF Unused
<1>4. run' = [run EXCEPT ![r] = e]
  BY DEF Ends
<1> HIDE DEF e
<1>5. QED
  BY <1>2, <1>3, <1>4 DEF RunsOK

LEMMA SetsEffect ==
  ASSUME RunsOK, NEW r \in Runs, NEW e \in Jobs, run' = [run EXCEPT ![r] = e]
  PROVE  run' \in [Runs -> Jobs] /\ run'[r] = e /\ \A q \in Runs \ {r} : run'[q] = run[q]
  BY DEF RunsOK

\* Steps that only look leave the repository as it is.
LEMMA QuietSteps ==
  ASSUME GitInv, UNCHANGED <<repo, stash, minted, made>>
  PROVE  GitInv' /\ Shas' = Shas
  BY DEF GitInv, RepositoryOK, StashOK, NoWorkLost, Stashed, MadeSoFar, Shas, repo

\* What remains to be shown of a step that only changes run r.
LEMMA OnlyItsRun ==
  ASSUME RunsOK, NEW r \in Runs, run' \in [Runs -> Jobs],
         \A q \in Runs \ {r} : run'[q] = run[q],
         run'[r].saved \subseteq MadeSoFar, run'[r].base \subseteq MadeSoFar,
         UNCHANGED <<mine, popped, minted, moves, made>>,
         before' = [q \in Runs |-> before'[q]], disturbed' \in SUBSET Runs
  PROVE  RunsOK'
  BY DEF RunsOK, MadeSoFar

\* What is known of the entry survives a step that leaves the stash alone.
LEMMA KeepsEntry ==
  ASSUME StashInv, NEW r \in Runs, UNCHANGED <<stash, mine, popped>>,
         run'[r].ref \in {NoSha, run[r].ref},
         run'[r].at \notin {"idle"} \cup StashWindow,
         run'[r].at \in TreeWindow => run[r].at \in TreeWindow,
         run'[r].warned => run'[r].at \in {"over", "failed"},
         disturbed \subseteq disturbed'
  PROVE  Fresh(r)' /\ KnowsItsEntry(r)'
<1>1. OwnInv(r)
  BY DEF StashInv
<1>2. run'[r].at \notin {"idle", "pushing", "naming", "popping", "unpopping"}
  BY DEF StashWindow
<1>3. Fresh(r)'
  BY <1>1, <1>2 DEF OwnInv, Fresh
<1>4. KnowsItsEntry(r)'
  BY <1>1, <1>2 DEF OwnInv, KnowsItsEntry
<1>5. QED
  BY <1>3, <1>4

LEMMA LooksStep ==
  ASSUME StashInv, NEW r \in Runs, NEW s \in Strategies, Looks(r, s),
         disturbed \subseteq disturbed', disturbed' \in SUBSET Runs
  PROVE  StepOK(r)
<1> USE DEF StashInv
<1> DEFINE to == CASE ~Dirty -> "basing"
                   [] Dirty /\ s = "abort" -> "failed"
                   [] Dirty /\ s = "stash" -> "pushing"
                   [] Dirty /\ s = "temp-commit" -> "writing"
<1>1. /\ to \in {"basing", "failed", "pushing", "writing"}
      /\ to = "pushing" => Dirty
      /\ to = "writing" => Dirty /\ s = "temp-commit"
  BY DEF Strategies
<1>2. /\ run[r].at = "idle" /\ Goes(r, to)
      /\ UNCHANGED <<repo, stash, minted, mine, popped, moves, made>>
      /\ before' = IF s = "temp-commit" /\ Dirty THEN [before EXCEPT ![r] = repo] ELSE before
  BY DEF Looks, Keep
<1> HIDE DEF to
<1>3. to \in RunStates
  BY <1>1 DEF RunStates
<1>4. mine[r] = NoSha /\ popped[r] = NoSha /\ run[r].ref = NoSha
  BY <1>2 DEF OwnInv, Fresh
<1>5. GitInv' /\ Shas' = Shas
  BY <1>2, QuietSteps
<1>6. /\ run' \in [Runs -> Jobs]
      /\ run'[r].at = to /\ run'[r].ref = NoSha /\ run'[r].saved = run[r].saved
      /\ run'[r].base = run[r].base /\ run'[r].warned = run[r].warned
      /\ \A q \in Runs \ {r} : run'[q] = run[q]
  BY <1>2, <1>3, <1>4, GoesEffect
<1>7. before' = [q \in Runs |-> before'[q]]
  BY <1>2 DEF RunsOK
<1>8. RunsOK'
  BY <1>2, <1>6, <1>7, OnlyItsRun DEF RunsOK
<1>9. Fresh(r)' /\ Orphans(r)'
  BY <1>2, <1>4, <1>6 DEF OwnInv, Fresh, Orphans
<1>10. KnowsItsEntry(r)'
  BY <1>1, <1>2, <1>4, <1>6 DEF KnowsItsEntry, Dirty, Tip, repo
<1>11. to = "writing" => before'[r] = repo'
  BY <1>1, <1>2 DEF RunsOK
<1>12. KnowsItsTree(r)'
  BY <1>1, <1>6, <1>11 DEF KnowsItsTree
<1>13. QED
  BY <1>5, <1>8, <1>9, <1>10, <1>12 DEF StepOK, OwnInv

LEMMA PushesStep ==
  ASSUME StashInv, NEW r \in Runs, Pushes(r),
         disturbed \subseteq disturbed', disturbed' \in SUBSET Runs
  PROVE  StepOK(r)
<1> USE DEF StashInv
<1>1. /\ run[r].at = "pushing" /\ Goes(r, "naming")
      /\ UNCHANGED <<popped, before, moves, made>>
  BY DEF Pushes, Keep
<1>2. mine[r] = NoSha /\ popped[r] = NoSha /\ run[r].ref = NoSha
  BY <1>1 DEF OwnInv, Fresh, TreeWindow
<1>3. /\ run' \in [Runs -> Jobs]
      /\ run'[r].at = "naming" /\ run'[r].ref = NoSha /\ run'[r].saved = run[r].saved
      /\ run'[r].base = run[r].base /\ run'[r].warned = run[r].warned
      /\ \A q \in Runs \ {r} : run'[q] = run[q]
  BY <1>1, <1>2, GoesEffect DEF RunStates
<1>4. Fresh(r)' /\ KnowsItsTree(r)' /\ Orphans(r)'
  BY <1>1, <1>2, <1>3 DEF OwnInv, Fresh, KnowsItsTree, Orphans, TreeWindow
<1>5. CASE Dirty /\ PushEntry /\ mine' = [mine EXCEPT ![r] = minted']
  <2>1. /\ GitInv' /\ Shas' = Shas \cup {minted'} /\ minted' = minted + 1 /\ minted \in Nat
        /\ stash' # <<>> /\ stash'[1].sha = minted'
    BY <1>1, <1>5, PushEffect
  <2>2. mine'[r] = minted' /\ mine' \in [Runs -> 0..minted' \cup {NoSha}]
    BY <1>5, <2>1 DEF RunsOK
  <2>3. RunsOK'
    BY <1>1, <1>3, <2>2 DEF RunsOK, MadeSoFar
  <2>4. KnowsItsEntry(r)'
    BY <1>1, <1>2, <1>3, <2>1, <2>2 DEF KnowsItsEntry
  <2>5. QED
    BY <1>4, <2>1, <2>3, <2>4 DEF StepOK, OwnInv
<1>6. CASE ~Dirty /\ UNCHANGED <<repo, stash, minted, mine>>
  <2>1. GitInv' /\ Shas' = Shas
    BY <1>1, <1>6, QuietSteps
  <2>2. RunsOK'
    BY <1>1, <1>3, <1>6, OnlyItsRun DEF RunsOK
  <2>3. r \in disturbed
    BY <1>1, <1>6 DEF OwnInv, KnowsItsEntry
  <2>4. KnowsItsEntry(r)'
    BY <2>3 DEF KnowsItsEntry
  <2>5. QED
    BY <1>4, <2>1, <2>2, <2>4 DEF StepOK, OwnInv
<1>7. QED
  BY <1>5, <1>6 DEF Pushes

LEMMA NamesStashStep ==
  ASSUME StashInv, NEW r \in Runs, NamesStash(r),
         disturbed \subseteq disturbed', disturbed' \in SUBSET Runs
  PROVE  StepOK(r)
<1> USE DEF StashInv
<1>1. /\ run[r].at = "naming"
      /\ UNCHANGED <<repo, stash, minted, mine, popped, before, moves, made>>
  BY DEF NamesStash, Keep
<1>2. GitInv' /\ Shas' = Shas
  BY <1>1, QuietSteps
<1>3. popped[r] = NoSha
  BY <1>1 DEF OwnInv, Fresh
<1>4. CASE stash = <<>>
  <2>1. Ends(r, "failed", FALSE)
    BY <1>4 DEF NamesStash
  <2>2. /\ run' \in [Runs -> Jobs]
        /\ run'[r].at = "failed" /\ run'[r].ref = NoSha /\ run'[r].saved = {}
        /\ run'[r].base = {} /\ run'[r].warned = FALSE
        /\ \A q \in Runs \ {r} : run'[q] = run[q]
    BY <2>1, EndsEffect DEF RunStates
  <2>3. RunsOK'
    BY <1>1, <2>2, OnlyItsRun DEF RunsOK
  <2>4. Shas = {}
    BY <1>4 DEF Shas
  <2>5. OwnInv(r)'
    BY <1>1, <1>2, <1>3, <2>2, <2>4
       DEF OwnInv, Fresh, KnowsItsEntry, KnowsItsTree, Orphans, TreeWindow
  <2>6. QED
    BY <1>2, <2>3, <2>5 DEF StepOK
<1>5. CASE stash # <<>>
  <2>1. run' = [run EXCEPT ![r].at = "basing", ![r].ref = stash[1].sha]
    BY <1>5 DEF NamesStash
  <2>2. stash[1].sha \in Nat
    <3>1. stash[1] \in Entries
      BY <1>5 DEF GitInv, StashOK
    <3>2. QED
      BY <3>1, StashStackAssumption DEF Entries
  <2> DEFINE e == [run[r] EXCEPT !.at = "basing", !.ref = stash[1].sha]
  <2>e. /\ e \in Jobs /\ e.at = "basing" /\ e.ref = stash[1].sha
        /\ e.saved = run[r].saved /\ e.base = run[r].base /\ e.warned = run[r].warned
    BY <2>2, JobIsTyped DEF Jobs, RunStates
  <2>f. run' = [run EXCEPT ![r] = e]
    BY <2>1
  <2> HIDE DEF e
  <2>3. /\ run' \in [Runs -> Jobs]
        /\ run'[r].at = "basing" /\ run'[r].ref = stash[1].sha /\ run'[r].saved = run[r].saved
        /\ run'[r].base = run[r].base /\ run'[r].warned = run[r].warned
        /\ \A q \in Runs \ {r} : run'[q] = run[q]
    BY <2>e, <2>f, SetsEffect
  <2>4. RunsOK'
    BY <1>1, <2>3, OnlyItsRun DEF RunsOK
  <2>5. Fresh(r)' /\ KnowsItsTree(r)'
    BY <1>1, <2>3 DEF OwnInv, Fresh, KnowsItsTree, TreeWindow
  <2>6. r \notin disturbed => stash[1].sha = mine[r]
    BY <1>1 DEF OwnInv, KnowsItsEntry
  <2>7. KnowsItsEntry(r)' /\ Orphans(r)'
    BY <1>1, <1>3, <2>3, <2>6 DEF KnowsItsEntry, Orphans
  <2>8. QED
    BY <1>2, <2>4, <2>5, <2>7 DEF StepOK, OwnInv
<1>6. QED
  BY <1>4, <1>5

\* A run that ends before it has made an entry leaves none behind.
LEMMA EndsInTreeWindow ==
  ASSUME StashInv, NEW r \in Runs, run[r].at \in TreeWindow, Ends(r, "failed", FALSE),
         UNCHANGED <<repo, stash, minted, mine, popped, before, moves, made>>,
         disturbed \subseteq disturbed', disturbed' \in SUBSET Runs
  PROVE  StepOK(r)
<1> USE DEF StashInv
<1>1. /\ run' \in [Runs -> Jobs]
      /\ run'[r].at = "failed" /\ run'[r].ref = NoSha /\ run'[r].saved = {}
      /\ run'[r].base = {} /\ run'[r].warned = FALSE
      /\ \A q \in Runs \ {r} : run'[q] = run[q]
  BY EndsEffect DEF RunStates
<1>2. GitInv' /\ Shas' = Shas
  BY QuietSteps
<1>3. RunsOK'
  BY <1>1, OnlyItsRun DEF RunsOK
<1>4. Fresh(r)' /\ KnowsItsEntry(r)'
  BY <1>1, KeepsEntry DEF TreeWindow, StashWindow
<1>5. mine[r] = NoSha
  BY DEF OwnInv, Fresh
<1>6. KnowsItsTree(r)' /\ Orphans(r)'
  BY <1>1, <1>5 DEF KnowsItsTree, Orphans
<1>7. QED
  BY <1>2, <1>3, <1>4, <1>6 DEF StepOK, OwnInv

LEMMA WritesTreeStep ==
  ASSUME StashInv, NEW r \in Runs, WritesTree(r),
         disturbed \subseteq disturbed', disturbed' \in SUBSET Runs
  PROVE  StepOK(r)
<1> USE DEF StashInv
<1>1. /\ run[r].at = "writing" /\ run[r].at \in TreeWindow
      /\ run' = [run EXCEPT ![r].at = "adding", ![r].saved = idx]
      /\ UNCHANGED <<repo, stash, minted, mine, popped, before, moves, made>>
  BY DEF WritesTree, Keep, TreeWindow
<1>2. GitInv' /\ Shas' = Shas
  BY <1>1, QuietSteps
<1> DEFINE e == [run[r] EXCEPT !.at = "adding", !.saved = idx]
<1>3. idx \in SUBSET MadeSoFar /\ MadeSoFar \subseteq Things
  BY DEF GitInv, RepositoryOK, MadeSoFar, Things
<1>4. /\ e \in Jobs /\ e.at = "adding" /\ e.saved = idx
      /\ e.ref = run[r].ref /\ e.base = run[r].base /\ e.warned = run[r].warned
  BY <1>3, JobIsTyped DEF Jobs, RunStates
<1>5. run' = [run EXCEPT ![r] = e]
  BY <1>1
<1> HIDE DEF e
<1>6. /\ run' \in [Runs -> Jobs] /\ run'[r].at = "adding" /\ run'[r].saved = idx
      /\ run'[r].ref = run[r].ref /\ run'[r].base = run[r].base
      /\ run'[r].warned = run[r].warned /\ \A q \in Runs \ {r} : run'[q] = run[q]
  BY <1>4, <1>5, SetsEffect
<1>7. RunsOK'
  BY <1>1, <1>3, <1>6, OnlyItsRun DEF RunsOK
<1>8. mine[r] = NoSha /\ ~run[r].warned
  BY <1>1 DEF OwnInv, Fresh
<1>9. Fresh(r)' /\ KnowsItsEntry(r)'
  BY <1>1, <1>6, <1>8, KeepsEntry DEF StashWindow
<1>10. KnowsItsTree(r)'
  BY <1>1, <1>6 DEF OwnInv, KnowsItsTree, repo
<1>11. Orphans(r)'
  BY <1>1, <1>8 DEF Orphans
<1>12. QED
  BY <1>2, <1>7, <1>9, <1>10, <1>11 DEF StepOK, OwnInv

LEMMA AddsAllStep ==
  ASSUME StashInv, NEW r \in Runs, AddsAll(r),
         disturbed \subseteq disturbed', disturbed' \in SUBSET Runs
  PROVE  StepOK(r)
<1> USE DEF StashInv
<1>1. /\ run[r].at = "adding" /\ run[r].at \in TreeWindow /\ Goes(r, "committing")
      /\ idx' = wt
      /\ UNCHANGED <<wt, branch, stash, minted, mine, popped, before, moves, made>>
  BY DEF AddsAll, Keep, TreeWindow
<1>2. RepositoryOK'
  BY <1>1 DEF GitInv, RepositoryOK, MadeSoFar
<1>3. GitInv' /\ Shas' = Shas
  BY <1>1, <1>2, OnlyAdds DEF Shas
<1>4. /\ run' \in [Runs -> Jobs] /\ run'[r].at = "committing" /\ run'[r].saved = run[r].saved
      /\ run'[r].ref = run[r].ref /\ run'[r].base = run[r].base
      /\ run'[r].warned = run[r].warned /\ \A q \in Runs \ {r} : run'[q] = run[q]
  BY <1>1, GoesEffect DEF RunStates
<1>5. RunsOK'
  BY <1>1, <1>4, OnlyItsRun DEF RunsOK
<1>6. mine[r] = NoSha /\ ~run[r].warned
  BY <1>1 DEF OwnInv, Fresh
<1>7. Fresh(r)' /\ KnowsItsEntry(r)'
  BY <1>1, <1>4, <1>6, KeepsEntry DEF StashWindow
<1>8. KnowsItsTree(r)'
  BY <1>1, <1>4 DEF OwnInv, KnowsItsTree
<1>9. Orphans(r)'
  BY <1>1, <1>6 DEF Orphans
<1>10. QED
  BY <1>3, <1>5, <1>7, <1>8, <1>9 DEF StepOK, OwnInv

LEMMA CommitsStep ==
  ASSUME StashInv, NEW r \in Runs, Commits(r),
         disturbed \subseteq disturbed', disturbed' \in SUBSET Runs
  PROVE  StepOK(r)
<1> USE DEF StashInv
<1>1. /\ run[r].at = "committing" /\ run[r].at \in TreeWindow
      /\ UNCHANGED <<wt, idx, stash, minted, mine, popped, before, moves, made>>
  BY DEF Commits, Keep, TreeWindow
<1>2. CASE Ends(r, "failed", FALSE) /\ UNCHANGED branch
  BY <1>1, <1>2, EndsInTreeWindow DEF repo
<1>3. CASE CommitAs(idx) /\ run' = [run EXCEPT ![r].at = "reading", ![r].temp = TRUE]
  <2>1. /\ branch' \in Seq(SUBSET MadeSoFar)
        /\ branch' # <<>> /\ Last(branch') = idx /\ Front(branch') = branch
    BY <1>3, CommitEffect DEF GitInv, RepositoryOK
  <2>2. RepositoryOK'
    BY <1>1, <2>1 DEF GitInv, RepositoryOK, MadeSoFar
  <2>3. GitInv' /\ Shas' = Shas
    BY <1>1, <2>2, OnlyAdds DEF Shas
  <2> DEFINE e == [run[r] EXCEPT !.at = "reading", !.temp = TRUE]
  <2>4. /\ e \in Jobs /\ e.at = "reading" /\ e.saved = run[r].saved
        /\ e.ref = run[r].ref /\ e.base = run[r].base /\ e.warned = run[r].warned
    BY JobIsTyped DEF Jobs, RunStates
  <2>5. run' = [run EXCEPT ![r] = e]
    BY <1>3
  <2> HIDE DEF e
  <2>6. /\ run' \in [Runs -> Jobs] /\ run'[r].at = "reading" /\ run'[r].saved = run[r].saved
        /\ run'[r].ref = run[r].ref /\ run'[r].base = run[r].base
        /\ run'[r].warned = run[r].warned /\ \A q \in Runs \ {r} : run'[q] = run[q]
    BY <2>4, <2>5, SetsEffect
  <2>7. RunsOK'
    BY <1>1, <2>6, OnlyItsRun DEF RunsOK
  <2>8. mine[r] = NoSha /\ ~run[r].warned
    BY <1>1 DEF OwnInv, Fresh
  <2>9. Fresh(r)' /\ KnowsItsEntry(r)'
    BY <1>1, <2>6, <2>8, KeepsEntry DEF StashWindow
  <2>10. KnowsItsTree(r)'
    BY <1>1, <2>1, <2>6 DEF OwnInv, KnowsItsTree
  <2>11. Orphans(r)'
    BY <1>1, <2>8 DEF Orphans
  <2>12. QED
    BY <2>3, <2>7, <2>9, <2>10, <2>11 DEF StepOK, OwnInv
<1>4. QED
  BY <1>2, <1>3 DEF Commits

LEMMA ReadsHeadStep ==
  ASSUME StashInv, NEW r \in Runs, ReadsHead(r),
         disturbed \subseteq disturbed', disturbed' \in SUBSET Runs
  PROVE  StepOK(r)
<1> USE DEF StashInv
<1>1. /\ run[r].at = "reading" /\ run[r].at \in TreeWindow
      /\ run' = [run EXCEPT ![r].at = "resetting", ![r].base = Tip]
      /\ UNCHANGED <<repo, stash, minted, mine, popped, before, moves, made>>
  BY DEF ReadsHead, Keep, TreeWindow
<1>2. GitInv' /\ Shas' = Shas
  BY <1>1, QuietSteps
<1> DEFINE e == [run[r] EXCEPT !.at = "resetting", !.base = Tip]
<1>3. Tip \in SUBSET MadeSoFar /\ MadeSoFar \subseteq Things
  BY TipIsKnown DEF GitInv, RepositoryOK, MadeSoFar, Things
<1>4. /\ e \in Jobs /\ e.at = "resetting" /\ e.saved = run[r].saved
      /\ e.ref = run[r].ref /\ e.base = Tip /\ e.warned = run[r].warned
  BY <1>3, JobIsTyped DEF Jobs, RunStates
<1>5. run' = [run EXCEPT ![r] = e]
  BY <1>1
<1> HIDE DEF e
<1>6. /\ run' \in [Runs -> Jobs] /\ run'[r].at = "resetting" /\ run'[r].saved = run[r].saved
      /\ run'[r].ref = run[r].ref /\ run'[r].base = Tip
      /\ run'[r].warned = run[r].warned /\ \A q \in Runs \ {r} : run'[q] = run[q]
  BY <1>4, <1>5, SetsEffect
<1>7. RunsOK'
  BY <1>1, <1>3, <1>6, OnlyItsRun DEF RunsOK
<1>8. mine[r] = NoSha /\ ~run[r].warned
  BY <1>1 DEF OwnInv, Fresh
<1>9. Fresh(r)' /\ KnowsItsEntry(r)'
  BY <1>1, <1>6, <1>8, KeepsEntry DEF StashWindow
<1>10. branch # <<>> => Tip = Last(branch)
  BY DEF Tip
<1>11. KnowsItsTree(r)'
  BY <1>1, <1>6, <1>10 DEF OwnInv, KnowsItsTree, repo
<1>12. Orphans(r)'
  BY <1>1, <1>8 DEF Orphans
<1>13. QED
  BY <1>2, <1>7, <1>9, <1>11, <1>12 DEF StepOK, OwnInv

LEMMA ResetsStep ==
  ASSUME StashInv, NEW r \in Runs, Resets(r),
         disturbed \subseteq disturbed', disturbed' \in SUBSET Runs
  PROVE  StepOK(r)
<1> USE DEF StashInv
<1>1. /\ run[r].at = "resetting" /\ run[r].at \in TreeWindow
      /\ UNCHANGED <<wt, idx, stash, minted, mine, popped, before, moves, made>>
  BY DEF Resets, Keep, TreeWindow
<1>2. CASE Ends(r, "failed", FALSE) /\ UNCHANGED branch
  BY <1>1, <1>2, EndsInTreeWindow DEF repo
<1>3. CASE branch # <<>> /\ Goes(r, "indexing") /\ branch' = Front(branch)
  <2>1. Front(branch) \in Seq(SUBSET MadeSoFar)
    BY <1>3, TipIsKnown DEF GitInv
  <2>2. RepositoryOK'
    BY <1>1, <1>3, <2>1 DEF GitInv, RepositoryOK, MadeSoFar
  <2>3. GitInv' /\ Shas' = Shas
    BY <1>1, <2>2, OnlyAdds DEF Shas
  <2>4. /\ run' \in [Runs -> Jobs] /\ run'[r].at = "indexing" /\ run'[r].saved = run[r].saved
        /\ run'[r].ref = run[r].ref /\ run'[r].base = run[r].base
        /\ run'[r].warned = run[r].warned /\ \A q \in Runs \ {r} : run'[q] = run[q]
    BY <1>3, GoesEffect DEF RunStates
  <2>5. RunsOK'
    BY <1>1, <2>4, OnlyItsRun DEF RunsOK
  <2>6. mine[r] = NoSha /\ ~run[r].warned
    BY <1>1 DEF OwnInv, Fresh
  <2>7. Fresh(r)' /\ KnowsItsEntry(r)'
    BY <1>1, <2>4, <2>6, KeepsEntry DEF StashWindow
  <2>8. KnowsItsTree(r)'
    BY <1>1, <1>3, <2>4 DEF OwnInv, KnowsItsTree
  <2>9. Orphans(r)'
    BY <1>1, <2>6 DEF Orphans
  <2>10. QED
    BY <2>3, <2>5, <2>7, <2>8, <2>9 DEF StepOK, OwnInv
<1>4. QED
  BY <1>2, <1>3 DEF Resets

LEMMA RestoresIndexStep ==
  ASSUME StashInv, NEW r \in Runs, RestoresIndex(r),
         disturbed \subseteq disturbed', disturbed' \in SUBSET Runs
  PROVE  StepOK(r)
<1> USE DEF StashInv
<1>1. /\ run[r].at = "indexing" /\ run[r].at \in TreeWindow /\ Goes(r, "basing")
      /\ idx' = run[r].saved /\ before' = [before EXCEPT ![r] = <<{}, {}, <<>>>>]
      /\ UNCHANGED <<wt, branch, stash, minted, mine, popped, moves, made>>
  BY DEF RestoresIndex, Keep, TreeWindow
<1>2. RepositoryOK'
  BY <1>1 DEF GitInv, RepositoryOK, RunsOK, MadeSoFar
<1>3. GitInv' /\ Shas' = Shas
  BY <1>1, <1>2, OnlyAdds DEF Shas
<1>4. /\ run' \in [Runs -> Jobs] /\ run'[r].at = "basing" /\ run'[r].saved = run[r].saved
      /\ run'[r].ref = run[r].ref /\ run'[r].base = run[r].base
      /\ run'[r].warned = run[r].warned /\ \A q \in Runs \ {r} : run'[q] = run[q]
  BY <1>1, GoesEffect DEF RunStates
<1>5. before' = [q \in Runs |-> before'[q]]
  BY <1>1 DEF RunsOK
<1>6. RunsOK'
  BY <1>1, <1>4, <1>5, OnlyItsRun DEF RunsOK
<1>7. mine[r] = NoSha /\ ~run[r].warned
  BY <1>1 DEF OwnInv, Fresh
<1>8. Fresh(r)' /\ KnowsItsEntry(r)'
  BY <1>1, <1>4, <1>7, KeepsEntry DEF StashWindow
<1>9. KnowsItsTree(r)' /\ Orphans(r)'
  BY <1>1, <1>4, <1>7 DEF KnowsItsTree, Orphans
<1>10. QED
  BY <1>3, <1>6, <1>8, <1>9 DEF StepOK, OwnInv

\* A quiet step after the worktree's base is known only has its entry to account for.
LEMMA QuietAfterBasing ==
  ASSUME StashInv, NEW r \in Runs,
         UNCHANGED <<repo, stash, minted, mine, popped, before, moves, made>>,
         run' \in [Runs -> Jobs], \A q \in Runs \ {r} : run'[q] = run[q],
         run'[r].saved \subseteq MadeSoFar, run'[r].base \subseteq MadeSoFar,
         run'[r].ref \in {NoSha, run[r].ref},
         run'[r].at \notin {"idle"} \cup TreeWindow \cup StashWindow,
         run'[r].warned => run'[r].at \in {"over", "failed"},
         Orphans(r) => Orphans(r)',
         disturbed \subseteq disturbed', disturbed' \in SUBSET Runs
  PROVE  StepOK(r)
<1> USE DEF StashInv
<1>1. GitInv' /\ Shas' = Shas
  BY QuietSteps
<1>2. RunsOK'
  BY OnlyItsRun DEF RunsOK
<1>3. Fresh(r)' /\ KnowsItsEntry(r)'
  BY KeepsEntry
<1>4. KnowsItsTree(r)'
  BY DEF KnowsItsTree, TreeWindow
<1>5. QED
  BY <1>1, <1>2, <1>3, <1>4 DEF StepOK, OwnInv

LEMMA BasesStep ==
  ASSUME StashInv, NEW r \in Runs, Bases(r),
         disturbed \subseteq disturbed', disturbed' \in SUBSET Runs
  PROVE  StepOK(r)
<1> USE DEF StashInv
<1> DEFINE b == IF run[r].temp THEN run[r].base ELSE Tip
          e == [run[r] EXCEPT !.at = "live", !.base = b]
<1>1. /\ run[r].at = "basing"
      /\ run' = [run EXCEPT ![r] = e]
      /\ UNCHANGED <<repo, stash, minted, mine, popped, before, moves, made>>
  BY DEF Bases, Keep
<1>2. b \in SUBSET MadeSoFar /\ MadeSoFar \subseteq Things
  BY TipIsKnown DEF GitInv, RepositoryOK, RunsOK, MadeSoFar, Things
<1> HIDE DEF b
<1>3. /\ e \in Jobs /\ e.at = "live" /\ e.saved = run[r].saved
      /\ e.ref = run[r].ref /\ e.base = b /\ e.warned = run[r].warned
  BY <1>2, JobIsTyped DEF Jobs, RunStates
<1> HIDE DEF e
<1>4. /\ run' \in [Runs -> Jobs] /\ run'[r].at = "live" /\ run'[r].saved = run[r].saved
      /\ run'[r].ref = run[r].ref /\ run'[r].base = b
      /\ run'[r].warned = run[r].warned /\ \A q \in Runs \ {r} : run'[q] = run[q]
  BY <1>1, <1>3, SetsEffect
<1>5. ~run[r].warned
  BY <1>1 DEF OwnInv, Fresh
<1>6. Orphans(r) => Orphans(r)'
  BY <1>1, <1>4 DEF Orphans, Shas
<1>7. QED
  BY <1>1, <1>2, <1>4, <1>5, <1>6, QuietAfterBasing DEF RunsOK, TreeWindow, StashWindow

LEMMA BasingFailsStep ==
  ASSUME StashInv, NEW r \in Runs, BasingFails(r),
         disturbed \subseteq disturbed', disturbed' \in SUBSET Runs
  PROVE  StepOK(r)
<1> USE DEF StashInv
<1>1. /\ run[r].at = "basing"
      /\ UNCHANGED <<repo, stash, minted, mine, popped, before, moves, made>>
  BY DEF BasingFails, Keep
<1>2. ~run[r].warned
  BY <1>1 DEF OwnInv, Fresh
<1>3. CASE run[r].ref = NoSha /\ Ends(r, "failed", FALSE)
  <2>1. /\ run' \in [Runs -> Jobs] /\ run'[r].at = "failed" /\ run'[r].ref = NoSha
        /\ run'[r].saved = {} /\ run'[r].base = {} /\ \A q \in Runs \ {r} : run'[q] = run[q]
    BY <1>3, EndsEffect DEF RunStates
  <2>2. Orphans(r) => Orphans(r)'
    BY <1>1, <1>2, <1>3, <2>1 DEF Orphans, Shas
  <2>3. QED
    BY <1>1, <2>1, <2>2, QuietAfterBasing DEF TreeWindow, StashWindow
<1>4. CASE run[r].ref # NoSha /\ Goes(r, "undoing")
  <2>1. /\ run' \in [Runs -> Jobs] /\ run'[r].at = "undoing" /\ run'[r].saved = run[r].saved
        /\ run'[r].ref = run[r].ref /\ run'[r].base = run[r].base
        /\ run'[r].warned = run[r].warned /\ \A q \in Runs \ {r} : run'[q] = run[q]
    BY <1>4, GoesEffect DEF RunStates
  <2>2. Orphans(r) => Orphans(r)'
    BY <1>1, <2>1 DEF Orphans, Shas
  <2>3. QED
    BY <1>1, <1>2, <2>1, <2>2, QuietAfterBasing DEF RunsOK, TreeWindow, StashWindow
<1>5. QED
  BY <1>3, <1>4 DEF BasingFails

LEMMA NeverStartsStep ==
  ASSUME StashInv, NEW r \in Runs, NeverStarts(r),
         disturbed \subseteq disturbed', disturbed' \in SUBSET Runs
  PROVE  StepOK(r)
<1> USE DEF StashInv
<1>1. /\ run[r].at = "live" /\ Ends(r, "unstarted", FALSE)
      /\ UNCHANGED <<repo, stash, minted, mine, popped, before, moves, made>>
  BY DEF NeverStarts, Keep
<1>2. /\ run' \in [Runs -> Jobs] /\ run'[r].at = "unstarted" /\ run'[r].ref = NoSha
      /\ run'[r].saved = {} /\ run'[r].base = {} /\ run'[r].warned = FALSE
      /\ \A q \in Runs \ {r} : run'[q] = run[q]
  BY <1>1, EndsEffect DEF RunStates
<1>3. Orphans(r) => Orphans(r)'
  BY <1>2 DEF Orphans
<1>4. QED
  BY <1>1, <1>2, <1>3, QuietAfterBasing DEF TreeWindow, StashWindow

\* A run that is done means to bring its entry back, if it has one.
LEMMA ToRestoreEffect ==
  ASSUME StashInv, NEW r \in Runs, run[r].at = "live", ToRestore(r), UNCHANGED mine,
         Shas' = Shas, disturbed \subseteq disturbed'
  PROVE  /\ run' \in [Runs -> Jobs] /\ \A q \in Runs \ {r} : run'[q] = run[q]
         /\ run'[r].saved \subseteq MadeSoFar /\ run'[r].base \subseteq MadeSoFar
         /\ run'[r].ref \in {NoSha, run[r].ref} /\ run'[r].at \in {"over", "restoring"}
         /\ ~run'[r].warned /\ Orphans(r)'
<1> USE DEF StashInv
<1>1. ~run[r].warned /\ Orphans(r)
  BY DEF OwnInv, Fresh
<1>2. CASE run[r].ref = NoSha /\ Ends(r, "over", FALSE)
  <2>1. /\ run' \in [Runs -> Jobs] /\ run'[r].at = "over" /\ run'[r].ref = NoSha
        /\ run'[r].saved = {} /\ run'[r].base = {} /\ run'[r].warned = FALSE
        /\ \A q \in Runs \ {r} : run'[q] = run[q]
    BY <1>2, EndsEffect DEF RunStates
  <2>2. QED
    BY <1>1, <1>2, <2>1 DEF Orphans
<1>3. CASE run[r].ref # NoSha /\ Goes(r, "restoring")
  <2>1. /\ run' \in [Runs -> Jobs] /\ run'[r].at = "restoring" /\ run'[r].saved = run[r].saved
        /\ run'[r].ref = run[r].ref /\ run'[r].base = run[r].base
        /\ run'[r].warned = run[r].warned /\ \A q \in Runs \ {r} : run'[q] = run[q]
    BY <1>3, GoesEffect DEF RunStates
  <2>2. QED
    BY <1>1, <2>1 DEF Orphans, RunsOK
<1>4. QED
  BY <1>2, <1>3 DEF ToRestore

LEMMA DiscardsStep ==
  ASSUME StashInv, NEW r \in Runs, Discards(r),
         disturbed \subseteq disturbed', disturbed' \in SUBSET Runs
  PROVE  StepOK(r)
<1> USE DEF StashInv
<1>1. /\ run[r].at = "live" /\ ToRestore(r)
      /\ UNCHANGED <<repo, stash, minted, mine, popped, before, moves, made>>
  BY DEF Discards, Keep
<1>2. Shas' = Shas
  BY <1>1 DEF Shas
<1>3. QED
  BY <1>1, <1>2, ToRestoreEffect, QuietAfterBasing DEF TreeWindow, StashWindow

LEMMA ApprovesStep ==
  ASSUME StashInv, NEW r \in Runs, Approves(r),
         disturbed \subseteq disturbed', disturbed' \in SUBSET Runs
  PROVE  StepOK(r)
<1> USE DEF StashInv
<1> DEFINE result == Tip \cup run[r].base \cup {r}
<1>1. /\ run[r].at = "live" /\ ToRestore(r)
      /\ CommitAs(result) /\ idx' = result /\ wt' = wt \cup result
      /\ UNCHANGED <<stash, minted, mine, popped, before, moves, made>>
  BY DEF Approves, Keep
<1>2. result \in SUBSET MadeSoFar
  BY TipIsKnown DEF GitInv, RunsOK, MadeSoFar
<1> HIDE DEF result
<1>3. branch' \in Seq(SUBSET MadeSoFar)
  BY <1>1, <1>2, CommitEffect DEF GitInv
<1>4. RepositoryOK'
  BY <1>1, <1>2, <1>3 DEF GitInv, RepositoryOK, MadeSoFar
<1>5. GitInv' /\ Shas' = Shas
  BY <1>1, <1>4, OnlyAdds DEF Shas
<1>6. /\ run' \in [Runs -> Jobs] /\ \A q \in Runs \ {r} : run'[q] = run[q]
      /\ run'[r].saved \subseteq MadeSoFar /\ run'[r].base \subseteq MadeSoFar
      /\ run'[r].ref \in {NoSha, run[r].ref} /\ run'[r].at \in {"over", "restoring"}
      /\ ~run'[r].warned /\ Orphans(r)'
  BY <1>1, <1>5, ToRestoreEffect
<1>7. RunsOK'
  BY <1>1, <1>6, OnlyItsRun DEF RunsOK
<1>8. Fresh(r)' /\ KnowsItsEntry(r)'
  BY <1>1, <1>6, KeepsEntry DEF TreeWindow, StashWindow
<1>9. KnowsItsTree(r)'
  BY <1>6 DEF KnowsItsTree
<1>10. QED
  BY <1>5, <1>6, <1>7, <1>8, <1>9 DEF StepOK, OwnInv

LEMMA FindsPositionStep ==
  ASSUME StashInv, NEW r \in Runs, FindsPosition(r),
         disturbed \subseteq disturbed', disturbed' \in SUBSET Runs
  PROVE  StepOK(r)
<1> USE DEF StashInv
<1>1. /\ run[r].at \in {"restoring", "undoing"}
      /\ UNCHANGED <<repo, stash, minted, mine, popped, before, moves, made>>
  BY DEF FindsPosition, Keep
<1>2. GitInv' /\ Shas' = Shas
  BY <1>1, QuietSteps
<1>3. ~run[r].warned /\ Orphans(r)
  BY <1>1 DEF OwnInv, Fresh
<1> DEFINE to == IF run[r].at = "undoing" THEN "failed" ELSE "over"
          next == IF run[r].at = "undoing" THEN "unpopping" ELSE "popping"
<1>4. CASE Positions(run[r].ref) = {}
  <2>1. to \in {"failed", "over"} /\ Ends(r, to, TRUE)
    BY <1>4 DEF FindsPosition
  <2> HIDE DEF to
  <2>2. /\ run' \in [Runs -> Jobs] /\ run'[r].at = to /\ run'[r].ref = NoSha
        /\ run'[r].saved = {} /\ run'[r].base = {} /\ run'[r].warned = TRUE
        /\ \A q \in Runs \ {r} : run'[q] = run[q]
    BY <2>1, EndsEffect DEF RunStates
  <2>3. Orphans(r)'
    BY <2>2 DEF Orphans
  <2>4. QED
    BY <1>1, <2>1, <2>2, <2>3, QuietAfterBasing DEF TreeWindow, StashWindow
<1>5. CASE Positions(run[r].ref) # {}
  <2>1. PICK i \in Positions(run[r].ref) :
          run' = [run EXCEPT ![r].pos = i,
                             ![r].at = IF @ = "undoing" THEN "unpopping" ELSE "popping"]
    BY <1>5 DEF FindsPosition
  <2>2. i \in DOMAIN stash /\ stash[i].sha = run[r].ref /\ i \in Nat
    BY <2>1 DEF Positions, GitInv, StashOK
  <2> DEFINE e == [run[r] EXCEPT !.pos = i, !.at = next]
  <2>3. next \in {"unpopping", "popping"} /\ run' = [run EXCEPT ![r] = e]
    BY <2>1
  <2> HIDE DEF next
  <2>4. /\ e \in Jobs /\ e.at = next /\ e.pos = i /\ e.saved = run[r].saved
        /\ e.ref = run[r].ref /\ e.base = run[r].base /\ e.warned = run[r].warned
    BY <2>2, <2>3, JobIsTyped DEF Jobs, RunStates
  <2> HIDE DEF e
  <2>5. /\ run' \in [Runs -> Jobs] /\ run'[r].at = next /\ run'[r].pos = i
        /\ run'[r].saved = run[r].saved /\ run'[r].ref = run[r].ref
        /\ run'[r].base = run[r].base /\ run'[r].warned = run[r].warned
        /\ \A q \in Runs \ {r} : run'[q] = run[q]
    BY <2>3, <2>4, SetsEffect
  <2>6. RunsOK'
    BY <1>1, <2>5, OnlyItsRun DEF RunsOK
  <2>7. Fresh(r)' /\ KnowsItsTree(r)'
    BY <1>3, <2>3, <2>5 DEF Fresh, KnowsItsTree, TreeWindow
  <2>8. KnowsItsEntry(r)'
    BY <1>1, <2>2, <2>3, <2>5 DEF OwnInv, KnowsItsEntry
  <2>9. Orphans(r)'
    BY <1>1, <1>2, <1>3, <2>3, <2>5 DEF Orphans
  <2>10. QED
    BY <1>2, <2>6, <2>7, <2>8, <2>9 DEF StepOK, OwnInv
<1>6. QED
  BY <1>4, <1>5

LEMMA DiesStep ==
  ASSUME StashInv, NEW r \in Runs, Dies(r),
         disturbed \subseteq disturbed', disturbed' \in SUBSET Runs
  PROVE  StepOK(r)
<1> USE DEF StashInv
<1>1. /\ run[r].at \notin {"idle", "over", "failed"}
      /\ UNCHANGED <<repo, stash, minted, mine, popped, before, moves, made>>
  BY DEF Dies, Keep
<1>2. ~run[r].warned
  BY <1>1 DEF OwnInv, Fresh
<1>3. CASE run[r].at \in {"restoring", "popping"} /\ Goes(r, "live")
  <2>1. /\ run' \in [Runs -> Jobs] /\ run'[r].at = "live" /\ run'[r].saved = run[r].saved
        /\ run'[r].ref = run[r].ref /\ run'[r].base = run[r].base
        /\ run'[r].warned = run[r].warned /\ \A q \in Runs \ {r} : run'[q] = run[q]
    BY <1>3, GoesEffect DEF RunStates
  <2>2. Orphans(r) => Orphans(r)'
    BY <1>1, <1>3, <2>1 DEF Orphans, Shas
  <2>3. QED
    BY <1>1, <1>2, <2>1, <2>2, QuietAfterBasing DEF RunsOK, TreeWindow, StashWindow
<1>4. CASE Ends(r, "dead", FALSE)
  <2>1. /\ run' \in [Runs -> Jobs] /\ run'[r].at = "dead" /\ run'[r].ref = NoSha
        /\ run'[r].saved = {} /\ run'[r].base = {} /\ run'[r].warned = FALSE
        /\ \A q \in Runs \ {r} : run'[q] = run[q]
    BY <1>4, EndsEffect DEF RunStates
  <2>2. Orphans(r) => Orphans(r)'
    BY <2>1 DEF Orphans
  <2>3. QED
    BY <1>1, <2>1, <2>2, QuietAfterBasing DEF TreeWindow, StashWindow
<1>5. QED
  BY <1>3, <1>4 DEF Dies

LEMMA PopsStep ==
  ASSUME StashInv, NEW r \in Runs, Pops(r),
         disturbed \subseteq disturbed', disturbed' \in SUBSET Runs
  PROVE  StepOK(r)
<1> USE DEF StashInv
<1> DEFINE after == IF run[r].at = "unpopping" THEN "failed" ELSE "over"
          i == run[r].pos
<1>1. /\ run[r].at \in {"popping", "unpopping"} /\ after \in {"failed", "over"}
      /\ UNCHANGED <<mine, before, moves, made>>
  BY DEF Pops, Keep
<1>2. /\ i \in DOMAIN stash /\ Applies(i) /\ popped' = [popped EXCEPT ![r] = stash[i].sha]
         /\ Ends(r, after, FALSE)
      \/ /\ i \in DOMAIN stash => Conflicts(i)
         /\ i \notin DOMAIN stash => UNCHANGED <<repo, stash, minted>>
         /\ Ends(r, after, TRUE) /\ UNCHANGED popped
  BY DEF Pops
<1> HIDE DEF after, i
<1>3. CASE /\ i \in DOMAIN stash /\ Applies(i) /\ popped' = [popped EXCEPT ![r] = stash[i].sha]
           /\ Ends(r, after, FALSE)
  <2>1. GitInv' /\ Shas' = Shas \ {stash[i].sha} /\ UNCHANGED minted
    BY <1>1, <1>3, AppliesEffect DEF Applies
  <2>2. stash[i].sha \in Nat
    <3>1. stash[i] \in Entries
      BY <1>3 DEF GitInv, StashOK
    <3>2. QED
      BY <3>1, StashStackAssumption DEF Entries
  <2>3. /\ run' \in [Runs -> Jobs] /\ run'[r].at = after /\ run'[r].ref = NoSha
        /\ run'[r].saved = {} /\ run'[r].base = {} /\ run'[r].warned = FALSE
        /\ \A q \in Runs \ {r} : run'[q] = run[q]
    BY <1>1, <1>3, EndsEffect DEF RunStates
  <2>4. popped' \in [Runs -> Nat \cup {NoSha}] /\ popped'[r] = stash[i].sha
    BY <1>3, <2>2 DEF RunsOK
  <2>5. RunsOK'
    BY <1>1, <2>1, <2>3, <2>4 DEF RunsOK, MadeSoFar
  <2>6. Fresh(r)' /\ KnowsItsTree(r)'
    BY <1>1, <2>3 DEF Fresh, KnowsItsTree, TreeWindow
  <2>7. r \notin disturbed => stash[i].sha = mine[r]
    BY <1>1, <2>2, StashStackAssumption DEF OwnInv, KnowsItsEntry, i
  <2>8. KnowsItsEntry(r)'
    BY <1>1, <2>3, <2>4, <2>7 DEF KnowsItsEntry
  <2>9. Orphans(r)'
    BY <1>1, <2>1, <2>7 DEF Orphans
  <2>10. QED
    BY <2>1, <2>5, <2>6, <2>8, <2>9 DEF StepOK, OwnInv
<1>4. CASE /\ i \in DOMAIN stash => Conflicts(i)
           /\ i \notin DOMAIN stash => UNCHANGED <<repo, stash, minted>>
           /\ Ends(r, after, TRUE) /\ UNCHANGED popped
  <2>1. GitInv' /\ UNCHANGED <<stash, minted>>
    <3>1. CASE i \in DOMAIN stash
      BY <1>1, <1>4, <3>1, ConflictsEffect DEF Conflicts
    <3>2. CASE i \notin DOMAIN stash
      BY <1>1, <1>4, <3>2, QuietSteps
    <3>3. QED
      BY <3>1, <3>2
  <2>2. Shas' = Shas
    BY <2>1 DEF Shas
  <2>3. /\ run' \in [Runs -> Jobs] /\ run'[r].at = after /\ run'[r].ref = NoSha
        /\ run'[r].saved = {} /\ run'[r].base = {} /\ run'[r].warned = TRUE
        /\ \A q \in Runs \ {r} : run'[q] = run[q]
    BY <1>1, <1>4, EndsEffect DEF RunStates
  <2>4. RunsOK'
    BY <1>1, <1>4, <2>1, <2>3, OnlyItsRun DEF RunsOK
  <2>5. Fresh(r)' /\ KnowsItsEntry(r)'
    BY <1>1, <1>4, <2>1, <2>3, KeepsEntry DEF TreeWindow, StashWindow
  <2>6. KnowsItsTree(r)' /\ Orphans(r)'
    BY <1>1, <2>3 DEF KnowsItsTree, Orphans
  <2>7. QED
    BY <2>1, <2>2, <2>4, <2>5, <2>6 DEF StepOK, OwnInv
<1>5. QED
  BY <1>2, <1>3, <1>4

-----------------------------------------------------------------------------

\* A run touches nobody else's memory.
LEMMA RunFrame ==
  ASSUME RunsOK, NEW r \in Runs, RunStep(r), NEW q \in Runs \ {r}
  PROVE  /\ run'[q] = run[q] /\ mine'[q] = mine[q]
         /\ popped'[q] = popped[q] /\ before'[q] = before[q]
<1> USE DEF RunsOK, Goes, Ends, ToRestore
<1>1. CASE \E s \in Strategies : Looks(r, s)
  BY <1>1 DEF Looks
<1>2. CASE Pushes(r) \/ NamesStash(r)
  BY <1>2 DEF Pushes, NamesStash
<1>3. CASE WritesTree(r) \/ AddsAll(r) \/ Commits(r)
  BY <1>3 DEF WritesTree, AddsAll, Commits
<1>4. CASE ReadsHead(r) \/ Resets(r) \/ RestoresIndex(r)
  BY <1>4 DEF ReadsHead, Resets, RestoresIndex
<1>5. CASE Bases(r) \/ BasingFails(r) \/ NeverStarts(r)
  BY <1>5 DEF Bases, BasingFails, NeverStarts
<1>6. CASE Discards(r) \/ Approves(r)
  BY <1>6 DEF Discards, Approves
<1>7. CASE FindsPosition(r) \/ Pops(r)
  BY <1>7 DEF FindsPosition, Pops
<1>8. CASE Dies(r)
  BY <1>8 DEF Dies
<1>9. QED
  BY <1>1, <1>2, <1>3, <1>4, <1>5, <1>6, <1>7, <1>8 DEF RunStep

LEMMA RunStepOK ==
  ASSUME StashInv, NEW r \in Runs, RunStep(r),
         disturbed \subseteq disturbed', disturbed' \in SUBSET Runs
  PROVE  StepOK(r)
  BY LooksStep, PushesStep, NamesStashStep, WritesTreeStep, AddsAllStep, CommitsStep,
     ReadsHeadStep, ResetsStep, RestoresIndexStep, BasesStep, BasingFailsStep,
     NeverStartsStep, DiscardsStep, ApprovesStep, FindsPositionStep, PopsStep, DiesStep
     DEF RunStep

\* What the user does is within the bounds and keeps the repository sound.
LEMMA UserEffect ==
  ASSUME StashInv, UserMoves
  PROVE  /\ GitInv' /\ UNCHANGED <<run, mine, popped, before>>
         /\ moves' \in 0..MaxMoves /\ made \subseteq made'
         /\ minted \in Nat /\ minted' \in {minted, minted + 1}
         /\ \A h \in Shas' \ Shas : h = minted + 1
<1> USE DEF StashInv
<1>1. UserStep => moves' \in 0..MaxMoves /\ UNCHANGED <<run, mine, popped, before>>
  BY StashStackAssumption DEF UserStep, RunsOK
<1>2. minted \in Nat
  BY StashStackAssumption DEF GitInv, StashOK
<1>3. ASSUME NEW w \in Works, UserEdits(w) PROVE GitInv' /\ Shas' = Shas
  <2>1. RepositoryOK'
    BY <1>3 DEF UserEdits, GitInv, RepositoryOK, MadeSoFar
  <2>2. QED
    BY <1>3, <2>1, OnlyAdds DEF UserEdits, Shas
<1>4. ASSUME NEW w \in Works, UserStages(w) PROVE GitInv' /\ Shas' = Shas
  <2>1. RepositoryOK'
    BY <1>4 DEF UserStages, GitInv, RepositoryOK, MadeSoFar
  <2>2. QED
    BY <1>4, <2>1, OnlyAdds DEF UserStages, Shas
<1>5. ASSUME UserCommits PROVE GitInv' /\ Shas' = Shas
  <2>1. branch' \in Seq(SUBSET MadeSoFar)
    BY <1>5, CommitEffect DEF UserCommits, GitInv, RepositoryOK
  <2>2. RepositoryOK'
    BY <1>5, <2>1 DEF UserCommits, GitInv, RepositoryOK, MadeSoFar
  <2>3. QED
    BY <1>5, <2>2, OnlyAdds DEF UserCommits, Shas
<1>6. ASSUME UserStashes PROVE GitInv' /\ Shas' = Shas \cup {minted'} /\ minted' = minted + 1
  BY <1>6, PushEffect DEF UserStashes
<1>7. ASSUME UserPops PROVE GitInv' /\ Shas' \subseteq Shas /\ UNCHANGED minted
  <2>1. 1 \in DOMAIN stash
    BY <1>7 DEF UserPops, GitInv, StashOK
  <2>2. CASE Applies(1)
    BY <1>7, <2>1, <2>2, AppliesEffect DEF UserPops, Applies
  <2>3. CASE Conflicts(1)
    <3>1. GitInv' /\ UNCHANGED stash
      BY <1>7, <2>1, <2>3, ConflictsEffect DEF UserPops
    <3>2. QED
      BY <2>3, <3>1 DEF Conflicts, Shas
  <2>4. QED
    BY <1>7, <2>2, <2>3 DEF UserPops
<1>8. CASE \E w \in Works : UserEdits(w)
  BY <1>1, <1>2, <1>3, <1>8 DEF UserEdits
<1>9. CASE \E w \in Works : UserStages(w)
  BY <1>1, <1>2, <1>4, <1>9 DEF UserStages
<1>10. CASE UserCommits
  BY <1>1, <1>2, <1>5, <1>10 DEF UserCommits
<1>11. CASE UserStashes
  BY <1>1, <1>2, <1>6, <1>11 DEF UserStashes
<1>12. CASE UserPops
  BY <1>1, <1>2, <1>7, <1>12 DEF UserPops
<1>13. QED
  BY <1>8, <1>9, <1>10, <1>11, <1>12 DEF UserMoves

LEMMA StashStart == StashInit => StashInv
<1> SUFFICES ASSUME StashInit PROVE StashInv
  OBVIOUS
<1>1. <<>> \in Seq(SUBSET MadeSoFar) /\ <<>> \in Seq(Entries) /\ stash = <<>>
  BY DEF StashInit
<1>2. GitInv
  BY <1>1, StashStackAssumption DEF StashInit, GitInv, RepositoryOK, StashOK, NoWorkLost
<1>3. Unused \in Jobs /\ Unused.at = "idle" /\ Unused.ref = NoSha /\ Unused.saved = {}
      /\ Unused.base = {} /\ ~Unused.warned
  BY DEF Unused, Jobs, RunStates
<1>4. RunsOK
  BY <1>3, StashStackAssumption DEF StashInit, RunsOK
<1>5. ASSUME NEW r \in Runs PROVE OwnInv(r)
  <2>1. run[r] = Unused /\ mine[r] = NoSha /\ popped[r] = NoSha
    BY DEF StashInit
  <2>2. QED
    BY <1>3, <2>1 DEF OwnInv, Fresh, KnowsItsEntry, KnowsItsTree, Orphans
<1>6. QED
  BY <1>2, <1>4, <1>5 DEF StashInv

LEMMA StashStep == StashInv /\ [StashNext]_stashVars => StashInv'
<1> SUFFICES ASSUME StashInv, [StashNext]_stashVars PROVE StashInv'
  OBVIOUS
<1> USE DEF StashInv
<1>1. CASE UNCHANGED stashVars
  <2>1. UNCHANGED <<wt, idx, branch, stash, minted, moves, run, made, mine, popped, before,
                    disturbed>>
    BY <1>1 DEF stashVars, repo, stashHistory
  <2>2. GitInv'
    BY <2>1, QuietSteps DEF repo
  <2>3. RunsOK'
    BY <2>1 DEF RunsOK, MadeSoFar
  <2>4. ASSUME NEW r \in Runs PROVE OwnInv(r)'
    BY <2>1 DEF OwnInv, Fresh, KnowsItsEntry, KnowsItsTree, Orphans, Dirty, Tip, Shas, repo
  <2>5. QED
    BY <2>2, <2>3, <2>4
<1>2. CASE StashNext
  <2>1. /\ disturbed' = disturbed \cup {q \in Runs : Interrupted(q)}
        /\ disturbed \subseteq disturbed' /\ disturbed' \in SUBSET Runs
    BY <1>2 DEF StashNext, RunsOK
  <2>2. CASE UserMoves
    <3>1. /\ GitInv' /\ UNCHANGED <<run, mine, popped, before>>
          /\ moves' \in 0..MaxMoves /\ made \subseteq made'
          /\ minted \in Nat /\ minted' \in {minted, minted + 1}
          /\ \A h \in Shas' \ Shas : h = minted + 1
      BY <2>2, UserEffect
    <3>2. 0..minted \subseteq 0..minted'
      BY <3>1
    <3>3. RunsOK'
      BY <2>1, <3>1, <3>2 DEF RunsOK, MadeSoFar
    <3>4. ASSUME NEW r \in Runs PROVE OwnInv(r)'
      BY <2>1, <3>1, Bystanders
    <3>5. QED
      BY <3>1, <3>3, <3>4
  <2>3. ASSUME NEW r \in Runs, RunStep(r) PROVE StashInv'
    <3>1. StepOK(r)
      BY <2>1, <2>3, RunStepOK
    <3>2. ASSUME NEW q \in Runs \ {r} PROVE OwnInv(q)'
      <4>1. /\ run'[q] = run[q] /\ mine'[q] = mine[q]
            /\ popped'[q] = popped[q] /\ before'[q] = before[q]
        BY <2>3, RunFrame
      <4>2. QED
        BY <2>1, <3>1, <4>1, Bystanders DEF StepOK
    <3>3. QED
      BY <3>1, <3>2 DEF StepOK
  <2>4. QED
    BY <1>2, <2>2, <2>3 DEF StashNext
<1>3. QED
  BY <1>1, <1>2

\* StashInv holds in every reachable state.
LEMMA StashInvariance == StashSpec => []StashInv
  BY StashStart, StashStep, PTL DEF StashSpec

-----------------------------------------------------------------------------
(* Theorems *)

\* Whatever runs and users do to the shared stash, a run that no other stash
\* command came in between of brings back exactly the entry it put aside.
THEOREM OwnEntryComesBack == StashSpec => []RestoresItsOwn
<1>1. StashInv => RestoresItsOwn
  BY DEF StashInv, OwnInv, KnowsItsEntry, RestoresItsOwn
<1>2. QED
  BY <1>1, StashInvariance, PTL

\* No entry of a run is left on the stack that neither the run nor the user
\* knows of, except where the run died, was disturbed, or never started.
THEOREM OrphansAreKnown == StashSpec => []NoSilentOrphan
<1>1. StashInv => NoSilentOrphan
  BY DEF StashInv, OwnInv, Orphans, NoSilentOrphan
<1>2. QED
  BY <1>1, StashInvariance, PTL

LEMMA TempCommitStep ==
  ASSUME StashInv, [StashNext]_stashVars, NEW r \in Runs,
         run[r].at = "indexing", run'[r].at = "basing", r \notin disturbed'
  PROVE  repo' = before[r] /\ run[r].base = before[r][1]
<1> USE DEF StashInv
<1>1. StashNext
  BY DEF stashVars
<1>2. r \notin disturbed
  BY <1>1 DEF StashNext
<1>3. before[r] = <<wt, run[r].saved, branch>> /\ run[r].base = wt
  BY <1>2 DEF OwnInv, KnowsItsTree
<1>4. ~UserMoves
  BY UserEffect
<1>5. RunStep(r)
  <2>1. PICK q \in Runs : RunStep(q)
    BY <1>1, <1>4 DEF StashNext
  <2>2. QED
    BY <2>1, RunFrame
<1>6. ~Dies(r)
  <2>1. ASSUME Dies(r) PROVE FALSE
    <3>1. Ends(r, "dead", FALSE)
      BY <2>1 DEF Dies
    <3>2. run'[r].at = "dead"
      BY <3>1, EndsEffect DEF RunStates
    <3>3. QED
      BY <3>2
  <2>2. QED
    BY <2>1
<1>7. RestoresIndex(r)
  BY <1>5, <1>6 DEF RunStep, Looks, Pushes, NamesStash, WritesTree, AddsAll, Commits, ReadsHead,
     Resets, Bases, BasingFails, NeverStarts, Discards, Approves, FindsPosition, Pops
<1>8. QED
  BY <1>3, <1>7 DEF RestoresIndex, repo

\* However many runs there are, a temporary commit nobody came in between of
\* captures all of the user's changes and leaves tree, index and branch as
\* they were.
THEOREM TempCommitIsInvisible == StashSpec => TempCommitLeavesNoTrace
<1>1. StashInv /\ [StashNext]_stashVars =>
        [\A r \in Runs :
           run[r].at = "indexing" /\ run'[r].at = "basing" /\ r \notin disturbed' =>
             repo' = before[r] /\ run[r].base = before[r][1]]_stashVars
  BY TempCommitStep
<1>2. QED
  BY <1>1, StashInvariance, PTL DEF StashSpec, TempCommitLeavesNoTrace

\* What is at hand or aside is what the user made.
LEMMA ShelfHoldsWhatWasMade ==
  ASSUME GitInv
  PROVE  (wt \cap Works) \cup (Stashed \cap Works) = made
<1>1. Stashed \subseteq MadeSoFar
  BY DEF GitInv, StashOK, Stashed
<1>2. QED
  BY <1>1, StashStackAssumption DEF GitInv, RepositoryOK, NoWorkLost, MadeSoFar

\* No run makes changes of the user's.
LEMMA OnlyUsersMake ==
  ASSUME NEW r \in Runs, RunStep(r)
  PROVE  UNCHANGED made
<1> USE DEF Keep
<1>1. CASE \E s \in Strategies : Looks(r, s)
  <2>1. PICK s \in Strategies : Looks(r, s)
    BY <1>1
  <2>2. UNCHANGED <<moves, made>>
    BY <2>1, Zenon DEF Looks
  <2>3. QED
    BY <2>2
<1>2. CASE Pushes(r) \/ NamesStash(r) \/ WritesTree(r) \/ AddsAll(r)
  BY <1>2 DEF Pushes, NamesStash, WritesTree, AddsAll
<1>3. CASE Commits(r) \/ ReadsHead(r) \/ Resets(r) \/ RestoresIndex(r)
  BY <1>3 DEF Commits, ReadsHead, Resets, RestoresIndex
<1>4. CASE Bases(r) \/ BasingFails(r) \/ NeverStarts(r) \/ Dies(r)
  BY <1>4 DEF Bases, BasingFails, NeverStarts, Dies
<1>5. CASE Discards(r) \/ Approves(r) \/ FindsPosition(r) \/ Pops(r)
  BY <1>5 DEF Discards, Approves, FindsPosition, Pops
<1>6. QED
  BY <1>1, <1>2, <1>3, <1>4, <1>5 DEF RunStep

LEMMA ShelfStep ==
  ASSUME GitInv, GitInv', [StashNext]_stashVars
  PROVE  [Shelf!ShelfNext]_(Shelf!shelfVars)
<1> DEFINE shelf == (wt \cap Works) \cup (Stashed \cap Works)
<1>1. shelf = made
  BY ShelfHoldsWhatWasMade
<1>2. shelf' = made'
  <2>1. Stashed' \subseteq MadeSoFar'
    BY DEF GitInv, StashOK, Stashed
  <2>2. QED
    BY <2>1, StashStackAssumption DEF GitInv, RepositoryOK, NoWorkLost, MadeSoFar
<1>3. ASSUME UNCHANGED made PROVE Shelf!Move
  BY <1>1, <1>2, <1>3 DEF Shelf!Move
<1>4. CASE \E w \in Works : UserEdits(w)
  <2>1. PICK w \in Works : UserEdits(w)
    BY <1>4
  <2>2. /\ w \notin made /\ wt' = wt \cup {w} /\ UNCHANGED stash
    BY <2>1 DEF UserEdits
  <2>3. Stashed' = Stashed
    BY <2>2 DEF Stashed
  <2>4. Shelf!Make(w)
    BY <1>1, <2>2, <2>3 DEF Shelf!Make
  <2>5. QED
    BY <2>4 DEF Shelf!ShelfNext
<1>5. CASE UNCHANGED stashVars
  BY <1>5 DEF stashVars, repo, Shelf!shelfVars, Stashed
<1>6. CASE StashNext /\ ~(\E w \in Works : UserEdits(w))
  <2>1. ASSUME UserMoves PROVE UNCHANGED made
    BY <1>6, <2>1 DEF UserMoves, UserStages, UserCommits, UserStashes, UserPops
  <2>2. ASSUME NEW r \in Runs, RunStep(r) PROVE UNCHANGED made
    BY <2>2, OnlyUsersMake
  <2>3. UNCHANGED made
    BY <1>6, <2>1, <2>2 DEF StashNext
  <2>4. QED
    BY <1>3, <2>3 DEF Shelf!ShelfNext
<1>7. QED
  BY <1>4, <1>5, <1>6

\* The user's repository implements the shelf: no change the user made is
\* ever lost, for any number of runs, whatever the interleaving, wherever a
\* process dies.
THEOREM UserWorkIsKept == StashSpec => KeepsUserWork
<1>1. StashInit => Shelf!ShelfInit
  BY DEF StashInit, Shelf!ShelfInit, Stashed
<1>2. StashInv /\ StashInv' /\ [StashNext]_stashVars => [Shelf!ShelfNext]_(Shelf!shelfVars)
  BY ShelfStep DEF StashInv
<1>3. QED
  BY <1>1, <1>2, StashInvariance, PTL DEF StashSpec, KeepsUserWork, Shelf!ShelfSpec

-----------------------------------------------------------------------------
(* The snapshot backend.                                                     *)

Writing == [step : {"writing"}, path : Paths]
Copying == [step : {"copying"}, path : Paths, next : Writing \cup {Idle}]
Walking == [step : {"restoring"}, command : {"reject", "rollback"}]
DoingOK == doing \in {Idle} \cup Writing \cup Copying \cup Walking

IsCopying(p) == doing.step = "copying" /\ doing.path = p

\* A path has its backup exactly when the run has touched it, and the backup of
\* a file is what it held then, but for a copy that is not done, that a crash
\* cut short or that others interfered with.
BackupIsOriginal ==
  \A p \in Paths :
    /\ HasBackup(p) <=> original[p] # NoBackup
    /\ HasBackup(p) /\ p \notin meddled \cup cut /\ ~IsCopying(p) =>
         Restored(p) = original[p]

\* A copy is of a file that was there and that no tool has written.
CopiesAreFirst ==
  doing.step = "copying" =>
    /\ backup[doing.path] = Torn
    /\ original[doing.path] # NoFile
    /\ doing.path \notin meddled => files[doing.path] = original[doing.path]
    /\ doing.path \notin edited
    /\ doing.next # Idle => doing.next.path = doing.path

\* No tool writes a file that has no backup.
NothingEditedUnsaved ==
  /\ \A p \in edited : HasBackup(p)
  /\ doing.step = "writing" => HasBackup(doing.path)

\* What a walk has still to restore has a backup.
PendingOK == doing.step = "restoring" => \A p \in pending : HasBackup(p)

\* A walk restores every touched path it is done with.
WalksRestore ==
  doing.step = "restoring" =>
    \A p \in Paths \ (pending \cup meddled) : HasBackup(p) => files[p] = Restored(p)

SnapshotInv ==
  /\ SnapshotTypeOK /\ DoingOK
  /\ BackupIsOriginal /\ CopiesAreFirst /\ NothingEditedUnsaved
  /\ PendingOK /\ WalksRestore

-----------------------------------------------------------------------------

LEMMA Steps ==
  /\ Idle.step = "idle"
  /\ \A d \in Writing : d.step = "writing" /\ d.path \in Paths /\ d # Idle
  /\ \A d \in Copying : d.step = "copying" /\ d.path \in Paths /\ d # Idle
                        /\ d.next \in Writing \cup {Idle}
  /\ \A d \in Walking : d.step = "restoring" /\ d # Idle
  BY DEF Idle, Writing, Copying, Walking

LEMMA SnapshotStart == SnapshotInit => SnapshotInv
  BY Steps, SnapshotAssumption
     DEF SnapshotInit, SnapshotInv, SnapshotTypeOK, DoingOK, BackupIsOriginal,
         CopiesAreFirst, NothingEditedUnsaved, PendingOK, WalksRestore, HasBackup,
         FileStates

\* What the start of a backup does, before a run or an edit goes on with `next`.
LEMMA BackupStarts ==
  ASSUME SnapshotInv, NEW p \in Paths, NEW next \in Writing \cup {Idle},
         next # Idle => next.path = p, doing = Idle, StartsBackup(p, next),
         SnapshotTypeOK', UNCHANGED <<files, pending, edited, meddled, cut>>
  PROVE  SnapshotInv'
<1>1. /\ backup[p] = NoBackup /\ original[p] = NoBackup
      /\ original' = [original EXCEPT ![p] = files[p]]
      /\ p \notin edited
  BY DEF StartsBackup, SnapshotInv, BackupIsOriginal, HasBackup, NothingEditedUnsaved,
         SnapshotTypeOK
<1>2. files[p] \in FileStates /\ files[p] # NoBackup
  BY SnapshotAssumption DEF SnapshotInv, SnapshotTypeOK, FileStates
<1>3. CASE files[p] = NoFile
  <2>1. backup' = [backup EXCEPT ![p] = Marker] /\ doing' = next
    BY <1>3 DEF StartsBackup
  <2>2. DoingOK'
    BY <2>1 DEF DoingOK
  <2>3. doing'.step \in {"idle", "writing"} /\ (doing'.step = "writing" => doing'.path = p)
    BY <2>1, Steps
  <2>4. BackupIsOriginal'
    BY <1>1, <1>2, <1>3, <2>1, <2>3, Steps, SnapshotAssumption
       DEF SnapshotInv, BackupIsOriginal, HasBackup, Restored, IsCopying, SnapshotTypeOK
  <2>5. NothingEditedUnsaved'
    BY <1>1, <2>1, <2>3, SnapshotAssumption
       DEF SnapshotInv, NothingEditedUnsaved, HasBackup, SnapshotTypeOK
  <2>6. CopiesAreFirst' /\ PendingOK' /\ WalksRestore'
    BY <2>3 DEF CopiesAreFirst, PendingOK, WalksRestore
  <2>7. QED
    BY <2>2, <2>4, <2>5, <2>6 DEF SnapshotInv
<1>4. CASE files[p] # NoFile
  <2>1. /\ backup' = [backup EXCEPT ![p] = Torn]
        /\ doing' = [step |-> "copying", path |-> p, next |-> next]
    BY <1>4 DEF StartsBackup
  <2>2. doing' \in Copying /\ doing'.step = "copying" /\ doing'.path = p /\ doing'.next = next
    BY <2>1 DEF Copying
  <2>3. BackupIsOriginal'
    BY <1>1, <1>2, <2>1, <2>2, Steps, SnapshotAssumption
       DEF SnapshotInv, BackupIsOriginal, HasBackup, Restored, IsCopying, SnapshotTypeOK
  <2>4. NothingEditedUnsaved'
    BY <1>1, <2>1, <2>2, SnapshotAssumption
       DEF SnapshotInv, NothingEditedUnsaved, HasBackup, SnapshotTypeOK
  <2>5. CopiesAreFirst'
    BY <1>1, <1>4, <2>1, <2>2 DEF CopiesAreFirst, SnapshotInv, SnapshotTypeOK
  <2>6. PendingOK' /\ WalksRestore' /\ DoingOK'
    BY <2>2 DEF PendingOK, WalksRestore, DoingOK
  <2>7. QED
    BY <2>3, <2>4, <2>5, <2>6 DEF SnapshotInv
<1>5. QED
  BY <1>3, <1>4

LEMMA SnapshotStep == SnapshotInv /\ [SnapshotNext]_snapshotVars => SnapshotInv'
<1> SUFFICES ASSUME SnapshotInv, [SnapshotNext]_snapshotVars PROVE SnapshotInv'
  OBVIOUS
<1> USE SnapshotAssumption
<1>1. CASE Starts
  <2>1. SnapshotTypeOK'
    BY <1>1 DEF Starts, StartsBackup, HasBackup, SnapshotInv, SnapshotTypeOK, FileStates
  <2>2. QED
    BY <1>1, <2>1, BackupStarts DEF Starts
<1>2. ASSUME NEW p \in Paths, BeforeEdit(p) PROVE SnapshotInv'
  <2> DEFINE write == [step |-> "writing", path |-> p]
  <2>1. write \in Writing /\ write.path = p /\ write.step = "writing"
    BY DEF Writing
  <2>2. CASE StartsBackup(p, write)
    <3>1. SnapshotTypeOK'
      BY <1>2, <2>2 DEF BeforeEdit, StartsBackup, HasBackup, SnapshotInv, SnapshotTypeOK, FileStates
    <3>2. QED
      BY <1>2, <2>1, <2>2, <3>1, BackupStarts DEF BeforeEdit
  <2>3. CASE HasBackup(p) /\ doing' = write /\ UNCHANGED <<backup, original>>
    BY <1>2, <2>1, <2>3, Steps
       DEF BeforeEdit, SnapshotInv, SnapshotTypeOK, DoingOK, BackupIsOriginal, CopiesAreFirst,
           NothingEditedUnsaved, PendingOK, WalksRestore, HasBackup, Restored, IsCopying
  <2>4. QED
    BY <1>2, <2>2, <2>3 DEF BeforeEdit
<1>3. ASSUME NEW p \in Paths, EndsBackup(p) PROVE SnapshotInv'
  <2>1. /\ doing \in Copying /\ doing.path = p /\ IsCopying(p)
        /\ doing.next \in Writing \cup {Idle}
        /\ p \notin edited /\ original[p] # NoFile /\ original[p] # NoBackup
        /\ (p \notin meddled => files[p] = original[p])
        /\ (doing.next # Idle => doing.next.path = p)
    BY <1>3, Steps DEF EndsBackup, SnapshotInv, DoingOK, CopiesAreFirst, IsCopying,
                       BackupIsOriginal, HasBackup
  <2>2. CASE \E copy \in Copies(p) : backup' = [backup EXCEPT ![p] = copy]
             /\ doing' = doing.next /\ phase' = "running" /\ UNCHANGED original
    <3>1. PICK copy \in Copies(p) : backup' = [backup EXCEPT ![p] = copy]
      BY <2>2
    <3>2. /\ copy \in Contents \cup {Torn}
          /\ p \notin meddled => copy = original[p]
      BY <2>1, <3>1 DEF Copies, SnapshotInv, SnapshotTypeOK, FileStates
    <3>3. SnapshotTypeOK'
      BY <1>3, <2>2, <3>1, <3>2 DEF EndsBackup, SnapshotInv, SnapshotTypeOK
    <3>4. doing' \in Writing \cup {Idle} /\ (doing'.step = "writing" => doing'.path = p)
      BY <2>1, <2>2, Steps
    <3>5. doing'.step \in {"idle", "writing"}
      BY <3>4, Steps
    <3>6. BackupIsOriginal'
      BY <1>3, <2>1, <2>2, <3>1, <3>2, <3>5
         DEF EndsBackup, SnapshotInv, BackupIsOriginal, HasBackup, Restored, IsCopying,
             SnapshotTypeOK
    <3>7. NothingEditedUnsaved'
      BY <1>3, <3>1, <3>2, <3>4
         DEF EndsBackup, SnapshotInv, NothingEditedUnsaved, HasBackup, SnapshotTypeOK
    <3>8. CopiesAreFirst' /\ PendingOK' /\ WalksRestore' /\ DoingOK'
      BY <3>4, <3>5 DEF CopiesAreFirst, PendingOK, WalksRestore, DoingOK
    <3>9. QED
      BY <3>3, <3>6, <3>7, <3>8 DEF SnapshotInv
  <2>3. CASE /\ backup' = [backup EXCEPT ![p] = NoBackup]
             /\ original' = [original EXCEPT ![p] = NoBackup]
             /\ doing' = Idle /\ phase' = IF phase = "starting" THEN "lost" ELSE phase
    <3>1. SnapshotTypeOK'
      BY <1>3, <2>3 DEF EndsBackup, SnapshotInv, SnapshotTypeOK
    <3>2. BackupIsOriginal' /\ NothingEditedUnsaved'
      BY <1>3, <2>1, <2>3, Steps
         DEF EndsBackup, SnapshotInv, BackupIsOriginal, NothingEditedUnsaved, HasBackup,
             Restored, IsCopying, SnapshotTypeOK
    <3>3. CopiesAreFirst' /\ PendingOK' /\ WalksRestore' /\ DoingOK'
      BY <2>3, Steps DEF CopiesAreFirst, PendingOK, WalksRestore, DoingOK
    <3>4. QED
      BY <3>1, <3>2, <3>3 DEF SnapshotInv
  <2>4. QED
    BY <1>3, <2>2, <2>3 DEF EndsBackup
<1>4. ASSUME NEW p \in Paths, Writes(p) PROVE SnapshotInv'
  <2>1. HasBackup(p) /\ doing' = Idle
    BY <1>4 DEF Writes, SnapshotInv, NothingEditedUnsaved
  <2>2. SnapshotTypeOK' /\ DoingOK'
    BY <1>4 DEF Writes, SnapshotInv, SnapshotTypeOK, DoingOK, FileStates
  <2>3. NothingEditedUnsaved' /\ CopiesAreFirst' /\ PendingOK' /\ WalksRestore'
    BY <1>4, <2>1, Steps DEF Writes, SnapshotInv, NothingEditedUnsaved, CopiesAreFirst,
                             PendingOK, WalksRestore, HasBackup
  <2>4. BackupIsOriginal'
    BY <1>4, Steps DEF Writes, SnapshotInv, BackupIsOriginal, HasBackup, Restored, IsCopying
  <2>5. QED
    BY <2>2, <2>3, <2>4 DEF SnapshotInv
<1>5. ASSUME NEW p \in Paths, Meddles(p) PROVE SnapshotInv'
  <2>1. PICK c \in Contents \cup {NoFile} : files' = [files EXCEPT ![p] = c]
    BY <1>5 DEF Meddles
  <2>2. SnapshotTypeOK' /\ DoingOK'
    BY <1>5, <2>1 DEF Meddles, SnapshotInv, SnapshotTypeOK, DoingOK, FileStates
  <2>3. NothingEditedUnsaved' /\ BackupIsOriginal' /\ PendingOK'
    BY <1>5 DEF Meddles, SnapshotInv, NothingEditedUnsaved, BackupIsOriginal, PendingOK,
                HasBackup, Restored, IsCopying
  <2>4. CopiesAreFirst'
    BY <1>5, <2>1 DEF Meddles, SnapshotInv, CopiesAreFirst, SnapshotTypeOK
  <2>5. WalksRestore'
    BY <1>5, <2>1 DEF Meddles, SnapshotInv, WalksRestore, HasBackup, Restored, SnapshotTypeOK
  <2>6. QED
    BY <2>2, <2>3, <2>4, <2>5 DEF SnapshotInv
<1>6. CASE Approve
  BY <1>6 DEF Approve, snapshotHistory, SnapshotInv, SnapshotTypeOK, DoingOK, BackupIsOriginal,
              CopiesAreFirst, NothingEditedUnsaved, PendingOK, WalksRestore, HasBackup, Restored,
              IsCopying
<1>7. CASE Rejects \/ RollsBack
  <2>1. /\ pending' = Touched /\ doing = Idle
        /\ doing' \in Walking
        /\ UNCHANGED <<files, backup, phase, snapshotHistory>>
    BY <1>7 DEF Rejects, RollsBack, Walks, Walking
  <2>2. doing'.step = "restoring"
    BY <2>1, Steps
  <2>3. SnapshotTypeOK' /\ DoingOK'
    BY <2>1 DEF SnapshotInv, SnapshotTypeOK, DoingOK, snapshotHistory, Touched
  <2>4. BackupIsOriginal' /\ NothingEditedUnsaved'
    BY <2>1, <2>2, Steps DEF SnapshotInv, BackupIsOriginal, NothingEditedUnsaved, HasBackup,
                             Restored, IsCopying, snapshotHistory
  <2>5. CopiesAreFirst' /\ PendingOK' /\ WalksRestore'
    BY <2>1, <2>2 DEF CopiesAreFirst, PendingOK, WalksRestore, HasBackup, Touched
  <2>6. QED
    BY <2>3, <2>4, <2>5 DEF SnapshotInv
<1>8. ASSUME NEW p \in Paths, Restores(p) PROVE SnapshotInv'
  <2>1. HasBackup(p) => Restored(p) \in FileStates
    BY DEF SnapshotInv, SnapshotTypeOK, Restored, HasBackup, FileStates
  <2>2. HasBackup(p)
    BY <1>8 DEF Restores, SnapshotInv, PendingOK
  <2>3. SnapshotTypeOK' /\ DoingOK'
    BY <1>8, <2>1, <2>2 DEF Restores, SnapshotInv, SnapshotTypeOK, DoingOK, snapshotHistory
  <2>4. BackupIsOriginal' /\ NothingEditedUnsaved' /\ CopiesAreFirst'
    BY <1>8 DEF Restores, SnapshotInv, BackupIsOriginal, NothingEditedUnsaved, CopiesAreFirst,
                HasBackup, Restored, IsCopying, snapshotHistory
  <2>5. WalksRestore' /\ PendingOK'
    BY <1>8 DEF Restores, SnapshotInv, WalksRestore, PendingOK, HasBackup, Restored,
                snapshotHistory, SnapshotTypeOK
  <2>6. QED
    BY <2>3, <2>4, <2>5 DEF SnapshotInv
<1>9. CASE EndsWalk
  <2>1. /\ doing' = Idle /\ edited' \subseteq edited
        /\ phase' \in {phase, "rejected"}
        /\ UNCHANGED <<files, backup, pending, original, meddled, cut>>
    BY <1>9 DEF EndsWalk
  <2>2. doing.step = "restoring" /\ pending = {}
    BY <1>9 DEF EndsWalk
  <2>3. SnapshotTypeOK' /\ DoingOK'
    BY <2>1 DEF SnapshotInv, SnapshotTypeOK, DoingOK
  <2>4. QED
    BY <2>1, <2>2, <2>3, Steps
       DEF SnapshotInv, BackupIsOriginal, NothingEditedUnsaved, CopiesAreFirst, WalksRestore,
           PendingOK, HasBackup, Restored, IsCopying
<1>10. CASE Crashes
  <2>1. /\ doing' = Idle /\ pending' = {} /\ phase' \in {phase, "lost"}
        /\ UNCHANGED <<backup, original, edited, meddled>>
    BY <1>10 DEF Crashes
  <2>2. files' \in [Paths -> FileStates]
    BY <1>10 DEF Crashes, SnapshotInv, SnapshotTypeOK, FileStates
  <2>3. /\ cut \subseteq cut' /\ cut' \subseteq Paths
        /\ doing.step = "copying" => doing.path \in cut'
    BY <1>10, Steps DEF Crashes, SnapshotInv, SnapshotTypeOK, DoingOK
  <2>4. SnapshotTypeOK' /\ DoingOK'
    BY <2>1, <2>2, <2>3 DEF SnapshotInv, SnapshotTypeOK, DoingOK
  <2>5. BackupIsOriginal'
    BY <2>1, <2>3, Steps DEF SnapshotInv, BackupIsOriginal, HasBackup, Restored, IsCopying
  <2>6. NothingEditedUnsaved' /\ CopiesAreFirst' /\ WalksRestore' /\ PendingOK'
    BY <2>1, Steps DEF SnapshotInv, NothingEditedUnsaved, CopiesAreFirst, WalksRestore,
                       PendingOK, HasBackup
  <2>7. QED
    BY <2>4, <2>5, <2>6 DEF SnapshotInv
<1>11. CASE UNCHANGED snapshotVars
  BY <1>11 DEF snapshotVars, snapshotHistory, SnapshotInv, SnapshotTypeOK, DoingOK,
               BackupIsOriginal, CopiesAreFirst, NothingEditedUnsaved, WalksRestore, PendingOK,
               HasBackup, Restored, IsCopying
<1>12. QED
  BY <1>1, <1>2, <1>3, <1>4, <1>5, <1>6, <1>7, <1>8, <1>9, <1>10, <1>11 DEF SnapshotNext

-----------------------------------------------------------------------------

\* Every variable of the snapshot backend stays in its type.
THEOREM SnapshotTypeCorrect == SnapshotSpec => []SnapshotTypeOK
<1>1. SnapshotInv => SnapshotTypeOK
  BY DEF SnapshotInv
<1>2. QED
  BY SnapshotStart, SnapshotStep, <1>1, PTL DEF SnapshotSpec

\* A reject that completes leaves every file the tools edited as the run found
\* it (run-backend.ts:263-271).
THEOREM RejectAlwaysRestores == SnapshotSpec => RejectRestores
<1>1. ASSUME SnapshotInv, SnapshotNext, phase' = "rejected", phase # "rejected"
      PROVE  \A p \in edited \ (meddled \cup cut) : files'[p] = original[p]
  <2>1. doing.step = "restoring" /\ pending = {} /\ files' = files
    BY <1>1 DEF SnapshotNext, Starts, Approve, Rejects, RollsBack, EndsWalk, Crashes, BeforeEdit,
                EndsBackup, Writes, Meddles, Restores
  <2>2. ASSUME NEW p \in edited \ (meddled \cup cut) PROVE files[p] = original[p]
    <3>1. p \in Paths /\ HasBackup(p)
      BY <1>1 DEF SnapshotInv, SnapshotTypeOK, NothingEditedUnsaved
    <3>2. files[p] = Restored(p)
      BY <1>1, <2>1, <3>1 DEF SnapshotInv, WalksRestore
    <3>3. Restored(p) = original[p]
      BY <1>1, <2>1, <3>1 DEF SnapshotInv, BackupIsOriginal, IsCopying
    <3>4. QED
      BY <3>2, <3>3
  <2>3. QED
    BY <2>1, <2>2
<1>2. SnapshotInv /\ [SnapshotNext]_snapshotVars =>
        [phase' = "rejected" /\ phase # "rejected" =>
           \A p \in edited \ (meddled \cup cut) : files'[p] = original[p]]_snapshotVars
  BY <1>1
<1>3. QED
  BY SnapshotStart, SnapshotStep, <1>2, PTL DEF SnapshotSpec, RejectRestores

\* A diff that git answered tells every change to the files the tools edited;
\* one it did not answer may only pass over a file that was modified, and none
\* calls a change something else (snapshot-backup.ts:160-224).
THEOREM DiffAlwaysTellsEdits == SnapshotSpec => []DiffTellsEdits
<1> DEFINE Change(p) ==
      CASE files[p] = original[p]                        -> "unreported"
        [] original[p] = NoFile /\ files[p] # NoFile     -> "added"
        [] original[p] # NoFile /\ files[p] = NoFile     -> "deleted"
        [] OTHER                                         -> "modified"
    Binary(p) == {original[p], files[p]} \cap BinaryContents # {}
<1>1. ASSUME SnapshotInv, doing = Idle, NEW p \in edited \ (meddled \cup cut)
      PROVE  /\ backup[p] # NoBackup
             /\ Restored(p) = original[p]
             /\ HasCopy(p) => backup[p] # NoFile
             /\ NoFile \notin BinaryContents
             /\ files[p] # NoFile => Marker # files[p]
  <2>1. p \in Paths /\ HasBackup(p) /\ ~IsCopying(p)
    BY <1>1, Steps DEF SnapshotInv, SnapshotTypeOK, NothingEditedUnsaved, IsCopying
  <2>2. Restored(p) = original[p]
    BY <1>1, <2>1 DEF SnapshotInv, BackupIsOriginal
  <2>3. backup[p] # NoBackup /\ (HasCopy(p) => backup[p] # NoFile)
    BY <1>1, <2>1, SnapshotAssumption DEF SnapshotInv, SnapshotTypeOK, HasBackup, HasCopy
  <2>4. files[p] # NoFile => Marker # files[p]
    BY <1>1, <2>1, SnapshotAssumption DEF SnapshotInv, SnapshotTypeOK, FileStates
  <2>5. QED
    BY <2>2, <2>3, <2>4, SnapshotAssumption
<1>2. ASSUME SnapshotInv, doing = Idle, NEW p \in edited \ (meddled \cup cut)
      PROVE  /\ DiffStatus(p, Questions) = Change(p)
             /\ Change(p) # "unreported" => HasText(p, Questions) \/ Binary(p)
             /\ \A answered \in SUBSET Questions :
                  \/ DiffStatus(p, answered) = Change(p)
                  \/ /\ "diff" \notin answered /\ Change(p) = "modified"
                     /\ DiffStatus(p, answered) = "unreported"
  <2>1. CASE backup[p] = Marker
    BY <1>1, <1>2, <2>1 DEF DiffStatus, HasText, IsBinary, Differs, HasCopy, Restored, Questions
  <2>2. CASE backup[p] # Marker
    <3>1. HasCopy(p) /\ backup[p] = original[p] /\ original[p] # NoFile
      BY <1>1, <1>2, <2>2 DEF HasCopy, Restored
    <3>2. QED
      BY <1>1, <1>2, <2>2, <3>1 DEF DiffStatus, HasText, IsBinary, Differs, Questions
  <2>3. QED
    BY <2>1, <2>2
<1>3. SnapshotInv => DiffTellsEdits
  BY <1>2 DEF DiffTellsEdits
<1>4. QED
  BY SnapshotStart, SnapshotStep, <1>3, PTL DEF SnapshotSpec

===============================================================================

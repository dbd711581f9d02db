----------------------------- MODULE StashStack -----------------------------
(***************************************************************************)
(* The user's repository while runs begin and end on it: git's dirty-tree  *)
(* handling (packages/git/src/dirty-tree.ts) and the two ends of a run     *)
(* worktree (worktree.ts), one git command at a time.  The working tree,   *)
(* the index, the branch and the stash are shared by every run and by the  *)
(* user, and nothing locks them between two commands.                      *)
(*                                                                         *)
(* The tree, the index and a commit are sets of the changes they contain.  *)
(* A stash entry has the changes it put aside and an identity, its SHA; a  *)
(* position of the stash is an index of the sequence, the top being 1.     *)
(***************************************************************************)
EXTENDS Integers, Sequences, SequencesExt

CONSTANTS
  Runs,         \* runs on this repository
  Works,        \* changes the user may make
  MaxShas,      \* bound: stash entries ever made
  MaxCommits,   \* bound: commits on the branch
  MaxMoves,     \* bound: what the user does
  NoSha         \* no stash entry

ASSUME StashStackAssumption ==
  /\ MaxShas \in Nat /\ MaxCommits \in Nat /\ MaxMoves \in Nat
  /\ NoSha \notin Nat
  /\ Runs \cap Works = {}

VARIABLES
  wt,         \* the working tree
  idx,        \* the index
  branch,     \* the commits of the user's branch, the latest last
  stash,      \* the stash list, the latest first
  minted,     \* how many stash entries were ever made
  moves,      \* how many things the user has done
  run,        \* what each run is doing, and what its process remembers
  made,       \* history: the changes the user has made
  mine,       \* history: the entry each run's push made
  popped,     \* history: the entry each run popped
  before,     \* history: tree, index and branch when the run looked at them
  disturbed   \* history: runs whose commands another's came in between of

repo         == <<wt, idx, branch>>
stashHistory == <<made, mine, popped, before, disturbed>>
stashVars    == <<repo, stash, minted, moves, run, stashHistory>>

Things == Works \cup Runs       \* a run's result is a change too
Tip   == IF branch = <<>> THEN {} ELSE Last(branch)
Dirty  == wt # Tip \/ idx # Tip
Shas   == {stash[i].sha : i \in DOMAIN stash}
Stashed == UNION {stash[i].works : i \in DOMAIN stash}

Strategies == {"stash", "temp-commit", "abort"}
Unused == [at |-> "idle", ref |-> NoSha, saved |-> {}, base |-> {},
           temp |-> FALSE, pos |-> 0, warned |-> FALSE]

StashInit ==
  /\ wt = {} /\ idx = {} /\ branch = <<>> /\ stash = <<>>
  /\ minted = 0 /\ moves = 0
  /\ run = [r \in Runs |-> Unused]
  /\ made = {} /\ disturbed = {}
  /\ mine = [r \in Runs |-> NoSha]
  /\ popped = [r \in Runs |-> NoSha]
  /\ before = [r \in Runs |-> <<{}, {}, <<>>>>]

-----------------------------------------------------------------------------
(* What git's commands do. *)

\* `stash push --include-untracked`; of a clean tree it is no error and makes no entry.
PushEntry ==
  /\ minted < MaxShas
  /\ minted' = minted + 1
  /\ stash' = <<[sha |-> minted', works |-> wt \ Tip, staged |-> idx \ Tip,
                 base |-> Tip]>> \o stash
  /\ wt' = Tip /\ idx' = Tip
  /\ UNCHANGED branch

\* `stash pop --index` of an entry that applies: it is dropped.
Applies(i) ==
  /\ wt'  = wt \cup stash[i].works
  /\ idx' = idx \cup stash[i].staged
  /\ stash' = RemoveAt(stash, i)
  /\ UNCHANGED <<branch, minted>>

\* It may not apply to a tree that is dirty or has moved on: git keeps the
\* entry, and may leave its changes in the tree between conflict markers.
Conflicts(i) ==
  /\ Dirty \/ Tip # stash[i].base
  /\ wt' \in {wt, wt \cup stash[i].works}
  /\ UNCHANGED <<idx, branch, stash, minted>>

CommitAs(content) ==
  /\ Len(branch) < MaxCommits
  /\ branch' = Append(branch, content)

-----------------------------------------------------------------------------
(* The user, in another terminal. *)

UserStep ==
  /\ moves < MaxMoves /\ moves' = moves + 1
  /\ UNCHANGED <<run, mine, popped, before>>

UserEdits(w) ==
  /\ w \notin made
  /\ wt' = wt \cup {w} /\ made' = made \cup {w}
  /\ UNCHANGED <<idx, branch, stash, minted>> /\ UserStep

UserStages(w) ==
  /\ w \in wt \ idx
  /\ idx' = idx \cup {w}
  /\ UNCHANGED <<wt, branch, stash, minted, made>> /\ UserStep

UserCommits ==
  /\ wt # Tip
  /\ CommitAs(wt) /\ idx' = wt
  /\ UNCHANGED <<wt, stash, minted, made>> /\ UserStep

UserStashes ==
  /\ Dirty /\ PushEntry
  /\ UNCHANGED made /\ UserStep

UserPops ==
  /\ stash # <<>>
  /\ Applies(1) \/ Conflicts(1)
  /\ UNCHANGED made /\ UserStep

-----------------------------------------------------------------------------
(* A run begins: handleDirtyTree, then the rest of createRunWorktree. *)

Goes(r, to) == run' = [run EXCEPT ![r].at = to]
Ends(r, to, warned) == run' = [run EXCEPT ![r] = [Unused EXCEPT !.at = to, !.warned = warned]]
Keep == UNCHANGED <<moves, made>>

Looks(r, strategy) ==           \* isDirty
  /\ run[r].at = "idle"
  /\ before' = IF strategy = "temp-commit" /\ Dirty THEN [before EXCEPT ![r] = repo] ELSE before
  /\ Goes(r, CASE ~Dirty -> "basing"
               [] Dirty /\ strategy = "abort" -> "failed"
               [] Dirty /\ strategy = "stash" -> "pushing"
               [] Dirty /\ strategy = "temp-commit" -> "writing")
  /\ UNCHANGED <<repo, stash, minted, mine, popped>> /\ Keep

Pushes(r) ==
  /\ run[r].at = "pushing"
  /\ Goes(r, "naming")
  /\ \/ Dirty /\ PushEntry /\ mine' = [mine EXCEPT ![r] = minted']
     \/ ~Dirty /\ UNCHANGED <<repo, stash, minted, mine>>
  /\ UNCHANGED <<popped, before>> /\ Keep

NamesStash(r) ==                \* rev-parse stash@{0}
  /\ run[r].at = "naming"
  /\ IF stash = <<>>
     THEN Ends(r, "failed", FALSE)
     ELSE run' = [run EXCEPT ![r].at = "basing", ![r].ref = stash[1].sha]
  /\ UNCHANGED <<repo, stash, minted, mine, popped, before>> /\ Keep

WritesTree(r) ==                \* write-tree
  /\ run[r].at = "writing"
  /\ run' = [run EXCEPT ![r].at = "adding", ![r].saved = idx]
  /\ UNCHANGED <<repo, stash, minted, mine, popped, before>> /\ Keep

AddsAll(r) ==                   \* add -A
  /\ run[r].at = "adding"
  /\ Goes(r, "committing")
  /\ idx' = wt
  /\ UNCHANGED <<wt, branch, stash, minted, mine, popped, before>> /\ Keep

Commits(r) ==                   \* commit --no-verify
  /\ run[r].at = "committing"
  /\ IF idx = Tip              \* nothing to commit: git fails
     THEN Ends(r, "failed", FALSE) /\ UNCHANGED branch
     ELSE /\ CommitAs(idx)
          /\ run' = [run EXCEPT ![r].at = "reading", ![r].temp = TRUE]
  /\ UNCHANGED <<wt, idx, stash, minted, mine, popped, before>> /\ Keep

ReadsHead(r) ==                 \* rev-parse HEAD
  /\ run[r].at = "reading"
  /\ run' = [run EXCEPT ![r].at = "resetting", ![r].base = Tip]
  /\ UNCHANGED <<repo, stash, minted, mine, popped, before>> /\ Keep

Resets(r) ==                    \* reset --soft HEAD~1
  /\ run[r].at = "resetting"
  /\ IF branch = <<>> THEN Ends(r, "failed", FALSE) /\ UNCHANGED branch
                      ELSE Goes(r, "indexing") /\ branch' = Front(branch)
  /\ UNCHANGED <<wt, idx, stash, minted, mine, popped, before>> /\ Keep

\* Mutant: `add -A` staged everything, and it stays staged.
RestoresNoIndex(r) ==
  /\ run[r].at = "indexing"
  /\ Goes(r, "basing")
  /\ before' = [before EXCEPT ![r] = <<{}, {}, <<>>>>]
  /\ UNCHANGED <<repo, stash, minted, mine, popped>> /\ Keep

RestoresIndex(r) ==             \* read-tree
  /\ run[r].at = "indexing"
  /\ Goes(r, "basing")
  /\ idx' = run[r].saved
  /\ before' = [before EXCEPT ![r] = <<{}, {}, <<>>>>]
  /\ UNCHANGED <<wt, branch, stash, minted, mine, popped>> /\ Keep

\* `worktree add` on the temporary commit or on HEAD.
Bases(r) ==
  /\ run[r].at = "basing"
  /\ run' = [run EXCEPT ![r].at = "live", ![r].base = IF run[r].temp THEN @ ELSE Tip]
  /\ UNCHANGED <<repo, stash, minted, mine, popped, before>> /\ Keep

\* Mutant: the stash is left where it is.
BasingFailsAndLeaves(r) ==
  /\ run[r].at = "basing"
  /\ Ends(r, "failed", FALSE)
  /\ UNCHANGED <<repo, stash, minted, mine, popped, before>> /\ Keep

\* It fails: describeDirtyTreeRecovery undoes the stash.
BasingFails(r) ==
  /\ run[r].at = "basing"
  /\ IF run[r].ref = NoSha THEN Ends(r, "failed", FALSE) ELSE Goes(r, "undoing")
  /\ UNCHANGED <<repo, stash, minted, mine, popped, before>> /\ Keep

\* The worktree is there, and Agent.run throws before the loop starts.
NeverStarts(r) ==
  /\ run[r].at = "live"
  /\ Ends(r, "unstarted", FALSE)
  /\ UNCHANGED <<repo, stash, minted, mine, popped, before>> /\ Keep

-----------------------------------------------------------------------------
(* A run ends: discardRun, or approveRun's merge, then restoreStashIfAny. *)

ToRestore(r) == IF run[r].ref = NoSha THEN Ends(r, "over", FALSE) ELSE Goes(r, "restoring")

Discards(r) ==
  /\ run[r].at = "live"
  /\ ToRestore(r)
  /\ UNCHANGED <<repo, stash, minted, mine, popped, before>> /\ Keep

\* git refuses a merge that would overwrite a change not yet committed: the
\* approval throws, and everything stays as it was.
Approves(r) ==
  LET result == Tip \cup run[r].base \cup {r} IN
  /\ run[r].at = "live"
  /\ (result \ Tip) \cap (wt \ Tip) = {} /\ idx = Tip
  /\ CommitAs(result)
  /\ idx' = result /\ wt' = wt \cup result
  /\ ToRestore(r)
  /\ UNCHANGED <<stash, minted, mine, popped, before>> /\ Keep

\* findCurrentStashPosition: the SHA's position in `stash list`, read now.
Positions(sha) == {i \in DOMAIN stash : stash[i].sha = sha}

\* Mutant: the entry the run made is taken to be the top one still.
FindsTop(r) ==
  /\ run[r].at \in {"restoring", "undoing"}
  /\ run' = [run EXCEPT ![r].pos = 1,
                        ![r].at = IF @ = "undoing" THEN "unpopping" ELSE "popping"]
  /\ UNCHANGED <<repo, stash, minted, mine, popped, before>> /\ Keep

FindsPosition(r) ==
  /\ run[r].at \in {"restoring", "undoing"}
  /\ IF Positions(run[r].ref) = {}
     THEN Ends(r, IF run[r].at = "undoing" THEN "failed" ELSE "over", TRUE)
     ELSE \E i \in Positions(run[r].ref) :
            run' = [run EXCEPT ![r].pos = i,
                               ![r].at = IF @ = "undoing" THEN "unpopping" ELSE "popping"]
  /\ UNCHANGED <<repo, stash, minted, mine, popped, before>> /\ Keep

\* Mutant: the entry is dropped whether it applied or not.
PopsAndDrops(r) ==
  /\ run[r].at \in {"popping", "unpopping"} /\ run[r].pos \in DOMAIN stash
  /\ \/ Applies(run[r].pos)
     \/ stash' = RemoveAt(stash, run[r].pos) /\ UNCHANGED <<repo, minted>>
  /\ Ends(r, "over", FALSE)
  /\ popped' = [popped EXCEPT ![r] = stash[run[r].pos].sha]
  /\ UNCHANGED <<mine, before>> /\ Keep

\* `stash pop --index` of the position found.
Pops(r) ==
  LET after == IF run[r].at = "unpopping" THEN "failed" ELSE "over" IN
  /\ run[r].at \in {"popping", "unpopping"}
  /\ \/ /\ run[r].pos \in DOMAIN stash
        /\ Applies(run[r].pos)
        /\ popped' = [popped EXCEPT ![r] = stash[run[r].pos].sha]
        /\ Ends(r, after, FALSE)
     \/ /\ run[r].pos \in DOMAIN stash => Conflicts(run[r].pos)
        /\ run[r].pos \notin DOMAIN stash => UNCHANGED <<repo, stash, minted>>
        /\ Ends(r, after, TRUE)
        /\ UNCHANGED popped
  /\ UNCHANGED <<mine, before>> /\ Keep

\* The process dies.  What was saved is the RunWorktree: once it exists, a
\* later command starts over from it.
Dies(r) ==
  /\ run[r].at \notin {"idle", "live", "failed", "dead", "unstarted", "over"}
  /\ IF run[r].at \in {"restoring", "popping"} THEN Goes(r, "live") ELSE Ends(r, "dead", FALSE)
  /\ UNCHANGED <<repo, stash, minted, mine, popped, before>> /\ Keep

-----------------------------------------------------------------------------
(* The whole. *)

RunStep(r) ==
  \/ \E s \in Strategies : Looks(r, s)
  \/ Pushes(r) \/ NamesStash(r)
  \/ WritesTree(r) \/ AddsAll(r) \/ Commits(r) \/ ReadsHead(r) \/ Resets(r) \/ RestoresIndex(r)
  \/ Bases(r) \/ BasingFails(r) \/ NeverStarts(r)
  \/ Discards(r) \/ Approves(r) \/ FindsPosition(r) \/ Pops(r)
  \/ Dies(r)

UserMoves ==
  \/ \E w \in Works : UserEdits(w) \/ UserStages(w)
  \/ UserCommits \/ UserStashes \/ UserPops

\* Runs between two commands that mean to see the same repository.
TreeWindow  == {"pushing", "writing", "adding", "committing", "reading", "resetting", "indexing"}
StashWindow == {"pushing", "naming", "popping", "unpopping"}

Interrupted(r) ==
  /\ run'[r].at = run[r].at
  /\ \/ run[r].at \in TreeWindow  /\ repo' # repo
     \/ run[r].at \in StashWindow /\ stash' # stash

StashNext ==
  /\ UserMoves \/ \E r \in Runs : RunStep(r)
  /\ disturbed' = disturbed \cup {r \in Runs : Interrupted(r)}

StashSpec == StashInit /\ [][StashNext]_stashVars

-----------------------------------------------------------------------------
(* Properties *)

RunStates == {"idle", "pushing", "naming", "writing", "adding", "committing", "reading",
              "resetting", "indexing", "basing", "undoing", "unpopping", "live",
              "restoring", "popping", "over", "failed", "dead", "unstarted"}

Entries == [sha : 1..MaxShas, works : SUBSET Things, staged : SUBSET Things,
            base : SUBSET Things]

StashTypeOK ==
  /\ wt \subseteq Things /\ idx \subseteq Things
  /\ branch \in Seq(SUBSET Things)
  /\ stash \in Seq(Entries)
  /\ minted \in 0..MaxShas /\ moves \in 0..MaxMoves
  /\ run \in [Runs -> [at : RunStates, ref : Nat \cup {NoSha}, saved : SUBSET Things,
                       base : SUBSET Things, temp : BOOLEAN, pos : Nat, warned : BOOLEAN]]
  /\ made \subseteq Works /\ disturbed \subseteq Runs
  /\ mine \in [Runs -> Nat \cup {NoSha}]
  /\ popped \in [Runs -> Nat \cup {NoSha}]

\* Unless another's stash command came between two of its own, a run brings
\* back the entry it put aside, wherever in the stack that has moved to
\* (dirty-tree.ts:18-28).
RestoresItsOwn ==
  \A r \in Runs : popped[r] # NoSha /\ r \notin disturbed => popped[r] = mine[r]

\* An entry a run made and did not bring back is known to somebody: the run
\* still means to restore it, or told the user, or is one of the three cases
\* the code has no answer for: it died, it was disturbed, it threw between
\* its worktree and its loop (agent.ts:381).
NoSilentOrphan ==
  \A r \in Runs :
    mine[r] # NoSha /\ mine[r] \in Shas =>
      \/ run[r].at \in {"dead", "unstarted"} \/ r \in disturbed
      \/ run[r].warned
      \/ run[r].at = "naming"
      \/ run[r].ref = mine[r] /\ run[r].at \notin {"over", "failed"}

\* A temporary commit captures all of the user's changes and, when it is
\* done, nothing shows that it was made: the branch, the index and the tree
\* are what they were (dirty-tree.ts:60-78).
TempCommitLeavesNoTrace ==
  [][\A r \in Runs :
       run[r].at = "indexing" /\ run'[r].at = "basing" /\ r \notin disturbed' =>
         repo' = before[r] /\ run[r].base = before[r][1]]_stashVars

\* The user's changes as UserShelf sees them.
Shelf == INSTANCE UserShelf WITH atHand <- wt \cap Works, aside <- Stashed \cap Works

\* Whatever the runs and the user do, however their commands interleave and
\* wherever a process dies, every change the user made is at hand or aside:
\* dirty-tree.ts "never mutates the user's tree without an explicit strategy",
\* and worktree.ts:289 "nothing is lost".  The repository implements the shelf.
KeepsUserWork == Shelf!ShelfSpec
=============================================================================

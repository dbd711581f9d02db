--------------------------- MODULE SnapshotBackup ---------------------------
(***************************************************************************)
(* A run where there is no git repository: it edits the user's own files,  *)
(* and what stands between the user and a bad run is one backup per        *)
(* touched file (packages/git/src/snapshot-backup.ts, behind               *)
(* run-backend.ts's SnapshotRunBackend).  "Already backed up" is asked of  *)
(* the disk, because every command is a process of its own.                *)
(***************************************************************************)
CONSTANTS
  Paths,       \* the files of the workspace
  AgentsMd,    \* the one read, and so backed up, when the run starts
  Contents,    \* what a file may hold
  BinaryContents, \* those that git takes for binary
  NoFile,      \* there is no such file
  NoBackup,    \* neither a backup nor a marker
  Marker,      \* the marker that the file did not exist
  Torn         \* a file whose copy was cut short

ASSUME SnapshotAssumption ==
  /\ AgentsMd \in Paths /\ BinaryContents \subseteq Contents
  /\ {NoFile, NoBackup, Marker, Torn} \cap Contents = {}
  /\ NoFile # Torn /\ NoFile # NoBackup
  /\ NoBackup # Marker /\ NoBackup # Torn /\ Marker # Torn

VARIABLES
  files,       \* the workspace
  backup,      \* the run's snapshots directory
  phase,       \* what the run's state file says
  doing,       \* the step the run's process is in the middle of
  pending,     \* the paths a rollback in progress still has to restore
  original,    \* history: what a path held when the run first touched it
  edited,      \* history: paths the file tools wrote
  meddled,     \* history: paths others changed during a backup or a restore
  cut          \* history: paths whose backup a crash cut short

snapshotHistory == <<original, edited, meddled, cut>>
snapshotVars == <<files, backup, phase, doing, pending, snapshotHistory>>

Idle == [step |-> "idle"]
Touched == {p \in Paths : backup[p] # NoBackup}       \* touchedPaths

SnapshotInit ==
  /\ files \in [Paths -> Contents \cup {NoFile}]
  /\ backup = [p \in Paths |-> NoBackup]
  /\ phase = "new" /\ doing = Idle /\ pending = {}
  /\ original = [p \in Paths |-> NoBackup]
  /\ edited = {} /\ meddled = {} /\ cut = {}

-----------------------------------------------------------------------------
(* snapshotBeforeFirstEdit: what it does with a path before `next` happens. *)

\* Mutant: what was backed up is remembered by the process alone, and lost with it.
HasBackupForgotten(p) == FALSE
HasBackup(p) == backup[p] # NoBackup

\* Mutant: a file that is not there is copied like any other.
StartsBackupUnmarked(p, next) ==
  /\ ~HasBackup(p)
  /\ original' = [original EXCEPT ![p] = IF @ = NoBackup THEN files[p] ELSE @]
  /\ backup' = [backup EXCEPT ![p] = Torn]
  /\ doing' = [step |-> "copying", path |-> p, next |-> next]

\* The file is copied, and a copy is not atomic; a marker is.
StartsBackup(p, next) ==
  /\ ~HasBackup(p)
  /\ original' = [original EXCEPT ![p] = IF @ = NoBackup THEN files[p] ELSE @]
  /\ IF files[p] = NoFile
     THEN backup' = [backup EXCEPT ![p] = Marker] /\ doing' = next
     ELSE backup' = [backup EXCEPT ![p] = Torn]
          /\ doing' = [step |-> "copying", path |-> p, next |-> next]

\* A run starts by reading, and so backing up, AGENTS.md; it has no state
\* file before that is done.  Then each write or edit is announced.
Starts ==
  /\ phase = "new" /\ doing = Idle
  /\ phase' = IF files[AgentsMd] = NoFile THEN "running" ELSE "starting"
  /\ StartsBackup(AgentsMd, Idle)
  /\ UNCHANGED <<files, pending, edited, meddled, cut>>

BeforeEdit(p) ==
  /\ phase = "running" /\ doing = Idle
  /\ LET write == [step |-> "writing", path |-> p] IN
     \/ StartsBackup(p, write)
     \/ HasBackup(p) /\ doing' = write /\ UNCHANGED <<backup, original>>
  /\ UNCHANGED <<files, phase, pending, edited, meddled, cut>>

\* A copy of a file that changes meanwhile may be of before, of after or torn.
Copies(p) == IF p \in meddled THEN {original[p], files[p], Torn} \ {NoFile} ELSE {files[p]}

\* copyFileSync comes to its end, or fails and removes what it wrote: then
\* the tool call fails and the edit is not made.
EndsBackup(p) ==
  /\ doing.step = "copying" /\ doing.path = p
  /\ \/ /\ \E copy \in Copies(p) : backup' = [backup EXCEPT ![p] = copy]
        /\ doing' = doing.next /\ phase' = "running"
        /\ UNCHANGED original
     \/ /\ backup' = [backup EXCEPT ![p] = NoBackup]
        /\ original' = [original EXCEPT ![p] = NoBackup]
        /\ doing' = Idle /\ phase' = IF phase = "starting" THEN "lost" ELSE phase
  /\ UNCHANGED <<files, pending, edited, meddled, cut>>

\* The tool writes the file, or refuses to: its path, its edit, its policy.
Writes(p) ==
  /\ doing.step = "writing" /\ doing.path = p
  /\ \/ \E c \in Contents :
          files' = [files EXCEPT ![p] = c] /\ edited' = edited \cup {p}
     \/ UNCHANGED <<files, edited>>
  /\ doing' = Idle
  /\ UNCHANGED <<backup, phase, pending, original, meddled, cut>>

\* What a shell command of the run left running, or the user, changes a file,
\* at any time: nobody backs it up.
Meddles(p) ==
  /\ phase \in {"starting", "running"}
  /\ \E c \in Contents \cup {NoFile} : files' = [files EXCEPT ![p] = c]
  /\ meddled' = IF doing.step \in {"copying", "restoring"} THEN meddled \cup {p} ELSE meddled
  /\ UNCHANGED <<backup, phase, doing, pending, original, edited, cut>>

-----------------------------------------------------------------------------
(* The commands, each a process of its own. *)

Approve ==
  /\ phase = "running" /\ doing = Idle
  /\ phase' = "approved"
  /\ UNCHANGED <<files, backup, doing, pending, snapshotHistory>>

\* rollback() lists the touched paths and restores them one by one.  `reject`
\* does that and then saves the status; `rollback` asks for a checkpoint,
\* and asks nothing of the status.
Walks(command) == pending' = Touched /\ doing' = [step |-> "restoring", command |-> command]

Rejects ==
  /\ phase = "running" /\ doing = Idle
  /\ Walks("reject")
  /\ UNCHANGED <<files, backup, phase, snapshotHistory>>

HasCheckpoint == Touched # {}

RollsBack ==
  /\ phase \in {"running", "approved", "rejected"} /\ doing = Idle
  /\ HasCheckpoint
  /\ Walks("rollback")
  /\ UNCHANGED <<files, backup, phase, snapshotHistory>>

Restored(p) == IF backup[p] = Marker THEN NoFile ELSE backup[p]

\* A copy back is no more atomic than the copy was; a crash leaves it torn.
Restores(p) ==
  /\ doing.step = "restoring" /\ p \in pending
  /\ files' = [files EXCEPT ![p] = Restored(p)]
  /\ pending' = pending \ {p}
  /\ UNCHANGED <<backup, phase, doing, snapshotHistory>>

EndsWalk ==
  /\ doing.step = "restoring" /\ pending = {}
  /\ doing' = Idle
  /\ \/ doing.command = "reject" /\ phase' = "rejected" /\ UNCHANGED edited
     \/ doing.command = "rollback" /\ UNCHANGED phase /\ edited' = edited \ Touched
  /\ UNCHANGED <<files, backup, pending, original, meddled, cut>>

\* The process dies, and another one takes the run up where the disk is.
Crashes ==
  /\ doing # Idle
  /\ doing' = Idle
  /\ \/ /\ doing.step = "copying"
        /\ cut' = cut \cup {doing.path}
        /\ UNCHANGED files
     \/ /\ doing.step = "restoring" /\ UNCHANGED cut
        /\ \/ UNCHANGED files
           \/ \E p \in pending : backup[p] # Marker /\ files' = [files EXCEPT ![p] = Torn]
     \/ doing.step = "writing" /\ UNCHANGED <<files, cut>>
  /\ pending' = {}
  /\ phase' = IF phase = "starting" THEN "lost" ELSE phase
  /\ UNCHANGED <<backup, original, edited, meddled>>

-----------------------------------------------------------------------------
(* What a reader of the run is told: diffEntries.  Of a file git is asked  *)
(* up to two questions, and one it does not answer (there is no git, the   *)
(* file cannot be read, the answer is too long) counts as an empty answer. *)

Questions == {"numstat", "diff"}

HasCopy(p) == backup[p] \notin {NoBackup, Marker}
Differs(p) == backup[p] # files[p]

\* Asked only of a file that is there before and after.
IsBinary(p, answered) ==
  /\ HasCopy(p) /\ files[p] # NoFile /\ Differs(p)
  /\ {backup[p], files[p]} \cap BinaryContents # {}
  /\ "numstat" \in answered

\* The text of a diff; it is also what the gate's cheat detection reads.
HasText(p, answered) ==
  Differs(p) /\ ~IsBinary(p, answered) /\ "diff" \in answered

\* Mutant: only what has a copy is compared.
DiffStatusOfCopies(p, answered) ==
  IF backup[p] \in {NoBackup, Marker, files[p]} THEN "unreported"
  ELSE IF files[p] = NoFile THEN "deleted" ELSE "modified"

\* Of the touched paths only; a file without a text counts as unchanged, unless
\* it was added, deleted or is binary.
DiffStatus(p, answered) ==
  CASE backup[p] = Marker /\ files[p] # NoFile -> "added"
    [] HasCopy(p) /\ files[p] = NoFile         -> "deleted"
    [] HasCopy(p) /\ files[p] # NoFile
       /\ (IsBinary(p, answered) \/ HasText(p, answered)) -> "modified"
    [] OTHER                                   -> "unreported"

SnapshotNext ==
  \/ Starts \/ Approve \/ Rejects \/ RollsBack \/ EndsWalk \/ Crashes
  \/ \E p \in Paths :
       BeforeEdit(p) \/ EndsBackup(p) \/ Writes(p) \/ Meddles(p) \/ Restores(p)

SnapshotSpec == SnapshotInit /\ [][SnapshotNext]_snapshotVars

-----------------------------------------------------------------------------
(* Properties *)

FileStates == Contents \cup {NoFile, Torn}

SnapshotTypeOK ==
  /\ files \in [Paths -> FileStates]
  /\ backup \in [Paths -> Contents \cup {NoBackup, Marker, Torn}]
  /\ original \in [Paths -> FileStates \cup {NoBackup}]
  /\ phase \in {"new", "starting", "lost", "running", "rejected", "approved"}
  /\ pending \subseteq Paths /\ edited \subseteq Paths
  /\ meddled \subseteq Paths /\ cut \subseteq Paths

\* A reject that comes to its end, after any number of processes died on the
\* way, leaves every file the tools edited as the run found it, whatever the
\* run's shell commands made of it too, and however often the run was resumed
\* by another process (snapshot-backup.ts:55-60); but for what was cut short by
\* a crash or changed by others during the copy itself.
RejectRestores ==
  [][phase' = "rejected" /\ phase # "rejected" =>
       \A p \in edited \ (meddled \cup cut) : files'[p] = original[p]]_snapshotVars

\* A diff that git answered names every change to the files the tools edited
\* since the run began, calls it what it is, and has a text for each but a
\* binary file that was there before and after (run-backend.ts:77-80).  One
\* that git did not answer never calls a change something else; it may pass over
\* a file that was modified, and no other (snapshot-backup.ts:182, 216-224).
DiffTellsEdits ==
  doing = Idle =>
    \A p \in edited \ (meddled \cup cut) :
      LET was == original[p]
          change == CASE files[p] = was                    -> "unreported"
                      [] was = NoFile /\ files[p] # NoFile -> "added"
                      [] was # NoFile /\ files[p] = NoFile -> "deleted"
                      [] OTHER                             -> "modified"
      IN /\ DiffStatus(p, Questions) = change
         /\ change # "unreported" =>
              HasText(p, Questions) \/ {was, files[p]} \cap BinaryContents # {}
         /\ \A answered \in SUBSET Questions :
              \/ DiffStatus(p, answered) = change
              \/ /\ "diff" \notin answered /\ change = "modified"
                 /\ DiffStatus(p, answered) = "unreported"
=============================================================================

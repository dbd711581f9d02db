---------------------------- MODULE WholeFileReply ----------------------------
(***************************************************************************)
(* The naked arm of the comparison (evals/src/naked-arm.ts): a model was   *)
(* asked once for whole files in fenced blocks; its reply, which the       *)
(* server may have cut off, is read line by line, and the files it names   *)
(* are written into the repository the oracle then grades.                 *)
(*                                                                         *)
(* A line is a record: a fence with its character, length and info string; *)
(* a line that is a name; a blank one; or prose.                           *)
(***************************************************************************)
EXTENDS Naturals, FiniteSetsExt, Functions, SequencesExt

CONSTANTS
  NakedReplies,    \* the replies a model may write, as sequences of blocks
  Meaning,    \* name -> the path it normalises to, or NoPath: not like a path
  SafePaths,  \* the paths that may be written: inside the repository, not .git
  NoName,     \* no info string
  NoPath,
  NoBlock

NakedBlocks == UNION {Range(bs) : bs \in NakedReplies}

\* A block is a record as below, in a sequence; no info string and the language are
\* not like a path; NoPath is no path, and NoBlock no block.
ASSUME WholeFileAssumption ==
  /\ \A bs \in NakedReplies : bs \in Seq(NakedBlocks)
  /\ \A b \in NakedBlocks :
       /\ b = [name |-> b.name, by |-> b.by, gap |-> b.gap, fence |-> b.fence,
               len |-> b.len, content |-> b.content]
       /\ b.by \in {"info", "label", "none"} /\ b.gap \in Nat /\ b.len \in Nat
       /\ b.content \in Seq(Range(b.content))
       /\ \A c \in 0..Len(b.content), path \in {NoPath, Meaning[b.name]} :
            NoBlock # [fence |-> b.fence, len |-> b.len, path |-> path,
                       body |-> SubSeq(b.content, 1, c)]
  /\ Meaning[NoName] = NoPath /\ Meaning["js"] = NoPath /\ NoPath \notin SafePaths

LabelLookbackLines == 4

VARIABLES
  sections,     \* what the model wrote
  lines,      \* the lines of the reply that arrived
  at,         \* lines read
  block,      \* the block that is open, or NoBlock
  parsed,     \* [files, unlabeledBlocks, totalBlocks]
  applied,    \* files of `parsed` that were applied
  outcome     \* [written, rejected]: what was written, the paths refused

replyVars == <<sections, lines, at, block, parsed, applied, outcome>>

-----------------------------------------------------------------------------
(* The reply: a block is [name, by, gap, fence, len, content]; its name is *)
(* in the info string, on a line of its own `gap` blank lines above, or    *)
(* nowhere.                                                                *)

Fence(c, n, info) == [kind |-> "fence", char |-> c, len |-> n, info |-> info]
Named(name) == [kind |-> "name", name |-> name]
BlankLine == [kind |-> "blank"]
Prose == [kind |-> "prose"]

Heading(b) ==
  CASE b.by = "info"  -> <<Fence(b.fence, b.len, b.name)>>
    [] b.by = "label" -> <<Named(b.name)>> \o [i \in 1..b.gap |-> BlankLine]
                           \o <<Fence(b.fence, b.len, "js")>>
    [] b.by = "none"  -> <<Prose, Fence(b.fence, b.len, "js")>>
Written(b) == Heading(b) \o b.content \o <<Fence(b.fence, b.len, NoName)>>
WrittenReply(bs) == FlattenSeq([i \in DOMAIN bs |-> Written(bs[i])])

ReplyInit ==
  /\ sections \in NakedReplies
  /\ \E n \in 0..Len(WrittenReply(sections)) : lines = SubSeq(WrittenReply(sections), 1, n)
  /\ at = 0
  /\ block = NoBlock
  /\ parsed = [files |-> <<>>, unlabeledBlocks |-> 0, totalBlocks |-> 0]
  /\ applied = 0
  /\ outcome = [written |-> <<>>, rejected |-> {}]

-----------------------------------------------------------------------------
(* parseWholeFileBlocks. *)

Opens(line) == line.kind = "fence"
Closes(line, b) ==
  line.kind = "fence" /\ line.char = b.fence /\ line.info = NoName /\ line.len >= b.len

\* Of a fence the backticks are stripped like quotes; of other lines only one
\* that is a name looks like a path.
PathFromLabelLine(line) ==
  CASE line.kind = "name" -> Meaning[line.name]
    [] line.kind = "fence" /\ line.char = "backtick" -> Meaning[line.info]
    [] OTHER -> NoPath

\* Mutant: a line that is no label is passed over.
PathPastOtherLines(i) ==
  LET labels == {k \in 1..(i - 1) : /\ k >= i - LabelLookbackLines
                                    /\ PathFromLabelLine(lines[k]) # NoPath}
  IN IF labels = {} THEN NoPath ELSE PathFromLabelLine(lines[Max(labels)])

\* The last line above the fence that is not blank is the label, or there is none.
PathFromLinesAbove(i) ==
  LET above == {k \in 1..(i - 1) : k >= i - LabelLookbackLines /\ lines[k] # BlankLine}
  IN IF above = {} THEN NoPath ELSE PathFromLabelLine(lines[Max(above)])

PathOf(i) == IF Meaning[lines[i].info] # NoPath THEN Meaning[lines[i].info]
             ELSE PathFromLinesAbove(i)

\* A body of lines as a file: a last blank line is the end of the line before it.
FileOfBody(body) == IF body # <<>> /\ Last(body) = BlankLine THEN Front(body) ELSE body

\* Map.set: a path keeps its place and takes the new content.
SetFile(files, path, content) ==
  IF \E k \in DOMAIN files : files[k].path = path
  THEN [k \in DOMAIN files |-> IF files[k].path # path THEN files[k]
                               ELSE [files[k] EXCEPT !.content = content]]
  ELSE Append(files, [path |-> path, content |-> content])

EndsBlock ==
  /\ parsed' = [files |-> IF block.path = NoPath THEN parsed.files
                          ELSE SetFile(parsed.files, block.path, FileOfBody(block.body)),
                unlabeledBlocks |-> parsed.unlabeledBlocks + IF block.path = NoPath THEN 1 ELSE 0,
                totalBlocks |-> parsed.totalBlocks + 1]
  /\ block' = NoBlock

ReadsLine ==
  /\ at < Len(lines)
  /\ at' = at + 1
  /\ UNCHANGED <<sections, lines, applied, outcome>>

SkipsLine ==
  /\ block = NoBlock
  /\ ReadsLine /\ ~Opens(lines[at'])
  /\ UNCHANGED <<block, parsed>>

OpensBlock ==
  /\ block = NoBlock
  /\ ReadsLine /\ Opens(lines[at'])
  /\ block' = [fence |-> lines[at'].char, len |-> lines[at'].len,
               path |-> PathOf(at'), body |-> <<>>]
  /\ UNCHANGED parsed

CollectsLine ==
  /\ block # NoBlock
  /\ ReadsLine /\ ~Closes(lines[at'], block)
  /\ block' = [block EXCEPT !.body = Append(@, lines[at'])]
  /\ UNCHANGED parsed

ClosesBlock ==
  /\ block # NoBlock
  /\ ReadsLine /\ Closes(lines[at'], block)
  /\ EndsBlock

\* The reply ends inside a block: what there is of it counts.
EndsUnterminated ==
  /\ block # NoBlock /\ at = Len(lines)
  /\ EndsBlock
  /\ UNCHANGED <<sections, lines, at, applied, outcome>>

-----------------------------------------------------------------------------
(* applyWholeFileBlocks. *)

IsParsed == at = Len(lines) /\ block = NoBlock

ApplyFile ==
  /\ IsParsed /\ applied < Len(parsed.files)
  /\ applied' = applied + 1
  /\ LET file == parsed.files[applied']
     IN outcome' = IF file.path \in SafePaths
                   THEN [outcome EXCEPT !.written = Append(@, file)]
                   ELSE [outcome EXCEPT !.rejected = @ \cup {file.path}]
  /\ UNCHANGED <<sections, lines, at, block, parsed>>

ReplyNext ==
  SkipsLine \/ OpensBlock \/ CollectsLine \/ ClosesBlock \/ EndsUnterminated \/ ApplyFile

ReplySpec == ReplyInit /\ [][ReplyNext]_replyVars

-----------------------------------------------------------------------------
(* Properties. *)

\* The variables have their types.
ReplyTypeOK ==
  /\ at \in 0..Len(lines) /\ applied \in 0..Len(parsed.files)
  /\ IsPrefix(lines, WrittenReply(sections))
  /\ parsed.unlabeledBlocks + Len(parsed.files) <= parsed.totalBlocks
  /\ outcome.rejected \cap SafePaths = {}

\* The blocks that arrived, the last of them as far as it did.
LinesBefore(k) == Len(WrittenReply(SubSeq(sections, 1, k - 1)))
Began(k) == Len(lines) >= LinesBefore(k) + Len(Heading(sections[k]))
Arrived(k) ==
  [sections[k] EXCEPT !.content =
     SubSeq(@, 1, Min({Len(@), Len(lines) - LinesBefore(k) - Len(Heading(sections[k]))}))]

\* The file a block is meant for: its label may stand three blank lines above.
MeantFor(b) == IF b.by = "info" \/ (b.by = "label" /\ b.gap < 4) THEN Meaning[b.name] ELSE NoPath
MeantBlocks(path) == {k \in DOMAIN sections : Began(k) /\ MeantFor(sections[k]) = path}

IsApplied == IsParsed /\ applied = Len(parsed.files)
Delivered ==
  /\ {outcome.written[k].path : k \in DOMAIN outcome.written} =
       {p \in SafePaths : MeantBlocks(p) # {}}
  /\ \A k \in DOMAIN outcome.written :
       LET file == outcome.written[k]
       IN file.content = FileOfBody(Arrived(Max(MeantBlocks(file.path))).content)
  /\ parsed.totalBlocks = Cardinality({k \in DOMAIN sections : Began(k)})
  /\ parsed.unlabeledBlocks = Cardinality(MeantBlocks(NoPath))

ClosesEarly(b) == \E k \in DOMAIN b.content : Closes(b.content[k], b)

\* If no block holds a line that closes it, exactly the files the model meant
\* are written, each as its last block has it, wherever the reply was cut off:
\* the lines of one block are never taken for the label of the next, and blocks
\* that name no file are counted (naked-arm.ts:303-360, 384-412).
DeliversTheReply ==
  IsApplied /\ (\A k \in DOMAIN sections : ~ClosesEarly(sections[k])) => Delivered
=============================================================================

----------------------------- MODULE EditCascade -----------------------------
(***************************************************************************)
(* The edit_file tool and the cascade that finds where a SEARCH/REPLACE    *)
(* block applies (tools/src/edit-cascade.ts): exactly, between ellipses,   *)
(* without a leading blank line, or at another indentation.                *)
(*                                                                         *)
(* A text is a sequence of lexemes: newlines, blanks, ellipses and words.  *)
(* An attempt is the set of the texts it yields, empty when it does not    *)
(* apply and never of more than one.                                       *)
(***************************************************************************)
EXTENDS Naturals, FiniteSets, Sequences, SequencesExt

CONSTANTS
  SourceTexts,  \* what the file may hold before the call
  EditCalls,    \* the sequences of blocks a model may ask for
  NoCall        \* no call yet

ASSUME EditAssumption ==
  /\ \A text \in SourceTexts : text \in Seq(Range(text))
  /\ \A bs \in EditCalls :
       /\ bs \in Seq(Range(bs))
       /\ \A b \in Range(bs) : /\ b.search \in Seq(Range(b.search))
                              /\ b.replace \in Seq(Range(b.replace))
  /\ NoCall \notin EditCalls

Newline == "newline"
Ellipsis == "..."
Whitespace == {" ", "tab"}

VARIABLES
  source,  \* the file on disk
  blocks,  \* the blocks of the call; NoCall before it
  texts    \* `current` of applyEdits: the text before and after each block
           \* that applied
editVars == <<source, blocks, texts>>

(***************************************************************************)
(* Lines.                                                                  *)
(***************************************************************************)
\* A sequence cut at its separators.
Split(s, separators) ==
  LET parts[i \in 0..Len(s)] ==
        IF i = 0 THEN << <<>> >>
        ELSE LET done == parts[i - 1]
             IN IF s[i] \in separators THEN Append(done, <<>>)
                ELSE [done EXCEPT ![Len(done)] = Append(@, s[i])]
  IN parts[Len(s)]

Lines(text) == Split(text, {Newline})

JoinLines(ls) ==
  FlattenSeq([i \in DOMAIN ls |-> IF i = 1 THEN ls[i] ELSE <<Newline>> \o ls[i]])

\* leadingWhitespace, and the line without it.
LeadingWhitespace(line) ==
  CHOOSE w \in Prefixes(line) :
    /\ Range(w) \subseteq Whitespace
    /\ w # line => line[Len(w) + 1] \notin Whitespace
Stripped(line) == SubSeq(line, Len(LeadingWhitespace(line)) + 1, Len(line))
IsBlank(line) == Stripped(line) = <<>>

IsEllipsisLine(line) ==
  SelectSeq(line, LAMBDA x : x \notin Whitespace) = <<Ellipsis>>

\* indexOf: where the part first occurs in the text at or after a position.
IndexOf(part, text, from) ==
  LET at == {i \in from..(Len(text) - Len(part) + 1) :
               SubSeq(text, i, i + Len(part) - 1) = part}
  IN {i \in at : \A j \in at : i <= j}

(***************************************************************************)
(* The attempts.                                                           *)
(***************************************************************************)
Replaces(search, block, text) ==
  {ReplaceSubSeqAt(i, block.replace, search, text) : i \in IndexOf(search, text, 1)}

Exact(text, block) == Replaces(block.search, block, text)

\* What is between the ellipsis lines of a text.
Segments(text) ==
  LET ls == Lines(text)
      cut == Split(ls, {l \in Range(ls) : IsEllipsisLine(l)})
  IN [i \in DOMAIN cut |-> JoinLines(cut[i])]

\* Mutant: what an ellipsis stands for is left out.
DropsTheGap(text, from, to) == <<>>

\* What the file has between two segments.
Gap(text, from, to) == SubSeq(text, from, to - 1)

\* One segment after another, from where the last one ended; `first` is where
\* the first segment that is not empty was found.
AppliesSegment(text, sought, put, done) ==
  IF sought = <<>> THEN {[done EXCEPT !.out = @ \o put]}
  ELSE {[cursor |-> i + Len(sought),
         first |-> IF done.first = 0 THEN i ELSE done.first,
         out |-> done.out \o (IF done.first = 0 THEN <<>>
                              ELSE Gap(text, done.cursor, i)) \o put] :
          i \in IndexOf(sought, text, done.cursor)}

EllipsisElision(text, block) ==
  LET sought == Segments(block.search)
      put == Segments(block.replace)
      reached[i \in 0..Len(sought)] ==
        IF i = 0 THEN {[cursor |-> 1, first |-> 0, out |-> <<>>]}
        ELSE UNION {AppliesSegment(text, sought[i], put[i], d) : d \in reached[i - 1]}
  IN IF Len(sought) # Len(put) \/ Len(sought) < 2 THEN {}
     ELSE {SubSeq(text, 1, d.first - 1) \o d.out \o SubSeq(text, d.cursor, Len(text)) :
             d \in {r \in reached[Len(sought)] : r.first # 0}}

BlankLineDrop(text, block) ==
  LET sought == Lines(block.search)
  IN IF Len(sought) > 1 /\ IsBlank(Head(sought))
     THEN Replaces(JoinLines(Tail(sought)), block, text) ELSE {}

\* How much further in a line of the file is than the one it is compared with.
Delta(line, sought) ==
  SubSeq(LeadingWhitespace(line), 1,
         Len(LeadingWhitespace(line)) - Len(LeadingWhitespace(sought)))

Deltas(window, sought) ==
  {Delta(window[i], sought[i]) : i \in {j \in DOMAIN sought : ~IsBlank(sought[j])}}

\* The lines are those sought, each further in by the same indentation.
DriftsUniformly(window, sought) ==
  /\ \A i \in DOMAIN sought :
       /\ Stripped(window[i]) = Stripped(sought[i])
       /\ IsBlank(sought[i]) \/ IsSuffix(LeadingWhitespace(sought[i]),
                                         LeadingWhitespace(window[i]))
  /\ Cardinality(Deltas(window, sought)) <= 1

ApplyDelta(ls, delta) ==
  [i \in DOMAIN ls |-> IF ls[i] = <<>> THEN <<>> ELSE delta \o ls[i]]

WhitespaceTolerant(text, block) ==
  LET ls == Lines(text)
      sought == Lines(block.search)
      window(k) == SubSeq(ls, k, k + Len(sought) - 1)
      at == {k \in 1..(Len(ls) - Len(sought) + 1) : DriftsUniformly(window(k), sought)}
      delta(k) == IF Deltas(window(k), sought) = {} THEN <<>>
                  ELSE CHOOSE d \in Deltas(window(k), sought) : TRUE
  IN {JoinLines(SubSeq(ls, 1, k - 1) \o ApplyDelta(Lines(block.replace), delta(k))
                  \o SubSeq(ls, k + Len(sought), Len(ls))) :
        k \in {j \in at : \A i \in at : j <= i}}

\* The first attempt that applies, in the order of the code.
ApplyEditBlock(text, block) ==
  LET attempts == <<Exact(text, block), EllipsisElision(text, block),
                    BlankLineDrop(text, block), WhitespaceTolerant(text, block)>>
      hits == {n \in DOMAIN attempts : attempts[n] # {}}
  IN UNION {attempts[n] : n \in {k \in hits : \A j \in hits : k <= j}}

(***************************************************************************)
(* The tool.                                                               *)
(***************************************************************************)
\* Block after block until one does not apply: what `current` has been.
ApplyEdits(text, bs) ==
  LET been[i \in 0..Len(bs)] ==
        IF i = 0 THEN <<text>>
        ELSE LET ts == been[i - 1]
                 next == IF Len(ts) < i THEN {} ELSE ApplyEditBlock(ts[i], bs[i])
             IN IF next = {} THEN ts ELSE Append(ts, CHOOSE t \in next : TRUE)
  IN been[Len(bs)]

Applied == blocks # NoCall /\ Len(texts) = Len(blocks) + 1

EditInit ==
  /\ source \in SourceTexts
  /\ blocks = NoCall
  /\ texts = <<source>>

\* The file is read, edited and written in one turn, if every block applied.
EditFile(bs) ==
  /\ blocks = NoCall
  /\ blocks' = bs
  /\ texts' = ApplyEdits(source, bs)
  /\ source' = IF Len(texts') = Len(bs) + 1 THEN Last(texts') ELSE source

EditNext == \E bs \in EditCalls : EditFile(bs)

EditSpec == EditInit /\ [][EditNext]_editVars

(***************************************************************************)
(* Properties.                                                             *)
(***************************************************************************)
\* The variables have their types.
EditTypeOK ==
  /\ blocks \in EditCalls \cup {NoCall}
  /\ Len(texts) \in 1..(1 + IF blocks = NoCall THEN 0 ELSE Len(blocks))

Words(text) ==
  FlattenSeq([i \in DOMAIN text |-> IF text[i] \in Whitespace \cup {Newline} THEN <<>>
                                    ELSE <<text[i]>>])

\* One stretch of the text, with the words sought, became another with the words
\* put in its place; before and after it not a character changed.
RewritesOneStretch(old, b, new) ==
  \E i \in 1..(Len(old) + 1), j \in 0..Len(old) :
    LET before == SubSeq(old, 1, i - 1)
        after == SubSeq(old, j + 1, Len(old))
        n == Len(new) - Len(after)
    IN /\ i <= j + 1
       /\ IsPrefix(before, new) /\ IsSuffix(after, new) /\ Len(before) <= n
       /\ Words(SubSeq(old, i, j)) = Words(b.search)
       /\ Words(SubSeq(new, i, n)) = Words(b.replace)

\* Where the segments of a search are in a text, in their order.
Placements(old, sought) ==
  {at \in [DOMAIN sought -> 1..(Len(old) + 1)] :
     \A i \in DOMAIN sought :
       /\ at[i] \in IndexOf(sought[i], old, at[i])
       /\ i > 1 => at[i] >= at[i - 1] + Len(sought[i - 1])}

\* Every segment became its replacement, and nothing around them changed.
RewritesSegments(old, b, new) ==
  LET sought == Segments(b.search)
      put == Segments(b.replace)
      from(at, i) == IF i = 1 THEN 1 ELSE at[i - 1] + Len(sought[i - 1])
  IN /\ Len(sought) = Len(put)
     /\ \E at \in Placements(old, sought) :
          new = FlattenSeq([i \in DOMAIN sought |->
                              SubSeq(old, from(at, i), at[i] - 1) \o put[i]])
                  \o SubSeq(old, Last(at) + Len(Last(sought)), Len(old))

\* The text has what the block seeks: the same lines at some indentation, or its
\* segments in their order.
Sought(old, b) ==
  \/ \E w \in {LeadingWhitespace(l) : l \in Range(Lines(old))} :
       \E d \in Prefixes(w) :
         IndexOf(ApplyDelta(Lines(b.search), d), Lines(old), 1) # {}
  \/ /\ Len(Segments(b.search)) = Len(Segments(b.replace))
     /\ \E s \in Range(Segments(b.search)) : s # <<>>
     /\ Placements(old, Segments(b.search)) # {}

\* A call changes what its blocks name and nothing else, and it refuses no block
\* whose text is there.  The file becomes the last text, or stays what it was
\* when a block was refused, also after others had applied.
EditsWhatItNames ==
  blocks # NoCall =>
    /\ \A k \in 1..(Len(texts) - 1) :
         \/ RewritesOneStretch(texts[k], blocks[k], texts[k + 1])
         \/ RewritesSegments(texts[k], blocks[k], texts[k + 1])
    /\ ~Applied => ~Sought(Last(texts), blocks[Len(texts)])
    /\ source = IF Applied THEN Last(texts) ELSE texts[1]
=============================================================================

---------------------------- MODULE HermesStream ----------------------------
(***************************************************************************)
(* A streamed reply of a model that writes its tool calls as text          *)
(* (providers/src/hermes.ts inside openai-compatible.ts): the server cuts  *)
(* the message into chunks wherever it likes, the parser turns them into   *)
(* text and calls as they arrive, and the reply counts as complete only if *)
(* the stream said so.                                                     *)
(*                                                                         *)
(* A message is a sequence of lexemes.  A tag is two of them, so that a    *)
(* chunk may end inside it; "call" stands for a JSON object that names a   *)
(* tool, every other lexeme for text that is no tag and no call.           *)
(***************************************************************************)
EXTENDS Naturals, Sequences, Functions, FiniteSetsExt, SequencesExt

CONSTANTS
  ReplyTexts  \* the messages a model may write

ToolCallOpen    == <<"<", "tool_call>">>
ToolCallClose   == <<"</", "tool_call>">>
ScratchPadOpen  == <<"<", "scratch_pad>">>
ScratchPadClose == <<"</", "scratch_pad>">>

VARIABLES
  message,   \* what the model writes
  fed,       \* how many of its lexemes have been streamed
  parser,    \* HermesStreamParser
  finish     \* the finish reason collected so far; "none" before any
streamVars == <<message, fed, parser, finish>>

(***************************************************************************)
(* The parser: its state, the text it has not classified yet (`buffer` or  *)
(* `region` of the code, of which one is always empty), and what it has    *)
(* put out so far, lexemes and calls in order.                             *)
(***************************************************************************)
NewParser == [state |-> "text", pending |-> <<>>, out |-> <<>>]

\* A call in the output, which no lexeme is.  The region's contents become one if
\* they are a JSON object with a name.
EmittedCall == "a call"
ASSUME ReplyAssumption ==
  \A text \in ReplyTexts : text \in Seq(Range(text)) /\ EmittedCall \notin Range(text)

ParsesAsCall(contents) == contents = <<"call">>

\* The first of the tags in the text, and what is before and after it.
Hits(text, tags) == {i \in 1..(Len(text) - 1) : SubSeq(text, i, i + 1) \in tags}
Has(text, tags) == Hits(text, tags) # {}
FirstOf(text, tags) ==
  LET i == Min(Hits(text, tags))
  IN [tag |-> SubSeq(text, i, i + 1), before |-> SubSeq(text, 1, i - 1),
      after |-> SubSeq(text, i + 2, Len(text))]

\* Mutant: the text is put out as it comes.
NoPendingTag(text) == 0

\* How much of the end of the text may still become an opening tag.
PendingTagPrefixLength(text) ==
  IF text # <<>> /\ Last(text) \in {Head(ToolCallOpen), Head(ScratchPadOpen)}
  THEN 1 ELSE 0

\* One turn of drain, or the same parser when more input is needed.
InText(p) ==
  IF Has(p.pending, {ToolCallOpen, ScratchPadOpen})
  THEN LET hit == FirstOf(p.pending, {ToolCallOpen, ScratchPadOpen})
       IN [state |-> IF hit.tag = ToolCallOpen THEN "tool_call" ELSE "scratch_pad",
           pending |-> hit.after, out |-> p.out \o hit.before]
  ELSE LET n == Len(p.pending) - PendingTagPrefixLength(p.pending)
       IN [p EXCEPT !.pending = SubSeq(p.pending, n + 1, Len(p.pending)),
                    !.out = p.out \o SubSeq(p.pending, 1, n)]

InToolCall(p) ==
  LET hit == FirstOf(p.pending, {ToolCallClose, ToolCallOpen})
  IN IF ~Has(p.pending, {ToolCallClose, ToolCallOpen}) THEN p
     ELSE IF hit.tag = ToolCallOpen
     THEN [p EXCEPT !.pending = hit.after, !.out = p.out \o ToolCallOpen \o hit.before]
     ELSE [state |-> "text", pending |-> hit.after,
           out |-> p.out \o IF ParsesAsCall(hit.before) THEN <<EmittedCall>>
                            ELSE ToolCallOpen \o hit.before \o ToolCallClose]

InScratchPad(p) ==
  LET hit == FirstOf(p.pending, {ScratchPadClose, ToolCallOpen})
  IN IF ~Has(p.pending, {ScratchPadClose, ToolCallOpen}) THEN p
     ELSE [p EXCEPT !.state = IF hit.tag = ToolCallOpen THEN "tool_call" ELSE "text",
                    !.pending = hit.after]

DrainOnce(p) == CASE p.state = "text"        -> InText(p)
                  [] p.state = "tool_call"   -> InToolCall(p)
                  [] p.state = "scratch_pad" -> InScratchPad(p)

\* Every turn but the last classifies some of the text, so there are at most as
\* many as there are lexemes; and a turn that finds nothing changes nothing.
Turns(p, n) == LET q[k \in 0..n] == IF k = 0 THEN p ELSE DrainOnce(q[k - 1]) IN q[n]
Drain(p) == Turns(p, Len(p.pending))

Push(p, chunk) == Drain([p EXCEPT !.pending = @ \o chunk])

\* The end of the stream: what is still open is put out as text, except
\* reasoning.
End(p) ==
  [NewParser EXCEPT !.out = CASE p.state = "text"        -> p.out \o p.pending
                              [] p.state = "tool_call"   -> p.out \o ToolCallOpen \o p.pending
                              [] p.state = "scratch_pad" -> p.out]

CallsOf(p) == SelectSeq(p.out, LAMBDA o : o = EmittedCall)

(***************************************************************************)
(* The stream.                                                             *)
(***************************************************************************)
StreamInit ==
  /\ message \in ReplyTexts
  /\ fed = 0
  /\ parser = NewParser
  /\ finish = "none"

Open == finish = "none"

\* A chunk of any length.
Chunk ==
  /\ Open
  /\ \E k \in 1..(Len(message) - fed) :
       /\ parser' = Push(parser, SubSeq(message, fed + 1, fed + k))
       /\ fed' = fed + k
  /\ UNCHANGED <<message, finish>>

\* The server reports why the model stopped: it was done, hit its cap, or was
\* cut off by a filter.
FinishReason(reported, p) ==
  CASE reported = "content_filter"              -> "error"
    [] reported = "stop" /\ CallsOf(p) # <<>>   -> "tool_use"
    [] OTHER                                    -> reported

Finishes ==
  /\ Open
  /\ \E reported \in {"stop", "length", "content_filter"} :
       /\ reported = "stop" => fed = Len(message)
       /\ parser' = End(parser)
       /\ finish' = FinishReason(reported, parser')
  /\ UNCHANGED <<message, fed>>

\* A chunk that carries an error ends the stream at once.
InBandError ==
  /\ finish # "error"
  /\ finish' = "error"
  /\ UNCHANGED <<message, fed, parser>>

\* The stream ends, with [DONE] or with the connection, and no finish reason.
EndsUnfinished ==
  /\ Open
  /\ parser' = End(parser)
  /\ finish' = "error"
  /\ UNCHANGED <<message, fed>>

\* There is no stream: the network failed, or the answer was not ok.
RequestFails ==
  /\ Open /\ fed = 0
  /\ finish' = "error"
  /\ UNCHANGED <<message, fed, parser>>

StreamNext == RequestFails \/ Chunk \/ Finishes \/ InBandError \/ EndsUnfinished

StreamSpec == StreamInit /\ [][StreamNext]_streamVars

(***************************************************************************)
(* Properties.                                                             *)
(***************************************************************************)
\* The variables have their types.
StreamTypeOK ==
  /\ fed \in 0..Len(message)
  /\ parser.state \in {"text", "tool_call", "scratch_pad"}
  /\ finish \in {"none", "stop", "tool_use", "length", "error"}

\* A call written back as the text it came from.
Unparsed(o) == IF o = EmittedCall THEN ToolCallOpen \o <<"call">> \o ToolCallClose ELSE <<o>>
Rendered(out) == FlattenSeq([i \in DOMAIN out |-> Unparsed(out[i])])

\* A reply that ends as complete is the message: however it was cut into
\* chunks, text and calls are those of the message parsed whole, nothing the
\* model wrote is missing but its scratch pads, and the turn is one that calls
\* tools exactly if it has calls.
ReplyIsTheMessage ==
  finish \in {"stop", "tool_use"} =>
    /\ parser.out = End(Push(NewParser, message)).out
    /\ ~Has(message, {ScratchPadOpen}) => Rendered(parser.out) = message
    /\ (finish = "tool_use") <=> (CallsOf(parser) # <<>>)
=============================================================================

--------------------------- MODULE AnthropicStream ---------------------------
(***************************************************************************)
(* The native Anthropic adapter (providers/src/anthropic.ts) between the   *)
(* loop and a server that streams a reply block by block: the conversation *)
(* becomes a request, the events of the stream become text and calls,      *)
(* `collect` gathers them, and the loop puts the reply and its results     *)
(* into the conversation of the next request.                              *)
(*                                                                         *)
(* A block is [kind, id, parts]: the pieces its deltas carry.  The end of  *)
(* a block is left out: `collect` does nothing with it.                    *)
(***************************************************************************)
EXTENDS Naturals, Sequences, Functions, FiniteSetsExt, SequencesExt, Selection

CONSTANTS
  ServerTurns,       \* the replies a server may stream, as sequences of blocks
  NoId,              \* the id of a block whose event has none
  MaxAnthropicTurns  \* bound: replies of a conversation

\* How the object of a call's arguments begins and ends.
OpenBrace == "{"
CloseBrace == "}"

\* The id a block goes by: the one it came with, or one that is made up.
IdOf(turn, i) == IF turn[i].id = NoId THEN <<"block", i>> ELSE turn[i].id

\* The protocol of the server: two calls of a reply have two ids, and arguments
\* are one object.  Pieces of two texts are told apart.
ASSUME AnthropicAssumption ==
  \A turn \in ServerTurns :
    /\ turn \in Seq(Range(turn))
    /\ \A i \in DOMAIN turn :
         /\ turn[i] = [kind |-> turn[i].kind, id |-> turn[i].id, parts |-> turn[i].parts]
         /\ turn[i].kind \in {"text", "tool_use"}
         /\ turn[i].parts \in Seq(Range(turn[i].parts))
         /\ turn[i].kind = "tool_use" =>
              \A k \in DOMAIN turn[i].parts : turn[i].parts[k] = OpenBrace <=> k = 1
    /\ \A i, j \in DOMAIN turn : i # j /\ turn[i].kind = turn[j].kind =>
         IF turn[i].kind = "tool_use" THEN IdOf(turn, i) # IdOf(turn, j)
         ELSE Range(turn[i].parts) \cap Range(turn[j].parts) = {}

VARIABLES
  reply,          \* what the server is streaming
  sent,           \* of each of its blocks: 0 before its start, n + 1 after n deltas
  blocksByIndex,  \* the blocks that were started
  collected,      \* the text and the calls `collect` has
  finishReason,   \* "none" before any; of the reply, or the error that ended it
  conversation,   \* the messages of the loop
  request,          \* the body of the last request
  replied         \* history: the replies that were gone on from, as far as sent
anthropicVars == <<reply, sent, blocksByIndex, collected, finishReason,
                   conversation, request, replied>>

-----------------------------------------------------------------------------
(* The request. *)

Opening == << [role |-> "system", content |-> <<"rules">>, calls |-> <<>>],
              [role |-> "user", content |-> <<"task">>, calls |-> <<>>] >>
ToolMessage(id) == [role |-> "tool", content |-> <<"result">>, calls |-> <<>>, id |-> id]

\* Arguments that were cut short do not parse, and are sent back as no arguments.
NoArguments == <<OpenBrace, CloseBrace>>
ParsesAsJson(args) ==
  /\ args # <<>> /\ Head(args) = OpenBrace /\ Last(args) = CloseBrace
  /\ \A i \in 2..Len(args) : args[i] # OpenBrace
SafeParseJson(args) == IF ParsesAsJson(args) THEN args ELSE NoArguments

ToolUses(calls) ==
  [i \in DOMAIN calls |-> [type |-> "tool_use", id |-> calls[i].id,
                           input |-> SafeParseJson(calls[i].args)]]

Converted(m) ==
  CASE m.role = "tool" ->
         [role |-> "user", content |-> << [type |-> "tool_result", id |-> m.id] >>]
    [] m.role # "tool" /\ m.calls # <<>> ->
         [role |-> "assistant",
          content |-> (IF m.content = <<>> THEN <<>>
                       ELSE << [type |-> "text", text |-> m.content] >>) \o ToolUses(m.calls)]
    [] OTHER -> [role |-> m.role, content |-> m.content]

ToAnthropicRequest(ms) ==
  LET rules == Selected(ms, {i \in DOMAIN ms : ms[i].role = "system"})
      rest == Selected(ms, {i \in DOMAIN ms : ms[i].role # "system"})
  IN [system |-> FlattenSeq([i \in DOMAIN rules |-> rules[i].content]),
      messages |-> [i \in DOMAIN rest |-> Converted(rest[i])]]

-----------------------------------------------------------------------------
(* The stream. *)

StartsReply(turn) ==
  /\ reply' = turn
  /\ sent' = [i \in DOMAIN turn |-> 0]
  /\ blocksByIndex' = <<>>
  /\ collected' = [text |-> <<>>, calls |-> <<>>]
  /\ finishReason' = "none"

AnthropicInit ==
  /\ reply \in ServerTurns
  /\ sent = [i \in DOMAIN reply |-> 0]
  /\ blocksByIndex = <<>>
  /\ collected = [text |-> <<>>, calls |-> <<>>]
  /\ finishReason = "none"
  /\ conversation = Opening
  /\ request = ToAnthropicRequest(Opening)
  /\ replied = <<>>

IsStreaming == finishReason = "none"

\* There is no stream: the network failed, or the answer was not ok.
NoResponse ==
  /\ IsStreaming /\ \A i \in DOMAIN reply : sent[i] = 0
  /\ finishReason' = "error"
  /\ UNCHANGED <<reply, sent, blocksByIndex, collected, conversation, request, replied>>

ContentBlockStart(i) ==
  LET id == IdOf(reply, i)
  IN /\ IsStreaming /\ sent[i] = 0 /\ \A j \in 1..(i - 1) : sent[j] > 0
     /\ sent' = [sent EXCEPT ![i] = 1]
     /\ blocksByIndex' = Append(blocksByIndex, [kind |-> reply[i].kind, id |-> id])
     /\ collected' = IF reply[i].kind = "text" THEN collected
                     ELSE [collected EXCEPT !.calls = Append(@, [id |-> id, args |-> <<>>])]
     /\ UNCHANGED <<reply, finishReason, conversation, request, replied>>

\* Mutant: a delta belongs to the block that was started last.
BlockStartedLast(i) == Last(blocksByIndex)

\* The block a delta belongs to.
BlockAt(i) == blocksByIndex[i]

\* A piece more of the arguments of a call.
Added(calls, id, part) ==
  [k \in DOMAIN calls |-> IF calls[k].id # id THEN calls[k]
                          ELSE [calls[k] EXCEPT !.args = Append(@, part)]]

\* collect, of a delta of a block.
Collects(block, part) ==
  collected' = IF block.kind = "text" THEN [collected EXCEPT !.text = Append(@, part)]
               ELSE [collected EXCEPT !.calls = Added(@, block.id, part)]

\* Blocks that have started may go on in any order.
ContentBlockDelta(i) ==
  /\ IsStreaming /\ sent[i] \in 1..Len(reply[i].parts)
  /\ Collects(BlockAt(i), reply[i].parts[sent[i]])
  /\ sent' = [sent EXCEPT ![i] = @ + 1]
  /\ UNCHANGED <<reply, blocksByIndex, finishReason, conversation, request, replied>>

WholeReplySent == \A i \in DOMAIN reply : sent[i] = Len(reply[i].parts) + 1

MapStopReason(reason) ==
  CASE reason = "tool_use"   -> "tool_use"
    [] reason = "max_tokens" -> "length"
    [] reason = "refusal"    -> "error"
    [] OTHER                 -> "stop"

\* The server says why it stopped: the reply is whole, or was cut off.
MessageDelta ==
  /\ IsStreaming
  /\ \E reason \in {"end_turn", "tool_use", "max_tokens", "refusal"} :
       /\ reason \in {"end_turn", "tool_use"} =>
            /\ WholeReplySent
            /\ (reason = "tool_use") <=> (\E b \in Range(reply) : b.kind = "tool_use")
       /\ finishReason' = MapStopReason(reason)
  /\ UNCHANGED <<reply, sent, blocksByIndex, collected, conversation, request, replied>>

\* An error event, also after the stop reason.
ErrorEvent ==
  /\ finishReason # "error"
  /\ finishReason' = "error"
  /\ UNCHANGED <<reply, sent, blocksByIndex, collected, conversation, request, replied>>

\* The connection is closed before any stop reason came.
StreamDrops ==
  /\ IsStreaming
  /\ finishReason' = "error"
  /\ UNCHANGED <<reply, sent, blocksByIndex, collected, conversation, request, replied>>

\* The loop makes the calls and asks again.  An error ends the run, and a reply
\* without calls ends the act phase.
AsksAgain ==
  /\ finishReason \notin {"none", "error"} /\ collected.calls # <<>>
  /\ Len(replied) < MaxAnthropicTurns - 1
  /\ conversation' = conversation
       \o << [role |-> "assistant", content |-> collected.text, calls |-> collected.calls] >>
       \o [k \in DOMAIN collected.calls |-> ToolMessage(collected.calls[k].id)]
  /\ request' = ToAnthropicRequest(conversation')
  /\ replied' = Append(replied, [i \in DOMAIN blocksByIndex |->
                  [reply[i] EXCEPT !.parts = SubSeq(@, 1, sent[i] - 1)]])
  /\ \E turn \in ServerTurns : StartsReply(turn)

AnthropicNext ==
  \/ NoResponse \/ MessageDelta \/ ErrorEvent \/ StreamDrops \/ AsksAgain
  \/ \E i \in DOMAIN reply : ContentBlockStart(i) \/ ContentBlockDelta(i)

AnthropicSpec == AnthropicInit /\ [][AnthropicNext]_anthropicVars

-----------------------------------------------------------------------------
(* Properties. *)

\* The variables have their types.
AnthropicTypeOK ==
  /\ Len(blocksByIndex) = Cardinality({i \in DOMAIN reply : sent[i] > 0})
  /\ \A i \in DOMAIN reply : sent[i] \in 0..(Len(reply[i].parts) + 1)
  /\ finishReason \in {"none", "stop", "tool_use", "length", "error"}

OfKind(blocks, kind) == Selected(blocks, {i \in DOMAIN blocks : blocks[i].kind = kind})
OfType(content, type) == Selected(content, {i \in DOMAIN content : content[i].type = type})

\* What a text has of some pieces.
Among(text, parts) == Selected(text, {i \in DOMAIN text : text[i] \in Range(parts)})

\* What a request says at a message is what the model replied: its text, and
\* each call in its order, with the arguments the model gave it or none if they
\* were cut off, and then one result for each call.
TellsReply(ms, at, turn) ==
  LET uses == OfType(ms[at].content, "tool_use")
      texts == OfType(ms[at].content, "text")
      calls == OfKind(turn, "tool_use")
  IN /\ Len(uses) = Len(calls)
     /\ \A i, j \in DOMAIN uses : uses[i].id = uses[j].id => i = j
     /\ \A i \in DOMAIN uses :
          /\ calls[i].id \in {NoId, uses[i].id}
          /\ uses[i].input \in {calls[i].parts, NoArguments}
          /\ calls[i].parts # <<>> /\ Last(calls[i].parts) = CloseBrace => uses[i].input = calls[i].parts
          /\ ms[at + i] = [role |-> "user",
                           content |-> << [type |-> "tool_result", id |-> uses[i].id] >>]
     /\ \A b \in Range(OfKind(turn, "text")) : b.parts # <<>> =>
          texts # <<>> /\ Among(texts[1].text, b.parts) = b.parts

\* The server is told its replies, each as it was streamed, whatever order the
\* deltas of its blocks came in and whatever it was cut off at; and a reply
\* counts as complete only if all of it came.
RequestTellsTheReplies ==
  /\ finishReason \in {"stop", "tool_use"} => WholeReplySent
  /\ LET said == {i \in DOMAIN request.messages : request.messages[i].role = "assistant"}
     IN /\ Cardinality(said) = Len(replied)
        /\ \A k \in DOMAIN replied : TellsReply(request.messages, Nth(said, k), replied[k])
=============================================================================

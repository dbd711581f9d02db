----------------------------- MODULE NativeStream -----------------------------
(***************************************************************************)
(* A streamed reply of a server that makes tool calls natively: the frames *)
(* of providers/src/sse.ts, cut by the network wherever it likes, the      *)
(* chunks of openai-compatible.ts with their calls by index, and what      *)
(* `collect` makes of it all (types.ts).                                   *)
(*                                                                         *)
(* An event takes four symbols on the wire: two halves of its data and the *)
(* two line ends that separate it from the next.  The last two may be      *)
(* missing at the end of the stream, and the stream may stop anywhere.     *)
(***************************************************************************)
EXTENDS Naturals, FiniteSetsExt, Functions, SequencesExt, Selection

CONSTANTS
  EventStreams,  \* the streams a server may send, as sequences of events
  NoCallId       \* the id of a call whose chunk has none

(***************************************************************************)
(* An event is [kind |-> "text", text], [kind |-> "call", index, id, args] *)
(* with the next piece of the arguments, [kind |-> "finish", reason],      *)
(* [kind |-> "usage"], [kind |-> "comment"], [kind |-> "error"] or         *)
(* [kind |-> "DONE"].  The index is what `tc.index ?? 0` makes of a chunk's: *)
(* to a server that leaves it out, every chunk is of the call 0, and two   *)
(* calls it meant are one here, as they are to the adapter.                *)
(***************************************************************************)

\* The chunks of the call with an index, and the id it goes by: the first has it,
\* or it is made up.
Chunks(es, i) == {k \in DOMAIN es : es[k].kind = "call" /\ es[k].index = i}
Indices(es) == {es[k].index : k \in {j \in DOMAIN es : es[j].kind = "call"}}
MeantId(es, i) == LET first == es[Nth(Chunks(es, i), 1)]
                 IN IF first.id = NoCallId THEN <<"call", i>> ELSE first.id

\* The protocol of the servers: after a finish reason the reply has nothing more
\* to say, and two calls of a reply have two ids.
ASSUME NativeAssumption ==
  \A es \in EventStreams :
    /\ es \in Seq(Range(es))
    /\ \A k \in DOMAIN es : es[k].kind = "call" => es[k].args \in Seq(Range(es[k].args))
    /\ \A j, k \in DOMAIN es : j < k /\ es[j].kind = "finish" =>
         es[k].kind \notin {"text", "call", "finish"}
    /\ \A i, j \in Indices(es) : MeantId(es, i) = MeantId(es, j) => i = j

VARIABLES
  events,       \* what the server sends
  received,     \* symbols of it that were read from the connection
  decoded,      \* symbols of it that are out of the buffer
  connection,   \* "open", "closed"
  callBuffers,  \* toolCallBuffers: the calls begun, [index, id]
  sawTerminal,
  gathered      \* collect: [text, calls, finishReason, over]

nativeVars == <<events, received, decoded, connection, callBuffers, sawTerminal, gathered>>

WireLength == 4 * Len(events)

NativeInit ==
  /\ events \in EventStreams
  /\ received = 0 /\ decoded = 0
  /\ connection = "open"
  /\ callBuffers = <<>>
  /\ sawTerminal = FALSE
  /\ gathered = [text |-> <<>>, calls |-> <<>>, finishReason |-> "none", over |-> FALSE]

-----------------------------------------------------------------------------
(* parseSSE: the buffer is the symbols from `decoded` to `received`. *)

\* The event at the head of the buffer, when its separator is there.
HeadEvent == events[decoded \div 4 + 1]
HasWholeEvent == received - decoded >= 4

Reads ==
  /\ connection = "open" /\ ~gathered.over
  /\ ~HasWholeEvent                     \* those of the last read are taken first
  /\ received' \in (received + 1)..WireLength
  /\ UNCHANGED <<events, decoded, connection, callBuffers, sawTerminal, gathered>>

Disconnects ==
  /\ connection = "open"
  /\ connection' = "closed"
  /\ UNCHANGED <<events, received, decoded, callBuffers, sawTerminal, gathered>>

\* Reading throws: there is no reply.
ReadThrows ==
  /\ connection = "open" /\ ~gathered.over /\ ~HasWholeEvent
  /\ connection' = "closed"
  /\ gathered' = [gathered EXCEPT !.finishReason = "thrown", !.over = TRUE]
  /\ UNCHANGED <<events, received, decoded, callBuffers, sawTerminal>>

\* At the end of the stream the rest counts as an event; one that is cut short
\* does not parse and is passed over.
HasRest == connection = "closed" /\ ~HasWholeEvent /\ received > decoded
RestParses == received - decoded >= 2

Consumes == decoded' = IF HasWholeEvent THEN decoded + 4 ELSE received
HasEvent == ~gathered.over /\ (HasWholeEvent \/ (HasRest /\ RestParses))

DropsRest ==
  /\ HasRest /\ ~RestParses /\ ~gathered.over
  /\ decoded' = received
  /\ UNCHANGED <<events, received, connection, callBuffers, sawTerminal, gathered>>

-----------------------------------------------------------------------------
(* chat, and collect of what it yields. *)

Takes(kinds) ==
  /\ HasEvent /\ HeadEvent.kind \in kinds
  /\ Consumes
  /\ UNCHANGED <<events, received, connection>>

Text ==
  /\ Takes({"text"})
  /\ gathered' = [gathered EXCEPT !.text = Append(@, HeadEvent.text)]
  /\ UNCHANGED <<callBuffers, sawTerminal>>

\* Mutant: a piece belongs to the call begun last.
BegunLast(index) == {k \in DOMAIN callBuffers : k = Len(callBuffers)}

\* The buffer of the call an index stands for.
BufferAt(index) == {k \in DOMAIN callBuffers : callBuffers[k].index = index}

\* collect: a start sets the call of an id, a delta adds to it.
StartsCall(calls, id) ==
  IF \E k \in DOMAIN calls : calls[k].id = id
  THEN [k \in DOMAIN calls |-> IF calls[k].id # id THEN calls[k] ELSE [calls[k] EXCEPT !.args = <<>>]]
  ELSE Append(calls, [id |-> id, args |-> <<>>])
Adds(calls, id, args) ==
  [k \in DOMAIN calls |-> IF calls[k].id # id THEN calls[k] ELSE [calls[k] EXCEPT !.args = @ \o args]]

\* Mutant: the call is begun but not remembered.
BeginsCallUnremembered ==
  /\ Takes({"call"}) /\ BufferAt(HeadEvent.index) = {}
  /\ gathered' = [gathered EXCEPT !.calls = StartsCall(@, HeadEvent.id)]
  /\ UNCHANGED <<callBuffers, sawTerminal>>

\* The first chunk of an index begins a call; an id that is missing is made up.
BeginsCall ==
  /\ Takes({"call"}) /\ BufferAt(HeadEvent.index) = {}
  /\ LET id == IF HeadEvent.id = NoCallId THEN <<"call", HeadEvent.index>> ELSE HeadEvent.id
     IN /\ callBuffers' = Append(callBuffers, [index |-> HeadEvent.index, id |-> id])
        /\ gathered' = [gathered EXCEPT !.calls = Adds(StartsCall(@, id), id, HeadEvent.args)]
  /\ UNCHANGED sawTerminal

ContinuesCall ==
  /\ Takes({"call"})
  /\ \E k \in BufferAt(HeadEvent.index) :
       gathered' = [gathered EXCEPT !.calls = Adds(@, callBuffers[k].id, HeadEvent.args)]
  /\ UNCHANGED <<callBuffers, sawTerminal>>

MapsFinishReason(reason) ==
  CASE reason = "tool_calls"     -> "tool_use"
    [] reason = "length"         -> "length"
    [] reason = "content_filter" -> "error"
    [] OTHER                     -> "stop"

\* The reply is not over yet: usage and [DONE] may follow.
TurnFinishes ==
  /\ Takes({"finish"})
  /\ sawTerminal' = TRUE
  /\ gathered' = [gathered EXCEPT !.finishReason = MapsFinishReason(HeadEvent.reason)]
  /\ UNCHANGED callBuffers

\* Usage, or a keep-alive, or a chunk that does not parse.
PassesOver ==
  /\ Takes({"usage", "comment"})
  /\ UNCHANGED <<callBuffers, sawTerminal, gathered>>

ErrorChunk ==
  /\ Takes({"error"})
  /\ gathered' = [gathered EXCEPT !.finishReason = "error", !.over = TRUE]
  /\ UNCHANGED <<callBuffers, sawTerminal>>

\* Mutant: the generator just returns; collect's reason is "stop" by default.
ReturnsAtTheEnd ==
  gathered' = [gathered EXCEPT !.over = TRUE,
                               !.finishReason = IF @ = "none" THEN "stop" ELSE @]

\* The stream is at its end, and an error unless there was a finish reason.
EndsStream ==
  gathered' = [gathered EXCEPT !.over = TRUE,
                               !.finishReason = IF sawTerminal THEN @ ELSE "error"]

SaysDone ==
  /\ Takes({"DONE"})
  /\ EndsStream
  /\ UNCHANGED <<callBuffers, sawTerminal>>

RunsOut ==
  /\ connection = "closed" /\ received = decoded /\ ~gathered.over
  /\ EndsStream
  /\ UNCHANGED <<events, received, decoded, connection, callBuffers, sawTerminal>>

\* The network fails, or the server answers with a status that is not ok.
NoStream ==
  /\ received = 0 /\ connection = "open" /\ ~gathered.over
  /\ connection' = "closed"
  /\ gathered' = [gathered EXCEPT !.finishReason = "error", !.over = TRUE]
  /\ UNCHANGED <<events, received, decoded, callBuffers, sawTerminal>>

NativeNext ==
  \/ Reads \/ ReadThrows \/ Disconnects \/ DropsRest \/ Text \/ BeginsCall \/ ContinuesCall \/ TurnFinishes
  \/ PassesOver \/ ErrorChunk \/ SaysDone \/ RunsOut \/ NoStream

NativeSpec == NativeInit /\ [][NativeNext]_nativeVars

-----------------------------------------------------------------------------
(* Properties. *)

\* The variables have their types.
NativeTypeOK ==
  /\ 0 <= decoded /\ decoded <= received /\ received <= WireLength
  /\ Len(gathered.calls) = Len(callBuffers)
  /\ gathered.finishReason \in {"none", "stop", "tool_use", "length", "error", "thrown"}

\* What the server said: its text, and of each index the pieces of its call; it
\* is the index that tells two calls apart, and nothing else.
SaidText == LET said == Selected(events, {k \in DOMAIN events : events[k].kind = "text"})
            IN [k \in DOMAIN said |-> said[k].text]
SaidArgs(i) == LET said == Selected(events, Chunks(events, i))
               IN FlattenSeq([k \in DOMAIN said |-> said[k].args])
MeantCall(i) == [id |-> MeantId(events, i), args |-> SaidArgs(i)]

\* A reply that is collected as complete is the one the server sent, each call
\* with its own arguments, however the stream was cut into reads and wherever
\* it broke off; and one of a server that failed, or reports that it was
\* stopped, does not count as complete (sse.ts:22-47,
\* openai-compatible.ts:164-246).
NativeReplyIsWhole ==
  gathered.over /\ gathered.finishReason \in {"stop", "tool_use"} =>
    /\ gathered.text = SaidText
    /\ Range(gathered.calls) = {MeantCall(i) : i \in Indices(events)}
    /\ Len(gathered.calls) = Cardinality(Indices(events))
    /\ \A k \in DOMAIN events : events[k].kind = "finish" =>
         events[k].reason \notin {"length", "content_filter"}
=============================================================================

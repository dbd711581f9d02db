----------------------------- MODULE Transcript -----------------------------
(***************************************************************************)
(* The conversation of a run as the agent loop keeps it: replies with tool *)
(* calls, their results, repair messages, and the two ways it is kept      *)
(* within its token budget before every request: results superseded by a   *)
(* later identical call are blanked, then whole turns are dropped.         *)
(*                                                                         *)
(* A call has the identifier its provider gave it and a key, the tool and  *)
(* its arguments.  Sizes are estimated tokens.                             *)
(***************************************************************************)
EXTENDS Naturals, Sequences, SequencesExt

CONSTANTS
  Asks,         \* the tools with their arguments a model may call
  Providers,    \* "native": identifiers are unique; "hermes": they restart
  ResultSizes,  \* the sizes of results
  Placeholder,  \* the size of the text that replaces a pruned result
  Budget,       \* historyTokenBudget
  MaxBatch, MaxTurns, \* bounds: calls of a reply, replies and repairs of a run
  NoAsk         \* no such call

ASSUME TranscriptAssumption ==
  /\ ResultSizes \subseteq Nat
  /\ {Placeholder, Budget, MaxBatch, MaxTurns} \subseteq Nat

VARIABLES
  provider,  \* how the run's provider names calls
  messages,  \* the messages the next request will send
  awaiting,  \* the calls of the last reply that have no result yet
  turns,     \* the replies and repairs so far
  step      \* the loop: "top", "request", "batch", "final", "ended"
transcriptVars == <<provider, messages, awaiting, turns, step>>

Message(role) == [role |-> role, calls |-> <<>>, id |-> 0, ask |-> NoAsk,
                  pruned |-> FALSE, size |-> 1]

TranscriptInit ==
  /\ provider \in Providers
  /\ messages = <<Message("system"), Message("user")>>
  /\ awaiting = <<>>
  /\ turns = 0
  /\ step = "top"

(***************************************************************************)
(* Pruning.                                                                *)
(***************************************************************************)
Tokens(ms) == FoldLeft(LAMBDA sum, m : sum + m.size, 0, ms)

Calls(ms) == FoldLeft(LAMBDA cs, m : cs \o m.calls, <<>>, ms)

\* indexToolCalls: what the messages say a call with this identifier asked;
\* of two calls with one identifier the later one.
AskedBy(id, ms) ==
  LET named == SelectSeq(Calls(ms), LAMBDA c : c.id = id)
  IN IF named = <<>> THEN NoAsk ELSE Last(named).ask

Results(ms) == {i \in DOMAIN ms : /\ ms[i].role = "tool"
                                 /\ AskedBy(ms[i].id, ms) # NoAsk}

\* A later result answers the same call, and the placeholder is smaller.
Superseded(ms) ==
  {i \in Results(ms) :
     /\ ms[i].size > Placeholder
     /\ \E j \in Results(ms) :
          j > i /\ AskedBy(ms[j].id, ms) = AskedBy(ms[i].id, ms)}

Blank(m) == [m EXCEPT !.pruned = TRUE, !.size = Placeholder]

\* The oldest first, and no more than brings the estimate within the budget.
PruneSupersededToolResults(ms) ==
  LET blanked(S) == [i \in DOMAIN ms |-> IF i \in S THEN Blank(ms[i]) ELSE ms[i]]
      before(i) == {j \in Superseded(ms) : j < i}
  IN blanked({i \in Superseded(ms) : Tokens(blanked(before(i))) > Budget})

(***************************************************************************)
(* Compaction.                                                             *)
(***************************************************************************)
Pinned(ms) == SubSeq(ms, 1, 2)
Rest(ms) == SubSeq(ms, 3, Len(ms))

\* Mutant: the history is cut at any message.
EveryMessageStarts(ms) == DOMAIN ms

\* A turn begins at every message that is not a result.
TurnStarts(ms) == {i \in DOMAIN ms : i = 1 \/ ms[i].role # "tool"}

\* What may be left of the turns: the whole, or from a later turn on.
TurnSuffixes(ms) == {SubSeq(ms, i, Len(ms)) : i \in TurnStarts(ms)}

\* The longest suffix of turns that fits with what is pinned, or the last turn.
Kept(ms) ==
  LET turnsOf == TurnSuffixes(Rest(ms))
      fits == {s \in turnsOf : Tokens(Pinned(ms)) + Tokens(s) <= Budget}
  IN IF fits = {}
     THEN CHOOSE s \in turnsOf : \A t \in turnsOf : Len(s) <= Len(t)
     ELSE CHOOSE s \in fits : \A t \in fits : Len(t) <= Len(s)

CompactHistory(ms) ==
  IF Rest(ms) = <<>> \/ Kept(ms) = Rest(ms) THEN ms
  ELSE Pinned(ms) \o <<Message("user")>> \o Kept(ms)

(***************************************************************************)
(* The loop.                                                               *)
(***************************************************************************)
\* The top of the loop: the request is built within the budget.
Ask ==
  /\ step = "top"
  /\ messages' = CompactHistory(PruneSupersededToolResults(messages))
  /\ step' = "request"
  /\ UNCHANGED <<provider, awaiting, turns>>

\* Identifiers: the index of the call in its reply, or one never used before.
\* MaxBatch * turns + n stands for the latter.
CallId(n) == IF provider = "hermes" THEN n ELSE MaxBatch * turns + n

\* The reply calls tools.
Reply ==
  /\ step = "request" /\ turns < MaxTurns
  /\ \E k \in 1..MaxBatch : \E asked \in [1..k -> Asks] :
       LET calls == [n \in 1..k |-> [id |-> CallId(n), ask |-> asked[n]]]
       IN /\ messages' = Append(messages,
                                [Message("assistant") EXCEPT !.calls = calls])
          /\ awaiting' = calls
  /\ turns' = turns + 1
  /\ step' = "batch"
  /\ UNCHANGED provider

\* A call is dispatched and its result, or its error, is appended.
Answer ==
  /\ step = "batch" /\ awaiting # <<>>
  /\ \E size \in ResultSizes :
       messages' = Append(messages,
                     [Message("tool") EXCEPT !.id = Head(awaiting).id,
                                             !.ask = Head(awaiting).ask,
                                             !.size = size])
  /\ awaiting' = Tail(awaiting)
  /\ step' = IF Len(awaiting) = 1 THEN "top" ELSE "batch"
  /\ UNCHANGED <<provider, turns>>

\* The reply calls no tool: the work is verified.
Concludes ==
  /\ step = "request" /\ turns < MaxTurns
  /\ messages' = Append(messages, Message("assistant"))
  /\ turns' = turns + 1
  /\ step' = "final"
  /\ UNCHANGED <<provider, awaiting>>

\* The gate fails and the failure is fed back.
Repairs ==
  /\ step = "final"
  /\ messages' = Append(messages, Message("user"))
  /\ step' = "top"
  /\ UNCHANGED <<provider, awaiting, turns>>

\* The run ends: cancelled, escalated, an error, or its work accepted.  A run
\* that is paused and resumed takes its messages up unchanged at the top.
RunEnds ==
  /\ step # "ended"
  /\ step' = "ended"
  /\ UNCHANGED <<provider, messages, awaiting, turns>>

TranscriptNext ==
  Ask \/ Reply \/ Answer \/ Concludes \/ Repairs \/ RunEnds

TranscriptSpec == TranscriptInit /\ [][TranscriptNext]_transcriptVars

(***************************************************************************)
(* Properties.                                                             *)
(***************************************************************************)
\* The variables have their types.
TranscriptTypeOK ==
  /\ provider \in Providers
  /\ \A m \in Range(messages) : /\ m.role \in {"system", "user", "assistant", "tool"}
                                /\ m.size \in Nat /\ m.pruned \in BOOLEAN
  /\ turns \in 0..MaxTurns
  /\ step \in {"top", "request", "batch", "final", "ended"}

\* Every request is one a provider accepts and a model can work with: it starts
\* with the system prompt and the task, each reply is followed by the results
\* of exactly its calls, in their order, and no other result is left.
RequestIsWellFormed ==
  step = "request" =>
    /\ messages[1].role = "system" /\ messages[2].role = "user"
    /\ \A i \in DOMAIN messages :
         LET n == Len(messages[i].calls)
         IN /\ i + n <= Len(messages)
            /\ \A k \in 1..n : /\ messages[i + k].role = "tool"
                               /\ messages[i + k].id = messages[i].calls[k].id
            /\ messages[i].role = "tool" =>
                 \E j \in 1..(i - 1) : i - j <= Len(messages[j].calls)

-----------------------------------------------------------------------------
\* "this call was made again later in this conversation with identical
\* arguments, and that newer result is still in context" (the placeholder of
\* tool-result-pruning.ts): a pruned result has a later one of the same call.
PrunedWasAskedAgain ==
  \A i \in DOMAIN messages : messages[i].pruned =>
    \E j \in DOMAIN messages : /\ j > i /\ ~messages[j].pruned
                               /\ messages[j].role = "tool"
                               /\ messages[j].ask = messages[i].ask
=============================================================================

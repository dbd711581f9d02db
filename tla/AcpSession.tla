----------------------------- MODULE AcpSession -----------------------------
(***************************************************************************)
(* One session of the ACP server (packages/acp/src/agent-methods.ts and    *)
(* updates.ts): prompts, each of which is a run of the agent streamed to   *)
(* the editor, and cancellations, which come at any time and name only the *)
(* session.  The editor may send a prompt while another is in flight.      *)
(***************************************************************************)
EXTENDS Naturals, Sequences

CONSTANTS
  Prompts,    \* the prompts of the session
  MaxCalls,   \* bound: tool calls of one run
  NoPrompt

ASSUME AcpAssumption == MaxCalls \in Nat /\ NoPrompt \notin Prompts

VARIABLES
  controller,       \* the prompt whose AbortController the session holds
  cancelRequested,
  lastRunId,        \* the run the extension methods mean by default
  turn,             \* the run of each prompt, and the mapper made for it
  shown,            \* what the editor shows of each prompt's tool calls
  cancelled,        \* history: prompts a cancellation came for, in flight
  crowded           \* history: prompts that were in flight with another

acpVars == <<controller, cancelRequested, lastRunId, turn, shown, cancelled, crowded>>

NotBegun == [at |-> "none", aborted |-> FALSE, calls |-> 0, pendingToolCalls |-> <<>>,
             calling |-> 0, stopReason |-> "none"]

AcpInit ==
  /\ controller = NoPrompt /\ cancelRequested = FALSE /\ lastRunId = NoPrompt
  /\ turn = [p \in Prompts |-> NotBegun]
  /\ shown = [p \in Prompts |-> <<>>]
  /\ cancelled = {} /\ crowded = {}

InFlight == {p \in Prompts : turn[p].at = "running"}

-----------------------------------------------------------------------------
(* The session's handlers *)

\* Mutant: a cancellation is remembered into the next prompt.
PromptRemembers(p) ==
  /\ turn[p].at = "none"
  /\ controller' = p
  /\ turn' = [turn EXCEPT ![p].at = "running", ![p].aborted = cancelRequested]
  /\ crowded' = IF InFlight = {} THEN crowded ELSE crowded \cup InFlight \cup {p}
  /\ UNCHANGED <<cancelRequested, lastRunId, shown, cancelled>>

Prompt(p) ==                    \* session/prompt, up to its await
  /\ turn[p].at = "none"
  /\ cancelRequested' = FALSE
  /\ controller' = p
  /\ turn' = [turn EXCEPT ![p].at = "running"]
  /\ crowded' = IF InFlight = {} THEN crowded ELSE crowded \cup InFlight \cup {p}
  /\ UNCHANGED <<lastRunId, shown, cancelled>>

\* Mutant: it is noted and the run is not told.
CancelNoted ==
  /\ cancelRequested' = TRUE
  /\ cancelled' = cancelled \cup InFlight
  /\ UNCHANGED <<controller, lastRunId, turn, shown, crowded>>

CancelPrompt ==                 \* session/cancel
  /\ cancelRequested' = TRUE
  /\ turn' = IF controller = NoPrompt THEN turn ELSE [turn EXCEPT ![controller].aborted = TRUE]
  /\ cancelled' = cancelled \cup InFlight
  /\ UNCHANGED <<controller, lastRunId, shown, crowded>>

\* The run ends or throws: `finally` drops whatever controller is there.
Settle(p, stopReason) ==
  /\ turn[p].at = "running"
  /\ turn' = [turn EXCEPT ![p].at = "settled", ![p].stopReason = stopReason]
  /\ controller' = NoPrompt
  /\ lastRunId' = IF stopReason = "error" THEN lastRunId ELSE p
  /\ UNCHANGED <<cancelRequested, shown, cancelled, crowded>>

EndsTurn(p) == Settle(p, "end_turn")
Throws(p) == Settle(p, "error")
EndsCancelled(p) == turn[p].aborted /\ Settle(p, "cancelled")

-----------------------------------------------------------------------------
(* The run, as far as the editor sees it: one tool call at a time, and the *)
(* updates createSessionUpdateMapper makes of it, whose events name no call. *)

\* Mutant: a call does not wait for the result of the one before.
ToolCallOverlaps(p) ==
  /\ turn[p].at = "running" /\ turn[p].calls < MaxCalls
  /\ LET id == turn[p].calls + 1 IN
     /\ turn' = [turn EXCEPT ![p].calls = id, ![p].calling = id,
                             ![p].pendingToolCalls = Append(@, id)]
     /\ shown' = [shown EXCEPT ![p] = Append(@, [call |-> id, result |-> 0])]
  /\ UNCHANGED <<controller, cancelRequested, lastRunId, cancelled, crowded>>

ToolCall(p) ==
  /\ turn[p].at = "running" /\ turn[p].calling = 0 /\ turn[p].calls < MaxCalls
  /\ LET id == turn[p].calls + 1 IN
     /\ turn' = [turn EXCEPT ![p].calls = id, ![p].calling = id,
                             ![p].pendingToolCalls = Append(@, id)]
     /\ shown' = [shown EXCEPT ![p] = Append(@, [call |-> id, result |-> 0])]
  /\ UNCHANGED <<controller, cancelRequested, lastRunId, cancelled, crowded>>

ToolResult(p) ==
  /\ turn[p].at = "running" /\ turn[p].calling # 0
  /\ turn' = [turn EXCEPT ![p].calling = 0, ![p].pendingToolCalls = Tail(@)]
  /\ LET id == Head(turn[p].pendingToolCalls) IN
     shown' = [shown EXCEPT ![p] = [i \in DOMAIN @ |->
                 IF @[i].call = id THEN [@[i] EXCEPT !.result = turn[p].calling] ELSE @[i]]]
  /\ UNCHANGED <<controller, cancelRequested, lastRunId, cancelled, crowded>>

AcpNext ==
  \/ CancelPrompt
  \/ \E p \in Prompts :
       Prompt(p) \/ EndsTurn(p) \/ Throws(p) \/ EndsCancelled(p) \/ ToolCall(p) \/ ToolResult(p)

\* A loop that was aborted looks at its signal before every step; nothing
\* says that one that was not ever ends.
AcpFairness == \A p \in Prompts : WF_acpVars(EndsCancelled(p))

AcpSpec == AcpInit /\ [][AcpNext]_acpVars /\ AcpFairness

-----------------------------------------------------------------------------
(* Properties *)

AcpTypeOK ==
  /\ {controller, lastRunId} \subseteq Prompts \cup {NoPrompt}
  /\ cancelRequested \in BOOLEAN
  /\ turn \in [Prompts -> [at : {"none", "running", "settled"}, aborted : BOOLEAN,
                           calls : 0..MaxCalls, calling : 0..MaxCalls,
                           pendingToolCalls : UNION {[1..n -> 1..MaxCalls] : n \in 0..1},
                           stopReason : {"none", "end_turn", "cancelled", "error"}]]
  /\ cancelled \subseteq Prompts /\ crowded \subseteq Prompts

\* A prompt that answers "cancelled" is one a cancellation came for while it
\* was in flight: one sent between two turns, or for the turn before, never
\* stops the next (agent-methods.ts:253-255, 274-281).
OnlyTheCancelledStop ==
  \A p \in Prompts : turn[p].stopReason = "cancelled" => p \in cancelled

\* A cancellation preempts the run in flight, whatever the run is doing
\* (agent-methods.ts:199-210), when no second prompt was sent meanwhile.
CancelPreempts ==
  \A p \in Prompts :
    (p \in cancelled /\ p \notin crowded) ~> (turn[p].at = "settled" \/ p \in crowded)
=============================================================================

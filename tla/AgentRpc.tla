------------------------------ MODULE AgentRpc ------------------------------
(***************************************************************************)
(* The Agent API over a pair of pipes (packages/agent-rpc): Content-Length *)
(* frames that a pipe cuts wherever it likes, a server that answers in the *)
(* order its handlers finish and tells events of a run meanwhile, and a    *)
(* client that matches answers to requests by id.  The same server serves  *)
(* `clutchcode serve`; the same client is the VS Code extension's.         *)
(*                                                                         *)
(* A frame is two pieces, its header and its body; a push hands the        *)
(* decoder any number of the pieces in the pipe.                           *)
(***************************************************************************)
EXTENDS Integers, Sequences, SequencesExt

CONSTANTS
  MaxId,       \* bound: requests of the client
  MaxEvents,   \* bound: events of one run
  Runs         \* the requests, by id, that are `run`: these make events

ASSUME RpcAssumption == MaxId \in Nat /\ MaxEvents \in Nat /\ Runs \subseteq 1..MaxId

VARIABLES
  nextId,      \* client: the id of its next request
  pendingIds,  \* client: requests that wait for an answer
  outcome,     \* client: how each request's promise was settled
  heard,       \* client: how many events of each run it was told of
  isOpen,      \* client: not closed
  toServer, toClient,     \* the pipes
  serverBuffer, clientBuffer,
  handling,    \* server: what each request's handler is doing
  told,        \* server: events of each run it sent
  serverUp     \* the server's process lives

rpcVars == <<nextId, pendingIds, outcome, heard, isOpen, toServer, toClient,
             serverBuffer, clientBuffer, handling, told, serverUp>>

Ids == 1..MaxId
Unsettled == [how |-> "none"]

RpcInit ==
  /\ nextId = 1 /\ pendingIds = {} /\ isOpen = TRUE /\ serverUp = TRUE
  /\ outcome = [i \in Ids |-> Unsettled]
  /\ heard = [i \in Ids |-> 0] /\ told = [i \in Ids |-> 0]
  /\ toServer = <<>> /\ toClient = <<>> /\ serverBuffer = <<>> /\ clientBuffer = <<>>
  /\ handling = [i \in Ids |-> "none"]

-----------------------------------------------------------------------------
(* Framing *)

EncodeFrame(message) == <<[piece |-> "header"], [piece |-> "body", of |-> message]>>

\* FrameDecoder.push: every whole frame is taken off the front, in order.
Whole(buffer) == Len(buffer) \div 2
Messages(buffer) == [k \in 1..Whole(buffer) |-> buffer[2 * k].of]
Remainder(buffer) == SubSeq(buffer, 2 * Whole(buffer) + 1, Len(buffer))

-----------------------------------------------------------------------------
(* The client *)

ServerSide == UNCHANGED <<serverBuffer, handling, told, serverUp>>
ClientSide == UNCHANGED <<nextId, pendingIds, outcome, heard, isOpen, clientBuffer>>

Request ==
  /\ nextId <= MaxId
  /\ nextId' = nextId + 1
  /\ pendingIds' = pendingIds \cup {nextId}
  /\ toServer' = toServer \o EncodeFrame([id |-> nextId])
  /\ UNCHANGED <<outcome, heard, isOpen, toClient, clientBuffer>> /\ ServerSide

\* What a client does with one message: a response settles the request that
\* waits for it and is ignored if none does, a notification is handed on.
Deliver(c, m) ==
  CASE m.kind = "response" /\ m.id \in c.pendingIds ->
         [c EXCEPT !.pendingIds = @ \ {m.id}, !.outcome[m.id] = [how |-> m.how, of |-> m.of]]
    [] m.kind = "event" -> [c EXCEPT !.heard[m.id] = @ + 1]
    [] OTHER -> c

DeliverAll(c, ms) == FoldLeft(Deliver, c, ms)

ClientReceives ==
  /\ isOpen
  /\ \E n \in 1..Len(toClient) :
       LET buffer == clientBuffer \o SubSeq(toClient, 1, n)
           c == DeliverAll([pendingIds |-> pendingIds, outcome |-> outcome,
                            heard |-> heard], Messages(buffer)) IN
       /\ toClient' = SubSeq(toClient, n + 1, Len(toClient))
       /\ clientBuffer' = Remainder(buffer)
       /\ pendingIds' = c.pendingIds /\ outcome' = c.outcome /\ heard' = c.heard
  /\ UNCHANGED <<nextId, isOpen, toServer>> /\ ServerSide

\* close: it listens no more, and rejects what is still pending.
ClientCloses ==
  /\ isOpen
  /\ isOpen' = FALSE
  /\ outcome' = [i \in Ids |-> IF i \in pendingIds THEN [how |-> "closed"] ELSE outcome[i]]
  /\ pendingIds' = {}
  /\ UNCHANGED <<nextId, heard, toServer, toClient, clientBuffer>> /\ ServerSide

-----------------------------------------------------------------------------
(* The server: a dispatch is not awaited, so handlers overlap. *)

ServerReceives ==
  /\ serverUp
  /\ \E n \in 1..Len(toServer) :
       LET buffer == serverBuffer \o SubSeq(toServer, 1, n)
           asked == {m.id : m \in ToSet(Messages(buffer))} IN
       /\ toServer' = SubSeq(toServer, n + 1, Len(toServer))
       /\ serverBuffer' = Remainder(buffer)
       /\ handling' = [i \in Ids |-> IF i \in asked THEN "running" ELSE handling[i]]
  /\ UNCHANGED <<toClient, told, serverUp>> /\ ClientSide

\* Mutant: events are sent when there is time.
SendEventLate(i) ==
  /\ serverUp /\ i \in Runs /\ handling[i] # "none" /\ told[i] < MaxEvents
  /\ told' = [told EXCEPT ![i] = @ + 1]
  /\ toClient' = toClient \o EncodeFrame([kind |-> "event", id |-> i])
  /\ UNCHANGED <<toServer, serverBuffer, handling, serverUp>> /\ ClientSide

SendEvent(i) ==                 \* onRuntimeEvent
  /\ serverUp /\ i \in Runs /\ handling[i] = "running" /\ told[i] < MaxEvents
  /\ told' = [told EXCEPT ![i] = @ + 1]
  /\ toClient' = toClient \o EncodeFrame([kind |-> "event", id |-> i])
  /\ UNCHANGED <<toServer, serverBuffer, handling, serverUp>> /\ ClientSide

\* Mutant: a handler that throws is not answered.
RespondUnlessThrown(i) ==
  /\ serverUp /\ handling[i] = "running"
  /\ handling' = [handling EXCEPT ![i] = "done"]
  /\ \/ toClient' = toClient \o EncodeFrame([kind |-> "response", id |-> i,
                                            how |-> "result", of |-> i])
     \/ UNCHANGED toClient
  /\ UNCHANGED <<toServer, serverBuffer, told, serverUp>> /\ ClientSide

\* The handler returns or throws, or there is none of that name: the answer
\* carries the request's id.  `of` is whose result it is.
Respond(i) ==
  /\ serverUp /\ handling[i] = "running"
  /\ handling' = [handling EXCEPT ![i] = "done"]
  /\ \E how \in {"result", "error"} :
       toClient' = toClient \o EncodeFrame([kind |-> "response", id |-> i, how |-> how, of |-> i])
  /\ UNCHANGED <<toServer, serverBuffer, told, serverUp>> /\ ClientSide

\* The process ends; what it wrote is still read.
ServerExits ==
  /\ serverUp
  /\ serverUp' = FALSE
  /\ UNCHANGED <<toServer, toClient, serverBuffer, handling, told>> /\ ClientSide

RpcNext ==
  \/ Request \/ ClientReceives \/ ClientCloses \/ ServerReceives \/ ServerExits
  \/ \E i \in Ids : SendEvent(i) \/ Respond(i)

\* A pipe delivers, and a handler ends: Agent's methods return (AgentLoop).
RpcFairness ==
  /\ WF_rpcVars(ClientReceives) /\ WF_rpcVars(ServerReceives)
  /\ \A i \in Ids : WF_rpcVars(Respond(i))

RpcSpec == RpcInit /\ [][RpcNext]_rpcVars /\ RpcFairness

-----------------------------------------------------------------------------
(* Properties *)

RpcTypeOK ==
  /\ nextId \in 1..(MaxId + 1) /\ pendingIds \subseteq Ids
  /\ isOpen \in BOOLEAN /\ serverUp \in BOOLEAN
  /\ \A i \in Ids : /\ outcome[i].how \in {"none", "result", "error", "closed"}
                    /\ heard[i] \in 0..MaxEvents /\ told[i] \in 0..MaxEvents
                    /\ handling[i] \in {"none", "running", "done"}

\* When the client is told a run is over it has been told everything that
\* happened in it (server.ts:28-41).
EventsBeforeAnswer ==
  \A i \in Runs : outcome[i].how \in {"result", "error"} => heard[i] = told[i]

\* Every request of an open client is answered, or rejected by its closing,
\* unless the server dies first: then nothing ever settles it.
EveryRequestSettles ==
  \A i \in Ids : (i \in pendingIds /\ isOpen) ~> (outcome[i] # Unsettled \/ ~serverUp)
=============================================================================

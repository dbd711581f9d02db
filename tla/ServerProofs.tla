----------------------------- MODULE ServerProofs -----------------------------
(***************************************************************************)
(* Proofs about what surrounds a run in a server process: the shell        *)
(* command it starts, for any set of processes it forks, the ACP session   *)
(* that prompts it, for any prompts, and the pipes its answers go through, *)
(* for any requests and any way of cutting what is sent.                   *)
(***************************************************************************)
EXTENDS MCServer, FiniteSetTheorems, SequenceTheorems,
        WellFoundedInduction, TLAPS

-----------------------------------------------------------------------------
(* The shell command. *)

\* The escalation waits for the timeout, and what a member of the group forks
\* is in the group: so once it has fired there is nobody left to join it.
ShellInv ==
  /\ ShellTypeOK
  /\ killTimer # "unset" => timer = "fired"
  /\ TimeoutKillsTheGroup

LEMMA ShellStart == ShellInit => ShellInv
  BY DEF ShellInit, ShellInv, ShellTypeOK, TimeoutKillsTheGroup, Group

LEMMA ShellStep == ShellInv /\ [ShellNext]_shellVars => ShellInv'
<1> SUFFICES ASSUME ShellInv, [ShellNext]_shellVars PROVE ShellInv'
  OBVIOUS
<1> USE ShellAssumption DEF ShellInv, ShellTypeOK, TimeoutKillsTheGroup, Group
<1>1. CASE Refuses
  BY <1>1 DEF Refuses
<1>2. CASE Spawns
  BY <1>2 DEF Spawns
<1>3. CASE SpawnFails
  BY <1>3 DEF SpawnFails
<1>4. CASE TimesOut
  BY <1>4 DEF TimesOut, SendsTerm, KillGroup
<1>5. CASE Escalates
  BY <1>5 DEF Escalates, SendsKill, KillGroup
<1>6. CASE Aborts
  BY <1>6 DEF Aborts, SendsTerm, KillGroup
<1>7. CASE Closes
  BY <1>7 DEF Closes
<1>8. ASSUME NEW m \in Members, Forks(m) PROVE ShellInv'
  <2>1. PICK parent \in alive : escaped' = IF parent \in escaped THEN escaped \cup {m}
                                                              ELSE escaped \ {m}
    BY <1>8 DEF Forks
  <2>2. killTimer = "fired" => parent \in escaped
    OBVIOUS
  <2>3. QED
    BY <1>8, <2>1, <2>2 DEF Forks, Commanded
<1>9. ASSUME NEW m \in Members, Redirects(m) \/ Leaves(m) \/ Exits(m) PROVE ShellInv'
  BY <1>9 DEF Redirects, Leaves, Exits, Commanded
<1>10. CASE UNCHANGED shellVars
  BY <1>10 DEF shellVars
<1>11. QED
  BY <1>1, <1>2, <1>3, <1>4, <1>5, <1>6, <1>7, <1>8, <1>9, <1>10 DEF ShellNext

\* Once the timeout has escalated, nothing of the command is left in its
\* group, whatever it forked and whatever it ignores (shell.ts:132-141).
THEOREM TimedOutGroupsAreGone == ShellSpec => []TimeoutKillsTheGroup
<1>1. ShellInv => TimeoutKillsTheGroup
  BY DEF ShellInv
<1>2. QED
  BY ShellStart, ShellStep, <1>1, PTL DEF ShellSpec

-----------------------------------------------------------------------------
(* The session. *)

\* The controller a session holds is that of a prompt in flight, so an abort
\* only ever reaches a prompt the cancellation came for; one tool call is
\* under way at a time.
AcpInv ==
  /\ AcpTypeOK
  /\ controller # NoPrompt => turn[controller].at = "running"
  /\ \A p \in Prompts :
       /\ turn[p].aborted \/ turn[p].stopReason = "cancelled" => p \in cancelled
       /\ turn[p].pendingToolCalls =
            IF turn[p].calling = 0 THEN <<>> ELSE <<turn[p].calling>>

PendingCalls == UNION {[1..n -> 1..MaxCalls] : n \in 0..1}
Turns == [at : {"none", "running", "settled"}, aborted : BOOLEAN,
          calls : 0..MaxCalls, calling : 0..MaxCalls, pendingToolCalls : PendingCalls,
          stopReason : {"none", "end_turn", "cancelled", "error"}]

\* What a prompt's mapper may remember.
LEMMA PendingKinds ==
  /\ <<>> \in PendingCalls
  /\ \A id \in 1..MaxCalls : <<id>> \in PendingCalls
<1>1. <<>> \in [1..0 -> 1..MaxCalls]
  OBVIOUS
<1>2. \A id \in 1..MaxCalls : <<id>> \in [1..1 -> 1..MaxCalls]
  OBVIOUS
<1>3. QED
  BY <1>1, <1>2 DEF PendingCalls

\* AcpTypeOK's statement about the turns, with names.
LEMMA TurnsAreTyped ==
  AcpTypeOK <=> /\ {controller, lastRunId} \subseteq Prompts \cup {NoPrompt}
                /\ cancelRequested \in BOOLEAN
                /\ turn \in [Prompts -> Turns]
                /\ cancelled \subseteq Prompts /\ crowded \subseteq Prompts
  BY DEF AcpTypeOK, Turns, PendingCalls

\* What a tool call or its result makes of a turn.
LEMMA CallingKeepsType ==
  ASSUME NEW t \in Turns, NEW n \in 0..MaxCalls, NEW id \in 0..MaxCalls,
         NEW pending \in PendingCalls
  PROVE  [t EXCEPT !.calls = n, !.calling = id, !.pendingToolCalls = pending] \in Turns
  BY DEF Turns

LEMMA AcpStart == AcpInit => AcpInv
<1> SUFFICES ASSUME AcpInit PROVE AcpInv
  OBVIOUS
<1>1. NotBegun \in Turns
  BY PendingKinds, AcpAssumption DEF NotBegun, Turns
<1>2. turn \in [Prompts -> Turns]
  BY <1>1 DEF AcpInit
<1>3. AcpTypeOK
  BY <1>2, TurnsAreTyped DEF AcpInit
<1>4. QED
  BY <1>3 DEF AcpInit, AcpInv, NotBegun

LEMMA AcpStep == AcpInv /\ [AcpNext]_acpVars => AcpInv'
<1> SUFFICES ASSUME AcpInv, [AcpNext]_acpVars PROVE AcpInv'
  OBVIOUS
<1>t. turn \in [Prompts -> Turns]
  BY TurnsAreTyped DEF AcpInv
<1>i. ASSUME turn' \in [Prompts -> Turns],
             {controller', lastRunId'} \subseteq Prompts \cup {NoPrompt},
             cancelRequested' \in BOOLEAN,
             cancelled' \subseteq Prompts, crowded' \subseteq Prompts
      PROVE  AcpTypeOK'
  BY <1>i DEF AcpTypeOK, Turns, PendingCalls
<1> USE AcpAssumption DEF InFlight
<1>1. ASSUME NEW p \in Prompts, Prompt(p) PROVE AcpInv'
  <2>1. turn' \in [Prompts -> Turns]
    BY <1>t, <1>1 DEF Prompt, Turns
  <2>2. AcpTypeOK'
    BY <1>1, <1>i, <2>1 DEF Prompt, AcpInv, AcpTypeOK
  <2>3. QED
    BY <1>1, <1>t, <2>1, <2>2 DEF Prompt, AcpInv, AcpTypeOK, Turns
<1>2. CASE CancelPrompt
  <2>1. turn' \in [Prompts -> Turns]
    BY <1>t, <1>2 DEF CancelPrompt, Turns
  <2>2. AcpTypeOK'
    BY <1>2, <1>i, <2>1 DEF CancelPrompt, AcpInv, AcpTypeOK
  <2>3. controller # NoPrompt => controller \in Prompts /\ controller \in cancelled'
    BY <1>2 DEF CancelPrompt, AcpInv, AcpTypeOK
  <2>4. QED
    BY <1>2, <1>t, <2>1, <2>2, <2>3 DEF CancelPrompt, AcpInv, Turns
<1>3. ASSUME NEW p \in Prompts, EndsTurn(p) \/ Throws(p) \/ EndsCancelled(p) PROVE AcpInv'
  <2>1. PICK reason \in {"end_turn", "error", "cancelled"} :
          Settle(p, reason) /\ (reason = "cancelled" => turn[p].aborted)
    BY <1>3 DEF EndsTurn, Throws, EndsCancelled
  <2> DEFINE settled == [turn[p] EXCEPT !.at = "settled", !.stopReason = reason]
  <2>s. turn' = [turn EXCEPT ![p] = settled]
    BY <1>t, <2>1 DEF Settle
  <2>i. settled \in Turns
    BY <1>t DEF Turns
  <2>2. turn' \in [Prompts -> Turns]
    BY <1>t, <2>s, <2>i
  <2>3. AcpTypeOK'
    BY <1>i, <2>1, <2>2 DEF Settle, AcpInv, AcpTypeOK
  <2>4. QED
    BY <1>t, <2>1, <2>2, <2>3 DEF Settle, AcpInv, Turns
<1>4. ASSUME NEW p \in Prompts, ToolCall(p) PROVE AcpInv'
  <2> DEFINE id == turn[p].calls + 1
  <2>1. id \in 1..MaxCalls /\ id \in 0..MaxCalls /\ id # 0 /\ turn[p] \in Turns
    BY <1>t, <1>4 DEF ToolCall, Turns
  <2>2. turn[p].pendingToolCalls = <<>>
    BY <1>4 DEF ToolCall, AcpInv
  <2>3. turn' = [turn EXCEPT ![p] = [turn[p] EXCEPT !.calls = id, !.calling = id,
                                                    !.pendingToolCalls = <<id>>]]
    BY <1>t, <1>4, <2>2 DEF ToolCall, Turns
  <2>4. turn' \in [Prompts -> Turns]
    BY <1>t, <2>1, <2>3, PendingKinds, CallingKeepsType
  <2>5. AcpTypeOK'
    BY <1>4, <1>i, <2>4 DEF ToolCall, AcpInv, AcpTypeOK
  <2> HIDE DEF id
  <2>6. /\ turn'[p].calling = id /\ turn'[p].pendingToolCalls = <<id>>
        /\ turn'[p].at = turn[p].at /\ turn'[p].aborted = turn[p].aborted
        /\ turn'[p].stopReason = turn[p].stopReason
        /\ \A q \in Prompts \ {p} : turn'[q] = turn[q]
    BY <1>t, <2>1, <2>3 DEF Turns
  <2>7. UNCHANGED <<controller, cancelled>>
    BY <1>4 DEF ToolCall
  <2>8. controller # NoPrompt => controller \in Prompts
    BY DEF AcpInv, AcpTypeOK
  <2>9. QED
    BY <2>1, <2>5, <2>6, <2>7, <2>8 DEF AcpInv
<1>5. ASSUME NEW p \in Prompts, ToolResult(p) PROVE AcpInv'
  <2>1. turn[p].pendingToolCalls = <<turn[p].calling>>
    BY <1>5 DEF ToolResult, AcpInv
  <2>2. Tail(turn[p].pendingToolCalls) = <<>>
    BY <2>1
  <2>3. turn' = [turn EXCEPT ![p] = [turn[p] EXCEPT !.calls = turn[p].calls, !.calling = 0,
                                                    !.pendingToolCalls = <<>>]]
    BY <1>t, <1>5, <2>2 DEF ToolResult, Turns
  <2>4. turn[p] \in Turns /\ turn[p].calls \in 0..MaxCalls /\ 0 \in 0..MaxCalls
    BY <1>t DEF Turns
  <2>5. turn' \in [Prompts -> Turns]
    BY <1>t, <2>3, <2>4, PendingKinds, CallingKeepsType
  <2>6. AcpTypeOK'
    BY <1>5, <1>i, <2>5 DEF ToolResult, AcpInv, AcpTypeOK
  <2>7. /\ turn'[p].calling = 0 /\ turn'[p].pendingToolCalls = <<>>
        /\ turn'[p].at = turn[p].at /\ turn'[p].aborted = turn[p].aborted
        /\ turn'[p].stopReason = turn[p].stopReason
        /\ \A q \in Prompts \ {p} : turn'[q] = turn[q]
    BY <1>t, <2>3 DEF Turns
  <2>8. UNCHANGED <<controller, cancelled>>
    BY <1>5 DEF ToolResult
  <2>9. controller # NoPrompt => controller \in Prompts
    BY DEF AcpInv, AcpTypeOK
  <2>10. QED
    BY <2>6, <2>7, <2>8, <2>9 DEF AcpInv
<1>6. CASE UNCHANGED acpVars
  BY <1>6 DEF acpVars, AcpInv, AcpTypeOK
<1>7. QED
  BY <1>1, <1>2, <1>3, <1>4, <1>5, <1>6 DEF AcpNext

\* A cancellation never stops a prompt it did not come for, neither the next
\* one of the session nor one that overlaps (agent-methods.ts:253-255).
THEOREM OnlyCancelledPromptsStop == AcpSpec => []OnlyTheCancelledStop
<1>1. AcpInv => OnlyTheCancelledStop
  BY DEF AcpInv, OnlyTheCancelledStop
<1>2. QED
  BY AcpStart, AcpStep, <1>1, PTL DEF AcpSpec

-----------------------------------------------------------------------------
(* The pipes of agent-rpc: the frames, the order of the messages in them, and *)
(* how many events of a run are still on their way.                            *)

Bodies(M) == [piece : {"body"}, of : M]
Pieces(M) == {[piece |-> "header"]} \cup Bodies(M)

\* Whole frames, one after the other.
IsStream(s, M) ==
  /\ s \in Seq(Pieces(M))
  /\ Len(s) = 2 * Whole(s)
  /\ \A k \in 1..Whole(s) : s[2 * k] \in Bodies(M)

Asks == [id : Ids]
Tells == [kind : {"event"}, id : Runs]
           \cup [kind : {"response"}, id : Ids, how : {"result", "error"}, of : Ids]
Outcomes == {Unsettled, [how |-> "closed"]} \cup [how : {"result", "error"}, of : Ids]

\* What is on its way to the server, and to the client.
Up == Messages(serverBuffer \o toServer)
Down == Messages(clientBuffer \o toClient)

RpcTypes ==
  /\ nextId \in 1..(MaxId + 1) /\ pendingIds \in SUBSET Ids
  /\ outcome \in [Ids -> Outcomes]
  /\ heard \in [Ids -> Nat] /\ told \in [Ids -> Nat]
  /\ handling \in [Ids -> {"none", "running", "done"}]
  /\ serverBuffer \in Seq(Pieces(Asks)) /\ toServer \in Seq(Pieces(Asks))
  /\ clientBuffer \in Seq(Pieces(Tells)) /\ toClient \in Seq(Pieces(Tells))
  /\ IsStream(serverBuffer \o toServer, Asks)
  /\ IsStream(clientBuffer \o toClient, Tells)

\* A request is asked once, and its handler begins when it arrives.
AskedOnce(up) ==
  /\ \A k \in DOMAIN up : up[k].id < nextId /\ handling[up[k].id] = "none"
  /\ \A j, k \in DOMAIN up : up[j].id = up[k].id => j = k
  /\ \A i \in Ids : i >= nextId => handling[i] = "none"

IsEvent(m, i) == m.kind = "event" /\ m.id = i
\* The events of a run among the messages after the first k.
Later(q, i, k) == {j \in DOMAIN q : j > k /\ IsEvent(q[j], i)}

\* The events after the first k are those the client has still to hear, and no
\* run that was answered has any.
Agrees(q, k, heardOf, outcomeOf) ==
  \A i \in Ids :
    /\ heardOf[i] + Cardinality(Later(q, i, k)) = told[i]
    /\ outcomeOf[i].how \in {"result", "error"} =>
         handling[i] = "done" /\ Later(q, i, k) = {}

\* No event of a run comes after its answer.
AnswersComeLast(q) ==
  \A k \in DOMAIN q : q[k].kind = "response" =>
    handling[q[k].id] = "done" /\ Later(q, q[k].id, k) = {}

RpcInv == RpcTypes /\ AskedOnce(Up) /\ AnswersComeLast(Down) /\ Agrees(Down, 0, heard, outcome)

\* A frame more at the end of a stream is one message more.
LEMMA FrameAdded ==
  ASSUME NEW M, NEW s, IsStream(s, M), NEW m \in M
  PROVE  /\ EncodeFrame(m) \in Seq(Pieces(M))
         /\ IsStream(s \o EncodeFrame(m), M)
         /\ Whole(s) \in Nat /\ Whole(s \o EncodeFrame(m)) = Whole(s) + 1
         /\ DOMAIN Messages(s) = 1..Whole(s)
         /\ DOMAIN Messages(s \o EncodeFrame(m)) = 1..(Whole(s) + 1)
         /\ \A k \in 1..Whole(s) : Messages(s \o EncodeFrame(m))[k] = Messages(s)[k]
         /\ Messages(s \o EncodeFrame(m))[Whole(s) + 1] = m
<1> DEFINE e == EncodeFrame(m)
           h == [piece |-> "header"]
           b == [piece |-> "body", of |-> m]
           n == Whole(s)
<1>1. b \in Bodies(M) /\ h \in Pieces(M) /\ b \in Pieces(M) /\ b.of = m
  BY DEF Bodies, Pieces
<1>2. e = <<h, b>>
  BY DEF EncodeFrame
<1> HIDE DEF h, b
<1>3. e \in Seq(Pieces(M)) /\ Len(e) = 2 /\ e[1] = h /\ e[2] = b
  BY <1>1, <1>2
<1>4. s \in Seq(Pieces(M)) /\ Len(s) = 2 * n /\ \A k \in 1..n : s[2 * k] \in Bodies(M)
  BY DEF IsStream
<1>5. n \in Nat
  <2>1. Len(s) \in Nat
    BY <1>4
  <2> QED  BY <2>1 DEF Whole
<1> HIDE DEF n, e
<1>6. /\ s \o e \in Seq(Pieces(M)) /\ Len(s \o e) = Len(s) + Len(e)
      /\ \A i \in 1..Len(s) : (s \o e)[i] = s[i]
      /\ \A i \in 1..Len(e) : (s \o e)[Len(s) + i] = e[i]
  <2>1. s \in Seq(Pieces(M)) /\ e \in Seq(Pieces(M))
    BY <1>3, <1>4
  <2> QED  BY <2>1, ConcatProperties
<1>7. Len(s \o e) = 2 * (n + 1)
  BY <1>3, <1>4, <1>5, <1>6
<1>8. Whole(s \o e) = n + 1
  BY <1>5, <1>7 DEF Whole
<1>9. \A k \in 1..n : (s \o e)[2 * k] = s[2 * k]
  <2>1. \A k \in 1..n : 2 * k \in 1..Len(s)
    BY <1>4, <1>5
  <2> QED  BY <1>6, <2>1
<1>10. (s \o e)[2 * (n + 1)] = b
  <2>1. 2 * (n + 1) = Len(s) + 2 /\ 2 \in 1..Len(e)
    BY <1>3, <1>4, <1>5
  <2> QED  BY <1>3, <1>6, <2>1
<1>11. \A k \in 1..(n + 1) : k \in 1..n \/ k = n + 1
  BY <1>5
<1>12. IsStream(s \o e, M)
  <2>1. \A k \in 1..(n + 1) : (s \o e)[2 * k] \in Bodies(M)
    BY <1>1, <1>4, <1>9, <1>10, <1>11
  <2> QED  BY <1>6, <1>7, <1>8, <2>1 DEF IsStream
<1>13. Messages(s) = [k \in 1..n |-> s[2 * k].of]
  BY DEF Messages, n
<1>14. Messages(s \o e) = [k \in 1..(n + 1) |-> (s \o e)[2 * k].of]
  BY <1>8 DEF Messages
<1>15. Messages(s \o e)[n + 1] = m
  <2>1. n + 1 \in 1..(n + 1)
    BY <1>5
  <2>2. Messages(s \o e)[n + 1] = (s \o e)[2 * (n + 1)].of
    BY <1>14, <2>1
  <2> QED  BY <1>1, <1>10, <2>2
<1>16. \A k \in 1..n : Messages(s \o e)[k] = Messages(s)[k]
  <2> TAKE k \in 1..n
  <2>1. k \in 1..(n + 1)
    BY <1>5
  <2>2. Messages(s \o e)[k] = (s \o e)[2 * k].of
    BY <1>14, <2>1
  <2>3. Messages(s)[k] = s[2 * k].of
    BY <1>13
  <2> QED  BY <1>9, <2>2, <2>3
<1>17. DOMAIN Messages(s) = 1..n /\ DOMAIN Messages(s \o e) = 1..(n + 1)
  BY <1>13, <1>14
<1> QED  BY <1>3, <1>5, <1>8, <1>12, <1>15, <1>16, <1>17 DEF e, n

\* s is cut in two; q is of n messages, ms the first w of them, r the others.
Cuts(s, buffer, rest, P) ==
  /\ buffer \in Seq(P) /\ rest \in Seq(P)
  /\ Len(s) = Len(buffer) + Len(rest)
  /\ \A i \in 1..Len(buffer) : s[i] = buffer[i]
  /\ \A i \in 1..Len(rest) : s[Len(buffer) + i] = rest[i]
Heads(ms, q, n, w) ==
  /\ n \in Nat /\ w \in 0..n /\ DOMAIN q = 1..n
  /\ DOMAIN ms = 1..w /\ \A k \in 1..w : ms[k] = q[k]
Tails(r, q, n, w) ==
  /\ n \in Nat /\ w \in 0..n /\ DOMAIN q = 1..n
  /\ DOMAIN r = 1..(n - w) /\ \A k \in 1..(n - w) : r[k] = q[k + w]

\* A push takes the messages off the front, and what it leaves is whole frames
\* again with what is still in the pipe.
LEMMA FramesSplit ==
  ASSUME NEW M, NEW s, IsStream(s, M), NEW buffer, NEW rest, Cuts(s, buffer, rest, Pieces(M))
  PROVE  /\ rest \in Seq(Pieces(M)) /\ Remainder(buffer) \in Seq(Pieces(M))
         /\ IsStream(Remainder(buffer) \o rest, M)
         /\ Heads(Messages(buffer), Messages(s), Whole(s), Whole(buffer))
         /\ Tails(Messages(Remainder(buffer) \o rest), Messages(s), Whole(s), Whole(buffer))
<1> DEFINE w == Whole(buffer)
           v == Whole(s)
           keep == Remainder(buffer)
           r == keep \o rest
<1>0. /\ buffer \in Seq(Pieces(M)) /\ rest \in Seq(Pieces(M))
      /\ Len(s) = Len(buffer) + Len(rest)
      /\ \A i \in 1..Len(buffer) : s[i] = buffer[i]
      /\ \A i \in 1..Len(rest) : s[Len(buffer) + i] = rest[i]
  BY DEF Cuts
<1>1. Len(buffer) \in Nat /\ Len(rest) \in Nat
  BY <1>0
<1>2. w \in Nat /\ 2 * w <= Len(buffer)
  BY <1>1 DEF Whole
<1>3. v \in Nat /\ Len(s) = 2 * v /\ \A k \in 1..v : s[2 * k] \in Bodies(M)
  <2>1. Len(s) \in Nat
    BY <1>0, <1>1
  <2>2. v \in Nat
    BY <2>1 DEF Whole
  <2> QED  BY <2>2 DEF IsStream
<1>4. w \in 0..v
  BY <1>0, <1>1, <1>2, <1>3
<1>5. keep = SubSeq(buffer, 2 * w + 1, Len(buffer))
  BY DEF Remainder
<1> HIDE DEF w, v, keep
<1>6. /\ keep \in Seq(Pieces(M)) /\ Len(keep) = Len(buffer) - 2 * w
      /\ \A i \in 1..(Len(buffer) - 2 * w) : keep[i] = buffer[2 * w + i]
  <2> DEFINE x == 2 * w
             z == SubSeq(buffer, x + 1, Len(buffer))
  <2>1. x \in Nat /\ x <= Len(buffer)
    BY <1>2
  <2>2. keep = z
    BY <1>5
  <2> HIDE DEF x
  <2>3. x + 1 \in Int /\ Len(buffer) \in Int
        /\ \A i \in (x + 1)..Len(buffer) : buffer[i] \in Pieces(M)
    BY <1>0, <1>1, <2>1
  <2>4. /\ z \in Seq(Pieces(M))
        /\ Len(z) = IF x + 1 <= Len(buffer) THEN Len(buffer) - (x + 1) + 1 ELSE 0
        /\ \A i \in 1..(Len(buffer) - (x + 1) + 1) : z[i] = buffer[x + 1 + i - 1]
    BY <2>3, SubSeqProperties
  <2> HIDE DEF z
  <2>5. Len(z) = Len(buffer) - x
    BY <1>1, <2>1, <2>4
  <2>6. \A i \in 1..(Len(buffer) - x) : z[i] = buffer[x + i]
    BY <1>1, <2>1, <2>4
  <2> QED  BY <2>2, <2>4, <2>5, <2>6 DEF x
<1>7. /\ r \in Seq(Pieces(M)) /\ Len(r) = Len(keep) + Len(rest)
      /\ \A i \in 1..Len(keep) : r[i] = keep[i]
      /\ \A i \in 1..Len(rest) : r[Len(keep) + i] = rest[i]
  <2>1. keep \in Seq(Pieces(M))
    BY <1>6
  <2>2. rest \in Seq(Pieces(M))
    BY <1>0
  <2> QED  BY <2>1, <2>2, ConcatProperties
<1> HIDE DEF r
<1>8. Len(r) = 2 * (v - w)
  <2>1. Len(r) = (Len(buffer) - 2 * w) + Len(rest)
    BY <1>6, <1>7
  <2>2. Len(buffer) + Len(rest) = 2 * v
    BY <1>0, <1>3
  <2>3. Len(buffer) \in Int /\ Len(rest) \in Int /\ v \in Int /\ w \in Int
    BY <1>1, <1>2, <1>3
  <2>4. \A x, y, p, q \in Int : x + y = 2 * p => (x - 2 * q) + y = 2 * (p - q)
    OBVIOUS
  <2>5. (Len(buffer) - 2 * w) + Len(rest) = 2 * (v - w)
    BY <2>2, <2>3, <2>4
  <2> QED  BY <2>1, <2>5
<1>9. \A i \in 1..Len(r) : r[i] = s[2 * w + i]
  <2> TAKE i \in 1..Len(r)
  <2>0. Len(keep) \in Nat
    BY <1>1, <1>2, <1>6
  <2>1. CASE i \in 1..Len(keep)
    <3>1. 2 * w + i \in 1..Len(buffer) /\ i \in 1..(Len(buffer) - 2 * w)
      BY <1>1, <1>2, <1>6, <2>1
    <3> QED  BY <1>0, <1>6, <1>7, <2>1, <3>1
  <2>2. CASE i \notin 1..Len(keep)
    <3> DEFINE j == i - Len(keep)
    <3>1. j \in 1..Len(rest) /\ i = Len(keep) + j /\ 2 * w + i = Len(buffer) + j
      BY <1>1, <1>2, <1>6, <1>7, <2>0, <2>2
    <3> HIDE DEF j
    <3>2. r[i] = rest[j] /\ s[Len(buffer) + j] = rest[j]
      BY <1>0, <1>7, <3>1
    <3> QED  BY <3>1, <3>2
  <2> QED  BY <2>1, <2>2
<1>10. Whole(r) = v - w
  BY <1>3, <1>4, <1>8 DEF Whole
<1>11. \A k \in 1..(v - w) : r[2 * k] = s[2 * (k + w)] /\ k + w \in 1..v
  <2> TAKE k \in 1..(v - w)
  <2>1. 2 * k \in 1..Len(r) /\ 2 * w + 2 * k = 2 * (k + w) /\ k + w \in 1..v
    BY <1>3, <1>4, <1>8
  <2> QED  BY <1>9, <2>1
<1>12. IsStream(r, M)
  BY <1>3, <1>7, <1>8, <1>10, <1>11 DEF IsStream
<1>13. Messages(s) = [k \in 1..v |-> s[2 * k].of]
  BY DEF Messages, v
<1>14. Messages(buffer) = [k \in 1..w |-> buffer[2 * k].of]
  BY DEF Messages, w
<1>15. Messages(r) = [k \in 1..(v - w) |-> r[2 * k].of]
  BY <1>10 DEF Messages
<1>16. \A k \in 1..w : Messages(buffer)[k] = Messages(s)[k]
  <2> TAKE k \in 1..w
  <2>1. 2 * k \in 1..Len(buffer) /\ k \in 1..v
    BY <1>1, <1>2, <1>3, <1>4
  <2>2. buffer[2 * k] = s[2 * k]
    BY <1>0, <2>1
  <2>3. Messages(s)[k] = s[2 * k].of
    BY <1>13, <2>1
  <2>4. Messages(buffer)[k] = buffer[2 * k].of
    BY <1>14
  <2> QED  BY <2>2, <2>3, <2>4
<1>17. \A k \in 1..(v - w) : Messages(r)[k] = Messages(s)[k + w]
  BY <1>11, <1>13, <1>15
<1>18. /\ DOMAIN Messages(s) = 1..v /\ DOMAIN Messages(buffer) = 1..w
       /\ DOMAIN Messages(r) = 1..(v - w)
  BY <1>13, <1>14, <1>15
<1>19. Heads(Messages(buffer), Messages(s), v, w) /\ Tails(Messages(r), Messages(s), v, w)
  BY <1>3, <1>4, <1>16, <1>17, <1>18 DEF Heads, Tails
<1> QED  BY <1>0, <1>6, <1>12, <1>19 DEF w, v, keep, r

\* A read of the first n pieces of a pipe.
LEMMA PiecesRead ==
  ASSUME NEW P, NEW b \in Seq(P), NEW t \in Seq(P), NEW n \in 1..Len(t)
  PROVE  Cuts(b \o t, b \o SubSeq(t, 1, n), SubSeq(t, n + 1, Len(t)), P)
<1> DEFINE s == b \o t
           front == SubSeq(t, 1, n)
           whole == b \o front
           left == SubSeq(t, n + 1, Len(t))
<1>1. /\ Len(b) \in Nat /\ Len(t) \in Nat /\ n \in Nat /\ n <= Len(t) /\ n >= 1
  OBVIOUS
<1>2. /\ s \in Seq(P) /\ Len(s) = Len(b) + Len(t)
      /\ \A i \in 1..Len(b) : s[i] = b[i]
      /\ \A i \in 1..Len(t) : s[Len(b) + i] = t[i]
  BY ConcatProperties
<1>3. /\ front \in Seq(P) /\ Len(front) = n /\ \A i \in 1..n : front[i] = t[i]
  BY <1>1
<1>4. /\ left \in Seq(P) /\ Len(left) = Len(t) - n
      /\ \A i \in 1..(Len(t) - n) : left[i] = t[n + i]
  <2>1. left \in Seq(P)
    BY <1>1
  <2>2. Len(left) = Len(t) - n
    BY <1>1
  <2>3. \A i \in 1..(Len(t) - n) : left[i] = t[n + i]
    BY <1>1
  <2> QED  BY <2>1, <2>2, <2>3
<1> HIDE DEF front
<1>5. /\ whole \in Seq(P) /\ Len(whole) = Len(b) + n
      /\ \A i \in 1..Len(b) : whole[i] = b[i]
      /\ \A i \in 1..n : whole[Len(b) + i] = front[i]
  <2>1. front \in Seq(P) /\ Len(front) \in Nat
    BY <1>1, <1>3
  <2>2. /\ whole \in Seq(P) /\ Len(whole) = Len(b) + Len(front)
        /\ \A i \in 1..(Len(b) + Len(front)) :
             whole[i] = IF i <= Len(b) THEN b[i] ELSE front[i - Len(b)]
    BY <2>1, ConcatProperties
  <2> HIDE DEF whole
  <2>3. \A i \in 1..Len(b) : whole[i] = b[i]
    BY <1>1, <2>1, <2>2
  <2>4. \A i \in 1..n : whole[Len(b) + i] = front[i]
    <3> TAKE i \in 1..n
    <3>1. /\ Len(b) + i \in 1..(Len(b) + Len(front)) /\ ~ (Len(b) + i <= Len(b))
          /\ (Len(b) + i) - Len(b) = i
      BY <1>1, <1>3
    <3> QED  BY <2>2, <3>1
  <2> QED  BY <1>3, <2>2, <2>3, <2>4
<1> HIDE DEF s, whole, left
<1>6. Len(s) = Len(whole) + Len(left)
  BY <1>1, <1>2, <1>4, <1>5
<1>7. \A i \in 1..Len(whole) : s[i] = whole[i]
  <2> TAKE i \in 1..Len(whole)
  <2>1. CASE i \in 1..Len(b)
    BY <1>2, <1>5, <2>1
  <2>2. CASE i \notin 1..Len(b)
    <3> DEFINE j == i - Len(b)
    <3>1. j \in 1..n /\ j \in 1..Len(t) /\ i = Len(b) + j
      BY <1>1, <1>5, <2>2
    <3> HIDE DEF j
    <3>2. whole[Len(b) + j] = front[j] /\ front[j] = t[j] /\ s[Len(b) + j] = t[j]
      BY <1>2, <1>3, <1>5, <3>1
    <3> QED  BY <3>1, <3>2
  <2> QED  BY <2>1, <2>2
<1>8. \A i \in 1..Len(left) : s[Len(whole) + i] = left[i]
  <2> TAKE i \in 1..Len(left)
  <2>1. n + i \in 1..Len(t) /\ i \in 1..(Len(t) - n) /\ Len(whole) + i = Len(b) + (n + i)
    BY <1>1, <1>4, <1>5
  <2>2. s[Len(b) + (n + i)] = t[n + i]
    BY <1>2, <2>1
  <2> QED  BY <1>4, <2>1, <2>2
<1>9. Cuts(s, whole, left, P)
  BY <1>4, <1>5, <1>6, <1>7, <1>8 DEF Cuts
<1> QED  BY <1>9 DEF s, whole, left, front

-----------------------------------------------------------------------------
(* A fold over the messages, message by message.                             *)

\* A set of naturals has a least element.
LEMMA LeastOf ==
  ASSUME NEW T, T \subseteq Nat, T # {}
  PROVE  \E x \in T : \A y \in T : x <= y
<1> DEFINE R == OpToRel(<, Nat)
<1>1. \A x, y \in Nat : <<x, y>> \in R <=> x < y
  BY DEF OpToRel
<1>2. IsWellFoundedOn(R, Nat)
  BY NatLessThanWellFounded
<1> HIDE DEF R
<1>3. PICK x \in T : \A y \in T : ~ (<<y, x>> \in R)
  BY <1>2, WFMin
<1>4. ASSUME NEW y \in T  PROVE x <= y
  <2>1. x \in Nat /\ y \in Nat
    OBVIOUS
  <2>2. ~(y < x)
    BY <1>1, <1>3, <2>1, Zenon
  <2> QED  BY <2>1, <2>2
<1> QED  BY <1>4

\* What the fold makes of the messages with the numbers of a set.
Fold(h, c, ms, n) ==
  [s \in SUBSET (1..n) |-> IF s = {} THEN c ELSE Deliver(h[s \ {Max(s)}], ms[Max(s)])]

LEMMA LastIsMax ==
  ASSUME NEW n \in Nat, NEW s \in SUBSET (1..n), n \in s
  PROVE  Max(s) = n
<1>1. \A y \in s : n >= y
  OBVIOUS
<1>2. \A x \in s : x >= n => x = n
  OBVIOUS
<1> QED  BY <1>1, <1>2 DEF Max

\* The fold is defined for every number of messages.
LEMMA FoldExists ==
  ASSUME NEW c, NEW ms, NEW n \in Nat
  PROVE  \E h : h = Fold(h, c, ms, n)
<1> DEFINE Bad == {m \in Nat : ~ \E h : h = Fold(h, c, ms, m)}
<1>1. SUFFICES ASSUME Bad # {} PROVE FALSE
  OBVIOUS
<1>2. PICK m \in Bad : \A k \in Bad : m <= k
  BY <1>1, LeastOf
<1>3. m # 0
  <2> DEFINE h == [s \in SUBSET (1..0) |-> c]
  <2>1. \A s \in SUBSET (1..0) : s = {}
    OBVIOUS
  <2>2. h = Fold(h, c, ms, 0)
    BY <2>1 DEF Fold
  <2> QED  BY <2>2
<1>4. PICK g : g = Fold(g, c, ms, m - 1)
  <2>1. m - 1 \in Nat /\ ~(m <= m - 1)
    BY <1>3
  <2> QED  BY <1>2, <2>1
<1> DEFINE h == [s \in SUBSET (1..m) |->
                   IF m \in s THEN Deliver(g[s \ {m}], ms[m]) ELSE g[s]]
<1>5. ASSUME NEW s \in SUBSET (1..m)
      PROVE  h[s] = IF s = {} THEN c ELSE Deliver(h[s \ {Max(s)}], ms[Max(s)])
  <2>1. \A t \in SUBSET (1..(m - 1)) :
          /\ t \in SUBSET (1..m) /\ m \notin t
          /\ h[t] = g[t]
          /\ g[t] = IF t = {} THEN c ELSE Deliver(g[t \ {Max(t)}], ms[Max(t)])
    <3>1. \A t \in SUBSET (1..(m - 1)) : t \in SUBSET (1..m) /\ m \notin t
      BY <1>3
    <3> QED  BY <1>4, <3>1 DEF Fold
  <2>2. CASE m \in s
    <3>1. Max(s) = m
      BY <2>2, LastIsMax
    <3>2. s \ {m} \in SUBSET (1..(m - 1))
      BY <1>3
    <3>3. h[s] = Deliver(g[s \ {m}], ms[m]) /\ s # {}
      BY <2>2
    <3>4. h[s \ {m}] = g[s \ {m}]
      BY <2>1, <3>2
    <3> QED  BY <3>1, <3>3, <3>4
  <2>3. CASE m \notin s
    <3>1. s \in SUBSET (1..(m - 1))
      BY <1>3, <2>3
    <3>2. h[s] = IF s = {} THEN c ELSE Deliver(g[s \ {Max(s)}], ms[Max(s)])
      BY <2>1, <3>1
    <3>3. s \ {Max(s)} \in SUBSET (1..(m - 1))
      BY <3>1
    <3>4. h[s \ {Max(s)}] = g[s \ {Max(s)}]
      BY <2>1, <3>3
    <3> QED  BY <3>2, <3>4
  <2> QED  BY <2>2, <2>3
<1>6. h = Fold(h, c, ms, m)
  <2> DEFINE f == [s \in SUBSET (1..m) |->
                     IF s = {} THEN c ELSE Deliver(h[s \ {Max(s)}], ms[Max(s)])]
  <2>1. \A s \in SUBSET (1..m) : h[s] = f[s]
    BY <1>5
  <2>2. h = f
    BY <2>1
  <2> QED  BY <2>2 DEF Fold
<1> QED  BY <1>6

\* One message after another.
Unrolled(d, c, ms, n) ==
  /\ d[0] = c
  /\ \A k \in 1..n : d[k] = Deliver(d[k - 1], ms[k])
  /\ DeliverAll(c, ms) = d[n]

LEMMA DeliveredInOrder ==
  ASSUME NEW c, NEW n \in Nat, NEW ms, DOMAIN ms = 1..n
  PROVE  \E d : Unrolled(d, c, ms, n)
<1>1. PICK h : h = (CHOOSE g : g = Fold(g, c, ms, n)) /\ DeliverAll(c, ms) = h[1..n]
  BY DEF DeliverAll, FoldLeft, MapThenFoldSet, Fold
<1>2. h = Fold(h, c, ms, n)
  BY <1>1, FoldExists
<1> DEFINE d == [k \in 0..n |-> h[1..k]]
<1>3. d[0] = c
  <2>1. 1..0 = {} /\ 1..0 \in SUBSET (1..n)
    OBVIOUS
  <2> QED  BY <1>2, <2>1 DEF Fold
<1>4. ASSUME NEW k \in 1..n  PROVE d[k] = Deliver(d[k - 1], ms[k])
  <2>1. 1..k \in SUBSET (1..n) /\ 1..k # {} /\ (1..k) \ {k} = 1..(k - 1) /\ k \in 1..k
        /\ 1..k \in SUBSET (1..k) /\ k \in Nat
    OBVIOUS
  <2>2. Max(1..k) = k
    BY <2>1, LastIsMax
  <2>3. h[1..k] = Deliver(h[1..(k - 1)], ms[k])
    BY <1>2, <2>1, <2>2 DEF Fold
  <2> QED  BY <2>3
<1>5. d[n] = h[1..n]
  OBVIOUS
<1> HIDE DEF d
<1>6. Unrolled(d, c, ms, n)
  BY <1>1, <1>3, <1>4, <1>5 DEF Unrolled
<1> QED  BY <1>6

LEMMA RunsHaveIds == Runs \subseteq Ids /\ \A i \in Ids : i \in Nat
  BY RpcAssumption DEF Ids

\* The events after a message, message by message.
LEMMA LaterIsFinite ==
  ASSUME NEW n \in Nat, NEW q, DOMAIN q = 1..n, NEW i, NEW k
  PROVE  IsFiniteSet(Later(q, i, k)) /\ Cardinality(Later(q, i, k)) \in Nat
<1>1. IsFiniteSet(1..n)
  BY FS_Interval
<1>2. Later(q, i, k) \subseteq 1..n
  BY DEF Later
<1>3. IsFiniteSet(Later(q, i, k))
  BY <1>1, <1>2, FS_Subset
<1> QED  BY <1>3, FS_CardinalityType

LEMMA LaterCounts ==
  ASSUME NEW n \in Nat, NEW q, DOMAIN q = 1..n, NEW i, NEW k \in 1..n
  PROVE  /\ IsEvent(q[k], i) =>
              Cardinality(Later(q, i, k - 1)) = Cardinality(Later(q, i, k)) + 1
         /\ ~ IsEvent(q[k], i) => Later(q, i, k - 1) = Later(q, i, k)
         /\ Later(q, i, k) \subseteq Later(q, i, k - 1)
<1>1. \A j \in 1..n : j > k - 1 <=> j > k \/ j = k
  OBVIOUS
<1>2. ~ IsEvent(q[k], i) => Later(q, i, k - 1) = Later(q, i, k)
  BY <1>1 DEF Later
<1>3. ASSUME IsEvent(q[k], i)
      PROVE  Cardinality(Later(q, i, k - 1)) = Cardinality(Later(q, i, k)) + 1
  <2>1. Later(q, i, k - 1) = Later(q, i, k) \cup {k}
    BY <1>1, <1>3 DEF Later
  <2>2. k \notin Later(q, i, k)
    BY DEF Later
  <2>3. IsFiniteSet(Later(q, i, k))
    BY LaterIsFinite
  <2> QED  BY <2>1, <2>2, <2>3, FS_AddElement
<1>4. Later(q, i, k) \subseteq Later(q, i, k - 1)
  BY <1>1 DEF Later
<1> QED  BY <1>2, <1>3, <1>4

\* What is later is as much without the first messages.
LEMMA LaterShifts ==
  ASSUME NEW n, NEW w, NEW q, NEW r, Tails(r, q, n, w), NEW i, NEW k \in 0..(n - w)
  PROVE  /\ Cardinality(Later(r, i, k)) = Cardinality(Later(q, i, k + w))
         /\ Later(q, i, k + w) = {} => Later(r, i, k) = {}
<1> DEFINE S == Later(r, i, k)
           T == Later(q, i, k + w)
           f == [j \in S |-> j + w]
<1>0. /\ n \in Nat /\ w \in 0..n /\ DOMAIN q = 1..n
      /\ DOMAIN r = 1..(n - w) /\ \A j \in 1..(n - w) : r[j] = q[j + w]
  BY DEF Tails
<1>1. \A j \in S : j \in Nat /\ j + w \in T
  <2> TAKE j \in S
  <2>1. j \in 1..(n - w) /\ j > k /\ IsEvent(r[j], i)
    BY <1>0 DEF Later
  <2>2. j + w \in 1..n /\ j + w > k + w /\ r[j] = q[j + w] /\ j \in Nat
    BY <1>0, <2>1
  <2> QED  BY <1>0, <2>1, <2>2 DEF Later
<1>2. \A j \in T : j - w \in S /\ (j - w) + w = j
  <2> TAKE j \in T
  <2>1. j \in 1..n /\ j > k + w /\ IsEvent(q[j], i)
    BY <1>0 DEF Later
  <2>2. j - w \in 1..(n - w) /\ j - w > k /\ (j - w) + w = j
    BY <1>0, <2>1
  <2>3. r[j - w] = q[j]
    BY <1>0, <2>2
  <2> QED  BY <1>0, <2>1, <2>2, <2>3 DEF Later
<1>3. IsFiniteSet(S)
  <2>1. n - w \in Nat
    BY <1>0
  <2> QED  BY <1>0, <2>1, LaterIsFinite
<1> HIDE DEF S, T
<1>4. f \in Bijection(S, T)
  <2>1. f \in [S -> T]
    BY <1>1
  <2>2. \A a, b \in S : f[a] = f[b] => a = b
    BY <1>0, <1>1
  <2>3. \A t \in T : \E j \in S : f[j] = t
    BY <1>2
  <2> QED  BY <2>1, <2>2, <2>3 DEF Bijection, Injection, Surjection, IsInjective
<1>5. Cardinality(S) = Cardinality(T)
  <2>1. ExistsBijection(S, T)
    BY <1>4 DEF ExistsBijection
  <2> QED  BY <1>3, <2>1, FS_Bijection
<1>6. T = {} => S = {}
  BY <1>1
<1> QED  BY <1>5, <1>6 DEF S, T

\* A message more.
LEMMA LaterAppends ==
  ASSUME NEW n \in Nat, NEW q, DOMAIN q = 1..n, NEW m,
         NEW p, DOMAIN p = 1..(n + 1), \A k \in 1..n : p[k] = q[k], p[n + 1] = m,
         NEW i, NEW k \in 0..n
  PROVE  /\ ~ IsEvent(m, i) => Later(p, i, k) = Later(q, i, k)
         /\ IsEvent(m, i) => Cardinality(Later(p, i, k)) = Cardinality(Later(q, i, k)) + 1
<1>1. \A j : j \in 1..(n + 1) <=> j \in 1..n \/ j = n + 1
  OBVIOUS
<1>2. n + 1 > k /\ n + 1 \notin 1..n
  OBVIOUS
<1>3. ~ IsEvent(m, i) => Later(p, i, k) = Later(q, i, k)
  BY <1>1 DEF Later
<1>4. ASSUME IsEvent(m, i)
      PROVE  Cardinality(Later(p, i, k)) = Cardinality(Later(q, i, k)) + 1
  <2>1. Later(p, i, k) = Later(q, i, k) \cup {n + 1}
    BY <1>1, <1>2, <1>4 DEF Later
  <2>2. n + 1 \notin Later(q, i, k)
    BY <1>2 DEF Later
  <2>3. IsFiniteSet(Later(q, i, k))
    BY LaterIsFinite
  <2> QED  BY <2>1, <2>2, <2>3, FS_AddElement
<1> QED  BY <1>3, <1>4

\* What the client makes of a message that comes next.
Clients == [pendingIds : SUBSET Ids, outcome : [Ids -> Outcomes], heard : [Ids -> Nat]]

LEMMA DeliverAgrees ==
  ASSUME RpcTypes, NEW n \in Nat, NEW q \in [1..n -> Tells], AnswersComeLast(q),
         NEW k \in 1..n, NEW c \in Clients, Agrees(q, k - 1, c.heard, c.outcome),
         NEW d, d = Deliver(c, q[k])
  PROVE  d \in Clients /\ Agrees(q, k, d.heard, d.outcome)
<1> DEFINE m == q[k]
<1>1. /\ m \in Tells /\ m.id \in Ids /\ m.kind \in {"event", "response"}
      /\ m.kind = "event" => m.id \in Runs
      /\ m.kind = "response" => m.how \in {"result", "error"} /\ m.of \in Ids
  <2>1. m \in Tells
    OBVIOUS
  <2> QED  BY <2>1, RunsHaveIds DEF Tells
<1>2. /\ c.pendingIds \in SUBSET Ids /\ c.outcome \in [Ids -> Outcomes]
      /\ c.heard \in [Ids -> Nat]
  BY DEF Clients
<1>3. \A i \in Ids : /\ c.heard[i] \in Nat
                     /\ Cardinality(Later(q, i, k)) \in Nat
  BY <1>2, RunsHaveIds, LaterIsFinite
<1>4. \A i \in Ids : /\ c.heard[i] + Cardinality(Later(q, i, k - 1)) = told[i]
                     /\ c.outcome[i].how \in {"result", "error"} =>
                           handling[i] = "done" /\ Later(q, i, k - 1) = {}
  BY DEF Agrees
<1> HIDE DEF m
<1>5. CASE m.kind = "response" /\ m.id \in c.pendingIds
  <2> DEFINE o == [how |-> m.how, of |-> m.of]
  <2>1. d = [c EXCEPT !.pendingIds = @ \ {m.id}, !.outcome[m.id] = o]
    BY <1>5 DEF Deliver, m
  <2>2. o \in Outcomes
    BY <1>1, <1>5 DEF Outcomes
  <2> HIDE DEF o
  <2>3. /\ d = [c EXCEPT !.pendingIds = c.pendingIds \ {m.id},
                         !.outcome = [c.outcome EXCEPT ![m.id] = o]]
    BY <2>1
  <2>4. [c.outcome EXCEPT ![m.id] = o] \in [Ids -> Outcomes]
    BY <1>2, <2>2
  <2>5. d \in Clients
    BY <1>2, <2>3, <2>4 DEF Clients
  <2>6. d.heard = c.heard /\ d.outcome = [c.outcome EXCEPT ![m.id] = o]
    BY <2>3 DEF Clients
  <2>7. \A i \in Ids : ~ IsEvent(m, i)
    BY <1>5 DEF IsEvent
  <2>8. \A i \in Ids : Later(q, i, k - 1) = Later(q, i, k)
    BY <2>7, LaterCounts DEF m
  <2>9. handling[m.id] = "done" /\ Later(q, m.id, k) = {}
    BY <1>5 DEF AnswersComeLast, m
  <2>10. ASSUME NEW i \in Ids
         PROVE  /\ d.heard[i] + Cardinality(Later(q, i, k)) = told[i]
                /\ d.outcome[i].how \in {"result", "error"} =>
                      handling[i] = "done" /\ Later(q, i, k) = {}
    <3>1. d.heard[i] + Cardinality(Later(q, i, k)) = told[i]
      BY <1>4, <2>6, <2>8
    <3>2. CASE i = m.id
      BY <2>9, <3>1, <3>2
    <3>3. CASE i # m.id
      <4>1. d.outcome[i] = c.outcome[i]
        BY <1>2, <1>3, <2>6, <3>3
      <4> QED  BY <1>4, <2>8, <3>1, <4>1
    <3> QED  BY <3>2, <3>3
  <2> QED  BY <2>5, <2>10 DEF Agrees
<1>6. CASE m.kind = "event"
  <2>1. d = [c EXCEPT !.heard[m.id] = @ + 1]
    BY <1>6 DEF Deliver, m
  <2>2. d = [c EXCEPT !.heard = [c.heard EXCEPT ![m.id] = c.heard[m.id] + 1]]
    BY <2>1
  <2>3. [c.heard EXCEPT ![m.id] = c.heard[m.id] + 1] \in [Ids -> Nat]
    BY <1>1, <1>2
  <2>4. d \in Clients
    BY <1>2, <2>2, <2>3 DEF Clients
  <2>5. d.outcome = c.outcome /\ d.heard = [c.heard EXCEPT ![m.id] = c.heard[m.id] + 1]
    BY <2>2 DEF Clients
  <2>6. ASSUME NEW i \in Ids
        PROVE  /\ d.heard[i] + Cardinality(Later(q, i, k)) = told[i]
               /\ d.outcome[i].how \in {"result", "error"} =>
                     handling[i] = "done" /\ Later(q, i, k) = {}
    <3>1. Later(q, i, k) \subseteq Later(q, i, k - 1)
      BY LaterCounts
    <3>2. CASE i = m.id
      <4>1. IsEvent(m, i)
        BY <1>6, <3>2 DEF IsEvent
      <4>2. Cardinality(Later(q, i, k - 1)) = Cardinality(Later(q, i, k)) + 1
        BY <4>1, LaterCounts DEF m
      <4>3. d.heard[i] = c.heard[i] + 1
        BY <1>2, <1>3, <2>5, <3>2
      <4>4. d.heard[i] + Cardinality(Later(q, i, k)) = told[i]
        BY <1>3, <1>4, <4>2, <4>3
      <4> QED  BY <1>4, <2>5, <3>1, <4>4
    <3>3. CASE i # m.id
      <4>1. ~ IsEvent(m, i)
        BY <3>3 DEF IsEvent
      <4>2. Later(q, i, k - 1) = Later(q, i, k)
        BY <4>1, LaterCounts DEF m
      <4>3. d.heard[i] = c.heard[i]
        BY <1>2, <1>3, <2>5, <3>3
      <4> QED  BY <1>4, <2>5, <4>2, <4>3
    <3> QED  BY <3>2, <3>3
  <2> QED  BY <2>4, <2>6 DEF Agrees
<1>7. CASE m.kind = "response" /\ m.id \notin c.pendingIds
  <2>1. d = c
    BY <1>7 DEF Deliver, m
  <2>2. \A i \in Ids : ~ IsEvent(m, i)
    BY <1>7 DEF IsEvent
  <2>3. \A i \in Ids : Later(q, i, k - 1) = Later(q, i, k)
    BY <2>2, LaterCounts DEF m
  <2> QED  BY <1>4, <2>1, <2>3 DEF Agrees
<1> QED  BY <1>1, <1>5, <1>6, <1>7

\* What it makes of the first w of them.
LEMMA AllDelivered ==
  ASSUME RpcTypes, NEW n \in Nat, NEW q \in [1..n -> Tells], AnswersComeLast(q),
         NEW w, NEW ms, Heads(ms, q, n, w),
         NEW c \in Clients, Agrees(q, 0, c.heard, c.outcome),
         NEW e, e = DeliverAll(c, ms)
  PROVE  e \in Clients /\ Agrees(q, w, e.heard, e.outcome)
<1>0. w \in 0..n /\ DOMAIN ms = 1..w /\ \A k \in 1..w : ms[k] = q[k]
  BY DEF Heads
<1>1. w \in Nat
  BY <1>0
<1>2. PICK d : Unrolled(d, c, ms, w)
  BY <1>0, <1>1, DeliveredInOrder, Zenon
<1>3. /\ d[0] = c /\ DeliverAll(c, ms) = d[w]
       /\ \A k \in 1..w : d[k] = Deliver(d[k - 1], ms[k])
  BY <1>2 DEF Unrolled
<1> DEFINE Good(k) == d[k] \in Clients /\ Agrees(q, k, d[k].heard, d[k].outcome)
           Bad == {k \in 0..w : ~ Good(k)}
<1>4. ASSUME Bad # {} PROVE FALSE
  <2>1. PICK k \in Bad : \A j \in Bad : k <= j
    <3>1. Bad \subseteq Nat
      BY <1>0
    <3> QED  BY <1>4, <3>1, LeastOf
  <2>2. Good(0)
    BY <1>3
  <2>3. k \in 1..w /\ k \in 1..n /\ k - 1 \in 0..w /\ ~ Good(k)
    BY <1>0, <2>1, <2>2
  <2>4. Good(k - 1)
    BY <2>1, <2>3
  <2>5. d[k] = Deliver(d[k - 1], q[k])
    BY <1>0, <1>3, <2>3
  <2>6. Good(k)
    BY <2>3, <2>4, <2>5, DeliverAgrees
  <2> QED  BY <2>3, <2>6
<1>5. Good(w)
  BY <1>1, <1>4
<1> QED  BY <1>3, <1>5

LEMMA RpcStart == RpcInit => RpcInv
<1> SUFFICES ASSUME RpcInit PROVE RpcInv
  OBVIOUS
<1>1. RpcInit
  OBVIOUS
<1>2. \A M : /\ IsStream(<<>> \o <<>>, M) /\ <<>> \in Seq(Pieces(M))
             /\ Messages(<<>> \o <<>>) = [k \in {} |-> k]
  <2> TAKE M
  <2>1. <<>> \in Seq(Pieces(M)) /\ <<>> \o <<>> = <<>> /\ Len(<<>>) = 0
    OBVIOUS
  <2>2. Whole(<<>>) = 0
    BY <2>1 DEF Whole
  <2>3. 1..0 = {}
    OBVIOUS
  <2>4. Messages(<<>>) = [k \in {} |-> k]
    BY <2>2, <2>3 DEF Messages
  <2> QED  BY <2>1, <2>2, <2>3, <2>4 DEF IsStream
<1>3. DOMAIN Up = {} /\ DOMAIN Down = {}
  BY <1>1, <1>2 DEF RpcInit, Up, Down
<1>4. RpcTypes
  <2>1. nextId \in 1..(MaxId + 1)
    BY <1>1, RpcAssumption DEF RpcInit
  <2> QED  BY <1>1, <1>2, <2>1 DEF RpcInit, RpcTypes, Outcomes
<1>5. AskedOnce(Up)
  BY <1>1, <1>3 DEF RpcInit, AskedOnce
<1>6. AnswersComeLast(Down)
  BY <1>3 DEF AnswersComeLast
<1>7. Agrees(Down, 0, heard, outcome)
  <2>1. \A i : Later(Down, i, 0) = {}
    BY <1>3 DEF Later
  <2>2. Cardinality({}) = 0
    BY FS_EmptySet
  <2>3. \A i \in Ids : heard[i] = 0 /\ told[i] = 0 /\ outcome[i].how = "none"
    BY <1>1, RunsHaveIds DEF RpcInit, Unsettled
  <2> QED  BY <2>1, <2>2, <2>3 DEF Agrees
<1> QED  BY <1>4, <1>5, <1>6, <1>7 DEF RpcInv

\* The messages on their way are those of whole frames.
LEMMA MessagesOf ==
  ASSUME NEW M, NEW s, IsStream(s, M)
  PROVE  Whole(s) \in Nat /\ Messages(s) \in [1..Whole(s) -> M]
<1>1. s \in Seq(Pieces(M)) /\ \A k \in 1..Whole(s) : s[2 * k] \in Bodies(M)
  BY DEF IsStream
<1>2. Len(s) \in Nat
  BY <1>1
<1>3. Whole(s) \in Nat
  BY <1>2 DEF Whole
<1>4. \A k \in 1..Whole(s) : s[2 * k].of \in M
  BY <1>1 DEF Bodies
<1> QED  BY <1>3, <1>4 DEF Messages

LEMMA DownIs ==
  ASSUME RpcTypes
  PROVE  \E n \in Nat : n = Whole(clientBuffer \o toClient) /\ Down \in [1..n -> Tells]
  BY MessagesOf DEF RpcTypes, Down

LEMMA UpIs ==
  ASSUME RpcTypes
  PROVE  \E n \in Nat : n = Whole(serverBuffer \o toServer) /\ Up \in [1..n -> Asks]
  BY MessagesOf DEF RpcTypes, Up

\* A frame more in a pipe.
LEMMA PipeGrows ==
  ASSUME NEW M, NEW b \in Seq(Pieces(M)), NEW t \in Seq(Pieces(M)), IsStream(b \o t, M), NEW m \in M
  PROVE  LET s == b \o t
             r == b \o (t \o EncodeFrame(m)) IN
         /\ t \o EncodeFrame(m) \in Seq(Pieces(M))
         /\ IsStream(r, M)
         /\ Whole(s) \in Nat
         /\ DOMAIN Messages(s) = 1..Whole(s)
         /\ DOMAIN Messages(r) = 1..(Whole(s) + 1)
         /\ \A k \in 1..Whole(s) : Messages(r)[k] = Messages(s)[k]
         /\ Messages(r)[Whole(s) + 1] = m
<1>1. EncodeFrame(m) \in Seq(Pieces(M))
  BY FrameAdded
<1>2. b \o (t \o EncodeFrame(m)) = (b \o t) \o EncodeFrame(m)
  <2> DEFINE S == Pieces(M)
             e == EncodeFrame(m)
  <2>1. b \in Seq(S) /\ t \in Seq(S) /\ e \in Seq(S)
    BY <1>1
  <2> HIDE DEF S, e
  <2>2. b \o (t \o e) = (b \o t) \o e
    BY <2>1, ConcatAssociative
  <2> QED  BY <2>2 DEF e
<1>3. t \o EncodeFrame(m) \in Seq(Pieces(M))
  BY <1>1, ConcatProperties
<1> QED  BY <1>2, <1>3, FrameAdded

LEMMA RequestStep ==
  ASSUME RpcInv, Request
  PROVE  RpcInv'
<1> DEFINE m == [id |-> nextId]
           n == Whole(serverBuffer \o toServer)
<1>1. RpcTypes /\ AskedOnce(Up)
  BY DEF RpcInv
<1>2. nextId \in Ids /\ m \in Asks /\ nextId + 1 \in 1..(MaxId + 1)
  BY <1>1, RpcAssumption DEF RpcTypes, Request, Ids, Asks
<1>3. /\ toServer' = toServer \o EncodeFrame(m) /\ serverBuffer' = serverBuffer
      /\ nextId' = nextId + 1 /\ pendingIds' = pendingIds \cup {nextId}
      /\ UNCHANGED <<outcome, heard, toClient, clientBuffer, handling, told>>
  BY DEF Request, ServerSide
<1>4. /\ serverBuffer \in Seq(Pieces(Asks)) /\ toServer \in Seq(Pieces(Asks))
      /\ IsStream(serverBuffer \o toServer, Asks)
  BY <1>1 DEF RpcTypes
<1>5. /\ toServer' \in Seq(Pieces(Asks))
      /\ IsStream(serverBuffer' \o toServer', Asks)
      /\ n \in Nat /\ DOMAIN Up = 1..n /\ DOMAIN Up' = 1..(n + 1)
      /\ \A k \in 1..n : Up'[k] = Up[k]
      /\ Up'[n + 1] = m
  BY <1>2, <1>3, <1>4, PipeGrows DEF Up
<1> HIDE DEF n
<1>6. RpcTypes'
  BY <1>1, <1>2, <1>3, <1>5 DEF RpcTypes
<1>7. AskedOnce(Up)'
  <2>1. \A k \in 1..(n + 1) : k \in 1..n \/ k = n + 1
    BY <1>5
  <2>2. m.id = nextId /\ nextId \in Nat /\ nextId < nextId + 1 /\ handling[nextId] = "none"
    BY <1>1, <1>2 DEF AskedOnce, Ids
  <2>3. \A k \in 1..n : Up[k].id < nextId /\ handling[Up[k].id] = "none" /\ Up[k].id \in Nat
    <3>1. \A k \in 1..n : Up[k] \in Asks
      BY <1>1, <1>5, UpIs
    <3> QED  BY <1>1, <1>5, <3>1, RunsHaveIds DEF AskedOnce, Asks
  <2>4. \A k \in 1..(n + 1) : Up'[k].id < nextId + 1 /\ handling[Up'[k].id] = "none"
    BY <1>5, <2>1, <2>2, <2>3
  <2>5. \A j, k \in 1..(n + 1) : Up'[j].id = Up'[k].id => j = k
    <3> SUFFICES ASSUME NEW j \in 1..(n + 1), NEW k \in 1..(n + 1), Up'[j].id = Up'[k].id
                 PROVE  j = k
      OBVIOUS
    <3>1. CASE j \in 1..n /\ k \in 1..n
      BY <1>1, <1>5, <3>1 DEF AskedOnce
    <3>2. CASE j = n + 1 /\ k \in 1..n
      BY <1>5, <2>2, <2>3, <3>2
    <3>3. CASE j \in 1..n /\ k = n + 1
      BY <1>5, <2>2, <2>3, <3>3
    <3>4. CASE j = n + 1 /\ k = n + 1
      BY <3>4
    <3> QED  BY <2>1, <3>1, <3>2, <3>3, <3>4
  <2>6. \A i \in Ids : i >= nextId + 1 => handling[i] = "none"
    BY <1>1, <2>2, RunsHaveIds DEF AskedOnce
  <2> QED  BY <1>3, <1>5, <2>4, <2>5, <2>6 DEF AskedOnce
<1>8. AnswersComeLast(Down)' /\ Agrees(Down, 0, heard, outcome)'
  <2>1. Down' = Down
    BY <1>3 DEF Down
  <2> QED  BY <1>3, <2>1 DEF RpcInv, AnswersComeLast, Agrees
<1> QED  BY <1>6, <1>7, <1>8 DEF RpcInv

LEMMA ClientReceivesStep ==
  ASSUME RpcInv, ClientReceives
  PROVE  RpcInv'
<1>1. RpcTypes /\ AskedOnce(Up) /\ AnswersComeLast(Down) /\ Agrees(Down, 0, heard, outcome)
  BY DEF RpcInv
<1> DEFINE start == [pendingIds |-> pendingIds, outcome |-> outcome, heard |-> heard]
<1>2. PICK x \in 1..Len(toClient) :
        LET buffer == clientBuffer \o SubSeq(toClient, 1, x)
            c == DeliverAll(start, Messages(buffer)) IN
        /\ toClient' = SubSeq(toClient, x + 1, Len(toClient))
        /\ clientBuffer' = Remainder(buffer)
        /\ pendingIds' = c.pendingIds /\ outcome' = c.outcome /\ heard' = c.heard
  BY DEF ClientReceives
<1> DEFINE buffer == clientBuffer \o SubSeq(toClient, 1, x)
           rest == SubSeq(toClient, x + 1, Len(toClient))
           c == DeliverAll(start, Messages(buffer))
           s == clientBuffer \o toClient
           n == Whole(s)
           w == Whole(buffer)
<1>3. /\ toClient' = rest /\ clientBuffer' = Remainder(buffer)
      /\ pendingIds' = c.pendingIds /\ outcome' = c.outcome /\ heard' = c.heard
  BY <1>2
<1>4. UNCHANGED <<nextId, toServer, serverBuffer, handling, told>>
  BY DEF ClientReceives, ServerSide
<1>5. /\ clientBuffer \in Seq(Pieces(Tells)) /\ toClient \in Seq(Pieces(Tells))
      /\ IsStream(s, Tells)
  BY <1>1 DEF RpcTypes
<1>6. Cuts(s, buffer, rest, Pieces(Tells))
  BY <1>5, PiecesRead
<1>7. Down = Messages(s) /\ Down' = Messages(Remainder(buffer) \o rest)
  BY <1>3 DEF Down
<1> HIDE DEF s, buffer, rest, n, w, start
<1>8. /\ rest \in Seq(Pieces(Tells)) /\ Remainder(buffer) \in Seq(Pieces(Tells))
      /\ IsStream(Remainder(buffer) \o rest, Tells)
      /\ Heads(Messages(buffer), Down, n, w) /\ Tails(Down', Down, n, w)
      /\ n \in Nat /\ w \in 0..n /\ DOMAIN Down = 1..n
      /\ DOMAIN Messages(buffer) = 1..w /\ (\A k \in 1..w : Messages(buffer)[k] = Down[k])
      /\ DOMAIN Down' = 1..(n - w) /\ \A k \in 1..(n - w) : Down'[k] = Down[k + w]
  <2>1. /\ rest \in Seq(Pieces(Tells)) /\ Remainder(buffer) \in Seq(Pieces(Tells))
        /\ IsStream(Remainder(buffer) \o rest, Tells)
        /\ Heads(Messages(buffer), Messages(s), n, w)
        /\ Tails(Messages(Remainder(buffer) \o rest), Messages(s), n, w)
    BY <1>5, <1>6, FramesSplit DEF n, w
  <2>2. Heads(Messages(buffer), Down, n, w) /\ Tails(Down', Down, n, w)
    BY <1>7, <2>1
  <2> QED  BY <2>1, <2>2 DEF Heads, Tails
<1>9. Down \in [1..n -> Tells]
  BY <1>5, <1>7, MessagesOf DEF n
<1>10. start \in Clients /\ start.heard = heard /\ start.outcome = outcome
  BY <1>1 DEF Clients, RpcTypes, start
<1>11. c \in Clients /\ Agrees(Down, w, c.heard, c.outcome)
  <2> DEFINE ms == Messages(buffer)
  <2>1. Heads(ms, Down, n, w)
    BY <1>8
  <2>2. c = DeliverAll(start, ms)
    OBVIOUS
  <2>3. Agrees(Down, 0, start.heard, start.outcome)
    BY <1>1, <1>10
  <2> HIDE DEF ms, c
  <2> QED  BY <1>1, <1>8, <1>9, <1>10, <2>1, <2>2, <2>3, AllDelivered
<1> HIDE DEF c
<1>12. /\ pendingIds' \in SUBSET Ids /\ outcome' \in [Ids -> Outcomes] /\ heard' \in [Ids -> Nat]
  BY <1>3, <1>11 DEF Clients
<1>13. RpcTypes'
  <2>1. toClient' \in Seq(Pieces(Tells)) /\ clientBuffer' \in Seq(Pieces(Tells))
        /\ IsStream(clientBuffer' \o toClient', Tells)
    BY <1>3, <1>8
  <2> QED  BY <1>1, <1>4, <1>12, <2>1 DEF RpcTypes
<1>14. AskedOnce(Up)'
  <2>1. Up' = Up
    BY <1>4 DEF Up
  <2> QED  BY <1>1, <1>4, <2>1 DEF AskedOnce
<1>15. ASSUME NEW i, NEW k \in 0..(n - w)
       PROVE  /\ Cardinality(Later(Down', i, k)) = Cardinality(Later(Down, i, k + w))
              /\ Later(Down, i, k + w) = {} => Later(Down', i, k) = {}
  <2> DEFINE before == Down
             after == Down'
  <2>1. Tails(after, before, n, w)
    BY <1>8 DEF Tails
  <2> HIDE DEF before, after
  <2>2. /\ Cardinality(Later(after, i, k)) = Cardinality(Later(before, i, k + w))
        /\ Later(before, i, k + w) = {} => Later(after, i, k) = {}
    BY <2>1, LaterShifts
  <2> QED  BY <2>2 DEF before, after
<1>16. AnswersComeLast(Down)'
  <2> SUFFICES ASSUME NEW k \in 1..(n - w), Down'[k].kind = "response"
               PROVE  handling[Down'[k].id] = "done" /\ Later(Down', Down'[k].id, k) = {}
    BY <1>4, <1>8 DEF AnswersComeLast
  <2>1. Down'[k] = Down[k + w] /\ k + w \in 1..n /\ k \in 0..(n - w)
    BY <1>8
  <2>2. handling[Down[k + w].id] = "done" /\ Later(Down, Down[k + w].id, k + w) = {}
    BY <1>1, <1>8, <2>1 DEF AnswersComeLast
  <2> QED  BY <1>15, <2>1, <2>2
<1>17. Agrees(Down, 0, heard, outcome)'
  <2> SUFFICES ASSUME NEW i \in Ids
               PROVE  /\ heard'[i] + Cardinality(Later(Down', i, 0)) = told[i]
                      /\ outcome'[i].how \in {"result", "error"} =>
                           handling[i] = "done" /\ Later(Down', i, 0) = {}
    BY <1>4 DEF Agrees
  <2>1. 0 \in 0..(n - w) /\ 0 + w = w
    BY <1>8
  <2>2. /\ Cardinality(Later(Down', i, 0)) = Cardinality(Later(Down, i, w))
        /\ Later(Down, i, w) = {} => Later(Down', i, 0) = {}
    BY <1>15, <2>1
  <2>3. /\ heard'[i] + Cardinality(Later(Down, i, w)) = told[i]
        /\ outcome'[i].how \in {"result", "error"} =>
             handling[i] = "done" /\ Later(Down, i, w) = {}
    BY <1>3, <1>11 DEF Agrees
  <2> QED  BY <2>2, <2>3
<1> QED  BY <1>13, <1>14, <1>16, <1>17 DEF RpcInv

LEMMA ClientClosesStep ==
  ASSUME RpcInv, ClientCloses
  PROVE  RpcInv'
<1>1. RpcTypes /\ AskedOnce(Up) /\ AnswersComeLast(Down) /\ Agrees(Down, 0, heard, outcome)
  BY DEF RpcInv
<1>2. /\ UNCHANGED <<nextId, heard, toServer, toClient, clientBuffer, serverBuffer, handling, told>>
      /\ pendingIds' = {}
      /\ outcome' = [i \in Ids |-> IF i \in pendingIds THEN [how |-> "closed"] ELSE outcome[i]]
  BY DEF ClientCloses, ServerSide
<1>3. Up' = Up /\ Down' = Down
  BY <1>2 DEF Up, Down
<1>4. RpcTypes'
  <2>1. outcome' \in [Ids -> Outcomes]
    BY <1>1, <1>2 DEF RpcTypes, Outcomes
  <2> QED  BY <1>1, <1>2, <2>1 DEF RpcTypes
<1>5. AskedOnce(Up)' /\ AnswersComeLast(Down)'
  BY <1>1, <1>2, <1>3 DEF AskedOnce, AnswersComeLast
<1>6. \A i \in Ids : outcome'[i].how \in {"result", "error"} => outcome'[i] = outcome[i]
  BY <1>2, RunsHaveIds
<1>7. Agrees(Down, 0, heard, outcome)'
  BY <1>1, <1>2, <1>3, <1>6 DEF Agrees
<1> QED  BY <1>4, <1>5, <1>7 DEF RpcInv

LEMMA ServerReceivesStep ==
  ASSUME RpcInv, ServerReceives
  PROVE  RpcInv'
<1>1. RpcTypes /\ AskedOnce(Up) /\ AnswersComeLast(Down) /\ Agrees(Down, 0, heard, outcome)
  BY DEF RpcInv
<1>2. PICK x \in 1..Len(toServer) :
        LET buffer == serverBuffer \o SubSeq(toServer, 1, x)
            asked == {m.id : m \in ToSet(Messages(buffer))} IN
        /\ toServer' = SubSeq(toServer, x + 1, Len(toServer))
        /\ serverBuffer' = Remainder(buffer)
        /\ handling' = [i \in Ids |-> IF i \in asked THEN "running" ELSE handling[i]]
  BY DEF ServerReceives
<1> DEFINE buffer == serverBuffer \o SubSeq(toServer, 1, x)
           rest == SubSeq(toServer, x + 1, Len(toServer))
           asked == {m.id : m \in ToSet(Messages(buffer))}
           s == serverBuffer \o toServer
           n == Whole(s)
           w == Whole(buffer)
<1>3. /\ toServer' = rest /\ serverBuffer' = Remainder(buffer)
      /\ handling' = [i \in Ids |-> IF i \in asked THEN "running" ELSE handling[i]]
  BY <1>2
<1>4. UNCHANGED <<nextId, pendingIds, outcome, heard, clientBuffer, toClient, told>>
  BY DEF ServerReceives, ClientSide
<1>5. /\ serverBuffer \in Seq(Pieces(Asks)) /\ toServer \in Seq(Pieces(Asks))
      /\ IsStream(s, Asks)
  BY <1>1 DEF RpcTypes
<1>6. Cuts(s, buffer, rest, Pieces(Asks))
  BY <1>5, PiecesRead
<1>7. Up = Messages(s) /\ Up' = Messages(Remainder(buffer) \o rest)
  BY <1>3 DEF Up
<1> HIDE DEF s, buffer, rest, n, w
<1>8. /\ rest \in Seq(Pieces(Asks)) /\ Remainder(buffer) \in Seq(Pieces(Asks))
      /\ IsStream(Remainder(buffer) \o rest, Asks)
      /\ Heads(Messages(buffer), Up, n, w) /\ Tails(Up', Up, n, w)
      /\ n \in Nat /\ w \in 0..n /\ DOMAIN Up = 1..n
      /\ DOMAIN Messages(buffer) = 1..w /\ (\A k \in 1..w : Messages(buffer)[k] = Up[k])
      /\ DOMAIN Up' = 1..(n - w) /\ \A k \in 1..(n - w) : Up'[k] = Up[k + w]
  <2>1. /\ rest \in Seq(Pieces(Asks)) /\ Remainder(buffer) \in Seq(Pieces(Asks))
        /\ IsStream(Remainder(buffer) \o rest, Asks)
        /\ Heads(Messages(buffer), Messages(s), n, w)
        /\ Tails(Messages(Remainder(buffer) \o rest), Messages(s), n, w)
    BY <1>5, <1>6, FramesSplit DEF n, w
  <2>2. Heads(Messages(buffer), Up, n, w) /\ Tails(Up', Up, n, w)
    BY <1>7, <2>1
  <2> QED  BY <2>1, <2>2 DEF Heads, Tails
<1>9. \A i \in asked : \E k \in 1..w : i = Up[k].id
  BY <1>8 DEF ToSet
<1> HIDE DEF asked
<1>10. \A i \in asked : handling[i] = "none" /\ i < nextId
  <2> TAKE i \in asked
  <2>1. PICK k \in 1..w : i = Up[k].id
    BY <1>9
  <2>2. k \in DOMAIN Up
    BY <1>8
  <2> QED  BY <1>1, <2>1, <2>2 DEF AskedOnce
<1>11. \A i \in Ids : i \notin asked => handling'[i] = handling[i]
  BY <1>3
<1>12. \A i \in Ids : handling[i] = "done" => handling'[i] = "done"
  BY <1>10, <1>11
<1>13. RpcTypes'
  <2>1. toServer' \in Seq(Pieces(Asks)) /\ serverBuffer' \in Seq(Pieces(Asks))
        /\ IsStream(serverBuffer' \o toServer', Asks)
    BY <1>3, <1>8
  <2>2. handling' \in [Ids -> {"none", "running", "done"}]
    BY <1>1, <1>3 DEF RpcTypes
  <2> QED  BY <1>1, <1>4, <2>1, <2>2 DEF RpcTypes
<1>14. AskedOnce(Up)'
  <2>1. \A k \in 1..(n - w) : /\ k + w \in 1..n /\ Up'[k] = Up[k + w]
                              /\ \A j \in 1..w : j # k + w /\ j \in 1..n
    BY <1>8
  <2>2. \A k \in 1..n : Up[k].id \in Ids
    <3>1. \A k \in 1..n : Up[k] \in Asks
      BY <1>5, <1>7, <1>8, MessagesOf
    <3> QED  BY <3>1 DEF Asks
  <2>3. ASSUME NEW k \in 1..(n - w)
        PROVE  Up'[k].id < nextId /\ handling'[Up'[k].id] = "none"
    <3>1. Up[k + w].id < nextId /\ handling[Up[k + w].id] = "none"
      BY <1>1, <1>8, <2>1 DEF AskedOnce
    <3>2. Up[k + w].id \notin asked
      <4> SUFFICES ASSUME Up[k + w].id \in asked PROVE FALSE
        OBVIOUS
      <4>1. PICK j \in 1..w : Up[k + w].id = Up[j].id
        BY <1>9
      <4>2. j \in 1..n /\ k + w \in 1..n /\ j # k + w
        BY <2>1
      <4>3. \A a, b \in 1..n : Up[a].id = Up[b].id => a = b
        BY <1>1, <1>8 DEF AskedOnce
      <4> QED  BY <4>1, <4>2, <4>3
    <3> QED  BY <1>11, <2>1, <2>2, <3>1, <3>2
  <2>4. ASSUME NEW j \in 1..(n - w), NEW k \in 1..(n - w), Up'[j].id = Up'[k].id
        PROVE  j = k
    <3>1. j + w = k + w
      <4>1. j + w \in 1..n /\ k + w \in 1..n /\ Up[j + w].id = Up[k + w].id
        BY <2>1, <2>4
      <4>2. \A a, b \in 1..n : Up[a].id = Up[b].id => a = b
        BY <1>1, <1>8 DEF AskedOnce
      <4> QED  BY <4>1, <4>2
    <3> QED  BY <1>8, <3>1
  <2>5. \A i \in Ids : i >= nextId => handling'[i] = "none"
    <3>1. \A i \in Ids : i >= nextId => i \notin asked
      BY <1>1, <1>10, RunsHaveIds DEF RpcTypes
    <3> QED  BY <1>1, <1>11, <3>1 DEF AskedOnce
  <2> QED  BY <1>4, <1>8, <2>3, <2>4, <2>5 DEF AskedOnce
<1>15. Down' = Down
  BY <1>4 DEF Down
<1>16. AnswersComeLast(Down)'
  <2>1. PICK d \in Nat : Down \in [1..d -> Tells]
    BY <1>1, DownIs
  <2>2. \A k \in DOMAIN Down : Down[k].id \in Ids
    BY <2>1, RunsHaveIds DEF Tells
  <2> QED  BY <1>1, <1>12, <1>15, <2>2 DEF AnswersComeLast
<1>17. Agrees(Down, 0, heard, outcome)'
  BY <1>1, <1>4, <1>12, <1>15, RunsHaveIds DEF Agrees
<1> QED  BY <1>13, <1>14, <1>16, <1>17 DEF RpcInv

\* What a server sends.
LEMMA SendsMessage ==
  ASSUME RpcTypes, NEW m \in Tells, toClient' = toClient \o EncodeFrame(m),
         clientBuffer' = clientBuffer
  PROVE  \E n \in Nat : /\ toClient' \in Seq(Pieces(Tells))
                        /\ IsStream(clientBuffer' \o toClient', Tells)
                        /\ DOMAIN Down = 1..n /\ DOMAIN Down' = 1..(n + 1)
                        /\ \A k \in 1..n : Down'[k] = Down[k] /\ Down[k] \in Tells
                        /\ Down'[n + 1] = m
<1> DEFINE n == Whole(clientBuffer \o toClient)
<1>1. /\ clientBuffer \in Seq(Pieces(Tells)) /\ toClient \in Seq(Pieces(Tells))
      /\ IsStream(clientBuffer \o toClient, Tells)
  BY DEF RpcTypes
<1>2. /\ toClient' \in Seq(Pieces(Tells)) /\ IsStream(clientBuffer' \o toClient', Tells)
      /\ n \in Nat /\ DOMAIN Down = 1..n /\ DOMAIN Down' = 1..(n + 1)
      /\ \A k \in 1..n : Down'[k] = Down[k]
      /\ Down'[n + 1] = m
  BY <1>1, PipeGrows DEF Down
<1>3. \A k \in 1..n : Down[k] \in Tells
  BY <1>1, MessagesOf DEF Down
<1> QED  BY <1>2, <1>3

LEMMA SendEventStep ==
  ASSUME RpcInv, NEW i \in Ids, SendEvent(i)
  PROVE  RpcInv'
<1> DEFINE m == [kind |-> "event", id |-> i]
<1>1. RpcTypes /\ AskedOnce(Up) /\ AnswersComeLast(Down) /\ Agrees(Down, 0, heard, outcome)
  BY DEF RpcInv
<1>2. /\ i \in Runs /\ handling[i] = "running"
      /\ told' = [told EXCEPT ![i] = told[i] + 1]
      /\ toClient' = toClient \o EncodeFrame(m)
      /\ UNCHANGED <<nextId, pendingIds, outcome, heard, clientBuffer, toServer, serverBuffer,
                    handling>>
  BY DEF SendEvent, ClientSide
<1>3. m \in Tells
  BY <1>2 DEF Tells
<1>4. PICK n \in Nat : /\ toClient' \in Seq(Pieces(Tells))
                       /\ IsStream(clientBuffer' \o toClient', Tells)
                       /\ DOMAIN Down = 1..n /\ DOMAIN Down' = 1..(n + 1)
                       /\ \A k \in 1..n : Down'[k] = Down[k] /\ Down[k] \in Tells
                       /\ Down'[n + 1] = m
  BY <1>1, <1>2, <1>3, SendsMessage
<1>5. \A j : IsEvent(m, j) <=> j = i
  BY DEF IsEvent
<1>6. m.kind # "response"
  OBVIOUS
<1> HIDE DEF m
<1>7. ASSUME NEW j, NEW k \in 0..n
      PROVE  /\ j # i => Later(Down', j, k) = Later(Down, j, k)
             /\ j = i => Cardinality(Later(Down', j, k)) = Cardinality(Later(Down, j, k)) + 1
  <2> DEFINE q == Down
             p == Down'
  <2>1. /\ DOMAIN q = 1..n /\ DOMAIN p = 1..(n + 1)
        /\ (\A l \in 1..n : p[l] = q[l]) /\ p[n + 1] = m
    BY <1>4
  <2> HIDE DEF q, p
  <2>2. /\ ~ IsEvent(m, j) => Later(p, j, k) = Later(q, j, k)
        /\ IsEvent(m, j) => Cardinality(Later(p, j, k)) = Cardinality(Later(q, j, k)) + 1
    BY <2>1, LaterAppends
  <2> QED  BY <1>5, <2>2 DEF q, p
<1>8. told' \in [Ids -> Nat] /\ told'[i] = told[i] + 1
      /\ (\A j \in Ids : told[j] \in Nat /\ heard[j] \in Nat /\ (j # i => told'[j] = told[j]))
  BY <1>1, <1>2 DEF RpcTypes
<1>9. RpcTypes'
  BY <1>1, <1>2, <1>4, <1>8 DEF RpcTypes
<1>10. AskedOnce(Up)'
  <2>1. Up' = Up
    BY <1>2 DEF Up
  <2> QED  BY <1>1, <1>2, <2>1 DEF AskedOnce
<1>11. AnswersComeLast(Down)'
  <2> SUFFICES ASSUME NEW k \in 1..(n + 1), Down'[k].kind = "response"
               PROVE  handling[Down'[k].id] = "done" /\ Later(Down', Down'[k].id, k) = {}
    BY <1>2, <1>4 DEF AnswersComeLast
  <2>1. k \in 1..n /\ k \in 0..n
    BY <1>4, <1>6
  <2>2. handling[Down[k].id] = "done" /\ Later(Down, Down[k].id, k) = {} /\ Down'[k] = Down[k]
    BY <1>1, <1>4, <2>1 DEF AnswersComeLast
  <2>3. Down[k].id # i
    BY <1>2, <2>2
  <2> QED  BY <1>7, <2>1, <2>2, <2>3
<1>12. Agrees(Down, 0, heard, outcome)'
  <2> SUFFICES ASSUME NEW j \in Ids
               PROVE  /\ heard[j] + Cardinality(Later(Down', j, 0)) = told'[j]
                      /\ outcome[j].how \in {"result", "error"} =>
                           handling[j] = "done" /\ Later(Down', j, 0) = {}
    BY <1>2 DEF Agrees
  <2>1. /\ heard[j] + Cardinality(Later(Down, j, 0)) = told[j]
        /\ outcome[j].how \in {"result", "error"} =>
             handling[j] = "done" /\ Later(Down, j, 0) = {}
    BY <1>1 DEF Agrees
  <2>2. 0 \in 0..n /\ j \in Ids
    BY RunsHaveIds
  <2>3. CASE j # i
    BY <1>7, <1>8, <2>1, <2>2, <2>3
  <2>4. CASE j = i
    <3>1. Cardinality(Later(Down', j, 0)) = Cardinality(Later(Down, j, 0)) + 1
      BY <1>7, <2>2, <2>4
    <3>2. Cardinality(Later(Down, j, 0)) \in Nat
      BY <1>4, LaterIsFinite
    <3>3. outcome[j].how \notin {"result", "error"}
      BY <1>2, <2>1, <2>4
    <3>4. heard[j] + Cardinality(Later(Down', j, 0)) = told'[j]
      BY <1>8, <2>1, <2>2, <2>4, <3>1, <3>2
    <3> QED  BY <3>3, <3>4
  <2> QED  BY <2>3, <2>4
<1> QED  BY <1>9, <1>10, <1>11, <1>12 DEF RpcInv

LEMMA RespondStep ==
  ASSUME RpcInv, NEW i \in Ids, Respond(i)
  PROVE  RpcInv'
<1>1. RpcTypes /\ AskedOnce(Up) /\ AnswersComeLast(Down) /\ Agrees(Down, 0, heard, outcome)
  BY DEF RpcInv
<1>2. /\ handling[i] = "running" /\ handling' = [handling EXCEPT ![i] = "done"]
      /\ UNCHANGED <<nextId, pendingIds, outcome, heard, clientBuffer, toServer, serverBuffer,
                    told>>
  BY DEF Respond, ClientSide
<1>3. PICK how \in {"result", "error"} :
        toClient' = toClient \o EncodeFrame([kind |-> "response", id |-> i, how |-> how, of |-> i])
  BY DEF Respond
<1> DEFINE m == [kind |-> "response", id |-> i, how |-> how, of |-> i]
<1>4. m \in Tells /\ m.kind = "response" /\ m.id = i
  BY DEF Tells
<1>5. \A j : ~ IsEvent(m, j)
  BY DEF IsEvent
<1>6. PICK n \in Nat : /\ toClient' \in Seq(Pieces(Tells))
                       /\ IsStream(clientBuffer' \o toClient', Tells)
                       /\ DOMAIN Down = 1..n /\ DOMAIN Down' = 1..(n + 1)
                       /\ \A k \in 1..n : Down'[k] = Down[k] /\ Down[k] \in Tells
                       /\ Down'[n + 1] = m
  BY <1>1, <1>2, <1>3, <1>4, SendsMessage
<1> HIDE DEF m
<1>7. \A j : \A k \in 0..n : Later(Down', j, k) = Later(Down, j, k)
  <2> TAKE j
  <2> TAKE k \in 0..n
  <2> DEFINE q == Down
             p == Down'
  <2>1. /\ DOMAIN q = 1..n /\ DOMAIN p = 1..(n + 1)
        /\ (\A l \in 1..n : p[l] = q[l]) /\ p[n + 1] = m
    BY <1>6
  <2> HIDE DEF q, p
  <2>2. ~ IsEvent(m, j) => Later(p, j, k) = Later(q, j, k)
    BY <2>1, LaterAppends
  <2> QED  BY <1>5, <2>2 DEF q, p
<1>8. /\ handling' \in [Ids -> {"none", "running", "done"}] /\ handling'[i] = "done"
      /\ \A j \in Ids : j # i => handling'[j] = handling[j]
  BY <1>1, <1>2 DEF RpcTypes
<1>9. RpcTypes'
  BY <1>1, <1>2, <1>6, <1>8 DEF RpcTypes
<1>10. AskedOnce(Up)'
  <2>1. Up' = Up
    BY <1>2 DEF Up
  <2>2. PICK u \in Nat : Up \in [1..u -> Asks]
    BY <1>1, UpIs
  <2>3. \A k \in DOMAIN Up : Up[k].id \in Ids
    BY <2>2 DEF Asks
  <2>4. \A j \in Ids : handling[j] = "none" => handling'[j] = "none"
    BY <1>2, <1>8
  <2> QED  BY <1>1, <1>2, <2>1, <2>3, <2>4 DEF AskedOnce
<1>11. AnswersComeLast(Down)'
  <2> SUFFICES ASSUME NEW k \in 1..(n + 1), Down'[k].kind = "response"
               PROVE  handling'[Down'[k].id] = "done" /\ Later(Down', Down'[k].id, k) = {}
    BY <1>6 DEF AnswersComeLast
  <2>1. CASE k = n + 1
    <3>1. handling'[Down'[k].id] = "done"
      BY <1>4, <1>6, <1>8, <2>1
    <3>2. Later(Down', Down'[k].id, k) = {}
      BY <1>6, <2>1 DEF Later
    <3> QED  BY <3>1, <3>2
  <2>2. CASE k # n + 1
    <3>1. k \in 1..n /\ k \in 0..n
      BY <2>2
    <3>2. /\ handling[Down[k].id] = "done" /\ Later(Down, Down[k].id, k) = {}
          /\ Down'[k] = Down[k] /\ Down[k] \in Tells
      BY <1>1, <1>6, <3>1 DEF AnswersComeLast
    <3>3. Down[k].id \in Ids
      BY <3>2, RunsHaveIds DEF Tells
    <3> QED  BY <1>7, <1>8, <3>1, <3>2, <3>3
  <2> QED  BY <2>1, <2>2
<1>12. Agrees(Down, 0, heard, outcome)'
  <2>1. 0 \in 0..n
    OBVIOUS
  <2>2. \A j \in Ids : Later(Down', j, 0) = Later(Down, j, 0)
    BY <1>7, <2>1
  <2>3. \A j \in Ids : handling[j] = "done" => handling'[j] = "done"
    BY <1>8, RunsHaveIds
  <2> QED  BY <1>1, <1>2, <2>2, <2>3 DEF Agrees
<1> QED  BY <1>9, <1>10, <1>11, <1>12 DEF RpcInv

LEMMA RpcStep == RpcInv /\ [RpcNext]_rpcVars => RpcInv'
<1> SUFFICES ASSUME RpcInv, [RpcNext]_rpcVars PROVE RpcInv'
  OBVIOUS
<1>1. ASSUME UNCHANGED <<nextId, pendingIds, outcome, heard, toServer, toClient,
                         serverBuffer, clientBuffer, handling, told>>
      PROVE  RpcInv'
  <2>1. Up' = Up /\ Down' = Down
    BY <1>1 DEF Up, Down
  <2>2. RpcTypes'
    BY <1>1 DEF RpcInv, RpcTypes
  <2> QED  BY <1>1, <2>1, <2>2 DEF RpcInv, AskedOnce, AnswersComeLast, Agrees
<1>2. CASE ServerExits
  BY <1>1, <1>2 DEF ServerExits, ClientSide
<1>3. CASE UNCHANGED rpcVars
  BY <1>1, <1>3 DEF rpcVars
<1> QED  BY <1>2, <1>3, RequestStep, ClientReceivesStep, ClientClosesStep, ServerReceivesStep,
            SendEventStep, RespondStep DEF RpcNext

\* What the client heard of a run was told of it, and no more is told than there is.
RpcBounds ==
  /\ isOpen \in BOOLEAN /\ serverUp \in BOOLEAN
  /\ \A i \in Ids : told[i] <= MaxEvents

LEMMA RpcBounded == RpcInit => RpcBounds
  BY RpcAssumption, RunsHaveIds DEF RpcInit, RpcBounds

LEMMA RpcStaysBounded == RpcInv /\ RpcBounds /\ [RpcNext]_rpcVars => RpcBounds'
<1> SUFFICES ASSUME RpcInv, RpcBounds, [RpcNext]_rpcVars PROVE RpcBounds'
  OBVIOUS
<1>1. ASSUME NEW i \in Ids, SendEvent(i)  PROVE RpcBounds'
  <2>1. told \in [Ids -> Nat] /\ told[i] < MaxEvents /\ told' = [told EXCEPT ![i] = told[i] + 1]
    BY <1>1 DEF RpcInv, RpcTypes, SendEvent
  <2>2. \A j \in Ids : told'[j] <= MaxEvents
    BY <2>1, RpcAssumption DEF RpcBounds
  <2> QED  BY <1>1, <2>2 DEF RpcBounds, SendEvent, ClientSide
<1>2. ASSUME NEW i \in Ids, Respond(i)  PROVE RpcBounds'
  BY <1>2 DEF RpcBounds, Respond, ClientSide
<1>3. CASE Request
  BY <1>3 DEF RpcBounds, Request, ServerSide
<1>4. CASE ClientReceives
  BY <1>4 DEF RpcBounds, ClientReceives, ServerSide
<1>5. CASE ClientCloses
  BY <1>5 DEF RpcBounds, ClientCloses, ServerSide
<1>6. CASE ServerReceives
  BY <1>6 DEF RpcBounds, ServerReceives, ClientSide
<1>7. CASE ServerExits
  BY <1>7 DEF RpcBounds, ServerExits, ClientSide
<1>8. CASE UNCHANGED rpcVars
  BY <1>8 DEF RpcBounds, rpcVars
<1> QED  BY <1>1, <1>2, <1>3, <1>4, <1>5, <1>6, <1>7, <1>8 DEF RpcNext

LEMMA RpcIsTyped == RpcInv /\ RpcBounds => RpcTypeOK
<1> SUFFICES ASSUME RpcInv, RpcBounds PROVE RpcTypeOK
  OBVIOUS
<1>1. RpcTypes /\ Agrees(Down, 0, heard, outcome)
  BY DEF RpcInv
<1>2. PICK d \in Nat : Down \in [1..d -> Tells]
  BY <1>1, DownIs
<1>3. ASSUME NEW i \in Ids
      PROVE  /\ outcome[i].how \in {"none", "result", "error", "closed"}
             /\ heard[i] \in 0..MaxEvents /\ told[i] \in 0..MaxEvents
             /\ handling[i] \in {"none", "running", "done"}
  <2>1. outcome[i] \in Outcomes /\ heard[i] \in Nat /\ told[i] \in Nat /\ told[i] <= MaxEvents
    BY <1>1 DEF RpcTypes, RpcBounds
  <2>2. outcome[i].how \in {"none", "result", "error", "closed"}
    BY <2>1 DEF Outcomes, Unsettled
  <2>3. heard[i] + Cardinality(Later(Down, i, 0)) = told[i]
    BY <1>1 DEF Agrees
  <2>4. Cardinality(Later(Down, i, 0)) \in Nat
    BY <1>2, LaterIsFinite
  <2>5. heard[i] <= told[i]
    BY <2>1, <2>3, <2>4
  <2>6. heard[i] \in 0..MaxEvents /\ told[i] \in 0..MaxEvents
    BY <2>1, <2>5, RpcAssumption
  <2> QED  BY <1>1, <2>2, <2>6 DEF RpcTypes
<1> QED  BY <1>1, <1>3 DEF RpcTypes, RpcBounds, RpcTypeOK

\* When a client is told that a run is over it has been told everything that
\* happened in it, wherever the pipes cut what is sent and in whatever order the
\* requests are answered (server.ts:28-41).
THEOREM EventsAlwaysPrecedeTheAnswer == RpcSpec => []EventsBeforeAnswer
<1>1. RpcInv => EventsBeforeAnswer
  <2> SUFFICES ASSUME RpcInv, NEW i \in Runs, outcome[i].how \in {"result", "error"}
               PROVE  heard[i] = told[i]
    BY DEF EventsBeforeAnswer
  <2>1. heard[i] + Cardinality({}) = told[i]
    BY RunsHaveIds DEF RpcInv, Agrees
  <2>2. Cardinality({}) = 0
    BY FS_EmptySet
  <2>3. heard[i] \in Nat
    BY RunsHaveIds DEF RpcInv, RpcTypes
  <2> QED  BY <2>1, <2>2, <2>3
<1> QED  BY <1>1, RpcStart, RpcStep, PTL DEF RpcSpec

-----------------------------------------------------------------------------
(* The server: whichever of the three moves, the others stand still.         *)

\* The three at once.  That what a client heard of any request is never more than
\* the server told, which bounds it, takes the order of the messages on their way.
ServerInv == AcpInv /\ ShellInv /\ RpcInv /\ RpcBounds

\* Prompts, pipes and processes have their types in every state of a server, for
\* any prompts, requests, runs, events and processes (agent-methods.ts,
\* agent-rpc/src/client.ts and server.ts, shell.ts).
THEOREM ServerKeepsTypes == ServerSpec => []ServerTypeOK
<1>1. ServerInit => ServerInv
  BY AcpStart, ShellStart, RpcStart, RpcBounded DEF ServerInit, ServerInv
<1>2. ServerInv /\ [ServerNext]_serverVars => ServerInv'
  <2>1. [ServerNext]_serverVars => [AcpNext]_acpVars /\ [ShellNext]_shellVars /\ [RpcNext]_rpcVars
    BY DEF ServerNext, Converses, Serves, Executes, serverVars
  <2> QED  BY <2>1, AcpStep, ShellStep, RpcStep, RpcStaysBounded DEF ServerInv
<1>3. ServerInv => ServerTypeOK
  BY RpcIsTyped DEF ServerInv, ServerTypeOK, AcpInv, ShellInv
<1> QED  BY <1>1, <1>2, <1>3, PTL DEF ServerSpec

=============================================================================

-------------------------- MODULE WorkspaceProofs --------------------------
(***************************************************************************)
(* The workspace as it is explored: one part moves, the others stand still *)
(* in an initial state.  Every step of the workspace is a step of each of  *)
(* its parts or leaves its variables alone, so that what is proved of a    *)
(* part by itself holds of it here.                                        *)
(***************************************************************************)
EXTENDS MCWorkspace, UserTreeProofs, StoreProofs, StreamProofs, OutputProofs

-----------------------------------------------------------------------------
(* The workspace runs its parts.                                             *)

LEMMA RunsStash == WorkspaceSpec => StashSpec
<1>1. WorkspaceInit => StashInit
  BY Zenon DEF WorkspaceInit
<1>2. [WorkspaceNext]_workspaceVars => [StashNext]_stashVars
  BY DEF WorkspaceNext, workspaceVars, elsewhereVars
<1> QED  BY <1>1, <1>2, PTL DEF WorkspaceSpec, StashSpec

LEMMA RunsSnapshot == WorkspaceSpec => SnapshotSpec
<1>1. WorkspaceInit => SnapshotInit
  BY Zenon DEF WorkspaceInit
<1>2. [WorkspaceNext]_workspaceVars => [SnapshotNext]_snapshotVars
  BY DEF WorkspaceNext, workspaceVars, elsewhereVars
<1> QED  BY <1>1, <1>2, PTL DEF WorkspaceSpec, SnapshotSpec

LEMMA RunsMemory == WorkspaceSpec => MemorySpec
<1>1. WorkspaceInit => MemoryInit
  BY Zenon DEF WorkspaceInit
<1>2. [WorkspaceNext]_workspaceVars => [MemoryNext]_memoryVars
  BY DEF WorkspaceNext, workspaceVars, elsewhereVars
<1> QED  BY <1>1, <1>2, PTL DEF WorkspaceSpec, MemorySpec

LEMMA RunsCredential == WorkspaceSpec => CredentialSpec
<1>1. WorkspaceInit => CredentialInit
  BY Zenon DEF WorkspaceInit
<1>2. [WorkspaceNext]_workspaceVars => [CredentialNext]_credentialVars
  BY DEF WorkspaceNext, workspaceVars, elsewhereVars
<1> QED  BY <1>1, <1>2, PTL DEF WorkspaceSpec, CredentialSpec

LEMMA RunsEval == WorkspaceSpec => EvalSpec
<1>1. WorkspaceInit => EvalInit
  BY Zenon DEF WorkspaceInit
<1>2. [WorkspaceNext]_workspaceVars => [EvalNext]_evalVars
  BY DEF WorkspaceNext, workspaceVars, elsewhereVars
<1> QED  BY <1>1, <1>2, PTL DEF WorkspaceSpec, EvalSpec

LEMMA RunsTranscript == WorkspaceSpec => TranscriptSpec
<1>1. WorkspaceInit => TranscriptInit
  BY Zenon DEF WorkspaceInit
<1>2. [WorkspaceNext]_workspaceVars => [TranscriptNext]_transcriptVars
  BY DEF WorkspaceNext, workspaceVars, elsewhereVars
<1> QED  BY <1>1, <1>2, PTL DEF WorkspaceSpec, TranscriptSpec

LEMMA RunsStream == WorkspaceSpec => StreamSpec
<1>1. WorkspaceInit => StreamInit
  BY Zenon DEF WorkspaceInit
<1>2. [WorkspaceNext]_workspaceVars => [StreamNext]_streamVars
  BY DEF WorkspaceNext, workspaceVars, elsewhereVars
<1> QED  BY <1>1, <1>2, PTL DEF WorkspaceSpec, StreamSpec

LEMMA RunsAnthropic == WorkspaceSpec => AnthropicSpec
<1>1. WorkspaceInit => AnthropicInit
  BY Zenon DEF WorkspaceInit
<1>2. [WorkspaceNext]_workspaceVars => [AnthropicNext]_anthropicVars
  BY DEF WorkspaceNext, workspaceVars, elsewhereVars
<1> QED  BY <1>1, <1>2, PTL DEF WorkspaceSpec, AnthropicSpec

LEMMA RunsEdit == WorkspaceSpec => EditSpec
<1>1. WorkspaceInit => EditInit
  BY Zenon DEF WorkspaceInit
<1>2. [WorkspaceNext]_workspaceVars => [EditNext]_editVars
  BY DEF WorkspaceNext, workspaceVars, elsewhereVars
<1> QED  BY <1>1, <1>2, PTL DEF WorkspaceSpec, EditSpec

LEMMA RunsCapability == WorkspaceSpec => CapabilitySpec
<1>1. WorkspaceInit => CapabilityInit
  BY Zenon DEF WorkspaceInit
<1>2. [WorkspaceNext]_workspaceVars => [CapabilityNext]_capabilityVars
  BY DEF WorkspaceNext, workspaceVars, elsewhereVars
<1> QED  BY <1>1, <1>2, PTL DEF WorkspaceSpec, CapabilitySpec

LEMMA RunsEditor == WorkspaceSpec => EditorSpec
<1>1. WorkspaceInit => EditorInit
  BY Zenon DEF WorkspaceInit
<1>2. [WorkspaceNext]_workspaceVars => [EditorNext]_editorVars
  BY DEF WorkspaceNext, workspaceVars, elsewhereVars
<1> QED  BY <1>1, <1>2, PTL DEF WorkspaceSpec, EditorSpec

LEMMA RunsNative == WorkspaceSpec => NativeSpec
<1>1. WorkspaceInit => NativeInit
  BY Zenon DEF WorkspaceInit
<1>2. [WorkspaceNext]_workspaceVars => [NativeNext]_nativeVars
  BY DEF WorkspaceNext, workspaceVars, elsewhereVars, outputsVars
<1> QED  BY <1>1, <1>2, PTL DEF WorkspaceSpec, NativeSpec

LEMMA RunsReply == WorkspaceSpec => ReplySpec
<1>1. WorkspaceInit => ReplyInit
  BY Zenon DEF WorkspaceInit
<1>2. [WorkspaceNext]_workspaceVars => [ReplyNext]_replyVars
  BY DEF WorkspaceNext, workspaceVars, elsewhereVars, outputsVars
<1> QED  BY <1>1, <1>2, PTL DEF WorkspaceSpec, ReplySpec

LEMMA RunsOutput == WorkspaceSpec => OutputSpec
<1>1. WorkspaceInit => OutputInit
  BY Zenon DEF WorkspaceInit
<1>2. [WorkspaceNext]_workspaceVars => [OutputNext]_outputVars
  BY DEF WorkspaceNext, workspaceVars, elsewhereVars, outputsVars
<1> QED  BY <1>1, <1>2, PTL DEF WorkspaceSpec, OutputSpec

-----------------------------------------------------------------------------
(* The types of the parts.                                                   *)

LEMMA StashTypes == StashSpec => []StashTypeOK
<1>1. ASSUME StashInv PROVE StashTypeOK
  <2> USE <1>1 DEF StashInv, GitInv
  <2>1. MadeSoFar \subseteq Things
    BY DEF RepositoryOK, MadeSoFar, Things
  <2>2. wt \subseteq Things /\ idx \subseteq Things
    BY <2>1 DEF RepositoryOK
  <2>3. branch \in Seq(SUBSET Things)
    BY <2>1, SeqMonotonic DEF RepositoryOK
  <2>4. minted \in 0..MaxShas /\ stash \in Seq(Entries)
    BY DEF StashOK
  <2>5. made \subseteq Works
    BY DEF RepositoryOK
  <2>6. moves \in 0..MaxMoves /\ disturbed \subseteq Runs /\ popped \in [Runs -> Nat \cup {NoSha}]
    BY DEF RunsOK
  <2>7. run \in [Runs -> Jobs] /\ mine \in [Runs -> 0..minted \cup {NoSha}]
    BY DEF RunsOK
  <2>8. mine \in [Runs -> Nat \cup {NoSha}]
    BY <2>4, <2>7
  <2> QED  BY <2>2, <2>3, <2>4, <2>5, <2>6, <2>7, <2>8 DEF StashTypeOK, Jobs
<1> QED  BY <1>1, StashInvariance, PTL

LEMMA MemoryHasTypes == MemorySpec => []MemoryTypeOK
<1>1. MemoryInv /\ [MemoryNext]_memoryVars => MemoryInv'
  BY MemoryStep
<1>2. MemoryInv => MemoryTypeOK
  BY DEF MemoryInv, MemoryTypes
<1> QED  BY <1>1, <1>2, MemoryStart, PTL DEF MemorySpec

LEMMA CredentialHasTypes == CredentialSpec => []CredentialTypeOK
<1>1. CredentialInv => CredentialTypeOK
  BY DEF CredentialInv, CredentialTypes
<1> QED  BY <1>1, CredentialStart, CredentialStep, PTL DEF CredentialSpec

LEMMA EvalHasTypes == EvalSpec => []EvalTypeOK
<1>1. EvalInv /\ [EvalNext]_evalVars => EvalInv'
  BY EvalStep
<1>2. EvalInv => EvalTypeOK
  BY DEF EvalInv, EvalTypes
<1> QED  BY <1>1, <1>2, EvalStart, PTL DEF EvalSpec

LEMMA TranscriptHasTypes == TranscriptSpec => []TranscriptTypeOK
<1>1. ASSUME TranscriptInv PROVE TranscriptTypeOK
  <2>1. messages \in Seq(MessageRecords)
    BY <1>1 DEF TranscriptInv, Follows
  <2>2. \A m \in Range(messages) : m \in MessageRecords
    BY <2>1 DEF Range
  <2>3. \A m \in MessageRecords : /\ m.role \in {"system", "user", "assistant", "tool"}
                                  /\ m.size \in Nat /\ m.pruned \in BOOLEAN
    BY DEF MessageRecords
  <2> QED  BY <1>1, <2>2, <2>3 DEF TranscriptInv, TranscriptTypes, TranscriptTypeOK
<1> QED  BY <1>1, TranscriptInvInit, TranscriptInvNext, PTL DEF TranscriptSpec

LEMMA EditorHasTypes == EditorSpec => []EditorTypeOK
<1>1. ASSUME EditorInv PROVE EditorTypes
  BY <1>1 DEF EditorInv
<1>2. EditorInit => (cached \/ ~serverUp)
  BY DEF EditorInit
<1>3. ASSUME cached \/ ~serverUp, [EditorNext]_editorVars PROVE (cached \/ ~serverUp)'
  <2>1. CASE UNCHANGED editorVars
    BY <1>3, <2>1 DEF editorVars
  <2>2. ASSUME NEW t \in Tasks, NEW kind \in Kinds, Command(t, kind) PROVE (cached \/ ~serverUp)'
    BY <2>2 DEF Command, GetConnection
  <2>3. ASSUME NEW t \in Tasks, PickRun(t) \/ PickCheckpoint(t) \/ AskApproveOrReject(t)
        PROVE  (cached \/ ~serverUp)'
    BY <1>3, <2>3 DEF PickRun, PickCheckpoint, AskApproveOrReject
  <2>4. CASE Deliver
    BY <1>3, <2>4 DEF Deliver
  <2>5. CASE Deactivate \/ ServerExits
    BY <1>3, <2>5 DEF Deactivate, ServerExits
  <2>6. CASE Serve \/ LoopEnds
    BY <1>3, <2>6 DEF Serve, LoopEnds, clientVars
  <2> QED  BY <1>3, <2>1, <2>2, <2>3, <2>4, <2>5, <2>6, Zenon DEF EditorNext
<1>4. EditorTypes /\ (cached \/ ~serverUp) => EditorTypeOK
  BY DEF EditorTypes, EditorTypeOK, TaskStates
<1> QED  BY <1>1, <1>2, <1>3, <1>4, EditorStart, EditorStep, PTL DEF EditorSpec

\* A parser is always one, also when its stream is over.
StreamTypes == parser.state \in {"text", "tool_call", "scratch_pad"}
               /\ finish \in {"none", "stop", "tool_use", "length", "error"}

LEMMA StreamHasTypes == StreamSpec => []StreamTypeOK
<1>1. StreamInit => StreamTypes
  BY NewParserIs DEF StreamInit, StreamTypes
<1>2. ASSUME StreamInv, StreamTypes, [StreamNext]_streamVars PROVE StreamTypes'
  <2>1. CASE UNCHANGED streamVars
    BY <1>2, <2>1 DEF StreamTypes, streamVars
  <2>2. CASE RequestFails \/ InBandError
    BY <1>2, <2>2 DEF RequestFails, InBandError, StreamTypes
  <2>3. \A p : End(p).state = "text"
    BY DEF End, NewParser
  <2>4. CASE Finishes
    BY <1>2, <2>3, <2>4 DEF Finishes, FinishReason, StreamTypes
  <2>5. CASE EndsUnfinished
    BY <1>2, <2>3, <2>5 DEF EndsUnfinished, StreamTypes
  <2>6. CASE Chunk
    <3>1. PICK k \in 1..(Len(message) - fed) :
            parser' = Push(parser, SubSeq(message, fed + 1, fed + k)) /\ finish' = finish
      BY <2>6 DEF Chunk
    <3>2. message \in Seq(MessageWords) /\ fed \in 0..Len(message) /\ Len(message) \in Nat
      BY <1>2, MessagesAreWords DEF StreamInv
    <3>3. SubSeq(message, fed + 1, fed + k) \in Seq(MessageWords)
      BY <3>2
    <3>4. SubSeq(message, 1, fed) \in Seq(MessageWords)
      BY <3>2
    <3>5. parser = Push(NewParser, SubSeq(message, 1, fed))
      BY <1>2, <2>6 DEF StreamInv, Chunk
    <3>6. parser \in Parsers
      BY <3>4, <3>5, NewParserIs, PushIs
    <3>7. parser' \in Parsers
      BY <3>1, <3>3, <3>6, PushIs
    <3>8. parser'.state \in {"text", "tool_call", "scratch_pad"}
      BY <3>7 DEF Parsers
    <3> QED  BY <1>2, <3>1, <3>8 DEF StreamTypes
  <2> QED  BY <1>2, <2>1, <2>2, <2>4, <2>5, <2>6 DEF StreamNext
<1>3. StreamInv /\ StreamTypes => StreamTypeOK
  BY DEF StreamInv, StreamTypes, StreamTypeOK
<1> QED  BY <1>1, <1>2, <1>3, StreamInvInit, StreamInvNext, PTL DEF StreamSpec

FinishReasons == {"none", "stop", "tool_use", "length", "error"}

LEMMA AnthropicHasTypes == AnthropicSpec => []AnthropicTypeOK
<1>1. AnthropicInit => finishReason \in FinishReasons
  BY DEF AnthropicInit, StartsReply, FinishReasons
<1>2. ASSUME finishReason \in FinishReasons, [AnthropicNext]_anthropicVars PROVE (finishReason \in FinishReasons)'
  <2>1. CASE UNCHANGED anthropicVars
    BY <1>2, <2>1 DEF anthropicVars
  <2>2. CASE NoResponse \/ ErrorEvent \/ StreamDrops
    BY <1>2, <2>2 DEF NoResponse, ErrorEvent, StreamDrops, FinishReasons
  <2>3. CASE MessageDelta
    BY <1>2, <2>3 DEF MessageDelta, MapStopReason, FinishReasons
  <2>4. CASE AsksAgain
    BY <1>2, <2>4 DEF AsksAgain, StartsReply, FinishReasons
  <2>5. ASSUME NEW i \in DOMAIN reply, ContentBlockStart(i) \/ ContentBlockDelta(i)
        PROVE  finishReason' = finishReason
    BY <2>5 DEF ContentBlockStart, ContentBlockDelta
  <2> QED  BY <1>2, <2>1, <2>2, <2>3, <2>4, <2>5 DEF AnthropicNext
<1>3. ASSUME AnthropicInv, finishReason \in FinishReasons PROVE AnthropicTypeOK
  <2>1. reply \in ServerTurns
    BY <1>3 DEF AnthropicInv
  <2>2. PICK n \in 0..Len(reply) : IsStreamed(n)
    BY <1>3 DEF AnthropicInv
  <2>3. Len(reply) \in Nat /\ DOMAIN reply = 1..Len(reply)
    BY <2>1, TurnIs
  <2>4. Counts(reply, sent, n) /\ blocksByIndex = BlocksStarted(reply, n)
    BY <2>2 DEF IsStreamed
  <2>5. \A i \in 1..Len(reply) : sent[i] \in Nat /\ sent[i] <= Len(reply[i].parts) + 1 /\ (sent[i] > 0 <=> i <= n)
    BY <2>3, <2>4 DEF Counts
  <2>6. {i \in DOMAIN reply : sent[i] > 0} = 1..n
    BY <2>2, <2>3, <2>5
  <2>7. Len(blocksByIndex) = n
    BY <2>2, <2>3, <2>4 DEF BlocksStarted
  <2>8. Cardinality(1..n) = n
    BY <2>2, <2>3, FS_Interval
  <2>9. \A i \in DOMAIN reply : Len(reply[i].parts) \in Nat
    BY <2>1, AnthropicAssumption
  <2>10. \A i \in DOMAIN reply : sent[i] \in 0..(Len(reply[i].parts) + 1)
    BY <2>3, <2>5, <2>9
  <2> QED  BY <1>3, <2>6, <2>7, <2>8, <2>10 DEF AnthropicTypeOK, FinishReasons
<1> QED  BY <1>1, <1>2, <1>3, AnthropicInvInit, AnthropicInvNext, PTL DEF AnthropicSpec

LEMMA NativeHasTypes == NativeSpec => []NativeTypeOK
<1> DEFINE Reasons == {"none", "stop", "tool_use", "length", "error", "thrown"}
<1>1. NativeInit => gathered.finishReason \in Reasons
  BY DEF NativeInit
<1>2. ASSUME NativeInv, gathered.finishReason \in Reasons, [NativeNext]_nativeVars
      PROVE (gathered.finishReason \in Reasons)'
  <2>1. IsGathered(gathered)
    BY <1>2 DEF NativeInv
  <2>2. CASE UNCHANGED gathered
    BY <1>2, <2>2
  <2>3. CASE UNCHANGED nativeVars \/ Reads \/ Disconnects \/ DropsRest \/ PassesOver
    BY <2>2, <2>3 DEF nativeVars, Reads, Disconnects, DropsRest, PassesOver
  <2>4. CASE Text \/ BeginsCall \/ ContinuesCall
    BY <1>2, <2>1, <2>4 DEF Text, BeginsCall, ContinuesCall, IsGathered
  <2>5. CASE TurnFinishes
    BY <1>2, <2>1, <2>5 DEF TurnFinishes, MapsFinishReason, IsGathered
  <2>6. CASE ReadThrows \/ ErrorChunk \/ NoStream
    BY <1>2, <2>1, <2>6 DEF ReadThrows, ErrorChunk, NoStream, IsGathered
  <2>7. CASE SaysDone \/ RunsOut
    BY <1>2, <2>1, <2>7 DEF SaysDone, RunsOut, EndsStream, IsGathered
  <2> QED  BY <1>2, <2>3, <2>4, <2>5, <2>6, <2>7 DEF NativeNext
<1>3. ASSUME NativeInv, gathered.finishReason \in Reasons PROVE NativeTypeOK
  <2>1. PICK n \in 0..Len(events) : Gathers(n)
    BY <1>3 DEF NativeInv
  <2>2. gathered.calls = CallsUpTo(events, n, callBuffers) /\ HasBuffers(events, n, callBuffers)
    BY <2>1 DEF Gathers
  <2>3. Len(callBuffers) \in Nat
    BY <2>2 DEF HasBuffers
  <2>4. Len(gathered.calls) = Len(callBuffers)
    BY <2>2, <2>3 DEF CallsUpTo
  <2> QED  BY <1>3, <2>4 DEF NativeInv, NativeTypeOK, WireLength
<1> HIDE DEF Reasons
<1> QED  BY <1>1, <1>2, <1>3, NativeInvInit, NativeInvNext, PTL DEF NativeSpec

\* As many decisions as answers at most, and every file is one of the outputs.

\* What every call does: at most one decision, one answer, outputs in files.
Decides ==
  \/ UNCHANGED decisions
  \/ \E d : decisions' = Append(decisions, d) /\ d.decision \in {"ALLOW", "ASK"}
AnswersOnce == \E a : answers' = Append(answers, a)
KeepsOutputs == Range(evidence') \subseteq Range(evidence) \cup Outputs

LEMMA DecidesOnce == ASSUME NEW r, Decided(r) PROVE Decides
<1>1. Decide(r) \in {"ALLOW", "ASK"}
  BY DEF Decide
<1> QED  BY <1>1 DEF Decided, Decides

LEMMA TruncatedIsAnOutput ==
  ASSUME NEW text \in Outputs, NEW kind, NEW label
  PROVE  Truncate(text, kind, label).full \in Outputs
BY DEF Truncate

LEMMA SavesOutputs ==
  ASSUME NEW outs, Saves(outs), \A o \in Range(outs) : o.full \in Outputs
  PROVE  KeepsOutputs
<1> DEFINE inFiles == {o \in Range(outs) : o.ref # NoRef}
<1>1. evidence' = [f \in DOMAIN evidence \cup {o.ref : o \in inFiles} |->
                     IF \E o \in inFiles : o.ref = f
                     THEN (CHOOSE o \in inFiles : o.ref = f).full ELSE evidence[f]]
  BY DEF Saves
<1>2. ASSUME NEW f \in DOMAIN evidence' PROVE evidence'[f] \in Range(evidence) \cup Outputs
  <2>1. CASE \E o \in inFiles : o.ref = f
    BY <1>1, <1>2, <2>1
  <2>2. CASE ~\E o \in inFiles : o.ref = f
    <3>1. f \in DOMAIN evidence /\ evidence'[f] = evidence[f]
      BY <1>1, <1>2, <2>2
    <3> QED  BY <3>1 DEF Range
  <2> QED  BY <2>1, <2>2
<1> QED  BY <1>2 DEF KeepsOutputs, Range

LEMMA EveryCallAnswers ==
  ASSUME OutputNext
  PROVE  Decides /\ AnswersOnce /\ KeepsOutputs
<1>0. UNCHANGED evidence => KeepsOutputs
  BY DEF KeepsOutputs
<1>1. CASE Shell
  <2>1. PICK c \in ShellCommands, stdout \in Outputs, stderr \in Outputs :
          LET outs == <<Truncate(stdout, "log", "shell-stdout"), Truncate(stderr, "log", "shell-stderr")>>
          IN /\ Decided(Execute(c.class, c.destructive))
             /\ \/ \E code : Answers("shell", code, <<>>) /\ Untouched
                \/ Saves(outs) /\ \E code : Answers("shell", code, outs)
    BY <1>1 DEF Shell
  <2> DEFINE out == Truncate(stdout, "log", "shell-stdout")
             err == Truncate(stderr, "log", "shell-stderr")
  <2>2. out.full \in Outputs /\ err.full \in Outputs
    BY TruncatedIsAnOutput
  <2>3. Range(<<out, err>>) = {out, err}
    BY DEF Range
  <2> HIDE DEF out, err
  <2>4. Saves(<<out, err>>) => KeepsOutputs
    BY <2>2, <2>3, SavesOutputs
  <2> USE DEF out, err
  <2>5. KeepsOutputs
    BY <1>0, <2>1, <2>4 DEF Untouched
  <2>6. AnswersOnce
    BY <2>1 DEF Answers, AnswersOnce
  <2> QED  BY <2>1, <2>5, <2>6, DecidesOnce
<1>2. CASE Process
  <2>1. Decides
    BY <1>2, DecidesOnce DEF Process
  <2>2. AnswersOnce
    BY <1>2 DEF Process, Answers, AnswersOnce
  <2> QED  BY <1>0, <1>2, <2>1, <2>2 DEF Process, Untouched
<1>3. CASE Git
  <2>1. PICK op \in GitLabels, stdout \in Outputs :
          LET outs == <<Truncate(stdout, "log", op)>>
          IN /\ Decided(Execute(op, FALSE))
             /\ \/ Answers("git", "ok", outs) /\ Saves(outs)
                \/ Answers("git", "git-error", <<>>) /\ Untouched
    BY <1>3 DEF Git
  <2> DEFINE out == Truncate(stdout, "log", op)
  <2>2. out.full \in Outputs
    BY TruncatedIsAnOutput
  <2>3. Range(<<out>>) = {out}
    BY DEF Range
  <2> HIDE DEF out
  <2>4. Saves(<<out>>) => KeepsOutputs
    BY <2>2, <2>3, SavesOutputs
  <2> USE DEF out
  <2>5. KeepsOutputs
    BY <1>0, <2>1, <2>4 DEF Untouched
  <2>6. AnswersOnce
    BY <2>1 DEF Answers, AnswersOnce
  <2> QED  BY <2>1, <2>5, <2>6, DecidesOnce
<1>4. CASE RunStage
  <2>1. PICK label \in StageLabels, stdout \in Outputs :
          LET outs == <<Truncate(stdout, "test", label)>>
          IN Answers("verification", "ok", outs) /\ Saves(outs)
    BY <1>4 DEF RunStage
  <2> DEFINE out == Truncate(stdout, "test", label)
  <2>2. out.full \in Outputs
    BY TruncatedIsAnOutput
  <2>3. Range(<<out>>) = {out}
    BY DEF Range
  <2>6. AnswersOnce
    BY <2>1 DEF Answers, AnswersOnce
  <2>7. Saves(<<out>>)
    BY <2>1
  <2> HIDE DEF out
  <2>4. KeepsOutputs
    BY <2>2, <2>3, <2>7, SavesOutputs
  <2> QED  BY <1>4, <2>4, <2>6 DEF RunStage, Decides
<1>5. CASE ReadsFile
  <2>1. Decides
    BY <1>5, DecidesOnce DEF ReadsFile, Decides
  <2>2. AnswersOnce
    BY <1>5 DEF ReadsFile, AnswersOnce
  <2> QED  BY <1>0, <1>5, <2>1, <2>2 DEF ReadsFile, Untouched
<1>6. CASE Search
  <2>1. Decides
    BY <1>6, DecidesOnce DEF Search
  <2>2. AnswersOnce
    BY <1>6 DEF Search, AnswersOnce
  <2> QED  BY <1>0, <1>6, <2>1, <2>2 DEF Search, Untouched
<1> QED  BY <1>1, <1>2, <1>3, <1>4, <1>5, <1>6 DEF OutputNext

OutputTypes ==
  /\ OutputTypeOK
  /\ decisions \in Seq(Range(decisions)) /\ answers \in Seq(Range(answers))

LEMMA OutputHasTypes == OutputSpec => []OutputTypeOK
<1>1. OutputInit => OutputTypes
  <2>1. Range(<<>>) = {} /\ Len(<<>>) = 0 /\ <<>> \in Seq({})
    BY DEF Range
  <2> QED  BY <2>1 DEF OutputInit, OutputTypes, OutputTypeOK
<1>2. ASSUME OutputTypes, [OutputNext]_outputVars PROVE OutputTypes'
  <2>1. CASE UNCHANGED outputVars
    BY <1>2, <2>1 DEF outputVars, OutputTypes, OutputTypeOK
  <2>2. CASE OutputNext
    <3>1. Decides /\ AnswersOnce /\ KeepsOutputs
      BY <2>2, EveryCallAnswers
    <3>2. /\ answers' \in Seq(Range(answers')) /\ Len(answers') = Len(answers) + 1
          /\ Len(answers) \in Nat /\ Len(decisions) \in Nat /\ Len(decisions) <= Len(answers)
      <4>1. PICK a : answers' = Append(answers, a)
        BY <3>1 DEF AnswersOnce
      <4> QED  BY <1>2, <4>1, OneMoreAnswer DEF OutputTypes, OutputTypeOK
    <3>3. /\ decisions' \in Seq(Range(decisions')) /\ Len(decisions') <= Len(decisions) + 1
          /\ \A d \in Range(decisions') : d.decision \in {"ALLOW", "ASK", "DENY"}
      <4>1. CASE UNCHANGED decisions
        BY <1>2, <3>2, <4>1 DEF OutputTypes, OutputTypeOK
      <4>2. ASSUME NEW d, decisions' = Append(decisions, d), d.decision \in {"ALLOW", "ASK"}
            PROVE  /\ decisions' \in Seq(Range(decisions')) /\ Len(decisions') <= Len(decisions) + 1
                   /\ Range(decisions') = Range(decisions) \cup {d}
        <5> DEFINE n == Len(decisions)
                   e == decisions'
        <5>1. decisions \in Seq(Range(decisions))
          BY <1>2 DEF OutputTypes
        <5>2. /\ DOMAIN e = 1..(n + 1) /\ n \in Nat /\ DOMAIN decisions = 1..n
              /\ Len(e) = n + 1 /\ e[n + 1] = d /\ \A k \in 1..n : e[k] = decisions[k]
          BY <4>2, <5>1
        <5> HIDE DEF e, n
        <5>3. Range(e) = Range(decisions) \cup {d}
          BY <5>2 DEF Range
        <5>4. e \in Seq(Range(decisions) \cup {d})
          BY <4>2, <5>1 DEF e
        <5> QED  BY <5>2, <5>3, <5>4 DEF e, n
      <4> QED  BY <1>2, <3>1, <4>1, <4>2 DEF Decides, OutputTypes, OutputTypeOK
    <3>4. Range(evidence') \subseteq Outputs
      BY <1>2, <3>1 DEF KeepsOutputs, OutputTypes, OutputTypeOK
    <3>5. Len(decisions') <= Len(answers')
      <4>1. Len(decisions') \in Nat
        BY <3>3
      <4> QED  BY <3>2, <3>3, <4>1
    <3> QED  BY <3>2, <3>3, <3>4, <3>5 DEF OutputTypes, OutputTypeOK
  <2> QED  BY <1>2, <2>1, <2>2
<1>3. OutputTypes => OutputTypeOK
  BY DEF OutputTypes
<1> QED  BY <1>1, <1>2, <1>3, PTL DEF OutputSpec

\* A probe that is not going on is as at the start.
ProbeCounts(probe) ==
  /\ probe.accuracy \in 0..Trials
  /\ probe.stage = "idle" => probe = NotProbing
ProbesCount == probed \in 0..MaxProbes /\ \A p \in Probers : ProbeCounts(probes[p])

LEMMA ProbesGoOn ==
  ASSUME CapabilityInv, ProbesCount, NEW p \in Probers,
         \/ \E next : probes' = [probes EXCEPT ![p] = next] /\ ProbeCounts(next),
         UNCHANGED probed
  PROVE  ProbesCount'
<1>1. PICK next : probes' = [probes EXCEPT ![p] = next] /\ ProbeCounts(next)
  OBVIOUS
<1>2. \A q \in Probers : probes'[q] = IF q = p THEN next ELSE probes[q]
  BY <1>1 DEF CapabilityInv
<1> QED  BY <1>1, <1>2 DEF ProbesCount

LEMMA CapabilityHasTypes == CapabilitySpec => []CapabilityTypeOK
<1>0. ProbeCounts(NotProbing)
  BY CapabilityAssumption DEF ProbeCounts, NotProbing
<1>1. CapabilityInit => ProbesCount
  BY <1>0, CapabilityAssumption DEF CapabilityInit, ProbesCount
<1>2. ASSUME CapabilityInv, ProbesCount, [CapabilityNext]_capabilityVars PROVE ProbesCount'
  <2>0. /\ DOMAIN probes = Probers /\ \A p \in Probers : ProbeTells(probes[p])
        /\ \A p \in Probers : ProbeCounts(probes[p])
    BY <1>2 DEF CapabilityInv, ProbesCount
  <2>1. CASE UNCHANGED capabilityVars
    BY <1>2, <2>1 DEF capabilityVars, ProbesCount
  <2>2. ASSUME NEW p \in Probers, NEW m \in Models, NEW force \in BOOLEAN, ProbeModel(p, m, force)
        PROVE  ProbesCount'
    <3> DEFINE next == [NotProbing EXCEPT !.stage = "edits", !.model = m]
    <3>1. ProbeCounts(next)
      BY CapabilityAssumption DEF ProbeCounts, NotProbing
    <3>2. probes' = [probes EXCEPT ![p] = next] /\ probed' \in 0..MaxProbes
      BY <1>2, <2>2, CapabilityAssumption DEF ProbeModel, ProbesCount
    <3> HIDE DEF next
    <3>3. \A q \in Probers : probes'[q] = IF q = p THEN next ELSE probes[q]
      BY <2>0, <3>2
    <3> QED  BY <2>0, <3>1, <3>2, <3>3 DEF ProbesCount
  <2>3. ASSUME NEW p \in Probers, RunDiffAccuracyTrials(p) PROVE ProbesCount'
    <3>1. PICK trials \in [1..Trials -> TrialOutcomes] :
            probes' = [probes EXCEPT
              ![p].accuracy = Quantify(DOMAIN trials, LAMBDA i : trials[i].applied),
              ![p].transport = DeriveToolTransport(trials),
              ![p].stage = "context"]
      BY <2>3 DEF RunDiffAccuracyTrials
    <3> DEFINE hits == {i \in DOMAIN trials : trials[i].applied}
               accuracy == Cardinality(hits)
               transport == DeriveToolTransport(trials)
    <3>2. accuracy \in 0..Trials
      <4>1. DOMAIN trials = 1..Trials /\ Trials \in Nat
        BY CapabilityAssumption
      <4>2. IsFiniteSet(1..Trials) /\ Cardinality(1..Trials) = Trials
        BY <4>1, FS_Interval
      <4>3. hits \subseteq 1..Trials
        BY <4>1
      <4> HIDE DEF hits
      <4>4. Cardinality(hits) <= Cardinality(1..Trials) /\ IsFiniteSet(hits)
        BY <4>2, <4>3, FS_Subset
      <4>5. Cardinality(hits) \in Nat
        BY <4>4, FS_CardinalityType
      <4> QED  BY <4>1, <4>2, <4>4, <4>5
    <3>3. Quantify(DOMAIN trials, LAMBDA i : trials[i].applied) = accuracy
      BY DEF Quantify
    <3> HIDE DEF accuracy, transport
    <3> DEFINE next == [probes[p] EXCEPT !.accuracy = accuracy, !.transport = transport,
                                         !.stage = "context"]
    <3>4. probes' = [probes EXCEPT ![p].accuracy = accuracy, ![p].transport = transport,
                                   ![p].stage = "context"]
      BY <3>1, <3>3 DEF transport
    <3>5. DOMAIN probes[p] = DOMAIN NotProbing
      BY <2>0, <2>3 DEF RunDiffAccuracyTrials, ProbeTells
    <3>6. next.accuracy = accuracy /\ next.stage = "context"
      BY <3>5 DEF NotProbing
    <3>7. probes' = [probes EXCEPT ![p] = next] /\ UNCHANGED probed
      BY <2>0, <2>3, <3>4 DEF RunDiffAccuracyTrials
    <3> HIDE DEF next
    <3> QED  BY <1>2, <3>2, <3>6, <3>7, ProbesGoOn DEF ProbeCounts
  <2>4. ASSUME NEW p \in Probers, CheckEffectiveContext(p) PROVE ProbesCount'
    <3>1. PICK found :
            /\ probes' = [probes EXCEPT
                 ![p].context = IF found = Missed THEN @ ELSE found,
                 ![p].recalled = Append(@, found),
                 ![p].stage = NextStage(probes[p], found)]
            /\ UNCHANGED probed
      BY <2>4 DEF CheckEffectiveContext
    <3> DEFINE next == [probes[p] EXCEPT !.context = IF found = Missed THEN @ ELSE found,
                                         !.recalled = Append(@, found),
                                         !.stage = NextStage(probes[p], found)]
    <3>2. DOMAIN probes[p] = DOMAIN NotProbing
      BY <2>0, <2>4 DEF CheckEffectiveContext, ProbeTells
    <3>3. next.accuracy = probes[p].accuracy /\ next.stage = NextStage(probes[p], found)
      BY <3>2 DEF NotProbing
    <3>4. NextStage(probes[p], found) # "idle"
      BY DEF NextStage
    <3>5. probes' = [probes EXCEPT ![p] = next]
      BY <2>0, <3>1
    <3> HIDE DEF next
    <3> QED  BY <1>2, <2>0, <3>1, <3>3, <3>4, <3>5, ProbesGoOn DEF ProbeCounts
  <2>5. ASSUME NEW p \in Probers, SaveTruncates(p) PROVE ProbesCount'
    <3> DEFINE next == [probes[p] EXCEPT !.stage = "write"]
    <3>1. DOMAIN probes[p] = DOMAIN NotProbing
      BY <2>0, <2>5 DEF SaveTruncates, ProbeTells
    <3>2. next.accuracy = probes[p].accuracy /\ next.stage = "write"
      BY <3>1 DEF NotProbing
    <3>3. probes' = [probes EXCEPT ![p] = next] /\ UNCHANGED probed
      BY <2>0, <2>5 DEF SaveTruncates
    <3> HIDE DEF next
    <3> QED  BY <1>2, <2>0, <3>2, <3>3, ProbesGoOn DEF ProbeCounts
  <2>6. ASSUME NEW p \in Probers, SaveWrites(p) \/ ProberStops(p) PROVE ProbesCount'
    <3>1. probes' = [probes EXCEPT ![p] = NotProbing] /\ UNCHANGED probed
      BY <2>6 DEF SaveWrites, ProberStops
    <3> QED  BY <1>0, <1>2, <3>1, ProbesGoOn
  <2>7. ASSUME NEW m \in Models, StartRun(m) \/ RefuseRun(m) PROVE ProbesCount'
    BY <1>2, <2>7 DEF StartRun, RefuseRun, ProbesCount
  <2> QED  BY <1>2, <2>1, <2>2, <2>3, <2>4, <2>5, <2>6, <2>7 DEF CapabilityNext
<1>3. ASSUME CapabilityInv, ProbesCount PROVE CapabilityTypeOK
  <2>1. ASSUME NEW p \in Probers
        PROVE  /\ probes[p].stage \in {"idle", "edits", "context", "save", "write"}
               /\ Len(probes[p].recalled) <= Len(Rungs)
    <3>1. Len(Rungs) \in Nat /\ Len(<<>>) = 0
      BY CapabilityAssumption
    <3>2. CASE probes[p].stage = "idle"
      BY <1>3, <3>1, <3>2 DEF ProbesCount, ProbeCounts, NotProbing
    <3>3. CASE probes[p].stage # "idle"
      <4>1. ProbeTells(probes[p])
        BY <1>3 DEF CapabilityInv
      <4> QED  BY <3>1, <3>3, <4>1 DEF ProbeTells, Climbs, Climbed
    <3> QED  BY <3>2, <3>3
  <2> QED  BY <1>3, <2>1 DEF CapabilityTypeOK, ProbesCount, ProbeCounts
<1> QED  BY <1>1, <1>2, <1>3, CapabilityInvInit, CapabilityInvNext, PTL DEF CapabilitySpec

\* What was read so far: a file for every block but the unlabeled at most, and
\* no path was refused that may be written.
FilesAre(fs) == fs \in Seq(Range(fs))
ParsedCounts ==
  /\ parsed = [files |-> parsed.files, unlabeledBlocks |-> parsed.unlabeledBlocks,
               totalBlocks |-> parsed.totalBlocks]
  /\ FilesAre(parsed.files)
  /\ parsed.unlabeledBlocks \in Nat /\ parsed.totalBlocks \in Nat
  /\ parsed.unlabeledBlocks + Len(parsed.files) <= parsed.totalBlocks
OutcomeCounts ==
  /\ applied \in 0..Len(parsed.files)
  /\ outcome = [written |-> outcome.written, rejected |-> outcome.rejected]
  /\ outcome.rejected \cap SafePaths = {}

LEMMA OneFileMore ==
  ASSUME NEW fs, FilesAre(fs), NEW path, NEW content
  PROVE  LET new == SetFile(fs, path, content)
         IN FilesAre(new) /\ Len(new) \in Len(fs)..(Len(fs) + 1) /\ Len(fs) \in Nat
<1> DEFINE new == SetFile(fs, path, content)
           n == Len(fs)
<1>1. n \in Nat /\ DOMAIN fs = 1..n /\ fs \in Seq(Range(fs))
  BY DEF FilesAre
<1>2. CASE \E k \in DOMAIN fs : fs[k].path = path
  <2> DEFINE F(k) == IF fs[k].path # path THEN fs[k] ELSE [fs[k] EXCEPT !.content = content]
  <2>1. new = [k \in 1..n |-> F(k)]
    BY <1>1, <1>2 DEF SetFile
  <2> HIDE DEF new, F, n
  <2>2. new \in Seq(Range(new)) /\ Len(new) = n
    <3>1. DOMAIN new = 1..n
      BY <2>1
    <3>2. new \in [1..n -> Range(new)]
      BY <2>1 DEF Range
    <3> QED  BY <1>1, <3>1, <3>2
  <2> QED  BY <1>1, <2>2 DEF FilesAre, new, n
<1>3. CASE ~\E k \in DOMAIN fs : fs[k].path = path
  <2> DEFINE x == [path |-> path, content |-> content]
  <2>1. new = Append(fs, x)
    BY <1>3 DEF SetFile
  <2> HIDE DEF new, x, n
  <2>2. /\ Len(new) = n + 1 /\ DOMAIN new = 1..(n + 1)
        /\ \A k \in 1..n : new[k] = fs[k] /\ new[n + 1] = x
    BY <1>1, <2>1 DEF n
  <2>3. new \in Seq(Range(new))
    <3>1. new \in Seq(Range(fs) \cup {x})
      BY <1>1, <2>1
    <3>2. new \in [1..(n + 1) -> Range(new)]
      BY <2>2, <3>1 DEF Range
    <3> QED  BY <1>1, <2>2, <3>2
  <2> QED  BY <1>1, <2>2, <2>3 DEF FilesAre, new, n
<1> QED  BY <1>2, <1>3

LEMMA BlockIsCounted ==
  ASSUME ParsedCounts, OutcomeCounts, EndsBlock, UNCHANGED <<applied, outcome>>
  PROVE  ParsedCounts' /\ OutcomeCounts'
<1> DEFINE fs == parsed'.files
<1>1. /\ parsed' = [files |-> fs, unlabeledBlocks |-> parsed'.unlabeledBlocks,
                    totalBlocks |-> parsed'.totalBlocks]
      /\ fs = IF block.path = NoPath THEN parsed.files
              ELSE SetFile(parsed.files, block.path, FileOfBody(block.body))
      /\ parsed'.unlabeledBlocks = parsed.unlabeledBlocks + (IF block.path = NoPath THEN 1 ELSE 0)
      /\ parsed'.totalBlocks = parsed.totalBlocks + 1
  BY DEF EndsBlock
<1>2. Len(parsed.files) \in Nat
  BY DEF ParsedCounts, FilesAre
<1>3. FilesAre(fs) /\ Len(fs) \in Len(parsed.files)..(Len(parsed.files) + IF block.path = NoPath THEN 0 ELSE 1)
  <2>1. CASE block.path = NoPath
    BY <1>1, <1>2, <2>1 DEF ParsedCounts
  <2>2. CASE block.path # NoPath
    <3>1. FilesAre(parsed.files)
      BY DEF ParsedCounts
    <3> QED  BY <1>1, <2>2, <3>1, OneFileMore
  <2> QED  BY <2>1, <2>2
<1>4. ParsedCounts'
  BY <1>1, <1>2, <1>3 DEF ParsedCounts, FilesAre
<1> HIDE DEF fs
<1>5. OutcomeCounts'
  BY <1>2, <1>3 DEF OutcomeCounts, fs
<1> QED  BY <1>4, <1>5

LEMMA ReplyHasTypes == ReplySpec => []ReplyTypeOK
<1>1. ReplyInit => ParsedCounts /\ OutcomeCounts
  <2>1. Len(<<>>) = 0 /\ <<>> \in Seq(Range(<<>>))
    OBVIOUS
  <2> QED  BY <2>1 DEF ReplyInit, ParsedCounts, OutcomeCounts, FilesAre
<1>2. ASSUME ParsedCounts, OutcomeCounts, [ReplyNext]_replyVars PROVE ParsedCounts' /\ OutcomeCounts'
  <2>1. CASE UNCHANGED <<parsed, applied, outcome>>
    BY <1>2, <2>1 DEF ParsedCounts, OutcomeCounts
  <2>2. CASE UNCHANGED replyVars \/ SkipsLine \/ OpensBlock \/ CollectsLine
    BY <2>1, <2>2 DEF replyVars, SkipsLine, OpensBlock, CollectsLine, ReadsLine
  <2>3. CASE ClosesBlock \/ EndsUnterminated
    BY <1>2, <2>3, BlockIsCounted DEF ClosesBlock, EndsUnterminated, ReadsLine
  <2>4. CASE ApplyFile
    <3>1. /\ applied' = applied + 1 /\ applied < Len(parsed.files) /\ parsed' = parsed
          /\ outcome' = IF parsed.files[applied'].path \in SafePaths
                        THEN [outcome EXCEPT !.written = Append(@, parsed.files[applied'])]
                        ELSE [outcome EXCEPT !.rejected = @ \cup {parsed.files[applied'].path}]
      BY <2>4 DEF ApplyFile
    <3>2. applied' \in 0..Len(parsed'.files)
      BY <1>2, <3>1 DEF OutcomeCounts, ParsedCounts, FilesAre
    <3>3. /\ outcome' = [written |-> outcome'.written, rejected |-> outcome'.rejected]
          /\ outcome'.rejected \cap SafePaths = {}
      BY <1>2, <3>1 DEF OutcomeCounts
    <3>4. ParsedCounts'
      BY <1>2, <3>1 DEF ParsedCounts
    <3> QED  BY <3>2, <3>3, <3>4 DEF OutcomeCounts
  <2> QED  BY <1>2, <2>2, <2>3, <2>4 DEF ReplyNext
<1>3. ASSUME LinesInv, ParsedCounts, OutcomeCounts PROVE ReplyTypeOK
  <2> DEFINE w == WrittenReply(sections)
  <2>1. PICK n \in 0..Len(w) : lines = SubSeq(w, 1, n)
    BY <1>3 DEF LinesInv
  <2>2. w \in Seq(AllLines)
    <3>1. Len(sections) \in 0..Len(sections)
      BY <1>3, LinesAre
    <3>2. LaidOut(sections, Len(sections)) /\ FirstWritten(sections, Len(sections)) = w
      BY <1>3, <3>1, SectionsAre DEF LinesInv
    <3> QED  BY <3>2 DEF LaidOut
  <2> HIDE DEF w
  <2>3. Len(lines) = n /\ lines \in Seq(AllLines) /\ Len(w) \in Nat
    BY <2>1, <2>2
  <2>4. SubSeq(lines, 1, Len(lines)) = SubSeq(w, 1, n)
    BY <2>1, <2>3
  <2>5. IsPrefix(lines, w)
    BY <2>2, <2>3, <2>4 DEF IsPrefix
  <2> QED  BY <1>3, <2>5 DEF LinesInv, ParsedCounts, OutcomeCounts, ReplyTypeOK, w
<1>4. NakedInv => LinesInv
  BY DEF NakedInv
<1> QED  BY <1>1, <1>2, <1>3, <1>4, NakedInvInit, NakedInvNext, PTL DEF ReplySpec

-----------------------------------------------------------------------------
(* The workspace.                                                            *)

\* Every part keeps its types, and with them the bounds that its counts, cursors
\* and queues stay in.
THEOREM WorkspaceKeepsTypes == WorkspaceSpec => []WorkspaceTypeOK
<1>1. WorkspaceSpec => []StashTypeOK
  BY RunsStash, StashTypes, PTL
<1>2. WorkspaceSpec => []SnapshotTypeOK
  BY RunsSnapshot, SnapshotTypeCorrect, PTL
<1>3. WorkspaceSpec => []MemoryTypeOK
  BY RunsMemory, MemoryHasTypes, PTL
<1>4. WorkspaceSpec => []CredentialTypeOK
  BY RunsCredential, CredentialHasTypes, PTL
<1>5. WorkspaceSpec => []EvalTypeOK
  BY RunsEval, EvalHasTypes, PTL
<1>6. WorkspaceSpec => []TranscriptTypeOK
  BY RunsTranscript, TranscriptHasTypes, PTL
<1>7. WorkspaceSpec => []StreamTypeOK
  BY RunsStream, StreamHasTypes, PTL
<1>8. WorkspaceSpec => []AnthropicTypeOK
  BY RunsAnthropic, AnthropicHasTypes, PTL
<1>9. WorkspaceSpec => []EditTypeOK
  BY RunsEdit, EditsNameTheirTexts, PTL
<1>10. WorkspaceSpec => []CapabilityTypeOK
  BY RunsCapability, CapabilityHasTypes, PTL
<1>11. WorkspaceSpec => []EditorTypeOK
  BY RunsEditor, EditorHasTypes, PTL
<1>12. WorkspaceSpec => []NativeTypeOK
  BY RunsNative, NativeHasTypes, PTL
<1>13. WorkspaceSpec => []ReplyTypeOK
  BY RunsReply, ReplyHasTypes, PTL
<1>14. WorkspaceSpec => []OutputTypeOK
  BY RunsOutput, OutputHasTypes, PTL
<1>15. ASSUME StashTypeOK, SnapshotTypeOK, MemoryTypeOK, CredentialTypeOK,
              EvalTypeOK, TranscriptTypeOK, StreamTypeOK, AnthropicTypeOK,
              EditTypeOK, CapabilityTypeOK, EditorTypeOK, NativeTypeOK,
              ReplyTypeOK, OutputTypeOK
       PROVE  WorkspaceTypeOK
  BY <1>15, Zenon DEF WorkspaceTypeOK
<1> QED  BY <1>1, <1>2, <1>3, <1>4, <1>5, <1>6, <1>7, <1>8, <1>9, <1>10, <1>11, <1>12, <1>13, <1>14, <1>15, PTL

\* What a reply that counts as complete says reaches the loop whole, of all three
\* streams, what the loop makes of it reaches the server again, and the files of
\* a naked reply are written as they were meant
\* (hermes.ts:77-265, anthropic.ts:67-250, openai-compatible.ts:159-223,
\* naked-arm.ts:258-412).
THEOREM RepliesAreAlwaysWhole == WorkspaceSpec => []RepliesAreWhole
<1>1. WorkspaceSpec => []ReplyIsTheMessage
  BY RunsStream, HermesRepliesAreWhole, PTL
<1>2. WorkspaceSpec => []RequestTellsTheReplies
  BY RunsAnthropic, AnthropicRequestsTellTheReplies, PTL
<1>3. WorkspaceSpec => []NativeReplyIsWhole
  BY RunsNative, NativeRepliesAreWhole, PTL
<1>4. WorkspaceSpec => []DeliversTheReply
  BY RunsReply, NakedRepliesAreDelivered, PTL
<1>5. ReplyIsTheMessage /\ RequestTellsTheReplies /\ NativeReplyIsWhole /\ DeliversTheReply
        => RepliesAreWhole
  BY Zenon DEF RepliesAreWhole
<1> QED  BY <1>1, <1>2, <1>3, <1>4, <1>5, PTL
=============================================================================

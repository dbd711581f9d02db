---------------------------- MODULE MCWorkspace ----------------------------
(***************************************************************************)
(* The components that keep a state of their own beside the run: the stash *)
(* of the user's work, the snapshot backend, the toolchain memory, the     *)
(* credential store, the evaluation harness, the conversation, the streams *)
(* of the adapters, the edit tool, the capability profiles, the editor's   *)
(* extension, a naked reply and what the tools answer.  They share no      *)
(* state, so one instance of each is explored on its own: `part` says      *)
(* which, and the others stand still in one of their initial states.       *)
(***************************************************************************)
EXTENDS StashStack, SnapshotBackup, ToolchainMemory, CredentialStore,
        EvalHarness, Transcript, HermesStream, AnthropicStream, EditCascade,
        MCCapability, EditorClient, MCOutputs, TLC

VARIABLE part

elsewhereVars == <<stashVars, snapshotVars, memoryVars, credentialVars,
                   evalVars, transcriptVars, streamVars, anthropicVars,
                   editVars, capabilityVars, editorVars>>
workspaceVars == <<elsewhereVars, outputsVars, part>>

OneOf(S) == CHOOSE x \in S : TRUE

WorkspaceInit ==
  /\ part \in {"stash", "snapshot", "memory", "credentials", "evals",
               "transcript", "stream", "anthropic", "edits", "capability",
               "editor", "native", "reply", "output"}
  /\ part = "snapshot" \/ files = [p \in Paths |-> NoFile]
  /\ part = "memory" \/ (committed = OneOf(Manifests) /\ guide = OneOf(Guides))
  /\ part = "credentials" \/ keychain = NoStore
  /\ part = "evals" \/ (suite = OneOf(Suites) /\ keep = FALSE /\ named = FALSE)
  /\ part = "transcript" \/ provider = OneOf(Providers)
  /\ part = "stream" \/ message = OneOf(ReplyTexts)
  /\ part = "anthropic" \/ reply = OneOf(ServerTurns)
  /\ part = "edits" \/ source = OneOf(SourceTexts)
  /\ part = "editor" \/ runs = OneOf(FirstRuns)
  /\ part = "native" \/ events = OneOf(EventStreams)
  /\ part = "reply" \/ (sections = OneOf(NakedReplies) /\ lines = <<>>)
  /\ part = "output" \/ repoTrustMode = "trusted"
  /\ StashInit /\ SnapshotInit /\ MemoryInit /\ CredentialInit
  /\ EvalInit /\ TranscriptInit /\ StreamInit /\ AnthropicInit
  /\ EditInit /\ CapabilityInit /\ EditorInit
  /\ NativeInit /\ ReplyInit /\ OutputInit

WorkspaceNext ==
  /\ \/ /\ part = "stash" /\ StashNext
        /\ UNCHANGED <<snapshotVars, memoryVars, credentialVars, evalVars,
                        transcriptVars, streamVars, anthropicVars, editVars,
                        capabilityVars, editorVars, outputsVars>>
     \/ /\ part = "snapshot" /\ SnapshotNext
        /\ UNCHANGED <<stashVars, memoryVars, credentialVars, evalVars,
                        transcriptVars, streamVars, anthropicVars, editVars,
                        capabilityVars, editorVars, outputsVars>>
     \/ /\ part = "memory" /\ MemoryNext
        /\ UNCHANGED <<stashVars, snapshotVars, credentialVars, evalVars,
                        transcriptVars, streamVars, anthropicVars, editVars,
                        capabilityVars, editorVars, outputsVars>>
     \/ /\ part = "credentials" /\ CredentialNext
        /\ UNCHANGED <<stashVars, snapshotVars, memoryVars, evalVars,
                        transcriptVars, streamVars, anthropicVars, editVars,
                        capabilityVars, editorVars, outputsVars>>
     \/ /\ part = "evals" /\ EvalNext
        /\ UNCHANGED <<stashVars, snapshotVars, memoryVars, credentialVars,
                        transcriptVars, streamVars, anthropicVars, editVars,
                        capabilityVars, editorVars, outputsVars>>
     \/ /\ part = "transcript" /\ TranscriptNext
        /\ UNCHANGED <<stashVars, snapshotVars, memoryVars, credentialVars,
                        evalVars, streamVars, anthropicVars, editVars,
                        capabilityVars, editorVars, outputsVars>>
     \/ /\ part = "stream" /\ StreamNext
        /\ UNCHANGED <<stashVars, snapshotVars, memoryVars, credentialVars,
                        evalVars, transcriptVars, anthropicVars, editVars,
                        capabilityVars, editorVars, outputsVars>>
     \/ /\ part = "anthropic" /\ AnthropicNext
        /\ UNCHANGED <<stashVars, snapshotVars, memoryVars, credentialVars,
                        evalVars, transcriptVars, streamVars, editVars,
                        capabilityVars, editorVars, outputsVars>>
     \/ /\ part = "edits" /\ EditNext
        /\ UNCHANGED <<stashVars, snapshotVars, memoryVars, credentialVars,
                        evalVars, transcriptVars, streamVars, anthropicVars,
                        capabilityVars, editorVars, outputsVars>>
     \/ /\ part = "capability" /\ CapabilityNext
        /\ UNCHANGED <<stashVars, snapshotVars, memoryVars, credentialVars,
                        evalVars, transcriptVars, streamVars, anthropicVars,
                        editVars, editorVars, outputsVars>>
     \/ /\ part = "editor" /\ EditorNext
        /\ UNCHANGED <<stashVars, snapshotVars, memoryVars, credentialVars,
                        evalVars, transcriptVars, streamVars, anthropicVars,
                        editVars, capabilityVars, outputsVars>>
     \/ /\ part = "native" /\ NativeNext
        /\ UNCHANGED <<elsewhereVars, replyVars, outputVars>>
     \/ /\ part = "reply" /\ ReplyNext
        /\ UNCHANGED <<elsewhereVars, nativeVars, outputVars>>
     \/ /\ part = "output" /\ OutputNext
        /\ UNCHANGED <<elsewhereVars, nativeVars, replyVars>>
  /\ UNCHANGED part

WorkspaceSpec == WorkspaceInit /\ [][WorkspaceNext]_workspaceVars

\* Every component's variables have their types; those that stand still are in
\* one of their initial states, which is checked where it moves.
WorkspaceTypeOK ==
  /\ part = "stash"       => StashTypeOK
  /\ part = "snapshot"    => SnapshotTypeOK
  /\ part = "memory"      => MemoryTypeOK
  /\ part = "credentials" => CredentialTypeOK
  /\ part = "evals"       => EvalTypeOK
  /\ part = "transcript"  => TranscriptTypeOK
  /\ part = "stream"      => StreamTypeOK
  /\ part = "anthropic"   => AnthropicTypeOK
  /\ part = "edits"       => EditTypeOK
  /\ part = "capability"  => CapabilityTypeOK
  /\ part = "editor"      => EditorTypeOK
  /\ part = "native"      => NativeTypeOK
  /\ part = "reply"       => ReplyTypeOK
  /\ part = "output"      => OutputTypeOK

\* What a reply that counts as complete says reaches the loop whole, of all three
\* streams, and what the loop makes of it reaches the server again; and the
\* files of a naked reply are written as they were meant, as far as it arrived.
RepliesAreWhole ==
  /\ part = "stream"    => ReplyIsTheMessage
  /\ part = "anthropic" => RequestTellsTheReplies
  /\ part = "native"    => NativeReplyIsWhole
  /\ part = "reply"     => DeliversTheReply

-----------------------------------------------------------------------------
(* The instance. *)

CONSTANTS p1, p2, u1, u2, cmd1, cmd2, id1, id2

\* Runs, clients and writers are processes; which is which makes no difference.
Interchangeable == Permutations({p1, p2}) \cup Permutations({u1, u2})

\* The second manifest has no build command and another test command.
MCDetected == m1 :> ("test" :> cmd1 @@ "build" :> cmd1) @@ m2 :> ("test" :> cmd2)
MCGuides == {<<>>, "test" :> cmd2}

MCEnvironment == "a1" :> "v0"

MCSuites == {<<"t1", "t2">>, <<"t1", "t1">>}

\* Four pieces, after an opening tag or not: calls that close, that are left
\* open, closed by the next one or by nothing, and scratch pads around them.
Pieces == {<<"x">>, <<"call">>, <<"<">>, ToolCallOpen, ToolCallClose,
           ScratchPadOpen, ScratchPadClose}
MCReplyTexts == {s \o a \o b \o c \o d :
                   s \in {<<>>, ToolCallOpen}, a, b, c, d \in Pieces}

\* Three blocks in one reply, one of them without an id.
MCServerTurns ==
  { << [kind |-> "text", id |-> NoId, parts |-> <<"t1", "t2">>],
       [kind |-> "tool_use", id |-> id1, parts |-> <<"{", "x", "}">>],
       [kind |-> "tool_use", id |-> NoId, parts |-> <<"{", "}">>] >>,
    << [kind |-> "tool_use", id |-> id2, parts |-> <<"{", "y", "}">>] >>,
    << [kind |-> "text", id |-> NoId, parts |-> <<"t3">>] >> }

\* Files of three lines, and blocks of up to three, with ellipses, leading
\* blank lines and other indentations; two blocks in one call.
FileLines == {<<>>, <<"a">>, <<" ", "a">>, <<" ", " ", "b">>}
MCSourceTexts == {JoinLines(<<a, b, c>>) : a, b, c \in FileLines}
Searches ==
  {JoinLines(ls) : ls \in
     {<<>>, <<"a">>, <<" ", "a">>, <<Ellipsis>>, <<" ", "b">>} \X
     {<<"a">>, <<Ellipsis>>, <<"b">>, <<" ", "b">>}}
  \cup {<<>>, <<"a">>, JoinLines(<< <<"a">>, <<Ellipsis>>, <<"b">> >>),
        JoinLines(<< <<Ellipsis>>, <<"b">>, <<Ellipsis>> >>)}
Replacements ==
  {<<"c">>, JoinLines(<< <<Ellipsis>>, <<"c">> >>),
   JoinLines(<< <<"c">>, <<Ellipsis>>, <<" ", "d">> >>),
   JoinLines(<< <<"c">>, <<Ellipsis>>, <<"d">>, <<Ellipsis>> >>)}
Blocks == [search : Searches, replace : Replacements]
Second == [search |-> <<"a">>, replace |-> <<"e">>]
MCEditCalls == {<<b>> : b \in Blocks} \cup {<<b, Second>> : b \in [search : Searches, replace : {<<"c">>}]}

MCFirstRuns == {[r \in RunIds |-> [status |-> s, version |-> 0, conflict |-> FALSE,
                                  landed |-> FALSE, cut |-> FALSE]] :
                  s \in {"NONE", "AWAITING_APPROVAL", "PAUSED"}}
=============================================================================

------------------------------ MODULE MCOutputs ------------------------------
(***************************************************************************)
(* What comes in from outside and is cut short on its way: the reply of a  *)
(* naked model, the stream of a server with native tools, and the output   *)
(* of the tools.  MCWorkspace explores them beside its other parts; here   *)
(* is the instance of each.                                                *)
(***************************************************************************)
EXTENDS WholeFileReply, NativeStream, ToolOutput, TLC

outputsVars == <<replyVars, nativeVars, outputVars>>

CONSTANTS call1, call2, f1, f2, f3

MCMeaning ==
  "q" :> "q" @@ "./q" :> "q" @@ "../r" :> "../r" @@ "js" :> NoPath
  @@ "Makefile" :> NoPath @@ NoName :> NoPath

\* Two blocks: labelled near and far, with names and other fences among their
\* lines, for the same path, one that is refused, and none.
Block(name, by, gap, fence, len, content) ==
  [name |-> name, by |-> by, gap |-> gap, fence |-> fence, len |-> len, content |-> content]
Bodies ==
  {<<>>, <<Prose, BlankLine>>, <<Named("../r")>>,
   <<Fence("backtick", 3, "q"), Fence("backtick", 3, NoName)>>,
   <<Fence("backtick", 5, NoName)>>, <<Fence("tilde", 4, NoName), BlankLine>>}
MCBlocks ==
  {Block("q", "label", gap, "backtick", 4, c) : gap \in {0, 3, 4}, c \in Bodies}
  \cup {Block("q", by, 0, "backtick", 4, c) : by \in {"info", "none"}, c \in Bodies}
  \cup {Block(n, "label", 1, "tilde", 3, <<Prose>>) : n \in {"./q", "../r", "Makefile"}}
MCReplies == {<<a, b>> : a, b \in MCBlocks}

\* Two calls whose chunks alternate, and replies that end in every way.
Say(t) == [kind |-> "text", text |-> t]
Piece(i, id, args) == [kind |-> "call", index |-> i, id |-> id, args |-> args]
Finish(r) == [kind |-> "finish", reason |-> r]
Other(k) == [kind |-> k]
MCEventStreams ==
  {<< Say("t1"), Piece(0, call1, <<>>), Piece(1, NoCallId, <<"{">>),
      Piece(0, NoCallId, <<"{", "x">>), Piece(1, NoCallId, <<"}">>),
      Piece(0, NoCallId, <<"}">>), Finish(r), Other("usage"), Other("DONE") >> :
     r \in {"tool_calls", "stop", "length"}}
  \cup {<< Say("t1"), Other("comment"), Say("t2"), last >> :
          last \in {Finish("stop"), Finish("content_filter"), Other("error"), Other("DONE")}}
  \cup {<< Piece(0, NoCallId, <<"{">>), Finish("tool_calls"), Other("error") >>,
        \* two calls of a server that leaves the indices out
        << Piece(0, call1, <<"{", "}">>), Piece(0, call2, <<"{">>), Piece(0, NoCallId, <<"}">>),
           Finish("tool_calls") >>}

\* Failing lines in the head, the tail and between them, more than the cap, the
\* same text twice, and one line longer than the budget.
Line(w, fails, size) == [word |-> w, fails |-> fails, size |-> size]
Pass == Line("pass", FALSE, 1)
Fails(w) == Line(w, TRUE, 1)
MCTexts ==
  {<<>>, <<Pass>>, <<Line("long", FALSE, 9)>>, <<Line("long", TRUE, 9), Pass>>,
   <<Fails("a"), Pass, Fails("a"), Pass, Pass>>,
   <<Pass, Fails("a"), Fails("b"), Pass, Fails("a"), Fails("b"), Pass>>}
MCWorkspaceFiles == f1 :> <<Pass, Pass>> @@ f2 :> <<Pass>> @@ f3 :> <<Line("long", FALSE, 20)>>
MCMatchCounts == {f1 :> 1, f1 :> 3 @@ f2 :> 2, f1 :> 2 @@ f2 :> 2}
MCShellCommands ==
  {[class |-> "npm test", destructive |-> FALSE], [class |-> "rm -rf", destructive |-> TRUE]}
=============================================================================

----------------------------- MODULE ChatAnswer -----------------------------
(***************************************************************************)
(* One upstream answer, as the clients of both endpoints get it: the chunks*)
(* go to AnthropicStream and to OpenAIStream, each of them streaming and   *)
(* collecting, so that the four results can be compared.                   *)
(***************************************************************************)
EXTENDS AnthropicStream, OpenAIStream

AnswerInit == StreamInit /\ OpenAIInit

AnswerNext ==
  \/ \E chunk \in Chunks : Chunk(chunk) /\ Relay(chunk, n + 1)
  \/ BareChunk /\ UNCHANGED openaiVars
  \/ Done /\ RelayDone
  \/ \E failed \in BOOLEAN : Cut(failed) /\ RelayCut(failed)

Spec == AnswerInit /\ [][AnswerNext]_<<streamVars, openaiVars>>

-----------------------------------------------------------------------------

\* Where the client of an OpenAI stream finds the parts of one kind.
Parts(part) == {i \in DOMAIN relayed : relayed[i].part = part}

RelayedCalls == {relayed[i].tool : i \in Parts("tool_call")}

\* What the client of an OpenAI stream has put together so far.
RelayedAnswer ==
  LET calls   == Ascending(RelayedCalls)
      reasons == Parts("finish")
      latest  == CHOOSE i \in reasons : \A j \in reasons : j <= i
  IN  [content    |-> PiecesAt(relayed, Parts("content")),
       reasoning  |-> PiecesAt(relayed, Parts("reasoning")),
       tool_calls |-> [k \in DOMAIN calls |->
                         PiecesAt(relayed, {i \in Parts("tool_call") : relayed[i].tool = calls[k]})],
       finish     |-> IF reasons = {} THEN NoFinish ELSE relayed[latest].reason]

\* The calls whose first delta had null arguments, and those of them that got
\* a piece of their arguments later.
NullCalls ==
  {t \in RelayedCalls :
     \E i \in Parts("tool_call") :
       /\ relayed[i].tool = t /\ relayed[i].null
       /\ \A j \in Parts("tool_call") : relayed[j].tool = t => i <= j}
BrokenCalls ==
  {t \in NullCalls : \E j \in Parts("tool_call") : relayed[j].tool = t /\ relayed[j].piece # 0}

\* The clients of an answer are told the same.  What the OpenAI stream brought
\* and the collected completion agree in text, reasoning, tool calls and finish,
\* but that a finish the upstream never gave is "stop" in the completion.  The
\* collected Anthropic message has the same text, calls and stop reason, and no
\* reasoning; it is a 500 instead exactly when some call's arguments were null
\* at first and a piece of them came later, which the other three cope with.
SameAnswer ==
  LET openai    == FinalCompletion(completion)
      anthropic == FinalResponse(collected)
  IN  /\ openai = [RelayedAnswer EXCEPT !.finish = IF @ = NoFinish THEN "stop" ELSE @]
      /\ collected.failed <=> BrokenCalls # {}
      /\ ~collected.failed =>
           /\ collected.text = openai.content
           /\ {collected.order[i] : i \in DOMAIN collected.order} = RelayedCalls
           /\ collected.args = completion.args
           /\ anthropic.stop = MapStopReason(RelayedAnswer.finish)

=============================================================================

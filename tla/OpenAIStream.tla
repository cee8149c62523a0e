---------------------------- MODULE OpenAIStream ----------------------------
(***************************************************************************)
(* The two ways the OpenAI endpoint answers from the same chunks:          *)
(* sanitize_stream_chunk relays each of them to a streaming client         *)
(* (openai_compat.py:131-161, app.py:604-674), CompletionAccumulator       *)
(* collects the whole answer (openai_compat.py:164-258).                   *)
(***************************************************************************)
EXTENDS UpstreamChunks

VARIABLES
  relayed,     \* the parts of the chunks the streaming client was sent
  completion   \* CompletionAccumulator

openaiVars == <<relayed, completion>>

\* A part of a chunk's delta; 0 is the empty string, a finish has its reason.
Text(p) == [part |-> "content", piece |-> p]
Thought(p) == [part |-> "reasoning", piece |-> p]
Call(d, p) ==
  [part |-> "tool_call", tool |-> d.tool,
   piece |-> IF d.args = "piece" THEN p ELSE 0, null |-> d.args = "null"]
Finished(r) == [part |-> "finish", reason |-> r]
ErrorEvent == [part |-> "error"]
DoneEvent == [part |-> "done"]

-----------------------------------------------------------------------------

\* Mutation of Sanitize: a delta without content is not sent.
MutSanitize(chunk, p) ==
  IF chunk.content = "null"
  THEN <<>>
  ELSE <<Text(IF chunk.content = "piece" THEN p ELSE 0)>>
         \o [i \in DOMAIN chunk.tools |-> Call(chunk.tools[i], p)]

\* sanitize_stream_chunk of a chunk with a choice: a null content is left out,
\* the rest of the delta is sent as it is.
Sanitize(chunk, p) ==
  (CASE chunk.content = "null"  -> <<>>
     [] chunk.content = "empty" -> <<Text(0)>>
     [] chunk.content = "piece" -> <<Text(p)>>)
  \o (IF chunk.reasoning THEN <<Thought(p)>> ELSE <<>>)
  \o [i \in DOMAIN chunk.tools |-> Call(chunk.tools[i], p)]
  \o (IF chunk.finish = NoFinish THEN <<>> ELSE <<Finished(chunk.finish)>>)

-----------------------------------------------------------------------------
(* CompletionAccumulator                                                   *)

InitCompletion ==
  [content |-> <<>>, reasoning |-> <<>>, calls |-> {},
   args |-> [t \in ToolCalls |-> <<>>], finish |-> NoFinish]

\* Mutation of AddToolCall: the arguments of a call's first delta are lost.
MutAddToolCall(a, d, p) ==
  [a EXCEPT !.calls = @ \cup {d.tool},
            !.args[d.tool] = IF d.args = "piece" /\ d.tool \in a.calls
                              THEN Append(@, p) ELSE @]

\* _add_tool_call: a new call, or more of one that is there.
AddToolCall(a, d, p) ==
  [a EXCEPT !.calls = @ \cup {d.tool},
            !.args[d.tool] = IF d.args = "piece" THEN Append(@, p) ELSE @]

\* The tool call deltas of a chunk, one after the other.
AddToolCalls(a, tools, p) ==
  LET after[k \in 0 .. Len(tools)] ==
        IF k = 0 THEN a ELSE AddToolCall(after[k - 1], tools[k], p)
  IN  after[Len(tools)]

\* add.
Accumulate(a, chunk, p) ==
  AddToolCalls([a EXCEPT !.content = IF chunk.content = "piece" THEN Append(@, p) ELSE @,
                         !.reasoning = IF chunk.reasoning THEN Append(@, p) ELSE @,
                         !.finish = LatestFinish(@, chunk)],
               chunk.tools, p)

\* final_response: the tool calls by their index; a missing reason is "stop".
FinalCompletion(a) ==
  LET calls == Ascending(a.calls)
  IN  [content    |-> a.content,
       reasoning  |-> a.reasoning,
       tool_calls |-> [i \in DOMAIN calls |-> a.args[calls[i]]],
       finish     |-> IF a.finish = NoFinish THEN "stop" ELSE a.finish]

-----------------------------------------------------------------------------

OpenAIInit ==
  /\ relayed = <<>>
  /\ completion = InitCompletion

\* A chunk with a choice, the p-th of the answer.
Relay(chunk, p) ==
  /\ relayed' = relayed \o Sanitize(chunk, p)
  /\ completion' = Accumulate(completion, chunk, p)

\* [DONE] is passed on.
RelayDone ==
  /\ relayed' = Append(relayed, DoneEvent)
  /\ UNCHANGED completion

\* chat_events raised a CodebuffError, which the client is told of before a
\* [DONE] of the gateway's own; or the upstream just closed the stream.
RelayCut(failed) ==
  /\ relayed' = IF failed THEN relayed \o <<ErrorEvent, DoneEvent>> ELSE relayed
  /\ UNCHANGED completion

=============================================================================

--------------------------- MODULE AnthropicStream ---------------------------
(***************************************************************************)
(* The two ways the Anthropic endpoint turns the upstream's OpenAI chunks  *)
(* into a message: AnthropicStreamState (anthropic_compat.py:534-810)      *)
(* emits the events of a stream, AnthropicCompletionAccumulator            *)
(* (anthropic_compat.py:395-460) collects the whole answer.  Both consume  *)
(* the same chunks here, so that what a streaming client puts together can *)
(* be compared with what a non-streaming one is sent.                      *)
(*                                                                         *)
(* Neither looks at reasoning_content.  Not modelled: ids, usage and tool  *)
(* names.                                                                  *)
(***************************************************************************)
EXTENDS UpstreamChunks

\* "no block yet".
None == -1

VARIABLES
  n,          \* chunks consumed
  stream,     \* AnthropicStreamState
  out,        \* the events sent to the client
  collected,  \* AnthropicCompletionAccumulator
  status      \* "open", "done" after [DONE], "cut" if it never came

streamVars == <<n, stream, out, collected, status>>

-----------------------------------------------------------------------------
(* Events                                                                  *)

\* _map_stop_reason: nothing and "stop" end the turn.
MapStopReason(finish) ==
  CASE finish = "length"                          -> "max_tokens"
    [] finish \in {"tool_calls", "function_call"} -> "tool_use"
    [] OTHER                                      -> "end_turn"

MessageStart == [type |-> "message_start"]
MessageDelta(finish) == [type |-> "message_delta", stop |-> MapStopReason(finish)]
MessageStop == [type |-> "message_stop"]
BlockStart(b, kind) == [type |-> "content_block_start", index |-> b, kind |-> kind]
BlockStop(b) == [type |-> "content_block_stop", index |-> b]
Delta(b, kind, p) == [type |-> "content_block_delta", index |-> b, kind |-> kind, piece |-> p]
ErrorSent == [type |-> "error"]

Kinds == {"text", "tool_use"}

Event ==
  [type : {"message_start", "message_stop", "error"}]
    \cup [type : {"message_delta"}, stop : {"max_tokens", "tool_use", "end_turn"}]
    \cup [type : {"content_block_start"}, index : Int, kind : Kinds]
    \cup [type : {"content_block_stop"}, index : Int]
    \cup [type : {"content_block_delta"}, index : Int, kind : Kinds, piece : Nat]

\* A step of the stream's state machine: the state it is in, the events so far.
Emit(s, event) == [s EXCEPT !.events = Append(@, event)]

InitStream ==
  [started    |-> FALSE,                          \* _message_started
   textBlock  |-> None,                           \* _text_block_index, if started
   textClosed |-> FALSE,                          \* _text_block_closed
   active     |-> "none",                         \* _active_block_type
   blockOf    |-> [t \in ToolCalls |-> None],     \* _openai_to_anthro_index
   next       |-> 0,                              \* _next_anthro_index
   finish     |-> NoFinish,                       \* _stop_reason
   events     |-> <<>>]                           \* the events of this call

-----------------------------------------------------------------------------
(* AnthropicStreamState                                                    *)

StartMessage(s) ==
  IF s.started THEN s ELSE Emit([s EXCEPT !.started = TRUE], MessageStart)

\* Mutation of OpenText: text after a tool call opens a block of its own.
MutOpenText(s) ==
  IF s.textBlock # None /\ s.active = "text"
  THEN s
  ELSE Emit([s EXCEPT !.textBlock = s.next, !.next = @ + 1, !.active = "text"],
            BlockStart(s.next, "text"))

OpenText(s) ==
  IF s.textBlock # None
  THEN s
  ELSE Emit([s EXCEPT !.textBlock = s.next, !.next = @ + 1, !.active = "text"],
            BlockStart(s.next, "text"))

\* Mutation of TextDelta: only a piece of text opens the block.
MutTextDelta(s, p) ==
  LET opened == IF p = 0 THEN s ELSE OpenText(s)
  IN  Emit(opened, Delta(opened.textBlock, "text", p))

\* A text delta; an empty string is one too.
TextDelta(s, p) ==
  LET opened == OpenText(s)
  IN  Emit(opened, Delta(opened.textBlock, "text", p))

\* A new tool call closes the open text block first.
CloseText(s) ==
  IF s.textBlock # None /\ ~s.textClosed /\ s.active = "text"
  THEN Emit([s EXCEPT !.textClosed = TRUE], BlockStop(s.textBlock))
  ELSE s

\* Mutation of OpenTool: the text block is counted as block 0.
MutOpenTool(s, t) ==
  IF s.blockOf[t] # None
  THEN s
  ELSE LET c == CloseText(s)
       IN  Emit([c EXCEPT !.blockOf[t] = t, !.next = @ + 1, !.active = "tool_use"],
                BlockStart(t, "tool_use"))

OpenTool(s, t) ==
  IF s.blockOf[t] # None
  THEN s
  ELSE LET c == CloseText(s)
       IN  Emit([c EXCEPT !.blockOf[t] = c.next, !.next = @ + 1, !.active = "tool_use"],
                BlockStart(c.next, "tool_use"))

\* Mutation of ToolDelta: the arguments of the delta that opens a block are
\* taken for part of its start.
MutToolDelta(s, d, p) ==
  LET opened == OpenTool(s, d.tool)
  IN  IF d.args = "piece" /\ s.blockOf[d.tool] # None
      THEN Emit(opened, Delta(opened.blockOf[d.tool], "tool_use", p)) ELSE opened

ToolDelta(s, d, p) ==
  LET opened == OpenTool(s, d.tool)
  IN  IF d.args = "piece"
      THEN Emit(opened, Delta(opened.blockOf[d.tool], "tool_use", p)) ELSE opened

\* The tool call deltas of a chunk, one after the other.
ConsumeTools(s, tools, p) ==
  LET after[k \in 0 .. Len(tools)] ==
        IF k = 0 THEN s ELSE ToolDelta(after[k - 1], tools[k], p)
  IN  after[Len(tools)]

\* consume_chunk, a chunk with one choice.
ConsumeChunk(s, chunk, p) ==
  LET begun == StartMessage([s EXCEPT !.events = <<>>])
      text  == CASE chunk.content = "null"  -> begun
                 [] chunk.content = "empty" -> TextDelta(begun, 0)
                 [] chunk.content = "piece" -> TextDelta(begun, p)
      tools == ConsumeTools(text, chunk.tools, p)
  IN  [tools EXCEPT !.finish = LatestFinish(@, chunk)]

\* Mutation of StopTools: only the block that is active is closed.
MutStopTools(s) ==
  IF s.active = "tool_use" THEN Emit(s, BlockStop(s.next - 1)) ELSE s

\* Every tool block is closed, in the order of the tool_calls indices.
StopTools(s) ==
  LET opened == Ascending({t \in ToolCalls : s.blockOf[t] # None})
  IN  [s EXCEPT !.events = @ \o [i \in DOMAIN opened |-> BlockStop(s.blockOf[opened[i]])]]

\* finalize_events.
FinalizeEvents(s) ==
  LET begun == StartMessage([s EXCEPT !.events = <<>>])
      text  == IF begun.textBlock # None /\ ~begun.textClosed
               THEN LET c == [begun EXCEPT !.textClosed = TRUE]
                    IN  IF c.active = "text" THEN Emit(c, BlockStop(c.textBlock)) ELSE c
               ELSE begun
  IN  Emit(Emit(StopTools(text), MessageDelta(s.finish)), MessageStop)

-----------------------------------------------------------------------------
(* AnthropicCompletionAccumulator                                          *)

CollectedStates ==
  [text : Seq(1 .. MaxChunks), order : Seq(ToolCalls), args : [ToolCalls -> Seq(1 .. MaxChunks)],
   nulls : SUBSET ToolCalls, finish : FinishReasons \cup {NoFinish}, failed : BOOLEAN]

InitCollected ==
  [text   |-> <<>>,
   order  |-> <<>>,                          \* _tool_uses, by first mention
   args   |-> [t \in ToolCalls |-> <<>>],    \* their {"_partial": arguments}
   nulls  |-> {},                            \* the calls whose _partial is None
   finish |-> NoFinish,                      \* _stop_reason
   failed |-> FALSE]                         \* add raised: the answer is a 500

\* A new call keeps its first arguments as they are, null ones too; more are
\* joined to them, and None + str raises.  Nothing is collected after that.
CollectTool(a, d, p) ==
  LET known == \E i \in DOMAIN a.order : a.order[i] = d.tool
      piece == d.args = "piece"
  IN  CASE a.failed -> a
        [] ~a.failed /\ known /\ piece /\ d.tool \in a.nulls -> [a EXCEPT !.failed = TRUE]
        [] OTHER ->
             [a EXCEPT !.order = IF known THEN @ ELSE Append(@, d.tool),
                       !.args[d.tool] = IF piece THEN Append(@, p) ELSE @,
                       !.nulls = IF ~known /\ d.args = "null" THEN @ \cup {d.tool} ELSE @]

\* The tool call deltas of a chunk, one after the other.
CollectTools(a, tools, p) ==
  LET after[k \in 0 .. Len(tools)] ==
        IF k = 0 THEN a ELSE CollectTool(after[k - 1], tools[k], p)
  IN  after[Len(tools)]

\* AnthropicCompletionAccumulator.add; a call that raises ends the collection.
CollectChunk(a, chunk, p) ==
  LET text  == [a EXCEPT !.text = IF chunk.content = "piece" THEN Append(@, p) ELSE @]
      tools == CollectTools(text, chunk.tools, p)
  IN  CASE a.failed -> a
        [] ~a.failed /\ tools.failed -> tools
        [] OTHER -> [tools EXCEPT !.finish = LatestFinish(@, chunk)]

Block(kind, pieces) == [kind |-> kind, pieces |-> pieces]

\* final_response: the text, the tool calls, and never no content at all.
FinalResponse(a) ==
  LET text   == IF a.text = <<>> THEN <<>> ELSE <<Block("text", a.text)>>
      blocks == text \o [i \in DOMAIN a.order |-> Block("tool_use", a.args[a.order[i]])]
  IN  [content |-> IF blocks = <<>> THEN <<Block("text", <<>>)>> ELSE blocks,
       stop    |-> MapStopReason(a.finish)]

-----------------------------------------------------------------------------

StreamInit ==
  /\ n = 0
  /\ stream = InitStream
  /\ out = <<>>
  /\ collected = InitCollected
  /\ status = "open"

\* The stream's new state, and its events on their way to the client.
Send(s) ==
  /\ stream' = [s EXCEPT !.events = <<>>]
  /\ out' = out \o s.events

\* A chunk with a choice.
Chunk(chunk) ==
  /\ status = "open" /\ n < MaxChunks
  /\ n' = n + 1
  /\ Send(ConsumeChunk(stream, chunk, n + 1))
  /\ collected' = CollectChunk(collected, chunk, n + 1)
  /\ UNCHANGED status

\* A chunk without choices, such as the one that carries the usage: both only
\* note it.
BareChunk ==
  /\ status = "open" /\ n < MaxChunks
  /\ n' = n + 1
  /\ UNCHANGED <<stream, out, collected, status>>

\* [DONE].
Done ==
  /\ status = "open"
  /\ Send(FinalizeEvents(stream))
  /\ status' = "done"
  /\ UNCHANGED <<n, collected>>

\* The upstream failed, which the client is told, or closed the stream without
\* [DONE]: the generator ends and nothing is finalized.
Cut(failed) ==
  /\ status = "open"
  /\ status' = "cut"
  /\ out' = IF failed THEN Append(out, ErrorSent) ELSE out
  /\ UNCHANGED <<n, stream, collected>>

-----------------------------------------------------------------------------
(* Properties                                                              *)

Positions == DOMAIN out

Of(type) == {i \in Positions : out[i].type = type}

Starts(b) == {i \in Of("content_block_start") : out[i].index = b}
Stops(b) == {i \in Of("content_block_stop") : out[i].index = b}

\* What a client of the stream has of block b: its pieces, in order.
Assembled(b) == PiecesAt(out, {i \in Of("content_block_delta") : out[i].index = b})

\* The type of every variable.
TypeOK ==
  /\ n \in 0 .. MaxChunks
  /\ stream.textBlock \in {None} \cup 0 .. Cardinality(ToolCalls)
  /\ stream.blockOf \in [ToolCalls -> {None} \cup 0 .. Cardinality(ToolCalls)]
  /\ stream.next \in 0 .. Cardinality(ToolCalls) + 1
  /\ stream.started \in BOOLEAN /\ stream.textClosed \in BOOLEAN
  /\ stream.active \in {"none", "text", "tool_use"}
  /\ stream.finish \in FinishReasons \cup {NoFinish}
  /\ stream.events = <<>>
  /\ out \in Seq(Event)
  /\ collected \in CollectedStates
  /\ status \in {"open", "done", "cut"}

\* The events are those of one message: it starts first and once, its blocks
\* are numbered 0, 1, ... in the order they start, and none has two starts.
BlocksInOrder ==
  /\ Of("message_start") \subseteq {1}
  /\ Of("content_block_start") # {} => 1 \in Of("message_start")
  /\ \A i, j \in Of("content_block_start") : i < j => out[i].index < out[j].index
  /\ {out[i].index : i \in Of("content_block_start")}
       = 0 .. Cardinality(Of("content_block_start")) - 1

\* A delta goes to a block of its kind that was started and not stopped; only
\* text that arrives after a tool call is added to the stopped text block.
DeltasInBlocks ==
  \A i \in Of("content_block_delta") :
    /\ \E j \in Starts(out[i].index) : j < i /\ out[j].kind = out[i].kind
    /\ \A k \in Stops(out[i].index) :
         k < i => /\ out[i].kind = "text"
                  /\ \E j \in Of("content_block_start") :
                       j < i /\ out[j].kind = "tool_use"

\* A stream that ended with [DONE] stopped every block it started, once, and
\* then the message.
BlocksBalanced ==
  status = "done" =>
    /\ \A b \in 0 .. stream.next - 1 : Cardinality(Stops(b)) = 1
    /\ Of("message_stop") = {Len(out)}
    /\ \A i \in Of("content_block_stop") : \E j \in Starts(out[i].index) : j < i

\* What a client of the stream has, the text first and an empty text dropped.
StreamedContent ==
  LET text  == IF stream.textBlock = None THEN <<>> ELSE Assembled(stream.textBlock)
      tools == Ascending({stream.blockOf[t] : t \in ToolCalls} \ {None})
  IN  (IF text = <<>> THEN <<>> ELSE <<Block("text", text)>>)
        \o [i \in DOMAIN tools |-> Block("tool_use", Assembled(tools[i]))]

\* The streaming client puts together the message the collecting client gets,
\* block for block, and is told the same stop reason; only where neither text
\* nor a call came is the collected answer given an empty text block of its own.
\* A collecting client that is sent a 500 instead has nothing to compare.
StreamMatchesCollected ==
  LET final == FinalResponse(collected) IN
  ~collected.failed =>
  /\ final.content = IF StreamedContent = <<>> THEN <<Block("text", <<>>)>> ELSE StreamedContent
  /\ status = "done" => out[Len(out) - 1].stop = final.stop

=============================================================================

-------------------------- MODULE RequestConversion --------------------------
(***************************************************************************)
(* How a client's request becomes the messages that are sent upstream.     *)
(* An Anthropic body is converted message by message (anthropic_compat.py: *)
(* 57-266) and normalised once by build_anthropic_upstream_payload; an     *)
(* OpenAI body is taken as it is and normalised twice, by the endpoint     *)
(* (app.py:512) and by build_upstream_payload (openai_compat.py:114).      *)
(*                                                                         *)
(* A piece of content is known by its place in the body; the text of the   *)
(* system prompt override is a piece of its own.  Not every piece survives *)
(* the conversion: a document that is not base64 is dropped, an image      *)
(* given by URL becomes an image part without data, and of a tool result   *)
(* only the text is kept.  Minted ids (uuid4) are numbers, none of them    *)
(* twice.  Not modelled: the parameters, tools and tool_choice of the      *)
(* payload, which are copied or renamed one to one.                        *)
(***************************************************************************)
EXTENDS Integers, Sequences, FiniteSets, SequencesExt, FiniteSetsExt

CONSTANTS
  ToolIds,      \* the ids of the client's tool_use blocks
  MaxMessages,  \* bound on the messages of a body
  MaxBlocks,    \* bound on the blocks of a message
  MaxBody       \* bound on the blocks of a body

ASSUME ToolIdsAssumption == IsFiniteSet(ToolIds)
ASSUME BoundsAssumption == MaxMessages \in Nat /\ MaxBlocks \in Nat /\ MaxBody \in Nat

\* "no tool", "no call".
None == 0
ASSUME NoneAssumption == None \notin ToolIds

\* The blocks a client sends.  "media" is an image or a document in base64,
\* "link" an image given by URL, "other" any other document and a type the code
\* does not know.  A result is text, images, or both.
Plain(type) == [type |-> type, tool |-> None, holds |-> {}]
ToolUse(t) == [type |-> "tool_use", tool |-> t, holds |-> {}]
ToolResult(t, holds) == [type |-> "tool_result", tool |-> t, holds |-> holds]
ResultContents == {{"text"}, {"media"}, {"text", "media"}}
UserBlocks ==
  {Plain("text"), Plain("media"), Plain("link"), Plain("other")}
    \cup {ToolResult(t, holds) : t \in ToolIds, holds \in ResultContents}
AssistantBlocks ==
  {Plain("text"), Plain("thinking")} \cup {ToolUse(t) : t \in ToolIds}

\* Messages of an Anthropic body; content that is a string is one text block.
AnthropicMessages ==
  [role : {"user"}, blocks : BoundedSeq(UserBlocks, MaxBlocks)]
    \cup [role : {"assistant"}, blocks : BoundedSeq(AssistantBlocks, MaxBlocks)]

\* The override's text.
Override == [type |-> "override", at |-> <<>>]

\* Content of an OpenAI message: a string or a list of parts.
String(parts) == [form |-> "string", parts |-> parts]
List(parts) == [form |-> "list", parts |-> parts]
NoContent == [form |-> "null", parts |-> <<>>]

VARIABLES
  endpoint,  \* which of the two endpoints got the request
  stage,     \* "reading", "normalized" (OpenAI only), "sent"
  body,      \* the pieces and tool blocks the client sent, in order
  read,      \* messages of the body read so far
  messages,  \* the messages made of them
  callOf,    \* tool_use_to_call_id
  minted,    \* ids minted so far
  override   \* whether the settings have an override, once they are read

vars == <<endpoint, stage, body, read, messages, callOf, minted, override>>

-----------------------------------------------------------------------------
(* Conversion of Anthropic messages                                        *)

\* The blocks that have one of the types, in order.
OfType(blocks, types) ==
  FlattenSeq([k \in DOMAIN blocks |-> IF blocks[k].type \in types THEN <<blocks[k]>> ELSE <<>>])

\* The blocks of message i of the body, each with its place.
Placed(blocks, i) ==
  [k \in DOMAIN blocks |-> [type |-> blocks[k].type, tool |-> blocks[k].tool,
                            holds |-> blocks[k].holds, at |-> <<i, k>>]]

Pieces(blocks) == [k \in DOMAIN blocks |-> [type |-> blocks[k].type, at |-> blocks[k].at]]

\* _anthropic_content_to_openai: only text is a string, anything else a list of
\* the parts it knows, or the empty string if it knows none.  The image part of
\* a link has no data (_data_uri).
Content(blocks) ==
  LET known == Pieces(OfType(blocks, {"text", "media", "link"}))
  IN  IF (\A k \in DOMAIN blocks : blocks[k].type = "text") \/ known = <<>>
      THEN String(known) ELSE List(known)

Message(role, content) ==
  [role |-> role, content |-> content, reasoning |-> <<>>, calls |-> <<>>, answers |-> None]

\* The tool calls of a message: a new call id for every tool_use.
Calls(uses) ==
  [k \in DOMAIN uses |-> [call |-> minted + k, tool |-> uses[k].tool, at |-> uses[k].at]]

\* Mutation of Remembered: the first tool_use with an id keeps it.
MutRemembered(calls) ==
  [t \in ToolIds |->
     LET mine == {k \in DOMAIN calls : calls[k].tool = t}
     IN  IF mine = {} \/ callOf[t] # None THEN callOf[t] ELSE calls[CHOOSE k \in mine : \A j \in mine : k <= j].call]

\* tool_use_to_call_id after them: the latest tool_use with an id has it.
Remembered(calls) ==
  [t \in ToolIds |->
     LET mine == {k \in DOMAIN calls : calls[k].tool = t}
     IN  IF mine = {} THEN callOf[t] ELSE calls[CHOOSE k \in mine : \A j \in mine : j <= k].call]

\* Mutation of MainMessage: tool calls are sent only where there is no text.
MutMainMessage(role, texts, thoughts, calls) ==
  IF texts # <<>> \/ thoughts # <<>>
  THEN <<[Message(role, IF texts = <<>> THEN String(<<>>) ELSE Content(texts))
           EXCEPT !.reasoning = IF role = "assistant" THEN Pieces(thoughts) ELSE <<>>]>>
  ELSE IF calls # <<>>
       THEN <<[Message("assistant", NoContent) EXCEPT !.calls = calls]>>
       ELSE <<>>

\* Text, reasoning and calls go into one message; it has no content if there
\* are only calls, and there is none if there are only results.
MainMessage(role, texts, thoughts, calls) ==
  IF texts # <<>> \/ thoughts # <<>>
  THEN <<[Message(role, IF texts = <<>> THEN String(<<>>) ELSE Content(texts))
           EXCEPT !.reasoning = IF role = "assistant" THEN Pieces(thoughts) ELSE <<>>,
                  !.calls = calls]>>
  ELSE IF calls # <<>>
       THEN <<[Message("assistant", NoContent) EXCEPT !.calls = calls]>>
       ELSE <<>>

\* What is kept of a result: its text, or the empty string if it has none.
Text(result) ==
  [type |-> IF "text" \in result.holds THEN "result_text" ELSE "no_text",
   at   |-> result.at]

\* A tool message for each result: it answers the remembered call, or one of
\* its own; an id is minted for each of them either way.
ToolMessages(results, known, from) ==
  [k \in DOMAIN results |->
     [Message("tool", String(<<Text(results[k])>>))
        EXCEPT !.answers = IF known[results[k].tool] # None
                           THEN known[results[k].tool] ELSE from + k]]

\* Next message of an Anthropic body: its main message, then its results.
ConvertMessage(m) ==
  LET blocks  == Placed(m.blocks, read + 1)
      calls   == Calls(OfType(blocks, {"tool_use"}))
      results == OfType(blocks, {"tool_result"})
      known   == Remembered(calls)
      from    == minted + Len(calls)
      main    == MainMessage(m.role, OfType(blocks, {"text", "media", "link", "other"}),
                             OfType(blocks, {"thinking"}), calls)
      answers == ToolMessages(results, known, from)
  IN  /\ endpoint = "anthropic" /\ stage = "reading" /\ read < MaxMessages
      /\ Len(body) + Len(blocks) <= MaxBody
      /\ read' = read + 1
      /\ body' = body \o blocks
      /\ messages' = messages \o main \o answers
      /\ callOf' = known
      /\ minted' = from + Len(results)
      /\ UNCHANGED <<endpoint, stage, override>>

-----------------------------------------------------------------------------
(* Messages of an OpenAI body                                              *)

OpenAIContents ==
  LET text == [type |-> "text"] media == [type |-> "media"] prefix == [type |-> "override"]
  IN  {String(<<>>), String(<<text>>), String(<<prefix, text>>),
       List(<<text>>), List(<<media>>), List(<<media, text>>), NoContent}

\* The next message is taken as it is.
TakeMessage(role, content) ==
  LET placed == [k \in DOMAIN content.parts |->
                   IF content.parts[k].type = "override" THEN Override
                   ELSE [type |-> content.parts[k].type, at |-> <<read + 1, k>>]]
  IN  /\ endpoint = "openai" /\ stage = "reading" /\ read < MaxMessages
      /\ read' = read + 1
      /\ body' = body \o OfType(placed, {"text", "media", "link"})
      /\ messages' = Append(messages, Message(role, [content EXCEPT !.parts = placed]))
      /\ UNCHANGED <<endpoint, stage, callOf, minted, override>>

-----------------------------------------------------------------------------
(* normalize_chat_messages                                                 *)

\* Mutation of Prefixed: the override is put in front without looking.
MutPrefixed(content) ==
  CASE content.form = "string" -> [content EXCEPT !.parts = <<Override>> \o @]
    [] content.form = "list"   ->
         IF OfType(content.parts, {"text", "override"}) # <<>>
         THEN [content EXCEPT !.parts = <<Override>> \o @] ELSE content
    [] OTHER -> content

\* A system message begins with the override; a list without text is left alone.
Prefixed(content) ==
  CASE content.form = "string" ->
         IF content.parts # <<>> /\ Head(content.parts) = Override
         THEN content ELSE [content EXCEPT !.parts = <<Override>> \o @]
    [] content.form = "list"   ->
         LET texts == OfType(content.parts, {"text", "override"})
         IN  IF texts # <<>> /\ Head(texts) # Override
             THEN [content EXCEPT !.parts = <<Override>> \o @] ELSE content
    [] OTHER -> content

\* One message: a developer is a system, and a system gets the override.
NormalizeMessage(m, prefix) ==
  LET role == IF m.role = "developer" THEN "system" ELSE m.role
  IN  [m EXCEPT !.role = role,
                !.content = IF role = "system" /\ prefix THEN Prefixed(@) ELSE @]

\* All of them; a system message is put first if the client sent none.
Normalize(ms, prefix) ==
  LET normalized == [i \in DOMAIN ms |-> NormalizeMessage(ms[i], prefix)]
  IN  IF prefix /\ \A i \in DOMAIN ms : normalized[i].role # "system"
      THEN <<Message("system", String(<<Override>>))>> \o normalized
      ELSE normalized

-----------------------------------------------------------------------------

\* The system field of an Anthropic body: missing, or text that may be that of
\* the override already; a list of blocks is joined to a string.
SystemField ==
  {<<>>, <<[type |-> "text", at |-> <<0, 1>>]>>, <<Override, [type |-> "text", at |-> <<0, 1>>]>>}

\* _anthropic_system_to_openai_messages.
SystemMessages(system) ==
  IF system = <<>> THEN <<>> ELSE <<Message("system", String(system))>>

Init ==
  /\ stage = "reading"
  /\ read = 0
  /\ \/ /\ endpoint = "anthropic"
        /\ \E system \in SystemField :
             /\ messages = SystemMessages(system)
             /\ body = OfType(system, {"text"})
     \/ endpoint = "openai" /\ messages = <<>> /\ body = <<>>
  /\ callOf = [t \in ToolIds |-> None]
  /\ minted = 0
  /\ override = FALSE

\* An override that is set to the empty string adds nothing.
ReadSettings == override' \in BOOLEAN

\* The payload of an Anthropic request.
BuildAnthropicPayload ==
  /\ endpoint = "anthropic" /\ stage = "reading"
  /\ ReadSettings
  /\ messages' = Normalize(messages, override')
  /\ stage' = "sent"
  /\ UNCHANGED <<endpoint, body, read, callOf, minted>>

\* The OpenAI endpoint normalises the body before it asks for an account.
NormalizeBody ==
  /\ endpoint = "openai" /\ stage = "reading"
  /\ ReadSettings
  /\ messages' = Normalize(messages, override')
  /\ stage' = "normalized"
  /\ UNCHANGED <<endpoint, body, read, callOf, minted>>

\* The payload is built of the normalised messages.
BuildUpstreamPayload ==
  /\ endpoint = "openai" /\ stage = "normalized"
  /\ messages' = Normalize(messages, override)
  /\ stage' = "sent"
  /\ UNCHANGED <<endpoint, body, read, callOf, minted, override>>

Next ==
  \/ \E m \in AnthropicMessages : ConvertMessage(m)
  \/ BuildAnthropicPayload
  \/ \E role \in {"system", "developer", "user"}, content \in OpenAIContents :
       TakeMessage(role, content)
  \/ NormalizeBody
  \/ BuildUpstreamPayload

Spec == Init /\ [][Next]_vars

-----------------------------------------------------------------------------
(* Properties                                                              *)

\* The type of every variable.
TypeOK ==
  /\ endpoint \in {"anthropic", "openai"}
  /\ stage \in {"reading", "normalized", "sent"}
  /\ read \in 0 .. MaxMessages
  /\ callOf \in [ToolIds -> 0 .. minted]
  /\ minted \in Nat
  /\ override \in BOOLEAN

CallsIn(m) == ToSet(m.calls)
AllCalls == UNION {CallsIn(messages[k]) : k \in DOMAIN messages}

ToolMessageFor(m, block) ==
  m.role = "tool" /\ m.content.parts[1].at = block.at

\* The tool_use blocks with an id among the first pieces of the body.
UsesOf(t, before) ==
  {i \in 1 .. before : body[i].type = "tool_use" /\ body[i].tool = t}

\* Message k answers the call made of body[use], in a message before it.
AnswersUse(k, use) ==
  \E i \in 1 .. k - 1 : \E c \in CallsIn(messages[i]) :
    c.call = messages[k].answers /\ c.at = body[use].at

\* Message k has an id of its own.
AnswersNoCall(k) ==
  /\ \A c \in AllCalls : c.call # messages[k].answers
  /\ \A l \in DOMAIN messages : messages[l].answers = messages[k].answers => l = k

\* Every result answers the call made of the latest tool_use with its id, in a
\* message before it; a result of no tool_use answers no call at all, and no
\* two calls or lone results share an id.
ResultsAnswerCalls ==
  /\ \A c, d \in AllCalls : c.call = d.call => c = d
  /\ \A j \in DOMAIN body : body[j].type = "tool_result" =>
       LET uses == UsesOf(body[j].tool, j - 1)
       IN  \E k \in DOMAIN messages :
             /\ ToolMessageFor(messages[k], body[j])
             /\ IF uses = {} THEN AnswersNoCall(k) ELSE AnswersUse(k, Max(uses))

\* All the messages hold, one after the other.
PartsOf(ms) == FlattenSeq([k \in DOMAIN ms |-> ms[k].content.parts])
ReasoningOf(ms) == FlattenSeq([k \in DOMAIN ms |-> ms[k].reasoning])
CallsOf(ms) == FlattenSeq([k \in DOMAIN ms |-> ms[k].calls])

\* What is kept of each of some results.
Texts(results) == [k \in DOMAIN results |-> Text(results[k])]

\* The places that pieces, blocks or calls come from.
Places(s) == [k \in DOMAIN s |-> s[k].at]

\* What the client sent is sent on, once and in its order of each kind: text
\* and media whole, an image given by URL as a part, each result with its text
\* and nothing else, reasoning and calls.
SentInOrder ==
  /\ OfType(PartsOf(messages), {"text", "media", "link"}) =
       Pieces(OfType(body, {"text", "media", "link"}))
  /\ OfType(PartsOf(messages), {"result_text", "no_text"}) =
       Texts(OfType(body, {"tool_result"}))
  /\ ReasoningOf(messages) = Pieces(OfType(body, {"thinking"}))
  /\ Places(CallsOf(messages)) = Places(OfType(body, {"tool_use"}))

\* What is sent has no developer message, and, unless the override is empty, a
\* system message; each of these that has text begins with the override, and
\* none has it twice, however often the messages were normalised.
OverrideOnce ==
  stage = "sent" =>
    /\ \A k \in DOMAIN messages :
         LET content == messages[k].content
             texts   == OfType(content.parts, {"text", "override"})
         IN  /\ messages[k].role # "developer"
             /\ Len(OfType(content.parts, {"override"})) <= 1
             /\ override /\ messages[k].role = "system" =>
                  /\ content.form = "string" => texts # <<>>
                  /\ texts # <<>> => Head(texts) = Override
    /\ override => \E k \in DOMAIN messages : messages[k].role = "system"

=============================================================================

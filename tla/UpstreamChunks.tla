--------------------------- MODULE UpstreamChunks ---------------------------
(***************************************************************************)
(* The chunks of an upstream chat answer, as the code in src/ reads them:  *)
(* the one choice of a chunk, with its delta and finish_reason             *)
(* (anthropic_compat.py:421-469, openai_compat.py:184-223).  A piece of    *)
(* text, of reasoning or of tool arguments is the number of the chunk it   *)
(* came in.  A chunk may carry parts of every kind at once                 *)
(* (tests/test_anthropic_compat.py:415-421, 462-474).                      *)
(***************************************************************************)
EXTENDS Integers, Sequences, FiniteSets

CONSTANTS
  ToolCalls,      \* the tool_calls indices the upstream uses
  FinishReasons,  \* the finish reasons it gives
  MaxChunks,      \* bound on the chunks of an answer
  MaxDeltas,      \* bound on the tool_calls deltas of one chunk
  MaxParts        \* bound on the parts of one chunk

ASSUME ToolCallsAssumption == ToolCalls \subseteq Nat /\ IsFiniteSet(ToolCalls)
ASSUME BoundsAssumption ==
  MaxChunks \in Nat /\ MaxDeltas \in Nat /\ MaxParts \in Nat

\* The finish_reason of a chunk that brings none.
NoFinish == "none"

ASSUME FinishReasonsAssumption == NoFinish \notin FinishReasons

\* Text that is null (or left out), empty, or a piece.
Contents == {"null", "empty", "piece"}

\* A delta of a tool call, with its arguments.
ToolDeltas == [tool : ToolCalls, args : Contents]

AnyChunk ==
  [content   : Contents,
   reasoning : BOOLEAN,
   tools     : UNION {[1 .. k -> ToolDeltas] : k \in 0 .. MaxDeltas},
   finish    : FinishReasons \cup {NoFinish}]

\* The parts of a chunk: its content, its reasoning, its tool call deltas and
\* its finish_reason.
PartCount(c) ==
  (IF c.content = "null" THEN 0 ELSE 1) + (IF c.reasoning THEN 1 ELSE 0)
    + Len(c.tools) + (IF c.finish = NoFinish THEN 0 ELSE 1)

Chunks == {c \in AnyChunk : PartCount(c) <= MaxParts}

\* A finish_reason is kept until another one comes.
LatestFinish(kept, chunk) == IF chunk.finish = NoFinish THEN kept ELSE chunk.finish

-----------------------------------------------------------------------------

\* sorted(S): the i-th element is the one with i elements of S up to it.
Ascending(S) ==
  [i \in 1 .. Cardinality(S) |-> CHOOSE x \in S : Cardinality({y \in S : y <= x}) = i]

\* The pieces at the positions S of a stream, joined in order; the empty
\* string, 0, adds nothing.
PiecesAt(parts, S) ==
  LET at == Ascending({i \in S : parts[i].piece # 0})
  IN  [k \in DOMAIN at |-> parts[at[k]].piece]

=============================================================================

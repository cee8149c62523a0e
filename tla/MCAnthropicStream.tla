------------------------- MODULE MCAnthropicStream -------------------------
(***************************************************************************)
(* Every answer of up to three chunks with up to two tool calls, each      *)
(* chunk with up to two parts: text, reasoning, a finish reason and deltas *)
(* of the calls, alone or with one another, for the clients of both        *)
(* endpoints.                                                              *)
(***************************************************************************)
EXTENDS ChatAnswer

============================================================================

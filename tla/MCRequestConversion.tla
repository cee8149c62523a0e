------------------------ MODULE MCRequestConversion ------------------------
(***************************************************************************)
(* Bodies of up to three messages with up to two blocks each and five in   *)
(* all, and two tool_use ids: an id may be used twice before its result    *)
(* comes, and a result may come before its use.                            *)
(***************************************************************************)
EXTENDS RequestConversion, TLC

Symmetry == Permutations(ToolIds)

============================================================================

----------------------------- MODULE MCGateway -----------------------------
(***************************************************************************)
(* Gateway with two chats on the one account of each of two pools: every   *)
(* pair of endpoints and run chains, with one replacement of the pool.     *)
(***************************************************************************)
EXTENDS Gateway

============================================================================

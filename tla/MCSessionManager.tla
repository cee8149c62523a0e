-------------------------- MODULE MCSessionManager --------------------------
(***************************************************************************)
(* SessionManager with two chats and a warm-up competing for one account,  *)
(* two models, and three sessions after the one a previous process left.   *)
(***************************************************************************)
EXTENDS SessionManager

=============================================================================

------------------------------ MODULE MCApiKeys ------------------------------
(***************************************************************************)
(* ApiKeys with two names, one of which dotenv cuts, two keys, one model,  *)
(* and keys for all models and for none.                                   *)
(***************************************************************************)
EXTENDS ApiKeys

=============================================================================

--------------------------- MODULE MCAccountPool ---------------------------
(***************************************************************************)
(* AccountPool on two accounts and four requests: two leases out, one      *)
(* request waiting, and one name to spare for the newcomer that takes an   *)
(* account between a notification and the wake-up.                         *)
(***************************************************************************)
EXTENDS AccountPool


============================================================================

-------------------------- MODULE MCRequestRecords --------------------------
(***************************************************************************)
(* A ring of two records, one without a limit and one that keeps nothing,  *)
(* six requests and two restarts, each of which may change the limit: the  *)
(* ring overflows more than once within a process, and the file outlives   *)
(* the processes.                                                          *)
(***************************************************************************)
EXTENDS RequestRecords

MCLimits == {-1, 0, 2}

============================================================================

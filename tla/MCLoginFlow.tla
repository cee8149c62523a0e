----------------------------- MODULE MCLoginFlow -----------------------------
(***************************************************************************)
(* LoginFlow with two login sessions, two commits and two tokens, lists of *)
(* up to three tokens, and the code's two periods.  The sessions, commits  *)
(* and tokens are interchangeable, and every property is a safety          *)
(* property, so that symmetry is sound.                                    *)
(***************************************************************************)
EXTENDS LoginFlow, TLC

Symmetry == Permutations(Sids) \cup Permutations(Commits) \cup Permutations(Tokens)

=============================================================================

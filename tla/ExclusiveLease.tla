--------------------------- MODULE ExclusiveLease ---------------------------
(***************************************************************************)
(* What the account pool and the per-account session lock promise their    *)
(* callers, without saying how: a resource is lent to one client at a      *)
(* time, a client holds at most one, and waiting ends in a grant or a      *)
(* refusal.                                                                *)
(* AccountPool implements it with the accounts as resources                *)
(* (codebuff.py:884-1017), SessionManager with its one asyncio.Lock        *)
(* (codebuff.py:696-707).                                                  *)
(***************************************************************************)
CONSTANTS Clients,      \* the tasks that borrow
          Resources,    \* what is lent
          None          \* "holds nothing"; not a resource

VARIABLES want,         \* the clients that asked and wait for an answer
          holds         \* [Clients -> Resources \cup {None}]

leaseVars == <<want, holds>>

Init ==
  /\ want = {}
  /\ holds = [c \in Clients |-> None]

-----------------------------------------------------------------------------

\* A client asks and has to wait.
Ask(c) ==
  /\ holds[c] = None
  /\ c \notin want
  /\ want' = want \cup {c}
  /\ UNCHANGED holds

\* A client, waiting or just arrived, is lent a resource nobody holds.
Grant(c, x) ==
  /\ holds[c] = None
  /\ \A d \in Clients : holds[d] # x
  /\ holds' = [holds EXCEPT ![c] = x]
  /\ want' = want \ {c}

\* A client that waits is turned away.
Refuse(c) ==
  /\ c \in want
  /\ want' = want \ {c}
  /\ UNCHANGED holds

\* A client gives back what it holds.
Return(c) ==
  /\ holds[c] # None
  /\ holds' = [holds EXCEPT ![c] = None]
  /\ UNCHANGED want

Next ==
  \E c \in Clients :
    \/ Ask(c)
    \/ \E x \in Resources : Grant(c, x)
    \/ Refuse(c)
    \/ Return(c)

SafeSpec == Init /\ [][Next]_leaseVars

=============================================================================

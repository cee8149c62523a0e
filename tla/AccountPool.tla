----------------------------- MODULE AccountPool -----------------------------
(***************************************************************************)
(* CodebuffAccountPool (codebuff.py:859-1017): N upstream accounts, each   *)
(* lent to one chat request at a time.  A request takes the account the    *)
(* rate governor prefers if it is free, else the next free one in          *)
(* round-robin order, else it waits on an asyncio.Condition until a lease  *)
(* is returned or its deadline passes.                                     *)
(*                                                                         *)
(* Atomicity.  Everything runs on one event loop, and no code path awaits  *)
(* while it holds the condition's lock (wait() gives the lock up), so each *)
(* critical section is one step and the lock itself needs no variable.     *)
(* The steps of different tasks interleave at the awaits: in wait(),       *)
(* between a notification and the moment the woken task runs, and while    *)
(* the reserved account's session is being acquired.                       *)
(***************************************************************************)
EXTENDS Integers, FiniteSets, Sequences

CONSTANTS
  Requests,      \* the tasks that serve chat requests
  N,             \* account_count
  PassesWakeOn   \* does Condition.wait hand its wake-up to the next waiter
                 \* when it is cancelled?  TRUE in CPython 3.13
                 \* (.python-version), FALSE in 3.11 (Dockerfile:3)

\* `settings.codebuff_tokens or (None,)`: a pool is never empty.
ASSUME NAssumption == N \in Nat \ {0}
ASSUME RequestsAssumption == IsFiniteSet(Requests)
ASSUME PassesWakeOnAssumption == PassesWakeOn \in BOOLEAN

Accounts == 0 .. N - 1

\* No account: a request that holds none, a governor with no preference.
NoAccount == -1

\* preferred_index: None, an account, or an index past the end, which the
\* governor gives when the pool was replaced by a smaller one.
Preferences == {NoAccount} \cup 0 .. N

VARIABLES
  busy,       \* [Accounts -> BOOLEAN]: CodebuffAccount.busy
  nextIndex,  \* _next_index
  waiters,    \* the condition's deque, futures not yet notified, oldest first
  notified,   \* requests whose future is done and whose task has not run yet
  expired,    \* requests whose deadline has passed
  pc,         \* what each request is doing
  pref,       \* its preferred_index
  acct        \* the account it reserved: lease._account_index

vars == <<busy, nextIndex, waiters, notified, expired, pc, pref, acct>>

\* "closed" is a lease with _closed = True; "failed" a request that raised and
\* holds nothing; "refused" the 503 of a request that waited in vain;
\* "cancelled" a task that was cancelled while its session was acquired.
Finished == {"closed", "failed", "refused"}
PC == {"idle", "waiting", "reserved", "leased", "cancelled"} \cup Finished

Init ==
  /\ busy = [a \in Accounts |-> FALSE]
  /\ nextIndex = 0
  /\ waiters = <<>>
  /\ notified = {}
  /\ expired = {}
  /\ pc = [r \in Requests |-> "idle"]
  /\ pref = [r \in Requests |-> NoAccount]
  /\ acct = [r \in Requests |-> NoAccount]

-----------------------------------------------------------------------------

\* Mutation of Free: the busy flag is not looked at.
MutFree == Accounts

Free == {a \in Accounts : ~busy[a]}

\* a is the first free account at or after nextIndex, cyclically.
IsNextAvailable(a) ==
  \E k \in Accounts :
    /\ a = (nextIndex + k) % N
    /\ ~busy[a]
    /\ \A j \in Accounts : j < k => busy[(nextIndex + j) % N]

\* The account a request with preference p takes when some account is free.
Chooses(p, a) == IF p \in Free THEN a = p ELSE IsNextAvailable(a)

\* Mutation of Without: the future stays in the deque.
MutWithout(q, r) == q

\* The futures the condition keeps, after removing one that gave up.
Without(q, r) ==
  LET k == CHOOSE i \in DOMAIN q : q[i] = r
  IN  SubSeq(q, 1, k - 1) \o SubSeq(q, k + 1, Len(q))

\* Condition.notify(1) on the deque q and the notified set d: the oldest
\* future that is not done yet is completed, if there is one.
NotifyOne(q, d) ==
  IF q = <<>>
  THEN waiters' = q /\ notified' = d
  ELSE waiters' = Tail(q) /\ notified' = d \cup {Head(q)}

\* preferred_index and deadline are locals of _reserve_account: gone when it
\* returns or raises.
LeaveLoop(r) ==
  /\ pref' = [pref EXCEPT ![r] = NoAccount]
  /\ expired' = expired \ {r}

\* Mutation of Reserve: the round-robin pointer does not wrap.
MutReserve(r, a) ==
  /\ busy' = [busy EXCEPT ![a] = TRUE]
  /\ nextIndex' = a + 1
  /\ acct' = [acct EXCEPT ![r] = a]
  /\ pc' = [pc EXCEPT ![r] = "reserved"]
  /\ LeaveLoop(r)

\* Mark account a busy for r and move the round-robin pointer past it.
Reserve(r, a) ==
  /\ busy' = [busy EXCEPT ![a] = TRUE]
  /\ nextIndex' = (a + 1) % N
  /\ acct' = [acct EXCEPT ![r] = a]
  /\ pc' = [pc EXCEPT ![r] = "reserved"]
  /\ LeaveLoop(r)

\* Mutation of Release: no notify(1).
MutRelease(a) ==
  /\ busy' = [busy EXCEPT ![a] = FALSE]
  /\ UNCHANGED <<nextIndex, waiters, notified>>

\* release(account_index): the account is free and one waiter is notified.
Release(a) ==
  /\ busy' = [busy EXCEPT ![a] = FALSE]
  /\ NotifyOne(waiters, notified)
  /\ UNCHANGED nextIndex

-----------------------------------------------------------------------------

\* _reserve_account, first pass of the loop, an account is free.  A newcomer
\* does not queue behind the waiters.
ReserveNow(r, p) ==
  /\ pc[r] = "idle"
  /\ \E a \in Free : Chooses(p, a) /\ Reserve(r, a)
  /\ UNCHANGED <<waiters, notified>>

\* _reserve_account, first pass, every account is busy: wait on the condition.
StartWaiting(r, p) ==
  /\ pc[r] = "idle"
  /\ Free = {}
  /\ pref' = [pref EXCEPT ![r] = p]
  /\ pc' = [pc EXCEPT ![r] = "waiting"]
  /\ waiters' = Append(waiters, r)
  /\ UNCHANGED <<busy, nextIndex, notified, expired, acct>>

\* A notified task runs and finds an account free.
WakeAndReserve(r) ==
  /\ r \in notified
  /\ notified' = notified \ {r}
  /\ \E a \in Free : Chooses(pref[r], a) /\ Reserve(r, a)
  /\ UNCHANGED waiters

\* A notified task runs, a newcomer took the account, time is left: it waits
\* again, behind everyone else.
WakeAndWait(r) ==
  /\ r \in notified
  /\ Free = {}
  /\ r \notin expired
  /\ notified' = notified \ {r}
  /\ waiters' = Append(waiters, r)
  /\ UNCHANGED <<busy, nextIndex, expired, pc, pref, acct>>

\* Mutation of WakeAndRefuse: the deadline is recomputed on every pass.
MutWakeAndRefuse(r) ==
  /\ r \in notified
  /\ Free = {}
  /\ r \in expired
  /\ notified' = notified \ {r}
  /\ waiters' = Append(waiters, r)
  /\ expired' = expired \ {r}
  /\ UNCHANGED <<busy, nextIndex, pc, pref, acct>>

\* A notified task runs, no account is free and `remaining <= 0`: 503.
WakeAndRefuse(r) ==
  /\ r \in notified
  /\ Free = {}
  /\ r \in expired
  /\ notified' = notified \ {r}
  /\ pc' = [pc EXCEPT ![r] = "refused"]
  /\ LeaveLoop(r)
  /\ UNCHANGED <<busy, nextIndex, waiters, acct>>

\* The 30 s of a request that has not got an account are over.
DeadlinePasses(r) ==
  /\ pc[r] = "waiting"
  /\ r \notin expired
  /\ expired' = expired \cup {r}
  /\ UNCHANGED <<busy, nextIndex, waiters, notified, pc, pref, acct>>

\* Mutation of Timeout: the wake-up it had received is dropped.
MutTimeout(r) ==
  /\ pc[r] = "waiting"
  /\ r \in expired
  /\ waiters' = IF r \in notified THEN waiters ELSE Without(waiters, r)
  /\ notified' = notified \ {r}
  /\ pc' = [pc EXCEPT ![r] = "refused"]
  /\ LeaveLoop(r)
  /\ UNCHANGED <<busy, nextIndex, acct>>

\* condition.wait() is left by an exception, on a future that may already be
\* done, and so is the loop.
GiveUp(r, st) ==
  /\ pc[r] = "waiting"
  /\ LET q == IF r \in notified THEN waiters ELSE Without(waiters, r)
         d == notified \ {r}
     IN  IF PassesWakeOn
         THEN NotifyOne(q, d)
         ELSE waiters' = q /\ notified' = d
  /\ pc' = [pc EXCEPT ![r] = st]
  /\ LeaveLoop(r)
  /\ UNCHANGED <<busy, nextIndex, acct>>

\* wait_for gives up: TimeoutError, 503.
Timeout(r) == r \in expired /\ GiveUp(r, "refused")

\* The reserved account's SessionManager gave a session: the lease exists.
SessionAcquired(r) ==
  /\ pc[r] = "reserved"
  /\ pc' = [pc EXCEPT ![r] = "leased"]
  /\ UNCHANGED <<busy, nextIndex, waiters, notified, expired, pref, acct>>

\* Mutation of SessionFailed: the account stays reserved.
MutSessionFailed(r) ==
  /\ pc[r] = "reserved"
  /\ pc' = [pc EXCEPT ![r] = "failed"]
  /\ UNCHANGED <<busy, nextIndex, waiters, notified, expired, pref, acct>>

\* It raised instead: the account is released and the error passed on.
SessionFailed(r) ==
  /\ pc[r] = "reserved"
  /\ Release(acct[r])
  /\ pc' = [pc EXCEPT ![r] = "failed"]
  /\ acct' = [acct EXCEPT ![r] = NoAccount]
  /\ UNCHANGED <<expired, pref>>

\* The request's task is cancelled, as a gateway that shuts down does.  One that
\* waits holds nothing.  One whose session is being acquired leaves by a
\* CancelledError, which `except Exception` does not see: its account is never
\* released.
Cancel(r) ==
  \/ GiveUp(r, "failed")
  \/ /\ pc[r] = "reserved"
     /\ pc' = [pc EXCEPT ![r] = "cancelled"]
     /\ UNCHANGED <<busy, nextIndex, waiters, notified, expired, pref, acct>>

\* Mutation of AClose: _closed is not checked.
MutAClose(r) ==
  /\ pc[r] \in {"leased", "closed"}
  /\ Release(acct[r])
  /\ pc' = [pc EXCEPT ![r] = "closed"]
  /\ UNCHANGED <<expired, pref, acct>>

\* CodebuffAccountLease.aclose: once; a second call finds _closed and returns.
AClose(r) ==
  \/ /\ pc[r] = "leased"
     /\ Release(acct[r])
     /\ pc' = [pc EXCEPT ![r] = "closed"]
     /\ UNCHANGED <<expired, pref, acct>>
  \/ /\ pc[r] = "closed"
     /\ UNCHANGED vars

\* The task is done; its name stands for the next request that arrives.
NextRequest(r) ==
  /\ pc[r] \in Finished
  /\ pc' = [pc EXCEPT ![r] = "idle"]
  /\ acct' = [acct EXCEPT ![r] = NoAccount]
  /\ UNCHANGED <<busy, nextIndex, waiters, notified, expired, pref>>

Next ==
  \E r \in Requests :
    \/ \E p \in Preferences : ReserveNow(r, p) \/ StartWaiting(r, p)
    \/ WakeAndReserve(r) \/ WakeAndWait(r) \/ WakeAndRefuse(r)
    \/ DeadlinePasses(r) \/ Timeout(r)
    \/ SessionAcquired(r) \/ SessionFailed(r)
    \/ AClose(r) \/ Cancel(r) \/ NextRequest(r)

SafeSpec == Init /\ [][Next]_vars

\* The event loop runs every ready task and fires every timer.  Nothing obliges
\* a client to send a request, nor the service to answer one.
Fairness ==
  \A r \in Requests :
    /\ WF_vars(WakeAndReserve(r) \/ WakeAndWait(r) \/ WakeAndRefuse(r))
    /\ WF_vars(DeadlinePasses(r))
    /\ WF_vars(Timeout(r))

Spec == SafeSpec /\ Fairness

-----------------------------------------------------------------------------
(* Properties                                                              *)

\* The requests an account is kept from the others for: a cancelled one's is
\* kept for nobody.
Holds(r) == pc[r] \in {"reserved", "leased", "cancelled"}

WaiterSet == {waiters[i] : i \in DOMAIN waiters}

\* The type of every variable, with what the deque is: the futures of waiting
\* requests, each once, none of them done.
TypeOK ==
  /\ busy \in [Accounts -> BOOLEAN]
  /\ nextIndex \in Accounts
  /\ waiters \in Seq(Requests)
  /\ notified \subseteq Requests
  /\ expired \subseteq Requests
  /\ pc \in [Requests -> PC]
  /\ pref \in [Requests -> Preferences]
  /\ acct \in [Requests -> Accounts \cup {NoAccount}]

\* A waiting request's future is in the deque exactly once or is done, never
\* both, and no other request has one: no wake-up goes to a task that left.
WaitersConsistent ==
  /\ \A i, j \in DOMAIN waiters : waiters[i] = waiters[j] => i = j
  /\ WaiterSet \cap notified = {}
  /\ WaiterSet \cup notified = {r \in Requests : pc[r] = "waiting"}

\* An account is busy exactly while one request holds it: no two requests
\* share an account, none is freed under its holder, and none stays busy after
\* its lease closed or its session acquire raised an Exception.  Only a
\* CancelledError in that acquire leaves one busy behind a task that is gone.
BusyIffHeld ==
  /\ \A r, s \in Requests : Holds(r) /\ Holds(s) /\ acct[r] = acct[s] => r = s
  /\ \A a \in Accounts : busy[a] <=> \E r \in Requests : Holds(r) /\ acct[r] = a

\* No lost wake-up: while some waiter has not been notified, every idle account
\* is matched by a notified request that is about to look at it.
NoLostWakeup ==
  waiters # <<>> => Cardinality(Free) <= Cardinality(notified)

\* The 503 says "all N accounts busy" (codebuff.py:995-998, 1004-1008).  A
\* request is turned away only if no account is idle, or if a task was notified
\* of it, perhaps this very one whose timer fired first.
RefusedOnlyWhenBusy ==
  [][\A r \in Requests :
       pc[r] = "waiting" /\ pc'[r] = "refused" =>
         Free = {} \/ notified # {}]_vars

\* Every request that waits for an account gets one or its 503, whatever the
\* service and the other requests do: its deadline is its own.
WaitersAnswered ==
  \A r \in Requests : pc[r] = "waiting" ~> pc[r] # "waiting"

\* Every session acquire ends and every lease is closed.  The stealth transport
\* times its calls out (codebuff.py:124-130); httpx with read=None, which
\* FREEBUFF_STEALTH_TLS=false and a failed stealth start choose
\* (codebuff.py:133-145), waits for a stalled service without end.
CallsReturn ==
  \A r \in Requests :
    WF_vars(SessionAcquired(r) \/ SessionFailed(r)) /\ WF_vars(pc[r] = "leased" /\ AClose(r))

\* Where upstream calls end, a busy account is given back, whatever became of
\* the request: unless its task was cancelled while it acquired the session.
AccountsReturn ==
  CallsReturn =>
    \A a \in Accounts :
      busy[a] ~> ~busy[a] \/ \E r \in Requests : pc[r] = "cancelled" /\ acct[r] = a

\* The pool implements exclusive leases of accounts: a waiting request is a
\* client that asked, a reserved or leased account one that it holds.
Abstract == INSTANCE ExclusiveLease
  WITH Clients   <- Requests,
       Resources <- Accounts,
       None      <- NoAccount,
       want      <- {r \in Requests : pc[r] = "waiting"},
       holds     <- [r \in Requests |-> IF Holds(r) THEN acct[r] ELSE NoAccount]

\* Every step of the pool is a step of ExclusiveLease or leaves it alone.
ImplementsLease == Abstract!SafeSpec

=============================================================================

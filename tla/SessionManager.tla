--------------------------- MODULE SessionManager ---------------------------
(***************************************************************************)
(* SessionManager (codebuff.py:676-856) with the CodebuffClient calls it   *)
(* makes (codebuff.py:285-387), for one upstream account.  An account has  *)
(* at most one upstream session, bound to one model; the manager keeps a   *)
(* cache of the sessions it has seen, one per model, and lends the session *)
(* of a model to one task at a time: the manager's lock is held from       *)
(* acquire_session until the lease is closed.                              *)
(*                                                                         *)
(* Each upstream call is one step: the service acts, and the task consumes *)
(* the answer up to its next await.  A call may fail without effect, or    *)
(* fail after it took effect (the answer was lost).  Between any two steps *)
(* the service may expire the session or promote it from its queue; only   *)
(* this manager creates and deletes sessions of the account.               *)
(*                                                                         *)
(* Two kinds of failure are told apart.  A CodebuffError (the service's     *)
(* refusal, or httpx.RequestError) is caught where the code catches it.    *)
(* Any other exception (an answer that is no JSON, an error of the stealth *)
(* transport, a closed client) leaves through `except Exception` of        *)
(* acquire_session.  A cancelled task raises CancelledError, which is no   *)
(* Exception: nothing catches it.                                          *)
(*                                                                         *)
(* The advertisement and streak requests (codebuff.py:773-809) change no   *)
(* session state; they are part of the step before them, which may         *)
(* therefore end in an exception after it had its effect.                  *)
(***************************************************************************)
EXTENDS Integers, Sequences, FiniteSets, SequencesExt

CONSTANTS
  Tasks,     \* tasks that call acquire_session: chats and warm-ups
  Models,    \* model ids
  NoTask,    \* the lock is free
  MaxId,     \* bound on the instance ids the service hands out
  MaxPolls   \* bound on the polls of a queued session before the deadline

ASSUME ModelsAssumption == Models # {}
ASSUME NoTaskAssumption == NoTask \notin Tasks
ASSUME MaxIdAssumption == MaxId \in Nat
ASSUME MaxPollsAssumption == MaxPolls \in Nat

Ids == 0 .. MaxId

\* A cached FreebuffSession: is_fresh is what remaining_ms > 60_000 said when
\* the session was last looked at.
Session == [id : Ids, fresh : BOOLEAN]
NoSession == [id |-> -1, fresh |-> FALSE]

\* The service's record of the account.  `known`: some answer that this
\* manager stored named the id.
Upstream == [id : Ids, model : Models, status : {"queued", "active"},
             fresh : BOOLEAN, known : BOOLEAN]
NoUpstream == [id |-> -1]

VARIABLES
  lock,       \* the task that holds _lock, or NoTask
  lockQueue,  \* the lock's waiters, oldest first
  cache,      \* [Models -> Session \cup {NoSession}]: _sessions
  up,         \* the account's upstream session, or NoUpstream
  lastId,     \* the last instance id the service handed out
  pc,         \* the step each task is at; "cancelled" inside the section
  model,      \* the model it asked for
  held,       \* the id of the session its lease carries, or -1
  polls       \* how often the queued session was polled

vars == <<lock, lockQueue, cache, up, lastId, pc, model, held, polls>>

\* Inside _ensure_session_locked, by the call that comes next.
Ensuring == {"ensure", "inspect", "delete", "create", "unlock", "recreate", "poll"}
PC == {"idle", "queued", "leased", "cancelled"} \cup Ensuring

\* The model of a task that is not asking for one.
AnyModel == CHOOSE m \in Models : TRUE

Init ==
  /\ lock = NoTask
  /\ lockQueue = <<>>
  /\ cache = [m \in Models |-> NoSession]
  \* A restarted gateway may find a session of its previous life.
  /\ up \in {NoUpstream}
       \cup [id : {0}, model : Models, status : {"active"},
             fresh : BOOLEAN, known : {FALSE}]
  /\ lastId = 0
  /\ pc = [t \in Tasks |-> "idle"]
  /\ model = [t \in Tasks |-> AnyModel]
  /\ held = [t \in Tasks |-> -1]
  /\ polls = 0

-----------------------------------------------------------------------------

HasSession == up # NoUpstream
Active == HasSession /\ up.status = "active"
ActiveFor(m) == Active /\ up.model = m

Goto(t, step) == pc' = [pc EXCEPT ![t] = step]

\* Mutation of HandOut: the lock is freed before the lease is returned.
MutHandOut(t, id) ==
  /\ held' = [held EXCEPT ![t] = id]
  /\ Goto(t, "leased")
  /\ lock' = NoTask
  /\ UNCHANGED <<lockQueue, model>>

\* acquire_session returns a lease on the session with this id.
HandOut(t, id) ==
  /\ held' = [held EXCEPT ![t] = id]
  /\ Goto(t, "leased")
  /\ UNCHANGED <<lock, lockQueue, model>>

\* Mutation of Raise: the error path forgets the lock.
MutRaise(t) ==
  /\ Goto(t, "idle")
  /\ model' = [model EXCEPT ![t] = AnyModel]
  /\ UNCHANGED <<lock, lockQueue, held>>

\* The error path of acquire_session: `except Exception` frees the lock.
Raise(t) ==
  /\ lock' = NoTask
  /\ Goto(t, "idle")
  /\ model' = [model EXCEPT ![t] = AnyModel]
  /\ UNCHANGED <<lockQueue, held>>

\* Still inside _ensure_session_locked.
Continue(t, step) ==
  /\ Goto(t, step)
  /\ UNCHANGED <<lock, lockQueue, held, model>>

\* The cache after _sessions[m] = the session the service reports.
Stored(m) == [cache EXCEPT ![m] = [id |-> up'.id, fresh |-> up'.fresh]]

\* The cache after _sessions.pop(m, None).
Popped(m) == [cache EXCEPT ![m] = NoSession]

Cleared == [m \in Models |-> NoSession]

-----------------------------------------------------------------------------
(* The lock and the lease                                                  *)

\* acquire_session: asyncio.Lock hands itself to its waiters in order, a
\* newcomer gets it at once only if nobody queues.
Acquire(t, m) ==
  /\ pc[t] = "idle"
  /\ model' = [model EXCEPT ![t] = m]
  /\ \/ /\ lock = NoTask /\ lockQueue = <<>>
        /\ lock' = t
        /\ Goto(t, "ensure")
        /\ UNCHANGED lockQueue
     \/ /\ ~(lock = NoTask /\ lockQueue = <<>>)
        /\ lockQueue' = Append(lockQueue, t)
        /\ Goto(t, "queued")
        /\ UNCHANGED lock
  /\ UNCHANGED <<cache, up, lastId, held, polls>>

\* Mutation of OwnLock: the oldest waiter runs although the lock is held.
MutOwnLock(t) ==
  /\ lockQueue # <<>> /\ Head(lockQueue) = t
  /\ lock' = t
  /\ lockQueue' = Tail(lockQueue)
  /\ Goto(t, "ensure")
  /\ UNCHANGED <<cache, up, lastId, model, held, polls>>

\* The oldest waiter of the free lock runs and owns it.
OwnLock(t) ==
  /\ lock = NoTask
  /\ lockQueue # <<>> /\ Head(lockQueue) = t
  /\ lock' = t
  /\ lockQueue' = Tail(lockQueue)
  /\ Goto(t, "ensure")
  /\ UNCHANGED <<cache, up, lastId, model, held, polls>>

\* FreebuffSessionLease.aclose; the chat, or the warm-up, is over.
CloseLease(t) ==
  /\ pc[t] = "leased"
  /\ lock' = NoTask
  /\ held' = [held EXCEPT ![t] = -1]
  /\ model' = [model EXCEPT ![t] = AnyModel]
  /\ Goto(t, "idle")
  /\ UNCHANGED <<lockQueue, cache, up, lastId, polls>>

\* The task is cancelled at the await it is at, as a gateway that shuts down
\* does.  A waiter of the lock leaves its queue.  In _ensure_session_locked
\* CancelledError passes by `except Exception`: the lock is never released.
Cancel(t) ==
  /\ \/ /\ pc[t] = "queued"
        /\ \E i \in DOMAIN lockQueue :
             lockQueue[i] = t /\ lockQueue' = RemoveAt(lockQueue, i)
        /\ model' = [model EXCEPT ![t] = AnyModel]
        /\ Goto(t, "idle")
     \/ /\ pc[t] \in Ensuring
        /\ Goto(t, "cancelled")
        /\ UNCHANGED <<lockQueue, model>>
  /\ UNCHANGED <<lock, cache, up, lastId, held, polls>>

-----------------------------------------------------------------------------
(* _ensure_session_locked                                                  *)

\* No cached session worth asking about: go on without a call.
NothingCached(t) ==
  /\ pc[t] = "ensure"
  /\ ~cache[model[t]].fresh
  /\ Continue(t, "inspect")
  /\ UNCHANGED <<cache, up, lastId, polls>>

\* Mutation of Revalidate: any active answer is good enough.
MutRevalidate(t) ==
  /\ pc[t] = "ensure"
  /\ cache[model[t]].fresh
  /\ LET m == model[t] IN
     \/ /\ Active
        /\ cache' = [cache EXCEPT ![m].fresh = up.fresh]
        /\ HandOut(t, cache[m].id)
     \/ /\ cache' = Popped(m)
        /\ Continue(t, "inspect")
  /\ UNCHANGED <<up, lastId, polls>>

\* get_session(cached.instance_id).  The service answers for the account: the
\* code checks status and model, not which instance the answer is about.
Revalidate(t) ==
  /\ pc[t] = "ensure"
  /\ cache[model[t]].fresh
  /\ LET m == model[t] IN
     \/ \* active, for this model: reuse the cached session
        /\ ActiveFor(m)
        /\ cache' = [cache EXCEPT ![m].fresh = up.fresh]
        /\ HandOut(t, cache[m].id)
     \/ \* active, for another model: forget it
        /\ Active /\ up.model # m
        /\ cache' = Popped(m)
        /\ Continue(t, "inspect")
     \/ \* not active, or this instance is not: the entry stays
        /\ ~Active \/ up.id # cache[m].id
        /\ Continue(t, "inspect")
        /\ UNCHANGED cache
     \/ \* CodebuffError
        /\ cache' = Popped(m)
        /\ Continue(t, "inspect")
     \/ \* any other exception
        /\ Raise(t)
        /\ UNCHANGED cache
  /\ UNCHANGED <<up, lastId, polls>>

\* Mutation of Inspect: an adopted session is returned but not stored.
MutInspect(t) ==
  /\ pc[t] = "inspect"
  /\ LET m == model[t] IN
     \/ /\ ActiveFor(m)
        /\ up' = [up EXCEPT !.known = TRUE]
        /\ HandOut(t, up.id)
     \/ /\ Active /\ up.model # m
        /\ Continue(t, "delete")
        /\ UNCHANGED up
     \/ /\ Continue(t, "create")
        /\ UNCHANGED up
  /\ UNCHANGED <<cache, lastId, polls>>

\* _delete_locked_session, get_session().
Inspect(t) ==
  /\ pc[t] = "inspect"
  /\ LET m == model[t] IN
     \/ \* discovered an active session of this model: adopt it
        /\ ActiveFor(m)
        /\ up' = [up EXCEPT !.known = TRUE]
        /\ cache' = Stored(m)
        /\ HandOut(t, up.id)
     \/ \* active for another model: delete it first
        /\ Active /\ up.model # m
        /\ Continue(t, "delete")
        /\ UNCHANGED <<cache, up>>
     \/ \* not active, or CodebuffError, or an answer without model or id
        /\ Continue(t, "create")
        /\ UNCHANGED <<cache, up>>
     \/ \* any other exception, of this call or of the ads and streak calls
        /\ Raise(t)
        /\ UNCHANGED <<cache, up>>
  /\ UNCHANGED <<lastId, polls>>

\* delete_session(), then _sessions.clear(): in _delete_locked_session, or
\* after a "model_locked" answer to create_session.
Delete(t) ==
  /\ pc[t] \in {"delete", "unlock"}
  /\ \/ /\ up' = NoUpstream
        /\ cache' = Cleared
        /\ \/ Continue(t, IF pc[t] = "delete" THEN "create" ELSE "recreate")
           \/ Raise(t)  \* the ads and streak calls that follow
     \/ \* the call failed without an effect, or its answer was lost
        /\ up' \in {up, NoUpstream}
        /\ Raise(t)
        /\ UNCHANGED cache
  /\ UNCHANGED <<lastId, polls>>

\* The service makes a session for model m: a second request for the same
\* model may get the one that exists; another active model keeps its session.
Admit(m, status, known) ==
  /\ ~(Active /\ up.model # m)
  /\ \/ /\ HasSession /\ up.model = m /\ up.status = status
        /\ up' = [up EXCEPT !.known = @ \/ known]
        /\ UNCHANGED lastId
     \/ /\ lastId < MaxId
        /\ lastId' = lastId + 1
        /\ up' = [id |-> lastId + 1, model |-> m, status |-> status,
                  fresh |-> TRUE, known |-> known]

\* create_session(model), first attempt or the one after "model_locked".
Create(t) ==
  /\ pc[t] \in {"create", "recreate"}
  /\ LET m == model[t] IN
     \/ \* active
        /\ Admit(m, "active", TRUE)
        /\ cache' = Stored(m)
        /\ HandOut(t, up'.id)
        /\ UNCHANGED polls
     \/ \* queued: poll until it is active
        /\ Admit(m, "queued", FALSE)
        /\ Continue(t, "poll")
        /\ UNCHANGED <<cache, polls>>
     \/ \* model_locked: delete and retry, once
        /\ Active /\ up.model # m
        /\ IF pc[t] = "create" THEN Continue(t, "unlock") ELSE Raise(t)
        /\ UNCHANGED <<cache, up, lastId, polls>>
     \/ \* any other error, or an answer that was lost
        /\ \/ \E status \in {"active", "queued"} : Admit(m, status, FALSE)
           \/ UNCHANGED <<up, lastId>>
        /\ Raise(t)
        /\ UNCHANGED <<cache, polls>>

\* Mutation of Poll: the attempts are not limited by a deadline.
MutPoll(t) ==
  /\ pc[t] = "poll"
  /\ HasSession /\ up.status = "queued"
  /\ polls' = polls + 1
  /\ Continue(t, "poll")
  /\ UNCHANGED <<cache, up, lastId>>

\* Mutation of Poll: the deadline starts anew with every answer.
MutPollAnew(t) ==
  /\ pc[t] = "poll"
  /\ HasSession /\ up.status = "queued"
  /\ Continue(t, "poll")
  /\ UNCHANGED <<cache, up, lastId, polls>>

\* One round of _wait_for_active_session.
Poll(t) ==
  /\ pc[t] = "poll"
  /\ LET m == model[t] IN
     \/ /\ ActiveFor(m)
        /\ up' = [up EXCEPT !.known = TRUE]
        /\ cache' = Stored(m)
        /\ HandOut(t, up.id)
        /\ polls' = 0
     \/ /\ HasSession /\ up.status = "queued"
        /\ polls < MaxPolls
        /\ polls' = polls + 1
        /\ Continue(t, "poll")
        /\ UNCHANGED <<cache, up>>
     \/ \* deadline, an exception, or neither queued nor active
        /\ Raise(t)
        /\ polls' = 0
        /\ UNCHANGED <<cache, up>>
  /\ UNCHANGED <<lastId>>

-----------------------------------------------------------------------------
(* The service, on its own                                                 *)

\* The session's hour is over, or an operator ended it.
Expire ==
  /\ HasSession
  /\ up' = NoUpstream
  /\ UNCHANGED <<lock, lockQueue, cache, lastId, pc, model, held, polls>>

\* Less than a minute of it is left.
Age ==
  /\ Active /\ up.fresh
  /\ up' = [up EXCEPT !.fresh = FALSE]
  /\ UNCHANGED <<lock, lockQueue, cache, lastId, pc, model, held, polls>>

\* The queue reached it.
Promote ==
  /\ HasSession /\ up.status = "queued"
  /\ up' = [up EXCEPT !.status = "active"]
  /\ UNCHANGED <<lock, lockQueue, cache, lastId, pc, model, held, polls>>

-----------------------------------------------------------------------------

TaskStep(t) ==
  \/ NothingCached(t) \/ Revalidate(t) \/ Inspect(t)
  \/ Delete(t) \/ Create(t) \/ Poll(t)

Next ==
  \/ \E t \in Tasks :
       \/ \E m \in Models : Acquire(t, m)
       \/ OwnLock(t) \/ TaskStep(t) \/ CloseLease(t) \/ Cancel(t)
  \/ Expire \/ Age \/ Promote

SafeSpec == Init /\ [][Next]_vars

\* The event loop runs the waiter that the lock was passed to.  Nothing else is
\* certain: an upstream call may never return, and a lease is closed by its
\* chat.
Fairness == \A t \in Tasks : WF_vars(OwnLock(t))

Spec == SafeSpec /\ Fairness

-----------------------------------------------------------------------------
(* Properties                                                              *)

\* The tasks that prepare or use a session, the cancelled ones included.
InSection(t) == pc[t] \in Ensuring \cup {"leased", "cancelled"}

\* The type of every variable.
TypeOK ==
  /\ lock \in Tasks \cup {NoTask}
  /\ lockQueue \in Seq(Tasks)
  /\ cache \in [Models -> Session \cup {NoSession}]
  /\ up \in Upstream \cup {NoUpstream}
  /\ lastId \in 0 .. MaxId
  /\ pc \in [Tasks -> PC]
  /\ model \in [Tasks -> Models]
  /\ held \in [Tasks -> Ids \cup {-1}]
  /\ polls \in 0 .. MaxPolls

\* The lock belongs to the one task that prepares or uses a session, and is
\* free otherwise: no exception of any call leaves it locked behind a task that
\* is gone (codebuff.py:701-707).  The exception is a task cancelled inside
\* _ensure_session_locked: its lock is never released.
LockIffOwner == \A t \in Tasks : lock = t <=> InSection(t)

\* What the cache says of a model agrees with the service: if the account's
\* session is for that model and the manager was ever told its id, the cached
\* id is that one.  Only a session whose creation was reported as a failure is
\* missing from the cache.
CacheAgrees ==
  \A m \in Models :
    cache[m] # NoSession /\ ActiveFor(m) /\ up.known => cache[m].id = up.id

\* A lease is handed out on the session that is active at that moment, for the
\* requested model; the exception is a session the service holds after a
\* creation whose answer was lost.
HandedOutActive ==
  [][\A t \in Tasks :
       pc[t] # "leased" /\ pc'[t] = "leased" =>
         /\ up' # NoUpstream
         /\ up'.status = "active" /\ up'.model = model[t]
         /\ held'[t] = up'.id \/ ~up'.known]_vars

\* While a chat holds its lease, this process neither deletes, creates nor
\* forgets a session of the account; the session can only run out
\* (tests/test_sessions.py:153-186).
ChatUndisturbed ==
  [][\A t \in Tasks :
       pc[t] = "leased" /\ pc'[t] = "leased" =>
         /\ UNCHANGED <<cache, lastId>>
         /\ up' # up /\ up' # NoUpstream => up'.id = up.id]_vars

\* Every upstream call ends and every lease is closed.  The stealth transport
\* times its calls out (codebuff.py:124-130); httpx with read=None does not
\* (codebuff.py:133-145), and there a stalled service stops everything here.
CallsReturn ==
  \A t \in Tasks : WF_vars(TaskStep(t)) /\ WF_vars(CloseLease(t))

\* Where upstream calls end, every acquire ends in a lease or an error, however
\* the service behaves: unless a task was cancelled with the lock in its hands.
AcquireEnds ==
  CallsReturn =>
    \A t \in Tasks :
      pc[t] \in {"queued"} \cup Ensuring ~>
        \/ pc[t] \in {"leased", "idle"}
        \/ \E s \in Tasks : pc[s] = "cancelled"

\* The manager's lock implements ExclusiveLease of the account's session.
Abstract == INSTANCE ExclusiveLease
  WITH Clients   <- Tasks,
       Resources <- {"session"},
       None      <- "none",
       want      <- {t \in Tasks : pc[t] = "queued"},
       holds     <- [t \in Tasks |-> IF InSection(t) THEN "session" ELSE "none"]

\* Every step of the manager is a step of ExclusiveLease or leaves it alone.
ImplementsLease == Abstract!SafeSpec

=============================================================================

------------------------ MODULE SessionManagerProofs ------------------------
(***************************************************************************)
(* Proofs about SessionManager, for every set of tasks and models and      *)
(* every bound.                                                            *)
(***************************************************************************)
EXTENDS SessionManager, SequenceTheorems, TLAPS

\* What TypeOK says of the lock and the tasks, and of the sessions.
ControlOK ==
  /\ lock \in Tasks \cup {NoTask}
  /\ lockQueue \in Seq(Tasks)
  /\ pc \in [Tasks -> PC]
  /\ model \in [Tasks -> Models]
  /\ held \in [Tasks -> Ids \cup {-1}]
DataOK ==
  /\ cache \in [Models -> Session \cup {NoSession}]
  /\ up \in Upstream \cup {NoUpstream}
  /\ lastId \in 0 .. MaxId
  /\ polls \in 0 .. MaxPolls

\* A session that waits in the service's queue was never reported active, so
\* no answer that was stored named it.
QueuedUnknown == HasSession /\ up.status = "queued" => ~up.known

IInv == ControlOK /\ DataOK /\ LockIffOwner /\ QueuedUnknown /\ CacheAgrees

\* The type invariant, part by part.
LEMMA TypeOKSplits == TypeOK <=> ControlOK /\ DataOK
  BY DEF TypeOK, ControlOK, DataOK

-----------------------------------------------------------------------------
(* The lock                                                                *)

\* A model to stand for "none" exists.
LEMMA AnyModelIsModel == AnyModel \in Models
  BY ModelsAssumption DEF AnyModel

\* Inside the section a task may go on, hand the session out or raise: the
\* lock stays with its owner or is freed by it.
LEMMA SectionStep ==
  ASSUME ControlOK, LockIffOwner, NEW t \in Tasks, pc[t] \in Ensuring,
         \/ \E step \in Ensuring : Continue(t, step)
         \/ \E id \in Ids : HandOut(t, id)
         \/ Raise(t)
  PROVE  ControlOK' /\ LockIffOwner'
  <1>1. lock = t /\ \A s \in Tasks : s # t => ~InSection(s)
    BY DEF LockIffOwner, InSection
  <1>2. CASE \E step \in Ensuring : Continue(t, step)
    BY <1>1, <1>2 DEF Continue, Goto, ControlOK, LockIffOwner, InSection, Ensuring, PC
  <1>3. CASE \E id \in Ids : HandOut(t, id)
    BY <1>1, <1>3 DEF HandOut, Goto, ControlOK, LockIffOwner, InSection, Ensuring, PC
  <1>4. CASE Raise(t)
    <2>1. ControlOK'
      BY <1>4, AnyModelIsModel DEF Raise, Goto, ControlOK, PC
    <2>2. ASSUME NEW s \in Tasks PROVE ~InSection(s)'
      BY <1>1, <1>4 DEF Raise, Goto, ControlOK, InSection, Ensuring
    <2>3. lock' \notin Tasks
      BY <1>4, NoTaskAssumption DEF Raise
    <2>4. QED BY <2>1, <2>2, <2>3 DEF LockIffOwner
  <1>5. QED BY <1>2, <1>3, <1>4

\* Each call of _ensure_session_locked is one of these.
LEMMA TaskStepIsSectionStep ==
  ASSUME IInv, NEW t \in Tasks, TaskStep(t)
  PROVE  /\ pc[t] \in Ensuring
         /\ \/ \E step \in Ensuring : Continue(t, step)
            \/ \E id \in Ids : HandOut(t, id)
            \/ Raise(t)
  <1> USE DEF IInv
  <1>1. model[t] \in Models
    BY DEF ControlOK
  <1>2. CASE NothingCached(t)
    BY <1>2 DEF NothingCached, Ensuring
  <1>3. CASE Revalidate(t)
    <2>1. cache[model[t]].id \in Ids
      BY <1>1, <1>3 DEF Revalidate, DataOK, Session, NoSession
    <2>2. QED BY <1>3, <2>1 DEF Revalidate, Ensuring
  <1>4. CASE Inspect(t)
    <2>1. HasSession => up.id \in Ids
      BY DEF HasSession, DataOK, Upstream
    <2>2. QED BY <1>4, <2>1 DEF Inspect, Ensuring, ActiveFor, Active
  <1>5. CASE Delete(t)
    BY <1>5 DEF Delete, Ensuring
  <1>6. CASE Create(t)
    <2>1. ASSUME NEW status \in {"active", "queued"}, NEW known \in BOOLEAN,
                 Admit(model[t], status, known)
          PROVE  up'.id \in Ids
      BY <2>1, MaxIdAssumption DEF Admit, HasSession, DataOK, Upstream, Ids
    <2>2. QED BY <1>6, <2>1 DEF Create, Ensuring
  <1>7. CASE Poll(t)
    <2>1. HasSession => up.id \in Ids
      BY DEF HasSession, DataOK, Upstream
    <2>2. QED BY <1>7, <2>1 DEF Poll, Ensuring, ActiveFor, Active
  <1>8. QED BY <1>2, <1>3, <1>4, <1>5, <1>6, <1>7 DEF TaskStep

-----------------------------------------------------------------------------
(* The cache and the service's session                                     *)

DataInv == DataOK /\ QueuedUnknown /\ CacheAgrees

\* Storing the service's session under its model.
LEMMA StoredKeeps ==
  ASSUME DataInv, up' \in Upstream, cache' = Stored(up'.model)
  PROVE  /\ cache' \in [Models -> Session \cup {NoSession}]
         /\ CacheAgrees'
  <1>1. up'.model \in Models /\ up'.id \in Ids /\ up'.fresh \in BOOLEAN
    BY DEF Upstream
  <1>2. cache' \in [Models -> Session \cup {NoSession}]
    BY <1>1 DEF DataInv, DataOK, Stored, Session
  <1>3. cache'[up'.model].id = up'.id
    BY <1>1 DEF DataInv, DataOK, Stored
  <1>4. QED BY <1>2, <1>3 DEF CacheAgrees, ActiveFor, Active, HasSession

\* Admitting a session keeps the service's record well formed.
LEMMA AdmitEffect ==
  ASSUME DataInv, NEW m \in Models, NEW status \in {"active", "queued"},
         NEW known \in BOOLEAN, status = "queued" => ~known,
         Admit(m, status, known)
  PROVE  /\ up' \in Upstream /\ lastId' \in 0 .. MaxId
         /\ up'.model = m /\ up'.status = status
         /\ QueuedUnknown'
         /\ known => up'.known
         /\ ~known => \/ ~up'.known
                      \/ HasSession /\ up'.id = up.id /\ up'.known = up.known
                         /\ up.model = m /\ up.status = status
  <1> USE DEF DataInv, DataOK
  <1>1. CASE HasSession /\ up.model = m /\ up.status = status
             /\ up' = [up EXCEPT !.known = @ \/ known] /\ UNCHANGED lastId
    <2>1. up \in Upstream
      BY <1>1 DEF HasSession
    <2>2. /\ up' \in Upstream /\ up'.model = m /\ up'.status = status
          /\ up'.id = up.id /\ up'.known = (up.known \/ known)
      BY <1>1, <2>1 DEF Upstream
    <2>3. QED BY <1>1, <2>1, <2>2 DEF QueuedUnknown, HasSession, Upstream
  <1>2. CASE /\ lastId < MaxId
             /\ lastId' = lastId + 1
             /\ up' = [id |-> lastId + 1, model |-> m, status |-> status,
                       fresh |-> TRUE, known |-> known]
    <2>1. lastId + 1 \in Ids /\ lastId' \in 0 .. MaxId
      BY <1>2, MaxIdAssumption DEF Ids
    <2>2. QED BY <1>2, <2>1 DEF Upstream, QueuedUnknown
  <1>3. QED BY <1>1, <1>2 DEF Admit

-----------------------------------------------------------------------------
(* The invariant                                                           *)

\* Forgetting cached sessions, or what is left of a session's time, never makes
\* the cache disagree.
LEMMA ForgettingKeeps ==
  ASSUME DataInv,
         \A m \in Models : \/ cache'[m] = cache[m]
                           \/ cache'[m] = NoSession
                           \/ cache'[m].id = cache[m].id /\ cache[m] # NoSession,
         up' = up
  PROVE  CacheAgrees'
  BY DEF DataInv, CacheAgrees, ActiveFor, Active, HasSession

\* What a call of _ensure_session_locked does to the cache and the service.
LEMMA TaskStepKeepsData ==
  ASSUME IInv, NEW t \in Tasks, TaskStep(t)
  PROVE  DataInv'
  <1> USE DEF DataInv
  <1> DEFINE m == model[t]
  <1>1. m \in Models
    BY DEF IInv, ControlOK
  <1>2. DataInv
    BY DEF IInv
  <1>3. ASSUME cache' \in [Models -> Session \cup {NoSession}], CacheAgrees',
               up' = up, lastId' = lastId, polls' \in 0 .. MaxPolls
        PROVE  DataInv'
    BY <1>2, <1>3 DEF DataOK, QueuedUnknown, HasSession
  <1>4. Popped(m) \in [Models -> Session \cup {NoSession}]
        /\ Cleared \in [Models -> Session \cup {NoSession}]
    BY <1>1, <1>2 DEF DataOK, Popped, Cleared
  <1>5. ASSUME ActiveFor(m), up' = [up EXCEPT !.known = TRUE], cache' = Stored(m),
               lastId' = lastId, polls' \in 0 .. MaxPolls
        PROVE  DataInv'
    <2>1. up \in Upstream /\ up.status = "active" /\ up.model = m
      BY <1>2, <1>5 DEF ActiveFor, Active, HasSession, DataOK
    <2>2. up' \in Upstream /\ up'.status = "active" /\ up'.model = m
      BY <1>5, <2>1 DEF Upstream
    <2>3. /\ cache' \in [Models -> Session \cup {NoSession}]
          /\ CacheAgrees'
      BY <1>2, <1>5, <2>2, StoredKeeps
    <2>4. QED BY <1>2, <1>5, <2>2, <2>3 DEF DataOK, QueuedUnknown
  <1> HIDE DEF m
  <1>6. CASE NothingCached(t)
    BY <1>2, <1>3, <1>6 DEF NothingCached, DataOK, CacheAgrees, ActiveFor, Active, HasSession
  <1>7. CASE Revalidate(t)
    <2>1. up' = up /\ lastId' = lastId /\ polls' = polls /\ cache[m].fresh
      BY <1>7 DEF Revalidate, m
    <2>2. cache[m] \in Session
      BY <1>1, <1>2, <2>1 DEF DataOK, NoSession
    <2>3. CASE Active /\ cache' = [cache EXCEPT ![m].fresh = up.fresh]
      <3>1. up.fresh \in BOOLEAN
        BY <1>2, <2>3 DEF DataOK, Active, HasSession, Upstream
      <3>2. [cache[m] EXCEPT !.fresh = up.fresh] \in Session
            /\ [cache[m] EXCEPT !.fresh = up.fresh].id = cache[m].id
        BY <2>2, <3>1 DEF Session
      <3>3. cache' = [cache EXCEPT ![m] = [cache[m] EXCEPT !.fresh = up.fresh]]
        BY <1>1, <1>2, <2>3 DEF DataOK
      <3>4. cache' \in [Models -> Session \cup {NoSession}]
        BY <1>1, <1>2, <3>2, <3>3 DEF DataOK
      <3>5. /\ cache'[m].id = cache[m].id
            /\ \A n \in Models : n # m => cache'[n] = cache[n]
        BY <1>1, <1>2, <3>2, <3>3 DEF DataOK
      <3>6. cache[m] # NoSession
        BY <2>1 DEF NoSession
      <3>7. CacheAgrees'
        BY <1>1, <1>2, <2>1, <3>5, <3>6, ForgettingKeeps
      <3>8. QED BY <1>2, <1>3, <2>1, <3>4, <3>7 DEF DataOK
    <2>4. CASE cache' = Popped(m)
      <3>1. CacheAgrees'
        BY <1>1, <1>2, <2>1, <2>4, ForgettingKeeps DEF Popped, DataOK
      <3>2. QED BY <1>2, <1>3, <1>4, <2>1, <2>4, <3>1 DEF DataOK
    <2>5. CASE cache' = cache
      <3>1. CacheAgrees'
        BY <1>2, <2>1, <2>5, ForgettingKeeps
      <3>2. QED BY <1>2, <1>3, <2>1, <2>5, <3>1 DEF DataOK
    <2>6. QED BY <1>7, <2>3, <2>4, <2>5 DEF Revalidate, ActiveFor, m
  <1>8. CASE Inspect(t)
    <2>1. CASE cache' = cache /\ up' = up
      <3>1. CacheAgrees'
        BY <1>2, <2>1, ForgettingKeeps
      <3>2. QED BY <1>2, <1>3, <1>8, <2>1, <3>1 DEF Inspect, DataOK
    <2>2. QED BY <1>2, <1>5, <1>8, <2>1 DEF Inspect, DataOK, m
  <1>9. CASE Delete(t)
    <2>1. lastId' = lastId /\ polls' = polls
      BY <1>9 DEF Delete
    <2>2. CASE up' = NoUpstream
      <3>1. ~HasSession'
        BY <2>2 DEF HasSession
      <3>2. cache' = Cleared \/ cache' = cache
        BY <1>9 DEF Delete
      <3>3. QED
        BY <1>2, <1>4, <2>1, <2>2, <3>1, <3>2
           DEF DataOK, QueuedUnknown, CacheAgrees, ActiveFor, Active
    <2>3. CASE up' = up /\ cache' = cache
      <3>1. CacheAgrees'
        BY <1>2, <2>3, ForgettingKeeps
      <3>2. QED BY <1>2, <1>3, <2>1, <2>3, <3>1 DEF DataOK
    <2>4. QED BY <1>9, <2>2, <2>3 DEF Delete
  <1>10. CASE Create(t)
    <2>1. polls' = polls
      BY <1>10 DEF Create
    <2>2. ASSUME Admit(m, "active", TRUE), cache' = Stored(m)
          PROVE  DataInv'
      <3>1. /\ up' \in Upstream /\ lastId' \in 0 .. MaxId /\ up'.model = m
            /\ QueuedUnknown'
        BY <1>1, <1>2, <2>2, AdmitEffect
      <3>2. /\ cache' \in [Models -> Session \cup {NoSession}]
            /\ CacheAgrees'
        BY <1>2, <2>2, <3>1, StoredKeeps
      <3>3. QED BY <1>2, <2>1, <3>1, <3>2 DEF DataOK
    <2>3. ASSUME NEW status \in {"active", "queued"}, Admit(m, status, FALSE),
                 cache' = cache
          PROVE  DataInv'
      <3>1. /\ up' \in Upstream /\ lastId' \in 0 .. MaxId /\ up'.model = m
            /\ up'.status = status /\ QueuedUnknown'
            /\ \/ ~up'.known
               \/ HasSession /\ up'.id = up.id /\ up'.known = up.known
                  /\ up.model = m /\ up.status = status
        BY <1>1, <1>2, <2>3, AdmitEffect
      <3>2. CacheAgrees'
        BY <1>2, <2>3, <3>1 DEF CacheAgrees, ActiveFor, Active, HasSession
      <3>3. QED BY <1>2, <2>1, <2>3, <3>1, <3>2 DEF DataOK
    <2>4. CASE up' = up /\ cache' = cache /\ lastId' = lastId
      <3>1. CacheAgrees'
        BY <1>2, <2>4, ForgettingKeeps
      <3>2. QED BY <1>2, <1>3, <2>1, <2>4, <3>1 DEF DataOK
    <2>5. QED BY <1>10, <2>2, <2>3, <2>4 DEF Create, m
  <1>11. CASE Poll(t)
    <2>1. polls' \in 0 .. MaxPolls /\ lastId' = lastId
      BY <1>2, <1>11, MaxPollsAssumption DEF Poll, DataOK
    <2>2. CASE cache' = cache /\ up' = up
      <3>1. CacheAgrees'
        BY <1>2, <2>2, ForgettingKeeps
      <3>2. QED BY <1>2, <1>3, <2>1, <2>2, <3>1 DEF DataOK
    <2>3. QED BY <1>2, <1>5, <1>11, <2>1, <2>2 DEF Poll, m
  <1>12. QED BY <1>6, <1>7, <1>8, <1>9, <1>10, <1>11 DEF TaskStep

\* Init gives the invariant.
LEMMA InitIInv == Init => IInv
  <1> SUFFICES ASSUME Init PROVE IInv
    OBVIOUS
  <1>1. ControlOK
    BY AnyModelIsModel DEF Init, ControlOK, PC
  <1>2. LockIffOwner
    BY NoTaskAssumption DEF Init, LockIffOwner, InSection, Ensuring
  <1>3. up \in Upstream \cup {NoUpstream} /\ (HasSession => ~up.known)
    <2>1. CASE up = NoUpstream
      BY <2>1 DEF HasSession
    <2>2. CASE up \in [id : {0}, model : Models, status : {"active"},
                       fresh : BOOLEAN, known : {FALSE}]
      <3>1. /\ up = [id |-> up.id, model |-> up.model, status |-> up.status,
                     fresh |-> up.fresh, known |-> up.known]
            /\ up.id = 0 /\ up.model \in Models /\ up.status = "active"
            /\ up.fresh \in BOOLEAN /\ up.known = FALSE
        BY <2>2
      <3>2. up.id \in Ids
        BY <3>1, MaxIdAssumption DEF Ids
      <3>3. QED BY <3>1, <3>2 DEF Upstream
    <2>3. QED BY <2>1, <2>2 DEF Init
  <1>4. DataOK
    BY <1>3, MaxIdAssumption, MaxPollsAssumption DEF Init, DataOK
  <1>5. QueuedUnknown /\ CacheAgrees
    BY <1>3 DEF QueuedUnknown, CacheAgrees, ActiveFor, Active
  <1>6. QED BY <1>1, <1>2, <1>4, <1>5 DEF IInv

\* Every step keeps it.
LEMMA NextIInv == IInv /\ [Next]_vars => IInv'
  <1> SUFFICES ASSUME IInv, [Next]_vars PROVE IInv'
    OBVIOUS
  <1> USE DEF IInv
  <1>1. ASSUME UNCHANGED <<cache, up, lastId, polls>> PROVE DataInv'
    BY <1>1 DEF DataInv, DataOK, QueuedUnknown, CacheAgrees, ActiveFor, Active, HasSession
  <1>2. ASSUME UNCHANGED <<lock, lockQueue, pc, model, held>>
        PROVE  ControlOK' /\ LockIffOwner'
    BY <1>2 DEF ControlOK, LockIffOwner, InSection
  <1>3. ASSUME NEW t \in Tasks, NEW m \in Models, Acquire(t, m) PROVE IInv'
    <2>1. ControlOK' /\ LockIffOwner'
      <3>1. CASE lock = NoTask /\ lock' = t /\ Goto(t, "ensure") /\ UNCHANGED lockQueue
        <4>1. ControlOK'
          BY <1>3, <3>1 DEF Acquire, Goto, ControlOK, PC, Ensuring
        <4>2. \A s \in Tasks : ~InSection(s)
          BY <3>1, NoTaskAssumption DEF LockIffOwner
        <4>3. \A s \in Tasks : InSection(s)' <=> s = t
          BY <3>1, <4>2 DEF Goto, ControlOK, InSection, Ensuring
        <4>4. QED BY <3>1, <4>1, <4>3 DEF LockIffOwner
      <3>2. CASE lockQueue' = Append(lockQueue, t) /\ Goto(t, "queued") /\ UNCHANGED lock
        BY <1>3, <3>2 DEF Acquire, Goto, ControlOK, LockIffOwner, InSection, PC, Ensuring
      <3>3. QED BY <1>3, <3>1, <3>2 DEF Acquire
    <2>2. DataInv'
      BY <1>1, <1>3 DEF Acquire
    <2>3. QED BY <2>1, <2>2 DEF DataInv
  <1>4. ASSUME NEW t \in Tasks, OwnLock(t) PROVE IInv'
    <2>1. \A s \in Tasks : ~InSection(s)
      BY <1>4, NoTaskAssumption DEF OwnLock, LockIffOwner
    <2>2. \A s \in Tasks : InSection(s)' <=> s = t
      BY <1>4, <2>1 DEF OwnLock, Goto, ControlOK, InSection, Ensuring
    <2>3. ControlOK'
      BY <1>4 DEF OwnLock, Goto, ControlOK, PC, Ensuring
    <2>4. LockIffOwner'
      BY <1>4, <2>2 DEF OwnLock, LockIffOwner
    <2>5. DataInv'
      BY <1>1, <1>4 DEF OwnLock
    <2>6. QED BY <2>3, <2>4, <2>5 DEF DataInv
  <1>5. ASSUME NEW t \in Tasks, TaskStep(t) PROVE IInv'
    <2>1. ControlOK' /\ LockIffOwner'
      BY <1>5, TaskStepIsSectionStep, SectionStep
    <2>2. DataInv'
      BY <1>5, TaskStepKeepsData
    <2>3. QED BY <2>1, <2>2 DEF DataInv
  <1>6. ASSUME NEW t \in Tasks, CloseLease(t) PROVE IInv'
    <2>1. \A s \in Tasks : s # t => ~InSection(s)
      BY <1>6 DEF CloseLease, LockIffOwner, InSection
    <2>2. \A s \in Tasks : ~InSection(s)'
      BY <1>6, <2>1 DEF CloseLease, Goto, ControlOK, InSection, Ensuring
    <2>3. ControlOK'
      BY <1>6, AnyModelIsModel DEF CloseLease, Goto, ControlOK, PC
    <2>4. LockIffOwner'
      BY <1>6, <2>2, NoTaskAssumption DEF CloseLease, LockIffOwner
    <2>5. DataInv'
      BY <1>1, <1>6 DEF CloseLease
    <2>6. QED BY <2>3, <2>4, <2>5 DEF DataInv
  <1>12. ASSUME NEW t \in Tasks, Cancel(t) PROVE IInv'
    <2>1. lockQueue' \in Seq(Tasks)
      <3>1. CASE UNCHANGED lockQueue
        BY <3>1 DEF ControlOK
      <3>2. ASSUME NEW i \in DOMAIN lockQueue, lockQueue' = RemoveAt(lockQueue, i)
            PROVE  lockQueue' \in Seq(Tasks)
        BY <3>2, ConcatProperties DEF RemoveAt, ControlOK
      <3>3. QED BY <1>12, <3>1, <3>2 DEF Cancel
    <2>2. ControlOK'
      BY <1>12, <2>1, AnyModelIsModel DEF Cancel, Goto, ControlOK, PC
    <2>3. \A s \in Tasks : InSection(s)' <=> InSection(s)
      BY <1>12 DEF Cancel, Goto, ControlOK, InSection, Ensuring
    <2>4. LockIffOwner'
      BY <1>12, <2>3 DEF Cancel, LockIffOwner
    <2>5. DataInv'
      BY <1>1, <1>12 DEF Cancel
    <2>6. QED BY <2>2, <2>4, <2>5 DEF DataInv
  <1>7. CASE Expire
    <2>1. ~HasSession'
      BY <1>7 DEF Expire, HasSession
    <2>2. DataInv'
      BY <1>7, <2>1 DEF Expire, DataInv, DataOK, QueuedUnknown, CacheAgrees, ActiveFor, Active
    <2>3. QED BY <1>2, <1>7, <2>2 DEF Expire, DataInv
  <1>8. CASE Age
    <2>1. up \in Upstream /\ up.status = "active"
      BY <1>8 DEF Age, Active, HasSession, DataOK
    <2>2. /\ up' \in Upstream /\ up'.status = "active" /\ up'.id = up.id
          /\ up'.model = up.model /\ up'.known = up.known
      BY <1>8, <2>1 DEF Age, Upstream
    <2>3. DataInv'
      BY <1>8, <2>1, <2>2
         DEF Age, DataInv, DataOK, QueuedUnknown, CacheAgrees, ActiveFor, Active
    <2>4. QED BY <1>2, <1>8, <2>3 DEF Age, DataInv
  <1>9. CASE Promote
    <2>1. up \in Upstream /\ ~up.known
      BY <1>9 DEF Promote, HasSession, DataOK, QueuedUnknown
    <2>2. up' \in Upstream /\ ~up'.known
      BY <1>9, <2>1 DEF Promote, Upstream
    <2>3. DataInv'
      BY <1>9, <2>2 DEF Promote, DataInv, DataOK, QueuedUnknown, CacheAgrees
    <2>4. QED BY <1>2, <1>9, <2>3 DEF Promote, DataInv
  <1>10. CASE UNCHANGED vars
    BY <1>1, <1>2, <1>10 DEF vars, DataInv
  <1>11. QED
    BY <1>3, <1>4, <1>5, <1>6, <1>7, <1>8, <1>9, <1>10, <1>12 DEF Next

\* The invariant holds throughout.
LEMMA InvariantIInv == SafeSpec => []IInv
  BY InitIInv, NextIInv, PTL DEF SafeSpec

-----------------------------------------------------------------------------
(* Theorems                                                                *)

\* Every variable keeps its type (codebuff.py:676-856).
THEOREM TypeCorrect == SafeSpec => []TypeOK
  <1>1. IInv => TypeOK
    BY TypeOKSplits DEF IInv
  <1>2. QED BY <1>1, InvariantIInv, PTL

\* The lock is held by the task that prepares or uses a session and by nobody
\* else, whatever exceptions its calls raise; CancelledError alone leaves it
\* with a task that is gone (codebuff.py:701-707).
THEOREM LockOwned == SafeSpec => []LockIffOwner
  <1>1. IInv => LockIffOwner
    BY DEF IInv
  <1>2. QED BY <1>1, InvariantIInv, PTL

\* The cache never names another session of a model than the active one the
\* manager was told of (codebuff.py:709-771).
THEOREM CacheCorrect == SafeSpec => []CacheAgrees
  <1>1. IInv => CacheAgrees
    BY DEF IInv
  <1>2. QED BY <1>1, InvariantIInv, PTL

\* A lease is handed out on the active session, of the requested model
\* (codebuff.py:696-771).
THEOREM LeaseOnActiveSession == SafeSpec => HandedOutActive
  <1> DEFINE Good(t) ==
        /\ up' # NoUpstream
        /\ up'.status = "active" /\ up'.model = model[t]
        /\ held'[t] = up'.id \/ ~up'.known
  <1>1. ASSUME IInv, NEW t \in Tasks, pc[t] # "leased", pc'[t] = "leased", [Next]_vars
        PROVE  Good(t)
    <2> USE <1>1 DEF IInv
    <2>1. pc \in [Tasks -> PC] /\ held \in [Tasks -> Ids \cup {-1}]
          /\ model[t] \in Models
      BY DEF ControlOK
    <2>2. TaskStep(t)
      <3>1. ASSUME NEW s \in Tasks, TaskStep(s) PROVE s = t
        <4>1. \E step : pc' = [pc EXCEPT ![s] = step]
          BY <3>1, TaskStepIsSectionStep DEF Continue, HandOut, Raise, Goto
        <4>2. QED BY <2>1, <4>1
      <3>2. ASSUME NEW s \in Tasks, NEW m \in Models, Acquire(s, m) PROVE FALSE
        BY <2>1, <3>2 DEF Acquire, Goto
      <3>3. ASSUME NEW s \in Tasks, OwnLock(s) \/ CloseLease(s) \/ Cancel(s) PROVE FALSE
        BY <2>1, <3>3 DEF OwnLock, CloseLease, Cancel, Goto
      <3>4. ~(Expire \/ Age \/ Promote \/ UNCHANGED vars)
        BY DEF Expire, Age, Promote, vars
      <3>5. QED BY <3>1, <3>2, <3>3, <3>4 DEF Next
    <2>3. ASSUME NEW id, HandOut(t, id) PROVE held'[t] = id
      BY <2>1, <2>3 DEF HandOut
    <2>4. ASSUME NEW step \in Ensuring, Continue(t, step) PROVE FALSE
      BY <2>1, <2>4 DEF Continue, Goto, Ensuring
    <2>5. ASSUME Raise(t) PROVE FALSE
      BY <2>1, <2>5 DEF Raise, Goto
    <2>6. ASSUME ActiveFor(model[t]), up' = [up EXCEPT !.known = TRUE], HandOut(t, up.id)
          PROVE  Good(t)
      <3>1. up \in Upstream /\ up.status = "active" /\ up.model = model[t]
        BY <2>6 DEF ActiveFor, Active, HasSession, DataOK
      <3>2. up' \in Upstream /\ up'.status = "active" /\ up'.model = model[t] /\ up'.id = up.id
        BY <2>6, <3>1 DEF Upstream
      <3>3. up' # NoUpstream
        BY <2>6, <3>2 DEF ActiveFor, Active, HasSession, NoUpstream, Upstream, Ids
      <3>4. QED BY <2>3, <2>6, <3>2, <3>3
    <2>7. CASE NothingCached(t)
      BY <2>4, <2>7 DEF NothingCached, Ensuring
    <2>8. CASE Revalidate(t)
      <3>1. /\ cache[model[t]].fresh /\ ActiveFor(model[t])
            /\ HandOut(t, cache[model[t]].id) /\ up' = up
        BY <2>4, <2>5, <2>8 DEF Revalidate, Ensuring
      <3>2. cache[model[t]] # NoSession
        BY <3>1 DEF NoSession
      <3>3. up.known => cache[model[t]].id = up.id
        BY <2>1, <3>1, <3>2 DEF CacheAgrees
      <3>4. up # NoUpstream /\ up.status = "active" /\ up.model = model[t]
        BY <3>1 DEF ActiveFor, Active, HasSession
      <3>5. QED BY <2>3, <3>1, <3>3, <3>4
    <2>9. CASE Inspect(t)
      BY <2>4, <2>5, <2>6, <2>9 DEF Inspect, Ensuring
    <2>10. CASE Delete(t)
      BY <2>4, <2>5, <2>10 DEF Delete, Ensuring
    <2>11. CASE Create(t)
      <3>1. Admit(model[t], "active", TRUE) /\ HandOut(t, up'.id)
        BY <2>4, <2>5, <2>11 DEF Create, Ensuring
      <3>2. up' \in Upstream /\ up'.model = model[t] /\ up'.status = "active"
        BY <2>1, <3>1, AdmitEffect DEF DataInv
      <3>3. up'.id \in Ids
        BY <3>2 DEF Upstream
      <3>4. up' # NoUpstream
        BY <3>3 DEF NoUpstream, Ids
      <3>5. QED BY <2>3, <3>1, <3>2, <3>4
    <2>12. CASE Poll(t)
      BY <2>4, <2>5, <2>6, <2>12 DEF Poll, Ensuring
    <2>13. QED BY <2>2, <2>7, <2>8, <2>9, <2>10, <2>11, <2>12 DEF TaskStep
  <1>2. IInv /\ [Next]_vars =>
          [\A t \in Tasks : pc[t] # "leased" /\ pc'[t] = "leased" => Good(t)]_vars
    BY <1>1
  <1>3. QED BY <1>2, InvariantIInv, PTL DEF SafeSpec, HandedOutActive

\* While a chat holds its lease nobody in this process touches the account's
\* session (tests/test_sessions.py:153-186).
THEOREM ChatLeftAlone == SafeSpec => ChatUndisturbed
  <1> DEFINE Kept ==
        /\ UNCHANGED <<cache, lastId>>
        /\ up' # up /\ up' # NoUpstream => up'.id = up.id
  <1>1. ASSUME IInv, NEW t \in Tasks, pc[t] = "leased", pc'[t] = "leased", [Next]_vars
        PROVE  Kept
    <2> USE <1>1 DEF IInv
    <2>1. ASSUME NEW s \in Tasks, TaskStep(s) PROVE FALSE
      <3>1. pc[s] \in Ensuring
        BY <2>1, TaskStepIsSectionStep
      <3>2. lock = s /\ lock = t
        BY <3>1 DEF LockIffOwner, InSection
      <3>3. QED BY <3>1, <3>2 DEF Ensuring
    <2>2. ASSUME NEW s \in Tasks, NEW m \in Models, Acquire(s, m) PROVE Kept
      BY <2>2 DEF Acquire
    <2>3. ASSUME NEW s \in Tasks, OwnLock(s) \/ CloseLease(s) \/ Cancel(s) PROVE Kept
      BY <2>3 DEF OwnLock, CloseLease, Cancel
    <2>4. CASE Expire
      BY <2>4 DEF Expire
    <2>5. CASE Age
      <3>1. up \in Upstream
        BY <2>5 DEF Age, Active, HasSession, DataOK
      <3>2. QED BY <2>5, <3>1 DEF Age, Upstream
    <2>6. CASE Promote
      <3>1. up \in Upstream
        BY <2>6 DEF Promote, HasSession, DataOK
      <3>2. QED BY <2>6, <3>1 DEF Promote, Upstream
    <2>7. CASE UNCHANGED vars
      BY <2>7 DEF vars
    <2>8. QED BY <2>1, <2>2, <2>3, <2>4, <2>5, <2>6, <2>7 DEF Next
  <1>2. IInv /\ [Next]_vars =>
          [\A t \in Tasks : pc[t] = "leased" /\ pc'[t] = "leased" => Kept]_vars
    BY <1>1
  <1>3. QED BY <1>2, InvariantIInv, PTL DEF SafeSpec, ChatUndisturbed

\* The manager's lock implements ExclusiveLease of the account's session
\* (codebuff.py:696-707).
THEOREM ManagerImplementsLease == SafeSpec => ImplementsLease
  <1> DEFINE want == {t \in Tasks : pc[t] = "queued"}
             holds == [t \in Tasks |-> IF InSection(t) THEN "session" ELSE "none"]
  <1>1. Init => Abstract!Init
    BY DEF Init, Abstract!Init, InSection, Ensuring
  <1>2. IInv /\ [Next]_vars => [Abstract!Next]_<<want, holds>>
    <2> SUFFICES ASSUME IInv, [Next]_vars
                 PROVE  [Abstract!Next]_<<want, holds>>
      OBVIOUS
    <2> USE DEF IInv
    <2>1. ASSUME NEW t \in Tasks, lock = NoTask, Goto(t, "ensure")
          PROVE  Abstract!Grant(t, "session")
      <3>1. \A s \in Tasks : ~InSection(s)
        BY <2>1, NoTaskAssumption DEF LockIffOwner
      <3>2. \A s \in Tasks : InSection(s)' <=> s = t
        BY <2>1, <3>1 DEF Goto, ControlOK, InSection, Ensuring
      <3>3. holds' = [holds EXCEPT ![t] = "session"]
        BY <3>1, <3>2
      <3>4. want' = want \ {t}
        BY <2>1 DEF Goto, ControlOK
      <3>5. QED BY <3>1, <3>3, <3>4 DEF Abstract!Grant
    <2>2. ASSUME NEW t \in Tasks, pc[t] = "idle", Goto(t, "queued")
          PROVE  Abstract!Ask(t)
      <3>1. holds[t] = "none" /\ t \notin want
        BY <2>2 DEF InSection, Ensuring
      <3>2. want' = want \cup {t} /\ holds' = holds
        BY <2>2 DEF Goto, ControlOK, InSection, Ensuring
      <3>3. QED BY <3>1, <3>2 DEF Abstract!Ask
    <2>3. ASSUME NEW t \in Tasks, InSection(t), Goto(t, "idle")
          PROVE  Abstract!Return(t)
      <3>1. holds[t] # "none"
        BY <2>3
      <3>2. want' = want
        BY <2>3 DEF Goto, ControlOK, InSection, Ensuring
      <3>3. holds' = [holds EXCEPT ![t] = "none"]
        BY <2>3 DEF Goto, ControlOK, InSection, Ensuring
      <3>4. QED BY <3>1, <3>2, <3>3 DEF Abstract!Return
    <2>4. ASSUME NEW t \in Tasks, InSection(t),
                 NEW step \in Ensuring \cup {"leased", "cancelled"}, Goto(t, step)
          PROVE  UNCHANGED <<want, holds>>
      <3>1. \A s \in Tasks : InSection(s)' <=> InSection(s)
        BY <2>4 DEF Goto, ControlOK, InSection, Ensuring
      <3>2. want' = want
        BY <2>4 DEF Goto, ControlOK, InSection, Ensuring
      <3>3. QED BY <3>1, <3>2
    <2>5. ASSUME NEW t \in Tasks, NEW m \in Models, Acquire(t, m)
          PROVE  Abstract!Grant(t, "session") \/ Abstract!Ask(t)
      BY <2>1, <2>2, <2>5 DEF Acquire
    <2>6. ASSUME NEW t \in Tasks, OwnLock(t) PROVE Abstract!Grant(t, "session")
      BY <2>1, <2>6 DEF OwnLock
    <2>7. ASSUME NEW t \in Tasks, TaskStep(t)
          PROVE  Abstract!Return(t) \/ UNCHANGED <<want, holds>>
      <3>1. InSection(t)
        BY <2>7, TaskStepIsSectionStep DEF InSection
      <3>2. CASE \E step \in Ensuring : Continue(t, step)
        BY <2>4, <3>1, <3>2 DEF Continue
      <3>3. CASE \E id \in Ids : HandOut(t, id)
        BY <2>4, <3>1, <3>3 DEF HandOut
      <3>4. CASE Raise(t)
        BY <2>3, <3>1, <3>4 DEF Raise
      <3>5. QED BY <2>7, <3>2, <3>3, <3>4, TaskStepIsSectionStep
    <2>8. ASSUME NEW t \in Tasks, CloseLease(t) PROVE Abstract!Return(t)
      BY <2>3, <2>8 DEF CloseLease, InSection
    <2>11. ASSUME NEW t \in Tasks, Cancel(t)
           PROVE  Abstract!Refuse(t) \/ UNCHANGED <<want, holds>>
      <3>1. CASE pc[t] \in Ensuring /\ Goto(t, "cancelled")
        <4>1. InSection(t)
          BY <3>1 DEF InSection
        <4>2. QED BY <2>4, <3>1, <4>1
      <3>2. CASE pc[t] = "queued" /\ Goto(t, "idle")
        <4>1. t \in want /\ want' = want \ {t} /\ holds' = holds
          BY <3>2 DEF Goto, ControlOK, InSection, Ensuring
        <4>2. QED BY <4>1 DEF Abstract!Refuse
      <3>3. QED BY <2>11, <3>1, <3>2 DEF Cancel
    <2>9. CASE Expire \/ Age \/ Promote \/ UNCHANGED vars
      BY <2>9 DEF Expire, Age, Promote, vars, InSection
    <2> HIDE DEF want, holds
    <2>10. QED BY <2>5, <2>6, <2>7, <2>8, <2>9, <2>11 DEF Next, Abstract!Next
  <1>3. QED
    BY <1>1, <1>2, InvariantIInv, PTL
       DEF SafeSpec, ImplementsLease, Abstract!SafeSpec, Abstract!leaseVars

=============================================================================

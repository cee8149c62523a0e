-------------------------- MODULE AccountPoolProofs --------------------------
(***************************************************************************)
(* Proofs about AccountPool, for every set of requests and every number of *)
(* accounts.                                                               *)
(***************************************************************************)
EXTENDS AccountPool, SequenceTheorems, FiniteSetTheorems, TLAPS

SeqRange(q) == {q[i] : i \in DOMAIN q}
Injective(q) == \A i, j \in DOMAIN q : q[i] = q[j] => i = j

\* Dropping the future of r from a deque without duplicates leaves the other
\* futures, each once.
LEMMA WithoutLemma ==
  ASSUME NEW q \in Seq(Requests), Injective(q), NEW r \in SeqRange(q)
  PROVE  /\ Without(q, r) \in Seq(Requests)
         /\ Injective(Without(q, r))
         /\ SeqRange(Without(q, r)) = SeqRange(q) \ {r}
  <1> DEFINE k == CHOOSE i \in DOMAIN q : q[i] = r
  <1>1. k \in 1 .. Len(q) /\ q[k] = r
    BY DEF SeqRange
  <1> HIDE DEF k
  <1> DEFINE u == SubSeq(q, 1, k - 1)
             v == SubSeq(q, k + 1, Len(q))
  <1>2. Without(q, r) = u \o v
    BY DEF Without, k
  <1>3. /\ u \in Seq(Requests)
        /\ Len(u) = k - 1
        /\ \A i \in 1 .. k - 1 : u[i] = q[i]
    BY <1>1
  <1>4. /\ v \in Seq(Requests)
        /\ Len(v) = Len(q) - k
        /\ \A i \in 1 .. Len(q) - k : v[i] = q[i + k]
    BY <1>1
  <1> HIDE DEF u, v
  <1>5. /\ Without(q, r) \in Seq(Requests)
        /\ Len(Without(q, r)) = Len(q) - 1
        /\ \A i \in 1 .. Len(q) - 1 :
             Without(q, r)[i] = IF i < k THEN q[i] ELSE q[i + 1]
    <2>1. /\ u \o v \in Seq(Requests)
          /\ Len(u \o v) = Len(u) + Len(v)
          /\ \A i \in 1 .. Len(u) + Len(v) :
               (u \o v)[i] = IF i <= Len(u) THEN u[i] ELSE v[i - Len(u)]
      BY <1>3, <1>4, ConcatProperties
    <2>2. Len(u) + Len(v) = Len(q) - 1
      BY <1>1, <1>3, <1>4
    <2>3. ASSUME NEW i \in 1 .. Len(q) - 1
          PROVE  (u \o v)[i] = IF i < k THEN q[i] ELSE q[i + 1]
      <3>1. CASE i < k
        BY <3>1, <1>1, <1>3, <2>1, <2>2
      <3>2. CASE i >= k
        <4>1. i - (k - 1) \in 1 .. Len(q) - k
          BY <3>2, <1>1
        <4>2. v[i - (k - 1)] = q[i + 1]
          BY <4>1, <1>1, <1>4
        <4>3. QED BY <3>2, <4>2, <1>1, <1>3, <2>1, <2>2
      <3>3. i < k \/ i >= k
        BY <1>1
      <3>4. QED BY <3>1, <3>2, <3>3
    <2>4. QED BY <1>2, <2>1, <2>2, <2>3
  <1>6. Injective(Without(q, r))
    BY <1>1, <1>5 DEF Injective
  <1>7. SeqRange(Without(q, r)) = SeqRange(q) \ {r}
    <2>1. SeqRange(Without(q, r)) \subseteq SeqRange(q) \ {r}
      BY <1>1, <1>5 DEF SeqRange, Injective
    <2>2. ASSUME NEW x \in SeqRange(q) \ {r} PROVE x \in SeqRange(Without(q, r))
      <3>1. PICK i \in 1 .. Len(q) : q[i] = x
        BY DEF SeqRange
      <3>2. CASE i < k
        BY <3>1, <3>2, <1>1, <1>5 DEF SeqRange
      <3>3. CASE i > k
        <4>1. i - 1 \in 1 .. Len(q) - 1 /\ Without(q, r)[i - 1] = x
          BY <3>1, <3>3, <1>1, <1>5
        <4>2. QED BY <4>1, <1>5 DEF SeqRange
      <3>4. QED BY <3>1, <3>2, <3>3, <1>1
    <2>3. QED BY <2>1, <2>2
  <1>8. QED BY <1>5, <1>6, <1>7

\* Queueing a new future at the tail of a deque without duplicates.
LEMMA AppendLemma ==
  ASSUME NEW q \in Seq(Requests), Injective(q),
         NEW r \in Requests, r \notin SeqRange(q)
  PROVE  /\ Append(q, r) \in Seq(Requests)
         /\ Append(q, r) # <<>>
         /\ Injective(Append(q, r))
         /\ SeqRange(Append(q, r)) = SeqRange(q) \cup {r}
  <1>1. /\ Append(q, r) \in Seq(Requests)
        /\ Append(q, r) # <<>>
        /\ Len(Append(q, r)) = Len(q) + 1
        /\ \A i \in 1 .. Len(q) : Append(q, r)[i] = q[i]
        /\ Append(q, r)[Len(q) + 1] = r
    BY AppendProperties
  <1>2. Injective(Append(q, r))
    BY <1>1 DEF Injective, SeqRange
  <1>3. SeqRange(Append(q, r)) = SeqRange(q) \cup {r}
    <2>1. SeqRange(Append(q, r)) \subseteq SeqRange(q) \cup {r}
      BY <1>1 DEF SeqRange
    <2>2. r \in SeqRange(Append(q, r))
      BY <1>1 DEF SeqRange
    <2>3. SeqRange(q) \subseteq SeqRange(Append(q, r))
      BY <1>1 DEF SeqRange
    <2>4. QED BY <2>1, <2>2, <2>3
  <1>4. QED BY <1>1, <1>2, <1>3

\* Taking the oldest future off a deque without duplicates.
LEMMA TailLemma ==
  ASSUME NEW q \in Seq(Requests), Injective(q), q # <<>>
  PROVE  /\ Tail(q) \in Seq(Requests)
         /\ Injective(Tail(q))
         /\ Head(q) \in SeqRange(q)
         /\ SeqRange(Tail(q)) = SeqRange(q) \ {Head(q)}
  <1>1. /\ Tail(q) \in Seq(Requests)
        /\ Len(Tail(q)) = Len(q) - 1
        /\ \A i \in 1 .. Len(Tail(q)) : Tail(q)[i] = q[i + 1]
        /\ Len(q) \in Nat \ {0}
        /\ Head(q) = q[1]
    BY HeadTailProperties
  <1>2. Injective(Tail(q))
    BY <1>1 DEF Injective
  <1>3. Head(q) \in SeqRange(q)
    BY <1>1 DEF SeqRange
  <1>4. SeqRange(Tail(q)) \subseteq SeqRange(q) \ {Head(q)}
    BY <1>1 DEF SeqRange, Injective
  <1>5. ASSUME NEW x \in SeqRange(q) \ {Head(q)} PROVE x \in SeqRange(Tail(q))
    <2>1. PICK i \in 1 .. Len(q) : q[i] = x
      BY DEF SeqRange
    <2>2. i # 1
      BY <2>1, <1>1
    <2>3. i - 1 \in 1 .. Len(Tail(q)) /\ Tail(q)[i - 1] = x
      BY <2>1, <2>2, <1>1
    <2>4. i - 1 \in DOMAIN Tail(q)
      BY <2>3, <1>1
    <2>5. QED BY <2>3, <2>4 DEF SeqRange
  <1>6. QED BY <1>1, <1>2, <1>3, <1>4, <1>5

-----------------------------------------------------------------------------
(* The condition variable                                                  *)

Waiting == {r \in Requests : pc[r] = "waiting"}

\* What the deque q and the notified set d are when W waits.
DequeOK(q, d, W) ==
  /\ q \in Seq(Requests)
  /\ Injective(q)
  /\ SeqRange(q) \cap d = {}
  /\ SeqRange(q) \cup d = W

\* notify(1) keeps the deque well formed; if someone is left to notify, there
\* is one more notified request afterwards.
LEMMA NotifyOneLemma ==
  ASSUME NEW q, NEW d, NEW W \in SUBSET Requests,
         DequeOK(q, d, W), NotifyOne(q, d)
  PROVE  /\ DequeOK(waiters', notified', W)
         /\ q = <<>> => waiters' = <<>> /\ notified' = d
         /\ q # <<>> => Cardinality(notified') = Cardinality(d) + 1
  <1>1. CASE q = <<>>
    BY <1>1 DEF NotifyOne, DequeOK
  <1>2. CASE q # <<>>
    <2>1. waiters' = Tail(q) /\ notified' = d \cup {Head(q)}
      BY <1>2 DEF NotifyOne
    <2>2. /\ Tail(q) \in Seq(Requests)
          /\ Injective(Tail(q))
          /\ Head(q) \in SeqRange(q)
          /\ SeqRange(Tail(q)) = SeqRange(q) \ {Head(q)}
      BY <1>2, TailLemma DEF DequeOK
    <2>3. DequeOK(Tail(q), d \cup {Head(q)}, W)
      BY <2>2 DEF DequeOK
    <2>4. IsFiniteSet(d) /\ Head(q) \notin d
      BY <2>2, RequestsAssumption, FS_Subset DEF DequeOK
    <2>5. Cardinality(d \cup {Head(q)}) = Cardinality(d) + 1
      BY <2>4, FS_AddElement
    <2>6. QED BY <1>2, <2>1, <2>3, <2>5
  <1>3. QED BY <1>1, <1>2

\* The invariant of the pool is the well-formedness the deque lemmas speak of.
LEMMA WaitersConsistentIsDequeOK ==
  ASSUME TypeOK
  PROVE  WaitersConsistent <=> DequeOK(waiters, notified, Waiting)
  BY DEF TypeOK, WaitersConsistent, DequeOK, Waiting, WaiterSet, SeqRange, Injective

-----------------------------------------------------------------------------
(* The inductive invariant                                                 *)

\* A request that holds an account knows which one.
HoldersHaveAccounts == \A r \in Requests : Holds(r) => acct[r] \in Accounts

\* Inductive: a step may rely on the deque being consistent to know which
\* future it removes, and on BusyIffHeld to know that the account it frees has
\* no other holder.
IInv ==
  /\ TypeOK
  /\ DequeOK(waiters, notified, Waiting)
  /\ HoldersHaveAccounts
  /\ BusyIffHeld

\* The pointer stays an account when it moves past one.
LEMMA NextIndexInRange ==
  \A a \in Accounts : (a + 1) % N \in Accounts
  BY NAssumption DEF Accounts

\* The effect of taking account a for request r: nothing changes but a, the
\* pointer and r's own record.
LEMMA ReserveEffect ==
  ASSUME IInv, NEW r \in Requests, pc[r] \in {"idle", "waiting"},
         NEW p, NEW a \in Free, Reserve(r, a)
  PROVE  /\ busy' \in [Accounts -> BOOLEAN]
         /\ nextIndex' \in Accounts
         /\ expired' \subseteq Requests
         /\ pc' \in [Requests -> PC]
         /\ pref' \in [Requests -> Preferences]
         /\ acct' \in [Requests -> Accounts \cup {NoAccount}]
         /\ HoldersHaveAccounts'
         /\ BusyIffHeld'
         /\ Waiting' = Waiting \ {r}
  <1>1. a \in Accounts /\ ~busy[a]
    BY DEF Free
  <1>2. /\ busy' \in [Accounts -> BOOLEAN]
        /\ nextIndex' \in Accounts
        /\ expired' \subseteq Requests
        /\ pc' \in [Requests -> PC]
        /\ pref' \in [Requests -> Preferences]
        /\ acct' \in [Requests -> Accounts \cup {NoAccount}]
    BY <1>1, NextIndexInRange DEF IInv, TypeOK, Reserve, LeaveLoop, PC, Preferences
  <1>3. /\ pc'[r] = "reserved" /\ acct'[r] = a
        /\ \A s \in Requests : s # r => pc'[s] = pc[s] /\ acct'[s] = acct[s]
        /\ busy'[a] = TRUE
        /\ \A b \in Accounts : b # a => busy'[b] = busy[b]
    BY <1>1 DEF IInv, TypeOK, Reserve
  <1>4. HoldersHaveAccounts'
    BY <1>1, <1>3 DEF IInv, HoldersHaveAccounts, Holds
  <1>5. \A s \in Requests : Holds(s) => acct[s] # a
    BY <1>1 DEF IInv, BusyIffHeld
  <1>6. BusyIffHeld'
    <2>1. ASSUME NEW s \in Requests, NEW t \in Requests,
                 Holds(s)', Holds(t)', acct'[s] = acct'[t]
          PROVE  s = t
      BY <2>1, <1>3, <1>5 DEF IInv, BusyIffHeld, Holds
    <2>2. ASSUME NEW b \in Accounts
          PROVE  busy'[b] <=> \E s \in Requests : Holds(s)' /\ acct'[s] = b
      <3>1. CASE b = a
        BY <3>1, <1>3 DEF Holds
      <3>2. CASE b # a
        <4>1. \A s \in Requests :
                (Holds(s)' /\ acct'[s] = b) <=> (Holds(s) /\ acct[s] = b)
          BY <3>2, <1>3 DEF Holds
        <4>2. QED BY <3>2, <4>1, <1>3 DEF IInv, BusyIffHeld
      <3>3. QED BY <3>1, <3>2
    <2>3. QED BY <2>1, <2>2 DEF BusyIffHeld
  <1>7. Waiting' = Waiting \ {r}
    BY <1>3 DEF Waiting
  <1>8. QED BY <1>2, <1>4, <1>6, <1>7

\* The effect of releasing the account of request r as r leaves it, whatever
\* r's state becomes.
LEMMA ReleaseEffect ==
  ASSUME IInv, NEW r \in Requests, Holds(r), Release(acct[r]),
         NEW st \in Finished, pc' = [pc EXCEPT ![r] = st],
         acct' = acct \/ acct' = [acct EXCEPT ![r] = NoAccount],
         UNCHANGED <<expired, pref>>
  PROVE  IInv'
  <1>1. acct[r] \in Accounts
    BY DEF IInv, HoldersHaveAccounts
  <1>2. st \notin {"idle", "waiting", "reserved", "leased", "cancelled"}
    BY DEF Finished
  <1>3. /\ pc'[r] = st
        /\ \A s \in Requests : s # r => pc'[s] = pc[s] /\ acct'[s] = acct[s]
        /\ busy'[acct[r]] = FALSE
        /\ \A b \in Accounts : b # acct[r] => busy'[b] = busy[b]
    BY <1>1 DEF IInv, TypeOK, Release
  <1>4. Waiting' = Waiting
    BY <1>2, <1>3 DEF Waiting, Holds
  <1>5. DequeOK(waiters', notified', Waiting')
    <2>1. DequeOK(waiters, notified, Waiting) /\ NotifyOne(waiters, notified)
      BY DEF IInv, Release
    <2>2. Waiting \in SUBSET Requests
      BY DEF Waiting
    <2>3. QED BY <2>1, <2>2, <1>4, NotifyOneLemma
  <1>6. TypeOK'
    <2>1. waiters' \in Seq(Requests) /\ notified' \subseteq Requests
      BY <1>5 DEF DequeOK, Waiting
    <2>2. pc' \in [Requests -> PC]
      BY DEF IInv, TypeOK, PC
    <2>3. acct' \in [Requests -> Accounts \cup {NoAccount}]
      BY DEF IInv, TypeOK
    <2>4. QED BY <2>1, <2>2, <2>3, <1>1 DEF IInv, TypeOK, Release
  <1>7. HoldersHaveAccounts'
    BY <1>2, <1>3 DEF IInv, HoldersHaveAccounts, Holds
  <1>8. BusyIffHeld'
    <2>1. ASSUME NEW s \in Requests, NEW t \in Requests,
                 Holds(s)', Holds(t)', acct'[s] = acct'[t]
          PROVE  s = t
      BY <2>1, <1>2, <1>3 DEF IInv, BusyIffHeld, Holds
    <2>2. ASSUME NEW b \in Accounts
          PROVE  busy'[b] <=> \E s \in Requests : Holds(s)' /\ acct'[s] = b
      <3>1. CASE b = acct[r]
        <4>1. \A s \in Requests : s # r /\ Holds(s) => acct[s] # b
          BY <3>1 DEF IInv, BusyIffHeld
        <4>2. QED BY <3>1, <4>1, <1>2, <1>3 DEF Holds
      <3>2. CASE b # acct[r]
        <4>1. \A s \in Requests :
                (Holds(s)' /\ acct'[s] = b) <=> (Holds(s) /\ acct[s] = b)
          BY <3>2, <1>2, <1>3 DEF Holds
        <4>2. QED BY <3>2, <4>1, <1>3 DEF IInv, BusyIffHeld
      <3>3. QED BY <3>1, <3>2
    <2>3. QED BY <2>1, <2>2 DEF BusyIffHeld
  <1>9. QED BY <1>5, <1>6, <1>7, <1>8 DEF IInv

\* The initial state satisfies the invariant.
LEMMA InitIInv == Init => IInv
  <1> SUFFICES ASSUME Init PROVE IInv
    OBVIOUS
  <1>1. TypeOK
    BY NAssumption DEF Init, TypeOK, Accounts, NoAccount, Preferences, PC
  <1>2. DequeOK(waiters, notified, Waiting)
    BY DEF Init, DequeOK, Injective, SeqRange, Waiting
  <1>3. HoldersHaveAccounts /\ BusyIffHeld
    BY DEF Init, HoldersHaveAccounts, BusyIffHeld, Holds
  <1>4. QED BY <1>1, <1>2, <1>3 DEF IInv

\* Every step keeps it.
LEMMA NextIInv == IInv /\ [Next]_vars => IInv'
  <1> SUFFICES ASSUME IInv, [Next]_vars PROVE IInv'
    OBVIOUS
  <1> USE DEF IInv
  <1>0. waiters \in Seq(Requests) /\ notified \subseteq Requests
    BY DEF TypeOK
  <1>1. ASSUME NEW r \in Requests, NEW p \in Preferences, ReserveNow(r, p)
        PROVE  IInv'
    <2>1. PICK a \in Free : Reserve(r, a)
      BY <1>1 DEF ReserveNow
    <2>2. pc[r] = "idle" /\ UNCHANGED <<waiters, notified>>
      BY <1>1 DEF ReserveNow
    <2>3. Waiting' = Waiting \ {r} /\ r \notin Waiting
      BY <2>1, <2>2, ReserveEffect DEF Waiting
    <2>4. DequeOK(waiters', notified', Waiting')
      BY <2>2, <2>3 DEF DequeOK
    <2>5. TypeOK' /\ HoldersHaveAccounts' /\ BusyIffHeld'
      BY <2>1, <2>2, ReserveEffect DEF TypeOK
    <2>6. QED BY <2>4, <2>5
  <1>2. ASSUME NEW r \in Requests, NEW p \in Preferences, StartWaiting(r, p)
        PROVE  IInv'
    <2>1. r \notin SeqRange(waiters) /\ r \notin notified
      BY <1>2 DEF StartWaiting, DequeOK, Waiting
    <2>2. Waiting' = Waiting \cup {r}
      BY <1>2 DEF StartWaiting, Waiting, TypeOK
    <2>3. DequeOK(waiters', notified', Waiting')
      BY <1>2, <2>1, <2>2, AppendLemma DEF StartWaiting, DequeOK
    <2>4. TypeOK'
      BY <1>2, <2>3 DEF StartWaiting, TypeOK, DequeOK, PC
    <2>5. HoldersHaveAccounts' /\ BusyIffHeld'
      BY <1>2 DEF StartWaiting, HoldersHaveAccounts, BusyIffHeld, Holds, TypeOK
    <2>6. QED BY <2>3, <2>4, <2>5
  <1>3. ASSUME NEW r \in Requests, WakeAndReserve(r)
        PROVE  IInv'
    <2>1. PICK a \in Free : Reserve(r, a)
      BY <1>3 DEF WakeAndReserve
    <2>2. r \in notified /\ notified' = notified \ {r} /\ waiters' = waiters
      BY <1>3 DEF WakeAndReserve
    <2>3. r \in Waiting
      BY <2>2 DEF DequeOK
    <2>4. pc[r] = "waiting"
      BY <2>3 DEF Waiting
    <2>5. Waiting' = Waiting \ {r}
      BY <2>1, <2>4, ReserveEffect
    <2>6. DequeOK(waiters', notified', Waiting')
      BY <2>2, <2>5 DEF DequeOK
    <2>7. TypeOK' /\ HoldersHaveAccounts' /\ BusyIffHeld'
      BY <1>0, <2>1, <2>2, <2>4, ReserveEffect DEF TypeOK
    <2>8. QED BY <2>6, <2>7
  <1>4. ASSUME NEW r \in Requests, WakeAndWait(r)
        PROVE  IInv'
    <2>1. r \in notified /\ notified' = notified \ {r} /\ waiters' = Append(waiters, r)
      BY <1>4 DEF WakeAndWait
    <2>2. r \notin SeqRange(waiters) /\ Waiting' = Waiting
      BY <1>4, <2>1 DEF WakeAndWait, DequeOK, Waiting
    <2>3. DequeOK(waiters', notified', Waiting')
      BY <2>1, <2>2, AppendLemma DEF DequeOK
    <2>4. QED
      BY <1>4, <2>3
         DEF WakeAndWait, TypeOK, HoldersHaveAccounts, BusyIffHeld, Holds, DequeOK
  <1>5. ASSUME NEW r \in Requests, WakeAndRefuse(r)
        PROVE  IInv'
    <2>1. r \in notified /\ notified' = notified \ {r} /\ waiters' = waiters
      BY <1>5 DEF WakeAndRefuse
    <2>2. pc[r] = "waiting" /\ pc' = [pc EXCEPT ![r] = "refused"]
      BY <1>5, <2>1 DEF WakeAndRefuse, DequeOK, Waiting
    <2>3. Waiting' = Waiting \ {r}
      BY <2>2 DEF Waiting, TypeOK
    <2>4. DequeOK(waiters', notified', Waiting')
      BY <2>1, <2>3 DEF DequeOK
    <2>5. TypeOK'
      BY <1>5, <2>1 DEF WakeAndRefuse, LeaveLoop, TypeOK, PC, Finished, Preferences
    <2>6. HoldersHaveAccounts' /\ BusyIffHeld'
      BY <1>5, <2>2 DEF WakeAndRefuse, HoldersHaveAccounts, BusyIffHeld, Holds, TypeOK
    <2>7. QED BY <2>4, <2>5, <2>6
  <1>6. ASSUME NEW r \in Requests, DeadlinePasses(r)
        PROVE  IInv'
    <2>1. TypeOK' /\ HoldersHaveAccounts' /\ BusyIffHeld'
      BY <1>6 DEF DeadlinePasses, TypeOK, HoldersHaveAccounts, BusyIffHeld, Holds
    <2>2. DequeOK(waiters', notified', Waiting')
      BY <1>6 DEF DeadlinePasses, DequeOK, Waiting
    <2>3. QED BY <2>1, <2>2
  <1>7. ASSUME NEW r \in Requests, NEW st \in {"refused", "failed"}, GiveUp(r, st)
        PROVE  IInv'
    <2> DEFINE q == IF r \in notified THEN waiters ELSE Without(waiters, r)
               d == notified \ {r}
    <2>1. pc[r] = "waiting" /\ pc' = [pc EXCEPT ![r] = st]
      BY <1>7 DEF GiveUp
    <2>2. Waiting' = Waiting \ {r} /\ r \in Waiting
      BY <2>1 DEF Waiting, TypeOK
    <2>3. DequeOK(q, d, Waiting')
      <3>1. CASE r \in notified
        BY <3>1, <2>2 DEF DequeOK
      <3>2. CASE r \notin notified
        <4>1. r \in SeqRange(waiters)
          BY <3>2, <2>2 DEF DequeOK
        <4>2. /\ Without(waiters, r) \in Seq(Requests)
              /\ Injective(Without(waiters, r))
              /\ SeqRange(Without(waiters, r)) = SeqRange(waiters) \ {r}
          BY <4>1, WithoutLemma DEF DequeOK
        <4>3. QED BY <3>2, <4>2, <2>2 DEF DequeOK
      <3>3. QED BY <3>1, <3>2
    <2>4. DequeOK(waiters', notified', Waiting')
      <3>1. CASE PassesWakeOn
        <4>1. NotifyOne(q, d)
          BY <1>7, <3>1 DEF GiveUp
        <4>2. Waiting' \in SUBSET Requests
          BY <2>2 DEF Waiting
        <4> HIDE DEF q, d
        <4>3. QED BY <2>3, <4>1, <4>2, NotifyOneLemma
      <3>2. CASE ~PassesWakeOn
        <4>1. waiters' = q /\ notified' = d
          BY <1>7, <3>2 DEF GiveUp
        <4> HIDE DEF q, d
        <4>2. QED BY <2>3, <4>1
      <3>3. QED BY <3>1, <3>2
    <2>5. TypeOK'
      <3>1. waiters' \in Seq(Requests) /\ notified' \subseteq Requests
        BY <2>4, <2>2 DEF DequeOK, Waiting
      <3>2. QED
        BY <1>7, <3>1 DEF GiveUp, LeaveLoop, TypeOK, PC, Finished, Preferences
    <2>6. HoldersHaveAccounts' /\ BusyIffHeld'
      BY <1>7, <2>1 DEF GiveUp, HoldersHaveAccounts, BusyIffHeld, Holds, TypeOK
    <2>7. QED BY <2>4, <2>5, <2>6
  <1>8. ASSUME NEW r \in Requests, SessionAcquired(r)
        PROVE  IInv'
    <2>1. /\ pc[r] = "reserved" /\ pc' = [pc EXCEPT ![r] = "leased"]
          /\ UNCHANGED <<busy, nextIndex, waiters, notified, expired, pref, acct>>
      BY <1>8 DEF SessionAcquired
    <2>2. Waiting' = Waiting
      BY <2>1 DEF Waiting, TypeOK
    <2>3. \A s \in Requests : Holds(s)' <=> Holds(s)
      BY <2>1 DEF Holds, TypeOK
    <2>4. TypeOK'
      BY <2>1 DEF TypeOK, PC
    <2>5. HoldersHaveAccounts' /\ BusyIffHeld'
      BY <2>1, <2>3 DEF HoldersHaveAccounts, BusyIffHeld
    <2>6. QED BY <2>1, <2>2, <2>4, <2>5
  <1>9. ASSUME NEW r \in Requests, SessionFailed(r)
        PROVE  IInv'
    BY <1>9, ReleaseEffect DEF SessionFailed, Holds, Finished
  <1>10. ASSUME NEW r \in Requests, AClose(r)
         PROVE  IInv'
    <2>1. CASE pc[r] = "leased"
      BY <2>1, <1>10, ReleaseEffect DEF AClose, Holds, Finished
    <2>2. CASE UNCHANGED vars
      BY <2>2 DEF vars, TypeOK, DequeOK, Waiting, HoldersHaveAccounts, BusyIffHeld, Holds
    <2>3. QED BY <2>1, <2>2, <1>10 DEF AClose
  <1>14. ASSUME NEW r \in Requests, Timeout(r)
         PROVE  IInv'
    BY <1>7, <1>14 DEF Timeout
  <1>15. ASSUME NEW r \in Requests, Cancel(r)
         PROVE  IInv'
    <2>1. CASE GiveUp(r, "failed")
      BY <1>7, <2>1
    <2>2. CASE /\ pc[r] = "reserved" /\ pc' = [pc EXCEPT ![r] = "cancelled"]
               /\ UNCHANGED <<busy, nextIndex, waiters, notified, expired, pref, acct>>
      <3>1. Waiting' = Waiting
        BY <2>2 DEF Waiting, TypeOK
      <3>2. \A s \in Requests : Holds(s)' <=> Holds(s)
        BY <2>2 DEF Holds, TypeOK
      <3>3. TypeOK'
        BY <2>2 DEF TypeOK, PC
      <3>4. HoldersHaveAccounts' /\ BusyIffHeld'
        BY <2>2, <3>2 DEF HoldersHaveAccounts, BusyIffHeld
      <3>5. QED BY <2>2, <3>1, <3>3, <3>4
    <2>3. QED BY <1>15, <2>1, <2>2 DEF Cancel
  <1>11. ASSUME NEW r \in Requests, NextRequest(r)
         PROVE  IInv'
    <2>1. /\ pc[r] \in Finished
          /\ pc' = [pc EXCEPT ![r] = "idle"]
          /\ acct' = [acct EXCEPT ![r] = NoAccount]
          /\ UNCHANGED <<busy, nextIndex, waiters, notified, expired, pref>>
      BY <1>11 DEF NextRequest
    <2>2. Waiting' = Waiting
      BY <2>1 DEF Waiting, TypeOK, Finished
    <2>3. \A s \in Requests : /\ Holds(s)' <=> Holds(s)
                              /\ Holds(s) => acct'[s] = acct[s]
      BY <2>1 DEF Holds, TypeOK, Finished
    <2>4. TypeOK'
      BY <2>1 DEF TypeOK, PC, Finished
    <2>5. HoldersHaveAccounts' /\ BusyIffHeld'
      BY <2>1, <2>3 DEF HoldersHaveAccounts, BusyIffHeld
    <2>6. QED BY <2>1, <2>2, <2>4, <2>5
  <1>12. CASE UNCHANGED vars
    BY <1>12 DEF vars, TypeOK, DequeOK, Waiting, HoldersHaveAccounts, BusyIffHeld, Holds
  <1>13. QED
    BY <1>1, <1>2, <1>3, <1>4, <1>5, <1>6, <1>7, <1>8, <1>9, <1>10, <1>11, <1>12,
       <1>14, <1>15
       DEF Next

\* The inductive invariant holds throughout.
LEMMA InvariantIInv == SafeSpec => []IInv
  BY InitIInv, NextIInv, PTL DEF SafeSpec

-----------------------------------------------------------------------------
(* Theorems                                                                *)

\* Every variable keeps its type (codebuff.py:884-1017).
THEOREM TypeCorrect == SafeSpec => []TypeOK
  <1>1. IInv => TypeOK
    BY DEF IInv
  <1>2. QED BY <1>1, InvariantIInv, PTL

\* The condition's deque and the waiting requests always agree
\* (codebuff.py:1002).
THEOREM DequeCorrect == SafeSpec => []WaitersConsistent
  <1>1. IInv => WaitersConsistent
    BY WaitersConsistentIsDequeOK DEF IInv
  <1>2. QED BY <1>1, InvariantIInv, PTL

\* No account is shared, freed under its holder, or left busy without one,
\* for any number of accounts and requests (codebuff.py:926-992).
THEOREM LeaseExclusive == SafeSpec => []BusyIffHeld
  <1>1. IInv => BusyIffHeld
    BY DEF IInv
  <1>2. QED BY <1>1, InvariantIInv, PTL

\* The pool implements ExclusiveLease (codebuff.py:884-1017).
THEOREM PoolImplementsLease == SafeSpec => ImplementsLease
  <1> DEFINE want == {r \in Requests : pc[r] = "waiting"}
             holds == [r \in Requests |-> IF Holds(r) THEN acct[r] ELSE NoAccount]
  <1>1. Init => Abstract!Init
    BY DEF Init, Abstract!Init, Holds
  <1>2. IInv /\ [Next]_vars => [Abstract!Next]_<<want, holds>>
    <2> SUFFICES ASSUME IInv, [Next]_vars
                 PROVE  [Abstract!Next]_<<want, holds>>
      OBVIOUS
    <2> USE DEF IInv
    <2>1. ASSUME NEW r \in Requests, NEW a \in Free,
                 pc[r] \in {"idle", "waiting"}, Reserve(r, a)
          PROVE  Abstract!Grant(r, a)
      <3>1. a \in Accounts /\ ~busy[a]
        BY DEF Free
      <3>2. \A s \in Requests : holds[s] # a
        BY <3>1 DEF BusyIffHeld, NoAccount, Accounts
      <3>3. want' = want \ {r}
        BY <2>1 DEF Reserve, TypeOK
      <3>4. holds' = [holds EXCEPT ![r] = a]
        BY <2>1 DEF Reserve, TypeOK, Holds
      <3>5. holds[r] = NoAccount
        BY <2>1 DEF Holds
      <3>6. QED BY <3>2, <3>3, <3>4, <3>5 DEF Abstract!Grant
    <2>2. ASSUME NEW r \in Requests, pc[r] = "waiting", NEW st \in {"refused", "failed"},
                 pc' = [pc EXCEPT ![r] = st], acct' = acct
          PROVE  Abstract!Refuse(r)
      <3>1. r \in want /\ want' = want \ {r}
        BY <2>2 DEF TypeOK
      <3>2. holds' = holds
        BY <2>2 DEF TypeOK, Holds
      <3>3. QED BY <3>1, <3>2 DEF Abstract!Refuse
    <2>3. ASSUME NEW r \in Requests, Holds(r),
                 NEW st \in Finished, pc' = [pc EXCEPT ![r] = st],
                 acct' = acct \/ acct' = [acct EXCEPT ![r] = NoAccount]
          PROVE  Abstract!Return(r)
      <3>1. holds[r] # NoAccount
        BY <2>3 DEF HoldersHaveAccounts, NoAccount, Accounts
      <3>2. want' = want
        BY <2>3 DEF TypeOK, Holds, Finished
      <3>3. holds' = [holds EXCEPT ![r] = NoAccount]
        BY <2>3 DEF TypeOK, Holds, Finished
      <3>4. QED BY <3>1, <3>2, <3>3 DEF Abstract!Return
    <2>4. ASSUME NEW r \in Requests, NEW p \in Preferences, ReserveNow(r, p)
          PROVE  \E a \in Accounts : Abstract!Grant(r, a)
      BY <2>1, <2>4 DEF ReserveNow, Free
    <2>5. ASSUME NEW r \in Requests, NEW p \in Preferences, StartWaiting(r, p)
          PROVE  Abstract!Ask(r)
      <3>1. holds[r] = NoAccount /\ r \notin want
        BY <2>5 DEF StartWaiting, Holds
      <3>2. want' = want \cup {r} /\ holds' = holds
        BY <2>5 DEF StartWaiting, TypeOK, Holds
      <3>3. QED BY <3>1, <3>2 DEF Abstract!Ask
    <2>6. ASSUME NEW r \in Requests, r \in notified
          PROVE  pc[r] = "waiting"
      BY <2>6 DEF DequeOK, Waiting
    <2>7. ASSUME NEW r \in Requests, WakeAndReserve(r)
          PROVE  \E a \in Accounts : Abstract!Grant(r, a)
      BY <2>1, <2>6, <2>7 DEF WakeAndReserve, Free
    <2>8. ASSUME NEW r \in Requests,
                 WakeAndWait(r) \/ DeadlinePasses(r)
          PROVE  UNCHANGED <<want, holds>>
      BY <2>8 DEF WakeAndWait, DeadlinePasses, Holds
    <2>9. ASSUME NEW r \in Requests, WakeAndRefuse(r) \/ Timeout(r)
          PROVE  Abstract!Refuse(r)
      BY <2>2, <2>6, <2>9 DEF WakeAndRefuse, Timeout, GiveUp
    <2>10. ASSUME NEW r \in Requests, SessionAcquired(r)
           PROVE  UNCHANGED <<want, holds>>
      BY <2>10 DEF SessionAcquired, TypeOK, Holds
    <2>11. ASSUME NEW r \in Requests, SessionFailed(r)
           PROVE  Abstract!Return(r)
      BY <2>3, <2>11 DEF SessionFailed, Holds, Finished
    <2>12. ASSUME NEW r \in Requests, AClose(r)
           PROVE  Abstract!Return(r) \/ UNCHANGED <<want, holds>>
      <3>1. CASE pc[r] = "leased"
        BY <3>1, <2>3, <2>12 DEF AClose, Holds, Finished, vars
      <3>2. CASE UNCHANGED vars
        BY <3>2 DEF vars, Holds
      <3>3. QED BY <3>1, <3>2, <2>12 DEF AClose
    <2>13. ASSUME NEW r \in Requests, NextRequest(r)
           PROVE  UNCHANGED <<want, holds>>
      BY <2>13 DEF NextRequest, TypeOK, Holds, Finished
    <2>16. ASSUME NEW r \in Requests, Cancel(r)
           PROVE  Abstract!Refuse(r) \/ UNCHANGED <<want, holds>>
      <3>1. CASE GiveUp(r, "failed")
        BY <2>2, <3>1 DEF GiveUp
      <3>2. CASE pc[r] = "reserved" /\ pc' = [pc EXCEPT ![r] = "cancelled"] /\ acct' = acct
        BY <3>2 DEF TypeOK, Holds
      <3>3. QED BY <2>16, <3>1, <3>2 DEF Cancel
    <2>14. CASE UNCHANGED vars
      BY <2>14 DEF vars, Holds
    <2> HIDE DEF want, holds
    <2>15. QED
      BY <2>4, <2>5, <2>7, <2>8, <2>9, <2>10, <2>11, <2>12, <2>13, <2>14,
         <2>16
         DEF Next, Abstract!Next
  <1>3. QED
    BY <1>1, <1>2, InvariantIInv, PTL
       DEF SafeSpec, ImplementsLease, Abstract!SafeSpec, Abstract!leaseVars

-----------------------------------------------------------------------------
(* Wake-ups                                                                *)

\* Idle accounts can be counted.
LEMMA FreeFinite ==
  /\ IsFiniteSet(Free)
  /\ Cardinality(Free) \in Nat
  <1>1. IsFiniteSet(Accounts)
    BY NAssumption, FS_Interval DEF Accounts
  <1>2. QED BY <1>1, FS_Subset, FS_CardinalityType DEF Free

\* So can the notified requests.
LEMMA NotifiedFinite ==
  ASSUME TypeOK
  PROVE  IsFiniteSet(notified) /\ Cardinality(notified) \in Nat
  BY RequestsAssumption, FS_Subset, FS_CardinalityType DEF TypeOK

\* Where no account is idle there is nothing to wake anyone for.
LEMMA NothingIdle ==
  ASSUME TypeOK, TypeOK', Free' = {}
  PROVE  NoLostWakeup'
  <1>1. Cardinality(Free') = 0
    BY FS_EmptySet
  <1>2. Cardinality(notified') \in Nat
    BY RequestsAssumption, FS_Subset, FS_CardinalityType DEF TypeOK
  <1>3. QED BY <1>1, <1>2 DEF NoLostWakeup

\* Taking an idle account leaves one idle account less.
LEMMA ReserveTakesOne ==
  ASSUME TypeOK, NEW r \in Requests, NEW a \in Free, Reserve(r, a)
  PROVE  Cardinality(Free') = Cardinality(Free) - 1
  <1>1. Free' = Free \ {a}
    BY DEF Free, Reserve, TypeOK
  <1>2. QED BY <1>1, FreeFinite, FS_RemoveElement

\* Freeing an account wakes a waiter, if there is one.
LEMMA ReleaseWakesOne ==
  ASSUME IInv, NoLostWakeup, NEW a \in Accounts, Release(a)
  PROVE  NoLostWakeup'
  <1>1. Free' = Free \cup {a}
    BY DEF Free, Release, IInv, TypeOK
  <1>2. Cardinality(Free') <= Cardinality(Free) + 1 /\ Cardinality(Free') \in Nat
    <2> DEFINE F == Free
    <2>1. IsFiniteSet(F) /\ Cardinality(F) \in Nat
      BY FreeFinite
    <2> HIDE DEF F
    <2>2. /\ IsFiniteSet(F \cup {a})
          /\ Cardinality(F \cup {a}) = IF a \in F THEN Cardinality(F) ELSE Cardinality(F) + 1
      BY <2>1, FS_AddElement
    <2>3. Cardinality(F \cup {a}) <= Cardinality(F) + 1 /\ Cardinality(F \cup {a}) \in Nat
      BY <2>1, <2>2
    <2>4. QED BY <1>1, <2>3 DEF F
  <1>3. DequeOK(waiters, notified, Waiting) /\ NotifyOne(waiters, notified)
    BY DEF IInv, Release
  <1>4. /\ waiters = <<>> => waiters' = <<>>
        /\ waiters # <<>> => Cardinality(notified') = Cardinality(notified) + 1
    <2>1. Waiting \in SUBSET Requests
      BY DEF Waiting
    <2>2. QED BY <1>3, <2>1, NotifyOneLemma
  <1>5. QED
    BY <1>2, <1>4, FreeFinite, NotifiedFinite DEF NoLostWakeup, IInv

\* A request that gives up hands its wake-up on.
LEMMA GiveUpPassesOn ==
  ASSUME IInv, NoLostWakeup, PassesWakeOn, NEW r \in Requests, NEW st, GiveUp(r, st)
  PROVE  NoLostWakeup'
  <1> DEFINE q == IF r \in notified THEN waiters ELSE Without(waiters, r)
             d == notified \ {r}
  <1>1. NotifyOne(q, d) /\ Free' = Free
    BY DEF GiveUp, Free
  <1>2. r \in Waiting
    BY DEF GiveUp, Waiting
  <1>3. /\ DequeOK(q, d, Waiting \ {r})
        /\ q # <<>> => waiters # <<>>
    <2>1. CASE r \in notified
      BY <2>1 DEF IInv, DequeOK
    <2>2. CASE r \notin notified
      <3>1. r \in SeqRange(waiters)
        BY <2>2, <1>2 DEF IInv, DequeOK
      <3>2. /\ Without(waiters, r) \in Seq(Requests)
            /\ Injective(Without(waiters, r))
            /\ SeqRange(Without(waiters, r)) = SeqRange(waiters) \ {r}
        BY <3>1, WithoutLemma DEF IInv, DequeOK
      <3>3. waiters # <<>>
        BY <3>1 DEF SeqRange
      <3>4. QED BY <2>2, <3>2, <3>3, <1>2 DEF IInv, DequeOK
    <2>3. QED BY <2>1, <2>2
  <1>4. Cardinality(notified) <= Cardinality(d) + 1 /\ Cardinality(d) \in Nat
    <2>1. IsFiniteSet(notified) /\ Cardinality(notified) \in Nat
      BY NotifiedFinite DEF IInv
    <2>2. /\ IsFiniteSet(d)
          /\ Cardinality(d) = IF r \in notified THEN Cardinality(notified) - 1
                              ELSE Cardinality(notified)
      BY <2>1, FS_RemoveElement
    <2>3. Cardinality(d) \in Nat
      BY <2>2, FS_CardinalityType
    <2> HIDE DEF d
    <2>4. QED BY <2>1, <2>2, <2>3
  <1> HIDE DEF q, d
  <1>5. /\ q = <<>> => waiters' = <<>>
        /\ q # <<>> => Cardinality(notified') = Cardinality(d) + 1
    <2>1. Waiting \ {r} \in SUBSET Requests
      BY DEF Waiting
    <2>2. QED BY <1>1, <1>3, <2>1, NotifyOneLemma
  <1>6. SUFFICES ASSUME waiters' # <<>>
                 PROVE  Cardinality(Free') <= Cardinality(notified')
    BY DEF NoLostWakeup
  <1>7. Cardinality(Free) <= Cardinality(notified)
    BY <1>3, <1>5, <1>6 DEF NoLostWakeup
  <1>8. Cardinality(notified) \in Nat
    BY NotifiedFinite DEF IInv
  <1>9. QED BY <1>1, <1>3, <1>4, <1>5, <1>6, <1>7, <1>8, FreeFinite

\* Every step keeps the balance of idle accounts and wake-ups, where the
\* condition variable passes wake-ups on.
LEMMA NextNoLostWakeup ==
  PassesWakeOn /\ IInv /\ NoLostWakeup /\ [Next]_vars => NoLostWakeup'
  <1> SUFFICES ASSUME PassesWakeOn, IInv, NoLostWakeup, [Next]_vars
               PROVE  NoLostWakeup'
    OBVIOUS
  <1>0. IInv' /\ TypeOK /\ TypeOK'
    BY NextIInv DEF IInv
  <1>1. ASSUME NEW r \in Requests, NEW p \in Preferences, ReserveNow(r, p)
        PROVE  NoLostWakeup'
    <2>1. PICK a \in Free : Reserve(r, a)
      BY <1>1 DEF ReserveNow
    <2>2. QED
      BY <1>0, <1>1, <2>1, ReserveTakesOne, FreeFinite, NotifiedFinite
         DEF ReserveNow, NoLostWakeup
  <1>2. ASSUME NEW r \in Requests, NEW p \in Preferences, StartWaiting(r, p)
        PROVE  NoLostWakeup'
    BY <1>0, <1>2, NothingIdle DEF StartWaiting, Free
  <1>3. ASSUME NEW r \in Requests, WakeAndReserve(r)
        PROVE  NoLostWakeup'
    <2>1. PICK a \in Free : Reserve(r, a)
      BY <1>3 DEF WakeAndReserve
    <2>2. Cardinality(notified') = Cardinality(notified) - 1
      BY <1>0, <1>3, NotifiedFinite, FS_RemoveElement DEF WakeAndReserve
    <2>3. QED
      BY <1>0, <1>3, <2>1, <2>2, ReserveTakesOne, FreeFinite, NotifiedFinite
         DEF WakeAndReserve, NoLostWakeup
  <1>4. ASSUME NEW r \in Requests, WakeAndWait(r) \/ WakeAndRefuse(r)
        PROVE  NoLostWakeup'
    BY <1>0, <1>4, NothingIdle DEF WakeAndWait, WakeAndRefuse, Free
  <1>5. ASSUME NEW r \in Requests, DeadlinePasses(r)
        PROVE  NoLostWakeup'
    BY <1>5 DEF DeadlinePasses, NoLostWakeup, Free
  <1>6. ASSUME NEW r \in Requests, Timeout(r)
        PROVE  NoLostWakeup'
    BY <1>6, GiveUpPassesOn DEF Timeout
  <1>7. ASSUME NEW r \in Requests, SessionAcquired(r) \/ NextRequest(r)
        PROVE  NoLostWakeup'
    BY <1>7 DEF SessionAcquired, NextRequest, NoLostWakeup, Free
  <1>8. ASSUME NEW r \in Requests, Holds(r), Release(acct[r])
        PROVE  NoLostWakeup'
    BY <1>8, ReleaseWakesOne DEF IInv, HoldersHaveAccounts
  <1>9. ASSUME NEW r \in Requests, SessionFailed(r) \/ AClose(r)
        PROVE  NoLostWakeup'
    <2>1. CASE UNCHANGED vars
      BY <2>1 DEF vars, NoLostWakeup, Free
    <2>2. QED BY <1>8, <1>9, <2>1 DEF SessionFailed, AClose, Holds
  <1>12. ASSUME NEW r \in Requests, Cancel(r)
         PROVE  NoLostWakeup'
    BY <1>12, GiveUpPassesOn DEF Cancel, NoLostWakeup, Free
  <1>10. CASE UNCHANGED vars
    BY <1>10 DEF vars, NoLostWakeup, Free
  <1>11. QED
    BY <1>1, <1>2, <1>3, <1>4, <1>5, <1>6, <1>7, <1>9, <1>10, <1>12 DEF Next

\* With a condition variable that passes wake-ups on (CPython 3.13) no wake-up
\* is lost: a request never sleeps through an idle account that nobody else was
\* told of (codebuff.py:967-970, 1002).
THEOREM WakeupsKept == SafeSpec => [](PassesWakeOn => NoLostWakeup)
  <1>1. Init => NoLostWakeup
    BY DEF Init, NoLostWakeup
  <1>2. IInv /\ (PassesWakeOn => NoLostWakeup) /\ [Next]_vars
          => (PassesWakeOn => NoLostWakeup)'
    BY NextNoLostWakeup
  <1>3. QED BY <1>1, <1>2, InvariantIInv, PTL DEF SafeSpec

\* The 503 "all N accounts busy" is never sent while an idle account goes
\* unnoticed, where wake-ups are passed on (codebuff.py:994-1009).
THEOREM RefusalsJustified == ASSUME PassesWakeOn PROVE SafeSpec => RefusedOnlyWhenBusy
  <1>1. /\ IInv /\ (PassesWakeOn => NoLostWakeup)
        /\ [Next]_vars
        => [\A r \in Requests : pc[r] = "waiting" /\ pc'[r] = "refused" =>
                                  Free = {} \/ notified # {}]_vars
    <2> SUFFICES ASSUME IInv, NoLostWakeup, Next,
                        NEW r \in Requests, pc[r] = "waiting", pc'[r] = "refused",
                        notified = {}
                 PROVE  Free = {}
      OBVIOUS
    <2>1. waiters # <<>>
      <3>1. r \in SeqRange(waiters)
        BY DEF IInv, DequeOK, Waiting
      <3>2. QED BY <3>1 DEF SeqRange
    <2>2. Cardinality(Free) <= 0
      BY <2>1, FS_EmptySet DEF NoLostWakeup
    <2>3. QED BY <2>2, FreeFinite, FS_EmptySet
  <1>2. QED
    BY <1>1, InvariantIInv, WakeupsKept, PTL DEF SafeSpec, RefusedOnlyWhenBusy

=============================================================================

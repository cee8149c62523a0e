--------------------------- MODULE LoginFlowProofs ---------------------------
(***************************************************************************)
(* Proofs about LoginFlow, for every set of sessions, commits and tokens,  *)
(* and for every pair of time limits.                                      *)
(***************************************************************************)
EXTENDS LoginFlow, SequenceTheorems, TLAPS

\* A session is as old as its poller at most, and nothing is counted for a
\* poller that does not run: pruning, which goes by Ttl, cannot come before the
\* poller's own end, which goes by PollLimit.
PollerYoung ==
  \A s \in Sids : IF s \in polling THEN session[s].idle <= waited[s] ELSE waited[s] = 0

TableOK ==
  /\ session \in [Sids -> Entry \cup {NoEntry}]
  /\ polling \subseteq Sids
  /\ waited \in [Sids -> 0 .. PollLimit]
CommitOK ==
  /\ pc \in [Commits -> {"new", "verifying", "closing"}]
  /\ sid \in [Commits -> Sids \cup {NoSid}]
  /\ token \in [Commits -> Tokens \cup {NoToken}]
TokensOK ==
  /\ tokens \in Lists /\ pool = tokens /\ file \in Lists /\ ahead \in BOOLEAN
  /\ file = tokens \/ ahead

\* A session that is being committed has no poller any more.
CommittedIsOver == \A c \in Commits : sid[c] \notin polling

TableInv == TableOK /\ PollerIffPending /\ PollerYoung
IInv == TokensOK /\ CommitOK /\ TableInv /\ CommittedIsOver

\* What is proved inductive is at least what the runs check.
LEMMA IInvImpliesTypeOK == IInv => TypeOK /\ StoresAgree /\ PollerIffPending
  BY DEF IInv, TokensOK, CommitOK, TableInv, TableOK, TypeOK, StoresAgree

\* An entry's status tells whether there is one.
LEMMA PresentStatus ==
  ASSUME TableOK, NEW s \in Sids
  PROVE  /\ Present(s) => session[s] \in Entry
         /\ ~Present(s) => session[s].status = "none"
         /\ session[s].status = "pending" => Present(s)
  BY DEF TableOK, Present, NoEntry, Entry

\* A running poller's session is never stale.
LEMMA PollingNotStale ==
  ASSUME TableInv, NEW s \in polling
  PROVE  s \notin Stale
  <1>1. s \in Sids /\ session[s].idle <= waited[s] /\ waited[s] \in 0 .. PollLimit
    BY DEF TableInv, TableOK, PollerYoung
  <1>2. session[s] \in Entry
    BY <1>1, PresentStatus DEF TableInv, PollerIffPending
  <1>3. session[s].idle \in 0 .. Ttl + 1
    BY <1>2 DEF Entry
  <1>4. QED BY <1>1, <1>3, TimesAssumption DEF Stale

\* Popping entries of sessions without a poller keeps the table in order.
LEMMA PopKeeps ==
  ASSUME TableInv, NEW gone \in SUBSET Sids, gone \cap polling = {},
         session' = Popped(gone), UNCHANGED <<polling, waited>>
  PROVE  TableInv'
  <1>1. \A s \in Sids : session'[s] = IF s \in gone THEN NoEntry ELSE session[s]
    BY DEF Popped
  <1>2. TableOK'
    BY <1>1 DEF TableInv, TableOK, Popped
  <1>3. PollerIffPending'
    BY <1>1 DEF TableInv, PollerIffPending, NoEntry
  <1>4. PollerYoung'
    BY <1>1 DEF TableInv, PollerYoung
  <1>5. QED BY <1>2, <1>3, <1>4 DEF TableInv

-----------------------------------------------------------------------------
(* The steps                                                               *)

\* A started login: a pending entry and its poller appear together.
LEMMA StartLoginKeeps ==
  ASSUME TableInv, NEW s \in Sids, StartLogin(s)
  PROVE  TableInv'
  <1> DEFINE new == [status |-> "pending", user |-> NoToken, idle |-> 0]
  <1>1. \A x \in Sids : session'[x] = IF x = s THEN new ELSE IF x \in Stale THEN NoEntry ELSE session[x]
    BY DEF StartLogin, Popped
  <1>2. new \in Entry
    BY TimesAssumption DEF Entry
  <1>3. TableOK'
    <2>1. session' \in [Sids -> Entry \cup {NoEntry}]
      <3>1. DOMAIN session' = Sids /\ session' = [x \in Sids |-> session'[x]]
        BY DEF StartLogin, Popped
      <3>2. QED BY <1>1, <1>2, <3>1 DEF TableInv, TableOK
    <2>2. QED BY <2>1 DEF TableInv, TableOK, StartLogin
  <1>4. polling' = polling \cup {s} /\ waited' = waited /\ s \notin polling
    BY DEF StartLogin
  <1>5. ASSUME NEW x \in Sids
        PROVE  /\ x \in polling' <=> session'[x].status = "pending"
               /\ IF x \in polling' THEN session'[x].idle <= waited'[x] ELSE waited'[x] = 0
    <2>1. CASE x = s
      BY <1>1, <1>4, <2>1 DEF TableInv, TableOK, PollerYoung
    <2>2. CASE x # s /\ x \in Stale
      <3>1. x \notin polling
        BY <2>2, PollingNotStale
      <3>2. QED BY <1>1, <1>4, <2>2, <3>1 DEF TableInv, PollerYoung, NoEntry
    <2>3. CASE x # s /\ x \notin Stale
      BY <1>1, <1>4, <2>3 DEF TableInv, PollerIffPending, PollerYoung
    <2>4. QED BY <2>1, <2>2, <2>3
  <1>6. QED BY <1>3, <1>5 DEF TableInv, PollerIffPending, PollerYoung

\* A poller that ends: its entry is pending no more, and it is gone.
LEMMA PollerKeeps ==
  ASSUME TableInv, NEW s \in Sids, Poller(s)
  PROVE  TableInv' /\ polling' = polling \ {s}
  <1>1. PICK outcome \in {"success", "error", "timeout"}, t \in Tokens \cup {NoToken} :
          PollerEnds(s, outcome, t)
    BY DEF Poller
  <1> DEFINE new == [status |-> outcome, user |-> t, idle |-> 0]
  <1>2. s \in polling /\ Present(s)
    BY <1>1, PresentStatus DEF PollerEnds, TableInv, PollerIffPending
  <1>3. /\ polling' = polling \ {s}
        /\ waited' = [waited EXCEPT ![s] = 0]
        /\ session' = [session EXCEPT ![s] = new]
    BY <1>1, <1>2 DEF PollerEnds
  <1>4. new \in Entry /\ new.status # "pending"
    BY TimesAssumption DEF Entry
  <1> HIDE DEF new
  <1>5. TableOK'
    BY <1>3, <1>4, TimesAssumption DEF TableInv, TableOK
  <1>6. PollerIffPending' /\ PollerYoung'
    BY <1>3, <1>4 DEF TableInv, TableOK, PollerIffPending, PollerYoung
  <1>7. QED BY <1>3, <1>5, <1>6 DEF TableInv

\* A status request drops no session from under its poller.
LEMMA PollStatusKeeps ==
  ASSUME TableInv, NEW s \in Sids, PollStatus(s)
  PROVE  TableInv'
  <1>1. Stale \subseteq Sids /\ Stale \cap polling = {}
    BY PollingNotStale DEF Stale
  <1>2. UNCHANGED <<polling, waited>>
    BY DEF PollStatus
  <1>3. CASE session' = Popped(Stale)
    BY <1>1, <1>2, <1>3, PopKeeps
  <1>4. CASE Present(s) /\ s \notin Stale /\ session' = [Popped(Stale) EXCEPT ![s].idle = 0]
    <2> DEFINE touched == [session[s] EXCEPT !.idle = 0]
    <2>1. session[s] \in Entry
      BY <1>4, PresentStatus DEF TableInv
    <2>2. touched \in Entry /\ touched.status = session[s].status /\ touched.idle = 0
      BY <2>1, TimesAssumption DEF Entry
    <2>3. session' = [x \in Sids |-> IF x = s THEN touched
                                    ELSE IF x \in Stale THEN NoEntry ELSE session[x]]
      BY <1>4 DEF Popped
    <2> HIDE DEF touched
    <2>4. \A x \in Sids : session'[x] = IF x = s THEN touched
                                        ELSE IF x \in Stale THEN NoEntry ELSE session[x]
      BY <2>3
    <2>5. session' \in [Sids -> Entry \cup {NoEntry}]
      BY <2>2, <2>3 DEF TableInv, TableOK
    <2>6. \A x \in Stale : x \notin polling
      BY <1>1
    <2>7. PollerIffPending'
      BY <1>2, <2>2, <2>4, <2>6 DEF TableInv, PollerIffPending, NoEntry
    <2>8. PollerYoung'
      <3>1. ASSUME NEW x \in Sids
            PROVE  IF x \in polling THEN session'[x].idle <= waited[x] ELSE waited[x] = 0
        <4>1. waited[x] \in 0 .. PollLimit
          BY DEF TableInv, TableOK
        <4>2. CASE x = s
          BY <2>2, <2>4, <4>1, <4>2 DEF TableInv, PollerYoung
        <4>3. CASE x # s
          BY <2>4, <2>6, <4>3 DEF TableInv, PollerYoung
        <4>4. QED BY <4>2, <4>3
      <3>2. QED BY <1>2, <3>1 DEF PollerYoung
    <2>9. QED BY <1>2, <2>5, <2>7, <2>8 DEF TableInv, TableOK
  <1>5. QED BY <1>3, <1>4 DEF PollStatus

\* A cancellation takes the entry and the poller.
LEMMA CancelKeeps ==
  ASSUME TableInv, NEW s \in Sids, Cancel(s)
  PROVE  TableInv'
  <1>1. \A x \in Sids : session'[x] = IF x = s THEN NoEntry ELSE session[x]
    BY DEF Cancel, Popped
  <1>2. polling' = polling \ {s} /\ waited' = [waited EXCEPT ![s] = 0]
    BY DEF Cancel
  <1>3. TableOK'
    <2>1. session' \in [Sids -> Entry \cup {NoEntry}]
      BY DEF Cancel, Popped, TableInv, TableOK
    <2>2. 0 \in 0 .. PollLimit
      BY TimesAssumption
    <2>3. waited' \in [Sids -> 0 .. PollLimit]
      BY <1>2, <2>2 DEF TableInv, TableOK
    <2>4. polling' \subseteq Sids
      BY <1>2 DEF TableInv, TableOK
    <2>5. QED BY <2>1, <2>3, <2>4 DEF TableOK
  <1>4. PollerIffPending' /\ PollerYoung'
    BY <1>1, <1>2 DEF TableInv, TableOK, PollerIffPending, PollerYoung, NoEntry
  <1>5. QED BY <1>3, <1>4 DEF TableInv

\* Time makes a session at most as old as its poller.
LEMMA TickKeeps ==
  ASSUME TableInv, Tick
  PROVE  TableInv'
  <1>1. /\ polling' = polling
        /\ waited' = [s \in Sids |-> IF s \in polling THEN waited[s] + 1 ELSE waited[s]]
        /\ \A s \in polling : waited[s] < PollLimit
    BY DEF Tick
  <1>2. waited' \in [Sids -> 0 .. PollLimit]
    BY <1>1, TimesAssumption DEF TableInv, TableOK
  <1>3. ASSUME NEW s \in Sids
        PROVE  /\ session'[s] \in Entry \cup {NoEntry}
               /\ session'[s].status = session[s].status
               /\ s \in polling => session'[s].idle <= waited[s] + 1
    <2>1. CASE Present(s) /\ session[s].idle <= Ttl
      <3>1. session[s] \in Entry
        BY <2>1, PresentStatus DEF TableInv
      <3>2. session[s].idle + 1 \in 0 .. Ttl + 1
        BY <2>1, <3>1, TimesAssumption DEF Entry
      <3>3. session'[s] = [session[s] EXCEPT !.idle = @ + 1]
        BY <2>1 DEF Tick
      <3>4. /\ session'[s] \in Entry /\ session'[s].status = session[s].status
            /\ session'[s].idle = session[s].idle + 1
        BY <3>1, <3>2, <3>3 DEF Entry
      <3>5. s \in polling => session[s].idle <= waited[s] /\ waited[s] \in Nat
                             /\ session[s].idle \in Nat
        BY <2>1, <3>1, TimesAssumption DEF TableInv, TableOK, PollerYoung, Entry
      <3>6. QED BY <3>4, <3>5
    <2>2. CASE ~(Present(s) /\ session[s].idle <= Ttl)
      <3>1. session'[s] = session[s]
        BY <2>2 DEF Tick
      <3>2. session[s] \in Entry \cup {NoEntry}
        BY DEF TableInv, TableOK
      <3>3. s \in polling => s \notin Stale /\ Present(s)
        BY PollingNotStale, PresentStatus DEF TableInv, PollerIffPending
      <3>4. s \notin polling
        <4>1. ASSUME s \in polling PROVE FALSE
          <5>1. session[s] \in Entry /\ session[s].idle \in 0 .. Ttl + 1
            BY <3>3, <4>1, PresentStatus DEF TableInv, Entry
          <5>2. session[s].idle > Ttl
            BY <2>2, <3>3, <4>1, <5>1, TimesAssumption
          <5>3. QED BY <3>3, <4>1, <5>2 DEF Stale
        <4>2. QED BY <4>1
      <3>5. QED BY <3>1, <3>2, <3>4
    <2>3. QED BY <2>1, <2>2
  <1>4. session' \in [Sids -> Entry \cup {NoEntry}]
    BY <1>3 DEF Tick
  <1>5. TableOK'
    BY <1>1, <1>2, <1>4 DEF TableInv, TableOK
  <1>6. PollerIffPending'
    BY <1>1, <1>3 DEF TableInv, PollerIffPending
  <1>7. PollerYoung'
    BY <1>1, <1>3 DEF TableInv, PollerYoung
  <1>8. QED BY <1>5, <1>6, <1>7 DEF TableInv

-----------------------------------------------------------------------------
(* The inductive invariant                                                 *)

\* The initial states satisfy the inductive invariant.
LEMMA InitIInv == Init => IInv
  <1> SUFFICES ASSUME Init PROVE IInv
    OBVIOUS
  <1>1. TokensOK
    BY DEF Init, TokensOK
  <1>2. CommitOK
    BY DEF Init, CommitOK
  <1>3. TableInv
    BY TimesAssumption DEF Init, TableInv, TableOK, PollerIffPending, PollerYoung, NoEntry
  <1>4. CommittedIsOver
    BY DEF Init, CommittedIsOver
  <1>5. QED BY <1>1, <1>2, <1>3, <1>4 DEF IInv

\* A list is saved in all three places, in .env alone, or nowhere.
LEMMA SaveTokenListKeeps ==
  ASSUME TokensOK, NEW list, SaveTokenList(list)
  PROVE  TokensOK'
  <1>1. tokens \in Lists /\ list \in Lists
    BY DEF TokensOK, SaveTokenList
  <1>2. CASE tokens' = list /\ pool' = list /\ file' = list /\ ahead' = FALSE
    BY <1>1, <1>2 DEF TokensOK
  <1>3. CASE file' = list /\ ahead' = TRUE /\ UNCHANGED <<tokens, pool>>
    BY <1>1, <1>3 DEF TokensOK
  <1>4. CASE UNCHANGED tokenVars
    BY <1>4 DEF TokensOK, tokenVars
  <1>5. QED BY <1>2, <1>3, <1>4 DEF SaveTokenList

\* A commit that is over is as it was before it began.
LEMMA OverKeeps ==
  ASSUME CommitOK, NEW c \in Commits, Over(c)
  PROVE  CommitOK' /\ \A d \in Commits : sid'[d] = IF d = c THEN NoSid ELSE sid[d]
  BY DEF CommitOK, Over

\* Popping the session of a commit takes none from under its poller.
LEMMA PopCommittedKeeps ==
  ASSUME IInv, NEW c \in Commits, session' = Popped({sid[c]}), UNCHANGED <<polling, waited>>
  PROVE  TableInv'
  <1> DEFINE gone == {sid[c]} \cap Sids
  <1>1. session' = Popped(gone)
    BY DEF Popped
  <1>2. gone \cap polling = {}
    BY DEF IInv, CommittedIsOver
  <1> HIDE DEF gone
  <1>3. gone \subseteq Sids
    BY DEF gone
  <1>4. QED BY <1>1, <1>2, <1>3, PopKeeps DEF IInv

\* Every step keeps the inductive invariant.
LEMMA NextIInv == IInv /\ [Next]_vars => IInv'
  <1> SUFFICES ASSUME IInv, [Next]_vars PROVE IInv'
    OBVIOUS
  <1>1. ASSUME TokensOK', UNCHANGED <<tableVars, commitVars>>
        PROVE  IInv'
    BY <1>1 DEF IInv, tableVars, commitVars, CommitOK, TableInv, TableOK, PollerIffPending,
                PollerYoung, CommittedIsOver
  <1>2. ASSUME TableInv', UNCHANGED <<tokenVars, commitVars>>, polling' \subseteq polling
        PROVE  IInv'
    <2>1. TokensOK' /\ CommitOK'
      BY <1>2 DEF IInv, tokenVars, commitVars, TokensOK, CommitOK
    <2>2. CommittedIsOver'
      BY <1>2 DEF IInv, commitVars, CommittedIsOver
    <2>3. QED BY <1>2, <2>1, <2>2 DEF IInv
  <1>3. ASSUME NEW c \in Commits, Over(c), TokensOK', TableInv', polling' = polling
        PROVE  IInv'
    <2>1. CommitOK' /\ \A d \in Commits : sid'[d] = IF d = c THEN NoSid ELSE sid[d]
      BY <1>3, OverKeeps DEF IInv
    <2>2. NoSid \notin polling
      BY NoSidAssumption DEF IInv, TableInv, TableOK
    <2>3. CommittedIsOver'
      BY <1>3, <2>1, <2>2 DEF IInv, CommittedIsOver
    <2>4. QED BY <1>3, <2>1, <2>3 DEF IInv
  <1>4. ASSUME NEW list \in Lists, SaveTokens(list)
        PROVE  IInv'
    BY <1>1, <1>4, SaveTokenListKeeps DEF IInv, SaveTokens
  <1>5. ASSUME NEW t \in Tokens, AddToken(t)
        PROVE  IInv'
    BY <1>1, <1>5, SaveTokenListKeeps DEF IInv, AddToken
  <1>6. ASSUME NEW t \in Tokens, NEW i \in DOMAIN tokens, UpdateToken(i, t)
        PROVE  IInv'
    BY <1>1, <1>6, SaveTokenListKeeps DEF IInv, UpdateToken
  <1>7. ASSUME NEW i \in DOMAIN tokens, DeleteToken(i)
        PROVE  IInv'
    BY <1>1, <1>7, SaveTokenListKeeps DEF IInv, DeleteToken
  <1>8. ASSUME NEW s \in Sids, StartLogin(s)
        PROVE  IInv'
    <2>1. TableInv'
      BY <1>8, StartLoginKeeps DEF IInv
    <2>2. UNCHANGED <<tokenVars, commitVars>> /\ polling' = polling \cup {s}
          /\ \A c \in Commits : sid[c] # s
      BY <1>8 DEF StartLogin
    <2>3. TokensOK' /\ CommitOK'
      BY <2>2 DEF IInv, tokenVars, commitVars, TokensOK, CommitOK
    <2>4. CommittedIsOver'
      BY <2>2 DEF IInv, commitVars, CommittedIsOver
    <2>5. QED BY <2>1, <2>3, <2>4 DEF IInv
  <1>9. ASSUME NEW s \in Sids, Poller(s)
        PROVE  IInv'
    <2>1. TableInv' /\ polling' = polling \ {s}
      BY <1>9, PollerKeeps DEF IInv
    <2>2. UNCHANGED <<tokenVars, commitVars>>
      BY <1>9 DEF Poller, PollerEnds
    <2>3. QED BY <1>2, <2>1, <2>2
  <1>10. ASSUME NEW s \in Sids, PollStatus(s)
         PROVE  IInv'
    BY <1>2, <1>10, PollStatusKeeps DEF IInv, PollStatus
  <1>11. ASSUME NEW s \in Sids, Cancel(s)
         PROVE  IInv'
    BY <1>2, <1>11, CancelKeeps DEF IInv, Cancel
  <1>12. ASSUME NEW c \in Commits, NEW s \in Sids, Commit(c, s)
         PROVE  IInv'
    <2>1. UNCHANGED <<tokenVars, tableVars>> /\ session[s].status = "success"
      BY <1>12 DEF Commit
    <2>2. TokensOK' /\ TableInv'
      BY <2>1 DEF IInv, tokenVars, tableVars, TokensOK, TableInv, TableOK, PollerIffPending,
                  PollerYoung
    <2>3. session[s].user \in Tokens \cup {NoToken}
      <3>1. session[s] \in Entry \cup {NoEntry}
        BY DEF IInv, TableInv, TableOK
      <3>2. QED BY <3>1 DEF Entry, NoEntry
    <2>4. /\ pc' = [pc EXCEPT ![c] = "verifying"]
          /\ sid' = [sid EXCEPT ![c] = s]
          /\ token' = [token EXCEPT ![c] = session[s].user]
      BY <1>12 DEF Commit
    <2>5. CommitOK'
      BY <2>3, <2>4 DEF IInv, CommitOK
    <2>6. s \notin polling
      BY <2>1 DEF IInv, TableInv, PollerIffPending
    <2>7. CommittedIsOver'
      BY <2>1, <2>4, <2>6 DEF IInv, CommitOK, CommittedIsOver, tableVars
    <2>8. QED BY <2>2, <2>5, <2>7 DEF IInv
  <1>13. ASSUME NEW c \in Commits, Rejected(c)
         PROVE  IInv'
    <2>1. Over(c) /\ UNCHANGED <<tokenVars, tableVars>>
      BY <1>13 DEF Rejected
    <2>2. TokensOK' /\ TableInv' /\ polling' = polling
      BY <2>1 DEF IInv, tokenVars, tableVars, TokensOK, TableInv, TableOK, PollerIffPending,
                  PollerYoung
    <2>3. QED BY <1>3, <2>1, <2>2
  <1>14. ASSUME NEW c \in Commits, AlreadyInPool(c)
         PROVE  IInv'
    BY <1>3, <1>14, SaveTokenListKeeps, PopCommittedKeeps DEF IInv, AlreadyInPool
  <1>15. ASSUME NEW c \in Commits, AddVerified(c)
         PROVE  IInv'
    <2>1. TokensOK'
      BY <1>15, SaveTokenListKeeps DEF IInv, AddVerified
    <2>2. TableInv' /\ polling' = polling
      BY <1>15 DEF IInv, AddVerified, tableVars, TableInv, TableOK, PollerIffPending, PollerYoung
    <2>3. CASE Over(c)
      BY <1>3, <2>1, <2>2, <2>3
    <2>4. CASE pc' = [pc EXCEPT ![c] = "closing"] /\ UNCHANGED <<sid, token>>
      <3>1. CommitOK'
        BY <2>4 DEF IInv, CommitOK
      <3>2. CommittedIsOver'
        BY <2>2, <2>4 DEF IInv, CommittedIsOver
      <3>3. QED BY <2>1, <2>2, <3>1, <3>2 DEF IInv
    <2>5. QED BY <1>15, <2>3, <2>4 DEF AddVerified
  <1>16. ASSUME NEW c \in Commits, Committed(c)
         PROVE  IInv'
    <2>1. TokensOK'
      BY <1>16 DEF IInv, Committed, tokenVars, TokensOK
    <2>2. TableInv'
      BY <1>16, PopCommittedKeeps DEF Committed
    <2>3. QED BY <1>3, <1>16, <2>1, <2>2 DEF Committed
  <1>17. CASE Tick
    <2>1. TableInv'
      BY <1>17, TickKeeps DEF IInv
    <2>2. QED BY <1>2, <1>17, <2>1 DEF Tick
  <1>18. CASE Restart
    <2>1. TokensOK'
      BY <1>18 DEF Restart, TokensOK
    <2>2. CommitOK'
      BY <1>18 DEF Restart, CommitOK
    <2>3. TableInv'
      BY <1>18, TimesAssumption DEF Restart, TableInv, TableOK, PollerIffPending, PollerYoung,
                                    NoEntry
    <2>4. CommittedIsOver'
      BY <1>18 DEF Restart, CommittedIsOver
    <2>5. QED BY <2>1, <2>2, <2>3, <2>4 DEF IInv
  <1>19. CASE UNCHANGED vars
    <2>1. TokensOK'
      BY <1>19 DEF IInv, TokensOK, vars, tokenVars
    <2>2. QED BY <1>1, <1>19, <2>1 DEF vars
  <1>20. QED
    BY <1>4, <1>5, <1>6, <1>7, <1>8, <1>9, <1>10, <1>11, <1>12, <1>13, <1>14, <1>15, <1>16,
       <1>17, <1>18, <1>19 DEF Next, CommitStep

\* The inductive invariant holds in every reachable state.
LEMMA InvariantIInv == Spec => []IInv
  BY InitIInv, NextIInv, PTL DEF Spec

-----------------------------------------------------------------------------
(* The theorems                                                            *)

\* Every variable keeps its type.
THEOREM TypeCorrect == Spec => []TypeOK
  BY InvariantIInv, IInvImpliesTypeOK, PTL

\* Settings and pool hold one token list whatever fails, and .env holds it too
\* but for a list that was written and that no pool could be built of
\* (admin.py:146-173).
THEOREM StoresKept == Spec => []StoresAgree
  BY InvariantIInv, IInvImpliesTypeOK, PTL

\* Exactly the pending sessions have a poller (admin.py:484-584).
THEOREM PollersMatch == Spec => []PollerIffPending
  BY InvariantIInv, IInvImpliesTypeOK, PTL

\* A list is a sequence of tokens.
LEMMA ListIsSeq ==
  ASSUME NEW list \in Lists
  PROVE  list \in Seq(Tokens)
  <1>1. PICK k \in 0 .. MaxTokens : list \in [1 .. k -> Tokens]
    BY DEF Lists
  <1>2. k \in Nat
    BY <1>1, MaxTokensAssumption
  <1>3. QED BY <1>1, <1>2, SeqDef

\* Appending leaves what was there in its place.
LEMMA AppendKeeps ==
  ASSUME NEW S, NEW list \in Seq(S), NEW t \in S
  PROVE  /\ SubSeq(Append(list, t), 1, Len(list)) = list
         /\ Len(Append(list, t)) = Len(list) + 1
         /\ Append(list, t)[Len(list) + 1] = t
  <1> DEFINE longer == Append(list, t)
  <1>1. /\ longer \in Seq(S) /\ Len(longer) = Len(list) + 1
        /\ \A i \in 1 .. Len(list) : longer[i] = list[i]
        /\ longer[Len(list) + 1] = t
    BY AppendProperties
  <1>2. Len(list) \in Nat
    BY LenProperties
  <1> HIDE DEF longer
  <1>3. SubSeq(longer, 1, Len(list)) = [i \in 1 .. Len(list) |-> list[i]]
    BY <1>1, <1>2
  <1>4. list = [i \in 1 .. Len(list) |-> list[i]]
    BY LenProperties
  <1>5. QED BY <1>1, <1>3, <1>4 DEF longer

\* A commit adds its token at the end, once, and leaves every other where it is
\* (admin.py:612-623).
THEOREM CommitsAddOnce == Spec => CommitAddsOnce
  <1> DEFINE Adds ==
        \A c \in Commits : pc[c] = "verifying" /\ pc'[c] = "closing" =>
          /\ SubSeq(tokens', 1, Len(tokens)) = tokens
          /\ Len(tokens') = Len(tokens) + 1
          /\ tokens'[Len(tokens')] = token[c]
          /\ ~Has(tokens, token[c])
  <1>1. ASSUME IInv, [Next]_vars, NEW c \in Commits, pc[c] = "verifying", pc'[c] = "closing"
        PROVE  AddVerified(c) /\ tokens' = Append(tokens, token[c])
    <2>1. pc' # pc
      BY <1>1
    <2>2. ~Restart
      BY <1>1 DEF Restart
    <2>3. PICK d \in Commits : CommitStep(d) \/ \E s \in Sids : Commit(d, s)
      BY <1>1, <2>1, <2>2 DEF Next, vars, commitVars, SaveTokens, AddToken, UpdateToken, DeleteToken,
                    StartLogin, Poller, PollerEnds, PollStatus, Cancel, Tick
    <2>4. pc \in [Commits -> {"new", "verifying", "closing"}]
      BY <1>1 DEF IInv, CommitOK
    <2>5. AddVerified(c)
      BY <1>1, <2>3, <2>4 DEF CommitStep, Commit, Rejected, AlreadyInPool, AddVerified, Committed,
                              Over
    <2>6. ~Over(c)
      BY <1>1, <2>4 DEF Over
    <2>7. QED BY <2>5, <2>6 DEF AddVerified, SaveTokenList, tokenVars
  <1>2. IInv /\ [Next]_vars => [Adds]_vars
    <2> SUFFICES ASSUME IInv, [Next]_vars, NEW c \in Commits, pc[c] = "verifying",
                        pc'[c] = "closing"
                 PROVE  /\ SubSeq(tokens', 1, Len(tokens)) = tokens
                        /\ Len(tokens') = Len(tokens) + 1
                        /\ tokens'[Len(tokens')] = token[c]
                        /\ ~Has(tokens, token[c])
      OBVIOUS
    <2>1. AddVerified(c) /\ tokens' = Append(tokens, token[c])
      BY <1>1
    <2>2. tokens \in Seq(Tokens \cup {NoToken})
      <3>1. tokens \in Seq(Tokens)
        BY ListIsSeq DEF IInv, TokensOK
      <3>2. QED BY <3>1
    <2>3. token[c] \in Tokens \cup {NoToken}
      BY DEF IInv, CommitOK
    <2>4. QED BY <2>1, <2>2, <2>3, AppendKeeps DEF AddVerified
  <1>3. QED
    BY <1>2, InvariantIInv, PTL DEF Spec, CommitAddsOnce

\* A login that succeeded is lost only to a commit that added its token or found
\* it there, to a cancellation, to neglect or to a restart (admin.py:586-639).
THEOREM SuccessKept == Spec => LoginKept
  <1> DEFINE Excused(s) ==
        \/ \E c \in Commits : sid[c] = s /\ (pc[c] = "closing" \/ Has(tokens, token[c]))
        \/ Cancel(s) \/ session[s].idle > Ttl \/ Restart
  <1> DEFINE Kept ==
        \A s \in Sids : session[s].status = "success" /\ session'[s].status # "success" => Excused(s)
  <1>1. ASSUME IInv, [Next]_vars, NEW s \in Sids,
               session[s].status = "success", session'[s].status # "success"
        PROVE  Excused(s)
    <2>1. session[s] \in Entry /\ Present(s)
      BY <1>1 DEF IInv, TableInv, TableOK, Entry, NoEntry, Present
    <2>2. session' # session
      BY <1>1
    <2>3. s \notin polling
      BY <1>1 DEF IInv, TableInv, PollerIffPending
    <2>4. s \in Stale => session[s].idle > Ttl
      BY DEF Stale
    <2>5. ASSUME NEW t \in Sids, StartLogin(t)
          PROVE  Excused(s)
      <3>1. s # t
        BY <2>1, <2>5 DEF StartLogin
      <3>2. session'[s] = IF s \in Stale THEN NoEntry ELSE session[s]
        BY <2>5, <3>1 DEF StartLogin, Popped
      <3>3. QED BY <1>1, <2>4, <3>2
    <2>6. ASSUME NEW t \in Sids, Poller(t)
          PROVE  Excused(s)
      <3>1. t \in polling
        BY <2>6 DEF Poller, PollerEnds
      <3>2. s # t
        BY <2>3, <3>1
      <3>3. session'[s] = session[s]
        BY <1>1, <2>6, <3>2 DEF Poller, PollerEnds, IInv, TableInv, TableOK
      <3>4. QED BY <1>1, <3>3
    <2>7. ASSUME NEW t \in Sids, PollStatus(t)
          PROVE  Excused(s)
      <3>1. CASE s \in Stale
        BY <2>4, <3>1
      <3>2. CASE s \notin Stale
        <4>1. Popped(Stale)[s] = session[s]
          BY <3>2 DEF Popped
        <4>2. session'[s] = session[s] \/ session'[s] = [session[s] EXCEPT !.idle = 0]
          BY <2>7, <4>1 DEF PollStatus, Popped
        <4>3. session'[s].status = session[s].status
          BY <2>1, <4>2 DEF Entry
        <4>4. QED BY <1>1, <4>3
      <3>3. QED BY <3>1, <3>2
    <2>8. ASSUME NEW t \in Sids, Cancel(t)
          PROVE  Excused(s)
      <3>1. CASE s = t
        BY <2>8, <3>1
      <3>2. CASE s # t
        BY <1>1, <2>8, <3>2 DEF Cancel, Popped
      <3>3. QED BY <3>1, <3>2
    <2>9. ASSUME NEW c \in Commits, CommitStep(c)
          PROVE  Excused(s)
      <3>1. CASE sid[c] # s
        BY <1>1, <2>9, <3>1 DEF CommitStep, Rejected, AlreadyInPool, AddVerified, Committed, Popped,
                              tableVars
      <3>2. CASE sid[c] = s
        BY <2>2, <2>9, <3>2 DEF CommitStep, Rejected, AlreadyInPool, AddVerified, Committed,
                                tableVars
      <3>3. QED BY <3>1, <3>2
    <2>10. CASE Tick
      <3>1. session'[s] = session[s] \/ session'[s] = [session[s] EXCEPT !.idle = @ + 1]
        BY <2>10 DEF Tick
      <3>2. session'[s].status = session[s].status
        BY <2>1, <3>1 DEF Entry
      <3>3. QED BY <1>1, <3>2
    <2>11. CASE Restart
      BY <2>11
    <2> HIDE DEF Excused
    <2>12. QED
      BY <1>1, <2>2, <2>5, <2>6, <2>7, <2>8, <2>9, <2>10, <2>11
         DEF Next, vars, tableVars, SaveTokens, AddToken, UpdateToken, DeleteToken, Commit
  <1> HIDE DEF Excused
  <1>2. IInv /\ [Next]_vars => [Kept]_vars
    BY <1>1
  <1> USE DEF Excused
  <1>3. QED
    BY <1>2, InvariantIInv, PTL DEF Spec, LoginKept

=============================================================================

------------------------------ MODULE LoginFlow ------------------------------
(***************************************************************************)
(* The browser login of the admin panel (admin.py:484-639, login_flow.py)  *)
(* and the token list it adds to (admin.py:146-173, 405-474).  Starting a  *)
(* login puts a session in a table and starts a poller; the browser asks   *)
(* for its status, commits the token it yielded, or cancels it.  Sessions  *)
(* nobody touched for ten minutes are pruned when another one is started   *)
(* or looked at.                                                           *)
(*                                                                         *)
(* The table's lock is never held across an await, so it needs no          *)
(* variable, and each section is one step.  A commit awaits twice: while   *)
(* the token is verified, and while the old pool's clients are closed.     *)
(*                                                                         *)
(* .env is written before the pool is built, and either may fail: the pool *)
(* of a list that reaches an account's unusable proxy URL raises, when the *)
(* list is on disk already.                                                *)
(*                                                                         *)
(* The process may end at any moment, also after it renamed the new .env   *)
(* into place and before it applied it; it is started again and reads      *)
(* .env.  Not modelled: the serverless deployment, which saves nothing,    *)
(* and the pages of the login itself.                                      *)
(***************************************************************************)
EXTENDS Integers, Sequences, FiniteSets

CONSTANTS
  Sids,       \* names for login sessions: a name is used again when it is free
  Tokens,     \* account tokens
  NoToken,
  Commits,    \* requests to commit a login
  NoSid,
  MaxTokens,  \* bound on the length of the token list
  PollLimit,  \* periods of five minutes a poller polls (login_flow.py:38)
  Ttl         \* periods of five minutes a session may be left alone (admin.py:485)

ASSUME NoTokenAssumption == NoToken \notin Tokens
ASSUME NoSidAssumption == NoSid \notin Sids
ASSUME MaxTokensAssumption == MaxTokens \in Nat
ASSUME TimesAssumption == PollLimit \in Nat /\ Ttl \in Nat /\ PollLimit <= Ttl

Lists == UNION {[1 .. k -> Tokens] : k \in 0 .. MaxTokens}
Has(list, t) == \E i \in DOMAIN list : list[i] = t

VARIABLES
  tokens,  \* settings.codebuff_tokens
  pool,    \* the tokens of the accounts in app.state.accounts
  file,    \* FREEBUFF_TOKEN in .env
  ahead,   \* no pool could be built of the list .env was last saved with
  session, \* [Sids -> Entry \cup {NoEntry}]: _LOGIN_SESSIONS
  polling, \* sessions whose poller runs
  waited,  \* periods each poller has polled
  pc,      \* the step each commit is at
  sid,     \* the session it commits
  token    \* the token it read from it

tokenVars == <<tokens, pool, file, ahead>>
tableVars == <<session, polling, waited>>
commitVars == <<pc, sid, token>>
vars == <<tokenVars, tableVars, commitVars>>

\* A login session: its status, the token its login yielded, and the periods
\* since it was last touched, counted up to one more than Ttl.
Entry == [status : {"pending", "success", "timeout", "error"},
          user   : Tokens \cup {NoToken},
          idle   : 0 .. Ttl + 1]
NoEntry == [status |-> "none", user |-> NoToken, idle |-> 0]

Init ==
  /\ tokens \in Lists /\ pool = tokens /\ file = tokens /\ ahead = FALSE
  /\ session = [s \in Sids |-> NoEntry]
  /\ polling = {}
  /\ waited = [s \in Sids |-> 0]
  /\ pc = [c \in Commits |-> "new"]
  /\ sid = [c \in Commits |-> NoSid]
  /\ token = [c \in Commits |-> NoToken]

-----------------------------------------------------------------------------
(* The token list                                                          *)

\* Mutation of SaveTokenList: the pool is replaced before the file is written.
MutSaveTokenList(list) ==
  /\ list \in Lists
  /\ tokens' = list
  /\ pool' = list
  /\ file' \in {list, file}
  /\ ahead' = FALSE

\* _save_token_list and _replace_accounts: .env is written first, and if that
\* raises, nothing has changed; then the new pool is built, and if that raises,
\* settings and pool are the old ones.
SaveTokenList(list) ==
  /\ list \in Lists
  /\ \/ tokens' = list /\ pool' = list /\ file' = list /\ ahead' = FALSE
     \/ file' = list /\ ahead' = TRUE /\ UNCHANGED <<tokens, pool>>
     \/ UNCHANGED tokenVars

\* save_tokens.
SaveTokens(list) ==
  /\ SaveTokenList(list)
  /\ UNCHANGED <<tableVars, commitVars>>

\* add_token.
AddToken(t) ==
  /\ SaveTokenList(Append(tokens, t))
  /\ UNCHANGED <<tableVars, commitVars>>

\* update_token.
UpdateToken(i, t) ==
  /\ SaveTokenList([tokens EXCEPT ![i] = t])
  /\ UNCHANGED <<tableVars, commitVars>>

\* delete_token.
DeleteToken(i) ==
  /\ SaveTokenList(SubSeq(tokens, 1, i - 1) \o SubSeq(tokens, i + 1, Len(tokens)))
  /\ UNCHANGED <<tableVars, commitVars>>

-----------------------------------------------------------------------------
(* Login sessions                                                          *)

Present(s) == session[s] # NoEntry

\* Mutation of Stale: a session may be left alone only as long as its poller
\* polls.
MutStale == {s \in Sids : Present(s) /\ session[s].idle >= PollLimit}

\* What _prune_login_sessions_sync drops.
Stale == {s \in Sids : Present(s) /\ session[s].idle > Ttl}

\* The table without the entries of these sessions.
Popped(gone) == [s \in Sids |-> IF s \in gone THEN NoEntry ELSE session[s]]

\* login_flow_start, once the service gave it a login URL.
StartLogin(s) ==
  /\ ~Present(s) /\ s \notin polling
  /\ \A c \in Commits : sid[c] # s
  /\ session' = [Popped(Stale) EXCEPT
                   ![s] = [status |-> "pending", user |-> NoToken, idle |-> 0]]
  /\ polling' = polling \cup {s}
  /\ UNCHANGED <<tokenVars, waited, commitVars>>

\* The poller ends with this outcome; its session, if it is still there, gets
\* it and is touched.
PollerEnds(s, outcome, t) ==
  /\ s \in polling
  /\ polling' = polling \ {s}
  /\ waited' = [waited EXCEPT ![s] = 0]
  /\ session' = IF Present(s)
                THEN [session EXCEPT ![s] = [status |-> outcome, user |-> t, idle |-> 0]]
                ELSE session
  /\ UNCHANGED <<tokenVars, commitVars>>

\* poll_login returns a user, raises, or is out of time.
Poller(s) ==
  \/ \E t \in Tokens : PollerEnds(s, "success", t)
  \/ PollerEnds(s, "error", NoToken)
  \/ waited[s] = PollLimit /\ PollerEnds(s, "timeout", NoToken)

\* login_flow_poll: prune, then touch the session if it is still there.
PollStatus(s) ==
  /\ session' = IF Present(s) /\ s \notin Stale
                THEN [Popped(Stale) EXCEPT ![s].idle = 0]
                ELSE Popped(Stale)
  /\ UNCHANGED <<tokenVars, polling, waited, commitVars>>

\* login_flow_cancel: the entry is popped before its task is cancelled, which
\* then finds none.
Cancel(s) ==
  /\ Present(s)
  /\ session' = Popped({s})
  /\ polling' = polling \ {s}
  /\ waited' = [waited EXCEPT ![s] = 0]
  /\ UNCHANGED <<tokenVars, commitVars>>

-----------------------------------------------------------------------------
(* Committing a login                                                      *)

Over(c) ==
  /\ pc' = [pc EXCEPT ![c] = "new"]
  /\ sid' = [sid EXCEPT ![c] = NoSid]
  /\ token' = [token EXCEPT ![c] = NoToken]

\* login_flow_commit, up to the verification.
Commit(c, s) ==
  /\ pc[c] = "new"
  /\ session[s].status = "success"
  /\ pc' = [pc EXCEPT ![c] = "verifying"]
  /\ sid' = [sid EXCEPT ![c] = s]
  /\ token' = [token EXCEPT ![c] = session[s].user]
  /\ UNCHANGED <<tokenVars, tableVars>>

\* Mutation of Rejected: the session is dropped with its token.
MutRejected(c) ==
  /\ pc[c] = "verifying"
  /\ session' = Popped({sid[c]})
  /\ Over(c)
  /\ UNCHANGED <<tokenVars, polling, waited>>

\* The token is not good, or could not be verified: the session stays.
Rejected(c) ==
  /\ pc[c] = "verifying"
  /\ Over(c)
  /\ UNCHANGED <<tokenVars, tableVars>>

\* It is good, and in the list by now: the session is popped, the list saved.
AlreadyInPool(c) ==
  /\ pc[c] = "verifying"
  /\ Has(tokens, token[c])
  /\ session' = Popped({sid[c]})
  /\ SaveTokenList(tokens)
  /\ Over(c)
  /\ UNCHANGED <<polling, waited>>

\* Mutation of AddVerified: the list is not looked at again.
MutAddVerified(c) ==
  /\ pc[c] = "verifying"
  /\ SaveTokenList(Append(tokens, token[c]))
  /\ IF tokens' = tokens THEN Over(c)
     ELSE pc' = [pc EXCEPT ![c] = "closing"] /\ UNCHANGED <<sid, token>>
  /\ UNCHANGED tableVars

\* It is good, and is added; then the old pool is closed.  If it cannot be
\* saved the session stays.
AddVerified(c) ==
  /\ pc[c] = "verifying"
  /\ ~Has(tokens, token[c])
  /\ SaveTokenList(Append(tokens, token[c]))
  /\ IF tokens' = tokens THEN Over(c)
     ELSE pc' = [pc EXCEPT ![c] = "closing"] /\ UNCHANGED <<sid, token>>
  /\ UNCHANGED tableVars

\* The old pool is closed: the session is popped.
Committed(c) ==
  /\ pc[c] = "closing"
  /\ session' = Popped({sid[c]})
  /\ Over(c)
  /\ UNCHANGED <<tokenVars, polling, waited>>

-----------------------------------------------------------------------------
(* Time and restarts                                                       *)

\* Mutation of Tick: the poller does not look at its deadline.
MutTick ==
  /\ session' = [s \in Sids |->
                   IF Present(s) /\ session[s].idle <= Ttl
                   THEN [session[s] EXCEPT !.idle = @ + 1] ELSE session[s]]
  /\ waited' = [s \in Sids |-> IF s \in polling THEN waited[s] + 1 ELSE waited[s]]
  /\ UNCHANGED <<tokenVars, polling, commitVars>>

\* Five minutes pass.  A poller that is out of time stops before more do.
Tick ==
  /\ \A s \in polling : waited[s] < PollLimit
  /\ session' = [s \in Sids |->
                   IF Present(s) /\ session[s].idle <= Ttl
                   THEN [session[s] EXCEPT !.idle = @ + 1] ELSE session[s]]
  /\ waited' = [s \in Sids |-> IF s \in polling THEN waited[s] + 1 ELSE waited[s]]
  /\ UNCHANGED <<tokenVars, polling, commitVars>>

\* The process ends and is started again, which it is not before a pool can be
\* built.  The file is the one it left, or, if it ended between os.replace and
\* what follows, the one it was saving, which may be any.
Restart ==
  /\ file' \in Lists
  /\ tokens' = file' /\ pool' = file' /\ ahead' = FALSE
  /\ session' = [s \in Sids |-> NoEntry]
  /\ polling' = {}
  /\ waited' = [s \in Sids |-> 0]
  /\ pc' = [c \in Commits |-> "new"]
  /\ sid' = [c \in Commits |-> NoSid]
  /\ token' = [c \in Commits |-> NoToken]

CommitStep(c) == Rejected(c) \/ AlreadyInPool(c) \/ AddVerified(c) \/ Committed(c)

Next ==
  \/ \E list \in Lists : SaveTokens(list)
  \/ \E t \in Tokens : AddToken(t) \/ \E i \in DOMAIN tokens : UpdateToken(i, t)
  \/ \E i \in DOMAIN tokens : DeleteToken(i)
  \/ \E s \in Sids : StartLogin(s) \/ Poller(s) \/ PollStatus(s) \/ Cancel(s)
  \/ \E c \in Commits : CommitStep(c) \/ \E s \in Sids : Commit(c, s)
  \/ Tick
  \/ Restart

Spec == Init /\ [][Next]_vars

-----------------------------------------------------------------------------
(* Properties                                                              *)

\* The type of every variable.
TypeOK ==
  /\ tokens \in Lists /\ pool \in Lists /\ file \in Lists /\ ahead \in BOOLEAN
  /\ session \in [Sids -> Entry \cup {NoEntry}]
  /\ polling \subseteq Sids
  /\ waited \in [Sids -> 0 .. PollLimit]
  /\ pc \in [Commits -> {"new", "verifying", "closing"}]
  /\ sid \in [Commits -> Sids \cup {NoSid}]
  /\ token \in [Commits -> Tokens \cup {NoToken}]

\* The pool serves the tokens of the settings, and they are those a restart
\* would find, though writing .env may fail: only when the pool of the list
\* last written could not be built is .env ahead, never behind.
StoresAgree == pool = tokens /\ (file = tokens \/ ahead)

\* A poller runs exactly for the sessions that are pending: pruning never takes
\* a session from under its poller, cancelling leaves none behind, and no
\* session stays pending with nobody to end it.
PollerIffPending == \A s \in Sids : s \in polling <=> session[s].status = "pending"

\* A commit adds its token once and disturbs no other, whatever was done to the
\* list while the token was verified (admin.py:612-623).
CommitAddsOnce ==
  [][\A c \in Commits : pc[c] = "verifying" /\ pc'[c] = "closing" =>
       /\ SubSeq(tokens', 1, Len(tokens)) = tokens
       /\ Len(tokens') = Len(tokens) + 1
       /\ tokens'[Len(tokens')] = token[c]
       /\ ~Has(tokens, token[c])]_vars

\* A login that succeeded can be committed until it was: its session goes only
\* when its token was added or was there already, when it is cancelled, when it
\* was left alone too long, or with the process.
LoginKept ==
  [][\A s \in Sids : session[s].status = "success" /\ session'[s].status # "success" =>
       \/ \E c \in Commits : sid[c] = s /\ (pc[c] = "closing" \/ Has(tokens, token[c]))
       \/ Cancel(s) \/ session[s].idle > Ttl \/ Restart]_vars

=============================================================================

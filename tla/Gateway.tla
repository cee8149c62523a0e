------------------------------- MODULE Gateway -------------------------------
(***************************************************************************)
(* The chat endpoints (app.py:467-1141): a request borrows an account,     *)
(* opens its agent runs upstream, answers its client as a stream or in one *)
(* piece, records the request, closes the runs and returns the account.    *)
(* It is composed with ExclusiveLease, which AccountPool implements: here  *)
(* the pool is the lease it promises.                                      *)
(*                                                                         *)
(* Each upstream call is one step: the service acts, and the task consumes *)
(* the answer up to its next await.  A call may fail without effect, or    *)
(* fail after it took effect.  Saving the token list in the admin panel    *)
(* replaces the pool while chats are in flight (admin.py:146-153): they    *)
(* keep their old account, whose HTTP client is closed under them.         *)
(*                                                                         *)
(* A stream has two beginnings: the handler makes the generator and is     *)
(* done, and the server takes the generator's first step.  What happens in *)
(* between happens to an account that nobody will close.                   *)
(*                                                                         *)
(* Not modelled here: what is sent and answered (RequestConversion,        *)
(* ChatAnswer), the keys (ApiKeys), and the governor, whose preference any *)
(* account stands for.                                                     *)
(***************************************************************************)
EXTENDS Integers, Sequences, FiniteSets

CONSTANTS
  Chats,      \* chat requests, each served once
  Accounts,   \* the accounts of one pool
  MaxPool     \* how often the admin panel replaces the pool

ASSUME ChatsAssumption == IsFiniteSet(Chats)
ASSUME AccountsAssumption == Accounts # {}
ASSUME MaxPoolAssumption == MaxPool \in Nat

Pools == 0 .. MaxPool

\* An account of a pool; two pools share none.
Slots == Pools \X Accounts
NoSlot == <<>>

\* "openai", "anthropic": the two streaming responses; "collect": either
\* endpoint without stream; "test": the admin panel's chat test.
Kinds == {"openai", "anthropic", "collect", "test"}

\* How a model's chat opens its runs: with a context pruner as child run, or
\* with the chat itself as the child of a parent agent's run.
Chains == {"pruner", "child"}

VARIABLES
  want,      \* chats that wait for an account (ExclusiveLease)
  holds,     \* the account each chat's lease is for (ExclusiveLease)
  current,   \* the pool in app.state.accounts
  pool,      \* the pool each chat found there
  kind,      \* how each chat is answered
  chain,     \* which run chain its model has
  pc,        \* the step the request is at
  todo,      \* the run calls left to make, of the preparation or the finalizer
  fin,       \* _finalize_run_with_client: "no", "pending" or "over"
  runs,      \* each chat's runs as the service knows them
  failed,    \* chats one of whose run calls failed or was cancelled
  outcome,   \* how the upstream chat ended: "open", "ok", "failed" (a
             \* CodebuffError), "broken" (another exception), "left" (the
             \* client), "cancelled" (the task), "unsent" (ok, but the answer
             \* could not be encoded)
  records    \* the statuses recorded for each chat: _record_request

leaseVars == <<want, holds>>
vars == <<want, holds, current, pool, kind, chain, pc, todo, fin, runs,
          failed, outcome, records>>

Lease == INSTANCE ExclusiveLease
  WITH Clients <- Chats, Resources <- Slots, None <- NoSlot

Outcomes == {"open", "ok", "failed", "broken", "left", "cancelled", "unsent"}

\* The steps during which the handler or its generator has the lease.
Leased == {"acquiring", "checks", "chain", "starting", "streaming", "erroring",
           "abandoned", "collecting", "closing"}

\* "lost": handler and generator are gone and nobody closed the lease.
PC == {"new", "waiting", "lost", "over"} \cup Leased

-----------------------------------------------------------------------------
(* Agent runs                                                              *)

\* A run as the service knows it: the steps recorded, the child run a step
\* named, and the total it was finished with.
NewRun == [state |-> "none", steps |-> <<>>, names |-> FALSE, total |-> 0]

Start(x) == [op |-> "start", run |-> x]
Step(x, n, child) == [op |-> "step", run |-> x, n |-> n, child |-> child]
Finish(x, total) == [op |-> "finish", run |-> x, total |-> total]

\* Mutation of Preparation: the pruner's run is named before it is finished.
MutPreparation(ch) ==
  IF ch = "pruner"
  THEN <<Start("root"), Start("kid"), Step("kid", 1, FALSE),
         Step("root", 1, TRUE), Finish("kid", 2)>>
  ELSE <<Start("root"), Start("kid")>>

\* The calls of _start_freebuff_run_chain, _start_child_chat_run_chain.
Preparation(ch) ==
  IF ch = "pruner"
  THEN <<Start("root"), Start("kid"), Step("kid", 1, FALSE),
         Finish("kid", 2), Step("root", 1, TRUE)>>
  ELSE <<Start("root"), Start("kid")>>

\* Mutation of Finalization: the parent's steps are counted one too high.
MutFinalization(ch) ==
  IF ch = "pruner"
  THEN <<Step("root", 3, FALSE), Finish("root", 4)>>
  ELSE <<Step("kid", 1, FALSE), Finish("kid", 2),
         Step("root", 2, TRUE), Finish("root", 3)>>

\* The calls of _finalize_run_with_client.
Finalization(ch) ==
  IF ch = "pruner"
  THEN <<Step("root", 2, FALSE), Finish("root", 3)>>
  ELSE <<Step("kid", 1, FALSE), Finish("kid", 2),
         Step("root", 1, TRUE), Finish("root", 2)>>

\* What a call makes of the run it is about.
Applied(run, call) ==
  CASE call.op = "start"  -> [run EXCEPT !.state = "open"]
    [] call.op = "step"   -> [run EXCEPT !.steps = Append(@, call.n),
                                         !.names = @ \/ call.child]
    [] call.op = "finish" -> [run EXCEPT !.state = "finished", !.total = call.total]

\* The effect of a run call on the service.
Effect(c, call) == runs' = [runs EXCEPT ![c][call.run] = Applied(@, call)]

\* The client of a replaced pool was closed (CodebuffAccountPool.aclose).
Closed(c) == pool[c] # current

\* The next run call is answered.
CallSucceeds(c) ==
  /\ ~Closed(c)
  /\ Effect(c, Head(todo[c]))
  /\ todo' = [todo EXCEPT ![c] = Tail(@)]
  /\ UNCHANGED failed

\* It raises: the calls after it are not made.
CallFails(c) ==
  /\ Effect(c, Head(todo[c])) \/ UNCHANGED runs
  /\ todo' = [todo EXCEPT ![c] = <<>>]
  /\ failed' = failed \cup {c}

-----------------------------------------------------------------------------

Init ==
  /\ Lease!Init
  /\ current = 0
  /\ pool = [c \in Chats |-> 0]
  /\ kind \in [Chats -> Kinds]
  /\ chain \in [Chats -> Chains]
  /\ pc = [c \in Chats |-> "new"]
  /\ todo = [c \in Chats |-> <<>>]
  /\ fin = [c \in Chats |-> "no"]
  /\ runs = [c \in Chats |-> [root |-> NewRun, kid |-> NewRun]]
  /\ failed = {}
  /\ outcome = [c \in Chats |-> "open"]
  /\ records = [c \in Chats |-> <<>>]

Goto(c, step) == pc' = [pc EXCEPT ![c] = step]

Record(c, status) == records' = [records EXCEPT ![c] = Append(@, status)]

\* The pool lends chat c an account of its own.
Borrow(c, p) == \E a \in Accounts : Lease!Grant(c, <<p, a>>)

-----------------------------------------------------------------------------
(* Getting an account, and preparing the chat                              *)

\* Authentication, the body's checks, an unknown model or one the key may not
\* use: the request is refused before it asks for anything.
Refuse(c) ==
  /\ pc[c] = "new"
  /\ Goto(c, "over")
  /\ UNCHANGED <<want, holds, current, pool, kind, chain, todo, fin, runs,
                 failed, outcome, records>>

\* acquire_session on the pool that is there now; it has a free account, or
\* the chat waits.
Arrive(c) ==
  /\ pc[c] = "new"
  /\ pool' = [pool EXCEPT ![c] = current]
  /\ \/ Borrow(c, current) /\ Goto(c, "acquiring")
     \/ Lease!Ask(c) /\ Goto(c, "waiting")
  /\ UNCHANGED <<current, kind, chain, todo, fin, runs, failed, outcome, records>>

\* The pool gives a waiting chat an account, or its 503.
Answered(c) ==
  /\ pc[c] = "waiting"
  /\ \/ Borrow(c, pool[c]) /\ Goto(c, "acquiring")
     \/ Lease!Refuse(c) /\ Goto(c, "over")
  /\ UNCHANGED <<current, pool, kind, chain, todo, fin, runs, failed, outcome, records>>

\* The account's session is there, or the pool took the account back.
SessionAcquired(c) ==
  /\ pc[c] = "acquiring"
  /\ \/ ~Closed(c) /\ Goto(c, "checks") /\ UNCHANGED leaseVars
     \/ Lease!Return(c) /\ Goto(c, "over")
  /\ UNCHANGED <<current, pool, kind, chain, todo, fin, runs, failed, outcome, records>>

\* request_ad_chain and validate_agents, which pass over every CodebuffError.
ChecksDone(c) ==
  /\ pc[c] = "checks"
  /\ \/ /\ Goto(c, "chain")
        /\ todo' = [todo EXCEPT ![c] = Preparation(chain[c])]
        /\ UNCHANGED leaseVars
     \/ \* any other exception: lease.aclose()
        Lease!Return(c) /\ Goto(c, "over") /\ UNCHANGED todo
  /\ UNCHANGED <<current, pool, kind, chain, fin, runs, failed, outcome, records>>

\* Mutation of PrepareRun: the error path forgets the lease.
MutPrepareRun(c) ==
  /\ pc[c] = "chain" /\ todo[c] # <<>>
  /\ \/ CallSucceeds(c) /\ UNCHANGED <<pc, want, holds>>
     \/ CallFails(c) /\ Goto(c, "over") /\ UNCHANGED leaseVars
  /\ UNCHANGED <<current, pool, kind, chain, fin, outcome, records>>

\* The next call of _start_freebuff_run_chain; an error closes the lease and
\* leaves the runs as they are.
PrepareRun(c) ==
  /\ pc[c] = "chain" /\ todo[c] # <<>>
  /\ \/ CallSucceeds(c) /\ UNCHANGED <<pc, want, holds>>
     \/ CallFails(c) /\ Goto(c, "over") /\ Lease!Return(c)
  /\ UNCHANGED <<current, pool, kind, chain, fin, outcome, records>>

\* The payload is ready: send it and collect the answer, or return a response
\* whose generator will send it.
SendChat(c) ==
  /\ pc[c] = "chain" /\ todo[c] = <<>>
  /\ Goto(c, IF kind[c] \in {"collect", "test"} THEN "collecting" ELSE "starting")
  /\ UNCHANGED <<want, holds, current, pool, kind, chain, todo, fin, runs,
                 failed, outcome, records>>

-----------------------------------------------------------------------------
(* Streaming                                                               *)

\* The server takes the generator's first step: into its try block, to the
\* answer of the upstream chat.
StartStream(c) ==
  /\ pc[c] = "starting"
  /\ Goto(c, "streaming")
  /\ UNCHANGED <<want, holds, current, pool, kind, chain, todo, fin, runs,
                 failed, outcome, records>>

\* Mutation of FinallyRecords: the generator does not look at `errored`.
MutFinallyRecords(c) == TRUE

\* Does the generator's finally block record the request?  The OpenAI stream's
\* does unless it recorded an error before, the Anthropic stream's always.
FinallyRecords(c) ==
  kind[c] = "openai" => outcome[c] # "failed"

\* Mutation of Finally: the finalizer is not scheduled.
MutFinally(c) ==
  /\ IF FinallyRecords(c) THEN Record(c, "success") ELSE UNCHANGED records
  /\ UNCHANGED <<fin, todo>>
  /\ Lease!Return(c)
  /\ Goto(c, "over")
  /\ UNCHANGED <<current, pool, kind, chain, runs, failed>>

\* The finally block: record, schedule the finalizer, close the lease.
Finally(c) ==
  /\ IF FinallyRecords(c) THEN Record(c, "success") ELSE UNCHANGED records
  /\ fin' = [fin EXCEPT ![c] = "pending"]
  /\ todo' = [todo EXCEPT ![c] = Finalization(chain[c])]
  /\ Lease!Return(c)
  /\ Goto(c, "over")
  /\ UNCHANGED <<current, pool, kind, chain, runs, failed>>

\* The upstream stream is over, it held a line that cannot be decoded, or the
\* generator was cancelled while it waited for a line: the client left.
StreamEnds(c) ==
  /\ pc[c] = "streaming"
  /\ \E o \in {"ok", "broken", "left"} : outcome' = [outcome EXCEPT ![c] = o]
  /\ Finally(c)

\* chat_events raised a CodebuffError, and the client is about to be told.
StreamFails(c) ==
  /\ pc[c] = "streaming"
  /\ outcome' = [outcome EXCEPT ![c] = "failed"]
  /\ IF kind[c] = "openai" THEN Record(c, "error") ELSE UNCHANGED records
  /\ Goto(c, "erroring")
  /\ UNCHANGED <<want, holds, current, pool, kind, chain, todo, fin, runs, failed>>

\* The error event is sent.
ErrorSent(c) ==
  /\ pc[c] = "erroring"
  /\ Finally(c)
  /\ UNCHANGED outcome

\* The client leaves while the generator is suspended at a yield; or before its
\* first step, and the finally block of a generator that never began is not run.
ClientLeaves(c) ==
  /\ \/ /\ pc[c] \in {"streaming", "erroring"}
        /\ outcome' = [outcome EXCEPT ![c] = IF @ = "open" THEN "left" ELSE @]
        /\ Goto(c, "abandoned")
     \/ /\ pc[c] = "starting"
        /\ Goto(c, "lost")
        /\ UNCHANGED outcome
  /\ UNCHANGED <<want, holds, current, pool, kind, chain, todo, fin, runs,
                 failed, records>>

\* The event loop closes the abandoned generator, which runs its finally.
CloseAbandoned(c) ==
  /\ pc[c] = "abandoned"
  /\ Finally(c)
  /\ UNCHANGED outcome

-----------------------------------------------------------------------------
(* Collecting, and the finalizer                                           *)

\* The upstream stream was collected, raised, or the task was cancelled:
\* finalize in the request.
CollectEnds(c) ==
  /\ pc[c] = "collecting"
  /\ \E o \in {"ok", "failed", "broken", "cancelled"} :
       outcome' = [outcome EXCEPT ![c] = o]
  /\ fin' = [fin EXCEPT ![c] = "pending"]
  /\ todo' = [todo EXCEPT ![c] = Finalization(chain[c])]
  /\ Goto(c, "closing")
  /\ UNCHANGED <<want, holds, current, pool, kind, chain, runs, failed, records>>

\* Mutation of CollectAnswers: the finalizer is not awaited.
MutCollectAnswers(c) ==
  /\ pc[c] = "closing" /\ kind[c] = "collect"
  /\ Record(c, IF outcome[c] = "ok" THEN "success" ELSE "error")
  /\ Lease!Return(c)
  /\ Goto(c, "over")
  /\ UNCHANGED <<current, pool, kind, chain, todo, fin, runs, failed, outcome>>

\* _finalize_run returned: record, answer, close the lease.  An answer that
\* JSONResponse cannot encode raises after its success was recorded, and is
\* recorded as an error too.  A cancelled task records nothing.
CollectAnswers(c) ==
  /\ pc[c] = "closing" /\ fin[c] = "over" /\ kind[c] = "collect"
  /\ \/ /\ outcome[c] # "cancelled"
        /\ Record(c, IF outcome[c] = "ok" THEN "success" ELSE "error")
        /\ UNCHANGED outcome
     \/ /\ outcome[c] = "ok"
        /\ records' = [records EXCEPT ![c] = @ \o <<"success", "error">>]
        /\ outcome' = [outcome EXCEPT ![c] = "unsent"]
     \/ /\ outcome[c] = "cancelled"
        /\ UNCHANGED <<records, outcome>>
  /\ Lease!Return(c)
  /\ Goto(c, "over")
  /\ UNCHANGED <<current, pool, kind, chain, todo, fin, runs, failed>>

\* The chat test tells the panel what came, and closes the lease; the test is
\* nobody's request and is not recorded.
TestAnswers(c) ==
  /\ pc[c] = "closing" /\ fin[c] = "over" /\ kind[c] = "test"
  /\ Lease!Return(c)
  /\ Goto(c, "over")
  /\ UNCHANGED <<current, pool, kind, chain, todo, fin, runs, failed, outcome, records>>

\* Mutation of FinalizeRun: a failed call is made again until it succeeds.
MutFinalizeRun(c) ==
  /\ fin[c] = "pending"
  /\ CallSucceeds(c)
  /\ fin' = [fin EXCEPT ![c] = IF todo'[c] = <<>> THEN "over" ELSE @]
  /\ UNCHANGED <<want, holds, current, pool, kind, chain, pc, outcome, records>>

\* The next call of _finalize_run_with_client; it gives up at the first error.
FinalizeRun(c) ==
  /\ fin[c] = "pending"
  /\ CallSucceeds(c) \/ CallFails(c)
  /\ fin' = [fin EXCEPT ![c] = IF todo'[c] = <<>> THEN "over" ELSE @]
  /\ UNCHANGED <<want, holds, current, pool, kind, chain, pc, outcome, records>>

\* The chat's task is cancelled, as a gateway that shuts down does.
\* CancelledError is no Exception: in acquire_session, and in the preparation
\* of both endpoints, nothing closes the lease.  The chat test and a collected
\* chat have a finally block that does, and a finalizer stops where it is.
Cancel(c) ==
  \/ /\ pc[c] = "waiting"
     /\ Lease!Refuse(c)
     /\ Goto(c, "over")
     /\ UNCHANGED <<current, pool, kind, chain, todo, fin, runs, failed, outcome, records>>
  \/ /\ pc[c] \in {"acquiring", "checks", "chain"}
     /\ IF kind[c] = "test" /\ pc[c] # "acquiring"
        THEN Lease!Return(c) /\ Goto(c, "over")
        ELSE UNCHANGED leaseVars /\ Goto(c, "lost")
     /\ todo' = [todo EXCEPT ![c] = <<>>]
     /\ failed' = failed \cup {c}
     /\ UNCHANGED <<current, pool, kind, chain, fin, runs, outcome, records>>
  \/ /\ fin[c] = "pending"
     /\ fin' = [fin EXCEPT ![c] = "over"]
     /\ todo' = [todo EXCEPT ![c] = <<>>]
     /\ failed' = failed \cup {c}
     /\ outcome' = [outcome EXCEPT ![c] = IF pc[c] = "closing" THEN "cancelled" ELSE @]
     /\ UNCHANGED <<want, holds, current, pool, kind, chain, pc, runs, records>>

\* _replace_accounts: a new pool, and the old one's clients are closed.
ReplacePool ==
  /\ current < MaxPool
  /\ current' = current + 1
  /\ UNCHANGED <<want, holds, pool, kind, chain, pc, todo, fin, runs, failed,
                 outcome, records>>

-----------------------------------------------------------------------------

\* A step of c's handler or generator that is due once the await before it is.
Proceed(c) ==
  \/ Answered(c) \/ SessionAcquired(c) \/ ChecksDone(c) \/ PrepareRun(c)
  \/ SendChat(c) \/ StartStream(c) \/ StreamEnds(c) \/ StreamFails(c) \/ ErrorSent(c)
  \/ CloseAbandoned(c) \/ CollectEnds(c) \/ CollectAnswers(c) \/ TestAnswers(c)

AllOver == \A c \in Chats : pc[c] \in {"over", "lost"} /\ fin[c] # "pending"

Next ==
  \/ \E c \in Chats :
       \/ Arrive(c) \/ Refuse(c) \/ Proceed(c) \/ ClientLeaves(c)
       \/ FinalizeRun(c) \/ Cancel(c)
  \/ ReplacePool
  \/ AllOver /\ UNCHANGED vars

SafeSpec == Init /\ [][Next]_vars

\* The pool answers a waiting chat within its deadline, and the event loop runs
\* what needs no answer of anybody.
Fairness ==
  \A c \in Chats :
    WF_vars(Answered(c) \/ SendChat(c) \/ CloseAbandoned(c)
            \/ CollectAnswers(c) \/ TestAnswers(c))

Spec == SafeSpec /\ Fairness

-----------------------------------------------------------------------------
(* Properties                                                              *)

Run == [state : {"none", "open", "finished"}, steps : Seq(1 .. 2),
        names : BOOLEAN, total : 0 .. 3]

\* The type of every variable.
TypeOK ==
  /\ want \subseteq Chats
  /\ holds \in [Chats -> Slots \cup {NoSlot}]
  /\ current \in Pools
  /\ pool \in [Chats -> Pools]
  /\ kind \in [Chats -> Kinds]
  /\ chain \in [Chats -> Chains]
  /\ pc \in [Chats -> PC]
  /\ \A c \in Chats : Len(todo[c]) <= 5
  /\ fin \in [Chats -> {"no", "pending", "over"}]
  /\ \A c \in Chats : runs[c].root \in Run /\ runs[c].kid \in Run
  /\ failed \subseteq Chats
  /\ outcome \in [Chats -> Outcomes]
  /\ records \in [Chats -> Seq({"success", "error"})]

\* A chat has an account of the pool it asked exactly while its handler or
\* generator is there to close it, and nobody else has it: no error, no
\* replaced pool and no client that leaves a running stream keeps one or gives
\* it back twice.  A chat that was lost keeps its account for ever: its client
\* left before the stream's first step, or its task was cancelled while the
\* chat was prepared.
LeaseCoversChat ==
  /\ \A c \in Chats : holds[c] # NoSlot <=> pc[c] \in Leased \cup {"lost"}
  /\ \A c \in Chats : holds[c] # NoSlot => holds[c][1] = pool[c]
  /\ \A c, d \in Chats : holds[c] = holds[d] /\ holds[c] # NoSlot => c = d

\* What the service is told of a chat's runs is a proper history whatever was
\* lost: steps numbered from 1 without a gap, none after the finish, a total of
\* one more than the steps, the child opened inside its parent and named and
\* outlived by it only once it is finished.
RunsWellFormed ==
  \A c \in Chats :
    /\ \A x \in {"root", "kid"} :
         LET run == runs[c][x] IN
         /\ run.steps = [i \in 1 .. Len(run.steps) |-> i]
         /\ run.steps # <<>> => run.state # "none"
         /\ run.state = "finished" => run.total = Len(run.steps) + 1
    /\ runs[c].kid.state # "none" => runs[c].root.state # "none"
    /\ runs[c].root.names \/ runs[c].root.state = "finished" =>
         runs[c].kid.state = "finished"

\* No run is forgotten: one that is open has its request or its finalizer at
\* work, or one of the calls for that chat failed or was cancelled, or the
\* chat was lost.
NoRunForgotten ==
  \A c \in Chats, x \in {"root", "kid"} :
    runs[c][x].state = "open" =>
      pc[c] \in Leased \cup {"lost"} \/ fin[c] = "pending" \/ c \in failed

\* A chat that reached the service is recorded once, when it is over; one that
\* did not, a test, or a cancelled collected chat is not.  An OpenAI stream or a
\* collected chat that failed with a CodebuffError is recorded as an error, one
\* that went well as a success.  The exception is a collected answer that could
\* not be encoded, which is recorded as both.
RecordedOnce ==
  \A c \in Chats :
    /\ \/ Len(records[c]) <= 1
       \/ outcome[c] = "unsent" /\ records[c] = <<"success", "error">>
    /\ pc[c] = "over" =>
         (records[c] # <<>> <=> outcome[c] \notin {"open", "cancelled"} /\ kind[c] # "test")
    /\ records[c] # <<>> /\ kind[c] # "anthropic" =>
         /\ outcome[c] = "failed" => records[c] = <<"error">>
         /\ outcome[c] = "ok" => records[c] = <<"success">>

\* The status of a request is "success" or "error" (usage.py:18): a chat whose
\* upstream stream failed is never a success.
FailureRecorded ==
  \A c \in Chats : outcome[c] = "failed" /\ records[c] # <<>> => records[c] = <<"error">>

\* Every upstream call ends, and a client reads what it is sent or leaves.  The
\* stealth transport times its calls out (codebuff.py:124-130); httpx with
\* read=None (codebuff.py:133-145) does not.
CallsReturn == \A c \in Chats : WF_vars(Proceed(c)) /\ WF_vars(FinalizeRun(c))

\* Where upstream calls end, a chat that asked for an account ends without one,
\* whatever happens to it: unless it was lost.
ChatEnds ==
  CallsReturn =>
    \A c \in Chats :
      pc[c] # "new" ~> (pc[c] = "over" /\ holds[c] = NoSlot) \/ pc[c] = "lost"

\* A collected or tested chat's account goes to the next chat only after its
\* runs were closed, or their closing failed or was cancelled.
CollectClosesFirst ==
  [][\A c \in Chats :
       kind[c] \in {"collect", "test"} /\ holds[c] # NoSlot /\ holds'[c] = NoSlot =>
         c \in failed' \/ runs[c].root.state = "none" \/ runs[c].root.state = "finished"]_vars

=============================================================================

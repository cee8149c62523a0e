# Freebuff2API in TLA+

Freebuff2API is a gateway: it serves OpenAI and Anthropic chat requests, and
answers them by way of a chat service it has one or more accounts with. This
directory holds TLA+ models of the part of it where things can go wrong in an
order nobody tested, model-checked by TLC, and proofs checked by TLAPS.

The scope is the gateway's correctness toward its clients and its operator:
accounts and sessions are shared without being mixed up, every request is
answered, recorded and cleaned up after, and what a client is sent is well
formed. How the gateway presents itself to the service (transport, headers,
network exit, pacing of accounts) is outside it.

## 1. Inventory

Everything runs on one asyncio event loop, in one process. Code between two
awaits is atomic; everything hard is what may happen at an await.

| Component (source) | State | Operations | Model |
|---|---|---|---|
| Account pool (`codebuff.py` 859-1017) | busy flag per account, round-robin pointer, condition variable | `acquire_session` (reserve, wait up to 30 s, 503), `release`, lease `aclose` | `AccountPool` |
| Session manager, one per account (`codebuff.py` 66-102, 676-856) | lock, cached session per model, the service's session | `acquire_session`, revalidate, adopt, delete, create, poll a queue, lease `aclose` | `SessionManager` |
| Chat endpoints (`app.py` 467-1141), chat test (`admin.py` 690-724) | a request's lease, its agent runs, its stream, its record | `chat_completions`, `anthropic_messages`, `chat_test`, generators, run chains, finalizer | `Gateway` |
| Anthropic event stream (`anthropic_compat.py` 395-810) | open content blocks, block numbers | `consume_chunk`, `finalize_events`, accumulator `add`, `final_response` | `AnthropicStream`, `ChatAnswer` |
| Admin panel: tokens and logins (`admin.py` 146-173, 405-639, `login_flow.py`) | settings, token list, `.env`, login sessions | save, add, update, delete a token; start, poll, commit, cancel a login | `LoginFlow`; what a new pool does to chats in `Gateway` |
| API keys (`usage_store.py` 100-188, `admin.py` 642-657, 766-854) | the key store, two entries of `.env` | authenticate, create, update, delete, toggle, save the single key, load | `ApiKeys` |
| Request records (`usage_store.py` 13-97) | ring of records, file | add, list, clear | `RequestRecords` |
| Settings (`config.py`) | `.env` | `write_env_values` | as a step that may fail, in `LoginFlow` and `ApiKeys` |
| Rest of the admin panel (`admin.py`) | the admin key | change it, overview, logs | not modelled, section 7 |
| OpenAI conversion (`openai_compat.py`) | accumulator | `sanitize_stream_chunk`, `add`, `final_response`; `normalize_chat_messages`, `build_upstream_payload` | `OpenAIStream`, `ChatAnswer`; `RequestConversion` |
| Anthropic request conversion (`anthropic_compat.py` 57-389) | tool ids seen so far | messages, blocks, system field, payload | `RequestConversion` |
| Upstream client (`codebuff.py` 152-673) | HTTP client | one method per endpoint | each call is a step of the modules above |
| Refresher, selection policy, transport, logging, page, scripts | | | not modelled, section 7 |

How they interact. A chat request asks the pool for an account; the pool marks
one busy and asks that account's session manager for a session of the chat's
model; the manager holds its lock until the chat's lease is closed. The chat
opens its agent runs, streams or collects the answer, records the request,
finishes the runs (in the background if it streamed) and closes the lease, which
frees the lock and the account and notifies one waiting request. A warm-up
acquires and closes leases of the session manager like a chat. The admin panel
may replace the pool at any moment; chats keep what they have.

What is hard, and what would be right:

* *Pool*: a newcomer overtakes the request that was just notified; a deadline
  fires on a request that was just notified; the session of a reserved account
  cannot be had; a lease is closed twice. Right: exclusive accounts, none lost,
  no wake-up lost, everyone answered, nobody refused while an account is idle.
* *Session manager*: any of its calls may fail before or after its effect;
  sessions expire, age and leave the queue on their own; another model's
  request must delete the session a chat might be using. Right: the lock is
  free if and only if nobody is in there, a lease is on the active session,
  a chat's session is left alone, every acquire ends.
* *Chat endpoints*: each call of the run chain may fail; the client may leave
  at any point, before the stream's first step too; the finalizer outlives the
  lease; the pool is replaced under the chat. Right: the lease covers the chat and
  ends with it, runs form a proper history and are not forgotten, one record per
  chat.
* *Answers*: text, reasoning and several tool calls interleave, and four pieces of
  code put them together, a stream and a collector per endpoint. Right: the
  events are those of one message, and all four clients are told the same, as
  far as their endpoint tells it at all.
* *Requests*: a tool id is used again in a later turn, a result comes without its
  call, the same messages are normalised twice. Right: each result answers the
  right call, what is sent on keeps its order and comes once, the system prompt's
  override is there once.
* *Login flow*: a poller, a browser and several tabs share a table of login
  sessions; a commit awaits the verification of its token in between. Right:
  a token is not lost or added twice, and the file, the settings and the
  pool agree, also when writing the file or building the pool fails.
* *Request records*: an append to the file fails or is torn; a clear empties the
  ring and then fails; restarts begin a new ring beside the old file. Right: the
  ring is the latest requests, as many as the limit says, and the file has what was
  written whole.
* *API keys*: a change is in memory before it is in the file, and what the file
  holds is not always what is read back. Right: what was saved survives a
  restart as it was, and a key does what the panel says of it.

The hazards, line by line, are in `PROJECT.json`.

## 2. Modules

| Module | What it is |
|---|---|
| `ExclusiveLease` | abstract: a resource is lent to one client at a time, waiting ends in a grant or a refusal |
| `AccountPool` | the pool; implements `ExclusiveLease` with the accounts as resources |
| `SessionManager` | one account's session manager; implements `ExclusiveLease` with its session as the one resource |
| `Gateway` | the chat endpoints and the chat test, composed with `ExclusiveLease` in place of the pool |
| `UpstreamChunks` | what the chunks of an upstream answer can be |
| `AnthropicStream` | the Anthropic event stream beside the accumulator of the non-streaming answer |
| `OpenAIStream` | the relayed chunks of the OpenAI stream beside its accumulator |
| `ChatAnswer` | both of them fed with the same chunks |
| `RequestConversion` | from a client's body to the messages sent upstream, for both endpoints |
| `RequestRecords` | the ring and the file of served requests, with restarts |
| `LoginFlow` | the admin panel's token list and browser logins, with restarts |
| `ApiKeys` | the keys clients call with: store, `.env`, restarts |
| `AccountPoolProofs`, `SessionManagerProofs`, `GatewayProofs`, `LoginFlowProofs`, `ApiKeysProofs`, `RequestRecordsProofs`, `ChatAnswerProofs`, `RequestConversionProofs` | the theorems |
| `MC*` | instances for TLC: constants in the `.cfg` files |

The composition is by contract. `Gateway` takes steps of `ExclusiveLease` where
it deals with the pool, and `AccountPool` is shown to take only such steps;
`SessionManager` appears in `Gateway` as the step `SessionAcquired`, which may
fail. What a module leaves to another is thus either a lease, or a call that
succeeds or fails. `ChatAnswer` composes by shared steps: a chunk is one step of
`AnthropicStream` and of `OpenAIStream` at once.

**Atomicity.** One action is the code between two awaits, or an upstream call
with the code that consumes its answer. An upstream call may fail without an
effect or after it took effect. Where a lock is never held across an await (the
pool's condition, the table of login sessions) it has no variable; where it is
(the session manager) it is `lock` and `lockQueue`.

**Exceptions.** Most of the code catches `CodebuffError` or `Exception`. An upstream
call may raise either a `CodebuffError` or something else (an answer that is no
JSON, an error of the stealth client's own, a closed client), and a task may be
cancelled at an await. `asyncio.CancelledError` is no `Exception`: it passes by the
handlers that give accounts and locks back. The code itself cancels only
pollers and, at shutdown, warm-ups (freebuff_unleash.py:474-486); the server cancels
requests when it stops. The models let any task be cancelled at any time and have
a step of its own for it (`Cancel`) wherever something is kept by it: a task "cancelled" in
`AccountPool` and `SessionManager`, a chat "lost" in `Gateway`.

**AccountPool.** `busy`, `nextIndex` are the pool's attributes; `waiters` is the
deque of the asyncio `Condition`, `notified` the requests whose future is done
but whose task has not run; `expired`, `pref`, `acct`, `pc` are locals of each
request. One pass of the loop of `_reserve_account` is one of `ReserveNow`,
`StartWaiting`, `WakeAndReserve`, `WakeAndWait`, `WakeAndRefuse`; `Timeout` is the
`TimeoutError` of `wait_for`. The selection in `_next_available_account` is
`Chooses`, the fallback through `nextIndex` included. `PassesWakeOn` is a
property of the Python version: CPython 3.13's `Condition.wait` notifies another
waiter when it is cancelled after its own notification, 3.11's does not. The
repository names both (`.python-version` and `Dockerfile`). The condition itself
is not code of the repository; it is modelled from how 859-1017 use it. A request
cancelled while it waits leaves the deque like one whose deadline passed (`GiveUp`);
one cancelled while its session is acquired keeps its account busy for ever.

**SessionManager.** `cache` is `_sessions`; `up` is the service's only session of
the account, with `known` as history: did an answer this manager stored name it.
`_ensure_session_locked` is the steps `Revalidate`/`NothingCached`, `Inspect`,
`Delete`, `Create`, `Poll`, in the order of the calls. `Revalidate` and `Inspect` go on
after a `CodebuffError`; each of the five has an exit by any other exception (`Raise`),
which for `Inspect` and `Delete` stands for the advertisement and streak calls after
it too. `Expire`, `Age` and
`Promote` are the service's own. That only this manager makes sessions of its
account is an assumption.

**Gateway.** One chat per name, of each of four kinds (the two endpoints'
streams, either endpoint's collected answer, and the admin panel's test, which is
collected too but not recorded) and each of two run chains.
`Refuse` is every answer given before an account is asked for. `todo` is what
is left of a fixed list of run calls: `Preparation` before the chat,
`Finalization` after it. `Finally` is the generator's `finally` block;
`fin` follows `_finalize_run_with_client`, which a stream leaves to a task of its
own. A client's departure is noticed at a yield (`ClientLeaves`), while a line is
awaited (`StreamEnds` with "left"), or before the server took the generator's first
step (`StartStream`): Python does not run the `finally` of a generator that never
began, and the chat is "lost" with its account. A generator left behind in the middle is
closed by the event loop (`CloseAbandoned`), which is external. `CollectAnswers` has
the answer that `JSONResponse` cannot encode, which raises behind the record of
its success and is recorded a second time.

**AnthropicStream, OpenAIStream, ChatAnswer.** The state is `AnthropicStreamState`'s,
`AnthropicCompletionAccumulator`'s and `CompletionAccumulator`'s; `out` and
`relayed` are what the two streaming clients were sent. A piece of text,
reasoning or tool arguments is the number of its chunk, so a lost, repeated or
reordered piece shows. A chunk has a content, deltas of several tools, reasoning and
a finish reason, any of them at once; contents and arguments may be null or empty.
`Cut` is a stream that ends without `[DONE]`, because the upstream failed, of which
both clients are sent an error event, or because it just closed: the Anthropic
client gets no `message_stop` then. `CollectTool` keeps null arguments of a new call as
they are, as the code does (anthropic_compat.py:443-465): more arguments for the call
are then `None + str`, and the collected answer is a 500 (`collected.failed`).

**RequestConversion.** `ConvertMessage` is one turn of the loop of
`anthropic_to_openai_messages` with `callOf` as its dictionary from the client's tool
ids to minted ones; `NormalizeBody` and `BuildUpstreamPayload` are the two
normalisations an OpenAI body goes through. A piece of content is known by its
place in the body, which is what the properties follow. Blocks are of the types
the code tells apart: text, media (images and documents in base64), links (images by
URL, which become image parts without data), others (dropped: documents
that are not base64), tool uses, and results, of which only the text is kept
(anthropic_compat.py:249-257).

**RequestRecords.** `records` and `nextId` are the store's; `file` is the lines of
the JSONL file. An append is whole, missing or torn: the errors are swallowed and
the line after a torn one is glued to it. `limit` is the ring's size as
`FREEBUFF_MAX_REQUEST_RECORDS` had it at the start: any integer, which Python's slices
read as "keep all" if it is 0 and "keep none" if it is negative. `Clear` empties the ring before it empties
the file, which may raise. The store never reads its file, so `Restart` begins
with an empty ring at id 1.

**LoginFlow.** `tokens`, `pool`, `file` are the settings, the pool's tokens and
`.env`. A save writes the file first, then builds the pool, then sets both: if the
write raises nothing changes, and if the pool does (httpx refuses an account's
proxy URL, and which account has it goes by its place in the list) the file has the
new list and settings and pool the old one (`ahead`). A login
session's age is counted in periods of five minutes: a poller polls for one
(`PollLimit`), a session is kept for two (`Ttl`), untouched. `Commit` reads the
token and awaits its verification; `AddVerified` and `AlreadyInPool` decide on
the list as it is afterwards; `Committed` pops the session once the old pool is
closed. `Restart` may come at any point; because `write_env_values` renames a
complete file into place, the file found is the one left or one being saved.
The fallback to another variable when `FREEBUFF_TOKEN` is empty, and the
serverless deployment, which saves nothing, are not in it.

**ApiKeys.** `keys` is the store's dict as a list of records, since the first
match authenticates; `file` and `fallback` are the two entries of `.env`, the
second of which always equals the settings'. A handler is one step, `Change`:
the store is changed, then the file is written or the write raises. `Restart`
loads; its conversion is not the identity: `CutNames` are names with a " #" in
them, at which python-dotenv cuts the unquoted line, so that the list is no JSON
any more and is passed over (usage_store.py:124). That the environment holds no
older value when the process starts is an assumption.

## 3. Runs

| Run | Bounds | States (distinct) | Time | Shows |
|---|---|---|---|---|
| `pool` | 2 accounts, 4 requests, any preference | 247,962 | 65 s | exclusive accounts, no lost wake-up, everyone answered, accounts return where calls end, implements `ExclusiveLease` |
| `pool_py311` | 1 account, 4 requests, Python 3.11 | | 2 s | *violation*: a refusal while an account is idle |
| `session` | 3 tasks, 2 models, 3 new sessions, 1 poll | 361,938 | 40 s | lock, cache, what is handed out, chats left alone, acquires end where calls do, implements `ExclusiveLease` |
| `gateway` | 2 chats, 1 account, 1 replacement | 1,141,202 | 80 s | lease covers chat, run histories, records, chats end where calls do |
| `gateway_record` | 1 chat | | 2 s | *violation*: a failed stream recorded as a success |
| `anthropic_stream` | 2 tools, 2 finish reasons, 3 chunks of 2 parts | 2,310,517 | 50 s | well-formed messages; the four clients are told the same |
| `login_flow` | 2 sessions, 2 commits, 2 tokens, 3 entries | 167,128 | 35 s | commits, pollers, stores, logins kept |
| `api_keys` | 2 names, one of them cut, 2 keys | 64,908 | 4 s | saved keys survive a restart |
| `request_conversion` | 2 tool ids, 3 messages of 2 blocks, 5 blocks in all | 1,458,376 | 55 s | results answer their calls, what is sent on in order, override once |
| `request_records` | limits of -1, 0 and 2, 6 requests, 2 restarts | 983,889 | 7 s | ring is the latest requests, file keeps the sound lines |
| `api_keys_blank` | the same as `api_keys` | | 1 s | *violation*: a key with no models picked may use none |
| `api_keys_settings` | the same | | 1 s | *violation*: a saved `FREEBUFF_API_KEY` is not accepted |

Why the bounds are enough to be interesting. *Pool*: a lost wake-up needs a
holder, a notified waiter, a newcomer that overtakes it and a second waiter that
is left asleep: four requests. Two accounts make the preferred and the
round-robin choice differ and the pointer wrap. *Session*: the lock needs an
owner and two waiters for its order to matter; two models for one to evict the
other; three new sessions for a cached id to be outlived twice. *Gateway*: two
chats compete for one account, each of the four kinds and two chains, with one
replacement of the pool that finds them at any step. *Stream*: three chunks of two
parts hold text, a tool and text again, two tools in either order and a second
mention of the first, null arguments and the piece after them, a finish
reason beside content, or two finish reasons, one of them the code maps to a stop
reason under two names. *Requests*: three messages hold two uses of
one tool id and a result after each, or a result before any use. *Records*: six
requests make a ring of two overflow in more than one process and leave torn
lines in front of sound ones, and each restart may bring another limit. *Login*: two commits for one token, two sessions yielding the same
token, a list changed while a commit waits, and two sessions sharing the
prunings. *Keys*: two records in either order, with the same key or different
ones, one of them the "default" that the fallback makes too.

An answer and a request come to an end, so `anthropic_stream` and
`request_conversion` do not check deadlock. Symmetry is used in `login_flow` and
`request_conversion`, which have no liveness property.

The four violations are disagreements between the code and what the repository
says of it:

* `pool_py311`. `asyncio.wait_for(condition.wait(), remaining)`
  (codebuff.py:1002) on Python 3.11: a request whose deadline passes in the
  moment it was notified takes the notification with it. The waiter behind it
  sleeps on beside an idle account until its own deadline, and is then sent "all
  N accounts busy". The `pool` run shows the same code correct on 3.13.
* `gateway_record`. `_stream_anthropic_events` records "success" in its `finally`
  (app.py:1099) also after it told the client of an upstream error; the OpenAI
  stream (app.py:657) and both collecting endpoints record "error", and the
  admin panel counts the two.
* `api_keys_blank`. The panel's form for a key says "blank = all"
  (index.html:476) and sends the empty list it starts with; `allows_model`
  (usage.py:51-54) finds neither "*" nor the model in it, and every request with
  that key is answered 403.
* `api_keys_settings`. Saving `FREEBUFF_API_KEY` in a running gateway
  (admin.py:642-657) does not reach the key store, so the 503 that asks for it
  (app.py:229) goes on, or the old key stays valid, until a restart.

Every property that holds is also confronted with a mutated definition (`Mut...` in the
modules: a plausible bug) that must violate it.

## 4. Fairness

What the code guarantees and what it only does where its calls end are kept apart.
The specifications assume the event loop and nothing else:

* *Pool*: weak fairness of a woken task and of timers. The event loop runs every
  ready task and fires every timer. The task's three alternatives on waking are
  fair as one action: nobody promises that it finds an account. On this alone,
  every waiting request is served or refused (`WaitersAnswered`).
* *Session manager*: weak fairness of the head of the lock's queue. The service need
  not ever expire a session or promote one from its queue.
* *Gateway*: weak fairness of the pool's answer, which comes within its deadline, and of
  the steps that wait for nobody. No client has to ask or to leave, nobody has to
  replace the pool.

That upstream calls end is no property of the code. The stealth transport gives them a
timeout (codebuff.py:124-130), but httpx is used with `read=None` where
`FREEBUFF_STEALTH_TLS=false` or the stealth client cannot be built
(codebuff.py:133-145), and a service that stalls then keeps the account, the lock
and the chat for ever. It is therefore a premise of the three properties that need it,
`CallsReturn => ...` in `AccountsReturn`, `AcquireEnds` and `ChatEnds`, and they say what
becomes of an account, a lock or a chat when calls do end. Each has the exceptions the
code has: a task cancelled with the account or the lock in its hands, a chat
that was lost.

The other modules have safety properties only and assume no fairness.

## 5. Proofs

The theorems hold for every value of the constants that satisfies the modules'
named assumptions: a pool has at least one account, requests are finitely many,
"none" is not a name, bounds are natural numbers, the limits of the ring of records
are integers, and a poller's limit is at most the time a login session is kept.

* `AccountPoolProofs`. The inductive invariant is the type, the deque
  (`DequeOK`: waiting requests are in the deque or notified, once), `BusyIffHeld`,
  and that a holder knows its account (`HoldersHaveAccounts`). A step relies on
  the deque to know which future it removes, on `BusyIffHeld` to know that the
  account it frees has no other holder. A request cancelled while its session is acquired
counts as the holder of an account it will never give back.
  From it follow `TypeCorrect`, `DequeCorrect`, `LeaseExclusive` and
  `PoolImplementsLease`, for both values of `PassesWakeOn`. `WakeupsKept` and
  `RefusalsJustified` hold under `PassesWakeOn`; the argument counts: an account
  that becomes free brings a notification with it or finds no waiter, and a
  notification is used up only together with a free account, or when there is
  none, or is passed on.
* `SessionManagerProofs`. Inductive: control (`ControlOK`), data (`DataOK`),
  `LockIffOwner`, `CacheAgrees`, and `QueuedUnknown`, which says that a session in
  the service's queue was never stored; without it a promotion could make a
  known session disagree with the cache. A task that was cancelled with the lock is
still its owner in them: `LockOwned` says who owns the lock, not that it is freed. `LeaseOnActiveSession` and
  `ChatLeftAlone` are action properties: the first goes through the three steps
  that hand out a session, the second uses that only the lock's owner takes the
  others. `ManagerImplementsLease` maps each step to a step of
  `ExclusiveLease` or a stutter.
* `GatewayProofs`. What makes the run properties hard to prove is that each call
  may fail and the calls left to make are a sequence. The proof writes the whole
  life of a chat's runs as one `Script` of calls and says once what the first `n` of
  them make (`RootAt`, `KidAt`). Inductive, per chat: its runs are those after `n`
  calls for some `n`, and `PhaseOK` ties `n` and what is left of `todo` to the step
  the chat and its finalizer are at (`Progress`); the records it has are those
  of its step (`RecordsOK`); and it has a lease exactly while it needs one
  or was lost with it (`LeaseCoversChat`). A step then moves `n` by one or leaves it. `RunHistories` is a
  fact about `RootAt` and `KidAt` for every `n`; `RunsRemembered` reads off that only
  `n = 0` and the whole script have no open run.
* `RequestRecordsProofs`. Inductive: type, `Counted` (ids and requests advance
  together since the last start or clear) and `RingIsLatest` itself. The lemma is
  that cutting an appended ring keeps the latest, which is proved for a positive limit,
  for 0 and for a negative one apart. `FileIsSound` needs
  that the history of the appends tells whether the file ends in a torn line
  (`midLine <=> Pending(served + 1)` in `FileInv`); the lemmas `HistoryGrows` and
  `LinesAfterAdd` say what one append changes of the history and of the file.
* `LoginFlowProofs`. Inductive: the token stores agree (`TokensOK`: settings and
  pool always, the file unless it is ahead), the
  table is in order (`TableInv`), a session being committed has no poller
  (`CommittedIsOver`). The heart is `PollerYoung`: a pending session is no older
  than its poller, which is why pruning, which goes by `Ttl`, never takes a
  session from under a poller, which goes by `PollLimit`. It is the proof that
  needs `PollLimit <= Ttl`.
* `ApiKeysProofs`. Inductive: a saved list is the one in the file, unless the
  gateway started from the fallback and saved nothing since (`SavedInFile`), and
  the file has a list the store once had (`FileOK`). The lemmas say that
  appending, removing and replacing a record keep names unique.
* `ChatAnswerProofs`. A chunk is folded into both streams and both accumulators
  within one step, so the proof follows the events of a chunk one at a time: what
  holds of the history, the state and the accumulator before an event holds after
  it (`Running`). Inductive are the types; `Agrees` and `Told`, by which the two
  accumulators hold what the OpenAI stream's client was sent; and, until `[DONE]`,
  `Flow`, `Settled` and `Matches`, which tie the blocks of the Anthropic stream's
  state to the events sent, and those, block for block, to what is collected. The code's
  collector may fail on null arguments, so they are stated of a collector that never does
  (`Joins`), and `CollectRuns` follows the code's beside it: until it fails it has the
  same, and it fails exactly at a piece for a call in `NullsKnown`, which is where
  `BrokenCalls` of `SameAnswer` comes from.
  After `[DONE]`, `Ended` has the blocks balanced. `BlocksBalanced` needs
  that the blocks still open can be stopped in the order of their numbers, that
  is, that any finite set of numbers has an ascending sequence. `AnsweredAlike`
  puts the two streams' results together.
* `RequestConversionProofs`. Three arguments, over bodies of any length.
  `SentAsOrdered`: what is selected from a list of messages is the selections from
  its parts, put together (`FlattenIsLast` and the lemmas after it), so what the
  messages send of a body is a relation, `Sends`, that adds up as the body grows
  (`SendsMore`) and that the two normalisations leave alone.
  `ResultsAnswered`: inductive is `Linked`, that the minted ids are numbered
  (`Numbered`), that no two calls have the same one (`Distinct`), that the dictionary
  has for each of the client's ids the call of its latest use (`Known`), and that
  each result already converted is answered (`Answered`). Reusing an id moves the
  dictionary on and must leave the earlier results alone (`StillAnswered`).
  `OverrideIsOnce`: `Shaped` says that the override is never anywhere but first in a
  system message. Without it the second normalisation, which looks only at
  the start, could put it there again.

Data of any length is reasoned about in one way in the last two. The library's
induction theorems take an operator as their parameter and cannot be used;
the lemmas `Induction` and `SequenceInduction` state induction over a *set* of
numbers or of sequences instead, and follow from the order on the natural numbers
being well founded. A lemma then first defines the set of those it holds for. That a
recursively defined function is what its equation says follows in the same way.

## 6. What is only model-checked

Liveness: `WaitersAnswered`, `AccountsReturn`, `AcquireEnds` and `ChatEnds` rest on
fairness, assumed or as their premise, which the proof system does not handle. The
TLC runs check them within their bounds. Every invariant and every safety action property of the runs that
hold, and both refinements, are stated by a theorem of section 5.

## 7. What is not modelled

* The background refresher (its effect on a session manager is a task that
  acquires and closes a lease) and the policy that computes a preferred account
  (`AccountPool` allows any). Both are about how accounts are used toward the
  service, which is outside this project's scope, as are transport, headers and
  network exit.
* The model table, logging, the static admin page, the scripts and the
  deployment files: constants, formatting, or code of another process.
* Of requests and answers: what is copied or renamed one to one (parameters, tools,
  `tool_choice`, stop sequences, token counts, names).
* Of the admin panel: changing the admin key, which is one assignment and one
  write, and the pages that only read. Of the records: `list` and `stats`, which
  only read the ring.
* The advertisement requests and their cache, for the same reason as the
  refresher's policy.

Met while reading. No text of the repository says what is right, so these are no
findings; the models have the behaviour, and the properties name it as an exception:

* A client that leaves between the handler's return and the generator's first step costs the
  gateway an account and its session lock until a restart (`LeaseCoversChat`).
* So does a task cancelled while it acquires a session or prepares a chat; it happens
  when the gateway shuts down anyway.
* Without a read timeout, a service that stalls does the same (section 4).
* A collected Anthropic answer fails on a tool call whose first arguments are null, the
  streamed one and the OpenAI endpoint's do not (`SameAnswer`).
* An answer that cannot be encoded is recorded as a success and as an error
  (`RecordedOnce`).
* Images in tool results, and documents that are not base64, are dropped without a word, and
  an image given by URL is sent without its data (`SentInOrder`).
* A list of tokens whose pool cannot be built is in `.env` although the panel reports an
  error, and the next start fails on it until the proxy URL is corrected
  (`StoresAgree`).
* With `FREEBUFF_MAX_REQUEST_RECORDS=0` the ring is never cut (`RingIsLatest`).

In no model: a cursor `since_id` that a page kept from before a restart is ahead of the new
ids, which begin at 1; records are written to a file that nothing reads.

## 8. Plan

What would add most next, in this order:

1. `LoginFlow`: the poller's and the verification's failures as outcomes of their
   own, to tell a refused token from a service that did not answer.
2. `RequestConversion`: `tool_choice` and the stop sequences, once the repository
   says what the upstream makes of them.
3. A stronger statement of what `Gateway` leaves to `SessionManager`: its step
   `SessionAcquired` may fail at will, and that the manager takes no longer than
   its calls is only known from the `session` run's liveness.

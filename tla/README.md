# Verification of the TTS platform

TLA+ models of the text-to-speech platform in `src/`, checked with TLC on small
instances and, where the prover reaches, proved with TLAPS for all of them.

## 1. The system

A Go API (`src/api`) takes text over HTTP or WebSocket, checks a prepaid wallet,
takes one of a fixed number of synthesis slots, gets PCM chunks over gRPC from a
Python inference server (`src/inference`) and hands them to the client. What was
delivered is accumulated per request and published on NATS; a metering service
(`src/metering`) writes it to Postgres and debits the wallet. Balances are cached
in Valkey and in each API process.

| Component | State | Operations | Correct when |
|---|---|---|---|
| Coalescer (`api/internal/billing`) | window, seq per request | AddPCM, Flush | published + window = delivered |
| Metering consumer (`metering/internal/consumer`) | pending map; rows in Postgres | callback, tick, debitUser | each event debited at most once, never without its usage row, eventually all of them |
| Wallet cache (`api/internal/cache`) | L1 per replica, L2 in Valkey | Get, Refresh, Invalidate | staleness bounded; coherent when debits stop |
| Synthesis limiter (`api/internal/synthlimit`) | a buffered channel | Acquire, Release | one token per running synthesis; nobody starves while slots come free |
| HTTP handlers (`api/internal/handler/server.go`) | budget per request, `tts_jobs` row | StreamTTS, CreateAsyncTTS, runAsyncJob | no request goes past the credit and what its balance did not show; a job ends, once, as what it is |
| Live handler (`api/internal/ws`) | budget, utterance, coalescer shared by two goroutines | ServeHTTP and its receiver | bills what it wrote before the final flush; stops when told; comes down with its client |
| Inference service (`inference/server.py`) | buffered text | Synthesize, SynthesizeLive | chunks, then one marker per phrase |
| Rate limiter (`api/internal/ratelimit`, `handler/rate_limit.go`) | a counter per user, window and bucket; overrides in Postgres with a copy in Valkey | Allow, Effective, SetOverride, ClearOverride | never more than the cap per bucket, no refusal without a full bucket; a replaced override goes out of use |
| Accounts (`api/internal/auth`, handlers in `server.go`) | users, wallets, api_keys, usage_events | Register, login, key handlers, BearerMiddleware, GetWallet, ListUsage, EnsureDefaultUser | who is answered 201 has a whole account; a revoked key stays out; keys are their owner's business |
| Decoding pipeline (`inference/pipeline`) | frame buffer; decoder thread and audio queue | tokens_decoder, tokens_decoder_sync | what is heard stands in its place; every stream ends |
| Token backends (`inference/backends`) | token queue per stream, one event loop | make_token_generator | no stream holds up the others |
| Web client (`web/src`) | ring buffer, socket | player, live panel | plays what was received, in order |

How they interact: handlers *call* the wallet cache and the limiter; the
coalescer *publishes* to the consumer; the consumer *updates* the wallet row and
*deletes* the L2 snapshot the cache reads; a stream *re-reads* the balance now
and then. Hard behaviour: no statement of debitUser is in a transaction and no
error is retried; loads race invalidations; budgets are local to a request; the
two goroutines of a live session share variables without a common lock; limits
are read, stored and counted in separate round trips; registration and seeding
are several statements without a transaction; the coroutines of all streams share
an event loop on which they make blocking calls.
`PROJECT.json` lists the hazards line by line.

## 2. The modules

| Module | Models | Proofs |
|---|---|---|
| `Ledger` | abstract: deliver makes a user owe, charge takes what is owed and unpaid, in one step; `Overcharge` names what is not allowed | |
| `Billing` | coalescer, NATS, consumers, Postgres; implements `Ledger` | `BillingProofs` |
| `WalletCache` | one user's wallet in Postgres, Valkey and L1s, with time | `WalletCacheProofs` |
| `Synthesis` | limiter, streams, asynchronous jobs, and the slots and bills of live sessions | `SynthesisProofs` |
| `LiveSession` | one WebSocket session and SynthesizeLive | `LiveSessionProofs` |
| `RateLimit` | one user's limits and counters, the middleware and the operators' endpoints | `RateLimitProofs` |
| `Accounts` | the tables of users, wallets, keys and usage; authentication; seeding at start-up | `AccountsProofs` |
| `FrameDecoder` | how numbered tokens become frames and windows | `FrameDecoderProofs` |
| `TokenBridge` | event loop, token queue, decoder thread, audio queue, gRPC handler | `TokenBridgeProofs` |

The modules whose names begin with `MC` give the constants values for TLC.
Definitions marked "Mutant of ..." are deliberate bugs; no specification uses
them. Each property was seen to fail with one of them.

### Billing

State: per request the coalescer's `window` and `seq`; the messages on the `bus`;
per consumer the `pending` queue, the `batch` flush took from it, and where its
goroutine stands (`pc`, `debtor`, `seen`, `totalCost`); the rows `usage`,
`balance`, `txns`. One action per step that can fail or be interleaved: AddPCM,
Flush (both with FlushLocked inside), OnMessage, Tick (the swap under the lock),
DebitUser (the next user of the map), MeterEvent (price, cost and INSERT),
DebitWallet, InsertTransaction, EndFlush. MeterError and DebitError are the error
returns; the statement may have taken effect. Faults: Lose, Duplicate, Kill,
Crash. Whether the interval has passed is a free choice. A request of `Live` is a
live session: nobody waits for its receiver, so that AddPCM stays possible after
the handler's final Flush until ReceiverReturns (status `flushed`), and what it adds
then stays in the window unless the interval publishes it. History variables
(`delivered`, `late`, `sent`, `owed`, `charged`, `debited`) serve the properties and
the bounds only; `owed` grows with deliveries alone, never with a repeated message.

Abstracted: money is an integer (a second costs `PricePerMinute` units); a
queue's order is dropped (only the reference id of a transaction row depends on
it); an unparsable message counts as lost.

### WalletCache

A balance is the number of debits behind it. Every round trip is an action: GET,
SELECT, SET, DEL, storing in L1. Entries carry an age; `Tick` ages and expires
them. `OpTicks` bounds the time a process sits on a value between two round
trips; without such a bound no staleness bound exists. A `Cell` is nothing or one
snapshot younger than the TTL. `since` remembers how long
each balance has been superseded. Each replica has one load under way at most
(singleflight); a Refresh runs beside it, as it does not go through groupcache.
A Refresh deletes the snapshot and then loads, and the load may find the older
balance another load stored in between; the model has this, and the bounds hold
for it.

### Synthesis

A request goes through `arrive, waiting, (mark,) call, open, (refresh,) finish,
ended`. Refuse collects the error responses before a slot is asked for. TakeChunk is
the callback of CopyAudioStream when it returns nil, RefuseChunk when it returns
an error. Streams stop at `budget <= 0`, jobs at `budget < 0`, as in the code. A
failed Refresh yields a zero snapshot, hence budget zero; the price becomes zero
too, which the model does not show as the stream ends with the next chunk either
way. Every balance comes through the wallet cache: Admit and Refresh take the
balance after any of the totals of debits there have been (`shown`), the current one
or an earlier one; how much earlier is WalletCache's subject. `lead` is the most an
account had been billed and a balance the request read did not show, because the
debit was still to come or the snapshot was old: the over-delivery that asynchronous
settlement and caching make unavoidable. The limit is one of each request:
concurrent requests of an account each take the whole balance as their budget, so n
of them may together deliver n times the credit, and the wallet, which stops at
zero, never sees the difference.

A live session takes a slot of the same limiter (main hands both servers one) and
keeps it until its client leaves (Hangup); LiveChunk bills to the same account. Its
budget is LiveSession's subject.

### LiveSession

Two program counters, `mpc` for the handler and its read loop, `rpc` for the
receiver. `budget -= cost` is two steps, RecvChunk reads and Debit writes, since
the variable has no lock. `utt` remembers for which phrase it was made and whose
chunks it counted. The session's context ends when the handler returns, which
breaks the inference stream. Chunks cost one unit. `patient`
is chosen at the start: whether this client waits for utterance_done before its
next phrase (LivePanel does not). Messages that are ignored
(malformed, empty, other types) change only the voice and are left out, and so
are metrics. `late` counts the chunks the receiver adds after the final flush
(`Flushed`): BillingTracksDelivery says that those, and no others, may be left in a
window nobody publishes. Two behaviours of the code are part of the model without a
property against them: there is one utterance record, so phrases in flight
together are counted as one; and a refresh of the budget between the read and the
write of `budget -= cost` is lost.

### RateLimit

One user. `row` is the user_rate_limits row or NoRow, `cached` the copy in Valkey
with its expiry, `count[w][b]` and `expires[w][b]` the counter of bucket b of
window w. Processes are requests (the middleware: Effective, then Allow), readers
(GET of the limit) and operators (PUT, DELETE); each carries the configuration it
read (`cfg`), the time it noted (`stamp`) and what its INCRs returned (`ticket`).
Get, Select, StoreCopy are Effective; Stamp, Incr (one per window, as another
client's commands may come between those of a pipeline) and Decide are Allow;
SetOverride and CacheOverride, ClearOverride and DelCopy the operators' calls. Every
command may fail where the code looks at the error (Fail, the second and third
disjuncts of SetOverride and ClearOverride) and where it does not (StoreCopy,
DelCopy). `held` counts the ticks a process has held a value; `OpTicks` bounds it,
and the assumption that an expiry exceeds the window by at least that much is
what makes the caps hold: the code's expiries are twice the windows.

Abstracted: the number of windows is a parameter; time is in ticks; a bucket is
the quotient of the time by the window's length, as in the code.

### Accounts

State: the tables `users` (password by name), `wallets`, `owner` and `live` (the
api_keys rows and whether revoked_at is NULL), `usage` (rows per name); per replica
where it is in main (`boot`); per request a record `call` with its place, operation,
account, presented key and answer. A statement is a step: Register,
RegisterWallet and CreateAPIKey are RegisterUser; Login and CreateAPIKey are
LoginUser; Send and Authorize are BearerMiddleware, followed by CreateAPIKey,
ListAPIKeys, RevokeAPIKey, GetWallet or CountUsage and PageUsage. SeedSelect to
SeedConflict are EnsureDefaultUser; Restart is a process that stops or fails there.
A statement that fails may have taken effect. An error while the rows of a usage page
are read ends it like the last row does (PageCut, marked by `cut`), as ListUsage
never asks `rows.Err()`. `secrets` remembers which keys
somebody can know, `late` that a key was revoked before the request was sent.

Abstracted: a password stands for its hash, a key for its hash and prefix; names
are the primary key; whether the request was limited or its SELECT failed is a free
choice in Authorize and Login. Logout clears a cookie in the browser and is not an action.

### FrameDecoder

The tokens of a stream arrive in order, `made` of them so far; a token is its code
(0 to Base - 1) and its place in the frame, which the stream's position gives.
TokenId is turn_token_into_id, which takes the place off according to how many
tokens were accepted (`count`); Accepts is `token > 0`, Latest is `buffer[-28:]`,
InRange the test of convert_to_audio, Due the condition that a window is decoded.
End is the final decode of an incomplete frame. `out` is `count` when a window was
last decoded; `clean` counts the tokens since the last zero. Tokens without audio
do not change anything and are left out, and so is what SNAC makes of a window.

### TokenBridge

For every stream: a coroutine of `_produce` (`coro`: the item it will put next),
the token `queue`, the decoder thread (`decoder`), the `audio` queue and the gRPC
handler (`reader`). `loop` is the coroutine the one event loop is running: between
Resume and Put it is inside `q.put`, and no other coroutine moves. Resume is a
token, the end, a cancellation or an error of the engine; TakeToken, SkipToken and
TakeEnd are `_gen` and tokens_decoder, which accepts a token or skips it (an id that
is not above zero) and decodes the windows that are due, any of which may give None
(Decode); PutAudio, DecodeError and Finish are async_producer with its except
and finally clauses; Read, Leave and Collect the handler, its cancellation, and
the generator's finally clause. Which tokens are skipped, which windows are silent
and what a chunk holds is FrameDecoder's subject, here a free choice; when a window is
due is not abstracted. `count` is the code's counter of accepted tokens, `silent`
counts the windows that gave nothing; `MaxLost` bounds both for TLC.

## 3. What is checked

Passing runs:

| Run | Instance | Shows |
|---|---|---|
| `billing_faults` | 2 accounts (own and default price), 2 requests of 2 and 1 seconds, 2 consumers; any two faults, at most one of them a repeated message | windows conserve audio; `txns <= debited <= usage` + repetitions, and usage rows never exceed what was delivered; debits backed by usage rows; no message debited twice; `Ledger` implemented but for repeated messages |
| `billing_settles` | the same requests, one of them a live session, no faults, fairness | everything delivered is finally in usage, wallet and transactions, but for what a live receiver added after the final flush |
| `wallet_reads` | 2 replicas, 1 delivery, TTL 2, 1 debit, Valkey failing, fairness | at most one snapshot per cell, none past its TTL; L2 less than TTL + OpTicks behind, L1 less than twice that; caches converge when debits stop |
| `synthesis_requests` | a stream, a job and a live session of one account, capacity 0 (becomes 1), balances of any age, a failed UPDATE, a stop, fairness | slots accounted, credit respected by each request, job life cycle, completed means whole, every accepted job ends if streams end and live clients leave |
| `live_session` | 2 phrases of up to 2 chunks, balance 2, broken streams, clients that wait and that do not, fairness | publishes what it wrote but for chunks added after the final flush, silent after exhaustion, right attribution for clients that wait, comes down |
| `rate_limits` | 2 requests, a reader, an operator; windows of 2 and 4 ticks, limits 1 (default) and 2; any command failing | no bucket over its cap; a refusal has a full bucket behind it; a replaced limit is used no longer than CacheTTL and two round trips; Retry-After leads out of the bucket |
| `accounts` | 2 replicas on an empty database, 2 names, 2 passwords, 3 requests, 4 keys, 2 failed statements or restarts, 3 usage rows, limit 1 and offset 1 | a 201 means a whole account; the default account is the seeded one; revoked keys stay out; only owners revoke keys; missing wallets are remains of faults; a usage page agrees with its total up to later rows, or was cut off by an error |
| `frames` | the frame and window of the code, ten frames, up to three zero codes anywhere | windows at frame boundaries are aligned; slips do not add up; the sound comes back |
| `token_bridge` | a short stream that may fail, break or be abandoned, a long one that may fail, a token skipped or a window silent in each, fairness | a stream that did not fail has had all its tokens taken and sends every due window that gives audio; every stream ends for its reader |

Runs that show a disagreement between code and documentation (the traces are
TLC's counterexamples; `findings` in `PROJECT.json` quotes both sides):

| Run | Disagreement |
|---|---|
| `billing_db_error` | one failed statement loses a user's events for good; money is not eventually consistent then |
| `synthesis_failed_job` | a failed job is billed for audio nobody can fetch |
| `bridge_abandoned` | a long stream whose reader goes away blocks the event loop that all streams share |

Bounds. Two of everything that can race (accounts, requests, consumers, replicas)
suffice for every pairwise interleaving; two faults, of every pair of kinds and at
every point, suffice for one to hit what the other left behind. TTL 2 lets a stale
value outlive one entry and be copied into another, which is what makes the L1
bound; one debit is enough as a value's lag is counted from the debit that
superseded it, and `StalenessTheorem` has the rest; LagCap only has to exceed the
bound. Two chunks of credit and four chunks of audio make a live session run dry in
the middle, with refreshes that restore some of it. Two requests and limits of one
and two fill a bucket, overfill it and meet a changed limit in between; four ticks
contain a boundary of both windows, and an entry in Valkey lives for one, so that
copies expire, are put back by a slow reader and expire again. Three requests let
two registrations of one name and a key's holder and revoker meet while the
replicas seed; with two faults, an orphaned row of one can meet a retry. A zero code
has its effect within a window and two frames; ten frames hold three such effects
and their overlaps, and with two codes per place a code is zero or not, which is all
that TokenId, Accepts and InRange tell apart. In the bridge every queue is smaller
than what passes through it, except that what is left of the short stream fits:
that is the difference between the passing run and `bridge_abandoned`; one token or
window lost is enough to put what was sent out of step with what was made. A live
session of one chunk and a stream and a job of two, over a credit of one chunk and a
half, make each kind hold the only slot while the others wait, and every read meet
balances from before and after a debit. Three usage rows at limit 1 and offset 1 make
a page empty, full and followed by more.

A repeated message. `src/README.md` calls billing idempotent (lines 179 and 251): the
key keeps one usage row, but `totalCost += cost` runs whether or not a row was
inserted, so a message that arrives twice is debited twice and the user is charged
beyond what was delivered. The code does not keep that promise by itself; it rests on
NATS core, which delivers at most once. The model allows repetitions and says exactly
what they do: `ImplementsLedger` allows an `Overcharge`, which is no step of the
ledger, to a user one of whose messages was repeated and to nobody else, and
`BooksInOrder` bounds it by the price of the repetitions.

Fairness. Billing: NATS hands over what it keeps and a consumer's ticker and
statements go on; no client is assumed to finish. WalletCache: time passes and
round trips end. Synthesis: goroutines run and a waiting Acquire is served when
slots keep being freed, since blocked senders of a Go channel queue in order (strong
fairness). Nothing is assumed to end an inference stream, for no handler sets a
deadline and `bridge_abandoned` shows one that never ends, nor to make a live client
leave; that both happen is the stated condition of JobsEnd (`StreamsEnd` there), and
without it the code lets an accepted job wait for ever. LiveSession: only the
two goroutines; nothing is asked of the client or of inference. TokenBridge:
threads run, a reader that has not gone away reads, and the event loop serves its
ready coroutines in turn while the engine makes progress on each (strong fairness
of Resume, as the loop is taken by others in between). RateLimit, Accounts and
FrameDecoder assume none; their properties are safety properties.

Met while modelling, besides the runs above. `src/README.md` line 197 says that
delivery stops near the credit limit, with an over-delivery bounded by the refresh
interval; the budget is one of each request, so n concurrent requests of an account
may each deliver the whole credit, and each of them what a cached balance leaves out
(CreditRespected has the bound the code gives). A chunk that the receiver of a live
session adds after the handler's final flush is heard and never billed. Live clients
hold synthesis slots for as long as they stay connected, after an
insufficient_balance too, and a stream that inference never ends holds its slot for
ever. An error while ListUsage reads its rows makes a short page with a 200. Skipped
tokens and windows that decode to None make a stream shorter without a sign for the
reader. An account whose wallet INSERT failed is answered 409, which
`api/openapi.yaml` describes as "Username taken", and has no wallet for good: no
later call makes one, nor does the next start when it is the default account
(WalletlessByFault counts them). A deleted override is in force until its copy
expires when a reader stores it after the DEL or the DEL fails (LimitsRecent has the
bound), while `deploy/postman/README.md` says that DELETE restores the defaults. A
refused request has been counted in all three windows. `limit` of ListUsage is
not held to the maximum of 200 the API description gives. A token shifted by
one place may have the id 4096, which passes the range test though codes end at 4095. An
error of the engine or the decoder ends the stream as if the utterance were complete.

## 4. What is proved

Every safety property the runs check, and that `Billing` moves as `Ledger` does but
for repeated messages, for every value of the constants that meets the modules'
ASSUMEs (any set of live sessions in `Billing` and `Synthesis`, any limit and offset in
`Accounts`, any number of lost tokens and windows in `TokenBridge`). Those say what the code's
configuration guarantees (positive lengths, prices that are natural numbers,
expiries longer than their windows); Billing and RateLimit also assume finitely many
requests, and Billing finitely many consumers, without which the sums and the
numbers they compare have no meaning. TLC agrees with the strengthenings named below
on instances of the runs' modules.

* **`BillingProofs`**: `TypeCorrect` (no wallet is negative), `DebitsBacked` and
  `NoDoubleDebit`. Neither of the last two is inductive: that a message is not
  debited again rests on its being in one place (bus, one consumer's pending, one
  batch, or debited), that it has a usage row of its amount on its key being fresh
  or repeated with the same seconds (else ON CONFLICT would keep another row), and
  both on everything in transit having been sent. `EventsOnce` says all this.
  `WindowTheorem`, `BooksTheorem` and `LedgerTheorem` compare sums. A lemma library
  shows, by induction over the subsets of a finite set with the property given as
  a set, that the fold the module uses does not depend on the order of its
  elements, and what adding, removing or changing a summand does. The books are
  proved in two halves: `ApiBooks` (what windows hold and what was sent make up what
  was delivered, with and without repetitions) and `ConsumerBooks` (one usage row
  per key; what a consumer has added up is the cost of the messages it has seen;
  debits are the cost of the charged messages; transaction rows come after their
  debit). For the refinement, what is charged and what is about to be charged are
  distinct messages that were sent; without a repetition among the user's messages
  they cost no more than what is owed, and each UPDATE is one Charge of the ledger;
  with one, it is a Charge or an Overcharge.
* **`WalletCacheProofs`**: `TypeCorrect` (at most one snapshot per cell, younger than
  its TTL), `StalenessTheorem`. The strengthening
  `AgesBounded` bounds the lag of a value by where it is and how long it has
  been there; a tick adds one to both sides.
* **`SynthesisProofs`**: `SlotsTheorem` and `TypeCorrect`, together, as a Release
  keeps the count natural only because its handler is counted. `CreditTheorem` from
  `BudgetBacked`: what a request took its account was billed, so a balance that leaves
  out some debits adds at least what it leaves out to the lead; what a request has
  taken and what is left of its budget never exceed the credit and the lead, and only
  a request with budget left takes another chunk. `WholeTheorem` and `LifecycleTheorem` from the relation of a job's place to
  its row and its outcome.
* **`LiveSessionProofs`**: `TypeCorrect`, `BillingTheorem`, `ExhaustedTheorem`,
  with `ReceiverOnce` (the receiver does not run before it is started, so that the
  window is empty, and has returned after exhaustion); the final flush empties the
  window, and after it only late chunks enter. `AttributionTheorem` from `OneAtATime`: a patient
  client has at most one phrase under way, all that waits in the queues belongs to
  it, its marker comes last and leaves them empty.
* **`RateLimitProofs`**: `TypeCorrect`; `CapTheorem` and `RecentTheorem`. The cap is
  not inductive: a counter expires and starts at one again. `Tickets` says that
  those counted in a bucket hold distinct tickets not above its counter, and that
  the counter outlives the times at which the bucket can still be counted (this uses
  that an expiry is at least the window and the time a stamp is held). Distinct
  tickets within the cap are no more than the cap. `CopiesRecent` bounds the age of
  every copy by where it is, as in WalletCache. `RefusalTheorem` needs the converse
  of the cap: every number up to a counter is somebody's ticket (`Numbered`), so a
  ticket above the limit has as many others below it. `RetryTheorem` is arithmetic:
  what is added to the stamp reaches the next quotient.
* **`AccountsProofs`**: `TypeCorrect`, `CreatedTheorem`, `SeededTheorem`,
  `RevokedOutTheorem` and `RevokedByOwnerTheorem` from one
  invariant: references between tables, what a replica past its INSERT has left
  (`Seeded`), and what the statements a request has made have left (`Backed`). The
  argument is that tables only grow (`Grows`), so what a request has left stays.
  `WalletlessTheorem`: the accounts without a wallet are finitely many
  (`FaultsCover`), and a step adds one at most and only with a fault. `PageTheorem`:
  between the two reads of ListUsage the rows only grow (`Paged`), and only PageCut
  answers with fewer than the page has.
* **`FrameDecoderProofs`**: `TypeCorrect`; `SlipTheorem` from `SlotShape`: the
  decoder expects the place that comes, the one before it, or the last one.
  `AlignedTheorem` from `BufferShape`: an id below Base was accepted in step, and
  the place of a buffered token is the remainder of its number. `RecoveryTheorem`
  from `Recovering`: every code other than zero brings a decoder out of step one
  token nearer (`Lag`, at most two frames), and one in step adds an id in range.
* **`TokenBridgeProofs`**: `TypeCorrect`, with the sizes of the queues, and
  `WholeTheorem`. The invariant says of each stream that tokens come first in its
  queue and are those made and not taken (`QueueShape`), that the end of its audio
  is put and read last (`AudioShape`), and that what was sent and what is queued
  are the windows due for the tokens accepted less the silent ones (`NothingLost`).

Only model-checked: liveness (EventuallySettled, EventuallyCoherent, JobsEnd,
SessionEnds, StreamsEnd), as the prover handles neither fairness nor ENABLED.

## 5. Plan

Done: billing, wallet cache, synthesis, live session, in the order in which money
is at stake; rate limits and accounts; frames and the token bridge; the proofs of
their safety properties. Left, in this order:

1. Safety halves of the liveness properties: what each wait is for stays possible
   (a job that has been accepted is always somebody's to finish, a session that is
   closing keeps a step to take).
2. `Platform`: Billing and WalletCache composed, for the delivery budget with
   the age of stale balances.
3. `PcmPlayer` and `LivePanel`: the client's ring buffer and socket.
4. `LongText`: splitting, batching and crossfade lengths as operators against a
   reference definition.

## 6. Not modelled

Generated code (OpenAPI, protobuf), configuration, metrics, static files, WAV
headers, deployment and load-test scripts have no protocol state. AdminMiddleware
compares a configured key. The llama.cpp backend reads an HTTP stream in the decoder
thread and shares nothing but a counter under a lock. Long text is character and
sample arithmetic around a sequence of streams. The neural models themselves are
outside the reach of a model checker. Concurrent writers on
one WebSocket connection (both goroutines of a session write) end in undefined
behaviour of a library and are listed as a hazard only.

------------------------------ MODULE Synthesis -----------------------------
(***************************************************************************)
(* The three ways to synthesize on one API process: StreamTTS and the      *)
(* asynchronous job (CreateAsyncTTS, runAsyncJob) of                       *)
(* api/internal/handler/server.go and the live session of live.go, which   *)
(* share the synthesis slots (api/internal/synthlimit).                    *)
(*                                                                         *)
(* A request is admitted when the balance read is positive, waits for a    *)
(* slot, opens the inference stream and takes chunks from it against a     *)
(* local budget; what it takes is billed asynchronously (Billing), and a   *)
(* stream re-reads the balance now and then.  Every read goes through the  *)
(* wallet cache and may return a balance of any earlier time; how much     *)
(* earlier is the subject of WalletCache.  Of a live session this module   *)
(* has the slot and the bill; its budget, which two goroutines share, is   *)
(* the subject of LiveSession.  Amounts are costs.                         *)
(***************************************************************************)
EXTENDS Integers, FiniteSets

CONSTANTS
    User,
    Stream,          \* requests to POST /v1/tts/stream
    Async,           \* requests to POST /v1/tts/async
    Live,            \* requests to GET /v1/tts/live
    Owner,           \* the account of each request
    MaxConcurrent,   \* MAX_CONCURRENT_SYNTHESIS as configured
    InitialBalance,
    ChunkCost,       \* what one chunk may cost
    MaxDelivered,    \* bound on the cost of what each request takes
    MaxDbErrors,     \* bound on failed UPDATEs of tts_jobs
    MayCrash         \* whether the process may stop under its requests

Request == Stream \cup Async \cup Live

ASSUME SynthesisAssumption ==
    /\ Stream \cap Async = {} /\ Stream \cap Live = {} /\ Async \cap Live = {}
    /\ IsFiniteSet(Stream) /\ IsFiniteSet(Async) /\ IsFiniteSet(Live)
    /\ Owner \in [Request -> User]
    /\ MaxConcurrent \in Int
    /\ InitialBalance \in [User -> Nat]
    /\ ChunkCost \subseteq Nat \ {0}
    /\ MaxDelivered \in [Request -> Nat]
    /\ MaxDbErrors \in Nat
    /\ MayCrash \in BOOLEAN

VARIABLES
    pc,         \* where the handler (or the job's goroutine) stands
    slots,      \* length of Limiter.ch
    budget,     \* the handler's budget
    failed,     \* whether CopyAudioStream returned an error
    job,        \* tts_jobs.status; "none" without a row
    settled,    \* debited from the wallet so far, by user
    shown,      \* the totals settled had so far: what a cached balance may show
    unsettled,  \* billed to the coalescer and not yet debited, by user
    dbErrors,   \* failed UPDATEs so far
    up,         \* whether the process is running
    taken,      \* history: cost of the chunks written to the client or kept for the job
    lead        \* history: the most that was billed and missing from a balance q read

vars == <<pc, slots, budget, failed, job, settled, shown, unsettled, dbErrors, up, taken, lead>>

Init ==
    /\ pc = [q \in Request |-> "arrive"]
    /\ slots = 0
    /\ budget = [q \in Request |-> 0]
    /\ failed = [q \in Request |-> FALSE]
    /\ job = [q \in Async |-> "none"]
    /\ settled = [u \in User |-> 0]
    /\ shown = [u \in User |-> {0}]
    /\ unsettled = [u \in User |-> 0]
    /\ dbErrors = 0
    /\ up = TRUE
    /\ taken = [q \in Request |-> 0]
    /\ lead = [q \in Request |-> 0]

GoTo(q, label) == pc' = [pc EXCEPT ![q] = label]

(* synthlimit.New: a capacity that is not positive becomes one.             *)
Capacity == IF MaxConcurrent <= 0 THEN 1 ELSE MaxConcurrent

Holding == {"mark", "call", "open", "refresh", "finish"}

(* wallets.balance_usd once `seen` was debited: GREATEST(0, ...).           *)
Balance(u, seen) == IF InitialBalance[u] >= seen THEN InitialBalance[u] - seen ELSE 0

(* What account u has been billed and a balance that shows only `seen` of   *)
(* the debits leaves out.                                                   *)
Missing(u, seen) == settled[u] + unsettled[u] - seen

---------------------------------------------------------------------------
(* Admission.  A wallet error, an empty wallet, a bad body or a failed      *)
(* INSERT of the job end the request with an error response.  HasBalance    *)
(* reads L1, L2 or Postgres: a balance with all debits or an earlier one.   *)

Refuse(q) ==
    /\ pc[q] = "arrive"
    /\ GoTo(q, "ended")
    /\ UNCHANGED <<slots, budget, failed, job, settled, shown, unsettled, dbErrors, up, taken, lead>>

Admit(q) ==
    /\ pc[q] = "arrive"
    /\ \E seen \in shown[Owner[q]] :
          /\ Balance(Owner[q], seen) > 0
          /\ budget' = [budget EXCEPT ![q] = Balance(Owner[q], seen)]
          /\ lead' = [lead EXCEPT ![q] = Missing(Owner[q], seen)]
    /\ IF q \in Async THEN job' = [job EXCEPT ![q] = "pending"] ELSE UNCHANGED job
    /\ GoTo(q, "waiting")
    /\ UNCHANGED <<slots, failed, settled, shown, unsettled, dbErrors, up, taken>>

---------------------------------------------------------------------------
(* Slots: one channel for the three handlers (main hands both servers the   *)
(* same limiter).                                                           *)

Acquire(q) ==
    /\ pc[q] = "waiting"
    /\ slots < Capacity
    /\ slots' = slots + 1
    /\ GoTo(q, IF q \in Async THEN "mark" ELSE "call")
    /\ UNCHANGED <<budget, failed, job, settled, shown, unsettled, dbErrors, up, taken, lead>>

(* Mutant of Cancel: the deferred Release was registered before Acquire.    *)
CancelReleases(q) ==
    /\ q \notin Async
    /\ pc[q] = "waiting"
    /\ slots' = slots - 1
    /\ GoTo(q, "ended")
    /\ UNCHANGED <<budget, failed, job, settled, shown, unsettled, dbErrors, up, taken, lead>>

(* The client of a stream or a session goes away while it waits; a job      *)
(* waits on context.Background and cannot be cancelled.                     *)
Cancel(q) ==
    /\ q \notin Async
    /\ pc[q] = "waiting"
    /\ GoTo(q, "ended")
    /\ UNCHANGED <<slots, budget, failed, job, settled, shown, unsettled, dbErrors, up, taken, lead>>

(* UPDATE tts_jobs SET status = ... of a job; its error is ignored.         *)
SetStatus(q, status) ==
    \/ job' = [job EXCEPT ![q] = status] /\ UNCHANGED dbErrors
    \/ dbErrors < MaxDbErrors /\ dbErrors' = dbErrors + 1 /\ UNCHANGED job

(* The handler returns: the deferred Release frees its slot.                *)
Leave(q) == slots' = slots - 1 /\ GoTo(q, "ended")

MarkRunning(q) ==
    /\ q \in Async
    /\ pc[q] = "mark"
    /\ SetStatus(q, "running")
    /\ GoTo(q, "call")
    /\ UNCHANGED <<slots, budget, failed, settled, shown, unsettled, up, taken, lead>>

---------------------------------------------------------------------------
(* The inference stream.                                                    *)

Synthesize(q) ==
    /\ pc[q] = "call"
    /\ GoTo(q, "open")
    /\ UNCHANGED <<slots, budget, failed, job, settled, shown, unsettled, dbErrors, up, taken, lead>>

(* Mutant of SynthesizeError: the early return keeps the slot.              *)
SynthesizeErrorLeaks(q) ==
    /\ pc[q] = "call"
    /\ IF q \in Async THEN SetStatus(q, "failed") ELSE UNCHANGED <<job, dbErrors>>
    /\ GoTo(q, "ended")
    /\ UNCHANGED <<slots, budget, failed, settled, shown, unsettled, up, taken, lead>>

(* The call fails, or the upgrade of a session's connection before it.      *)
SynthesizeError(q) ==
    /\ pc[q] = "call"
    /\ IF q \in Async THEN SetStatus(q, "failed") ELSE UNCHANGED <<job, dbErrors>>
    /\ Leave(q)
    /\ UNCHANGED <<budget, failed, settled, shown, unsettled, up, taken, lead>>

(* Mutant of Affordable: the budget is tested before the chunk is deducted. *)
AffordableBefore(q, cost) == IF q \in Stream THEN budget[q] > 0 ELSE budget[q] >= 0

(* StreamTTS stops at `budget <= 0`, runAsyncJob at `budget < 0`.           *)
Affordable(q, cost) ==
    IF q \in Stream THEN budget[q] - cost > 0 ELSE budget[q] - cost >= 0

(* One chunk is written (or kept) and billed.  A stream may find that the   *)
(* refresh interval has passed.                                             *)
TakeChunk(q, cost) ==
    /\ q \notin Live
    /\ pc[q] = "open"
    /\ taken[q] + cost <= MaxDelivered[q]
    /\ Affordable(q, cost)
    /\ budget' = [budget EXCEPT ![q] = @ - cost]
    /\ taken' = [taken EXCEPT ![q] = @ + cost]
    /\ unsettled' = [unsettled EXCEPT ![Owner[q]] = @ + cost]
    /\ GoTo(q, "open") \/ (q \in Stream /\ GoTo(q, "refresh"))
    /\ UNCHANGED <<slots, failed, job, settled, shown, dbErrors, up, lead>>

(* The callback returns an error: the budget does not cover the chunk, or   *)
(* writing it to the client failed.  The chunk is neither kept nor billed.  *)
RefuseChunk(q, cost) ==
    /\ q \notin Live
    /\ pc[q] = "open"
    /\ q \in Stream \/ ~Affordable(q, cost)
    /\ budget' = [budget EXCEPT ![q] = @ - cost]
    /\ failed' = [failed EXCEPT ![q] = TRUE]
    /\ GoTo(q, "finish")
    /\ UNCHANGED <<slots, job, settled, shown, unsettled, dbErrors, up, taken, lead>>

(* The inference stream ends, or breaks, or the client has gone.            *)
EndOfStream(q, error) ==
    /\ q \notin Live
    /\ pc[q] = "open"
    /\ failed' = [failed EXCEPT ![q] = error]
    /\ GoTo(q, "finish")
    /\ UNCHANGED <<slots, budget, job, settled, shown, unsettled, dbErrors, up, taken, lead>>

(* snap, _ = Wallets.Refresh: it drops the L1 copy and may still find an    *)
(* earlier balance in L2.  On an error the snapshot is zero, and so are the *)
(* budget and the price; the next chunk then ends the stream.               *)
Refresh(q) ==
    /\ pc[q] = "refresh"
    /\ \/ \E seen \in shown[Owner[q]] :
             /\ budget' = [budget EXCEPT ![q] = Balance(Owner[q], seen)]
             /\ lead' = [lead EXCEPT ![q] =
                           IF @ >= Missing(Owner[q], seen) THEN @ ELSE Missing(Owner[q], seen)]
       \/ budget' = [budget EXCEPT ![q] = 0] /\ UNCHANGED lead
    /\ GoTo(q, "open")
    /\ UNCHANGED <<slots, failed, job, settled, shown, unsettled, dbErrors, up, taken>>

(* The receiver of a live session writes a chunk and bills it.  It may stop *)
(* doing so at any time (LiveSession); the session goes on.                 *)
LiveChunk(q, cost) ==
    /\ q \in Live
    /\ pc[q] = "open"
    /\ taken[q] + cost <= MaxDelivered[q]
    /\ taken' = [taken EXCEPT ![q] = @ + cost]
    /\ unsettled' = [unsettled EXCEPT ![Owner[q]] = @ + cost]
    /\ UNCHANGED <<pc, slots, budget, failed, job, settled, shown, dbErrors, up, lead>>

(* ReadMessage fails: the client of a live session has gone.  Nothing else  *)
(* ends a session, neither an empty budget nor a broken inference stream.   *)
Hangup(q) ==
    /\ q \in Live
    /\ pc[q] = "open"
    /\ GoTo(q, "finish")
    /\ UNCHANGED <<slots, budget, failed, job, settled, shown, unsettled, dbErrors, up, taken, lead>>

(* Mutants of Finish: the slot is not released; a broken stream is reported *)
(* as completed; the status is reset for another attempt.                   *)
FinishLeaks(q) ==
    /\ pc[q] = "finish"
    /\ IF q \in Async THEN SetStatus(q, IF failed[q] THEN "failed" ELSE "completed")
                      ELSE UNCHANGED <<job, dbErrors>>
    /\ GoTo(q, "ended")
    /\ UNCHANGED <<slots, budget, failed, settled, shown, unsettled, up, taken, lead>>

FinishCompletes(q) ==
    /\ pc[q] = "finish"
    /\ IF q \in Async THEN SetStatus(q, "completed") ELSE UNCHANGED <<job, dbErrors>>
    /\ Leave(q)
    /\ UNCHANGED <<budget, failed, settled, shown, unsettled, up, taken, lead>>

FinishRequeues(q) ==
    /\ pc[q] = "finish"
    /\ IF q \in Async THEN SetStatus(q, IF failed[q] THEN "pending" ELSE "completed")
                      ELSE UNCHANGED <<job, dbErrors>>
    /\ Leave(q)
    /\ UNCHANGED <<budget, failed, settled, shown, unsettled, up, taken, lead>>

(* Coalescer.Flush, the final status of a job, and the deferred Release.    *)
Finish(q) ==
    /\ pc[q] = "finish"
    /\ IF q \in Async THEN SetStatus(q, IF failed[q] THEN "failed" ELSE "completed")
                      ELSE UNCHANGED <<job, dbErrors>>
    /\ Leave(q)
    /\ UNCHANGED <<budget, failed, settled, shown, unsettled, up, taken, lead>>

---------------------------------------------------------------------------
(* Metering debits what was billed (Billing), here chunk by chunk: one      *)
(* UPDATE for several chunks only passes over the balances between.         *)
Settle(u) ==
    /\ \E amount \in ChunkCost :
          /\ amount <= unsettled[u]
          /\ unsettled' = [unsettled EXCEPT ![u] = @ - amount]
          /\ settled' = [settled EXCEPT ![u] = @ + amount]
          /\ shown' = [shown EXCEPT ![u] = @ \cup {settled[u] + amount}]
    /\ UNCHANGED <<pc, slots, budget, failed, job, dbErrors, up, taken, lead>>

(* The process stops: main returns ten seconds after the signal and waits   *)
(* for no job.  Nothing reads tts_jobs when it starts again.                *)
Crash ==
    /\ MayCrash
    /\ up
    /\ up' = FALSE
    /\ pc' = [q \in Request |-> "ended"]
    /\ slots' = 0
    /\ UNCHANGED <<budget, failed, job, settled, shown, unsettled, dbErrors, taken, lead>>

(* Every handler has returned and every debit is made.                      *)
Idle ==
    /\ \A q \in Request : pc[q] = "ended"
    /\ \A u \in User : unsettled[u] = 0
    /\ UNCHANGED vars

Next ==
    \/ \E q \in Request :
          \/ Refuse(q) \/ Admit(q) \/ Acquire(q) \/ Cancel(q) \/ MarkRunning(q)
          \/ Synthesize(q) \/ SynthesizeError(q) \/ Refresh(q) \/ Hangup(q) \/ Finish(q)
          \/ \E cost \in ChunkCost : TakeChunk(q, cost) \/ RefuseChunk(q, cost) \/ LiveChunk(q, cost)
          \/ \E error \in BOOLEAN : EndOfStream(q, error)
    \/ \E u \in User : Settle(u)
    \/ Crash
    \/ Idle

Spec == Init /\ [][Next]_vars

(* A goroutine that can run runs; blocked senders of a Go channel are       *)
(* served in order, so whoever waits for a slot gets one when slots keep    *)
(* being freed.  Nothing makes inference end a stream, for no handler sets  *)
(* a deadline, and nothing makes the client of a live session leave.        *)
Fairness ==
    \A q \in Request :
        /\ SF_vars(Acquire(q))
        /\ WF_vars(MarkRunning(q))
        /\ WF_vars(Synthesize(q) \/ SynthesizeError(q))
        /\ WF_vars(Refresh(q))
        /\ WF_vars(Finish(q))

FairSpec == Spec /\ Fairness

---------------------------------------------------------------------------
(* Properties.                                                              *)

(* Counters never go below zero and statuses are those of tts_job_status.   *)
TypeOK ==
    /\ pc \in [Request -> {"arrive", "waiting", "ended"} \cup Holding]
    /\ slots \in Nat
    /\ budget \in [Request -> Int]
    /\ failed \in [Request -> BOOLEAN]
    /\ job \in [Async -> {"none", "pending", "running", "completed", "failed"}]
    /\ settled \in [User -> Nat]
    /\ shown \in [User -> SUBSET Nat]
    /\ \A u \in User : shown[u] \subseteq 0 .. settled[u]
    /\ unsettled \in [User -> Nat]
    /\ dbErrors \in Nat
    /\ up \in BOOLEAN
    /\ taken \in [Request -> Nat]
    /\ lead \in [Request -> Nat]

(* The channel holds one token per handler between Acquire and its return,  *)
(* through every early return and error path, and never more than the       *)
(* configured number; so the limiter neither leaks nor over-admits.         *)
SlotsAccounted ==
    /\ slots = Cardinality({q \in Request : pc[q] \in Holding})
    /\ slots <= Capacity

Received(q) ==
    IF q \in Async /\ job[q] # "completed" THEN 0 ELSE taken[q]

(* README: "we stop delivering near the credit limit even though debits     *)
(* settle asynchronously ... small over-delivery is bounded by the refresh  *)
(* interval".  What the code gives is a bound per request: no stream and no *)
(* job delivers more than the credit plus what its account had been billed, *)
(* by this request or by others, and a balance it read did not yet show,    *)
(* because the debit was still to come or the snapshot was an earlier one.  *)
(* The requests of an account share no budget: n of them at a time may each *)
(* deliver the whole credit, which the README's sentence does not say.      *)
CreditRespected ==
    \A q \in Stream \cup Async : taken[q] <= InitialBalance[Owner[q]] + lead[q]

(* Its strengthening: what a request took its account was billed, and every *)
(* budget is what the credit leaves after the debits its balance showed.    *)
BudgetBacked ==
    \A q \in Stream \cup Async :
        /\ taken[q] <= settled[Owner[q]] + unsettled[Owner[q]]
        /\ taken[q] + budget[q] <= InitialBalance[Owner[q]] + lead[q]

(* A job that has been reported completed or failed stays what it is, and   *)
(* a job never goes back to pending.                                        *)
JobLifecycle ==
    [][\A q \in Async :
          /\ job[q] \in {"completed", "failed"} => job'[q] = job[q]
          /\ job[q] # "none" /\ job'[q] = "pending" => job[q] = "pending"]_vars

(* A job reported as completed has the audio of a whole, unbroken stream    *)
(* that its budget covered.                                                 *)
CompletedIsWhole ==
    \A q \in Async : job[q] = "completed" =>
        pc[q] = "ended" /\ ~failed[q] /\ budget[q] >= 0

(* Inference ends every stream it has opened and the client of every live   *)
(* session leaves some time: what JobsEnd asks of the surroundings.         *)
StreamsEnd == \A q \in Request : []<>(pc[q] \notin {"open", "refresh"})

(* If streams end and live clients leave, every accepted job is reported    *)
(* completed or failed, however the three kinds of request compete for the  *)
(* slots, unless the process stops or an UPDATE of tts_jobs fails: nothing  *)
(* then ever looks at the job again.  The condition is needed: as many live *)
(* clients as there are slots, or stuck streams, keep a job pending.        *)
JobsEnd ==
    StreamsEnd => \A q \in Async :
        (job[q] = "pending") ~> (job[q] \in {"completed", "failed"} \/ ~up \/ dbErrors > 0)

(* README: "users pay for delivered audio".  When a request has ended its   *)
(* user has received everything that was billed for it.                     *)
PayOnlyForDelivered ==
    \A q \in Request : pc[q] = "ended" => taken[q] <= Received(q)
=============================================================================

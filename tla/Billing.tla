------------------------------- MODULE Billing ------------------------------
(***************************************************************************)
(* The road of money through the platform.  An API handler adds every PCM  *)
(* chunk it delivers to the request's Coalescer (api/internal/billing);    *)
(* the coalescer publishes the accumulated seconds as one event on NATS;   *)
(* a metering consumer (metering/internal/consumer) queues the event,      *)
(* swaps the queue for an empty one at every tick, and for each user       *)
(* writes usage rows one by one, debits the wallet once for all of them,   *)
(* and writes one transaction row.                                         *)
(*                                                                         *)
(* No step is retried and no error is propagated, so each of them is a     *)
(* separate action, and between any two a message can be lost or           *)
(* duplicated, a statement can fail (before or after it took effect), a    *)
(* consumer can crash and an API process can be killed.  MaxFaults and     *)
(* MaxCopies bound how often.                                              *)
(*                                                                         *)
(* Amounts are integers: one second costs PricePerMinute(u) units.  The    *)
(* order of events inside a queue is abstracted to a set; nothing in the   *)
(* consumer depends on it but the reference_id of the transaction row.     *)
(***************************************************************************)
EXTENDS Integers, FiniteSets, FiniteSetsExt

CONSTANTS
    User,            \* the accounts
    Request,         \* the synthesis requests, each with its own Coalescer
    Live,            \* those of the WebSocket handler
    Owner,           \* Owner[r] is the account request r bills to
    Consumer,        \* the metering processes of the NATS queue group
    UserPrice,       \* users.price_per_audio_minute_usd; NULL outside its domain
    DefaultPrice,    \* PLATFORM_DEFAULT_PRICE_PER_MINUTE
    InitialBalance,  \* wallets.balance_usd at the start
    ChunkSec,        \* the seconds of audio one PCM chunk may hold
    MaxSeconds,      \* bound on the audio of each request
    Faults,          \* the kinds of fault that happen
    MaxFaults,       \* bound on how many faults happen
    MaxCopies        \* bound on how many of them repeat a message

FaultKind == {"lost",    \* a publish fails, or NATS drops the message
              "dup",     \* a message arrives twice
              "db",      \* a Postgres statement returns an error
              "crash",   \* a metering process dies and is restarted
              "kill"}    \* an API process dies with its open requests

ASSUME BillingAssumption ==
    /\ User # {}
    /\ IsFiniteSet(Request) /\ IsFiniteSet(Consumer)
    /\ Owner \in [Request -> User]
    /\ Live \subseteq Request
    /\ DOMAIN UserPrice \subseteq User
    /\ \A u \in DOMAIN UserPrice : UserPrice[u] \in Nat
    /\ DefaultPrice \in Nat
    /\ InitialBalance \in [User -> Nat]
    /\ ChunkSec \subseteq Nat \ {0}
    /\ MaxSeconds \in [Request -> Nat]
    /\ Faults \subseteq FaultKind
    /\ MaxFaults \in Nat /\ MaxCopies \in Nat

VARIABLES
    status,     \* handler of request r: "open"; "flushed" while the receiver
                \* of a live session goes on after the final flush; "closed"
                \* when nothing can be added any more; or "killed"
    window,     \* Coalescer.windows[r].audioSeconds
    seq,        \* Coalescer.seq
    bus,        \* events published and not yet handed to a consumer
    pending,    \* Consumer.pending
    batch,      \* the map flush() took from pending, less the users done with
    pc,         \* where the flush goroutine of a consumer stands
    debtor,     \* debitUser's userID
    seen,       \* the events debitUser's loop has gone through
    totalCost,  \* debitUser's totalCost
    usage,      \* rows of usage_events
    balance,    \* wallets.balance_usd
    txns,       \* sum of wallet_transactions.amount_usd, negated, by user
    faults,     \* how many faults have happened
    delivered,  \* history: seconds handed to the client of r
    late,       \* history: those added after the final flush
    sent,       \* history: every event given to NATS, repetitions included
    owed,       \* history: the price of what was delivered to each user
    charged,    \* history: the events a committed wallet UPDATE covered
    debited     \* history: the total of those UPDATEs by user

apiVars == <<status, window, seq, delivered, late>>
flushVars == <<pc, debtor, seen, totalCost>>
dbVars == <<usage, balance, txns>>
history == <<charged, debited>>
vars == <<apiVars, bus, sent, owed, pending, batch, flushVars, dbVars, faults, history>>

(* An event: the key "request:seq" and the seconds; copy numbers the        *)
(* repeated deliveries and is 0 in what the coalescer publishes.            *)
Event == [req : Request, n : Nat, sec : Nat, copy : Nat]

(* debtor while no debitUser call is under way; never read then.            *)
Nobody == CHOOSE u \in User : TRUE

Init ==
    /\ status = [r \in Request |-> "open"]
    /\ window = [r \in Request |-> 0]
    /\ seq = [r \in Request |-> 0]
    /\ bus = {}
    /\ pending = [c \in Consumer |-> {}]
    /\ batch = [c \in Consumer |-> {}]
    /\ pc = [c \in Consumer |-> "tick"]
    /\ debtor = [c \in Consumer |-> Nobody]
    /\ seen = [c \in Consumer |-> {}]
    /\ totalCost = [c \in Consumer |-> 0]
    /\ usage = {}
    /\ balance = InitialBalance
    /\ txns = [u \in User |-> 0]
    /\ faults = 0
    /\ delivered = [r \in Request |-> 0]
    /\ late = [r \in Request |-> 0]
    /\ sent = {}
    /\ owed = [u \in User |-> 0]
    /\ charged = {}
    /\ debited = [u \in User |-> 0]

Fault(k) ==
    /\ k \in Faults
    /\ faults < MaxFaults
    /\ faults' = faults + 1

(* The L2 snapshot, when there is one with a positive price, was filled by  *)
(* the same rule from the same column and default.                          *)
PricePerMinute(u) == IF u \in DOMAIN UserPrice THEN UserPrice[u] ELSE DefaultPrice

Cost(m) == m.sec * PricePerMinute(Owner[m.req])

---------------------------------------------------------------------------
(* The coalescer.  Whether BILLING_COALESCE_MS, which may be configured to  *)
(* zero, has elapsed since the last flush is the clock's choice.            *)

(* Mutant of FlushLocked: the window survives the flush.                    *)
FlushKeepsWindow(r, secs) ==
    LET event == [req |-> r, n |-> seq[r] + 1, sec |-> secs, copy |-> 0]
    IN  /\ window' = [window EXCEPT ![r] = secs]
        /\ seq' = [seq EXCEPT ![r] = @ + 1]
        /\ bus' = bus \cup {event}
        /\ sent' = sent \cup {event}

FlushLocked(r, secs) ==
    LET event == [req |-> r, n |-> seq[r] + 1, sec |-> secs, copy |-> 0]
    IN  /\ window' = [window EXCEPT ![r] = 0]
        /\ seq' = [seq EXCEPT ![r] = @ + 1]
        /\ bus' = bus \cup {event}
        /\ sent' = sent \cup {event}

Adding(r) == status[r] \in {"open", "flushed"}

(* A chunk was written to the client; its seconds are added.  The receiver  *)
(* of a live session may get here when the final flush has been: nobody     *)
(* waits for it.                                                            *)
AddPCM(r, sec) ==
    /\ Adding(r)
    /\ delivered[r] + sec <= MaxSeconds[r]
    /\ delivered' = [delivered EXCEPT ![r] = @ + sec]
    /\ late' = [late EXCEPT ![r] = IF status[r] = "flushed" THEN @ + sec ELSE @]
    /\ owed' = [owed EXCEPT ![Owner[r]] = @ + sec * PricePerMinute(Owner[r])]
    /\ \/ FlushLocked(r, window[r] + sec)
       \/ /\ window' = [window EXCEPT ![r] = @ + sec]
          /\ UNCHANGED <<seq, bus, sent>>
    /\ UNCHANGED <<status, pending, batch, flushVars, dbVars, faults, history>>

(* Mutant of Flush: the handler returns without the final flush.            *)
NoFinalFlush(r) ==
    /\ status[r] = "open"
    /\ status' = [status EXCEPT ![r] = IF r \in Live THEN "flushed" ELSE "closed"]
    /\ UNCHANGED <<window, seq, bus, sent, owed, delivered, late, pending, batch, flushVars,
                   dbVars, faults, history>>

(* The handler's last call on the coalescer.                                *)
Flush(r) ==
    /\ status[r] = "open"
    /\ status' = [status EXCEPT ![r] = IF r \in Live THEN "flushed" ELSE "closed"]
    /\ IF window[r] <= 0
         THEN UNCHANGED <<window, seq, bus, sent>>
         ELSE FlushLocked(r, window[r])
    /\ UNCHANGED <<delivered, late, owed, pending, batch, flushVars, dbVars, faults, history>>

(* The receiver of a live session ends: its context was cancelled, or the   *)
(* stream or the connection is gone.                                        *)
ReceiverReturns(r) ==
    /\ status[r] = "flushed"
    /\ status' = [status EXCEPT ![r] = "closed"]
    /\ UNCHANGED <<window, seq, delivered, late, bus, sent, owed, pending, batch, flushVars,
                   dbVars, faults, history>>

Kill(r) ==
    /\ Adding(r)
    /\ Fault("kill")
    /\ status' = [status EXCEPT ![r] = "killed"]
    /\ UNCHANGED <<window, seq, delivered, late, bus, sent, owed, pending, batch, flushVars,
                   dbVars, history>>

---------------------------------------------------------------------------
(* NATS core: a queue group hands each message to one consumer, at most     *)
(* once.  Losing it covers Publish returning an error, which every caller   *)
(* of the coalescer ignores.                                                *)

Lose(m) ==
    /\ m \in bus
    /\ Fault("lost")
    /\ bus' = bus \ {m}
    /\ UNCHANGED <<apiVars, sent, owed, pending, batch, flushVars, dbVars, history>>

Duplicate(m) ==
    /\ m \in bus
    /\ Fault("dup")
    /\ Cardinality({x \in sent : x.copy > 0}) < MaxCopies
    /\ LET twin == [m EXCEPT !.copy = faults + 1]
       IN  bus' = bus \cup {twin} /\ sent' = sent \cup {twin}
    /\ UNCHANGED <<apiVars, owed, pending, batch, flushVars, dbVars, history>>

OnMessage(c, m) ==
    /\ m \in bus
    /\ bus' = bus \ {m}
    /\ pending' = [pending EXCEPT ![c] = @ \cup {m}]
    /\ UNCHANGED <<apiVars, sent, owed, batch, flushVars, dbVars, faults, history>>

---------------------------------------------------------------------------
(* The consumer's flush goroutine.                                          *)

UserEvents(c, u) == {m \in batch[c] : Owner[m.req] = u}

(* INSERT ... ON CONFLICT (idempotency_key) DO NOTHING *)
InsertUsage(rows, m) ==
    IF \E row \in rows : row.req = m.req /\ row.n = m.n THEN rows ELSE rows \cup {m}

GoTo(c, label) == pc' = [pc EXCEPT ![c] = label]

(* Mutant of Tick: the batch is a copy and the queue is not emptied.        *)
TickKeepsPending(c) ==
    /\ pc[c] = "tick"
    /\ pending[c] # {}
    /\ batch' = [batch EXCEPT ![c] = pending[c]]
    /\ GoTo(c, "users")
    /\ UNCHANGED <<apiVars, bus, sent, owed, pending, debtor, seen, totalCost, dbVars, faults,
                   history>>

Tick(c) ==
    /\ pc[c] = "tick"
    /\ pending[c] # {}
    /\ batch' = [batch EXCEPT ![c] = pending[c]]
    /\ pending' = [pending EXCEPT ![c] = {}]
    /\ GoTo(c, "users")
    /\ UNCHANGED <<apiVars, bus, sent, owed, debtor, seen, totalCost, dbVars, faults, history>>

DebitUser(c, u) ==
    /\ pc[c] = "users"
    /\ UserEvents(c, u) # {}
    /\ debtor' = [debtor EXCEPT ![c] = u]
    /\ GoTo(c, "meter")
    /\ UNCHANGED <<apiVars, bus, sent, owed, pending, batch, seen, totalCost, dbVars, faults,
                   history>>

(* Mutant of Return: totalCost outlives the user it was computed for.       *)
ReturnKeepsTotal(c) ==
    /\ batch' = [batch EXCEPT ![c] = @ \ UserEvents(c, debtor[c])]
    /\ seen' = [seen EXCEPT ![c] = {}]
    /\ debtor' = [debtor EXCEPT ![c] = Nobody]
    /\ GoTo(c, "users")
    /\ UNCHANGED totalCost

(* debitUser returns, with or without an error: flush moves on to the next  *)
(* user and nothing keeps this user's events.                               *)
Return(c) ==
    /\ batch' = [batch EXCEPT ![c] = @ \ UserEvents(c, debtor[c])]
    /\ seen' = [seen EXCEPT ![c] = {}]
    /\ totalCost' = [totalCost EXCEPT ![c] = 0]
    /\ debtor' = [debtor EXCEPT ![c] = Nobody]
    /\ GoTo(c, "users")

(* Mutant of MeterEvent: an error of the INSERT is ignored.                 *)
MeterIgnoresError(c, m) ==
    /\ pc[c] = "meter"
    /\ m \in UserEvents(c, debtor[c]) \ seen[c]
    /\ totalCost' = [totalCost EXCEPT ![c] = @ + Cost(m)]
    /\ usage' \in {usage, InsertUsage(usage, m)}
    /\ seen' = [seen EXCEPT ![c] = @ \cup {m}]
    /\ UNCHANGED <<apiVars, bus, sent, owed, pending, batch, pc, debtor, balance, txns, faults,
                   history>>

MeterEvent(c, m) ==
    /\ pc[c] = "meter"
    /\ m \in UserEvents(c, debtor[c]) \ seen[c]
    /\ totalCost' = [totalCost EXCEPT ![c] = @ + Cost(m)]
    /\ usage' = InsertUsage(usage, m)
    /\ seen' = [seen EXCEPT ![c] = @ \cup {m}]
    /\ UNCHANGED <<apiVars, bus, sent, owed, pending, batch, pc, debtor, balance, txns, faults,
                   history>>

(* The price query or the INSERT fails; the row may have been committed.    *)
MeterError(c, m) ==
    /\ pc[c] = "meter"
    /\ m \in UserEvents(c, debtor[c]) \ seen[c]
    /\ Fault("db")
    /\ usage' \in {usage, InsertUsage(usage, m)}
    /\ Return(c)
    /\ UNCHANGED <<apiVars, bus, sent, owed, pending, balance, txns, history>>

MeteredAll(c) == pc[c] = "meter" /\ seen[c] = UserEvents(c, debtor[c])

(* Mutants of UpdateWallet: no GREATEST; the new balance is computed from   *)
(* the balance read when the process started (a lost update).               *)
UpdateBelowZero(c) ==
    /\ balance' = [balance EXCEPT ![debtor[c]] = @ - totalCost[c]]
    /\ debited' = [debited EXCEPT ![debtor[c]] = @ + totalCost[c]]
    /\ charged' = charged \cup seen[c]

UpdateOverwrites(c) ==
    LET u == debtor[c]
        due == IF InitialBalance[u] >= totalCost[c] THEN InitialBalance[u] - totalCost[c] ELSE 0
    IN  /\ balance' = [balance EXCEPT ![u] = due]
        /\ debited' = [debited EXCEPT ![u] = @ + totalCost[c]]
        /\ charged' = charged \cup seen[c]

(* UPDATE wallets SET balance_usd = GREATEST(balance_usd - $2, 0)           *)
UpdateWallet(c) ==
    LET u == debtor[c]
    IN  /\ balance' = [balance EXCEPT ![u] = IF @ >= totalCost[c] THEN @ - totalCost[c] ELSE 0]
        /\ debited' = [debited EXCEPT ![u] = @ + totalCost[c]]
        /\ charged' = charged \cup seen[c]

DebitWallet(c) ==
    /\ MeteredAll(c)
    /\ IF totalCost[c] <= 0
         THEN Return(c) /\ UNCHANGED <<balance, history>>
         ELSE /\ UpdateWallet(c)
              /\ batch' = [batch EXCEPT ![c] = @ \ UserEvents(c, debtor[c])]
              /\ seen' = [seen EXCEPT ![c] = {}]
              /\ GoTo(c, "txn")
              /\ UNCHANGED <<debtor, totalCost>>
    /\ UNCHANGED <<apiVars, bus, sent, owed, pending, usage, txns, faults>>

DebitError(c) ==
    /\ MeteredAll(c)
    /\ totalCost[c] > 0
    /\ Fault("db")
    /\ UpdateWallet(c) \/ UNCHANGED <<balance, history>>
    /\ Return(c)
    /\ UNCHANGED <<apiVars, bus, sent, owed, pending, usage, txns>>

(* INSERT INTO wallet_transactions, whose error is ignored, and the DEL of  *)
(* the L2 wallet snapshot (WalletCache).                                    *)
InsertTransaction(c) ==
    /\ pc[c] = "txn"
    /\ \/ /\ txns' = [txns EXCEPT ![debtor[c]] = @ + totalCost[c]]
          /\ UNCHANGED faults
       \/ Fault("db") /\ UNCHANGED txns
    /\ Return(c)
    /\ UNCHANGED <<apiVars, bus, sent, owed, pending, usage, balance, history>>

EndFlush(c) ==
    /\ pc[c] = "users"
    /\ batch[c] = {}
    /\ GoTo(c, "tick")
    /\ UNCHANGED <<apiVars, bus, sent, owed, pending, batch, debtor, seen, totalCost, dbVars,
                   faults, history>>

Crash(c) ==
    /\ Fault("crash")
    /\ pending' = [pending EXCEPT ![c] = {}]
    /\ batch' = [batch EXCEPT ![c] = {}]
    /\ seen' = [seen EXCEPT ![c] = {}]
    /\ totalCost' = [totalCost EXCEPT ![c] = 0]
    /\ debtor' = [debtor EXCEPT ![c] = Nobody]
    /\ GoTo(c, "tick")
    /\ UNCHANGED <<apiVars, bus, sent, owed, dbVars, history>>

---------------------------------------------------------------------------
AllEnded == \A r \in Request : ~Adding(r)

Drained == bus = {} /\ \A c \in Consumer : pending[c] = {} /\ pc[c] = "tick"

(* Nothing is left to bill: the processes wait for work that never comes.   *)
Idle == AllEnded /\ Drained /\ UNCHANGED vars

ConsumerStep(c) ==
    \/ Tick(c)
    \/ \E u \in User : DebitUser(c, u)
    \/ \E m \in batch[c] : MeterEvent(c, m) \/ MeterError(c, m)
    \/ DebitWallet(c)
    \/ DebitError(c)
    \/ InsertTransaction(c)
    \/ EndFlush(c)

Next ==
    \/ \E r \in Request : \/ \E sec \in ChunkSec : AddPCM(r, sec)
                          \/ Flush(r)
                          \/ ReceiverReturns(r)
                          \/ Kill(r)
    \/ \E m \in bus : \/ Lose(m)
                      \/ Duplicate(m)
                      \/ \E c \in Consumer : OnMessage(c, m)
    \/ \E c \in Consumer : ConsumerStep(c) \/ Crash(c)
    \/ Idle

Spec == Init /\ [][Next]_vars

(* NATS hands over what it keeps, and a consumer's ticker and statements    *)
(* go on.  Nothing makes a client finish its request.                       *)
Fairness ==
    /\ WF_vars(\E m \in bus, c \in Consumer : OnMessage(c, m))
    /\ \A c \in Consumer : WF_vars(ConsumerStep(c))

FairSpec == Spec /\ Fairness
---------------------------------------------------------------------------
(* Properties.                                                              *)

(* Every variable stays in the set of values its Go or SQL type allows.     *)
TypeOK ==
    /\ status \in [Request -> {"open", "flushed", "closed", "killed"}]
    /\ window \in [Request -> Nat]
    /\ seq \in [Request -> Nat]
    /\ delivered \in [Request -> Nat] /\ late \in [Request -> Nat]
    /\ bus \subseteq Event /\ sent \subseteq Event
    /\ pending \in [Consumer -> SUBSET Event]
    /\ batch \in [Consumer -> SUBSET Event]
    /\ pc \in [Consumer -> {"tick", "users", "meter", "txn"}]
    /\ debtor \in [Consumer -> User]
    /\ seen \in [Consumer -> SUBSET Event]
    /\ totalCost \in [Consumer -> Nat]
    /\ usage \subseteq Event /\ charged \subseteq Event
    /\ balance \in [User -> Nat]
    /\ txns \in [User -> Nat]
    /\ debited \in [User -> Nat] /\ owed \in [User -> Nat]
    /\ faults \in Nat

SumOver(f, S) == SumFunctionOnSet(f, S)

Seconds == [m \in Event |-> m.sec]

Costs == [m \in Event |-> Cost(m)]

Requests(u) == {r \in Request : Owner[r] = u}

EventsOf(events, u) == {m \in events : Owner[m.req] = u}

Owed(u) == SumOver(delivered, Requests(u)) * PricePerMinute(u)

UsageCost(u) == SumOver(Costs, EventsOf(usage, u))

(* Windows lose and double no audio: what a live request's coalescer has    *)
(* published and what it still holds add up to what the client was given,   *)
(* however AddPCM's and the final Flush interleave with the interval        *)
(* (flushLocked zeroes the window before it publishes).                     *)
WindowConserved ==
    \A r \in Request :
        window[r] + SumOver(Seconds, {m \in sent : m.req = r /\ m.copy = 0}) = delivered[r]

(* What debits of repeated messages have cost user u.                       *)
RepeatCost(u) == SumOver(Costs, EventsOf({m \in charged : m.copy > 0}, u))

(* The books are never ahead of each other in the wrong direction: per      *)
(* user, the transaction rows sum to at most the wallet debits, those       *)
(* exceed the cost of the usage rows by no more than the repeated messages  *)
(* that were debited, and usage rows bill no more than was delivered,       *)
(* whichever statement of debitUser fails, whoever crashes, and even when   *)
(* messages arrive twice.                                                   *)
BooksInOrder ==
    \A u \in User : /\ txns[u] <= debited[u]
                    /\ debited[u] <= UsageCost(u) + RepeatCost(u)
                    /\ UsageCost(u) <= Owed(u)

(* The usage row of an event: the same idempotency key and the same amount. *)
HasRow(m) == \E row \in usage : row.req = m.req /\ row.n = m.n /\ row.sec = m.sec

(* A wallet is debited only for events that have a usage row of the same    *)
(* key and the same amount, so the customer finds every charge under        *)
(* GET /v1/usage.                                                           *)
DebitsBackedByUsage == \A m \in charged : HasRow(m)

(* A message is debited once: what a consumer is about to debit has not     *)
(* been debited before, by it or by another member of the queue group.      *)
DebitedAtMostOnce == \A c \in Consumer : seen[c] \cap charged = {}

(* The strengthening that makes the last two facts inductive: an event is   *)
(* published under a fresh key and a repetition carries the same seconds, a *)
(* message is in one place at a time and nowhere once debited, and          *)
(* debitUser's loop has written the row of every event it has gone through. *)
KeysFresh ==
    /\ \A m \in sent : m.n <= seq[m.req] /\ m.copy <= faults
    /\ \A m1, m2 \in sent : m1.req = m2.req /\ m1.n = m2.n => m1.sec = m2.sec

AllWereSent ==
    /\ bus \subseteq sent /\ usage \subseteq sent /\ charged \subseteq sent
    /\ \A c \in Consumer : pending[c] \subseteq sent /\ batch[c] \subseteq sent

InOnePlace ==
    /\ bus \cap charged = {}
    /\ \A c \in Consumer :
          /\ (bus \cup charged) \cap (pending[c] \cup batch[c]) = {}
          /\ pending[c] \cap batch[c] = {}
    /\ \A c, d \in Consumer :
          c # d => (pending[c] \cup batch[c]) \cap (pending[d] \cup batch[d]) = {}

SeenMetered ==
    \A c \in Consumer : /\ seen[c] \subseteq batch[c]
                        /\ \A m \in seen[c] : HasRow(m)
                        /\ pc[c] # "meter" => seen[c] = {}

EventsOnce == KeysFresh /\ AllWereSent /\ InOnePlace /\ SeenMetered /\ DebitsBackedByUsage

(* NATS repeated a message that bills user u.                               *)
RepeatedTo(u) == \E m \in sent : m.copy > 0 /\ Owner[m.req] = u

(* The abstract ledger, whose payments are the wallet debits.               *)
Money == INSTANCE Ledger WITH paid <- debited

(* A step of the ledger, or a debit beyond what a user with a repeated      *)
(* message owes.                                                            *)
LedgerMove == Money!Next \/ \E u \in User : RepeatedTo(u) /\ Money!Overcharge(u)

(* The pipeline implements the ledger: every debit is an indivisible charge *)
(* of audio that was delivered and not yet paid, and the balance stops at   *)
(* zero.  The one exception: debitUser adds up events without looking at    *)
(* their keys, so a user who was sent a message twice may be charged beyond *)
(* what is owed, where README calls the pipeline idempotent.  Even that is  *)
(* one clamped update of that user's wallet, and touches no other user.     *)
ImplementsLedger == Money!Init /\ [][LedgerMove]_(Money!vars)

(* The price of the seconds that lie in windows.                            *)
Stranded(u) == SumOver(window, Requests(u)) * PricePerMinute(u)

Settled ==
    /\ \A u \in User : /\ UsageCost(u) = Owed(u) - Stranded(u)
                       /\ debited[u] = UsageCost(u)
                       /\ txns[u] = UsageCost(u)
    /\ \A r \in Request : window[r] <= late[r]

(* README: "Money is eventually-consistent".  Once every request has ended, *)
(* its receiver included, the usage rows, the wallet debits and the         *)
(* transactions all reach the price of the audio delivered, less what stays *)
(* in windows for good: that is only audio a live session's receiver added  *)
(* after the handler's final flush.                                         *)
EventuallySettled == AllEnded ~> Settled
=============================================================================

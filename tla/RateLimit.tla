------------------------------ MODULE RateLimit -----------------------------
(***************************************************************************)
(* The rate limit of one user: api/internal/ratelimit, the middleware in   *)
(* front of the API routes (cmd/api/main.go) and the endpoints that read   *)
(* and change the limits (handler/rate_limit.go).                          *)
(*                                                                         *)
(* The limits are the user_rate_limits row, or the configured defaults     *)
(* without one; a copy of the row lives in Valkey for CacheTTL.  A request *)
(* learns the limits, notes the time, increments the counter of each       *)
(* window's current bucket and compares.  Every round trip is a step of    *)
(* its own; OpTicks bounds the time a process sits on a limit or a time    *)
(* before it uses it.                                                      *)
(***************************************************************************)
EXTENDS Integers, FiniteSets

CONSTANTS
    Request,     \* requests that pass rateLimitMiddleware
    Reader,      \* GETs of the limit, by the user or an operator
    Admin,       \* PUTs and DELETEs of the limit
    Windows,     \* how many windows there are: minute, hour, day
    Length,      \* the length of each window
    Expiry,      \* the expiry of each window's counters
    Default,     \* RATE_LIMIT_RPM, RATE_LIMIT_RPH, RATE_LIMIT_RPD
    Asked,       \* limits the operators ask for
    NoRow,       \* user_rate_limits has no row for the user
    CacheTTL,
    OpTicks,
    MaxTime      \* bound on the clock

Window == 1 .. Windows

(* Limits.valid                                                             *)
Valid(lim) == \A w \in Window : lim[w] > 0

ASSUME RateLimitAssumption ==
    /\ Request \cap Reader = {} /\ Request \cap Admin = {} /\ Reader \cap Admin = {}
    /\ IsFiniteSet(Request)
    /\ Windows \in Nat
    /\ Length \in [Window -> Nat \ {0}]
    /\ Expiry \in [Window -> Nat]
    /\ OpTicks \in Nat /\ CacheTTL \in Nat /\ MaxTime \in Nat
    /\ \A w \in Window : Length[w] + OpTicks <= Expiry[w]
    /\ Default \in [Window -> Int]
    /\ Asked \subseteq [Window -> Int]
    /\ NoRow \notin Asked

Proc == Request \cup Reader \cup Admin
Config == {lim \in Asked : Valid(lim)} \cup {NoRow}
Time == 0 .. MaxTime

VARIABLES
    now,
    row,      \* the user_rate_limits row
    last,     \* history: when a configuration was last replaced
    cached,   \* rlcfg:{user} and when it expires
    count,    \* count[w][b]: the counter of bucket b of window w
    expires,  \* when that counter expires
    pc,       \* where a process stands
    cfg,      \* the configuration it has read
    held,     \* the ticks it has held it, or its stamp
    stamp,    \* the time a request has noted
    ticket    \* what its INCRs returned, so far

vars == <<now, row, last, cached, count, expires, pc, cfg, held, stamp, ticket>>
store == <<row, last>>
counters == <<count, expires, stamp, ticket>>

Init ==
    /\ now = 0
    /\ row \in Config
    /\ last = [c \in Config |-> 0]
    /\ cached = [cfg |-> NoRow, until |-> 0]
    /\ count = [w \in Window |-> [b \in Time |-> 0]]
    /\ expires = [w \in Window |-> [b \in Time |-> 0]]
    /\ pc = [p \in Proc |-> "arrive"]
    /\ cfg = [p \in Proc |-> NoRow]
    /\ held = [p \in Proc |-> 0]
    /\ stamp = [q \in Request |-> 0]
    /\ ticket = [q \in Request |-> [w \in Window |-> 0]]

LimitsOf(c) == IF c = NoRow THEN Default ELSE c

GoTo(p, label) == pc' = [pc EXCEPT ![p] = label]

Holds(p, c, label) ==
    /\ cfg' = [cfg EXCEPT ![p] = c]
    /\ held' = [held EXCEPT ![p] = 0]
    /\ GoTo(p, label)

(* A call answers: what it held goes out of scope.                          *)
Done(p) == Holds(p, NoRow, "done")

(* Effective returns: the middleware goes on, the others answer.            *)
Found(p, c) == IF p \in Request THEN Holds(p, c, "stamp") ELSE Done(p)

---------------------------------------------------------------------------
(* Store.Effective                                                          *)

Reads(p) == pc[p] = "get" \/ (pc[p] = "arrive" /\ p \notin Admin)

Get(p) ==
    /\ Reads(p)
    /\ IF cached.until > now THEN Found(p, cached.cfg)
                             ELSE GoTo(p, "select") /\ UNCHANGED <<cfg, held>>
    /\ UNCHANGED <<now, store, cached, counters>>

Select(p) ==
    /\ pc[p] = "select"
    /\ IF row = NoRow THEN Found(p, NoRow) ELSE Holds(p, row, "store")
    /\ UNCHANGED <<now, store, cached, counters>>

(* Mutant of Cache: the copy never expires.                                 *)
CacheForever(c) == cached' = [cfg |-> c, until |-> MaxTime + 1]

Cache(c) == cached' = [cfg |-> c, until |-> now + CacheTTL]

(* The result of the SET is ignored.                                        *)
StoreCopy(p) ==
    /\ pc[p] = "store"
    /\ Cache(cfg[p]) \/ UNCHANGED cached
    /\ Found(p, cfg[p])
    /\ UNCHANGED <<now, store, counters>>

(* A GET, a SELECT or the pipeline fails: the response is an error.         *)
Fail(p) ==
    /\ Reads(p) \/ pc[p] \in {"select", "count"}
    /\ Done(p)
    /\ UNCHANGED <<now, store, cached, counters>>

---------------------------------------------------------------------------
(* Limiter.Allow                                                            *)

Bucket(w, t) == t \div Length[w]

Stamp(q) ==
    /\ pc[q] = "stamp"
    /\ stamp' = [stamp EXCEPT ![q] = now]
    /\ held' = [held EXCEPT ![q] = 0]
    /\ GoTo(q, "count")
    /\ UNCHANGED <<now, store, cached, count, expires, cfg, ticket>>

Counted(q, w) == ticket[q][w] > 0

(* INCR and EXPIRE of the next window; other clients' commands may come     *)
(* between those of one pipeline.                                           *)
Incr(q, w) ==
    LET b == Bucket(w, stamp[q])
        n == (IF expires[w][b] > now THEN count[w][b] ELSE 0) + 1
    IN  /\ pc[q] = "count"
        /\ ~Counted(q, w)
        /\ \A v \in 1 .. w - 1 : Counted(q, v)
        /\ count' = [count EXCEPT ![w][b] = n]
        /\ expires' = [expires EXCEPT ![w][b] = now + Expiry[w]]
        /\ ticket' = [ticket EXCEPT ![q][w] = n]
        /\ UNCHANGED <<now, store, cached, pc, cfg, held, stamp>>

(* Mutants of Over: the counter as it was before the INCR is compared; a    *)
(* request that reaches the limit is refused.                               *)
OverBefore(q, w) == ticket[q][w] - 1 > LimitsOf(cfg[q])[w]

OverAt(q, w) == ticket[q][w] >= LimitsOf(cfg[q])[w]

Over(q, w) == ticket[q][w] > LimitsOf(cfg[q])[w]

Decide(q) ==
    /\ pc[q] = "count"
    /\ \A w \in Window : Counted(q, w)
    /\ Holds(q, cfg[q], IF \E w \in Window : Over(q, w) THEN "refused" ELSE "admitted")
    /\ UNCHANGED <<now, store, cached, counters>>

(* The window a refusal names: the first one over its limit.                *)
Refusing(q, w) == Over(q, w) /\ \A v \in 1 .. w - 1 : ~Over(q, v)

(* Mutant of RetryAfter: the last second of the minute is left out.         *)
RetryAfterShort(q, w) ==
    IF w = 1 THEN Length[w] - 1 - (stamp[q] % Length[w]) ELSE Expiry[w]

RetryAfter(q, w) ==
    IF w = 1 THEN Length[w] - (stamp[q] % Length[w]) ELSE Expiry[w]

---------------------------------------------------------------------------
(* AdminSetUserRateLimit and AdminDeleteUserRateLimit                       *)

SetRow(c) == row' = c /\ last' = [last EXCEPT ![row] = now]

(* Mutant of Upsert: the limits are not looked at.                          *)
UpsertUnseen(lim) == SetRow(lim)

Upsert(lim) == Valid(lim) /\ SetRow(lim)

(* SetOverride: limits that are not valid change nothing; an error may be   *)
(* reported for an UPSERT that took effect.                                 *)
SetOverride(a, lim) ==
    /\ pc[a] = "arrive"
    /\ \/ Upsert(lim) /\ Holds(a, lim, "cache")
       \/ Upsert(lim) /\ Done(a)
       \/ Done(a) /\ UNCHANGED store
    /\ UNCHANGED <<now, cached, counters>>

(* Its SET; when that fails the answer is 400, although the row is written. *)
(* Otherwise the answer is what Effective then finds.                       *)
CacheOverride(a) ==
    /\ pc[a] = "cache"
    /\ \/ Cache(cfg[a]) /\ Holds(a, NoRow, "get")
       \/ UNCHANGED cached /\ Done(a)
    /\ UNCHANGED <<now, store, counters>>

ClearOverride(a) ==
    /\ pc[a] = "arrive"
    /\ \/ SetRow(NoRow) /\ (GoTo(a, "del") \/ GoTo(a, "done"))
       \/ GoTo(a, "done") /\ UNCHANGED store
    /\ UNCHANGED <<now, cached, counters, cfg, held>>

(* The DEL that follows the DELETE; its error is ignored.                   *)
DelCopy(a) ==
    /\ pc[a] = "del"
    /\ cached' = [cached EXCEPT !.until = 0] \/ UNCHANGED cached
    /\ GoTo(a, "done")
    /\ UNCHANGED <<now, store, counters, cfg, held>>

---------------------------------------------------------------------------
(* Time.                                                                    *)
Holding(p) == pc[p] \in {"store", "cache", "stamp", "count"}

Tick ==
    /\ now < MaxTime
    /\ \A p \in Proc : Holding(p) => held[p] < OpTicks
    /\ now' = now + 1
    /\ held' = [p \in Proc |-> IF Holding(p) THEN held[p] + 1 ELSE held[p]]
    /\ UNCHANGED <<store, cached, counters, pc, cfg>>

(* The clock has reached its bound and every call has returned.             *)
Idle ==
    /\ now = MaxTime
    /\ \A p \in Proc : pc[p] \in {"done", "admitted", "refused"}
    /\ UNCHANGED vars

Next ==
    \/ \E p \in Proc : Get(p) \/ Select(p) \/ StoreCopy(p) \/ Fail(p)
    \/ \E q \in Request :
          Stamp(q) \/ Decide(q) \/ \E w \in Window : Incr(q, w)
    \/ \E a \in Admin :
          \/ \E lim \in Asked : SetOverride(a, lim)
          \/ CacheOverride(a) \/ ClearOverride(a) \/ DelCopy(a)
    \/ Tick
    \/ Idle

Spec == Init /\ [][Next]_vars

---------------------------------------------------------------------------
(* Properties.                                                              *)

(* The stores and processes hold values of their kinds; a request on its    *)
(* way has noted a time not later than the clock.                           *)
TypeOK ==
    /\ now \in Time
    /\ row \in Config
    /\ last \in [Config -> Time]
    /\ cached \in [cfg : Config, until : Nat]
    /\ count \in [Window -> [Time -> Nat]]
    /\ expires \in [Window -> [Time -> Nat]]
    /\ pc \in [Proc -> {"arrive", "get", "select", "store", "stamp", "count", "cache", "del",
                        "admitted", "refused", "done"}]
    /\ cfg \in [Proc -> Config]
    /\ held \in [Proc -> Nat]
    /\ stamp \in [Request -> Time]
    /\ ticket \in [Request -> [Window -> Nat]]
    /\ \A p \in Proc : Holding(p) => held[p] <= OpTicks

SameBucket(q, r, w) == Bucket(w, stamp[q]) = Bucket(w, stamp[r])

Admitted == {q \in Request : pc[q] = "admitted"}

Cap(q, w) == LimitsOf(cfg[q])[w]

(* In every bucket of every window, of the requests admitted under a limit  *)
(* of at most n there are at most n -- although limits change meanwhile,    *)
(* pipelines interleave, and a request may increment a bucket that is over  *)
(* and whose counter is about to expire.                                    *)
CapPerBucket ==
    \A q \in Admitted : \A w \in Window :
        Cardinality({r \in Admitted : SameBucket(q, r, w) /\ Cap(r, w) <= Cap(q, w)})
            <= Cap(q, w)

(* A request is answered 429 for a window only when as many others as the   *)
(* limit allows have been counted in the same bucket.                       *)
RefusalJustified ==
    \A q \in Request : \A w \in Window :
        pc[q] = "refused" /\ Refusing(q, w) =>
            Cap(q, w) <= Cardinality({r \in Request \ {q} : Counted(r, w) /\ SameBucket(q, r, w)})

InForce(c) == IF c = row THEN now ELSE last[c]

(* A limit that has been replaced or cleared governs no request that takes  *)
(* its time more than CacheTTL and two round trips later, whatever loads    *)
(* and failed DELs put it back into Valkey.                                 *)
LimitsRecent ==
    \A q \in Request : pc[q] \in {"count", "admitted", "refused"} =>
        stamp[q] <= InForce(cfg[q]) + CacheTTL + 2 * OpTicks

(* A client that waits for Retry-After comes back in another bucket of the  *)
(* window that refused it.                                                  *)
RetryLeavesBucket ==
    \A q \in Request : \A w \in Window :
        pc[q] = "refused" /\ Refusing(q, w) =>
            Bucket(w, stamp[q] + RetryAfter(q, w)) > Bucket(w, stamp[q])
=============================================================================

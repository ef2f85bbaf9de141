--------------------------- MODULE RateLimitProofs --------------------------
(***************************************************************************)
(* Proofs about RateLimit, for any number of requests, readers, operators  *)
(* and windows.                                                            *)
(*                                                                         *)
(* The cap rests on the tickets: what two requests got from the INCRs of   *)
(* one bucket differs, because the bucket's counter cannot expire while a  *)
(* request of that bucket may still come (Tickets).  How long a limit      *)
(* governs after it was replaced rests on how old the copy in Valkey and   *)
(* the copies that processes hold may be (CopiesRecent).  A refusal is     *)
(* justified because every number up to a counter is somebody's ticket     *)
(* (Numbered).                                                             *)
(***************************************************************************)
EXTENDS RateLimit, TLAPS, FiniteSetTheorems

(* A quotient is a natural number not above its dividend.                   *)
LEMMA Quotient ==
    ASSUME NEW t \in Nat, NEW l \in Nat \ {0}
    PROVE  t \div l \in Nat /\ t \div l <= t
<1>1. t \div l \in Nat
  OBVIOUS
<1>2. t \div l <= t
  BY <1>1
<1> QED
  BY <1>1, <1>2

(* Two times with one quotient are less than the divisor apart.             *)
LEMMA SameQuotient ==
    ASSUME NEW t \in Nat, NEW u \in Nat, NEW l \in Nat \ {0}, t \div l = u \div l
    PROVE  t < u + l
OBVIOUS

(* Times are natural numbers.                                               *)
LEMMA TimeNat == Time \subseteq Nat
BY RateLimitAssumption DEF Time

(* So are expiries.                                                         *)
LEMMA ExpiryNat == \A w \in Window : Expiry[w] \in Nat
BY RateLimitAssumption

(* Bucket numbers stay within the bound on the clock.                       *)
LEMMA BucketType ==
    ASSUME NEW w \in Window, NEW t \in Time
    PROVE  Bucket(w, t) \in Time
<1>1. Length[w] \in Nat \ {0} /\ t \in Nat /\ t <= MaxTime /\ MaxTime \in Nat
  BY RateLimitAssumption DEF Time, Window
<1>2. t \div Length[w] \in Nat /\ t \div Length[w] <= t
  BY <1>1, Quotient
<1> QED
  BY <1>1, <1>2 DEF Bucket, Time

(* The times of one bucket lie less than the window's length apart.         *)
LEMMA BucketWidth ==
    ASSUME NEW w \in Window, NEW t \in Time, NEW u \in Time, Bucket(w, t) = Bucket(w, u)
    PROVE  t < u + Length[w]
<1>1. Length[w] \in Nat \ {0} /\ t \in Nat /\ u \in Nat
  BY RateLimitAssumption DEF Time, Window
<1> QED
  BY <1>1, SameQuotient DEF Bucket

---------------------------------------------------------------------------
(* Type correctness.                                                        *)

(* The initial state is well typed.                                         *)
LEMMA TypeInit == Init => TypeOK
BY RateLimitAssumption DEF Init, TypeOK, Config, Time, Holding

Label == {"arrive", "get", "select", "store", "stamp", "count", "cache", "del",
          "admitted", "refused", "done"}

(* The processes' part of TypeOK.                                           *)
ProcsOK ==
    /\ pc \in [Proc -> Label]
    /\ cfg \in [Proc -> Config]
    /\ held \in [Proc -> Nat]
    /\ \A p \in Proc : Holding(p) => held[p] <= OpTicks

(* Moving a process, with or without a configuration, keeps it.             *)
LEMMA HoldsOK ==
    ASSUME ProcsOK, NEW p \in Proc, NEW c \in Config, NEW l \in Label, Holds(p, c, l)
    PROVE  ProcsOK'
BY RateLimitAssumption DEF ProcsOK, Holds, GoTo, Holding

(* So does a move to a place where nothing is held.                         *)
LEMMA GoToOK ==
    ASSUME ProcsOK, NEW p \in Proc, NEW l \in Label, GoTo(p, l), UNCHANGED <<cfg, held>>,
           l \notin {"store", "cache", "stamp", "count"}
    PROVE  ProcsOK'
BY RateLimitAssumption DEF ProcsOK, GoTo, Holding

(* So does a return of Effective.                                           *)
LEMMA FoundOK ==
    ASSUME ProcsOK, NEW p \in Proc, NEW c \in Config, Found(p, c)
    PROVE  ProcsOK'
BY HoldsOK, NoRow \in Config, "stamp" \in Label, "done" \in Label DEF Found, Done, Config, Label

(* Every step keeps the types.                                              *)
LEMMA TypeNext == TypeOK /\ [Next]_vars => TypeOK'
<1> SUFFICES ASSUME TypeOK, [Next]_vars PROVE TypeOK'
  OBVIOUS
<1>n. NoRow \in Config /\ OpTicks \in Nat /\ CacheTTL \in Nat
  BY RateLimitAssumption DEF Config
<1>l. /\ "get" \in Label /\ "select" \in Label /\ "store" \in Label /\ "stamp" \in Label
      /\ "count" \in Label /\ "cache" \in Label /\ "del" \in Label /\ "admitted" \in Label
      /\ "refused" \in Label /\ "done" \in Label
  BY DEF Label
<1>p. ProcsOK
  BY DEF TypeOK, ProcsOK, Label
<1>s. ASSUME UNCHANGED <<now, store, cached, counters>>, ProcsOK' PROVE TypeOK'
  BY <1>s DEF TypeOK, ProcsOK, Label, store, counters
<1>1. ASSUME NEW p \in Proc, Get(p) PROVE TypeOK'
  <2>1. cached.cfg \in Config
    BY DEF TypeOK
  <2>2. ProcsOK'
    BY <1>1, <1>p, <1>l, <2>1, FoundOK, GoToOK DEF Get
  <2> QED
    BY <1>1, <1>s, <2>2 DEF Get
<1>2. ASSUME NEW p \in Proc, Select(p) PROVE TypeOK'
  <2>1. row \in Config
    BY DEF TypeOK
  <2>2. ProcsOK'
    BY <1>2, <1>p, <1>l, <1>n, <2>1, FoundOK, HoldsOK DEF Select
  <2> QED
    BY <1>2, <1>s, <2>2 DEF Select
<1>3. ASSUME NEW p \in Proc, StoreCopy(p) PROVE TypeOK'
  <2>1. cfg[p] \in Config /\ now + CacheTTL \in Nat
    BY <1>n, RateLimitAssumption DEF TypeOK, Time
  <2>2. ProcsOK'
    BY <1>3, <1>p, <2>1, FoundOK DEF StoreCopy
  <2>3. cached' \in [cfg : Config, until : Nat]
    BY <1>3, <2>1 DEF StoreCopy, Cache, TypeOK
  <2> QED
    BY <1>3, <2>2, <2>3 DEF StoreCopy, TypeOK, ProcsOK, Label, store, counters
<1>4. ASSUME NEW p \in Proc, Fail(p) PROVE TypeOK'
  <2>1. ProcsOK'
    BY <1>4, <1>p, <1>l, <1>n, HoldsOK DEF Fail, Done
  <2> QED
    BY <1>4, <1>s, <2>1 DEF Fail
<1>5. ASSUME NEW q \in Request, Stamp(q) PROVE TypeOK'
  BY <1>n, <1>5 DEF Stamp, GoTo, store, counters, Holding, Proc, TypeOK
<1>6. ASSUME NEW q \in Request, Decide(q) PROVE TypeOK'
  <2>1. q \in Proc /\ cfg[q] \in Config
    BY DEF Proc, TypeOK
  <2>2. ProcsOK'
    BY <1>6, <1>p, <1>l, <2>1, HoldsOK DEF Decide
  <2> QED
    BY <1>6, <1>s, <2>2 DEF Decide
<1>7. ASSUME NEW q \in Request, NEW w \in Window, Incr(q, w) PROVE TypeOK'
  <2> DEFINE b == Bucket(w, stamp[q])
             n == (IF expires[w][b] > now THEN count[w][b] ELSE 0) + 1
  <2>1. b \in Time
    BY BucketType DEF TypeOK
  <2> HIDE DEF b
  <2>a. count[w][b] \in Nat /\ expires[w][b] \in Nat /\ now \in Nat /\ Expiry[w] \in Nat
    BY <2>1, TimeNat, ExpiryNat DEF TypeOK
  <2>2. n \in Nat /\ now + Expiry[w] \in Nat
    BY <2>a
  <2> HIDE DEF n
  <2>3. /\ count' = [count EXCEPT ![w][b] = n]
        /\ expires' = [expires EXCEPT ![w][b] = now + Expiry[w]]
        /\ ticket' = [ticket EXCEPT ![q][w] = n]
        /\ UNCHANGED <<now, row, last, cached, pc, cfg, held, stamp>>
    BY <1>7 DEF Incr, store, b, n
  <2>4. count' \in [Window -> [Time -> Nat]]
    BY <2>1, <2>2, <2>3 DEF TypeOK
  <2>5. expires' \in [Window -> [Time -> Nat]]
    BY <2>1, <2>2, <2>3 DEF TypeOK
  <2>6. ticket' \in [Request -> [Window -> Nat]]
    BY <2>2, <2>3 DEF TypeOK
  <2> QED
    BY <2>3, <2>4, <2>5, <2>6 DEF TypeOK, Holding
<1>8. ASSUME NEW a \in Admin, NEW lim \in Asked, SetOverride(a, lim) PROVE TypeOK'
  <2>1. CASE Upsert(lim) /\ (Holds(a, lim, "cache") \/ Done(a))
    <3>1. a \in Proc /\ lim \in Config /\ last' \in [Config -> Time] /\ row' \in Config
      BY <2>1 DEF Proc, Config, Upsert, SetRow, TypeOK
    <3>2. ProcsOK'
      BY <2>1, <3>1, <1>p, <1>l, <1>n, HoldsOK DEF Done
    <3> QED
      BY <1>8, <3>1, <3>2 DEF SetOverride, TypeOK, ProcsOK, Label, counters
  <2>2. CASE Done(a) /\ UNCHANGED store
    <3>1. ProcsOK'
      BY <2>2, <1>p, <1>l, <1>n, HoldsOK DEF Done, Proc
    <3> QED
      BY <1>8, <1>s, <2>2, <3>1 DEF SetOverride
  <2> QED
    BY <1>8, <2>1, <2>2 DEF SetOverride
<1>9. ASSUME NEW a \in Admin, CacheOverride(a) PROVE TypeOK'
  <2>1. a \in Proc /\ cfg[a] \in Config /\ now + CacheTTL \in Nat
    BY <1>n, RateLimitAssumption DEF TypeOK, Time, Proc
  <2>2. ProcsOK'
    BY <1>9, <1>p, <1>l, <1>n, <2>1, HoldsOK DEF CacheOverride, Done
  <2>3. cached' \in [cfg : Config, until : Nat]
    BY <1>9, <2>1 DEF CacheOverride, Cache, TypeOK
  <2> QED
    BY <1>9, <2>2, <2>3 DEF CacheOverride, TypeOK, ProcsOK, Label, store, counters
<1>10. ASSUME NEW a \in Admin, ClearOverride(a) PROVE TypeOK'
  <2>1. ProcsOK'
    BY <1>10, <1>p, <1>l, GoToOK DEF ClearOverride, Proc
  <2>2. row' \in Config /\ last' \in [Config -> Time]
    BY <1>10, <1>n DEF ClearOverride, SetRow, store, TypeOK
  <2> QED
    BY <1>10, <2>1, <2>2 DEF ClearOverride, TypeOK, ProcsOK, Label, counters
<1>11. ASSUME NEW a \in Admin, DelCopy(a) PROVE TypeOK'
  <2>1. ProcsOK'
    BY <1>11, <1>p, <1>l, GoToOK DEF DelCopy, Proc
  <2>2. cached' \in [cfg : Config, until : Nat]
    BY <1>11 DEF DelCopy, TypeOK
  <2> QED
    BY <1>11, <2>1, <2>2 DEF DelCopy, TypeOK, ProcsOK, Label, store, counters
<1>12. ASSUME Tick PROVE TypeOK'
  <2>1. now' \in Time /\ held' \in [Proc -> Nat] /\ \A p \in Proc : Holding(p)' = Holding(p)
    BY <1>12, RateLimitAssumption DEF Tick, TypeOK, Time, Holding
  <2>2. \A p \in Proc : Holding(p) => held'[p] <= OpTicks
    BY <1>12, <1>n DEF Tick, TypeOK
  <2> QED
    BY <1>12, <2>1, <2>2 DEF Tick, TypeOK, store, counters
<1>13. ASSUME UNCHANGED vars PROVE TypeOK'
  BY <1>13 DEF vars, Holding, TypeOK
<1> QED
  BY <1>1, <1>2, <1>3, <1>4, <1>5, <1>6, <1>7, <1>8, <1>9, <1>10, <1>11, <1>12, <1>13
     DEF Next, Idle

(* The state of the rate limiter is always well typed, and no process sits  *)
(* on a limit or a time for longer than OpTicks.                            *)
THEOREM TypeCorrect == Spec => []TypeOK
BY TypeInit, TypeNext, PTL DEF Spec

---------------------------------------------------------------------------
(* The cap.                                                                 *)

Late == {"count", "admitted", "refused", "done"}

(* The inductive part: a ticket is at most its bucket's counter, whose      *)
(* expiry is a full Expiry after the stamp; tickets of a bucket differ.     *)
Tickets ==
    /\ \A q \in Request : \A w \in Window : Counted(q, w) =>
          /\ pc[q] \in Late
          /\ stamp[q] <= now
          /\ ticket[q][w] <= count[w][Bucket(w, stamp[q])]
          /\ stamp[q] + Expiry[w] <= expires[w][Bucket(w, stamp[q])]
    /\ \A q, r \in Request : \A w \in Window :
          q # r /\ Counted(q, w) /\ Counted(r, w) /\ SameBucket(q, r, w)
              => ticket[q][w] # ticket[r][w]
    /\ \A q \in Request : pc[q] = "count" => stamp[q] <= now /\ now <= stamp[q] + held[q]
    /\ \A q \in Admitted : \A w \in Window : Counted(q, w) /\ ~Over(q, w)

(* Nobody has a ticket at the start.                                        *)
LEMMA TicketsInit == Init => Tickets
BY DEF Init, Tickets, Counted, Admitted, Proc

(* What a step that counts nothing may do.                                  *)
Quiet ==
    /\ UNCHANGED counters
    /\ now' \in Nat /\ now <= now'
    /\ \A q \in Request :
          \/ /\ pc'[q] = pc[q] /\ cfg'[q] = cfg[q]
             /\ pc[q] = "count" => now' + held[q] = now + held'[q]
          \/ pc[q] \notin Late /\ pc'[q] \notin {"count", "admitted"}
          \/ pc[q] = "count" /\ pc'[q] \in {"refused", "done"}
          \/ /\ pc[q] = "count" /\ pc'[q] = "admitted" /\ cfg'[q] = cfg[q]
             /\ \A w \in Window : Counted(q, w) /\ ~Over(q, w)

(* A step that counts nothing keeps the tickets.                            *)
LEMMA QuietKeepsTickets ==
    ASSUME TypeOK, TypeOK', Tickets, Quiet
    PROVE  Tickets'
<1> USE DEF Quiet, counters
<1>1. \A q \in Request : \A w \in Window : Counted(q, w)' = Counted(q, w)
  BY DEF Counted
<1>2. \A q, r \in Request : \A w \in Window : SameBucket(q, r, w)' = SameBucket(q, r, w)
  BY DEF SameBucket, Bucket
<1>3. \A q \in Request : \A w \in Window : Counted(q, w)' =>
          /\ pc'[q] \in Late
          /\ stamp'[q] <= now'
          /\ ticket'[q][w] <= count'[w][Bucket(w, stamp'[q])]
          /\ stamp'[q] + Expiry[w] <= expires'[w][Bucket(w, stamp'[q])]
  <2> SUFFICES ASSUME NEW q \in Request, NEW w \in Window, Counted(q, w)
               PROVE  /\ pc'[q] \in Late
                      /\ stamp'[q] <= now'
                      /\ ticket'[q][w] <= count'[w][Bucket(w, stamp'[q])]
                      /\ stamp'[q] + Expiry[w] <= expires'[w][Bucket(w, stamp'[q])]
    BY <1>1
  <2>1. pc[q] \in Late /\ stamp[q] <= now
    BY DEF Tickets
  <2>2. pc'[q] \in Late
    BY <2>1 DEF Late
  <2>3. stamp[q] \in Nat /\ now \in Nat
    BY TimeNat DEF TypeOK
  <2>4. stamp'[q] <= now'
    BY <2>1, <2>3
  <2> QED
    BY <2>2, <2>4 DEF Tickets
<1>4. \A q, r \in Request : \A w \in Window :
          q # r /\ Counted(q, w)' /\ Counted(r, w)' /\ SameBucket(q, r, w)'
              => ticket'[q][w] # ticket'[r][w]
  BY <1>1, <1>2 DEF Tickets
<1>5. \A q \in Request : pc'[q] = "count" => stamp'[q] <= now' /\ now' <= stamp'[q] + held'[q]
  <2> SUFFICES ASSUME NEW q \in Request, pc'[q] = "count"
               PROVE  stamp'[q] <= now' /\ now' <= stamp'[q] + held'[q]
    OBVIOUS
  <2>1. pc[q] = "count" /\ now' + held[q] = now + held'[q]
    BY DEF Late
  <2>2. stamp[q] <= now /\ now <= stamp[q] + held[q]
    BY <2>1 DEF Tickets
  <2>3. /\ now \in Nat /\ now' \in Nat /\ stamp[q] \in Nat /\ held[q] \in Nat /\ held'[q] \in Nat
    BY DEF TypeOK, Time, Proc
  <2> QED
    BY <2>1, <2>2, <2>3
<1>6. \A q \in Admitted' : \A w \in Window : Counted(q, w)' /\ ~Over(q, w)'
  <2> SUFFICES ASSUME NEW q \in Request, pc'[q] = "admitted", NEW w \in Window
               PROVE  Counted(q, w)' /\ ~Over(q, w)'
    BY DEF Admitted
  <2>1. Counted(q, w) /\ ~Over(q, w) /\ cfg'[q] = cfg[q]
    BY DEF Tickets, Admitted, Late
  <2> QED
    BY <2>1, <1>1 DEF Over, LimitsOf
<1> QED
  BY <1>3, <1>4, <1>5, <1>6 DEF Tickets

(* A bucket's counter is alive as long as a request of it may come.         *)
LEMMA CounterAlive ==
    ASSUME TypeOK, Tickets, NEW q \in Request, NEW r \in Request, NEW w \in Window,
           pc[q] = "count", Counted(r, w), SameBucket(q, r, w)
    PROVE  expires[w][Bucket(w, stamp[q])] > now
<1>1. stamp[q] \in Time /\ stamp[r] \in Time /\ now \in Nat /\ held[q] \in Nat
  BY DEF TypeOK, Proc, Time
<1>2. stamp[q] < stamp[r] + Length[w]
  BY <1>1, BucketWidth DEF SameBucket
<1>3. held[q] <= OpTicks
  BY DEF TypeOK, Proc, Holding
<1>4. now <= stamp[q] + held[q]
  BY DEF Tickets
<1>5. stamp[r] + Expiry[w] <= expires[w][Bucket(w, stamp[q])]
  BY DEF Tickets, SameBucket
<1>6. Bucket(w, stamp[q]) \in Time
  BY <1>1, BucketType
<1>7. expires[w][Bucket(w, stamp[q])] \in Nat
  BY <1>6 DEF TypeOK
<1>8. Length[w] \in Nat /\ Expiry[w] \in Nat /\ OpTicks \in Nat /\ Length[w] + OpTicks <= Expiry[w]
  BY RateLimitAssumption
<1> QED
  BY <1>1, <1>2, <1>3, <1>4, <1>5, <1>7, <1>8 DEF Time

(* An INCR hands out a ticket nobody else has in that bucket: the counter   *)
(* cannot have expired under those who hold one, as less time than the      *)
(* expiry has passed since the last of them.                                *)
LEMMA IncrKeepsTickets ==
    ASSUME TypeOK, Tickets, NEW q \in Request, NEW w \in Window, Incr(q, w)
    PROVE  Tickets'
<1> DEFINE b == Bucket(w, stamp[q])
           n == (IF expires[w][b] > now THEN count[w][b] ELSE 0) + 1
<1>1. b \in Time /\ now \in Nat
  BY BucketType DEF TypeOK, Time
<1>2. /\ pc[q] = "count" /\ ~Counted(q, w)
      /\ count' = [count EXCEPT ![w][b] = n]
      /\ expires' = [expires EXCEPT ![w][b] = now + Expiry[w]]
      /\ ticket' = [ticket EXCEPT ![q][w] = n]
      /\ UNCHANGED <<now, pc, cfg, held, stamp>>
  BY DEF Incr, b, n
<1>a. \A r \in Request : Counted(r, w) /\ SameBucket(q, r, w) => ticket[r][w] < n
  <2> SUFFICES ASSUME NEW r \in Request, Counted(r, w), SameBucket(q, r, w)
               PROVE  ticket[r][w] < n
    OBVIOUS
  <2>1. expires[w][b] > now
    BY <1>2, CounterAlive
  <2>2. ticket[r][w] <= count[w][b]
    BY DEF Tickets, SameBucket
  <2> HIDE DEF b
  <2>3. ticket[r][w] \in Nat /\ count[w][b] \in Nat
    BY <1>1 DEF TypeOK
  <2> QED
    BY <2>1, <2>2, <2>3
<1>3. /\ count[w][b] \in Nat /\ expires[w][b] \in Nat /\ Expiry[w] \in Nat
  <2> HIDE DEF b
  <2> QED
    BY <1>1, RateLimitAssumption DEF TypeOK
<1>4. n \in Nat /\ n > 0
  BY <1>1, <1>3
<1> HIDE DEF n
<1>5. \A r \in Request : \A v \in Window : SameBucket(q, r, v)' = SameBucket(q, r, v)
  BY <1>2 DEF SameBucket, Bucket
<1>6. \A r \in Request : \A v \in Window :
          ticket'[r][v] = IF r = q /\ v = w THEN n ELSE ticket[r][v]
  BY <1>2 DEF TypeOK
<1>7. \A r \in Request : \A v \in Window : Counted(r, v)' = (Counted(r, v) \/ (r = q /\ v = w))
  BY <1>4, <1>6 DEF Counted
<1>8. \A v \in Window : \A c \in Time :
          /\ count'[v][c] = IF v = w /\ c = b THEN n ELSE count[v][c]
          /\ expires'[v][c] = IF v = w /\ c = b THEN now + Expiry[w] ELSE expires[v][c]
  <2> HIDE DEF b
  <2> QED
    BY <1>1, <1>2 DEF TypeOK
<1>9. \A r \in Request : \A v \in Window : Counted(r, v)' =>
          /\ pc'[r] \in Late
          /\ stamp'[r] <= now'
          /\ ticket'[r][v] <= count'[v][Bucket(v, stamp'[r])]
          /\ stamp'[r] + Expiry[v] <= expires'[v][Bucket(v, stamp'[r])]
  <2> SUFFICES ASSUME NEW r \in Request, NEW v \in Window, Counted(r, v)'
               PROVE  /\ pc[r] \in Late
                      /\ stamp[r] <= now
                      /\ ticket'[r][v] <= count'[v][Bucket(v, stamp[r])]
                      /\ stamp[r] + Expiry[v] <= expires'[v][Bucket(v, stamp[r])]
    BY <1>2
  <2>0. stamp[r] \in Time
    BY DEF TypeOK
  <2>1. Bucket(v, stamp[r]) \in Time /\ stamp[r] \in Nat /\ Expiry[v] \in Nat
    BY <2>0, BucketType, TimeNat, ExpiryNat
  <2>2. CASE r = q /\ v = w
    <3>1. stamp[q] <= now /\ pc[q] \in Late
      BY <1>2 DEF Tickets, Late
    <3> QED
      BY <1>1, <1>3, <1>4, <1>6, <1>8, <2>1, <2>2, <3>1
  <2>3. CASE ~(r = q /\ v = w)
    <3>1. Counted(r, v)
      BY <1>7, <2>3
    <3>2. /\ pc[r] \in Late
          /\ stamp[r] <= now
          /\ ticket[r][v] <= count[v][Bucket(v, stamp[r])]
          /\ stamp[r] + Expiry[v] <= expires[v][Bucket(v, stamp[r])]
      BY <3>1 DEF Tickets
    <3>3. ticket[r][v] \in Nat /\ ticket'[r][v] = ticket[r][v]
      BY <1>6, <2>3 DEF TypeOK
    <3>4. CASE v = w /\ Bucket(v, stamp[r]) = b
      <4>1. SameBucket(q, r, w)
        BY <3>4 DEF SameBucket
      <4>2. ticket[r][v] < n
        BY <1>a, <3>1, <3>4, <4>1
      <4> QED
        BY <1>1, <1>3, <1>4, <1>8, <2>1, <3>2, <3>3, <3>4, <4>2
    <3>5. CASE ~(v = w /\ Bucket(v, stamp[r]) = b)
      BY <1>8, <2>1, <3>2, <3>3, <3>5
    <3> QED
      BY <3>4, <3>5
  <2> QED
    BY <2>2, <2>3
<1>10. \A r, t \in Request : \A v \in Window :
          r # t /\ Counted(r, v)' /\ Counted(t, v)' /\ SameBucket(r, t, v)'
              => ticket'[r][v] # ticket'[t][v]
  <2> SUFFICES ASSUME NEW r \in Request, NEW t \in Request, NEW v \in Window,
                      r # t, Counted(r, v)', Counted(t, v)', SameBucket(r, t, v)'
               PROVE  ticket'[r][v] # ticket'[t][v]
    OBVIOUS
  <2>0. SameBucket(r, t, v)
    BY <1>2 DEF SameBucket, Bucket
  <2>1. CASE v = w /\ r = q
    <3>1. Counted(t, w) /\ SameBucket(q, t, w) /\ ticket[t][w] \in Nat
      BY <1>7, <2>0, <2>1 DEF TypeOK
    <3> QED
      BY <1>4, <1>6, <1>a, <2>1, <3>1
  <2>2. CASE v = w /\ t = q
    <3>1. Counted(r, w) /\ SameBucket(q, r, w) /\ ticket[r][w] \in Nat
      BY <1>7, <2>0, <2>2 DEF TypeOK, SameBucket
    <3> QED
      BY <1>4, <1>6, <1>a, <2>2, <3>1
  <2>3. CASE v # w \/ (r # q /\ t # q)
    <3>1. /\ Counted(r, v) /\ Counted(t, v)
          /\ ticket'[r][v] = ticket[r][v] /\ ticket'[t][v] = ticket[t][v]
      BY <1>6, <1>7, <2>3
    <3> QED
      BY <2>0, <3>1 DEF Tickets
  <2> QED
    BY <2>1, <2>2, <2>3
<1>11. \A r \in Request : pc'[r] = "count" => stamp'[r] <= now' /\ now' <= stamp'[r] + held'[r]
  BY <1>2 DEF Tickets
<1>12. \A r \in Admitted' : \A v \in Window : Counted(r, v)' /\ ~Over(r, v)'
  <2> SUFFICES ASSUME NEW r \in Request, pc[r] = "admitted", NEW v \in Window
               PROVE  Counted(r, v)' /\ ~Over(r, v)'
    BY <1>2 DEF Admitted
  <2>1. Counted(r, v) /\ ~Over(r, v)
    BY DEF Tickets, Admitted
  <2>2. r # q
    BY <1>2
  <2> QED
    BY <1>2, <1>6, <1>7, <2>1, <2>2 DEF Over, LimitsOf
<1> QED
  BY <1>9, <1>10, <1>11, <1>12 DEF Tickets

(* A request that notes its time has no ticket yet.                         *)
LEMMA StampKeepsTickets ==
    ASSUME TypeOK, Tickets, NEW q \in Request, Stamp(q)
    PROVE  Tickets'
<1>1. /\ pc[q] = "stamp" /\ pc' = [pc EXCEPT ![q] = "count"]
      /\ stamp' = [stamp EXCEPT ![q] = now] /\ held' = [held EXCEPT ![q] = 0]
      /\ UNCHANGED <<now, count, expires, cfg, ticket>>
  BY DEF Stamp, GoTo
<1>2. \A w \in Window : ~Counted(q, w)
  BY <1>1 DEF Tickets, Late
<1>3. \A r \in Request : r # q => /\ stamp'[r] = stamp[r] /\ pc'[r] = pc[r] /\ held'[r] = held[r]
  BY <1>1 DEF TypeOK, Proc
<1>4. \A r \in Request : \A w \in Window : Counted(r, w)' = Counted(r, w)
  BY <1>1 DEF Counted
<1>5. q \in Proc /\ stamp'[q] = now /\ pc'[q] = "count" /\ held'[q] = 0 /\ now \in Nat
  BY <1>1, TimeNat DEF TypeOK, Proc
<1>6. \A r \in Request : \A w \in Window : Counted(r, w)' =>
          /\ pc'[r] \in Late
          /\ stamp'[r] <= now'
          /\ ticket'[r][w] <= count'[w][Bucket(w, stamp'[r])]
          /\ stamp'[r] + Expiry[w] <= expires'[w][Bucket(w, stamp'[r])]
  BY <1>1, <1>2, <1>3, <1>4 DEF Tickets
<1>7. \A r, t \in Request : \A w \in Window :
          r # t /\ Counted(r, w)' /\ Counted(t, w)' /\ SameBucket(r, t, w)'
              => ticket'[r][w] # ticket'[t][w]
  <2> SUFFICES ASSUME NEW r \in Request, NEW t \in Request, NEW w \in Window,
                      r # t, Counted(r, w)', Counted(t, w)', SameBucket(r, t, w)'
               PROVE  ticket'[r][w] # ticket'[t][w]
    OBVIOUS
  <2>1. Counted(r, w) /\ Counted(t, w) /\ r # q /\ t # q
    BY <1>2, <1>4
  <2>2. SameBucket(r, t, w)
    BY <1>3, <2>1 DEF SameBucket, Bucket
  <2> QED
    BY <1>1, <2>1, <2>2 DEF Tickets
<1>8. \A r \in Request : pc'[r] = "count" => stamp'[r] <= now' /\ now' <= stamp'[r] + held'[r]
  BY <1>1, <1>3, <1>5 DEF Tickets
<1>9. \A r \in Admitted' : \A w \in Window : Counted(r, w)' /\ ~Over(r, w)'
  BY <1>1, <1>3, <1>4, <1>5 DEF Admitted, Tickets, Over, LimitsOf
<1> QED
  BY <1>6, <1>7, <1>8, <1>9 DEF Tickets

(* Every step keeps the tickets.                                            *)
LEMMA TicketsNext == TypeOK /\ TypeOK' /\ Tickets /\ [Next]_vars => Tickets'
<1> SUFFICES ASSUME TypeOK, TypeOK', Tickets, [Next]_vars PROVE Tickets'
  OBVIOUS
<1>n. now \in Nat
  BY TimeNat DEF TypeOK
<1>t. pc \in [Proc -> Label] /\ cfg \in [Proc -> Config] /\ held \in [Proc -> Nat] /\ Request \subseteq Proc
  BY DEF TypeOK, Label, Proc
(* One process moves, from before the count or out of it.                   *)
<1>q. ASSUME NEW p \in Proc, NEW c, NEW l, NEW h, UNCHANGED <<now, counters>>,
             pc' = [pc EXCEPT ![p] = l], cfg' = [cfg EXCEPT ![p] = c], held' = [held EXCEPT ![p] = h],
             \/ pc[p] \notin Late /\ l \notin {"count", "admitted"}
             \/ pc[p] = "count" /\ l \in {"refused", "done"}
             \/ p \notin Request
      PROVE  Tickets'
  <2>1. Quiet
    BY <1>n, <1>t, <1>q DEF Quiet
  <2> QED
    BY <2>1, QuietKeepsTickets
<1>k. ASSUME NEW p \in Proc PROVE cfg = [cfg EXCEPT ![p] = cfg[p]] /\ held = [held EXCEPT ![p] = held[p]]
  BY <1>t
<1>1. ASSUME NEW p \in Proc, Get(p) PROVE Tickets'
  BY <1>1, <1>q, <1>k DEF Get, Reads, Found, Done, Holds, GoTo, Late
<1>2. ASSUME NEW p \in Proc, Select(p) PROVE Tickets'
  BY <1>2, <1>q DEF Select, Found, Done, Holds, GoTo, Late
<1>3. ASSUME NEW p \in Proc, StoreCopy(p) PROVE Tickets'
  BY <1>3, <1>q DEF StoreCopy, Found, Done, Holds, GoTo, Late
<1>4. ASSUME NEW p \in Proc, Fail(p) PROVE Tickets'
  BY <1>4, <1>q DEF Fail, Reads, Done, Holds, GoTo, Late
<1>5. ASSUME NEW q \in Request, Stamp(q) PROVE Tickets'
  BY <1>5, StampKeepsTickets
<1>6. ASSUME NEW q \in Request, Decide(q) PROVE Tickets'
  <2>1. CASE \E w \in Window : Over(q, w)
    BY <1>6, <1>q, <1>t, <2>1 DEF Decide, Holds, GoTo
  <2>2. CASE ~\E w \in Window : Over(q, w)
    <3>1. Quiet
      BY <1>6, <1>n, <1>t, <2>2 DEF Quiet, Decide, Holds, GoTo
    <3> QED
      BY <3>1, QuietKeepsTickets
  <2> QED
    BY <2>1, <2>2
<1>7. ASSUME NEW q \in Request, NEW w \in Window, Incr(q, w) PROVE Tickets'
  BY <1>7, IncrKeepsTickets
<1>8. ASSUME NEW a \in Admin,
             \/ \E lim \in Asked : SetOverride(a, lim)
             \/ CacheOverride(a) \/ ClearOverride(a) \/ DelCopy(a)
      PROVE  Tickets'
  <2>1. a \in Proc /\ a \notin Request
    BY RateLimitAssumption DEF Proc
  <2> QED
    BY <1>8, <1>q, <1>k, <2>1
       DEF SetOverride, CacheOverride, ClearOverride, DelCopy, Holds, Done, GoTo
<1>12. ASSUME Tick PROVE Tickets'
  <2>1. \A q \in Request : pc[q] = "count" => held'[q] = held[q] + 1
    BY <1>12, <1>t DEF Tick, Holding
  <2>2. Quiet
    BY <1>12, <1>n, <1>t, <2>1 DEF Quiet, Tick
  <2> QED
    BY <2>2, QuietKeepsTickets
<1>13. ASSUME UNCHANGED vars PROVE Tickets'
  <2>1. Quiet
    BY <1>13, <1>n DEF Quiet, vars, counters
  <2> QED
    BY <2>1, QuietKeepsTickets
<1> QED
  BY <1>1, <1>2, <1>3, <1>4, <1>5, <1>6, <1>7, <1>8, <1>12, <1>13 DEF Next, Idle

(* Limits are integers.                                                     *)
LEMMA LimitsType == \A c \in Config : LimitsOf(c) \in [Window -> Int]
BY RateLimitAssumption DEF LimitsOf, Config

(* Distinct positive tickets that do not exceed the cap are at most as many *)
(* as the cap.                                                              *)
LEMMA TicketsCap == TypeOK /\ Tickets => CapPerBucket
<1> SUFFICES ASSUME TypeOK, Tickets, NEW q \in Admitted, NEW w \in Window
             PROVE  Cardinality({r \in Admitted : SameBucket(q, r, w) /\ Cap(r, w) <= Cap(q, w)})
                        <= Cap(q, w)
  BY DEF CapPerBucket
<1> DEFINE S == {r \in Admitted : SameBucket(q, r, w) /\ Cap(r, w) <= Cap(q, w)}
           f == [r \in S |-> ticket[r][w]]
<1>1. \A r \in Admitted : /\ r \in Request /\ Cap(r, w) \in Int /\ ticket[r][w] \in Nat
                          /\ Counted(r, w) /\ ticket[r][w] > 0 /\ ticket[r][w] <= Cap(r, w)
  <2> SUFFICES ASSUME NEW r \in Admitted
               PROVE  /\ r \in Request /\ Cap(r, w) \in Int /\ ticket[r][w] \in Nat
                      /\ Counted(r, w) /\ ticket[r][w] > 0 /\ ticket[r][w] <= Cap(r, w)
    OBVIOUS
  <2>1. r \in Request /\ cfg[r] \in Config /\ ticket[r][w] \in Nat
    BY DEF Admitted, TypeOK, Proc
  <2>2. Cap(r, w) \in Int
    BY <2>1, LimitsType DEF Cap
  <2>3. Counted(r, w) /\ ~Over(r, w)
    BY DEF Tickets
  <2> QED
    BY <2>1, <2>2, <2>3 DEF Counted, Over, Cap
<1>2. Cap(q, w) \in Nat
  BY <1>1
<1>3. \A r \in S : ticket[r][w] \in 1 .. Cap(q, w)
  BY <1>1, <1>2
<1>4. \A r, t \in S : r # t => ticket[r][w] # ticket[t][w]
  <2> SUFFICES ASSUME NEW r \in S, NEW t \in S, r # t PROVE ticket[r][w] # ticket[t][w]
    OBVIOUS
  <2>1. SameBucket(r, t, w)
    BY DEF SameBucket
  <2> QED
    BY <1>1, <2>1 DEF Tickets
<1>5. f \in Injection(S, 1 .. Cap(q, w))
  <2>1. f \in [S -> 1 .. Cap(q, w)]
    BY <1>3
  <2>2. \A r, t \in S : f[r] = f[t] => r = t
    BY <1>4
  <2> HIDE DEF f, S
  <2> QED
    BY <2>1, <2>2 DEF Injection, IsInjective
<1>6. IsFiniteSet(1 .. Cap(q, w)) /\ Cardinality(1 .. Cap(q, w)) = Cap(q, w)
  BY <1>2, FS_Interval
<1> HIDE DEF f, S
<1>7. Cardinality(S) <= Cardinality(1 .. Cap(q, w))
  BY <1>5, <1>6, FS_Injection
<1> QED
  BY <1>6, <1>7 DEF S

(* In no bucket of any window are more requests admitted than the limit     *)
(* they were measured by allows, for any number of concurrent requests and  *)
(* changes of the limit, if a counter outlives its window by the time a     *)
(* request may take between its stamp and its INCR.                         *)
THEOREM CapTheorem == Spec => []CapPerBucket
<1>1. Init => Tickets
  BY TicketsInit
<1>2. TypeOK /\ TypeOK' /\ Tickets /\ [Next]_vars => Tickets'
  BY TicketsNext
<1>3. TypeOK /\ Tickets => CapPerBucket
  BY TicketsCap
<1> QED
  BY <1>1, <1>2, <1>3, TypeCorrect, PTL DEF Spec

---------------------------------------------------------------------------
(* How long a limit that was replaced goes on governing.                    *)

(* The copies a process may hold: what it read from the row, what it may    *)
(* have read from Valkey, and what a request was measured by.               *)
CopyRecent(p) ==
    /\ pc[p] \in {"store", "cache"} => now <= InForce(cfg[p]) + held[p]
    /\ pc[p] = "stamp" => now <= InForce(cfg[p]) + CacheTTL + OpTicks + held[p]
    /\ p \in Request /\ pc[p] \in {"count", "admitted", "refused"} =>
          stamp[p] <= InForce(cfg[p]) + CacheTTL + 2 * OpTicks

CopiesRecent ==
    /\ \A c \in Config : last[c] <= now
    /\ cached.until <= InForce(cached.cfg) + CacheTTL + OpTicks
    /\ \A p \in Proc : CopyRecent(p)

(* A configuration was last in force at some time.                          *)
LEMMA InForceType == TypeOK => \A c \in Config : InForce(c) \in Nat
BY TimeNat DEF TypeOK, InForce

(* No copy is old at the start.                                             *)
LEMMA RecentInit == Init => CopiesRecent
<1> SUFFICES ASSUME Init PROVE CopiesRecent
  OBVIOUS
<1>1. NoRow \in Config /\ CacheTTL \in Nat /\ OpTicks \in Nat
  BY RateLimitAssumption DEF Config
<1>2. InForce(NoRow) = 0
  BY <1>1 DEF Init, InForce
<1> QED
  BY <1>1, <1>2 DEF Init, CopiesRecent, CopyRecent

(* Now and the times a configuration was in force are natural numbers, in   *)
(* both states of a step.                                                   *)
LEMMA InForceTypes ==
    ASSUME TypeOK, TypeOK'
    PROVE  \A c \in Config : InForce(c) \in Nat /\ InForce(c)' \in Nat
BY TimeNat DEF TypeOK, InForce

(* A step in which no limit gets older keeps what it does not touch.        *)
LEMMA CopyKept ==
    ASSUME TypeOK, TypeOK', NEW p \in Proc, CopyRecent(p), UNCHANGED now,
           \A c \in Config : InForce(c)' >= InForce(c),
           pc'[p] = pc[p], cfg'[p] = cfg[p], held'[p] = held[p], p \in Request => stamp'[p] = stamp[p]
    PROVE  CopyRecent(p)'
<1>1. PICK c \in Config : c = cfg[p]
  BY DEF TypeOK
<1>2. InForce(c) \in Nat /\ InForce(c)' \in Nat /\ InForce(c)' >= InForce(c)
  BY InForceTypes
<1>3. InForce(cfg[p]) = InForce(c) /\ InForce(cfg[p])' = InForce(c)'
  BY <1>1 DEF InForce
<1>4. now \in Nat /\ held[p] \in Nat /\ CacheTTL \in Nat /\ OpTicks \in Nat /\ (p \in Request => stamp[p] \in Nat)
  BY TimeNat, RateLimitAssumption DEF TypeOK
<1> QED
  BY <1>2, <1>3, <1>4 DEF CopyRecent

CachedRecent == cached.until <= InForce(cached.cfg) + CacheTTL + OpTicks

(* What a step of one process must show for the copies to stay recent.      *)
LEMMA OneMoves ==
    ASSUME TypeOK, TypeOK', CopiesRecent, UNCHANGED now, NEW x \in Proc,
           \A c \in Config : InForce(c)' >= InForce(c) /\ last'[c] <= now,
           CachedRecent', CopyRecent(x)',
           \A p \in Proc \ {x} :
               /\ pc'[p] = pc[p] /\ cfg'[p] = cfg[p] /\ held'[p] = held[p]
               /\ p \in Request => stamp'[p] = stamp[p]
    PROVE  CopiesRecent'
<1>1. ASSUME NEW p \in Proc \ {x} PROVE CopyRecent(p)'
  BY CopyKept DEF CopiesRecent
<1> QED
  BY <1>1 DEF CopiesRecent, CachedRecent

(* A step that leaves the clock and the row alone changes no age.           *)
LEMMA SameAges ==
    ASSUME TypeOK, CopiesRecent, UNCHANGED <<now, store>>
    PROVE  \A c \in Config : InForce(c)' = InForce(c) /\ InForce(c)' >= InForce(c) /\ last'[c] <= now
<1>1. now' = now /\ row' = row /\ last' = last /\ \A c \in Config : last[c] <= now
  BY DEF store, CopiesRecent
<1>2. \A c \in Config : InForce(c) \in Nat
  BY InForceType
<1>3. \A c \in Config : InForce(c)' = InForce(c)
  BY <1>1 DEF InForce
<1> QED
  BY <1>1, <1>2, <1>3

(* Replacing the row makes no configuration older, and the new one's age    *)
(* is now.                                                                  *)
LEMMA SetRowAges ==
    ASSUME TypeOK, CopiesRecent, UNCHANGED now, NEW c \in Config, SetRow(c)
    PROVE  /\ \A d \in Config : InForce(d)' >= InForce(d) /\ last'[d] <= now
           /\ InForce(c)' = now
<1>1. now \in Nat /\ row \in Config /\ last \in [Config -> Nat] /\ row' = c
      /\ last' = [last EXCEPT ![row] = now] /\ (\A d \in Config : last[d] <= now)
  BY TimeNat DEF TypeOK, CopiesRecent, SetRow
<1> QED
  BY <1>1 DEF InForce

(* The copy in Valkey stays recent when it is left alone or dropped, and    *)
(* becomes recent when it is written.                                       *)
LEMMA CachedKept ==
    ASSUME TypeOK, TypeOK', CopiesRecent, \A c \in Config : InForce(c)' >= InForce(c),
           UNCHANGED cached \/ cached' = [cached EXCEPT !.until = 0]
    PROVE  CachedRecent'
<1>1. PICK c \in Config : c = cached.cfg
  BY DEF TypeOK
<1>2. InForce(c) \in Nat /\ InForce(c)' \in Nat /\ InForce(c)' >= InForce(c)
  BY InForceTypes
<1>3. cached'.cfg = cached.cfg /\ cached.until \in Nat /\ (cached'.until = cached.until \/ cached'.until = 0)
  BY DEF TypeOK
<1>4. InForce(cached.cfg) = InForce(c) /\ InForce(cached.cfg)' = InForce(c)'
  BY <1>1, <1>3 DEF InForce
<1>5. CacheTTL \in Nat /\ OpTicks \in Nat
  BY RateLimitAssumption
<1> QED
  BY <1>2, <1>3, <1>4, <1>5 DEF CopiesRecent, CachedRecent

(* A copy written to Valkey is as recent as its writer's.                   *)
LEMMA CachedWritten ==
    ASSUME TypeOK, TypeOK', CopiesRecent, UNCHANGED <<now, store>>, NEW p \in Proc,
           pc[p] \in {"store", "cache"}, Cache(cfg[p])
    PROVE  CachedRecent'
<1>1. PICK c \in Config : c = cfg[p]
  BY DEF TypeOK
<1>2. InForce(c) \in Nat /\ InForce(c)' = InForce(c)
  BY InForceTypes, SameAges
<1>3. cached'.cfg = c /\ cached'.until = now + CacheTTL
  BY <1>1 DEF Cache
<1>4. now <= InForce(c) + held[p]
  BY <1>1 DEF CopiesRecent, CopyRecent
<1>5. held[p] \in Nat /\ held[p] <= OpTicks /\ now \in Nat /\ CacheTTL \in Nat /\ OpTicks \in Nat
  BY TimeNat, RateLimitAssumption DEF TypeOK, Holding
<1>6. InForce(cached.cfg)' = InForce(c)'
  BY <1>3 DEF InForce
<1> QED
  BY <1>2, <1>3, <1>4, <1>5, <1>6 DEF CachedRecent

(* A process that holds no limit has nothing to show.                       *)
LEMMA NothingHeld ==
    ASSUME NEW p \in Proc, pc'[p] \notin {"store", "cache", "stamp", "count", "admitted", "refused"}
    PROVE  CopyRecent(p)'
BY DEF CopyRecent

(* Effective hands a process a limit young enough to be used.               *)
LEMMA FoundRecent ==
    ASSUME TypeOK, TypeOK', UNCHANGED <<now, store>>, CopiesRecent, NEW p \in Proc, NEW c \in Config,
           Found(p, c), now <= InForce(c) + CacheTTL + OpTicks
    PROVE  CopyRecent(p)'
<1>1. CASE p \in Request
  <2>1. pc'[p] = "stamp" /\ cfg'[p] = c /\ held'[p] = 0
    BY <1>1 DEF Found, Holds, GoTo, TypeOK
  <2>2. InForce(c) \in Nat /\ InForce(c)' = InForce(c) /\ now' = now /\ now \in Nat
    BY InForceTypes, SameAges, TimeNat DEF TypeOK
  <2>3. InForce(cfg[p])' = InForce(c)'
    BY <2>1 DEF InForce
  <2>4. CacheTTL \in Nat /\ OpTicks \in Nat
    BY RateLimitAssumption
  <2> QED
    BY <2>1, <2>2, <2>3, <2>4 DEF CopyRecent
<1>2. CASE p \notin Request
  <2>1. pc'[p] = "done"
    BY <1>2 DEF Found, Done, Holds, GoTo, TypeOK
  <2> QED
    BY <2>1, NothingHeld
<1> QED
  BY <1>1, <1>2

(* Finding a limit touches no other process.                                *)
LEMMA FoundOthers ==
    ASSUME TypeOK, NEW p \in Proc, NEW c, Found(p, c)
    PROVE  \A r \in Proc \ {p} : pc'[r] = pc[r] /\ cfg'[r] = cfg[r] /\ held'[r] = held[r]
BY DEF Found, Done, Holds, GoTo, TypeOK

(* Holds moves one process only.                                            *)
LEMMA HoldsOthers ==
    ASSUME TypeOK, NEW p \in Proc, NEW c, NEW l, Holds(p, c, l)
    PROVE  /\ pc'[p] = l /\ cfg'[p] = c /\ held'[p] = 0
           /\ \A r \in Proc \ {p} : pc'[r] = pc[r] /\ cfg'[r] = cfg[r] /\ held'[r] = held[r]
BY DEF Holds, GoTo, TypeOK

(* A request takes the limits from the copy while it lives.                 *)
LEMMA GetRecent ==
    ASSUME TypeOK, TypeOK', CopiesRecent, NEW p \in Proc, Get(p)
    PROVE  CopiesRecent'
<1> USE DEF Get
<1>1. UNCHANGED <<now, store, cached, counters>>
  OBVIOUS
<1>2. CachedRecent' /\ \A c \in Config : InForce(c)' >= InForce(c) /\ last'[c] <= now
  BY <1>1, SameAges, CachedKept
<1>3. CopyRecent(p)' /\ \A r \in Proc \ {p} : pc'[r] = pc[r] /\ cfg'[r] = cfg[r] /\ held'[r] = held[r]
  <2>1. CASE cached.until > now
    <3>1. cached.cfg \in Config /\ cached.until \in Nat /\ now \in Nat
      BY TimeNat DEF TypeOK
    <3>2. InForce(cached.cfg) \in Nat /\ CacheTTL \in Nat /\ OpTicks \in Nat
      BY <3>1, InForceType, RateLimitAssumption
    <3>3. now <= InForce(cached.cfg) + CacheTTL + OpTicks
      BY <2>1, <3>1, <3>2 DEF CopiesRecent
    <3> QED
      BY <1>1, <2>1, <3>1, <3>3, FoundRecent, FoundOthers
  <2>2. CASE ~(cached.until > now)
    <3>1. pc' = [pc EXCEPT ![p] = "select"] /\ UNCHANGED <<cfg, held>>
      BY <2>2 DEF GoTo
    <3> QED
      BY <3>1, NothingHeld DEF TypeOK
  <2> QED
    BY <2>1, <2>2
<1> QED
  BY <1>1, <1>2, <1>3, OneMoves DEF counters

(* A request takes the limits from the row.                                 *)
LEMMA SelectRecent ==
    ASSUME TypeOK, TypeOK', CopiesRecent, NEW p \in Proc, Select(p)
    PROVE  CopiesRecent'
<1> USE DEF Select
<1>1. UNCHANGED <<now, store, cached, counters>>
  OBVIOUS
<1>2. CachedRecent' /\ \A c \in Config : InForce(c)' >= InForce(c) /\ last'[c] <= now
  BY <1>1, SameAges, CachedKept
<1>3. row \in Config /\ InForce(row) = now /\ now \in Nat /\ CacheTTL \in Nat /\ OpTicks \in Nat
  BY TimeNat, RateLimitAssumption DEF InForce, TypeOK
<1>4. CopyRecent(p)' /\ \A r \in Proc \ {p} : pc'[r] = pc[r] /\ cfg'[r] = cfg[r] /\ held'[r] = held[r]
  <2>1. CASE row = NoRow
    <3>1. now <= InForce(row) + CacheTTL + OpTicks /\ Found(p, row)
      BY <1>3, <2>1
    <3> QED
      BY <1>1, <1>3, <3>1, FoundRecent, FoundOthers
  <2>2. CASE row # NoRow
    <3>1. Holds(p, row, "store")
      BY <2>2
    <3>2. pc'[p] = "store" /\ cfg'[p] = row /\ held'[p] = 0
      BY <3>1, HoldsOthers
    <3>3. InForce(cfg[p])' = now
      BY <1>1, <3>2 DEF InForce, store
    <3> QED
      BY <1>1, <1>3, <3>1, <3>2, <3>3, HoldsOthers DEF CopyRecent
  <2> QED
    BY <2>1, <2>2
<1> QED
  BY <1>1, <1>2, <1>4, OneMoves DEF counters

(* A request stores what it has read, even if the row has changed since.    *)
LEMMA StoreCopyRecent ==
    ASSUME TypeOK, TypeOK', CopiesRecent, NEW p \in Proc, StoreCopy(p)
    PROVE  CopiesRecent'
<1> USE DEF StoreCopy
<1>1. UNCHANGED <<now, store, counters>> /\ pc[p] = "store" /\ cfg[p] \in Config
  BY DEF TypeOK
<1>2. \A c \in Config : InForce(c)' >= InForce(c) /\ last'[c] <= now
  BY <1>1, SameAges
<1>3. CachedRecent'
  BY <1>1, <1>2, CachedKept, CachedWritten
<1>4. now <= InForce(cfg[p]) + CacheTTL + OpTicks
  <2>1. now <= InForce(cfg[p]) + held[p] /\ held[p] <= OpTicks
    BY <1>1 DEF CopiesRecent, CopyRecent, TypeOK, Holding
  <2>2. InForce(cfg[p]) \in Nat /\ now \in Nat /\ held[p] \in Nat /\ CacheTTL \in Nat /\ OpTicks \in Nat
    BY <1>1, InForceType, TimeNat, RateLimitAssumption DEF TypeOK
  <2> QED
    BY <2>1, <2>2
<1>5. CopyRecent(p)'
  BY <1>1, <1>4, FoundRecent
<1> QED
  BY <1>1, <1>2, <1>3, <1>5, FoundOthers, OneMoves DEF counters

(* A step that ends a call, or moves it on with nothing held.               *)
LEMMA ReleaseRecent ==
    ASSUME TypeOK, TypeOK', CopiesRecent, NEW p \in Proc, UNCHANGED <<now, counters>>, CachedRecent',
           \A c \in Config : InForce(c)' >= InForce(c) /\ last'[c] <= now,
           NEW l \in {"done", "get", "del"},
           Holds(p, NoRow, l) \/ (GoTo(p, l) /\ UNCHANGED <<cfg, held>>)
    PROVE  CopiesRecent'
<1>1. pc'[p] = l /\ \A r \in Proc \ {p} : pc'[r] = pc[r] /\ cfg'[r] = cfg[r] /\ held'[r] = held[r]
  BY DEF Holds, GoTo, TypeOK
<1>2. CopyRecent(p)'
  BY <1>1, NothingHeld
<1> QED
  BY <1>1, <1>2, OneMoves DEF counters

(* An error forgets what was read.                                          *)
LEMMA FailRecent ==
    ASSUME TypeOK, TypeOK', CopiesRecent, NEW p \in Proc, Fail(p)
    PROVE  CopiesRecent'
<1>1. UNCHANGED <<now, store, cached, counters>> /\ Holds(p, NoRow, "done")
  BY DEF Fail, Done
<1>2. CachedRecent' /\ \A c \in Config : InForce(c)' >= InForce(c) /\ last'[c] <= now
  BY <1>1, SameAges, CachedKept
<1> QED
  BY <1>1, <1>2, ReleaseRecent

(* The time is noted while the limits are held.                             *)
LEMMA StampRecent ==
    ASSUME TypeOK, TypeOK', CopiesRecent, NEW q \in Request, Stamp(q)
    PROVE  CopiesRecent'
<1> USE DEF Stamp
<1>1. UNCHANGED <<now, store, cached>> /\ pc[q] = "stamp" /\ q \in Proc
  BY DEF Proc
<1>2. CachedRecent' /\ \A c \in Config : InForce(c)' >= InForce(c) /\ last'[c] <= now
  BY <1>1, SameAges, CachedKept
<1>3. /\ pc'[q] = "count" /\ cfg' = cfg /\ stamp'[q] = now
      /\ \A r \in Proc \ {q} : pc'[r] = pc[r] /\ held'[r] = held[r] /\ (r \in Request => stamp'[r] = stamp[r])
  BY <1>1 DEF GoTo, TypeOK
<1>4. PICK c \in Config : c = cfg[q]
  BY <1>1 DEF TypeOK
<1>5. InForce(c)' = InForce(c) /\ InForce(c) \in Nat
  BY <1>1, SameAges, InForceTypes
<1>6. InForce(cfg[q]) = InForce(c) /\ InForce(cfg[q])' = InForce(c)'
  BY <1>3, <1>4 DEF InForce
<1>7. now <= InForce(c) + CacheTTL + OpTicks + held[q] /\ held[q] <= OpTicks
  BY <1>1, <1>6 DEF CopiesRecent, CopyRecent, TypeOK, Holding
<1>8. now \in Nat /\ held[q] \in Nat /\ CacheTTL \in Nat /\ OpTicks \in Nat
  BY <1>1, TimeNat, RateLimitAssumption DEF TypeOK
<1>9. now <= InForce(c) + CacheTTL + 2 * OpTicks
  BY <1>5, <1>7, <1>8
<1>10. CopyRecent(q)'
  BY <1>3, <1>5, <1>6, <1>9 DEF CopyRecent
<1> QED
  BY <1>1, <1>2, <1>3, <1>10, OneMoves

(* Counting touches no copy.                                                *)
LEMMA IncrRecent ==
    ASSUME TypeOK, TypeOK', CopiesRecent, NEW q \in Request, NEW w \in Window, Incr(q, w)
    PROVE  CopiesRecent'
<1>1. UNCHANGED <<now, store, cached, pc, cfg, held, stamp>> /\ q \in Proc
  BY DEF Incr, Proc
<1>2. CachedRecent' /\ \A c \in Config : InForce(c)' >= InForce(c) /\ last'[c] <= now
  BY <1>1, SameAges, CachedKept
<1>3. CopyRecent(q)'
  BY <1>1, <1>2, CopyKept DEF CopiesRecent
<1> QED
  BY <1>1, <1>2, <1>3, OneMoves

(* The decision keeps the limits and the time.                              *)
LEMMA DecideRecent ==
    ASSUME TypeOK, TypeOK', CopiesRecent, NEW q \in Request, Decide(q)
    PROVE  CopiesRecent'
<1>1. UNCHANGED <<now, store, cached, counters>> /\ q \in Proc /\ pc[q] = "count"
  BY DEF Decide, Proc
<1>2. CachedRecent' /\ \A c \in Config : InForce(c)' >= InForce(c) /\ last'[c] <= now
  BY <1>1, SameAges, CachedKept
<1>3. PICK l \in {"refused", "admitted"} : Holds(q, cfg[q], l)
  BY DEF Decide
<1>4. pc'[q] = l /\ cfg'[q] = cfg[q] /\ \A r \in Proc \ {q} : pc'[r] = pc[r] /\ cfg'[r] = cfg[r] /\ held'[r] = held[r]
  BY <1>1, <1>3, HoldsOthers
<1>5. PICK c \in Config : c = cfg[q]
  BY <1>1 DEF TypeOK
<1>6. InForce(c)' = InForce(c) /\ InForce(cfg[q]) = InForce(c) /\ InForce(cfg[q])' = InForce(c)'
  BY <1>1, <1>4, <1>5, SameAges DEF InForce
<1>7. CopyRecent(q)'
  BY <1>1, <1>4, <1>6 DEF CopiesRecent, CopyRecent, counters
<1> QED
  BY <1>1, <1>2, <1>4, <1>7, OneMoves DEF counters

(* A new row ends the time of the one before, now.                          *)
LEMMA SetOverrideRecent ==
    ASSUME TypeOK, TypeOK', CopiesRecent, NEW a \in Admin, NEW lim \in Asked, SetOverride(a, lim)
    PROVE  CopiesRecent'
<1>1. UNCHANGED <<now, cached, counters>> /\ a \in Proc
  BY DEF SetOverride, Proc
<1>2. CASE Upsert(lim) /\ Holds(a, lim, "cache")
  <2>1. lim \in Config /\ SetRow(lim)
    BY <1>2 DEF Upsert, Config
  <2>2. InForce(lim)' = now /\ \A c \in Config : InForce(c)' >= InForce(c) /\ last'[c] <= now
    BY <1>1, <2>1, SetRowAges
  <2>3. CachedRecent'
    BY <1>1, <2>2, CachedKept
  <2>4. /\ pc'[a] = "cache" /\ cfg'[a] = lim /\ held'[a] = 0
        /\ \A r \in Proc \ {a} : pc'[r] = pc[r] /\ cfg'[r] = cfg[r] /\ held'[r] = held[r]
    BY <1>1, <1>2, HoldsOthers
  <2>5. InForce(cfg[a])' = InForce(lim)' /\ now \in Nat /\ now' = now
    BY <1>1, <2>4, TimeNat DEF InForce, TypeOK
  <2>6. CopyRecent(a)'
    BY <2>2, <2>4, <2>5 DEF CopyRecent
  <2> QED
    BY <1>1, <2>2, <2>3, <2>4, <2>6, OneMoves DEF counters
<1>3. CASE Upsert(lim) /\ Done(a)
  <2>1. lim \in Config /\ SetRow(lim) /\ Holds(a, NoRow, "done")
    BY <1>3 DEF Upsert, Config, Done
  <2>2. \A c \in Config : InForce(c)' >= InForce(c) /\ last'[c] <= now
    BY <1>1, <2>1, SetRowAges
  <2>3. CachedRecent'
    BY <1>1, <2>2, CachedKept
  <2> QED
    BY <1>1, <2>1, <2>2, <2>3, ReleaseRecent
<1>4. CASE Done(a) /\ UNCHANGED store
  <2>1. CachedRecent' /\ \A c \in Config : InForce(c)' >= InForce(c) /\ last'[c] <= now
    BY <1>1, <1>4, SameAges, CachedKept
  <2> QED
    BY <1>1, <1>4, <2>1, ReleaseRecent DEF Done
<1> QED
  BY <1>2, <1>3, <1>4 DEF SetOverride

(* The operator's copy is written while it is held.                         *)
LEMMA CacheOverrideRecent ==
    ASSUME TypeOK, TypeOK', CopiesRecent, NEW a \in Admin, CacheOverride(a)
    PROVE  CopiesRecent'
<1>1. UNCHANGED <<now, store, counters>> /\ a \in Proc /\ pc[a] = "cache"
  BY DEF CacheOverride, Proc
<1>2. \A c \in Config : InForce(c)' >= InForce(c) /\ last'[c] <= now
  BY <1>1, SameAges
<1>3. CachedRecent'
  BY <1>1, <1>2, CachedKept, CachedWritten DEF CacheOverride
<1>4. Holds(a, NoRow, "get") \/ Holds(a, NoRow, "done")
  BY DEF CacheOverride, Done
<1> QED
  BY <1>1, <1>2, <1>3, <1>4, ReleaseRecent

(* So does the DELETE of a row.                                             *)
LEMMA ClearOverrideRecent ==
    ASSUME TypeOK, TypeOK', CopiesRecent, NEW a \in Admin, ClearOverride(a)
    PROVE  CopiesRecent'
<1>1. UNCHANGED <<now, cached, counters, cfg, held>> /\ a \in Proc /\ NoRow \in Config
  BY DEF ClearOverride, Proc, Config
<1>2. GoTo(a, "del") \/ GoTo(a, "done")
  BY DEF ClearOverride
<1>3. \A c \in Config : InForce(c)' >= InForce(c) /\ last'[c] <= now
  BY <1>1, SetRowAges, SameAges DEF ClearOverride
<1>4. CachedRecent'
  BY <1>1, <1>3, CachedKept
<1> QED
  BY <1>1, <1>2, <1>3, <1>4, ReleaseRecent

(* A deleted copy is no copy.                                               *)
LEMMA DelCopyRecent ==
    ASSUME TypeOK, TypeOK', CopiesRecent, NEW a \in Admin, DelCopy(a)
    PROVE  CopiesRecent'
<1>1. UNCHANGED <<now, store, counters, cfg, held>> /\ a \in Proc /\ GoTo(a, "done")
  BY DEF DelCopy, Proc
<1>2. \A c \in Config : InForce(c)' >= InForce(c) /\ last'[c] <= now
  BY <1>1, SameAges
<1>3. CachedRecent'
  BY <1>2, CachedKept DEF DelCopy
<1> QED
  BY <1>1, <1>2, <1>3, ReleaseRecent

(* A tick ages what is held by one, together with the clock.                *)
LEMMA TickRecent ==
    ASSUME TypeOK, TypeOK', CopiesRecent, Tick
    PROVE  CopiesRecent'
<1>1. /\ now' = now + 1 /\ UNCHANGED <<store, cached, counters, pc, cfg>>
      /\ held' = [p \in Proc |-> IF Holding(p) THEN held[p] + 1 ELSE held[p]]
  BY DEF Tick
<1>2. row' = row /\ last' = last /\ now \in Nat /\ \A c \in Config : last[c] \in Nat /\ last[c] <= now
  BY <1>1, TimeNat DEF store, TypeOK, CopiesRecent
<1>3. \A c \in Config : InForce(c)' >= InForce(c) /\ last'[c] <= now'
  BY <1>1, <1>2 DEF InForce
<1>4. CachedRecent'
  BY <1>1, <1>3, CachedKept
<1>5. ASSUME NEW p \in Proc PROVE CopyRecent(p)'
  <2>1. PICK c \in Config : c = cfg[p]
    BY DEF TypeOK
  <2>2. InForce(c) \in Nat /\ InForce(c)' \in Nat /\ InForce(c)' >= InForce(c)
    BY <1>3, InForceTypes
  <2>3. InForce(cfg[p]) = InForce(c) /\ InForce(cfg[p])' = InForce(c)'
    BY <1>1, <2>1 DEF InForce
  <2>4. pc' = pc /\ stamp' = stamp
    BY <1>1 DEF counters
  <2>5. held[p] \in Nat /\ (pc[p] \in {"store", "cache", "stamp"} => held'[p] = held[p] + 1)
    BY <1>1 DEF TypeOK, Holding
  <2>6. CacheTTL \in Nat /\ OpTicks \in Nat /\ (p \in Request => stamp[p] \in Nat)
    BY RateLimitAssumption, TimeNat DEF TypeOK
  <2>7. CopyRecent(p)
    BY DEF CopiesRecent
  <2>8. pc[p] \in {"store", "cache"} => now' <= InForce(c)' + held'[p]
    BY <1>1, <1>2, <2>2, <2>3, <2>5, <2>7 DEF CopyRecent
  <2>9. pc[p] = "stamp" => now' <= InForce(c)' + CacheTTL + OpTicks + held'[p]
    BY <1>1, <1>2, <2>2, <2>3, <2>5, <2>6, <2>7 DEF CopyRecent
  <2>10. p \in Request /\ pc[p] \in {"count", "admitted", "refused"} =>
             stamp[p] <= InForce(c)' + CacheTTL + 2 * OpTicks
    BY <2>2, <2>3, <2>6, <2>7 DEF CopyRecent
  <2> QED
    BY <2>3, <2>4, <2>8, <2>9, <2>10 DEF CopyRecent
<1> QED
  BY <1>3, <1>4, <1>5 DEF CopiesRecent, CachedRecent

(* Every step keeps every copy recent.                                      *)
LEMMA RecentNext == TypeOK /\ TypeOK' /\ CopiesRecent /\ [Next]_vars => CopiesRecent'
<1> SUFFICES ASSUME TypeOK, TypeOK', CopiesRecent, [Next]_vars PROVE CopiesRecent'
  OBVIOUS
<1>1. ASSUME NEW p \in Proc, Get(p) \/ Select(p) \/ StoreCopy(p) \/ Fail(p) PROVE CopiesRecent'
  BY <1>1, GetRecent, SelectRecent, StoreCopyRecent, FailRecent
<1>2. ASSUME NEW q \in Request, Stamp(q) \/ Decide(q) \/ \E w \in Window : Incr(q, w) PROVE CopiesRecent'
  BY <1>2, StampRecent, DecideRecent, IncrRecent
<1>3. ASSUME NEW a \in Admin,
             \/ \E lim \in Asked : SetOverride(a, lim)
             \/ CacheOverride(a) \/ ClearOverride(a) \/ DelCopy(a)
      PROVE  CopiesRecent'
  BY <1>3, SetOverrideRecent, CacheOverrideRecent, ClearOverrideRecent, DelCopyRecent
<1>4. CASE Tick
  BY <1>4, TickRecent
<1>5. CASE UNCHANGED vars
  BY <1>5 DEF vars, CopiesRecent, CopyRecent, InForce
<1> QED
  BY <1>1, <1>2, <1>3, <1>4, <1>5 DEF Next, Idle

(* A limit that was replaced or cleared governs no request stamped more     *)
(* than CacheTTL and two bounded waits later, whichever of the loads, SETs  *)
(* and DELs that move copies of it race or fail.                            *)
THEOREM RecentTheorem == Spec => []LimitsRecent
<1>1. Init => CopiesRecent
  BY RecentInit
<1>2. TypeOK /\ TypeOK' /\ CopiesRecent /\ [Next]_vars => CopiesRecent'
  BY RecentNext
<1>3. CopiesRecent => LimitsRecent
  BY DEF CopiesRecent, CopyRecent, LimitsRecent, Proc
<1> QED
  BY <1>1, <1>2, <1>3, TypeCorrect, PTL DEF Spec

---------------------------------------------------------------------------
(* Why a request is refused.                                                *)

(* Ticket k of bucket b of window w was handed out.                         *)
Handed(w, b, k) == \E r \in Request : ticket[r][w] = k /\ Bucket(w, stamp[r]) = b

(* Whatever a counter has counted, somebody holds the ticket for.           *)
Numbered == \A w \in Window : \A b \in Time : \A k \in 1 .. count[w][b] : Handed(w, b, k)

(* Nothing is counted at the start.                                         *)
LEMMA NumberedInit == Init => Numbered
<1> SUFFICES ASSUME Init, NEW w \in Window, NEW b \in Time, NEW k \in 1 .. count[w][b] PROVE FALSE
  BY DEF Numbered
<1>1. count[w][b] = 0
  BY DEF Init
<1> QED
  BY <1>1

(* The INCR of a counter that lives adds its ticket to those handed out; of *)
(* one that has expired, it hands out the first again.                      *)
LEMMA IncrKeepsNumbered ==
    ASSUME TypeOK, Numbered, NEW q \in Request, NEW w \in Window, Incr(q, w)
    PROVE  Numbered'
<1>1. PICK b : b = Bucket(w, stamp[q])
  OBVIOUS
<1>2. b \in Time
  BY <1>1, BucketType DEF TypeOK
<1>3. PICK n : n = (IF expires[w][b] > now THEN count[w][b] ELSE 0) + 1
  OBVIOUS
<1>4. count[w][b] \in Nat
  BY <1>2 DEF TypeOK
<1>5. n \in Nat /\ n > 0 /\ (n = 1 \/ n = count[w][b] + 1)
  BY <1>3, <1>4
<1>6. /\ ~Counted(q, w)
      /\ count' = [count EXCEPT ![w][b] = n]
      /\ ticket' = [ticket EXCEPT ![q][w] = n]
      /\ UNCHANGED stamp
  BY <1>1, <1>3 DEF Incr
<1>7. ticket[q][w] = 0
  BY <1>6 DEF Counted, TypeOK
<1>8. \A r \in Request : \A v \in Window :
          ticket'[r][v] = IF r = q /\ v = w THEN n ELSE ticket[r][v]
  BY <1>6 DEF TypeOK
<1>9. \A v \in Window : \A c \in Time :
          count'[v][c] = IF v = w /\ c = b THEN n ELSE count[v][c]
  BY <1>2, <1>6 DEF TypeOK
<1>10. \A v \in Window : \A c : \A k \in Nat \ {0} : Handed(v, c, k) => Handed(v, c, k)'
  <2> SUFFICES ASSUME NEW v \in Window, NEW c, NEW k \in Nat \ {0}, Handed(v, c, k)
               PROVE  Handed(v, c, k)'
    OBVIOUS
  <2>1. PICK r \in Request : ticket[r][v] = k /\ Bucket(v, stamp[r]) = c
    BY DEF Handed
  <2>2. ticket'[r][v] = k
    BY <1>7, <1>8, <2>1
  <2>3. Bucket(v, stamp'[r]) = c
    BY <1>6, <2>1
  <2> QED
    BY <2>2, <2>3 DEF Handed, Bucket
<1>11. Handed(w, b, n)'
  <2>1. ticket'[q][w] = n /\ Bucket(w, stamp'[q]) = b
    BY <1>1, <1>6, <1>8
  <2> QED
    BY <2>1 DEF Handed, Bucket
<1>12. SUFFICES ASSUME NEW v \in Window, NEW c \in Time, NEW k \in 1 .. count'[v][c]
               PROVE  Handed(v, c, k)'
  BY DEF Numbered
<1>13. CASE v = w /\ c = b
  <2>1. k \in 1 .. n
    BY <1>9, <1>13
  <2>2. CASE k = n
    BY <1>11, <1>13, <2>2
  <2>3. CASE k # n
    <3>1. k \in 1 .. count[w][b] /\ k \in Nat \ {0}
      BY <1>4, <1>5, <2>1, <2>3
    <3> QED
      BY <1>10, <1>13, <2>1, <3>1 DEF Numbered
  <2> QED
    BY <2>2, <2>3
<1>14. CASE ~(v = w /\ c = b)
  <2>1. k \in 1 .. count[v][c]
    BY <1>9, <1>14
  <2>2. k \in Nat \ {0}
    BY <2>1 DEF TypeOK
  <2> QED
    BY <1>10, <2>1, <2>2 DEF Numbered
<1> QED
  BY <1>13, <1>14

(* A request that notes its time gives up no ticket.                        *)
LEMMA StampKeepsNumbered ==
    ASSUME TypeOK, Tickets, Numbered, NEW q \in Request, Stamp(q)
    PROVE  Numbered'
<1>1. pc[q] = "stamp" /\ stamp' = [stamp EXCEPT ![q] = now] /\ UNCHANGED <<count, ticket>>
  BY DEF Stamp
<1>2. SUFFICES ASSUME NEW v \in Window, NEW c \in Time, NEW k \in 1 .. count[v][c]
               PROVE  Handed(v, c, k)'
  BY <1>1 DEF Numbered
<1>3. PICK r \in Request : ticket[r][v] = k /\ Bucket(v, stamp[r]) = c
  BY DEF Numbered, Handed
<1>4. k > 0
  BY DEF TypeOK
<1>5. r # q
  BY <1>1, <1>3, <1>4 DEF Tickets, Counted, Late
<1>6. stamp'[r] = stamp[r] /\ ticket'[r][v] = k
  BY <1>1, <1>3, <1>5 DEF TypeOK
<1>7. Bucket(v, stamp'[r]) = c
  BY <1>3, <1>6
<1> QED
  BY <1>6, <1>7 DEF Handed, Bucket

(* Every step keeps the tickets in order.                                   *)
LEMMA NumberedNext == TypeOK /\ Tickets /\ Numbered /\ [Next]_vars => Numbered'
<1> SUFFICES ASSUME TypeOK, Tickets, Numbered, [Next]_vars PROVE Numbered'
  OBVIOUS
<1>1. ASSUME UNCHANGED <<count, stamp, ticket>> PROVE Numbered'
  BY <1>1 DEF Numbered, Handed, Bucket
<1>2. ASSUME NEW p \in Proc, Get(p) \/ Select(p) \/ StoreCopy(p) \/ Fail(p) PROVE Numbered'
  BY <1>1, <1>2 DEF Get, Select, StoreCopy, Fail, counters
<1>3. ASSUME NEW q \in Request, Stamp(q) \/ Decide(q) \/ \E w \in Window : Incr(q, w)
      PROVE  Numbered'
  <2>1. CASE Decide(q)
    BY <1>1, <2>1 DEF Decide, counters
  <2> QED
    BY <1>3, <2>1, StampKeepsNumbered, IncrKeepsNumbered
<1>4. ASSUME NEW a \in Admin,
             \/ \E lim \in Asked : SetOverride(a, lim)
             \/ CacheOverride(a) \/ ClearOverride(a) \/ DelCopy(a)
      PROVE  Numbered'
  BY <1>1, <1>4 DEF SetOverride, CacheOverride, ClearOverride, DelCopy, counters
<1>5. CASE Tick \/ UNCHANGED vars
  BY <1>1, <1>5 DEF Tick, vars, counters
<1> QED
  BY <1>2, <1>3, <1>4, <1>5 DEF Next, Idle

(* The holders of the tickets before a refused one are as many as the limit *)
(* allows, at least.                                                        *)
LEMMA NumberedJustifies == TypeOK /\ Tickets /\ Numbered => RefusalJustified
<1> SUFFICES ASSUME TypeOK, Tickets, Numbered, NEW q \in Request, NEW w \in Window,
                    pc[q] = "refused", Refusing(q, w)
             PROVE  Cap(q, w) <= Cardinality({r \in Request \ {q} : Counted(r, w) /\ SameBucket(q, r, w)})
  BY DEF RefusalJustified
<1>1. PICK S : S = {r \in Request \ {q} : Counted(r, w) /\ SameBucket(q, r, w)}
  OBVIOUS
<1>2. cfg[q] \in Config /\ ticket[q][w] \in Nat /\ Over(q, w) /\ stamp[q] \in Time
  BY DEF TypeOK, Proc, Refusing
<1>3. Cap(q, w) \in Int /\ Cap(q, w) < ticket[q][w]
  BY <1>2, LimitsType DEF Cap, Over
<1>4. PICK b \in Time : b = Bucket(w, stamp[q])
  BY <1>2, BucketType
<1>5. IsFiniteSet(S) /\ Cardinality(S) \in Nat
  <2>1. S \subseteq Request
    BY <1>1
  <2> QED
    BY <2>1, RateLimitAssumption, FS_Subset, FS_CardinalityType
<1>6. CASE ticket[q][w] = 0
  BY <1>1, <1>3, <1>5, <1>6
<1>7. CASE ticket[q][w] # 0
  <2>1. PICK m \in Nat : m + 1 = ticket[q][w]
    BY <1>2, <1>7
  <2>2. ticket[q][w] <= count[w][b] /\ count[w][b] \in Nat
    BY <1>2, <1>4, <1>7 DEF Tickets, Counted, TypeOK
  <2>3. ASSUME NEW k \in 1 .. m PROVE \E r \in S : ticket[r][w] = k
    <3>1. k \in 1 .. count[w][b]
      BY <2>1, <2>2
    <3>2. PICK r \in Request : ticket[r][w] = k /\ Bucket(w, stamp[r]) = b
      BY <3>1 DEF Numbered, Handed
    <3>3. r # q /\ Counted(r, w) /\ SameBucket(q, r, w)
      BY <1>4, <2>1, <3>2 DEF Counted, SameBucket
    <3> QED
      BY <1>1, <3>2, <3>3
  <2>4. PICK f : f = [k \in 1 .. m |-> CHOOSE r \in S : ticket[r][w] = k]
    OBVIOUS
  <2>5. f \in [1 .. m -> S] /\ \A k \in 1 .. m : ticket[f[k]][w] = k
    BY <2>3, <2>4
  <2>6. f \in Injection(1 .. m, S)
    <3>1. \A j, k \in 1 .. m : f[j] = f[k] => j = k
      BY <2>5
    <3> QED
      BY <2>5, <3>1 DEF Injection, IsInjective
  <2>7. IsFiniteSet(1 .. m) /\ Cardinality(1 .. m) = m
    BY FS_Interval
  <2>8. Cardinality(1 .. m) <= Cardinality(S)
    BY <1>5, <2>6, FS_Injection
  <2> QED
    BY <1>1, <1>3, <1>5, <2>1, <2>7, <2>8
<1> QED
  BY <1>6, <1>7

(* A request is refused only when others, as many as its limit allows, were *)
(* counted in the same bucket: no retry, failed pipeline or expired counter *)
(* makes the limit bite early.                                              *)
THEOREM RefusalTheorem == Spec => []RefusalJustified
<1>1. Init => Tickets /\ Numbered
  BY TicketsInit, NumberedInit
<1>2. TypeOK /\ TypeOK' /\ Tickets /\ Numbered /\ [Next]_vars => Tickets' /\ Numbered'
  BY TicketsNext, NumberedNext
<1>3. TypeOK /\ Tickets /\ Numbered => RefusalJustified
  BY NumberedJustifies
<1> QED
  BY <1>1, <1>2, <1>3, TypeCorrect, PTL DEF Spec

---------------------------------------------------------------------------
(* Where a client that waits comes back.                                    *)

(* Adding what is left of the divisor, or the divisor and more, adds to the *)
(* quotient.                                                                *)
LEMMA NextQuotient ==
    ASSUME NEW t \in Nat, NEW l \in Nat \ {0}, NEW d \in Nat, d >= l - (t % l)
    PROVE  (t + d) \div l > t \div l
<1>1. PICK a \in Int, r \in Int : a = t \div l /\ r = t % l /\ t = l * a + r
  OBVIOUS
<1>2. PICK c \in Int, u \in 0 .. l - 1 : c = (t + d) \div l /\ t + d = l * c + u
  <2>1. PICK m \in Nat : m = t + d
    OBVIOUS
  <2>2. m \div l \in Int /\ m % l \in 0 .. l - 1 /\ m = l * (m \div l) + (m % l)
    OBVIOUS
  <2> QED
    BY <2>1, <2>2
<1>3. l * c + u >= l * a + l
  BY <1>1, <1>2
<1>4. ~(a - c >= 0)
  <2>1. SUFFICES ASSUME a - c >= 0 PROVE FALSE
    OBVIOUS
  <2>2. l * (a - c) >= 0
    BY <2>1
  <2>3. l * (a - c) = l * a - l * c
    OBVIOUS
  <2> QED
    BY <1>2, <1>3, <2>2, <2>3
<1> QED
  BY <1>1, <1>2, <1>4

(* A client that waits for Retry-After comes back in a later bucket of the  *)
(* window that refused it: the minute's is computed to its end, the others' *)
(* is the expiry of a counter, which outlives the window.                   *)
THEOREM RetryTheorem == Spec => []RetryLeavesBucket
<1>1. TypeOK => RetryLeavesBucket
  <2>1. SUFFICES ASSUME TypeOK, NEW q \in Request, NEW w \in Window
                 PROVE  Bucket(w, stamp[q] + RetryAfter(q, w)) > Bucket(w, stamp[q])
    BY DEF RetryLeavesBucket
  <2>2. PICK t \in Nat, l \in Nat \ {0} : t = stamp[q] /\ l = Length[w]
    BY <2>1, TimeNat, RateLimitAssumption DEF TypeOK
  <2>3. PICK r \in 0 .. l - 1 : r = t % l
    OBVIOUS
  <2>4. PICK d : d = RetryAfter(q, w)
    OBVIOUS
  <2>5. d \in Nat /\ d >= l - r
    <3>1. Expiry[w] \in Nat /\ Expiry[w] >= l
      BY <2>2, RateLimitAssumption
    <3>2. d = l - r \/ d = Expiry[w]
      BY <2>2, <2>3, <2>4 DEF RetryAfter
    <3> QED
      BY <3>1, <3>2
  <2>6. (t + d) \div l > t \div l
    BY <2>3, <2>5, NextQuotient
  <2> QED
    BY <2>2, <2>4, <2>6 DEF Bucket
<1> QED
  BY <1>1, TypeCorrect, PTL
=============================================================================

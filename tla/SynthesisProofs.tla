--------------------------- MODULE SynthesisProofs --------------------------
(***************************************************************************)
(* Proofs about the synthesis handlers, for any requests, accounts and     *)
(* MAX_CONCURRENT_SYNTHESIS: the limiter leaks no token on any early       *)
(* return or error path of the three handlers and admits no more than it   *)
(* may; no stream or job delivers more than the credit and what its        *)
(* balances did not show; a job ends once, and as what it is.              *)
(***************************************************************************)
EXTENDS Synthesis, FiniteSetTheorems, TLAPS

(* The handlers between Acquire and their return.                           *)
Holders == {q \in Request : pc[q] \in Holding}

USE SynthesisAssumption DEF Holding

(* There are finitely many holders, so that they can be counted.            *)
LEMMA HoldersFinite == IsFiniteSet(Holders)
<1>1. IsFiniteSet(Request)
  BY FS_Union DEF Request
<1> QED BY <1>1, FS_Subset DEF Holders

(* A handler that moves on inside its slot, or outside, changes no count.   *)
LEMMA SameHolders ==
    ASSUME TypeOK, SlotsAccounted, NEW q \in Request, NEW label,
           pc' = [pc EXCEPT ![q] = label], pc[q] \in Holding <=> label \in Holding,
           slots' = slots
    PROVE  SlotsAccounted'
<1>1. Holders' = Holders
  BY DEF Holders, TypeOK
<1> QED BY <1>1 DEF SlotsAccounted, Holders

(* Release frees the slot of a handler that had one.                        *)
LEMMA LeaveSlot ==
    ASSUME TypeOK, SlotsAccounted, NEW q \in Request, pc[q] \in Holding, Leave(q)
    PROVE  slots' \in Nat /\ SlotsAccounted'
<1>1. q \in Holders /\ Holders' = Holders \ {q}
  BY DEF Holders, TypeOK, Leave, GoTo
<1>2. Cardinality(Holders') = Cardinality(Holders) - 1
  BY <1>1, HoldersFinite, FS_RemoveElement
<1>3. Cardinality(Holders) \in Nat /\ IsFiniteSet(Holders')
  BY <1>1, HoldersFinite, FS_CardinalityType, FS_RemoveElement
<1>4. Cardinality(Holders') \in Nat
  BY <1>3, FS_CardinalityType
<1>5. slots = Cardinality(Holders) /\ slots <= Capacity /\ Capacity \in Nat
  BY DEF SlotsAccounted, Holders, Capacity
<1>6. slots' = Cardinality(Holders')
  BY <1>2, <1>5 DEF Leave
<1>7. slots' <= Capacity
  BY <1>2, <1>3, <1>4, <1>5, <1>6
<1> QED BY <1>4, <1>6, <1>7 DEF SlotsAccounted, Holders, Capacity

(* Acquire takes a free slot for a handler that had none.                   *)
LEMMA AcquireSlot ==
    ASSUME TypeOK, SlotsAccounted, NEW q \in Request, Acquire(q)
    PROVE  SlotsAccounted'
<1>1. q \notin Holders /\ Holders' = Holders \cup {q}
  BY DEF Holders, TypeOK, Acquire, GoTo
<1>2. Cardinality(Holders') = Cardinality(Holders) + 1
  BY <1>1, HoldersFinite, FS_AddElement
<1>3. slots = Cardinality(Holders) /\ slots < Capacity /\ slots' = slots + 1
  BY DEF SlotsAccounted, Holders, Acquire
<1>4. slots \in Nat /\ Capacity \in Nat
  BY DEF TypeOK, Capacity
<1>5. slots' = Cardinality(Holders') /\ slots' <= Capacity
  BY <1>2, <1>3, <1>4
<1> QED BY <1>5 DEF SlotsAccounted, Holders, Capacity

(* The UPDATE of a job's status keeps it one of tts_job_status.             *)
LEMMA SetStatusType ==
    ASSUME TypeOK, NEW q \in Async, NEW status \in {"running", "completed", "failed"},
           SetStatus(q, status)
    PROVE  /\ job' \in [Async -> {"none", "pending", "running", "completed", "failed"}]
           /\ dbErrors' \in Nat
BY DEF TypeOK, SetStatus

(* A balance that some earlier time showed is a natural number, and so is   *)
(* what it leaves out of the account's bill.                                *)
LEMMA ReadTypes ==
    ASSUME TypeOK, NEW q \in Request, NEW seen \in shown[Owner[q]]
    PROVE  /\ Owner[q] \in User /\ seen \in Nat
           /\ Balance(Owner[q], seen) \in Nat /\ Missing(Owner[q], seen) \in Nat
<1>1. Owner[q] \in User /\ InitialBalance[Owner[q]] \in Nat
  OBVIOUS
<1>2. /\ settled[Owner[q]] \in Nat /\ unsettled[Owner[q]] \in Nat
      /\ seen \in 0 .. settled[Owner[q]]
  BY <1>1 DEF TypeOK
<1> QED BY <1>1, <1>2 DEF Balance, Missing

(* Every step keeps the types and the count of the slots; the type of slots *)
(* rests on the count, for a Release must find a token.                     *)
LEMMA SlotsStep ==
    TypeOK /\ SlotsAccounted /\ [Next]_vars => TypeOK' /\ SlotsAccounted'
<1> SUFFICES ASSUME TypeOK, SlotsAccounted, [Next]_vars PROVE TypeOK' /\ SlotsAccounted'
  OBVIOUS
<1>1. ASSUME NEW q \in Request, Refuse(q) PROVE TypeOK' /\ SlotsAccounted'
  BY <1>1, SameHolders DEF Refuse, GoTo, TypeOK
<1>2. ASSUME NEW q \in Request, Admit(q) PROVE TypeOK' /\ SlotsAccounted'
  <2>1. SlotsAccounted'
    BY <1>2, SameHolders DEF Admit, GoTo
  <2>2. PICK seen \in shown[Owner[q]] :
           /\ budget' = [budget EXCEPT ![q] = Balance(Owner[q], seen)]
           /\ lead' = [lead EXCEPT ![q] = Missing(Owner[q], seen)]
    BY <1>2 DEF Admit
  <2>3. budget' \in [Request -> Int] /\ lead' \in [Request -> Nat]
    BY <2>2, ReadTypes DEF TypeOK
  <2>4. job' \in [Async -> {"none", "pending", "running", "completed", "failed"}]
    BY <1>2 DEF Admit, TypeOK
  <2> QED BY <1>2, <2>1, <2>3, <2>4 DEF Admit, GoTo, TypeOK
<1>3. ASSUME NEW q \in Request, Acquire(q) PROVE TypeOK' /\ SlotsAccounted'
  <2>1. SlotsAccounted'
    BY <1>3, AcquireSlot
  <2>2. TypeOK'
    BY <1>3 DEF Acquire, GoTo, TypeOK
  <2> QED BY <2>1, <2>2
<1>4. ASSUME NEW q \in Request, Cancel(q) PROVE TypeOK' /\ SlotsAccounted'
  BY <1>4, SameHolders DEF Cancel, GoTo, TypeOK
<1>5. ASSUME NEW q \in Request, MarkRunning(q) PROVE TypeOK' /\ SlotsAccounted'
  <2>1. SlotsAccounted'
    BY <1>5, SameHolders DEF MarkRunning, GoTo
  <2>2. /\ job' \in [Async -> {"none", "pending", "running", "completed", "failed"}]
        /\ dbErrors' \in Nat
    BY <1>5, SetStatusType DEF MarkRunning
  <2> QED BY <1>5, <2>1, <2>2 DEF MarkRunning, GoTo, TypeOK
<1>6. ASSUME NEW q \in Request, Synthesize(q) PROVE TypeOK' /\ SlotsAccounted'
  BY <1>6, SameHolders DEF Synthesize, GoTo, TypeOK
<1>7. ASSUME NEW q \in Request, SynthesizeError(q) PROVE TypeOK' /\ SlotsAccounted'
  <2>1. pc[q] \in Holding /\ Leave(q)
    BY <1>7 DEF SynthesizeError
  <2>2. slots' \in Nat /\ SlotsAccounted'
    BY <2>1, LeaveSlot
  <2>3. /\ job' \in [Async -> {"none", "pending", "running", "completed", "failed"}]
        /\ dbErrors' \in Nat
    BY <1>7, SetStatusType DEF SynthesizeError, TypeOK
  <2> QED BY <1>7, <2>1, <2>2, <2>3 DEF SynthesizeError, Leave, GoTo, TypeOK
<1>8. ASSUME NEW q \in Request, Refresh(q) PROVE TypeOK' /\ SlotsAccounted'
  <2>1. SlotsAccounted'
    BY <1>8, SameHolders DEF Refresh, GoTo
  <2>2. CASE budget' = [budget EXCEPT ![q] = 0] /\ UNCHANGED lead
    BY <1>8, <2>1, <2>2 DEF Refresh, GoTo, TypeOK
  <2>3. ASSUME NEW seen \in shown[Owner[q]],
               budget' = [budget EXCEPT ![q] = Balance(Owner[q], seen)],
               lead' = [lead EXCEPT ![q] =
                          IF @ >= Missing(Owner[q], seen) THEN @ ELSE Missing(Owner[q], seen)]
        PROVE  TypeOK' /\ SlotsAccounted'
    <3>1. budget' \in [Request -> Int] /\ lead' \in [Request -> Nat]
      BY <2>3, ReadTypes DEF TypeOK
    <3> QED BY <1>8, <2>1, <3>1 DEF Refresh, GoTo, TypeOK
  <2> QED BY <1>8, <2>2, <2>3 DEF Refresh
<1>9. ASSUME NEW q \in Request, Finish(q) PROVE TypeOK' /\ SlotsAccounted'
  <2>1. pc[q] \in Holding /\ Leave(q)
    BY <1>9 DEF Finish
  <2>2. slots' \in Nat /\ SlotsAccounted'
    BY <2>1, LeaveSlot
  <2>3. /\ job' \in [Async -> {"none", "pending", "running", "completed", "failed"}]
        /\ dbErrors' \in Nat
    BY <1>9, SetStatusType DEF Finish, TypeOK
  <2> QED BY <1>9, <2>1, <2>2, <2>3 DEF Finish, Leave, GoTo, TypeOK
<1>10. ASSUME NEW q \in Request, NEW cost \in ChunkCost, TakeChunk(q, cost)
       PROVE  TypeOK' /\ SlotsAccounted'
  <2>1. SlotsAccounted'
    BY <1>10, SameHolders DEF TakeChunk, GoTo
  <2>2. cost \in Nat /\ Owner[q] \in User
    OBVIOUS
  <2>3. /\ budget' \in [Request -> Int]
        /\ taken' \in [Request -> Nat]
        /\ unsettled' \in [User -> Nat]
    BY <1>10, <2>2 DEF TakeChunk, TypeOK
  <2> QED BY <1>10, <2>1, <2>3 DEF TakeChunk, GoTo, TypeOK
<1>11. ASSUME NEW q \in Request, NEW cost \in ChunkCost, RefuseChunk(q, cost)
       PROVE  TypeOK' /\ SlotsAccounted'
  <2>1. SlotsAccounted'
    BY <1>11, SameHolders DEF RefuseChunk, GoTo
  <2>2. budget' \in [Request -> Int]
    BY <1>11 DEF RefuseChunk, TypeOK
  <2> QED BY <1>11, <2>1, <2>2 DEF RefuseChunk, GoTo, TypeOK
<1>12. ASSUME NEW q \in Request, NEW error \in BOOLEAN, EndOfStream(q, error)
       PROVE  TypeOK' /\ SlotsAccounted'
  <2>1. SlotsAccounted'
    BY <1>12, SameHolders DEF EndOfStream, GoTo
  <2> QED BY <1>12, <2>1 DEF EndOfStream, GoTo, TypeOK
<1>13. ASSUME NEW u \in User, Settle(u) PROVE TypeOK' /\ SlotsAccounted'
  <2>1. PICK amount \in ChunkCost :
           /\ amount <= unsettled[u]
           /\ unsettled' = [unsettled EXCEPT ![u] = @ - amount]
           /\ settled' = [settled EXCEPT ![u] = @ + amount]
           /\ shown' = [shown EXCEPT ![u] = @ \cup {settled[u] + amount}]
    BY <1>13 DEF Settle
  <2>2. amount \in Nat /\ settled[u] \in Nat /\ unsettled[u] \in Nat
    BY <2>1 DEF TypeOK
  <2>3. unsettled' \in [User -> Nat] /\ settled' \in [User -> Nat]
    BY <2>1, <2>2 DEF TypeOK
  <2>4. shown' \in [User -> SUBSET Nat]
    BY <2>1, <2>2 DEF TypeOK
  <2>5. ASSUME NEW v \in User PROVE shown'[v] \subseteq 0 .. settled'[v]
    <3>1. CASE v = u
      <4>1. shown'[u] = shown[u] \cup {settled[u] + amount} /\ settled'[u] = settled[u] + amount
        BY <2>1 DEF TypeOK
      <4>2. shown[u] \subseteq 0 .. settled[u]
        BY DEF TypeOK
      <4> QED BY <2>2, <3>1, <4>1, <4>2
    <3>2. CASE v # u
      BY <2>1, <3>2 DEF TypeOK
    <3> QED BY <3>1, <3>2
  <2> QED BY <1>13, <2>3, <2>4, <2>5 DEF Settle, TypeOK, SlotsAccounted
<1>14. ASSUME NEW q \in Request, Hangup(q) PROVE TypeOK' /\ SlotsAccounted'
  <2>1. SlotsAccounted'
    BY <1>14, SameHolders DEF Hangup, GoTo
  <2> QED BY <1>14, <2>1 DEF Hangup, GoTo, TypeOK
<1>15. ASSUME NEW q \in Request, NEW cost \in ChunkCost, LiveChunk(q, cost)
       PROVE  TypeOK' /\ SlotsAccounted'
  <2>1. cost \in Nat /\ Owner[q] \in User
    OBVIOUS
  <2>2. taken' \in [Request -> Nat] /\ unsettled' \in [User -> Nat]
    BY <1>15, <2>1 DEF LiveChunk, TypeOK
  <2> QED BY <1>15, <2>2 DEF LiveChunk, TypeOK, SlotsAccounted
<1>16. CASE Crash
  <2>1. Holders' = {}
    BY <1>16 DEF Crash, Holders
  <2>2. slots' = Cardinality(Holders') /\ slots' <= Capacity
    BY <1>16, <2>1, FS_EmptySet DEF Crash, Capacity
  <2>3. SlotsAccounted'
    BY <2>2 DEF SlotsAccounted, Holders, Capacity
  <2>4. TypeOK'
    BY <1>16 DEF Crash, TypeOK
  <2> QED BY <2>3, <2>4
<1>17. CASE UNCHANGED vars
  BY <1>17 DEF vars, TypeOK, SlotsAccounted
<1> QED
  BY <1>1, <1>2, <1>3, <1>4, <1>5, <1>6, <1>7, <1>8, <1>9, <1>10, <1>11, <1>12, <1>13,
     <1>14, <1>15, <1>16, <1>17
  DEF Next, Idle

(* Types and count hold at the start and are kept together.                 *)
LEMMA SlotsInvariant == Spec => [](TypeOK /\ SlotsAccounted)
<1>1. Init => TypeOK /\ SlotsAccounted
  <2> SUFFICES ASSUME Init PROVE TypeOK /\ SlotsAccounted
    OBVIOUS
  <2>1. Holders = {}
    BY DEF Init, Holders
  <2>2. slots = Cardinality(Holders) /\ slots <= Capacity
    BY <2>1, FS_EmptySet DEF Init, Capacity
  <2> QED BY <2>2 DEF Init, TypeOK, SlotsAccounted, Holders
<1> QED BY <1>1, SlotsStep, PTL DEF Spec

(* Every reachable state of the handlers is well typed: no Release ever     *)
(* finds the channel of synthlimit empty.                                   *)
THEOREM TypeCorrect == Spec => []TypeOK
BY SlotsInvariant, PTL

(* The channel of synthlimit holds one token per running synthesis and      *)
(* never more than the configured number.                                   *)
THEOREM SlotsTheorem == Spec => []SlotsAccounted
BY SlotsInvariant, PTL

---------------------------------------------------------------------------
(* The credit.                                                              *)

(* A step that leaves money alone keeps the credit.                         *)
LEMMA CreditUnchanged ==
    ASSUME CreditRespected, BudgetBacked,
           UNCHANGED <<budget, settled, unsettled, taken, lead>>
    PROVE  CreditRespected' /\ BudgetBacked'
BY DEF CreditRespected, BudgetBacked

(* What the two invariants say of one request, of numbers alone.            *)
Backed(credit, bill, took, left, ahead) ==
    took <= credit + ahead /\ took <= bill /\ took + left <= credit + ahead

(* A budget read from any balance that was ever shown is backed by the      *)
(* credit, once the lead counts what that balance does not show.            *)
LEMMA ReadBacked ==
    ASSUME TypeOK, NEW q \in Request, NEW seen \in shown[Owner[q]], NEW ahead \in Nat,
           ahead >= Missing(Owner[q], seen),
           NEW old \in Nat, ahead >= old \/ Balance(Owner[q], seen) > 0,
           taken[q] <= InitialBalance[Owner[q]] + old,
           taken[q] <= settled[Owner[q]] + unsettled[Owner[q]]
    PROVE  Backed(InitialBalance[Owner[q]], settled[Owner[q]] + unsettled[Owner[q]],
                  taken[q], Balance(Owner[q], seen), ahead)
<1>1. /\ InitialBalance[Owner[q]] \in Nat /\ taken[q] \in Nat
      /\ settled[Owner[q]] \in Nat /\ unsettled[Owner[q]] \in Nat
      /\ seen \in Nat
  BY ReadTypes DEF TypeOK
<1>2. CASE InitialBalance[Owner[q]] >= seen
  BY <1>1, <1>2 DEF Balance, Missing, Backed
<1>3. CASE ~(InitialBalance[Owner[q]] >= seen)
  BY <1>1, <1>3 DEF Balance, Missing, Backed
<1> QED BY <1>2, <1>3

(* A debit moves from what is to be settled to what is settled; a budget is *)
(* read from the credit less the second and leads by what it did not show.  *)
LEMMA CreditStep ==
    TypeOK /\ CreditRespected /\ BudgetBacked /\ [Next]_vars
        => CreditRespected' /\ BudgetBacked'
<1> SUFFICES ASSUME TypeOK, CreditRespected, BudgetBacked, [Next]_vars
             PROVE  CreditRespected' /\ BudgetBacked'
  OBVIOUS
<1> DEFINE Credit(r) == InitialBalance[Owner[r]]
           Billed(r) == settled[Owner[r]] + unsettled[Owner[r]]
           Holds(r) == Backed(Credit(r), Billed(r), taken[r], budget[r], lead[r])
<1>0. \A r \in Stream \cup Async :
         /\ r \in Request /\ Owner[r] \in User /\ Credit(r) \in Nat
         /\ taken[r] \in Nat /\ lead[r] \in Nat /\ budget[r] \in Int
         /\ settled[Owner[r]] \in Nat /\ unsettled[Owner[r]] \in Nat
  BY DEF TypeOK, Request
<1>a. \A r \in Stream \cup Async : Holds(r)
  BY DEF CreditRespected, BudgetBacked, Backed
<1>b. (\A r \in Stream \cup Async :
          Backed(Credit(r), settled'[Owner[r]] + unsettled'[Owner[r]], taken'[r], budget'[r], lead'[r]))
        => CreditRespected' /\ BudgetBacked'
  BY DEF CreditRespected, BudgetBacked, Backed
<1>1. ASSUME NEW q \in Request, NEW seen \in shown[Owner[q]], NEW ahead \in Nat,
             ahead >= Missing(Owner[q], seen),
             ahead >= lead[q] \/ Balance(Owner[q], seen) > 0,
             budget' = [budget EXCEPT ![q] = Balance(Owner[q], seen)],
             lead' = [lead EXCEPT ![q] = ahead],
             UNCHANGED <<taken, settled, unsettled>>
      PROVE  CreditRespected' /\ BudgetBacked'
  <2> SUFFICES ASSUME NEW r \in Stream \cup Async
               PROVE  Backed(Credit(r), Billed(r), taken[r], budget'[r], lead'[r])
    BY <1>1, <1>b
  <2>1. CASE r = q
    <3>1. budget'[r] = Balance(Owner[r], seen) /\ lead'[r] = ahead
      BY <1>0, <1>1, <2>1 DEF TypeOK
    <3>2. lead[q] \in Nat /\ taken[q] <= Credit(q) + lead[q] /\ taken[q] <= Billed(q)
      BY <1>0, <1>a, <2>1 DEF Backed
    <3> QED BY <1>1, <2>1, <3>1, <3>2, ReadBacked
  <2>2. CASE r # q
    <3>1. budget'[r] = budget[r] /\ lead'[r] = lead[r]
      BY <1>0, <1>1, <2>2 DEF TypeOK
    <3> QED BY <1>a, <3>1
  <2> QED BY <2>1, <2>2
<1>2. ASSUME NEW q \in Request, Admit(q) PROVE CreditRespected' /\ BudgetBacked'
  <2>1. PICK seen \in shown[Owner[q]] :
           /\ Balance(Owner[q], seen) > 0
           /\ budget' = [budget EXCEPT ![q] = Balance(Owner[q], seen)]
           /\ lead' = [lead EXCEPT ![q] = Missing(Owner[q], seen)]
    BY <1>2 DEF Admit
  <2>2. PICK ahead : ahead = Missing(Owner[q], seen)
    OBVIOUS
  <2>3. ahead \in Nat /\ ahead >= Missing(Owner[q], seen)
    BY <2>2, ReadTypes
  <2>4. UNCHANGED <<taken, settled, unsettled>>
    BY <1>2 DEF Admit
  <2> QED BY <1>1, <2>1, <2>2, <2>3, <2>4
<1>3. ASSUME NEW q \in Request, Refresh(q) PROVE CreditRespected' /\ BudgetBacked'
  <2>0. UNCHANGED <<taken, settled, unsettled>>
    BY <1>3 DEF Refresh
  <2>1. ASSUME NEW seen \in shown[Owner[q]],
               budget' = [budget EXCEPT ![q] = Balance(Owner[q], seen)],
               lead' = [lead EXCEPT ![q] =
                          IF @ >= Missing(Owner[q], seen) THEN @ ELSE Missing(Owner[q], seen)]
        PROVE  CreditRespected' /\ BudgetBacked'
    <3>1. PICK ahead : ahead = IF lead[q] >= Missing(Owner[q], seen)
                               THEN lead[q] ELSE Missing(Owner[q], seen)
      OBVIOUS
    <3>2. Missing(Owner[q], seen) \in Nat /\ lead[q] \in Nat
      BY ReadTypes DEF TypeOK
    <3>3. ahead \in Nat /\ ahead >= Missing(Owner[q], seen) /\ ahead >= lead[q]
      BY <3>1, <3>2
    <3>4. lead' = [lead EXCEPT ![q] = ahead]
      BY <2>1, <3>1
    <3> QED BY <1>1, <2>0, <2>1, <3>3, <3>4
  <2>2. CASE budget' = [budget EXCEPT ![q] = 0] /\ UNCHANGED lead
    <3>1. \A r \in Stream \cup Async : budget'[r] \in {budget[r], 0}
      BY <1>0, <2>2 DEF TypeOK
    <3>2. \A r \in Stream \cup Async :
             Backed(Credit(r), Billed(r), taken[r], budget'[r], lead[r])
      BY <1>0, <1>a, <3>1 DEF Backed
    <3> QED BY <1>b, <2>0, <2>2, <3>2
  <2> QED BY <1>3, <2>1, <2>2 DEF Refresh
<1>4. ASSUME NEW q \in Request, NEW cost \in ChunkCost, TakeChunk(q, cost) \/ LiveChunk(q, cost)
      PROVE  CreditRespected' /\ BudgetBacked'
  <2>0. cost \in Nat /\ settled' = settled /\ lead' = lead
    BY <1>4 DEF TakeChunk, LiveChunk
  <2> SUFFICES ASSUME NEW r \in Stream \cup Async
               PROVE  Backed(Credit(r), settled[Owner[r]] + unsettled'[Owner[r]],
                             taken'[r], budget'[r], lead[r])
    BY <1>b, <2>0
  <2>1. CASE r = q
    <3>0. TakeChunk(q, cost)
      BY <1>4, <2>1 DEF LiveChunk
    <3>1. /\ budget'[r] = budget[r] - cost /\ budget[r] - cost >= 0
          /\ taken'[r] = taken[r] + cost
          /\ unsettled'[Owner[r]] = unsettled[Owner[r]] + cost
      BY <1>0, <2>0, <2>1, <3>0 DEF TakeChunk, Affordable, TypeOK
    <3> QED BY <1>0, <1>a, <2>0, <3>1 DEF Backed
  <2>2. CASE r # q
    <3>1. /\ budget'[r] = budget[r] /\ taken'[r] = taken[r]
          /\ unsettled'[Owner[r]] \in {unsettled[Owner[r]], unsettled[Owner[r]] + cost}
      BY <1>0, <1>4, <2>2 DEF TakeChunk, LiveChunk, TypeOK
    <3> QED BY <1>0, <1>a, <2>0, <3>1 DEF Backed
  <2> QED BY <2>1, <2>2
<1>5. ASSUME NEW q \in Request, NEW cost \in ChunkCost, RefuseChunk(q, cost)
      PROVE  CreditRespected' /\ BudgetBacked'
  <2>1. UNCHANGED <<settled, unsettled, taken, lead>> /\ cost \in Nat
    BY <1>5 DEF RefuseChunk
  <2>2. \A r \in Stream \cup Async : budget'[r] \in {budget[r], budget[r] - cost}
    BY <1>0, <1>5 DEF RefuseChunk, TypeOK
  <2>3. \A r \in Stream \cup Async : Backed(Credit(r), Billed(r), taken[r], budget'[r], lead[r])
    BY <1>0, <1>a, <2>1, <2>2 DEF Backed
  <2> QED BY <1>b, <2>1, <2>3
<1>6. ASSUME NEW u \in User, Settle(u) PROVE CreditRespected' /\ BudgetBacked'
  <2>1. UNCHANGED <<budget, taken, lead>>
    BY <1>6 DEF Settle
  <2>2. PICK amount \in ChunkCost :
           /\ unsettled' = [unsettled EXCEPT ![u] = @ - amount]
           /\ settled' = [settled EXCEPT ![u] = @ + amount]
    BY <1>6 DEF Settle
  <2>3. \A r \in Stream \cup Async :
           settled'[Owner[r]] + unsettled'[Owner[r]] = Billed(r)
    <3> SUFFICES ASSUME NEW r \in Stream \cup Async
                 PROVE  settled'[Owner[r]] + unsettled'[Owner[r]] = Billed(r)
      OBVIOUS
    <3>1. CASE Owner[r] = u
      <4>1. settled'[u] = settled[u] + amount /\ unsettled'[u] = unsettled[u] - amount
        BY <2>2 DEF TypeOK
      <4> QED BY <1>0, <2>2, <3>1, <4>1
    <3>2. CASE Owner[r] # u
      BY <1>0, <2>2, <3>2 DEF TypeOK
    <3> QED BY <3>1, <3>2
  <2> QED BY <1>a, <1>b, <2>1, <2>3
<1>7. ASSUME NEW q \in Request,
             \/ Refuse(q) \/ Acquire(q) \/ Cancel(q) \/ MarkRunning(q)
             \/ Synthesize(q) \/ SynthesizeError(q) \/ Hangup(q) \/ Finish(q)
             \/ \E error \in BOOLEAN : EndOfStream(q, error)
      PROVE  CreditRespected' /\ BudgetBacked'
  BY <1>7, CreditUnchanged
  DEF Refuse, Acquire, Cancel, MarkRunning, Synthesize, SynthesizeError, Hangup, Finish, EndOfStream
<1>8. CASE Crash \/ Idle \/ UNCHANGED vars
  BY <1>8, CreditUnchanged DEF Crash, Idle, vars
<1> QED BY <1>2, <1>3, <1>4, <1>5, <1>6, <1>7, <1>8 DEF Next

(* No stream and no job delivers more than the credit plus what its account *)
(* had been billed and a balance it read did not show, however old the      *)
(* cached balances are and whatever other requests of the account and the   *)
(* metering service do meanwhile.                                           *)
THEOREM CreditTheorem == Spec => []CreditRespected
<1>1. Init => CreditRespected /\ BudgetBacked
  <2> SUFFICES ASSUME Init PROVE CreditRespected /\ BudgetBacked
    OBVIOUS
  <2>1. \A q \in Stream \cup Async :
           q \in Request /\ Owner[q] \in User /\ InitialBalance[Owner[q]] \in Nat
    BY DEF Request
  <2> QED BY <2>1 DEF Init, CreditRespected, BudgetBacked
<1> QED BY <1>1, CreditStep, TypeCorrect, PTL DEF Spec

---------------------------------------------------------------------------
(* Jobs.                                                                    *)

(* What JobLifecycle says of one job and one step.                          *)
JobStep(q) ==
    /\ job[q] \in {"completed", "failed"} => job'[q] = job[q]
    /\ job[q] # "none" /\ job'[q] = "pending" => job[q] = "pending"

(* A step leaves job q alone.                                               *)
Kept(q) ==
    /\ pc[q] = pc'[q] /\ job[q] = job'[q] /\ failed[q] = failed'[q] /\ budget[q] = budget'[q]

(* The inductive invariant: where the goroutine of a job stands, given its  *)
(* row, and when its stream can have failed.                                *)
PhaseOf(q) ==
    /\ job[q] # "none" => pc[q] # "arrive"
    /\ job[q] \in {"completed", "failed"} => pc[q] = "ended"
    /\ pc[q] \notin {"finish", "ended"} => ~failed[q]
    /\ ~failed[q] => budget[q] >= 0
    /\ job[q] = "completed" => pc[q] = "ended" /\ ~failed[q] /\ budget[q] >= 0

(* A step of the handler of job q keeps the phase of q and its life cycle.  *)
LEMMA OwnStep ==
    ASSUME TypeOK, NEW q \in Async, PhaseOf(q),
           \/ Refuse(q) \/ Admit(q) \/ Acquire(q) \/ Cancel(q) \/ MarkRunning(q)
           \/ Synthesize(q) \/ SynthesizeError(q) \/ Refresh(q) \/ Hangup(q) \/ Finish(q)
           \/ \E cost \in ChunkCost : TakeChunk(q, cost) \/ RefuseChunk(q, cost) \/ LiveChunk(q, cost)
           \/ \E error \in BOOLEAN : EndOfStream(q, error)
    PROVE  PhaseOf(q)' /\ JobStep(q)
<1>0. q \in Request /\ q \notin Stream /\ q \notin Live /\ Owner[q] \in User
  BY DEF Request
<1>1. CASE Refuse(q) \/ Acquire(q) \/ Cancel(q) \/ Synthesize(q)
  BY <1>0, <1>1 DEF Refuse, Acquire, Cancel, Synthesize, GoTo, PhaseOf, JobStep, TypeOK
<1>2. CASE Admit(q)
  <2>1. PICK seen \in shown[Owner[q]] : budget' = [budget EXCEPT ![q] = Balance(Owner[q], seen)]
    BY <1>2 DEF Admit
  <2>2. /\ pc[q] = "arrive" /\ pc'[q] = "waiting" /\ job'[q] = "pending"
        /\ failed'[q] = failed[q] /\ budget'[q] \in Nat
    BY <1>0, <1>2, <2>1, ReadTypes DEF Admit, GoTo, TypeOK
  <2> QED BY <2>2 DEF PhaseOf, JobStep
<1>3. CASE MarkRunning(q)
  BY <1>0, <1>3 DEF MarkRunning, SetStatus, GoTo, PhaseOf, JobStep, TypeOK
<1>4. CASE SynthesizeError(q)
  BY <1>0, <1>4 DEF SynthesizeError, SetStatus, Leave, GoTo, PhaseOf, JobStep, TypeOK
<1>5. CASE Refresh(q)
  <2>1. budget'[q] \in Nat
    <3>1. CASE budget' = [budget EXCEPT ![q] = 0]
      BY <1>0, <3>1 DEF TypeOK
    <3>2. ASSUME NEW seen \in shown[Owner[q]],
                 budget' = [budget EXCEPT ![q] = Balance(Owner[q], seen)]
          PROVE  budget'[q] \in Nat
      BY <1>0, <3>2, ReadTypes DEF TypeOK
    <3> QED BY <1>5, <3>1, <3>2 DEF Refresh
  <2>2. pc[q] = "refresh" /\ pc'[q] = "open" /\ job'[q] = job[q] /\ failed'[q] = failed[q]
    BY <1>0, <1>5 DEF Refresh, GoTo, TypeOK
  <2> QED BY <2>1, <2>2 DEF PhaseOf, JobStep
<1>6. CASE Finish(q)
  <2>1. /\ pc[q] = "finish" /\ pc'[q] = "ended"
        /\ failed'[q] = failed[q] /\ budget'[q] = budget[q]
        /\ job'[q] \in {job[q], IF failed[q] THEN "failed" ELSE "completed"}
    BY <1>0, <1>6 DEF Finish, SetStatus, Leave, GoTo, TypeOK
  <2> QED BY <2>1 DEF PhaseOf, JobStep
<1>7. ASSUME NEW cost \in ChunkCost, TakeChunk(q, cost) PROVE PhaseOf(q)' /\ JobStep(q)
  <2>1. /\ pc[q] = "open" /\ pc'[q] = "open" /\ job'[q] = job[q]
        /\ failed'[q] = failed[q] /\ budget'[q] = budget[q] - cost /\ budget[q] - cost >= 0
    BY <1>0, <1>7 DEF TakeChunk, Affordable, GoTo, TypeOK
  <2> QED BY <2>1 DEF PhaseOf, JobStep
<1>8. ASSUME NEW cost \in ChunkCost, RefuseChunk(q, cost) PROVE PhaseOf(q)' /\ JobStep(q)
  <2>1. pc[q] = "open" /\ pc'[q] = "finish" /\ job'[q] = job[q] /\ failed'[q]
    BY <1>0, <1>8 DEF RefuseChunk, GoTo, TypeOK
  <2> QED BY <2>1 DEF PhaseOf, JobStep
<1>9. ASSUME NEW error \in BOOLEAN, EndOfStream(q, error) PROVE PhaseOf(q)' /\ JobStep(q)
  <2>1. /\ pc[q] = "open" /\ pc'[q] = "finish" /\ job'[q] = job[q]
        /\ budget'[q] = budget[q]
    BY <1>0, <1>9 DEF EndOfStream, GoTo, TypeOK
  <2> QED BY <2>1 DEF PhaseOf, JobStep
<1>10. ~Hangup(q) /\ \A cost \in ChunkCost : ~LiveChunk(q, cost)
  BY <1>0 DEF Hangup, LiveChunk
<1> QED BY <1>1, <1>2, <1>3, <1>4, <1>5, <1>6, <1>7, <1>8, <1>9, <1>10

(* A step of another request does not touch job q.                          *)
LEMMA OthersStep ==
    ASSUME TypeOK, NEW q \in Async, NEW r \in Request, r # q,
           \/ Refuse(r) \/ Admit(r) \/ Acquire(r) \/ Cancel(r) \/ MarkRunning(r)
           \/ Synthesize(r) \/ SynthesizeError(r) \/ Refresh(r) \/ Hangup(r) \/ Finish(r)
           \/ \E cost \in ChunkCost : TakeChunk(r, cost) \/ RefuseChunk(r, cost) \/ LiveChunk(r, cost)
           \/ \E error \in BOOLEAN : EndOfStream(r, error)
    PROVE  Kept(q)
<1>0. q \in Request
  BY DEF Request
<1>1. CASE Refuse(r) \/ Acquire(r) \/ Cancel(r) \/ Synthesize(r) \/ Hangup(r)
  BY <1>0, <1>1 DEF Refuse, Acquire, Cancel, Synthesize, Hangup, GoTo, Kept, TypeOK
<1>2. CASE Admit(r) \/ Refresh(r)
  BY <1>0, <1>2 DEF Admit, Refresh, GoTo, Kept, TypeOK
<1>3. CASE MarkRunning(r) \/ SynthesizeError(r) \/ Finish(r)
  BY <1>0, <1>3 DEF MarkRunning, SynthesizeError, Finish, SetStatus, Leave, GoTo, Kept, TypeOK
<1>4. ASSUME NEW cost \in ChunkCost,
             TakeChunk(r, cost) \/ RefuseChunk(r, cost) \/ LiveChunk(r, cost)
      PROVE  Kept(q)
  BY <1>0, <1>4 DEF TakeChunk, RefuseChunk, LiveChunk, GoTo, Kept, TypeOK
<1>5. ASSUME NEW error \in BOOLEAN, EndOfStream(r, error) PROVE Kept(q)
  BY <1>0, <1>5 DEF EndOfStream, GoTo, Kept, TypeOK
<1> QED BY <1>1, <1>2, <1>3, <1>4, <1>5

(* Every step of the handlers keeps the phase of a job and its life cycle.  *)
LEMMA JobsStep ==
    ASSUME TypeOK, [Next]_vars, NEW q \in Async, PhaseOf(q)
    PROVE  PhaseOf(q)' /\ JobStep(q)
<1>0. Kept(q) => PhaseOf(q)' /\ JobStep(q)
  BY DEF Kept, PhaseOf, JobStep
<1>1. ASSUME NEW r \in Request,
             \/ Refuse(r) \/ Admit(r) \/ Acquire(r) \/ Cancel(r) \/ MarkRunning(r)
             \/ Synthesize(r) \/ SynthesizeError(r) \/ Refresh(r) \/ Hangup(r) \/ Finish(r)
             \/ \E cost \in ChunkCost : TakeChunk(r, cost) \/ RefuseChunk(r, cost) \/ LiveChunk(r, cost)
             \/ \E error \in BOOLEAN : EndOfStream(r, error)
      PROVE  PhaseOf(q)' /\ JobStep(q)
  <2>1. CASE r = q
    BY <1>1, <2>1, OwnStep
  <2>2. CASE r # q
    BY <1>0, <1>1, <2>2, OthersStep
  <2> QED BY <2>1, <2>2
<1>2. CASE Crash
  <2>1. pc'[q] = "ended" /\ job'[q] = job[q] /\ failed'[q] = failed[q] /\ budget'[q] = budget[q]
    BY <1>2 DEF Crash, Request
  <2> QED BY <2>1 DEF PhaseOf, JobStep
<1>3. CASE (\E u \in User : Settle(u)) \/ Idle \/ UNCHANGED vars
  BY <1>0, <1>3 DEF Settle, Idle, vars, Kept
<1> QED BY <1>1, <1>2, <1>3 DEF Next

(* The phase of every job holds at the start and is kept.                   *)
LEMMA PhaseInvariant == Spec => [](TypeOK /\ \A q \in Async : PhaseOf(q))
<1>1. Init => \A q \in Async : PhaseOf(q)
  BY DEF Init, PhaseOf, Request
<1>2. TypeOK /\ (\A q \in Async : PhaseOf(q)) /\ [Next]_vars => (\A q \in Async : PhaseOf(q))'
  BY JobsStep
<1> QED BY <1>1, <1>2, TypeCorrect, PTL DEF Spec

(* A job reported as completed has the audio of an unbroken stream that its *)
(* budget covered, through failed UPDATEs and a stop of the process.        *)
THEOREM WholeTheorem == Spec => []CompletedIsWhole
<1>1. (\A q \in Async : PhaseOf(q)) => CompletedIsWhole
  BY DEF PhaseOf, CompletedIsWhole
<1> QED BY <1>1, PhaseInvariant, PTL

(* A job ends once: a final status is never replaced, and none goes back to *)
(* pending.                                                                 *)
THEOREM LifecycleTheorem == Spec => JobLifecycle
<1>1. TypeOK /\ (\A q \in Async : PhaseOf(q)) /\ [Next]_vars
        => [\A q \in Async :
              /\ job[q] \in {"completed", "failed"} => job'[q] = job[q]
              /\ job[q] # "none" /\ job'[q] = "pending" => job[q] = "pending"]_vars
  BY JobsStep DEF JobStep
<1> QED BY <1>1, PhaseInvariant, PTL DEF Spec, JobLifecycle
=============================================================================

---------------------------- MODULE BillingProofs ---------------------------
(***************************************************************************)
(* Proofs about Billing for any accounts, requests, consumers, prices and  *)
(* bounds: type correctness, that every debit has its usage row, that no   *)
(* message is debited twice, that windows conserve audio, that the books   *)
(* are in order, and that the pipeline implements Ledger.                  *)
(***************************************************************************)
EXTENDS Billing, FiniteSetTheorems, WellFoundedInduction, TLAPS

(* The price rule of consumer.pricePerMinute yields a natural number.       *)
LEMMA PriceType == \A u \in User : PricePerMinute(u) \in Nat
BY BillingAssumption DEF PricePerMinute

(* The product of natural numbers is one.                                   *)
LEMMA NatTimes == \A a, b \in Nat : a * b \in Nat
OBVIOUS

(* An event costs a natural number of units.                                *)
LEMMA CostType == \A m \in Event : Cost(m) \in Nat
<1> TAKE m \in Event
<1>1. m.sec \in Nat /\ Owner[m.req] \in User
  BY BillingAssumption DEF Event
<1>2. PricePerMinute(Owner[m.req]) \in Nat
  BY <1>1, PriceType
<1> QED BY <1>1, <1>2, NatTimes DEF Cost

(* The placeholder debtor is some account.                                  *)
LEMMA NobodyType == Nobody \in User
BY BillingAssumption DEF Nobody

(* INSERT ... ON CONFLICT DO NOTHING adds nothing but its own row.          *)
LEMMA InsertUsageBounds ==
    ASSUME NEW rows, NEW m
    PROVE  rows \subseteq InsertUsage(rows, m) /\ InsertUsage(rows, m) \subseteq rows \cup {m}
BY DEF InsertUsage

(* The types of the coalescer's publishing half.                            *)
LEMMA FlushLockedType ==
    ASSUME TypeOK, NEW r \in Request, NEW secs \in Nat, FlushLocked(r, secs)
    PROVE  /\ window' \in [Request -> Nat]
           /\ seq' \in [Request -> Nat]
           /\ bus' \subseteq Event
           /\ sent' \subseteq Event
<1>1. [req |-> r, n |-> seq[r] + 1, sec |-> secs, copy |-> 0] \in Event
  BY DEF TypeOK, Event
<1> QED BY <1>1 DEF TypeOK, FlushLocked

(* Counting a fault keeps the counter a natural number.                     *)
LEMMA FaultType ==
    ASSUME TypeOK, NEW k \in FaultKind, Fault(k)
    PROVE  faults' \in Nat
BY DEF TypeOK, Fault

(* The types after debitUser has returned.                                  *)
LEMMA ReturnType ==
    ASSUME TypeOK, NEW c \in Consumer, Return(c)
    PROVE  /\ batch' \in [Consumer -> SUBSET Event]
           /\ pc' \in [Consumer -> {"tick", "users", "meter", "txn"}]
           /\ debtor' \in [Consumer -> User]
           /\ seen' \in [Consumer -> SUBSET Event]
           /\ totalCost' \in [Consumer -> Nat]
BY NobodyType DEF TypeOK, Return, GoTo, UserEvents

(* GREATEST keeps a wallet from going below zero.                           *)
LEMMA UpdateWalletType ==
    ASSUME TypeOK, NEW c \in Consumer, UpdateWallet(c)
    PROVE  /\ balance' \in [User -> Nat]
           /\ debited' \in [User -> Nat]
           /\ charged' \subseteq Event
BY DEF TypeOK, UpdateWallet

(* Every step of the pipeline keeps every variable in its type.             *)
LEMMA TypeOKStep == TypeOK /\ [Next]_vars => TypeOK'
<1> SUFFICES ASSUME TypeOK, [Next]_vars PROVE TypeOK'
  OBVIOUS
<1> USE DEF FaultKind
<1>1. ASSUME NEW r \in Request, NEW sec \in ChunkSec, AddPCM(r, sec) PROVE TypeOK'
  <2>0. sec \in Nat
    BY BillingAssumption
  <2>1. /\ delivered' \in [Request -> Nat] /\ late' \in [Request -> Nat]
        /\ owed' \in [User -> Nat]
    <3>1. Owner[r] \in User /\ PricePerMinute(Owner[r]) \in Nat
      BY BillingAssumption, PriceType
    <3>2. sec * PricePerMinute(Owner[r]) \in Nat
      BY <2>0, <3>1, NatTimes
    <3> QED BY <1>1, <2>0, <3>1, <3>2 DEF TypeOK, AddPCM
  <2>2. window[r] + sec \in Nat
    BY <2>0 DEF TypeOK
  <2>3. CASE FlushLocked(r, window[r] + sec)
    BY <1>1, <2>1, <2>2, <2>3, FlushLockedType
    DEF TypeOK, AddPCM, flushVars, dbVars, history
  <2>4. CASE window' = [window EXCEPT ![r] = @ + sec] /\ UNCHANGED <<seq, bus, sent>>
    BY <1>1, <2>0, <2>1, <2>4 DEF TypeOK, AddPCM, flushVars, dbVars, history
  <2> QED BY <1>1, <2>3, <2>4 DEF AddPCM
<1>2. ASSUME NEW r \in Request, Flush(r) PROVE TypeOK'
  <2>1. window[r] \in Nat
    BY DEF TypeOK
  <2>2. CASE window[r] <= 0
    BY <1>2, <2>2 DEF TypeOK, Flush, flushVars, dbVars, history
  <2>3. CASE ~(window[r] <= 0)
    BY <1>2, <2>1, <2>3, FlushLockedType DEF TypeOK, Flush, flushVars, dbVars, history
  <2> QED BY <2>2, <2>3
<1>3. ASSUME NEW r \in Request, Kill(r) PROVE TypeOK'
  BY <1>3, FaultType DEF TypeOK, Kill, flushVars, dbVars, history
<1>4. ASSUME NEW m \in bus, Lose(m) PROVE TypeOK'
  BY <1>4, FaultType DEF TypeOK, Lose, apiVars, flushVars, dbVars, history
<1>5. ASSUME NEW m \in bus, Duplicate(m) PROVE TypeOK'
  <2>1. m \in Event /\ [m EXCEPT !.copy = faults + 1] \in Event
    BY DEF TypeOK, Event
  <2> QED BY <1>5, <2>1, FaultType
          DEF TypeOK, Duplicate, apiVars, flushVars, dbVars, history
<1>6. ASSUME NEW m \in bus, NEW c \in Consumer, OnMessage(c, m) PROVE TypeOK'
  BY <1>6 DEF TypeOK, OnMessage, apiVars, flushVars, dbVars, history
<1>7. ASSUME NEW c \in Consumer, Tick(c) PROVE TypeOK'
  BY <1>7 DEF TypeOK, Tick, GoTo, apiVars, dbVars, history
<1>8. ASSUME NEW c \in Consumer, NEW u \in User, DebitUser(c, u) PROVE TypeOK'
  BY <1>8 DEF TypeOK, DebitUser, GoTo, apiVars, dbVars, history
<1>9. ASSUME NEW c \in Consumer, NEW m \in batch[c], MeterEvent(c, m) PROVE TypeOK'
  <2>1. m \in Event
    BY DEF TypeOK
  <2>2. totalCost' \in [Consumer -> Nat]
    BY <1>9, <2>1, CostType DEF TypeOK, MeterEvent
  <2>3. usage' \subseteq Event
    BY <1>9, <2>1, InsertUsageBounds DEF TypeOK, MeterEvent
  <2> QED BY <1>9, <2>1, <2>2, <2>3 DEF TypeOK, MeterEvent, apiVars, history
<1>10. ASSUME NEW c \in Consumer, NEW m \in batch[c], MeterError(c, m) PROVE TypeOK'
  <2>1. m \in Event
    BY DEF TypeOK
  <2>2. usage' \subseteq Event
    BY <1>10, <2>1, InsertUsageBounds DEF TypeOK, MeterError
  <2>3. Return(c) /\ Fault("db")
    BY <1>10 DEF MeterError
  <2> QED BY <1>10, <2>2, <2>3, ReturnType, FaultType DEF TypeOK, MeterError, apiVars, history
<1>11. ASSUME NEW c \in Consumer, DebitWallet(c) PROVE TypeOK'
  <2>1. CASE totalCost[c] <= 0
    BY <1>11, <2>1, ReturnType DEF TypeOK, DebitWallet, apiVars, history
  <2>2. CASE ~(totalCost[c] <= 0)
    BY <1>11, <2>2, UpdateWalletType DEF TypeOK, DebitWallet, GoTo, apiVars
  <2> QED BY <2>1, <2>2
<1>12. ASSUME NEW c \in Consumer, DebitError(c) PROVE TypeOK'
  <2>1. Return(c) /\ Fault("db")
    BY <1>12 DEF DebitError
  <2>2. balance' \in [User -> Nat] /\ debited' \in [User -> Nat] /\ charged' \subseteq Event
    BY <1>12, UpdateWalletType DEF TypeOK, DebitError, history
  <2> QED BY <1>12, <2>1, <2>2, ReturnType, FaultType DEF TypeOK, DebitError, apiVars
<1>13. ASSUME NEW c \in Consumer, InsertTransaction(c) PROVE TypeOK'
  <2>1. txns' \in [User -> Nat]
    BY <1>13 DEF TypeOK, InsertTransaction
  <2>2. faults' \in Nat
    BY <1>13, FaultType DEF TypeOK, InsertTransaction
  <2> QED BY <1>13, <2>1, <2>2, ReturnType DEF TypeOK, InsertTransaction, apiVars, history
<1>14. ASSUME NEW c \in Consumer, EndFlush(c) PROVE TypeOK'
  BY <1>14 DEF TypeOK, EndFlush, GoTo, apiVars, dbVars, history
<1>15. ASSUME NEW c \in Consumer, Crash(c) PROVE TypeOK'
  BY <1>15, FaultType, NobodyType DEF TypeOK, Crash, GoTo, apiVars, dbVars, history
<1>17. ASSUME NEW r \in Request, ReceiverReturns(r) PROVE TypeOK'
  BY <1>17 DEF TypeOK, ReceiverReturns, flushVars, dbVars, history
<1>16. CASE UNCHANGED vars
  BY <1>16 DEF TypeOK, vars, apiVars, flushVars, dbVars, history
<1> QED
  BY <1>1, <1>2, <1>3, <1>4, <1>5, <1>6, <1>7, <1>8, <1>9, <1>10, <1>11, <1>12, <1>13,
     <1>14, <1>15, <1>16, <1>17
  DEF Next, ConsumerStep, Idle

(* Every reachable state of the pipeline is well typed; in particular no    *)
(* wallet is ever negative (GREATEST in debitUser's UPDATE).                *)
THEOREM TypeCorrect == Spec => []TypeOK
<1>1. Init => TypeOK
  BY BillingAssumption, NobodyType DEF Init, TypeOK, FaultKind
<1> QED BY <1>1, TypeOKStep, PTL DEF Spec
-----------------------------------------------------------------------------
(* Publishing: the new event has a key no earlier event had.                *)
LEMMA FlushLockedOnce ==
    ASSUME TypeOK, EventsOnce, NEW r \in Request, NEW secs \in Nat, FlushLocked(r, secs),
           UNCHANGED <<pending, batch, pc, seen, usage, charged, faults>>
    PROVE  EventsOnce'
<1> DEFINE event == [req |-> r, n |-> seq[r] + 1, sec |-> secs, copy |-> 0]
<1>1. /\ bus' = bus \cup {event} /\ sent' = sent \cup {event}
      /\ seq' = [seq EXCEPT ![r] = @ + 1]
  BY DEF FlushLocked
<1>2. event.req = r /\ event.n = seq[r] + 1 /\ event.copy = 0
  OBVIOUS
<1>3. \A m \in sent : m.req \in Request /\ m.n \in Nat
  BY DEF TypeOK, Event
<1>4. seq \in [Request -> Nat] /\ faults \in Nat
  BY DEF TypeOK
<1> HIDE DEF event
<1>5. \A m \in sent : ~(m.req = event.req /\ m.n = event.n)
  BY <1>2, <1>3, <1>4 DEF EventsOnce, KeysFresh
<1>6. event \notin sent
  BY <1>5
<1>7. KeysFresh'
  <2>1. \A m \in sent' : m.n <= seq'[m.req] /\ m.copy <= faults'
    BY <1>1, <1>2, <1>3, <1>4 DEF EventsOnce, KeysFresh
  <2>2. \A m1, m2 \in sent' : m1.req = m2.req /\ m1.n = m2.n => m1.sec = m2.sec
    BY <1>1, <1>5 DEF EventsOnce, KeysFresh
  <2> QED BY <2>1, <2>2 DEF KeysFresh
<1>8. AllWereSent'
  BY <1>1 DEF EventsOnce, AllWereSent
<1>9. InOnePlace'
  <2>1. /\ event \notin charged
        /\ \A c \in Consumer : event \notin pending[c] /\ event \notin batch[c]
    BY <1>6 DEF EventsOnce, AllWereSent
  <2> QED BY <1>1, <2>1 DEF EventsOnce, InOnePlace
<1> QED BY <1>7, <1>8, <1>9 DEF EventsOnce, SeenMetered, DebitsBackedByUsage, HasRow

(* A step counts a fault or leaves the counter alone.                       *)
FaultsGrow == faults' \in Nat /\ faults' >= faults

(* Every fault, of whatever kind, makes the counter grow.                   *)
LEMMA FaultGrows ==
    ASSUME TypeOK, NEW k, Fault(k) \/ UNCHANGED faults
    PROVE  FaultsGrow
BY DEF TypeOK, Fault, FaultsGrow

(* No key changes when nothing is published.                                *)
LEMMA KeysStayFresh ==
    ASSUME TypeOK, KeysFresh, FaultsGrow, UNCHANGED <<seq, sent>>
    PROVE  KeysFresh'
<1>1. faults \in Nat /\ \A m \in sent : m.copy \in Nat
  BY DEF TypeOK, Event
<1> QED BY <1>1 DEF KeysFresh, FaultsGrow

(* A row that was written stays.                                            *)
LEMMA RowsStay ==
    ASSUME usage \subseteq usage', NEW m, HasRow(m)
    PROVE  HasRow(m)'
BY DEF HasRow

(* debitUser is done with its events, charged or not: they leave the batch. *)
LEMMA LeaveBatchOnce ==
    ASSUME TypeOK, EventsOnce, NEW c \in Consumer, NEW label \in {"users", "txn"},
           batch' = [batch EXCEPT ![c] = @ \ UserEvents(c, debtor[c])],
           seen' = [seen EXCEPT ![c] = {}],
           pc' = [pc EXCEPT ![c] = label],
           UNCHANGED <<seq, sent, bus, pending>>, FaultsGrow,
           usage \subseteq usage', usage' \subseteq sent,
           \/ charged' = charged
           \/ charged' = charged \cup seen[c] /\ seen[c] = UserEvents(c, debtor[c])
    PROVE  EventsOnce'
<1>1. /\ batch \in [Consumer -> SUBSET Event]
      /\ seen \in [Consumer -> SUBSET Event]
      /\ pc \in [Consumer -> {"tick", "users", "meter", "txn"}]
  BY DEF TypeOK
<1>2. seen[c] \subseteq batch[c] /\ (\A m \in seen[c] : HasRow(m)) /\ batch[c] \subseteq sent
  BY DEF EventsOnce, SeenMetered, AllWereSent
<1>3. \A d \in Consumer : batch'[d] \subseteq batch[d]
  BY <1>1
<1>4. KeysFresh'
  BY KeysStayFresh DEF EventsOnce
<1>5. AllWereSent'
  BY <1>2, <1>3 DEF EventsOnce, AllWereSent
<1>6. SeenMetered'
  <2>1. \A d \in Consumer : d # c => seen'[d] = seen[d] /\ batch'[d] = batch[d] /\ pc'[d] = pc[d]
    BY <1>1
  <2>2. seen'[c] = {}
    BY <1>1
  <2>3. \A m : HasRow(m) => HasRow(m)'
    BY RowsStay
  <2> QED BY <2>1, <2>2, <2>3 DEF EventsOnce, SeenMetered
<1>7. DebitsBackedByUsage'
  <2>1. \A m \in charged' : HasRow(m)
    BY <1>2 DEF EventsOnce, DebitsBackedByUsage
  <2> QED BY <2>1, RowsStay DEF DebitsBackedByUsage
<1>8. InOnePlace'
  <2>1. \A d \in Consumer : charged' \cap batch'[d] = {}
    <3>1. CASE charged' = charged
      BY <3>1, <1>3 DEF EventsOnce, InOnePlace
    <3>2. CASE charged' = charged \cup seen[c] /\ seen[c] = UserEvents(c, debtor[c])
      <4>1. batch'[c] \cap seen[c] = {}
        BY <1>1, <3>2
      <4>2. \A d \in Consumer : d # c => batch[d] \cap seen[c] = {}
        BY <1>2 DEF EventsOnce, InOnePlace
      <4> QED BY <3>2, <4>1, <4>2, <1>3 DEF EventsOnce, InOnePlace
    <3> QED BY <3>1, <3>2
  <2>2. bus' \cap charged' = {} /\ \A d \in Consumer : charged' \cap pending'[d] = {}
    <3>1. \A d \in Consumer : seen[c] \cap pending[d] = {}
      BY <1>2 DEF EventsOnce, InOnePlace
    <3>2. seen[c] \cap bus = {}
      BY <1>2 DEF EventsOnce, InOnePlace
    <3> QED BY <3>1, <3>2 DEF EventsOnce, InOnePlace
  <2> QED BY <1>3, <2>1, <2>2 DEF EventsOnce, InOnePlace
<1> QED BY <1>4, <1>5, <1>6, <1>7, <1>8 DEF EventsOnce

(* The same when debitUser returns, with or without an error.               *)
LEMMA ReturnOnce ==
    ASSUME TypeOK, EventsOnce, NEW c \in Consumer, Return(c),
           UNCHANGED <<seq, sent, bus, pending>>, FaultsGrow,
           usage \subseteq usage', usage' \subseteq sent,
           \/ charged' = charged
           \/ charged' = charged \cup seen[c] /\ seen[c] = UserEvents(c, debtor[c])
    PROVE  EventsOnce'
BY LeaveBatchOnce DEF Return, GoTo

(* Every step preserves the strengthening.                                  *)
LEMMA EventsOnceStep == TypeOK /\ EventsOnce /\ [Next]_vars => EventsOnce'
<1> SUFFICES ASSUME TypeOK, EventsOnce, [Next]_vars PROVE EventsOnce'
  OBVIOUS
<1> USE DEF FaultKind
<1>1. ASSUME NEW r \in Request, NEW sec \in ChunkSec, AddPCM(r, sec) PROVE EventsOnce'
  <2>1. window[r] + sec \in Nat
    BY BillingAssumption DEF TypeOK
  <2>2. CASE FlushLocked(r, window[r] + sec)
    BY <1>1, <2>1, <2>2, FlushLockedOnce DEF AddPCM, flushVars, dbVars, history
  <2>3. CASE UNCHANGED <<seq, bus, sent>>
    BY <1>1, <2>3 DEF AddPCM, flushVars, dbVars, history, EventsOnce, KeysFresh, AllWereSent,
                      InOnePlace, SeenMetered, DebitsBackedByUsage, HasRow
  <2> QED BY <1>1, <2>2, <2>3 DEF AddPCM
<1>2. ASSUME NEW r \in Request, Flush(r) PROVE EventsOnce'
  <2>1. window[r] \in Nat
    BY DEF TypeOK
  <2>2. CASE FlushLocked(r, window[r])
    BY <1>2, <2>1, <2>2, FlushLockedOnce DEF Flush, flushVars, dbVars, history
  <2>3. CASE UNCHANGED <<seq, bus, sent>>
    BY <1>2, <2>3 DEF Flush, flushVars, dbVars, history, EventsOnce, KeysFresh, AllWereSent,
                      InOnePlace, SeenMetered, DebitsBackedByUsage, HasRow
  <2> QED BY <1>2, <2>2, <2>3 DEF Flush
<1>3. ASSUME NEW r \in Request, Kill(r) PROVE EventsOnce'
  <2>1. KeysFresh'
    BY <1>3, FaultGrows, KeysStayFresh DEF Kill, EventsOnce
  <2> QED BY <1>3, <2>1 DEF Kill, flushVars, dbVars, history, EventsOnce, AllWereSent,
                            InOnePlace, SeenMetered, DebitsBackedByUsage, HasRow
<1>4. ASSUME NEW m \in bus, Lose(m) PROVE EventsOnce'
  <2>1. KeysFresh'
    BY <1>4, FaultGrows, KeysStayFresh DEF Lose, apiVars, EventsOnce
  <2> QED BY <1>4, <2>1 DEF Lose, apiVars, flushVars, dbVars, history, EventsOnce, AllWereSent,
                            InOnePlace, SeenMetered, DebitsBackedByUsage, HasRow
<1>5. ASSUME NEW m \in bus, Duplicate(m) PROVE EventsOnce'
  <2> DEFINE twin == [m EXCEPT !.copy = faults + 1]
  <2>1. /\ bus' = bus \cup {twin} /\ sent' = sent \cup {twin} /\ faults' = faults + 1
        /\ UNCHANGED <<seq, pending, batch, pc, seen, usage, charged>>
    BY <1>5 DEF Duplicate, Fault, apiVars, flushVars, dbVars, history
  <2>2. m \in sent /\ faults \in Nat /\ \A x \in sent : x \in Event
    BY DEF TypeOK, EventsOnce, AllWereSent
  <2>3. twin.req = m.req /\ twin.n = m.n /\ twin.sec = m.sec /\ twin.copy = faults + 1
    BY <2>2 DEF Event
  <2> HIDE DEF twin
  <2>4. \A x \in sent : x.copy \in Nat /\ x.copy <= faults
    BY <2>2 DEF Event, EventsOnce, KeysFresh
  <2>5. twin \notin sent
    BY <2>2, <2>3, <2>4
  <2>6. KeysFresh'
    <3>1. \A x \in sent' : x.n <= seq'[x.req] /\ x.copy <= faults'
      BY <2>1, <2>2, <2>3, <2>4 DEF EventsOnce, KeysFresh
    <3>2. \A x, y \in sent' : x.req = y.req /\ x.n = y.n => x.sec = y.sec
      BY <2>1, <2>2, <2>3 DEF EventsOnce, KeysFresh
    <3> QED BY <3>1, <3>2 DEF KeysFresh
  <2>7. AllWereSent'
    BY <2>1 DEF EventsOnce, AllWereSent
  <2>8. InOnePlace'
    <3>1. /\ twin \notin charged
          /\ \A c \in Consumer : twin \notin pending[c] /\ twin \notin batch[c]
      BY <2>5 DEF EventsOnce, AllWereSent
    <3> QED BY <2>1, <3>1 DEF EventsOnce, InOnePlace
  <2> QED BY <2>1, <2>6, <2>7, <2>8
          DEF EventsOnce, SeenMetered, DebitsBackedByUsage, HasRow
<1>6. ASSUME NEW m \in bus, NEW c \in Consumer, OnMessage(c, m) PROVE EventsOnce'
  <2>1. /\ bus' = bus \ {m}
        /\ pending' = [pending EXCEPT ![c] = pending[c] \cup {m}]
        /\ UNCHANGED <<seq, sent, batch, pc, seen, usage, charged, faults>>
    BY <1>6 DEF OnMessage, apiVars, flushVars, dbVars, history
  <2>2. pending \in [Consumer -> SUBSET Event]
    BY DEF TypeOK
  <2>3. AllWereSent'
    BY <2>1, <2>2 DEF EventsOnce, AllWereSent
  <2>4. InOnePlace'
    <3>1. \A d \in Consumer : pending'[d] = IF d = c THEN pending[d] \cup {m} ELSE pending[d]
      BY <2>1, <2>2
    <3> QED BY <2>1, <3>1 DEF EventsOnce, InOnePlace
  <2> QED BY <2>1, <2>3, <2>4
          DEF EventsOnce, KeysFresh, SeenMetered, DebitsBackedByUsage, HasRow
<1>7. ASSUME NEW c \in Consumer, Tick(c) PROVE EventsOnce'
  <2>1. /\ batch' = [batch EXCEPT ![c] = pending[c]]
        /\ pending' = [pending EXCEPT ![c] = {}]
        /\ pc' = [pc EXCEPT ![c] = "users"]
        /\ pc[c] = "tick"
        /\ UNCHANGED <<seq, bus, sent, seen, usage, charged, faults>>
    BY <1>7 DEF Tick, GoTo, apiVars, dbVars, history
  <2>2. /\ pending \in [Consumer -> SUBSET Event]
        /\ batch \in [Consumer -> SUBSET Event]
        /\ pc \in [Consumer -> {"tick", "users", "meter", "txn"}]
    BY DEF TypeOK
  <2>3. \A d \in Consumer : pending'[d] \cup batch'[d] \subseteq pending[d] \cup batch[d]
    BY <2>1, <2>2
  <2>4. \A d \in Consumer : pending'[d] \cap batch'[d] = {}
    BY <2>1, <2>2 DEF EventsOnce, InOnePlace
  <2>5. InOnePlace'
    BY <2>1, <2>3, <2>4 DEF EventsOnce, InOnePlace
  <2>6. AllWereSent'
    BY <2>1, <2>2 DEF EventsOnce, AllWereSent
  <2>7. SeenMetered'
    BY <2>1, <2>2 DEF EventsOnce, SeenMetered, HasRow
  <2> QED BY <2>1, <2>5, <2>6, <2>7 DEF EventsOnce, KeysFresh, DebitsBackedByUsage, HasRow
<1>8. ASSUME NEW c \in Consumer, NEW u \in User, DebitUser(c, u) PROVE EventsOnce'
  <2>1. /\ pc[c] = "users" /\ pc' = [pc EXCEPT ![c] = "meter"]
        /\ UNCHANGED <<seq, sent, bus, pending, batch, seen, usage, charged, faults>>
    BY <1>8 DEF DebitUser, GoTo, apiVars, dbVars, history
  <2>2. SeenMetered'
    BY <2>1 DEF TypeOK, EventsOnce, SeenMetered, HasRow
  <2> QED BY <2>1, <2>2 DEF EventsOnce, KeysFresh, AllWereSent, InOnePlace,
                            DebitsBackedByUsage, HasRow
<1>9. ASSUME NEW c \in Consumer, NEW m \in batch[c], MeterEvent(c, m) PROVE EventsOnce'
  <2>1. /\ usage' = InsertUsage(usage, m)
        /\ seen' = [seen EXCEPT ![c] = seen[c] \cup {m}]
        /\ pc[c] = "meter"
        /\ UNCHANGED <<seq, sent, bus, pending, batch, pc, charged, faults>>
    BY <1>9 DEF MeterEvent, apiVars, history
  <2>2. m \in sent /\ usage \subseteq sent
    BY DEF EventsOnce, AllWereSent
  <2>3. usage \subseteq usage' /\ usage' \subseteq sent
    BY <2>1, <2>2, InsertUsageBounds
  <2>4. HasRow(m)'
    <3>1. \E row \in usage' : row.req = m.req /\ row.n = m.n
      BY <2>1 DEF InsertUsage
    <3> QED BY <2>2, <2>3, <3>1 DEF HasRow, EventsOnce, KeysFresh
  <2>5. SeenMetered'
    <3>1. \A x : HasRow(x) => HasRow(x)'
      BY <2>3, RowsStay
    <3> QED BY <2>1, <2>4, <3>1 DEF TypeOK, EventsOnce, SeenMetered
  <2>6. DebitsBackedByUsage'
    BY <2>1, <2>3, RowsStay DEF EventsOnce, DebitsBackedByUsage
  <2> QED BY <2>1, <2>3, <2>5, <2>6 DEF EventsOnce, KeysFresh, AllWereSent, InOnePlace
<1>10. ASSUME NEW c \in Consumer, NEW m \in batch[c], MeterError(c, m) PROVE EventsOnce'
  <2>1. /\ Return(c)
        /\ usage' \in {usage, InsertUsage(usage, m)}
        /\ UNCHANGED <<seq, sent, bus, pending, charged>>
        /\ FaultsGrow
    BY <1>10, FaultGrows DEF MeterError, apiVars, history
  <2>2. m \in sent /\ usage \subseteq sent
    BY DEF EventsOnce, AllWereSent
  <2>3. usage \subseteq usage' /\ usage' \subseteq sent
    BY <2>1, <2>2, InsertUsageBounds
  <2> QED BY <2>1, <2>3, ReturnOnce
<1>11. ASSUME NEW c \in Consumer, DebitWallet(c) PROVE EventsOnce'
  <2>1. /\ seen[c] = UserEvents(c, debtor[c])
        /\ UNCHANGED <<seq, sent, bus, pending, usage>>
        /\ FaultsGrow
    BY <1>11 DEF DebitWallet, MeteredAll, apiVars, FaultsGrow, TypeOK
  <2>2. usage \subseteq usage' /\ usage' \subseteq sent
    BY <2>1 DEF EventsOnce, AllWereSent
  <2>3. CASE totalCost[c] <= 0
    BY <1>11, <2>1, <2>2, <2>3, ReturnOnce DEF DebitWallet, history
  <2>4. CASE ~(totalCost[c] <= 0)
    BY <1>11, <2>1, <2>2, <2>4, LeaveBatchOnce DEF DebitWallet, UpdateWallet, GoTo
  <2> QED BY <2>3, <2>4
<1>12. ASSUME NEW c \in Consumer, DebitError(c) PROVE EventsOnce'
  <2>1. /\ Return(c)
        /\ seen[c] = UserEvents(c, debtor[c])
        /\ charged' = charged \/ charged' = charged \cup seen[c]
        /\ UNCHANGED <<seq, sent, bus, pending, usage>>
        /\ FaultsGrow
    BY <1>12, FaultGrows DEF DebitError, MeteredAll, UpdateWallet, apiVars, history
  <2>2. usage \subseteq usage' /\ usage' \subseteq sent
    BY <2>1 DEF EventsOnce, AllWereSent
  <2> QED BY <2>1, <2>2, ReturnOnce
<1>13. ASSUME NEW c \in Consumer, InsertTransaction(c) PROVE EventsOnce'
  <2>1. /\ Return(c)
        /\ UNCHANGED <<seq, sent, bus, pending, usage, charged>>
        /\ FaultsGrow
    BY <1>13, FaultGrows DEF InsertTransaction, apiVars, history
  <2>2. usage \subseteq usage' /\ usage' \subseteq sent
    BY <2>1 DEF EventsOnce, AllWereSent
  <2> QED BY <2>1, <2>2, ReturnOnce
<1>14. ASSUME NEW c \in Consumer, EndFlush(c) PROVE EventsOnce'
  <2>1. /\ pc[c] = "users" /\ pc' = [pc EXCEPT ![c] = "tick"]
        /\ UNCHANGED <<seq, sent, bus, pending, batch, seen, usage, charged, faults>>
    BY <1>14 DEF EndFlush, GoTo, apiVars, dbVars, history
  <2>2. SeenMetered'
    BY <2>1 DEF TypeOK, EventsOnce, SeenMetered, HasRow
  <2> QED BY <2>1, <2>2 DEF EventsOnce, KeysFresh, AllWereSent, InOnePlace,
                            DebitsBackedByUsage, HasRow
<1>15. ASSUME NEW c \in Consumer, Crash(c) PROVE EventsOnce'
  <2>1. /\ pending' = [pending EXCEPT ![c] = {}]
        /\ batch' = [batch EXCEPT ![c] = {}]
        /\ seen' = [seen EXCEPT ![c] = {}]
        /\ pc' = [pc EXCEPT ![c] = "tick"]
        /\ UNCHANGED <<seq, sent, bus, usage, charged>>
        /\ FaultsGrow
    BY <1>15, FaultGrows DEF Crash, GoTo, apiVars, dbVars, history
  <2>2. \A d \in Consumer : pending'[d] \subseteq pending[d] /\ batch'[d] \subseteq batch[d]
    BY <2>1 DEF TypeOK
  <2>3. SeenMetered'
    BY <2>1 DEF TypeOK, EventsOnce, SeenMetered, HasRow
  <2>4. AllWereSent'
    BY <2>1, <2>2 DEF EventsOnce, AllWereSent
  <2>5. InOnePlace'
    BY <2>1, <2>2 DEF EventsOnce, InOnePlace
  <2>6. KeysFresh'
    BY <2>1, KeysStayFresh DEF EventsOnce
  <2> QED BY <2>1, <2>3, <2>4, <2>5, <2>6 DEF EventsOnce, DebitsBackedByUsage, HasRow
<1>17. ASSUME NEW r \in Request, ReceiverReturns(r) PROVE EventsOnce'
  BY <1>17 DEF ReceiverReturns, flushVars, dbVars, history, EventsOnce, KeysFresh, AllWereSent,
               InOnePlace, SeenMetered, DebitsBackedByUsage, HasRow
<1>16. CASE UNCHANGED vars
  BY <1>16 DEF vars, apiVars, flushVars, dbVars, history, EventsOnce, KeysFresh, AllWereSent,
               InOnePlace, SeenMetered, DebitsBackedByUsage, HasRow
<1> QED
  BY <1>1, <1>2, <1>3, <1>4, <1>5, <1>6, <1>7, <1>8, <1>9, <1>10, <1>11, <1>12, <1>13,
     <1>14, <1>15, <1>16, <1>17
  DEF Next, ConsumerStep, Idle

(* The inductive invariant of the pipeline.                                 *)
LEMMA EventsOnceInvariant == Spec => []EventsOnce
<1>1. Init => EventsOnce
  BY DEF Init, EventsOnce, KeysFresh, AllWereSent, InOnePlace, SeenMetered,
         DebitsBackedByUsage, HasRow
<1> QED BY <1>1, EventsOnceStep, TypeCorrect, PTL DEF Spec

(* Every message a wallet was debited for has a row of its key and amount   *)
(* in usage_events, through lost and repeated messages, failed statements   *)
(* and crashes of any consumer.                                             *)
THEOREM DebitsBacked == Spec => []DebitsBackedByUsage
<1>1. EventsOnce => DebitsBackedByUsage
  BY DEF EventsOnce
<1> QED BY <1>1, EventsOnceInvariant, PTL

(* No consumer of the queue group is ever about to debit a message that was *)
(* debited before.                                                          *)
THEOREM NoDoubleDebit == Spec => []DebitedAtMostOnce
<1>1. EventsOnce => DebitedAtMostOnce
  BY DEF EventsOnce, InOnePlace, SeenMetered, DebitedAtMostOnce
<1> QED BY <1>1, EventsOnceInvariant, PTL

-----------------------------------------------------------------------------
(* Sums over finite sets.  The library's fold picks the elements of a set   *)
(* in an order of its own; what follows shows that the order is irrelevant, *)
(* by induction over the subsets, and then what changing a set or a summand *)
(* does to a sum.                                                           *)

(* A set of natural numbers that is not empty has a least element.          *)
LEMMA Least ==
    ASSUME NEW T, T \subseteq Nat, T # {}
    PROVE  \E n \in T : \A m \in T : n <= m
<1> DEFINE R == {ss \in Nat \X Nat : ss[1] < ss[2]}
<1>1. IsWellFoundedOn(R, Nat)
  BY NatLessThanWellFounded DEF OpToRel
<1>2. \A x, y \in Nat : y < x => <<y, x>> \in R
  OBVIOUS
<1> HIDE DEF R
<1>3. PICK x \in T : \A y \in T : ~ (<<y, x>> \in R)
  BY <1>1, WFMin
<1>4. ASSUME NEW y \in T PROVE x <= y
  <2>1. ~(y < x)
    BY <1>2, <1>3
  <2> QED
    BY <2>1
<1> QED
  BY <1>4

(* Induction, with the property as a set.                                   *)
LEMMA Induction ==
    ASSUME NEW T, 0 \in T, \A n \in Nat : n \in T => n + 1 \in T
    PROVE  \A n \in Nat : n \in T
<1> SUFFICES ASSUME Nat \ T # {} PROVE FALSE
  OBVIOUS
<1>1. PICK n \in Nat \ T : \A m \in Nat \ T : n <= m
  BY Least, Nat \ T \subseteq Nat
<1>2. n # 0 /\ n - 1 \in Nat
  BY <1>1
<1>3. n - 1 \in T
  BY <1>1, <1>2
<1> QED
  BY <1>1, <1>2, <1>3
Pick(s) == CHOOSE x \in s : TRUE

(* g sums f over the sets of D the way the fold does.                       *)
Sums(f, g, D) ==
    g = [s \in D |-> IF s = {} THEN 0 ELSE f[Pick(s)] + g[s \ {Pick(s)}]]

Partial(f, S) == CHOOSE g : Sums(f, g, SUBSET S)

(* The sum of the library is the fold of the whole set.                     *)
LEMMA SumDef == ASSUME NEW f, NEW S PROVE SumOver(f, S) = Partial(f, S)[S]
BY DEF SumOver, SumFunctionOnSet, FoldFunctionOnSet, MapThenFoldSet, Partial, Sums, Pick

(* What is picked of a set that is not empty is one of its elements.        *)
LEMMA PickIn == ASSUME NEW s, s # {} PROVE Pick(s) \in s
BY DEF Pick

(* A subset of a finite set, less one element, has one element less.        *)
LEMMA Smaller ==
    ASSUME NEW S, IsFiniteSet(S), NEW s \in SUBSET S, NEW x \in s
    PROVE  /\ IsFiniteSet(s) /\ IsFiniteSet(s \ {x})
           /\ Cardinality(s) \in Nat /\ Cardinality(s \ {x}) \in Nat
           /\ Cardinality(s \ {x}) = Cardinality(s) - 1
<1>1. IsFiniteSet(s)
  BY FS_Subset
<1> QED
  BY <1>1, FS_RemoveElement, FS_CardinalityType

(* Induction over the subsets of a finite set, with the property as a set.  *)
LEMMA SetInduction ==
    ASSUME NEW S, IsFiniteSet(S), NEW T, {} \in T,
           \A s \in SUBSET S : s \in T => \A x \in S \ s : s \cup {x} \in T
    PROVE  \A s \in SUBSET S : s \in T
<1> DEFINE N == {n \in Nat : \A s \in SUBSET S : Cardinality(s) = n => s \in T}
<1>0. \A s \in SUBSET S : Cardinality(s) \in Nat /\ (Cardinality(s) = 0 <=> s = {})
  BY FS_Subset, FS_CardinalityType, FS_EmptySet
<1>1. 0 \in N
  BY <1>0
<1>2. ASSUME NEW n \in Nat, n \in N PROVE n + 1 \in N
  <2> SUFFICES ASSUME NEW s \in SUBSET S, Cardinality(s) = n + 1 PROVE s \in T
    OBVIOUS
  <2>1. PICK x \in s : TRUE
    BY <1>0
  <2>2. Cardinality(s \ {x}) = n
    <3>1. Cardinality(s \ {x}) = Cardinality(s) - 1
      BY Smaller
    <3> QED BY <3>1
  <2>3. s \ {x} \in T /\ s \ {x} \in SUBSET S /\ x \in S \ (s \ {x})
    BY <1>2, <2>2
  <2>4. (s \ {x}) \cup {x} = s
    OBVIOUS
  <2>5. (s \ {x}) \cup {x} \in T
    BY <2>3
  <2> QED BY <2>4, <2>5
<1> HIDE DEF N
<1>3. \A n \in Nat : n \in N
  BY <1>1, <1>2, Induction
<1> QED BY <1>0, <1>3 DEF N

(* The fold is defined on finite sets.                                      *)
LEMMA PartialExists ==
    ASSUME NEW f, NEW S, IsFiniteSet(S)
    PROVE  Sums(f, Partial(f, S), SUBSET S)
<1> DEFINE D(n) == {s \in SUBSET S : Cardinality(s) <= n}
           T == {n \in Nat : \E g : Sums(f, g, D(n))}
<1>0. \A s \in SUBSET S : Cardinality(s) \in Nat
  BY FS_Subset, FS_CardinalityType
<1>1. 0 \in T
  <2> DEFINE g == [s \in D(0) |-> 0]
  <2>1. \A s \in D(0) : s = {}
    BY FS_Subset, FS_EmptySet, FS_CardinalityType
  <2>2. Sums(f, g, D(0))
    BY <2>1 DEF Sums
  <2> QED
    BY <2>2
<1>2. ASSUME NEW n \in Nat, n \in T PROVE n + 1 \in T
  <2>1. PICK g : Sums(f, g, D(n))
    BY <1>2
  <2> DEFINE h == [s \in D(n + 1) |-> IF s = {} THEN 0 ELSE f[Pick(s)] + g[s \ {Pick(s)}]]
  <2>2. ASSUME NEW s \in D(n) PROVE s \in D(n + 1) /\ h[s] = g[s]
    <3>1. s \in D(n + 1)
      BY <1>0
    <3>2. g[s] = IF s = {} THEN 0 ELSE f[Pick(s)] + g[s \ {Pick(s)}]
      BY <2>1 DEF Sums
    <3> QED
      BY <3>1, <3>2
  <2>3. ASSUME NEW s \in D(n + 1), s # {} PROVE s \ {Pick(s)} \in D(n)
    BY <2>3, PickIn, Smaller
  <2>4. h = [s \in D(n + 1) |-> IF s = {} THEN 0 ELSE f[Pick(s)] + h[s \ {Pick(s)}]]
    <3>1. ASSUME NEW s \in D(n + 1), s # {} PROVE h[s \ {Pick(s)}] = g[s \ {Pick(s)}]
      BY <2>2, <2>3, <3>1
    <3> QED
      BY <3>1
  <2>5. Sums(f, h, D(n + 1))
    BY <2>4 DEF Sums
  <2> HIDE DEF h
  <2>6. \E k : Sums(f, k, D(n + 1))
    BY <2>5
  <2>7. n + 1 \in Nat
    OBVIOUS
  <2> QED
    BY <2>6, <2>7, Zenon
<1>3. \A n \in Nat : n \in T
  <2> HIDE DEF T
  <2> QED
    BY <1>1, <1>2, Induction
<1>4. Cardinality(S) \in Nat /\ D(Cardinality(S)) = SUBSET S
  BY FS_CardinalityType, FS_Subset
<1>5. \E g : Sums(f, g, SUBSET S)
  BY <1>3, <1>4
<1> QED
  BY <1>5 DEF Partial

(* The fold of a set is what is picked and the fold of the others.          *)
PickOrder(f, g, S) ==
    /\ g[{}] = 0
    /\ \A s \in SUBSET S : s # {} => Pick(s) \in s /\ g[s] = f[Pick(s)] + g[s \ {Pick(s)}]

(* The fold picks the elements of a finite set one by one.                  *)
LEMMA PartialStep ==
    ASSUME NEW f, NEW S, IsFiniteSet(S), NEW G, G = Partial(f, S)
    PROVE  PickOrder(f, G, S)
<1>0. Sums(f, G, SUBSET S)
  BY PartialExists
<1>1. G = [s \in SUBSET S |-> IF s = {} THEN 0 ELSE f[Pick(s)] + G[s \ {Pick(s)}]]
  BY <1>0, Zenon DEF Sums
<1>2. \A s \in SUBSET S : G[s] = IF s = {} THEN 0 ELSE f[Pick(s)] + G[s \ {Pick(s)}]
  BY <1>1
<1> QED
  BY <1>2, PickIn DEF PickOrder

(* The fold of s is one of its elements and the fold of the others.         *)
AnyOrder(f, g, s) == g[s] \in Nat /\ \A x \in s : g[s] = f[x] + g[s \ {x}]

NatOn(f, S) == \A x \in S : f[x] \in Nat

(* It does not matter in which order the elements are picked.               *)
LEMMA PartialAny ==
    ASSUME NEW f, NEW S, IsFiniteSet(S), NatOn(f, S), NEW G, G = Partial(f, S)
    PROVE  \A s \in SUBSET S : AnyOrder(f, G, s)
<1>a. \A s \in SUBSET S : Cardinality(s) \in Nat /\ (Cardinality(s) = 0 <=> s = {})
  BY FS_Subset, FS_CardinalityType, FS_EmptySet
<1>0. PickOrder(f, G, S)
  BY PartialStep
<1> DEFINE T == {n \in Nat : \A s \in SUBSET S : Cardinality(s) <= n => AnyOrder(f, G, s)}
<1>1. 0 \in T
  <2>1. ASSUME NEW s \in SUBSET S, Cardinality(s) <= 0 PROVE AnyOrder(f, G, s)
    <3>1. s = {}
      BY <1>a, <2>1
    <3> QED BY <1>0, <3>1 DEF AnyOrder, PickOrder
  <2> QED BY <2>1
<1>2. ASSUME NEW n \in Nat, n \in T PROVE n + 1 \in T
  <2>0. ASSUME NEW s \in SUBSET S, Cardinality(s) <= n + 1 PROVE AnyOrder(f, G, s)
    <3>0. CASE Cardinality(s) <= n
      BY <1>2, <3>0
    <3> SUFFICES ASSUME Cardinality(s) = n + 1 PROVE AnyOrder(f, G, s)
      BY <3>0, <2>0, <1>a
    <3>1. s # {}
      BY <1>a
    <3>2. PICK p \in s : G[s] = f[p] + G[s \ {p}]
      BY <1>0, <3>1 DEF PickOrder
    <3>3. ASSUME NEW x \in s PROVE Cardinality(s \ {x}) = n /\ s \ {x} \in SUBSET S
      <4>1. Cardinality(s \ {x}) = Cardinality(s) - 1
        BY Smaller
      <4> QED BY <4>1
    <3>4. ASSUME NEW x \in s PROVE AnyOrder(f, G, s \ {x})
      BY <1>2, <3>3
    <3>5. G[s] \in Nat
      <4>1. G[s \ {p}] \in Nat /\ f[p] \in Nat
        BY <3>4 DEF AnyOrder, NatOn
      <4> QED BY <3>2, <4>1
    <3>6. ASSUME NEW x \in s PROVE G[s] = f[x] + G[s \ {x}]
      <4>1. CASE x = p
        BY <3>2, <4>1
      <4>2. CASE x # p
        <5>1. x \in s \ {p} /\ p \in s \ {x} /\ (s \ {p}) \ {x} = (s \ {x}) \ {p}
          BY <4>2
        <5>2. G[s \ {p}] = f[x] + G[(s \ {p}) \ {x}]
          BY <3>4, <5>1 DEF AnyOrder
        <5>3. G[s \ {x}] = f[p] + G[(s \ {p}) \ {x}]
          BY <3>4, <5>1 DEF AnyOrder
        <5>4. f[x] \in Nat /\ f[p] \in Nat /\ G[s \ {x}] \in Nat /\ G[s \ {p}] \in Nat
          BY <3>4 DEF AnyOrder, NatOn
        <5>5. G[(s \ {p}) \ {x}] \in Nat
          <6>1. (s \ {p}) \ {x} \in SUBSET S /\ s \ {p} \in SUBSET S
            OBVIOUS
          <6>2. Cardinality((s \ {p}) \ {x}) = n - 1
            BY <6>1, <5>1, <3>3, Smaller
          <6> QED
            BY <6>1, <6>2, <1>2 DEF AnyOrder
        <5> QED
          BY <3>2, <5>2, <5>3, <5>4, <5>5
      <4> QED
        BY <4>1, <4>2
    <3> QED
      BY <3>5, <3>6 DEF AnyOrder
  <2> QED BY <2>0
<1>3. \A n \in Nat : n \in T
  <2> HIDE DEF T
  <2> QED
    BY <1>1, <1>2, Induction
<1>4. ASSUME NEW s \in SUBSET S PROVE AnyOrder(f, G, s)
  <2>1. Cardinality(s) \in Nat /\ Cardinality(s) <= Cardinality(s)
    BY <1>a
  <2> QED BY <1>3, <2>1
<1> QED
  BY <1>4

(* Two functions that agree on a finite set have the same partial sums on   *)
(* its subsets, whatever sets they are folded over.                         *)
LEMMA PartialSame ==
    ASSUME NEW f, NEW g, NEW S, NEW R, IsFiniteSet(S), IsFiniteSet(R), R \subseteq S,
           NatOn(f, S), \A x \in R : g[x] = f[x]
    PROVE  Partial(g, R)[R] = Partial(f, S)[R]
<1>0. PICK F, G : F = Partial(f, S) /\ G = Partial(g, R)
  OBVIOUS
<1> DEFINE T == {s \in SUBSET R : G[s] = F[s]}
<1>1. \A s \in SUBSET S : AnyOrder(f, F, s)
  BY <1>0, PartialAny
<1>2. \A s \in SUBSET R : AnyOrder(g, G, s)
  <2>1. NatOn(g, R)
    BY DEF NatOn
  <2> QED BY <1>0, <2>1, PartialAny
<1>3. F[{}] = 0 /\ G[{}] = 0
  <2>1. PickOrder(f, F, S) /\ PickOrder(g, G, R)
    BY <1>0, PartialStep
  <2> QED BY <2>1 DEF PickOrder
<1>4. {} \in T
  BY <1>3
<1>5. ASSUME NEW s \in SUBSET R, s \in T, NEW x \in R \ s PROVE s \cup {x} \in T
  <2>1. (s \cup {x}) \ {x} = s
    OBVIOUS
  <2>2. s \cup {x} \in SUBSET R /\ s \cup {x} \in SUBSET S /\ x \in s \cup {x}
    OBVIOUS
  <2>3. G[s \cup {x}] = g[x] + G[s] /\ F[s \cup {x}] = f[x] + F[s]
    BY <1>1, <1>2, <2>1, <2>2 DEF AnyOrder
  <2> QED BY <1>5, <2>2, <2>3
<1> HIDE DEF T
<1>6. \A s \in SUBSET R : s \in T
  BY <1>4, <1>5, SetInduction
<1> QED BY <1>0, <1>6 DEF T

(* What the proofs about the books use of it.                               *)

LEMMA SumEmpty == \A f : SumOver(f, {}) = 0
<1> TAKE f
<1>1. PickOrder(f, Partial(f, {}), {})
  BY FS_EmptySet, PartialStep
<1> QED BY <1>1, SumDef DEF PickOrder

(* A sum depends on the values at the elements only.                        *)
LEMMA SumSame ==
    ASSUME NEW f, NEW g, NEW S, IsFiniteSet(S), NatOn(f, S), \A x \in S : g[x] = f[x]
    PROVE  SumOver(g, S) = SumOver(f, S)
<1>1. Partial(g, S)[S] = Partial(f, S)[S]
  BY PartialSame
<1> QED BY <1>1, SumDef

(* Natural numbers add up to a natural number.                              *)
LEMMA SumType ==
    ASSUME NEW f, NEW S, IsFiniteSet(S), NatOn(f, S)
    PROVE  SumOver(f, S) \in Nat
<1>1. AnyOrder(f, Partial(f, S), S)
  BY PartialAny
<1> QED BY <1>1, SumDef DEF AnyOrder

(* Natural on a set, natural on its subsets.                                *)
LEMMA NatOnSubset ==
    ASSUME NEW f, NEW S, NatOn(f, S), NEW R, R \subseteq S
    PROVE  NatOn(f, R)
BY DEF NatOn

(* Any element can be taken out of a sum.                                   *)
LEMMA SumRemove ==
    ASSUME NEW f, NEW S, IsFiniteSet(S), NatOn(f, S), NEW x \in S
    PROVE  SumOver(f, S) = f[x] + SumOver(f, S \ {x})
<1>1. IsFiniteSet(S \ {x}) /\ S \ {x} \subseteq S
  BY FS_RemoveElement
<1>2. AnyOrder(f, Partial(f, S), S)
  BY PartialAny
<1>3. Partial(f, S \ {x})[S \ {x}] = Partial(f, S)[S \ {x}]
  BY <1>1, PartialSame
<1> QED BY <1>2, <1>3, SumDef DEF AnyOrder

(* A new element adds its value.                                            *)
LEMMA SumAdd ==
    ASSUME NEW f, NEW S, IsFiniteSet(S), NEW x, x \notin S, f[x] \in Nat, NatOn(f, S)
    PROVE  /\ IsFiniteSet(S \cup {x})
           /\ SumOver(f, S \cup {x}) = f[x] + SumOver(f, S)
<1>1. IsFiniteSet(S \cup {x})
  BY FS_AddElement
<1>2. (S \cup {x}) \ {x} = S /\ NatOn(f, S \cup {x}) /\ x \in S \cup {x}
  BY DEF NatOn
<1> QED BY <1>1, <1>2, SumRemove

(* Changing one value changes the sum by as much.                           *)
LEMMA SumPoint ==
    ASSUME NEW f, NEW g, NEW S, IsFiniteSet(S), NEW x \in S,
           NatOn(f, S), g[x] \in Nat, \A y \in S \ {x} : g[y] = f[y]
    PROVE  SumOver(g, S) = (SumOver(f, S) - f[x]) + g[x]
<1>1. IsFiniteSet(S \ {x}) /\ NatOn(f, S \ {x}) /\ NatOn(g, S) /\ f[x] \in Nat
  BY FS_RemoveElement DEF NatOn
<1>2. SumOver(g, S \ {x}) = SumOver(f, S \ {x})
  BY <1>1, SumSame
<1>3. SumOver(f, S) = f[x] + SumOver(f, S \ {x})
  BY SumRemove
<1>4. SumOver(g, S) = g[x] + SumOver(g, S \ {x})
  BY <1>1, SumRemove
<1>5. SumOver(f, S \ {x}) \in Nat
  BY <1>1, SumType
<1> QED BY <1>1, <1>2, <1>3, <1>4, <1>5

(* The sum over two disjoint sets is the sum of both sums.                  *)
LEMMA SumUnion ==
    ASSUME NEW f, NEW S, NEW R, IsFiniteSet(S), IsFiniteSet(R), S \cap R = {},
           NatOn(f, S), NatOn(f, R)
    PROVE  SumOver(f, S \cup R) = SumOver(f, S) + SumOver(f, R)
<1> DEFINE T == {s \in SUBSET R : SumOver(f, S \cup s)
                                     = SumOver(f, S) + SumOver(f, s)}
<1>0. SumOver(f, S) \in Nat
  BY SumType
<1>1. {} \in T
  <2>1. S \cup {} = S
    OBVIOUS
  <2> QED BY <1>0, <2>1, SumEmpty
<1>2. ASSUME NEW s \in SUBSET R, s \in T, NEW x \in R \ s PROVE s \cup {x} \in T
  <2>1. S \cup (s \cup {x}) = (S \cup s) \cup {x} /\ x \notin S \cup s
    OBVIOUS
  <2>2. IsFiniteSet(s) /\ IsFiniteSet(S \cup s)
    BY FS_Subset, FS_Union
  <2>3. f[x] \in Nat /\ NatOn(f, s) /\ NatOn(f, S \cup s)
    BY DEF NatOn
  <2>4. SumOver(f, S \cup (s \cup {x})) = f[x] + SumOver(f, S \cup s)
    BY <2>1, <2>2, <2>3, SumAdd
  <2>5. SumOver(f, s \cup {x}) = f[x] + SumOver(f, s)
    BY <2>2, <2>3, SumAdd
  <2>6. SumOver(f, s) \in Nat
    BY <2>2, <2>3, SumType
  <2>7. SumOver(f, S \cup s) = SumOver(f, S) + SumOver(f, s)
    BY <1>2
  <2>8. SumOver(f, S \cup (s \cup {x}))
          = SumOver(f, S) + SumOver(f, s \cup {x})
    BY <1>0, <2>3, <2>4, <2>5, <2>6, <2>7
  <2> QED BY <2>8
<1> HIDE DEF T
<1>3. \A s \in SUBSET R : s \in T
  BY <1>1, <1>2, SetInduction
<1> QED BY <1>3 DEF T

(* More elements do not make a smaller sum.                                 *)
LEMMA SumMono ==
    ASSUME NEW f, NEW S, NEW R, IsFiniteSet(S), R \subseteq S, NatOn(f, S)
    PROVE  SumOver(f, R) <= SumOver(f, S)
<1>1. IsFiniteSet(R) /\ IsFiniteSet(S \ R) /\ R \cup (S \ R) = S /\ R \cap (S \ R) = {}
  BY FS_Subset
<1>2. NatOn(f, R) /\ NatOn(f, S \ R)
  BY NatOnSubset
<1>3. SumOver(f, R \cup (S \ R)) = SumOver(f, R) + SumOver(f, S \ R)
  BY <1>1, <1>2, SumUnion
<1>4. SumOver(f, R) \in Nat /\ SumOver(f, S \ R) \in Nat
  BY <1>1, <1>2, SumType
<1>5. SumOver(f, S) = SumOver(f, R) + SumOver(f, S \ R)
  BY <1>1, <1>3
<1> QED BY <1>4, <1>5

(* Summing over the image of a one-to-one function that keeps the values.   *)
LEMMA SumImage ==
    ASSUME NEW f, NEW S, NEW h, IsFiniteSet(S), NatOn(f, S),
           \A x \in S : f[h[x]] = f[x],
           \A x, y \in S : h[x] = h[y] => x = y
    PROVE  /\ IsFiniteSet({h[x] : x \in S})
           /\ SumOver(f, {h[x] : x \in S}) = SumOver(f, S)
<1> DEFINE Image(s) == {h[x] : x \in s}
           T == {s \in SUBSET S : /\ IsFiniteSet(Image(s))
                                  /\ SumOver(f, Image(s)) = SumOver(f, s)}
<1>1. {} \in T
  <2>1. Image({}) = {}
    OBVIOUS
  <2> QED BY <2>1, FS_EmptySet
<1>2. ASSUME NEW s \in SUBSET S, s \in T, NEW x \in S \ s PROVE s \cup {x} \in T
  <2>1. Image(s \cup {x}) = Image(s) \cup {h[x]} /\ h[x] \notin Image(s)
    OBVIOUS
  <2>2. IsFiniteSet(s) /\ NatOn(f, s) /\ NatOn(f, Image(s)) /\ f[x] \in Nat /\ f[h[x]] = f[x]
    BY FS_Subset DEF NatOn
  <2>3. IsFiniteSet(Image(s)) /\ SumOver(f, Image(s)) = SumOver(f, s)
    BY <1>2
  <2> HIDE DEF Image
  <2>4. SumOver(f, s \cup {x}) = f[x] + SumOver(f, s)
    BY <2>2, SumAdd
  <2>5. /\ IsFiniteSet(Image(s) \cup {h[x]})
        /\ SumOver(f, Image(s) \cup {h[x]}) = f[h[x]] + SumOver(f, Image(s))
    BY <2>1, <2>2, <2>3, SumAdd
  <2>6. s \cup {x} \in SUBSET S
    OBVIOUS
  <2> QED BY <2>1, <2>2, <2>3, <2>4, <2>5, <2>6
<1> HIDE DEF T, Image
<1>3. \A s \in SUBSET S : s \in T
  BY <1>1, <1>2, SetInduction
<1>4. S \in T
  BY <1>3
<1> QED BY <1>4 DEF T, Image

(* Nothing adds up to nothing.                                              *)
LEMMA SumZero ==
    ASSUME NEW f, NEW S, IsFiniteSet(S), \A x \in S : f[x] = 0
    PROVE  SumOver(f, S) = 0
<1> DEFINE T == {s \in SUBSET S : SumOver(f, s) = 0}
<1>1. {} \in T
  BY SumEmpty
<1>2. ASSUME NEW s \in SUBSET S, s \in T, NEW x \in S \ s PROVE s \cup {x} \in T
  <2>1. IsFiniteSet(s) /\ NatOn(f, s) /\ f[x] = 0
    BY FS_Subset DEF NatOn
  <2>2. SumOver(f, s \cup {x}) = f[x] + SumOver(f, s)
    BY <2>1, SumAdd
  <2> QED BY <1>2, <2>1, <2>2
<1> HIDE DEF T
<1>3. \A s \in SUBSET S : s \in T
  BY <1>1, <1>2, SetInduction
<1>4. S \in T
  BY <1>3
<1> QED BY <1>4 DEF T

-----------------------------------------------------------------------------
(* The API's half of the books: what was delivered is in a window or was    *)
(* published.                                                               *)

(* Multiplication distributes over the changes of a window.                 *)
LEMMA Distribute ==
    \A a, b, p \in Int : (a + b) * p = a * p + b * p /\ (a - b) * p = a * p - b * p
OBVIOUS

(* The prices of events are natural numbers, and so are their seconds.      *)
LEMMA EventNumbers ==
    ASSUME NEW X, X \subseteq Event
    PROVE  /\ NatOn(Costs, X) /\ NatOn(Seconds, X)
           /\ \A m \in X : Costs[m] = Cost(m) /\ Costs[m] \in Nat /\ Seconds[m] = m.sec
<1>1. \A m \in X : m.sec \in Nat
  BY DEF Event
<1> QED BY <1>1, CostType DEF NatOn, Costs, Seconds

(* The price of some seconds of audio of user u, by request.                *)
Worth(secs, u) == SumOver(secs, Requests(u)) * PricePerMinute(u)

(* Such a price is a natural number.                                        *)
LEMMA WorthType ==
    ASSUME NEW w \in [Request -> Nat], NEW u \in User
    PROVE  Worth(w, u) \in Nat
<1>1. IsFiniteSet(Requests(u)) /\ NatOn(w, Requests(u))
  BY FS_Subset, BillingAssumption DEF Requests, NatOn
<1>2. SumOver(w, Requests(u)) \in Nat /\ PricePerMinute(u) \in Nat
  BY <1>1, SumType, PriceType
<1> QED BY <1>2, NatTimes DEF Worth

(* The price of x seconds of request r, to its owner.                       *)
Gain(r, x, u) == IF Owner[r] = u THEN x * PricePerMinute(u) ELSE 0

(* What one request adds to it.                                             *)
LEMMA WorthChanges ==
    ASSUME NEW w \in [Request -> Nat], NEW v \in [Request -> Nat], NEW r \in Request,
           \A q \in Request \ {r} : v[q] = w[q], NEW u \in User
    PROVE  /\ Worth(w, u) \in Nat
           /\ Worth(v, u)
                = Worth(w, u) + Gain(r, v[r] - w[r], u)
<1> DEFINE S == Requests(u)
<1>1. IsFiniteSet(S) /\ S \subseteq Request
  BY FS_Subset, BillingAssumption DEF Requests
<1>2. NatOn(w, S) /\ NatOn(v, S)
  BY <1>1 DEF NatOn
<1>3. v[r] \in Nat /\ w[r] \in Nat /\ \A q \in S \ {r} : v[q] = w[q]
  BY <1>1
<1>4. r \in S <=> Owner[r] = u
  BY DEF Requests
<1> HIDE DEF S
<1>5. SumOver(w, S) \in Nat
  BY <1>1, <1>2, SumType
<1>6. PricePerMinute(u) \in Nat
  BY PriceType
<1>7. SumOver(w, S) * PricePerMinute(u) \in Nat
  BY <1>5, <1>6, NatTimes
<1>8. CASE r \in S
  <2>1. SumOver(v, S) = (SumOver(w, S) - w[r]) + v[r]
    BY <1>1, <1>2, <1>3, <1>8, SumPoint
  <2>2. SumOver(v, S) = SumOver(w, S) + (v[r] - w[r])
    BY <2>1, <1>3, <1>5
  <2>3. SumOver(v, S) * PricePerMinute(u)
           = SumOver(w, S) * PricePerMinute(u) + (v[r] - w[r]) * PricePerMinute(u)
    <3>1. v[r] - w[r] \in Int /\ SumOver(w, S) \in Int /\ PricePerMinute(u) \in Int
      BY <1>3, <1>5, <1>6
    <3> QED BY <2>2, <3>1, Distribute
  <2> QED BY <1>4, <1>7, <1>8, <2>3 DEF Worth, Gain, S
<1>9. CASE r \notin S
  <2>0. \A q \in S : v[q] = w[q]
    BY <1>3, <1>9
  <2>1. SumOver(v, S) = SumOver(w, S)
    BY <1>1, <1>2, <2>0, SumSame
  <2> QED BY <1>4, <1>7, <1>9, <2>1 DEF Worth, Gain, S
<1> QED BY <1>8, <1>9

(* Adding an event to a set adds its cost to its owner's account.           *)
LEMMA EventAdds ==
    ASSUME NEW X, X \subseteq Event, IsFiniteSet(X), NEW e \in Event, e \notin X, NEW u \in User
    PROVE  /\ IsFiniteSet(X \cup {e})
           /\ SumOver(Costs, EventsOf(X, u)) \in Nat
           /\ SumOver(Costs, EventsOf(X \cup {e}, u))
                = SumOver(Costs, EventsOf(X, u)) + (IF Owner[e.req] = u THEN Cost(e) ELSE 0)
<1>0. IsFiniteSet(X \cup {e})
  BY FS_AddElement
<1>1. IsFiniteSet(EventsOf(X, u)) /\ EventsOf(X, u) \subseteq X
  BY FS_Subset DEF EventsOf
<1>2. NatOn(Costs, EventsOf(X, u)) /\ Costs[e] = Cost(e) /\ Costs[e] \in Nat
  <2>1. EventsOf(X, u) \subseteq Event /\ {e} \subseteq Event
    BY <1>1
  <2> QED BY <2>1, EventNumbers
<1>3. SumOver(Costs, EventsOf(X, u)) \in Nat
  BY <1>1, <1>2, SumType
<1>4. CASE Owner[e.req] = u
  <2>1. EventsOf(X \cup {e}, u) = EventsOf(X, u) \cup {e} /\ e \notin EventsOf(X, u)
    BY <1>4 DEF EventsOf
  <2>2. SumOver(Costs, EventsOf(X, u) \cup {e}) = Costs[e] + SumOver(Costs, EventsOf(X, u))
    BY <1>1, <1>2, <2>1, SumAdd
  <2>3. SumOver(Costs, EventsOf(X \cup {e}, u)) = Cost(e) + SumOver(Costs, EventsOf(X, u))
    BY <1>2, <2>1, <2>2
  <2> QED BY <1>0, <1>2, <1>3, <1>4, <2>3
<1>5. CASE Owner[e.req] # u
  <2>1. EventsOf(X \cup {e}, u) = EventsOf(X, u)
    BY <1>5 DEF EventsOf
  <2> QED BY <1>0, <1>3, <1>5, <2>1
<1> QED BY <1>4, <1>5

(* What the coalescers have published, apart from repetitions.              *)
Originals(events) == {m \in events : m.copy = 0}

Published(events, r) == {m \in events : m.req = r /\ m.copy = 0}

(* The same for the seconds of one request.                                 *)
LEMMA SecondsAdd ==
    ASSUME NEW X, X \subseteq Event, IsFiniteSet(X), NEW e \in Event, e \notin X, NEW r \in Request
    PROVE  /\ SumOver(Seconds, Published(X, r)) \in Nat
           /\ SumOver(Seconds, Published(X \cup {e}, r))
                = SumOver(Seconds, Published(X, r)) + (IF e.req = r /\ e.copy = 0 THEN e.sec ELSE 0)
<1>1. IsFiniteSet(Published(X, r)) /\ Published(X, r) \subseteq X
  BY FS_Subset DEF Published
<1>2. NatOn(Seconds, Published(X, r)) /\ Seconds[e] = e.sec /\ e.sec \in Nat
  <2>1. Published(X, r) \subseteq Event /\ {e} \subseteq Event
    BY <1>1
  <2> QED BY <2>1, EventNumbers DEF Event
<1>3. SumOver(Seconds, Published(X, r)) \in Nat
  BY <1>1, <1>2, SumType
<1>4. CASE e.req = r /\ e.copy = 0
  <2>1. Published(X \cup {e}, r) = Published(X, r) \cup {e} /\ e \notin Published(X, r)
    BY <1>4 DEF Published
  <2>2. SumOver(Seconds, Published(X, r) \cup {e}) = Seconds[e] + SumOver(Seconds, Published(X, r))
    BY <1>1, <1>2, <2>1, SumAdd
  <2>3. SumOver(Seconds, Published(X \cup {e}, r)) = e.sec + SumOver(Seconds, Published(X, r))
    BY <1>2, <2>1, <2>2
  <2> QED BY <1>2, <1>3, <1>4, <2>3
<1>5. CASE ~(e.req = r /\ e.copy = 0)
  <2>1. Published(X \cup {e}, r) = Published(X, r)
    BY <1>5 DEF Published
  <2> QED BY <1>3, <1>5, <2>1
<1> QED BY <1>4, <1>5

(* What user u was given: the price of what windows hold and of events.     *)
Booked(secs, events, u) == Worth(secs, u) + SumOver(Costs, EventsOf(events, u))

(* What was delivered is held in a window or published, for every user and  *)
(* for every request; a repetition repeats something that was published.    *)
DeliveriesBooked ==
    \A u \in User : /\ owed[u] = Booked(window, Originals(sent), u)
                    /\ Worth(delivered, u) = owed[u]

OriginalsSent == \A m \in sent : [m EXCEPT !.copy = 0] \in sent

ApiBooks == IsFiniteSet(sent) /\ OriginalsSent /\ DeliveriesBooked /\ WindowConserved

(* A step adds x seconds to what request r has had.                         *)
Accrues(r, x) ==
    /\ IsFiniteSet(sent)' /\ OriginalsSent'
    /\ \A u \in User : Booked(window', Originals(sent'), u)
                         = Booked(window, Originals(sent), u) + Gain(r, x, u)
    /\ \A q \in Request :
          window'[q] + SumOver(Seconds, Published(sent', q))
            = window[q] + SumOver(Seconds, Published(sent, q)) + (IF q = r THEN x ELSE 0)

(* Finite sets of events have natural sums.                                 *)
LEMMA SumsNat ==
    ASSUME NEW X, X \subseteq Event, IsFiniteSet(X)
    PROVE  /\ \A u \in User : /\ SumOver(Costs, EventsOf(X, u)) \in Nat
                              /\ SumOver(Costs, EventsOf(Originals(X), u)) \in Nat
           /\ \A r \in Request : SumOver(Seconds, Published(X, r)) \in Nat
<1>1. ASSUME NEW Y, Y \subseteq X
      PROVE  SumOver(Costs, Y) \in Nat /\ SumOver(Seconds, Y) \in Nat
  <2>1. IsFiniteSet(Y) /\ Y \subseteq Event
    BY <1>1, FS_Subset
  <2> QED BY <2>1, EventNumbers, SumType
<1> QED BY <1>1 DEF EventsOf, Originals, Published

(* flushLocked publishes what it was given and forgets what the window      *)
(* held: the books grow by the difference.                                  *)
LEMMA FlushLockedAccrues ==
    ASSUME TypeOK, EventsOnce, ApiBooks, NEW r \in Request, NEW secs \in Nat, FlushLocked(r, secs)
    PROVE  Accrues(r, secs - window[r])
<1> DEFINE e == [req |-> r, n |-> seq[r] + 1, sec |-> secs, copy |-> 0]
           x == secs - window[r]
<1>1. window' = [window EXCEPT ![r] = 0] /\ sent' = sent \cup {e}
  BY DEF FlushLocked
<1>2. e \in Event /\ e.req = r /\ e.sec = secs /\ e.copy = 0 /\ [e EXCEPT !.copy = 0] = e
  BY DEF TypeOK, Event
<1>3. e \notin sent
  <2>1. \A m \in sent : m.req = r => m.n # seq[r] + 1
    BY DEF TypeOK, Event, EventsOnce, KeysFresh
  <2> QED BY <2>1
<1>4. window \in [Request -> Nat] /\ window[r] \in Nat /\ sent \subseteq Event /\ IsFiniteSet(sent)
  BY DEF TypeOK, ApiBooks
<1> HIDE DEF e
<1>5. IsFiniteSet(sent)' /\ OriginalsSent'
  BY <1>1, <1>2, <1>4, FS_AddElement DEF ApiBooks, OriginalsSent
<1>6. ASSUME NEW u \in User, NEW X, NEW Y, X \subseteq Event, IsFiniteSet(X), e \notin X,
             Y = X \cup {e}
      PROVE  Booked(window', Y, u)
               = Booked(window, X, u) + Gain(r, x, u)
  <2>1. /\ Worth(window, u) \in Nat
        /\ Worth(window', u) = Worth(window, u) + Gain(r, 0 - window[r], u)
    <3>1. /\ window' \in [Request -> Nat] /\ window'[r] = 0
          /\ \A q \in Request \ {r} : window'[q] = window[q]
      BY <1>1, <1>4
    <3> QED BY <1>4, <3>1, WorthChanges
  <2>2. /\ SumOver(Costs, EventsOf(X, u)) \in Nat
        /\ SumOver(Costs, EventsOf(Y, u))
             = SumOver(Costs, EventsOf(X, u)) + (IF Owner[r] = u THEN Cost(e) ELSE 0)
    BY <1>2, <1>6, EventAdds
  <2>3. CASE Owner[r] = u
    <3>1. Cost(e) = secs * PricePerMinute(u)
      BY <1>2, <2>3 DEF Cost
    <3>2. PricePerMinute(u) \in Int /\ secs \in Int /\ window[r] \in Int /\ 0 - window[r] \in Int
      BY <1>4, PriceType
    <3>3. x * PricePerMinute(u) = secs * PricePerMinute(u) - window[r] * PricePerMinute(u)
      BY <3>2, Distribute
    <3>4. (0 - window[r]) * PricePerMinute(u)
            = 0 * PricePerMinute(u) - window[r] * PricePerMinute(u)
      BY <3>2, Distribute
    <3>5. 0 * PricePerMinute(u) = 0
      BY <3>2
    <3>6. secs * PricePerMinute(u) \in Int /\ window[r] * PricePerMinute(u) \in Int
      BY <3>2
    <3> HIDE DEF x
    <3> QED BY <2>1, <2>2, <2>3, <3>1, <3>3, <3>4, <3>5, <3>6 DEF Booked, Gain
  <2>4. CASE Owner[r] # u
    BY <2>1, <2>2, <2>4 DEF Booked, Gain
  <2> QED BY <2>3, <2>4
<1>7. /\ Originals(sent') = Originals(sent) \cup {e} /\ e \notin Originals(sent)
      /\ Originals(sent) \subseteq Event /\ IsFiniteSet(Originals(sent))
  BY <1>1, <1>2, <1>3, <1>4, FS_Subset DEF Originals
<1>8. ASSUME NEW q \in Request
      PROVE  window'[q] + SumOver(Seconds, Published(sent', q))
               = window[q] + SumOver(Seconds, Published(sent, q)) + (IF q = r THEN x ELSE 0)
  <2>1. /\ SumOver(Seconds, Published(sent, q)) \in Nat
        /\ SumOver(Seconds, Published(sent', q))
             = SumOver(Seconds, Published(sent, q)) + (IF q = r THEN secs ELSE 0)
    BY <1>1, <1>2, <1>3, <1>4, SecondsAdd
  <2>2. window'[q] = (IF q = r THEN 0 ELSE window[q]) /\ window[q] \in Nat
    BY <1>1, <1>4
  <2> QED BY <2>1, <2>2
<1>9. \A u \in User : Booked(window', Originals(sent'), u)
                        = Booked(window, Originals(sent), u) + Gain(r, x, u)
  BY <1>1, <1>3, <1>4, <1>6, <1>7
<1> QED BY <1>5, <1>8, <1>9 DEF Accrues

(* Such a gain is a natural number.                                         *)
LEMMA GainType == \A r \in Request, x \in Nat, u \in User : Gain(r, x, u) \in Nat
BY PriceType, NatTimes DEF Gain

(* What is delivered, or held, grows by x seconds of request r.             *)
GrowsBy(old, new, r, x) ==
    /\ old \in [Request -> Nat] /\ new \in [Request -> Nat]
    /\ new[r] = old[r] + x
    /\ \A q \in Request \ {r} : new[q] = old[q]

(* EXCEPT does just that.                                                   *)
LEMMA ExceptGrows ==
    ASSUME NEW f \in [Request -> Nat], NEW r \in Request, NEW x \in Nat
    PROVE  GrowsBy(f, [f EXCEPT ![r] = @ + x], r, x)
BY DEF GrowsBy

(* The price of x more seconds of one request.                              *)
LEMMA WorthGrows ==
    ASSUME NEW f, NEW g, NEW r \in Request, NEW x \in Nat, GrowsBy(f, g, r, x), NEW u \in User
    PROVE  Worth(f, u) \in Nat /\ Worth(g, u) = Worth(f, u) + Gain(r, x, u)
<1>1. g[r] - f[r] = x /\ f \in [Request -> Nat] /\ g \in [Request -> Nat]
  BY DEF GrowsBy
<1>2. Worth(f, u) \in Nat /\ Worth(g, u) = Worth(f, u) + Gain(r, g[r] - f[r], u)
  BY <1>1, WorthChanges DEF GrowsBy
<1> QED BY <1>1, <1>2

(* A window grows without being published.                                  *)
LEMMA HoldAccrues ==
    ASSUME TypeOK, ApiBooks, NEW r \in Request, NEW sec \in Nat,
           GrowsBy(window, window', r, sec), UNCHANGED sent
    PROVE  Accrues(r, sec)
<1>1. sent \subseteq Event /\ IsFiniteSet(sent)
  BY DEF TypeOK, ApiBooks
<1>2. ASSUME NEW u \in User
      PROVE  Booked(window', Originals(sent'), u)
               = Booked(window, Originals(sent), u) + Gain(r, sec, u)
  <2>1. /\ Gain(r, sec, u) \in Nat /\ Worth(window, u) \in Nat
        /\ Worth(window', u) = Worth(window, u) + Gain(r, sec, u)
    BY GainType, WorthGrows
  <2>2. SumOver(Costs, EventsOf(Originals(sent), u)) \in Nat
    BY <1>1, SumsNat
  <2> QED BY <2>1, <2>2 DEF Booked
<1>3. ASSUME NEW q \in Request
      PROVE  window'[q] + SumOver(Seconds, Published(sent', q))
               = window[q] + SumOver(Seconds, Published(sent, q)) + (IF q = r THEN sec ELSE 0)
  <2>1. SumOver(Seconds, Published(sent, q)) \in Nat
    BY <1>1, SumsNat
  <2>2. window'[q] = window[q] + (IF q = r THEN sec ELSE 0) /\ window[q] \in Nat
    BY DEF GrowsBy
  <2> QED BY <2>1, <2>2
<1> QED BY <1>1, <1>2, <1>3 DEF Accrues, ApiBooks, OriginalsSent

(* The books stay right when what is delivered grows by what they do.       *)
LEMMA AccruedBooks ==
    ASSUME TypeOK, ApiBooks, NEW r \in Request, NEW x \in Nat, Accrues(r, x),
           GrowsBy(delivered, delivered', r, x),
           \A u \in User : owed'[u] = owed[u] + Gain(r, x, u)
    PROVE  ApiBooks'
<1>1. \A u \in User : Worth(delivered', u) = Worth(delivered, u) + Gain(r, x, u)
  BY WorthGrows
<1>2. DeliveriesBooked'
  BY <1>1 DEF Accrues, ApiBooks, DeliveriesBooked
<1>3. WindowConserved'
  <2>1. ASSUME NEW q \in Request
        PROVE  window'[q] + SumOver(Seconds, Published(sent', q)) = delivered'[q]
    <3>1. window[q] + SumOver(Seconds, Published(sent, q)) = delivered[q]
      BY DEF ApiBooks, WindowConserved, Published
    <3>2. delivered'[q] = delivered[q] + (IF q = r THEN x ELSE 0)
      BY DEF GrowsBy
    <3> QED BY <3>1, <3>2 DEF Accrues
  <2> QED BY <2>1 DEF WindowConserved, Published
<1> QED BY <1>2, <1>3 DEF Accrues, ApiBooks

(* AddPCM adds the price of the chunk to what its owner owes.               *)
LEMMA OwedGains ==
    ASSUME NEW o \in [User -> Nat], NEW r \in Request, NEW x \in Nat, NEW u \in User
    PROVE  [o EXCEPT ![Owner[r]] = @ + x * PricePerMinute(Owner[r])][u] = o[u] + Gain(r, x, u)
<1>1. o[u] \in Nat
  OBVIOUS
<1>2. CASE Owner[r] = u
  BY <1>2 DEF Gain
<1>3. CASE Owner[r] # u
  BY <1>1, <1>3 DEF Gain
<1> QED BY <1>2, <1>3

(* A repetition adds to no window and makes nobody owe anything.            *)
LEMMA DuplicateBooks ==
    ASSUME TypeOK, EventsOnce, ApiBooks, NEW m \in bus, Duplicate(m)
    PROVE  ApiBooks'
<1> DEFINE twin == [m EXCEPT !.copy = faults + 1]
<1>1. sent' = sent \cup {twin} /\ UNCHANGED <<window, delivered, owed>>
  BY DEF Duplicate, apiVars
<1>2. m \in sent /\ m \in Event /\ faults \in Nat
  BY DEF TypeOK, EventsOnce, AllWereSent
<1>0. [twin EXCEPT !.copy = 0] = [m EXCEPT !.copy = 0]
  BY <1>2 DEF Event
<1>3. twin \in Event /\ twin.req = m.req /\ twin.sec = m.sec /\ twin.copy = faults + 1
  BY <1>2 DEF Event
<1> HIDE DEF twin
<1>4. twin \notin sent /\ twin.copy # 0
  <2>1. \A x \in sent : x.copy \in Nat /\ x.copy <= faults
    BY DEF TypeOK, Event, EventsOnce, KeysFresh
  <2> QED BY <1>2, <1>3, <2>1
<1>a. sent' = sent \cup {twin}
  BY <1>1
<1>5. sent \subseteq Event /\ IsFiniteSet(sent)
  BY DEF TypeOK, ApiBooks
<1>6. IsFiniteSet(sent)' /\ OriginalsSent'
  <2>1. [twin EXCEPT !.copy = 0] \in sent
    BY <1>0, <1>2 DEF ApiBooks, OriginalsSent
  <2> QED BY <1>a, <1>5, <2>1, FS_AddElement DEF ApiBooks, OriginalsSent
<1>7. Originals(sent') = Originals(sent)
  BY <1>a, <1>4 DEF Originals
<1>8. WindowConserved'
  <2>1. \A r \in Request : Published(sent', r) = Published(sent, r)
    BY <1>a, <1>4 DEF Published
  <2> QED BY <1>1, <2>1 DEF ApiBooks, WindowConserved, Published
<1>9. DeliveriesBooked'
  BY <1>1, <1>7 DEF ApiBooks, DeliveriesBooked, Booked
<1> QED BY <1>6, <1>8, <1>9 DEF ApiBooks

(* Only the coalescer and NATS touch what the API's books are about.        *)
LEMMA ApiBooksStep == TypeOK /\ EventsOnce /\ ApiBooks /\ [Next]_vars => ApiBooks'
<1> SUFFICES ASSUME TypeOK, EventsOnce, ApiBooks, [Next]_vars PROVE ApiBooks'
  OBVIOUS
<1>1. ASSUME NEW r \in Request, NEW sec \in ChunkSec, AddPCM(r, sec) PROVE ApiBooks'
  <2>1. sec \in Nat /\ window[r] \in Nat
    BY BillingAssumption DEF TypeOK
  <2>2. Accrues(r, sec)
    <3>1. CASE FlushLocked(r, window[r] + sec)
      <4>1. (window[r] + sec) - window[r] = sec /\ window[r] + sec \in Nat
        BY <2>1
      <4>2. Accrues(r, (window[r] + sec) - window[r])
        BY <3>1, <4>1, FlushLockedAccrues
      <4> QED BY <4>1, <4>2
    <3>2. CASE window' = [window EXCEPT ![r] = @ + sec] /\ UNCHANGED <<seq, bus, sent>>
      <4>1. GrowsBy(window, window', r, sec)
        BY <2>1, <3>2, ExceptGrows DEF TypeOK
      <4> QED BY <2>1, <3>2, <4>1, HoldAccrues
    <3> QED BY <1>1, <3>1, <3>2 DEF AddPCM
  <2>3. /\ delivered' = [delivered EXCEPT ![r] = @ + sec]
        /\ owed' = [owed EXCEPT ![Owner[r]] = @ + sec * PricePerMinute(Owner[r])]
    BY <1>1 DEF AddPCM
  <2>4. GrowsBy(delivered, delivered', r, sec)
    BY <2>1, <2>3, ExceptGrows DEF TypeOK
  <2>5. \A u \in User : owed'[u] = owed[u] + Gain(r, sec, u)
    BY <2>1, <2>3, OwedGains DEF TypeOK
  <2> QED BY <2>1, <2>2, <2>4, <2>5, AccruedBooks
<1>2. ASSUME NEW r \in Request, Flush(r) PROVE ApiBooks'
  <2>1. window[r] \in Nat /\ UNCHANGED <<delivered, owed>>
    BY <1>2 DEF TypeOK, Flush
  <2>2. CASE window[r] <= 0
    BY <1>2, <2>1, <2>2
    DEF Flush, ApiBooks, OriginalsSent, DeliveriesBooked, WindowConserved
  <2>3. CASE ~(window[r] <= 0)
    <3>1. FlushLocked(r, window[r]) /\ window[r] - window[r] = 0
      BY <1>2, <2>1, <2>3 DEF Flush
    <3>2. Accrues(r, 0)
      <4>1. Accrues(r, window[r] - window[r])
        BY <2>1, <3>1, FlushLockedAccrues
      <4> QED BY <3>1, <4>1
    <3>3. GrowsBy(delivered, delivered', r, 0)
      BY <2>1 DEF TypeOK, GrowsBy
    <3>4. \A u \in User : owed'[u] = owed[u] + Gain(r, 0, u)
      <4>1. \A u \in User : Gain(r, 0, u) = 0
        BY PriceType DEF Gain
      <4> QED BY <2>1, <4>1 DEF TypeOK
    <3> QED BY <3>2, <3>3, <3>4, AccruedBooks
  <2> QED BY <2>2, <2>3
<1>3. ASSUME NEW m \in bus, Duplicate(m) PROVE ApiBooks'
  BY <1>3, DuplicateBooks
<1>4. CASE UNCHANGED <<window, delivered, owed, sent>>
  BY <1>4 DEF ApiBooks, OriginalsSent, DeliveriesBooked, WindowConserved
<1> QED
  <2>1. ASSUME NEW c \in Consumer, ConsumerStep(c) \/ Crash(c)
        PROVE  UNCHANGED <<window, delivered, owed, sent>>
    BY <2>1 DEF ConsumerStep, Tick, DebitUser, MeterEvent, MeterError, DebitWallet, DebitError,
                InsertTransaction, EndFlush, Crash, apiVars
  <2>2. ASSUME NEW r \in Request, Kill(r) \/ ReceiverReturns(r)
        PROVE  UNCHANGED <<window, delivered, owed, sent>>
    BY <2>2 DEF Kill, ReceiverReturns
  <2>3. ASSUME NEW m \in bus, Lose(m) \/ \E c \in Consumer : OnMessage(c, m)
        PROVE  UNCHANGED <<window, delivered, owed, sent>>
    BY <2>3 DEF Lose, OnMessage, apiVars
  <2>4. ASSUME Idle \/ UNCHANGED vars PROVE UNCHANGED <<window, delivered, owed, sent>>
    BY <2>4 DEF Idle, vars, apiVars
  <2> QED BY <1>1, <1>2, <1>3, <1>4, <2>1, <2>2, <2>3, <2>4 DEF Next

-----------------------------------------------------------------------------
(* The consumers' half of the books.                                        *)

(* Per idempotency key there is one row of usage_events.                    *)
OneRowPerKey == \A x, y \in usage : x.req = y.req /\ x.n = y.n => x = y

(* debitUser's totalCost is the cost of the events it has gone through, and *)
(* they are all of the one user it was called for.                          *)
TotalRight(c) ==
    /\ pc[c] # "txn" => totalCost[c] = SumOver(Costs, seen[c])
    /\ seen[c] = EventsOf(seen[c], debtor[c])

(* What the wallets have been debited is the cost of the events covered.    *)
DebitsRight == \A u \in User : debited[u] = SumOver(Costs, EventsOf(charged, u))

(* What a consumer has debited and not yet written as a transaction row.    *)
InHand(u) == [c \in Consumer |-> IF pc[c] = "txn" /\ debtor[c] = u THEN totalCost[c] ELSE 0]

(* What a debit of consumer c takes from user u.                            *)
Taken(c, u) == IF debtor[c] = u THEN totalCost[c] ELSE 0

(* Transaction rows are written after the debit they record.                *)
TransactionsLate == \A u \in User : txns[u] + SumOver(InHand(u), Consumer) <= debited[u]

ConsumerBooks ==
    OneRowPerKey /\ (\A c \in Consumer : TotalRight(c)) /\ DebitsRight /\ TransactionsLate

(* A step of consumer c leaves the others alone.                            *)
OthersAlone(c) ==
    \A d \in Consumer \ {c} : /\ pc'[d] = pc[d] /\ debtor'[d] = debtor[d]
                              /\ totalCost'[d] = totalCost[d] /\ seen'[d] = seen[d]

(* What consumers have in hand changes by what c has.                       *)
LEMMA InHandChanges ==
    ASSUME TypeOK, TypeOK', NEW c \in Consumer, OthersAlone(c), NEW u \in User
    PROVE  /\ SumOver(InHand(u), Consumer) \in Nat
           /\ InHand(u)[c] \in Nat /\ InHand(u)'[c] \in Nat
           /\ SumOver(InHand(u)', Consumer)
                = (SumOver(InHand(u), Consumer) - InHand(u)[c]) + InHand(u)'[c]
<1> DEFINE f == InHand(u)
           g == InHand(u)'
<1>1. NatOn(f, Consumer) /\ NatOn(g, Consumer)
  BY DEF NatOn, InHand, TypeOK
<1>2. \A d \in Consumer \ {c} : g[d] = f[d]
  BY DEF InHand, OthersAlone
<1>3. IsFiniteSet(Consumer) /\ f[c] \in Nat /\ g[c] \in Nat
  BY <1>1, BillingAssumption DEF NatOn
<1> HIDE DEF f, g
<1>4. SumOver(f, Consumer) \in Nat /\ SumOver(g, Consumer) = (SumOver(f, Consumer) - f[c]) + g[c]
  BY <1>1, <1>2, <1>3, SumType, SumPoint
<1> QED BY <1>3, <1>4 DEF f, g

(* What is left to show of a step of consumer c.                            *)
LEMMA ConsumerMoves ==
    ASSUME TypeOK, TypeOK', ConsumerBooks, NEW c \in Consumer, OthersAlone(c),
           OneRowPerKey', DebitsRight', TotalRight(c)',
           \A u \in User :
              txns'[u] + InHand(u)'[c] + debited[u] <= txns[u] + InHand(u)[c] + debited'[u]
    PROVE  ConsumerBooks'
<1>1. ASSUME NEW d \in Consumer PROVE TotalRight(d)'
  <2>1. CASE d # c
    BY <2>1 DEF OthersAlone, ConsumerBooks, TotalRight
  <2> QED BY <2>1
<1>2. ASSUME NEW u \in User PROVE txns'[u] + SumOver(InHand(u)', Consumer) <= debited'[u]
  <2>1. /\ SumOver(InHand(u), Consumer) \in Nat
        /\ InHand(u)[c] \in Nat /\ InHand(u)'[c] \in Nat
        /\ SumOver(InHand(u)', Consumer)
             = (SumOver(InHand(u), Consumer) - InHand(u)[c]) + InHand(u)'[c]
    BY InHandChanges
  <2>2. /\ txns[u] \in Nat /\ txns'[u] \in Nat /\ debited[u] \in Nat /\ debited'[u] \in Nat
        /\ txns[u] + SumOver(InHand(u), Consumer) <= debited[u]
    BY DEF TypeOK, ConsumerBooks, TransactionsLate
  <2>3. txns'[u] + InHand(u)'[c] + debited[u] <= txns[u] + InHand(u)[c] + debited'[u]
    OBVIOUS
  <2> QED BY <2>1, <2>2, <2>3
<1> QED BY <1>1, <1>2 DEF ConsumerBooks, TransactionsLate

(* ON CONFLICT DO NOTHING keeps one row per key.                            *)
LEMMA InsertOneRow ==
    ASSUME OneRowPerKey, NEW m, usage' \in {usage, InsertUsage(usage, m)}
    PROVE  OneRowPerKey'
<1>1. CASE usage' = usage
  BY <1>1 DEF OneRowPerKey
<1>2. CASE usage' = InsertUsage(usage, m)
  BY <1>2 DEF OneRowPerKey, InsertUsage
<1> QED BY <1>1, <1>2

(* The UPDATE covers the events debitUser has gone through.                 *)
LEMMA UpdateDebits ==
    ASSUME TypeOK, EventsOnce, IsFiniteSet(sent), ConsumerBooks, NEW c \in Consumer,
           MeteredAll(c), UpdateWallet(c)
    PROVE  /\ DebitsRight'
           /\ \A u \in User : debited'[u] = debited[u] + Taken(c, u)
<1>1. /\ debited' = [debited EXCEPT ![debtor[c]] = debited[debtor[c]] + totalCost[c]]
      /\ charged' = charged \cup seen[c]
  BY DEF UpdateWallet
<1>2. /\ debited \in [User -> Nat] /\ debtor[c] \in User /\ totalCost[c] \in Nat
  BY DEF TypeOK
<1>3. ASSUME NEW u \in User
      PROVE  debited'[u] = debited[u] + Taken(c, u)
  <2>1. CASE debtor[c] = u
    BY <1>1, <1>2, <2>1 DEF Taken
  <2>2. CASE debtor[c] # u
    BY <1>1, <1>2, <2>2 DEF Taken
  <2> QED BY <2>1, <2>2
<1>a. charged' = charged \cup seen[c]
  BY <1>1
<1>4. /\ IsFiniteSet(charged) /\ IsFiniteSet(seen[c])
      /\ charged \subseteq Event /\ seen[c] \subseteq Event /\ charged \cap seen[c] = {}
  <2>1. charged \subseteq sent /\ seen[c] \subseteq sent /\ sent \subseteq Event
    BY DEF TypeOK, EventsOnce, AllWereSent, SeenMetered
  <2>2. charged \cap seen[c] = {}
    BY DEF EventsOnce, InOnePlace, SeenMetered
  <2> QED BY <2>1, <2>2, FS_Subset
<1>5. totalCost[c] = SumOver(Costs, seen[c]) /\ seen[c] = EventsOf(seen[c], debtor[c])
  BY DEF ConsumerBooks, TotalRight, MeteredAll
<1>6. ASSUME NEW u \in User PROVE debited'[u] = SumOver(Costs, EventsOf(charged', u))
  <2>1. debited[u] = SumOver(Costs, EventsOf(charged, u)) /\ debited[u] \in Nat
    BY <1>2 DEF ConsumerBooks, DebitsRight
  <2>2. CASE debtor[c] = u
    <3>1. EventsOf(charged', u) = EventsOf(charged, u) \cup seen[c]
      BY <1>a, <1>5, <2>2 DEF EventsOf
    <3>2. /\ IsFiniteSet(EventsOf(charged, u)) /\ EventsOf(charged, u) \cap seen[c] = {}
          /\ EventsOf(charged, u) \subseteq Event
      BY <1>4, FS_Subset DEF EventsOf
    <3>3. NatOn(Costs, EventsOf(charged, u)) /\ NatOn(Costs, seen[c])
      BY <1>4, <3>2, EventNumbers
    <3>4. SumOver(Costs, EventsOf(charged, u) \cup seen[c])
            = SumOver(Costs, EventsOf(charged, u)) + SumOver(Costs, seen[c])
      BY <1>4, <3>2, <3>3, SumUnion
    <3>5. SumOver(Costs, EventsOf(charged', u)) = debited[u] + totalCost[c]
      BY <1>5, <2>1, <3>1, <3>4
    <3> QED BY <1>3, <2>2, <3>5 DEF Taken
  <2>3. CASE debtor[c] # u
    <3>1. EventsOf(charged', u) = EventsOf(charged, u)
      BY <1>a, <1>5, <2>3 DEF EventsOf
    <3> QED BY <1>3, <2>1, <2>3, <3>1 DEF Taken
  <2> QED BY <2>2, <2>3
<1> QED BY <1>3, <1>6 DEF DebitsRight

(* An empty set of events costs nothing and belongs to anyone.              *)
LEMMA NothingSeen ==
    ASSUME NEW c \in Consumer, seen[c] = {}, totalCost[c] = 0
    PROVE  TotalRight(c)
BY SumEmpty DEF TotalRight, EventsOf

(* Where consumer c stands after debitUser has returned.                    *)
LEMMA ReturnMoves ==
    ASSUME TypeOK, NEW c \in Consumer, Return(c)
    PROVE  OthersAlone(c) /\ TotalRight(c)' /\ \A u \in User : InHand(u)'[c] = 0
<1>1. /\ pc'[c] = "users" /\ seen'[c] = {} /\ totalCost'[c] = 0
      /\ OthersAlone(c)
  BY DEF TypeOK, Return, GoTo, OthersAlone
<1>2. TotalRight(c)'
  BY <1>1, SumEmpty DEF TotalRight, EventsOf
<1> QED BY <1>1, <1>2 DEF InHand

(* debitUser has gone through one more event.                               *)
LEMMA MeterTotal ==
    ASSUME TypeOK, EventsOnce, IsFiniteSet(sent), ConsumerBooks, NEW c \in Consumer,
           NEW m \in batch[c], MeterEvent(c, m)
    PROVE  TotalRight(c)'
<1>1. /\ totalCost'[c] = totalCost[c] + Cost(m) /\ seen'[c] = seen[c] \cup {m}
      /\ pc[c] = "meter" /\ pc' = pc /\ debtor' = debtor
  BY DEF TypeOK, MeterEvent
<1>2. m \notin seen[c] /\ Owner[m.req] = debtor[c] /\ m \in Event
  BY DEF TypeOK, MeterEvent, UserEvents
<1>3. IsFiniteSet(seen[c]) /\ seen[c] \subseteq Event
  <2>1. seen[c] \subseteq sent
    BY DEF EventsOnce, AllWereSent, SeenMetered
  <2> QED BY <2>1, FS_Subset DEF TypeOK
<1>4. NatOn(Costs, seen[c]) /\ Costs[m] = Cost(m) /\ Cost(m) \in Nat
  <2>1. {m} \subseteq Event
    BY <1>2
  <2> QED BY <1>3, <2>1, EventNumbers
<1>5. SumOver(Costs, seen[c] \cup {m}) = Costs[m] + SumOver(Costs, seen[c])
  BY <1>2, <1>3, <1>4, SumAdd
<1>6. SumOver(Costs, seen[c]) \in Nat
  BY <1>3, <1>4, SumType
<1>7. totalCost[c] = SumOver(Costs, seen[c]) /\ seen[c] = EventsOf(seen[c], debtor[c])
  BY <1>1 DEF ConsumerBooks, TotalRight
<1>8. totalCost'[c] = SumOver(Costs, seen'[c])
  BY <1>1, <1>4, <1>5, <1>6, <1>7
<1>9. seen'[c] = EventsOf(seen'[c], debtor'[c])
  BY <1>1, <1>2, <1>7 DEF EventsOf
<1> QED BY <1>8, <1>9 DEF TotalRight

(* Every step keeps the consumers' books.                                   *)
LEMMA ConsumerBooksStep ==
    TypeOK /\ TypeOK' /\ EventsOnce /\ IsFiniteSet(sent) /\ ConsumerBooks /\ [Next]_vars
      => ConsumerBooks'
<1> SUFFICES ASSUME TypeOK, TypeOK', EventsOnce, IsFiniteSet(sent), ConsumerBooks, [Next]_vars
             PROVE  ConsumerBooks'
  OBVIOUS
<1>0. ASSUME NEW u \in User
      PROVE  /\ txns[u] \in Nat /\ debited[u] \in Nat
             /\ txns'[u] \in Nat /\ debited'[u] \in Nat
  BY DEF TypeOK
<1>1. ASSUME NEW c \in Consumer, Tick(c) \/ EndFlush(c) \/ \E u \in User : DebitUser(c, u)
      PROVE  ConsumerBooks'
  <2>1. /\ pc[c] # "txn" /\ pc[c] # "meter" /\ pc'[c] # "txn" /\ OthersAlone(c)
        /\ UNCHANGED <<usage, charged, debited, txns, seen, totalCost>>
    BY <1>1 DEF TypeOK, Tick, EndFlush, DebitUser, GoTo, OthersAlone, dbVars, history
  <2>2. seen[c] = {} /\ totalCost[c] = 0
    BY <2>1, SumEmpty DEF EventsOnce, SeenMetered, ConsumerBooks, TotalRight
  <2>3. TotalRight(c)'
    BY <2>1, <2>2, SumEmpty DEF TotalRight, EventsOf
  <2>4. OneRowPerKey' /\ DebitsRight'
    BY <2>1 DEF ConsumerBooks, OneRowPerKey, DebitsRight
  <2>5. \A u \in User : InHand(u)[c] = 0 /\ InHand(u)'[c] = 0
    BY <2>1 DEF InHand
  <2>6. \A u \in User :
           txns'[u] + InHand(u)'[c] + debited[u] <= txns[u] + InHand(u)[c] + debited'[u]
    BY <1>0, <2>1, <2>5
  <2> QED BY <2>1, <2>3, <2>4, <2>6, ConsumerMoves
<1>2. ASSUME NEW c \in Consumer, NEW m \in batch[c], MeterEvent(c, m) PROVE ConsumerBooks'
  <2>1. /\ pc[c] = "meter" /\ pc'[c] = "meter" /\ OthersAlone(c)
        /\ usage' = InsertUsage(usage, m) /\ UNCHANGED <<charged, debited, txns>>
    BY <1>2 DEF TypeOK, MeterEvent, OthersAlone, history
  <2>2. TotalRight(c)'
    BY <1>2, MeterTotal
  <2>3. OneRowPerKey' /\ DebitsRight'
    BY <2>1, InsertOneRow DEF ConsumerBooks, DebitsRight
  <2>4. \A u \in User : InHand(u)[c] = 0 /\ InHand(u)'[c] = 0
    BY <2>1 DEF InHand
  <2>5. \A u \in User :
           txns'[u] + InHand(u)'[c] + debited[u] <= txns[u] + InHand(u)[c] + debited'[u]
    BY <1>0, <2>1, <2>4
  <2> QED BY <2>1, <2>2, <2>3, <2>5, ConsumerMoves
<1>3. ASSUME NEW c \in Consumer, NEW m \in batch[c], MeterError(c, m) PROVE ConsumerBooks'
  <2>1. /\ pc[c] = "meter" /\ Return(c)
        /\ usage' \in {usage, InsertUsage(usage, m)} /\ UNCHANGED <<charged, debited, txns>>
    BY <1>3 DEF MeterError, history
  <2>2. OthersAlone(c) /\ TotalRight(c)' /\ \A u \in User : InHand(u)'[c] = 0
    BY <2>1, ReturnMoves
  <2>3. OneRowPerKey' /\ DebitsRight'
    BY <2>1, InsertOneRow DEF ConsumerBooks, DebitsRight
  <2>4. \A u \in User : InHand(u)[c] = 0
    BY <2>1 DEF InHand
  <2>5. \A u \in User :
           txns'[u] + InHand(u)'[c] + debited[u] <= txns[u] + InHand(u)[c] + debited'[u]
    BY <1>0, <2>1, <2>2, <2>4
  <2> QED BY <2>2, <2>3, <2>5, ConsumerMoves
<1>4. ASSUME NEW c \in Consumer, DebitWallet(c) PROVE ConsumerBooks'
  <2>1. /\ MeteredAll(c) /\ pc[c] = "meter" /\ UNCHANGED <<usage, txns>>
    BY <1>4 DEF DebitWallet, MeteredAll
  <2>2. OneRowPerKey' /\ \A u \in User : InHand(u)[c] = 0
    BY <2>1 DEF ConsumerBooks, OneRowPerKey, InHand
  <2>3. CASE totalCost[c] <= 0
    <3>1. Return(c) /\ UNCHANGED <<charged, debited>>
      BY <1>4, <2>3 DEF DebitWallet, history
    <3>2. OthersAlone(c) /\ TotalRight(c)' /\ \A u \in User : InHand(u)'[c] = 0
      BY <3>1, ReturnMoves
    <3>3. DebitsRight'
      BY <3>1 DEF ConsumerBooks, DebitsRight
    <3>4. \A u \in User :
             txns'[u] + InHand(u)'[c] + debited[u] <= txns[u] + InHand(u)[c] + debited'[u]
      BY <1>0, <2>1, <2>2, <3>1, <3>2
    <3> QED BY <2>2, <3>2, <3>3, <3>4, ConsumerMoves
  <2>4. CASE ~(totalCost[c] <= 0)
    <3>1. /\ UpdateWallet(c) /\ OthersAlone(c) /\ seen'[c] = {} /\ pc'[c] = "txn"
          /\ UNCHANGED <<debtor, totalCost>>
      BY <1>4, <2>4 DEF TypeOK, DebitWallet, GoTo, OthersAlone
    <3>2. /\ DebitsRight'
          /\ \A u \in User : debited'[u] = debited[u] + Taken(c, u)
      BY <2>1, <3>1, UpdateDebits
    <3>3. TotalRight(c)'
      BY <3>1 DEF TotalRight, EventsOf
    <3>4. \A u \in User : InHand(u)'[c] = Taken(c, u)
      BY <3>1 DEF InHand, Taken
    <3>5. totalCost[c] \in Nat
      BY DEF TypeOK
    <3>6. ASSUME NEW u \in User
          PROVE  txns'[u] + InHand(u)'[c] + debited[u] <= txns[u] + InHand(u)[c] + debited'[u]
      BY <1>0, <2>1, <2>2, <3>2, <3>4, <3>5 DEF Taken
    <3> QED BY <2>2, <3>1, <3>2, <3>3, <3>6, ConsumerMoves
  <2> QED BY <2>3, <2>4
<1>5. ASSUME NEW c \in Consumer, DebitError(c) PROVE ConsumerBooks'
  <2>1. /\ MeteredAll(c) /\ pc[c] = "meter" /\ UNCHANGED <<usage, txns>> /\ Return(c)
        /\ UpdateWallet(c) \/ UNCHANGED <<charged, debited>>
    BY <1>5 DEF DebitError, MeteredAll, history
  <2>2. OneRowPerKey' /\ \A u \in User : InHand(u)[c] = 0
    BY <2>1 DEF ConsumerBooks, OneRowPerKey, InHand
  <2>3. OthersAlone(c) /\ TotalRight(c)' /\ \A u \in User : InHand(u)'[c] = 0
    BY <2>1, ReturnMoves
  <2>4. DebitsRight' /\ \A u \in User : debited'[u] >= debited[u]
    <3>1. CASE UpdateWallet(c)
      <4>1. /\ DebitsRight'
            /\ \A u \in User : debited'[u] = debited[u] + Taken(c, u)
        BY <2>1, <3>1, UpdateDebits
      <4>2. totalCost[c] \in Nat
        BY DEF TypeOK
      <4> QED BY <1>0, <4>1, <4>2 DEF Taken
    <3>2. CASE UNCHANGED <<charged, debited>>
      BY <1>0, <3>2 DEF ConsumerBooks, DebitsRight
    <3> QED BY <2>1, <3>1, <3>2
  <2>5. ASSUME NEW u \in User
        PROVE  txns'[u] + InHand(u)'[c] + debited[u] <= txns[u] + InHand(u)[c] + debited'[u]
    BY <1>0, <2>1, <2>2, <2>3, <2>4
  <2> QED BY <2>2, <2>3, <2>4, <2>5, ConsumerMoves
<1>6. ASSUME NEW c \in Consumer, InsertTransaction(c) PROVE ConsumerBooks'
  <2>1. /\ pc[c] = "txn" /\ UNCHANGED <<usage, charged, debited>> /\ Return(c)
        /\ \/ txns' = [txns EXCEPT ![debtor[c]] = txns[debtor[c]] + totalCost[c]]
           \/ txns' = txns
    BY <1>6 DEF InsertTransaction, history
  <2>2. OneRowPerKey' /\ DebitsRight'
    BY <2>1 DEF ConsumerBooks, OneRowPerKey, DebitsRight
  <2>3. OthersAlone(c) /\ TotalRight(c)' /\ \A u \in User : InHand(u)'[c] = 0
    BY <2>1, ReturnMoves
  <2>4. ASSUME NEW u \in User PROVE txns'[u] <= txns[u] + InHand(u)[c]
    <3>1. InHand(u)[c] = Taken(c, u) /\ totalCost[c] \in Nat
      BY <2>1 DEF TypeOK, InHand, Taken
    <3>2. txns \in [User -> Nat] /\ debtor[c] \in User
      BY DEF TypeOK
    <3>3. CASE debtor[c] = u
      BY <2>1, <3>1, <3>2, <3>3 DEF Taken
    <3>4. CASE debtor[c] # u
      BY <2>1, <3>1, <3>2, <3>4 DEF Taken
    <3> QED BY <3>3, <3>4
  <2>5. ASSUME NEW u \in User
        PROVE  txns'[u] + InHand(u)'[c] + debited[u] <= txns[u] + InHand(u)[c] + debited'[u]
    <3>1. debited'[u] = debited[u] /\ InHand(u)'[c] = 0
      BY <2>1, <2>3
    <3>2. /\ txns[u] \in Nat /\ debited[u] \in Nat /\ InHand(u)[c] \in Nat
          /\ txns'[u] \in Nat
      BY DEF TypeOK, InHand
    <3> QED BY <2>4, <3>1, <3>2
  <2> QED BY <2>2, <2>3, <2>5, ConsumerMoves
<1>7. ASSUME NEW c \in Consumer, Crash(c) PROVE ConsumerBooks'
  <2>1. /\ pc'[c] = "tick" /\ seen'[c] = {} /\ totalCost'[c] = 0 /\ OthersAlone(c)
        /\ UNCHANGED <<usage, txns, charged, debited>>
    BY <1>7 DEF TypeOK, Crash, GoTo, OthersAlone, dbVars, history
  <2>2. OneRowPerKey' /\ DebitsRight'
    BY <2>1 DEF ConsumerBooks, OneRowPerKey, DebitsRight
  <2>3. TotalRight(c)' /\ \A u \in User : InHand(u)'[c] = 0
    BY <2>1, SumEmpty DEF TotalRight, EventsOf, InHand
  <2>4. ASSUME NEW u \in User
        PROVE  txns'[u] + InHand(u)'[c] + debited[u] <= txns[u] + InHand(u)[c] + debited'[u]
    <3>1. txns[u] \in Nat /\ debited[u] \in Nat /\ InHand(u)[c] \in Nat
      BY DEF TypeOK, InHand
    <3>2. txns'[u] = txns[u] /\ debited'[u] = debited[u] /\ InHand(u)'[c] = 0
      BY <2>1, <2>3
    <3> QED BY <3>1, <3>2
  <2> QED BY <2>1, <2>2, <2>3, <2>4, ConsumerMoves
<1>8. CASE UNCHANGED <<flushVars, dbVars, history>>
  BY <1>8 DEF flushVars, dbVars, history, ConsumerBooks, OneRowPerKey, TotalRight, DebitsRight,
              TransactionsLate, InHand
<1> QED
  <2>1. ASSUME NEW r \in Request,
               \/ \E sec \in ChunkSec : AddPCM(r, sec)
               \/ Flush(r) \/ ReceiverReturns(r) \/ Kill(r)
        PROVE  UNCHANGED <<flushVars, dbVars, history>>
    BY <2>1 DEF AddPCM, Flush, ReceiverReturns, Kill
  <2>2. ASSUME NEW m \in bus, Lose(m) \/ Duplicate(m) \/ \E c \in Consumer : OnMessage(c, m)
        PROVE  UNCHANGED <<flushVars, dbVars, history>>
    BY <2>2 DEF Lose, Duplicate, OnMessage
  <2>3. ASSUME Idle \/ UNCHANGED vars PROVE UNCHANGED <<flushVars, dbVars, history>>
    BY <2>3 DEF Idle, vars
  <2> QED BY <1>1, <1>2, <1>3, <1>4, <1>5, <1>6, <1>7, <1>8, <2>1, <2>2, <2>3 DEF Next, ConsumerStep

(* The two halves hold initially, and so throughout.                        *)
LEMMA BooksInvariant == Spec => [](ApiBooks /\ ConsumerBooks)
<1>1. Init => ApiBooks /\ ConsumerBooks
  <2> SUFFICES ASSUME Init PROVE ApiBooks /\ ConsumerBooks
    OBVIOUS
  <2>1. IsFiniteSet(sent) /\ sent = {} /\ usage = {} /\ charged = {}
    BY FS_EmptySet DEF Init
  <2>2. ASSUME NEW u \in User
        PROVE  /\ Worth(window, u) = 0 /\ Worth(delivered, u) = 0
               /\ SumOver(InHand(u), Consumer) = 0
    <3>1. ASSUME NEW S, IsFiniteSet(S), NEW f, \A x \in S : f[x] = 0 PROVE SumOver(f, S) = 0
      BY <3>1, SumZero
    <3>2. IsFiniteSet(Requests(u)) /\ Requests(u) \subseteq Request /\ IsFiniteSet(Consumer)
      BY FS_Subset, BillingAssumption DEF Requests
    <3>3. \A r \in Requests(u) : window[r] = 0 /\ delivered[r] = 0
      BY <3>2 DEF Init
    <3>4. \A c \in Consumer : InHand(u)[c] = 0
      BY DEF Init, InHand
    <3>5. /\ SumOver(window, Requests(u)) = 0 /\ SumOver(delivered, Requests(u)) = 0
          /\ SumOver(InHand(u), Consumer) = 0
      BY <3>1, <3>2, <3>3, <3>4
    <3> QED BY <3>5, PriceType DEF Worth
  <2>3. ASSUME NEW u \in User
        PROVE  /\ SumOver(Costs, EventsOf({}, u)) = 0 /\ EventsOf({}, u) = {}
               /\ Originals({}) = {}
    BY SumEmpty DEF EventsOf, Originals
  <2>4. DeliveriesBooked /\ DebitsRight /\ TransactionsLate
    <3>1. \A u \in User : owed[u] = 0 /\ debited[u] = 0 /\ txns[u] = 0
      BY DEF Init
    <3> QED BY <2>1, <2>2, <2>3, <3>1 DEF DeliveriesBooked, DebitsRight, TransactionsLate, Booked
  <2>5. WindowConserved
    <3>1. ASSUME NEW r \in Request
          PROVE  SumOver(Seconds, {m \in sent : m.req = r /\ m.copy = 0}) = 0
      <4>1. {m \in sent : m.req = r /\ m.copy = 0} = {}
        BY <2>1
      <4> QED BY <4>1, SumEmpty
    <3>2. \A r \in Request : window[r] = 0 /\ delivered[r] = 0
      BY DEF Init
    <3> QED BY <3>1, <3>2 DEF WindowConserved
  <2>6. \A c \in Consumer : TotalRight(c)
    <3>1. \A c \in Consumer : seen[c] = {} /\ totalCost[c] = 0
      BY DEF Init
    <3> QED BY <3>1, NothingSeen
  <2> QED BY <2>1, <2>4, <2>5, <2>6 DEF ApiBooks, ConsumerBooks, OriginalsSent, OneRowPerKey
<1>2. ApiBooks => IsFiniteSet(sent)
  BY DEF ApiBooks
<1> QED
  BY <1>1, <1>2, ApiBooksStep, ConsumerBooksStep, TypeCorrect, EventsOnceInvariant, PTL DEF Spec

(* The coalescer loses and doubles no audio: for every request, what was    *)
(* published and what the window holds add up to what the client was given. *)
THEOREM WindowTheorem == Spec => []WindowConserved
<1>1. ApiBooks => WindowConserved
  BY DEF ApiBooks
<1> QED BY <1>1, BooksInvariant, PTL

(* The copy-free form of an event.                                          *)
OriginalOf == [m \in Event |-> [m EXCEPT !.copy = 0]]

(* The original of an event has its key, seconds, owner and cost, and copy  *)
(* 0.                                                                       *)
LEMMA OriginalFacts ==
    ASSUME NEW m \in Event
    PROVE  /\ OriginalOf[m] \in Event /\ OriginalOf[m].req = m.req /\ OriginalOf[m].n = m.n
           /\ OriginalOf[m].sec = m.sec /\ OriginalOf[m].copy = 0
           /\ Cost(OriginalOf[m]) = Cost(m)
           /\ \A x \in Event : x.req = m.req /\ x.n = m.n /\ x.sec = m.sec /\ x.copy = 0
                                => x = OriginalOf[m]
<1>2. OriginalOf[m] = [req |-> m.req, n |-> m.n, sec |-> m.sec, copy |-> 0]
  BY DEF OriginalOf, Event
<1>3. \A x \in Event : x = [req |-> x.req, n |-> x.n, sec |-> x.sec, copy |-> x.copy]
  BY DEF Event
<1> QED BY <1>2, <1>3 DEF Cost, Event

(* The books follow from the two halves: originals of usage rows are        *)
(* distinct published events, and a debited original has its row.           *)
LEMMA BooksImply ==
    TypeOK /\ EventsOnce /\ ApiBooks /\ ConsumerBooks => BooksInOrder
<1> SUFFICES ASSUME TypeOK, EventsOnce, ApiBooks, ConsumerBooks, NEW u \in User
             PROVE  /\ txns[u] <= debited[u]
                    /\ debited[u] <= UsageCost(u) + RepeatCost(u)
                    /\ UsageCost(u) <= Owed(u)
  BY DEF BooksInOrder
<1> DEFINE rows == EventsOf(usage, u)
           images == {OriginalOf[m] : m \in rows}
           first == {m \in EventsOf(charged, u) : m.copy = 0}
           again == EventsOf({m \in charged : m.copy > 0}, u)
           published == EventsOf(Originals(sent), u)
<1>1. /\ usage \subseteq sent /\ charged \subseteq sent /\ sent \subseteq Event /\ IsFiniteSet(sent)
  BY DEF TypeOK, EventsOnce, AllWereSent, ApiBooks
<1>2. /\ rows \subseteq sent /\ first \subseteq sent /\ again \subseteq sent
      /\ published \subseteq sent
      /\ rows \subseteq usage /\ first \subseteq charged
      /\ \A m \in first : m.copy = 0 /\ Owner[m.req] = u
      /\ \A m \in rows : Owner[m.req] = u
      /\ \A m \in sent : m \in published <=> m.copy = 0 /\ Owner[m.req] = u
      /\ \A m \in usage : Owner[m.req] = u => m \in rows
  BY <1>1 DEF EventsOf, Originals
<1>3. EventsOf(charged, u) = first \cup again /\ first \cap again = {}
  <2>1. \A m \in charged : m.copy \in Nat
    BY <1>1 DEF Event
  <2> QED BY <2>1 DEF EventsOf
<1>a. UsageCost(u) = SumOver(Costs, rows) /\ RepeatCost(u) = SumOver(Costs, again)
  BY DEF UsageCost, RepeatCost
<1> HIDE DEF rows, first, again, published
<1>4. ASSUME NEW X, X \subseteq sent
      PROVE  IsFiniteSet(X) /\ NatOn(Costs, X) /\ SumOver(Costs, X) \in Nat
  <2>1. IsFiniteSet(X) /\ X \subseteq Event
    BY <1>1, <1>4, FS_Subset
  <2> QED BY <2>1, EventNumbers, SumType
<1>5. SumOver(Costs, images) = SumOver(Costs, rows)
  <2>1. \A m \in rows : Costs[OriginalOf[m]] = Costs[m]
    <3>1. \A m \in Event : Costs[m] = Cost(m)
      BY EventNumbers
    <3> QED BY <1>1, <1>2, <3>1, OriginalFacts
  <2>2. ASSUME NEW x \in rows, NEW y \in rows, OriginalOf[x] = OriginalOf[y] PROVE x = y
    <3>1. x \in usage /\ y \in usage /\ x \in Event /\ y \in Event
      BY <1>1, <1>2
    <3>2. x.req = y.req /\ x.n = y.n
      BY <2>2, <3>1, OriginalFacts
    <3> QED BY <3>1, <3>2 DEF ConsumerBooks, OneRowPerKey
  <2> QED BY <1>2, <1>4, <2>1, <2>2, SumImage
<1>6. images \subseteq published
  <2>1. ASSUME NEW m \in rows PROVE OriginalOf[m] \in published
    <3>1. m \in sent /\ m \in Event
      BY <1>1, <1>2
    <3>2. OriginalOf[m] \in sent
      BY <3>1 DEF OriginalOf, ApiBooks, OriginalsSent
    <3>3. OriginalOf[m].copy = 0 /\ OriginalOf[m].req = m.req
      BY <3>1, OriginalFacts
    <3> QED BY <1>2, <3>2, <3>3
  <2> QED BY <2>1
<1>7. first \subseteq images
  <2>1. ASSUME NEW m \in first PROVE m \in images
    <3>1. PICK row \in usage : row.req = m.req /\ row.n = m.n /\ row.sec = m.sec
      BY <1>2 DEF EventsOnce, DebitsBackedByUsage, HasRow
    <3>2. row \in Event /\ m \in Event /\ m.copy = 0 /\ row \in rows
      BY <1>1, <1>2, <3>1
    <3>3. m = OriginalOf[row]
      BY <3>1, <3>2, OriginalFacts
    <3> QED BY <3>2, <3>3
  <2> QED BY <2>1
<1>8. SumOver(Costs, first) <= SumOver(Costs, images)
  <2>1. images \subseteq sent
    BY <1>2, <1>6
  <2> HIDE DEF images
  <2> QED BY <1>4, <1>7, <2>1, SumMono
<1>9. SumOver(Costs, images) <= SumOver(Costs, published)
  <2> HIDE DEF images
  <2> QED BY <1>2, <1>4, <1>6, SumMono
<1>10. debited[u] = SumOver(Costs, first) + SumOver(Costs, again)
  BY <1>2, <1>3, <1>4, SumUnion DEF ConsumerBooks, DebitsRight
<1>11. debited[u] <= UsageCost(u) + RepeatCost(u)
  <2>1. /\ SumOver(Costs, first) \in Nat /\ SumOver(Costs, again) \in Nat
        /\ SumOver(Costs, rows) \in Nat
    BY <1>2, <1>4
  <2> QED BY <1>a, <1>5, <1>8, <1>10, <2>1
<1>12. UsageCost(u) <= Owed(u)
  <2>1. Owed(u) = Worth(window, u) + SumOver(Costs, published)
    BY DEF Owed, Worth, ApiBooks, DeliveriesBooked, Booked, published
  <2>2. SumOver(Costs, rows) \in Nat /\ SumOver(Costs, published) \in Nat
    BY <1>2, <1>4
  <2>3. Worth(window, u) \in Nat
    BY WorthType DEF TypeOK
  <2> QED BY <1>a, <1>5, <1>9, <2>1, <2>2, <2>3
<1>13. txns[u] <= debited[u]
  <2>1. SumOver(InHand(u), Consumer) \in Nat
    <3>1. NatOn(InHand(u), Consumer)
      BY DEF NatOn, InHand, TypeOK
    <3> QED BY <3>1, BillingAssumption, SumType
  <2>2. /\ txns[u] + SumOver(InHand(u), Consumer) <= debited[u]
        /\ txns[u] \in Nat /\ debited[u] \in Nat
    BY DEF TypeOK, ConsumerBooks, TransactionsLate
  <2> QED BY <2>1, <2>2
<1> QED BY <1>11, <1>12, <1>13

(* Per user, transaction rows never exceed the debits, debits exceed the    *)
(* cost of the usage rows by the repeated messages debited at most, and     *)
(* usage rows never bill more than was delivered: for any number of         *)
(* accounts, requests, consumers and faults.                                *)
THEOREM BooksTheorem == Spec => []BooksInOrder
BY BooksImply, BooksInvariant, TypeCorrect, EventsOnceInvariant, PTL

-----------------------------------------------------------------------------
(* The refinement.                                                          *)

(* What debitUser is about to take is owed and not yet paid, when no        *)
(* message of the user was repeated: its events and those debited before    *)
(* are distinct events that the coalescers sent.                            *)
LEMMA ChargeIsOwed ==
    ASSUME TypeOK, EventsOnce, ApiBooks, ConsumerBooks, NEW c \in Consumer, MeteredAll(c),
           ~RepeatedTo(debtor[c])
    PROVE  totalCost[c] <= owed[debtor[c]] - debited[debtor[c]]
<1> DEFINE u == debtor[c]
           paid == EventsOf(charged, u)
           all == EventsOf(sent, u)
<1>1. u \in User /\ sent \subseteq Event /\ IsFiniteSet(sent)
  BY DEF TypeOK, ApiBooks
<1>2. /\ totalCost[c] = SumOver(Costs, seen[c]) /\ seen[c] = EventsOf(seen[c], u)
      /\ debited[u] = SumOver(Costs, paid)
  BY <1>1 DEF MeteredAll, ConsumerBooks, TotalRight, DebitsRight
<1>3. owed[u] = Worth(window, u) + SumOver(Costs, all) /\ Worth(window, u) \in Nat
  <2>1. EventsOf(Originals(sent), u) = all
    <3>1. \A m \in sent : m.copy \in Nat
      BY <1>1 DEF Event
    <3> QED BY <3>1 DEF Originals, EventsOf, RepeatedTo
  <2> QED BY <1>1, <2>1, WorthType DEF ApiBooks, DeliveriesBooked, Booked, TypeOK
<1>4. /\ charged \subseteq sent /\ seen[c] \subseteq sent /\ charged \cap seen[c] = {}
  BY DEF EventsOnce, AllWereSent, SeenMetered, InOnePlace
<1>5. /\ paid \subseteq sent /\ all \subseteq sent /\ paid \cup seen[c] \subseteq all
      /\ paid \cap seen[c] = {}
  BY <1>2, <1>4 DEF EventsOf
<1> HIDE DEF u, paid, all
<1>6. ASSUME NEW X, X \subseteq sent
      PROVE  IsFiniteSet(X) /\ NatOn(Costs, X) /\ SumOver(Costs, X) \in Nat
  <2>1. IsFiniteSet(X) /\ X \subseteq Event
    BY <1>1, <1>6, FS_Subset
  <2> QED BY <2>1, EventNumbers, SumType
<1>7. SumOver(Costs, paid \cup seen[c]) = SumOver(Costs, paid) + SumOver(Costs, seen[c])
  BY <1>4, <1>5, <1>6, SumUnion
<1>8. SumOver(Costs, paid \cup seen[c]) <= SumOver(Costs, all)
  BY <1>5, <1>6, SumMono
<1>9. /\ SumOver(Costs, paid) \in Nat /\ SumOver(Costs, seen[c]) \in Nat
      /\ SumOver(Costs, all) \in Nat
  BY <1>4, <1>5, <1>6
<1>10. totalCost[c] <= owed[u] - debited[u]
  BY <1>2, <1>3, <1>7, <1>8, <1>9
<1> QED BY <1>10 DEF u

(* Raising what one user owes is a delivery of the ledger, or nothing.      *)
LEMMA OwingDelivers ==
    ASSUME TypeOK, NEW u \in User, NEW x \in Nat, owed' = [owed EXCEPT ![u] = @ + x],
           UNCHANGED <<debited, balance>>
    PROVE  [LedgerMove]_(Money!vars)
<1>1. owed \in [User -> Nat] /\ owed[u] \in Nat
  BY DEF TypeOK
<1>2. CASE x = 0
  BY <1>1, <1>2 DEF Money!vars
<1>3. CASE x # 0
  <2>1. owed'[u] = owed[u] + x
    BY <1>1
  <2>2. Money!Deliver(u)
    BY <1>1, <1>3, <2>1 DEF Money!Deliver
  <2> QED BY <2>2 DEF Money!Next, LedgerMove
<1> QED BY <1>2, <1>3

(* The UPDATE of a positive total is a charge of the ledger, or more than   *)
(* that to a user with a repeated message.                                  *)
LEMMA UpdateCharges ==
    ASSUME TypeOK, EventsOnce, ApiBooks, ConsumerBooks, NEW c \in Consumer, MeteredAll(c),
           totalCost[c] > 0, UpdateWallet(c), UNCHANGED owed
    PROVE  [LedgerMove]_(Money!vars)
<1>1. /\ debited \in [User -> Nat] /\ debtor[c] \in User /\ totalCost[c] \in Nat
      /\ balance \in [User -> Nat] /\ owed[debtor[c]] \in Nat
  BY DEF TypeOK
<1>2. debited'[debtor[c]] - debited[debtor[c]] = totalCost[c]
  BY <1>1 DEF UpdateWallet
<1>3. Money!Take(debtor[c], totalCost[c])
  BY <1>1 DEF Money!Take, UpdateWallet
<1>4. CASE totalCost[c] <= owed[debtor[c]] - debited[debtor[c]]
  BY <1>1, <1>2, <1>3, <1>4 DEF Money!Charge, Money!Next, LedgerMove
<1>5. CASE ~(totalCost[c] <= owed[debtor[c]] - debited[debtor[c]])
  <2>1. RepeatedTo(debtor[c])
    BY <1>5, ChargeIsOwed
  <2>2. debited[debtor[c]] \in Nat
    BY <1>1
  <2>3. Money!Overcharge(debtor[c])
    BY <1>1, <1>2, <1>3, <1>5, <2>2 DEF Money!Overcharge
  <2> QED BY <1>1, <2>1, <2>3 DEF LedgerMove
<1> QED BY <1>4, <1>5

(* Every step of the pipeline is a step of the ledger, or a debit beyond it *)
(* of a user with a repeated message, or nothing to the ledger.             *)
LEMMA LedgerStep ==
    TypeOK /\ EventsOnce /\ ApiBooks /\ ConsumerBooks /\ [Next]_vars => [LedgerMove]_(Money!vars)
<1> SUFFICES ASSUME TypeOK, EventsOnce, ApiBooks, ConsumerBooks, [Next]_vars
             PROVE  [LedgerMove]_(Money!vars)
  OBVIOUS
<1>1. ASSUME NEW r \in Request, NEW sec \in ChunkSec, AddPCM(r, sec)
      PROVE  [LedgerMove]_(Money!vars)
  <2>1. Owner[r] \in User /\ sec \in Nat
    BY BillingAssumption
  <2>2. sec * PricePerMinute(Owner[r]) \in Nat
    BY <2>1, PriceType, NatTimes
  <2>3. /\ owed' = [owed EXCEPT ![Owner[r]] = @ + sec * PricePerMinute(Owner[r])]
        /\ UNCHANGED <<debited, balance>>
    BY <1>1 DEF AddPCM, dbVars, history
  <2> QED BY <2>1, <2>2, <2>3, OwingDelivers
<1>2. ASSUME NEW m \in bus, Duplicate(m) PROVE [LedgerMove]_(Money!vars)
  BY <1>2 DEF Duplicate, dbVars, history, Money!vars
<1>3. ASSUME NEW c \in Consumer, DebitWallet(c) PROVE [LedgerMove]_(Money!vars)
  <2>1. CASE totalCost[c] <= 0
    BY <1>3, <2>1 DEF DebitWallet, history, Money!vars
  <2>2. CASE ~(totalCost[c] <= 0)
    <3>1. totalCost[c] > 0 /\ MeteredAll(c) /\ UpdateWallet(c) /\ UNCHANGED owed
      BY <1>3, <2>2 DEF DebitWallet, TypeOK
    <3> QED BY <3>1, UpdateCharges
  <2> QED BY <2>1, <2>2
<1>4. ASSUME NEW c \in Consumer, DebitError(c) PROVE [LedgerMove]_(Money!vars)
  <2>1. CASE UpdateWallet(c)
    BY <1>4, <2>1, UpdateCharges DEF DebitError
  <2>2. CASE UNCHANGED <<balance, history>>
    BY <1>4, <2>2 DEF DebitError, history, Money!vars
  <2> QED BY <1>4, <2>1, <2>2 DEF DebitError
<1>5. CASE UNCHANGED <<owed, debited, balance>>
  BY <1>5 DEF Money!vars
<1> QED
  <2>1. ASSUME NEW r \in Request, Flush(r) \/ ReceiverReturns(r) \/ Kill(r)
        PROVE  UNCHANGED <<owed, debited, balance>>
    BY <2>1 DEF Flush, ReceiverReturns, Kill, dbVars, history
  <2>2. ASSUME NEW m \in bus, Lose(m) \/ \E c \in Consumer : OnMessage(c, m)
        PROVE  UNCHANGED <<owed, debited, balance>>
    BY <2>2 DEF Lose, OnMessage, dbVars, history
  <2>3. ASSUME NEW c \in Consumer,
               \/ Tick(c) \/ EndFlush(c) \/ InsertTransaction(c) \/ Crash(c)
               \/ \E u \in User : DebitUser(c, u)
               \/ \E m \in batch[c] : MeterEvent(c, m) \/ MeterError(c, m)
        PROVE  UNCHANGED <<owed, debited, balance>>
    BY <2>3 DEF Tick, EndFlush, InsertTransaction, Crash, DebitUser, MeterEvent, MeterError,
                dbVars, history
  <2>4. ASSUME Idle \/ UNCHANGED vars PROVE UNCHANGED <<owed, debited, balance>>
    BY <2>4 DEF Idle, vars, dbVars, history
  <2> QED BY <1>1, <1>2, <1>3, <1>4, <1>5, <2>1, <2>2, <2>3, <2>4 DEF Next, ConsumerStep

(* The pipeline implements the ledger: whatever is lost, failed or crashed, *)
(* a wallet changes only by one indivisible charge of an amount that was    *)
(* delivered and is unpaid; only a user with a repeated message is ever     *)
(* charged beyond that.                                                     *)
THEOREM LedgerTheorem == Spec => ImplementsLedger
<1>1. Init => Money!Init
  BY DEF Init, Money!Init
<1> QED
  BY <1>1, LedgerStep, BooksInvariant, TypeCorrect, EventsOnceInvariant, PTL
  DEF Spec, ImplementsLedger
=============================================================================

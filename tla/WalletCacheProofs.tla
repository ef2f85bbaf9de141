-------------------------- MODULE WalletCacheProofs -------------------------
(***************************************************************************)
(* Proof that no cache is ever further behind Postgres than its TTLs and   *)
(* the time a load may be held allow, for any number of replicas and       *)
(* deliveries, any TTL and any OpTicks, with Valkey failing at will.       *)
(***************************************************************************)
EXTENDS WalletCache, TLAPS

USE DEF Proc, Version

(* A cell may be empty or hold one fresh entry; a tick leaves a cell, and   *)
(* what is in a cell is an entry.                                           *)
LEMMA Cells ==
    /\ {} \in Cell
    /\ \A v \in Version : {[ver |-> v, age |-> 0]} \in Cell
    /\ \A c \in Cell : Expire(c) \in Cell
    /\ \A c \in Cell : \A e \in c :
          e \in Entry /\ e.ver \in Version /\ e.age \in Nat /\ e.age < TTL
<1> USE WalletCacheAssumption
<1>1. {} \in Cell
  BY DEF Cell
<1>2. \A v \in Version : {[ver |-> v, age |-> 0]} \in Cell
  <2>1. \A v \in Version : [ver |-> v, age |-> 0] \in Entry
    BY DEF Entry
  <2> QED BY <2>1 DEF Cell
<1>3. ASSUME NEW c \in Cell PROVE Expire(c) \in Cell
  <2>1. c \subseteq Entry /\ \A x, y \in c : x = y
    BY DEF Cell
  <2>2. \A e \in Entry : e.age + 1 < TTL => [ver |-> e.ver, age |-> e.age + 1] \in Entry
    BY DEF Entry
  <2>3. Expire(c) \subseteq Entry
    BY <2>1, <2>2 DEF Expire
  <2>4. \A x, y \in Expire(c) : x = y
    BY <2>1 DEF Expire
  <2> QED BY <2>3, <2>4 DEF Cell
<1>4. ASSUME NEW c \in Cell, NEW e \in c
      PROVE  e \in Entry /\ e.ver \in Version /\ e.age \in Nat /\ e.age < TTL
  <2>1. e \in Entry
    BY DEF Cell
  <2> QED BY <2>1 DEF Entry
<1> QED BY <1>1, <1>2, <1>3, <1>4

(* Every step keeps every variable in its type.                             *)
LEMMA TypeOKStep == TypeOK /\ [Next]_vars => TypeOK'
<1> SUFFICES ASSUME TypeOK, [Next]_vars PROVE TypeOK'
  OBVIOUS
<1> USE WalletCacheAssumption, Cells
<1>1. CASE Debit
  <2>1. version' \in Version /\ dels' \in 0 .. version'
    BY <1>1 DEF TypeOK, Debit
  <2> QED BY <1>1, <2>1 DEF TypeOK, Debit
<1>2. CASE DelSnapshot
  <2>1. dels' \in 0 .. version' /\ l2' \in Cell
    <3>1. dels \in 0 .. version /\ version \in Nat /\ dels > 0
      BY <1>2 DEF TypeOK, DelSnapshot
    <3>2. version' = version /\ dels' = dels - 1
      BY <1>2 DEF DelSnapshot
    <3>3. l2' \in Cell
      BY <1>2 DEF TypeOK, DelSnapshot
    <3> QED BY <3>1, <3>2, <3>3
  <2> QED BY <1>2, <2>1 DEF TypeOK, DelSnapshot
<1>3. ASSUME NEW rep \in Replica, Get(rep) PROVE TypeOK'
  BY <1>3 DEF TypeOK, Get, GoTo, db
<1>4. ASSUME NEW rep \in Replica, Fill(rep) PROVE TypeOK'
  <2>1. {[ver |-> val[rep], age |-> 0]} \in Cell
    BY DEF TypeOK
  <2> QED BY <1>4, <2>1 DEF TypeOK, Fill, Done, Holds, GoTo, db
<1>5. ASSUME NEW s \in Stream, Refresh(s) PROVE TypeOK'
  BY <1>5 DEF TypeOK, Refresh, GoTo, db
<1>6. ASSUME NEW s \in Stream, Invalidate(s) PROVE TypeOK'
  BY <1>6 DEF TypeOK, Invalidate, GoTo, db
<1>7. ASSUME NEW s \in Stream, Return(s) PROVE TypeOK'
  BY <1>7 DEF TypeOK, Return, Done, Holds, GoTo, db
<1>8. ASSUME NEW p \in Proc, GetL2(p) PROVE TypeOK'
  <2>1. CASE \E e \in l2 : Holds(p, e.ver, "loaded")
    BY <1>8, <2>1 DEF TypeOK, GetL2, Holds, GoTo, db
  <2>2. CASE GoTo(p, "db") /\ UNCHANGED <<val, held>>
    BY <1>8, <2>2 DEF TypeOK, GetL2, GoTo, db
  <2> QED BY <1>8, <2>1, <2>2 DEF GetL2
<1>9. ASSUME NEW p \in Proc, LoadDB(p) PROVE TypeOK'
  BY <1>9 DEF TypeOK, LoadDB, Holds, GoTo, db
<1>10. ASSUME NEW p \in Proc, LoadDBError(p) PROVE TypeOK'
  BY <1>10 DEF TypeOK, LoadDBError, Done, Holds, GoTo, db
<1>11. ASSUME NEW p \in Proc, SetL2(p) PROVE TypeOK'
  <2>1. {[ver |-> val[p], age |-> 0]} \in Cell
    BY DEF TypeOK
  <2> QED BY <1>11, <2>1 DEF TypeOK, SetL2, GoTo, db
<1>12. CASE Tick
  <2>1. held' \in [Proc -> 0 .. OpTicks]
    BY <1>12 DEF TypeOK, Tick
  <2>2. since' \in [Version -> 0 .. LagCap]
    BY <1>12 DEF TypeOK, Tick, Older
  <2> QED BY <1>12, <2>1, <2>2 DEF TypeOK, Tick
<1>13. CASE UNCHANGED vars
  BY <1>13 DEF TypeOK, vars
<1> QED
  BY <1>1, <1>2, <1>3, <1>4, <1>5, <1>6, <1>7, <1>8, <1>9, <1>10, <1>11, <1>12, <1>13
  DEF Next, LoadStep

(* Every reachable state of the caches is well typed.                       *)
THEOREM TypeCorrect == Spec => []TypeOK
<1>1. Init => TypeOK
  BY WalletCacheAssumption, Cells DEF Init, TypeOK
<1> QED BY <1>1, TypeOKStep, PTL DEF Spec

(* A lag is a number of ticks, and zero for the balance in Postgres.        *)
LEMMA LagType ==
    ASSUME TypeOK PROVE \A v \in Version : Lag(v) \in Nat /\ Lag(version) = 0
BY WalletCacheAssumption DEF TypeOK, Lag

(* A step that leaves Postgres and time alone leaves every lag alone; so    *)
(* does a debit, for the balance it supersedes was current until now.       *)
LEMMA LagSame ==
    ASSUME TypeOK, UNCHANGED <<version, since>> \/ Debit
    PROVE  \A v \in Version : Lag(v)' = Lag(v)
BY WalletCacheAssumption DEF TypeOK, Lag, Debit

(* A tick adds at most one tick of lag.                                     *)
LEMMA LagTick ==
    ASSUME TypeOK, Tick
    PROVE  \A v \in Version : Lag(v)' <= Lag(v) + 1
BY WalletCacheAssumption DEF TypeOK, Lag, Tick, Older

(* Entries a tick leaves in a cell were there before and are a tick older.  *)
LEMMA ExpireSpec ==
    ASSUME NEW cell, NEW e \in Expire(cell)
    PROVE  \E x \in cell : e.ver = x.ver /\ e.age = x.age + 1
BY DEF Expire

(* A step that concerns process p only: it suffices to look at p.           *)
LEMMA ProcStep ==
    ASSUME TypeOK, AgesBounded, UNCHANGED <<version, since>>, NEW p \in Proc,
           \A q \in Proc : q # p => pc'[q] = pc[q] /\ val'[q] = val[q] /\ held'[q] = held[q],
           pc'[p] = "set" => Lag(val'[p]) <= held'[p],
           pc'[p] = "loaded" => Lag(val'[p]) < TTL + OpTicks + held'[p]
    PROVE  HeldAge'
<1>1. \A q \in Proc : Lag(val[q])' = Lag(val'[q])
  BY DEF Lag
<1>2. \A q \in Proc : q # p => Lag(val'[q]) = Lag(val[q])
  OBVIOUS
<1> QED BY <1>1, <1>2 DEF AgesBounded, HeldAge

(* The same for a step to a point where p holds nothing.                    *)
LEMMA ProcGoTo ==
    ASSUME TypeOK, AgesBounded, UNCHANGED <<version, since>>, NEW p \in Proc,
           NEW label \in {"idle", "del", "l2", "db"}, pc' = [pc EXCEPT ![p] = label],
           \A q \in Proc : q # p => val'[q] = val[q] /\ held'[q] = held[q]
    PROVE  HeldAge'
<1>1. pc'[p] = label /\ \A q \in Proc : q # p => pc'[q] = pc[q]
  BY DEF TypeOK
<1> QED BY <1>1, ProcStep

(* Every step keeps every value within the age its place allows.            *)
LEMMA AgesBoundedStep == TypeOK /\ AgesBounded /\ [Next]_vars => AgesBounded'
<1> SUFFICES ASSUME TypeOK, AgesBounded, [Next]_vars PROVE AgesBounded'
  OBVIOUS
<1> USE WalletCacheAssumption
<1>0. /\ \A e \in l2 : e.ver \in Version /\ e.age \in Nat
      /\ \A rep \in Replica : \A e \in l1[rep] : e.ver \in Version /\ e.age \in Nat
      /\ \A p \in Proc : val[p] \in Version /\ held[p] \in Nat /\ held[p] <= OpTicks
  BY Cells DEF TypeOK
<1>1. CASE Debit
  <2>1. \A v \in Version : Lag(v)' = Lag(v)
    BY <1>1, LagSame
  <2>2. UNCHANGED <<l2, l1, pc, val, held>>
    BY <1>1 DEF Debit
  <2>3. HeldAge'
    BY <1>0, <2>1, <2>2 DEF AgesBounded, HeldAge
  <2>4. L2Age' /\ L1Age'
    BY <1>0, <2>1, <2>2 DEF AgesBounded, L2Age, L1Age
  <2> QED BY <2>3, <2>4 DEF AgesBounded
<1>2. ASSUME UNCHANGED <<version, since>>,
             \A e \in l2' : e \in l2,
             \A rep \in Replica : \A e \in l1'[rep] : e \in l1[rep]
      PROVE  L2Age' /\ L1Age'
  <2>1. \A v \in Version : Lag(v)' = Lag(v)
    BY <1>2, LagSame
  <2> QED BY <1>0, <1>2, <2>1 DEF AgesBounded, L2Age, L1Age
<1>3. ASSUME UNCHANGED <<version, since, pc, val, held>> PROVE HeldAge'
  BY <1>3 DEF AgesBounded, HeldAge, Lag
<1>4. CASE DelSnapshot
  <2>1. /\ UNCHANGED <<version, since, l1, pc, val, held>>
        /\ \A e \in l2' : e \in l2
    BY <1>4 DEF DelSnapshot
  <2> QED BY <2>1, <1>2, <1>3 DEF AgesBounded
<1>5. ASSUME NEW rep \in Replica, Get(rep) PROVE AgesBounded'
  <2>1. /\ UNCHANGED <<version, since, l1, l2, val, held>>
        /\ pc' = [pc EXCEPT ![rep] = "l2"]
    BY <1>5 DEF Get, GoTo, db
  <2>2. HeldAge'
    BY <2>1, ProcGoTo
  <2> QED BY <2>1, <2>2, <1>2 DEF AgesBounded
<1>6. ASSUME NEW rep \in Replica, Fill(rep) PROVE AgesBounded'
  <2>1. /\ UNCHANGED <<version, since, l2>>
        /\ pc[rep] = "loaded"
        /\ pc' = [pc EXCEPT ![rep] = "idle"]
        /\ val' = [val EXCEPT ![rep] = 0]
        /\ held' = [held EXCEPT ![rep] = 0]
        /\ l1' = [l1 EXCEPT ![rep] = {[ver |-> val[rep], age |-> 0]}]
    BY <1>6 DEF Fill, Done, Holds, GoTo, db
  <2>2. HeldAge'
    BY <2>1, ProcGoTo DEF TypeOK
  <2>3. \A v \in Version : Lag(v)' = Lag(v)
    BY <2>1, LagSame
  <2>4. L2Age'
    BY <1>0, <2>1, <2>3 DEF AgesBounded, L2Age
  <2>5. held[rep] <= OpTicks /\ Lag(val[rep]) < TTL + OpTicks + held[rep]
    BY <1>0, <2>1 DEF AgesBounded, HeldAge
  <2>6. Lag(val[rep]) < TTL + 2 * OpTicks
    BY <1>0, <2>5, LagType
  <2>7. \A r \in Replica : \A e \in l1'[r] :
            e \in l1[r] \/ (e.ver = val[rep] /\ e.age = 0)
    BY <2>1 DEF TypeOK
  <2>8. L1Age'
    BY <1>0, <2>3, <2>6, <2>7 DEF AgesBounded, L1Age
  <2> QED BY <2>2, <2>4, <2>8 DEF AgesBounded
<1>7. ASSUME NEW s \in Stream, Refresh(s) PROVE AgesBounded'
  <2>1. /\ UNCHANGED <<version, since, l2, val, held>>
        /\ l1' = [l1 EXCEPT ![StreamHome[s]] = {}]
        /\ pc' = [pc EXCEPT ![s] = "del"]
    BY <1>7 DEF Refresh, GoTo, db
  <2>2. HeldAge'
    BY <2>1, ProcGoTo
  <2>3. \A r \in Replica : \A e \in l1'[r] : e \in l1[r]
    BY <2>1 DEF TypeOK
  <2> QED BY <2>1, <2>2, <2>3, <1>2 DEF AgesBounded
<1>8. ASSUME NEW s \in Stream, Invalidate(s) PROVE AgesBounded'
  <2>1. /\ UNCHANGED <<version, since, l1, val, held>>
        /\ \A e \in l2' : e \in l2
        /\ pc' = [pc EXCEPT ![s] = "l2"]
    BY <1>8 DEF Invalidate, GoTo, db
  <2>2. HeldAge'
    BY <2>1, ProcGoTo
  <2> QED BY <2>1, <2>2, <1>2 DEF AgesBounded
<1>9. ASSUME NEW p \in Proc, UNCHANGED <<version, since, l1, l2>>, Done(p)
      PROVE  AgesBounded'
  <2>1. /\ pc' = [pc EXCEPT ![p] = "idle"]
        /\ val' = [val EXCEPT ![p] = 0]
        /\ held' = [held EXCEPT ![p] = 0]
    BY <1>9 DEF Done, Holds, GoTo
  <2>2. HeldAge'
    BY <1>9, <2>1, ProcGoTo DEF TypeOK
  <2> QED BY <1>9, <2>2, <1>2 DEF AgesBounded
<1>10. ASSUME NEW s \in Stream, Return(s) PROVE AgesBounded'
  BY <1>10, <1>9 DEF Return, db
<1>11. ASSUME NEW p \in Proc, GetL2(p) PROVE AgesBounded'
  <2>0. UNCHANGED <<version, since, l1, l2>>
    BY <1>11 DEF GetL2, db
  <2>1. ASSUME NEW e \in l2, Holds(p, e.ver, "loaded") PROVE HeldAge'
    <3>1. /\ pc' = [pc EXCEPT ![p] = "loaded"]
          /\ val' = [val EXCEPT ![p] = e.ver]
          /\ held' = [held EXCEPT ![p] = 0]
      BY <2>1 DEF Holds, GoTo
    <3>2. Lag(e.ver) < TTL + OpTicks + 0
      <4>1. e.age \in Nat /\ e.age < TTL /\ Lag(e.ver) \in Nat
        BY <1>0, Cells, LagType DEF TypeOK
      <4>2. Lag(e.ver) <= OpTicks + e.age
        BY DEF AgesBounded, L2Age
      <4> QED BY <4>1, <4>2
    <3>3. /\ pc'[p] = "loaded" /\ val'[p] = e.ver /\ held'[p] = 0
          /\ \A q \in Proc : q # p => pc'[q] = pc[q] /\ val'[q] = val[q] /\ held'[q] = held[q]
      BY <3>1 DEF TypeOK
    <3> QED BY <2>0, <3>2, <3>3, ProcStep
  <2>2. ASSUME GoTo(p, "db"), UNCHANGED <<val, held>> PROVE HeldAge'
    BY <2>0, <2>2, ProcGoTo DEF GoTo
  <2>3. HeldAge'
    BY <1>11, <2>1, <2>2 DEF GetL2
  <2> QED BY <2>0, <2>3, <1>2 DEF AgesBounded
<1>12. ASSUME NEW p \in Proc, LoadDB(p) PROVE AgesBounded'
  <2>1. /\ UNCHANGED <<version, since, l1, l2>>
        /\ pc' = [pc EXCEPT ![p] = "set"]
        /\ val' = [val EXCEPT ![p] = version]
        /\ held' = [held EXCEPT ![p] = 0]
    BY <1>12 DEF LoadDB, Holds, GoTo, db
  <2>2. /\ pc'[p] = "set" /\ val'[p] = version /\ held'[p] = 0
        /\ \A q \in Proc : q # p => pc'[q] = pc[q] /\ val'[q] = val[q] /\ held'[q] = held[q]
    BY <2>1 DEF TypeOK
  <2>3. HeldAge'
    <3>1. Lag(val'[p]) = 0
      BY <2>2 DEF TypeOK, Lag
    <3> QED BY <2>1, <2>2, <3>1, ProcStep
  <2> QED BY <2>1, <2>3, <1>2 DEF AgesBounded
<1>13. ASSUME NEW p \in Proc, LoadDBError(p) PROVE AgesBounded'
  BY <1>13, <1>9 DEF LoadDBError, db
<1>14. ASSUME NEW p \in Proc, SetL2(p) PROVE AgesBounded'
  <2>1. /\ UNCHANGED <<version, since, l1, val, held>>
        /\ pc[p] = "set"
        /\ pc' = [pc EXCEPT ![p] = "loaded"]
        /\ \A e \in l2' : e \in l2 \/ (e.ver = val[p] /\ e.age = 0)
    BY <1>14 DEF SetL2, GoTo, db
  <2>2. Lag(val[p]) \in Nat /\ Lag(val[p]) <= held[p] /\ held[p] <= OpTicks
    BY <1>0, <2>1, LagType DEF AgesBounded, HeldAge
  <2>3. pc'[p] = "loaded" /\ \A q \in Proc : q # p => pc'[q] = pc[q]
    BY <2>1 DEF TypeOK
  <2>4. HeldAge'
    <3>1. Lag(val'[p]) < TTL + OpTicks + held'[p]
      BY <1>0, <2>1, <2>2
    <3> QED BY <2>1, <2>3, <3>1, ProcStep
  <2>5. \A v \in Version : Lag(v)' = Lag(v)
    BY <2>1, LagSame
  <2>6. L2Age' /\ L1Age'
    BY <1>0, <2>1, <2>2, <2>5 DEF AgesBounded, L2Age, L1Age
  <2> QED BY <2>4, <2>6 DEF AgesBounded
<1>15. CASE Tick
  <2>1. \A v \in Version : Lag(v)' <= Lag(v) + 1 /\ Lag(v) \in Nat
    BY <1>15, LagTick, LagType
  <2>2. \A v \in Version : Lag(v)' \in Nat
    BY <1>15, TypeOKStep, WalletCacheAssumption DEF TypeOK, Lag, Tick, Older
  <2>3. L2Age'
    <3>1. \A e \in l2' : \E x \in l2 : e.ver = x.ver /\ e.age = x.age + 1
      BY <1>15, ExpireSpec DEF Tick, TypeOK
    <3> QED BY <1>0, <2>1, <2>2, <3>1 DEF AgesBounded, L2Age
  <2>4. L1Age'
    <3>1. \A rep \in Replica : \A e \in l1'[rep] :
             \E x \in l1[rep] : e.ver = x.ver /\ e.age = x.age + 1
      BY <1>15, ExpireSpec DEF Tick, TypeOK
    <3> QED BY <1>0, <2>1, <2>2, <3>1 DEF AgesBounded, L1Age
  <2>5. HeldAge'
    <3>1. /\ \A p \in Proc : InFlight(p) => held[p] < OpTicks /\ held'[p] = held[p] + 1
          /\ pc' = pc /\ val' = val
      BY <1>15 DEF Tick
    <3>2. \A p \in Proc : Lag(val[p])' <= Lag(val[p]) + 1 /\ Lag(val[p])' \in Nat
                          /\ Lag(val[p]) \in Nat
      BY <1>0, <2>1, <2>2, <3>1
    <3> QED BY <1>0, <3>1, <3>2 DEF AgesBounded, HeldAge, InFlight
  <2> QED BY <2>3, <2>4, <2>5 DEF AgesBounded
<1>16. CASE UNCHANGED vars
  BY <1>16, <1>2, <1>3 DEF vars, AgesBounded
<1> QED
  BY <1>1, <1>4, <1>5, <1>6, <1>7, <1>8, <1>10, <1>11, <1>12, <1>13, <1>14, <1>15, <1>16
  DEF Next, LoadStep

(* A Valkey snapshot is less than TTL + OpTicks behind the wallets row, and *)
(* an L1 entry less than twice that, whatever races and fails.              *)
THEOREM StalenessTheorem == Spec => []StalenessBounded
<1>1. Init => AgesBounded
  BY WalletCacheAssumption DEF Init, AgesBounded, L2Age, L1Age, HeldAge
<1>2. TypeOK /\ AgesBounded => StalenessBounded
  <2> SUFFICES ASSUME TypeOK, AgesBounded PROVE StalenessBounded
    OBVIOUS
  <2>1. /\ \A e \in l2 : Lag(e.ver) \in Nat /\ e.age \in Nat /\ e.age < TTL
        /\ \A rep \in Replica : \A e \in l1[rep] :
              Lag(e.ver) \in Nat /\ e.age \in Nat /\ e.age < TTL
    BY LagType, Cells DEF TypeOK
  <2> QED BY <2>1, WalletCacheAssumption
          DEF AgesBounded, L2Age, L1Age, StalenessBounded, L2Staleness, L1Staleness
<1> QED BY <1>1, <1>2, AgesBoundedStep, TypeCorrect, PTL DEF Spec
=============================================================================

----------------------------- MODULE WalletCache ----------------------------
(***************************************************************************)
(* The three places that hold one user's wallet: the wallets row in        *)
(* Postgres, the snapshot in Valkey (L2) and the groupcache entry of each  *)
(* API replica (L1) -- api/internal/cache/wallet.go and the DEL that ends  *)
(* debitUser in metering/internal/consumer.                                *)
(*                                                                         *)
(* Every round trip is a step of its own: a loader may read Postgres,      *)
(* wait, and store what it read after others have debited the row and      *)
(* deleted the snapshot.  A balance is represented by the number of debits *)
(* behind it, so newer means larger.  Time advances by Tick; OpTicks is    *)
(* the longest time a process sits between two of its round trips.         *)
(***************************************************************************)
EXTENDS Integers

CONSTANTS
    Replica,      \* API processes; each has one L1 and one singleflight load
    Stream,       \* deliveries that call Refresh
    StreamHome,   \* the replica a delivery runs on
    TTL,          \* walletTTL, in ticks
    OpTicks,      \* bound on the ticks a value is held between two round trips
    MaxDebits,    \* bound on the debits of the wallet
    LagCap,       \* where the history variable since saturates
    ValkeyFails   \* whether Valkey commands may fail

ASSUME WalletCacheAssumption ==
    /\ StreamHome \in [Stream -> Replica]
    /\ Replica \cap Stream = {}
    /\ TTL \in Nat \ {0}
    /\ OpTicks \in Nat
    /\ MaxDebits \in Nat
    /\ LagCap \in Nat /\ LagCap > 2 * (TTL + OpTicks)
    /\ ValkeyFails \in BOOLEAN

(* A process is the load a replica's L1 has under way, or a Refresh.        *)
Proc == Replica \cup Stream

Version == 0 .. MaxDebits

(* A cached snapshot: which balance, and the ticks since it was stored.     *)
Entry == [ver : Version, age : 0 .. TTL - 1]

(* What a key of Valkey or of groupcache holds: nothing or one snapshot.    *)
Cell == {c \in SUBSET Entry : \A x, y \in c : x = y}

VARIABLES
    version,  \* the balance in Postgres
    since,    \* history: since[v] is the time balance v has been superseded
    dels,     \* committed UPDATEs whose DEL of the snapshot is outstanding
    l2,       \* the Valkey entry: empty or a singleton
    l1,       \* l1[rep]: the groupcache entry: empty or a singleton
    pc,       \* where a process stands
    val,      \* the snapshot it holds
    held      \* the ticks it has held it

vars == <<version, since, dels, l2, l1, pc, val, held>>
db == <<version, since, dels>>

Init ==
    /\ version = 0
    /\ since = [v \in Version |-> 0]
    /\ dels = 0
    /\ l2 = {}
    /\ l1 = [rep \in Replica |-> {}]
    /\ pc = [p \in Proc |-> "idle"]
    /\ val = [p \in Proc |-> 0]
    /\ held = [p \in Proc |-> 0]

Lag(v) == IF v < version THEN since[v] ELSE 0

GoTo(p, label) == pc' = [pc EXCEPT ![p] = label]

Holds(p, v, label) ==
    /\ val' = [val EXCEPT ![p] = v]
    /\ held' = [held EXCEPT ![p] = 0]
    /\ GoTo(p, label)

(* A call returns: what it held goes out of scope.                          *)
Done(p) == Holds(p, 0, "idle")

---------------------------------------------------------------------------
(* Metering: the UPDATE commits, and some time later the snapshot is        *)
(* deleted -- or not, as the error is ignored and the process may die.      *)

Debit ==
    /\ version < MaxDebits
    /\ version' = version + 1
    /\ since' = [since EXCEPT ![version] = 0]
    /\ dels' = dels + 1
    /\ UNCHANGED <<l2, l1, pc, val, held>>

DelSnapshot ==
    /\ dels > 0
    /\ dels' = dels - 1
    /\ l2' = {} \/ (ValkeyFails /\ UNCHANGED l2)
    /\ UNCHANGED <<version, since, l1, pc, val, held>>

---------------------------------------------------------------------------
(* WalletCache.Get: a hit returns the L1 entry and changes nothing; a miss  *)
(* starts the replica's one load (callers that find it under way join it).  *)

Get(rep) ==
    /\ l1[rep] = {}
    /\ pc[rep] = "idle"
    /\ GoTo(rep, "l2")
    /\ UNCHANGED <<db, l2, l1, val, held>>

(* WalletCache.Refresh: Invalidate removes the L1 entry and deletes the L2  *)
(* snapshot, then loadL2OrDB runs outside groupcache.                       *)

Refresh(s) ==
    /\ pc[s] = "idle"
    /\ l1' = [l1 EXCEPT ![StreamHome[s]] = {}]
    /\ GoTo(s, "del")
    /\ UNCHANGED <<db, l2, val, held>>

Invalidate(s) ==
    /\ pc[s] = "del"
    /\ l2' = {} \/ (ValkeyFails /\ UNCHANGED l2)
    /\ GoTo(s, "l2")
    /\ UNCHANGED <<db, l1, val, held>>

---------------------------------------------------------------------------
(* loadL2OrDB, shared by both.  An error of GET counts as a miss and an     *)
(* error of SET is ignored; only an error of the SELECT is returned.        *)

(* Mutant of GetL2: reading the snapshot renews its TTL.                    *)
GetL2Renews(p) ==
    /\ pc[p] = "l2"
    /\ \/ \E e \in l2 : Holds(p, e.ver, "loaded") /\ l2' = {[ver |-> e.ver, age |-> 0]}
       \/ (l2 = {} \/ ValkeyFails) /\ GoTo(p, "db") /\ UNCHANGED <<l2, val, held>>
    /\ UNCHANGED <<db, l1>>

GetL2(p) ==
    /\ pc[p] = "l2"
    /\ \/ \E e \in l2 : Holds(p, e.ver, "loaded")
       \/ (l2 = {} \/ ValkeyFails) /\ GoTo(p, "db") /\ UNCHANGED <<val, held>>
    /\ UNCHANGED <<db, l2, l1>>

LoadDB(p) ==
    /\ pc[p] = "db"
    /\ Holds(p, version, "set")
    /\ UNCHANGED <<db, l2, l1>>

LoadDBError(p) ==
    /\ pc[p] = "db"
    /\ Done(p)
    /\ UNCHANGED <<db, l2, l1>>

SetL2(p) ==
    /\ pc[p] = "set"
    /\ l2' = {[ver |-> val[p], age |-> 0]} \/ (ValkeyFails /\ UNCHANGED l2)
    /\ GoTo(p, "loaded")
    /\ UNCHANGED <<db, l1, val, held>>

(* The getter stores the value in L1 with a fresh TTL, even when a Refresh  *)
(* has removed the entry in the meantime.                                   *)
Fill(rep) ==
    /\ pc[rep] = "loaded"
    /\ l1' = [l1 EXCEPT ![rep] = {[ver |-> val[rep], age |-> 0]}]
    /\ Done(rep)
    /\ UNCHANGED <<db, l2>>

(* Refresh returns to the delivery, which takes the value as its budget.    *)
Return(s) ==
    /\ pc[s] = "loaded"
    /\ Done(s)
    /\ UNCHANGED <<db, l2, l1>>

---------------------------------------------------------------------------
(* Time.  An entry is gone TTL ticks after it was stored.                   *)

InFlight(p) == pc[p] \in {"set", "loaded"}

(* Mutant of Expire: entries are stored without a TTL.                      *)
NeverExpire(cell) == cell

(* Mutant of Expire: an entry lives one tick too long.                      *)
ExpireLate(cell) ==
    {[ver |-> e.ver, age |-> e.age + 1] : e \in {x \in cell : x.age < TTL}}

Expire(cell) ==
    {[ver |-> e.ver, age |-> e.age + 1] : e \in {x \in cell : x.age + 1 < TTL}}

Older(n) == IF n < LagCap THEN n + 1 ELSE n

Tick ==
    /\ \A p \in Proc : InFlight(p) => held[p] < OpTicks
    /\ since' = [v \in Version |-> IF v < version THEN Older(since[v]) ELSE since[v]]
    /\ l2' = Expire(l2)
    /\ l1' = [rep \in Replica |-> Expire(l1[rep])]
    /\ held' = [p \in Proc |-> IF InFlight(p) THEN held[p] + 1 ELSE held[p]]
    /\ UNCHANGED <<version, dels, pc, val>>

---------------------------------------------------------------------------
LoadStep(p) == GetL2(p) \/ LoadDB(p) \/ LoadDBError(p) \/ SetL2(p)

Next ==
    \/ Debit
    \/ DelSnapshot
    \/ \E rep \in Replica : Get(rep) \/ Fill(rep)
    \/ \E s \in Stream : Refresh(s) \/ Invalidate(s) \/ Return(s)
    \/ \E p \in Proc : LoadStep(p)
    \/ Tick

Spec == Init /\ [][Next]_vars

(* Time does not stop, and a round trip ends.                               *)
Fairness ==
    /\ SF_vars(Tick)
    /\ \A p \in Proc : WF_vars(LoadStep(p))
    /\ \A rep \in Replica : WF_vars(Fill(rep))
    /\ \A s \in Stream : WF_vars(Invalidate(s) \/ Return(s))

FairSpec == Spec /\ Fairness

---------------------------------------------------------------------------
(* Properties.                                                              *)

(* Valkey and each L1 hold at most one snapshot, of some past or present    *)
(* balance and younger than its TTL; a DEL is outstanding only for a debit, *)
(* and no value is held between two round trips longer than OpTicks.        *)
TypeOK ==
    /\ version \in Version
    /\ since \in [Version -> 0 .. LagCap]
    /\ dels \in 0 .. version
    /\ l2 \in Cell
    /\ l1 \in [Replica -> Cell]
    /\ pc \in [Proc -> {"idle", "del", "l2", "db", "set", "loaded"}]
    /\ val \in [Proc -> Version]
    /\ held \in [Proc -> 0 .. OpTicks]

(* The Valkey snapshot is less than TTL + OpTicks behind Postgres, and what *)
(* an admission reads from L1 less than twice that: an entry copied from an *)
(* old snapshot starts a TTL of its own.  Both bounds are the least ones.   *)
L2Staleness == \A e \in l2 : Lag(e.ver) < OpTicks + TTL

L1Staleness == \A rep \in Replica : \A e \in l1[rep] : Lag(e.ver) <= 2 * (OpTicks + TTL - 1)

StalenessBounded == L2Staleness /\ L1Staleness

(* The strengthening: how old a value is wherever it is, as a function of   *)
(* how long it has been there.                                              *)
L2Age == \A e \in l2 : Lag(e.ver) <= OpTicks + e.age

L1Age == \A rep \in Replica : \A e \in l1[rep] :
            Lag(e.ver) < TTL + 2 * OpTicks + e.age

HeldAge == \A p \in Proc :
            /\ pc[p] = "set" => Lag(val[p]) <= held[p]
            /\ pc[p] = "loaded" => Lag(val[p]) < TTL + OpTicks + held[p]

AgesBounded == L2Age /\ L1Age /\ HeldAge

(* Once debits have stopped, every cache comes to hold the latest balance   *)
(* or nothing and stays so, although fills race invalidations, commands     *)
(* fail and DELs get lost: the TTLs repair what the protocol does not.      *)
Coherent ==
    /\ \A e \in l2 : e.ver = version
    /\ \A rep \in Replica : \A e \in l1[rep] : e.ver = version

EventuallyCoherent == <>[]Coherent
=============================================================================

---------------------------- MODULE AccountsProofs ---------------------------
(* Theorems about Accounts, for any number of replicas, requests, accounts,  *)
(* keys and faults.                                                          *)
EXTENDS Accounts, FiniteSetTheorems, TLAPS

---------------------------------------------------------------------------
(* What the responses leave in a request.                                   *)

(* An idle request is a request.                                            *)
LEMMA NoRequestType == NoRequest \in Request
BY DEF NoRequest, Request

(* An error response leaves nothing of the request, and the others alone.   *)
LEMMA RefusedFields ==
    ASSUME NEW c \in Call, call \in [Call -> Request], Refused(c)
    PROVE  /\ call' \in [Call -> Request]
           /\ \A d \in Call \ {c} : call'[d] = call[d]
           /\ call'[c].pc = "refused" /\ call'[c].op = "none" /\ ~call'[c].late /\ call'[c].got = {}
BY DEF Refused, Becomes, NoRequest, Request

(* Going on keeps what the request has.                                     *)
LEMMA GoToFields ==
    ASSUME NEW c \in Call, call \in [Call -> Request], NEW l \in {"key", "ok"}, GoTo(c, l)
    PROVE  /\ call' \in [Call -> Request]
           /\ \A d \in Call \ {c} : call'[d] = call[d]
           /\ call'[c].pc = l /\ call'[c].op = call[c].op /\ call'[c].acct = call[c].acct
           /\ call'[c].pw = call[c].pw /\ call'[c].late = call[c].late /\ call'[c].got = call[c].got
BY DEF GoTo, Becomes, Request

(* A response keeps what the request has and adds the keys.                 *)
LEMMA AnsweredFields ==
    ASSUME NEW c \in Call, call \in [Call -> Request], NEW keys \in SUBSET Key, Answered(c, keys)
    PROVE  /\ call' \in [Call -> Request]
           /\ \A d \in Call \ {c} : call'[d] = call[d]
           /\ call'[c].pc = "ok" /\ call'[c].op = call[c].op /\ call'[c].acct = call[c].acct
           /\ call'[c].pw = call[c].pw /\ call'[c].late = call[c].late /\ call'[c].got = keys
<1>1. /\ call' = [call EXCEPT ![c] = [call[c] EXCEPT !.pc = "ok", !.token = 0, !.got = keys]]
      /\ call[c] \in Request
  BY DEF Answered, Becomes
<1>2. [call[c] EXCEPT !.pc = "ok", !.token = 0, !.got = keys] \in Request
  BY <1>1 DEF Request
<1> QED
  BY <1>1, <1>2 DEF Request

---------------------------------------------------------------------------
(* The inductive invariant.                                                 *)

TablesOK ==
    /\ users \in [Name -> Password \cup {Nobody}]
    /\ wallets \subseteq {n \in Name : users[n] # Nobody}
    /\ owner \in [Key -> {n \in Name : users[n] # Nobody} \cup {Nobody}]
    /\ live \subseteq {k \in Key : owner[k] # Nobody}
    /\ usage \in [Name -> Nat]

RestOK ==
    /\ secrets \subseteq {k \in Key : owner[k] # Nobody}
    /\ boot \in [Replica -> {"select", "user", "wallet", "key", "serving"}]
    /\ call \in [Call -> Request]
    /\ faults \in Nat

(* Past its INSERT a replica has left the default account in place, and     *)
(* nobody else can have put another one there.                              *)
Seeded ==
    /\ users[DefaultName] \in {Nobody, DefaultPassword}
    /\ \A r \in Replica : boot[r] \in {"wallet", "key", "serving"} => users[DefaultName] = DefaultPassword

(* What the statements a request has made have left in the tables.          *)
Backed(c) ==
    /\ call[c].pc \in {"wallet", "key", "handle", "page"} =>
          call[c].acct \in Name /\ users[call[c].acct] # Nobody
    /\ call[c].op = "register" =>
          /\ call[c].pc \in {"wallet", "key", "ok"} =>
                call[c].acct \in Name /\ call[c].pw \in Password /\ users[call[c].acct] = call[c].pw
          /\ call[c].pc \in {"key", "ok"} => call[c].acct \in wallets
    /\ call[c].late => call[c].pc = "auth" /\ call[c].token \notin live
                       /\ call[c].token \in Key /\ owner[call[c].token] # Nobody
    /\ \A k \in call[c].got : owner[k] = call[c].acct /\ owner[k] # Nobody
    /\ call[c].pc # "ok" => call[c].got = {}
    /\ call[c].pc = "wallet" => call[c].op = "register"
    /\ call[c].pc \in {"auth", "handle", "page"} => call[c].op # "register"

Inv == TablesOK /\ RestOK /\ Seeded /\ \A c \in Call : Backed(c)

(* Tables only grow: a user keeps the password, a wallet stays, a key keeps *)
(* its owner and does not come back to life.                                *)
Grows ==
    /\ \A n \in Name : users[n] # Nobody => users'[n] = users[n]
    /\ wallets \subseteq wallets'
    /\ \A k \in Key : owner[k] # Nobody => owner'[k] = owner[k] /\ (k \notin live => k \notin live')

(* The two parts are the type invariant of the runs.                        *)
LEMMA TypesAgree == TypeOK <=> TablesOK /\ RestOK
BY DEF TypeOK, TablesOK, RestOK

(* INSERT INTO users adds one row and touches no other.                     *)
LEMMA InsertUserGrows ==
    ASSUME TablesOK, NEW n \in Name, NEW p \in Password, InsertUser(n, p)
    PROVE  TablesOK' /\ Grows /\ users'[n] = p /\ users[n] = Nobody
           /\ owner' = owner /\ live' = live /\ \A m \in Name \ {n} : users'[m] = users[m]
<1>1. /\ users' = [users EXCEPT ![n] = p] /\ users[n] = Nobody
      /\ wallets' = wallets /\ owner' = owner /\ live' = live /\ usage' = usage
  BY DEF InsertUser
<1>2. \A m \in Name : users[m] # Nobody => users'[m] = users[m] /\ users'[m] # Nobody
  BY <1>1 DEF TablesOK
<1>3. users' \in [Name -> Password \cup {Nobody}]
  BY <1>1 DEF TablesOK
<1>4. wallets' \subseteq {m \in Name : users'[m] # Nobody}
  BY <1>1, <1>2 DEF TablesOK
<1>5. owner' \in [Key -> {m \in Name : users'[m] # Nobody} \cup {Nobody}]
  BY <1>1, <1>2 DEF TablesOK
<1> QED
  BY <1>1, <1>2, <1>3, <1>4, <1>5 DEF TablesOK, Grows

(* INSERT INTO wallets adds a row of an existing user.                      *)
LEMMA InsertWalletGrows ==
    ASSUME TablesOK, NEW n \in Name, users[n] # Nobody, InsertWallet(n)
    PROVE  TablesOK' /\ Grows /\ n \in wallets' /\ users' = users /\ owner' = owner
BY DEF TablesOK, Grows, InsertWallet

(* INSERT INTO api_keys adds a fresh key of an existing user.               *)
LEMMA InsertKeyGrows ==
    ASSUME TablesOK, NEW n \in Name, users[n] # Nobody, NEW k \in Key, InsertKey(n, k)
    PROVE  TablesOK' /\ Grows /\ owner'[k] = n /\ users' = users
<1>1. /\ owner' = [owner EXCEPT ![k] = n] /\ owner[k] = Nobody /\ live' = live \cup {k}
      /\ users' = users /\ wallets' = wallets /\ usage' = usage
  BY DEF InsertKey, Fresh
<1>2. n # Nobody
  BY AccountsAssumption
<1> QED
  BY <1>1, <1>2 DEF TablesOK, Grows

(* The UPDATE of revoked_at takes a key out of live and changes no owner.   *)
LEMMA UpdateRevokedGrows ==
    ASSUME TablesOK, NEW n, NEW k \in Key, UpdateRevoked(n, k)
    PROVE  TablesOK' /\ Grows /\ users' = users /\ owner' = owner
BY DEF TablesOK, Grows, UpdateRevoked, Revocable

(* A step without a statement keeps the tables.                             *)
LEMMA TablesStay ==
    ASSUME TablesOK, UNCHANGED tables
    PROVE  TablesOK' /\ Grows /\ users' = users /\ owner' = owner
BY DEF TablesOK, Grows, tables

(* What a request has left stays, as long as tables only grow.              *)
LEMMA BackedStays ==
    ASSUME TablesOK, TablesOK', Grows, NEW c \in Call, call[c] \in Request, Backed(c), call'[c] = call[c]
    PROVE  Backed(c)'
<1>1. call[c].got \subseteq Key
  BY DEF Request
<1>2. \A k \in call[c].got : owner'[k] = owner[k]
  BY <1>1 DEF Grows, Backed
<1>3. call[c].acct \in Name /\ users[call[c].acct] # Nobody => users'[call[c].acct] = users[call[c].acct]
  BY DEF Grows
<1>4. Nobody \notin Password
  BY AccountsAssumption
<1>5. call[c].op = "register" /\ call[c].pc \in {"wallet", "key", "ok"} =>
          call[c].acct \in Name /\ call[c].pw \in Password /\ users'[call[c].acct] = call[c].pw
  BY <1>3, <1>4 DEF Backed
<1>6. call[c].acct \in wallets => call[c].acct \in wallets'
  BY DEF Grows
<1>7. call[c].late => call[c].token \notin live' /\ owner'[call[c].token] # Nobody
  BY DEF Backed, Grows
<1> DEFINE r == call[c]
<1>8. call'[c] = r /\ call[c] = r
  OBVIOUS
<1> HIDE DEF r
<1> QED
  BY <1>2, <1>3, <1>5, <1>6, <1>7, <1>8 DEF Backed

(* A request that ended with an error has nothing to show.                  *)
LEMMA RefusedBacked ==
    ASSUME NEW c \in Call, call \in [Call -> Request], Refused(c)
    PROVE  Backed(c)'
BY RefusedFields DEF Backed

(* What a step of one request must show.                                    *)
LEMMA CallMoves ==
    ASSUME Inv, TablesOK', Grows, RestOK', Seeded', NEW c \in Call, Backed(c)',
           \A d \in Call \ {c} : call'[d] = call[d]
    PROVE  Inv'
<1>1. ASSUME NEW d \in Call \ {c} PROVE Backed(d)'
  <2>1. call[d] \in Request /\ call'[d] = call[d] /\ Backed(d) /\ TablesOK
    BY DEF Inv, RestOK
  <2> QED
    BY <2>1, BackedStays
<1> QED
  BY <1>1 DEF Inv

(* Secrets and the default account are untouched by a step that leaves      *)
(* them, and the users, alone.                                              *)
LEMMA RestStays ==
    ASSUME Inv, Grows, UNCHANGED <<secrets, boot>>, call' \in [Call -> Request], faults' \in Nat
    PROVE  RestOK'
<1>1. \A k \in secrets : k \in Key /\ owner'[k] # Nobody
  BY DEF Inv, RestOK, Grows
<1> QED
  BY <1>1 DEF Inv, RestOK

(* What is known of the default account depends on its row and the replicas *)
(* only.                                                                    *)
LEMMA SeededStays ==
    ASSUME Inv, UNCHANGED boot, users'[DefaultName] = users[DefaultName]
    PROVE  Seeded'
BY DEF Inv, Seeded

---------------------------------------------------------------------------
(* Seeding.                                                                 *)

(* A step of a replica leaves the requests alone.                           *)
LEMMA ReplicaMoves ==
    ASSUME Inv, TablesOK', Grows, RestOK', Seeded', UNCHANGED call
    PROVE  Inv'
<1>1. ASSUME NEW d \in Call PROVE Backed(d)'
  <2>1. call[d] \in Request /\ call'[d] = call[d] /\ Backed(d) /\ TablesOK
    BY DEF Inv, RestOK
  <2> QED
    BY <2>1, BackedStays
<1> QED
  BY <1>1 DEF Inv

(* The default account is an account.                                       *)
LEMMA DefaultKnown == DefaultName \in Name /\ DefaultPassword \in Password /\ Nobody # DefaultPassword
BY AccountsAssumption

(* A replica that finds the default account serves, and it is the seeded    *)
(* one: nobody registers before a replica serves.                           *)
LEMMA SeedSelectInv == ASSUME Inv, NEW r \in Replica, SeedSelect(r) PROVE Inv'
<1>1. UNCHANGED <<tables, secrets, call, faults>> /\ TablesOK
  BY DEF SeedSelect, Inv
<1>2. TablesOK' /\ Grows /\ users' = users /\ owner' = owner
  BY <1>1, TablesStay
<1>3. boot' = [boot EXCEPT ![r] = IF users[DefaultName] = Nobody THEN "user" ELSE "serving"]
  BY DEF SeedSelect, Step
<1>4. RestOK'
  BY <1>1, <1>2, <1>3 DEF RestOK, Inv
<1>5. Seeded'
  BY <1>2, <1>3 DEF Seeded, Inv, RestOK
<1> QED
  BY <1>1, <1>2, <1>4, <1>5, ReplicaMoves

(* The INSERT of the seeding gives the account its password.                *)
LEMMA SeedUserInv == ASSUME Inv, NEW r \in Replica, SeedUser(r) PROVE Inv'
<1>1. InsertUser(DefaultName, DefaultPassword) /\ UNCHANGED <<secrets, call, faults>> /\ TablesOK
      /\ boot' = [boot EXCEPT ![r] = "wallet"]
  BY DEF SeedUser, Step, Inv
<1>2. TablesOK' /\ Grows /\ users'[DefaultName] = DefaultPassword /\ owner' = owner
  BY <1>1, InsertUserGrows, DefaultKnown
<1>3. RestOK'
  BY <1>1, <1>2 DEF RestOK, Inv
<1>4. Seeded'
  BY <1>2 DEF Seeded
<1> QED
  BY <1>1, <1>2, <1>3, <1>4, ReplicaMoves

(* The wallet of the default account.                                       *)
LEMMA SeedWalletInv == ASSUME Inv, NEW r \in Replica, SeedWallet(r) PROVE Inv'
<1>1. InsertWallet(DefaultName) /\ UNCHANGED <<secrets, call, faults>> /\ TablesOK /\ boot[r] = "wallet"
      /\ boot' = [boot EXCEPT ![r] = "key"]
  BY DEF SeedWallet, Step, Inv
<1>2. users[DefaultName] = DefaultPassword
  BY <1>1 DEF Inv, Seeded
<1>3. TablesOK' /\ Grows /\ users' = users /\ owner' = owner
  BY <1>1, <1>2, InsertWalletGrows, DefaultKnown
<1>4. RestOK'
  BY <1>1, <1>3 DEF RestOK, Inv
<1>5. Seeded'
  BY <1>2, <1>3 DEF Seeded
<1> QED
  BY <1>1, <1>3, <1>4, <1>5, ReplicaMoves

(* The key of the default account.                                          *)
LEMMA SeedKeyInv == ASSUME Inv, NEW r \in Replica, SeedKey(r) PROVE Inv'
<1>1. PICK k \in Key : InsertKey(DefaultName, k) /\ secrets' = secrets \cup {k}
  BY DEF SeedKey
<1>2. UNCHANGED <<call, faults>> /\ TablesOK /\ boot[r] = "key" /\ boot' = [boot EXCEPT ![r] = "serving"]
  BY DEF SeedKey, Step, Inv
<1>3. users[DefaultName] = DefaultPassword
  BY <1>2 DEF Inv, Seeded
<1>4. TablesOK' /\ Grows /\ users' = users /\ owner'[k] = DefaultName
  BY <1>1, <1>2, <1>3, InsertKeyGrows, DefaultKnown
<1>5. \A j \in secrets' : j \in Key /\ owner'[j] # Nobody
  BY <1>1, <1>4, DefaultKnown, AccountsAssumption DEF Inv, RestOK, Grows
<1>6. RestOK'
  BY <1>2, <1>5 DEF RestOK, Inv
<1>7. Seeded'
  BY <1>3, <1>4 DEF Seeded
<1> QED
  BY <1>2, <1>4, <1>6, <1>7, ReplicaMoves

(* A replica that lost the race starts again.                               *)
LEMMA SeedConflictInv == ASSUME Inv, NEW r \in Replica, SeedConflict(r) PROVE Inv'
<1>1. UNCHANGED <<tables, secrets, call, faults>> /\ TablesOK /\ boot' = [boot EXCEPT ![r] = "select"]
  BY DEF SeedConflict, Step, Inv
<1>2. TablesOK' /\ Grows /\ users' = users /\ owner' = owner
  BY <1>1, TablesStay
<1>3. RestOK'
  BY <1>1, <1>2 DEF RestOK, Inv
<1>4. Seeded'
  BY <1>1, <1>2 DEF Seeded, Inv, RestOK
<1> QED
  BY <1>1, <1>2, <1>3, <1>4, ReplicaMoves

(* A replica stops, its last statement done or not.                         *)
LEMMA RestartInv == ASSUME Inv, NEW r \in Replica, Restart(r) PROVE Inv'
<1>1. UNCHANGED <<secrets, call>> /\ TablesOK /\ boot' = [boot EXCEPT ![r] = "select"] /\ faults' = faults + 1
  BY DEF Restart, Step, Inv, Fault
<1>2. /\ TablesOK' /\ Grows
      /\ users'[DefaultName] = users[DefaultName] \/ users'[DefaultName] = DefaultPassword
  <2>1. CASE UNCHANGED tables
    BY <1>1, <2>1, TablesStay
  <2>2. CASE InsertUser(DefaultName, DefaultPassword)
    BY <1>1, <2>2, InsertUserGrows, DefaultKnown
  <2>3. CASE boot[r] = "wallet" /\ InsertWallet(DefaultName)
    BY <1>1, <2>3, InsertWalletGrows, DefaultKnown DEF Inv, Seeded
  <2>4. CASE boot[r] = "key" /\ \E k \in Key : InsertKey(DefaultName, k)
    BY <1>1, <2>4, InsertKeyGrows, DefaultKnown DEF Inv, Seeded
  <2> QED
    BY <2>1, <2>2, <2>3, <2>4 DEF Restart
<1>3. RestOK'
  BY <1>1, <1>2 DEF RestOK, Inv, Grows
<1>4. Seeded'
  BY <1>1, <1>2, DefaultKnown DEF Seeded, Inv, RestOK
<1> QED
  BY <1>1, <1>2, <1>3, <1>4, ReplicaMoves

(* A failed statement ends the request, whatever it did to the tables.      *)
LEMMA BreaksInv ==
    ASSUME Inv, TablesOK', Grows, users'[DefaultName] = users[DefaultName], NEW c \in Call, Breaks(c)
    PROVE  Inv'
<1>1. Refused(c) /\ UNCHANGED <<secrets, boot>> /\ faults' \in Nat /\ call \in [Call -> Request]
  BY DEF Breaks, Fault, Inv, RestOK
<1>2. call' \in [Call -> Request] /\ \A d \in Call \ {c} : call'[d] = call[d]
  BY <1>1, RefusedFields
<1>3. RestOK' /\ Seeded' /\ Backed(c)'
  BY <1>1, <1>2, RestStays, SeededStays, RefusedBacked
<1> QED
  BY <1>2, <1>3, CallMoves

(* So does any other error.                                                 *)
LEMMA RefusedInv ==
    ASSUME Inv, NEW c \in Call, Refused(c), UNCHANGED <<tables, secrets, boot, faults>>
    PROVE  Inv'
<1>1. call \in [Call -> Request] /\ faults' \in Nat /\ TablesOK /\ UNCHANGED tables
  BY DEF Inv, RestOK
<1>2. TablesOK' /\ Grows /\ users' = users
  BY <1>1, TablesStay
<1>3. call' \in [Call -> Request] /\ \A d \in Call \ {c} : call'[d] = call[d]
  BY <1>1, RefusedFields
<1>4. RestOK' /\ Seeded' /\ Backed(c)'
  BY <1>1, <1>2, <1>3, RestStays, SeededStays, RefusedBacked
<1> QED
  BY <1>2, <1>3, <1>4, CallMoves

---------------------------------------------------------------------------
(* Requests.                                                                *)

(* The name of the default account is taken while somebody serves.          *)
LEMMA NotTheDefault ==
    ASSUME Inv, Serving, NEW n \in Name, users[n] = Nobody
    PROVE  n # DefaultName
BY DefaultKnown DEF Inv, Seeded, Serving

(* The first INSERT of a registration; it cannot take the default name, as  *)
(* a replica serves.                                                        *)
LEMMA RegisterInv == ASSUME Inv, NEW c \in Call, NEW n \in Name, NEW p \in Password, Register(c, n, p) PROVE Inv'
<1>1. TablesOK /\ call \in [Call -> Request] /\ Serving /\ faults \in Nat
  BY DEF Inv, RestOK, Register
<1>2. InsertUser(n, p) => TablesOK' /\ Grows /\ users'[n] = p /\ users'[DefaultName] = users[DefaultName]
  <2> SUFFICES ASSUME InsertUser(n, p)
               PROVE  TablesOK' /\ Grows /\ users'[n] = p /\ users'[DefaultName] = users[DefaultName]
    OBVIOUS
  <2>1. TablesOK' /\ Grows /\ users'[n] = p /\ users[n] = Nobody /\ \A m \in Name \ {n} : users'[m] = users[m]
    BY <1>1, InsertUserGrows
  <2> QED
    BY <1>1, <2>1, NotTheDefault, DefaultKnown
<1> DEFINE q == [NoRequest EXCEPT !.pc = "wallet", !.op = "register", !.acct = n, !.pw = p]
<1>3. CASE InsertUser(n, p) /\ Becomes(c, q) /\ UNCHANGED <<secrets, boot, faults>>
  <2>1. q \in Request /\ q.pc = "wallet" /\ q.op = "register" /\ q.acct = n /\ q.pw = p /\ ~q.late /\ q.got = {}
    BY DEF NoRequest, Request
  <2> HIDE DEF q
  <2>2. call' \in [Call -> Request] /\ call'[c] = q /\ \A d \in Call \ {c} : call'[d] = call[d]
    BY <1>1, <1>3, <2>1 DEF Becomes
  <2>3. Backed(c)'
    BY <1>2, <1>3, <2>1, <2>2, AccountsAssumption DEF Backed
  <2> QED
    BY <1>1, <1>2, <1>3, <2>2, <2>3, CallMoves, RestStays, SeededStays
<1>4. CASE Refused(c) /\ UNCHANGED <<tables, secrets, boot, faults>>
  BY <1>4, RefusedInv
<1>5. CASE Breaks(c) /\ InsertUser(n, p)
  BY <1>2, <1>5, BreaksInv
<1>6. CASE Breaks(c) /\ UNCHANGED tables
  BY <1>1, <1>6, BreaksInv, TablesStay
<1> QED
  BY <1>3, <1>4, <1>5, <1>6 DEF Register

(* The second INSERT of a registration.                                     *)
LEMMA RegisterWalletInv == ASSUME Inv, NEW c \in Call, RegisterWallet(c) PROVE Inv'
<1>1. TablesOK /\ call \in [Call -> Request] /\ faults \in Nat /\ Backed(c) /\ call[c].pc = "wallet"
  BY DEF Inv, RestOK, RegisterWallet
<1>2. call[c].acct \in Name /\ users[call[c].acct] # Nobody
  BY <1>1 DEF Backed
<1>3. InsertWallet(call[c].acct) => TablesOK' /\ Grows /\ call[c].acct \in wallets' /\ users' = users
  BY <1>1, <1>2, InsertWalletGrows
<1>4. CASE InsertWallet(call[c].acct) /\ GoTo(c, "key") /\ UNCHANGED <<secrets, boot, faults>>
  <2>1. /\ call' \in [Call -> Request] /\ \A d \in Call \ {c} : call'[d] = call[d]
        /\ call'[c].pc = "key" /\ call'[c].op = call[c].op /\ call'[c].acct = call[c].acct
        /\ call'[c].pw = call[c].pw /\ call'[c].late = call[c].late /\ call'[c].got = call[c].got
    BY <1>1, <1>4, GoToFields
  <2>2. owner' = owner
    BY <1>4 DEF InsertWallet
  <2>3. Backed(c)'
    BY <1>1, <1>2, <1>3, <1>4, <2>1, <2>2 DEF Backed
  <2> QED
    BY <1>1, <1>3, <1>4, <2>1, <2>3, CallMoves, RestStays, SeededStays
<1>5. CASE Breaks(c) /\ InsertWallet(call[c].acct)
  BY <1>3, <1>5, BreaksInv
<1>6. CASE Breaks(c) /\ UNCHANGED tables
  BY <1>1, <1>6, BreaksInv, TablesStay
<1> QED
  BY <1>4, <1>5, <1>6 DEF RegisterWallet

(* A login that succeeds is of an account that exists.                      *)
LEMMA LoginInv == ASSUME Inv, NEW c \in Call, NEW n \in Name, NEW p \in Password, Login(c, n, p) PROVE Inv'
<1>1. TablesOK /\ call \in [Call -> Request] /\ faults \in Nat /\ UNCHANGED <<tables, secrets, boot, faults>>
  BY DEF Inv, RestOK, Login, Authenticates
<1>2. TablesOK' /\ Grows /\ users' = users
  BY <1>1, TablesStay
<1> DEFINE q == [NoRequest EXCEPT !.pc = "key", !.op = "login", !.acct = n]
<1>3. CASE users[n] = p /\ Becomes(c, q)
  <2>1. q \in Request /\ q.pc = "key" /\ q.op = "login" /\ q.acct = n /\ ~q.late /\ q.got = {}
    BY DEF NoRequest, Request
  <2> HIDE DEF q
  <2>2. call' \in [Call -> Request] /\ call'[c] = q /\ \A d \in Call \ {c} : call'[d] = call[d]
    BY <1>1, <1>3, <2>1 DEF Becomes
  <2>3. Backed(c)'
    BY <1>2, <1>3, <2>1, <2>2, AccountsAssumption DEF Backed
  <2> QED
    BY <1>1, <1>2, <2>2, <2>3, CallMoves, RestStays, SeededStays
<1>4. CASE Refused(c)
  BY <1>1, <1>4, RefusedInv
<1> QED
  BY <1>3, <1>4 DEF Login, Authenticates

(* An answer of a request that holds a live account.                        *)
LEMMA AnsweredInv ==
    ASSUME Inv, TablesOK', Grows, users' = users, NEW c \in Call, NEW keys \in SUBSET Key,
           call[c].pc \in {"key", "handle"}, Answered(c, keys), UNCHANGED <<boot, faults>>,
           \A k \in keys : owner'[k] = call[c].acct /\ owner'[k] # Nobody,
           \A k \in secrets' : k \in Key /\ owner'[k] # Nobody
    PROVE  Inv'
<1>1. call \in [Call -> Request] /\ Backed(c)
  BY DEF Inv, RestOK
<1>2. /\ call' \in [Call -> Request] /\ \A d \in Call \ {c} : call'[d] = call[d]
      /\ call'[c].pc = "ok" /\ call'[c].op = call[c].op /\ call'[c].acct = call[c].acct
      /\ call'[c].pw = call[c].pw /\ call'[c].late = call[c].late /\ call'[c].got = keys
  BY <1>1, AnsweredFields
<1>3. ~call[c].late
  BY <1>1 DEF Backed
<1>4. call[c].op = "register" => call[c].acct \in wallets' /\ users'[call[c].acct] = call[c].pw
                                 /\ call[c].acct \in Name /\ call[c].pw \in Password
  BY <1>1 DEF Backed, Grows
<1>5. Backed(c)'
  BY <1>2, <1>3, <1>4 DEF Backed
<1>6. RestOK' /\ Seeded'
  BY <1>2 DEF Inv, RestOK, Seeded
<1> QED
  BY <1>2, <1>5, <1>6, CallMoves

(* The key goes to the account of the request.                              *)
LEMMA CreateAPIKeyInv == ASSUME Inv, NEW c \in Call, CreateAPIKey(c) PROVE Inv'
<1>1. TablesOK /\ Backed(c) /\ call[c].pc = "key" /\ secrets \subseteq {k \in Key : owner[k] # Nobody}
  BY DEF Inv, RestOK, CreateAPIKey
<1>2. call[c].acct \in Name /\ users[call[c].acct] # Nobody /\ call[c].acct # Nobody
  BY <1>1, AccountsAssumption DEF Backed
<1>3. \A k \in Key : InsertKey(call[c].acct, k) => TablesOK' /\ Grows /\ owner'[k] = call[c].acct /\ users' = users
  BY <1>1, <1>2, InsertKeyGrows
<1>4. CASE \E k \in Key : InsertKey(call[c].acct, k) /\ secrets' = secrets \cup {k} /\ Answered(c, {k})
           /\ UNCHANGED <<boot, faults>>
  <2>1. PICK k \in Key : InsertKey(call[c].acct, k) /\ secrets' = secrets \cup {k} /\ Answered(c, {k})
                         /\ UNCHANGED <<boot, faults>>
    BY <1>4
  <2>2. TablesOK' /\ Grows /\ owner'[k] = call[c].acct /\ users' = users
    BY <1>3, <2>1
  <2>3. \A j \in secrets' : j \in Key /\ owner'[j] # Nobody
    BY <1>1, <1>2, <2>1, <2>2 DEF Grows
  <2>4. {k} \in SUBSET Key /\ \A j \in {k} : owner'[j] = call[c].acct /\ owner'[j] # Nobody
    BY <1>2, <2>2
  <2> QED
    BY <1>1, <2>1, <2>2, <2>3, <2>4, AnsweredInv
<1>5. CASE Breaks(c) /\ UNCHANGED tables
  BY <1>1, <1>5, BreaksInv, TablesStay
<1>6. CASE Breaks(c) /\ \E k \in Key : InsertKey(call[c].acct, k)
  BY <1>3, <1>6, BreaksInv
<1> QED
  BY <1>4, <1>5, <1>6 DEF CreateAPIKey

(* A request notes whether its key is revoked already; revoked, it stays    *)
(* so.                                                                      *)
LEMMA SendInv == ASSUME Inv, NEW c \in Call, NEW op \in Open, NEW k \in secrets \cup {0}, Send(c, op, k) PROVE Inv'
<1>1. TablesOK /\ call \in [Call -> Request] /\ faults \in Nat /\ UNCHANGED <<tables, secrets, boot, faults>>
      /\ secrets \subseteq {j \in Key : owner[j] # Nobody}
  BY DEF Inv, RestOK, Send
<1>2. TablesOK' /\ Grows /\ users' = users /\ owner' = owner /\ live' = live
  BY <1>1, TablesStay DEF tables
<1> DEFINE q == [NoRequest EXCEPT !.pc = "auth", !.op = op, !.token = k, !.late = k # 0 /\ k \notin live]
<1>3. q \in Request /\ q.pc = "auth" /\ q.op = op /\ q.token = k /\ q.got = {}
  BY <1>1 DEF NoRequest, Request, Open
<1>4. q.late => k # 0 /\ k \notin live
  BY DEF NoRequest
<1>5. Becomes(c, q)
  BY DEF Send
<1> HIDE DEF q
<1>6. call' \in [Call -> Request] /\ call'[c] = q /\ \A d \in Call \ {c} : call'[d] = call[d]
  BY <1>1, <1>3, <1>5 DEF Becomes
<1>7. op # "register"
  BY DEF Open
<1>8. Backed(c)'
  BY <1>1, <1>2, <1>3, <1>4, <1>6, <1>7 DEF Backed
<1> QED
  BY <1>1, <1>2, <1>6, <1>8, CallMoves, RestStays, SeededStays

(* Only a live key lets a request pass, so none that was late.              *)
LEMMA AuthorizeInv == ASSUME Inv, NEW c \in Call, Authorize(c) PROVE Inv'
<1>1. TablesOK /\ call \in [Call -> Request] /\ faults \in Nat /\ UNCHANGED <<tables, secrets, boot, faults>>
      /\ call[c] \in Request /\ Backed(c) /\ call[c].pc = "auth"
  BY DEF Inv, RestOK, Authorize
<1>2. TablesOK' /\ Grows /\ users' = users /\ owner' = owner
  BY <1>1, TablesStay
<1> DEFINE l == IF call[c].op = "create" THEN "key" ELSE "handle"
           n == owner[call[c].token]
           q == [call[c] EXCEPT !.pc = l, !.acct = n]
<1>3. CASE Resolves(call[c].token) /\ Becomes(c, q)
  <2>1. call[c].token \in Key /\ n \in Name /\ users[n] # Nobody /\ ~call[c].late
    BY <1>1, <1>3 DEF Resolves, TablesOK, Backed
  <2>2. l \in {"key", "handle"}
    OBVIOUS
  <2> HIDE DEF l, n
  <2>3. q \in Request /\ q.pc = l /\ q.acct = n /\ q.op = call[c].op /\ q.late = call[c].late /\ q.got = call[c].got
    BY <1>1, <2>1, <2>2 DEF Request
  <2> HIDE DEF q
  <2>4. call' \in [Call -> Request] /\ call'[c] = q /\ \A d \in Call \ {c} : call'[d] = call[d]
    BY <1>1, <1>3, <2>3 DEF Becomes
  <2>5. q.op # "register" /\ ~q.late
    BY <1>1, <2>1, <2>3 DEF Backed
  <2>6. q.got = {}
    BY <1>1, <2>3 DEF Backed
  <2>7. Backed(c)'
    BY <1>2, <2>1, <2>2, <2>3, <2>4, <2>5, <2>6 DEF Backed
  <2> QED
    BY <1>1, <1>2, <2>4, <2>7, CallMoves, RestStays, SeededStays
<1>4. CASE Refused(c)
  BY <1>1, <1>4, RefusedInv
<1> QED
  BY <1>3, <1>4 DEF Authorize

(* The answer lists the own keys.                                           *)
LEMMA ListInv == ASSUME Inv, NEW c \in Call, ListAPIKeys(c) PROVE Inv'
<1>1. TablesOK /\ Backed(c) /\ call[c].pc = "handle" /\ UNCHANGED <<tables, secrets, boot, faults>>
      /\ secrets \subseteq {k \in Key : owner[k] # Nobody}
  BY DEF Inv, RestOK, ListAPIKeys, KeysOf, Handles
<1>2. TablesOK' /\ Grows /\ users' = users /\ owner' = owner
  BY <1>1, TablesStay
<1>3. call[c].acct # Nobody
  BY <1>1, AccountsAssumption DEF Backed
<1> DEFINE keys == {k \in Key : owner[k] = call[c].acct}
<1>4. Answered(c, keys) /\ keys \in SUBSET Key /\ \A k \in keys : owner'[k] = call[c].acct /\ owner'[k] # Nobody
  BY <1>2, <1>3 DEF ListAPIKeys, KeysOf
<1> HIDE DEF keys
<1> QED
  BY <1>1, <1>2, <1>4, AnsweredInv

(* An answer without keys that follows a revocation, or nothing.            *)
LEMMA BareAnswerInv ==
    ASSUME Inv, TablesOK', Grows, users' = users, owner' = owner, NEW c \in Call, call[c].pc = "handle",
           Answered(c, {}), UNCHANGED <<secrets, boot, faults>>
    PROVE  Inv'
<1>1. \A k \in secrets' : k \in Key /\ owner'[k] # Nobody
  BY DEF Inv, RestOK
<1>2. {} \in SUBSET Key /\ \A k \in {} : owner'[k] = call[c].acct /\ owner'[k] # Nobody
  OBVIOUS
<1> QED
  BY <1>1, <1>2, AnsweredInv

(* A revocation leaves every owner, and what others hold, in place.         *)
LEMMA RevokeInv == ASSUME Inv, NEW c \in Call, NEW k \in Key, RevokeAPIKey(c, k) PROVE Inv'
<1>1. TablesOK /\ call[c].pc = "handle"
  BY DEF Inv, RevokeAPIKey, Handles
<1>2. UpdateRevoked(call[c].acct, k) => TablesOK' /\ Grows /\ users' = users /\ owner' = owner
  BY <1>1, UpdateRevokedGrows
<1>3. CASE UpdateRevoked(call[c].acct, k) /\ Answered(c, {}) /\ UNCHANGED <<secrets, boot, faults>>
  BY <1>1, <1>2, <1>3, BareAnswerInv
<1>4. CASE Refused(c) /\ UNCHANGED <<tables, secrets, boot, faults>>
  BY <1>4, RefusedInv
<1>5. CASE Breaks(c) /\ UpdateRevoked(call[c].acct, k)
  BY <1>2, <1>5, BreaksInv
<1> QED
  BY <1>3, <1>4, <1>5 DEF RevokeAPIKey

(* GetWallet reads.                                                         *)
LEMMA GetWalletInv == ASSUME Inv, NEW c \in Call, GetWallet(c) PROVE Inv'
<1>1. TablesOK /\ call[c].pc = "handle" /\ Answered(c, {}) /\ UNCHANGED <<tables, secrets, boot, faults>>
  BY DEF Inv, GetWallet, Handles
<1> QED
  BY <1>1, TablesStay, BareAnswerInv

(* ListUsage reads.                                                         *)
LEMMA UsageInv ==
    ASSUME Inv, NEW c \in Call, CountUsage(c) \/ PageUsage(c) \/ \E n \in 0 .. Limit : PageCut(c, n)
    PROVE  Inv'
<1>1. TablesOK /\ call \in [Call -> Request] /\ faults \in Nat /\ UNCHANGED <<tables, secrets, boot, faults>>
      /\ call[c] \in Request /\ Backed(c) /\ call[c].pc \in {"handle", "page"}
  BY DEF Inv, RestOK, CountUsage, PageUsage, PageCut, Handles
<1>2. TablesOK' /\ Grows /\ users' = users /\ owner' = owner
  BY <1>1, TablesStay
<1>3. usage[call[c].acct] \in Nat
  BY <1>1 DEF Backed, TablesOK
<1>4. Rows(usage[call[c].acct], Limit, Offset) \in Nat
  BY <1>3, AccountsAssumption DEF Rows
<1>5. PICK q : /\ Becomes(c, q) /\ q \in Request /\ q.pc \in {"page", "ok"} /\ q.op = call[c].op
               /\ q.acct = call[c].acct /\ q.late = call[c].late /\ q.got = call[c].got
  <2>1. CASE CountUsage(c)
    <3> DEFINE q == [call[c] EXCEPT !.pc = "page", !.total = usage[call[c].acct]]
    <3>1. /\ q \in Request /\ q.pc = "page" /\ q.op = call[c].op
          /\ q.acct = call[c].acct /\ q.late = call[c].late /\ q.got = call[c].got
      BY <1>1, <1>3 DEF Request
    <3>2. Becomes(c, q)
      BY <2>1 DEF CountUsage
    <3> HIDE DEF q
    <3> QED
      BY <3>1, <3>2
  <2>2. CASE PageUsage(c)
    <3> DEFINE n == Rows(usage[call[c].acct], Limit, Offset)
               q == [call[c] EXCEPT !.pc = "ok", !.token = 0, !.items = n]
    <3>1. Becomes(c, q) /\ n \in Nat
      BY <1>4, <2>2 DEF PageUsage
    <3> HIDE DEF n
    <3>2. /\ q \in Request /\ q.pc = "ok" /\ q.op = call[c].op
          /\ q.acct = call[c].acct /\ q.late = call[c].late /\ q.got = call[c].got
      BY <1>1, <3>1 DEF Request
    <3> HIDE DEF q
    <3> QED
      BY <3>1, <3>2
  <2>3. ASSUME NEW n \in 0 .. Limit, PageCut(c, n)
        PROVE  \E q : /\ Becomes(c, q) /\ q \in Request /\ q.pc \in {"page", "ok"} /\ q.op = call[c].op
                      /\ q.acct = call[c].acct /\ q.late = call[c].late /\ q.got = call[c].got
    <3> DEFINE q == [call[c] EXCEPT !.pc = "ok", !.token = 0, !.items = n, !.cut = TRUE]
    <3>0. n \in Nat
      OBVIOUS
    <3>1. Becomes(c, q)
      BY <2>3 DEF PageCut
    <3>2. /\ q \in Request /\ q.pc = "ok" /\ q.op = call[c].op
          /\ q.acct = call[c].acct /\ q.late = call[c].late /\ q.got = call[c].got
      BY <1>1, <3>0 DEF Request
    <3> HIDE DEF q
    <3> QED
      BY <3>1, <3>2
  <2> QED
    BY <2>1, <2>2, <2>3
<1>6. call' \in [Call -> Request] /\ call'[c] = q /\ \A d \in Call \ {c} : call'[d] = call[d]
  BY <1>1, <1>5 DEF Becomes
<1>7. call[c].op # "register" /\ ~call[c].late /\ call[c].acct \in Name /\ users[call[c].acct] # Nobody
  BY <1>1 DEF Backed
<1>8. Backed(c)'
  BY <1>1, <1>2, <1>5, <1>6, <1>7 DEF Backed
<1> QED
  BY <1>1, <1>2, <1>6, <1>8, CallMoves, RestStays, SeededStays

(* A usage row changes nothing the invariant speaks of but its count.       *)
LEMMA MeterInv == ASSUME Inv, NEW n \in Name, Meter(n) PROVE Inv'
<1>1. UNCHANGED <<users, wallets, owner, live, secrets, boot, call, faults>>
      /\ usage' = [usage EXCEPT ![n] = @ + 1] /\ TablesOK
  BY DEF Inv, Meter
<1>2. TablesOK' /\ Grows
  BY <1>1 DEF TablesOK, Grows
<1>3. RestOK' /\ Seeded'
  BY <1>1 DEF Inv, RestOK, Seeded
<1> QED
  BY <1>1, <1>2, <1>3, ReplicaMoves

---------------------------------------------------------------------------
(* The invariant holds of the empty database.                               *)
LEMMA InvInit == Init => Inv
<1> SUFFICES ASSUME Init PROVE Inv
  OBVIOUS
<1>1. TablesOK /\ RestOK
  BY NoRequestType DEF Init, TablesOK, RestOK
<1>2. Seeded
  BY DefaultKnown DEF Init, Seeded
<1>3. ASSUME NEW c \in Call PROVE Backed(c)
  BY DEF Init, Backed, NoRequest
<1> QED
  BY <1>1, <1>2, <1>3 DEF Inv

(* Every step keeps the invariant.                                          *)
LEMMA InvNext == Inv /\ [Next]_vars => Inv'
<1> SUFFICES ASSUME Inv, [Next]_vars PROVE Inv'
  OBVIOUS
<1>1. ASSUME NEW r \in Replica,
             \/ SeedSelect(r) \/ SeedUser(r) \/ SeedWallet(r) \/ SeedKey(r)
             \/ SeedConflict(r) \/ Restart(r)
      PROVE  Inv'
  BY <1>1, SeedSelectInv, SeedUserInv, SeedWalletInv, SeedKeyInv, SeedConflictInv, RestartInv
<1>2. ASSUME NEW c \in Call,
             \/ \E n \in Name, p \in Password : Register(c, n, p) \/ Login(c, n, p)
             \/ RegisterWallet(c) \/ CreateAPIKey(c)
      PROVE  Inv'
  BY <1>2, RegisterInv, LoginInv, RegisterWalletInv, CreateAPIKeyInv
<1>3. ASSUME NEW c \in Call,
             \/ \E op \in Open, k \in secrets \cup {0} : Send(c, op, k)
             \/ Authorize(c)
      PROVE  Inv'
  BY <1>3, SendInv, AuthorizeInv
<1>4. ASSUME NEW c \in Call,
             \/ ListAPIKeys(c) \/ GetWallet(c) \/ CountUsage(c) \/ PageUsage(c)
             \/ \E n \in 0 .. Limit : PageCut(c, n)
             \/ \E k \in Key : RevokeAPIKey(c, k)
             \/ HandlerError(c)
      PROVE  Inv'
  BY <1>4, ListInv, GetWalletInv, UsageInv, RevokeInv, RefusedInv DEF HandlerError
<1>5. ASSUME NEW n \in Name, Meter(n) PROVE Inv'
  BY <1>5, MeterInv
<1>6. CASE UNCHANGED vars
  BY <1>6 DEF vars, Inv, TablesOK, RestOK, Seeded, Backed
<1> QED
  BY <1>1, <1>2, <1>3, <1>4, <1>5, <1>6 DEF Next, Idle

(* Every behaviour keeps to the types and the foreign keys.                 *)
THEOREM TypeCorrect == Spec => []TypeOK
<1>1. Inv => TypeOK
  BY TypesAgree DEF Inv
<1> QED
  BY <1>1, InvInit, InvNext, PTL DEF Spec

(* An account answered 201 is complete and the client's own, for any number *)
(* of competing registrations, replicas and failed statements.              *)
THEOREM CreatedTheorem == Spec => []CreatedIsComplete
<1>1. Inv => CreatedIsComplete
  BY DEF Inv, Backed, CreatedIsComplete
<1> QED
  BY <1>1, InvInit, InvNext, PTL DEF Spec

(* Whoever serves finds the default account in place, however many          *)
(* replicas start, race and stop.                                           *)
THEOREM SeededTheorem == Spec => []DefaultSeeded
<1>1. Inv => DefaultSeeded
  BY DEF Inv, Seeded, DefaultSeeded, Serving
<1> QED
  BY <1>1, InvInit, InvNext, PTL DEF Spec

(* A request sent with a revoked key gets past BearerMiddleware in no       *)
(* behaviour.                                                               *)
THEOREM RevokedOutTheorem == Spec => []RevokedStaysOut
<1>1. Inv => RevokedStaysOut
  BY DEF Inv, Backed, RevokedStaysOut
<1> QED
  BY <1>1, InvInit, InvNext, PTL DEF Spec

---------------------------------------------------------------------------
(* Who revokes.                                                             *)

KeysKept ==
    \A k \in Key :
        /\ owner[k] # Nobody => owner'[k] = owner[k]
        /\ k \notin live /\ owner[k] # Nobody => k \notin live'
        /\ k \in live => k \in live'

(* No statement but the UPDATE of revoked_at touches a key that exists.     *)
LEMMA KeptByStatements ==
    ASSUME TablesOK
    PROVE  /\ UNCHANGED <<owner, live>> => KeysKept
           /\ UNCHANGED tables => KeysKept
           /\ \A n, p : InsertUser(n, p) => KeysKept
           /\ \A n : InsertWallet(n) => KeysKept
           /\ \A n, k : k \in Key /\ InsertKey(n, k) => KeysKept
<1>1. UNCHANGED <<owner, live>> => KeysKept
  BY DEF KeysKept
<1>2. UNCHANGED tables => KeysKept
  BY <1>1 DEF tables
<1>3. \A n, p : InsertUser(n, p) => KeysKept
  BY <1>1 DEF InsertUser
<1>4. \A n : InsertWallet(n) => KeysKept
  BY <1>1 DEF InsertWallet
<1>5. ASSUME NEW n, NEW k \in Key, InsertKey(n, k) PROVE KeysKept
  BY <1>5 DEF InsertKey, Fresh, KeysKept, TablesOK
<1> QED
  BY <1>1, <1>2, <1>3, <1>4, <1>5

(* Every step but RevokeAPIKey keeps the keys.                              *)
LEMMA KeptOrRevoked ==
    ASSUME TablesOK, [Next]_vars
    PROVE  KeysKept \/ \E c \in Call, k \in Key : RevokeAPIKey(c, k)
<1>1. ASSUME NEW r \in Replica,
             \/ SeedSelect(r) \/ SeedUser(r) \/ SeedWallet(r) \/ SeedKey(r)
             \/ SeedConflict(r) \/ Restart(r)
      PROVE  KeysKept
  BY <1>1, KeptByStatements DEF SeedSelect, SeedUser, SeedWallet, SeedKey, SeedConflict, Restart
<1>2. ASSUME NEW c \in Call,
             \/ \E n \in Name, p \in Password : Register(c, n, p) \/ Login(c, n, p)
             \/ RegisterWallet(c) \/ CreateAPIKey(c)
      PROVE  KeysKept
  <2>1. CASE \E n \in Name, p \in Password : Register(c, n, p)
    BY <2>1, KeptByStatements DEF Register
  <2>2. CASE \E n \in Name, p \in Password : Login(c, n, p)
    BY <2>2, KeptByStatements DEF Login
  <2>3. CASE RegisterWallet(c)
    BY <2>3, KeptByStatements DEF RegisterWallet
  <2>4. CASE CreateAPIKey(c)
    BY <2>4, KeptByStatements DEF CreateAPIKey
  <2> QED
    BY <1>2, <2>1, <2>2, <2>3, <2>4
<1>3. ASSUME NEW c \in Call,
             \/ \E op \in Open, k \in secrets \cup {0} : Send(c, op, k)
             \/ Authorize(c) \/ ListAPIKeys(c) \/ GetWallet(c) \/ CountUsage(c) \/ PageUsage(c)
             \/ \E n \in 0 .. Limit : PageCut(c, n)
             \/ HandlerError(c)
      PROVE  KeysKept
  <2>1. UNCHANGED tables
    BY <1>3 DEF Send, Authorize, ListAPIKeys, GetWallet, CountUsage, PageUsage, PageCut, HandlerError
  <2> QED
    BY <2>1, KeptByStatements
<1>4. ASSUME NEW n \in Name, Meter(n) PROVE KeysKept
  BY <1>4, KeptByStatements DEF Meter
<1>5. CASE UNCHANGED vars
  BY <1>5, KeptByStatements DEF vars
<1> QED
  BY <1>1, <1>2, <1>3, <1>4, <1>5 DEF Next, Idle

(* Only a request of its owner takes a key out of use, for good.            *)
THEOREM RevokedByOwnerTheorem == Spec => RevokedByOwner
<1> DEFINE ByOwner ==
             \A k \in Key :
                /\ owner[k] # Nobody => owner'[k] = owner[k]
                /\ k \notin live /\ owner[k] # Nobody => k \notin live'
                /\ k \in live \ live' =>
                      \E c \in Call : Handles(c, "revoke") /\ ~Handles(c, "revoke")'
                                      /\ call[c].acct = owner[k]
<1>1. Inv /\ [Next]_vars => [ByOwner]_vars
  <2> SUFFICES ASSUME Inv, [Next]_vars PROVE ByOwner
    OBVIOUS
  <2>1. TablesOK /\ call \in [Call -> Request]
    BY DEF Inv, RestOK
  <2>2. CASE KeysKept
    BY <2>2 DEF KeysKept
  <2>3. ASSUME NEW c \in Call, NEW k \in Key, RevokeAPIKey(c, k) PROVE ByOwner
    <3>1. Handles(c, "revoke")
      BY <2>3 DEF RevokeAPIKey
    <3>2. Answered(c, {}) \/ Refused(c)
      BY <2>3 DEF RevokeAPIKey, Breaks
    <3>3. {} \in SUBSET Key
      OBVIOUS
    <3>4. call'[c].pc \in {"ok", "refused"}
      BY <2>1, <3>2, <3>3, AnsweredFields, RefusedFields
    <3>5. ~Handles(c, "revoke")'
      BY <3>4 DEF Handles
    <3>6. UNCHANGED <<owner, live>> \/ UpdateRevoked(call[c].acct, k)
      BY <2>3 DEF RevokeAPIKey, tables
    <3>7. CASE UNCHANGED <<owner, live>>
      BY <3>7
    <3>8. CASE UpdateRevoked(call[c].acct, k)
      BY <3>1, <3>5, <3>8 DEF UpdateRevoked, Revocable
    <3> QED
      BY <3>6, <3>7, <3>8
  <2> QED
    BY <2>1, <2>2, <2>3, KeptOrRevoked
<1> QED
  BY <1>1, InvInit, InvNext, PTL DEF Spec, RevokedByOwner

---------------------------------------------------------------------------
(* Accounts without a wallet.                                               *)

Walletless == {n \in Name : users[n] # Nobody /\ n \notin wallets /\ ~Making(n)}

(* The set is finite as well, although Name need not be.                    *)
FaultsCover == IsFiniteSet(Walletless) /\ Cardinality(Walletless) <= faults

(* A step that leaves no new account without a wallet.                      *)
LEMMA NoneAdded ==
    ASSUME FaultsCover, faults \in Nat, faults' \in Nat, faults' >= faults,
           Walletless' \subseteq Walletless
    PROVE  FaultsCover'
<1>1. PICK A, B : A = Walletless /\ B = Walletless'
  OBVIOUS
<1>2. IsFiniteSet(A) /\ Cardinality(A) <= faults /\ B \subseteq A
  BY <1>1 DEF FaultsCover
<1>3. IsFiniteSet(B) /\ Cardinality(B) <= Cardinality(A) /\ Cardinality(A) \in Nat /\ Cardinality(B) \in Nat
  BY <1>2, FS_Subset, FS_CardinalityType
<1>4. Cardinality(B) <= faults'
  BY <1>2, <1>3
<1> QED
  BY <1>1, <1>3, <1>4 DEF FaultsCover

(* A fault that leaves at most one.                                         *)
LEMMA OneAdded ==
    ASSUME FaultsCover, faults \in Nat, Fault, NEW n, Walletless' \subseteq Walletless \cup {n}
    PROVE  FaultsCover'
<1>1. PICK A, B : A = Walletless /\ B = Walletless'
  OBVIOUS
<1>2. IsFiniteSet(A) /\ Cardinality(A) <= faults /\ B \subseteq A \cup {n} /\ Cardinality(A) \in Nat
  BY <1>1, FS_CardinalityType DEF FaultsCover
<1>3. IsFiniteSet(A \cup {n}) /\ Cardinality(A \cup {n}) <= Cardinality(A) + 1 /\ Cardinality(A \cup {n}) \in Nat
  <2>1. IsFiniteSet(A \cup {n}) /\ (Cardinality(A \cup {n}) = Cardinality(A)
                                    \/ Cardinality(A \cup {n}) = Cardinality(A) + 1)
    BY <1>2, FS_AddElement
  <2> QED
    BY <1>2, <2>1
<1>4. IsFiniteSet(B) /\ Cardinality(B) <= Cardinality(A \cup {n}) /\ Cardinality(B) \in Nat
  BY <1>2, <1>3, FS_Subset, FS_CardinalityType
<1>5. faults' = faults + 1
  BY DEF Fault
<1>6. Cardinality(B) <= faults'
  BY <1>2, <1>3, <1>4, <1>5
<1> QED
  BY <1>1, <1>4, <1>6 DEF FaultsCover

(* The accounts a step of a request may leave without a wallet: one that it *)
(* inserts and does not go on with, and one it was making.                  *)
LEMMA RequestLeaves ==
    ASSUME NEW c \in Call, NEW S, \A d \in Call \ {c} : call'[d] = call[d], UNCHANGED boot,
           wallets \subseteq wallets',
           \A n \in Name \ S : users[n] = Nobody => users'[n] = Nobody \/ Making(n)',
           call[c].pc = "wallet" => call[c].acct \in wallets' \cup S
    PROVE  Walletless' \subseteq Walletless \cup S
<1>1. SUFFICES ASSUME NEW n \in Name, users'[n] # Nobody, n \notin wallets', ~Making(n)', n \notin S
               PROVE  n \in Walletless
  BY DEF Walletless
<1>2. users[n] # Nobody /\ n \notin wallets
  BY <1>1
<1>3. SUFFICES ASSUME Making(n) PROVE FALSE
  BY <1>2 DEF Walletless
<1>4. ASSUME NEW d \in Call, call[d].pc = "wallet", call[d].acct = n PROVE FALSE
  <2>1. CASE d = c
    BY <1>1, <1>4, <2>1
  <2>2. CASE d # c
    <3>1. call'[d].pc = "wallet" /\ call'[d].acct = n
      BY <1>4, <2>2
    <3> QED
      BY <1>1, <3>1 DEF Making
  <2> QED
    BY <2>1, <2>2
<1>5. ASSUME NEW r \in Replica, boot[r] = "wallet", n = DefaultName PROVE FALSE
  <2>1. boot'[r] = "wallet"
    BY <1>5
  <2> QED
    BY <1>1, <1>5, <2>1 DEF Making
<1> QED
  BY <1>3, <1>4, <1>5 DEF Making

(* And a step of a replica.                                                 *)
LEMMA ReplicaLeaves ==
    ASSUME NEW r \in Replica, NEW S, \A q \in Replica \ {r} : boot'[q] = boot[q], UNCHANGED call,
           wallets \subseteq wallets',
           \A n \in Name \ S : users[n] = Nobody => users'[n] = Nobody \/ Making(n)',
           boot[r] = "wallet" => DefaultName \in wallets' \cup S
    PROVE  Walletless' \subseteq Walletless \cup S
<1>1. SUFFICES ASSUME NEW n \in Name, users'[n] # Nobody, n \notin wallets', ~Making(n)', n \notin S
               PROVE  n \in Walletless
  BY DEF Walletless
<1>2. users[n] # Nobody /\ n \notin wallets
  BY <1>1
<1>3. SUFFICES ASSUME Making(n) PROVE FALSE
  BY <1>2 DEF Walletless
<1>4. ASSUME NEW d \in Call, call[d].pc = "wallet", call[d].acct = n PROVE FALSE
  <2>1. call'[d].pc = "wallet" /\ call'[d].acct = n
    BY <1>4
  <2> QED
    BY <1>1, <2>1 DEF Making
<1>5. ASSUME NEW q \in Replica, boot[q] = "wallet", n = DefaultName PROVE FALSE
  <2>1. CASE q = r
    BY <1>1, <1>5, <2>1
  <2>2. CASE q # r
    <3>1. boot'[q] = "wallet"
      BY <1>5, <2>2
    <3> QED
      BY <1>1, <1>5, <3>1 DEF Making
  <2> QED
    BY <2>1, <2>2
<1> QED
  BY <1>3, <1>4, <1>5 DEF Making

(* What the statements do to the two tables.                                *)
LEMMA StatementsLeave ==
    ASSUME TablesOK
    PROVE  /\ UNCHANGED tables => users' = users /\ wallets' = wallets
           /\ \A n \in Name : InsertWallet(n) =>
                 users' = users /\ wallets \subseteq wallets' /\ n \in wallets'
           /\ \A n, k : InsertKey(n, k) \/ UpdateRevoked(n, k) => users' = users /\ wallets' = wallets
           /\ \A n \in Name : \A p : InsertUser(n, p) =>
                 wallets' = wallets /\ \A m \in Name \ {n} : users'[m] = users[m]
BY DEF TablesOK, tables, InsertWallet, InsertKey, UpdateRevoked, InsertUser

(* A replica leaves the default account without a wallet only when it is    *)
(* stopped.                                                                 *)
LEMMA ReplicaCovers ==
    ASSUME Inv, FaultsCover, NEW r \in Replica,
           \/ SeedSelect(r) \/ SeedUser(r) \/ SeedWallet(r) \/ SeedKey(r)
           \/ SeedConflict(r) \/ Restart(r)
    PROVE  FaultsCover'
<1>1. TablesOK /\ boot \in [Replica -> {"select", "user", "wallet", "key", "serving"}] /\ faults \in Nat
  BY DEF Inv, RestOK
<1>2. UNCHANGED call /\ \A q \in Replica \ {r} : boot'[q] = boot[q]
  BY <1>1 DEF SeedSelect, SeedUser, SeedWallet, SeedKey, SeedConflict, Restart, Step
<1>3. DefaultName \in Name
  BY AccountsAssumption
<1>4. CASE SeedSelect(r) \/ SeedConflict(r) \/ SeedKey(r)
  <2>1. UNCHANGED <<users, wallets, faults>> /\ boot[r] # "wallet"
    BY <1>1, <1>4, StatementsLeave DEF SeedSelect, SeedConflict, SeedKey
  <2>2. Walletless' \subseteq Walletless \cup {}
    BY <1>2, <2>1, ReplicaLeaves
  <2> QED
    BY <1>1, <2>1, <2>2, NoneAdded
<1>5. CASE SeedUser(r)
  <2>1. /\ wallets' = wallets /\ faults' = faults /\ boot[r] # "wallet"
        /\ \A m \in Name \ {DefaultName} : users'[m] = users[m]
    BY <1>1, <1>3, <1>5, StatementsLeave DEF SeedUser
  <2>2. Making(DefaultName)'
    <3>1. boot'[r] = "wallet"
      BY <1>1, <1>5 DEF SeedUser, Step
    <3> QED
      BY <3>1 DEF Making
  <2>3. ASSUME NEW n \in Name, users[n] = Nobody PROVE users'[n] = Nobody \/ Making(n)'
    BY <2>1, <2>2, <2>3
  <2>4. Walletless' \subseteq Walletless \cup {}
    BY <1>2, <2>1, <2>3, ReplicaLeaves
  <2> QED
    BY <1>1, <2>1, <2>4, NoneAdded
<1>6. CASE SeedWallet(r)
  <2>1. users' = users /\ wallets \subseteq wallets' /\ DefaultName \in wallets' /\ faults' = faults
    BY <1>1, <1>3, <1>6, StatementsLeave DEF SeedWallet
  <2>2. Walletless' \subseteq Walletless \cup {}
    BY <1>2, <2>1, ReplicaLeaves
  <2> QED
    BY <1>1, <2>1, <2>2, NoneAdded
<1>7. CASE Restart(r)
  <2>1. wallets \subseteq wallets' /\ \A m \in Name \ {DefaultName} : users'[m] = users[m]
    BY <1>1, <1>3, <1>7, StatementsLeave DEF Restart
  <2>2. Walletless' \subseteq Walletless \cup {DefaultName}
    BY <1>2, <2>1, ReplicaLeaves
  <2> QED
    BY <1>1, <1>7, <2>2, OneAdded DEF Restart
<1> QED
  BY <1>4, <1>5, <1>6, <1>7

(* A request leaves an account without a wallet only when a statement of    *)
(* its registration fails.                                                  *)
LEMMA RegisterCovers ==
    ASSUME Inv, FaultsCover, NEW c \in Call, NEW n \in Name, NEW p \in Password, Register(c, n, p)
    PROVE  FaultsCover'
<1>1. TablesOK /\ call \in [Call -> Request] /\ faults \in Nat /\ call[c].pc # "wallet"
  BY DEF Inv, RestOK, Register
<1>2. PICK q : q = [NoRequest EXCEPT !.pc = "wallet", !.op = "register", !.acct = n, !.pw = p]
  OBVIOUS
<1>3. CASE InsertUser(n, p) /\ Becomes(c, q) /\ UNCHANGED <<secrets, boot, faults>>
  <2>1. q.pc = "wallet" /\ q.acct = n
    BY <1>2 DEF NoRequest
  <2>2. call'[c] = q /\ \A d \in Call \ {c} : call'[d] = call[d]
    BY <1>1, <1>3 DEF Becomes
  <2>3. Making(n)'
    <3>1. call'[c].pc = "wallet" /\ call'[c].acct = n
      BY <2>1, <2>2
    <3> QED
      BY <3>1 DEF Making
  <2>4. wallets' = wallets /\ \A m \in Name \ {n} : users'[m] = users[m]
    BY <1>1, <1>3, StatementsLeave
  <2>5. ASSUME NEW m \in Name, users[m] = Nobody PROVE users'[m] = Nobody \/ Making(m)'
    BY <2>3, <2>4, <2>5
  <2>6. Walletless' \subseteq Walletless \cup {}
    BY <1>1, <1>3, <2>2, <2>4, <2>5, RequestLeaves
  <2> QED
    BY <1>1, <1>3, <2>6, NoneAdded
<1>4. CASE Refused(c) /\ UNCHANGED <<tables, secrets, boot, faults>>
  <2>1. users' = users /\ wallets' = wallets /\ \A d \in Call \ {c} : call'[d] = call[d]
    BY <1>1, <1>4, StatementsLeave, RefusedFields
  <2>2. Walletless' \subseteq Walletless \cup {}
    BY <1>1, <1>4, <2>1, RequestLeaves
  <2> QED
    BY <1>1, <1>4, <2>2, NoneAdded
<1>5. CASE Breaks(c) /\ (InsertUser(n, p) \/ UNCHANGED tables)
  <2>1. wallets' = wallets /\ \A m \in Name \ {n} : users'[m] = users[m]
    BY <1>1, <1>5, StatementsLeave
  <2>2. Fault /\ UNCHANGED boot /\ \A d \in Call \ {c} : call'[d] = call[d]
    BY <1>1, <1>5, RefusedFields DEF Breaks
  <2>3. Walletless' \subseteq Walletless \cup {n}
    BY <1>1, <2>1, <2>2, RequestLeaves
  <2> QED
    BY <1>1, <2>2, <2>3, OneAdded
<1> QED
  BY <1>2, <1>3, <1>4, <1>5 DEF Register

(* So does the second statement of a registration.                          *)
LEMMA RegisterWalletCovers ==
    ASSUME Inv, FaultsCover, NEW c \in Call, RegisterWallet(c)
    PROVE  FaultsCover'
<1>1. TablesOK /\ call \in [Call -> Request] /\ faults \in Nat /\ call[c].acct \in Name
  BY DEF Inv, RestOK, RegisterWallet, Backed
<1>2. CASE InsertWallet(call[c].acct) /\ GoTo(c, "key") /\ UNCHANGED <<secrets, boot, faults>>
  <2>1. users' = users /\ wallets \subseteq wallets' /\ call[c].acct \in wallets'
    BY <1>1, <1>2, StatementsLeave
  <2>2. \A d \in Call \ {c} : call'[d] = call[d]
    BY <1>1, <1>2 DEF GoTo, Becomes
  <2>3. Walletless' \subseteq Walletless \cup {}
    BY <1>2, <2>1, <2>2, RequestLeaves
  <2> QED
    BY <1>1, <1>2, <2>3, NoneAdded
<1>3. CASE Breaks(c) /\ (InsertWallet(call[c].acct) \/ UNCHANGED tables)
  <2>1. users' = users /\ wallets \subseteq wallets'
    BY <1>1, <1>3, StatementsLeave
  <2>2. Fault /\ UNCHANGED boot /\ \A d \in Call \ {c} : call'[d] = call[d]
    BY <1>1, <1>3, RefusedFields DEF Breaks
  <2>3. Walletless' \subseteq Walletless \cup {call[c].acct}
    BY <2>1, <2>2, RequestLeaves
  <2> QED
    BY <1>1, <2>2, <2>3, OneAdded
<1> QED
  BY <1>2, <1>3 DEF RegisterWallet

(* Requests past their wallet, and those that do not register, leave none.  *)
LEMMA OtherRequestCovers ==
    ASSUME Inv, FaultsCover, NEW c \in Call, call[c].pc # "wallet", UNCHANGED <<users, wallets, boot>>,
           \A d \in Call \ {c} : call'[d] = call[d], faults' = faults \/ Fault
    PROVE  FaultsCover'
<1>1. faults \in Nat /\ faults' \in Nat /\ faults' >= faults
  BY DEF Inv, RestOK, Fault
<1>2. Walletless' \subseteq Walletless \cup {}
  BY RequestLeaves
<1> QED
  BY <1>1, <1>2, NoneAdded

(* A step of a request leaves the others alone.                             *)
LEMMA BecomesOthers ==
    ASSUME call \in [Call -> Request], NEW c \in Call, NEW q, Becomes(c, q)
    PROVE  \A d \in Call \ {c} : call'[d] = call[d]
BY DEF Becomes

(* Every step keeps the accounts without a wallet covered.                  *)
LEMMA CoverNext == Inv /\ FaultsCover /\ [Next]_vars => FaultsCover'
<1> SUFFICES ASSUME Inv, FaultsCover, [Next]_vars PROVE FaultsCover'
  OBVIOUS
<1>0. TablesOK /\ call \in [Call -> Request]
  BY DEF Inv, RestOK
<1>1. ASSUME NEW r \in Replica,
             \/ SeedSelect(r) \/ SeedUser(r) \/ SeedWallet(r) \/ SeedKey(r)
             \/ SeedConflict(r) \/ Restart(r)
      PROVE  FaultsCover'
  BY <1>1, ReplicaCovers
<1>2. ASSUME NEW c \in Call, NEW n \in Name, NEW p \in Password, Register(c, n, p) PROVE FaultsCover'
  BY <1>2, RegisterCovers
<1>3. ASSUME NEW c \in Call, RegisterWallet(c) PROVE FaultsCover'
  BY <1>3, RegisterWalletCovers
<1>4. ASSUME NEW c \in Call,
             \/ \E n \in Name, p \in Password : Login(c, n, p)
             \/ \E op \in Open, k \in secrets \cup {0} : Send(c, op, k)
             \/ Authorize(c) \/ ListAPIKeys(c) \/ GetWallet(c) \/ CountUsage(c) \/ PageUsage(c)
             \/ \E n \in 0 .. Limit : PageCut(c, n)
             \/ HandlerError(c)
      PROVE  FaultsCover'
  <2>1. UNCHANGED <<tables, boot, faults>> /\ call[c].pc # "wallet" /\ \E q : Becomes(c, q)
    <3>1. CASE \E n \in Name, p \in Password : Login(c, n, p)
      BY <3>1 DEF Login, Refused
    <3>2. CASE \E op \in Open, k \in secrets \cup {0} : Send(c, op, k)
      BY <3>2 DEF Send
    <3>3. CASE Authorize(c) \/ HandlerError(c)
      BY <3>3 DEF Authorize, HandlerError, Refused
    <3>4. CASE ListAPIKeys(c) \/ GetWallet(c)
      BY <3>4 DEF ListAPIKeys, GetWallet, Handles, Answered
    <3>5. CASE CountUsage(c) \/ PageUsage(c) \/ \E n \in 0 .. Limit : PageCut(c, n)
      BY <3>5 DEF CountUsage, PageUsage, PageCut, Handles
    <3> QED
      BY <1>4, <3>1, <3>2, <3>3, <3>4, <3>5
  <2>2. \A d \in Call \ {c} : call'[d] = call[d]
    BY <1>0, <2>1, BecomesOthers
  <2> QED
    BY <1>0, <2>1, <2>2, OtherRequestCovers, StatementsLeave
<1>5. ASSUME NEW c \in Call, CreateAPIKey(c) \/ \E k \in Key : RevokeAPIKey(c, k) PROVE FaultsCover'
  <2>1. UNCHANGED <<users, wallets>>
    BY <1>0, <1>5, StatementsLeave DEF CreateAPIKey, RevokeAPIKey
  <2>2. UNCHANGED boot /\ (faults' = faults \/ Fault) /\ call[c].pc # "wallet"
    BY <1>5 DEF CreateAPIKey, RevokeAPIKey, Breaks, Handles
  <2>3. \A d \in Call \ {c} : call'[d] = call[d]
    <3>1. Refused(c) \/ \E keys : Answered(c, keys)
      <4>1. CASE CreateAPIKey(c)
        BY <4>1 DEF CreateAPIKey, Breaks
      <4>2. CASE \E k \in Key : RevokeAPIKey(c, k)
        BY <4>2 DEF RevokeAPIKey, Breaks
      <4> QED
        BY <1>5, <4>1, <4>2
    <3>2. \E q : Becomes(c, q)
      <4>1. Refused(c) => \E q : Becomes(c, q)
        BY DEF Refused
      <4>2. ASSUME NEW keys, Answered(c, keys) PROVE \E q : Becomes(c, q)
        BY <4>2 DEF Answered
      <4> QED
        BY <3>1, <4>1, <4>2
    <3> QED
      BY <1>0, <3>2, BecomesOthers
  <2> QED
    BY <2>1, <2>2, <2>3, OtherRequestCovers
<1>6. ASSUME UNCHANGED <<users, wallets, boot, call, faults>> PROVE FaultsCover'
  BY <1>6 DEF FaultsCover, Walletless, Making
<1>7. ASSUME NEW n \in Name, Meter(n) PROVE FaultsCover'
  BY <1>6, <1>7 DEF Meter
<1>8. CASE UNCHANGED vars
  BY <1>6, <1>8 DEF vars
<1> QED
  BY <1>1, <1>2, <1>3, <1>4, <1>5, <1>7, <1>8 DEF Next, Idle

(* An account that has no wallet and is not being made is the remains of a  *)
(* fault, and each fault leaves at most one, for any number of accounts,    *)
(* replicas and registrations.                                              *)
THEOREM WalletlessTheorem == Spec => []WalletlessByFault
<1>1. Init => FaultsCover
  <2> SUFFICES ASSUME Init PROVE FaultsCover
    OBVIOUS
  <2>1. Walletless = {} /\ faults = 0
    BY DEF Init, Walletless
  <2> QED
    BY <2>1, FS_EmptySet DEF FaultsCover
<1>2. Inv /\ FaultsCover /\ [Next]_vars => FaultsCover'
  BY CoverNext
<1>3. FaultsCover => WalletlessByFault
  BY DEF FaultsCover, Walletless, WalletlessByFault
<1> QED
  BY <1>1, <1>2, <1>3, InvInit, InvNext, PTL DEF Spec

---------------------------------------------------------------------------
(* The page and its total.                                                  *)

(* Between the two reads of ListUsage, and after them, the rows only grow:  *)
(* a page that is read to its end holds what the total promises, and no     *)
(* page holds more than the account has.                                    *)
Paged(c) ==
    /\ call[c].pc = "page" => call[c].total <= usage[call[c].acct]
    /\ call[c].pc = "key" => call[c].op # "usage"
    /\ call[c].pc = "ok" /\ call[c].op = "usage" =>
          /\ call[c].acct \in Name
          /\ call[c].total <= usage[call[c].acct]
          /\ call[c].items <= Rows(usage[call[c].acct], Limit, Offset)
          /\ call[c].items < Rows(call[c].total, Limit, Offset) => call[c].cut

(* More rows fill a page no less.                                           *)
LEMMA RowsMonotonic ==
    ASSUME NEW m \in Nat, NEW n \in Nat, m <= n
    PROVE  /\ Rows(m, Limit, Offset) \in Nat /\ Rows(n, Limit, Offset) \in Nat
           /\ Rows(n, Limit, Offset) >= Rows(m, Limit, Offset)
BY AccountsAssumption DEF Rows

(* No statement takes a usage row away.                                     *)
LEMMA UsageStays ==
    /\ UNCHANGED tables => usage' = usage
    /\ \A n, p : InsertUser(n, p) => usage' = usage
    /\ \A n : InsertWallet(n) => usage' = usage
    /\ \A n, k : InsertKey(n, k) => usage' = usage
    /\ \A n, k : UpdateRevoked(n, k) => usage' = usage
BY DEF tables, InsertUser, InsertWallet, InsertKey, UpdateRevoked

(* A request that does not move keeps its page.                             *)
LEMMA PagedStays ==
    ASSUME Inv, NEW c \in Call, Paged(c), call'[c] = call[c],
           \A n \in Name : usage[n] <= usage'[n] /\ usage'[n] \in Nat
    PROVE  Paged(c)'
<1>1. PICK q \in Request : q = call[c]
  BY DEF Inv, RestOK
<1>2. call'[c] = q
  BY <1>1
<1>3. ASSUME q.pc = "page" PROVE q.total <= usage'[q.acct]
  <2>1. q.acct \in Name /\ q.total \in Nat /\ q.total <= usage[q.acct]
    BY <1>1, <1>3 DEF Inv, Backed, Request, Paged
  <2>2. usage[q.acct] \in Nat /\ usage'[q.acct] \in Nat /\ usage[q.acct] <= usage'[q.acct]
    BY <2>1 DEF Inv, TablesOK
  <2> QED
    BY <2>1, <2>2
<1>4. /\ q.pc = "key" => q.op # "usage"
      /\ q.pc = "ok" /\ q.op = "usage" =>
            q.acct \in Name /\ (q.items < Rows(q.total, Limit, Offset) => q.cut)
  BY <1>1 DEF Paged
<1>5. ASSUME q.pc = "ok", q.op = "usage"
      PROVE  q.total <= usage'[q.acct] /\ q.items <= Rows(usage'[q.acct], Limit, Offset)
  <2>1. /\ q.acct \in Name /\ q.total \in Nat /\ q.items \in Nat
        /\ q.total <= usage[q.acct] /\ q.items <= Rows(usage[q.acct], Limit, Offset)
    BY <1>1, <1>5 DEF Request, Paged
  <2>2. usage[q.acct] \in Nat /\ usage'[q.acct] \in Nat /\ usage[q.acct] <= usage'[q.acct]
    BY <2>1 DEF Inv, TablesOK
  <2>3. /\ Rows(usage[q.acct], Limit, Offset) \in Nat /\ Rows(usage'[q.acct], Limit, Offset) \in Nat
        /\ Rows(usage'[q.acct], Limit, Offset) >= Rows(usage[q.acct], Limit, Offset)
    BY <2>2, RowsMonotonic
  <2>4. q.total <= usage'[q.acct]
    BY <2>1, <2>2
  <2> QED
    BY <2>1, <2>3, <2>4
<1> QED
  BY <1>2, <1>3, <1>4, <1>5 DEF Paged, Rows

(* What a step must show that does not touch the usage rows.                *)
LEMMA PagedMoves ==
    ASSUME Inv, \A d \in Call : Paged(d), NEW c \in Call, NEW q, Becomes(c, q), usage' = usage,
           q.pc # "page", q.op = "usage" => q.pc \notin {"key", "ok"}
    PROVE  \A d \in Call : Paged(d)'
<1>1. call'[c] = q /\ \A d \in Call \ {c} : call'[d] = call[d]
  BY DEF Becomes, Inv, RestOK
<1>2. \A n \in Name : usage[n] <= usage'[n] /\ usage'[n] \in Nat
  BY DEF Inv, TablesOK
<1>3. Paged(c)'
  BY <1>1 DEF Paged
<1>4. ASSUME NEW d \in Call \ {c} PROVE Paged(d)'
  BY <1>1, <1>2, PagedStays
<1> QED
  BY <1>3, <1>4

(* Errors and answers of other operations.                                  *)
LEMMA RefusedPaged ==
    ASSUME Inv, \A d \in Call : Paged(d), NEW c \in Call, Refused(c), usage' = usage
    PROVE  \A d \in Call : Paged(d)'
<1>1. PICK q : q = [NoRequest EXCEPT !.pc = "refused"]
  OBVIOUS
<1>2. q.pc = "refused" /\ Becomes(c, q)
  BY <1>1 DEF NoRequest, Refused
<1> QED
  BY <1>2, PagedMoves

(* An answer of a request that is not for usage.                            *)
LEMMA AnsweredPaged ==
    ASSUME Inv, \A d \in Call : Paged(d), NEW c \in Call, NEW keys, Answered(c, keys), usage' = usage,
           call[c].op # "usage"
    PROVE  \A d \in Call : Paged(d)'
<1>1. PICK q : q = [call[c] EXCEPT !.pc = "ok", !.token = 0, !.got = keys]
  OBVIOUS
<1>2. call[c] \in Request
  BY DEF Inv, RestOK
<1>3. q.pc = "ok" /\ q.op = call[c].op /\ Becomes(c, q)
  BY <1>1, <1>2 DEF Answered, Request
<1> QED
  BY <1>3, PagedMoves

(* Registration and login.                                                  *)
LEMMA AccountPaged ==
    ASSUME Inv, \A d \in Call : Paged(d), NEW c \in Call,
           \/ \E n \in Name, p \in Password : Register(c, n, p) \/ Login(c, n, p)
           \/ RegisterWallet(c) \/ CreateAPIKey(c)
    PROVE  \A d \in Call : Paged(d)'
<1>0. call[c] \in Request /\ Backed(c) /\ Paged(c)
  BY DEF Inv, RestOK
<1>1. CASE \E n \in Name, p \in Password : Register(c, n, p)
  <2>1. PICK n \in Name, p \in Password : Register(c, n, p)
    BY <1>1
  <2>2. usage' = usage
    BY ONLY <2>1 DEF Register, InsertUser, tables
  <2>3. PICK q : q = [NoRequest EXCEPT !.pc = "wallet", !.op = "register", !.acct = n, !.pw = p]
    OBVIOUS
  <2>4. q.pc = "wallet"
    BY <2>3 DEF NoRequest
  <2>5. Becomes(c, q) \/ Refused(c)
    BY ONLY <2>1, <2>3 DEF Register, Breaks
  <2> QED
    BY <2>2, <2>4, <2>5, PagedMoves, RefusedPaged
<1>2. CASE \E n \in Name, p \in Password : Login(c, n, p)
  <2>1. PICK n \in Name, p \in Password : Login(c, n, p)
    BY <1>2
  <2>2. usage' = usage
    BY ONLY <2>1 DEF Login, tables
  <2>3. PICK q : q = [NoRequest EXCEPT !.pc = "key", !.op = "login", !.acct = n]
    OBVIOUS
  <2>4. q.pc = "key" /\ q.op = "login"
    BY <2>3 DEF NoRequest
  <2>5. Becomes(c, q) \/ Refused(c)
    BY ONLY <2>1, <2>3 DEF Login
  <2> QED
    BY <2>2, <2>4, <2>5, PagedMoves, RefusedPaged
<1>3. CASE RegisterWallet(c)
  <2>1. usage' = usage
    BY <1>3, UsageStays DEF RegisterWallet
  <2>2. PICK q : q = [call[c] EXCEPT !.pc = "key"]
    OBVIOUS
  <2>3. q.pc = "key" /\ q.op = "register"
    BY <1>0, <1>3, <2>2 DEF RegisterWallet, Backed, Request
  <2>4. Becomes(c, q) \/ Refused(c)
    BY <1>3, <2>2 DEF RegisterWallet, GoTo, Breaks
  <2> QED
    BY <2>1, <2>3, <2>4, PagedMoves, RefusedPaged
<1>4. CASE CreateAPIKey(c)
  <2>1. usage' = usage
    BY <1>4, UsageStays DEF CreateAPIKey
  <2>2. call[c].op # "usage"
    BY <1>0, <1>4 DEF CreateAPIKey, Paged
  <2>3. Refused(c) \/ \E keys : Answered(c, keys)
    BY <1>4 DEF CreateAPIKey, Breaks
  <2> QED
    BY <2>1, <2>2, <2>3, AnsweredPaged, RefusedPaged
<1> QED
  BY <1>1, <1>2, <1>3, <1>4

(* The requests behind the middleware, but for ListUsage.                   *)
LEMMA HandlerPaged ==
    ASSUME Inv, \A d \in Call : Paged(d), NEW c \in Call,
           \/ \E op \in Open, k \in secrets \cup {0} : Send(c, op, k)
           \/ Authorize(c) \/ ListAPIKeys(c) \/ GetWallet(c) \/ HandlerError(c)
           \/ \E k \in Key : RevokeAPIKey(c, k)
    PROVE  \A d \in Call : Paged(d)'
<1>0. call[c] \in Request
  BY DEF Inv, RestOK
<1>1. CASE \E op \in Open, k \in secrets \cup {0} : Send(c, op, k)
  <2>1. PICK op \in Open, k \in secrets \cup {0} : Send(c, op, k)
    BY <1>1
  <2>2. PICK q : q = [NoRequest EXCEPT !.pc = "auth", !.op = op, !.token = k,
                                       !.late = k # 0 /\ k \notin live]
    OBVIOUS
  <2>3. q.pc = "auth"
    BY <2>2 DEF NoRequest
  <2>4. Becomes(c, q)
    BY ONLY <2>1, <2>2 DEF Send
  <2>5. usage' = usage
    BY ONLY <2>1 DEF Send, tables
  <2> QED
    BY <2>3, <2>4, <2>5, PagedMoves
<1>2. CASE Authorize(c)
  <2>1. usage' = usage
    BY <1>2, UsageStays DEF Authorize
  <2>2. PICK l : l = IF call[c].op = "create" THEN "key" ELSE "handle"
    OBVIOUS
  <2>3. PICK q : q = [call[c] EXCEPT !.pc = l, !.acct = owner[call[c].token]]
    OBVIOUS
  <2>4. q.pc = l /\ q.op = call[c].op
    BY <1>0, <2>3 DEF Request
  <2>5. Becomes(c, q) \/ Refused(c)
    BY <1>2, <2>2, <2>3 DEF Authorize
  <2> QED
    BY <2>1, <2>2, <2>4, <2>5, PagedMoves, RefusedPaged
<1>3. CASE ListAPIKeys(c) \/ GetWallet(c)
  <2>1. usage' = usage /\ call[c].op # "usage" /\ \E keys : Answered(c, keys)
    BY <1>3, UsageStays DEF ListAPIKeys, GetWallet, Handles
  <2> QED
    BY <2>1, AnsweredPaged
<1>4. CASE HandlerError(c)
  BY <1>4, UsageStays, RefusedPaged DEF HandlerError
<1>5. CASE \E k \in Key : RevokeAPIKey(c, k)
  <2>1. usage' = usage /\ call[c].op # "usage"
    BY <1>5, UsageStays DEF RevokeAPIKey, Handles
  <2>2. Refused(c) \/ \E keys : Answered(c, keys)
    BY <1>5 DEF RevokeAPIKey, Breaks
  <2> QED
    BY <2>1, <2>2, AnsweredPaged, RefusedPaged
<1> QED
  BY <1>1, <1>2, <1>3, <1>4, <1>5

(* The two reads of ListUsage.                                              *)
LEMMA UsagePaged ==
    ASSUME Inv, \A d \in Call : Paged(d), NEW c \in Call,
           CountUsage(c) \/ PageUsage(c) \/ \E n \in 0 .. Limit : PageCut(c, n)
    PROVE  \A d \in Call : Paged(d)'
<1>0. /\ call \in [Call -> Request] /\ call[c] \in Request /\ Backed(c) /\ Paged(c)
      /\ call[c].pc \in {"handle", "page"}
  BY DEF Inv, RestOK, CountUsage, PageUsage, PageCut, Handles
<1>1. usage' = usage
  BY UsageStays DEF CountUsage, PageUsage, PageCut
<1>2. PICK a \in Name : a = call[c].acct
  BY <1>0 DEF Backed
<1>3. usage[a] \in Nat
  BY DEF Inv, TablesOK
<1>4. \A n \in Name : usage[n] <= usage'[n] /\ usage'[n] \in Nat
  BY <1>1 DEF Inv, TablesOK
<1>5. \A d \in Call \ {c} : call'[d] = call[d]
  BY <1>0, BecomesOthers DEF CountUsage, PageUsage, PageCut
<1>6. ASSUME NEW d \in Call \ {c} PROVE Paged(d)'
  BY <1>4, <1>5, PagedStays
<1>7. CASE CountUsage(c)
  <2>1. PICK q : q = [call[c] EXCEPT !.pc = "page", !.total = usage[call[c].acct]]
    OBVIOUS
  <2>2. q.pc = "page" /\ q.total = usage[a] /\ q.acct = a
    BY <1>0, <1>2, <2>1 DEF Request
  <2>3. call'[c] = q
    BY <1>0, <1>7, <2>1 DEF CountUsage, Becomes
  <2>4. Paged(c)'
    BY <1>1, <1>3, <2>2, <2>3 DEF Paged
  <2> QED
    BY <1>6, <2>4
<1>8. ASSUME NEW q, call'[c] = q, q.pc = "ok", q.acct = a, q.total = call[c].total,
             call[c].pc = "page", q.items \in Nat, q.items <= Rows(usage[a], Limit, Offset),
             q.items = Rows(usage[a], Limit, Offset) \/ q.cut
      PROVE  \A d \in Call : Paged(d)'
  <2>1. q.total \in Nat /\ q.total <= usage[a]
    BY <1>0, <1>2, <1>8 DEF Request, Paged
  <2>2. /\ Rows(q.total, Limit, Offset) \in Nat /\ Rows(usage[a], Limit, Offset) \in Nat
        /\ Rows(usage[a], Limit, Offset) >= Rows(q.total, Limit, Offset)
    BY <1>3, <2>1, RowsMonotonic
  <2>3. q.items < Rows(q.total, Limit, Offset) => q.cut
    BY <1>8, <2>2
  <2>4. Paged(c)'
    BY <1>1, <1>8, <2>1, <2>3 DEF Paged, Rows
  <2> QED
    BY <1>6, <2>4
<1>9. CASE PageUsage(c)
  <2>1. PICK n : n = Rows(usage[a], Limit, Offset)
    OBVIOUS
  <2>2. PICK q : q = [call[c] EXCEPT !.pc = "ok", !.token = 0, !.items = n]
    OBVIOUS
  <2>3. q.pc = "ok" /\ q.acct = a /\ q.total = call[c].total /\ q.items = n
    BY <1>0, <1>2, <2>2 DEF Request
  <2>4. call'[c] = q /\ call[c].pc = "page"
    BY <1>0, <1>2, <1>9, <2>1, <2>2 DEF PageUsage, Becomes
  <2>5. n \in Nat /\ n <= n
    BY <1>3, <2>1, RowsMonotonic
  <2> QED
    BY <1>8, <2>1, <2>3, <2>4, <2>5
<1>10. ASSUME NEW n \in 0 .. Limit, PageCut(c, n) PROVE \A d \in Call : Paged(d)'
  <2>1. PICK q : q = [call[c] EXCEPT !.pc = "ok", !.token = 0, !.items = n, !.cut = TRUE]
    OBVIOUS
  <2>2. q.pc = "ok" /\ q.acct = a /\ q.total = call[c].total /\ q.items = n /\ q.cut
    BY <1>0, <1>2, <2>1 DEF Request
  <2>3. call'[c] = q /\ call[c].pc = "page" /\ n < Rows(usage[a], Limit, Offset)
    BY <1>0, <1>2, <1>10, <2>1 DEF PageCut, Becomes
  <2>4. n \in Nat /\ n <= Rows(usage[a], Limit, Offset)
    BY <1>3, <2>3, RowsMonotonic, AccountsAssumption
  <2> QED
    BY <1>8, <2>2, <2>3, <2>4
<1> QED
  BY <1>7, <1>9, <1>10

(* Every step keeps the pages.                                              *)
LEMMA PagedNext == Inv /\ (\A c \in Call : Paged(c)) /\ [Next]_vars => \A c \in Call : Paged(c)'
<1> SUFFICES ASSUME Inv, \A c \in Call : Paged(c), [Next]_vars PROVE \A c \in Call : Paged(c)'
  OBVIOUS
<1>1. ASSUME NEW c \in Call,
             \/ \E n \in Name, p \in Password : Register(c, n, p) \/ Login(c, n, p)
             \/ RegisterWallet(c) \/ CreateAPIKey(c)
      PROVE  \A d \in Call : Paged(d)'
  BY <1>1, AccountPaged
<1>2. ASSUME NEW c \in Call,
             \/ \E op \in Open, k \in secrets \cup {0} : Send(c, op, k)
             \/ Authorize(c) \/ ListAPIKeys(c) \/ GetWallet(c) \/ HandlerError(c)
             \/ \E k \in Key : RevokeAPIKey(c, k)
      PROVE  \A d \in Call : Paged(d)'
  BY <1>2, HandlerPaged
<1>3. ASSUME NEW c \in Call,
             CountUsage(c) \/ PageUsage(c) \/ \E n \in 0 .. Limit : PageCut(c, n)
      PROVE  \A d \in Call : Paged(d)'
  BY <1>3, UsagePaged
<1>4. ASSUME UNCHANGED call, \A n \in Name : usage[n] <= usage'[n] /\ usage'[n] \in Nat,
             NEW d \in Call
      PROVE  Paged(d)'
  BY <1>4, PagedStays
<1>5. ASSUME UNCHANGED <<call, usage>> PROVE \A d \in Call : Paged(d)'
  <2>1. \A n \in Name : usage[n] <= usage'[n] /\ usage'[n] \in Nat
    BY <1>5 DEF Inv, TablesOK
  <2> QED
    BY <1>4, <1>5, <2>1
<1>6. ASSUME NEW r \in Replica,
             \/ SeedSelect(r) \/ SeedUser(r) \/ SeedWallet(r) \/ SeedKey(r)
             \/ SeedConflict(r) \/ Restart(r)
      PROVE  \A d \in Call : Paged(d)'
  BY <1>5, <1>6, UsageStays DEF SeedSelect, SeedUser, SeedWallet, SeedKey, SeedConflict, Restart
<1>7. ASSUME NEW n \in Name, Meter(n) PROVE \A d \in Call : Paged(d)'
  <2>1. \A m \in Name : usage[m] <= usage'[m] /\ usage'[m] \in Nat
    BY <1>7 DEF Meter, Inv, TablesOK
  <2> QED
    BY <1>4, <1>7, <2>1 DEF Meter
<1>8. CASE UNCHANGED vars
  BY <1>5, <1>8 DEF vars
<1> QED
  BY <1>1, <1>2, <1>3, <1>6, <1>7, <1>8 DEF Next, Idle

(* However many rows the metering consumer inserts between the two reads, a *)
(* usage response holds the rows its total promises unless an error cut the *)
(* reading off, and never more rows than the account has.                   *)
THEOREM PageTheorem == Spec => []PageMatchesTotal
<1> DEFINE AllPaged == \A c \in Call : Paged(c)
<1>1. Init => AllPaged
  BY DEF Init, Paged, NoRequest
<1>2. Inv /\ AllPaged /\ [Next]_vars => AllPaged'
  BY PagedNext
<1>3. AllPaged => PageMatchesTotal
  BY DEF Paged, PageMatchesTotal
<1> QED
  BY <1>1, <1>2, <1>3, InvInit, InvNext, PTL DEF Spec
=============================================================================

------------------------------ MODULE Accounts ------------------------------
(***************************************************************************)
(* Accounts and API keys: api/internal/auth, the handlers of               *)
(* api/internal/handler/server.go that use it, and the seeding of the      *)
(* default account when a replica starts (cmd/api/main.go).                *)
(*                                                                         *)
(* Registration, seeding and ListUsage are several statements without a    *)
(* transaction, so each statement is a step.  A statement may fail, and    *)
(* may have taken effect when it does: a lost connection, a cancelled      *)
(* request and a killed process all look like that to the tables.  A user  *)
(* is known by the name, which is UNIQUE and never changes.                *)
(***************************************************************************)
EXTENDS Integers, FiniteSets

CONSTANTS
    Name,
    DefaultName,      \* DEFAULT_USERNAME
    Password,
    DefaultPassword,  \* DEFAULT_PASSWORD
    Nobody,           \* no such row
    Replica,          \* API processes
    Call,             \* requests of clients
    MaxKeys,          \* bound on the rows of api_keys
    MaxUsage,         \* bound on the usage_events rows of each account
    Limit, Offset,    \* the page a client of ListUsage asks for
    MaxFaults         \* bound on failed statements and restarts

Key == 1 .. MaxKeys

ASSUME AccountsAssumption ==
    /\ DefaultName \in Name /\ DefaultPassword \in Password
    /\ Nobody \notin Name /\ Nobody \notin Password
    /\ MaxKeys \in Nat /\ MaxUsage \in [Name -> Nat] /\ MaxFaults \in Nat
    /\ Limit \in Nat /\ Offset \in Nat

VARIABLES
    users,     \* password_hash by name, or Nobody
    wallets,   \* the names with a wallets row
    owner,     \* api_keys.user_id, or Nobody
    live,      \* the keys whose revoked_at is NULL
    secrets,   \* history: the keys whose secret was answered or logged
    usage,     \* how many usage_events rows a name has
    boot,      \* where a replica stands in main
    call,      \* the requests
    faults     \* failed statements and restarts so far

vars == <<users, wallets, owner, live, secrets, usage, boot, call, faults>>
tables == <<users, wallets, owner, live, usage>>

Open == {"create", "list", "revoke", "wallet", "usage"}   \* behind BearerMiddleware

Request == [pc : {"idle", "user", "wallet", "key", "auth", "handle", "page", "ok", "refused"},
            op : {"none", "register", "login"} \cup Open,
            acct : Name \cup {Nobody}, pw : Password \cup {Nobody},
            token : Key \cup {0},     \* the key presented; 0 for none or an unknown one
            late : BOOLEAN,           \* history: it was revoked before the request was sent
            got : SUBSET Key,         \* the keys in the response
            total : Nat, items : Nat, \* the answer of ListUsage
            cut : BOOLEAN]            \* history: an error ended the reading of its rows

NoRequest == [pc |-> "idle", op |-> "none", acct |-> Nobody, pw |-> Nobody, token |-> 0,
              late |-> FALSE, got |-> {}, total |-> 0, items |-> 0, cut |-> FALSE]

Init ==
    /\ users = [n \in Name |-> Nobody]
    /\ wallets = {}
    /\ owner = [k \in Key |-> Nobody]
    /\ live = {}
    /\ secrets = {}
    /\ usage = [n \in Name |-> 0]
    /\ boot = [r \in Replica |-> "select"]
    /\ call = [c \in Call |-> NoRequest]
    /\ faults = 0

Fault == faults < MaxFaults /\ faults' = faults + 1

---------------------------------------------------------------------------
(* Statements.                                                              *)

(* Mutant of InsertUser: ON CONFLICT the password is replaced.              *)
InsertUserReplaces(n, p) ==
    users' = [users EXCEPT ![n] = p] /\ UNCHANGED <<wallets, owner, live, usage>>

InsertUser(n, p) ==
    /\ users[n] = Nobody
    /\ users' = [users EXCEPT ![n] = p]
    /\ UNCHANGED <<wallets, owner, live, usage>>

InsertWallet(n) == wallets' = wallets \cup {n} /\ UNCHANGED <<users, owner, live, usage>>

(* The id and the secret of a key are fresh.                                *)
Fresh(k) == owner[k] = Nobody /\ \A j \in 1 .. k - 1 : owner[j] # Nobody

InsertKey(n, k) ==
    /\ Fresh(k)
    /\ owner' = [owner EXCEPT ![k] = n]
    /\ live' = live \cup {k}
    /\ UNCHANGED <<users, wallets, usage>>

(* Mutant of Revocable: AND user_id = $2 is missing.                        *)
RevocableByAny(n, k) == k \in live

Revocable(n, k) == k \in live /\ owner[k] = n

UpdateRevoked(n, k) ==
    /\ Revocable(n, k)
    /\ live' = live \ {k}
    /\ UNCHANGED <<users, wallets, owner, usage>>

---------------------------------------------------------------------------
(* Responses.                                                               *)

Becomes(c, r) == call' = [call EXCEPT ![c] = r]

GoTo(c, label) == Becomes(c, [call[c] EXCEPT !.pc = label])

(* An error status.                                                         *)
Refused(c) == Becomes(c, [NoRequest EXCEPT !.pc = "refused"])

Answered(c, keys) == Becomes(c, [call[c] EXCEPT !.pc = "ok", !.token = 0, !.got = keys])

(* A statement of a request fails.                                          *)
Breaks(c) == Fault /\ Refused(c) /\ UNCHANGED <<secrets, boot>>

---------------------------------------------------------------------------
(* EnsureDefaultUser, as main calls it before it serves.                    *)

Step(r, label) == boot' = [boot EXCEPT ![r] = label]

SeedSelect(r) ==
    /\ boot[r] = "select"
    /\ Step(r, IF users[DefaultName] = Nobody THEN "user" ELSE "serving")
    /\ UNCHANGED <<tables, secrets, call, faults>>

SeedUser(r) ==
    /\ boot[r] = "user"
    /\ InsertUser(DefaultName, DefaultPassword)
    /\ Step(r, "wallet")
    /\ UNCHANGED <<secrets, call, faults>>

SeedWallet(r) ==
    /\ boot[r] = "wallet"
    /\ InsertWallet(DefaultName)
    /\ Step(r, "key")
    /\ UNCHANGED <<secrets, call, faults>>

(* The secret goes to the log.                                              *)
SeedKey(r) ==
    /\ boot[r] = "key"
    /\ \E k \in Key : InsertKey(DefaultName, k) /\ secrets' = secrets \cup {k}
    /\ Step(r, "serving")
    /\ UNCHANGED <<call, faults>>

(* The name was inserted by another replica since the SELECT: log.Fatalf,   *)
(* and the process is started again.                                        *)
SeedConflict(r) ==
    /\ boot[r] = "user"
    /\ users[DefaultName] # Nobody
    /\ Step(r, "select")
    /\ UNCHANGED <<tables, secrets, call, faults>>

(* Mutant of Restart: an error of the seeding is only logged.               *)
RestartServes(r) ==
    /\ Fault
    /\ Step(r, "serving")
    /\ UNCHANGED <<tables, secrets, call>>

(* Any other error, and a stop of the process at any time.                  *)
Restart(r) ==
    /\ Fault
    /\ Step(r, "select")
    /\ \/ UNCHANGED tables
       \/ boot[r] = "user" /\ InsertUser(DefaultName, DefaultPassword)
       \/ boot[r] = "wallet" /\ InsertWallet(DefaultName)
       \/ boot[r] = "key" /\ \E k \in Key : InsertKey(DefaultName, k)
    /\ UNCHANGED <<secrets, call>>

Serving == \E r \in Replica : boot[r] = "serving"

---------------------------------------------------------------------------
(* RegisterUser and LoginUser.                                              *)

(* Mutant of Register: the error of the first INSERT is ignored.            *)
RegisterGoesOn(c, n, p) ==
    /\ Serving
    /\ call[c].pc = "idle"
    /\ InsertUser(n, p) \/ UNCHANGED tables
    /\ Becomes(c, [NoRequest EXCEPT !.pc = "wallet", !.op = "register", !.acct = n, !.pw = p])
    /\ UNCHANGED <<secrets, boot, faults>>

Register(c, n, p) ==
    /\ Serving
    /\ call[c].pc = "idle"
    /\ \/ /\ InsertUser(n, p)
          /\ Becomes(c, [NoRequest EXCEPT !.pc = "wallet", !.op = "register", !.acct = n, !.pw = p])
          /\ UNCHANGED <<secrets, boot, faults>>
       \/ /\ users[n] # Nobody
          /\ Refused(c)
          /\ UNCHANGED <<tables, secrets, boot, faults>>
       \/ Breaks(c) /\ (InsertUser(n, p) \/ UNCHANGED tables)

(* Mutant of RegisterWallet: the row is left to someone else.               *)
RegisterWalletSkips(c) ==
    /\ call[c].pc = "wallet"
    /\ GoTo(c, "key")
    /\ UNCHANGED <<tables, secrets, boot, faults>>

(* A failure answers 409 like a taken name, and leaves the users row.       *)
RegisterWallet(c) ==
    /\ call[c].pc = "wallet"
    /\ \/ InsertWallet(call[c].acct) /\ GoTo(c, "key") /\ UNCHANGED <<secrets, boot, faults>>
       \/ Breaks(c) /\ (InsertWallet(call[c].acct) \/ UNCHANGED tables)

(* AuthenticatePassword: an unknown name and a wrong password look alike.   *)
Authenticates(n, p) == users[n] = p

Login(c, n, p) ==
    /\ Serving
    /\ call[c].pc = "idle"
    /\ \/ /\ Authenticates(n, p)
          /\ Becomes(c, [NoRequest EXCEPT !.pc = "key", !.op = "login", !.acct = n])
       \/ Refused(c)
    /\ UNCHANGED <<tables, secrets, boot, faults>>

(* CreateAPIKey, the last step of register and login and all of create.     *)
CreateAPIKey(c) ==
    /\ call[c].pc = "key"
    /\ \/ /\ \E k \in Key :
                /\ InsertKey(call[c].acct, k)
                /\ secrets' = secrets \cup {k}
                /\ Answered(c, {k})
          /\ UNCHANGED <<boot, faults>>
       \/ Breaks(c) /\ (UNCHANGED tables \/ \E k \in Key : InsertKey(call[c].acct, k))

---------------------------------------------------------------------------
(* BearerMiddleware and the handlers behind it.                             *)

(* A client presents a key, in the header or as the cookie.                 *)
Send(c, op, k) ==
    /\ Serving
    /\ call[c].pc = "idle"
    /\ Becomes(c, [NoRequest EXCEPT !.pc = "auth", !.op = op, !.token = k,
                                    !.late = k # 0 /\ k \notin live])
    /\ UNCHANGED <<tables, secrets, boot, faults>>

(* Mutant of Resolves: AND k.revoked_at IS NULL is missing.                 *)
ResolvesRevoked(k) == k # 0

Resolves(k) == k \in live

(* ResolveAPIKey; then rateLimitMiddleware, which may refuse the request.   *)
Authorize(c) ==
    /\ call[c].pc = "auth"
    /\ \/ /\ Resolves(call[c].token)
          /\ Becomes(c, [call[c] EXCEPT !.pc = IF call[c].op = "create" THEN "key" ELSE "handle",
                                        !.acct = owner[call[c].token]])
       \/ Refused(c)
    /\ UNCHANGED <<tables, secrets, boot, faults>>

Handles(c, op) == call[c].pc = "handle" /\ call[c].op = op

(* Revoked keys are listed too.                                             *)
KeysOf(n) == {k \in Key : owner[k] = n}

ListAPIKeys(c) ==
    /\ Handles(c, "list")
    /\ Answered(c, KeysOf(call[c].acct))
    /\ UNCHANGED <<tables, secrets, boot, faults>>

(* No row affected is a 404.                                                *)
RevokeAPIKey(c, k) ==
    /\ Handles(c, "revoke")
    /\ \/ UpdateRevoked(call[c].acct, k) /\ Answered(c, {}) /\ UNCHANGED <<secrets, boot, faults>>
       \/ ~Revocable(call[c].acct, k) /\ Refused(c) /\ UNCHANGED <<tables, secrets, boot, faults>>
       \/ Breaks(c) /\ UpdateRevoked(call[c].acct, k)

(* Without a wallets row the answer is an error.                            *)
GetWallet(c) ==
    /\ Handles(c, "wallet")
    /\ call[c].acct \in wallets
    /\ Answered(c, {})
    /\ UNCHANGED <<tables, secrets, boot, faults>>

CountUsage(c) ==
    /\ Handles(c, "usage")
    /\ Becomes(c, [call[c] EXCEPT !.pc = "page", !.total = usage[call[c].acct]])
    /\ UNCHANGED <<tables, secrets, boot, faults>>

(* How many of n rows LIMIT and OFFSET leave.                               *)
Rows(n, limit, offset) ==
    IF n <= offset THEN 0 ELSE IF n - offset < limit THEN n - offset ELSE limit

(* Mutant of PageUsage: the OFFSET is missing.                              *)
PageUsageUnshifted(c) ==
    /\ call[c].pc = "page"
    /\ Becomes(c, [call[c] EXCEPT !.pc = "ok", !.token = 0, !.items = Rows(usage[call[c].acct], Limit, 0)])
    /\ UNCHANGED <<tables, secrets, boot, faults>>

PageUsage(c) ==
    /\ call[c].pc = "page"
    /\ Becomes(c, [call[c] EXCEPT !.pc = "ok", !.token = 0, !.items = Rows(usage[call[c].acct], Limit, Offset)])
    /\ UNCHANGED <<tables, secrets, boot, faults>>

(* An error after n rows makes rows.Next return false like the end of the   *)
(* rows does; ListUsage never asks rows.Err and answers 200 with what it    *)
(* has.  An error before the first row may show here too (n = 0).           *)
PageCut(c, n) ==
    /\ call[c].pc = "page"
    /\ n < Rows(usage[call[c].acct], Limit, Offset)
    /\ Becomes(c, [call[c] EXCEPT !.pc = "ok", !.token = 0, !.items = n, !.cut = TRUE])
    /\ UNCHANGED <<tables, secrets, boot, faults>>

(* A statement returns an error, or Scan does, or an UPDATE did nothing.    *)
HandlerError(c) ==
    /\ call[c].pc \in {"handle", "page"}
    /\ Refused(c)
    /\ UNCHANGED <<tables, secrets, boot, faults>>

---------------------------------------------------------------------------
(* The metering consumer inserts a usage row.                               *)
Meter(n) ==
    /\ users[n] # Nobody
    /\ usage[n] < MaxUsage[n]
    /\ usage' = [usage EXCEPT ![n] = @ + 1]
    /\ UNCHANGED <<users, wallets, owner, live, secrets, boot, call, faults>>

(* Every replica serves and every request has been answered.                *)
Idle ==
    /\ \A r \in Replica : boot[r] = "serving"
    /\ \A c \in Call : call[c].pc \in {"ok", "refused"}
    /\ UNCHANGED vars

Next ==
    \/ \E r \in Replica :
          \/ SeedSelect(r) \/ SeedUser(r) \/ SeedWallet(r) \/ SeedKey(r)
          \/ SeedConflict(r) \/ Restart(r)
    \/ \E c \in Call :
          \/ \E n \in Name, p \in Password : Register(c, n, p) \/ Login(c, n, p)
          \/ RegisterWallet(c) \/ CreateAPIKey(c)
          \/ \E op \in Open, k \in secrets \cup {0} : Send(c, op, k)
          \/ Authorize(c) \/ ListAPIKeys(c) \/ GetWallet(c) \/ CountUsage(c) \/ PageUsage(c)
          \/ \E k \in Key : RevokeAPIKey(c, k)
          \/ \E n \in 0 .. Limit : PageCut(c, n)
          \/ HandlerError(c)
    \/ \E n \in Name : Meter(n)
    \/ Idle

Spec == Init /\ [][Next]_vars

---------------------------------------------------------------------------
(* Properties.                                                              *)

(* Rows refer to users that exist, as the foreign keys demand, and requests *)
(* and replicas are where the code can be.                                  *)
TypeOK ==
    /\ users \in [Name -> Password \cup {Nobody}]
    /\ wallets \subseteq {n \in Name : users[n] # Nobody}
    /\ owner \in [Key -> {n \in Name : users[n] # Nobody} \cup {Nobody}]
    /\ live \subseteq {k \in Key : owner[k] # Nobody}
    /\ secrets \subseteq {k \in Key : owner[k] # Nobody}
    /\ usage \in [Name -> Nat]
    /\ boot \in [Replica -> {"select", "user", "wallet", "key", "serving"}]
    /\ call \in [Call -> Request]
    /\ faults \in Nat

(* A client that was answered 201 has the account it asked for: its own     *)
(* password, a wallet, and a key of that account -- whatever else was       *)
(* registered or seeded under the same name meanwhile, and failed.          *)
CreatedIsComplete ==
    \A c \in Call : call[c].pc = "ok" /\ call[c].op = "register" =>
        /\ users[call[c].acct] = call[c].pw
        /\ call[c].acct \in wallets
        /\ \A k \in call[c].got : owner[k] = call[c].acct

(* While a replica serves, the default account exists with the configured   *)
(* password: no client can have registered its name first, however the      *)
(* replicas race and restart.                                               *)
DefaultSeeded == Serving => users[DefaultName] = DefaultPassword

(* A key that was revoked before a request was sent lets it do nothing.     *)
RevokedStaysOut == \A c \in Call : call[c].late => call[c].pc = "auth"

(* Only a request of its owner revokes a key; revoked it stays, and it      *)
(* never changes hands.                                                     *)
RevokedByOwner ==
    [][\A k \in Key :
          /\ owner[k] # Nobody => owner'[k] = owner[k]
          /\ k \notin live /\ owner[k] # Nobody => k \notin live'
          /\ k \in live \ live' =>
                \E c \in Call : Handles(c, "revoke") /\ ~Handles(c, "revoke")'
                                /\ call[c].acct = owner[k]]_vars

Making(n) ==
    \/ \E c \in Call : call[c].pc = "wallet" /\ call[c].acct = n
    \/ n = DefaultName /\ \E r \in Replica : boot[r] = "wallet"

(* An account without a wallet, on which every request for audio and for    *)
(* the balance fails for good, is one being made or the remains of a fault. *)
WalletlessByFault ==
    Cardinality({n \in Name : users[n] # Nobody /\ n \notin wallets /\ ~Making(n)}) <= faults

(* Total and page of a ListUsage response come from two reads, and rows are *)
(* inserted between them.  A page read to its end holds every row the total *)
(* promises at this limit and offset, and more only by rows the account     *)
(* really has: a total smaller than the page is an earlier count of it.     *)
(* Fewer rows than the total promises are the mark of a reading cut off.    *)
PageMatchesTotal ==
    \A c \in Call : call[c].pc = "ok" /\ call[c].op = "usage" =>
        /\ call[c].total <= usage[call[c].acct]
        /\ call[c].items <= Rows(usage[call[c].acct], Limit, Offset)
        /\ call[c].items < Rows(call[c].total, Limit, Offset) => call[c].cut
=============================================================================

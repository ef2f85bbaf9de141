------------------------------- MODULE Ledger -------------------------------
(***************************************************************************)
(* What the billing pipeline promises about money, whatever the road an    *)
(* amount travels: delivering audio makes a user owe its price; a charge   *)
(* takes from the wallet some amount the user owes and has not paid, in    *)
(* one indivisible step, and stops at zero.  A charge may come late or     *)
(* never; it may not come twice and may not run ahead of the delivery.     *)
(* Overcharge is no step of the ledger: it names what a pipeline that      *)
(* counts something twice does instead of Charge.                          *)
(***************************************************************************)
EXTENDS Integers

CONSTANTS User, InitialBalance

VARIABLES owed,     \* price of the audio delivered to each user so far
          paid,     \* what wallet debits have claimed of it
          balance   \* wallets.balance_usd

vars == <<owed, paid, balance>>

Init == /\ owed = [u \in User |-> 0]
        /\ paid = [u \in User |-> 0]
        /\ balance = InitialBalance

Deliver(u) ==
    /\ UNCHANGED <<paid, balance>>
    /\ owed'[u] > owed[u]
    /\ owed'[u] \in Nat
    /\ owed' = [owed EXCEPT ![u] = owed'[u]]

Take(u, amount) ==
    /\ amount > 0
    /\ paid' = [paid EXCEPT ![u] = @ + amount]
    /\ balance' = [balance EXCEPT ![u] = IF @ >= amount THEN @ - amount ELSE 0]
    /\ UNCHANGED owed

Charge(u) ==
    LET amount == paid'[u] - paid[u]
    IN  amount <= owed[u] - paid[u] /\ Take(u, amount)

Overcharge(u) ==
    LET amount == paid'[u] - paid[u]
    IN  amount > owed[u] - paid[u] /\ Take(u, amount)

Next == \E u \in User : Deliver(u) \/ Charge(u)

Spec == Init /\ [][Next]_vars
=============================================================================

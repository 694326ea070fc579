------------------------------ MODULE Reservations ------------------------------
(***************************************************************************)
(* What the hold pattern promises about the cached balances, without       *)
(* reads, retries and rollbacks: what may be spent goes down only when it  *)
(* is reserved, in one step, in full, and never below zero.  Whatever else *)
(* happens (a rollback, a settlement, a cancellation) frees.               *)
(***************************************************************************)
EXTENDS Integers

CONSTANTS Accounts
VARIABLES available, locked
balances == <<available, locked>>

Init ==
    /\ available \in [Accounts -> Nat]
    /\ locked = [a \in Accounts |-> 0]

Reserve(a, amount) ==
    /\ 0 =< amount /\ amount =< available[a]
    /\ available' = [available EXCEPT ![a] = @ - amount]
    /\ locked' = [locked EXCEPT ![a] = @ + amount]

Free ==
    \A a \in Accounts : available'[a] >= available[a] /\ locked'[a] =< locked[a]

Next == Free \/ \E a \in Accounts : Reserve(a, available[a] - available'[a])
Spec == Init /\ [][Next]_balances
=================================================================================

-------------------------------- MODULE Ledger ---------------------------------
(***************************************************************************)
(* What the settlement of trades promises, without streams, daemons, row   *)
(* locks or caches: every trade is posted at most once, and posting moves  *)
(* its cash and its shares between two portfolios in one step.             *)
(***************************************************************************)
EXTENDS Integers

CONSTANTS Users, Trades, StartCash, StartShares

VARIABLES
    cash,       \* the cash balance of each portfolio
    shares,     \* the quantity of each position
    posted      \* the trades the ledger records

ledgerVars == <<cash, shares, posted>>

Init ==
    /\ cash = [u \in Users |-> StartCash]
    /\ shares = [u \in Users |-> StartShares]
    /\ posted = {}

Move(balance, from, to, amount) ==
    [[balance EXCEPT ![from] = @ - amount] EXCEPT ![to] = @ + amount]

Post(t) ==
    /\ t \notin posted
    /\ posted' = posted \cup {t}
    /\ cash' = Move(cash, t.buyer, t.seller, t.settled)
    /\ shares' = Move(shares, t.seller, t.buyer, t.quantity)

Next == \E t \in Trades : Post(t)
Spec == Init /\ [][Next]_ledgerVars
================================================================================

---------------------------- MODULE MC_CancelDaemon ----------------------------
(* A small instance of the recording of cancellations. *)
EXTENDS CancelDaemon

\* Cancellations are told apart only by whether their owner has a portfolio.
InOrder ==
    \A m, n \in DOMAIN stream :
       m < n /\ {stream[m], stream[n]} \cap Orphans = {} => stream[m] < stream[n]
================================================================================

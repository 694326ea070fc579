------------------------------ MODULE CancelDaemon -----------------------------
(***************************************************************************)
(* The way of a cancellation from the order API to Postgres                *)
(* (core_ledger/management/commands/settle_cancelled_orders.py).  It is    *)
(* the trade daemon's way, but for one thing: only a missing portfolio is  *)
(* handled where a message is processed; every other exception leaves the  *)
(* message loop, and the rest of the batch with it.  One Redis call or     *)
(* Postgres transaction is one step.  A cancellation stands for its        *)
(* message and the message's id.                                           *)
(***************************************************************************)
EXTENDS Integers, Sequences, FiniteSetsExt, SequencesExt

CONSTANTS
    Cancels,      \* the cancellations the engine may publish
    Orphans,      \* those whose owner has no portfolio
    Daemons,      \* the running copies of the management command
    MaxLen,       \* the maxlen of XADD
    Faults        \* bound: how many faults may happen

ASSUME OrphansAssumption == Orphans \subseteq Cancels
ASSUME NumbersAssumption == MaxLen \in Nat /\ Faults \in Nat

VARIABLES
    stream,     \* cancelled_order_stream, with the entries trimmed from it
    trimmed,    \* how many entries the cap removed at its front
    group,      \* whether the consumer group django_cancel_workers exists
    delivered,  \* the group's last delivered position
    pel,        \* the group's pending entries: delivered, not acknowledged
    pc,         \* what each daemon does next
    batch,      \* the messages each daemon has still to process
    rows,       \* the CancelledOrders rows, in the order of their commits
    faults

streamVars == <<stream, trimmed, group, delivered>>
daemonVars == <<pc, batch>>
vars == <<streamVars, pel, daemonVars, rows, faults>>

Recorded(c) == c \in ToSet(rows)
Current(d) == Head(batch[d])

Init ==
    /\ stream = <<>> /\ trimmed = 0
    /\ group = FALSE /\ delivered = 0 /\ pel = {}
    /\ pc = [d \in Daemons |-> "down"]
    /\ batch = [d \in Daemons |-> <<>>]
    /\ rows = <<>>
    /\ faults = 0

\* XADD with MAXLEN ~ of delete_order: any number of the oldest entries down to
\* the cap may go, whether or not they were read.
Publish(c) ==
    /\ c \notin ToSet(stream)
    /\ stream' = Append(stream, c)
    /\ trimmed' \in trimmed .. Len(stream) + 1
    /\ trimmed' > trimmed => Len(stream) + 1 - trimmed' >= MaxLen
    /\ UNCHANGED <<group, delivered, pel, daemonVars, rows, faults>>

(***************************************************************************)
(* The loop of handle.                                                     *)
(***************************************************************************)
\* Bug: the group is created at the end of the stream ("$").
BugStart(d) ==
    /\ pc[d] = "down"
    /\ pc' = [pc EXCEPT ![d] = "read"]
    /\ group' = TRUE
    /\ delivered' = IF group THEN delivered ELSE Len(stream)
    /\ UNCHANGED <<stream, trimmed, pel, batch, rows, faults>>
Start(d) ==
    /\ pc[d] = "down"
    /\ pc' = [pc EXCEPT ![d] = "read"]
    /\ group' = TRUE
    /\ UNCHANGED <<stream, trimmed, delivered, pel, batch, rows, faults>>

First == 1 + IF delivered > trimmed THEN delivered ELSE trimmed
Unread == SubSeq(stream, First, Len(stream))
Read(d) ==
    /\ pc[d] = "read" /\ group /\ Unread # <<>>
    /\ batch' = [batch EXCEPT ![d] = Unread]
    /\ delivered' = Len(stream)
    /\ pel' = pel \cup ToSet(Unread)
    /\ pc' = [pc EXCEPT ![d] = "check"]
    /\ UNCHANGED <<stream, trimmed, group, rows, faults>>
\* The read times out, or fails because the group is gone, and is repeated.
Poll(d) ==
    /\ pc[d] = "read" /\ (~group \/ Unread = <<>>)
    /\ UNCHANGED vars

\* Bug: the end of the batch is not noticed.
BugNextMessage(d) ==
    /\ batch' = [batch EXCEPT ![d] = Tail(@)]
    /\ pc' = [pc EXCEPT ![d] = "check"]
NextMessage(d) ==
    /\ batch' = [batch EXCEPT ![d] = Tail(@)]
    /\ pc' = [pc EXCEPT ![d] = IF Len(batch[d]) > 1 THEN "check" ELSE "read"]
\* An exception leaves the batch to handle, which goes on with the next one.
DropBatch(d, next) ==
    /\ batch' = [batch EXCEPT ![d] = <<>>]
    /\ pc' = [pc EXCEPT ![d] = next]

(***************************************************************************)
(* process_cancelled_trades_stream.                                        *)
(***************************************************************************)
\* Bug: every message is acknowledged on receipt.
BugAckOn(d, condition) == pel' = pel \ {Current(d)}
AckOn(d, condition) == pel' = IF condition THEN pel \ {Current(d)} ELSE pel

\* A message that has its row is acknowledged and skipped.
Check(d) ==
    /\ pc[d] = "check"
    /\ AckOn(d, Recorded(Current(d)))
    /\ IF Recorded(Current(d)) THEN NextMessage(d)
       ELSE pc' = [pc EXCEPT ![d] = "create"] /\ UNCHANGED batch
    /\ UNCHANGED <<streamVars, rows, faults>>
\* Portfolio.DoesNotExist: nothing is recorded, the message is acknowledged.
Orphaned(d) ==
    /\ pc[d] = "create" /\ Current(d) \in Orphans
    /\ AckOn(d, TRUE)
    /\ NextMessage(d)
    /\ UNCHANGED <<streamVars, rows, faults>>
\* Bug: stream_order_id is not unique.
BugUnique(c) == TRUE
Unique(c) == ~Recorded(c)
Creates(d) == pc[d] = "create" /\ Current(d) \notin Orphans /\ Unique(Current(d))
Create(d) ==
    /\ Creates(d)
    /\ rows' = Append(rows, Current(d))
    /\ pc' = [pc EXCEPT ![d] = "ack"]
    /\ UNCHANGED <<streamVars, pel, batch, faults>>
\* The row another daemon has created since: the IntegrityError is not handled.
Refuse(d) ==
    /\ pc[d] = "create" /\ Current(d) \notin Orphans /\ ~Unique(Current(d))
    /\ DropBatch(d, "read")
    /\ UNCHANGED <<streamVars, pel, rows, faults>>
\* The on_commit hook.
Ack(d) ==
    /\ pc[d] = "ack"
    /\ AckOn(d, TRUE)
    /\ NextMessage(d)
    /\ UNCHANGED <<streamVars, rows, faults>>

(***************************************************************************)
(* Faults.                                                                 *)
(***************************************************************************)
Fault == faults < Faults /\ faults' = faults + 1

\* A call to Redis or Postgres raises.
CallFails(d) ==
    /\ pc[d] \in {"check", "create", "ack"} /\ Fault
    /\ DropBatch(d, "read")
    /\ UNCHANGED <<streamVars, pel, rows>>
\* The connection is lost during COMMIT, after Postgres has committed.
LoseCommit(d) ==
    /\ Creates(d) /\ Fault
    /\ rows' = Append(rows, Current(d))
    /\ DropBatch(d, "read")
    /\ UNCHANGED <<streamVars, pel>>
Crash(d) ==
    /\ pc[d] # "down" /\ Fault
    /\ batch' = [batch EXCEPT ![d] = <<>>]
    /\ pc' = [pc EXCEPT ![d] = "down"]
    /\ UNCHANGED <<streamVars, pel, rows>>
\* Redis restarts from a snapshot in which the group had been given less of the
\* stream, or did not exist yet.
Rewind ==
    /\ Fault
    /\ group' \in {group, FALSE}
    /\ delivered' \in IF group' THEN 0 .. delivered ELSE {0}
    /\ pel' = pel \cap ToSet(SubSeq(stream, 1, delivered'))
    /\ UNCHANGED <<stream, trimmed, daemonVars, rows>>

Run(d) ==
    Start(d) \/ Read(d) \/ Check(d) \/ Orphaned(d) \/ Create(d) \/ Refuse(d) \/ Ack(d)
Next ==
    \/ \E c \in Cancels : Publish(c)
    \/ \E d \in Daemons : Run(d) \/ Poll(d)
    \/ \E d \in Daemons : CallFails(d) \/ LoseCommit(d) \/ Crash(d)
    \/ Rewind
\* A daemon that is down is started (by compose at first, after a crash by
\* whoever restarts it), and one that can go on does.
FairSpec == Init /\ [][Next]_vars /\ \A d \in Daemons : WF_vars(Run(d))

(***************************************************************************)
(* Properties.                                                             *)
(***************************************************************************)
Busy == {"check", "create", "ack"}
\* The fields keep their types, the group's positions stay inside the stream,
\* and exactly the daemons inside the message loop have a message.
TypeOK ==
    /\ stream \in Seq(Cancels) /\ trimmed \in 0 .. Len(stream)
    /\ group \in BOOLEAN /\ delivered \in 0 .. Len(stream)
    /\ pel \subseteq Cancels
    /\ pc \in [Daemons -> Busy \cup {"down", "read"}]
    /\ batch \in [Daemons -> Seq(Cancels)]
    /\ \A d \in Daemons : pc[d] \in Busy <=> batch[d] # <<>>
    /\ rows \in Seq(Cancels)
    /\ faults \in Nat

\* Whatever fails and whatever is delivered twice, a message the group was given
\* and that is not pending any more is recorded, or its owner has no portfolio:
\* what a dropped batch has lost can be found in the pending entries.
AckOnlyRecorded ==
    \A n \in (trimmed + 1) .. delivered :
       stream[n] \in pel \cup ToSet(rows) \cup Orphans

\* settle_cancelled_orders.py, "duplication_rejection": a message that two
\* daemons have in hand, or that comes again after a lost commit or a restart of
\* Redis, is recorded once, and never for an owner without a portfolio.
RecordedOnce ==
    /\ \A m, n \in DOMAIN rows : rows[m] = rows[n] => m = n
    /\ ToSet(rows) \cap Orphans = {}

\* handle catches whatever happens and reads on: after the last fault, once no
\* daemon has a message in hand, every cancellation that the group was not given
\* is recorded, unless the cap takes it first.  (With one in hand that comes again,
\* the refused duplicate takes the rest of its batch with it.  A group that is
\* gone is created by the next daemon to start.)
ReadsOn ==
    \A n \in 1 .. Cardinality(Cancels) :
       /\ faults = Faults /\ \A d \in Daemons : batch[d] = <<>>
       /\ group \/ \E d \in Daemons : pc[d] = "down"
       /\ n \in First .. Len(stream)
       ~> n =< trimmed \/ (n =< Len(stream) /\ stream[n] \in ToSet(rows) \cup Orphans)
================================================================================

--------------------------- MODULE CancelDaemonProofs --------------------------
(***************************************************************************)
(* Theorems about the recording of cancellations, for every set of         *)
(* cancellations and daemons, every cap of the stream and any number of    *)
(* faults.                                                                 *)
(***************************************************************************)
EXTENDS CancelDaemon, SequenceTheorems, TLAPS

\* What a daemon runs the on_commit hook for has its row.
HookAfterCommit == \A d \in Daemons : pc[d] = "ack" => Recorded(Current(d))

\* AckOnlyRecorded is inductive only with HookAfterCommit: the hook acknowledges
\* without a look at the rows.
IInv == TypeOK /\ HookAfterCommit /\ AckOnlyRecorded /\ RecordedOnce

\* TypeOK in two parts: Redis and Postgres ...
StoreTypes ==
    /\ stream \in Seq(Cancels) /\ trimmed \in 0 .. Len(stream)
    /\ group \in BOOLEAN /\ delivered \in 0 .. Len(stream)
    /\ pel \subseteq Cancels
    /\ rows \in Seq(Cancels)
    /\ faults \in Nat
\* ... and the daemons.
LoopTypes ==
    /\ pc \in [Daemons -> Busy \cup {"down", "read"}]
    /\ batch \in [Daemons -> Seq(Cancels)]
    /\ \A d \in Daemons : pc[d] \in Busy <=> batch[d] # <<>>

\* The two parts make up TypeOK, before and after a step.
LEMMA TypeParts ==
    /\ TypeOK <=> StoreTypes /\ LoopTypes
    /\ TypeOK' <=> StoreTypes' /\ LoopTypes'
BY DEF TypeOK, StoreTypes, LoopTypes

(***************************************************************************)
(* Sequences.                                                              *)
(***************************************************************************)
\* Appending adds one element to a sequence and moves none.
LEMMA Appended ==
    ASSUME NEW S, NEW s \in Seq(S), NEW x \in S
    PROVE  /\ Append(s, x) \in Seq(S) /\ Len(Append(s, x)) = Len(s) + 1
           /\ DOMAIN Append(s, x) = DOMAIN s \cup {Len(s) + 1}
           /\ \A n \in DOMAIN s : Append(s, x)[n] = s[n]
           /\ Append(s, x)[Len(s) + 1] = x
           /\ ToSet(Append(s, x)) = ToSet(s) \cup {x}
<1>1. /\ Append(s, x) \in Seq(S) /\ Len(Append(s, x)) = Len(s) + 1
      /\ \A n \in DOMAIN s : Append(s, x)[n] = s[n]
      /\ Append(s, x)[Len(s) + 1] = x
  OBVIOUS
<1>2. DOMAIN Append(s, x) = DOMAIN s \cup {Len(s) + 1}
  OBVIOUS
<1>3. ToSet(Append(s, x)) = ToSet(s) \cup {x}
  BY <1>1, <1>2, Zenon DEF ToSet
<1>4. QED
  BY <1>1, <1>2, <1>3

\* What lies between two positions of a sequence is what the subsequence holds.
LEMMA Between ==
    ASSUME NEW S, NEW s \in Seq(S), NEW m \in Nat \ {0}, NEW k \in Nat, k =< Len(s)
    PROVE  /\ SubSeq(s, m, k) \in Seq(S) /\ ToSet(SubSeq(s, m, k)) \subseteq S
           /\ \A n \in m .. k : s[n] \in ToSet(SubSeq(s, m, k))
<1>1. \A i \in m .. k : s[i] \in S
  <2>1. m .. k \subseteq 1 .. Len(s)
    OBVIOUS
  <2>2. QED
    BY <2>1
<1>2. SubSeq(s, m, k) \in Seq(S)
  BY <1>1, SubSeqProperties
<1>3. ToSet(SubSeq(s, m, k)) \subseteq S
  <2>1. \A i \in DOMAIN SubSeq(s, m, k) : SubSeq(s, m, k)[i] \in S
    BY <1>2
  <2>2. QED
    BY <2>1 DEF ToSet
<1>4. ASSUME NEW n \in m .. k PROVE s[n] \in ToSet(SubSeq(s, m, k))
  <2>1. /\ Len(SubSeq(s, m, k)) = k - m + 1
        /\ \A i \in 1 .. k - m + 1 : SubSeq(s, m, k)[i] = s[m + i - 1]
    <3>1. m =< k /\ m \in Int /\ k \in Int
      OBVIOUS
    <3>2. QED
      BY <1>1, <3>1, SubSeqProperties
  <2>2. n - m + 1 \in 1 .. k - m + 1 /\ m + (n - m + 1) - 1 = n
    OBVIOUS
  <2>3. SubSeq(s, m, k)[n - m + 1] = s[n] /\ n - m + 1 \in DOMAIN SubSeq(s, m, k)
    BY <1>2, <2>1, <2>2
  <2>4. QED
    BY <2>3 DEF ToSet
<1>5. QED
  BY <1>2, <1>3, <1>4

\* A sequence that is not empty has a length.
LEMMA NonEmpty ==
    ASSUME NEW S, NEW s \in Seq(S)
    PROVE  s # <<>> <=> Len(s) > 0
OBVIOUS

\* What is not trimmed after an XADD was not trimmed before it.
LEMMA Narrow ==
    ASSUME NEW a \in Nat, NEW b \in Nat, a =< b,
           NEW c \in Nat, NEW l \in Nat, c =< l
    PROVE  \A n \in (b + 1) .. c : n \in (a + 1) .. c /\ n \in 1 .. l
OBVIOUS

(***************************************************************************)
(* The steps of a batch.                                                   *)
(***************************************************************************)
\* A daemon inside the message loop has a cancellation in hand.
LEMMA InHand ==
    ASSUME LoopTypes, NEW d \in Daemons, pc[d] \in Busy
    PROVE  /\ batch[d] \in Seq(Cancels) /\ batch[d] # <<>> /\ Current(d) \in Cancels
           /\ Tail(batch[d]) \in Seq(Cancels)
           /\ Tail(batch[d]) # <<>> <=> Len(batch[d]) > 1
<1>1. batch[d] \in Seq(Cancels) /\ batch[d] # <<>>
  BY DEF LoopTypes
<1>2. /\ Head(batch[d]) \in Cancels /\ Tail(batch[d]) \in Seq(Cancels)
      /\ Len(Tail(batch[d])) = Len(batch[d]) - 1 /\ Len(batch[d]) \in Nat
  BY <1>1, HeadTailProperties
<1>3. Tail(batch[d]) # <<>> <=> Len(Tail(batch[d])) > 0
  BY <1>2, NonEmpty
<1>4. QED
  BY <1>1, <1>2, <1>3 DEF Current

\* What a step of daemon d leaves of the daemons' state.
Others(d) == \A e \in Daemons \ {d} : pc'[e] = pc[e] /\ batch'[e] = batch[e]

\* Going on with the batch, or leaving the message loop with the last of it ...
LEMMA NextMessageLoop ==
    ASSUME LoopTypes, NEW d \in Daemons, pc[d] \in Busy, NextMessage(d)
    PROVE  LoopTypes' /\ Others(d) /\ pc'[d] \in {"check", "read"}
<1>1. /\ Tail(batch[d]) \in Seq(Cancels)
      /\ Tail(batch[d]) # <<>> <=> Len(batch[d]) > 1
  BY InHand
<1>2. /\ batch' \in [Daemons -> Seq(Cancels)] /\ batch'[d] = Tail(batch[d])
      /\ \A e \in Daemons \ {d} : batch'[e] = batch[e]
  BY <1>1 DEF NextMessage, LoopTypes
<1>3. /\ pc' \in [Daemons -> Busy \cup {"down", "read"}]
      /\ pc'[d] = (IF Len(batch[d]) > 1 THEN "check" ELSE "read")
      /\ \A e \in Daemons \ {d} : pc'[e] = pc[e]
  BY DEF NextMessage, LoopTypes, Busy
<1>4. \A e \in Daemons : pc'[e] \in Busy <=> batch'[e] # <<>>
  BY <1>1, <1>2, <1>3 DEF LoopTypes, Busy
<1>5. QED
  BY <1>2, <1>3, <1>4 DEF LoopTypes, Others

\* ... leaving the batch, or the program, in the middle ...
LEMMA DropBatchLoop ==
    ASSUME LoopTypes, NEW d \in Daemons, NEW next \in {"read", "down"}, DropBatch(d, next)
    PROVE  LoopTypes' /\ Others(d) /\ pc'[d] = next
<1>1. /\ batch' \in [Daemons -> Seq(Cancels)] /\ batch'[d] = <<>>
      /\ \A e \in Daemons \ {d} : batch'[e] = batch[e]
  BY DEF DropBatch, LoopTypes
<1>2. /\ pc' \in [Daemons -> Busy \cup {"down", "read"}] /\ pc'[d] = next
      /\ \A e \in Daemons \ {d} : pc'[e] = pc[e]
  BY DEF DropBatch, LoopTypes
<1>3. \A e \in Daemons : pc'[e] \in Busy <=> batch'[e] # <<>>
  BY <1>1, <1>2 DEF LoopTypes, Busy
<1>4. QED
  BY <1>1, <1>2, <1>3 DEF LoopTypes, Others

\* ... and the next call about the same message.
LEMMA SameMessageLoop ==
    ASSUME LoopTypes, NEW d \in Daemons, pc[d] \in Busy, NEW next \in Busy,
           pc' = [pc EXCEPT ![d] = next], UNCHANGED batch
    PROVE  LoopTypes' /\ Others(d) /\ pc'[d] = next /\ Current(d)' = Current(d)
BY DEF LoopTypes, Others, Current, Busy

(***************************************************************************)
(* What keeps the other invariants.                                        *)
(***************************************************************************)
\* A step of daemon d that leaves it before the hook, or in the hook of a message
\* that has its row.
LEMMA HookKept ==
    ASSUME HookAfterCommit, NEW d \in Daemons, Others(d), ToSet(rows) \subseteq ToSet(rows'),
           pc'[d] = "ack" => Head(batch'[d]) \in ToSet(rows')
    PROVE  HookAfterCommit'
BY DEF HookAfterCommit, Others, Current, Recorded

\* What leaves the pending entries is recorded or has no portfolio.
LEMMA AckKept ==
    ASSUME AckOnlyRecorded, UNCHANGED <<stream, trimmed, delivered>>,
           ToSet(rows) \subseteq ToSet(rows'),
           pel \subseteq pel' \cup ToSet(rows) \cup Orphans
    PROVE  AckOnlyRecorded'
BY DEF AckOnlyRecorded

\* The store keeps its types while pending entries are only removed.
LEMMA StoreKept ==
    ASSUME StoreTypes, UNCHANGED <<streamVars, rows>>, pel' \subseteq pel, faults' \in Nat
    PROVE  StoreTypes'
BY DEF StoreTypes, streamVars

\* An acknowledgement removes the message in hand, if anything.
LEMMA Acked ==
    ASSUME NEW d, NEW condition \in BOOLEAN, AckOn(d, condition)
    PROVE  /\ pel' \subseteq pel
           /\ pel \subseteq pel' \cup (IF condition THEN {Current(d)} ELSE {})
BY DEF AckOn

\* A row is created once, and only for an owner who has a portfolio.
LEMMA RowAdded ==
    ASSUME StoreTypes, LoopTypes, RecordedOnce, NEW d \in Daemons, Creates(d),
           rows' = Append(rows, Current(d))
    PROVE  /\ rows' \in Seq(Cancels) /\ RecordedOnce'
           /\ ToSet(rows') = ToSet(rows) \cup {Current(d)}
<1> DEFINE c == Current(d)
<1>1. c \in Cancels /\ c \notin Orphans /\ c \notin ToSet(rows)
  BY InHand DEF Creates, Busy, Unique, Recorded
<1>2. rows \in Seq(Cancels)
  BY DEF StoreTypes
<1>3. /\ rows' \in Seq(Cancels)
      /\ DOMAIN rows' = DOMAIN rows \cup {Len(rows) + 1}
      /\ \A n \in DOMAIN rows : rows'[n] = rows[n]
      /\ rows'[Len(rows) + 1] = c
      /\ ToSet(rows') = ToSet(rows) \cup {c}
  BY <1>1, <1>2, Appended
<1>4. \A n \in DOMAIN rows : rows[n] # c
  BY <1>1 DEF ToSet
<1>5. \A m, n \in DOMAIN rows' : rows'[m] = rows'[n] => m = n
  <2>1. \A m, n \in DOMAIN rows : rows[m] = rows[n] => m = n
    BY DEF RecordedOnce
  <2>2. \A n \in DOMAIN rows : rows'[n] # c
    BY <1>3, <1>4
  <2>3. QED
    BY <1>3, <2>1, <2>2, Zenon
<1>6. ToSet(rows') \cap Orphans = {}
  BY <1>1, <1>3 DEF RecordedOnce
<1>7. QED
  BY <1>3, <1>5, <1>6 DEF RecordedOnce

(***************************************************************************)
(* The steps.                                                              *)
(***************************************************************************)
\* Nothing has happened yet.
LEMMA InitInv == Init => IInv
<1> SUFFICES ASSUME Init PROVE IInv
  OBVIOUS
<1>1. StoreTypes
  <2>1. /\ stream = <<>> /\ rows = <<>> /\ trimmed = 0 /\ delivered = 0
        /\ group = FALSE /\ pel = {} /\ faults = 0
    BY DEF Init
  <2>2. <<>> \in Seq(Cancels) /\ 0 \in 0 .. Len(<<>>)
    OBVIOUS
  <2>3. QED
    BY <2>1, <2>2 DEF StoreTypes
<1>2. LoopTypes
  BY DEF Init, LoopTypes, Busy
<1>3. HookAfterCommit /\ AckOnlyRecorded /\ RecordedOnce
  BY DEF Init, HookAfterCommit, AckOnlyRecorded, RecordedOnce, ToSet
<1>4. QED
  BY <1>1, <1>2, <1>3, TypeParts DEF IInv

\* An XADD moves no entry, and what it trims the invariant does not speak of.
LEMMA PublishInv == ASSUME IInv, NEW c \in Cancels, Publish(c) PROVE IInv'
<1>1. StoreTypes /\ LoopTypes
  BY TypeParts DEF IInv
<1>2. /\ stream \in Seq(Cancels) /\ Len(stream) \in Nat
      /\ trimmed \in Nat /\ delivered \in 0 .. Len(stream)
  BY <1>1 DEF StoreTypes
<1>3. /\ stream' \in Seq(Cancels) /\ Len(stream') = Len(stream) + 1
      /\ \A n \in 1 .. Len(stream) : stream'[n] = stream[n]
  BY <1>2, Appended DEF Publish
<1>4. trimmed' \in 0 .. Len(stream') /\ trimmed =< trimmed'
  BY <1>2, <1>3 DEF Publish
<1>5. UNCHANGED <<group, delivered, pel, pc, batch, rows, faults>>
  BY DEF Publish, daemonVars
<1>6. StoreTypes'
  BY <1>1, <1>2, <1>3, <1>4, <1>5 DEF StoreTypes
<1>7. LoopTypes'
  BY <1>1, <1>5 DEF LoopTypes
<1>8. HookAfterCommit' /\ RecordedOnce'
  BY <1>5 DEF IInv, HookAfterCommit, Recorded, Current, RecordedOnce
<1>9. AckOnlyRecorded'
  <2>1. \A n \in (trimmed' + 1) .. delivered :
           n \in (trimmed + 1) .. delivered /\ n \in 1 .. Len(stream)
    <3>1. trimmed' \in Nat /\ delivered \in Nat /\ delivered =< Len(stream)
      BY <1>2, <1>3, <1>4
    <3>2. QED
      BY <1>2, <1>4, <3>1, Narrow
  <2>2. \A n \in (trimmed' + 1) .. delivered :
           stream'[n] \in pel \cup ToSet(rows) \cup Orphans
    BY <1>3, <2>1 DEF IInv, AckOnlyRecorded
  <2>3. QED
    BY <1>5, <2>2 DEF AckOnlyRecorded
<1>10. QED
  BY <1>6, <1>7, <1>8, <1>9, TypeParts DEF IInv

\* Starting the command changes no message.
LEMMA StartInv == ASSUME IInv, NEW d \in Daemons, Start(d) PROVE IInv'
<1>1. StoreTypes /\ LoopTypes
  BY TypeParts DEF IInv
<1>2. StoreTypes' /\ RecordedOnce' /\ AckOnlyRecorded'
  BY <1>1 DEF IInv, StoreTypes, RecordedOnce, AckOnlyRecorded, Start
<1>3. LoopTypes' /\ Others(d) /\ pc'[d] = "read"
  BY <1>1 DEF LoopTypes, Others, Start, Busy
<1>4. HookAfterCommit'
  BY <1>3, HookKept DEF IInv, Start
<1>5. QED
  BY <1>2, <1>3, <1>4, TypeParts DEF IInv

\* What a read moves the group's position over becomes pending.
LEMMA ReadInv == ASSUME IInv, NEW d \in Daemons, Read(d) PROVE IInv'
<1>1. StoreTypes /\ LoopTypes
  BY TypeParts DEF IInv
<1>2. /\ stream \in Seq(Cancels) /\ Len(stream) \in Nat
      /\ trimmed \in Nat /\ delivered \in Nat /\ First \in Nat \ {0}
  BY <1>1 DEF StoreTypes, First
<1>3. /\ Unread \in Seq(Cancels) /\ ToSet(Unread) \subseteq Cancels
      /\ \A n \in First .. Len(stream) : stream[n] \in ToSet(Unread)
  BY <1>2, Between DEF Unread
<1>4. StoreTypes'
  BY <1>1, <1>2, <1>3 DEF StoreTypes, Read
<1>5. /\ LoopTypes' /\ Others(d) /\ pc'[d] = "check"
  BY <1>1, <1>3 DEF LoopTypes, Others, Read, Busy
<1>6. HookAfterCommit' /\ RecordedOnce'
  BY <1>5, HookKept DEF IInv, RecordedOnce, Read
<1>7. AckOnlyRecorded'
  <2>1. SUFFICES ASSUME NEW n \in (trimmed + 1) .. Len(stream)
                 PROVE  stream[n] \in pel \cup ToSet(Unread) \cup ToSet(rows) \cup Orphans
    BY DEF AckOnlyRecorded, Read
  <2>2. CASE n =< delivered
    BY <1>2, <2>2 DEF IInv, AckOnlyRecorded
  <2>3. CASE n > delivered
    <3>1. n \in First .. Len(stream)
      BY <1>2, <2>3 DEF First
    <3>2. QED
      BY <1>3, <3>1
  <2>4. QED
    BY <1>2, <2>2, <2>3
<1>8. QED
  BY <1>4, <1>5, <1>6, <1>7, TypeParts DEF IInv

\* A step of the message loop that acknowledges the message in hand, or nothing,
\* and creates no row.
LEMMA AckStepInv ==
    ASSUME IInv, NEW d \in Daemons, LoopTypes', Others(d),
           NEW condition \in BOOLEAN, AckOn(d, condition),
           condition => Recorded(Current(d)) \/ Current(d) \in Orphans,
           UNCHANGED <<streamVars, rows, faults>>, pc'[d] # "ack"
    PROVE  IInv'
<1>1. StoreTypes /\ pel' \subseteq pel
      /\ pel \subseteq pel' \cup (IF condition THEN {Current(d)} ELSE {})
  BY TypeParts, Acked DEF IInv
<1>2. StoreTypes'
  BY <1>1, StoreKept DEF StoreTypes
<1>3. HookAfterCommit' /\ RecordedOnce'
  BY HookKept DEF IInv, RecordedOnce
<1>4. pel \subseteq pel' \cup ToSet(rows) \cup Orphans
  BY <1>1 DEF Recorded
<1>5. AckOnlyRecorded'
  BY <1>4, AckKept DEF IInv, streamVars
<1>6. QED
  BY <1>2, <1>3, <1>5, TypeParts DEF IInv

\* The look for the row, and the XACK of a duplicate.
LEMMA CheckInv == ASSUME IInv, NEW d \in Daemons, Check(d) PROVE IInv'
<1>1. LoopTypes /\ pc[d] \in Busy
  BY TypeParts DEF IInv, Check, Busy
<1>2. LoopTypes' /\ Others(d) /\ pc'[d] # "ack"
  <2>1. CASE Recorded(Current(d))
    BY <1>1, <2>1, NextMessageLoop DEF Check
  <2>2. CASE ~Recorded(Current(d))
    <3>1. pc' = [pc EXCEPT ![d] = "create"] /\ UNCHANGED batch /\ "create" \in Busy
      BY <2>2 DEF Check, Busy
    <3>2. QED
      BY <1>1, <3>1, SameMessageLoop
  <2>3. QED
    BY <2>1, <2>2
<1>3. Recorded(Current(d)) \in BOOLEAN
  BY DEF Recorded
<1>4. QED
  BY <1>2, <1>3, AckStepInv DEF Check

\* An owner without a portfolio.
LEMMA OrphanedInv == ASSUME IInv, NEW d \in Daemons, Orphaned(d) PROVE IInv'
<1>1. LoopTypes /\ pc[d] \in Busy
  BY TypeParts DEF IInv, Orphaned, Busy
<1>2. LoopTypes' /\ Others(d) /\ pc'[d] # "ack"
  BY <1>1, NextMessageLoop DEF Orphaned
<1>3. QED
  BY <1>2, AckStepInv DEF Orphaned

\* The on_commit hook.
LEMMA AckInv == ASSUME IInv, NEW d \in Daemons, Ack(d) PROVE IInv'
<1>1. LoopTypes /\ pc[d] \in Busy /\ Recorded(Current(d))
  BY TypeParts DEF IInv, HookAfterCommit, Ack, Busy
<1>2. LoopTypes' /\ Others(d) /\ pc'[d] # "ack"
  BY <1>1, NextMessageLoop DEF Ack
<1>3. QED
  BY <1>1, <1>2, AckStepInv DEF Ack

\* A step that commits the row of the message in hand.
LEMMA CommitInv ==
    ASSUME IInv, NEW d \in Daemons, Creates(d), rows' = Append(rows, Current(d)),
           LoopTypes', Others(d), pc'[d] = "ack" => Current(d)' = Current(d),
           UNCHANGED <<streamVars, pel>>, faults' \in Nat
    PROVE  IInv'
<1>1. StoreTypes /\ LoopTypes /\ RecordedOnce
  BY TypeParts DEF IInv
<1>2. /\ rows' \in Seq(Cancels) /\ RecordedOnce'
      /\ ToSet(rows') = ToSet(rows) \cup {Current(d)}
  BY <1>1, RowAdded
<1>3. StoreTypes'
  BY <1>1, <1>2 DEF StoreTypes, streamVars
<1>4. HookAfterCommit'
  BY <1>2, HookKept DEF IInv, Current
<1>5. AckOnlyRecorded'
  BY <1>2, AckKept DEF IInv, streamVars
<1>6. QED
  BY <1>2, <1>3, <1>4, <1>5, TypeParts DEF IInv

\* The transaction.
LEMMA CreateInv == ASSUME IInv, NEW d \in Daemons, Create(d) PROVE IInv'
<1>1. StoreTypes /\ LoopTypes /\ pc[d] \in Busy /\ "ack" \in Busy
  BY TypeParts DEF IInv, Create, Creates, Busy
<1>2. LoopTypes' /\ Others(d) /\ Current(d)' = Current(d)
  BY <1>1, SameMessageLoop DEF Create
<1>3. faults' \in Nat
  BY <1>1 DEF StoreTypes, Create
<1>4. QED
  BY <1>2, <1>3, CommitInv DEF Create

\* The same, but the daemon is not told.
LEMMA LoseCommitInv == ASSUME IInv, NEW d \in Daemons, LoseCommit(d) PROVE IInv'
<1>1. StoreTypes /\ LoopTypes
  BY TypeParts DEF IInv
<1>2. LoopTypes' /\ Others(d) /\ pc'[d] = "read"
  BY <1>1, DropBatchLoop DEF LoseCommit
<1>3. faults' \in Nat
  BY <1>1 DEF StoreTypes, LoseCommit, Fault
<1>4. QED
  BY <1>2, <1>3, CommitInv DEF LoseCommit

\* A step that only drops a daemon's batch.
LEMMA DropInv ==
    ASSUME IInv, NEW d \in Daemons, NEW next \in {"read", "down"}, DropBatch(d, next),
           UNCHANGED <<streamVars, pel, rows>>, faults' \in Nat
    PROVE  IInv'
<1>1. StoreTypes /\ LoopTypes
  BY TypeParts DEF IInv
<1>2. LoopTypes' /\ Others(d) /\ pc'[d] = next
  BY <1>1, DropBatchLoop
<1>3. StoreTypes'
  BY <1>1, StoreKept
<1>4. HookAfterCommit' /\ RecordedOnce'
  BY <1>2, HookKept DEF IInv, RecordedOnce
<1>5. AckOnlyRecorded'
  BY AckKept DEF IInv, streamVars
<1>6. QED
  BY <1>2, <1>3, <1>4, <1>5, TypeParts DEF IInv

\* A refused duplicate, a call that raises, a crash.
LEMMA LeaveInv ==
    ASSUME IInv, NEW d \in Daemons, Refuse(d) \/ CallFails(d) \/ Crash(d)
    PROVE  IInv'
<1>1. faults \in Nat
  BY TypeParts DEF IInv, StoreTypes
<1>2. CASE Refuse(d)
  BY <1>1, <1>2, DropInv DEF Refuse
<1>3. CASE CallFails(d)
  BY <1>1, <1>3, DropInv DEF CallFails, Fault
<1>4. CASE Crash(d)
  <2>1. DropBatch(d, "down")
    BY <1>4 DEF Crash, DropBatch
  <2>2. QED
    BY <1>1, <1>4, <2>1, DropInv DEF Crash, Fault
<1>5. QED
  BY <1>2, <1>3, <1>4

\* After a restart of Redis the pending entries cover what counts as delivered.
LEMMA RewindInv == ASSUME IInv, Rewind PROVE IInv'
<1>1. StoreTypes /\ LoopTypes
  BY TypeParts DEF IInv
<1>2. /\ stream \in Seq(Cancels) /\ Len(stream) \in Nat
      /\ trimmed \in Nat /\ delivered \in 0 .. Len(stream)
  BY <1>1 DEF StoreTypes
<1>3. delivered' \in 0 .. delivered
  <2>1. CASE group'
    BY <2>1 DEF Rewind
  <2>2. CASE ~group'
    BY <1>2, <2>2 DEF Rewind
  <2>3. QED
    BY <2>1, <2>2
<1>4. /\ UNCHANGED <<stream, trimmed, pc, batch, rows>>
      /\ pel' = pel \cap ToSet(SubSeq(stream, 1, delivered'))
  BY DEF Rewind, daemonVars
<1>5. group' \in BOOLEAN /\ faults' \in Nat
  <2>1. group \in BOOLEAN /\ group' \in {group, FALSE}
    BY <1>1 DEF StoreTypes, Rewind
  <2>2. faults \in Nat /\ faults' = faults + 1
    BY <1>1 DEF StoreTypes, Rewind, Fault
  <2>3. group' \in BOOLEAN
    BY <2>1
  <2>4. QED
    BY <2>2, <2>3
<1>6. StoreTypes'
  BY <1>1, <1>2, <1>3, <1>4, <1>5 DEF StoreTypes
<1>7. LoopTypes' /\ HookAfterCommit' /\ RecordedOnce'
  BY <1>1, <1>4 DEF IInv, LoopTypes, HookAfterCommit, Recorded, Current, RecordedOnce
<1>8. AckOnlyRecorded'
  <2>1. \A n \in 1 .. delivered' : stream[n] \in ToSet(SubSeq(stream, 1, delivered'))
    <3>1. 1 \in Nat \ {0} /\ delivered' \in Nat /\ delivered' =< Len(stream)
      BY <1>2, <1>3
    <3>2. QED
      BY <1>2, <3>1, Between
  <2>2. SUFFICES ASSUME NEW n \in (trimmed + 1) .. delivered'
                 PROVE  stream[n] \in pel' \cup ToSet(rows) \cup Orphans
    BY <1>4 DEF AckOnlyRecorded
  <2>3. n \in (trimmed + 1) .. delivered /\ n \in 1 .. delivered'
    BY <1>2, <1>3
  <2>4. QED
    BY <1>4, <2>1, <2>3 DEF IInv, AckOnlyRecorded
<1>9. QED
  BY <1>6, <1>7, <1>8, TypeParts DEF IInv

\* No step changes anything the invariant speaks of.
LEMMA StutterInv == ASSUME IInv, UNCHANGED vars PROVE IInv'
BY DEF IInv, TypeOK, HookAfterCommit, AckOnlyRecorded, RecordedOnce, Recorded, Current,
       vars, streamVars, daemonVars

\* Every step keeps the invariant.
LEMMA NextInv == IInv /\ [Next]_vars => IInv'
<1> SUFFICES ASSUME IInv, [Next]_vars PROVE IInv'
  OBVIOUS
<1>1. ASSUME NEW c \in Cancels, Publish(c) PROVE IInv'
  BY <1>1, PublishInv
<1>2. ASSUME NEW d \in Daemons, Run(d) PROVE IInv'
  BY <1>2, StartInv, ReadInv, CheckInv, OrphanedInv, CreateInv, LeaveInv, AckInv DEF Run
<1>3. ASSUME NEW d \in Daemons, Poll(d) PROVE IInv'
  BY <1>3, StutterInv DEF Poll
<1>4. ASSUME NEW d \in Daemons, CallFails(d) \/ LoseCommit(d) \/ Crash(d) PROVE IInv'
  BY <1>4, LeaveInv, LoseCommitInv
<1>5. CASE Rewind
  BY <1>5, RewindInv
<1>6. CASE UNCHANGED vars
  BY <1>6, StutterInv
<1>7. QED
  BY <1>1, <1>2, <1>3, <1>4, <1>5, <1>6 DEF Next

(***************************************************************************)
(* The theorems.                                                           *)
(***************************************************************************)
\* The invariant is inductive.
THEOREM Inductive == FairSpec => []IInv
BY InitInv, NextInv, PTL DEF FairSpec

\* Every field keeps its type, and a daemon has a message in hand exactly while
\* it is in the message loop.
THEOREM TypeCorrect == FairSpec => []TypeOK
<1>1. IInv => TypeOK
  BY DEF IInv
<1>2. QED
  BY <1>1, Inductive, PTL

\* However many daemons run, whatever fails and whatever Redis delivers again, a
\* message is acknowledged only when its row is committed or its owner has no
\* portfolio.
THEOREM AckAfterCommit == FairSpec => []AckOnlyRecorded
<1>1. IInv => AckOnlyRecorded
  BY DEF IInv
<1>2. QED
  BY <1>1, Inductive, PTL

\* However many daemons have a message in hand, and however often it comes back,
\* it is recorded once.
THEOREM NoDuplicates == FairSpec => []RecordedOnce
<1>1. IInv => RecordedOnce
  BY DEF IInv
<1>2. QED
  BY <1>1, Inductive, PTL
================================================================================

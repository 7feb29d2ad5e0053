----------------------------- MODULE OutboxRelay -----------------------------
(***************************************************************************)
(* The transactional outbox of @ssz/messaging: a service stores an event   *)
(* in its outbox table within the transaction that changes its state, and  *)
(* a relay in every process of the service publishes the pending rows to   *)
(* RabbitMQ with publisher confirms.                                       *)
(*                                                                         *)
(* The relay starts a flush every second without waiting for the one       *)
(* before (`setInterval(() => void this.flush())`), so a broker that is    *)
(* slow to confirm leaves several flushes of one process at work on the    *)
(* same rows; a service deployed twice adds those of the other process.    *)
(* A flush is a loop over the rows it fetched, with an await at every      *)
(* publish and every write: each stretch between two awaits is an action.  *)
(*                                                                         *)
(* A row is named by its place in the order of `created_at`, which is set  *)
(* before the transaction commits: rows become visible in any order.       *)
(***************************************************************************)
EXTENDS Integers, FiniteSets

CONSTANTS Rows,          \* the rows the service ever stores, oldest first
          Poison,        \* the rows the broker refuses whenever they are sent
          Relays,        \* the processes of the service
          Timers,        \* the flushes one process may have under way at once
          BatchSize,     \* rows fetched by a flush
          MaxAttempts,   \* failed tries before a row is abandoned
          MaxFaults      \* bound: failed database writes, crashes, reconnects

ASSUME RelayAssumption ==
  /\ Rows \subseteq Nat
  /\ Poison \subseteq Rows
  /\ IsFiniteSet(Relays) /\ IsFiniteSet(Timers)
  /\ BatchSize \in Nat \ {0}
  /\ MaxAttempts \in Nat \ {0}
  /\ MaxFaults \in Nat

VARIABLES outbox,        \* the table: Rows -> [stored, published, attempts]
          flush,         \* what each flush holds in memory
          broker,        \* Rows -> how many copies the broker has taken
          faults         \* how many faults there have been

vars == <<outbox, flush, broker, faults>>

Flushes == Relays \X Timers

NoRow == [stored |-> FALSE, published |-> FALSE, attempts |-> 0]

\* A flush that is not under way.  `left` are the rows still to handle, `seen`
\* their attempts as they were fetched.
Idle == [pc |-> "loop", left |-> {}, seen |-> [r \in Rows |-> 0]]

Init == /\ outbox = [r \in Rows |-> NoRow]
        /\ flush = [f \in Flushes |-> Idle]
        /\ broker = [r \in Rows |-> 0]
        /\ faults = 0

-----------------------------------------------------------------------------
(***************************************************************************)
(* The store.                                                              *)
(***************************************************************************)

\* Mutant: the filter on published_at is missing.
Pending_PublishedToo == {r \in Rows : outbox[r].stored}

Pending == {r \in Rows : outbox[r].stored /\ ~outbox[r].published}

\* fetchPending: the oldest BatchSize rows that are not published.
Batch == {r \in Pending : Cardinality({q \in Pending : q < r}) < BatchSize}

markPublished(r) == outbox' = [outbox EXCEPT ![r].published = TRUE]

incrementAttempts(r) == outbox' = [outbox EXCEPT ![r].attempts = @ + 1]

\* A write that failed, a process that died or a lost connection; at most
\* MaxFaults of them.
Fault == faults < MaxFaults /\ faults' = faults + 1

\* The transaction of the service that stores row r commits.
Store(r) == /\ ~outbox[r].stored
            /\ outbox' = [outbox EXCEPT ![r].stored = TRUE]
            /\ UNCHANGED <<flush, broker, faults>>

-----------------------------------------------------------------------------
(***************************************************************************)
(* The flush.                                                              *)
(***************************************************************************)

Oldest(S) == CHOOSE r \in S : \A q \in S : r <= q

\* The row a flush is at.
Row(f) == Oldest(flush[f].left)

At(f, pc) == flush[f].left # {} /\ flush[f].pc = pc

Goto(f, pc) == flush' = [flush EXCEPT ![f].pc = pc]

\* The loop goes on with the next row, or the flush ends.
Continue(f) ==
  flush' = [flush EXCEPT ![f] =
              IF flush[f].left = {Row(f)} THEN Idle
              ELSE [pc |-> "loop", left |-> flush[f].left \ {Row(f)},
                    seen |-> flush[f].seen]]

\* Mutant: the rows come without their count.
Fetch_CountNotRead(f) ==
  /\ flush[f].left = {}
  /\ Batch # {}
  /\ flush' = [flush EXCEPT ![f] = [Idle EXCEPT !.left = Batch]]
  /\ UNCHANGED <<outbox, broker, faults>>

\* The timer fires.  A fetch that fails, or finds nothing, changes nothing.
Fetch(f) ==
  /\ flush[f].left = {}
  /\ Batch # {}
  /\ flush' = [flush EXCEPT ![f] =
                 [pc |-> "loop", left |-> Batch,
                  seen |-> [r \in Rows |->
                              IF r \in Batch THEN outbox[r].attempts ELSE 0]]]
  /\ UNCHANGED <<outbox, broker, faults>>

\* Mutant: a row past the limit is skipped and stays in the table.
Abandon_Skip(f) ==
  /\ At(f, "loop")
  /\ flush[f].seen[Row(f)] >= MaxAttempts
  /\ Continue(f)
  /\ UNCHANGED <<outbox, broker, faults>>

\* Too many tries, going by the number that was fetched: the row is marked
\* published so that it is not fetched again; an error is swallowed.
Abandon(f) ==
  /\ At(f, "loop")
  /\ flush[f].seen[Row(f)] >= MaxAttempts
  /\ \/ markPublished(Row(f)) /\ UNCHANGED faults
     \/ Fault /\ UNCHANGED outbox
  /\ Continue(f)
  /\ UNCHANGED broker

\* The row goes to the channel; the flush waits for the confirmation.
Publish(f) ==
  /\ At(f, "loop")
  /\ flush[f].seen[Row(f)] < MaxAttempts
  /\ Goto(f, "publishing")
  /\ UNCHANGED <<outbox, broker, faults>>

\* The broker takes the message.
BrokerTakes(f) ==
  /\ At(f, "publishing")
  /\ Row(f) \notin Poison
  /\ broker' = [broker EXCEPT ![Row(f)] = @ + 1]
  /\ Goto(f, "taken")
  /\ UNCHANGED <<outbox, faults>>

\* Mutant: the publish is not awaited.
Confirm_NotAwaited(f) ==
  /\ At(f, "publishing") \/ At(f, "taken")
  /\ Goto(f, "confirmed")
  /\ UNCHANGED <<outbox, broker, faults>>

\* Its confirmation arrives, and publish() resolves.
Confirm(f) ==
  /\ At(f, "taken")
  /\ Goto(f, "confirmed")
  /\ UNCHANGED <<outbox, broker, faults>>

\* publish() rejects: the broker refused the message, or the channel was
\* closed before the confirmation of a message the broker may have taken.
Reject(f) ==
  /\ At(f, "publishing") \/ At(f, "taken")
  /\ Goto(f, "failed")
  /\ UNCHANGED <<outbox, broker, faults>>

\* The row is marked; if the write fails, or commits and its answer is lost,
\* the same catch as for a rejected publish counts a try.
Mark(f) ==
  /\ At(f, "confirmed")
  /\ \/ markPublished(Row(f)) /\ Continue(f) /\ UNCHANGED faults
     \/ Fault /\ Goto(f, "failed") /\ (markPublished(Row(f)) \/ UNCHANGED outbox)
  /\ UNCHANGED broker

\* The failed try is counted; an error of that write is swallowed.
CountFailure(f) ==
  /\ At(f, "failed")
  /\ \/ incrementAttempts(Row(f)) /\ UNCHANGED faults
     \/ Fault /\ UNCHANGED outbox
  /\ Continue(f)
  /\ UNCHANGED broker

\* The process dies, and its flushes with it.
Crash(p) ==
  /\ \E t \in Timers : flush[<<p, t>>] # Idle
  /\ Fault
  /\ flush' = [f \in Flushes |-> IF f[1] = p THEN Idle ELSE flush[f]]
  /\ UNCHANGED <<outbox, broker>>

\* The connection is lost and made again: the channel wrapper sends what was
\* not confirmed once more, and the flushes keep waiting.
Reconnect(p) ==
  /\ \E t \in Timers : At(<<p, t>>, "taken")
  /\ Fault
  /\ flush' = [f \in Flushes |->
                 IF f[1] = p /\ At(f, "taken")
                 THEN [pc |-> "publishing", left |-> flush[f].left,
                       seen |-> flush[f].seen]
                 ELSE flush[f]]
  /\ UNCHANGED <<outbox, broker>>

-----------------------------------------------------------------------------
Step(f) == \/ Fetch(f) \/ Abandon(f) \/ Publish(f) \/ BrokerTakes(f)
           \/ Confirm(f) \/ Reject(f) \/ Mark(f) \/ CountFailure(f)

Next == \/ \E r \in Rows : Store(r)
        \/ \E f \in Flushes : Step(f)
        \/ \E p \in Relays : Crash(p) \/ Reconnect(p)

Spec == Init /\ [][Next]_vars

\* The timer keeps firing, the broker answers every publish one way or the
\* other, and the database answers.  Nothing says that the broker ever takes
\* a message.
Fairness == \A f \in Flushes : WF_vars(Step(f))

FairSpec == Spec /\ Fairness

-----------------------------------------------------------------------------
(***************************************************************************)
(* Properties.                                                             *)
(***************************************************************************)

FlushRecord == [pc : {"loop", "publishing", "taken", "confirmed", "failed"},
                left : SUBSET Rows,
                seen : [Rows -> Nat]]

TypeOK == /\ outbox \in [Rows -> [stored : BOOLEAN, published : BOOLEAN,
                                  attempts : Nat]]
          /\ flush \in [Flushes -> FlushRecord]
          /\ broker \in [Rows -> Nat]
          /\ faults \in 0 .. MaxFaults

\* No event disappears quietly: a row leaves the outbox only if the broker
\* has taken a copy of it, or if MaxAttempts tries of it were counted as
\* failed - whichever flush, with whatever stale count, marks it (flush,
\* lines 84-115).
NothingLost ==
  \A r \in Rows : outbox[r].published =>
                    broker[r] > 0 \/ outbox[r].attempts >= MaxAttempts

\* The count of a row passes the limit only by flushes that were already
\* under way when it reached it: with one flush at a time it stops exactly
\* at MaxAttempts (the test of line 85 reads the count of the fetch).
AttemptsWithinOverlap ==
  \A r \in Rows :
    outbox[r].attempts < MaxAttempts + Cardinality(Flushes)

\* Copies are not sent without a reason: beyond one for each flush that can
\* be under way, every copy of a row the broker has is answered for by a
\* counted failure, a failed write, or a crash or lost connection (which
\* strike all the flushes of a process).  A row that was marked is not sent
\* again by a later flush (fetchPending, line 26).
CopiesAccounted ==
  \A r \in Rows :
    broker[r] <= outbox[r].attempts + faults * Cardinality(Timers)
                   + Cardinality(Flushes)

\* Every event that is stored leaves the outbox, though a row ahead of it be
\* refused for ever and fill the batch: giving up after MaxAttempts tries is
\* what lets the younger rows through (lines 85-92).
Settled == \A r \in Rows : outbox[r].stored ~> outbox[r].published

=============================================================================

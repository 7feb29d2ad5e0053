------------------------- MODULE OutboxRelay_proofs -------------------------
(***************************************************************************)
(* What the relay guarantees for any rows, any number of processes and     *)
(* overlapping flushes, any batch size and limit of tries.                 *)
(***************************************************************************)
EXTENDS OutboxRelay, FiniteSetTheorems, WellFoundedInduction, TLAPS

USE DEF Flushes

-----------------------------------------------------------------------------
(***************************************************************************)
(* The inductive invariant.                                                *)
(***************************************************************************)

\* The count a flush goes by is one the row has had.
SeenIsPast == \A f \in Flushes : \A r \in flush[f].left :
                 flush[f].seen[r] <= outbox[r].attempts

\* A flush that heard of a copy tells the truth.
TakenIsTaken == \A f \in Flushes :
                  At(f, "taken") \/ At(f, "confirmed") => broker[Row(f)] > 0

\* A flush sends, and counts a failure of, only rows it saw below the limit.
SentBelowLimit == \A f \in Flushes :
                    flush[f].left # {} /\ flush[f].pc # "loop" =>
                      flush[f].seen[Row(f)] < MaxAttempts

\* The flushes that may still count a failure of row r.
Stale(r) == {f \in Flushes : /\ r \in flush[f].left
                             /\ flush[f].seen[r] < MaxAttempts}

\* From the limit on, what is added to a count was in a flush's hands before.
OverlapBound ==
  \A r \in Rows : outbox[r].attempts >= MaxAttempts =>
    outbox[r].attempts + Cardinality(Stale(r)) < MaxAttempts + Cardinality(Flushes)

\* A flush has a copy of row r to answer for: the broker took one, or a try
\* failed, and neither a mark nor a count of the failure has been tried yet.
HoldsCopy(f, r) == /\ flush[f].left # {} /\ Row(f) = r
                   /\ flush[f].pc \in {"taken", "confirmed", "failed"}

\* The flushes that stand for a copy of row r which no count and no fault
\* explains: those that hold one, and, once the row is marked, all that are
\* past it, for a marked row is not fetched again.
Answering(r) == {f \in Flushes : \/ HoldsCopy(f, r)
                                 \/ outbox[r].published /\ r \notin flush[f].left}

Answered(r) ==
  broker[r] <= outbox[r].attempts + faults * Cardinality(Timers)
                 + Cardinality(Answering(r))

CopiesAnswered == \A r \in Rows : Answered(r)

Inv == TypeOK /\ SeenIsPast /\ TakenIsTaken /\ NothingLost

InvOverlap == SentBelowLimit /\ OverlapBound

-----------------------------------------------------------------------------
(***************************************************************************)
(* Facts about sets of rows and flushes.                                   *)
(***************************************************************************)

\* Every batch that is not empty has an oldest row.
LEMMA OldestInSet ==
  ASSUME NEW S \in SUBSET Rows, S # {}
  PROVE  Oldest(S) \in S
<1> DEFINE Less == OpToRel(<, Nat)
<1>1. IsWellFoundedOn(Less, Nat)
  BY NatLessThanWellFounded
<1>2. S \subseteq Nat
  BY RelayAssumption
<1> HIDE DEF Less
<1>3. PICK x \in S : \A y \in S : ~(<<y, x>> \in Less)
  BY <1>1, <1>2, WFMin
<1>4. \A y \in S : x <= y
  <2> TAKE y \in S
  <2>1. x \in Nat /\ y \in Nat
    BY <1>2
  <2>2. y < x => <<y, x>> \in Less
    BY <2>1 DEF Less, OpToRel
  <2> QED BY <2>1, <2>2, <1>3
<1> QED BY <1>4 DEF Oldest

\* There are finitely many flushes.
LEMMA FlushesFinite ==
  /\ IsFiniteSet(Flushes)
  /\ Cardinality(Flushes) \in Nat
<1>1. IsFiniteSet(Flushes)
  BY RelayAssumption, FS_Product
<1> QED BY <1>1, FS_CardinalityType

-----------------------------------------------------------------------------
(***************************************************************************)
(* What the two ways a flush moves leave alone.                            *)
(***************************************************************************)

\* Within a row, a flush keeps its rows and the counts it saw.
LEMMA GotoMoves ==
  ASSUME TypeOK, NEW f \in Flushes,
         NEW pc \in {"publishing", "taken", "confirmed", "failed"}, Goto(f, pc)
  PROVE  /\ flush' \in [Flushes -> FlushRecord]
         /\ \A g \in Flushes \ {f} : flush'[g] = flush[g]
         /\ flush'[f].pc = pc
         /\ flush'[f].left = flush[f].left
         /\ flush'[f].seen = flush[f].seen
BY DEF TypeOK, FlushRecord, Goto

\* Between rows, it drops the row it is done with.
LEMMA ContinueMoves ==
  ASSUME TypeOK, NEW f \in Flushes, Continue(f)
  PROVE  /\ flush' \in [Flushes -> FlushRecord]
         /\ \A g \in Flushes \ {f} : flush'[g] = flush[g]
         /\ flush'[f].pc = "loop"
         /\ flush'[f].left = flush[f].left \ {Row(f)}
         /\ \A r \in flush'[f].left : flush'[f].seen[r] = flush[f].seen[r]
<1>1. Idle \in FlushRecord
  BY DEF Idle, FlushRecord
<1>2. flush[f] \in FlushRecord
  BY DEF TypeOK
<1>3. [pc |-> "loop", left |-> flush[f].left \ {Row(f)}, seen |-> flush[f].seen]
        \in FlushRecord
  BY <1>2 DEF FlushRecord
<1>4. CASE flush[f].left = {Row(f)}
  <2>1. flush' = [flush EXCEPT ![f] = Idle]
    BY <1>4 DEF Continue
  <2> QED BY <1>1, <1>4, <2>1 DEF TypeOK, Idle
<1>5. CASE flush[f].left # {Row(f)}
  <2>1. flush' = [flush EXCEPT ![f] =
                    [pc |-> "loop", left |-> flush[f].left \ {Row(f)},
                     seen |-> flush[f].seen]]
    BY <1>5 DEF Continue
  <2> QED BY <1>3, <2>1 DEF TypeOK
<1> QED BY <1>4, <1>5

\* A fetch takes pending rows with the counts they have.
LEMMA FetchMoves ==
  ASSUME TypeOK, NEW f \in Flushes, Fetch(f)
  PROVE  /\ flush' \in [Flushes -> FlushRecord]
         /\ \A g \in Flushes \ {f} : flush'[g] = flush[g]
         /\ flush'[f].pc = "loop"
         /\ flush'[f].left = Batch
         /\ \A r \in Batch : flush'[f].seen[r] = outbox[r].attempts
<1> DEFINE h == [pc |-> "loop", left |-> Batch,
                 seen |-> [r \in Rows |->
                             IF r \in Batch THEN outbox[r].attempts ELSE 0]]
<1>1. Batch \subseteq Rows
  BY DEF Batch, Pending
<1>2. h \in FlushRecord
  BY <1>1 DEF FlushRecord, TypeOK
<1>3. flush' = [flush EXCEPT ![f] = h]
  BY DEF Fetch
<1> QED BY <1>1, <1>2, <1>3 DEF TypeOK

\* Marking a row changes nothing but that it is published.
LEMMA MarkMoves ==
  ASSUME TypeOK, NEW q \in Rows, markPublished(q) \/ UNCHANGED outbox
  PROVE  /\ outbox' \in [Rows -> [stored : BOOLEAN, published : BOOLEAN,
                                 attempts : Nat]]
         /\ \A r \in Rows : outbox'[r].attempts = outbox[r].attempts
         /\ \A r \in Rows : r # q => outbox'[r].published = outbox[r].published
<1>1. CASE UNCHANGED outbox
  BY <1>1 DEF TypeOK
<1>2. CASE markPublished(q)
  <2>1. outbox' = [outbox EXCEPT ![q] = [outbox[q] EXCEPT !.published = TRUE]]
    BY <1>2 DEF markPublished
  <2>2. PICK row : row = [outbox[q] EXCEPT !.published = TRUE]
    OBVIOUS
  <2>3. /\ row \in [stored : BOOLEAN, published : BOOLEAN, attempts : Nat]
        /\ row.attempts = outbox[q].attempts
    BY <2>2 DEF TypeOK
  <2>4. outbox' = [outbox EXCEPT ![q] = row]
    BY <2>1, <2>2
  <2> QED BY <2>3, <2>4 DEF TypeOK
<1> QED BY <1>1, <1>2

-----------------------------------------------------------------------------
(***************************************************************************)
(* The invariant holds at the start and every step keeps it.               *)
(***************************************************************************)

LEMMA InitEstablishes == Init => Inv /\ InvOverlap
<1> SUFFICES ASSUME Init PROVE Inv /\ InvOverlap
  OBVIOUS
<1>1. Idle \in FlushRecord /\ NoRow.stored = FALSE /\ NoRow.published = FALSE
        /\ NoRow.attempts = 0 /\ Idle.left = {}
        /\ NoRow \in [stored : BOOLEAN, published : BOOLEAN, attempts : Nat]
  BY DEF Idle, FlushRecord, NoRow
<1>2. TypeOK
  BY <1>1, RelayAssumption DEF Init, TypeOK
<1>3. SeenIsPast /\ TakenIsTaken /\ NothingLost /\ SentBelowLimit
  BY <1>1 DEF Init, SeenIsPast, TakenIsTaken, At, NothingLost, SentBelowLimit
<1>4. OverlapBound
  BY <1>1, RelayAssumption DEF Init, OverlapBound
<1> QED BY <1>2, <1>3, <1>4 DEF Inv, InvOverlap

\* Every conjunct but the type says of the flushes only what holds of each,
\* and of the rows only what no write takes back.
LEMMA StepKeepsInv ==
  ASSUME Inv, [Next]_vars
  PROVE  Inv'
<1> USE DEF Inv
<1>0. \A r \in Rows : outbox[r] \in [stored : BOOLEAN, published : BOOLEAN,
                                     attempts : Nat]
  BY DEF TypeOK
<1>1. ASSUME NEW r \in Rows, Store(r) PROVE Inv'
  <2>1. TypeOK'
    BY <1>1, <1>0 DEF Store, TypeOK
  <2>2. /\ \A q \in Rows : /\ outbox'[q].attempts = outbox[q].attempts
                           /\ outbox'[q].published = outbox[q].published
        /\ UNCHANGED <<flush, broker>>
    BY <1>1, <1>0 DEF Store, TypeOK
  <2>3. SeenIsPast'
    BY <2>2 DEF SeenIsPast, TypeOK, FlushRecord
  <2>4. TakenIsTaken' /\ NothingLost'
    BY <2>2 DEF TakenIsTaken, At, Row, NothingLost
  <2> QED BY <2>1, <2>3, <2>4
<1>2. ASSUME NEW f \in Flushes, Fetch(f) PROVE Inv'
  <2>1. UNCHANGED <<outbox, broker, faults>>
    BY <1>2 DEF Fetch
  <2>2. TypeOK'
    BY <1>2, <2>1, FetchMoves DEF TypeOK
  <2>3. SeenIsPast'
    <3> SUFFICES ASSUME NEW g \in Flushes, NEW r \in flush'[g].left
                 PROVE  flush'[g].seen[r] <= outbox[r].attempts
      BY <2>1 DEF SeenIsPast
    <3>1. CASE g # f
      BY <3>1, <1>2, FetchMoves DEF SeenIsPast
    <3>2. CASE g = f
      <4>1. r \in Batch /\ flush'[g].seen[r] = outbox[r].attempts
        BY <3>2, <1>2, FetchMoves
      <4>2. outbox[r].attempts \in Nat
        BY <4>1, <1>0 DEF Batch, Pending
      <4> QED BY <4>1, <4>2
    <3> QED BY <3>1, <3>2
  <2>4. TakenIsTaken' /\ NothingLost'
    BY <1>2, <2>1, FetchMoves DEF TakenIsTaken, At, Row, NothingLost
  <2> QED BY <2>2, <2>3, <2>4
<1>3. ASSUME NEW f \in Flushes, Abandon(f) PROVE Inv'
  <2> DEFINE q == Row(f)
  <2>1. /\ q \in flush[f].left /\ q \in Rows
        /\ flush[f].seen[q] >= MaxAttempts
        /\ flush[f].seen[q] \in Nat
    BY <1>3, OldestInSet DEF Abandon, At, Row, TypeOK, FlushRecord
  <2>2. /\ Continue(f) /\ broker' = broker
        /\ \/ markPublished(q) /\ UNCHANGED faults
           \/ Fault /\ UNCHANGED outbox
    BY <1>3 DEF Abandon
  <2> HIDE DEF q
  <2>3. /\ outbox' \in [Rows -> [stored : BOOLEAN, published : BOOLEAN,
                                 attempts : Nat]]
        /\ \A r \in Rows : outbox'[r].attempts = outbox[r].attempts
        /\ \A r \in Rows : r # q => outbox'[r].published = outbox[r].published
    BY <2>1, <2>2, MarkMoves
  <2>4. TypeOK'
    BY <2>2, <2>3, ContinueMoves, RelayAssumption DEF TypeOK, Fault
  <2>5. SeenIsPast'
    BY <2>2, <2>3, ContinueMoves DEF SeenIsPast, TypeOK, FlushRecord
  <2>6. TakenIsTaken'
    BY <2>2, ContinueMoves DEF TakenIsTaken, At, Row
  <2>7. outbox[q].attempts >= MaxAttempts
    BY <2>1, <1>0, RelayAssumption DEF SeenIsPast
  <2>8. NothingLost'
    BY <2>2, <2>3, <2>7 DEF NothingLost
  <2> QED BY <2>4, <2>5, <2>6, <2>8
<1>4. ASSUME NEW f \in Flushes, Publish(f) PROVE Inv'
  <2>1. UNCHANGED <<outbox, broker, faults>> /\ Goto(f, "publishing")
    BY <1>4 DEF Publish
  <2>2. TypeOK'
    BY <2>1, GotoMoves DEF TypeOK
  <2>3. SeenIsPast' /\ TakenIsTaken' /\ NothingLost'
    BY <2>1, GotoMoves DEF SeenIsPast, TakenIsTaken, At, Row, NothingLost
  <2> QED BY <2>2, <2>3
<1>5. ASSUME NEW f \in Flushes, BrokerTakes(f) PROVE Inv'
  <2> DEFINE q == Row(f)
  <2>1. q \in Rows
    BY <1>5, OldestInSet DEF BrokerTakes, At, Row, TypeOK, FlushRecord
  <2>2. /\ UNCHANGED <<outbox, faults>> /\ Goto(f, "taken")
        /\ broker' = [broker EXCEPT ![q] = @ + 1]
    BY <1>5 DEF BrokerTakes
  <2>3. /\ broker' \in [Rows -> Nat]
        /\ broker'[q] > 0
        /\ \A r \in Rows : broker'[r] >= broker[r] /\ broker[r] \in Nat
    BY <2>1, <2>2 DEF TypeOK
  <2>4. TypeOK'
    BY <2>2, <2>3, GotoMoves DEF TypeOK
  <2>5. SeenIsPast'
    BY <2>2, GotoMoves DEF SeenIsPast
  <2>6. NothingLost'
    BY <2>2, <2>3 DEF NothingLost
  <2>7. TakenIsTaken'
    <3> SUFFICES ASSUME NEW g \in Flushes, (At(g, "taken") \/ At(g, "confirmed"))'
                 PROVE  broker'[Row(g)'] > 0
      BY DEF TakenIsTaken
    <3>1. Row(g)' = Row(g)
      BY <2>2, GotoMoves DEF Row
    <3>2. CASE g = f
      BY <3>1, <3>2, <2>3
    <3>3. CASE g # f
      <4>1. At(g, "taken") \/ At(g, "confirmed")
        BY <3>3, <2>2, GotoMoves DEF At
      <4>2. Row(g) \in Rows
        BY <4>1, OldestInSet DEF At, Row, TypeOK, FlushRecord
      <4> QED BY <4>1, <4>2, <3>1, <2>3 DEF TakenIsTaken
    <3> QED BY <3>2, <3>3
  <2> QED BY <2>4, <2>5, <2>6, <2>7
<1>6. ASSUME NEW f \in Flushes, Confirm(f) PROVE Inv'
  <2>1. UNCHANGED <<outbox, broker, faults>> /\ Goto(f, "confirmed") /\ At(f, "taken")
    BY <1>6 DEF Confirm
  <2>2. TypeOK'
    BY <2>1, GotoMoves DEF TypeOK
  <2>3. SeenIsPast' /\ TakenIsTaken' /\ NothingLost'
    BY <2>1, GotoMoves DEF SeenIsPast, TakenIsTaken, At, Row, NothingLost
  <2> QED BY <2>2, <2>3
<1>7. ASSUME NEW f \in Flushes, Reject(f) PROVE Inv'
  <2>1. UNCHANGED <<outbox, broker, faults>> /\ Goto(f, "failed")
    BY <1>7 DEF Reject
  <2>2. TypeOK'
    BY <2>1, GotoMoves DEF TypeOK
  <2>3. SeenIsPast' /\ TakenIsTaken' /\ NothingLost'
    BY <2>1, GotoMoves DEF SeenIsPast, TakenIsTaken, At, Row, NothingLost
  <2> QED BY <2>2, <2>3
<1>8. ASSUME NEW f \in Flushes, Mark(f) PROVE Inv'
  <2> DEFINE q == Row(f)
  <2>1. q \in Rows /\ broker[q] > 0
    BY <1>8, OldestInSet DEF Mark, At, Row, TypeOK, FlushRecord, TakenIsTaken
  <2>2. /\ Continue(f) \/ Goto(f, "failed")
        /\ broker' = broker
        /\ faults' = faults \/ Fault
        /\ markPublished(q) \/ UNCHANGED outbox
    BY <1>8 DEF Mark
  <2> HIDE DEF q
  <2>3. /\ outbox' \in [Rows -> [stored : BOOLEAN, published : BOOLEAN,
                                 attempts : Nat]]
        /\ \A r \in Rows : outbox'[r].attempts = outbox[r].attempts
        /\ \A r \in Rows : r # q => outbox'[r].published = outbox[r].published
    BY <2>1, <2>2, MarkMoves
  <2>4. TypeOK'
    BY <2>2, <2>3, ContinueMoves, GotoMoves, RelayAssumption DEF TypeOK, Fault
  <2>5. SeenIsPast'
    BY <2>2, <2>3, ContinueMoves, GotoMoves DEF SeenIsPast, TypeOK, FlushRecord
  <2>6. TakenIsTaken'
    BY <2>2, ContinueMoves, GotoMoves DEF TakenIsTaken, At, Row
  <2>7. NothingLost'
    BY <2>1, <2>2, <2>3 DEF NothingLost
  <2> QED BY <2>4, <2>5, <2>6, <2>7
<1>9. ASSUME NEW f \in Flushes, CountFailure(f) PROVE Inv'
  <2> DEFINE q == Row(f)
  <2>1. q \in Rows
    BY <1>9, OldestInSet DEF CountFailure, At, Row, TypeOK, FlushRecord
  <2>2. /\ Continue(f) /\ broker' = broker
        /\ faults' = faults \/ Fault
        /\ incrementAttempts(q) \/ UNCHANGED outbox
    BY <1>9 DEF CountFailure
  <2> HIDE DEF q
  <2>3. /\ outbox' \in [Rows -> [stored : BOOLEAN, published : BOOLEAN,
                                 attempts : Nat]]
        /\ \A r \in Rows : outbox'[r].attempts >= outbox[r].attempts
        /\ \A r \in Rows : outbox'[r].published = outbox[r].published
    BY <2>1, <2>2, <1>0 DEF incrementAttempts, TypeOK
  <2>4. TypeOK'
    BY <2>2, <2>3, ContinueMoves, RelayAssumption DEF TypeOK, Fault
  <2>5. SeenIsPast'
    <3> SUFFICES ASSUME NEW g \in Flushes, NEW r \in flush'[g].left
                 PROVE  flush'[g].seen[r] <= outbox'[r].attempts
      BY DEF SeenIsPast
    <3>1. /\ r \in flush[g].left
          /\ flush'[g].seen[r] = flush[g].seen[r]
      BY <2>2, ContinueMoves
    <3>2. r \in Rows /\ flush[g].seen[r] \in Nat
      BY <3>1 DEF TypeOK, FlushRecord
    <3>3. outbox[r].attempts \in Nat /\ outbox'[r].attempts \in Nat
      BY <3>2, <2>3, <1>0
    <3> QED BY <3>1, <3>2, <3>3, <2>3 DEF SeenIsPast
  <2>6. TakenIsTaken'
    BY <2>2, ContinueMoves DEF TakenIsTaken, At, Row
  <2>7. NothingLost'
    <3> SUFFICES ASSUME NEW r \in Rows, outbox'[r].published
                 PROVE  broker'[r] > 0 \/ outbox'[r].attempts >= MaxAttempts
      BY DEF NothingLost
    <3>1. outbox[r].attempts \in Nat /\ outbox'[r].attempts \in Nat
      BY <2>3, <1>0
    <3> QED BY <3>1, <2>2, <2>3, RelayAssumption DEF NothingLost
  <2> QED BY <2>4, <2>5, <2>6, <2>7
<1>10. ASSUME NEW p \in Relays, Crash(p) PROVE Inv'
  <2>1. /\ UNCHANGED <<outbox, broker>> /\ Fault
        /\ flush' = [f \in Flushes |-> IF f[1] = p THEN Idle ELSE flush[f]]
    BY <1>10 DEF Crash
  <2>2. Idle \in FlushRecord /\ Idle.left = {}
    BY DEF Idle, FlushRecord
  <2>3. /\ flush' \in [Flushes -> FlushRecord]
        /\ \A f \in Flushes : flush'[f] = flush[f] \/ flush'[f].left = {}
    BY <2>1, <2>2 DEF TypeOK
  <2>4. TypeOK'
    BY <2>1, <2>3, RelayAssumption DEF TypeOK, Fault
  <2>5. SeenIsPast' /\ TakenIsTaken' /\ NothingLost'
    BY <2>1, <2>3 DEF SeenIsPast, TakenIsTaken, At, Row, NothingLost
  <2> QED BY <2>4, <2>5
<1>12. ASSUME NEW p \in Relays, Reconnect(p) PROVE Inv'
  <2>1. /\ UNCHANGED <<outbox, broker>> /\ Fault
        /\ flush' = [f \in Flushes |->
                       IF f[1] = p /\ At(f, "taken")
                       THEN [pc |-> "publishing", left |-> flush[f].left,
                             seen |-> flush[f].seen]
                       ELSE flush[f]]
    BY <1>12 DEF Reconnect
  <2>2. \A f \in Flushes : flush[f] \in FlushRecord
    BY DEF TypeOK
  <2>3. /\ flush' \in [Flushes -> FlushRecord]
        /\ \A f \in Flushes :
             \/ flush'[f] = flush[f]
             \/ /\ flush'[f].pc = "publishing"
                /\ flush'[f].left = flush[f].left /\ flush'[f].seen = flush[f].seen
    BY <2>1, <2>2 DEF FlushRecord
  <2>4. TypeOK'
    BY <2>1, <2>3, RelayAssumption DEF TypeOK, Fault
  <2>5. SeenIsPast' /\ TakenIsTaken' /\ NothingLost'
    BY <2>1, <2>3 DEF SeenIsPast, TakenIsTaken, At, Row, NothingLost
  <2> QED BY <2>4, <2>5
<1>11. CASE UNCHANGED vars
  BY <1>11 DEF vars, TypeOK, SeenIsPast, TakenIsTaken, At, Row, NothingLost
<1> QED BY <1>1, <1>2, <1>3, <1>4, <1>5, <1>6, <1>7, <1>8, <1>9, <1>10, <1>11,
        <1>12 DEF Next, Step

-----------------------------------------------------------------------------
(***************************************************************************)
(* The bound on a row's count.                                             *)
(***************************************************************************)

\* Any set of flushes is finite.
LEMMA StaleFinite ==
  \A r : /\ IsFiniteSet(Stale(r)) /\ Cardinality(Stale(r)) \in Nat
         /\ Stale(r) \subseteq Flushes
BY FlushesFinite, FS_Subset, FS_CardinalityType DEF Stale

\* The bound survives a step that counts nothing and makes no flush stale on a
\* row that is at the limit.
LEMMA BoundKept ==
  ASSUME TypeOK, OverlapBound,
         \A r \in Rows : outbox'[r].attempts = outbox[r].attempts,
         \A r \in Rows : outbox[r].attempts >= MaxAttempts =>
                           Stale(r)' \subseteq Stale(r)
  PROVE  OverlapBound'
<1> SUFFICES ASSUME NEW r \in Rows, outbox'[r].attempts >= MaxAttempts
             PROVE  outbox'[r].attempts + Cardinality(Stale(r)')
                      < MaxAttempts + Cardinality(Flushes)
  BY DEF OverlapBound
<1>1. Stale(r)' \subseteq Stale(r) /\ outbox'[r].attempts = outbox[r].attempts
  OBVIOUS
<1>2. PICK S, T : S = Stale(r) /\ T = Stale(r)'
  OBVIOUS
<1>3. /\ Cardinality(T) <= Cardinality(S)
      /\ Cardinality(S) \in Nat /\ Cardinality(T) \in Nat
  BY <1>1, <1>2, StaleFinite, FS_Subset, FS_CardinalityType
<1>4. outbox[r].attempts \in Nat
  BY DEF TypeOK
<1>5. outbox[r].attempts + Cardinality(S) < MaxAttempts + Cardinality(Flushes)
  BY <1>1, <1>2 DEF OverlapBound
<1> QED BY <1>1, <1>2, <1>3, <1>4, <1>5, FlushesFinite, RelayAssumption

\* A step within a row makes no flush stale.
LEMMA GotoStale ==
  ASSUME TypeOK, NEW f \in Flushes,
         NEW pc \in {"publishing", "taken", "confirmed", "failed"}, Goto(f, pc)
  PROVE  \A r : Stale(r)' = Stale(r)
<1>1. \A g \in Flushes : /\ flush'[g].left = flush[g].left
                         /\ flush'[g].seen = flush[g].seen
  BY GotoMoves
<1> QED BY <1>1 DEF Stale

\* Nor does one that drops a row, and the flush is not stale on that row.
LEMMA ContinueStale ==
  ASSUME TypeOK, NEW f \in Flushes, Continue(f), NEW q, q = Row(f)
  PROVE  /\ \A r : Stale(r)' \subseteq Stale(r)
         /\ f \notin Stale(q)'
<1>1. /\ \A g \in Flushes \ {f} : flush'[g] = flush[g]
      /\ flush'[f].left = flush[f].left \ {Row(f)}
      /\ \A r \in flush'[f].left : flush'[f].seen[r] = flush[f].seen[r]
  BY ContinueMoves
<1>2. ASSUME NEW r, NEW g \in Stale(r)' PROVE g \in Stale(r)
  <2>1. /\ g \in Flushes /\ r \in flush'[g].left
        /\ flush'[g].seen[r] < MaxAttempts
    BY <1>2 DEF Stale
  <2>2. r \in flush[g].left /\ flush'[g].seen[r] = flush[g].seen[r]
    BY <2>1, <1>1
  <2> QED BY <2>1, <2>2 DEF Stale
<1>3. q \notin flush'[f].left
  BY <1>1
<1> QED BY <1>2, <1>3 DEF Stale

LEMMA StepKeepsOverlap ==
  ASSUME Inv, InvOverlap, [Next]_vars
  PROVE  InvOverlap'
<1> USE DEF Inv, InvOverlap
<1>0. \A r \in Rows : outbox[r] \in [stored : BOOLEAN, published : BOOLEAN,
                                     attempts : Nat]
  BY DEF TypeOK
<1>1. ASSUME NEW r \in Rows, Store(r) PROVE InvOverlap'
  <2>1. /\ \A q \in Rows : outbox'[q].attempts = outbox[q].attempts
        /\ flush' = flush
    BY <1>1, <1>0 DEF Store, TypeOK
  <2>2. SentBelowLimit'
    BY <2>1 DEF SentBelowLimit, Row
  <2>3. \A q : Stale(q)' = Stale(q)
    BY <2>1 DEF Stale
  <2> QED BY <2>1, <2>2, <2>3, BoundKept
<1>2. ASSUME NEW f \in Flushes, Fetch(f) PROVE InvOverlap'
  <2>1. UNCHANGED outbox
    BY <1>2 DEF Fetch
  <2>2. SentBelowLimit'
    BY <1>2, FetchMoves DEF SentBelowLimit, Row
  <2>3. ASSUME NEW r \in Rows, outbox[r].attempts >= MaxAttempts
        PROVE  Stale(r)' \subseteq Stale(r)
    <3> SUFFICES ASSUME NEW g \in Stale(r)' PROVE g \in Stale(r)
      OBVIOUS
    <3>1. /\ g \in Flushes /\ r \in flush'[g].left
          /\ flush'[g].seen[r] < MaxAttempts
      BY DEF Stale
    <3>2. CASE g = f
      <4>1. flush'[f].seen[r] = outbox[r].attempts /\ outbox[r].attempts \in Nat
        BY <3>1, <3>2, <1>2, <1>0, FetchMoves
      <4> QED BY <4>1, <3>1, <3>2, <2>3, RelayAssumption
    <3>3. CASE g # f
      BY <3>1, <3>3, <1>2, FetchMoves DEF Stale
    <3> QED BY <3>2, <3>3
  <2> QED BY <2>1, <2>2, <2>3, BoundKept
<1>3. ASSUME NEW f \in Flushes, Abandon(f) PROVE InvOverlap'
  <2>1. Continue(f) /\ (markPublished(Row(f)) \/ UNCHANGED outbox)
    BY <1>3 DEF Abandon
  <2>2. Row(f) \in Rows
    BY <1>3, OldestInSet DEF Abandon, At, Row, TypeOK, FlushRecord
  <2>3. SentBelowLimit'
    BY <2>1, ContinueMoves DEF SentBelowLimit, Row
  <2>4. PICK q \in Rows : q = Row(f)
    BY <2>2
  <2>5. \A r \in Rows : outbox'[r].attempts = outbox[r].attempts
    BY <2>1, <2>4, MarkMoves
  <2> QED BY <2>1, <2>3, <2>4, <2>5, BoundKept, ContinueStale
<1>4. ASSUME NEW f \in Flushes, Publish(f) PROVE InvOverlap'
  <2>1. /\ UNCHANGED outbox /\ Goto(f, "publishing")
        /\ flush[f].seen[Row(f)] < MaxAttempts
    BY <1>4 DEF Publish
  <2>2. SentBelowLimit'
    BY <2>1, GotoMoves DEF SentBelowLimit, Row
  <2> QED BY <2>1, <2>2, BoundKept, GotoStale
<1>5. ASSUME NEW f \in Flushes,
             BrokerTakes(f) \/ Confirm(f) \/ Reject(f)
             \/ (Mark(f) /\ Goto(f, "failed"))
      PROVE  InvOverlap'
  <2>1. /\ flush[f].left # {} /\ flush[f].pc # "loop"
        /\ Goto(f, "taken") \/ Goto(f, "confirmed") \/ Goto(f, "failed")
        /\ markPublished(Row(f)) \/ UNCHANGED outbox
    BY <1>5 DEF BrokerTakes, Confirm, Reject, Mark, At
  <2>2. Row(f) \in Rows
    BY <2>1, OldestInSet DEF Row, TypeOK, FlushRecord
  <2>3. SentBelowLimit'
    BY <2>1, GotoMoves DEF SentBelowLimit, Row
  <2>4. PICK q \in Rows : q = Row(f)
    BY <2>2
  <2>5. \A r \in Rows : outbox'[r].attempts = outbox[r].attempts
    BY <2>1, <2>4, MarkMoves
  <2> QED BY <2>1, <2>3, <2>5, BoundKept, GotoStale
<1>6. ASSUME NEW f \in Flushes, Mark(f), Continue(f) PROVE InvOverlap'
  <2>1. markPublished(Row(f)) \/ UNCHANGED outbox
    BY <1>6 DEF Mark
  <2>2. Row(f) \in Rows
    BY <1>6, OldestInSet DEF Mark, At, Row, TypeOK, FlushRecord
  <2>3. SentBelowLimit'
    BY <1>6, ContinueMoves DEF SentBelowLimit, Row
  <2>4. PICK q \in Rows : q = Row(f)
    BY <2>2
  <2>5. \A r \in Rows : outbox'[r].attempts = outbox[r].attempts
    BY <2>1, <2>4, MarkMoves
  <2> QED BY <1>6, <2>3, <2>4, <2>5, BoundKept, ContinueStale
<1>7. ASSUME NEW f \in Flushes, CountFailure(f) PROVE InvOverlap'
  <2>1. /\ At(f, "failed") /\ Continue(f)
        /\ incrementAttempts(Row(f)) \/ UNCHANGED outbox
    BY <1>7 DEF CountFailure
  <2>2. Row(f) \in Rows /\ Row(f) \in flush[f].left
    BY <2>1, OldestInSet DEF At, Row, TypeOK, FlushRecord
  <2>3. SentBelowLimit'
    BY <2>1, ContinueMoves DEF SentBelowLimit, Row
  <2>4. PICK q \in Rows : q = Row(f)
    BY <2>2
  <2>5. CASE UNCHANGED outbox
    BY <2>1, <2>3, <2>4, <2>5, BoundKept, ContinueStale
  <2>6. CASE incrementAttempts(q)
    <3>1. /\ \A r \in Rows : r # q => outbox'[r].attempts = outbox[r].attempts
          /\ outbox'[q].attempts = outbox[q].attempts + 1
      BY <2>6, <1>0 DEF incrementAttempts, TypeOK
    <3>2. f \in Stale(q)
      BY <2>1, <2>2, <2>4 DEF Stale, At, SentBelowLimit
    <3> SUFFICES ASSUME NEW r \in Rows, outbox'[r].attempts >= MaxAttempts
                 PROVE  outbox'[r].attempts + Cardinality(Stale(r)')
                          < MaxAttempts + Cardinality(Flushes)
      BY <2>3 DEF OverlapBound
    <3>3. PICK S, T : S = Stale(r) /\ T = Stale(r)'
      OBVIOUS
    <3>4. T \subseteq S /\ (r = q => f \notin T)
      BY <2>1, <2>4, <3>3, ContinueStale
    <3>5. /\ IsFiniteSet(S) /\ S \subseteq Flushes
          /\ Cardinality(S) \in Nat /\ Cardinality(S) <= Cardinality(Flushes)
      BY <3>3, StaleFinite, FlushesFinite, FS_Subset
    <3>6. Cardinality(T) \in Nat /\ Cardinality(T) <= Cardinality(S)
      BY <3>4, <3>5, FS_Subset, FS_CardinalityType
    <3>7. outbox[r].attempts \in Nat
      BY <1>0
    <3>8. outbox[r].attempts >= MaxAttempts =>
            outbox[r].attempts + Cardinality(S) < MaxAttempts + Cardinality(Flushes)
      BY <3>3 DEF OverlapBound
    <3>9. CASE r = q
      <4>1. f \in S /\ T \subseteq S \ {f}
        BY <3>2, <3>3, <3>4, <3>9
      <4>2. /\ Cardinality(S \ {f}) = Cardinality(S) - 1
            /\ Cardinality(T) <= Cardinality(S \ {f})
        BY <4>1, <3>5, FS_RemoveElement, FS_Subset
      <4>3. Cardinality(T) + 1 <= Cardinality(S)
        BY <4>2, <3>5, <3>6
      <4>4. outbox'[r].attempts = outbox[r].attempts + 1
        BY <3>1, <3>9
      <4> QED BY <4>3, <4>4, <3>3, <3>5, <3>6, <3>7, <3>8, FlushesFinite,
                 RelayAssumption
    <3>10. CASE r # q
      BY <3>1, <3>3, <3>6, <3>5, <3>7, <3>8, <3>10, FlushesFinite, RelayAssumption
    <3> QED BY <3>9, <3>10
  <2> QED BY <2>1, <2>4, <2>5, <2>6
<1>8. ASSUME NEW p \in Relays, Crash(p) PROVE InvOverlap'
  <2>1. /\ UNCHANGED outbox
        /\ flush' = [f \in Flushes |-> IF f[1] = p THEN Idle ELSE flush[f]]
    BY <1>8 DEF Crash
  <2>2. \A f \in Flushes : flush'[f] = flush[f] \/ flush'[f].left = {}
    BY <2>1 DEF Idle
  <2>3. SentBelowLimit'
    BY <2>2 DEF SentBelowLimit, Row
  <2>4. \A r \in Rows : Stale(r)' \subseteq Stale(r)
    BY <2>2 DEF Stale
  <2> QED BY <2>1, <2>3, <2>4, BoundKept
<1>11. ASSUME NEW p \in Relays, Reconnect(p) PROVE InvOverlap'
  <2>1. /\ UNCHANGED outbox
        /\ flush' = [f \in Flushes |->
                       IF f[1] = p /\ At(f, "taken")
                       THEN [pc |-> "publishing", left |-> flush[f].left,
                             seen |-> flush[f].seen]
                       ELSE flush[f]]
    BY <1>11 DEF Reconnect
  <2>2. \A f \in Flushes :
          \/ flush'[f] = flush[f]
          \/ /\ flush[f].pc # "loop"
             /\ flush'[f].left = flush[f].left /\ flush'[f].seen = flush[f].seen
    BY <2>1 DEF At
  <2>3. SentBelowLimit'
    BY <2>2 DEF SentBelowLimit, Row
  <2>4. \A r \in Rows : Stale(r)' \subseteq Stale(r)
    BY <2>2 DEF Stale
  <2> QED BY <2>1, <2>3, <2>4, BoundKept
<1>9. CASE UNCHANGED vars
  <2>1. UNCHANGED <<outbox, flush>>
    BY <1>9 DEF vars
  <2>2. SentBelowLimit' /\ \A r : Stale(r)' = Stale(r)
    BY <2>1 DEF SentBelowLimit, Row, Stale
  <2> QED BY <2>1, <2>2, BoundKept
<1>10. ASSUME NEW f \in Flushes, Mark(f) PROVE InvOverlap'
  <2>1. Continue(f) \/ Goto(f, "failed")
    BY <1>10 DEF Mark
  <2> QED BY <2>1, <1>10, <1>5, <1>6
<1> QED BY <1>1, <1>2, <1>3, <1>4, <1>5, <1>7, <1>8, <1>9, <1>10, <1>11 DEF Next, Step

\* The bound at any time follows from the bound at the limit.
LEMMA BoundSuffices == TypeOK /\ OverlapBound => AttemptsWithinOverlap
<1> SUFFICES ASSUME TypeOK, OverlapBound, NEW r \in Rows
             PROVE  outbox[r].attempts < MaxAttempts + Cardinality(Flushes)
  BY DEF AttemptsWithinOverlap
<1>1. outbox[r].attempts \in Nat
  BY DEF TypeOK
<1>2. outbox[r].attempts >= MaxAttempts =>
        outbox[r].attempts + Cardinality(Stale(r)) < MaxAttempts + Cardinality(Flushes)
  BY DEF OverlapBound
<1> QED BY <1>1, <1>2, StaleFinite, FlushesFinite, RelayAssumption

-----------------------------------------------------------------------------
(***************************************************************************)
(* The account of the copies.                                              *)
(***************************************************************************)

LEMMA AnsweringFinite ==
  \A r : /\ IsFiniteSet(Answering(r)) /\ Cardinality(Answering(r)) \in Nat
         /\ Answering(r) \subseteq Flushes
BY FlushesFinite, FS_Subset, FS_CardinalityType DEF Answering

\* What a fault pays for.
LEMMA FaultPays ==
  ASSUME faults \in Nat
  PROVE  /\ Cardinality(Timers) \in Nat
         /\ faults * Cardinality(Timers) \in Nat
         /\ (faults + 1) * Cardinality(Timers)
              = faults * Cardinality(Timers) + Cardinality(Timers)
<1>1. Cardinality(Timers) \in Nat
  BY RelayAssumption, FS_CardinalityType
<1>2. \A a, b \in Nat : a * b \in Nat /\ (a + 1) * b = a * b + b
  OBVIOUS
<1> QED BY <1>1, <1>2

\* A step that takes no answer away keeps the account.
LEMMA NothingTaken ==
  ASSUME TypeOK, NEW r \in Rows, Answered(r), broker'[r] = broker[r],
         outbox'[r].attempts = outbox[r].attempts,
         faults' = faults \/ faults' = faults + 1,
         Answering(r) \subseteq Answering(r)'
  PROVE  Answered(r)'
<1>1. PICK S, T : S = Answering(r) /\ T = Answering(r)'
  OBVIOUS
<1>2. IsFiniteSet(T) /\ Cardinality(T) \in Nat
  BY <1>1, FlushesFinite, FS_Subset, FS_CardinalityType DEF Answering
<1>3. Cardinality(S) \in Nat /\ Cardinality(S) <= Cardinality(T)
  BY <1>1, <1>2, FS_Subset, AnsweringFinite
<1>4. PICK a, b, x, y : /\ a = faults * Cardinality(Timers)
                        /\ b = faults' * Cardinality(Timers)
                        /\ x = broker[r] /\ y = outbox[r].attempts
  OBVIOUS
<1>5. a \in Nat /\ b \in Nat /\ a <= b
  BY <1>4, FaultPays, RelayAssumption DEF TypeOK
<1>6. x \in Nat /\ y \in Nat
  BY <1>4 DEF TypeOK
<1>7. x <= y + a + Cardinality(S)
  BY <1>1, <1>4 DEF Answered
<1>8. x <= y + b + Cardinality(T)
  BY <1>2, <1>3, <1>5, <1>6, <1>7
<1> QED BY <1>1, <1>4, <1>8 DEF Answered

\* A fault takes answers from the flushes of one process at most, and pays for
\* all of them.
LEMMA FaultTakes ==
  ASSUME TypeOK, NEW r \in Rows, NEW p \in Relays, Answered(r),
         broker'[r] = broker[r], outbox'[r].attempts = outbox[r].attempts,
         faults' = faults + 1,
         Answering(r) \ ({p} \X Timers) \subseteq Answering(r)'
  PROVE  Answered(r)'
<1>1. PICK S, T, C : S = Answering(r) /\ T = Answering(r)' /\ C = {p} \X Timers
  OBVIOUS
<1>2. /\ IsFiniteSet(T) /\ Cardinality(T) \in Nat
      /\ IsFiniteSet(S) /\ Cardinality(S) \in Nat
  BY <1>1, FlushesFinite, FS_Subset, FS_CardinalityType DEF Answering
<1>3. IsFiniteSet({p}) /\ Cardinality({p}) = 1
  BY FS_Singleton
<1>4. IsFiniteSet(C) /\ Cardinality(C) = Cardinality(Timers)
  BY <1>1, <1>3, RelayAssumption, FS_Product, FS_CardinalityType
<1>5. S \subseteq T \cup C
  BY <1>1
<1>6. /\ IsFiniteSet(T \cup C) /\ Cardinality(T \cup C) \in Nat
      /\ Cardinality(T \cup C)
           = Cardinality(T) + Cardinality(C) - Cardinality(T \cap C)
      /\ Cardinality(T \cap C) \in Nat
  BY <1>2, <1>4, FS_Union, FS_CardinalityType, FS_Intersection
<1>7. Cardinality(S) <= Cardinality(T \cup C)
  BY <1>5, <1>6, FS_Subset
<1>8. Cardinality(S) <= Cardinality(T) + Cardinality(Timers)
  BY <1>2, <1>4, <1>6, <1>7, FaultPays DEF TypeOK
<1>9. PICK a, x, y : /\ a = faults * Cardinality(Timers)
                     /\ x = broker[r] /\ y = outbox[r].attempts
  OBVIOUS
<1>10. /\ a \in Nat /\ Cardinality(Timers) \in Nat
       /\ faults' * Cardinality(Timers) = a + Cardinality(Timers)
  BY <1>9, FaultPays, RelayAssumption DEF TypeOK
<1>11. x \in Nat /\ y \in Nat
  BY <1>9 DEF TypeOK
<1>12. x <= y + a + Cardinality(S)
  BY <1>1, <1>9 DEF Answered
<1>13. x <= y + (a + Cardinality(Timers)) + Cardinality(T)
  BY <1>2, <1>8, <1>10, <1>11, <1>12
<1> QED BY <1>1, <1>9, <1>10, <1>13 DEF Answered

\* Which flushes answer after a step within a row ...
LEMMA GotoAnswers ==
  ASSUME TypeOK, NEW f \in Flushes, flush[f].left # {},
         NEW pc \in {"publishing", "taken", "confirmed", "failed"}, Goto(f, pc)
  PROVE  /\ \A g \in Flushes : flush'[g].left = flush[g].left
         /\ \A r : \A g \in Flushes \ {f} : HoldsCopy(g, r)' <=> HoldsCopy(g, r)
         /\ \A r : HoldsCopy(f, r)' <=> Row(f) = r /\ pc # "publishing"
<1>1. /\ \A g \in Flushes \ {f} : flush'[g] = flush[g]
      /\ flush'[f].pc = pc /\ flush'[f].left = flush[f].left
  BY GotoMoves
<1> QED BY <1>1 DEF HoldsCopy, Row

\* ... and after one to the next row.
LEMMA ContinueAnswers ==
  ASSUME TypeOK, NEW f \in Flushes, Continue(f)
  PROVE  /\ \A g \in Flushes \ {f} : flush'[g].left = flush[g].left
         /\ flush'[f].left = flush[f].left \ {Row(f)}
         /\ \A r : \A g \in Flushes \ {f} : HoldsCopy(g, r)' <=> HoldsCopy(g, r)
         /\ \A r : ~HoldsCopy(f, r)'
<1>1. /\ \A g \in Flushes \ {f} : flush'[g] = flush[g]
      /\ flush'[f].pc = "loop" /\ flush'[f].left = flush[f].left \ {Row(f)}
  BY ContinueMoves
<1> QED BY <1>1 DEF HoldsCopy, Row

\* What a mark that may fail does to every row.
LEMMA MarkPublishes ==
  ASSUME TypeOK, NEW q \in Rows, markPublished(q) \/ UNCHANGED outbox
  PROVE  /\ \A r \in Rows : outbox'[r].attempts = outbox[r].attempts
         /\ \A r \in Rows : outbox[r].published => outbox'[r].published
         /\ \A r \in Rows : r # q => outbox'[r].published = outbox[r].published
         /\ markPublished(q) => outbox'[q].published
<1>1. CASE UNCHANGED outbox
  <2>1. ASSUME markPublished(q) PROVE outbox'[q].published
    BY <2>1 DEF markPublished, TypeOK
  <2> QED BY <1>1, <2>1
<1>2. CASE markPublished(q)
  <2>1. outbox[q].published = TRUE \/ outbox[q].published = FALSE
    BY DEF TypeOK
  <2> QED BY <1>2, <2>1, MarkMoves DEF markPublished, TypeOK
<1> QED BY <1>1, <1>2

LEMMA InitAnswered == Init => CopiesAnswered
<1> SUFFICES ASSUME Init, NEW r \in Rows PROVE Answered(r)
  BY DEF CopiesAnswered
<1>1. broker[r] = 0 /\ outbox[r].attempts = 0 /\ faults = 0
  BY DEF Init, NoRow
<1>2. 0 * Cardinality(Timers) = 0
  BY RelayAssumption, FS_CardinalityType
<1> QED BY <1>1, <1>2, AnsweringFinite DEF Answered

LEMMA StepKeepsAccount ==
  ASSUME Inv, CopiesAnswered, [Next]_vars
  PROVE  CopiesAnswered'
<1> SUFFICES ASSUME NEW r \in Rows PROVE Answered(r)'
  BY DEF CopiesAnswered
<1>0. /\ TypeOK /\ Answered(r)
      /\ outbox[r] \in [stored : BOOLEAN, published : BOOLEAN, attempts : Nat]
  BY DEF Inv, TypeOK, CopiesAnswered
<1>1. ASSUME NEW q \in Rows, Store(q) PROVE Answered(r)'
  <2>1. /\ outbox'[r].attempts = outbox[r].attempts
        /\ outbox'[r].published = outbox[r].published
        /\ UNCHANGED <<flush, broker, faults>>
    BY <1>0, <1>1 DEF Store, TypeOK
  <2>2. Answering(r) \subseteq Answering(r)'
    BY <2>1 DEF Answering, HoldsCopy, Row
  <2> QED BY <1>0, <2>1, <2>2, NothingTaken
<1>2. ASSUME NEW f \in Flushes, Fetch(f) PROVE Answered(r)'
  <2>1. UNCHANGED <<outbox, broker, faults>> /\ flush[f].left = {}
    BY <1>2 DEF Fetch
  <2>2. /\ \A g \in Flushes \ {f} : flush'[g] = flush[g]
        /\ flush'[f].left = Batch
    BY <1>0, <1>2, FetchMoves
  <2>3. r \in Batch => ~outbox[r].published
    BY DEF Batch, Pending
  <2>4. \A g \in Answering(r) : g \in Answering(r)'
    <3> TAKE g \in Answering(r)
    <3>1. g \in Flushes /\ (HoldsCopy(g, r) \/ (outbox[r].published /\ r \notin flush[g].left))
      BY DEF Answering
    <3>2. CASE g = f
      BY <2>1, <2>2, <2>3, <3>1, <3>2 DEF Answering, HoldsCopy
    <3>3. CASE g # f
      BY <2>1, <2>2, <3>1, <3>3 DEF Answering, HoldsCopy, Row
    <3> QED BY <3>2, <3>3
  <2> QED BY <1>0, <2>1, <2>4, NothingTaken
<1>3. ASSUME NEW f \in Flushes, Abandon(f) PROVE Answered(r)'
  <2>1. /\ Continue(f) /\ broker' = broker /\ flush[f].pc = "loop"
        /\ faults' = faults \/ faults' = faults + 1
        /\ markPublished(Row(f)) \/ UNCHANGED outbox
    BY <1>3 DEF Abandon, At, Fault
  <2>2. Row(f) \in flush[f].left /\ Row(f) \in Rows
    BY <1>0, <1>3, OldestInSet DEF Abandon, At, Row, TypeOK, FlushRecord
  <2>3. PICK q \in Rows : q = Row(f)
    BY <2>2
  <2>4. /\ outbox'[r].attempts = outbox[r].attempts
        /\ outbox[r].published => outbox'[r].published
    BY <1>0, <2>1, <2>3, MarkPublishes
  <2>5. \A g \in Answering(r) : g \in Answering(r)'
    BY <1>0, <2>1, <2>4, ContinueAnswers DEF Answering, HoldsCopy
  <2> QED BY <1>0, <2>1, <2>4, <2>5, NothingTaken
<1>4. ASSUME NEW f \in Flushes, Publish(f) PROVE Answered(r)'
  <2>1. /\ UNCHANGED <<outbox, broker, faults>> /\ Goto(f, "publishing")
        /\ flush[f].left # {} /\ flush[f].pc = "loop"
    BY <1>4 DEF Publish, At
  <2>2. \A g \in Answering(r) : g \in Answering(r)'
    BY <1>0, <2>1, GotoAnswers DEF Answering, HoldsCopy
  <2> QED BY <1>0, <2>1, <2>2, NothingTaken
<1>5. ASSUME NEW f \in Flushes, BrokerTakes(f) PROVE Answered(r)'
  <2>1. /\ UNCHANGED <<outbox, faults>> /\ Goto(f, "taken")
        /\ broker' = [broker EXCEPT ![Row(f)] = @ + 1]
        /\ flush[f].left # {} /\ flush[f].pc = "publishing"
    BY <1>5 DEF BrokerTakes, At
  <2>2. \A g \in Answering(r) : g \in Answering(r)'
    BY <1>0, <2>1, GotoAnswers DEF Answering, HoldsCopy
  <2>3. CASE Row(f) # r
    <3>1. broker'[r] = broker[r]
      BY <1>0, <2>1, <2>3 DEF TypeOK
    <3> QED BY <1>0, <2>1, <2>2, <3>1, NothingTaken
  <2>4. CASE Row(f) = r
    <3>1. broker'[r] = broker[r] + 1
      BY <1>0, <2>1, <2>4 DEF TypeOK
    <3>2. r \in flush[f].left
      BY <1>0, <2>1, <2>4, OldestInSet DEF Row, TypeOK, FlushRecord
    <3>3. f \in Answering(r)' /\ f \notin Answering(r)
      BY <1>0, <2>1, <2>4, <3>2, GotoAnswers DEF Answering, HoldsCopy
    <3>4. PICK S, T : S = Answering(r) /\ T = Answering(r)'
      OBVIOUS
    <3>5. /\ IsFiniteSet(S) /\ Cardinality(S) \in Nat
          /\ IsFiniteSet(T) /\ Cardinality(T) \in Nat
      BY <3>4, FlushesFinite, FS_Subset, FS_CardinalityType DEF Answering
    <3>6. Cardinality(S \cup {f}) = Cardinality(S) + 1
      BY <3>3, <3>4, <3>5, FS_AddElement
    <3>7. Cardinality(S) + 1 <= Cardinality(T)
      BY <2>2, <3>3, <3>4, <3>5, <3>6, FS_Subset
    <3>8. PICK a, x, y : /\ a = faults * Cardinality(Timers)
                         /\ x = broker[r] /\ y = outbox[r].attempts
      OBVIOUS
    <3>9. a \in Nat /\ x \in Nat /\ y \in Nat /\ x <= y + a + Cardinality(S)
      BY <1>0, <3>4, <3>8, FaultPays, RelayAssumption DEF TypeOK, Answered
    <3>10. x + 1 <= y + a + Cardinality(T)
      BY <3>5, <3>7, <3>9
    <3> QED BY <2>1, <3>1, <3>4, <3>8, <3>10 DEF Answered
  <2> QED BY <2>3, <2>4
<1>6. ASSUME NEW f \in Flushes, Confirm(f) \/ Reject(f) PROVE Answered(r)'
  <2>1. /\ UNCHANGED <<outbox, broker, faults>> /\ flush[f].left # {}
        /\ Goto(f, "confirmed") \/ Goto(f, "failed")
    BY <1>6 DEF Confirm, Reject, At
  <2>2. \A g \in Answering(r) : g \in Answering(r)'
    BY <1>0, <2>1, GotoAnswers DEF Answering, HoldsCopy
  <2> QED BY <1>0, <2>1, <2>2, NothingTaken
<1>7. ASSUME NEW f \in Flushes, Mark(f) PROVE Answered(r)'
  <2>1. /\ flush[f].left # {} /\ flush[f].pc = "confirmed" /\ broker' = broker
        /\ faults' = faults \/ faults' = faults + 1
        /\ markPublished(Row(f)) \/ UNCHANGED outbox
        /\ \/ Goto(f, "failed")
           \/ markPublished(Row(f)) /\ Continue(f)
    BY <1>7 DEF Mark, At, Fault
  <2>2. Row(f) \in flush[f].left /\ Row(f) \in Rows
    BY <1>0, <2>1, OldestInSet DEF Row, TypeOK, FlushRecord
  <2>3. PICK q \in Rows : q = Row(f)
    BY <2>2
  <2>4. /\ outbox'[r].attempts = outbox[r].attempts
        /\ outbox[r].published => outbox'[r].published
        /\ markPublished(q) /\ r = q => outbox'[r].published
    BY <1>0, <2>1, <2>3, MarkPublishes
  <2>5. CASE Goto(f, "failed")
    <3>1. \A g \in Answering(r) : g \in Answering(r)'
      BY <1>0, <2>1, <2>4, <2>5, GotoAnswers DEF Answering, HoldsCopy
    <3> QED BY <1>0, <2>1, <2>4, <3>1, NothingTaken
  <2>6. CASE markPublished(q) /\ Continue(f)
    <3>1. \A g \in Answering(r) : g \in Answering(r)'
      BY <1>0, <2>1, <2>3, <2>4, <2>6, ContinueAnswers DEF Answering, HoldsCopy
    <3> QED BY <1>0, <2>1, <2>4, <3>1, NothingTaken
  <2> QED BY <2>1, <2>3, <2>5, <2>6
<1>8. ASSUME NEW f \in Flushes, CountFailure(f) PROVE Answered(r)'
  <2>1. /\ flush[f].left # {} /\ flush[f].pc = "failed" /\ broker' = broker
        /\ Continue(f)
        /\ \/ incrementAttempts(Row(f)) /\ UNCHANGED faults
           \/ faults' = faults + 1 /\ UNCHANGED outbox
    BY <1>8 DEF CountFailure, At, Fault
  <2>2. Row(f) \in flush[f].left /\ Row(f) \in Rows
    BY <1>0, <2>1, OldestInSet DEF Row, TypeOK, FlushRecord
  <2>3. PICK q \in Rows : q = Row(f)
    BY <2>2
  <2>4. CASE faults' = faults + 1 /\ UNCHANGED outbox
    <3>1. PICK p \in Relays, t \in Timers : f = <<p, t>>
      OBVIOUS
    <3>2. Answering(r) \ ({p} \X Timers) \subseteq Answering(r)'
      BY <1>0, <2>1, <2>4, <3>1, ContinueAnswers DEF Answering
    <3> QED BY <1>0, <2>1, <2>4, <3>2, FaultTakes
  <2>5. CASE incrementAttempts(q) /\ UNCHANGED faults
    <3>1. /\ outbox'[r].published = outbox[r].published
          /\ outbox'[r].attempts
               = outbox[r].attempts + (IF r = q THEN 1 ELSE 0)
      BY <1>0, <2>5 DEF incrementAttempts, TypeOK
    <3>2. \A g \in Answering(r) \ {f} : g \in Answering(r)'
      BY <1>0, <2>1, <3>1, ContinueAnswers DEF Answering
    <3>3. r # q => (f \in Answering(r) => f \in Answering(r)')
      BY <1>0, <2>1, <2>3, <3>1, ContinueAnswers DEF Answering, HoldsCopy
    <3>4. CASE r # q
      BY <1>0, <2>1, <2>5, <3>1, <3>2, <3>3, <3>4, NothingTaken
    <3>5. CASE r = q
      <4>1. PICK S, T : S = Answering(r) /\ T = Answering(r)'
        OBVIOUS
      <4>2. /\ IsFiniteSet(S) /\ Cardinality(S) \in Nat
            /\ IsFiniteSet(T) /\ Cardinality(T) \in Nat
        BY <4>1, FlushesFinite, FS_Subset, FS_CardinalityType DEF Answering
      <4>3. /\ IsFiniteSet(S \ {f}) /\ Cardinality(S \ {f}) \in Nat
            /\ Cardinality(S) <= Cardinality(S \ {f}) + 1
        <5>1. /\ IsFiniteSet(S \ {f})
              /\ Cardinality(S \ {f})
                   = IF f \in S THEN Cardinality(S) - 1 ELSE Cardinality(S)
          BY <4>2, FS_RemoveElement
        <5>2. Cardinality(S \ {f}) \in Nat
          BY <5>1, FS_CardinalityType
        <5> QED BY <4>2, <5>1, <5>2
      <4>4. Cardinality(S \ {f}) <= Cardinality(T)
        BY <3>2, <4>1, <4>2, FS_Subset
      <4>5. PICK a, x, y : /\ a = faults * Cardinality(Timers)
                           /\ x = broker[r] /\ y = outbox[r].attempts
        OBVIOUS
      <4>6. a \in Nat /\ x \in Nat /\ y \in Nat /\ x <= y + a + Cardinality(S)
        BY <1>0, <4>1, <4>5, FaultPays, RelayAssumption DEF TypeOK, Answered
      <4>7. x <= (y + 1) + a + Cardinality(T)
        BY <4>2, <4>3, <4>4, <4>6
      <4> QED BY <2>1, <2>5, <3>1, <3>5, <4>1, <4>5, <4>7 DEF Answered
    <3> QED BY <3>4, <3>5
  <2> QED BY <2>1, <2>3, <2>4, <2>5
<1>9. ASSUME NEW p \in Relays, Crash(p) PROVE Answered(r)'
  <2>1. /\ UNCHANGED <<outbox, broker>> /\ faults' = faults + 1
        /\ flush' = [f \in Flushes |-> IF f[1] = p THEN Idle ELSE flush[f]]
    BY <1>9 DEF Crash, Fault
  <2>2. \A f \in Flushes \ ({p} \X Timers) : flush'[f] = flush[f]
    BY <2>1
  <2>3. Answering(r) \ ({p} \X Timers) \subseteq Answering(r)'
    BY <2>1, <2>2 DEF Answering, HoldsCopy, Row
  <2> QED BY <1>0, <2>1, <2>3, FaultTakes
<1>10. ASSUME NEW p \in Relays, Reconnect(p) PROVE Answered(r)'
  <2>1. /\ UNCHANGED <<outbox, broker>> /\ faults' = faults + 1
        /\ flush' = [f \in Flushes |->
                       IF f[1] = p /\ At(f, "taken")
                       THEN [pc |-> "publishing", left |-> flush[f].left,
                             seen |-> flush[f].seen]
                       ELSE flush[f]]
    BY <1>10 DEF Reconnect, Fault
  <2>2. \A f \in Flushes \ ({p} \X Timers) : flush'[f] = flush[f]
    BY <2>1
  <2>3. Answering(r) \ ({p} \X Timers) \subseteq Answering(r)'
    BY <2>1, <2>2 DEF Answering, HoldsCopy, Row
  <2> QED BY <1>0, <2>1, <2>3, FaultTakes
<1>11. CASE UNCHANGED vars
  <2>1. UNCHANGED <<outbox, flush, broker, faults>>
    BY <1>11 DEF vars
  <2>2. Answering(r) \subseteq Answering(r)'
    BY <2>1 DEF Answering, HoldsCopy, Row
  <2> QED BY <1>0, <2>1, <2>2, NothingTaken
<1> QED BY <1>1, <1>2, <1>3, <1>4, <1>5, <1>6, <1>7, <1>8, <1>9, <1>10, <1>11
        DEF Next, Step

\* The flushes that answer are at most all there can be.
LEMMA AccountSuffices == TypeOK /\ CopiesAnswered => CopiesAccounted
<1> SUFFICES ASSUME TypeOK, NEW r \in Rows, Answered(r)
             PROVE  broker[r] <= outbox[r].attempts + faults * Cardinality(Timers)
                                   + Cardinality(Flushes)
  BY DEF CopiesAccounted, CopiesAnswered
<1>1. /\ Cardinality(Answering(r)) \in Nat
      /\ Cardinality(Answering(r)) <= Cardinality(Flushes)
  BY AnsweringFinite, FlushesFinite, FS_Subset
<1>2. /\ faults * Cardinality(Timers) \in Nat
      /\ broker[r] \in Nat /\ outbox[r].attempts \in Nat
  BY FaultPays, RelayAssumption DEF TypeOK
<1> QED BY <1>1, <1>2, FlushesFinite DEF Answered

-----------------------------------------------------------------------------
(***************************************************************************)
(* The theorems.                                                           *)
(***************************************************************************)

\* The memory of every flush agrees with the table and the broker, at all
\* times and whatever fails.
THEOREM RelayInvariant == Spec => [](Inv /\ InvOverlap)
<1>1. Init => Inv /\ InvOverlap
  BY InitEstablishes
<1>2. Inv /\ InvOverlap /\ [Next]_vars => (Inv /\ InvOverlap)'
  BY StepKeepsInv, StepKeepsOverlap
<1> QED BY <1>1, <1>2, PTL DEF Spec

\* The outbox, the flushes and the counters keep their types.
THEOREM RelayTypeCorrect == Spec => []TypeOK
<1>1. Inv /\ InvOverlap => TypeOK
  BY DEF Inv
<1> QED BY <1>1, RelayInvariant, PTL

\* No event leaves the outbox but by a copy the broker took or by MaxAttempts
\* counted failures, for any overlap of flushes and any faults.
THEOREM RelayLosesNothing == Spec => []NothingLost
<1>1. Inv /\ InvOverlap => NothingLost
  BY DEF Inv
<1> QED BY <1>1, RelayInvariant, PTL

\* The count of a row passes the limit by fewer than the flushes that can be
\* under way at once; with one flush at a time it stops at the limit.
THEOREM RelayCountBounded == Spec => []AttemptsWithinOverlap
<1>1. Inv /\ InvOverlap => AttemptsWithinOverlap
  BY BoundSuffices DEF Inv, InvOverlap
<1> QED BY <1>1, RelayInvariant, PTL

\* Beyond one copy for each flush that can be under way, every copy the broker
\* has of a row is answered for by a counted failure or by a fault, which
\* answers for one copy of each flush of a process.
THEOREM RelayCopiesAccounted == Spec => []CopiesAccounted
<1>1. Init => Inv /\ CopiesAnswered
  BY InitEstablishes, InitAnswered
<1>2. Inv /\ CopiesAnswered /\ [Next]_vars => (Inv /\ CopiesAnswered)'
  BY StepKeepsInv, StepKeepsAccount
<1>3. Inv /\ CopiesAnswered => CopiesAccounted
  BY AccountSuffices DEF Inv
<1> QED BY <1>1, <1>2, <1>3, PTL DEF Spec

=============================================================================

----------------------- MODULE LearningProgress_proofs -----------------------
(***************************************************************************)
(* What the consumer keeps of a learner's record, of the schedule and of   *)
(* its counters, for any story of events, any number of handlers, requests *)
(* and cards, whatever they do to each other and wherever they stop.       *)
(***************************************************************************)
EXTENDS LearningProgress, FiniteSetTheorems, WellFoundedInduction, TLAPS

-----------------------------------------------------------------------------
(***************************************************************************)
(* What is true of a handler between two of its steps.                     *)
(***************************************************************************)

Fits(t, story) ==
    /\ t.pc # "idle" => t.event \in DOMAIN story
    /\ t.owned => t.pc # "idle"
    /\ t.pc \in {"incr", "decr", "insert"} => t.card \in Contents
    /\ t.pc \in {"incr", "decr"} => LastDay \in t.room

AllFit == \A h \in Handlers : Fits(handler[h], sent)

\* Places being given back were counted.
Returning(hold, d) == {h \in Handlers : hold[h].pc = "decr" /\ hold[h].day = d}

GivesBackItsOwn == \A d \in Days : Cardinality(Returning(handler, d)) <= taken[d]

IInv == TypeOK /\ AllFit /\ GivesBackItsOwn

-----------------------------------------------------------------------------
(***************************************************************************)
(* Sets and numbers.                                                       *)
(***************************************************************************)

\* A set of numbers that is not empty has a least one.
LEMMA MinIsLeast ==
    ASSUME NEW S \in SUBSET Nat, NEW n \in S
    PROVE  Min(S) \in S /\ \A m \in S : Min(S) <= m
<1> DEFINE Less == OpToRel(<, Nat)
<1>1. IsWellFoundedOn(Less, Nat)
  BY NatLessThanWellFounded
<1> HIDE DEF Less
<1>2. PICK x \in S : \A y \in S : ~(<<y, x>> \in Less)
  BY <1>1, WFMin
<1>3. \A y \in S : x <= y
  <2> TAKE y \in S
  <2>1. x \in Nat /\ y \in Nat
    OBVIOUS
  <2>2. y < x => <<y, x>> \in Less
    BY <2>1 DEF Less, OpToRel
  <2> QED BY <2>1, <2>2, <1>2
<1> QED BY <1>3 DEF Min

LEMMA NoMore ==
    ASSUME NEW S, IsFiniteSet(S), NEW T \in SUBSET S
    PROVE  IsFiniteSet(T) /\ Cardinality(T) \in Nat /\ Cardinality(T) <= Cardinality(S)
BY FS_Subset, FS_CardinalityType

LEMMA OneMore ==
    ASSUME NEW S, IsFiniteSet(S), NEW x, NEW T \in SUBSET (S \cup {x})
    PROVE  Cardinality(T) <= Cardinality(S) + 1
<1>1. IsFiniteSet(S \cup {x}) /\ Cardinality(S \cup {x}) \in {Cardinality(S), Cardinality(S) + 1}
  BY FS_AddElement
<1>2. Cardinality(S) \in Nat /\ Cardinality(T) \in Nat
  BY <1>1, FS_Subset, FS_CardinalityType
<1>3. Cardinality(T) <= Cardinality(S \cup {x})
  BY <1>1, FS_Subset
<1> QED BY <1>1, <1>2, <1>3

LEMMA OneLess ==
    ASSUME NEW S, IsFiniteSet(S), NEW x \in S, NEW T \in SUBSET (S \ {x})
    PROVE  Cardinality(T) <= Cardinality(S) - 1
<1>1. Cardinality(S \ {x}) = Cardinality(S) - 1 /\ IsFiniteSet(S \ {x})
  BY FS_RemoveElement
<1> QED BY <1>1, FS_Subset, FS_CardinalityType

-----------------------------------------------------------------------------
(***************************************************************************)
(* The row.                                                                *)
(***************************************************************************)

RowOf(p) == IF p = None THEN NewProgress ELSE p

LEMMA EventFields ==
    ASSUME NEW e \in Event
    PROVE  /\ e.at \in Dates /\ e.at \in Nat /\ e.revises \in BOOLEAN
           /\ e.attempt \in Attempts
           /\ e.outcome \in {"submitted", "passed", "failed", "returned"}
           /\ e.by \in {"check", "teacher", "ai"}
           /\ e.revises => e.by = "teacher"
BY DatesAssumption DEF Event, HandIn, Verdict, Revision

LEMMA NewIsRow == NewProgress \in Row
BY DEF NewProgress, Row, Status

LEMMA ApplyIsRow ==
    ASSUME NEW row \in Row, NEW e \in Event
    PROVE  Apply(row, e) \in Row
<1>1. StatusAfter(row, e) \in Status
  BY EventFields DEF StatusAfter, Completes, Row, Status
<1>2. RecordAttempt(row, e) \in Row
  <2>1. (row.completed \/ Completes(row, e)) \in BOOLEAN
    BY DEF Row
  <2>2. ByAiAfter(row, e) \in BOOLEAN
    BY DEF ByAiAfter, Row
  <2>3. /\ row.attempts + 1 \in Nat
        /\ (IF Latest(row, e) THEN e.at ELSE row.last) \in Dates \cup {0}
        /\ (IF Latest(row, e) /\ e.outcome # "submitted" THEN e.at ELSE row.score)
                \in Dates \cup {0}
    BY EventFields DEF Row
  <2> QED BY <1>1, <2>1, <2>2, <2>3 DEF RecordAttempt, Row
<1>3. RecordReturn(row) \in Row
  BY DEF RecordReturn, Row, Status
<1>4. ReviseVerdict(row, e) \in Row
  BY EventFields DEF ReviseVerdict, Latest, Row, Status
<1> QED BY <1>2, <1>3, <1>4 DEF Apply

\* The rows a teacher's request can leave.
TeacherRows(row) ==
    {MarkNeedsReview(r) : r \in {x \in {row} : CanMarkNeedsReview(x)}}
        \cup {ResolveReview(row, approved) :
                 approved \in IF CanResolveReview(row) THEN BOOLEAN ELSE {}}

LEMMA TeacherRowsAreRows ==
    ASSUME NEW row \in Row, NEW r \in TeacherRows(row)
    PROVE  r \in Row
<1>1. MarkNeedsReview(row) \in Row
  BY DEF MarkNeedsReview, Row, Status
<1>2. \A approved \in BOOLEAN : ResolveReview(row, approved) \in Row
  BY DEF ResolveReview, Row, Status
<1> QED BY <1>1, <1>2 DEF TeacherRows
-----------------------------------------------------------------------------
(***************************************************************************)
(* A handler's step.                                                       *)
(***************************************************************************)

LEMMA DaysAreNat == Days \subseteq Nat /\ LastDay \in Days /\ 0 \in Days
BY LearningAssumption DEF Days, LastDay

LEMMA IdleFits == Idle \in Handler /\ \A story : Fits(Idle, story)
BY NewIsRow, DaysAreNat DEF Idle, Handler, Pc, Fits

LEMMA EventOfHandler ==
    ASSUME TypeOK, AllFit, NEW h \in Handlers, handler[h].pc # "idle"
    PROVE  EventOf(h) \in Event /\ handler[h].event \in DOMAIN sent
BY DEF TypeOK, AllFit, Fits, EventOf

\* One handler moves.
LEMMA OneMoves ==
    ASSUME TypeOK, AllFit, NEW h \in Handlers, NEW t \in Handler, Fits(t, sent),
           handler' = [handler EXCEPT ![h] = t], sent' = sent
    PROVE  handler' \in [Handlers -> Handler] /\ AllFit'
<1>1. handler \in [Handlers -> Handler]
  BY DEF TypeOK
<1>2. \A k \in Handlers : handler'[k] = IF k = h THEN t ELSE handler[k]
  BY <1>1
<1> QED BY <1>1, <1>2 DEF AllFit

\* Of a day, nothing more is to be given back than before.
LEMMA NotMoreToGiveBack ==
    ASSUME IInv, NEW d \in Days, taken'[d] \in Nat, taken[d] <= taken'[d],
           \A k \in Handlers : handler'[k].pc = "decr" /\ handler'[k].day = d =>
               handler[k].pc = "decr" /\ handler[k].day = d
    PROVE  Cardinality(Returning(handler', d)) <= taken'[d]
<1>1. Returning(handler', d) \subseteq Returning(handler, d)
  BY DEF Returning
<1>2. IsFiniteSet(Returning(handler, d))
  BY LearningAssumption, FS_Subset DEF Returning
<1>3. Cardinality(Returning(handler', d)) <= Cardinality(Returning(handler, d))
  BY <1>1, <1>2, FS_Subset
<1>4. Cardinality(Returning(handler, d)) \in Nat /\ Cardinality(Returning(handler', d)) \in Nat
  BY <1>1, <1>2, FS_Subset, FS_CardinalityType
<1>5. Cardinality(Returning(handler, d)) <= taken[d] /\ taken[d] \in Nat
  BY DEF IInv, GivesBackItsOwn, TypeOK
<1> QED BY <1>3, <1>4, <1>5

\* Of a day, one place more is to be given back.
LEMMA OneMoreToGiveBack ==
    ASSUME IInv, NEW d \in Days, NEW h \in Handlers, taken'[d] = taken[d] + 1,
           \A k \in Handlers \ {h} : handler'[k] = handler[k]
    PROVE  Cardinality(Returning(handler', d)) <= taken'[d]
<1>1. Returning(handler', d) \subseteq Returning(handler, d) \cup {h}
  BY DEF Returning
<1>2. IsFiniteSet(Returning(handler, d)) /\ IsFiniteSet(Returning(handler', d))
  BY LearningAssumption, FS_Subset DEF Returning
<1>3. Cardinality(Returning(handler', d)) <= Cardinality(Returning(handler, d)) + 1
  BY <1>1, <1>2, OneMore
<1>4. Cardinality(Returning(handler, d)) \in Nat /\ Cardinality(Returning(handler', d)) \in Nat
  BY <1>2, FS_CardinalityType
<1>5. Cardinality(Returning(handler, d)) <= taken[d] /\ taken[d] \in Nat
  BY DEF IInv, GivesBackItsOwn, TypeOK
<1> QED BY <1>3, <1>4, <1>5

\* A handler leaves the day it was to give a place back of.
LEMMA OneLessToGiveBack ==
    ASSUME IInv, NEW h \in Handlers, NEW t, handler' = [handler EXCEPT ![h] = t],
           handler[h].pc = "decr", t.pc # "decr"
    PROVE  /\ taken[handler[h].day] - 1 \in Nat
           /\ Cardinality(Returning(handler', handler[h].day)) <= taken[handler[h].day] - 1
<1> DEFINE d == handler[h].day
<1>1. handler \in [Handlers -> Handler] /\ d \in Days
  BY DEF IInv, TypeOK, Handler
<1>2. Returning(handler', d) \subseteq Returning(handler, d) \ {h} /\ h \in Returning(handler, d)
  BY <1>1 DEF Returning
<1>3. IsFiniteSet(Returning(handler, d)) /\ IsFiniteSet(Returning(handler', d))
  BY LearningAssumption, FS_Subset DEF Returning
<1>4. Cardinality(Returning(handler', d)) <= Cardinality(Returning(handler, d)) - 1
  BY <1>2, <1>3, OneLess
<1>5. Cardinality(Returning(handler, d)) \in Nat /\ Cardinality(Returning(handler', d)) \in Nat
  BY <1>3, FS_CardinalityType
<1>6. Cardinality(Returning(handler, d)) <= taken[d] /\ taken[d] \in Nat
  BY <1>1 DEF IInv, GivesBackItsOwn, TypeOK
<1> QED BY <1>4, <1>5, <1>6

\* No handler has more to give back than before.
LEMMA NothingToGiveBack ==
    ASSUME IInv, taken' = taken,
           \A k \in Handlers : handler'[k].pc = "decr" =>
               handler[k].pc = "decr" /\ handler[k].day = handler'[k].day
    PROVE  GivesBackItsOwn'
<1> SUFFICES ASSUME NEW d \in Days
             PROVE  Cardinality(Returning(handler', d)) <= taken'[d]
  BY DEF GivesBackItsOwn
<1>1. taken'[d] \in Nat /\ taken[d] <= taken'[d]
  BY DEF IInv, TypeOK
<1> QED BY <1>1, NotMoreToGiveBack

\* The message is done with.
LEMMA FinishKeeps ==
    ASSUME IInv, NEW h \in Handlers, Finish(h), sent' = sent, taken' = taken
    PROVE  handler' \in [Handlers -> Handler] /\ AllFit' /\ GivesBackItsOwn'
<1>1. handler' = [handler EXCEPT ![h] = Idle]
  BY DEF Finish
<1>2. handler' \in [Handlers -> Handler] /\ AllFit'
  BY <1>1, IdleFits, OneMoves DEF IInv
<1>3. \A k \in Handlers : handler'[k].pc = "decr" =>
          handler[k].pc = "decr" /\ handler[k].day = handler'[k].day
  BY <1>1 DEF IInv, TypeOK, Idle
<1> QED BY <1>2, <1>3, NothingToGiveBack

LEMMA DeliverKeeps ==
    ASSUME IInv, NEW h \in Handlers, Deliver(h)
    PROVE  IInv'
<1> USE DEF IInv
<1>1. Min(queue) \in queue /\ queue \subseteq DOMAIN sent /\ DOMAIN sent \subseteq Nat
  <2>1. queue \subseteq DOMAIN sent /\ DOMAIN sent = 1 .. Len(sent) /\ Len(sent) \in Nat
    BY DEF TypeOK
  <2>2. queue \in SUBSET Nat /\ queue # {}
    BY <2>1 DEF Deliver
  <2> QED BY <2>1, <2>2, MinIsLeast
<1> DEFINE t == IF Min(queue) \in processed THEN Idle
                ELSE [Idle EXCEPT !.pc = "load", !.event = Min(queue), !.owned = TRUE]
<1>2. t \in Handler /\ Fits(t, sent) /\ t.pc # "decr"
  BY <1>1, IdleFits DEF Idle, Handler, Pc, Fits
<1>3. handler' = [handler EXCEPT ![h] = t] /\ UNCHANGED <<sent, taken>>
  BY DEF Deliver, schedule
<1> HIDE DEF t
<1>4. handler' \in [Handlers -> Handler] /\ AllFit'
  BY <1>2, <1>3, OneMoves
<1>5. GivesBackItsOwn'
  BY <1>2, <1>3, NothingToGiveBack DEF TypeOK
<1>6. TypeOK'
  BY <1>1, <1>4 DEF TypeOK, Deliver, schedule, record, trouble
<1> QED BY <1>4, <1>5, <1>6

LEMMA LoadProgressKeeps ==
    ASSUME IInv, NEW h \in Handlers, LoadProgress(h)
    PROVE  IInv'
<1> USE DEF IInv
<1> DEFINE e == EventOf(h)
           row == RowOf(progress)
           next == [handler[h] EXCEPT !.todo = ToSchedule(e)]
           t == IF Changes(row, e)
                THEN [next EXCEPT !.pc = "save", !.copy = Apply(row, e),
                                  !.fresh = progress = None]
                ELSE [next EXCEPT !.pc = "cards"]
<1>1. e \in Event /\ handler[h].event \in DOMAIN sent /\ handler[h] \in Handler
  BY EventOfHandler DEF LoadProgress, At, TypeOK
<1>2. row \in Row
  BY NewIsRow DEF TypeOK, RowOf
<1>3. Apply(row, e) \in Row
  BY <1>1, <1>2, ApplyIsRow
<1>4. ToSchedule(e) \in SUBSET Contents
  BY <1>1, EventFields, LearningAssumption DEF ToSchedule
<1>5. handler' = [handler EXCEPT ![h] = t] /\ UNCHANGED <<sent, taken>>
  BY DEF LoadProgress, schedule, deliveries, RowOf
<1> HIDE DEF e, row
<1>6. t \in Handler /\ t.pc # "decr" /\ Fits(t, sent)
  <2>1. next \in Handler /\ next.event = handler[h].event
    BY <1>1, <1>4 DEF Handler
  <2> HIDE DEF next
  <2>2. CASE Changes(row, e)
    <3>1. t = [next EXCEPT !.pc = "save", !.copy = Apply(row, e), !.fresh = progress = None]
      BY <2>2
    <3> QED BY <1>1, <1>3, <2>1, <3>1 DEF Handler, Pc, Fits
  <2>3. CASE ~Changes(row, e)
    BY <1>1, <2>1, <2>3 DEF Handler, Pc, Fits
  <2> QED BY <2>2, <2>3
<1> HIDE DEF t
<1>7. handler' \in [Handlers -> Handler] /\ AllFit'
  BY <1>5, <1>6, OneMoves
<1>8. GivesBackItsOwn'
  BY <1>5, <1>6, NothingToGiveBack DEF TypeOK
<1>9. TypeOK'
  BY <1>7 DEF TypeOK, LoadProgress, deliveries, schedule, record, trouble
<1> QED BY <1>7, <1>8, <1>9

\* What is outdated is the same but for the mark.
LEMMA OutdateHandlers ==
    ASSUME NEW hold \in [Handlers -> Handler]
    PROVE  /\ Outdate(hold) \in [Handlers -> Handler]
           /\ \A k \in Handlers :
                 /\ Outdate(hold)[k].pc = hold[k].pc
                 /\ Outdate(hold)[k].event = hold[k].event
                 /\ Outdate(hold)[k].owned = hold[k].owned
                 /\ Outdate(hold)[k].copy = hold[k].copy
                 /\ Outdate(hold)[k].fresh = hold[k].fresh
                 /\ Outdate(hold)[k].card = hold[k].card
                 /\ Outdate(hold)[k].room = hold[k].room
                 /\ Outdate(hold)[k].day = hold[k].day
                 /\ Outdate(hold)[k].pc = "save" => Outdate(hold)[k].stale
<1>1. \A k \in Handlers :
        Outdate(hold)[k] = IF hold[k].pc = "save" THEN [hold[k] EXCEPT !.stale = TRUE] ELSE hold[k]
  BY DEF Outdate
<1>2. \A k \in Handlers : [hold[k] EXCEPT !.stale = TRUE] \in Handler
  BY DEF Handler
<1>3. Outdate(hold) \in [Handlers -> Handler]
  BY <1>1, <1>2 DEF Outdate
<1> QED BY <1>1, <1>3 DEF Handler

LEMMA OutdateRequests ==
    ASSUME NEW hold \in [Requests -> Request]
    PROVE  /\ Outdate(hold) \in [Requests -> Request]
           /\ \A k \in Requests :
                 /\ Outdate(hold)[k].pc = hold[k].pc
                 /\ Outdate(hold)[k].copy = hold[k].copy
                 /\ Outdate(hold)[k].pc = "save" => Outdate(hold)[k].stale
<1>1. \A k \in Requests :
        Outdate(hold)[k] = IF hold[k].pc = "save" THEN [hold[k] EXCEPT !.stale = TRUE] ELSE hold[k]
  BY DEF Outdate
<1>2. \A k \in Requests : [hold[k] EXCEPT !.stale = TRUE] \in Request
  BY DEF Request
<1>3. Outdate(hold) \in [Requests -> Request]
  BY <1>1, <1>2 DEF Outdate
<1> QED BY <1>1, <1>3 DEF Request

\* A handler that has written its copy goes on to the cards.
Saved(t) == [t EXCEPT !.pc = "cards", !.copy = NewProgress, !.fresh = FALSE, !.stale = FALSE]

LEMMA SavedFits ==
    ASSUME NEW t \in Handler, NEW story, Fits(t, story), t.pc # "idle"
    PROVE  /\ Saved(t) \in Handler /\ Fits(Saved(t), story)
           /\ Saved(t).pc = "cards" /\ Saved(t).event = t.event
BY NewIsRow DEF Saved, Handler, Pc, Fits

LEMMA SaveProgressKeeps ==
    ASSUME IInv, NEW h \in Handlers, SaveProgress(h)
    PROVE  IInv'
<1> USE DEF IInv
<1>1. UNCHANGED <<sent, taken>> /\ handler[h] \in Handler /\ handler[h].pc = "save"
  BY DEF SaveProgress, TypeOK, deliveries, schedule, At
<1>2. CASE handler[h].fresh /\ progress # None
  <2>1. Finish(h) /\ UNCHANGED <<deliveries, schedule, trouble, record, request>>
    BY <1>2 DEF SaveProgress
  <2>2. handler' \in [Handlers -> Handler] /\ AllFit' /\ GivesBackItsOwn'
    BY <1>1, <2>1, FinishKeeps
  <2>3. TypeOK'
    BY <2>1, <2>2 DEF TypeOK, deliveries, schedule, trouble, record
  <2> QED BY <2>2, <2>3
<1>3. CASE ~(handler[h].fresh /\ progress # None)
  <2> DEFINE hold == [handler EXCEPT ![h] = Saved(@)]
  <2>1. /\ WriteRow(handler[h]) /\ recorded' = recorded \cup {handler[h].event}
        /\ handler' = Outdate(hold) /\ request' = Outdate(request)
        /\ UNCHANGED <<questioned, deliveries, schedule, trouble>>
    BY <1>3 DEF SaveProgress, Saved
  <2>2. Saved(handler[h]) \in Handler /\ Fits(Saved(handler[h]), sent)
        /\ Saved(handler[h]).pc = "cards"
    BY <1>1, SavedFits DEF AllFit
  <2>3. hold \in [Handlers -> Handler]
        /\ \A k \in Handlers : hold[k] = IF k = h THEN Saved(handler[h]) ELSE handler[k]
    BY <2>2 DEF TypeOK
  <2>4. \A k \in Handlers : Fits(hold[k], sent)
    BY <2>2, <2>3 DEF AllFit
  <2> HIDE DEF hold
  <2>5. handler' \in [Handlers -> Handler] /\ request' \in [Requests -> Request]
    BY <2>1, <2>3, OutdateHandlers, OutdateRequests DEF TypeOK
  <2>6. AllFit'
    BY <1>1, <2>1, <2>3, <2>4, OutdateHandlers DEF AllFit, Fits
  <2>7. GivesBackItsOwn'
    <3>1. \A k \in Handlers : handler'[k].pc = hold[k].pc /\ handler'[k].day = hold[k].day
      BY <2>1, <2>3, OutdateHandlers
    <3>2. \A k \in Handlers : hold[k].pc = "decr" => hold[k] = handler[k]
      BY <2>2, <2>3
    <3> QED BY <1>1, <3>1, <3>2, NothingToGiveBack
  <2>8. progress' \in Row /\ overwritten' \in BOOLEAN /\ recorded' \subseteq DOMAIN sent
    BY <1>1, <2>1 DEF WriteRow, Handler, TypeOK, AllFit, Fits
  <2>9. TypeOK'
    BY <2>1, <2>5, <2>8 DEF TypeOK, deliveries, schedule, trouble
  <2> QED BY <2>6, <2>7, <2>9
<1> QED BY <1>2, <1>3

LEMMA NextCardKeeps ==
    ASSUME IInv, NEW h \in Handlers, NextCard(h)
    PROVE  IInv'
<1> USE DEF IInv
<1> DEFINE room == {d \in Days : taken[d] < Limit} \cup {LastDay}
<1>1. /\ UNCHANGED <<sent, taken>> /\ handler[h] \in Handler /\ handler[h].pc = "cards"
      /\ Fits(handler[h], sent) /\ handler[h].todo \subseteq Contents
  BY DEF NextCard, TypeOK, AllFit, deliveries, schedule, At, Handler
<1>2. room \in SUBSET Days /\ LastDay \in room
  BY DaysAreNat
<1> HIDE DEF room
<1>3. PICK t \in Handler : handler' = [handler EXCEPT ![h] = t] /\ Fits(t, sent) /\ t.pc # "decr"
  <2>1. CASE handler[h].todo = {}
    <3> DEFINE t == [handler[h] EXCEPT !.pc = "mark"]
    <3>1. t \in Handler /\ Fits(t, sent) /\ t.pc # "decr"
      BY <1>1 DEF Handler, Pc, Fits
    <3>2. handler' = [handler EXCEPT ![h] = t]
      BY <2>1 DEF NextCard, Goto
    <3> QED BY <3>1, <3>2
  <2>2. CASE handler[h].todo # {}
    <3>1. PICK k \in handler[h].todo : handler' = [handler EXCEPT ![h] =
                  IF cards[k] # None
                  THEN [handler[h] EXCEPT !.todo = @ \ {k}]
                  ELSE [handler[h] EXCEPT !.pc = "incr", !.todo = @ \ {k}, !.card = k,
                                          !.room = room]]
      BY <2>2 DEF NextCard, room
    <3> DEFINE skip == [handler[h] EXCEPT !.todo = @ \ {k}]
               new == [handler[h] EXCEPT !.pc = "incr", !.todo = @ \ {k}, !.card = k, !.room = room]
    <3>2. skip \in Handler /\ Fits(skip, sent) /\ skip.pc # "decr"
      BY <1>1 DEF Handler, Fits
    <3>3. new \in Handler /\ Fits(new, sent) /\ new.pc # "decr"
      BY <1>1, <1>2 DEF Handler, Pc, Fits
    <3> DEFINE t == IF cards[k] # None THEN skip ELSE new
    <3>4. handler' = [handler EXCEPT ![h] = t]
      BY <3>1
    <3> QED BY <3>2, <3>3, <3>4
  <2> QED BY <2>1, <2>2
<1>4. handler' \in [Handlers -> Handler] /\ AllFit'
  BY <1>1, <1>3, OneMoves
<1>5. GivesBackItsOwn'
  BY <1>1, <1>3, NothingToGiveBack DEF TypeOK
<1>6. TypeOK'
  BY <1>4 DEF TypeOK, NextCard, deliveries, schedule, record, trouble
<1> QED BY <1>4, <1>5, <1>6

\* The day a handler claims next.
LEMMA NextRoom ==
    ASSUME IInv, NEW h \in Handlers, handler[h].pc = "incr"
    PROVE  /\ handler[h] \in Handler /\ Fits(handler[h], sent)
           /\ Min(handler[h].room) \in handler[h].room
           /\ Min(handler[h].room) \in Days
<1>1. handler[h] \in Handler /\ Fits(handler[h], sent)
  BY DEF IInv, TypeOK, AllFit
<1>2. handler[h].room \in SUBSET Days /\ LastDay \in handler[h].room
  BY <1>1 DEF Handler, Fits
<1> QED BY <1>1, <1>2, DaysAreNat, MinIsLeast

LEMMA TakeDayKeeps ==
    ASSUME IInv, NEW h \in Handlers, TakeDay(h)
    PROVE  IInv'
<1> USE DEF IInv
<1> DEFINE day == Min(handler[h].room)
           got == [handler[h] EXCEPT !.pc = "insert", !.day = day, !.room = {}]
           lost == [handler[h] EXCEPT !.pc = "decr", !.room = @ \ {day}, !.day = day]
<1>1. /\ handler[h] \in Handler /\ Fits(handler[h], sent) /\ day \in Days
      /\ handler[h].pc = "incr"
      /\ sent' = sent /\ taken' = [taken EXCEPT ![day] = @ + 1]
  BY NextRoom DEF TakeDay, At, deliveries
<1>2. \/ handler' = [handler EXCEPT ![h] = got]
      \/ day # LastDay /\ handler' = [handler EXCEPT ![h] = lost]
  <2> DEFINE t == IF taken[day] < Limit \/ day = LastDay THEN got ELSE lost
  <2>1. handler' = [handler EXCEPT ![h] = t]
    BY DEF TakeDay
  <2> HIDE DEF got, lost
  <2> QED BY <2>1
<1> HIDE DEF day
<1>3. got \in Handler /\ Fits(got, sent) /\ got.pc = "insert"
  BY <1>1 DEF Handler, Pc, Fits
<1>4. lost \in Handler /\ lost.pc = "decr" /\ lost.day = day
      /\ (day # LastDay => Fits(lost, sent))
  BY <1>1 DEF Handler, Pc, Fits
<1> HIDE DEF got, lost
<1>5. handler' \in [Handlers -> Handler] /\ AllFit'
  BY <1>1, <1>2, <1>3, <1>4, OneMoves
<1>6. taken' \in [Days -> Nat]
  BY <1>1 DEF TypeOK
<1>7. \A k \in Handlers \ {h} : handler'[k] = handler[k]
  BY <1>2 DEF TypeOK
<1>8. handler'[h].pc = "decr" => handler'[h].day = day
  BY <1>2, <1>3, <1>4 DEF TypeOK
<1>9. GivesBackItsOwn'
  <2> SUFFICES ASSUME NEW d \in Days
               PROVE  Cardinality(Returning(handler', d)) <= taken'[d]
    BY DEF GivesBackItsOwn
  <2>1. CASE d = day
    <3>1. taken'[d] = taken[d] + 1
      BY <1>1, <2>1 DEF TypeOK
    <3> QED BY <1>7, <3>1, OneMoreToGiveBack
  <2>2. CASE d # day
    <3>1. taken'[d] = taken[d] /\ taken'[d] \in Nat /\ taken[d] <= taken'[d]
      BY <1>1, <1>6, <2>2 DEF TypeOK
    <3>2. \A k \in Handlers : handler'[k].pc = "decr" /\ handler'[k].day = d =>
               handler[k].pc = "decr" /\ handler[k].day = d
      BY <1>7, <1>8, <2>2
    <3> QED BY <3>1, <3>2, NotMoreToGiveBack
  <2> QED BY <2>1, <2>2
<1>10. TypeOK'
  BY <1>5, <1>6 DEF TypeOK, TakeDay, deliveries, record, trouble
<1> QED BY <1>5, <1>9, <1>10

\* A place given back, or not, by a handler that stops giving it back.
LEMMA StopsGivingBack ==
    ASSUME IInv, NEW h \in Handlers, NEW t, handler' = [handler EXCEPT ![h] = t],
           handler[h].pc = "decr", t.pc # "decr",
           taken' \in {taken, [taken EXCEPT ![handler[h].day] = @ - 1]}
    PROVE  taken' \in [Days -> Nat] /\ GivesBackItsOwn'
<1> USE DEF IInv
<1>1. handler \in [Handlers -> Handler] /\ handler[h].day \in Days
  BY DEF TypeOK, Handler
<1>2. /\ taken[handler[h].day] - 1 \in Nat
      /\ Cardinality(Returning(handler', handler[h].day)) <= taken[handler[h].day] - 1
  BY OneLessToGiveBack
<1>3. taken' \in [Days -> Nat]
  BY <1>1, <1>2 DEF TypeOK
<1>4. \A k \in Handlers : handler'[k].pc = "decr" => handler'[k] = handler[k]
  BY <1>1
<1>5. CASE taken' = taken
  BY <1>3, <1>4, <1>5, NothingToGiveBack
<1>6. CASE taken' = [taken EXCEPT ![handler[h].day] = @ - 1]
  <2> SUFFICES ASSUME NEW d \in Days
               PROVE  Cardinality(Returning(handler', d)) <= taken'[d]
    BY <1>3 DEF GivesBackItsOwn
  <2>1. CASE d = handler[h].day
    BY <1>1, <1>2, <1>6, <2>1 DEF TypeOK
  <2>2. CASE d # handler[h].day
    <3>1. taken'[d] \in Nat /\ taken[d] <= taken'[d]
      BY <1>3, <1>6, <2>2 DEF TypeOK
    <3> QED BY <1>4, <3>1, NotMoreToGiveBack
  <2> QED BY <2>1, <2>2
<1> QED BY <1>5, <1>6

LEMMA GiveBackKeeps ==
    ASSUME IInv, NEW h \in Handlers, GiveBack(h)
    PROVE  IInv'
<1> USE DEF IInv
<1> DEFINE t == [handler[h] EXCEPT !.pc = "incr"]
<1>1. /\ handler[h] \in Handler /\ Fits(handler[h], sent) /\ handler[h].pc = "decr"
      /\ handler' = [handler EXCEPT ![h] = t] /\ sent' = sent
      /\ taken' = [taken EXCEPT ![handler[h].day] = @ - 1]
  BY DEF GiveBack, Goto, At, deliveries, TypeOK, AllFit
<1>2. t \in Handler /\ Fits(t, sent) /\ t.pc # "decr"
  BY <1>1 DEF Handler, Pc, Fits
<1> HIDE DEF t
<1>3. handler' \in [Handlers -> Handler] /\ AllFit'
  BY <1>1, <1>2, OneMoves
<1>4. taken' \in [Days -> Nat] /\ GivesBackItsOwn'
  BY <1>1, <1>2, StopsGivingBack
<1>5. TypeOK'
  BY <1>3, <1>4 DEF TypeOK, GiveBack, deliveries, record, trouble
<1> QED BY <1>3, <1>4, <1>5

LEMMA FailOpenKeeps ==
    ASSUME IInv, NEW h \in Handlers, FailOpen(h)
    PROVE  IInv'
<1> USE DEF IInv
<1> DEFINE t == [handler[h] EXCEPT !.pc = "insert", !.day = 0, !.room = {}]
<1>1. /\ handler[h] \in Handler /\ Fits(handler[h], sent)
      /\ handler[h].pc \in {"incr", "decr"}
      /\ handler' = [handler EXCEPT ![h] = t] /\ sent' = sent
  BY DEF FailOpen, At, deliveries, TypeOK, AllFit
<1>2. t \in Handler /\ Fits(t, sent) /\ t.pc # "decr"
  BY <1>1, DaysAreNat DEF Handler, Pc, Fits
<1> HIDE DEF t
<1>3. handler' \in [Handlers -> Handler] /\ AllFit'
  BY <1>1, <1>2, OneMoves
<1>4. taken' \in [Days -> Nat] /\ GivesBackItsOwn'
  <2>1. CASE handler[h].pc = "incr"
    <3> DEFINE day == Min(handler[h].room)
    <3>1. taken' \in {taken, [taken EXCEPT ![day] = @ + 1]} /\ day \in Days
      BY <2>1, NextRoom DEF FailOpen, At
    <3> HIDE DEF day
    <3>2. taken \in [Days -> Nat]
      BY DEF TypeOK
    <3>3. taken' \in [Days -> Nat] /\ \A d \in Days : taken[d] <= taken'[d]
      <4>1. CASE taken' = taken
        BY <3>2, <4>1
      <4>2. CASE taken' = [taken EXCEPT ![day] = @ + 1]
        BY <3>1, <3>2, <4>2
      <4> QED BY <3>1, <4>1, <4>2
    <3>4. \A k \in Handlers : handler'[k].pc = "decr" => handler'[k] = handler[k]
      BY <1>1, <1>2 DEF TypeOK
    <3>5. \A d \in Days : Cardinality(Returning(handler', d)) <= taken'[d]
      BY <3>3, <3>4, NotMoreToGiveBack
    <3> QED BY <3>3, <3>5 DEF GivesBackItsOwn
  <2>2. CASE handler[h].pc = "decr"
    <3>1. taken' \in {taken, [taken EXCEPT ![handler[h].day] = @ - 1]}
      BY <2>2 DEF FailOpen, At
    <3> QED BY <1>1, <1>2, <2>2, <3>1, StopsGivingBack
  <2> QED BY <1>1, <2>1, <2>2
<1>5. TypeOK'
  BY <1>3, <1>4 DEF TypeOK, FailOpen, deliveries, record
<1> QED BY <1>3, <1>4, <1>5

LEMMA InsertCardKeeps ==
    ASSUME IInv, NEW h \in Handlers, InsertCard(h)
    PROVE  IInv'
<1> USE DEF IInv
<1>1. /\ handler[h] \in Handler /\ Fits(handler[h], sent) /\ handler[h].pc = "insert"
      /\ UNCHANGED <<sent, taken>>
  BY DEF InsertCard, At, deliveries, TypeOK, AllFit
<1>2. CASE cards[handler[h].card] # None
  <2>1. Finish(h) /\ UNCHANGED <<cards, deliveries, taken, record, trouble, request>>
    BY <1>2 DEF InsertCard
  <2>2. handler' \in [Handlers -> Handler] /\ AllFit' /\ GivesBackItsOwn'
    BY <1>1, <2>1, FinishKeeps
  <2> QED BY <2>1, <2>2 DEF TypeOK, deliveries, record, trouble
<1>3. CASE cards[handler[h].card] = None
  <2> DEFINE t == [handler[h] EXCEPT !.pc = "cards", !.card = None, !.day = 0]
  <2>1. /\ cards' = [cards EXCEPT ![handler[h].card] = handler[h].day]
        /\ handler' = [handler EXCEPT ![h] = t]
    BY <1>3 DEF InsertCard
  <2>2. t \in Handler /\ Fits(t, sent) /\ t.pc # "decr"
    BY <1>1, DaysAreNat DEF Handler, Pc, Fits
  <2> HIDE DEF t
  <2>3. handler' \in [Handlers -> Handler] /\ AllFit'
    BY <1>1, <2>1, <2>2, OneMoves
  <2>4. GivesBackItsOwn'
    BY <1>1, <2>1, <2>2, NothingToGiveBack DEF TypeOK
  <2>5. cards' \in [Contents -> Days \cup {None}]
    BY <1>1, <2>1 DEF TypeOK, Handler
  <2> QED BY <2>3, <2>4, <2>5 DEF TypeOK, InsertCard, deliveries, record, trouble
<1> QED BY <1>2, <1>3

LEMMA MarkProcessedKeeps ==
    ASSUME IInv, NEW h \in Handlers, MarkProcessed(h)
    PROVE  IInv'
<1> USE DEF IInv
<1>1. /\ handler[h] \in Handler /\ Fits(handler[h], sent) /\ handler[h].pc = "mark"
      /\ UNCHANGED <<sent, taken>>
  BY DEF MarkProcessed, At, schedule, TypeOK, AllFit
<1>2. processed' \subseteq DOMAIN sent
  BY <1>1 DEF MarkProcessed, TypeOK, Fits
<1>3. handler' \in [Handlers -> Handler] /\ AllFit' /\ GivesBackItsOwn'
  <2>1. CASE handler[h].event \in processed
    BY <1>1, <2>1, FinishKeeps DEF MarkProcessed
  <2>2. CASE handler[h].event \notin processed
    <3> DEFINE t == [handler[h] EXCEPT !.pc = "ack"]
    <3>1. handler' = [handler EXCEPT ![h] = t]
      BY <2>2 DEF MarkProcessed, Goto
    <3>2. t \in Handler /\ Fits(t, sent) /\ t.pc # "decr"
      BY <1>1 DEF Handler, Pc, Fits
    <3> HIDE DEF t
    <3>3. handler' \in [Handlers -> Handler] /\ AllFit'
      BY <1>1, <3>1, <3>2, OneMoves
    <3>4. GivesBackItsOwn'
      BY <1>1, <3>1, <3>2, NothingToGiveBack DEF TypeOK
    <3> QED BY <3>3, <3>4
  <2> QED BY <2>1, <2>2
<1> QED BY <1>2, <1>3 DEF TypeOK, MarkProcessed, schedule, record, trouble

LEMMA AckKeeps ==
    ASSUME IInv, NEW h \in Handlers, Ack(h)
    PROVE  IInv'
<1>1. handler' \in [Handlers -> Handler] /\ AllFit' /\ GivesBackItsOwn'
  BY FinishKeeps DEF Ack, deliveries, schedule
<1> QED BY <1>1 DEF IInv, TypeOK, Ack, deliveries, schedule, record, trouble

LEMMA CallFailsKeeps ==
    ASSUME IInv, NEW h \in Handlers, CallFails(h)
    PROVE  IInv'
<1>1. handler' \in [Handlers -> Handler] /\ AllFit' /\ GivesBackItsOwn'
  BY FinishKeeps DEF CallFails, deliveries, schedule
<1> QED BY <1>1 DEF IInv, TypeOK, CallFails, deliveries, schedule, record

-----------------------------------------------------------------------------
(***************************************************************************)
(* A teacher's steps, and what goes wrong.                                 *)
(***************************************************************************)

LEMMA LoadForTeacherKeeps ==
    ASSUME IInv, NEW q \in Requests, LoadForTeacher(q)
    PROVE  IInv'
<1> USE DEF IInv
<1>1. progress \in Row /\ UNCHANGED <<deliveries, schedule, record, trouble, handler>>
  BY DEF LoadForTeacher, TypeOK
<1>2. PICK row \in TeacherRows(progress) :
        request' = [request EXCEPT ![q] = [NoRequest EXCEPT !.pc = "save", !.copy = row]]
  BY DEF LoadForTeacher, TeacherRows
<1>3. row \in Row
  BY <1>1, <1>2, TeacherRowsAreRows
<1>4. [NoRequest EXCEPT !.pc = "save", !.copy = row] \in Request
  BY <1>3 DEF NoRequest, Request
<1>5. request' \in [Requests -> Request]
  BY <1>2, <1>4 DEF TypeOK
<1>6. AllFit' /\ GivesBackItsOwn'
  BY <1>1 DEF AllFit, GivesBackItsOwn, deliveries, schedule
<1> QED BY <1>1, <1>5, <1>6 DEF TypeOK, deliveries, schedule, record, trouble

LEMMA SaveForTeacherKeeps ==
    ASSUME IInv, NEW q \in Requests, SaveForTeacher(q)
    PROVE  IInv'
<1> USE DEF IInv
<1> DEFINE hold == [request EXCEPT ![q] = NoRequest]
<1>1. /\ progress' = request[q].copy /\ overwritten' = (overwritten \/ request[q].stale)
      /\ questioned' = TRUE
      /\ handler' = Outdate(handler) /\ request' = Outdate(hold)
      /\ UNCHANGED <<deliveries, schedule, trouble, recorded>>
  BY DEF SaveForTeacher, WriteRow
<1>2. NoRequest \in Request
  BY NewIsRow DEF NoRequest, Request
<1>3. hold \in [Requests -> Request]
  BY <1>2 DEF TypeOK
<1> HIDE DEF hold
<1>4. handler' \in [Handlers -> Handler] /\ request' \in [Requests -> Request]
  BY <1>1, <1>3, OutdateHandlers, OutdateRequests DEF TypeOK
<1>5. AllFit'
  BY <1>1, OutdateHandlers DEF AllFit, Fits, TypeOK, deliveries
<1>6. GivesBackItsOwn'
  <2>1. \A k \in Handlers : handler'[k].pc = handler[k].pc /\ handler'[k].day = handler[k].day
    BY <1>1, OutdateHandlers DEF TypeOK
  <2> QED BY <1>1, <2>1, NothingToGiveBack DEF schedule
<1>7. progress' \in Row /\ overwritten' \in BOOLEAN /\ questioned' \in BOOLEAN
  BY <1>1 DEF TypeOK, Request
<1> QED BY <1>1, <1>4, <1>5, <1>6, <1>7 DEF TypeOK, deliveries, schedule, trouble

LEMMA RedeliverKeeps ==
    ASSUME IInv, Redeliver
    PROVE  /\ queue' \subseteq DOMAIN sent
           /\ faults' \in Nat /\ cut' \in Nat
           /\ UNCHANGED <<sent, processed, schedule, record, failedOpen>>
<1> USE DEF IInv
<1>1. \A h \in Owned : handler[h].event \in DOMAIN sent
  BY DEF Owned, AllFit, Fits
<1>2. Cardinality({h \in Owned : handler[h].event \notin processed}) \in Nat
  BY LearningAssumption, NoMore DEF Owned
<1> QED BY <1>1, <1>2 DEF Redeliver, TypeOK

LEMMA CrashKeeps ==
    ASSUME IInv, Crash
    PROVE  IInv'
<1> USE DEF IInv
<1>1. /\ handler' = [h \in Handlers |-> Idle] /\ request' = [q \in Requests |-> NoRequest]
      /\ Redeliver
  BY DEF Crash
<1>2. NoRequest \in Request
  BY NewIsRow DEF NoRequest, Request
<1>3. handler' \in [Handlers -> Handler] /\ request' \in [Requests -> Request] /\ AllFit'
  BY <1>1, <1>2, IdleFits DEF AllFit
<1>4. GivesBackItsOwn'
  BY <1>1, RedeliverKeeps, NothingToGiveBack DEF Idle, schedule
<1> QED BY <1>1, <1>3, <1>4, RedeliverKeeps DEF TypeOK, schedule, record

LEMMA LoseChannelKeeps ==
    ASSUME IInv, LoseChannel
    PROVE  IInv'
<1> USE DEF IInv
<1>1. /\ handler' = [h \in Handlers |-> [handler[h] EXCEPT !.owned = FALSE]]
      /\ request' = request /\ Redeliver
  BY DEF LoseChannel
<1>2. \A h \in Handlers : /\ [handler[h] EXCEPT !.owned = FALSE] \in Handler
                          /\ Fits([handler[h] EXCEPT !.owned = FALSE], sent)
  BY DEF TypeOK, AllFit, Handler, Fits
<1>3. handler' \in [Handlers -> Handler] /\ AllFit'
  BY <1>1, <1>2, RedeliverKeeps DEF AllFit
<1>4. \A h \in Handlers : handler'[h].pc = handler[h].pc /\ handler'[h].day = handler[h].day
  BY <1>1 DEF TypeOK, Handler
<1>5. GivesBackItsOwn'
  BY <1>1, <1>4, RedeliverKeeps, NothingToGiveBack DEF schedule
<1> QED BY <1>1, <1>3, <1>5, RedeliverKeeps DEF TypeOK, schedule, record

-----------------------------------------------------------------------------

LEMMA InitIInv == Init => IInv
<1> SUFFICES ASSUME Init PROVE IInv
  OBVIOUS
<1> USE DEF Init
<1>1. sent \in Seq(Event)
  <2>1. PICK n \in 1 .. Bound : sent \in [1 .. n -> Event]
    OBVIOUS
  <2>2. n \in Nat
    BY LearningAssumption
  <2> QED BY <2>1, <2>2
<1>2. NoRequest \in Request
  BY NewIsRow DEF NoRequest, Request
<1>3. TypeOK
  BY <1>1, <1>2, IdleFits DEF TypeOK
<1>4. AllFit
  BY IdleFits DEF AllFit
<1>5. \A d \in Days : Returning(handler, d) = {}
  BY DEF Returning, Idle
<1>6. GivesBackItsOwn
  <2>1. \A d \in Days : taken[d] = 0 /\ Cardinality(Returning(handler, d)) = 0
    BY <1>5, FS_EmptySet
  <2> QED BY <2>1 DEF GivesBackItsOwn
<1> QED BY <1>3, <1>4, <1>6 DEF IInv

LEMMA StutterIInv == IInv /\ UNCHANGED vars => IInv'
BY DEF IInv, TypeOK, AllFit, GivesBackItsOwn, vars, deliveries, schedule, record, trouble

LEMMA NextIInv == IInv /\ [Next]_vars => IInv'
<1> SUFFICES ASSUME IInv, [Next]_vars PROVE IInv'
  OBVIOUS
<1>1. CASE Crash \/ LoseChannel
  BY <1>1, CrashKeeps, LoseChannelKeeps
<1>2. ASSUME NEW h \in Handlers, OnEvent(h)
      PROVE  IInv'
  BY <1>2, DeliverKeeps, LoadProgressKeeps, SaveProgressKeeps, MarkProcessedKeeps, AckKeeps,
     CallFailsKeeps DEF OnEvent
<1>3. ASSUME NEW h \in Handlers, OnCard(h)
      PROVE  IInv'
  BY <1>3, NextCardKeeps, TakeDayKeeps, GiveBackKeeps, FailOpenKeeps, InsertCardKeeps DEF OnCard
<1>4. ASSUME NEW q \in Requests, OnRequest(q)
      PROVE  IInv'
  BY <1>4, LoadForTeacherKeeps, SaveForTeacherKeeps DEF OnRequest
<1>5. CASE UNCHANGED vars
  BY <1>5, StutterIInv
<1> QED BY <1>1, <1>2, <1>3, <1>4, <1>5 DEF Next

LEMMA AlwaysIInv == Spec => []IInv
BY InitIInv, NextIInv, PTL DEF Spec

\* The state keeps its types: above all, a day's counter in Redis never goes
\* below nothing, whatever is claimed, given back, cut off or done without
\* an answer, because what is given back was counted (srs-limits policy).
THEOREM TypeCorrect == Spec => []TypeOK
BY AlwaysIInv, PTL DEF IInv

-----------------------------------------------------------------------------
(***************************************************************************)
(* The days.  A counter covers the cards of its day, the places handlers   *)
(* hold and those they are giving back, but for the claims that went on    *)
(* without Redis.                                                          *)
(***************************************************************************)

OnDay(c, d) == {k \in Contents : c[k] = d}

Placing(hold, d) == {h \in Handlers : hold[h].pc = "insert" /\ hold[h].day = d}

Filled(d) == Cardinality(OnDay(cards, d)) + Cardinality(Placing(handler, d))

Covered == \A d \in Days : Filled(d) + Cardinality(Returning(handler, d)) <= taken[d] + failedOpen

WithinLimit == \A d \in Days \ {LastDay} : Filled(d) <= Limit + failedOpen

DayInv == Covered /\ WithinLimit

LEMMA CountsAreNat ==
    ASSUME NEW hold, NEW c, NEW d
    PROVE  /\ IsFiniteSet(OnDay(c, d)) /\ IsFiniteSet(Placing(hold, d))
           /\ IsFiniteSet(Returning(hold, d))
           /\ Cardinality(OnDay(c, d)) \in Nat /\ Cardinality(Placing(hold, d)) \in Nat
           /\ Cardinality(Returning(hold, d)) \in Nat
<1>1. /\ IsFiniteSet(OnDay(c, d)) /\ IsFiniteSet(Placing(hold, d))
      /\ IsFiniteSet(Returning(hold, d))
  BY LearningAssumption, FS_Subset DEF OnDay, Placing, Returning
<1> QED BY <1>1, FS_CardinalityType

\* What a step that takes and fills no place leaves.
LEMMA QuietDay ==
    ASSUME NEW d,
           \A k \in Handlers : handler'[k].pc \in {"insert", "decr"} /\ handler'[k].day = d =>
               handler[k].pc = handler'[k].pc /\ handler[k].day = d
    PROVE  /\ Cardinality(Placing(handler', d)) <= Cardinality(Placing(handler, d))
           /\ Cardinality(Returning(handler', d)) <= Cardinality(Returning(handler, d))
<1>1. /\ Placing(handler', d) \subseteq Placing(handler, d)
      /\ Returning(handler', d) \subseteq Returning(handler, d)
  BY DEF Placing, Returning
<1> QED BY <1>1, CountsAreNat, FS_Subset

LEMMA QuietKeepsDays ==
    ASSUME IInv, DayInv, UNCHANGED <<cards, taken, failedOpen>>,
           \A k \in Handlers : handler'[k].pc \in {"insert", "decr"} =>
               handler[k].pc = handler'[k].pc /\ handler[k].day = handler'[k].day
    PROVE  DayInv'
<1> SUFFICES ASSUME NEW d \in Days
             PROVE  /\ (Filled(d) + Cardinality(Returning(handler, d)) <= taken[d] + failedOpen)'
                    /\ d # LastDay => (Filled(d) <= Limit + failedOpen)'
  BY DEF DayInv, Covered, WithinLimit
<1>1. /\ Cardinality(Placing(handler', d)) <= Cardinality(Placing(handler, d))
      /\ Cardinality(Returning(handler', d)) <= Cardinality(Returning(handler, d))
  BY QuietDay
<1>2. /\ Cardinality(OnDay(cards, d)) \in Nat
      /\ Cardinality(Placing(handler, d)) \in Nat /\ Cardinality(Placing(handler', d)) \in Nat
      /\ Cardinality(Returning(handler, d)) \in Nat /\ Cardinality(Returning(handler', d)) \in Nat
  BY CountsAreNat
<1>3. taken[d] \in Nat /\ failedOpen \in Nat /\ Limit \in Nat
  BY LearningAssumption DEF IInv, TypeOK
<1>4. /\ Filled(d) + Cardinality(Returning(handler, d)) <= taken[d] + failedOpen
      /\ d # LastDay => Filled(d) <= Limit + failedOpen
  BY DEF DayInv, Covered, WithinLimit
<1> QED BY <1>1, <1>2, <1>3, <1>4 DEF Filled

\* The handlers' steps that are about a day: what is known of it before and
\* after, as numbers.
LEMMA DayNumbers ==
    ASSUME IInv, DayInv, IInv', NEW d \in Days
    PROVE  /\ Cardinality(OnDay(cards, d)) \in Nat /\ Cardinality(OnDay(cards', d)) \in Nat
           /\ Cardinality(Placing(handler, d)) \in Nat /\ Cardinality(Placing(handler', d)) \in Nat
           /\ Cardinality(Returning(handler, d)) \in Nat
           /\ Cardinality(Returning(handler', d)) \in Nat
           /\ taken[d] \in Nat /\ taken'[d] \in Nat /\ failedOpen \in Nat /\ failedOpen' \in Nat
           /\ Limit \in Nat
           /\ Filled(d) + Cardinality(Returning(handler, d)) <= taken[d] + failedOpen
           /\ d # LastDay => Filled(d) <= Limit + failedOpen
<1>1. taken[d] \in Nat /\ failedOpen \in Nat
  BY DEF IInv, TypeOK
<1>2. taken'[d] \in Nat /\ failedOpen' \in Nat
  BY DEF IInv, TypeOK
<1>3. /\ Filled(d) + Cardinality(Returning(handler, d)) <= taken[d] + failedOpen
      /\ d # LastDay => Filled(d) <= Limit + failedOpen
  BY DEF DayInv, Covered, WithinLimit
<1> QED BY <1>1, <1>2, <1>3, CountsAreNat, LearningAssumption

LEMMA TakeDayKeepsDays ==
    ASSUME IInv, DayInv, NEW h \in Handlers, TakeDay(h)
    PROVE  DayInv'
<1> DEFINE day == Min(handler[h].room)
           got == [handler[h] EXCEPT !.pc = "insert", !.day = day, !.room = {}]
           lost == [handler[h] EXCEPT !.pc = "decr", !.room = @ \ {day}, !.day = day]
           t == IF taken[day] < Limit \/ day = LastDay THEN got ELSE lost
<1>1. /\ handler[h] \in Handler /\ handler[h].pc = "incr" /\ day \in Days
      /\ handler' = [handler EXCEPT ![h] = t]
      /\ taken' = [taken EXCEPT ![day] = @ + 1]
      /\ cards' = cards /\ failedOpen' = failedOpen
  BY NextRoom DEF TakeDay, At, trouble
<1>2. t.day = day /\ t.pc = IF taken[day] < Limit \/ day = LastDay THEN "insert" ELSE "decr"
  BY <1>1 DEF Handler
<1> HIDE DEF day, t
<1>3. handler'[h] = t /\ \A k \in Handlers \ {h} : handler'[k] = handler[k]
  BY <1>1 DEF IInv, TypeOK
<1> SUFFICES ASSUME NEW d \in Days
             PROVE  /\ (Filled(d) + Cardinality(Returning(handler, d)) <= taken[d] + failedOpen)'
                    /\ d # LastDay => (Filled(d) <= Limit + failedOpen)'
  BY DEF DayInv, Covered, WithinLimit
<1> DEFINE p == Cardinality(Placing(handler, d))
           p2 == Cardinality(Placing(handler', d))
           g == Cardinality(Returning(handler, d))
           g2 == Cardinality(Returning(handler', d))
           c == Cardinality(OnDay(cards, d))
<1>4. IInv'
  BY TakeDayKeeps
<1>5. /\ c \in Nat /\ p \in Nat /\ p2 \in Nat /\ g \in Nat /\ g2 \in Nat
      /\ taken[d] \in Nat /\ taken'[d] \in Nat /\ failedOpen \in Nat /\ Limit \in Nat
      /\ c + p + g <= taken[d] + failedOpen /\ (d # LastDay => c + p <= Limit + failedOpen)
  BY <1>4, DayNumbers DEF Filled
<1>6. taken'[d] = IF d = day THEN taken[d] + 1 ELSE taken[d]
  BY <1>1 DEF IInv, TypeOK
<1>7. CASE d # day
  <2>1. p2 <= p /\ g2 <= g
    BY <1>2, <1>3, <1>7, QuietDay
  <2> QED BY <1>1, <1>5, <1>6, <1>7, <2>1 DEF Filled
<1>8. CASE d = day /\ t.pc = "insert"
  <2>1. Placing(handler', d) \subseteq Placing(handler, d) \cup {h}
    BY <1>3 DEF Placing
  <2>2. Returning(handler', d) \subseteq Returning(handler, d)
    BY <1>3, <1>8 DEF Returning
  <2>3. p2 <= p + 1 /\ g2 <= g
    BY <2>1, <2>2, CountsAreNat, OneMore, FS_Subset
  <2>4. d # LastDay => taken[d] < Limit
    BY <1>2, <1>8
  <2> QED BY <1>1, <1>5, <1>6, <1>8, <2>3, <2>4 DEF Filled
<1>9. CASE d = day /\ t.pc = "decr"
  <2>1. Placing(handler', d) \subseteq Placing(handler, d)
    BY <1>3, <1>9 DEF Placing
  <2>2. Returning(handler', d) \subseteq Returning(handler, d) \cup {h}
    BY <1>3 DEF Returning
  <2>3. p2 <= p /\ g2 <= g + 1
    BY <2>1, <2>2, CountsAreNat, OneMore, FS_Subset
  <2> QED BY <1>1, <1>5, <1>6, <1>9, <2>3 DEF Filled
<1> QED BY <1>2, <1>7, <1>8, <1>9

LEMMA GiveBackKeepsDays ==
    ASSUME IInv, DayInv, NEW h \in Handlers, GiveBack(h)
    PROVE  DayInv'
<1>1. /\ handler[h] \in Handler /\ handler[h].pc = "decr"
      /\ taken' = [taken EXCEPT ![handler[h].day] = @ - 1]
      /\ handler' = [handler EXCEPT ![h].pc = "incr"]
      /\ cards' = cards /\ failedOpen' = failedOpen
  BY DEF GiveBack, Goto, At, trouble, IInv, TypeOK
<1>2. handler'[h].pc = "incr" /\ \A k \in Handlers \ {h} : handler'[k] = handler[k]
  BY <1>1 DEF IInv, TypeOK, Handler
<1> SUFFICES ASSUME NEW d \in Days
             PROVE  /\ (Filled(d) + Cardinality(Returning(handler, d)) <= taken[d] + failedOpen)'
                    /\ d # LastDay => (Filled(d) <= Limit + failedOpen)'
  BY DEF DayInv, Covered, WithinLimit
<1>3. IInv'
  BY GiveBackKeeps
<1>4. /\ Cardinality(Placing(handler', d)) <= Cardinality(Placing(handler, d))
      /\ Cardinality(Returning(handler', d)) <= Cardinality(Returning(handler, d))
  BY <1>2, QuietDay
<1>5. taken'[d] = IF d = handler[h].day THEN taken[d] - 1 ELSE taken[d]
  BY <1>1 DEF IInv, TypeOK
<1>6. d = handler[h].day =>
        Cardinality(Returning(handler', d)) <= Cardinality(Returning(handler, d)) - 1
  <2> SUFFICES ASSUME d = handler[h].day
               PROVE  Cardinality(Returning(handler', d)) <= Cardinality(Returning(handler, d)) - 1
    OBVIOUS
  <2>1. h \in Returning(handler, d) /\ Returning(handler', d) \subseteq Returning(handler, d) \ {h}
    BY <1>1, <1>2 DEF Returning
  <2> QED BY <2>1, CountsAreNat, OneLess
<1>7. /\ Cardinality(OnDay(cards, d)) \in Nat
      /\ Cardinality(Placing(handler, d)) \in Nat /\ Cardinality(Placing(handler', d)) \in Nat
      /\ Cardinality(Returning(handler, d)) \in Nat /\ Cardinality(Returning(handler', d)) \in Nat
      /\ taken[d] \in Nat /\ taken'[d] \in Nat /\ failedOpen \in Nat /\ Limit \in Nat
      /\ Cardinality(OnDay(cards, d)) + Cardinality(Placing(handler, d))
            + Cardinality(Returning(handler, d)) <= taken[d] + failedOpen
      /\ d # LastDay => Cardinality(OnDay(cards, d)) + Cardinality(Placing(handler, d))
                            <= Limit + failedOpen
  BY <1>3, DayNumbers DEF Filled
<1> QED BY <1>1, <1>4, <1>5, <1>6, <1>7 DEF Filled

LEMMA FailOpenKeepsDays ==
    ASSUME IInv, DayInv, NEW h \in Handlers, FailOpen(h)
    PROVE  DayInv'
<1>1. /\ handler[h] \in Handler /\ handler[h].pc \in {"incr", "decr"}
      /\ handler' = [handler EXCEPT ![h].pc = "insert", ![h].day = 0, ![h].room = {}]
      /\ cards' = cards /\ failedOpen' = failedOpen + 1
  BY DEF FailOpen, At, IInv, TypeOK
<1>2. handler'[h].pc = "insert" /\ \A k \in Handlers \ {h} : handler'[k] = handler[k]
  BY <1>1 DEF IInv, TypeOK, Handler
<1> SUFFICES ASSUME NEW d \in Days
             PROVE  /\ (Filled(d) + Cardinality(Returning(handler, d)) <= taken[d] + failedOpen)'
                    /\ d # LastDay => (Filled(d) <= Limit + failedOpen)'
  BY DEF DayInv, Covered, WithinLimit
<1>3. IInv'
  BY FailOpenKeeps
<1>4. Cardinality(Placing(handler', d)) <= Cardinality(Placing(handler, d)) + 1
  <2>1. Placing(handler', d) \subseteq Placing(handler, d) \cup {h}
    BY <1>2 DEF Placing
  <2> QED BY <2>1, CountsAreNat, OneMore
<1>5. Returning(handler', d) \subseteq Returning(handler, d) \ {h}
  BY <1>2 DEF Returning
<1>6. taken'[d] - Cardinality(Returning(handler', d))
        >= taken[d] - Cardinality(Returning(handler, d))
  <2>1. CASE handler[h].pc = "incr"
    <3> DEFINE day == Min(handler[h].room)
    <3>1. taken' \in {taken, [taken EXCEPT ![day] = @ + 1]} /\ day \in Days
      BY <2>1, NextRoom DEF FailOpen, At
    <3> HIDE DEF day
    <3>2. taken \in [Days -> Nat]
      BY DEF IInv, TypeOK
    <3>3. taken'[d] >= taken[d]
      <4>1. CASE taken' = taken
        BY <3>2, <4>1
      <4>2. CASE taken' = [taken EXCEPT ![day] = @ + 1]
        BY <3>1, <3>2, <4>2
      <4> QED BY <3>1, <4>1, <4>2
    <3>4. Cardinality(Returning(handler', d)) <= Cardinality(Returning(handler, d))
      BY <1>5, CountsAreNat, FS_Subset
    <3> QED BY <1>3, <3>3, <3>4, DayNumbers
  <2>2. CASE handler[h].pc = "decr"
    <3>1. taken' \in {taken, [taken EXCEPT ![handler[h].day] = @ - 1]}
      BY <2>2 DEF FailOpen, At
    <3>2. taken \in [Days -> Nat]
      BY DEF IInv, TypeOK
    <3>3. CASE d = handler[h].day
      <4>1. h \in Returning(handler, d)
        BY <2>2, <3>3 DEF Returning
      <4>2. Cardinality(Returning(handler', d)) <= Cardinality(Returning(handler, d)) - 1
        BY <1>5, <4>1, CountsAreNat, OneLess
      <4>3. taken'[d] >= taken[d] - 1
        BY <3>1, <3>2, <3>3
      <4> QED BY <1>3, <4>2, <4>3, DayNumbers
    <3>4. CASE d # handler[h].day
      <4>1. taken'[d] = taken[d]
        BY <3>1, <3>2, <3>4
      <4>2. Cardinality(Returning(handler', d)) <= Cardinality(Returning(handler, d))
        BY <1>5, CountsAreNat, FS_Subset
      <4> QED BY <1>3, <4>1, <4>2, DayNumbers
    <3> QED BY <3>3, <3>4
  <2> QED BY <1>1, <2>1, <2>2
<1>7. /\ Cardinality(OnDay(cards, d)) \in Nat
      /\ Cardinality(Placing(handler, d)) \in Nat /\ Cardinality(Placing(handler', d)) \in Nat
      /\ Cardinality(Returning(handler, d)) \in Nat /\ Cardinality(Returning(handler', d)) \in Nat
      /\ taken[d] \in Nat /\ taken'[d] \in Nat /\ failedOpen \in Nat /\ Limit \in Nat
      /\ Cardinality(OnDay(cards, d)) + Cardinality(Placing(handler, d))
            + Cardinality(Returning(handler, d)) <= taken[d] + failedOpen
      /\ d # LastDay => Cardinality(OnDay(cards, d)) + Cardinality(Placing(handler, d))
                            <= Limit + failedOpen
  BY <1>3, DayNumbers DEF Filled
<1> QED BY <1>1, <1>4, <1>6, <1>7 DEF Filled

LEMMA InsertCardKeepsDays ==
    ASSUME IInv, DayInv, NEW h \in Handlers, InsertCard(h)
    PROVE  DayInv'
<1>1. /\ handler[h] \in Handler /\ handler[h].pc = "insert" /\ handler[h].card \in Contents
      /\ taken' = taken /\ failedOpen' = failedOpen
  BY DEF InsertCard, At, trouble, IInv, TypeOK, AllFit, Fits
<1>2. CASE cards[handler[h].card] # None
  <2>1. cards' = cards /\ handler' = [handler EXCEPT ![h] = Idle]
    BY <1>2 DEF InsertCard, Finish
  <2>2. \A k \in Handlers : handler'[k].pc \in {"insert", "decr"} => handler'[k] = handler[k]
    BY <2>1 DEF IInv, TypeOK, Idle
  <2> QED BY <1>1, <2>1, <2>2, QuietKeepsDays
<1>3. CASE cards[handler[h].card] = None
  <2>1. /\ cards' = [cards EXCEPT ![handler[h].card] = handler[h].day]
        /\ handler' = [handler EXCEPT ![h].pc = "cards", ![h].card = None, ![h].day = 0]
    BY <1>3 DEF InsertCard
  <2>2. handler'[h].pc = "cards" /\ \A k \in Handlers \ {h} : handler'[k] = handler[k]
    BY <1>1, <2>1 DEF IInv, TypeOK, Handler
  <2> SUFFICES ASSUME NEW d \in Days
               PROVE  /\ (Filled(d) + Cardinality(Returning(handler, d)) <= taken[d] + failedOpen)'
                      /\ d # LastDay => (Filled(d) <= Limit + failedOpen)'
    BY DEF DayInv, Covered, WithinLimit
  <2>3. IInv'
    BY InsertCardKeeps
  <2>4. Cardinality(Returning(handler', d)) <= Cardinality(Returning(handler, d))
    BY <2>2, QuietDay
  <2>5. Cardinality(OnDay(cards', d)) + Cardinality(Placing(handler', d)) <= Filled(d)
    <3>1. CASE d = handler[h].day
      <4>1. OnDay(cards', d) \subseteq OnDay(cards, d) \cup {handler[h].card}
        BY <2>1 DEF OnDay, IInv, TypeOK
      <4>2. h \in Placing(handler, d) /\ Placing(handler', d) \subseteq Placing(handler, d) \ {h}
        BY <1>1, <2>2, <3>1 DEF Placing
      <4>3. /\ Cardinality(OnDay(cards', d)) <= Cardinality(OnDay(cards, d)) + 1
            /\ Cardinality(Placing(handler', d)) <= Cardinality(Placing(handler, d)) - 1
        BY <4>1, <4>2, CountsAreNat, OneMore, OneLess
      <4> QED BY <4>3, CountsAreNat DEF Filled
    <3>2. CASE d # handler[h].day
      <4>1. OnDay(cards', d) \subseteq OnDay(cards, d)
        BY <2>1, <3>2 DEF OnDay, IInv, TypeOK
      <4>2. Cardinality(OnDay(cards', d)) <= Cardinality(OnDay(cards, d))
        BY <4>1, CountsAreNat, FS_Subset
      <4>3. Cardinality(Placing(handler', d)) <= Cardinality(Placing(handler, d))
        BY <2>2, QuietDay
      <4> QED BY <4>2, <4>3, CountsAreNat DEF Filled
    <3> QED BY <3>1, <3>2
  <2> QED BY <1>1, <2>3, <2>4, <2>5, DayNumbers DEF Filled
<1> QED BY <1>2, <1>3

\* The steps that have nothing to do with a day.
LEMMA OtherStepsKeepDays ==
    ASSUME IInv, DayInv,
           \/ Crash \/ LoseChannel \/ UNCHANGED vars
           \/ \E h \in Handlers : OnEvent(h) \/ NextCard(h)
           \/ \E q \in Requests : OnRequest(q)
    PROVE  DayInv'
<1> USE DEF IInv
<1>1. UNCHANGED <<cards, taken, failedOpen>>
  BY DEF Crash, LoseChannel, Redeliver, OnEvent, Deliver, LoadProgress, SaveProgress,
     MarkProcessed, Ack, CallFails, NextCard, OnRequest, LoadForTeacher, SaveForTeacher,
     vars, schedule, trouble
<1>2. \A k \in Handlers : handler'[k].pc \in {"insert", "decr"} =>
          handler[k].pc = handler'[k].pc /\ handler[k].day = handler'[k].day
  <2>1. handler \in [Handlers -> Handler]
    BY DEF TypeOK
  <2>2. CASE Crash
    BY <2>2 DEF Crash, Idle
  <2>3. CASE LoseChannel
    BY <2>1, <2>3 DEF LoseChannel, Handler
  <2>4. CASE UNCHANGED vars
    BY <2>4 DEF vars
  <2>5. ASSUME NEW h \in Handlers, Finish(h)
        PROVE  \A k \in Handlers : handler'[k].pc \in {"insert", "decr"} =>
                  handler[k].pc = handler'[k].pc /\ handler[k].day = handler'[k].day
    BY <2>1, <2>5 DEF Finish, Idle
  <2>6. ASSUME NEW h \in Handlers, OnEvent(h)
        PROVE  \A k \in Handlers : handler'[k].pc \in {"insert", "decr"} =>
                  handler[k].pc = handler'[k].pc /\ handler[k].day = handler'[k].day
    <3>1. CASE Deliver(h)
      BY <2>1, <3>1 DEF Deliver, Idle
    <3>2. CASE LoadProgress(h)
      BY <2>1, <3>2 DEF LoadProgress, Handler
    <3>3. CASE SaveProgress(h)
      <4>1. CASE handler[h].fresh /\ progress # None
        BY <2>5, <3>3, <4>1 DEF SaveProgress
      <4>2. CASE ~(handler[h].fresh /\ progress # None)
        <5> DEFINE hold == [handler EXCEPT ![h] = Saved(@)]
        <5>1. handler' = Outdate(hold) /\ handler[h] \in Handler /\ handler[h].pc # "idle"
              /\ Fits(handler[h], sent)
          BY <2>1, <3>3, <4>2 DEF SaveProgress, Saved, At, AllFit
        <5>2. hold \in [Handlers -> Handler] /\ hold[h].pc = "cards"
              /\ \A k \in Handlers \ {h} : hold[k] = handler[k]
          BY <2>1, <5>1, SavedFits
        <5> HIDE DEF hold
        <5> QED BY <5>1, <5>2, OutdateHandlers
      <4> QED BY <4>1, <4>2
    <3>4. CASE MarkProcessed(h)
      BY <2>1, <2>5, <3>4 DEF MarkProcessed, Goto, Handler
    <3>5. CASE Ack(h) \/ CallFails(h)
      BY <2>5, <3>5 DEF Ack, CallFails
    <3> QED BY <2>6, <3>1, <3>2, <3>3, <3>4, <3>5 DEF OnEvent
  <2>7. ASSUME NEW h \in Handlers, NextCard(h)
        PROVE  \A k \in Handlers : handler'[k].pc \in {"insert", "decr"} =>
                  handler[k].pc = handler'[k].pc /\ handler[k].day = handler'[k].day
    BY <2>1, <2>7 DEF NextCard, Goto, Handler, At
  <2>8. ASSUME NEW q \in Requests, OnRequest(q)
        PROVE  \A k \in Handlers : handler'[k].pc = handler[k].pc /\ handler'[k].day = handler[k].day
    <3>1. handler' \in {handler, Outdate(handler)}
      BY <2>8 DEF OnRequest, LoadForTeacher, SaveForTeacher
    <3> QED BY <2>1, <3>1, OutdateHandlers
  <2> QED BY <2>2, <2>3, <2>4, <2>6, <2>7, <2>8
<1> QED BY <1>1, <1>2, QuietKeepsDays

LEMMA InitDayInv == Init => DayInv
<1> SUFFICES ASSUME Init, NEW d \in Days
             PROVE  /\ Filled(d) + Cardinality(Returning(handler, d)) <= taken[d] + failedOpen
                    /\ Filled(d) <= Limit + failedOpen
  BY DEF DayInv, Covered, WithinLimit
<1>1. OnDay(cards, d) = {} /\ Placing(handler, d) = {} /\ Returning(handler, d) = {}
  BY LearningAssumption, DaysAreNat DEF Init, OnDay, Placing, Returning, Idle
<1>2. Filled(d) = 0 /\ Cardinality(Returning(handler, d)) = 0
  BY <1>1, FS_EmptySet DEF Filled
<1>3. taken[d] = 0 /\ failedOpen = 0 /\ Limit \in Nat
  BY LearningAssumption DEF Init
<1> QED BY <1>2, <1>3

LEMMA AlwaysDayInv == Spec => []DayInv
<1>1. IInv /\ DayInv /\ [Next]_vars => DayInv'
  BY TakeDayKeepsDays, GiveBackKeepsDays, FailOpenKeepsDays, InsertCardKeepsDays,
     OtherStepsKeepDays DEF Next, OnCard
<1> QED BY <1>1, InitDayInv, AlwaysIInv, PTL DEF Spec

\* "Two introductions racing for a day's last slot cannot both get it": but
\* for the last day of the horizon and the claims that went on without Redis,
\* no day ever brings more new cards than the limit, however many handlers
\* read its counter as free, lose a race, are cut off or give back.
THEOREM NoDayIsOverbooked == Spec => []DayNotOverbooked
<1>1. ASSUME DayInv, IInv
      PROVE  DayNotOverbooked
  <2> SUFFICES ASSUME NEW d \in 0 .. Horizon - 2
               PROVE  Cardinality({k \in Contents : cards[k] = d}) <= Limit + failedOpen
    BY DEF DayNotOverbooked
  <2>1. d \in Days \ {LastDay}
    BY LearningAssumption DEF Days, LastDay
  <2>2. Filled(d) <= Limit + failedOpen
    BY <1>1, <2>1 DEF DayInv, WithinLimit
  <2>3. Limit + failedOpen \in Nat
    BY <1>1, LearningAssumption DEF IInv, TypeOK
  <2> QED BY <2>2, <2>3, CountsAreNat DEF Filled, OnDay
<1> QED BY <1>1, AlwaysIInv, AlwaysDayInv, PTL

-----------------------------------------------------------------------------
(***************************************************************************)
(* The copies in flight.  A copy that is not stale is what its event, or   *)
(* the teacher, makes of the row as it is now.                             *)
(***************************************************************************)

CopyIsCurrent(t) ==
    t.pc = "save" /\ ~t.stale =>
        /\ t.fresh <=> progress = None
        /\ Changes(RowOf(progress), sent[t.event])
        /\ t.copy = Apply(RowOf(progress), sent[t.event])

RequestIsCurrent(t) ==
    t.pc = "save" => progress # None /\ (~t.stale => t.copy \in TeacherRows(progress))

CopyInv ==
    /\ progress = None => recorded = {}
    /\ \A h \in Handlers : CopyIsCurrent(handler[h])
    /\ \A q \in Requests : RequestIsCurrent(request[q])

\* Copies that are neither made nor written.
LEMMA QuietKeepsCopies ==
    ASSUME IInv, CopyInv, UNCHANGED <<sent, progress, recorded>>,
           \A k \in Handlers : handler'[k].pc = "save" =>
               /\ handler[k].pc = "save" /\ handler[k].stale = handler'[k].stale
               /\ handler[k].fresh = handler'[k].fresh /\ handler[k].copy = handler'[k].copy
               /\ handler[k].event = handler'[k].event,
           \A q \in Requests : request'[q].pc = "save" => request'[q] = request[q]
    PROVE  CopyInv'
<1>1. ASSUME NEW k \in Handlers PROVE CopyIsCurrent(handler[k])'
  <2>1. CopyIsCurrent(handler[k])
    BY DEF CopyInv
  <2> QED BY <2>1 DEF CopyIsCurrent
<1>2. ASSUME NEW q \in Requests PROVE RequestIsCurrent(request[q])'
  <2>1. RequestIsCurrent(request[q])
    BY DEF CopyInv
  <2> QED BY <2>1 DEF RequestIsCurrent
<1> QED BY <1>1, <1>2 DEF CopyInv

\* A row written outdates every copy.
LEMMA WriteOutdates ==
    ASSUME NEW hold \in [Handlers -> Handler], handler' = Outdate(hold),
           NEW ask \in [Requests -> Request], request' = Outdate(ask),
           progress' \in Row
    PROVE  CopyInv'
<1>1. \A k \in Handlers : CopyIsCurrent(handler[k])'
  BY OutdateHandlers DEF CopyIsCurrent
<1>2. \A q \in Requests : RequestIsCurrent(request[q])'
  BY LearningAssumption, OutdateRequests DEF RequestIsCurrent
<1> QED BY <1>1, <1>2, LearningAssumption DEF CopyInv

\* The row a handler writes, and the two ways it is refused or done.
LEMMA SaveWrites ==
    ASSUME IInv, NEW h \in Handlers, SaveProgress(h),
           ~(handler[h].fresh /\ progress # None)
    PROVE  /\ handler[h] \in Handler /\ handler[h].pc = "save"
           /\ progress' = handler[h].copy /\ progress' \in Row
           /\ overwritten' = (overwritten \/ handler[h].stale)
           /\ recorded' = recorded \cup {handler[h].event}
           /\ UNCHANGED <<questioned, sent>>
           /\ \E hold \in [Handlers -> Handler] :
                 /\ hold[h] = Saved(handler[h])
                 /\ \A k \in Handlers \ {h} : hold[k] = handler[k]
                 /\ handler' = Outdate(hold)
           /\ request' = Outdate(request)
<1>1. handler[h] \in Handler /\ handler[h].pc = "save" /\ Fits(handler[h], sent)
  BY DEF IInv, TypeOK, AllFit, SaveProgress, At
<1> DEFINE hold == [handler EXCEPT ![h] = Saved(@)]
<1>2. /\ handler' = Outdate(hold) /\ request' = Outdate(request)
      /\ WriteRow(handler[h]) /\ recorded' = recorded \cup {handler[h].event}
      /\ UNCHANGED <<questioned, sent>>
  BY DEF SaveProgress, Saved, deliveries
<1>3. hold \in [Handlers -> Handler] /\ hold[h] = Saved(handler[h])
      /\ \A k \in Handlers \ {h} : hold[k] = handler[k]
  BY <1>1, SavedFits DEF IInv, TypeOK
<1> HIDE DEF hold
<1>4. handler[h].copy \in Row
  BY <1>1 DEF Handler
<1> QED BY <1>1, <1>2, <1>3, <1>4 DEF WriteRow

LEMMA SaveProgressKeepsCopies ==
    ASSUME IInv, CopyInv, NEW h \in Handlers, SaveProgress(h)
    PROVE  CopyInv'
<1>1. CASE handler[h].fresh /\ progress # None
  <2>1. handler' = [handler EXCEPT ![h] = Idle] /\ UNCHANGED <<sent, progress, recorded, request>>
    BY <1>1 DEF SaveProgress, Finish, record, deliveries
  <2>2. \A k \in Handlers : handler'[k].pc = "save" => handler'[k] = handler[k]
    BY <2>1 DEF IInv, TypeOK, Idle
  <2> QED BY <2>1, <2>2, QuietKeepsCopies
<1>2. CASE ~(handler[h].fresh /\ progress # None)
  <2>1. request \in [Requests -> Request]
    BY DEF IInv, TypeOK
  <2> QED BY <1>2, <2>1, SaveWrites, WriteOutdates
<1> QED BY <1>1, <1>2

LEMMA LoadProgressKeepsCopies ==
    ASSUME IInv, CopyInv, NEW h \in Handlers, LoadProgress(h)
    PROVE  CopyInv'
<1> DEFINE e == EventOf(h)
           row == RowOf(progress)
           next == [handler[h] EXCEPT !.todo = ToSchedule(e)]
           t == IF Changes(row, e)
                THEN [next EXCEPT !.pc = "save", !.copy = Apply(row, e),
                                  !.fresh = progress = None]
                ELSE [next EXCEPT !.pc = "cards"]
<1>1. handler[h] \in Handler /\ handler \in [Handlers -> Handler]
  BY DEF IInv, TypeOK
<1>2. /\ handler' = [handler EXCEPT ![h] = t]
      /\ UNCHANGED <<sent, progress, recorded, request>>
  BY DEF LoadProgress, record, deliveries, RowOf
<1>3. CopyIsCurrent(t)
  <2>1. CASE Changes(row, e)
    <3>1. t = [next EXCEPT !.pc = "save", !.copy = Apply(row, e), !.fresh = progress = None]
      BY <2>1
    <3> HIDE DEF t, e, row
    <3>2. /\ t.event = handler[h].event /\ t.copy = Apply(row, e)
          /\ t.fresh = (progress = None)
      BY <1>1, <3>1 DEF Handler
    <3> QED BY <2>1, <3>2 DEF CopyIsCurrent, e, row, EventOf
  <2>2. CASE ~Changes(row, e)
    <3>1. t = [next EXCEPT !.pc = "cards"]
      BY <2>2
    <3> HIDE DEF t, e, row
    <3>2. t.pc = "cards"
      BY <1>1, <3>1 DEF Handler
    <3> QED BY <3>2 DEF CopyIsCurrent
  <2> QED BY <2>1, <2>2
<1> HIDE DEF t
<1>4. ASSUME NEW k \in Handlers PROVE CopyIsCurrent(handler[k])'
  <2>1. CopyIsCurrent(handler'[k])
    BY <1>1, <1>2, <1>3 DEF CopyInv
  <2> QED BY <1>2, <2>1 DEF CopyIsCurrent
<1>5. ASSUME NEW q \in Requests PROVE RequestIsCurrent(request[q])'
  <2>1. RequestIsCurrent(request[q])
    BY DEF CopyInv
  <2> QED BY <1>2, <2>1 DEF RequestIsCurrent
<1> QED BY <1>2, <1>4, <1>5 DEF CopyInv

LEMMA LoadForTeacherKeepsCopies ==
    ASSUME IInv, CopyInv, NEW q \in Requests, LoadForTeacher(q)
    PROVE  CopyInv'
<1>1. PICK row \in TeacherRows(progress) :
        request' = [request EXCEPT ![q] = [NoRequest EXCEPT !.pc = "save", !.copy = row]]
  BY DEF LoadForTeacher, TeacherRows
<1>2. progress # None /\ UNCHANGED <<sent, progress, recorded, handler>>
  BY DEF LoadForTeacher, deliveries, record
<1>3. ASSUME NEW k \in Handlers PROVE CopyIsCurrent(handler[k])'
  <2>1. CopyIsCurrent(handler[k])
    BY DEF CopyInv
  <2> QED BY <1>2, <2>1 DEF CopyIsCurrent
<1>4. ASSUME NEW k \in Requests PROVE RequestIsCurrent(request[k])'
  <2>1. RequestIsCurrent(request[k])
    BY DEF CopyInv
  <2>2. request'[k] = IF k = q THEN [NoRequest EXCEPT !.pc = "save", !.copy = row] ELSE request[k]
    BY <1>1 DEF IInv, TypeOK
  <2>3. [NoRequest EXCEPT !.pc = "save", !.copy = row].copy = row
    BY DEF NoRequest
  <2> QED BY <1>1, <1>2, <2>1, <2>2, <2>3 DEF RequestIsCurrent
<1> QED BY <1>2, <1>3, <1>4 DEF CopyInv

LEMMA SaveForTeacherKeepsCopies ==
    ASSUME IInv, CopyInv, NEW q \in Requests, SaveForTeacher(q)
    PROVE  CopyInv'
<1> DEFINE ask == [request EXCEPT ![q] = NoRequest]
<1>1. /\ progress' = request[q].copy /\ handler' = Outdate(handler) /\ request' = Outdate(ask)
  BY DEF SaveForTeacher, WriteRow
<1>2. ask \in [Requests -> Request]
  BY NewIsRow DEF IInv, TypeOK, NoRequest, Request
<1> HIDE DEF ask
<1>3. progress' \in Row /\ handler \in [Handlers -> Handler]
  BY <1>1 DEF IInv, TypeOK, Request
<1> QED BY <1>1, <1>2, <1>3, WriteOutdates

\* The steps that neither make a copy nor write one.
LEMMA OtherStepsKeepCopies ==
    ASSUME IInv, CopyInv,
           \/ Crash \/ LoseChannel \/ UNCHANGED vars
           \/ \E h \in Handlers : \/ OnCard(h) \/ Deliver(h) \/ MarkProcessed(h)
                                  \/ Ack(h) \/ CallFails(h)
    PROVE  CopyInv'
<1>1. handler \in [Handlers -> Handler]
  BY DEF IInv, TypeOK
<1>2. UNCHANGED <<sent, progress, recorded>>
  BY DEF Crash, LoseChannel, Redeliver, OnCard, Deliver, MarkProcessed, Ack, CallFails, NextCard,
     TakeDay, GiveBack, FailOpen, InsertCard, vars, record, deliveries
<1>3. \A q \in Requests : request'[q].pc = "save" => request'[q] = request[q]
  <2>1. CASE Crash
    BY <2>1 DEF Crash, NoRequest
  <2>2. CASE ~Crash
    BY <2>2 DEF LoseChannel, OnCard, Deliver, MarkProcessed, Ack, CallFails, NextCard,
       TakeDay, GiveBack, FailOpen, InsertCard, vars
  <2> QED BY <2>1, <2>2
<1>4. \A k \in Handlers : handler'[k].pc = "save" =>
               /\ handler[k].pc = "save" /\ handler[k].stale = handler'[k].stale
               /\ handler[k].fresh = handler'[k].fresh /\ handler[k].copy = handler'[k].copy
               /\ handler[k].event = handler'[k].event
  <2>1. CASE Crash
    BY <2>1 DEF Crash, Idle
  <2>2. CASE LoseChannel
    BY <1>1, <2>2 DEF LoseChannel, Handler
  <2>3. CASE UNCHANGED vars
    BY <2>3 DEF vars
  <2>4. ASSUME NEW h \in Handlers,
               \/ OnCard(h) \/ Deliver(h) \/ MarkProcessed(h) \/ Ack(h) \/ CallFails(h)
        PROVE  \A k \in Handlers : handler'[k].pc = "save" => handler'[k] = handler[k]
    <3>1. \A k \in Handlers \ {h} : handler'[k] = handler[k]
      BY <1>1, <2>4 DEF OnCard, Deliver, MarkProcessed, Ack, CallFails, NextCard, TakeDay,
         GiveBack, FailOpen, InsertCard, Goto, Finish
    <3>2. CASE OnCard(h)
      <4>1. CASE NextCard(h)
        BY <1>1, <3>1, <4>1 DEF NextCard, Goto, At, Handler
      <4>2. CASE TakeDay(h)
        BY <1>1, <3>1, <4>2 DEF TakeDay, Handler
      <4>3. CASE GiveBack(h) \/ FailOpen(h)
        BY <1>1, <3>1, <4>3 DEF GiveBack, FailOpen, Goto, Handler
      <4>4. CASE InsertCard(h)
        BY <1>1, <3>1, <4>4 DEF InsertCard, Finish, Idle, Handler
      <4> QED BY <3>2, <4>1, <4>2, <4>3, <4>4 DEF OnCard
    <3>3. CASE Deliver(h)
      BY <1>1, <3>1, <3>3 DEF Deliver, Idle
    <3>4. CASE MarkProcessed(h)
      BY <1>1, <3>1, <3>4 DEF MarkProcessed, Goto, Finish, Idle, Handler
    <3>5. CASE Ack(h) \/ CallFails(h)
      BY <1>1, <3>1, <3>5 DEF Ack, CallFails, Finish, Idle
    <3> QED BY <2>4, <3>2, <3>3, <3>4, <3>5
  <2> QED BY <2>1, <2>2, <2>3, <2>4
<1> QED BY <1>2, <1>3, <1>4, QuietKeepsCopies

LEMMA InitCopyInv == Init => CopyInv
BY DEF Init, CopyInv, CopyIsCurrent, RequestIsCurrent, Idle, NoRequest

LEMMA NextCopyInv == IInv /\ CopyInv /\ [Next]_vars => CopyInv'
BY SaveProgressKeepsCopies, LoadProgressKeepsCopies, LoadForTeacherKeepsCopies,
   SaveForTeacherKeepsCopies, OtherStepsKeepCopies DEF Next, OnEvent, OnRequest

-----------------------------------------------------------------------------
(***************************************************************************)
(* The record, as long as no stale row is written: a step leaves it alone, *)
(* puts one event in it, or is a teacher's.                                *)
(***************************************************************************)

EventWritten ==
    \E i \in DOMAIN sent :
        /\ sent[i] \in Event
        /\ Changes(RowOf(progress), sent[i])
        /\ progress' = Apply(RowOf(progress), sent[i])
        /\ recorded' = recorded \cup {i} /\ UNCHANGED <<questioned, sent>>

TeacherWrites ==
    /\ progress # None /\ progress' \in TeacherRows(progress)
    /\ questioned' = TRUE /\ UNCHANGED <<recorded, sent>>

LEMMA WhatIsWritten ==
    ASSUME IInv, CopyInv, [Next]_vars, ~overwritten'
    PROVE  /\ ~overwritten
           /\ EventWritten \/ TeacherWrites \/ UNCHANGED <<record, sent>>
<1>1. CASE \E h \in Handlers : SaveProgress(h) /\ ~(handler[h].fresh /\ progress # None)
  <2>1. PICK h \in Handlers : SaveProgress(h) /\ ~(handler[h].fresh /\ progress # None)
    BY <1>1
  <2>2. /\ handler[h].pc = "save" /\ ~handler[h].stale /\ ~overwritten
        /\ progress' = handler[h].copy /\ recorded' = recorded \cup {handler[h].event}
        /\ UNCHANGED <<questioned, sent>>
    BY <2>1, SaveWrites
  <2>3. sent[handler[h].event] \in Event /\ handler[h].event \in DOMAIN sent
    BY <2>2, EventOfHandler DEF IInv, EventOf
  <2>4. CopyIsCurrent(handler[h])
    BY DEF CopyInv
  <2>5. EventWritten
    BY <2>2, <2>3, <2>4 DEF CopyIsCurrent, EventWritten
  <2> QED BY <2>2, <2>5
<1>2. CASE \E q \in Requests : SaveForTeacher(q)
  <2>1. PICK q \in Requests : SaveForTeacher(q)
    BY <1>2
  <2>2. /\ request[q].pc = "save" /\ ~request[q].stale /\ ~overwritten
        /\ progress' = request[q].copy /\ questioned' = TRUE /\ UNCHANGED <<recorded, sent>>
    BY <2>1 DEF SaveForTeacher, WriteRow, deliveries
  <2>3. RequestIsCurrent(request[q])
    BY DEF CopyInv
  <2> QED BY <2>2, <2>3 DEF RequestIsCurrent, TeacherWrites
<1>3. CASE ~(\E q \in Requests : SaveForTeacher(q))
           /\ ~(\E h \in Handlers : SaveProgress(h) /\ ~(handler[h].fresh /\ progress # None))
  <2>1. UNCHANGED <<record, sent>>
    <3>1. CASE Crash \/ LoseChannel \/ UNCHANGED vars
      BY <3>1 DEF Crash, LoseChannel, Redeliver, vars, deliveries
    <3>2. ASSUME NEW h \in Handlers, OnEvent(h)
          PROVE  UNCHANGED <<record, sent>>
      BY <1>3, <3>2 DEF OnEvent, Deliver, LoadProgress, SaveProgress, MarkProcessed, Ack,
         CallFails, deliveries
    <3>3. ASSUME NEW h \in Handlers, OnCard(h)
          PROVE  UNCHANGED <<record, sent>>
      BY <3>3 DEF OnCard, NextCard, TakeDay, GiveBack, FailOpen, InsertCard, deliveries
    <3>4. ASSUME NEW q \in Requests, OnRequest(q)
          PROVE  UNCHANGED <<record, sent>>
      BY <1>3, <3>4 DEF OnRequest, LoadForTeacher, deliveries
    <3> QED BY <3>1, <3>2, <3>3, <3>4 DEF Next
  <2> QED BY <2>1 DEF record
<1> QED BY <1>1, <1>2, <1>3

\* While nobody has questioned the completion, the row is not marked as
\* questioned, and a pass by a person or the machine check stands in it.
PassStands(row) == row.status = "COMPLETED" /\ ~row.byAi /\ row.completed

PassInv ==
    ~overwritten /\ ~questioned =>
        /\ RowOf(progress).status # "NEEDS_REVIEW"
        /\ (\E i \in recorded : Passes(sent[i])) => PassStands(RowOf(progress))

LEMMA ApplyKeepsPass ==
    ASSUME NEW row \in Row, NEW e \in Event, Changes(row, e), row.status # "NEEDS_REVIEW"
    PROVE  /\ Apply(row, e).status # "NEEDS_REVIEW"
           /\ PassStands(row) \/ Passes(e) => PassStands(Apply(row, e))
<1>1. CASE IsAttempt(e)
  <2> DEFINE new == RecordAttempt(row, e)
  <2>1. Apply(row, e) = new
    BY <1>1 DEF Apply
  <2>2. /\ new.status = StatusAfter(row, e)
        /\ new.completed = (row.completed \/ Completes(row, e))
        /\ new.byAi = ByAiAfter(row, e)
    BY DEF RecordAttempt
  <2> HIDE DEF new
  <2>3. StatusAfter(row, e) # "NEEDS_REVIEW"
    BY DEF StatusAfter
  <2>4. PassStands(row) => StatusAfter(row, e) = "COMPLETED" /\ ~ByAiAfter(row, e)
    BY DEF StatusAfter, ByAiAfter, PassStands, Completes
  <2>5. Passes(e) => StatusAfter(row, e) = "COMPLETED" /\ Completes(row, e) /\ ~ByAiAfter(row, e)
    BY DEF StatusAfter, ByAiAfter, Passes, Completes
  <2> QED BY <2>1, <2>2, <2>3, <2>4, <2>5 DEF PassStands
<1>2. CASE e.revises
  BY <1>2, EventFields DEF Apply, IsAttempt, ReviseVerdict, Changes, PassStands, Passes, Row
<1>3. CASE ~e.revises /\ e.outcome = "returned"
  BY <1>3 DEF Apply, IsAttempt, RecordReturn, Changes, PassStands, Passes, Row
<1> QED BY <1>1, <1>2, <1>3, EventFields DEF IsAttempt

LEMMA NextPassInv == IInv /\ CopyInv /\ PassInv /\ [Next]_vars => PassInv'
<1> SUFFICES ASSUME IInv, CopyInv, PassInv, [Next]_vars, ~overwritten', ~questioned'
             PROVE  /\ RowOf(progress)'.status # "NEEDS_REVIEW"
                    /\ (\E i \in recorded' : Passes(sent'[i])) => PassStands(RowOf(progress)')
  BY DEF PassInv
<1>1. ~overwritten /\ (EventWritten \/ UNCHANGED <<record, sent>>)
  BY WhatIsWritten DEF TeacherWrites
<1>2. CASE EventWritten
  <2>1. PICK i \in DOMAIN sent :
          /\ sent[i] \in Event /\ Changes(RowOf(progress), sent[i])
          /\ progress' = Apply(RowOf(progress), sent[i])
          /\ recorded' = recorded \cup {i} /\ UNCHANGED <<questioned, sent>>
    BY <1>2 DEF EventWritten
  <2>2. RowOf(progress) \in Row
    BY NewIsRow DEF IInv, TypeOK, RowOf
  <2>3. RowOf(progress)' = Apply(RowOf(progress), sent[i])
    BY <2>1, <2>2, ApplyIsRow, LearningAssumption DEF RowOf
  <2>4. /\ RowOf(progress).status # "NEEDS_REVIEW"
        /\ (\E j \in recorded : Passes(sent[j])) => PassStands(RowOf(progress))
    BY <1>1, <2>1 DEF PassInv
  <2>5. /\ RowOf(progress)'.status # "NEEDS_REVIEW"
        /\ PassStands(RowOf(progress)) \/ Passes(sent[i]) => PassStands(RowOf(progress)')
    BY <2>1, <2>2, <2>3, <2>4, ApplyKeepsPass
  <2> QED BY <2>1, <2>4, <2>5
<1>3. CASE UNCHANGED <<record, sent>>
  <2>1. RowOf(progress)' = RowOf(progress) /\ UNCHANGED <<recorded, sent, questioned>>
    BY <1>3 DEF RowOf, record
  <2> QED BY <1>1, <2>1 DEF PassInv
<1> QED BY <1>1, <1>2, <1>3

LEMMA InitPassInv == Init => PassInv
BY DEF Init, PassInv, RowOf, NewProgress

LEMMA AlwaysCopyInv == Spec => []CopyInv
BY InitCopyInv, NextCopyInv, AlwaysIInv, PTL DEF Spec

\* "A pass by a person or the machine check, on this attempt or another,
\* stands": in whatever order the events arrive, are repeated or get lost,
\* until a teacher questions the completion or a stale row is written, the
\* exercise is completed and not on a model's word.
THEOREM APassStands == Spec => []HumanPassStands
<1>1. PassInv /\ CopyInv => HumanPassStands
  BY DEF PassInv, CopyInv, HumanPassStands, PassStands, RowOf
<1> QED BY <1>1, InitPassInv, NextPassInv, AlwaysIInv, AlwaysCopyInv, PTL DEF Spec

-----------------------------------------------------------------------------
(***************************************************************************)
(* The latest attempt, and how many there were, as long as no stale row is *)
(* written.                                                                *)
(***************************************************************************)

LastIsLatest ==
    /\ \A j \in Counted : sent[j].at <= RowOf(progress).last
    /\ RowOf(progress).last = 0 \/ \E j \in Counted : sent[j].at = RowOf(progress).last

ScoreOfLatest ==
    (\A i \in recorded : ~sent[i].revises) =>
        \A i \in Counted :
            /\ sent[i].outcome # "submitted"
            /\ \A j \in Counted : sent[j].at <= sent[i].at
            => RowOf(progress).score = sent[i].at

EachCounts == Cardinality(Counted) <= RowOf(progress).attempts

AttemptInv == ~overwritten => LastIsLatest /\ ScoreOfLatest /\ EachCounts

LEMMA ApplyAttempt ==
    ASSUME NEW row \in Row, NEW e \in Event, IsAttempt(e)
    PROVE  /\ Apply(row, e).last = IF Latest(row, e) THEN e.at ELSE row.last
           /\ Apply(row, e).score = IF Latest(row, e) /\ e.outcome # "submitted"
                                    THEN e.at ELSE row.score
           /\ Apply(row, e).attempts = row.attempts + 1
BY DEF Apply, RecordAttempt

LEMMA ApplyOther ==
    ASSUME NEW row \in Row, NEW e \in Event, ~IsAttempt(e)
    PROVE  /\ Apply(row, e).last = row.last /\ Apply(row, e).attempts = row.attempts
           /\ ~e.revises => Apply(row, e).score = row.score
BY DEF Apply, RecordReturn, ReviseVerdict, Row

LEMMA TeacherKeepsAttempts ==
    ASSUME NEW row \in Row, NEW r \in TeacherRows(row)
    PROVE  r.last = row.last /\ r.score = row.score /\ r.attempts = row.attempts
<1>1. /\ MarkNeedsReview(row).last = row.last /\ MarkNeedsReview(row).score = row.score
      /\ MarkNeedsReview(row).attempts = row.attempts
  BY DEF MarkNeedsReview, Row
<1>2. ASSUME NEW approved \in BOOLEAN
      PROVE  /\ ResolveReview(row, approved).last = row.last
             /\ ResolveReview(row, approved).score = row.score
             /\ ResolveReview(row, approved).attempts = row.attempts
  BY DEF ResolveReview, Row
<1> QED BY <1>1, <1>2 DEF TeacherRows

LEMMA CountedFinite ==
    ASSUME IInv
    PROVE  IsFiniteSet(Counted) /\ Cardinality(Counted) \in Nat /\ Counted \subseteq DOMAIN sent
<1>1. Len(sent) \in Nat /\ DOMAIN sent = 1 .. Len(sent)
  BY DEF IInv, TypeOK
<1>2. IsFiniteSet(DOMAIN sent)
  BY <1>1, FS_Interval
<1>3. Counted \subseteq DOMAIN sent
  BY DEF IInv, TypeOK, Counted
<1> QED BY <1>2, <1>3, FS_Subset, FS_CardinalityType

LEMMA AttemptRecorded ==
    ASSUME IInv, AttemptInv, ~overwritten,
           NEW i \in DOMAIN sent, sent[i] \in Event, IsAttempt(sent[i]),
           progress' = Apply(RowOf(progress), sent[i]),
           recorded' = recorded \cup {i}, sent' = sent
    PROVE  LastIsLatest' /\ ScoreOfLatest' /\ EachCounts'
<1> DEFINE row == RowOf(progress)
           e == sent[i]
<1>1. row \in Row /\ row.last \in Nat
  <2>1. row \in Row
    BY NewIsRow DEF IInv, TypeOK, RowOf
  <2> HIDE DEF row
  <2>2. row.last \in Dates \cup {0}
    BY <2>1 DEF Row
  <2>3. Dates \cup {0} \subseteq Nat
    BY DatesAssumption
  <2> QED BY <2>1, <2>2, <2>3
<1>2. RowOf(progress)' = Apply(row, e)
  BY <1>1, ApplyIsRow, LearningAssumption DEF RowOf
<1> DEFINE new == RowOf(progress)'
<1>3. /\ new.last = IF e.at >= row.last THEN e.at ELSE row.last
      /\ new.score = IF e.at >= row.last /\ e.outcome # "submitted" THEN e.at ELSE row.score
      /\ new.attempts = row.attempts + 1
  BY <1>1, <1>2, ApplyAttempt DEF Latest
<1>4. Counted' = Counted \cup {i}
  BY DEF Counted
<1>5. LastIsLatest /\ ScoreOfLatest /\ EachCounts
  BY DEF AttemptInv
<1>6. \A j \in DOMAIN sent : sent[j].at \in Nat
  BY EventFields DEF IInv, TypeOK
<1>7. Counted \subseteq DOMAIN sent
  BY CountedFinite
<1> DEFINE last == row.last
           last2 == new.last
<1>8. LastIsLatest'
  <2> SUFFICES /\ \A j \in Counted \cup {i} : sent[j].at <= new.last
               /\ new.last = 0 \/ \E j \in Counted \cup {i} : sent[j].at = new.last
    BY <1>4 DEF LastIsLatest
  <2> HIDE DEF new, row
  <2>1. \A j \in Counted : sent[j].at <= row.last
    BY <1>5 DEF LastIsLatest, row
  <2>2. row.last = 0 \/ \E j \in Counted : sent[j].at = row.last
    BY <1>5 DEF LastIsLatest, row
  <2> QED BY <1>1, <1>3, <1>6, <1>7, <2>1, <2>2
<1>9. ScoreOfLatest'
  <2> SUFFICES ASSUME \A j \in recorded' : ~sent[j].revises,
                      NEW k \in Counted \cup {i}, sent[k].outcome # "submitted",
                      \A j \in Counted \cup {i} : sent[j].at <= sent[k].at
               PROVE  new.score = sent[k].at
    BY <1>4 DEF ScoreOfLatest
  <2> HIDE DEF new
  <2>1. \A j \in Counted : sent[j].at <= row.last
    BY <1>5 DEF LastIsLatest
  <2>2. row.last = 0 \/ \E j \in Counted : sent[j].at = row.last
    BY <1>5 DEF LastIsLatest
  <2>3. k \in Counted => row.score = sent[k].at
    BY <1>5 DEF ScoreOfLatest
  <2> HIDE DEF row
  <2>4. sent[k].at \in Nat /\ e.at \in Nat /\ e.at <= sent[k].at
    BY <1>6, <1>7
  <2>5. row.last <= sent[k].at
    BY <1>1, <2>2, <2>4
  <2>6. CASE e.at >= row.last
    <3>1. e.at = sent[k].at
      BY <1>1, <2>1, <2>4, <2>6
    <3> QED BY <1>3, <2>3, <2>6, <3>1
  <2>7. CASE ~(e.at >= row.last)
    BY <1>1, <1>3, <2>3, <2>4, <2>5, <2>7
  <2> QED BY <2>6, <2>7
<1>10. EachCounts'
  <2>1. Cardinality(Counted \cup {i}) <= Cardinality(Counted) + 1
        /\ Cardinality(Counted \cup {i}) \in Nat
    <3>1. IsFiniteSet(Counted \cup {i})
      BY CountedFinite, FS_AddElement
    <3>2. Cardinality(Counted \cup {i}) <= Cardinality(Counted) + 1
      BY CountedFinite, OneMore
    <3> QED BY <3>1, <3>2, FS_CardinalityType
  <2>2. Cardinality(Counted) <= row.attempts /\ row.attempts \in Nat
    BY <1>1, <1>5 DEF EachCounts, Row
  <2>3. Cardinality(Counted') = Cardinality(Counted \cup {i})
    BY <1>4
  <2> HIDE DEF row
  <2> QED BY <1>3, <2>1, <2>2, <2>3, CountedFinite DEF EachCounts
<1> QED BY <1>8, <1>9, <1>10

\* What is no attempt leaves the attempts alone, and unless it revises a
\* verdict, the score.
LEMMA OtherRecorded ==
    ASSUME IInv, AttemptInv, ~overwritten, sent' = sent,
           NEW row, RowOf(progress)' = row,
           row.last = RowOf(progress).last, row.attempts = RowOf(progress).attempts,
           Counted' = Counted, recorded \subseteq recorded',
           (\A i \in recorded' : ~sent[i].revises) => row.score = RowOf(progress).score
    PROVE  LastIsLatest' /\ ScoreOfLatest' /\ EachCounts'
<1>1. LastIsLatest /\ ScoreOfLatest /\ EachCounts
  BY DEF AttemptInv
<1>2. LastIsLatest'
  BY <1>1 DEF LastIsLatest
<1>3. ScoreOfLatest'
  BY <1>1 DEF ScoreOfLatest
<1>4. EachCounts'
  BY <1>1 DEF EachCounts
<1> QED BY <1>2, <1>3, <1>4

LEMMA NextAttemptInv == IInv /\ CopyInv /\ AttemptInv /\ [Next]_vars => AttemptInv'
<1> SUFFICES ASSUME IInv, CopyInv, AttemptInv, [Next]_vars, ~overwritten'
             PROVE  LastIsLatest' /\ ScoreOfLatest' /\ EachCounts'
  BY DEF AttemptInv
<1>1. ~overwritten /\ (EventWritten \/ TeacherWrites \/ UNCHANGED <<record, sent>>)
  BY WhatIsWritten
<1>2. RowOf(progress) \in Row
  BY NewIsRow DEF IInv, TypeOK, RowOf
<1>3. CASE EventWritten
  <2>1. PICK i \in DOMAIN sent :
          /\ sent[i] \in Event
          /\ progress' = Apply(RowOf(progress), sent[i])
          /\ recorded' = recorded \cup {i} /\ sent' = sent
    BY <1>3 DEF EventWritten
  <2>2. CASE IsAttempt(sent[i])
    BY <1>1, <2>1, <2>2, AttemptRecorded
  <2>3. CASE ~IsAttempt(sent[i])
    <3>1. Counted' = Counted
      BY <2>1, <2>3 DEF Counted
    <3>2. RowOf(progress)' = Apply(RowOf(progress), sent[i])
      BY <1>2, <2>1, ApplyIsRow, LearningAssumption DEF RowOf
    <3>3. /\ Apply(RowOf(progress), sent[i]).last = RowOf(progress).last
          /\ Apply(RowOf(progress), sent[i]).attempts = RowOf(progress).attempts
          /\ ~sent[i].revises => Apply(RowOf(progress), sent[i]).score = RowOf(progress).score
      BY <1>2, <2>1, <2>3, ApplyOther
    <3> QED BY <1>1, <2>1, <3>1, <3>2, <3>3, OtherRecorded
  <2> QED BY <2>2, <2>3
<1>4. CASE TeacherWrites
  <2>1. progress \in Row /\ progress' \in TeacherRows(progress) /\ RowOf(progress) = progress
    BY <1>4 DEF TeacherWrites, IInv, TypeOK, RowOf
  <2>2. RowOf(progress)' = progress'
    BY <2>1, TeacherRowsAreRows, LearningAssumption DEF RowOf
  <2>3. /\ progress'.last = progress.last /\ progress'.score = progress.score
        /\ progress'.attempts = progress.attempts
    BY <2>1, TeacherKeepsAttempts
  <2>4. Counted' = Counted /\ recorded' = recorded /\ sent' = sent
    BY <1>4 DEF TeacherWrites, Counted
  <2> QED BY <1>1, <2>1, <2>2, <2>3, <2>4, OtherRecorded
<1>5. CASE UNCHANGED <<record, sent>>
  <2>1. RowOf(progress)' = RowOf(progress) /\ Counted' = Counted /\ recorded' = recorded
        /\ sent' = sent
    BY <1>5 DEF RowOf, Counted, record
  <2> QED BY <1>1, <2>1, OtherRecorded
<1> QED BY <1>1, <1>3, <1>4, <1>5

LEMMA InitAttemptInv == Init => AttemptInv
<1> SUFFICES ASSUME Init PROVE AttemptInv
  OBVIOUS
<1>1. Counted = {} /\ RowOf(progress) = NewProgress
  BY DEF Init, Counted, RowOf
<1>2. Cardinality(Counted) = 0
  BY <1>1, FS_EmptySet
<1> QED BY <1>1, <1>2 DEF AttemptInv, LastIsLatest, ScoreOfLatest, EachCounts, NewProgress

LEMMA AlwaysAttemptInv == Spec => []AttemptInv
BY InitAttemptInv, NextAttemptInv, AlwaysIInv, AlwaysCopyInv, PTL DEF Spec

\* "An attempt made earlier and arriving later keeps neither its score nor
\* its time": whatever the order of arrival, the score is that of the latest
\* attempt that was judged when none is later, as long as no stale row is
\* written and no verdict revised.
THEOREM TheScoreIsTheLatest == Spec => []ScoreIsLatest
<1>1. AttemptInv /\ CopyInv => ScoreIsLatest
  BY DEF AttemptInv, CopyInv, ScoreOfLatest, ScoreIsLatest, Counted, RowOf
<1> QED BY <1>1, AlwaysAttemptInv, AlwaysCopyInv, PTL

-----------------------------------------------------------------------------
(***************************************************************************)
(* How often an attempt can be counted.  One is known while it is queued   *)
(* unprocessed, in the hands of a handler that has still to write it, or   *)
(* recorded; each write uses up one of those ways, and only being cut off  *)
(* makes a way out of nothing.                                             *)
(***************************************************************************)

Due == {i \in queue \ processed : IsAttempt(sent[i])}

ToWrite(t) == t.pc \in {"load", "save"} /\ IsAttempt(sent[t.event])

Counting == {h \in Handlers : ToWrite(handler[h])}

InHand == {handler[h].event : h \in Counting}

Known == Counted \cup Due \cup InHand

Budget == Cardinality(Known) + cut - Cardinality(Due) - Cardinality(Counting)

Extra(t) == IF IsAttempt(sent[t.event]) THEN 1 ELSE 0

CountInv ==
    /\ AttemptsOf(progress) <= Budget
    /\ \A h \in Handlers : At(h, "save") => handler[h].copy.attempts <= Budget + Extra(handler[h])
    /\ \A q \in Requests : request[q].pc = "save" => request[q].copy.attempts <= Budget

LEMMA UnionBound ==
    ASSUME NEW S, IsFiniteSet(S), NEW T, IsFiniteSet(T), NEW U \in SUBSET (S \cup T)
    PROVE  /\ IsFiniteSet(U)
           /\ Cardinality(U) \in Nat /\ Cardinality(S) \in Nat /\ Cardinality(T) \in Nat
           /\ Cardinality(U) <= Cardinality(S) + Cardinality(T)
<1>1. /\ IsFiniteSet(S \cup T) /\ IsFiniteSet(S \cap T)
      /\ Cardinality(S \cup T) = Cardinality(S) + Cardinality(T) - Cardinality(S \cap T)
  BY FS_Union, FS_Intersection
<1>2. /\ Cardinality(S) \in Nat /\ Cardinality(T) \in Nat /\ Cardinality(S \cap T) \in Nat
      /\ Cardinality(S \cup T) \in Nat
  BY <1>1, FS_CardinalityType
<1>3. /\ IsFiniteSet(U) /\ Cardinality(U) <= Cardinality(S \cup T)
  BY <1>1, FS_Subset
<1>4. Cardinality(U) \in Nat
  BY <1>3, FS_CardinalityType
<1> QED BY <1>1, <1>2, <1>3, <1>4

\* A set of handlers is about no more events than it has members.
LEMMA EventsOf ==
    ASSUME NEW S \in SUBSET Handlers
    PROVE  /\ IsFiniteSet(S) /\ IsFiniteSet({handler[h].event : h \in S})
           /\ Cardinality(S) \in Nat /\ Cardinality({handler[h].event : h \in S}) \in Nat
           /\ Cardinality({handler[h].event : h \in S}) <= Cardinality(S)
<1> DEFINE T == {handler[h].event : h \in S}
           f == [h \in S |-> handler[h].event]
<1>1. IsFiniteSet(S)
  BY LearningAssumption, FS_Subset
<1>2. f \in Surjection(S, T)
  BY DEF Surjection
<1> HIDE DEF f, T
<1>3. IsFiniteSet(T) /\ Cardinality(T) <= Cardinality(S)
  BY <1>1, <1>2, FS_Surjection
<1> QED BY <1>1, <1>3, FS_CardinalityType DEF T

LEMMA LedgerFinite ==
    ASSUME IInv
    PROVE  /\ IsFiniteSet(Counted) /\ IsFiniteSet(Due) /\ IsFiniteSet(Counting)
           /\ IsFiniteSet(InHand) /\ IsFiniteSet(Known)
           /\ Cardinality(Counted) \in Nat /\ Cardinality(Due) \in Nat
           /\ Cardinality(Counting) \in Nat /\ Cardinality(InHand) \in Nat
           /\ Cardinality(Known) \in Nat
           /\ Cardinality(InHand) <= Cardinality(Counting)
           /\ cut \in Nat
<1>1. Len(sent) \in Nat /\ DOMAIN sent = 1 .. Len(sent) /\ queue \subseteq DOMAIN sent /\ cut \in Nat
  BY DEF IInv, TypeOK
<1>2. IsFiniteSet(DOMAIN sent)
  BY <1>1, FS_Interval
<1>3. IsFiniteSet(Due)
  BY <1>1, <1>2, FS_Subset DEF Due
<1>4. Counting \subseteq Handlers
  BY DEF Counting
<1>5. /\ IsFiniteSet(Counting) /\ IsFiniteSet(InHand)
      /\ Cardinality(InHand) <= Cardinality(Counting)
  BY <1>4, EventsOf DEF InHand
<1>6. IsFiniteSet(Counted)
  BY CountedFinite
<1>7. IsFiniteSet(Known)
  BY <1>3, <1>5, <1>6, FS_Union DEF Known
<1> QED BY <1>1, <1>3, <1>5, <1>6, <1>7, FS_CardinalityType

LEMMA LedgerNumbers ==
    ASSUME IInv, IInv'
    PROVE  /\ Cardinality(Due) \in Nat /\ Cardinality(Due') \in Nat
           /\ Cardinality(Counting) \in Nat /\ Cardinality(Counting') \in Nat
           /\ Cardinality(Known) \in Nat /\ Cardinality(Known') \in Nat
           /\ cut \in Nat /\ cut' \in Nat
<1>1. /\ Cardinality(Due) \in Nat /\ Cardinality(Counting) \in Nat /\ Cardinality(Known) \in Nat
      /\ cut \in Nat
  BY LedgerFinite
<1>2. (IsFiniteSet(Due) /\ IsFiniteSet(Counting) /\ IsFiniteSet(Known) /\ cut \in Nat)'
  BY LedgerFinite, PTL
<1>3. /\ Cardinality(Due') \in Nat /\ Cardinality(Counting') \in Nat /\ Cardinality(Known') \in Nat
  BY <1>2, FS_CardinalityType
<1> QED BY <1>1, <1>2, <1>3

\* Nothing that matters to the count happens.
LEMMA SameBudget ==
    ASSUME Counting' = Counting, \A h \in Counting : handler'[h].event = handler[h].event,
           Due' = Due, Counted' = Counted, cut' = cut
    PROVE  Budget' = Budget
<1>1. InHand' = InHand
  BY DEF InHand
<1>2. Known' = Known
  BY <1>1 DEF Known
<1> QED BY <1>2 DEF Budget

\* A way is used up: by a write of what it was for, or for nothing.
LEMMA OneWayLess ==
    ASSUME IInv, IInv', NEW h \in Handlers, sent' = sent, cut' = cut, Due' = Due,
           \A k \in Handlers \ {h} : ToWrite(handler'[k]) = ToWrite(handler[k])
                                     /\ handler'[k].event = handler[k].event,
           ToWrite(handler[h]), ~ToWrite(handler'[h]),
           Counted' \in {Counted, Counted \cup {handler[h].event}}
    PROVE  /\ Budget <= Budget'
           /\ handler[h].event \in Counted' => Budget + 1 <= Budget'
<1>1. \A k \in Handlers : ToWrite(handler[k])' <=> ToWrite(handler'[k])
  BY DEF ToWrite
<1>2. Counting' = Counting \ {h} /\ h \in Counting
  BY <1>1 DEF Counting
<1>3. IsFiniteSet(Counting)
  BY LedgerFinite
<1>4. Cardinality(Counting') = Cardinality(Counting) - 1
  BY <1>2, <1>3, FS_RemoveElement
<1>5. Known \subseteq Known' \cup {handler[h].event}
  <2>1. InHand \subseteq InHand' \cup {handler[h].event}
    BY <1>2 DEF InHand, Counting
  <2> QED BY <2>1 DEF Known
<1>6. IsFiniteSet(Known')
  <2>1. IsFiniteSet(Known)'
    BY LedgerFinite, PTL
  <2> QED BY <2>1
<1>7. Cardinality(Known) <= Cardinality(Known') + 1
  BY <1>5, <1>6, OneMore
<1>8. handler[h].event \in Counted' => Cardinality(Known) <= Cardinality(Known')
  <2> SUFFICES ASSUME handler[h].event \in Counted'
               PROVE  Cardinality(Known) <= Cardinality(Known')
    OBVIOUS
  <2>1. Known \subseteq Known'
    BY <1>5 DEF Known
  <2> QED BY <2>1, <1>6, FS_Subset
<1> QED BY <1>4, <1>7, <1>8, LedgerNumbers DEF Budget

\* A message refused, or done with, in the middle.
LEMMA FinishKeepsBudget ==
    ASSUME IInv, IInv', NEW h \in Handlers, Finish(h),
           UNCHANGED <<sent, queue, processed, recorded, cut>>
    PROVE  Budget <= Budget'
<1>1. /\ handler'[h] = Idle /\ \A k \in Handlers \ {h} : handler'[k] = handler[k]
      /\ handler \in [Handlers -> Handler]
  BY DEF Finish, IInv, TypeOK
<1>2. Due' = Due /\ Counted' = Counted /\ ~ToWrite(handler'[h])
  BY <1>1 DEF Due, Counted, ToWrite, Idle
<1>3. CASE ToWrite(handler[h])
  BY <1>1, <1>2, <1>3, OneWayLess
<1>4. CASE ~ToWrite(handler[h])
  <2>1. \A k \in Handlers : ToWrite(handler[k])' <=> ToWrite(handler[k])
    BY <1>1, <1>2, <1>4 DEF ToWrite
  <2>2. Counting' = Counting /\ \A k \in Counting : handler'[k].event = handler[k].event
    BY <1>1, <1>4, <2>1 DEF Counting
  <2>3. Budget' = Budget /\ Budget \in Int
    BY <1>2, <2>2, SameBudget, LedgerFinite DEF Budget
  <2> QED BY <2>3
<1> QED BY <1>3, <1>4

LEMMA DeliverKeepsBudget ==
    ASSUME IInv, IInv', NEW h \in Handlers, Deliver(h)
    PROVE  Budget <= Budget'
<1> DEFINE i == Min(queue)
           t == IF i \in processed THEN Idle
                ELSE [Idle EXCEPT !.pc = "load", !.event = i, !.owned = TRUE]
<1>1. /\ handler' = [handler EXCEPT ![h] = t] /\ queue' = queue \ {i}
      /\ UNCHANGED <<sent, processed, recorded, cut>> /\ handler[h].pc = "idle"
      /\ handler \in [Handlers -> Handler]
  BY DEF Deliver, At, record, trouble, IInv, TypeOK
<1>2. Min(queue) \in queue
  <2>1. queue \subseteq DOMAIN sent /\ DOMAIN sent = 1 .. Len(sent) /\ Len(sent) \in Nat
    BY DEF IInv, TypeOK
  <2>2. queue \in SUBSET Nat /\ queue # {}
    BY <2>1 DEF Deliver
  <2> QED BY <2>2, MinIsLeast
<1>3. t = Idle \/ (t.pc = "load" /\ t.event = i)
  BY DEF Idle
<1>4. i \in processed => t = Idle
  OBVIOUS
<1>5. i \notin processed => t.pc = "load" /\ t.event = i
  BY DEF Idle
<1> HIDE DEF i, t
<1>6. handler'[h] = t /\ \A k \in Handlers \ {h} : handler'[k] = handler[k]
  BY <1>1
<1>7. \A k \in Handlers \ {h} : ToWrite(handler[k])' <=> ToWrite(handler[k])
  BY <1>1, <1>6 DEF ToWrite
<1>8. ToWrite(handler[h])' <=> i \notin processed /\ IsAttempt(sent[i])
  BY <1>1, <1>4, <1>5, <1>6 DEF ToWrite, Idle
<1>9. ~ToWrite(handler[h])
  BY <1>1 DEF ToWrite
<1>10. Counted' = Counted
  BY <1>1 DEF Counted
<1>11. CASE i \notin processed /\ IsAttempt(sent[i])
  <2>1. Counting' = Counting \cup {h} /\ h \notin Counting
    BY <1>7, <1>8, <1>9, <1>11 DEF Counting
  <2>2. Due' = Due \ {i} /\ i \in Due
    BY <1>1, <1>2, <1>11 DEF Due, i
  <2>3. Known \subseteq Known'
    <3>1. InHand \subseteq InHand'
      BY <1>6, <2>1 DEF InHand, Counting
    <3>2. i \in InHand'
      BY <1>5, <1>6, <1>11, <2>1 DEF InHand
    <3> QED BY <1>10, <2>2, <3>1, <3>2 DEF Known
  <2>4. Cardinality(Known) <= Cardinality(Known')
    <3>1. IsFiniteSet(Known)'
      BY LedgerFinite, PTL
    <3> QED BY <2>3, <3>1, FS_Subset
  <2>5. /\ Cardinality(Counting') = Cardinality(Counting) + 1
        /\ Cardinality(Due') = Cardinality(Due) - 1
    BY <2>1, <2>2, LedgerFinite, FS_AddElement, FS_RemoveElement
  <2>6. cut' = cut
    BY <1>1
  <2> QED BY <2>4, <2>5, <2>6, LedgerNumbers DEF Budget
<1>12. CASE ~(i \notin processed /\ IsAttempt(sent[i]))
  <2>1. Counting' = Counting /\ \A k \in Counting : handler'[k].event = handler[k].event
    BY <1>6, <1>7, <1>8, <1>9, <1>12 DEF Counting
  <2>2. Due' = Due
    BY <1>1, <1>12 DEF Due
  <2>3. Budget' = Budget /\ Budget \in Int
    BY <1>1, <1>10, <2>1, <2>2, SameBudget, LedgerFinite DEF Budget
  <2> QED BY <2>3
<1> QED BY <1>11, <1>12

LEMMA MarkProcessedKeepsBudget ==
    ASSUME IInv, IInv', NEW h \in Handlers, MarkProcessed(h)
    PROVE  Budget <= Budget'
<1> DEFINE i == handler[h].event
<1>1. /\ processed' = processed \cup {i} /\ UNCHANGED <<sent, queue, recorded, cut>>
      /\ handler[h].pc = "mark" /\ handler \in [Handlers -> Handler]
  BY DEF MarkProcessed, At, record, trouble, IInv, TypeOK
<1>2. /\ handler'[h].pc \in {"idle", "ack"}
      /\ \A k \in Handlers \ {h} : handler'[k] = handler[k]
  BY <1>1 DEF MarkProcessed, Finish, Goto, Idle, Handler
<1>3. Counting' = Counting /\ \A k \in Counting : handler'[k].event = handler[k].event
  <2>1. \A k \in Handlers : ToWrite(handler[k])' <=> ToWrite(handler[k])
    BY <1>1, <1>2 DEF ToWrite
  <2>2. ~ToWrite(handler[h])
    BY <1>1 DEF ToWrite
  <2> QED BY <1>2, <2>1, <2>2 DEF Counting
<1>4. Counted' = Counted /\ InHand' = InHand
  BY <1>1, <1>3 DEF Counted, InHand
<1>5. Due' = Due \ {i}
  BY <1>1 DEF Due
<1> HIDE DEF i
<1>6. CASE i \in Due
  <2>1. Cardinality(Due') = Cardinality(Due) - 1
    BY <1>5, <1>6, LedgerFinite, FS_RemoveElement
  <2>2. Known \subseteq Known' \cup {i}
    BY <1>4, <1>5 DEF Known
  <2>3. IsFiniteSet(Known)'
    BY LedgerFinite, PTL
  <2>4. Cardinality(Known) <= Cardinality(Known') + 1
    BY <2>2, <2>3, OneMore
  <2>5. Cardinality(Counting') = Cardinality(Counting) /\ cut' = cut
    BY <1>1, <1>3
  <2> QED BY <2>1, <2>4, <2>5, LedgerNumbers DEF Budget
<1>7. CASE i \notin Due
  <2>1. Budget' = Budget /\ Budget \in Int
    BY <1>1, <1>3, <1>4, <1>5, <1>7, SameBudget, LedgerFinite DEF Budget
  <2> QED BY <2>1
<1> QED BY <1>6, <1>7

\* Steps of a handler that has nothing to write, before or after, and of no
\* handler at all.
LEMMA AsideKeepsBudget ==
    ASSUME IInv, UNCHANGED <<sent, queue, processed, recorded, cut>>,
           \A k \in Handlers : /\ handler'[k].pc \in {"load", "save"}
                                    <=> handler[k].pc \in {"load", "save"}
                               /\ handler[k].pc \in {"load", "save"} =>
                                    handler'[k].event = handler[k].event
    PROVE  Budget' = Budget /\ Budget <= Budget'
<1>1. \A k \in Handlers : ToWrite(handler[k])' <=> ToWrite(handler[k])
  BY DEF ToWrite
<1>2. Counting' = Counting /\ \A k \in Counting : handler'[k].event = handler[k].event
  BY <1>1 DEF Counting, ToWrite
<1>3. Due' = Due /\ Counted' = Counted
  BY DEF Due, Counted
<1>4. Budget' = Budget /\ Budget \in Int
  BY <1>2, <1>3, SameBudget, LedgerFinite DEF Budget
<1> QED BY <1>4

LEMMA LoadProgressKeepsBudget ==
    ASSUME IInv, IInv', NEW h \in Handlers, LoadProgress(h)
    PROVE  Budget <= Budget'
<1> DEFINE e == EventOf(h)
           row == RowOf(progress)
<1>1. /\ UNCHANGED <<sent, queue, processed, recorded, cut>>
      /\ handler[h].pc = "load" /\ handler[h] \in Handler /\ handler \in [Handlers -> Handler]
  BY DEF LoadProgress, At, deliveries, record, trouble, IInv, TypeOK
<1>2. /\ handler'[h].event = handler[h].event
      /\ handler'[h].pc = IF Changes(row, e) THEN "save" ELSE "cards"
      /\ \A k \in Handlers \ {h} : handler'[k] = handler[k]
  <2> DEFINE next == [handler[h] EXCEPT !.todo = ToSchedule(e)]
             t == IF Changes(row, e)
                  THEN [next EXCEPT !.pc = "save", !.copy = Apply(row, e),
                                    !.fresh = progress = None]
                  ELSE [next EXCEPT !.pc = "cards"]
  <2>1. handler' = [handler EXCEPT ![h] = t]
    BY DEF LoadProgress, RowOf
  <2>2. t.event = handler[h].event /\ t.pc = IF Changes(row, e) THEN "save" ELSE "cards"
    <3> HIDE DEF e, row
    <3>1. CASE Changes(row, e)
      BY <1>1, <3>1 DEF Handler
    <3>2. CASE ~Changes(row, e)
      BY <1>1, <3>2 DEF Handler
    <3> QED BY <3>1, <3>2
  <2> HIDE DEF t
  <2> QED BY <1>1, <2>1, <2>2
<1>3. ToWrite(handler[h]) => Changes(row, e)
  BY DEF ToWrite, EventOf, IsAttempt, Changes
<1> HIDE DEF e, row
<1>4. \A k \in Handlers : ToWrite(handler[k])' <=> ToWrite(handler[k])
  BY <1>1, <1>2, <1>3 DEF ToWrite
<1>5. Counting' = Counting /\ \A k \in Counting : handler'[k].event = handler[k].event
  BY <1>2, <1>4 DEF Counting
<1>6. Due' = Due /\ Counted' = Counted
  BY <1>1 DEF Due, Counted
<1>7. Budget' = Budget /\ Budget \in Int
  BY <1>1, <1>5, <1>6, SameBudget, LedgerFinite DEF Budget
<1> QED BY <1>7

LEMMA SaveProgressKeepsBudget ==
    ASSUME IInv, IInv', NEW h \in Handlers, SaveProgress(h)
    PROVE  /\ Budget <= Budget'
           /\ ~(handler[h].fresh /\ progress # None) => Budget + Extra(handler[h]) <= Budget'
<1>1. UNCHANGED <<sent, queue, processed, cut>>
  BY DEF SaveProgress, deliveries, trouble
<1>2. CASE handler[h].fresh /\ progress # None
  <2>1. Finish(h) /\ recorded' = recorded
    BY <1>2 DEF SaveProgress, record
  <2> QED BY <1>1, <1>2, <2>1, FinishKeepsBudget
<1>3. CASE ~(handler[h].fresh /\ progress # None)
  <2>1. /\ handler[h] \in Handler /\ handler[h].pc = "save"
        /\ recorded' = recorded \cup {handler[h].event}
    BY <1>3, SaveWrites
  <2>2. PICK hold \in [Handlers -> Handler] :
                 /\ hold[h] = Saved(handler[h])
                 /\ \A k \in Handlers \ {h} : hold[k] = handler[k]
                 /\ handler' = Outdate(hold)
    BY <1>3, SaveWrites
  <2>3. Saved(handler[h]).pc = "cards" /\ Saved(handler[h]).event = handler[h].event
    BY <2>1 DEF Saved, Handler
  <2>4. \A k \in Handlers : handler'[k].pc = hold[k].pc /\ handler'[k].event = hold[k].event
    BY <2>2, OutdateHandlers
  <2>5. ~ToWrite(handler'[h]) /\ \A k \in Handlers \ {h} :
          ToWrite(handler'[k]) = ToWrite(handler[k]) /\ handler'[k].event = handler[k].event
    <3>1. ~ToWrite(handler'[h])
      BY <2>2, <2>3, <2>4 DEF ToWrite
    <3>2. ASSUME NEW k \in Handlers \ {h}
          PROVE  ToWrite(handler'[k]) = ToWrite(handler[k]) /\ handler'[k].event = handler[k].event
      <4>1. handler'[k].pc = handler[k].pc /\ handler'[k].event = handler[k].event
        BY <2>2, <2>4
      <4> QED BY <4>1 DEF ToWrite
    <3> QED BY <3>1, <3>2
  <2>6. Due' = Due
    BY <1>1 DEF Due
  <2>7. CASE IsAttempt(EventOf(h))
    <3>1. ToWrite(handler[h]) /\ Extra(handler[h]) = 1
      BY <2>1, <2>7 DEF ToWrite, EventOf, Extra
    <3>2. Counted' = Counted \cup {handler[h].event}
      BY <1>1, <2>1, <2>7 DEF Counted, EventOf
    <3> QED BY <1>1, <2>5, <2>6, <3>1, <3>2, OneWayLess
  <2>8. CASE ~IsAttempt(EventOf(h))
    <3>1. Extra(handler[h]) = 0 /\ ~ToWrite(handler[h])
      BY <2>8 DEF Extra, EventOf, ToWrite
    <3>2. Counted' = Counted
      BY <1>1, <2>1, <2>8 DEF Counted, EventOf
    <3>3. \A k \in Handlers : ToWrite(handler[k])' <=> ToWrite(handler[k])
      BY <1>1, <2>5, <3>1 DEF ToWrite
    <3>4. Counting' = Counting /\ \A k \in Counting : handler'[k].event = handler[k].event
      BY <2>5, <3>1, <3>3 DEF Counting
    <3>5. Budget' = Budget /\ Budget \in Int
      BY <1>1, <2>6, <3>2, <3>4, SameBudget, LedgerFinite DEF Budget
    <3> QED BY <3>1, <3>5
  <2> QED BY <2>7, <2>8
<1> QED BY <1>2, <1>3

\* What is handed over again is paid for by the cut.
LEMMA RedeliverPays ==
    ASSUME IInv, IInv', Redeliver
    PROVE  /\ Due \subseteq Due' /\ IsFiniteSet(Due')
           /\ Cardinality(Due') - cut' <= Cardinality(Due) - cut
<1> DEFINE U == {h \in Owned : handler[h].event \notin processed}
           again == {handler[h].event : h \in U}
<1>1. U \subseteq Handlers
  BY DEF Owned
<1>2. /\ queue' = queue \cup {handler[h].event : h \in Owned}
      /\ cut' = cut + Cardinality(U) /\ sent' = sent /\ processed' = processed
  BY DEF Redeliver
<1>3. Due \subseteq Due' /\ Due' \subseteq Due \cup again
  BY <1>2 DEF Due
<1>4. /\ IsFiniteSet(again) /\ Cardinality(U) \in Nat /\ Cardinality(again) \in Nat
      /\ Cardinality(again) <= Cardinality(U)
  BY <1>1, EventsOf
<1> HIDE DEF U, again
<1>5. /\ IsFiniteSet(Due') /\ Cardinality(Due') \in Nat /\ Cardinality(Due) \in Nat
      /\ Cardinality(Due') <= Cardinality(Due) + Cardinality(again)
  BY <1>3, <1>4, LedgerFinite, UnionBound
<1> QED BY <1>2, <1>3, <1>4, <1>5, LedgerNumbers

LEMMA LoseChannelKeepsBudget ==
    ASSUME IInv, IInv', LoseChannel
    PROVE  Budget <= Budget'
<1>1. /\ Redeliver /\ sent' = sent /\ recorded' = recorded
      /\ handler' = [h \in Handlers |-> [handler[h] EXCEPT !.owned = FALSE]]
  BY DEF LoseChannel, Redeliver, record
<1>2. \A h \in Handlers : handler'[h].pc = handler[h].pc /\ handler'[h].event = handler[h].event
  BY <1>1 DEF IInv, TypeOK, Handler
<1>3. \A h \in Handlers : ToWrite(handler[h])' <=> ToWrite(handler[h])
  BY <1>1, <1>2 DEF ToWrite
<1>4. Counting' = Counting
  BY <1>3 DEF Counting
<1>5. InHand' = InHand
  BY <1>2, <1>4 DEF InHand, Counting
<1>6. Counted' = Counted
  BY <1>1 DEF Counted
<1>7. Known \subseteq Known'
  BY <1>1, <1>5, <1>6, RedeliverPays DEF Known
<1>8. IsFiniteSet(Known)'
  BY LedgerFinite, PTL
<1>9. Cardinality(Known) <= Cardinality(Known')
  BY <1>7, <1>8, FS_Subset
<1>10. Cardinality(Counting') = Cardinality(Counting)
  BY <1>4
<1>11. Cardinality(Due') - cut' <= Cardinality(Due) - cut
  BY <1>1, RedeliverPays
<1> QED BY <1>9, <1>10, <1>11, LedgerNumbers DEF Budget

LEMMA CrashKeepsBudget ==
    ASSUME IInv, IInv', Crash
    PROVE  Budget <= Budget'
<1>1. /\ Redeliver /\ sent' = sent /\ recorded' = recorded
      /\ handler' = [h \in Handlers |-> Idle]
  BY DEF Crash, Redeliver, record
<1>2. Counting' = {}
  BY <1>1 DEF Counting, ToWrite, Idle
<1>3. Counted' = Counted
  BY <1>1 DEF Counted
<1>4. Known \subseteq Known' \cup InHand
  BY <1>1, <1>3, RedeliverPays DEF Known
<1>5. IsFiniteSet(Known)'
  BY LedgerFinite, PTL
<1>6. /\ Cardinality(Known) <= Cardinality(Known') + Cardinality(InHand)
      /\ Cardinality(InHand) \in Nat /\ Cardinality(InHand) <= Cardinality(Counting)
  BY <1>4, <1>5, LedgerFinite, UnionBound
<1>7. Cardinality(Counting') = 0
  BY <1>2, FS_EmptySet
<1>8. Cardinality(Due') - cut' <= Cardinality(Due) - cut
  BY <1>1, RedeliverPays
<1> QED BY <1>6, <1>7, <1>8, LedgerNumbers DEF Budget

-----------------------------------------------------------------------------

\* The row and the copies, where the budget has not shrunk: those that were
\* there before are still within it.
LEMMA CopiesKeepCount ==
    ASSUME IInv, IInv', CountInv, sent' = sent, Budget <= Budget',
           AttemptsOf(progress)' <= Budget',
           \A k \in Handlers : handler'[k].pc = "save" =>
               \/ /\ handler[k].pc = "save" /\ handler[k].copy = handler'[k].copy
                  /\ handler[k].event = handler'[k].event
               \/ handler'[k].copy.attempts <= Budget + Extra(handler'[k]),
           \A q \in Requests : request'[q].pc = "save" =>
               \/ request[q].pc = "save" /\ request[q].copy = request'[q].copy
               \/ request'[q].copy.attempts <= Budget
    PROVE  CountInv'
<1>1. Budget \in Int /\ Budget' \in Int
  BY LedgerNumbers DEF Budget
<1>2. ASSUME NEW k \in Handlers, handler'[k].pc = "save"
      PROVE  handler'[k].copy.attempts <= Budget' + Extra(handler'[k])
  <2>1. handler'[k].copy.attempts \in Nat /\ Extra(handler'[k]) \in {0, 1}
    BY DEF IInv, TypeOK, Handler, Row, Extra
  <2>2. handler'[k].copy.attempts <= Budget + Extra(handler'[k])
    BY <1>2 DEF CountInv, At, Extra
  <2> QED BY <1>1, <2>1, <2>2
<1>3. \A k \in Handlers : Extra(handler[k])' = Extra(handler'[k])
  BY DEF Extra
<1>4. ASSUME NEW q \in Requests, request'[q].pc = "save"
      PROVE  request'[q].copy.attempts <= Budget'
  <2>1. request'[q].copy.attempts \in Nat
    BY DEF IInv, TypeOK, Request, Row
  <2>2. request'[q].copy.attempts <= Budget
    BY <1>4 DEF CountInv
  <2> QED BY <1>1, <2>1, <2>2
<1> QED BY <1>2, <1>3, <1>4 DEF CountInv, At

\* The row is not written.
LEMMA RowKeepsCount ==
    ASSUME IInv, IInv', CountInv, progress' = progress, Budget <= Budget'
    PROVE  AttemptsOf(progress)' <= Budget'
<1>1. Budget \in Int /\ Budget' \in Int /\ AttemptsOf(progress) \in Nat
  <2>1. Budget \in Int /\ Budget' \in Int
    BY LedgerNumbers DEF Budget
  <2>2. AttemptsOf(progress) \in Nat
    BY DEF AttemptsOf, IInv, TypeOK, Row
  <2> QED BY <2>1, <2>2
<1>2. AttemptsOf(progress) <= Budget /\ AttemptsOf(progress)' = AttemptsOf(progress)
  BY DEF CountInv, AttemptsOf
<1> QED BY <1>1, <1>2

LEMMA SaveProgressKeepsCount ==
    ASSUME IInv, IInv', CountInv, NEW h \in Handlers, SaveProgress(h)
    PROVE  CountInv'
<1>1. Budget <= Budget' /\ sent' = sent
  BY SaveProgressKeepsBudget DEF SaveProgress, deliveries
<1>2. CASE handler[h].fresh /\ progress # None
  <2>1. handler' = [handler EXCEPT ![h] = Idle] /\ UNCHANGED <<progress, request>>
    BY <1>2 DEF SaveProgress, Finish, record
  <2>2. \A k \in Handlers : handler'[k].pc = "save" => handler'[k] = handler[k]
    BY <2>1 DEF IInv, TypeOK, Idle
  <2>3. AttemptsOf(progress)' <= Budget'
    BY <1>1, <2>1, RowKeepsCount
  <2> QED BY <1>1, <2>1, <2>2, <2>3, CopiesKeepCount
<1>3. CASE ~(handler[h].fresh /\ progress # None)
  <2>1. /\ handler[h].pc = "save" /\ progress' = handler[h].copy /\ progress' \in Row
        /\ request' = Outdate(request)
    BY <1>3, SaveWrites
  <2>2. Budget + Extra(handler[h]) <= Budget'
    BY <1>3, SaveProgressKeepsBudget
  <2>3. Budget \in Int /\ Budget' \in Int /\ Extra(handler[h]) \in {0, 1} /\ progress'.attempts \in Nat
    BY <2>1, LedgerNumbers DEF Budget, Extra, Row
  <2>4. progress'.attempts <= Budget + Extra(handler[h])
    BY <2>1 DEF CountInv, At
  <2>5. AttemptsOf(progress)' = progress'.attempts
    BY <2>1, LearningAssumption DEF AttemptsOf
  <2>6. AttemptsOf(progress)' <= Budget'
    BY <2>2, <2>3, <2>4, <2>5
  <2>7. PICK hold \in [Handlers -> Handler] :
                 /\ hold[h] = Saved(handler[h])
                 /\ \A k \in Handlers \ {h} : hold[k] = handler[k]
                 /\ handler' = Outdate(hold)
    BY <1>3, SaveWrites
  <2>8. hold[h].pc = "cards"
    BY <2>7 DEF Saved, IInv, TypeOK, Handler
  <2>9. \A k \in Handlers : handler'[k].pc = "save" =>
            /\ handler[k].pc = "save" /\ handler[k].copy = handler'[k].copy
            /\ handler[k].event = handler'[k].event
    BY <2>7, <2>8, OutdateHandlers
  <2>10. \A q \in Requests : request'[q].pc = "save" =>
            request[q].pc = "save" /\ request[q].copy = request'[q].copy
    BY <2>1, OutdateRequests DEF IInv, TypeOK
  <2> QED BY <1>1, <2>6, <2>9, <2>10, CopiesKeepCount
<1> QED BY <1>2, <1>3

LEMMA LoadProgressKeepsCount ==
    ASSUME IInv, IInv', CountInv, NEW h \in Handlers, LoadProgress(h)
    PROVE  CountInv'
<1> DEFINE e == EventOf(h)
           row == RowOf(progress)
           next == [handler[h] EXCEPT !.todo = ToSchedule(e)]
           t == IF Changes(row, e)
                THEN [next EXCEPT !.pc = "save", !.copy = Apply(row, e),
                                  !.fresh = progress = None]
                ELSE [next EXCEPT !.pc = "cards"]
<1>1. /\ handler[h] \in Handler /\ handler \in [Handlers -> Handler] /\ row \in Row
      /\ e \in Event
  BY NewIsRow, EventOfHandler DEF IInv, TypeOK, RowOf, LoadProgress, At
<1>2. /\ handler' = [handler EXCEPT ![h] = t] /\ UNCHANGED <<sent, progress, request>>
  BY DEF LoadProgress, record, deliveries, RowOf
<1>3. t.pc = "save" => /\ t.event = handler[h].event /\ t.copy = Apply(row, e)
  <2> HIDE DEF e, row
  <2>1. CASE Changes(row, e)
    BY <1>1, <2>1 DEF Handler
  <2>2. CASE ~Changes(row, e)
    BY <1>1, <2>2 DEF Handler
  <2> QED BY <2>1, <2>2
<1>4. Apply(row, e).attempts <= Budget + Extra(handler[h])
  <2>1. row.attempts = AttemptsOf(progress) /\ row.attempts \in Nat
    <3>1. row.attempts = AttemptsOf(progress)
      BY DEF RowOf, AttemptsOf, NewProgress
    <3> HIDE DEF row
    <3> QED BY <1>1, <3>1 DEF Row
  <2>2. row.attempts <= Budget /\ Budget \in Int
    BY <2>1, LedgerNumbers DEF CountInv, Budget
  <2> HIDE DEF row
  <2>3. CASE IsAttempt(e)
    <3>1. Apply(row, e).attempts = row.attempts + 1
      BY <1>1, <2>3, ApplyAttempt
    <3>2. Extra(handler[h]) = 1
      BY <2>3 DEF Extra, EventOf
    <3> QED BY <2>1, <2>2, <3>1, <3>2
  <2>4. CASE ~IsAttempt(e)
    <3>1. Apply(row, e).attempts = row.attempts
      BY <1>1, <2>4, ApplyOther
    <3>2. Extra(handler[h]) = 0
      BY <2>4 DEF Extra, EventOf
    <3> QED BY <2>1, <2>2, <3>1, <3>2
  <2> QED BY <2>3, <2>4
<1> HIDE DEF t, e, row
<1>5. \A k \in Handlers : handler'[k].pc = "save" =>
         \/ handler[k] = handler'[k]
         \/ handler'[k].copy.attempts <= Budget + Extra(handler'[k])
  <2>1. t.pc = "save" => t.copy.attempts <= Budget + Extra(t)
    BY <1>3, <1>4 DEF Extra
  <2> QED BY <1>1, <1>2, <2>1
<1>6. Budget <= Budget'
  BY LoadProgressKeepsBudget
<1>7. AttemptsOf(progress)' <= Budget'
  BY <1>2, <1>6, RowKeepsCount
<1> QED BY <1>2, <1>5, <1>6, <1>7, CopiesKeepCount

LEMMA OnRequestKeepsCount ==
    ASSUME IInv, IInv', CountInv, NEW q \in Requests, OnRequest(q)
    PROVE  CountInv'
<1>1. /\ UNCHANGED <<sent, queue, processed, recorded, cut>>
      /\ handler' \in {handler, Outdate(handler)} /\ handler \in [Handlers -> Handler]
  BY DEF OnRequest, LoadForTeacher, SaveForTeacher, deliveries, record, trouble, IInv, TypeOK
<1>2. \A k \in Handlers : /\ handler'[k].pc = handler[k].pc /\ handler'[k].event = handler[k].event
                          /\ handler'[k].copy = handler[k].copy
  BY <1>1, OutdateHandlers
<1>3. Budget <= Budget' /\ Budget \in Int /\ Budget' = Budget
  BY <1>1, <1>2, AsideKeepsBudget, LedgerNumbers DEF Budget
<1>4. CASE LoadForTeacher(q)
  <2>1. PICK row \in TeacherRows(progress) :
          request' = [request EXCEPT ![q] = [NoRequest EXCEPT !.pc = "save", !.copy = row]]
    BY <1>4 DEF LoadForTeacher, TeacherRows
  <2>2. progress \in Row /\ progress' = progress
    BY <1>4 DEF LoadForTeacher, IInv, TypeOK, record
  <2>3. row.attempts = progress.attempts
    BY <2>1, <2>2, TeacherKeepsAttempts
  <2>4. progress.attempts <= Budget
    BY <2>2, LearningAssumption DEF CountInv, AttemptsOf
  <2>5. request'[q].copy = row /\ \A k \in Requests \ {q} : request'[k] = request[k]
    BY <2>1 DEF IInv, TypeOK, NoRequest
  <2>6. AttemptsOf(progress)' <= Budget'
    BY <1>3, <2>2, RowKeepsCount
  <2>7. \A k \in Requests : request'[k].pc = "save" =>
            \/ request[k].pc = "save" /\ request[k].copy = request'[k].copy
            \/ request'[k].copy.attempts <= Budget
    BY <2>3, <2>4, <2>5
  <2> QED BY <1>1, <1>2, <1>3, <2>6, <2>7, CopiesKeepCount
<1>5. CASE SaveForTeacher(q)
  <2> DEFINE ask == [request EXCEPT ![q] = NoRequest]
  <2>1. /\ request[q].pc = "save" /\ progress' = request[q].copy /\ request' = Outdate(ask)
        /\ request[q].copy \in Row
    BY <1>5 DEF SaveForTeacher, WriteRow, IInv, TypeOK, Request
  <2>2. /\ ask \in [Requests -> Request] /\ ask[q].pc = "idle"
        /\ \A k \in Requests \ {q} : ask[k] = request[k]
    BY NewIsRow DEF IInv, TypeOK, NoRequest, Request
  <2> HIDE DEF ask
  <2>3. \A k \in Requests : request'[k].pc = "save" =>
            request[k].pc = "save" /\ request[k].copy = request'[k].copy
    BY <2>1, <2>2, OutdateRequests
  <2>4. AttemptsOf(progress)' = request[q].copy.attempts
    BY <2>1, LearningAssumption DEF AttemptsOf
  <2>5. AttemptsOf(progress)' <= Budget'
    BY <1>3, <2>1, <2>4 DEF CountInv
  <2> QED BY <1>1, <1>2, <1>3, <2>3, <2>5, CopiesKeepCount
<1> QED BY <1>4, <1>5 DEF OnRequest

\* The steps that neither make a copy nor write one.
LEMMA OtherStepsKeepCount ==
    ASSUME IInv, IInv', CountInv,
           \/ Crash \/ LoseChannel \/ UNCHANGED vars
           \/ \E h \in Handlers : \/ OnCard(h) \/ Deliver(h) \/ MarkProcessed(h)
                                  \/ Ack(h) \/ CallFails(h)
    PROVE  CountInv'
<1>1. handler \in [Handlers -> Handler]
  BY DEF IInv, TypeOK
<1>2. UNCHANGED <<sent, progress>>
  BY DEF Crash, LoseChannel, Redeliver, OnCard, Deliver, MarkProcessed, Ack, CallFails, NextCard,
     TakeDay, GiveBack, FailOpen, InsertCard, vars, record, deliveries
<1>3. \A q \in Requests : request'[q].pc = "save" => request'[q] = request[q]
  <2>1. CASE Crash
    BY <2>1 DEF Crash, NoRequest
  <2>2. CASE ~Crash
    BY <2>2 DEF LoseChannel, OnCard, Deliver, MarkProcessed, Ack, CallFails, NextCard,
       TakeDay, GiveBack, FailOpen, InsertCard, vars
  <2> QED BY <2>1, <2>2
<1>4. /\ Budget <= Budget'
      /\ \A k \in Handlers : handler'[k].pc = "save" =>
            /\ handler[k].pc = "save" /\ handler[k].copy = handler'[k].copy
            /\ handler[k].event = handler'[k].event
  <2>1. CASE Crash
    BY <2>1, CrashKeepsBudget DEF Crash, Idle
  <2>2. CASE LoseChannel
    BY <1>1, <2>2, LoseChannelKeepsBudget DEF LoseChannel, Handler
  <2>3. CASE UNCHANGED vars
    BY <2>3, AsideKeepsBudget DEF vars, deliveries, record, trouble
  <2>4. ASSUME NEW h \in Handlers, NextCard(h) \/ TakeDay(h) \/ GiveBack(h) \/ FailOpen(h)
        PROVE  /\ UNCHANGED <<sent, queue, processed, recorded, cut>>
               /\ \A k \in Handlers \ {h} : handler'[k] = handler[k]
               /\ handler[h].pc \notin {"load", "save"}
               /\ handler'[h].pc \notin {"load", "save"}
    <3>1. UNCHANGED <<sent, queue, processed, recorded, cut>>
      BY <2>4 DEF NextCard, TakeDay, GiveBack, FailOpen, deliveries, record, trouble
    <3>2. \A k \in Handlers \ {h} : handler'[k] = handler[k]
      BY <1>1, <2>4 DEF NextCard, TakeDay, GiveBack, FailOpen, Goto
    <3>3. handler[h].pc \notin {"load", "save"}
      BY <2>4 DEF NextCard, TakeDay, GiveBack, FailOpen, At
    <3>4. handler'[h].pc \notin {"load", "save"}
      <4>1. CASE NextCard(h)
        BY <1>1, <4>1 DEF NextCard, Goto, At, Handler
      <4>2. CASE TakeDay(h)
        BY <1>1, <4>2 DEF TakeDay, Handler
      <4>3. CASE GiveBack(h) \/ FailOpen(h)
        BY <1>1, <4>3 DEF GiveBack, FailOpen, Goto, Handler
      <4> QED BY <2>4, <4>1, <4>2, <4>3
    <3> QED BY <3>1, <3>2, <3>3, <3>4
  <2>5. ASSUME NEW h \in Handlers, InsertCard(h)
        PROVE  /\ Budget <= Budget'
               /\ \A k \in Handlers : handler'[k].pc = "save" => handler'[k] = handler[k]
    <3>1. UNCHANGED <<sent, queue, processed, recorded, cut>> /\ handler[h].pc = "insert"
      BY <2>5 DEF InsertCard, At, deliveries, record, trouble
    <3>2. /\ handler'[h].pc \in {"idle", "cards"}
          /\ \A k \in Handlers \ {h} : handler'[k] = handler[k]
      BY <1>1, <2>5 DEF InsertCard, Finish, Idle, Handler
    <3>3. \A k \in Handlers : /\ handler'[k].pc \in {"load", "save"}
                                    <=> handler[k].pc \in {"load", "save"}
                              /\ handler[k].pc \in {"load", "save"} =>
                                    handler'[k].event = handler[k].event
      BY <3>1, <3>2
    <3>4. Budget <= Budget'
      BY <3>1, <3>3, AsideKeepsBudget
    <3>5. \A k \in Handlers : handler'[k].pc = "save" => handler'[k] = handler[k]
      BY <3>2
    <3> QED BY <3>4, <3>5
  <2>6. ASSUME NEW h \in Handlers, Deliver(h)
        PROVE  /\ Budget <= Budget'
               /\ \A k \in Handlers : handler'[k].pc = "save" => handler'[k] = handler[k]
    BY <1>1, <2>6, DeliverKeepsBudget DEF Deliver, Idle
  <2>7. ASSUME NEW h \in Handlers, MarkProcessed(h)
        PROVE  /\ Budget <= Budget'
               /\ \A k \in Handlers : handler'[k].pc = "save" => handler'[k] = handler[k]
    <3>1. Budget <= Budget'
      BY <2>7, MarkProcessedKeepsBudget
    <3>2. \A k \in Handlers : handler'[k].pc = "save" => handler'[k] = handler[k]
      BY <1>1, <2>7 DEF MarkProcessed, Goto, Finish, Idle, Handler
    <3> QED BY <3>1, <3>2
  <2>8. ASSUME NEW h \in Handlers, Ack(h) \/ CallFails(h)
        PROVE  /\ Budget <= Budget'
               /\ \A k \in Handlers : handler'[k].pc = "save" => handler'[k] = handler[k]
    <3>1. Finish(h) /\ UNCHANGED <<sent, queue, processed, recorded, cut>>
      BY <2>8 DEF Ack, CallFails, deliveries, record, trouble
    <3>2. \A k \in Handlers : handler'[k].pc = "save" => handler'[k] = handler[k]
      BY <1>1, <3>1 DEF Finish, Idle
    <3> QED BY <3>1, <3>2, FinishKeepsBudget
  <2>9. ASSUME NEW h \in Handlers, NextCard(h) \/ TakeDay(h) \/ GiveBack(h) \/ FailOpen(h)
        PROVE  /\ Budget <= Budget'
               /\ \A k \in Handlers : handler'[k].pc = "save" => handler'[k] = handler[k]
    <3>1. /\ UNCHANGED <<sent, queue, processed, recorded, cut>>
          /\ \A k \in Handlers \ {h} : handler'[k] = handler[k]
          /\ handler[h].pc \notin {"load", "save"}
          /\ handler'[h].pc \notin {"load", "save"}
      BY <2>4, <2>9
    <3>2. \A k \in Handlers : /\ handler'[k].pc \in {"load", "save"}
                                    <=> handler[k].pc \in {"load", "save"}
                              /\ handler[k].pc \in {"load", "save"} =>
                                    handler'[k].event = handler[k].event
      BY <3>1
    <3>3. Budget <= Budget'
      BY <3>1, <3>2, AsideKeepsBudget
    <3>4. \A k \in Handlers : handler'[k].pc = "save" => handler'[k] = handler[k]
      BY <3>1
    <3> QED BY <3>3, <3>4
  <2> QED BY <2>1, <2>2, <2>3, <2>5, <2>6, <2>7, <2>8, <2>9 DEF OnCard
<1>5. AttemptsOf(progress)' <= Budget'
  BY <1>2, <1>4, RowKeepsCount
<1> QED BY <1>2, <1>3, <1>4, <1>5, CopiesKeepCount

LEMMA InitCountInv == Init => CountInv
<1> SUFFICES ASSUME Init PROVE CountInv
  OBVIOUS
<1>1. IInv
  BY InitIInv
<1>2. Counting = {} /\ AttemptsOf(progress) = 0 /\ cut = 0 /\ Due \subseteq Known
  BY DEF Init, Counting, ToWrite, Idle, AttemptsOf, Known
<1>3. Cardinality(Counting) = 0
  BY <1>2, FS_EmptySet
<1>4. Cardinality(Due) <= Cardinality(Known)
  BY <1>1, <1>2, LedgerFinite, FS_Subset
<1>5. AttemptsOf(progress) <= Budget
  BY <1>1, <1>2, <1>3, <1>4, LedgerFinite DEF Budget
<1> QED BY <1>5 DEF CountInv, Init, At, Idle, NoRequest

LEMMA AlwaysCountInv == Spec => []CountInv
<1>1. IInv /\ CountInv /\ [Next]_vars => CountInv'
  <2> SUFFICES ASSUME IInv, CountInv, [Next]_vars PROVE CountInv'
    OBVIOUS
  <2>1. IInv'
    BY NextIInv
  <2> QED BY <2>1, SaveProgressKeepsCount, LoadProgressKeepsCount, OnRequestKeepsCount,
             OtherStepsKeepCount DEF Next, OnEvent
<1> QED BY <1>1, InitCountInv, AlwaysIInv, PTL DEF Spec

\* No more ways to be counted than attempts recorded, but for those made by
\* being cut off.
LEMMA BudgetBound ==
    ASSUME IInv
    PROVE  Budget <= Cardinality(Counted) + cut
<1>1. /\ IsFiniteSet(Counted \cup Due)
      /\ Cardinality(Counted \cup Due) <= Cardinality(Counted) + Cardinality(Due)
      /\ Cardinality(Counted \cup Due) \in Nat
  BY LedgerFinite, UnionBound
<1>2. Cardinality(Known) <= Cardinality(Counted \cup Due) + Cardinality(InHand)
  BY <1>1, LedgerFinite, UnionBound DEF Known
<1> QED BY <1>1, <1>2, LedgerFinite DEF Budget

\* The number of attempts is explained: it exceeds the attempts recorded only
\* by handlers cut off before they had marked their event, however often
\* messages come again, meet each other or are refused, and it falls short
\* only once a stale row has been written.
THEOREM TheCountIsExplained == Spec => []CountExplained
<1>1. ASSUME IInv, CopyInv, AttemptInv, CountInv
      PROVE  CountExplained
  <2>1. AttemptsOf(progress) \in Nat
    BY <1>1 DEF AttemptsOf, IInv, TypeOK, Row
  <2>2. AttemptsOf(progress) <= Cardinality(Counted) + cut
    <3>1. AttemptsOf(progress) <= Budget /\ Budget <= Cardinality(Counted) + cut
      BY <1>1, BudgetBound DEF CountInv
    <3>2. Budget \in Int /\ Cardinality(Counted) \in Nat /\ cut \in Nat
      BY <1>1, LedgerFinite DEF Budget
    <3> QED BY <2>1, <3>1, <3>2
  <2>3. AttemptsOf(progress) = RowOf(progress).attempts
    BY DEF AttemptsOf, RowOf, NewProgress
  <2>4. ~overwritten => Cardinality(Counted) <= AttemptsOf(progress)
    BY <1>1, <2>3 DEF AttemptInv, EachCounts
  <2> QED BY <2>2, <2>4 DEF CountExplained
<1> QED BY <1>1, AlwaysIInv, AlwaysCopyInv, AlwaysAttemptInv, AlwaysCountInv, PTL
==============================================================================

------------------------ MODULE AttemptReview_proofs ------------------------
(***************************************************************************)
(* Proofs about AttemptReview for any slots, handlers in flight, teachers, *)
(* model calls and bounds.                                                 *)
(*                                                                         *)
(* Neither a row that agrees with itself nor events that follow their save *)
(* is an invariant of one write: a write stores a copy loaded long before. *)
(* The invariant that is inductive therefore speaks of every copy in       *)
(* flight as it speaks of the row.                                         *)
(*                                                                         *)
(* The second half is about one request at a time, the premise under which *)
(* a copy is the row it was loaded from: which verdict stands, what the    *)
(* term may close, and how often the learner's memory is rated.            *)
(***************************************************************************)
EXTENDS AttemptReview, TLAPS

(***************************************************************************)
(* A row the handlers may load, change and write back.  Beyond WellFormed: *)
(* graded work in progress has never been judged, and the checks made fit  *)
(* the budget.                                                             *)
(***************************************************************************)
Sound(att) ==
    /\ WellFormed(att)
    /\ att.status = "IN_PROGRESS" /\ ~att.practice => att.verdict = Null /\ att.score = Null
    /\ MaxChecks # Null => att.rechecks + 1 <= MaxChecks

(***************************************************************************)
(* The judgements a call may speak of: those stored, and those it is about *)
(* to store.                                                               *)
(***************************************************************************)
Unsaved == {"existing", "draft", "save", "save_if_in_review"}
Speaks(call) == stored \cup IF call.pc \in Unsaved THEN Judgements(call.att) ELSE {}

OfVerdict(e) == e.type \notin {"completed_unscored", "routed_for_review"}
Tells(events, judgements) ==
    \A i \in 1..Len(events) : OfVerdict(events[i]) => events[i].subject \in judgements
Traced(call) == Tells(call.events, Speaks(call))

(***************************************************************************)
(* What a call relies on when it takes its next step.                      *)
(***************************************************************************)
Placed(call) ==
    /\ call.pc # "idle" => call.op \in Op /\ call.att \in Row /\ Sound(call.att)
    /\ call.pc \in {"stored", "existing", "draft"}
         => call.who \in AiCalls /\ asked[call.who] \in Answer
    /\ call.pc = "draft"
         => call.draft \in Draft /\ (~call.fresh => drafts[CapOf(call)] \in Draft)
    /\ call.pc = "review_read" => CanGiveUpReview(call.att)
    /\ call.pc \in {"dispute_read", "mark"}
         => ReviewedByAi(call.att) /\ call.att.verdict \in stored
    /\ call.pc = "mark" => drafts["review_direct"] \in Draft
    /\ call.pc = "label"
         => call.draft \in Draft /\ drafts[TeacherDraftCapability(call.att)] \in Draft
    /\ call.pc = "publish" => call.events # <<>>

IInv ==
    /\ TypeOK
    /\ Sound(row)
    /\ Judgements(row) \subseteq stored
    /\ \A c \in Calls : Placed(calls[c]) /\ Traced(calls[c])
    /\ SavedBeforePublished

-----------------------------------------------------------------------------
(* The entity: what each method makes of a sound row.                      *)

LEMMA NewAttemptSound ==
    ASSUME NEW practice \in BOOLEAN, NEW school \in BOOLEAN
    PROVE  LET att == NewAttempt(practice, school)
           IN  att \in Row /\ Sound(att) /\ Judgements(att) = {}
  <1> DEFINE att == NewAttempt(practice, school)
  <1>1. att \in Row
    BY DEF NewAttempt, Row, Status
  <1>2. Sound(att)
    BY ReviewAssumption DEF NewAttempt, Sound, WellFormed
  <1>3. Judgements(att) = {}
    BY DEF NewAttempt, Judgements
  <1> QED  BY <1>1, <1>2, <1>3

LEMMA ReopenSound ==
    ASSUME NEW att \in Row, Sound(att), CanReopenForRecheck(att, MaxChecks)
    PROVE  /\ ReopenForRecheck(att) \in Row
           /\ Sound(ReopenForRecheck(att))
           /\ ReopenForRecheck(att).status = "IN_PROGRESS"
  <1>1. att.rechecks + 1 \in Nat /\ "IN_PROGRESS" \in Status
    BY DEF Row, Status
  <1>2. ReopenForRecheck(att) \in Row
    BY <1>1 DEF ReopenForRecheck, Row
  <1>3. MaxChecks # Null => MaxChecks \in Nat /\ att.rechecks + 2 <= MaxChecks
    BY ReviewAssumption DEF CanReopenForRecheck
  <1>4. Sound(ReopenForRecheck(att))
    BY <1>1, <1>3 DEF ReopenForRecheck, CanReopenForRecheck, Sound, WellFormed, Row
  <1> QED  BY <1>2, <1>4 DEF ReopenForRecheck, Row

\* Work handed in is sound up to its status.
LEMMA SubmitKeeps ==
    ASSUME NEW att \in Row, Sound(att), CanSubmit(att)
    PROVE  LET work == Submit(att)
           IN  /\ work \in Row /\ work.status = "SUBMITTED"
               /\ Sound([work EXCEPT !.status = "IN_PROGRESS"])
  <1>1. att.answer + 1 \in Nat /\ "SUBMITTED" \in Status
    BY DEF Row, Status
  <1>2. Submit(att) \in Row
    BY <1>1 DEF Submit, Row
  <1>3. Sound([Submit(att) EXCEPT !.status = "IN_PROGRESS"])
    BY <1>1 DEF Submit, CanSubmit, Sound, WellFormed, Row
  <1> QED  BY <1>2, <1>3 DEF Submit, Row

LEMMA ScoreSound ==
    ASSUME NEW att \in Row, Sound([att EXCEPT !.status = "IN_PROGRESS"])
    PROVE  /\ Score(att) \in Row
           /\ Sound(Score(att))
           /\ MachineVerdict(att) \in Verdict
           /\ MachineVerdict(att) \in Judgements(Score(att))
  <1>1. MachineVerdict(att) \in Verdict /\ "SCORED" \in Status
    BY DEF MachineVerdict, Verdict, Judges, Row, Status
  <1>2. Score(att) \in Row
    BY <1>1 DEF Score, Row
  <1>3. MachineVerdict(att) # Null /\ MachineVerdict(att).outcome = "approved"
    BY <1>1, NullAssumption DEF MachineVerdict
  <1>4. Sound(Score(att))
    BY <1>3 DEF Score, Sound, WellFormed, Row
  <1>5. Score(att).score = MachineVerdict(att)
    BY DEF Score, Row
  <1> QED  BY <1>1, <1>2, <1>3, <1>4, <1>5 DEF Judgements

LEMMA PartialCheckSound ==
    ASSUME NEW att \in Row, Sound([att EXCEPT !.status = "IN_PROGRESS"])
    PROVE  RecordPartialCheck(att) \in Row /\ Sound(RecordPartialCheck(att))
  BY DEF RecordPartialCheck, Row, Status

LEMMA BackfillKeeps ==
    ASSUME NEW att \in Row, NEW found \in BOOLEAN,
           Sound([att EXCEPT !.status = "IN_PROGRESS"])
    PROVE  LET work == BackfillReviewContext(att, found)
           IN  work \in Row /\ Sound([work EXCEPT !.status = "IN_PROGRESS"])
  BY DEF BackfillReviewContext, Sound, WellFormed, Row

LEMMA RouteSound ==
    ASSUME NEW att \in Row, Sound([att EXCEPT !.status = "IN_PROGRESS"]),
           NEW policy \in Policy \cup {Null}, CanRoute(att, policy)
    PROVE  RouteForReview(att, policy) \in Row /\ Sound(RouteForReview(att, policy))
  <1>1. "ROUTED_FOR_REVIEW" \in Status
    BY DEF Status
  <1>2. RouteForReview(att, policy) \in Row
    BY <1>1 DEF RouteForReview, Row
  <1>3. Sound(RouteForReview(att, policy))
    BY DEF RouteForReview, CanRoute, Sound, WellFormed, Row
  <1> QED  BY <1>2, <1>3

LEMMA CloseSound ==
    ASSUME NEW att \in Row, Sound([att EXCEPT !.status = "IN_PROGRESS"]), ~att.school
    PROVE  CloseWithoutReviewer(att) \in Row /\ Sound(CloseWithoutReviewer(att))
  <1>1. "NO_REVIEWER" \in Status
    BY DEF Status
  <1>2. CloseWithoutReviewer(att) \in Row
    BY <1>1 DEF CloseWithoutReviewer, Row
  <1>3. Sound(CloseWithoutReviewer(att))
    BY DEF CloseWithoutReviewer, Sound, WellFormed, Row
  <1> QED  BY <1>2, <1>3

LEMMA GiveUpSound ==
    ASSUME NEW att \in Row, Sound(att), CanGiveUpReview(att)
    PROVE  /\ GiveUpReview(att) \in Row /\ Sound(GiveUpReview(att))
           /\ Judgements(GiveUpReview(att)) = Judgements(att)
  <1>1. "NO_REVIEWER" \in Status
    BY DEF Status
  <1>2. GiveUpReview(att) \in Row
    BY <1>1 DEF GiveUpReview, Row
  <1>3. Sound(GiveUpReview(att))
    BY DEF GiveUpReview, CanGiveUpReview, Sound, WellFormed, Row
  <1>4. Judgements(GiveUpReview(att)) = Judgements(att)
    BY DEF GiveUpReview, Judgements, Row
  <1> QED  BY <1>2, <1>3, <1>4

LEMMA AbandonSound ==
    ASSUME NEW att \in Row, Sound(att)
    PROVE  Abandon(att) \in Row /\ Sound(Abandon(att))
  <1>1. "ABANDONED" \in Status
    BY DEF Status
  <1>2. Abandon(att) \in Row
    BY <1>1 DEF Abandon, Row
  <1>3. Sound(Abandon(att))
    BY DEF Abandon, Sound, WellFormed, Row
  <1> QED  BY <1>2, <1>3

LEMMA RevealSound ==
    ASSUME NEW att \in Row, Sound(att)
    PROVE  RevealAnswers(att) \in Row /\ Sound(RevealAnswers(att))
  BY DEF RevealAnswers, Sound, WellFormed, Row

LEMMA ClaimSound ==
    ASSUME NEW att \in Row, Sound(att), NEW t \in Teachers, NEW at \in Nat
    PROVE  /\ ClaimForReview(att, t, at) \in Row /\ Sound(ClaimForReview(att, t, at))
           /\ ReleaseReview(att) \in Row /\ Sound(ReleaseReview(att))
  <1>1. [by |-> t, at |-> at] \in Claim
    BY DEF Claim
  <1>2. ClaimForReview(att, t, at) \in Row /\ ReleaseReview(att) \in Row
    BY <1>1 DEF ClaimForReview, ReleaseReview, Row
  <1>3. Sound(ClaimForReview(att, t, at))
    BY DEF ClaimForReview, Sound, WellFormed, Row
  <1>4. Sound(ReleaseReview(att))
    BY DEF ReleaseReview, Sound, WellFormed, Row
  <1> QED  BY <1>2, <1>3, <1>4

LEMMA DeliverSound ==
    ASSUME NEW att \in Row, Sound(att), NEW v \in Verdict
    PROVE  /\ Deliver(att, v) \in Row /\ Sound(Deliver(att, v))
           /\ v \in Judgements(Deliver(att, v))
  <1>1. "RETURNED" \in Status /\ "SCORED" \in Status /\ v # Null
    BY NullAssumption DEF Status
  <1>2. v.outcome = "returned" \/ v.outcome = "approved"
    BY DEF Verdict
  <1>3. Deliver(att, v) \in Row
    BY <1>1 DEF Deliver, Row
  <1>4. Sound(Deliver(att, v))
    BY <1>1, <1>2 DEF Deliver, Sound, WellFormed, Row
  <1>5. v \in Judgements(Deliver(att, v))
    BY <1>1 DEF Deliver, Judgements, Row
  <1> QED  BY <1>3, <1>4, <1>5

LEMMA ProvisionalSound ==
    ASSUME NEW att \in Row, Sound(att), NEW v \in Verdict, v.by \in AiCalls, att.policy # Null
    PROVE  KeepProvisional(att, v) \in Row /\ Sound(KeepProvisional(att, v))
  <1>1. KeepProvisional(att, v) \in Row
    BY DEF KeepProvisional, Row
  <1>2. Sound(KeepProvisional(att, v))
    BY DEF KeepProvisional, Sound, WellFormed, Row
  <1> QED  BY <1>1, <1>2

-----------------------------------------------------------------------------
(* What the events of a method speak of.                                   *)

LEMMA AnnounceType ==
    ASSUME NEW type \in EventType, NEW subject \in Subject, NEW revises \in BOOLEAN
    PROVE  /\ Announce(type, subject) \in Event
           /\ [type |-> type, subject |-> subject, revises |-> revises] \in Event
  BY DEF Announce, Event

LEMMA HandInEvents ==
    ASSUME NEW att \in Row, NEW judgements
    PROVE  /\ RouteEvents(att) \in Seq(Event) /\ Tells(RouteEvents(att), judgements)
           /\ CloseEvents(att) \in Seq(Event) /\ Tells(CloseEvents(att), judgements)
  <1>1. HandIn(att.answer) \in Subject
    BY DEF HandIn, Subject, Row
  <1>2. /\ Announce("completed_unscored", HandIn(att.answer)) \in Event
        /\ Announce("routed_for_review", HandIn(att.answer)) \in Event
    BY <1>1, AnnounceType DEF EventType
  <1>3. RouteEvents(att) \in Seq(Event) /\ CloseEvents(att) \in Seq(Event)
    BY <1>2 DEF RouteEvents, CloseEvents
  <1>4. Tells(RouteEvents(att), judgements)
    BY DEF Tells, RouteEvents, Announce, OfVerdict
  <1>5. Tells(CloseEvents(att), judgements)
    BY DEF Tells, CloseEvents, Announce, OfVerdict
  <1> QED  BY <1>3, <1>4, <1>5

LEMMA ScoreTold ==
    ASSUME NEW att \in Row, NEW judgements, MachineVerdict(att) \in Verdict \cap judgements
    PROVE  ScoreEvents(att) \in Seq(Event) /\ Tells(ScoreEvents(att), judgements)
  <1>1. Announce("scored", MachineVerdict(att)) \in Event
    BY AnnounceType DEF EventType, Subject
  <1>2. ScoreEvents(att) \in Seq(Event)
    BY <1>1 DEF ScoreEvents
  <1>3. Tells(ScoreEvents(att), judgements)
    BY DEF Tells, ScoreEvents, Announce
  <1> QED  BY <1>2, <1>3

LEMMA DeliverTold ==
    ASSUME NEW v \in Verdict, NEW revising \in BOOLEAN, NEW judgements, v \in judgements
    PROVE  LET told == DeliverEvents(v, revising)
               closed == Append(told, Announce("ai_reviewed", v))
           IN  /\ told \in Seq(Event) /\ Tells(told, judgements)
               /\ closed \in Seq(Event) /\ Tells(closed, judgements)
  <1> DEFINE evidence == [type |-> IF v.outcome = "returned" THEN "returned" ELSE "scored",
                          subject |-> v, revises |-> revising]
             letter == [type |-> "reviewed", subject |-> v, revises |-> revising]
             counted == Announce("ai_reviewed", v)
             told == DeliverEvents(v, revising)
  <1>1. v \in Subject
    BY DEF Subject
  <1>2. evidence \in Event /\ evidence.subject = v
    BY <1>1 DEF Event, EventType
  <1>3. letter \in Event /\ letter.subject = v
    BY <1>1 DEF Event, EventType
  <1>4. counted \in Event /\ counted.subject = v
    BY <1>1, AnnounceType DEF EventType, Announce
  <1>5. told = <<evidence, letter>> \/ told = <<evidence>>
    BY Zenon DEF DeliverEvents
  <1>6. told \in Seq(Event) /\ Append(told, counted) \in Seq(Event)
    BY <1>2, <1>3, <1>4, <1>5
  <1>7. \A i \in 1..Len(told) : told[i].subject = v
    BY <1>2, <1>3, <1>5
  <1>8. \A i \in 1..Len(Append(told, counted)) : Append(told, counted)[i].subject = v
    BY <1>4, <1>6, <1>7
  <1> HIDE DEF told, counted
  <1> QED  BY <1>6, <1>7, <1>8 DEF Tells, counted, told

LEMMA NothingTold == ASSUME NEW judgements PROVE <<>> \in Seq(Event) /\ Tells(<<>>, judgements)
  BY DEF Tells

-----------------------------------------------------------------------------
(* Calls, and the step one of them takes.                                  *)

LEMMA NoCallFits == NoCall \in Call /\ Placed(NoCall) /\ Traced(NoCall)
  <1>1. NoCall \in Call
    BY DEF NoCall, Call, Pc
  <1>2. Placed(NoCall)
    BY DEF NoCall, Placed
  <1>3. Traced(NoCall)
    BY NothingTold DEF NoCall, Traced
  <1> QED  BY <1>1, <1>2, <1>3

LEMMA MutatedFits ==
    ASSUME NEW op \in Op, NEW who \in Teachers \cup AiCalls \cup {Null},
           NEW att \in Row, Sound(att),
           NEW events \in Seq(Event), Tells(events, Judgements(att)),
           NEW settles \in BOOLEAN, NEW pc \in {"save", "save_if_in_review"}
    PROVE  LET call == Handling(op, who, pc, att, events, settles)
           IN  call \in Call /\ Placed(call) /\ Traced(call)
  <1> DEFINE call == Handling(op, who, pc, att, events, settles)
  <1>1. call \in Call
    BY DEF Handling, Call, Pc
  <1>2. Placed(call)
    BY DEF Handling, Placed
  <1>3. Traced(call)
    BY DEF Handling, Traced, Tells, Speaks, Unsaved
  <1> QED  BY <1>1, <1>2, <1>3

\* One call takes a step, and nothing any other call relies on is undone.
LEMMA CallStep ==
    ASSUME IInv, NEW c \in Calls, NEW call \in Call,
           calls' = [calls EXCEPT ![c] = call],
           row' \in Row, Sound(row'), Judgements(row') \subseteq stored',
           stored \subseteq stored', stored' \subseteq Verdict,
           drafts' \in [Capability -> Draft \cup {Null}],
           \A cap \in Capability : drafts[cap] \in Draft => drafts'[cap] \in Draft,
           asked' = asked, now' = now,
           published' \subseteq Event, repeated' \subseteq published',
           \A e \in published' : OfVerdict(e) => e.subject \in stored',
           Placed(call)', Traced(call)'
    PROVE  IInv'
  <1>1. calls \in [Calls -> Call]
    BY DEF IInv, TypeOK
  <1>2. calls'[c] = call /\ \A d \in Calls \ {c} : calls'[d] = calls[d]
    BY <1>1
  <1>3. calls' \in [Calls -> Call]
    BY <1>1
  <1>4. \A d \in Calls : Placed(calls[d])'
    <2>1. SUFFICES ASSUME NEW d \in Calls \ {c} PROVE Placed(calls[d])'
      BY <1>2
    <2>2. Placed(calls[d]) /\ calls'[d] = calls[d]
      BY <1>2 DEF IInv
    <2>3. TeacherDraftCapability(calls[d].att) \in Capability /\ CapOf(calls[d]) \in Capability
          /\ "review_direct" \in Capability
      BY DEF TeacherDraftCapability, CapOf, Capability
    <2> QED  BY <2>2, <2>3 DEF Placed
  <1>5. \A d \in Calls : Traced(calls[d])'
    <2>1. SUFFICES ASSUME NEW d \in Calls \ {c} PROVE Traced(calls[d])'
      BY <1>2
    <2>2. Traced(calls[d]) /\ calls'[d] = calls[d]
      BY <1>2 DEF IInv
    <2> QED  BY <2>2 DEF Traced, Tells, Speaks
  <1>6. TypeOK'
    BY <1>3 DEF IInv, TypeOK
  <1>7. SavedBeforePublished'
    BY DEF SavedBeforePublished, OfVerdict
  <1> QED  BY <1>4, <1>5, <1>6, <1>7 DEF IInv

LEMMA BeginStep ==
    ASSUME IInv, NEW c \in Calls, NEW call \in Call, Placed(call), Traced(call), Begin(c, call)
    PROVE  IInv'
  <1>1. /\ calls' = [calls EXCEPT ![c] = call]
        /\ row' = row /\ drafts' = drafts /\ asked' = asked /\ now' = now
        /\ published' = published /\ repeated' = repeated /\ stored' = stored
    BY DEF Begin, history
  <1>2. Placed(call)' /\ Traced(call)'
    BY <1>1 DEF Placed, Traced, Speaks
  <1>3. \A e \in published : OfVerdict(e) => e.subject \in stored
    BY DEF IInv, SavedBeforePublished, OfVerdict
  <1> QED  BY <1>1, <1>2, <1>3, CallStep DEF IInv, TypeOK

LEMMA FinishStep ==
    ASSUME IInv, NEW c \in Calls, Finish(c), UNCHANGED <<row, drafts, asked, now, history>>
    PROVE  IInv'
  <1>1. Begin(c, NoCall)
    BY DEF Finish, Begin
  <1> QED  BY <1>1, NoCallFits, BeginStep

\* A handler takes a call with a sound copy to write.
LEMMA MutatedStep ==
    ASSUME IInv, NEW c \in Calls, NEW op \in Op, NEW who \in Teachers \cup AiCalls \cup {Null},
           NEW att \in Row, Sound(att),
           NEW events \in Seq(Event), Tells(events, Judgements(att)),
           Begin(c, Mutated(op, who, att, events))
    PROVE  IInv'
  <1> DEFINE call == Mutated(op, who, att, events)
  <1>1. call \in Call /\ Placed(call) /\ Traced(call)
    BY MutatedFits DEF Mutated
  <1> QED  BY <1>1, BeginStep

-----------------------------------------------------------------------------
(* The learner's handlers.                                                 *)

LEMMA SubmitAnswerStep ==
    ASSUME IInv, NEW c \in Calls, SubmitAnswer(c)
    PROVE  IInv'
  <1> DEFINE handed == Submit(Reopened)
  <1> "submit_answer" \in Op
    BY DEF Op
  <1>1. Reopened \in Row /\ Sound(Reopened) /\ CanSubmit(Reopened)
    <2>1. row \in Row /\ Sound(row)
      BY DEF IInv, TypeOK
    <2>2. CanSubmit(Reopened) /\ (row.status = "SCORED" => CanReopenForRecheck(row, MaxChecks))
      BY DEF SubmitAnswer
    <2> QED  BY <2>1, <2>2, ReopenSound DEF Reopened
  <1>2. handed \in Row /\ Sound([handed EXCEPT !.status = "IN_PROGRESS"])
    BY <1>1, SubmitKeeps
  <1>3. CASE Begin(c, Mutated("submit_answer", Null, Score(handed), ScoreEvents(handed)))
    <2>1. Score(handed) \in Row /\ Sound(Score(handed))
          /\ MachineVerdict(handed) \in Verdict \cap Judgements(Score(handed))
      BY <1>2, ScoreSound
    <2>2. ScoreEvents(handed) \in Seq(Event) /\ Tells(ScoreEvents(handed), Judgements(Score(handed)))
      BY <1>2, <2>1, ScoreTold
    <2> QED  BY <1>3, <2>1, <2>2, MutatedStep
  <1>4. CASE Begin(c, Mutated("submit_answer", Null, RecordPartialCheck(handed), <<>>))
    <2>1. RecordPartialCheck(handed) \in Row /\ Sound(RecordPartialCheck(handed))
      BY <1>2, PartialCheckSound
    <2> QED  BY <1>4, <2>1, NothingTold, MutatedStep
  <1>5. ASSUME NEW found \in {FALSE, AtSchool},
               NEW policy \in {Null} \cup [atOnce : BOOLEAN, due : {Null, now + TermLength}],
               CanRoute(BackfillReviewContext(handed, found), policy),
               Begin(c, Mutated("submit_answer", Null,
                                RouteForReview(BackfillReviewContext(handed, found), policy),
                                RouteEvents(BackfillReviewContext(handed, found))))
        PROVE  IInv'
    <2> DEFINE work == BackfillReviewContext(handed, found)
    <2>1. found \in BOOLEAN
      BY ReviewAssumption
    <2>2. work \in Row /\ Sound([work EXCEPT !.status = "IN_PROGRESS"])
      BY <1>2, <2>1, BackfillKeeps
    <2>3. policy \in Policy \cup {Null}
      <3>1. now + TermLength \in Nat
        BY ReviewAssumption DEF IInv, TypeOK
      <3> QED  BY <3>1 DEF Policy
    <2>4. RouteForReview(work, policy) \in Row /\ Sound(RouteForReview(work, policy))
      BY <1>5, <2>2, <2>3, RouteSound
    <2>5. RouteEvents(work) \in Seq(Event)
          /\ Tells(RouteEvents(work), Judgements(RouteForReview(work, policy)))
      BY <2>2, HandInEvents
    <2> HIDE DEF work
    <2> QED  BY <1>5, <2>4, <2>5, MutatedStep DEF work
  <1>6. ASSUME NEW found \in {FALSE, AtSchool},
               ~BackfillReviewContext(handed, found).school,
               Begin(c, Mutated("submit_answer", Null,
                                CloseWithoutReviewer(BackfillReviewContext(handed, found)),
                                CloseEvents(BackfillReviewContext(handed, found))))
        PROVE  IInv'
    <2> DEFINE work == BackfillReviewContext(handed, found)
    <2>1. found \in BOOLEAN
      BY ReviewAssumption
    <2>2. work \in Row /\ Sound([work EXCEPT !.status = "IN_PROGRESS"])
      BY <1>2, <2>1, BackfillKeeps
    <2>3. CloseWithoutReviewer(work) \in Row /\ Sound(CloseWithoutReviewer(work))
      BY <1>6, <2>2, CloseSound
    <2>4. CloseEvents(work) \in Seq(Event)
          /\ Tells(CloseEvents(work), Judgements(CloseWithoutReviewer(work)))
      BY <2>2, HandInEvents
    <2> HIDE DEF work
    <2> QED  BY <1>6, <2>3, <2>4, MutatedStep DEF work
  <1> QED  BY <1>3, <1>4, <1>5, <1>6 DEF SubmitAnswer

LEMMA RowIsSound == ASSUME IInv PROVE row \in Row /\ Sound(row)
  BY DEF IInv, TypeOK

LEMMA SaveDraftStep ==
    ASSUME IInv, NEW c \in Calls, SaveDraft(c)
    PROVE  IInv'
  <1>1. "save_draft" \in Op /\ Begin(c, Mutated("save_draft", Null, row, <<>>))
    BY DEF SaveDraft, Op
  <1> QED  BY <1>1, RowIsSound, NothingTold, MutatedStep

LEMMA AbandonStep ==
    ASSUME IInv, NEW c \in Calls, AbandonAttempt(c) \/ ExerciseDeleted(c)
    PROVE  IInv'
  <1>1. /\ "abandon" \in Op /\ "exercise_deleted" \in Op
        /\ \/ Begin(c, Mutated("abandon", Null, Abandon(row), <<>>))
           \/ Begin(c, Mutated("exercise_deleted", Null, Abandon(row), <<>>))
    BY DEF AbandonAttempt, ExerciseDeleted, Op
  <1>2. Abandon(row) \in Row /\ Sound(Abandon(row))
    BY RowIsSound, AbandonSound
  <1> QED  BY <1>1, <1>2, NothingTold, MutatedStep

LEMMA RevealStep ==
    ASSUME IInv, NEW c \in Calls, RevealAnswersOf(c)
    PROVE  IInv'
  <1>1. "reveal" \in Op /\ Begin(c, Mutated("reveal", Null, RevealAnswers(row), <<>>))
    BY DEF RevealAnswersOf, Op
  <1>2. RevealAnswers(row) \in Row /\ Sound(RevealAnswers(row))
    BY RowIsSound, RevealSound
  <1> QED  BY <1>1, <1>2, NothingTold, MutatedStep

LEMMA DisputeStep ==
    ASSUME IInv, NEW c \in Calls, DisputeAiReview(c) \/ DisputeRead(c) \/ MarkDisputed(c)
    PROVE  IInv'
  <1> DEFINE review == drafts["review_direct"]
  <1>1. CASE DisputeAiReview(c)
    <2> DEFINE call == Loaded("dispute", Null, "dispute_read")
    <2>1. Begin(c, call) /\ ReviewedByAi(row)
      BY <1>1 DEF DisputeAiReview
    <2>2. call \in Call
      BY RowIsSound DEF Loaded, Handling, Call, Pc, Op
    <2>3. row.verdict \in stored
      BY <2>1 DEF IInv, Judgements, ReviewedByAi
    <2>4. Placed(call)
      BY <2>1, <2>3, RowIsSound DEF Loaded, Handling, Placed, Op
    <2>5. Traced(call)
      BY NothingTold DEF Loaded, Handling, Traced
    <2> QED  BY <2>1, <2>2, <2>4, <2>5, BeginStep
  <1>2. CASE DisputeRead(c)
    <2>1. CASE Finish(c)
      BY <1>2, <2>1, FinishStep DEF DisputeRead
    <2>2. CASE ~Finish(c)
      <3> DEFINE call == [calls[c] EXCEPT !.pc = "mark", !.draft = review]
      <3>1. /\ calls[c].pc = "dispute_read" /\ review # Null
            /\ calls' = [calls EXCEPT ![c] = call]
            /\ UNCHANGED <<row, drafts, asked, now, history>>
        BY <1>2, <2>2 DEF DisputeRead
      <3>2. calls[c] \in Call /\ Placed(calls[c]) /\ Traced(calls[c])
        BY DEF IInv, TypeOK
      <3>3. review \in Draft
        BY <3>1 DEF IInv, TypeOK, Capability
      <3>4. call \in Call
        BY <3>2, <3>3 DEF Call, Pc
      <3>5. Placed(call)
        BY <3>1, <3>2, <3>3 DEF Placed, Call
      <3>6. Traced(call)
        BY <3>1, <3>2 DEF Traced, Tells, Speaks, Unsaved, Call
      <3>7. Begin(c, call)
        BY <3>1 DEF Begin
      <3> QED  BY <3>4, <3>5, <3>6, <3>7, BeginStep
    <2> QED  BY <2>1, <2>2
  <1>3. CASE MarkDisputed(c)
    <2>1. CASE review.disputed
      <3>1. Finish(c) /\ UNCHANGED <<row, drafts, asked, now, history>>
        BY <1>3, <2>1 DEF MarkDisputed
      <3> QED  BY <3>1, FinishStep
    <2>2. CASE ~review.disputed
      <3> DEFINE told == <<Announce("ai_review_disputed", calls[c].att.verdict)>>
      <3>0. PICK call : call = [calls[c] EXCEPT !.pc = "publish", !.events = told]
        OBVIOUS
      <3>1. /\ calls[c].pc = "mark"
            /\ drafts' = [drafts EXCEPT !["review_direct"].disputed = TRUE]
            /\ calls' = [calls EXCEPT ![c] = call]
            /\ UNCHANGED <<row, asked, now, history>>
        BY <1>3, <2>2, <3>0 DEF MarkDisputed
      <3>2. calls[c] \in Call /\ Placed(calls[c])
        BY DEF IInv, TypeOK
      <3>3. calls[c].att.verdict \in stored /\ stored \subseteq Verdict
        BY <3>1, <3>2 DEF Placed, IInv, TypeOK
      <3>4. told \in Seq(Event) /\ told # <<>>
        <4>1. Announce("ai_review_disputed", calls[c].att.verdict) \in Event
          BY <3>3, AnnounceType DEF EventType, Subject
        <4> QED  BY <4>1
      <3>5. Tells(told, stored)
        BY <3>3 DEF Tells, Announce
      <3>6. call \in Call
        BY <3>0, <3>2, <3>4 DEF Call, Pc
      <3>7. call.pc = "publish" /\ call.events = told /\ call.att = calls[c].att
            /\ call.op = calls[c].op
        BY <3>0, <3>2 DEF Call
      <3>8. Placed(call)'
        BY <3>1, <3>2, <3>4, <3>7 DEF Placed
      <3>9. Traced(call)'
        BY <3>1, <3>5, <3>7 DEF Traced, Tells, Speaks, history
      <3>10. /\ drafts' \in [Capability -> Draft \cup {Null}]
             /\ \A cap \in Capability : drafts[cap] \in Draft => drafts'[cap] \in Draft
        <4>1. drafts \in [Capability -> Draft \cup {Null}] /\ review \in Draft
          BY <3>1, <3>2 DEF IInv, TypeOK, Placed
        <4>2. [review EXCEPT !.disputed = TRUE] \in Draft
          BY <4>1 DEF Draft
        <4>3. drafts' = [drafts EXCEPT !["review_direct"] = [review EXCEPT !.disputed = TRUE]]
          BY <3>1
        <4>4. "review_direct" \in Capability
          BY DEF Capability
        <4>5. drafts'["review_direct"] \in Draft
              /\ \A cap \in Capability \ {"review_direct"} : drafts'[cap] = drafts[cap]
          BY <4>1, <4>2, <4>3, <4>4
        <4>6. DOMAIN drafts' = Capability /\ drafts' = [cap \in Capability |-> drafts'[cap]]
          BY <4>1, <4>3
        <4> HIDE DEF review
        <4>7. \A cap \in Capability : drafts[cap] \in Draft => drafts'[cap] \in Draft
          BY <4>5
        <4>8. \A cap \in Capability : drafts'[cap] \in Draft \cup {Null}
          BY <4>1, <4>5
        <4> QED  BY <4>6, <4>7, <4>8
      <3>11. \A e \in published : OfVerdict(e) => e.subject \in stored
        BY DEF IInv, SavedBeforePublished, OfVerdict
      <3> QED  BY <3>1, <3>6, <3>8, <3>9, <3>10, <3>11, CallStep DEF IInv, TypeOK, history
    <2> QED  BY <2>1, <2>2
  <1> QED  BY <1>1, <1>2, <1>3

-----------------------------------------------------------------------------
(* The teachers' handlers.                                                 *)

LEMMA ReviewAttemptStep ==
    ASSUME IInv, NEW c \in Calls, ReviewAttempt(c)
    PROVE  IInv'
  <1>1. PICK t \in Teachers, outcome \in {"approved", "returned"}, settles \in BOOLEAN :
          Begin(c, Handling("review", t, "save", Deliver(row, TeacherVerdict(t, outcome)),
                            DeliverEvents(TeacherVerdict(t, outcome), AcceptedAtTerm(row)),
                            settles))
    BY DEF ReviewAttempt
  <1> DEFINE v == TeacherVerdict(t, outcome)
             att == Deliver(row, v)
             events == DeliverEvents(v, AcceptedAtTerm(row))
             call == Handling("review", t, "save", att, events, settles)
  <1>2. v \in Verdict
    BY RowIsSound DEF TeacherVerdict, Verdict, Judges, Row
  <1>3. att \in Row /\ Sound(att) /\ v \in Judgements(att)
    BY <1>2, RowIsSound, DeliverSound
  <1>4. events \in Seq(Event) /\ Tells(events, Judgements(att))
    <2>1. AcceptedAtTerm(row) \in BOOLEAN
      BY DEF AcceptedAtTerm
    <2> QED  BY <1>2, <1>3, <2>1, DeliverTold
  <1>5. "review" \in Op
    BY DEF Op
  <1> HIDE DEF v, att, events
  <1>6. call \in Call /\ Placed(call) /\ Traced(call)
    BY <1>3, <1>4, <1>5, MutatedFits
  <1>7. Begin(c, call)
    BY <1>1 DEF v, att, events
  <1> HIDE DEF call
  <1> QED  BY <1>6, <1>7, BeginStep

LEMMA BatchApproveStep ==
    ASSUME IInv, NEW c \in Calls, BatchApprove(c)
    PROVE  IInv'
  <1>1. PICK t \in Teachers :
          Begin(c, Mutated("batch_approve", t, Deliver(row, TeacherVerdict(t, "approved")),
                           DeliverEvents(TeacherVerdict(t, "approved"), FALSE)))
    BY DEF BatchApprove
  <1> DEFINE v == TeacherVerdict(t, "approved")
             att == Deliver(row, v)
             events == DeliverEvents(v, FALSE)
  <1>2. v \in Verdict
    BY RowIsSound DEF TeacherVerdict, Verdict, Judges, Row
  <1>3. att \in Row /\ Sound(att) /\ v \in Judgements(att)
    BY <1>2, RowIsSound, DeliverSound
  <1>4. events \in Seq(Event) /\ Tells(events, Judgements(att))
    BY <1>2, <1>3, DeliverTold
  <1>5. "batch_approve" \in Op
    BY DEF Op
  <1> HIDE DEF v, att, events
  <1> QED  BY <1>1, <1>3, <1>4, <1>5, MutatedStep DEF v, att, events

LEMMA ClaimStep ==
    ASSUME IInv, NEW c \in Calls, ClaimReview(c) \/ ReleaseReviewOf(c)
    PROVE  IInv'
  <1>1. PICK t \in Teachers :
          \/ Begin(c, Mutated("claim", t, ClaimForReview(row, t, now), <<>>))
          \/ Begin(c, Mutated("release", t, ReleaseReview(row), <<>>))
    BY DEF ClaimReview, ReleaseReviewOf
  <1>2. /\ ClaimForReview(row, t, now) \in Row /\ Sound(ClaimForReview(row, t, now))
        /\ ReleaseReview(row) \in Row /\ Sound(ReleaseReview(row))
    BY RowIsSound, ClaimSound DEF IInv, TypeOK
  <1>3. "claim" \in Op /\ "release" \in Op
    BY DEF Op
  <1> QED  BY <1>1, <1>2, <1>3, NothingTold, MutatedStep

\* Whatever a call goes on with once its row is written fits.
LEMMA AfterSaveFits ==
    ASSUME NEW call \in Call, call.op \in Op, call.att \in Row, Sound(call.att),
           Tells(call.events, stored)
    PROVE  AfterSave(call) \in Call /\ Placed(AfterSave(call)) /\ Traced(AfterSave(call))
  <1>1. CASE call.settles
    <2> DEFINE next == [call EXCEPT !.pc = "settle"]
    <2>1. AfterSave(call) = next
      BY <1>1 DEF AfterSave
    <2>2. next \in Call
      BY DEF Call, Pc
    <2>3. Placed(next) /\ Traced(next)
      BY DEF Placed, Traced, Tells, Speaks, Call
    <2> QED  BY <2>1, <2>2, <2>3
  <1>2. CASE ~call.settles /\ call.events # <<>>
    <2> DEFINE next == [call EXCEPT !.pc = "publish"]
    <2>1. AfterSave(call) = next
      BY <1>2 DEF AfterSave
    <2>2. next \in Call
      BY DEF Call, Pc
    <2>3. Placed(next) /\ Traced(next)
      BY <1>2 DEF Placed, Traced, Tells, Speaks, Call
    <2> QED  BY <2>1, <2>2, <2>3
  <1>3. CASE ~call.settles /\ call.events = <<>>
    BY <1>3, NoCallFits DEF AfterSave
  <1> QED  BY <1>1, <1>2, <1>3

LEMMA DraftsKept ==
    ASSUME drafts \in [Capability -> Draft \cup {Null}],
           NEW cap \in Capability, NEW draft \in Draft,
           drafts' = [drafts EXCEPT ![cap] = draft]
    PROVE  /\ drafts' \in [Capability -> Draft \cup {Null}]
           /\ \A any \in Capability : drafts[any] \in Draft => drafts'[any] \in Draft
  OBVIOUS

LEMMA SettleStep ==
    ASSUME IInv, NEW c \in Calls, SettleRead(c) \/ Label(c)
    PROVE  IInv'
  <1> DEFINE unlabelled == [calls[c] EXCEPT !.settles = FALSE]
             cap == TeacherDraftCapability(calls[c].att)
             draft == drafts[cap]
  <1>1. calls[c] \in Call /\ Placed(calls[c]) /\ Traced(calls[c])
    BY DEF IInv, TypeOK
  <1>2. calls[c].pc \in {"settle", "label"}
    BY DEF SettleRead, Label
  <1>3. calls[c].op \in Op /\ calls[c].att \in Row /\ Sound(calls[c].att)
        /\ Tells(calls[c].events, stored)
    BY <1>1, <1>2 DEF Placed, Traced, Tells, Speaks, Unsaved
  <1>4. PICK next : next = AfterSave(unlabelled)
    OBVIOUS
  <1>5. next \in Call /\ Placed(next) /\ Traced(next)
    <2>1. unlabelled \in Call /\ unlabelled.op = calls[c].op /\ unlabelled.att = calls[c].att
          /\ unlabelled.events = calls[c].events
      BY <1>1 DEF Call
    <2> HIDE DEF unlabelled
    <2> QED  BY <1>3, <1>4, <2>1, AfterSaveFits
  <1>6. Unlabelled(c) = [calls EXCEPT ![c] = next]
    BY <1>4 DEF Unlabelled
  <1>7. cap \in Capability /\ draft \in Draft \cup {Null}
    BY DEF TeacherDraftCapability, Capability, IInv, TypeOK
  <1>8. CASE calls' = Unlabelled(c) /\ UNCHANGED <<row, drafts, asked, now, history>>
    <2>1. Begin(c, next)
      BY <1>6, <1>8 DEF Begin
    <2> QED  BY <1>5, <2>1, BeginStep
  <1>9. CASE SettleRead(c) /\ calls' # Unlabelled(c)
    <2> DEFINE decided == [draft EXCEPT !.status = "DECIDED"]
               call == [calls[c] EXCEPT !.pc = "label", !.draft = decided]
    <2>1. /\ calls[c].pc = "settle" /\ draft # Null
          /\ calls' = [calls EXCEPT ![c] = call]
          /\ UNCHANGED <<row, drafts, asked, now, history>>
      BY <1>9 DEF SettleRead
    <2>2. draft \in Draft /\ decided \in Draft
      BY <1>7, <2>1 DEF Draft
    <2> HIDE DEF decided
    <2>3. call \in Call
      BY <1>1, <2>2 DEF Call, Pc
    <2>4. Placed(call)
      BY <1>1, <1>3, <2>2 DEF Placed, Call
    <2>5. Traced(call)
      BY <1>1, <1>3 DEF Traced, Tells, Speaks, Call
    <2>6. Begin(c, call)
      BY <2>1 DEF Begin
    <2> QED  BY <2>3, <2>4, <2>5, <2>6, BeginStep
  <1>10. CASE Label(c) /\ UNCHANGED drafts
    <2>1. calls' = Unlabelled(c) /\ UNCHANGED <<row, drafts, asked, now, history>>
      BY <1>10 DEF Label
    <2> QED  BY <1>8, <2>1
  <1>11. CASE Label(c) /\ drafts' # drafts
    <2> DEFINE rewritten == Rewritten(cap, calls[c].draft)
    <2>1. /\ calls[c].pc = "label"
          /\ drafts' = [drafts EXCEPT ![cap] = rewritten]
          /\ calls' = [calls EXCEPT ![c] = next]
          /\ UNCHANGED <<row, asked, now, history>>
      BY <1>6, <1>11 DEF Label
    <2>2. rewritten \in Draft
      BY <1>1, <2>1 DEF Placed, Rewritten, Draft
    <2>3. /\ drafts' \in [Capability -> Draft \cup {Null}]
          /\ \A any \in Capability : drafts[any] \in Draft => drafts'[any] \in Draft
      <3> HIDE DEF rewritten
      <3> QED  BY <1>7, <2>1, <2>2, DraftsKept DEF IInv, TypeOK
    <2>4. Placed(next)' /\ Traced(next)'
      <3>1. next.pc \in {"settle", "publish", "idle"}
        BY <1>1, <1>4 DEF AfterSave, NoCall, Call
      <3> QED  BY <1>5, <2>1, <3>1 DEF Placed, Traced, Tells, Speaks, history
    <2>5. \A e \in published : OfVerdict(e) => e.subject \in stored
      BY DEF IInv, SavedBeforePublished, OfVerdict
    <2> QED  BY <1>5, <2>1, <2>3, <2>4, <2>5, CallStep DEF IInv, TypeOK, history
  <1> QED
    <2>1. SettleRead(c) => UNCHANGED <<row, drafts, asked, now, history>>
      BY DEF SettleRead
    <2> QED  BY <1>8, <1>9, <1>10, <1>11, <2>1

-----------------------------------------------------------------------------
(* The models' handlers, the term, and the platform.                       *)

\* A call loads the attempt and has more to read.
LEMMA LoadedStep ==
    ASSUME IInv, NEW c \in Calls, NEW op \in Op,
           NEW who \in Teachers \cup AiCalls \cup {Null},
           NEW pc \in {"stored", "existing", "review_read"},
           pc \in {"stored", "existing"} => who \in AiCalls /\ asked[who] \in Answer,
           pc = "review_read" => CanGiveUpReview(row),
           Begin(c, Loaded(op, who, pc))
    PROVE  IInv'
  <1> DEFINE call == Loaded(op, who, pc)
  <1>1. call \in Call
    BY RowIsSound DEF Loaded, Handling, Call, Pc
  <1>2. Placed(call)
    BY RowIsSound DEF Loaded, Handling, Placed
  <1>3. Traced(call)
    BY NothingTold DEF Loaded, Handling, Traced
  <1> HIDE DEF call
  <1> QED  BY <1>1, <1>2, <1>3, BeginStep DEF call

LEMMA LoadForModelStep ==
    ASSUME IInv, NEW c \in Calls, PutAiReview(c) \/ PutAiDraft(c) \/ GiveUpAiReview(c)
    PROVE  IInv'
  <1>1. {"put_ai_review", "put_ai_draft", "give_up"} \subseteq Op
    BY DEF Op
  <1>2. ASSUME NEW a \in AiCalls, NEW cap, Wrote(a, cap) PROVE asked[a] \in Answer
    BY <1>2 DEF Wrote, IInv, TypeOK
  <1>3. CASE PutAiReview(c)
    <2>1. PICK a \in AiCalls : /\ Wrote(a, "review_direct")
                               /\ Begin(c, Loaded("put_ai_review", a, "stored"))
      BY <1>3 DEF PutAiReview
    <2> QED  BY <1>1, <1>2, <2>1, LoadedStep
  <1>4. CASE PutAiDraft(c)
    <2>1. PICK a \in AiCalls : /\ Wrote(a, "review_draft")
                               /\ Begin(c, Loaded("put_ai_draft", a, "existing"))
      BY <1>4 DEF PutAiDraft
    <2> QED  BY <1>1, <1>2, <2>1, LoadedStep
  <1>5. CASE GiveUpAiReview(c)
    <2>1. CanGiveUpReview(row) /\ Begin(c, Loaded("give_up", Null, "review_read"))
      BY <1>5 DEF GiveUpAiReview
    <2> QED  BY <1>1, <2>1, LoadedStep
  <1> QED  BY <1>3, <1>4, <1>5

LEMMA RuledStep ==
    ASSUME IInv, NEW c \in Calls, calls[c].pc = "stored",
           NEW att \in Row, Sound(att),
           NEW events \in Seq(Event), Tells(events, Judgements(att)),
           Ruled(c, att, events),
           UNCHANGED <<row, drafts, asked, now, history>>
    PROVE  IInv'
  <1>1. calls[c] \in Call /\ Placed(calls[c])
    BY DEF IInv, TypeOK
  <1>2. CASE Finish(c)
    BY <1>2, FinishStep
  <1>3. ASSUME NEW pc \in {"existing", "save"},
               calls' = [calls EXCEPT ![c] = [[calls[c] EXCEPT !.att = att, !.events = events]
                                                EXCEPT !.pc = pc]]
        PROVE  IInv'
    <2>1. PICK call : call = [op |-> calls[c].op, pc |-> pc, who |-> calls[c].who, att |-> att,
                              draft |-> calls[c].draft, fresh |-> calls[c].fresh,
                              settles |-> calls[c].settles, events |-> events]
      OBVIOUS
    <2>2. [[calls[c] EXCEPT !.att = att, !.events = events] EXCEPT !.pc = pc] = call
      <3>1. PICK loaded : loaded = calls[c]
        OBVIOUS
      <3>2. PICK ruled : ruled = [loaded EXCEPT !.att = att, !.events = events]
        OBVIOUS
      <3>3. ruled = [op |-> loaded.op, pc |-> loaded.pc, who |-> loaded.who, att |-> att,
                     draft |-> loaded.draft, fresh |-> loaded.fresh,
                     settles |-> loaded.settles, events |-> events]
        BY <1>1, <3>1, <3>2 DEF Call
      <3>4. [ruled EXCEPT !.pc = pc] = call
        BY <2>1, <3>1, <3>3
      <3> QED  BY <3>1, <3>2, <3>4
    <2>3. call \in Call
      BY <1>1, <2>1 DEF Call, Pc
    <2>4. Placed(call)
      BY <1>1, <2>1 DEF Placed
    <2>5. Traced(call)
      BY <2>1 DEF Traced, Tells, Speaks, Unsaved
    <2>6. Begin(c, call)
      BY <1>3, <2>2 DEF Begin
    <2> QED  BY <2>3, <2>4, <2>5, <2>6, BeginStep
  <1> QED  BY <1>2, <1>3 DEF Ruled

LEMMA FindStoredStep ==
    ASSUME IInv, NEW c \in Calls, FindStored(c)
    PROVE  IInv'
  <1> DEFINE a == calls[c].who
             att == calls[c].att
             v == ModelVerdict(a)
             events == DeliverEvents(v, FALSE)
             counted == Append(events, Announce("ai_reviewed", v))
  <1>1. /\ calls[c].pc = "stored"
        /\ UNCHANGED <<row, drafts, asked, now, history>>
    BY DEF FindStored
  <1>2. a \in AiCalls /\ asked[a] \in Answer /\ att \in Row /\ Sound(att)
    BY <1>1 DEF IInv, Placed
  <1>3. CASE Finish(c)
    BY <1>1, <1>3, FinishStep
  <1>4. CASE Ruled(c, att, <<>>)
    BY <1>1, <1>2, <1>4, NothingTold, RuledStep
  <1>5. ASSUME asked[a].result # "FAILED" PROVE v \in Verdict /\ v.by \in AiCalls
    BY <1>2, <1>5 DEF ModelVerdict, Verdict, Judges, Answer
  <1>6. CASE asked[a].result # "FAILED" /\ Ruled(c, Deliver(att, v), counted)
    <2> HIDE DEF a, att, v
    <2>1. Deliver(att, v) \in Row /\ Sound(Deliver(att, v)) /\ v \in Judgements(Deliver(att, v))
      BY <1>2, <1>5, <1>6, DeliverSound
    <2>2. counted \in Seq(Event) /\ Tells(counted, Judgements(Deliver(att, v)))
      BY <1>5, <1>6, <2>1, DeliverTold
    <2> QED  BY <1>1, <1>6, <2>1, <2>2, RuledStep
  <1>7. CASE /\ asked[a].result # "FAILED" /\ att.policy # Null
             /\ Ruled(c, KeepProvisional(att, v), <<>>)
    <2> HIDE DEF a, att, v
    <2>1. KeepProvisional(att, v) \in Row /\ Sound(KeepProvisional(att, v))
      BY <1>2, <1>5, <1>7, ProvisionalSound
    <2> QED  BY <1>1, <1>7, <2>1, NothingTold, RuledStep
  <1> QED  BY <1>3, <1>4, <1>6, <1>7 DEF FindStored, TakesDraft, CanReviewByAi, CountsAtOnce

LEMMA FindExistingStep ==
    ASSUME IInv, NEW c \in Calls, FindExisting(c)
    PROVE  IInv'
  <1> DEFINE a == calls[c].who
             cap == CapOf(calls[c])
             existing == drafts[cap]
             draft == [status |-> DraftStatus(a), call |-> a,
                       disputed |-> existing # Null /\ existing.disputed]
  <1>1. /\ calls[c].pc = "existing"
        /\ UNCHANGED <<row, drafts, asked, now, history>>
    BY DEF FindExisting
  <1>2. calls[c] \in Call /\ Placed(calls[c]) /\ Traced(calls[c])
    BY DEF IInv, TypeOK
  <1>3. a \in AiCalls /\ asked[a] \in Answer
    BY <1>1, <1>2 DEF Placed
  <1>4. CASE Finish(c)
    BY <1>1, <1>4, FinishStep
  <1>5. CASE ~Finish(c)
    <2>1. PICK fresh : fresh = (existing = Null)
      OBVIOUS
    <2>2. PICK draft0 : draft0 = draft
      OBVIOUS
    <2>3. PICK call : call = [calls[c] EXCEPT !.pc = "draft", !.fresh = fresh, !.draft = draft0]
      OBVIOUS
    <2>4. calls' = [calls EXCEPT ![c] = call]
      BY <1>5, <2>1, <2>2, <2>3 DEF FindExisting
    <2>5. cap \in Capability
      BY DEF CapOf, Capability
    <2>6. existing \in Draft \cup {Null}
      BY <2>5 DEF IInv, TypeOK
    <2>7. draft0 \in Draft
      <3>1. DraftStatus(a) \in {"READY", "FAILED", "DECIDED"}
        BY DEF DraftStatus
      <3>2. (existing # Null /\ existing.disputed) \in BOOLEAN
        BY <2>6 DEF Draft
      <3> QED  BY <1>3, <2>2, <3>1, <3>2 DEF Draft
    <2>8. fresh \in BOOLEAN /\ (~fresh => existing \in Draft)
      BY <2>1, <2>6
    <2>9. /\ call \in Call
          /\ call.op = calls[c].op /\ call.pc = "draft" /\ call.who = a
          /\ call.att = calls[c].att /\ call.draft = draft0 /\ call.fresh = fresh
          /\ call.events = calls[c].events
      BY <1>2, <2>3, <2>7, <2>8 DEF Call, Pc
    <2>10. Placed(call)
      <3>1. CapOf(call) = cap
        BY <2>9 DEF CapOf
      <3> QED  BY <1>1, <1>2, <1>3, <2>7, <2>8, <2>9, <3>1 DEF Placed
    <2>11. Traced(call)
      BY <1>1, <1>2, <2>9 DEF Traced, Tells, Speaks, Unsaved
    <2>12. Begin(c, call)
      BY <1>1, <2>4 DEF Begin
    <2> QED  BY <2>9, <2>10, <2>11, <2>12, BeginStep
  <1> QED  BY <1>4, <1>5

LEMMA WriteDraftStep ==
    ASSUME IInv, NEW c \in Calls, WriteDraft(c)
    PROVE  IInv'
  <1> DEFINE cap == CapOf(calls[c])
             draft == calls[c].draft
             written == IF calls[c].fresh THEN draft ELSE Rewritten(cap, draft)
  <1>1. calls[c].pc = "draft" /\ UNCHANGED <<row, asked, now, history>>
    BY DEF WriteDraft
  <1>2. calls[c] \in Call /\ Placed(calls[c]) /\ Traced(calls[c])
    BY DEF IInv, TypeOK
  <1>3. CASE calls[c].fresh /\ drafts[cap] # Null
    <2>1. Finish(c) /\ UNCHANGED <<row, drafts, asked, now, history>>
      BY <1>1, <1>3 DEF WriteDraft
    <2> QED  BY <2>1, FinishStep
  <1>4. CASE ~(calls[c].fresh /\ drafts[cap] # Null)
    <2>1. drafts' = [drafts EXCEPT ![cap] = written] /\ (Goto(c, "save") \/ Finish(c))
      BY <1>4 DEF WriteDraft
    <2>2. cap \in Capability
      BY DEF CapOf, Capability
    <2>3. written \in Draft
      BY <1>1, <1>2 DEF Placed, Rewritten, Draft
    <2>4. /\ drafts' \in [Capability -> Draft \cup {Null}]
          /\ \A any \in Capability : drafts[any] \in Draft => drafts'[any] \in Draft
      <3> HIDE DEF written, cap
      <3> QED  BY <2>1, <2>2, <2>3, DraftsKept DEF IInv, TypeOK
    <2>5. \A e \in published : OfVerdict(e) => e.subject \in stored
      BY DEF IInv, SavedBeforePublished, OfVerdict
    <2>6. PICK call : /\ calls' = [calls EXCEPT ![c] = call]
                      /\ call = NoCall \/ call = [calls[c] EXCEPT !.pc = "save"]
      BY <2>1 DEF Goto, Finish
    <2>7. call \in Call
      BY <1>2, <2>6, NoCallFits DEF Call, Pc
    <2>8. Placed(call)' /\ Traced(call)'
      <3>1. CASE call = NoCall
        BY <3>1, NothingTold DEF Placed, Traced, Tells, NoCall
      <3>2. CASE call = [calls[c] EXCEPT !.pc = "save"]
        <4>1. call.pc = "save" /\ call.op = calls[c].op /\ call.att = calls[c].att
              /\ call.events = calls[c].events
          BY <1>2, <3>2 DEF Call
        <4> QED  BY <1>1, <1>2, <4>1 DEF Placed, Traced, Tells, Speaks, Unsaved, history
      <3> QED  BY <2>6, <3>1, <3>2
    <2> QED  BY <1>1, <2>4, <2>5, <2>6, <2>7, <2>8, CallStep DEF IInv, TypeOK, history
  <1> QED  BY <1>3, <1>4

LEMMA ReviewReadStep ==
    ASSUME IInv, NEW c \in Calls, ReviewRead(c)
    PROVE  IInv'
  <1>1. calls[c].pc = "review_read" /\ UNCHANGED <<row, drafts, asked, now, history>>
    BY DEF ReviewRead
  <1>2. calls[c] \in Call /\ Placed(calls[c]) /\ Traced(calls[c])
    BY DEF IInv, TypeOK
  <1>3. CASE Finish(c)
    BY <1>1, <1>3, FinishStep
  <1>4. CASE ~Finish(c)
    <2>1. PICK att : att = GiveUpReview(calls[c].att)
      OBVIOUS
    <2>2. PICK call : call = [calls[c] EXCEPT !.pc = "save", !.att = att]
      OBVIOUS
    <2>3. calls' = [calls EXCEPT ![c] = call]
      BY <1>4, <2>1, <2>2 DEF ReviewRead
    <2>4. att \in Row /\ Sound(att)
      BY <1>1, <1>2, <2>1, GiveUpSound DEF Placed
    <2>5. call \in Call
      BY <1>2, <2>2, <2>4 DEF Call, Pc
    <2>6. call.pc = "save" /\ call.op = calls[c].op /\ call.att = att
          /\ call.events = calls[c].events
      BY <1>2, <2>2 DEF Call
    <2>7. Placed(call)
      BY <1>1, <1>2, <2>4, <2>6 DEF Placed
    <2>8. Traced(call)
      BY <1>1, <1>2, <2>6 DEF Traced, Tells, Speaks, Unsaved
    <2>9. Begin(c, call)
      BY <1>1, <2>3 DEF Begin
    <2> QED  BY <2>5, <2>7, <2>8, <2>9, BeginStep
  <1> QED  BY <1>3, <1>4

LEMMA AcceptAtTermStep ==
    ASSUME IInv, NEW c \in Calls, AcceptAtTerm(c)
    PROVE  IInv'
  <1> DEFINE v == row.provisional
             att == Deliver(row, v)
             events == Append(DeliverEvents(v, FALSE), Announce("ai_reviewed", v))
             call == Handling("accept_at_term", Null, "save_if_in_review", att, events, FALSE)
  <1>1. v # Null /\ Begin(c, call)
    BY DEF AcceptAtTerm, TermMayClose, CanAcceptAtTerm
  <1>2. v \in Verdict
    BY <1>1, RowIsSound DEF Row
  <1>3. att \in Row /\ Sound(att) /\ v \in Judgements(att)
    <2> HIDE DEF v
    <2> QED  BY <1>2, RowIsSound, DeliverSound
  <1>4. events \in Seq(Event) /\ Tells(events, Judgements(att))
    <2> HIDE DEF v
    <2> QED  BY <1>2, <1>3, DeliverTold
  <1>5. "accept_at_term" \in Op
    BY DEF Op
  <1> HIDE DEF att, events
  <1>6. call \in Call /\ Placed(call) /\ Traced(call)
    BY <1>3, <1>4, <1>5, MutatedFits
  <1> HIDE DEF call
  <1> QED  BY <1>1, <1>6, BeginStep

-----------------------------------------------------------------------------
(* Writing the row, publishing, and what is no call's step.                *)

LEMMA WriteRowStep ==
    ASSUME IInv, NEW c \in Calls, calls[c].pc \in {"save", "save_if_in_review"}, WriteRow(c)
    PROVE  IInv'
  <1>1. calls[c] \in Call /\ Placed(calls[c]) /\ Traced(calls[c])
    BY DEF IInv, TypeOK
  <1>2. calls[c].op \in Op /\ calls[c].att \in Row /\ Sound(calls[c].att)
    BY <1>1 DEF Placed
  <1>3. /\ row' = calls[c].att
        /\ stored' = stored \cup Judgements(calls[c].att)
        /\ calls' = [calls EXCEPT ![c] = AfterSave(calls[c])]
        /\ UNCHANGED <<drafts, asked, now, published, repeated>>
    BY DEF WriteRow
  <1>4. Judgements(calls[c].att) \subseteq Verdict
    BY <1>2 DEF Judgements, Row
  <1>5. stored' \subseteq Verdict
    BY <1>3, <1>4 DEF IInv, TypeOK
  <1>6. Tells(calls[c].events, stored')
    BY <1>1, <1>3 DEF Traced, Tells, Speaks, Unsaved
  <1>7. PICK call : call = AfterSave(calls[c])
    OBVIOUS
  <1>8. \/ call = NoCall
        \/ call = [calls[c] EXCEPT !.pc = "settle"]
        \/ call = [calls[c] EXCEPT !.pc = "publish"] /\ calls[c].events # <<>>
    BY <1>7 DEF AfterSave
  <1>9. call \in Call
    BY <1>1, <1>8, NoCallFits DEF Call, Pc
  <1>10. Placed(call)' /\ Traced(call)'
    <2>1. CASE call = NoCall
      BY <2>1 DEF Placed, Traced, Tells, NoCall
    <2>2. CASE call # NoCall
      <3>1. /\ call.pc \in {"settle", "publish"} /\ call.op = calls[c].op
            /\ call.att = calls[c].att /\ call.events = calls[c].events
            /\ call.pc = "publish" => calls[c].events # <<>>
        BY <1>1, <1>8, <2>2 DEF Call
      <3> QED  BY <1>2, <1>6, <3>1 DEF Placed, Traced, Tells, Speaks, Unsaved
    <2> QED  BY <2>1, <2>2
  <1>11. Judgements(row') \subseteq stored'
    BY <1>3
  <1>12. \A e \in published : OfVerdict(e) => e.subject \in stored'
    BY <1>3 DEF IInv, SavedBeforePublished, OfVerdict
  <1>13. calls' = [calls EXCEPT ![c] = call] /\ stored \subseteq stored'
    BY <1>3, <1>7
  <1> QED  BY <1>2, <1>3, <1>5, <1>9, <1>10, <1>11, <1>12, <1>13, CallStep DEF IInv, TypeOK

LEMMA SaveStep ==
    ASSUME IInv, NEW c \in Calls, SaveAttempt(c) \/ SaveIfInReview(c)
    PROVE  IInv'
  <1>1. \/ calls[c].pc \in {"save", "save_if_in_review"} /\ WriteRow(c)
        \/ Finish(c) /\ UNCHANGED <<row, drafts, asked, now, history>>
    BY DEF SaveAttempt, SaveIfInReview
  <1> QED  BY <1>1, WriteRowStep, FinishStep

LEMMA PublishNextStep ==
    ASSUME IInv, NEW c \in Calls, PublishNext(c)
    PROVE  IInv'
  <1> DEFINE events == calls[c].events
             e == Head(events)
  <1>1. /\ calls[c].pc = "publish"
        /\ published' = published \cup {e}
        /\ repeated' = repeated \cup (published \cap {e})
        /\ calls' = [calls EXCEPT ![c] = AfterSave(Sent(calls[c]))]
        /\ UNCHANGED <<row, drafts, asked, now, stored>>
    BY DEF PublishNext
  <1>2. calls[c] \in Call /\ Placed(calls[c]) /\ Traced(calls[c])
    BY DEF IInv, TypeOK
  <1>3. events \in Seq(Event) /\ events # <<>> /\ Tells(events, stored)
    BY <1>1, <1>2 DEF Call, Placed, Traced, Speaks, Unsaved
  <1>4. e \in Event /\ (OfVerdict(e) => e.subject \in stored)
    BY <1>3 DEF Tells
  <1>5. Tail(events) \in Seq(Event) /\ Tells(Tail(events), stored)
    <2>1. Tail(events) \in Seq(Event) /\ Len(Tail(events)) = Len(events) - 1
          /\ \A i \in 1..Len(Tail(events)) : Tail(events)[i] = events[i + 1]
      BY <1>3
    <2>2. \A i \in 1..Len(Tail(events)) : i + 1 \in 1..Len(events)
      BY <1>3, <2>1
    <2> HIDE DEF events
    <2> QED  BY <1>3, <2>1, <2>2 DEF Tells
  <1>6. PICK rest : rest = Sent(calls[c])
    OBVIOUS
  <1>7. /\ rest \in Call /\ rest.op = calls[c].op /\ rest.att = calls[c].att
        /\ rest.events = Tail(events)
    BY <1>2, <1>5, <1>6 DEF Sent, Call
  <1>8. PICK call : call = AfterSave(rest)
    OBVIOUS
  <1>9. call \in Call /\ Placed(call) /\ Traced(call)
    <2>1. rest.op \in Op /\ rest.att \in Row /\ Sound(rest.att) /\ Tells(rest.events, stored)
      BY <1>1, <1>2, <1>5, <1>7 DEF Placed
    <2> QED  BY <1>7, <1>8, <2>1, AfterSaveFits
  <1>10. Placed(call)' /\ Traced(call)'
    BY <1>1, <1>9 DEF Placed, Traced, Speaks
  <1>11. \A f \in published' : OfVerdict(f) => f.subject \in stored'
    BY <1>1, <1>4 DEF IInv, SavedBeforePublished, OfVerdict
  <1>12. calls' = [calls EXCEPT ![c] = call]
    BY <1>1, <1>6, <1>8
  <1>13. published' \subseteq Event /\ repeated' \subseteq published'
    BY <1>1, <1>4 DEF IInv, TypeOK
  <1> HIDE DEF e, events
  <1> QED  BY <1>1, <1>9, <1>10, <1>11, <1>12, <1>13, CallStep DEF IInv, TypeOK

LEMMA CrashStep ==
    ASSUME IInv, NEW c \in Calls, Crash(c)
    PROVE  IInv'
  BY FinishStep DEF Crash

LEMMA AskModelStep ==
    ASSUME IInv, NEW a \in AiCalls, AskModel(a)
    PROVE  IInv'
  <1>1. PICK cap \in Capability, result \in {"approved", "returned", "FAILED"} :
          asked' = [asked EXCEPT ![a] = [cap |-> cap, answer |-> row.answer, result |-> result]]
    BY DEF AskModel
  <1>2. UNCHANGED <<row, drafts, calls, now, published, repeated, stored>>
    BY DEF AskModel, history
  <1>3. [cap |-> cap, answer |-> row.answer, result |-> result] \in Answer
    BY RowIsSound DEF Row, Answer
  <1>4. /\ asked' \in [AiCalls -> Answer \cup {Null}]
        /\ \A b \in AiCalls : asked[b] \in Answer => asked'[b] \in Answer
    BY <1>1, <1>3 DEF IInv, TypeOK
  <1>5. TypeOK'
    BY <1>2, <1>4 DEF IInv, TypeOK
  <1>6. ASSUME NEW c \in Calls PROVE Placed(calls[c])' /\ Traced(calls[c])'
    <2>1. Placed(calls[c]) /\ Traced(calls[c])
      BY DEF IInv
    <2>2. Traced(calls[c])'
      BY <1>2, <2>1 DEF Traced, Speaks
    <2>3. Placed(calls[c])'
      BY <1>2, <1>4, <2>1 DEF Placed
    <2> QED  BY <2>2, <2>3
  <1> QED  BY <1>2, <1>5, <1>6 DEF IInv, SavedBeforePublished

LEMMA NothingRead ==
    ASSUME IInv, UNCHANGED <<row, drafts, asked, calls, history>>, now' \in Nat
    PROVE  IInv'
  <1>1. TypeOK'
    BY DEF IInv, TypeOK, history
  <1>2. ASSUME NEW c \in Calls PROVE Placed(calls[c])' /\ Traced(calls[c])'
    BY DEF IInv, Placed, Traced, Speaks, history
  <1> QED  BY <1>1, <1>2 DEF IInv, SavedBeforePublished, history

-----------------------------------------------------------------------------
(* The theorems.                                                           *)

LEMMA InitIsInv == Init => IInv
  <1> SUFFICES ASSUME Init PROVE IInv
    OBVIOUS
  <1>1. row \in Row /\ Sound(row) /\ Judgements(row) = {}
    <2>1. PICK practice \in Modes, known \in {FALSE, AtSchool} : row = NewAttempt(practice, known)
      BY DEF Init
    <2>2. practice \in BOOLEAN /\ known \in BOOLEAN
      BY ReviewAssumption
    <2> QED  BY <2>1, <2>2, NewAttemptSound
  <1>2. TypeOK
    BY <1>1, NoCallFits DEF Init, TypeOK
  <1>3. \A c \in Calls : Placed(calls[c]) /\ Traced(calls[c])
    BY NoCallFits DEF Init
  <1>4. SavedBeforePublished
    BY DEF Init, SavedBeforePublished
  <1> QED  BY <1>1, <1>2, <1>3, <1>4 DEF IInv

LEMMA NextKeepsInv == IInv /\ [Next]_vars => IInv'
  <1> SUFFICES ASSUME IInv, [Next]_vars PROVE IInv'
    OBVIOUS
  <1>1. ASSUME NEW c \in Calls, Learner(c) PROVE IInv'
    BY <1>1, SubmitAnswerStep, SaveDraftStep, AbandonStep, RevealStep, DisputeStep DEF Learner
  <1>2. ASSUME NEW c \in Calls, Staff(c) PROVE IInv'
    BY <1>2, ReviewAttemptStep, BatchApproveStep, ClaimStep DEF Staff
  <1>3. ASSUME NEW c \in Calls, Platform(c) PROVE IInv'
    BY <1>3, LoadForModelStep, AcceptAtTermStep, AbandonStep DEF Platform
  <1>4. ASSUME NEW c \in Calls, Step(c) PROVE IInv'
    BY <1>4, SaveStep, PublishNextStep, CrashStep, DisputeStep, SettleStep, FindStoredStep,
       FindExistingStep, WriteDraftStep, ReviewReadStep DEF Step
  <1>5. ASSUME NEW a \in AiCalls, AskModel(a) PROVE IInv'
    BY <1>5, AskModelStep
  <1>6. CASE Tick
    <2>1. UNCHANGED <<row, drafts, asked, calls, history>> /\ now' \in Nat
      BY <1>6 DEF Tick, IInv, TypeOK
    <2> QED  BY <2>1, NothingRead
  <1>7. CASE UNCHANGED vars
    <2>1. UNCHANGED <<row, drafts, asked, calls, history>> /\ now' \in Nat
      BY <1>7 DEF vars, history, IInv, TypeOK
    <2> QED  BY <2>1, NothingRead
  <1> QED  BY <1>1, <1>2, <1>3, <1>4, <1>5, <1>6, <1>7 DEF Next

(***************************************************************************)
(* Whatever handlers are in flight, however many, and wherever they crash: *)
(* the row and every copy of it that may still be written back are sound,  *)
(* and every event still to be published is about a judgement that is, or  *)
(* is about to be, on the row.                                             *)
(***************************************************************************)
THEOREM CopiesInFlightAreSound == Spec => []IInv
  BY InitIsInv, NextKeepsInv, PTL DEF Spec

(***************************************************************************)
(* Every variable keeps its type: in particular a verdict a model's call   *)
(* writes always has an answer behind it.                                  *)
(***************************************************************************)
THEOREM TypeCorrect == Spec => []TypeOK
  <1>1. IInv => TypeOK
    BY DEF IInv
  <1> QED  BY <1>1, CopiesInFlightAreSound, PTL

(***************************************************************************)
(* An event about a judgement leaves only after a save of the row with     *)
(* that judgement: ReviewAttempt, BatchApprove, AcceptAtTerm, PutAiReview  *)
(* and SubmitAnswer publish last.                                          *)
(***************************************************************************)
THEOREM EventsFollowTheSave == Spec => []SavedBeforePublished
  <1>1. IInv => SavedBeforePublished
    BY DEF IInv
  <1> QED  BY <1>1, CopiesInFlightAreSound, PTL

(***************************************************************************)
(* The columns of the row agree although every save writes the whole row   *)
(* from a copy that may be stale.                                          *)
(***************************************************************************)
THEOREM RowStaysWellFormed == Spec => []RowWellFormed
  <1>1. IInv => RowWellFormed
    BY DEF IInv, Sound, RowWellFormed
  <1> QED  BY <1>1, CopiesInFlightAreSound, PTL

(***************************************************************************)
(* No interleaving of hand-ins buys a check beyond the document's budget   *)
(* as the row counts them.                                                 *)
(***************************************************************************)
THEOREM BudgetHolds == Spec => []ChecksWithinBudget
  <1>1. IInv => ChecksWithinBudget
    BY DEF IInv, Sound, ChecksWithinBudget
  <1> QED  BY <1>1, CopiesInFlightAreSound, PTL

-----------------------------------------------------------------------------
(***************************************************************************)
(* Disputes.  The column `disputed` is set once and never cleared: a draft *)
(* that replaces another takes it over, an INSERT is refused beside one    *)
(* that is there.  Whoever sets it is the only one to tell of it, so while *)
(* somebody still has that to do, nobody has done it.                      *)
(***************************************************************************)
IsDispute(e) == e.type = "ai_review_disputed"
Disputed == drafts["review_direct"] # Null /\ drafts["review_direct"].disputed
NoDispute(events) == \A i \in 1..Len(events) : ~IsDispute(events[i])
NoDisputeTold == \A e \in published : ~IsDispute(e)

OneTells ==
    \A c \in Calls : ~NoDispute(calls[c].events) =>
        /\ Disputed /\ NoDisputeTold /\ Len(calls[c].events) = 1
        /\ \A d \in Calls \ {c} : NoDispute(calls[d].events)
ToldWhenDisputed == ~NoDisputeTold => Disputed
NewDraftsUndisputed ==
    \A c \in Calls : calls[c].pc = "draft" /\ calls[c].fresh => ~calls[c].draft.disputed

DisputeInv == IInv /\ OneTells /\ ToldWhenDisputed /\ NewDraftsUndisputed /\ DisputeCountedOnce

\* Nothing of the step is about a dispute.
Quiet(c, call) ==
    /\ calls' = [calls EXCEPT ![c] = call]
    /\ NoDispute(call.events) \/ call.events = calls[c].events
    /\ call.pc = "draft" /\ call.fresh => ~call.draft.disputed

LEMMA QuietStep ==
    ASSUME DisputeInv, NEW c \in Calls, NEW call, Quiet(c, call), Disputed' <=> Disputed,
           UNCHANGED <<published, repeated>>
    PROVE  (OneTells /\ ToldWhenDisputed /\ NewDraftsUndisputed /\ DisputeCountedOnce)'
  <1>1. calls \in [Calls -> Call]
    BY DEF DisputeInv, IInv, TypeOK
  <1>2. calls'[c] = call /\ \A d \in Calls \ {c} : calls'[d] = calls[d]
    BY <1>1 DEF Quiet
  <1>3. NoDisputeTold' <=> NoDisputeTold
    BY DEF NoDisputeTold
  <1>4. ASSUME NEW d \in Calls, ~NoDispute(calls'[d].events)
        PROVE  calls'[d].events = calls[d].events
    BY <1>2, <1>4 DEF Quiet
  <1>5. OneTells'
    <2>1. SUFFICES ASSUME NEW d \in Calls, ~NoDispute(calls'[d].events)
                   PROVE  /\ Disputed' /\ NoDisputeTold' /\ Len(calls'[d].events) = 1
                          /\ \A e \in Calls \ {d} : NoDispute(calls'[e].events)
      BY DEF OneTells, NoDispute
    <2>2. /\ Disputed /\ NoDisputeTold /\ Len(calls[d].events) = 1
          /\ \A e \in Calls \ {d} : NoDispute(calls[e].events)
      BY <1>4, <2>1 DEF DisputeInv, OneTells
    <2>3. \A e \in Calls \ {d} : NoDispute(calls'[e].events)
      BY <1>4, <2>2
    <2> QED  BY <1>3, <1>4, <2>1, <2>2, <2>3
  <1>6. ToldWhenDisputed'
    BY <1>3 DEF ToldWhenDisputed, DisputeInv
  <1>7. NewDraftsUndisputed'
    BY <1>2 DEF NewDraftsUndisputed, DisputeInv, Quiet
  <1>8. DisputeCountedOnce'
    BY DEF DisputeCountedOnce, DisputeInv
  <1> QED  BY <1>5, <1>6, <1>7, <1>8

LEMMA NothingDisputed == NoDispute(<<>>) /\ NoDispute(NoCall.events) /\ NoCall.pc = "idle"
  BY DEF NoDispute, NoCall

\* The entity's events are about other things.
LEMMA HandInsDisputeNothing ==
    ASSUME NEW att
    PROVE  NoDispute(ScoreEvents(att)) /\ NoDispute(RouteEvents(att)) /\ NoDispute(CloseEvents(att))
  <1>1. NoDispute(ScoreEvents(att))
    BY DEF NoDispute, IsDispute, ScoreEvents, Announce
  <1>2. NoDispute(RouteEvents(att))
    BY DEF NoDispute, IsDispute, RouteEvents, Announce
  <1>3. NoDispute(CloseEvents(att))
    BY DEF NoDispute, IsDispute, CloseEvents, Announce
  <1> QED  BY <1>1, <1>2, <1>3

LEMMA VerdictsDisputeNothing ==
    ASSUME NEW v, NEW revising
    PROVE  LET told == DeliverEvents(v, revising)
           IN  NoDispute(told) /\ NoDispute(Append(told, Announce("ai_reviewed", v)))
  <1> DEFINE evidence == [type |-> IF v.outcome = "returned" THEN "returned" ELSE "scored",
                          subject |-> v, revises |-> revising]
             letter == [type |-> "reviewed", subject |-> v, revises |-> revising]
             counted == Announce("ai_reviewed", v)
             told == DeliverEvents(v, revising)
  <1>1. ~IsDispute(evidence) /\ ~IsDispute(letter) /\ ~IsDispute(counted)
    BY DEF IsDispute, Announce
  <1>2. told = <<evidence, letter>> \/ told = <<evidence>>
    BY Zenon DEF DeliverEvents
  <1> HIDE DEF evidence, letter, counted, told
  <1>3. NoDispute(<<evidence, letter>>) /\ NoDispute(<<evidence>>)
        /\ NoDispute(Append(<<evidence, letter>>, counted))
        /\ NoDispute(Append(<<evidence>>, counted))
    BY <1>1 DEF NoDispute
  <1> QED  BY <1>2, <1>3 DEF told, counted

-----------------------------------------------------------------------------
(* The handlers and steps that are about something else.                   *)

LEMMA HandlingIsQuiet ==
    ASSUME NEW c \in Calls, NEW op, NEW who, NEW pc, pc # "draft", NEW att,
           NEW events, NoDispute(events), NEW settles,
           Begin(c, Handling(op, who, pc, att, events, settles))
    PROVE  \E call : Quiet(c, call)
  <1> DEFINE call == Handling(op, who, pc, att, events, settles)
  <1>1. call.events = events /\ call.pc = pc
    BY DEF Handling
  <1> HIDE DEF call
  <1> QED  BY <1>1 DEF Begin, Quiet, call

LEMMA LearnerIsQuiet ==
    ASSUME NEW c \in Calls, Learner(c)
    PROVE  \E call : Quiet(c, call)
  <1> USE NothingDisputed
  <1>1. CASE SubmitAnswer(c)
    <2> DEFINE handed == Submit(Reopened)
    <2>1. \E att, events : /\ Begin(c, Mutated("submit_answer", Null, att, events))
                           /\ NoDispute(events)
      <3>1. CASE Begin(c, Mutated("submit_answer", Null, Score(handed), ScoreEvents(handed)))
        BY <3>1, HandInsDisputeNothing
      <3>2. CASE Begin(c, Mutated("submit_answer", Null, RecordPartialCheck(handed), <<>>))
        BY <3>2
      <3>3. ASSUME NEW work, NEW policy,
                   Begin(c, Mutated("submit_answer", Null, RouteForReview(work, policy),
                                    RouteEvents(work)))
            PROVE  \E att, events : /\ Begin(c, Mutated("submit_answer", Null, att, events))
                                    /\ NoDispute(events)
        BY <3>3, HandInsDisputeNothing
      <3>4. ASSUME NEW work,
                   Begin(c, Mutated("submit_answer", Null, CloseWithoutReviewer(work),
                                    CloseEvents(work)))
            PROVE  \E att, events : /\ Begin(c, Mutated("submit_answer", Null, att, events))
                                    /\ NoDispute(events)
        BY <3>4, HandInsDisputeNothing
      <3> QED  BY <1>1, <3>1, <3>2, <3>3, <3>4, Zenon DEF SubmitAnswer
    <2> QED  BY <2>1, HandlingIsQuiet DEF Mutated
  <1>2. CASE SaveDraft(c)
    BY <1>2, HandlingIsQuiet DEF SaveDraft, Mutated
  <1>3. CASE AbandonAttempt(c)
    BY <1>3, HandlingIsQuiet DEF AbandonAttempt, Mutated
  <1>4. CASE RevealAnswersOf(c)
    BY <1>4, HandlingIsQuiet DEF RevealAnswersOf, Mutated
  <1>5. CASE DisputeAiReview(c)
    BY <1>5, HandlingIsQuiet DEF DisputeAiReview, Loaded
  <1> QED  BY <1>1, <1>2, <1>3, <1>4, <1>5 DEF Learner

LEMMA StaffIsQuiet ==
    ASSUME NEW c \in Calls, Staff(c)
    PROVE  \E call : Quiet(c, call)
  <1> USE NothingDisputed
  <1>1. CASE ReviewAttempt(c)
    <2>1. PICK t, v, settles : Begin(c, Handling("review", t, "save", Deliver(row, v),
                                                 DeliverEvents(v, AcceptedAtTerm(row)), settles))
      BY <1>1, Zenon DEF ReviewAttempt
    <2> QED  BY <2>1, VerdictsDisputeNothing, HandlingIsQuiet
  <1>2. CASE BatchApprove(c)
    <2>1. PICK t, v : Begin(c, Mutated("batch_approve", t, Deliver(row, v), DeliverEvents(v, FALSE)))
      BY <1>2, Zenon DEF BatchApprove
    <2> QED  BY <2>1, VerdictsDisputeNothing, HandlingIsQuiet DEF Mutated
  <1>3. CASE ClaimReview(c)
    BY <1>3, HandlingIsQuiet DEF ClaimReview, Mutated
  <1>4. CASE ReleaseReviewOf(c)
    BY <1>4, HandlingIsQuiet DEF ReleaseReviewOf, Mutated
  <1> QED  BY <1>1, <1>2, <1>3, <1>4 DEF Staff

LEMMA PlatformIsQuiet ==
    ASSUME NEW c \in Calls, Platform(c)
    PROVE  \E call : Quiet(c, call)
  <1> USE NothingDisputed
  <1>1. CASE PutAiReview(c)
    BY <1>1, HandlingIsQuiet DEF PutAiReview, Loaded
  <1>2. CASE PutAiDraft(c)
    BY <1>2, HandlingIsQuiet DEF PutAiDraft, Loaded
  <1>3. CASE GiveUpAiReview(c)
    BY <1>3, HandlingIsQuiet DEF GiveUpAiReview, Loaded
  <1>4. CASE AcceptAtTerm(c)
    <2>1. Begin(c, Handling("accept_at_term", Null, "save_if_in_review",
                            Deliver(row, row.provisional),
                            Append(DeliverEvents(row.provisional, FALSE),
                                   Announce("ai_reviewed", row.provisional)), FALSE))
      BY <1>4 DEF AcceptAtTerm
    <2> QED  BY <2>1, VerdictsDisputeNothing, HandlingIsQuiet
  <1>5. CASE ExerciseDeleted(c)
    BY <1>5, HandlingIsQuiet DEF ExerciseDeleted, Mutated
  <1> QED  BY <1>1, <1>2, <1>3, <1>4, <1>5 DEF Platform

-----------------------------------------------------------------------------
(* The steps of a call in flight.                                          *)

LEMMA FinishIsQuiet ==
    ASSUME NEW c \in Calls, Finish(c)
    PROVE  Quiet(c, NoCall)
  BY NothingDisputed DEF Finish, Quiet

\* A call goes on with the events it has.
LEMMA SameEventsQuiet ==
    ASSUME NEW c \in Calls, NEW call, calls' = [calls EXCEPT ![c] = call],
           call.events = calls[c].events, call.pc # "draft"
    PROVE  Quiet(c, call)
  BY DEF Quiet

LEMMA AfterSaveQuiet ==
    ASSUME NEW c \in Calls, NEW call \in Call, calls' = [calls EXCEPT ![c] = AfterSave(call)],
           call.events = calls[c].events \/ NoDispute(call.events)
    PROVE  Quiet(c, AfterSave(call))
  <1>1. /\ AfterSave(call).pc # "draft"
        /\ AfterSave(call).events = call.events \/ AfterSave(call).events = <<>>
    <2>1. CASE call.settles
      BY <2>1 DEF AfterSave, Call
    <2>2. CASE ~call.settles /\ call.events # <<>>
      BY <2>2 DEF AfterSave, Call
    <2>3. CASE ~call.settles /\ call.events = <<>>
      BY <2>3 DEF AfterSave, NoCall
    <2> QED  BY <2>1, <2>2, <2>3
  <1> QED  BY <1>1, NothingDisputed DEF Quiet

LEMMA RuledQuiet ==
    ASSUME IInv, NEW c \in Calls, NEW att, NEW events, NoDispute(events), Ruled(c, att, events)
    PROVE  \E call : Quiet(c, call)
  <1> DEFINE on(pc) == [[calls[c] EXCEPT !.att = att, !.events = events] EXCEPT !.pc = pc]
  <1>1. calls[c] \in Call
    BY DEF IInv, TypeOK
  <1>2. on("existing").events = events /\ on("existing").pc = "existing"
        /\ on("save").events = events /\ on("save").pc = "save"
    BY <1>1 DEF Call
  <1>3. \/ calls' = [calls EXCEPT ![c] = on("existing")]
        \/ calls' = [calls EXCEPT ![c] = on("save")]
        \/ Finish(c)
    BY DEF Ruled
  <1> HIDE DEF on
  <1> QED  BY <1>2, <1>3, FinishIsQuiet DEF Quiet

\* What a step that writes no draft and publishes nothing makes of its call.
LEMMA StepIsQuiet ==
    ASSUME DisputeInv, NEW c \in Calls,
           \/ SaveAttempt(c) \/ SaveIfInReview(c) \/ Crash(c) \/ DisputeRead(c)
           \/ SettleRead(c) \/ Label(c) \/ FindStored(c) \/ ReviewRead(c)
    PROVE  \E call : Quiet(c, call)
  <1>1. calls[c] \in Call /\ calls \in [Calls -> Call] /\ IInv
    BY DEF DisputeInv, IInv, TypeOK
  <1>2. CASE SaveAttempt(c) \/ SaveIfInReview(c)
    <2>1. calls' = [calls EXCEPT ![c] = AfterSave(calls[c])] \/ Finish(c)
      BY <1>2 DEF SaveAttempt, SaveIfInReview, WriteRow
    <2> QED  BY <1>1, <2>1, AfterSaveQuiet, FinishIsQuiet
  <1>3. CASE Crash(c)
    BY <1>3, FinishIsQuiet DEF Crash
  <1>4. CASE DisputeRead(c)
    <2> DEFINE call == [calls[c] EXCEPT !.pc = "mark", !.draft = drafts["review_direct"]]
    <2>1. calls' = [calls EXCEPT ![c] = call] \/ Finish(c)
      BY <1>4 DEF DisputeRead
    <2>2. call.events = calls[c].events /\ call.pc = "mark"
      BY <1>1 DEF Call
    <2> HIDE DEF call
    <2> QED  BY <2>1, <2>2, SameEventsQuiet, FinishIsQuiet
  <1>5. CASE SettleRead(c) \/ Label(c)
    <2> DEFINE plain == [calls[c] EXCEPT !.settles = FALSE]
               draft == drafts[TeacherDraftCapability(calls[c].att)]
               call == [calls[c] EXCEPT !.pc = "label", !.draft = [draft EXCEPT !.status = "DECIDED"]]
    <2>1. calls' = [calls EXCEPT ![c] = AfterSave(plain)] \/ calls' = [calls EXCEPT ![c] = call]
      BY <1>5 DEF SettleRead, Label, Unlabelled
    <2>2. plain \in Call /\ plain.events = calls[c].events
      BY <1>1 DEF Call
    <2>3. call.events = calls[c].events /\ call.pc = "label"
      BY <1>1 DEF Call
    <2> HIDE DEF plain, call
    <2> QED  BY <2>1, <2>2, <2>3, AfterSaveQuiet, SameEventsQuiet
  <1>6. CASE FindStored(c)
    <2>1. \/ Finish(c)
          \/ \E att, events : Ruled(c, att, events) /\ NoDispute(events)
      <3> DEFINE att == calls[c].att
                 v == ModelVerdict(calls[c].who)
      <3>1. \/ Finish(c) \/ Ruled(c, att, <<>>) \/ Ruled(c, KeepProvisional(att, v), <<>>)
            \/ Ruled(c, Deliver(att, v),
                     Append(DeliverEvents(v, FALSE), Announce("ai_reviewed", v)))
        BY <1>6, Zenon DEF FindStored
      <3> HIDE DEF att, v
      <3> QED  BY <3>1, NothingDisputed, VerdictsDisputeNothing, Zenon
    <2> QED  BY <1>1, <2>1, RuledQuiet, FinishIsQuiet
  <1>7. CASE ReviewRead(c)
    <2> DEFINE call == [calls[c] EXCEPT !.pc = "save", !.att = GiveUpReview(calls[c].att)]
    <2>1. calls' = [calls EXCEPT ![c] = call] \/ Finish(c)
      BY <1>7 DEF ReviewRead
    <2>2. call.events = calls[c].events /\ call.pc = "save"
      BY <1>1 DEF Call
    <2> HIDE DEF call
    <2> QED  BY <2>1, <2>2, SameEventsQuiet, FinishIsQuiet
  <1> QED  BY <1>2, <1>3, <1>4, <1>5, <1>6, <1>7

\* A draft loaded to be replaced takes its dispute over; a new one has none.
LEMMA FindExistingQuiet ==
    ASSUME DisputeInv, NEW c \in Calls, FindExisting(c)
    PROVE  \E call : Quiet(c, call)
  <1> DEFINE existing == drafts[CapOf(calls[c])]
             draft == [status |-> DraftStatus(calls[c].who), call |-> calls[c].who,
                       disputed |-> existing # Null /\ existing.disputed]
             call == [calls[c] EXCEPT !.pc = "draft", !.fresh = (existing = Null), !.draft = draft]
  <1>1. calls[c] \in Call
    BY DEF DisputeInv, IInv, TypeOK
  <1>2. calls' = [calls EXCEPT ![c] = call] \/ Finish(c)
    BY DEF FindExisting
  <1>3. call.events = calls[c].events
    BY <1>1 DEF Call
  <1>4. existing = Null => ~draft.disputed
    OBVIOUS
  <1>5. call.fresh = (existing = Null) /\ call.draft = draft
    BY <1>1 DEF Call
  <1>6. call.fresh => ~call.draft.disputed
    <2> HIDE DEF call, draft, existing
    <2> QED  BY <1>4, <1>5
  <1> HIDE DEF call
  <1>7. calls' = [calls EXCEPT ![c] = call] => Quiet(c, call)
    BY <1>3, <1>6 DEF Quiet
  <1> QED  BY <1>2, <1>7, FinishIsQuiet

\* Writing a draft over another leaves the dispute as it is stored.
LEMMA RewrittenKeepsDispute ==
    ASSUME NEW cap \in Capability, NEW draft \in Draft, drafts[cap] \in Draft,
           drafts \in [Capability -> Draft \cup {Null}],
           drafts' = [drafts EXCEPT ![cap] = Rewritten(cap, draft)]
    PROVE  Disputed' <=> Disputed
  <1>1. "review_direct" \in Capability
    BY DEF Capability
  <1>2. \A d \in Draft : d # Null
    BY RowAssumption
  <1>3. Rewritten(cap, draft) \in Draft /\ Rewritten(cap, draft).disputed = drafts[cap].disputed
    BY DEF Rewritten, Draft
  <1>4. drafts'[cap] = Rewritten(cap, draft) /\ \A o \in Capability \ {cap} : drafts'[o] = drafts[o]
    BY <1>3
  <1>5. CASE cap = "review_direct"
    BY <1>2, <1>3, <1>4, <1>5 DEF Disputed
  <1>6. CASE cap # "review_direct"
    BY <1>1, <1>4, <1>6 DEF Disputed
  <1> QED  BY <1>5, <1>6

LEMMA LabelKeepsDispute ==
    ASSUME DisputeInv, NEW c \in Calls, Label(c)
    PROVE  Disputed' <=> Disputed
  <1> DEFINE cap == TeacherDraftCapability(calls[c].att)
  <1>1. cap \in Capability
    BY DEF TeacherDraftCapability, Capability
  <1>2. calls[c].draft \in Draft /\ drafts[cap] \in Draft /\ drafts \in [Capability -> Draft \cup {Null}]
    BY DEF DisputeInv, IInv, TypeOK, Placed, Label
  <1>3. drafts' = drafts \/ drafts' = [drafts EXCEPT ![cap] = Rewritten(cap, calls[c].draft)]
    BY DEF Label
  <1> HIDE DEF cap
  <1> QED  BY <1>1, <1>2, <1>3, RewrittenKeepsDispute DEF Disputed

LEMMA WriteDraftQuiet ==
    ASSUME DisputeInv, NEW c \in Calls, WriteDraft(c)
    PROVE  (Disputed' <=> Disputed) /\ \E call : Quiet(c, call)
  <1> DEFINE cap == CapOf(calls[c])
             draft == calls[c].draft
             save == [calls[c] EXCEPT !.pc = "save"]
  <1>1. cap \in Capability /\ "review_direct" \in Capability
    BY DEF CapOf, Capability
  <1>2. /\ calls[c] \in Call /\ draft \in Draft /\ drafts \in [Capability -> Draft \cup {Null}]
        /\ ~calls[c].fresh => drafts[cap] \in Draft
        /\ calls[c].fresh => ~draft.disputed
    BY DEF DisputeInv, IInv, TypeOK, Placed, WriteDraft, NewDraftsUndisputed
  <1>3. \E call : Quiet(c, call)
    <2>1. calls' = [calls EXCEPT ![c] = save] \/ Finish(c)
      BY DEF WriteDraft, Goto
    <2>2. save.events = calls[c].events /\ save.pc = "save"
      BY <1>2 DEF Call
    <2> HIDE DEF save
    <2> QED  BY <2>1, <2>2, SameEventsQuiet, FinishIsQuiet
  <1>4. CASE UNCHANGED drafts
    BY <1>3, <1>4 DEF Disputed
  <1>5. CASE calls[c].fresh /\ drafts[cap] = Null /\ drafts' = [drafts EXCEPT ![cap] = draft]
    <2>1. drafts'[cap] = draft /\ \A o \in Capability \ {cap} : drafts'[o] = drafts[o]
      <3> HIDE DEF cap, draft
      <3> QED  BY <1>1, <1>2, <1>5
    <2>2. Disputed' <=> Disputed
      <3>1. CASE cap = "review_direct"
        BY <1>2, <1>5, <2>1, <3>1 DEF Disputed
      <3>2. CASE cap # "review_direct"
        BY <1>1, <2>1, <3>2 DEF Disputed
      <3> QED  BY <3>1, <3>2
    <2> QED  BY <1>3, <2>2
  <1>6. CASE ~calls[c].fresh /\ drafts' = [drafts EXCEPT ![cap] = Rewritten(cap, draft)]
    <2>1. Disputed' <=> Disputed
      <3> HIDE DEF cap, draft
      <3> QED  BY <1>1, <1>2, <1>6, RewrittenKeepsDispute
    <2> QED  BY <1>3, <2>1
  <1>7. \/ UNCHANGED drafts
        \/ calls[c].fresh /\ drafts[cap] = Null /\ drafts' = [drafts EXCEPT ![cap] = draft]
        \/ ~calls[c].fresh /\ drafts' = [drafts EXCEPT ![cap] = Rewritten(cap, draft)]
    <2>1. CASE calls[c].fresh /\ drafts[cap] # Null
      BY <2>1 DEF WriteDraft
    <2>2. CASE calls[c].fresh /\ drafts[cap] = Null
      BY <2>2 DEF WriteDraft
    <2>3. CASE ~calls[c].fresh
      BY <2>3 DEF WriteDraft
    <2> QED  BY <2>1, <2>2, <2>3
  <1> QED  BY <1>4, <1>5, <1>6, <1>7

-----------------------------------------------------------------------------
(* The steps that are about a dispute.                                     *)

\* What is not disputed is not told of by anybody, so whoever marks it is alone.
LEMMA MarkDisputedStep ==
    ASSUME DisputeInv, NEW c \in Calls, MarkDisputed(c)
    PROVE  (OneTells /\ ToldWhenDisputed /\ NewDraftsUndisputed /\ DisputeCountedOnce)'
  <1>1. /\ calls[c].pc = "mark" /\ calls[c] \in Call /\ calls \in [Calls -> Call]
        /\ drafts["review_direct"] \in Draft
        /\ drafts \in [Capability -> Draft \cup {Null}]
        /\ published' = published /\ repeated' = repeated
    BY DEF DisputeInv, IInv, TypeOK, Placed, MarkDisputed, history
  <1>2. CASE drafts["review_direct"].disputed
    <2>1. Finish(c) /\ UNCHANGED drafts
      BY <1>2 DEF MarkDisputed
    <2> QED  BY <1>1, <2>1, FinishIsQuiet, QuietStep DEF Disputed
  <1>3. CASE ~drafts["review_direct"].disputed
    <2> DEFINE told == <<Announce("ai_review_disputed", calls[c].att.verdict)>>
               call == [calls[c] EXCEPT !.pc = "publish", !.events = told]
    <2>1. /\ drafts' = [drafts EXCEPT !["review_direct"].disputed = TRUE]
          /\ calls' = [calls EXCEPT ![c] = call]
      BY <1>3 DEF MarkDisputed
    <2>2. "review_direct" \in Capability
      BY DEF Capability
    <2>3. Disputed'
      <3>1. drafts'["review_direct"] = [drafts["review_direct"] EXCEPT !.disputed = TRUE]
        BY <1>1, <2>1, <2>2
      <3>2. drafts'["review_direct"] \in Draft /\ drafts'["review_direct"].disputed
        BY <1>1, <3>1 DEF Draft
      <3> QED  BY <3>2, RowAssumption DEF Disputed
    <2>4. ~Disputed
      BY <1>3 DEF Disputed
    <2>5. NoDisputeTold /\ \A d \in Calls : NoDispute(calls[d].events)
      BY <2>4 DEF DisputeInv, ToldWhenDisputed, OneTells
    <2>6. call.events = told /\ call.pc = "publish" /\ Len(told) = 1
      BY <1>1 DEF Call
    <2>7. calls'[c] = call /\ \A d \in Calls \ {c} : calls'[d] = calls[d]
      BY <1>1, <2>1
    <2> HIDE DEF call, told
    <2>8. OneTells'
      <3>1. NoDisputeTold' /\ \A d \in Calls \ {c} : NoDispute(calls'[d].events)
        BY <1>1, <2>5, <2>7 DEF NoDisputeTold
      <3>2. Len(calls'[c].events) = 1
        BY <2>6, <2>7
      <3> QED  BY <2>3, <3>1, <3>2 DEF OneTells, NoDispute
    <2>9. ToldWhenDisputed' /\ DisputeCountedOnce'
      BY <1>1, <2>3 DEF ToldWhenDisputed, DisputeCountedOnce, DisputeInv
    <2>10. NewDraftsUndisputed'
      BY <2>6, <2>7 DEF NewDraftsUndisputed, DisputeInv
    <2> QED  BY <2>8, <2>9, <2>10
  <1> QED  BY <1>2, <1>3

LEMMA PublishDispute ==
    ASSUME DisputeInv, NEW c \in Calls, PublishNext(c)
    PROVE  (OneTells /\ ToldWhenDisputed /\ NewDraftsUndisputed /\ DisputeCountedOnce)'
  <1> DEFINE e == Head(calls[c].events)
             sent == [calls[c] EXCEPT !.events = Tail(calls[c].events)]
  <1>1. /\ calls[c] \in Call /\ calls[c].events \in Seq(Event) /\ calls[c].events # <<>>
        /\ calls \in [Calls -> Call] /\ drafts' = drafts
        /\ calls[c].pc = "publish" /\ published \subseteq Event
    BY DEF DisputeInv, IInv, TypeOK, Placed, PublishNext, Call
  <1>2. /\ published' = published \cup {e} /\ repeated' = repeated \cup (published \cap {e})
        /\ calls' = [calls EXCEPT ![c] = AfterSave(sent)]
    BY DEF PublishNext, Sent
  <1>3. sent \in Call /\ sent.events = Tail(calls[c].events)
    <2>1. Tail(calls[c].events) \in Seq(Event)
      BY <1>1
    <2> QED  BY <1>1, <2>1 DEF Call
  <1>4. Disputed' <=> Disputed
    BY <1>1 DEF Disputed
  <1> DEFINE call == AfterSave(sent)
  <1>5. call.pc # "draft" /\ (call.events = sent.events \/ call.events = <<>>)
    <2>1. CASE sent.settles
      BY <1>3, <2>1 DEF AfterSave, Call
    <2>2. CASE ~sent.settles /\ sent.events # <<>>
      BY <1>3, <2>2 DEF AfterSave, Call
    <2>3. CASE ~sent.settles /\ sent.events = <<>>
      BY <2>3 DEF AfterSave, NoCall
    <2> QED  BY <2>1, <2>2, <2>3
  <1>6. calls'[c] = call /\ \A d \in Calls \ {c} : calls'[d] = calls[d]
    BY <1>1, <1>2
  <1>7. NewDraftsUndisputed'
    BY <1>5, <1>6 DEF NewDraftsUndisputed, DisputeInv
  <1>8. CASE ~NoDispute(calls[c].events)
    <2>1. /\ Disputed /\ NoDisputeTold /\ Len(calls[c].events) = 1
          /\ \A d \in Calls \ {c} : NoDispute(calls[d].events)
      BY <1>8 DEF DisputeInv, OneTells
    <2>2. NoDispute(call.events)
      <3>1. Tail(calls[c].events) \in Seq(Event) /\ Len(Tail(calls[c].events)) = 0
        BY <1>1, <2>1
      <3>2. NoDispute(Tail(calls[c].events))
        BY <3>1 DEF NoDispute
      <3> QED  BY <1>3, <1>5, <3>2, NothingDisputed
    <2>3. OneTells'
      BY <1>6, <2>1, <2>2 DEF OneTells, NoDispute
    <2>4. \A f \in published' : IsDispute(f) => f = e
      BY <1>2, <2>1 DEF NoDisputeTold
    <2>5. \A f \in published' : IsDispute(f) => f \notin repeated'
      BY <1>2, <2>1, <2>4 DEF NoDisputeTold, DisputeInv, IInv, TypeOK
    <2>6. DisputeCountedOnce'
      BY <2>4, <2>5 DEF DisputeCountedOnce, IsDispute
    <2>7. ToldWhenDisputed'
      BY <1>4, <2>1 DEF ToldWhenDisputed
    <2> QED  BY <1>7, <2>3, <2>6, <2>7
  <1>9. CASE NoDispute(calls[c].events)
    <2>1. ~IsDispute(e)
      BY <1>1, <1>9 DEF NoDispute
    <2>2. NoDispute(call.events)
      <3>1. \A i \in 1..Len(Tail(calls[c].events)) :
              Tail(calls[c].events)[i] = calls[c].events[i + 1] /\ i + 1 \in 1..Len(calls[c].events)
        BY <1>1
      <3>2. NoDispute(Tail(calls[c].events))
        BY <1>9, <3>1 DEF NoDispute
      <3> QED  BY <1>3, <1>5, <3>2, NothingDisputed
    <2>3. NoDisputeTold' <=> NoDisputeTold
      BY <1>2, <2>1 DEF NoDisputeTold
    <2>4. OneTells'
      <3>1. SUFFICES ASSUME NEW d \in Calls, ~NoDispute(calls'[d].events)
                     PROVE  /\ Disputed' /\ NoDisputeTold' /\ Len(calls'[d].events) = 1
                            /\ \A f \in Calls \ {d} : NoDispute(calls'[f].events)
        BY DEF OneTells, NoDispute
      <3>2. d # c /\ calls'[d] = calls[d]
        BY <1>6, <2>2, <3>1
      <3>3. /\ Disputed /\ NoDisputeTold /\ Len(calls[d].events) = 1
            /\ \A f \in Calls \ {d} : NoDispute(calls[f].events)
        BY <3>1, <3>2 DEF DisputeInv, OneTells
      <3>4. \A f \in Calls \ {d} : NoDispute(calls'[f].events)
        BY <1>6, <2>2, <3>3
      <3> QED  BY <1>4, <2>3, <3>2, <3>3, <3>4
    <2>5. ToldWhenDisputed'
      BY <1>4, <2>3 DEF ToldWhenDisputed, DisputeInv
    <2>6. DisputeCountedOnce'
      BY <1>2, <2>1 DEF DisputeCountedOnce, DisputeInv, IsDispute
    <2> QED  BY <1>7, <2>4, <2>5, <2>6
  <1> QED  BY <1>8, <1>9

LEMMA NextKeepsDispute == DisputeInv /\ [Next]_vars => DisputeInv'
  <1>0. DisputeInv /\ [Next]_vars => IInv'
    BY NextKeepsInv DEF DisputeInv
  <1> SUFFICES ASSUME DisputeInv, [Next]_vars
               PROVE  (OneTells /\ ToldWhenDisputed /\ NewDraftsUndisputed /\ DisputeCountedOnce)'
    BY <1>0 DEF DisputeInv
  <1>1. ASSUME NEW c \in Calls, Learner(c) \/ Staff(c) \/ Platform(c)
        PROVE  (OneTells /\ ToldWhenDisputed /\ NewDraftsUndisputed /\ DisputeCountedOnce)'
    <2>1. \E call : Quiet(c, call)
      BY <1>1, LearnerIsQuiet, StaffIsQuiet, PlatformIsQuiet
    <2>2. UNCHANGED <<drafts, published, repeated>>
      BY <1>1, Zenon DEF Learner, Staff, Platform, Begin, history, SubmitAnswer, SaveDraft,
         AbandonAttempt, RevealAnswersOf, DisputeAiReview, ReviewAttempt, BatchApprove,
         ClaimReview, ReleaseReviewOf, PutAiReview, PutAiDraft, GiveUpAiReview, AcceptAtTerm,
         ExerciseDeleted
    <2> QED  BY <2>1, <2>2, QuietStep DEF Disputed
  <1>2. ASSUME NEW c \in Calls, Step(c)
        PROVE  (OneTells /\ ToldWhenDisputed /\ NewDraftsUndisputed /\ DisputeCountedOnce)'
    <2>1. CASE \/ SaveAttempt(c) \/ SaveIfInReview(c) \/ Crash(c) \/ DisputeRead(c)
               \/ SettleRead(c) \/ FindStored(c) \/ ReviewRead(c)
      <3>1. UNCHANGED <<drafts, published, repeated>>
        BY <2>1, Zenon DEF SaveAttempt, SaveIfInReview, WriteRow, Crash, DisputeRead, SettleRead,
           FindStored, ReviewRead, history
      <3> QED  BY <2>1, <3>1, StepIsQuiet, QuietStep DEF Disputed
    <2>2. CASE Label(c)
      <3>1. UNCHANGED <<published, repeated>>
        BY <2>2 DEF Label, history
      <3> QED  BY <2>2, <3>1, StepIsQuiet, LabelKeepsDispute, QuietStep
    <2>3. CASE FindExisting(c)
      <3>1. UNCHANGED <<drafts, published, repeated>>
        BY <2>3 DEF FindExisting, history
      <3> QED  BY <2>3, <3>1, FindExistingQuiet, QuietStep DEF Disputed
    <2>4. CASE WriteDraft(c)
      <3>1. UNCHANGED <<published, repeated>>
        BY <2>4 DEF WriteDraft, history
      <3> QED  BY <2>4, <3>1, WriteDraftQuiet, QuietStep
    <2>5. CASE MarkDisputed(c)
      BY <2>5, MarkDisputedStep
    <2>6. CASE PublishNext(c)
      BY <2>6, PublishDispute
    <2> QED  BY <1>2, <2>1, <2>2, <2>3, <2>4, <2>5, <2>6 DEF Step
  <1>3. CASE UNCHANGED <<drafts, calls, published, repeated>>
    BY <1>3 DEF DisputeInv, OneTells, ToldWhenDisputed, NewDraftsUndisputed, DisputeCountedOnce,
       NoDisputeTold, NoDispute, Disputed
  <1>4. (\E a \in AiCalls : AskModel(a)) \/ Tick \/ UNCHANGED vars
          => UNCHANGED <<drafts, calls, published, repeated>>
    BY Zenon DEF AskModel, Tick, vars, history
  <1> QED  BY <1>1, <1>2, <1>3, <1>4 DEF Next

(***************************************************************************)
(* A dispute is counted once, for any handlers in flight and whatever      *)
(* crashes: MarkDisputed tells of the mark it set, and no draft written    *)
(* over the review, labelled or put in its place takes the mark away.      *)
(***************************************************************************)
THEOREM DisputesCountOnce == Spec => []DisputeCountedOnce
  <1>1. Init => DisputeInv
    <2> SUFFICES ASSUME Init PROVE DisputeInv
      OBVIOUS
    <2>1. \A c \in Calls : calls[c] = NoCall
      BY DEF Init
    <2>2. published = {}
      BY DEF Init
    <2> QED  BY <2>1, <2>2, InitIsInv, NothingDisputed DEF DisputeInv, OneTells, ToldWhenDisputed,
                NewDraftsUndisputed, DisputeCountedOnce, NoDisputeTold
  <1>2. DisputeInv => DisputeCountedOnce
    BY DEF DisputeInv
  <1> QED  BY <1>1, <1>2, NextKeepsDispute, PTL DEF Spec

-----------------------------------------------------------------------------
(***************************************************************************)
(* One request at a time: apart from presses of dispute, only one slot is  *)
(* ever taken.                                                             *)
(***************************************************************************)
OneAtATime ==
    \A c, d \in Calls : c # d => Runs[c] \subseteq {"dispute"} \/ Runs[d] \subseteq {"dispute"}

(***************************************************************************)
(* What a handler makes of the row it loaded: the row r, the copy att it   *)
(* will write, the events it will publish.                                 *)
(***************************************************************************)
Unrated(events) == \A i \in 1..Len(events) : ~Rates(events[i])

Retouches(r, att, events) ==
    /\ \E claim \in Claim \cup {Null}, revealed \in BOOLEAN :
           att = [r EXCEPT !.claim = claim, !.revealed = revealed]
    /\ events = <<>>

HandsIn(r, att, events) ==
    /\ r.status = "IN_PROGRESS" \/ (r.status = "SCORED" /\ CanReopenForRecheck(r, MaxChecks))
    /\ att.answer = r.answer + 1
    /\ att.verdict = r.verdict /\ att.provisional = r.provisional /\ att.practice = r.practice
    /\ \/ /\ att.status = "SCORED" /\ att.score = MachineVerdict(att)
          /\ events \in {<<>>, <<Announce("scored", att.score)>>}
       \/ /\ att.status \in {"IN_PROGRESS", "ROUTED_FOR_REVIEW", "NO_REVIEWER"}
          /\ att.score = r.score
          /\ Unrated(events)

Abandons(r, att, events) == CanAbandon(r) /\ att = Abandon(r) /\ events = <<>>

GivesUp(r, att, events) == CanGiveUpReview(r) /\ att = GiveUpReview(r) /\ events = <<>>

TeacherDelivers(r, att, events) ==
    /\ CanReview(r) /\ ~HasDeliveredVerdict(r)
    /\ \E v \in Verdict : /\ v.by \in Teachers
                          /\ att = Deliver(r, v)
                          /\ events = DeliverEvents(v, AcceptedAtTerm(r))

CountedEvents(v) == Append(DeliverEvents(v, FALSE), Announce("ai_reviewed", v))

ModelRules(a, r, att, events) ==
    /\ CanReviewByAi(r) /\ a \in AiCalls
    /\ \E v \in Verdict : /\ v.by = a
                          /\ \/ att = Deliver(r, v) /\ events = CountedEvents(v)
                             \/ r.school /\ att = KeepProvisional(r, v) /\ events = <<>>

TermDelivers(r, att, events) ==
    /\ CanAcceptAtTerm(r, now) /\ ~ReviewLocked(r, now)
    /\ att = Deliver(r, r.provisional) /\ events = CountedEvents(r.provisional)

Acts(r, att, events) ==
    \/ Retouches(r, att, events) \/ HandsIn(r, att, events)
    \/ Abandons(r, att, events) \/ GivesUp(r, att, events)
    \/ TeacherDelivers(r, att, events) \/ TermDelivers(r, att, events)

Writes(call) == call.pc \in {"save", "save_if_in_review"}

Moves(call, r, att, events) ==
    IF call.op = "put_ai_review" THEN ModelRules(call.who, r, att, events)
    ELSE Acts(r, att, events)

(***************************************************************************)
(* Where the one request at work is, and what it relies on: before it      *)
(* writes the row, that the row is the one it loaded; after, that the row  *)
(* is the one it wrote.                                                    *)
(***************************************************************************)
AtWork(call) ==
    /\ call.pc \notin {"dispute_read", "mark"}
    /\ call.pc \in {"stored", "review_read", "settle", "label", "publish"} => call.att = row
    /\ call.pc \in {"stored", "review_read"} => call.events = <<>>
    /\ call.pc = "stored" => call.op = "put_ai_review"
    /\ call.pc = "review_read" => call.op # "put_ai_review"
    /\ call.pc \in {"existing", "draft"} =>
         IF call.op = "put_ai_review"
         THEN /\ CanReviewByAi(row)
              /\ \/ asked[call.who].result = "FAILED"
                 \/ ModelRules(call.who, row, call.att, call.events)
         ELSE call.op = "put_ai_draft"
    /\ call.pc = "draft" =>
         call.draft.status = DraftStatus(call.who) /\ call.draft.call = call.who
    /\ Writes(call) => Moves(call, row, call.att, call.events)
    /\ call.pc = "label" =>
         /\ call.draft.status = "DECIDED"
         /\ call.draft.call = drafts[TeacherDraftCapability(row)].call

AtDispute(call) ==
    /\ call.pc \in {"dispute_read", "mark", "publish"}
    /\ ~call.settles
    /\ \A i \in 1..Len(call.events) : call.events[i].type = "ai_review_disputed"

InPlace(call) ==
    call.pc # "idle" => IF call.op = "dispute" THEN AtDispute(call) ELSE AtWork(call)

OwnOps == \A c \in Calls : calls[c].pc # "idle" => calls[c].op \in Runs[c]
SerialInv == OwnOps /\ \A c \in Calls : InPlace(calls[c])

\* Only one slot is at work.
LEMMA AloneAtWork ==
    ASSUME OneAtATime, OwnOps, NEW c \in Calls,
           \E op \in Runs[c] : op # "dispute" /\ (calls[c].pc = "idle" \/ calls[c].op = op),
           NEW d \in Calls \ {c}
    PROVE  calls[d].pc = "idle" \/ calls[d].op = "dispute"
  BY DEF OneAtATime, OwnOps

\* What a call relies on stands if the row, the answers given and the drafts'
\* calls stand, as time goes by.
LEMMA StillAtWork ==
    ASSUME TypeOK, row' = row, now' \in Nat, now <= now',
           \A a \in AiCalls : asked[a] \in Answer => asked'[a] = asked[a],
           \A cap \in Capability : drafts'[cap].call = drafts[cap].call,
           NEW call, Placed(call), InPlace(call)
    PROVE  InPlace(call)'
  <1>1. row \in Row /\ now \in Nat
    BY DEF TypeOK
  <1>2. ASSUME NEW att, NEW events, TermDelivers(row, att, events)
        PROVE  TermDelivers(row, att, events)'
    <2>1. CanAcceptAtTerm(row, now) => CanAcceptAtTerm(row, now')
      BY <1>1 DEF CanAcceptAtTerm, Row, Policy
    <2>2. ~ReviewLocked(row, now) => ~ReviewLocked(row, now')
      BY <1>1, AttemptAssumption DEF ReviewLocked, Row, Claim
    <2> QED  BY <1>2, <2>1, <2>2 DEF TermDelivers
  <1>3. ASSUME NEW att, NEW events, Moves(call, row, att, events)
        PROVE  Moves(call, row, att, events)'
    <2>1. CASE call.op = "put_ai_review"
      BY <1>3, <2>1 DEF Moves, ModelRules
    <2>2. CASE call.op # "put_ai_review"
      BY <1>2, <1>3, <2>2 DEF Moves, Acts, Retouches, HandsIn, Abandons, GivesUp, TeacherDelivers
    <2> QED  BY <2>1, <2>2
  <1>4. call.pc \in {"existing", "draft"} => asked'[call.who] = asked[call.who]
    BY DEF Placed
  <1>5. ASSUME call.pc \in {"existing", "draft"} PROVE DraftStatus(call.who)' = DraftStatus(call.who)
    BY <1>4, <1>5 DEF DraftStatus
  <1>6. TeacherDraftCapability(row)' = TeacherDraftCapability(row)
        /\ TeacherDraftCapability(row) \in Capability
    BY DEF TeacherDraftCapability, Capability
  <1>7. AtWork(call) => AtWork(call)'
    <2> SUFFICES ASSUME AtWork(call) PROVE AtWork(call)'
      OBVIOUS
    <2>1. /\ call.pc \notin {"dispute_read", "mark"}
          /\ call.pc \in {"stored", "review_read", "settle", "label", "publish"} => call.att = row'
          /\ call.pc \in {"stored", "review_read"} => call.events = <<>>
          /\ call.pc = "stored" => call.op = "put_ai_review"
          /\ call.pc = "review_read" => call.op # "put_ai_review"
      BY DEF AtWork, Writes
    <2>2. call.pc \in {"existing", "draft"} =>
            IF call.op = "put_ai_review"
            THEN /\ CanReviewByAi(row')
                 /\ \/ asked'[call.who].result = "FAILED"
                    \/ ModelRules(call.who, row', call.att, call.events)
            ELSE call.op = "put_ai_draft"
      BY <1>4 DEF AtWork, Writes
    <2>3. call.pc = "draft" =>
            call.draft.status = DraftStatus(call.who)' /\ call.draft.call = call.who
      BY <1>5 DEF AtWork, Writes
    <2>4. call.pc \in {"save", "save_if_in_review"} => Moves(call, row, call.att, call.events)'
      BY <1>3 DEF AtWork, Writes
    <2>5. call.pc = "label" =>
            /\ call.draft.status = "DECIDED"
            /\ call.draft.call = drafts'[TeacherDraftCapability(row)'].call
      BY <1>6 DEF AtWork, Writes
    <2> QED  BY <2>1, <2>2, <2>3, <2>4, <2>5 DEF AtWork, Writes
  <1>8. AtDispute(call) => AtDispute(call)'
    BY DEF AtDispute
  <1> QED  BY <1>7, <1>8 DEF InPlace

LEMMA NoCallInPlace == InPlace(NoCall)
  BY DEF InPlace, NoCall

\* The one call at work takes a step, whatever it changes.
LEMMA WorkStep ==
    ASSUME TypeOK, OneAtATime, SerialInv, NEW c \in Calls, NEW call,
           \E op \in Runs[c] : op # "dispute" /\ (calls[c].pc = "idle" \/ calls[c].op = op),
           calls' = [calls EXCEPT ![c] = call],
           call.pc # "idle" => call.op \in Runs[c], InPlace(call)'
    PROVE  SerialInv'
  <1>1. calls'[c] = call /\ \A d \in Calls \ {c} : calls'[d] = calls[d]
    BY DEF TypeOK
  <1>2. OwnOps'
    BY <1>1 DEF SerialInv, OwnOps
  <1>3. ASSUME NEW d \in Calls \ {c} PROVE InPlace(calls[d])'
    <2>1. calls[d].pc = "idle" \/ calls[d].op = "dispute"
      BY AloneAtWork DEF SerialInv
    <2>2. InPlace(calls[d]) /\ calls'[d] = calls[d]
      BY <1>1 DEF SerialInv
    <2> QED  BY <2>1, <2>2 DEF InPlace, AtDispute
  <1> QED  BY <1>1, <1>2, <1>3 DEF SerialInv

\* A call takes a step that nobody at work notices.
LEMMA AsideStep ==
    ASSUME IInv, SerialInv, NEW c \in Calls, NEW call,
           row' = row, now' = now, asked' = asked,
           \A cap \in Capability : drafts'[cap].call = drafts[cap].call,
           calls' = [calls EXCEPT ![c] = call],
           call.pc # "idle" => call.op \in Runs[c], InPlace(call)'
    PROVE  SerialInv'
  <1>1. TypeOK
    BY DEF IInv
  <1>2. calls'[c] = call /\ \A d \in Calls \ {c} : calls'[d] = calls[d]
    BY <1>1 DEF TypeOK
  <1>3. OwnOps'
    BY <1>2 DEF SerialInv, OwnOps
  <1>4. now' \in Nat /\ now <= now'
    BY <1>1 DEF TypeOK
  <1>5. ASSUME NEW d \in Calls \ {c} PROVE InPlace(calls[d])'
    <2>1. PICK other : other = calls[d]
      OBVIOUS
    <2>2. Placed(other) /\ InPlace(other) /\ calls'[d] = other
      BY <1>2, <2>1 DEF IInv, SerialInv
    <2>3. InPlace(other)'
      BY <1>1, <1>4, <2>2, StillAtWork
    <2> QED  BY <2>2, <2>3
  <1> QED  BY <1>2, <1>3, <1>5 DEF SerialInv

\* Nobody takes a step but the clock, a model, or no one.
LEMMA WaitStep ==
    ASSUME IInv, SerialInv, UNCHANGED <<row, drafts, calls>>, now' \in Nat, now <= now',
           \A a \in AiCalls : asked[a] \in Answer => asked'[a] = asked[a]
    PROVE  SerialInv'
  <1>1. OwnOps'
    BY DEF SerialInv, OwnOps
  <1>2. ASSUME NEW d \in Calls PROVE InPlace(calls[d])'
    <2>1. PICK other : other = calls[d]
      OBVIOUS
    <2>2. TypeOK /\ Placed(other) /\ InPlace(other) /\ calls'[d] = other
      BY <2>1 DEF IInv, SerialInv
    <2>3. InPlace(other)'
      BY <2>2, StillAtWork
    <2> QED  BY <2>2, <2>3
  <1> QED  BY <1>1, <1>2 DEF SerialInv

-----------------------------------------------------------------------------
(* The handlers' first steps.                                              *)

LEMMA WorkerStarts ==
    ASSUME TypeOK, OneAtATime, SerialInv, NEW c \in Calls, NEW call,
           Idle(c, call.op), call.op # "dispute", AtWork(call), Begin(c, call)
    PROVE  SerialInv'
  <1>1. UNCHANGED <<row, drafts, asked, now>> /\ calls' = [calls EXCEPT ![c] = call]
    BY DEF Begin
  <1>2. AtWork(call)'
    BY <1>1 DEF AtWork, Writes, Moves, Acts, ModelRules, Retouches, HandsIn, Abandons, GivesUp,
       TeacherDelivers, TermDelivers, DraftStatus, TeacherDraftCapability
  <1>3. InPlace(call)'
    BY <1>2 DEF InPlace
  <1>4. call.op \in Runs[c] /\ calls[c].pc = "idle"
    BY DEF Idle
  <1> QED  BY <1>1, <1>3, <1>4, WorkStep

LEMMA SaverStarts ==
    ASSUME TypeOK, OneAtATime, SerialInv, NEW c \in Calls,
           NEW op, NEW who, NEW pc \in {"save", "save_if_in_review"}, NEW att, NEW events, NEW settles,
           Idle(c, op), op \notin {"dispute", "put_ai_review"}, Acts(row, att, events),
           Begin(c, Handling(op, who, pc, att, events, settles))
    PROVE  SerialInv'
  <1>1. PICK call : call = Handling(op, who, pc, att, events, settles)
    OBVIOUS
  <1>2. call.op = op /\ call.pc = pc /\ call.att = att /\ call.events = events
    BY <1>1 DEF Handling
  <1>3. AtWork(call)
    BY <1>2 DEF AtWork, Writes, Moves
  <1> QED  BY <1>1, <1>2, <1>3, WorkerStarts

LEMMA LoaderStarts ==
    ASSUME TypeOK, OneAtATime, SerialInv, NEW c \in Calls, NEW op, NEW who, NEW pc,
           Idle(c, op),
           <<op, pc>> \in {<<"put_ai_review", "stored">>, <<"put_ai_draft", "existing">>,
                           <<"give_up", "review_read">>},
           Begin(c, Loaded(op, who, pc))
    PROVE  SerialInv'
  <1>1. PICK call : call = Loaded(op, who, pc)
    OBVIOUS
  <1>2. call.op = op /\ call.pc = pc /\ call.att = row /\ call.events = <<>>
    BY <1>1 DEF Loaded, Handling
  <1>3. AtWork(call) /\ call.op # "dispute"
    BY <1>2 DEF AtWork, Writes
  <1> QED  BY <1>1, <1>2, <1>3, WorkerStarts

\* The work handed in, before it is decided what becomes of it.
LEMMA HandedIn ==
    ASSUME TypeOK, NEW c \in Calls, SubmitAnswer(c)
    PROVE  LET handed == Submit(Reopened)
           IN  /\ handed \in Row
               /\ row.status = "IN_PROGRESS" \/ (row.status = "SCORED" /\ CanReopenForRecheck(row, MaxChecks))
               /\ handed.answer = row.answer + 1 /\ handed.verdict = row.verdict
               /\ handed.provisional = row.provisional /\ handed.practice = row.practice
               /\ handed.score = row.score
  <1>1. row \in Row /\ CanSubmit(Reopened) /\ (row.status = "SCORED" => CanReopenForRecheck(row, MaxChecks))
    BY DEF TypeOK, SubmitAnswer
  <1>2. row.status = "IN_PROGRESS" \/ row.status = "SCORED"
    BY <1>1 DEF CanSubmit, Reopened
  <1>3. PICK r \in Row : r = Reopened
    <2>1. row.rechecks + 1 \in Nat /\ "IN_PROGRESS" \in Status
      BY <1>1 DEF Row, Status
    <2>2. Reopened \in Row
      BY <1>1, <2>1 DEF Reopened, ReopenForRecheck, Row
    <2> QED  BY <2>2
  <1>4. /\ r.answer = row.answer /\ r.verdict = row.verdict /\ r.provisional = row.provisional
        /\ r.practice = row.practice /\ r.score = row.score
    BY <1>1, <1>3 DEF Reopened, ReopenForRecheck, Row
  <1>5. /\ Submit(r) \in Row
        /\ Submit(r).answer = r.answer + 1 /\ Submit(r).verdict = r.verdict
        /\ Submit(r).provisional = r.provisional /\ Submit(r).practice = r.practice
        /\ Submit(r).score = r.score
    <2>1. r.answer + 1 \in Nat /\ "SUBMITTED" \in Status
      BY DEF Row, Status
    <2> QED  BY <2>1 DEF Submit, Row
  <1> QED  BY <1>1, <1>2, <1>3, <1>4, <1>5

LEMMA HandInsUnrated ==
    ASSUME NEW att
    PROVE  Unrated(<<>>) /\ Unrated(RouteEvents(att)) /\ Unrated(CloseEvents(att))
  <1>1. Unrated(<<>>)
    BY DEF Unrated
  <1>2. Unrated(RouteEvents(att))
    BY DEF Unrated, RouteEvents, Rates, Announce
  <1>3. Unrated(CloseEvents(att))
    BY DEF Unrated, CloseEvents, Rates, Announce
  <1> QED  BY <1>1, <1>2, <1>3

LEMMA SubmitStarts ==
    ASSUME TypeOK, OneAtATime, SerialInv, NEW c \in Calls, SubmitAnswer(c)
    PROVE  SerialInv'
  <1>1. PICK handed : handed = Submit(Reopened)
    OBVIOUS
  <1>2. /\ handed \in Row
        /\ row.status = "IN_PROGRESS" \/ (row.status = "SCORED" /\ CanReopenForRecheck(row, MaxChecks))
        /\ handed.answer = row.answer + 1 /\ handed.verdict = row.verdict
        /\ handed.provisional = row.provisional /\ handed.practice = row.practice
        /\ handed.score = row.score
    BY <1>1, HandedIn
  <1>3. Idle(c, "submit_answer")
    BY DEF SubmitAnswer
  <1>4. ASSUME NEW att, NEW events, HandsIn(row, att, events),
               Begin(c, Mutated("submit_answer", Null, att, events))
        PROVE  SerialInv'
    BY <1>3, <1>4, SaverStarts DEF Mutated, Acts
  <1>5. CASE Begin(c, Mutated("submit_answer", Null, Score(handed), ScoreEvents(handed)))
    <2>1. PICK att : att = Score(handed)
      OBVIOUS
    <2>2. /\ att.status = "SCORED" /\ att.score = MachineVerdict(handed)
          /\ att.answer = handed.answer /\ att.verdict = handed.verdict
          /\ att.provisional = handed.provisional /\ att.practice = handed.practice
      BY <1>2, <2>1 DEF Score, Row
    <2>3. att.score = MachineVerdict(att)
      BY <2>2 DEF MachineVerdict
    <2>4. ScoreEvents(handed) \in {<<>>, <<Announce("scored", att.score)>>}
      BY <2>2 DEF ScoreEvents
    <2>5. HandsIn(row, att, ScoreEvents(handed))
      BY <1>2, <2>2, <2>3, <2>4 DEF HandsIn
    <2> QED  BY <1>4, <1>5, <2>1, <2>5
  <1>6. CASE Begin(c, Mutated("submit_answer", Null, RecordPartialCheck(handed), <<>>))
    <2>1. PICK att : att = RecordPartialCheck(handed)
      OBVIOUS
    <2>2. /\ att.status = "IN_PROGRESS" /\ att.score = handed.score
          /\ att.answer = handed.answer /\ att.verdict = handed.verdict
          /\ att.provisional = handed.provisional /\ att.practice = handed.practice
      BY <1>2, <2>1 DEF RecordPartialCheck, Row
    <2>3. HandsIn(row, att, <<>>)
      BY <1>2, <2>2, HandInsUnrated DEF HandsIn
    <2> QED  BY <1>4, <1>6, <2>1, <2>3
  <1>7. ASSUME NEW found \in {FALSE, AtSchool}, NEW policy,
               Begin(c, Mutated("submit_answer", Null,
                                RouteForReview(BackfillReviewContext(handed, found), policy),
                                RouteEvents(BackfillReviewContext(handed, found))))
        PROVE  SerialInv'
    <2>1. PICK work : work = BackfillReviewContext(handed, found)
      OBVIOUS
    <2>2. PICK att : att = RouteForReview(work, policy)
      OBVIOUS
    <2>3. /\ att.status = "ROUTED_FOR_REVIEW" /\ att.score = handed.score
          /\ att.answer = handed.answer /\ att.verdict = handed.verdict
          /\ att.provisional = handed.provisional /\ att.practice = handed.practice
      BY <1>2, <2>1, <2>2 DEF BackfillReviewContext, RouteForReview, Row
    <2>4. HandsIn(row, att, RouteEvents(work))
      BY <1>2, <2>3, HandInsUnrated DEF HandsIn
    <2> QED  BY <1>4, <1>7, <2>1, <2>2, <2>4
  <1>8. ASSUME NEW found \in {FALSE, AtSchool},
               Begin(c, Mutated("submit_answer", Null,
                                CloseWithoutReviewer(BackfillReviewContext(handed, found)),
                                CloseEvents(BackfillReviewContext(handed, found))))
        PROVE  SerialInv'
    <2>1. PICK work : work = BackfillReviewContext(handed, found)
      OBVIOUS
    <2>2. PICK att : att = CloseWithoutReviewer(work)
      OBVIOUS
    <2>3. /\ att.status = "NO_REVIEWER" /\ att.score = handed.score
          /\ att.answer = handed.answer /\ att.verdict = handed.verdict
          /\ att.provisional = handed.provisional /\ att.practice = handed.practice
      BY <1>2, <2>1, <2>2 DEF BackfillReviewContext, CloseWithoutReviewer, Row
    <2>4. HandsIn(row, att, CloseEvents(work))
      BY <1>2, <2>3, HandInsUnrated DEF HandsIn
    <2> QED  BY <1>4, <1>8, <2>1, <2>2, <2>4
  <1> QED  BY <1>1, <1>5, <1>6, <1>7, <1>8, Zenon DEF SubmitAnswer

LEMMA RetouchStarts ==
    ASSUME TypeOK, OneAtATime, SerialInv, NEW c \in Calls,
           \/ SaveDraft(c) \/ RevealAnswersOf(c) \/ ClaimReview(c) \/ ReleaseReviewOf(c)
    PROVE  SerialInv'
  <1>1. row \in Row /\ now \in Nat
    BY DEF TypeOK
  <1>2. ASSUME NEW op, NEW who, NEW att, Retouches(row, att, <<>>), Idle(c, op),
               op \notin {"dispute", "put_ai_review"}, Begin(c, Mutated(op, who, att, <<>>))
        PROVE  SerialInv'
    BY <1>2, SaverStarts DEF Mutated, Acts
  <1>3. CASE SaveDraft(c)
    <2>1. row = [row EXCEPT !.claim = row.claim, !.revealed = row.revealed]
      BY <1>1 DEF Row
    <2>2. Retouches(row, row, <<>>)
      BY <1>1, <2>1 DEF Retouches, Row
    <2> QED  BY <1>2, <1>3, <2>2 DEF SaveDraft
  <1>4. CASE RevealAnswersOf(c)
    <2>1. RevealAnswers(row) = [row EXCEPT !.claim = row.claim, !.revealed = TRUE]
      BY <1>1 DEF RevealAnswers, Row
    <2>2. Retouches(row, RevealAnswers(row), <<>>)
      BY <1>1, <2>1 DEF Retouches, Row
    <2> QED  BY <1>2, <1>4, <2>2 DEF RevealAnswersOf
  <1>5. CASE ClaimReview(c)
    <2>1. PICK t \in Teachers : Begin(c, Mutated("claim", t, ClaimForReview(row, t, now), <<>>))
      BY <1>5 DEF ClaimReview
    <2>2. PICK claim : claim = [by |-> t, at |-> now]
      OBVIOUS
    <2>3. claim \in Claim
      BY <1>1, <2>2 DEF Claim
    <2>4. ClaimForReview(row, t, now) = [row EXCEPT !.claim = claim, !.revealed = row.revealed]
      BY <1>1, <2>2 DEF ClaimForReview, Row
    <2>5. Retouches(row, ClaimForReview(row, t, now), <<>>)
      BY <1>1, <2>3, <2>4 DEF Retouches, Row
    <2> QED  BY <1>2, <1>5, <2>1, <2>5 DEF ClaimReview
  <1>6. CASE ReleaseReviewOf(c)
    <2>1. PICK t \in Teachers : Begin(c, Mutated("release", t, ReleaseReview(row), <<>>))
      BY <1>6 DEF ReleaseReviewOf
    <2>2. ReleaseReview(row) = [row EXCEPT !.claim = Null, !.revealed = row.revealed]
      BY <1>1 DEF ReleaseReview, Row
    <2>3. Retouches(row, ReleaseReview(row), <<>>)
      BY <1>1, <2>2 DEF Retouches, Row
    <2> QED  BY <1>2, <1>6, <2>1, <2>3 DEF ReleaseReviewOf
  <1> QED  BY <1>3, <1>4, <1>5, <1>6

LEMMA AbandonStarts ==
    ASSUME TypeOK, OneAtATime, SerialInv, NEW c \in Calls, AbandonAttempt(c) \/ ExerciseDeleted(c)
    PROVE  SerialInv'
  <1>1. CanAbandon(row)
    BY DEF AbandonAttempt, ExerciseDeleted, CanAbandon
  <1>2. Acts(row, Abandon(row), <<>>)
    BY <1>1 DEF Acts, Abandons
  <1> QED  BY <1>2, SaverStarts DEF AbandonAttempt, ExerciseDeleted, Mutated

LEMMA TeacherStarts ==
    ASSUME TypeOK, OneAtATime, SerialInv, NEW c \in Calls, ReviewAttempt(c) \/ BatchApprove(c)
    PROVE  SerialInv'
  <1>1. row \in Row
    BY DEF TypeOK
  <1>2. ASSUME NEW t \in Teachers, NEW outcome \in {"approved", "returned"}
        PROVE  TeacherVerdict(t, outcome) \in Verdict /\ TeacherVerdict(t, outcome).by \in Teachers
    BY <1>1 DEF TeacherVerdict, Verdict, Judges, Row
  <1>3. CASE ReviewAttempt(c)
    <2>1. PICK t \in Teachers, outcome \in {"approved", "returned"}, settles \in BOOLEAN :
            Begin(c, Handling("review", t, "save", Deliver(row, TeacherVerdict(t, outcome)),
                              DeliverEvents(TeacherVerdict(t, outcome), AcceptedAtTerm(row)),
                              settles))
      BY <1>3 DEF ReviewAttempt
    <2>2. PICK v : v = TeacherVerdict(t, outcome)
      OBVIOUS
    <2>3. v \in Verdict /\ v.by \in Teachers
      BY <1>2, <2>2
    <2>4. CanReview(row) /\ ~HasDeliveredVerdict(row) /\ Idle(c, "review")
      BY <1>3 DEF ReviewAttempt
    <2>5. Acts(row, Deliver(row, v), DeliverEvents(v, AcceptedAtTerm(row)))
      BY <2>3, <2>4 DEF Acts, TeacherDelivers
    <2> QED  BY <2>1, <2>2, <2>4, <2>5, SaverStarts
  <1>4. CASE BatchApprove(c)
    <2>1. PICK t \in Teachers :
            Begin(c, Mutated("batch_approve", t, Deliver(row, TeacherVerdict(t, "approved")),
                             DeliverEvents(TeacherVerdict(t, "approved"), FALSE)))
      BY <1>4 DEF BatchApprove
    <2>2. PICK v : v = TeacherVerdict(t, "approved")
      OBVIOUS
    <2>3. v \in Verdict /\ v.by \in Teachers
      BY <1>2, <2>2
    <2>4. row.status = "ROUTED_FOR_REVIEW" /\ ~HasDeliveredVerdict(row) /\ Idle(c, "batch_approve")
      BY <1>4 DEF BatchApprove
    <2>5. CanReview(row) /\ AcceptedAtTerm(row) = FALSE
      BY <2>4 DEF CanReview, AcceptedAtTerm, ReviewedByAi, Judged
    <2>6. Acts(row, Deliver(row, v), DeliverEvents(v, FALSE))
      BY <2>3, <2>4, <2>5 DEF Acts, TeacherDelivers
    <2> QED  BY <2>1, <2>2, <2>4, <2>6, SaverStarts DEF Mutated
  <1> QED  BY <1>3, <1>4

LEMMA TermStarts ==
    ASSUME TypeOK, OneAtATime, SerialInv, NEW c \in Calls, AcceptAtTerm(c)
    PROVE  SerialInv'
  <1>1. Acts(row, Deliver(row, row.provisional), CountedEvents(row.provisional))
    BY DEF AcceptAtTerm, TermMayClose, Acts, TermDelivers
  <1>2. /\ Idle(c, "accept_at_term")
        /\ Begin(c, Handling("accept_at_term", Null, "save_if_in_review", Deliver(row, row.provisional),
                             CountedEvents(row.provisional), FALSE))
    BY DEF AcceptAtTerm, CountedEvents
  <1> QED  BY <1>1, <1>2, SaverStarts

LEMMA ReaderStarts ==
    ASSUME TypeOK, OneAtATime, SerialInv, NEW c \in Calls,
           PutAiReview(c) \/ PutAiDraft(c) \/ GiveUpAiReview(c)
    PROVE  SerialInv'
  <1>1. CASE PutAiReview(c)
    <2>1. Idle(c, "put_ai_review")
      BY <1>1 DEF PutAiReview
    <2>2. PICK a \in AiCalls : Begin(c, Loaded("put_ai_review", a, "stored"))
      BY <1>1 DEF PutAiReview
    <2> QED  BY <2>1, <2>2, LoaderStarts
  <1>2. CASE PutAiDraft(c)
    <2>1. Idle(c, "put_ai_draft")
      BY <1>2 DEF PutAiDraft
    <2>2. PICK a \in AiCalls : Begin(c, Loaded("put_ai_draft", a, "existing"))
      BY <1>2 DEF PutAiDraft
    <2> QED  BY <2>1, <2>2, LoaderStarts
  <1>3. CASE GiveUpAiReview(c)
    BY <1>3, LoaderStarts DEF GiveUpAiReview
  <1> QED  BY <1>1, <1>2, <1>3

LEMMA DisputeStarts ==
    ASSUME IInv, SerialInv, NEW c \in Calls, DisputeAiReview(c)
    PROVE  SerialInv'
  <1>1. PICK call : call = Loaded("dispute", Null, "dispute_read")
    OBVIOUS
  <1>2. /\ UNCHANGED <<row, drafts, asked, now>> /\ calls' = [calls EXCEPT ![c] = call]
        /\ "dispute" \in Runs[c]
    BY <1>1 DEF DisputeAiReview, Begin, Idle
  <1>3. /\ call.op = "dispute" /\ call.pc = "dispute_read" /\ ~call.settles
        /\ \A i \in 1..Len(call.events) : call.events[i].type = "ai_review_disputed"
    BY <1>1 DEF Loaded, Handling
  <1>4. InPlace(call)'
    BY <1>3 DEF InPlace, AtDispute
  <1> QED  BY <1>2, <1>3, <1>4, AsideStep

LEMMA HandlersKeepSerial ==
    ASSUME IInv, OneAtATime, SerialInv, NEW c \in Calls, Learner(c) \/ Staff(c) \/ Platform(c)
    PROVE  SerialInv'
  <1>1. TypeOK
    BY DEF IInv
  <1> QED  BY <1>1, SubmitStarts, RetouchStarts, AbandonStarts, TeacherStarts, TermStarts,
              ReaderStarts, DisputeStarts DEF Learner, Staff, Platform

-----------------------------------------------------------------------------
(* The steps in flight.                                                    *)

(***************************************************************************)
(* A review that stands as ready is one its call could write.              *)
(***************************************************************************)
Answered ==
    \A cap \in Capability :
        drafts[cap] \in Draft /\ drafts[cap].status = "READY"
          => asked[drafts[cap].call] \in Answer /\ asked[drafts[cap].call].result # "FAILED"

LEMMA SameAtWork ==
    ASSUME UNCHANGED <<row, drafts, asked, now>>, NEW call, AtWork(call)
    PROVE  AtWork(call)'
  BY DEF AtWork, Writes, Moves, Acts, ModelRules, Retouches, HandsIn, Abandons, GivesUp,
     TeacherDelivers, TermDelivers, DraftStatus, TeacherDraftCapability

\* Who takes a step in flight: the one request at work, or a dispute.
LEMMA InFlight ==
    ASSUME IInv, SerialInv, NEW c \in Calls, calls[c].pc # "idle"
    PROVE  /\ calls[c] \in Call /\ Placed(calls[c]) /\ calls[c].op \in Runs[c]
           /\ calls[c].op = "dispute" => AtDispute(calls[c])
           /\ calls[c].op # "dispute" =>
                /\ AtWork(calls[c])
                /\ \E op \in Runs[c] : op # "dispute" /\ (calls[c].pc = "idle" \/ calls[c].op = op)
  <1>1. InPlace(calls[c]) /\ calls[c].op \in Runs[c]
    BY DEF SerialInv, OwnOps
  <1>2. calls[c] \in Call /\ Placed(calls[c])
    BY DEF IInv, TypeOK
  <1> QED  BY <1>1, <1>2 DEF InPlace

\* After the row is written nothing is relied on but that it is the row.
LEMMA AfterSaveInPlace ==
    ASSUME NEW call \in Call, call.op # "dispute", call.att = row'
    PROVE  /\ InPlace(AfterSave(call))'
           /\ AfterSave(call).pc # "idle" => AfterSave(call).op = call.op
  <1>1. PICK next : next = AfterSave(call)
    OBVIOUS
  <1>2. \/ next = NoCall
        \/ next.pc \in {"settle", "publish"} /\ next.op = call.op /\ next.att = call.att
    <2>1. CASE call.settles
      BY <1>1, <2>1 DEF AfterSave, Call
    <2>2. CASE ~call.settles /\ call.events # <<>>
      BY <1>1, <2>2 DEF AfterSave, Call
    <2>3. CASE ~call.settles /\ call.events = <<>>
      BY <1>1, <2>3 DEF AfterSave
    <2> QED  BY <2>1, <2>2, <2>3
  <1>3. CASE next = NoCall
    BY <1>1, <1>3 DEF InPlace, NoCall
  <1>4. CASE next.pc \in {"settle", "publish"} /\ next.op = call.op /\ next.att = call.att
    <2>1. AtWork(next)'
      BY <1>4 DEF AtWork, Writes
    <2> QED  BY <1>1, <1>4, <2>1 DEF InPlace
  <1> QED  BY <1>2, <1>3, <1>4

LEMMA SavesKeepSerial ==
    ASSUME IInv, OneAtATime, SerialInv, NEW c \in Calls, SaveAttempt(c) \/ SaveIfInReview(c)
    PROVE  SerialInv'
  <1>1. TypeOK /\ calls[c].pc \in {"save", "save_if_in_review"}
    BY DEF IInv, SaveAttempt, SaveIfInReview
  <1>2. calls[c].op # "dispute"
    BY <1>1, InFlight DEF AtDispute
  <1>3. /\ calls[c] \in Call /\ calls[c].op \in Runs[c]
        /\ \E op \in Runs[c] : op # "dispute" /\ (calls[c].pc = "idle" \/ calls[c].op = op)
    BY <1>1, <1>2, InFlight
  <1>4. CASE WriteRow(c)
    <2>1. PICK next : next = AfterSave(calls[c])
      OBVIOUS
    <2>2. row' = calls[c].att /\ calls' = [calls EXCEPT ![c] = next]
      BY <1>4, <2>1 DEF WriteRow
    <2>3. InPlace(next)' /\ (next.pc # "idle" => next.op = calls[c].op)
      BY <1>2, <1>3, <2>1, <2>2, AfterSaveInPlace
    <2> QED  BY <1>1, <1>3, <2>2, <2>3, WorkStep
  <1>5. CASE Finish(c)
    <2>1. InPlace(NoCall)' /\ NoCall.pc = "idle"
      BY DEF InPlace, NoCall
    <2> QED  BY <1>1, <1>3, <1>5, <2>1, WorkStep DEF Finish
  <1> QED  BY <1>4, <1>5 DEF SaveAttempt, SaveIfInReview

LEMMA FinishAside ==
    ASSUME IInv, SerialInv, NEW c \in Calls, Finish(c), UNCHANGED <<row, drafts, asked, now>>
    PROVE  SerialInv'
  <1>1. InPlace(NoCall)' /\ NoCall.pc = "idle"
    BY DEF InPlace, NoCall
  <1> QED  BY <1>1, AsideStep DEF Finish

LEMMA PublishKeepsSerial ==
    ASSUME IInv, SerialInv, NEW c \in Calls, PublishNext(c)
    PROVE  SerialInv'
  <1>1. /\ calls[c].pc = "publish" /\ UNCHANGED <<row, drafts, asked, now>>
        /\ calls' = [calls EXCEPT ![c] = AfterSave(Sent(calls[c]))]
    BY DEF PublishNext
  <1>2. /\ calls[c] \in Call /\ calls[c].op \in Runs[c] /\ calls[c].events \in Seq(Event)
        /\ calls[c].events # <<>>
    BY <1>1, InFlight DEF Call, Placed
  <1>3. PICK sent : sent = Sent(calls[c])
    OBVIOUS
  <1>4. Tail(calls[c].events) \in Seq(Event)
    BY <1>2
  <1>5. /\ sent \in Call /\ sent.events = Tail(calls[c].events) /\ sent.op = calls[c].op
        /\ sent.att = calls[c].att /\ sent.settles = calls[c].settles
    BY <1>2, <1>3, <1>4 DEF Sent, Call
  <1>6. PICK next : next = AfterSave(sent)
    OBVIOUS
  <1>7. InPlace(next)' /\ (next.pc # "idle" => next.op = calls[c].op)
    <2>1. CASE calls[c].op # "dispute"
      <3>1. calls[c].att = row
        BY <1>1, <2>1, InFlight DEF AtWork, Writes
      <3> QED  BY <1>1, <1>5, <1>6, <2>1, <3>1, AfterSaveInPlace
    <2>2. CASE calls[c].op = "dispute"
      <3>1. ~calls[c].settles /\ \A i \in 1..Len(calls[c].events) :
                                   calls[c].events[i].type = "ai_review_disputed"
        BY <1>1, <2>2, InFlight DEF AtDispute
      <3>2. \A i \in 1..Len(sent.events) : sent.events[i].type = "ai_review_disputed"
        <4>1. \A i \in 1..Len(Tail(calls[c].events)) :
                Tail(calls[c].events)[i] = calls[c].events[i + 1] /\ i + 1 \in 1..Len(calls[c].events)
          BY <1>2
        <4> QED  BY <1>5, <3>1, <4>1
      <3>3. CASE sent.events = <<>>
        BY <1>5, <1>6, <3>1, <3>3 DEF AfterSave, NoCall, InPlace
      <3>4. CASE sent.events # <<>>
        <4>1. next = [sent EXCEPT !.pc = "publish"]
          BY <1>5, <1>6, <3>1, <3>4 DEF AfterSave
        <4>2. /\ next.pc = "publish" /\ next.op = "dispute" /\ next.events = sent.events
              /\ ~next.settles
          BY <1>5, <2>2, <3>1, <4>1 DEF Call
        <4>3. AtDispute(next)'
          BY <3>2, <4>2 DEF AtDispute
        <4> QED  BY <2>2, <4>2, <4>3 DEF InPlace
      <3> QED  BY <3>3, <3>4
    <2> QED  BY <2>1, <2>2
  <1>8. calls' = [calls EXCEPT ![c] = next]
    BY <1>1, <1>3, <1>6
  <1> QED  BY <1>1, <1>2, <1>7, <1>8, AsideStep

LEMMA DisputesKeepSerial ==
    ASSUME IInv, SerialInv, NEW c \in Calls, DisputeRead(c) \/ MarkDisputed(c)
    PROVE  SerialInv'
  <1>1. calls[c].pc \in {"dispute_read", "mark"} /\ UNCHANGED <<row, asked, now>>
    BY DEF DisputeRead, MarkDisputed
  <1>2. /\ calls[c] \in Call /\ Placed(calls[c]) /\ calls[c].op \in Runs[c]
        /\ calls[c].op = "dispute" /\ AtDispute(calls[c])
    BY <1>1, InFlight DEF AtWork, Writes
  <1>3. ASSUME NEW call, call.op = "dispute", call.pc \in {"mark", "publish"}, ~call.settles,
               \A i \in 1..Len(call.events) : call.events[i].type = "ai_review_disputed"
        PROVE  InPlace(call)'
    BY <1>3 DEF InPlace, AtDispute
  <1>4. CASE Finish(c) /\ UNCHANGED drafts
    BY <1>1, <1>4, FinishAside
  <1>5. CASE DisputeRead(c) /\ ~Finish(c)
    <2>1. PICK call : call = [calls[c] EXCEPT !.pc = "mark", !.draft = drafts["review_direct"]]
      OBVIOUS
    <2>2. calls' = [calls EXCEPT ![c] = call] /\ UNCHANGED drafts
      BY <1>5, <2>1 DEF DisputeRead
    <2>3. /\ call.op = "dispute" /\ call.pc = "mark" /\ call.settles = calls[c].settles
          /\ call.events = calls[c].events
      BY <1>2, <2>1 DEF Call
    <2>4. InPlace(call)'
      BY <1>2, <1>3, <2>3 DEF AtDispute
    <2> QED  BY <1>1, <1>2, <2>2, <2>3, <2>4, AsideStep
  <1>6. CASE MarkDisputed(c) /\ ~drafts["review_direct"].disputed
    <2> DEFINE told == <<Announce("ai_review_disputed", calls[c].att.verdict)>>
    <2>1. PICK call : call = [calls[c] EXCEPT !.pc = "publish", !.events = told]
      OBVIOUS
    <2>2. /\ calls' = [calls EXCEPT ![c] = call] /\ calls[c].pc = "mark"
          /\ drafts' = [drafts EXCEPT !["review_direct"].disputed = TRUE]
      BY <1>6, <2>1 DEF MarkDisputed
    <2>3. /\ call.op = "dispute" /\ call.pc = "publish" /\ call.settles = calls[c].settles
          /\ call.events = told
      BY <1>2, <2>1 DEF Call
    <2>4. \A i \in 1..Len(told) : told[i].type = "ai_review_disputed"
      BY DEF Announce
    <2>5. InPlace(call)'
      BY <1>2, <1>3, <2>3, <2>4 DEF AtDispute
    <2>6. \A cap \in Capability : drafts'[cap].call = drafts[cap].call
      <3>1. drafts["review_direct"] \in Draft /\ drafts \in [Capability -> Draft \cup {Null}]
            /\ "review_direct" \in Capability
        BY <1>2, <2>2 DEF Placed, IInv, TypeOK, Capability
      <3>2. drafts'["review_direct"] = [drafts["review_direct"] EXCEPT !.disputed = TRUE]
            /\ \A cap \in Capability \ {"review_direct"} : drafts'[cap] = drafts[cap]
        BY <2>2, <3>1
      <3>3. drafts'["review_direct"].call = drafts["review_direct"].call
        BY <3>1, <3>2 DEF Draft
      <3> QED  BY <3>2, <3>3
    <2> QED  BY <1>1, <1>2, <2>2, <2>3, <2>5, <2>6, AsideStep
  <1> QED  BY <1>1, <1>4, <1>5, <1>6 DEF DisputeRead, MarkDisputed

LEMMA SettlesKeepSerial ==
    ASSUME IInv, SerialInv, NEW c \in Calls, SettleRead(c) \/ Label(c)
    PROVE  SerialInv'
  <1>1. calls[c].pc \in {"settle", "label"} /\ UNCHANGED <<row, asked, now>>
    BY DEF SettleRead, Label
  <1>2. /\ calls[c] \in Call /\ Placed(calls[c]) /\ calls[c].op \in Runs[c]
        /\ calls[c].op # "dispute" /\ AtWork(calls[c]) /\ calls[c].att = row
    BY <1>1, InFlight DEF AtDispute, AtWork, Writes
  <1>3. PICK cap : cap = TeacherDraftCapability(row)
    OBVIOUS
  <1>4. cap \in Capability /\ drafts \in [Capability -> Draft \cup {Null}]
    BY <1>3 DEF TeacherDraftCapability, Capability, IInv, TypeOK
  <1>5. ASSUME calls' = Unlabelled(c), \A any \in Capability : drafts'[any].call = drafts[any].call
        PROVE  SerialInv'
    <2>1. PICK done : done = [calls[c] EXCEPT !.settles = FALSE]
      OBVIOUS
    <2>2. done \in Call /\ done.op = calls[c].op /\ done.att = row
      BY <1>2, <2>1 DEF Call
    <2>3. PICK next : next = AfterSave(done)
      OBVIOUS
    <2>4. calls' = [calls EXCEPT ![c] = next]
      BY <1>5, <2>1, <2>3 DEF Unlabelled
    <2>5. InPlace(next)' /\ (next.pc # "idle" => next.op = calls[c].op)
      BY <1>1, <1>2, <2>2, <2>3, AfterSaveInPlace
    <2> QED  BY <1>1, <1>2, <1>5, <2>4, <2>5, AsideStep
  <1>6. CASE SettleRead(c) /\ calls' # Unlabelled(c)
    <2>1. PICK draft : draft = [drafts[cap] EXCEPT !.status = "DECIDED"]
      OBVIOUS
    <2>2. PICK call : call = [calls[c] EXCEPT !.pc = "label", !.draft = draft]
      OBVIOUS
    <2>3. /\ drafts[cap] # Null /\ drafts' = drafts
          /\ calls' = [calls EXCEPT ![c] = call]
      BY <1>2, <1>3, <1>6, <2>1, <2>2 DEF SettleRead
    <2>4. draft.status = "DECIDED" /\ draft.call = drafts[cap].call
      <3>1. drafts[cap] \in Draft
        BY <1>4, <2>3
      <3> QED  BY <2>1, <3>1 DEF Draft
    <2>5. call.pc = "label" /\ call.op = calls[c].op /\ call.att = row /\ call.draft = draft
      BY <1>2, <2>2 DEF Call
    <2>6. AtWork(call)
      BY <1>3, <2>4, <2>5 DEF AtWork, Writes
    <2>7. InPlace(call)'
      BY <1>1, <1>2, <2>3, <2>5, <2>6, SameAtWork DEF InPlace
    <2> QED  BY <1>1, <1>2, <2>3, <2>5, <2>7, AsideStep
  <1>7. CASE Label(c)
    <2>1. PICK rewritten : rewritten = Rewritten(cap, calls[c].draft)
      OBVIOUS
    <2>2. /\ calls' = Unlabelled(c) /\ calls[c].pc = "label"
          /\ drafts' \in {drafts, [drafts EXCEPT ![cap] = rewritten]}
      BY <1>2, <1>3, <1>7, <2>1 DEF Label
    <2>3. calls[c].draft \in Draft /\ calls[c].draft.call = drafts[cap].call
      BY <1>2, <1>3, <2>2 DEF Placed, AtWork
    <2>4. rewritten.call = drafts[cap].call
      BY <2>1, <2>3 DEF Rewritten, Draft
    <2>5. \A any \in Capability : drafts'[any].call = drafts[any].call
      <3>1. CASE drafts' = [drafts EXCEPT ![cap] = rewritten]
        BY <1>4, <2>4, <3>1
      <3> QED  BY <2>2, <3>1
    <2> QED  BY <1>5, <2>2, <2>5
  <1>8. CASE SettleRead(c) /\ calls' = Unlabelled(c)
    <2>1. drafts' = drafts
      BY <1>8 DEF SettleRead
    <2> QED  BY <1>5, <1>8, <2>1
  <1> QED  BY <1>6, <1>7, <1>8

\* A model that judges says something of a hand-in.
LEMMA ModelJudges ==
    ASSUME TypeOK, NEW a \in AiCalls, asked[a] \in Answer, asked[a].result # "FAILED"
    PROVE  ModelVerdict(a) \in Verdict /\ ModelVerdict(a).by = a
  BY DEF ModelVerdict, Verdict, Judges, Answer

\* What is decided of the work a model read, before anything is written.
LEMMA RuledInPlace ==
    ASSUME IInv, SerialInv, Answered, NEW c \in Calls, NEW att, NEW events,
           calls[c].pc = "stored", CanReviewByAi(row), Ruled(c, att, events),
           UNCHANGED <<row, drafts, asked, now>>,
           \/ asked[calls[c].who].result = "FAILED"
           \/ ModelRules(calls[c].who, row, att, events)
    PROVE  SerialInv'
  <1> DEFINE review == drafts["review_direct"]
  <1>1. /\ calls[c] \in Call /\ calls[c].op \in Runs[c] /\ calls[c].op = "put_ai_review"
        /\ calls[c].who \in AiCalls
    BY InFlight DEF AtDispute, AtWork, Writes, Placed
  <1>2. ASSUME NEW pc \in {"existing", "save"}, NEW call,
               call = [[calls[c] EXCEPT !.att = att, !.events = events] EXCEPT !.pc = pc],
               calls' = [calls EXCEPT ![c] = call],
               pc = "save" => ModelRules(calls[c].who, row, att, events)
        PROVE  SerialInv'
    <2>1. /\ call.pc = pc /\ call.op = "put_ai_review" /\ call.who = calls[c].who
          /\ call.att = att /\ call.events = events
      BY <1>1, <1>2 DEF Call
    <2>2. AtWork(call)
      <3>1. CASE pc = "save"
        BY <1>2, <2>1, <3>1 DEF AtWork, Writes, Moves
      <3>2. CASE pc = "existing"
        BY <2>1, <3>2 DEF AtWork, Writes
      <3> QED  BY <1>2, <3>1, <3>2
    <2>3. InPlace(call)'
      BY <2>1, <2>2, SameAtWork DEF InPlace
    <2> QED  BY <1>1, <1>2, <2>1, <2>3, AsideStep
  <1>3. CASE ~IsStored(calls[c].who, "review_direct")
    BY <1>2, <1>3 DEF Ruled
  <1>4. CASE IsStored(calls[c].who, "review_direct") /\ review.status = "READY"
    <2>1. review \in Draft /\ review.call = calls[c].who
      BY <1>4 DEF IsStored, IInv, TypeOK, Capability
    <2>2. asked[calls[c].who].result # "FAILED"
      BY <1>4, <2>1 DEF Answered, Capability
    <2> QED  BY <1>2, <1>4, <2>2 DEF Ruled
  <1>5. CASE IsStored(calls[c].who, "review_direct") /\ review.status # "READY"
    BY <1>5, FinishAside DEF Ruled
  <1> QED  BY <1>3, <1>4, <1>5

LEMMA FindStoredKeepsSerial ==
    ASSUME IInv, SerialInv, Answered, NEW c \in Calls, FindStored(c)
    PROVE  SerialInv'
  <1>1. calls[c].pc = "stored" /\ UNCHANGED <<row, drafts, asked, now>>
    BY DEF FindStored, history
  <1>2. /\ calls[c].att = row /\ calls[c].who \in AiCalls /\ asked[calls[c].who] \in Answer
    BY <1>1, InFlight DEF AtDispute, AtWork, Writes, Placed
  <1>3. PICK a \in AiCalls : a = calls[c].who
    BY <1>2
  <1>4. PICK v : v = ModelVerdict(a)
    OBVIOUS
  <1>5. CASE Finish(c)
    BY <1>1, <1>5, FinishAside
  <1>6. CASE ~Finish(c)
    <2>1. CanReviewByAi(row)
      BY <1>2, <1>6 DEF FindStored, TakesDraft
    <2>2. CASE asked[a].result = "FAILED"
      <3>1. Ruled(c, row, <<>>)
        BY <1>2, <1>3, <1>6, <2>2 DEF FindStored
      <3> QED  BY <1>1, <1>3, <2>1, <2>2, <3>1, RuledInPlace
    <2>3. CASE asked[a].result # "FAILED"
      <3>1. v \in Verdict /\ v.by = a
        BY <1>2, <1>3, <1>4, <2>3, ModelJudges DEF IInv
      <3>2. PICK disagrees \in BOOLEAN :
              IF CountsAtOnce(row, v, disagrees)
              THEN Ruled(c, Deliver(row, v), CountedEvents(v))
              ELSE Ruled(c, KeepProvisional(row, v), <<>>)
        BY <1>2, <1>3, <1>4, <1>6, <2>3 DEF FindStored, CountedEvents
      <3>3. CASE CountsAtOnce(row, v, disagrees)
        <4>1. ModelRules(a, row, Deliver(row, v), CountedEvents(v))
          BY <2>1, <3>1 DEF ModelRules
        <4> QED  BY <1>1, <1>3, <2>1, <3>2, <3>3, <4>1, RuledInPlace
      <3>4. CASE ~CountsAtOnce(row, v, disagrees)
        <4>1. row.school
          BY <3>4 DEF CountsAtOnce
        <4>2. ModelRules(a, row, KeepProvisional(row, v), <<>>)
          BY <2>1, <3>1, <4>1 DEF ModelRules
        <4> QED  BY <1>1, <1>3, <2>1, <3>2, <3>4, <4>2, RuledInPlace
      <3> QED  BY <3>3, <3>4
    <2> QED  BY <2>2, <2>3
  <1> QED  BY <1>5, <1>6

LEMMA FindExistingKeepsSerial ==
    ASSUME IInv, SerialInv, NEW c \in Calls, FindExisting(c)
    PROVE  SerialInv'
  <1> DEFINE existing == drafts[CapOf(calls[c])]
             draft == [status |-> DraftStatus(calls[c].who), call |-> calls[c].who,
                       disputed |-> existing # Null /\ existing.disputed]
  <1>1. calls[c].pc = "existing" /\ UNCHANGED <<row, drafts, asked, now>>
    BY DEF FindExisting, history
  <1>2. /\ calls[c] \in Call /\ calls[c].op \in Runs[c] /\ calls[c].op # "dispute" /\ AtWork(calls[c])
    BY <1>1, InFlight DEF AtDispute
  <1>3. CASE Finish(c)
    BY <1>1, <1>3, FinishAside
  <1>4. CASE ~Finish(c)
    <2>1. PICK call : call = [calls[c] EXCEPT !.pc = "draft", !.fresh = (existing = Null), !.draft = draft]
      OBVIOUS
    <2>2. calls' = [calls EXCEPT ![c] = call]
      BY <1>4, <2>1 DEF FindExisting
    <2>3. /\ call.pc = "draft" /\ call.op = calls[c].op /\ call.who = calls[c].who
          /\ call.att = calls[c].att /\ call.events = calls[c].events /\ call.draft = draft
      BY <1>2, <2>1 DEF Call
    <2>4. draft.status = DraftStatus(calls[c].who) /\ draft.call = calls[c].who
      OBVIOUS
    <2> HIDE DEF draft
    <2>5. AtWork(call)
      BY <1>1, <1>2, <2>3, <2>4 DEF AtWork, Writes
    <2>6. InPlace(call)'
      BY <1>1, <1>2, <2>3, <2>5, SameAtWork DEF InPlace
    <2> QED  BY <1>1, <1>2, <2>2, <2>3, <2>6, AsideStep
  <1> QED  BY <1>3, <1>4

LEMMA WriteDraftKeepsSerial ==
    ASSUME IInv, OneAtATime, SerialInv, NEW c \in Calls, WriteDraft(c)
    PROVE  SerialInv'
  <1>1. calls[c].pc = "draft" /\ UNCHANGED <<row, asked, now>> /\ TypeOK
    BY DEF WriteDraft, history, IInv
  <1>2. /\ calls[c] \in Call /\ calls[c].op \in Runs[c] /\ calls[c].op # "dispute" /\ AtWork(calls[c])
        /\ \E op \in Runs[c] : op # "dispute" /\ (calls[c].pc = "idle" \/ calls[c].op = op)
    BY <1>1, InFlight DEF AtDispute
  <1>3. CASE Finish(c)
    <2>1. InPlace(NoCall)' /\ NoCall.pc = "idle"
      BY DEF InPlace, NoCall
    <2> QED  BY <1>1, <1>2, <1>3, <2>1, WorkStep DEF Finish
  <1>4. CASE ~Finish(c)
    <2>1. PICK call : call = [calls[c] EXCEPT !.pc = "save"]
      OBVIOUS
    <2>2. /\ calls' = [calls EXCEPT ![c] = call] /\ calls[c].draft.status = "READY"
          /\ CapOf(calls[c]) = "review_direct"
      BY <1>4, <2>1 DEF WriteDraft, Goto
    <2>3. calls[c].op = "put_ai_review"
      BY <1>1, <1>2, <2>2 DEF AtWork, Writes, CapOf
    <2>4. ModelRules(calls[c].who, row, calls[c].att, calls[c].events)
      BY <1>1, <1>2, <2>2, <2>3 DEF AtWork, Writes, DraftStatus
    <2>5. /\ call.pc = "save" /\ call.op = "put_ai_review" /\ call.who = calls[c].who
          /\ call.att = calls[c].att /\ call.events = calls[c].events
      BY <1>2, <2>1, <2>3 DEF Call
    <2>6. ModelRules(call.who, row, call.att, call.events)'
      BY <1>1, <2>4, <2>5 DEF ModelRules
    <2>7. AtWork(call)'
      BY <2>5, <2>6 DEF AtWork, Writes, Moves
    <2>8. InPlace(call)'
      BY <2>5, <2>7 DEF InPlace
    <2> QED  BY <1>1, <1>2, <2>2, <2>3, <2>5, <2>8, WorkStep
  <1> QED  BY <1>3, <1>4

LEMMA ReviewReadKeepsSerial ==
    ASSUME IInv, SerialInv, NEW c \in Calls, ReviewRead(c)
    PROVE  SerialInv'
  <1>1. calls[c].pc = "review_read" /\ UNCHANGED <<row, drafts, asked, now>>
    BY DEF ReviewRead, history
  <1>2. /\ calls[c] \in Call /\ Placed(calls[c]) /\ calls[c].op \in Runs[c]
        /\ calls[c].op \notin {"dispute", "put_ai_review"}
        /\ calls[c].att = row /\ calls[c].events = <<>>
    BY <1>1, InFlight DEF AtDispute, AtWork, Writes
  <1>3. CASE Finish(c)
    BY <1>1, <1>3, FinishAside
  <1>4. CASE ~Finish(c)
    <2>1. PICK call : call = [calls[c] EXCEPT !.pc = "save", !.att = GiveUpReview(row)]
      OBVIOUS
    <2>2. calls' = [calls EXCEPT ![c] = call]
      BY <1>2, <1>4, <2>1 DEF ReviewRead
    <2>3. call.pc = "save" /\ call.op = calls[c].op /\ call.att = GiveUpReview(row) /\ call.events = <<>>
      BY <1>2, <2>1 DEF Call
    <2>4. GivesUp(row, call.att, call.events)
      BY <1>1, <1>2, <2>3 DEF GivesUp, Placed
    <2>5. AtWork(call)
      BY <1>2, <2>3, <2>4 DEF AtWork, Writes, Moves, Acts
    <2>6. InPlace(call)'
      BY <1>1, <1>2, <2>3, <2>5, SameAtWork DEF InPlace
    <2> QED  BY <1>1, <1>2, <2>2, <2>3, <2>6, AsideStep
  <1> QED  BY <1>3, <1>4

\* A draft is written by the call that answered, and labelled or disputed after.
LEMMA AnsweredStands ==
    ASSUME TypeOK, Answered,
           \A a \in AiCalls : asked[a] \in Answer => asked'[a] = asked[a],
           \A cap \in Capability :
               \/ drafts'[cap] = drafts[cap]
               \/ drafts'[cap].status # "READY"
               \/ /\ drafts[cap] \in Draft
                  /\ drafts'[cap].status = drafts[cap].status /\ drafts'[cap].call = drafts[cap].call
               \/ /\ asked[drafts'[cap].call] \in Answer
                  /\ asked[drafts'[cap].call].result # "FAILED"
    PROVE  Answered'
  <1> SUFFICES ASSUME NEW cap \in Capability, drafts'[cap] \in Draft, drafts'[cap].status = "READY"
               PROVE  /\ asked'[drafts'[cap].call] \in Answer
                      /\ asked'[drafts'[cap].call].result # "FAILED"
    BY DEF Answered
  <1>1. asked[drafts'[cap].call] \in Answer /\ asked[drafts'[cap].call].result # "FAILED"
    BY DEF Answered
  <1>2. drafts'[cap].call \in AiCalls
    BY DEF Draft
  <1> QED  BY <1>1, <1>2

LEMMA WritesStayAnswered ==
    ASSUME IInv, SerialInv, Answered, NEW c \in Calls, MarkDisputed(c) \/ Label(c) \/ WriteDraft(c)
    PROVE  Answered'
  <1>1. TypeOK /\ asked' = asked /\ calls[c].pc # "idle" /\ drafts \in [Capability -> Draft \cup {Null}]
    BY DEF MarkDisputed, Label, WriteDraft, history, IInv, TypeOK
  <1>2. calls[c] \in Call /\ Placed(calls[c]) /\ (calls[c].op # "dispute" => AtWork(calls[c]))
    BY <1>1, InFlight
  <1>3. CASE drafts' = drafts
    BY <1>1, <1>3, AnsweredStands
  <1>4. ASSUME NEW cap \in Capability, NEW draft, drafts' = [drafts EXCEPT ![cap] = draft],
               \/ draft.status # "READY"
               \/ /\ drafts[cap] \in Draft
                  /\ draft.status = drafts[cap].status /\ draft.call = drafts[cap].call
               \/ asked[draft.call] \in Answer /\ asked[draft.call].result # "FAILED"
        PROVE  Answered'
    <2>1. drafts'[cap] = draft /\ \A any \in Capability \ {cap} : drafts'[any] = drafts[any]
      BY <1>1, <1>4
    <2> QED  BY <1>1, <1>4, <2>1, AnsweredStands
  <1>5. CASE MarkDisputed(c) /\ drafts' # drafts
    <2>1. PICK draft : draft = [drafts["review_direct"] EXCEPT !.disputed = TRUE]
      OBVIOUS
    <2>2. drafts' = [drafts EXCEPT !["review_direct"] = draft] /\ calls[c].pc = "mark"
      BY <1>5, <2>1 DEF MarkDisputed
    <2>3. drafts["review_direct"] \in Draft /\ "review_direct" \in Capability
      BY <1>2, <2>2 DEF Placed, Capability
    <2>4. draft.status = drafts["review_direct"].status /\ draft.call = drafts["review_direct"].call
      BY <2>1, <2>3 DEF Draft
    <2> QED  BY <1>4, <2>2, <2>3, <2>4
  <1>6. CASE Label(c) /\ drafts' # drafts
    <2>1. PICK cap : cap = TeacherDraftCapability(calls[c].att)
      OBVIOUS
    <2>2. PICK draft : draft = Rewritten(cap, calls[c].draft)
      OBVIOUS
    <2>3. /\ calls[c].pc = "label" /\ cap \in Capability
          /\ drafts' = [drafts EXCEPT ![cap] = draft]
      BY <1>6, <2>1, <2>2 DEF Label, TeacherDraftCapability, Capability
    <2>4. calls[c].draft \in Draft /\ calls[c].draft.status = "DECIDED"
      BY <1>2, <2>3 DEF Placed, AtWork, InFlight, AtDispute, InPlace, SerialInv
    <2>5. draft.status = "DECIDED"
      BY <2>2, <2>4 DEF Rewritten, Draft
    <2> QED  BY <1>4, <2>3, <2>5
  <1>7. CASE WriteDraft(c) /\ drafts' # drafts
    <2>1. PICK cap : cap = CapOf(calls[c])
      OBVIOUS
    <2>2. PICK draft : draft = IF calls[c].fresh THEN calls[c].draft ELSE Rewritten(cap, calls[c].draft)
      OBVIOUS
    <2>3. /\ calls[c].pc = "draft" /\ cap \in Capability
          /\ drafts' = [drafts EXCEPT ![cap] = draft]
      BY <1>7, <2>1, <2>2 DEF WriteDraft, CapOf, Capability
    <2>4. /\ calls[c].draft \in Draft /\ asked[calls[c].who] \in Answer
          /\ calls[c].draft.status = DraftStatus(calls[c].who) /\ calls[c].draft.call = calls[c].who
      <3>1. AtWork(calls[c])
        BY <2>3, InFlight DEF AtDispute
      <3> QED  BY <1>2, <2>3, <3>1 DEF Placed, AtWork
    <2>5. draft.status = DraftStatus(calls[c].who) /\ draft.call = calls[c].who
      BY <2>2, <2>4 DEF Rewritten, Draft
    <2>6. draft.status = "READY" => asked[calls[c].who].result # "FAILED"
      BY <2>5 DEF DraftStatus
    <2> QED  BY <1>4, <2>3, <2>4, <2>5, <2>6
  <1> QED  BY <1>3, <1>5, <1>6, <1>7

(***************************************************************************)
(* What one request at a time leaves standing at every step.               *)
(***************************************************************************)
WorkInv == IInv /\ SerialInv /\ Answered

LEMMA InitIsWork == Init => WorkInv
  <1> SUFFICES ASSUME Init PROVE WorkInv
    OBVIOUS
  <1>1. \A c \in Calls : calls[c] = NoCall
    BY DEF Init
  <1>2. SerialInv
    BY <1>1, NoCallInPlace DEF SerialInv, OwnOps, NoCall
  <1>3. \A cap \in Capability : drafts[cap] = Null
    BY DEF Init
  <1>4. Answered
    BY <1>3, RowAssumption DEF Answered
  <1> QED  BY <1>2, <1>4, InitIsInv DEF WorkInv

LEMMA AskingStands ==
    ASSUME TypeOK, NEW a \in AiCalls, AskModel(a)
    PROVE  \A b \in AiCalls : asked[b] \in Answer => asked'[b] = asked[b]
  <1>1. asked[a] = Null /\ asked[a] \notin Answer
    BY RowAssumption DEF AskModel
  <1>2. \A b \in AiCalls \ {a} : asked'[b] = asked[b]
    BY DEF AskModel, TypeOK
  <1> QED  BY <1>1, <1>2

LEMMA NextKeepsWork ==
    ASSUME OneAtATime, WorkInv, [Next]_vars
    PROVE  WorkInv'
  <1>1. IInv /\ SerialInv /\ Answered /\ TypeOK
    BY DEF WorkInv, IInv
  <1>2. IInv'
    BY <1>1, NextKeepsInv
  <1>3. UNCHANGED <<drafts, asked>> => Answered'
    BY <1>1 DEF Answered
  <1>4. ASSUME NEW c \in Calls, Learner(c) \/ Staff(c) \/ Platform(c)
        PROVE  SerialInv' /\ UNCHANGED <<drafts, asked>>
    <2>1. UNCHANGED <<drafts, asked>>
      BY <1>4, Zenon DEF Learner, Staff, Platform, Begin, SubmitAnswer, SaveDraft,
         AbandonAttempt, RevealAnswersOf, DisputeAiReview, ReviewAttempt, BatchApprove,
         ClaimReview, ReleaseReviewOf, PutAiReview, PutAiDraft, GiveUpAiReview, AcceptAtTerm,
         ExerciseDeleted
    <2> QED  BY <1>1, <1>4, <2>1, HandlersKeepSerial
  <1>5. ASSUME NEW c \in Calls, Step(c)
        PROVE  SerialInv' /\ Answered'
    <2>1. CASE MarkDisputed(c) \/ Label(c) \/ WriteDraft(c)
      BY <1>1, <2>1, WritesStayAnswered, DisputesKeepSerial, SettlesKeepSerial, WriteDraftKeepsSerial
    <2>2. CASE \/ SaveAttempt(c) \/ SaveIfInReview(c) \/ PublishNext(c) \/ Crash(c)
               \/ DisputeRead(c) \/ SettleRead(c) \/ FindStored(c) \/ FindExisting(c) \/ ReviewRead(c)
      <3>1. UNCHANGED <<drafts, asked>>
        BY <2>2, Zenon DEF SaveAttempt, SaveIfInReview, WriteRow, PublishNext, Crash, DisputeRead,
           SettleRead, FindStored, FindExisting, ReviewRead
      <3>2. Answered'
        BY <1>1, <3>1 DEF Answered
      <3>3. Crash(c) => SerialInv'
        BY <1>1, FinishAside DEF Crash
      <3> QED  BY <1>1, <2>2, <3>2, <3>3, SavesKeepSerial, PublishKeepsSerial, DisputesKeepSerial,
                  SettlesKeepSerial, FindStoredKeepsSerial, FindExistingKeepsSerial,
                  ReviewReadKeepsSerial
    <2> QED  BY <1>5, <2>1, <2>2 DEF Step
  <1>6. ASSUME UNCHANGED <<row, drafts, calls>>, now' \in Nat, now <= now',
               \A a \in AiCalls : asked[a] \in Answer => asked'[a] = asked[a]
        PROVE  SerialInv' /\ Answered'
    BY <1>1, <1>6, WaitStep, AnsweredStands
  <1>7. now \in Nat
    BY <1>1 DEF TypeOK
  <1>8. ASSUME NEW a \in AiCalls, AskModel(a) PROVE SerialInv' /\ Answered'
    <2>1. UNCHANGED <<row, drafts, calls, now>>
      BY <1>8 DEF AskModel
    <2> QED  BY <1>1, <1>6, <1>7, <1>8, <2>1, AskingStands
  <1>9. ASSUME Tick PROVE SerialInv' /\ Answered'
    <2>1. UNCHANGED <<row, drafts, asked, calls>> /\ now' = now + 1
      BY <1>9 DEF Tick
    <2> QED  BY <1>6, <1>7, <2>1
  <1>10. ASSUME UNCHANGED vars PROVE SerialInv' /\ Answered'
    BY <1>6, <1>7, <1>10 DEF vars
  <1>11. SerialInv' /\ Answered'
    BY <1>1, <1>3, <1>4, <1>5, <1>8, <1>9, <1>10 DEF Next
  <1> QED  BY <1>2, <1>11 DEF WorkInv

\* The row changes only as the one request at work would have it.
LEMMA RowMoves ==
    ASSUME WorkInv, [Next]_vars, row' # row
    PROVE  \E c \in Calls : /\ Writes(calls[c]) /\ WriteRow(c)
                            /\ calls[c].op # "dispute" /\ calls[c] \in Call
                            /\ Moves(calls[c], row, row', calls[c].events)
  <1>1. PICK c \in Calls : Writes(calls[c]) /\ WriteRow(c)
    BY Zenon DEF Next, Learner, Staff, Platform, Step, Begin, SubmitAnswer, SaveDraft,
       AbandonAttempt, RevealAnswersOf, DisputeAiReview, ReviewAttempt, BatchApprove, ClaimReview,
       ReleaseReviewOf, PutAiReview, PutAiDraft, GiveUpAiReview, AcceptAtTerm, ExerciseDeleted,
       SaveAttempt, SaveIfInReview, PublishNext, Crash, DisputeRead, MarkDisputed, SettleRead,
       Label, FindStored, FindExisting, WriteDraft, ReviewRead, AskModel, Tick, vars, Writes
  <1>2. calls[c].op # "dispute" /\ calls[c] \in Call /\ AtWork(calls[c])
    BY <1>1, InFlight DEF WorkInv, Writes, AtDispute
  <1> QED  BY <1>1, <1>2 DEF AtWork, WriteRow

LEMMA RowOfWork == WorkInv => row \in Row /\ Sound(row)
  BY RowIsSound DEF WorkInv

\* Work a model may rule on has no provisional verdict, whoever's it is.
LEMMA ModelFindsNone ==
    ASSUME WorkInv, CanReviewByAi(row)
    PROVE  row.status = "ROUTED_FOR_REVIEW" /\ row.provisional = Null
  BY RowOfWork DEF CanReviewByAi, Sound, WellFormed

LEMMA VerdictStep ==
    ASSUME WorkInv, [Next]_vars, HasDeliveredVerdict(row)
    PROVE  row'.verdict = row.verdict \/ row'.answer > row.answer
  <1>1. CASE row' = row
    BY <1>1
  <1>2. CASE row' # row
    <2>1. PICK c \in Calls : Moves(calls[c], row, row', calls[c].events)
      BY <1>2, RowMoves
    <2>2. row \in Row /\ row.answer \in Nat /\ row.status \in {"SCORED", "RETURNED"}
      BY RowOfWork DEF Row, HasDeliveredVerdict, Judged
    <2>3. PICK events : events = calls[c].events
      OBVIOUS
    <2>4. ~CanReviewByAi(row) /\ ~GivesUp(row, row', events) /\ ~TermDelivers(row, row', events)
          /\ ~TeacherDelivers(row, row', events)
      BY <2>2 DEF CanReviewByAi, GivesUp, CanGiveUpReview, TermDelivers, CanAcceptAtTerm,
         TeacherDelivers
    <2>5. Retouches(row, row', events) => row'.verdict = row.verdict
      BY <2>2 DEF Retouches, Row
    <2>6. Abandons(row, row', events) => row'.verdict = row.verdict
      BY <2>2 DEF Abandons, Abandon, Row
    <2>7. HandsIn(row, row', events) => row'.answer > row.answer
      BY <2>2 DEF HandsIn
    <2> QED  BY <2>1, <2>3, <2>4, <2>5, <2>6, <2>7 DEF Moves, Acts, ModelRules
  <1> QED  BY <1>1, <1>2

LEMMA TermStep ==
    ASSUME WorkInv, [Next]_vars, row.status = "ROUTED_FOR_REVIEW", ReviewLocked(row, now)
    PROVE  ~AcceptedAtTerm(row')
  <1>1. CASE row' = row
    BY <1>1 DEF AcceptedAtTerm, ReviewedByAi, Judged
  <1>2. CASE row' # row
    <2>1. PICK c \in Calls : Moves(calls[c], row, row', calls[c].events)
      BY <1>2, RowMoves
    <2>2. row \in Row
      BY RowOfWork
    <2>3. PICK events : events = calls[c].events
      OBVIOUS
    <2>4. ~HandsIn(row, row', events) /\ ~Abandons(row, row', events) /\ ~TermDelivers(row, row', events)
      BY DEF HandsIn, Abandons, CanAbandon, TermDelivers
    <2>5. ASSUME Retouches(row, row', events) \/ GivesUp(row, row', events)
          PROVE  ~AcceptedAtTerm(row')
      <3>1. row'.status \in {"ROUTED_FOR_REVIEW", "NO_REVIEWER"}
        BY <2>2, <2>5 DEF Retouches, GivesUp, GiveUpReview, Row
      <3> QED  BY <3>1 DEF AcceptedAtTerm, ReviewedByAi, Judged
    <2>6. ASSUME TeacherDelivers(row, row', events)
          PROVE  ~AcceptedAtTerm(row')
      <3>1. row'.verdict.by \in Teachers /\ row'.verdict \in Verdict
        BY <2>2, <2>6 DEF TeacherDelivers, Deliver, Row
      <3> QED  BY <3>1, NullAssumption DEF AcceptedAtTerm, ReviewedByAi, Signed
    <2>7. ASSUME NEW a, ModelRules(a, row, row', events)
          PROVE  ~AcceptedAtTerm(row')
      <3>1. row.provisional = Null
        BY <2>7, ModelFindsNone DEF ModelRules
      <3>2. PICK v \in Verdict : row' = Deliver(row, v) \/ row' = KeepProvisional(row, v)
        BY <2>7 DEF ModelRules
      <3>3. row' = Deliver(row, v) => row'.provisional = Null
        BY <2>2, <3>1 DEF Deliver, Row
      <3>4. row' = KeepProvisional(row, v) => row'.status = "ROUTED_FOR_REVIEW"
        BY <2>2 DEF KeepProvisional, Row
      <3> QED  BY <3>2, <3>3, <3>4 DEF AcceptedAtTerm, ReviewedByAi, Judged
    <2> QED  BY <2>1, <2>3, <2>4, <2>5, <2>6, <2>7 DEF Moves, Acts
  <1> QED  BY <1>1, <1>2

(***************************************************************************)
(* With one request at a time a signed verdict stands, for any teachers,   *)
(* calls, crashes and presses of dispute: whoever writes the row writes    *)
(* the row it has just read.                                               *)
(***************************************************************************)
THEOREM SignedVerdictsStand ==
    ASSUME OneAtATime
    PROVE  Spec => TeacherVerdictStands
  <1>1. WorkInv /\ [Next]_vars => WorkInv'
    BY NextKeepsWork
  <1>2. WorkInv /\ [Next]_vars
          => [HasDeliveredVerdict(row) => row'.verdict = row.verdict \/ row'.answer > row.answer]_vars
    BY VerdictStep
  <1> QED  BY <1>1, <1>2, InitIsWork, PTL DEF Spec, TeacherVerdictStands

(***************************************************************************)
(* With one request at a time the term never closes work under a teacher   *)
(* who has it open.                                                        *)
(***************************************************************************)
THEOREM TheTermYields ==
    ASSUME OneAtATime
    PROVE  Spec => TermYieldsToOpenCard
  <1>1. WorkInv /\ [Next]_vars => WorkInv'
    BY NextKeepsWork
  <1>2. WorkInv /\ [Next]_vars
          => [row.status = "ROUTED_FOR_REVIEW" /\ ReviewLocked(row, now) => ~AcceptedAtTerm(row')]_vars
    BY TermStep
  <1> QED  BY <1>1, <1>2, InitIsWork, PTL DEF Spec, TermYieldsToOpenCard

-----------------------------------------------------------------------------
(***************************************************************************)
(* The review behind a model's verdict, on the row or about to be written. *)
(***************************************************************************)
DirectReview == drafts["review_direct"]
Backs(review, a) == review # Null /\ review.status # "FAILED" /\ review.call = a

BehindInv ==
    /\ row.provisional # Null => Backs(DirectReview, row.provisional.by)
    /\ row.status \in {"IN_PROGRESS", "SCORED", "RETURNED"} /\ row.verdict # Null /\ ~Signed(row)
         => Backs(DirectReview, row.verdict.by)
    /\ \A c \in Calls : Writes(calls[c]) /\ calls[c].op = "put_ai_review"
         => Backs(DirectReview, calls[c].who)

\* A review that stood behind a verdict still does.
LEMMA BehindStands ==
    ASSUME BehindInv, row' = row,
           \A a : Backs(DirectReview, a) => Backs(DirectReview', a),
           NEW c \in Calls, NEW call, calls \in [Calls -> Call],
           calls' = [calls EXCEPT ![c] = call],
           Writes(call) /\ call.op = "put_ai_review" => Backs(DirectReview', call.who)
    PROVE  BehindInv'
  <1>1. calls'[c] = call /\ \A d \in Calls \ {c} : calls'[d] = calls[d]
    OBVIOUS
  <1>2. ASSUME NEW d \in Calls, Writes(calls'[d]), calls'[d].op = "put_ai_review"
        PROVE  Backs(DirectReview', calls'[d].who)
    <2>1. CASE d = c
      BY <1>1, <1>2, <2>1
    <2>2. CASE d # c
      BY <1>1, <1>2, <2>2 DEF BehindInv
    <2> QED  BY <2>1, <2>2
  <1>3. row'.provisional # Null => Backs(DirectReview', row'.provisional.by)
    BY DEF BehindInv
  <1>4. row'.status \in {"IN_PROGRESS", "SCORED", "RETURNED"} /\ row'.verdict # Null /\ ~Signed(row')
          => Backs(DirectReview', row'.verdict.by)
    BY DEF BehindInv
  <1> QED  BY <1>2, <1>3, <1>4 DEF BehindInv, Writes

LEMMA ReviewStands ==
    ASSUME drafts'["review_direct"] = drafts["review_direct"]
    PROVE  \A a : Backs(DirectReview, a) => Backs(DirectReview', a)
  BY DEF Backs, DirectReview

\* No handler starts by writing a model's verdict.
LEMMA StartsBehind ==
    ASSUME WorkInv, BehindInv, NEW c \in Calls, Learner(c) \/ Staff(c) \/ Platform(c)
    PROVE  BehindInv'
  <1>1. calls \in [Calls -> Call]
    BY DEF WorkInv, IInv, TypeOK
  <1>2. ASSUME NEW op, NEW who, NEW pc, NEW att, NEW events, NEW settles,
               op = "put_ai_review" => pc = "stored",
               Begin(c, Handling(op, who, pc, att, events, settles))
        PROVE  BehindInv'
    <2>1. PICK call : call = Handling(op, who, pc, att, events, settles)
      OBVIOUS
    <2>2. calls' = [calls EXCEPT ![c] = call] /\ row' = row /\ drafts' = drafts
      BY <1>2, <2>1 DEF Begin
    <2>3. ~(Writes(call) /\ call.op = "put_ai_review")
      BY <1>2, <2>1 DEF Handling, Writes
    <2> QED  BY <1>1, <2>2, <2>3, ReviewStands, BehindStands
  <1>3. CASE Learner(c)
    BY <1>2, <1>3, Zenon DEF Learner, SubmitAnswer, SaveDraft, AbandonAttempt, RevealAnswersOf,
       DisputeAiReview, Mutated, Loaded
  <1>4. CASE Staff(c)
    BY <1>2, <1>4, Zenon DEF Staff, ReviewAttempt, BatchApprove, ClaimReview, ReleaseReviewOf, Mutated
  <1>5. CASE Platform(c)
    BY <1>2, <1>5, Zenon DEF Platform, PutAiReview, PutAiDraft, GiveUpAiReview, AcceptAtTerm,
       ExerciseDeleted, Mutated, Loaded
  <1> QED  BY <1>3, <1>4, <1>5

\* The row as the one request at work would have it.
LEMMA SaveBehind ==
    ASSUME WorkInv, BehindInv, NEW c \in Calls, Writes(calls[c]), WriteRow(c)
    PROVE  BehindInv'
  <1>1. /\ row \in Row /\ calls \in [Calls -> Call] /\ Sound(row)
        /\ drafts' = drafts /\ row' = calls[c].att
        /\ calls' = [calls EXCEPT ![c] = AfterSave(calls[c])]
    BY RowOfWork DEF WorkInv, IInv, TypeOK, WriteRow
  <1>2. calls[c].op # "dispute" /\ AtWork(calls[c]) /\ calls[c] \in Call
    BY InFlight DEF WorkInv, Writes, AtDispute
  <1>3. Moves(calls[c], row, row', calls[c].events)
    BY <1>1, <1>2 DEF AtWork
  <1>4. PICK next : next = AfterSave(calls[c])
    OBVIOUS
  <1>5. ~Writes(next)
    BY <1>2, <1>4 DEF AfterSave, Writes, NoCall, Call
  <1>6. calls'[c] = next /\ \A d \in Calls \ {c} : calls'[d] = calls[d]
    BY <1>1, <1>4
  <1>7. \A a : Backs(DirectReview, a) => Backs(DirectReview', a)
    BY <1>1, ReviewStands
  <1>8. ASSUME NEW d \in Calls, Writes(calls'[d]), calls'[d].op = "put_ai_review"
        PROVE  Backs(DirectReview', calls'[d].who)
    BY <1>5, <1>6, <1>7, <1>8 DEF BehindInv
  <1>9. PICK events : events = calls[c].events
    OBVIOUS
  <1> DEFINE Counts(att) == att.status \in {"IN_PROGRESS", "SCORED", "RETURNED"}
                            /\ att.verdict # Null /\ ~Signed(att)
  <1>10. /\ row'.provisional # Null => Backs(DirectReview, row'.provisional.by)
         /\ Counts(row') => Backs(DirectReview, row'.verdict.by)
    <2>1. ASSUME Retouches(row, row', events)
          PROVE  row'.provisional = row.provisional /\ row'.verdict = row.verdict
                 /\ row'.status = row.status
      BY <1>1, <2>1 DEF Retouches, Row
    <2>2. ASSUME HandsIn(row, row', events)
          PROVE  row'.provisional = row.provisional /\ row'.verdict = row.verdict
                 /\ row.status \in {"IN_PROGRESS", "SCORED", "RETURNED"}
      BY <2>2 DEF HandsIn
    <2>3. ASSUME Abandons(row, row', events) \/ GivesUp(row, row', events)
          PROVE  row'.provisional = row.provisional /\ ~Counts(row')
      BY <1>1, <2>3 DEF Abandons, GivesUp, Abandon, GiveUpReview, Row
    <2>4. ASSUME TeacherDelivers(row, row', events)
          PROVE  row'.provisional = row.provisional /\ ~Counts(row')
      BY <1>1, <2>4 DEF TeacherDelivers, Deliver, Row, Signed
    <2>5. ASSUME TermDelivers(row, row', events)
          PROVE  row'.provisional = row.provisional /\ row'.verdict = row.provisional
      BY <1>1, <2>5 DEF TermDelivers, Deliver, Row
    <2>6. ASSUME calls[c].op = "put_ai_review", ModelRules(calls[c].who, row, row', events)
          PROVE  /\ row'.provisional # Null => Backs(DirectReview, row'.provisional.by)
                 /\ Counts(row') => Backs(DirectReview, row'.verdict.by)
      <3>1. PICK v \in Verdict : /\ v.by = calls[c].who
                                 /\ row' = Deliver(row, v) \/ row' = KeepProvisional(row, v)
        BY <2>6 DEF ModelRules
      <3>2. Backs(DirectReview, v.by)
        BY <2>6, <3>1 DEF BehindInv
      <3>3. row.status = "ROUTED_FOR_REVIEW" /\ row.provisional = Null
        BY <2>6, ModelFindsNone DEF ModelRules
      <3>4. CASE row' = Deliver(row, v)
        BY <1>1, <3>2, <3>3, <3>4 DEF Deliver, Row
      <3>5. CASE row' = KeepProvisional(row, v)
        BY <1>1, <3>2, <3>3, <3>5 DEF KeepProvisional, Row
      <3> QED  BY <3>1, <3>4, <3>5
    <2>7. Counts(row) => Backs(DirectReview, row.verdict.by)
      BY DEF BehindInv
    <2>8. row.provisional # Null => Backs(DirectReview, row.provisional.by)
      BY DEF BehindInv
    <2>9. row'.verdict = row.verdict => (Signed(row') <=> Signed(row))
      BY DEF Signed
    <2> QED  BY <1>3, <1>9, <2>1, <2>2, <2>3, <2>4, <2>5, <2>6, <2>7, <2>8, <2>9 DEF Moves, Acts,
                TermDelivers, CanAcceptAtTerm
  <1>11. BehindInv'
    BY <1>7, <1>8, <1>10 DEF BehindInv, Writes
  <1> QED  BY <1>11

LEMMA MarkBehind ==
    ASSUME WorkInv, BehindInv, NEW c \in Calls, MarkDisputed(c) \/ Label(c)
    PROVE  BehindInv'
  <1>1. /\ calls \in [Calls -> Call] /\ calls[c] \in Call /\ Placed(calls[c])
        /\ drafts \in [Capability -> Draft \cup {Null}] /\ "review_direct" \in Capability
        /\ row' = row
    BY DEF WorkInv, IInv, TypeOK, Capability, MarkDisputed, Label
  <1>2. \E call : calls' = [calls EXCEPT ![c] = call] /\ ~Writes(call)
    <2>1. CASE MarkDisputed(c)
      <3>1. PICK call : call = [calls[c] EXCEPT !.pc = "publish",
                                 !.events = <<Announce("ai_review_disputed", calls[c].att.verdict)>>]
        OBVIOUS
      <3>2. ~Writes(call) /\ ~Writes(NoCall)
        BY <1>1, <3>1 DEF Writes, Call, NoCall
      <3> QED  BY <2>1, <3>1, <3>2 DEF MarkDisputed, Finish
    <2>2. CASE Label(c)
      <3>1. PICK done : done = [calls[c] EXCEPT !.settles = FALSE]
        OBVIOUS
      <3>2. PICK next : next = AfterSave(done)
        OBVIOUS
      <3>3. done \in Call
        BY <1>1, <3>1 DEF Call
      <3>4. ~Writes(next)
        BY <3>2, <3>3 DEF AfterSave, Writes, NoCall, Call
      <3> QED  BY <2>2, <3>1, <3>2, <3>4 DEF Label, Unlabelled
    <2> QED  BY <2>1, <2>2
  <1>3. ASSUME NEW draft \in Draft, drafts["review_direct"] # Null,
               drafts' = [drafts EXCEPT !["review_direct"] = draft],
               draft.call = drafts["review_direct"].call,
               draft.status = drafts["review_direct"].status \/ draft.status = "DECIDED"
        PROVE  \A a : Backs(DirectReview, a) => Backs(DirectReview', a)
    <2>1. drafts'["review_direct"] = draft /\ draft # Null
      BY <1>1, <1>3, RowAssumption
    <2> QED  BY <1>3, <2>1 DEF Backs, DirectReview
  <1>4. \A a : Backs(DirectReview, a) => Backs(DirectReview', a)
    <2>1. CASE drafts' = drafts
      BY <2>1, ReviewStands
    <2>2. CASE MarkDisputed(c) /\ drafts' # drafts
      <3>1. PICK draft : draft = [drafts["review_direct"] EXCEPT !.disputed = TRUE]
        OBVIOUS
      <3>2. drafts' = [drafts EXCEPT !["review_direct"] = draft] /\ calls[c].pc = "mark"
        BY <2>2, <3>1 DEF MarkDisputed
      <3>3. drafts["review_direct"] \in Draft
        BY <1>1, <3>2 DEF Placed
      <3>4. /\ draft \in Draft /\ draft.call = drafts["review_direct"].call
            /\ draft.status = drafts["review_direct"].status
        BY <3>1, <3>3 DEF Draft
      <3> QED  BY <1>3, <3>2, <3>3, <3>4, RowAssumption
    <2>3. CASE Label(c) /\ drafts' # drafts
      <3>1. PICK cap : cap = TeacherDraftCapability(calls[c].att)
        OBVIOUS
      <3>2. PICK draft : draft = Rewritten(cap, calls[c].draft)
        OBVIOUS
      <3>3. drafts' = [drafts EXCEPT ![cap] = draft] /\ calls[c].pc = "label" /\ cap \in Capability
        BY <2>3, <3>1, <3>2 DEF Label, TeacherDraftCapability, Capability
      <3>4. /\ calls[c].draft \in Draft /\ drafts[cap] \in Draft
            /\ calls[c].draft.status = "DECIDED" /\ calls[c].draft.call = drafts[cap].call
        <4>1. AtWork(calls[c])
          BY <3>3, InFlight DEF WorkInv, AtDispute
        <4> QED  BY <1>1, <3>1, <3>3, <4>1 DEF Placed, AtWork
      <3>5. draft \in Draft /\ draft.call = drafts[cap].call /\ draft.status = "DECIDED"
        BY <3>2, <3>4 DEF Rewritten, Draft
      <3>6. CASE cap = "review_direct"
        BY <1>3, <3>3, <3>4, <3>5, <3>6, RowAssumption
      <3>7. CASE cap # "review_direct"
        <4>1. drafts'["review_direct"] = drafts["review_direct"]
          BY <1>1, <3>3, <3>7
        <4> QED  BY <4>1, ReviewStands
      <3> QED  BY <3>6, <3>7
    <2> QED  BY <2>1, <2>2, <2>3
  <1> QED  BY <1>1, <1>2, <1>4, BehindStands

\* A review is written beside work that carries no model's verdict.
LEMMA WriteBehind ==
    ASSUME OneAtATime, WorkInv, BehindInv, NEW c \in Calls, WriteDraft(c)
    PROVE  BehindInv'
  <1>1. /\ calls \in [Calls -> Call] /\ calls[c] \in Call /\ Placed(calls[c])
        /\ drafts \in [Capability -> Draft \cup {Null}] /\ "review_direct" \in Capability
        /\ row' = row /\ calls[c].pc = "draft"
        /\ calls[c].op # "dispute" /\ AtWork(calls[c])
        /\ \E op \in Runs[c] : op # "dispute" /\ (calls[c].pc = "idle" \/ calls[c].op = op)
    BY InFlight DEF WorkInv, IInv, TypeOK, Capability, WriteDraft, history, AtDispute
  <1>2. PICK call : /\ calls' = [calls EXCEPT ![c] = call]
                    /\ Writes(call) => /\ call.who = calls[c].who
                                       /\ CapOf(calls[c]) = "review_direct"
                                       /\ calls[c].draft.status = "READY"
                                       /\ ~(calls[c].fresh /\ drafts["review_direct"] # Null)
    <2>1. CASE Finish(c)
      <3>1. calls' = [calls EXCEPT ![c] = NoCall]
        BY <2>1 DEF Finish
      <3>2. ~Writes(NoCall)
        BY DEF Writes, NoCall
      <3> QED  BY <3>1, <3>2
    <2>2. CASE ~Finish(c)
      <3>1. PICK save : save = [calls[c] EXCEPT !.pc = "save"]
        OBVIOUS
      <3>2. save.who = calls[c].who
        BY <1>1, <3>1 DEF Call
      <3> QED  BY <2>2, <3>1, <3>2 DEF WriteDraft, Goto
    <2> QED  BY <2>1, <2>2
  <1>3. CASE calls[c].op = "put_ai_draft"
    <2>1. CapOf(calls[c]) = "review_draft"
      BY <1>3 DEF CapOf
    <2>2. drafts'["review_direct"] = drafts["review_direct"]
      BY <1>1, <2>1 DEF WriteDraft
    <2> QED  BY <1>1, <1>2, <2>1, <2>2, ReviewStands, BehindStands
  <1>4. CASE calls[c].op # "put_ai_draft"
    <2>1. CapOf(calls[c]) = "review_direct"
      BY <1>4 DEF CapOf
    <2>2. row.status = "ROUTED_FOR_REVIEW" /\ row.provisional = Null
      BY <1>1, <1>4, ModelFindsNone DEF AtWork
    <2>3. ASSUME NEW d \in Calls \ {c} PROVE ~(Writes(calls[d]) /\ calls[d].op = "put_ai_review")
      BY <1>1, AloneAtWork DEF WorkInv, SerialInv, Writes
    <2>4. calls'[c] = call /\ \A d \in Calls \ {c} : calls'[d] = calls[d]
      BY <1>1, <1>2
    <2>5. Writes(call) => Backs(DirectReview', call.who)
      <3>1. SUFFICES ASSUME Writes(call) PROVE Backs(DirectReview', call.who)
        OBVIOUS
      <3>2. PICK draft : draft = IF calls[c].fresh THEN calls[c].draft
                                 ELSE Rewritten("review_direct", calls[c].draft)
        OBVIOUS
      <3>3. drafts' = [drafts EXCEPT !["review_direct"] = draft]
        BY <1>2, <2>1, <3>1, <3>2 DEF WriteDraft
      <3>4. calls[c].draft \in Draft /\ calls[c].draft.call = calls[c].who
        BY <1>1 DEF Placed, AtWork
      <3>5. /\ draft \in Draft /\ draft.status = "READY" /\ draft.call = calls[c].who
        <4>1. CASE calls[c].fresh
          BY <1>2, <3>1, <3>2, <3>4, <4>1
        <4>2. CASE ~calls[c].fresh
          <5>1. drafts["review_direct"] \in Draft
            BY <1>1, <2>1, <4>2 DEF Placed
          <5> QED  BY <1>2, <3>1, <3>2, <3>4, <4>2, <5>1 DEF Rewritten, Draft
        <4> QED  BY <4>1, <4>2
      <3>6. drafts'["review_direct"] = draft /\ draft # Null
        BY <1>1, <3>3, <3>5, RowAssumption
      <3> QED  BY <1>2, <3>1, <3>5, <3>6 DEF Backs, DirectReview
    <2>6. ASSUME NEW d \in Calls, Writes(calls'[d]), calls'[d].op = "put_ai_review"
          PROVE  Backs(DirectReview', calls'[d].who)
      BY <2>3, <2>4, <2>5, <2>6
    <2> QED  BY <1>1, <2>2, <2>6 DEF BehindInv, Writes
  <1> QED  BY <1>3, <1>4

LEMMA ModelBehind ==
    ASSUME WorkInv, BehindInv, NEW c \in Calls,
           \/ Crash(c) \/ PublishNext(c) \/ DisputeRead(c) \/ SettleRead(c)
           \/ FindStored(c) \/ FindExisting(c) \/ ReviewRead(c)
    PROVE  BehindInv'
  <1>1. /\ calls \in [Calls -> Call] /\ calls[c] \in Call /\ Placed(calls[c])
        /\ row' = row /\ drafts' = drafts
    BY Zenon DEF WorkInv, IInv, TypeOK, Crash, PublishNext, DisputeRead, SettleRead, FindStored,
       FindExisting, ReviewRead
  <1>2. calls[c] \in Call
    BY <1>1
  <1>3. ASSUME NEW call, calls' = [calls EXCEPT ![c] = call],
               Writes(call) /\ call.op = "put_ai_review" => Backs(DirectReview, call.who)
        PROVE  BehindInv'
    BY <1>1, <1>3, BehindStands, ReviewStands DEF DirectReview
  <1>4. ASSUME Finish(c) PROVE BehindInv'
    <2>1. ~Writes(NoCall)
      BY DEF Writes, NoCall
    <2> QED  BY <1>3, <1>4, <2>1 DEF Finish
  <1>5. ASSUME NEW done \in Call, calls' = [calls EXCEPT ![c] = AfterSave(done)]
        PROVE  BehindInv'
    <2>1. PICK next : next = AfterSave(done)
      OBVIOUS
    <2>2. ~Writes(next)
      BY <2>1 DEF AfterSave, Writes, NoCall, Call
    <2> QED  BY <1>3, <1>5, <2>1, <2>2
  <1>6. ASSUME NEW call \in Call, call.pc \notin {"save", "save_if_in_review"},
               calls' = [calls EXCEPT ![c] = call]
        PROVE  BehindInv'
    BY <1>3, <1>6 DEF Writes
  <1>7. CASE Crash(c)
    BY <1>4, <1>7 DEF Crash
  <1>8. CASE PublishNext(c)
    <2>1. calls[c].events \in Seq(Event) /\ calls[c].events # <<>>
      BY <1>1, <1>8 DEF PublishNext, Placed, Call
    <2>2. Tail(calls[c].events) \in Seq(Event)
      BY <2>1
    <2>3. Sent(calls[c]) \in Call
      BY <1>2, <2>2 DEF Sent, Call
    <2> QED  BY <1>5, <1>8, <2>3 DEF PublishNext
  <1>9. CASE DisputeRead(c)
    <2>1. PICK call : call = [calls[c] EXCEPT !.pc = "mark", !.draft = drafts["review_direct"]]
      OBVIOUS
    <2>2. ~Writes(call)
      BY <1>2, <2>1 DEF Writes, Call
    <2> QED  BY <1>3, <1>4, <1>9, <2>1, <2>2 DEF DisputeRead
  <1>10. CASE SettleRead(c)
    <2>1. PICK done : done = [calls[c] EXCEPT !.settles = FALSE]
      OBVIOUS
    <2>2. done \in Call
      BY <1>2, <2>1 DEF Call
    <2>3. calls' = Unlabelled(c) => BehindInv'
      BY <1>5, <2>1, <2>2 DEF Unlabelled
    <2>4. PICK call : call = [calls[c] EXCEPT !.pc = "label",
                 !.draft = [drafts[TeacherDraftCapability(calls[c].att)] EXCEPT !.status = "DECIDED"]]
      OBVIOUS
    <2>5. ~Writes(call)
      BY <1>2, <2>4 DEF Writes, Call
    <2>6. calls' = [calls EXCEPT ![c] = call] => BehindInv'
      BY <1>3, <2>5
    <2> QED  BY <1>10, <2>3, <2>4, <2>6 DEF SettleRead
  <1>11. CASE FindStored(c)
    <2>1. ASSUME NEW att, NEW events, Ruled(c, att, events) PROVE BehindInv'
      <3>1. CASE ~IsStored(calls[c].who, "review_direct")
        <4>1. PICK call : call = [[calls[c] EXCEPT !.att = att, !.events = events] EXCEPT !.pc = "existing"]
          OBVIOUS
        <4>2. ~Writes(call)
          BY <1>2, <4>1 DEF Writes, Call
        <4> QED  BY <1>3, <2>1, <3>1, <4>1, <4>2 DEF Ruled
      <3>2. CASE IsStored(calls[c].who, "review_direct") /\ drafts["review_direct"].status = "READY"
        <4>1. PICK call : call = [[calls[c] EXCEPT !.att = att, !.events = events] EXCEPT !.pc = "save"]
          OBVIOUS
        <4>2. call.who = calls[c].who
          BY <1>2, <4>1 DEF Call
        <4>3. Backs(DirectReview, call.who)
          BY <3>2, <4>2 DEF IsStored, Backs, DirectReview
        <4> QED  BY <1>3, <2>1, <3>2, <4>1, <4>3 DEF Ruled
      <3>3. CASE IsStored(calls[c].who, "review_direct") /\ drafts["review_direct"].status # "READY"
        BY <1>4, <2>1, <3>3 DEF Ruled
      <3> QED  BY <3>1, <3>2, <3>3
    <2> QED  BY <1>4, <1>11, <2>1, Zenon DEF FindStored
  <1>12. CASE FindExisting(c)
    <2> DEFINE existing == drafts[CapOf(calls[c])]
    <2>1. PICK call : call = [calls[c] EXCEPT !.pc = "draft", !.fresh = (existing = Null),
                 !.draft = [status |-> DraftStatus(calls[c].who), call |-> calls[c].who,
                            disputed |-> existing # Null /\ existing.disputed]]
      OBVIOUS
    <2>2. ~Writes(call)
      BY <1>2, <2>1 DEF Writes, Call
    <2>3. calls' = [calls EXCEPT ![c] = call] \/ Finish(c)
      BY <1>12, <2>1 DEF FindExisting
    <2> QED  BY <1>3, <1>4, <2>2, <2>3
  <1>13. CASE ReviewRead(c)
    <2>1. PICK call : call = [calls[c] EXCEPT !.pc = "save", !.att = GiveUpReview(@)]
      OBVIOUS
    <2>2. calls[c].op # "put_ai_review"
      BY <1>13, InFlight DEF ReviewRead, WorkInv, AtDispute, AtWork
    <2>3. call.op = calls[c].op
      BY <1>2, <2>1 DEF Call
    <2>4. calls' = [calls EXCEPT ![c] = call] \/ Finish(c)
      BY <1>13, <2>1 DEF ReviewRead
    <2> QED  BY <1>3, <1>4, <2>2, <2>3, <2>4
  <1> QED  BY <1>7, <1>8, <1>9, <1>10, <1>11, <1>12, <1>13

LEMMA NextKeepsBehind ==
    ASSUME OneAtATime, WorkInv, BehindInv, [Next]_vars
    PROVE  BehindInv'
  <1>1. ASSUME NEW c \in Calls, Step(c) PROVE BehindInv'
    <2>1. CASE SaveAttempt(c) \/ SaveIfInReview(c)
      <3>1. Writes(calls[c])
        BY <2>1 DEF SaveAttempt, SaveIfInReview, Writes
      <3>2. CASE WriteRow(c)
        BY <3>1, <3>2, SaveBehind
      <3>3. CASE Finish(c) /\ UNCHANGED <<row, drafts>>
        <4>1. ~Writes(NoCall) /\ calls \in [Calls -> Call]
          BY DEF Writes, NoCall, WorkInv, IInv, TypeOK
        <4> QED  BY <3>3, <4>1, BehindStands, ReviewStands DEF Finish
      <3> QED  BY <2>1, <3>2, <3>3 DEF SaveAttempt, SaveIfInReview
    <2> QED  BY <1>1, <2>1, MarkBehind, WriteBehind, ModelBehind DEF Step
  <1>2. UNCHANGED <<row, drafts, calls>> => BehindInv'
    BY DEF BehindInv, DirectReview
  <1>3. (\E a \in AiCalls : AskModel(a)) \/ Tick \/ UNCHANGED vars => UNCHANGED <<row, drafts, calls>>
    BY Zenon DEF AskModel, Tick, vars
  <1> QED  BY <1>1, <1>2, <1>3, StartsBehind DEF Next

LEMMA InitIsBehind == Init => BehindInv
  BY DEF Init, BehindInv, NewAttempt, Writes, NoCall

(***************************************************************************)
(* With one request at a time, whatever a model's verdict says on the row, *)
(* the review stored beside it is that call's and did not fail.  It needs  *)
(* that a review is only ever written beside work that carries no model's  *)
(* verdict, and that labelling or disputing a review leaves its call.      *)
(***************************************************************************)
THEOREM TheReviewIsBehind ==
    ASSUME OneAtATime
    PROVE  Spec => []ReviewBehindVerdict
  <1>1. WorkInv /\ [Next]_vars => WorkInv'
    BY NextKeepsWork
  <1>2. WorkInv /\ BehindInv /\ [Next]_vars => BehindInv'
    BY NextKeepsBehind
  <1>3. BehindInv => ReviewBehindVerdict
    BY DEF BehindInv, ReviewBehindVerdict, ModelVerdictsOn, ReviewedByAi, Judged, Backs, DirectReview
  <1> QED  BY <1>1, <1>2, <1>3, InitIsWork, InitIsBehind, PTL DEF Spec

-----------------------------------------------------------------------------
(***************************************************************************)
(* The one rating.  A second check of a scored practice attempt is left    *)
(* out: it rates the memory again, and reopens the work to a model's late  *)
(* answer to the first hand-in, which rates that hand-in a second time.    *)
(***************************************************************************)
NoRecheck == Modes \subseteq {FALSE} \/ (MaxChecks # Null /\ MaxChecks = 1)

Open(att) == att.status \in {"IN_PROGRESS", "ROUTED_FOR_REVIEW", "NO_REVIEWER"}
NoRating == \A e \in published : ~Rates(e)

Decides(e) ==
    /\ StageOf(row) \in {"machine", "model", "term", "teacher"}
    /\ Promise!Rater[StageOf(row)] = RaterOf(e.subject.by)

\* A rating a saved call has yet to publish is its first event, the first
\* rating told, and that of the verdict on the row.
Telling(call) == call.pc \in {"settle", "label", "publish"}
Due(call) ==
    Telling(call) => \A i \in 1..Len(call.events) :
        Rates(call.events[i]) => i = 1 /\ NoRating /\ Decides(call.events[1])

\* Nothing was told of open work, the term's verdict is the one the model left,
\* and there are never two ratings.
RateInv ==
    /\ row.practice \in Modes
    /\ Open(row) => stored = {} /\ NoRating
    /\ row.status = "IN_PROGRESS" => row.provisional = Null
    /\ ReviewedByAi(row) /\ row.provisional # Null => row.verdict = row.provisional
    /\ \A c \in Calls : Due(calls[c])
    /\ \A e, f \in {g \in published : Rates(g)} : e = f /\ e \notin repeated

\* Nobody saves or publishes.
LEMMA RatesStand ==
    ASSUME RateInv, UNCHANGED <<row, history>>, NEW c \in Calls, NEW call,
           calls \in [Calls -> Call], calls' = [calls EXCEPT ![c] = call], Due(call)
    PROVE  RateInv'
  <1>1. calls'[c] = call /\ \A d \in Calls \ {c} : calls'[d] = calls[d]
    OBVIOUS
  <1>2. row' = row /\ published' = published /\ repeated' = repeated /\ stored' = stored
    BY DEF history
  <1>3. StageOf(row)' = StageOf(row)
    BY <1>2 DEF StageOf, DecidedBy
  <1>4. NoRating' <=> NoRating
    BY <1>2 DEF NoRating
  <1>5. ASSUME NEW e, Decides(e) PROVE Decides(e)'
    BY <1>3, <1>5 DEF Decides, Promise!Rater
  <1>6. ASSUME NEW d \in Calls PROVE Due(calls[d])'
    <2>1. PICK other : other = calls'[d] /\ Due(other)
      <3>1. Due(calls'[d])
        BY <1>1 DEF RateInv
      <3> QED  BY <3>1
    <2>2. Due(other)'
      BY <1>4, <1>5, <2>1 DEF Due, Telling, Rates
    <2> QED  BY <2>1, <2>2 DEF Due, Telling
  <1>7. (Open(row) => stored = {} /\ NoRating)'
    BY <1>2, <1>4 DEF RateInv
  <1>8. (\A e, f \in {g \in published : Rates(g)} : e = f /\ e \notin repeated)'
    BY <1>2 DEF RateInv
  <1>9. /\ row'.practice \in Modes
        /\ row'.status = "IN_PROGRESS" => row'.provisional = Null
        /\ ReviewedByAi(row') /\ row'.provisional # Null => row'.verdict = row'.provisional
    BY <1>2 DEF RateInv
  <1> QED  BY <1>6, <1>7, <1>8, <1>9 DEF RateInv

LEMMA SameEventsDue ==
    ASSUME NEW call, NEW done \in Call, Due(call), Telling(call), done.events = call.events
    PROVE  Due(AfterSave(done))
  <1>1. PICK next : next = AfterSave(done)
    OBVIOUS
  <1>2. next = NoCall \/ next.events = call.events
    BY <1>1 DEF AfterSave, Call
  <1>3. CASE next = NoCall
    BY <1>1, <1>3 DEF Due, Telling, NoCall
  <1>4. CASE next.events = call.events
    BY <1>1, <1>4 DEF Due
  <1> QED  BY <1>2, <1>3, <1>4

LEMMA StartsRate ==
    ASSUME WorkInv, RateInv, NEW c \in Calls, Learner(c) \/ Staff(c) \/ Platform(c)
    PROVE  RateInv'
  <1>1. calls \in [Calls -> Call]
    BY DEF WorkInv, IInv, TypeOK
  <1>2. ASSUME NEW op, NEW who, NEW pc, NEW att, NEW events, NEW settles, ~Telling([pc |-> pc]),
               Begin(c, Handling(op, who, pc, att, events, settles))
        PROVE  RateInv'
    <2>1. PICK call : call = Handling(op, who, pc, att, events, settles)
      OBVIOUS
    <2>2. calls' = [calls EXCEPT ![c] = call] /\ UNCHANGED <<row, history>>
      BY <1>2, <2>1 DEF Begin
    <2>3. Due(call)
      BY <1>2, <2>1 DEF Handling, Due, Telling
    <2> QED  BY <1>1, <2>2, <2>3, RatesStand
  <1>3. /\ ~Telling([pc |-> "save"]) /\ ~Telling([pc |-> "save_if_in_review"])
        /\ ~Telling([pc |-> "stored"]) /\ ~Telling([pc |-> "existing"])
        /\ ~Telling([pc |-> "review_read"]) /\ ~Telling([pc |-> "dispute_read"])
    BY DEF Telling
  <1>4. CASE Learner(c)
    BY <1>2, <1>3, <1>4, Zenon DEF Learner, SubmitAnswer, SaveDraft, AbandonAttempt,
       RevealAnswersOf, DisputeAiReview, Mutated, Loaded
  <1>5. CASE Staff(c)
    BY <1>2, <1>3, <1>5, Zenon DEF Staff, ReviewAttempt, BatchApprove, ClaimReview,
       ReleaseReviewOf, Mutated
  <1>6. CASE Platform(c)
    BY <1>2, <1>3, <1>6, Zenon DEF Platform, PutAiReview, PutAiDraft, GiveUpAiReview,
       AcceptAtTerm, ExerciseDeleted, Mutated, Loaded
  <1> QED  BY <1>4, <1>5, <1>6

LEMMA StepsRate ==
    ASSUME WorkInv, RateInv, NEW c \in Calls,
           \/ Crash(c) \/ DisputeRead(c) \/ MarkDisputed(c) \/ SettleRead(c) \/ Label(c)
           \/ FindStored(c) \/ FindExisting(c) \/ WriteDraft(c) \/ ReviewRead(c)
    PROVE  RateInv'
  <1>1. /\ calls \in [Calls -> Call] /\ UNCHANGED <<row, history>>
    BY Zenon DEF WorkInv, IInv, TypeOK, Crash, DisputeRead, MarkDisputed, SettleRead, Label,
       FindStored, FindExisting, WriteDraft, ReviewRead
  <1>2. calls[c] \in Call /\ Due(calls[c])
    BY <1>1 DEF RateInv
  <1>3. ASSUME NEW call, calls' = [calls EXCEPT ![c] = call], Due(call)
        PROVE  RateInv'
    BY <1>1, <1>3, RatesStand
  <1>4. ASSUME NEW call, calls' = [calls EXCEPT ![c] = call], ~Telling(call)
        PROVE  RateInv'
    BY <1>3, <1>4 DEF Due
  <1>5. ASSUME Finish(c) PROVE RateInv'
    <2>1. ~Telling(NoCall)
      BY DEF Telling, NoCall
    <2> QED  BY <1>4, <1>5, <2>1 DEF Finish
  <1>6. CASE Crash(c)
    BY <1>5, <1>6 DEF Crash
  <1>7. CASE DisputeRead(c)
    <2>1. PICK call : call = [calls[c] EXCEPT !.pc = "mark", !.draft = drafts["review_direct"]]
      OBVIOUS
    <2>2. ~Telling(call)
      BY <1>2, <2>1 DEF Telling, Call
    <2> QED  BY <1>4, <1>5, <1>7, <2>1, <2>2 DEF DisputeRead
  <1>8. CASE MarkDisputed(c)
    <2>1. PICK told : told = <<Announce("ai_review_disputed", calls[c].att.verdict)>>
      OBVIOUS
    <2>2. PICK call : call = [calls[c] EXCEPT !.pc = "publish", !.events = told]
      OBVIOUS
    <2>3. call.events = told
      BY <1>2, <2>2 DEF Call
    <2>4. Due(call)
      BY <2>1, <2>3 DEF Due, Rates, Announce
    <2>5. calls' = [calls EXCEPT ![c] = call] \/ Finish(c)
      BY <1>8, <2>1, <2>2 DEF MarkDisputed
    <2> QED  BY <1>3, <1>5, <2>4, <2>5
  <1>9. CASE SettleRead(c) \/ Label(c)
    <2>1. Telling(calls[c])
      BY <1>9 DEF SettleRead, Label, Telling
    <2>2. PICK done : done = [calls[c] EXCEPT !.settles = FALSE]
      OBVIOUS
    <2>3. done \in Call /\ done.events = calls[c].events
      BY <1>2, <2>2 DEF Call
    <2>4. Due(AfterSave(done))
      BY <1>2, <2>1, <2>3, SameEventsDue
    <2>5. calls' = Unlabelled(c) => RateInv'
      BY <1>3, <2>2, <2>4 DEF Unlabelled
    <2>6. PICK call : call = [calls[c] EXCEPT !.pc = "label",
                 !.draft = [drafts[TeacherDraftCapability(calls[c].att)] EXCEPT !.status = "DECIDED"]]
      OBVIOUS
    <2>7. call.events = calls[c].events
      BY <1>2, <2>6 DEF Call
    <2>8. Due(call)
      BY <1>2, <2>1, <2>7 DEF Due
    <2>9. calls' = [calls EXCEPT ![c] = call] => RateInv'
      BY <1>3, <2>8
    <2> QED  BY <1>9, <2>5, <2>6, <2>9 DEF SettleRead, Label
  <1>10. CASE FindStored(c)
    <2>1. ASSUME NEW att, NEW events, Ruled(c, att, events) PROVE RateInv'
      <3>1. PICK ruled : ruled = [calls[c] EXCEPT !.att = att, !.events = events]
        OBVIOUS
      <3>2. PICK call1 : call1 = [ruled EXCEPT !.pc = "existing"]
        OBVIOUS
      <3>3. PICK call2 : call2 = [ruled EXCEPT !.pc = "save"]
        OBVIOUS
      <3>4. ~Telling(call1) /\ ~Telling(call2)
        BY <1>2, <3>1, <3>2, <3>3 DEF Telling, Call
      <3>5. calls' = [calls EXCEPT ![c] = call1] \/ calls' = [calls EXCEPT ![c] = call2] \/ Finish(c)
        BY <2>1, <3>1, <3>2, <3>3 DEF Ruled
      <3> QED  BY <1>4, <1>5, <3>4, <3>5
    <2> QED  BY <1>5, <1>10, <2>1, Zenon DEF FindStored
  <1>11. CASE FindExisting(c)
    <2> DEFINE existing == drafts[CapOf(calls[c])]
    <2>1. PICK call : call = [calls[c] EXCEPT !.pc = "draft", !.fresh = (existing = Null),
                 !.draft = [status |-> DraftStatus(calls[c].who), call |-> calls[c].who,
                            disputed |-> existing # Null /\ existing.disputed]]
      OBVIOUS
    <2>2. ~Telling(call)
      BY <1>2, <2>1 DEF Telling, Call
    <2>3. calls' = [calls EXCEPT ![c] = call] \/ Finish(c)
      BY <1>11, <2>1 DEF FindExisting
    <2> QED  BY <1>4, <1>5, <2>2, <2>3
  <1>12. CASE WriteDraft(c)
    <2>1. PICK call : call = [calls[c] EXCEPT !.pc = "save"]
      OBVIOUS
    <2>2. ~Telling(call)
      BY <1>2, <2>1 DEF Telling, Call
    <2>3. calls' = [calls EXCEPT ![c] = call] \/ Finish(c)
      BY <1>12, <2>1 DEF WriteDraft, Goto
    <2> QED  BY <1>4, <1>5, <2>2, <2>3
  <1>13. CASE ReviewRead(c)
    <2>1. PICK call : call = [calls[c] EXCEPT !.pc = "save", !.att = GiveUpReview(@)]
      OBVIOUS
    <2>2. ~Telling(call)
      BY <1>2, <2>1 DEF Telling, Call
    <2>3. calls' = [calls EXCEPT ![c] = call] \/ Finish(c)
      BY <1>13, <2>1 DEF ReviewRead
    <2> QED  BY <1>4, <1>5, <2>2, <2>3
  <1> QED  BY <1>6, <1>7, <1>8, <1>9, <1>10, <1>11, <1>12, <1>13

\* What a model or a teacher says first is a rating, and the only one.
LEMMA FirstRates ==
    ASSUME NEW v \in Verdict, NEW revising \in BOOLEAN
    PROVE  LET told == DeliverEvents(v, revising)
           IN  /\ \A i \in 1..Len(told) : Rates(told[i]) => i = 1 /\ ~revising
               /\ told[1].subject = v /\ Len(told) \in {1, 2} /\ told \in Seq(Event)
  <1> DEFINE evidence == [type |-> IF v.outcome = "returned" THEN "returned" ELSE "scored",
                          subject |-> v, revises |-> revising]
             letter == [type |-> "reviewed", subject |-> v, revises |-> revising]
  <1>1. PICK told : told = DeliverEvents(v, revising)
    OBVIOUS
  <1>2. told = <<evidence, letter>> \/ told = <<evidence>>
    BY <1>1, Zenon DEF DeliverEvents
  <1>3. evidence.subject = v /\ evidence.revises = revising /\ letter.type = "reviewed"
    OBVIOUS
  <1> HIDE DEF evidence, letter
  <1>4. \A i \in 1..Len(told) : Rates(told[i]) => i = 1 /\ ~revising
    BY <1>2, <1>3 DEF Rates
  <1>5. told[1].subject = v /\ Len(told) \in {1, 2}
    BY <1>2, <1>3
  <1>6. told \in Seq(Event)
    <2>1. PICK judgements : judgements = {v}
      OBVIOUS
    <2> QED  BY <1>1, <2>1, DeliverTold
  <1> QED  BY <1>1, <1>4, <1>5, <1>6

LEMMA ModelRates ==
    ASSUME NEW v \in Verdict
    PROVE  LET told == CountedEvents(v)
           IN  /\ \A i \in 1..Len(told) : Rates(told[i]) => i = 1
               /\ told[1].subject = v
  <1>1. PICK first \in BOOLEAN : first = FALSE
    OBVIOUS
  <1>2. PICK told : told = DeliverEvents(v, first)
    OBVIOUS
  <1>3. /\ \A i \in 1..Len(told) : Rates(told[i]) => i = 1
        /\ told[1].subject = v /\ Len(told) \in {1, 2} /\ told \in Seq(Event)
    BY <1>2, FirstRates
  <1>4. PICK last : last = Announce("ai_reviewed", v)
    OBVIOUS
  <1>5. last \in Event /\ ~Rates(last)
    BY <1>4, AnnounceType DEF EventType, Subject, Announce, Rates
  <1>6. PICK counted : counted = Append(told, last)
    OBVIOUS
  <1>7. /\ Len(counted) = Len(told) + 1 /\ counted[Len(told) + 1] = last
        /\ \A i \in 1..Len(told) : counted[i] = told[i]
    BY <1>3, <1>5, <1>6
  <1>8. (\A i \in 1..Len(counted) : Rates(counted[i]) => i = 1) /\ counted[1].subject = v
    BY <1>3, <1>5, <1>7
  <1>9. CountedEvents(v) = counted
    BY <1>1, <1>2, <1>4, <1>6 DEF CountedEvents
  <1> QED  BY <1>8, <1>9

(***************************************************************************)
(* A save of the row with the events it leaves to publish, and what must   *)
(* come of it: at most one rating, by the verdict that counts, and a step  *)
(* of the promise or none.                                                 *)
(***************************************************************************)
Saving ==
    /\ WorkInv /\ NoRecheck /\ RateInv
    /\ stored' = stored \cup Judgements(row') /\ published' = published

RatesOnce(events) ==
    \A i \in 1..Len(events) : Rates(events[i]) => i = 1 /\ NoRating /\ Decides(events[1])

Promised ==
    \/ StageOf(row)' = StageOf(row)
    \/ Promise!HandIn \/ Promise!Abandon \/ Promise!ModelAnswers \/ Promise!ModelGivesUp
    \/ Promise!TermRunsOut \/ Promise!TeacherAnswers \/ Promise!TeacherRevises

RowRates ==
    /\ row.practice \in Modes
    /\ Open(row) => stored = {} /\ NoRating
    /\ row.status = "IN_PROGRESS" => row.provisional = Null
    /\ ReviewedByAi(row) /\ row.provisional # Null => row.verdict = row.provisional

LEMMA SavingFacts ==
    ASSUME Saving
    PROVE  /\ row \in Row /\ Sound(row) /\ Judgements(row) \subseteq stored /\ stored \subseteq Verdict
           /\ RowRates /\ (NoRating' <=> NoRating) /\ RatedBy' = RatedBy
           /\ Null \notin stored
           /\ stored' = stored \cup Judgements(row')
  BY RowOfWork, NullAssumption DEF Saving, WorkInv, IInv, TypeOK, RateInv, RowRates, NoRating, RatedBy

LEMMA UnratedRatesOnce == ASSUME NEW events, Unrated(events) PROVE RatesOnce(events)'
  BY DEF Unrated, RatesOnce, Rates

LEMMA StageIs ==
    ASSUME NEW att
    PROVE  /\ att.status = "IN_PROGRESS" => StageOf(att) = "working"
           /\ att.status = "ABANDONED" => StageOf(att) = "abandoned"
           /\ att.status = "NO_REVIEWER" => StageOf(att) = "nobody"
           /\ att.status = "ROUTED_FOR_REVIEW" /\ att.provisional = Null => StageOf(att) = "waiting"
           /\ att.status = "ROUTED_FOR_REVIEW" /\ att.provisional # Null
                => StageOf(att) = "read_by_model"
           /\ Judged(att) => StageOf(att) = DecidedBy(att)
  BY DEF StageOf, Judged

LEMMA StageIsNext ==
    /\ row'.status = "IN_PROGRESS" => StageOf(row)' = "working"
    /\ row'.status = "ABANDONED" => StageOf(row)' = "abandoned"
    /\ row'.status = "NO_REVIEWER" => StageOf(row)' = "nobody"
    /\ row'.status = "ROUTED_FOR_REVIEW" /\ row'.provisional = Null => StageOf(row)' = "waiting"
    /\ row'.status = "ROUTED_FOR_REVIEW" /\ row'.provisional # Null => StageOf(row)' = "read_by_model"
    /\ Judged(row') => StageOf(row)' = DecidedBy(row)'
  BY DEF StageOf, Judged

LEMMA RetouchRates ==
    ASSUME Saving, NEW events, Retouches(row, row', events)
    PROVE  RowRates' /\ RatesOnce(events)' /\ Promised
  <1>1. /\ row \in Row /\ Judgements(row) \subseteq stored /\ RowRates /\ (NoRating' <=> NoRating)
        /\ stored' = stored \cup Judgements(row')
    BY SavingFacts
  <1>2. /\ row'.status = row.status /\ row'.provisional = row.provisional
        /\ row'.verdict = row.verdict /\ row'.score = row.score /\ row'.practice = row.practice
    BY <1>1 DEF Retouches, Row
  <1>3. stored' = stored
    BY <1>1, <1>2 DEF Judgements
  <1>4. RowRates'
    BY <1>1, <1>2, <1>3 DEF RowRates, Open, ReviewedByAi, Judged, Signed
  <1>5. RatesOnce(events)'
    BY UnratedRatesOnce, HandInsUnrated DEF Retouches
  <1>6. StageOf(row)' = StageOf(row)
    BY <1>2, <1>3 DEF StageOf, DecidedBy, Signed, AcceptedAtTerm, ReviewedByAi, Judged
  <1> QED  BY <1>4, <1>5, <1>6 DEF Promised

LEMMA HandInRates ==
    ASSUME Saving, NEW events, HandsIn(row, row', events)
    PROVE  RowRates' /\ RatesOnce(events)' /\ Promised
  <1>1. /\ row \in Row /\ Judgements(row) \subseteq stored /\ RowRates /\ (NoRating' <=> NoRating)
        /\ stored' = stored \cup Judgements(row') /\ RatedBy' = RatedBy
    BY SavingFacts
  <1>2. row.status = "IN_PROGRESS"
    <2>1. ~CanReopenForRecheck(row, MaxChecks)
      <3>1. row.practice \in Modes /\ row.rechecks \in Nat
        BY <1>1 DEF RowRates, Row
      <3>2. CASE Modes \subseteq {FALSE}
        BY <3>1, <3>2 DEF CanReopenForRecheck
      <3>3. CASE MaxChecks \in {1} \ {Null}
        BY <3>1, <3>3 DEF CanReopenForRecheck
      <3> QED  BY <3>2, <3>3 DEF Saving, NoRecheck
    <2> QED  BY <2>1 DEF HandsIn
  <1>3. /\ stored = {} /\ NoRating /\ row.provisional = Null /\ row.verdict = Null /\ row.score = Null
    BY <1>1, <1>2 DEF RowRates, Open, Judgements
  <1>4. row'.verdict = Null /\ row'.provisional = Null /\ row'.practice = row.practice
    BY <1>3 DEF HandsIn
  <1>5. StageOf(row) = "working"
    BY <1>2, StageIs
  <1>6. CASE row'.status = "SCORED"
    <2>1. events \in {<<>>, <<Announce("scored", row'.score)>>} /\ row'.score = MachineVerdict(row')
      BY <1>6 DEF HandsIn
    <2>2. RowRates'
      BY <1>1, <1>4, <1>6 DEF RowRates, Open, ReviewedByAi
    <2>3. StageOf(row)' = "machine"
      BY <1>4, <1>6, StageIsNext DEF Judged, DecidedBy
    <2>4. RatesOnce(events)'
      <3>1. CASE events = <<>>
        BY <3>1, UnratedRatesOnce, HandInsUnrated
      <3>2. CASE events = <<Announce("scored", row'.score)>>
        <4>1. Len(events) = 1 /\ events[1].subject.by = Machine
          BY <2>1, <3>2 DEF Announce, MachineVerdict
        <4>2. RaterOf(Machine) = "machine"
          BY AttemptAssumption DEF RaterOf
        <4>3. Promise!Rater["machine"] = "machine"
          BY DEF Promise!Rater
        <4>4. Decides(events[1])'
          BY <2>3, <4>1, <4>2, <4>3 DEF Decides, Promise!Rater
        <4> QED  BY <1>1, <1>3, <4>1, <4>4 DEF RatesOnce
      <3> QED  BY <2>1, <3>1, <3>2
    <2>5. Promised
      BY <1>1, <1>5, <2>3 DEF Promised, Promise!HandIn, Promise!Move
    <2> QED  BY <2>2, <2>4, <2>5
  <1>7. CASE row'.status \in {"IN_PROGRESS", "ROUTED_FOR_REVIEW", "NO_REVIEWER"} /\ Unrated(events)
             /\ row'.score = row.score
    <2>1. stored' = {}
      BY <1>1, <1>3, <1>4, <1>7 DEF Judgements
    <2>2. RowRates'
      BY <1>1, <1>3, <1>4, <1>7, <2>1 DEF RowRates, Open, ReviewedByAi
    <2>3. StageOf(row)' \in {"working", "waiting", "nobody"}
      BY <1>4, <1>7, StageIsNext
    <2>4. Promised
      BY <1>1, <1>5, <2>3 DEF Promised, Promise!HandIn, Promise!Move
    <2> QED  BY <1>7, <2>2, <2>4, UnratedRatesOnce
  <1> QED  BY <1>6, <1>7 DEF HandsIn

LEMMA AbandonRates ==
    ASSUME Saving, NEW events, Abandons(row, row', events)
    PROVE  RowRates' /\ RatesOnce(events)' /\ Promised
  <1>1. /\ row \in Row /\ Sound(row) /\ RowRates /\ RatedBy' = RatedBy
    BY SavingFacts
  <1>2. /\ row'.status = "ABANDONED" /\ row'.practice = row.practice
        /\ row.status \in {"IN_PROGRESS", "RETURNED", "ABANDONED"}
    BY <1>1 DEF Abandons, Abandon, CanAbandon, Row, Status, Sound, WellFormed
  <1>3. RowRates'
    BY <1>1, <1>2 DEF RowRates, Open, ReviewedByAi, Judged
  <1>4. RatesOnce(events)'
    BY UnratedRatesOnce, HandInsUnrated DEF Abandons
  <1>5. StageOf(row) \in {"working", "model", "term", "teacher", "revised", "abandoned"}
    <2>1. CASE row.status = "RETURNED"
      BY <1>1, <2>1, StageIs DEF Judged, DecidedBy, Sound, WellFormed
    <2> QED  BY <1>2, <2>1, StageIs
  <1>6. StageOf(row)' = "abandoned"
    BY <1>2, StageIsNext
  <1> QED  BY <1>1, <1>3, <1>4, <1>5, <1>6 DEF Promised, Promise!Abandon, Promise!Move

LEMMA GiveUpRates ==
    ASSUME Saving, NEW events, GivesUp(row, row', events)
    PROVE  RowRates' /\ RatesOnce(events)' /\ Promised
  <1>1. /\ row \in Row /\ Sound(row) /\ RowRates /\ RatedBy' = RatedBy /\ (NoRating' <=> NoRating)
        /\ Judgements(row) \subseteq stored /\ stored' = stored \cup Judgements(row')
    BY SavingFacts
  <1>2. /\ row'.status = "NO_REVIEWER" /\ row'.practice = row.practice
        /\ row'.verdict = row.verdict /\ row'.score = row.score
        /\ row.status = "ROUTED_FOR_REVIEW" /\ ~row.school
    BY <1>1 DEF GivesUp, GiveUpReview, CanGiveUpReview, Row
  <1>3. row.provisional = Null /\ stored' = stored
    BY <1>1, <1>2 DEF Sound, WellFormed, Judgements
  <1>4. RowRates'
    BY <1>1, <1>2, <1>3 DEF RowRates, Open, ReviewedByAi, Judged
  <1>5. RatesOnce(events)'
    BY UnratedRatesOnce, HandInsUnrated DEF GivesUp
  <1>6. StageOf(row) = "waiting" /\ StageOf(row)' = "nobody"
    BY <1>2, <1>3, StageIs, StageIsNext
  <1> QED  BY <1>1, <1>4, <1>5, <1>6 DEF Promised, Promise!ModelGivesUp, Promise!Move

LEMMA ModelRulesRates ==
    ASSUME Saving, NEW events, NEW a, ModelRules(a, row, row', events)
    PROVE  RowRates' /\ RatesOnce(events)' /\ Promised
  <1>1. /\ row \in Row /\ RowRates /\ RatedBy' = RatedBy /\ (NoRating' <=> NoRating)
        /\ Judgements(row) \subseteq stored /\ stored' = stored \cup Judgements(row')
    BY SavingFacts
  <1>2. row.status = "ROUTED_FOR_REVIEW" /\ row.provisional = Null /\ a \in AiCalls
    BY ModelFindsNone DEF Saving, ModelRules
  <1>3. stored = {} /\ NoRating /\ StageOf(row) = "waiting"
    BY <1>1, <1>2, StageIs DEF RowRates, Open
  <1>4. PICK v \in Verdict : /\ v.by = a
                             /\ \/ row' = Deliver(row, v) /\ events = CountedEvents(v)
                                \/ row' = KeepProvisional(row, v) /\ events = <<>>
    BY DEF ModelRules
  <1>5. v # Null /\ a \notin Teachers
    BY <1>2, NullAssumption, AttemptAssumption
  <1>6. CASE row' = Deliver(row, v) /\ events = CountedEvents(v)
    <2>1. /\ row'.status \in {"SCORED", "RETURNED"} /\ row'.verdict = v /\ row'.provisional = Null
          /\ row'.practice = row.practice
      BY <1>1, <1>2, <1>6 DEF Deliver, Row
    <2>2. RowRates'
      BY <1>1, <2>1 DEF RowRates, Open
    <2>3. StageOf(row)' = "model"
      BY <1>4, <1>5, <2>1, StageIsNext DEF Judged, DecidedBy, Signed, AcceptedAtTerm
    <2>4. RatesOnce(events)'
      <3>1. RaterOf(a) = "model" /\ Promise!Rater["model"] = "model"
        BY <1>2, <1>5 DEF RaterOf, Promise!Rater
      <3>2. (\A i \in 1..Len(events) : Rates(events[i]) => i = 1) /\ events[1].subject = v
        BY <1>6, ModelRates
      <3>3. Decides(events[1])'
        BY <1>4, <2>3, <3>1, <3>2 DEF Decides, Promise!Rater
      <3> QED  BY <1>1, <1>3, <3>2, <3>3 DEF RatesOnce, Rates
    <2>5. Promised
      BY <1>1, <1>3, <2>3 DEF Promised, Promise!ModelAnswers, Promise!Move
    <2> QED  BY <2>2, <2>4, <2>5
  <1>7. CASE row' = KeepProvisional(row, v) /\ events = <<>>
    <2>1. /\ row'.status = "ROUTED_FOR_REVIEW" /\ row'.provisional = v /\ row'.practice = row.practice
          /\ row'.verdict = row.verdict /\ row'.score = row.score
      BY <1>1, <1>2, <1>7 DEF KeepProvisional, Row
    <2>2. stored' = {}
      BY <1>1, <1>3, <2>1 DEF Judgements
    <2>3. RowRates'
      BY <1>1, <1>3, <2>1, <2>2 DEF RowRates, Open, ReviewedByAi, Judged
    <2>4. StageOf(row)' = "read_by_model"
      BY <1>5, <2>1, StageIsNext
    <2>5. Promised
      BY <1>1, <1>3, <2>4 DEF Promised, Promise!ModelAnswers, Promise!Move
    <2> QED  BY <1>7, <2>3, <2>5, UnratedRatesOnce, HandInsUnrated
  <1> QED  BY <1>4, <1>6, <1>7

LEMMA TermRates ==
    ASSUME Saving, NEW events, TermDelivers(row, row', events)
    PROVE  RowRates' /\ RatesOnce(events)' /\ Promised
  <1>1. /\ row \in Row /\ Sound(row) /\ RowRates /\ RatedBy' = RatedBy /\ (NoRating' <=> NoRating)
    BY SavingFacts
  <1>2. row.status = "ROUTED_FOR_REVIEW" /\ row.provisional # Null
    BY DEF TermDelivers, CanAcceptAtTerm
  <1>3. PICK v : v = row.provisional
    OBVIOUS
  <1>4. v \in Verdict /\ v.by \in AiCalls /\ v.by \notin Teachers
    BY <1>1, <1>2, <1>3, AttemptAssumption DEF Row, Sound, WellFormed
  <1>5. NoRating /\ StageOf(row) = "read_by_model"
    BY <1>1, <1>2, StageIs DEF RowRates, Open
  <1>6. /\ row'.status \in {"SCORED", "RETURNED"} /\ row'.verdict = v /\ row'.provisional = v
        /\ row'.practice = row.practice /\ events = CountedEvents(v)
    BY <1>1, <1>3 DEF TermDelivers, Deliver, Row
  <1>7. RowRates'
    BY <1>1, <1>6 DEF RowRates, Open
  <1>8. StageOf(row)' = "term"
    BY <1>2, <1>3, <1>4, <1>6, StageIsNext DEF Judged, DecidedBy, Signed, AcceptedAtTerm, ReviewedByAi
  <1>9. RatesOnce(events)'
    <2>1. RaterOf(v.by) = "model" /\ Promise!Rater["term"] = "model"
      BY <1>4 DEF RaterOf, Promise!Rater
    <2>2. (\A i \in 1..Len(events) : Rates(events[i]) => i = 1) /\ events[1].subject = v
      BY <1>4, <1>6, ModelRates
    <2>3. Decides(events[1])'
      BY <1>8, <2>1, <2>2 DEF Decides, Promise!Rater
    <2> QED  BY <1>1, <1>5, <2>2, <2>3 DEF RatesOnce, Rates
  <1>10. Promised
    BY <1>1, <1>5, <1>8 DEF Promised, Promise!TermRunsOut, Promise!Move
  <1> QED  BY <1>7, <1>9, <1>10

LEMMA TeacherRates ==
    ASSUME Saving, NEW events, TeacherDelivers(row, row', events)
    PROVE  RowRates' /\ RatesOnce(events)' /\ Promised
  <1>1. /\ row \in Row /\ Sound(row) /\ RowRates /\ RatedBy' = RatedBy /\ (NoRating' <=> NoRating)
        /\ Judgements(row) \subseteq stored /\ stored' = stored \cup Judgements(row')
        /\ Null \notin stored
    BY SavingFacts
  <1>2. PICK v \in Verdict : /\ v.by \in Teachers /\ row' = Deliver(row, v)
                             /\ events = DeliverEvents(v, AcceptedAtTerm(row))
    BY DEF TeacherDelivers
  <1>3. v # Null
    BY NullAssumption
  <1>4. /\ row'.status \in {"SCORED", "RETURNED"} /\ row'.verdict = v
        /\ row'.provisional = row.provisional /\ row'.practice = row.practice
        /\ row'.score \in {v, Null}
    BY <1>1, <1>2 DEF Deliver, Row
  <1>5. RowRates'
    BY <1>1, <1>2, <1>4 DEF RowRates, Open, ReviewedByAi, Signed
  <1>6. PICK revising \in BOOLEAN : revising = AcceptedAtTerm(row)
    BY DEF AcceptedAtTerm
  <1>7. /\ \A i \in 1..Len(events) : Rates(events[i]) => i = 1 /\ ~revising
        /\ events[1].subject = v
    BY <1>2, <1>6, FirstRates
  <1>8. StageOf(row)' = IF row.provisional \in stored' THEN "revised" ELSE "teacher"
    BY <1>2, <1>3, <1>4, StageIsNext DEF Judged, DecidedBy, Signed
  <1>9. CASE AcceptedAtTerm(row)
    <2>1. RatesOnce(events)'
      BY <1>6, <1>7, <1>9 DEF RatesOnce, Rates
    <2>2. row.verdict = row.provisional /\ row.verdict # Null /\ ~Signed(row) /\ Judged(row)
      BY <1>1, <1>9 DEF RowRates, AcceptedAtTerm, ReviewedByAi
    <2>3. StageOf(row) = "term"
      BY <1>9, <2>2, StageIs DEF DecidedBy
    <2>4. StageOf(row)' = "revised"
      BY <1>1, <1>8, <2>2 DEF Judgements
    <2>5. Promised
      BY <1>1, <2>3, <2>4 DEF Promised, Promise!TeacherRevises, Promise!Move
    <2> QED  BY <1>5, <2>1, <2>5
  <1>10. CASE ~AcceptedAtTerm(row)
    <2>1. row.status = "ROUTED_FOR_REVIEW"
      BY <1>10 DEF TeacherDelivers, CanReview
    <2>2. stored = {} /\ NoRating
      BY <1>1, <2>1 DEF RowRates, Open
    <2>3. row.provisional \notin stored'
      <3>1. stored' \subseteq {v}
        BY <1>1, <1>4, <2>2 DEF Judgements
      <3>2. row.provisional # v
        BY <1>1, <1>2, <1>3, AttemptAssumption DEF Sound, WellFormed
      <3> QED  BY <3>1, <3>2
    <2>4. StageOf(row)' = "teacher"
      BY <1>8, <2>3
    <2>5. StageOf(row) \in {"waiting", "read_by_model"}
      BY <2>1, StageIs
    <2>6. RatesOnce(events)'
      <3>1. RaterOf(v.by) = "teacher" /\ Promise!Rater["teacher"] = "teacher"
        BY <1>2 DEF RaterOf, Promise!Rater
      <3>2. Decides(events[1])'
        BY <1>7, <2>4, <3>1 DEF Decides, Promise!Rater
      <3> QED  BY <1>1, <1>7, <2>2, <3>2 DEF RatesOnce, Rates
    <2>7. Promised
      BY <1>1, <2>4, <2>5 DEF Promised, Promise!TeacherAnswers, Promise!Move
    <2> QED  BY <1>5, <2>6, <2>7
  <1> QED  BY <1>9, <1>10

\* Whatever is saved.
LEMMA SaveRates ==
    ASSUME WorkInv, OneAtATime, NoRecheck, RateInv, NEW c \in Calls, Writes(calls[c]), WriteRow(c)
    PROVE  RateInv' /\ Promised
  <1>1. /\ calls \in [Calls -> Call] /\ published' = published /\ repeated' = repeated
        /\ stored' = stored \cup Judgements(row') /\ row' = calls[c].att
        /\ calls' = [calls EXCEPT ![c] = AfterSave(calls[c])]
    BY DEF WorkInv, IInv, TypeOK, WriteRow
  <1>2. /\ calls[c].op # "dispute" /\ AtWork(calls[c]) /\ calls[c] \in Call
        /\ \E op \in Runs[c] : op # "dispute" /\ (calls[c].pc = "idle" \/ calls[c].op = op)
    BY InFlight DEF WorkInv, Writes, AtDispute
  <1>3. Moves(calls[c], row, row', calls[c].events)
    BY <1>1, <1>2 DEF AtWork
  <1>4. PICK events : events = calls[c].events
    OBVIOUS
  <1>5. Saving
    BY <1>1 DEF Saving
  <1>6. RowRates' /\ RatesOnce(events)' /\ Promised
    BY <1>3, <1>4, <1>5, RetouchRates, HandInRates, AbandonRates, GiveUpRates, ModelRulesRates,
       TermRates, TeacherRates DEF Moves, Acts
  <1>7. PICK next : next = AfterSave(calls[c])
    OBVIOUS
  <1>8. calls'[c] = next /\ \A d \in Calls \ {c} : calls'[d] = calls[d]
    BY <1>1, <1>7
  <1>9. Due(next)'
    <2>1. next = NoCall \/ next.events = events
      BY <1>2, <1>4, <1>7 DEF AfterSave, Call
    <2>2. ~Telling(NoCall)
      BY DEF Telling, NoCall
    <2>3. CASE next = NoCall
      BY <2>2, <2>3 DEF Due, Telling
    <2>4. CASE next.events = events
      BY <1>6, <2>4 DEF Due, RatesOnce
    <2> QED  BY <2>1, <2>3, <2>4
  <1>10. ASSUME NEW d \in Calls \ {c} PROVE Due(calls[d])'
    <2>1. PICK other : other = calls[d]
      OBVIOUS
    <2>2. other.pc = "idle" \/ other.op = "dispute"
      BY <1>2, <2>1, AloneAtWork DEF WorkInv, SerialInv
    <2>3. InPlace(other)
      BY <2>1 DEF WorkInv, SerialInv
    <2>4. Due(other)'
      BY <2>2, <2>3 DEF Due, Telling, InPlace, AtDispute, Rates
    <2> QED  BY <1>8, <2>1, <2>4
  <1>11. \A d \in Calls : Due(calls[d])'
    BY <1>7, <1>8, <1>9, <1>10
  <1>12. (\A e, f \in {g \in published : Rates(g)} : e = f /\ e \notin repeated)'
    BY <1>1 DEF RateInv
  <1>13. RateInv'
    BY <1>6, <1>11, <1>12 DEF RateInv, RowRates
  <1> QED  BY <1>6, <1>13

LEMMA RatingsApart ==
    ASSUME NEW e, NEW ratings, ratings = {e}
    PROVE  (CHOOSE f \in ratings : TRUE) = e
  OBVIOUS

LEMMA PublishRates ==
    ASSUME WorkInv, OneAtATime, RateInv, NEW c \in Calls, PublishNext(c)
    PROVE  RateInv' /\ (Promise!Rate \/ UNCHANGED <<StageOf(row), RatedBy>>)
  <1>1. /\ calls \in [Calls -> Call] /\ calls[c] \in Call /\ calls[c].pc = "publish"
        /\ row' = row /\ stored' = stored /\ repeated \subseteq published
        /\ calls[c].events \in Seq(Event) /\ calls[c].events # <<>>
        /\ Due(calls[c])
    BY DEF WorkInv, IInv, TypeOK, PublishNext, Placed, Call, RateInv
  <1>2. PICK events \in Seq(Event) : events = calls[c].events
    BY <1>1
  <1>3. PICK e : e = Head(events)
    OBVIOUS
  <1>4. events # <<>> /\ e = events[1] /\ 1 \in 1..Len(events)
    BY <1>1, <1>2, <1>3
  <1>5. published' = published \cup {e} /\ repeated' = repeated \cup (published \cap {e})
    BY <1>2, <1>3 DEF PublishNext
  <1>6. PICK sent : sent = Sent(calls[c])
    OBVIOUS
  <1>7. sent \in Call /\ sent.events = Tail(events)
    <2>1. Tail(events) \in Seq(Event)
      BY <1>4
    <2> QED  BY <1>1, <1>2, <1>6, <2>1 DEF Sent, Call
  <1>8. PICK next : next = AfterSave(sent)
    OBVIOUS
  <1>9. calls'[c] = next /\ \A d \in Calls \ {c} : calls'[d] = calls[d]
    BY <1>1, <1>6, <1>8 DEF PublishNext
  <1>10. \A i \in 1..Len(events) : Rates(events[i]) => i = 1 /\ NoRating /\ Decides(events[1])
    BY <1>1, <1>2 DEF Due, Telling
  <1>11. Due(next)'
    <2>1. \A i \in 1..Len(Tail(events)) :
            Tail(events)[i] = events[i + 1] /\ i + 1 \in 1..Len(events) /\ i + 1 # 1
      BY <1>4
    <2>2. \A i \in 1..Len(Tail(events)) : ~Rates(Tail(events)[i])
      BY <1>10, <2>1
    <2>3. next = NoCall \/ next.events = Tail(events)
      BY <1>7, <1>8 DEF AfterSave, Call
    <2>4. ~Telling(NoCall)
      BY DEF Telling, NoCall
    <2>5. CASE next = NoCall
      BY <2>4, <2>5 DEF Due, Telling
    <2>6. CASE next.events = Tail(events)
      BY <2>2, <2>6 DEF Due, Rates
    <2> QED  BY <2>3, <2>5, <2>6
  <1>12. StageOf(row)' = StageOf(row)
    BY <1>1 DEF StageOf, DecidedBy
  <1>13. CASE Rates(e)
    <2>1. NoRating /\ Decides(e)
      BY <1>4, <1>10, <1>13
    <2>2. \A g \in published' : Rates(g) => g = e
      BY <1>5, <2>1 DEF NoRating
    <2>3. e \notin repeated'
      BY <1>1, <1>5, <1>13, <2>1 DEF NoRating
    <2>4. ~Open(row)
      <3>1. Open(row) => StageOf(row) \in {"working", "waiting", "read_by_model", "nobody"}
        BY StageIs DEF Open
      <3> QED  BY <2>1, <3>1 DEF Decides
    <2>5. calls[c].op # "dispute"
      <3>1. calls[c].op = "dispute" => AtDispute(calls[c])
        BY <1>1, InFlight DEF WorkInv
      <3> QED  BY <1>2, <1>4, <1>13, <3>1 DEF AtDispute, Rates
    <2>6. \E op \in Runs[c] : op # "dispute" /\ (calls[c].pc = "idle" \/ calls[c].op = op)
      BY <1>1, <2>5, InFlight DEF WorkInv
    <2>7. ASSUME NEW d \in Calls \ {c} PROVE Due(calls[d])'
      <3>1. PICK other : other = calls[d]
        OBVIOUS
      <3>2. other.pc = "idle" \/ other.op = "dispute"
        BY <2>6, <3>1, AloneAtWork DEF WorkInv, SerialInv
      <3>3. InPlace(other)
        BY <3>1 DEF WorkInv, SerialInv
      <3>4. Due(other)'
        BY <3>2, <3>3 DEF Due, Telling, InPlace, AtDispute, Rates
      <3> QED  BY <1>9, <3>1, <3>4
    <2>8. \A d \in Calls : Due(calls[d])'
      BY <1>9, <1>11, <2>7
    <2>9. (\A g, f \in {h \in published : Rates(h)} : g = f /\ g \notin repeated)'
      BY <2>2, <2>3 DEF Rates
    <2>10. RateInv'
      BY <1>1, <2>4, <2>8, <2>9 DEF RateInv, Open
    <2>11. RatedBy = "none"
      BY <2>1 DEF RatedBy, NoRating
    <2>12. RatedBy' = RaterOf(e.subject.by)
      <3>1. PICK ratings : ratings = {g \in published' : Rates(g)}
        OBVIOUS
      <3>2. ratings = {e}
        BY <1>5, <1>13, <2>2, <3>1
      <3>3. (CHOOSE f \in ratings : TRUE) = e /\ ratings # {}
        BY <3>2, RatingsApart
      <3> QED  BY <3>1, <3>3 DEF RatedBy, Rates, RaterOf
    <2>13. Promise!Rate
      BY <1>12, <2>1, <2>11, <2>12 DEF Decides, Promise!Rate, Promise!Rater
    <2> QED  BY <2>10, <2>13
  <1>14. CASE ~Rates(e)
    <2>1. {g \in published' : Rates(g)} = {g \in published : Rates(g)}
      BY <1>5, <1>14
    <2>2. NoRating' <=> NoRating
      BY <1>5, <1>14 DEF NoRating, Rates
    <2>3. RatedBy' = RatedBy
      BY <2>1 DEF RatedBy, Rates, RaterOf
    <2>4. ASSUME NEW g, Decides(g) PROVE Decides(g)'
      BY <1>12, <2>4 DEF Decides, Promise!Rater
    <2>5. ASSUME NEW d \in Calls \ {c} PROVE Due(calls[d])'
      <3>1. PICK other : other = calls[d] /\ Due(other)
        BY DEF RateInv
      <3>2. Due(other)'
        BY <2>2, <2>4, <3>1 DEF Due, Telling, Rates
      <3> QED  BY <1>9, <3>1, <3>2
    <2>6. \A d \in Calls : Due(calls[d])'
      BY <1>9, <1>11, <2>5
    <2>7. (\A g, f \in {h \in published : Rates(h)} : g = f /\ g \notin repeated)'
      <3>1. \A g \in {h \in published : Rates(h)} : g \in repeated' => g \in repeated
        BY <1>5, <1>14
      <3> QED  BY <2>1, <3>1 DEF RateInv, Rates
    <2>8. (Open(row) => stored = {} /\ NoRating)'
      BY <1>1, <2>2 DEF RateInv
    <2>9. /\ row'.practice \in Modes
          /\ row'.status = "IN_PROGRESS" => row'.provisional = Null
          /\ ReviewedByAi(row') /\ row'.provisional # Null => row'.verdict = row'.provisional
      BY <1>1 DEF RateInv
    <2>10. RateInv'
      BY <2>6, <2>7, <2>8, <2>9 DEF RateInv
    <2> QED  BY <1>12, <2>3, <2>10
  <1> QED  BY <1>13, <1>14

LEMMA NextRates ==
    ASSUME OneAtATime, NoRecheck, WorkInv, RateInv, [Next]_vars
    PROVE  RateInv' /\ [Promise!Next]_<<StageOf(row), RatedBy>>
  <1>1. UNCHANGED <<row, history>> => UNCHANGED <<StageOf(row), RatedBy>>
    BY DEF history, StageOf, DecidedBy, RatedBy
  <1>2. ASSUME NEW c \in Calls, Learner(c) \/ Staff(c) \/ Platform(c)
        PROVE  RateInv' /\ UNCHANGED <<row, history>>
    <2>1. UNCHANGED <<row, history>>
      BY <1>2, Zenon DEF Learner, Staff, Platform, Begin, SubmitAnswer, SaveDraft,
         AbandonAttempt, RevealAnswersOf, DisputeAiReview, ReviewAttempt, BatchApprove,
         ClaimReview, ReleaseReviewOf, PutAiReview, PutAiDraft, GiveUpAiReview, AcceptAtTerm,
         ExerciseDeleted
    <2> QED  BY <1>2, <2>1, StartsRate
  <1>3. ASSUME NEW c \in Calls, Step(c)
        PROVE  RateInv' /\ [Promise!Next]_<<StageOf(row), RatedBy>>
    <2>1. CASE \/ Crash(c) \/ DisputeRead(c) \/ MarkDisputed(c) \/ SettleRead(c) \/ Label(c)
               \/ FindStored(c) \/ FindExisting(c) \/ WriteDraft(c) \/ ReviewRead(c)
      <3>1. UNCHANGED <<row, history>>
        BY <2>1, Zenon DEF Crash, DisputeRead, MarkDisputed, SettleRead, Label, FindStored,
           FindExisting, WriteDraft, ReviewRead
      <3> QED  BY <1>1, <2>1, <3>1, StepsRate
    <2>2. CASE PublishNext(c)
      BY <2>2, PublishRates DEF Promise!Next
    <2>3. CASE SaveAttempt(c) \/ SaveIfInReview(c)
      <3>1. Writes(calls[c])
        BY <2>3 DEF SaveAttempt, SaveIfInReview, Writes
      <3>2. CASE WriteRow(c)
        <4>1. RateInv' /\ Promised
          BY <3>1, <3>2, SaveRates
        <4>2. RatedBy' = RatedBy
          BY <3>2 DEF WriteRow, RatedBy
        <4> QED  BY <4>1, <4>2 DEF Promised, Promise!Next
      <3>3. CASE Finish(c) /\ UNCHANGED <<row, history>>
        <4>1. Due(NoCall) /\ calls \in [Calls -> Call]
          BY DEF Due, Telling, NoCall, WorkInv, IInv, TypeOK
        <4>2. RateInv'
          BY <3>3, <4>1, RatesStand DEF Finish
        <4> QED  BY <1>1, <3>3, <4>2
      <3> QED  BY <2>3, <3>2, <3>3 DEF SaveAttempt, SaveIfInReview
    <2> QED  BY <1>3, <2>1, <2>2, <2>3 DEF Step
  <1>4. ASSUME UNCHANGED <<row, calls, history>> PROVE RateInv'
    <2>1. UNCHANGED <<row, history>>
      BY <1>4
    <2>2. (NoRating' <=> NoRating) /\ StageOf(row)' = StageOf(row)
      BY <1>4 DEF history, NoRating, StageOf, DecidedBy
    <2>3. ASSUME NEW e, Decides(e) PROVE Decides(e)'
      BY <2>2, <2>3 DEF Decides, Promise!Rater
    <2>4. ASSUME NEW d \in Calls PROVE Due(calls[d])'
      <3>1. PICK call : call = calls[d] /\ Due(call)
        BY DEF RateInv
      <3>2. Due(call)'
        BY <2>2, <2>3, <3>1 DEF Due, Telling, Rates
      <3> QED  BY <1>4, <3>1, <3>2
    <2>5. (Open(row) => stored = {} /\ NoRating)'
      BY <1>4, <2>2 DEF RateInv, history
    <2>6. (\A e, f \in {g \in published : Rates(g)} : e = f /\ e \notin repeated)'
      BY <1>4 DEF RateInv, history
    <2>7. /\ row'.practice \in Modes
          /\ row'.status = "IN_PROGRESS" => row'.provisional = Null
          /\ ReviewedByAi(row') /\ row'.provisional # Null => row'.verdict = row'.provisional
      BY <1>4 DEF RateInv
    <2> QED  BY <2>4, <2>5, <2>6, <2>7 DEF RateInv
  <1>5. (\E a \in AiCalls : AskModel(a)) \/ Tick \/ UNCHANGED vars => UNCHANGED <<row, calls, history>>
    BY Zenon DEF AskModel, Tick, vars, history
  <1> QED  BY <1>1, <1>2, <1>3, <1>4, <1>5 DEF Next

LEMMA InitRates == Init => RateInv /\ StageOf(row) = "working" /\ RatedBy = "none"
  <1> SUFFICES ASSUME Init PROVE RateInv /\ StageOf(row) = "working" /\ RatedBy = "none"
    OBVIOUS
  <1>1. /\ row.status = "IN_PROGRESS" /\ row.practice \in Modes /\ row.provisional = Null
        /\ published = {} /\ stored = {}
        /\ \A c \in Calls : calls[c] = NoCall
    BY DEF Init, NewAttempt
  <1>2. \A c \in Calls : Due(calls[c])
    BY <1>1 DEF Due, Telling, NoCall
  <1>3. ~ReviewedByAi(row)
    BY <1>1 DEF ReviewedByAi, Judged
  <1>4. RateInv
    BY <1>1, <1>2, <1>3 DEF RateInv, NoRating
  <1>5. StageOf(row) = "working"
    BY <1>1, StageIs
  <1>6. RatedBy = "none"
    BY <1>1 DEF RatedBy
  <1> QED  BY <1>4, <1>5, <1>6

(***************************************************************************)
(* With one request at a time and no second check of a scored attempt, the *)
(* learner's memory is rated once, whichever of the machine, a model, the  *)
(* term and a teacher decides, and whatever crashes.                       *)
(***************************************************************************)
THEOREM TheMemoryIsRatedOnce ==
    ASSUME OneAtATime, NoRecheck
    PROVE  Spec => []MemoryRatedOnce
  <1>1. WorkInv /\ [Next]_vars => WorkInv'
    BY NextKeepsWork
  <1>2. WorkInv /\ RateInv /\ [Next]_vars => RateInv'
    BY NextRates
  <1>3. RateInv => MemoryRatedOnce
    BY DEF RateInv, MemoryRatedOnce
  <1>4. Init => RateInv
    BY InitRates
  <1> QED  BY <1>1, <1>2, <1>3, <1>4, InitIsWork, PTL DEF Spec

(***************************************************************************)
(* Under the same two conditions every behaviour of the service is one of  *)
(* ReviewPromise: work is decided once, a teacher revises what the term    *)
(* decided and nothing else, and the rating is the deciding verdict's.     *)
(***************************************************************************)
THEOREM ThePromiseHolds ==
    ASSUME OneAtATime, NoRecheck
    PROVE  Spec => PromiseKept
  <1>1. WorkInv /\ [Next]_vars => WorkInv'
    BY NextKeepsWork
  <1>2. WorkInv /\ RateInv /\ [Next]_vars => RateInv' /\ [Promise!Next]_<<StageOf(row), RatedBy>>
    BY NextRates
  <1>3. Init => RateInv /\ Promise!Init
    BY InitRates DEF Promise!Init
  <1> QED  BY <1>1, <1>2, <1>3, InitIsWork, PTL DEF Spec, PromiseKept, Promise!Spec
=============================================================================

---------------------------- MODULE AttemptReview ----------------------------
(***************************************************************************)
(* One attempt of exercise-engine-service, from the hand-in to the verdict *)
(* that counts, as the handlers of the service work on it.                 *)
(*                                                                         *)
(* A handler loads the whole row (attempts.findById), changes the entity   *)
(* in memory, writes the whole row back (attempts.save, an upsert without  *)
(* a version or a lock) and publishes what the entity raised, one message  *)
(* at a time.  Every await in between lets other handlers run, so a call   *)
(* in flight is a record with the copy it loaded, and each awaited read or *)
(* write is an action.  Which handlers may be in flight at once is the     *)
(* constant Runs: one slot for all of them is a service that is asked one  *)
(* thing at a time, and several slots are what the deployed one meets.     *)
(***************************************************************************)
EXTENDS Attempt, FiniteSets

CONSTANTS
    Calls,       \* slots for calls in flight
    Runs,        \* Runs[c]: the handlers that may occupy slot c
    Modes,       \* the values `practice` may have: the client chooses
    AtSchool,    \* whether the learner has a school
    MaxChecks,   \* the document's budget of checks, Null for unlimited
    TermLength,  \* the school's term, in ticks
    MaxAnswers,  \* bound on the hand-ins of one attempt
    MaxTime      \* bound on the clock

Op == {"submit_answer", "save_draft", "abandon", "reveal", "review",
       "batch_approve", "claim", "release", "accept_at_term",
       "put_ai_review", "put_ai_draft", "give_up", "dispute", "exercise_deleted"}

ASSUME ReviewAssumption ==
    /\ Runs \in [Calls -> SUBSET Op]
    /\ Modes \subseteq BOOLEAN /\ AtSchool \in BOOLEAN
    /\ MaxChecks \in (Nat \ {0}) \cup {Null}
    /\ TermLength \in Nat \ {0} /\ MaxAnswers \in Nat \ {0} /\ MaxTime \in Nat

(***************************************************************************)
(* attempt_ai_drafts: at most one row per capability.  DECIDED stands for  *)
(* SENT, EDITED and DISCARDED.                                             *)
(***************************************************************************)
Capability == {"review_direct", "review_draft"}
Draft == [status : {"READY", "FAILED", "DECIDED"}, call : AiCalls, disputed : BOOLEAN]

(***************************************************************************)
(* What a model said in an aiCallId, and the hand-in it was shown.         *)
(***************************************************************************)
Answer == [cap : Capability, answer : Nat, result : {"approved", "returned", "FAILED"}]

\* A draft that is not there is no draft, and no answer is no answer.
ASSUME RowAssumption == Null \notin Draft \cup Answer

(***************************************************************************)
(* A call in flight.  pc is what it is about to do; att and draft are its  *)
(* copies of the rows; fresh says that the draft was built by propose()    *)
(* (an INSERT) and not loaded (an UPDATE); events are those it has still   *)
(* to publish; settles that it will label the teacher's draft.             *)
(***************************************************************************)
Pc == {"idle", "stored", "existing", "draft", "review_read", "dispute_read", "mark",
       "save", "save_if_in_review", "settle", "label", "publish"}
Call == [op      : Op \cup {Null},
         pc      : Pc,
         who     : Teachers \cup AiCalls \cup {Null},
         att     : Row \cup {Null},
         draft   : Draft \cup {Null},
         fresh   : BOOLEAN,
         settles : BOOLEAN,
         events  : Seq(Event)]
NoCall == [op |-> Null, pc |-> "idle", who |-> Null, att |-> Null, draft |-> Null,
           fresh |-> FALSE, settles |-> FALSE, events |-> <<>>]

VARIABLES
    row,        \* the stored attempt
    drafts,     \* the stored drafts, per capability
    asked,      \* what each model call answered, Null while not asked
    calls,      \* the calls in flight
    now,        \* the clock
    published,  \* history: every event published
    repeated,   \* history: those published more than once
    stored      \* history: every judgement the row has carried

vars == <<row, drafts, asked, calls, now, published, repeated, stored>>

history == <<published, repeated, stored>>

TypeOK ==
    /\ row \in Row
    /\ drafts \in [Capability -> Draft \cup {Null}]
    /\ asked \in [AiCalls -> Answer \cup {Null}]
    /\ calls \in [Calls -> Call]
    /\ now \in Nat
    /\ published \subseteq Event /\ repeated \subseteq published
    /\ stored \subseteq Verdict

Init ==
    /\ \E practice \in Modes, known \in {FALSE, AtSchool} :
           row = NewAttempt(practice, known)
    /\ drafts = [cap \in Capability |-> Null]
    /\ asked = [a \in AiCalls |-> Null]
    /\ calls = [c \in Calls |-> NoCall]
    /\ now = 0
    /\ published = {}
    /\ repeated = {}
    /\ stored = {}

-----------------------------------------------------------------------------
(* Calls in flight.                                                        *)

Idle(c, op) == calls[c].pc = "idle" /\ op \in Runs[c]

Begin(c, call) ==
    /\ calls' = [calls EXCEPT ![c] = call]
    /\ UNCHANGED <<row, drafts, asked, now, history>>

Handling(op, who, pc, att, events, settles) ==
    [op |-> op, pc |-> pc, who |-> who, att |-> att, draft |-> Null, fresh |-> FALSE,
     settles |-> settles, events |-> events]

\* Mutant: what happened is told before it is written.
Mutated_TellFirst(op, who, att, events) ==
    Handling(op, who, IF events = <<>> THEN "save" ELSE "publish", att, events, FALSE)

\* A handler that has changed its copy and is about to write it.
Mutated(op, who, att, events) == Handling(op, who, "save", att, events, FALSE)

\* A handler that has loaded the attempt and has more to read.
Loaded(op, who, pc) == Handling(op, who, pc, row, <<>>, FALSE)

Finish(c) == calls' = [calls EXCEPT ![c] = NoCall]

Goto(c, pc) == calls' = [calls EXCEPT ![c].pc = pc]

\* After the row is written: label the draft, publish, or be done.
AfterSave(call) ==
    IF call.settles THEN [call EXCEPT !.pc = "settle"]
    ELSE IF call.events # <<>> THEN [call EXCEPT !.pc = "publish"]
    ELSE NoCall

Judgements(att) == {att.verdict, att.score} \ {Null}

WriteRow(c) ==
    /\ row' = calls[c].att
    /\ stored' = stored \cup Judgements(calls[c].att)
    /\ calls' = [calls EXCEPT ![c] = AfterSave(@)]
    /\ UNCHANGED <<drafts, asked, now, published, repeated>>

SaveAttempt(c) == calls[c].pc = "save" /\ WriteRow(c)

\* Nothing is written, and nothing published, once the work left review.
SaveIfInReview(c) ==
    /\ calls[c].pc = "save_if_in_review"
    /\ \/ row.status = "ROUTED_FOR_REVIEW" /\ WriteRow(c)
       \/ /\ row.status # "ROUTED_FOR_REVIEW"
          /\ Finish(c)
          /\ UNCHANGED <<row, drafts, asked, now, history>>

Sent(call) == [call EXCEPT !.events = Tail(call.events)]

PublishNext(c) ==
    /\ calls[c].pc = "publish"
    /\ published' = published \cup {Head(calls[c].events)}
    /\ repeated' = repeated \cup (published \cap {Head(calls[c].events)})
    /\ calls' = [calls EXCEPT ![c] = AfterSave(Sent(@))]
    /\ UNCHANGED <<row, drafts, asked, now, stored>>

\* The process dies, or a write or a publish throws: the call goes no further.
Crash(c) ==
    /\ calls[c].pc # "idle"
    /\ Finish(c)
    /\ UNCHANGED <<row, drafts, asked, now, history>>

Tick ==
    /\ now < MaxTime
    /\ now' = now + 1
    /\ UNCHANGED <<row, drafts, asked, calls, history>>

-----------------------------------------------------------------------------
(* The learner.                                                            *)

\* A scored practice attempt is reopened first, in the same handler.
Reopened ==
    IF row.status = "SCORED" THEN ReopenForRecheck(row) ELSE row

\* The validator scores the answer, keeps the attempt open for the parts
\* still to be answered, or asks for a person.
SubmitAnswer(c) ==
    /\ Idle(c, "submit_answer")
    /\ row.answer < MaxAnswers
    /\ row.status = "SCORED" => CanReopenForRecheck(row, MaxChecks)
    /\ CanSubmit(Reopened)
    /\ LET handed == Submit(Reopened)
           submitted(att, events) == Begin(c, Mutated("submit_answer", Null, att, events))
       IN  \/ submitted(Score(handed), ScoreEvents(handed))
           \/ submitted(RecordPartialCheck(handed), <<>>)
           \/ \E found \in {FALSE, AtSchool} :
                LET work == BackfillReviewContext(handed, found)
                IN  \/ \E policy \in {Null} \cup [atOnce : BOOLEAN,
                                                  due : {Null, now + TermLength}] :
                          /\ CanRoute(work, policy)
                          /\ submitted(RouteForReview(work, policy), RouteEvents(work))
                    \/ /\ ~work.school
                       /\ submitted(CloseWithoutReviewer(work), CloseEvents(work))

SaveDraft(c) ==
    /\ Idle(c, "save_draft")
    /\ CanSaveDraft(row)
    /\ Begin(c, Mutated("save_draft", Null, row, <<>>))

AbandonAttempt(c) ==
    /\ Idle(c, "abandon")
    /\ CanAbandon(row)
    /\ Begin(c, Mutated("abandon", Null, Abandon(row), <<>>))

\* content-service deleted the exercise: work in progress on it is abandoned.
ExerciseDeleted(c) ==
    /\ Idle(c, "exercise_deleted")
    /\ row.status = "IN_PROGRESS"
    /\ Begin(c, Mutated("exercise_deleted", Null, Abandon(row), <<>>))

RevealAnswersOf(c) ==
    /\ Idle(c, "reveal")
    /\ CanReveal(row)
    /\ Begin(c, Mutated("reveal", Null, RevealAnswers(row), <<>>))

\* "This review is wrong", said of a model's verdict that closed the work.
DisputeAiReview(c) ==
    /\ Idle(c, "dispute")
    /\ ReviewedByAi(row)
    /\ Begin(c, Loaded("dispute", Null, "dispute_read"))

DisputeRead(c) ==
    LET review == drafts["review_direct"] IN
    /\ calls[c].pc = "dispute_read"
    /\ IF review = Null \/ review.status = "FAILED" \/ review.disputed
       THEN Finish(c)
       ELSE calls' = [calls EXCEPT ![c].pc = "mark", ![c].draft = review]
    /\ UNCHANGED <<row, drafts, asked, now, history>>

MarkDisputed_Blind(c) ==
    /\ calls[c].pc = "mark"
    /\ drafts' = [drafts EXCEPT !["review_direct"].disputed = TRUE]
    /\ calls' = [calls EXCEPT ![c].pc = "publish",
                     ![c].events = <<Announce("ai_review_disputed", calls[c].att.verdict)>>]
    /\ UNCHANGED <<row, asked, now, history>>

\* markDisputed writes only where no dispute is recorded yet.
MarkDisputed(c) ==
    /\ calls[c].pc = "mark"
    /\ IF drafts["review_direct"].disputed
       THEN Finish(c) /\ UNCHANGED drafts
       ELSE /\ drafts' = [drafts EXCEPT !["review_direct"].disputed = TRUE]
            /\ calls' = [calls EXCEPT ![c].pc = "publish",
                         ![c].events = <<Announce("ai_review_disputed", calls[c].att.verdict)>>]
    /\ UNCHANGED <<row, asked, now, history>>

-----------------------------------------------------------------------------
(* The teachers.                                                           *)

TeacherVerdict(t, outcome) == [by |-> t, outcome |-> outcome, answer |-> row.answer]

TeacherDraftCapability(att) ==
    IF att.policy # Null THEN "review_direct" ELSE "review_draft"

\* settles: the reviewer was shown the model's draft and acted on it.
ReviewAttempt(c) ==
    /\ Idle(c, "review")
    /\ ~HasDeliveredVerdict(row)
    /\ CanReview(row)
    /\ \E t \in Teachers, outcome \in {"approved", "returned"}, settles \in BOOLEAN :
         LET v == TeacherVerdict(t, outcome)
             draft == drafts[TeacherDraftCapability(row)]
         IN  /\ settles => draft # Null /\ draft.status # "FAILED"
             /\ Begin(c, Handling("review", t, "save", Deliver(row, v),
                                  DeliverEvents(v, AcceptedAtTerm(row)), settles))

BatchApprove(c) ==
    /\ Idle(c, "batch_approve")
    /\ row.school
    /\ ~HasDeliveredVerdict(row)
    /\ row.status = "ROUTED_FOR_REVIEW"
    /\ \E t \in Teachers :
         LET v == TeacherVerdict(t, "approved")
         IN  Begin(c, Mutated("batch_approve", t, Deliver(row, v), DeliverEvents(v, FALSE)))

ClaimReview(c) ==
    /\ Idle(c, "claim")
    /\ row.school
    /\ \E t \in Teachers :
         /\ CanClaim(row, t, now)
         /\ Begin(c, Mutated("claim", t, ClaimForReview(row, t, now), <<>>))

ReleaseReviewOf(c) ==
    /\ Idle(c, "release")
    /\ row.school
    /\ \E t \in Teachers :
         /\ CanRelease(row, t, now)
         /\ Begin(c, Mutated("release", t, ReleaseReview(row), <<>>))

\* settleDraft, once the verdict is stored: whatever fails here, the verdict
\* is published all the same.
Unlabelled(c) == [calls EXCEPT ![c] = AfterSave([@ EXCEPT !.settles = FALSE])]

SettleRead(c) ==
    LET draft == drafts[TeacherDraftCapability(calls[c].att)] IN
    /\ calls[c].pc = "settle"
    /\ \/ calls' = Unlabelled(c)
       \/ /\ draft # Null /\ draft.status # "FAILED"
          /\ calls' = [calls EXCEPT ![c].pc = "label",
                                     ![c].draft = [draft EXCEPT !.status = "DECIDED"]]
    /\ UNCHANGED <<row, drafts, asked, now, history>>

\* An UPDATE of the loaded draft; the disputed column is not among those written.
Rewritten(cap, draft) == [draft EXCEPT !.disputed = drafts[cap].disputed]

Label(c) ==
    LET cap == TeacherDraftCapability(calls[c].att) IN
    /\ calls[c].pc = "label"
    /\ drafts' \in {drafts, [drafts EXCEPT ![cap] = Rewritten(cap, calls[c].draft)]}
    /\ calls' = Unlabelled(c)
    /\ UNCHANGED <<row, asked, now, history>>

-----------------------------------------------------------------------------
(* The models, and the term.                                               *)

\* draftRefusal(attempt, capability) = null
TakesDraft(att, cap) ==
    IF cap = "review_draft"
    THEN att.status = "ROUTED_FOR_REVIEW" /\ att.school /\ att.policy = Null
    ELSE CanReviewByAi(att)

\* ai-service learns of routed work from its event.
Heard == \E e \in published : e.type = "routed_for_review"

\* It reads the subject of a piece of work nobody drafted yet and pays for
\* one call.
AskModel(a) ==
    /\ asked[a] = Null
    /\ Heard
    /\ \E cap \in Capability, result \in {"approved", "returned", "FAILED"} :
         /\ TakesDraft(row, cap)
         /\ drafts[cap] = Null
         /\ asked' = [asked EXCEPT ![a] = [cap |-> cap, answer |-> row.answer,
                                           result |-> result]]
    /\ UNCHANGED <<row, drafts, calls, now, history>>

Wrote(a, cap) == asked[a] # Null /\ asked[a].cap = cap

DraftStatus(a) == IF asked[a].result = "FAILED" THEN "FAILED" ELSE "READY"

ModelVerdict(a) == [by |-> a, outcome |-> asked[a].result, answer |-> asked[a].answer]

\* The first write of a call and every retry of it.
PutAiReview(c) ==
    /\ Idle(c, "put_ai_review")
    /\ \E a \in AiCalls :
         /\ Wrote(a, "review_direct")
         /\ Begin(c, Loaded("put_ai_review", a, "stored"))

IsStored(a, cap) == drafts[cap] # Null /\ drafts[cap].call = a

\* The call was written before, and nothing is left of it to do.
Replayed(a, att) ==
    /\ IsStored(a, "review_direct")
    /\ \/ drafts["review_direct"].status = "FAILED"
       \/ att.status # "ROUTED_FOR_REVIEW"
       \/ att.provisional # Null

\* A call already stored goes straight to its verdict: a retry of a write
\* cut off after the review was saved.  A review labelled meanwhile is left.
Ruled(c, att, events) ==
    LET ruled == [calls[c] EXCEPT !.att = att, !.events = events]
    IN  IF ~IsStored(calls[c].who, "review_direct")
        THEN calls' = [calls EXCEPT ![c] = [ruled EXCEPT !.pc = "existing"]]
        ELSE IF drafts["review_direct"].status = "READY"
        THEN calls' = [calls EXCEPT ![c] = [ruled EXCEPT !.pc = "save"]]
        ELSE Finish(c)

FindStored(c) ==
    LET a == calls[c].who
        att == calls[c].att
        v == ModelVerdict(a)
    IN  /\ calls[c].pc = "stored"
        /\ \/ /\ Replayed(a, att) \/ ~TakesDraft(att, "review_direct")
              /\ Finish(c)
           \/ /\ ~Replayed(a, att) /\ TakesDraft(att, "review_direct")
              /\ \/ asked[a].result = "FAILED" /\ Ruled(c, att, <<>>)
                 \/ /\ asked[a].result # "FAILED"
                    /\ \E disagrees \in BOOLEAN :
                         IF CountsAtOnce(att, v, disagrees)
                         THEN Ruled(c, Deliver(att, v),
                                    Append(DeliverEvents(v, FALSE), Announce("ai_reviewed", v)))
                         ELSE Ruled(c, KeepProvisional(att, v), <<>>)
        /\ UNCHANGED <<row, drafts, asked, now, history>>

\* ai-service leaves a draft for the teacher.
PutAiDraft(c) ==
    /\ Idle(c, "put_ai_draft")
    /\ \E a \in AiCalls :
         /\ Wrote(a, "review_draft")
         /\ ~IsStored(a, "review_draft")
         /\ TakesDraft(row, "review_draft")
         /\ Begin(c, Loaded("put_ai_draft", a, "existing"))

CapOf(call) == IF call.op = "put_ai_draft" THEN "review_draft" ELSE "review_direct"

\* propose(), or replaceWith() on a draft nobody has acted on.
FindExisting(c) ==
    LET a == calls[c].who
        existing == drafts[CapOf(calls[c])]
    IN  /\ calls[c].pc = "existing"
        /\ IF existing # Null /\ existing.status = "DECIDED"
           THEN Finish(c)
           ELSE calls' = [calls EXCEPT ![c].pc = "draft", ![c].fresh = existing = Null,
                            ![c].draft = [status |-> DraftStatus(a), call |-> a,
                                          disputed |-> existing # Null /\ existing.disputed]]
        /\ UNCHANGED <<row, drafts, asked, now, history>>

\* An INSERT beside a draft that landed meanwhile is refused by the unique
\* index; an UPDATE never is.
WriteDraft(c) ==
    LET cap == CapOf(calls[c])
        draft == calls[c].draft
    IN  /\ calls[c].pc = "draft"
        /\ IF calls[c].fresh /\ drafts[cap] # Null
           THEN Finish(c) /\ UNCHANGED drafts
           ELSE /\ drafts' = [drafts EXCEPT ![cap] =
                                IF calls[c].fresh THEN draft ELSE Rewritten(cap, draft)]
                /\ IF cap = "review_direct" /\ draft.status = "READY"
                   THEN Goto(c, "save")
                   ELSE Finish(c)
        /\ UNCHANGED <<row, asked, now, history>>

\* No model could read the work: it closes without a reviewer, unless a
\* review of it is already there.
GiveUpAiReview(c) ==
    /\ Idle(c, "give_up")
    /\ Heard
    /\ CanGiveUpReview(row)
    /\ Begin(c, Loaded("give_up", Null, "review_read"))

ReviewRead(c) ==
    LET review == drafts["review_direct"] IN
    /\ calls[c].pc = "review_read"
    /\ IF review # Null /\ review.status = "READY"
       THEN Finish(c)
       ELSE calls' = [calls EXCEPT ![c].pc = "save", ![c].att = GiveUpReview(@)]
    /\ UNCHANGED <<row, drafts, asked, now, history>>

TermMayClose_UnderTeacher == CanAcceptAtTerm(row, now)

TermMayClose == CanAcceptAtTerm(row, now) /\ ~ReviewLocked(row, now)

\* The term job, on a row that is due and that nobody holds open.  The review
\* behind a provisional verdict is never deleted, so ai_reviewed always follows.
AcceptAtTerm(c) ==
    /\ Idle(c, "accept_at_term")
    /\ TermMayClose
    /\ LET v == row.provisional
           events == Append(DeliverEvents(v, FALSE), Announce("ai_reviewed", v))
       IN  Begin(c, Handling("accept_at_term", Null, "save_if_in_review",
                             Deliver(row, v), events, FALSE))

-----------------------------------------------------------------------------
Learner(c) == SubmitAnswer(c) \/ SaveDraft(c) \/ AbandonAttempt(c)
              \/ RevealAnswersOf(c) \/ DisputeAiReview(c)
Staff(c) == ReviewAttempt(c) \/ BatchApprove(c) \/ ClaimReview(c) \/ ReleaseReviewOf(c)
Platform(c) == PutAiReview(c) \/ PutAiDraft(c) \/ GiveUpAiReview(c) \/ AcceptAtTerm(c)
               \/ ExerciseDeleted(c)
Step(c) == SaveAttempt(c) \/ SaveIfInReview(c) \/ PublishNext(c) \/ Crash(c)
           \/ DisputeRead(c) \/ MarkDisputed(c) \/ SettleRead(c) \/ Label(c)
           \/ FindStored(c) \/ FindExisting(c) \/ WriteDraft(c) \/ ReviewRead(c)

Next ==
    \/ \E c \in Calls : Learner(c) \/ Staff(c) \/ Platform(c) \/ Step(c)
    \/ \E a \in AiCalls : AskModel(a)
    \/ Tick

Spec == Init /\ [][Next]_vars

-----------------------------------------------------------------------------
(* Properties.                                                             *)

(***************************************************************************)
(* Saved first, published after: whatever the exchange was told about a    *)
(* judgement, the row has carried that judgement.  No interleaving and no  *)
(* crash lets an event about a verdict nobody stored out.                  *)
(***************************************************************************)
SavedBeforePublished ==
    \A e \in published : e.type \notin {"completed_unscored", "routed_for_review"}
                           => e.subject \in stored

(***************************************************************************)
(* The memory of the learner is rated once for a hand-in, by whichever     *)
(* verdict is final; a teacher's revision of a verdict taken at the term   *)
(* does not rate it again.                                                 *)
(***************************************************************************)
Rates(e) == e.type \in {"scored", "returned"} /\ ~e.revises
MemoryRatedOnce ==
    \A e, f \in {g \in published : Rates(g)} :
        e.subject.answer = f.subject.answer => e = f /\ e \notin repeated

(***************************************************************************)
(* A signed verdict is not replaced by anybody, unless the learner hands   *)
(* in again: not by a colleague, not by a model, not by the term.          *)
(***************************************************************************)
TeacherVerdictStands ==
    [][HasDeliveredVerdict(row) => row'.verdict = row.verdict \/ row'.answer > row.answer]_vars

(***************************************************************************)
(* Whatever a model's verdict says on the row, the review the learner reads*)
(* beside it is that call's, and is not a failed one: the review is saved  *)
(* before the attempt, and no later call replaces it.                      *)
(***************************************************************************)
ModelVerdictsOn(att) ==
    {v \in {att.provisional} \cup IF ReviewedByAi(att) THEN {att.verdict} ELSE {} : v # Null}
ReviewBehindVerdict ==
    \A v \in ModelVerdictsOn(row) :
        LET review == drafts["review_direct"]
        IN  review # Null /\ review.status # "FAILED" /\ review.call = v.by

(***************************************************************************)
(* A dispute is counted once, however often the learner presses.           *)
(***************************************************************************)
DisputeCountedOnce ==
    \A e, f \in {g \in published : g.type = "ai_review_disputed"} :
        e = f /\ e \notin repeated

(***************************************************************************)
(* The columns of a row agree, whichever handlers wrote it and in whatever *)
(* order: work closed without a reviewer has no school; a policy is a      *)
(* school's; a provisional verdict is a model's, and there is a policy it  *)
(* waits under; returned work keeps no score and scored work has one; work *)
(* of a graded attempt still in review carries neither verdict nor score.  *)
(***************************************************************************)
WellFormed(att) ==
    /\ att.status # "SUBMITTED"
    /\ att.status = "NO_REVIEWER" => ~att.school
    /\ att.policy # Null => att.school
    /\ att.provisional # Null => att.policy # Null /\ att.provisional.by \in AiCalls
    /\ att.status = "RETURNED" => /\ att.verdict # Null /\ att.verdict.outcome = "returned"
                                  /\ att.score = Null
    /\ att.status = "SCORED" => att.score # Null /\ att.score.outcome = "approved"
    /\ att.status = "ROUTED_FOR_REVIEW" /\ ~att.practice
         => att.verdict = Null /\ att.score = Null
RowWellFormed == WellFormed(row)

(***************************************************************************)
(* A teacher looking at the work keeps it: while a marker holds, the term  *)
(* does not close the work under them.                                     *)
(***************************************************************************)
TermYieldsToOpenCard ==
    [][row.status = "ROUTED_FOR_REVIEW" /\ ReviewLocked(row, now) => ~AcceptedAtTerm(row')]_vars

(***************************************************************************)
(* Checking a practice attempt again is refused beyond the document's      *)
(* budget.                                                                 *)
(***************************************************************************)
ChecksWithinBudget == MaxChecks # Null => row.rechecks + 1 <= MaxChecks

(***************************************************************************)
(* What the term closes is the hand-in whose review the learner has been   *)
(* reading.                                                                *)
(***************************************************************************)
TermClosesWhatWasRead ==
    [][row.status = "ROUTED_FOR_REVIEW" /\ AcceptedAtTerm(row')
         => row'.verdict.answer = row.answer]_vars

(***************************************************************************)
(* The promise kept: what the row and the exchange show of a graded        *)
(* attempt is a behaviour of ReviewPromise.  The row does not tell a       *)
(* teacher's revision from a first verdict; that the provisional verdict   *)
(* has counted does.                                                       *)
(***************************************************************************)
DecidedBy(att) ==
    IF att.verdict = Null THEN "machine"
    ELSE IF Signed(att) THEN IF att.provisional \in stored THEN "revised" ELSE "teacher"
    ELSE IF AcceptedAtTerm(att) /\ att.verdict = att.provisional THEN "term" ELSE "model"

StageOf(att) ==
    CASE att.status = "IN_PROGRESS" -> "working"
      [] att.status = "ABANDONED" -> "abandoned"
      [] att.status = "NO_REVIEWER" -> "nobody"
      [] att.status = "ROUTED_FOR_REVIEW" ->
             IF att.provisional = Null THEN "waiting" ELSE "read_by_model"
      [] Judged(att) -> DecidedBy(att)

RaterOf(judge) ==
    IF judge \in Teachers THEN "teacher" ELSE IF judge \in AiCalls THEN "model" ELSE "machine"

RatedBy == LET ratings == {e \in published : Rates(e)}
           IN  IF ratings = {} THEN "none"
               ELSE RaterOf((CHOOSE e \in ratings : TRUE).subject.by)

Promise == INSTANCE ReviewPromise WITH stage <- StageOf(row), rated <- RatedBy

PromiseKept == Promise!Spec

=============================================================================

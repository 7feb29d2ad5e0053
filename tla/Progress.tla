------------------------------- MODULE Progress -------------------------------
(***************************************************************************)
(* The UserProgress entity of learning-service: one learner's record of    *)
(* one exercise, and each method as the row it leaves.                     *)
(*                                                                         *)
(* An event carries the date the engine gave it, whenever it arrives: of   *)
(* the work, or of the verdict on it.  A score is the date of the event it *)
(* came with.                                                              *)
(***************************************************************************)
EXTENDS Naturals

CONSTANTS
    Attempts,   \* the learner's attempts at the exercise
    Dates       \* the dates an event can carry

ASSUME DatesAssumption == Dates \subseteq Nat \ {0}

Status == {"NOT_STARTED", "IN_PROGRESS", "SUBMITTED", "COMPLETED", "NEEDS_REVIEW"}

\* completed: completedAt is set.
Row == [status : Status, attempts : Nat, last : Dates \cup {0},
        score : Dates \cup {0}, completed : BOOLEAN, byAi : BOOLEAN]

NewProgress == [status |-> "NOT_STARTED", attempts |-> 0, last |-> 0, score |-> 0,
                completed |-> FALSE, byAi |-> FALSE]

\* What an event says (outcomeOf): work handed over or checked, a verdict of
\* a person or a model, and a teacher's verdict in place of the model's.  by:
\* whose verdict it is.
HandIn == [attempt : Attempts, at : Dates, revises : {FALSE},
           outcome : {"submitted", "passed", "failed"}, by : {"check"}]
Verdict == [attempt : Attempts, at : Dates, revises : {FALSE},
            outcome : {"passed", "failed", "returned"}, by : {"teacher", "ai"}]
Revision == [attempt : Attempts, at : Dates, revises : {TRUE},
             outcome : {"passed", "returned"}, by : {"teacher"}]
Event == HandIn \cup Verdict \cup Revision

Latest(row, e) == e.at >= row.last

\* An attempt that passes completes the exercise, unless a teacher has
\* questioned the completion.
Completes(row, e) == e.outcome = "passed" /\ row.status # "NEEDS_REVIEW"

StatusAfter(row, e) ==
    CASE Completes(row, e) -> "COMPLETED"
      [] e.outcome = "submitted" /\ row.status \in {"NOT_STARTED", "IN_PROGRESS"} -> "SUBMITTED"
      [] e.outcome = "failed" /\ row.status \in {"NOT_STARTED", "SUBMITTED"} -> "IN_PROGRESS"
      [] OTHER -> row.status

\* Mutant: a model's pass of a later attempt weakens the verdict of an earlier one.
ByAiAfter_Latest(row, e) == IF ~Completes(row, e) THEN row.byAi ELSE e.by = "ai"

\* A model's completion is marked as one until a stronger verdict says the same.
ByAiAfter(row, e) ==
    IF ~Completes(row, e) THEN row.byAi
    ELSE e.by = "ai" /\ (row.completed => row.byAi)

\* Mutant: the score is the one that arrived last.
RecordAttempt_ByArrival(row, e) ==
    [status    |-> StatusAfter(row, e),
     attempts  |-> row.attempts + 1,
     last      |-> IF Latest(row, e) THEN e.at ELSE row.last,
     score     |-> IF e.outcome # "submitted" THEN e.at ELSE row.score,
     completed |-> row.completed \/ Completes(row, e),
     byAi      |-> ByAiAfter(row, e)]

RecordAttempt(row, e) ==
    [status    |-> StatusAfter(row, e),
     attempts  |-> row.attempts + 1,
     last      |-> IF Latest(row, e) THEN e.at ELSE row.last,
     score     |-> IF Latest(row, e) /\ e.outcome # "submitted" THEN e.at ELSE row.score,
     completed |-> row.completed \/ Completes(row, e),
     byAi      |-> ByAiAfter(row, e)]

\* A teacher, or a model, sent the work back.
RecordReturn(row) == [row EXCEPT !.status = "IN_PROGRESS"]

\* A teacher's verdict replaces the model's that counted at the term.
ReviseVerdict(row, e) ==
    IF e.outcome = "passed"
    THEN [row EXCEPT !.score = IF Latest(row, e) THEN e.at ELSE @,
                     !.byAi = FALSE, !.completed = TRUE, !.status = "COMPLETED"]
    ELSE [row EXCEPT !.status = "IN_PROGRESS", !.completed = FALSE, !.byAi = FALSE]

\* Whether the event has anything to say to this row: without a domain event
\* nothing is saved.
Changes(row, e) ==
    IF e.revises
    THEN /\ row.status # "NEEDS_REVIEW"
         /\ e.outcome = "passed" \/ (row.status = "COMPLETED" /\ row.byAi)
    ELSE e.outcome = "returned" => row.status = "SUBMITTED"

IsAttempt(e) == ~e.revises /\ e.outcome # "returned"

Apply(row, e) ==
    IF IsAttempt(e) THEN RecordAttempt(row, e)
    ELSE IF e.revises THEN ReviseVerdict(row, e) ELSE RecordReturn(row)

(***************************************************************************)
(* A teacher questions a completion and settles the question.              *)
(***************************************************************************)
CanMarkNeedsReview(row) == row.status = "COMPLETED"
MarkNeedsReview(row) == [row EXCEPT !.status = "NEEDS_REVIEW"]

CanResolveReview(row) == row.status = "NEEDS_REVIEW"
ResolveReview(row, approved) ==
    IF approved
    THEN [row EXCEPT !.status = "COMPLETED", !.completed = TRUE]
    ELSE [row EXCEPT !.status = "IN_PROGRESS"]
=============================================================================

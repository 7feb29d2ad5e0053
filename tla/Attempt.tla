------------------------------- MODULE Attempt -------------------------------
(***************************************************************************)
(* The Attempt aggregate of exercise-engine-service: one row of `attempts` *)
(* and the methods of the entity, each as a guard (Can...) and the row it  *)
(* leaves.  The handlers that call them, and everything that happens       *)
(* between their awaits, are in AttemptReview.                             *)
(*                                                                         *)
(* What the properties do not tell apart is left out of the row: texts,    *)
(* marks, scores as numbers, skills, the learner's draft.  Hand-ins on an  *)
(* attempt are numbered, so that a verdict can say which one it judged;    *)
(* the code stores no such number, and no guard here reads it.             *)
(*                                                                         *)
(* A definition named X_Y is X with the defect Y a change of the code could*)
(* introduce; nothing uses it but the check that a property notices.       *)
(***************************************************************************)
EXTENDS Naturals, Sequences

CONSTANTS
    Teachers,   \* people who may sign a verdict
    AiCalls,    \* aiCallIds: one paid call to a model each
    Machine,    \* the validator that scores what it can close by itself
    Null,       \* an empty column
    ClaimTTL    \* REVIEW_CLAIM_TTL_MS, in ticks

ASSUME AttemptAssumption ==
    /\ Teachers \cap AiCalls = {}
    /\ Machine \notin Teachers \cup AiCalls
    /\ Null \notin Teachers \cup AiCalls \cup {Machine}
    /\ ClaimTTL \in Nat \ {0}

Status == {"IN_PROGRESS", "SUBMITTED", "SCORED", "ROUTED_FOR_REVIEW",
           "RETURNED", "ABANDONED", "NO_REVIEWER"}

(***************************************************************************)
(* A judgement of the answer-th hand-in.  A model's is named by its call.  *)
(***************************************************************************)
Judges == Teachers \cup AiCalls \cup {Machine}
Verdict == [by : Judges, outcome : {"approved", "returned"}, answer : Nat]

\* An empty column holds no judgement.
ASSUME NullAssumption == Null \notin Verdict

(***************************************************************************)
(* reviewAiPolicy, taken at hand-in: whether a credited model verdict may  *)
(* count at once (ai_with_sampling, and the draw did not pick a teacher)   *)
(* and when a provisional one counts by itself (autoAcceptAt).             *)
(***************************************************************************)
Policy == [atOnce : BOOLEAN, due : Nat \cup {Null}]

Claim == [by : Teachers, at : Nat]

(***************************************************************************)
(* verdict stands for reviewedByUserId, reviewedAt, reviewComment and      *)
(* reviewDecisions, which only deliver() writes, together; score for       *)
(* score, passed and scoredAt, naming the judgement they come from.        *)
(***************************************************************************)
Row == [status      : Status,
        practice    : BOOLEAN,
        school      : BOOLEAN,
        answer      : Nat,
        rechecks    : Nat,
        revealed    : BOOLEAN,
        policy      : Policy \cup {Null},
        provisional : Verdict \cup {Null},
        verdict     : Verdict \cup {Null},
        score       : Verdict \cup {Null},
        claim       : Claim \cup {Null}]

NewAttempt(practice, school) ==
    [status |-> "IN_PROGRESS", practice |-> practice, school |-> school,
     answer |-> 0, rechecks |-> 0, revealed |-> FALSE, policy |-> Null,
     provisional |-> Null, verdict |-> Null, score |-> Null, claim |-> Null]

(***************************************************************************)
(* Domain events.  subject is the judgement an event announces; an event   *)
(* about a hand-in nobody has judged yet carries the number of the hand-in *)
(* only.                                                                   *)
(***************************************************************************)
HandIn(n) == [by |-> Null, outcome |-> "none", answer |-> n]
Subject == Verdict \cup [by : {Null}, outcome : {"none"}, answer : Nat]
EventType == {"scored", "returned", "completed_unscored", "routed_for_review",
              "reviewed", "ai_reviewed", "ai_review_disputed"}
Event == [type : EventType, subject : Subject, revises : BOOLEAN]

Announce(type, subject) == [type |-> type, subject |-> subject, revises |-> FALSE]

-----------------------------------------------------------------------------
(* The learner's side.                                                     *)

CanSaveDraft(att) == att.status = "IN_PROGRESS"

CanSubmit(att) == att.status = "IN_PROGRESS"
Submit(att) == [att EXCEPT !.status = "SUBMITTED", !.answer = @ + 1]

CanReopenForRecheck_OneMore(att, maxChecks) ==
    /\ att.practice /\ ~att.revealed /\ att.status = "SCORED"
    /\ maxChecks # Null => att.rechecks + 1 <= maxChecks

\* The budget is the document's; the templates a person reviews have none.
CanReopenForRecheck(att, maxChecks) ==
    /\ att.practice
    /\ ~att.revealed
    /\ att.status = "SCORED"
    /\ maxChecks # Null => att.rechecks + 2 <= maxChecks
ReopenForRecheck(att) ==
    [att EXCEPT !.status = "IN_PROGRESS", !.rechecks = @ + 1]

RecordPartialCheck(att) == [att EXCEPT !.status = "IN_PROGRESS"]

MachineVerdict(att) ==
    [by |-> Machine, outcome |-> "approved", answer |-> att.answer]
Score(att) == [att EXCEPT !.status = "SCORED", !.score = MachineVerdict(att)]
\* Only the first check is evidence.
ScoreEvents(att) ==
    IF att.rechecks = 0 THEN <<Announce("scored", MachineVerdict(att))>> ELSE <<>>

BackfillReviewContext(att, found) == [att EXCEPT !.school = @ \/ found]

CanRoute_AnyWork(att, policy) == TRUE

\* A policy is taken only on a school's work.
CanRoute(att, policy) == policy = Null \/ att.school
RouteForReview(att, policy) ==
    [att EXCEPT !.status = "ROUTED_FOR_REVIEW",
                !.policy = IF policy = Null THEN @ ELSE policy]
RouteEvents(att) == <<Announce("completed_unscored", HandIn(att.answer)),
                      Announce("routed_for_review", HandIn(att.answer))>>

CloseWithoutReviewer(att) == [att EXCEPT !.status = "NO_REVIEWER"]
CloseEvents(att) == <<Announce("completed_unscored", HandIn(att.answer))>>

CanGiveUpReview(att) == att.status = "ROUTED_FOR_REVIEW" /\ ~att.school
GiveUpReview(att) == [att EXCEPT !.status = "NO_REVIEWER"]

CanAbandon(att) ==
    att.status \notin {"SCORED", "ROUTED_FOR_REVIEW", "NO_REVIEWER"}
Abandon(att) == [att EXCEPT !.status = "ABANDONED"]

CanReveal(att) == att.status \notin {"IN_PROGRESS", "ABANDONED"}
RevealAnswers(att) == [att EXCEPT !.revealed = TRUE]

-----------------------------------------------------------------------------
(* The verdict.                                                            *)

Signed(att) == att.verdict # Null /\ att.verdict.by \in Teachers

Judged(att) == att.status \in {"SCORED", "RETURNED"}

\* deliveredVerdict(): the decision carries a person's signature.
HasDeliveredVerdict(att) == Judged(att) /\ Signed(att)

ReviewedByAi(att) == Judged(att) /\ att.verdict # Null /\ ~Signed(att)

\* revisableAfterTerm: a teacher may still answer, once.
AcceptedAtTerm(att) == ReviewedByAi(att) /\ att.provisional # Null

\* Both verdicts.  The marker of whoever was looking is cleared.
Deliver(att, v) ==
    [att EXCEPT !.status  = IF v.outcome = "returned" THEN "RETURNED" ELSE "SCORED",
                !.verdict = v,
                !.score   = IF v.outcome = "returned" THEN Null ELSE v,
                !.claim   = Null]

DeliverEvents_NeverRevise(v, revising) ==
    IF v.by \in Teachers
    THEN <<Announce(IF v.outcome = "returned" THEN "returned" ELSE "scored", v),
           Announce("reviewed", v)>>
    ELSE <<Announce(IF v.outcome = "returned" THEN "returned" ELSE "scored", v)>>

DeliverEvents(v, revising) ==
    LET told(type) == [type |-> type, subject |-> v, revises |-> revising]
        evidence == told(IF v.outcome = "returned" THEN "returned" ELSE "scored")
    IN  IF v.by \in Teachers THEN <<evidence, told("reviewed")>> ELSE <<evidence>>

CanReview(att) == AcceptedAtTerm(att) \/ att.status = "ROUTED_FOR_REVIEW"

CanReviewByAi_AnyStatus(att) ==
    att.school => att.policy # Null /\ att.provisional = Null
CanReviewByAi_Again(att) ==
    att.status = "ROUTED_FOR_REVIEW" /\ (att.school => att.policy # Null)

\* A model's verdict: final on the work of a learner nobody reviews; at a
\* school it counts at once only where the policy allows it and nothing
\* about it is in doubt, and is kept beside the work otherwise.
CanReviewByAi(att) ==
    /\ att.status = "ROUTED_FOR_REVIEW"
    /\ att.school => att.policy # Null /\ att.provisional = Null
CountsAtOnce(att, v, disagreesWithMachine) ==
    \/ ~att.school
    \/ att.policy.atOnce /\ v.outcome = "approved" /\ ~disagreesWithMachine
KeepProvisional(att, v) == [att EXCEPT !.provisional = v]

\* The school's term ran out: the provisional verdict is delivered.
CanAcceptAtTerm(att, now) ==
    /\ att.status = "ROUTED_FOR_REVIEW"
    /\ att.provisional # Null
    /\ att.policy # Null
    /\ att.policy.due # Null
    /\ att.policy.due <= now

-----------------------------------------------------------------------------
(* The marker of the teacher who has the card open.                        *)

ReviewLocked(att, now) == att.claim # Null /\ att.claim.at + ClaimTTL > now

HeldByAnother(att, teacher, now) ==
    ReviewLocked(att, now) /\ att.claim.by # teacher

CanClaim(att, teacher, now) ==
    /\ att.status = "ROUTED_FOR_REVIEW" \/ AcceptedAtTerm(att)
    /\ ~HeldByAnother(att, teacher, now)
ClaimForReview(att, teacher, now) ==
    [att EXCEPT !.claim = [by |-> teacher, at |-> now]]

CanRelease(att, teacher, now) == ~HeldByAnother(att, teacher, now)
ReleaseReview(att) == [att EXCEPT !.claim = Null]
=============================================================================

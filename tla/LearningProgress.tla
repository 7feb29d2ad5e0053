--------------------------- MODULE LearningProgress ---------------------------
(***************************************************************************)
(* learning-service follows one learner's attempts at one exercise: its    *)
(* consumer of exercise.attempt.completed records each in the progress row *)
(* and puts what the attempt practised on the schedule, within the number  *)
(* of new cards a day may bring.                                           *)
(*                                                                         *)
(* The channel hands over ten messages at a time and waits for none, so    *)
(* handlers run side by side, and beside the requests of teachers who      *)
(* question a completion.  Each loads the whole progress row and writes it *)
(* back without a version.  An event is marked as processed when all its   *)
(* work is done, as a write of its own.                                    *)
(***************************************************************************)
EXTENDS Progress, Sequences, FiniteSetsExt

CONSTANTS
    Handlers,   \* messages in flight
    Requests,   \* teachers' requests in flight
    Contents,   \* what can be on the schedule
    OwnCard,    \* the card that stands for the whole exercise
    Touched,    \* Touched[a]: what attempt a was about, as the engine recorded it
    Limit,      \* new cards a day
    Horizon,    \* days a new card can be put off
    Bound,      \* on events, and crashes, lost channels and failed calls, together
    None

ASSUME LearningAssumption ==
    /\ IsFiniteSet(Handlers) /\ IsFiniteSet(Contents)
    /\ OwnCard \in Contents /\ None \notin Contents \cup Row \cup Nat
    /\ Dates = 1 .. Bound + 1
    /\ Touched \in [Attempts -> SUBSET Contents]
    /\ Limit \in Nat \ {0} /\ Horizon \in Nat \ {0}
    /\ Bound \in Nat

\* The days from today; the last takes the overflow.
Days == 0 .. Horizon - 1
LastDay == Horizon - 1

(***************************************************************************)
(* A message in flight.  owned: its channel is still open, so that an ack  *)
(* reaches the broker.  copy is the row it will write, fresh that there    *)
(* was none; todo is what is left to put on the schedule.  For the card at *)
(* hand: room is the days it has read as free and not yet lost, day the    *)
(* day it took.  stale is history: the row was written since it was read.  *)
(***************************************************************************)
Pc == {"idle", "load", "save", "cards", "incr", "decr", "insert", "mark", "ack"}
Handler == [pc : Pc, event : Nat, owned : BOOLEAN,
            copy : Row, fresh : BOOLEAN, stale : BOOLEAN,
            todo : SUBSET Contents, card : Contents \cup {None},
            room : SUBSET Days, day : Days]
Idle == [pc |-> "idle", event |-> 0, owned |-> FALSE,
         copy |-> NewProgress, fresh |-> FALSE, stale |-> FALSE,
         todo |-> {}, card |-> None, room |-> {}, day |-> 0]

Request == [pc : {"idle", "save"}, copy : Row, stale : BOOLEAN]
NoRequest == [pc |-> "idle", copy |-> NewProgress, stale |-> FALSE]

VARIABLES
    sent,        \* the events the engine publishes, in order
    queue,       \* those that have not been handed over
    processed,   \* those with a row in processed_events
    progress,    \* the progress row, None while there is none
    cards,       \* the day each card was first put on, None while there is no card
    taken,       \* Redis: new cards counted on each day
    handler,
    request,
    faults,
    failedOpen,  \* history: claims that went on without Redis
    recorded,    \* history: the events the row was written for
    cut,         \* history: handlers cut off before they had marked their event
    overwritten, \* history: a stale row was written
    questioned   \* history: a teacher has questioned the completion

deliveries == <<sent, queue, processed>>
schedule == <<cards, taken>>
record == <<progress, recorded, overwritten, questioned>>
trouble == <<faults, failedOpen, cut>>
vars == <<deliveries, schedule, record, trouble, handler, request>>

EventOf(h) == sent[handler[h].event]

-----------------------------------------------------------------------------
(* The engine: what it publishes about an attempt, in this order.  Nothing  *)
(* the consumer does reaches it, so what it will publish is chosen at the  *)
(* start: an event not published yet is one still in the queue.  Attempts  *)
(* are numbered in the order in which the engine first speaks of them.     *)

Said(story, a) == {story[i] : i \in {j \in DOMAIN story : story[j].attempt = a}}

\* An event is dated by the moment it is published, but for work that was
\* done offline, before everything else, and for a model's verdict that counts
\* at the term, which has the date of the work.
Online(story) == Len(story) + 2
Offline == 1
AtTerm(said, e) == e.by = "ai" /\ \E f \in said : f.by = "check" /\ f.at = e.at

MayFollow(story, e) ==
    LET said == Said(story, e.attempt) IN
    \/ /\ e \in HandIn /\ e.at \in {Offline, Online(story)}
       /\ said = {} /\ \A a \in Attempts : a < e.attempt => Said(story, a) # {}
    \/ /\ e \in Verdict /\ said # {} /\ \A f \in said : f.outcome = "submitted"
       /\ e.at = Online(story) \/ AtTerm(said, e)
    \/ /\ e \in Revision /\ e.at = Online(story)
       /\ \E f \in said : AtTerm(said, f)
       /\ \A f \in said : ~f.revises

Publishes(story) ==
    \A i \in DOMAIN story : MayFollow(SubSeq(story, 1, i - 1), story[i])

-----------------------------------------------------------------------------
(* The consumer, one action per await.                                     *)

At(h, pc) == handler[h].pc = pc

Goto(h, pc) == handler' = [handler EXCEPT ![h].pc = pc]

\* The message is acknowledged, or refused without being queued again.
Finish(h) == handler' = [handler EXCEPT ![h] = Idle]

\* Mutant: an event is not looked up.
Deliver_Unchecked(h) ==
    /\ At(h, "idle") /\ queue # {}
    /\ queue' = queue \ {Min(queue)}
    /\ handler' = [handler EXCEPT ![h] =
           [Idle EXCEPT !.pc = "load", !.event = Min(queue), !.owned = TRUE]]
    /\ UNCHANGED <<sent, processed, schedule, record, trouble, request>>

\* A message begins with a look at the processed events.
Deliver(h) ==
    /\ At(h, "idle") /\ queue # {}
    /\ queue' = queue \ {Min(queue)}
    /\ handler' = [handler EXCEPT ![h] =
           IF Min(queue) \in processed THEN Idle
           ELSE [Idle EXCEPT !.pc = "load", !.event = Min(queue), !.owned = TRUE]]
    /\ UNCHANGED <<sent, processed, schedule, record, trouble, request>>

\* What comes after progress: a revision stops there, and work nobody has
\* judged only brings the card of the exercise.
ToSchedule(e) ==
    IF e.revises THEN {}
    ELSE IF e.outcome = "submitted" THEN Touched[e.attempt] \cap {OwnCard}
    ELSE Touched[e.attempt]

LoadProgress(h) ==
    LET e == EventOf(h)
        row == IF progress = None THEN NewProgress ELSE progress
        next == [handler[h] EXCEPT !.todo = ToSchedule(e)]
    IN  /\ At(h, "load")
        /\ handler' = [handler EXCEPT ![h] =
               IF Changes(row, e)
               THEN [next EXCEPT !.pc = "save", !.copy = Apply(row, e),
                                 !.fresh = progress = None]
               ELSE [next EXCEPT !.pc = "cards"]]
        /\ UNCHANGED <<deliveries, schedule, record, trouble, request>>

\* A write of the row makes every other copy of it stale.
Outdate(hold) ==
    [k \in DOMAIN hold |->
        IF hold[k].pc = "save" THEN [hold[k] EXCEPT !.stale = TRUE] ELSE hold[k]]

WriteRow(task) ==
    /\ progress' = task.copy
    /\ overwritten' = (overwritten \/ task.stale)

\* The upsert names the row by its id: a second first row meets the unique
\* key, and the message is refused.
SaveProgress(h) ==
    LET task == handler[h] IN
    /\ At(h, "save")
    /\ IF task.fresh /\ progress # None
       THEN Finish(h) /\ UNCHANGED <<record, request>>
       ELSE /\ WriteRow(task)
            /\ recorded' = recorded \cup {task.event}
            /\ handler' = Outdate([handler EXCEPT ![h] =
                   [@ EXCEPT !.pc = "cards", !.copy = NewProgress, !.fresh = FALSE,
                             !.stale = FALSE]])
            /\ request' = Outdate(request)
            /\ UNCHANGED questioned
    /\ UNCHANGED <<deliveries, schedule, trouble>>

\* A card that is there is only rated; a new one needs a day, and the
\* counters of the whole horizon are read at once.
NextCard(h) ==
    /\ At(h, "cards")
    /\ IF handler[h].todo = {}
       THEN Goto(h, "mark")
       ELSE \E k \in handler[h].todo :
              handler' = [handler EXCEPT ![h] =
                  IF cards[k] # None
                  THEN [handler[h] EXCEPT !.todo = @ \ {k}]
                  ELSE [handler[h] EXCEPT !.pc = "incr", !.todo = @ \ {k}, !.card = k,
                           !.room = {d \in Days : taken[d] < Limit} \cup {LastDay}]]
    /\ UNCHANGED <<deliveries, schedule, record, trouble, request>>

\* Mutant: a day read as free is taken on the strength of the read.
TakeDay_AsRead(h) ==
    LET day == Min(handler[h].room) IN
    /\ At(h, "incr")
    /\ taken' = [taken EXCEPT ![day] = @ + 1]
    /\ handler' = [handler EXCEPT ![h].pc = "insert", ![h].day = day, ![h].room = {}]
    /\ UNCHANGED <<deliveries, cards, record, trouble, request>>

TakeDay(h) ==
    LET day == Min(handler[h].room) IN
    /\ At(h, "incr")
    /\ taken' = [taken EXCEPT ![day] = @ + 1]
    /\ handler' = [handler EXCEPT ![h] =
           IF taken[day] < Limit \/ day = LastDay
           THEN [handler[h] EXCEPT !.pc = "insert", !.day = day, !.room = {}]
           ELSE [handler[h] EXCEPT !.pc = "decr", !.room = @ \ {day}, !.day = day]]
    /\ UNCHANGED <<deliveries, cards, record, trouble, request>>

\* Mutant: the place is given back where the walk goes on.
GiveBack_NextDay(h) ==
    /\ At(h, "decr")
    /\ taken' = [taken EXCEPT ![Min(handler[h].room)] = @ - 1]
    /\ Goto(h, "incr")
    /\ UNCHANGED <<deliveries, cards, record, trouble, request>>

\* Another claim had taken the last place of the day.
GiveBack(h) ==
    /\ At(h, "decr")
    /\ taken' = [taken EXCEPT ![handler[h].day] = @ - 1]
    /\ Goto(h, "incr")
    /\ UNCHANGED <<deliveries, cards, record, trouble, request>>

\* Without Redis there is no budget; the change asked for may have been made.
FailOpen(h) ==
    LET incr == At(h, "incr")
        day == IF incr THEN Min(handler[h].room) ELSE handler[h].day
    IN  /\ handler[h].pc \in {"incr", "decr"}
        /\ Len(sent) + faults < Bound
        /\ faults' = faults + 1
        /\ failedOpen' = failedOpen + 1
        /\ taken' \in {taken, [taken EXCEPT ![day] = IF incr THEN @ + 1 ELSE @ - 1]}
        /\ handler' = [handler EXCEPT ![h].pc = "insert", ![h].day = 0, ![h].room = {}]
        /\ UNCHANGED <<deliveries, cards, record, cut, request>>

\* A second first card meets the unique key, and the message is refused.
InsertCard(h) ==
    /\ At(h, "insert")
    /\ IF cards[handler[h].card] # None
       THEN Finish(h) /\ UNCHANGED cards
       ELSE /\ cards' = [cards EXCEPT ![handler[h].card] = handler[h].day]
            /\ handler' = [handler EXCEPT ![h].pc = "cards", ![h].card = None,
                                          ![h].day = 0]
    /\ UNCHANGED <<deliveries, taken, record, trouble, request>>

\* An event marked meanwhile meets the key of its own row.
MarkProcessed(h) ==
    /\ At(h, "mark")
    /\ IF handler[h].event \in processed THEN Finish(h) ELSE Goto(h, "ack")
    /\ processed' = processed \cup {handler[h].event}
    /\ UNCHANGED <<sent, queue, schedule, record, trouble, request>>

Ack(h) ==
    /\ At(h, "ack")
    /\ Finish(h)
    /\ UNCHANGED <<deliveries, schedule, record, trouble, request>>

-----------------------------------------------------------------------------
(* A teacher's request.                                                    *)

LoadForTeacher(q) ==
    /\ request[q].pc = "idle" /\ progress # None
    /\ \E row \in {MarkNeedsReview(r) : r \in {x \in {progress} : CanMarkNeedsReview(x)}}
             \cup {ResolveReview(progress, approved) :
                      approved \in IF CanResolveReview(progress) THEN BOOLEAN ELSE {}} :
         request' = [request EXCEPT ![q] = [NoRequest EXCEPT !.pc = "save", !.copy = row]]
    /\ UNCHANGED <<deliveries, schedule, record, trouble, handler>>

SaveForTeacher(q) ==
    /\ request[q].pc = "save"
    /\ WriteRow(request[q])
    /\ questioned' = TRUE
    /\ handler' = Outdate(handler)
    /\ request' = Outdate([request EXCEPT ![q] = NoRequest])
    /\ UNCHANGED <<deliveries, schedule, trouble, recorded>>

-----------------------------------------------------------------------------
(* What goes wrong.                                                        *)

Owned == {h \in Handlers : handler[h].owned}

\* What is not acknowledged is queued again.
Redeliver ==
    /\ Len(sent) + faults < Bound
    /\ faults' = faults + 1
    /\ queue' = queue \cup {handler[h].event : h \in Owned}
    /\ cut' = cut + Cardinality({h \in Owned : handler[h].event \notin processed})
    /\ UNCHANGED <<sent, processed, schedule, record, failedOpen>>

Crash ==
    /\ \E h \in Handlers : ~At(h, "idle")
    /\ Redeliver
    /\ handler' = [h \in Handlers |-> Idle]
    /\ request' = [q \in Requests |-> NoRequest]

\* The connection is replaced: the handlers go on, and their messages come
\* again beside them.
LoseChannel ==
    /\ Owned # {}
    /\ Redeliver
    /\ handler' = [h \in Handlers |-> [handler[h] EXCEPT !.owned = FALSE]]
    /\ UNCHANGED request

\* A call to the database or the outbox throws: the message is refused.
CallFails(h) ==
    /\ handler[h].pc \notin {"idle", "incr", "decr"}
    /\ Len(sent) + faults < Bound
    /\ faults' = faults + 1
    /\ Finish(h)
    /\ UNCHANGED <<deliveries, schedule, record, failedOpen, cut, request>>

-----------------------------------------------------------------------------
Init ==
    /\ \E n \in 1 .. Bound : sent \in {story \in [1 .. n -> Event] : Publishes(story)}
    /\ queue = DOMAIN sent /\ processed = {}
    /\ progress = None
    /\ cards = [k \in Contents |-> None]
    /\ taken = [d \in Days |-> 0]
    /\ handler = [h \in Handlers |-> Idle]
    /\ request = [q \in Requests |-> NoRequest]
    /\ faults = 0 /\ failedOpen = 0 /\ cut = 0
    /\ recorded = {} /\ overwritten = FALSE /\ questioned = FALSE

OnEvent(h) == Deliver(h) \/ LoadProgress(h) \/ SaveProgress(h)
              \/ MarkProcessed(h) \/ Ack(h) \/ CallFails(h)
OnCard(h) == NextCard(h) \/ TakeDay(h) \/ GiveBack(h) \/ FailOpen(h)
             \/ InsertCard(h)
OnRequest(q) == LoadForTeacher(q) \/ SaveForTeacher(q)

Next ==
    \/ Crash \/ LoseChannel
    \/ \E h \in Handlers : OnEvent(h) \/ OnCard(h)
    \/ \E q \in Requests : OnRequest(q)

Spec == Init /\ [][Next]_vars

-----------------------------------------------------------------------------
(* Properties.                                                             *)

TypeOK ==
    /\ sent \in Seq(Event)
    /\ queue \subseteq DOMAIN sent /\ processed \subseteq DOMAIN sent
    /\ progress \in Row \cup {None}
    /\ cards \in [Contents -> Days \cup {None}]
    /\ taken \in [Days -> Nat]
    /\ handler \in [Handlers -> Handler]
    /\ request \in [Requests -> Request]
    /\ faults \in Nat /\ failedOpen \in Nat /\ cut \in Nat
    /\ recorded \subseteq DOMAIN sent
    /\ overwritten \in BOOLEAN /\ questioned \in BOOLEAN

(***************************************************************************)
(* "Two introductions racing for a day's last slot cannot both get it"     *)
(* (redis-srs-limits-policy): a day never brings more new cards than the   *)
(* limit, however many handlers claim places at once, lose races, are cut  *)
(* off or give back, but for claims that went on without Redis and for the *)
(* last day of the horizon, which takes the overflow.                      *)
(***************************************************************************)
DayNotOverbooked ==
    \A d \in 0 .. Horizon - 2 :
        Cardinality({k \in Contents : cards[k] = d}) <= Limit + failedOpen

(***************************************************************************)
(* An event counts once, by its row in processed_events: the number of     *)
(* attempts exceeds the attempts there were only by handlers cut off       *)
(* between their work and that row, and falls short of them only once a    *)
(* stale row has been written.                                             *)
(***************************************************************************)
AttemptsOf(row) == IF row = None THEN 0 ELSE row.attempts
Counted == {i \in recorded : IsAttempt(sent[i])}
CountExplained ==
    /\ AttemptsOf(progress) <= Cardinality(Counted) + cut
    /\ ~overwritten => Cardinality(Counted) <= AttemptsOf(progress)

(***************************************************************************)
(* "A pass by a person or the machine check, on this attempt or another,   *)
(* stands" (user-progress.entity), whatever else is judged, sent back or   *)
(* revised, in whatever order it arrives, until a teacher questions the    *)
(* completion, as long as no stale row is written.                         *)
(***************************************************************************)
Passes(e) == e.outcome = "passed" /\ e.by # "ai"
HumanPassStands ==
    /\ ~overwritten /\ ~questioned
    /\ \E i \in recorded : Passes(sent[i])
    => progress.status = "COMPLETED" /\ ~progress.byAi

(***************************************************************************)
(* "An attempt made earlier and arriving later keeps neither its score nor *)
(* its time" (user-progress.entity.spec): in whatever order events arrive, *)
(* the score is that of the latest, as long as no stale row is written and *)
(* no teacher has approved what a model's verdict had closed.              *)
(***************************************************************************)
ScoreIsLatest ==
    /\ ~overwritten
    /\ \A i \in recorded : ~sent[i].revises
    => \A i \in Counted :
           /\ sent[i].outcome # "submitted"
           /\ \A j \in Counted : sent[j].at <= sent[i].at
           => progress.score = sent[i].at

=============================================================================

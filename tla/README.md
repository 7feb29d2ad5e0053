# Verification of ssz-platform

TLA+ models of the parts of ssz-platform where the order of events decides
whether the platform keeps its word, TLC runs over small instances of them, and
TLAPS proofs for every instance.

ssz-platform is a language-learning platform: eleven NestJS services and one
.NET service, each with its own database, talking over HTTP and over topic
exchanges of one RabbitMQ broker.

## Inventory

| part | state | operations | talks to |
|---|---|---|---|
| **exercise-engine** | attempts, AI drafts beside them, probes, cached definitions | start, autosave, board moves, hand in, reveal, abandon; review, batch approve, claim, release; put a model's draft or review, give up, dispute, accept at the term; sweep a deleted exercise | content (definitions), organization (school, review policy), ai-service; publishes attempt events |
| **ai-service** | projected entitlements, counters of credits, call ledger, spool, model registry | decide on a call, run it, record it, charge it, reconcile; review drafts, direct reviews, tutors | hears `routed_for_review` and account snapshots; reads and writes exercise-engine over HTTP |
| **learning** | progress, spaced-repetition cards, day counters, enrollments, assignments | record an attempt, a return, a revision; introduce and rate a card; due reminders | hears attempt, content and organization events; publishes through an outbox |
| **subscription** | accounts, plans, grants, entitlement snapshots | assign, cancel, grant, refresh | read by ai-service and others |
| **content** | containers and versions, exercises, vocabulary, shares | author, publish, share | publishes through an outbox |
| **organization** | schools with their rosters, invitations, enrolments, groups, tutoring, review policies | invite, accept, apply, approve, place into a group, remove, archive, set policy | publishes through an outbox |
| **scheduling** | slots, absences, substitutions | plan, substitute, review blocks | publishes through an outbox |
| **media** | assets, processing jobs | upload, process, expire | read by exercise-engine |
| **analytics** | archived events, projections | project | hears everything |
| **notification**, **user-profile**, **auth** | letters, profiles, accounts and refresh tokens | send; edit; sign in, rotate | |
| **packages/messaging** | outbox rows | poll, publish, mark, abandon after the counted tries | used by ai, subscription, scheduling, learning, organization, content |
| **packages/contracts, shared-kernel** | none | event shapes; pure checks of documents and answers | used by all |

Six paths carry the platform's word from the moment something happens to the
moment everyone agrees that it did.

1. An attempt is started, resumed or joined in **exercise-engine**, and swept
   when its exercise is deleted.
2. It is handed in and judged there.
3. What was judged is recorded by **learning**: progress, and cards on a
   schedule.
4. An event stored in a service's outbox is brought to the broker by the relay
   of **messaging**; a change of an account in **subscription** reaches
   **ai-service** that way.
5. **ai-service** lets a paid call through, records it in its ledger and charges
   the payer's counter.
6. Somebody is invited to a school or applies to it in **organization**, is taken
   on, and is placed into a group.

The core is the *attempt*: the only record of what a learner handed in, the
thing four kinds of judges write to (the machine, a model, the school's term, a
teacher), and the source of every event the rest of the platform counts and
remembers by. Its hard part is that nothing serialises those judges. A handler
loads the whole row, changes the entity in memory, writes the whole row back,
and publishes the entity's events one at a time; the write is an upsert with
neither a version nor a lock. Between any two awaits another handler may load,
write or die. learning-service keeps its progress rows in the same way, behind a
channel that hands over ten messages at a time, and organization-service writes a
school back with its whole roster, whatever the command was about; there one
request also runs another inside itself, and any of its writes may be the last.

The outbox, the accounts and the ledger are written with more care: single
conditional statements or transactions that check what they rely on. There the
hard part is what happens between those writes: flushes that overlap because a
timer does not wait for them, jobs in several processes, locks that lapse,
answers that get lost, and messages that arrive late, twice, in another order
or not at all.

What makes each part correct:

* **attempt** - saved before published; one verdict that counts, rated once; a
  teacher's verdict stands; the columns agree; the budget of checks ends work;
* **start** - a reload never starts over beside open work; the loser of a race
  answers with the winner; a sitting beyond the author's limit is not dealt to
  someone who found the limit reached all along; a deleted exercise keeps no
  open attempts;
* **AI drafts** - a review behind every verdict; a retry finishes what a crash
  cut off; a dispute is counted once;
* **learning** - an event delivered twice counts once; what a person passed
  stands; the score is the latest; a day is not overbooked with new cards;
* **messaging** - an event stored is delivered at least once, or given up only
  after the counted tries; no row holds up the others for ever;
* **subscription** - at most one open subscription; every change announced; a
  snapshot is what the rows of its revision say, and is replaced when its time
  has passed;
* **ai-service's projection** - the row never goes back; a call that asked is
  decided on an answer no older than its question;
* **ai-service's meter** - a call that was paid for leaves a row; the allowance
  is overshot only by calls under way; the counter is never ahead of what was
  used without a reason, and catches up when it fell behind; the spool empties;
* **organization** - an invitation is used up, an enrolment admitted and a
  placement active only when what they stand for was written before; a save of
  the school takes away nobody it did not mean to remove and resets nothing it
  does not carry.

## Modules

| module | models |
|---|---|
| `Attempt` | the `Attempt` entity: a row of `attempts`, and each method as a guard (`Can...`), the row it leaves and the events it raises. No variables. |
| `AttemptReview` | the command handlers of exercise-engine on one attempt, and the two draft rows beside it. |
| `ReviewPromise` | abstract: what a graded piece of work may go through, and by whose verdict memory is rated. |
| `AttemptOpening` | how attempts at one exercise come to be: starts, the cache of definitions, the index, requests on stored attempts, and the consumer of the exercise's deletion. |
| `Progress` | the `UserProgress` entity of learning-service: each method as the row it leaves. No variables. |
| `LearningProgress` | learning's consumer of attempt events, the claim of a day for a new card, teachers' requests on progress. |
| `OutboxRelay` | the relay of `packages/messaging`: overlapping flushes, several processes, a broker that refuses and loses, a database that fails. |
| `SnapshotSource` | abstract: what subscription-service promises about one payer's entitlements. |
| `BillingAccounts` | one account: commands, grants, the refresh job and the publish job. Implements `SnapshotSource`. |
| `EntitlementProjection` | ai-service's copy: consumer, conditional save, reader. Extends `SnapshotSource` as its environment. |
| `CallLedger` | how the row of a model call reaches the ledger: recorder, spool, drainers under a lock, dead letters. |
| `MeteredCalls` | the gate, the counter, the charge and the reconciler over `CallLedger`. |
| `SchoolRoster` | one school of organization-service: its roster, invitations, enrolment rows and a group, under overlapping requests that may stop anywhere. |
| `AttemptReview_proofs`, `OutboxRelay_proofs`, `BillingAccounts_proofs`, `EntitlementProjection_proofs`, `MeteredCalls_proofs`, `AttemptOpening_proofs`, `LearningProgress_proofs`, `SchoolRoster_proofs` | invariants of these, proved. |
| `MCAttemptReview`, `MCAttemptOpening`, `MCLearningProgress`, `MCEntitlementProjection`, `MCSchoolRoster` | instances and symmetry for TLC. The others need none. |

How they fit together: `AttemptReview` uses the entity `Attempt` and is compared
with `ReviewPromise`; `LearningProgress` uses `Progress` and hears what an
engine may publish, in any order the entity allows; `SnapshotSource` is the
joint between two services: `BillingAccounts` is shown to implement it, and
`EntitlementProjection` is checked and proved against everything it allows, so
neither has to be run inside the other; `MeteredCalls` composes the gate and the
reconciler with the recorder and the drainers of `CallLedger`, which is also run
and proved by itself.

### How the state corresponds to the code

**AttemptReview**

* `row` is the stored attempt. `verdict` stands for the reviewer, the time, the
  comment and the decisions, which only `deliver()` writes, together; `score`
  for score, passed and scoredAt; each names the judgement it comes from.
  `answer` numbers the hand-ins: the code keeps no such number and no guard
  reads it, only properties do.
* `drafts` are the rows of `attempt_ai_drafts` per capability. A template has
  one learner's review capability (`review_direct`, or `voice_review` for a
  reading), called `review_direct` here.
* `calls` are the calls in flight: which handler, what it does next (`pc`), the
  copies it loaded, the events it has not published yet. One action is one
  await: the load with everything computed from it, each further read, each
  write, each message. `Crash` ends a call anywhere; it is also a write or a
  publish that throws.
* `asked` is what a paid model call answered and the hand-in it was shown
  (ai-service's memory). `PutAiReview` may be sent any number of times per
  call: the first write, its retry, a late duplicate.
* `published`, `repeated` and `stored` are history: what was told to the
  exchange, what was told twice, which judgements the row has carried.

Each handler's guard in `AttemptReview` is its chain of early returns; a refused
call changes nothing and is not a step. Permissions, validation of the payload
and the computation of a score are left out: any outcome is possible. Content
and organization being unreachable is a refused call. A submission ends in one
of the ways the code has: scored, kept open, routed (with or without a policy),
or closed without a reviewer.

**AttemptOpening.** `rows` is the list of one learner's attempts at one exercise,
oldest first, each reduced to what the next start can tell: its status, whether
its table is open, whether work lives on it, whether it was handed in, and which
sitting it deals. `start` is what each start holds between two awaits: the draw
of the phone's journal, the attempt asked for by name, the open board it found,
whether it is on its second pass. `Store` meets the partial unique index. `edit`
is a request that loaded a stored attempt and will write the whole copy back.
`sweep` is the message of the deletion and the copies its consumer read; a throw
dead-letters it, a crash delivers it again. `cached` says that Redis may hold the
definition: it ages out at any time, so a reader may miss it all the same.
`beside`, `rivals`, `room` and `late` are history.

**LearningProgress.** What the engine publishes is one story chosen at the start
(`sent`): attempts handed in, judged, revised, each event with the date the
engine gives it, of work done online or offline. `queue`, `handler` and
`processed` are the queue, the messages in flight with what each holds between
two awaits, and `processed_events`. `progress` is the row; its score is the date
of the event it came with. `cards` and `taken` are the days new cards were put
on and Redis's counters; `TakeDay` and `GiveBack` are INCR and the DECR of a
claim that lost its day. A channel that is lost leaves its handlers running and
delivers their messages again (`owned`). `recorded`, `cut`, `overwritten`,
`questioned` and `failedOpen` are history.

**OutboxRelay.** `outbox` is the table, a row named by its place in the order of
`created_at`; `flush` is what one run of `flush()` holds between two awaits: the
rows still to handle, and their `attempts` as they were fetched, which is what
the limit is tested against. `broker` counts the copies the broker has taken.
The broker and the channel wrapper are not in the repository and are modelled
as the relay meets them: a publish resolves, rejects, or is sent again after a
reconnect, and a rejected one may have been taken all the same. Each write has
the branch in which it fails. The store is that of subscription-service; the
other services have the same statements.

**BillingAccounts.** `acct`, `subs` and `grants` are the rows; `outbox` is what
was announced. `call` is what a command or a job holds: the revision and the
open rows it read, the time it took, the row it is about to insert. A write and
its revision bump are one transaction and one action. `past` records the rows of
every revision; no action reads it. A trial and an active subscription are both
"open", since nothing here tells them apart; what a plan contains is left out,
the snapshot says which rows it was resolved from. `find()` makes two queries
without a transaction; the model reads once, because a row newer than the
revision only makes the save lose its claim. Checks made before the load (who
may hold which plan) only refuse. The consumer that creates an account for a new
payer sends `OpenAccount`; it is that command here.

**EntitlementProjection.** `row` is the row of `ai_payer_entitlements`; `task` is
a message or a call under way. `save()` is three statements (update where older,
insert unless there, update again), each an action. A reader keeps the time of
its check and the revision of the account when it asked; the latter is for the
properties only. A moment past the bound of the clock is `MaxTime + 1`.

**CallLedger.** `rows` are the calls with a row in `ai_calls` (an insert of a row
that is there succeeds), `spool` and `dead` the two lists in Redis, `lock` the
holder of the drainers' lock. `record` is how far the recorder is with a call
and how many tries of the database it has made; `drain` what a drainer holds:
the batch it read and how many entries it is done with. `db` and `redis` say
whether the store answers; a write whose answer is lost took effect. `logged` is
history: rows given up with nothing but a log line. `Overrun` says whether a
batch may take longer than the lock lives.

**MeteredCalls.** `counter` is one payer's counter for one agent and period, or
`Missing`; `gate` what a call holds: the ledger's sum it would start the counter
with, whether it was metered, what it cost; `rec` and `recLock` the reconcilers
and their lock. A call whose counter cannot be read goes through unmetered.
`summed` and `twice` are history: the calls whose row was in the sum the counter
was last set to, and those of them charged on top.

**SchoolRoster.** `roster` are the rows of `school_members` (status and `extras`
are what the aggregate does not carry), `deleted` is the school's `deletedAt`,
`invites` the invitations, `rows` the enrolments (`school_memberships`) in the
order of their creation, `seat` the rows of one group. `req` is what a request
holds between two statements: the command, the roster it loaded (`copy`, `gone`),
the enrolment it read (`row`), where it is (`at`). What a command reads before
its first write is one step; every write, and every read after a write, is a step
of its own. `AddInside` and `CheckRoster` are the commands an approval and an
assignment run inside themselves, with their own load of the school. `Fail` ends
a request anywhere: a crash, a database that refuses, a profile service that does
not answer. `joined` is history: everyone a save ever put on the roster.

A definition `X_Y` is `X` with a defect `Y`; nothing uses it. Such a definition
stands beside `X` to check that a property would notice the defect.

## Runs

In the attempt's runs the constant `Runs` says which handlers may be in flight in
which slot. One slot for everything is the service asked one thing at a time
(with crashes between any two of its awaits); two slots are two requests in
flight, which is what the deployed service meets. `review_serial_school` gives
the second slot to a second press of dispute only; what two slots do to the rest is
the question of the failing runs.

| run | question | answer |
|---|---|---|
| `review_serial_school` | graded and practice work, at a school or not, one call at a time but for a second press of dispute: does the code keep the promise of its doc comments? | yes: graded work refines `ReviewPromise`, memory rated once, a review behind every verdict, teacher's verdict final, the term yields to an open card, no event before its save, one dispute counted, the budget holds, the columns agree |
| `recheck_closed_by_old_verdict` | does the term close what the learner has been reading? | no, see below |
| `stale_claim_undoes_verdict` | is a claim only a soft marker? | no |
| `attempt_opening` | two starts of one exercise, two requests on its attempts and its deletion, at every await | open work is never started over, the limit is not passed by who saw it reached, the loser finds the winner, a deletion that was processed left nothing in progress but what was written after it read |
| `learning_progress` | two messages in flight, a teacher's request, redelivery, crashes, Redis failing | a day is not overbooked, the count is explained, a person's pass stands, the score is the latest |
| `relay_settles` | a second flush started over the first, two rows the broker always refuses filling the batch, one fault | nothing lost; past the limit only by flushes under way; every extra copy has a cause; every row leaves (liveness) |
| `accounts_announced` | two commands, the refresh job, publish jobs of two processes, one cut off: is a snapshot what its revision says, is every change announced and every snapshot replaced in time? | yes; a timeline of subscriptions, implements `SnapshotSource` (liveness under fair jobs) |
| `projection_writers` | two messages in any order, repeated or failing, beside a call at the gate | what was acknowledged stays in force, the row never goes back, a call that asked is decided on what it asked for or newer |
| `metered_calls` | two calls, one with a row the database refuses, two drainers, the reconciler, two outages, crashes or lost answers | no row vanishes, the allowance holds but for calls under way, the counter is explained and catches up, the spool empties (liveness) |
| `spool_batch_outlives_lock` | do two drainers never consume the same entries? | no |
| `school_roster` | two requests at a time on a school, five in all, any of them stopping anywhere: does what says accepted, admitted or active have the member and the seat behind it? | yes; and no save resets what the aggregate does not carry |
| `roster_save_drops_newcomer` | does a save remove only what the aggregate dropped? | no |

`AtSchool = TRUE` includes the learner without a school: exercise-engine may
learn the school at the hand-in, later, or never.

### Bounds

*Attempt.* Two teachers and two model calls (one of each in the failing runs),
two hand-ins, a clock of one tick with a term and a claim of one: enough for a
claim to be taken, to lapse and to be taken over, and for the term to fall while the
card is open and while it is not. A budget of one check is used up by the first hand-in, so the
run has the refusal of a recheck and not what follows one that is granted;
`recheck_closed_by_old_verdict` has that, and the theorems about the budget, the
columns and the events hold for every budget. A second slot for dispute is enough
for two presses that pass the same read. The branch in which the term job finds
the work no longer in review needs a second handler that decides it; a passing
run cannot have one, since the other handler's stale write breaks the promise
first, and the theorems cover it. Teachers and calls are interchangeable (symmetry).

*Opening.* `Requests` bounds the starts and with them the rows: two make the
race to the index and its second pass. Two requests in flight let one finish what
another has loaded. One draw of the phone meets a sitting dealt by the server,
or itself. A limit of one sitting is reached by the first hand-in. The template
is chosen at the start, so one run covers the four kinds of exercise.

*Learning.* `Bound` caps events and faults together: three events and no fault,
two and one, one and two. Two attempts with four dates give every order in which
work, verdicts and a revision can be dated and arrive. One attempt is about the
exercise's card, the other about a gap's; one new card a day and a horizon of two
days make the second card lose its day. Two handlers race each other and run
beside the repetition of a message; the channel's ten add nothing that two
copies of one row cannot show.

*Relay.* `Timers` is the number of flushes one process may have under way. The
code has no such bound (a flush per second for as long as the broker is slow);
two are enough for one to act on what the other has overtaken, and the theorems
hold for any finite number. Three rows and a batch of two let a row fall outside
the batch; a limit of one try is reached and passed. Two processes differ from
two timers of one only in what a crash or a lost connection takes with it.
`MaxFaults` bounds failed writes, crashes and lost connections; refusals by the
broker are not faults and are not bounded.

*Accounts.* Two commands that race, the refresh job, and publishers that overtake
each other; a clock of one tick with a credit period of one lets a subscription
and a grant start, run out and be refreshed. `Calls` are sent once each, so they
also bound the history. `MaxFaults` bounds commands and ticks cut off half way.

*Projection.* One change of the account gives two revisions; two messages and a
reader give every race of two saves beside a third.

*Metered calls.* Two calls race through the gate, and an allowance of one credit,
which is what a call costs, is used up by the first. Two tries of the database
let a row be written at the second and reach the spool. Two drainers contend for
the lock and a batch of two holds the good row and the refused one. Two faults:
a store away when the row is written, and a second thing gone wrong while it
waits in the spool. `MaxFaults` also bounds the losses of the counter.

*School.* Two people, two requests in flight, one invitation and two enrolment rows;
a behaviour begins five commands (`MaxCommands`): the longest chain a property
speaks of (apply, approve, finish the onboarding, assign) and one beside it. Two
requests suffice for a stale save. The failing run needs two commands and is given three.
The same five commands with three requests in flight add interleavings of three
saves, each of which still writes one copy over what it finds; the theorems hold
for any number.

Deadlock is not checked: scored, abandoned and closed work, an empty outbox with
everything stored, calls that are over, a school whose last command is done, and
the end of the clock are where the systems stop.

### What the failing runs show

* **recheck_closed_by_old_verdict.** `reopenForRecheck` resets neither the
  provisional verdict nor the policy. A practice attempt the validator scored
  the second time is fine; one routed the second time still carries the verdict
  on the first hand-in, no model may answer it again (`DRAFT_DECIDED`), and the
  term delivers that verdict on work it never read.
* **stale_claim_undoes_verdict.** `save` writes every column, so the smallest
  write (a claim) undoes the largest. The same stale write breaks other promises
  that hold one call at a time, with other handlers in the two slots: an autosave
  in flight over a hand-in reopens a graded attempt; a teacher's review loaded
  before the term job wrote is saved after it and rates the memory again
  (`MemoryRatedOnce`: `saveIfInReview` protects the teacher from the job, not the
  job from the teacher). And the job reads the claim when it loads the row while
  its write checks the status only, so a claim saved in between does not hold the
  work (`TermYieldsToOpenCard`).
* **spool_batch_outlives_lock.** The lock of the spool lives 60 seconds, whether
  the batch of fifty writes under it is done or not, and `LTRIM` goes by a number
  and not by the entries. A second drainer then consumes and trims the same head,
  and the first one's trim takes away rows that were appended meanwhile and that
  nobody has written. With batches that end in time (`Overrun = FALSE`) no row
  vanishes: `metered_calls`, and a theorem for every instance.

* **roster_save_drops_newcomer.** `school.prisma.repository.ts` deletes every member
  the saved copy does not name, and its comment says "removing only what it
  dropped". An aggregate loaded before somebody joined never held that person, so
  an edit of the school's name, saved after, removes them, and the cascade takes
  their grants and attributes along. The same save brings back who was removed
  meanwhile and clears `deletedAt`. Columns the aggregate does not carry survive
  (`OwnColumnsSurvive`), which is the other half of what the comment is about.

### Differences between the code and what is said of it, without a run

*Relay and projection.* `maxAttempts` is the maximum of counted tries, not of
deliveries: each flush tests the count it fetched, so a row the broker is slow to
confirm is sent by every flush that saw it below the limit
(`AttemptsWithinOverlap` and `CopiesAccounted` say what holds). An event dropped
after its retry does not leave the row "missing or stale": an older row stays in
force until its own `validUntil`. A reader that finds its row stale asks, and if
its answer loses to another row it uses that one without looking at its time.

*Starting.* A board checked between `findOpenBoard` and `findInProgress` is seen
by neither, so a reload starts over (`beside` counts what was there in one form
all along). A start that loses the race twice is thrown out. The sitting limit is
passed by starts and hand-ins in flight. A start in flight when the exercise is
deleted stores its attempt afterwards, and a definition put in Redis after the
invalidation is served until it ages out. The consumer's `saveAll` writes back
whole rows: a hand-in stored meanwhile becomes ABANDONED; a check in flight can
in turn put an abandoned attempt back in progress. Two requests at once on one
attempt lose one of their updates.

*Learning.* `user-progress.entity.ts:110,192` and its test ("does not take the
score of an older attempt over a newer one") speak of the order of attempts; the
engine dates a verdict by the moment it was given (`attempt.entity.ts:1442,1493`),
so a verdict or a revision on an older attempt, given after a newer attempt, takes
the newer one's score. A model's pass that a teacher questioned, that the machine
then passed too, and that the teacher approved, is undone by a revision of the
model's verdict: the machine's pass was not recorded while it was questioned. A
question resolved against the learner leaves `completedAt`, so a later pass by a
model alone is not marked as one. The first row, or the first card, written by
two handlers at once violates a unique key: the event is dropped with half its
work done. A crash between the work and `processed_events` counts the attempt
twice. A stale write of the whole row undoes a pass.

*School.* An applicant who was rejected and is then invited keeps the rejected row:
`accept-invitation` takes the newest row and no step leads out of `rejected`, so the
learner stands on the roster without an enrolment, although its comment (lines
141-143) says the membership is created or activated, and `EnrollmentApprovedEvent`
is published for the rejected row. A request that stops after the invitation was
marked accepted leaves a member without an enrolment, and accepting again is
refused. An invitation marked EXPIRED and sent again stays EXPIRED, so its new link
is refused; since the token lapses a moment before the invitation does, only an
acceptance under way at that moment gets there. The look for a pending invitation
and the insert are two statements without an index behind them: two requests may
invite one person twice. `school.entity.ts:326-330` says that neither of the two
review settings can break their order; each is checked against the other as loaded
and saved alone, so two saves at once can.

*Meter.* A call charged after the counter was set to a sum with its row in it is
counted twice until the period ends (`CounterExplained` bounds it).

## Proofs

Each module `X_proofs` extends `X`. The proofs do not need the bounds of the
runs: bounds are constants there like any other.

### Attempt

`AttemptReview_proofs` proves, for every set of slots, handlers in flight,
teachers, model calls and bounds:

| theorem | says |
|---|---|
| `CopiesInFlightAreSound` | `IInv` is an invariant |
| `TypeCorrect` | `TypeOK` |
| `EventsFollowTheSave` | `SavedBeforePublished`: no event about a judgement before a save of that judgement |
| `RowStaysWellFormed` | `RowWellFormed`: the columns of the row agree |
| `BudgetHolds` | `ChecksWithinBudget` |
| `DisputesCountOnce` | `DisputeCountedOnce` |
| `SignedVerdictsStand` | `TeacherVerdictStands`, if `OneAtATime` |
| `TheTermYields` | `TermYieldsToOpenCard`, if `OneAtATime` |
| `TheReviewIsBehind` | `ReviewBehindVerdict`, if `OneAtATime` |
| `TheMemoryIsRatedOnce` | `MemoryRatedOnce`, if `OneAtATime` and `NoRecheck` |
| `ThePromiseHolds` | `PromiseKept`, the refinement of `ReviewPromise`, if `OneAtATime` and `NoRecheck` |

They assume `AttemptAssumption`, `NullAssumption` and `RowAssumption` (judges, the
empty column, a missing draft and a missing answer are distinct from each other) and
`ReviewAssumption` (the constants' types; a budget, if any, is at least one check).

None of the invariants is inductive: `SaveAttempt` writes a copy loaded any
number of steps earlier, so what holds of the row must hold of every copy that
may still be written. `IInv` says

* `Sound` of the row and of each call's copy: `WellFormed`, no judgement on
  graded work in progress, and checks within the budget. Each entity method is
  shown to take sound rows to sound rows (`DeliverSound`, `RouteSound`, ...).
* `Traced`: each event a call still has to publish is about a judgement already
  stored or, before its save, on the copy it is about to store. A handler that
  published first would break this at its first step.
* `Placed`: what a call relies on at its `pc`, e.g. that a give-up waiting for
  its read holds a copy of schoolless work, that an update of a draft has a row
  to update, that a model's write has an answer behind it.

One lemma (`CallStep`) says that a step of one call does not disturb what the
others rely on; each action then needs only its own call.

`DisputeInv` adds what a dispute rests on. `MarkDisputed` is one conditional
UPDATE, so the column is set by one call only; nothing clears it: an UPDATE of a
draft leaves it alone (`Rewritten`), a draft inserted is refused beside one that
is there, and one built to be inserted is undisputed (`NewDraftsUndisputed`). A
call that has a dispute to tell is therefore the only one, and while it has, nobody
has told (`OneTells`). All other steps are `Quiet`.

The last five are false of handlers that overlap: no write of the row is
conditional, and `stale_claim_undoes_verdict` shows a verdict lost that way. Their
premise `OneAtATime` is about the constant `Runs` and holds of the run
`review_serial_school`: apart from presses of dispute, whatever their number, at
most one slot takes requests. Crashes between any two steps, retries, the clock and the
model's answers are as free as ever, and so is the order of requests. What one at a
time buys is `SerialInv`: until it writes the row, a handler holds what its entity
method makes of the row as it stands (`AtWork`, `Moves`); from then on it holds the
row as it wrote it. `Moves` names what a method may do to a row (`HandsIn`,
`ModelRules`, `TermDelivers`, ...), so a property of a write is a property of seven
relations between two rows. `Answered` adds that a review that is ready was
answered. Upon these, together `WorkInv`:

* A method that delivers refuses a row with a delivered verdict, and the term
  refuses a row under a claim, so two action properties follow of each step.
* `BehindInv`: the direct review belongs to the call whose verdict is on the row
  or is about to be written. A review is replaced only while the row carries no
  verdict of a model; labelling or disputing it leaves its call.
* `RateInv`: of open work nothing was stored or rated; what a saved call has yet
  to tell rates as its first event only, if nobody has rated, and in the name of
  whoever decided the row (`Due`). A write decides open work, or revises at the
  term, which does not rate, or leaves the decision as it is: this is also the step
  of `ReviewPromise` it takes, and telling the rating is `Rate`.

`NoRecheck` (only graded work, or a budget of one check) is needed for the last two.
With a second check TLC finds a model's late answer to the first hand-in, rated by a
teacher already, put on the work the second hand-in has reopened: the first
hand-in is rated twice.

### Outbox relay

`OutboxRelay_proofs` proves, for any rows, poisoned or not, any finite number of
processes and of overlapping flushes, any batch, limit and number of faults
(`RelayAssumption`):

| theorem | says |
|---|---|
| `RelayTypeCorrect` | `TypeOK` |
| `RelayLosesNothing` | `NothingLost`: a row leaves the table delivered, or after the limit was counted |
| `RelayCountBounded` | `AttemptsWithinOverlap` |
| `RelayInvariant` | the inductive invariants behind them |

`NothingLost` rests on two facts about flushes, neither true of the row alone:
the count a flush goes by is one the row has had (`SeenIsPast`: counts only
grow), and a flush that heard of a confirmation heard of a copy the broker has
(`TakenIsTaken`). The bound on the count needs more: once a row has reached the
limit, only flushes that fetched it below the limit can still count a failure,
and each does so once. `OverlapBound` says that the count plus the number of
these flushes (`Stale`) stays below the limit plus all flushes; every count
beyond the limit takes its flush out of that set.

`RelayCopiesAccounted` (`CopiesAccounted`) bounds the copies at the broker, and
needs to say who answers for each of them while it is under way (`CopiesAnswered`):
a failure that was counted, a fault (which pays for every flush of one process), or
a flush of its own. A flush answers while it holds a copy it has neither marked nor
counted; and once the row is marked, every flush past it answers, for none of them
can fetch it again. A mark that fails is a fault.

### Accounts

`BillingAccounts_proofs` proves, for any commands, processes and times:
`NeverTwoOpen` (`OneOpenSubscription`) and `RowsAreATimeline`
(`HistoryIsATimeline`), from the invariant `CurrentCopiesAreTrue`. The code's
claim on the revision is the argument: a copy whose revision is still the
account's knows the account's rows (`KnowsRows`), so a save that wins its claim
closes exactly the rows that are open; a copy whose revision is older never
writes.

`ThePromiseIsKept` (`KeepsThePromise`) and, from it, `AccountsImplementTheSource`
(`Spec => Source!SourceSpec`) are the refinement. A snapshot is computed from rows
read together with their revision and stored any number of steps later, when both
may be old. `TrailInv` (`TheTrailIsTrue`) says that it is still the contents of a
revision at a time when that revision was current: the time is taken before the
rows are read, and every later revision starts after it. The other half is a lemma
on `nextChange`: what rows entitle to is the same at every moment until the one the
snapshot names (`Until`), which takes in the end of the credit period, whatever its
length. `AccountTypeCorrect` is `TypeOK`.

### Projection

`EntitlementProjection_proofs` proves `ProjectionTypeCorrect`, `AckedStaysInForce`
(`AckedIsHeld`), `RowNeverGoesBack` (`RowMovesForward`) and `ReadThroughNeverLags`
(`ReadThroughIsCurrent`) for any number of handlers and readers and any source
that `SnapshotSource` allows. `supersedes` is shown to be a total preorder in
which the row only moves up; the invariant says what each of the three statements
of a save may rely on: after the insert there is a row, and when the save ends
the row supersedes what it brought.

### Ledger

`MeteredCalls_proofs` proves `NoRowVanishes`, of the ledger by itself
(`LedgerKeepsRows`) and under the gateway and the reconciler
(`MeteredRowsKept`), for any calls, processes, batches, tries, costs and faults,
assuming only that no batch outlasts its lock (`~Overrun`); the run
`spool_batch_outlives_lock` shows that the assumption is needed. The trim goes by
a number, so the argument is that the number still means the same entries:
`HolderOnly` (whoever is at anything has the lock), hence nobody else trims, and
recorders only append; so the batch in hand is still the head of the spool
(`BatchIsHead`), what is done with lies within it (`WithinBatch`) and has been
written or parked (`WorkDone`). The step from the ledger to the whole is that
every step of `MeteredCalls` is a step of the ledger or leaves it alone but for
the count of faults (`StepIsOfLedger`).

The quota is proved from `QuotaInv`, for any finite set of calls (`QuotaAssumption`)
and any costs, limit, reconcilers and faults:

| theorem | says |
|---|---|
| `QuotaTypeCorrect` | `TypeOK` |
| `CounterIsExplained` | `CounterExplained` |
| `TheAllowanceHolds` | `AllowanceHolds` |

From above (`CounterBounded`), the counter holds at most what the calls in the sum
it was set to, or over since, cost, and again what those in `twice` cost, which are
over. A sum read before the counter is set is no more than its rows cost
(`SumsInHand`), because a call costs nothing before the model (`FreeAtFirst`) and
its cost stays. From below, as long as nothing failed (`Untroubled`), no call goes
through before the counter is started and no charge is lost, so the counter holds
at least what the calls that are over cost; the gate reads it and refuses.
`Credits` is a fold of the library, defined by recursion on sets. The library's
induction cannot be cited, so what the sums need (that there is such a function,
that the order of adding up does not matter, that a larger set costs no less) is
proved from the least size of a counterexample (`SmallerSetsFirst`).

### Starting

`AttemptOpening_proofs` proves every property of the run, for any starts,
requests, draws and limit (`OpeningAssumption`): `OpeningTypeCorrect` (`TypeOK`),
`DeletionSweeps` (`DeletedIsSwept`), `NothingLeftBeside`
(`NoFreshStartBesideWork`), `LimitWasNotReached` (`SittingsWithinLimit`) and
`TwoRivalsOrNoLoss` (`LoserFindsWinner`). `Typed` adds to the types that a request
in flight holds an attempt that is stored. `SweepInv` follows the deletion: what is
in progress was read by the sweep or written since, until the write, and written
since from then on; the event is not marked while the sweep is before its write.
`Pending` is said of each start by itself: what it has not found was not there
when it looked and came to be since (`Alone`, which is why a refusal by the index
costs a rival, and two passes cost two), what it counted left room, and a second
pass has met a rival. `PendingBeside` says that nobody else's step disturbs it.

### Learning

`LearningProgress_proofs` proves every property of the run, for any finite set of
handlers and of new cards, any requests, stories, limit and horizon
(`LearningAssumption`: the marker for a missing row or card is none of them):

| theorem | says |
|---|---|
| `TypeCorrect` | `TypeOK`, with no counter of a day below zero |
| `NoDayIsOverbooked` | `DayNotOverbooked` |
| `APassStands` | `HumanPassStands` |
| `TheScoreIsTheLatest` | `ScoreIsLatest` |
| `TheCountIsExplained` | `CountExplained` |

* `IInv`: what a handler holds fits its place (`AllFit`), and the places being given
  back were counted (`GivesBackItsOwn`), which keeps DECR above zero.
* `DayInv`: a day's cards, the handlers about to place one on it and those giving a
  place back are all covered by its counter, but for the claims that went on
  without Redis; a place on a day is filled only from a count within the limit.
* `CopyInv`: a copy about to be saved that nobody has overtaken (`stale`) is the
  stored row with the event, or the teacher's request, applied. So every write not
  marked stale is `EventWritten` or `TeacherWrites`, and `PassInv` and `AttemptInv`
  need only be shown of these two, on the entity's methods.
* `CountInv`: an attempt may be counted once for each event known of (counted, due
  again, or in hand), and again for each handler cut off. `Budget` is that minus what
  is still due and in hand; row and copies stay within it, and no step lowers
  the budget.

### School

`SchoolRoster_proofs` proves, for any people, requests, invitations and bounds
(`RosterAssumption`):

| theorem | says |
|---|---|
| `RosterTypeCorrect` | `TypeOK` |
| `AcceptedStoodOnRoster` | `AcceptedHasJoined` |
| `AdmittedStoodOnRoster` | `AdmittedHasJoined` |
| `SeatedStoodOnRoster` | `SeatedHasJoined`: nobody was seated who never stood on the roster |
| `ActiveWasSeated` | `ActiveHasSeat` |
| `OwnColumns` | `OwnColumnsSurvive` |

Members can be removed, and by a stale save unintentionally, so the invariants are
about having stood on the roster (`joined`), which only grows. What a request
will write was read any number of steps earlier; `Fits` says, for each place a
request may be in, what it relies on: an acceptance past its save is of somebody
who joined, an enrolment held in memory is backed by a row of the same person and
carries `active` only with a seat. `Grows` collects what every step leaves true of
the tables (rows keep their owner, a seat once taken stays past or active, an
invitation keeps its guest), and one lemma shows that under `Grows` what fits a
request goes on fitting it (`AllFit`), so each action needs only its own request.
`RowsEnrolled` is the part about rows; since an upsert writes the status it holds,
it has to be said of rows and of copies alike.

### Only model-checked

Every invariant, action property and refinement of the passing runs is a theorem,
under the premises named above. What is left to TLC, since `ENABLED` and fairness are
beyond the prover:

* **All liveness:** `Settled`, `EveryChangeIsAnnounced`,
  `NoSnapshotOutlivesItsTime`, `CounterCatchesUp`, `SpoolSettles`.

## Fairness and liveness

*Relay.* `WF_vars(Step(f))` for every flush: the timer keeps firing, the
database answers, and the broker answers each publish one way or the other (the
channel wrapper resolves or rejects). Nothing says that the broker ever takes a
message: `Settled` holds because a row is given up, and it is about leaving the
table, not about delivery.

*Accounts.* The clock ticks and each kind of job keeps firing (`WF`); nothing is
asked of the people who send commands. A tick of a job or a command may be cut
off, finitely often.

*Metered calls.* A call in hand goes on, each process's drainer and reconciler
keep firing, a store that went away comes back, and a lock nobody works under
lapses, each `WF`. Outages and crashes are bounded by `MaxFaults`: after the last
one nothing is asked of the stores but to answer. `SpoolSettles` and
`CounterCatchesUp` say that it ends well however the faults fall.

*Attempt, starting, learning, projection and school.* No liveness is stated. On its own
an attempt owes nobody progress: work waits for a teacher as long as the teacher
likes. A message that fails is dead-lettered or dropped, so learning owes no
event its effect, and a request on a school that stops half-way is taken up by
nobody. A projected row owes no progress either: the gate asks when it
is stale.

## Not modelled

* **Attempt:** probes, and the hand-in's validators: the models keep only which
  of the four ways a hand-in can end.
* **Starting:** the review context, atoms, axes and placement a start copies; the
  projection it deals; draws of any template but minimal pairs; budgets of rows,
  picks and self-checks of boards. SCORED stands for every end of a hand-in, and
  a recheck of a scored practice attempt leaves it scored. `startedAt` is the
  order of storing; two attempts stored in the order opposite to their times
  would only change which board counts as the newest. The cache is one key, and
  filling it and reading it for a check is one step.
* **Learning:** ratings and the schedule they give (FSRS), the daily limit of
  reviews, shadow, seeded and suspended cards, bulk introduction, pruning, probes,
  work dated more than thirty days back, midnight, lessons' progress posted by
  clients, and the other consumers (assignments, enrollments, can-do). By reading:
  a second rating of a card before its held first return pulls the card back to
  today, and a pruned gap card is created again by a review in flight.
* **ai-service:** which model a call is routed to, circuit breakers and providers;
  payers without a meter; the roll-over of a period and Redis losing everything at
  once; the content of a row; ioredis sending a command again. The worker of
  direct reviews is in `AttemptReview` only as that service meets it; by reading,
  a redelivery that finds a stored ready review without a verdict gives up, is
  refused with `REVIEW_EXISTS`, and leaves self-study work in review.
* **Subscription:** the contents of plans and the propagation of a plan's new
  version.
* **Organization:** groups themselves (teachers, materials, archive, publication),
  transfers between groups, a student's level, a teacher's attributes, review and
  onboarding settings, profiles synchronised into the roster, solo workspaces; and
  tutoring, whose group and invitations are written like the school's, with smaller
  aggregates. The events a command publishes after its writes are left out: none of
  the modelled commands hears them.
* **content, scheduling, media, analytics, notification, user-profile, auth:**
  create-read-update over rows that one request owns, rules over intervals, or I/O.
  Nothing in them is decided by an order of events that the modelled parts do not
  show already, but for the publication of versions in content and the rotation of
  refresh tokens in auth, which would be next.
* **contracts, shared-kernel, infrastructure, user interfaces, generated
  clients, seeds:** no behaviour of that kind.

---------------------------- MODULE AttemptOpening ----------------------------
(***************************************************************************)
(* exercise-engine-service: how an attempt comes to be.  One learner and   *)
(* one exercise; the starts of the learner's tabs, of retried requests and *)
(* of a phone that replays its journal; what the learner then does with    *)
(* the attempt, as far as the next start can tell; and the consumer that   *)
(* abandons the work when content-service deletes the exercise.            *)
(*                                                                         *)
(* A start looks for an open attempt, asks content-service for the         *)
(* definition, and only then stores a new one: every lookup and every      *)
(* write is an action of its own.  The one rule the database holds is the  *)
(* partial unique index over attempts in progress.                         *)
(***************************************************************************)
EXTENDS Integers, Sequences, FiniteSets

CONSTANTS
    Requests,    \* the starts anyone ever sends
    Edits,       \* slots for requests on a stored attempt in flight
    PhoneDraws,  \* sittings dealt by the phone with no network
    Allowed,     \* sittings the author allows, 0 for any number
    Null

ASSUME OpeningAssumption ==
    /\ IsFiniteSet(Requests) /\ Requests # {}
    /\ Allowed \in Nat
    /\ Null \notin PhoneDraws

(***************************************************************************)
(* What a start makes of an open attempt depends on the exercise.  plain:  *)
(* the work is in the browser until it is handed in; set: questions or     *)
(* sentences are checked one by one on the attempt; board: the whole is    *)
(* scored by its first check and may be checked again while the table is   *)
(* open; pairs: a drawn sitting of minimal_pairs.                          *)
(***************************************************************************)
Template == {"plain", "set", "board", "pairs"}

VARIABLES
    template,   \* what the exercise is
    rows,       \* the stored attempts, oldest first
    start,      \* the starts
    edit,       \* the requests on a stored attempt in flight
    deleted,    \* content-service has deleted the exercise
    cached,     \* Redis may hold the exercise's definition
    sweep,      \* its event at the consumer
    processed,  \* the processed_events row of that event
    beside,     \* history: what was open, in one form, since a start arrived
    rivals,     \* history: how often an attempt came to be in progress since
                \* a start arrived, counted up to two
    room,       \* history: the starts since whose arrival the limit has not been
                \* reached all the time
    late        \* history: rows written in progress since the sweep read

past == <<beside, rivals, room>>

vars == <<template, rows, start, edit, deleted, cached, sweep, processed,
          past, late>>

consumer == <<sweep, processed>>
definition == <<deleted, cached>>

-----------------------------------------------------------------------------
(* The rows.                                                               *)

\* SCORED stands for every end of a hand-in.  open: the last check left the table
\* open; work: something was checked on it; handed: submittedAt is set.
Attempt == [status : {"IN_PROGRESS", "SCORED", "ABANDONED"}, open : BOOLEAN,
            work : BOOLEAN, handed : BOOLEAN, draw : PhoneDraws \cup {Null, "dealt"}]

Create(draw) == [status |-> "IN_PROGRESS", open |-> FALSE, work |-> FALSE,
                 handed |-> FALSE, draw |-> draw]

InProgress(stored) == {id \in DOMAIN stored : stored[id].status = "IN_PROGRESS"}

Settled(stored) == DOMAIN stored \ InProgress(stored)

IsOpenBoard(att) == att.status = "SCORED" /\ att.open

\* findOpenBoard: the newest attempt that is not in progress, if its table is open.
OpenBoard(stored) ==
    {id \in Settled(stored) : /\ \A other \in Settled(stored) : other <= id
                              /\ IsOpenBoard(stored[id])}

\* The index: at most one row of the learner and the exercise in progress.
Violates(id, att) == att.status = "IN_PROGRESS" /\ InProgress(rows) \ {id} # {}

CountSubmitted(stored) == Cardinality({id \in DOMAIN stored : stored[id].handed})

\* Mutant.
Spent_OffByOne(stored) == Allowed > 0 /\ CountSubmitted(stored) > Allowed

Spent(stored) == Allowed > 0 /\ CountSubmitted(stored) >= Allowed

\* What a start could have found from its arrival on.
Held(stored) == {<<id, "in progress">> : id \in InProgress(stored)}
                \cup {<<id, "board">> : id \in OpenBoard(stored)}

Ended == {"answered", "lost"}
Unspent(stored) == Allowed = 0 \/ CountSubmitted(stored) < Allowed

InFlight == {r \in Requests : start[r].pc \notin {"idle"} \cup Ended}

WriteRows(stored) ==
    /\ rows' = stored
    /\ rivals' = IF InProgress(stored) \subseteq InProgress(rows) THEN rivals
                 ELSE [r \in Requests |->
                         IF r \in InFlight /\ rivals[r] < 2 THEN rivals[r] + 1 ELSE rivals[r]]
    /\ beside' = [r \in Requests |-> beside[r] \cap Held(stored)]
    /\ room' = IF Unspent(stored) THEN room \cup InFlight ELSE room

WrittenInProgress(id, att) ==
    late' = IF deleted /\ att.status = "IN_PROGRESS" THEN late \cup {id} ELSE late

-----------------------------------------------------------------------------
(* Starting an attempt.                                                    *)

NotSent == [pc |-> "idle", draw |-> Null, join |-> 0, board |-> 0, again |-> FALSE, id |-> 0]

Goto(r, pc) == start' = [start EXCEPT ![r].pc = pc] /\ UNCHANGED past

End(r, how) ==
    /\ start' = [start EXCEPT ![r] = [NotSent EXCEPT !.pc = how]]
    /\ beside' = [beside EXCEPT ![r] = {}]
    /\ rivals' = [rivals EXCEPT ![r] = 0]
    /\ room' = room \ {r}

\* draw: a sitting the phone dealt, of minimal_pairs (with any other exercise it
\* is refused).  join: an attempt the caller was told about and asks for by name.
Arrive(r) ==
    /\ start[r].pc = "idle"
    /\ \E draw \in (IF template = "pairs" THEN PhoneDraws ELSE {}) \cup {Null},
          join \in {0} \cup InProgress(rows) :
         start' = [start EXCEPT ![r] = [NotSent EXCEPT !.pc = "board", !.draw = draw,
                                          !.join = join]]
    /\ beside' = [beside EXCEPT ![r] = Held(rows)]
    /\ room' = IF Unspent(rows) THEN room \cup {r} ELSE room
    /\ UNCHANGED <<rivals, template, rows, edit, definition, consumer, late>>

\* Mutant: only attempts in progress are looked for.
FindOpenBoard_Skipped(r) ==
    /\ start[r].pc = "board"
    /\ start' = [start EXCEPT ![r].pc = "open"]
    /\ UNCHANGED <<template, rows, edit, definition, consumer, past, late>>

FindOpenBoard(r) ==
    /\ start[r].pc = "board"
    /\ start' = [start EXCEPT ![r].pc = "open",
                   ![r].board = IF OpenBoard(rows) = {} THEN 0
                                ELSE CHOOSE id \in OpenBoard(rows) : TRUE]
    /\ UNCHANGED <<template, rows, edit, definition, consumer, past, late>>

\* board ?? findInProgress
Existing(r) ==
    IF start[r].board # 0 THEN start[r].board
    ELSE IF InProgress(rows) = {} THEN 0
    ELSE CHOOSE id \in InProgress(rows) : TRUE

\* Work lives on the attempt, or the caller asks for it by name.
Resumes(r, id) ==
    \/ rows[id].work \/ rows[id].draw # Null
    \/ start[r].board = id \/ start[r].join = id

\* What is open decides, and the definition is fetched for whoever goes on.
FindInProgress(r) ==
    LET id == Existing(r)
        draw == start[r].draw
    IN  /\ start[r].pc = "open"
        /\ IF id # 0 /\ draw # Null /\ rows[id].draw # draw
           THEN End(r, "answered")
           ELSE IF id # 0 /\ ~Resumes(r, id) THEN End(r, "answered")
           ELSE /\ start' = [start EXCEPT ![r].pc = "fetch", ![r].id = id]
                /\ UNCHANGED past
        /\ UNCHANGED <<template, rows, edit, definition, consumer, late>>

GoOn(r) ==
    IF start[r].id # 0 THEN End(r, "answered")
    ELSE IF template = "pairs" THEN Goto(r, "count")
    ELSE Goto(r, "save")

\* A copy in Redis is served as it is, if it has not aged out; content-service
\* has none of an exercise it has deleted.
FetchDefinition(r) ==
    /\ start[r].pc = "fetch"
    /\ \/ cached /\ GoOn(r)
       \/ ~deleted /\ Goto(r, "remember")
       \/ deleted /\ End(r, "answered")
    /\ UNCHANGED <<template, rows, edit, definition, consumer, late>>

Remember(r) ==
    /\ start[r].pc = "remember"
    /\ cached' = TRUE
    /\ GoOn(r)
    /\ UNCHANGED <<template, rows, edit, deleted, consumer, late>>

\* prepareSitting, for minimal_pairs.
PrepareSitting(r) ==
    /\ start[r].pc = "count"
    /\ IF Spent(rows) THEN End(r, "answered") ELSE Goto(r, "save")
    /\ UNCHANGED <<template, rows, edit, definition, consumer, late>>

DrawOf(r) ==
    IF template # "pairs" THEN Null
    ELSE IF start[r].draw # Null THEN start[r].draw ELSE "dealt"

\* Mutant: no second pass.
LosesRace_GivesUp(r) == End(r, "lost")

\* The first lost race is a second pass; the second one is thrown.
LosesRace(r) ==
    IF start[r].again THEN End(r, "lost")
    ELSE /\ start' = [start EXCEPT ![r].pc = "board", ![r].board = 0, ![r].again = TRUE]
         /\ UNCHANGED past

Store(r) ==
    LET id == Len(rows) + 1
        att == Create(DrawOf(r))
    IN  /\ start[r].pc = "save"
        /\ IF Violates(id, att)
           THEN LosesRace(r) /\ UNCHANGED <<rows, late>>
           ELSE /\ WriteRows(Append(rows, att))
                /\ WrittenInProgress(id, att)
                /\ start' = [start EXCEPT ![r].pc = "publish", ![r].id = id]
        /\ UNCHANGED <<template, edit, definition, consumer>>

\* The started event goes out; what the exchange is told is not kept.
PublishStarted(r) ==
    /\ start[r].pc = "publish"
    /\ End(r, "answered")
    /\ UNCHANGED <<template, rows, edit, definition, consumer, late>>

\* The process dies, or a call to a store or a service throws.
StartFails(r) ==
    /\ r \in InFlight
    /\ End(r, "answered")
    /\ UNCHANGED <<template, rows, edit, definition, consumer, late>>

-----------------------------------------------------------------------------
(* The learner on a stored attempt: load the row, change the copy, write   *)
(* the whole row back.                                                     *)

NoEdit == [id |-> 0, att |-> Null]

Load(e, id, att) ==
    /\ edit[e].id = 0
    /\ edit' = [edit EXCEPT ![e] = [id |-> id, att |-> att]]
    /\ UNCHANGED <<template, rows, start, deleted, consumer, past, late>>

\* A check is scored against the definition, fetched as in a start.
Check(e, id, att) == (cached \/ ~deleted) /\ cached' = TRUE /\ Load(e, id, att)

\* A question answered, a sentence checked or revealed, a probe picked.
CheckItem(e) ==
    /\ template \in {"set", "pairs"}
    /\ \E id \in InProgress(rows) : Check(e, id, [rows[id] EXCEPT !.work = TRUE])

SubmitAnswer(e) ==
    /\ template # "board"
    /\ \E id \in InProgress(rows) :
         Check(e, id, [rows[id] EXCEPT !.status = "SCORED", !.handed = TRUE])

\* Every check of a board is a submit: it is scored, and open or closed.
CheckBoard(e) ==
    /\ template = "board"
    /\ \E id \in DOMAIN rows, open \in BOOLEAN :
         /\ rows[id].status = "IN_PROGRESS" \/ IsOpenBoard(rows[id])
         /\ Check(e, id, [rows[id] EXCEPT !.status = "SCORED", !.handed = TRUE, !.open = open])

AbandonAttempt(e) ==
    /\ \E id \in InProgress(rows) : Load(e, id, [rows[id] EXCEPT !.status = "ABANDONED"])
    /\ UNCHANGED cached

\* Refused by the index, the request ends in an error.
Save(e) ==
    LET id == edit[e].id
        att == edit[e].att
    IN  /\ id # 0
        /\ IF Violates(id, att)
           THEN UNCHANGED <<rows, past, late>>
           ELSE WriteRows([rows EXCEPT ![id] = att]) /\ WrittenInProgress(id, att)
        /\ edit' = [edit EXCEPT ![e] = NoEdit]
        /\ UNCHANGED <<template, start, definition, consumer>>

-----------------------------------------------------------------------------
(* content.exercise.deleted                                                *)

DeleteExercise ==
    /\ ~deleted
    /\ deleted' = TRUE
    /\ sweep' = [sweep EXCEPT !.pc = "queued"]
    /\ UNCHANGED <<template, rows, start, edit, cached, processed, past, late>>

\* handleMessage: an event seen before is acknowledged; else the cache forgets.
SweepForget ==
    /\ sweep.pc = "queued"
    /\ IF processed
       THEN sweep' = [sweep EXCEPT !.pc = "acked"] /\ UNCHANGED cached
       ELSE /\ sweep' = [sweep EXCEPT !.pc = "read"]
            /\ cached' = FALSE
    /\ UNCHANGED <<template, rows, start, edit, deleted, processed, past, late>>

SweepRead ==
    /\ sweep.pc = "read"
    /\ sweep' = [pc |-> "write",
                 read |-> {[id |-> id, att |-> [rows[id] EXCEPT !.status = "ABANDONED"]] :
                           id \in InProgress(rows)}]
    /\ late' = {}
    /\ UNCHANGED <<template, rows, start, edit, definition, processed, past>>

\* saveAll: the copies, as they were read.
SweepWrite ==
    /\ sweep.pc = "write"
    /\ WriteRows([id \in DOMAIN rows |->
                    IF \E copy \in sweep.read : copy.id = id
                    THEN (CHOOSE copy \in sweep.read : copy.id = id).att
                    ELSE rows[id]])
    /\ sweep' = [pc |-> "mark", read |-> {}]
    /\ UNCHANGED <<template, start, edit, definition, processed, late>>

\* Mutant: the event is marked first and the work done after.
SweepMark_First ==
    /\ sweep.pc = "write" /\ ~processed
    /\ processed' = TRUE
    /\ UNCHANGED <<template, rows, start, edit, definition, sweep, past, late>>

SweepMark ==
    /\ sweep.pc = "mark"
    /\ processed' = TRUE
    /\ sweep' = [sweep EXCEPT !.pc = "ack"]
    /\ UNCHANGED <<template, rows, start, edit, definition, past, late>>

SweepAck ==
    /\ sweep.pc = "ack"
    /\ sweep' = [sweep EXCEPT !.pc = "acked"]
    /\ UNCHANGED <<template, rows, start, edit, definition, processed, past, late>>

\* The process dies and the message is delivered again, or something throws
\* and it is dead-lettered.
SweepFails ==
    /\ sweep.pc \in {"read", "write", "mark", "ack"}
    /\ sweep' \in {[pc |-> pc, read |-> {}] : pc \in {"queued", "dead"}}
    /\ UNCHANGED <<template, rows, start, edit, definition, processed, past, late>>

-----------------------------------------------------------------------------
Init ==
    /\ template \in Template
    /\ rows = <<>>
    /\ start = [r \in Requests |-> NotSent]
    /\ edit = [e \in Edits |-> NoEdit]
    /\ deleted = FALSE /\ cached = FALSE
    /\ sweep = [pc |-> "none", read |-> {}]
    /\ processed = FALSE
    /\ beside = [r \in Requests |-> {}] /\ rivals = [r \in Requests |-> 0] /\ room = {}
    /\ late = {}

StartAttempt(r) == Arrive(r) \/ FindOpenBoard(r) \/ FindInProgress(r) \/ FetchDefinition(r)
                   \/ Remember(r) \/ PrepareSitting(r) \/ Store(r) \/ PublishStarted(r) \/ StartFails(r)
Edit(e) == CheckItem(e) \/ SubmitAnswer(e) \/ CheckBoard(e) \/ AbandonAttempt(e) \/ Save(e)
Sweep == SweepForget \/ SweepRead \/ SweepWrite \/ SweepMark \/ SweepAck \/ SweepFails

Next ==
    \/ \E r \in Requests : StartAttempt(r)
    \/ \E e \in Edits : Edit(e)
    \/ DeleteExercise
    \/ Sweep

Spec == Init /\ [][Next]_vars

-----------------------------------------------------------------------------
(* Properties.                                                             *)

StartRecord == [pc : {"idle", "board", "open", "fetch", "remember", "count", "save", "publish"}
                     \cup Ended,
                draw : PhoneDraws \cup {Null}, join : Nat, board : Nat, again : BOOLEAN,
                id : Nat]

TypeOK ==
    /\ template \in Template
    /\ rows \in Seq(Attempt)
    /\ start \in [Requests -> StartRecord]
    /\ edit \in [Edits -> [id : Nat, att : Attempt \cup {Null}]]
    /\ {deleted, cached, processed} \subseteq BOOLEAN
    /\ sweep.pc \in {"none", "queued", "read", "write", "mark", "ack", "acked", "dead"}
    /\ sweep.read \subseteq [id : DOMAIN rows, att : Attempt]
    /\ late \subseteq DOMAIN rows

(***************************************************************************)
(* A reload never starts over beside open work: an attempt in progress, or *)
(* an open board, that was there in that form all the time since the start *)
(* arrived is what the start answers with.                                 *)
(***************************************************************************)
Creates(r) == start[r].pc = "save" /\ start'[r].id = Len(rows) + 1
NoFreshStartBesideWork == [][\A r \in Requests : Creates(r) => beside[r] = {}]_vars

(***************************************************************************)
(* The author's limit on sittings is counted in one step and the sitting   *)
(* stored in a later one: a start opens none if the limit was reached when *)
(* it arrived and at every moment since.                                   *)
(***************************************************************************)
SittingsWithinLimit ==
    [][\A r \in Requests : template = "pairs" /\ Creates(r) => r \in room]_vars

(***************************************************************************)
(* "A second pass is clean, and it finds the winner" (start-attempt        *)
(* handler): a start is thrown out by the index only if an attempt came to *)
(* be in progress twice while it ran.                                      *)
(***************************************************************************)
LoserFindsWinner ==
    [][\A r \in Requests : start'[r].pc = "lost" /\ start[r].pc = "save"
                              => rivals[r] = 2]_vars

(***************************************************************************)
(* Once the deletion counts as processed, an attempt at the exercise is    *)
(* still in progress only if a request in flight wrote it after the sweep  *)
(* had read, however often the event was delivered.                        *)
(***************************************************************************)
DeletedIsSwept == processed => InProgress(rows) \subseteq late

=============================================================================

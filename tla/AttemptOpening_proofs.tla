------------------------ MODULE AttemptOpening_proofs ------------------------
(***************************************************************************)
(* What starting an attempt guarantees for any number of starts, requests  *)
(* on stored attempts and sittings dealt offline, and any limit.           *)
(***************************************************************************)
EXTENDS AttemptOpening, FiniteSetTheorems, SequenceTheorems, TLAPS

-----------------------------------------------------------------------------
(***************************************************************************)
(* Types.  A request in flight holds an attempt; what the sweep has read   *)
(* are attempts.                                                           *)
(***************************************************************************)

SweepPc == {"none", "queued", "read", "write", "mark", "ack", "acked", "dead"}
Copy(ids) == [id : ids, att : Attempt]

RowsTyped == rows \in Seq(Attempt)
StartTyped == start \in [Requests -> StartRecord]
EditTyped ==
  /\ edit \in [Edits -> [id : Nat, att : Attempt \cup {Null}]]
  /\ \A e \in Edits : edit[e].id # 0 => /\ edit[e].id \in DOMAIN rows
                                         /\ edit[e].att \in Attempt
SweepTyped == sweep \in [pc : SweepPc, read : SUBSET Copy(DOMAIN rows)]
Flags == deleted \in BOOLEAN /\ cached \in BOOLEAN /\ processed \in BOOLEAN
PastTyped ==
  /\ beside = [r \in Requests |-> beside[r]]
  /\ rivals \in [Requests -> 0 .. 2]
  /\ room \subseteq Requests
LateTyped == late \subseteq DOMAIN rows

Typed == /\ template \in Template /\ RowsTyped /\ StartTyped /\ EditTyped /\ SweepTyped
         /\ PastTyped /\ LateTyped /\ Flags

LEMMA TypedInit == Init => Typed
<1> SUFFICES ASSUME Init PROVE Typed
  OBVIOUS
<1>1. template \in Template /\ RowsTyped /\ EditTyped
  BY DEF Init, RowsTyped, EditTyped, NoEdit
<1>2. StartTyped
  BY DEF Init, StartTyped, NotSent, StartRecord
<1>3. SweepTyped
  BY DEF Init, SweepTyped, SweepPc
<1>4. PastTyped /\ LateTyped
  BY DEF Init, PastTyped, LateTyped
<1>5. Flags
  BY Zenon DEF Init, Flags
<1>6. QED
  BY <1>1, <1>2, <1>3, <1>4, <1>5 DEF Typed

-----------------------------------------------------------------------------
(***************************************************************************)
(* Where a start goes.                                                     *)
(***************************************************************************)

\* Another start is not touched.
Others(r) == \A q \in Requests \ {r} : start'[q] = start[q]

StartPc == {"idle", "board", "open", "fetch", "remember", "count", "save", "publish"} \cup Ended

LEMMA GotoMoves ==
  ASSUME StartTyped, NEW r \in Requests, NEW pc \in StartPc, Goto(r, pc)
  PROVE  /\ StartTyped' /\ Others(r) /\ UNCHANGED past
         /\ start'[r] = [start[r] EXCEPT !.pc = pc]
BY DEF StartTyped, StartRecord, StartPc, Goto, Others

LEMMA EndMoves ==
  ASSUME StartTyped, PastTyped, NEW r \in Requests, NEW how \in Ended, End(r, how)
  PROVE  /\ StartTyped' /\ Others(r)
         /\ start'[r] = [NotSent EXCEPT !.pc = how]
         /\ beside' = [beside EXCEPT ![r] = {}]
         /\ rivals' = [rivals EXCEPT ![r] = 0]
         /\ room' = room \ {r}
<1> DEFINE rest == [NotSent EXCEPT !.pc = how]
<1>1. rest \in StartRecord
  BY DEF NotSent, StartRecord, StartPc, Ended
<1>2. start' = [start EXCEPT ![r] = rest]
  BY DEF End
<1> HIDE DEF rest
<1>3. StartTyped' /\ Others(r) /\ start'[r] = rest
  BY <1>1, <1>2 DEF StartTyped, Others
<1>4. QED
  BY <1>3, Zenon DEF End, rest

LEMMA RowTypes ==
  ASSUME RowsTyped
  PROVE  /\ DOMAIN rows = 1 .. Len(rows) /\ Len(rows) \in Nat
         /\ InProgress(rows) \subseteq DOMAIN rows
         /\ OpenBoard(rows) \subseteq DOMAIN rows
         /\ DOMAIN rows \subseteq Nat \ {0}
         /\ \A id \in DOMAIN rows : rows[id] \in Attempt
<1>1. /\ DOMAIN rows = 1 .. Len(rows) /\ Len(rows) \in Nat
      /\ \A id \in DOMAIN rows : rows[id] \in Attempt
  BY DEF RowsTyped
<1>2. DOMAIN rows \subseteq Nat \ {0}
  BY <1>1
<1>3. InProgress(rows) \subseteq DOMAIN rows
  BY DEF InProgress
<1>4. OpenBoard(rows) \subseteq DOMAIN rows
  BY DEF OpenBoard, Settled
<1>5. QED
  BY <1>1, <1>2, <1>3, <1>4

\* What a start has found is the number of an attempt, or 0.
LEMMA ExistingTyped ==
  ASSUME RowsTyped, StartTyped, NEW r \in Requests
  PROVE  /\ Existing(r) \in Nat
         /\ Existing(r) = 0 <=> start[r].board = 0 /\ InProgress(rows) = {}
<1>1. start[r].board \in Nat /\ InProgress(rows) \subseteq Nat \ {0}
  BY RowTypes DEF StartTyped, StartRecord
<1>2. InProgress(rows) # {} => (CHOOSE id \in InProgress(rows) : TRUE) \in InProgress(rows)
  OBVIOUS
<1>3. QED
  BY <1>1, <1>2 DEF Existing

\* A start that asks for the definition.
LEMMA Fetching ==
  ASSUME StartTyped, NEW r \in Requests, NEW id \in Nat,
         start' = [start EXCEPT ![r].pc = "fetch", ![r].id = id]
  PROVE  /\ StartTyped' /\ Others(r)
         /\ start'[r] = [start[r] EXCEPT !.pc = "fetch", !.id = id]
BY DEF StartTyped, StartRecord, Others

LEMMA ArriveTyped ==
  ASSUME Typed, NEW r \in Requests, Arrive(r)
  PROVE  /\ StartTyped' /\ Others(r)
         /\ start'[r].pc = "board" /\ ~start'[r].again
<1>1. PICK draw \in PhoneDraws \cup {Null}, join \in {0} \cup InProgress(rows) :
        start' = [start EXCEPT ![r] = [NotSent EXCEPT !.pc = "board", !.draw = draw,
                                                      !.join = join]]
  <2>1. \E draw \in (IF template = "pairs" THEN PhoneDraws ELSE {}) \cup {Null},
           join \in {0} \cup InProgress(rows) :
          start' = [start EXCEPT ![r] = [NotSent EXCEPT !.pc = "board", !.draw = draw,
                                                        !.join = join]]
    BY Zenon DEF Arrive
  <2>2. QED
    BY <2>1
<1> DEFINE begun == [NotSent EXCEPT !.pc = "board", !.draw = draw, !.join = join]
<1>2. join \in Nat
  BY RowTypes DEF Typed
<1>3. begun \in StartRecord /\ begun.pc = "board" /\ ~begun.again
  BY <1>2 DEF NotSent, StartRecord
<1> HIDE DEF begun
<1>4. start' = [start EXCEPT ![r] = begun]
  BY <1>1 DEF begun
<1>5. QED
  BY <1>3, <1>4 DEF Typed, StartTyped, Others

LEMMA FindOpenBoardTyped ==
  ASSUME Typed, NEW r \in Requests, FindOpenBoard(r)
  PROVE  /\ StartTyped' /\ Others(r)
         /\ start'[r].pc = "open" /\ start'[r].again = start[r].again
         /\ start'[r].board = 0 => OpenBoard(rows) = {}
<1> DEFINE found == IF OpenBoard(rows) = {} THEN 0 ELSE CHOOSE id \in OpenBoard(rows) : TRUE
<1>1. OpenBoard(rows) \subseteq Nat \ {0}
  BY RowTypes DEF Typed
<1>2. found \in Nat /\ (found = 0 => OpenBoard(rows) = {})
  BY <1>1
<1> HIDE DEF found
<1>3. start' = [start EXCEPT ![r].pc = "open", ![r].board = found]
  BY DEF FindOpenBoard, found
<1>4. QED
  BY <1>2, <1>3 DEF Typed, StartTyped, StartRecord, Others

LEMMA LosesRaceTyped ==
  ASSUME Typed, NEW r \in Requests, LosesRace(r)
  PROVE  /\ StartTyped' /\ Others(r)
         /\ start[r].again => End(r, "lost") /\ start'[r] = [NotSent EXCEPT !.pc = "lost"]
         /\ ~start[r].again => /\ start'[r] = [start[r] EXCEPT !.pc = "board", !.board = 0,
                                                               !.again = TRUE]
                               /\ UNCHANGED past
<1>1. CASE start[r].again
  BY <1>1, EndMoves DEF LosesRace, Typed, Ended
<1>2. CASE ~start[r].again
  <2>1. /\ start' = [start EXCEPT ![r].pc = "board", ![r].board = 0, ![r].again = TRUE]
        /\ UNCHANGED past
    BY <1>2, Zenon DEF LosesRace
  <2>2. StartTyped' /\ Others(r) /\ start'[r] = [start[r] EXCEPT !.pc = "board", !.board = 0,
                                                                 !.again = TRUE]
    BY <2>1 DEF Typed, StartTyped, StartRecord, Others
  <2>3. QED
    BY <1>2, <2>1, <2>2
<1>3. QED
  BY <1>1, <1>2

\* A start that has stored its attempt.
LEMMA StoringMoves ==
  ASSUME Typed, NEW r \in Requests,
         start' = [start EXCEPT ![r].pc = "publish", ![r].id = Len(rows) + 1]
  PROVE  /\ StartTyped' /\ Others(r)
         /\ start'[r] = [start[r] EXCEPT !.pc = "publish", !.id = Len(rows) + 1]
<1>1. Len(rows) + 1 \in Nat
  BY RowTypes DEF Typed
<1>2. QED
  BY <1>1 DEF Typed, StartTyped, StartRecord, Others

-----------------------------------------------------------------------------
(***************************************************************************)
(* Type correctness.                                                       *)
(***************************************************************************)

LEMMA EndTyped ==
  ASSUME Typed, NEW r \in Requests, NEW how \in Ended, End(r, how)
  PROVE  StartTyped' /\ PastTyped'
<1>1. /\ StartTyped' /\ beside' = [beside EXCEPT ![r] = {}]
      /\ rivals' = [rivals EXCEPT ![r] = 0] /\ room' = room \ {r}
  BY EndMoves DEF Typed
<1>2. rivals' \in [Requests -> 0 .. 2]
  BY <1>1 DEF Typed, PastTyped
<1>3. beside' = [q \in Requests |-> beside'[q]] /\ room' \subseteq Requests
  BY <1>1 DEF Typed, PastTyped
<1>4. QED
  BY <1>1, <1>2, <1>3 DEF PastTyped

LEMMA WriteRowsTyped ==
  ASSUME Typed, NEW stored, WriteRows(stored)
  PROVE  rows' = stored /\ PastTyped'
<1>1. rows' = stored
  BY DEF WriteRows
<1>2. rivals' \in [Requests -> 0 .. 2]
  BY DEF WriteRows, Typed, PastTyped
<1>3. beside' = [r \in Requests |-> beside'[r]]
  BY DEF WriteRows
<1>4. room' \subseteq Requests
  BY DEF WriteRows, Typed, PastTyped, InFlight
<1>5. QED
  BY <1>1, <1>2, <1>3, <1>4 DEF PastTyped

\* More rows: what was one of them still is.
LEMMA MoreRows ==
  ASSUME Typed, DOMAIN rows \subseteq DOMAIN rows'
  PROVE  /\ UNCHANGED sweep => SweepTyped'
         /\ UNCHANGED late => LateTyped'
         /\ UNCHANGED edit => EditTyped'
<1>1. UNCHANGED sweep => SweepTyped'
  BY DEF Typed, SweepTyped, Copy
<1>2. UNCHANGED late => LateTyped'
  BY DEF Typed, LateTyped
<1>3. UNCHANGED edit => EditTyped'
  BY DEF Typed, EditTyped
<1>4. QED
  BY <1>1, <1>2, <1>3

LEMMA GoOnTyped ==
  ASSUME Typed, NEW r \in Requests, GoOn(r)
  PROVE  StartTyped' /\ PastTyped'
<1>1. CASE End(r, "answered")
  BY <1>1, EndTyped DEF Ended
<1>2. CASE Goto(r, "count") \/ Goto(r, "save")
  BY <1>2, GotoMoves DEF Typed, StartPc, past, PastTyped
<1>3. QED
  BY <1>1, <1>2, Zenon DEF GoOn

LEMMA StartMoves ==
  ASSUME Typed, NEW r \in Requests, StartAttempt(r), ~Store(r)
  PROVE  StartTyped' /\ PastTyped'
<1> USE DEF Ended, StartPc
<1>1. CASE Arrive(r)
  <2>1. StartTyped'
    BY <1>1, ArriveTyped
  <2>2. PastTyped'
    BY <1>1 DEF Arrive, Typed, PastTyped
  <2>3. QED
    BY <2>1, <2>2
<1>2. CASE FindOpenBoard(r)
  BY <1>2, FindOpenBoardTyped DEF FindOpenBoard, past, Typed, PastTyped
<1>3. CASE FindInProgress(r)
  <2>1. CASE End(r, "answered")
    BY <2>1, EndTyped
  <2>2. CASE start' = [start EXCEPT ![r].pc = "fetch", ![r].id = Existing(r)] /\ UNCHANGED past
    BY <2>2, ExistingTyped, Fetching DEF Typed, past, PastTyped
  <2>3. QED
    BY <1>3, <2>1, <2>2, Zenon DEF FindInProgress
<1>4. CASE FetchDefinition(r)
  <2>1. CASE Goto(r, "remember")
    BY <2>1, GotoMoves DEF Typed, past, PastTyped
  <2>2. CASE End(r, "answered")
    BY <2>2, EndTyped
  <2>3. QED
    BY <1>4, <2>1, <2>2, GoOnTyped, Zenon DEF FetchDefinition
<1>5. CASE Remember(r)
  BY <1>5, GoOnTyped, Zenon DEF Remember
<1>6. CASE PrepareSitting(r)
  <2>1. CASE Goto(r, "save")
    BY <2>1, GotoMoves DEF Typed, past, PastTyped
  <2>2. CASE End(r, "answered")
    BY <2>2, EndTyped
  <2>3. QED
    BY <1>6, <2>1, <2>2, Zenon DEF PrepareSitting
<1>7. CASE PublishStarted(r) \/ StartFails(r)
  BY <1>7, EndTyped, Zenon DEF PublishStarted, StartFails
<1>8. QED
  BY <1>1, <1>2, <1>3, <1>4, <1>5, <1>6, <1>7, Zenon DEF StartAttempt

LEMMA NewAttempt ==
  ASSUME Typed, NEW r \in Requests
  PROVE  /\ Create(DrawOf(r)) \in Attempt
         /\ Append(rows, Create(DrawOf(r))) \in Seq(Attempt)
         /\ DOMAIN Append(rows, Create(DrawOf(r))) = DOMAIN rows \cup {Len(rows) + 1}
         /\ \A id \in DOMAIN rows : Append(rows, Create(DrawOf(r)))[id] = rows[id]
         /\ Append(rows, Create(DrawOf(r)))[Len(rows) + 1] = Create(DrawOf(r))
<1> DEFINE att == Create(DrawOf(r))
<1>1. DrawOf(r) \in PhoneDraws \cup {Null, "dealt"}
  BY DEF DrawOf, Typed, StartTyped, StartRecord
<1>2. att \in Attempt
  BY <1>1 DEF Create, Attempt
<1>3. rows \in Seq(Attempt)
  BY DEF Typed, RowsTyped
<1> HIDE DEF att
<1>4. /\ Append(rows, att) \in Seq(Attempt)
      /\ DOMAIN Append(rows, att) = DOMAIN rows \cup {Len(rows) + 1}
      /\ \A id \in DOMAIN rows : Append(rows, att)[id] = rows[id]
      /\ Append(rows, att)[Len(rows) + 1] = att
  BY <1>2, <1>3
<1>5. QED
  BY <1>2, <1>4 DEF att

LEMMA StoreTyped ==
  ASSUME Typed, NEW r \in Requests, Store(r)
  PROVE  StartTyped' /\ PastTyped' /\ RowsTyped' /\ LateTyped' /\ SweepTyped' /\ EditTyped'
<1> DEFINE id == Len(rows) + 1
           att == Create(DrawOf(r))
<1>1. CASE LosesRace(r) /\ UNCHANGED <<rows, late>>
  <2>1. StartTyped' /\ PastTyped'
    BY <1>1, LosesRaceTyped, EndTyped DEF past, Typed, PastTyped, Ended
  <2>2. QED
    BY <1>1, <2>1, MoreRows DEF Store, Typed, RowsTyped, consumer
<1>2. CASE /\ WriteRows(Append(rows, att)) /\ WrittenInProgress(id, att)
           /\ start' = [start EXCEPT ![r].pc = "publish", ![r].id = id]
  <2>1. rows' = Append(rows, att) /\ PastTyped'
    BY <1>2, WriteRowsTyped
  <2>2. StartTyped'
    BY <1>2, StoringMoves
  <2>3. rows' \in Seq(Attempt) /\ DOMAIN rows' = DOMAIN rows \cup {id}
    BY <2>1, NewAttempt
  <2>4. late' \subseteq late \cup {id}
    BY <1>2 DEF WrittenInProgress
  <2>5. UNCHANGED <<sweep, edit>>
    BY DEF Store, consumer
  <2>6. QED
    BY <2>1, <2>2, <2>3, <2>4, <2>5, MoreRows DEF RowsTyped, LateTyped, Typed
<1>3. QED
  BY <1>1, <1>2, Zenon DEF Store

\* A request on a stored attempt: what it loaded is an attempt.
LEMMA EditStep ==
  ASSUME Typed, NEW e \in Edits, Edit(e)
  PROVE  EditTyped' /\ RowsTyped' /\ PastTyped' /\ LateTyped' /\ SweepTyped' /\ StartTyped'
<1> USE DEF Attempt
<1>1. CASE \E id \in DOMAIN rows, att \in Attempt : Load(e, id, att)
  <2>1. PICK id \in DOMAIN rows, att \in Attempt : Load(e, id, att)
    BY <1>1
  <2>2. id \in Nat
    BY RowTypes DEF Typed
  <2>3. edit' = [edit EXCEPT ![e] = [id |-> id, att |-> att]]
    BY <2>1 DEF Load
  <2> HIDE DEF Attempt
  <2>5. UNCHANGED <<rows, start, sweep, beside, rivals, room, late>>
    BY <2>1 DEF Load, past, consumer
  <2>4. EditTyped'
    BY <2>2, <2>3, <2>5 DEF Typed, EditTyped
  <2>6. QED
    BY <2>4, <2>5, MoreRows DEF Typed, RowsTyped, StartTyped, PastTyped
<1>2. CASE CheckItem(e) \/ SubmitAnswer(e) \/ CheckBoard(e) \/ AbandonAttempt(e)
  <2>1. \A id \in DOMAIN rows : rows[id] \in Attempt
    BY RowTypes DEF Typed
  <2>2. ASSUME NEW id \in DOMAIN rows, NEW open \in BOOLEAN
        PROVE  /\ [rows[id] EXCEPT !.work = TRUE] \in Attempt
               /\ [rows[id] EXCEPT !.status = "SCORED", !.handed = TRUE] \in Attempt
               /\ [rows[id] EXCEPT !.status = "SCORED", !.handed = TRUE, !.open = open]
                    \in Attempt
               /\ [rows[id] EXCEPT !.status = "ABANDONED"] \in Attempt
    BY <2>1, <2>2
  <2>3. InProgress(rows) \subseteq DOMAIN rows
    BY RowTypes DEF Typed
  <2> HIDE DEF Attempt
  <2>4. CASE CheckItem(e)
    BY <2>2, <2>3, <2>4, <1>1 DEF CheckItem, Check
  <2>5. CASE SubmitAnswer(e)
    BY <2>2, <2>3, <2>5, <1>1 DEF SubmitAnswer, Check
  <2>6. CASE CheckBoard(e)
    BY <2>2, <2>3, <2>6, <1>1 DEF CheckBoard, Check
  <2>7. CASE AbandonAttempt(e)
    BY <2>2, <2>3, <2>7, <1>1 DEF AbandonAttempt
  <2>8. QED
    BY <1>2, <2>4, <2>5, <2>6, <2>7
<1>3. CASE Save(e)
  <2> DEFINE id == edit[e].id
             att == edit[e].att
  <2>1. edit' = [edit EXCEPT ![e] = NoEdit] /\ UNCHANGED <<start, sweep>>
    BY <1>3 DEF Save, consumer
  <2>2. ASSUME DOMAIN rows \subseteq DOMAIN rows'
        PROVE  EditTyped'
    <3>1. NoEdit \in [id : Nat, att : Attempt \cup {Null}] /\ NoEdit.id = 0
      BY DEF NoEdit
    <3> HIDE DEF Attempt
    <3>2. QED
      BY <2>1, <2>2, <3>1 DEF Typed, EditTyped
  <2>3. id \in DOMAIN rows /\ att \in Attempt
    BY <1>3 DEF Save, Typed, EditTyped
  <2> HIDE DEF Attempt, att
  <2>4. CASE UNCHANGED <<rows, past, late>>
    BY <2>1, <2>2, <2>4, MoreRows DEF Typed, RowsTyped, StartTyped, PastTyped, past
  <2>5. CASE WriteRows([rows EXCEPT ![id] = att]) /\ WrittenInProgress(id, att)
    <3>1. rows' = [rows EXCEPT ![id] = att] /\ PastTyped'
      BY <2>5, WriteRowsTyped
    <3>2. rows' \in Seq(Attempt) /\ DOMAIN rows' = DOMAIN rows
      BY <2>3, <3>1, ExceptSeq DEF Typed, RowsTyped
    <3>3. LateTyped'
      BY <2>3, <2>5, <3>2 DEF Typed, LateTyped, WrittenInProgress
    <3>4. QED
      BY <2>1, <2>2, <3>1, <3>2, <3>3, MoreRows DEF RowsTyped, Typed, StartTyped
  <2>6. QED
    BY <1>3, <2>4, <2>5, Zenon DEF Save, att
<1>4. QED
  BY <1>2, <1>3 DEF Edit

\* What the consumer writes back are attempts.
SweptRows == [id \in DOMAIN rows |->
                IF \E copy \in sweep.read : copy.id = id
                THEN (CHOOSE copy \in sweep.read : copy.id = id).att
                ELSE rows[id]]

LEMMA SweptTyped ==
  ASSUME Typed
  PROVE  /\ SweptRows \in Seq(Attempt) /\ DOMAIN SweptRows = DOMAIN rows
         /\ \A id \in DOMAIN rows :
              \/ SweptRows[id] = rows[id] /\ \A copy \in sweep.read : copy.id # id
              \/ \E copy \in sweep.read : copy.id = id /\ SweptRows[id] = copy.att
<1>1. /\ sweep.read \subseteq Copy(DOMAIN rows)
      /\ rows \in [1 .. Len(rows) -> Attempt] /\ Len(rows) \in Nat
  BY DEF Typed, SweepTyped, RowsTyped
<1>2. ASSUME NEW id \in DOMAIN rows
      PROVE  /\ SweptRows[id] \in Attempt
             /\ \/ SweptRows[id] = rows[id] /\ \A copy \in sweep.read : copy.id # id
                \/ \E copy \in sweep.read : copy.id = id /\ SweptRows[id] = copy.att
  <2>1. CASE \E copy \in sweep.read : copy.id = id
    <3> DEFINE found == CHOOSE copy \in sweep.read : copy.id = id
    <3>1. found \in sweep.read /\ found.id = id
      BY <2>1
    <3>2. found.att \in Attempt
      BY <1>1, <3>1 DEF Copy
    <3>3. SweptRows[id] = found.att
      BY <2>1 DEF SweptRows
    <3> HIDE DEF found
    <3>4. QED
      BY <3>1, <3>2, <3>3
  <2>2. CASE \A copy \in sweep.read : copy.id # id
    <3>1. SweptRows[id] = rows[id]
      BY <2>2 DEF SweptRows
    <3>2. QED
      BY <1>1, <2>2, <3>1
  <2>3. QED
    BY <2>1, <2>2
<1>3. SweptRows \in [1 .. Len(rows) -> Attempt] /\ DOMAIN SweptRows = DOMAIN rows
  <2>1. DOMAIN SweptRows = DOMAIN rows /\ SweptRows = [id \in DOMAIN rows |-> SweptRows[id]]
    BY DEF SweptRows
  <2>2. \A id \in DOMAIN rows : SweptRows[id] \in Attempt
    BY <1>2
  <2>3. DOMAIN rows = 1 .. Len(rows)
    BY <1>1
  <2>4. QED
    BY <2>1, <2>2, <2>3
<1>4. SweptRows \in Seq(Attempt)
  BY <1>1, <1>3, SeqDef
<1>5. QED
  BY <1>2, <1>3, <1>4

LEMMA SweepStep ==
  ASSUME Typed, Sweep \/ DeleteExercise
  PROVE  EditTyped' /\ RowsTyped' /\ PastTyped' /\ LateTyped' /\ SweepTyped' /\ StartTyped'
<1>1. CASE SweepRead
  <2>1. sweep.read \subseteq Copy(DOMAIN rows)
    BY DEF Typed, SweepTyped
  <2> DEFINE copies == {[id |-> id, att |-> [rows[id] EXCEPT !.status = "ABANDONED"]] :
                          id \in InProgress(rows)}
  <2>2. copies \subseteq Copy(DOMAIN rows)
    <3>1. \A id \in InProgress(rows) : id \in DOMAIN rows /\ rows[id] \in Attempt
      BY RowTypes DEF Typed
    <3>2. \A id \in InProgress(rows) :
            [rows[id] EXCEPT !.status = "ABANDONED"] \in Attempt
      BY <3>1 DEF Attempt
    <3>3. QED
      BY <3>1, <3>2 DEF Copy
  <2> HIDE DEF copies
  <2>3. /\ sweep' = [pc |-> "write", read |-> copies] /\ late' = {}
        /\ UNCHANGED <<rows, start, edit, beside, rivals, room>>
    BY <1>1 DEF SweepRead, copies, past
  <2>4. SweepTyped'
    BY <2>2, <2>3 DEF SweepTyped, SweepPc, Copy
  <2>5. QED
    BY <2>3, <2>4 DEF Typed, EditTyped, RowsTyped, PastTyped, LateTyped, StartTyped
<1>2. CASE SweepWrite
  <2>1. rows' = SweptRows /\ PastTyped'
    BY <1>2, WriteRowsTyped DEF SweepWrite, SweptRows
  <2>2. rows' \in Seq(Attempt) /\ DOMAIN rows' = DOMAIN rows
    BY <2>1, SweptTyped
  <2>3. sweep' = [pc |-> "mark", read |-> {}] /\ UNCHANGED <<start, edit, late>>
    BY <1>2 DEF SweepWrite
  <2>4. SweepTyped'
    BY <2>3 DEF SweepTyped, SweepPc
  <2>5. QED
    BY <2>1, <2>2, <2>3, <2>4, MoreRows DEF Typed, RowsTyped, StartTyped
<1>3. CASE SweepFails
  <2>1. sweep' \in {[pc |-> pc, read |-> {}] : pc \in {"queued", "dead"}}
    BY <1>3 DEF SweepFails
  <2>2. SweepTyped'
    BY <2>1 DEF SweepTyped, SweepPc
  <2>3. QED
    BY <1>3, <2>2 DEF SweepFails, past, Typed, EditTyped, RowsTyped, PastTyped, LateTyped, StartTyped
<1>4. CASE \E pc \in SweepPc : sweep' = [sweep EXCEPT !.pc = pc] /\ UNCHANGED <<rows, start, edit, past, late>>
  <2>1. SweepTyped'
    BY <1>4 DEF Typed, SweepTyped
  <2>2. QED
    BY <1>4, <2>1 DEF past, Typed, EditTyped, RowsTyped, PastTyped, LateTyped, StartTyped
<1>5. \/ SweepRead \/ SweepWrite \/ SweepFails
      \/ \E pc \in SweepPc : sweep' = [sweep EXCEPT !.pc = pc] /\ UNCHANGED <<rows, start, edit, past, late>>
  <2>1. \/ SweepRead \/ SweepWrite \/ SweepFails
        \/ \E pc \in {"queued", "acked", "read", "ack"} : sweep' = [sweep EXCEPT !.pc = pc]
    BY Zenon DEF Sweep, SweepForget, SweepMark, SweepAck, DeleteExercise
  <2>2. \/ SweepRead \/ SweepWrite \/ SweepFails \/ UNCHANGED <<rows, start, edit, past, late>>
    BY Zenon DEF Sweep, SweepForget, SweepMark, SweepAck, DeleteExercise
  <2>3. QED
    BY <2>1, <2>2 DEF SweepPc
<1>6. QED
  BY <1>1, <1>2, <1>3, <1>4, <1>5

LEMMA FlagsStep ==
  ASSUME Typed, Next
  PROVE  Flags' /\ template' \in Template
<1>1. UNCHANGED template
  BY Zenon DEF Next, StartAttempt, Arrive, FindOpenBoard, FindInProgress, FetchDefinition, Remember,
         PrepareSitting, Store, PublishStarted, StartFails, Edit, CheckItem, SubmitAnswer,
         CheckBoard, AbandonAttempt, Save, Check, Load, DeleteExercise, Sweep, SweepForget,
         SweepRead, SweepWrite, SweepMark, SweepAck, SweepFails
<1>2. deleted' \in {deleted, TRUE} /\ cached' \in {cached, TRUE, FALSE}
      /\ processed' \in {processed, TRUE}
  BY Zenon DEF Next, StartAttempt, Arrive, FindOpenBoard, FindInProgress, FetchDefinition, Remember,
         PrepareSitting, Store, PublishStarted, StartFails, Edit, CheckItem, SubmitAnswer,
         CheckBoard, AbandonAttempt, Save, Check, Load, DeleteExercise, Sweep, SweepForget,
         SweepRead, SweepWrite, SweepMark, SweepAck, SweepFails, definition, consumer
<1>3. Flags'
  BY <1>2, Zenon DEF Typed, Flags
<1>4. QED
  BY <1>1, <1>3 DEF Typed

LEMMA TypedStep == Typed /\ [Next]_vars => Typed'
<1> SUFFICES ASSUME Typed, [Next]_vars PROVE Typed'
  OBVIOUS
<1>1. CASE Next
  <2>1. ASSUME NEW r \in Requests, StartAttempt(r)
        PROVE  EditTyped' /\ RowsTyped' /\ PastTyped' /\ LateTyped' /\ SweepTyped' /\ StartTyped'
    <3>1. CASE Store(r)
      BY <3>1, StoreTyped
    <3>2. CASE ~Store(r)
      <4>1. StartTyped' /\ PastTyped'
        BY <2>1, <3>2, StartMoves
      <4>2. UNCHANGED <<rows, edit, sweep, late>>
        BY <2>1, <3>2, Zenon DEF StartAttempt, Arrive, FindOpenBoard, FindInProgress, FetchDefinition,
             Remember, PrepareSitting, PublishStarted, StartFails, consumer
      <4>3. QED
        BY <4>1, <4>2 DEF Typed, RowsTyped, EditTyped, SweepTyped, LateTyped
    <3>3. QED
      BY <3>1, <3>2
  <2>2. QED
    BY <1>1, <2>1, EditStep, SweepStep, FlagsStep DEF Next, Typed
<1>2. CASE UNCHANGED vars
  BY <1>2, Zenon DEF vars, past, Typed, RowsTyped, EditTyped, SweepTyped, LateTyped, StartTyped,
     PastTyped, Flags
<1>3. QED
  BY <1>1, <1>2

LEMMA TypedImplies == Typed => TypeOK
<1> SUFFICES ASSUME Typed PROVE TypeOK
  OBVIOUS
<1>1. {deleted, cached, processed} \subseteq BOOLEAN
  BY Zenon DEF Typed, Flags
<1>2. /\ sweep.pc \in {"none", "queued", "read", "write", "mark", "ack", "acked", "dead"}
      /\ sweep.read \subseteq [id : DOMAIN rows, att : Attempt]
  BY DEF Typed, SweepTyped, SweepPc, Copy
<1>3. template \in Template /\ rows \in Seq(Attempt) /\ late \subseteq DOMAIN rows
  BY DEF Typed, RowsTyped, LateTyped
<1>4. /\ start \in [Requests -> StartRecord]
      /\ edit \in [Edits -> [id : Nat, att : Attempt \cup {Null}]]
  BY DEF Typed, StartTyped, EditTyped
<1>5. QED
  BY <1>1, <1>2, <1>3, <1>4 DEF TypeOK

LEMMA AlwaysTyped == Spec => []Typed
BY TypedInit, TypedStep, PTL DEF Spec

(***************************************************************************)
(* Every variable keeps its type, for any starts, requests and draws.      *)
(***************************************************************************)
THEOREM OpeningTypeCorrect == Spec => []TypeOK
BY AlwaysTyped, TypedImplies, PTL

-----------------------------------------------------------------------------
(***************************************************************************)
(* The sweep.  What is in progress was read by it or written since.        *)
(***************************************************************************)

ReadIds == {copy.id : copy \in sweep.read}

SweepInv ==
  /\ sweep.pc # "none" \/ processed => deleted
  /\ sweep.pc \in {"read", "write", "mark"} => ~processed
  /\ sweep.pc = "write" => InProgress(rows) \subseteq ReadIds \cup late
  /\ sweep.pc = "mark" \/ processed => InProgress(rows) \subseteq late
  /\ \A copy \in sweep.read : copy.att.status = "ABANDONED"

\* A row stored, or written back.
LEMMA SweepInvWrite ==
  ASSUME Typed, SweepInv, NEW id, NEW att, WrittenInProgress(id, att),
         UNCHANGED <<deleted, sweep, processed>>,
         InProgress(rows') \subseteq
           InProgress(rows) \cup {x \in {id} : att.status = "IN_PROGRESS"}
  PROVE  SweepInv'
<1>1. CASE deleted
  <2>1. late' = late \cup {x \in {id} : att.status = "IN_PROGRESS"}
    BY <1>1 DEF WrittenInProgress
  <2>2. ReadIds' = ReadIds
    BY DEF ReadIds
  <2>3. QED
    BY <2>1, <2>2 DEF SweepInv
<1>2. CASE ~deleted
  <2>1. sweep.pc = "none" /\ ~processed
    BY <1>2 DEF SweepInv
  <2>2. QED
    BY <2>1 DEF SweepInv
<1>3. QED
  BY <1>1, <1>2

LEMMA SweepInvStep ==
  ASSUME Typed, SweepInv, [Next]_vars
  PROVE  SweepInv'
<1>1. ASSUME NEW r \in Requests, StartAttempt(r)
      PROVE  SweepInv'
  <2>1. UNCHANGED <<deleted, sweep, processed>>
    BY <1>1, Zenon DEF StartAttempt, Arrive, FindOpenBoard, FindInProgress, FetchDefinition,
         Remember, PrepareSitting, Store, PublishStarted, StartFails, consumer, definition
  <2>2. CASE UNCHANGED <<rows, late>>
    BY <2>1, <2>2, Zenon DEF SweepInv, ReadIds
  <2>3. CASE Store(r) /\ ~UNCHANGED <<rows, late>>
    <3> DEFINE id == Len(rows) + 1
               att == Create(DrawOf(r))
    <3>1. WriteRows(Append(rows, att)) /\ WrittenInProgress(id, att)
      BY <2>3, Zenon DEF Store
    <3>2. rows' = Append(rows, att)
      BY <3>1, WriteRowsTyped
    <3>3. /\ DOMAIN rows' = DOMAIN rows \cup {id} /\ rows'[id] = att
          /\ \A i \in DOMAIN rows : rows'[i] = rows[i]
      BY <3>2, NewAttempt
    <3> HIDE DEF id, att
    <3>4. InProgress(rows') \subseteq
            InProgress(rows) \cup {x \in {id} : att.status = "IN_PROGRESS"}
      BY <3>3 DEF InProgress
    <3>5. QED
      BY <2>1, <3>1, <3>4, SweepInvWrite
  <2>4. QED
    BY <1>1, <2>2, <2>3, Zenon DEF StartAttempt, Arrive, FindOpenBoard, FindInProgress,
         FetchDefinition, Remember, PrepareSitting, PublishStarted, StartFails
<1>2. ASSUME NEW e \in Edits, Edit(e)
      PROVE  SweepInv'
  <2>1. UNCHANGED <<deleted, sweep, processed>>
    BY <1>2, Zenon DEF Edit, CheckItem, SubmitAnswer, CheckBoard, AbandonAttempt, Save, Check, Load,
         consumer, definition
  <2>2. CASE UNCHANGED <<rows, late>>
    BY <2>1, <2>2, Zenon DEF SweepInv, ReadIds
  <2>3. CASE Save(e) /\ ~UNCHANGED <<rows, late>>
    <3> DEFINE id == edit[e].id
               att == edit[e].att
    <3>1. WriteRows([rows EXCEPT ![id] = att]) /\ WrittenInProgress(id, att)
      BY <2>3, Zenon DEF Save, past
    <3>2. rows' = [rows EXCEPT ![id] = att]
      BY <3>1, WriteRowsTyped
    <3> HIDE DEF id, att
    <3>3. InProgress(rows') \subseteq
            InProgress(rows) \cup {x \in {id} : att.status = "IN_PROGRESS"}
      BY <3>2 DEF InProgress
    <3>4. QED
      BY <2>1, <3>1, <3>3, SweepInvWrite
  <2>4. QED
    BY <1>2, <2>2, <2>3, Zenon DEF Edit, CheckItem, SubmitAnswer, CheckBoard, AbandonAttempt, Check,
         Load
<1>3. CASE DeleteExercise \/ SweepForget \/ SweepAck
  <2>1. /\ UNCHANGED <<rows, late, processed>>
        /\ \E pc \in {"queued", "acked", "read"} : sweep' = [sweep EXCEPT !.pc = pc]
    BY <1>3, Zenon DEF DeleteExercise, SweepForget, SweepAck
  <2>2. /\ sweep'.pc \in {"queued", "acked", "read"} /\ sweep'.read = sweep.read
        /\ \A pc \in {"queued", "acked"} : sweep' = [sweep EXCEPT !.pc = pc] => sweep'.pc = pc
    <3>1. sweep \in [pc : SweepPc, read : SUBSET Copy(DOMAIN rows)]
      BY DEF Typed, SweepTyped
    <3>2. QED
      BY <2>1, <3>1
  <2>3. sweep'.pc = "read" => ~processed
    <3>1. \/ ~processed \/ sweep' = [sweep EXCEPT !.pc = "queued"]
          \/ sweep' = [sweep EXCEPT !.pc = "acked"]
      BY <1>3, Zenon DEF DeleteExercise, SweepForget, SweepAck
    <3>2. QED
      BY <2>2, <3>1
  <2>4. deleted'
    <3>1. deleted' = TRUE \/ (sweep.pc \in {"queued", "ack"} /\ UNCHANGED deleted)
      BY <1>3, Zenon DEF DeleteExercise, SweepForget, SweepAck, definition
    <3>2. sweep.pc \in {"queued", "ack"} => deleted
      BY DEF SweepInv
    <3>3. QED
      BY <3>1, <3>2
  <2>5. QED
    BY <2>1, <2>2, <2>3, <2>4 DEF SweepInv
<1>4. CASE SweepRead
  <2> DEFINE Gone(id) == [rows[id] EXCEPT !.status = "ABANDONED"]
  <2> DEFINE copies == {[id |-> id, att |-> Gone(id)] : id \in InProgress(rows)}
  <2>1. sweep' = [pc |-> "write", read |-> copies] /\ UNCHANGED rows
    BY <1>4, Zenon DEF SweepRead
  <2>5. deleted' /\ ~processed'
    BY <1>4 DEF SweepRead, SweepInv, definition
  <2>2. \A id \in InProgress(rows) : Gone(id).status = "ABANDONED"
    BY RowTypes DEF Typed, Attempt
  <2> HIDE DEF Gone
  <2>3. /\ InProgress(rows) \subseteq ReadIds'
        /\ sweep'.pc = "write"
    <3>1. \A id \in InProgress(rows) : \E copy \in copies : copy.id = id
      <4>1. SUFFICES ASSUME NEW id \in InProgress(rows)
                     PROVE  \E copy \in copies : copy.id = id
        OBVIOUS
      <4> DEFINE copy == [id |-> id, att |-> Gone(id)]
      <4>2. copy \in copies
        BY Zenon
      <4>3. copy.id = id
        OBVIOUS
      <4> HIDE DEF copies, copy
      <4>4. QED
        BY <4>2, <4>3
    <3> HIDE DEF copies
    <3>2. sweep'.read = copies /\ sweep'.pc = "write"
      BY <2>1
    <3>3. \A id \in InProgress(rows) : id \in {copy.id : copy \in copies}
      BY <3>1
    <3>4. QED
      BY <3>2, <3>3 DEF ReadIds
  <2>4. \A copy \in sweep'.read : copy.att.status = "ABANDONED"
    <3>1. \A copy \in copies : copy.att.status = "ABANDONED"
      BY <2>2
    <3> HIDE DEF copies
    <3>2. QED
      BY <2>1, <3>1
  <2> HIDE DEF copies
  <2>6. QED
    BY <2>1, <2>3, <2>4, <2>5 DEF SweepInv
<1>5. CASE SweepWrite
  <2>1. rows' = SweptRows
    BY <1>5, WriteRowsTyped DEF SweepWrite, SweptRows
  <2>2. InProgress(rows') \subseteq late
    <3>1. SUFFICES ASSUME NEW id \in InProgress(rows') PROVE id \in late
      OBVIOUS
    <3>2. id \in DOMAIN rows /\ SweptRows[id].status = "IN_PROGRESS"
      BY <2>1, <3>1, SweptTyped DEF InProgress
    <3>3. SweptRows[id] = rows[id] /\ \A copy \in sweep.read : copy.id # id
      BY <3>2, SweptTyped DEF SweepInv
    <3>4. id \in InProgress(rows) /\ id \notin ReadIds
      BY <3>2, <3>3 DEF InProgress, ReadIds
    <3>5. QED
      BY <1>5, <3>4 DEF SweepWrite, SweepInv
  <2>3. sweep'.pc = "mark" /\ sweep'.read = {} /\ deleted' /\ ~processed' /\ UNCHANGED late
    BY <1>5 DEF SweepWrite, SweepInv, definition
  <2>4. QED
    BY <2>2, <2>3 DEF SweepInv
<1>6. CASE SweepMark
  <2>1. sweep'.pc = "ack" /\ sweep'.read = sweep.read /\ deleted' /\ UNCHANGED <<rows, late>>
    BY <1>6 DEF SweepMark, SweepInv, definition, Typed, SweepTyped
  <2>2. InProgress(rows) \subseteq late
    BY <1>6 DEF SweepMark, SweepInv
  <2>3. QED
    BY <2>1, <2>2 DEF SweepInv
<1>7. CASE SweepFails
  <2>1. sweep' \in {[pc |-> pc, read |-> {}] : pc \in {"queued", "dead"}}
    BY <1>7 DEF SweepFails
  <2>2. sweep'.pc \in {"queued", "dead"} /\ sweep'.read = {}
    BY <2>1
  <2>3. deleted' /\ UNCHANGED <<rows, late, processed>>
    BY <1>7 DEF SweepFails, SweepInv, definition
  <2>4. QED
    BY <2>2, <2>3 DEF SweepInv
<1>8. CASE UNCHANGED vars
  BY <1>8, Zenon DEF vars, SweepInv, ReadIds
<1>9. QED
  BY <1>1, <1>2, <1>3, <1>4, <1>5, <1>6, <1>7, <1>8 DEF Next, Sweep

(***************************************************************************)
(* DeletedIsSwept, for any starts and requests: however often the deletion *)
(* is delivered and wherever the consumer fails, what is in progress once  *)
(* it counts as processed was written after the sweep had read.            *)
(***************************************************************************)
THEOREM DeletionSweeps == Spec => []DeletedIsSwept
<1>1. Init => SweepInv
  BY DEF Init, SweepInv, InProgress
<1>2. SweepInv => DeletedIsSwept
  BY Zenon DEF SweepInv, DeletedIsSwept
<1>3. QED
  BY <1>1, <1>2, AlwaysTyped, SweepInvStep, PTL DEF Spec


-----------------------------------------------------------------------------
(***************************************************************************)
(* A start on its way.  What it has not found was not there when it looked *)
(* and has come to be since; what it has counted left room when it looked. *)
(***************************************************************************)

Asked == {"fetch", "remember", "count", "save"}

\* It goes on without an attempt: none was there, or it lost one more race.
Alone(r) ==
  /\ beside[r] = {}
  /\ InProgress(rows) # {} => rivals[r] >= 1
  /\ InProgress(rows) # {} /\ start[r].again => rivals[r] >= 2

Pending(r) ==
  /\ beside[r] \subseteq Held(rows)
  /\ start[r].again => rivals[r] >= 1 /\ r \in InFlight
  /\ start[r].pc = "open" /\ start[r].board = 0 => \A id : <<id, "board">> \notin beside[r]
  /\ start[r].pc \in {"count", "save"} => start[r].id = 0
  /\ start[r].pc \in Asked /\ start[r].id = 0 => Alone(r)
  /\ start[r].pc = "save" /\ template = "pairs" => r \in room
  /\ r \in InFlight /\ Unspent(rows) => r \in room

StartsPending == \A r \in Requests : Pending(r)

\* The limit is a number, and so is what is counted against it.
LEMMA SpentOrNot == ASSUME Typed PROVE Spent(rows) <=> ~Unspent(rows)
<1>1. CountSubmitted(rows) \in Nat
  <2> DEFINE handed == {id \in DOMAIN rows : rows[id].handed}
  <2>1. IsFiniteSet(1 .. Len(rows)) /\ DOMAIN rows = 1 .. Len(rows)
    BY RowTypes, FS_Interval DEF Typed
  <2>2. IsFiniteSet(handed)
    BY <2>1, FS_Subset
  <2>3. QED
    BY <2>2, FS_CardinalityType DEF CountSubmitted
<1>2. QED
  BY <1>1, OpeningAssumption DEF Spent, Unspent

\* Nothing that concerns the start has changed.
LEMMA PendingStays ==
  ASSUME NEW r \in Requests, Pending(r), start'[r] = start[r], UNCHANGED <<template, rows>>,
         beside'[r] = beside[r], rivals'[r] = rivals[r], r \in room => r \in room'
  PROVE  Pending(r)'
<1>1. (r \in InFlight)' <=> r \in InFlight
  BY DEF InFlight
<1>2. Alone(r)' <=> Alone(r)
  BY DEF Alone
<1>3. Held(rows)' = Held(rows) /\ (Unspent(rows)' <=> Unspent(rows))
  BY DEF Held, Unspent
<1>4. QED
  BY <1>1, <1>2, <1>3 DEF Pending

\* A row is written while the start is on its way.
LEMMA PendingWrite ==
  ASSUME Typed, NEW r \in Requests, Pending(r), start'[r] = start[r], UNCHANGED template,
         NEW stored, WriteRows(stored)
  PROVE  Pending(r)'
<1>1. /\ rows' = stored /\ beside'[r] = beside[r] \cap Held(stored)
      /\ room' = IF Unspent(stored) THEN room \cup InFlight ELSE room
      /\ rivals' = IF InProgress(stored) \subseteq InProgress(rows) THEN rivals
                   ELSE [q \in Requests |->
                           IF q \in InFlight /\ rivals[q] < 2 THEN rivals[q] + 1 ELSE rivals[q]]
  BY DEF WriteRows
<1>2. r \in InFlight' <=> r \in InFlight
  BY DEF InFlight
<1>3. /\ beside'[r] \subseteq beside[r] /\ beside'[r] \subseteq Held(rows')
      /\ r \in room => r \in room'
      /\ r \in InFlight /\ Unspent(rows') => r \in room'
  BY <1>1
<1>4. rivals[r] \in 0 .. 2
  BY DEF Typed, PastTyped
<1>5. CASE InProgress(rows') \subseteq InProgress(rows)
  <2>1. rivals'[r] = rivals[r]
    BY <1>1, <1>5
  <2>2. start[r].pc \in Asked /\ start[r].id = 0 => Alone(r)'
    BY <1>3, <1>5, <2>1 DEF Pending, Alone
  <2>3. QED
    BY <1>2, <1>3, <2>1, <2>2 DEF Pending
<1>6. CASE ~(InProgress(rows') \subseteq InProgress(rows))
  <2>1. rivals'[r] = IF r \in InFlight /\ rivals[r] < 2 THEN rivals[r] + 1 ELSE rivals[r]
    BY <1>1, <1>6
  <2>2. start[r].pc \in Asked => r \in InFlight
    BY DEF InFlight, Asked, Ended
  <2>3. start[r].pc \in Asked /\ start[r].id = 0 => Alone(r)'
    BY <1>3, <1>4, <2>1, <2>2 DEF Pending, Alone
  <2>4. start[r].again => rivals'[r] >= 1
    BY <1>4, <2>1 DEF Pending
  <2>5. QED
    BY <1>2, <1>3, <2>3, <2>4 DEF Pending
<1>7. QED
  BY <1>5, <1>6

LEMMA PendingEnds ==
  ASSUME Typed, NEW r \in Requests, NEW how \in Ended, End(r, how)
  PROVE  Pending(r)' /\ ~start'[r].again
<1>1. /\ start'[r] = [NotSent EXCEPT !.pc = how] /\ beside' = [beside EXCEPT ![r] = {}]
  BY EndMoves DEF Typed
<1>2. beside'[r] = {}
  BY <1>1 DEF Typed, PastTyped
<1>3. start'[r].pc = how /\ ~start'[r].again
  BY <1>1 DEF NotSent
<1>4. r \notin InFlight'
  BY <1>3 DEF InFlight
<1>5. QED
  BY <1>2, <1>3, <1>4 DEF Pending, Asked, Ended

\* A start that goes on where nothing but its own record changes.
LEMMA PendingGoes ==
  ASSUME Typed, NEW r \in Requests, Pending(r), StartTyped', UNCHANGED <<template, rows, past>>,
         r \in InFlight, start'[r].pc \notin {"idle"} \cup Ended,
         start'[r].again => rivals[r] >= 1,
         start'[r].pc = "open" /\ start'[r].board = 0 => \A id : <<id, "board">> \notin beside[r],
         start'[r].pc \in {"count", "save"} => start'[r].id = 0,
         start'[r].pc \in Asked /\ start'[r].id = 0 => Alone(r) /\ start'[r].again = start[r].again,
         start'[r].pc = "save" /\ template = "pairs" => r \in room
  PROVE  Pending(r)'
<1>1. r \in InFlight'
  BY DEF InFlight
<1>2. UNCHANGED <<beside, rivals, room, rows, template>>
  BY DEF past
<1>3. start'[r].pc \in Asked /\ start'[r].id = 0 => Alone(r)'
  BY <1>2 DEF Alone
<1>4. Held(rows)' = Held(rows) /\ Unspent(rows)' = Unspent(rows)
  BY <1>2 DEF Held, Unspent
<1>5. QED
  BY <1>1, <1>2, <1>3, <1>4 DEF Pending


\* The definition is there: the start is answered with what it found, or goes on.
LEMMA PendingGoesOn ==
  ASSUME Typed, NEW r \in Requests, Pending(r), GoOn(r), UNCHANGED <<template, rows>>,
         start[r].pc \in {"fetch", "remember"}
  PROVE  Pending(r)'
<1>1. CASE End(r, "answered")
  BY <1>1, PendingEnds DEF Ended
<1>2. ASSUME NEW pc \in {"count", "save"}, Goto(r, pc), start[r].id = 0,
             pc = "save" => template # "pairs"
      PROVE  Pending(r)'
  <2>1. StartTyped' /\ UNCHANGED past /\ start'[r] = [start[r] EXCEPT !.pc = pc]
    BY <1>2, GotoMoves DEF Typed, StartPc
  <2>2. start[r] \in StartRecord
    BY DEF Typed, StartTyped
  <2>3. start'[r].pc = pc /\ start'[r].id = 0 /\ start'[r].again = start[r].again
    BY <1>2, <2>1, <2>2 DEF StartRecord
  <2>4. r \in InFlight
    BY DEF InFlight, Ended
  <2>5. Alone(r)
    BY <1>2 DEF Pending, Asked
  <2>6. QED
    BY <1>2, <2>1, <2>3, <2>4, <2>5, PendingGoes DEF Pending, Ended
<1>3. \/ End(r, "answered")
      \/ start[r].id = 0 /\ Goto(r, "count")
      \/ start[r].id = 0 /\ template # "pairs" /\ Goto(r, "save")
  BY Zenon DEF GoOn
<1>4. QED
  BY <1>1, <1>2, <1>3

\* What the second pass knows of the first: it met a rival, and looks again.
LEMMA PendingRace ==
  ASSUME Typed, NEW r \in Requests, Pending(r), LosesRace(r), UNCHANGED <<template, rows>>,
         start[r].pc = "save", InProgress(rows) # {}
  PROVE  /\ Pending(r)'
         /\ start'[r].pc = "lost" => rivals[r] = 2
<1>1. Alone(r) /\ r \in InFlight /\ start[r] \in StartRecord
  BY DEF Pending, Asked, InFlight, Ended, Typed, StartTyped
<1>2. CASE start[r].again
  <2>1. rivals[r] = 2
    BY <1>1, <1>2 DEF Alone, Typed, PastTyped
  <2>2. End(r, "lost")
    BY <1>2, LosesRaceTyped
  <2>3. QED
    BY <2>1, <2>2, PendingEnds DEF Ended
<1>3. CASE ~start[r].again
  <2>1. /\ start'[r] = [start[r] EXCEPT !.pc = "board", !.board = 0, !.again = TRUE]
        /\ UNCHANGED past /\ StartTyped'
    BY <1>3, LosesRaceTyped
  <2>2. start'[r].pc = "board"
    BY <1>1, <2>1 DEF StartRecord
  <2>3. rivals[r] >= 1
    BY <1>1 DEF Alone
  <2>4. QED
    BY <1>1, <2>1, <2>2, <2>3, PendingGoes DEF Asked, Ended
<1>4. QED
  BY <1>2, <1>3

\* The start's own step.
LEMMA PendingMoves ==
  ASSUME Typed, NEW r \in Requests, Pending(r), StartAttempt(r)
  PROVE  /\ Pending(r)'
         /\ start[r].pc = "save" /\ start'[r].pc = "lost" => rivals[r] = 2
<1> USE DEF Ended
<1>0. start[r] \in StartRecord /\ UNCHANGED template
  <2>1. UNCHANGED template
    BY Zenon DEF StartAttempt, Arrive, FindOpenBoard, FindInProgress, FetchDefinition, Remember,
         PrepareSitting, Store, PublishStarted, StartFails
  <2>2. QED
    BY <2>1 DEF Typed, StartTyped
<1>1. CASE Arrive(r)
  <2>1. /\ UNCHANGED rows /\ beside' = [beside EXCEPT ![r] = Held(rows)]
        /\ room' = IF Unspent(rows) THEN room \cup {r} ELSE room
        /\ start[r].pc = "idle"
    BY <1>1 DEF Arrive
  <2>2. start'[r].pc = "board" /\ ~start'[r].again
    BY <1>1, ArriveTyped
  <2>3. beside'[r] = Held(rows')
    BY <2>1 DEF Typed, PastTyped
  <2>4. Unspent(rows') => r \in room'
    BY <2>1
  <2>5. QED
    BY <2>1, <2>2, <2>3, <2>4 DEF Pending, Asked
<1>2. CASE FindOpenBoard(r)
  <2>1. /\ StartTyped' /\ start'[r].pc = "open" /\ start'[r].again = start[r].again
        /\ start'[r].board = 0 => OpenBoard(rows) = {}
    BY <1>2, FindOpenBoardTyped
  <2>2. start[r].pc = "board" /\ UNCHANGED <<template, rows, past>>
    BY <1>2 DEF FindOpenBoard
  <2>3. start'[r].board = 0 => \A id : <<id, "board">> \notin beside[r]
    BY <2>1 DEF Pending, Held
  <2>4. r \in InFlight
    BY <2>2 DEF InFlight
  <2>5. QED
    BY <2>1, <2>2, <2>3, <2>4, PendingGoes DEF Pending, Asked
<1>3. CASE FindInProgress(r)
  <2>1. CASE End(r, "answered")
    BY <1>3, <2>1, PendingEnds DEF FindInProgress
  <2>2. CASE start' = [start EXCEPT ![r].pc = "fetch", ![r].id = Existing(r)] /\ UNCHANGED past
    <3>1. /\ start[r].pc = "open" /\ UNCHANGED <<template, rows>>
      BY <1>3 DEF FindInProgress
    <3>2. /\ StartTyped' /\ start'[r] = [start[r] EXCEPT !.pc = "fetch", !.id = Existing(r)]
      BY <2>2, ExistingTyped, Fetching DEF Typed
    <3>3. /\ start'[r].pc = "fetch" /\ start'[r].id = Existing(r)
          /\ start'[r].again = start[r].again
      BY <1>0, <3>2 DEF StartRecord
    <3>4. Existing(r) = 0 => Alone(r)
      <4>1. SUFFICES ASSUME Existing(r) = 0 PROVE Alone(r)
        OBVIOUS
      <4>2. start[r].board = 0 /\ InProgress(rows) = {}
        BY <4>1, ExistingTyped DEF Typed
      <4>3. beside[r] = {}
        BY <3>1, <4>2 DEF Pending, Held
      <4>4. QED
        BY <4>2, <4>3 DEF Alone
    <3>5. r \in InFlight
      BY <3>1 DEF InFlight
    <3>6. QED
      BY <2>2, <3>1, <3>2, <3>3, <3>4, <3>5, PendingGoes DEF Pending, Asked
  <2>3. QED
    BY <1>3, <2>1, <2>2, Zenon DEF FindInProgress
<1>4. CASE FetchDefinition(r)
  <2>1. start[r].pc = "fetch" /\ UNCHANGED <<template, rows>>
    BY <1>4 DEF FetchDefinition
  <2>2. CASE GoOn(r)
    BY <2>1, <2>2, PendingGoesOn
  <2>3. CASE Goto(r, "remember")
    <3>1. StartTyped' /\ UNCHANGED past /\ start'[r] = [start[r] EXCEPT !.pc = "remember"]
      BY <2>3, GotoMoves DEF Typed, StartPc
    <3>2. /\ start'[r].pc = "remember" /\ start'[r].id = start[r].id
          /\ start'[r].again = start[r].again
      BY <1>0, <3>1 DEF StartRecord
    <3>3. r \in InFlight
      BY <2>1 DEF InFlight
    <3>4. QED
      BY <2>1, <3>1, <3>2, <3>3, PendingGoes DEF Pending, Asked
  <2>4. CASE End(r, "answered")
    BY <2>1, <2>4, PendingEnds
  <2>5. QED
    BY <1>4, <2>1, <2>2, <2>3, <2>4, Zenon DEF FetchDefinition
<1>5. CASE Remember(r)
  BY <1>5, PendingGoesOn DEF Remember
<1>6. CASE PrepareSitting(r)
  <2>1. start[r].pc = "count" /\ UNCHANGED <<template, rows>>
    BY <1>6 DEF PrepareSitting
  <2>2. CASE ~Spent(rows) /\ Goto(r, "save")
    <3>1. StartTyped' /\ UNCHANGED past /\ start'[r] = [start[r] EXCEPT !.pc = "save"]
      BY <2>2, GotoMoves DEF Typed, StartPc
    <3>2. /\ start'[r].pc = "save" /\ start'[r].id = start[r].id
          /\ start'[r].again = start[r].again
      BY <1>0, <3>1 DEF StartRecord
    <3>3. r \in InFlight
      BY <2>1 DEF InFlight
    <3>4. r \in room
      BY <2>2, <3>3, SpentOrNot DEF Pending
    <3>5. QED
      BY <2>1, <3>1, <3>2, <3>3, <3>4, PendingGoes DEF Pending, Asked
  <2>3. CASE End(r, "answered")
    BY <2>1, <2>3, PendingEnds
  <2>4. QED
    BY <1>6, <2>1, <2>2, <2>3, Zenon DEF PrepareSitting
<1>7. CASE Store(r)
  <2> DEFINE att == Create(DrawOf(r))
  <2>1. start[r].pc = "save"
    BY <1>7 DEF Store
  <2>2. CASE Violates(Len(rows) + 1, att) /\ LosesRace(r) /\ UNCHANGED <<rows, late>>
    BY <1>0, <2>1, <2>2, PendingRace DEF Violates
  <2>3. CASE /\ WriteRows(Append(rows, att))
             /\ start' = [start EXCEPT ![r].pc = "publish", ![r].id = Len(rows) + 1]
    <3>1. start'[r] = [start[r] EXCEPT !.pc = "publish", !.id = Len(rows) + 1]
      BY <2>3, StoringMoves
    <3>2. start'[r].pc = "publish" /\ start'[r].again = start[r].again
      BY <1>0, <3>1 DEF StartRecord
    <3> HIDE DEF att
    <3>3. /\ beside'[r] \subseteq Held(rows')
          /\ rivals[r] <= rivals'[r]
          /\ Unspent(rows') /\ r \in InFlight => r \in room'
      BY <2>3 DEF WriteRows, Typed, PastTyped
    <3>4. r \in InFlight /\ r \in InFlight'
      BY <2>1, <3>2 DEF InFlight
    <3>5. rivals[r] \in 0 .. 2 /\ rivals'[r] \in 0 .. 2
      BY <2>3, WriteRowsTyped DEF Typed, PastTyped
    <3>6. QED
      BY <3>2, <3>3, <3>4, <3>5 DEF Pending, Asked
  <2>4. QED
    BY <1>7, <2>1, <2>2, <2>3, Zenon DEF Store
<1>8. CASE PublishStarted(r) \/ StartFails(r)
  <2>1. End(r, "answered") /\ UNCHANGED rows
    BY <1>8, Zenon DEF PublishStarted, StartFails
  <2>2. start'[r].pc = "answered"
    BY <2>1, EndMoves DEF Typed, NotSent
  <2>3. QED
    BY <2>1, <2>2, PendingEnds
<1>9. QED
  BY <1>1, <1>2, <1>3, <1>4, <1>5, <1>6, <1>7, <1>8, Zenon DEF StartAttempt


\* A step of somebody else: it writes rows, or nothing the start looks at.
LEMMA PendingBeside ==
  ASSUME Typed, NEW r \in Requests, Pending(r), start'[r] = start[r], UNCHANGED template,
         \/ \E stored : WriteRows(stored)
         \/ /\ UNCHANGED rows
            /\ \/ UNCHANGED past
               \/ \E q \in Requests \ {r}, how \in Ended : End(q, how)
               \/ \E q \in Requests \ {r} : Arrive(q)
  PROVE  Pending(r)'
<1>1. CASE \E stored : WriteRows(stored)
  BY <1>1, PendingWrite
<1>2. CASE UNCHANGED rows /\ UNCHANGED past
  BY <1>2, PendingStays DEF past
<1>3. ASSUME UNCHANGED rows, NEW q \in Requests \ {r}, NEW how \in Ended, End(q, how)
      PROVE  Pending(r)'
  <2>1. /\ beside' = [beside EXCEPT ![q] = {}] /\ rivals' = [rivals EXCEPT ![q] = 0]
        /\ room' = room \ {q}
    BY <1>3 DEF End
  <2>2. beside'[r] = beside[r] /\ rivals'[r] = rivals[r] /\ (r \in room => r \in room')
    BY <2>1 DEF Typed, PastTyped
  <2>3. QED
    BY <1>3, <2>2, PendingStays
<1>4. ASSUME UNCHANGED rows, NEW q \in Requests \ {r}, Arrive(q)
      PROVE  Pending(r)'
  <2>1. /\ beside' = [beside EXCEPT ![q] = Held(rows)] /\ UNCHANGED rivals
        /\ room' = IF Unspent(rows) THEN room \cup {q} ELSE room
    BY <1>4 DEF Arrive
  <2>2. beside'[r] = beside[r] /\ rivals'[r] = rivals[r] /\ (r \in room => r \in room')
    BY <2>1 DEF Typed, PastTyped
  <2>3. QED
    BY <1>4, <2>2, PendingStays
<1>5. QED
  BY <1>1, <1>2, <1>3, <1>4

\* What a start's own step is for everybody else.
LEMMA StartSeen ==
  ASSUME Typed, NEW q \in Requests, StartAttempt(q)
  PROVE  /\ Others(q) /\ UNCHANGED template
         /\ \/ \E stored : WriteRows(stored)
            \/ /\ UNCHANGED rows
               /\ \/ UNCHANGED past
                  \/ \E how \in Ended : End(q, how)
                  \/ Arrive(q)
<1> USE DEF Ended
<1>0. UNCHANGED template
  BY Zenon DEF StartAttempt, Arrive, FindOpenBoard, FindInProgress, FetchDefinition, Remember,
       PrepareSitting, Store, PublishStarted, StartFails
<1>1. CASE Arrive(q)
  BY <1>0, <1>1, ArriveTyped DEF Arrive
<1>2. CASE FindOpenBoard(q)
  BY <1>0, <1>2, FindOpenBoardTyped DEF FindOpenBoard
<1>3. ASSUME UNCHANGED rows, NEW how \in Ended, End(q, how)
      PROVE  /\ Others(q)
             /\ UNCHANGED rows /\ \E h \in Ended : End(q, h)
  BY <1>3, EndMoves DEF Typed
<1>4. ASSUME UNCHANGED rows, NEW pc \in StartPc, Goto(q, pc)
      PROVE  Others(q) /\ UNCHANGED <<rows, past>>
  BY <1>4, GotoMoves DEF Typed
<1>5. CASE Store(q)
  <2>1. CASE LosesRace(q) /\ UNCHANGED rows
    <3>1. Others(q) /\ (UNCHANGED past \/ End(q, "lost"))
      BY <2>1, LosesRaceTyped
    <3>2. QED
      BY <1>0, <2>1, <3>1
  <2>2. CASE /\ WriteRows(Append(rows, Create(DrawOf(q))))
             /\ start' = [start EXCEPT ![q].pc = "publish", ![q].id = Len(rows) + 1]
    BY <1>0, <2>2, StoringMoves
  <2>3. QED
    BY <1>5, <2>1, <2>2, Zenon DEF Store
<1>6. CASE /\ start' = [start EXCEPT ![q].pc = "fetch", ![q].id = Existing(q)]
           /\ UNCHANGED <<rows, past>>
  BY <1>0, <1>6, ExistingTyped, Fetching DEF Typed
<1>7. \/ Arrive(q) \/ FindOpenBoard(q) \/ Store(q)
      \/ /\ UNCHANGED rows
         /\ \/ End(q, "answered")
            \/ Goto(q, "remember") \/ Goto(q, "count") \/ Goto(q, "save")
            \/ /\ start' = [start EXCEPT ![q].pc = "fetch", ![q].id = Existing(q)]
               /\ UNCHANGED past
  BY Zenon DEF StartAttempt, FindInProgress, FetchDefinition, Remember, PrepareSitting,
       PublishStarted, StartFails, GoOn
<1>8. QED
  BY <1>0, <1>1, <1>2, <1>3, <1>4, <1>5, <1>6, <1>7, Zenon DEF StartPc

LEMMA PendingStep ==
  ASSUME Typed, StartsPending, [Next]_vars
  PROVE  StartsPending'
<1> SUFFICES ASSUME NEW r \in Requests PROVE Pending(r)'
  BY DEF StartsPending
<1>0. Pending(r)
  BY DEF StartsPending
<1>1. ASSUME NEW q \in Requests, StartAttempt(q)
      PROVE  Pending(r)'
  <2>1. CASE q = r
    BY <1>0, <1>1, <2>1, PendingMoves
  <2>2. CASE q # r
    <3>1. start'[r] = start[r]
      BY <1>1, <2>2, StartSeen DEF Others
    <3>2. q \in Requests \ {r}
      BY <2>2
    <3>3. QED
      BY <1>0, <1>1, <3>1, <3>2, StartSeen, PendingBeside
  <2>3. QED
    BY <2>1, <2>2
<1>2. CASE \/ \E e \in Edits : Edit(e)
           \/ DeleteExercise \/ Sweep
  <2>1. /\ UNCHANGED <<start, template>>
        /\ \/ \E stored : WriteRows(stored)
           \/ UNCHANGED rows /\ UNCHANGED past
    BY <1>2, Zenon DEF Edit, CheckItem, SubmitAnswer, CheckBoard, AbandonAttempt, Save, Check,
         Load, DeleteExercise, Sweep, SweepForget, SweepRead, SweepWrite, SweepMark, SweepAck,
         SweepFails
  <2>2. QED
    BY <1>0, <2>1, PendingBeside
<1>3. CASE UNCHANGED vars
  <2>1. UNCHANGED <<start, template, rows, past>>
    BY <1>3, Zenon DEF vars
  <2>2. QED
    BY <1>0, <2>1, PendingBeside
<1>4. QED
  BY <1>1, <1>2, <1>3 DEF Next

LEMMA AlwaysPending == Spec => []StartsPending
<1>1. Init => StartsPending
  <2> SUFFICES ASSUME Init, NEW r \in Requests PROVE Pending(r)
    BY DEF StartsPending
  <2>1. start[r].pc = "idle" /\ ~start[r].again /\ beside[r] = {}
    BY DEF Init, NotSent
  <2>2. r \notin InFlight
    BY <2>1 DEF InFlight
  <2>3. QED
    BY <2>1, <2>2 DEF Pending, Asked
<1>2. QED
  BY <1>1, AlwaysTyped, PendingStep, PTL DEF Spec

(***************************************************************************)
(* NoFreshStartBesideWork, for any starts: what was open all the time      *)
(* since the start arrived is among what its two lookups found.            *)
(***************************************************************************)
THEOREM NothingLeftBeside == Spec => NoFreshStartBesideWork
<1>1. ASSUME StartsPending
      PROVE  \A r \in Requests : Creates(r) => beside[r] = {}
  <2> SUFFICES ASSUME NEW r \in Requests, start[r].pc = "save" PROVE beside[r] = {}
    BY Zenon DEF Creates
  <2>1. Pending(r)
    BY <1>1 DEF StartsPending
  <2>2. QED
    BY <2>1 DEF Pending, Alone, Asked
<1>2. QED
  BY <1>1, AlwaysPending, PTL DEF NoFreshStartBesideWork

(***************************************************************************)
(* SittingsWithinLimit, for any limit and any number of starts: where the  *)
(* sitting was counted there was room, at the count or later.              *)
(***************************************************************************)
THEOREM LimitWasNotReached == Spec => SittingsWithinLimit
<1>1. ASSUME StartsPending
      PROVE  \A r \in Requests : template = "pairs" /\ Creates(r) => r \in room
  BY <1>1 DEF StartsPending, Pending, Creates
<1>2. QED
  BY <1>1, AlwaysPending, PTL DEF SittingsWithinLimit

(***************************************************************************)
(* LoserFindsWinner, for any number of starts: a pass that finds nothing   *)
(* and is refused has met an attempt that came to be while it ran, and a   *)
(* start makes two passes.                                                 *)
(***************************************************************************)
THEOREM TwoRivalsOrNoLoss == Spec => LoserFindsWinner
<1>1. ASSUME Typed, StartsPending, Next
      PROVE  \A r \in Requests : start'[r].pc = "lost" /\ start[r].pc = "save" => rivals[r] = 2
  <2> SUFFICES ASSUME NEW r \in Requests, start'[r].pc = "lost", start[r].pc = "save"
               PROVE  rivals[r] = 2
    OBVIOUS
  <2>1. CASE StartAttempt(r)
    BY <1>1, <2>1, PendingMoves DEF StartsPending
  <2>2. ASSUME NEW q \in Requests \ {r}, StartAttempt(q) PROVE FALSE
    BY <1>1, <2>2, StartSeen DEF Others
  <2>3. CASE UNCHANGED start
    BY <2>3
  <2>4. \/ \E q \in Requests : StartAttempt(q)
        \/ UNCHANGED start
    BY <1>1, Zenon DEF Next, Edit, CheckItem, SubmitAnswer, CheckBoard, AbandonAttempt, Save, Check,
         Load, DeleteExercise, Sweep, SweepForget, SweepRead, SweepWrite, SweepMark, SweepAck,
         SweepFails
  <2>5. QED
    BY <2>1, <2>2, <2>3, <2>4
<1>2. QED
  BY <1>1, AlwaysTyped, AlwaysPending, PTL DEF LoserFindsWinner, Spec

=============================================================================

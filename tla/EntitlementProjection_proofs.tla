-------------------- MODULE EntitlementProjection_proofs --------------------
(***************************************************************************)
(* Proofs about EntitlementProjection, for every number of handlers and    *)
(* readers, of revisions and of moments.                                   *)
(*                                                                         *)
(* The row only moves forward in the order of `supersedes`, so whatever    *)
(* was below it stays below it.  What a message or an answer still has to  *)
(* save is bounded by what its holder has seen happen to the row: Inv says *)
(* so for every step of a save.                                            *)
(***************************************************************************)
EXTENDS EntitlementProjection, TLAPS

SnapshotRecord == [version : Nat, validUntil : 1 .. MaxTime + 1]

RevisionRecord == [since : Times, until : Untils]

TaskRecord == [pc : {"idle", "update", "create", "again", "stored",
                     "held", "check", "ask", "resolve", "served"},
               snap : SnapshotOrNone, check : Times, asOf : Times,
               current : Nat \cup {-1}]

\* What the subscription service holds and has sent.
SourceOK == /\ clock \in Times
            /\ revisions \in Seq(RevisionRecord)
            /\ Len(revisions) >= 1
            /\ sent \in Seq(SnapshotRecord)

CopyOK == /\ row \in SnapshotRecord \cup {NoRow}
          /\ task \in [Tasks -> TaskRecord]
          /\ acked \subseteq SnapshotRecord

\* A save under way holds a snapshot that was really made, of a revision no
\* older than the account's when its holder asked.
SaveUnderWay(x) == x.snap \in SnapshotRecord /\ x.snap.version >= x.current

\* A task x beside the row q, when the account is at revision `revision`.
TaskOK(x, q, revision) ==
  /\ x.pc \in {"update", "create", "again", "stored", "held"} => SaveUnderWay(x)
  /\ x.pc \in {"again", "stored", "held"} => q # NoRow
  /\ x.pc \in {"stored", "held"} => supersedes(q, x.snap)
  /\ x.pc \in {"idle", "check", "ask"} => x.current = -1
  /\ x.pc = "resolve" => x.current <= revision
  /\ x.pc = "served" => x.snap.version >= x.current

Inv == /\ SourceOK
       /\ CopyOK
       /\ \A t \in Tasks : TaskOK(task[t], row, Revision)
       /\ AckedIsHeld

\* The row p may come after the row q.
Forward(q, p) == q # NoRow => p # NoRow /\ supersedes(p, q)

-----------------------------------------------------------------------------
(***************************************************************************)
(* Snapshots and their order.                                              *)
(***************************************************************************)

\* Every revision can be resolved at every moment.
LEMMA SnapshotIsOne ==
  ASSUME SourceOK, NEW v \in 0 .. Revision, NEW t \in Times
  PROVE  Snapshot(v, t) \in SnapshotRecord
<1>1. v + 1 \in 1 .. Len(revisions) /\ v \in Nat
  BY DEF SourceOK, Revision
<1>2. revisions[v + 1] \in RevisionRecord
  BY <1>1 DEF SourceOK
<1>3. revisions[v + 1].until \in [Times -> 1 .. MaxTime + 1]
  BY <1>2 DEF RevisionRecord, Untils
<1> QED
  BY <1>1, <1>3 DEF Snapshot, SnapshotRecord

LEMMA SupersedesIsTransitive ==
  ASSUME NEW p \in SnapshotRecord, NEW q \in SnapshotRecord, NEW r \in SnapshotRecord,
         supersedes(p, q), supersedes(q, r)
  PROVE  supersedes(p, r)
<1> p.validUntil \in Int /\ q.validUntil \in Int /\ r.validUntil \in Int
  BY SourceAssumption DEF SnapshotRecord
<1> p.version \in Nat /\ q.version \in Nat /\ r.version \in Nat
  BY DEF SnapshotRecord
<1> QED
  BY DEF supersedes

LEMMA SupersedesItself ==
  ASSUME NEW p \in SnapshotRecord
  PROVE  supersedes(p, p)
BY SourceAssumption DEF supersedes, SnapshotRecord

LEMMA SupersedingIsNoOlder ==
  ASSUME NEW p \in SnapshotRecord, NEW q \in SnapshotRecord, supersedes(p, q)
  PROVE  p.version >= q.version
BY DEF supersedes, SnapshotRecord

\* A snapshot is not the missing row.
LEMMA SnapshotIsARow ==
  ASSUME NEW p \in SnapshotRecord
  PROVE  p # NoRow /\ p.version \in Nat
BY DEF SnapshotRecord, NoRow

-----------------------------------------------------------------------------
(***************************************************************************)
(* What a step leaves true of the tasks that did not take it.              *)
(***************************************************************************)

LEMMA TaskOKForward ==
  ASSUME NEW x \in TaskRecord, NEW m \in Int, NEW n \in Int, m <= n,
         NEW q \in SnapshotRecord \cup {NoRow}, NEW p \in SnapshotRecord \cup {NoRow},
         TaskOK(x, q, m), Forward(q, p)
  PROVE  TaskOK(x, p, n)
<1>1. x.pc \in {"stored", "held"} => supersedes(p, x.snap)
  <2> SUFFICES ASSUME x.pc \in {"stored", "held"} PROVE supersedes(p, x.snap)
    OBVIOUS
  <2>1. x.snap \in SnapshotRecord /\ q # NoRow /\ supersedes(q, x.snap)
    BY DEF TaskOK, SaveUnderWay
  <2>2. p # NoRow /\ supersedes(p, q)
    BY <2>1 DEF Forward
  <2>3. p \in SnapshotRecord /\ q \in SnapshotRecord
    BY <2>1, <2>2
  <2> QED
    BY <2>1, <2>2, <2>3, SupersedesIsTransitive
<1>2. x.pc = "resolve" => x.current <= n
  <2>1. x.current \in Int
    BY DEF TaskRecord
  <2> QED
    BY <2>1 DEF TaskOK
<1> QED
  BY <1>1, <1>2 DEF TaskOK, Forward

\* One task takes the state x; the row stays or moves forward.
LEMMA OneTaskSteps ==
  ASSUME Inv, NEW t \in Tasks, NEW x \in TaskRecord, Become(t, x),
         UNCHANGED sourceVars,
         row' \in SnapshotRecord \cup {NoRow}, Forward(row, row'),
         TaskOK(x, row', Revision)
  PROVE  /\ SourceOK'
         /\ task' \in [Tasks -> TaskRecord]
         /\ \A u \in Tasks : TaskOK(task'[u], row', Revision')
<1>1. SourceOK' /\ Revision' = Revision /\ Revision \in Int
  BY DEF Inv, SourceOK, sourceVars, Revision
<1>2. task \in [Tasks -> TaskRecord] /\ row \in SnapshotRecord \cup {NoRow}
  BY DEF Inv, CopyOK
<1>3. task' = [task EXCEPT ![t] = x]
  BY DEF Become
<1>4. ASSUME NEW u \in Tasks PROVE TaskOK(task'[u], row', Revision')
  <2>1. CASE u = t
    BY <2>1, <1>1, <1>2, <1>3
  <2>2. CASE u # t
    <3>1. task'[u] = task[u] /\ task[u] \in TaskRecord
      BY <2>2, <1>2, <1>3
    <3>2. TaskOK(task[u], row, Revision)
      BY DEF Inv
    <3>3. TaskOK(task[u], row', Revision)
      BY <1>1, <1>2, <3>1, <3>2, TaskOKForward
    <3> QED
      BY <1>1, <3>1, <3>3
  <2> QED
    BY <2>1, <2>2
<1>5. task' \in [Tasks -> TaskRecord]
  BY <1>2, <1>3
<1> QED
  BY <1>1, <1>4, <1>5

\* What was acknowledged stays held.
LEMMA AckedStaysHeld ==
  ASSUME Inv, row' \in SnapshotRecord \cup {NoRow}, Forward(row, row'),
         acked' = acked
  PROVE  AckedIsHeld'
<1> SUFFICES ASSUME NEW s \in acked PROVE row' # NoRow /\ supersedes(row', s)
  BY DEF AckedIsHeld
<1>1. row # NoRow /\ supersedes(row, s)
  BY DEF Inv, AckedIsHeld
<1>2. s \in SnapshotRecord /\ row \in SnapshotRecord
  BY <1>1 DEF Inv, CopyOK
<1>3. row' # NoRow /\ supersedes(row', row)
  BY <1>1 DEF Forward
<1> QED
  BY <1>1, <1>2, <1>3, SupersedesIsTransitive

\* The row that is there may stay.
LEMMA StayingIsForward ==
  ASSUME CopyOK PROVE Forward(row, row)
<1>1. CASE row = NoRow
  BY <1>1 DEF Forward
<1>2. CASE row \in SnapshotRecord
  BY <1>2, SupersedesItself DEF Forward
<1> QED
  BY <1>1, <1>2 DEF CopyOK

\* A step of one task that leaves the row, and what was acknowledged, alone.
LEMMA QuietStep ==
  ASSUME Inv, NEW t \in Tasks, NEW x \in TaskRecord, Become(t, x),
         UNCHANGED <<sourceVars, row, acked>>,
         TaskOK(x, row, Revision)
  PROVE  Inv'
<1>1. row' = row /\ acked' = acked /\ UNCHANGED sourceVars
  OBVIOUS
<1>2. Forward(row, row') /\ row' \in SnapshotRecord \cup {NoRow}
  BY <1>1, StayingIsForward DEF Inv, CopyOK
<1>3. SourceOK' /\ task' \in [Tasks -> TaskRecord]
        /\ \A u \in Tasks : TaskOK(task'[u], row', Revision')
  BY <1>1, <1>2, OneTaskSteps
<1>4. AckedIsHeld'
  BY <1>1, <1>2, AckedStaysHeld
<1>5. CopyOK'
  BY <1>1, <1>2, <1>3 DEF Inv, CopyOK
<1> QED
  BY <1>3, <1>4, <1>5 DEF Inv

\* A step of one task that stores its snapshot.
LEMMA StoringStep ==
  ASSUME Inv, NEW t \in Tasks, task[t].snap \in SnapshotRecord,
         SaveUnderWay(task[t]),
         row # NoRow => supersedes(task[t].snap, row),
         row' = task[t].snap, Stored(t, TRUE),
         UNCHANGED <<sourceVars, acked>>
  PROVE  Inv' /\ Forward(row, row')
<1> DEFINE x == [task[t] EXCEPT !.pc = "stored"]
<1>1. task[t] \in TaskRecord
  BY DEF Inv, CopyOK
<1>2. x \in TaskRecord /\ x.snap = task[t].snap /\ x.current = task[t].current
        /\ x.pc = "stored"
  BY <1>1 DEF TaskRecord
<1>3. Become(t, x)
  BY DEF Stored
<1> HIDE DEF x
<1>4. row' \in SnapshotRecord /\ row' # NoRow
  BY SnapshotIsARow
<1>5. Forward(row, row')
  BY <1>4 DEF Forward
<1>6. supersedes(row', x.snap)
  BY <1>2, <1>4, SupersedesItself
<1>7. TaskOK(x, row', Revision)
  BY <1>2, <1>4, <1>6 DEF TaskOK, SaveUnderWay
<1>8. SourceOK' /\ task' \in [Tasks -> TaskRecord]
        /\ \A u \in Tasks : TaskOK(task'[u], row', Revision')
  BY <1>2, <1>3, <1>4, <1>5, <1>7, OneTaskSteps
<1>9. AckedIsHeld'
  BY <1>4, <1>5, AckedStaysHeld
<1>10. CopyOK'
  BY <1>4, <1>8 DEF Inv, CopyOK
<1> QED
  BY <1>5, <1>8, <1>9, <1>10 DEF Inv

-----------------------------------------------------------------------------
(***************************************************************************)
(* The save.                                                               *)
(***************************************************************************)

LEMMA UpdateStep ==
  ASSUME Inv, NEW t \in Tasks, Update(t)
  PROVE  Inv' /\ Forward(row, row')
<1>1. task[t] \in TaskRecord /\ TaskOK(task[t], row, Revision) /\ CopyOK
  BY DEF Inv, CopyOK
<1>2. SaveUnderWay(task[t]) /\ task[t].pc \in {"update", "again"}
  BY <1>1 DEF Update, TaskOK
<1>3. CASE row # NoRow /\ supersedes(task[t].snap, row)
  BY <1>2, <1>3, StoringStep DEF Update, SaveUnderWay
<1>4. CASE ~(row # NoRow /\ supersedes(task[t].snap, row))
  <2>1. UNCHANGED <<sourceVars, row, acked>>
    BY <1>4 DEF Update
  <2>2. Forward(row, row')
    BY <2>1, <1>1, StayingIsForward
  <2>3. CASE task[t].pc = "update"
    <3> DEFINE x == [task[t] EXCEPT !.pc = "create"]
    <3>1. Become(t, x)
      BY <1>4, <2>3 DEF Update
    <3>2. x \in TaskRecord /\ x.snap = task[t].snap /\ x.current = task[t].current
            /\ x.pc = "create"
      BY <1>1 DEF TaskRecord
    <3> HIDE DEF x
    <3>3. TaskOK(x, row, Revision)
      BY <1>2, <3>2 DEF TaskOK, SaveUnderWay
    <3> QED
      BY <2>1, <2>2, <3>1, <3>2, <3>3, QuietStep
  <2>4. CASE task[t].pc = "again"
    <3> DEFINE x == [task[t] EXCEPT !.pc = "held"]
    <3>1. Become(t, x)
      BY <1>4, <2>4 DEF Update, Stored
    <3>2. x \in TaskRecord /\ x.snap = task[t].snap /\ x.current = task[t].current
            /\ x.pc = "held"
      BY <1>1 DEF TaskRecord
    <3> HIDE DEF x
    <3>3. row # NoRow /\ row \in SnapshotRecord
      BY <1>1, <2>4 DEF TaskOK, CopyOK
    <3>4. supersedes(row, x.snap)
      <4>1. ~supersedes(task[t].snap, row) /\ task[t].snap \in SnapshotRecord
        BY <1>2, <1>4, <3>3 DEF SaveUnderWay
      <4> QED
        BY <3>2, <3>3, <4>1, SourceAssumption DEF supersedes, SnapshotRecord
    <3>5. TaskOK(x, row, Revision)
      BY <1>2, <3>2, <3>3, <3>4 DEF TaskOK, SaveUnderWay
    <3> QED
      BY <2>1, <2>2, <3>1, <3>2, <3>5, QuietStep
  <2> QED
    BY <1>2, <2>3, <2>4
<1> QED
  BY <1>3, <1>4

LEMMA CreateStep ==
  ASSUME Inv, NEW t \in Tasks, Create(t)
  PROVE  Inv' /\ Forward(row, row')
<1>1. task[t] \in TaskRecord /\ TaskOK(task[t], row, Revision) /\ CopyOK
  BY DEF Inv, CopyOK
<1>2. SaveUnderWay(task[t])
  BY <1>1 DEF Create, TaskOK
<1>3. CASE row = NoRow
  BY <1>2, <1>3, StoringStep DEF Create, SaveUnderWay
<1>4. CASE row # NoRow
  <2> DEFINE x == [task[t] EXCEPT !.pc = "again"]
  <2>1. UNCHANGED <<sourceVars, row, acked>> /\ Become(t, x)
    BY <1>4 DEF Create
  <2>2. x \in TaskRecord /\ x.snap = task[t].snap /\ x.current = task[t].current
          /\ x.pc = "again"
    BY <1>1 DEF TaskRecord
  <2> HIDE DEF x
  <2>3. TaskOK(x, row, Revision)
    BY <1>2, <1>4, <2>2 DEF TaskOK, SaveUnderWay
  <2>4. Forward(row, row')
    BY <1>1, <2>1, StayingIsForward
  <2> QED
    BY <2>1, <2>2, <2>3, <2>4, QuietStep
<1> QED
  BY <1>3, <1>4

-----------------------------------------------------------------------------
(***************************************************************************)
(* The consumer.                                                           *)
(***************************************************************************)

LEMMA SnapshotsAreTyped ==
  SnapshotRecord \cup {NoRow} \subseteq SnapshotOrNone
BY SourceAssumption DEF SnapshotRecord, SnapshotOrNone, NoRow

LEMMA ZeroIsATime == 0 \in Times
BY SourceAssumption DEF Times

LEMMA IdleIsFine ==
  Idle \in TaskRecord /\ \A q, n : TaskOK(Idle, q, n)
<1>1. Idle \in TaskRecord
  BY SnapshotsAreTyped, ZeroIsATime DEF Idle, TaskRecord
<1> QED
  BY <1>1 DEF Idle, TaskOK

LEMMA ReceiveStep ==
  ASSUME Inv, NEW h \in Handlers, Receive(h)
  PROVE  Inv'
<1>1. PICK i \in 1 .. Len(sent) :
        Become(h, [Idle EXCEPT !.pc = "update", !.snap = sent[i]])
  BY DEF Receive
<1> DEFINE x == [Idle EXCEPT !.pc = "update", !.snap = sent[i]]
<1>2. sent[i] \in SnapshotRecord
  BY DEF Inv, SourceOK
<1>3. x.snap = sent[i] /\ x.current = -1 /\ x.pc = "update"
  BY DEF Idle
<1>4. x \in TaskRecord
  <2>1. sent[i] \in SnapshotOrNone
    BY <1>2, SnapshotsAreTyped
  <2> QED
    BY <2>1, ZeroIsATime DEF Idle, TaskRecord
<1>5. Become(h, x) /\ UNCHANGED <<sourceVars, row, acked>>
  BY <1>1 DEF Receive
<1> HIDE DEF x
<1>6. TaskOK(x, row, Revision)
  BY <1>2, <1>3, SnapshotIsARow DEF TaskOK, SaveUnderWay
<1> QED
  BY <1>4, <1>5, <1>6, QuietStep DEF Tasks

LEMMA AckStep ==
  ASSUME Inv, NEW h \in Handlers, Ack(h)
  PROVE  Inv'
<1>1. h \in Tasks /\ TaskOK(task[h], row, Revision)
  BY DEF Inv, Tasks
<1>2. /\ task[h].snap \in SnapshotRecord
      /\ row # NoRow /\ supersedes(row, task[h].snap)
  BY <1>1 DEF Ack, TaskOK, SaveUnderWay
<1>3. UNCHANGED sourceVars /\ row' = row
        /\ acked' = acked \cup {task[h].snap} /\ Become(h, Idle)
  BY DEF Ack
<1>4. Forward(row, row') /\ row' \in SnapshotRecord \cup {NoRow}
  BY <1>3, StayingIsForward DEF Inv, CopyOK
<1>5. SourceOK' /\ task' \in [Tasks -> TaskRecord]
        /\ \A u \in Tasks : TaskOK(task'[u], row', Revision')
  BY <1>1, <1>3, <1>4, IdleIsFine, OneTaskSteps
<1>6. AckedIsHeld'
  BY <1>2, <1>3 DEF Inv, AckedIsHeld
<1>7. CopyOK'
  BY <1>2, <1>3, <1>4, <1>5 DEF Inv, CopyOK
<1> QED
  BY <1>5, <1>6, <1>7 DEF Inv

LEMMA NackStep ==
  ASSUME Inv, NEW h \in Handlers, Nack(h)
  PROVE  Inv'
<1>1. h \in Tasks /\ TaskOK(task[h], row, Revision)
  BY DEF Inv, Tasks
<1>3. UNCHANGED sourceVars /\ row' = row /\ acked' = acked /\ Become(h, Idle)
  BY DEF Nack
<1>4. Forward(row, row') /\ row' \in SnapshotRecord \cup {NoRow}
  BY <1>3, StayingIsForward DEF Inv, CopyOK
<1>5. SourceOK' /\ task' \in [Tasks -> TaskRecord]
        /\ \A u \in Tasks : TaskOK(task'[u], row', Revision')
  BY <1>1, <1>3, <1>4, IdleIsFine, OneTaskSteps
<1>6. AckedIsHeld'
  BY <1>3, <1>4, AckedStaysHeld
<1>7. CopyOK'
  BY <1>3, <1>4, <1>5 DEF Inv, CopyOK
<1> QED
  BY <1>5, <1>6, <1>7 DEF Inv

-----------------------------------------------------------------------------
(***************************************************************************)
(* The readers.                                                            *)
(***************************************************************************)

LEMMA GetStep ==
  ASSUME Inv, NEW r \in Readers, Get(r)
  PROVE  Inv'
<1> DEFINE x == [Idle EXCEPT !.pc = "check", !.snap = row]
<1>1. Become(r, x) /\ UNCHANGED <<sourceVars, row, acked>>
  BY DEF Get
<1>2. x.snap = row /\ x.current = -1 /\ x.pc = "check"
  BY DEF Idle
<1>3. x \in TaskRecord
  <2>1. row \in SnapshotOrNone
    BY SnapshotsAreTyped DEF Inv, CopyOK
  <2> QED
    BY <2>1, ZeroIsATime DEF Idle, TaskRecord
<1> HIDE DEF x
<1>4. TaskOK(x, row, Revision)
  BY <1>2 DEF TaskOK
<1> QED
  BY <1>1, <1>3, <1>4, QuietStep DEF Tasks

LEMMA CheckStep ==
  ASSUME Inv, NEW r \in Readers, Check(r)
  PROVE  Inv'
<1>1. r \in Tasks /\ task[r] \in TaskRecord /\ TaskOK(task[r], row, Revision)
        /\ clock \in Times /\ task[r].pc = "check"
  BY DEF Inv, CopyOK, SourceOK, Tasks, Check
<1> DEFINE fresh == task[r].snap # NoRow /\ ~isStale(task[r].snap, clock)
           x == [task[r] EXCEPT !.pc = IF fresh THEN "served" ELSE "ask",
                                !.check = clock]
<1>2. Become(r, x) /\ UNCHANGED <<sourceVars, row, acked>>
  BY DEF Check
<1>3. /\ x.snap = task[r].snap /\ x.current = task[r].current
      /\ x.pc = IF fresh THEN "served" ELSE "ask"
      /\ x \in TaskRecord
  BY <1>1 DEF TaskRecord
<1> HIDE DEF x, fresh
<1>4. x.current = -1 /\ x.snap.version \in Nat \cup {-1}
  BY <1>1, <1>3 DEF TaskOK, TaskRecord, SnapshotOrNone
<1>5. TaskOK(x, row, Revision)
  BY <1>3, <1>4 DEF TaskOK
<1> QED
  BY <1>1, <1>2, <1>3, <1>5, QuietStep

LEMMA AskStep ==
  ASSUME Inv, NEW r \in Readers, Ask(r)
  PROVE  Inv'
<1>1. r \in Tasks /\ task[r] \in TaskRecord /\ clock \in Times /\ Revision \in Nat
  BY DEF Inv, CopyOK, SourceOK, Tasks, Revision
<1> DEFINE x == [task[r] EXCEPT !.pc = "resolve", !.snap = NoRow,
                                !.asOf = clock, !.current = Revision]
<1>2. Become(r, x) /\ UNCHANGED <<sourceVars, row, acked>>
  BY DEF Ask
<1>3. x.snap = NoRow /\ x.current = Revision /\ x.pc = "resolve" /\ x \in TaskRecord
  BY <1>1, SnapshotsAreTyped DEF TaskRecord
<1> HIDE DEF x
<1>4. TaskOK(x, row, Revision)
  BY <1>1, <1>3 DEF TaskOK
<1> QED
  BY <1>1, <1>2, <1>3, <1>4, QuietStep

LEMMA AnswerStep ==
  ASSUME Inv, NEW r \in Readers, Answer(r)
  PROVE  Inv'
<1>1. r \in Tasks /\ task[r] \in TaskRecord /\ TaskOK(task[r], row, Revision)
        /\ Revision \in 0 .. Revision /\ task[r].pc = "resolve"
  BY DEF Inv, CopyOK, SourceOK, Tasks, Revision, Answer
<1>2. PICK s : s = Snapshot(Revision, task[r].asOf)
  OBVIOUS
<1>3. s \in SnapshotRecord
  <2>1. task[r].asOf \in Times
    BY <1>1 DEF TaskRecord
  <2> QED
    BY <1>1, <1>2, <2>1, SnapshotIsOne DEF Inv
<1>4. s.version = Revision
  BY <1>2 DEF Snapshot
<1> DEFINE x == [task[r] EXCEPT !.pc = "update", !.asOf = 0, !.snap = s]
<1>5. Become(r, x) /\ UNCHANGED <<sourceVars, row, acked>>
  BY <1>2 DEF Answer, Become
<1>6. /\ x.snap = s /\ x.current = task[r].current /\ x.pc = "update"
      /\ x \in TaskRecord
  <2>1. s \in SnapshotOrNone
    BY <1>3, SnapshotsAreTyped
  <2> QED
    BY <1>1, <2>1, ZeroIsATime DEF TaskRecord
<1> HIDE DEF x
<1>7. x.current <= Revision
  BY <1>1, <1>6 DEF TaskOK
<1>8. TaskOK(x, row, Revision)
  <2>1. SaveUnderWay(x)
    <3>1. x.snap.version >= x.current
      BY <1>1, <1>4, <1>6, <1>7 DEF TaskRecord
    <3> QED
      BY <1>3, <1>6, <3>1 DEF SaveUnderWay
  <2> QED
    BY <1>6, <2>1 DEF TaskOK
<1> QED
  BY <1>1, <1>5, <1>6, <1>8, QuietStep

LEMMA ServeStep ==
  ASSUME Inv, NEW r \in Readers, Serve(r)
  PROVE  Inv'
<1>1. r \in Tasks /\ task[r] \in TaskRecord /\ TaskOK(task[r], row, Revision)
        /\ task[r].pc \in {"stored", "held"} /\ CopyOK
  BY DEF Inv, CopyOK, Tasks, Serve
<1>2. /\ SaveUnderWay(task[r])
      /\ row # NoRow /\ supersedes(row, task[r].snap)
  BY <1>1 DEF TaskOK
<1>3. PICK s : s = IF task[r].pc = "stored" \/ row = NoRow THEN task[r].snap ELSE row
  OBVIOUS
<1>4. s \in SnapshotRecord /\ s.version >= task[r].current
  <2>1. row \in SnapshotRecord /\ task[r].snap \in SnapshotRecord
          /\ task[r].snap.version >= task[r].current
    BY <1>1, <1>2 DEF CopyOK, SaveUnderWay
  <2>2. row.version >= task[r].snap.version
    BY <1>2, <2>1, SupersedingIsNoOlder
  <2>3. row.version \in Nat /\ task[r].snap.version \in Nat /\ task[r].current \in Int
    BY <1>1, <2>1 DEF SnapshotRecord, TaskRecord
  <2>4. row.version >= task[r].current
    BY <2>1, <2>2, <2>3
  <2> QED
    BY <1>3, <2>1, <2>4
<1> DEFINE x == [task[r] EXCEPT !.pc = "served", !.snap = s]
<1>5. Become(r, x) /\ UNCHANGED <<sourceVars, row, acked>>
  BY <1>3 DEF Serve, Become
<1>6. /\ x.snap = s /\ x.current = task[r].current /\ x.pc = "served"
      /\ x \in TaskRecord
  BY <1>1, <1>4, SnapshotsAreTyped DEF TaskRecord
<1> HIDE DEF x
<1>7. TaskOK(x, row, Revision)
  BY <1>4, <1>6 DEF TaskOK
<1> QED
  BY <1>1, <1>5, <1>6, <1>7, QuietStep

LEMMA LeaveStep ==
  ASSUME Inv, NEW r \in Readers, Leave(r)
  PROVE  Inv'
BY IdleIsFine, QuietStep DEF Leave, Tasks

-----------------------------------------------------------------------------
(***************************************************************************)
(* The subscription service.                                               *)
(***************************************************************************)

LEMMA SourceStep ==
  ASSUME Inv, Source
  PROVE  Inv'
<1>1. row' = row /\ task' = task /\ acked' = acked
  BY DEF Source
<1>2. SourceOK' /\ Revision <= Revision' /\ Revision \in Int /\ Revision' \in Int
  <2>1. CASE Tick
    BY <2>1, SourceAssumption DEF Tick, Inv, SourceOK, Times, Revision
  <2>2. CASE Change
    <3>1. PICK u \in Untils :
            revisions' = Append(revisions, [since |-> clock, until |-> u])
      BY <2>2 DEF Change
    <3>2. [since |-> clock, until |-> u] \in RevisionRecord
      BY DEF Inv, SourceOK, RevisionRecord
    <3>3. clock' = clock /\ sent' = sent
      BY <2>2 DEF Change
    <3> QED
      BY <3>1, <3>2, <3>3 DEF Inv, SourceOK, Revision
  <2>3. CASE Announce
    <3>1. PICK v \in (Announced + 1) .. Revision, t \in 0 .. clock :
            sent' = Append(sent, Snapshot(v, t))
      BY <2>3 DEF Announce
    <3>2. Announced \in Nat \cup {-1}
      <4>1. sent \in Seq(SnapshotRecord)
        BY DEF Inv, SourceOK
      <4>2. sent # <<>> => sent[Len(sent)] \in SnapshotRecord
        BY <4>1
      <4> QED
        BY <4>2 DEF Announced, SnapshotRecord
    <3>3. v \in 0 .. Revision /\ t \in Times
      BY <3>2, SourceAssumption DEF Inv, SourceOK, Times, Revision
    <3>4. Snapshot(v, t) \in SnapshotRecord
      BY <3>3, SnapshotIsOne DEF Inv
    <3>5. clock' = clock /\ revisions' = revisions
      BY <2>3 DEF Announce
    <3>6. PICK w : w = Snapshot(v, t)
      OBVIOUS
    <3>7. sent' = Append(sent, w) /\ w \in SnapshotRecord
      BY <3>1, <3>4, <3>6
    <3>8. sent' \in Seq(SnapshotRecord)
      BY <3>7 DEF Inv, SourceOK
    <3> QED
      BY <3>5, <3>8 DEF Inv, SourceOK, Revision
  <2> QED
    BY <2>1, <2>2, <2>3 DEF Source
<1>3. Forward(row, row) /\ row \in SnapshotRecord \cup {NoRow}
        /\ task \in [Tasks -> TaskRecord]
  BY StayingIsForward DEF Inv, CopyOK
<1>4. ASSUME NEW u \in Tasks PROVE TaskOK(task[u], row, Revision')
  <2>1. task[u] \in TaskRecord /\ TaskOK(task[u], row, Revision)
    BY <1>3 DEF Inv
  <2> QED
    BY <1>2, <1>3, <2>1, TaskOKForward
<1>5. CopyOK' /\ AckedIsHeld'
  BY <1>1 DEF Inv, CopyOK, AckedIsHeld
<1> QED
  BY <1>1, <1>2, <1>4, <1>5 DEF Inv

-----------------------------------------------------------------------------
(***************************************************************************)
(* The theorems.                                                           *)
(***************************************************************************)

LEMMA InitialInv ==
  ASSUME Init
  PROVE  Inv
<1>1. PICK u \in Untils : revisions = <<[since |-> 0, until |-> u]>>
  BY DEF Init, SourceInit
<1>2. [since |-> 0, until |-> u] \in RevisionRecord
  BY ZeroIsATime DEF RevisionRecord
<1>3. SourceOK
  BY <1>1, <1>2, ZeroIsATime DEF Init, SourceInit, SourceOK
<1>4. CopyOK
  BY IdleIsFine DEF Init, CopyOK
<1>5. \A t \in Tasks : TaskOK(task[t], row, Revision)
  BY IdleIsFine DEF Init
<1> QED
  BY <1>3, <1>4, <1>5 DEF Init, Inv, AckedIsHeld

\* A step keeps the invariant, and the row if it does not move forward.
LEMMA NextKeepsInv ==
  ASSUME Inv, [Next]_vars
  PROVE  Inv' /\ Forward(row, row')
<1>1. CASE UNCHANGED vars
  <2>1. Forward(row, row')
    BY <1>1, StayingIsForward DEF Inv, vars
  <2>2. SourceOK' /\ CopyOK' /\ AckedIsHeld'
    BY <1>1 DEF Inv, SourceOK, CopyOK, AckedIsHeld, vars
  <2>3. \A t \in Tasks : TaskOK(task'[t], row', Revision')
    BY <1>1 DEF Inv, Revision, vars
  <2> QED
    BY <2>1, <2>2, <2>3 DEF Inv
<1>2. ASSUME row' = row PROVE Forward(row, row')
  BY <1>2, StayingIsForward DEF Inv
<1>3. CASE Source
  BY <1>2, <1>3, SourceStep DEF Source
<1>4. CASE \E t \in Tasks : Update(t) \/ Create(t)
  BY <1>4, UpdateStep, CreateStep
<1>5. CASE \E h \in Handlers : Receive(h) \/ Ack(h) \/ Nack(h)
  <2>1. Inv'
    BY <1>5, ReceiveStep, AckStep, NackStep
  <2>2. row' = row
    BY <1>5 DEF Receive, Ack, Nack
  <2> QED
    BY <1>2, <2>1, <2>2
<1>6. CASE \E r \in Readers : \/ Get(r) \/ Check(r) \/ Ask(r) \/ Answer(r)
                              \/ Serve(r) \/ Leave(r)
  <2>1. Inv'
    BY <1>6, GetStep, CheckStep, AskStep, AnswerStep, ServeStep, LeaveStep
  <2>2. row' = row
    BY <1>6 DEF Get, Check, Ask, Answer, Serve, Leave
  <2> QED
    BY <1>2, <2>1, <2>2
<1> QED
  BY <1>1, <1>3, <1>4, <1>5, <1>6 DEF Next

\* The inductive invariant: every copy in flight is bounded by what its holder
\* has seen of the row and of the account.
THEOREM ProjectionInvariant == Spec => []Inv
<1>1. Init => Inv
  BY InitialInv
<1>2. Inv /\ [Next]_vars => Inv'
  BY NextKeepsInv
<1> QED
  BY <1>1, <1>2, PTL DEF Spec

\* The variables keep their types (all saves and reads of the row).
THEOREM ProjectionTypeCorrect == Spec => []TypeOK
<1>1. Inv => TypeOK
  <2> SUFFICES ASSUME Inv PROVE TypeOK
    OBVIOUS
  <2>1. SnapshotRecord \subseteq SnapshotOrNone /\ row \in SnapshotOrNone
    BY SnapshotsAreTyped DEF Inv, CopyOK
  <2>2. sent \in Seq(SnapshotOrNone)
    BY <2>1 DEF Inv, SourceOK
  <2>3. acked \subseteq SnapshotOrNone
    BY <2>1 DEF Inv, CopyOK
  <2> QED
    BY <2>1, <2>2, <2>3 DEF Inv, SourceOK, CopyOK, TypeOK, TaskRecord
<1> QED
  BY <1>1, ProjectionInvariant, PTL

\* A message is acknowledged only when the row holds its snapshot or a later
\* one, and from then on the row always does (consumer, handle; save).
THEOREM AckedStaysInForce == Spec => []AckedIsHeld
<1>1. Inv => AckedIsHeld
  BY DEF Inv
<1> QED
  BY <1>1, ProjectionInvariant, PTL

\* The row never goes back, whichever savers interleave (save).
THEOREM RowNeverGoesBack == Spec => RowMovesForward
<1>1. Inv /\ [Next]_vars => [row # NoRow => supersedes(row', row)]_row
  BY NextKeepsInv DEF Forward
<1> QED
  BY <1>1, ProjectionInvariant, PTL DEF Spec, RowMovesForward

\* A call that asked is decided on a revision no older than the account's when
\* it asked, whoever else saved meanwhile (getFeature).
THEOREM ReadThroughNeverLags == Spec => []ReadThroughIsCurrent
<1>1. Inv => ReadThroughIsCurrent
  BY DEF Inv, TaskOK, ReadThroughIsCurrent, Tasks
<1> QED
  BY <1>1, ProjectionInvariant, PTL

=============================================================================

------------------------- MODULE MeteredCalls_proofs -------------------------
(***************************************************************************)
(* What the ledger of model calls guarantees for any calls, any number of  *)
(* processes, any batch size, any number of tries and of faults.           *)
(***************************************************************************)
EXTENDS MeteredCalls, TLAPS, FiniteSetTheorems, WellFoundedInduction

-----------------------------------------------------------------------------
(***************************************************************************)
(* The inductive invariant: a batch in hand is the head of the spool as it *)
(* is by now, because nobody but the holder of the lock has one.           *)
(***************************************************************************)

Working == {"write", "park", "trim"}
Batching(i) == drain[i].pc \in Working

HolderOnly == \A i \in Instances : drain[i].pc # "idle" => lock = i

BatchIsHead ==
  \A i \in Instances : Batching(i) =>
    /\ Len(drain[i].batch) <= Len(spool)
    /\ \A j \in 1 .. Len(drain[i].batch) : drain[i].batch[j] = spool[j]

WithinBatch ==
  \A i \in Instances : Batching(i) =>
    /\ drain[i].done <= Len(drain[i].batch)
    /\ drain[i].pc # "trim" => drain[i].done < Len(drain[i].batch)

\* What is done with has been written or parked.
WorkDone ==
  \A i \in Instances : Batching(i) =>
    \A j \in 1 .. drain[i].done : drain[i].batch[j] \in rows \cup dead

LedgerInv == LedgerTypeOK /\ HolderOnly /\ BatchIsHead /\ WithinBatch /\ WorkDone
             /\ NoRowVanishes

\* What a step of the gate or of the reconciler leaves of the ledger.
FaultOnly == Frame /\ faults' \in Nat
LedgerStep == LedgerNext \/ FaultOnly \/ UNCHANGED ledgerVars

DrainPc == {"idle", "range", "write", "park", "trim", "release"}
DrainRecord == [pc : DrainPc, batch : Seq(Calls), done : Nat]
RecordPc == {"none", "write", "push", "done", "gone"}
RecordRecord == [pc : RecordPc, tries : Nat]

-----------------------------------------------------------------------------
(***************************************************************************)
(* What each way of writing down a drainer's progress leaves of it.        *)
(***************************************************************************)

LEMMA DrainingMoves ==
  ASSUME LedgerTypeOK, NEW i \in Instances, NEW pc \in DrainPc, Draining(i, pc)
  PROVE  /\ drain' \in [Instances -> DrainRecord]
         /\ \A j \in Instances : j # i => drain'[j] = drain[j]
         /\ drain'[i].pc = pc
         /\ drain'[i].batch = drain[i].batch
         /\ drain'[i].done = drain[i].done
BY DEF LedgerTypeOK, DrainPc, DrainRecord, Draining

LEMMA EntryDoneMoves ==
  ASSUME LedgerTypeOK, NEW i \in Instances, EntryDone(i)
  PROVE  /\ drain' \in [Instances -> DrainRecord]
         /\ \A j \in Instances : j # i => drain'[j] = drain[j]
         /\ drain'[i].pc = IF drain[i].done + 1 < Len(drain[i].batch) THEN "write" ELSE "trim"
         /\ drain'[i].batch = drain[i].batch
         /\ drain'[i].done = drain[i].done + 1
BY DEF LedgerTypeOK, DrainPc, DrainRecord, EntryDone

LEMMA RecordingMoves ==
  ASSUME LedgerTypeOK, NEW c \in Calls, NEW pc \in RecordPc, Recording(c, pc)
  PROVE  /\ record' \in [Calls -> RecordRecord]
         /\ record'[c].pc = pc
         /\ \A d \in Calls : d # c => record'[d] = record[d]
BY DEF LedgerTypeOK, RecordPc, RecordRecord, Recording

LEMMA WriteFailedMoves ==
  ASSUME LedgerTypeOK, NEW c \in Calls, WriteFailed(c)
  PROVE  /\ record' \in [Calls -> RecordRecord]
         /\ record'[c].pc \in {"write", "push"}
         /\ \A d \in Calls : d # c => record'[d] = record[d]
BY DEF LedgerTypeOK, RecordPc, RecordRecord, WriteFailed

-----------------------------------------------------------------------------
(***************************************************************************)
(* Type correctness of the ledger.                                         *)
(***************************************************************************)

LEMMA BatchOfSpool ==
  ASSUME LedgerTypeOK
  PROVE  /\ Oldest(Batch) \in Seq(Calls)
         /\ Len(Oldest(Batch)) <= Len(spool)
         /\ spool # <<>> => Len(Oldest(Batch)) > 0
         /\ \A j \in 1 .. Len(Oldest(Batch)) : Oldest(Batch)[j] = spool[j]
<1> DEFINE n == IF Batch < Len(spool) THEN Batch ELSE Len(spool)
<1>1. spool \in Seq(Calls) /\ Batch \in Nat \ {0}
  BY LedgerAssumption DEF LedgerTypeOK
<1>2. n \in 0 .. Len(spool) /\ (spool # <<>> => n > 0)
  BY <1>1
<1>3. Oldest(Batch) = SubSeq(spool, 1, n)
  BY DEF Oldest
<1> HIDE DEF n
<1>4. QED
  BY <1>1, <1>2, <1>3

LEMMA LedgerTypeInit == LedgerInit => LedgerTypeOK
BY LedgerAssumption DEF LedgerInit, LedgerTypeOK, Unrecorded, Resting

StoresTypeOK == db \in BOOLEAN /\ redis \in BOOLEAN /\ faults \in Nat
DataTypeOK ==
  /\ rows \subseteq Calls /\ dead \subseteq Calls /\ logged \subseteq Calls
  /\ spool \in Seq(Calls)
  /\ lock \in Instances \cup {Nobody}
  /\ record \in [Calls -> RecordRecord]
  /\ drain \in [Instances -> DrainRecord]

LEMMA TypesSplit == LedgerTypeOK <=> StoresTypeOK /\ DataTypeOK
BY Zenon DEF LedgerTypeOK, StoresTypeOK, DataTypeOK, RecordRecord, RecordPc,
             DrainRecord, DrainPc

LEMMA StoresType ==
  ASSUME LedgerTypeOK,
         db' \in {db, TRUE, FALSE}, redis' \in {redis, TRUE, FALSE}, Fault \/ UNCHANGED faults
  PROVE  StoresTypeOK'
<1>1. db' \in BOOLEAN /\ redis' \in BOOLEAN
  BY Zenon DEF LedgerTypeOK
<1>2. faults' \in Nat
  BY DEF LedgerTypeOK, Fault
<1>3. QED
  BY <1>1, <1>2 DEF StoresTypeOK

LEMMA StoresStep ==
  ASSUME LedgerTypeOK, LedgerNext
  PROVE  StoresTypeOK'
<1> USE DEF stores, AnswerLostByDb, AnswerLostByRedis
<1>1. ASSUME NEW c \in Calls, BeginRecord(c) \/ Recorder(c) \/ CrashRecording(c)
      PROVE  StoresTypeOK'
  <2>1. /\ db' \in {db, TRUE, FALSE} /\ redis' \in {redis, TRUE, FALSE}
        /\ Fault \/ UNCHANGED faults
    BY <1>1, Zenon DEF BeginRecord, Recorder, WriteRecord, PushRecord, CrashRecording
  <2>2. QED
    BY <2>1, StoresType
<1>2. ASSUME NEW i \in Instances, Drainer(i) \/ CrashDrainer(i)
      PROVE  StoresTypeOK'
  <2>1. /\ db' \in {db, TRUE, FALSE} /\ redis' \in {redis, TRUE, FALSE}
        /\ Fault \/ UNCHANGED faults
    BY <1>2, Zenon DEF Drainer, TakeLock, ReadBatch, WriteEntry, ParkEntry, TrimSpool,
                       ReleaseLock, CrashDrainer
  <2>2. QED
    BY <2>1, StoresType
<1>3. ASSUME Outage \/ DbBack \/ RedisBack \/ LockLapses
      PROVE  StoresTypeOK'
  <2>1. /\ db' \in {db, TRUE, FALSE} /\ redis' \in {redis, TRUE, FALSE}
        /\ Fault \/ UNCHANGED faults
    BY <1>3, Zenon DEF Outage, DbBack, RedisBack, LockLapses
  <2>2. QED
    BY <2>1, StoresType
<1>4. QED
  BY <1>1, <1>2, <1>3 DEF LedgerNext, Weather

LEMMA RecorderData ==
  ASSUME LedgerTypeOK, NEW c \in Calls,
         BeginRecord(c) \/ Recorder(c) \/ CrashRecording(c)
  PROVE  DataTypeOK'
<1> DataTypeOK
  BY TypesSplit
<1>1. record' \in [Calls -> RecordRecord]
  <2>1. WriteFailed(c) \/ \E pc \in RecordPc : Recording(c, pc)
    BY Zenon DEF RecordPc, BeginRecord, Recorder, WriteRecord, PushRecord, CrashRecording
  <2>2. QED
    BY <2>1, RecordingMoves, WriteFailedMoves
<1>2. /\ rows' \in {rows, rows \cup {c}} /\ logged' \in {logged, logged \cup {c}}
      /\ spool' \in {spool, Append(spool, c)}
      /\ UNCHANGED <<dead, lock, drain>>
  BY Zenon DEF BeginRecord, Recorder, WriteRecord, PushRecord, CrashRecording
<1>3. spool' \in Seq(Calls)
  BY <1>2 DEF DataTypeOK
<1>4. QED
  BY <1>1, <1>2, <1>3 DEF DataTypeOK

LEMMA RestingMoves ==
  ASSUME LedgerTypeOK, NEW i \in Instances, drain' = [drain EXCEPT ![i] = Resting]
  PROVE  /\ drain' \in [Instances -> DrainRecord]
         /\ \A j \in Instances : j # i => drain'[j] = drain[j]
         /\ drain'[i] = Resting
<1>1. Resting \in DrainRecord
  BY DEF Resting, DrainRecord, DrainPc
<1>2. QED
  BY <1>1 DEF LedgerTypeOK, DrainRecord, DrainPc

LEMMA ReadingMoves ==
  ASSUME LedgerTypeOK, NEW i \in Instances,
         drain' = [drain EXCEPT ![i] = [pc |-> "write", batch |-> Oldest(Batch), done |-> 0]]
  PROVE  /\ drain' \in [Instances -> DrainRecord]
         /\ \A j \in Instances : j # i => drain'[j] = drain[j]
         /\ drain'[i] = [pc |-> "write", batch |-> Oldest(Batch), done |-> 0]
<1> DEFINE begun == [pc |-> "write", batch |-> Oldest(Batch), done |-> 0]
<1>1. begun \in DrainRecord
  BY BatchOfSpool DEF DrainRecord, DrainPc
<1> HIDE DEF begun
<1>2. QED
  BY <1>1 DEF LedgerTypeOK, DrainRecord, DrainPc, begun

\* The entry a drainer is at is a call.
LEMMA EntryInHand ==
  ASSUME LedgerTypeOK, WithinBatch, NEW i \in Instances, drain[i].pc \in {"write", "park"}
  PROVE  /\ drain[i].batch \in Seq(Calls) /\ drain[i].done \in Nat
         /\ drain[i].done + 1 <= Len(drain[i].batch)
         /\ drain[i].batch[drain[i].done + 1] \in Calls
<1>1. drain[i].batch \in Seq(Calls) /\ drain[i].done \in Nat
  BY DEF LedgerTypeOK
<1>2. drain[i].done < Len(drain[i].batch)
  BY DEF WithinBatch, Batching, Working
<1>3. QED
  BY <1>1, <1>2

LEMMA DrainerData ==
  ASSUME LedgerTypeOK, WithinBatch, NEW i \in Instances, Drainer(i) \/ CrashDrainer(i)
  PROVE  DataTypeOK'
<1> DataTypeOK
  BY TypesSplit
<1>1. drain' \in [Instances -> DrainRecord]
  <2>1. \/ EntryDone(i) \/ \E pc \in DrainPc : Draining(i, pc)
        \/ UNCHANGED drain
        \/ drain' = [drain EXCEPT ![i] = Resting]
        \/ drain' = [drain EXCEPT ![i] = [pc |-> "write", batch |-> Oldest(Batch), done |-> 0]]
    BY Zenon DEF DrainPc, Drainer, TakeLock, ReadBatch, WriteEntry, ParkEntry, TrimSpool,
                 ReleaseLock, CrashDrainer, BatchBreaks
  <2>2. QED
    BY <2>1, DrainingMoves, EntryDoneMoves, RestingMoves, ReadingMoves DEF DataTypeOK
<1>2. rows' \subseteq Calls /\ dead' \subseteq Calls
  <2> DEFINE c == drain[i].batch[drain[i].done + 1]
  <2>1. CASE WriteEntry(i) \/ ParkEntry(i)
    <3>1. drain[i].pc \in {"write", "park"}
      BY <2>1, Zenon DEF WriteEntry, ParkEntry
    <3>2. c \in Calls
      BY <3>1, EntryInHand
    <3>3. rows' \in {rows, rows \cup {c}} /\ dead' \in {dead, dead \cup {c}}
      BY <2>1, Zenon DEF WriteEntry, ParkEntry, stores
    <3> HIDE DEF c
    <3>4. QED
      BY <3>2, <3>3 DEF DataTypeOK
  <2>2. CASE UNCHANGED <<rows, dead>>
    BY <2>2 DEF DataTypeOK
  <2>3. QED
    BY <2>1, <2>2, Zenon DEF Drainer, TakeLock, ReadBatch, TrimSpool, ReleaseLock, CrashDrainer
<1>3. spool' \in Seq(Calls)
  <2>1. CASE spool' = SubSeq(spool, drain[i].done + 1, Len(spool))
    <3>1. spool \in Seq(Calls) /\ drain[i].done + 1 \in Nat \ {0}
      BY DEF DataTypeOK, DrainRecord
    <3> DEFINE n == drain[i].done + 1
    <3> HIDE DEF n
    <3>2. SubSeq(spool, n, Len(spool)) \in Seq(Calls)
      BY <3>1 DEF n
    <3>3. QED
      BY <3>2, <2>1 DEF n
  <2>2. CASE UNCHANGED spool
    BY <2>2 DEF DataTypeOK
  <2>3. QED
    BY <2>1, <2>2, Zenon DEF Drainer, TakeLock, ReadBatch, WriteEntry, ParkEntry, TrimSpool,
                             ReleaseLock, CrashDrainer
<1>4. lock' \in {lock, i, Nobody} /\ UNCHANGED <<logged, record>>
  BY Zenon DEF Drainer, TakeLock, ReadBatch, WriteEntry, ParkEntry, TrimSpool,
               ReleaseLock, CrashDrainer
<1>5. QED
  BY <1>1, <1>2, <1>3, <1>4 DEF DataTypeOK

LEMMA LedgerTypeStep ==
  ASSUME LedgerTypeOK, WithinBatch, LedgerStep
  PROVE  LedgerTypeOK'
<1>1. CASE LedgerNext
  <2>1. StoresTypeOK'
    BY <1>1, StoresStep
  <2>2. ASSUME Outage \/ DbBack \/ RedisBack \/ LockLapses PROVE DataTypeOK'
    <3>1. UNCHANGED <<rows, spool, dead, record, drain, logged>> /\ lock' \in {lock, Nobody}
      BY <2>2, Zenon DEF Outage, DbBack, RedisBack, LockLapses, stores
    <3>2. QED
      BY <3>1, TypesSplit DEF DataTypeOK
  <2>3. DataTypeOK'
    BY <1>1, <2>2, RecorderData, DrainerData DEF LedgerNext, Weather
  <2>4. QED
    BY <2>1, <2>3, TypesSplit, PTL
<1>2. CASE FaultOnly \/ UNCHANGED ledgerVars
  BY <1>2, Zenon DEF FaultOnly, Frame, ledgerVars, LedgerTypeOK
<1>3. QED
  BY <1>1, <1>2 DEF LedgerStep

-----------------------------------------------------------------------------
(***************************************************************************)
(* A drainer that is at something is alone: whoever else takes the lock    *)
(* finds it free, and it is free only when nobody is at anything.          *)
(***************************************************************************)

LEMMA OthersRest ==
  ASSUME HolderOnly, NEW i \in Instances, drain[i].pc # "idle" \/ lock = Nobody
  PROVE  \A j \in Instances : j # i => drain[j].pc = "idle"
BY LedgerAssumption DEF HolderOnly

\* Where a drainer stands after each of its steps.
LEMMA DrainerGoes ==
  ASSUME LedgerTypeOK, NEW i \in Instances, Drainer(i) \/ CrashDrainer(i)
  PROVE  /\ \A j \in Instances : j # i => drain'[j] = drain[j]
         /\ drain[i].pc # "idle" \/ lock = Nobody
<1>1. \/ EntryDone(i) \/ \E pc \in DrainPc : Draining(i, pc)
      \/ UNCHANGED drain
      \/ drain' = [drain EXCEPT ![i] = Resting]
      \/ drain' = [drain EXCEPT ![i] = [pc |-> "write", batch |-> Oldest(Batch), done |-> 0]]
  BY Zenon DEF DrainPc, Drainer, TakeLock, ReadBatch, WriteEntry, ParkEntry, TrimSpool,
               ReleaseLock, CrashDrainer, BatchBreaks
<1>2. \A j \in Instances : j # i => drain'[j] = drain[j]
  BY <1>1, DrainingMoves, EntryDoneMoves, RestingMoves, ReadingMoves
<1>3. drain[i].pc # "idle" \/ lock = Nobody
  BY DEF Drainer, TakeLock, ReadBatch, WriteEntry, ParkEntry, TrimSpool, ReleaseLock, CrashDrainer
<1>4. QED
  BY <1>2, <1>3

LEMMA DrainerHolds ==
  ASSUME LedgerTypeOK, HolderOnly, NEW i \in Instances, Drainer(i) \/ CrashDrainer(i)
  PROVE  HolderOnly'
<1>1. /\ \A j \in Instances : j # i => drain'[j] = drain[j] /\ drain[j].pc = "idle"
      /\ drain[i].pc # "idle" => lock = i
  BY DrainerGoes, OthersRest DEF HolderOnly
<1>2. lock' = i \/ drain'[i].pc = "idle"
  <2>1. CASE TakeLock(i)
    BY <2>1 DEF TakeLock
  <2>2. CASE ReleaseLock(i) \/ CrashDrainer(i)
    <3>1. drain' = [drain EXCEPT ![i] = Resting]
      BY <2>2, Zenon DEF ReleaseLock, CrashDrainer
    <3>2. QED
      BY <3>1, RestingMoves DEF Resting
  <2>3. CASE drain[i].pc # "idle" /\ UNCHANGED lock
    BY <2>3, <1>1
  <2>4. QED
    BY <2>1, <2>2, <2>3 DEF Drainer, ReadBatch, WriteEntry, ParkEntry, TrimSpool
<1>3. QED
  BY <1>1, <1>2 DEF HolderOnly

-----------------------------------------------------------------------------
(***************************************************************************)
(* The batch in hand.                                                      *)
(***************************************************************************)

\* What must hold of drainer i and its batch.
BatchInv(i) ==
  Batching(i) =>
    /\ Len(drain[i].batch) <= Len(spool)
    /\ \A j \in 1 .. Len(drain[i].batch) : drain[i].batch[j] = spool[j]
    /\ drain[i].done <= Len(drain[i].batch)
    /\ drain[i].pc # "trim" => drain[i].done < Len(drain[i].batch)
    /\ \A j \in 1 .. drain[i].done : drain[i].batch[j] \in rows \cup dead

BatchesInv == \A i \in Instances : BatchInv(i)

LEMMA BatchesSplit == BatchesInv <=> BatchIsHead /\ WithinBatch /\ WorkDone
BY Zenon DEF BatchesInv, BatchInv, BatchIsHead, WithinBatch, WorkDone

LEMMA BatchesSplitNext == BatchesInv' <=> (BatchIsHead /\ WithinBatch /\ WorkDone)'
BY BatchesSplit, PTL

\* A batch is not disturbed by rows that are added or entries appended.
LEMMA BatchStays ==
  ASSUME LedgerTypeOK, NEW i \in Instances, BatchInv(i),
         drain'[i] = drain[i], rows \subseteq rows', dead \subseteq dead',
         spool' = spool \/ \E c \in Calls : spool' = Append(spool, c)
  PROVE  BatchInv(i)'
<1> DEFINE batch == drain[i].batch
           done == drain[i].done
<1>1. batch \in Seq(Calls) /\ done \in Nat /\ spool \in Seq(Calls)
  BY DEF LedgerTypeOK
<1>2. /\ Len(spool) <= Len(spool')
      /\ \A j \in 1 .. Len(spool) : spool'[j] = spool[j]
  BY <1>1
<1>3. SUFFICES ASSUME Batching(i) PROVE BatchInv(i)'
  BY DEF BatchInv, Batching
<1>4. /\ Len(batch) <= Len(spool)
      /\ \A j \in 1 .. Len(batch) : batch[j] = spool[j]
      /\ done <= Len(batch)
      /\ drain[i].pc # "trim" => done < Len(batch)
      /\ \A j \in 1 .. done : batch[j] \in rows \cup dead
  BY <1>3 DEF BatchInv
<1>5. batch' = batch /\ done' = done /\ drain'[i].pc = drain[i].pc
  OBVIOUS
<1>6. Len(batch) <= Len(spool') /\ \A j \in 1 .. Len(batch) : batch[j] = spool'[j]
  <2>1. Len(batch) \in Nat /\ Len(spool) \in Nat /\ Len(spool') \in Nat
    BY <1>1
  <2>2. QED
    BY <1>2, <1>4, <2>1
<1>7. \A j \in 1 .. done : batch[j] \in rows' \cup dead'
  BY <1>4
<1> HIDE DEF batch, done
<1>8. QED
  BY <1>4, <1>5, <1>6, <1>7 DEF BatchInv, batch, done

LEMMA OwnBatch ==
  ASSUME LedgerTypeOK, HolderOnly, BatchesInv, NEW i \in Instances,
         Drainer(i) \/ CrashDrainer(i)
  PROVE  BatchInv(i)'
<1> DEFINE batch == drain[i].batch
           done == drain[i].done
<1>1. batch \in Seq(Calls) /\ done \in Nat /\ spool \in Seq(Calls)
  BY DEF LedgerTypeOK
<1>2. CASE drain'[i].pc \notin Working
  BY <1>2 DEF BatchInv, Batching
<1>3. ASSUME ReadBatch(i), drain'[i].pc \in Working
      PROVE  BatchInv(i)'
  <2>1. /\ drain' = [drain EXCEPT ![i] = [pc |-> "write", batch |-> Oldest(Batch), done |-> 0]]
        /\ spool # <<>> /\ spool' = spool
    <3>1. ~Draining(i, "release")
      BY <1>3, DrainingMoves DEF DrainPc, Working
    <3>2. QED
      BY <1>3, <3>1, Zenon DEF ReadBatch
  <2>2. /\ drain'[i].pc = "write" /\ drain'[i].batch = Oldest(Batch) /\ drain'[i].done = 0
    BY <2>1, ReadingMoves
  <2> DEFINE read == Oldest(Batch)
  <2>3. /\ read \in Seq(Calls) /\ Len(read) <= Len(spool) /\ Len(read) > 0
        /\ \A j \in 1 .. Len(read) : read[j] = spool[j]
    BY <2>1, BatchOfSpool
  <2> HIDE DEF read
  <2>4. QED
    BY <2>1, <2>2, <2>3 DEF BatchInv, read
<1>4. ASSUME WriteEntry(i) \/ ParkEntry(i), drain'[i].pc \in Working
      PROVE  BatchInv(i)'
  <2> DEFINE c == batch[done + 1]
  <2>1. /\ Batching(i) /\ drain[i].pc \in {"write", "park"}
        /\ spool' = spool /\ rows \subseteq rows' /\ dead \subseteq dead'
        /\ \/ EntryDone(i) /\ c \in rows' \cup dead'
           \/ drain[i].pc = "write" /\ Draining(i, "park")
           \/ Draining(i, "trim") \/ Draining(i, "release")
    BY <1>4, Zenon DEF WriteEntry, ParkEntry, BatchBreaks, Batching, Working
  <2>2. /\ Len(batch) <= Len(spool)
        /\ \A j \in 1 .. Len(batch) : batch[j] = spool[j]
        /\ done < Len(batch)
        /\ \A j \in 1 .. done : batch[j] \in rows \cup dead
    BY <2>1 DEF BatchesInv, BatchInv
  <2>3. drain'[i].batch = batch
    BY <2>1, EntryDoneMoves, DrainingMoves DEF DrainPc
  <2>4. CASE EntryDone(i) /\ c \in rows' \cup dead'
    <3>1. /\ drain'[i].done = done + 1
          /\ drain'[i].pc = IF done + 1 < Len(batch) THEN "write" ELSE "trim"
      BY <2>4, EntryDoneMoves
    <3>2. \A j \in 1 .. done + 1 : batch[j] \in rows' \cup dead'
      <4> TAKE j \in 1 .. done + 1
      <4>1. j \in 1 .. done \/ j = done + 1
        BY <1>1
      <4>2. QED
        BY <4>1, <2>1, <2>2, <2>4
    <3> HIDE DEF batch, done, c
    <3>3. QED
      BY <1>1, <2>1, <2>2, <2>3, <3>1, <3>2 DEF BatchInv
  <2>5. CASE \E pc \in {"park", "trim", "release"} : Draining(i, pc)
    <3>1. drain'[i].done = done /\ drain'[i].pc \in {"park", "trim", "release"}
      BY <2>5, DrainingMoves DEF DrainPc
    <3>2. \A j \in 1 .. done : batch[j] \in rows' \cup dead'
      BY <2>1, <2>2
    <3> HIDE DEF batch, done, c
    <3>3. QED
      BY <1>1, <2>1, <2>2, <2>3, <3>1, <3>2 DEF BatchInv
  <2>6. QED
    BY <2>1, <2>4, <2>5
<1>5. CASE TakeLock(i)
  <2>1. drain'[i].pc \in {"range", "idle"}
    <3>1. CASE Draining(i, "range")
      BY <3>1, DrainingMoves DEF DrainPc
    <3>2. CASE UNCHANGED drain
      BY <3>2, <1>5 DEF TakeLock
    <3>3. QED
      BY <1>5, <3>1, <3>2 DEF TakeLock
  <2>2. QED
    BY <2>1, <1>2 DEF Working
<1>6. CASE TrimSpool(i)
  <2>1. drain'[i].pc = "release"
    BY <1>6, DrainingMoves DEF DrainPc, TrimSpool
  <2>2. QED
    BY <2>1, <1>2 DEF Working
<1>7. CASE ReleaseLock(i) \/ CrashDrainer(i)
  <2>1. drain' = [drain EXCEPT ![i] = Resting]
    BY <1>7, Zenon DEF ReleaseLock, CrashDrainer
  <2>2. drain'[i].pc = "idle"
    BY <2>1, RestingMoves DEF Resting
  <2>3. QED
    BY <2>2, <1>2 DEF Working
<1>8. QED
  BY <1>2, <1>3, <1>4, <1>5, <1>6, <1>7 DEF Drainer

LEMMA BatchesStep ==
  ASSUME LedgerTypeOK, HolderOnly, BatchesInv, NEW i \in Instances,
         Drainer(i) \/ CrashDrainer(i)
  PROVE  BatchesInv'
<1>1. \A j \in Instances : j # i => drain'[j] = drain[j] /\ drain[j].pc = "idle"
  BY DrainerGoes, OthersRest
<1>2. \A j \in Instances : j # i => BatchInv(j)'
  BY <1>1 DEF BatchInv, Batching, Working
<1>3. QED
  BY <1>2, OwnBatch DEF BatchesInv

-----------------------------------------------------------------------------
(***************************************************************************)
(* Nothing vanishes.                                                       *)
(***************************************************************************)

Kept == rows \cup Entries(spool) \cup dead \cup logged

LEMMA RecorderKeeps ==
  ASSUME LedgerTypeOK, NoRowVanishes, NEW c \in Calls,
         BeginRecord(c) \/ Recorder(c) \/ CrashRecording(c)
  PROVE  NoRowVanishes'
<1>1. /\ rows' \in {rows, rows \cup {c}} /\ logged' \in {logged, logged \cup {c}}
      /\ spool' \in {spool, Append(spool, c)}
      /\ UNCHANGED <<dead, lock, drain>>
  BY Zenon DEF BeginRecord, Recorder, WriteRecord, PushRecord, CrashRecording
<1>2. spool \in Seq(Calls)
  BY DEF LedgerTypeOK
<1>3. Entries(spool) \subseteq Entries(spool')
  BY <1>1, <1>2 DEF Entries
<1>4. Kept \subseteq Kept'
  BY <1>1, <1>3 DEF Kept
<1>5. \A d \in Calls : d # c => record'[d] = record[d]
  <2>1. WriteFailed(c) \/ \E pc \in RecordPc : Recording(c, pc)
    BY Zenon DEF RecordPc, BeginRecord, Recorder, WriteRecord, PushRecord, CrashRecording
  <2>2. QED
    BY <2>1, RecordingMoves, WriteFailedMoves
<1>6. record'[c].pc = "done" => c \in Kept'
  <2>1. CASE c \in rows' \/ c \in logged' \/ spool' = Append(spool, c)
    <3>1. spool' = Append(spool, c) => c \in Entries(spool')
      BY <1>2 DEF Entries
    <3>2. QED
      BY <2>1, <3>1 DEF Kept
  <2>2. CASE WriteFailed(c)
    BY <2>2, WriteFailedMoves
  <2>3. CASE Recording(c, "write") \/ Recording(c, "gone")
    BY <2>3, RecordingMoves DEF RecordPc
  <2>4. \/ c \in rows' \/ c \in logged' \/ spool' = Append(spool, c)
        \/ WriteFailed(c) \/ Recording(c, "write") \/ Recording(c, "gone")
    BY Zenon DEF BeginRecord, Recorder, WriteRecord, PushRecord, CrashRecording
  <2>5. QED
    BY <2>1, <2>2, <2>3, <2>4
<1>7. QED
  BY <1>4, <1>5, <1>6 DEF NoRowVanishes, Kept

LEMMA TrimKeeps ==
  ASSUME LedgerTypeOK, BatchesInv, NEW i \in Instances, TrimSpool(i)
  PROVE  Entries(spool) \subseteq Entries(spool') \cup rows \cup dead
<1> DEFINE batch == drain[i].batch
           done == drain[i].done
<1>1. batch \in Seq(Calls) /\ done \in Nat /\ spool \in Seq(Calls)
  BY DEF LedgerTypeOK
<1>2. Batching(i)
  BY DEF TrimSpool, Batching, Working
<1>3. /\ Len(batch) <= Len(spool)
      /\ \A j \in 1 .. Len(batch) : batch[j] = spool[j]
      /\ done <= Len(batch)
      /\ \A j \in 1 .. done : batch[j] \in rows \cup dead
  BY <1>2 DEF BatchesInv, BatchInv
<1>4. CASE spool' = SubSeq(spool, done + 1, Len(spool))
  <2> HIDE DEF batch, done
  <2>1. SUFFICES ASSUME NEW j \in 1 .. Len(spool)
                 PROVE  spool[j] \in Entries(spool') \cup rows \cup dead
    BY DEF Entries
  <2>2. CASE j <= done
    <3>1. j \in 1 .. done /\ j \in 1 .. Len(batch)
      BY <1>1, <1>3, <2>2
    <3>2. QED
      BY <3>1, <1>3
  <2>3. CASE j > done
    <3>1. /\ j - done \in 1 .. Len(spool')
          /\ spool'[j - done] = spool[j]
      BY <1>1, <1>3, <1>4, <2>3
    <3>2. QED
      BY <3>1 DEF Entries
  <2>4. QED
    BY <1>1, <2>2, <2>3
<1>5. CASE UNCHANGED spool
  BY <1>5
<1>6. QED
  BY <1>4, <1>5, Zenon DEF TrimSpool

LEMMA DrainerKeeps ==
  ASSUME LedgerTypeOK, BatchesInv, NoRowVanishes, NEW i \in Instances,
         Drainer(i) \/ CrashDrainer(i)
  PROVE  NoRowVanishes'
<1>1. rows \subseteq rows' /\ dead \subseteq dead' /\ UNCHANGED <<record, logged>>
  BY Zenon DEF Drainer, TakeLock, ReadBatch, WriteEntry, ParkEntry, TrimSpool, ReleaseLock,
               CrashDrainer, stores
<1>2. TrimSpool(i) \/ UNCHANGED spool
  BY Zenon DEF Drainer, TakeLock, ReadBatch, WriteEntry, ParkEntry, ReleaseLock, CrashDrainer
<1>3. Entries(spool) \subseteq Entries(spool') \cup rows \cup dead
  BY <1>2, TrimKeeps
<1>4. QED
  BY <1>1, <1>3 DEF NoRowVanishes

-----------------------------------------------------------------------------
(***************************************************************************)
(* The invariant, while no batch outlasts its lock.                        *)
(***************************************************************************)

LEMMA InvInit == LedgerInit => LedgerInv
<1> SUFFICES ASSUME LedgerInit PROVE LedgerInv
  OBVIOUS
<1>1. LedgerTypeOK
  BY LedgerTypeInit
<1>2. \A i \in Instances : drain[i].pc = "idle"
  BY DEF LedgerInit, Resting
<1>3. \A c \in Calls : record[c].pc = "none"
  BY DEF LedgerInit, Unrecorded
<1>4. QED
  BY <1>1, <1>2, <1>3 DEF LedgerInv, HolderOnly, BatchIsHead, WithinBatch, WorkDone,
                          NoRowVanishes, Batching, Working

\* Whatever leaves the drainers, the spool, the rows and the lock alone.
LEMMA InvAside ==
  ASSUME LedgerInv, LedgerTypeOK',
         UNCHANGED <<rows, spool, dead, lock, record, drain, logged>>
  PROVE  LedgerInv'
BY Zenon DEF LedgerInv, HolderOnly, BatchIsHead, WithinBatch, WorkDone, NoRowVanishes, Batching

LEMMA LockLapsesSafely ==
  ASSUME LedgerInv, LedgerTypeOK', ~Overrun, LockLapses
  PROVE  LedgerInv'
<1>1. UNCHANGED <<rows, spool, dead, record, drain, logged>>
  BY Zenon DEF LockLapses
<1>2. \A i \in Instances : drain[i].pc = "idle"
  BY DEF LedgerInv, HolderOnly, LockLapses
<1>3. QED
  BY <1>1, <1>2 DEF LedgerInv, HolderOnly, BatchIsHead, WithinBatch, WorkDone, NoRowVanishes,
                    Batching, Working

LEMMA InvStep ==
  ASSUME LedgerInv, ~Overrun, LedgerStep
  PROVE  LedgerInv'
<1>1. LedgerTypeOK /\ LedgerTypeOK' /\ HolderOnly /\ BatchesInv /\ NoRowVanishes
  BY LedgerTypeStep, BatchesSplit DEF LedgerInv
<1>2. ASSUME NEW c \in Calls, BeginRecord(c) \/ Recorder(c) \/ CrashRecording(c)
      PROVE  LedgerInv'
  <2>1. NoRowVanishes'
    BY <1>1, <1>2, RecorderKeeps
  <2>2. /\ drain' = drain /\ lock' = lock /\ rows \subseteq rows' /\ dead \subseteq dead'
        /\ spool' = spool \/ \E d \in Calls : spool' = Append(spool, d)
    BY <1>2, Zenon DEF BeginRecord, Recorder, WriteRecord, PushRecord, CrashRecording
  <2>3. HolderOnly'
    BY <1>1, <2>2 DEF HolderOnly
  <2>4. BatchesInv'
    BY <1>1, <2>2, BatchStays DEF BatchesInv
  <2>5. QED
    BY <1>1, <2>1, <2>3, <2>4, BatchesSplitNext DEF LedgerInv
<1>3. ASSUME NEW i \in Instances, Drainer(i) \/ CrashDrainer(i)
      PROVE  LedgerInv'
  BY <1>1, <1>3, DrainerHolds, BatchesStep, DrainerKeeps, BatchesSplitNext DEF LedgerInv
<1>4. CASE LockLapses
  BY <1>1, <1>4, LockLapsesSafely
<1>5. CASE Outage \/ DbBack \/ RedisBack \/ FaultOnly \/ UNCHANGED ledgerVars
  <2>1. UNCHANGED <<rows, spool, dead, lock, record, drain, logged>>
    BY <1>5, Zenon DEF Outage, DbBack, RedisBack, FaultOnly, Frame, ledgerVars
  <2>2. QED
    BY <1>1, <2>1, InvAside
<1>6. QED
  BY <1>2, <1>3, <1>4, <1>5 DEF LedgerStep, LedgerNext, Weather

(***************************************************************************)
(* The ledger by itself, under any gateway: while no batch outlasts the    *)
(* lock it runs under, no row of a finished call vanishes on its way, with *)
(* any number of recorders and drainers, outages and crashes.              *)
(***************************************************************************)
THEOREM LedgerKeepsRows ==
  ASSUME ~Overrun
  PROVE  LedgerSpec => []NoRowVanishes
<1>1. LedgerInv /\ [LedgerNext]_ledgerVars => LedgerInv'
  BY InvStep DEF LedgerStep
<1>2. LedgerInv => NoRowVanishes
  BY DEF LedgerInv
<1>3. QED
  BY <1>1, <1>2, InvInit, PTL DEF LedgerSpec

-----------------------------------------------------------------------------
(***************************************************************************)
(* The ledger under the gateway.  Every step of the metered calls is one   *)
(* of the ledger's, or leaves it alone but for the count of faults.        *)
(***************************************************************************)

LEMMA StepIsOfLedger ==
  ASSUME LedgerTypeOK, [Next]_vars
  PROVE  LedgerStep
<1>1. ASSUME NEW c \in Calls, Gateway(c)
      PROVE  LedgerStep
  <2>1. BeginRecord(c) \/ UNCHANGED ledgerVars
    BY <1>1, Zenon DEF Gateway, Admit, GetCounter, ReadUsage, InitCounter, CallModel, HandOver,
                       Recorded, Charge
  <2>2. QED
    BY <2>1 DEF LedgerStep, LedgerNext
<1>2. ASSUME NEW r \in Reconcilers, Reconciler(r)
      PROVE  LedgerStep
  <2>1. UNCHANGED ledgerVars
    BY <1>2, Zenon DEF Reconciler, TakeTurn, ListCounter, SumLedger, RaiseCounter, ReleaseTurn
  <2>2. QED
    BY <2>1 DEF LedgerStep
<1>3. ASSUME \/ \E c \in Calls : CrashCall(c)
             \/ \E r \in Reconcilers : CrashReconciler(r)
             \/ CounterLost
      PROVE  LedgerStep
  <2>1. Frame /\ Fault
    BY <1>3, Zenon DEF CrashCall, CrashReconciler, CounterLost
  <2>2. faults' \in Nat
    BY <2>1 DEF Fault, LedgerTypeOK
  <2>3. QED
    BY <2>1, <2>2 DEF LedgerStep, FaultOnly
<1>4. CASE TurnLapses \/ UNCHANGED vars
  <2>1. UNCHANGED ledgerVars
    BY <1>4, Zenon DEF TurnLapses, vars
  <2>2. QED
    BY <2>1 DEF LedgerStep
<1>5. CASE \/ \E c \in Calls : Recorder(c)
           \/ \E i \in Instances : Drainer(i)
           \/ Weather
  BY <1>5, Zenon DEF LedgerStep, LedgerNext
<1>6. QED
  BY <1>1, <1>2, <1>3, <1>4, <1>5 DEF Next

(***************************************************************************)
(* NoRowVanishes of the whole ai-service side, for any calls, processes,   *)
(* batches and costs: the gate, the charge and the reconciler take nothing *)
(* from the ledger's promise.                                              *)
(***************************************************************************)
THEOREM MeteredRowsKept ==
  ASSUME ~Overrun
  PROVE  Spec => []NoRowVanishes
<1>1. Init => LedgerInv
  BY InvInit DEF Init
<1>2. LedgerInv /\ [Next]_vars => LedgerInv'
  BY InvStep, StepIsOfLedger DEF LedgerInv
<1>3. LedgerInv => NoRowVanishes
  BY DEF LedgerInv
<1>4. QED
  BY <1>1, <1>2, <1>3, PTL DEF Spec

-----------------------------------------------------------------------------
(***************************************************************************)
(* Sums of credits.  Credits is a fold of the library, a function defined  *)
(* by recursion on the subsets of what it sums up; what it needs of        *)
(* induction comes down to every nonempty set of naturals having a least.  *)
(***************************************************************************)
Picked(s) == CHOOSE x \in s : TRUE
PickFrom(g, h, s) == IF s = {} THEN 0 ELSE g[Picked(s)].cost + h[s \ {Picked(s)}]
IsSum(h, g, S) == h = [s \in SUBSET S |-> PickFrom(g, h, s)]
SumsOf(g, S) == CHOOSE h : IsSum(h, g, S)
SumOf(g, S) == SumsOf(g, S)[S]

LEMMA CreditsAreASum == \A S : Credits(S) = SumOf(gate, S)
BY DEF Credits, MapThenSumSet, MapThenFoldSet, SumOf, SumsOf, IsSum, PickFrom, Picked

LEMMA LeastExists ==
  ASSUME NEW N \in SUBSET Nat, N # {}
  PROVE  \E n \in N : \A m \in N : n <= m
<1> DEFINE Less == OpToRel(<, Nat)
<1>1. IsWellFoundedOn(Less, Nat)
  BY NatLessThanWellFounded
<1> HIDE DEF Less
<1>2. PICK n \in N : \A m \in N : ~(<<m, n>> \in Less)
  BY <1>1, WFMin
<1>3. \A m \in N : n <= m
  <2> TAKE m \in N
  <2>1. m < n => <<m, n>> \in Less
    BY DEF Less, OpToRel
  <2>2. QED
    BY <2>1, <1>2
<1>4. QED
  BY <1>3

\* What holds of a set whenever it holds of every smaller one within it.
LEMMA SmallerSetsFirst ==
  ASSUME NEW S, IsFiniteSet(S), NEW Good,
         \A T \in SUBSET S : (\A x \in T : T \ {x} \in Good) => T \in Good
  PROVE  \A T \in SUBSET S : T \in Good
<1> DEFINE Sizes == {n \in Nat : \E T \in SUBSET S : Cardinality(T) = n /\ T \notin Good}
<1>1. SUFFICES ASSUME NEW T \in SUBSET S, T \notin Good
               PROVE  FALSE
  OBVIOUS
<1>2. \A U \in SUBSET S : IsFiniteSet(U) /\ Cardinality(U) \in Nat
  BY FS_Subset, FS_CardinalityType
<1>3. PICK n \in Sizes : \A m \in Sizes : n <= m
  <2>1. Cardinality(T) \in Sizes
    BY <1>1, <1>2
  <2>2. QED
    BY <2>1, LeastExists
<1>4. PICK U \in SUBSET S : Cardinality(U) = n /\ U \notin Good
  BY <1>3
<1>5. PICK x \in U : U \ {x} \notin Good
  BY <1>4
<1>6. Cardinality(U \ {x}) = n - 1 /\ U \ {x} \in SUBSET S
  BY <1>2, <1>4, <1>5, FS_RemoveElement
<1>7. n - 1 \in Sizes
  BY <1>2, <1>5, <1>6
<1>8. QED
  BY <1>3, <1>7

LEMMA PickedIsIn == \A s : s # {} => Picked(s) \in s
BY DEF Picked

\* The recursion has a solution.
LEMMA SumsExist ==
  ASSUME NEW S, IsFiniteSet(S), NEW g
  PROVE  IsSum(SumsOf(g, S), g, S)
<1> DEFINE Small(n) == {s \in SUBSET S : Cardinality(s) <= n}
           Upto(h, n) == h = [s \in Small(n) |-> PickFrom(g, h, s)]
           Without == {n \in Nat : ~ \E h : Upto(h, n)}
<1>1. \A s \in SUBSET S : IsFiniteSet(s) /\ Cardinality(s) \in Nat
  BY FS_Subset, FS_CardinalityType
<1>2. ASSUME NEW n \in Nat, NEW h, n > 0 => Upto(h, n - 1)
      PROVE  \E k : Upto(k, n)
  <2> DEFINE k == [s \in Small(n) |-> PickFrom(g, h, s)]
  <2>1. ASSUME NEW s \in Small(n) PROVE PickFrom(g, k, s) = PickFrom(g, h, s)
    <3>1. CASE s = {}
      BY <3>1 DEF PickFrom
    <3>2. CASE s # {}
      <4> DEFINE t == s \ {Picked(s)}
      <4>1. Cardinality(t) = Cardinality(s) - 1 /\ Cardinality(t) \in Nat /\ t \in SUBSET S
        BY <1>1, <3>2, PickedIsIn, FS_RemoveElement
      <4>2. n > 0 /\ t \in Small(n - 1) /\ t \in Small(n)
        BY <1>1, <4>1
      <4>3. h[t] = PickFrom(g, h, t)
        BY <1>2, <4>2, Zenon
      <4>4. k[t] = h[t]
        BY <4>2, <4>3
      <4> HIDE DEF k
      <4>5. QED
        BY <3>2, <4>4 DEF PickFrom
    <3>3. QED
      BY <3>1, <3>2
  <2>2. Upto(k, n)
    BY <2>1, Zenon
  <2>3. QED
    BY <2>2, Zenon
<1>3. Without = {}
  <2>1. SUFFICES ASSUME Without # {} PROVE FALSE
    OBVIOUS
  <2>2. PICK n \in Without : \A m \in Without : n <= m
    BY <2>1, LeastExists
  <2>3. \E h : n > 0 => Upto(h, n - 1)
    <3> HIDE DEF Upto
    <3>1. CASE n > 0
      <4>1. n - 1 \in Nat /\ ~(n <= n - 1)
        BY <3>1
      <4>2. n - 1 \notin Without
        BY <2>2, <4>1
      <4>3. QED
        BY <4>1, <4>2
    <3>2. QED
      BY <3>1
  <2> HIDE DEF Upto
  <2>4. PICK h : n > 0 => Upto(h, n - 1)
    BY <2>3
  <2>5. n \in Nat /\ ~ \E k : Upto(k, n)
    BY <2>2
  <2>6. QED
    BY <1>2, <2>4, <2>5
<1>4. PICK h : Upto(h, Cardinality(S))
  <2> HIDE DEF Upto
  <2>1. Cardinality(S) \in Nat /\ Cardinality(S) \notin Without
    BY <1>3, FS_CardinalityType
  <2>2. QED
    BY <2>1
<1>5. Small(Cardinality(S)) = SUBSET S
  BY FS_Subset
<1>6. IsSum(h, g, S)
  BY <1>4, <1>5 DEF IsSum
<1>7. QED
  BY <1>6, Zenon DEF SumsOf

LEMMA SumUnfolds ==
  ASSUME NEW S, IsFiniteSet(S), NEW g, NEW T \in SUBSET S
  PROVE  /\ T = {} => SumsOf(g, S)[T] = 0
         /\ T # {} => SumsOf(g, S)[T] = g[Picked(T)].cost + SumsOf(g, S)[T \ {Picked(T)}]
<1> DEFINE h == SumsOf(g, S)
<1>1. h = [s \in SUBSET S |-> PickFrom(g, h, s)]
  BY SumsExist, Zenon DEF IsSum
<1> HIDE DEF h
<1>2. h[T] = PickFrom(g, h, T)
  BY <1>1, Zenon
<1>3. QED
  BY <1>2 DEF PickFrom, h

\* The sum of a set does not depend on what it is a subset of.
LEMMA SumOfPart ==
  ASSUME NEW S, IsFiniteSet(S), NEW g, NEW U \in SUBSET S
  PROVE  SumOf(g, U) = SumsOf(g, S)[U]
<1> DEFINE Good == {T \in SUBSET U : SumsOf(g, U)[T] = SumsOf(g, S)[T]}
<1>1. IsFiniteSet(U)
  BY FS_Subset
<1>2. ASSUME NEW T \in SUBSET U, \A x \in T : T \ {x} \in Good
      PROVE  T \in Good
  <2>1. CASE T = {}
    BY <1>1, <2>1, SumUnfolds
  <2>2. CASE T # {}
    <3>1. SumsOf(g, U)[T \ {Picked(T)}] = SumsOf(g, S)[T \ {Picked(T)}]
      BY <1>2, <2>2, PickedIsIn
    <3>2. SumsOf(g, U)[T] = g[Picked(T)].cost + SumsOf(g, U)[T \ {Picked(T)}]
      BY <1>1, <2>2, SumUnfolds
    <3>3. T \in SUBSET S
      OBVIOUS
    <3>4. SumsOf(g, S)[T] = g[Picked(T)].cost + SumsOf(g, S)[T \ {Picked(T)}]
      BY <2>2, <3>3, SumUnfolds
    <3>5. QED
      BY <3>1, <3>2, <3>4
  <2>3. QED
    BY <2>1, <2>2
<1>3. \A T \in SUBSET U : T \in Good
  <2> HIDE DEF Good
  <2>1. QED
    BY <1>1, <1>2, SmallerSetsFirst
<1>4. QED
  BY <1>3 DEF SumOf

(***************************************************************************)
(* What the sums of a finite set of calls obey.                            *)
(***************************************************************************)
Priced(g, S) == \A c \in S : g[c].cost \in Nat

LEMMA SumIsNat ==
  ASSUME NEW S, IsFiniteSet(S), NEW g, Priced(g, S)
  PROVE  \A T \in SUBSET S : SumsOf(g, S)[T] \in Nat
<1> DEFINE Good == {T \in SUBSET S : SumsOf(g, S)[T] \in Nat}
<1>1. ASSUME NEW T \in SUBSET S, \A x \in T : T \ {x} \in Good
      PROVE  T \in Good
  <2>1. CASE T = {}
    <3>1. SumsOf(g, S)[T] = 0
      BY <2>1, SumUnfolds
    <3>2. QED
      BY <3>1
  <2>2. CASE T # {}
    <3>1. Picked(T) \in T /\ SumsOf(g, S)[T \ {Picked(T)}] \in Nat
      BY <1>1, <2>2, PickedIsIn
    <3>2. g[Picked(T)].cost \in Nat
      BY <3>1 DEF Priced
    <3>3. SumsOf(g, S)[T] = g[Picked(T)].cost + SumsOf(g, S)[T \ {Picked(T)}]
      BY <2>2, SumUnfolds
    <3>4. QED
      BY <3>1, <3>2, <3>3
  <2>3. QED
    BY <2>1, <2>2
<1>2. \A T \in SUBSET S : T \in Good
  <2> HIDE DEF Good
  <2>1. QED
    BY <1>1, SmallerSetsFirst
<1>3. QED
  BY <1>2

\* The order in which the credits are added up does not matter.
LEMMA SumWithout ==
  ASSUME NEW S, IsFiniteSet(S), NEW g, Priced(g, S)
  PROVE  \A T \in SUBSET S : \A c \in T :
           SumsOf(g, S)[T] = g[c].cost + SumsOf(g, S)[T \ {c}]
<1> DEFINE h == SumsOf(g, S)
           Good == {T \in SUBSET S : \A c \in T : h[T] = g[c].cost + h[T \ {c}]}
<1>1. ASSUME NEW T \in SUBSET S, \A x \in T : T \ {x} \in Good
      PROVE  T \in Good
  <2>1. SUFFICES ASSUME NEW c \in T PROVE h[T] = g[c].cost + h[T \ {c}]
    OBVIOUS
  <2> DEFINE p == Picked(T)
  <2>2. p \in T
    BY PickedIsIn
  <2>3. h[T] = g[p].cost + h[T \ {p}]
    BY <2>1, SumUnfolds
  <2>4. CASE c = p
    BY <2>3, <2>4
  <2>5. CASE c # p
    <3>1. h[T \ {p}] = g[c].cost + h[(T \ {p}) \ {c}]
      BY <1>1, <2>2, <2>5
    <3>2. h[T \ {c}] = g[p].cost + h[(T \ {c}) \ {p}]
      BY <1>1, <2>2, <2>5
    <3>3. (T \ {p}) \ {c} = (T \ {c}) \ {p}
      OBVIOUS
    <3>4. h[(T \ {c}) \ {p}] \in Nat /\ g[c].cost \in Nat /\ g[p].cost \in Nat
      <4>1. (T \ {c}) \ {p} \in SUBSET S
        OBVIOUS
      <4>2. h[(T \ {c}) \ {p}] \in Nat
        BY <4>1, SumIsNat
      <4>3. g[c].cost \in Nat /\ g[p].cost \in Nat
        BY <2>2 DEF Priced
      <4>4. QED
        BY <4>2, <4>3
    <3>5. h[T] = g[p].cost + (g[c].cost + h[(T \ {c}) \ {p}])
      BY <2>3, <3>1, <3>3, Zenon
    <3>6. h[T \ {c}] = g[p].cost + h[(T \ {c}) \ {p}]
      BY <3>2
    <3> HIDE DEF h, p, Good
    <3>7. QED
      BY <3>4, <3>5, <3>6
  <2>6. QED
    BY <2>4, <2>5
<1>2. \A T \in SUBSET S : T \in Good
  <2> HIDE DEF Good
  <2>1. QED
    BY <1>1, SmallerSetsFirst
<1>3. QED
  BY <1>2

LEMMA SumGrowsWithSet ==
  ASSUME NEW S, IsFiniteSet(S), NEW g, Priced(g, S)
  PROVE  \A T \in SUBSET S : \A U \in SUBSET T : SumsOf(g, S)[U] <= SumsOf(g, S)[T]
<1> DEFINE h == SumsOf(g, S)
           Good == {T \in SUBSET S : \A U \in SUBSET T : h[U] <= h[T]}
<1>1. ASSUME NEW T \in SUBSET S, \A x \in T : T \ {x} \in Good
      PROVE  T \in Good
  <2>1. SUFFICES ASSUME NEW U \in SUBSET T PROVE h[U] <= h[T]
    OBVIOUS
  <2>2. h[T] \in Nat /\ h[U] \in Nat
    <3>1. U \in SUBSET S
      OBVIOUS
    <3>2. QED
      BY <3>1, SumIsNat
  <2>3. CASE U = T
    BY <2>2, <2>3
  <2>4. ASSUME NEW x \in T, x \notin U
        PROVE  h[U] <= h[T]
    <3>1. h[U] <= h[T \ {x}]
      BY <1>1, <2>4
    <3>2. h[T] = g[x].cost + h[T \ {x}]
      BY SumWithout
    <3>3. h[T \ {x}] \in Nat /\ g[x].cost \in Nat
      <4>1. T \ {x} \in SUBSET S
        OBVIOUS
      <4>2. QED
        BY <4>1, SumIsNat DEF Priced
    <3> HIDE DEF h
    <3>4. QED
      BY <2>2, <3>1, <3>2, <3>3
  <2>5. QED
    BY <2>3, <2>4
<1>2. \A T \in SUBSET S : T \in Good
  <2> HIDE DEF Good
  <2>1. QED
    BY <1>1, SmallerSetsFirst
<1>3. QED
  BY <1>2

LEMMA SumGrowsWithCosts ==
  ASSUME NEW S, IsFiniteSet(S), NEW g, NEW k, Priced(g, S), Priced(k, S),
         \A c \in S : g[c].cost <= k[c].cost
  PROVE  \A T \in SUBSET S : SumsOf(g, S)[T] <= SumsOf(k, S)[T]
<1> DEFINE Good == {T \in SUBSET S : SumsOf(g, S)[T] <= SumsOf(k, S)[T]}
<1>1. ASSUME NEW T \in SUBSET S, \A x \in T : T \ {x} \in Good
      PROVE  T \in Good
  <2>1. CASE T = {}
    <3>1. SumsOf(g, S)[T] = 0 /\ SumsOf(k, S)[T] = 0
      BY <2>1, SumUnfolds
    <3>2. QED
      BY <3>1
  <2>2. CASE T # {}
    <3> DEFINE p == Picked(T)
               R == T \ {p}
    <3>1. p \in T /\ SumsOf(g, S)[R] <= SumsOf(k, S)[R] /\ R \in SUBSET S
      BY <1>1, <2>2, PickedIsIn
    <3>2. SumsOf(g, S)[R] \in Nat /\ SumsOf(k, S)[R] \in Nat
      BY <3>1, SumIsNat
    <3>3. g[p].cost \in Nat /\ k[p].cost \in Nat /\ g[p].cost <= k[p].cost
      BY <3>1 DEF Priced
    <3>4. SumsOf(g, S)[T] = g[p].cost + SumsOf(g, S)[R]
      BY <2>2, SumUnfolds
    <3>5. SumsOf(k, S)[T] = k[p].cost + SumsOf(k, S)[R]
      BY <2>2, SumUnfolds
    <3> HIDE DEF p, R
    <3>6. QED
      BY <3>1, <3>2, <3>3, <3>4, <3>5
  <2>3. QED
    BY <2>1, <2>2
<1>2. \A T \in SUBSET S : T \in Good
  <2> HIDE DEF Good
  <2>1. QED
    BY <1>1, SmallerSetsFirst
<1>3. QED
  BY <1>2

LEMMA SumOfNothing ==
  ASSUME NEW S, IsFiniteSet(S), NEW g, \A c \in S : g[c].cost = 0
  PROVE  \A T \in SUBSET S : SumsOf(g, S)[T] = 0
<1> DEFINE Good == {T \in SUBSET S : SumsOf(g, S)[T] = 0}
<1>1. ASSUME NEW T \in SUBSET S, \A x \in T : T \ {x} \in Good
      PROVE  T \in Good
  <2>1. CASE T = {}
    <3>1. SumsOf(g, S)[T] = 0
      BY <2>1, SumUnfolds
    <3>2. QED
      BY <3>1
  <2>2. CASE T # {}
    <3>1. Picked(T) \in T /\ SumsOf(g, S)[T \ {Picked(T)}] = 0
      BY <1>1, <2>2, PickedIsIn
    <3>2. SumsOf(g, S)[T] = g[Picked(T)].cost + SumsOf(g, S)[T \ {Picked(T)}]
      BY <2>2, SumUnfolds
    <3>3. QED
      BY <3>1, <3>2
  <2>3. QED
    BY <2>1, <2>2
<1>2. \A T \in SUBSET S : T \in Good
  <2> HIDE DEF Good
  <2>1. QED
    BY <1>1, SmallerSetsFirst
<1>3. QED
  BY <1>2

-----------------------------------------------------------------------------
(***************************************************************************)
(* What a set of calls cost, by what the gate has in hand of each.         *)
(***************************************************************************)
GatePc == {"idle", "get", "usage", "init", "model", "record", "charge", "over", "gone"}
GateRecord == [pc : GatePc, sum : Nat, seen : SUBSET Calls, metered : BOOLEAN,
               cost : Costs \cup {0}]
Gates == [Calls -> GateRecord]
Total(g, T) == SumsOf(g, Calls)[T]

LEMMA GatesArePriced == ASSUME NEW g \in Gates PROVE \A T \in SUBSET Calls : Priced(g, T)
<1>1. \A c \in Calls : g[c] \in GateRecord
  BY DEF Gates
<1>2. \A c \in Calls : g[c].cost \in Costs \cup {0}
  BY <1>1 DEF GateRecord
<1>3. Costs \cup {0} \subseteq Nat
  BY QuotaAssumption
<1>4. QED
  BY <1>2, <1>3 DEF Priced

LEMMA CreditsAreTotals == \A T \in SUBSET Calls : Credits(T) = Total(gate, T)
BY QuotaAssumption, CreditsAreASum, SumOfPart DEF Total

LEMMA CreditsAreTotalsNext == \A T \in SUBSET Calls : Credits(T)' = Total(gate', T)
<1>1. \A S : Credits(S)' = SumOf(gate', S)
  BY DEF Credits, MapThenSumSet, MapThenFoldSet, SumOf, SumsOf, IsSum, PickFrom, Picked
<1>2. QED
  BY QuotaAssumption, <1>1, SumOfPart DEF Total

LEMMA TotalIsNat ==
  ASSUME NEW g \in Gates, NEW T \in SUBSET Calls
  PROVE  Total(g, T) \in Nat
BY QuotaAssumption, GatesArePriced, SumIsNat DEF Total

LEMMA TotalWithOneMore ==
  ASSUME NEW g \in Gates, NEW T \in SUBSET Calls, NEW c \in Calls \ T
  PROVE  Total(g, T \cup {c}) = g[c].cost + Total(g, T)
<1>1. (T \cup {c}) \ {c} = T /\ T \cup {c} \in SUBSET Calls
  OBVIOUS
<1>2. Priced(g, Calls)
  BY GatesArePriced
<1>3. QED
  BY QuotaAssumption, <1>1, <1>2, SumWithout DEF Total

LEMMA TotalOfMore ==
  ASSUME NEW g \in Gates, NEW T \in SUBSET Calls, NEW U \in SUBSET T
  PROVE  Total(g, U) <= Total(g, T)
BY QuotaAssumption, GatesArePriced, SumGrowsWithSet DEF Total

LEMMA TotalOfDearer ==
  ASSUME NEW g \in Gates, NEW k \in Gates, NEW T \in SUBSET Calls,
         \A c \in T : g[c].cost <= k[c].cost
  PROVE  Total(g, T) <= Total(k, T)
<1>1. IsFiniteSet(T) /\ Priced(g, T) /\ Priced(k, T)
  BY QuotaAssumption, FS_Subset, GatesArePriced
<1>2. SumsOf(g, T)[T] <= SumsOf(k, T)[T]
  BY <1>1, SumGrowsWithCosts
<1>3. SumsOf(g, T)[T] = Total(g, T) /\ SumsOf(k, T)[T] = Total(k, T)
  BY QuotaAssumption, SumOfPart DEF SumOf, Total
<1>4. QED
  BY <1>2, <1>3

\* What is alike on a set of calls adds up alike.
LEMMA TotalOfSame ==
  ASSUME NEW g \in Gates, NEW k \in Gates, NEW T \in SUBSET Calls,
         \A c \in T : g[c].cost = k[c].cost
  PROVE  Total(g, T) = Total(k, T)
<1>1. \A c \in T : g[c].cost \in Nat /\ k[c].cost \in Nat
  BY GatesArePriced DEF Priced
<1>2. Total(g, T) <= Total(k, T) /\ Total(k, T) <= Total(g, T)
  BY <1>1, TotalOfDearer
<1>3. QED
  BY <1>2, TotalIsNat

LEMMA TotalOfFree ==
  ASSUME NEW g \in Gates, NEW T \in SUBSET Calls, \A c \in T : g[c].cost = 0
  PROVE  Total(g, T) = 0
<1>1. IsFiniteSet(T) /\ T \in SUBSET T
  BY QuotaAssumption, FS_Subset
<1>2. SumsOf(g, T)[T] = 0
  BY <1>1, SumOfNothing
<1>3. QED
  BY QuotaAssumption, <1>2, SumOfPart DEF SumOf, Total

-----------------------------------------------------------------------------
(***************************************************************************)
(* The counter.  From above: what it holds was summed up from rows, or     *)
(* charged since by calls that are over, and only a call that was both is  *)
(* in it twice.  A sum in hand is what its rows cost at most, because a    *)
(* call costs nothing before the model and never gets cheaper.             *)
(***************************************************************************)
RecPc == {"idle", "list", "usage", "raise", "release"}
RecRecord == [pc : RecPc, value : Nat, sum : Nat, seen : SUBSET Calls]
QuotaTypeOK ==
  /\ counter \in Nat \cup {Missing}
  /\ gate \in Gates
  /\ rec \in [Reconcilers -> RecRecord]
  /\ recLock \in Reconcilers \cup {Nobody}
  /\ summed \subseteq Calls /\ twice \subseteq Calls

Early == {"idle", "get", "usage", "init", "model"}
FreeAtFirst == \A c \in Calls : gate[c].pc \in Early => gate[c].cost = 0

SumsInHand ==
  /\ \A c \in Calls : gate[c].pc = "init" => gate[c].sum <= Total(gate, gate[c].seen)
  /\ \A r \in Reconcilers : rec[r].pc = "raise" => rec[r].sum <= Total(gate, rec[r].seen)

CounterBounded ==
  /\ twice \subseteq Over
  /\ counter <= Total(gate, summed \cup Over) + Total(gate, twice)

(***************************************************************************)
(* From below: while nothing failed, the counter was started before any    *)
(* call was let through, no charge was lost, and so it holds what the      *)
(* calls that are over cost.                                               *)
(***************************************************************************)
Untroubled == faults = 0 =>
  /\ db /\ redis
  /\ \A c \in Calls :
       gate[c].pc = "model" \/ (gate[c].pc = "record" /\ gate[c].cost > 0) => gate[c].metered
  /\ counter = Missing =>
       \A c \in Calls : gate[c].pc \notin {"model", "charge"} /\ gate[c].cost = 0
  /\ counter # Missing => Total(gate, Over) <= counter

QuotaInv == LedgerTypeOK /\ WithinBatch /\ QuotaTypeOK /\ FreeAtFirst /\ SumsInHand /\ CounterBounded
            /\ Untroubled

LEMMA TypesAreBoth == TypeOK <=> LedgerTypeOK /\ QuotaTypeOK
BY Zenon DEF TypeOK, QuotaTypeOK, Gates, GateRecord, GatePc, RecRecord, RecPc

-----------------------------------------------------------------------------
(***************************************************************************)
(* What a step of the gateway makes of the call it is about.               *)
(***************************************************************************)
Onward(old, new) ==
  /\ new \in GateRecord
  /\ old.cost <= new.cost
  /\ new.pc \in Early => new.cost = 0
  /\ new.pc = "init" => new.sum <= Total(gate, new.seen)
  /\ old.pc # "over"

Ruled(pc, metered) == [Waiting EXCEPT !.pc = pc, !.metered = metered]

LEMMA RuledFits ==
  ASSUME QuotaInv, NEW c \in Calls, gate[c].pc \in {"get", "usage", "init"},
         NEW pc \in {"record", "model"}, NEW metered \in BOOLEAN
  PROVE  /\ Onward(gate[c], Ruled(pc, metered))
         /\ Ruled(pc, metered).pc = pc /\ Ruled(pc, metered).metered = metered
         /\ Ruled(pc, metered).cost = 0
<1>1. gate[c].cost = 0 /\ gate[c].pc # "over"
  BY DEF QuotaInv, FreeAtFirst, Early
<1>2. Waiting \in GateRecord /\ Waiting.cost = 0
  BY DEF Waiting, GateRecord, GatePc
<1>3. /\ Ruled(pc, metered) \in GateRecord /\ Ruled(pc, metered).cost = 0
      /\ Ruled(pc, metered).pc = pc /\ Ruled(pc, metered).metered = metered
  BY <1>2 DEF Ruled, GateRecord, GatePc
<1>4. QED
  BY <1>1, <1>3 DEF Onward

LEMMA DecideMoves ==
  ASSUME QuotaInv, NEW c \in Calls, gate[c].pc \in {"get", "init"}, NEW used, Decide(c, used)
  PROVE  \E new : /\ gate' = [gate EXCEPT ![c] = new] /\ Onward(gate[c], new)
                  /\ new.pc = IF Exhausted(used) THEN "record" ELSE "model"
                  /\ new.metered = ~Exhausted(used) /\ new.cost = 0
<1>1. /\ Onward(gate[c], Ruled("record", FALSE)) /\ Ruled("record", FALSE).pc = "record"
      /\ Ruled("record", FALSE).metered = FALSE /\ Ruled("record", FALSE).cost = 0
  BY RuledFits
<1>2. /\ Onward(gate[c], Ruled("model", TRUE)) /\ Ruled("model", TRUE).pc = "model"
      /\ Ruled("model", TRUE).metered = TRUE /\ Ruled("model", TRUE).cost = 0
  BY RuledFits
<1>3. CASE Exhausted(used)
  <2>1. (~Exhausted(used)) = FALSE
    BY <1>3
  <2>2. gate' = [gate EXCEPT ![c] = Ruled("record", FALSE)]
    BY <1>3, <2>1, Zenon DEF Decide, Ruled
  <2>3. QED
    BY <1>1, <1>2, <1>3, <2>1, <2>2, Zenon
<1>4. CASE ~Exhausted(used)
  <2>1. (~Exhausted(used)) = TRUE
    BY <1>4
  <2>2. gate' = [gate EXCEPT ![c] = Ruled("model", TRUE)]
    BY <1>4, <2>1, Zenon DEF Decide, Ruled
  <2>3. QED
    BY <1>1, <1>2, <1>4, <2>1, <2>2, Zenon
<1>5. QED
  BY <1>3, <1>4

LEMMA FailOpenMoves ==
  ASSUME QuotaInv, NEW c \in Calls, gate[c].pc \in {"get", "usage", "init"}, FailOpen(c)
  PROVE  \E new : gate' = [gate EXCEPT ![c] = new] /\ Onward(gate[c], new)
<1> DEFINE new == [Waiting EXCEPT !.pc = "model"]
<1>1. gate[c].cost = 0 /\ gate[c].pc # "over"
  BY DEF QuotaInv, FreeAtFirst, Early
<1>2. Waiting \in GateRecord /\ Waiting.cost = 0
  BY DEF Waiting, GateRecord, GatePc
<1>3. new \in GateRecord /\ new.cost = 0 /\ new.pc = "model"
  BY <1>2 DEF GateRecord, GatePc
<1>4. Onward(gate[c], new)
  BY <1>1, <1>3 DEF Onward
<1>5. QED
  BY <1>4, Zenon DEF FailOpen

LEMMA GoGateMoves ==
  ASSUME QuotaInv, NEW c \in Calls, NEW pc \in GatePc \ {"init"}, gate[c].pc # "over",
         pc \in Early => gate[c].pc \in Early, GoGate(c, pc)
  PROVE  \E new : /\ gate' = [gate EXCEPT ![c] = new] /\ Onward(gate[c], new)
                  /\ new.pc = pc /\ new.cost = gate[c].cost /\ new.metered = gate[c].metered
<1> DEFINE new == [gate[c] EXCEPT !.pc = pc]
<1>1. gate[c] \in GateRecord
  BY DEF QuotaInv, QuotaTypeOK, Gates
<1>2. new \in GateRecord /\ new.pc = pc /\ new.cost = gate[c].cost
      /\ new.metered = gate[c].metered
  BY <1>1 DEF GateRecord
<1>3. gate[c].cost \in Nat
  BY GatesArePriced DEF Priced, QuotaInv, QuotaTypeOK
<1>4. pc \in Early => gate[c].cost = 0
  BY DEF QuotaInv, FreeAtFirst
<1>5. Onward(gate[c], new)
  BY <1>2, <1>3, <1>4 DEF Onward
<1>6. gate' = [gate EXCEPT ![c] = new]
  BY DEF GoGate
<1> HIDE DEF new
<1>7. QED
  BY <1>2, <1>5, <1>6

LEMMA ReadUsageMoves ==
  ASSUME QuotaInv, NEW c \in Calls, ReadUsage(c)
  PROVE  \E new : /\ gate' = [gate EXCEPT ![c] = new] /\ Onward(gate[c], new)
                  /\ db => new.pc = "init" /\ new.cost = 0
<1> DEFINE new == [gate[c] EXCEPT !.pc = "init", !.sum = Credits(rows), !.seen = rows]
<1>1. gate[c] \in GateRecord /\ gate \in Gates /\ rows \in SUBSET Calls
  BY DEF QuotaInv, QuotaTypeOK, Gates, LedgerTypeOK
<1>2. Credits(rows) = Total(gate, rows) /\ Credits(rows) \in Nat
  BY <1>1, CreditsAreTotals, TotalIsNat
<1>3. new \in GateRecord /\ new.pc = "init" /\ new.cost = gate[c].cost
      /\ new.sum = Credits(rows) /\ new.seen = rows
  BY <1>1, <1>2 DEF GateRecord, GatePc
<1>4. gate[c].cost = 0 /\ gate[c].pc # "over"
  BY DEF QuotaInv, FreeAtFirst, Early, ReadUsage
<1>5. Onward(gate[c], new)
  BY <1>2, <1>3, <1>4 DEF Onward
<1>6. CASE db
  <2>1. gate' = [gate EXCEPT ![c] = new]
    BY <1>6 DEF ReadUsage
  <2> HIDE DEF new
  <2>2. QED
    BY <1>3, <1>4, <1>5, <2>1
<1>7. CASE ~db
  <2>1. FailOpen(c) /\ gate[c].pc = "usage"
    BY <1>7 DEF ReadUsage
  <2>2. QED
    BY <1>7, <2>1, FailOpenMoves
<1>8. QED
  BY <1>6, <1>7

LEMMA CallModelMoves ==
  ASSUME QuotaInv, NEW c \in Calls, CallModel(c)
  PROVE  \E new : /\ gate' = [gate EXCEPT ![c] = new] /\ Onward(gate[c], new)
                  /\ new.pc = "record" /\ new.metered = gate[c].metered
<1>1. PICK cost \in Costs : gate' = [gate EXCEPT ![c].pc = "record", ![c].cost = cost]
  BY DEF CallModel
<1> DEFINE new == [gate[c] EXCEPT !.pc = "record", !.cost = cost]
<1>2. gate[c] \in GateRecord /\ gate[c].cost = 0 /\ gate[c].pc # "over" /\ cost \in Nat
  BY QuotaAssumption DEF QuotaInv, QuotaTypeOK, Gates, FreeAtFirst, Early, CallModel
<1>3. new \in GateRecord /\ new.pc = "record" /\ new.cost = cost
      /\ new.metered = gate[c].metered
  BY <1>2 DEF GateRecord, GatePc
<1>4. Onward(gate[c], new)
  BY <1>2, <1>3 DEF Onward, Early
<1>5. gate' = [gate EXCEPT ![c] = new]
  BY <1>1
<1> HIDE DEF new
<1>6. QED
  BY <1>3, <1>4, <1>5

LEMMA GatewayMoves ==
  ASSUME QuotaInv, NEW c \in Calls, Gateway(c) \/ CrashCall(c)
  PROVE  \/ gate' = gate
         \/ \E new : gate' = [gate EXCEPT ![c] = new] /\ Onward(gate[c], new)
<1>1. CASE Admit(c)
  <2>1. PICK pc \in {"get", "record"} : GoGate(c, pc)
    BY <1>1 DEF Admit
  <2>2. gate[c].pc = "idle" /\ pc \in GatePc \ {"init"} /\ pc # "over"
    BY <1>1 DEF Admit, GatePc
  <2>3. gate[c].pc # "over" /\ (pc \in Early => gate[c].pc \in Early)
    BY <2>2 DEF Early
  <2>4. QED
    BY <2>1, <2>2, <2>3, GoGateMoves
<1>2. CASE GetCounter(c)
  <2>1. gate[c].pc = "get" /\ (FailOpen(c) \/ GoGate(c, "usage") \/ Decide(c, counter))
    BY <1>2, Zenon DEF GetCounter
  <2>2. "usage" \in GatePc \ {"init"} /\ gate[c].pc # "over" /\ gate[c].pc \in Early
    BY <2>1 DEF GatePc, Early
  <2>3. QED
    BY <2>1, <2>2, FailOpenMoves, GoGateMoves, DecideMoves
<1>3. CASE ReadUsage(c)
  BY <1>3, ReadUsageMoves
<1>4. CASE InitCounter(c)
  <2>1. gate[c].pc = "init"
        /\ (FailOpen(c) \/ Decide(c, gate[c].sum) \/ Decide(c, counter))
    BY <1>4, Zenon DEF InitCounter
  <2>2. QED
    BY <2>1, FailOpenMoves, DecideMoves
<1>5. CASE CallModel(c)
  BY <1>5, CallModelMoves
<1>6. CASE HandOver(c)
  BY <1>6 DEF HandOver, quotaVars
<1>7. CASE Recorded(c) \/ Charge(c) \/ CrashCall(c)
  <2>1. PICK pc \in {"charge", "over", "gone"} : GoGate(c, pc)
    BY <1>7, Zenon DEF Recorded, Charge, CrashCall
  <2>2. gate[c].pc # "over"
    BY <1>7 DEF Recorded, Charge, CrashCall
  <2>3. pc \in GatePc \ {"init"} /\ pc \notin Early
    BY DEF GatePc, Early
  <2>4. QED
    BY <2>1, <2>2, <2>3, GoGateMoves
<1>8. QED
  BY <1>1, <1>2, <1>3, <1>4, <1>5, <1>6, <1>7 DEF Gateway

LEMMA WhoseStep ==
  ASSUME [Next]_vars
  PROVE  \/ \E c \in Calls : (Gateway(c) \/ CrashCall(c)) /\ UNCHANGED <<rec, recLock>>
         \/ \E r \in Reconcilers : (Reconciler(r) \/ CrashReconciler(r)) /\ UNCHANGED gate
         \/ CounterLost
         \/ TurnLapses
         \/ UNCHANGED quotaVars
<1>1. ASSUME NEW c \in Calls, Gateway(c) \/ CrashCall(c)
      PROVE  UNCHANGED <<rec, recLock>>
  BY <1>1, Zenon DEF Gateway, Admit, GetCounter, ReadUsage, InitCounter, CallModel, HandOver,
                     Recorded, Charge, CrashCall, quotaVars
<1>2. ASSUME NEW r \in Reconcilers, Reconciler(r) \/ CrashReconciler(r)
      PROVE  UNCHANGED gate
  BY <1>2, Zenon DEF Reconciler, TakeTurn, ListCounter, SumLedger, RaiseCounter, ReleaseTurn,
                     CrashReconciler
<1>3. UNCHANGED vars => UNCHANGED quotaVars
  BY DEF vars
<1>4. QED
  BY <1>1, <1>2, <1>3, Zenon DEF Next

LEMMA GateStep ==
  ASSUME QuotaInv, [Next]_vars
  PROVE  /\ gate' \in Gates /\ FreeAtFirst'
         /\ \A c \in Calls : gate[c].cost <= gate'[c].cost
         /\ \A c \in Calls : gate'[c].pc = "init" => gate'[c].sum <= Total(gate', gate'[c].seen)
         /\ Over \subseteq Over'
<1>1. gate \in Gates /\ \A d \in Calls : gate[d].cost \in Nat
  BY GatesArePriced DEF QuotaInv, QuotaTypeOK, Priced
<1>2. CASE gate' = gate
  <2>1. \A d \in Calls : gate[d].pc = "init" => gate[d].sum <= Total(gate, gate[d].seen)
    BY DEF QuotaInv, SumsInHand
  <2>2. QED
    BY <1>1, <1>2, <2>1 DEF QuotaInv, FreeAtFirst, Over
<1>3. ASSUME NEW c \in Calls, NEW new, gate' = [gate EXCEPT ![c] = new], Onward(gate[c], new)
      PROVE  /\ gate' \in Gates /\ FreeAtFirst'
             /\ \A d \in Calls : gate[d].cost <= gate'[d].cost
             /\ \A d \in Calls : gate'[d].pc = "init" => gate'[d].sum <= Total(gate', gate'[d].seen)
             /\ Over \subseteq Over'
  <2>1. gate'[c] = new /\ \A d \in Calls \ {c} : gate'[d] = gate[d]
    BY <1>1, <1>3 DEF Gates
  <2>2. gate' \in Gates
    BY <1>1, <1>3 DEF Gates, Onward
  <2>3. \A d \in Calls : gate[d].cost <= gate'[d].cost
    BY <1>1, <1>3, <2>1 DEF Onward
  <2>4. FreeAtFirst'
    BY <1>3, <2>1 DEF QuotaInv, FreeAtFirst, Onward
  <2>5. Over \subseteq Over'
    BY <1>3, <2>1 DEF Over, Onward
  <2>6. ASSUME NEW d \in Calls, gate'[d].pc = "init"
        PROVE  gate'[d].sum <= Total(gate', gate'[d].seen)
    <3>1. gate'[d].sum <= Total(gate, gate'[d].seen)
      BY <1>3, <2>1, <2>6 DEF Onward, QuotaInv, SumsInHand
    <3>2. gate'[d].seen \in SUBSET Calls /\ gate'[d].sum \in Nat
      BY <2>2 DEF Gates, GateRecord
    <3>3. Total(gate, gate'[d].seen) <= Total(gate', gate'[d].seen)
      BY <1>1, <2>2, <2>3, <3>2, TotalOfDearer
    <3>4. Total(gate, gate'[d].seen) \in Nat /\ Total(gate', gate'[d].seen) \in Nat
      BY <1>1, <2>2, <3>2, TotalIsNat
    <3>5. QED
      BY <3>1, <3>2, <3>3, <3>4
  <2>7. QED
    BY <2>2, <2>3, <2>4, <2>5, <2>6
<1>4. gate' = gate \/ \E c \in Calls : \E new : gate' = [gate EXCEPT ![c] = new]
                                               /\ Onward(gate[c], new)
  <2>1. ASSUME NEW c \in Calls, Gateway(c) \/ CrashCall(c)
        PROVE  gate' = gate \/ \E new : gate' = [gate EXCEPT ![c] = new] /\ Onward(gate[c], new)
    BY <2>1, GatewayMoves
  <2>2. CounterLost \/ TurnLapses \/ UNCHANGED quotaVars => gate' = gate
    BY Zenon DEF CounterLost, TurnLapses, quotaVars
  <2>3. QED
    BY <2>1, <2>2, WhoseStep, Zenon
<1>5. QED
  BY <1>2, <1>3, <1>4, Zenon

LEMMA ReconcilerMoves ==
  ASSUME QuotaInv, NEW r \in Reconcilers, Reconciler(r) \/ CrashReconciler(r)
  PROVE  /\ recLock' \in {recLock, r, Nobody}
         /\ \E new \in RecRecord :
              /\ rec' = [rec EXCEPT ![r] = new]
              /\ new.pc = "raise" => new.sum <= Total(gate, new.seen)
<1>1. rec[r] \in RecRecord /\ counter \in Nat \cup {Missing} /\ rows \in SUBSET Calls
      /\ gate \in Gates
  BY DEF QuotaInv, QuotaTypeOK, LedgerTypeOK
<1>2. Asleep \in RecRecord /\ Asleep.pc = "idle"
  BY DEF Asleep, RecRecord, RecPc
<1>3. [Asleep EXCEPT !.pc = "release"] \in RecRecord /\ [Asleep EXCEPT !.pc = "release"].pc = "release"
  BY DEF Asleep, RecRecord, RecPc
<1>4. CASE TakeTurn(r)
  <2>1. [rec[r] EXCEPT !.pc = "list"] \in RecRecord
        /\ [rec[r] EXCEPT !.pc = "list"].pc = "list"
    BY <1>1 DEF RecRecord, RecPc
  <2>2. rec' = [rec EXCEPT ![r] = [rec[r] EXCEPT !.pc = "list"]] /\ recLock' = r
    BY <1>4 DEF TakeTurn
  <2>3. QED
    BY <2>1, <2>2, Zenon
<1>5. CASE ListCounter(r)
  <2> DEFINE new == [rec[r] EXCEPT !.pc = "usage", !.value = counter]
  <2>1. counter # Missing => new \in RecRecord /\ new.pc = "usage"
    BY <1>1 DEF RecRecord, RecPc
  <2>2. \/ counter # Missing /\ rec' = [rec EXCEPT ![r] = new]
        \/ rec' = [rec EXCEPT ![r] = [Asleep EXCEPT !.pc = "release"]]
    BY <1>5 DEF ListCounter, Leave
  <2>3. recLock' = recLock
    BY <1>5 DEF ListCounter
  <2> HIDE DEF new
  <2>4. QED
    BY <1>3, <2>1, <2>2, <2>3, Zenon
<1>6. CASE SumLedger(r)
  <2> DEFINE new == [rec[r] EXCEPT !.pc = "raise", !.sum = Credits(rows), !.seen = rows]
  <2>1. Credits(rows) = Total(gate, rows) /\ Credits(rows) \in Nat
    BY <1>1, CreditsAreTotals, TotalIsNat
  <2>2. new \in RecRecord /\ new.sum = Credits(rows) /\ new.seen = rows
    BY <1>1, <2>1 DEF RecRecord, RecPc
  <2>3. new.sum <= Total(gate, new.seen)
    BY <2>1, <2>2
  <2>4. \/ rec' = [rec EXCEPT ![r] = new]
        \/ rec' = [rec EXCEPT ![r] = [Asleep EXCEPT !.pc = "release"]]
    BY <1>6 DEF SumLedger, Leave
  <2>5. recLock' = recLock
    BY <1>6 DEF SumLedger
  <2> HIDE DEF new
  <2>6. QED
    BY <1>3, <2>2, <2>3, <2>4, <2>5, Zenon
<1>7. CASE RaiseCounter(r)
  <2>1. rec' = [rec EXCEPT ![r] = [Asleep EXCEPT !.pc = "release"]] /\ recLock' = recLock
    BY <1>7, Zenon DEF RaiseCounter, Leave
  <2>2. QED
    BY <1>3, <2>1, Zenon
<1>8. CASE ReleaseTurn(r) \/ CrashReconciler(r)
  <2>1. rec' = [rec EXCEPT ![r] = Asleep] /\ recLock' \in {recLock, Nobody}
    BY <1>8, Zenon DEF ReleaseTurn, CrashReconciler
  <2>2. QED
    BY <1>2, <2>1, Zenon
<1>9. QED
  BY <1>4, <1>5, <1>6, <1>7, <1>8 DEF Reconciler

LEMMA RecStep ==
  ASSUME QuotaInv, [Next]_vars
  PROVE  /\ rec' \in [Reconcilers -> RecRecord]
         /\ recLock' \in Reconcilers \cup {Nobody}
         /\ \A r \in Reconcilers : rec'[r].pc = "raise" => rec'[r].sum <= Total(gate, rec'[r].seen)
<1>1. /\ rec \in [Reconcilers -> RecRecord] /\ recLock \in Reconcilers \cup {Nobody}
      /\ \A r \in Reconcilers : rec[r].pc = "raise" => rec[r].sum <= Total(gate, rec[r].seen)
  BY DEF QuotaInv, QuotaTypeOK, SumsInHand
<1>2. ASSUME NEW r \in Reconcilers, Reconciler(r) \/ CrashReconciler(r)
      PROVE  /\ rec' \in [Reconcilers -> RecRecord]
             /\ recLock' \in Reconcilers \cup {Nobody}
             /\ \A q \in Reconcilers : rec'[q].pc = "raise" => rec'[q].sum <= Total(gate, rec'[q].seen)
  BY <1>1, <1>2, ReconcilerMoves
<1>3. CASE CounterLost \/ TurnLapses
  <2>1. rec' = rec /\ recLock' \in {recLock, Nobody}
    BY <1>3, Zenon DEF CounterLost, TurnLapses
  <2>2. QED
    BY <1>1, <2>1
<1>4. CASE UNCHANGED <<rec, recLock>>
  BY <1>1, <1>4
<1>5. QED
  BY <1>2, <1>3, <1>4, WhoseStep, Zenon DEF quotaVars

-----------------------------------------------------------------------------
(***************************************************************************)
(* The counter from above.                                                 *)
(***************************************************************************)
CounterTypeOK == counter \in Nat \cup {Missing} /\ summed \subseteq Calls /\ twice \subseteq Calls

LEMMA OverIsOfCalls == Over \in SUBSET Calls /\ Over' \in SUBSET Calls
BY DEF Over

LEMMA CounterAside ==
  ASSUME QuotaInv, [Next]_vars, UNCHANGED <<counter, summed, twice>>
  PROVE  CounterTypeOK' /\ CounterBounded'
<1>1. /\ gate \in Gates /\ gate' \in Gates /\ Over \subseteq Over'
      /\ \A c \in Calls : gate[c].cost <= gate'[c].cost
  BY GateStep DEF QuotaInv, QuotaTypeOK
<1>2. /\ CounterTypeOK /\ twice \subseteq Over
      /\ counter <= Total(gate, summed \cup Over) + Total(gate, twice)
  BY DEF QuotaInv, QuotaTypeOK, CounterTypeOK, CounterBounded
<1> DEFINE S == summed \cup Over
           S1 == summed \cup Over'
<1>3. S \in SUBSET S1 /\ S1 \in SUBSET Calls /\ S \in SUBSET Calls /\ twice \in SUBSET Calls
  BY <1>1, <1>2, OverIsOfCalls DEF CounterTypeOK
<1>4. Total(gate, S) <= Total(gate', S) /\ Total(gate', S) <= Total(gate', S1)
      /\ Total(gate, twice) <= Total(gate', twice)
  BY <1>1, <1>3, TotalOfDearer, TotalOfMore
<1>5. /\ Total(gate, S) \in Nat /\ Total(gate', S) \in Nat /\ Total(gate', S1) \in Nat
      /\ Total(gate, twice) \in Nat /\ Total(gate', twice) \in Nat
  BY <1>1, <1>3, TotalIsNat
<1>6. counter \in Int
  BY <1>2 DEF CounterTypeOK, Missing
<1>7. counter <= Total(gate', S1) + Total(gate', twice)
  <2> HIDE DEF S, S1
  <2>1. QED
    BY <1>2, <1>4, <1>5, <1>6 DEF S
<1>8. QED
  BY <1>1, <1>2, <1>7 DEF CounterTypeOK, CounterBounded

\* The counter is set to what the rows of some calls added up to.
LEMMA CounterSet ==
  ASSUME QuotaInv, [Next]_vars, NEW seen \in SUBSET Calls, counter' \in Nat,
         counter' <= Total(gate, seen), summed' = seen, twice' = {}
  PROVE  CounterTypeOK' /\ CounterBounded'
<1>1. /\ gate \in Gates /\ gate' \in Gates
      /\ \A c \in Calls : gate[c].cost <= gate'[c].cost
  BY GateStep DEF QuotaInv, QuotaTypeOK
<1> DEFINE S1 == seen \cup Over'
<1>2. seen \in SUBSET S1 /\ S1 \in SUBSET Calls /\ {} \in SUBSET Calls
  BY OverIsOfCalls
<1>3. Total(gate, seen) <= Total(gate', seen) /\ Total(gate', seen) <= Total(gate', S1)
  BY <1>1, <1>2, TotalOfDearer, TotalOfMore
<1>4. /\ Total(gate, seen) \in Nat /\ Total(gate', seen) \in Nat /\ Total(gate', S1) \in Nat
      /\ Total(gate', {}) \in Nat
  BY <1>1, <1>2, TotalIsNat
<1>5. counter' <= Total(gate', S1) + Total(gate', {})
  <2> HIDE DEF S1
  <2>1. QED
    BY <1>3, <1>4
<1>6. QED
  BY <1>5 DEF CounterTypeOK, CounterBounded

LEMMA ChargeCounts ==
  ASSUME QuotaInv, NEW c \in Calls, Charge(c), redis, counter # Missing
  PROVE  CounterTypeOK' /\ CounterBounded'
<1>1. [Next]_vars
  BY DEF Next, Gateway
<1>2. /\ gate \in Gates /\ gate' \in Gates /\ Over \subseteq Over'
      /\ \A d \in Calls : gate[d].cost <= gate'[d].cost
  BY <1>1, GateStep DEF QuotaInv, QuotaTypeOK
<1>3. /\ gate[c].pc = "charge" /\ gate' = [gate EXCEPT ![c].pc = "over"]
      /\ counter' = counter + gate[c].cost /\ summed' = summed
      /\ twice' = twice \cup (summed \cap {c})
  BY Zenon DEF Charge, GoGate
<1>4. gate'[c].pc = "over" /\ c \notin Over /\ c \in Over' /\ gate'[c].cost = gate[c].cost
  BY <1>2, <1>3 DEF Gates, GateRecord, Over
<1>5. /\ counter \in Nat /\ summed \subseteq Calls /\ twice \subseteq Calls /\ twice \subseteq Over
      /\ counter <= Total(gate, summed \cup Over) + Total(gate, twice)
  BY DEF QuotaInv, QuotaTypeOK, CounterBounded
<1>6. gate[c].cost \in Nat
  BY <1>2, GatesArePriced DEF Priced
<1> DEFINE S == summed \cup Over
           S1 == summed \cup Over'
<1>7. S \in SUBSET S1 /\ S1 \in SUBSET Calls /\ S \in SUBSET Calls /\ twice \in SUBSET Calls
      /\ twice' \in SUBSET Calls /\ c \notin twice
  BY <1>2, <1>3, <1>4, <1>5, OverIsOfCalls
<1>8. Total(gate, S) <= Total(gate', S) /\ Total(gate', S) <= Total(gate', S1)
      /\ Total(gate, twice) <= Total(gate', twice)
  BY <1>2, <1>7, TotalOfDearer, TotalOfMore
<1>9. /\ Total(gate, S) \in Nat /\ Total(gate', S) \in Nat /\ Total(gate', S1) \in Nat
      /\ Total(gate, twice) \in Nat /\ Total(gate', twice) \in Nat /\ Total(gate', twice') \in Nat
  BY <1>2, <1>7, TotalIsNat
<1>10. counter' <= Total(gate', S1) + Total(gate', twice')
  <2>1. CASE c \in summed
    <3>1. twice' = twice \cup {c}
      BY <1>3, <2>1
    <3>2. Total(gate', twice') = gate'[c].cost + Total(gate', twice)
      BY <1>2, <1>7, <3>1, TotalWithOneMore
    <3>3. counter <= Total(gate, S) + Total(gate, twice)
      BY <1>5
    <3>4. counter' = counter + gate[c].cost /\ gate'[c].cost = gate[c].cost
      BY <1>3, <1>4
    <3> HIDE DEF S, S1
    <3>5. QED
      BY <1>5, <1>6, <1>8, <1>9, <3>2, <3>3, <3>4
  <2>2. CASE c \notin summed
    <3>1. twice' = twice /\ c \notin S /\ S \cup {c} \in SUBSET S1 /\ S \cup {c} \in SUBSET Calls
      BY <1>2, <1>3, <1>4, <1>7, <2>2
    <3>2. Total(gate', S \cup {c}) = gate'[c].cost + Total(gate', S)
      BY <1>2, <1>7, <3>1, TotalWithOneMore
    <3>3. Total(gate', S \cup {c}) <= Total(gate', S1) /\ Total(gate', S \cup {c}) \in Nat
      BY <1>2, <1>7, <3>1, TotalOfMore, TotalIsNat
    <3>4. counter <= Total(gate, S) + Total(gate, twice)
      BY <1>5
    <3>5. counter' = counter + gate[c].cost /\ gate'[c].cost = gate[c].cost
      BY <1>3, <1>4
    <3>6. Total(gate', twice') = Total(gate', twice)
      BY <3>1
    <3> HIDE DEF S, S1
    <3>7. QED
      BY <1>5, <1>6, <1>8, <1>9, <3>2, <3>3, <3>4, <3>5, <3>6
  <2>3. QED
    BY <2>1, <2>2
<1>11. twice' \subseteq Over'
  BY <1>2, <1>3, <1>4, <1>5
<1>12. counter' \in Nat
  BY <1>3, <1>5, <1>6
<1>13. QED
  BY <1>3, <1>5, <1>7, <1>10, <1>11, <1>12 DEF CounterTypeOK, CounterBounded

LEMMA CounterStep ==
  ASSUME QuotaInv, [Next]_vars
  PROVE  CounterTypeOK' /\ CounterBounded'
<1>1. ASSUME NEW c \in Calls, InitCounter(c), counter' # counter \/ summed' # summed \/ twice' # twice
      PROVE  CounterTypeOK' /\ CounterBounded'
  <2>1. /\ gate[c].pc = "init" /\ counter' = gate[c].sum /\ summed' = gate[c].seen /\ twice' = {}
    BY <1>1, Zenon DEF InitCounter
  <2>2. gate[c].sum <= Total(gate, gate[c].seen) /\ gate[c].sum \in Nat
        /\ gate[c].seen \in SUBSET Calls
    BY <2>1 DEF QuotaInv, SumsInHand, QuotaTypeOK, Gates, GateRecord
  <2>3. QED
    BY <2>1, <2>2, CounterSet
<1>2. ASSUME NEW r \in Reconcilers, RaiseCounter(r), counter' # counter \/ summed' # summed \/ twice' # twice
      PROVE  CounterTypeOK' /\ CounterBounded'
  <2>1. /\ rec[r].pc = "raise" /\ counter' = rec[r].sum /\ summed' = rec[r].seen /\ twice' = {}
    BY <1>2, Zenon DEF RaiseCounter
  <2>2. rec[r].sum <= Total(gate, rec[r].seen) /\ rec[r].sum \in Nat
        /\ rec[r].seen \in SUBSET Calls
    BY <2>1 DEF QuotaInv, SumsInHand, QuotaTypeOK, RecRecord
  <2>3. QED
    BY <2>1, <2>2, CounterSet
<1>3. ASSUME NEW c \in Calls, Charge(c), counter' # counter \/ summed' # summed \/ twice' # twice
      PROVE  CounterTypeOK' /\ CounterBounded'
  <2>1. redis /\ counter # Missing
    BY <1>3, Zenon DEF Charge
  <2>2. QED
    BY <1>3, <2>1, ChargeCounts
<1>4. CASE CounterLost
  <2>1. counter' = Missing /\ summed' = {} /\ twice' = {}
    BY <1>4 DEF CounterLost
  <2>2. gate' \in Gates /\ Over' \in SUBSET Calls
    BY GateStep, OverIsOfCalls
  <2>3. Total(gate', Over') \in Nat /\ Total(gate', {}) \in Nat
    BY <2>2, TotalIsNat
  <2>4. Missing <= Total(gate', Over') + Total(gate', {}) /\ {} \cup Over' = Over'
    BY <2>3 DEF Missing
  <2>5. QED
    BY <2>1, <2>4 DEF CounterTypeOK, CounterBounded
<1>5. \/ UNCHANGED <<counter, summed, twice>>
      \/ \E c \in Calls : InitCounter(c) \/ Charge(c)
      \/ \E r \in Reconcilers : RaiseCounter(r)
      \/ CounterLost
  <2>1. ASSUME NEW c \in Calls, Gateway(c) \/ CrashCall(c)
        PROVE  InitCounter(c) \/ Charge(c) \/ UNCHANGED <<counter, summed, twice>>
    BY <2>1, Zenon DEF Gateway, Admit, GetCounter, ReadUsage, CallModel, HandOver, Recorded,
                       CrashCall, quotaVars
  <2>2. ASSUME NEW r \in Reconcilers, Reconciler(r) \/ CrashReconciler(r)
        PROVE  RaiseCounter(r) \/ UNCHANGED <<counter, summed, twice>>
    BY <2>2, Zenon DEF Reconciler, TakeTurn, ListCounter, SumLedger, ReleaseTurn, CrashReconciler
  <2>3. TurnLapses \/ UNCHANGED quotaVars => UNCHANGED <<counter, summed, twice>>
    BY Zenon DEF TurnLapses, quotaVars
  <2>4. QED
    BY <2>1, <2>2, <2>3, Zenon DEF Next, vars
<1>6. CASE UNCHANGED <<counter, summed, twice>>
  BY <1>6, CounterAside
<1>7. QED
  BY <1>1, <1>2, <1>3, <1>4, <1>5, <1>6, Zenon

-----------------------------------------------------------------------------
(***************************************************************************)
(* The counter from below.                                                 *)
(***************************************************************************)
NeverAway ==
  /\ faults' \in Nat
  /\ faults' = 0 => faults = 0
  /\ faults' = 0 /\ db => db'
  /\ faults' = 0 /\ redis => redis'

LEMMA NoFaultNoOutage ==
  ASSUME LedgerTypeOK, [Next]_vars
  PROVE  NeverAway
<1>1. faults \in Nat
  BY DEF LedgerTypeOK
<1>2. Fault => faults' \in Nat /\ faults' # 0
  BY <1>1 DEF Fault
<1>3. \/ Fault
      \/ faults' = faults /\ (db => db') /\ (redis => redis')
  <2> USE DEF stores, AnswerLostByDb, AnswerLostByRedis
  <2>1. ASSUME NEW c \in Calls, BeginRecord(c) \/ Recorder(c)
        PROVE  Fault \/ (faults' = faults /\ (db => db') /\ (redis => redis'))
    BY <2>1, Zenon DEF BeginRecord, Recorder, WriteRecord, PushRecord
  <2>2. ASSUME NEW i \in Instances, Drainer(i)
        PROVE  Fault \/ (faults' = faults /\ (db => db') /\ (redis => redis'))
    BY <2>2, Zenon DEF Drainer, TakeLock, ReadBatch, WriteEntry, ParkEntry, TrimSpool,
                       ReleaseLock
  <2>3. ASSUME Weather
        PROVE  Fault \/ (faults' = faults /\ (db => db') /\ (redis => redis'))
    BY <2>3, Zenon DEF Weather, Outage, DbBack, RedisBack, LockLapses, CrashRecording,
                       CrashDrainer
  <2>4. ASSUME NEW c \in Calls, Gateway(c) \/ CrashCall(c)
        PROVE  \/ Fault \/ BeginRecord(c)
               \/ faults' = faults /\ (db => db') /\ (redis => redis')
    BY <2>4, Zenon DEF Gateway, Admit, GetCounter, ReadUsage, InitCounter, CallModel, HandOver,
                       Recorded, Charge, CrashCall, ledgerVars
  <2>5. ASSUME NEW r \in Reconcilers, Reconciler(r) \/ CrashReconciler(r)
        PROVE  Fault \/ (faults' = faults /\ (db => db') /\ (redis => redis'))
    BY <2>5, Zenon DEF Reconciler, TakeTurn, ListCounter, SumLedger, RaiseCounter, ReleaseTurn,
                       CrashReconciler, ledgerVars
  <2>6. CASE CounterLost \/ TurnLapses \/ UNCHANGED vars
    BY <2>6, Zenon DEF CounterLost, TurnLapses, vars, ledgerVars
  <2>7. QED
    BY <2>1, <2>2, <2>3, <2>4, <2>5, <2>6, Zenon DEF Next
<1>4. QED
  BY <1>1, <1>2, <1>3 DEF NeverAway

\* While nothing failed, as it stands.
Calm ==
  /\ db /\ redis
  /\ \A c \in Calls :
       gate[c].pc = "model" \/ (gate[c].pc = "record" /\ gate[c].cost > 0) => gate[c].metered
  /\ counter = Missing =>
       \A c \in Calls : gate[c].pc \notin {"model", "charge"} /\ gate[c].cost = 0
  /\ counter # Missing => Total(gate, Over) <= counter

\* A step on one call: what it must see to for the calm to last.
SeesTo(c, new) ==
  /\ gate' = [gate EXCEPT ![c] = new] /\ gate[c].pc # "over"
  /\ new.pc = "model" \/ (new.pc = "record" /\ new.cost > 0) => new.metered
  /\ counter' = Missing => counter = Missing /\ new.pc \notin {"model", "charge"} /\ new.cost = 0
  /\ counter' # Missing =>
       /\ counter = Missing => new.cost = 0
       /\ counter # Missing => counter <= counter'
       /\ new.pc = "over" /\ counter # Missing => new.cost + counter <= counter'

LEMMA CalmCall ==
  ASSUME QuotaInv, Calm, db', redis', gate' \in Gates, counter' \in Nat \cup {Missing},
         NEW c \in Calls, NEW new, SeesTo(c, new)
  PROVE  Calm'
<1>1. gate \in Gates /\ counter \in Nat \cup {Missing}
  BY DEF QuotaInv, QuotaTypeOK
<1>2. gate'[c] = new /\ \A d \in Calls \ {c} : gate'[d] = gate[d]
  BY <1>1 DEF Gates, SeesTo
<1>3. \A d \in Calls : gate'[d].pc = "model" \/ (gate'[d].pc = "record" /\ gate'[d].cost > 0)
                         => gate'[d].metered
  BY <1>2 DEF Calm, SeesTo
<1>4. counter' = Missing =>
        \A d \in Calls : gate'[d].pc \notin {"model", "charge"} /\ gate'[d].cost = 0
  BY <1>2 DEF Calm, SeesTo
<1>5. ASSUME counter' # Missing PROVE Total(gate', Over') <= counter'
  <2>1. CASE counter = Missing
    <3>1. \A d \in Over' : gate'[d].cost = 0
      BY <1>2, <1>5, <2>1 DEF Calm, Over, SeesTo
    <3>2. Total(gate', Over') = 0
      BY <3>1, TotalOfFree, OverIsOfCalls
    <3>3. QED
      BY <1>5, <2>1, <3>2
  <2>2. CASE counter # Missing
    <3>1. Over \in SUBSET Calls /\ c \notin Over /\ \A d \in Over : gate[d].cost = gate'[d].cost
      BY <1>2 DEF Over, SeesTo
    <3>2. Total(gate, Over) = Total(gate', Over)
      BY <1>1, <3>1, TotalOfSame
    <3>3. Total(gate', Over) <= counter /\ counter <= counter'
      BY <1>5, <2>2, <3>2 DEF Calm, SeesTo
    <3>4. counter \in Nat /\ counter' \in Nat /\ Total(gate', Over) \in Nat
      BY <1>1, <1>5, <2>2, <3>1, TotalIsNat
    <3>5. CASE new.pc = "over"
      <4>1. Over' = Over \cup {c}
        BY <1>2, <3>5 DEF Over
      <4>2. Total(gate', Over \cup {c}) = gate'[c].cost + Total(gate', Over)
        BY <3>1, TotalWithOneMore
      <4>3. new.cost \in Nat
        BY <1>2, GatesArePriced DEF Priced
      <4>4. Total(gate', Over') = new.cost + Total(gate', Over)
        BY <1>2, <4>1, <4>2, Zenon
      <4>5. new.cost + counter <= counter'
        BY <1>5, <2>2, <3>5 DEF SeesTo
      <4>6. QED
        BY <3>3, <3>4, <4>3, <4>4, <4>5
    <3>6. CASE new.pc # "over"
      <4>1. Over' = Over
        BY <1>2, <3>1, <3>6 DEF Over
      <4>2. QED
        BY <3>3, <3>4, <4>1
    <3>7. QED
      BY <3>5, <3>6
  <2>3. QED
    BY <2>1, <2>2
<1>6. QED
  BY <1>3, <1>4, <1>5 DEF Calm

LEMMA CalmAside ==
  ASSUME QuotaInv, Calm, db', redis', gate' = gate, counter' \in Nat \cup {Missing},
         counter' = counter \/ (counter # Missing /\ counter' # Missing /\ counter <= counter')
  PROVE  Calm'
<1>1. counter \in Nat \cup {Missing} /\ gate \in Gates
  BY DEF QuotaInv, QuotaTypeOK
<1>2. Over' = Over /\ Total(gate, Over) \in Nat
  BY <1>1, OverIsOfCalls, TotalIsNat DEF Over
<1>3. CASE counter' = counter
  BY <1>2, <1>3 DEF Calm
<1>4. CASE counter # Missing /\ counter' # Missing /\ counter <= counter'
  <2>1. Total(gate, Over) <= counter
    BY <1>4 DEF Calm
  <2>2. Total(gate, Over) <= counter'
    BY <1>1, <1>2, <1>4, <2>1
  <2>3. Total(gate', Over') <= counter'
    BY <1>2, <2>2
  <2>4. QED
    BY <1>4, <2>3 DEF Calm
<1>5. QED
  BY <1>3, <1>4

LEMMA CalmGateway ==
  ASSUME QuotaInv, Calm, NEW c \in Calls, Gateway(c), db', redis'
  PROVE  Calm'
<1>1. [Next]_vars
  BY DEF Next
<1>2. gate' \in Gates /\ counter' \in Nat \cup {Missing}
  BY <1>1, GateStep, CounterStep DEF CounterTypeOK
<1>3. /\ gate \in Gates /\ counter \in Nat \cup {Missing} /\ gate[c] \in GateRecord
      /\ gate[c].cost \in Nat /\ gate[c].sum \in Nat
  BY GatesArePriced DEF QuotaInv, QuotaTypeOK, Gates, GateRecord, Priced
<1>4. db /\ redis
  BY DEF Calm
<1>5. CASE Admit(c)
  <2>1. PICK pc \in {"get", "record"} : GoGate(c, pc)
    BY <1>5 DEF Admit
  <2>2. gate[c].pc = "idle" /\ pc \in GatePc \ {"init"} /\ gate[c].pc # "over"
        /\ (pc \in Early => gate[c].pc \in Early) /\ gate[c].cost = 0 /\ counter' = counter
    BY <1>5 DEF Admit, GatePc, Early, QuotaInv, FreeAtFirst
  <2>3. PICK new : gate' = [gate EXCEPT ![c] = new] /\ new.pc = pc /\ new.cost = 0
    BY <2>1, <2>2, GoGateMoves
  <2>4. SeesTo(c, new)
    BY <1>3, <2>2, <2>3 DEF SeesTo
  <2>5. QED
    BY <1>2, <2>4, CalmCall
<1>6. CASE GetCounter(c)
  <2>1. gate[c].pc = "get" /\ counter' = counter
    BY <1>6 DEF GetCounter
  <2>2. CASE counter = Missing
    <3>1. GoGate(c, "usage") /\ "usage" \in GatePc \ {"init"}
      BY <1>4, <1>6, <2>2 DEF GetCounter, GatePc
    <3>2. gate[c].cost = 0 /\ gate[c].pc # "over" /\ gate[c].pc \in Early
      BY <2>1 DEF QuotaInv, FreeAtFirst, Early
    <3>3. PICK new : gate' = [gate EXCEPT ![c] = new] /\ new.pc = "usage" /\ new.cost = 0
      BY <3>1, <3>2, GoGateMoves
    <3>4. SeesTo(c, new)
      BY <1>3, <2>1, <3>2, <3>3 DEF SeesTo
    <3>5. QED
      BY <1>2, <3>4, CalmCall
  <2>3. CASE counter # Missing
    <3>1. Decide(c, counter)
      BY <1>4, <1>6, <2>3 DEF GetCounter
    <3>2. PICK new : /\ gate' = [gate EXCEPT ![c] = new] /\ new.cost = 0
                     /\ new.pc = IF Exhausted(counter) THEN "record" ELSE "model"
                     /\ new.metered = ~Exhausted(counter)
      BY <2>1, <3>1, DecideMoves
    <3>3. (new.pc = "model" => new.metered) /\ new.pc # "over"
      BY <3>2, Zenon
    <3>4. SeesTo(c, new)
      BY <1>3, <2>1, <2>3, <3>2, <3>3 DEF SeesTo
    <3>5. QED
      BY <1>2, <3>4, CalmCall
  <2>4. QED
    BY <2>2, <2>3
<1>7. CASE ReadUsage(c)
  <2>1. PICK new : gate' = [gate EXCEPT ![c] = new] /\ new.pc = "init" /\ new.cost = 0
    BY <1>4, <1>7, ReadUsageMoves
  <2>2. gate[c].pc = "usage" /\ counter' = counter
    BY <1>7 DEF ReadUsage
  <2>3. SeesTo(c, new)
    BY <1>3, <2>1, <2>2 DEF SeesTo
  <2>4. QED
    BY <1>2, <2>3, CalmCall
<1>8. CASE InitCounter(c)
  <2>1. gate[c].pc = "init"
    BY <1>8 DEF InitCounter
  <2>2. PICK used \in Nat : Decide(c, used) /\ counter' = used
    <3>1. CASE counter = Missing
      BY <1>3, <1>4, <1>8, <3>1, Zenon DEF InitCounter
    <3>2. CASE counter # Missing
      <4>1. Decide(c, counter) /\ counter' = counter
        BY <1>4, <1>8, <3>2, Zenon DEF InitCounter
      <4>2. QED
        BY <1>3, <3>2, <4>1
    <3>3. QED
      BY <3>1, <3>2
  <2>3. counter = Missing \/ counter' = counter
    BY <1>4, <1>8, Zenon DEF InitCounter
  <2>4. PICK new : /\ gate' = [gate EXCEPT ![c] = new] /\ new.cost = 0
                   /\ new.pc = IF Exhausted(used) THEN "record" ELSE "model"
                   /\ new.metered = ~Exhausted(used)
    BY <2>1, <2>2, DecideMoves
  <2>5. (new.pc = "model" => new.metered) /\ new.pc # "over"
    BY <2>4, Zenon
  <2>6. counter' >= 0 /\ counter' # Missing
    BY <2>2 DEF Missing
  <2>7. SeesTo(c, new)
    BY <1>3, <2>1, <2>3, <2>4, <2>5, <2>6 DEF SeesTo
  <2>8. QED
    BY <1>2, <2>7, CalmCall
<1>9. CASE CallModel(c)
  <2>1. PICK new : /\ gate' = [gate EXCEPT ![c] = new]
                   /\ new.pc = "record" /\ new.metered = gate[c].metered
    BY <1>9, CallModelMoves
  <2>2. gate[c].pc = "model" /\ counter' = counter /\ gate[c].metered /\ counter # Missing
    BY <1>9 DEF CallModel, Calm
  <2>3. SeesTo(c, new)
    BY <1>3, <2>1, <2>2 DEF SeesTo
  <2>4. QED
    BY <1>2, <2>3, CalmCall
<1>10. CASE HandOver(c)
  BY <1>2, <1>10, CalmAside DEF HandOver, quotaVars
<1>11. CASE Recorded(c)
  <2> DEFINE pc == IF gate[c].metered /\ gate[c].cost > 0 THEN "charge" ELSE "over"
  <2>1. gate[c].pc = "record" /\ counter' = counter /\ GoGate(c, pc)
    BY <1>11 DEF Recorded
  <2>2. pc \in GatePc \ {"init"} /\ pc \notin Early /\ pc # "model" /\ pc # "record"
    BY DEF GatePc, Early
  <2>3. gate[c].cost > 0 => pc = "charge"
    BY <2>1 DEF Calm
  <2>4. gate[c].cost = 0 => pc = "over"
    OBVIOUS
  <2> HIDE DEF pc
  <2>5. PICK new : gate' = [gate EXCEPT ![c] = new] /\ new.pc = pc /\ new.cost = gate[c].cost
    BY <2>1, <2>2, GoGateMoves
  <2>6. counter = Missing => gate[c].cost = 0
    BY DEF Calm
  <2>7. new.pc = "over" => new.cost = 0
    BY <1>3, <2>3, <2>5
  <2>8. SeesTo(c, new)
    BY <1>3, <2>1, <2>2, <2>4, <2>5, <2>6, <2>7 DEF SeesTo
  <2>9. QED
    BY <1>2, <2>8, CalmCall
<1>12. CASE Charge(c)
  <2>1. gate[c].pc = "charge" /\ GoGate(c, "over") /\ counter # Missing
    BY <1>12 DEF Charge, Calm
  <2>2. counter' = counter + gate[c].cost
    BY <1>4, <1>12, <2>1 DEF Charge
  <2>3. "over" \in GatePc \ {"init"} /\ "over" \notin Early
    BY DEF GatePc, Early
  <2>4. PICK new : gate' = [gate EXCEPT ![c] = new] /\ new.pc = "over" /\ new.cost = gate[c].cost
    BY <2>1, <2>3, GoGateMoves
  <2>5. counter \in Nat /\ counter' \in Nat /\ counter' # Missing
    BY <1>3, <2>1, <2>2 DEF Missing
  <2>6. counter <= counter' /\ new.cost + counter <= counter'
    BY <1>3, <2>2, <2>4, <2>5
  <2>7. SeesTo(c, new)
    BY <1>3, <2>1, <2>4, <2>5, <2>6 DEF SeesTo
  <2>8. QED
    BY <1>2, <2>7, CalmCall
<1>13. QED
  BY <1>5, <1>6, <1>7, <1>8, <1>9, <1>10, <1>11, <1>12 DEF Gateway

LEMMA UntroubledStep ==
  ASSUME QuotaInv, [Next]_vars
  PROVE  Untroubled'
<1>1. SUFFICES ASSUME faults' = 0 PROVE Calm'
  BY DEF Untroubled, Calm
<1>2. faults = 0 /\ faults \in Nat /\ NeverAway
  BY <1>1, NoFaultNoOutage DEF NeverAway, QuotaInv, LedgerTypeOK
<1>3. Calm /\ db' /\ redis' /\ ~Fault
  BY <1>1, <1>2 DEF QuotaInv, Untroubled, Calm, NeverAway, Fault
<1>4. counter' \in Nat \cup {Missing} /\ counter \in Nat \cup {Missing}
  BY CounterStep DEF CounterTypeOK, QuotaInv, QuotaTypeOK
<1>5. ASSUME NEW c \in Calls, Gateway(c) PROVE Calm'
  BY <1>3, <1>5, CalmGateway
<1>6. ASSUME NEW r \in Reconcilers, Reconciler(r) PROVE Calm'
  <2>1. gate' = gate
    BY <1>6, Zenon DEF Reconciler, TakeTurn, ListCounter, SumLedger, RaiseCounter, ReleaseTurn
  <2>2. CASE RaiseCounter(r)
    <3>1. \/ counter' = counter
          \/ counter # Missing /\ counter < rec[r].sum /\ counter' = rec[r].sum
      BY <2>2, Zenon DEF RaiseCounter
    <3>2. rec[r].sum \in Nat
      BY DEF QuotaInv, QuotaTypeOK, RecRecord
    <3>3. \/ counter' = counter
          \/ counter # Missing /\ counter' # Missing /\ counter <= counter'
      BY <1>4, <3>1, <3>2 DEF Missing
    <3>4. QED
      BY <1>3, <1>4, <2>1, <3>3, CalmAside
  <2>3. CASE ~RaiseCounter(r)
    <3>1. counter' = counter
      BY <1>6, <2>3, Zenon DEF Reconciler, TakeTurn, ListCounter, SumLedger, ReleaseTurn
    <3>2. QED
      BY <1>3, <1>4, <2>1, <3>1, CalmAside
  <2>4. QED
    BY <2>2, <2>3
<1>7. \/ \E c \in Calls : Gateway(c)
      \/ \E r \in Reconcilers : Reconciler(r)
      \/ UNCHANGED <<counter, gate>>
  BY <1>3, Zenon DEF Next, CrashCall, CrashReconciler, CounterLost, TurnLapses, vars, quotaVars
<1>8. CASE UNCHANGED <<counter, gate>>
  BY <1>3, <1>4, <1>8, CalmAside
<1>9. QED
  BY <1>5, <1>6, <1>7, <1>8

-----------------------------------------------------------------------------
(***************************************************************************)
(* The theorems of the quota.                                              *)
(***************************************************************************)
\* A drainer keeps within its batch, whoever else has one.
Within(i) ==
  Batching(i) => /\ drain[i].done <= Len(drain[i].batch)
                 /\ drain[i].pc # "trim" => drain[i].done < Len(drain[i].batch)

LEMMA WithinBatchStep ==
  ASSUME LedgerTypeOK, WithinBatch, LedgerStep
  PROVE  WithinBatch'
<1>1. SUFFICES ASSUME NEW j \in Instances PROVE Within(j)'
  BY DEF WithinBatch, Within
<1>2. Within(j)
  BY DEF WithinBatch, Within
<1>3. drain[j].batch \in Seq(Calls) /\ drain[j].done \in Nat
  BY DEF LedgerTypeOK
<1>4. CASE drain'[j] = drain[j]
  BY <1>2, <1>4 DEF Within, Batching
<1>5. ASSUME NEW i \in Instances, Drainer(i) \/ CrashDrainer(i)
      PROVE  Within(j)'
  <2>1. CASE i # j
    BY <1>4, <1>5, <2>1, DrainerGoes
  <2>2. CASE i = j /\ (TakeLock(i) \/ TrimSpool(i) \/ ReleaseLock(i) \/ CrashDrainer(i))
    <3>1. \/ UNCHANGED drain \/ drain' = [drain EXCEPT ![i] = Resting]
          \/ Draining(i, "range") \/ Draining(i, "release")
      BY <2>2, Zenon DEF TakeLock, TrimSpool, ReleaseLock, CrashDrainer
    <3>2. drain'[i].pc \notin Working \/ UNCHANGED drain
      BY <3>1, DrainingMoves, RestingMoves DEF DrainPc, Working, Resting
    <3>3. QED
      BY <1>4, <2>2, <3>2 DEF Within, Batching
  <2>3. CASE i = j /\ ReadBatch(i)
    <3>1. CASE Draining(i, "release")
      <4>1. drain'[i].pc = "release"
        BY <3>1, DrainingMoves DEF DrainPc
      <4>2. QED
        BY <2>3, <4>1 DEF Within, Batching, Working
    <3>2. CASE ~Draining(i, "release")
      <4>1. /\ drain' = [drain EXCEPT ![i] = [pc |-> "write", batch |-> Oldest(Batch), done |-> 0]]
            /\ spool # <<>>
        BY <2>3, <3>2, Zenon DEF ReadBatch
      <4>2. /\ drain'[i].pc = "write" /\ drain'[i].batch = Oldest(Batch) /\ drain'[i].done = 0
            /\ Len(Oldest(Batch)) > 0 /\ Oldest(Batch) \in Seq(Calls)
        BY <4>1, ReadingMoves, BatchOfSpool
      <4>3. QED
        BY <2>3, <4>2 DEF Within
    <3>3. QED
      BY <3>1, <3>2
  <2>4. CASE i = j /\ (WriteEntry(i) \/ ParkEntry(i))
    <3>1. /\ drain[i].pc \in {"write", "park"} /\ Batching(i)
          /\ EntryDone(i) \/ Draining(i, "park") \/ Draining(i, "trim") \/ Draining(i, "release")
      BY <2>4, Zenon DEF WriteEntry, ParkEntry, BatchBreaks, Batching, Working
    <3>2. drain[i].done < Len(drain[i].batch)
      BY <1>2, <2>4, <3>1 DEF Within
    <3>3. CASE EntryDone(i)
      BY <1>3, <2>4, <3>2, <3>3, EntryDoneMoves DEF Within
    <3>4. CASE Draining(i, "park") \/ Draining(i, "trim") \/ Draining(i, "release")
      <4>1. drain'[i].batch = drain[i].batch /\ drain'[i].done = drain[i].done
        BY <3>4, DrainingMoves DEF DrainPc
      <4>2. QED
        BY <1>3, <2>4, <3>2, <4>1 DEF Within
    <3>5. QED
      BY <3>1, <3>3, <3>4
  <2>5. QED
    BY <1>5, <2>1, <2>2, <2>3, <2>4 DEF Drainer
<1>6. (\E i \in Instances : Drainer(i) \/ CrashDrainer(i)) \/ UNCHANGED drain
  BY Zenon DEF LedgerStep, LedgerNext, Weather, FaultOnly, Frame, ledgerVars, BeginRecord, Recorder,
               WriteRecord, PushRecord, CrashRecording, Outage, DbBack, RedisBack, LockLapses
<1>7. QED
  BY <1>4, <1>5, <1>6

LEMMA QuotaInit == Init => QuotaInv
<1> SUFFICES ASSUME Init PROVE QuotaInv
  OBVIOUS
<1>1. LedgerTypeOK /\ WithinBatch /\ db /\ redis
  BY LedgerTypeInit DEF Init, LedgerInit, Resting, WithinBatch, Batching, Working
<1>2. Waiting \in GateRecord /\ Waiting.pc = "idle" /\ Waiting.cost = 0
  BY DEF Waiting, GateRecord, GatePc
<1>3. Asleep \in RecRecord /\ Asleep.pc = "idle"
  BY DEF Asleep, RecRecord, RecPc
<1>4. gate \in Gates /\ rec \in [Reconcilers -> RecRecord] /\ counter = Missing
      /\ summed = {} /\ twice = {} /\ recLock = Nobody
  BY <1>2, <1>3 DEF Init, Gates
<1>5. QuotaTypeOK
  BY <1>4 DEF QuotaTypeOK
<1>6. \A c \in Calls : gate[c].pc = "idle" /\ gate[c].cost = 0
  BY <1>2 DEF Init
<1>7. \A r \in Reconcilers : rec[r].pc = "idle"
  BY <1>3 DEF Init
<1>8. Over = {}
  BY <1>6 DEF Over
<1>9. Total(gate, {}) \in Nat
  BY <1>4, TotalIsNat
<1>10. CounterBounded
  BY <1>4, <1>8, <1>9 DEF CounterBounded, Missing
<1>11. QED
  BY <1>1, <1>4, <1>5, <1>6, <1>7, <1>10 DEF QuotaInv, FreeAtFirst, SumsInHand, Untroubled

LEMMA QuotaStep == QuotaInv /\ [Next]_vars => QuotaInv'
<1> SUFFICES ASSUME QuotaInv, [Next]_vars PROVE QuotaInv'
  OBVIOUS
<1>1. LedgerTypeOK' /\ WithinBatch'
  BY StepIsOfLedger, LedgerTypeStep, WithinBatchStep DEF QuotaInv
<1>2. /\ gate' \in Gates /\ FreeAtFirst'
      /\ \A c \in Calls : gate[c].cost <= gate'[c].cost
      /\ \A c \in Calls : gate'[c].pc = "init" => gate'[c].sum <= Total(gate', gate'[c].seen)
  BY GateStep
<1>3. /\ rec' \in [Reconcilers -> RecRecord] /\ recLock' \in Reconcilers \cup {Nobody}
      /\ \A r \in Reconcilers : rec'[r].pc = "raise" => rec'[r].sum <= Total(gate, rec'[r].seen)
  BY RecStep
<1>4. CounterTypeOK' /\ CounterBounded'
  BY CounterStep
<1>5. QuotaTypeOK'
  BY <1>2, <1>3, <1>4 DEF QuotaTypeOK, CounterTypeOK
<1>6. ASSUME NEW r \in Reconcilers, rec'[r].pc = "raise"
      PROVE  rec'[r].sum <= Total(gate', rec'[r].seen)
  <2>1. rec'[r].seen \in SUBSET Calls /\ rec'[r].sum \in Nat /\ gate \in Gates
    BY <1>3 DEF RecRecord, QuotaInv, QuotaTypeOK
  <2>2. Total(gate, rec'[r].seen) <= Total(gate', rec'[r].seen)
    BY <1>2, <2>1, TotalOfDearer
  <2>3. Total(gate, rec'[r].seen) \in Nat /\ Total(gate', rec'[r].seen) \in Nat
    BY <1>2, <2>1, TotalIsNat
  <2>4. QED
    BY <1>3, <1>6, <2>1, <2>2, <2>3
<1>7. SumsInHand'
  BY <1>2, <1>6 DEF SumsInHand
<1>8. QED
  BY <1>1, <1>2, <1>4, <1>5, <1>7, UntroubledStep DEF QuotaInv

(***************************************************************************)
(* Type correctness of the gate, the counter and the reconcilers beside    *)
(* the ledger: the sums they carry are naturals because Credits is.        *)
(***************************************************************************)
THEOREM QuotaTypeCorrect == Spec => []TypeOK
<1>1. QuotaInv => TypeOK
  BY TypesAreBoth DEF QuotaInv
<1>2. QED
  BY <1>1, QuotaInit, QuotaStep, PTL DEF Spec

(***************************************************************************)
(* CounterExplained, for any calls, costs, reconcilers and faults: INIT,   *)
(* CHARGE and RAISE count no credit twice but of a call whose row was in   *)
(* the sum before its charge came.                                         *)
(***************************************************************************)
THEOREM CounterIsExplained == Spec => []CounterExplained
<1>1. QuotaInv => CounterExplained
  <2> SUFFICES ASSUME QuotaInv PROVE CounterExplained
    OBVIOUS
  <2>1. /\ gate \in Gates /\ summed \cup Over \in SUBSET Calls /\ twice \in SUBSET Calls
        /\ counter \in Int
    BY OverIsOfCalls DEF QuotaInv, QuotaTypeOK, Missing
  <2>2. Credits(Calls) = Total(gate, Calls) /\ Credits(twice) = Total(gate, twice)
    BY <2>1, CreditsAreTotals
  <2>3. Total(gate, summed \cup Over) <= Total(gate, Calls)
    BY <2>1, TotalOfMore
  <2>4. Total(gate, summed \cup Over) \in Nat /\ Total(gate, Calls) \in Nat
        /\ Total(gate, twice) \in Nat
    BY <2>1, TotalIsNat
  <2>5. counter <= Total(gate, summed \cup Over) + Total(gate, twice)
    BY DEF QuotaInv, CounterBounded
  <2>6. counter <= Total(gate, Calls) + Total(gate, twice)
    BY <2>1, <2>3, <2>4, <2>5
  <2>7. QED
    BY <2>2, <2>6 DEF CounterExplained
<1>2. QED
  BY <1>1, QuotaInit, QuotaStep, PTL DEF Spec

LEMMA DecideIsFair ==
  ASSUME QuotaInv, NEW c \in Calls, NEW d \in Calls, gate[d].pc \in {"get", "init"},
         NEW used \in Nat, Decide(d, used), Total(gate, Over) <= used, LetThrough(c)
  PROVE  Total(gate, Over) < Limit
<1>1. gate \in Gates
  BY DEF QuotaInv, QuotaTypeOK
<1>2. PICK new : /\ gate' = [gate EXCEPT ![d] = new]
                 /\ new.pc = IF Exhausted(used) THEN "record" ELSE "model"
  BY DecideMoves
<1>3. c = d /\ new.pc = "model"
  BY <1>1, <1>2 DEF Gates, LetThrough
<1>4. ~Exhausted(used)
  BY <1>2, <1>3
<1>5. Total(gate, Over) \in Nat
  BY <1>1, OverIsOfCalls, TotalIsNat
<1>6. QED
  BY <1>4, <1>5, QuotaAssumption DEF Exhausted

LEMMA NobodyOverTheLimit ==
  ASSUME QuotaInv, [Next]_vars, NEW c \in Calls, LetThrough(c), faults = 0
  PROVE  Credits(Over) < Limit
<1>1. Calm
  BY DEF QuotaInv, Untroubled, Calm
<1>2. gate \in Gates /\ counter \in Nat \cup {Missing} /\ Over \in SUBSET Calls
  BY OverIsOfCalls DEF QuotaInv, QuotaTypeOK
<1>3. Credits(Over) = Total(gate, Over)
  BY <1>2, CreditsAreTotals
<1>4. ASSUME NEW d \in Calls, NEW pc, pc # "model" PROVE ~GoGate(d, pc)
  BY <1>2, <1>4 DEF GoGate, Gates, GateRecord, LetThrough
<1>5. PICK d \in Calls : Gateway(d) \/ CrashCall(d)
  BY WhoseStep, Zenon DEF LetThrough, CounterLost, TurnLapses, quotaVars
<1>6. GetCounter(d) \/ InitCounter(d)
  <2>1. ~(Admit(d) \/ Recorded(d) \/ Charge(d) \/ CrashCall(d))
    BY <1>4 DEF Admit, Recorded, Charge, CrashCall
  <2>2. ~HandOver(d)
    BY DEF HandOver, quotaVars, LetThrough
  <2>3. ~ReadUsage(d)
    <3>1. ReadUsage(d) => gate' = [gate EXCEPT ![d].pc = "init", ![d].sum = Credits(rows),
                                               ![d].seen = rows]
      BY <1>1 DEF ReadUsage, Calm
    <3>2. QED
      BY <1>2, <3>1 DEF Gates, GateRecord, LetThrough
  <2>4. ~CallModel(d)
    <3>1. CallModel(d) => \E cost \in Costs :
                            gate' = [gate EXCEPT ![d].pc = "record", ![d].cost = cost]
      BY DEF CallModel
    <3>2. QED
      BY <1>2, <3>1 DEF Gates, GateRecord, LetThrough
  <2>5. QED
    BY <1>5, <2>1, <2>2, <2>3, <2>4 DEF Gateway
<1>7. PICK used \in Nat : /\ Decide(d, used) /\ gate[d].pc \in {"get", "init"}
                          /\ Total(gate, Over) <= used
  <2>1. CASE counter # Missing
    <3>1. Decide(d, counter) /\ gate[d].pc \in {"get", "init"}
      BY <1>1, <1>6, <2>1, Zenon DEF GetCounter, InitCounter, Calm
    <3>2. QED
      BY <1>1, <1>2, <2>1, <3>1 DEF Calm
  <2>2. CASE counter = Missing
    <3>1. ~GetCounter(d)
      BY <1>1, <1>4, <2>2 DEF GetCounter, Calm
    <3>2. Decide(d, gate[d].sum) /\ gate[d].pc = "init"
      BY <1>1, <1>6, <2>2, <3>1, Zenon DEF InitCounter, Calm
    <3>3. gate[d].sum \in Nat
      BY <1>2 DEF Gates, GateRecord
    <3>4. Total(gate, Over) = 0
      <4>1. \A e \in Over : gate[e].cost = 0
        BY <1>1, <2>2 DEF Calm, Over
      <4>2. QED
        BY <1>2, <4>1, TotalOfFree
    <3>5. QED
      BY <3>2, <3>3, <3>4
  <2>3. QED
    BY <2>1, <2>2
<1>8. QED
  BY <1>3, <1>7, DecideIsFair

(***************************************************************************)
(* AllowanceHolds, for any calls, costs and reconcilers: as long as no     *)
(* store was away and nobody died, Decide lets a call through only while   *)
(* the calls that are over have not used the allowance up.                 *)
(***************************************************************************)
THEOREM TheAllowanceHolds == Spec => AllowanceHolds
<1>1. QuotaInv /\ [Next]_vars
        => [\A c \in Calls : LetThrough(c) /\ faults = 0 => Credits(Over) < Limit]_vars
  BY NobodyOverTheLimit
<1>2. QED
  BY <1>1, QuotaInit, QuotaStep, PTL DEF Spec, AllowanceHolds

=============================================================================

------------------------------ MODULE CallLedger ------------------------------
(***************************************************************************)
(* ai-service: how the row of a finished model call reaches the ledger.    *)
(*                                                                         *)
(* The recorder tries the database a few times, then leaves the row in a   *)
(* spool in Redis.  Every instance has a drainer, and they take turns      *)
(* under a lock in Redis that lapses by itself: the one that has it reads  *)
(* the head of the spool, writes the rows one at a time, and trims as many *)
(* entries as it is done with.  Each await on a store is an action, and    *)
(* either store may be away in between.                                    *)
(***************************************************************************)
EXTENDS Integers, Sequences, FiniteSets

CONSTANTS Calls,      \* the model calls, by the id of their ledger row
          Rejected,   \* those whose row the database will not take
          Instances,  \* the processes of ai-service, a drainer each
          Nobody,     \* no holder of a lock
          Tries,      \* how often the recorder tries the database
          Batch,      \* how many entries a drainer reads
          Overrun,    \* whether a batch may outlast the lock it runs under
          MaxFaults   \* bound: outages and crashes

ASSUME LedgerAssumption ==
  /\ Rejected \subseteq Calls
  /\ Nobody \notin Instances
  /\ Tries \in Nat \ {0} /\ Batch \in Nat \ {0}
  /\ Overrun \in BOOLEAN /\ MaxFaults \in Nat

VARIABLES db, redis,  \* whether the store answers
          rows,       \* the calls in ai_calls, each with its outbox row
          spool,      \* the list ledger:spool, oldest first
          dead,       \* the list ledger:spool:dead
          lock,       \* the holder of ledger:spool:lock
          record,     \* how far the recorder is with each call
          drain,      \* what each drainer is at
          logged,     \* history: rows given up with nothing but a log line
          faults

stores == <<db, redis, faults>>
ledgerVars == <<db, redis, rows, spool, dead, lock, record, drain, logged, faults>>

Entries(s) == {s[i] : i \in 1 .. Len(s)}

Unrecorded == [pc |-> "none", tries |-> 0]
Resting == [pc |-> "idle", batch |-> <<>>, done |-> 0]

LedgerTypeOK ==
  /\ db \in BOOLEAN /\ redis \in BOOLEAN /\ faults \in Nat
  /\ rows \subseteq Calls /\ dead \subseteq Calls /\ logged \subseteq Calls
  /\ spool \in Seq(Calls)
  /\ lock \in Instances \cup {Nobody}
  /\ record \in [Calls -> [pc : {"none", "write", "push", "done", "gone"}, tries : Nat]]
  /\ drain \in [Instances -> [pc : {"idle", "range", "write", "park", "trim", "release"},
                              batch : Seq(Calls), done : Nat]]

LedgerInit ==
  /\ db = TRUE /\ redis = TRUE /\ faults = 0
  /\ rows = {} /\ spool = <<>> /\ dead = {} /\ logged = {}
  /\ lock = Nobody
  /\ record = [c \in Calls |-> Unrecorded]
  /\ drain = [i \in Instances |-> Resting]

-----------------------------------------------------------------------------
(***************************************************************************)
(* The stores.                                                             *)
(***************************************************************************)

Fault == faults < MaxFaults /\ faults' = faults + 1

\* A write took effect and its answer was lost with the connection.
AnswerLostByDb == db /\ db' = FALSE /\ Fault /\ UNCHANGED redis
AnswerLostByRedis == redis /\ redis' = FALSE /\ Fault /\ UNCHANGED db

Outage ==
  /\ \/ db /\ db' = FALSE /\ UNCHANGED redis
     \/ redis /\ redis' = FALSE /\ UNCHANGED db
  /\ Fault
  /\ UNCHANGED <<rows, spool, dead, lock, record, drain, logged>>

DbBack == /\ ~db /\ db' = TRUE
          /\ UNCHANGED <<redis, rows, spool, dead, lock, record, drain, logged, faults>>

RedisBack == /\ ~redis /\ redis' = TRUE
             /\ UNCHANGED <<db, rows, spool, dead, lock, record, drain, logged, faults>>

-----------------------------------------------------------------------------
(***************************************************************************)
(* The recorder.                                                           *)
(***************************************************************************)

Recording(c, pc) == record' = [record EXCEPT ![c] = [pc |-> pc, tries |-> 0]]

\* The gateway hands over a call that is over.
BeginRecord(c) ==
  /\ record[c].pc = "none"
  /\ Recording(c, "write")
  /\ UNCHANGED <<db, redis, rows, spool, dead, lock, drain, logged, faults>>

\* Another try, or the spool once they are used up.
WriteFailed(c) ==
  record' = [record EXCEPT ![c] = [pc |-> IF @.tries + 1 < Tries THEN "write" ELSE "push",
                                   tries |-> @.tries + 1]]

\* A row that is there already counts as written.
WriteRecord(c) ==
  /\ record[c].pc = "write"
  /\ \/ /\ db /\ c \notin Rejected
        /\ rows' = rows \cup {c}
        /\ Recording(c, "done")
        /\ UNCHANGED <<stores, logged>>
     \/ /\ db /\ c \in Rejected
        /\ logged' = logged \cup {c}
        /\ Recording(c, "done")
        /\ UNCHANGED <<stores, rows>>
     \/ /\ c \notin Rejected /\ AnswerLostByDb
        /\ rows' = rows \cup {c}
        /\ WriteFailed(c)
        /\ UNCHANGED logged
     \/ /\ ~db
        /\ WriteFailed(c)
        /\ UNCHANGED <<stores, rows, logged>>
  /\ UNCHANGED <<spool, dead, lock, drain>>

PushRecord(c) ==
  /\ record[c].pc = "push"
  /\ Recording(c, "done")
  /\ \/ /\ redis
        /\ spool' = Append(spool, c)
        /\ UNCHANGED <<stores, logged>>
     \/ /\ AnswerLostByRedis
        /\ spool' = Append(spool, c)
        /\ logged' = logged \cup {c}
     \/ /\ ~redis
        /\ logged' = logged \cup {c}
        /\ UNCHANGED <<stores, spool>>
  /\ UNCHANGED <<rows, dead, lock, drain>>

\* The process dies with the call in hand.
CrashRecording(c) ==
  /\ record[c].pc \in {"write", "push"}
  /\ Fault
  /\ Recording(c, "gone")
  /\ UNCHANGED <<db, redis, rows, spool, dead, lock, drain, logged>>

-----------------------------------------------------------------------------
(***************************************************************************)
(* The drainers.                                                           *)
(***************************************************************************)

Draining(i, pc) == drain' = [drain EXCEPT ![i].pc = pc]

\* SET NX with a time to live; the answer may get lost, and the lock with it.
TakeLock(i) ==
  /\ drain[i].pc = "idle" /\ lock = Nobody
  /\ lock' = i
  /\ \/ redis /\ Draining(i, "range") /\ UNCHANGED stores
     \/ AnswerLostByRedis /\ UNCHANGED drain
  /\ UNCHANGED <<rows, spool, dead, record, logged>>

Oldest(n) == SubSeq(spool, 1, IF n < Len(spool) THEN n ELSE Len(spool))

ReadBatch(i) ==
  /\ drain[i].pc = "range"
  /\ IF redis /\ spool # <<>>
     THEN drain' = [drain EXCEPT ![i] = [pc |-> "write", batch |-> Oldest(Batch), done |-> 0]]
     ELSE Draining(i, "release")
  /\ UNCHANGED <<stores, rows, spool, dead, lock, record, logged>>

\* One entry is done with; after the last the batch is trimmed.
EntryDone(i) ==
  LET done == drain[i].done + 1
      left == done < Len(drain[i].batch)
  IN  drain' = [drain EXCEPT ![i] = [pc |-> IF left THEN "write" ELSE "trim",
                                     batch |-> drain[i].batch, done |-> done]]

\* The database is away: what is done is trimmed, the rest waits.
BatchBreaks(i) == Draining(i, IF drain[i].done > 0 THEN "trim" ELSE "release")

WriteEntry(i) ==
  /\ drain[i].pc = "write"
  /\ LET c == drain[i].batch[drain[i].done + 1]
     IN  \/ /\ db /\ c \notin Rejected
            /\ rows' = rows \cup {c}
            /\ EntryDone(i)
            /\ UNCHANGED stores
         \/ /\ db /\ c \in Rejected
            /\ Draining(i, "park")
            /\ UNCHANGED <<stores, rows>>
         \/ /\ c \notin Rejected /\ AnswerLostByDb
            /\ rows' = rows \cup {c}
            /\ BatchBreaks(i)
         \/ /\ ~db
            /\ BatchBreaks(i)
            /\ UNCHANGED <<stores, rows>>
  /\ UNCHANGED <<spool, dead, lock, record, logged>>

ParkEntry_Break(i) ==      \* Mutant: the batch stops at a row that is refused
  /\ drain[i].pc = "park"
  /\ BatchBreaks(i)
  /\ UNCHANGED <<stores, rows, spool, dead, lock, record, logged>>

\* A row the database refuses goes to the dead letters and out of the way.
\* A dead letter that cannot be pushed ends the batch, and nothing is trimmed.
ParkEntry(i) ==
  /\ drain[i].pc = "park"
  /\ \/ /\ redis
        /\ dead' = dead \cup {drain[i].batch[drain[i].done + 1]}
        /\ EntryDone(i)
     \/ /\ ~redis
        /\ Draining(i, "release")
        /\ UNCHANGED dead
  /\ UNCHANGED <<stores, rows, spool, lock, record, logged>>

TrimSpool_WholeBatch(i) ==     \* Mutant: trims what it read, done or not
  /\ drain[i].pc = "trim"
  /\ IF redis
     THEN spool' = SubSeq(spool, Len(drain[i].batch) + 1, Len(spool))
     ELSE UNCHANGED spool
  /\ Draining(i, "release")
  /\ UNCHANGED <<stores, rows, dead, lock, record, logged>>

\* LTRIM takes away the head of the list as it is by now.
TrimSpool(i) ==
  /\ drain[i].pc = "trim"
  /\ IF redis
     THEN spool' = SubSeq(spool, drain[i].done + 1, Len(spool))
     ELSE UNCHANGED spool
  /\ Draining(i, "release")
  /\ UNCHANGED <<stores, rows, dead, lock, record, logged>>

\* Only a lock that is still this drainer's; a failure is swallowed.
ReleaseLock(i) ==
  /\ drain[i].pc = "release"
  /\ lock' = IF redis /\ lock = i THEN Nobody ELSE lock
  /\ drain' = [drain EXCEPT ![i] = Resting]
  /\ UNCHANGED <<stores, rows, spool, dead, record, logged>>

CrashDrainer(i) ==
  /\ drain[i].pc # "idle"
  /\ Fault
  /\ drain' = [drain EXCEPT ![i] = Resting]
  /\ UNCHANGED <<db, redis, rows, spool, dead, lock, record, logged>>

\* The lock's time is up: its holder died, or is at it for too long.
LockLapses ==
  /\ lock # Nobody
  /\ Overrun \/ drain[lock].pc = "idle"
  /\ lock' = Nobody
  /\ UNCHANGED <<stores, rows, spool, dead, record, drain, logged>>

Recorder(c) == WriteRecord(c) \/ PushRecord(c)
Drainer(i) == TakeLock(i) \/ ReadBatch(i) \/ WriteEntry(i) \/ ParkEntry(i)
              \/ TrimSpool(i) \/ ReleaseLock(i)
Weather == Outage \/ DbBack \/ RedisBack \/ LockLapses
           \/ (\E i \in Instances : CrashDrainer(i))
           \/ (\E c \in Calls : CrashRecording(c))

LedgerNext ==
  \/ \E c \in Calls : BeginRecord(c) \/ Recorder(c)
  \/ \E i \in Instances : Drainer(i)
  \/ Weather

LedgerSpec == LedgerInit /\ [][LedgerNext]_ledgerVars

-----------------------------------------------------------------------------
(***************************************************************************)
(* Properties.                                                             *)
(***************************************************************************)

(***************************************************************************)
(* A call that was handed over is in the ledger, waits in the spool, lies  *)
(* among the dead letters, or was at least logged whole: no interleaving   *)
(* of recorders and drainers and no outage makes a row vanish.             *)
(***************************************************************************)
NoRowVanishes ==
  \A c \in Calls : record[c].pc = "done" =>
    c \in rows \cup Entries(spool) \cup dead \cup logged

=============================================================================

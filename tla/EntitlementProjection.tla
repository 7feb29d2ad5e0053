------------------------- MODULE EntitlementProjection -------------------------
(***************************************************************************)
(* ai-service's copy of one payer's entitlements: the row a consumer of    *)
(* `subscription.entitlements.changed` and the readers of the access gate  *)
(* write, and what the readers go by.                                      *)
(*                                                                         *)
(* The events come through an outbox, a relay and RabbitMQ: any snapshot   *)
(* announced may arrive late, out of order, again, or never.  A save of    *)
(* the row is three statements (update, insert, update), so the saves of   *)
(* several handlers and readers interleave.                                *)
(***************************************************************************)
EXTENDS SnapshotSource

CONSTANTS Handlers,      \* messages under way at once (the prefetch count)
          Readers,       \* calls at the access gate at once
          MaxRevision    \* bound: changes of the payer's account

ASSUME ProjectionAssumption ==
  /\ MaxRevision \in Nat
  /\ Handlers \cap Readers = {}

VARIABLES row,           \* the row of ai_payer_entitlements, or NoRow
          task,          \* what each handler and reader holds
          acked          \* the snapshots whose message was acknowledged

vars == <<clock, revisions, sent, row, task, acked>>

Tasks == Handlers \cup Readers
NoRow == [version |-> -1, validUntil |-> 0]

\* The guard of every write, in the domain and in SQL.
supersedes(incoming, stored) ==
  IF incoming.version # stored.version THEN incoming.version > stored.version
  ELSE incoming.validUntil >= stored.validUntil

isStale(s, now) == s.validUntil <= now

\* A reader keeps the time of its check, and the revision of the account when
\* it asked.
Idle == [pc |-> "idle", snap |-> NoRow, check |-> 0, asOf |-> 0, current |-> -1]

Init == /\ SourceInit
        /\ row = NoRow
        /\ task = [t \in Tasks |-> Idle]
        /\ acked = {}

Become(t, new) == task' = [task EXCEPT ![t] = new]

Source == /\ \/ Tick
             \/ Change /\ Revision < MaxRevision
             \/ Announce
          /\ UNCHANGED <<row, task, acked>>

-----------------------------------------------------------------------------
(***************************************************************************)
(* save(): true when it stored the snapshot.                               *)
(***************************************************************************)

Stored(t, yes) == Become(t, [task[t] EXCEPT !.pc = IF yes THEN "stored" ELSE "held"])

\* Mutant: the guard of the update is missing.
Update_Unguarded(t) ==
  /\ task[t].pc \in {"update", "again"}
  /\ IF row # NoRow
     THEN row' = task[t].snap /\ Stored(t, TRUE)
     ELSE /\ UNCHANGED row
          /\ Become(t, [task[t] EXCEPT !.pc = "create"])
  /\ UNCHANGED <<sourceVars, acked>>

Update(t) ==
  /\ task[t].pc \in {"update", "again"}
  /\ IF row # NoRow /\ supersedes(task[t].snap, row)
     THEN row' = task[t].snap /\ Stored(t, TRUE)
     ELSE /\ UNCHANGED row
          /\ IF task[t].pc = "update"
             THEN Become(t, [task[t] EXCEPT !.pc = "create"])
             ELSE Stored(t, FALSE)
  /\ UNCHANGED <<sourceVars, acked>>

\* Mutant: an insert that yields ends the save.
Create_LastWord(t) ==
  /\ task[t].pc = "create"
  /\ IF row = NoRow
     THEN row' = task[t].snap /\ Stored(t, TRUE)
     ELSE UNCHANGED row /\ Stored(t, FALSE)
  /\ UNCHANGED <<sourceVars, acked>>

\* createMany with skipDuplicates: a row already there is left alone.
Create(t) ==
  /\ task[t].pc = "create"
  /\ IF row = NoRow
     THEN row' = task[t].snap /\ Stored(t, TRUE)
     ELSE UNCHANGED row /\ Become(t, [task[t] EXCEPT !.pc = "again"])
  /\ UNCHANGED <<sourceVars, acked>>

-----------------------------------------------------------------------------
(***************************************************************************)
(* The consumer.                                                           *)
(***************************************************************************)

Receive(h) ==
  /\ task[h].pc = "idle"
  /\ \E i \in 1 .. Len(sent) :
       Become(h, [Idle EXCEPT !.pc = "update", !.snap = sent[i]])
  /\ UNCHANGED <<sourceVars, row, acked>>

\* Stored, or older than what is held: either way the message is done.
Ack(h) ==
  /\ task[h].pc \in {"stored", "held"}
  /\ acked' = acked \cup {task[h].snap}
  /\ Become(h, Idle)
  /\ UNCHANGED <<sourceVars, row>>

\* A statement of the save failed: back to the queue - or given up for good, if
\* this was not the first delivery.
Nack(h) ==
  /\ task[h].pc \in {"update", "create", "again", "stored"}
  /\ Become(h, Idle)
  /\ UNCHANGED <<sourceVars, row, acked>>

-----------------------------------------------------------------------------
(***************************************************************************)
(* getFeature().                                                           *)
(***************************************************************************)

Get(r) ==
  /\ task[r].pc = "idle"
  /\ Become(r, [Idle EXCEPT !.pc = "check", !.snap = row])
  /\ UNCHANGED <<sourceVars, row, acked>>

Check(r) ==
  /\ task[r].pc = "check"
  /\ LET s == task[r].snap
         fresh == s # NoRow /\ ~isStale(s, clock)
     IN  Become(r, [task[r] EXCEPT !.pc = IF fresh THEN "served" ELSE "ask",
                                   !.check = clock])
  /\ UNCHANGED <<sourceVars, row, acked>>

\* subscription-service takes the time, then reads the account.
Ask(r) ==
  /\ task[r].pc = "ask"
  /\ Become(r, [task[r] EXCEPT !.pc = "resolve", !.snap = NoRow,
                               !.asOf = clock, !.current = Revision])
  /\ UNCHANGED <<sourceVars, row, acked>>

\* Mutant: it answers with the snapshot it announced last.
Answer_AsAnnounced(r) ==
  /\ task[r].pc = "resolve"
  /\ Become(r, [task[r] EXCEPT !.pc = "update", !.asOf = 0,
                               !.snap = IF sent = <<>> THEN Snapshot(0, task[r].asOf)
                                        ELSE sent[Len(sent)]])
  /\ UNCHANGED <<sourceVars, row, acked>>

Answer(r) ==
  /\ task[r].pc = "resolve"
  /\ Become(r, [task[r] EXCEPT !.pc = "update", !.asOf = 0,
                               !.snap = Snapshot(Revision, task[r].asOf)])
  /\ UNCHANGED <<sourceVars, row, acked>>

\* Its own answer if it was stored, else what the projection keeps.
Serve(r) ==
  /\ task[r].pc \in {"stored", "held"}
  /\ Become(r, [task[r] EXCEPT !.pc = "served",
                 !.snap = IF task[r].pc = "stored" \/ row = NoRow THEN @ ELSE row])
  /\ UNCHANGED <<sourceVars, row, acked>>

\* The call goes on, or the gate refuses it because a read failed.
Leave(r) ==
  /\ task[r].pc # "idle"
  /\ Become(r, Idle)
  /\ UNCHANGED <<sourceVars, row, acked>>

-----------------------------------------------------------------------------
Next == \/ Source
        \/ \E t \in Tasks : Update(t) \/ Create(t)
        \/ \E h \in Handlers : Receive(h) \/ Ack(h) \/ Nack(h)
        \/ \E r \in Readers : \/ Get(r) \/ Check(r) \/ Ask(r) \/ Answer(r)
                              \/ Serve(r) \/ Leave(r)

Spec == Init /\ [][Next]_vars

-----------------------------------------------------------------------------
(***************************************************************************)
(* Properties.                                                             *)
(***************************************************************************)

SnapshotOrNone == [version : Nat \cup {-1}, validUntil : 0 .. MaxTime + 1]

TypeOK ==
  /\ clock \in Times
  /\ sent \in Seq(SnapshotOrNone)
  /\ row \in SnapshotOrNone
  /\ task \in [Tasks -> [pc : {"idle", "update", "create", "again", "stored",
                               "held", "check", "ask", "resolve", "served"},
                         snap : SnapshotOrNone, check : Times, asOf : Times,
                         current : Nat \cup {-1}]]
  /\ acked \subseteq SnapshotOrNone

\* "Two writers of one payer cannot undo each other" (projection, line 20): a
\* message is acknowledged only when the row holds its snapshot or one that
\* supersedes it, also when the row appeared between the update and the insert.
AckedIsHeld == \A s \in acked : row # NoRow /\ supersedes(row, s)

\* "The stale event that follows must not undo it" (entitlement, line 54): the
\* row never goes back, to an older revision or to an earlier reading of one.
RowMovesForward == [][row # NoRow => supersedes(row', row)]_row

\* A call that had to ask is decided on a revision no older than the account's
\* when it asked, whether its own answer or another writer's row won.
ReadThroughIsCurrent ==
  \A r \in Readers : task[r].pc = "served" => task[r].snap.version >= task[r].current

=============================================================================

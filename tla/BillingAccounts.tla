--------------------------- MODULE BillingAccounts ---------------------------
(***************************************************************************)
(* subscription-service: the account of one payer, its subscriptions and   *)
(* grants, the commands that change them, the job that refreshes an        *)
(* account time has overtaken and the job that publishes its entitlements. *)
(*                                                                         *)
(* A command reads the account, takes the time, decides in memory, and     *)
(* writes in one transaction; the jobs do the same.  Commands of several   *)
(* administrators, and the jobs of several processes, interleave between   *)
(* these steps.  `past` remembers the rows of every revision, for the      *)
(* properties; no action reads it.                                         *)
(***************************************************************************)
EXTENDS Integers, Sequences, FiniteSets

CONSTANTS Calls,        \* the commands anyone ever sends about the account
          Refreshers,   \* the refresh job of each process
          Publishers,   \* the publish job of each process
          Month,        \* the length of a credit period
          MaxTime,      \* bound: the clock stops here
          MaxFaults     \* bound: commands and ticks cut off half way

ASSUME AccountAssumption ==
  /\ Month \in Nat \ {0} /\ MaxTime \in Nat /\ MaxFaults \in Nat

VARIABLES clock,
          acct,         \* the account row
          subs,         \* the subscription rows, oldest first; never deleted
          grants,       \* the grant rows
          outbox,       \* the snapshots the service has put into its outbox
          call,         \* what each command, and each job, holds in memory
          faults,
          past          \* [since, subs, grants] of every revision

vars == <<clock, acct, subs, grants, outbox, call, faults, past>>
rows == <<acct, subs, grants, past>>

Jobs == Refreshers \cup Publishers
Times == 0 .. MaxTime

\* No period end, no refresh due, no end yet.  Real ones are later than 0.
Never == 0

Least(S) == CHOOSE x \in S : \A y \in S : x <= y

-----------------------------------------------------------------------------
(***************************************************************************)
(* The entities.                                                           *)
(***************************************************************************)

RanOut(s, now) == s.end # Never /\ s.end <= now
isOpen(s) == s.status = "open"                 \* trial or active
isCurrent(s, now) == isOpen(s) /\ ~RanOut(s, now)

\* Out of service: expired as of its end, or canceled now.
closeSubscription_Closed(s, now) ==     \* mutant: one status for both
  [s EXCEPT !.status = "closed", !.ended = now]

closeSubscription(s, now) ==
  IF RanOut(s, now) THEN [s EXCEPT !.status = "expired", !.ended = s.end]
                    ELSE [s EXCEPT !.status = "canceled", !.ended = now]

OpenRows == {i \in 1 .. Len(subs) : isOpen(subs[i])}

grantActive(g, now) == ~g.revoked /\ g.start <= now /\ now < g.end

\* The end of the credit period: the calendar month, or monthly from the
\* subscription's start and at its end at the latest.
creditPeriodEnd(current, now) ==
  IF current = {} THEN Month * ((now \div Month) + 1)
  ELSE LET s == CHOOSE s \in current : TRUE
           k == IF now < s.start THEN 0 ELSE (now - s.start) \div Month
           cycleEnd == s.start + Month * (k + 1)
       IN  IF s.end # Never /\ s.end < cycleEnd THEN s.end ELSE cycleEnd

\* The first moment at which a term starts or ends.
nextChange(r, current, now) ==
  Least({creditPeriodEnd(current, now)}
        \cup {t \in {s.end : s \in current}
                    \cup UNION {{g.start, g.end} :
                                g \in {r.grants[i] : i \in {j \in 1 .. Len(r.grants) :
                                         ~r.grants[j].revoked /\ r.grants[j].end > now}}} :
              t > now})

\* The entitlements of rows r, at revision `version`, as resolved at `now`.
resolveEntitlements(r, version, now) ==
  LET current == {r.subs[i] : i \in {j \in 1 .. Len(r.subs) : isCurrent(r.subs[j], now)}}
  IN  [version |-> version, asOf |-> now, plan |-> current,
       granted |-> {i \in 1 .. Len(r.grants) : grantActive(r.grants[i], now)},
       validUntil |-> nextChange(r, current, now)]

-----------------------------------------------------------------------------
(***************************************************************************)
(* Calls.                                                                  *)
(***************************************************************************)

\* `open`: the rows to close; `new`: the row to insert; `grant`: the one meant.
Waiting == [pc |-> "idle", op |-> "none", revision |-> 0, now |-> 0,
            open |-> {}, new |-> <<>>, grant |-> 0]
Done == [Waiting EXCEPT !.pc = "done"]

At(c, op, pc) == call[c].op = op /\ call[c].pc = pc

\* A command is sent once, a job runs again and again.
Finish(c) == call' = [call EXCEPT ![c] = IF c \in Calls THEN Done ELSE Waiting]

Fault == faults < MaxFaults /\ faults' = faults + 1

\* The account as find() returns it: its revision and its open rows.  (Two
\* queries; rows newer than the revision only make the save lose its claim.)
\* The commands about grants need neither.
Loaded(op) == IF op \in {"issue", "revoke"}
              THEN [Waiting EXCEPT !.pc = "loaded", !.op = op]
              ELSE [Waiting EXCEPT !.pc = "loaded", !.op = op,
                                   !.revision = acct.revision, !.open = OpenRows]

Init == /\ clock = 0
        /\ acct = [exists |-> FALSE, revision |-> 0, published |-> -1,
                   nextRefresh |-> Never]
        /\ subs = <<>> /\ grants = <<>> /\ outbox = <<>>
        /\ call = [c \in Calls \cup Jobs |-> Waiting]
        /\ faults = 0
        /\ past = <<[since |-> 0, subs |-> <<>>, grants |-> <<>>]>>

Tick == /\ clock < MaxTime
        /\ clock' = clock + 1
        /\ UNCHANGED <<acct, subs, grants, outbox, call, faults, past>>

\* Every write of the rows bumps the revision in its transaction.
Bump == /\ acct' = [acct EXCEPT !.revision = @ + 1]
        /\ past' = Append(past, [since |-> clock, subs |-> subs', grants |-> grants'])

\* A command or a tick is cut off; nothing of it has been written.
CutOff(c) == /\ call[c].pc \in {"ready", "loaded", "save"}
             /\ Fault
             /\ Finish(c)
             /\ UNCHANGED <<clock, acct, subs, grants, outbox, past>>

-----------------------------------------------------------------------------
(***************************************************************************)
(* The commands about the subscription.                                    *)
(***************************************************************************)

\* ensure(): the account is created if it is not there, then read.
LoadEnsured(c) ==
  /\ call[c].pc = "idle"
  /\ acct' = [acct EXCEPT !.exists = TRUE]
  /\ \E op \in {"assign", "open", "issue"} :
       \* OpenAccount goes on only with an account nobody has touched
       IF op = "open" /\ (acct.revision # 0 \/ OpenRows # {})
       THEN Finish(c)
       ELSE call' = [call EXCEPT ![c] = Loaded(op)]
  /\ UNCHANGED <<clock, subs, grants, outbox, faults, past>>

\* find(): the account has to be there; a revocation reads its grant too.
LoadFound(c) ==
  /\ call[c].pc = "idle"
  /\ acct.exists
  /\ \/ call' = [call EXCEPT ![c] = Loaded("cancel")]
     \/ \E g \in 1 .. Len(grants) :
          /\ ~grants[g].revoked
          /\ call' = [call EXCEPT ![c] = [Loaded("revoke") EXCEPT !.grant = g]]
  /\ UNCHANGED <<clock, acct, subs, grants, outbox, faults, past>>

Ready(c) == [call[c] EXCEPT !.pc = "save", !.now = clock]

\* Mutant: a row that has run out is not closed.
DecideAssign_ClosesCurrent(c) ==
  /\ call[c].pc = "loaded" /\ call[c].op \in {"assign", "open"}
  /\ \E end \in IF call[c].op = "open" THEN {Never}
                ELSE {Never} \cup (clock + 1) .. MaxTime :
       call' = [call EXCEPT ![c] =
                 [Ready(c) EXCEPT
                    !.open = {i \in call[c].open : isCurrent(subs[i], clock)},
                    !.new = <<[status |-> "open", start |-> clock,
                               end |-> end, ended |-> Never]>>]]
  /\ UNCHANGED <<clock, rows, outbox, faults>>

\* assignPlan: everything open is closed and one row opened, for a period that
\* does not lie in the past.  OpenAccount's has no end.
DecideAssign(c) ==
  /\ call[c].pc = "loaded" /\ call[c].op \in {"assign", "open"}
  /\ \E end \in IF call[c].op = "open" THEN {Never}
                ELSE {Never} \cup (clock + 1) .. MaxTime :
       call' = [call EXCEPT ![c] =
                 [Ready(c) EXCEPT !.new = <<[status |-> "open", start |-> clock,
                                             end |-> end, ended |-> Never]>>]]
  /\ UNCHANGED <<clock, rows, outbox, faults>>

\* cancelSubscription: refused without a current subscription.
DecideCancel(c) ==
  /\ At(c, "cancel", "loaded")
  /\ IF \E i \in call[c].open : isCurrent(subs[i], clock)
     THEN call' = [call EXCEPT ![c] = Ready(c)]
     ELSE Finish(c)
  /\ UNCHANGED <<clock, rows, outbox, faults>>

\* The revision is claimed first; one that moved on is a conflict.
Claimed(c) == call[c].revision = acct.revision

\* save(), for the commands and for the refresh job.
Save(c) ==
  /\ call[c].pc = "save" /\ call[c].op \in {"assign", "open", "cancel", "refresh"}
  /\ IF Claimed(c)
     THEN /\ subs' = [i \in 1 .. Len(subs) |->
                        IF i \in call[c].open
                        THEN closeSubscription(subs[i], call[c].now)
                        ELSE subs[i]] \o call[c].new
          /\ UNCHANGED grants
          /\ Bump
     ELSE UNCHANGED rows
  /\ Finish(c)
  /\ UNCHANGED <<clock, outbox, faults>>

-----------------------------------------------------------------------------
(***************************************************************************)
(* The commands about grants.                                              *)
(***************************************************************************)

\* Grant.issue: it may start later, and does not end before it starts or now.
DecideIssue(c) ==
  /\ At(c, "issue", "loaded")
  /\ \E start \in clock .. MaxTime : \E end \in (start + 1) .. MaxTime :
       call' = [call EXCEPT ![c] =
                 [Ready(c) EXCEPT !.new = <<[start |-> start, end |-> end,
                                             revoked |-> FALSE]>>]]
  /\ UNCHANGED <<clock, rows, outbox, faults>>

\* Grant.revoke: refused when the grant has run out.
DecideRevoke(c) ==
  /\ At(c, "revoke", "loaded")
  /\ IF clock < grants[call[c].grant].end
     THEN call' = [call EXCEPT ![c] = Ready(c)]
     ELSE Finish(c)
  /\ UNCHANGED <<clock, rows, outbox, faults>>

\* insert(): the grant and the bump, whatever the revision is by now.
InsertGrant(c) ==
  /\ At(c, "issue", "save")
  /\ grants' = grants \o call[c].new
  /\ UNCHANGED subs
  /\ Bump
  /\ Finish(c)
  /\ UNCHANGED <<clock, outbox, faults>>

\* saveRevocation(): only a grant that nobody revoked meanwhile.
SaveRevocation(c) ==
  /\ At(c, "revoke", "save")
  /\ IF ~grants[call[c].grant].revoked
     THEN /\ grants' = [grants EXCEPT ![call[c].grant].revoked = TRUE]
          /\ UNCHANGED subs
          /\ Bump
     ELSE UNCHANGED rows
  /\ Finish(c)
  /\ UNCHANGED <<clock, outbox, faults>>

-----------------------------------------------------------------------------
(***************************************************************************)
(* The jobs.  A tick never overlaps another of the same process.           *)
(***************************************************************************)

\* The account's snapshot is published and its time has come.
Due(now) == /\ acct.exists
            /\ acct.nextRefresh # Never /\ acct.nextRefresh <= now
            /\ acct.published = acct.revision

RefreshDue(j) ==
  /\ j \in Refreshers /\ call[j].pc = "idle"
  /\ Due(clock)
  /\ call' = [call EXCEPT ![j] = [Waiting EXCEPT !.pc = "ready", !.op = "refresh",
                                                 !.now = clock]]
  /\ UNCHANGED <<clock, rows, outbox, faults>>

\* find() and expireLapsed, by the time the tick began at.
RefreshLoad(j) ==
  /\ At(j, "refresh", "ready")
  /\ call' = [call EXCEPT ![j] =
               [Loaded("refresh") EXCEPT
                  !.pc = "save", !.now = call[j].now,
                  !.open = {i \in OpenRows : ~isCurrent(subs[i], call[j].now)}]]
  /\ UNCHANGED <<clock, rows, outbox, faults>>

\* The publish job: the account is pending, and the time is taken.
PublishDue(j) ==
  /\ j \in Publishers /\ call[j].pc = "idle"
  /\ acct.exists /\ acct.published < acct.revision
  /\ call' = [call EXCEPT ![j] = [Waiting EXCEPT !.pc = "ready", !.op = "publish",
                                                 !.now = clock]]
  /\ UNCHANGED <<clock, rows, outbox, faults>>

\* The rows and their revision are read in one repeatable-read transaction.
PublishLoad(j) ==
  /\ At(j, "publish", "ready")
  /\ call' = [call EXCEPT ![j] =
               [@ EXCEPT !.pc = "save",
                         !.new = <<resolveEntitlements(
                                     [subs |-> subs, grants |-> grants],
                                     acct.revision, call[j].now)>>]]
  /\ UNCHANGED <<clock, rows, outbox, faults>>

\* Mutant: a slower, older snapshot is sent after a newer one.
Publish_Unguarded(j) ==
  /\ At(j, "publish", "save")
  /\ LET s == call[j].new[1]
     IN  IF TRUE
         THEN /\ acct' = [acct EXCEPT !.published = s.version,
                                      !.nextRefresh = s.validUntil]
              /\ outbox' = Append(outbox, s)
         ELSE UNCHANGED <<acct, outbox>>
  /\ Finish(j)
  /\ UNCHANGED <<clock, subs, grants, faults, past>>

\* Mutant: the revision of the account is marked, not the snapshot's.
Publish_MarksCurrent(j) ==
  /\ At(j, "publish", "save")
  /\ LET s == call[j].new[1]
     IN  IF acct.published < s.version
         THEN /\ acct' = [acct EXCEPT !.published = acct.revision,
                                      !.nextRefresh = s.validUntil]
              /\ outbox' = Append(outbox, s)
         ELSE UNCHANGED <<acct, outbox>>
  /\ Finish(j)
  /\ UNCHANGED <<clock, subs, grants, faults, past>>

\* Mutant: the next refresh is not set.
Publish_NoRefresh(j) ==
  /\ At(j, "publish", "save")
  /\ LET s == call[j].new[1]
     IN  IF acct.published < s.version
         THEN /\ acct' = [acct EXCEPT !.published = s.version]
              /\ outbox' = Append(outbox, s)
         ELSE UNCHANGED <<acct, outbox>>
  /\ Finish(j)
  /\ UNCHANGED <<clock, subs, grants, faults, past>>

\* publish(): the mark and the outbox row in one transaction, unless a
\* snapshot as new was sent before.
Publish(j) ==
  /\ At(j, "publish", "save")
  /\ LET s == call[j].new[1]
     IN  IF acct.published < s.version
         THEN /\ acct' = [acct EXCEPT !.published = s.version,
                                      !.nextRefresh = s.validUntil]
              /\ outbox' = Append(outbox, s)
         ELSE UNCHANGED <<acct, outbox>>
  /\ Finish(j)
  /\ UNCHANGED <<clock, subs, grants, faults, past>>

-----------------------------------------------------------------------------
Command(c) == \/ LoadEnsured(c) \/ LoadFound(c)
              \/ DecideAssign(c) \/ DecideCancel(c)
              \/ DecideIssue(c) \/ DecideRevoke(c)
              \/ Save(c) \/ InsertGrant(c) \/ SaveRevocation(c)

JobStep(j) == \/ RefreshDue(j) \/ RefreshLoad(j) \/ Save(j)
              \/ PublishDue(j) \/ PublishLoad(j) \/ Publish(j)

Next == \/ Tick
        \/ \E c \in Calls : Command(c)
        \/ \E j \in Jobs : JobStep(j)
        \/ \E c \in Calls \cup Jobs : CutOff(c)

Spec == Init /\ [][Next]_vars

\* Time passes and the timers of the jobs keep firing, those of one process of
\* each kind at least; nothing is asked of the people who send commands.
Fairness == /\ WF_vars(Tick)
            /\ WF_vars(\E j \in Refreshers : JobStep(j))
            /\ WF_vars(\E j \in Publishers : JobStep(j))

FairSpec == Spec /\ Fairness

-----------------------------------------------------------------------------
(***************************************************************************)
(* Properties.                                                             *)
(***************************************************************************)

SubscriptionRow == [status : {"open", "canceled", "expired"},
                    start : Nat, end : Nat, ended : Nat]
GrantRow == [start : Nat, end : Nat, revoked : BOOLEAN]

TypeOK ==
  /\ clock \in Times /\ faults \in 0 .. MaxFaults
  /\ acct \in [exists : BOOLEAN, revision : Nat, published : Nat \cup {-1},
               nextRefresh : Nat]
  /\ subs \in Seq(SubscriptionRow) /\ grants \in Seq(GrantRow)
  /\ DOMAIN call = Calls \cup Jobs
  /\ \A c \in Calls \cup Jobs :
       /\ call[c].pc \in {"idle", "ready", "loaded", "save", "done"}
       /\ call[c].op \in {"none", "assign", "open", "cancel", "issue", "revoke",
                          "refresh", "publish"}
       /\ call[c].revision \in Nat /\ call[c].now \in Times
       /\ call[c].open \subseteq 1 .. Len(subs)
       /\ call[c].grant \in 0 .. Len(grants)

\* "At most one subscription is open at a time" (billing-account, line 32),
\* although every command decides on a copy that others may overtake: two
\* administrators who assign at once cannot both leave a row open.
OneOpenSubscription == Cardinality(OpenRows) <= 1

\* "A change of plan closes the current row and opens a new one, so the rows
\* are the history" (schema, line 151): read in order they tell which one
\* subscription the account had at any time, with no overlap.
HistoryIsATimeline ==
  \A i, j \in 1 .. Len(subs) :
    i < j => /\ ~isOpen(subs[i])
             /\ subs[i].start <= subs[i].ended /\ subs[i].ended <= subs[j].start

\* "Every change bumps it in its own transaction, so nothing committed can miss
\* its event" (publish-snapshots, line 9): again and again, the revision of the
\* account, or a later one, has been announced.
EveryChangeIsAnnounced ==
  []<>(acct.exists => \E i \in 1 .. Len(outbox) : outbox[i].version >= acct.revision)

\* "The refresh job bumps the account's revision then, so a held snapshot never
\* outlives it silently" (entitlements, line 42): when the time of the last
\* snapshot has passed, another one follows.
NoSnapshotOutlivesItsTime ==
  []<>(outbox # <<>> => outbox[Len(outbox)].validUntil > clock)

\* The service keeps the promise that its readers build on.
UntilOf(r) == [t \in Times |->
                 LET u == resolveEntitlements(r, 0, t).validUntil
                 IN  IF u > MaxTime THEN MaxTime + 1 ELSE u]

Source == INSTANCE SnapshotSource WITH
  revisions <- [i \in 1 .. Len(past) |-> [since |-> past[i].since,
                                          until |-> UntilOf(past[i])]],
  sent <- [i \in 1 .. Len(outbox) |->
             [version |-> outbox[i].version,
              validUntil |-> IF outbox[i].validUntil > MaxTime THEN MaxTime + 1
                             ELSE outbox[i].validUntil]]

\* BillingAccounts implements SnapshotSource: each revision announced at most
\* once and in order, with contents it really had while the clock was read.
\* (This implies Source!SourceSpec, see BillingAccounts_proofs: what the source
\* shows is a function of `told`, so a step that leaves that alone stutters.)
told == <<clock, past, outbox>>
KeepsThePromise == Source!SourceInit /\ [][told' # told => Source!SourceNext]_vars

=============================================================================

---------------------------- MODULE SnapshotSource ----------------------------
(***************************************************************************)
(* What subscription-service promises about the entitlements of one payer. *)
(*                                                                         *)
(* The entitlements are those of a revision at a moment; every change of   *)
(* them by somebody is a new revision, and every change by time alone is   *)
(* foretold by the `validUntil` of the snapshot.  Each revision is         *)
(* announced at most once, in order, and may be skipped for a later one.   *)
(* BillingAccounts is shown to implement this, EntitlementProjection       *)
(* relies on it.                                                           *)
(***************************************************************************)
EXTENDS Integers, Sequences

CONSTANT MaxTime        \* bound: the clock stops here

ASSUME SourceAssumption == MaxTime \in Nat

VARIABLES clock,
          revisions,    \* revision v is revisions[v + 1]
          sent          \* the snapshots announced

sourceVars == <<clock, revisions, sent>>

Times == 0 .. MaxTime

\* When what is read of a revision at each time ends: constant up to that end.
\* MaxTime + 1 stands for any moment past the bound.
Untils == {u \in [Times -> 1 .. MaxTime + 1] :
             \A t \in Times : /\ u[t] > t
                              /\ \A w \in Times : t <= w /\ w < u[t] => u[w] = u[t]}

Revision == Len(revisions) - 1

\* Revision v as it is resolved with the clock at t.
Snapshot(v, t) == [version |-> v, validUntil |-> revisions[v + 1].until[t]]

\* A reader that took the time at t can find revision v when it loads: v was
\* not yet replaced at t.
FoundAfter(v, t) == \A n \in (v + 2) .. Len(revisions) : revisions[n].since >= t

Announced == IF sent = <<>> THEN -1 ELSE sent[Len(sent)].version

-----------------------------------------------------------------------------
SourceInit == /\ clock = 0
              /\ revisions \in {<<[since |-> 0, until |-> u]>> : u \in Untils}
              /\ sent = <<>>

Tick == /\ clock < MaxTime
        /\ clock' = clock + 1
        /\ UNCHANGED <<revisions, sent>>

Change == /\ \E u \in Untils :
               revisions' = Append(revisions, [since |-> clock, until |-> u])
          /\ UNCHANGED <<clock, sent>>

Announce == /\ \E v \in (Announced + 1) .. Revision, t \in 0 .. clock :
                 FoundAfter(v, t) /\ sent' = Append(sent, Snapshot(v, t))
            /\ UNCHANGED <<clock, revisions>>

SourceNext == Tick \/ Change \/ Announce

SourceSpec == SourceInit /\ [][SourceNext]_sourceVars

=============================================================================

----------------------------- MODULE MeteredCalls -----------------------------
(***************************************************************************)
(* ai-service: model calls of one payer to one agent in one tariff period, *)
(* from the access gate to the charge.                                     *)
(*                                                                         *)
(* The gate reads the payer's counter in Redis, starting it from the       *)
(* ledger when it is missing, and lets the call through while it is below  *)
(* the allowance.  The call's credits are known when the model answered:   *)
(* the ledger row is written first (CallLedger) and the counter is charged *)
(* after it.  Once a day a reconciler raises the counter to the ledger's   *)
(* sum.  Calls, drainers and reconcilers interleave at every await.        *)
(***************************************************************************)
EXTENDS CallLedger, FiniteSetsExt

CONSTANTS Reconcilers,  \* the reconciler of each process
          Limit,        \* the allowance, in credits
          Costs         \* what a call may cost; 0: nothing answered, or no price is known

ASSUME QuotaAssumption ==
  /\ IsFiniteSet(Calls)
  /\ Reconcilers \cap Instances = {} /\ Nobody \notin Reconcilers
  /\ Limit \in Nat /\ Costs \subseteq Nat

Missing == -1   \* no counter

VARIABLES counter,    \* the counter in Redis, or Missing
          gate,       \* what each call has in hand before and after the model
          rec,        \* what each reconciler has in hand
          recLock,    \* the holder of quota:lock:reconcile
          summed,     \* history: the calls whose row the counter was set from
          twice       \* history: those charged on top of it

quotaVars == <<counter, gate, rec, recLock, summed, twice>>
vars == <<ledgerVars, quotaVars>>

Waiting == [pc |-> "idle", sum |-> 0, seen |-> {}, metered |-> FALSE, cost |-> 0]
Asleep == [pc |-> "idle", value |-> 0, sum |-> 0, seen |-> {}]

TypeOK ==
  /\ LedgerTypeOK
  /\ counter \in Nat \cup {Missing}
  /\ gate \in [Calls -> [pc : {"idle", "get", "usage", "init", "model", "record", "charge",
                               "over", "gone"},
                         sum : Nat, seen : SUBSET Calls, metered : BOOLEAN,
                         cost : Costs \cup {0}]]
  /\ rec \in [Reconcilers -> [pc : {"idle", "list", "usage", "raise", "release"},
                              value : Nat, sum : Nat, seen : SUBSET Calls]]
  /\ recLock \in Reconcilers \cup {Nobody}
  /\ summed \subseteq Calls /\ twice \subseteq Calls

Init ==
  /\ LedgerInit
  /\ counter = Missing
  /\ gate = [c \in Calls |-> Waiting]
  /\ rec = [r \in Reconcilers |-> Asleep]
  /\ recLock = Nobody
  /\ summed = {} /\ twice = {}

\* The credits of a set of calls.
Credits(S) == MapThenSumSet(LAMBDA c : gate[c].cost, S)

-----------------------------------------------------------------------------
(***************************************************************************)
(* The gateway's run of one call.                                          *)
(***************************************************************************)

GoGate(c, pc) == gate' = [gate EXCEPT ![c].pc = pc]

\* The agent is on, the policy and the tariff allow it, and it has an
\* allowance; or one of these refuses, and the refusal is recorded as well.
Admit(c) ==
  /\ gate[c].pc = "idle"
  /\ \E pc \in {"get", "record"} : GoGate(c, pc)
  /\ UNCHANGED <<ledgerVars, counter, rec, recLock, summed, twice>>

\* used >= limitMicro
Exhausted(used) == used >= Limit

Decide(c, used) ==
  gate' = [gate EXCEPT ![c] = [Waiting EXCEPT !.pc = IF Exhausted(used) THEN "record" ELSE "model",
                                              !.metered = ~Exhausted(used)]]

\* A counter that cannot be read lets the call through uncounted.
FailOpen(c) == gate' = [gate EXCEPT ![c] = [Waiting EXCEPT !.pc = "model"]]

GetCounter(c) ==
  /\ gate[c].pc = "get"
  /\ IF ~redis THEN FailOpen(c)
     ELSE IF counter = Missing THEN GoGate(c, "usage")
     ELSE Decide(c, counter)
  /\ UNCHANGED <<ledgerVars, counter, rec, recLock, summed, twice>>

ReadUsage(c) ==
  /\ gate[c].pc = "usage"
  /\ IF db THEN gate' = [gate EXCEPT ![c].pc = "init", ![c].sum = Credits(rows),
                                     ![c].seen = rows]
     ELSE FailOpen(c)
  /\ UNCHANGED <<ledgerVars, counter, rec, recLock, summed, twice>>

\* INIT: a counter somebody started meanwhile wins.
InitCounter_Overwrites(c) ==     \* Mutant: SET without the existence check
  /\ gate[c].pc = "init"
  /\ IF redis
     THEN /\ counter' = gate[c].sum
          /\ summed' = gate[c].seen
          /\ twice' = {}
          /\ Decide(c, gate[c].sum)
     ELSE FailOpen(c) /\ UNCHANGED <<counter, summed, twice>>
  /\ UNCHANGED <<ledgerVars, rec, recLock>>

InitCounter(c) ==
  /\ gate[c].pc = "init"
  /\ IF ~redis
     THEN FailOpen(c) /\ UNCHANGED <<counter, summed, twice>>
     ELSE IF counter = Missing
     THEN /\ counter' = gate[c].sum
          /\ summed' = gate[c].seen
          /\ twice' = {}
          /\ Decide(c, gate[c].sum)
     ELSE Decide(c, counter) /\ UNCHANGED <<counter, summed, twice>>
  /\ UNCHANGED <<ledgerVars, rec, recLock>>

\* The router is done: with an answer that costs, or with nothing to pay for.
CallModel(c) ==
  /\ gate[c].pc = "model"
  /\ \E cost \in Costs : gate' = [gate EXCEPT ![c].pc = "record", ![c].cost = cost]
  /\ UNCHANGED <<ledgerVars, counter, rec, recLock, summed, twice>>

HandOver(c) ==
  /\ gate[c].pc = "record"
  /\ BeginRecord(c)
  /\ UNCHANGED quotaVars

\* Whatever became of the row, the recorder returns, and the call is charged
\* if the gate metered it and it cost anything.
Recorded(c) ==
  /\ gate[c].pc = "record" /\ record[c].pc = "done"
  /\ GoGate(c, IF gate[c].metered /\ gate[c].cost > 0 THEN "charge" ELSE "over")
  /\ UNCHANGED <<ledgerVars, counter, rec, recLock, summed, twice>>

\* CHARGE: a missing counter stays missing, a failure is swallowed.
Charge(c) ==
  /\ gate[c].pc = "charge"
  /\ GoGate(c, "over")
  /\ IF redis /\ counter # Missing
     THEN /\ counter' = counter + gate[c].cost
          /\ twice' = twice \cup (summed \cap {c})
          /\ UNCHANGED summed
     ELSE UNCHANGED <<counter, summed, twice>>
  /\ UNCHANGED <<ledgerVars, rec, recLock>>

-----------------------------------------------------------------------------
(***************************************************************************)
(* The reconciler.                                                         *)
(***************************************************************************)

Leave(r) == rec' = [rec EXCEPT ![r] = [Asleep EXCEPT !.pc = "release"]]

TakeTurn(r) ==
  /\ rec[r].pc = "idle" /\ redis /\ recLock = Nobody
  /\ recLock' = r
  /\ rec' = [rec EXCEPT ![r].pc = "list"]
  /\ UNCHANGED <<ledgerVars, counter, gate, summed, twice>>

ListCounter_Unchecked(r) ==     \* Mutant: yields a counter gone since the scan
  /\ rec[r].pc = "list"
  /\ IF redis THEN rec' = [rec EXCEPT ![r].pc = "usage", ![r].value = counter]
     ELSE Leave(r)
  /\ UNCHANGED <<ledgerVars, counter, gate, recLock, summed, twice>>

\* SCAN, and GET of the one key; a key that went away in between is passed over.
ListCounter(r) ==
  /\ rec[r].pc = "list"
  /\ IF redis /\ counter # Missing
     THEN rec' = [rec EXCEPT ![r].pc = "usage", ![r].value = counter]
     ELSE Leave(r)
  /\ UNCHANGED <<ledgerVars, counter, gate, recLock, summed, twice>>

SumLedger_Ahead(r) ==     \* Mutant: looks for counters ahead of the ledger
  /\ rec[r].pc = "usage"
  /\ IF db /\ Credits(rows) < rec[r].value
     THEN rec' = [rec EXCEPT ![r].pc = "raise", ![r].sum = Credits(rows), ![r].seen = rows]
     ELSE Leave(r)
  /\ UNCHANGED <<ledgerVars, counter, gate, recLock, summed, twice>>

SumLedger(r) ==
  /\ rec[r].pc = "usage"
  /\ IF db /\ Credits(rows) > rec[r].value
     THEN rec' = [rec EXCEPT ![r].pc = "raise", ![r].sum = Credits(rows), ![r].seen = rows]
     ELSE Leave(r)
  /\ UNCHANGED <<ledgerVars, counter, gate, recLock, summed, twice>>

RaiseCounter_ByDifference(r) ==     \* Mutant: adds what was missing when it looked
  /\ rec[r].pc = "raise"
  /\ IF redis /\ counter # Missing
     THEN /\ counter' = counter + (rec[r].sum - rec[r].value)
          /\ summed' = rec[r].seen /\ twice' = {}
     ELSE UNCHANGED <<counter, summed, twice>>
  /\ Leave(r)
  /\ UNCHANGED <<ledgerVars, gate, recLock>>

\* RAISE: to the sum, where the counter is there and below it.
RaiseCounter(r) ==
  /\ rec[r].pc = "raise"
  /\ IF redis /\ counter # Missing /\ counter < rec[r].sum
     THEN /\ counter' = rec[r].sum
          /\ summed' = rec[r].seen /\ twice' = {}
     ELSE UNCHANGED <<counter, summed, twice>>
  /\ Leave(r)
  /\ UNCHANGED <<ledgerVars, gate, recLock>>

ReleaseTurn(r) ==
  /\ rec[r].pc = "release"
  /\ recLock' = IF redis /\ recLock = r THEN Nobody ELSE recLock
  /\ rec' = [rec EXCEPT ![r] = Asleep]
  /\ UNCHANGED <<ledgerVars, counter, gate, summed, twice>>

-----------------------------------------------------------------------------
(***************************************************************************)
(* What else may happen.                                                   *)
(***************************************************************************)

Frame == UNCHANGED <<db, redis, rows, spool, dead, lock, record, drain, logged>>

\* The process of a call dies outside the recorder.
CrashCall(c) ==
  /\ \/ gate[c].pc \in {"get", "usage", "init", "model", "charge"}
     \/ gate[c].pc = "record" /\ record[c].pc \in {"none", "done"}
  /\ Fault
  /\ GoGate(c, "gone")
  /\ Frame
  /\ UNCHANGED <<counter, rec, recLock, summed, twice>>

CrashReconciler(r) ==
  /\ rec[r].pc # "idle"
  /\ Fault
  /\ rec' = [rec EXCEPT ![r] = Asleep]
  /\ Frame
  /\ UNCHANGED <<counter, gate, recLock, summed, twice>>

\* The store lost the counter: a key with a time to live may be evicted.
CounterLost ==
  /\ counter # Missing
  /\ Fault
  /\ counter' = Missing /\ summed' = {} /\ twice' = {}
  /\ Frame
  /\ UNCHANGED <<gate, rec, recLock>>

TurnLapses ==
  /\ recLock # Nobody
  /\ Overrun \/ rec[recLock].pc = "idle"
  /\ recLock' = Nobody
  /\ UNCHANGED <<ledgerVars, counter, gate, rec, summed, twice>>

Gateway(c) == Admit(c) \/ GetCounter(c) \/ ReadUsage(c) \/ InitCounter(c) \/ CallModel(c)
              \/ HandOver(c) \/ Recorded(c) \/ Charge(c)
Reconciler(r) == TakeTurn(r) \/ ListCounter(r) \/ SumLedger(r) \/ RaiseCounter(r)
                 \/ ReleaseTurn(r)

Next ==
  \/ \E c \in Calls : Gateway(c) \/ CrashCall(c)
  \/ \E r \in Reconcilers : Reconciler(r) \/ CrashReconciler(r)
  \/ CounterLost \/ TurnLapses
  \/ UNCHANGED quotaVars /\ (\/ \E c \in Calls : Recorder(c)
                             \/ \E i \in Instances : Drainer(i)
                             \/ Weather)

Spec == Init /\ [][Next]_vars

(***************************************************************************)
(* A call in hand goes on, timers keep firing, locks lapse by themselves,  *)
(* and a store that went away comes back.                                  *)
(***************************************************************************)
Fairness ==
  /\ \A c \in Calls : WF_vars(Gateway(c) \/ (Recorder(c) /\ UNCHANGED quotaVars))
  /\ \A i \in Instances : WF_vars(Drainer(i) /\ UNCHANGED quotaVars)
  /\ \A r \in Reconcilers : WF_vars(Reconciler(r))
  /\ WF_vars((DbBack \/ RedisBack) /\ UNCHANGED quotaVars)
  /\ WF_vars(LockLapses /\ UNCHANGED quotaVars) /\ WF_vars(TurnLapses)

FairSpec == Spec /\ Fairness

-----------------------------------------------------------------------------
(***************************************************************************)
(* Properties.                                                             *)
(***************************************************************************)

(***************************************************************************)
(* While nothing fails, no call is let through once the calls that are     *)
(* over have used up the allowance: only those still under way may         *)
(* overshoot it, whatever the order in which counters are started, rows    *)
(* written, charges made and counters raised.                              *)
(***************************************************************************)
LetThrough(c) == gate[c].pc # "model" /\ gate'[c].pc = "model"
Over == {c \in Calls : gate[c].pc = "over"}
AllowanceHolds ==
  [][\A c \in Calls : LetThrough(c) /\ faults = 0 => Credits(Over) < Limit]_vars

(***************************************************************************)
(* Whatever fails, the counter holds no more than what the calls cost: a   *)
(* call is counted again only if its row was in the sum the counter was    *)
(* set to while its charge was under way.                                  *)
(***************************************************************************)
CounterExplained == counter <= Credits(Calls) + Credits(twice)

(***************************************************************************)
(* A counter that fell behind the ledger catches up with it.               *)
(***************************************************************************)
CounterCatchesUp == <>[](counter = Missing \/ counter >= Credits(rows))

(***************************************************************************)
(* The spool empties: however often the stores go away and drainers die,   *)
(* no row waits in it for ever, behind one the database refuses least.     *)
(***************************************************************************)
SpoolSettles == <>[](spool = <<>>)

=============================================================================

------------------------ MODULE BillingAccounts_proofs ------------------------
(***************************************************************************)
(* Why one payer's subscriptions stay one history, and why what is         *)
(* announced of them is true, for any number of commands, jobs and         *)
(* processes.                                                              *)
(*                                                                         *)
(* A command decides on a copy of the rows and writes by it only if the    *)
(* revision is still the one it read.  Every write bumps the revision, so  *)
(* a copy whose revision is current still is the rows: CallOK says what    *)
(* such a copy knows, and nothing of the others.                           *)
(*                                                                         *)
(* A snapshot is made of rows read together with their revision, and       *)
(* stored later, when both may be old.  It still is what the promise says, *)
(* the contents of that revision at a time when it was current, because    *)
(* the time is taken before the rows are read and every later revision     *)
(* starts after it (TrailInv); and because what the rows entitle to stays  *)
(* the same until the moment the snapshot names (UntilHolds).              *)
(***************************************************************************)
EXTENDS BillingAccounts, FiniteSetTheorems, WellFoundedInduction,
        SequenceTheorems, TLAPS

-----------------------------------------------------------------------------
(***************************************************************************)
(* The inductive invariant.                                                *)
(***************************************************************************)

OpenIn(q) == {i \in 1 .. Len(q) : isOpen(q[i])}

\* The rows q are a history at time t.
History(q, t) ==
  /\ q \in Seq(SubscriptionRow)
  /\ \A i \in 1 .. Len(q) :
       /\ q[i].end = Never \/ q[i].start < q[i].end
       /\ q[i].start <= t /\ q[i].ended <= t
       /\ ~isOpen(q[i]) => q[i].start <= q[i].ended
  /\ \A i, j \in 1 .. Len(q) :
       i < j => ~isOpen(q[i]) /\ q[i].ended <= q[j].start

Cmds == {"assign", "open", "cancel"}

\* A row as assignPlan makes it at time t.
FreshRow(s, t) == /\ s \in SubscriptionRow
                  /\ isOpen(s) /\ s.start = t /\ s.ended = 0
                  /\ s.end = Never \/ s.start < s.end

\* What the call x knows of the rows q if it read them at this revision.
KnowsRows(x, q) ==
  /\ x.op \in Cmds /\ x.pc \in {"loaded", "save"} => x.open = OpenIn(q)
  /\ x.op \in Cmds /\ x.pc = "save" =>
       \A i \in 1 .. Len(q) : q[i].start <= x.now /\ q[i].ended <= x.now
  /\ x.op = "refresh" /\ x.pc = "save" =>
       \A i \in x.open : i \in OpenIn(q) /\ RanOut(q[i], x.now)

\* `new` and `grant` are of no concern here.
CallRecord(new, grant) ==
  [pc : {"idle", "ready", "loaded", "save", "done"},
   op : {"none", "assign", "open", "cancel", "issue", "revoke", "refresh", "publish"},
   revision : Nat, now : Nat, open : SUBSET Nat, new : {new}, grant : {grant}]

CallOK(x, q, revision, t) ==
  /\ x \in CallRecord(x.new, x.grant)
  /\ x.now <= t /\ x.revision <= revision
  /\ x.op \in {"cancel", "refresh"} => x.new = <<>>
  /\ x.op \in {"assign", "open"} /\ x.pc = "save" =>
       Len(x.new) = 1 /\ x.new = <<x.new[1]>> /\ FreshRow(x.new[1], x.now)
  /\ x.revision = revision => KnowsRows(x, q)

AcctOK == acct \in [exists : {acct.exists}, revision : Nat,
                    published : {acct.published}, nextRefresh : {acct.nextRefresh}]

Inv == /\ clock \in Nat
       /\ AcctOK
       /\ History(subs, clock)
       /\ call = [c \in Calls \cup Jobs |-> call[c]]
       /\ \A c \in Calls \cup Jobs : CallOK(call[c], subs, acct.revision, clock)

-----------------------------------------------------------------------------
(***************************************************************************)
(* The write.                                                              *)
(***************************************************************************)

\* Closing a row, at its end if that has passed and else now.
LEMMA ClosingARow ==
  ASSUME NEW s \in SubscriptionRow, NEW now \in Nat,
         NEW r, r = closeSubscription(s, now)
  PROVE  /\ r \in SubscriptionRow /\ ~isOpen(r)
         /\ r.start = s.start /\ r.end = s.end
         /\ r.ended = IF RanOut(s, now) THEN s.end ELSE now
BY DEF closeSubscription, SubscriptionRow, isOpen

\* The rows q with those in `open` closed.
Closed(q, open, now) ==
  [i \in 1 .. Len(q) |-> IF i \in open THEN closeSubscription(q[i], now) ELSE q[i]]

\* Rows that were open are closed by a current copy, the rest is left alone.
LEMMA ClosingRows ==
  ASSUME NEW t \in Nat, NEW q, History(q, t),
         NEW now \in Nat, now <= t, NEW open,
         \A i \in open : i \in OpenIn(q),
         \A i \in open : RanOut(q[i], now) \/ q[i].start <= now
  PROVE  History(Closed(q, open, now), t)
<1> DEFINE m == Closed(q, open, now)
<1>1. q \in Seq(SubscriptionRow) /\ Len(q) \in Nat
  BY DEF History
<1>2. ASSUME NEW i \in 1 .. Len(q)
      PROVE  /\ m[i] \in SubscriptionRow /\ q[i] \in SubscriptionRow
             /\ m[i].start = q[i].start /\ m[i].end = q[i].end
             /\ i \notin open => m[i] = q[i]
             /\ i \in open => /\ isOpen(q[i]) /\ ~isOpen(m[i])
                              /\ m[i].ended = IF RanOut(q[i], now) THEN q[i].end ELSE now
  <2>1. q[i] \in SubscriptionRow
    BY <1>1
  <2>2. m[i] = IF i \in open THEN closeSubscription(q[i], now) ELSE q[i]
    BY DEF Closed
  <2>3. i \in open => isOpen(q[i])
    BY DEF OpenIn
  <2> HIDE DEF m
  <2>4. CASE i \in open
    <3>1. PICK r : r = closeSubscription(q[i], now)
      OBVIOUS
    <3>2. m[i] = r
      BY <2>2, <2>4, <3>1
    <3>3. /\ r \in SubscriptionRow /\ ~isOpen(r)
          /\ r.start = q[i].start /\ r.end = q[i].end
          /\ r.ended = IF RanOut(q[i], now) THEN q[i].end ELSE now
      BY <2>1, <3>1, ClosingARow
    <3> QED
      BY <2>1, <2>3, <2>4, <3>2, <3>3
  <2>5. CASE i \notin open
    BY <2>1, <2>2, <2>5
  <2> QED
    BY <2>4, <2>5
<1>3. m \in Seq(SubscriptionRow) /\ Len(m) = Len(q)
  <2>1. m \in [1 .. Len(q) -> SubscriptionRow]
    BY <1>2 DEF Closed
  <2> QED
    BY <1>1, <2>1
<1> HIDE DEF m
<1>4. ASSUME NEW i \in 1 .. Len(q)
      PROVE  /\ m[i].end = Never \/ m[i].start < m[i].end
             /\ m[i].start <= t /\ m[i].ended <= t
             /\ ~isOpen(m[i]) => m[i].start <= m[i].ended
  <2>1. /\ q[i].end = Never \/ q[i].start < q[i].end
        /\ q[i].start <= t /\ q[i].ended <= t
        /\ ~isOpen(q[i]) => q[i].start <= q[i].ended
    BY DEF History
  <2>2. CASE i \notin open
    BY <1>2, <2>1, <2>2
  <2>3. CASE i \in open
    <3>1. /\ m[i].ended = IF RanOut(q[i], now) THEN q[i].end ELSE now
          /\ m[i].start = q[i].start /\ m[i].end = q[i].end
          /\ q[i] \in SubscriptionRow
      BY <1>2, <2>3
    <3>2. RanOut(q[i], now) \/ q[i].start <= now
      BY <2>3
    <3>3. RanOut(q[i], now) => q[i].end # Never /\ q[i].end <= now
      BY DEF RanOut
    <3>4. q[i].end \in Nat /\ q[i].start \in Nat /\ q[i].ended \in Nat
      BY <3>1 DEF SubscriptionRow
    <3> QED
      BY <2>1, <3>1, <3>2, <3>3, <3>4
  <2> QED
    BY <2>2, <2>3
<1>5. ASSUME NEW i \in 1 .. Len(q), NEW j \in 1 .. Len(q), i < j
      PROVE  ~isOpen(m[i]) /\ m[i].ended <= m[j].start
  <2>1. ~isOpen(q[i]) /\ q[i].ended <= q[j].start
    BY <1>5 DEF History
  <2>2. m[i] = q[i] /\ m[j].start = q[j].start
    BY <1>2, <2>1
  <2> QED
    BY <2>1, <2>2
<1>6. History(m, t)
  BY <1>3, <1>4, <1>5 DEF History
<1> QED
  BY <1>6 DEF m

\* A row that starts now is added to a history that is over.
LEMMA OpeningARow ==
  ASSUME NEW t \in Nat, NEW q, History(q, t),
         NEW now \in Nat, now <= t, NEW s, FreshRow(s, now),
         \A i \in 1 .. Len(q) : ~isOpen(q[i]) /\ q[i].ended <= now
  PROVE  History(q \o <<s>>, t)
<1> DEFINE m == q \o <<s>>
<1>1. q \in Seq(SubscriptionRow) /\ Len(q) \in Nat /\ s \in SubscriptionRow
  BY DEF History, FreshRow
<1>2. /\ m \in Seq(SubscriptionRow) /\ Len(m) = Len(q) + 1
      /\ \A i \in 1 .. Len(q) : m[i] = q[i]
      /\ m[Len(q) + 1] = s
  BY <1>1
<1> HIDE DEF m
<1>3. /\ s.end = Never \/ s.start < s.end
      /\ s.start <= t /\ s.ended <= t /\ isOpen(s) /\ s.start = now
  BY DEF FreshRow
<1>4. ASSUME NEW i \in 1 .. Len(m)
      PROVE  /\ m[i].end = Never \/ m[i].start < m[i].end
             /\ m[i].start <= t /\ m[i].ended <= t
             /\ ~isOpen(m[i]) => m[i].start <= m[i].ended
  <2>1. CASE i \in 1 .. Len(q)
    BY <1>2, <2>1 DEF History
  <2>2. CASE i = Len(q) + 1
    BY <1>2, <1>3, <2>2
  <2> QED
    BY <1>1, <1>2, <2>1, <2>2
<1>5. ASSUME NEW i \in 1 .. Len(m), NEW j \in 1 .. Len(m), i < j
      PROVE  ~isOpen(m[i]) /\ m[i].ended <= m[j].start
  <2>1. i \in 1 .. Len(q) /\ m[i] = q[i]
    BY <1>1, <1>2, <1>5
  <2>2. CASE j \in 1 .. Len(q)
    BY <1>2, <1>5, <2>1, <2>2 DEF History
  <2>3. CASE j = Len(q) + 1
    BY <1>2, <1>3, <2>1, <2>3
  <2> QED
    BY <1>1, <1>2, <2>2, <2>3
<1>6. History(m, t)
  BY <1>2, <1>4, <1>5 DEF History
<1> QED
  BY <1>6 DEF m

\* A copy whose revision is still the account's leaves a history behind.
LEMMA SavingACurrentCopy ==
  ASSUME NEW t \in Nat, NEW q, History(q, t), NEW x, NEW revision,
         CallOK(x, q, revision, t), x.revision = revision,
         x.pc = "save", x.op \in Cmds \cup {"refresh"}
  PROVE  History(Closed(q, x.open, x.now) \o x.new, t)
<1> DEFINE m == Closed(q, x.open, x.now)
<1>1. x.now \in Nat /\ x.now <= t /\ KnowsRows(x, q)
  BY DEF CallOK, CallRecord
<1>2. \A i \in x.open : i \in OpenIn(q) /\ (RanOut(q[i], x.now) \/ q[i].start <= x.now)
  <2>1. CASE x.op \in Cmds
    BY <1>1, <2>1 DEF KnowsRows, OpenIn
  <2>2. CASE x.op = "refresh"
    BY <1>1, <2>2 DEF KnowsRows
  <2> QED
    BY <2>1, <2>2
<1>3. History(m, t)
  BY <1>1, <1>2, ClosingRows
<1>4. CASE x.op \in {"cancel", "refresh"}
  <2>1. x.new = <<>> /\ m \in Seq(SubscriptionRow)
    BY <1>3, <1>4 DEF CallOK, History
  <2> HIDE DEF m
  <2>2. m \o x.new = m
    BY <2>1
  <2> QED
    BY <1>3, <2>2 DEF m
<1>5. CASE x.op \in {"assign", "open"}
  <2>1. x.new = <<x.new[1]>> /\ FreshRow(x.new[1], x.now)
    BY <1>5 DEF CallOK
  <2>2. ASSUME NEW i \in 1 .. Len(m) PROVE ~isOpen(m[i]) /\ m[i].ended <= x.now
    <3>1. q \in Seq(SubscriptionRow) /\ Len(m) = Len(q)
      <4>1. m \in Seq(SubscriptionRow) /\ q \in Seq(SubscriptionRow)
        BY <1>3 DEF History
      <4>2. DOMAIN m = 1 .. Len(q) /\ DOMAIN m = 1 .. Len(m)
        BY <4>1 DEF Closed
      <4> QED
        BY <4>1, <4>2
    <3>2. i \in 1 .. Len(q) /\ q[i] \in SubscriptionRow
      BY <3>1
    <3>3. m[i] = IF i \in x.open THEN closeSubscription(q[i], x.now) ELSE q[i]
      BY <3>2 DEF Closed
    <3>4. x.open = OpenIn(q) /\ q[i].ended <= x.now
      BY <1>1, <1>5, <3>2 DEF KnowsRows, Cmds
    <3>5. CASE i \in x.open
      <4>1. ~isOpen(m[i]) /\ m[i].ended = IF RanOut(q[i], x.now) THEN q[i].end ELSE x.now
        BY <1>1, <3>2, <3>3, <3>5, ClosingARow
      <4> QED
        BY <1>1, <4>1 DEF RanOut
    <3>6. CASE i \notin x.open
      BY <3>2, <3>3, <3>4, <3>6 DEF OpenIn
    <3> QED
      BY <3>5, <3>6
  <2> HIDE DEF m
  <2>3. History(m \o <<x.new[1]>>, t)
    BY <1>1, <1>3, <2>1, <2>2, OpeningARow
  <2> QED
    BY <2>1, <2>3 DEF m
<1> QED
  BY <1>4, <1>5 DEF Cmds

-----------------------------------------------------------------------------
(***************************************************************************)
(* Calls.                                                                  *)
(***************************************************************************)

\* Time passes; the rows stay, or change with a bump.
LEMMA CallOKLater ==
  ASSUME NEW x, NEW q, NEW p, NEW m \in Nat, NEW n \in Nat, NEW t \in Nat, NEW u \in Nat,
         CallOK(x, q, m, t), t <= u, (n = m /\ p = q) \/ n = m + 1
  PROVE  CallOK(x, p, n, u)
<1>1. x.revision \in Nat /\ x.now \in Nat
  BY DEF CallOK, CallRecord
<1>2. x.revision <= n /\ x.now <= u
  BY <1>1 DEF CallOK
<1>3. x.revision = n => KnowsRows(x, p)
  BY <1>1 DEF CallOK
<1> QED
  BY <1>2, <1>3 DEF CallOK

\* One call takes the state x, and nothing else holds a copy.
LEMMA OneCallSteps ==
  ASSUME Inv, NEW c \in Calls \cup Jobs, NEW x, call' = [call EXCEPT ![c] = x],
         clock' \in Nat, clock <= clock', AcctOK', History(subs', clock'),
         \/ acct'.revision = acct.revision /\ subs' = subs
         \/ acct'.revision = acct.revision + 1,
         CallOK(x, subs', acct'.revision, clock')
  PROVE  Inv'
<1>1. acct.revision \in Nat /\ acct'.revision \in Nat /\ clock \in Nat
  BY DEF Inv, AcctOK
<1>2. call = [d \in Calls \cup Jobs |-> call[d]]
  BY DEF Inv
<1>3. call' = [d \in Calls \cup Jobs |-> call'[d]]
        /\ \A d \in Calls \cup Jobs : call'[d] = IF d = c THEN x ELSE call[d]
  BY <1>2
<1>4. ASSUME NEW d \in Calls \cup Jobs
      PROVE  CallOK(call'[d], subs', acct'.revision, clock')
  <2>1. CallOK(call[d], subs, acct.revision, clock)
    BY DEF Inv
  <2>2. CallOK(call[d], subs', acct'.revision, clock')
    BY <1>1, <2>1, CallOKLater
  <2> QED
    BY <1>3, <2>2
<1> QED
  BY <1>3, <1>4 DEF Inv

\* A step of one call that leaves the rows and the revision alone.
LEMMA QuietStep ==
  ASSUME Inv, NEW c \in Calls \cup Jobs, NEW x, call' = [call EXCEPT ![c] = x],
         clock' = clock, acct' = acct, subs' = subs,
         CallOK(x, subs, acct.revision, clock)
  PROVE  Inv'
<1>1. clock' \in Nat /\ clock <= clock' /\ AcctOK' /\ History(subs', clock')
  BY DEF Inv, AcctOK
<1> QED
  BY <1>1, OneCallSteps

LEMMA OpenInIsNats ==
  ASSUME NEW q, NEW t, History(q, t)
  PROVE  OpenIn(q) \in SUBSET Nat
BY DEF OpenIn, History

LEMMA WaitingIsFine ==
  ASSUME NEW q, NEW n \in Nat, NEW t \in Nat
  PROVE  CallOK(Waiting, q, n, t) /\ CallOK(Done, q, n, t)
BY DEF CallOK, CallRecord, KnowsRows, Cmds, Waiting, Done

\* A call ends, whatever it did to the rows.
LEMMA Finishes ==
  ASSUME NEW c, Finish(c)
  PROVE  \E x \in {Waiting, Done} : call' = [call EXCEPT ![c] = x]
BY DEF Finish

LEMMA QuietEnd ==
  ASSUME Inv, NEW c \in Calls \cup Jobs, Finish(c),
         clock' = clock, acct' = acct, subs' = subs
  PROVE  Inv'
<1>1. PICK x \in {Waiting, Done} : call' = [call EXCEPT ![c] = x]
  BY Finishes
<1>2. CallOK(x, subs, acct.revision, clock)
  BY WaitingIsFine DEF Inv, AcctOK
<1> QED
  BY <1>1, <1>2, QuietStep

\* find() returns the open rows at the revision it read.
LEMMA LoadedIsFine ==
  ASSUME Inv, NEW op \in Cmds \cup {"issue", "revoke"}, NEW g
  PROVE  /\ CallOK(Loaded(op), subs, acct.revision, clock)
         /\ CallOK([Loaded("revoke") EXCEPT !.grant = g], subs, acct.revision, clock)
<1>1. OpenRows = OpenIn(subs) /\ OpenRows \in SUBSET Nat
  BY OpenInIsNats DEF Inv, OpenIn, OpenRows
<1>2. acct.revision \in Nat /\ clock \in Nat
  BY DEF Inv, AcctOK
<1>3. ASSUME NEW x, NEW h, NEW o \in {"issue", "revoke"},
             x = [pc |-> "loaded", op |-> o, revision |-> 0, now |-> 0,
                  open |-> {}, new |-> <<>>, grant |-> h]
      PROVE  CallOK(x, subs, acct.revision, clock)
  BY <1>2, <1>3 DEF CallOK, CallRecord, KnowsRows, Cmds
<1>4. ASSUME NEW o \in {"issue", "revoke"}
      PROVE  Loaded(o) = [pc |-> "loaded", op |-> o, revision |-> 0, now |-> 0,
                          open |-> {}, new |-> <<>>, grant |-> 0]
  BY <1>4 DEF Loaded, Waiting
<1>5. CallOK([Loaded("revoke") EXCEPT !.grant = g], subs, acct.revision, clock)
  <2>1. PICK y : y = Loaded("revoke")
    OBVIOUS
  <2>2. y = [pc |-> "loaded", op |-> "revoke", revision |-> 0, now |-> 0,
             open |-> {}, new |-> <<>>, grant |-> 0]
    BY <1>4, <2>1
  <2>3. y \in CallRecord(<<>>, 0) /\ y.new = <<>> /\ y.op = "revoke"
          /\ y.revision = 0 /\ y.now = 0
    BY <2>2 DEF CallRecord
  <2>4. PICK z : z = [y EXCEPT !.grant = g]
    OBVIOUS
  <2>5. z \in CallRecord(<<>>, g) /\ z.new = <<>> /\ z.grant = g /\ z.op = "revoke"
          /\ z.revision = 0 /\ z.now = 0
    BY <2>3, <2>4 DEF CallRecord
  <2>6. CallOK(z, subs, acct.revision, clock)
    BY <1>2, <2>5 DEF CallOK, KnowsRows, Cmds
  <2> QED
    BY <2>1, <2>4, <2>6
<1>6. CASE op \in Cmds
  <2>1. Loaded(op) = [pc |-> "loaded", op |-> op, revision |-> acct.revision,
                      now |-> 0, open |-> OpenRows, new |-> <<>>, grant |-> 0]
    BY <1>6 DEF Loaded, Waiting, Cmds
  <2>2. PICK x : x = Loaded(op)
    OBVIOUS
  <2>3. CallOK(x, subs, acct.revision, clock)
    BY <1>1, <1>2, <1>6, <2>1, <2>2 DEF CallOK, CallRecord, KnowsRows, Cmds
  <2> QED
    BY <1>5, <2>2, <2>3
<1>7. CASE op \in {"issue", "revoke"}
  <2>1. PICK x : x = Loaded(op)
    OBVIOUS
  <2>2. CallOK(x, subs, acct.revision, clock)
    BY <1>3, <1>4, <1>7, <2>1
  <2> QED
    BY <1>5, <2>1, <2>2
<1> QED
  BY <1>6, <1>7

-----------------------------------------------------------------------------
(***************************************************************************)
(* The commands.                                                           *)
(***************************************************************************)

LEMMA LoadEnsuredStep ==
  ASSUME Inv, NEW c \in Calls \cup Jobs, LoadEnsured(c)
  PROVE  Inv'
<1>1. clock' = clock /\ subs' = subs /\ acct' = [acct EXCEPT !.exists = TRUE]
  BY DEF LoadEnsured
<1>2. AcctOK' /\ acct'.revision = acct.revision
  BY <1>1 DEF Inv, AcctOK
<1>3. clock' \in Nat /\ clock <= clock' /\ History(subs', clock')
  BY <1>1 DEF Inv
<1>4. \/ Finish(c)
      \/ \E op \in Cmds \cup {"issue"} : call' = [call EXCEPT ![c] = Loaded(op)]
  BY DEF LoadEnsured, Cmds
<1>5. CASE Finish(c)
  <2>1. PICK x \in {Waiting, Done} : call' = [call EXCEPT ![c] = x]
    BY <1>5, Finishes
  <2>2. CallOK(x, subs, acct.revision, clock)
    BY WaitingIsFine DEF Inv, AcctOK
  <2> QED
    BY <1>1, <1>2, <1>3, <2>1, <2>2, OneCallSteps
<1>6. CASE \E op \in Cmds \cup {"issue"} : call' = [call EXCEPT ![c] = Loaded(op)]
  <2>1. PICK op \in Cmds \cup {"issue"} : call' = [call EXCEPT ![c] = Loaded(op)]
    BY <1>6
  <2>2. PICK x : x = Loaded(op)
    OBVIOUS
  <2>3. CallOK(x, subs, acct.revision, clock)
    BY <2>2, LoadedIsFine
  <2> QED
    BY <1>1, <1>2, <1>3, <2>1, <2>2, <2>3, OneCallSteps
<1> QED
  BY <1>4, <1>5, <1>6

LEMMA LoadFoundStep ==
  ASSUME Inv, NEW c \in Calls \cup Jobs, LoadFound(c)
  PROVE  Inv'
<1>1. clock' = clock /\ subs' = subs /\ acct' = acct
  BY DEF LoadFound
<1>2. CASE call' = [call EXCEPT ![c] = Loaded("cancel")]
  <2>1. PICK x : x = Loaded("cancel")
    OBVIOUS
  <2>2. CallOK(x, subs, acct.revision, clock)
    BY <2>1, LoadedIsFine DEF Cmds
  <2> QED
    BY <1>1, <1>2, <2>1, <2>2, QuietStep
<1>3. ASSUME NEW g, call' = [call EXCEPT ![c] = [Loaded("revoke") EXCEPT !.grant = g]]
      PROVE  Inv'
  <2>1. PICK x : x = [Loaded("revoke") EXCEPT !.grant = g]
    OBVIOUS
  <2>2. CallOK(x, subs, acct.revision, clock)
    BY <2>1, LoadedIsFine DEF Cmds
  <2> QED
    BY <1>1, <1>3, <2>1, <2>2, QuietStep
<1> QED
  BY <1>2, <1>3 DEF LoadFound

\* A decision by the rows that were read.
LEMMA ReadyIsFine ==
  ASSUME Inv, NEW c \in Calls \cup Jobs, NEW new,
         call[c].pc = "loaded", call[c].op # "refresh",
         call[c].op = "cancel" => new = <<>>,
         call[c].op \in {"assign", "open"} =>
           \E s : new = <<s>> /\ FreshRow(s, clock)
  PROVE  /\ CallOK([Ready(c) EXCEPT !.new = new], subs, acct.revision, clock)
         /\ call[c].op \notin {"assign", "open"} =>
              CallOK(Ready(c), subs, acct.revision, clock)
<1>1. /\ call[c] \in CallRecord(call[c].new, call[c].grant)
      /\ call[c].revision <= acct.revision
      /\ call[c].revision = acct.revision => KnowsRows(call[c], subs)
      /\ call[c].op = "cancel" => call[c].new = <<>>
  BY DEF Inv, CallOK
<1>2. clock \in Nat /\ \A i \in 1 .. Len(subs) :
                         subs[i].start <= clock /\ subs[i].ended <= clock
  BY DEF Inv, History
<1>3. ASSUME NEW x, x \in CallRecord(x.new, x.grant), x.now = clock, x.pc = "save",
             x.op = call[c].op, x.revision = call[c].revision, x.open = call[c].open,
             x.op = "cancel" => x.new = <<>>,
             x.op \in {"assign", "open"} =>
               \E s : x.new = <<s>> /\ FreshRow(s, clock)
      PROVE  CallOK(x, subs, acct.revision, clock)
  <2>1. x.revision = acct.revision => KnowsRows(x, subs)
    BY <1>1, <1>2, <1>3 DEF KnowsRows, Cmds
  <2>2. ASSUME x.op \in {"assign", "open"}
        PROVE  Len(x.new) = 1 /\ x.new = <<x.new[1]>> /\ FreshRow(x.new[1], x.now)
    <3>1. PICK s : x.new = <<s>> /\ FreshRow(s, clock)
      BY <1>3, <2>2
    <3> QED
      BY <1>3, <3>1
  <2>3. x.now <= clock /\ x.revision <= acct.revision
    BY <1>1, <1>2, <1>3
  <2>4. x.op \in {"cancel", "refresh"} => x.new = <<>>
    BY <1>1, <1>3
  <2> QED
    BY <1>3, <2>1, <2>2, <2>3, <2>4 DEF CallOK
<1>4. PICK y : y = Ready(c)
  OBVIOUS
<1>5. /\ y \in CallRecord(call[c].new, call[c].grant) /\ y.new = call[c].new
      /\ y.grant = call[c].grant /\ y.now = clock /\ y.pc = "save"
      /\ y.op = call[c].op /\ y.revision = call[c].revision /\ y.open = call[c].open
  BY <1>1, <1>2, <1>4 DEF Ready, CallRecord
<1>6. PICK z : z = [y EXCEPT !.new = new]
  OBVIOUS
<1>7. /\ z \in CallRecord(new, call[c].grant) /\ z.new = new
      /\ z.grant = call[c].grant /\ z.now = clock /\ z.pc = "save"
      /\ z.op = call[c].op /\ z.revision = call[c].revision /\ z.open = call[c].open
  BY <1>5, <1>6 DEF CallRecord
<1>8. CallOK(z, subs, acct.revision, clock)
  BY <1>3, <1>7
<1>9. call[c].op \notin {"assign", "open"} => CallOK(y, subs, acct.revision, clock)
  BY <1>1, <1>3, <1>5
<1> QED
  BY <1>4, <1>6, <1>8, <1>9

LEMMA DecideAssignStep ==
  ASSUME Inv, NEW c \in Calls \cup Jobs, DecideAssign(c)
  PROVE  Inv'
<1>1. PICK end \in {Never} \cup (clock + 1) .. MaxTime :
        call' = [call EXCEPT ![c] =
                  [Ready(c) EXCEPT !.new = <<[status |-> "open", start |-> clock,
                                              end |-> end, ended |-> Never]>>]]
  BY DEF DecideAssign
<1>2. PICK s : s = [status |-> "open", start |-> clock, end |-> end, ended |-> Never]
  OBVIOUS
<1>3. FreshRow(s, clock)
  <2>1. clock \in Nat /\ MaxTime \in Nat
    BY AccountAssumption DEF Inv
  <2>2. end \in Nat /\ (end = Never \/ clock < end)
    BY <2>1 DEF Never
  <2> QED
    BY <1>2, <2>1, <2>2 DEF FreshRow, SubscriptionRow, isOpen, Never
<1>4. PICK x : x = [Ready(c) EXCEPT !.new = <<s>>]
  OBVIOUS
<1>5. CallOK(x, subs, acct.revision, clock)
  <2>1. call[c].pc = "loaded" /\ call[c].op \in {"assign", "open"}
    BY DEF DecideAssign
  <2> QED
    BY <1>3, <1>4, <2>1, ReadyIsFine
<1>6. clock' = clock /\ subs' = subs /\ acct' = acct
  BY DEF DecideAssign, rows
<1> QED
  BY <1>1, <1>2, <1>4, <1>5, <1>6, QuietStep

LEMMA DecideCancelStep ==
  ASSUME Inv, NEW c \in Calls \cup Jobs, DecideCancel(c)
  PROVE  Inv'
<1>1. clock' = clock /\ subs' = subs /\ acct' = acct
        /\ call[c].pc = "loaded" /\ call[c].op = "cancel"
  BY DEF DecideCancel, rows, At
<1>2. CASE Finish(c)
  BY <1>1, <1>2, QuietEnd
<1>3. CASE call' = [call EXCEPT ![c] = Ready(c)]
  <2>1. PICK x : x = Ready(c)
    OBVIOUS
  <2>2. PICK e : e = <<>>
    OBVIOUS
  <2>3. CallOK(x, subs, acct.revision, clock)
    BY <1>1, <2>1, <2>2, ReadyIsFine
  <2> QED
    BY <1>1, <1>3, <2>1, <2>3, QuietStep
<1> QED
  BY <1>2, <1>3 DEF DecideCancel

LEMMA DecideIssueStep ==
  ASSUME Inv, NEW c \in Calls \cup Jobs, DecideIssue(c)
  PROVE  Inv'
<1>1. clock' = clock /\ subs' = subs /\ acct' = acct
        /\ call[c].pc = "loaded" /\ call[c].op = "issue"
  BY DEF DecideIssue, rows, At
<1>2. PICK new : call' = [call EXCEPT ![c] = [Ready(c) EXCEPT !.new = new]]
  BY DEF DecideIssue
<1>3. PICK x : x = [Ready(c) EXCEPT !.new = new]
  OBVIOUS
<1>4. CallOK(x, subs, acct.revision, clock)
  BY <1>1, <1>3, ReadyIsFine
<1> QED
  BY <1>1, <1>2, <1>3, <1>4, QuietStep

LEMMA DecideRevokeStep ==
  ASSUME Inv, NEW c \in Calls \cup Jobs, DecideRevoke(c)
  PROVE  Inv'
<1>1. clock' = clock /\ subs' = subs /\ acct' = acct
        /\ call[c].pc = "loaded" /\ call[c].op = "revoke"
  BY DEF DecideRevoke, rows, At
<1>2. CASE Finish(c)
  BY <1>1, <1>2, QuietEnd
<1>3. CASE call' = [call EXCEPT ![c] = Ready(c)]
  <2>1. PICK x : x = Ready(c)
    OBVIOUS
  <2>2. PICK e : e = <<>>
    OBVIOUS
  <2>3. CallOK(x, subs, acct.revision, clock)
    BY <1>1, <2>1, <2>2, ReadyIsFine
  <2> QED
    BY <1>1, <1>3, <2>1, <2>3, QuietStep
<1> QED
  BY <1>2, <1>3 DEF DecideRevoke

\* A write ends its call and makes every other copy an old one.
LEMMA BumpStep ==
  ASSUME Inv, NEW c \in Calls \cup Jobs, Finish(c), Bump,
         clock' = clock, History(subs', clock)
  PROVE  Inv'
<1>1. acct' = [acct EXCEPT !.revision = @ + 1]
  BY DEF Bump
<1>2. AcctOK' /\ acct'.revision = acct.revision + 1 /\ acct'.revision \in Nat
  BY <1>1 DEF Inv, AcctOK
<1>3. PICK x \in {Waiting, Done} : call' = [call EXCEPT ![c] = x]
  BY Finishes
<1>4. clock \in Nat
  BY DEF Inv
<1>5. PICK q : q = subs'
  OBVIOUS
<1>6. CallOK(x, q, acct'.revision, clock)
  BY <1>2, <1>4, WaitingIsFine
<1>7. clock' \in Nat /\ clock <= clock' /\ History(subs', clock')
  BY <1>4
<1>8. CallOK(x, subs', acct'.revision, clock')
  BY <1>5, <1>6
<1> QED
  BY <1>2, <1>3, <1>7, <1>8, OneCallSteps

LEMMA SaveStep ==
  ASSUME Inv, NEW c \in Calls \cup Jobs, Save(c)
  PROVE  Inv'
<1>1. clock' = clock /\ Finish(c)
  BY DEF Save
<1>2. CASE Claimed(c)
  <2>1. call[c].revision = acct.revision /\ call[c].pc = "save"
          /\ call[c].op \in Cmds \cup {"refresh"}
    BY <1>2 DEF Claimed, Save, Cmds
  <2>2. /\ subs' = Closed(subs, call[c].open, call[c].now) \o call[c].new
        /\ Bump
    BY <1>2 DEF Save, Closed
  <2>3. CallOK(call[c], subs, acct.revision, clock) /\ clock \in Nat
          /\ History(subs, clock)
    BY DEF Inv
  <2>4. PICK x, q : x = call[c] /\ q = subs
    OBVIOUS
  <2>5. History(Closed(q, x.open, x.now) \o x.new, clock)
    BY <2>1, <2>3, <2>4, SavingACurrentCopy
  <2>6. History(subs', clock)
    BY <2>2, <2>4, <2>5
  <2> QED
    BY <1>1, <2>2, <2>6, BumpStep
<1>3. CASE ~Claimed(c)
  <2>1. acct' = acct /\ subs' = subs
    BY <1>3 DEF Save, rows
  <2> QED
    BY <1>1, <2>1, QuietEnd
<1> QED
  BY <1>2, <1>3

LEMMA GrantSteps ==
  ASSUME Inv, NEW c \in Calls \cup Jobs, InsertGrant(c) \/ SaveRevocation(c)
  PROVE  Inv'
<1>1. clock' = clock /\ subs' = subs /\ Finish(c) /\ History(subs, clock)
  BY DEF InsertGrant, SaveRevocation, rows, Inv
<1>2. CASE Bump
  BY <1>1, <1>2, BumpStep
<1>3. CASE UNCHANGED rows
  BY <1>1, <1>3, QuietEnd DEF rows
<1> QED
  BY <1>2, <1>3 DEF InsertGrant, SaveRevocation

-----------------------------------------------------------------------------
(***************************************************************************)
(* The jobs, the clock, and calls that are cut off.                        *)
(***************************************************************************)

LEMMA JobStarts ==
  ASSUME Inv, NEW j \in Calls \cup Jobs, RefreshDue(j) \/ PublishDue(j)
  PROVE  Inv'
<1>1. clock' = clock /\ subs' = subs /\ acct' = acct
  BY DEF RefreshDue, PublishDue, rows
<1>2. PICK op \in {"refresh", "publish"} :
        call' = [call EXCEPT ![j] = [Waiting EXCEPT !.pc = "ready", !.op = op,
                                                    !.now = clock]]
  BY DEF RefreshDue, PublishDue
<1>3. PICK x : x = [Waiting EXCEPT !.pc = "ready", !.op = op, !.now = clock]
  OBVIOUS
<1>4. clock \in Nat /\ acct.revision \in Nat
  BY DEF Inv, AcctOK
<1>5. x = [pc |-> "ready", op |-> op, revision |-> 0, now |-> clock,
           open |-> {}, new |-> <<>>, grant |-> 0]
  BY <1>3 DEF Waiting
<1>6. CallOK(x, subs, acct.revision, clock)
  BY <1>4, <1>5 DEF CallOK, CallRecord, KnowsRows, Cmds
<1> QED
  BY <1>1, <1>2, <1>3, <1>6, QuietStep

LEMMA RefreshLoadStep ==
  ASSUME Inv, NEW j \in Calls \cup Jobs, RefreshLoad(j)
  PROVE  Inv'
<1>1. clock' = clock /\ subs' = subs /\ acct' = acct
  BY DEF RefreshLoad, rows
<1>2. PICK now : now = call[j].now
  OBVIOUS
<1>3. PICK lapsed : lapsed = {i \in OpenRows : ~isCurrent(subs[i], now)}
  OBVIOUS
<1>4. PICK x : x = [Loaded("refresh") EXCEPT !.pc = "save", !.now = now, !.open = lapsed]
  OBVIOUS
<1>5. call' = [call EXCEPT ![j] = x]
  BY <1>2, <1>3, <1>4 DEF RefreshLoad
<1>6. PICK y : y = Loaded("refresh")
  OBVIOUS
<1>7. y = [pc |-> "loaded", op |-> "refresh", revision |-> acct.revision,
           now |-> 0, open |-> OpenRows, new |-> <<>>, grant |-> 0]
  BY <1>6 DEF Loaded, Waiting
<1>8. acct.revision \in Nat /\ clock \in Nat /\ now \in Nat /\ now <= clock
  BY <1>2 DEF Inv, AcctOK, CallOK, CallRecord
<1>9. OpenRows = OpenIn(subs) /\ OpenRows \in SUBSET Nat
  BY OpenInIsNats DEF Inv, OpenIn, OpenRows
<1>10. lapsed \in SUBSET Nat
         /\ \A i \in lapsed : i \in OpenIn(subs) /\ RanOut(subs[i], now)
  BY <1>3, <1>9 DEF OpenIn, isCurrent
<1>11. y \in CallRecord(<<>>, 0) /\ y.new = <<>> /\ y.grant = 0
         /\ y.op = "refresh" /\ y.revision = acct.revision
  BY <1>7, <1>8, <1>9 DEF CallRecord
<1>12. /\ x \in CallRecord(<<>>, 0) /\ x.new = <<>> /\ x.grant = 0
       /\ x.op = "refresh" /\ x.revision = acct.revision
       /\ x.pc = "save" /\ x.now = now /\ x.open = lapsed
  BY <1>4, <1>6, <1>8, <1>10, <1>11 DEF CallRecord
<1>13. KnowsRows(x, subs)
  BY <1>10, <1>12 DEF KnowsRows, Cmds
<1>14. CallOK(x, subs, acct.revision, clock)
  BY <1>8, <1>12, <1>13 DEF CallOK
<1> QED
  BY <1>1, <1>5, <1>14, QuietStep

LEMMA PublishLoadStep ==
  ASSUME Inv, NEW j \in Calls \cup Jobs, PublishLoad(j)
  PROVE  Inv'
<1>1. clock' = clock /\ subs' = subs /\ acct' = acct
        /\ call[j].op = "publish" /\ call[j].pc = "ready"
  BY DEF PublishLoad, rows, At
<1>2. PICK new : call' = [call EXCEPT ![j] = [call[j] EXCEPT !.pc = "save", !.new = new]]
  BY DEF PublishLoad
<1>3. PICK x : x = [call[j] EXCEPT !.pc = "save", !.new = new]
  OBVIOUS
<1>4. call[j] \in CallRecord(call[j].new, call[j].grant)
        /\ call[j].now <= clock /\ call[j].revision <= acct.revision
  BY DEF Inv, CallOK
<1>5. /\ x \in CallRecord(new, call[j].grant) /\ x.new = new
      /\ x.grant = call[j].grant /\ x.op = "publish"
      /\ x.now = call[j].now /\ x.revision = call[j].revision
  BY <1>1, <1>3, <1>4 DEF CallRecord
<1>6. CallOK(x, subs, acct.revision, clock)
  BY <1>4, <1>5 DEF CallOK, KnowsRows, Cmds
<1> QED
  BY <1>1, <1>2, <1>3, <1>6, QuietStep

LEMMA PublishStep ==
  ASSUME Inv, NEW j \in Calls \cup Jobs, Publish(j)
  PROVE  Inv'
<1>1. clock' = clock /\ subs' = subs /\ Finish(j)
  BY DEF Publish
<1>2. \/ acct' = acct
      \/ \E v, t : acct' = [acct EXCEPT !.published = v, !.nextRefresh = t]
  BY DEF Publish
<1>3. AcctOK' /\ acct'.revision = acct.revision
  BY <1>2 DEF Inv, AcctOK
<1>4. PICK x \in {Waiting, Done} : call' = [call EXCEPT ![j] = x]
  BY <1>1, Finishes
<1>5. CallOK(x, subs, acct.revision, clock)
  BY WaitingIsFine DEF Inv, AcctOK
<1>6. clock' \in Nat /\ clock <= clock' /\ History(subs', clock')
  BY <1>1 DEF Inv
<1> QED
  BY <1>1, <1>3, <1>4, <1>5, <1>6, OneCallSteps

LEMMA TickStep ==
  ASSUME Inv, Tick
  PROVE  Inv'
<1>1. clock \in Nat /\ clock' = clock + 1 /\ subs' = subs /\ acct' = acct /\ call' = call
  BY DEF Tick, Inv
<1>2. History(subs', clock')
  <2>1. \A i \in 1 .. Len(subs) : subs[i].start \in Nat /\ subs[i].ended \in Nat
    <3>1. subs \in Seq(SubscriptionRow)
      BY DEF Inv, History
    <3>2. \A i \in 1 .. Len(subs) : subs[i] \in SubscriptionRow
      BY <3>1
    <3> QED
      BY <3>2 DEF SubscriptionRow
  <2>2. History(subs, clock)
    BY DEF Inv
  <2>3. PICK t : t = clock + 1
    OBVIOUS
  <2>4. History(subs, t)
    BY <1>1, <2>1, <2>2, <2>3 DEF History
  <2> QED
    BY <1>1, <2>3, <2>4
<1>3. ASSUME NEW d \in Calls \cup Jobs
      PROVE  CallOK(call'[d], subs', acct'.revision, clock')
  <2>1. CallOK(call[d], subs, acct.revision, clock) /\ acct.revision \in Nat
    BY DEF Inv, AcctOK
  <2>2. PICK t : t = clock'
    OBVIOUS
  <2>3. t \in Nat /\ clock <= t
    BY <1>1, <2>2
  <2>4. CallOK(call[d], subs, acct.revision, t)
    BY <1>1, <2>1, <2>3, CallOKLater
  <2>5. call'[d] = call[d] /\ subs' = subs /\ acct'.revision = acct.revision
    BY <1>1
  <2> QED
    BY <2>2, <2>4, <2>5
<1> QED
  BY <1>1, <1>2, <1>3 DEF Inv, AcctOK

LEMMA CutOffStep ==
  ASSUME Inv, NEW c \in Calls \cup Jobs, CutOff(c)
  PROVE  Inv'
BY QuietEnd DEF CutOff

-----------------------------------------------------------------------------
(***************************************************************************)
(* The history.                                                            *)
(***************************************************************************)

LEMMA InitialInv ==
  ASSUME Init
  PROVE  Inv
<1>1. AcctOK /\ acct.revision = 0 /\ clock = 0 /\ subs = <<>>
  BY DEF Init, AcctOK
<1>2. History(subs, clock)
  BY <1>1 DEF History
<1>3. CallOK(Waiting, subs, acct.revision, clock)
  BY <1>1, WaitingIsFine
<1>4. call = [c \in Calls \cup Jobs |-> Waiting]
  BY DEF Init
<1>5. \A c \in Calls \cup Jobs : call[c] = Waiting
  BY <1>4
<1> QED
  BY <1>1, <1>2, <1>3, <1>4, <1>5 DEF Inv

LEMMA NextKeepsInv ==
  ASSUME Inv, [Next]_vars
  PROVE  Inv'
<1>1. CASE UNCHANGED vars
  BY <1>1 DEF Inv, AcctOK, vars
<1>2. CASE Tick
  BY <1>2, TickStep
<1>3. CASE \E c \in Calls : Command(c)
  BY <1>3, LoadEnsuredStep, LoadFoundStep, DecideAssignStep, DecideCancelStep,
     DecideIssueStep, DecideRevokeStep, SaveStep, GrantSteps DEF Command
<1>4. CASE \E j \in Jobs : JobStep(j)
  BY <1>4, JobStarts, RefreshLoadStep, PublishLoadStep, SaveStep, PublishStep DEF JobStep
<1>5. CASE \E c \in Calls \cup Jobs : CutOff(c)
  BY <1>5, CutOffStep
<1> QED
  BY <1>1, <1>2, <1>3, <1>4, <1>5 DEF Next

\* The inductive invariant: a copy that still has the account's revision is the
\* account's rows, and the rows are a history.
THEOREM CurrentCopiesAreTrue == Spec => []Inv
<1>1. Init => Inv
  BY InitialInv
<1>2. Inv /\ [Next]_vars => Inv'
  BY NextKeepsInv
<1> QED
  BY <1>1, <1>2, PTL DEF Spec

\* The rows of an account are one timeline, whichever commands and jobs
\* interleave (assignPlan, expireLapsed, save).
THEOREM RowsAreATimeline == Spec => []HistoryIsATimeline
<1>1. Inv => HistoryIsATimeline
  BY DEF Inv, History, HistoryIsATimeline
<1> QED
  BY <1>1, CurrentCopiesAreTrue, PTL

\* An account never has two open subscriptions (assignPlan, save).
THEOREM NeverTwoOpen == Spec => []OneOpenSubscription
<1>1. ASSUME Inv PROVE OneOpenSubscription
  <2>1. \A i, j \in OpenRows : i = j
    <3>1. \A i, j \in 1 .. Len(subs) : i < j => ~isOpen(subs[i])
      BY <1>1 DEF Inv, History
    <3>2. Len(subs) \in Nat
      BY <1>1 DEF Inv, History
    <3> QED
      BY <3>1, <3>2 DEF OpenRows
  <2>2. CASE OpenRows = {}
    BY <2>2, FS_EmptySet DEF OneOpenSubscription
  <2>3. CASE OpenRows # {}
    <3>1. PICK i : OpenRows = {i}
      BY <2>1, <2>3
    <3> QED
      BY <3>1, FS_Singleton DEF OneOpenSubscription
  <2> QED
    BY <2>2, <2>3
<1> QED
  BY <1>1, CurrentCopiesAreTrue, PTL

-----------------------------------------------------------------------------
(***************************************************************************)
(* Until when entitlements hold.                                           *)
(***************************************************************************)

\* The subscriptions rows r have in service at t, and the grants that are not
\* over by then.
CurrentAt(r, t) ==
  {r.subs[i] : i \in {j \in 1 .. Len(r.subs) : isCurrent(r.subs[j], t)}}
LiveAt(r, t) ==
  {r.grants[i] : i \in {j \in 1 .. Len(r.grants) :
                          ~r.grants[j].revoked /\ r.grants[j].end > t}}

\* The moments of which nextChange takes the first.
Changes(r, t) ==
  {creditPeriodEnd(CurrentAt(r, t), t)}
  \cup {x \in {s.end : s \in CurrentAt(r, t)}
                \cup UNION {{g.start, g.end} : g \in LiveAt(r, t)} : x > t}

Until(r, t) == Least(Changes(r, t))

\* Rows of an account, at whatever revision.
RowsTyped(r) == r.subs \in Seq(SubscriptionRow) /\ r.grants \in Seq(GrantRow)

LEMMA LeastOfNats ==
  ASSUME NEW S \in SUBSET Nat, S # {}
  PROVE  Least(S) \in S /\ \A y \in S : Least(S) <= y
<1> DEFINE Less == OpToRel(<, Nat)
<1>1. IsWellFoundedOn(Less, Nat)
  BY NatLessThanWellFounded
<1> HIDE DEF Less
<1>2. PICK x \in S : \A y \in S : ~(<<y, x>> \in Less)
  BY <1>1, WFMin
<1>3. \A y \in S : x <= y
  <2> TAKE y \in S
  <2>1. y < x => <<y, x>> \in Less
    BY DEF Less, OpToRel
  <2> QED BY <2>1, <1>2
<1> QED BY <1>3 DEF Least

\* The multiple of m after a is that after every b before it.
LEMMA NextMultiple ==
  ASSUME NEW m \in Nat \ {0}, NEW a \in Nat
  PROVE  /\ a \div m \in Nat
         /\ m * ((a \div m) + 1) \in Nat /\ a < m * ((a \div m) + 1)
         /\ \A b \in Nat : a <= b /\ b < m * ((a \div m) + 1) => b \div m = a \div m
<1>1. \A c \in Nat : c \div m \in Nat /\ m * (c \div m) <= c /\ c < m * ((c \div m) + 1)
  OBVIOUS
<1>2. \A k, j \in Nat : m * k < m * (j + 1) /\ m * j < m * (k + 1) => k = j
  BY SMT
<1>3. \A k \in Nat : m * k \in Nat
  OBVIOUS
<1>4. ASSUME NEW b \in Nat, a <= b, b < m * ((a \div m) + 1) PROVE b \div m = a \div m
  <2>1. PICK j, k \in Nat : j = a \div m /\ k = b \div m
    BY <1>1
  <2>2. /\ m * j <= a /\ m * k <= b /\ b < m * (k + 1) /\ b < m * (j + 1)
        /\ m * j \in Nat /\ m * k \in Nat /\ m * (k + 1) \in Nat /\ m * (j + 1) \in Nat
    BY <1>1, <1>3, <1>4, <2>1
  <2>3. m * k < m * (j + 1) /\ m * j < m * (k + 1)
    BY <1>4, <2>2
  <2> QED BY <1>2, <2>1, <2>3
<1>5. PICK j \in Nat : j = a \div m
  BY <1>1
<1>6. m * (j + 1) \in Nat
  BY <1>3
<1> QED BY <1>1, <1>4, <1>5, <1>6

\* A credit period ends after the moment it is asked for, and is the same for
\* every later moment before its end.
LEMMA CreditPeriods ==
  ASSUME NEW current \in SUBSET SubscriptionRow, NEW t \in Nat,
         \A s \in current : s.end = Never \/ s.end > t
  PROVE  /\ creditPeriodEnd(current, t) \in Nat
         /\ creditPeriodEnd(current, t) > t
         /\ \A w \in Nat : t <= w /\ w < creditPeriodEnd(current, t) =>
              creditPeriodEnd(current, w) = creditPeriodEnd(current, t)
<1>1. CASE current = {}
  <2>1. \A w : creditPeriodEnd(current, w) = Month * ((w \div Month) + 1)
    BY <1>1 DEF creditPeriodEnd
  <2> QED BY <2>1, NextMultiple, AccountAssumption
<1>2. CASE current # {}
  <2>1. PICK s \in current : s = CHOOSE x \in current : TRUE
    BY <1>2
  <2> DEFINE k(w) == IF w < s.start THEN 0 ELSE (w - s.start) \div Month
             cycle(w) == s.start + Month * (k(w) + 1)
             end(w) == IF s.end # Never /\ s.end < cycle(w) THEN s.end ELSE cycle(w)
  <2>2. \A w : creditPeriodEnd(current, w) = end(w)
    BY <1>2, <2>1 DEF creditPeriodEnd
  <2>3. /\ s.start \in Nat /\ s.end \in Nat /\ Month \in Nat \ {0}
        /\ s.end = Never \/ s.end > t
    BY AccountAssumption DEF SubscriptionRow
  <2>4. cycle(t) \in Nat /\ cycle(t) > t
    <3>1. CASE t < s.start
      <4>1. k(t) = 0 /\ Month * (0 + 1) = Month
        BY <2>3, <3>1
      <4>2. cycle(t) = s.start + Month
        BY <4>1
      <4> QED BY <2>3, <3>1, <4>2
    <3>2. CASE s.start <= t
      <4>1. PICK a \in Nat : a = t - s.start
        BY <2>3, <3>2
      <4>2. k(t) = a \div Month
        BY <2>3, <3>2, <4>1
      <4>3. PICK m : m = Month * ((a \div Month) + 1)
        OBVIOUS
      <4>4. m \in Nat /\ a < m
        BY <2>3, <4>3, NextMultiple
      <4>5. cycle(t) = s.start + m
        BY <4>2, <4>3
      <4> QED BY <2>3, <4>1, <4>4, <4>5
    <3> QED BY <2>3, <3>1, <3>2
  <2>5. ASSUME NEW w \in Nat, t <= w, w < cycle(t) PROVE k(w) = k(t)
    <3>1. CASE s.start <= t
      <4>1. PICK a, b \in Nat : a = t - s.start /\ b = w - s.start
        BY <2>3, <2>5, <3>1
      <4>2. k(t) = a \div Month /\ k(w) = b \div Month
        BY <2>3, <2>5, <3>1, <4>1
      <4>3. PICK m : m = Month * ((a \div Month) + 1)
        OBVIOUS
      <4>4. m \in Nat /\ cycle(t) = s.start + m
        BY <2>3, <4>2, <4>3, NextMultiple
      <4>5. a <= b /\ b < m
        BY <2>3, <2>5, <4>1, <4>4
      <4> QED BY <2>3, <4>2, <4>3, <4>5, NextMultiple
    <3>2. CASE t < s.start
      <4>1. k(t) = 0 /\ Month * (0 + 1) = Month
        BY <2>3, <3>2
      <4>2. cycle(t) = s.start + Month
        BY <4>1
      <4>3. CASE w < s.start
        BY <4>1, <4>3
      <4>4. CASE s.start <= w
        <5>1. PICK b \in Nat : b = w - s.start
          BY <2>3, <4>4
        <5>2. k(w) = b \div Month /\ b < Month
          BY <2>3, <2>5, <4>2, <4>4, <5>1
        <5>3. 0 \div Month = 0 /\ Month * (0 + 1) = Month
          BY <2>3
        <5>4. \A z \in Nat : 0 <= z /\ z < Month => z \div Month = 0
          BY <2>3, <5>3, NextMultiple
        <5> QED BY <4>1, <5>2, <5>4
      <4> QED BY <2>3, <4>3, <4>4
    <3> QED BY <2>3, <3>1, <3>2
  <2> HIDE DEF k
  <2>6. end(t) \in Nat /\ end(t) > t /\ end(t) <= cycle(t)
    <3>1. PICK x \in Nat : x = cycle(t)
      BY <2>4
    <3>2. x > t
      BY <2>4, <3>1
    <3>3. end(t) = IF s.end # Never /\ s.end < x THEN s.end ELSE x
      BY <3>1
    <3> HIDE DEF end, cycle
    <3> QED BY <2>3, <3>1, <3>2, <3>3
  <2>7. ASSUME NEW w \in Nat, t <= w, w < end(t) PROVE end(w) = end(t)
    <3>1. w < cycle(t)
      <4> HIDE DEF end, cycle
      <4> QED BY <2>4, <2>6, <2>7
    <3>2. k(w) = k(t)
      BY <2>5, <2>7, <3>1
    <3> QED BY <3>2
  <2> HIDE DEF end
  <2> QED BY <2>2, <2>6, <2>7
<1> QED BY <1>1, <1>2

\* What nextChange takes the least of.
LEMMA ChangesAre ==
  ASSUME NEW r, RowsTyped(r), NEW t \in Nat
  PROVE  /\ CurrentAt(r, t) \in SUBSET SubscriptionRow
         /\ LiveAt(r, t) \in SUBSET GrantRow
         /\ \A s \in CurrentAt(r, t) : s.end = Never \/ s.end > t
         /\ Changes(r, t) \in SUBSET Nat /\ Changes(r, t) # {}
         /\ \A x \in Changes(r, t) : x > t
<1>1. CurrentAt(r, t) \in SUBSET SubscriptionRow
  BY DEF CurrentAt, RowsTyped
<1>2. LiveAt(r, t) \in SUBSET GrantRow
  BY DEF LiveAt, RowsTyped
<1>3. \A s \in CurrentAt(r, t) : s.end = Never \/ s.end > t
  <2>1. \A i \in 1 .. Len(r.subs) : r.subs[i] \in SubscriptionRow
    BY DEF RowsTyped
  <2>2. \A i \in 1 .. Len(r.subs) : isCurrent(r.subs[i], t) =>
          r.subs[i].end = Never \/ r.subs[i].end > t
    BY <2>1 DEF isCurrent, RanOut, SubscriptionRow
  <2> QED BY <2>2 DEF CurrentAt
<1>4. /\ creditPeriodEnd(CurrentAt(r, t), t) \in Nat
      /\ creditPeriodEnd(CurrentAt(r, t), t) > t
  BY <1>1, <1>3, CreditPeriods
<1>5. /\ {s.end : s \in CurrentAt(r, t)} \in SUBSET Nat
      /\ UNION {{g.start, g.end} : g \in LiveAt(r, t)} \in SUBSET Nat
  BY <1>1, <1>2 DEF SubscriptionRow, GrantRow
<1> QED BY <1>1, <1>2, <1>3, <1>4, <1>5 DEF Changes

\* The entitlements of rows stay as they are until the moment announced.
LEMMA UntilHolds ==
  ASSUME NEW r, RowsTyped(r), NEW t \in Nat
  PROVE  /\ Until(r, t) \in Nat /\ Until(r, t) > t
         /\ \A w \in Nat : t <= w /\ w < Until(r, t) => Until(r, w) = Until(r, t)
<1>1. /\ Until(r, t) \in Changes(r, t)
      /\ \A x \in Changes(r, t) : Until(r, t) <= x
  BY ChangesAre, LeastOfNats DEF Until
<1>2. Until(r, t) \in Nat /\ Until(r, t) > t
  BY <1>1, ChangesAre
<1>3. ASSUME NEW w \in Nat, t <= w, w < Until(r, t)
      PROVE  Changes(r, w) = Changes(r, t)
  <2>1. \A x \in Changes(r, t) : x \in Nat /\ w < x
    BY <1>1, <1>2, <1>3, ChangesAre
  <2>2. ASSUME NEW i \in 1 .. Len(r.subs)
        PROVE  isCurrent(r.subs[i], w) <=> isCurrent(r.subs[i], t)
    <3>1. r.subs[i].end \in Nat
      <4>1. r.subs[i] \in SubscriptionRow
        BY DEF RowsTyped
      <4> QED BY <4>1 DEF SubscriptionRow
    <3>2. ASSUME isCurrent(r.subs[i], t), r.subs[i].end # Never PROVE w < r.subs[i].end
      <4>1. r.subs[i] \in CurrentAt(r, t)
        BY <3>2 DEF CurrentAt
      <4>2. r.subs[i].end > t
        BY <3>1, <3>2 DEF isCurrent, RanOut
      <4>3. r.subs[i].end \in Changes(r, t)
        BY <4>1, <4>2 DEF Changes
      <4> QED BY <2>1, <4>3
    <3> QED BY <1>3, <3>1, <3>2 DEF isCurrent, RanOut
  <2>3. CurrentAt(r, w) = CurrentAt(r, t)
    BY <2>2 DEF CurrentAt
  <2>4. ASSUME NEW i \in 1 .. Len(r.grants), ~r.grants[i].revoked
        PROVE  r.grants[i].end > w <=> r.grants[i].end > t
    <3>1. r.grants[i] \in GrantRow
      BY DEF RowsTyped
    <3>2. r.grants[i].end \in Nat
      BY <3>1 DEF GrantRow
    <3>3. ASSUME r.grants[i].end > t PROVE r.grants[i].end > w
      <4>1. r.grants[i] \in LiveAt(r, t)
        BY <2>4, <3>3 DEF LiveAt
      <4>2. r.grants[i].end \in Changes(r, t)
        BY <3>3, <4>1 DEF Changes
      <4> QED BY <2>1, <3>2, <4>2
    <3> QED BY <1>3, <3>2, <3>3
  <2>5. LiveAt(r, w) = LiveAt(r, t)
    BY <2>4 DEF LiveAt
  <2>6. creditPeriodEnd(CurrentAt(r, t), w) = creditPeriodEnd(CurrentAt(r, t), t)
    <3>1. creditPeriodEnd(CurrentAt(r, t), t) \in Changes(r, t)
      BY DEF Changes
    <3>2. w < creditPeriodEnd(CurrentAt(r, t), t)
      BY <2>1, <3>1
    <3> QED BY <1>3, <3>2, ChangesAre, CreditPeriods
  <2> DEFINE E == {s.end : s \in CurrentAt(r, t)}
                    \cup UNION {{g.start, g.end} : g \in LiveAt(r, t)}
  <2>7. E \in SUBSET Nat
    BY ChangesAre DEF SubscriptionRow, GrantRow
  <2>8. \A x \in E : x > w <=> x > t
    <3>1. \A x \in E : x > t => x \in Changes(r, t)
      BY DEF Changes
    <3> HIDE DEF E
    <3> QED BY <1>3, <2>1, <2>7, <3>1
  <2>9. Changes(r, t) = {creditPeriodEnd(CurrentAt(r, t), t)} \cup {x \in E : x > t}
    BY DEF Changes
  <2>10. Changes(r, w) = {creditPeriodEnd(CurrentAt(r, t), t)} \cup {x \in E : x > w}
    BY <2>3, <2>5, <2>6 DEF Changes
  <2> HIDE DEF E
  <2> QED BY <2>8, <2>9, <2>10
<1> QED BY <1>2, <1>3 DEF Until

\* The snapshots a service announces.
SnapshotRow == [version : Nat, asOf : Nat, plan : SUBSET SubscriptionRow,
                granted : SUBSET Nat, validUntil : Nat]

\* What is announced of rows, and that nothing else of them matters.
LEMMA Resolved ==
  ASSUME NEW r, RowsTyped(r), NEW v \in Nat, NEW t \in Nat
  PROVE  /\ resolveEntitlements(r, v, t) \in SnapshotRow
         /\ resolveEntitlements(r, v, t).version = v
         /\ resolveEntitlements(r, v, t).validUntil = Until(r, t)
         /\ resolveEntitlements(r, v, t)
              = resolveEntitlements([subs |-> r.subs, grants |-> r.grants], v, t)
<1> DEFINE live == {i \in 1 .. Len(r.grants) : grantActive(r.grants[i], t)}
<1>1. nextChange(r, CurrentAt(r, t), t) = Until(r, t)
  BY DEF nextChange, Until, Changes, LiveAt
<1>2. resolveEntitlements(r, v, t)
        = [version |-> v, asOf |-> t, plan |-> CurrentAt(r, t), granted |-> live,
           validUntil |-> nextChange(r, CurrentAt(r, t), t)]
  BY DEF resolveEntitlements, CurrentAt
<1>3. live \in SUBSET Nat
  BY DEF RowsTyped
<1>4. [subs |-> r.subs, grants |-> r.grants].subs = r.subs
      /\ [subs |-> r.subs, grants |-> r.grants].grants = r.grants
  OBVIOUS
<1>5. resolveEntitlements(r, v, t)
        = resolveEntitlements([subs |-> r.subs, grants |-> r.grants], v, t)
  BY <1>4 DEF resolveEntitlements, nextChange
<1> HIDE DEF live
<1>6. CurrentAt(r, t) \in SUBSET SubscriptionRow /\ Until(r, t) \in Nat
  BY ChangesAre, UntilHolds
<1>7. resolveEntitlements(r, v, t) \in SnapshotRow
  BY <1>1, <1>2, <1>3, <1>6 DEF SnapshotRow
<1> QED BY <1>1, <1>2, <1>5, <1>7

\* The source's view of a revision.
LEMMA UntilOfIsAnUntil ==
  ASSUME NEW r, RowsTyped(r)
  PROVE  /\ UntilOf(r) \in Source!Untils
         /\ \A t \in Times : UntilOf(r)[t] = IF Until(r, t) > MaxTime THEN MaxTime + 1
                                             ELSE Until(r, t)
<1> DEFINE U == UntilOf(r)
<1>1. MaxTime \in Nat
  BY AccountAssumption
<1>2. \A t \in Times : t \in Nat
  BY <1>1 DEF Times
<1>3. \A t \in Times : resolveEntitlements(r, 0, t).validUntil = Until(r, t)
  BY <1>2, Resolved
<1>4. U = [t \in Times |-> IF Until(r, t) > MaxTime THEN MaxTime + 1 ELSE Until(r, t)]
  BY <1>3 DEF UntilOf
<1> HIDE DEF U
<1>5. \A t \in Times : U[t] = IF Until(r, t) > MaxTime THEN MaxTime + 1 ELSE Until(r, t)
  BY <1>4
<1>6. \A t \in Times : Until(r, t) \in Nat /\ Until(r, t) > t
  BY <1>2, UntilHolds
<1>7. U \in [Times -> 1 .. MaxTime + 1]
  <2>1. \A t \in Times : U[t] \in 1 .. MaxTime + 1
    BY <1>1, <1>2, <1>5, <1>6 DEF Times
  <2> QED BY <1>4, <2>1
<1>8. \A t \in Times : U[t] > t
  BY <1>1, <1>2, <1>5, <1>6 DEF Times
<1>9. ASSUME NEW t \in Times, NEW w \in Times, t <= w, w < U[t]
      PROVE  U[w] = U[t]
  <2>1. w < Until(r, t)
    BY <1>1, <1>2, <1>5, <1>6, <1>9 DEF Times
  <2>2. Until(r, w) = Until(r, t)
    BY <1>2, <1>9, <2>1, UntilHolds
  <2> QED BY <1>5, <2>2
<1>10. U \in Source!Untils
  BY <1>7, <1>8, <1>9 DEF Source!Untils, Source!Times, Times
<1> QED BY <1>5, <1>10 DEF U

-----------------------------------------------------------------------------
(***************************************************************************)
(* The trail: what was, what was announced of it, and what a publisher is  *)
(* about to announce.                                                      *)
(***************************************************************************)

\* A revision as it was.
Moment == [since : Nat, subs : Seq(SubscriptionRow), grants : Seq(GrantRow)]

\* The call x points at rows that are there, and an issued grant is one.
PointsInside(x, q, g) ==
  /\ x.open \subseteq 1 .. Len(q) /\ x.grant \in 0 .. Len(g)
  /\ x.op = "issue" /\ x.pc = "save" => x.new \in Seq(GrantRow)

\* The snapshot a publisher is about to store is that of a revision, at a time
\* when that revision had not been replaced.
Announces(x, p) ==
  x.op = "publish" /\ x.pc = "save" =>
    \E v \in 0 .. Len(p) - 1 :
      /\ x.new = <<resolveEntitlements(p[v + 1], v, x.now)>>
      /\ \A n \in (v + 2) .. Len(p) : p[n].since >= x.now

TrailInv ==
  /\ clock \in Times /\ faults \in 0 .. MaxFaults
  /\ acct \in [exists : BOOLEAN, revision : Nat, published : Nat \cup {-1},
               nextRefresh : Nat]
  /\ grants \in Seq(GrantRow)
  /\ outbox \in Seq(SnapshotRow)
  /\ acct.published = IF outbox = <<>> THEN -1 ELSE outbox[Len(outbox)].version
  /\ past \in Seq(Moment) /\ Len(past) = acct.revision + 1
  /\ past[Len(past)].subs = subs /\ past[Len(past)].grants = grants
  /\ \A c \in Calls \cup Jobs : /\ PointsInside(call[c], subs, grants)
                                /\ Announces(call[c], past)

\* Rows are added, none is taken away.
LEMMA PointsStay ==
  ASSUME NEW x, NEW q \in Seq(SubscriptionRow), NEW g \in Seq(GrantRow),
         NEW m \in Seq(SubscriptionRow), NEW n \in Seq(GrantRow),
         Len(q) <= Len(m), Len(g) <= Len(n), PointsInside(x, q, g)
  PROVE  PointsInside(x, m, n)
<1>1. 1 .. Len(q) \subseteq 1 .. Len(m) /\ 0 .. Len(g) \subseteq 0 .. Len(n)
  OBVIOUS
<1> QED
  BY <1>1 DEF PointsInside

\* A new revision starts after every time a publisher has taken.
LEMMA AnnouncesStays ==
  ASSUME NEW x, NEW p \in Seq(Moment), NEW e \in Moment,
         x.now <= e.since, Announces(x, p)
  PROVE  Announces(x, Append(p, e))
<1> DEFINE P == Append(p, e)
<1>1. /\ Len(p) \in Nat /\ Len(P) = Len(p) + 1
      /\ \A i \in 1 .. Len(p) : P[i] = p[i]
      /\ P[Len(p) + 1] = e
  OBVIOUS
<1> HIDE DEF P
<1>2. ASSUME x.op = "publish", x.pc = "save"
      PROVE  \E v \in 0 .. Len(P) - 1 :
               /\ x.new = <<resolveEntitlements(P[v + 1], v, x.now)>>
               /\ \A n \in (v + 2) .. Len(P) : P[n].since >= x.now
  <2>1. PICK v \in 0 .. Len(p) - 1 :
               /\ x.new = <<resolveEntitlements(p[v + 1], v, x.now)>>
               /\ \A n \in (v + 2) .. Len(p) : p[n].since >= x.now
    BY <1>2 DEF Announces
  <2>2. P[v + 1] = p[v + 1] /\ v \in 0 .. Len(P) - 1
    BY <1>1
  <2>3. ASSUME NEW n \in (v + 2) .. Len(P) PROVE P[n].since >= x.now
    <3>1. CASE n = Len(p) + 1
      <4>1. e.since \in Nat
        BY DEF Moment
      <4> QED BY <1>1, <3>1
    <3>2. CASE n # Len(p) + 1
      <4>1. n \in (v + 2) .. Len(p) /\ n \in 1 .. Len(p)
        BY <1>1, <3>2
      <4> QED BY <1>1, <2>1, <4>1
    <3> QED
      BY <3>1, <3>2
  <2> QED
    BY <2>1, <2>2, <2>3
<1>3. Announces(x, P)
  BY <1>2 DEF Announces
<1> QED
  BY <1>3 DEF P

\* A step of one call that writes no row and announces nothing.
LEMMA CallTrail ==
  ASSUME Inv, TrailInv, NEW c \in Calls \cup Jobs, NEW x,
         call' = [call EXCEPT ![c] = x],
         PointsInside(x, subs, grants), Announces(x, past),
         UNCHANGED <<clock, subs, grants, outbox, past>>,
         faults' \in 0 .. MaxFaults,
         acct' = acct \/ acct' = [acct EXCEPT !.exists = TRUE]
  PROVE  TrailInv'
<1>1. \A d \in Calls \cup Jobs : call'[d] = IF d = c THEN x ELSE call[d]
  BY DEF Inv
<1>2. ASSUME NEW d \in Calls \cup Jobs
      PROVE  PointsInside(call'[d], subs, grants) /\ Announces(call'[d], past)
  <2>1. CASE d = c
    BY <1>1, <2>1
  <2>2. CASE d # c
    BY <1>1, <2>2 DEF TrailInv
  <2> QED BY <2>1, <2>2
<1>3. /\ acct' \in [exists : BOOLEAN, revision : Nat, published : Nat \cup {-1},
                    nextRefresh : Nat]
      /\ acct'.published = acct.published /\ acct'.revision = acct.revision
  BY DEF TrailInv
<1>4. clock' \in Times /\ grants' \in Seq(GrantRow)
  BY DEF TrailInv
<1>5. /\ outbox' \in Seq(SnapshotRow)
      /\ acct'.published = IF outbox' = <<>> THEN -1 ELSE outbox'[Len(outbox')].version
  BY <1>3 DEF TrailInv
<1>6. /\ past' \in Seq(Moment) /\ Len(past') = acct'.revision + 1
      /\ past'[Len(past')].subs = subs' /\ past'[Len(past')].grants = grants'
  BY <1>3 DEF TrailInv
<1>7. \A d \in Calls \cup Jobs : /\ PointsInside(call'[d], subs', grants')
                                 /\ Announces(call'[d], past')
  BY <1>2
<1> QED
  BY <1>3, <1>4, <1>5, <1>6, <1>7 DEF TrailInv

\* A call that waits, or has only just read, announces nothing and points only
\* at rows it saw.
LEMMA NotSavingIsFine ==
  ASSUME NEW x, NEW p, NEW q, NEW g, x.pc # "save",
         x.open \subseteq 1 .. Len(q), x.grant \in 0 .. Len(g)
  PROVE  PointsInside(x, q, g) /\ Announces(x, p)
BY DEF PointsInside, Announces

LEMMA WaitingTrail ==
  ASSUME NEW x \in {Waiting, Done}, NEW p, NEW q, NEW g \in Seq(GrantRow)
  PROVE  PointsInside(x, q, g) /\ Announces(x, p)
<1>1. /\ Waiting.pc = "idle" /\ Waiting.open = {} /\ Waiting.grant = 0
      /\ Done.pc = "done" /\ Done.open = {} /\ Done.grant = 0
  BY DEF Waiting, Done
<1>2. x.pc # "save" /\ x.open = {} /\ x.grant = 0
  BY <1>1
<1>3. 0 \in 0 .. Len(g)
  OBVIOUS
<1>4. x.open \subseteq 1 .. Len(q)
  BY <1>2
<1> QED
  BY <1>2, <1>3, <1>4, NotSavingIsFine

LEMMA FinishTrail ==
  ASSUME Inv, TrailInv, NEW c \in Calls \cup Jobs, Finish(c),
         UNCHANGED <<clock, subs, grants, outbox, past>>,
         faults' \in 0 .. MaxFaults,
         acct' = acct \/ acct' = [acct EXCEPT !.exists = TRUE]
  PROVE  TrailInv'
<1>1. PICK x \in {Waiting, Done} : call' = [call EXCEPT ![c] = x]
  BY Finishes
<1>2. PointsInside(x, subs, grants) /\ Announces(x, past)
  BY WaitingTrail DEF TrailInv
<1> QED
  BY <1>1, <1>2, CallTrail

\* A write of the rows and its bump.
LEMMA BumpTrail ==
  ASSUME Inv, TrailInv, NEW c \in Calls \cup Jobs, Finish(c), Bump,
         UNCHANGED <<clock, outbox, faults>>,
         subs' \in Seq(SubscriptionRow), Len(subs) <= Len(subs'),
         grants' \in Seq(GrantRow), Len(grants) <= Len(grants')
  PROVE  TrailInv'
<1>1. PICK q, g : q = subs' /\ g = grants'
  OBVIOUS
<1>2. PICK e : e = [since |-> clock, subs |-> q, grants |-> g]
  OBVIOUS
<1>3. e \in Moment /\ e.since = clock /\ e.subs = q /\ e.grants = g
  <2>1. clock \in Nat
    BY DEF Inv
  <2> QED BY <1>1, <1>2, <2>1 DEF Moment
<1>4. past' = Append(past, e) /\ past \in Seq(Moment)
  BY <1>1, <1>2 DEF Bump, TrailInv
<1>5. /\ past' \in Seq(Moment) /\ Len(past') = Len(past) + 1
      /\ past'[Len(past')] = e
  BY <1>3, <1>4
<1>6. /\ acct' \in [exists : BOOLEAN, revision : Nat, published : Nat \cup {-1},
                    nextRefresh : Nat]
      /\ acct'.published = acct.published /\ acct'.revision = acct.revision + 1
  <2>1. acct' = [acct EXCEPT !.revision = acct.revision + 1]
    BY DEF Bump
  <2>2. acct.revision + 1 \in Nat
    BY DEF TrailInv
  <2> QED
    BY <2>1, <2>2 DEF TrailInv
<1>7. PICK x \in {Waiting, Done} : call' = [call EXCEPT ![c] = x]
  BY Finishes
<1>8. ASSUME NEW d \in Calls \cup Jobs
      PROVE  PointsInside(call'[d], q, g) /\ Announces(call'[d], Append(past, e))
  <2>1. call'[d] = IF d = c THEN x ELSE call[d]
    BY <1>7 DEF Inv
  <2>2. CASE d = c
    BY <1>1, <2>1, <2>2, WaitingTrail
  <2>3. CASE d # c
    <3>1. call[d].now <= clock /\ subs \in Seq(SubscriptionRow)
      BY DEF Inv, CallOK, History
    <3>2. PICK y : y = call[d]
      OBVIOUS
    <3>3. PointsInside(y, subs, grants) /\ Announces(y, past)
            /\ y.now <= e.since /\ grants \in Seq(GrantRow)
      BY <1>3, <3>1, <3>2 DEF TrailInv
    <3>4. PointsInside(y, q, g)
      BY <1>1, <3>1, <3>3, PointsStay
    <3>5. Announces(y, Append(past, e))
      BY <1>3, <1>4, <3>3, AnnouncesStays
    <3> QED
      BY <2>1, <2>3, <3>2, <3>4, <3>5
  <2> QED
    BY <2>2, <2>3
<1>9. \A d \in Calls \cup Jobs : /\ PointsInside(call'[d], subs', grants')
                                 /\ Announces(call'[d], past')
  BY <1>1, <1>4, <1>8
<1>10. clock' \in Times /\ faults' \in 0 .. MaxFaults
  BY DEF TrailInv
<1>11. /\ outbox' \in Seq(SnapshotRow)
       /\ acct'.published = IF outbox' = <<>> THEN -1 ELSE outbox'[Len(outbox')].version
  BY <1>6 DEF TrailInv
<1>12. /\ Len(past') = acct'.revision + 1
       /\ past'[Len(past')].subs = subs' /\ past'[Len(past')].grants = grants'
  BY <1>1, <1>3, <1>5, <1>6 DEF TrailInv
<1> QED
  BY <1>5, <1>6, <1>9, <1>10, <1>11, <1>12 DEF TrailInv

-----------------------------------------------------------------------------
(***************************************************************************)
(* Every step keeps the trail.                                             *)
(***************************************************************************)

LEMMA LoadTrail ==
  ASSUME Inv, TrailInv, NEW c \in Calls \cup Jobs, LoadEnsured(c) \/ LoadFound(c)
  PROVE  TrailInv'
<1>1. /\ UNCHANGED <<clock, subs, grants, outbox, past>> /\ faults' \in 0 .. MaxFaults
      /\ acct' = acct \/ acct' = [acct EXCEPT !.exists = TRUE]
  BY DEF LoadEnsured, LoadFound, TrailInv
<1>2. /\ OpenRows \subseteq 1 .. Len(subs) /\ Len(grants) \in Nat
  BY DEF OpenRows, TrailInv
<1>3. ASSUME NEW op
      PROVE  /\ Loaded(op).pc = "loaded" /\ Loaded(op).grant = 0
             /\ Loaded(op).open = {} \/ Loaded(op).open = OpenRows
             /\ \A g : /\ [Loaded(op) EXCEPT !.grant = g].pc = "loaded"
                       /\ [Loaded(op) EXCEPT !.grant = g].grant = g
                       /\ [Loaded(op) EXCEPT !.grant = g].open = Loaded(op).open
  <2>1. CASE op \in {"issue", "revoke"}
    <3>1. Loaded(op) = [pc |-> "loaded", op |-> op, revision |-> 0, now |-> 0,
                        open |-> {}, new |-> <<>>, grant |-> 0]
      BY <2>1 DEF Loaded, Waiting
    <3> QED
      BY <3>1
  <2>2. CASE op \notin {"issue", "revoke"}
    <3>1. Loaded(op) = [pc |-> "loaded", op |-> op, revision |-> acct.revision, now |-> 0,
                        open |-> OpenRows, new |-> <<>>, grant |-> 0]
      BY <2>2 DEF Loaded, Waiting
    <3> QED
      BY <3>1
  <2> QED
    BY <2>1, <2>2
<1>4. CASE Finish(c)
  BY <1>1, <1>4, FinishTrail
<1>5. CASE \E op : call' = [call EXCEPT ![c] = Loaded(op)]
  <2>1. PICK op, x : call' = [call EXCEPT ![c] = x] /\ x = Loaded(op)
    BY <1>5
  <2>2. x.pc = "loaded" /\ x.grant \in 0 .. Len(grants) /\ x.open \subseteq 1 .. Len(subs)
    BY <1>2, <1>3, <2>1
  <2>3. PointsInside(x, subs, grants) /\ Announces(x, past)
    BY <2>2, NotSavingIsFine
  <2> QED
    BY <1>1, <2>1, <2>3, CallTrail
<1>6. CASE \E g \in 1 .. Len(grants) :
             call' = [call EXCEPT ![c] = [Loaded("revoke") EXCEPT !.grant = g]]
  <2>1. PICK x : /\ call' = [call EXCEPT ![c] = x]
                 /\ \E g \in 1 .. Len(grants) : x = [Loaded("revoke") EXCEPT !.grant = g]
    BY <1>6
  <2>2. x.pc = "loaded" /\ x.grant \in 0 .. Len(grants) /\ x.open \subseteq 1 .. Len(subs)
    BY <1>2, <1>3, <2>1
  <2>3. PointsInside(x, subs, grants) /\ Announces(x, past)
    BY <2>2, NotSavingIsFine
  <2> QED
    BY <1>1, <2>1, <2>3, CallTrail
<1> QED
  BY <1>4, <1>5, <1>6 DEF LoadEnsured, LoadFound

\* A decision keeps the rows the call points at.
LEMMA DecideTrail ==
  ASSUME Inv, TrailInv, NEW c \in Calls \cup Jobs,
         DecideAssign(c) \/ DecideCancel(c) \/ DecideIssue(c) \/ DecideRevoke(c)
  PROVE  TrailInv'
<1>1. /\ UNCHANGED <<clock, subs, grants, outbox, past>> /\ faults' \in 0 .. MaxFaults
      /\ acct' = acct
  BY DEF DecideAssign, DecideCancel, DecideIssue, DecideRevoke, rows, TrailInv
<1>2. call[c].op # "publish"
  BY DEF DecideAssign, DecideCancel, DecideIssue, DecideRevoke, At
<1>3. PICK y : y = Ready(c)
  OBVIOUS
<1>4. /\ y.op = call[c].op /\ y.open = call[c].open /\ y.grant = call[c].grant
      /\ \A new : /\ [y EXCEPT !.new = new].op = call[c].op
                  /\ [y EXCEPT !.new = new].open = call[c].open
                  /\ [y EXCEPT !.new = new].grant = call[c].grant
                  /\ [y EXCEPT !.new = new].new = new
  <2>1. call[c] \in CallRecord(call[c].new, call[c].grant)
    BY DEF Inv, CallOK
  <2>2. y = [call[c] EXCEPT !.pc = "save", !.now = clock]
    BY <1>3 DEF Ready
  <2>3. y \in [pc : {"save"}, op : {call[c].op}, revision : {call[c].revision},
               now : {clock}, open : {call[c].open}, new : {call[c].new},
               grant : {call[c].grant}]
    BY <2>1, <2>2 DEF CallRecord
  <2> QED
    BY <2>3
<1>5. ASSUME NEW x, call' = [call EXCEPT ![c] = x], x.op = call[c].op,
             x.open = call[c].open, x.grant = call[c].grant,
             x.op = "issue" => x.new \in Seq(GrantRow)
      PROVE  TrailInv'
  <2>1. PointsInside(call[c], subs, grants)
    BY DEF TrailInv
  <2>2. PointsInside(x, subs, grants) /\ Announces(x, past)
    BY <1>2, <1>5, <2>1 DEF PointsInside, Announces
  <2> QED
    BY <1>1, <1>5, <2>2, CallTrail
<1>6. CASE DecideAssign(c)
  <2>1. PICK new : call' = [call EXCEPT ![c] = [Ready(c) EXCEPT !.new = new]]
    BY <1>6 DEF DecideAssign
  <2>2. PICK x : x = [y EXCEPT !.new = new]
    OBVIOUS
  <2>3. call' = [call EXCEPT ![c] = x] /\ call[c].op # "issue"
    BY <1>3, <1>6, <2>1, <2>2 DEF DecideAssign
  <2> QED
    BY <1>4, <1>5, <2>2, <2>3
<1>7. CASE DecideIssue(c)
  <2>1. PICK start \in clock .. MaxTime : \E end \in (start + 1) .. MaxTime :
          call' = [call EXCEPT ![c] =
                    [Ready(c) EXCEPT !.new = <<[start |-> start, end |-> end,
                                                revoked |-> FALSE]>>]]
    BY <1>7 DEF DecideIssue
  <2>2. PICK end \in (start + 1) .. MaxTime :
          call' = [call EXCEPT ![c] =
                    [Ready(c) EXCEPT !.new = <<[start |-> start, end |-> end,
                                                revoked |-> FALSE]>>]]
    BY <2>1
  <2>3. PICK g : g = [start |-> start, end |-> end, revoked |-> FALSE]
    OBVIOUS
  <2>4. g \in GrantRow
    <3>1. start \in Nat /\ end \in Nat
      BY AccountAssumption DEF Inv
    <3> QED
      BY <2>3, <3>1 DEF GrantRow
  <2>5. PICK x : x = [y EXCEPT !.new = <<g>>]
    OBVIOUS
  <2>6. call' = [call EXCEPT ![c] = x] /\ <<g>> \in Seq(GrantRow)
    BY <1>3, <2>2, <2>3, <2>4, <2>5
  <2> QED
    BY <1>4, <1>5, <2>5, <2>6
<1>8. CASE DecideCancel(c) \/ DecideRevoke(c)
  <2>1. call[c].op # "issue"
    BY <1>8 DEF DecideCancel, DecideRevoke, At
  <2>2. CASE Finish(c)
    BY <1>1, <2>2, FinishTrail
  <2>3. CASE call' = [call EXCEPT ![c] = y]
    BY <1>4, <1>5, <2>1, <2>3
  <2> QED
    BY <1>3, <1>8, <2>2, <2>3 DEF DecideCancel, DecideRevoke
<1> QED
  BY <1>6, <1>7, <1>8

LEMMA SaveTrail ==
  ASSUME Inv, Inv', TrailInv, NEW c \in Calls \cup Jobs, Save(c)
  PROVE  /\ TrailInv'
         /\ (Bump /\ UNCHANGED <<clock, outbox>>) \/ UNCHANGED <<clock, outbox, past>>
<1>1. Finish(c) /\ UNCHANGED <<clock, outbox, faults>>
  BY DEF Save
<1>2. CASE Claimed(c)
  <2>1. /\ subs' = Closed(subs, call[c].open, call[c].now) \o call[c].new
        /\ UNCHANGED grants /\ Bump
    BY <1>2 DEF Save, Closed
  <2>2. subs \in Seq(SubscriptionRow) /\ subs' \in Seq(SubscriptionRow)
    BY DEF Inv, History
  <2>3. PICK m, n : m = Closed(subs, call[c].open, call[c].now) /\ n = call[c].new
    OBVIOUS
  <2>4. CallOK(call[c], subs, acct.revision, clock)
    BY DEF Inv
  <2>5. m \in Seq(SubscriptionRow) /\ Len(m) = Len(subs)
    <3>1. call[c].now \in Nat
      BY <2>4 DEF CallOK, CallRecord
    <3>2. \A i \in 1 .. Len(subs) :
            closeSubscription(subs[i], call[c].now) \in SubscriptionRow
      BY <2>2, <3>1, ClosingARow
    <3>3. m \in [1 .. Len(subs) -> SubscriptionRow]
      BY <2>2, <2>3, <3>2 DEF Closed
    <3> QED
      BY <2>2, <3>3
  <2>6. n \in Seq(SubscriptionRow)
    <3>1. call[c].pc = "save" /\ call[c].op \in {"assign", "open", "cancel", "refresh"}
      BY DEF Save
    <3>2. n = <<>> \/ \E s \in SubscriptionRow : n = <<s>>
      <4>1. CASE call[c].op \in {"cancel", "refresh"}
        BY <2>3, <2>4, <4>1 DEF CallOK
      <4>2. CASE call[c].op \in {"assign", "open"}
        <5>1. n = <<n[1]>> /\ FreshRow(n[1], call[c].now)
          BY <2>3, <2>4, <3>1, <4>2 DEF CallOK
        <5>2. n[1] \in SubscriptionRow
          BY <5>1 DEF FreshRow
        <5> QED
          BY <5>1, <5>2
      <4> QED
        BY <3>1, <4>1, <4>2
    <3>3. CASE n = <<>>
      BY <3>3
    <3>4. CASE \E s \in SubscriptionRow : n = <<s>>
      BY <3>4
    <3> QED
      BY <3>2, <3>3, <3>4
  <2>7. subs' = m \o n
    BY <2>1, <2>3
  <2>9. Len(subs) <= Len(subs')
    BY <2>2, <2>5, <2>6, <2>7
  <2>10. grants' \in Seq(GrantRow) /\ Len(grants) <= Len(grants')
    BY <2>1 DEF TrailInv
  <2> QED
    BY <1>1, <2>1, <2>2, <2>9, <2>10, BumpTrail
<1>3. CASE ~Claimed(c)
  <2>1. UNCHANGED <<acct, subs, grants, past>> /\ faults' \in 0 .. MaxFaults
    BY <1>1, <1>3 DEF Save, rows, TrailInv
  <2> QED
    BY <1>1, <2>1, FinishTrail
<1> QED
  BY <1>2, <1>3

LEMMA GrantTrail ==
  ASSUME Inv, TrailInv, NEW c \in Calls \cup Jobs, InsertGrant(c) \/ SaveRevocation(c)
  PROVE  /\ TrailInv'
         /\ (Bump /\ UNCHANGED <<clock, outbox>>) \/ UNCHANGED <<clock, outbox, past>>
<1>1. /\ Finish(c) /\ UNCHANGED <<clock, outbox, faults, subs>>
      /\ subs \in Seq(SubscriptionRow) /\ Len(subs) <= Len(subs)
      /\ grants \in Seq(GrantRow)
  BY DEF InsertGrant, SaveRevocation, rows, Inv, History, TrailInv
<1>2. CASE InsertGrant(c)
  <2>1. grants' = grants \o call[c].new /\ Bump
    BY <1>2 DEF InsertGrant
  <2>2. call[c].new \in Seq(GrantRow)
    BY <1>2 DEF InsertGrant, At, TrailInv, PointsInside
  <2>3. grants' \in Seq(GrantRow) /\ Len(grants') = Len(grants) + Len(call[c].new)
    BY <1>1, <2>1, <2>2
  <2>4. Len(grants) <= Len(grants')
    BY <1>1, <2>2, <2>3
  <2>5. subs' \in Seq(SubscriptionRow) /\ Len(subs) <= Len(subs')
    BY <1>1
  <2> QED
    BY <1>1, <2>1, <2>3, <2>4, <2>5, BumpTrail
<1>3. CASE SaveRevocation(c) /\ ~grants[call[c].grant].revoked
  <2>1. Bump /\ \E i : grants' = [grants EXCEPT ![i] = [grants[i] EXCEPT !.revoked = TRUE]]
    BY <1>3 DEF SaveRevocation
  <2> PICK i : grants' = [grants EXCEPT ![i] = [grants[i] EXCEPT !.revoked = TRUE]]
    BY <2>1
  <2>2. grants' \in Seq(GrantRow) /\ Len(grants') = Len(grants)
    <3>1. CASE i \in 1 .. Len(grants)
      <4>1. grants[i] \in GrantRow
        BY <1>1, <3>1
      <4>2. PICK g : g = [grants[i] EXCEPT !.revoked = TRUE]
        OBVIOUS
      <4>3. g \in GrantRow
        BY <4>1, <4>2 DEF GrantRow
      <4> QED
        BY <1>1, <3>1, <4>2, <4>3
    <3>2. CASE i \notin 1 .. Len(grants)
      <4>1. PICK g : g = [grants[i] EXCEPT !.revoked = TRUE]
        OBVIOUS
      <4>2. grants' = [grants EXCEPT ![i] = g]
        BY <4>1
      <4>3. grants' = grants
        BY <1>1, <3>2, <4>2
      <4> QED
        BY <1>1, <4>3
    <3> QED
      BY <3>1, <3>2
  <2>3. Len(grants) <= Len(grants')
    BY <1>1, <2>2
  <2>4. subs' \in Seq(SubscriptionRow) /\ Len(subs) <= Len(subs')
    BY <1>1
  <2> QED
    BY <1>1, <2>1, <2>2, <2>3, <2>4, BumpTrail
<1>4. CASE UNCHANGED rows
  <2>1. UNCHANGED <<acct, subs, grants, past>> /\ faults' \in 0 .. MaxFaults
    BY <1>1, <1>4 DEF rows, TrailInv
  <2> QED
    BY <1>1, <2>1, FinishTrail
<1> QED
  BY <1>2, <1>3, <1>4 DEF InsertGrant, SaveRevocation

LEMMA JobTrail ==
  ASSUME Inv, TrailInv, NEW j \in Calls \cup Jobs,
         RefreshDue(j) \/ PublishDue(j) \/ RefreshLoad(j)
  PROVE  TrailInv'
<1>1. /\ UNCHANGED <<acct, clock, subs, grants, outbox, past>>
      /\ faults' \in 0 .. MaxFaults
  BY DEF RefreshDue, PublishDue, RefreshLoad, rows, TrailInv
<1>2. CASE RefreshDue(j) \/ PublishDue(j)
  <2>1. PICK op : call' = [call EXCEPT ![j] = [Waiting EXCEPT !.pc = "ready", !.op = op,
                                                              !.now = clock]]
    BY <1>2 DEF RefreshDue, PublishDue
  <2>2. PICK x : x = [Waiting EXCEPT !.pc = "ready", !.op = op, !.now = clock]
    OBVIOUS
  <2>3. x.pc = "ready" /\ x.open = {} /\ x.grant = 0
    <3>1. x = [pc |-> "ready", op |-> op, revision |-> 0, now |-> clock,
               open |-> {}, new |-> <<>>, grant |-> 0]
      BY <2>2 DEF Waiting
    <3> QED
      BY <3>1
  <2>4. x.open \subseteq 1 .. Len(subs) /\ x.grant \in 0 .. Len(grants)
    BY <2>3 DEF TrailInv
  <2>5. PointsInside(x, subs, grants) /\ Announces(x, past)
    BY <2>3, <2>4, NotSavingIsFine
  <2> QED
    BY <1>1, <2>1, <2>2, <2>5, CallTrail
<1>3. CASE RefreshLoad(j)
  <2>1. PICK now, lapsed : /\ now = call[j].now
                           /\ lapsed = {i \in OpenRows : ~isCurrent(subs[i], now)}
    OBVIOUS
  <2>2. PICK y, x : /\ y = Loaded("refresh")
                    /\ x = [y EXCEPT !.pc = "save", !.now = now, !.open = lapsed]
    OBVIOUS
  <2>3. call' = [call EXCEPT ![j] = x]
    BY <1>3, <2>1, <2>2 DEF RefreshLoad
  <2>4. y = [pc |-> "loaded", op |-> "refresh", revision |-> acct.revision,
             now |-> 0, open |-> OpenRows, new |-> <<>>, grant |-> 0]
    BY <2>2 DEF Loaded, Waiting
  <2>5. y \in [pc : {"loaded"}, op : {"refresh"}, revision : {acct.revision}, now : {0},
               open : {OpenRows}, new : {<<>>}, grant : {0}]
    BY <2>4
  <2>6. x.op = "refresh" /\ x.open = lapsed /\ x.grant = 0
    BY <2>2, <2>5
  <2>7. lapsed \subseteq 1 .. Len(subs) /\ 0 \in 0 .. Len(grants)
    BY <2>1 DEF OpenRows, TrailInv
  <2>8. PointsInside(x, subs, grants) /\ Announces(x, past)
    BY <2>6, <2>7 DEF PointsInside, Announces
  <2> QED
    BY <1>1, <2>3, <2>8, CallTrail
<1> QED
  BY <1>2, <1>3

\* The rows are read with their revision: the snapshot is of the last one.
LEMMA PublishLoadTrail ==
  ASSUME Inv, TrailInv, NEW j \in Calls \cup Jobs, PublishLoad(j)
  PROVE  TrailInv'
<1>1. /\ UNCHANGED <<acct, clock, subs, grants, outbox, past>>
      /\ faults' \in 0 .. MaxFaults /\ call[j].op = "publish"
  BY DEF PublishLoad, rows, TrailInv, At
<1>2. PICK s : s = resolveEntitlements([subs |-> subs, grants |-> grants],
                                       acct.revision, call[j].now)
  OBVIOUS
<1>3. PICK x : x = [call[j] EXCEPT !.pc = "save", !.new = <<s>>]
  OBVIOUS
<1>4. call' = [call EXCEPT ![j] = x]
  BY <1>2, <1>3 DEF PublishLoad
<1>5. call[j] \in CallRecord(call[j].new, call[j].grant)
  BY DEF Inv, CallOK
<1>6. /\ x.op = "publish" /\ x.open = call[j].open /\ x.grant = call[j].grant
      /\ x.now = call[j].now /\ x.now \in Nat /\ x.new = <<s>>
  BY <1>1, <1>3, <1>5 DEF CallRecord
<1>7. PICK v, r : v = acct.revision /\ r = past[v + 1]
  OBVIOUS
<1>8. v \in Nat /\ Len(past) = v + 1 /\ r.subs = subs /\ r.grants = grants
        /\ RowsTyped(r)
  <2>1. v \in Nat /\ Len(past) = v + 1 /\ r.subs = subs /\ r.grants = grants
    BY <1>7 DEF TrailInv
  <2>2. subs \in Seq(SubscriptionRow) /\ grants \in Seq(GrantRow)
    BY DEF Inv, History, TrailInv
  <2> QED
    BY <2>1, <2>2 DEF RowsTyped
<1>9. s = resolveEntitlements(r, v, x.now)
  BY <1>2, <1>6, <1>7, <1>8, Resolved
<1>10. Announces(x, past)
  <2>1. v \in 0 .. Len(past) - 1 /\ x.new = <<resolveEntitlements(past[v + 1], v, x.now)>>
    BY <1>6, <1>7, <1>8, <1>9
  <2>2. \A n \in (v + 2) .. Len(past) : past[n].since >= x.now
    BY <1>8
  <2> QED
    BY <2>1, <2>2 DEF Announces
<1>11. PointsInside(x, subs, grants)
  BY <1>6 DEF PointsInside, TrailInv
<1> QED
  BY <1>1, <1>4, <1>10, <1>11, CallTrail

\* What a publisher that is to store holds: a snapshot of a revision.
LEMMA HeldSnapshot ==
  ASSUME Inv, TrailInv, NEW j \in Calls \cup Jobs, At(j, "publish", "save")
  PROVE  \E v \in 0 .. Len(past) - 1 : \E t \in Times :
            /\ t <= clock /\ v \in Nat /\ t \in Nat
            /\ past[v + 1] \in Moment /\ RowsTyped(past[v + 1])
            /\ call[j].new[1] = resolveEntitlements(past[v + 1], v, t)
            /\ call[j].new[1] \in SnapshotRow
            /\ call[j].new[1].version = v
            /\ call[j].new[1].validUntil = Until(past[v + 1], t)
            /\ \A n \in (v + 2) .. Len(past) : past[n].since >= t
<1>1. PICK t : t = call[j].now
  OBVIOUS
<1>2. t \in Nat /\ t <= clock /\ t \in Times
  <2>1. t \in Nat /\ t <= clock
    BY <1>1 DEF Inv, CallOK, CallRecord
  <2> QED
    BY <2>1, AccountAssumption DEF TrailInv, Times
<1>3. PICK v \in 0 .. Len(past) - 1 :
         /\ call[j].new = <<resolveEntitlements(past[v + 1], v, t)>>
         /\ \A n \in (v + 2) .. Len(past) : past[n].since >= t
  BY <1>1 DEF At, TrailInv, Announces
<1>4. v \in Nat /\ past[v + 1] \in Moment
  <2>1. v \in Nat /\ v + 1 \in 1 .. Len(past) /\ past \in Seq(Moment)
    BY DEF TrailInv
  <2> QED
    BY <2>1
<1>5. RowsTyped(past[v + 1])
  BY <1>4 DEF Moment, RowsTyped
<1>6. PICK s : s = resolveEntitlements(past[v + 1], v, t)
  OBVIOUS
<1>7. s \in SnapshotRow /\ s.version = v /\ s.validUntil = Until(past[v + 1], t)
  BY <1>2, <1>4, <1>5, <1>6, Resolved
<1>8. call[j].new[1] = s
  BY <1>3, <1>6
<1> QED
  BY <1>2, <1>3, <1>4, <1>5, <1>6, <1>7, <1>8

LEMMA PublishTrail ==
  ASSUME Inv, TrailInv, NEW j \in Calls \cup Jobs, Publish(j)
  PROVE  TrailInv'
<1>1. /\ At(j, "publish", "save") /\ Finish(j)
      /\ UNCHANGED <<clock, subs, grants, faults, past>>
  BY DEF Publish
<1>2. CASE UNCHANGED <<acct, outbox>>
  <2>1. faults' \in 0 .. MaxFaults
    BY <1>1 DEF TrailInv
  <2> QED
    BY <1>1, <1>2, <2>1, FinishTrail
<1>3. CASE ~UNCHANGED <<acct, outbox>>
  <2>1. PICK s : s = call[j].new[1]
    OBVIOUS
  <2>2. /\ acct' = [acct EXCEPT !.published = s.version, !.nextRefresh = s.validUntil]
        /\ outbox' = Append(outbox, s)
    BY <1>3, <2>1 DEF Publish
  <2>3. s \in SnapshotRow
    BY <1>1, <2>1, HeldSnapshot
  <2>4. s.version \in Nat /\ s.validUntil \in Nat
    BY <2>3 DEF SnapshotRow
  <2>5. /\ acct' \in [exists : BOOLEAN, revision : Nat, published : Nat \cup {-1},
                      nextRefresh : Nat]
        /\ acct'.published = s.version /\ acct'.revision = acct.revision
    BY <2>2, <2>4 DEF TrailInv
  <2>6. outbox' \in Seq(SnapshotRow) /\ outbox' # <<>> /\ outbox'[Len(outbox')] = s
    BY <2>2, <2>3 DEF TrailInv
  <2>7. PICK x \in {Waiting, Done} : call' = [call EXCEPT ![j] = x]
    BY <1>1, Finishes
  <2>8. ASSUME NEW d \in Calls \cup Jobs
        PROVE  PointsInside(call'[d], subs', grants') /\ Announces(call'[d], past')
    <3>1. call'[d] = IF d = j THEN x ELSE call[d]
      BY <2>7 DEF Inv
    <3>2. PointsInside(x, subs, grants) /\ Announces(x, past)
      BY WaitingTrail DEF TrailInv
    <3>3. PointsInside(call[d], subs, grants) /\ Announces(call[d], past)
      BY DEF TrailInv
    <3> QED
      BY <1>1, <3>1, <3>2, <3>3
  <2>9. clock' \in Times /\ faults' \in 0 .. MaxFaults /\ grants' \in Seq(GrantRow)
    BY <1>1 DEF TrailInv
  <2>10. /\ past' \in Seq(Moment) /\ Len(past') = acct'.revision + 1
         /\ past'[Len(past')].subs = subs' /\ past'[Len(past')].grants = grants'
    BY <1>1, <2>5 DEF TrailInv
  <2> QED
    BY <2>5, <2>6, <2>8, <2>9, <2>10 DEF TrailInv
<1> QED
  BY <1>2, <1>3

LEMMA TickTrail ==
  ASSUME Inv, TrailInv, Tick
  PROVE  TrailInv'
<1>1. /\ UNCHANGED <<acct, subs, grants, outbox, call, faults, past>>
      /\ clock < MaxTime /\ clock' = clock + 1
  BY DEF Tick
<1>2. clock' \in Times
  BY <1>1, AccountAssumption DEF TrailInv, Times
<1> QED
  BY <1>1, <1>2 DEF TrailInv

LEMMA CutOffTrail ==
  ASSUME Inv, TrailInv, NEW c \in Calls \cup Jobs, CutOff(c)
  PROVE  TrailInv'
<1>1. /\ UNCHANGED <<acct, clock, subs, grants, outbox, past>>
      /\ Finish(c) /\ Fault
  BY DEF CutOff
<1>2. faults' \in 0 .. MaxFaults
  BY <1>1, AccountAssumption DEF Fault, TrailInv
<1> QED
  BY <1>1, <1>2, FinishTrail

LEMMA InitTrail ==
  ASSUME Init
  PROVE  TrailInv
<1>1. /\ clock \in Times /\ faults \in 0 .. MaxFaults
      /\ acct \in [exists : BOOLEAN, revision : Nat, published : Nat \cup {-1},
                   nextRefresh : Nat]
      /\ grants \in Seq(GrantRow) /\ outbox \in Seq(SnapshotRow)
      /\ outbox = <<>> /\ acct.published = -1 /\ acct.revision = 0
      /\ subs = <<>> /\ grants = <<>>
  BY AccountAssumption DEF Init, Times, Never
<1>2. PICK e : e = [since |-> 0, subs |-> <<>>, grants |-> <<>>]
  OBVIOUS
<1>3. e \in Moment /\ e.subs = <<>> /\ e.grants = <<>>
  BY <1>2 DEF Moment
<1>4. past = <<e>>
  BY <1>2 DEF Init
<1>5. past \in Seq(Moment) /\ Len(past) = 1 /\ past[1] = e
  BY <1>3, <1>4
<1>6. \A c \in Calls \cup Jobs : call[c] = Waiting
  BY DEF Init
<1>7. PointsInside(Waiting, subs, grants) /\ Announces(Waiting, past)
  BY <1>1, WaitingTrail
<1>8. \A c \in Calls \cup Jobs : /\ PointsInside(call[c], subs, grants)
                                 /\ Announces(call[c], past)
  BY <1>6, <1>7
<1>9. Len(past) = acct.revision + 1
  BY <1>1, <1>5
<1>10. past[Len(past)].subs = subs /\ past[Len(past)].grants = grants
  BY <1>1, <1>3, <1>5
<1> QED
  BY <1>1, <1>5, <1>8, <1>9, <1>10 DEF TrailInv

LEMMA NextKeepsTrail ==
  ASSUME Inv, TrailInv, [Next]_vars
  PROVE  TrailInv'
<1>1. CASE UNCHANGED vars
  BY <1>1 DEF TrailInv, vars
<1>2. CASE Tick
  BY <1>2, TickTrail
<1>3. CASE \E c \in Calls : Command(c)
  BY <1>3, NextKeepsInv, LoadTrail, DecideTrail, SaveTrail, GrantTrail DEF Command
<1>4. CASE \E j \in Jobs : JobStep(j)
  BY <1>4, NextKeepsInv, JobTrail, PublishLoadTrail, SaveTrail, PublishTrail DEF JobStep
<1>5. CASE \E c \in Calls \cup Jobs : CutOff(c)
  BY <1>5, CutOffTrail
<1> QED
  BY <1>1, <1>2, <1>3, <1>4, <1>5 DEF Next

-----------------------------------------------------------------------------
(***************************************************************************)
(* The promise.                                                            *)
(***************************************************************************)

\* What the source shows of a revision and of a snapshot.
Shown(m) == [since |-> m.since, until |-> UntilOf(m)]
Heard(s) == [version |-> s.version,
             validUntil |-> IF s.validUntil > MaxTime THEN MaxTime + 1
                            ELSE s.validUntil]

\* A sequence with one entry more.
LEMMA OneEntryMore ==
  ASSUME NEW n \in Nat, NEW T, NEW old \in [1 .. n -> T], NEW new \in [1 .. n + 1 -> T],
         \A i \in 1 .. n : new[i] = old[i]
  PROVE  new = Append(old, new[n + 1])
<1> DEFINE z == new[n + 1]
           app == Append(old, z)
<1>1. z \in T
  OBVIOUS
<1> HIDE DEF z
<1>2. old \in Seq(T) /\ Len(old) = n
  OBVIOUS
<1>3. new \in Seq(T) /\ Len(new) = n + 1
  OBVIOUS
<1>4. /\ app \in Seq(T) /\ Len(app) = n + 1 /\ app[n + 1] = new[n + 1]
      /\ \A i \in 1 .. n : app[i] = old[i]
  <2>1. /\ app \in Seq(T) /\ Len(app) = Len(old) + 1 /\ app[Len(old) + 1] = z
        /\ \A i \in 1 .. Len(old) : app[i] = old[i]
    BY <1>1, <1>2, AppendProperties
  <2> HIDE DEF app
  <2> QED BY <1>2, <2>1 DEF z
<1> HIDE DEF app
<1>5. \A i \in 1 .. Len(new) : new[i] = app[i]
  <2> TAKE i \in 1 .. Len(new)
  <2>1. CASE i = n + 1
    BY <1>4, <2>1
  <2>2. CASE i # n + 1
    <3>1. i \in 1 .. n
      BY <1>3, <2>2
    <3> QED BY <1>4, <3>1
  <2> QED BY <2>1, <2>2
<1>6. new = app
  BY <1>3, <1>4, <1>5, SeqEqual
<1> QED BY <1>6 DEF app, z

\* A sequence shown entry by entry grows with what it shows.
LEMMA ShownGrows ==
  ASSUME NEW p \in Seq(Moment), NEW e \in Moment
  PROVE  [i \in 1 .. Len(Append(p, e)) |-> Shown(Append(p, e)[i])]
           = Append([i \in 1 .. Len(p) |-> Shown(p[i])], Shown(e))
<1> DEFINE P == Append(p, e)
           old == [i \in 1 .. Len(p) |-> Shown(p[i])]
           new == [i \in 1 .. Len(P) |-> Shown(P[i])]
<1>1. /\ Len(p) \in Nat /\ Len(P) = Len(p) + 1
      /\ \A i \in 1 .. Len(p) : P[i] = p[i]
      /\ P[Len(p) + 1] = e
  OBVIOUS
<1> HIDE DEF P
<1>2. /\ \A i \in 1 .. Len(p) : new[i] = old[i]
      /\ new[Len(p) + 1] = Shown(e)
  <2>1. new = [i \in 1 .. Len(p) + 1 |-> Shown(P[i])]
    BY <1>1
  <2>2. \A i \in 1 .. Len(p) : new[i] = Shown(p[i]) /\ old[i] = Shown(p[i])
    BY <1>1, <2>1
  <2>3. Len(p) + 1 \in 1 .. Len(p) + 1
    BY <1>1
  <2>4. new[Len(p) + 1] = Shown(e)
    BY <1>1, <2>1, <2>3
  <2> QED BY <2>2, <2>4
<1>3. PICK T : T = {Shown(P[i]) : i \in 1 .. Len(P)}
  OBVIOUS
<1>4. new \in [1 .. Len(p) + 1 -> T] /\ old \in [1 .. Len(p) -> T]
  <2>1. \A i \in 1 .. Len(p) + 1 : Shown(P[i]) \in T
    BY <1>1, <1>3
  <2>2. \A i \in 1 .. Len(p) : Shown(p[i]) = Shown(P[i]) /\ i \in 1 .. Len(p) + 1
    BY <1>1
  <2> QED BY <1>1, <2>1, <2>2
<1> HIDE DEF old, new
<1>5. new = Append(old, new[Len(p) + 1])
  BY <1>1, <1>2, <1>4, OneEntryMore
<1> QED BY <1>2, <1>5 DEF new, old, P

\* The same of what is heard.
LEMMA HeardGrows ==
  ASSUME NEW p \in Seq(SnapshotRow), NEW e \in SnapshotRow
  PROVE  [i \in 1 .. Len(Append(p, e)) |-> Heard(Append(p, e)[i])]
           = Append([i \in 1 .. Len(p) |-> Heard(p[i])], Heard(e))
<1> DEFINE P == Append(p, e)
           old == [i \in 1 .. Len(p) |-> Heard(p[i])]
           new == [i \in 1 .. Len(P) |-> Heard(P[i])]
<1>1. /\ Len(p) \in Nat /\ Len(P) = Len(p) + 1
      /\ \A i \in 1 .. Len(p) : P[i] = p[i]
      /\ P[Len(p) + 1] = e
  OBVIOUS
<1> HIDE DEF P
<1>2. /\ \A i \in 1 .. Len(p) : new[i] = old[i]
      /\ new[Len(p) + 1] = Heard(e)
  <2>1. new = [i \in 1 .. Len(p) + 1 |-> Heard(P[i])]
    BY <1>1
  <2>2. \A i \in 1 .. Len(p) : new[i] = Heard(p[i]) /\ old[i] = Heard(p[i])
    BY <1>1, <2>1
  <2>3. Len(p) + 1 \in 1 .. Len(p) + 1
    BY <1>1
  <2>4. new[Len(p) + 1] = Heard(e)
    BY <1>1, <2>1, <2>3
  <2> QED BY <2>2, <2>4
<1>3. PICK T : T = {Heard(P[i]) : i \in 1 .. Len(P)}
  OBVIOUS
<1>4. new \in [1 .. Len(p) + 1 -> T] /\ old \in [1 .. Len(p) -> T]
  <2>1. \A i \in 1 .. Len(p) + 1 : Heard(P[i]) \in T
    BY <1>1, <1>3
  <2>2. \A i \in 1 .. Len(p) : Heard(p[i]) = Heard(P[i]) /\ i \in 1 .. Len(p) + 1
    BY <1>1
  <2> QED BY <1>1, <2>1, <2>2
<1> HIDE DEF old, new
<1>5. new = Append(old, new[Len(p) + 1])
  BY <1>1, <1>2, <1>4, OneEntryMore
<1> QED BY <1>2, <1>5 DEF new, old, P

\* The two sequences of the source, as the accounts fill them.
Revisions(p) == [i \in 1 .. Len(p) |-> Shown(p[i])]
SentOf(o) == [i \in 1 .. Len(o) |-> Heard(o[i])]

LEMMA InitPromises == Init => Source!SourceInit
<1> SUFFICES ASSUME Init PROVE Source!SourceInit
  OBVIOUS
<1>1. PICK e : e = [since |-> 0, subs |-> <<>>, grants |-> <<>>]
  OBVIOUS
<1>2. e.since = 0 /\ RowsTyped(e)
  BY <1>1 DEF RowsTyped
<1>3. UntilOf(e) \in Source!Untils
  BY <1>2, UntilOfIsAnUntil
<1>4. past = <<e>> /\ outbox = <<>> /\ clock = 0
  BY <1>1 DEF Init
<1>5. PICK u : u = UntilOf(e)
  OBVIOUS
<1>6. Revisions(past) = <<[since |-> 0, until |-> u]>>
  <2>1. Len(past) = 1 /\ past[1] = e
    BY <1>4
  <2>2. Shown(e) = [since |-> 0, until |-> u]
    BY <1>2, <1>5 DEF Shown
  <2>3. PICK z : z = Shown(e)
    OBVIOUS
  <2>4. Revisions(past) = [i \in 1 .. 1 |-> z]
    BY <2>1, <2>3 DEF Revisions
  <2>5. [i \in 1 .. 1 |-> z] = <<z>>
    OBVIOUS
  <2> QED BY <2>2, <2>3, <2>4, <2>5
<1>7. SentOf(outbox) = <<>>
  BY <1>4 DEF SentOf
<1> QED
  BY <1>3, <1>4, <1>5, <1>6, <1>7 DEF Source!SourceInit, Revisions, SentOf, Shown, Heard

\* A bump is a change of the source: a revision that starts now.
LEMMA BumpPromises ==
  ASSUME Inv, TrailInv, TrailInv', Bump, UNCHANGED <<clock, outbox>>
  PROVE  Source!Change
<1>1. PICK e : e = [since |-> clock, subs |-> subs', grants |-> grants']
  OBVIOUS
<1>2. past' = Append(past, e)
  BY <1>1 DEF Bump
<1>3. past \in Seq(Moment) /\ past' \in Seq(Moment)
  BY DEF TrailInv
<1>4. past'[Len(past')] = e /\ Len(past') \in Nat /\ Len(past') > 0
  BY <1>2, <1>3
<1>5. e \in Moment
  BY <1>3, <1>4
<1>6. e.since = clock /\ RowsTyped(e)
  BY <1>1, <1>5 DEF Moment, RowsTyped
<1>7. PICK u : u = UntilOf(e)
  OBVIOUS
<1>8. u \in Source!Untils
  BY <1>6, <1>7, UntilOfIsAnUntil
<1>9. Shown(e) = [since |-> clock, until |-> u]
  BY <1>6, <1>7 DEF Shown
<1>10. Revisions(past') = Append(Revisions(past), [since |-> clock, until |-> u])
  BY <1>2, <1>3, <1>5, <1>9, ShownGrows DEF Revisions
<1>11. SentOf(outbox') = SentOf(outbox) /\ clock' = clock
  OBVIOUS
<1> QED
  BY <1>8, <1>10, <1>11 DEF Source!Change, Revisions, SentOf, Shown, Heard

\* A publication that goes out is an announcement of the source: of a revision
\* later than the last announced, as it was at a time it had not been replaced.
LEMMA PublishPromises ==
  ASSUME Inv, TrailInv, NEW j \in Calls \cup Jobs, Publish(j), outbox' # outbox
  PROVE  Source!Announce
<1>1. At(j, "publish", "save") /\ UNCHANGED <<clock, past>>
  BY DEF Publish
<1>2. PICK s : s = call[j].new[1]
  OBVIOUS
<1>3. acct.published < s.version /\ outbox' = Append(outbox, s)
  BY <1>2 DEF Publish
<1>4. PICK v \in 0 .. Len(past) - 1, t \in Times :
        /\ t <= clock /\ v \in Nat /\ t \in Nat
        /\ past[v + 1] \in Moment /\ RowsTyped(past[v + 1])
        /\ s \in SnapshotRow /\ s.version = v
        /\ s.validUntil = Until(past[v + 1], t)
        /\ \A n \in (v + 2) .. Len(past) : past[n].since >= t
  BY <1>1, <1>2, HeldSnapshot
<1>5. outbox \in Seq(SnapshotRow) /\ Len(past) \in Nat /\ clock \in Nat
  BY DEF TrailInv, Inv
<1>6. SentOf(outbox') = Append(SentOf(outbox), Heard(s))
  BY <1>3, <1>4, <1>5, HeardGrows DEF SentOf
<1>7. /\ Len(Revisions(past)) = Len(past)
      /\ \A i \in 1 .. Len(past) : Revisions(past)[i] = Shown(past[i])
  <2>1. Revisions(past) \in [1 .. Len(past) -> {Shown(past[i]) : i \in 1 .. Len(past)}]
    BY DEF Revisions
  <2> QED BY <1>5, <2>1 DEF Revisions
<1>8. Revisions(past)[v + 1].until[t] = Heard(s).validUntil
  <2>1. Revisions(past)[v + 1] = Shown(past[v + 1])
    BY <1>4, <1>5, <1>7
  <2>2. Revisions(past)[v + 1].until = UntilOf(past[v + 1])
    BY <2>1 DEF Shown
  <2>3. UntilOf(past[v + 1])[t] = IF Until(past[v + 1], t) > MaxTime THEN MaxTime + 1
                                  ELSE Until(past[v + 1], t)
    BY <1>4, UntilOfIsAnUntil
  <2> QED BY <1>4, <2>2, <2>3 DEF Heard
<1>9. [version |-> v, validUntil |-> Revisions(past)[v + 1].until[t]] = Heard(s)
  BY <1>4, <1>8 DEF Heard
<1>10. \A n \in (v + 2) .. Len(Revisions(past)) : Revisions(past)[n].since >= t
  <2> TAKE n \in (v + 2) .. Len(Revisions(past))
  <2>1. n \in (v + 2) .. Len(past) /\ n \in 1 .. Len(past)
    <3>1. \A k, l \in Nat : k \in (v + 2) .. l => k \in 1 .. l
      BY <1>4
    <3>2. n \in (v + 2) .. Len(past)
      BY <1>7
    <3>3. n \in Nat
      BY <1>4, <1>5, <3>2
    <3> QED BY <1>5, <3>1, <3>2, <3>3
  <2>2. Revisions(past)[n].since = past[n].since
    <3>1. Shown(past[n]).since = past[n].since
      BY DEF Shown
    <3> QED BY <1>7, <2>1, <3>1
  <2> QED BY <1>4, <2>1, <2>2
<1>11. PICK A : A = IF SentOf(outbox) = <<>> THEN -1
                    ELSE SentOf(outbox)[Len(SentOf(outbox))].version
  OBVIOUS
<1>12. A = acct.published
  <2>1. SentOf(outbox) \in [1 .. Len(outbox) -> {Heard(outbox[i]) : i \in 1 .. Len(outbox)}]
    BY DEF SentOf
  <2>2. Len(SentOf(outbox)) = Len(outbox) /\ Len(outbox) \in Nat
    BY <1>5, <2>1
  <2>3. CASE outbox = <<>>
    <3>1. SentOf(outbox) = <<>>
      <4>1. Len(SentOf(outbox)) = 0
        BY <2>2, <2>3
      <4>2. SentOf(outbox) \in Seq({Heard(outbox[i]) : i \in 1 .. Len(outbox)})
        BY <1>5, <2>1
      <4> QED BY <4>1, <4>2
    <3> QED BY <1>11, <2>3, <3>1 DEF TrailInv
  <2>4. CASE outbox # <<>>
    <3>1. Len(outbox) \in 1 .. Len(outbox)
      BY <1>5, <2>4
    <3>2. SentOf(outbox)[Len(outbox)] = Heard(outbox[Len(outbox)])
      BY <3>1 DEF SentOf
    <3>3. SentOf(outbox) # <<>>
      <4>1. Len(SentOf(outbox)) # 0
        BY <2>2, <3>1
      <4> QED BY <4>1
    <3>4. A = outbox[Len(outbox)].version
      BY <1>11, <2>2, <3>2, <3>3 DEF Heard
    <3> QED BY <2>4, <3>4 DEF TrailInv
  <2> QED BY <2>3, <2>4
<1>13. v \in (A + 1) .. Len(Revisions(past)) - 1 /\ t \in 0 .. clock
  <2>1. acct.published \in Nat \cup {-1}
    BY DEF TrailInv
  <2> QED BY <1>3, <1>4, <1>5, <1>7, <1>12, <2>1
<1>14. Revisions(past') = Revisions(past) /\ clock' = clock
  BY <1>1
<1>15. PICK R, S : R = Revisions(past) /\ S = SentOf(outbox)
  OBVIOUS
<1>16. \E w \in ((IF S = <<>> THEN -1 ELSE S[Len(S)].version) + 1) .. Len(R) - 1,
          x \in 0 .. clock :
             /\ \A n \in (w + 2) .. Len(R) : R[n].since >= x
             /\ SentOf(outbox') = Append(S, [version |-> w, validUntil |-> R[w + 1].until[x]])
  BY <1>6, <1>9, <1>10, <1>11, <1>13, <1>15
<1> QED
  BY <1>14, <1>15, <1>16 DEF Source!Announce, Source!Announced, Source!Revision,
     Source!FoundAfter, Source!Snapshot, Revisions, SentOf, Shown, Heard

LEMMA TickPromises ==
  ASSUME Inv, TrailInv, Tick
  PROVE  Source!Tick
<1>1. clock < MaxTime /\ clock' = clock + 1 /\ past' = past /\ outbox' = outbox
  BY DEF Tick
<1> QED
  BY <1>1 DEF Source!Tick

\* Every step that touches what the source shows is one of the source.
LEMMA NextPromises ==
  ASSUME Inv, TrailInv, [Next]_vars
  PROVE  told' # told => Source!SourceNext
<1>1. TrailInv'
  BY NextKeepsTrail
<1>2. CASE UNCHANGED vars
  BY <1>2 DEF told, vars
<1>3. CASE Tick
  BY <1>3, TickPromises DEF Source!SourceNext
<1>4. ASSUME NEW c \in Calls \cup Jobs, Save(c) \/ InsertGrant(c) \/ SaveRevocation(c)
      PROVE  told' # told => Source!SourceNext
  <2>1. (Bump /\ UNCHANGED <<clock, outbox>>) \/ UNCHANGED <<clock, outbox, past>>
    BY <1>4, NextKeepsInv, SaveTrail, GrantTrail
  <2>2. CASE Bump /\ UNCHANGED <<clock, outbox>>
    BY <1>1, <2>2, BumpPromises DEF Source!SourceNext
  <2>3. CASE UNCHANGED <<clock, outbox, past>>
    BY <2>3 DEF told
  <2> QED BY <2>1, <2>2, <2>3
<1>5. ASSUME NEW j \in Calls \cup Jobs, Publish(j)
      PROVE  told' # told => Source!SourceNext
  <2>1. UNCHANGED <<clock, past>>
    BY <1>5 DEF Publish
  <2>2. CASE outbox' = outbox
    BY <2>1, <2>2 DEF told
  <2>3. CASE outbox' # outbox
    BY <1>5, <2>3, PublishPromises DEF Source!SourceNext
  <2> QED BY <2>2, <2>3
<1>6. ASSUME NEW c \in Calls \cup Jobs,
             \/ LoadEnsured(c) \/ LoadFound(c) \/ CutOff(c)
             \/ DecideAssign(c) \/ DecideCancel(c) \/ DecideIssue(c) \/ DecideRevoke(c)
             \/ RefreshDue(c) \/ RefreshLoad(c) \/ PublishDue(c) \/ PublishLoad(c)
      PROVE  told' = told
  BY <1>6 DEF told, rows, LoadEnsured, LoadFound, CutOff, DecideAssign, DecideCancel,
     DecideIssue, DecideRevoke, RefreshDue, RefreshLoad, PublishDue, PublishLoad
<1> QED
  BY <1>2, <1>3, <1>4, <1>5, <1>6 DEF Next, Command, JobStep

-----------------------------------------------------------------------------
(***************************************************************************)
(* The trail is true, and the promise is kept.                             *)
(***************************************************************************)

\* The trail: each revision is remembered as it was, and what has been announced,
\* or is about to be, is a revision's contents at a time when it was current.
THEOREM TheTrailIsTrue == Spec => [](Inv /\ TrailInv)
<1>1. Init => Inv /\ TrailInv
  BY InitialInv, InitTrail
<1>2. Inv /\ TrailInv /\ [Next]_vars => (Inv /\ TrailInv)'
  BY NextKeepsInv, NextKeepsTrail
<1> QED
  BY <1>1, <1>2, PTL DEF Spec

\* The rows, the account and the calls keep their types; no call points at a
\* row that is not there.
THEOREM AccountTypeCorrect == Spec => []TypeOK
<1>1. ASSUME Inv, TrailInv PROVE TypeOK
  <2>1. /\ clock \in Times /\ faults \in 0 .. MaxFaults
        /\ acct \in [exists : BOOLEAN, revision : Nat, published : Nat \cup {-1},
                     nextRefresh : Nat]
        /\ subs \in Seq(SubscriptionRow) /\ grants \in Seq(GrantRow)
        /\ DOMAIN call = Calls \cup Jobs
    BY <1>1 DEF Inv, TrailInv, History
  <2>2. ASSUME NEW c \in Calls \cup Jobs
        PROVE  /\ call[c].pc \in {"idle", "ready", "loaded", "save", "done"}
               /\ call[c].op \in {"none", "assign", "open", "cancel", "issue", "revoke",
                                  "refresh", "publish"}
               /\ call[c].revision \in Nat /\ call[c].now \in Times
               /\ call[c].open \subseteq 1 .. Len(subs)
               /\ call[c].grant \in 0 .. Len(grants)
    <3>1. /\ call[c] \in CallRecord(call[c].new, call[c].grant)
          /\ call[c].now <= clock
      BY <1>1 DEF Inv, CallOK
    <3>2. PointsInside(call[c], subs, grants)
      BY <1>1 DEF TrailInv
    <3>3. call[c].now \in Times
      BY <2>1, <3>1, AccountAssumption DEF Times, CallRecord
    <3> QED
      BY <3>1, <3>2, <3>3 DEF CallRecord, PointsInside
  <2> QED
    BY <2>1, <2>2 DEF TypeOK
<1> QED
  BY <1>1, TheTrailIsTrue, PTL

\* What the readers of the entitlements build on: each revision is announced at
\* most once and in order, with contents it really had at a time it was current.
THEOREM ThePromiseIsKept == Spec => KeepsThePromise
<1>1. Init => Source!SourceInit
  BY InitPromises
<1>2. Inv /\ TrailInv /\ [Next]_vars => [told' # told => Source!SourceNext]_vars
  BY NextPromises
<1> QED
  BY <1>1, <1>2, TheTrailIsTrue, PTL DEF Spec, KeepsThePromise

\* Hence the accounts implement the source, step for step.
THEOREM AccountsImplementTheSource == Spec => Source!SourceSpec
<1>1. Init => Source!SourceInit
  BY InitPromises
<1>2. ASSUME Inv, TrailInv, [Next]_vars PROVE [Source!SourceNext]_(Source!sourceVars)
  <2>1. told' # told => Source!SourceNext
    BY <1>2, NextPromises
  <2>2. told' = told => UNCHANGED Source!sourceVars
    BY DEF told, Source!sourceVars
  <2> QED
    BY <2>1, <2>2
<1> QED
  BY <1>1, <1>2, TheTrailIsTrue, PTL DEF Spec, Source!SourceSpec

=============================================================================

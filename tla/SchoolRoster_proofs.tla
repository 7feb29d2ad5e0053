------------------------- MODULE SchoolRoster_proofs -------------------------
(***************************************************************************)
(* What the requests on one school keep, for any number of people,         *)
(* requests in flight, invitations and enrolment rows, whichever of them   *)
(* overlap and wherever they stop.                                         *)
(***************************************************************************)
EXTENDS SchoolRoster, TLAPS

-----------------------------------------------------------------------------
(***************************************************************************)
(* What is true of a request between two of its steps, of the tables and   *)
(* of the history.  Tables only grow in what a request relies on.          *)
(***************************************************************************)

Backed(row, w) ==
    row.id # 0 => /\ row.id \in 1 .. Len(w)
                  /\ w[row.id].user = row.user /\ w[row.id].source = row.source
                  /\ w[row.id].auto = row.auto

Enrolled(row, j, s) ==
    /\ row.status = "active" /\ row.source # "direct" => s[row.user] # "none"
    /\ MayBeOutside(row) \/ row.user \in j

WithUser == {"add", "ensure", "direct", "find", "check", "seat", "enrol", "archive", "grant",
             "invited", "send"}
Adds == {"add", "apply", "approve", "accept"}

Fits(q, j, s, i, w) ==
    /\ q.at \in WithUser => q.user \in Users
    /\ q.at = "add" => q.op # "accept"
    /\ q.at \in {"send", "invited"} => q.role \in Roles
    /\ q.at = "save" /\ q.op \in Adds => q.user \in Users /\ q.copy[q.user] # None
    /\ q.at \in {"ensure", "direct", "find", "seat"} => q.user \in j
    /\ q.at \in {"invited", "invite"} \/ (q.at = "save" /\ q.op = "accept")
         => q.invite \in Invites /\ i[q.invite] # None
    /\ q.op = "accept" /\ q.at \in {"invited", "save", "invite"} => i[q.invite].user = q.user
    /\ q.op = "accept" /\ q.at = "invite" => q.user \in j
    /\ q.row # None => Backed(q.row, w) /\ q.row.user = q.user
    /\ q.at = "enrol" \/ (q.op = "approve" /\ q.at # "free") \/ q.at = "check"
         \/ (q.at = "seat" /\ q.op # "seat") => q.row # None
    /\ q.at = "enrol" => Enrolled(q.row, j, s)

AllFit == \A r \in Requests : Fits(req[r], joined, seat, invites, rows)
RowsEnrolled == \A k \in 1 .. Len(rows) : Enrolled(rows[k], joined, seat)
RosterJoined == \A u \in Users : roster[u] # None => u \in joined

IInv == TypeOK /\ RosterJoined /\ SeatedHasJoined /\ AcceptedHasJoined /\ RowsEnrolled /\ AllFit

Grows ==
    /\ joined \subseteq joined'
    /\ \A u \in Users : seat[u] # "none" => seat'[u] # "none"
    /\ \A i \in Invites : invites[i] # None =>
            invites'[i] # None /\ invites'[i].user = invites[i].user
    /\ Len(rows) <= Len(rows')
    /\ \A k \in 1 .. Len(rows) : /\ rows'[k].user = rows[k].user
                                 /\ rows'[k].source = rows[k].source
                                 /\ rows'[k].auto = rows[k].auto

USE RosterAssumption

LEMMA FitStays ==
    ASSUME TypeOK, Grows, NEW q \in Asked, Fits(q, joined, seat, invites, rows)
    PROVE  Fits(q, joined', seat', invites', rows')
<1>1. q.row # None => q.row \in Held /\ q.row.user \in Users /\ q.row.id \in Nat
  BY DEF Asked, Held
<1>2. q.row # None /\ Backed(q.row, rows) => Backed(q.row, rows')
  <2> SUFFICES ASSUME q.row # None, Backed(q.row, rows), q.row.id # 0
               PROVE  Backed(q.row, rows')
    BY DEF Backed
  <2>1. q.row.id \in 1 .. Len(rows)
    BY DEF Backed
  <2>2. Len(rows) \in Nat
    BY DEF TypeOK
  <2> QED
    BY <2>1, <2>2, <1>1 DEF Backed, Grows
<1>3. q.row # None /\ Enrolled(q.row, joined, seat) => Enrolled(q.row, joined', seat')
  BY <1>1 DEF Enrolled, Grows
<1>4. q.user \in joined => q.user \in joined'
  BY DEF Grows
<1>5. q.invite \in Invites /\ invites[q.invite] # None =>
         invites'[q.invite] # None /\ invites'[q.invite].user = invites[q.invite].user
  BY DEF Grows
<1> QED
  BY <1>2, <1>3, <1>4, <1>5 DEF Fits

LEMMA RequestStep ==
    ASSUME TypeOK, AllFit, Grows, NEW r \in Requests, NEW q \in Asked,
           req' = [req EXCEPT ![r] = q], Fits(q, joined', seat', invites', rows')
    PROVE  AllFit' /\ req' \in [Requests -> Asked]
<1>1. req' \in [Requests -> Asked]
  BY DEF TypeOK
<1>2. ASSUME NEW t \in Requests PROVE Fits(req'[t], joined', seat', invites', rows')
  <2>1. CASE t = r
    BY <2>1 DEF TypeOK
  <2>2. CASE t # r
    <3>1. req'[t] = req[t] /\ req[t] \in Asked
      BY <2>2 DEF TypeOK
    <3>2. Fits(req[t], joined, seat, invites, rows)
      BY DEF AllFit
    <3> QED
      BY <3>1, <3>2, FitStays
  <2> QED
    BY <2>1, <2>2
<1> QED
  BY <1>1, <1>2 DEF AllFit

\* A step that writes nothing but its request.
LEMMA QuietStep ==
    ASSUME IInv, UNCHANGED store, begun' \in 0 .. MaxCommands, NEW r \in Requests,
           NEW q \in Asked, req' = [req EXCEPT ![r] = q],
           Fits(q, joined, seat, invites, rows)
    PROVE  IInv'
<1>1. Grows
  <2>1. Len(rows) \in Nat
    BY DEF IInv, TypeOK
  <2> QED
    BY <2>1 DEF Grows, store
<1>2. AllFit' /\ req' \in [Requests -> Asked]
  BY <1>1, RequestStep DEF IInv, store
<1> QED
  BY <1>2 DEF IInv, TypeOK, RosterJoined, SeatedHasJoined, AcceptedHasJoined, RowsEnrolled, store

LEMMA BeginCounts ==
    ASSUME IInv, NEW r, NEW q, Begin(r, q)
    PROVE  begun' \in 0 .. MaxCommands /\ req' = [req EXCEPT ![r] = q]
  BY DEF Begin, IInv, TypeOK

LEMMA BecomeCounts ==
    ASSUME IInv, NEW r, NEW q, Become(r, q)
    PROVE  begun' \in 0 .. MaxCommands /\ req' = [req EXCEPT ![r] = q]
  BY DEF Become, IInv, TypeOK

LEMMA FreeFits ==
    /\ Free \in Asked
    /\ \A j, s, i, w : Fits(Free, j, s, i, w)
  BY DEF Free, Asked, Nobody, Copies, Fits, WithUser, Roles

LEMMA RolesNowTyped == ASSUME TypeOK PROVE RolesNow \in Copies
  BY DEF TypeOK, RolesNow, Copies, Members, Roles

LEMMA HeldRowFits ==
    ASSUME IInv, NEW k \in 1 .. Len(rows)
    PROVE  /\ HeldRow(k) \in Held /\ HeldRow(k) # None /\ Backed(HeldRow(k), rows)
           /\ HeldRow(k).user = rows[k].user /\ rows[k].user \in Users
           /\ Enrolled(HeldRow(k), joined, seat)
<1>1. rows \in Seq(Rows) /\ rows[k] \in Rows /\ k \in 1 .. MaxRows
  BY DEF IInv, TypeOK
<1>2. HeldRow(k) \in Held /\ HeldRow(k).id = k /\ HeldRow(k).user = rows[k].user
        /\ HeldRow(k).source = rows[k].source /\ HeldRow(k).auto = rows[k].auto
        /\ HeldRow(k).status = rows[k].status /\ rows[k].user \in Users
  BY <1>1 DEF HeldRow, Held, Rows
<1>3. HeldRow(k) # None
  BY <1>2
<1>4. Enrolled(rows[k], joined, seat)
  BY DEF IInv, RowsEnrolled
<1> QED
  BY <1>2, <1>3, <1>4 DEF Backed, Enrolled, MayBeOutside

-----------------------------------------------------------------------------
(***************************************************************************)
(* Requests that begin: nothing is written yet.                            *)
(***************************************************************************)

LEMMA InitInv == Init => IInv
<1> SUFFICES ASSUME Init PROVE IInv
  OBVIOUS
<1>1. TypeOK
  <2>1. rows \in Seq(Rows) /\ Len(rows) = 0
    BY DEF Init
  <2>2. req \in [Requests -> Asked]
    BY FreeFits DEF Init
  <2>3. roster \in [Users -> Members \cup {None}] /\ invites \in [Invites -> Invitations \cup {None}]
    BY DEF Init
  <2>4. seat \in [Users -> {"none", "active", "past"}] /\ joined \subseteq Users
    BY DEF Init
  <2>5. deleted \in BOOLEAN
    BY ZenonT(10) DEF Init
  <2>6. begun \in 0 .. MaxCommands /\ 0 <= MaxRows
    BY DEF Init
  <2> QED
    BY <2>1, <2>2, <2>3, <2>4, <2>5, <2>6 DEF TypeOK
<1>2. AllFit
  BY FreeFits DEF Init, AllFit
<1> QED
  BY <1>1, <1>2 DEF Init, IInv, RosterJoined, SeatedHasJoined, AcceptedHasJoined, RowsEnrolled

\* The copy a request edits: the roster as it is, one member put in or taken out.
LEMMA CopyTyped ==
    ASSUME TypeOK, NEW u \in Users, NEW role \in Roles \cup {None}
    PROVE  [RolesNow EXCEPT ![u] = role] \in Copies /\ [RolesNow EXCEPT ![u] = role][u] = role
  BY RolesNowTyped DEF Copies

LEMMA AddMemberInv ==
    ASSUME IInv, NEW r \in Requests, NEW u \in Users, NEW role \in Roles, AddMember(r, u, role)
    PROVE  IInv'
<1> DEFINE c == [RolesNow EXCEPT ![u] = role]
           q == [Free EXCEPT !.op = "add", !.at = "save", !.user = u, !.role = role,
                             !.copy = c, !.gone = deleted]
<1>1. c \in Copies /\ c[u] # None
  BY CopyTyped DEF IInv
<1> HIDE DEF c
<1>2. Begin(r, q) /\ UNCHANGED store
  BY DEF AddMember, c
<1>3. q \in Asked /\ Fits(q, joined, seat, invites, rows)
  BY <1>1 DEF IInv, TypeOK, Asked, Free, Fits, WithUser, Adds
<1> HIDE DEF q
<1> QED
  BY <1>2, <1>3, BeginCounts, QuietStep

LEMMA RemoveMemberInv ==
    ASSUME IInv, NEW r \in Requests, NEW u \in Users, RemoveMember(r, u)
    PROVE  IInv'
<1> DEFINE c == [RolesNow EXCEPT ![u] = None]
           q == [Free EXCEPT !.op = "remove", !.at = "save", !.user = u, !.copy = c,
                             !.gone = deleted]
<1>1. c \in Copies
  BY CopyTyped DEF IInv
<1> HIDE DEF c
<1>2. Begin(r, q) /\ UNCHANGED store
  BY DEF RemoveMember, c
<1>3. q \in Asked /\ Fits(q, joined, seat, invites, rows)
  BY <1>1 DEF IInv, TypeOK, Asked, Free, Fits, WithUser, Adds
<1> HIDE DEF q
<1> QED
  BY <1>2, <1>3, BeginCounts, QuietStep

LEMMA UpdateSchoolInv ==
    ASSUME IInv, NEW r \in Requests, UpdateSchool(r) \/ DeleteSchool(r)
    PROVE  IInv'
<1> DEFINE q == [Free EXCEPT !.op = "update", !.at = "save", !.copy = RolesNow, !.gone = deleted]
           p == [Free EXCEPT !.op = "delete", !.at = "save", !.copy = RolesNow, !.gone = TRUE]
<1>1. RolesNow \in Copies /\ deleted \in BOOLEAN
  BY RolesNowTyped DEF IInv, TypeOK
<1>2. UNCHANGED store /\ (Begin(r, q) \/ Begin(r, p))
  BY DEF UpdateSchool, DeleteSchool
<1>3. q \in Asked /\ Fits(q, joined, seat, invites, rows)
  BY <1>1 DEF Asked, Free, Fits, WithUser, Adds
<1>4. p \in Asked /\ Fits(p, joined, seat, invites, rows)
  BY <1>1 DEF Asked, Free, Fits, WithUser, Adds
<1> HIDE DEF q, p
<1> QED
  BY <1>2, <1>3, <1>4, BeginCounts, QuietStep

LEMMA AddInsideInv ==
    ASSUME IInv, NEW r \in Requests, AddInside(r)
    PROVE  IInv'
<1> DEFINE o == req[r]
           c == [RolesNow EXCEPT ![o.user] = "STUDENT"]
           q == [o EXCEPT !.at = "save", !.role = "STUDENT", !.gone = deleted, !.copy = c]
<1>1. o \in Asked /\ Fits(o, joined, seat, invites, rows) /\ o.at = "add" /\ o.user \in Users
  BY DEF AddInside, IInv, AllFit, TypeOK, Fits, WithUser
<1>2. c \in Copies /\ c[o.user] # None /\ deleted \in BOOLEAN /\ "STUDENT" \in Roles
  BY <1>1, CopyTyped DEF IInv, TypeOK, Roles
<1>3. UNCHANGED store /\ (Become(r, Free) \/ Become(r, q))
  BY DEF AddInside, c
<1> HIDE DEF c, o
<1>4. /\ q \in Asked /\ q.at = "save" /\ q.op = o.op /\ q.user = o.user /\ q.copy = c
      /\ q.row = o.row /\ o.op # "accept"
  BY <1>1, <1>2 DEF Asked, Fits
<1>5. Fits(q, joined, seat, invites, rows)
  <2> HIDE DEF q
  <2> QED
    BY <1>1, <1>2, <1>4 DEF Fits, WithUser, Adds
<1> HIDE DEF q
<1> QED
  BY <1>3, <1>4, <1>5, FreeFits, BecomeCounts, QuietStep

LEMMA LoadForAcceptInv ==
    ASSUME IInv, NEW r \in Requests, LoadForAccept(r)
    PROVE  IInv'
<1> DEFINE o == req[r]
           c == [RolesNow EXCEPT ![o.user] = o.role]
           q == [o EXCEPT !.at = "save", !.gone = deleted, !.copy = c]
<1>1. o \in Asked /\ Fits(o, joined, seat, invites, rows) /\ o.at = "invited"
        /\ o.user \in Users /\ o.role \in Roles
  BY DEF LoadForAccept, IInv, AllFit, TypeOK, Fits, WithUser
<1>2. c \in Copies /\ c[o.user] # None /\ deleted \in BOOLEAN
  BY <1>1, CopyTyped DEF IInv, TypeOK
<1>3. UNCHANGED store /\ (Become(r, Free) \/ Become(r, q))
  BY DEF LoadForAccept, c
<1> HIDE DEF c, o
<1>4. q \in Asked /\ Fits(q, joined, seat, invites, rows)
  BY <1>1, <1>2 DEF Asked, Fits, WithUser, Adds
<1> HIDE DEF q
<1> QED
  BY <1>3, <1>4, FreeFits, BecomeCounts, QuietStep

\* A request that carries no more than a person.
LEMMA PersonInv ==
    ASSUME IInv, NEW r \in Requests, NEW u \in Users,
           RemoveStudent(r, u) \/ UpdatePermissions(r, u) \/ AddGroupMember(r, u)
    PROVE  IInv'
<1> DEFINE a == [Free EXCEPT !.op = "archive", !.at = "archive", !.user = u]
           g == [Free EXCEPT !.op = "grant", !.at = "grant", !.user = u]
           s == [Free EXCEPT !.op = "seat", !.at = "seat", !.user = u]
<1>1. a \in Asked /\ Fits(a, joined, seat, invites, rows)
  BY FreeFits DEF Asked, Free, Fits, WithUser, Adds
<1>2. g \in Asked /\ Fits(g, joined, seat, invites, rows)
  BY FreeFits DEF Asked, Free, Fits, WithUser, Adds
<1>3. u \in joined => s \in Asked /\ Fits(s, joined, seat, invites, rows)
  BY FreeFits DEF Asked, Free, Fits, WithUser, Adds
<1>4. UNCHANGED store /\ (Begin(r, a) \/ Begin(r, g) \/ (Begin(r, s) /\ roster[u] # None))
  BY DEF RemoveStudent, UpdatePermissions, AddGroupMember
<1>5. roster[u] # None => u \in joined
  BY DEF IInv, RosterJoined
<1> HIDE DEF a, g, s
<1> QED
  BY <1>1, <1>2, <1>3, <1>4, <1>5, BeginCounts, QuietStep

LEMMA InvitationTyped ==
    ASSUME IInv, NEW i \in Invites, invites[i] # None
    PROVE  invites[i] \in Invitations /\ invites[i].user \in Users /\ invites[i].role \in Roles
             /\ invites[i].group \in BOOLEAN
  BY DEF IInv, TypeOK, Invitations

LEMMA SendInvitationInv ==
    ASSUME IInv, NEW r \in Requests, NEW u \in Users, NEW role \in Roles, NEW group \in BOOLEAN,
           SendInvitation(r, u, role, group)
    PROVE  IInv'
<1> DEFINE q == [Free EXCEPT !.op = "send", !.at = "send", !.user = u, !.role = role,
                             !.group = group]
<1>1. UNCHANGED store /\ Begin(r, q)
  BY DEF SendInvitation
<1>2. q \in Asked /\ Fits(q, joined, seat, invites, rows)
  BY FreeFits DEF Asked, Free, Fits, WithUser, Adds
<1> HIDE DEF q
<1> QED
  BY <1>1, <1>2, BeginCounts, QuietStep

\* A request that will write an invitation as it read it, but for the status.
LEMMA InvitationInv ==
    ASSUME IInv, NEW r \in Requests, NEW i \in Invites,
           ResendInvitation(r, i) \/ LateAcceptance(r, i) \/ RevokeInvitation(r, i)
    PROVE  IInv'
<1> DEFINE q(o) == [Free EXCEPT !.op = o, !.at = "invite", !.invite = i]
<1>1. /\ UNCHANGED store /\ invites[i] # None
      /\ Begin(r, q("resend")) \/ Begin(r, q("expire")) \/ Begin(r, q("revoke"))
  BY DEF ResendInvitation, LateAcceptance, RevokeInvitation
<1>2. ASSUME NEW o \in {"resend", "expire", "revoke"}
      PROVE  q(o) \in Asked /\ Fits(q(o), joined, seat, invites, rows)
  BY <1>1, FreeFits DEF Asked, Free, Fits, WithUser, Adds
<1> HIDE DEF q
<1> QED
  BY <1>1, <1>2, BeginCounts, QuietStep

LEMMA AcceptInvitationInv ==
    ASSUME IInv, NEW r \in Requests, NEW i \in Invites, AcceptInvitation(r, i)
    PROVE  IInv'
<1> DEFINE q == [Free EXCEPT !.op = "accept", !.at = "invited", !.invite = i,
                             !.user = invites[i].user, !.role = invites[i].role,
                             !.group = invites[i].group]
<1>1. UNCHANGED store /\ Begin(r, q) /\ invites[i] # None
  BY DEF AcceptInvitation
<1>2. q \in Asked /\ Fits(q, joined, seat, invites, rows)
  BY <1>1, InvitationTyped, FreeFits DEF Asked, Free, Fits, WithUser, Adds
<1> HIDE DEF q
<1> QED
  BY <1>1, <1>2, BeginCounts, QuietStep

LEMMA NewestIsOne ==
    ASSUME IInv, NEW u \in Users, Newest(u) # 0
    PROVE  Newest(u) \in 1 .. Len(rows) /\ rows[Newest(u)].user = u
  BY DEF Newest, IsNewest

\* A row of the application being approved, once the student is on the roster.
LEMMA ApprovedFits ==
    ASSUME IInv, NEW q \in Asked, Fits(q, joined, seat, invites, rows), q.at # "free",
           q.op = "approve", q.user \in joined
    PROVE  AfterAdd(q) \in Asked /\ Fits(AfterAdd(q), joined, seat, invites, rows)

<1> DEFINE x == q.row
           y == [x EXCEPT !.status = "onboarding"]
           z == [q EXCEPT !.at = "enrol", !.row = y]
<1>1. x \in Held /\ x # None /\ Backed(x, rows) /\ x.user = q.user
  BY DEF Fits, Asked, x
<1>2. AfterAdd(q) = z
  BY DEF AfterAdd
<1> HIDE DEF x
<1>3. y \in Held /\ y.user = x.user /\ y.id = x.id /\ y.source = x.source /\ y.auto = x.auto
        /\ y.status = "onboarding"
  BY <1>1 DEF Held, Statuses
<1> HIDE DEF y
<1>4. Backed(y, rows) /\ Enrolled(y, joined, seat) /\ y # None
  BY <1>1, <1>3 DEF Backed, Enrolled, Held
<1>5. z \in Asked /\ Fits(z, joined, seat, invites, rows)
  BY <1>1, <1>3, <1>4 DEF Asked, Fits, WithUser, Adds, Held
<1> QED
  BY <1>2, <1>5

\* What an approval or a plain addition leaves once the student stands with a row.
LEMMA AfterAddFits ==
    ASSUME IInv, NEW q \in Asked, Fits(q, joined, seat, invites, rows), q.at # "free",
           q.user \in joined
    PROVE  AfterAdd(q) \in Asked /\ Fits(AfterAdd(q), joined, seat, invites, rows)
<1>1. CASE q.op = "approve"
  BY <1>1, ApprovedFits
<1>2. CASE q.op # "approve"
  BY <1>2, FreeFits DEF AfterAdd
<1> QED
  BY <1>1, <1>2

LEMMA EnsureMembershipInv ==
    ASSUME IInv, NEW r \in Requests, EnsureMembership(r)
    PROVE  IInv'
<1> DEFINE o == req[r]
           d == [o EXCEPT !.at = "direct"]
<1>1. o \in Asked /\ Fits(o, joined, seat, invites, rows) /\ o.at = "ensure" /\ o.user \in joined
  BY DEF EnsureMembership, IInv, AllFit, TypeOK, Fits
<1>2. UNCHANGED store /\ (Become(r, AfterAdd(o)) \/ Become(r, d))
  BY DEF EnsureMembership
<1> HIDE DEF o
<1>3. d \in Asked /\ Fits(d, joined, seat, invites, rows)
  BY <1>1 DEF Asked, Fits, WithUser, Adds
<1>4. AfterAdd(o) \in Asked /\ Fits(AfterAdd(o), joined, seat, invites, rows)
  BY <1>1, AfterAddFits
<1> HIDE DEF d
<1> QED
  BY <1>2, <1>3, <1>4, BecomeCounts, QuietStep

LEMMA RowKept ==
    ASSUME IInv, NEW k \in 1 .. Len(rows), NEW op \in {"approve", "assign"}
    PROVE  LET q == [Free EXCEPT !.op = op, !.at = IF op = "approve" THEN "add" ELSE "check",
                                 !.user = rows[k].user, !.row = HeldRow(k)]
           IN  q \in Asked /\ Fits(q, joined, seat, invites, rows)
<1> DEFINE x == HeldRow(k)
           u == rows[k].user
<1>1. x \in Held /\ x # None /\ Backed(x, rows) /\ x.user = u /\ u \in Users
  BY HeldRowFits
<1> HIDE DEF x, u
<1>2. [Free EXCEPT !.op = op, !.at = IF op = "approve" THEN "add" ELSE "check", !.user = u,
                   !.row = x] \in Asked
  BY <1>1, FreeFits DEF Asked, Free
<1>3. Fits([Free EXCEPT !.op = op, !.at = IF op = "approve" THEN "add" ELSE "check", !.user = u,
                        !.row = x], joined, seat, invites, rows)
  BY <1>1 DEF Free, Fits, WithUser, Adds
<1> QED
  BY <1>2, <1>3 DEF x, u

LEMMA ApproveMembershipInv ==
    ASSUME IInv, NEW r \in Requests, NEW k \in 1 .. Len(rows), ApproveMembership(r, k)
    PROVE  IInv'
<1> DEFINE u == rows[k].user
           q == [Free EXCEPT !.op = "approve", !.user = u, !.row = HeldRow(k)]
           a == [Free EXCEPT !.op = "approve", !.at = "add", !.user = u, !.row = HeldRow(k)]
           x == HeldRow(k)
           y == [x EXCEPT !.status = "onboarding"]
           e == [Free EXCEPT !.op = "approve", !.at = "enrol", !.user = u, !.row = y]
<1>1. x \in Held /\ x # None /\ Backed(x, rows) /\ x.user = u /\ u \in Users
  BY HeldRowFits
<1>2. /\ UNCHANGED store
      /\ IF roster[u] = None THEN Begin(r, a) ELSE Begin(r, e)
  <2>1. /\ UNCHANGED store
        /\ IF roster[u] = None THEN Begin(r, [q EXCEPT !.at = "add"]) ELSE Begin(r, AfterAdd(q))
    BY DEF ApproveMembership
  <2>2. [q EXCEPT !.at = "add"] = a
    BY DEF Free
  <2>3. AfterAdd(q) = e
    BY DEF Free, AfterAdd
  <2> QED
    BY <2>1, <2>2, <2>3
<1>3. a \in Asked /\ Fits(a, joined, seat, invites, rows)
  BY RowKept
<1>4. roster[u] # None => u \in joined
  BY <1>1 DEF IInv, RosterJoined
<1> HIDE DEF x, a, q, u
<1>5. y \in Held /\ y.user = u /\ y.id = x.id /\ y.source = x.source /\ y.auto = x.auto
        /\ y.status = "onboarding"
  BY <1>1 DEF Held, Statuses
<1> HIDE DEF y
<1>6. u \in joined => Backed(y, rows) /\ Enrolled(y, joined, seat) /\ y # None
  BY <1>1, <1>5 DEF Backed, Enrolled, Held
<1>7. u \in joined => e \in Asked /\ Fits(e, joined, seat, invites, rows)
  BY <1>1, <1>5, <1>6, FreeFits DEF Free, Asked, Fits, WithUser, Adds, Held
<1> HIDE DEF e
<1> QED
  BY <1>2, <1>3, <1>4, <1>7, BeginCounts, QuietStep

LEMMA AssignGroupInv ==
    ASSUME IInv, NEW r \in Requests, NEW k \in 1 .. Len(rows), AssignGroup(r, k)
    PROVE  IInv'
<1> DEFINE q == [Free EXCEPT !.op = "assign", !.at = "check", !.user = rows[k].user,
                             !.row = HeldRow(k)]
<1>1. UNCHANGED store /\ Begin(r, q)
  BY DEF AssignGroup
<1>2. q \in Asked /\ Fits(q, joined, seat, invites, rows)
  BY RowKept
<1> HIDE DEF q
<1> QED
  BY <1>1, <1>2, BeginCounts, QuietStep

\* A request that has read a row and holds it with the status it will write.
LEMMA HoldRowInv ==
    ASSUME IInv, NEW r \in Requests, NEW k \in 1 .. Len(rows), NEW s \in Statuses, HoldRow(r, k, s),
           s \in {"rejected", "placement-review"} \/ s = rows[k].status,
           s = "rejected" => rows[k].status \in {"pending", "rejected"},
           s = "placement-review" => rows[k].status \in {"onboarding", "placement-review"}
    PROVE  IInv'
<1> DEFINE u == rows[k].user
           x == HeldRow(k)
           y == [x EXCEPT !.status = s]
           q == [Free EXCEPT !.op = "row", !.at = "enrol", !.user = u, !.row = y]
<1>1. x \in Held /\ x # None /\ Backed(x, rows) /\ x.user = u /\ u \in Users
        /\ Enrolled(x, joined, seat) /\ x.status = rows[k].status
  BY HeldRowFits DEF HeldRow
<1>2. UNCHANGED store /\ Begin(r, q)
  BY DEF HoldRow
<1> HIDE DEF x, u
<1>3. y \in Held /\ y.user = u /\ y.id = x.id /\ y.source = x.source /\ y.auto = x.auto
        /\ y.status = s
  BY <1>1 DEF Held
<1> HIDE DEF y
<1>4. Backed(y, rows) /\ y # None
  BY <1>1, <1>3 DEF Backed
<1>5. y.status = "active" /\ y.source # "direct" => seat[u] # "none"
  BY <1>1, <1>3 DEF Enrolled
<1>6. MayBeOutside(x) => MayBeOutside(y)
  <2>1. \/ x.status = s
        \/ s = "rejected"
        \/ x.status = "onboarding" /\ s = "placement-review"
    BY <1>1
  <2> QED
    BY <1>3, <2>1 DEF MayBeOutside
<1>7. Enrolled(y, joined, seat)
  BY <1>1, <1>3, <1>5, <1>6 DEF Enrolled
<1>8. q \in Asked
  BY <1>1, <1>3, FreeFits DEF Free, Asked
<1>9. Fits(q, joined, seat, invites, rows)
  BY <1>1, <1>3, <1>4, <1>7 DEF Free, Fits, WithUser, Adds
<1> HIDE DEF q
<1> QED
  BY <1>2, <1>8, <1>9, BeginCounts, QuietStep

LEMMA RowRequestInv ==
    ASSUME IInv, NEW r \in Requests, NEW k \in 1 .. Len(rows),
           RejectMembership(r, k) \/ CompleteOnboarding(r, k) \/ TouchMembership(r, k)
    PROVE  IInv'
<1>1. rows[k].status \in Statuses
  <2>1. rows[k] \in Rows
    BY DEF IInv, TypeOK
  <2> QED
    BY <2>1 DEF Rows
<1>2. "rejected" \in Allowed(rows[k].status) => rows[k].status = "pending"
  BY <1>1 DEF Allowed, Statuses
<1>3. "placement-review" \in Allowed(rows[k].status) => rows[k].status = "onboarding"
  BY <1>1 DEF Allowed, Statuses
<1>4. CASE RejectMembership(r, k)
  BY <1>2, <1>4, HoldRowInv DEF RejectMembership, Statuses
<1>5. CASE CompleteOnboarding(r, k)
  BY <1>3, <1>5, HoldRowInv DEF CompleteOnboarding, Statuses
<1>6. CASE TouchMembership(r, k)
  BY <1>1, <1>6, <1>2, <1>3, HoldRowInv DEF TouchMembership
<1> QED
  BY <1>4, <1>5, <1>6

LEMMA CheckRosterInv ==
    ASSUME IInv, NEW r \in Requests, CheckRoster(r)
    PROVE  IInv'
<1> DEFINE o == req[r]
           q == [o EXCEPT !.at = "seat"]
<1>1. o \in Asked /\ Fits(o, joined, seat, invites, rows) /\ o.at = "check" /\ o.user \in Users
  BY DEF CheckRoster, IInv, AllFit, TypeOK, Fits, WithUser
<1>2. UNCHANGED store /\ (Become(r, Free) \/ (roster[o.user] # None /\ Become(r, q)))
  BY DEF CheckRoster
<1>3. roster[o.user] # None => o.user \in joined
  BY <1>1 DEF IInv, RosterJoined
<1> HIDE DEF o
<1>4. o.user \in joined => q \in Asked /\ Fits(q, joined, seat, invites, rows)
  BY <1>1 DEF Asked, Fits, WithUser, Adds
<1> HIDE DEF q
<1> QED
  BY <1>2, <1>3, <1>4, FreeFits, BecomeCounts, QuietStep

LEMMA MovedStatus ==
    ASSUME NEW s \in Statuses, NEW t \in Statuses
    PROVE  Moved(s, t) \in Statuses /\ (Moved(s, t) = s \/ Moved(s, t) = t)
  BY DEF Moved

LEMMA FindMembershipInv ==
    ASSUME IInv, NEW r \in Requests, FindMembership(r)
    PROVE  IInv'
<1> DEFINE o == req[r]
           u == o.user
           n == [id |-> 0, user |-> u, status |-> "pending", source |-> "invite", auto |-> FALSE]
           x == IF Newest(u) # 0 THEN HeldRow(Newest(u)) ELSE n
           t == Moved(x.status, "onboarding")
           y == [x EXCEPT !.status = t]
           at == IF o.group THEN "seat" ELSE "enrol"
           q == [o EXCEPT !.at = at, !.row = y]
<1>1. o \in Asked /\ Fits(o, joined, seat, invites, rows) /\ o.at = "find" /\ u \in Users
        /\ u \in joined
  BY DEF FindMembership, IInv, AllFit, TypeOK, Fits, WithUser
<1>2. UNCHANGED store /\ Become(r, q)
  BY DEF FindMembership
<1>3. x \in Held /\ Backed(x, rows) /\ x.user = u /\ Enrolled(x, joined, seat)
  <2>1. CASE Newest(u) # 0
    BY <1>1, <2>1, NewestIsOne, HeldRowFits
  <2>2. CASE Newest(u) = 0
    <3>1. n \in Held /\ n.id = 0 /\ n.user = u /\ n.status # "active"
      BY <1>1 DEF Held, Statuses
    <3> QED
      BY <1>1, <2>2, <3>1 DEF Backed, Enrolled
  <2> QED
    BY <2>1, <2>2
<1> HIDE DEF x
<1>4. t \in Statuses /\ (t = x.status \/ t = "onboarding")
  BY <1>3, MovedStatus DEF Held, Statuses
<1> HIDE DEF t
<1>5. y \in Held /\ y.user = u /\ y.id = x.id /\ y.source = x.source /\ y.auto = x.auto
        /\ y.status = t
  BY <1>3, <1>4 DEF Held
<1> HIDE DEF y
<1>6. Backed(y, rows) /\ y # None
  BY <1>3, <1>5 DEF Backed
<1>7. Enrolled(y, joined, seat)
  BY <1>1, <1>3, <1>4, <1>5 DEF Enrolled
<1>8. at \in {"seat", "enrol"}
  OBVIOUS
<1> HIDE DEF at, o
<1>9. q \in Asked
  BY <1>1, <1>5, <1>8 DEF Asked
<1>10. Fits(q, joined, seat, invites, rows)
  BY <1>1, <1>5, <1>6, <1>7, <1>8 DEF Asked, Fits, WithUser, Adds
<1> HIDE DEF q
<1> QED
  BY <1>2, <1>9, <1>10, BecomeCounts, QuietStep

LEMMA FailInv ==
    ASSUME IInv, NEW r \in Requests, Fail(r)
    PROVE  IInv'
  BY FreeFits, BecomeCounts, QuietStep DEF Fail

-----------------------------------------------------------------------------
(***************************************************************************)
(* Requests that write.                                                    *)
(***************************************************************************)

\* Of the tables a step writes, only these facts have to be shown anew.
LEMMA WriteStep ==
    ASSUME IInv, Grows, begun' \in 0 .. MaxCommands, NEW r \in Requests, NEW q \in Asked,
           req' = [req EXCEPT ![r] = q], Fits(q, joined', seat', invites', rows'),
           roster' \in [Users -> Members \cup {None}], deleted' \in BOOLEAN,
           invites' \in [Invites -> Invitations \cup {None}],
           rows' \in Seq(Rows), Len(rows') <= MaxRows,
           seat' \in [Users -> {"none", "active", "past"}], joined' \subseteq Users,
           RosterJoined', SeatedHasJoined', AcceptedHasJoined', RowsEnrolled'
    PROVE  IInv'
<1>1. AllFit' /\ req' \in [Requests -> Asked]
  BY RequestStep DEF IInv
<1> QED
  BY <1>1 DEF IInv, TypeOK

LEMMA Same ==
    ASSUME IInv
    PROVE  /\ roster \in [Users -> Members \cup {None}] /\ deleted \in BOOLEAN
           /\ invites \in [Invites -> Invitations \cup {None}]
           /\ rows \in Seq(Rows) /\ Len(rows) <= MaxRows /\ Len(rows) \in Nat
           /\ seat \in [Users -> {"none", "active", "past"}] /\ joined \subseteq Users
           /\ RosterJoined /\ SeatedHasJoined /\ AcceptedHasJoined /\ RowsEnrolled
  BY DEF IInv, TypeOK

\* What a table that is left alone goes on meeting while the others grow.
LEMMA RosterStays == ASSUME IInv, Grows, UNCHANGED roster PROVE RosterJoined'
  BY DEF IInv, RosterJoined, Grows

LEMMA SeatsStay == ASSUME IInv, Grows, UNCHANGED seat PROVE SeatedHasJoined'
  BY DEF IInv, SeatedHasJoined, Grows

LEMMA InvitesStay == ASSUME IInv, Grows, UNCHANGED invites PROVE AcceptedHasJoined'
  BY DEF IInv, AcceptedHasJoined, Grows

LEMMA RowsStay == ASSUME IInv, Grows, UNCHANGED rows PROVE RowsEnrolled'
<1> SUFFICES ASSUME NEW k \in 1 .. Len(rows)
             PROVE  Enrolled(rows[k], joined', seat')
  BY DEF RowsEnrolled
<1>1. Enrolled(rows[k], joined, seat)
  BY DEF IInv, RowsEnrolled
<1>2. rows[k].user \in Users
  <2>1. rows[k] \in Rows
    BY DEF IInv, TypeOK
  <2> QED
    BY <2>1 DEF Rows
<1> QED
  BY <1>1, <1>2 DEF Enrolled, Grows

LEMMA SavedTyped ==
    ASSUME TypeOK, NEW u \in Users, NEW role \in Roles \cup {None}
    PROVE  SavedRow(u, role) \in Members \cup {None} /\ (role = None => SavedRow(u, role) = None)
<1> DEFINE m == roster[u]
           n == [m EXCEPT !.role = role]
<1>1. CASE role = None
  BY <1>1 DEF SavedRow
<1>2. CASE role # None /\ m = None
  BY <1>2 DEF SavedRow, Members
<1>3. CASE role # None /\ m # None
  <2>1. m \in Members
    BY <1>3 DEF TypeOK
  <2>2. SavedRow(u, role) = n
    BY <1>3 DEF SavedRow
  <2> HIDE DEF m
  <2>3. n \in Members
    BY <2>1, <1>3 DEF Members
  <2> QED
    BY <2>2, <2>3, <1>3
<1> QED
  BY <1>1, <1>2, <1>3

LEMMA CommitSchoolInv ==
    ASSUME IInv, NEW r \in Requests, CommitSchool(r)
    PROVE  IInv'
<1> DEFINE o == req[r]
           a == [o EXCEPT !.at = "invite", !.copy = Nobody, !.gone = FALSE]
           e == [o EXCEPT !.at = "ensure", !.copy = Nobody, !.gone = FALSE]
<1>1. o \in Asked /\ Fits(o, joined, seat, invites, rows) /\ o.at = "save"
  BY DEF CommitSchool, IInv, AllFit, TypeOK
<1>2. o.copy \in Copies /\ o.gone \in BOOLEAN
  BY <1>1 DEF Asked
<1>3. /\ roster' = [u \in Users |-> SavedRow(u, o.copy[u])] /\ deleted' = o.gone
      /\ joined' = joined \cup {u \in Users : o.copy[u] # None}
      /\ UNCHANGED <<invites, rows, seat>> /\ Become(r, AfterSave(o))
  BY DEF CommitSchool, SaveSchool
<1>4. Grows
  BY <1>3, Same DEF Grows
<1>5. roster' \in [Users -> Members \cup {None}]
  BY <1>2, <1>3, SavedTyped DEF IInv, Copies
<1>6. RosterJoined'
  BY <1>2, <1>3, SavedTyped DEF IInv, RosterJoined, Copies
<1>7. joined' \subseteq Users
  BY <1>3, Same
<1>8. o.op \in Adds => o.user \in joined' /\ o.user \in Users
  BY <1>1, <1>3 DEF Fits
<1>9. \/ AfterSave(o) = Free
      \/ o.op = "accept" /\ AfterSave(o) = a
      \/ o.op \in {"add", "apply", "approve"} /\ AfterSave(o) = e
  BY DEF AfterSave
<1>10. Fits(o, joined', seat', invites', rows')
  BY <1>1, <1>4, FitStays DEF IInv
<1> HIDE DEF o
<1>11. ASSUME o.op = "accept" PROVE a \in Asked /\ Fits(a, joined', seat', invites', rows')
  BY <1>1, <1>8, <1>10, <1>11, FreeFits DEF Asked, Free, Fits, WithUser, Adds
<1>12. ASSUME o.op \in {"add", "apply", "approve"}
       PROVE  e \in Asked /\ Fits(e, joined', seat', invites', rows')
  BY <1>1, <1>8, <1>10, <1>12, FreeFits DEF Asked, Free, Fits, WithUser, Adds
<1>13. AfterSave(o) \in Asked /\ Fits(AfterSave(o), joined', seat', invites', rows')
  BY <1>9, <1>11, <1>12, FreeFits
<1>14. SeatedHasJoined' /\ AcceptedHasJoined' /\ RowsEnrolled'
  BY <1>3, <1>4, SeatsStay, InvitesStay, RowsStay
<1> QED
  BY <1>2, <1>3, <1>4, <1>5, <1>6, <1>7, <1>13, <1>14, Same, BecomeCounts, WriteStep

LEMMA CommitArchiveInv ==
    ASSUME IInv, NEW r \in Requests, CommitArchive(r)
    PROVE  IInv'
<1> DEFINE u == req[r].user
           m == roster[u]
           n == [m EXCEPT !.status = "archived"]
<1>1. u \in Users /\ UNCHANGED <<deleted, invites, rows, joined>> /\ Become(r, Free)
  BY DEF CommitArchive, IInv, AllFit, Fits, WithUser
<1>2. CASE m = None
  <2>1. UNCHANGED store
    BY <1>1, <1>2 DEF CommitArchive, store
  <2> QED
    BY <1>1, <2>1, FreeFits, BecomeCounts, QuietStep
<1>3. CASE m # None
  <2>1. m \in Members
    BY <1>1, <1>3, Same
  <2>2. roster' = [roster EXCEPT ![u] = n]
    BY <1>3 DEF CommitArchive
  <2>3. seat' = [seat EXCEPT ![u] = IF seat[u] = "active" THEN "past" ELSE seat[u]]
    BY <1>3 DEF CommitArchive
  <2> HIDE DEF m
  <2>4. n \in Members
    BY <2>1 DEF Members
  <2> HIDE DEF n, u
  <2>5. roster' \in [Users -> Members \cup {None}] /\ seat' \in [Users -> {"none", "active", "past"}]
    BY <1>1, <2>2, <2>3, <2>4, Same
  <2>6. Grows
    BY <1>1, <2>3, Same DEF Grows
  <2>7. RosterJoined'
    BY <1>1, <1>3, <2>2, Same DEF RosterJoined, u, m
  <2>8. SeatedHasJoined'
    BY <1>1, <2>3, Same DEF SeatedHasJoined
  <2> QED
    BY <1>1, <2>5, <2>6, <2>7, <2>8, Same, InvitesStay, RowsStay, FreeFits, BecomeCounts, WriteStep
<1> QED
  BY <1>2, <1>3

LEMMA CommitGrantInv ==
    ASSUME IInv, NEW r \in Requests, CommitGrant(r)
    PROVE  IInv'
<1> DEFINE u == req[r].user
           m == roster[u]
           n == [m EXCEPT !.extras = TRUE]
<1>1. u \in Users /\ UNCHANGED <<deleted, invites, rows, seat, joined>> /\ Become(r, Free)
  BY DEF CommitGrant, IInv, AllFit, Fits, WithUser
<1>2. CASE m = None
  <2>1. UNCHANGED store
    BY <1>1, <1>2 DEF CommitGrant, store
  <2> QED
    BY <1>1, <2>1, FreeFits, BecomeCounts, QuietStep
<1>3. CASE m # None
  <2>1. m \in Members
    BY <1>1, <1>3, Same
  <2>2. roster' = [roster EXCEPT ![u] = n]
    BY <1>3 DEF CommitGrant
  <2> HIDE DEF m
  <2>3. n \in Members
    BY <2>1 DEF Members
  <2> HIDE DEF n, u
  <2>4. roster' \in [Users -> Members \cup {None}]
    BY <1>1, <2>2, <2>3, Same
  <2>5. Grows
    BY <1>1, Same DEF Grows
  <2>6. RosterJoined'
    BY <1>1, <1>3, <2>2, Same DEF RosterJoined, u, m
  <2> QED
    BY <1>1, <2>4, <2>5, <2>6, Same, SeatsStay, InvitesStay, RowsStay, FreeFits, BecomeCounts,
       WriteStep
<1> QED
  BY <1>2, <1>3

LEMMA CommitSendInv ==
    ASSUME IInv, NEW r \in Requests, CommitSend(r)
    PROVE  IInv'
<1> DEFINE o == req[r]
           n == [user |-> o.user, role |-> o.role, group |-> o.group, status |-> "PENDING"]
<1>1. o \in Asked /\ o.user \in Users /\ o.role \in Roles /\ o.group \in BOOLEAN
  BY DEF CommitSend, IInv, AllFit, TypeOK, Fits, WithUser, Asked
<1>2. UNCHANGED <<roster, deleted, rows, seat, joined>> /\ Become(r, Free)
  BY DEF CommitSend
<1>3. PICK i \in Invites : invites[i] = None /\ invites' = [invites EXCEPT ![i] = n]
  BY DEF CommitSend
<1>4. n \in Invitations /\ n.status # "ACCEPTED"
  BY <1>1 DEF Invitations
<1> HIDE DEF n
<1>5. invites' \in [Invites -> Invitations \cup {None}]
  BY <1>3, <1>4, Same
<1>6. Grows
  BY <1>2, <1>3, Same DEF Grows
<1>7. AcceptedHasJoined'
  BY <1>2, <1>3, <1>4, Same DEF AcceptedHasJoined
<1> QED
  BY <1>2, <1>5, <1>6, <1>7, Same, RosterStays, SeatsStay, RowsStay, FreeFits, BecomeCounts,
     WriteStep

LEMMA CommitInvitationInv ==
    ASSUME IInv, NEW r \in Requests, CommitInvitation(r)
    PROVE  IInv'
<1> DEFINE o == req[r]
           i == o.invite
           m == invites[i]
           n == [m EXCEPT !.status = Written(o.op)]
           next == IF o.role = "STUDENT" THEN "find" ELSE "grant"
           q == [o EXCEPT !.at = next]
<1>1. o \in Asked /\ Fits(o, joined, seat, invites, rows) /\ o.at = "invite"
  BY DEF CommitInvitation, IInv, AllFit, TypeOK
<1>2. /\ UNCHANGED <<roster, deleted, rows, seat, joined>> /\ invites' = [invites EXCEPT ![i] = n]
      /\ (o.op # "accept" /\ Become(r, Free)) \/ (o.op = "accept" /\ Become(r, q))
  BY DEF CommitInvitation
<1>3. i \in Invites /\ m # None /\ m \in Invitations
  BY <1>1, InvitationTyped DEF Fits
<1>4. o.op = "accept" => m.user = o.user /\ o.user \in joined /\ o.user \in Users
  BY <1>1, Same DEF Fits
<1>5. Written(o.op) \in {"PENDING", "ACCEPTED", "REVOKED", "EXPIRED"}
        /\ (Written(o.op) = "ACCEPTED" => o.op = "accept")
  BY DEF Written
<1> HIDE DEF m
<1>6. n \in Invitations /\ n.user = m.user /\ n.status = Written(o.op)
  BY <1>3, <1>5 DEF Invitations
<1> HIDE DEF n, i
<1>7. invites' \in [Invites -> Invitations \cup {None}]
  BY <1>2, <1>3, <1>6, Same
<1>8. Grows
  BY <1>2, <1>3, <1>6, Same DEF Grows, m
<1>9. AcceptedHasJoined'
  BY <1>2, <1>3, <1>4, <1>5, <1>6, Same DEF AcceptedHasJoined
<1>10. Fits(o, joined', seat', invites', rows')
  BY <1>1, <1>8, FitStays DEF IInv
<1>11. next \in {"find", "grant"}
  OBVIOUS
<1> HIDE DEF next, o
<1>12. o.op = "accept" => q \in Asked /\ Fits(q, joined', seat', invites', rows')
  BY <1>1, <1>2, <1>4, <1>10, <1>11 DEF Asked, Fits, WithUser, Adds
<1> HIDE DEF q
<1> QED
  BY <1>2, <1>7, <1>8, <1>9, <1>12, Same, RosterStays, SeatsStay, RowsStay, FreeFits, BecomeCounts,
     WriteStep

\* A row put at the end of the enrolments.
LEMMA RowAdded ==
    ASSUME IInv, NEW n \in Rows, Len(rows) < MaxRows, rows' = Append(rows, n),
           UNCHANGED <<seat, joined, invites>>, Enrolled(n, joined, seat)
    PROVE  Grows /\ rows' \in Seq(Rows) /\ Len(rows') <= MaxRows /\ RowsEnrolled'
<1>1. rows \in Seq(Rows) /\ Len(rows) \in Nat
  BY Same
<1>2. /\ rows' \in Seq(Rows) /\ Len(rows') = Len(rows) + 1
      /\ \A k \in 1 .. Len(rows) : rows'[k] = rows[k]
      /\ rows'[Len(rows) + 1] = n
  BY <1>1
<1>3. Grows
  BY <1>1, <1>2 DEF Grows
<1>4. ASSUME NEW k \in 1 .. Len(rows') PROVE Enrolled(rows'[k], joined', seat')
  <2>1. CASE k = Len(rows) + 1
    BY <1>2, <2>1
  <2>2. CASE k \in 1 .. Len(rows)
    BY <1>2, <2>2 DEF IInv, RowsEnrolled
  <2> QED
    BY <1>1, <1>2, <2>1, <2>2
<1> QED
  BY <1>1, <1>2, <1>3, <1>4 DEF RowsEnrolled

LEMMA CommitDirectInv ==
    ASSUME IInv, NEW r \in Requests, CommitDirect(r)
    PROVE  IInv'
<1> DEFINE o == req[r]
           n == [user |-> o.user, status |-> "active", source |-> "direct", auto |-> FALSE]
<1>1. o \in Asked /\ Fits(o, joined, seat, invites, rows) /\ o.at = "direct" /\ o.user \in joined
        /\ o.user \in Users
  BY DEF CommitDirect, IInv, AllFit, TypeOK, Fits, WithUser
<1>2. /\ UNCHANGED <<roster, deleted, invites, seat, joined>> /\ Become(r, AfterAdd(o))
      /\ Len(rows) < MaxRows /\ rows' = Append(rows, n)
  BY DEF CommitDirect, NewRow
<1>3. n \in Rows /\ Enrolled(n, joined, seat)
  BY <1>1 DEF Rows, Statuses, Enrolled
<1> HIDE DEF n
<1>4. Grows /\ rows' \in Seq(Rows) /\ Len(rows') <= MaxRows /\ RowsEnrolled'
  BY <1>2, <1>3, RowAdded
<1>5. AfterAdd(o) \in Asked /\ Fits(AfterAdd(o), joined, seat, invites, rows)
  BY <1>1, AfterAddFits
<1>6. Fits(AfterAdd(o), joined', seat', invites', rows')
  BY <1>4, <1>5, FitStays DEF IInv
<1> QED
  BY <1>2, <1>4, <1>5, <1>6, Same, RosterStays, SeatsStay, InvitesStay, BecomeCounts, WriteStep

LEMMA ApplyInv ==
    ASSUME IInv, NEW r \in Requests, NEW u \in Users, NEW auto \in BOOLEAN, Apply(r, u, auto)
    PROVE  IInv'
<1> DEFINE s == IF auto THEN "onboarding" ELSE "pending"
           n == [user |-> u, status |-> s, source |-> "public-apply", auto |-> auto]
           a == [Free EXCEPT !.op = "apply", !.at = "add", !.user = u]
<1>1. /\ UNCHANGED <<roster, deleted, invites, seat, joined>>
      /\ Begin(r, a) \/ Begin(r, Free)
      /\ Len(rows) < MaxRows /\ rows' = Append(rows, n)
  BY DEF Apply, NewRow
<1>2. (s = "onboarding" /\ auto) \/ s = "pending"
  BY Zenon
<1>3. s \in Statuses
  BY DEF Statuses
<1> HIDE DEF s
<1>4. n \in Rows /\ n.user = u /\ n.source = "public-apply" /\ n.status = s /\ n.auto = auto
  BY <1>3 DEF Rows
<1> HIDE DEF n
<1>5. MayBeOutside(n) /\ n.status # "active"
  BY <1>2, <1>4 DEF MayBeOutside
<1>6. Enrolled(n, joined, seat)
  BY <1>5 DEF Enrolled
<1>7. Grows /\ rows' \in Seq(Rows) /\ Len(rows') <= MaxRows /\ RowsEnrolled'
  BY <1>1, <1>4, <1>6, RowAdded
<1>8. a \in Asked /\ Fits(a, joined', seat', invites', rows')
  BY FreeFits DEF Asked, Free, Fits, WithUser, Adds
<1> HIDE DEF a
<1> QED
  BY <1>1, <1>7, <1>8, Same, RosterStays, SeatsStay, InvitesStay, FreeFits, BeginCounts, WriteStep

LEMMA TakeSeatInv ==
    ASSUME IInv, NEW r \in Requests, TakeSeat(r)
    PROVE  IInv'
<1> DEFINE o == req[r]
           u == o.user
           x == o.row
           t == Moved(Moved(x.status, "placement-review"), "active")
           y == [x EXCEPT !.status = t]
           q == [o EXCEPT !.at = "enrol", !.row = y]
<1>1. o \in Asked /\ Fits(o, joined, seat, invites, rows) /\ o.at = "seat" /\ u \in Users
        /\ u \in joined
  BY DEF TakeSeat, IInv, AllFit, TypeOK, Fits, WithUser
<1>2. /\ UNCHANGED <<roster, deleted, invites, rows, joined>>
      /\ seat' = [seat EXCEPT ![u] = "active"]
      /\ Become(r, Free) \/ (o.op # "seat" /\ Become(r, q))
  BY DEF TakeSeat
<1>3. /\ seat' \in [Users -> {"none", "active", "past"}] /\ SeatedHasJoined' /\ Grows
      /\ seat'[u] # "none"
  <2> HIDE DEF u
  <2>1. seat' \in [Users -> {"none", "active", "past"}] /\ seat'[u] # "none"
    BY <1>1, <1>2, Same
  <2>2. SeatedHasJoined'
    BY <1>1, <1>2, Same DEF SeatedHasJoined
  <2>3. Grows
    BY <1>2, Same DEF Grows
  <2> QED
    BY <2>1, <2>2, <2>3
<1>4. o.op # "seat" => x \in Held /\ x # None /\ Backed(x, rows') /\ x.user = u
  BY <1>1, <1>2 DEF Fits, Asked
<1> HIDE DEF x
<1>5. o.op # "seat" => t \in Statuses
  <2> SUFFICES ASSUME o.op # "seat" PROVE t \in Statuses
    OBVIOUS
  <2>1. x.status \in Statuses /\ "placement-review" \in Statuses /\ "active" \in Statuses
    BY <1>4 DEF Held, Statuses
  <2>2. Moved(x.status, "placement-review") \in Statuses
    BY <2>1, MovedStatus
  <2> QED
    BY <2>1, <2>2, MovedStatus
<1> HIDE DEF t
<1>6. o.op # "seat" => y \in Held /\ y.user = u /\ y.id = x.id /\ y.source = x.source
                         /\ y.auto = x.auto
  BY <1>4, <1>5 DEF Held
<1> HIDE DEF y
<1>7. o.op # "seat" => Backed(y, rows') /\ y # None /\ Enrolled(y, joined', seat')
  BY <1>1, <1>2, <1>3, <1>4, <1>6 DEF Backed, Enrolled
<1>8. o.op # "seat" => q \in Asked
  BY <1>1, <1>6 DEF Asked
<1>9. o.op # "seat" => Fits(q, joined', seat', invites', rows')
  BY <1>1, <1>6, <1>7 DEF Asked, Fits, WithUser, Adds
<1> HIDE DEF q, o
<1> QED
  BY <1>2, <1>3, <1>8, <1>9, Same, RosterStays, InvitesStay, RowsStay, FreeFits, BecomeCounts,
     WriteStep

LEMMA LeaveGroupInv ==
    ASSUME IInv, NEW u \in Users, LeaveGroup(u)
    PROVE  IInv'
<1>1. UNCHANGED <<roster, deleted, invites, rows, joined, req, begun>> /\ seat[u] = "active"
        /\ seat' = [seat EXCEPT ![u] = "past"]
  BY DEF LeaveGroup
<1>2. seat' \in [Users -> {"none", "active", "past"}] /\ SeatedHasJoined'
  BY <1>1, Same DEF SeatedHasJoined
<1>3. Grows
  BY <1>1, Same DEF Grows
<1>4. ASSUME NEW t \in Requests PROVE Fits(req'[t], joined', seat', invites', rows')
  <2>1. req[t] \in Asked /\ Fits(req[t], joined, seat, invites, rows) /\ req'[t] = req[t]
    BY <1>1 DEF IInv, AllFit, TypeOK
  <2> QED
    BY <1>3, <2>1, FitStays DEF IInv
<1>5. AllFit'
  BY <1>4 DEF AllFit
<1>6. RosterJoined' /\ AcceptedHasJoined' /\ RowsEnrolled'
  BY <1>1, <1>3, RosterStays, InvitesStay, RowsStay
<1>7. TypeOK'
  BY <1>1, <1>2 DEF IInv, TypeOK
<1> QED
  BY <1>2, <1>5, <1>6, <1>7 DEF IInv

LEMMA CommitRowInv ==
    ASSUME IInv, NEW r \in Requests, CommitRow(r)
    PROVE  IInv'
<1> DEFINE x == req[r].row
           n == [user |-> x.user, status |-> x.status, source |-> x.source, auto |-> x.auto]
           m == rows[x.id]
           w == [m EXCEPT !.status = x.status]
<1>1. req[r] \in Asked /\ Fits(req[r], joined, seat, invites, rows) /\ req[r].at = "enrol"
  BY DEF CommitRow, IInv, AllFit, TypeOK
<1>2. x \in Held /\ Backed(x, rows) /\ Enrolled(x, joined, seat)
  BY <1>1 DEF Fits, Asked
<1>3. UNCHANGED <<roster, deleted, invites, seat, joined>> /\ Become(r, Free)
  BY DEF CommitRow
<1>4. Grows /\ rows' \in Seq(Rows) /\ Len(rows') <= MaxRows /\ RowsEnrolled'
  <2>1. CASE x.id = 0
    <3>1. Len(rows) < MaxRows /\ rows' = Append(rows, n)
      BY <2>1 DEF CommitRow, NewRow
    <3> HIDE DEF x
    <3>2. n \in Rows /\ Enrolled(n, joined, seat)
      BY <1>2 DEF Held, Rows, Enrolled, MayBeOutside
    <3> HIDE DEF n
    <3> QED
      BY <1>3, <3>1, <3>2, RowAdded
  <2>2. CASE x.id # 0
    <3>1. rows' = [rows EXCEPT ![x.id] = w]
      BY <2>2 DEF CommitRow
    <3>2. x.id \in 1 .. Len(rows) /\ m.user = x.user /\ m.source = x.source /\ m.auto = x.auto
      BY <1>2, <2>2 DEF Backed
    <3> HIDE DEF x
    <3>3. m \in Rows
      BY <3>2, Same
    <3> HIDE DEF m
    <3>4. w \in Rows /\ w.user = x.user /\ w.source = x.source /\ w.auto = x.auto
            /\ w.status = x.status
      BY <1>2, <3>2, <3>3 DEF Rows, Held
    <3> HIDE DEF w
    <3>5. Enrolled(w, joined, seat)
      BY <1>2, <3>4 DEF Enrolled, MayBeOutside
    <3>6. /\ rows' \in Seq(Rows) /\ Len(rows') = Len(rows)
          /\ \A k \in 1 .. Len(rows) : rows'[k] = IF k = x.id THEN w ELSE rows[k]
      BY <3>1, <3>2, <3>4, Same
    <3>7. Grows
      BY <1>3, <3>2, <3>4, <3>6, Same DEF Grows, m
    <3>8. RowsEnrolled'
      <4> SUFFICES ASSUME NEW k \in 1 .. Len(rows)
                   PROVE  Enrolled(rows'[k], joined, seat)
        BY <1>3, <3>6 DEF RowsEnrolled
      <4>1. Enrolled(rows[k], joined, seat)
        BY Same DEF RowsEnrolled
      <4> QED
        BY <3>5, <3>6, <4>1
    <3> QED
      BY <3>6, <3>7, <3>8, Same
  <2> QED
    BY <2>1, <2>2
<1> QED
  BY <1>3, <1>4, Same, RosterStays, SeatsStay, InvitesStay, FreeFits, BecomeCounts, WriteStep

-----------------------------------------------------------------------------
(***************************************************************************)
(* The theorems.                                                           *)
(***************************************************************************)

LEMMA RosterRequestInv ==
    ASSUME IInv, NEW r \in Requests, RosterRequest(r)
    PROVE  IInv'
<1>1. \/ UpdateSchool(r) \/ DeleteSchool(r)
      \/ AddInside(r) \/ CommitSchool(r) \/ CommitArchive(r) \/ CommitGrant(r)
      \/ \E u \in Users, role \in Roles : AddMember(r, u, role)
      \/ \E u \in Users : RemoveMember(r, u) \/ RemoveStudent(r, u) \/ UpdatePermissions(r, u)
  BY Zenon DEF RosterRequest
<1> QED
  BY <1>1, UpdateSchoolInv, AddInsideInv, CommitSchoolInv, CommitArchiveInv, CommitGrantInv,
     AddMemberInv, RemoveMemberInv, PersonInv

LEMMA InvitationRequestInv ==
    ASSUME IInv, NEW r \in Requests, InvitationRequest(r)
    PROVE  IInv'
  BY CommitSendInv, LoadForAcceptInv, CommitInvitationInv, SendInvitationInv, InvitationInv,
     AcceptInvitationInv DEF InvitationRequest

LEMMA EnrolmentRequestInv ==
    ASSUME IInv, NEW r \in Requests, EnrolmentRequest(r)
    PROVE  IInv'
<1>1. \/ EnsureMembership(r) \/ CommitDirect(r) \/ CheckRoster(r)
      \/ FindMembership(r) \/ TakeSeat(r) \/ CommitRow(r)
      \/ \E u \in Users : AddGroupMember(r, u)
      \/ \E u \in Users, auto \in BOOLEAN : Apply(r, u, auto)
      \/ \E k \in 1 .. Len(rows) :
            \/ ApproveMembership(r, k) \/ RejectMembership(r, k) \/ CompleteOnboarding(r, k)
            \/ TouchMembership(r, k) \/ AssignGroup(r, k)
  BY Zenon DEF EnrolmentRequest
<1> QED
  BY <1>1, EnsureMembershipInv, CommitDirectInv, CheckRosterInv, FindMembershipInv, TakeSeatInv,
     CommitRowInv, PersonInv, ApplyInv, ApproveMembershipInv, RowRequestInv, AssignGroupInv

LEMMA NextInv == IInv /\ [Next]_vars => IInv'
<1> SUFFICES ASSUME IInv, [Next]_vars PROVE IInv'
  OBVIOUS
<1>1. CASE UNCHANGED vars
  <2>1. UNCHANGED <<roster, deleted, invites, rows, seat, req, begun, joined>>
    BY <1>1 DEF vars, store
  <2> QED
    BY <2>1 DEF IInv, TypeOK, RosterJoined, SeatedHasJoined, AcceptedHasJoined, RowsEnrolled, AllFit
<1>2. CASE Next
  BY <1>2, RosterRequestInv, InvitationRequestInv, EnrolmentRequestInv, FailInv, LeaveGroupInv
     DEF Next
<1> QED
  BY <1>1, <1>2

LEMMA Invariant == Spec => []IInv
  BY InitInv, NextInv, PTL DEF Spec

\* The tables and the requests keep their types whatever overlaps.
THEOREM RosterTypeCorrect == Spec => []TypeOK
<1>1. IInv => TypeOK
  BY DEF IInv
<1> QED
  BY <1>1, Invariant, PTL

\* An invitation is marked accepted only after its guest stood on the roster
\* (accept-invitation writes the school first), wherever requests overlap or stop.
THEOREM AcceptedStoodOnRoster == Spec => []AcceptedHasJoined
<1>1. IInv => AcceptedHasJoined
  BY DEF IInv
<1> QED
  BY <1>1, Invariant, PTL

\* An enrolment past its application is of a person who stood on the roster, unless
\* the school admits by itself (approve-membership adds the student first).
THEOREM AdmittedStoodOnRoster == Spec => []AdmittedHasJoined
<1>1. IInv => AdmittedHasJoined
  BY DEF IInv, RowsEnrolled, Enrolled, AdmittedHasJoined
<1> QED
  BY <1>1, Invariant, PTL

\* A seat in the group was taken by somebody who stood on the roster.
THEOREM SeatedStoodOnRoster == Spec => []SeatedHasJoined
<1>1. IInv => SeatedHasJoined
  BY DEF IInv
<1> QED
  BY <1>1, Invariant, PTL

\* An enrolment that went through placement is active only once the student was seated
\* (assign-membership-group and an invitation into a group seat first).
THEOREM ActiveWasSeated == Spec => []ActiveHasSeat
<1>1. IInv => ActiveHasSeat
  BY DEF IInv, RowsEnrolled, Enrolled, ActiveHasSeat
<1> QED
  BY <1>1, Invariant, PTL

\* A request that is about to write the school moves on by that write or not at all.
LEMMA SavesOrFails ==
    ASSUME TypeOK, Next, NEW r \in Requests, req[r].at = "save", req'[r] # req[r]
    PROVE  CommitSchool(r) \/ Fail(r)
<1>1. ASSUME NEW t \in Requests, NEW q, Begin(t, q) PROVE FALSE
  BY <1>1 DEF Begin, TypeOK
<1>2. ASSUME NEW t \in Requests, NEW q, Become(t, q) PROVE t = r
  BY <1>2 DEF Become, TypeOK
<1>3. ASSUME NEW t \in Requests, RosterRequest(t) PROVE CommitSchool(r)
  BY <1>1, <1>2, <1>3 DEF RosterRequest, UpdateSchool, DeleteSchool, AddInside, CommitSchool,
     CommitArchive, CommitGrant, AddMember, RemoveMember, RemoveStudent, UpdatePermissions
<1>4. ASSUME NEW t \in Requests, InvitationRequest(t) PROVE FALSE
  BY <1>1, <1>2, <1>4 DEF InvitationRequest, CommitSend, LoadForAccept, CommitInvitation,
     SendInvitation, ResendInvitation, LateAcceptance, RevokeInvitation, AcceptInvitation
<1>5. ASSUME NEW t \in Requests, EnrolmentRequest(t) PROVE FALSE
  BY <1>1, <1>2, <1>5 DEF EnrolmentRequest, EnsureMembership, CommitDirect, CheckRoster,
     FindMembership, TakeSeat, CommitRow, AddGroupMember, Apply, ApproveMembership,
     RejectMembership, CompleteOnboarding, TouchMembership, HoldRow, AssignGroup
<1>6. ASSUME NEW t \in Requests, Fail(t) PROVE Fail(r)
  BY <1>2, <1>6 DEF Fail
<1>7. ASSUME NEW u \in Users, LeaveGroup(u) PROVE FALSE
  BY <1>7 DEF LeaveGroup
<1> QED
  BY <1>3, <1>4, <1>5, <1>6, <1>7 DEF Next

\* However old the copy it writes, a save of the school leaves a member's status, capability
\* grants and teacher attributes alone.
THEOREM OwnColumns == Spec => OwnColumnsSurvive
<1> DEFINE Kept(r, u) ==
        /\ req[r].at = "save" /\ req'[r] # req[r]
        /\ roster[u] # None /\ roster'[u] # None
        => <<roster'[u].status, roster'[u].extras>> = <<roster[u].status, roster[u].extras>>
<1>1. ASSUME IInv, [Next]_vars, NEW r \in Requests, NEW u \in Users
      PROVE  Kept(r, u)
  <2> SUFFICES ASSUME req[r].at = "save", req'[r] # req[r], roster[u] # None, roster'[u] # None
               PROVE  <<roster'[u].status, roster'[u].extras>>
                        = <<roster[u].status, roster[u].extras>>
    OBVIOUS
  <2>1. Next
    BY <1>1 DEF vars
  <2>2. CASE Fail(r)
    BY <2>2 DEF Fail, store
  <2>3. CASE CommitSchool(r)
    <3> DEFINE m == roster[u]
               role == req[r].copy[u]
               n == [m EXCEPT !.role = role]
    <3>1. m \in Members
      BY <1>1 DEF IInv, TypeOK
    <3>2. roster'[u] = SavedRow(u, role)
      BY <2>3 DEF CommitSchool, SaveSchool
    <3>3. roster'[u] = n
      BY <3>2 DEF SavedRow
    <3> HIDE DEF m, role
    <3>4. n.status = m.status /\ n.extras = m.extras
      BY <3>1 DEF Members
    <3> QED
      BY <3>3, <3>4 DEF m
  <2> QED
    BY <1>1, <2>1, <2>2, <2>3, SavesOrFails DEF IInv
<1>2. IInv /\ [Next]_vars => \A r \in Requests, u \in Users : Kept(r, u)
  BY <1>1
<1> QED
  BY <1>2, Invariant, PTL DEF Spec, OwnColumnsSurvive

=============================================================================

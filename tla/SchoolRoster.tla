---------------------------- MODULE SchoolRoster ----------------------------
(***************************************************************************)
(* The roster of one school of organization-service, its invitations, the  *)
(* enrolment rows (school_memberships) and one study group, under requests *)
(* that overlap and may stop anywhere.                                     *)
(*                                                                         *)
(* A request loads the school with its members, edits the copy and writes  *)
(* the whole aggregate back; an enrolment row and an invitation are read,  *)
(* changed and written whole in the same way.  Nothing carries a version   *)
(* and nothing is locked between the two.  What a request reads before its *)
(* first write is one step, every write is a step of its own.              *)
(*                                                                         *)
(* Abstractions.  The actor is the owner: what an administrator may do is  *)
(* decided on the same loaded copy and leads to the same states.  MANAGER  *)
(* stands for every staff role; extras are the rows that hang on a member  *)
(* and fall with it (capability grants, teacher attributes).  A teacher    *)
(* who is primary somewhere cannot be removed: a removal refused.  The     *)
(* group is there for the whole behaviour.  An enrolment row is as new as  *)
(* its first write; its source is the handler that made it (an application *)
(* may carry any source, which no handler looks at), and auto says that    *)
(* the school admitted it by itself.                                       *)
(***************************************************************************)
EXTENDS Integers, Sequences, FiniteSets

CONSTANTS
    Users,      \* people who are not the owner
    Requests,   \* the requests in flight at once
    Invites,    \* invitation ids
    None,
    MaxRows,    \* bound on enrolment rows
    MaxCommands \* bound on the commands a behaviour begins

VARIABLES
    roster,     \* school_members, by user
    deleted,    \* schools.deletedAt is set
    invites,    \* school_invitations
    rows,       \* school_memberships in the order of their creation
    seat,       \* the group's school_group_members: none, active, past
    req,        \* the requests
    begun,      \* how many commands were begun
    joined      \* history: everyone a save ever put on the roster

store == <<roster, deleted, invites, rows, seat, joined>>
vars == <<store, req, begun>>

-----------------------------------------------------------------------------
Roles == {"MANAGER", "STUDENT"}
Statuses == {"pending", "onboarding", "placement-review", "active", "rejected", "left"}
Terminal == {"rejected", "left"}

Allowed(s) ==
    CASE s = "pending" -> {"onboarding", "rejected"}
      [] s = "onboarding" -> {"placement-review"}
      [] s = "placement-review" -> {"active"}
      [] s = "active" -> {"left"}
      [] OTHER -> {}

\* The status after a step that is taken only where it is allowed.
Moved(s, next) == IF next \in Allowed(s) THEN next ELSE s

Members == [role : Roles, status : {"active", "archived"}, extras : BOOLEAN]
Invitations == [user : Users, role : Roles, group : BOOLEAN,
                status : {"PENDING", "ACCEPTED", "REVOKED", "EXPIRED"}]
Rows == [user : Users, status : Statuses, source : {"public-apply", "invite", "direct"},
         auto : BOOLEAN]
\* A row as a request holds it: id 0 is a row not yet written.
Held == [id : 0 .. MaxRows, user : Users, status : Statuses,
         source : {"public-apply", "invite", "direct"}, auto : BOOLEAN]
Copies == [Users -> Roles \cup {None}]
Asked == [op : {"none", "add", "remove", "update", "delete", "archive", "grant", "send",
                "resend", "revoke", "expire", "accept", "apply", "approve", "row", "assign", "seat"},
          at : {"free", "invited", "add", "save", "ensure", "direct", "invite", "send",
                "find", "check", "seat", "enrol", "archive", "grant"},
          user : Users \cup {None}, role : Roles \cup {None}, group : BOOLEAN,
          invite : Invites \cup {None}, copy : Copies, gone : BOOLEAN,
          row : Held \cup {None}]

ASSUME RosterAssumption ==
    /\ MaxRows \in Nat /\ MaxCommands \in Nat
    /\ None \notin Users /\ None \notin Invites /\ None \notin Roles
    /\ None \notin Members /\ None \notin Invitations /\ None \notin Held

Nobody == [u \in Users |-> None]
Free == [op |-> "none", at |-> "free", user |-> None, role |-> None, group |-> FALSE,
         invite |-> None, copy |-> Nobody, gone |-> FALSE, row |-> None]

Init ==
    /\ roster = [u \in Users |-> None]
    /\ deleted = FALSE
    /\ invites = [i \in Invites |-> None]
    /\ rows = <<>>
    /\ seat = [u \in Users |-> "none"]
    /\ req = [r \in Requests |-> Free]
    /\ begun = 0
    /\ joined = {}

-----------------------------------------------------------------------------
(* The aggregate.                                                          *)

RolesNow == [u \in Users |-> IF roster[u] = None THEN None ELSE roster[u].role]

Become(r, q) == req' = [req EXCEPT ![r] = q] /\ UNCHANGED begun
Begin(r, q) ==
    /\ req[r].at = "free" /\ begun < MaxCommands
    /\ req' = [req EXCEPT ![r] = q]
    /\ begun' = begun + 1

\* Mutant: the roster is cleared first and written anew.
SavedRow_Anew(u, role) ==
    IF role = None THEN None ELSE [role |-> role, status |-> "active", extras |-> FALSE]

\* SchoolPrismaRepository.save: upsert what the copy holds, delete the rest.  The
\* columns the aggregate does not carry stay as they are.
SavedRow(u, role) ==
    IF role = None THEN None
    ELSE IF roster[u] = None THEN [role |-> role, status |-> "active", extras |-> FALSE]
    ELSE [roster[u] EXCEPT !.role = role]

SaveSchool(q) ==
    /\ roster' = [u \in Users |-> SavedRow(u, q.copy[u])]
    /\ deleted' = q.gone
    /\ joined' = joined \cup {u \in Users : q.copy[u] # None}

AddMember(r, u, role) ==
    /\ roster[u] = None
    /\ Begin(r, [Free EXCEPT !.op = "add", !.at = "save", !.user = u, !.role = role,
                             !.copy = [RolesNow EXCEPT ![u] = role], !.gone = deleted])
    /\ UNCHANGED store

RemoveMember(r, u) ==
    /\ Begin(r, [Free EXCEPT !.op = "remove", !.at = "save", !.user = u,
                             !.copy = [RolesNow EXCEPT ![u] = None], !.gone = deleted])
    /\ UNCHANGED store

UpdateSchool(r) ==
    /\ Begin(r, [Free EXCEPT !.op = "update", !.at = "save", !.copy = RolesNow,
                             !.gone = deleted])
    /\ UNCHANGED store

DeleteSchool(r) ==
    /\ Begin(r, [Free EXCEPT !.op = "delete", !.at = "save", !.copy = RolesNow,
                             !.gone = TRUE])
    /\ UNCHANGED store

\* The command an approval or an automatic admission runs inside itself: it loads
\* the school again, and a member already there ends the whole request.
AddInside(r) ==
    LET q == req[r] IN
    /\ q.at = "add"
    /\ Become(r, IF roster[q.user] # None THEN Free
                 ELSE [q EXCEPT !.at = "save", !.role = "STUDENT", !.gone = deleted,
                                !.copy = [RolesNow EXCEPT ![q.user] = "STUDENT"]])
    /\ UNCHANGED store

\* What a request does once its aggregate is written.
AfterSave(q) ==
    IF q.op = "accept" THEN [q EXCEPT !.at = "invite", !.copy = Nobody, !.gone = FALSE]
    ELSE IF q.op \in {"add", "apply", "approve"} /\ q.role = "STUDENT"
         THEN [q EXCEPT !.at = "ensure", !.copy = Nobody, !.gone = FALSE]
    ELSE Free

CommitSchool(r) ==
    LET q == req[r] IN
    /\ q.at = "save"
    /\ SaveSchool(q)
    /\ Become(r, AfterSave(q))
    /\ UNCHANGED <<invites, rows, seat>>

RemoveStudent(r, u) ==
    /\ RolesNow[u] = "STUDENT"
    /\ Begin(r, [Free EXCEPT !.op = "archive", !.at = "archive", !.user = u])
    /\ UNCHANGED store

\* One transaction: the update of a row that is gone fails it as a whole.
CommitArchive(r) ==
    LET u == req[r].user IN
    /\ req[r].at = "archive"
    /\ Become(r, Free)
    /\ IF roster[u] = None THEN UNCHANGED <<roster, seat>>
       ELSE /\ roster' = [roster EXCEPT ![u] = [@ EXCEPT !.status = "archived"]]
            /\ seat' = [seat EXCEPT ![u] = IF @ = "active" THEN "past" ELSE @]
    /\ UNCHANGED <<deleted, invites, rows, joined>>

UpdatePermissions(r, u) ==
    /\ RolesNow[u] = "MANAGER"
    /\ Begin(r, [Free EXCEPT !.op = "grant", !.at = "grant", !.user = u])
    /\ UNCHANGED store

CommitGrant(r) ==
    LET u == req[r].user IN
    /\ req[r].at = "grant"
    /\ Become(r, Free)
    /\ roster' = IF roster[u] = None THEN roster
                 ELSE [roster EXCEPT ![u] = [@ EXCEPT !.extras = TRUE]]
    /\ UNCHANGED <<deleted, invites, rows, seat, joined>>

-----------------------------------------------------------------------------
(* Invitations.                                                            *)

\* Nobody may be asked twice for one role while the first asking is open; the look
\* and the write are two statements and no index stands behind them.
SendInvitation(r, u, role, group) ==
    /\ ~ \E i \in Invites : /\ invites[i] # None
                            /\ <<invites[i].user, invites[i].role, invites[i].status>>
                                 = <<u, role, "PENDING">>
    /\ group => role = "STUDENT"
    /\ Begin(r, [Free EXCEPT !.op = "send", !.at = "send", !.user = u, !.role = role,
                             !.group = group])
    /\ UNCHANGED store

CommitSend(r) ==
    LET q == req[r] IN
    /\ q.at = "send"
    /\ \E i \in Invites :
          /\ invites[i] = None
          /\ invites' = [invites EXCEPT ![i] = [user |-> q.user, role |-> q.role,
                                                group |-> q.group, status |-> "PENDING"]]
    /\ Become(r, Free)
    /\ UNCHANGED <<roster, deleted, rows, seat, joined>>

\* A new token and a new term; the status goes back as it was read, so that an
\* invitation once marked EXPIRED stays marked.
ResendInvitation(r, i) ==
    /\ invites[i] # None /\ invites[i].status \in {"PENDING", "EXPIRED"}
    /\ Begin(r, [Free EXCEPT !.op = IF invites[i].status = "PENDING" THEN "resend" ELSE "expire",
                             !.at = "invite", !.invite = i])
    /\ UNCHANGED store

\* An acceptance that comes too late marks the invitation.
LateAcceptance(r, i) ==
    /\ invites[i] # None /\ invites[i].status \in {"PENDING", "EXPIRED"}
    /\ Begin(r, [Free EXCEPT !.op = "expire", !.at = "invite", !.invite = i])
    /\ UNCHANGED store

RevokeInvitation(r, i) ==
    /\ invites[i] # None /\ invites[i].status # "ACCEPTED"
    /\ Begin(r, [Free EXCEPT !.op = "revoke", !.at = "invite", !.invite = i])
    /\ UNCHANGED store

\* Mutant: the invitation is used up when it is read.
AcceptInvitation_UseFirst(r, i) ==
    /\ invites[i] # None /\ invites[i].status = "PENDING"
    /\ invites' = [invites EXCEPT ![i] = [@ EXCEPT !.status = "ACCEPTED"]]
    /\ Begin(r, [Free EXCEPT !.op = "accept", !.at = "invited", !.invite = i,
                             !.user = invites[i].user, !.role = invites[i].role,
                             !.group = invites[i].group])
    /\ UNCHANGED <<roster, deleted, rows, seat, joined>>

AcceptInvitation(r, i) ==
    /\ invites[i] # None /\ invites[i].status = "PENDING"
    /\ Begin(r, [Free EXCEPT !.op = "accept", !.at = "invited", !.invite = i,
                             !.user = invites[i].user, !.role = invites[i].role,
                             !.group = invites[i].group])
    /\ UNCHANGED store

LoadForAccept(r) ==
    LET q == req[r] IN
    /\ q.at = "invited"
    /\ Become(r, IF roster[q.user] # None THEN Free
                 ELSE [q EXCEPT !.at = "save", !.gone = deleted,
                                !.copy = [RolesNow EXCEPT ![q.user] = q.role]])
    /\ UNCHANGED store

\* The status each command writes, whatever the row says by then.
Written(op) ==
    CASE op = "accept" -> "ACCEPTED"
      [] op = "revoke" -> "REVOKED"
      [] op = "expire" -> "EXPIRED"
      [] OTHER -> "PENDING"

CommitInvitation(r) ==
    LET q == req[r] IN
    /\ q.at = "invite"
    /\ invites' = [invites EXCEPT ![q.invite] = [@ EXCEPT !.status = Written(q.op)]]
    /\ Become(r, IF q.op # "accept" THEN Free
                 ELSE [q EXCEPT !.at = IF q.role = "STUDENT" THEN "find" ELSE "grant"])
    /\ UNCHANGED <<roster, deleted, rows, seat, joined>>

-----------------------------------------------------------------------------
(* Enrolment rows and the group.                                           *)

IsNewest(u, k) == rows[k].user = u /\ \A m \in k + 1 .. Len(rows) : rows[m].user # u
Newest(u) ==
    IF \E k \in 1 .. Len(rows) : IsNewest(u, k)
    THEN CHOOSE k \in 1 .. Len(rows) : IsNewest(u, k)
    ELSE 0

HeldRow(k) == [id |-> k, user |-> rows[k].user, status |-> rows[k].status,
               source |-> rows[k].source, auto |-> rows[k].auto]
NewRow(u, status, source, auto) ==
    [user |-> u, status |-> status, source |-> source, auto |-> auto]

\* What follows once a student stands on the roster with an enrolment row.
AfterAdd(q) ==
    IF q.op = "approve"
    THEN [q EXCEPT !.at = "enrol", !.row = [@ EXCEPT !.status = "onboarding"]]
    ELSE Free

\* ensureStudentMembership: a row that is not over is enough.
EnsureMembership(r) ==
    LET q == req[r] IN
    /\ q.at = "ensure"
    /\ Become(r, IF Newest(q.user) # 0 /\ rows[Newest(q.user)].status \notin Terminal
                 THEN AfterAdd(q) ELSE [q EXCEPT !.at = "direct"])
    /\ UNCHANGED store

CommitDirect(r) ==
    LET q == req[r] IN
    /\ q.at = "direct" /\ Len(rows) < MaxRows
    /\ rows' = Append(rows, NewRow(q.user, "active", "direct", FALSE))
    /\ Become(r, AfterAdd(q))
    /\ UNCHANGED <<roster, deleted, invites, seat, joined>>

\* An application; where the school admits by itself it is admitted first and put
\* on the roster after.
Apply(r, u, auto) ==
    /\ Len(rows) < MaxRows
    /\ rows' = Append(rows, NewRow(u, IF auto THEN "onboarding" ELSE "pending",
                                   "public-apply", auto))
    /\ Begin(r, IF auto /\ roster[u] = None
                THEN [Free EXCEPT !.op = "apply", !.at = "add", !.user = u]
                ELSE Free)
    /\ UNCHANGED <<roster, deleted, invites, seat, joined>>

\* Mutant: the application is taken on whether or not the roster can be written.
ApproveMembership_RowOnly(r, k) ==
    /\ "onboarding" \in Allowed(rows[k].status)
    /\ Begin(r, AfterAdd([Free EXCEPT !.op = "approve", !.user = rows[k].user,
                                      !.row = HeldRow(k)]))
    /\ UNCHANGED store

ApproveMembership(r, k) ==
    LET q == [Free EXCEPT !.op = "approve", !.user = rows[k].user, !.row = HeldRow(k)] IN
    /\ "onboarding" \in Allowed(rows[k].status)
    /\ Begin(r, IF roster[rows[k].user] = None THEN [q EXCEPT !.at = "add"] ELSE AfterAdd(q))
    /\ UNCHANGED store

\* A request that has read row k and will write it back with status s.
HoldRow(r, k, s) ==
    /\ Begin(r, [Free EXCEPT !.op = "row", !.at = "enrol", !.user = rows[k].user,
                             !.row = [HeldRow(k) EXCEPT !.status = s]])
    /\ UNCHANGED store

RejectMembership(r, k) == "rejected" \in Allowed(rows[k].status) /\ HoldRow(r, k, "rejected")
CompleteOnboarding(r, k) ==
    "placement-review" \in Allowed(rows[k].status) /\ HoldRow(r, k, "placement-review")
\* Availability, age band and the seen mark: the status goes back as it was read.
TouchMembership(r, k) == HoldRow(r, k, rows[k].status)

AssignGroup(r, k) ==
    /\ "active" \in Allowed(rows[k].status)
    /\ Begin(r, [Free EXCEPT !.op = "assign", !.at = "check", !.user = rows[k].user,
                             !.row = HeldRow(k)])
    /\ UNCHANGED store

\* Mutant: a seat refused does not stop the assignment.
CheckRoster_Lenient(r) ==
    LET q == req[r] IN
    /\ q.at = "check"
    /\ Become(r, IF roster[q.user] = None
                 THEN [q EXCEPT !.at = "enrol", !.row = [@ EXCEPT !.status = "active"]]
                 ELSE [q EXCEPT !.at = "seat"])
    /\ UNCHANGED store

CheckRoster(r) ==
    LET q == req[r] IN
    /\ q.at = "check"
    /\ Become(r, IF roster[q.user] = None THEN Free ELSE [q EXCEPT !.at = "seat"])
    /\ UNCHANGED store

AddGroupMember(r, u) ==
    /\ roster[u] # None
    /\ Begin(r, [Free EXCEPT !.op = "seat", !.at = "seat", !.user = u])
    /\ UNCHANGED store

\* Membership of the one who accepted: the newest row or a new one, taken on from an
\* application still waiting.
FindMembership(r) ==
    LET q == req[r]
        row == IF Newest(q.user) # 0 THEN HeldRow(Newest(q.user))
               ELSE [id |-> 0, user |-> q.user, status |-> "pending", source |-> "invite",
                     auto |-> FALSE]
    IN
    /\ q.at = "find"
    /\ Become(r, [q EXCEPT !.at = IF q.group THEN "seat" ELSE "enrol",
                           !.row = [row EXCEPT !.status = Moved(row.status, "onboarding")]])
    /\ UNCHANGED store

TakeSeat(r) ==
    LET q == req[r]
        status == Moved(Moved(q.row.status, "placement-review"), "active")
    IN
    /\ q.at = "seat"
    /\ seat' = [seat EXCEPT ![q.user] = "active"]
    /\ Become(r, IF q.op = "seat" THEN Free
                 ELSE [q EXCEPT !.at = "enrol", !.row = [@ EXCEPT !.status = status]])
    /\ UNCHANGED <<roster, deleted, invites, rows, joined>>

LeaveGroup(u) ==
    /\ seat[u] = "active"
    /\ seat' = [seat EXCEPT ![u] = "past"]
    /\ UNCHANGED <<roster, deleted, invites, rows, joined, req, begun>>

\* The upsert by id writes the status the request holds.
CommitRow(r) ==
    LET row == req[r].row IN
    /\ req[r].at = "enrol"
    /\ IF row.id = 0
       THEN /\ Len(rows) < MaxRows
            /\ rows' = Append(rows, NewRow(row.user, row.status, row.source, row.auto))
       ELSE rows' = [rows EXCEPT ![row.id] = [@ EXCEPT !.status = row.status]]
    /\ Become(r, Free)
    /\ UNCHANGED <<roster, deleted, invites, seat, joined>>

\* A request stops for good between two of its statements.
Fail(r) ==
    /\ req[r].at # "free"
    /\ Become(r, Free)
    /\ UNCHANGED store

-----------------------------------------------------------------------------
RosterRequest(r) ==
    \/ UpdateSchool(r) \/ DeleteSchool(r)
    \/ AddInside(r) \/ CommitSchool(r) \/ CommitArchive(r) \/ CommitGrant(r)
    \/ \E u \in Users :
          \/ \E role \in Roles : AddMember(r, u, role)
          \/ RemoveMember(r, u) \/ RemoveStudent(r, u) \/ UpdatePermissions(r, u)

InvitationRequest(r) ==
    \/ CommitSend(r) \/ LoadForAccept(r) \/ CommitInvitation(r)
    \/ \E u \in Users, role \in Roles, group \in BOOLEAN : SendInvitation(r, u, role, group)
    \/ \E i \in Invites :
          \/ ResendInvitation(r, i) \/ LateAcceptance(r, i)
          \/ RevokeInvitation(r, i) \/ AcceptInvitation(r, i)

EnrolmentRequest(r) ==
    \/ EnsureMembership(r) \/ CommitDirect(r) \/ CheckRoster(r)
    \/ FindMembership(r) \/ TakeSeat(r) \/ CommitRow(r)
    \/ \E u \in Users : AddGroupMember(r, u) \/ \E auto \in BOOLEAN : Apply(r, u, auto)
    \/ \E k \in 1 .. Len(rows) :
          \/ ApproveMembership(r, k) \/ RejectMembership(r, k) \/ CompleteOnboarding(r, k)
          \/ TouchMembership(r, k) \/ AssignGroup(r, k)

Next ==
    \/ \E r \in Requests : RosterRequest(r) \/ InvitationRequest(r) \/ EnrolmentRequest(r) \/ Fail(r)
    \/ \E u \in Users : LeaveGroup(u)

Spec == Init /\ [][Next]_vars

-----------------------------------------------------------------------------
TypeOK ==
    /\ roster \in [Users -> Members \cup {None}]
    /\ deleted \in BOOLEAN
    /\ invites \in [Invites -> Invitations \cup {None}]
    /\ rows \in Seq(Rows) /\ Len(rows) <= MaxRows
    /\ seat \in [Users -> {"none", "active", "past"}]
    /\ req \in [Requests -> Asked]
    /\ begun \in 0 .. MaxCommands
    /\ joined \subseteq Users

\* An invitation says it was accepted only once its guest stood on the roster:
\* accept-invitation writes the school before the invitation, so that a request
\* that stops between the two leaves an invitation that can be accepted again.
AcceptedHasJoined ==
    \A i \in Invites :
        invites[i] # None /\ invites[i].status = "ACCEPTED" => invites[i].user \in joined

\* An application that waits or was refused belongs to somebody who may never have
\* stood on the roster; so does one the school admitted by itself, where a failure
\* to add the student is logged and left, until it is active.
MayBeOutside(row) ==
    /\ row.source = "public-apply"
    /\ \/ row.status \in {"pending", "rejected"}
       \/ row.auto /\ row.status # "active"

\* Every other enrolment row is of a person who stood on the roster: an approval
\* fails as a whole when the student cannot be added, whatever runs beside it.
AdmittedHasJoined ==
    \A k \in 1 .. Len(rows) : MayBeOutside(rows[k]) \/ rows[k].user \in joined

\* Nobody sits in the group who was never on the roster: add-group-member and
\* accept-invitation take a seat only for a member.
SeatedHasJoined == \A u \in Users : seat[u] # "none" => u \in joined

\* An enrolment that went through placement is active only after the seat was taken:
\* assign-membership-group seats the student first and stops where the seat is
\* refused, and an invitation into a group does the same.
ActiveHasSeat ==
    \A k \in 1 .. Len(rows) :
        rows[k].status = "active" /\ rows[k].source # "direct" => seat[rows[k].user] # "none"

\* A write of the aggregate, however old the copy it writes, leaves alone what the
\* aggregate does not carry: the member's status and the rows that hang on it.
OwnColumnsSurvive ==
    [][ \A r \in Requests, u \in Users :
            /\ req[r].at = "save" /\ req'[r] # req[r]
            /\ roster[u] # None /\ roster'[u] # None
            => <<roster'[u].status, roster'[u].extras>> = <<roster[u].status, roster[u].extras>> ]_vars

\* "removing only what it dropped": a member leaves the roster only in the step of
\* a request that was asked to remove that member.
RemovesOnlyDropped ==
    [][ \A u \in Users :
            roster[u] # None /\ roster'[u] = None
            => \E r \in Requests : req[r].op = "remove" /\ req[r].user = u /\ req'[r] # req[r] ]_vars

=============================================================================

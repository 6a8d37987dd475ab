----------------------------- MODULE MemberBook -----------------------------
(***************************************************************************)
(* Organisations, their members and invitations.  Every statement of these *)
(* handlers commits by itself: what was read when a request began, its     *)
(* role included, may be out of date when the request writes.  Better Auth *)
(* does the writes of founding, inviting and joining (external).           *)
(***************************************************************************)
EXTENDS Integers, FiniteSetsExt

CONSTANTS
  Users, Orgs, Invites, Requests,
  MaxRows,  \* bound: member rows ever inserted
  MaxOrgs,  \* MAX_ORGS_AS_ADMIN
  Roles,    \* roles that occur, a subset of AllRoles
  Null

AllRoles == {"org_admin", "partner", "analyst", "viewer"}
Removed == "removed"
Rows == 1..MaxRows
Row == [org : Orgs, user : Users, role : AllRoles, via : Invites \cup {Null}]
Invitation == [org : Orgs, user : Users, role : AllRoles, status : {"pending", "accepted", "rejected", "expired"}]

ASSUME MemberBookAssumption ==
  /\ MaxRows \in Nat /\ MaxOrgs \in Nat \ {0}
  /\ IsFiniteSet(Requests)
  /\ Roles \subseteq AllRoles /\ "org_admin" \in Roles
  /\ Null \notin Orgs \cup Users \cup Row \cup Invitation

VARIABLES
  member,  \* the rows of table member: [org, user, role, via], or Null
  rowsUsed,\* how many rows have ever been inserted
  orgs,    \* organisations that exist
  active,  \* of each user: the active organisation of the session
  invite,  \* the rows of table invitation: [org, user, role, status], or Null
  overdue, \* invitations whose expires_at has passed
  req,     \* of each request: what it has read, or Null
  raced,   \* (history) organisations in which a member was changed or removed
           \* by a request whose list of members was out of date
  founders \* (history) the founders' rows that nobody has changed since

history == <<raced, founders>>
rows == <<member, rowsUsed, orgs, history>>
vars == <<rows, active, invite, overdue, req>>

Of(u) == {n \in Rows : member[n] # Null /\ member[n].user = u}
In(o) == {n \in Rows : member[n] # Null /\ member[n].org = o}
IsAdminRole(role) == role = "org_admin"
AdminRows(table, ns) == {n \in ns : IsAdminRole(table[n].role)}
(* The SELECT of an organisation's members. *)
Members(o) == [n \in In(o) |-> member[n]]

Init ==
  /\ member = [n \in Rows |-> Null] /\ rowsUsed = 0
  /\ orgs = {} /\ raced = {} /\ founders = {}
  /\ active = [u \in Users |-> Null]
  /\ invite = [i \in Invites |-> Null]
  /\ overdue = {}
  /\ req = [r \in Requests |-> Null]
-----------------------------------------------------------------------------
(* A request: the session, and then its handler.                           *)
At(r, place) == req[r] # Null /\ req[r].at = place
Go(r, step) == req' = [req EXCEPT ![r] = step]
End(r) == req' = [req EXCEPT ![r] = Null]

(* The role in organisation o. *)
SessionRole(u, o) == {member[n].role : n \in Of(u) \cap In(o)}

(* sessionMiddleware: the active organisation when the user is a member of *)
(* it, otherwise that of the first membership, which a SELECT without      *)
(* ORDER BY leaves open.                                                   *)
SessionOrg(u) ==
  IF active[u] \in {member[n].org : n \in Of(u)} THEN {active[u]} ELSE {member[n].org : n \in Of(u)}

Begin(r, u) ==
  /\ req[r] = Null
  /\ \/ /\ Of(u) = {}
        /\ Go(r, [at |-> "in", user |-> u, org |-> Null, role |-> Null])
     \/ \E o \in SessionOrg(u) : \E role \in SessionRole(u, o) :
          Go(r, [at |-> "in", user |-> u, org |-> o, role |-> role])
  /\ UNCHANGED <<rows, active, invite, overdue>>

(* requireOrg, requireAdmin *)
AsAdmin(r) == At(r, "in") /\ req[r].org # Null /\ IsAdminRole(req[r].role)

(* A check fails, a request is dropped, or has answered. *)
Leave(r) ==
  /\ req[r] # Null
  /\ End(r)
  /\ UNCHANGED <<rows, active, invite, overdue>>
-----------------------------------------------------------------------------
(* Mutant: the guard of DELETE and PATCH counts members. *)
NotLastMember(seen, n, to) == DOMAIN seen # {n} \/ IsAdminRole(to)

(* The last admin is neither demoted nor removed.                          *)
NotLastAdmin(seen, n, to) == AdminRows(seen, DOMAIN seen) # {n} \/ IsAdminRole(to)

(* PATCH and DELETE /api/members/:id up to their checks. *)
ReadMembers(r, n, to) ==
  LET seen == Members(req[r].org) IN
  /\ AsAdmin(r)
  /\ n \in DOMAIN seen
  /\ NotLastAdmin(seen, n, to)
  /\ Go(r, [at |-> "checked", user |-> req[r].user, org |-> req[r].org, seen |-> seen, row |-> n, to |-> to])
  /\ UNCHANGED <<rows, active, invite, overdue>>

(* The UPDATE or DELETE by id; a row that is gone stays gone.              *)
WriteMember(r) ==
  /\ At(r, "checked")
  /\ LET n == req[r].row IN
       /\ \/ member[n] = Null /\ UNCHANGED member
          \/ member[n] # Null /\ req[r].to = Removed /\ member' = [member EXCEPT ![n] = Null]
          \/ member[n] # Null /\ req[r].to # Removed /\ member' = [member EXCEPT ![n].role = req[r].to]
       /\ founders' = founders \ {n}
       /\ raced' = IF req[r].seen = Members(req[r].org) THEN raced ELSE raced \cup {req[r].org}
  /\ End(r)
  /\ UNCHANGED <<rowsUsed, orgs, active, invite, overdue>>
-----------------------------------------------------------------------------
(* External: Better Auth inserts a membership. *)
Insert(o, u, role, via) ==
  /\ rowsUsed < MaxRows
  /\ rowsUsed' = rowsUsed + 1
  /\ member' = [member EXCEPT ![rowsUsed + 1] = [org |-> o, user |-> u, role |-> role, via |-> via]]
  /\ UNCHANGED raced

(* Mutant: the cap lets one more through. *)
CountOneMore(r) ==
  /\ At(r, "in")
  /\ Cardinality(AdminRows(member, Of(req[r].user))) <= MaxOrgs
  /\ Go(r, [at |-> "counted", user |-> req[r].user])
  /\ UNCHANGED <<rows, active, invite, overdue>>

(* POST /api/orgs: the count, the creation (a slug that is taken answers   *)
(* 409), and the session's active organisation.                            *)
CountOrgs(r) ==
  /\ At(r, "in")
  /\ Cardinality(AdminRows(member, Of(req[r].user))) < MaxOrgs
  /\ Go(r, [at |-> "counted", user |-> req[r].user])
  /\ UNCHANGED <<rows, active, invite, overdue>>

CreateOrg(r, o) ==
  /\ At(r, "counted")
  /\ o \notin orgs
  /\ orgs' = orgs \cup {o}
  /\ Insert(o, req[r].user, "org_admin", Null)
  /\ founders' = founders \cup {rowsUsed + 1}
  /\ Go(r, [at |-> "activate", user |-> req[r].user, org |-> o])
  /\ UNCHANGED <<active, invite, overdue>>

(* POST /api/orgs/select looks for a membership first.                     *)
SelectOrg(r, o) ==
  /\ At(r, "in")
  /\ o \in {member[n].org : n \in Of(req[r].user)}
  /\ Go(r, [at |-> "activate", user |-> req[r].user, org |-> o])
  /\ UNCHANGED <<rows, active, invite, overdue>>

SetActive(r) ==
  /\ At(r, "activate")
  /\ active' = [active EXCEPT ![req[r].user] = req[r].org]
  /\ End(r)
  /\ UNCHANGED <<rows, invite, overdue>>
-----------------------------------------------------------------------------
(* orgRoles: who may create invitations.                                   *)
MayInvite == {"org_admin", "partner"}

(* POST /api/invitations: the handler asks for an admin of the session's   *)
(* organisation, Better Auth looks up the active one again.                *)
CreateInvitation(r, i, u, role) ==
  /\ AsAdmin(r)
  /\ invite[i] = Null
  /\ \E n \in Of(req[r].user) :
       /\ member[n].org = active[req[r].user]
       /\ member[n].role \in MayInvite
       /\ invite' = [invite EXCEPT ![i] = [org |-> member[n].org, user |-> u, role |-> role, status |-> "pending"]]
  /\ End(r)
  /\ UNCHANGED <<rows, active, overdue>>

Pass(i) ==
  /\ invite[i] # Null /\ i \notin overdue
  /\ overdue' = overdue \cup {i}
  /\ UNCHANGED <<rows, active, invite, req>>

(* The SELECT of GET /api/invitations/:id (to "look", open to anybody), of *)
(* accept ("accept") and reject ("reject").                                *)
ReadInvitation(r, i, to) ==
  /\ At(r, "in")
  /\ invite[i] # Null
  /\ to # "look" => invite[i].user = req[r].user
  /\ to = "accept" => invite[i].status = "pending" \/ i \in overdue
  /\ Go(r, [at |-> to, user |-> req[r].user, id |-> i, status |-> invite[i].status])
  /\ UNCHANGED <<rows, active, invite, overdue>>

(* A row read as pending that is overdue becomes expired, by its id alone. *)
Expire(r) ==
  /\ At(r, "look") \/ At(r, "accept")
  /\ req[r].id \in overdue
  /\ req[r].status = "pending"
  /\ invite' = [invite EXCEPT ![req[r].id].status = "expired"]
  /\ End(r)
  /\ UNCHANGED <<rows, active, overdue>>

(* External: Better Auth decides an invitation that is pending and not     *)
(* overdue.                                                                *)
Decidable(i) == invite[i].status = "pending" /\ i \notin overdue

Accept(r) ==
  LET i == req[r].id IN
  /\ At(r, "accept")
  /\ Decidable(i)
  /\ Insert(invite[i].org, req[r].user, invite[i].role, i)
  /\ invite' = [invite EXCEPT ![i].status = "accepted"]
  /\ Go(r, [at |-> "activate", user |-> req[r].user, org |-> invite[i].org])
  /\ UNCHANGED <<orgs, founders, active, overdue>>

(* Mutant: the handler's own checks are all there is. *)
RejectAny(r) ==
  /\ At(r, "reject")
  /\ invite' = [invite EXCEPT ![req[r].id].status = "rejected"]
  /\ End(r)
  /\ UNCHANGED <<rows, active, overdue>>

Reject(r) ==
  /\ At(r, "reject")
  /\ Decidable(req[r].id)
  /\ invite' = [invite EXCEPT ![req[r].id].status = "rejected"]
  /\ End(r)
  /\ UNCHANGED <<rows, active, overdue>>

Step(r) ==
  \/ \E u \in Users : Begin(r, u)
  \/ Leave(r) \/ WriteMember(r) \/ CountOrgs(r) \/ SetActive(r) \/ Expire(r) \/ Accept(r) \/ Reject(r)
  \/ \E n \in Rows, to \in Roles \cup {Removed} : ReadMembers(r, n, to)
  \/ \E o \in Orgs : CreateOrg(r, o) \/ SelectOrg(r, o)
  \/ \E i \in Invites, u \in Users, role \in Roles : CreateInvitation(r, i, u, role)
  \/ \E i \in Invites, to \in {"look", "accept", "reject"} : ReadInvitation(r, i, to)

Next == (\E r \in Requests : Step(r)) \/ (\E i \in Invites : Pass(i))

Spec == Init /\ [][Next]_vars
-----------------------------------------------------------------------------
(* Types of the state. *)
TypeOK ==
  /\ member \in [Rows -> Row \cup {Null}]
  /\ rowsUsed \in 0..MaxRows
  /\ orgs \subseteq Orgs /\ raced \subseteq Orgs
  /\ founders \subseteq Rows
  /\ active \in [Users -> Orgs \cup {Null}]
  /\ invite \in [Invites -> Invitation \cup {Null}]
  /\ overdue \subseteq Invites

Admins(o) == AdminRows(member, In(o))

(* pass-14-role-ui.md: an organisation is not left without an admin.  The  *)
(* guard keeps this as long as the list it looked at is still true; only   *)
(* two requests at once can remove the last two admins.                    *)
LastAdminLeavesByRace == \A o \in orgs \ raced : Admins(o) # {}

(* The cap is counted before the creation, so requests at once may pass it *)
(* together, but only by as many organisations as there are requests.  It  *)
(* says nothing of rows an admin has edited: a promotion is not counted.   *)
Founded(u) == {n \in founders : member[n].user = u}
CapIsNearlyKept == \A u \in Users : Cardinality(Founded(u)) < MaxOrgs + Cardinality(Requests)

(* A membership that an invitation made is one the user accepted: it was   *)
(* not declined and is not open, though a reader may have called it        *)
(* expired since.                                                          *)
JoinedByAccepting ==
  \A n \in Rows : (member[n] # Null /\ member[n].via # Null) => invite[member[n].via].status \in {"accepted", "expired"}
=============================================================================

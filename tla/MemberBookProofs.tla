--------------------------- MODULE MemberBookProofs ---------------------------
(***************************************************************************)
(* Proofs about MemberBook for any sets of users, organisations,           *)
(* invitations and requests, and any caps.                                 *)
(***************************************************************************)
EXTENDS MemberBook, FiniteSetTheorems, TLAPS

(* What a request remembers.  A checked one names a row that existed, of   *)
(* its organisation if it is still there, and has passed the guard on the  *)
(* list it saw; one about an invitation has seen that invitation.          *)
Places == {"in", "checked", "counted", "activate", "look", "accept", "reject"}

CheckedOK(q) ==
  q.at = "checked" =>
    /\ q.org \in Orgs
    /\ q.row \in Rows /\ q.row <= rowsUsed
    /\ q.to \in Roles \cup {Removed}
    /\ member[q.row] # Null => member[q.row].org = q.org
    /\ NotLastAdmin(q.seen, q.row, q.to)

InviteOK(q) ==
  q.at \in {"look", "accept", "reject"} => q.id \in Invites /\ invite[q.id] \in Invitation

RequestOK(q) ==
  /\ q.at \in Places
  /\ q.user \in Users
  /\ q.at = "in" => q.org \in Orgs \cup {Null}
  /\ q.at = "activate" => q.org \in Orgs
  /\ CheckedOK(q)
  /\ InviteOK(q)

RequestsOK ==
  /\ DOMAIN req = Requests
  /\ \A r \in Requests : req[r] # Null => RequestOK(req[r])

(* Rows are numbered in the order they were inserted.                      *)
RowsInOrder == \A n \in Rows : member[n] # Null => n <= rowsUsed

(* An unchanged founder's row is there and an admin's.                     *)
FoundersAreAdmins == \A n \in founders : member[n] # Null /\ IsAdminRole(member[n].role)

(* The invitation a row came from exists; TypeOK lets it be Null.          *)
ViaExists ==
  \A n \in Rows : member[n] # Null /\ member[n].via # Null => invite[member[n].via] \in Invitation

MemberInv == TypeOK /\ RequestsOK /\ RowsInOrder /\ FoundersAreAdmins

(* What a request changes of itself.                                       *)
LEMMA OnlyOwn ==
  ASSUME DOMAIN req = Requests, NEW r \in Requests, NEW x, req' = [req EXCEPT ![r] = x]
  PROVE  /\ DOMAIN req' = Requests /\ req'[r] = x
         /\ \A q \in Requests : q # r => req'[q] = req[q]
  OBVIOUS

(* How the tables move on: rows keep their organisation, user and source,  *)
(* new ones come after the old, and invitations stay.                      *)
Onward ==
  /\ rowsUsed \in Nat /\ rowsUsed' \in Nat /\ rowsUsed <= rowsUsed'
  /\ \A n \in Rows : n <= rowsUsed /\ member'[n] # Null =>
       member[n] # Null /\ member'[n].org = member[n].org /\ member'[n].user = member[n].user
         /\ member'[n].via = member[n].via
  /\ \A i \in Invites : invite[i] \in Invitation => invite'[i] \in Invitation

(* A request that waits stays well formed as the tables move on.           *)
LEMMA OnwardOK ==
  ASSUME Onward, NEW q, RequestOK(q)
  PROVE  RequestOK(q)'
<1>1. CheckedOK(q)'
  BY DEF Onward, RequestOK, CheckedOK, Rows
<1>2. InviteOK(q)'
  BY DEF Onward, RequestOK, InviteOK
<1>3. QED
  BY <1>1, <1>2 DEF RequestOK

(* An inserted row is a new one.                                           *)
LEMMA InsertIs ==
  ASSUME MemberInv, NEW o \in Orgs, NEW u \in Users, NEW role \in AllRoles,
         NEW via \in Invites \cup {Null}, Insert(o, u, role, via)
  PROVE  /\ member' \in [Rows -> Row \cup {Null}] /\ rowsUsed' \in 0..MaxRows
         /\ rowsUsed \in Nat /\ rowsUsed' = rowsUsed + 1 /\ rowsUsed' \in Rows
         /\ member[rowsUsed'] = Null
         /\ member'[rowsUsed'] = [org |-> o, user |-> u, role |-> role, via |-> via]
         /\ member'[rowsUsed'] # Null
         /\ \A n \in Rows : n # rowsUsed' => member'[n] = member[n]
         /\ raced' = raced
<1>1. rowsUsed \in Nat /\ rowsUsed + 1 \in Rows /\ rowsUsed' = rowsUsed + 1 /\ MaxRows \in Nat
  BY MemberBookAssumption DEF Insert, MemberInv, TypeOK, Rows
<1>2. [org |-> o, user |-> u, role |-> role, via |-> via] \in Row
  BY DEF Row
<1>3. member[rowsUsed + 1] = Null
  BY <1>1 DEF MemberInv, RowsInOrder
<1>4. QED
  BY <1>1, <1>2, <1>3, MemberBookAssumption DEF Insert, MemberInv, TypeOK

(* With no organisation and no request there is nothing out of order.      *)
LEMMA InitInv == Init => MemberInv /\ ViaExists
  BY MemberBookAssumption
     DEF Init, MemberInv, TypeOK, RequestsOK, RowsInOrder, FoundersAreAdmins, ViaExists, Rows
-----------------------------------------------------------------------------
(* Every request leaves the tables well typed and moves them onward.       *)
LEMMA StepTables ==
  ASSUME MemberInv, [Next]_vars
  PROVE  TypeOK' /\ Onward /\ RowsInOrder' /\ FoundersAreAdmins'
<1> DEFINE Goal == TypeOK' /\ Onward /\ RowsInOrder' /\ FoundersAreAdmins'
<1>0. TypeOK /\ RequestsOK /\ RowsInOrder /\ FoundersAreAdmins /\ rowsUsed \in Nat
  BY MemberBookAssumption DEF MemberInv, TypeOK
<1>1. ASSUME UNCHANGED rows, invite' \in [Invites -> Invitation \cup {Null}],
             \A i \in Invites : invite[i] \in Invitation => invite'[i] \in Invitation,
             active' \in [Users -> Orgs \cup {Null}], overdue' \subseteq Invites
      PROVE  Goal
  BY <1>0, <1>1 DEF rows, history, TypeOK, Onward, RowsInOrder, FoundersAreAdmins
<1>2. ASSUME UNCHANGED <<rows, active, invite, overdue>> PROVE Goal
  BY <1>0, <1>1, <1>2 DEF TypeOK
<1>3. ASSUME NEW r \in Requests, WriteMember(r) PROVE Goal
  <2> DEFINE n == req[r].row
             to == req[r].to
  <2>1. /\ n \in Rows /\ to \in Roles \cup {Removed} /\ req[r].org \in Orgs
    BY <1>0, <1>3 DEF WriteMember, At, RequestsOK, RequestOK, CheckedOK
  <2>2. /\ \/ member' = member
           \/ member[n] # Null /\ member' = [member EXCEPT ![n] = Null]
           \/ member[n] # Null /\ to # Removed /\ member' = [member EXCEPT ![n].role = to]
        /\ founders' = founders \ {n}
        /\ raced' \in {raced, raced \cup {req[r].org}}
        /\ UNCHANGED <<rowsUsed, orgs, active, invite, overdue>>
    BY <1>3 DEF WriteMember
  <2> HIDE DEF n, to
  <2>3. /\ member' \in [Rows -> Row \cup {Null}]
        /\ \A m \in Rows : m # n => member'[m] = member[m]
        /\ member'[n] # Null => /\ member[n] # Null /\ member'[n].org = member[n].org
                                /\ member'[n].user = member[n].user /\ member'[n].via = member[n].via
    <3>1. CASE member' = member
      BY <1>0, <3>1 DEF TypeOK
    <3>2. CASE member' = [member EXCEPT ![n] = Null]
      BY <1>0, <2>1, <3>2 DEF TypeOK
    <3>3. CASE member[n] # Null /\ to # Removed /\ member' = [member EXCEPT ![n].role = to]
      <4>1. member[n] \in Row /\ to \in AllRoles
        BY <1>0, <2>1, <3>3, MemberBookAssumption DEF TypeOK
      <4>2. [member[n] EXCEPT !.role = to] \in Row
        BY <4>1 DEF Row
      <4>3. member' = [member EXCEPT ![n] = [member[n] EXCEPT !.role = to]]
        BY <3>3
      <4>4. /\ [member[n] EXCEPT !.role = to].org = member[n].org
            /\ [member[n] EXCEPT !.role = to].user = member[n].user
            /\ [member[n] EXCEPT !.role = to].via = member[n].via
        BY <4>1 DEF Row
      <4>5. QED
        BY <1>0, <2>1, <3>3, <4>2, <4>3, <4>4 DEF TypeOK
    <3>4. QED
      BY <2>2, <3>1, <3>2, <3>3
  <2>4. TypeOK'
    BY <1>0, <2>1, <2>2, <2>3 DEF TypeOK
  <2>5. Onward
    BY <1>0, <2>1, <2>2, <2>3 DEF Onward, TypeOK
  <2>6. RowsInOrder' /\ FoundersAreAdmins'
    BY <1>0, <2>1, <2>2, <2>3 DEF RowsInOrder, FoundersAreAdmins, TypeOK
  <2>7. QED
    BY <2>4, <2>5, <2>6
<1>4. ASSUME NEW o \in Orgs, NEW u \in Users, NEW role \in AllRoles, NEW via \in Invites \cup {Null},
             Insert(o, u, role, via), orgs' \subseteq Orgs,
             \/ founders' = founders
             \/ role = "org_admin" /\ founders' = founders \cup {rowsUsed + 1},
             invite' \in [Invites -> Invitation \cup {Null}],
             \A i \in Invites : invite[i] \in Invitation => invite'[i] \in Invitation,
             UNCHANGED <<active, overdue>>
      PROVE  Goal
  <2>1. /\ member' \in [Rows -> Row \cup {Null}] /\ rowsUsed' \in 0..MaxRows
        /\ rowsUsed \in Nat /\ rowsUsed' = rowsUsed + 1 /\ rowsUsed' \in Rows
        /\ member[rowsUsed'] = Null
        /\ member'[rowsUsed'] = [org |-> o, user |-> u, role |-> role, via |-> via]
        /\ member'[rowsUsed'] # Null
        /\ \A n \in Rows : n # rowsUsed' => member'[n] = member[n]
        /\ raced' = raced
    BY <1>4, InsertIs
  <2>2. TypeOK'
    BY <1>0, <1>4, <2>1 DEF TypeOK
  <2>3. Onward
    BY <1>0, <1>4, <2>1 DEF Onward, TypeOK, Rows
  <2>4. RowsInOrder'
    BY <1>0, <2>1 DEF RowsInOrder, Rows
  <2>5. FoundersAreAdmins'
    BY <1>0, <1>4, <2>1 DEF FoundersAreAdmins, TypeOK, IsAdminRole
  <2>6. QED
    BY <2>2, <2>3, <2>4, <2>5
<1>5. ASSUME NEW r \in Requests, NEW o \in Orgs, CreateOrg(r, o) PROVE Goal
  <2>1. req[r].user \in Users
    BY <1>0, <1>5 DEF CreateOrg, At, RequestsOK, RequestOK
  <2>2. "org_admin" \in AllRoles
    BY DEF AllRoles
  <2>3. /\ Insert(o, req[r].user, "org_admin", Null) /\ orgs' \subseteq Orgs
        /\ founders' = founders \cup {rowsUsed + 1} /\ UNCHANGED <<active, invite, overdue>>
        /\ invite' \in [Invites -> Invitation \cup {Null}]
    BY <1>0, <1>5 DEF CreateOrg, TypeOK
  <2> HIDE DEF Goal
  <2>4. QED
    BY <1>4, <2>1, <2>2, <2>3
<1>6. ASSUME NEW r \in Requests, Accept(r) PROVE Goal
  <2> DEFINE i == req[r].id
  <2>1. req[r].user \in Users /\ i \in Invites /\ invite[i] \in Invitation
    BY <1>0, <1>6 DEF Accept, At, RequestsOK, RequestOK, InviteOK
  <2>2. invite[i].org \in Orgs /\ invite[i].role \in AllRoles
    BY <2>1 DEF Invitation
  <2>3. /\ Insert(invite[i].org, req[r].user, invite[i].role, i) /\ founders' = founders
        /\ orgs' = orgs /\ UNCHANGED <<active, overdue>>
        /\ invite' = [invite EXCEPT ![i].status = "accepted"]
    BY <1>6 DEF Accept
  <2> HIDE DEF i
  <2>4. [invite[i] EXCEPT !.status = "accepted"] \in Invitation
    BY <2>1 DEF Invitation
  <2>5. invite' = [invite EXCEPT ![i] = [invite[i] EXCEPT !.status = "accepted"]]
    BY <2>3
  <2>6. /\ invite' \in [Invites -> Invitation \cup {Null}]
        /\ \A l \in Invites : invite[l] \in Invitation => invite'[l] \in Invitation
    BY <1>0, <2>1, <2>4, <2>5 DEF TypeOK
  <2>7. orgs' \subseteq Orgs
    BY <1>0, <2>3 DEF TypeOK
  <2> HIDE DEF Goal
  <2>8. QED
    BY <1>4, <2>1, <2>2, <2>3, <2>6, <2>7
<1>7. ASSUME NEW r \in Requests, NEW s \in {"expired", "rejected"}, req[r].id \in Invites,
             invite[req[r].id] \in Invitation, invite' = [invite EXCEPT ![req[r].id].status = s],
             UNCHANGED <<rows, active, overdue>>
      PROVE  Goal
  <2> DEFINE i == req[r].id
  <2>1. [invite[i] EXCEPT !.status = s] \in Invitation
    BY <1>7 DEF Invitation
  <2>2. invite' = [invite EXCEPT ![i] = [invite[i] EXCEPT !.status = s]]
    BY <1>7
  <2>3. /\ invite' \in [Invites -> Invitation \cup {Null}]
        /\ \A l \in Invites : invite[l] \in Invitation => invite'[l] \in Invitation
        /\ active' \in [Users -> Orgs \cup {Null}] /\ overdue' \subseteq Invites
    BY <1>0, <1>7, <2>1, <2>2 DEF TypeOK
  <2> HIDE DEF Goal, i
  <2>4. QED
    BY <1>1, <1>7, <2>3
<1>8. ASSUME NEW r \in Requests, Expire(r) \/ Reject(r) PROVE Goal
  <2>1. req[r].id \in Invites /\ invite[req[r].id] \in Invitation
    BY <1>0, <1>8 DEF Expire, Reject, At, RequestsOK, RequestOK, InviteOK
  <2>2. PICK s \in {"expired", "rejected"} : invite' = [invite EXCEPT ![req[r].id].status = s]
    BY <1>8 DEF Expire, Reject
  <2>3. UNCHANGED <<rows, active, overdue>>
    BY <1>8 DEF Expire, Reject
  <2> HIDE DEF Goal
  <2>4. QED
    BY <1>7, <2>1, <2>2, <2>3
<1>9. ASSUME NEW r \in Requests, NEW i \in Invites, NEW u \in Users, NEW role \in Roles,
             CreateInvitation(r, i, u, role)
      PROVE  Goal
  <2>1. req[r].user \in Users
    BY <1>0, <1>9 DEF CreateInvitation, AsAdmin, At, RequestsOK, RequestOK
  <2>2. PICK n \in Of(req[r].user) :
          invite' = [invite EXCEPT ![i] = [org |-> member[n].org, user |-> u, role |-> role, status |-> "pending"]]
    BY <1>9 DEF CreateInvitation
  <2>3. member[n].org \in Orgs
    BY <1>0, <2>2 DEF Of, TypeOK, Row
  <2>4. [org |-> member[n].org, user |-> u, role |-> role, status |-> "pending"] \in Invitation
    BY <2>3, MemberBookAssumption DEF Invitation
  <2>5. /\ UNCHANGED <<rows, active, overdue>>
        /\ invite' \in [Invites -> Invitation \cup {Null}]
        /\ \A l \in Invites : invite[l] \in Invitation => invite'[l] \in Invitation
        /\ active' \in [Users -> Orgs \cup {Null}] /\ overdue' \subseteq Invites
    BY <1>0, <1>9, <2>2, <2>4 DEF CreateInvitation, TypeOK
  <2> HIDE DEF Goal
  <2>6. QED
    BY <1>1, <2>5
<1>10. ASSUME NEW r \in Requests, SetActive(r) PROVE Goal
  <2>1. req[r].user \in Users /\ req[r].org \in Orgs
    BY <1>0, <1>10 DEF SetActive, At, RequestsOK, RequestOK
  <2>2. /\ UNCHANGED <<rows, invite, overdue>> /\ active' \in [Users -> Orgs \cup {Null}]
    BY <1>0, <1>10, <2>1 DEF SetActive, TypeOK
  <2>3. QED
    BY <1>0, <1>1, <2>2 DEF TypeOK
<1>11. ASSUME NEW i \in Invites, Pass(i) PROVE Goal
  <2>1. UNCHANGED <<rows, active, invite>> /\ overdue' \subseteq Invites
    BY <1>0, <1>11 DEF Pass, TypeOK
  <2>2. QED
    BY <1>0, <1>1, <2>1 DEF TypeOK
<1> HIDE DEF Goal
<1>12. ASSUME NEW r \in Requests, Step(r) PROVE Goal
  BY <1>2, <1>3, <1>5, <1>6, <1>8, <1>9, <1>10, <1>12
     DEF Step, Begin, Leave, CountOrgs, ReadMembers, SelectOrg, ReadInvitation
<1>13. Goal
  BY <1>2, <1>11, <1>12 DEF Next, vars
<1>14. QED
  BY <1>13 DEF Goal

(* A request that steps is over, or remembers what it has just checked.    *)
LEMMA StepRequests ==
  ASSUME MemberInv, Onward, [Next]_vars
  PROVE  RequestsOK'
<1>0. TypeOK /\ RequestsOK /\ RowsInOrder /\ DOMAIN req = Requests
  BY DEF MemberInv, RequestsOK
<1>1. ASSUME NEW r \in Requests, NEW x, Go(r, x), x # Null => RequestOK(x)' PROVE RequestsOK'
  <2>1. /\ DOMAIN req' = Requests /\ req'[r] = x
        /\ \A q \in Requests : q # r => req'[q] = req[q]
    BY <1>0, <1>1, OnlyOwn DEF Go
  <2>2. ASSUME NEW q \in Requests, req'[q] # Null PROVE RequestOK(req[q])'
    <3>1. CASE q = r
      BY <1>1, <2>1, <2>2, <3>1 DEF RequestOK, CheckedOK, InviteOK
    <3>2. CASE q # r
      <4>1. req'[q] = req[q] /\ RequestOK(req[q])
        BY <1>0, <2>1, <2>2, <3>2 DEF RequestsOK
      <4>2. QED
        BY <4>1, OnwardOK DEF RequestOK, CheckedOK, InviteOK
    <3>3. QED
      BY <3>1, <3>2
  <2>3. QED
    BY <2>1, <2>2 DEF RequestsOK
<1>2. ASSUME NEW r \in Requests, End(r) PROVE RequestsOK'
  BY <1>1, <1>2 DEF Go, End
<1>3. ASSUME NEW r \in Requests, NEW u \in Users, Begin(r, u) PROVE RequestsOK'
  <2>1. CASE Go(r, [at |-> "in", user |-> u, org |-> Null, role |-> Null])
    <3> DEFINE x == [at |-> "in", user |-> u, org |-> Null, role |-> Null]
    <3>1. RequestOK(x)'
      BY DEF RequestOK, CheckedOK, InviteOK, Places
    <3> HIDE DEF x
    <3>2. Go(r, x)
      BY <2>1 DEF x
    <3>3. QED
      BY <1>1, <3>1, <3>2
  <2>2. CASE \E o \in SessionOrg(u) : \E role \in SessionRole(u, o) :
               Go(r, [at |-> "in", user |-> u, org |-> o, role |-> role])
    <3>1. PICK o \in SessionOrg(u) : \E role \in SessionRole(u, o) :
               Go(r, [at |-> "in", user |-> u, org |-> o, role |-> role])
      BY <2>2
    <3>2. PICK role \in SessionRole(u, o) : Go(r, [at |-> "in", user |-> u, org |-> o, role |-> role])
      BY <3>1
    <3>3. o \in Orgs
      BY <1>0 DEF SessionOrg, Of, TypeOK, Row
    <3> DEFINE x == [at |-> "in", user |-> u, org |-> o, role |-> role]
    <3>4. RequestOK(x)'
      BY <3>3 DEF RequestOK, CheckedOK, InviteOK, Places
    <3> HIDE DEF x
    <3>5. Go(r, x)
      BY <3>2 DEF x
    <3>6. QED
      BY <1>1, <3>4, <3>5
  <2>3. QED
    BY <1>3, <2>1, <2>2 DEF Begin
<1>4. ASSUME NEW r \in Requests, NEW n \in Rows, NEW to \in Roles \cup {Removed}, ReadMembers(r, n, to)
      PROVE  RequestsOK'
  <2>1. /\ req[r].user \in Users /\ req[r].org \in Orgs /\ n \in In(req[r].org)
        /\ UNCHANGED <<rows, invite>>
    BY <1>0, <1>4 DEF ReadMembers, AsAdmin, At, RequestsOK, RequestOK, Members
  <2>2. member[n] # Null /\ member[n].org = req[r].org /\ n <= rowsUsed
    BY <1>0, <2>1 DEF In, RowsInOrder
  <2>3. PICK u, o, seen :
          /\ u = req[r].user /\ o = req[r].org /\ NotLastAdmin(seen, n, to)
          /\ Go(r, [at |-> "checked", user |-> u, org |-> o, seen |-> seen, row |-> n, to |-> to])
    BY <1>4 DEF ReadMembers
  <2> DEFINE x == [at |-> "checked", user |-> u, org |-> o, seen |-> seen, row |-> n, to |-> to]
  <2>4. /\ x.at = "checked" /\ x.user = u /\ x.org = o /\ x.seen = seen /\ x.row = n /\ x.to = to
        /\ Go(r, x)
    BY <2>3
  <2> HIDE DEF x
  <2>5. CheckedOK(x)'
    BY <2>1, <2>2, <2>3, <2>4 DEF CheckedOK, rows, NotLastAdmin
  <2>6. RequestOK(x)'
    BY <2>1, <2>3, <2>4, <2>5 DEF RequestOK, InviteOK, Places
  <2>7. QED
    BY <1>1, <2>4, <2>6
<1>5. ASSUME NEW r \in Requests, NEW u \in Users, Go(r, [at |-> "counted", user |-> u]) PROVE RequestsOK'
  <2> DEFINE x == [at |-> "counted", user |-> u]
  <2>1. RequestOK(x)'
    BY DEF RequestOK, CheckedOK, InviteOK, Places
  <2>2. Go(r, x)
    BY <1>5
  <2> HIDE DEF x
  <2>3. QED
    BY <1>1, <2>1, <2>2
<1>6. ASSUME NEW r \in Requests, NEW u \in Users, NEW o \in Orgs,
             Go(r, [at |-> "activate", user |-> u, org |-> o])
      PROVE  RequestsOK'
  <2> DEFINE x == [at |-> "activate", user |-> u, org |-> o]
  <2>1. RequestOK(x)'
    BY DEF RequestOK, CheckedOK, InviteOK, Places
  <2>2. Go(r, x)
    BY <1>6
  <2> HIDE DEF x
  <2>3. QED
    BY <1>1, <2>1, <2>2
<1>7. ASSUME NEW r \in Requests, NEW o \in Orgs, SelectOrg(r, o) \/ CreateOrg(r, o) PROVE RequestsOK'
  <2>1. req[r].user \in Users
    BY <1>0, <1>7 DEF SelectOrg, CreateOrg, At, RequestsOK, RequestOK
  <2>2. QED
    BY <1>6, <1>7, <2>1 DEF SelectOrg, CreateOrg
<1>8. ASSUME NEW r \in Requests, CountOrgs(r) PROVE RequestsOK'
  <2>1. req[r].user \in Users
    BY <1>0, <1>8 DEF CountOrgs, At, RequestsOK, RequestOK
  <2>2. QED
    BY <1>5, <1>8, <2>1 DEF CountOrgs
<1>9. ASSUME NEW r \in Requests, Accept(r) PROVE RequestsOK'
  <2>1. req[r].user \in Users /\ invite[req[r].id] \in Invitation
    BY <1>0, <1>9 DEF Accept, At, RequestsOK, RequestOK, InviteOK
  <2>2. invite[req[r].id].org \in Orgs
    BY <2>1 DEF Invitation
  <2>3. QED
    BY <1>6, <1>9, <2>1, <2>2 DEF Accept
<1>10. ASSUME NEW r \in Requests, NEW i \in Invites, NEW to \in {"look", "accept", "reject"},
              ReadInvitation(r, i, to)
       PROVE  RequestsOK'
  <2>1. req[r].user \in Users /\ invite[i] \in Invitation /\ UNCHANGED invite
    BY <1>0, <1>10 DEF ReadInvitation, At, RequestsOK, RequestOK, TypeOK
  <2>2. PICK u, st : u = req[r].user /\ Go(r, [at |-> to, user |-> u, id |-> i, status |-> st])
    BY <1>10 DEF ReadInvitation
  <2> DEFINE x == [at |-> to, user |-> u, id |-> i, status |-> st]
  <2>3. RequestOK(x)'
    BY <2>1, <2>2 DEF RequestOK, CheckedOK, InviteOK, Places
  <2>4. Go(r, x)
    BY <2>2
  <2> HIDE DEF x
  <2>5. QED
    BY <1>1, <2>3, <2>4
<1>11. CASE UNCHANGED req
  BY <1>0, <1>11, OnwardOK DEF RequestsOK, RequestOK, CheckedOK, InviteOK
<1>12. ASSUME NEW r \in Requests, Step(r) PROVE RequestsOK'
  BY <1>2, <1>3, <1>4, <1>7, <1>8, <1>9, <1>10, <1>12
     DEF Step, Leave, WriteMember, SetActive, Expire, Reject, CreateInvitation
<1>13. QED
  BY <1>11, <1>12 DEF Next, Pass, vars

(* Types, requests and rows hold together in every state.                  *)
LEMMA StepInv == MemberInv /\ [Next]_vars => MemberInv'
  BY StepTables, StepRequests DEF MemberInv
-----------------------------------------------------------------------------
(* An organisation loses its last admin only through a list that was out   *)
(* of date.                                                                *)
LEMMA StepAdmins ==
  MemberInv /\ LastAdminLeavesByRace /\ [Next]_vars => LastAdminLeavesByRace'
<1> SUFFICES ASSUME MemberInv, LastAdminLeavesByRace, [Next]_vars,
                    NEW o \in orgs', o \notin raced'
             PROVE  \E m \in Rows : /\ member'[m] # Null /\ member'[m].org = o
                                    /\ IsAdminRole(member'[m].role)
  BY DEF LastAdminLeavesByRace, Admins, AdminRows, In
<1> DEFINE Kept == \E m \in Rows : /\ member'[m] # Null /\ member'[m].org = o
                                   /\ IsAdminRole(member'[m].role)
<1>0. TypeOK /\ RequestsOK
  BY DEF MemberInv
<1>1. ASSUME o \in orgs, o \notin raced
      PROVE  \E m \in Rows : m \in Admins(o) /\ member[m] # Null /\ member[m].org = o
                             /\ IsAdminRole(member[m].role)
  BY <1>1 DEF LastAdminLeavesByRace, Admins, AdminRows, In
<1>2. ASSUME UNCHANGED rows PROVE Kept
  BY <1>1, <1>2 DEF rows, history
<1>3. ASSUME NEW r \in Requests, WriteMember(r) PROVE Kept
  <2> DEFINE n == req[r].row
             to == req[r].to
             seen == req[r].seen
  <2>1. /\ n \in Rows /\ NotLastAdmin(seen, n, to) /\ to \in Roles \cup {Removed}
        /\ member[n] # Null => member[n].org = req[r].org
    BY <1>0, <1>3 DEF WriteMember, At, RequestsOK, RequestOK, CheckedOK
  <2>2. /\ \/ member' = member
           \/ member[n] # Null /\ to = Removed /\ member' = [member EXCEPT ![n] = Null]
           \/ member[n] # Null /\ to # Removed /\ member' = [member EXCEPT ![n].role = to]
        /\ raced' = IF seen = Members(req[r].org) THEN raced ELSE raced \cup {req[r].org}
        /\ orgs' = orgs
    BY <1>3 DEF WriteMember
  <2> HIDE DEF n, to, seen
  <2>3. o \in orgs /\ o \notin raced
    BY <2>2
  <2>4. PICK m \in Rows : m \in Admins(o) /\ member[m] # Null /\ member[m].org = o
                          /\ IsAdminRole(member[m].role)
    BY <1>1, <2>3
  <2>5. \A l \in Rows : l # n => member'[l] = member[l]
    BY <1>0, <2>2 DEF TypeOK
  <2>6. CASE member' = member \/ \E l \in Rows : l # n /\ l \in Admins(o)
    BY <2>4, <2>5, <2>6 DEF Admins, AdminRows, In
  <2>7. CASE member' # member /\ \A l \in Rows : l \in Admins(o) => l = n
    <3>1. m = n /\ o = req[r].org /\ Admins(o) = {n}
      BY <2>1, <2>4, <2>7 DEF Admins, AdminRows, In
    <3>2. seen = Members(o)
      BY <2>2, <3>1
    <3>3. AdminRows(seen, DOMAIN seen) = Admins(o)
      BY <3>2 DEF Members, AdminRows, Admins
    <3>4. IsAdminRole(to)
      BY <2>1, <3>1, <3>3 DEF NotLastAdmin
    <3>5. to # Removed
      BY <3>4 DEF IsAdminRole, Removed
    <3>6. member[n] \in Row /\ to \in AllRoles /\ member' = [member EXCEPT ![n].role = to]
      BY <1>0, <2>1, <2>2, <2>7, <3>5, MemberBookAssumption DEF TypeOK
    <3>7. [member[n] EXCEPT !.role = to] \in Row /\ [member[n] EXCEPT !.role = to].role = to
          /\ [member[n] EXCEPT !.role = to].org = member[n].org
      BY <3>6 DEF Row
    <3>8. member'[n] = [member[n] EXCEPT !.role = to]
      BY <1>0, <2>1, <3>6 DEF TypeOK
    <3>9. QED
      BY <2>1, <2>4, <3>1, <3>4, <3>7, <3>8, MemberBookAssumption
  <2>8. QED
    BY <2>6, <2>7
<1>4. ASSUME NEW l \in Orgs, NEW u \in Users, NEW role \in AllRoles, NEW via \in Invites \cup {Null},
             Insert(l, u, role, via),
             orgs' = orgs \/ (orgs' = orgs \cup {l} /\ role = "org_admin")
      PROVE  Kept
  <2>1. /\ rowsUsed' \in Rows /\ member[rowsUsed'] = Null
        /\ member'[rowsUsed'] = [org |-> l, user |-> u, role |-> role, via |-> via]
        /\ member'[rowsUsed'] # Null
        /\ \A n \in Rows : n # rowsUsed' => member'[n] = member[n]
        /\ raced' = raced
    BY <1>4, InsertIs
  <2>2. CASE o \in orgs
    <3>1. PICK m \in Rows : member[m] # Null /\ member[m].org = o /\ IsAdminRole(member[m].role)
      BY <1>1, <2>1, <2>2
    <3>2. member'[m] = member[m]
      BY <2>1, <3>1
    <3>3. QED
      BY <3>1, <3>2
  <2>3. CASE o \notin orgs
    <3>1. o = l /\ role = "org_admin"
      BY <1>4, <2>3
    <3>2. QED
      BY <2>1, <3>1 DEF IsAdminRole
  <2>4. QED
    BY <2>2, <2>3
<1> HIDE DEF Kept
<1>5. ASSUME NEW r \in Requests, NEW l \in Orgs, CreateOrg(r, l) PROVE Kept
  <2>1. req[r].user \in Users /\ "org_admin" \in AllRoles
    BY <1>0, <1>5 DEF CreateOrg, At, RequestsOK, RequestOK, AllRoles
  <2>2. QED
    BY <1>4, <1>5, <2>1 DEF CreateOrg
<1>6. ASSUME NEW r \in Requests, Accept(r) PROVE Kept
  <2>1. /\ req[r].user \in Users /\ req[r].id \in Invites /\ invite[req[r].id] \in Invitation
    BY <1>0, <1>6 DEF Accept, At, RequestsOK, RequestOK, InviteOK
  <2>2. invite[req[r].id].org \in Orgs /\ invite[req[r].id].role \in AllRoles
    BY <2>1 DEF Invitation
  <2>3. QED
    BY <1>4, <1>6, <2>1, <2>2 DEF Accept
<1>7. ASSUME NEW r \in Requests, Step(r) PROVE Kept
  BY <1>2, <1>3, <1>5, <1>6, <1>7
     DEF Step, Begin, Leave, CountOrgs, ReadMembers, SelectOrg, ReadInvitation, Expire, Reject,
         CreateInvitation, SetActive
<1>8. Kept
  BY <1>2, <1>7 DEF Next, Pass, vars
<1>9. QED
  BY <1>8 DEF Kept
-----------------------------------------------------------------------------
(* A row keeps its user and source while it is there.                      *)
LEMMA RowStays ==
  ASSUME MemberInv, Onward, NEW n \in Rows, member[n] # Null, member'[n] # Null
  PROVE  member'[n].user = member[n].user /\ member'[n].via = member[n].via
  BY DEF MemberInv, RowsInOrder, Onward

(* Without an insertion every row that is there was there.                 *)
LEMMA NoNewRow ==
  ASSUME MemberInv, Onward, RowsInOrder', rowsUsed' = rowsUsed, NEW n \in Rows, member'[n] # Null
  PROVE  member[n] # Null
  BY DEF MemberInv, RowsInOrder, Onward

(* A row that came from an invitation keeps an accepted one behind it: an  *)
(* invitation is declined only while it is open, and then it has no row.   *)
LEMMA StepJoined ==
  MemberInv /\ ViaExists /\ JoinedByAccepting /\ [Next]_vars => ViaExists' /\ JoinedByAccepting'
<1> SUFFICES ASSUME MemberInv, ViaExists, JoinedByAccepting, [Next]_vars,
                    NEW n \in Rows, member'[n] # Null, member'[n].via # Null
             PROVE  /\ invite'[member'[n].via] \in Invitation
                    /\ invite'[member'[n].via].status \in {"accepted", "expired"}
  BY DEF ViaExists, JoinedByAccepting
<1> DEFINE v == member'[n].via
           Joined == invite'[v] \in Invitation /\ invite'[v].status \in {"accepted", "expired"}
<1>0. TypeOK /\ RequestsOK /\ Onward /\ TypeOK' /\ RowsInOrder' /\ v \in Invites
  <2>1. TypeOK' /\ Onward /\ RowsInOrder'
    BY StepTables
  <2>2. member'[n] \in Row
    BY <2>1 DEF TypeOK
  <2>3. QED
    BY <2>1, <2>2 DEF MemberInv, Row
<1> HIDE DEF v
<1>1. ASSUME member[n] # Null, invite'[v] = invite[v] PROVE Joined
  <2>1. v = member[n].via
    BY <1>0, <1>1, RowStays DEF v
  <2>2. QED
    BY <1>1, <2>1 DEF ViaExists, JoinedByAccepting, v
<1>2. ASSUME member[n] # Null
      PROVE  invite[v] \in Invitation /\ invite[v].status \in {"accepted", "expired"}
  <2>1. v = member[n].via
    BY <1>0, <1>2, RowStays DEF v
  <2>2. QED
    BY <1>2, <2>1 DEF ViaExists, JoinedByAccepting, v
<1>3. ASSUME rowsUsed' = rowsUsed, invite' = invite PROVE Joined
  BY <1>0, <1>1, <1>3, NoNewRow
<1>4. ASSUME NEW r \in Requests, NEW o \in Orgs, CreateOrg(r, o) PROVE Joined
  <2>1. req[r].user \in Users /\ "org_admin" \in AllRoles
    BY <1>0, <1>4 DEF CreateOrg, At, RequestsOK, RequestOK, AllRoles
  <2>2. /\ member'[rowsUsed'] = [org |-> o, user |-> req[r].user, role |-> "org_admin", via |-> Null]
        /\ \A m \in Rows : m # rowsUsed' => member'[m] = member[m]
    BY <1>4, <2>1, InsertIs DEF CreateOrg
  <2>3. n # rowsUsed'
    BY <2>2
  <2>4. member[n] # Null /\ invite' = invite
    BY <1>4, <2>2, <2>3 DEF CreateOrg
  <2>5. QED
    BY <1>1, <2>4
<1>5. ASSUME NEW r \in Requests, Accept(r) PROVE Joined
  <2> DEFINE i == req[r].id
  <2>1. req[r].user \in Users /\ i \in Invites /\ invite[i] \in Invitation
    BY <1>0, <1>5 DEF Accept, At, RequestsOK, RequestOK, InviteOK
  <2>2. invite[i].org \in Orgs /\ invite[i].role \in AllRoles
    BY <2>1 DEF Invitation
  <2>3. /\ Insert(invite[i].org, req[r].user, invite[i].role, i)
        /\ invite' = [invite EXCEPT ![i].status = "accepted"]
    BY <1>5 DEF Accept
  <2> HIDE DEF i
  <2>4. /\ member'[rowsUsed'] =
             [org |-> invite[i].org, user |-> req[r].user, role |-> invite[i].role, via |-> i]
        /\ \A m \in Rows : m # rowsUsed' => member'[m] = member[m]
    BY <2>1, <2>2, <2>3, InsertIs
  <2>5. [invite[i] EXCEPT !.status = "accepted"] \in Invitation
        /\ [invite[i] EXCEPT !.status = "accepted"].status = "accepted"
    BY <2>1 DEF Invitation
  <2>6. /\ invite'[i] = [invite[i] EXCEPT !.status = "accepted"]
        /\ \A l \in Invites : l # i => invite'[l] = invite[l]
    BY <1>0, <2>1, <2>3 DEF TypeOK
  <2>7. CASE v = i
    BY <2>5, <2>6, <2>7
  <2>8. CASE v # i
    <3>1. n # rowsUsed'
      BY <2>4, <2>8 DEF v
    <3>2. QED
      BY <1>0, <1>1, <2>4, <2>6, <2>8, <3>1
  <2>9. QED
    BY <2>7, <2>8
<1>6. ASSUME NEW r \in Requests, NEW s \in {"expired", "rejected"}, req[r].id \in Invites,
             invite[req[r].id] \in Invitation, invite' = [invite EXCEPT ![req[r].id].status = s],
             s = "rejected" => invite[req[r].id].status = "pending", rowsUsed' = rowsUsed
      PROVE  Joined
  <2> DEFINE i == req[r].id
  <2>1. [invite[i] EXCEPT !.status = s] \in Invitation /\ [invite[i] EXCEPT !.status = s].status = s
    BY <1>6 DEF Invitation
  <2>2. /\ invite'[i] = [invite[i] EXCEPT !.status = s]
        /\ \A l \in Invites : l # i => invite'[l] = invite[l]
    BY <1>0, <1>6 DEF TypeOK
  <2>3. member[n] # Null
    BY <1>0, <1>6, NoNewRow
  <2>4. CASE v = i
    <3>1. s # "rejected"
      BY <1>2, <1>6, <2>3, <2>4
    <3>2. QED
      BY <1>6, <2>1, <2>2, <2>4, <3>1
  <2>5. CASE v # i
    BY <1>0, <1>1, <2>2, <2>3, <2>5
  <2>6. QED
    BY <2>4, <2>5
<1>7. ASSUME NEW r \in Requests, Expire(r) \/ Reject(r) PROVE Joined
  <2>1. req[r].id \in Invites /\ invite[req[r].id] \in Invitation
    BY <1>0, <1>7 DEF Expire, Reject, At, RequestsOK, RequestOK, InviteOK
  <2>2. PICK s \in {"expired", "rejected"} :
          /\ invite' = [invite EXCEPT ![req[r].id].status = s]
          /\ s = "rejected" => invite[req[r].id].status = "pending"
    BY <1>7 DEF Expire, Reject, Decidable
  <2>3. rowsUsed' = rowsUsed
    BY <1>7 DEF Expire, Reject, rows
  <2> HIDE DEF Joined
  <2>4. QED
    BY <1>6, <2>1, <2>2, <2>3
<1>8. ASSUME NEW r \in Requests, NEW i \in Invites, NEW u \in Users, NEW role \in Roles,
             CreateInvitation(r, i, u, role)
      PROVE  Joined
  <2>1. /\ rowsUsed' = rowsUsed /\ invite[i] = Null
        /\ \A l \in Invites : l # i => invite'[l] = invite[l]
    BY <1>0, <1>8 DEF CreateInvitation, rows, TypeOK
  <2>2. member[n] # Null
    BY <1>0, <2>1, NoNewRow
  <2>3. v # i
    BY <1>2, <2>1, <2>2, MemberBookAssumption
  <2>4. QED
    BY <1>0, <1>1, <2>1, <2>2, <2>3
<1> HIDE DEF Joined
<1>9. ASSUME NEW r \in Requests, Step(r) PROVE Joined
  BY <1>3, <1>4, <1>5, <1>7, <1>8, <1>9
     DEF Step, Begin, Leave, CountOrgs, ReadMembers, SelectOrg, ReadInvitation, SetActive,
         WriteMember, rows
<1>10. Joined
  BY <1>3, <1>9 DEF Next, Pass, vars, rows
<1>11. QED
  BY <1>10 DEF Joined, v
-----------------------------------------------------------------------------
(* The requests of a user that have passed the cap and not created yet.    *)
Counted(u) == {r \in Requests : req[r] # Null /\ req[r].at = "counted" /\ req[r].user = u}

(* The cap is over-run at most by the requests that counted before others  *)
(* created: each of them is one less to come when it creates.              *)
CapInv ==
  \A u \in Users :
    Cardinality(Founded(u)) + Cardinality(Counted(u)) < MaxOrgs + Cardinality(Requests)

(* Both are finite sets. *)
LEMMA CapFinite ==
  ASSUME TypeOK, NEW u
  PROVE  IsFiniteSet(Founded(u)) /\ IsFiniteSet(Counted(u)) /\ IsFiniteSet(Requests)
<1>1. IsFiniteSet(Rows)
  BY MemberBookAssumption, FS_Interval DEF Rows
<1>2. Founded(u) \in SUBSET Rows
  BY DEF Founded, TypeOK
<1>3. Counted(u) \in SUBSET Requests
  BY DEF Counted
<1>4. QED
  BY <1>1, <1>2, <1>3, FS_Subset, MemberBookAssumption

(* When neither set grows the bound stays. *)
LEMMA CapShrinks ==
  ASSUME TypeOK, NEW u, NEW F \in SUBSET Founded(u), NEW C \in SUBSET Counted(u),
         Cardinality(Founded(u)) + Cardinality(Counted(u)) < MaxOrgs + Cardinality(Requests)
  PROVE  Cardinality(F) + Cardinality(C) < MaxOrgs + Cardinality(Requests)
<1>1. /\ IsFiniteSet(F) /\ Cardinality(F) <= Cardinality(Founded(u))
      /\ IsFiniteSet(C) /\ Cardinality(C) <= Cardinality(Counted(u))
  BY CapFinite, FS_Subset
<1>2. /\ Cardinality(F) \in Nat /\ Cardinality(Founded(u)) \in Nat
      /\ Cardinality(C) \in Nat /\ Cardinality(Counted(u)) \in Nat
      /\ Cardinality(Requests) \in Nat /\ MaxOrgs \in Nat
  BY <1>1, CapFinite, FS_CardinalityType, MemberBookAssumption
<1>3. QED
  BY <1>1, <1>2

(* Requests at once pass the cap together, but no more than there are.     *)
LEMMA StepCap == MemberInv /\ CapInv /\ [Next]_vars => CapInv'
<1> SUFFICES ASSUME MemberInv, CapInv, [Next]_vars, NEW u \in Users
             PROVE  Cardinality(Founded(u)') + Cardinality(Counted(u)') < MaxOrgs + Cardinality(Requests)
  BY DEF CapInv
<1> DEFINE Bound == Cardinality(Founded(u)') + Cardinality(Counted(u)')
                      < MaxOrgs + Cardinality(Requests)
<1>0. /\ TypeOK /\ RequestsOK /\ FoundersAreAdmins /\ Onward /\ FoundersAreAdmins' /\ TypeOK'
      /\ DOMAIN req = Requests
      /\ Cardinality(Founded(u)) + Cardinality(Counted(u)) < MaxOrgs + Cardinality(Requests)
  BY StepTables DEF MemberInv, CapInv, RequestsOK
<1>1. ASSUME founders' \subseteq founders PROVE Founded(u)' \subseteq Founded(u)
  <2> SUFFICES ASSUME NEW n \in founders', member'[n].user = u PROVE member[n].user = u
    BY <1>1 DEF Founded
  <2>1. n \in Rows /\ member[n] # Null /\ member'[n] # Null
    BY <1>0, <1>1 DEF FoundersAreAdmins, TypeOK
  <2>2. QED
    BY <1>0, <2>1, RowStays
<1>2. ASSUME founders' \subseteq founders,
             \A q \in Requests : req'[q] # Null /\ req'[q].at = "counted" => req'[q] = req[q]
      PROVE  Bound
  <2>1. Founded(u)' \in SUBSET Founded(u) /\ Counted(u)' \in SUBSET Counted(u)
    BY <1>1, <1>2 DEF Counted
  <2>2. QED
    BY <1>0, <2>1, CapShrinks
<1>3. ASSUME NEW r \in Requests, CountOrgs(r) PROVE Bound
  <2> DEFINE w == req[r].user
  <2>1. /\ UNCHANGED rows /\ Cardinality(AdminRows(member, Of(w))) < MaxOrgs
        /\ \A q \in Requests : q # r => req'[q] = req[q]
        /\ req'[r] = [at |-> "counted", user |-> w]
    BY <1>0, <1>3, OnlyOwn DEF CountOrgs, Go
  <2>2. Founded(u)' = Founded(u)
    BY <2>1 DEF Founded, rows, history
  <2>3. CASE u # w
    <3>1. Counted(u)' \in SUBSET Counted(u)
      BY <2>1, <2>3 DEF Counted
    <3>2. QED
      BY <1>0, <2>2, <3>1, CapShrinks
  <2>4. CASE u = w
    <3>1. Founded(u) \in SUBSET AdminRows(member, Of(u))
      BY <1>0 DEF Founded, FoundersAreAdmins, AdminRows, Of, TypeOK
    <3>2. AdminRows(member, Of(u)) \in SUBSET Rows /\ IsFiniteSet(Rows)
      BY MemberBookAssumption, FS_Interval DEF AdminRows, Of, Rows
    <3>3. IsFiniteSet(AdminRows(member, Of(u)))
      BY <3>2, FS_Subset
    <3>4. Cardinality(Founded(u)) <= Cardinality(AdminRows(member, Of(u)))
      BY <3>1, <3>3, FS_Subset
    <3>5. Counted(u)' \in SUBSET Requests
      BY DEF Counted
    <3>6. IsFiniteSet(Counted(u)') /\ Cardinality(Counted(u)') <= Cardinality(Requests)
      BY <3>5, MemberBookAssumption, FS_Subset
    <3>7. /\ Cardinality(Founded(u)) \in Nat /\ Cardinality(AdminRows(member, Of(u))) \in Nat
          /\ Cardinality(Counted(u)') \in Nat /\ Cardinality(Requests) \in Nat /\ MaxOrgs \in Nat
      BY <1>0, <3>3, <3>6, CapFinite, FS_CardinalityType, MemberBookAssumption
    <3>8. Cardinality(AdminRows(member, Of(u))) < MaxOrgs
      BY <2>1, <2>4
    <3>9. QED
      BY <2>2, <3>4, <3>6, <3>7, <3>8
  <2>5. QED
    BY <2>3, <2>4
<1>4. ASSUME NEW r \in Requests, NEW o \in Orgs, CreateOrg(r, o) PROVE Bound
  <2> DEFINE w == req[r].user
  <2>1. /\ req[r] # Null /\ req[r].at = "counted" /\ w \in Users /\ "org_admin" \in AllRoles
        /\ Insert(o, w, "org_admin", Null) /\ founders' = founders \cup {rowsUsed + 1}
    BY <1>0, <1>4 DEF CreateOrg, At, RequestsOK, RequestOK, AllRoles
  <2>2. /\ \A q \in Requests : q # r => req'[q] = req[q]
        /\ req'[r] = [at |-> "activate", user |-> w, org |-> o]
    BY <1>0, <1>4, OnlyOwn DEF CreateOrg, Go
  <2>a. req'[r].at # "counted"
    BY <2>2
  <2>3. /\ rowsUsed' = rowsUsed + 1
        /\ member'[rowsUsed'] = [org |-> o, user |-> w, role |-> "org_admin", via |-> Null]
        /\ \A n \in Rows : n # rowsUsed' => member'[n] = member[n]
    BY <2>1, InsertIs
  <2>4. CASE u # w
    <3>1. Founded(u)' \in SUBSET Founded(u)
      BY <1>0, <2>1, <2>3, <2>4 DEF Founded, TypeOK
    <3>2. Counted(u)' \in SUBSET Counted(u)
      BY <2>2, <2>a DEF Counted
    <3>3. QED
      BY <1>0, <3>1, <3>2, CapShrinks
  <2>5. CASE u = w
    <3> DEFINE F == Founded(u) \cup {rowsUsed + 1}
               C == Counted(u) \ {r}
    <3>1. Founded(u)' \in SUBSET F
      BY <1>0, <2>1, <2>3 DEF Founded, TypeOK
    <3>2. Counted(u)' \in SUBSET C /\ r \in Counted(u)
      BY <2>1, <2>2, <2>5, <2>a DEF Counted
    <3>3. IsFiniteSet(F) /\ Cardinality(F) <= Cardinality(Founded(u)) + 1 /\ Cardinality(F) \in Nat
      <4>1. IsFiniteSet(Founded(u)) /\ Cardinality(Founded(u)) \in Nat
        BY <1>0, CapFinite, FS_CardinalityType
      <4>2. /\ IsFiniteSet(F)
            /\ Cardinality(F) \in {Cardinality(Founded(u)), Cardinality(Founded(u)) + 1}
        BY <4>1, FS_AddElement
      <4>3. QED
        BY <4>1, <4>2
    <3>4. IsFiniteSet(C) /\ Cardinality(C) = Cardinality(Counted(u)) - 1 /\ Cardinality(C) \in Nat
      BY <1>0, <3>2, CapFinite, FS_RemoveElement, FS_CardinalityType
    <3> HIDE DEF F, C
    <3>5. /\ Cardinality(Founded(u)') <= Cardinality(F) /\ Cardinality(Founded(u)') \in Nat
          /\ Cardinality(Counted(u)') <= Cardinality(C) /\ Cardinality(Counted(u)') \in Nat
      BY <3>1, <3>2, <3>3, <3>4, FS_Subset, FS_CardinalityType
    <3>6. /\ Cardinality(Founded(u)) \in Nat /\ Cardinality(Counted(u)) \in Nat
          /\ Cardinality(Requests) \in Nat /\ MaxOrgs \in Nat
      BY <1>0, CapFinite, FS_CardinalityType, MemberBookAssumption
    <3>7. QED
      BY <1>0, <3>3, <3>4, <3>5, <3>6
  <2>6. QED
    BY <2>4, <2>5
<1>5. ASSUME NEW r \in Requests, NEW x, Go(r, x), x.at # "counted", founders' \subseteq founders
      PROVE  Bound
  <2>1. /\ req'[r] = x /\ \A q \in Requests : q # r => req'[q] = req[q]
    BY <1>0, <1>5, OnlyOwn DEF Go
  <2>2. \A q \in Requests : req'[q] # Null /\ req'[q].at = "counted" => req'[q] = req[q]
    BY <1>5, <2>1
  <2> HIDE DEF Bound
  <2>3. QED
    BY <1>2, <1>5, <2>2
<1>6. ASSUME NEW r \in Requests, End(r), founders' \subseteq founders PROVE Bound
  <2>1. /\ req'[r] = Null /\ \A q \in Requests : q # r => req'[q] = req[q]
    BY <1>0, <1>6, OnlyOwn DEF End
  <2>2. \A q \in Requests : req'[q] # Null /\ req'[q].at = "counted" => req'[q] = req[q]
    BY <2>1
  <2> HIDE DEF Bound
  <2>3. QED
    BY <1>2, <1>6, <2>2
<1> HIDE DEF Bound
<1>7. ASSUME NEW r \in Requests, NEW v \in Users, Begin(r, v) PROVE Bound
  <2>1. founders' = founders
    BY <1>7 DEF Begin, rows, history
  <2>2. PICK o, role : Go(r, [at |-> "in", user |-> v, org |-> o, role |-> role])
    BY <1>7 DEF Begin
  <2>3. [at |-> "in", user |-> v, org |-> o, role |-> role].at # "counted"
    OBVIOUS
  <2>4. QED
    BY <1>5, <2>1, <2>2, <2>3
<1>8. ASSUME NEW r \in Requests, NEW n, NEW to, ReadMembers(r, n, to) PROVE Bound
  <2>1. founders' = founders
    BY <1>8 DEF ReadMembers, rows, history
  <2>2. PICK w, o, seen :
          Go(r, [at |-> "checked", user |-> w, org |-> o, seen |-> seen, row |-> n, to |-> to])
    BY <1>8 DEF ReadMembers
  <2>3. [at |-> "checked", user |-> w, org |-> o, seen |-> seen, row |-> n, to |-> to].at # "counted"
    OBVIOUS
  <2>4. QED
    BY <1>5, <2>1, <2>2, <2>3
<1>9. ASSUME NEW r \in Requests, (\E o \in Orgs : SelectOrg(r, o)) \/ Accept(r) PROVE Bound
  <2>1. founders' = founders
    BY <1>9 DEF SelectOrg, Accept, rows, history
  <2>2. PICK w, o : Go(r, [at |-> "activate", user |-> w, org |-> o])
    BY <1>9 DEF SelectOrg, Accept
  <2>3. [at |-> "activate", user |-> w, org |-> o].at # "counted"
    OBVIOUS
  <2>4. QED
    BY <1>5, <2>1, <2>2, <2>3
<1>10. ASSUME NEW r \in Requests, NEW i \in Invites, NEW to \in {"look", "accept", "reject"},
              ReadInvitation(r, i, to)
       PROVE  Bound
  <2>1. founders' = founders
    BY <1>10 DEF ReadInvitation, rows, history
  <2>2. PICK w, st : Go(r, [at |-> to, user |-> w, id |-> i, status |-> st])
    BY <1>10 DEF ReadInvitation
  <2>3. [at |-> to, user |-> w, id |-> i, status |-> st].at # "counted"
    BY <1>10
  <2>4. QED
    BY <1>5, <2>1, <2>2, <2>3
<1>11. ASSUME NEW r \in Requests, WriteMember(r) PROVE Bound
  BY <1>6, <1>11 DEF WriteMember
<1>12. ASSUME NEW r \in Requests, UNCHANGED rows, End(r) PROVE Bound
  BY <1>6, <1>12 DEF rows, history
<1>13. ASSUME UNCHANGED rows, UNCHANGED req PROVE Bound
  BY <1>2, <1>13 DEF rows, history
<1>14. ASSUME NEW r \in Requests, Leave(r) \/ SetActive(r) \/ Expire(r) \/ Reject(r) PROVE Bound
  BY <1>12, <1>14 DEF Leave, SetActive, Expire, Reject
<1>15. ASSUME NEW r \in Requests, NEW i, NEW v, NEW role, CreateInvitation(r, i, v, role) PROVE Bound
  BY <1>12, <1>15 DEF CreateInvitation
<1>16. ASSUME NEW r \in Requests, Step(r) PROVE Bound
  BY <1>3, <1>4, <1>7, <1>8, <1>9, <1>10, <1>11, <1>14, <1>15, <1>16 DEF Step
<1>17. Bound
  BY <1>13, <1>16 DEF Next, Pass, vars
<1>18. QED
  BY <1>17 DEF Bound
-----------------------------------------------------------------------------
(* At first nobody has founded or counted anything, and the cap is one or  *)
(* more.                                                                   *)
LEMMA InitCap == Init => CapInv
<1> SUFFICES ASSUME Init, NEW u \in Users
             PROVE  Cardinality(Founded(u)) + Cardinality(Counted(u)) < MaxOrgs + Cardinality(Requests)
  BY DEF CapInv
<1>1. Founded(u) = {} /\ Counted(u) = {}
  BY DEF Init, Founded, Counted
<1>2. Cardinality(Founded(u)) = 0 /\ Cardinality(Counted(u)) = 0
  BY <1>1, FS_EmptySet
<1>3. Cardinality(Requests) \in Nat /\ MaxOrgs \in Nat \ {0}
  BY MemberBookAssumption, FS_CardinalityType
<1>4. QED
  BY <1>2, <1>3

(* Everything that is invariant about members, together.                   *)
LEMMA MemberSafety ==
  Spec => [](MemberInv /\ LastAdminLeavesByRace /\ ViaExists /\ JoinedByAccepting /\ CapInv)
<1>1. Init => LastAdminLeavesByRace /\ JoinedByAccepting
  BY DEF Init, LastAdminLeavesByRace, JoinedByAccepting
<1>2. QED
  BY <1>1, InitInv, InitCap, StepInv, StepAdmins, StepJoined, StepCap, PTL DEF Spec

(* Members, organisations, invitations and sessions stay well typed.       *)
THEOREM MembersTypeCorrect == Spec => []TypeOK
<1>1. MemberInv => TypeOK
  BY DEF MemberInv
<1>2. QED
  BY <1>1, MemberSafety, PTL

(* However many requests edit the members of an organisation, it is left   *)
(* without an admin only when a request looked at a list that another one  *)
(* has changed since (routes.ts PATCH and DELETE /api/members/:id).        *)
THEOREM LastAdminIsKept == Spec => []LastAdminLeavesByRace
  BY MemberSafety, PTL

(* A membership from an invitation is one its user accepted: no order of   *)
(* accepting, declining, expiring and re-reading undoes that.              *)
THEOREM NobodyJoinsUninvited == Spec => []JoinedByAccepting
  BY MemberSafety, PTL

(* The cap on founded organisations is passed by fewer than the number of  *)
(* requests at once (routes.ts POST /api/orgs counts before it creates).   *)
THEOREM CapOverrunIsBounded == Spec => []CapIsNearlyKept
<1>1. MemberInv /\ CapInv => CapIsNearlyKept
  <2> SUFFICES ASSUME MemberInv, CapInv, NEW u \in Users
               PROVE  Cardinality(Founded(u)) < MaxOrgs + Cardinality(Requests)
    BY DEF CapIsNearlyKept
  <2>1. TypeOK
    BY DEF MemberInv
  <2>2. /\ Cardinality(Founded(u)) \in Nat /\ Cardinality(Counted(u)) \in Nat
        /\ Cardinality(Requests) \in Nat /\ MaxOrgs \in Nat
    BY <2>1, CapFinite, FS_CardinalityType, MemberBookAssumption
  <2>3. QED
    BY <2>2 DEF CapInv
<1>2. QED
  BY <1>1, MemberSafety, PTL
=============================================================================

----------------------------- MODULE PageAccess -----------------------------
(***************************************************************************)
(* What the pages of the web application offer to a role, and what the API *)
(* asks of a role for the same request.  The two are written down in       *)
(* different packages: a page shows a button when a flag computed from the *)
(* answer of /api/me is set (lib/roles.ts), the API decides again with the *)
(* role of the membership row (context.ts).  No state here; BookTab puts   *)
(* a user, whose role may change meanwhile, between the two.               *)
(***************************************************************************)

Roles == {"org_admin", "partner", "analyst", "viewer"}

(* The flags of useBookSession. *)
isWriteRole(role) == role \in {"org_admin", "partner", "analyst"}
isAdminRole(role) == role = "org_admin"
isLockRole(role) == role \in {"org_admin", "partner"}

-----------------------------------------------------------------------------
(* The API: which requests each guard protects. *)

requireWrite ==
  {"fund", "company", "profile", "document", "parse", "mapping", "sync",
   "confirm", "reject", "refresh", "snooze", "mute", "unmute", "mark",
   "draft_report", "save_report", "note", "draft_note"}

requireAdmin ==
  {"member_role", "member_remove", "invite", "formula_book", "flag_policy",
   "settings", "connector_list", "connector_save", "connector_test",
   "connector_connect", "connector_disconnect"}

requireLock == {"lock", "unlock"}

requireOrg == {"ask", "download", "export", "snapshot"}

Requests == requireWrite \cup requireAdmin \cup requireLock \cup requireOrg

(* The API's own copies of the role sets (packages/config). *)
WriteRoles == Roles \ {"viewer"}
LockRoles == {"org_admin", "partner"}

Permits(role, request) ==
  \/ request \in requireOrg /\ role \in Roles
  \/ request \in requireWrite /\ role \in WriteRoles
  \/ request \in requireLock /\ role \in LockRoles
  \/ request \in requireAdmin /\ role = "org_admin"

-----------------------------------------------------------------------------
(* The pages: the requests behind the controls a role sees on each. *)

If(flag, requests) == IF flag THEN requests ELSE {}

ConfirmOffers(role) == If(isWriteRole(role), {"confirm", "reject"})

(* Recompute stands in the head of the page, the other three beside the flag. *)
FlagsOffers(role) ==
  If(isWriteRole(role), {"refresh", "snooze", "mute", "unmute"})

(* Mutant: the lock of a period shown to everyone who may write a mark. *)
NavLockForWriters(role) == If(isWriteRole(role), {"lock", "unlock", "snapshot"})
NavLockOffers(role) == If(isLockRole(role), {"lock", "unlock", "snapshot"})
NavMarkOffers(role) == If(isWriteRole(role), {"mark"})

ReportsOffers(role) == If(isWriteRole(role), {"draft_report"})

(* Anyone may download; what is typed is saved first only for a writer. *)
ReportOffers(role) == {"export"} \cup If(isWriteRole(role), {"save_report"})

CompanyOffers(role) ==
  If(isWriteRole(role),
     {"draft_report", "draft_note", "note", "document"})
CompanyLinksOffers(role) ==
  If(isWriteRole(role), {"profile", "mapping", "sync"})

(* The list of connectors, which only an admin may read, enables the pull
   from OneDrive: on this page a partner and an analyst never see it. *)
NewCompanyOffers(role) ==
  If(isWriteRole(role), {"company", "mapping", "document", "parse"})
    \cup If(isWriteRole(role) /\ Permits(role, "connector_list"), {"sync"})

SettingsFirmOffers(role) ==
  If(isAdminRole(role), {"settings", "formula_book"})
SettingsPeopleOffers(role) ==
  If(isAdminRole(role), {"member_role", "member_remove", "invite"})
SettingsPolicyOffers(role) ==
  If(isAdminRole(role), {"flag_policy"}) \cup If(isWriteRole(role), {"fund"})

ConnectorsOffers(role) ==
  If(isAdminRole(role),
     {"connector_list", "connector_save", "connector_test",
      "connector_connect", "connector_disconnect"})

AskOffers(role) == {"ask"}
SourcesOffers(role) == {"download"}

Offers(role) ==
  UNION {ConfirmOffers(role), FlagsOffers(role), NavLockOffers(role),
         NavMarkOffers(role), ReportsOffers(role), ReportOffers(role),
         CompanyOffers(role), CompanyLinksOffers(role),
         NewCompanyOffers(role), SettingsFirmOffers(role),
         SettingsPeopleOffers(role), SettingsPolicyOffers(role),
         ConnectorsOffers(role), AskOffers(role), SourcesOffers(role)}

=============================================================================

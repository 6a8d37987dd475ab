----------------------------- MODULE VendorPull -----------------------------
(***************************************************************************)
(* What a sync does at the vendor, company by company: OneDrive lists the  *)
(* folder a company is mapped to page by page and downloads what is new,   *)
(* Affinity tells the ownership of a position, Granola a meeting note.     *)
(* Meanwhile people edit companies and positions; each edit reads a row    *)
(* and writes all its columns back.  Module ConnectorSync has the status,  *)
(* the secrets, overlapping syncs, crashes and parses around it.           *)
(***************************************************************************)
EXTENDS Naturals, FiniteSetsExt

CONSTANTS
  Nothing,
  Gone,        \* the vendor answers 404
  Unset,       \* a column a PATCH body leaves out
  Companies,
  Positions,
  CompanyOf,   \* positions.company_id
  Places,      \* what a company is mapped to: a folder, a vendor's company, a note
  Files,       \* what a folder may hold, numbered in the order it is listed in
  Supported,   \* files of a kind the parser knows, not empty
  PageSize,    \* files on a page of the listing
  Shares,      \* ownership percentages
  Texts,       \* values of the columns no sync reads or writes
  Editors,     \* bound: each edits one row
  MaxSyncs,    \* bound: syncs
  MaxMoves     \* bound: changes at the vendor

Vendors == {"onedrive", "affinity", "granola"}

ASSUME VendorPullAssumption ==
  /\ CompanyOf \in [Positions -> Companies]
  /\ Files \subseteq Nat \ {0} /\ Supported \subseteq Files
  /\ PageSize \in Nat \ {0}

VARIABLES
  vendor,     \* the connector of this behaviour
  remote,   \* of each place, what the vendor has: files, an ownership, a note's size, or Gone
  token,    \* the access token, the refresh token and the way it was authorised
  rows,     \* companies and positions: the columns people edit
  prior,    \* positions.prior_ownership_pct
  vault,    \* documents: [art, co]
  sync,     \* the sync under way
  result,   \* connectors.status after the last sync
  opened,     \* of each editor, the row it read
  left,     \* bounds: syncs and changes at the vendor still to come
  told,     \* of each row, each column as it was set last
  overlapped \* columns set by one request between the read and the write of another

pullVars == <<vendor, remote, token, rows, prior, vault, sync, result, opened, left, told, overlapped>>
books    == <<rows, prior, vault, told, overlapped>>

Has(k) == CASE k = "onedrive" -> (SUBSET Files) \cup {Gone}
            [] k = "affinity" -> Shares \cup {Nothing, Gone}
            [] k = "granola"  -> {"note", "large", Gone}

Idle == [stage |-> "idle", todo |-> {}, place |-> [c \in Companies |-> Nothing], co |-> Nothing, after |-> 0,
         page |-> {}, more |-> FALSE, mine |-> {}, wrote |-> <<>>, seen |-> {}]

Company(place)  == [place |-> place, text |-> CHOOSE t \in Texts : TRUE]
Position(share) == [own |-> share, text |-> CHOOSE t \in Texts : TRUE]

PullInit ==
  /\ vendor \in Vendors
  /\ remote \in [Places -> Has(vendor)]
  /\ token \in [access : {"fresh", "stale"}, refresh : BOOLEAN, mode : {"auth_code", "client_credentials"}]
  /\ \E p \in [Companies -> Places] :
       rows = [x \in Companies \cup Positions |-> IF x \in Companies THEN Company(p[x]) ELSE Position(Nothing)]
  /\ prior = [p \in Positions |-> Nothing]
  /\ vault = {}
  /\ sync = Idle /\ result = "connected"
  /\ opened = [e \in Editors |-> Nothing]
  /\ left = [syncs |-> MaxSyncs, moves |-> MaxMoves]
  /\ told = rows /\ overlapped = {}

-----------------------------------------------------------------------------
(* The vendor.  A file that is added or goes does not move the others of a *)
(* listing: the next page begins after the last file of this one.          *)

Stays(item, value) == IF vendor = "onedrive" THEN value # Gone /\ item \in value ELSE item = value

Move(place, value) ==
  /\ left.moves > 0 /\ value # remote[place]
  /\ remote' = [remote EXCEPT ![place] = value]
  /\ left' = [left EXCEPT !.moves = @ - 1]
  /\ sync' = [sync EXCEPT !.seen = {s \in @ : s[1] # place \/ Stays(s[2], value)}]
  /\ UNCHANGED <<vendor, token, books, result, opened>>

TokenExpires ==
  /\ vendor = "onedrive" /\ token.access = "fresh"
  /\ token' = [token EXCEPT !.access = "stale"]
  /\ UNCHANGED <<vendor, remote, books, sync, result, opened, left>>

Items(place) ==
  IF remote[place] = Gone THEN {}
  ELSE IF vendor = "onedrive" THEN {<<place, f>> : f \in remote[place] \cap Supported}
  ELSE {<<place, remote[place]>>}

Rest(place, after) == {f \in remote[place] : f > after}

graphChildren(place, after) ==
  {f \in Rest(place, after) : Cardinality({g \in Rest(place, after) : g < f}) < PageSize}

-----------------------------------------------------------------------------
(* ensureAccessToken: a fresh token is used, a stale one renewed by the    *)
(* refresh token or by the application's own; with neither the sync fails. *)
refreshOnedriveToken == token.refresh
clientCredentialsOnedriveToken == token.mode = "client_credentials"
Renewable == refreshOnedriveToken \/ clientCredentialsOnedriveToken
ensureAccessToken == vendor # "onedrive" \/ token.access = "fresh" \/ Renewable

(* The vendor may refuse what it is asked first; without a token nothing is asked. *)
healthCheck == IF ensureAccessToken THEN BOOLEAN ELSE {FALSE}

(* The companies are read once; those mapped to nothing are left out.  The *)
(* health check decides.                                                   *)
Begin ==
  /\ sync.stage = "idle" /\ left.syncs > 0
  /\ left' = [left EXCEPT !.syncs = @ - 1]
  /\ LET place == [c \in Companies |-> rows[c].place]
         targets == {c \in Companies : place[c] # Nothing}
     IN \E ok \in healthCheck :
          IF ok THEN /\ sync' = [Idle EXCEPT !.stage = "next", !.todo = targets, !.place = place,
                                              !.seen = UNION {Items(place[c]) : c \in targets}]
                     /\ UNCHANGED result
                ELSE result' = "error" /\ UNCHANGED sync
  /\ UNCHANGED <<vendor, remote, token, books, opened>>

Place == sync.place[sync.co]

Turn(c) ==
  /\ sync.stage = "next" /\ c \in sync.todo
  /\ sync' = [sync EXCEPT !.stage = "ask", !.todo = @ \ {c}, !.co = c, !.after = 0]
  /\ UNCHANGED <<vendor, remote, token, books, result, opened, left>>

Stored(art) == \E d \in vault \cup sync.mine : d.art = art

(* Mutant: the cursor of the listing is not followed. *)
firstPageOnly(page) == FALSE

(* @odata.nextLink, given while files are left. *)
nextLink(page) == Rest(Place, sync.after) # page

ListPage ==
  /\ sync.stage = "ask" /\ vendor = "onedrive" /\ remote[Place] # Gone
  /\ LET page == graphChildren(Place, sync.after)
     IN sync' = [sync EXCEPT !.stage = "page", !.page = page, !.more = nextLink(page),
                             !.after = Max(page \cup {sync.after})]
  /\ UNCHANGED <<vendor, remote, token, books, result, opened, left>>

Document(art) == [art |-> art, co |-> sync.co]

(* Files of other kinds, empty ones and those that are known, whichever    *)
(* company's they are, are passed over. *)
TakeFile ==
  /\ sync.stage = "page" /\ sync.page # {}
  /\ LET f == Min(sync.page)
     IN sync' = [sync EXCEPT !.page = @ \ {f},
                             !.mine = IF Stored(f) \/ f \notin Supported THEN @ ELSE @ \cup {Document(f)}]
  /\ UNCHANGED <<vendor, remote, token, books, result, opened, left>>

TurnPage ==
  /\ sync.stage = "page" /\ sync.page = {}
  /\ sync' = [sync EXCEPT !.stage = IF sync.more THEN "ask" ELSE "next"]
  /\ UNCHANGED <<vendor, remote, token, books, result, opened, left>>

(* GET of one company; every other answer fails the sync. *)
affinityCompany == vendor = "affinity" /\ remote[Place] # Gone
(* Its ownership, if the configured field is there and holds a number. *)
mapAffinityCompany == IF remote[Place] \in Shares THEN remote[Place] ELSE Nothing

Noted(wrote, p, share) == [q \in (DOMAIN wrote) \cup {p} |-> IF q = p THEN share ELSE wrote[q]]

(* One position of the company, whichever SELECT gives first, takes the    *)
(* vendor's figure, and keeps its former one if it changes.                *)
FetchShare ==
  /\ sync.stage = "ask" /\ affinityCompany
  /\ LET held == {p \in Positions : CompanyOf[p] = sync.co}
     IN IF mapAffinityCompany = Nothing \/ held = {}
          THEN sync' = [sync EXCEPT !.stage = "next"]
          ELSE \E p \in held :
                 sync' = [sync EXCEPT !.stage = "next", !.wrote = Noted(@, p, mapAffinityCompany)]
  /\ UNCHANGED <<vendor, remote, token, books, result, opened, left>>

(* A note that is too long (413) is fetched as its transcript, one that is *)
(* gone (404) is passed over.                                              *)
fetchGranolaNote == remote[Place] \in {"note", "large"}

(* A known note is fetched, and left as it was. *)
FetchNote ==
  /\ sync.stage = "ask" /\ vendor = "granola"
  /\ sync' = [sync EXCEPT !.stage = "next",
                          !.mine = IF ~fetchGranolaNote \/ Stored(Place) THEN @ ELSE @ \cup {Document(Place)}]
  /\ UNCHANGED <<vendor, remote, token, books, result, opened, left>>

(* The writes of the sync, which hold their rows until it ends. *)
NewOwn(p) == IF p \in DOMAIN sync.wrote THEN sync.wrote[p] ELSE rows[p].own
Changed   == {p \in DOMAIN sync.wrote : sync.wrote[p] # rows[p].own}

Commit ==
  /\ vault' = vault \cup sync.mine
  /\ rows' = [x \in DOMAIN rows |-> IF x \in Positions THEN [rows[x] EXCEPT !.own = NewOwn(x)] ELSE rows[x]]
  /\ prior' = [p \in Positions |-> IF p \in Changed /\ rows[p].own # Nothing THEN rows[p].own ELSE prior[p]]
  /\ told' = [x \in DOMAIN told |-> IF x \in DOMAIN sync.wrote THEN [told[x] EXCEPT !.own = sync.wrote[x]] ELSE told[x]]
  /\ overlapped' = {o \in overlapped : ~(o[1] \in DOMAIN sync.wrote /\ o[2] = "own")}

(* The vendor refuses, a place is gone: what was written so far is kept,   *)
(* the renewed token is not.                                               *)
Fail ==
  /\ sync.stage \in {"ask", "page"}
  /\ Commit
  /\ sync' = [Idle EXCEPT !.stage = "failed"] /\ result' = "error"
  /\ UNCHANGED <<vendor, remote, token, opened, left>>

Succeed ==
  /\ sync.stage = "next" /\ sync.todo = {}
  /\ Commit
  /\ sync' = [sync EXCEPT !.stage = "done"] /\ result' = "connected"
  /\ token' = [token EXCEPT !.access = "fresh"]
  /\ UNCHANGED <<vendor, remote, opened, left>>

Return ==
  /\ sync.stage \in {"done", "failed"}
  /\ sync' = Idle
  /\ UNCHANGED <<vendor, remote, token, books, result, opened, left>>

-----------------------------------------------------------------------------
(* PATCH /api/companies/:id, /connector-mapping and /api/positions/:id. *)

EditRead(e, x) ==
  /\ opened[e] = Nothing
  /\ opened' = [opened EXCEPT ![e] = [of |-> x, row |-> rows[x]]]
  /\ UNCHANGED <<vendor, remote, token, books, sync, result, left>>

(* Mutant: a column the body leaves out is cleared. *)
clearsTheRest(row, patch) == [f \in DOMAIN row |-> IF patch[f] = Unset THEN Nothing ELSE patch[f]]

patched(row, patch) == [f \in DOMAIN row |-> IF patch[f] = Unset THEN row[f] ELSE patch[f]]

(* The update waits for a sync that has written the row. *)
EditWrite(e, patch) ==
  /\ opened[e] # Nothing /\ opened[e].of # Nothing
  /\ LET x == opened[e].of
     IN /\ x \notin DOMAIN sync.wrote \/ sync.stage = "done"
        /\ DOMAIN patch = DOMAIN rows[x]
        /\ rows' = [rows EXCEPT ![x] = patched(opened[e].row, patch)]
        /\ told' = [told EXCEPT ![x] = [f \in DOMAIN rows[x] |-> IF patch[f] = Unset THEN @[f] ELSE patch[f]]]
        /\ overlapped' = {o \in overlapped : o[1] # x \/ patch[o[2]] = Unset}
                           \cup {<<x, f>> : f \in {g \in DOMAIN patch : patch[g] = Unset /\ opened[e].row[g] # rows[x][g]}}
  /\ opened' = [opened EXCEPT ![e] = [@ EXCEPT !.of = Nothing]]
  /\ UNCHANGED <<vendor, remote, token, prior, vault, sync, result, left>>

Bodies ==
  [place : Places \cup {Nothing, Unset}, text : {Unset}] \cup [place : {Unset}, text : Texts]
    \cup [own : Shares \cup {Nothing, Unset}, text : {Unset}] \cup [own : {Unset}, text : Texts]

PullNext ==
  \/ \E x \in Places : \E v \in Has(vendor) : Move(x, v)
  \/ TokenExpires
  \/ Begin \/ ListPage \/ TakeFile \/ TurnPage \/ FetchShare \/ FetchNote \/ Fail \/ Succeed \/ Return
  \/ \E c \in Companies : Turn(c)
  \/ \E e \in Editors : \/ \E x \in DOMAIN rows : EditRead(e, x)
                        \/ \E patch \in Bodies : EditWrite(e, patch)

PullSpec == PullInit /\ [][PullNext]_pullVars

-----------------------------------------------------------------------------
(* A sync that reports connected has brought all that stood in the places  *)
(* it read from its begin to its end: each supported file is a document,   *)
(* each note too, each ownership is on a position of its company - however *)
(* many pages the listing had, and whatever came and went meanwhile.  The  *)
(* loops of connector-jobs.ts over companies, pages and files.             *)
SyncBringsAll ==
  sync.stage = "done" =>
    \A s \in sync.seen :
      CASE vendor = "onedrive" -> \E d \in vault : d.art = s[2]
        [] vendor = "granola"  -> \E d \in vault : d.art = s[1]
        [] vendor = "affinity" ->
             \A c \in Companies :
               LET held == {p \in Positions : CompanyOf[p] = c}
               IN sync.place[c] = s[1] /\ s[2] # Nothing /\ held # {} =>
                    \E p \in held : p \in DOMAIN sync.wrote /\ sync.wrote[p] = s[2]

(* What a person or the vendor set last is what a company or a position    *)
(* holds, unless a request that had read the row before wrote it back.     *)
(* The PATCH handlers write every column; nothing else reverts one.        *)
RowsLostOnlyByOverlap ==
  \A x \in DOMAIN rows : \A f \in DOMAIN rows[x] : rows[x][f] # told[x][f] => <<x, f>> \in overlapped
=============================================================================

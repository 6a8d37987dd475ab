---------------------------- MODULE ConfirmPage ----------------------------
(***************************************************************************)
(* The Confirm page: the list of inbox items of one status as SWR holds it *)
(* (external), Confirm and the two clicks of Reject, the requests they     *)
(* send, and what the API does with them.  Meanwhile parses add items and  *)
(* colleagues decide them.  A confirm is one step here: module MetricBook  *)
(* looks into it.  "confirmed" stands for edited as well.                  *)
(***************************************************************************)
EXTENDS FiniteSets, Naturals, Functions

CONSTANTS
  Items,
  Ambiguous,  \* items whose unit a human has to set
  Filters,    \* bound: statuses chosen on the page
  Slots,      \* bound: requests of the page under way at once
  MaxReads,   \* bound: times the list is asked for
  MaxClicks,  \* bound: requests of the page
  MaxMoves,   \* bound: parses and decisions of colleagues
  Nil,
  Sent        \* a question without an answer yet

Statuses == {"pending", "confirmed", "rejected"}

ASSUME ConfirmPageAssumption == Ambiguous \subseteq Items /\ {"pending"} \subseteq Filters /\ Filters \subseteq Statuses

VARIABLES
  inbox,    \* inbox_items.status, or "none"
  booked,   \* items whose figure is in the book
  filter,   \* the status chosen
  lists,    \* of each status, the list in SWR's cache: the items with their status when read
  previous, \* the list shown last, kept while another is on its way
  reading,  \* of each status, the question under way: Nil, Sent or the answer
  units,    \* items whose unit was chosen on the page
  asking,   \* rows that show "Reject?"
  busy,     \* the item whose buttons are disabled
  request,  \* of each slot, the request under way
  beside,   \* (history) items whose request was not the page's only one
  bounds    \* what is left of the bounds

listed    == <<lists, previous, reading>>
page      == <<filter, units, asking, busy>>
book      == <<inbox, booked>>
pageVars  == <<book, page, listed, request, beside, bounds>>

PageInit ==
  /\ inbox \in [Items -> {"none", "pending"}] /\ booked = {}
  /\ filter = "pending"
  /\ lists = [s \in Filters |-> Nil] /\ previous = Nil
  /\ reading = [s \in Filters |-> IF s = filter THEN Sent ELSE Nil]
  /\ units = {} /\ asking = {} /\ busy = Nil
  /\ request = [k \in Slots |-> Nil] /\ beside = {}
  /\ bounds = [reads |-> MaxReads, clicks |-> MaxClicks, moves |-> MaxMoves]

-----------------------------------------------------------------------------
(* What is shown, whatever kind is filtered and however it is sorted.      *)
(* keepPreviousData: as long as the list of the status chosen has never    *)
(* arrived, the rows of the one before stand in for it.                    *)
KeptOver == lists[filter] = Nil
List     == IF KeptOver THEN previous ELSE lists[filter]
visible  == IF List = Nil THEN {} ELSE DOMAIN List

(* Only rows under Pending have them, not those of the item in flight. *)
WithButtons == IF filter = "pending" THEN visible ELSE {}
Enabled(i)  == i \in WithButtons /\ busy # i

(* A row that is gone has lost its "Reject?", one that comes back is another. *)
Show ==
  /\ previous' = IF lists'[filter'] = Nil THEN previous ELSE lists'[filter']
  /\ asking' = asking \cap WithButtons'
  /\ request' = [k \in Slots |-> IF request[k] # Nil /\ request[k].item \notin WithButtons'
                                  THEN [request[k] EXCEPT !.drawn = FALSE] ELSE request[k]]

(* mutate, a focus, the poll of an empty list: a question already under    *)
(* way is given up and its answer ignored.                                 *)
Question(s) ==
  /\ bounds.reads > 0
  /\ reading' = [reading EXCEPT ![s] = Sent]
  /\ bounds' = [bounds EXCEPT !.reads = @ - 1]

AskList ==
  /\ Question(filter)
  /\ UNCHANGED <<book, page, lists, previous, request, beside>>

(* A list is asked for when it comes into view, unless it was just read.   *)
OnMount(s) ==
  \/ reading[s] = Nil /\ Question(s)
  \/ (reading[s] # Nil \/ lists[s] # Nil) /\ UNCHANGED <<reading, bounds>>

Choose(s) ==
  /\ s # filter
  /\ filter' = s
  /\ OnMount(s)
  /\ UNCHANGED <<book, lists, units, busy, beside>>
  /\ Show

(* Mutant: the query's status is not looked at. *)
everyItem(s) == Restrict(inbox, {i \in Items : inbox[i] # "none"})
(* GET /api/inbox?status= *)
getInbox(s) == Restrict(inbox, {i \in Items : inbox[i] = s})

ListIsRead(s) ==
  /\ reading[s] = Sent
  /\ reading' = [reading EXCEPT ![s] = getInbox(s)]
  /\ UNCHANGED <<book, page, lists, previous, request, beside, bounds>>

ListArrives(s) ==
  /\ reading[s] \notin {Nil, Sent}
  /\ reading' = [reading EXCEPT ![s] = Nil]
  /\ lists' = [lists EXCEPT ![s] = reading[s]]
  /\ UNCHANGED <<book, filter, units, busy, beside, bounds>>
  /\ Show

ListFails(s) ==
  /\ reading[s] # Nil
  /\ reading' = [reading EXCEPT ![s] = Nil]
  /\ UNCHANGED <<book, page, lists, previous, request, beside, bounds>>

UnderWay == {k \in Slots : request[k] # Nil /\ request[k].stage # "adrift"}
Of(i)    == {k \in UnderWay : request[k].item = i}
ItemsOf(ks) == {request[k].item : k \in ks}

(* Away to another page and back: the cache and the requests are kept. *)
Reopen ==
  /\ filter' = "pending" /\ previous' = lists["pending"]
  /\ units' = {} /\ asking' = {} /\ busy' = Nil
  /\ OnMount("pending")
  /\ request' = [k \in Slots |-> IF request[k] = Nil THEN Nil
                                  ELSE [request[k] EXCEPT !.here = FALSE, !.drawn = FALSE]]
  /\ beside' = beside \cup ItemsOf(UnderWay)
  /\ UNCHANGED <<book, lists>>

-----------------------------------------------------------------------------
(* Clicks. *)

Posted(i, what) == [item |-> i, what |-> what, stage |-> "sent", here |-> TRUE, drawn |-> TRUE,
                    seen |-> List[i], keptOver |-> KeptOver]

Post(i, what) ==
  \E k \in Slots :
    LET others == {x \in UnderWay \ Of(i) : request[x].here}
    IN /\ request[k] = Nil /\ bounds.clicks > 0
       /\ bounds' = [bounds EXCEPT !.clicks = @ - 1]
       /\ request' = [request EXCEPT ![k] = Posted(i, what)]
       /\ beside' = IF others = {} THEN beside ELSE beside \cup {i} \cup ItemsOf(others)

(* Mutant: the buttons stay as they are while a request is under way. *)
SendIdle(i, what) == Post(i, what) /\ UNCHANGED busy
(* setBusy(item.id): one item for all the rows. *)
Send(i, what) == Post(i, what) /\ busy' = i

SetUnit(i) ==
  /\ i \in WithButtons \cap Ambiguous /\ i \notin units
  /\ units' = units \cup {i}
  /\ UNCHANGED <<book, filter, asking, busy, listed, request, beside, bounds>>

ClickConfirm(i) ==
  /\ Enabled(i)
  /\ i \in Ambiguous => i \in units
  /\ Send(i, "confirm")
  /\ UNCHANGED <<book, filter, units, asking, listed>>

(* "Reject?", then Yes or No. *)
ClickReject(i) ==
  /\ Enabled(i) /\ i \notin asking
  /\ asking' = asking \cup {i}
  /\ UNCHANGED <<book, filter, units, busy, listed, request, beside, bounds>>

ClickYes(i) ==
  /\ Enabled(i) /\ i \in asking
  /\ Send(i, "reject")
  /\ UNCHANGED <<book, filter, units, asking, listed>>

ClickNo(i) ==
  /\ i \in asking /\ busy # i
  /\ asking' = asking \ {i}
  /\ UNCHANGED <<book, filter, units, busy, listed, request, beside, bounds>>

-----------------------------------------------------------------------------
(* At the API and back. *)

(* A request the page gave up may still land. *)
Landing(k, what) == request[k] # Nil /\ request[k].what = what /\ request[k].stage \in {"sent", "adrift"}
Answered(k, how) ==
  request' = [request EXCEPT ![k] = IF @.stage = "adrift" THEN Nil ELSE [@ EXCEPT !.stage = how]]

(* Only a pending item is confirmed: 404 inbox_item_not_pending. *)
ConfirmLands(k) ==
  /\ Landing(k, "confirm")
  /\ LET i == request[k].item
     IN IF inbox[i] = "pending"
          THEN inbox' = [inbox EXCEPT ![i] = "confirmed"] /\ booked' = booked \cup {i} /\ Answered(k, "ok")
          ELSE Answered(k, "error") /\ UNCHANGED book
  /\ UNCHANGED <<page, listed, beside, bounds>>

(* A reject does not look at the status. *)
RejectLands(k) ==
  /\ Landing(k, "reject")
  /\ inbox' = [inbox EXCEPT ![request[k].item] = "rejected"]
  /\ Answered(k, "ok")
  /\ UNCHANGED <<booked, page, listed, beside, bounds>>

(* The answer arrives.  load() is not awaited before the buttons of every  *)
(* row are enabled again; a page left since is not touched, though its     *)
(* mutate may ask for the list the new one shows.                          *)
Return(k, stage) ==
  LET r == request[k]
  IN /\ busy' = IF r.here THEN Nil ELSE busy
     /\ asking' = IF r.drawn /\ r.what = "reject" THEN asking \ {r.item} ELSE asking
     /\ beside' = IF Of(r.item) = {k} THEN beside \ {r.item} ELSE beside
     /\ request' = [request EXCEPT ![k] = IF stage = "sent" THEN [r EXCEPT !.stage = "adrift"] ELSE Nil]
     /\ \/ stage = "ok" /\ Question(filter)
        \/ (stage # "ok" \/ bounds.reads = 0 \/ ~r.here) /\ UNCHANGED <<reading, bounds>>
     /\ UNCHANGED <<book, filter, units, lists, previous>>

Returns(k) == request[k] # Nil /\ request[k].stage \in {"ok", "error"} /\ Return(k, request[k].stage)

(* The proxy gives up on the API, or its answer is cut short. *)
Fails(k) == request[k] # Nil /\ \/ request[k].stage = "sent" /\ Return(k, "sent")
                                \/ request[k].stage = "ok" /\ Return(k, "error")

(* A parse adds an item, pending or confirmed by the policy; a colleague   *)
(* decides one that is pending.                                            *)
Others(i) ==
  /\ bounds.moves > 0 /\ bounds' = [bounds EXCEPT !.moves = @ - 1]
  /\ inbox[i] \in {"none", "pending"}
  /\ inbox' \in {[inbox EXCEPT ![i] = s] : s \in Statuses \ {inbox[i]}}
  /\ inbox[i] = "none" => inbox'[i] # "rejected"
  /\ booked' = IF inbox'[i] = "confirmed" THEN booked \cup {i} ELSE booked
  /\ UNCHANGED <<page, listed, request, beside>>

PageNext ==
  \/ AskList \/ Reopen
  \/ \E s \in Filters : Choose(s) \/ ListIsRead(s) \/ ListArrives(s) \/ ListFails(s)
  \/ \E i \in Items : \/ SetUnit(i) \/ ClickConfirm(i) \/ ClickReject(i) \/ ClickYes(i) \/ ClickNo(i)
                      \/ Others(i)
  \/ \E k \in Slots : ConfirmLands(k) \/ RejectLands(k) \/ Returns(k) \/ Fails(k)

PageSpec == PageInit /\ [][PageNext]_pageVars

-----------------------------------------------------------------------------
(* An item whose figure is in the book is rejected through the page only   *)
(* by someone who saw it as pending: the list it was clicked in was read   *)
(* before it was booked, or the rows of another status stood in for the    *)
(* pending ones.  Neither the filter of GET /api/inbox nor the page's own  *)
(* lets anyone reject what they were shown as confirmed.                   *)
BookedIsRejectedUnseen ==
  [][\A i \in booked :
       inbox[i] # "rejected" /\ inbox'[i] = "rejected" =>
         \E k \in Slots : request[k] # Nil /\ request[k].item = i /\ (request[k].seen = "pending" \/ request[k].keptOver)]_pageVars

(* Two requests about one item are under way at once only if another row's *)
(* request was under way beside the first, or the page was opened anew:    *)
(* then busy, which holds one item, was taken from it.                     *)
TwiceOnlyBesideOthers ==
  \A i \in Items : Cardinality(Of(i)) > 1 => i \in beside
=============================================================================

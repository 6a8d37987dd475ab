------------------------------ MODULE BookTab -------------------------------
(***************************************************************************)
(* One browser tab of the web application: the gate of Shell.tsx, the      *)
(* login and onboarding pages, a click on a page of the book, and the      *)
(* report editor; between them and the API stands the proxy (bff-proxy.ts) *)
(* and the cache of SWR (external).  The API may be cold, the session may  *)
(* end, the role may be changed, the report edited from elsewhere and its  *)
(* file rendered, at any moment, also between a question and its answer.   *)
(***************************************************************************)
EXTENDS PageAccess, Naturals

CONSTANTS
  Pieces,     \* pieces of text the user types into the report
  Overlong,   \* those beyond the 200 or 4000 characters the API keeps
  Theirs,     \* what a colleague adds to it
  MaxEvents,  \* bound: events from elsewhere, signing out included
  None

VARIABLES
  api,      \* the API: "up", "cold" (no answer) or "broken" (answers 500)
  session,  \* the session is alive at the API
  cookie,   \* the browser holds its cookie
  member,   \* role of the user's membership, or "none"
  tab,      \* "gate", "book" (the gate is open), "login" or "onboard"
  me,       \* /api/me as SWR holds it: "unknown", "anon", "needsOrg" or a role
  failed,   \* error SWR holds for /api/me: "none", "unreachable" or "own"
  asked,    \* the question in flight: "no", "sent" or its answer
  fresh,    \* within dedupingInterval of the last answer: not asked again
  looking,  \* the page mounted last still has to look at the session
  events,   \* events from elsewhere so far
  refused,  \* the last request was refused for the role
  doubt,    \* (history) since /api/me was last asked, the session, its
            \* cookie or the membership was gone, or the API broken
  astray,   \* (history) the same, since the answer held was asked for
  report,   \* the report's row at the API: [text, a set of pieces; artifact]
  shown,    \* the row as SWR holds it, or None
  form,     \* the text in the editor
  dirty,    \* the editor's Save is enabled
  saving,   \* the PATCH in flight, [text, landed], or None
  typed,    \* (history) the pieces typed since the editor was opened
  overlap   \* (history) the editor met a save, or unsaved text another row

cache == <<me, failed, asked, fresh, doubt, astray>>
gate == <<cache, tab, looking>>
server == <<api, session, cookie, member, events>>
form_ == <<form, dirty, typed, overlap>>
editor == <<report, shown, saving, form_>>
tabVars == <<gate, server, refused, editor>>

Ready == me \in Roles
SignedIn == session /\ cookie
InTrouble == ~SignedIn \/ member = "none" \/ api = "broken"

TabInit ==
  /\ api \in {"up", "cold"} /\ session \in BOOLEAN /\ cookie = session
  /\ member \in Roles
  /\ tab = "gate" /\ me = "unknown" /\ failed = "none"
  /\ asked = "no" /\ fresh = FALSE /\ looking = TRUE
  /\ events = 0 /\ refused = FALSE /\ doubt = ~session /\ astray = ~session
  /\ report = [text |-> {}, artifact |-> "queued"] /\ shown = None /\ form = {}
  /\ dirty = FALSE /\ saving = None /\ typed = {} /\ overlap = FALSE

-----------------------------------------------------------------------------
(* From the API to the message a page sees. *)

(* What comes back to the proxy. *)
Upstream == CASE api = "up"     -> {"answer", "cut answer"}
              [] api = "cold"   -> {"timeout", "refused"}
              [] api = "broken" -> {"server error"}

(* Mutant: the body cut short is passed on, and the page fails on it by itself. *)
bffStreams(outcome) ==
  CASE outcome = "answer" -> 200 [] outcome # "answer" -> 500
(* The proxy reads the body to its end: JSON cut short is a bad gateway. *)
bffFromUpstream(outcome) ==
  CASE outcome = "answer"       -> 200
    [] outcome = "cut answer"   -> 502
    [] outcome = "server error" -> 500
classifyUpstreamFailure(outcome) == 503
fetchUpstream(outcome) ==
  IF outcome \in {"timeout", "refused"}
    THEN classifyUpstreamFailure(outcome) ELSE bffFromUpstream(outcome)

(* The message api() throws; "none" when it returns the data. *)
ErrorOf(status) == CASE status = 200          -> "none"
                     [] status \in {502, 503} -> "unreachable"
                     [] status = 500          -> "own"
isWakeError(message) == message = "unreachable"

Me == IF ~SignedIn THEN "anon" ELSE IF member = "none" THEN "needsOrg" ELSE member

(* What a question to /api/me may be answered now. *)
Answers == {IF ErrorOf(fetchUpstream(o)) = "none" THEN Me
            ELSE ErrorOf(fetchUpstream(o)) : o \in Upstream}

-----------------------------------------------------------------------------
(* The gate.  useSWR asks /api/me when the Shell is mounted and when the   *)
(* window gets the focus, unless it was asked within dedupingInterval.     *)

Ask == /\ asked = "no"
       /\ asked' = "sent" /\ fresh' = TRUE /\ doubt' = InTrouble
       /\ UNCHANGED <<tab, me, failed, astray, looking, server, refused, editor>>

AskMe == tab \in {"gate", "book"} /\ ~fresh /\ Ask

(* A cold API: stay, and ask again after a while, deduplicated or not. *)
WakeRetry == tab = "gate" /\ ~Ready /\ isWakeError(failed) /\ Ask

DedupeEnds == /\ fresh /\ asked = "no"
              /\ fresh' = FALSE
              /\ UNCHANGED <<tab, me, failed, asked, looking, doubt, astray, server, refused, editor>>

(* The API computes its answer, or the proxy gives up on it. *)
MeAnswered ==
  /\ asked = "sent"
  /\ asked' \in Answers
  /\ UNCHANGED <<tab, me, failed, fresh, looking, doubt, astray, server, refused, editor>>

(* The answer reaches the cache: an error leaves the data as it was and
   forgets the question, so that it may be asked again at once. *)
MeArrives ==
  /\ asked \notin {"no", "sent"}
  /\ asked' = "no"
  /\ \/ asked \in {"unreachable", "own"}
        /\ failed' = asked /\ fresh' = FALSE /\ astray' = (astray \/ doubt)
        /\ UNCHANGED me
     \/ asked \notin {"unreachable", "own"}
        /\ failed' = "none" /\ me' = asked /\ astray' = doubt
        /\ UNCHANGED fresh
  /\ UNCHANGED <<tab, looking, doubt, server, refused, editor>>

(* Another page is mounted.  Leaving the book drops what was typed; the
   cache keeps the report, and the requests in flight go on. *)
GoTo(page) ==
  /\ tab' = page /\ looking' = TRUE
  /\ IF tab = "book"
       THEN /\ form' = IF shown = None THEN {} ELSE shown.text
            /\ dirty' = FALSE /\ typed' = {} /\ overlap' = FALSE
       ELSE UNCHANGED form_
  /\ UNCHANGED <<refused, report, shown, saving>>

Stay == UNCHANGED <<tab, refused, editor>>

(* The effects of the Shell on what the cache holds. *)
GateReacts ==
  /\ tab \in {"gate", "book"}
  /\ \/ me = "anon" /\ GoTo("login")
     \/ me = "needsOrg" /\ GoTo("onboard")
     \/ me = "unknown" /\ failed # "none" /\ ~isWakeError(failed) /\ GoTo("login")
     \/ Ready /\ tab = "gate" /\ tab' = "book" /\ UNCHANGED <<looking, refused, editor>>
  /\ UNCHANGED <<cache, server>>

(* The proxy says at once whether the browser holds a session cookie. *)
HintAnswers ==
  /\ tab \in {"gate", "book"} /\ looking
  /\ IF cookie THEN looking' = FALSE /\ Stay ELSE GoTo("login")
  /\ UNCHANGED <<cache, server>>

-----------------------------------------------------------------------------
(* Signing in.  These pages ask the API themselves and leave SWR's cache   *)
(* as it is.                                                               *)

(* Where destinationAfterAuth sends a user. *)
After(answer) == GoTo(IF answer = "needsOrg" THEN "onboard" ELSE "gate")

LoginLooks ==
  /\ tab = "login" /\ looking
  /\ \E answer \in Answers :
       IF answer \in Roles \cup {"needsOrg"} THEN After(answer)
                                             ELSE looking' = FALSE /\ Stay
  /\ UNCHANGED <<cache, server>>

(* The limiter (RateLimit) may refuse any attempt, Better Auth a password. *)
SignIn ==
  /\ tab = "login" /\ ~looking /\ api = "up"
  /\ session' = TRUE /\ cookie' = TRUE
  /\ \/ After(IF member = "none" THEN "needsOrg" ELSE member)
     \/ UNCHANGED looking /\ Stay   \* what came back of it was cut short
  /\ UNCHANGED <<api, member, events, cache>>

OnboardLooks ==
  /\ tab = "onboard" /\ looking
  /\ \E answer \in Answers :
       \/ answer \in {"anon", "own"} /\ GoTo("login")
       \/ answer \in Roles /\ GoTo("gate")  \* by the link to Command
       \/ answer = "needsOrg" /\ looking' = FALSE /\ Stay
  /\ UNCHANGED <<cache, server>>

CreateOrg ==
  /\ tab = "onboard" /\ ~looking /\ api = "up" /\ SignedIn /\ member = "none"
  /\ member' = "org_admin" /\ GoTo("gate")
  /\ UNCHANGED <<api, session, cookie, events, cache>>

(* Signing out empties the cache. *)
SignOut ==
  /\ events < MaxEvents /\ events' = events + 1
  /\ tab = "book" /\ api = "up" /\ asked = "no"
  /\ session' = FALSE /\ cookie' = FALSE
  /\ me' = "unknown" /\ failed' = "none" /\ doubt' = TRUE /\ astray' = TRUE
  /\ GoTo("login")
  /\ UNCHANGED <<api, member, asked, fresh>>

-----------------------------------------------------------------------------
(* A page of the book. *)

CanRead == api = "up" /\ SignedIn /\ member # "none"

(* A control is shown for the role in the cache, and its request judged by
   the role of the membership when it arrives. *)
Click ==
  /\ tab = "book" /\ Ready
  /\ \E request \in Offers(me) :
       refused' = (CanRead /\ ~Permits(member, request))
  /\ UNCHANGED <<gate, server, editor>>

-----------------------------------------------------------------------------
(* The report editor. *)

Editing == tab = "book" /\ Ready /\ isWriteRole(me) /\ shown # None

(* Mutant: the form is reset on every revalidation, not only by a changed report. *)
ResetAlways(row) == shown' = row /\ form' = row.text /\ dirty' = FALSE
(* The effect on [report]: GET /api/reports/:id brings the whole row, and  *)
(* a row that differs, be it in the state of its file, resets the form.    *)
Reset(row) ==
  /\ shown' = row
  /\ IF row # shown THEN form' = row.text /\ dirty' = FALSE
                    ELSE UNCHANGED <<form, dirty>>

Type(piece) ==
  /\ Editing /\ piece \notin form
  /\ form' = form \cup {piece} /\ dirty' = TRUE
  /\ typed' = typed \cup {piece}
  /\ overlap' = (overlap \/ saving # None \/ shown # report)
  /\ UNCHANGED <<gate, server, refused, report, shown, saving>>

Save ==
  /\ Editing /\ dirty /\ saving = None
  /\ saving' = [text |-> form, landed |-> FALSE]
  /\ UNCHANGED <<gate, server, refused, report, shown, form_>>

(* The PATCH replaces the text as far as the API keeps it; its answer may  *)
(* still be lost on the way.                                               *)
SaveLands ==
  /\ saving # None /\ ~saving.landed
  /\ api = "up" /\ SignedIn /\ Permits(member, "save_report")
  /\ report' = [report EXCEPT !.text = saving.text \ Overlong]
  /\ \/ saving' = [saving EXCEPT !.landed = TRUE] /\ dirty' = FALSE
     \/ saving' = None /\ UNCHANGED dirty
  /\ UNCHANGED <<gate, server, refused, shown, form, typed, overlap>>

SaveFails ==
  /\ saving # None /\ ~saving.landed
  /\ ~(api = "up" /\ SignedIn /\ Permits(member, "save_report"))
  /\ saving' = None
  /\ UNCHANGED <<gate, server, refused, report, shown, form_>>

(* mutate() after a save asks for the report again. *)
Reload ==
  /\ saving # None /\ saving.landed
  /\ saving' = None
  /\ IF CanRead THEN Reset(report) ELSE UNCHANGED <<shown, form, dirty>>
  /\ UNCHANGED <<gate, server, refused, report, typed, overlap>>

(* So does SWR when the editor is opened and when the window has the focus. *)
FocusReport ==
  /\ tab = "book" /\ Ready /\ CanRead
  /\ Reset(report)
  /\ UNCHANGED <<gate, server, refused, report, saving, typed, overlap>>

-----------------------------------------------------------------------------
(* What happens elsewhere. *)

Elsewhere == events < MaxEvents /\ events' = events + 1

Troubled == doubt' = TRUE /\ astray' = TRUE

SessionEnds ==
  /\ Elsewhere /\ session
  /\ session' = FALSE /\ cookie' \in {cookie, FALSE} /\ Troubled
  /\ UNCHANGED <<api, member, tab, me, failed, asked, fresh, looking, refused, editor>>

MembershipEnds ==
  /\ Elsewhere /\ member # "none"
  /\ member' = "none" /\ Troubled
  /\ UNCHANGED <<api, session, cookie, tab, me, failed, asked, fresh, looking, refused, editor>>

RoleChanges ==
  /\ Elsewhere /\ member # "none"
  /\ member' \in Roles \ {member}
  /\ UNCHANGED <<api, session, cookie, gate, refused, editor>>

ApiTurns ==
  /\ api' \in {"up", "cold", "broken"} \ {api}
  /\ IF api' = "up" THEN UNCHANGED events ELSE Elsewhere
  /\ IF api' = "broken" THEN Troubled ELSE UNCHANGED <<doubt, astray>>
  /\ UNCHANGED <<session, cookie, member, tab, me, failed, asked, fresh, looking, refused, editor>>

(* A colleague saves the report with an addition of theirs. *)
ColleagueSaves ==
  /\ Elsewhere /\ Theirs \notin report.text
  /\ report' = [report EXCEPT !.text = @ \cup {Theirs}]
  /\ overlap' = (overlap \/ dirty \/ saving # None)
  /\ UNCHANGED <<api, session, cookie, member, gate, refused, shown, saving, form, dirty, typed>>

(* The render job, or another of the same report, commits: runReportJob    *)
(* writes the columns of the file only.                                    *)
RenderEnds ==
  /\ Elsewhere
  /\ \E status \in {"ready", "failed"} \ {report.artifact} : report' = [report EXCEPT !.artifact = status]
  /\ overlap' = (overlap \/ dirty \/ saving # None)
  /\ UNCHANGED <<api, session, cookie, member, gate, refused, shown, saving, form, dirty, typed>>

TabNext ==
  \/ AskMe \/ WakeRetry \/ DedupeEnds \/ MeAnswered \/ MeArrives
  \/ GateReacts \/ HintAnswers
  \/ LoginLooks \/ SignIn \/ OnboardLooks \/ CreateOrg \/ SignOut
  \/ Click
  \/ (\E piece \in Pieces : Type(piece))
  \/ Save \/ SaveLands \/ SaveFails \/ Reload \/ FocusReport
  \/ SessionEnds \/ MembershipEnds \/ RoleChanges \/ ApiTurns \/ ColleagueSaves \/ RenderEnds

TabSpec == TabInit /\ [][TabNext]_tabVars

-----------------------------------------------------------------------------
(* A user leaves the gate or the book for the login page, or is sent to    *)
(* found an organisation, only if, since the answer of /api/me in the      *)
(* cache was asked for, the session, the cookie or the membership was gone *)
(* or the API failed by itself: never because the API is cold, slow, or    *)
(* cut off in the middle of an answer (Shell.tsx, bff-proxy.ts, wake.ts).  *)
AwayOnlyWithCause ==
  [][tab' # tab /\ tab' \in {"login", "onboard"} => astray']_tabVars

(* A control that a page shows is refused for the role only if the role    *)
(* changed after the page learned it: what the pages offer and what the    *)
(* API's guards permit agree, request by request (useBookSession and the   *)
(* pages on one side, requireWrite, requireAdmin, requireLock on the       *)
(* other).                                                                 *)
RefusedOnlyWhenStale ==
  [][refused' /\ ~refused => me # member]_tabVars

(* What was typed into an open report is in the editor or at the API, as   *)
(* far as the API keeps so long a text, unless it was typed while a save   *)
(* was under way or while the editor showed a row already out of date, or  *)
(* another's save or the end of a render came before it was saved: then    *)
(* the next reload resets the form over it, without a word.                *)
TypedIsKept ==
  overlap \/ typed \ Overlong \subseteq form \cup report.text

=============================================================================

----------------------------- MODULE RateLimit ------------------------------
(***************************************************************************)
(* The limiter in front of sign-in (rate-limit.ts, app.ts): a sliding      *)
(* window kept in Redis, and, when Redis is down or answers after 800 ms,  *)
(* a window kept in the memory of the process that took the request.  A    *)
(* request reads the clock when it arrives and is decided later, by that   *)
(* older time and out of order with others.  Its script may run in Redis   *)
(* and count it whatever memory decides.                                   *)
(***************************************************************************)
EXTENDS Integers, FiniteSets

CONSTANTS
  Limit,      \* requests let through per window (AUTH_RATE_LIMIT)
  Span,       \* length of the window, in ticks (AUTH_RATE_WINDOW_MS)
  Patience,   \* ticks within which a request is decided (the 800 ms)
  Processes,  \* the API processes, each with its own buckets
  Redis,      \* names the window of Redis beside those of the processes
  MaxClock,   \* bound: the last tick
  MaxRequests \* bound: requests ever made

ASSUME RateLimitAssumption ==
  /\ Limit \in Nat /\ Span \in Nat /\ Patience \in 0..Span
  /\ MaxClock \in Nat /\ MaxRequests \in Nat
  /\ IsFiniteSet(Processes) /\ Redis \notin Processes

VARIABLES
  clock,      \* the time, in ticks
  shared,     \* Redis: the hits counted under the key, [at, nr]
  buckets,    \* [Processes -> hits counted in that process]
  waiting,    \* requests that have arrived and are not decided
  scripts,    \* requests whose script has yet to run in Redis, or never will
  requests,   \* how many requests were made
  through     \* history: of each window, the hits it let through

limitVars == <<clock, shared, buckets, waiting, scripts, requests, through>>

Counters == Processes \cup {Redis}
Recent(hits, now) == {h \in hits : now - h.at < Span}

(* Mutant: the count compared with <= instead of <. *)
AdmitsOneMore(hits, now) == Cardinality(Recent(hits, now)) <= Limit
(* A window at the time of a request, which may be older than some of the
   hits in it: what is Span older is dropped, all that is left is counted;
   it admits below the limit and counts what it admits. *)
Admits(hits, now) == Cardinality(Recent(hits, now)) < Limit
Counted(hits, h) == Recent(hits, h.at) \cup (IF Admits(hits, h.at) THEN {h} ELSE {})

LimitInit ==
  /\ clock = 0
  /\ shared = {} /\ waiting = {} /\ scripts = {}
  /\ buckets = [p \in Processes |-> {}]
  /\ requests = 0 /\ through = [c \in Counters |-> {}]

(* The time-out decides a request before its patience is over. *)
TimePasses ==
  /\ clock < MaxClock
  /\ \A h \in waiting : clock - h.at < Patience
  /\ clock' = clock + 1
  /\ UNCHANGED <<shared, buckets, waiting, scripts, requests, through>>

(* The request reads the clock and sends its script. *)
allowRequestShared ==
  /\ requests < MaxRequests /\ requests' = requests + 1
  /\ LET h == [at |-> clock, nr |-> requests]
     IN waiting' = waiting \cup {h} /\ scripts' = scripts \cup {h}
  /\ UNCHANGED <<clock, shared, buckets, through>>

Passes(c, h, hits) ==
  through' = IF Admits(hits, h.at) THEN [through EXCEPT ![c] = @ \cup {h}] ELSE through

(* The script runs and its answer decides. *)
redisAllow(h) ==
  /\ Passes(Redis, h, shared)
  /\ shared' = Counted(shared, h)
  /\ waiting' = waiting \ {h} /\ scripts' = scripts \ {h}
  /\ UNCHANGED <<clock, buckets, requests>>

(* Redis is down, or late: memory decides; the script may still run. *)
allowRequest(p, h) ==
  /\ Passes(p, h, buckets[p])
  /\ buckets' = [buckets EXCEPT ![p] = Counted(@, h)]
  /\ waiting' = waiting \ {h}
  /\ UNCHANGED <<clock, shared, scripts, requests>>

(* A script runs and its answer is not heard, or comes too late. *)
LateScript(h) ==
  /\ shared' = Counted(shared, h)
  /\ scripts' = scripts \ {h}
  /\ UNCHANGED <<clock, buckets, waiting, requests, through>>

(* PEXPIRE: a window after the last hit was counted the key is gone. *)
KeyExpires ==
  /\ \A h \in shared : clock - h.at >= Span
  /\ shared' = {}
  /\ UNCHANGED <<clock, buckets, waiting, scripts, requests, through>>

LimitNext ==
  \/ TimePasses \/ allowRequestShared \/ KeyExpires
  \/ \E h \in waiting \cap scripts : redisAllow(h)
  \/ \E h \in waiting, p \in Processes : allowRequest(p, h)
  \/ \E h \in scripts : LateScript(h)

LimitSpec == LimitInit /\ [][LimitNext]_limitVars

-----------------------------------------------------------------------------
Inside(hits, now) == {h \in hits : h.at <= now /\ now - h.at < Span - Patience}

(* Of the requests that arrive within Span less Patience at most Limit     *)
(* pass for each counter that may decide, Redis and every process, and so  *)
(* many times Limit in all.  In a whole Span a counter may let through     *)
(* more, when a younger request has dropped hits that an older one,        *)
(* decided after it, should have counted (README, section 6).  A limiter   *)
(* that double counts, forgets while it falls back and recovers, or drops  *)
(* by another clock breaks it over several requests (allowRequestShared,   *)
(* rate-limit.ts).                                                         *)
AttemptsBounded ==
  \A now \in 0 .. MaxClock :
    /\ \A c \in Counters : Cardinality(Inside(through[c], now)) <= Limit
    /\ Cardinality(Inside(UNION {through[c] : c \in Counters}, now))
         <= Limit * (1 + Cardinality(Processes))
=============================================================================

----------------------------- MODULE RateLimit -----------------------------
(***************************************************************************)
(* The per-IP limiter of the API: RateLimitMiddleware                      *)
(* (src/api/middleware.go) over RedisClient.Increment (src/api/redis.go).  *)
(* One client address is modelled; the counters of two addresses never     *)
(* meet.  Its requests run concurrently, and the INCR and the EXPIRE of    *)
(* one request are two commands of a pipeline, not a transaction: the      *)
(* commands of another request may come between them, and a connection     *)
(* that breaks between them leaves the first executed without the second.  *)
(* Redis may drop the counter at any time (redis.conf: allkeys-lru), and   *)
(* loses it when it is restarted.                                          *)
(***************************************************************************)
EXTENDS Integers, FiniteSets

CONSTANTS
  Req,       \* request goroutines of one client
  RPM,       \* RATE_LIMIT_RPM
  Window,    \* ticks in the minute that EXPIRE sets
  MaxTime,   \* bound: the last tick explored
  MaxCalls,  \* bound: INCRs executed
  MaxCuts,   \* bound: INCRs left without their EXPIRE; 0 if Redis never fails
  MaxEvictions \* bound: times Redis drops the counter before its deadline

ASSUME RateAssumption ==
  /\ IsFiniteSet(Req) /\ RPM \in Nat \ {0} /\ Window \in Nat \ {0}
  /\ MaxTime \in Nat /\ MaxCalls \in Nat /\ MaxCuts \in Nat
  /\ MaxEvictions \in Nat

VARIABLES
  clock,     \* the clock, in ticks
  counter,   \* [n, exp], the key ratelimit:api:<ip>; n = 0 when it is absent
  req,       \* req[r]: [pc, n, at, id], the count it got and when; id is history
  cuts,      \* history: INCRs since the key exists whose EXPIRE never came
  passed,    \* history: the requests let through, each named by the tick of
             \*   its INCR and its number among all INCRs
  arrived,   \* history: the requests counted
  evicted,   \* history: the losses of the counter, each its tick and number
  last,      \* history: tick of the latest command of a request, or None
  verdict    \* history: the latest decision, and the tick it counted at

rvars == <<clock, counter, req, cuts, passed, arrived, evicted, last, verdict>>

None == -1
Absent == [n |-> 0, exp |-> None]
Waiting == [pc |-> "idle", n |-> 0, at |-> None, id |-> 0]
Times == 0 .. MaxTime

RateInit ==
  /\ clock = 0
  /\ counter = Absent
  /\ req = [r \in Req |-> Waiting]
  /\ cuts = 0
  /\ passed = {} /\ arrived = {} /\ evicted = {}
  /\ last = None
  /\ verdict = [ok |-> TRUE, at |-> 0]

\* How many of the requests, or of the losses, in S fall between two ticks, and
\* how many into the Window that ends at t.
Within(S, lo, hi) == Cardinality({x \in S : lo <= x[1] /\ x[1] <= hi})
InWindow(S, t) == Within(S, t - Window, t)

\* INCR creates an absent key without a deadline.
Incr(r) ==
  /\ req[r].pc = "idle" /\ Cardinality(arrived) < MaxCalls
  /\ counter' = [counter EXCEPT !.n = @ + 1]
  /\ req' = [req EXCEPT ![r] = [pc |-> "expire", n |-> counter.n + 1, at |-> clock,
                               id |-> Cardinality(arrived) + 1]]
  /\ arrived' = arrived \cup {<<clock, Cardinality(arrived) + 1>>}
  /\ last' = clock
  /\ UNCHANGED <<clock, cuts, passed, evicted, verdict>>

\* Mutant of Rearm: the deadline is never set.
RearmNever == UNCHANGED counter

\* Every request sets the deadline again; on an absent key EXPIRE does nothing.
Rearm == counter' = IF counter.n = 0 THEN Absent
                    ELSE [counter EXCEPT !.exp = clock + Window]

\* Mutant of Admit: the limit is off by one.
AdmitOneMore(r) ==
  /\ req[r].pc = "expire" /\ req[r].n <= RPM + 1
  /\ Rearm
  /\ req' = [req EXCEPT ![r] = Waiting]
  /\ passed' = passed \cup {<<req[r].at, req[r].id>>}
  /\ verdict' = [ok |-> TRUE, at |-> req[r].at]
  /\ last' = clock
  /\ UNCHANGED <<clock, cuts, arrived, evicted>>

Admit(r) ==
  /\ req[r].pc = "expire" /\ req[r].n <= RPM
  /\ Rearm
  /\ req' = [req EXCEPT ![r] = Waiting]
  /\ passed' = passed \cup {<<req[r].at, req[r].id>>}
  /\ verdict' = [ok |-> TRUE, at |-> req[r].at]
  /\ last' = clock
  /\ UNCHANGED <<clock, cuts, arrived, evicted>>

\* Mutant of Reject: the rejected request is taken off the count again.
RejectRefunds(r) ==
  /\ req[r].pc = "expire" /\ req[r].n > RPM
  /\ counter' = [counter EXCEPT !.n = @ - 1, !.exp = clock + Window]
  /\ req' = [req EXCEPT ![r] = Waiting]
  /\ verdict' = [ok |-> FALSE, at |-> req[r].at]
  /\ last' = clock
  /\ UNCHANGED <<clock, cuts, passed, arrived, evicted>>

Reject(r) ==
  /\ req[r].pc = "expire" /\ req[r].n > RPM
  /\ Rearm
  /\ req' = [req EXCEPT ![r] = Waiting]
  /\ verdict' = [ok |-> FALSE, at |-> req[r].at]
  /\ last' = clock
  /\ UNCHANGED <<clock, cuts, passed, arrived, evicted>>

\* The pipeline breaks after the INCR.  The client library sends it again, the
\* next Incr of r, or gives up; the middleware then fails open and serves the
\* request without a decision of the limiter.
Cut(r) ==
  /\ req[r].pc = "expire" /\ cuts < MaxCuts
  /\ req' = [req EXCEPT ![r] = Waiting]
  /\ cuts' = IF counter.n = 0 THEN 0 ELSE cuts + 1
  /\ UNCHANGED <<clock, counter, passed, arrived, evicted, last, verdict>>

\* The pipeline breaks after the EXPIRE: the answer is lost.
AnswerLost(r) ==
  /\ req[r].pc = "expire" /\ MaxCuts > 0
  /\ Rearm
  /\ req' = [req EXCEPT ![r] = Waiting]
  /\ last' = clock
  /\ UNCHANGED <<clock, cuts, passed, arrived, evicted, verdict>>

\* Redis drops the counter once its deadline has passed.
RateTick ==
  /\ clock < MaxTime
  /\ clock' = clock + 1
  /\ IF counter.exp # None /\ clock' > counter.exp
     THEN counter' = Absent /\ cuts' = 0
     ELSE UNCHANGED <<counter, cuts>>
  /\ UNCHANGED <<req, passed, arrived, evicted, last, verdict>>

\* Under memory pressure Redis drops any key, this one too; a Redis that is
\* restarted has none.
EvictCounter ==
  /\ counter # Absent /\ Cardinality(evicted) < MaxEvictions
  /\ counter' = Absent /\ cuts' = 0
  /\ evicted' = evicted \cup {<<clock, Cardinality(evicted) + 1>>}
  /\ UNCHANGED <<clock, req, passed, arrived, last, verdict>>

RateNext ==
  \/ \E r \in Req : Incr(r) \/ Admit(r) \/ Reject(r) \/ Cut(r) \/ AnswerLost(r)
  \/ RateTick \/ EvictCounter

RateSpec == RateInit /\ [][RateNext]_rvars

-----------------------------------------------------------------------------
(* Properties.                                                             *)

\* The types of the variables.
RateTypeOK ==
  /\ clock \in Times
  /\ counter \in [n : Nat, exp : Nat \cup {None}]
  /\ req \in [Req -> [pc : {"idle", "expire"}, n : Nat, at : Times \cup {None},
                      id : Nat]]
  /\ cuts \in 0 .. MaxCuts
  /\ arrived \subseteq Times \X Nat /\ passed \subseteq arrived
  /\ evicted \subseteq Times \X Nat
  /\ last \in Times \cup {None}

\* However the commands of concurrent requests interleave, and whichever
\* pipelines break, a minute contains at most RPM requests that the limiter
\* let through; RPM more for each time Redis lost the counter in that minute;
\* and one more for each request that was between its INCR and its EXPIRE when
\* a counter ran out, as the next one does not know them (those the limiter
\* never judged, because Redis failed, are served without it).
AtMostRPM ==
  \A t \in 0 .. clock :
    InWindow(passed, t) <= RPM * (1 + InWindow(evicted, t)) + Cardinality(Req)

\* A client that was rejected and stays silent for the Retry-After of the
\* answer starts from zero: of the old counter nothing is left but INCRs
\* whose EXPIRE was cut off.
SilenceForgives ==
  (last # None /\ clock > last + Window /\ \A r \in Req : req[r].pc = "idle")
    => counter.n <= cuts

\* docs/API_REFERENCE.md: RATE_LIMIT_RPM requests per minute.  A request is
\* rejected only if more than RPM arrived in the minute before it.
RejectedOnlyAboveRPM == ~verdict.ok => InWindow(arrived, verdict.at) > RPM
=============================================================================

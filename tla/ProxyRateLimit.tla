--------------------------- MODULE ProxyRateLimit ---------------------------
(***************************************************************************)
(* The per-IP limiter of the reverse proxy, in the access phase of         *)
(* src/proxy/lua/tunnel_lookup.lua.  The counter of one client address     *)
(* lives in a dictionary that all nginx workers share.  A worker runs one  *)
(* request's limiter at a time, without a yield; but the read of the       *)
(* counter and the write that follows are two operations, and the          *)
(* operating system may run other workers, or let time pass, in between.   *)
(***************************************************************************)
EXTENDS Integers, FiniteSets, Sequences

CONSTANTS
  Worker,      \* nginx worker processes
  RateLimit,   \* PROXY_RATE_LIMIT_RPM
  Window,      \* ticks in WINDOW_SECONDS
  MaxTime,     \* bound: the last tick explored
  MaxCalls     \* bound: requests that arrive

ASSUME ProxyAssumption ==
  /\ IsFiniteSet(Worker) /\ Worker # {}
  /\ RateLimit \in Nat \ {0} /\ Window \in Nat \ {0}
  /\ MaxTime \in Nat /\ MaxCalls \in Nat

VARIABLES
  clock,    \* the clock, in ticks
  cell,     \* [n, exp], the entry proxy:<ip>; n = 0 when there is none
  job,      \* job[w]: [pc, count, at], the request worker w is serving, the
            \*   count it computed and when it read the counter
  passed,   \* history: the ticks at which requests were let through, in order
  calls,    \* history: requests that arrived
  refused   \* history: whether the latest decision was a rejection, and when

pvars == <<clock, cell, job, passed, calls, refused>>

NoCell == [n |-> 0, exp |-> 0]
Free == [pc |-> "idle", count |-> 0, at |-> 0]
Times == 0 .. MaxTime

ProxyInit ==
  /\ clock = 0
  /\ cell = NoCell
  /\ job = [w \in Worker |-> Free]
  /\ passed = <<>>
  /\ calls = 0
  /\ refused = [yes |-> FALSE, at |-> 0]

\* limit_store:get, and one more in the worker's own memory.
ReadCount(w) ==
  /\ job[w].pc = "idle" /\ calls < MaxCalls
  /\ job' = [job EXCEPT ![w] = [pc |-> "write", count |-> cell.n + 1, at |-> clock]]
  /\ calls' = calls + 1
  /\ UNCHANGED <<clock, cell, passed, refused>>

\* A worker that saw no counter sets one, whatever has been stored meanwhile;
\* only this starts the window.
SetCount == cell' = [n |-> 1, exp |-> clock + Window]

\* Mutant of AddCount: every request sets the deadline again.
AddCountRearms ==
  cell' = IF cell.n = 0 THEN cell ELSE [n |-> cell.n + 1, exp |-> clock + Window]

\* Mutant of AddCount: the counter holds what is left and is not looked at.
AddCountDown == cell' = [cell EXCEPT !.n = @ - 1]

\* A worker that saw a counter adds to it; on an absent one incr does nothing.
AddCount == cell' = IF cell.n = 0 THEN cell ELSE [cell EXCEPT !.n = @ + 1]

\* Mutant of Decide: the limit is off by one.
DecideOneMore(w) ==
  IF job[w].count <= RateLimit + 1
  THEN /\ passed' = Append(passed, clock)
       /\ refused' = [yes |-> FALSE, at |-> job[w].at]
  ELSE /\ refused' = [yes |-> TRUE, at |-> job[w].at]
       /\ UNCHANGED passed

\* The decision uses the count of the worker, not the one now stored.
Decide(w) ==
  IF job[w].count <= RateLimit
  THEN /\ passed' = Append(passed, clock)
       /\ refused' = [yes |-> FALSE, at |-> job[w].at]
  ELSE /\ refused' = [yes |-> TRUE, at |-> job[w].at]
       /\ UNCHANGED passed

WriteCount(w) ==
  /\ job[w].pc = "write"
  /\ IF job[w].count = 1 THEN SetCount ELSE AddCount
  /\ Decide(w)
  /\ job' = [job EXCEPT ![w] = Free]
  /\ UNCHANGED <<clock, calls>>

\* The dictionary forgets the counter once its deadline has passed.
ProxyTick ==
  /\ clock < MaxTime
  /\ clock' = clock + 1
  /\ cell' = IF clock' > cell.exp THEN NoCell ELSE cell
  /\ UNCHANGED <<job, passed, calls, refused>>

ProxyNext ==
  \/ \E w \in Worker : ReadCount(w) \/ WriteCount(w)
  \/ ProxyTick

ProxySpec == ProxyInit /\ [][ProxyNext]_pvars

-----------------------------------------------------------------------------
(* Properties.                                                             *)

\* Requests let through in the Window that ends at t.
PassedWithin(t) ==
  Cardinality({i \in DOMAIN passed : t - Window <= passed[i] /\ passed[i] <= t})

\* The types of the variables.
ProxyTypeOK ==
  /\ clock \in Times
  /\ cell \in [n : Nat, exp : Nat]
  /\ job \in [Worker -> [pc : {"idle", "write"}, count : Nat, at : Times]]
  /\ passed \in Seq(Times)
  /\ calls \in 0 .. MaxCalls
  /\ refused \in [yes : BOOLEAN, at : Times]

\* Whatever the workers do between their reads and their writes, no Window has
\* more than this many requests let through.  RateLimit alone would be wrong: a
\* worker that saw no counter sets it to 1 long after others counted up, so a
\* Window can hold one stretch of counting for each worker and the tail of the
\* window before; and in a stretch each other worker may use one stale count.
ProxyBound ==
  \A t \in 0 .. clock :
    PassedWithin(t) <= (Cardinality(Worker) + 1) * (RateLimit + Cardinality(Worker) - 1)

\* docs/SECURITY.md: the limit is a number of requests per minute.  A client is
\* refused only if so many of its requests were let through in the Window up
\* to when its counter was read: refused requests do not keep it out, because
\* adding to the counter leaves its deadline alone.  Each other worker may have
\* charged one refused request to a counter set after it was read.
RefusedOnlyAtLimit ==
  refused.yes => PassedWithin(refused.at) >= RateLimit - (Cardinality(Worker) - 1)
=============================================================================

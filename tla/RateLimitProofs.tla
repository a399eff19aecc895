-------------------------- MODULE RateLimitProofs --------------------------
(***************************************************************************)
(* The bounds of the API limiter, for every number of concurrent requests, *)
(* limit and window.  A counter lives from the INCR that creates it until  *)
(* more than a Window after the last EXPIRE.  A request that was let       *)
(* through set that deadline anew, so it was counted more than a Window    *)
(* before the counter runs out, unless its EXPIRE found no counter.  A     *)
(* Window therefore holds requests of one counter, which are at most RPM,  *)
(* of one more for each that Redis lost in it, and those that were under   *)
(* way when the counter before them ran out.                               *)
(***************************************************************************)
EXTENDS RateLimit, FiniteSetTheorems, TLAPS

Reqs == Cardinality(Req)

\* Requests between their INCR and their EXPIRE.
Pending(j) == {r \in Req : j[r].pc = "expire"}
Token(j, r) == <<j[r].at, j[r].id>>

InSpan(at, lo, hi) == lo <= at /\ at <= hi

\* Those of them that will be let through and were counted between lo and hi.
Claims(j, lo, hi) ==
  {r \in Req : j[r].pc = "expire" /\ j[r].n <= RPM /\ InSpan(j[r].at, lo, hi)}

\* Requests of those ticks that were or will be let through.
Charge(S, j, lo, hi) == Within(S, lo, hi) + Cardinality(Claims(j, lo, hi))

Capped(n) == IF n <= RPM THEN n ELSE RPM

\* What the losses of the counter between lo and hi allow in addition.
Extra(E, lo, hi) == RPM * Within(E, lo, hi)

\* The tick and the number of an INCR name one request, those of a loss one loss.
NamesOK ==
  /\ IsFiniteSet(arrived) /\ IsFiniteSet(evicted)
  /\ \A x \in arrived : x[1] <= clock /\ x[2] <= Cardinality(arrived)
  /\ \A x \in evicted : x[1] <= clock /\ x[2] <= Cardinality(evicted)
  /\ \A r \in Pending(req) : Token(req, r) \in arrived \ passed
  /\ \A r, s \in Pending(req) : Token(req, r) = Token(req, s) => r = s

\* A deadline is a Window after the last EXPIRE; a counter without one has
\* seen no EXPIRE at all.
DeadlineOK ==
  /\ last <= clock
  /\ counter.n = 0 => counter.exp = None
  /\ counter.exp # None =>
       /\ clock <= counter.exp /\ last # None /\ counter.exp <= last + Window
       /\ \A x \in passed : x[1] + Window <= counter.exp
  /\ counter.exp = None => counter.n <= cuts + Cardinality(Pending(req))

\* From any tick of the Window that ends now, and in every Window.
ChargeOK ==
  /\ \A lo \in clock - Window .. clock :
       Charge(passed, req, lo, clock) <= Reqs + Capped(counter.n) + Extra(evicted, lo, clock)
  /\ \A t \in 0 .. clock :
       Charge(passed, req, t - Window, t) <= Reqs + RPM + Extra(evicted, t - Window, t)

RateInd == RateTypeOK /\ NamesOK /\ DeadlineOK /\ ChargeOK

-----------------------------------------------------------------------------
(* Counting.                                                               *)

\* A set of requests is finite and has at most Reqs members.
LEMMA ReqSubset ==
  ASSUME NEW S \in SUBSET Req
  PROVE  IsFiniteSet(S) /\ Cardinality(S) \in Nat /\ Cardinality(S) <= Reqs
BY RateAssumption, FS_Subset, FS_CardinalityType DEF Reqs

\* A request that ends is no longer pending.
LEMMA ReqEndsPending ==
  ASSUME NEW j, NEW k, NEW r \in Req, j[r].pc = "expire",
         \A q \in Req : k[q] = IF q = r THEN Waiting ELSE j[q]
  PROVE  /\ Pending(k) = Pending(j) \ {r} /\ r \in Pending(j)
         /\ Cardinality(Pending(k)) = Cardinality(Pending(j)) - 1
<1>1. Pending(k) = Pending(j) \ {r} /\ r \in Pending(j)
  BY DEF Pending, Waiting
<1>2. IsFiniteSet(Pending(j))
  BY ReqSubset DEF Pending
<1> QED BY <1>1, <1>2, FS_RemoveElement

\* It claims nothing any more.
LEMMA ReqEndsClaims ==
  ASSUME NEW j, NEW k, NEW r \in Req, j[r].pc = "expire", NEW lo, NEW hi,
         \A q \in Req : k[q] = IF q = r THEN Waiting ELSE j[q]
  PROVE  Cardinality(Claims(k, lo, hi)) =
           IF j[r].n <= RPM /\ InSpan(j[r].at, lo, hi)
           THEN Cardinality(Claims(j, lo, hi)) - 1 ELSE Cardinality(Claims(j, lo, hi))
<1>1. Claims(k, lo, hi) = Claims(j, lo, hi) \ {r}
  BY DEF Claims, Waiting
<1>2. r \in Claims(j, lo, hi) <=> j[r].n <= RPM /\ InSpan(j[r].at, lo, hi)
  BY DEF Claims
<1>3. IsFiniteSet(Claims(j, lo, hi))
  BY ReqSubset DEF Claims
<1> QED BY <1>1, <1>2, <1>3, FS_RemoveElement

\* A request that begins is pending.
LEMMA ReqBeginsPending ==
  ASSUME NEW j, NEW k, NEW r \in Req, j[r].pc = "idle", NEW o, o.pc = "expire",
         \A q \in Req : k[q] = IF q = r THEN o ELSE j[q]
  PROVE  /\ Pending(k) = Pending(j) \cup {r} /\ r \notin Pending(j)
         /\ Cardinality(Pending(k)) = Cardinality(Pending(j)) + 1
<1>1. Pending(k) = Pending(j) \cup {r} /\ r \notin Pending(j)
  BY DEF Pending
<1>2. IsFiniteSet(Pending(j))
  BY ReqSubset DEF Pending
<1> QED BY <1>1, <1>2, FS_AddElement

\* It claims the ticks around its INCR, if its count is in the limit.
LEMMA ReqBeginsClaims ==
  ASSUME NEW j, NEW k, NEW r \in Req, j[r].pc = "idle", NEW o, o.pc = "expire",
         NEW lo, NEW hi, \A q \in Req : k[q] = IF q = r THEN o ELSE j[q]
  PROVE  Cardinality(Claims(k, lo, hi)) =
           IF o.n <= RPM /\ InSpan(o.at, lo, hi)
           THEN Cardinality(Claims(j, lo, hi)) + 1 ELSE Cardinality(Claims(j, lo, hi))
<1>1. /\ r \notin Claims(j, lo, hi)
      /\ Claims(k, lo, hi) = IF o.n <= RPM /\ InSpan(o.at, lo, hi)
                              THEN Claims(j, lo, hi) \cup {r} ELSE Claims(j, lo, hi)
  BY DEF Claims
<1>2. IsFiniteSet(Claims(j, lo, hi))
  BY ReqSubset DEF Claims
<1> QED BY <1>1, <1>2, FS_AddElement

\* Counts are numbers.
LEMMA ChargeTypes ==
  ASSUME NEW S, IsFiniteSet(S), NEW j, NEW lo, NEW hi
  PROVE  /\ Within(S, lo, hi) \in Nat /\ Cardinality(Claims(j, lo, hi)) \in Nat
         /\ Cardinality(Claims(j, lo, hi)) <= Reqs
         /\ Cardinality(Pending(j)) \in Nat /\ Reqs \in Nat
         /\ Charge(S, j, lo, hi) \in Nat /\ Extra(S, lo, hi) \in Nat
<1>1. {x \in S : lo <= x[1] /\ x[1] <= hi} \in SUBSET S
  OBVIOUS
<1>2. Within(S, lo, hi) \in Nat
  BY <1>1, FS_Subset, FS_CardinalityType DEF Within
<1>3. Claims(j, lo, hi) \in SUBSET Req /\ Pending(j) \in SUBSET Req /\ Req \in SUBSET Req
  BY DEF Claims, Pending
<1>4. Reqs \in Nat
  BY <1>3, ReqSubset DEF Reqs
<1>5. Extra(S, lo, hi) \in Nat
  BY <1>2, RateAssumption DEF Extra
<1>6. Cardinality(Claims(j, lo, hi)) \in Nat
  BY <1>3, ReqSubset
<1>7. Charge(S, j, lo, hi) \in Nat
  BY <1>2, <1>6 DEF Charge
<1> QED BY <1>2, <1>3, <1>4, <1>5, <1>7, ReqSubset

\* One more element is counted where its tick is.
LEMMA WithinAdd ==
  ASSUME NEW S, IsFiniteSet(S), NEW at, NEW n, <<at, n>> \notin S, NEW lo, NEW hi
  PROVE  /\ IsFiniteSet(S \cup {<<at, n>>})
         /\ Cardinality(S \cup {<<at, n>>}) = Cardinality(S) + 1
         /\ Within(S \cup {<<at, n>>}, lo, hi) =
              IF InSpan(at, lo, hi) THEN Within(S, lo, hi) + 1 ELSE Within(S, lo, hi)
<1> DEFINE y == <<at, n>>
           W == {x \in S : lo <= x[1] /\ x[1] <= hi}
<1>1. {x \in S \cup {y} : lo <= x[1] /\ x[1] <= hi}
        = IF InSpan(at, lo, hi) THEN W \cup {y} ELSE W
  BY DEF InSpan
<1>2. W \in SUBSET S /\ y \notin W /\ y \notin S
  OBVIOUS
<1>3. IsFiniteSet(W) /\ IsFiniteSet(S \cup {y})
  BY <1>2, FS_Subset, FS_AddElement
<1> HIDE DEF W, y
<1>4. /\ Cardinality(W \cup {y}) = Cardinality(W) + 1
      /\ Cardinality(S \cup {y}) = Cardinality(S) + 1
  BY <1>2, <1>3, FS_AddElement
<1> QED BY <1>1, <1>3, <1>4 DEF Within, W, y

\* Ticks after all of S add nothing.
LEMMA WithinLater ==
  ASSUME NEW S, NEW now \in Nat, NEW lo, \A x \in S : x[1] \in Nat /\ x[1] <= now
  PROVE  Within(S, lo, now + 1) = Within(S, lo, now)
<1>1. \A x \in S : x[1] <= now + 1 /\ x[1] <= now
  OBVIOUS
<1>2. {x \in S : lo <= x[1] /\ x[1] <= now + 1} = {x \in S : lo <= x[1] /\ x[1] <= now}
  BY <1>1
<1> QED BY <1>2 DEF Within

-----------------------------------------------------------------------------
(* The steps.                                                              *)

\* What the type invariant says, in the terms of the lemmas above.
LEMMA RateTypes ==
  ASSUME RateTypeOK
  PROVE  /\ clock \in Nat /\ counter.n \in Nat /\ counter.exp \in Nat \cup {None}
         /\ cuts \in Nat /\ last \in Nat \cup {None}
         /\ RPM \in Nat /\ RPM > 0 /\ Window \in Nat /\ Window > 0
         /\ \A r \in Req : /\ req[r].n \in Nat /\ req[r].at \in Nat \cup {None}
                           /\ req[r].pc \in {"idle", "expire"} /\ req[r].id \in Nat
         /\ \A x \in arrived \cup evicted : x[1] \in Nat /\ x[2] \in Nat
         /\ passed \subseteq arrived
  BY RateAssumption DEF RateTypeOK, Times

\* Nothing has happened at the start.
LEMMA RateInitInd == RateInit => RateInd
<1> SUFFICES ASSUME RateInit PROVE RateInd
  OBVIOUS
<1>1. RateTypeOK
  BY RateAssumption DEF RateInit, RateTypeOK, Absent, Waiting, Times, None
<1>2. Pending(req) = {} /\ \A lo, hi : Claims(req, lo, hi) = {}
  BY DEF RateInit, Pending, Claims, Waiting
<1>3. NamesOK
  BY <1>2, FS_EmptySet DEF RateInit, NamesOK
<1>4. DeadlineOK
  BY <1>2, FS_EmptySet DEF RateInit, DeadlineOK, Absent, None
<1>5. \A lo, hi : Within(passed, lo, hi) = 0
  <2>1. passed = {}
    BY DEF RateInit
  <2> QED BY <2>1, FS_EmptySet DEF Within
<1>6. \A lo, hi : Charge(passed, req, lo, hi) = 0
  BY <1>2, <1>5, FS_EmptySet DEF Charge
<1>7. /\ Reqs \in Nat /\ Capped(counter.n) \in Nat /\ RPM \in Nat
      /\ \A lo, hi : Extra(evicted, lo, hi) \in Nat
  BY <1>1, <1>3, ChargeTypes, RateTypes DEF Capped, NamesOK
<1> QED BY <1>1, <1>3, <1>4, <1>6, <1>7 DEF RateInd, ChargeOK

\* The end of request r, let through or not: names stay unique and no Window is
\* charged more.
LEMMA EndKeeps ==
  ASSUME RateInd, NEW r \in Req, req[r].pc = "expire",
         req' = [req EXCEPT ![r] = Waiting],
         \/ passed' = passed
         \/ passed' = passed \cup {Token(req, r)} /\ req[r].n <= RPM,
         clock' = clock, arrived' = arrived, evicted' = evicted, counter'.n = counter.n
  PROVE  /\ NamesOK' /\ ChargeOK' /\ passed' \subseteq arrived'
         /\ Cardinality(Pending(req')) = Cardinality(Pending(req)) - 1
         /\ req' \in [Req -> [pc : {"idle", "expire"}, n : Nat, at : Times \cup {None}, id : Nat]]
         /\ r \in Pending(req)
<1> USE DEF RateInd
<1>1. \A q \in Req : req'[q] = IF q = r THEN Waiting ELSE req[q]
  BY DEF RateTypeOK
<1>2. r \in Pending(req) /\ Token(req, r) \in arrived \ passed
  BY DEF Pending, NamesOK
<1>3. Pending(req') = Pending(req) \ {r} /\ Cardinality(Pending(req')) = Cardinality(Pending(req)) - 1
  <2>1. req[r].pc = "expire"
    OBVIOUS
  <2> QED BY ONLY <1>1, <2>1, r \in Req, ReqEndsPending
<1>4. passed' \subseteq arrived' /\ IsFiniteSet(passed)
  BY <1>2, RateTypes, FS_Subset DEF NamesOK
<1>5. req' \in [Req -> [pc : {"idle", "expire"}, n : Nat, at : Times \cup {None}, id : Nat]]
  BY DEF RateTypeOK, Waiting
<1>6. NamesOK'
  <2>1. \A q \in Pending(req') : q \in Pending(req) /\ q # r /\ Token(req', q) = Token(req, q)
    BY <1>1, <1>3 DEF Pending, Token
  <2>2. \A q \in Pending(req') : Token(req', q) \in arrived' \ passed'
    BY <1>2, <2>1 DEF NamesOK
  <2>3. \A q, s \in Pending(req') : Token(req', q) = Token(req', s) => q = s
    BY <2>1 DEF NamesOK
  <2> QED BY <2>2, <2>3 DEF NamesOK
<1>7. ASSUME NEW lo, NEW hi PROVE Charge(passed', req', lo, hi) <= Charge(passed, req, lo, hi)
  <2>1. Cardinality(Claims(req', lo, hi)) =
          IF req[r].n <= RPM /\ InSpan(req[r].at, lo, hi)
          THEN Cardinality(Claims(req, lo, hi)) - 1 ELSE Cardinality(Claims(req, lo, hi))
    <3>1. req[r].pc = "expire"
      OBVIOUS
    <3> QED BY ONLY <1>1, <3>1, r \in Req, ReqEndsClaims
  <2>2. Within(passed, lo, hi) \in Nat /\ Cardinality(Claims(req, lo, hi)) \in Nat
    BY <1>4, ChargeTypes
  <2>3. CASE passed' = passed
    BY <2>1, <2>2, <2>3 DEF Charge
  <2>4. CASE passed' = passed \cup {Token(req, r)} /\ req[r].n <= RPM
    <3>1. Within(passed', lo, hi) =
            IF InSpan(req[r].at, lo, hi) THEN Within(passed, lo, hi) + 1
                                         ELSE Within(passed, lo, hi)
      BY <1>2, <1>4, <2>4, WithinAdd DEF Token
    <3> QED BY <2>1, <2>2, <2>4, <3>1 DEF Charge
  <2> QED BY <2>3, <2>4
<1>8. ChargeOK'
  <2>1. \A lo, hi : /\ Charge(passed, req, lo, hi) \in Int
                    /\ Charge(passed', req', lo, hi) \in Int
                    /\ Extra(evicted, lo, hi) \in Nat
    <3>1. IsFiniteSet(passed') /\ IsFiniteSet(evicted)
      BY <1>4, <1>6, FS_Subset DEF NamesOK
    <3> QED BY <1>4, <3>1, ChargeTypes
  <2>2. Reqs \in Nat /\ RPM \in Nat /\ Capped(counter.n) \in Nat
    BY <1>4, ChargeTypes, RateTypes DEF Capped
  <2>3. clock \in Nat
    BY RateTypes
  <2>4. ASSUME NEW lo \in clock - Window .. clock
        PROVE  Charge(passed', req', lo, clock)
                 <= Reqs + Capped(counter.n) + Extra(evicted, lo, clock)
    <3>1. Charge(passed, req, lo, clock)
            <= Reqs + Capped(counter.n) + Extra(evicted, lo, clock)
      BY DEF ChargeOK
    <3> QED BY ONLY <1>7, <2>1, <2>2, <3>1
  <2>5. ASSUME NEW t \in 0 .. clock
        PROVE  Charge(passed', req', t - Window, t)
                 <= Reqs + RPM + Extra(evicted, t - Window, t)
    <3>1. Charge(passed, req, t - Window, t) <= Reqs + RPM + Extra(evicted, t - Window, t)
      BY DEF ChargeOK
    <3> QED BY ONLY <1>7, <2>1, <2>2, <3>1
  <2>6. Capped(counter'.n) = Capped(counter.n) /\ clock' = clock /\ evicted' = evicted
    BY DEF Capped
  <2> QED BY <2>4, <2>5, <2>6 DEF ChargeOK
<1> QED BY <1>2, <1>3, <1>4, <1>5, <1>6, <1>8

\* An EXPIRE sets a deadline that covers every request let through so far.
LEMMA RearmInd ==
  ASSUME RateInd, NEW r \in Req, Admit(r) \/ Reject(r) \/ AnswerLost(r)
  PROVE  RateInd'
<1> USE DEF RateInd
<1>1. /\ req[r].pc = "expire" /\ req' = [req EXCEPT ![r] = Waiting] /\ Rearm
      /\ clock' = clock /\ arrived' = arrived /\ evicted' = evicted /\ last' = clock
      /\ cuts' = cuts
      /\ \/ passed' = passed
         \/ passed' = passed \cup {Token(req, r)} /\ req[r].n <= RPM
  BY DEF Admit, Reject, AnswerLost, Token
<1>2. /\ clock \in Nat /\ counter.n \in Nat /\ cuts \in Nat /\ Window \in Nat
      /\ Cardinality(Pending(req)) \in Nat
  <2>1. IsFiniteSet(passed)
    BY RateTypes, FS_Subset DEF NamesOK
  <2> QED BY <2>1, RateTypes, ChargeTypes
<1>3. /\ counter'.n = counter.n
      /\ counter'.exp = IF counter.n = 0 THEN None ELSE clock + Window
      /\ counter' \in [n : Nat, exp : Nat \cup {None}]
  BY <1>1, <1>2 DEF Rearm, Absent, RateTypeOK, None
<1>4. /\ NamesOK' /\ ChargeOK' /\ passed' \subseteq arrived'
      /\ req' \in [Req -> [pc : {"idle", "expire"}, n : Nat, at : Times \cup {None}, id : Nat]]
      /\ Cardinality(Pending(req')) = Cardinality(Pending(req)) - 1
  BY <1>1, <1>3, EndKeeps
<1>5. RateTypeOK'
  BY <1>1, <1>3, <1>4 DEF RateTypeOK
<1>6. \A x \in passed' : x[1] \in Nat /\ x[1] <= clock
  BY <1>1, <1>4, RateTypes DEF NamesOK
<1>7. Cardinality(Pending(req')) \in Nat
  <2>1. Pending(req') \in SUBSET Req
    BY DEF Pending
  <2> QED BY <2>1, ReqSubset
<1>8. DeadlineOK'
  BY <1>1, <1>2, <1>3, <1>6, <1>7 DEF DeadlineOK, None
<1> QED BY <1>4, <1>5, <1>8

\* A broken pipeline leaves one INCR without an EXPIRE.
LEMMA CutInd ==
  ASSUME RateInd, NEW r \in Req, Cut(r)
  PROVE  RateInd'
<1> USE DEF RateInd
<1>1. /\ req[r].pc = "expire" /\ req' = [req EXCEPT ![r] = Waiting]
      /\ UNCHANGED <<clock, counter, passed, arrived, evicted, last, verdict>>
      /\ cuts < MaxCuts /\ cuts' = IF counter.n = 0 THEN 0 ELSE cuts + 1
  BY DEF Cut
<1>2. /\ NamesOK' /\ ChargeOK'
      /\ req' \in [Req -> [pc : {"idle", "expire"}, n : Nat, at : Times \cup {None}, id : Nat]]
      /\ Cardinality(Pending(req')) = Cardinality(Pending(req)) - 1
  BY <1>1, EndKeeps
<1>3. counter.n \in Nat /\ cuts \in Nat /\ Cardinality(Pending(req)) \in Nat
      /\ Cardinality(Pending(req')) \in Nat
  <2>1. Pending(req) \in SUBSET Req /\ Pending(req') \in SUBSET Req
    BY DEF Pending
  <2> QED BY <2>1, ReqSubset, RateTypes
<1>4. RateTypeOK'
  BY <1>1, <1>2, <1>3, RateAssumption DEF RateTypeOK
<1>5. DeadlineOK'
  BY <1>1, <1>2, <1>3 DEF DeadlineOK
<1> QED BY <1>2, <1>4, <1>5

\* An INCR gets a number nobody has got.
LEMMA IncrInd ==
  ASSUME RateInd, NEW r \in Req, Incr(r)
  PROVE  RateInd'
<1> USE DEF RateInd
<1> DEFINE n == counter.n + 1
           i == Cardinality(arrived) + 1
           o == [pc |-> "expire", n |-> n, at |-> clock, id |-> i]
           y == <<clock, i>>
<1>1. /\ req[r].pc = "idle" /\ req' = [req EXCEPT ![r] = o]
      /\ counter' = [counter EXCEPT !.n = n] /\ arrived' = arrived \cup {y}
      /\ last' = clock /\ UNCHANGED <<clock, cuts, passed, evicted, verdict>>
  BY DEF Incr
<1>2. /\ clock \in Nat /\ counter.n \in Nat /\ cuts \in Nat /\ Window \in Nat
      /\ last \in Nat \cup {None} /\ RPM \in Nat /\ counter.exp \in Nat \cup {None}
      /\ i \in Nat /\ Cardinality(arrived) \in Nat
  BY RateTypes, FS_CardinalityType DEF NamesOK
<1>3. counter'.n = n /\ counter'.exp = counter.exp
      /\ counter' \in [n : Nat, exp : Nat \cup {None}] /\ n \in Nat
  BY <1>1, <1>2 DEF RateTypeOK
<1>4. \A q \in Req : req'[q] = IF q = r THEN o ELSE req[q]
  BY <1>1 DEF RateTypeOK
<1>5. RateTypeOK'
  BY <1>1, <1>2, <1>3 DEF RateTypeOK, Times
<1>6. o.pc = "expire" /\ o.n = n /\ o.at = clock /\ o.id = i
  OBVIOUS
<1> HIDE DEF o
<1>7. /\ Pending(req') = Pending(req) \cup {r} /\ r \notin Pending(req)
      /\ Cardinality(Pending(req')) = Cardinality(Pending(req)) + 1
  <2>1. req[r].pc = "idle" /\ o.pc = "expire"
    BY <1>1, <1>6
  <2> QED BY ONLY <1>4, <2>1, r \in Req, ReqBeginsPending
<1>8. ASSUME NEW lo, NEW hi
      PROVE  Cardinality(Claims(req', lo, hi)) =
               IF n <= RPM /\ InSpan(clock, lo, hi)
               THEN Cardinality(Claims(req, lo, hi)) + 1 ELSE Cardinality(Claims(req, lo, hi))
  <2>1. req[r].pc = "idle" /\ o.pc = "expire"
    BY <1>1, <1>6
  <2>2. Cardinality(Claims(req', lo, hi)) =
          IF o.n <= RPM /\ InSpan(o.at, lo, hi)
          THEN Cardinality(Claims(req, lo, hi)) + 1 ELSE Cardinality(Claims(req, lo, hi))
    BY ONLY <1>4, <2>1, r \in Req, ReqBeginsClaims
  <2> QED BY <1>6, <2>2
<1>9. y \notin arrived
  BY <1>2 DEF NamesOK
<1>10. NamesOK'
  <2>1. IsFiniteSet(arrived') /\ Cardinality(arrived') = i
    BY <1>1, <1>9, FS_AddElement DEF NamesOK
  <2>2. \A x \in arrived' : x[1] <= clock' /\ x[2] <= Cardinality(arrived')
    <3>1. \A x \in arrived : x[1] <= clock /\ x[2] <= i /\ x[2] \in Nat
      BY <1>2, RateTypes DEF NamesOK
    <3> QED BY <1>1, <1>2, <2>1, <3>1
  <2>3. Token(req', r) = y /\ \A q \in Pending(req) : Token(req', q) = Token(req, q)
    BY <1>4, <1>6, <1>7 DEF Token, Pending
  <2>4. \A q \in Pending(req') : Token(req', q) \in arrived' \ passed'
    BY <1>1, <1>7, <1>9, <2>3, RateTypes DEF NamesOK
  <2>5. \A q, s \in Pending(req') : Token(req', q) = Token(req', s) => q = s
    BY <1>7, <1>9, <2>3 DEF NamesOK
  <2> QED BY <1>1, <2>1, <2>2, <2>4, <2>5 DEF NamesOK
<1>11. DeadlineOK'
  <2>1. Cardinality(Pending(req)) \in Nat
    <3>1. Pending(req) \in SUBSET Req
      BY DEF Pending
    <3> QED BY <3>1, ReqSubset
  <2>2. last' <= clock' /\ (counter'.n = 0 => counter'.exp = None)
    BY <1>1, <1>2, <1>3
  <2>3. counter'.exp # None =>
          /\ clock' <= counter'.exp /\ last' # None /\ counter'.exp <= last' + Window
          /\ \A x \in passed' : x[1] + Window <= counter'.exp
    BY <1>1, <1>2, <1>3 DEF DeadlineOK, None
  <2>4. counter'.exp = None => counter'.n <= cuts' + Cardinality(Pending(req'))
    BY <1>1, <1>2, <1>3, <1>7, <2>1 DEF DeadlineOK
  <2> QED BY <2>2, <2>3, <2>4 DEF DeadlineOK
<1>12. ChargeOK'
  <2>1. IsFiniteSet(passed) /\ IsFiniteSet(evicted)
    BY RateTypes, FS_Subset DEF NamesOK
  <2>2. \A lo, hi : /\ Charge(passed, req, lo, hi) \in Int /\ Extra(evicted, lo, hi) \in Nat
                    /\ Within(passed, lo, hi) \in Nat
                    /\ Cardinality(Claims(req, lo, hi)) \in Nat
    BY <2>1, ChargeTypes
  <2>3. ASSUME NEW lo, NEW hi
        PROVE  Charge(passed', req', lo, hi) =
                 IF n <= RPM /\ InSpan(clock, lo, hi) THEN Charge(passed, req, lo, hi) + 1
                                                      ELSE Charge(passed, req, lo, hi)
    <3>1. Cardinality(Claims(req', lo, hi)) =
            IF n <= RPM /\ InSpan(clock, lo, hi)
            THEN Cardinality(Claims(req, lo, hi)) + 1 ELSE Cardinality(Claims(req, lo, hi))
      BY ONLY <1>8
    <3>2. Within(passed, lo, hi) \in Nat /\ Cardinality(Claims(req, lo, hi)) \in Nat
      BY ONLY <2>2
    <3>3. Within(passed', lo, hi) = Within(passed, lo, hi)
      BY <1>1
    <3> QED BY ONLY <3>1, <3>2, <3>3 DEF Charge
  <2>4. Reqs \in Nat
    BY <2>1, ChargeTypes
  <2>5. ASSUME NEW lo \in clock - Window .. clock
        PROVE  /\ Charge(passed', req', lo, clock)
                    <= Reqs + Capped(n) + Extra(evicted, lo, clock)
               /\ Charge(passed', req', lo, clock) <= Reqs + RPM + Extra(evicted, lo, clock)
    <3>1. Charge(passed, req, lo, clock)
            <= Reqs + Capped(counter.n) + Extra(evicted, lo, clock)
      BY DEF ChargeOK
    <3>2. Charge(passed', req', lo, clock) =
            IF n <= RPM /\ InSpan(clock, lo, clock) THEN Charge(passed, req, lo, clock) + 1
                                                    ELSE Charge(passed, req, lo, clock)
      BY <2>3
    <3>3. Charge(passed, req, lo, clock) \in Int /\ Extra(evicted, lo, clock) \in Nat
      BY <2>2
    <3> QED BY <1>2, <2>4, <3>1, <3>2, <3>3 DEF Capped, InSpan
  <2>6. ASSUME NEW t \in 0 .. clock
        PROVE  Charge(passed', req', t - Window, t)
                 <= Reqs + RPM + Extra(evicted, t - Window, t)
    <3>1. CASE t < clock
      <4>1. ~InSpan(clock, t - Window, t)
        BY <1>2, <3>1 DEF InSpan
      <4>2. Charge(passed', req', t - Window, t) = Charge(passed, req, t - Window, t)
        BY <2>3, <4>1
      <4> QED BY <4>2 DEF ChargeOK
    <3>2. CASE t = clock
      <4>1. clock - Window \in clock - Window .. clock
        BY <1>2
      <4> QED BY <2>5, <3>2, <4>1
    <3> QED BY <1>2, <3>1, <3>2
  <2> QED BY <1>1, <1>3, <2>5, <2>6 DEF ChargeOK
<1> QED BY <1>5, <1>10, <1>11, <1>12

\* As time passes, requests leave the Window; a counter that runs out leaves
\* only those that are under way.
LEMMA RateTickInd ==
  ASSUME RateInd, RateTick
  PROVE  RateInd'
<1> USE DEF RateInd
<1>1. /\ clock < MaxTime /\ clock' = clock + 1
      /\ req' = req /\ passed' = passed /\ arrived' = arrived /\ evicted' = evicted
      /\ last' = last
      /\ \/ /\ counter.exp # None /\ clock' > counter.exp
            /\ counter' = Absent /\ cuts' = 0
         \/ /\ ~(counter.exp # None /\ clock' > counter.exp)
            /\ counter' = counter /\ cuts' = cuts
  BY DEF RateTick
<1>2. /\ clock \in Nat /\ counter.n \in Nat /\ Window \in Nat /\ RPM \in Nat
      /\ cuts \in Nat /\ last \in Nat \cup {None} /\ counter.exp \in Nat \cup {None}
  BY RateTypes
<1>3. IsFiniteSet(passed) /\ IsFiniteSet(evicted)
  BY RateTypes, FS_Subset DEF NamesOK
<1>4. RateTypeOK'
  BY <1>1, <1>2, RateAssumption DEF RateTypeOK, Times, Absent, None
<1>5. \A x \in arrived \cup evicted : x[1] \in Nat /\ x[1] <= clock
  BY RateTypes DEF NamesOK
<1>6. NamesOK'
  <2>1. \A x \in arrived' : x[1] <= clock' /\ x[2] <= Cardinality(arrived')
    BY <1>1, <1>2, <1>5 DEF NamesOK
  <2>2. \A x \in evicted' : x[1] <= clock' /\ x[2] <= Cardinality(evicted')
    BY <1>1, <1>2, <1>5 DEF NamesOK
  <2> QED BY <1>1, <2>1, <2>2 DEF NamesOK, Pending, Token
<1>7. Cardinality(Pending(req)) \in Nat
  BY <1>3, ChargeTypes
<1>8. DeadlineOK'
  <2>1. CASE counter.exp # None /\ clock' > counter.exp
    BY <1>1, <1>2, <1>7, <2>1 DEF DeadlineOK, Absent, None
  <2>2. CASE ~(counter.exp # None /\ clock' > counter.exp)
    BY <1>1, <1>2, <2>2 DEF DeadlineOK, None
  <2> QED BY <2>1, <2>2
<1>9. ChargeOK'
  <2>0. \A r \in Pending(req) : req[r].at \in Nat /\ req[r].at <= clock
    <3>1. ASSUME NEW r \in Pending(req) PROVE req[r].at = Token(req, r)[1]
      BY DEF Token
    <3>2. \A r \in Pending(req) : Token(req, r) \in arrived
      BY DEF NamesOK
    <3> QED BY <1>5, <3>1, <3>2
  <2>1. \A lo, hi : /\ Within(passed, lo, hi) \in Nat
                    /\ Cardinality(Claims(req, lo, hi)) \in Nat
                    /\ Cardinality(Claims(req, lo, hi)) <= Reqs
                    /\ Charge(passed, req, lo, hi) \in Nat
                    /\ Extra(evicted, lo, hi) \in Nat
    BY <1>3, ChargeTypes
  <2>2. Reqs \in Nat /\ Capped(counter.n) \in Nat /\ Capped(counter.n) <= RPM
    BY <1>2, <1>3, ChargeTypes DEF Capped
  <2>3. ASSUME NEW lo
        PROVE  /\ Charge(passed, req, lo, clock + 1) = Charge(passed, req, lo, clock)
               /\ Extra(evicted, lo, clock + 1) = Extra(evicted, lo, clock)
    <3>1. \A x \in passed : x[1] \in Nat /\ x[1] <= clock
      BY <1>5, RateTypes
    <3>2. \A x \in evicted : x[1] \in Nat /\ x[1] <= clock
      BY <1>5
    <3>3. Within(passed, lo, clock + 1) = Within(passed, lo, clock)
      BY ONLY <1>2, <3>1, WithinLater
    <3>4. Within(evicted, lo, clock + 1) = Within(evicted, lo, clock)
      BY ONLY <1>2, <3>2, WithinLater
    <3>5. Claims(req, lo, clock + 1) = Claims(req, lo, clock)
      BY <1>2, <2>0 DEF Claims, Pending, InSpan
    <3> QED BY <3>3, <3>4, <3>5 DEF Charge, Extra
  <2>4. ASSUME NEW lo \in (clock + 1) - Window .. clock + 1
        PROVE  /\ Charge(passed, req, lo, clock + 1)
                    <= Reqs + Capped(counter'.n) + Extra(evicted, lo, clock + 1)
               /\ Charge(passed, req, lo, clock + 1)
                    <= Reqs + RPM + Extra(evicted, lo, clock + 1)
    <3>1. CASE counter.exp # None /\ clock' > counter.exp
      <4>1. \A x \in passed : x[1] + Window < clock + 1 /\ x[1] \in Nat
        BY <1>1, <1>2, <3>1, RateTypes DEF DeadlineOK
      <4>2. {x \in passed : lo <= x[1] /\ x[1] <= clock + 1} = {}
        BY <1>2, <4>1
      <4>3. Within(passed, lo, clock + 1) = 0
        BY <4>2, FS_EmptySet DEF Within
      <4>4. Capped(counter'.n) = 0
        BY <1>1, <1>2, <3>1 DEF Capped, Absent
      <4>5. /\ Cardinality(Claims(req, lo, clock + 1)) \in Nat
            /\ Cardinality(Claims(req, lo, clock + 1)) <= Reqs
            /\ Extra(evicted, lo, clock + 1) \in Nat
        BY ONLY <2>1
      <4> QED BY ONLY <1>2, <2>2, <4>3, <4>4, <4>5 DEF Charge
    <3>2. CASE ~(counter.exp # None /\ clock' > counter.exp)
      <4>1. counter' = counter
        BY <1>1, <3>2
      <4>2. CASE lo = clock + 1
        <5>1. {x \in passed : lo <= x[1] /\ x[1] <= clock} = {} /\ Claims(req, lo, clock) = {}
          <6>1. \A x \in passed : x[1] \in Nat
            BY <1>5, RateTypes
          <6>2. \A r \in Pending(req) : req[r].at \in Nat
            BY <2>0
          <6> QED BY <1>2, <4>2, <6>1, <6>2 DEF Claims, InSpan, Pending
        <5>2. Within(passed, lo, clock) = 0 /\ Cardinality(Claims(req, lo, clock)) = 0
          BY <5>1, FS_EmptySet DEF Within
        <5>3. Charge(passed, req, lo, clock) = 0
          BY <5>2 DEF Charge
        <5>4. Charge(passed, req, lo, clock + 1) = 0 /\ Extra(evicted, lo, clock + 1) \in Nat
          BY <2>1, <2>3, <5>3
        <5> QED BY ONLY <1>2, <2>2, <4>1, <5>4
      <4>3. CASE lo \in clock - Window .. clock
        <5>1. Charge(passed, req, lo, clock)
                <= Reqs + Capped(counter.n) + Extra(evicted, lo, clock)
          BY <4>3 DEF ChargeOK
        <5>2. /\ Charge(passed, req, lo, clock + 1) = Charge(passed, req, lo, clock)
              /\ Extra(evicted, lo, clock + 1) = Extra(evicted, lo, clock)
              /\ Charge(passed, req, lo, clock) \in Nat /\ Extra(evicted, lo, clock) \in Nat
          BY ONLY <2>1, <2>3
        <5> QED BY ONLY <1>2, <2>2, <4>1, <5>1, <5>2
      <4> QED BY <1>2, <4>2, <4>3
    <3> QED BY <3>1, <3>2
  <2>5. \A t \in 0 .. clock + 1 : Charge(passed, req, t - Window, t)
                                   <= Reqs + RPM + Extra(evicted, t - Window, t)
    <3>1. (clock + 1) - Window \in (clock + 1) - Window .. clock + 1
      BY <1>2
    <3>2. \A t \in 0 .. clock + 1 : t \in 0 .. clock \/ t = clock + 1
      BY <1>2
    <3>3. \A t \in 0 .. clock : Charge(passed, req, t - Window, t)
                                <= Reqs + RPM + Extra(evicted, t - Window, t)
      BY DEF ChargeOK
    <3>4. Charge(passed, req, (clock + 1) - Window, clock + 1)
            <= Reqs + RPM + Extra(evicted, (clock + 1) - Window, clock + 1)
      BY <2>4, <3>1
    <3> QED BY ONLY <3>2, <3>3, <3>4
  <2> QED BY <1>1, <2>4, <2>5 DEF ChargeOK
<1> QED BY <1>4, <1>6, <1>8, <1>9

\* When Redis loses the counter, every Window that holds this tick may have RPM
\* requests more.
LEMMA EvictCounterInd ==
  ASSUME RateInd, EvictCounter
  PROVE  RateInd'
<1> USE DEF RateInd
<1> DEFINE i == Cardinality(evicted) + 1
           y == <<clock, i>>
<1>1. /\ clock' = clock /\ req' = req /\ passed' = passed /\ arrived' = arrived
      /\ last' = last /\ counter' = Absent /\ cuts' = 0 /\ evicted' = evicted \cup {y}
  BY DEF EvictCounter
<1>2. /\ clock \in Nat /\ counter.n \in Nat /\ Window \in Nat /\ RPM \in Nat
      /\ last \in Nat \cup {None} /\ Cardinality(evicted) \in Nat
  BY RateTypes, FS_CardinalityType DEF NamesOK
<1>3. IsFiniteSet(passed) /\ IsFiniteSet(evicted) /\ y \notin evicted
  BY <1>2, RateTypes, FS_Subset DEF NamesOK
<1>4. RateTypeOK'
  BY <1>1, <1>2, RateAssumption DEF RateTypeOK, Absent, None, Times
<1>5. /\ IsFiniteSet(evicted') /\ Cardinality(evicted') = i
      /\ \A lo, hi : Within(evicted', lo, hi) =
                        IF InSpan(clock, lo, hi) THEN Within(evicted, lo, hi) + 1
                                                 ELSE Within(evicted, lo, hi)
  BY <1>1, <1>3, WithinAdd
<1>6. NamesOK'
  <2>1. \A x \in evicted' : x[1] <= clock' /\ x[2] <= Cardinality(evicted')
    <3>1. \A x \in evicted : x[1] <= clock /\ x[2] <= i
      BY <1>2, RateTypes DEF NamesOK
    <3> QED BY <1>1, <1>2, <1>5, <3>1
  <2> QED BY <1>1, <1>5, <2>1 DEF NamesOK, Pending, Token
<1>7. DeadlineOK'
  <2>1. Cardinality(Pending(req)) \in Nat
    BY <1>3, ChargeTypes
  <2> QED BY <1>1, <1>2, <2>1 DEF DeadlineOK, Absent, None
<1>8. ChargeOK'
  <2>1. \A lo, hi : /\ Charge(passed, req, lo, hi) \in Nat
                    /\ Within(evicted, lo, hi) \in Nat /\ Extra(evicted, lo, hi) \in Nat
    BY <1>3, ChargeTypes
  <2>2. Reqs \in Nat /\ Capped(counter.n) \in Nat /\ Capped(counter.n) <= RPM
    BY <1>2, <1>3, ChargeTypes DEF Capped
  <2>3. \A lo, hi : Extra(evicted', lo, hi) =
                      IF InSpan(clock, lo, hi) THEN Extra(evicted, lo, hi) + RPM
                                               ELSE Extra(evicted, lo, hi)
    <3>1. \A w \in Nat : RPM * (w + 1) = RPM * w + RPM
      BY <1>2
    <3> QED BY <1>5, <2>1, <3>1 DEF Extra
  <2>4. Capped(counter'.n) = 0
    BY <1>1, <1>2 DEF Capped, Absent
  <2>5. ASSUME NEW lo \in clock - Window .. clock
        PROVE  Charge(passed, req, lo, clock) <= Reqs + 0 + Extra(evicted', lo, clock)
    <3>1. Charge(passed, req, lo, clock)
            <= Reqs + Capped(counter.n) + Extra(evicted, lo, clock)
      BY DEF ChargeOK
    <3>2. Extra(evicted', lo, clock) = Extra(evicted, lo, clock) + RPM
      BY <1>2, <2>3 DEF InSpan
    <3>3. Charge(passed, req, lo, clock) \in Nat /\ Extra(evicted, lo, clock) \in Nat
      BY <2>1
    <3> QED BY ONLY <1>2, <2>2, <3>1, <3>2, <3>3
  <2>6. ASSUME NEW t \in 0 .. clock
        PROVE  Charge(passed, req, t - Window, t)
                 <= Reqs + RPM + Extra(evicted', t - Window, t)
    <3>1. Charge(passed, req, t - Window, t) <= Reqs + RPM + Extra(evicted, t - Window, t)
      BY DEF ChargeOK
    <3>2. Extra(evicted, t - Window, t) <= Extra(evicted', t - Window, t)
      <4>1. Extra(evicted, t - Window, t) \in Nat
        BY <2>1
      <4> QED BY <1>2, <2>3, <4>1
    <3>3. /\ Charge(passed, req, t - Window, t) \in Nat
          /\ Extra(evicted, t - Window, t) \in Nat /\ Extra(evicted', t - Window, t) \in Nat
      BY <1>2, <2>1, <2>3
    <3> QED BY ONLY <1>2, <2>2, <3>1, <3>2, <3>3
  <2> QED BY <1>1, <2>4, <2>5, <2>6 DEF ChargeOK
<1> QED BY <1>4, <1>6, <1>7, <1>8

\* Every step keeps the invariant.
LEMMA RateNextInd == RateInd /\ [RateNext]_rvars => RateInd'
<1> SUFFICES ASSUME RateInd, [RateNext]_rvars PROVE RateInd'
  OBVIOUS
<1>1. ASSUME NEW r \in Req, Incr(r) PROVE RateInd'
  BY <1>1, IncrInd
<1>2. ASSUME NEW r \in Req, Admit(r) \/ Reject(r) \/ AnswerLost(r) PROVE RateInd'
  BY <1>2, RearmInd
<1>3. ASSUME NEW r \in Req, Cut(r) PROVE RateInd'
  BY <1>3, CutInd
<1>4. CASE RateTick
  BY <1>4, RateTickInd
<1>5. CASE EvictCounter
  BY <1>5, EvictCounterInd
<1>6. CASE UNCHANGED rvars
  BY <1>6 DEF rvars, RateInd, RateTypeOK, NamesOK, DeadlineOK, ChargeOK, Pending, Token,
              Charge, Within, Claims, Extra
<1> QED BY <1>1, <1>2, <1>3, <1>4, <1>5, <1>6 DEF RateNext

-----------------------------------------------------------------------------
(* The theorems.                                                           *)

\* The variables keep their types: the counter of an address is never negative
\* and no request is let through that was not counted.
THEOREM RateTypeInvariant == RateSpec => []RateTypeOK
<1>1. RateInd => RateTypeOK
  BY DEF RateInd
<1> QED BY <1>1, RateInitInd, RateNextInd, PTL DEF RateSpec

\* However INCRs and EXPIREs interleave and whichever of them Redis loses, no
\* minute holds more requests that RateLimitMiddleware let through than RPM for
\* each counter Redis kept in it, and one of each request that was under way
\* when a counter ran out.
THEOREM RateAtMostRPM == RateSpec => []AtMostRPM
<1>1. RateInd => AtMostRPM
  <2> SUFFICES ASSUME RateInd, NEW t \in 0 .. clock
               PROVE  InWindow(passed, t)
                        <= RPM * (1 + InWindow(evicted, t)) + Cardinality(Req)
    BY DEF AtMostRPM
  <2> DEFINE p == Within(passed, t - Window, t)
             e == Within(evicted, t - Window, t)
  <2>1. IsFiniteSet(passed) /\ IsFiniteSet(evicted)
    BY RateTypes, FS_Subset DEF RateInd, NamesOK
  <2>2. /\ p \in Nat /\ Cardinality(Claims(req, t - Window, t)) \in Nat /\ e \in Nat
        /\ Reqs \in Nat /\ RPM \in Nat
    BY <2>1, ChargeTypes, RateAssumption
  <2>3. p + Cardinality(Claims(req, t - Window, t)) <= Reqs + RPM + RPM * e
    BY DEF RateInd, ChargeOK, Charge, Extra
  <2> HIDE DEF p, e
  <2>4. RPM * (1 + e) = RPM + RPM * e /\ RPM * e \in Nat
    BY ONLY <2>2
  <2>5. p <= RPM * (1 + e) + Reqs
    BY ONLY <2>2, <2>3, <2>4
  <2> QED BY <2>5 DEF Reqs, InWindow, p, e
<1> QED BY <1>1, RateInitInd, RateNextInd, PTL DEF RateSpec

\* A client that sends nothing for the Retry-After of its last answer finds a
\* counter that holds at most the INCRs that lost their EXPIRE.
THEOREM RateSilenceForgives == RateSpec => []SilenceForgives
<1>1. RateInd => SilenceForgives
  <2> SUFFICES ASSUME RateInd, last # None, clock > last + Window,
                      \A r \in Req : req[r].pc = "idle"
               PROVE  counter.n <= cuts
    BY DEF SilenceForgives
  <2>1. /\ clock \in Nat /\ last \in Nat /\ counter.exp \in Nat \cup {None}
        /\ counter.n \in Nat /\ cuts \in Nat /\ Window \in Nat
    BY RateTypes DEF RateInd
  <2>2. counter.exp = None
    BY <2>1 DEF RateInd, DeadlineOK, None
  <2>3. Pending(req) = {}
    BY DEF Pending
  <2>4. Cardinality(Pending(req)) = 0
    BY <2>3, FS_EmptySet
  <2> QED BY <2>1, <2>2, <2>4 DEF RateInd, DeadlineOK
<1> QED BY <1>1, RateInitInd, RateNextInd, PTL DEF RateSpec
=============================================================================

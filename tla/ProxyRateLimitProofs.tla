------------------------ MODULE ProxyRateLimitProofs ------------------------
(***************************************************************************)
(* The bounds of the proxy limiter, for every number of workers, limit and *)
(* window.  A stretch is the time from a SetCount to the next one or to    *)
(* the end of the counter.  In a stretch at most RateLimit requests raise  *)
(* the counter to the limit and each other worker may still use a count it *)
(* read before; so Share requests pass.  In a Window the counter is absent *)
(* only before the first SetCount, so each worker sets it at most once.    *)
(***************************************************************************)
EXTENDS ProxyRateLimit, FiniteSetTheorems, TLAPS

Workers == Cardinality(Worker)

\* What a stretch lets through at most.
Share == RateLimit + Workers - 1

\* The workers whose count is 1, above 1 and within the limit, or above it.
Having(j, C) == {w \in Worker : j[w].pc = "write" /\ j[w].count \in C}
Setting(j) == Cardinality(Having(j, {1}))
Going(j) == Cardinality(Having(j, 2 .. RateLimit))
Above(j) == Cardinality(Having(j, {c \in Nat : c > RateLimit}))

\* Requests let through since tick t, and in the Window up to t.
Since(s, t) == Cardinality({i \in DOMAIN s : t <= s[i]})
Within(s, t) == Cardinality({i \in DOMAIN s : t - Window <= s[i] /\ s[i] <= t})

\* What the present stretch may still let through.
Left(n, j) ==
  IF 0 < n /\ n < RateLimit THEN RateLimit - n + Workers - 1 ELSE Going(j)

\* What a Window may hold while z workers are about to set the counter.
Quota(z) == (Workers + 1 - z) * Share

Past == \A i \in DOMAIN passed : passed[i] <= clock
JobsOK == \A w \in Worker : job[w].pc = "write" => job[w].count > 0
CellOK == cell.n > 0 => clock <= cell.exp /\ cell.exp <= clock + Window

\* After the tick of its SetCount a stretch passes no more than its share.
StretchOK ==
  cell.n > 0 => Since(passed, cell.exp - Window + 1) + Left(cell.n, job) <= Share

\* The last Window is within its quota, and stays so.
WindowOK ==
  Since(passed, clock - Window) + Left(cell.n, job) <=
    IF cell.n = 0 THEN Share ELSE Quota(Setting(job))

\* The counter counts requests let through in its stretch, and at most one
\* refused request of each other worker.
ChargeOK ==
  cell.n > 0 =>
    IF cell.n < RateLimit
    THEN cell.n <= Since(passed, cell.exp - Window) + Workers - 1 - Above(job)
    ELSE RateLimit - (Workers - 1) <= Since(passed, cell.exp - Window)

\* A worker about to refuse has reason to.
RefusalsOK ==
  \A w \in Having(job, {c \in Nat : c > RateLimit}) :
    RateLimit - (Workers - 1) <= Within(passed, job[w].at)

ProxyInd ==
  /\ ProxyTypeOK /\ Past /\ JobsOK /\ CellOK
  /\ StretchOK /\ WindowOK /\ ProxyBound
  /\ ChargeOK /\ RefusalsOK /\ RefusedOnlyAtLimit

-----------------------------------------------------------------------------
(* Counting.                                                               *)

\* The number of workers is positive.
LEMMA WorkersPositive == Workers \in Nat /\ Workers > 0
  BY ProxyAssumption, FS_CardinalityType, FS_EmptySet DEF Workers

\* A class of workers is finite and has at most Workers members.
LEMMA ClassSize ==
  ASSUME NEW S \in SUBSET Worker
  PROVE  /\ IsFiniteSet(S) /\ Cardinality(S) \in Nat /\ Cardinality(S) <= Workers
         /\ \A w \in Worker : w \notin S => Cardinality(S) <= Workers - 1
<1>1. IsFiniteSet(S) /\ Cardinality(S) \in Nat /\ Cardinality(S) <= Workers
  BY ProxyAssumption, FS_Subset, FS_CardinalityType DEF Workers
<1>2. ASSUME NEW w \in Worker, w \notin S PROVE Cardinality(S) <= Workers - 1
  <2>1. S \in SUBSET (Worker \ {w})
    BY <1>2
  <2>2. IsFiniteSet(Worker \ {w}) /\ Cardinality(Worker \ {w}) = Workers - 1
    BY ProxyAssumption, FS_RemoveElement DEF Workers
  <2> QED BY <2>1, <2>2, FS_Subset
<1> QED BY <1>1, <1>2

\* Numbers of workers are numbers.
LEMMA ClassTypes ==
  ASSUME NEW j
  PROVE  /\ Setting(j) \in Nat /\ Going(j) \in Nat /\ Above(j) \in Nat
         /\ Setting(j) <= Workers /\ Going(j) <= Workers
         /\ \A n \in Nat : Left(n, j) \in Nat
<1>1. \A C : Having(j, C) \in SUBSET Worker
  BY DEF Having
<1> QED BY <1>1, ClassSize, WorkersPositive, ProxyAssumption
        DEF Setting, Going, Above, Left

\* A worker that becomes free leaves its class.
LEMMA HavingFree ==
  ASSUME NEW j, NEW k, NEW w \in Worker, NEW C,
         \A v \in Worker : k[v] = IF v = w THEN Free ELSE j[v]
  PROVE  /\ Having(k, C) = Having(j, C) \ {w}
         /\ Cardinality(Having(k, C)) =
              IF j[w].pc = "write" /\ j[w].count \in C
              THEN Cardinality(Having(j, C)) - 1 ELSE Cardinality(Having(j, C))
         /\ Cardinality(Having(k, C)) <= Workers - 1
<1>1. Having(k, C) = Having(j, C) \ {w}
  BY DEF Having, Free
<1>2. Having(j, C) \in SUBSET Worker /\ w \in Worker
  BY DEF Having
<1>3. w \in Having(j, C) <=> j[w].pc = "write" /\ j[w].count \in C
  BY DEF Having
<1>4. Having(k, C) \in SUBSET Worker /\ w \notin Having(k, C)
  BY <1>1, <1>2
<1> QED BY <1>1, <1>2, <1>3, <1>4, ClassSize, FS_RemoveElement

\* A free worker that reads a count enters its class.
LEMMA HavingRead ==
  ASSUME NEW j, NEW k, NEW w \in Worker, NEW C, NEW o,
         j[w].pc = "idle", o.pc = "write",
         \A v \in Worker : k[v] = IF v = w THEN o ELSE j[v]
  PROVE  /\ Having(k, C) = IF o.count \in C THEN Having(j, C) \cup {w}
                                            ELSE Having(j, C)
         /\ Cardinality(Having(k, C)) =
              IF o.count \in C THEN Cardinality(Having(j, C)) + 1
                               ELSE Cardinality(Having(j, C))
<1>1. Having(k, C) = IF o.count \in C THEN Having(j, C) \cup {w} ELSE Having(j, C)
  BY DEF Having
<1>2. Having(j, C) \in SUBSET Worker /\ w \notin Having(j, C)
  BY DEF Having
<1> QED BY <1>1, <1>2, ClassSize, FS_AddElement

\* Counts over a sequence of ticks are numbers, and grow with the window.
LEMMA SinceTypes ==
  ASSUME NEW s \in Seq(Nat), NEW t \in Int
  PROVE  /\ Since(s, t) \in Nat /\ Within(s, t) \in Nat
         /\ Within(s, t) <= Since(s, t - Window)
         /\ \A u \in Int : t <= u => Since(s, u) <= Since(s, t)
<1> DEFINE I == {i \in DOMAIN s : t <= s[i]}
           W == {i \in DOMAIN s : t - Window <= s[i] /\ s[i] <= t}
           J == {i \in DOMAIN s : t - Window <= s[i]}
<1>1. DOMAIN s = 1 .. Len(s) /\ IsFiniteSet(1 .. Len(s)) /\ \A i \in DOMAIN s : s[i] \in Nat
  BY FS_Interval
<1>2. \A S \in SUBSET DOMAIN s : IsFiniteSet(S) /\ Cardinality(S) \in Nat
  BY <1>1, FS_Subset, FS_CardinalityType
<1>3. W \in SUBSET J /\ IsFiniteSet(J)
  BY <1>2
<1>4. Cardinality(W) <= Cardinality(J)
  BY <1>3, FS_Subset
<1>5. ASSUME NEW u \in Int, t <= u PROVE Since(s, u) <= Since(s, t)
  <2>1. {i \in DOMAIN s : u <= s[i]} \in SUBSET I
    BY <1>1, <1>5, ProxyAssumption
  <2> QED BY <1>2, <2>1, FS_Subset DEF Since
<1> QED BY <1>2, <1>4, <1>5 DEF Since, Within

\* One more request is let through at tick t.
LEMMA SinceAppend ==
  ASSUME NEW s \in Seq(Nat), NEW t \in Nat, NEW u \in Int
  PROVE  /\ Since(Append(s, t), u) = IF u <= t THEN Since(s, u) + 1 ELSE Since(s, u)
         /\ Within(Append(s, t), u) =
              IF u - Window <= t /\ t <= u THEN Within(s, u) + 1 ELSE Within(s, u)
<1> DEFINE r == Append(s, t)
           n == Len(s) + 1
<1>1. DOMAIN s = 1 .. Len(s) /\ Len(s) \in Nat /\ IsFiniteSet(1 .. Len(s))
  BY FS_Interval
<1>2. DOMAIN r = DOMAIN s \cup {n} /\ n \notin DOMAIN s
  BY <1>1
<1>3. r[n] = t /\ \A i \in DOMAIN s : r[i] = s[i]
  BY <1>1
<1> HIDE DEF r, n
<1>4. \A S \in SUBSET DOMAIN s : Cardinality(S \cup {n}) = Cardinality(S) + 1
  <2>1. ASSUME NEW S \in SUBSET DOMAIN s PROVE IsFiniteSet(S) /\ n \notin S
    BY <1>1, <1>2, FS_Subset
  <2> QED BY <2>1, FS_AddElement
<1>5. Since(r, u) = IF u <= t THEN Since(s, u) + 1 ELSE Since(s, u)
  <2>1. {i \in DOMAIN r : u <= r[i]} =
          IF u <= t THEN {i \in DOMAIN s : u <= s[i]} \cup {n}
                    ELSE {i \in DOMAIN s : u <= s[i]}
    BY <1>2, <1>3
  <2> QED BY <1>4, <2>1 DEF Since
<1>6. Within(r, u) = IF u - Window <= t /\ t <= u THEN Within(s, u) + 1 ELSE Within(s, u)
  <2>1. {i \in DOMAIN r : u - Window <= r[i] /\ r[i] <= u} =
          IF u - Window <= t /\ t <= u
          THEN {i \in DOMAIN s : u - Window <= s[i] /\ s[i] <= u} \cup {n}
          ELSE {i \in DOMAIN s : u - Window <= s[i] /\ s[i] <= u}
    BY <1>2, <1>3
  <2> QED BY <1>4, <2>1 DEF Within
<1> QED BY <1>5, <1>6 DEF r

\* The quota grows by one share for each SetCount.
LEMMA QuotaFacts ==
  /\ Share \in Nat /\ Workers <= Share
  /\ \A z \in Nat : z <= Workers =>
       /\ Quota(z) \in Nat /\ Share <= Quota(z) /\ Quota(z) <= Quota(0)
       /\ z > 0 => Quota(z - 1) = Quota(z) + Share
       /\ z < Workers => 2 * Share <= Quota(z)
<1>1. Share \in Nat /\ Workers <= Share /\ Workers \in Nat
  BY WorkersPositive, ProxyAssumption DEF Share
<1>2. ASSUME NEW z \in Nat, z <= Workers
      PROVE  /\ Quota(z) \in Nat /\ Share <= Quota(z) /\ Quota(z) <= Quota(0)
             /\ z > 0 => Quota(z - 1) = Quota(z) + Share
             /\ z < Workers => 2 * Share <= Quota(z)
  <2>1. Quota(z) = (Workers - z) * Share + Share /\ Quota(0) = Quota(z) + z * Share
    BY <1>1, <1>2 DEF Quota
  <2>2. (Workers - z) * Share \in Nat /\ z * Share \in Nat
    BY <1>1, <1>2
  <2>3. z > 0 => Quota(z - 1) = Quota(z) + Share
    BY <1>1, <1>2 DEF Quota
  <2>4. ASSUME z < Workers PROVE 2 * Share <= Quota(z)
    <3>1. (Workers - z) * Share = (Workers - z - 1) * Share + Share
      BY <1>1, <1>2
    <3>2. (Workers - z - 1) * Share \in Nat
      BY <1>1, <1>2, <2>4
    <3> QED BY <1>1, <2>1, <3>1, <3>2
  <2> QED BY <1>1, <2>1, <2>2, <2>3, <2>4
<1> QED BY <1>1, <1>2

-----------------------------------------------------------------------------
(* The steps.                                                              *)

\* What the type invariant says, in the terms of the lemmas above.
LEMMA ProxyTypes ==
  ASSUME ProxyTypeOK
  PROVE  /\ clock \in Nat /\ cell.n \in Nat /\ cell.exp \in Nat
         /\ passed \in Seq(Nat) /\ RateLimit \in Nat /\ RateLimit > 0 /\ Window \in Nat
         /\ \A w \in Worker : job[w].count \in Nat /\ job[w].at \in Nat
         /\ \A t : PassedWithin(t) = Within(passed, t)
<1>1. passed \in Seq(Nat)
  BY ProxyAssumption DEF ProxyTypeOK, Times
<1> QED BY <1>1, ProxyAssumption DEF ProxyTypeOK, Times, PassedWithin, Within

\* Nothing has happened at the start.
LEMMA ProxyInitInd == ProxyInit => ProxyInd
<1> SUFFICES ASSUME ProxyInit PROVE ProxyInd
  OBVIOUS
<1>1. ProxyTypeOK
  BY ProxyAssumption DEF ProxyInit, ProxyTypeOK, NoCell, Free, Times
<1>2. Past /\ JobsOK /\ CellOK /\ StretchOK /\ ChargeOK /\ RefusedOnlyAtLimit
  BY DEF ProxyInit, Past, JobsOK, CellOK, StretchOK, ChargeOK, RefusedOnlyAtLimit,
         NoCell, Free
<1>3. \A C : Having(job, C) = {}
  BY DEF ProxyInit, Having, Free
<1>4. RefusalsOK
  BY <1>3 DEF RefusalsOK
<1>5. \A t : Since(passed, t) = 0 /\ PassedWithin(t) = 0
  <2>1. DOMAIN passed = {}
    BY DEF ProxyInit
  <2> QED BY <2>1, FS_EmptySet DEF Since, PassedWithin
<1>6. WindowOK
  <2>1. cell.n = 0
    BY DEF ProxyInit, NoCell
  <2>2. Going(job) = 0
    BY <1>3, FS_EmptySet DEF Going
  <2>3. Left(0, job) = 0
    BY <2>2 DEF Left
  <2> QED BY <1>5, <2>1, <2>3, QuotaFacts DEF WindowOK
<1>7. ProxyBound
  BY <1>5, QuotaFacts, WorkersPositive DEF ProxyBound, Quota, Share, Workers
<1> QED BY <1>1, <1>2, <1>4, <1>6, <1>7 DEF ProxyInd

\* Requests are let through in the past or now.
LEMMA PastFacts ==
  ASSUME ProxyTypeOK, Past
  PROVE  /\ Since(passed, clock + 1) = 0
         /\ Since(passed, clock - Window) = Within(passed, clock)
<1>1. \A i \in DOMAIN passed : passed[i] \in Nat /\ passed[i] <= clock
  BY ProxyTypes DEF Past
<1>2. {i \in DOMAIN passed : clock + 1 <= passed[i]} = {}
  BY <1>1, ProxyTypes
<1>3. {i \in DOMAIN passed : clock - Window <= passed[i]}
        = {i \in DOMAIN passed : clock - Window <= passed[i] /\ passed[i] <= clock}
  BY <1>1
<1> QED BY <1>2, <1>3, FS_EmptySet DEF Since, Within

\* The quota bounds the last Window.
LEMMA WindowBound ==
  ASSUME ProxyTypeOK, Past, WindowOK
  PROVE  PassedWithin(clock) <= (Cardinality(Worker) + 1) * (RateLimit + Cardinality(Worker) - 1)
<1>1. Quota(0) = (Cardinality(Worker) + 1) * (RateLimit + Cardinality(Worker) - 1)
  BY WorkersPositive, ProxyAssumption DEF Quota, Share, Workers
<1>2. Left(cell.n, job) \in Nat /\ Setting(job) \in Nat /\ Setting(job) <= Workers
  BY ClassTypes, ProxyTypes
<1>3. Share <= Quota(0) /\ Quota(Setting(job)) <= Quota(0)
      /\ Quota(0) \in Nat /\ Quota(Setting(job)) \in Nat /\ Share \in Nat
  BY <1>2, QuotaFacts, WorkersPositive
<1>4. Since(passed, clock - Window) \in Nat
  <2>1. passed \in Seq(Nat) /\ clock - Window \in Int
    BY ProxyTypes
  <2> QED BY <2>1, SinceTypes
<1>5. PassedWithin(clock) = Since(passed, clock - Window)
  BY PastFacts, ProxyTypes
<1> QED BY <1>1, <1>2, <1>3, <1>4, <1>5 DEF WindowOK

\* A read changes neither what the stretch may let through nor its charge.
LEMMA ReadInd ==
  ASSUME ProxyInd, NEW w \in Worker, ReadCount(w)
  PROVE  ProxyInd'
<1> DEFINE o == [pc |-> "write", count |-> cell.n + 1, at |-> clock]
<1> USE DEF ProxyInd
<1>1. /\ job' = [job EXCEPT ![w] = o] /\ job[w].pc = "idle"
      /\ UNCHANGED <<clock, cell, passed, refused>>
  BY DEF ReadCount
<1>2. \A v \in Worker : job'[v] = IF v = w THEN o ELSE job[v]
  BY <1>1 DEF ProxyTypeOK
<1>3. ProxyTypeOK'
  BY <1>1, ProxyTypes, ProxyAssumption DEF ReadCount, ProxyTypeOK
<1>4. Past' /\ CellOK' /\ ProxyBound' /\ RefusedOnlyAtLimit'
  BY <1>1 DEF Past, CellOK, ProxyBound, RefusedOnlyAtLimit, PassedWithin
<1>5. JobsOK'
  BY <1>2, ProxyTypes DEF JobsOK
<1>6. \A C : /\ Having(job', C) = IF cell.n + 1 \in C THEN Having(job, C) \cup {w}
                                                      ELSE Having(job, C)
             /\ Cardinality(Having(job', C)) =
                  IF cell.n + 1 \in C THEN Cardinality(Having(job, C)) + 1
                                      ELSE Cardinality(Having(job, C))
  <2>1. o.pc = "write" /\ o.count = cell.n + 1
    OBVIOUS
  <2> HIDE DEF o
  <2>2. ASSUME NEW C
        PROVE  /\ Having(job', C) = IF o.count \in C THEN Having(job, C) \cup {w}
                                                      ELSE Having(job, C)
               /\ Cardinality(Having(job', C)) =
                    IF o.count \in C THEN Cardinality(Having(job, C)) + 1
                                     ELSE Cardinality(Having(job, C))
    <3>1. job[w].pc = "idle" /\ o.pc = "write"
      BY <1>1, <2>1
    <3> QED BY ONLY <1>2, <3>1, HavingRead, ProxyAssumption
  <2> QED BY <2>1, <2>2
<1>7. cell.n \in Nat /\ RateLimit \in Nat /\ RateLimit > 0
  BY ProxyTypes
<1>8. /\ cell.n > 0 => Setting(job') = Setting(job)
      /\ cell.n = 0 \/ cell.n >= RateLimit => Going(job') = Going(job)
      /\ cell.n < RateLimit => Above(job') = Above(job)
  <2>1. cell.n > 0 => cell.n + 1 \notin {1}
    BY <1>7
  <2>2. cell.n = 0 \/ cell.n >= RateLimit => cell.n + 1 \notin 2 .. RateLimit
    BY <1>7
  <2>3. cell.n < RateLimit => cell.n + 1 \notin {c \in Nat : c > RateLimit}
    BY <1>7
  <2> QED BY <1>6, <2>1, <2>2, <2>3 DEF Setting, Going, Above
<1>9. Left(cell.n, job') = Left(cell.n, job)
  BY <1>7, <1>8 DEF Left
<1>10. StretchOK' /\ WindowOK' /\ ChargeOK'
  BY <1>1, <1>7, <1>8, <1>9 DEF StretchOK, WindowOK, ChargeOK
<1>11. RefusalsOK'
  <2> DEFINE C == {c \in Nat : c > RateLimit}
  <2> SUFFICES ASSUME NEW v \in Having(job', C)
               PROVE  RateLimit - (Workers - 1) <= Within(passed, job'[v].at)
    BY <1>1 DEF RefusalsOK
  <2>1. CASE v # w
    <3>1. v \in Having(job, C) /\ job'[v] = job[v]
      BY <1>2, <2>1 DEF Having
    <3> QED BY <3>1 DEF RefusalsOK
  <2>2. CASE v = w
    <3>1. job'[v].at = clock /\ cell.n + 1 > RateLimit
      BY <1>2, <2>2 DEF Having
    <3>2. RateLimit - (Workers - 1) <= Since(passed, cell.exp - Window)
      BY <1>7, <3>1 DEF ChargeOK
    <3>3. clock \in Nat /\ cell.exp \in Nat /\ Window \in Nat /\ clock <= cell.exp
      BY <1>7, <3>1, ProxyTypes DEF CellOK
    <3>4. /\ cell.exp - Window \in Int /\ clock - Window \in Int
          /\ clock - Window <= cell.exp - Window /\ passed \in Seq(Nat)
      BY <3>3, ProxyTypes
    <3>5. /\ Since(passed, cell.exp - Window) <= Since(passed, clock - Window)
          /\ Since(passed, cell.exp - Window) \in Nat
          /\ Since(passed, clock - Window) \in Nat
      BY <3>4, SinceTypes
    <3> QED BY <1>7, <3>1, <3>2, <3>5, PastFacts, WorkersPositive
  <2> QED BY <2>1, <2>2
<1> QED BY <1>3, <1>4, <1>5, <1>10, <1>11

\* As time goes on a Window only loses requests; a counter that ends has let
\* its share through since the Window began.
LEMMA TickInd ==
  ASSUME ProxyInd, ProxyTick
  PROVE  ProxyInd'
<1> USE DEF ProxyInd
<1> DEFINE n == cell.n
<1>1. /\ clock' = clock + 1 /\ UNCHANGED <<job, passed, calls, refused>>
      /\ cell' = IF clock + 1 > cell.exp THEN NoCell ELSE cell
  BY DEF ProxyTick
<1>2. /\ clock \in Nat /\ n \in Nat /\ cell.exp \in Nat /\ Window \in Nat
      /\ RateLimit \in Nat /\ RateLimit > 0 /\ passed \in Seq(Nat)
  BY ProxyTypes
<1>3. ProxyTypeOK'
  BY <1>1, <1>2, ProxyAssumption DEF ProxyTick, ProxyTypeOK, NoCell, Times
<1>4. Past' /\ JobsOK' /\ CellOK' /\ RefusalsOK' /\ RefusedOnlyAtLimit'
  <2>1. Past'
    BY <1>1, <1>2 DEF Past
  <2>2. CellOK'
    BY <1>1, <1>2 DEF CellOK, NoCell
  <2> QED BY <1>1, <2>1, <2>2 DEF JobsOK, RefusalsOK, RefusedOnlyAtLimit, PassedWithin
<1>5. (cell'.n = n /\ cell' = cell) \/ cell'.n = 0
  BY <1>1 DEF NoCell
<1>6. StretchOK' /\ ChargeOK'
  BY <1>1, <1>5 DEF StretchOK, ChargeOK
<1>7. /\ Left(n, job) \in Nat /\ Left(0, job) \in Nat /\ Left(0, job) = Going(job)
      /\ Going(job) \in Nat /\ Going(job) <= Workers /\ Workers \in Nat
      /\ Setting(job) \in Nat /\ Setting(job) <= Workers
  BY <1>2, ClassTypes, WorkersPositive DEF Left
<1>8. WindowOK'
  <2>1. /\ Since(passed, clock + 1 - Window) <= Since(passed, clock - Window)
        /\ Since(passed, clock + 1 - Window) \in Nat
        /\ Since(passed, clock - Window) \in Nat
    <3>1. /\ clock + 1 - Window \in Int /\ clock - Window \in Int
          /\ clock - Window <= clock + 1 - Window
      BY <1>2
    <3> QED BY <1>2, <3>1, SinceTypes
  <2>2. Share \in Nat /\ Quota(Setting(job)) \in Nat
    BY <1>7, QuotaFacts
  <2>3. CASE cell' = cell
    BY <1>1, <1>2, <1>7, <2>1, <2>2, <2>3 DEF WindowOK
  <2>4. CASE n = 0
    BY <1>1, <1>2, <1>5, <1>7, <2>1, <2>2, <2>4 DEF WindowOK
  <2>5. CASE n > 0 /\ clock + 1 > cell.exp
    <3>1. cell.exp = clock /\ cell'.n = 0
      BY <1>1, <1>2, <2>5 DEF CellOK, NoCell
    <3>2. Since(passed, clock + 1 - Window) + Left(n, job) <= Share
      <4>1. cell.exp - Window + 1 = clock + 1 - Window
        BY <1>2, <3>1
      <4> QED BY <2>5, <4>1 DEF StretchOK
    <3>3. Left(0, job) <= Left(n, job)
      BY <1>2, <1>7, <2>5 DEF Left
    <3>4. Since(passed, clock + 1 - Window) + Left(0, job) <= Share
      BY <1>7, <2>1, <2>2, <3>2, <3>3
    <3> QED BY <1>1, <1>2, <3>1, <3>4 DEF WindowOK
  <2> QED BY <1>1, <1>2, <2>3, <2>4, <2>5
<1>9. ProxyBound'
  <2>1. PassedWithin(clock)' <=
          (Cardinality(Worker) + 1) * (RateLimit + Cardinality(Worker) - 1)
    <3>1. (ProxyTypeOK /\ Past /\ WindowOK
             => PassedWithin(clock) <=
                (Cardinality(Worker) + 1) * (RateLimit + Cardinality(Worker) - 1))'
      BY WindowBound, PTL
    <3> QED BY <1>3, <1>4, <1>8, <3>1
  <2>2. \A t : PassedWithin(t)' = PassedWithin(t)
    BY <1>1 DEF PassedWithin
  <2> QED BY <1>1, <1>2, <2>1, <2>2 DEF ProxyBound
<1> QED BY <1>3, <1>4, <1>6, <1>8, <1>9

\* A stretch that is under way has less left with each request it counts: the
\* counter was raised, or a worker used up a count it had read.
LEMMA LeftAdd ==
  ASSUME NEW n \in Nat, NEW j, NEW k, n > 0,
         Going(j) \in Nat, Going(k) \in Nat, Going(k) <= Workers - 1,
         NEW d \in {0, 1}, Going(k) = Going(j) - d
  PROVE  Left(n + 1, k) + d <= Left(n, j)
<1>1. RateLimit \in Nat /\ Workers \in Nat
  BY WorkersPositive, ProxyAssumption
<1> QED BY <1>1 DEF Left

\* Where a write leaves the workers.
LEMMA WriteJobs ==
  ASSUME ProxyInd, NEW w \in Worker, WriteCount(w)
  PROVE  /\ \A v \in Worker : job'[v] = IF v = w THEN Free ELSE job[v]
         /\ job[w].pc = "write" /\ job[w].count \in Nat /\ job[w].count > 0
         /\ Setting(job') = Setting(job) - IF job[w].count = 1 THEN 1 ELSE 0
         /\ Going(job') = Going(job) -
              IF job[w].count > 1 /\ job[w].count <= RateLimit THEN 1 ELSE 0
         /\ Above(job') = Above(job) - IF job[w].count > RateLimit THEN 1 ELSE 0
         /\ Setting(job') <= Workers - 1
         /\ Going(job') <= Workers - 1 /\ Above(job') <= Workers - 1
<1>1. \A v \in Worker : job'[v] = IF v = w THEN Free ELSE job[v]
  BY DEF WriteCount, ProxyInd, ProxyTypeOK
<1>2. /\ job[w].pc = "write" /\ job[w].count \in Nat /\ job[w].count > 0
      /\ RateLimit \in Nat
  BY ProxyTypes DEF WriteCount, ProxyInd, JobsOK
<1>3. ASSUME NEW C
      PROVE  /\ Cardinality(Having(job', C)) =
                  IF job[w].count \in C THEN Cardinality(Having(job, C)) - 1
                                        ELSE Cardinality(Having(job, C))
             /\ Cardinality(Having(job', C)) <= Workers - 1
  BY ONLY <1>1, <1>2, <1>3, HavingFree, ProxyAssumption
<1>4. /\ Setting(job) \in Nat /\ Going(job) \in Nat /\ Above(job) \in Nat
      /\ Setting(job') \in Nat /\ Going(job') \in Nat /\ Above(job') \in Nat
  BY ClassTypes
<1>5. /\ job[w].count \in {1} <=> job[w].count = 1
      /\ job[w].count \in 2 .. RateLimit <=> job[w].count > 1 /\ job[w].count <= RateLimit
      /\ job[w].count \in {c \in Nat : c > RateLimit} <=> job[w].count > RateLimit
  BY <1>2
<1> QED BY <1>1, <1>2, <1>3, <1>4, <1>5 DEF Setting, Going, Above

\* What a write makes of the requests let through.
LEMMA WritePassed ==
  ASSUME ProxyInd, NEW w \in Worker, WriteCount(w)
  PROVE  /\ passed' = IF job[w].count <= RateLimit THEN Append(passed, clock) ELSE passed
         /\ ProxyTypeOK' /\ Past' /\ passed' \in Seq(Nat)
         /\ \A t \in Int :
              /\ Since(passed', t) \in Nat /\ Since(passed, t) \in Nat
              /\ Since(passed', t) = Since(passed, t) +
                   IF job[w].count <= RateLimit /\ t <= clock THEN 1 ELSE 0
              /\ Within(passed', t) \in Nat /\ Within(passed, t) \in Nat
              /\ Within(passed, t) <= Within(passed', t)
              /\ t < clock => Within(passed', t) = Within(passed, t)
<1> USE DEF ProxyInd
<1>1. passed' = IF job[w].count <= RateLimit THEN Append(passed, clock) ELSE passed
  BY DEF WriteCount, Decide
<1>2. /\ clock \in Nat /\ clock' = clock /\ passed \in Seq(Nat) /\ Window \in Nat
      /\ \A v \in Worker : job[v].count \in Nat /\ job[v].at \in Nat
      /\ RateLimit \in Nat /\ cell.n \in Nat /\ cell.exp \in Nat
  BY ProxyTypes DEF WriteCount
<1>3. ProxyTypeOK'
  <2>1. passed' \in Seq(Times)
    BY <1>1 DEF ProxyTypeOK
  <2>2. cell' \in [n : Nat, exp : Nat]
    <3>1. CASE cell' = [n |-> 1, exp |-> clock + Window]
      BY <1>2, <3>1
    <3>2. CASE cell' = [cell EXCEPT !.n = @ + 1]
      BY <3>2 DEF ProxyTypeOK
    <3>3. CASE cell' = cell
      BY <3>3 DEF ProxyTypeOK
    <3> QED BY <3>1, <3>2, <3>3 DEF WriteCount, SetCount, AddCount
  <2>3. job' \in [Worker -> [pc : {"idle", "write"}, count : Nat, at : Times]]
    BY ProxyAssumption DEF WriteCount, ProxyTypeOK, Free, Times
  <2>4. refused' \in [yes : BOOLEAN, at : Times]
    <3>1. job[w].at \in Times
      BY DEF ProxyTypeOK
    <3>2. \E b \in BOOLEAN : refused' = [yes |-> b, at |-> job[w].at]
      BY DEF WriteCount, Decide
    <3> QED BY <3>1, <3>2
  <2> QED BY <2>1, <2>2, <2>3, <2>4 DEF WriteCount, ProxyTypeOK
<1>4. Past'
  <2>1. \A i \in DOMAIN Append(passed, clock) : Append(passed, clock)[i] <= clock
    BY <1>2 DEF Past
  <2> QED BY <1>1, <1>2, <2>1 DEF Past
<1>5. passed' \in Seq(Nat)
  BY <1>1, <1>2
<1>6. ASSUME NEW t \in Int
      PROVE  /\ Since(passed', t) \in Nat /\ Since(passed, t) \in Nat
             /\ Since(passed', t) = Since(passed, t) +
                  IF job[w].count <= RateLimit /\ t <= clock THEN 1 ELSE 0
             /\ Within(passed', t) \in Nat /\ Within(passed, t) \in Nat
             /\ Within(passed, t) <= Within(passed', t)
             /\ t < clock => Within(passed', t) = Within(passed, t)
  <2>1. /\ Since(passed', t) \in Nat /\ Since(passed, t) \in Nat
        /\ Within(passed', t) \in Nat /\ Within(passed, t) \in Nat
    BY <1>2, <1>5, SinceTypes
  <2>2. CASE job[w].count <= RateLimit
    BY <1>1, <1>2, <2>1, <2>2, SinceAppend
  <2>3. CASE ~(job[w].count <= RateLimit)
    BY <1>1, <2>1, <2>3
  <2> QED BY <2>1, <2>2, <2>3
<1> QED BY <1>1, <1>3, <1>4, <1>5, <1>6

\* The parts of the invariant that only need requests to be added.
LEMMA WriteRest ==
  ASSUME ProxyInd, NEW w \in Worker, WriteCount(w), WindowOK'
  PROVE  JobsOK' /\ ProxyBound' /\ RefusalsOK' /\ RefusedOnlyAtLimit'
<1> USE DEF ProxyInd
<1>1. clock' = clock /\ clock \in Nat /\ \A v \in Worker : job[v].at \in Nat
  BY ProxyTypes DEF WriteCount
<1>2. JobsOK'
  BY WriteJobs DEF JobsOK, Free
<1>3. ProxyBound'
  <2>1. (ProxyTypeOK /\ Past /\ WindowOK
           => PassedWithin(clock) <=
              (Cardinality(Worker) + 1) * (RateLimit + Cardinality(Worker) - 1))'
    BY WindowBound, PTL
  <2>2. \A t \in 0 .. clock : t < clock => PassedWithin(t)' = PassedWithin(t)
    <3>1. \A t : PassedWithin(t)' = Within(passed', t) /\ PassedWithin(t) = Within(passed, t)
      BY DEF PassedWithin, Within
    <3> QED BY <1>1, <3>1, WritePassed
  <2>3. ProxyTypeOK' /\ Past'
    BY WritePassed
  <2>4. PassedWithin(clock)' <=
          (Cardinality(Worker) + 1) * (RateLimit + Cardinality(Worker) - 1)
    BY <2>1, <2>3
  <2> SUFFICES ASSUME NEW t \in 0 .. clock
               PROVE  PassedWithin(t)' <=
                        (Cardinality(Worker) + 1) * (RateLimit + Cardinality(Worker) - 1)
    BY <1>1 DEF ProxyBound
  <2>5. CASE t < clock
    BY <2>2, <2>5 DEF ProxyBound
  <2>6. CASE t = clock
    <3>1. PassedWithin(clock)' = PassedWithin(t)'
      BY <1>1, <2>6 DEF PassedWithin
    <3> QED BY <2>4, <3>1
  <2> QED BY <1>1, <2>5, <2>6
<1>4. RateLimit - (Workers - 1) \in Int
  BY WorkersPositive, ProxyAssumption
<1>5. RefusalsOK'
  <2> DEFINE C == {c \in Nat : c > RateLimit}
  <2> SUFFICES ASSUME NEW v \in Having(job', C)
               PROVE  RateLimit - (Workers - 1) <= Within(passed', job'[v].at)
    BY DEF RefusalsOK
  <2>1. v \in Having(job, C) /\ job'[v] = job[v] /\ job[v].at \in Nat
    BY <1>1, WriteJobs DEF Having, Free
  <2>2. RateLimit - (Workers - 1) <= Within(passed, job[v].at)
    BY <2>1 DEF RefusalsOK
  <2>3. /\ Within(passed, job[v].at) <= Within(passed', job[v].at)
        /\ Within(passed, job[v].at) \in Nat /\ Within(passed', job[v].at) \in Nat
    <3>1. job[v].at \in Int
      BY <2>1
    <3> QED BY <3>1, WritePassed
  <2> QED BY <1>4, <2>1, <2>2, <2>3
<1>6. RefusedOnlyAtLimit'
  <2>1. CASE job[w].count <= RateLimit
    BY <2>1 DEF WriteCount, Decide, RefusedOnlyAtLimit
  <2>2. CASE ~(job[w].count <= RateLimit)
    <3>1. w \in Having(job, {c \in Nat : c > RateLimit})
      BY <2>2, WriteJobs, ProxyAssumption DEF Having
    <3>2. RateLimit - (Workers - 1) <= Within(passed, job[w].at)
      BY <3>1 DEF RefusalsOK
    <3>3. refused'.at = job[w].at /\ passed' = passed
      BY <2>2 DEF WriteCount, Decide
    <3>4. PassedWithin(refused.at)' = Within(passed, job[w].at)
      BY <3>3 DEF PassedWithin, Within
    <3> QED BY <3>2, <3>4 DEF RefusedOnlyAtLimit, Workers
  <2> QED BY <2>1, <2>2
<1> QED BY <1>2, <1>3, <1>5, <1>6

\* A worker that saw no counter sets it: a new stretch begins.
LEMMA SetInd ==
  ASSUME ProxyInd, NEW w \in Worker, WriteCount(w), job[w].count = 1
  PROVE  ProxyInd'
<1> USE DEF ProxyInd
<1> DEFINE L == Left(cell.n, job)
           M == Left(1, job')
           t == clock - Window
<1>1. /\ clock \in Nat /\ Window \in Nat /\ RateLimit \in Nat /\ RateLimit > 0
      /\ cell.n \in Nat /\ clock' = clock /\ Workers \in Nat /\ Workers > 0
  BY ProxyTypes, WorkersPositive DEF WriteCount
<1>2. cell'.n = 1 /\ cell'.exp = clock + Window
  BY DEF WriteCount, SetCount
<1>3. /\ Setting(job') = Setting(job) - 1 /\ Setting(job') <= Workers - 1
      /\ Going(job') <= Workers - 1 /\ Above(job') <= Workers - 1
  BY WriteJobs
<1>4. /\ Setting(job) \in Nat /\ Setting(job) <= Workers /\ Setting(job') \in Nat
      /\ Going(job') \in Nat /\ Above(job') \in Nat /\ L \in Nat /\ M \in Nat
  BY <1>1, ClassTypes
<1>5. Share \in Nat /\ Share = RateLimit + Workers - 1
  BY <1>1 DEF Share
<1>6. M + 1 <= Share
  BY <1>1, <1>3, <1>4, <1>5 DEF Left
<1>7. \A u \in Int : u <= clock => Since(passed', u) = Since(passed, u) + 1
                                   /\ Since(passed, u) \in Nat
  BY <1>1, WritePassed
<1>8. CellOK'
  BY <1>1, <1>2 DEF CellOK
<1>9. StretchOK'
  <2>1. cell'.exp - Window + 1 = clock + 1
    BY <1>1, <1>2
  <2>2. Since(passed', clock + 1) = 0
    <3>1. Since(passed, clock + 1) = 0
      BY PastFacts
    <3>2. clock + 1 \in Int /\ ~(clock + 1 <= clock)
      BY <1>1
    <3> QED BY <3>1, <3>2, WritePassed
  <2> QED BY <1>2, <1>4, <1>5, <1>6, <2>1, <2>2 DEF StretchOK
<1>10. WindowOK'
  <2>1. Since(passed', t) = Since(passed, t) + 1 /\ Since(passed, t) \in Nat
    BY <1>1, <1>7
  <2>2. Since(passed', t) + M <= Quota(Setting(job'))
    <3>1. CASE cell.n = 0
      <4>1. Since(passed, t) + L <= Share
        BY <3>1 DEF WindowOK
      <4>2. 2 * Share <= Quota(Setting(job')) /\ Quota(Setting(job')) \in Nat
        BY <1>1, <1>3, <1>4, QuotaFacts
      <4> HIDE DEF L, M, t
      <4> QED BY <1>4, <1>5, <1>6, <2>1, <4>1, <4>2
    <3>2. CASE cell.n > 0
      <4>1. Since(passed, t) + L <= Quota(Setting(job))
        BY <1>1, <3>2 DEF WindowOK
      <4>2. /\ Quota(Setting(job')) = Quota(Setting(job)) + Share
            /\ Quota(Setting(job)) \in Nat
        BY <1>3, <1>4, QuotaFacts
      <4> HIDE DEF L, M, t
      <4> QED BY <1>4, <1>5, <1>6, <2>1, <4>1, <4>2
    <3> QED BY <1>1, <3>1, <3>2
  <2> QED BY <1>1, <1>2, <2>2 DEF WindowOK
<1>11. ChargeOK'
  <2>1. cell'.exp - Window = clock
    BY <1>1, <1>2
  <2>2. Since(passed', clock) >= 1 /\ Since(passed', clock) \in Nat
    BY <1>1, <1>7
  <2> QED BY <1>1, <1>2, <1>3, <1>4, <2>1, <2>2 DEF ChargeOK
<1> QED BY <1>8, <1>9, <1>10, <1>11, WriteRest, WritePassed

\* A worker that saw a counter adds to it, or finds it gone.
LEMMA AddInd ==
  ASSUME ProxyInd, NEW w \in Worker, WriteCount(w), job[w].count # 1
  PROVE  ProxyInd'
<1> USE DEF ProxyInd
<1> DEFINE n == cell.n
           d == IF job[w].count <= RateLimit THEN 1 ELSE 0
           L == Left(n, job)
           t == clock - Window
<1>1. /\ clock \in Nat /\ Window \in Nat /\ RateLimit \in Nat /\ RateLimit > 0
      /\ n \in Nat /\ cell.exp \in Nat /\ clock' = clock
      /\ Workers \in Nat /\ Workers > 0 /\ d \in {0, 1}
  BY ProxyTypes, WorkersPositive DEF WriteCount
<1>2. cell' = IF n = 0 THEN cell ELSE [cell EXCEPT !.n = @ + 1]
  BY DEF WriteCount, AddCount
<1>3. n > 0 => cell'.n = n + 1 /\ cell'.exp = cell.exp
  BY <1>2 DEF ProxyTypeOK
<1>4. /\ job[w].count \in Nat /\ job[w].count > 1
      /\ Setting(job') = Setting(job)
      /\ Going(job') = Going(job) - d /\ Going(job') <= Workers - 1
      /\ Above(job') = Above(job) - (1 - d)
  <2>1. Setting(job) \in Nat /\ Going(job) \in Nat /\ Above(job) \in Nat
    BY ClassTypes
  <2> QED BY <1>1, <2>1, WriteJobs
<1>5. /\ Setting(job) \in Nat /\ Setting(job) <= Workers
      /\ Going(job) \in Nat /\ Going(job') \in Nat
      /\ Above(job) \in Nat /\ Above(job') \in Nat
      /\ L \in Nat /\ Left(n + 1, job') \in Nat
  <2>1. n + 1 \in Nat
    BY <1>1
  <2> QED BY <1>1, <2>1, ClassTypes
<1>6. \A u \in Int : /\ Since(passed, u) \in Nat /\ Since(passed', u) \in Nat
                     /\ Since(passed', u) <= Since(passed, u) + d
                     /\ u <= clock => Since(passed', u) = Since(passed, u) + d
  <2>1. ASSUME NEW u \in Int
        PROVE  /\ Since(passed, u) \in Nat /\ Since(passed', u) \in Nat
               /\ Since(passed', u) = Since(passed, u) +
                    IF job[w].count <= RateLimit /\ u <= clock THEN 1 ELSE 0
    BY WritePassed
  <2> QED BY <1>1, <2>1
<1>7. /\ n = 0 => Left(cell'.n, job') + d = L
      /\ n > 0 => Left(cell'.n, job') + d <= L
      /\ Left(cell'.n, job') \in Nat
  <2>1. CASE n = 0
    BY <1>1, <1>2, <1>4, <1>5, <2>1 DEF Left
  <2>2. CASE n > 0
    BY <1>1, <1>3, <1>4, <1>5, <2>2, LeftAdd
  <2> QED BY <1>1, <2>1, <2>2
<1> HIDE DEF d, L
<1>8. CellOK'
  BY <1>1, <1>2, <1>3 DEF CellOK
<1>9. StretchOK'
  <2>1. CASE n = 0
    BY <1>2, <2>1 DEF StretchOK
  <2>2. CASE n > 0
    <3>1. Since(passed, cell.exp - Window + 1) + L <= Share
      BY <2>2 DEF StretchOK, L
    <3>2. cell.exp - Window + 1 \in Int /\ cell'.exp = cell.exp /\ Share \in Nat
      BY <1>1, <1>3, <2>2, QuotaFacts
    <3>3. Since(passed', cell.exp - Window + 1) + Left(cell'.n, job') <= Share
      BY <1>1, <1>5, <1>6, <1>7, <2>2, <3>1, <3>2
    <3> QED BY <3>2, <3>3 DEF StretchOK
  <2> QED BY <1>1, <2>1, <2>2
<1>10. WindowOK'
  <2>1. t \in Int /\ t <= clock /\ Share \in Nat /\ Quota(Setting(job)) \in Nat
    BY <1>1, <1>5, QuotaFacts
  <2>2. n = 0 <=> cell'.n = 0
    BY <1>1, <1>2, <1>3
  <2> DEFINE Q == IF n = 0 THEN Share ELSE Quota(Setting(job))
  <2>3. Since(passed, t) + L <= Q
    BY DEF WindowOK, L
  <2>4. Q \in Nat
    BY <2>1
  <2> HIDE DEF Q, t
  <2>5. Since(passed', t) + Left(cell'.n, job') <= Q
    BY <1>1, <1>5, <1>6, <1>7, <2>1, <2>3, <2>4
  <2> QED BY <1>1, <1>4, <2>2, <2>5 DEF WindowOK, Q, t
<1>11. ChargeOK'
  <2>1. CASE n = 0
    BY <1>2, <2>1 DEF ChargeOK
  <2>2. CASE n > 0
    <3> DEFINE u == cell.exp - Window
    <3>1. u \in Int /\ u <= clock /\ u = cell'.exp - Window
      BY <1>1, <1>3, <2>2 DEF CellOK
    <3>2. /\ Since(passed', u) = Since(passed, u) + d
          /\ Since(passed, u) \in Nat /\ Since(passed', u) \in Nat
      BY <1>6, <3>1
    <3>3. IF n < RateLimit THEN n <= Since(passed, u) + Workers - 1 - Above(job)
                           ELSE RateLimit - (Workers - 1) <= Since(passed, u)
      BY <2>2 DEF ChargeOK
    <3> HIDE DEF u
    <3>4. IF n + 1 < RateLimit
          THEN n + 1 <= Since(passed', u) + Workers - 1 - Above(job')
          ELSE RateLimit - (Workers - 1) <= Since(passed', u)
      BY <1>1, <1>4, <1>5, <3>2, <3>3
    <3> QED BY <1>3, <2>2, <3>1, <3>4 DEF ChargeOK
  <2> QED BY <1>1, <2>1, <2>2
<1> QED BY <1>8, <1>9, <1>10, <1>11, WriteRest, WritePassed

\* Every step of the limiter keeps the invariant.
LEMMA ProxyNextInd == ProxyInd /\ [ProxyNext]_pvars => ProxyInd'
<1> SUFFICES ASSUME ProxyInd, [ProxyNext]_pvars PROVE ProxyInd'
  OBVIOUS
<1>1. ASSUME NEW w \in Worker, WriteCount(w) PROVE ProxyInd'
  BY <1>1, SetInd, AddInd
<1>2. CASE UNCHANGED pvars
  BY <1>2
  DEF pvars, ProxyInd, ProxyTypeOK, Past, JobsOK, CellOK, StretchOK, WindowOK,
      ProxyBound, ChargeOK, RefusalsOK, RefusedOnlyAtLimit, PassedWithin
<1> QED BY <1>1, <1>2, ReadInd, TickInd DEF ProxyNext

-----------------------------------------------------------------------------

\* The variables of the proxy limiter always have their types.
THEOREM ProxyTypeInvariant == ProxySpec => []ProxyTypeOK
<1>1. ProxyInd => ProxyTypeOK
  BY DEF ProxyInd
<1> QED BY <1>1, ProxyInitInd, ProxyNextInd, PTL DEF ProxySpec

\* With W workers and a limit of L no Window holds more than (W + 1) * (L + W - 1)
\* requests let through, however reads, writes and expiries interleave.
THEOREM ProxyNeverAboveBound == ProxySpec => []ProxyBound
<1>1. ProxyInd => ProxyBound
  BY DEF ProxyInd
<1> QED BY <1>1, ProxyInitInd, ProxyNextInd, PTL DEF ProxySpec

\* A client is refused only if at least L - (W - 1) of its requests were let
\* through in the Window before: refusals do not keep it out.
THEOREM ProxyRefusesOnlyAtLimit == ProxySpec => []RefusedOnlyAtLimit
<1>1. ProxyInd => RefusedOnlyAtLimit
  BY DEF ProxyInd
<1> QED BY <1>1, ProxyInitInd, ProxyNextInd, PTL DEF ProxySpec
=============================================================================

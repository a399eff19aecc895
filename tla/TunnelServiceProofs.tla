------------------------ MODULE TunnelServiceProofs ------------------------
(***************************************************************************)
(* Proofs about TunnelService for every value of its constants: the        *)
(* inductive invariant Ind and what follows from it, and then that a clean *)
(* revocation is final.                                                    *)
(***************************************************************************)
EXTENDS TunnelService, FiniteSetTheorems, TLAPS

-----------------------------------------------------------------------------
(* Arithmetic of minutes and of times cut to the second.                   *)

\* Quotient and remainder of an integer by a positive one.
LEMMA Division ==
  ASSUME NEW s \in Nat \ {0}, NEW a \in Int
  PROVE  /\ a \div s \in Int /\ (a % s) \in 0 .. (s - 1)
         /\ a = s * (a \div s) + (a % s)
  OBVIOUS

\* Quotients are unique.
LEMMA Quotient ==
  ASSUME NEW s \in Nat \ {0}, NEW q \in Int, NEW r \in 0 .. (s - 1),
         NEW p \in Int, NEW u \in 0 .. (s - 1), s * q + r = s * p + u
  PROVE  q = p
<1>1. s * (q - p) = u - r /\ s * (p - q) = r - u
  OBVIOUS
<1>2. ASSUME q - p >= 1 PROVE FALSE
  <2>1. s * (q - p) >= s * 1 BY <1>2
  <2> QED BY <2>1, <1>1
<1>3. ASSUME p - q >= 1 PROVE FALSE
  <2>1. s * (p - q) >= s * 1 BY <1>3
  <2> QED BY <2>1, <1>1
<1> QED BY <1>2, <1>3

\* Adding a multiple of the divisor adds to the quotient.
LEMMA DivShift ==
  ASSUME NEW s \in Nat \ {0}, NEW a \in Int, NEW b \in Int
  PROVE  (a + s * b) \div s = (a \div s) + b
<1> DEFINE c == a + s * b
<1>0. c \in Int
  OBVIOUS
<1>1. a = s * (a \div s) + (a % s) /\ (a % s) \in 0 .. (s - 1) /\ a \div s \in Int
  BY Division
<1>2. c = s * (c \div s) + (c % s) /\ (c % s) \in 0 .. (s - 1) /\ c \div s \in Int
  BY Division, <1>0
<1>3. s * ((a \div s) + b) = s * (a \div s) + s * b
  BY <1>1
<1>4. c = s * ((a \div s) + b) + (a % s)
  BY <1>1, <1>3
<1>5. (a \div s) + b \in Int
  BY <1>1
<1>6. s * (c \div s) + (c % s) = s * ((a \div s) + b) + (a % s)
  BY <1>2, <1>4
<1> HIDE DEF c
<1>7. c \div s = (a \div s) + b
  BY <1>1, <1>2, <1>5, <1>6, Quotient, Zenon
<1> QED BY <1>7 DEF c

\* A whole number of minutes divided by a minute.
LEMMA WholeMinutes ==
  ASSUME NEW d \in Int
  PROVE  d * Minute \in Int /\ (d * Minute) \div Minute = d
<1>1. (0 + Minute * d) \div Minute = (0 \div Minute) + d
  BY DivShift, TimeAssumption
<1>2. 0 \div Minute = 0
  BY TimeAssumption
<1> QED BY <1>1, <1>2, TimeAssumption

\* Minutes add up when they are counted in ticks.
LEMMA MinutesAdd ==
  ASSUME NEW d \in Int, NEW m \in Int
  PROVE  d * Minute + m * Minute = (d + m) * Minute
  BY TimeAssumption

\* Counting minutes in ticks keeps their order.
LEMMA MinutesOrder ==
  ASSUME NEW d \in Int, NEW m \in Int
  PROVE  d * Minute <= m * Minute <=> d <= m
<1>1. ASSUME d <= m PROVE d * Minute <= m * Minute
  BY <1>1, TimeAssumption
<1>2. ASSUME m < d PROVE m * Minute < d * Minute
  BY <1>2, TimeAssumption
<1> QED BY <1>1, <1>2, TimeAssumption

\* A truncated time is no later than the time itself, and truncating it again
\* does nothing.
LEMMA TruncBounds ==
  ASSUME NEW t \in Int
  PROVE  Trunc(t) \in Int /\ Trunc(t) <= t /\ Trunc(Trunc(t)) = Trunc(t)
<1> DEFINE c == t \div Second
<1>1. c \in Int /\ Trunc(t) = Second * c /\ Trunc(t) \in Int /\ Trunc(t) <= t
  BY TimeAssumption, Division DEF Trunc
<1> HIDE DEF c
<1>2. (0 + Second * c) \div Second = (0 \div Second) + c
  BY <1>1, DivShift, TimeAssumption
<1>3. 0 \div Second = 0
  BY TimeAssumption
<1>4. (Second * c) \div Second = c
  BY <1>1, <1>2, <1>3, TimeAssumption
<1> QED BY <1>1, <1>4 DEF Trunc

\* A minute is a whole number of seconds: truncation commutes with adding
\* minutes, so both times of a record lose the same fraction.
LEMMA TruncShift ==
  ASSUME NEW t \in Int, NEW d \in Int
  PROVE  Trunc(t + d * Minute) = Trunc(t) + d * Minute
<1> DEFINE c == Minute \div Second
<1>1. c \in Int /\ Minute = Second * c
  BY TimeAssumption, Division
<1>2. d * Minute = Second * (c * d) /\ c * d \in Int
  BY <1>1, TimeAssumption
<1>3. (t + Second * (c * d)) \div Second = (t \div Second) + c * d
  BY DivShift, TimeAssumption, <1>2
<1>4. t \div Second \in Int
  BY TimeAssumption, Division
<1>5. Second * ((t \div Second) + c * d) = Second * (t \div Second) + Second * (c * d)
  BY <1>2, <1>4, TimeAssumption
<1> QED BY <1>2, <1>3, <1>5 DEF Trunc

\* A number of minutes that fits in a time.Duration is counted exactly; one
\* that does not is still a number.
LEMMA SpanExact ==
  ASSUME NEW m \in Int
  PROVE  Span(m) \in Int /\ (Fits(m) => Span(m) = m * Minute)
<1> DEFINE s == 2 * Wide
           x == m * Minute + Wide
<1>1. s \in Nat \ {0} /\ m * Minute \in Int /\ x \in Int /\ Wide \in Int
  BY TimeAssumption
<1>2. Span(m) = (x % s) - Wide
  BY DEF Span, Wrap
<1>3. x \div s \in Int /\ (x % s) \in 0 .. (s - 1) /\ x = s * (x \div s) + (x % s)
  <2> HIDE DEF s, x
  <2> QED BY <1>1, Division
<1>4. Span(m) \in Int
  BY <1>1, <1>2, <1>3
<1>5. ASSUME Fits(m) PROVE x % s = x
  <2>1. x \in 0 .. (s - 1)
    BY <1>1, <1>5 DEF Fits
  <2> HIDE DEF s, x
  <2>2. s * 0 + x = x
    BY <1>1
  <2>3. x \div s = 0
    BY <1>1, <1>3, <2>1, <2>2, Quotient
  <2> QED BY <1>1, <1>3, <2>3
<1> QED BY <1>1, <1>2, <1>4, <1>5

\* The minutes of a whole, positive number of minutes.
LEMMA MinutesExact ==
  ASSUME NEW d \in Int, d >= 0
  PROVE  Minutes(d * Minute) = d
<1>1. d * Minute >= 0
  BY TimeAssumption
<1> QED BY <1>1, WholeMinutes DEF Minutes

\* Whatever wrapped around, the minutes of a span are a number.
LEMMA MinutesType ==
  ASSUME NEW d \in Int
  PROVE  Minutes(d) \in Int
<1>1. d \div Minute \in Int /\ (-d) \div Minute \in Int
  BY Division, TimeAssumption
<1> QED BY <1>1 DEF Minutes

-----------------------------------------------------------------------------
(* The keyspace operations.                                                *)

\* DEL changes nothing but the key it names.
LEMMA RemoveFacts ==
  ASSUME NEW d, NEW k
  PROVE  /\ DOMAIN Remove(d, k) = DOMAIN d \ {k}
         /\ \A x \in DOMAIN Remove(d, k) : Remove(d, k)[x] = d[x]
  BY DEF Remove

\* An expiry drops keys and changes no entry that stays.
LEMMA PurgeFacts ==
  ASSUME NEW d, NEW t
  PROVE  /\ DOMAIN Purge(d, t) \subseteq DOMAIN d
         /\ \A x \in DOMAIN Purge(d, t) : Purge(d, t)[x] = d[x]
  BY DEF Purge

-----------------------------------------------------------------------------
(* The records the service computes.                                       *)

\* The TTL ttl, counted from time t, ends no earlier than the record r says.
Covers(r, ttl, t) ==
  IF r.dur = Unlimited THEN ttl = 0 ELSE ttl > 0 /\ r.expires <= t + ttl

\* What holds of every record in memory or in Redis.  The clauses about its
\* times need durations that can be counted in nanoseconds.
Sound(r) == Trunc(r.created) = r.created /\ (InputsFit => WithinCap(r))

\* A new record keeps the duration it was asked for, and the TTL that goes
\* with it ends no earlier than the record says.
LEMMA NewRecordOK ==
  ASSUME NEW i \in Nat, NEW d \in Requested, NEW t \in Nat, DurationAllowed(d)
  PROVE  LET r == NewRecord(i, d, t)
         IN  /\ r \in Record /\ r.id = i /\ Sound(r)
             /\ TTLOf(d) \in Int
             /\ InputsFit => Covers(r, TTLOf(d), t)
<1> DEFINE r == NewRecord(i, d, t)
<1>0. d \in Durations /\ d \in Int /\ d # 0 /\ Span(d) \in Int
  BY InputAssumption, SpanExact DEF Requested
<1>1. Trunc(t) \in Int /\ Trunc(t) <= t /\ Trunc(Trunc(t)) = Trunc(t)
  BY TruncBounds
<1>2. Trunc(t + Span(d)) \in Int
  BY <1>0, TruncBounds
<1>3. /\ r.dur = d /\ r.created = Trunc(t) /\ r.id = i /\ r \in Record
      /\ Trunc(r.created) = r.created /\ TTLOf(d) \in Int
  BY <1>0, <1>1, <1>2 DEF NewRecord, Record, TTLOf, Unlimited
<1>4. CASE d = Unlimited
  BY <1>3, <1>4 DEF WithinCap, Sound, Covers, TTLOf, DurationAllowed, Unlimited
<1>5. ASSUME d # Unlimited, InputsFit
      PROVE  WithinCap(r) /\ Covers(r, TTLOf(d), t)
  <2>1. Span(d) = d * Minute /\ d * Minute \in Int
    BY <1>0, <1>5, SpanExact, WholeMinutes DEF InputsFit
  <2>2. r.expires = Trunc(t) + d * Minute
    BY <1>0, <1>5, <2>1, TruncShift DEF NewRecord
  <2>3. d >= 1
    BY <1>0, <1>5, LimitAssumption DEF DurationAllowed, Unlimited
  <2>4. d * Minute > 0
    BY <1>0, <2>3, TimeAssumption
  <2> QED BY <1>1, <1>3, <1>5, <2>1, <2>2, <2>4
          DEF WithinCap, Covers, TTLOf, DurationAllowed
<1> QED BY <1>3, <1>4, <1>5 DEF Sound

\* An extension that passes the cap check adds exactly its minutes, and leaves
\* a positive time to live.
LEMMA ExtendedOK ==
  ASSUME NEW r \in Record, NEW m \in Extensions, NEW t \in Nat,
         Sound(r), InputsFit, ExtensionAllowed(r, m, t)
  PROVE  LET q == Extended(r, m)
         IN  /\ q.id = r.id /\ WithinCap(q) /\ q.dur = r.dur + m
             /\ Covers(q, NewEnd(r, m) - t, t)
<1> DEFINE q == Extended(r, m)
           e == NewEnd(r, m)
           d == r.dur + m
<1>1. /\ r.dur \in Int /\ r.created \in Int /\ r.expires \in Int /\ r.id \in Nat
      /\ r.dur # Unlimited /\ r.dur >= MinDuration
      /\ r.expires = r.created + r.dur * Minute /\ Trunc(r.created) = r.created
      /\ t <= r.expires
  BY DEF Record, Sound, WithinCap, ExtensionAllowed
<1>2. m \in Nat \ {0} /\ Span(m) = m * Minute
  BY InputAssumption, SpanExact DEF InputsFit
<1>3. d \in Int /\ d > 0 /\ d > MinDuration /\ d # Unlimited
  BY <1>1, <1>2, LimitAssumption DEF Unlimited
<1>4. e = r.created + d * Minute /\ d * Minute \in Int /\ e > r.expires
  <2>1. r.dur * Minute \in Int /\ m * Minute \in Int /\ d * Minute \in Int
    BY <1>1, <1>2, <1>3, WholeMinutes
  <2>2. r.dur * Minute + m * Minute = d * Minute
    BY <1>1, <1>2, MinutesAdd, m \in Int, Zenon
  <2>3. m * Minute > 0
    BY <1>2, TimeAssumption
  <2> QED BY <1>1, <1>2, <2>1, <2>2, <2>3 DEF NewEnd
<1>5. Trunc(e) = e
  BY <1>1, <1>3, <1>4, TruncShift
<1>6. Minutes(e - r.created) = d
  <2>1. e - r.created = d * Minute
    BY <1>1, <1>4
  <2> QED BY <1>3, <2>1, MinutesExact
<1>7. ASSUME MaxDuration # Unlimited PROVE d <= MaxDuration
  <2>1. MaxDuration \in Int /\ Span(MaxDuration) = MaxDuration * Minute
    BY <1>7, LimitAssumption, SpanExact DEF InputsFit, Unlimited
  <2>2. MaxDuration * Minute \in Int /\ e <= r.created + MaxDuration * Minute
    BY <1>7, <2>1, WholeMinutes DEF ExtensionAllowed
  <2>3. d * Minute <= MaxDuration * Minute
    BY <1>1, <1>4, <2>2
  <2> QED BY <1>3, <2>1, <2>3, MinutesOrder
<1> HIDE DEF e, d
<1>8. q = [r EXCEPT !.expires = e, !.dur = d]
  BY <1>5, <1>6 DEF Extended, e
<1>9. /\ q.id = r.id /\ q.created = r.created /\ q.dur = d /\ q.expires = e
  BY <1>8 DEF Record
<1>10. WithinCap(q)
  BY <1>3, <1>4, <1>7, <1>9, LimitAssumption DEF WithinCap
<1>11. Covers(q, e - t, t)
  BY <1>1, <1>3, <1>4, <1>9 DEF Covers
<1> QED BY <1>9, <1>10, <1>11 DEF e, d

\* An extension keeps the types and the truncated creation, whatever wraps.
LEMMA ExtendedType ==
  ASSUME NEW r \in Record, NEW m \in Extensions, NEW t \in Nat, Sound(r),
         ExtensionAllowed(r, m, t)
  PROVE  /\ Extended(r, m) \in Record /\ Sound(Extended(r, m))
         /\ NewEnd(r, m) - t \in Int
<1>1. m \in Int /\ Span(m) \in Int
  BY InputAssumption, SpanExact
<1>2. NewEnd(r, m) \in Int /\ r.created \in Int
  BY <1>1 DEF NewEnd, Record
<1>3. Trunc(NewEnd(r, m)) \in Int /\ Minutes(NewEnd(r, m) - r.created) \in Int
  BY <1>2, TruncBounds, MinutesType
<1>4. Extended(r, m) \in Record /\ Extended(r, m).created = r.created
  BY <1>3 DEF Extended, Record
<1> QED BY <1>2, <1>4, ExtendedOK DEF Sound

-----------------------------------------------------------------------------
(* The inductive invariant: types, what a request holds, what is stored.   *)

\* Redis keeps the entry as long as its record says.
Kept(e) ==
  IF e.val.dur = Unlimited THEN e.exp = Persist
  ELSE e.exp # Persist /\ e.val.expires <= e.exp

\* The keyspace: every record stored is well typed and sound.
StoredOK(d) ==
  /\ DOMAIN d \subseteq Keys
  /\ \A k \in DOMAIN d :
       /\ d[k] \in Entry
       /\ Sound(d[k].val)
       /\ InputsFit => Kept(d[k])

\* A request that is at o when the clock shows t: its type, and OpOK.
RequestOK(o, t) ==
  /\ o \in Operation
  /\ o.pc \in {"stamp", "store", "start", "rollback", "delete", "stop"}
       => o.key \in Keys
  /\ o.pc = "count" => o.act = "create_tcp"
  /\ o.pc = "pick" => o.act \in Creates
  /\ o.pc \in {"stamp", "store", "start", "rollback"}
       => o.act \in Creates \cup {"extend"}
  /\ o.act = "create_tcp" /\ o.pc \notin {"count", "pick"} => o.key \in Ports
  /\ o.pc \in {"start", "rollback"} => o.act = "create_tcp"
  /\ o.act \in Creates => o.min \in Requested /\ DurationAllowed(o.min)
  /\ o.act = "extend" => o.min \in Extensions
  /\ (o.pc = "store" \/ (o.pc = "stamp" /\ o.act = "extend")) => Sound(o.rec)
  /\ o.pc = "store" => (InputsFit => Covers(o.rec, o.ttl, t))

\* The other variables.
FrameOK ==
  /\ now \in Nat /\ listeners \subseteq Ports /\ nextId \in Nat \ {0}
  /\ revoked \subseteq Nat /\ raced \subseteq revoked

OpsOK == op = [p \in Proc |-> op[p]] /\ \A p \in Proc : RequestOK(op[p], now)

Ind == FrameOK /\ StoredOK(db) /\ OpsOK

\* What the inductive invariant says in terms of the properties of the runs.
LEMMA IndImplies ==
  ASSUME Ind
  PROVE  /\ TypeOK
         /\ InputsFit =>
              (\A p \in Proc : OpOK(p)) /\ LifetimeCap /\ TTLCoversRecord
<1>1. op \in [Proc -> Operation]
  BY DEF Ind, OpsOK, RequestOK
<1>2. TypeOK
  BY <1>1 DEF Ind, TypeOK, FrameOK, StoredOK
<1>3. InputsFit => LifetimeCap /\ TTLCoversRecord
  BY DEF Ind, StoredOK, Sound, Kept, LifetimeCap, TTLCoversRecord
<1>4. ASSUME InputsFit, NEW p \in Proc PROVE OpOK(p)
  <2>1. RequestOK(op[p], now)
    BY DEF Ind, OpsOK
  <2> QED BY <1>4, <2>1 DEF OpOK, RequestOK, Sound, Covers, Holds, At
<1> QED BY <1>2, <1>3, <1>4

\* SET keeps the stored records sound if the new record and its TTL are.
LEMMA StoredPut ==
  ASSUME NEW d, NEW k \in Keys, NEW r \in Record, NEW ttl \in Int, NEW t \in Nat,
         StoredOK(d), Sound(r), InputsFit => Covers(r, ttl, t)
  PROVE  StoredOK(Put(d, k, r, ttl, t))
<1> DEFINE e == Put(d, k, r, ttl, t)
<1>1. /\ DOMAIN e = DOMAIN d \cup {k}
      /\ e[k] = [val |-> r, exp |-> IF ttl > 0 THEN t + ttl ELSE Persist]
      /\ \A x \in DOMAIN d \ {k} : e[x] = d[x]
  BY DEF Put
<1>2. e[k] \in Entry
  BY <1>1 DEF Entry, Persist
<1>3. InputsFit => Kept(e[k])
  BY <1>1 DEF Persist, Covers, Kept
<1>4. Sound(e[k].val)
  BY <1>1
<1> HIDE DEF e
<1>5. DOMAIN e \subseteq Keys
  BY <1>1 DEF StoredOK
<1>6. ASSUME NEW x \in DOMAIN e
      PROVE  e[x] \in Entry /\ Sound(e[x].val) /\ (InputsFit => Kept(e[x]))
  <2>1. CASE x = k
    BY <1>2, <1>3, <1>4, <2>1
  <2>2. CASE x # k
    BY <1>1, <2>2 DEF StoredOK
  <2> QED BY <2>1, <2>2
<1>7. StoredOK(e)
  BY <1>5, <1>6 DEF StoredOK
<1> QED BY <1>7 DEF e

\* DEL keeps the stored records sound.
LEMMA StoredRemove ==
  ASSUME NEW d, NEW k, StoredOK(d)
  PROVE  StoredOK(Remove(d, k))
<1>1. /\ DOMAIN Remove(d, k) = DOMAIN d \ {k}
      /\ \A x \in DOMAIN Remove(d, k) : Remove(d, k)[x] = d[x]
  BY RemoveFacts
<1> QED BY <1>1 DEF StoredOK

\* An expiry keeps the stored records sound.
LEMMA StoredPurge ==
  ASSUME NEW d, NEW t, StoredOK(d)
  PROVE  StoredOK(Purge(d, t))
<1>1. /\ DOMAIN Purge(d, t) \subseteq DOMAIN d
      /\ \A x \in DOMAIN Purge(d, t) : Purge(d, t)[x] = d[x]
  BY PurgeFacts
<1> QED BY <1>1 DEF StoredOK

\* A goroutine that serves no request satisfies every clause.
LEMMA IdleOK ==
  ASSUME NEW t
  PROVE  RequestOK(Idle, t)
  BY DEF RequestOK, Idle, Begun, Operation, NoRecord, Record, Creates

\* A step of request p that takes it to o.
LEMMA OpStep ==
  ASSUME OpsOK, NEW p \in Proc, NEW o, op' = [op EXCEPT ![p] = o],
         now' = now, RequestOK(o, now)
  PROVE  OpsOK'
<1>1. \A q \in Proc : op'[q] = IF q = p THEN o ELSE op[q]
  BY DEF OpsOK
<1>2. op' = [q \in Proc |-> op'[q]]
  BY DEF OpsOK
<1> QED BY <1>1, <1>2 DEF OpsOK

\* A request that ends.
LEMMA FinishStep ==
  ASSUME OpsOK, NEW p \in Proc, Finish(p), now' = now
  PROVE  OpsOK'
  BY OpStep, IdleOK DEF Finish

\* A request that tries once more.
LEMMA AgainStep ==
  ASSUME OpsOK, NEW p \in Proc, Again(p), now' = now
  PROVE  OpsOK'
<1> DEFINE o == [op[p] EXCEPT !.n = @ + 1]
<1>1. op' = [op EXCEPT ![p] = o]
  BY DEF Again, OpsOK
<1>2. RequestOK(op[p], now)
  BY DEF OpsOK
<1>3. RequestOK(o, now)
  BY <1>2 DEF RequestOK, Operation
<1> HIDE DEF o
<1> QED BY <1>1, <1>3, OpStep

-----------------------------------------------------------------------------
(* The initial states, and one lemma for each action of Next.              *)

\* The service starts with an empty keyspace and no request.
LEMMA IndInit == Init => Ind
<1> SUFFICES ASSUME Init PROVE Ind
  OBVIOUS
<1>1. FrameOK
  BY DEF Init, FrameOK
<1>2. StoredOK(db)
  BY DEF Init, StoredOK, EmptyKeyspace
<1>3. OpsOK
  BY IdleOK DEF Init, OpsOK
<1> QED BY <1>1, <1>2, <1>3 DEF Ind

\* A step that writes neither db, clock nor listeners.
LEMMA LocalStep ==
  ASSUME Ind, OpsOK', UNCHANGED <<now, db, listeners, nextId, history>>
  PROVE  Ind'
<1>1. FrameOK'
  BY DEF Ind, FrameOK, history
<1> QED BY <1>1 DEF Ind

\* CreateTunnel: an admitted HTTP create has an allowed duration.
LEMMA CreateTunnelInd ==
  ASSUME Ind, NEW p \in Proc, NEW d \in Requested, CreateTunnel(p, d)
  PROVE  Ind'
<1> DEFINE o == Begun("pick", "create_http", NoKey, d, NoRecord, 0)
<1>1. op' = [op EXCEPT ![p] = o] /\ DurationAllowed(d)
        /\ UNCHANGED <<now, db, listeners, nextId, history>>
  BY DEF CreateTunnel, Begin
<1>2. RequestOK(o, now)
  <2>1. d \in Int /\ NoRecord \in Record
    BY InputAssumption DEF NoRecord, Record, Requested
  <2>2. o \in Operation
    BY <2>1 DEF Operation, Creates, Begun
  <2> QED BY <1>1, <2>2 DEF RequestOK, Creates, Begun
<1>3. OpsOK'
  BY <1>1, <1>2, OpStep DEF Ind
<1> QED BY <1>1, <1>3, LocalStep

\* CreateTCPTunnel: likewise, with the count of HTTP tunnels in memory.
LEMMA CreateTCPTunnelInd ==
  ASSUME Ind, NEW p \in Proc, NEW d \in Requested, CreateTCPTunnel(p, d)
  PROVE  Ind'
<1> DEFINE c == CountKeys(db, Subdomains)
           o == Begun("count", "create_tcp", NoKey, d, NoRecord, c)
<1>1. op' = [op EXCEPT ![p] = o] /\ DurationAllowed(d)
        /\ UNCHANGED <<now, db, listeners, nextId, history>>
  BY DEF CreateTCPTunnel, Begin
<1>2. c \in Nat
  <2>1. IsFiniteSet(DOMAIN db \cap Subdomains)
    BY KeyAssumption, FS_Subset
  <2> QED BY <2>1, FS_CardinalityType DEF CountKeys
<1> HIDE DEF c
<1>3. RequestOK(o, now)
  <2>1. d \in Int /\ NoRecord \in Record
    BY InputAssumption DEF NoRecord, Record, Requested
  <2>2. o \in Operation
    BY <1>2, <2>1 DEF Operation, Creates, Begun
  <2> QED BY <1>1, <2>2 DEF RequestOK, Creates, Begun
<1>4. OpsOK'
  BY <1>1, <1>3, OpStep DEF Ind
<1> QED BY <1>1, <1>4, LocalStep

\* CountTCP: the second scan, and the decision.
LEMMA CountTCPInd ==
  ASSUME Ind, NEW p \in Proc, CountTCP(p)
  PROVE  Ind'
<1>1. RequestOK(op[p], now) /\ OpsOK /\ op[p].pc = "count"
        /\ UNCHANGED <<now, db, listeners, nextId, history>>
  BY DEF Ind, OpsOK, CountTCP, At
<1>2. CASE Finish(p)
  BY <1>1, <1>2, FinishStep, LocalStep
<1>3. CASE Goto(p, "pick")
  <2> DEFINE o == [op[p] EXCEPT !.pc = "pick", !.n = 0]
  <2>1. op' = [op EXCEPT ![p] = o]
    BY <1>3 DEF Goto, Ind, OpsOK
  <2>2. RequestOK(o, now)
    BY <1>1 DEF RequestOK, Operation, Creates
  <2> QED BY <1>1, <2>1, <2>2, OpStep, LocalStep
<1> QED BY <1>2, <1>3 DEF CountTCP

\* PickFree: the key chosen is a subdomain or a port.
LEMMA PickFreeInd ==
  ASSUME Ind, NEW p \in Proc, NEW k \in Keys, PickFree(p, k)
  PROVE  Ind'
<1> DEFINE o == [op[p] EXCEPT !.pc = "stamp", !.key = k, !.n = 0]
<1>1. RequestOK(op[p], now) /\ OpsOK /\ op[p].pc = "pick" /\ k \in Candidates(p)
        /\ UNCHANGED <<now, db, listeners, nextId, history>>
  BY DEF Ind, OpsOK, PickFree, At
<1>2. op' = [op EXCEPT ![p] = o]
  BY DEF PickFree, Ind, OpsOK
<1>3. RequestOK(o, now)
  BY <1>1 DEF RequestOK, Operation, Creates, Candidates, Keys
<1> QED BY <1>1, <1>2, <1>3, OpStep, LocalStep

\* PickTaken: another attempt, or the end.
LEMMA PickTakenInd ==
  ASSUME Ind, NEW p \in Proc, NEW k \in Keys, PickTaken(p, k)
  PROVE  Ind'
<1>1. (Again(p) \/ Finish(p)) /\ UNCHANGED <<now, db, listeners, nextId, history>>
  BY DEF PickTaken
<1> QED BY <1>1, AgainStep, FinishStep, LocalStep DEF Ind

\* StampNew: the new record is sound when it is written into memory.
LEMMA StampNewInd ==
  ASSUME Ind, NEW p \in Proc, StampNew(p)
  PROVE  Ind'
<1> DEFINE r == NewRecord(nextId, op[p].min, now)
           o == [op[p] EXCEPT !.pc = "store", !.rec = r, !.ttl = TTLOf(op[p].min)]
<1>1. /\ RequestOK(op[p], now) /\ FrameOK /\ op[p].pc = "stamp"
      /\ op[p].act \in Creates /\ nextId' = nextId + 1
      /\ UNCHANGED <<now, db, listeners, history>>
  BY DEF Ind, OpsOK, StampNew, At
<1>2. op' = [op EXCEPT ![p] = o]
  BY DEF StampNew, Ind, OpsOK
<1>3. /\ op[p].min \in Requested /\ DurationAllowed(op[p].min)
      /\ now \in Nat /\ nextId \in Nat
  BY <1>1 DEF RequestOK, FrameOK
<1>4. /\ r \in Record /\ Sound(r) /\ TTLOf(op[p].min) \in Int
      /\ InputsFit => Covers(r, TTLOf(op[p].min), now)
  BY <1>3, NewRecordOK
<1> HIDE DEF r
<1>5. RequestOK(o, now)
  BY <1>1, <1>4 DEF RequestOK, Operation, Creates
<1>6. OpsOK'
  BY <1>1, <1>2, <1>5, OpStep DEF Ind
<1>7. FrameOK'
  BY <1>1 DEF FrameOK, history
<1> QED BY <1>1, <1>6, <1>7 DEF Ind

\* ExtendTunnel: the record read was sound where it was stored.
LEMMA ExtendTunnelInd ==
  ASSUME Ind, NEW p \in Proc, NEW k \in Keys, NEW m \in Extensions,
         ExtendTunnel(p, k, m)
  PROVE  Ind'
<1> DEFINE o == Begun("stamp", "extend", k, m, db[k].val, 0)
<1>1. /\ op' = [op EXCEPT ![p] = o] /\ k \in DOMAIN db
      /\ UNCHANGED <<now, db, listeners, nextId, history>>
  BY DEF ExtendTunnel, Exists, Begin
<1>2. db[k].val \in Record /\ Sound(db[k].val)
  BY <1>1 DEF Ind, StoredOK, Entry
<1>3. RequestOK(o, now)
  <2>1. m \in Int
    BY InputAssumption
  <2>2. o \in Operation
    BY <1>2, <2>1 DEF Operation, Creates, Begun
  <2> QED BY <1>2, <2>1, <2>2 DEF RequestOK, Creates, Begun
<1>4. OpsOK'
  BY <1>1, <1>3, OpStep DEF Ind
<1> QED BY <1>1, <1>4, LocalStep

\* StampExtension: a stale record that passes the checks stays sound.
LEMMA StampExtensionInd ==
  ASSUME Ind, NEW p \in Proc, StampExtension(p)
  PROVE  Ind'
<1>1. /\ RequestOK(op[p], now) /\ OpsOK /\ op[p].pc = "stamp" /\ now \in Nat
      /\ op[p].act = "extend" /\ UNCHANGED <<now, db, listeners, nextId, history>>
  BY DEF Ind, OpsOK, FrameOK, StampExtension, At
<1>2. CASE ~ExtensionAllowed(op[p].rec, op[p].min, now)
  BY <1>1, <1>2, FinishStep, LocalStep DEF StampExtension
<1>3. CASE ExtensionAllowed(op[p].rec, op[p].min, now)
  <2> DEFINE r == Extended(op[p].rec, op[p].min)
             ttl == NewEnd(op[p].rec, op[p].min) - now
             o == [op[p] EXCEPT !.pc = "store", !.rec = r, !.ttl = ttl]
  <2>1. op' = [op EXCEPT ![p] = o]
    BY <1>3 DEF StampExtension, Ind, OpsOK
  <2>2. op[p].rec \in Record /\ Sound(op[p].rec) /\ op[p].min \in Extensions
    BY <1>1 DEF RequestOK, Operation
  <2>3. r \in Record /\ Sound(r) /\ ttl \in Int
    BY <1>1, <1>3, <2>2, ExtendedType
  <2>4. InputsFit => Covers(r, ttl, now)
    BY <1>1, <1>3, <2>2, ExtendedOK
  <2> HIDE DEF r, ttl
  <2>5. RequestOK(o, now)
    BY <1>1, <2>3, <2>4 DEF RequestOK, Operation, Creates
  <2> QED BY <1>1, <2>1, <2>5, OpStep, LocalStep
<1> QED BY <1>2, <1>3

\* A request that goes on to another point of its code.
LEMMA GotoStep ==
  ASSUME OpsOK, NEW p \in Proc, NEW pc, Goto(p, pc), now' = now,
         RequestOK([op[p] EXCEPT !.pc = pc, !.n = 0], now)
  PROVE  OpsOK'
<1> DEFINE o == [op[p] EXCEPT !.pc = pc, !.n = 0]
<1>1. op' = [op EXCEPT ![p] = o]
  BY DEF Goto, OpsOK
<1> HIDE DEF o
<1> QED BY <1>1, OpStep DEF o

\* Writing the record a request holds at "store".
LEMMA StoredStep ==
  ASSUME Ind, NEW p \in Proc, At(p, "store"), Stored(p)
  PROVE  StoredOK(db')
<1>1. RequestOK(op[p], now) /\ op[p].pc = "store" /\ StoredOK(db) /\ now \in Nat
  BY DEF Ind, OpsOK, FrameOK, At
<1>2. /\ op[p].key \in Keys /\ op[p].rec \in Record /\ op[p].ttl \in Int
      /\ Sound(op[p].rec) /\ (InputsFit => Covers(op[p].rec, op[p].ttl, now))
  BY <1>1 DEF RequestOK, Operation
<1> QED BY <1>1, <1>2, StoredPut DEF Stored

\* A step that writes the keyspace and its own request.
LEMMA KeyspaceStep ==
  ASSUME Ind, OpsOK', StoredOK(db'), UNCHANGED <<now, listeners, nextId, history>>
  PROVE  Ind'
<1>1. FrameOK'
  BY DEF Ind, FrameOK, history
<1> QED BY <1>1 DEF Ind

\* Store: the record that reaches Redis is the one that was sound in memory.
LEMMA StoreInd ==
  ASSUME Ind, NEW p \in Proc, Store(p)
  PROVE  Ind'
<1>1. /\ At(p, "store") /\ Stored(p) /\ UNCHANGED <<now, listeners, nextId, history>>
      /\ RequestOK(op[p], now) /\ op[p].pc = "store" /\ OpsOK
  BY DEF Store, At, Ind, OpsOK
<1>2. StoredOK(db')
  BY <1>1, StoredStep
<1>3. CASE op[p].act = "create_tcp"
  <2>1. Goto(p, "start")
    BY <1>3 DEF Store
  <2>2. RequestOK([op[p] EXCEPT !.pc = "start", !.n = 0], now)
    BY <1>1, <1>3 DEF RequestOK, Operation, Creates
  <2> QED BY <1>1, <1>2, <2>1, <2>2, GotoStep, KeyspaceStep
<1>4. CASE op[p].act # "create_tcp"
  BY <1>1, <1>2, <1>4, FinishStep, KeyspaceStep DEF Store
<1> QED BY <1>3, <1>4

\* StoreLost: the same write, and the request may repeat it later.
LEMMA StoreLostInd ==
  ASSUME Ind, NEW p \in Proc, StoreLost(p)
  PROVE  Ind'
<1>1. /\ At(p, "store") /\ Stored(p) /\ UNCHANGED <<now, listeners, nextId, history>>
      /\ (Again(p) \/ Finish(p)) /\ OpsOK
  BY DEF StoreLost, Ind
<1>2. StoredOK(db')
  BY <1>1, StoredStep
<1>3. OpsOK'
  BY <1>1, AgainStep, FinishStep
<1> QED BY <1>1, <1>2, <1>3, KeyspaceStep

\* A step that writes the listener table and its own request.
LEMMA ListenerStep ==
  ASSUME Ind, OpsOK', listeners' \subseteq Ports, UNCHANGED <<now, db, nextId, history>>
  PROVE  Ind'
<1>1. FrameOK'
  BY DEF Ind, FrameOK, history
<1> QED BY <1>1 DEF Ind

\* StartProxy: only a TCP port enters the listener table.
LEMMA StartProxyInd ==
  ASSUME Ind, NEW p \in Proc, StartProxy(p)
  PROVE  Ind'
<1>1. /\ listeners' = listeners \cup {op[p].key} /\ Finish(p)
      /\ UNCHANGED <<now, db, nextId, history>> /\ op[p].pc = "start"
      /\ OpsOK /\ FrameOK /\ RequestOK(op[p], now)
  BY DEF StartProxy, At, Ind, OpsOK
<1>2. op[p].key \in Ports
  BY <1>1 DEF RequestOK
<1>3. listeners' \subseteq Ports
  BY <1>1, <1>2 DEF FrameOK
<1> QED BY <1>1, <1>3, FinishStep, ListenerStep

\* ListenFails: the request goes on to its rollback.
LEMMA ListenFailsInd ==
  ASSUME Ind, NEW p \in Proc, ListenFails(p)
  PROVE  Ind'
<1>1. /\ Goto(p, "rollback") /\ UNCHANGED <<now, db, listeners, nextId, history>>
      /\ OpsOK /\ RequestOK(op[p], now) /\ op[p].pc = "start"
  BY DEF ListenFails, At, Ind, OpsOK
<1>2. RequestOK([op[p] EXCEPT !.pc = "rollback", !.n = 0], now)
  BY <1>1 DEF RequestOK, Operation, Creates
<1> QED BY <1>1, <1>2, GotoStep, LocalStep

\* Rollback: the record is deleted or, if the DEL failed, left.
LEMMA RollbackInd ==
  ASSUME Ind, NEW p \in Proc, Rollback(p)
  PROVE  Ind'
<1>1. /\ (db' = db \/ db' = Remove(db, op[p].key)) /\ Finish(p)
      /\ UNCHANGED <<now, listeners, nextId, history>> /\ OpsOK /\ StoredOK(db)
  BY DEF Rollback, Ind
<1>2. StoredOK(db')
  BY <1>1, StoredRemove
<1> QED BY <1>1, <1>2, FinishStep, KeyspaceStep

\* DeleteTunnel: the key it found is one of the service's.
LEMMA DeleteTunnelInd ==
  ASSUME Ind, NEW p \in Proc, NEW k \in Keys, DeleteTunnel(p, k)
  PROVE  Ind'
<1> DEFINE o == Begun("delete", "delete", k, 0, NoRecord, 0)
<1>1. op' = [op EXCEPT ![p] = o] /\ UNCHANGED <<now, db, listeners, nextId, history>>
  BY DEF DeleteTunnel, Begin
<1>2. RequestOK(o, now)
  BY DEF RequestOK, Operation, NoRecord, Record, Creates, Begun
<1> QED BY <1>1, <1>2, OpStep, LocalStep DEF Ind

\* The request goes on to stop the listener, or is over.
LEMMA AfterDelete ==
  ASSUME Ind, NEW p \in Proc, op[p].pc = "delete", now' = now,
         IF op[p].key \in Ports THEN Goto(p, "stop") ELSE Finish(p)
  PROVE  OpsOK'
<1>1. OpsOK /\ RequestOK(op[p], now)
  BY DEF Ind, OpsOK
<1>2. RequestOK([op[p] EXCEPT !.pc = "stop", !.n = 0], now)
  BY <1>1 DEF RequestOK, Operation, Creates
<1> QED BY <1>1, <1>2, GotoStep, FinishStep

\* Delete: the history variables grow by names already given.
LEMMA DeleteInd ==
  ASSUME Ind, NEW p \in Proc, Delete(p)
  PROVE  Ind'
<1> DEFINE gone == IF Exists(db, op[p].key) THEN {db[op[p].key].val.id} ELSE {}
<1>1. /\ revoked' = revoked \cup gone
      /\ raced' = raced \cup {i \in gone : Holders(i) # {}}
      /\ db' = Remove(db, op[p].key) /\ op[p].pc = "delete"
      /\ UNCHANGED <<now, listeners, nextId>>
  BY DEF Delete, At
<1>2. gone \subseteq Nat
  BY DEF Ind, StoredOK, Exists, Entry, Record
<1> HIDE DEF gone
<1>3. FrameOK'
  BY <1>1, <1>2 DEF Ind, FrameOK
<1>4. StoredOK(db')
  BY <1>1, StoredRemove DEF Ind
<1>5. OpsOK'
  BY <1>1, AfterDelete DEF Delete
<1> QED BY <1>3, <1>4, <1>5 DEF Ind

\* DeleteLost: the deletion without its reply.
LEMMA DeleteLostInd ==
  ASSUME Ind, NEW p \in Proc, DeleteLost(p)
  PROVE  Ind'
<1>1. /\ db' = Remove(db, op[p].key) /\ (Again(p) \/ Finish(p))
      /\ UNCHANGED <<now, listeners, nextId, history>> /\ OpsOK /\ StoredOK(db)
  BY DEF DeleteLost, Ind
<1>2. StoredOK(db')
  BY <1>1, StoredRemove
<1> QED BY <1>1, <1>2, AgainStep, FinishStep, KeyspaceStep

\* StopProxy: the listener table shrinks.
LEMMA StopProxyInd ==
  ASSUME Ind, NEW p \in Proc, StopProxy(p)
  PROVE  Ind'
<1>1. /\ listeners' \subseteq Ports /\ Finish(p) /\ OpsOK
      /\ UNCHANGED <<now, db, nextId, history>>
  BY DEF StopProxy, Ind, FrameOK
<1> QED BY <1>1, FinishStep, ListenerStep

\* RedisError: the request ends and nothing was changed.
LEMMA RedisErrorInd ==
  ASSUME Ind, NEW p \in Proc, RedisError(p)
  PROVE  Ind'
<1>1. Finish(p) /\ UNCHANGED <<now, db, listeners, nextId, history>> /\ OpsOK
  BY DEF RedisError, Ind
<1> QED BY <1>1, FinishStep, LocalStep

\* The clock only moves forward, so what a request holds stays sound.
LEMMA TickInd ==
  ASSUME Ind, Tick
  PROVE  Ind'
<1>1. /\ now' = now + 1 /\ db' = Purge(db, now') /\ now \in Nat /\ StoredOK(db)
      /\ UNCHANGED <<listeners, op, nextId, history>> /\ OpsOK
  BY DEF Tick, Ind, FrameOK
<1>2. StoredOK(db')
  BY <1>1, StoredPurge
<1>3. ASSUME NEW p \in Proc PROVE RequestOK(op[p], now')
  <2>1. RequestOK(op[p], now)
    BY <1>1 DEF OpsOK
  <2>2. op[p].pc = "store" =>
          op[p].rec.expires \in Int /\ op[p].ttl \in Int
    BY <2>1 DEF RequestOK, Operation, Record
  <2>3. op[p].pc = "store" /\ Covers(op[p].rec, op[p].ttl, now)
          => Covers(op[p].rec, op[p].ttl, now')
    BY <1>1, <2>2 DEF Covers
  <2> QED BY <2>1, <2>3 DEF RequestOK
<1>4. OpsOK'
  BY <1>1, <1>3 DEF OpsOK
<1>5. FrameOK'
  BY <1>1 DEF Ind, FrameOK, history
<1> QED BY <1>2, <1>4, <1>5 DEF Ind

\* Evict: Redis drops a key by itself.
LEMMA EvictInd ==
  ASSUME Ind, NEW k \in Keys, Evict(k)
  PROVE  Ind'
<1>1. /\ db' = Remove(db, k) /\ StoredOK(db)
      /\ UNCHANGED <<now, listeners, op, nextId, history>>
  BY DEF Evict, Ind
<1>2. StoredOK(db')
  BY <1>1, StoredRemove
<1> QED BY <1>1, <1>2 DEF Ind, OpsOK, FrameOK, history

-----------------------------------------------------------------------------
(* The theorems.                                                           *)

\* Every step of the service keeps the invariant.
LEMMA IndNext == Ind /\ [Next]_vars => Ind'
<1> SUFFICES ASSUME Ind, [Next]_vars PROVE Ind'
  OBVIOUS
<1>1. ASSUME NEW p \in Proc, Request(p, Keys) PROVE Ind'
  BY <1>1, CreateTCPTunnelInd, ExtendTunnelInd, DeleteTunnelInd DEF Request
<1>2. ASSUME NEW p \in Proc, NEW d \in Requested, CreateTunnel(p, d) PROVE Ind'
  BY <1>2, CreateTunnelInd
<1>3. ASSUME NEW p \in Proc, Progress(p) PROVE Ind'
  BY <1>3, CountTCPInd, PickFreeInd, PickTakenInd, StampNewInd, StampExtensionInd,
     StoreInd, StartProxyInd, RollbackInd, DeleteInd, StopProxyInd DEF Progress
<1>4. ASSUME NEW p \in Proc, Failure(p) PROVE Ind'
  BY <1>4, StoreLostInd, DeleteLostInd, ListenFailsInd, RedisErrorInd DEF Failure
<1>5. CASE Tick
  BY <1>5, TickInd
<1>6. ASSUME NEW k \in Keys, Evict(k) PROVE Ind'
  BY <1>6, EvictInd
<1>7. CASE UNCHANGED vars
  BY <1>7 DEF Ind, OpsOK, FrameOK, vars
<1> QED BY <1>1, <1>2, <1>3, <1>4, <1>5, <1>6, <1>7 DEF Next

\* Ind holds in every reachable state, whatever the constants.
THEOREM IndInvariant == Spec => []Ind
<1> QED BY IndInit, IndNext, PTL DEF Spec

\* Type correctness of the tunnel service.
THEOREM TypeInvariant == Spec => []TypeOK
<1>1. Ind => TypeOK
  BY IndImplies
<1> QED BY <1>1, IndInvariant, PTL

\* However requests race, no stored tunnel outlives MAX_TUNNEL_DURATION, and
\* its expiry is its creation plus the duration its record shows, as long as
\* no duration asked for wraps around when it is counted in nanoseconds.
THEOREM LifetimeNeverExceedsCap == Spec => [](InputsFit => LifetimeCap)
<1>1. Ind => (InputsFit => LifetimeCap)
  BY IndImplies
<1> QED BY <1>1, IndInvariant, PTL

\* Redis keeps every tunnel at least until the expires_at its client was told,
\* and keeps for ever exactly the unlimited ones, under the same condition.
THEOREM RedisKeepsPromise == Spec => [](InputsFit => TTLCoversRecord)
<1>1. Ind => (InputsFit => TTLCoversRecord)
  BY IndImplies
<1> QED BY <1>1, IndInvariant, PTL

-----------------------------------------------------------------------------
(* A clean revocation is final.  The argument follows a tunnel's name      *)
(* wherever it is: in the record stored under a key, or in a record a      *)
(* request holds and may still write there.  Only StampNew puts a name     *)
(* somewhere new, and that name is fresh; so once a deletion found no      *)
(* holder, the name is nowhere and stays nowhere.                          *)

StoredAt(d, i, k) == k \in DOMAIN d /\ d[k].val.id = i

HeldAt(o, i, k) ==
  /\ o.pc = "store" \/ (o.pc = "stamp" /\ o.act = "extend")
  /\ o.rec.id = i /\ o.key = k

\* Tunnel i is stored under k or a request holds it for k.
Located(i, k) == StoredAt(db, i, k) \/ \E p \in Proc : HeldAt(op[p], i, k)

\* A name that can still be written was not revoked cleanly, belongs to one
\* key, and was given out.
RevInd ==
  /\ \A i \in Nat, k \in Keys :
       Located(i, k) => i < nextId /\ (i \in revoked => i \in raced)
  /\ \A i \in Nat, k, l \in Keys : Located(i, k) /\ Located(i, l) => k = l
  /\ \A i \in revoked : i < nextId

\* RevInd contains the property to be proved.
LEMMA RevImplies ==
  ASSUME Ind, RevInd
  PROVE  CleanRevocationIsFinal
<1>1. ASSUME NEW k \in DOMAIN db PROVE db[k].val.id \notin revoked \ raced
  <2>1. k \in Keys /\ db[k].val.id \in Nat
    BY DEF Ind, StoredOK, Entry, Record
  <2>2. Located(db[k].val.id, k)
    BY DEF Located, StoredAt
  <2> QED BY <2>1, <2>2 DEF RevInd
<1> QED BY <1>1 DEF CleanRevocationIsFinal

\* RevInd says of the names in memory what IdsOK does.
LEMMA RevIds ==
  ASSUME Ind, RevInd
  PROVE  IdsOK
<1>1. ASSUME NEW k \in DOMAIN db PROVE db[k].val.id < nextId
  <2>1. k \in Keys /\ db[k].val.id \in Nat /\ Located(db[k].val.id, k)
    BY DEF Ind, StoredOK, Entry, Record, Located, StoredAt
  <2> QED BY <2>1 DEF RevInd
<1>2. ASSUME NEW p \in Proc, Holds(p)
      PROVE  /\ op[p].rec.id < nextId
             /\ op[p].rec.id \in revoked => op[p].rec.id \in raced
  <2> DEFINE o == op[p]
  <2>1. RequestOK(o, now) /\ (o.pc = "store" \/ (o.pc = "stamp" /\ o.act = "extend"))
    BY <1>2 DEF Ind, OpsOK, Holds, At
  <2>2. o.key \in Keys /\ o.rec.id \in Nat
    BY <2>1 DEF RequestOK, Operation, Record
  <2>3. Located(o.rec.id, o.key)
    BY <2>1 DEF Located, HeldAt
  <2> QED BY <2>2, <2>3 DEF RevInd
<1> QED BY <1>1, <1>2 DEF IdsOK, RevInd

-----------------------------------------------------------------------------
(* Where names go when the keyspace or a request changes.                  *)

\* A record that is stored after a DEL was stored before, under another key.
LEMMA StoredAtRemove ==
  ASSUME NEW d, NEW x, NEW i, NEW k, StoredAt(Remove(d, x), i, k)
  PROVE  StoredAt(d, i, k) /\ k # x
  BY DEF StoredAt, Remove

\* A record that is stored after an expiry was stored before.
LEMMA StoredAtPurge ==
  ASSUME NEW d, NEW t, NEW i, NEW k, StoredAt(Purge(d, t), i, k)
  PROVE  StoredAt(d, i, k)
  BY DEF StoredAt, Purge

\* A record that is stored after a SET is the new one or was stored before.
LEMMA StoredAtPut ==
  ASSUME NEW d, NEW x, NEW r, NEW ttl, NEW t, NEW i, NEW k,
         StoredAt(Put(d, x, r, ttl, t), i, k)
  PROVE  StoredAt(d, i, k) \/ (k = x /\ i = r.id)
  BY DEF StoredAt, Put

\* Nobody holds a tunnel that was not located before.
HeldBefore ==
  \A q \in Proc, i \in Nat, k \in Keys : HeldAt(op[q], i, k)' => Located(i, k)

\* A request that moves to o holds only what o holds.
LEMMA HeldStep ==
  ASSUME Ind, NEW p \in Proc, NEW o, op' = [op EXCEPT ![p] = o],
         \A i \in Nat, k \in Keys : HeldAt(o, i, k) => Located(i, k)
  PROVE  HeldBefore
<1>1. \A q \in Proc : op'[q] = IF q = p THEN o ELSE op[q]
  BY DEF Ind, OpsOK
<1>2. ASSUME NEW q \in Proc, NEW i \in Nat, NEW k \in Keys, HeldAt(op'[q], i, k)
      PROVE  Located(i, k)
  <2>1. CASE q = p
    BY <1>1, <1>2, <2>1
  <2>2. CASE q # p
    BY <1>1, <1>2, <2>2 DEF Located
  <2> QED BY <2>1, <2>2
<1> QED BY <1>2 DEF HeldBefore, HeldAt

\* A request that ends holds nothing.
LEMMA FinishHolds ==
  ASSUME Ind, NEW p \in Proc, Finish(p)
  PROVE  HeldBefore
<1>1. \A i \in Nat, k \in Keys : ~HeldAt(Idle, i, k)
  BY DEF HeldAt, Idle, Begun
<1> QED BY <1>1, HeldStep DEF Finish

\* A request past its write holds nothing.
LEMMA GotoHolds ==
  ASSUME Ind, NEW p \in Proc, NEW pc, pc \notin {"stamp", "store"}, Goto(p, pc)
  PROVE  HeldBefore
<1> DEFINE o == [op[p] EXCEPT !.pc = pc, !.n = 0]
<1>1. op' = [op EXCEPT ![p] = o]
  BY DEF Goto, Ind, OpsOK
<1>2. op[p] \in Operation
  BY DEF Ind, OpsOK, RequestOK
<1>3. o.pc = pc
  BY <1>2 DEF Operation
<1> HIDE DEF o
<1>4. \A i \in Nat, k \in Keys : ~HeldAt(o, i, k)
  BY <1>3 DEF HeldAt
<1> QED BY <1>1, <1>4, HeldStep

\* A request that tries again holds what it held.
LEMMA AgainHolds ==
  ASSUME Ind, NEW p \in Proc, Again(p)
  PROVE  HeldBefore
<1> DEFINE o == [op[p] EXCEPT !.n = @ + 1]
<1>1. op' = [op EXCEPT ![p] = o]
  BY DEF Again, Ind, OpsOK
<1>2. op[p] \in Operation
  BY DEF Ind, OpsOK, RequestOK
<1>3. o.pc = op[p].pc /\ o.act = op[p].act /\ o.rec = op[p].rec /\ o.key = op[p].key
  BY <1>2 DEF Operation
<1> HIDE DEF o
<1>4. \A i \in Nat, k \in Keys : HeldAt(o, i, k) => Located(i, k)
  BY <1>3 DEF HeldAt, Located
<1> QED BY <1>1, <1>4, HeldStep

\* A step that gives no tunnel a new place keeps the invariant.
LEMMA QuietStep ==
  ASSUME RevInd, UNCHANGED <<nextId, history>>, HeldBefore,
         \A i \in Nat, k \in Keys : StoredAt(db, i, k)' => Located(i, k)
  PROVE  RevInd'
<1>1. \A i \in Nat, k \in Keys : Located(i, k)' => Located(i, k)
  BY DEF Located, HeldBefore
<1> QED BY <1>1 DEF RevInd, history

\* An untouched keyspace gives no tunnel a new place.
LEMMA UnchangedDb ==
  ASSUME db' = db
  PROVE  \A i \in Nat, k \in Keys : StoredAt(db, i, k)' => Located(i, k)
  BY DEF Located, StoredAt

\* A DEL gives no tunnel a new place.
LEMMA RemoveDb ==
  ASSUME NEW x, db' = Remove(db, x)
  PROVE  \A i \in Nat, k \in Keys : StoredAt(db, i, k)' => Located(i, k)
<1>1. ASSUME NEW i \in Nat, NEW k \in Keys, StoredAt(db', i, k) PROVE Located(i, k)
  BY <1>1, StoredAtRemove DEF Located
<1> QED BY <1>1 DEF StoredAt

\* The record written at "store" is one the request held.
LEMMA StoreDb ==
  ASSUME NEW p \in Proc, At(p, "store"), Stored(p)
  PROVE  \A i \in Nat, k \in Keys : StoredAt(db, i, k)' => Located(i, k)
<1>1. ASSUME NEW i \in Nat, NEW k \in Keys, StoredAt(db', i, k) PROVE Located(i, k)
  <2>1. StoredAt(db, i, k) \/ (k = op[p].key /\ i = op[p].rec.id)
    BY <1>1, StoredAtPut DEF Stored
  <2> QED BY <2>1 DEF Located, HeldAt, At
<1> QED BY <1>1 DEF StoredAt

-----------------------------------------------------------------------------
(* The steps of a request.                                                 *)

\* The first step of a request holds nothing, except that an extension holds
\* the record it read.
LEMMA BeginRev ==
  ASSUME Ind, RevInd, NEW p \in Proc, Request(p, Keys) \/
         \E d \in Requested : CreateTunnel(p, d)
  PROVE  RevInd'
<1>1. ASSUME NEW o, Begin(p, o), UNCHANGED <<now, db, listeners, nextId, history>>,
             \A i \in Nat, k \in Keys : HeldAt(o, i, k) => Located(i, k)
      PROVE  RevInd'
  <2>1. HeldBefore
    BY <1>1, HeldStep DEF Begin
  <2> QED BY <1>1, <2>1, QuietStep, UnchangedDb
<1>2. ASSUME NEW d \in Requested, CreateTunnel(p, d) PROVE RevInd'
  <2> DEFINE o == Begun("pick", "create_http", NoKey, d, NoRecord, 0)
  <2>1. Begin(p, o) /\ UNCHANGED <<now, db, listeners, nextId, history>>
    BY <1>2 DEF CreateTunnel
  <2>2. \A i \in Nat, k \in Keys : ~HeldAt(o, i, k)
    BY DEF HeldAt, Begun
  <2> QED BY <1>1, <2>1, <2>2
<1>3. ASSUME NEW d \in Requested, CreateTCPTunnel(p, d) PROVE RevInd'
  <2> DEFINE o == Begun("count", "create_tcp", NoKey, d, NoRecord,
                        CountKeys(db, Subdomains))
  <2>1. Begin(p, o) /\ UNCHANGED <<now, db, listeners, nextId, history>>
    BY <1>3 DEF CreateTCPTunnel
  <2>2. \A i \in Nat, k \in Keys : ~HeldAt(o, i, k)
    BY DEF HeldAt, Begun
  <2> QED BY <1>1, <2>1, <2>2
<1>4. ASSUME NEW x \in Keys, NEW m \in Extensions, ExtendTunnel(p, x, m)
      PROVE  RevInd'
  <2> DEFINE o == Begun("stamp", "extend", x, m, db[x].val, 0)
  <2>1. /\ Begin(p, o) /\ UNCHANGED <<now, db, listeners, nextId, history>>
        /\ x \in DOMAIN db
    BY <1>4 DEF ExtendTunnel, Exists
  <2>2. \A i \in Nat, k \in Keys : HeldAt(o, i, k) => Located(i, k)
    BY <2>1 DEF HeldAt, Begun, Located, StoredAt
  <2> QED BY <1>1, <2>1, <2>2
<1>5. ASSUME NEW x \in Keys, DeleteTunnel(p, x) PROVE RevInd'
  <2> DEFINE o == Begun("delete", "delete", x, 0, NoRecord, 0)
  <2>1. Begin(p, o) /\ UNCHANGED <<now, db, listeners, nextId, history>>
    BY <1>5 DEF DeleteTunnel
  <2>2. \A i \in Nat, k \in Keys : ~HeldAt(o, i, k)
    BY DEF HeldAt, Begun
  <2> QED BY <1>1, <2>1, <2>2
<1> QED BY <1>2, <1>3, <1>4, <1>5 DEF Request

\* PickFree: the request has a key and no record yet.
LEMMA PickFreeRev ==
  ASSUME Ind, RevInd, NEW p \in Proc, NEW x \in Keys, PickFree(p, x)
  PROVE  RevInd'
<1> DEFINE o == [op[p] EXCEPT !.pc = "stamp", !.key = x, !.n = 0]
<1>1. op' = [op EXCEPT ![p] = o] /\ UNCHANGED <<now, db, listeners, nextId, history>>
  BY DEF PickFree, Ind, OpsOK
<1>2. op[p] \in Operation /\ op[p].act \in Creates
  BY DEF Ind, OpsOK, RequestOK, PickFree, At
<1>3. o.pc = "stamp" /\ o.act \in Creates
  BY <1>2 DEF Operation
<1> HIDE DEF o
<1>4. \A i \in Nat, k \in Keys : ~HeldAt(o, i, k)
  BY <1>3 DEF HeldAt, Creates
<1> QED BY <1>1, <1>4, HeldStep, QuietStep, UnchangedDb

\* The one step that puts a name in a new place; the name is fresh.
LEMMA StampNewRev ==
  ASSUME Ind, RevInd, NEW p \in Proc, StampNew(p)
  PROVE  RevInd'
<1> DEFINE o == [op[p] EXCEPT !.pc = "store",
                     !.rec = NewRecord(nextId, op[p].min, now),
                     !.ttl = TTLOf(op[p].min)]
<1>1. /\ op' = [op EXCEPT ![p] = o] /\ nextId' = nextId + 1
      /\ UNCHANGED <<now, db, listeners, history>> /\ nextId \in Nat
  BY DEF StampNew, Ind, OpsOK, FrameOK
<1>2. op[p] \in Operation
  BY DEF Ind, OpsOK, RequestOK
<1>3. o.rec.id = nextId /\ o.key = op[p].key
  BY <1>2 DEF Operation, NewRecord
<1> HIDE DEF o
<1>4. \A q \in Proc : op'[q] = IF q = p THEN o ELSE op[q]
  BY <1>1 DEF Ind, OpsOK
<1>5. ASSUME NEW i \in Nat, NEW k \in Keys, Located(i, k)'
      PROVE  Located(i, k) \/ (i = nextId /\ k = op[p].key)
  <2>1. CASE StoredAt(db, i, k)'
    BY <1>1, <2>1 DEF StoredAt, Located
  <2>2. ASSUME NEW q \in Proc, HeldAt(op'[q], i, k)
        PROVE  Located(i, k) \/ (i = nextId /\ k = op[p].key)
    BY <1>3, <1>4, <2>2 DEF HeldAt, Located
  <2> QED BY <1>5, <2>1, <2>2 DEF Located
<1>6. nextId \notin revoked /\ \A k \in Keys : ~Located(nextId, k)
  BY <1>1 DEF RevInd
<1>7. revoked' = revoked /\ raced' = raced
  BY <1>1 DEF history
<1>8. \A i \in Nat, k \in Keys :
        Located(i, k)' => i < nextId' /\ (i \in revoked' => i \in raced')
  BY <1>1, <1>5, <1>6, <1>7 DEF RevInd
<1>9. \A i \in Nat, k, l \in Keys : Located(i, k)' /\ Located(i, l)' => k = l
  BY <1>5, <1>6 DEF RevInd
<1>10. \A i \in revoked' : i < nextId'
  BY <1>1, <1>7 DEF RevInd, Ind, FrameOK
<1> QED BY <1>8, <1>9, <1>10 DEF RevInd

\* StampExtension: the record in memory changes, its name and key do not.
LEMMA StampExtensionRev ==
  ASSUME Ind, RevInd, NEW p \in Proc, StampExtension(p)
  PROVE  RevInd'
<1>1. UNCHANGED <<now, db, listeners, nextId, history>>
  BY DEF StampExtension
<1>2. CASE ~ExtensionAllowed(op[p].rec, op[p].min, now)
  BY <1>1, <1>2, FinishHolds, QuietStep, UnchangedDb DEF StampExtension
<1>3. CASE ExtensionAllowed(op[p].rec, op[p].min, now)
  <2> DEFINE r == Extended(op[p].rec, op[p].min)
             o == [op[p] EXCEPT !.pc = "store", !.rec = r,
                                !.ttl = NewEnd(op[p].rec, op[p].min) - now]
  <2>1. op' = [op EXCEPT ![p] = o]
    BY <1>3 DEF StampExtension, Ind, OpsOK
  <2>2. op[p] \in Operation /\ op[p].rec \in Record
    BY DEF Ind, OpsOK, RequestOK, Operation
  <2>3. r.id = op[p].rec.id
    BY <2>2 DEF Extended, Record
  <2> HIDE DEF r
  <2>4. o.rec.id = op[p].rec.id /\ o.key = op[p].key
    BY <2>2, <2>3 DEF Operation
  <2> HIDE DEF o
  <2>5. op[p].pc = "stamp" /\ op[p].act = "extend"
    BY DEF StampExtension, At
  <2>6. \A i \in Nat, k \in Keys : HeldAt(o, i, k) => Located(i, k)
    BY <2>4, <2>5 DEF HeldAt, Located
  <2> QED BY <1>1, <2>1, <2>6, HeldStep, QuietStep, UnchangedDb
<1> QED BY <1>2, <1>3

\* A deletion that finds no holder finds no other place for the name either.
LEMMA DeleteRev ==
  ASSUME Ind, RevInd, NEW p \in Proc, Delete(p)
  PROVE  RevInd'
<1> DEFINE x == op[p].key
           gone == IF Exists(db, x) THEN {db[x].val.id} ELSE {}
<1>1. /\ revoked' = revoked \cup gone
      /\ raced' = raced \cup {i \in gone : Holders(i) # {}}
      /\ db' = Remove(db, x) /\ nextId' = nextId
  BY DEF Delete
<1>2. HeldBefore
  BY FinishHolds, GotoHolds DEF Delete
<1>3. \A i \in gone : i \in Nat /\ x \in Keys /\ StoredAt(db, i, x) /\ Located(i, x)
  BY DEF Exists, Located, StoredAt, Ind, StoredOK, Entry, Record
<1>4. \A i \in Nat, k \in Keys : Located(i, k)' => Located(i, k)
  BY <1>1, <1>2, RemoveDb DEF Located, HeldBefore
<1>5. ASSUME NEW i \in gone, NEW k \in Keys, Located(i, k)'
      PROVE  i \in raced'
  <2>1. k = x
    BY <1>3, <1>4, <1>5 DEF RevInd
  <2>2. ~StoredAt(db', i, k)
    BY <1>1, <2>1, StoredAtRemove
  <2>3. PICK q \in Proc : HeldAt(op'[q], i, k)
    BY <1>5, <2>2 DEF Located, StoredAt
  <2>4. q # p
    <3>1. op'[p].pc \in {"idle", "stop"}
      BY DEF Delete, Goto, Finish, Idle, Begun, Ind, OpsOK, RequestOK, Operation
    <3> QED BY <2>3, <3>1 DEF HeldAt
  <2>5. op'[q] = op[q]
    BY <2>4 DEF Delete, Goto, Finish, Ind, OpsOK
  <2>6. q \in Holders(i)
    BY <2>3, <2>5 DEF HeldAt, Holders, Holds, At
  <2> QED BY <1>1, <2>6
<1> HIDE DEF gone
<1>6. \A i \in Nat, k \in Keys :
        Located(i, k)' => i < nextId' /\ (i \in revoked' => i \in raced')
  BY <1>1, <1>4, <1>5 DEF RevInd
<1>7. \A i \in Nat, k, l \in Keys : Located(i, k)' /\ Located(i, l)' => k = l
  BY <1>4 DEF RevInd
<1>8. \A i \in revoked' : i < nextId'
  BY <1>1, <1>3 DEF RevInd
<1> QED BY <1>6, <1>7, <1>8 DEF RevInd

\* The other steps of an admitted request, and its failures.
LEMMA OtherStepsRev ==
  ASSUME Ind, RevInd, NEW p \in Proc,
         \/ CountTCP(p) \/ (\E k \in Keys : PickTaken(p, k))
         \/ Store(p) \/ StoreLost(p) \/ StartProxy(p) \/ ListenFails(p)
         \/ Rollback(p) \/ DeleteLost(p) \/ StopProxy(p) \/ RedisError(p)
  PROVE  RevInd'
<1>1. HeldBefore
  BY FinishHolds, GotoHolds, AgainHolds
  DEF CountTCP, PickTaken, Store, StoreLost, StartProxy, ListenFails, Rollback,
      DeleteLost, StopProxy, RedisError
<1>2. UNCHANGED <<nextId, history>>
  BY DEF CountTCP, PickTaken, Store, StoreLost, StartProxy, ListenFails, Rollback,
         DeleteLost, StopProxy, RedisError
<1>3. CASE db' = db
  BY <1>1, <1>2, <1>3, QuietStep, UnchangedDb
<1>4. CASE db' = Remove(db, op[p].key)
  BY <1>1, <1>2, <1>4, QuietStep, RemoveDb
<1>5. CASE At(p, "store") /\ Stored(p)
  BY <1>1, <1>2, <1>5, QuietStep, StoreDb
<1> QED
  BY <1>3, <1>4, <1>5
  DEF CountTCP, PickTaken, Store, StoreLost, StartProxy, ListenFails, Rollback,
      DeleteLost, StopProxy, RedisError

\* The clock, an eviction and a stuttering step move no record.
LEMMA EnvironmentRev ==
  ASSUME Ind, RevInd,
         Tick \/ (\E k \in Keys : Evict(k)) \/ UNCHANGED vars
  PROVE  RevInd'
<1>1. op' = op /\ UNCHANGED <<nextId, history>>
  BY DEF Tick, Evict, vars, history
<1>2. HeldBefore
  BY <1>1 DEF HeldBefore, HeldAt, Located
<1>3. CASE Tick
  <2>1. db' = Purge(db, now')
    BY <1>3 DEF Tick
  <2>2. ASSUME NEW i \in Nat, NEW k \in Keys, StoredAt(db', i, k)
        PROVE  Located(i, k)
    BY <2>1, <2>2, StoredAtPurge DEF Located
  <2> QED BY <1>1, <1>2, <2>2, QuietStep DEF StoredAt
<1>4. ASSUME NEW k \in Keys, Evict(k) PROVE RevInd'
  BY <1>1, <1>2, <1>4, QuietStep, RemoveDb DEF Evict
<1>5. CASE UNCHANGED vars
  BY <1>1, <1>2, <1>5, QuietStep, UnchangedDb DEF vars
<1> QED BY <1>3, <1>4, <1>5

-----------------------------------------------------------------------------

\* Nothing is stored or revoked at the start.
LEMMA RevInit == Init => RevInd
  BY DEF Init, RevInd, Located, StoredAt, HeldAt, EmptyKeyspace, Idle, Begun

\* Every step of the service keeps the invariant.
LEMMA RevNext == Ind /\ RevInd /\ [Next]_vars => RevInd'
<1> SUFFICES ASSUME Ind, RevInd, [Next]_vars PROVE RevInd'
  OBVIOUS
<1>1. ASSUME NEW p \in Proc, Progress(p) PROVE RevInd'
  BY <1>1, OtherStepsRev, PickFreeRev, StampNewRev, StampExtensionRev, DeleteRev
  DEF Progress
<1>2. ASSUME NEW p \in Proc, Failure(p) PROVE RevInd'
  BY <1>2, OtherStepsRev DEF Failure
<1> QED BY <1>1, <1>2, BeginRev, EnvironmentRev DEF Next

\* A tunnel whose deletion succeeded while no other request held its record is
\* never stored again, by any create, retry or extension.
THEOREM CleanRevocation == Spec => []CleanRevocationIsFinal
<1>1. Ind /\ RevInd => CleanRevocationIsFinal
  BY RevImplies
<1> QED BY <1>1, IndInit, IndNext, RevInit, RevNext, PTL DEF Spec

\* What the requests in flight hold is as sound as what is stored: whatever a
\* stale read brings back was once sound, has a name, and if its tunnel has
\* been revoked since, the revocation is a raced one.
THEOREM InFlightSound == Spec => [](InputsFit => InFlightOK)
<1>1. Ind /\ RevInd => (InputsFit => InFlightOK)
  BY IndImplies, RevIds DEF InFlightOK
<1> QED BY <1>1, IndInit, IndNext, RevInit, RevNext, PTL DEF Spec

=============================================================================

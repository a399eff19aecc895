---------------------------- MODULE ListingProofs ----------------------------
(***************************************************************************)
(* Listings and counts that take several calls of SCAN, for every number   *)
(* of requests, keys and calls.  Two arguments: a tunnel stays under one   *)
(* key, so a scan that has it behind its cursor has returned it; and the   *)
(* keys stored, the creates admitted and the counts that may still admit   *)
(* one are bounded together.                                               *)
(***************************************************************************)
EXTENDS Listing, TunnelServiceProofs

Points == {"idle", "count", "scan", "get", "answer", "pick", "stamp", "store",
           "start", "rollback"}

ListOperation ==
  [pc : Points, act : Creates \cup {"none", "extend", "list"},
   key : Keys \cup {NoKey}, min : Int, rec : Record, ttl : Int, n : Nat]

ScanState ==
  [todo : SUBSET Keys, found : SUBSET Keys, got : SUBSET Nat, missed : SUBSET Nat,
   through : SUBSET Nat]

\* The keys that a create of kind a counts, in its last scan, and chooses from.
KeysOf(a) == IF a = "create_http" THEN Subdomains ELSE Ports

\* A request at o whose scan is at s.
PointOK(o, s) ==
  /\ o \in ListOperation /\ s \in ScanState
  /\ o.pc \in {"stamp", "store", "start", "rollback"} => o.key \in Keys
  /\ o.pc \in {"stamp", "store"} => o.act \in Creates \cup {"extend"}
  /\ o.pc = "pick" => o.act \in Creates
  /\ o.pc \in {"stamp", "store"} /\ o.act \in Creates => o.key \in KeysOf(o.act)
  /\ o.pc = "count" => o.act = "create_tcp"
  /\ o.pc = "scan" => o.act \in Creates \cup {"list"}
  /\ o.pc = "scan" /\ o.act \in Creates => s.todo \subseteq KeysOf(o.act)
  /\ o.pc \in {"get", "answer"} => o.act = "list"

ListFrameOK ==
  /\ now \in Nat /\ nextId \in Nat \ {0} /\ revived \in Nat
  /\ DOMAIN db \subseteq Keys /\ \A k \in DOMAIN db : db[k] \in Entry

PointsOK ==
  /\ op = [p \in Proc |-> op[p]] /\ scan = [p \in Proc |-> scan[p]]
  /\ \A p \in Proc : PointOK(op[p], scan[p])

\* Tunnels have fresh names and one key each.
NamesApart ==
  /\ \A i \in Nat, k \in Keys : Located(i, k) => i < nextId
  /\ \A i \in Nat, k, l \in Keys : Located(i, k) /\ Located(i, l) => k = l

\* The keys at which a scan, or the GETs after it, will still look.
Ahead(o, s) ==
  IF o.pc = "scan" THEN s.todo \cup s.found
  ELSE IF o.pc = "get" THEN s.found ELSE {}

\* The tunnels whose GET has been sent.
Tried(s) == s.got \cup s.missed

\* A tunnel stored throughout is among those tried or is still ahead.
ListedOK(o, s, d) ==
  o.pc \in {"scan", "get", "answer"}
    => s.through \subseteq Tried(s) \cup Names(d, Ahead(o, s))

\* The keys a count will find at least, if none goes and none is returned twice.
Outlook(o, s, d) == o.n + Cardinality(DOMAIN d \cap s.todo)

\* A create of kind a that was admitted and has stored nothing yet, or a count
\* that may still find no more than c keys.
Claims(o, s, d, a, c) ==
  /\ o.act = a
  /\ o.pc \in {"pick", "stamp", "store"} \/ (o.pc = "scan" /\ Outlook(o, s, d) <= c)

Claimants(o, s, d, a, c) == {p \in Proc : Claims(o[p], s[p], d, a, c)}

StoredOf(d, a) == Cardinality(DOMAIN d \cap KeysOf(a))

\* The keys stored and the creates that were admitted, or may still be when c
\* keys are no obstacle, together obey the bound; for c = MaxTunnels - 1 this is
\* what is to be shown, and an eviction trades c + 1 for c.
LoadAt(o, s, d, r, a) ==
  \A c \in Int : c >= MaxTunnels - 1 =>
    StoredOf(d, a) + Cardinality(Claimants(o, s, d, a, c)) <= c + Cardinality(Proc) + r

LoadOK == \A a \in Creates : LoadAt(op, scan, db, revived, a)

ListTypes == ListFrameOK /\ PointsOK
ListInd ==
  /\ ListTypes /\ NamesApart /\ LoadOK
  /\ \A p \in Proc : ListedOK(op[p], scan[p], db)

-----------------------------------------------------------------------------
(* Types.                                                                  *)

\* The records the service computes are records.
LEMMA NewRecordType ==
  ASSUME NEW i \in Nat, NEW d \in Int, NEW t \in Nat
  PROVE  NewRecord(i, d, t) \in Record /\ NewRecord(i, d, t).id = i /\ TTLOf(d) \in Int
<1>1. Span(d) \in Int
  BY SpanExact
<1>2. t + Span(d) \in Int
  BY <1>1
<1>3. Trunc(t) \in Int /\ Trunc(t + Span(d)) \in Int
  BY <1>2, TruncBounds
<1> QED BY <1>1, <1>3 DEF NewRecord, TTLOf, Record

\* So is an extended one.
LEMMA ExtendedRecordType ==
  ASSUME NEW r \in Record, NEW m \in Int, NEW t \in Nat
  PROVE  /\ Extended(r, m) \in Record /\ Extended(r, m).id = r.id
         /\ NewEnd(r, m) - t \in Int
<1>1. Span(m) \in Int
  BY SpanExact
<1>2. Span(m) \in Int /\ r.expires \in Int /\ r.created \in Int
  BY <1>1 DEF Record
<1>3. NewEnd(r, m) \in Int /\ NewEnd(r, m) - r.created \in Int /\ NewEnd(r, m) - t \in Int
  BY <1>2 DEF NewEnd
<1>4. Trunc(NewEnd(r, m)) \in Int /\ Minutes(NewEnd(r, m) - r.created) \in Int
  BY <1>3, TruncBounds, MinutesType
<1> QED BY <1>3, <1>4 DEF Extended, Record

\* A SET keeps the keyspace well typed.
LEMMA PutType ==
  ASSUME ListFrameOK, NEW k \in Keys, NEW r \in Record, NEW ttl \in Int,
         db' = Put(db, k, r, ttl, now)
  PROVE  DOMAIN db' \subseteq Keys /\ \A x \in DOMAIN db' : db'[x] \in Entry
<1>1. DOMAIN db' = DOMAIN db \cup {k}
  BY DEF Put
<1>2. db'[k] = [val |-> r, exp |-> IF ttl > 0 THEN now + ttl ELSE Persist]
  BY DEF Put
<1>3. \A x \in DOMAIN db \ {k} : db'[x] = db[x]
  BY DEF Put
<1>4. (IF ttl > 0 THEN now + ttl ELSE Persist) \in Int
  BY DEF ListFrameOK, Persist
<1>5. db'[k] \in Entry
  BY <1>2, <1>4 DEF Entry
<1> QED BY <1>1, <1>3, <1>5 DEF ListFrameOK

\* So do a DEL and an unchanged keyspace.
LEMMA ShrinkType ==
  ASSUME ListFrameOK, db' = db \/ \E k : db' = Remove(db, k)
  PROVE  DOMAIN db' \subseteq Keys /\ \A x \in DOMAIN db' : db'[x] \in Entry
<1>1. CASE db' = db
  BY <1>1 DEF ListFrameOK
<1>2. ASSUME NEW k, db' = Remove(db, k)
      PROVE  DOMAIN db' \subseteq Keys /\ \A x \in DOMAIN db' : db'[x] \in Entry
  BY <1>2 DEF ListFrameOK, Remove
<1> QED BY <1>1, <1>2

\* The names stored are numbers.
LEMMA NamesType ==
  ASSUME ListFrameOK, NEW ks
  PROVE  Names(db, ks) \subseteq Nat
<1>1. \A k \in DOMAIN db : db[k].val.id \in Nat
  BY DEF ListFrameOK, Entry, Record
<1> QED BY <1>1 DEF Names

\* A step of request p to o and s.
LEMMA PointStep ==
  ASSUME PointsOK, NEW p \in Proc, NEW o, NEW s, op' = [op EXCEPT ![p] = o],
         scan' = [scan EXCEPT ![p] = s], PointOK(o, s)
  PROVE  PointsOK'
<1>1. /\ op' = [q \in Proc |-> op'[q]] /\ scan' = [q \in Proc |-> scan'[q]]
      /\ \A q \in Proc : op'[q] = IF q = p THEN o ELSE op[q]
      /\ \A q \in Proc : scan'[q] = IF q = p THEN s ELSE scan[q]
  BY DEF PointsOK
<1>2. \A q \in Proc : PointOK(op'[q], scan'[q])
  BY <1>1 DEF PointsOK
<1> QED BY <1>1, <1>2 DEF PointsOK

\* A request that ends.
LEMMA IdlePoint ==
  ASSUME NEW s \in ScanState
  PROVE  PointOK(Idle, s)
  BY DEF PointOK, Idle, Begun, ListOperation, Points, NoRecord, Record

\* A request that has just begun, and a scan of the keys ks.
LEMMA BegunType ==
  ASSUME NEW pc \in Points, NEW act \in Creates \cup {"none", "extend", "list"},
         NEW k \in Keys \cup {NoKey}, NEW m \in Int, NEW r \in Record, NEW n \in Nat
  PROVE  Begun(pc, act, k, m, r, n) \in ListOperation
  BY DEF Begun, ListOperation

\* The scan a request begins.
LEMMA ScanOfType ==
  ASSUME ListFrameOK, NEW ks \in SUBSET Keys
  PROVE  /\ ScanOf(ks) \in ScanState /\ NoScan \in ScanState
         /\ ScanOf(ks).todo = ks /\ ScanOf(ks).through = Names(db, ks)
<1> DEFINE x == Names(db, ks)
<1>1. x \subseteq Nat
  BY NamesType
<1> HIDE DEF x
<1>2. NoScan \in ScanState
  BY DEF NoScan, ScanState
<1>3. /\ [NoScan EXCEPT !.todo = ks, !.through = x] \in ScanState
      /\ [NoScan EXCEPT !.todo = ks, !.through = x].todo = ks
      /\ [NoScan EXCEPT !.todo = ks, !.through = x].through = x
  BY <1>1, <1>2 DEF ScanState
<1> QED BY <1>2, <1>3 DEF ScanOf, x

\* A scan that has made one more call.
LEMMA VisitedType ==
  ASSUME ListFrameOK, NEW p \in Proc, scan[p] \in ScanState, NEW seen \in SUBSET scan[p].todo
  PROVE  /\ Visited(p, seen) \in ScanState
         /\ Visited(p, seen).todo = scan[p].todo \ seen
         /\ Visited(p, seen).found = scan[p].found \cup (DOMAIN db \cap seen)
         /\ Visited(p, seen).got = scan[p].got
         /\ Visited(p, seen).missed = scan[p].missed
         /\ Visited(p, seen).through = scan[p].through
  BY DEF Visited, ScanState, ListFrameOK

\* A tally is a number, and no less than the keys seen.
LEMMA TallyType ==
  ASSUME NEW p \in Proc, op[p] \in ListOperation, NEW seen \in SUBSET Keys,
         NEW again \in {0, 1}
  PROVE  /\ Tally(p, seen, again) \in Nat
         /\ op[p].act # "list" => Tally(p, seen, again) >= op[p].n + Cardinality(DOMAIN db \cap seen)
<1>1. IsFiniteSet(DOMAIN db \cap seen)
  <2>1. IsFiniteSet(Keys)
    BY KeyAssumption, FS_Union DEF Keys
  <2> QED BY <2>1, FS_Subset
<1>2. Cardinality(DOMAIN db \cap seen) \in Nat /\ op[p].n \in Nat
  BY <1>1, FS_CardinalityType DEF ListOperation
<1> QED BY <1>2 DEF Tally, CountKeys

\* Only request p moves, and only its scan.
Moved(p) == op' = [q \in Proc |-> op'[q]] /\ \A q \in Proc \ {p} : op'[q] = op[q]
ScanMoved(p) ==
  scan' = [q \in Proc |-> scan'[q]] /\ \A q \in Proc \ {p} : scan'[q] = scan[q]

\* Where a request is after it ended.
LEMMA ListFinish ==
  ASSUME PointsOK, NEW p \in Proc, Finish(p)
  PROVE  Moved(p) /\ op'[p] = Idle
  BY DEF Finish, PointsOK, Moved

\* The same of one that begins.
LEMMA ListBegin ==
  ASSUME PointsOK, NEW p \in Proc, NEW o, Begin(p, o)
  PROVE  Moved(p) /\ op'[p] = o
  BY DEF Begin, PointsOK, Moved

\* The same of one that goes on.
LEMMA ListGoto ==
  ASSUME PointsOK, NEW p \in Proc, NEW pc \in Points, Goto(p, pc)
  PROVE  /\ Moved(p) /\ op'[p] \in ListOperation
         /\ op'[p].pc = pc /\ op'[p].act = op[p].act /\ op'[p].key = op[p].key
         /\ op'[p].rec = op[p].rec /\ op'[p].n = 0
<1>1. op[p] \in ListOperation
  BY DEF PointsOK, PointOK
<1> DEFINE o == [op[p] EXCEPT !.pc = pc, !.n = 0]
<1>2. op'[p] = o /\ Moved(p)
  BY DEF Goto, PointsOK, Moved
<1>3. o \in ListOperation
  BY <1>1 DEF ListOperation
<1>4. o.pc = pc /\ o.act = op[p].act /\ o.key = op[p].key /\ o.rec = op[p].rec /\ o.n = 0
  BY <1>1 DEF ListOperation
<1> HIDE DEF o
<1> QED BY <1>2, <1>3, <1>4

\* The same of one that tries again.
LEMMA ListAgain ==
  ASSUME PointsOK, NEW p \in Proc, Again(p)
  PROVE  /\ Moved(p) /\ op'[p] \in ListOperation
         /\ op'[p].pc = op[p].pc /\ op'[p].act = op[p].act /\ op'[p].key = op[p].key
         /\ op'[p].rec = op[p].rec
<1>1. op[p] \in ListOperation
  BY DEF PointsOK, PointOK
<1>2. op'[p] = [op[p] EXCEPT !.n = @ + 1] /\ Moved(p)
  BY DEF Again, PointsOK, Moved
<1> QED BY <1>1, <1>2 DEF ListOperation

\* The same of one that has made a call and counted n keys.
LEMMA ListTally ==
  ASSUME PointsOK, NEW p \in Proc, NEW pc \in Points, NEW n \in Nat,
         op' = [op EXCEPT ![p].pc = pc, ![p].n = n]
  PROVE  /\ Moved(p) /\ op'[p] \in ListOperation
         /\ op'[p].pc = pc /\ op'[p].act = op[p].act /\ op'[p].key = op[p].key
         /\ op'[p].rec = op[p].rec /\ op'[p].n = n
<1>1. op[p] \in ListOperation
  BY DEF PointsOK, PointOK
<1> DEFINE o == [op[p] EXCEPT !.pc = pc, !.n = n]
<1>2. op'[p] = o /\ Moved(p)
  BY DEF PointsOK, Moved
<1>3. o \in ListOperation
  BY <1>1 DEF ListOperation
<1>4. o.pc = pc /\ o.act = op[p].act /\ o.key = op[p].key /\ o.rec = op[p].rec /\ o.n = n
  BY <1>1 DEF ListOperation
<1> HIDE DEF o
<1> QED BY <1>2, <1>3, <1>4

\* Where a scan is after a step of its request.
LEMMA ListScans ==
  ASSUME PointsOK, NEW p \in Proc, NEW s, Scans(p, s)
  PROVE  ScanMoved(p) /\ scan'[p] = s
  BY DEF Scans, PointsOK, ScanMoved

\* A step of request p, with its scan.
LEMMA PointMoved ==
  ASSUME PointsOK, NEW p \in Proc, Moved(p), ScanMoved(p), PointOK(op'[p], scan'[p])
  PROVE  PointsOK'
<1>1. \A q \in Proc : PointOK(op'[q], scan'[q])
  BY DEF PointsOK, Moved, ScanMoved
<1> QED BY <1>1 DEF PointsOK, Moved, ScanMoved

\* A scan that others watch go keeps its place.
LEMMA WatchedPoint ==
  ASSUME NEW o, NEW s, PointOK(o, s)
  PROVE  /\ PointOK(o, Watched(s))
         /\ Watched(s).todo = s.todo /\ Watched(s).found = s.found /\ Watched(s).got = s.got
         /\ Watched(s).missed = s.missed
         /\ Watched(s).through = s.through \cap Names(db', Keys)
<1> DEFINE x == Names(db', Keys)
<1> HIDE DEF x
<1>1. s \in ScanState
  BY DEF PointOK
<1>2. Watched(s) = [s EXCEPT !.through = @ \cap x]
  BY DEF Watched, x
<1>3. /\ Watched(s).todo = s.todo /\ Watched(s).found = s.found /\ Watched(s).got = s.got
      /\ Watched(s).missed = s.missed /\ Watched(s).through = s.through \cap x
  BY <1>1, <1>2 DEF ScanState
<1>4. Watched(s) \in ScanState
  BY <1>1, <1>2 DEF ScanState
<1> QED BY <1>3, <1>4 DEF PointOK, x

\* A step of request p that all scans watch.
LEMMA PointWatched ==
  ASSUME PointsOK, NEW p \in Proc, Moved(p), scan' = [q \in Proc |-> Watched(scan[q])],
         PointOK(op'[p], scan[p])
  PROVE  PointsOK'
<1>1. \A q \in Proc : PointOK(op'[q], scan[q]) /\ scan'[q] = Watched(scan[q])
  BY DEF PointsOK, Moved
<1>2. \A q \in Proc : PointOK(op'[q], scan'[q])
  BY <1>1, WatchedPoint
<1>3. scan' = [q \in Proc |-> scan'[q]]
  OBVIOUS
<1> QED BY <1>2, <1>3 DEF PointsOK, Moved

\* What PointsOK says of request p.
LEMMA PointAt ==
  ASSUME PointsOK, NEW p \in Proc
  PROVE  PointOK(op[p], scan[p]) /\ op[p] \in ListOperation /\ scan[p] \in ScanState
  BY DEF PointsOK, PointOK

-----------------------------------------------------------------------------
(* Counting claims.                                                        *)

\* Sets of requests and of stored keys are finite.
LEMMA LoadTypes ==
  ASSUME NEW S \in SUBSET Proc, NEW d, NEW a \in Creates
  PROVE  /\ IsFiniteSet(S) /\ Cardinality(S) \in Nat /\ Cardinality(S) <= Cardinality(Proc)
         /\ Cardinality(Proc) \in Nat
         /\ StoredOf(d, a) \in Nat
         /\ \A T : IsFiniteSet(DOMAIN d \cap KeysOf(a) \cap T)
         /\ IsFiniteSet(DOMAIN d \cap KeysOf(a))
<1>1. IsFiniteSet(S) /\ Cardinality(S) <= Cardinality(Proc)
  BY ProcAssumption, FS_Subset
<1>2. IsFiniteSet(KeysOf(a))
  BY KeyAssumption DEF KeysOf
<1>3. IsFiniteSet(DOMAIN d \cap KeysOf(a))
  BY <1>2, FS_Subset
<1>4. \A T : IsFiniteSet(DOMAIN d \cap KeysOf(a) \cap T)
  BY <1>3, FS_Subset
<1> QED BY <1>1, <1>3, <1>4, ProcAssumption, FS_CardinalityType DEF StoredOf

\* A step that adds no claim, or that leaves c keys room enough, and stores no
\* more keys than it revives, keeps the bound.
LEMMA LoadLess ==
  ASSUME NEW a \in Creates, NEW o, NEW s, NEW d, NEW r \in Nat,
         NEW o2, NEW s2, NEW d2, NEW r2 \in Nat,
         LoadAt(o, s, d, r, a), StoredOf(d2, a) - r2 <= StoredOf(d, a) - r,
         \A c \in Int : c >= MaxTunnels - 1 =>
           \/ Claimants(o2, s2, d2, a, c) \subseteq Claimants(o, s, d, a, c)
           \/ StoredOf(d2, a) <= c
  PROVE  LoadAt(o2, s2, d2, r2, a)
<1>1. ASSUME NEW c \in Int, c >= MaxTunnels - 1
      PROVE  StoredOf(d2, a) + Cardinality(Claimants(o2, s2, d2, a, c))
               <= c + Cardinality(Proc) + r2
  <2> DEFINE A == Claimants(o, s, d, a, c)
             B == Claimants(o2, s2, d2, a, c)
  <2>1. A \in SUBSET Proc /\ B \in SUBSET Proc
    BY DEF Claimants
  <2>2. StoredOf(d, a) + Cardinality(A) <= c + Cardinality(Proc) + r
    BY <1>1 DEF LoadAt
  <2>3. B \subseteq A \/ StoredOf(d2, a) <= c
    BY <1>1
  <2> HIDE DEF A, B
  <2>4. /\ IsFiniteSet(A) /\ Cardinality(A) \in Nat /\ Cardinality(B) \in Nat
        /\ Cardinality(B) <= Cardinality(Proc) /\ Cardinality(Proc) \in Nat
        /\ StoredOf(d, a) \in Nat /\ StoredOf(d2, a) \in Nat
    BY <2>1, LoadTypes
  <2>5. B \subseteq A => Cardinality(B) <= Cardinality(A)
    BY <2>4, FS_Subset
  <2>6. StoredOf(d2, a) + Cardinality(B) <= c + Cardinality(Proc) + r2
    BY <2>2, <2>3, <2>4, <2>5
  <2> QED BY <2>6 DEF B
<1> QED BY <1>1 DEF LoadAt

\* A step that drops a key keeps it, if who claims c now claimed c + 1.
LEMMA LoadLost ==
  ASSUME NEW a \in Creates, NEW o, NEW s, NEW d, NEW r \in Nat, NEW o2, NEW s2, NEW d2,
         NEW r2 \in Nat, r2 >= r,
         LoadAt(o, s, d, r, a), StoredOf(d2, a) = StoredOf(d, a) - 1,
         \A c \in Int : Claimants(o2, s2, d2, a, c) \subseteq Claimants(o, s, d, a, c + 1)
  PROVE  LoadAt(o2, s2, d2, r2, a)
<1>1. ASSUME NEW c \in Int, c >= MaxTunnels - 1
      PROVE  StoredOf(d2, a) + Cardinality(Claimants(o2, s2, d2, a, c))
               <= c + Cardinality(Proc) + r2
  <2> DEFINE A == Claimants(o, s, d, a, c + 1)
             B == Claimants(o2, s2, d2, a, c)
  <2>1. A \in SUBSET Proc /\ B \in SUBSET A
    BY DEF Claimants
  <2>2. c + 1 \in Int /\ c + 1 >= MaxTunnels - 1
    BY <1>1, LimitAssumption
  <2>3. StoredOf(d, a) + Cardinality(A) <= c + 1 + Cardinality(Proc) + r
    BY <2>2 DEF LoadAt
  <2> HIDE DEF A, B
  <2>4. /\ IsFiniteSet(A) /\ Cardinality(A) \in Nat /\ Cardinality(Proc) \in Nat
        /\ StoredOf(d, a) \in Nat
    BY <2>1, LoadTypes
  <2>5. Cardinality(B) <= Cardinality(A) /\ Cardinality(B) \in Nat
    BY <2>1, <2>4, FS_Subset, FS_CardinalityType
  <2>6. StoredOf(d2, a) + Cardinality(B) <= c + Cardinality(Proc) + r2
    BY <2>3, <2>4, <2>5
  <2> QED BY <2>6 DEF B
<1> QED BY <1>1 DEF LoadAt

\* A request that stores a key gives its claim for it.
LEMMA LoadTaken ==
  ASSUME NEW a \in Creates, NEW o, NEW s, NEW d, NEW r \in Nat, NEW o2, NEW s2, NEW d2,
         NEW r2 \in Nat, r2 >= r,
         NEW p \in Proc, LoadAt(o, s, d, r, a), StoredOf(d2, a) <= StoredOf(d, a) + 1,
         \A c \in Int : /\ p \in Claimants(o, s, d, a, c)
                        /\ Claimants(o2, s2, d2, a, c) \subseteq Claimants(o, s, d, a, c) \ {p}
  PROVE  LoadAt(o2, s2, d2, r2, a)
<1>1. ASSUME NEW c \in Int, c >= MaxTunnels - 1
      PROVE  StoredOf(d2, a) + Cardinality(Claimants(o2, s2, d2, a, c))
               <= c + Cardinality(Proc) + r2
  <2> DEFINE A == Claimants(o, s, d, a, c)
             B == Claimants(o2, s2, d2, a, c)
  <2>1. A \in SUBSET Proc /\ B \in SUBSET (A \ {p}) /\ p \in A
    BY DEF Claimants
  <2>2. StoredOf(d, a) + Cardinality(A) <= c + Cardinality(Proc) + r
    BY <1>1 DEF LoadAt
  <2> HIDE DEF A, B
  <2>3. /\ IsFiniteSet(A) /\ Cardinality(A) \in Nat /\ Cardinality(Proc) \in Nat
        /\ StoredOf(d, a) \in Nat /\ StoredOf(d2, a) \in Nat
    BY <2>1, LoadTypes
  <2>4. IsFiniteSet(A \ {p}) /\ Cardinality(A \ {p}) = Cardinality(A) - 1
    BY <2>1, <2>3, FS_RemoveElement
  <2>5. Cardinality(B) <= Cardinality(A) - 1 /\ Cardinality(B) \in Nat
    BY <2>1, <2>4, FS_Subset, FS_CardinalityType
  <2>6. StoredOf(d2, a) + Cardinality(B) <= c + Cardinality(Proc) + r2
    BY <2>2, <2>3, <2>5
  <2> QED BY <2>6 DEF B
<1> QED BY <1>1 DEF LoadAt

-----------------------------------------------------------------------------
(* A step of a scan.                                                       *)

\* What the steps of a scan at request p have in common: it writes nothing and
\* holds no record; it claims no more than it did, unless there is room.
ScanTurn(p) ==
  /\ Moved(p) /\ ScanMoved(p) /\ UNCHANGED <<now, db, nextId, revived>>
  /\ PointOK(op'[p], scan'[p]) /\ op'[p].pc \notin {"stamp", "store"}
  /\ ListedOK(op'[p], scan'[p], db)
  /\ \A a \in Creates, c \in Int :
       c >= MaxTunnels - 1 /\ Claims(op'[p], scan'[p], db, a, c)
         => Claims(op[p], scan[p], db, a, c) \/ StoredOf(db, a) <= c

\* Such a step keeps the invariant.
LEMMA ScanTurnInd ==
  ASSUME ListInd, NEW p \in Proc, ScanTurn(p)
  PROVE  ListInd'
<1>1. PointsOK /\ ListFrameOK /\ NamesApart /\ revived \in Nat
  BY DEF ListInd, ListTypes, ListFrameOK
<1>2. Moved(p) /\ ScanMoved(p) /\ UNCHANGED <<now, db, nextId, revived>>
  BY DEF ScanTurn
<1>3. PointsOK' /\ ListFrameOK'
  BY <1>1, <1>2, PointMoved DEF ScanTurn, ListFrameOK
<1>4. ASSUME NEW i \in Nat, NEW k \in Keys, Located(i, k)' PROVE Located(i, k)
  <2>1. \A q \in Proc : HeldAt(op'[q], i, k) => q # p /\ op'[q] = op[q]
    BY <1>2 DEF ScanTurn, HeldAt, Moved
  <2> QED BY <1>2, <1>4, <2>1 DEF Located, StoredAt
<1>5. NamesApart'
  BY <1>1, <1>2, <1>4 DEF NamesApart
<1>6. \A q \in Proc : ListedOK(op'[q], scan'[q], db')
  BY <1>2 DEF ScanTurn, Moved, ScanMoved, ListInd
<1>7. ASSUME NEW a \in Creates PROVE LoadAt(op', scan', db', revived', a)
  <2>1. ASSUME NEW c \in Int, c >= MaxTunnels - 1
        PROVE  \/ Claimants(op', scan', db', a, c) \subseteq Claimants(op, scan, db, a, c)
               \/ StoredOf(db', a) <= c
    <3>1. \A q \in Proc \ {p} : op'[q] = op[q] /\ scan'[q] = scan[q]
      BY <1>2 DEF Moved, ScanMoved
    <3>2. \/ Claims(op'[p], scan'[p], db, a, c) => Claims(op[p], scan[p], db, a, c)
          \/ StoredOf(db, a) <= c
      BY <2>1 DEF ScanTurn
    <3>3. db' = db
      BY <1>2
    <3> QED BY <3>1, <3>2, <3>3 DEF Claimants
  <2>2. StoredOf(db', a) - revived' <= StoredOf(db, a) - revived /\ revived' = revived
    <3>1. StoredOf(db, a) \in Nat
      BY LoadTypes
    <3> QED BY <1>1, <1>2, <3>1
  <2>3. LoadAt(op, scan, db, revived, a)
    BY DEF ListInd, LoadOK
  <2> QED BY <1>1, <2>1, <2>2, <2>3, LoadLess
<1> QED BY <1>3, <1>5, <1>6, <1>7 DEF ListInd, ListTypes, LoadOK

\* A request that ends.
LEMMA FinishTurn ==
  ASSUME ListInd, NEW p \in Proc, Finish(p), Scans(p, NoScan),
         UNCHANGED <<now, db, nextId, revived>>
  PROVE  ScanTurn(p)
<1>1. PointsOK /\ NoScan \in ScanState
  BY ScanOfType DEF ListInd, ListTypes
<1>2. Moved(p) /\ op'[p] = Idle /\ ScanMoved(p) /\ scan'[p] = NoScan
  BY <1>1, ListFinish, ListScans
<1>3. PointOK(Idle, NoScan)
  BY <1>1, IdlePoint
<1>4. Idle.pc = "idle" /\ Idle.act = "none"
  BY DEF Idle, Begun
<1> QED BY <1>2, <1>3, <1>4 DEF ScanTurn, ListedOK, Claims, Creates

\* Names are those of the keys stored.
LEMMA SameNames ==
  ASSUME NEW d, NEW A, NEW B, \A k \in DOMAIN d : k \in A <=> k \in B
  PROVE  Names(d, A) = Names(d, B)
<1>1. DOMAIN d \cap A = DOMAIN d \cap B
  OBVIOUS
<1> QED BY <1>1 DEF Names

\* A call adds to the count at least what it takes from the outlook.
LEMMA VisitedOutlook ==
  ASSUME NEW d, NEW todo \in SUBSET Keys, NEW seen \in SUBSET todo, NEW n \in Nat, NEW m \in Nat,
         m >= n + Cardinality(DOMAIN d \cap seen)
  PROVE  /\ n + Cardinality(DOMAIN d \cap todo) <= m + Cardinality(DOMAIN d \cap (todo \ seen))
         /\ Cardinality(DOMAIN d \cap todo) \in Nat /\ Cardinality(DOMAIN d \cap (todo \ seen)) \in Nat
<1> DEFINE A == DOMAIN d \cap seen
           B == DOMAIN d \cap (todo \ seen)
           C == DOMAIN d \cap todo
<1>1. IsFiniteSet(Keys)
  BY KeyAssumption, FS_Union DEF Keys
<1>2. IsFiniteSet(A) /\ IsFiniteSet(B)
  BY <1>1, FS_Subset
<1>3. A \cup B = C /\ A \cap B = {}
  OBVIOUS
<1>4. m >= n + Cardinality(A)
  OBVIOUS
<1> HIDE DEF A, B, C
<1>5. Cardinality(C) = Cardinality(A) + Cardinality(B)
  <2>1. Cardinality(A \cap B) = 0
    BY <1>3, FS_EmptySet
  <2>2. Cardinality(A \cup B) = Cardinality(A) + Cardinality(B) - Cardinality(A \cap B)
    BY <1>2, FS_Union
  <2>3. Cardinality(A) \in Nat /\ Cardinality(B) \in Nat
    BY <1>2, FS_CardinalityType
  <2>4. Cardinality(A \cup B) = Cardinality(C)
    BY <1>3, Zenon
  <2> QED BY <2>1, <2>2, <2>3, <2>4
<1>6. Cardinality(A) \in Nat /\ Cardinality(B) \in Nat
  BY <1>2, FS_CardinalityType
<1>7. n + Cardinality(C) <= m + Cardinality(B) /\ Cardinality(C) \in Nat
  BY <1>4, <1>5, <1>6
<1> QED BY <1>6, <1>7 DEF B, C

\* What a request at a call of SCAN is like.
LEMMA CallAt ==
  ASSUME ListInd, NEW p \in Proc, NEW seen, NEW again \in {0, 1}, Call(p, seen, again)
  PROVE  /\ PointsOK /\ ListFrameOK /\ PointOK(op[p], scan[p]) /\ ListedOK(op[p], scan[p], db)
         /\ op[p] \in ListOperation /\ scan[p] \in ScanState
         /\ op[p].pc \in {"count", "scan"} /\ seen \in SUBSET scan[p].todo /\ seen \in SUBSET Keys
         /\ Tally(p, seen, again) \in Nat
         /\ op[p].act # "list" =>
              Tally(p, seen, again) >= op[p].n + Cardinality(DOMAIN db \cap seen)
         /\ UNCHANGED <<now, db, nextId>>
<1>1. PointsOK /\ ListFrameOK /\ ListedOK(op[p], scan[p], db)
  BY DEF ListInd, ListTypes
<1>2. PointOK(op[p], scan[p]) /\ op[p] \in ListOperation /\ scan[p] \in ScanState
  BY <1>1, PointAt
<1>3. op[p].pc \in {"count", "scan"} /\ seen \subseteq scan[p].todo /\ UNCHANGED <<now, db, nextId>>
  BY DEF Call
<1>4. seen \in SUBSET Keys
  BY <1>2, <1>3 DEF ScanState
<1> QED BY <1>1, <1>2, <1>3, <1>4, TallyType

\* A call that is not the last one.
LEMMA ScanMoreTurn ==
  ASSUME ListInd, NEW p \in Proc, NEW seen, NEW again \in {0, 1}, ScanMore(p, seen, again),
         UNCHANGED revived
  PROVE  ScanTurn(p)
<1>1. Call(p, seen, again)
  BY DEF ScanMore
<1> DEFINE n == Tally(p, seen, again)
           s == Visited(p, seen)
<1>2. /\ PointsOK /\ ListFrameOK /\ PointOK(op[p], scan[p]) /\ ListedOK(op[p], scan[p], db)
      /\ op[p] \in ListOperation /\ scan[p] \in ScanState
      /\ op[p].pc \in {"count", "scan"} /\ seen \in SUBSET scan[p].todo /\ seen \in SUBSET Keys
      /\ n \in Nat /\ UNCHANGED <<now, db, nextId>>
      /\ op[p].act # "list" => n >= op[p].n + Cardinality(DOMAIN db \cap seen)
  <2>1. /\ PointsOK /\ ListFrameOK /\ PointOK(op[p], scan[p]) /\ ListedOK(op[p], scan[p], db)
        /\ op[p] \in ListOperation /\ scan[p] \in ScanState
    BY <1>1, CallAt
  <2>2. op[p].pc \in {"count", "scan"} /\ seen \in SUBSET scan[p].todo /\ seen \in SUBSET Keys
    BY <1>1, <2>1 DEF Call, ScanState
  <2>3. /\ n \in Nat /\ UNCHANGED <<now, db, nextId>>
        /\ op[p].act # "list" => n >= op[p].n + Cardinality(DOMAIN db \cap seen)
    BY <1>1, CallAt
  <2> QED BY <2>1, <2>2, <2>3
<1>3. op' = [op EXCEPT ![p].pc = op[p].pc, ![p].n = n]
  BY <1>2 DEF ScanMore, PointsOK, ListOperation
<1>4. /\ s \in ScanState /\ s.todo = scan[p].todo \ seen
      /\ s.found = scan[p].found \cup (DOMAIN db \cap seen)
      /\ s.got = scan[p].got /\ s.missed = scan[p].missed /\ s.through = scan[p].through
  BY <1>2, VisitedType
<1>5. ScanMoved(p) /\ scan'[p] = s
  BY <1>2, ListScans DEF ScanMore
<1> HIDE DEF n, s
<1>6. /\ Moved(p) /\ op'[p] \in ListOperation /\ op'[p].pc = op[p].pc /\ op'[p].act = op[p].act
      /\ op'[p].key = op[p].key /\ op'[p].n = n
  <2>1. op[p].pc \in Points /\ PointsOK /\ n \in Nat
    BY <1>2 DEF ListOperation
  <2> QED BY <1>3, <2>1, ListTally
<1>7. PointOK(op'[p], s)
  BY <1>2, <1>4, <1>6 DEF PointOK
<1>8. ListedOK(op'[p], s, db)
  <2>1. SUFFICES ASSUME op[p].pc = "scan"
                 PROVE  s.through \subseteq Tried(s) \cup Names(db, s.todo \cup s.found)
    BY <1>2, <1>6 DEF ListedOK, Ahead
  <2>2. scan[p].through \subseteq Tried(scan[p]) \cup Names(db, scan[p].todo \cup scan[p].found)
    BY <1>2, <1>4, <2>1 DEF ListedOK, Ahead
  <2>3. Names(db, s.todo \cup s.found) = Names(db, scan[p].todo \cup scan[p].found)
    <3>1. \A k \in DOMAIN db : k \in s.todo \cup s.found <=> k \in scan[p].todo \cup scan[p].found
      BY <1>2, <1>4
    <3> QED BY <3>1, SameNames
  <2> QED BY <1>4, <2>2, <2>3 DEF Tried
<1>9. ASSUME NEW a \in Creates, NEW c \in Int, Claims(op'[p], s, db, a, c)
      PROVE  Claims(op[p], scan[p], db, a, c)
  <2>1. op[p].act = a /\ op[p].pc = "scan" /\ n + Cardinality(DOMAIN db \cap s.todo) <= c
    BY <1>2, <1>6, <1>9 DEF Claims, Outlook
  <2>2. scan[p].todo \in SUBSET Keys /\ op[p].n \in Nat /\ a # "list"
    BY <1>2 DEF ScanState, ListOperation, Creates
  <2>3. /\ op[p].n + Cardinality(DOMAIN db \cap scan[p].todo) <= n + Cardinality(DOMAIN db \cap s.todo)
        /\ Cardinality(DOMAIN db \cap scan[p].todo) \in Nat
        /\ Cardinality(DOMAIN db \cap s.todo) \in Nat
    BY <1>2, <1>4, <2>1, <2>2, VisitedOutlook
  <2>4. op[p].n + Cardinality(DOMAIN db \cap scan[p].todo) <= c
    BY <1>2, <2>1, <2>2, <2>3
  <2> QED BY <2>1, <2>4 DEF Claims, Outlook
<1> QED BY <1>2, <1>5, <1>6, <1>7, <1>8, <1>9 DEF ScanTurn

\* The first scan of a TCP create ends and the second begins.
LEMMA CountPortsTurn ==
  ASSUME ListInd, NEW p \in Proc, NEW seen, NEW again \in {0, 1}, CountPorts(p, seen, again),
         UNCHANGED revived
  PROVE  ScanTurn(p)
<1>1. Call(p, seen, again) /\ At(p, "count")
  BY DEF CountPorts
<1> DEFINE n == Tally(p, seen, again)
           s == ScanOf(Ports)
<1>2. /\ PointsOK /\ ListFrameOK /\ PointOK(op[p], scan[p]) /\ n \in Nat
      /\ UNCHANGED <<now, db, nextId>>
  BY <1>1, CallAt
<1>3. s \in ScanState /\ s.todo = Ports /\ s.through = Names(db, Ports)
  <2>1. Ports \in SUBSET Keys
    BY DEF Keys
  <2> QED BY <1>2, <2>1, ScanOfType
<1>4. ScanMoved(p) /\ scan'[p] = s
  BY <1>2, ListScans DEF CountPorts
<1>5. op' = [op EXCEPT ![p].pc = "scan", ![p].n = n]
  BY DEF CountPorts
<1> HIDE DEF n, s
<1>6. /\ Moved(p) /\ op'[p] \in ListOperation /\ op'[p].pc = "scan"
      /\ op'[p].act = op[p].act /\ op'[p].n = n
  BY <1>2, <1>5, ListTally DEF Points
<1>7. op'[p].act = "create_tcp"
  BY <1>1, <1>2, <1>6 DEF PointOK, At
<1>8. PointOK(op'[p], s)
  BY <1>3, <1>6, <1>7 DEF PointOK, Creates, KeysOf
<1>9. ListedOK(op'[p], s, db)
  BY <1>3, <1>6 DEF ListedOK, Ahead, Names
<1>10. ASSUME NEW a \in Creates, NEW c \in Int, Claims(op'[p], s, db, a, c)
       PROVE  StoredOf(db, a) <= c
  <2>1. a = "create_tcp" /\ n + Cardinality(DOMAIN db \cap Ports) <= c
    BY <1>3, <1>6, <1>7, <1>10 DEF Claims, Outlook
  <2>2. StoredOf(db, a) = Cardinality(DOMAIN db \cap Ports) /\ StoredOf(db, a) \in Nat
    BY <2>1, LoadTypes DEF StoredOf, KeysOf
  <2> QED BY <1>2, <2>1, <2>2
<1> QED BY <1>2, <1>4, <1>6, <1>8, <1>9, <1>10 DEF ScanTurn

\* The last call of a count: a create is admitted if it found room.
LEMMA CountDoneTurn ==
  ASSUME ListInd, NEW p \in Proc, NEW seen, NEW again \in {0, 1}, CountDone(p, seen, again),
         UNCHANGED revived
  PROVE  ScanTurn(p)
<1>1. /\ Call(p, seen, again) /\ Last(p, seen) /\ At(p, "scan") /\ op[p].act \in Creates
      /\ Scans(p, NoScan)
  BY DEF CountDone
<1> DEFINE n == Tally(p, seen, again)
<1>2. /\ PointsOK /\ ListFrameOK /\ PointOK(op[p], scan[p]) /\ n \in Nat
      /\ UNCHANGED <<now, db, nextId>> /\ NoScan \in ScanState
      /\ n >= op[p].n + Cardinality(DOMAIN db \cap scan[p].todo)
      /\ op[p].n \in Nat /\ scan[p].todo \in SUBSET Keys
  <2>1. /\ PointsOK /\ ListFrameOK /\ PointOK(op[p], scan[p]) /\ n \in Nat
        /\ UNCHANGED <<now, db, nextId>> /\ op[p] \in ListOperation /\ scan[p] \in ScanState
        /\ op[p].act # "list" => n >= op[p].n + Cardinality(DOMAIN db \cap seen)
    BY <1>1, CallAt
  <2>2. op[p].act # "list" /\ scan[p].todo = seen
    BY <1>1 DEF Last, Creates
  <2>3. NoScan \in ScanState
    BY <2>1, ScanOfType
  <2> HIDE DEF n
  <2> QED BY <2>1, <2>2, <2>3 DEF ListOperation, ScanState
<1>3. CASE n < MaxTunnels
  <2>1. Goto(p, "pick")
    BY <1>3 DEF CountDone
  <2> HIDE DEF n
  <2>2. Moved(p) /\ op'[p] \in ListOperation /\ op'[p].pc = "pick" /\ op'[p].act = op[p].act
    BY <1>2, <2>1, ListGoto DEF Points
  <2>3. ScanMoved(p) /\ scan'[p] = NoScan
    BY <1>1, <1>2, ListScans
  <2>4. PointOK(op'[p], NoScan) /\ ListedOK(op'[p], NoScan, db)
    BY <1>1, <1>2, <2>2 DEF PointOK, ListedOK
  <2>5. ASSUME NEW a \in Creates, NEW c \in Int, c >= MaxTunnels - 1,
               Claims(op'[p], NoScan, db, a, c)
        PROVE  Claims(op[p], scan[p], db, a, c)
    <3>1. op[p].act = a /\ op[p].pc = "scan"
      BY <1>1, <2>2, <2>5 DEF Claims, At
    <3>2. Cardinality(DOMAIN db \cap scan[p].todo) \in Nat
      <4>1. IsFiniteSet(Keys)
        BY KeyAssumption, FS_Union DEF Keys
      <4>2. IsFiniteSet(DOMAIN db \cap scan[p].todo)
        BY <1>2, <4>1, FS_Subset
      <4> QED BY <4>2, FS_CardinalityType
    <3>3. op[p].n + Cardinality(DOMAIN db \cap scan[p].todo) <= c
      BY <1>2, <1>3, <2>5, <3>2, LimitAssumption
    <3> QED BY <3>1, <3>3 DEF Claims, Outlook
  <2> QED BY <1>2, <2>2, <2>3, <2>4, <2>5 DEF ScanTurn
<1>4. CASE ~(n < MaxTunnels)
  <2>1. Finish(p)
    BY <1>4 DEF CountDone
  <2> QED BY <1>1, <1>2, <2>1, FinishTurn
<1> QED BY <1>3, <1>4

\* A create begins to count: all keys it will count are ahead of it.
LEMMA BeginCountTurn ==
  ASSUME ListInd, NEW p \in Proc, NEW act \in Creates, NEW m \in Requested,
         BeginCount(p, act, m), UNCHANGED revived
  PROVE  ScanTurn(p)
<1> DEFINE pc == IF act = "create_tcp" THEN "count" ELSE "scan"
           o == Begun(pc, act, NoKey, m, NoRecord, 0)
           s == ScanOf(Subdomains)
<1>1. /\ Begin(p, o) /\ Scans(p, s) /\ UNCHANGED <<now, db, nextId, revived>>
      /\ PointsOK /\ ListFrameOK
  BY DEF BeginCount, ListInd, ListTypes
<1>2. s \in ScanState /\ s.todo = Subdomains /\ s.through = Names(db, Subdomains)
  <2>1. Subdomains \in SUBSET Keys
    BY DEF Keys
  <2> QED BY <1>1, <2>1, ScanOfType
<1>3. /\ o \in ListOperation /\ o.act = act /\ o.n = 0
      /\ o.pc = IF act = "create_tcp" THEN "count" ELSE "scan"
  <2>1. m \in Int /\ pc \in Points /\ NoRecord \in Record
    BY InputAssumption DEF Points, NoRecord, Record, Requested
  <2> QED BY <2>1 DEF Begun, ListOperation
<1> HIDE DEF o, s, pc
<1>4. Moved(p) /\ op'[p] = o /\ ScanMoved(p) /\ scan'[p] = s
  BY <1>1, ListBegin, ListScans
<1>5. PointOK(o, s)
  BY <1>2, <1>3 DEF PointOK, Creates, KeysOf
<1>6. ListedOK(o, s, db)
  BY <1>2, <1>3 DEF ListedOK, Ahead, Names
<1>7. ASSUME NEW a \in Creates, NEW c \in Int, Claims(o, s, db, a, c)
      PROVE  StoredOf(db, a) <= c
  <2>1. a = "create_http" /\ 0 + Cardinality(DOMAIN db \cap Subdomains) <= c
    BY <1>2, <1>3, <1>7 DEF Claims, Outlook, Creates
  <2>2. StoredOf(db, a) = Cardinality(DOMAIN db \cap Subdomains) /\ StoredOf(db, a) \in Nat
    BY <2>1, LoadTypes DEF StoredOf, KeysOf
  <2> QED BY <2>1, <2>2
<1>8. o.pc \notin {"stamp", "store"}
  BY <1>3
<1> QED BY <1>1, <1>4, <1>5, <1>6, <1>7, <1>8 DEF ScanTurn

\* A listing begins: all tunnels stored are ahead of it.
LEMMA BeginListTurn ==
  ASSUME ListInd, NEW p \in Proc, NEW ks \in {Subdomains, Ports}, BeginList(p, ks),
         UNCHANGED revived
  PROVE  ScanTurn(p)
<1> DEFINE o == Begun("scan", "list", NoKey, 0, NoRecord, 0)
           s == ScanOf(ks)
<1>1. /\ Begin(p, o) /\ Scans(p, s) /\ UNCHANGED <<now, db, nextId, revived>>
      /\ PointsOK /\ ListFrameOK
  BY DEF BeginList, ListInd, ListTypes
<1>2. s \in ScanState /\ s.todo = ks /\ s.through = Names(db, ks)
  <2>1. ks \in SUBSET Keys
    BY DEF Keys
  <2> QED BY <1>1, <2>1, ScanOfType
<1>3. o \in ListOperation /\ o.act = "list" /\ o.pc = "scan"
  <2>1. NoRecord \in Record
    BY DEF NoRecord, Record
  <2> QED BY <2>1 DEF Begun, ListOperation, Points
<1> HIDE DEF o, s
<1>4. Moved(p) /\ op'[p] = o /\ ScanMoved(p) /\ scan'[p] = s
  BY <1>1, ListBegin, ListScans
<1>5. PointOK(o, s)
  BY <1>2, <1>3 DEF PointOK, Creates
<1>6. ListedOK(o, s, db)
  BY <1>2, <1>3 DEF ListedOK, Ahead, Names
<1>7. ASSUME NEW a \in Creates, NEW c \in Int PROVE ~Claims(o, s, db, a, c)
  BY <1>3 DEF Claims, Creates
<1>8. o.pc \notin {"stamp", "store"}
  BY <1>3
<1> QED BY <1>1, <1>4, <1>5, <1>6, <1>7, <1>8 DEF ScanTurn

\* A listing goes on to the keys ks it still has to fetch, with a scan at s.
LEMMA FetchTurn ==
  ASSUME ListInd, NEW p \in Proc, op[p].act = "list", NEW s \in ScanState,
         Goto(p, ListPC(s.found)), Scans(p, s), UNCHANGED <<now, db, nextId, revived>>,
         s.through \subseteq Tried(s) \cup Names(db, s.found)
  PROVE  ScanTurn(p)
<1>1. PointsOK /\ ListPC(s.found) \in {"get", "answer"}
  BY DEF ListInd, ListTypes, ListPC
<1>2. /\ Moved(p) /\ op'[p] \in ListOperation /\ op'[p].pc = ListPC(s.found)
      /\ op'[p].act = "list"
  BY <1>1, ListGoto DEF Points
<1>3. ScanMoved(p) /\ scan'[p] = s
  BY <1>1, ListScans
<1>4. PointOK(op'[p], s)
  BY <1>1, <1>2 DEF PointOK, Creates
<1>5. Ahead(op'[p], s) = s.found
  BY <1>2 DEF Ahead, ListPC
<1>6. ListedOK(op'[p], s, db)
  BY <1>5 DEF ListedOK
<1>7. ASSUME NEW a \in Creates, NEW c \in Int PROVE ~Claims(op'[p], s, db, a, c)
  BY <1>2 DEF Claims, Creates
<1> QED BY <1>1, <1>2, <1>3, <1>4, <1>6, <1>7 DEF ScanTurn

\* The last call of a listing's scan.
LEMMA ListScannedTurn ==
  ASSUME ListInd, NEW p \in Proc, NEW seen, NEW again \in {0, 1}, ListScanned(p, seen, again),
         UNCHANGED revived
  PROVE  ScanTurn(p)
<1>1. /\ Call(p, seen, again) /\ Last(p, seen) /\ At(p, "scan") /\ op[p].act = "list"
      /\ UNCHANGED <<now, db, nextId, revived>>
  BY DEF ListScanned, Call
<1> DEFINE s == Visited(p, seen)
<1>2. ListFrameOK /\ ListedOK(op[p], scan[p], db) /\ scan[p] \in ScanState
  BY PointAt DEF ListInd, ListTypes
<1>3. seen \in SUBSET scan[p].todo
  BY <1>1 DEF Call
<1>4. /\ s \in ScanState /\ s.found = scan[p].found \cup (DOMAIN db \cap seen)
      /\ s.got = scan[p].got /\ s.missed = scan[p].missed /\ s.through = scan[p].through
  BY <1>2, <1>3, VisitedType
<1>5. Goto(p, ListPC(s.found)) /\ Scans(p, s)
  BY DEF ListScanned
<1> HIDE DEF s
<1>6. s.through \subseteq Tried(s) \cup Names(db, s.found)
  <2>1. scan[p].through \subseteq Tried(scan[p]) \cup Names(db, scan[p].todo \cup scan[p].found)
    BY <1>1, <1>2 DEF ListedOK, Ahead, At
  <2>2. \A k \in DOMAIN db : k \in s.found <=> k \in scan[p].todo \cup scan[p].found
    BY <1>1, <1>4 DEF Last
  <2>3. Names(db, s.found) = Names(db, scan[p].todo \cup scan[p].found)
    BY <2>2, SameNames
  <2> QED BY <1>4, <2>1, <2>3 DEF Tried
<1> QED BY <1>1, <1>4, <1>5, <1>6, FetchTurn

\* A GET: the tunnel it finds is no longer ahead but shown.
LEMMA GetTurn ==
  ASSUME ListInd, NEW p \in Proc, NEW k \in scan[p].found, Fetch(p, k) \/ FetchFails(p, k),
         UNCHANGED revived
  PROVE  ScanTurn(p)
<1>1. At(p, "get") /\ UNCHANGED <<now, db, nextId, revived>>
  BY DEF Fetch, FetchFails
<1>2. /\ ListFrameOK /\ ListedOK(op[p], scan[p], db) /\ scan[p] \in ScanState
      /\ PointOK(op[p], scan[p])
  BY PointAt DEF ListInd, ListTypes
<1>3. op[p].act = "list"
  BY <1>1, <1>2 DEF PointOK, At
<1> DEFINE x == Names(db, {k})
<1>4. x \subseteq Nat
  BY <1>2, NamesType
<1>5. Names(db, scan[p].found) \subseteq x \cup Names(db, scan[p].found \ {k})
  BY DEF Names
<1>6. PICK s : /\ \/ s = [scan[p] EXCEPT !.found = @ \ {k}, !.got = @ \cup x]
                  \/ s = [scan[p] EXCEPT !.found = @ \ {k}, !.missed = @ \cup x]
               /\ Goto(p, ListPC(scan[p].found \ {k})) /\ Scans(p, s)
  BY DEF Fetch, FetchFails
<1> HIDE DEF x
<1>7. /\ s \in ScanState /\ s.found = scan[p].found \ {k}
      /\ Tried(s) = Tried(scan[p]) \cup x /\ s.through = scan[p].through
  BY <1>2, <1>4, <1>6 DEF ScanState, Tried
<1>8. scan[p].through \subseteq Tried(scan[p]) \cup Names(db, scan[p].found)
  BY <1>1, <1>2 DEF ListedOK, Ahead, At
<1>9. s.through \subseteq Tried(s) \cup Names(db, s.found)
  BY <1>5, <1>7, <1>8
<1>10. Goto(p, ListPC(s.found)) /\ Scans(p, s)
  BY <1>6, <1>7
<1> QED BY <1>1, <1>3, <1>7, <1>9, <1>10, FetchTurn

\* Every step of a scan keeps the invariant.
LEMMA ScanStepInd ==
  ASSUME ListInd, NEW p \in Proc, ScanStep(p), UNCHANGED revived
  PROVE  ListInd'
<1>1. CASE ScanError(p) \/ Answer(p)
  BY <1>1, FinishTurn, ScanTurnInd DEF ScanError, Answer
<1>2. ASSUME NEW act \in Creates, NEW m \in Requested, BeginCount(p, act, m) PROVE ListInd'
  BY <1>2, BeginCountTurn, ScanTurnInd
<1>3. ASSUME NEW ks \in {Subdomains, Ports}, BeginList(p, ks) PROVE ListInd'
  BY <1>3, BeginListTurn, ScanTurnInd
<1>4. ASSUME NEW seen \in SUBSET scan[p].todo, NEW again \in {0, 1},
             \/ ScanMore(p, seen, again) \/ CountPorts(p, seen, again)
             \/ CountDone(p, seen, again) \/ ListScanned(p, seen, again)
      PROVE  ListInd'
  <2>1. ScanTurn(p)
    BY <1>4, ScanMoreTurn, CountPortsTurn, CountDoneTurn, ListScannedTurn
  <2> QED BY <2>1, ScanTurnInd
<1>5. ASSUME NEW k \in scan[p].found, Fetch(p, k) \/ FetchFails(p, k) PROVE ListInd'
  BY <1>5, GetTurn, ScanTurnInd
<1> QED BY <1>1, <1>2, <1>3, <1>4, <1>5 DEF ScanStep

-----------------------------------------------------------------------------
(* A step of the service, or an eviction.                                  *)

Watch == scan' = [q \in Proc |-> Watched(scan[q])]
PlacesKept == \A i \in Nat, k \in Keys : StoredAt(db, i, k)' => Located(i, k)
DbTyped == DOMAIN db' \subseteq Keys /\ \A k \in DOMAIN db' : db'[k] \in Entry

\* What such a step of request p has in common with the others: no tunnel comes
\* to a key that was not its own, and p claims no more than it did.
ServiceTurn(p) ==
  /\ Moved(p) /\ now' = now /\ Watch /\ PlacesKept /\ DbTyped
  /\ PointOK(op'[p], scan[p]) /\ ListedOK(op'[p], scan[p], db)
  /\ \A a \in Creates, c \in Int :
       Claims(op'[p], scan[p], db, a, c) => Claims(op[p], scan[p], db, a, c)

\* It holds no tunnel that it did not hold or read.
HoldsNoNew(p) == \A i \in Nat, k \in Keys : HeldAt(op'[p], i, k) => Located(i, k)

\* A listing still has ahead what it had, of the tunnels still stored.
LEMMA WatchedListed ==
  ASSUME NamesApart, NEW o, NEW s, PointOK(o, s), ListedOK(o, s, db), PlacesKept
  PROVE  ListedOK(o, Watched(s), db')
<1> DEFINE w == Watched(s)
<1>1. /\ w.todo = s.todo /\ w.found = s.found /\ w.got = s.got
      /\ w.missed = s.missed /\ w.through = s.through \cap Names(db', Keys)
  BY WatchedPoint
<1> HIDE DEF w
<1>2. SUFFICES ASSUME o.pc \in {"scan", "get", "answer"},
                      NEW i \in w.through, i \notin Tried(s)
               PROVE  i \in Names(db', Ahead(o, w))
  BY <1>1 DEF ListedOK, Tried, w
<1>3. s \in ScanState
  BY DEF PointOK
<1>4. i \in s.through /\ i \in Nat /\ i \in Names(db', Keys)
  BY <1>1, <1>2, <1>3 DEF ScanState
<1>5. PICK k \in Keys : StoredAt(db', i, k)
  BY <1>4 DEF Names, StoredAt
<1>6. i \in Names(db, Ahead(o, s))
  BY <1>2, <1>4 DEF ListedOK
<1>7. Ahead(o, s) \subseteq Keys /\ Ahead(o, w) = Ahead(o, s)
  BY <1>1, <1>3 DEF Ahead, ScanState
<1>8. PICK l \in Ahead(o, s) : StoredAt(db, i, l)
  BY <1>6 DEF Names, StoredAt
<1>9. Located(i, k) /\ Located(i, l) /\ l \in Keys
  BY <1>4, <1>5, <1>7, <1>8 DEF PlacesKept, Located, StoredAt
<1>10. k = l
  BY <1>4, <1>9 DEF NamesApart
<1> QED BY <1>5, <1>7, <1>8, <1>10 DEF Names, StoredAt

\* Types and listings after such a step.
LEMMA ServiceTypes ==
  ASSUME ListInd, NEW p \in Proc, ServiceTurn(p), nextId' \in Nat \ {0}, revived' \in Nat
  PROVE  ListTypes' /\ \A q \in Proc : ListedOK(op'[q], scan'[q], db')
<1>1. PointsOK /\ ListFrameOK /\ NamesApart /\ \A q \in Proc : ListedOK(op[q], scan[q], db)
  BY DEF ListInd, ListTypes
<1>2. PointsOK'
  BY <1>1, PointWatched DEF ServiceTurn, Watch
<1>3. ListFrameOK'
  BY <1>1 DEF ServiceTurn, DbTyped, ListFrameOK
<1>4. ASSUME NEW q \in Proc PROVE ListedOK(op'[q], scan'[q], db')
  <2>1. scan'[q] = Watched(scan[q]) /\ PlacesKept
    BY DEF ServiceTurn, Watch
  <2>2. PointOK(op'[q], scan[q]) /\ ListedOK(op'[q], scan[q], db)
    BY <1>1 DEF ServiceTurn, Moved, PointsOK
  <2> QED BY <1>1, <2>1, <2>2, WatchedListed
<1> QED BY <1>2, <1>3, <1>4 DEF ListTypes

\* Names after such a step, unless a new one is given.
LEMMA NamesKept ==
  ASSUME ListInd, NEW p \in Proc, Moved(p), PlacesKept, HoldsNoNew(p), nextId' = nextId
  PROVE  NamesApart'
<1>1. ASSUME NEW i \in Nat, NEW k \in Keys, Located(i, k)' PROVE Located(i, k)
  <2>1. StoredAt(db, i, k)' => Located(i, k)
    BY DEF PlacesKept
  <2>2. ASSUME NEW q \in Proc, HeldAt(op'[q], i, k) PROVE Located(i, k)
    BY <2>2 DEF Moved, HoldsNoNew, Located
  <2> QED BY <1>1, <2>1, <2>2 DEF Located
<1> QED BY <1>1 DEF ListInd, NamesApart

\* The history of revived tunnels counts each extension that revives one.
LEMMA RevivalsCount ==
  ASSUME ListInd, revived' = revived + Revivals
  PROVE  /\ revived' \in Nat /\ revived' >= revived
         /\ \A p \in Proc : (/\ At(p, "store") /\ op[p].act = "extend" /\ op[p] # op'[p]
                             /\ op[p].key \in DOMAIN db' \ DOMAIN db)
                            => revived' >= revived + 1
<1> DEFINE R == {p \in Proc : /\ At(p, "store") /\ op[p].act = "extend"
                              /\ op[p] # op'[p]
                              /\ op[p].key \in DOMAIN db' \ DOMAIN db}
<1>1. Revivals = Cardinality(R) /\ R \in SUBSET Proc
  BY DEF Revivals
<1>2. revived \in Nat
  BY DEF ListInd, ListTypes, ListFrameOK
<1> HIDE DEF R
<1>3. IsFiniteSet(R) /\ Cardinality(R) \in Nat
  BY <1>1, ProcAssumption, FS_Subset, FS_CardinalityType
<1>4. ASSUME NEW p \in R PROVE Cardinality(R) >= 1
  <2>1. Cardinality(R) # 0
    BY <1>3, FS_EmptySet
  <2> QED BY <1>3, <2>1
<1>5. revived' \in Nat /\ revived' >= revived /\ \A p \in R : revived' >= revived + 1
  BY <1>1, <1>2, <1>3, <1>4
<1> QED BY <1>5 DEF R

\* Where keys are added a count has no less ahead; where one key of its kind
\* goes, one less at most; and where another goes, no less.
LEMMA OutlookMoves ==
  ASSUME NEW o, NEW s, PointOK(o, s), NEW s2, s2.todo = s.todo, NEW d, NEW d2,
         NEW a \in Creates, NEW c \in Int, Claims(o, s2, d2, a, c)
  PROVE  /\ DOMAIN d \subseteq DOMAIN d2 => Claims(o, s, d, a, c)
         /\ \A k : DOMAIN d2 = DOMAIN d \ {k} =>
              /\ Claims(o, s, d, a, c + 1)
              /\ k \notin DOMAIN d \cap KeysOf(a) => Claims(o, s, d, a, c)
<1>1. CASE o.pc # "scan"
  BY <1>1 DEF Claims
<1>2. CASE o.pc = "scan"
  <2> DEFINE A == DOMAIN d \cap s.todo
             B == DOMAIN d2 \cap s.todo
  <2>1. /\ o.act = a /\ o.n \in Nat /\ s.todo \in SUBSET KeysOf(a) /\ o.n + Cardinality(B) <= c
        /\ \A e \in Int : o.n + Cardinality(A) <= e => Claims(o, s, d, a, e)
    BY <1>2 DEF Claims, Outlook, PointOK, ListOperation
  <2>2. IsFiniteSet(KeysOf(a))
    BY KeyAssumption DEF KeysOf
  <2>3. IsFiniteSet(A) /\ IsFiniteSet(B)
    BY <2>1, <2>2, FS_Subset
  <2>4. Cardinality(A) \in Nat /\ Cardinality(B) \in Nat
    BY <2>3, FS_CardinalityType
  <2>5. ASSUME DOMAIN d \subseteq DOMAIN d2 PROVE Claims(o, s, d, a, c)
    <3>1. A \subseteq B
      BY <2>5
    <3> HIDE DEF A, B
    <3>2. Cardinality(A) <= Cardinality(B)
      BY <2>3, <3>1, FS_Subset
    <3> QED BY <2>1, <2>4, <3>2
  <2>6. ASSUME NEW k, DOMAIN d2 = DOMAIN d \ {k}
        PROVE  /\ Claims(o, s, d, a, c + 1)
               /\ k \notin DOMAIN d \cap KeysOf(a) => Claims(o, s, d, a, c)
    <3>1. B = A \ {k} /\ (k \notin DOMAIN d \cap KeysOf(a) => k \notin A)
      BY <2>1, <2>6
    <3> HIDE DEF A, B
    <3>2. Cardinality(B) = IF k \in A THEN Cardinality(A) - 1 ELSE Cardinality(A)
      BY <2>3, <3>1, FS_RemoveElement
    <3> QED BY <2>1, <2>4, <3>1, <3>2
  <2> QED BY <2>5, <2>6
<1> QED BY <1>1, <1>2

\* A step of request p that drops no key.
LEMMA ClaimsKept ==
  ASSUME ListInd, NEW p \in Proc, ServiceTurn(p), DOMAIN db \subseteq DOMAIN db',
         NEW a \in Creates, NEW c \in Int
  PROVE  /\ Claimants(op', scan', db', a, c) \subseteq Claimants(op, scan, db, a, c)
         /\ op'[p].act # a \/ op'[p].pc \notin {"pick", "stamp", "store", "scan"}
              => p \notin Claimants(op', scan', db', a, c)
<1>1. ASSUME NEW q \in Proc, Claims(op'[q], scan'[q], db', a, c)
      PROVE  Claims(op[q], scan[q], db, a, c)
  <2>1. PointOK(op'[q], scan[q])
    BY DEF ServiceTurn, Moved, ListInd, ListTypes, PointsOK
  <2>2. scan'[q].todo = scan[q].todo
    BY <2>1, WatchedPoint DEF ServiceTurn, Watch
  <2>3. Claims(op'[q], scan[q], db, a, c)
    BY <1>1, <2>1, <2>2, OutlookMoves
  <2> QED BY <2>3 DEF ServiceTurn, Moved
<1> QED BY <1>1 DEF Claimants, Claims

\* A step that stores no key, or as many as it revives.
LEMMA KeptLoad ==
  ASSUME ListInd, NEW p \in Proc, ServiceTurn(p), DOMAIN db \subseteq DOMAIN db',
         NEW a \in Creates, revived' \in Nat,
         StoredOf(db', a) - revived' <= StoredOf(db, a) - revived
  PROVE  LoadAt(op', scan', db', revived', a)
<1>1. revived \in Nat /\ LoadAt(op, scan, db, revived, a)
  BY DEF ListInd, ListTypes, ListFrameOK, LoadOK
<1>2. \A c \in Int : Claimants(op', scan', db', a, c) \subseteq Claimants(op, scan, db, a, c)
  BY ClaimsKept
<1> QED BY <1>1, <1>2, LoadLess

\* A step that drops the key k.
LEMMA LostLoad ==
  ASSUME ListInd, NEW p \in Proc, ServiceTurn(p), NEW k, db' = Remove(db, k),
         revived' \in Nat, revived' >= revived
  PROVE  LoadOK'
<1>1. revived \in Nat /\ \A a \in Creates : LoadAt(op, scan, db, revived, a)
  BY DEF ListInd, ListTypes, ListFrameOK, LoadOK
<1>2. DOMAIN db' = DOMAIN db \ {k}
  BY DEF Remove
<1>3. ASSUME NEW q \in Proc, NEW a \in Creates, NEW c \in Int,
             Claims(op'[q], scan'[q], db', a, c)
      PROVE  /\ Claims(op[q], scan[q], db, a, c + 1)
             /\ k \notin DOMAIN db \cap KeysOf(a) => Claims(op[q], scan[q], db, a, c)
  <2>1. PointOK(op'[q], scan[q])
    BY DEF ServiceTurn, Moved, ListInd, ListTypes, PointsOK
  <2>2. scan'[q].todo = scan[q].todo
    BY <2>1, WatchedPoint DEF ServiceTurn, Watch
  <2>3. /\ Claims(op'[q], scan[q], db, a, c + 1)
        /\ k \notin DOMAIN db \cap KeysOf(a) => Claims(op'[q], scan[q], db, a, c)
    BY <1>2, <1>3, <2>1, <2>2, OutlookMoves
  <2>4. c + 1 \in Int
    OBVIOUS
  <2> QED BY <2>3, <2>4 DEF ServiceTurn, Moved
<1>4. ASSUME NEW a \in Creates PROVE LoadAt(op', scan', db', revived', a)
  <2>1. IsFiniteSet(DOMAIN db \cap KeysOf(a)) /\ StoredOf(db, a) \in Nat
    BY LoadTypes
  <2>2. DOMAIN db' \cap KeysOf(a) = (DOMAIN db \cap KeysOf(a)) \ {k}
    BY <1>2
  <2>3. CASE k \in DOMAIN db \cap KeysOf(a)
    <3>1. StoredOf(db', a) = StoredOf(db, a) - 1
      BY <2>1, <2>2, <2>3, FS_RemoveElement DEF StoredOf
    <3>2. \A c \in Int : Claimants(op', scan', db', a, c) \subseteq Claimants(op, scan, db, a, c + 1)
      BY <1>3 DEF Claimants
    <3> QED BY <1>1, <3>1, <3>2, LoadLost
  <2>4. CASE k \notin DOMAIN db \cap KeysOf(a)
    <3>1. StoredOf(db', a) = StoredOf(db, a)
      <4>1. DOMAIN db' \cap KeysOf(a) = DOMAIN db \cap KeysOf(a)
        BY <2>2, <2>4
      <4> QED BY <4>1 DEF StoredOf
    <3>2. \A c \in Int : Claimants(op', scan', db', a, c) \subseteq Claimants(op, scan, db, a, c)
      BY <1>3, <2>4 DEF Claimants
    <3>3. StoredOf(db', a) - revived' <= StoredOf(db, a) - revived
      BY <1>1, <2>1, <3>1
    <3> QED BY <1>1, <3>2, <3>3, LoadLess
  <2> QED BY <2>3, <2>4
<1> QED BY <1>4 DEF LoadOK

\* A step of p that stores a key: a create gives its claim for it, an extension
\* is counted if the key was gone.
LEMMA StoredLoad ==
  ASSUME ListInd, NEW p \in Proc, ServiceTurn(p), At(p, "store"), Stored(p),
         op'[p].pc \in {"start", "idle"}, revived' = revived + Revivals
  PROVE  LoadOK'
<1> DEFINE k == op[p].key
<1>1. revived \in Nat /\ \A a \in Creates : LoadAt(op, scan, db, revived, a)
  BY DEF ListInd, ListTypes, ListFrameOK, LoadOK
<1>2. DOMAIN db' = DOMAIN db \cup {k}
  BY DEF Stored, Put
<1>3. /\ op[p].act \in Creates \cup {"extend"}
      /\ op[p].act \in Creates => k \in KeysOf(op[p].act)
  BY PointAt DEF ListInd, ListTypes, PointOK, At
<1>4. revived' \in Nat /\ revived' >= revived
  BY RevivalsCount
<1>5. op[p].act = "extend" /\ k \notin DOMAIN db => revived' >= revived + 1
  <2>1. op[p] # op'[p]
    BY DEF At
  <2> QED BY <1>2, <2>1, RevivalsCount
<1>6. ASSUME NEW a \in Creates PROVE LoadAt(op', scan', db', revived', a)
  <2>1. IsFiniteSet(DOMAIN db \cap KeysOf(a)) /\ StoredOf(db, a) \in Nat
    BY LoadTypes
  <2>2. StoredOf(db', a) = IF k \in KeysOf(a) /\ k \notin DOMAIN db
                           THEN StoredOf(db, a) + 1 ELSE StoredOf(db, a)
    <3>1. CASE k \in KeysOf(a) /\ k \notin DOMAIN db
      <4>1. DOMAIN db' \cap KeysOf(a) = (DOMAIN db \cap KeysOf(a)) \cup {k}
        BY <1>2, <3>1
      <4>2. k \notin DOMAIN db \cap KeysOf(a)
        BY <3>1
      <4> QED BY <2>1, <3>1, <4>1, <4>2, FS_AddElement DEF StoredOf
    <3>2. CASE ~(k \in KeysOf(a) /\ k \notin DOMAIN db)
      <4>1. DOMAIN db' \cap KeysOf(a) = DOMAIN db \cap KeysOf(a)
        BY <1>2, <3>2
      <4> QED BY <3>2, <4>1 DEF StoredOf
    <3> QED BY <3>1, <3>2
  <2>3. DOMAIN db \subseteq DOMAIN db'
    BY <1>2
  <2>4. CASE StoredOf(db', a) - revived' <= StoredOf(db, a) - revived
    BY <1>4, <2>3, <2>4, KeptLoad
  <2>5. CASE op[p].act = a
    <3>1. \A c \in Int : p \in Claimants(op, scan, db, a, c)
      BY <2>5 DEF Claimants, Claims, At
    <3>2. \A c \in Int : Claimants(op', scan', db', a, c) \subseteq Claimants(op, scan, db, a, c) \ {p}
      BY <2>3, ClaimsKept
    <3>3. StoredOf(db', a) <= StoredOf(db, a) + 1
      BY <2>1, <2>2
    <3> QED BY <1>1, <1>4, <3>1, <3>2, <3>3, LoadTaken
  <2>6. CASE op[p].act # a
    <3>1. op[p].act \in Creates => k \notin KeysOf(a)
      BY <1>3, <2>6, KeyAssumption DEF Creates, KeysOf
    <3>2. StoredOf(db', a) - revived' <= StoredOf(db, a) - revived
      BY <1>1, <1>3, <1>4, <1>5, <2>1, <2>2, <3>1
    <3> QED BY <2>4, <3>2
  <2> QED BY <2>5, <2>6
<1> QED BY <1>6 DEF LoadOK

\* A step to a place where a request holds no record and claims nothing.
LEMMA PastTurn ==
  ASSUME ListInd, NEW p \in Proc, Moved(p), now' = now, Watch, PlacesKept, DbTyped,
         op'[p].pc \in {"idle", "start", "rollback"}, PointOK(op'[p], scan[p])
  PROVE  ServiceTurn(p) /\ HoldsNoNew(p)
  BY DEF ServiceTurn, HoldsNoNew, ListedOK, HeldAt, Claims

\* A request that ends.
LEMMA EndTurn ==
  ASSUME ListInd, NEW p \in Proc, Finish(p), now' = now, Watch, PlacesKept, DbTyped
  PROVE  ServiceTurn(p) /\ HoldsNoNew(p) /\ op'[p].pc = "idle"
<1>1. Moved(p) /\ op'[p] = Idle /\ scan[p] \in ScanState
  BY ListFinish, PointAt DEF ListInd, ListTypes
<1>2. PointOK(Idle, scan[p]) /\ Idle.pc = "idle"
  BY <1>1, IdlePoint DEF Idle, Begun
<1> QED BY <1>1, <1>2, PastTurn

\* A create that goes on past its write.
LEMMA OnTurn ==
  ASSUME ListInd, NEW p \in Proc, op[p].key \in Keys, NEW pc \in {"start", "rollback"},
         Goto(p, pc), now' = now, Watch, PlacesKept, DbTyped
  PROVE  ServiceTurn(p) /\ HoldsNoNew(p) /\ op'[p].pc = pc
<1>1. PointsOK /\ scan[p] \in ScanState
  BY PointAt DEF ListInd, ListTypes
<1>2. Moved(p) /\ op'[p] \in ListOperation /\ op'[p].pc = pc /\ op'[p].key = op[p].key
  BY <1>1, ListGoto DEF Points
<1>3. PointOK(op'[p], scan[p])
  BY <1>1, <1>2 DEF PointOK
<1> QED BY <1>2, <1>3, PastTurn

\* A keyspace that no step touches.
LEMMA UntouchedDb ==
  ASSUME ListInd, db' = db
  PROVE  /\ PlacesKept /\ DbTyped /\ DOMAIN db \subseteq DOMAIN db'
         /\ \A a \in Creates : StoredOf(db', a) = StoredOf(db, a) /\ StoredOf(db, a) \in Nat
<1>1. PlacesKept
  BY UnchangedDb DEF PlacesKept
<1>2. DbTyped
  BY DEF DbTyped, ListInd, ListTypes, ListFrameOK
<1> QED BY <1>1, <1>2, LoadTypes

\* A step that touches no key.
LEMMA QuietInd ==
  ASSUME ListInd, NEW p \in Proc, ServiceTurn(p), NamesApart', db' = db,
         nextId' \in Nat \ {0}, revived' = revived + Revivals
  PROVE  ListInd'
<1>1. revived' \in Nat /\ revived' >= revived /\ revived \in Nat
  BY RevivalsCount DEF ListInd, ListTypes, ListFrameOK
<1>2. ASSUME NEW a \in Creates PROVE LoadAt(op', scan', db', revived', a)
  <2>1. /\ StoredOf(db', a) = StoredOf(db, a) /\ StoredOf(db, a) \in Nat
        /\ DOMAIN db \subseteq DOMAIN db'
    BY UntouchedDb
  <2>2. StoredOf(db', a) - revived' <= StoredOf(db, a) - revived
    BY <1>1, <2>1
  <2> QED BY <1>1, <2>1, <2>2, KeptLoad
<1>3. ListTypes' /\ \A q \in Proc : ListedOK(op'[q], scan'[q], db')
  BY <1>1, ServiceTypes
<1> QED BY <1>2, <1>3 DEF ListInd, LoadOK

\* The same, where no name is given.
LEMMA QuietHeldInd ==
  ASSUME ListInd, NEW p \in Proc, ServiceTurn(p), HoldsNoNew(p), db' = db, nextId' = nextId,
         revived' = revived + Revivals
  PROVE  ListInd'
<1>1. nextId' \in Nat \ {0}
  BY DEF ListInd, ListTypes, ListFrameOK
<1>2. NamesApart'
  BY NamesKept DEF ServiceTurn
<1> QED BY <1>1, <1>2, QuietInd

\* An extension holds the tunnel it read.
LEMMA ExtendTunnelListed ==
  ASSUME ListInd, NEW p \in Proc, NEW k \in Keys, NEW m \in Extensions, ExtendTunnel(p, k, m),
         Watch, revived' = revived + Revivals
  PROVE  ListInd'
<1> DEFINE o == Begun("stamp", "extend", k, m, db[k].val, 0)
<1>1. Begin(p, o) /\ k \in DOMAIN db /\ UNCHANGED <<now, db, nextId>>
  BY DEF ExtendTunnel, Exists
<1>2. /\ o \in ListOperation /\ o.pc = "stamp" /\ o.act = "extend" /\ o.key = k
      /\ o.rec = db[k].val
  <2>1. db[k].val \in Record /\ m \in Int
    BY <1>1, InputAssumption DEF ListInd, ListTypes, ListFrameOK, Entry
  <2> QED BY <2>1 DEF Begun, ListOperation, Points
<1> HIDE DEF o
<1>3. Moved(p) /\ op'[p] = o /\ scan[p] \in ScanState
  BY <1>1, ListBegin, PointAt DEF ListInd, ListTypes
<1>4. PointOK(o, scan[p])
  BY <1>2, <1>3 DEF PointOK, Creates
<1>5. ServiceTurn(p)
  BY <1>1, <1>2, <1>3, <1>4, UntouchedDb DEF ServiceTurn, ListedOK, Claims, Creates
<1>6. HoldsNoNew(p)
  BY <1>1, <1>2, <1>3 DEF HoldsNoNew, HeldAt, Located, StoredAt
<1> QED BY <1>1, <1>5, <1>6, QuietHeldInd

\* A create that found a free key, or looks for another one.
LEMMA PickListed ==
  ASSUME ListInd, NEW p \in Proc, NEW k \in Keys, PickFree(p, k) \/ PickTaken(p, k),
         Watch, revived' = revived + Revivals
  PROVE  ListInd'
<1>1. /\ UNCHANGED <<now, db, nextId>> /\ At(p, "pick") /\ k \in Candidates(p)
  BY DEF PickFree, PickTaken
<1>2. /\ PointsOK /\ PointOK(op[p], scan[p]) /\ op[p] \in ListOperation /\ scan[p] \in ScanState
  BY PointAt DEF ListInd, ListTypes
<1>3. op[p].act \in Creates /\ k \in KeysOf(op[p].act)
  BY <1>1, <1>2 DEF PointOK, At, Candidates, KeysOf
<1>4. CASE PickFree(p, k)
  <2> DEFINE o == [op[p] EXCEPT !.pc = "stamp", !.key = k, !.n = 0]
  <2>1. op'[p] = o /\ Moved(p)
    BY <1>2, <1>4 DEF PickFree, PointsOK, Moved
  <2>2. o \in ListOperation /\ o.pc = "stamp" /\ o.act = op[p].act /\ o.key = k
    BY <1>2 DEF ListOperation, Points
  <2> HIDE DEF o
  <2>3. PointOK(o, scan[p])
    BY <1>2, <1>3, <2>2 DEF PointOK
  <2>4. ServiceTurn(p)
    BY <1>1, <2>1, <2>2, <2>3, UntouchedDb DEF ServiceTurn, ListedOK, Claims, At
  <2>5. HoldsNoNew(p)
    BY <1>3, <2>1, <2>2 DEF HoldsNoNew, HeldAt, Creates
  <2> QED BY <1>1, <2>4, <2>5, QuietHeldInd
<1>5. CASE Again(p)
  <2>1. /\ Moved(p) /\ op'[p] \in ListOperation /\ op'[p].pc = "pick" /\ op'[p].act = op[p].act
    BY <1>1, <1>2, <1>5, ListAgain DEF At
  <2>2. PointOK(op'[p], scan[p])
    BY <1>2, <1>3, <2>1 DEF PointOK
  <2>3. ServiceTurn(p)
    BY <1>1, <2>1, <2>2, UntouchedDb DEF ServiceTurn, ListedOK, Claims, At
  <2>4. HoldsNoNew(p)
    BY <2>1 DEF HoldsNoNew, HeldAt
  <2> QED BY <1>1, <2>3, <2>4, QuietHeldInd
<1>6. CASE Finish(p)
  BY <1>1, <1>6, EndTurn, UntouchedDb, QuietHeldInd
<1> QED BY <1>4, <1>5, <1>6 DEF PickTaken

\* A step that gives no name, and after which the bound is known to hold.
LEMMA HeldInd ==
  ASSUME ListInd, NEW p \in Proc, ServiceTurn(p), HoldsNoNew(p), nextId' = nextId, LoadOK',
         revived' = revived + Revivals
  PROVE  ListInd'
<1>1. nextId' \in Nat \ {0} /\ revived' \in Nat
  BY RevivalsCount DEF ListInd, ListTypes, ListFrameOK
<1>2. NamesApart'
  BY NamesKept DEF ServiceTurn
<1>3. ListTypes' /\ \A q \in Proc : ListedOK(op'[q], scan'[q], db')
  BY <1>1, ServiceTypes
<1> QED BY <1>2, <1>3 DEF ListInd

\* The one step that puts a name in a new place; the name is fresh.
LEMMA StampNewListed ==
  ASSUME ListInd, NEW p \in Proc, StampNew(p), Watch, revived' = revived + Revivals
  PROVE  ListInd'
<1> DEFINE o == [op[p] EXCEPT !.pc = "store",
                     !.rec = NewRecord(nextId, op[p].min, now),
                     !.ttl = TTLOf(op[p].min)]
<1>1. /\ PointsOK /\ PointOK(op[p], scan[p]) /\ op[p] \in ListOperation
      /\ NamesApart /\ now \in Nat /\ nextId \in Nat \ {0}
  BY PointAt DEF ListInd, ListTypes, ListFrameOK
<1>2. /\ op'[p] = o /\ Moved(p)
  BY <1>1 DEF StampNew, PointsOK, Moved
<1>3. /\ UNCHANGED <<now, db>> /\ nextId' = nextId + 1 /\ op[p].pc = "stamp"
      /\ op[p].act \in Creates
  BY DEF StampNew, At
<1>4. /\ NewRecord(nextId, op[p].min, now) \in Record
      /\ NewRecord(nextId, op[p].min, now).id = nextId /\ TTLOf(op[p].min) \in Int
  BY <1>1, NewRecordType DEF ListOperation
<1>5. o \in ListOperation
  BY <1>1, <1>4 DEF ListOperation, Points
<1>6. o.pc = "store" /\ o.act = op[p].act /\ o.key = op[p].key /\ o.rec.id = nextId
  BY <1>1, <1>4 DEF ListOperation
<1> HIDE DEF o
<1>7. PointOK(o, scan[p])
  BY <1>1, <1>3, <1>5, <1>6 DEF PointOK
<1>8. ServiceTurn(p)
  BY <1>2, <1>3, <1>6, <1>7, UntouchedDb DEF ServiceTurn, ListedOK, Claims
<1>9. ASSUME NEW i \in Nat, NEW k \in Keys, Located(i, k)'
      PROVE  Located(i, k) \/ (i = nextId /\ k = op[p].key)
  <2>1. CASE StoredAt(db, i, k)'
    BY <1>3, <2>1 DEF StoredAt, Located
  <2>2. ASSUME NEW q \in Proc, HeldAt(op'[q], i, k)
        PROVE  Located(i, k) \/ (i = nextId /\ k = op[p].key)
    BY <1>2, <1>6, <2>2 DEF Moved, HeldAt, Located
  <2> QED BY <1>9, <2>1, <2>2 DEF Located
<1>10. \A k \in Keys : ~Located(nextId, k)
  BY <1>1 DEF NamesApart
<1>11. \A i \in Nat, k \in Keys : Located(i, k)' => i < nextId'
  BY <1>1, <1>3, <1>9 DEF NamesApart
<1>12. \A i \in Nat, k, l \in Keys : Located(i, k)' /\ Located(i, l)' => k = l
  BY <1>1, <1>9, <1>10 DEF NamesApart
<1>13. NamesApart'
  BY <1>11, <1>12 DEF NamesApart
<1>14. nextId' \in Nat \ {0}
  BY <1>1, <1>3
<1> QED BY <1>3, <1>8, <1>13, <1>14, QuietInd

\* The record in memory changes, its name and its key do not.
LEMMA StampExtensionListed ==
  ASSUME ListInd, NEW p \in Proc, StampExtension(p), Watch, revived' = revived + Revivals
  PROVE  ListInd'
<1>1. UNCHANGED <<now, db, nextId>> /\ op[p].pc = "stamp" /\ op[p].act = "extend"
  BY DEF StampExtension, At
<1>2. CASE ~ExtensionAllowed(op[p].rec, op[p].min, now)
  BY <1>1, <1>2, EndTurn, UntouchedDb, QuietHeldInd DEF StampExtension
<1>3. CASE ExtensionAllowed(op[p].rec, op[p].min, now)
  <2> DEFINE r == Extended(op[p].rec, op[p].min)
             t == NewEnd(op[p].rec, op[p].min) - now
             o == [op[p] EXCEPT !.pc = "store", !.rec = r, !.ttl = t]
  <2>1. /\ PointsOK /\ PointOK(op[p], scan[p]) /\ op[p] \in ListOperation /\ now \in Nat
    BY PointAt DEF ListInd, ListTypes, ListFrameOK
  <2>2. op'[p] = o /\ Moved(p)
    BY <1>3, <2>1 DEF StampExtension, PointsOK, Moved
  <2>3. r \in Record /\ r.id = op[p].rec.id /\ t \in Int
    <3>1. op[p].rec \in Record /\ op[p].min \in Int
      BY <2>1 DEF ListOperation
    <3> QED BY <2>1, <3>1, ExtendedRecordType
  <2> HIDE DEF r, t
  <2>4. o \in ListOperation
    BY <2>1, <2>3 DEF ListOperation, Points
  <2>5. o.pc = "store" /\ o.act = op[p].act /\ o.key = op[p].key /\ o.rec.id = op[p].rec.id
    BY <2>1, <2>3 DEF ListOperation
  <2> HIDE DEF o
  <2>6. PointOK(o, scan[p])
    BY <1>1, <2>1, <2>4, <2>5 DEF PointOK
  <2>7. ServiceTurn(p)
    BY <1>1, <2>2, <2>5, <2>6, UntouchedDb DEF ServiceTurn, ListedOK, Claims
  <2>8. HoldsNoNew(p)
    BY <1>1, <2>2, <2>5 DEF HoldsNoNew, HeldAt, Located
  <2> QED BY <1>1, <2>7, <2>8, QuietHeldInd
<1> QED BY <1>2, <1>3

\* The write.
LEMMA StoreListed ==
  ASSUME ListInd, NEW p \in Proc, Store(p), Watch, revived' = revived + Revivals
  PROVE  ListInd'
<1>1. At(p, "store") /\ Stored(p) /\ now' = now /\ nextId' = nextId
  BY DEF Store
<1>2. /\ op[p].key \in Keys /\ op[p].rec \in Record /\ op[p].ttl \in Int /\ ListFrameOK
  BY <1>1, PointAt DEF ListInd, ListTypes, PointOK, At, ListOperation
<1>3. PlacesKept
  BY <1>1, StoreDb DEF PlacesKept
<1>4. DbTyped
  BY <1>1, <1>2, PutType DEF DbTyped, Stored
<1>5. /\ ServiceTurn(p) /\ HoldsNoNew(p) /\ op'[p].pc \in {"start", "idle"}
  <2>1. CASE Finish(p)
    BY <1>1, <1>3, <1>4, <2>1, EndTurn
  <2>2. CASE Goto(p, "start")
    BY <1>1, <1>2, <1>3, <1>4, <2>2, OnTurn
  <2> QED BY <2>1, <2>2 DEF Store
<1>6. LoadOK'
  BY <1>1, <1>5, StoredLoad
<1> QED BY <1>1, <1>5, <1>6, HeldInd

\* A listener opens or does not.
LEMMA ListenerListed ==
  ASSUME ListInd, NEW p \in Proc, StartProxy(p) \/ ListenFails(p), Watch,
         revived' = revived + Revivals
  PROVE  ListInd'
<1>1. UNCHANGED <<now, db, nextId>> /\ At(p, "start")
  BY DEF StartProxy, ListenFails
<1>2. PlacesKept /\ DbTyped
  BY <1>1, UntouchedDb
<1>3. CASE Finish(p)
  BY <1>1, <1>2, <1>3, EndTurn, QuietHeldInd
<1>4. CASE Goto(p, "rollback")
  <2>1. op[p].key \in Keys
    BY <1>1, PointAt DEF ListInd, ListTypes, PointOK, At
  <2> QED BY <1>1, <1>2, <1>4, <2>1, OnTurn, QuietHeldInd
<1> QED BY <1>3, <1>4 DEF StartProxy, ListenFails

\* A key that is deleted or evicted.
LEMMA KeyGone ==
  ASSUME ListInd, NEW k, db' = Remove(db, k)
  PROVE  PlacesKept /\ DbTyped
<1>1. PlacesKept
  BY RemoveDb DEF PlacesKept
<1>2. DbTyped
  BY ShrinkType DEF ListInd, ListTypes, DbTyped
<1> QED BY <1>1, <1>2

\* The record of a create whose listener did not open.
LEMMA RollbackListed ==
  ASSUME ListInd, NEW p \in Proc, Rollback(p), Watch, revived' = revived + Revivals
  PROVE  ListInd'
<1>1. Finish(p) /\ now' = now /\ nextId' = nextId
  BY DEF Rollback
<1>2. CASE db' = db
  BY <1>1, <1>2, UntouchedDb, EndTurn, QuietHeldInd
<1>3. CASE db' = Remove(db, op[p].key)
  <2>1. ServiceTurn(p) /\ HoldsNoNew(p)
    BY <1>1, <1>3, KeyGone, EndTurn
  <2>2. LoadOK'
    BY <1>3, <2>1, RevivalsCount, LostLoad
  <2> QED BY <1>1, <2>1, <2>2, HeldInd
<1> QED BY <1>2, <1>3 DEF Rollback

\* Redis drops a key.
LEMMA EvictListed ==
  ASSUME ListInd, NEW k \in Keys, Evict(k), Watch, revived' = revived + Revivals
  PROVE  ListInd'
<1>1. PICK p \in Proc : TRUE
  BY ProcAssumption
<1>2. db' = Remove(db, k) /\ UNCHANGED <<now, op, nextId>>
  BY DEF Evict
<1>3. Moved(p) /\ PointOK(op'[p], scan[p]) /\ ListedOK(op'[p], scan[p], db)
  BY <1>2 DEF Moved, ListInd, ListTypes, PointsOK
<1>4. ServiceTurn(p)
  BY <1>2, <1>3, KeyGone DEF ServiceTurn
<1>5. HoldsNoNew(p)
  BY <1>2 DEF HoldsNoNew, Located
<1>6. LoadOK'
  BY <1>2, <1>4, RevivalsCount, LostLoad
<1> QED BY <1>2, <1>4, <1>5, <1>6, HeldInd

-----------------------------------------------------------------------------

\* Nothing is stored and nobody scans at the start.
LEMMA ListInit == ListingInit => ListInd
<1> SUFFICES ASSUME ListingInit PROVE ListInd
  OBVIOUS
<1>1. /\ now = 0 /\ DOMAIN db = {} /\ nextId = 1 /\ revived = 0
      /\ op = [p \in Proc |-> Idle] /\ scan = [p \in Proc |-> NoScan]
  BY DEF ListingInit, Init, EmptyKeyspace
<1>2. Idle.pc = "idle" /\ Idle.act = "none"
  BY DEF Idle, Begun
<1>3. ListFrameOK
  BY <1>1 DEF ListFrameOK
<1>4. NoScan \in ScanState
  BY DEF NoScan, ScanState
<1>5. PointsOK
  BY <1>1, <1>4, IdlePoint DEF PointsOK
<1>6. NamesApart
  BY <1>1, <1>2 DEF NamesApart, Located, StoredAt, HeldAt
<1>7. \A p \in Proc : ListedOK(op[p], scan[p], db)
  BY <1>1, <1>2 DEF ListedOK
<1>8. ASSUME NEW a \in Creates, NEW c \in Int, c >= MaxTunnels - 1
      PROVE  StoredOf(db, a) + Cardinality(Claimants(op, scan, db, a, c))
               <= c + Cardinality(Proc) + revived
  <2>1. DOMAIN db \cap KeysOf(a) = {} /\ Claimants(op, scan, db, a, c) = {}
    BY <1>1, <1>2 DEF Claimants, Claims, Creates
  <2>2. StoredOf(db, a) = 0 /\ Cardinality(Claimants(op, scan, db, a, c)) = 0
    BY <2>1, FS_EmptySet DEF StoredOf
  <2>3. Cardinality(Proc) \in Nat /\ Cardinality(Proc) # 0
    BY ProcAssumption, FS_CardinalityType, FS_EmptySet
  <2> QED BY <1>1, <1>8, <2>2, <2>3, LimitAssumption
<1> QED BY <1>3, <1>5, <1>6, <1>7, <1>8 DEF ListInd, ListTypes, LoadOK, LoadAt

\* Every step of the service, its scans included, keeps the invariant.
LEMMA ListNext == ListInd /\ [ListingNext]_listingVars => ListInd'
<1> SUFFICES ASSUME ListInd, [ListingNext]_listingVars PROVE ListInd'
  OBVIOUS
<1>1. ASSUME NEW p \in Proc, ScanStep(p), UNCHANGED revived PROVE ListInd'
  BY <1>1, ScanStepInd
<1>2. ASSUME NEW p \in Proc, ServiceStep(p), Watch, revived' = revived + Revivals
      PROVE  ListInd'
  BY <1>2, ExtendTunnelListed, PickListed, StampNewListed, StampExtensionListed,
     StoreListed, ListenerListed, RollbackListed DEF ServiceStep
<1>3. ASSUME NEW k \in Keys, Evict(k), Watch, revived' = revived + Revivals
      PROVE  ListInd'
  BY <1>3, EvictListed
<1>4. CASE UNCHANGED listingVars
  BY <1>4 DEF listingVars, vars, ListInd, ListTypes, ListFrameOK, PointsOK, NamesApart,
              Located, LoadOK
<1> QED BY <1>1, <1>2, <1>3, <1>4 DEF ListingNext, Watch

\* ListInd holds in every reachable state.
THEOREM ListInvariant == ListingSpec => []ListInd
<1> QED BY ListInit, ListNext, PTL DEF ListingSpec

\* ScanKeys followed by a GET for each key shows every tunnel that was there from
\* its first call to its last, whatever comes and goes meanwhile, but for those
\* whose own GET failed.
THEOREM ListingsComplete == ListingSpec => []ListComplete
<1>1. ListInd => ListComplete
  <2> SUFFICES ASSUME ListInd, NEW p \in Proc, At(p, "answer")
               PROVE  scan[p].through \subseteq Tried(scan[p])
    BY DEF ListComplete, Tried
  <2>1. scan[p].through \subseteq Tried(scan[p]) \cup Names(db, Ahead(op[p], scan[p]))
    BY DEF ListInd, ListedOK, At
  <2>2. Names(db, Ahead(op[p], scan[p])) = {}
    BY DEF Names, Ahead, At
  <2> QED BY <2>1, <2>2
<1> QED BY <1>1, ListInvariant, PTL

\* Counts that take several calls of SCAN admit no more creates than counts that
\* take one, but for the tunnels that extensions revive meanwhile.
THEOREM ScanCountBounded == ListingSpec => []ScanCountBound
<1>1. ListInd => ScanCountBound
  <2> SUFFICES ASSUME ListInd, NEW S \in {Subdomains, Ports}
               PROVE  Count(S) <= MaxTunnels + Cardinality(Proc) - 1 + revived
    BY DEF ScanCountBound
  <2>1. PICK a \in Creates : KeysOf(a) = S
    BY DEF Creates, KeysOf
  <2> DEFINE C == Claimants(op, scan, db, a, MaxTunnels - 1)
  <2>2. MaxTunnels - 1 \in Int /\ MaxTunnels \in Nat
    BY LimitAssumption
  <2>3. StoredOf(db, a) + Cardinality(C) <= (MaxTunnels - 1) + Cardinality(Proc) + revived
    BY <2>2 DEF ListInd, LoadOK, LoadAt
  <2>4. C \in SUBSET Proc
    BY DEF Claimants
  <2> HIDE DEF C
  <2>5. Cardinality(C) \in Nat /\ Cardinality(Proc) \in Nat /\ StoredOf(db, a) \in Nat
    BY <2>4, LoadTypes
  <2>6. revived \in Nat /\ StoredOf(db, a) = Count(S)
    BY <2>1 DEF ListInd, ListTypes, ListFrameOK, StoredOf, Count
  <2> QED BY <2>2, <2>3, <2>5, <2>6
<1> QED BY <1>1, ListInvariant, PTL
=============================================================================

------------------------- MODULE TunnelCountProofs -------------------------
(***************************************************************************)
(* The bound on the number of tunnels, for every value of the constants.   *)
(* The argument counts slots: the keys stored, the keys requests are about *)
(* to store, and the creates that passed the count.  A create that passes  *)
(* saw fewer than MaxTunnels keys, and each request has at most one slot   *)
(* of its own; every other step takes slots away or exchanges one.         *)
(***************************************************************************)
EXTENDS TunnelServiceProofs

\* The two kinds of slots, of a keyspace d and of requests o.
StoredSlots(d, S) == {<<"key", k>> : k \in DOMAIN d \cap S}

Reserves(o, S) == o.pc \in {"stamp", "store"} /\ o.key \in S
Searches(o, S) ==
  o.pc = "pick" /\ (IF o.act = "create_http" THEN Subdomains ELSE Ports) = S

RequestSlots(o, S) ==
  {<<"key", o[p].key>> : p \in {q \in Proc : Reserves(o[q], S)}}
    \cup {<<"pick", p>> : p \in {q \in Proc : Searches(o[q], S)}}

\* Slots, before a step and after it.
LEMMA SlotsSplit ==
  ASSUME NEW S
  PROVE  /\ Slots(S) = StoredSlots(db, S) \cup RequestSlots(op, S)
         /\ Slots(S)' = StoredSlots(db', S) \cup RequestSlots(op', S)
  BY DEF Slots, StoredSlots, RequestSlots, Reserves, Searches, At, Candidates

\* There are as many stored slots as stored keys.
LEMMA StoredSlotsCount ==
  ASSUME NEW d, NEW S, IsFiniteSet(S)
  PROVE  /\ IsFiniteSet(StoredSlots(d, S))
         /\ Cardinality(StoredSlots(d, S)) = Cardinality(DOMAIN d \cap S)
         /\ Cardinality(DOMAIN d \cap S) \in Nat
<1> DEFINE K == DOMAIN d \cap S
           T == StoredSlots(d, S)
           f == [k \in K |-> <<"key", k>>]
           g == [t \in T |-> t[2]]
<1>1. IsFiniteSet(K)
  BY FS_Subset
<1>2. f \in Surjection(K, T)
  BY DEF Surjection, StoredSlots
<1>3. IsFiniteSet(T) /\ Cardinality(T) <= Cardinality(K)
  BY <1>1, <1>2, FS_Surjection
<1>4. g \in Surjection(T, K)
  <2>1. \A t \in T : t[2] \in K
    BY DEF StoredSlots
  <2>2. \A k \in K : <<"key", k>> \in T /\ <<"key", k>>[2] = k
    BY DEF StoredSlots
  <2> HIDE DEF T, K
  <2>3. g \in [T -> K]
    BY <2>1
  <2>4. \A k \in K : \E t \in T : g[t] = k
    BY <2>2
  <2> QED BY <2>3, <2>4 DEF Surjection
<1>5. Cardinality(K) <= Cardinality(T)
  BY <1>3, <1>4, FS_Surjection
<1>6. Cardinality(K) \in Nat /\ Cardinality(T) \in Nat
  BY <1>1, <1>3, FS_CardinalityType
<1> QED BY <1>3, <1>5, <1>6

\* A request has at most one slot of its own.
LEMMA RequestSlotsCount ==
  ASSUME NEW o, NEW S
  PROVE  /\ IsFiniteSet(RequestSlots(o, S))
         /\ Cardinality(RequestSlots(o, S)) <= Cardinality(Proc)
         /\ Cardinality(RequestSlots(o, S)) \in Nat
<1> DEFINE f == [p \in Proc |-> IF Reserves(o[p], S) THEN <<"key", o[p].key>>
                                                     ELSE <<"pick", p>>]
           T == {f[p] : p \in Proc}
<1>1. f \in Surjection(Proc, T)
  BY DEF Surjection
<1>2. IsFiniteSet(T) /\ Cardinality(T) <= Cardinality(Proc)
  BY <1>1, ProcAssumption, FS_Surjection
<1>3. RequestSlots(o, S) \subseteq T
  <2>1. ASSUME NEW p \in Proc, Reserves(o[p], S) PROVE <<"key", o[p].key>> \in T
    BY <2>1
  <2>2. ASSUME NEW p \in Proc, Searches(o[p], S) PROVE <<"pick", p>> \in T
    BY <2>2 DEF Searches, Reserves
  <2> HIDE DEF T
  <2> QED BY <2>1, <2>2 DEF RequestSlots
<1>4. /\ IsFiniteSet(RequestSlots(o, S))
      /\ Cardinality(RequestSlots(o, S)) <= Cardinality(T)
  BY <1>2, <1>3, FS_Subset
<1>5. /\ Cardinality(RequestSlots(o, S)) \in Nat /\ Cardinality(T) \in Nat
      /\ Cardinality(Proc) \in Nat
  BY <1>2, <1>4, ProcAssumption, FS_CardinalityType
<1> QED BY <1>2, <1>4, <1>5

\* So the slots are no more than the keys stored and the requests together,
\* and no fewer than the keys stored.
LEMMA SlotsCount ==
  ASSUME NEW d, NEW o, NEW S \in {Subdomains, Ports}
  PROVE  LET T == StoredSlots(d, S) \cup RequestSlots(o, S)
             n == Cardinality(DOMAIN d \cap S)
         IN  /\ IsFiniteSet(T) /\ Cardinality(T) \in Nat /\ n \in Nat
             /\ Cardinality(T) <= n + Cardinality(Proc)
             /\ n <= Cardinality(T)
<1> DEFINE A == StoredSlots(d, S)
           B == RequestSlots(o, S)
           n == Cardinality(DOMAIN d \cap S)
<1>1. IsFiniteSet(A) /\ Cardinality(A) = n /\ n \in Nat
  BY StoredSlotsCount, KeyAssumption
<1>2. IsFiniteSet(B) /\ Cardinality(B) <= Cardinality(Proc) /\ Cardinality(B) \in Nat
  BY RequestSlotsCount
<1>3. /\ IsFiniteSet(A \cup B)
      /\ Cardinality(A \cup B) = Cardinality(A) + Cardinality(B) - Cardinality(A \cap B)
  BY <1>1, <1>2, FS_Union
<1>4. IsFiniteSet(A \cap B)
  BY <1>1, FS_Subset
<1>5. /\ Cardinality(A \cap B) \in Nat /\ Cardinality(A \cup B) \in Nat
      /\ Cardinality(Proc) \in Nat
  BY <1>3, <1>4, ProcAssumption, FS_CardinalityType
<1>6. Cardinality(A) <= Cardinality(A \cup B)
  BY <1>3, FS_Subset
<1> QED BY <1>1, <1>2, <1>3, <1>5, <1>6

-----------------------------------------------------------------------------
(* What a step may do to the bound.                                        *)

SlotLimit == MaxTunnels + Cardinality(Proc) - 1

\* A step that adds no slot keeps the bound.
LEMMA FewerSlots ==
  ASSUME SlotBound, NEW S \in {Subdomains, Ports}, Slots(S)' \subseteq Slots(S)
  PROVE  Cardinality(Slots(S)') <= SlotLimit
<1> DEFINE T == Slots(S)
           U == Slots(S)'
<1>1. IsFiniteSet(T) /\ Cardinality(T) \in Nat
  <2> DEFINE V == StoredSlots(db, S) \cup RequestSlots(op, S)
  <2>1. IsFiniteSet(V) /\ Cardinality(V) \in Nat
    BY SlotsCount
  <2>2. T = V
    BY SlotsSplit
  <2> HIDE DEF T, V
  <2> QED BY <2>1, <2>2
<1>2. Cardinality(T) <= SlotLimit
  BY DEF SlotBound, SlotLimit
<1>3. IsFiniteSet(U) /\ Cardinality(U) <= Cardinality(T)
  <2> HIDE DEF T, U
  <2>1. U \subseteq T
    BY DEF T, U
  <2> QED BY <1>1, <2>1, FS_Subset
<1>4. Cardinality(U) \in Nat /\ Cardinality(Proc) \in Nat
  BY <1>3, ProcAssumption, FS_CardinalityType
<1> HIDE DEF T, U
<1>5. Cardinality(U) <= SlotLimit
  BY <1>1, <1>2, <1>3, <1>4, LimitAssumption DEF SlotLimit
<1> QED BY <1>5 DEF U

\* So does a step after which fewer than MaxTunnels keys are stored.
LEMMA RoomLeft ==
  ASSUME NEW S \in {Subdomains, Ports}, Cardinality(DOMAIN db' \cap S) < MaxTunnels
  PROVE  Cardinality(Slots(S)') <= SlotLimit
<1> DEFINE U == StoredSlots(db', S) \cup RequestSlots(op', S)
           n == Cardinality(DOMAIN db' \cap S)
<1>1. /\ Cardinality(U) \in Nat /\ n \in Nat
      /\ Cardinality(U) <= n + Cardinality(Proc)
  BY SlotsCount
<1>2. Cardinality(Proc) \in Nat
  BY ProcAssumption, FS_CardinalityType
<1>3. n < MaxTunnels
  OBVIOUS
<1> HIDE DEF U, n
<1>4. Cardinality(U) <= SlotLimit
  BY <1>1, <1>2, <1>3, LimitAssumption DEF SlotLimit
<1> QED BY <1>4, SlotsSplit DEF U

\* No slot is added if every key stored had one, and the request p that moves
\* to o had the slot it has then.
LEMMA NoNewSlot ==
  ASSUME Ind, NEW S, NEW p \in Proc, NEW o, op' = [op EXCEPT ![p] = o],
         \A k \in DOMAIN db' \cap S : <<"key", k>> \in Slots(S),
         Reserves(o, S) => <<"key", o.key>> \in Slots(S),
         Searches(o, S) => <<"pick", p>> \in Slots(S)
  PROVE  Slots(S)' \subseteq Slots(S)
<1>1. op'[p] = o /\ \A q \in Proc \ {p} : op'[q] = op[q]
  BY DEF Ind, OpsOK
<1>2. StoredSlots(db', S) \subseteq Slots(S)
  BY DEF StoredSlots
<1>3. ASSUME NEW q \in Proc, Reserves(op'[q], S) PROVE <<"key", op'[q].key>> \in Slots(S)
  <2>1. CASE q = p
    BY <1>1, <1>3, <2>1
  <2>2. CASE q # p
    <3>1. <<"key", op[q].key>> \in RequestSlots(op, S)
      BY <1>1, <1>3, <2>2 DEF RequestSlots
    <3> QED BY <1>1, <2>2, <3>1, SlotsSplit
  <2> QED BY <2>1, <2>2
<1>4. ASSUME NEW q \in Proc, Searches(op'[q], S) PROVE <<"pick", q>> \in Slots(S)
  <2>1. CASE q = p
    BY <1>1, <1>4, <2>1
  <2>2. CASE q # p
    <3>1. <<"pick", q>> \in RequestSlots(op, S)
      BY <1>1, <1>4, <2>2 DEF RequestSlots
    <3> QED BY <3>1, SlotsSplit
  <2> QED BY <2>1, <2>2
<1>5. RequestSlots(op', S) \subseteq Slots(S)
  BY <1>3, <1>4 DEF RequestSlots
<1> QED BY <1>2, <1>5, SlotsSplit

\* A stored key has a slot, and so does a request that reserves or searches.
LEMMA HasSlot ==
  ASSUME NEW S
  PROVE  /\ \A k \in DOMAIN db \cap S : <<"key", k>> \in Slots(S)
         /\ \A p \in Proc : Reserves(op[p], S) => <<"key", op[p].key>> \in Slots(S)
         /\ \A p \in Proc : Searches(op[p], S) => <<"pick", p>> \in Slots(S)
  BY SlotsSplit DEF StoredSlots, RequestSlots

\* A request that ends, or goes on past its write, while no key is added.
LEMMA SlotGivenUp ==
  ASSUME Ind, NEW p \in Proc, NEW o, op' = [op EXCEPT ![p] = o],
         o.pc \notin {"pick", "stamp", "store"}, DOMAIN db' \subseteq DOMAIN db
  PROVE  \A S \in {Subdomains, Ports} : Slots(S)' \subseteq Slots(S)
<1> TAKE S \in {Subdomains, Ports}
<1>1. ~Reserves(o, S) /\ ~Searches(o, S)
  BY DEF Reserves, Searches
<1> QED BY <1>1, HasSlot, NoNewSlot

\* A request that keeps its key, or its search, while no key is added but it.
LEMMA SlotKept ==
  ASSUME Ind, NEW p \in Proc, NEW o, op' = [op EXCEPT ![p] = o],
         op[p].pc \in {"stamp", "store"}, o.key = op[p].key, o.pc # "pick",
         DOMAIN db' \subseteq DOMAIN db \cup {op[p].key}
  PROVE  \A S \in {Subdomains, Ports} : Slots(S)' \subseteq Slots(S)
<1> TAKE S \in {Subdomains, Ports}
<1>1. ~Searches(o, S)
  BY DEF Searches
<1>2. op[p].key \in S => <<"key", op[p].key>> \in Slots(S)
  BY HasSlot DEF Reserves
<1>3. Reserves(o, S) => <<"key", o.key>> \in Slots(S)
  BY <1>2 DEF Reserves
<1>4. \A k \in DOMAIN db' \cap S : <<"key", k>> \in Slots(S)
  BY <1>2, HasSlot
<1> QED BY <1>1, <1>3, <1>4, NoNewSlot

-----------------------------------------------------------------------------
(* The steps.                                                              *)

\* A new request has no slot, except a create that passed its count, which
\* saw room, and an extension, whose key is stored.
LEMMA BeginSlots ==
  ASSUME Ind, SlotBound, NEW p \in Proc,
         Request(p, Keys) \/ \E d \in Requested : CreateTunnel(p, d)
  PROVE  SlotBound'
<1>1. ASSUME NEW d \in Requested, CreateTCPTunnel(p, d) PROVE SlotBound'
  <2> DEFINE o == Begun("count", "create_tcp", NoKey, d, NoRecord,
                        CountKeys(db, Subdomains))
  <2>1. o.pc = "count"
    BY DEF Begun
  <2>2. op' = [op EXCEPT ![p] = o] /\ db' = db
    BY <1>1 DEF CreateTCPTunnel, Begin
  <2> HIDE DEF o
  <2>3. \A S \in {Subdomains, Ports} : Slots(S)' \subseteq Slots(S)
    BY <2>1, <2>2, SlotGivenUp
  <2> QED BY <2>3, FewerSlots DEF SlotBound, SlotLimit
<1>2. ASSUME NEW k \in Keys, NEW m \in Extensions, ExtendTunnel(p, k, m)
      PROVE  SlotBound'
  <2> DEFINE o == Begun("stamp", "extend", k, m, db[k].val, 0)
  <2>1. o.pc = "stamp" /\ o.key = k
    BY DEF Begun
  <2>2. op' = [op EXCEPT ![p] = o] /\ db' = db /\ k \in DOMAIN db
    BY <1>2 DEF ExtendTunnel, Begin, Exists
  <2> HIDE DEF o
  <2>3. ASSUME NEW S \in {Subdomains, Ports} PROVE Slots(S)' \subseteq Slots(S)
    <3>1. Reserves(o, S) => <<"key", o.key>> \in Slots(S)
      BY <2>1, <2>2, HasSlot DEF Reserves
    <3>2. ~Searches(o, S)
      BY <2>1 DEF Searches
    <3> QED BY <2>2, <3>1, <3>2, HasSlot, NoNewSlot
  <2> QED BY <2>3, FewerSlots DEF SlotBound, SlotLimit
<1>3. ASSUME NEW k \in Keys, DeleteTunnel(p, k) PROVE SlotBound'
  <2> DEFINE o == Begun("delete", "delete", k, 0, NoRecord, 0)
  <2>1. o.pc = "delete"
    BY DEF Begun
  <2>2. op' = [op EXCEPT ![p] = o] /\ db' = db
    BY <1>3 DEF DeleteTunnel, Begin
  <2> HIDE DEF o
  <2>3. \A S \in {Subdomains, Ports} : Slots(S)' \subseteq Slots(S)
    BY <2>1, <2>2, SlotGivenUp
  <2> QED BY <2>3, FewerSlots DEF SlotBound, SlotLimit
<1>4. ASSUME NEW d \in Requested, CreateTunnel(p, d) PROVE SlotBound'
  <2> DEFINE o == Begun("pick", "create_http", NoKey, d, NoRecord, 0)
  <2>1. o.pc = "pick" /\ o.act = "create_http"
    BY DEF Begun
  <2>2. /\ op' = [op EXCEPT ![p] = o] /\ db' = db
        /\ Cardinality(DOMAIN db' \cap Subdomains) < MaxTunnels
    BY <1>4 DEF CreateTunnel, Begin, CountKeys
  <2> HIDE DEF o
  <2>3. ASSUME NEW S \in {Subdomains, Ports}
        PROVE  Cardinality(Slots(S)') <= SlotLimit
    <3>1. CASE S = Subdomains
      BY <2>2, <3>1, RoomLeft
    <3>2. CASE S # Subdomains
      <4>1. ~Reserves(o, S) /\ ~Searches(o, S)
        BY <2>1, <3>2 DEF Reserves, Searches
      <4>2. Slots(S)' \subseteq Slots(S)
        BY <2>2, <4>1, HasSlot, NoNewSlot
      <4> QED BY <4>2, FewerSlots
    <3> QED BY <3>1, <3>2
  <2> QED BY <2>3 DEF SlotBound, SlotLimit
<1> QED BY <1>1, <1>2, <1>3, <1>4 DEF Request

\* The second count saw room for a TCP tunnel, or the request ends.
LEMMA CountTCPSlots ==
  ASSUME Ind, SlotBound, NEW p \in Proc, CountTCP(p)
  PROVE  SlotBound'
<1>1. CASE Finish(p)
  <2>1. op' = [op EXCEPT ![p] = Idle] /\ db' = db /\ Idle.pc = "idle"
    BY <1>1 DEF Finish, CountTCP, Idle, Begun
  <2>2. \A S \in {Subdomains, Ports} : Slots(S)' \subseteq Slots(S)
    BY <2>1, SlotGivenUp
  <2> QED BY <2>2, FewerSlots DEF SlotBound, SlotLimit
<1>2. CASE Goto(p, "pick") /\ op[p].n + CountKeys(db, Ports) < MaxTunnels
  <2> DEFINE o == [op[p] EXCEPT !.pc = "pick", !.n = 0]
  <2>0. op[p] \in Operation
    BY DEF Ind, OpsOK, RequestOK
  <2>1. o.pc = "pick"
    BY <2>0 DEF Operation
  <2>2. op' = [op EXCEPT ![p] = o] /\ db' = db
    BY <1>2 DEF Goto, CountTCP
  <2>3. Cardinality(DOMAIN db' \cap Ports) < MaxTunnels
    <3>1. op[p].n \in Nat
      BY <2>0 DEF Operation
    <3>2. Cardinality(DOMAIN db \cap Ports) \in Nat
      BY KeyAssumption, StoredSlotsCount
    <3> QED BY <1>2, <2>2, <3>1, <3>2, LimitAssumption DEF CountKeys
  <2>4. o.act = "create_tcp"
    BY <2>0 DEF Operation, CountTCP, At, Ind, OpsOK, RequestOK
  <2> HIDE DEF o
  <2>5. ASSUME NEW S \in {Subdomains, Ports}
        PROVE  Cardinality(Slots(S)') <= SlotLimit
    <3>1. CASE S = Ports
      BY <2>3, <3>1, RoomLeft
    <3>2. CASE S # Ports
      <4>1. ~Reserves(o, S) /\ ~Searches(o, S)
        BY <2>1, <2>4, <3>2 DEF Reserves, Searches
      <4>2. Slots(S)' \subseteq Slots(S)
        BY <2>2, <4>1, HasSlot, NoNewSlot
      <4> QED BY <4>2, FewerSlots
    <3> QED BY <3>1, <3>2
  <2> QED BY <2>5 DEF SlotBound, SlotLimit
<1> QED BY <1>1, <1>2 DEF CountTCP

\* Exchanging a member of a finite set for another does not make it larger.
LEMMA Exchange ==
  ASSUME NEW T, IsFiniteSet(T), NEW a \in T, NEW b
  PROVE  /\ IsFiniteSet((T \ {a}) \cup {b})
         /\ Cardinality((T \ {a}) \cup {b}) <= Cardinality(T)
<1> DEFINE U == T \ {a}
<1>1. IsFiniteSet(U) /\ Cardinality(U) = Cardinality(T) - 1
  BY FS_RemoveElement
<1>2. Cardinality(T) \in Nat
  BY FS_CardinalityType
<1> HIDE DEF U
<1>3. /\ IsFiniteSet(U \cup {b})
      /\ Cardinality(U \cup {b}) <= Cardinality(U) + 1
  <2>1. Cardinality(U) \in Nat
    BY <1>1, FS_CardinalityType
  <2>2. /\ IsFiniteSet(U \cup {b})
        /\ Cardinality(U \cup {b}) =
             IF b \in U THEN Cardinality(U) ELSE Cardinality(U) + 1
    BY <1>1, FS_AddElement, Zenon
  <2> QED BY <2>1, <2>2
<1>4. Cardinality(U \cup {b}) \in Nat
  BY <1>3, FS_CardinalityType
<1>5. Cardinality(U \cup {b}) <= Cardinality(T)
  BY <1>1, <1>2, <1>3, <1>4
<1> QED BY <1>3, <1>5 DEF U

\* Choosing a free key turns the slot of the search into the slot of the key.
LEMMA PickFreeSlots ==
  ASSUME Ind, SlotBound, NEW p \in Proc, NEW k \in Keys, PickFree(p, k)
  PROVE  SlotBound'
<1> DEFINE o == [op[p] EXCEPT !.pc = "stamp", !.key = k, !.n = 0]
<1>1. op[p] \in Operation
  BY DEF Ind, OpsOK, RequestOK
<1>2. o.pc = "stamp" /\ o.key = k
  BY <1>1 DEF Operation
<1>3. op' = [op EXCEPT ![p] = o] /\ db' = db /\ k \in Candidates(p) /\ op[p].pc = "pick"
  BY DEF PickFree, At
<1> HIDE DEF o
<1>4. op'[p] = o /\ \A q \in Proc \ {p} : op'[q] = op[q]
  BY <1>3 DEF Ind, OpsOK
<1>5. ~Searches(o, Subdomains) /\ ~Searches(o, Ports)
  BY <1>2 DEF Searches
<1>6. ASSUME NEW S \in {Subdomains, Ports} PROVE Cardinality(Slots(S)') <= SlotLimit
  <2>1. CASE Candidates(p) = S
    <3> DEFINE a == <<"pick", p>>  b == <<"key", k>>  T == Slots(S)
               U == (T \ {a}) \cup {b}
    <3>1. a \in T
      BY <1>3, <2>1, HasSlot DEF Searches, Candidates
    <3>2. StoredSlots(db', S) \subseteq U
      BY <1>3, HasSlot DEF StoredSlots
    <3>3. ASSUME NEW q \in Proc, Reserves(op'[q], S) PROVE <<"key", op'[q].key>> \in U
      <4>1. CASE q = p
        BY <1>2, <1>4, <4>1
      <4>2. CASE q # p
        BY <1>4, <3>3, <4>2, HasSlot
      <4> QED BY <4>1, <4>2
    <3>4. ASSUME NEW q \in Proc, Searches(op'[q], S) PROVE <<"pick", q>> \in U
      <4>1. q # p
        BY <1>4, <1>5, <3>4
      <4> QED BY <1>4, <3>4, <4>1, HasSlot
    <3>5. Slots(S)' \subseteq U
      <4> HIDE DEF U
      <4>1. RequestSlots(op', S) \subseteq U
        BY <3>3, <3>4 DEF RequestSlots
      <4> QED BY <3>2, <4>1, SlotsSplit
    <3>6. IsFiniteSet(T) /\ Cardinality(T) \in Nat /\ Cardinality(T) <= SlotLimit
      <4> DEFINE V == StoredSlots(db, S) \cup RequestSlots(op, S)
      <4>1. IsFiniteSet(V) /\ Cardinality(V) \in Nat
        BY SlotsCount
      <4>2. T = V
        BY SlotsSplit
      <4>3. Cardinality(T) <= SlotLimit
        BY DEF SlotBound, SlotLimit
      <4> HIDE DEF T, V
      <4> QED BY <4>1, <4>2, <4>3
    <3>7. SlotLimit \in Int
      BY ProcAssumption, FS_CardinalityType, LimitAssumption DEF SlotLimit
    <3> HIDE DEF T, a, b
    <3>8. IsFiniteSet(U) /\ Cardinality(U) <= Cardinality(T)
      BY <3>1, <3>6, Exchange
    <3>9. PICK W : W = Slots(S)'
      OBVIOUS
    <3>10. IsFiniteSet(W) /\ Cardinality(W) <= Cardinality(U)
      <4> HIDE DEF U
      <4> QED BY <3>5, <3>8, <3>9, FS_Subset
    <3>11. Cardinality(U) \in Nat /\ Cardinality(W) \in Nat
      BY <3>8, <3>10, FS_CardinalityType
    <3> HIDE DEF U
    <3> QED BY <3>6, <3>7, <3>8, <3>9, <3>10, <3>11
  <2>2. CASE Candidates(p) # S
    <3>1. k \notin S
      BY <1>3, <2>2, KeyAssumption DEF Candidates
    <3>2. ~Reserves(o, S) /\ ~Searches(o, S)
      BY <1>2, <1>5, <3>1 DEF Reserves
    <3>3. Slots(S)' \subseteq Slots(S)
      BY <1>3, <3>2, HasSlot, NoNewSlot
    <3> QED BY <3>3, FewerSlots
  <2> QED BY <2>1, <2>2
<1> QED BY <1>6 DEF SlotBound, SlotLimit

\* A request that ends, while no key is added.
LEMMA FinishSlots ==
  ASSUME Ind, SlotBound, NEW p \in Proc, Finish(p), DOMAIN db' \subseteq DOMAIN db
  PROVE  SlotBound'
<1>1. op' = [op EXCEPT ![p] = Idle] /\ Idle.pc = "idle"
  BY DEF Finish, Idle, Begun
<1>2. \A S \in {Subdomains, Ports} : Slots(S)' \subseteq Slots(S)
  BY <1>1, SlotGivenUp
<1> QED BY <1>2, FewerSlots DEF SlotBound, SlotLimit

\* A request that goes on past its search and its write.
LEMMA GotoSlots ==
  ASSUME Ind, SlotBound, NEW p \in Proc, NEW pc, pc \notin {"pick", "stamp", "store"},
         Goto(p, pc), DOMAIN db' \subseteq DOMAIN db
  PROVE  SlotBound'
<1> DEFINE o == [op[p] EXCEPT !.pc = pc, !.n = 0]
<1>1. o.pc = pc
  BY DEF Ind, OpsOK, RequestOK, Operation
<1>2. op' = [op EXCEPT ![p] = o]
  BY DEF Goto
<1> HIDE DEF o
<1>3. \A S \in {Subdomains, Ports} : Slots(S)' \subseteq Slots(S)
  BY <1>1, <1>2, SlotGivenUp
<1> QED BY <1>3, FewerSlots DEF SlotBound, SlotLimit

\* Another attempt, of a search, a write or a deletion.
LEMMA AgainSlots ==
  ASSUME Ind, SlotBound, NEW p \in Proc, Again(p),
         \A k \in DOMAIN db' : k \in DOMAIN db
                               \/ (op[p].pc = "store" /\ k = op[p].key)
  PROVE  SlotBound'
<1> DEFINE o == [op[p] EXCEPT !.n = @ + 1]
<1>1. o.pc = op[p].pc /\ o.key = op[p].key /\ o.act = op[p].act
  BY DEF Ind, OpsOK, RequestOK, Operation
<1>2. op' = [op EXCEPT ![p] = o]
  BY DEF Again
<1> HIDE DEF o
<1>3. ASSUME NEW S \in {Subdomains, Ports} PROVE Slots(S)' \subseteq Slots(S)
  <2>1. Reserves(o, S) => <<"key", o.key>> \in Slots(S)
    BY <1>1, HasSlot DEF Reserves
  <2>2. Searches(o, S) => <<"pick", p>> \in Slots(S)
    BY <1>1, HasSlot DEF Searches
  <2>3. \A k \in DOMAIN db' \cap S : <<"key", k>> \in Slots(S)
    BY HasSlot DEF Reserves
  <2> QED BY <1>2, <2>1, <2>2, <2>3, NoNewSlot
<1> QED BY <1>3, FewerSlots DEF SlotBound, SlotLimit

\* Stamping a record keeps the slot of the key it is for.
LEMMA StampSlots ==
  ASSUME Ind, SlotBound, NEW p \in Proc, StampNew(p) \/ StampExtension(p)
  PROVE  SlotBound'
<1>1. op[p] \in Operation /\ op[p].pc = "stamp" /\ db' = db
  BY DEF Ind, OpsOK, RequestOK, StampNew, StampExtension, At
<1>2. CASE Finish(p)
  BY <1>1, <1>2, FinishSlots
<1>3. ASSUME NEW r, NEW ttl,
             op' = [op EXCEPT ![p].pc = "store", ![p].rec = r, ![p].ttl = ttl]
      PROVE  SlotBound'
  <2> DEFINE o == [op[p] EXCEPT !.pc = "store", !.rec = r, !.ttl = ttl]
  <2>1. o.pc = "store" /\ o.key = op[p].key
    BY <1>1 DEF Operation
  <2>2. op' = [op EXCEPT ![p] = o]
    BY <1>3
  <2> HIDE DEF o
  <2>3. \A S \in {Subdomains, Ports} : Slots(S)' \subseteq Slots(S)
    BY <1>1, <2>1, <2>2, SlotKept
  <2> QED BY <2>3, FewerSlots DEF SlotBound, SlotLimit
<1>4. CASE StampNew(p)
  BY <1>3, <1>4 DEF StampNew
<1>5. CASE StampExtension(p)
  BY <1>2, <1>3, <1>5 DEF StampExtension
<1> QED BY <1>4, <1>5

\* The key that a write adds is the one its request had reserved.
LEMMA StoreSlots ==
  ASSUME Ind, SlotBound, NEW p \in Proc, Store(p) \/ StoreLost(p)
  PROVE  SlotBound'
<1>1. op[p] \in Operation /\ op[p].pc = "store"
  BY DEF Ind, OpsOK, RequestOK, Store, StoreLost, At
<1>2. DOMAIN db' = DOMAIN db \cup {op[p].key}
  BY DEF Store, StoreLost, Stored, Put
<1>3. ASSUME NEW o, op' = [op EXCEPT ![p] = o], o.key = op[p].key, o.pc # "pick"
      PROVE  SlotBound'
  <2>1. \A S \in {Subdomains, Ports} : Slots(S)' \subseteq Slots(S)
    BY <1>1, <1>2, <1>3, SlotKept
  <2> QED BY <2>1, FewerSlots DEF SlotBound, SlotLimit
<1>4. CASE Goto(p, "start")
  <2> DEFINE o == [op[p] EXCEPT !.pc = "start", !.n = 0]
  <2>1. o.pc = "start" /\ o.key = op[p].key
    BY <1>1 DEF Operation
  <2>2. op' = [op EXCEPT ![p] = o]
    BY <1>4 DEF Goto
  <2> HIDE DEF o
  <2> QED BY <1>3, <2>1, <2>2
<1>5. CASE Finish(p)
  <2>1. op' = [op EXCEPT ![p] = Idle] /\ Idle.pc = "idle"
    BY <1>5 DEF Finish, Idle, Begun
  <2>2. ASSUME NEW S \in {Subdomains, Ports} PROVE Slots(S)' \subseteq Slots(S)
    <3>1. ~Reserves(Idle, S) /\ ~Searches(Idle, S)
      BY <2>1 DEF Reserves, Searches
    <3>2. \A k \in DOMAIN db' \cap S : <<"key", k>> \in Slots(S)
      BY <1>1, <1>2, HasSlot DEF Reserves
    <3> QED BY <2>1, <3>1, <3>2, NoNewSlot
  <2> QED BY <2>2, FewerSlots DEF SlotBound, SlotLimit
<1>6. CASE Again(p)
  BY <1>1, <1>2, <1>6, AgainSlots
<1> QED BY <1>4, <1>5, <1>6 DEF Store, StoreLost

\* The other steps of an admitted request, and its failures.
LEMMA OtherSlots ==
  ASSUME Ind, SlotBound, NEW p \in Proc,
         \/ \E k \in Keys : PickTaken(p, k)
         \/ StartProxy(p) \/ Rollback(p) \/ Delete(p) \/ StopProxy(p)
         \/ DeleteLost(p) \/ ListenFails(p) \/ RedisError(p)
  PROVE  SlotBound'
<1>1. DOMAIN db' \subseteq DOMAIN db
  <2>1. \A k : DOMAIN Remove(db, k) \subseteq DOMAIN db
    BY RemoveFacts
  <2> QED BY <2>1 DEF PickTaken, StartProxy, Rollback, Delete, StopProxy, DeleteLost,
                      ListenFails, RedisError
<1>2. Finish(p) \/ Again(p) \/ Goto(p, "stop") \/ Goto(p, "rollback")
  BY DEF PickTaken, StartProxy, Rollback, Delete, StopProxy, DeleteLost,
         ListenFails, RedisError
<1> QED BY <1>1, <1>2, FinishSlots, AgainSlots, GotoSlots

\* The clock, an eviction and a stuttering step take stored keys away.
LEMMA EnvironmentSlots ==
  ASSUME Ind, SlotBound, Tick \/ (\E k \in Keys : Evict(k)) \/ UNCHANGED vars
  PROVE  SlotBound'
<1>1. op' = op /\ DOMAIN db' \subseteq DOMAIN db
  <2>1. CASE Tick
    <3>1. op' = op /\ db' = Purge(db, now')
      BY <2>1 DEF Tick
    <3> QED BY <3>1, PurgeFacts
  <2>2. ASSUME NEW k \in Keys, Evict(k) PROVE op' = op /\ DOMAIN db' \subseteq DOMAIN db
    <3>1. op' = op /\ db' = Remove(db, k)
      BY <2>2 DEF Evict
    <3> QED BY <3>1, RemoveFacts
  <2>3. CASE UNCHANGED vars
    BY <2>3 DEF vars
  <2> QED BY <2>1, <2>2, <2>3
<1>2. ASSUME NEW S \in {Subdomains, Ports} PROVE Slots(S)' \subseteq Slots(S)
  <2>1. StoredSlots(db', S) \subseteq StoredSlots(db, S)
    BY <1>1 DEF StoredSlots
  <2>2. RequestSlots(op', S) = RequestSlots(op, S)
    BY <1>1
  <2> QED BY <2>1, <2>2, SlotsSplit
<1> QED BY <1>2, FewerSlots DEF SlotBound, SlotLimit

-----------------------------------------------------------------------------
(* The theorem.                                                            *)

\* No slot is taken at the start.
LEMMA SlotInit == Init => SlotBound
<1> SUFFICES ASSUME Init, NEW S \in {Subdomains, Ports}
             PROVE  Cardinality(Slots(S)) <= SlotLimit
  BY DEF SlotBound, SlotLimit
<1>1. StoredSlots(db, S) = {}
  BY DEF Init, EmptyKeyspace, StoredSlots
<1>2. RequestSlots(op, S) = {}
  BY DEF Init, Idle, Begun, RequestSlots, Reserves, Searches
<1>3. Cardinality(Slots(S)) = 0
  BY <1>1, <1>2, SlotsSplit, FS_EmptySet
<1>4. Cardinality(Proc) \in Nat /\ Cardinality(Proc) # 0
  BY ProcAssumption, FS_CardinalityType, FS_EmptySet
<1> QED BY <1>3, <1>4, LimitAssumption DEF SlotLimit

\* Every step of the service keeps the bound on the slots.
LEMMA SlotNext == Ind /\ SlotBound /\ [Next]_vars => SlotBound'
<1> SUFFICES ASSUME Ind, SlotBound, [Next]_vars PROVE SlotBound'
  OBVIOUS
<1>1. ASSUME NEW p \in Proc, Request(p, Keys) PROVE SlotBound'
  BY <1>1, BeginSlots
<1>2. ASSUME NEW p \in Proc, NEW d \in Requested, CreateTunnel(p, d) PROVE SlotBound'
  BY <1>2, BeginSlots
<1>3. ASSUME NEW p \in Proc, Progress(p) PROVE SlotBound'
  BY <1>3, CountTCPSlots, PickFreeSlots, StampSlots, StoreSlots, OtherSlots DEF Progress
<1>4. ASSUME NEW p \in Proc, Failure(p) PROVE SlotBound'
  BY <1>4, StoreSlots, OtherSlots DEF Failure
<1>5. CASE Tick \/ (\E k \in Keys : Evict(k)) \/ UNCHANGED vars
  BY <1>5, EnvironmentSlots
<1> QED BY <1>1, <1>2, <1>3, <1>4, <1>5 DEF Next

\* The slots never exceed the limit by more than the other requests.
THEOREM SlotInvariant == Spec => []SlotBound
<1> QED BY IndInvariant, SlotInit, SlotNext, PTL DEF Spec

\* Every stored tunnel has a slot.
LEMMA SlotsBoundCount == SlotBound => TunnelCountBound
<1> SUFFICES ASSUME SlotBound, NEW S \in {Subdomains, Ports}
             PROVE  Count(S) <= SlotLimit
  BY DEF TunnelCountBound, SlotLimit
<1> DEFINE T == StoredSlots(db, S) \cup RequestSlots(op, S)
<1>1. Count(S) <= Cardinality(T) /\ Cardinality(T) \in Nat /\ Count(S) \in Nat
  BY SlotsCount DEF Count
<1>2. Cardinality(T) <= SlotLimit
  BY SlotsSplit DEF SlotBound, SlotLimit
<1>3. SlotLimit \in Int
  BY ProcAssumption, FS_CardinalityType, LimitAssumption DEF SlotLimit
<1> HIDE DEF T
<1> QED BY <1>1, <1>2, <1>3

\* However creates, extensions and failures interleave, the tunnels of a kind
\* never exceed MAX_TUNNELS by more than one for each further request.
THEOREM TunnelCountBounded == Spec => []TunnelCountBound
<1> QED BY SlotsBoundCount, SlotInvariant, PTL
=============================================================================

--------------------------- MODULE TunnelService ---------------------------
(***************************************************************************)
(* The tunnel service of the API: src/api/tunnel.go over src/api/redis.go, *)
(* with the listener table of src/api/tcp_proxy.go.                        *)
(*                                                                         *)
(* Every HTTP request runs in a goroutine of its own (a member of Proc)    *)
(* and is a sequence of Redis round trips with Go code between them; one   *)
(* action is one round trip, or one read of the clock, so the goroutines   *)
(* interleave exactly where the program lets them.  Nothing in the service *)
(* holds a lock across two round trips.                                    *)
(*                                                                         *)
(* HTTP tunnels live under "tunnel:<subdomain>" and TCP tunnels under      *)
(* "tcp_tunnel:<port>"; Subdomains and Ports are the two disjoint sets of  *)
(* keys.  Time is counted in ticks, finer than the second to which the     *)
(* service truncates the times it writes into a record (RFC 3339).         *)
(***************************************************************************)
EXTENDS Redis

CONSTANTS
  Proc,          \* request goroutines of the API
  Subdomains,    \* names GenerateSubdomain can return
  Ports,         \* TCP_PORT_MIN .. TCP_PORT_MAX
  NoKey,         \* no key chosen yet
  MaxTunnels,    \* MAX_TUNNELS
  MinDuration,   \* MIN_TUNNEL_DURATION, in minutes
  MaxDuration,   \* MAX_TUNNEL_DURATION, in minutes, or Unlimited
  MaxAttempts,   \* tries for a free name or port (10 in the code)
  MaxRetries,    \* times the Redis client resends a command it got no reply to
  Second,        \* ticks in a second
  Minute,        \* ticks in a minute
  Wide,          \* ticks in 2^63 nanoseconds, where a time.Duration wraps
  Durations,     \* durations clients ask for
  Extensions,    \* minutes clients ask to add
  MaxTime,       \* bound: the last tick explored
  MaxMinutes,    \* bound: minutes a tunnel is extended to, at most
  MaxIds         \* bound: tunnels ever created

Unlimited == -1

Keys == Subdomains \cup Ports

ASSUME ProcAssumption == IsFiniteSet(Proc) /\ Proc # {}
ASSUME KeyAssumption ==
  /\ IsFiniteSet(Subdomains) /\ IsFiniteSet(Ports)
  /\ Subdomains \cap Ports = {}
  /\ NoKey \notin Subdomains \cup Ports
ASSUME LimitAssumption ==
  /\ MaxTunnels \in Nat
  /\ MinDuration \in Nat \cup {-1}
  /\ MaxDuration \in (Nat \ {0}) \cup {Unlimited}
  /\ MaxAttempts \in Nat \ {0}
  /\ MaxRetries \in Nat
ASSUME TimeAssumption ==
  /\ Second \in Nat \ {0} /\ Minute \in Nat \ {0}
  /\ Minute % Second = 0
  /\ Wide \in Nat \ {0}
ASSUME InputAssumption ==
  /\ Durations \subseteq Int
  /\ Extensions \subseteq Nat \ {0}
ASSUME BoundAssumption == MaxTime \in Nat /\ MaxMinutes \in Nat /\ MaxIds \in Nat

VARIABLES
  now,        \* the clock, in ticks
  db,         \* the Redis keyspace
  listeners,  \* TCPProxyManager.activeListeners: ports with a listener
  op,         \* op[p]: the request goroutine p is serving, and how far it is
  nextId,     \* history: name of the next tunnel; two tunnels that reuse a
              \*   key one after the other have different names
  revoked,    \* history: tunnels removed by a DEL whose reply arrived; one whose
              \*   first reply was lost removed its tunnel unrecorded
  raced       \* history: those of them some request still held in memory

vars == <<now, db, listeners, op, nextId, revoked, raced>>
history == <<revoked, raced>>

-----------------------------------------------------------------------------
(* Records, requests and their fields.                                     *)

\* Mutant of Trunc: times are rounded up to the second.
TruncUp(t) == Second * ((t + Second - 1) \div Second)

\* A time written into a record loses its fraction of a second.
Trunc(t) == Second * (t \div Second)

\* Signed arithmetic of two's complement on 2 * Wide values.
Wrap(x) == ((x + Wide) % (2 * Wide)) - Wide

\* time.Duration(m) * time.Minute, in ticks.
Span(m) == Wrap(m * Minute)

NoRecord == [id |-> 0, created |-> 0, expires |-> 0, dur |-> 0]

\* The record of a tunnel of d minutes stamped at t.
NewRecord(id, d, t) ==
  [id |-> id, created |-> Trunc(t), dur |-> d,
   expires |-> IF d = Unlimited THEN 0 ELSE Trunc(t + Span(d))]

\* int(d.Minutes()): the fraction is dropped, towards zero.
Minutes(d) == IF d >= 0 THEN d \div Minute ELSE -((-d) \div Minute)

NewEnd(r, m) == r.expires + Span(m)

\* The record r extended by m minutes.
Extended(r, m) ==
  [r EXCEPT !.expires = Trunc(NewEnd(r, m)), !.dur = Minutes(NewEnd(r, m) - r.created)]

TTLOf(d) == IF d = Unlimited THEN 0 ELSE Span(d)

\* A request at its first round trip, and a goroutine that serves none.
Begun(pc, act, key, min, rec, n) ==
  [pc |-> pc, act |-> act, key |-> key, min |-> min, rec |-> rec, ttl |-> 0,
   n |-> n]
Idle == Begun("idle", "none", NoKey, 0, NoRecord, 0)

Creates == {"create_http", "create_tcp"}

At(p, pc) == op[p].pc = pc
Begin(p, o) == op' = [op EXCEPT ![p] = o]
Goto(p, pc) == op' = [op EXCEPT ![p].pc = pc, ![p].n = 0]
Finish(p) == op' = [op EXCEPT ![p] = Idle]
Again(p) == op' = [op EXCEPT ![p].n = @ + 1]

Init ==
  /\ now = 0
  /\ db = EmptyKeyspace
  /\ listeners = {}
  /\ op = [p \in Proc |-> Idle]
  /\ nextId = 1
  /\ revoked = {}
  /\ raced = {}

-----------------------------------------------------------------------------
(* Creating a tunnel.                                                      *)

\* Mutant of Requested: the handlers do not look at the duration.
RequestedAny == Durations

\* The handlers of both creates keep a duration of 0 away from the service.
Requested == Durations \ {0}

\* Mutant of DurationAllowed: the cap is not looked at.
DurationUncapped(d) == d = Unlimited \/ d >= MinDuration

DurationAllowed(d) ==
  IF d = Unlimited THEN MaxDuration = Unlimited
  ELSE d >= MinDuration /\ (MaxDuration = Unlimited \/ d <= MaxDuration)

\* Bound on exploration: every create that is under way will take a name.
IdLeft == nextId + Cardinality({p \in Proc : op[p].act \in Creates}) <= MaxIds

\* Mutant of CreateTunnel: the limit is off by one.
CreateTunnelInclusive(p, d) ==
  /\ At(p, "idle") /\ IdLeft
  /\ DurationAllowed(d)
  /\ CountKeys(db, Subdomains) <= MaxTunnels
  /\ Begin(p, Begun("pick", "create_http", NoKey, d, NoRecord, 0))
  /\ UNCHANGED <<now, db, listeners, nextId, history>>

\* The HTTP create counts the HTTP tunnels alone.
CreateTunnel(p, d) ==
  /\ At(p, "idle") /\ IdLeft
  /\ DurationAllowed(d)
  /\ CountKeys(db, Subdomains) < MaxTunnels
  /\ Begin(p, Begun("pick", "create_http", NoKey, d, NoRecord, 0))
  /\ UNCHANGED <<now, db, listeners, nextId, history>>

\* The TCP create counts both kinds, in two scans.
CreateTCPTunnel(p, d) ==
  /\ At(p, "idle") /\ IdLeft
  /\ DurationAllowed(d)
  /\ Begin(p, Begun("count", "create_tcp", NoKey, d, NoRecord,
                    CountKeys(db, Subdomains)))
  /\ UNCHANGED <<now, db, listeners, nextId, history>>

\* Mutant of CountTCP: the limit is off by one.
CountTCPInclusive(p) ==
  /\ At(p, "count")
  /\ IF op[p].n + CountKeys(db, Ports) <= MaxTunnels THEN Goto(p, "pick")
                                                     ELSE Finish(p)
  /\ UNCHANGED <<now, db, listeners, nextId, history>>

CountTCP(p) ==
  /\ At(p, "count")
  /\ IF op[p].n + CountKeys(db, Ports) < MaxTunnels THEN Goto(p, "pick")
                                                    ELSE Finish(p)
  /\ UNCHANGED <<now, db, listeners, nextId, history>>

Candidates(p) == IF op[p].act = "create_http" THEN Subdomains ELSE Ports

\* Mutant of PickFree: the key is not looked up first.
PickUnchecked(p, k) ==
  /\ At(p, "pick")
  /\ k \in Candidates(p)
  /\ op' = [op EXCEPT ![p].pc = "stamp", ![p].key = k, ![p].n = 0]
  /\ UNCHANGED <<now, db, listeners, nextId, history>>

\* The random key is free: it is the tunnel's, although nothing reserves it.
PickFree(p, k) ==
  /\ At(p, "pick")
  /\ k \in Candidates(p) /\ ~Exists(db, k)
  /\ op' = [op EXCEPT ![p].pc = "stamp", ![p].key = k, ![p].n = 0]
  /\ UNCHANGED <<now, db, listeners, nextId, history>>

\* Mutant of PickTaken: the attempts are not counted.
PickForever(p, k) ==
  /\ At(p, "pick")
  /\ k \in Candidates(p) /\ Exists(db, k)
  /\ Goto(p, "pick")
  /\ UNCHANGED <<now, db, listeners, nextId, history>>

\* The random key is taken: try again, MaxAttempts times in all.
PickTaken(p, k) ==
  /\ At(p, "pick")
  /\ k \in Candidates(p) /\ Exists(db, k)
  /\ IF op[p].n + 1 < MaxAttempts THEN Again(p) ELSE Finish(p)
  /\ UNCHANGED <<now, db, listeners, nextId, history>>

\* now := time.Now(), and the record and its TTL are computed from it.
StampNew(p) ==
  /\ At(p, "stamp") /\ op[p].act \in Creates
  /\ op' = [op EXCEPT ![p].pc = "store",
                      ![p].rec = NewRecord(nextId, op[p].min, now),
                      ![p].ttl = TTLOf(op[p].min)]
  /\ nextId' = nextId + 1
  /\ UNCHANGED <<now, db, listeners, history>>

-----------------------------------------------------------------------------
(* Extending a tunnel: read, modify, write.                                *)

ExtendTunnel(p, k, m) ==
  /\ At(p, "idle")
  /\ Exists(db, k) /\ db[k].val.dur + m <= MaxMinutes
  /\ Begin(p, Begun("stamp", "extend", k, m, db[k].val, 0))
  /\ UNCHANGED <<now, db, listeners, nextId, history>>

\* Mutant of ExtensionAllowed: the cap limits one extension, not the total.
ExtensionCappedAlone(r, m, t) ==
  /\ r.dur # Unlimited
  /\ MaxDuration # Unlimited => m <= MaxDuration
  /\ t <= r.expires

\* An unlimited tunnel, a total above the cap and a tunnel that has expired
\* in the meantime are refused.
ExtensionAllowed(r, m, t) ==
  /\ r.dur # Unlimited
  /\ MaxDuration # Unlimited =>
       NewEnd(r, m) <= r.created + Span(MaxDuration)
  /\ t <= r.expires

\* Mutant of StampExtension: the TTL is that of the added minutes alone.
StampExtensionShort(p) ==
  /\ At(p, "stamp") /\ op[p].act = "extend"
  /\ IF ExtensionAllowed(op[p].rec, op[p].min, now)
     THEN op' = [op EXCEPT ![p].pc = "store",
                           ![p].rec = Extended(op[p].rec, op[p].min),
                           ![p].ttl = Span(op[p].min)]
     ELSE Finish(p)
  /\ UNCHANGED <<now, db, listeners, nextId, history>>

StampExtension(p) ==
  /\ At(p, "stamp") /\ op[p].act = "extend"
  /\ IF ExtensionAllowed(op[p].rec, op[p].min, now)
     THEN op' = [op EXCEPT ![p].pc = "store",
                           ![p].rec = Extended(op[p].rec, op[p].min),
                           ![p].ttl = NewEnd(op[p].rec, op[p].min) - now]
     ELSE Finish(p)
  /\ UNCHANGED <<now, db, listeners, nextId, history>>

-----------------------------------------------------------------------------
(* Writing the record, and starting the listener of a TCP tunnel.          *)

Stored(p) == db' = Put(db, op[p].key, op[p].rec, op[p].ttl, now)

\* Mutant of Store: a listener is started for every kind of tunnel.
StoreThenStart(p) ==
  /\ At(p, "store")
  /\ Stored(p)
  /\ IF op[p].act \in Creates THEN Goto(p, "start") ELSE Finish(p)
  /\ UNCHANGED <<now, listeners, nextId, history>>

Store(p) ==
  /\ At(p, "store")
  /\ Stored(p)
  /\ IF op[p].act = "create_tcp" THEN Goto(p, "start") ELSE Finish(p)
  /\ UNCHANGED <<now, listeners, nextId, history>>

\* Redis executed the SET but its reply was lost: the client library sends
\* it again, or gives up and the request fails.
StoreLost(p) ==
  /\ At(p, "store")
  /\ Stored(p)
  /\ IF op[p].n < MaxRetries THEN Again(p) ELSE Finish(p)
  /\ UNCHANGED <<now, listeners, nextId, history>>

\* StartProxy also succeeds when the port already has a listener.
StartProxy(p) ==
  /\ At(p, "start")
  /\ listeners' = listeners \cup {op[p].key}
  /\ Finish(p)
  /\ UNCHANGED <<now, db, nextId, history>>

ListenFails(p) ==
  /\ At(p, "start") /\ op[p].key \notin listeners
  /\ Goto(p, "rollback")
  /\ UNCHANGED <<now, db, listeners, nextId, history>>

\* The record is deleted by its key; an error of the DEL is ignored.
Rollback(p) ==
  /\ At(p, "rollback")
  /\ db' \in {Remove(db, op[p].key), db}
  /\ Finish(p)
  /\ UNCHANGED <<now, listeners, nextId, history>>

-----------------------------------------------------------------------------
(* Deleting a tunnel.                                                      *)

DeleteTunnel(p, k) ==
  /\ At(p, "idle")
  /\ Exists(db, k)
  /\ Begin(p, Begun("delete", "delete", k, 0, NoRecord, 0))
  /\ UNCHANGED <<now, db, listeners, nextId, history>>

\* Requests that hold the record of tunnel i and may still write it back.
Holds(p) == At(p, "store") \/ (At(p, "stamp") /\ op[p].act = "extend")
Holders(i) == {p \in Proc : Holds(p) /\ op[p].rec.id = i}

\* Mutant of Delete: the record of a TCP tunnel is left to its TTL.
DeleteListenerOnly(p) ==
  /\ At(p, "delete")
  /\ LET gone == IF Exists(db, op[p].key) THEN {db[op[p].key].val.id} ELSE {}
     IN  /\ revoked' = revoked \cup gone
         /\ raced' = raced \cup {i \in gone : Holders(i) # {}}
  /\ IF op[p].key \in Ports
     THEN Goto(p, "stop") /\ UNCHANGED db
     ELSE Finish(p) /\ db' = Remove(db, op[p].key)
  /\ UNCHANGED <<now, listeners, nextId>>

Delete(p) ==
  /\ At(p, "delete")
  /\ LET gone == IF Exists(db, op[p].key) THEN {db[op[p].key].val.id} ELSE {}
     IN  /\ revoked' = revoked \cup gone
         /\ raced' = raced \cup {i \in gone : Holders(i) # {}}
  /\ db' = Remove(db, op[p].key)
  /\ IF op[p].key \in Ports THEN Goto(p, "stop") ELSE Finish(p)
  /\ UNCHANGED <<now, listeners, nextId>>

\* Redis executed the DEL but its reply was lost.
DeleteLost(p) ==
  /\ At(p, "delete")
  /\ db' = Remove(db, op[p].key)
  /\ IF op[p].n < MaxRetries THEN Again(p) ELSE Finish(p)
  /\ UNCHANGED <<now, listeners, nextId, history>>

StopProxy(p) ==
  /\ At(p, "stop")
  /\ listeners' = listeners \ {op[p].key}
  /\ Finish(p)
  /\ UNCHANGED <<now, db, nextId, history>>

-----------------------------------------------------------------------------
(* Failures, the clock and Redis itself.                                   *)

\* A command fails without having been executed; the request returns the
\* error at once.
RedisError(p) ==
  /\ op[p].pc \in {"count", "pick", "store", "delete"}
  /\ Finish(p)
  /\ UNCHANGED <<now, db, listeners, nextId, history>>

Tick ==
  /\ now < MaxTime
  /\ now' = now + 1
  /\ db' = Purge(db, now')
  /\ UNCHANGED <<listeners, op, nextId, history>>

\* maxmemory-policy allkeys-lru: Redis may drop any key under memory pressure.
Evict(k) ==
  /\ Exists(db, k)
  /\ db' = Remove(db, k)
  /\ UNCHANGED <<now, listeners, op, nextId, history>>

\* A step of a request that was already admitted.
Progress(p) ==
  \/ CountTCP(p)
  \/ \E k \in Keys : PickFree(p, k) \/ PickTaken(p, k)
  \/ StampNew(p) \/ StampExtension(p)
  \/ Store(p) \/ StartProxy(p) \/ Rollback(p)
  \/ Delete(p) \/ StopProxy(p)

Failure(p) == StoreLost(p) \/ DeleteLost(p) \/ ListenFails(p) \/ RedisError(p)

\* A new request; ks are the tunnels it may name.
Request(p, ks) ==
  \/ \E d \in Requested : CreateTCPTunnel(p, d)
  \/ \E k \in ks, m \in Extensions : ExtendTunnel(p, k, m)
  \/ \E k \in ks : DeleteTunnel(p, k)

Next ==
  \/ \E p \in Proc : Request(p, Keys)
  \/ \E p \in Proc : \E d \in Requested : CreateTunnel(p, d)
  \/ \E p \in Proc : Progress(p)
  \/ \E p \in Proc : Failure(p)
  \/ Tick
  \/ \E k \in Keys : Evict(k)

Spec == Init /\ [][Next]_vars

\* The Go scheduler runs every goroutine and every Redis call returns within
\* its timeout; nothing obliges a client, Redis or the clock to act.
FairSpec == Spec /\ \A p \in Proc : WF_vars(Progress(p))

-----------------------------------------------------------------------------
(* Properties.                                                             *)

Record == [id : Nat, created : Int, expires : Int, dur : Int]
Entry == [val : Record, exp : Int]
Operation ==
  [pc : {"idle", "count", "pick", "stamp", "store", "start", "rollback",
         "delete", "stop"},
   act : Creates \cup {"none", "extend", "delete"},
   key : Keys \cup {NoKey}, min : Int, rec : Record, ttl : Int, n : Nat]

\* The types of the variables.
TypeOK ==
  /\ now \in Nat
  /\ DOMAIN db \subseteq Keys
  /\ \A k \in DOMAIN db : db[k] \in Entry
  /\ listeners \subseteq Ports
  /\ op \in [Proc -> Operation]
  /\ nextId \in Nat \ {0}
  /\ revoked \subseteq Nat
  /\ raced \subseteq revoked

\* The count check and the SET are far apart, so concurrent creates overshoot
\* MAX_TUNNELS; but never by more than one tunnel per other request, even
\* though an extension can bring a deleted or expired tunnel back between
\* (CreateTunnel and CreateTCPTunnel, one kind of tunnel at a time).
Count(S) == Cardinality(DOMAIN db \cap S)
TunnelCountBound ==
  \A S \in {Subdomains, Ports} :
    Count(S) <= MaxTunnels + Cardinality(Proc) - 1

\* However often it was extended, and by requests that raced, a stored tunnel
\* lives exactly the minutes its record says, at least MIN_TUNNEL_DURATION
\* and, when there is a cap, at most MAX_TUNNEL_DURATION from its creation
\* (the cap check of ExtendTunnel reads a record that may be stale).
WithinCap(r) ==
  IF r.dur = Unlimited THEN MaxDuration = Unlimited
  ELSE /\ r.expires = r.created + r.dur * Minute
       /\ r.dur >= MinDuration
       /\ MaxDuration # Unlimited => r.dur <= MaxDuration
LifetimeCap == \A k \in DOMAIN db : WithinCap(db[k].val)

\* Redis never drops a tunnel before the expires_at its client was given, and
\* keeps one without a deadline only if it is unlimited: the TTL was computed
\* from a clock read one or more steps before the SET that starts it.
TTLCoversRecord ==
  \A k \in DOMAIN db :
    IF db[k].val.dur = Unlimited
    THEN db[k].exp = Persist
    ELSE db[k].exp # Persist /\ db[k].val.expires <= db[k].exp

\* A tunnel that a DEL removed while no other request held its record, and
\* whose reply arrived, is never stored again: no create reuses its identity,
\* no retry and no later extension brings it back (DeleteTunnel against
\* ExtendTunnel).
CleanRevocationIsFinal ==
  \A k \in DOMAIN db : db[k].val.id \notin revoked \ raced

\* The inductive invariant behind these properties has three parts, each saying
\* of the records in memory what a property says of those stored.  First, what
\* a request holds at each point of its code.
OpOK(p) ==
  /\ op[p].pc \in {"stamp", "store", "start", "rollback", "delete", "stop"}
       => op[p].key \in Keys
  /\ op[p].pc = "count" => op[p].act = "create_tcp"
  /\ op[p].pc = "pick" => op[p].act \in Creates
  /\ op[p].pc \in {"stamp", "store", "start", "rollback"}
       => op[p].act \in Creates \cup {"extend"}
  /\ op[p].act = "create_tcp" /\ op[p].pc \notin {"count", "pick"}
       => op[p].key \in Ports
  /\ op[p].pc \in {"start", "rollback"} => op[p].act = "create_tcp"
  /\ op[p].act \in Creates => op[p].min \in Requested /\ DurationAllowed(op[p].min)
  /\ op[p].act = "extend" => op[p].min \in Extensions
  /\ Holds(p) => WithinCap(op[p].rec)
  /\ At(p, "store") =>
       IF op[p].rec.dur = Unlimited THEN op[p].ttl = 0
       ELSE op[p].ttl > 0 /\ op[p].rec.expires <= now + op[p].ttl

\* Second, names of tunnels are fresh when they are given, and a request that
\* holds a revoked tunnel makes its revocation a raced one.
IdsOK ==
  /\ \A k \in DOMAIN db : db[k].val.id < nextId
  /\ \A i \in revoked : i < nextId
  /\ \A p \in Proc : Holds(p) =>
       /\ op[p].rec.id < nextId
       /\ op[p].rec.id \in revoked => op[p].rec.id \in raced

\* What the requests in flight hold is as sound as what is stored.
InFlightOK == (\A p \in Proc : OpOK(p)) /\ IdsOK

\* Third, the keys stored, the keys a request is about to store and the creates
\* that passed the count but have no key yet, counted together, obey the bound
\* of TunnelCountBound: no step of two racing requests makes room for a third.
Slots(S) ==
  {<<"key", k>> : k \in DOMAIN db \cap S}
    \cup {<<"key", op[p].key>> :
            p \in {q \in Proc : op[q].pc \in {"stamp", "store"} /\ op[q].key \in S}}
    \cup {<<"pick", p>> : p \in {q \in Proc : At(q, "pick") /\ Candidates(q) = S}}
SlotBound ==
  \A S \in {Subdomains, Ports} :
    Cardinality(Slots(S)) <= MaxTunnels + Cardinality(Proc) - 1

\* What the program can count in nanoseconds without wrapping around.
Fits(m) == -Wide <= m * Minute /\ m * Minute < Wide
InputsFit ==
  /\ \A m \in Durations \cup Extensions : Fits(m)
  /\ MaxDuration # Unlimited => Fits(MaxDuration)

\* docs/API_REFERENCE.md: the total lifetime of a tunnel must not exceed
\* MAX_TUNNEL_DURATION.  So under a cap Redis keeps no tunnel for ever; stated
\* without InputsFit.
CappedTunnelsEnd ==
  MaxDuration # Unlimited => \A k \in DOMAIN db : db[k].exp # Persist

\* docs/API_REFERENCE.md: DELETE revokes an active tunnel.  Stated without
\* the exception of CleanRevocationIsFinal.
RevokedStaysRevoked == \A k \in DOMAIN db : db[k].val.id \notin revoked

\* Every request gets an answer: the search for a free name or port ends, also
\* while names and ports are taken and given up by others, and whatever fails.
RequestsFinish == \A p \in Proc : op[p].pc # "idle" ~> op[p].pc = "idle"

\* The registry an operator believes in, implemented when requests come one
\* at a time.
Registry == INSTANCE TunnelLifecycle WITH
  reg <- [k \in DOMAIN db |-> [id |-> db[k].val.id, dur |-> db[k].val.dur]]
RegistrySpec == Registry!Spec
=============================================================================

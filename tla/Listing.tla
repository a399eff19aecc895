------------------------------ MODULE Listing ------------------------------
(***************************************************************************)
(* SCAN as the loop it is: ScanKeys and CountKeys of src/api/redis.go, and *)
(* what the service builds on them in src/api/tunnel.go, the two listings  *)
(* and the count check of the two creates.                                 *)
(*                                                                         *)
(* TunnelService takes a scan as one command, which it is while Redis      *)
(* holds fewer keys than one SCAN call looks at (100).  Here a scan is any *)
(* number of calls, and other requests run between them.  Redis promises   *)
(* to return a key that is there from the first call to the last, and      *)
(* promises nothing about one that comes or goes; it may return a key      *)
(* twice.  Of a deletion and of an expiry a scan sees only that the key    *)
(* goes, so both are an eviction here, and the clock stands still.         *)
(***************************************************************************)
EXTENDS TunnelService

VARIABLES
  scan,     \* scan[p]: what the scanning request p has seen so far
  revived   \* history: extensions that stored a tunnel Redis had dropped

listingVars == <<vars, scan, revived>>

NoScan == [todo |-> {}, found |-> {}, got |-> {}, missed |-> {}, through |-> {}]

Names(d, ks) == {d[k].val.id : k \in DOMAIN d \cap ks}

\* A scan of the keys ks.  Two of its fields are history: "through", the tunnels
\* that have been stored all the time since it began, and "missed", those whose
\* GET failed.
ScanOf(ks) == [NoScan EXCEPT !.todo = ks, !.through = Names(db, ks)]

Scans(p, s) == scan' = [scan EXCEPT ![p] = s]

ListingInit == Init /\ scan = [p \in Proc |-> NoScan] /\ revived = 0

-----------------------------------------------------------------------------
(* The loop over SCAN.                                                     *)

\* One call: it looks at the keys of the part "seen", the last ones or not,
\* and returns those present, and perhaps one it has returned before.
Call(p, seen, again) ==
  /\ op[p].pc \in {"count", "scan"}
  /\ seen \subseteq scan[p].todo
  /\ again = 0 \/ (scan[p].found # {} /\ op[p].act \in Creates)
  /\ UNCHANGED <<now, db, listeners, nextId, history>>

\* Mutant of Last: the cursor is not looked at.
LastAlways(p, seen) == TRUE

\* The reply carries cursor 0.
Last(p, seen) == scan[p].todo = seen

\* The keys returned so far; a listing does not look at their number, nor
\* does a property at a tunnel that is listed twice.
Tally(p, seen, again) ==
  IF op[p].act = "list" THEN 0 ELSE op[p].n + CountKeys(db, seen) + again

Visited(p, seen) ==
  [scan[p] EXCEPT !.todo = @ \ seen, !.found = @ \cup (DOMAIN db \cap seen)]

ScanMore(p, seen, again) ==
  /\ Call(p, seen, again) /\ seen # {} /\ ~Last(p, seen)
  /\ op' = [op EXCEPT ![p].n = Tally(p, seen, again)]
  /\ Scans(p, Visited(p, seen))

\* A scan that fails fails the request.
ScanError(p) ==
  /\ op[p].pc \in {"count", "scan"}
  /\ Finish(p) /\ Scans(p, NoScan)
  /\ UNCHANGED <<now, db, listeners, nextId, history>>

-----------------------------------------------------------------------------
(* The count check of a create: a TCP create scans the HTTP tunnels first. *)

BeginCount(p, act, d) ==
  /\ At(p, "idle") /\ IdLeft
  /\ DurationAllowed(d)
  /\ Begin(p, Begun(IF act = "create_tcp" THEN "count" ELSE "scan", act, NoKey,
                    d, NoRecord, 0))
  /\ Scans(p, ScanOf(Subdomains))
  /\ UNCHANGED <<now, db, listeners, nextId, history>>

CountPorts(p, seen, again) ==
  /\ Call(p, seen, again) /\ Last(p, seen) /\ At(p, "count")
  /\ op' = [op EXCEPT ![p].pc = "scan", ![p].n = Tally(p, seen, again)]
  /\ Scans(p, ScanOf(Ports))

\* Mutant of CountDone: the limit is off by one.
CountDoneInclusive(p, seen, again) ==
  /\ Call(p, seen, again) /\ Last(p, seen)
  /\ At(p, "scan") /\ op[p].act \in Creates
  /\ IF Tally(p, seen, again) <= MaxTunnels THEN Goto(p, "pick") ELSE Finish(p)
  /\ Scans(p, NoScan)

CountDone(p, seen, again) ==
  /\ Call(p, seen, again) /\ Last(p, seen)
  /\ At(p, "scan") /\ op[p].act \in Creates
  /\ IF Tally(p, seen, again) < MaxTunnels THEN Goto(p, "pick") ELSE Finish(p)
  /\ Scans(p, NoScan)

-----------------------------------------------------------------------------
(* ListTunnels and ListTCPTunnels: a scan, then a GET for each key found.  *)

BeginList(p, ks) ==
  /\ At(p, "idle")
  /\ Begin(p, Begun("scan", "list", NoKey, 0, NoRecord, 0))
  /\ Scans(p, ScanOf(ks))
  /\ UNCHANGED <<now, db, listeners, nextId, history>>

\* The next point of the code, when the keys ks are still to be fetched.
ListPC(ks) == IF ks = {} THEN "answer" ELSE "get"

ListScanned(p, seen, again) ==
  /\ Call(p, seen, again) /\ Last(p, seen)
  /\ At(p, "scan") /\ op[p].act = "list"
  /\ Goto(p, ListPC(Visited(p, seen).found))
  /\ Scans(p, Visited(p, seen))

\* The GET of key k; a key that is gone by now is left out.
Fetch(p, k) ==
  /\ At(p, "get") /\ k \in scan[p].found
  /\ Goto(p, ListPC(scan[p].found \ {k}))
  /\ Scans(p, [scan[p] EXCEPT !.found = @ \ {k}, !.got = @ \cup Names(db, {k})])
  /\ UNCHANGED <<now, db, listeners, nextId, history>>

\* A GET that fails is left out as well, and the listing still succeeds.
FetchFails(p, k) ==
  /\ At(p, "get") /\ k \in scan[p].found
  /\ Goto(p, ListPC(scan[p].found \ {k}))
  /\ Scans(p, [scan[p] EXCEPT !.found = @ \ {k}, !.missed = @ \cup Names(db, {k})])
  /\ UNCHANGED <<now, db, listeners, nextId, history>>

\* 200 with the tunnels in scan[p].got.
Answer(p) ==
  /\ At(p, "answer")
  /\ Finish(p) /\ Scans(p, NoScan)
  /\ UNCHANGED <<now, db, listeners, nextId, history>>

-----------------------------------------------------------------------------
ScanStep(p) ==
  \/ \E act \in Creates, d \in Requested : BeginCount(p, act, d)
  \/ \E ks \in {Subdomains, Ports} : BeginList(p, ks)
  \/ \E seen \in SUBSET scan[p].todo, again \in {0, 1} :
       \/ ScanMore(p, seen, again) \/ CountPorts(p, seen, again)
       \/ CountDone(p, seen, again) \/ ListScanned(p, seen, again)
  \/ \E k \in scan[p].found : Fetch(p, k) \/ FetchFails(p, k)
  \/ ScanError(p) \/ Answer(p)

\* The steps of a create past its count, and of an extension.
ServiceStep(p) ==
  \/ \E k \in Keys, m \in Extensions : ExtendTunnel(p, k, m)
  \/ \E k \in Keys : PickFree(p, k) \/ PickTaken(p, k)
  \/ StampNew(p) \/ StampExtension(p)
  \/ Store(p) \/ StartProxy(p) \/ Rollback(p) \/ ListenFails(p)

\* What the history variables make of a step.
Watched(s) ==
  [s EXCEPT !.through = @ \cap Names(db', Keys)]

Revivals ==
  Cardinality({p \in Proc : /\ At(p, "store") /\ op[p].act = "extend"
                            /\ op[p] # op'[p]
                            /\ op[p].key \in DOMAIN db' \ DOMAIN db})

ListingNext ==
  \/ \E p \in Proc : ScanStep(p) /\ UNCHANGED revived
  \/ /\ \/ \E p \in Proc : ServiceStep(p)
        \/ \E k \in Keys : Evict(k)
     /\ scan' = [p \in Proc |-> Watched(scan[p])]
     /\ revived' = revived + Revivals

ListingSpec == ListingInit /\ [][ListingNext]_listingVars

-----------------------------------------------------------------------------
(* Properties.                                                             *)

\* A listing that answers 200 shows every tunnel of its kind that was stored
\* from its first SCAN to its last GET, however many others came and went
\* between the calls; it leaves out those alone whose own GET failed.
ListComplete ==
  \A p \in Proc :
    At(p, "answer") => scan[p].through \subseteq scan[p].got \cup scan[p].missed

\* TunnelCountBound, with counts that take several calls.  A scan misses a key
\* that is stored behind it, and an extension can store one there without a
\* count of its own, so each tunnel an extension revives raises the bound.
ScanCountBound ==
  \A S \in {Subdomains, Ports} :
    Count(S) <= MaxTunnels + Cardinality(Proc) - 1 + revived
=============================================================================

-------------------------------- MODULE Redis --------------------------------
(***************************************************************************)
(* The part of Redis the agent relies on, as pure operators on a keyspace. *)
(* A keyspace is a function whose domain is the set of keys present now    *)
(* and whose values are entries [val, exp]: the stored value and the       *)
(* instant after which Redis no longer returns it.  The operators are the  *)
(* methods of RedisClient in src/api/redis.go; each is one Redis command   *)
(* and therefore atomic.                                                   *)
(***************************************************************************)
EXTENDS Integers, FiniteSets

\* The deadline of a key stored without a TTL.
Persist == -1

EmptyKeyspace == [k \in {} |-> [val |-> 0, exp |-> Persist]]

\* SET key val [PX ttl] at instant t.  The client sends an expiry only for
\* a positive ttl; a zero or a negative one stores a key that never expires.
Put(db, k, v, ttl, t) ==
  [x \in DOMAIN db \cup {k} |->
     IF x = k THEN [val |-> v, exp |-> IF ttl > 0 THEN t + ttl ELSE Persist]
              ELSE db[x]]

\* DEL key.  Deleting an absent key is not an error.
Remove(db, k) == [x \in DOMAIN db \ {k} |-> db[x]]

\* EXISTS key (and GET key: the value is then db[k].val).
Exists(db, k) == k \in DOMAIN db

\* Redis drops a key once the clock has passed its deadline.
Alive(entry, t) == entry.exp = Persist \/ t <= entry.exp

Purge(db, t) == [x \in {k \in DOMAIN db : Alive(db[k], t)} |-> db[x]]

\* len(SCAN pattern): the number of the keys in S that are present.
CountKeys(db, S) == Cardinality(DOMAIN db \cap S)
=============================================================================

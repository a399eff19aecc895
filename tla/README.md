# Sirius agent: a formal model

This directory holds TLA+ models of the agent in `api/`, `proxy/lua/` and
`redis/`, the TLC configurations that explore them, and machine-checked proofs
of what they show, for every size of the system. Paths below are relative to the repository.

Contents: [the system](#the-system) · [modules](#modules) ·
[abstractions](#abstractions-and-what-they-leave-out) · [fairness](#fairness) ·
[runs](#runs) · [disagreements](#where-code-and-documents-disagree) ·
[observations](#further-observations) ·
[proofs](#proofs) · [not modelled](#not-modelled) · [plan](#plan).

## The system

The agent hands out temporary tunnels. An HTTP tunnel is a random subdomain, a
TCP tunnel a random port of a range; each is a JSON record in Redis with a TTL.
Nothing else is persistent. A Go API process creates, extends and deletes the
records; nginx with a Lua script reads them for each HTTP request; the API
process itself listens on the ports of the TCP tunnels.

| Component | State it keeps | Operations | Hard because |
|---|---|---|---|
| Tunnel service, `api/tunnel.go` | none of its own: records in Redis under `tunnel:<subdomain>` and `tcp_tunnel:<port>` | create (HTTP, TCP), extend, delete, get, list | each operation is several Redis round trips with no lock and no transaction |
| Redis client, `api/redis.go` | connection pool | SET with TTL, GET, EXISTS, DEL, SCAN, INCR+EXPIRE pipeline | the client library resends a command whose reply was lost |
| Subdomain generator, `api/subdomain.go` | none | random name, search for a free one | a name found free is not reserved |
| TCP proxy manager, `api/tcp_proxy.go` | `activeListeners`, under a mutex | StartProxy, StopProxy, accept loops, handleConnection, StartAllActiveTunnels | its table must follow Redis, which changes by itself (expiry, eviction) |
| Process, `api/main.go`, `systemd/sirius-api.service` | none | start, crash, restart | listeners are rebuilt while requests are already served |
| API rate limiter, `api/middleware.go` | counter in Redis for each address | one INCR+EXPIRE a request | two commands, not atomic; fails open |
| Proxy rate limiter, `proxy/lua/tunnel_lookup.lua` 10-44 | counter in a dictionary the nginx workers share | get, then set or incr | workers interleave between read and write |
| Proxy lookup, `proxy/lua/tunnel_lookup.lua` 46-169 | none | GET the record, check the address, route | trusts Redis's expiry; has an address check of its own |
| Handlers and authentication, `api/handlers.go`, `api/middleware.go` | none | check key, rate and body, call the service, turn its error into a status | the status is found by searching the text of the error, Redis's texts too |
| Configuration, `api/config.go` | the settings read at start | defaults, list of upstream ports, port range, required settings | tunnels outlive the settings they were made under |
| Address lists, `api/tunnel.go` 43-77, `api/tcp_proxy.go` 181-199 | in each record | validate, normalise, compare | one address has several spellings, two programs compare |
| Redis server, `redis/redis.conf` | the keyspace, in memory only | expiry, LRU eviction of any key | keys vanish between two steps of a request |

How they interact: handlers call the tunnel service, one goroutine for each
HTTP request; the service calls Redis and, for TCP tunnels, the proxy manager
(create: SET, then StartProxy, then DEL if that failed; delete: DEL, then
StopProxy). Each accepted connection is a goroutine that GETs its record and
stops the listener if there is none. At start one goroutine scans Redis and
restores listeners while the server already accepts requests. So Redis is the
only shared memory, every access to it is one atomic command, and every
sequence of two accesses can be interleaved with those of other goroutines,
with an expiry, with an eviction, and with the death of the process.

What makes each component correct:

* *Tunnel service.* A stored tunnel never outlives MAX_TUNNEL_DURATION, however
  it was extended; Redis keeps it as long as its client was told; concurrent
  creates overshoot MAX_TUNNELS by a bounded amount only; a deleted tunnel stays
  deleted; an extension lengthens; every request ends.
* *Proxy manager and process.* A client that connects after a tunnel was deleted
  does not reach its upstream; the listener of a tunnel that is gone is closed;
  a stored TCP tunnel has a listener that accepts, also after a crash.
* *Handlers.* A client may rely on the status: after 4xx or 503 nothing was done,
  after 2xx what it was shown is so.
* *Listings and counts.* A listing shows every tunnel that was there throughout,
  although SCAN is a loop and keys come and go between its calls.
* *Settings and address lists.* Whoever is let through was meant by the list as it was
  written, and no upstream port is dialled that the settings did not permit.
* *Limiters.* Bounds on what passes in a minute, whatever interleaves; a client
  that obeys is served again.

`PROJECT.json` lists the hazards of this code one by one, with the line where
each bites and the properties that watch it.

## Modules

| Module | Models |
|---|---|
| `Redis` | the commands of `api/redis.go` as operators on a keyspace; also that a TTL of zero or less stores a key that never expires |
| `TunnelLifecycle` | abstract: what the API promises of a tunnel, without Redis, clock or requests |
| `TunnelService` | `api/tunnel.go` over `Redis`, with the listener table |
| `Agent` | `TunnelService` together with connections, accept loops, the restoring goroutine, crash and restart |
| `Listing` | `TunnelService` with SCAN as the loop it is: `ScanKeys`, the counts, the two listings |
| `Api` | `TunnelService` behind the handlers: gates, error texts, statuses, answers |
| `Gateway` | settings, port and address lists, start and orderly stop, the TCP and the Lua access check |
| `RateLimit` | `RateLimitMiddleware` over `Increment` |
| `ProxyRateLimit` | the Lua limiter |
| `MCTunnels`, `MCListing`, `MCApi`, `MCAgent`, `MCGateway`, `MCRateLimit`, `MCProxyRateLimit` | values and symmetry for TLC |
| `TunnelServiceProofs`, `TunnelCountProofs` | theorems about `TunnelService` |
| `ListingProofs`, `AgentProofs`, `ApiProofs`, `GatewayProofs` | theorems about `Listing`, `Agent`, `Api` with `TunnelLifecycle`, and `Gateway` |
| `RateLimitProofs`, `ProxyRateLimitProofs` | theorems about the two limiters |

`Listing`, `Api` and `Agent` each extend `TunnelService` and compose it with one neighbour.
`Gateway` stands alone: it takes requests as atomic and looks at the data
`TunnelService` abstracts from.

### TunnelService and the code

`op[p]` is the request goroutine `p` serves: `pc` is the round trip it does next,
`act` the operation, `key`, `min` and `rec` its local variables, `ttl` the
expiration it will pass to SET, `n` a counter (attempts, resends, or the first of
two counts). One action is one round trip, or one `time.Now()`.

| Code | Actions, in order |
|---|---|
| `CreateTunnel` | `CreateTunnel` (validation and count) · `PickFree`/`PickTaken` (`GenerateSubdomain`) · `StampNew` (`time.Now()`, record, TTL) · `Store` |
| `CreateTCPTunnel` | `CreateTCPTunnel` (validation, first count) · `CountTCP` (second count) · `PickFree`/`PickTaken` (the loop over `getRandomTCPPort`) · `StampNew` · `Store` · `StartProxy`, or `ListenFails` and `Rollback` |
| `ExtendTunnel`, `ExtendTCPTunnel` | `ExtendTunnel` (Get) · `StampExtension` (unlimited, cap, expiry, new record, new TTL) · `Store` |
| `DeleteTunnel`, `DeleteTCPTunnel` | `DeleteTunnel` (EXISTS) · `Delete` (DEL) · `StopProxy` |
| any Redis error | `RedisError` (not executed), `StoreLost`, `DeleteLost` (executed, reply lost; resent up to MaxRetries times) |
| Redis itself | `Tick` drops expired keys, `Evict` any key |

Extend and delete have the same structure for both kinds of tunnel, so one
action stands for both functions; `key` tells which.

Time is counted in ticks. A record's times lose their fraction of a second
(`Trunc`), because they are formatted as RFC 3339; the TTL passed to Redis does
not. This difference is what `TTLCoversRecord` is about. A `time.Duration` is an
int64: `Span` wraps around at `Wide` ticks, and `InputsFit` says that nothing asked
for or configured is that large.

### Listing and the code

`scan[p]` is the state of one `ScanKeys`: the keys the cursor has not passed (`todo`),
those returned (`found`), and the tunnels a listing has fetched (`got`) or whose own GET
failed (`missed`), which it leaves out. One SCAN call looks at
any part of the rest, may return a key again, and ends the scan if its reply carries
cursor 0 (`Last`). A create counts by scans (`BeginCount`, `ScanMore`, `CountPorts`,
`CountDone`) and goes on as in `TunnelService`; a listing scans and then GETs each key
(`Fetch`, `FetchFails`, `Answer`).

### Api and the code

Each step of a request of `TunnelService` is wrapped by `Handled`, which answers when the
service method returns. `Says` gives the words in the text of each error that some
handler searches for, `Rules` the searches in their order, `StatusOf` the status: that of the first rule that hits.
Requests that end before any change are actions here: `GateRefuses` (key, rate, body),
`CreateDeclined` and `ChangeDeclined` (arguments, limit, no such tunnel, first command
failed). `reply[p]` is the last answer, `wrote[p]` whether that request changed anything,
`resent[p]` whether the reply to its SET or DEL was lost and the command went out again.
The handlers take a duration of 0 for a missing one; `Requested` holds those that reach the service.

### Gateway and the code

`Start(s)` is `main` with settings `s` for which `LoadConfig` returns no error; with
others the process exits and systemd tries again, which changes nothing. `Terminate` is
SIGTERM, `Exit` the end of draining or a crash, `Restore` the restoring goroutine.
`CreateTCP` checks upstream port and list and draws a port of the range; the record keeps
the normalised list. `Connect` is `handleConnection`, `Lookup` the Lua script, which works
without the API. Lists are sets of entries and of items, as neither order nor repetition
matters to the loops over them. `meant` and `permitted` in a record are history: what
the list and the settings say to their reader, defined without the code's operators.

### Agent and the code

`conn[c]` is a `handleConnection` goroutine: `get` (GET the record), `stop` (no
record or an error: StopProxy), `dial` (address list and upstream), `open`
(bytes flow). `listeners` is `activeListeners` and `accepting` the ports whose
`acceptLoop` runs: the loop ends at the first error of Accept while the port
stays in the table. `boot` is `StartAllActiveTunnels`: scan, then for each port
GET and StartProxy. `Crash` clears everything but Redis, `Restart` starts the
process and the restoring goroutine.

### The limiters

In `RateLimit` INCR and EXPIRE are two actions: the EXPIRE comes with the
decision (`Admit`, `Reject`), and the pipeline may break between them (`Cut`) or
after them (`AnswerLost`). `EvictCounter` drops the counter before its deadline, as
Redis may under `allkeys-lru` (`redis.conf:24`) and does when it is restarted. In `ProxyRateLimit` `ReadCount` is
`limit_store:get`, and `WriteCount` the `set` or `incr` with the decision, made on
the value read before. What passed is history: in `RateLimit` a set of pairs
(tick of the INCR, its number among all INCRs), because one request's INCR and its decision
are apart, and a lost counter gives out the same counts again; in `ProxyRateLimit` the sequence of the ticks at
which requests were let through, where two workers may have used the same count.

### TunnelLifecycle and the refinement

The abstract registry maps names in use to a tunnel and its duration, and
remembers which tunnels were reported deleted. A tunnel may appear on a free
name, under an identity that was never deleted; be lengthened; lapse (expiry,
eviction, rollback, a delete whose reply was lost); or be revoked.
`Registry == INSTANCE TunnelLifecycle WITH reg <- ...` in `TunnelService` reads
the registry off the Redis keyspace, and the run `api` shows
`Registry!Spec`. With two requests at a time the refinement does not hold: a
create overwrites a tunnel another create stored under the same key after
looking it up, and an extension brings a deleted tunnel back or undoes another
extension. The second has a run of its own below.

### History variables

They exist only to state properties; no guard reads them, but for bounds:
`nextId` and the field `id` (two tunnels that use a key one after the other are
different tunnels), `revoked` (removed by a DEL whose reply arrived; a tunnel whose DEL
was executed, lost its reply and was sent again is not in it, although the client gets a
200), `raced` (those during which another request held the record), `conn[c].dead` (tunnels cleanly
revoked when the connection was accepted), `crashes`, and in the limiters
`passed`, `arrived`, `evicted`, `calls`, `cuts`, `last`, `verdict`, `refused` and the field
`id`; in `Listing` `through`, `missed` and `revived`, in `Api` `wrote` and `resent`, in `Gateway` `meant`,
`permitted` and `visit`.

## Abstractions, and what they leave out

* A subdomain or a TCP port is a model value in `TunnelService`; hosts and URLs are left
  out. There the address check and the upstream of a connection are one choice between
  `Dial` and `Refuse`; `Gateway` has them.
* A request that is refused before its first change of state has no action in
  `TunnelService`; `Api` has one for each kind of refusal.
* The random choice of a key is a nondeterministic one. The code draws ten times
  and may draw a taken key each time; `PickTaken` counts the draws.
* In `TunnelService` a scan is one step, exact while Redis holds at most the 100 keys one
  SCAN call looks at. `Listing` has the loop; there the clock stands still and a
  deletion or an expiry is an eviction, as a scan sees only that the key goes.
* A pipeline or command that failed may in reality be executed by Redis after the
  client gave up; the model has it executed before, or never.
* Differences of times saturate in Go beyond 292 years (`Time.Sub`); the model wraps there
  as well. Only instants centuries apart, which themselves come from an overflow, differ.
* `MIN_TUNNEL_DURATION` is at least -1 (`LimitAssumption`); run `api` has 0. `LoadConfig`
  does not enforce it, see [further observations](#further-observations).
* A tick is at least a millisecond: go-redis sends a TTL with a finer fraction as
  milliseconds, truncated.
* An address is a value with several spellings; `net.ParseIP` followed by `String` maps
  each to the canonical one, and nginx's `$remote_addr` is taken to be spelled so too.
* `Agent` has no orderly stop: for listeners, connections and Redis it is a crash after
  the requests have ended. `Gateway` has it. A Redis restart, which loses every key, is
  a run of `Evict` steps, and `EvictCounter` in `RateLimit`.
* `ProxyRateLimit` drops a counter only when its time has run out. nginx also evicts the
  least recently used entries of a full dictionary on `set` (`nginx.conf:53`, 10 MB);
  `ProxyBound` says nothing of a client whose counter went that way.

## Fairness

`TunnelService!FairSpec` has weak fairness on `Progress(p)`, the next step of an
admitted request: the Go scheduler runs every goroutine, and every Redis call
returns within its context's or socket's timeout. `AgentFairSpec` adds the same
for connections (`net.DialTimeout` bounds the dial), for the restoring goroutine
(ten-second context), and for `Restart` (`Restart=always` in the systemd unit).
Nothing is assumed of clients, of the clock, of evictions, of open connections
or of errors: none of them must happen. All fairness is weak; no property needs
strong fairness, as no step is enabled and disabled again by others for ever.
Only `agent`, `restart` and `unserved` use it.

## Runs

| Run | Question | Properties |
|---|---|---|
| `tunnels` | two racing requests of any kind: is what is stored sound? | `TypeOK`, `LifetimeCap`, `TTLCoversRecord`, `CleanRevocationIsFinal`, `InFlightOK` |
| `api` | one request at a time: what may a client conclude from a status, and does the service implement the registry? | `NoEffectBehindRefusal`, `ConfirmedStands`, `StatusDocumented`, `RegistrySpec`, `TTLCoversRecord` without a cap |
| `scan` | what do scans of several calls make of listings and counts? | `ListComplete`, `ScanCountBound` |
| `agent` | who is served after a deletion, what becomes of an orphan listener, does every request end? | `AgentTypeOK`, `NoServiceAfterRevocation`, `OrphanListenerReaped`, `RequestsFinish` |
| `restart` | is every TCP tunnel served again after crashes? | `EveryTunnelServed` |
| `gateway` | who is let through, and to which port, over restarts under other settings? | `VisitedAsMeant`, `DialedAsPermitted` |
| `ratelimit` | what passes the API limiter? | `RateTypeOK`, `AtMostRPM`, `SilenceForgives` |
| `proxylimit` | what passes the proxy limiter? | `ProxyTypeOK`, `ProxyBound`, `RefusedOnlyAtLimit` |
| `revoked_returns`, `overflow`, `unserved`, `steady_client` | does the code do what a document says? | violated, see below |

What the properties say:

* `LifetimeCap`: the cap test of an extension reads a record that may be stale;
  still no sequence of racing extensions stores a tunnel longer than the cap,
  because the last SET wins as a whole.
* `TTLCoversRecord`: Redis's deadline is never before the `expires_at` the client
  was told, although the TTL is computed at one instant and starts at a later one,
  and although the record is truncated to seconds. A limited tunnel never gets a
  TTL of zero, which would make it permanent: run `api` has a duration of 0 among those
  asked for and a minimum of 0, so that only the handlers stand in its way.
* `TunnelCountBound`: of each kind at most MaxTunnels + (requests - 1) tunnels are
  stored. `SlotBound` is the inductive form: stored keys, keys about to be stored
  and admitted searches are counted together. Both are proved and in no run.
* `ScanCountBound` is what TLC checks of this bound, with two requests whose counts take
  several SCAN calls. There an extension can store a tunnel that was dropped meanwhile behind a scan that has
  passed its key, so each revived tunnel raises the bound: without that term TLC finds
  three tunnels with a limit of one.
* `ListComplete`: a listing shows every tunnel stored from its first SCAN to its last GET,
  but for those whose own GET failed.
* `NoEffectBehindRefusal`: an answer of 4xx or 503 means that no record and no listener was
  changed, except when the reply to its own SET or DEL was lost and the command was sent
  again: Redis may have executed it the first time and refused it the second, in words the
  handler searches for.
* `ConfirmedStands`: after 200 or 201 the stored record is the one the client was shown, a TCP
  tunnel has its listener, a deleted one is gone; also after the 404 of a delete.
* `StatusDocumented`: on every path an error gets the status `API_REFERENCE.md` gives for it
  if, and only if, the handler and the error are not among the three pairs of `Undocumented`:
  a full port range (503 where 400 and 500 are documented), and two texts of Redis's own
  that make a 400 of a failure. So it also shows that these three do differ.
* `VisitedAsMeant`, `DialedAsPermitted`: what the loops over entries, items and ports make
  of a text is what the text says, for tunnels older than the process too.
* `CleanRevocationIsFinal`: a tunnel removed by a DEL whose reply arrived, while nobody
  else held its record, is never stored again. A request that holds the record at that moment
  exempts the deletion, and may bring the tunnel back: run `revoked_returns`.
* `NoServiceAfterRevocation`: and so no connection accepted after that reaches its
  upstream, across crashes and restored listeners.
* `OrphanListenerReaped`: a connection to a port without a record closes the
  listener. Nothing closes it before one comes: the property needs the connection.
* `EveryTunnelServed`: a stored TCP tunnel leads to an accepting listener.
* `AtMostRPM`: a minute holds at most RATE_LIMIT_RPM judged requests, as many again for
  each time Redis lost the counter within it, and one more for each request that stood
  between INCR and EXPIRE when the counter ran out.
* `SilenceForgives`: after a silent minute nothing of the counter is left but INCRs
  whose EXPIRE never arrived.
* `ProxyBound`, `RefusedOnlyAtLimit`: with W workers at most (W+1)(L+W-1) requests
  pass in a window, and nobody is refused before L-(W-1) did. With one worker these
  are 2L, the edge of a fixed window, and L.

### Bounds

All bounds are constants, commented `bound:` where they are declared.

* Requests: two at a time (`Proc`). Races in this code are between one request that
  holds stale data and one that changes what it read; a third request repeats one of
  these. The proofs remove this bound for the safety properties of `tunnels`, `scan`,
  `agent`, `gateway` and the limiters, for the count of tunnels and for what a refusal or a
  status means. That what a client was told stands, and the refinement, need one request at a
  time, and are proved for one.
* `tunnels`: two keys of each kind, a limit of 1 (so that the overshoot is reached),
  two tunnels ever created (so that a key is used twice), a second and a minute of 2
  ticks and 4 instants (so that truncation, expiry and a late SET all occur),
  durations below, at and above the cap, one resend.
* `api`: one request, no cap, unlimited tunnels, a minimum of 0 and a request for 0, two subdomains and a port, a
  limit of 2, so that every error of the service occurs.
* `scan`: two requests, three subdomains and a port, a limit of 1, three tunnels; a scan takes
  any number of calls.
* `gateway`: ports 2 to 4 for 1024 to 65535, sixteen settings (each check of `LoadConfig`
  passed and failed at its edge), every list over five entries, two addresses, one tunnel
  at a time: no step reads two records.
* `agent`: one port used by two tunnels one after the other, one connection, one crash,
  every failure, and the clock stopped: an eviction stands for an expiry, both remove a
  key at any time. No command is resent here, so `RequestsFinish` is about the searches.
* `restart`: three ports and a limit of two, one request at a time, two crashes, one tick
  (so that a tunnel expires while it is restored), no failing command, and no extensions, which
  leaves connections, extensions and faults to the other runs. An extension that is under way while the restoring goroutine scans can
  bring back a tunnel that had expired, and nothing opens a listener for it; see
  the hazard at `tunnel.go:570`. Deletions racing creates break the property too: run
  `unserved` shows the same with a connection in place of the delete.
* `ratelimit`: a limit of two in a minute of two ticks, two requests at a time, six INCRs,
  one broken pipeline and one loss of the counter: over two windows, the limit is passed
  under a counter, and reached again under the one that replaces it.
* `proxylimit`: limit 2, window of one tick, 5 instants, 12 requests.

Symmetry (interchangeable requests, keys, workers) is used in no run with a liveness
property. Run `api` has it together with `RegistrySpec`, which is a safety property, and
symmetric in the subdomains. Deadlock detection is off because the bounds, and in the
liveness runs the absence of clients, let a behaviour stop.

Every property of a passing run has a mutant in `PROJECT.json`: a definition
changed as a plausible mistake would change it (`PickUnchecked`, `RequestedAny`,
`RearmNever`, ...), with which TLC finds the property violated. The mutants stand
before the definitions they change.

## Where code and documents disagree

| Run | What TLC finds |
|---|---|
| `revoked_returns` | An extension reads the record, a delete succeeds, the extension writes the record back: the deleted tunnel lives on. `API_REFERENCE.md` says DELETE revokes a tunnel before its natural expiration. |
| `overflow` | An extension by about 2^63 nanoseconds or more wraps around: the new end is before the old one, passes the test against the cap, and the negative TTL makes Redis keep the tunnel for ever. `API_REFERENCE.md` says the total lifetime must not exceed MAX_TUNNEL_DURATION. |
| `unserved` | A connection finds no record; the port is given to a new tunnel; the connection then stops the listener of the new tunnel. The record stays, its port is dead. |
| `steady_client` | Every request sets the counter's TTL again, so it never runs out for a client that never pauses: a client below RATE_LIMIT_RPM is rejected. |

## Further observations

Seen while modelling; they have no run of their own. Those marked * TLC confirms
when the statement is checked as an invariant of one of the modules.

* Of two confirmed extensions of one tunnel the second SET overwrites the first, and the
  tunnel is shorter than a client was told. The cause is that of `revoked_returns`.
* *`CreateTunnel` counts HTTP tunnels only (`tunnel.go:102`), so both kinds together exceed
  MAX_TUNNELS, without any concurrency; `CreateTCPTunnel` counts both.
* *After a restart with a shorter TCP_ALLOWED_PORTS the older TCP tunnels are still restored
  and dialled; `handleConnection` does not look at the list.
* `handlers.go:30` says that the allowed addresses of a TCP tunnel default to the caller;
  the code and `API_REFERENCE.md` say any.
* With `*` in TCP_ALLOWED_PORTS an `upstream_port` outside 1 to 65535 is accepted and
  fails only when a client connects.
* MIN_TUNNEL_DURATION of -2 or less admits negative durations, stored without a TTL; and
  junk in any integer setting silently becomes the default.
* *Redis's own texts steer statuses: "OOM command not allowed" makes a TCP create a 400,
  "WRONGPASS invalid ..." an extension.
* *The 503 for a full port range is not documented. With the two texts above, these are the
  three pairs of `Undocumented`; `StatusDocumented` shows that no other pair differs.
* The rate limit headers are documented for every response, but 401, 403 and the fail-open
  path come without.
* A listing answers 200 although a GET failed; the 500 is for a failing scan only.
* A client that disconnects cancels the request's context, and with it the DEL that rolls a
  failed TCP create back.
* In the health check `warning` overrides `degraded`, also next to a 503.
* A link-local IPv6 client reaches the TCP proxy with its zone ("fe80::1%eth0"), which no
  entry of a list can spell; nginx leaves the zone out.

## Proofs

The theorems hold for every number of requests, keys, connections, workers, limits, clock
resolutions and inputs that the named assumptions on the constants allow:
`ProcAssumption`, `KeyAssumption` (finite, disjoint sets of keys), `LimitAssumption`,
`TimeAssumption` (a minute is a whole number of seconds), `InputAssumption`,
`BoundAssumption` for the service and what extends it, with `AgentAssumption` for the
agent; `GatewayAssumption`; `RateAssumption`; `ProxyAssumption` (there is a worker). The
bounds on exploration are arbitrary naturals there.

| Theorem | States |
|---|---|
| `TypeInvariant` | `Spec => []TypeOK` |
| `LifetimeNeverExceedsCap` | `Spec => [](InputsFit => LifetimeCap)` |
| `RedisKeepsPromise` | `Spec => [](InputsFit => TTLCoversRecord)` |
| `InFlightSound` | `Spec => [](InputsFit => InFlightOK)` |
| `CleanRevocation` | `Spec => []CleanRevocationIsFinal` |
| `SlotInvariant` | `Spec => []SlotBound` |
| `TunnelCountBounded` | `Spec => []TunnelCountBound` |
| `ListingsComplete` | `ListingSpec => []ListComplete` |
| `ScanCountBounded` | `ListingSpec => []ScanCountBound` |
| `AgentTypeInvariant` | `AgentSpec => []AgentTypeOK` |
| `RevokedNotServed` | `AgentSpec => []NoServiceAfterRevocation` |
| `RestartsKeepTunnelCount` | `AgentSpec => [](SlotBound /\ TunnelCountBound)` |
| `RestartsKeepPromises` | `AgentSpec => []`(`CleanRevocationIsFinal`, and with `InputsFit` the cap and the TTLs) |
| `RefusalsHaveNoEffect` | `ApiSpec => []NoEffectBehindRefusal` |
| `StatusesDocumented` | `ApiSpec => []StatusDocumented` |
| `ApiImplementsService` | `ApiSpec => Spec` |
| `WhatWasToldStands` | with `OneAtATime`: `ApiSpec => []ConfirmedStands` |
| `AloneIsRegistry` | with `OneAtATime`, `InputsFit`: `Spec => RegistrySpec`, the refinement of `TunnelLifecycle` |
| `ClientsAsMeant` | `GatewaySpec => []VisitedAsMeant` |
| `UpstreamAsPermitted` | `GatewaySpec => []DialedAsPermitted` |
| `RateTypeInvariant` | `RateSpec => []RateTypeOK` |
| `RateAtMostRPM` | `RateSpec => []AtMostRPM` |
| `RateSilenceForgives` | `RateSpec => []SilenceForgives` |
| `ProxyTypeInvariant` | `ProxySpec => []ProxyTypeOK` |
| `ProxyNeverAboveBound` | `ProxySpec => []ProxyBound` |
| `ProxyRefusesOnlyAtLimit` | `ProxySpec => []RefusedOnlyAtLimit` |

`InputsFit` is needed: without it the run `overflow` refutes the first two. It says of
constants alone that no duration asked for or configured reaches 2^63 nanoseconds.
`SpanExact` and `MinutesExact` use it once, to show that the arithmetic of the width is the
unbounded one. `OneAtATime` (`Proc` has one element) is needed as well: with two requests
TLC refutes both theorems that assume it, see `TunnelLifecycle` above and the first
further observation. It is a hypothesis about clients, not about the code; failing
commands, resent commands, expiries and evictions may still come at any point.

*`TunnelServiceProofs`.* `LifetimeCap` and `TTLCoversRecord` speak of what is stored,
and are not inductive: a SET stores what a request held. `Ind` has three parts.
`StoredOK` says of the keyspace what the two properties say; `OpsOK` says of each
request, at each point of its code, what it holds: a record it may still write is
within the cap, and its TTL, counted from now or any later instant, covers the
record's expiry; `FrameOK` types the rest. `NewRecordOK` and `ExtendedOK` are the
arithmetic: truncation to seconds commutes with adding whole minutes, so the duration
in an extended record is the sum exactly, and truncating an expiry never moves it past
the TTL's end. Then one lemma for each action (`...Ind`), joined by `IndNext`.
`InFlightOK` is the part of this invariant about requests that TLC explores; with
`RevInd` below, which keeps names fresh, it is the theorem `InFlightSound`.

*`TunnelServiceProofs`, revocation.* A name is `Located` at a key if it is stored there or a
request holds it for that key. `RevInd` says that a located name was given out, is
located at one key only, and is raced if it is revoked. Only `StampNew` locates a name
where it was not, and that name is fresh; a DEL that finds no holder therefore leaves
the name nowhere. That a name has one key is needed: else deleting under one key could
leave it under another.

*`TunnelCountProofs`.* `TunnelCountBound` is not inductive, because requests that passed
the count will store later. `Slots(S)` therefore counts keys stored or about to be
stored, once each, and admitted searches. `FewerSlots`: a request just counting has no
slot, so there are at most (stored keys) + (requests - 1) of them; and it is admitted
only below MaxTunnels (`RoomLeft`). Finding a key exchanges a search for a key
(`PickFreeSlots`), storing exchanges a key for itself (`StoreSlots`), and no other step adds a
slot: an extension begins with a key that is stored, and so counted already.

*`ListingProofs`, listings.* What a listing must show is a name, and what a scan visits is a
key, so the argument needs `NamesApart`: a name is located at one key only. Then a tunnel
stored since the scan began is either among those tried (fetched or missed) or stored at a key the scan has
yet to visit or the listing has yet to GET (`ListedOK`). A call of SCAN or a GET moves it
from one side to the other; a tunnel that is dropped, or dropped and stored again, is no
longer one that was there throughout; and a create may store only a fresh name.

*`ListingProofs`, counts.* The slots of `TunnelCountProofs` do not work here: a count under
way has seen some keys that are gone by now and will not see some that have come. What a
count will find at least is its `Outlook`: what it has found and what is stored ahead of
its cursor. `LoadOK` bounds, for every `c` from MaxTunnels - 1 upwards, the keys stored and
the creates that are admitted or whose outlook is at most `c`, by `c` + requests +
revived. It has to be said for every `c`: an eviction removes one stored key and lowers each
outlook by at most one, so that the bound for `c` afterwards is the one for `c` + 1 before.
A store takes the place of the create that does it. A scan begins with the keys it counts as
its outlook, so if it joins the creates counted, at most `c` keys are stored, and every other
request counts once at most. Only an extension can add a key from nowhere, and that is what
`revived` counts.

*`GatewayProofs`.* Two lemmas about data carry it: `NormalizedAsMeant` (the stored form of a
list admits whom the list is for, and is never empty) and `PortsAsPermitted` (the integers
`LoadConfig` makes of the list of ports permit no more than its text; here that an item
never contains 0, the wildcard, matters). `GatewayInv` says them of every stored record,
and that the last client got the verdict of its record. That no stored list is empty is
what makes the Lua check, which lets everyone through without a list, agree with the Go
one, which lets no one through. It assumes `GatewayAssumption`: the default upstream port is
positive, ports are no subdomains, the numbers in settings are integers.

*`AgentProofs`.* The steps of `Agent` that are not the service's own either leave all
records and requests alone (`RelistenKeeps`) or drop all requests at once (`WipeKeeps`),
and every part of the service's invariant survives both: a slot that is dropped makes the
sum smaller, a name that is dropped is located at fewer places. For
`NoServiceAfterRevocation` this is not enough, because `dead` was computed when the
connection was accepted: `ConnOK` says that it is still within the cleanly revoked names.
That needs `RevInd` again. A clean revocation cannot become a raced one later, since that
would take a request that holds the name, and the name is located nowhere. The id a
connection is about to dial was read from a record, so it is located, so not dead.

*`ApiProofs`, any number of requests.* `AnswerInd` adds to `Ind` what each request has
changed so far (`TraceOK`): before a write nothing, and at a write only if the command was
executed and its reply lost before, which is when `resent` was set. So a refusal follows a
change only where a command was resent, and that is all the property excepts. `StatusesRight`
is the table of statuses: for each act and each error it can meet, the first rule that hits,
worked out by cases over the words of `Says`, next to what `DocumentedTable` and
`UndocumentedPairs` say of the same act and error. `ApiImplementsService` carries the theorems about `Spec` over to what
clients of the API see.

*`ApiProofs`, one request at a time.* `AloneInd` says that a lone request finds under its
key what it read there, or nothing (`AloneOK`), or, if it may be sending its SET again, its
own record; and that no deletion races. So a write is a new name on a free key, a tunnel
coming back, the same record again, or a longer one (`StoredAlone`), and every step is
one of three things (`AloneEffect`): records go (`LapseStep`), a deletion succeeds
(`RevokeStep`), a write (`WriteStep`). These are the steps of the registry. `StandInd` adds that
an answer already given still stands: whatever follows it before the next request
only loses records.

*`RateLimitProofs`.* The charge of a window is what passed in it and the requests that
were counted in it and are still to pass. `ChargeOK` bounds the charge of the window that
ends now by the number of requests and the counter, capped at RATE_LIMIT_RPM, and that of
every earlier window; each loss of the counter in the window adds RATE_LIMIT_RPM (`Extra`),
as the counter may have been at the limit when it went (`EvictCounterInd`). Why a counter that starts anew does not let a whole minute pass
twice is `DeadlineOK`: each EXPIRE sets the deadline a full window ahead, so when the
counter goes, whatever passed under it was counted before the window that ends now; only
requests whose EXPIRE is yet to come are left, one for each goroutine. `NamesOK` keeps the
names of requests, tick and number, apart.

*`ProxyRateLimitProofs`.* A stretch is the time from one SetCount to the next or to the
end of the counter. `StretchOK` bounds what a stretch passes, with what it may still pass,
by L+W-1: L that raise the counter, and a stale count in each other worker. `WindowOK`
counts stretches: a worker sets the counter only if it read none, so in a window each does
so at most once, with `Setting` those that still will; with the tail of the stretch
before, that is W+1. `ChargeOK` goes the other way for refusals: the counter exceeds what
passed by at most the refusals that other workers decided on an older count.

Model-checked only: liveness (`RequestsFinish`, `OrphanListenerReaped`,
`EveryTunnelServed`; ENABLED and fairness are beyond the prover). Every other property of a
passing run is a theorem. The four runs that find a violation are counterexamples and need no proof.

## Not modelled

* The health check (`handlers.go` 89-141): it asks systemctl, Redis and a TLS server, and
  keeps no state. Log lines, security headers and JSON are output.
* `GetTunnel`, `TTL`, `Expire` and `Persist` of the client: nothing calls them.
* The words, the format and the distribution of generated subdomains, and the part of
  UPSTREAM_URL that becomes the TCP upstream host.
* nginx settings, install and deploy scripts: no state of the agent.
* Commands executed after the client gave up: see the abstractions above.

## Plan

Done, in this order: `Redis`, `TunnelService` with its runs, `TunnelLifecycle` and the
refinement, `Agent` (composes `TunnelService` with connections and the process),
`RateLimit`, `ProxyRateLimit`, the proof modules of `TunnelService`; then the width of
durations, `Listing`, `Api`, `Gateway` with its proofs; then the proofs about `Agent`, `Api`,
the refinement, the two limiters and `Listing`.

Next:

1. `Listing` with a clock, and with the scan at start in place of the one-step `BootScan`.
2. Crashes in `Api`: what a client may conclude from no answer at all.

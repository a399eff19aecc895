------------------------------ MODULE Gateway ------------------------------
(***************************************************************************)
(* Whom a tunnel lets through, and where to: the settings a process reads  *)
(* at its start (src/api/config.go), the list of addresses and the         *)
(* upstream port of a create (src/api/tunnel.go), and the two places that  *)
(* read the record later, each with code of its own: handleConnection      *)
(* (src/api/tcp_proxy.go) and the proxy (src/proxy/lua/tunnel_lookup.lua). *)
(*                                                                         *)
(* Records outlive the process and the settings they were made under, and  *)
(* the proxy reads them while the API is down.  Requests are atomic here;  *)
(* TunnelService and Agent have their steps.                               *)
(***************************************************************************)
EXTENDS Integers, FiniteSets

CONSTANTS
  Addr,          \* client addresses
  Names,         \* subdomains of HTTP tunnels
  Lists,         \* allowed_ips clients ask for, as sets of entries
  UpstreamPorts, \* upstream ports clients ask for
  Settings,      \* contents the .env file can have
  LowPort,       \* 1024, where TCP_PORT_MIN may begin
  TopPort,       \* 65535
  RangeMin,      \* 50000, TCP_PORT_MIN if unset
  RangeMax,      \* 60000, TCP_PORT_MAX if unset
  DefaultPort,   \* 22, the upstream port allowed if none is listed
  MaxOpen        \* bound: tunnels at a time

ASSUME GatewayAssumption ==
  /\ DefaultPort \in Nat \ {0} /\ LowPort \in Nat /\ TopPort \in Nat
  /\ RangeMin \in Nat /\ RangeMax \in Nat
  /\ Names \cap (LowPort .. TopPort) = {}
  /\ \A s \in Settings :
       /\ s.min \subseteq Int /\ s.max \subseteq Int
       /\ \A item \in s.ports : item.kind = "ports" => item.lo \in Int /\ item.hi \in Int

VARIABLES
  phase,      \* "down", "up", or "draining" after SIGTERM
  settings,   \* the settings the process read at its start
  db,         \* the stored tunnels
  listeners,  \* ports with a listener
  todo,       \* ports StartAllActiveTunnels has still to restore
  visit       \* the last client of a tunnel and what became of it

gatewayVars == <<phase, settings, db, listeners, todo, visit>>

-----------------------------------------------------------------------------
(* Lists of addresses.  An address can be spelled in several ways.         *)

Any == [kind |-> "any"]   \* "any" or "*"
Ip(a, form) == [kind |-> "ip", addr |-> a, form |-> form]
Canonical(a) == Ip(a, "canonical")

ValidateAllowedIPs(ips) == \A e \in ips : e.kind \in {"any", "ip"}

\* Mutant of NormalizeAllowedIPs: addresses stay as they were spelled.
NormalizeVerbatim(ips) == IF ips = {} \/ Any \in ips THEN {Any} ELSE ips

NormalizeAllowedIPs(ips) ==
  IF ips = {} \/ Any \in ips THEN {Any} ELSE {Canonical(e.addr) : e \in ips}

\* extractRawIP spells the client's address as net.IP.String does.
isClientIPAllowed(allowed, a) == Any \in allowed \/ Canonical(a) \in allowed

\* The proxy compares with nginx's spelling, which is the same; and an empty
\* Go slice is stored as null, which is no table for Lua and so no restriction.
LookupAllows(allowed, a) == allowed # {} => isClientIPAllowed(allowed, a)

-----------------------------------------------------------------------------
(* Settings.  An integer is given as the set of the numbers its text       *)
(* spells: none if it is unset or no number.                               *)

envOrDefaultInt(v, fallback) == IF v = {} THEN fallback ELSE CHOOSE n \in v : TRUE

Wildcard == 0

\* Mutant of PortsOf: the range includes the port behind its end.
PortsBeyond(item) ==
  CASE item.kind = "any" -> {Wildcard}
    [] item.kind = "ports" -> item.lo .. (item.hi + 1)
    [] OTHER -> {}

\* An item of TCP_ALLOWED_PORTS is blank, a wildcard, or a port or range.
PortsOf(item) ==
  CASE item.kind = "any" -> {Wildcard}
    [] item.kind = "ports" -> item.lo .. item.hi
    [] OTHER -> {}

AllowedPorts(s) ==
  LET named == UNION {PortsOf(item) : item \in s.ports}
  IN  IF named = {} THEN {DefaultPort} ELSE named

PortMin(s) == envOrDefaultInt(s.min, RangeMin)
PortMax(s) == envOrDefaultInt(s.max, RangeMax)

ItemOK(item) ==
  /\ item.kind \in {"blank", "any", "ports"}
  /\ item.kind = "ports" => 1 <= item.lo /\ item.lo <= item.hi /\ item.hi <= TopPort

\* LoadConfig returns no error: main goes on, and does not exit.
Loads(s) ==
  /\ \A item \in s.ports : ItemOK(item)
  /\ LowPort <= PortMin(s) /\ PortMin(s) < PortMax(s) /\ PortMax(s) <= TopPort
  /\ s.keys # {}
  /\ {"BASE_DOMAIN", "UPSTREAM_URL"} \subseteq s.given

isPortAllowed(s, port) == Wildcard \in AllowedPorts(s) \/ port \in AllowedPorts(s)

-----------------------------------------------------------------------------
(* What those texts mean to the people who write them; history only.       *)

\* The clients a list is for.
Meant(ips) ==
  IF ips = {} \/ Any \in ips THEN Addr
  ELSE {a \in Addr : \E e \in ips : e.addr = a}

\* The upstream ports the settings permit.
Permitted(s) ==
  {p \in UpstreamPorts :
     \/ \E item \in s.ports :
          item.kind = "any" \/ (item.kind = "ports" /\ p \in item.lo .. item.hi)
     \/ p = DefaultPort /\ \A item \in s.ports : item.kind = "blank"}

NoSettings == [ports |-> {}, min |-> {}, max |-> {}, keys |-> {}, given |-> {}]
NoVisit == [key |-> "none", client |-> "none", verdict |-> "none"]

GatewayInit ==
  /\ phase = "down" /\ settings = NoSettings
  /\ db = [k \in {} |-> 0]
  /\ listeners = {} /\ todo = {}
  /\ visit = NoVisit

-----------------------------------------------------------------------------
(* The process.                                                            *)

Tcp == DOMAIN db \ Names

\* main: with settings that load, and Redis there, it serves and restores.
Start(s) ==
  /\ phase = "down"
  /\ Loads(s)
  /\ phase' = "up" /\ settings' = s
  /\ todo' = Tcp
  /\ visit' = NoVisit
  /\ UNCHANGED <<db, listeners>>

Restore(t) ==
  /\ t \in todo
  /\ todo' = todo \ {t}
  /\ listeners' = IF t \in DOMAIN db THEN listeners \cup {t} ELSE listeners
  /\ visit' = NoVisit
  /\ UNCHANGED <<phase, settings, db>>

\* SIGTERM: no new requests, but TCP connections are accepted to the end.
Terminate ==
  /\ phase = "up"
  /\ phase' = "draining"
  /\ visit' = NoVisit
  /\ UNCHANGED <<settings, db, listeners, todo>>

\* Drained, or fifteen seconds later, or a crash.
Exit ==
  /\ phase # "down"
  /\ phase' = "down" /\ settings' = NoSettings
  /\ listeners' = {} /\ todo' = {}
  /\ visit' = NoVisit
  /\ UNCHANGED db

-----------------------------------------------------------------------------
(* Tunnels.                                                                *)

Room == Cardinality(DOMAIN db) < MaxOpen

NewTunnel(ips, up) ==
  [allowed |-> NormalizeAllowedIPs(ips), up |-> up,
   meant |-> Meant(ips), permitted |-> Permitted(settings)]

Add(k, r) == db' = [x \in DOMAIN db \cup {k} |-> IF x = k THEN r ELSE db[x]]

\* The upstream of an HTTP tunnel is the one of the proxy's configuration.
CreateHTTP(n, ips) ==
  /\ phase = "up" /\ Room /\ n \notin DOMAIN db
  /\ ValidateAllowedIPs(ips)
  /\ Add(n, NewTunnel(ips, DefaultPort))
  /\ visit' = NoVisit
  /\ UNCHANGED <<phase, settings, listeners, todo>>

CreateTCP(t, up, ips) ==
  /\ phase = "up" /\ Room
  /\ isPortAllowed(settings, up)
  /\ ValidateAllowedIPs(ips)
  /\ t \in PortMin(settings) .. PortMax(settings) /\ t \notin DOMAIN db
  /\ Add(t, NewTunnel(ips, up))
  /\ listeners' = listeners \cup {t}
  /\ visit' = NoVisit
  /\ UNCHANGED <<phase, settings, todo>>

\* A tunnel expires or is evicted; a listener stays.
Lose(k) ==
  /\ k \in DOMAIN db
  /\ db' = [x \in DOMAIN db \ {k} |-> db[x]]
  /\ visit' = NoVisit
  /\ UNCHANGED <<phase, settings, listeners, todo>>

Revoke(k) ==
  /\ phase = "up" /\ k \in DOMAIN db
  /\ db' = [x \in DOMAIN db \ {k} |-> db[x]]
  /\ listeners' = listeners \ {k}
  /\ visit' = NoVisit
  /\ UNCHANGED <<phase, settings, todo>>

-----------------------------------------------------------------------------
(* Clients.                                                                *)

Visit(k, a, verdict) == visit' = [key |-> k, client |-> a, verdict |-> verdict]

\* handleConnection: without a record the listener is stopped.
Connect(t, a) ==
  /\ t \in listeners
  /\ IF t \notin DOMAIN db
     THEN listeners' = listeners \ {t} /\ Visit(t, a, "gone")
     ELSE /\ Visit(t, a, IF isClientIPAllowed(db[t].allowed, a) THEN "passed" ELSE "denied")
          /\ UNCHANGED listeners
  /\ UNCHANGED <<phase, settings, db, todo>>

\* tunnel_lookup.lua: 404, 403 or on to proxy_pass; whether the API runs or not.
Lookup(n, a) ==
  /\ Visit(n, a, IF n \notin DOMAIN db THEN "gone"
                 ELSE IF LookupAllows(db[n].allowed, a) THEN "passed" ELSE "denied")
  /\ UNCHANGED <<phase, settings, db, listeners, todo>>

\* 502: Redis does not answer the proxy.
LookupFails(n, a) ==
  /\ Visit(n, a, "failed")
  /\ UNCHANGED <<phase, settings, db, listeners, todo>>

ClientStep ==
  \E a \in Addr :
    \/ \E t \in listeners : Connect(t, a)
    \/ \E n \in Names : Lookup(n, a) \/ LookupFails(n, a)

GatewayNext ==
  \/ \E s \in Settings : Start(s)
  \/ \E t \in todo : Restore(t)
  \/ Terminate \/ Exit
  \/ \E ips \in Lists :
       \/ \E n \in Names : CreateHTTP(n, ips)
       \/ \E t \in LowPort .. TopPort, up \in UpstreamPorts : CreateTCP(t, up, ips)
  \/ \E k \in DOMAIN db : Lose(k) \/ Revoke(k)
  \/ ClientStep

GatewaySpec == GatewayInit /\ [][GatewayNext]_gatewayVars

-----------------------------------------------------------------------------
(* Properties.                                                             *)

\* Both paths let exactly those clients through that the list was meant for,
\* however its entries were spelled, and whatever restarts came in between.
\* (The TCP proxy and the Lua lookup decide by comparing texts.)
VisitedAsMeant ==
  visit.verdict \in {"passed", "denied"} =>
    visit.verdict = IF visit.client \in db[visit.key].meant THEN "passed" ELSE "denied"

\* A TCP client is connected to no upstream port but one that the settings
\* permitted, as their text is meant, when its tunnel was created; and never
\* through a listener no process of this agent opened in its port range.
DialedAsPermitted ==
  visit.verdict = "passed" /\ visit.key \notin Names =>
    /\ db[visit.key].up \in db[visit.key].permitted
    /\ visit.key \in LowPort .. TopPort
=============================================================================

--------------------------- MODULE GatewayProofs ---------------------------
(***************************************************************************)
(* For any addresses, lists and settings: the clients a tunnel lets        *)
(* through and the port it dials are those its makers meant.  The          *)
(* argument: what a list means and what its stored form admits agree, and  *)
(* so do the text of the settings and the ports LoadConfig makes of it;    *)
(* records are never changed, so both outlive the process.                 *)
(***************************************************************************)
EXTENDS Gateway, TLAPS

\* The stored form of a list admits the clients the list is for.
LEMMA NormalizedAsMeant ==
  ASSUME NEW ips
  PROVE  /\ \A a \in Addr :
              isClientIPAllowed(NormalizeAllowedIPs(ips), a) <=> a \in Meant(ips)
         /\ NormalizeAllowedIPs(ips) # {}
<1>1. CASE ips = {} \/ Any \in ips
  BY <1>1 DEF NormalizeAllowedIPs, isClientIPAllowed, Meant
<1>2. CASE ~(ips = {} \/ Any \in ips)
  <2>1. NormalizeAllowedIPs(ips) = {Canonical(e.addr) : e \in ips}
    BY <1>2 DEF NormalizeAllowedIPs
  <2>2. \A b : Canonical(b) # Any
    <3>1. \A b : Canonical(b).kind = "ip"
      BY DEF Canonical, Ip
    <3>2. Any.kind = "any"
      BY DEF Any
    <3> QED BY <3>1, <3>2
  <2>3. \A b, c : Canonical(b) = Canonical(c) => b = c
    <3>1. \A b : Canonical(b).addr = b
      BY DEF Canonical, Ip
    <3> QED BY <3>1
  <2>4. \A a : isClientIPAllowed(NormalizeAllowedIPs(ips), a)
                <=> \E e \in ips : e.addr = a
    BY <2>1, <2>2, <2>3 DEF isClientIPAllowed
  <2> QED
    BY <1>2, <2>1, <2>4 DEF Meant
<1> QED
  BY <1>1, <1>2

\* An integer setting is an integer.
LEMMA EnvInt ==
  ASSUME NEW v \in SUBSET Int, NEW d \in Nat
  PROVE  envOrDefaultInt(v, d) \in Int
<1>1. CASE v = {}
  BY <1>1 DEF envOrDefaultInt
<1>2. CASE v # {}
  <2>1. (CHOOSE n \in v : TRUE) \in v
    BY <1>2
  <2> QED
    BY <1>2, <2>1 DEF envOrDefaultInt
<1> QED
  BY <1>1, <1>2

\* The listeners' range of settings that load lies within the ports there are.
LEMMA RangeUsable ==
  ASSUME NEW s \in Settings, Loads(s), NEW t \in PortMin(s) .. PortMax(s)
  PROVE  t \in LowPort .. TopPort
<1>1. PortMin(s) \in Int /\ PortMax(s) \in Int
  BY EnvInt, GatewayAssumption DEF PortMin, PortMax
<1>2. LowPort <= PortMin(s) /\ PortMax(s) <= TopPort
  BY DEF Loads
<1> QED
  BY <1>1, <1>2, GatewayAssumption

\* What LoadConfig makes of the list of ports permits no more than its text.
LEMMA PortsAsPermitted ==
  ASSUME NEW s \in Settings, Loads(s), NEW p \in UpstreamPorts, isPortAllowed(s, p)
  PROVE  p \in Permitted(s)
<1> DEFINE named == UNION {PortsOf(item) : item \in s.ports}
<1>1. ASSUME NEW item \in s.ports
      PROVE  /\ item.kind = "any" => PortsOf(item) = {Wildcard}
             /\ item.kind = "ports" => /\ PortsOf(item) = item.lo .. item.hi
                                       /\ PortsOf(item) # {} /\ Wildcard \notin PortsOf(item)
             /\ item.kind \notin {"any", "ports"} => item.kind = "blank" /\ PortsOf(item) = {}
  <2>1. ItemOK(item)
    BY DEF Loads
  <2>2. item.kind = "ports" => item.lo \in Int /\ item.hi \in Int
    BY GatewayAssumption
  <2>3. CASE item.kind = "any"
    BY <2>3 DEF PortsOf
  <2>4. CASE item.kind = "ports"
    <3>1. PortsOf(item) = item.lo .. item.hi
      BY <2>4 DEF PortsOf
    <3>2. 1 <= item.lo /\ item.lo <= item.hi
      BY <2>1, <2>4 DEF ItemOK
    <3>3. item.lo \in item.lo .. item.hi /\ 0 \notin item.lo .. item.hi
      BY <2>2, <2>4, <3>2
    <3> QED
      BY <2>4, <3>1, <3>3 DEF Wildcard
  <2>5. CASE item.kind \notin {"any", "ports"}
    BY <2>1, <2>5 DEF PortsOf, ItemOK
  <2> QED
    BY <2>3, <2>4, <2>5
<1>2. CASE named = {}
  <2>1. p = DefaultPort
    <3>1. AllowedPorts(s) = {DefaultPort}
      BY <1>2 DEF AllowedPorts
    <3> QED
      BY <3>1, GatewayAssumption DEF isPortAllowed, Wildcard
  <2>2. \A item \in s.ports : PortsOf(item) = {}
    BY <1>2
  <2>3. \A item \in s.ports : item.kind = "blank"
    <3> TAKE item \in s.ports
    <3> QED BY <1>1, <2>2
  <2> QED
    BY <2>1, <2>3 DEF Permitted
<1>3. CASE named # {}
  <2>1. AllowedPorts(s) = named
    BY <1>3 DEF AllowedPorts
  <2>2. PICK item \in s.ports : Wildcard \in PortsOf(item) \/ p \in PortsOf(item)
    BY <2>1 DEF isPortAllowed
  <2>3. item.kind = "any" \/ (item.kind = "ports" /\ p \in item.lo .. item.hi)
    BY <1>1, <2>2
  <2> QED
    BY <2>3 DEF Permitted
<1> QED
  BY <1>2, <1>3

-----------------------------------------------------------------------------
(* The inductive invariant.                                                *)

\* The process runs on settings that load.
SettingsOK == phase = "up" => settings \in Settings /\ Loads(settings)

\* A stored tunnel is as meant.
Sound(k) ==
  /\ db[k].allowed # {}
  /\ \A a \in Addr : isClientIPAllowed(db[k].allowed, a) <=> a \in db[k].meant
  /\ k \notin Names => db[k].up \in db[k].permitted /\ k \in LowPort .. TopPort

\* The last client got what the record says, and the record is still there.
VisitOK ==
  visit.verdict \in {"passed", "denied"} =>
    /\ visit.key \in DOMAIN db /\ visit.client \in Addr
    /\ visit.verdict = IF isClientIPAllowed(db[visit.key].allowed, visit.client)
                       THEN "passed" ELSE "denied"

GatewayInv == SettingsOK /\ (\A k \in DOMAIN db : Sound(k)) /\ VisitOK

\* The invariant holds at the start.
LEMMA GatewayInvInit == GatewayInit => GatewayInv
  BY DEF GatewayInit, GatewayInv, SettingsOK, VisitOK, NoVisit

\* A created tunnel leaves the others alone and is sound itself.
LEMMA Created ==
  ASSUME GatewayInv, phase = "up", NEW k, NEW ips, NEW up,
         Add(k, NewTunnel(ips, up)),
         k \notin Names => up \in Permitted(settings) /\ k \in LowPort .. TopPort
  PROVE  \A x \in DOMAIN db' : Sound(x)'
<1> TAKE x \in DOMAIN db'
<1>1. DOMAIN db' = DOMAIN db \cup {k}
  BY DEF Add
<1>2. CASE x = k
  <2>1. db'[x] = NewTunnel(ips, up)
    BY <1>2 DEF Add
  <2>2. /\ db'[x].allowed = NormalizeAllowedIPs(ips) /\ db'[x].meant = Meant(ips)
        /\ db'[x].up = up /\ db'[x].permitted = Permitted(settings)
    BY <2>1 DEF NewTunnel
  <2>3. /\ \A a \in Addr : isClientIPAllowed(db'[x].allowed, a) <=> a \in db'[x].meant
        /\ db'[x].allowed # {}
    BY <2>2, NormalizedAsMeant
  <2> QED
    BY <1>2, <2>2, <2>3 DEF Sound
<1>3. CASE x # k
  <2>1. x \in DOMAIN db /\ db'[x] = db[x]
    BY <1>1, <1>3 DEF Add
  <2>2. Sound(x)
    BY <2>1 DEF GatewayInv
  <2> QED
    BY <2>1, <2>2 DEF Sound
<1> QED
  BY <1>2, <1>3

\* Records that are removed or left alone stay sound.
LEMMA Remaining ==
  ASSUME GatewayInv, DOMAIN db' \subseteq DOMAIN db, \A k \in DOMAIN db' : db'[k] = db[k]
  PROVE  \A k \in DOMAIN db' : Sound(k)'
<1> TAKE k \in DOMAIN db'
<1>1. k \in DOMAIN db /\ db'[k] = db[k]
  OBVIOUS
<1>2. Sound(k)
  BY <1>1 DEF GatewayInv
<1> QED
  BY <1>1, <1>2 DEF Sound

\* Both paths give a client the verdict of its record: no stored list is empty,
\* which is where the two codes would differ.
LEMMA VisitStep ==
  ASSUME GatewayInv, ClientStep
  PROVE  GatewayInv'
<1>1. PICK a \in Addr : \/ \E t \in listeners : Connect(t, a)
                       \/ \E n \in Names : Lookup(n, a) \/ LookupFails(n, a)
  BY DEF ClientStep
<1>2. UNCHANGED <<phase, settings, db>>
  BY <1>1 DEF Connect, Lookup, LookupFails
<1>3. SettingsOK'
  BY <1>2 DEF GatewayInv, SettingsOK
<1>4. \A k \in DOMAIN db' : Sound(k)'
  BY <1>2, Remaining
<1>5. ASSUME NEW t \in listeners, Connect(t, a)
      PROVE  VisitOK'
  <2>1. CASE t \notin DOMAIN db
    BY <1>5, <2>1 DEF Connect, Visit, VisitOK
  <2>2. CASE t \in DOMAIN db
    <3>1. /\ visit'.key = t /\ visit'.client = a
          /\ visit'.verdict = IF isClientIPAllowed(db[t].allowed, a)
                              THEN "passed" ELSE "denied"
      BY <1>5, <2>2 DEF Connect, Visit
    <3> QED
      BY <1>2, <2>2, <3>1 DEF VisitOK
  <2> QED
    BY <2>1, <2>2
<1>6. ASSUME NEW n \in Names, Lookup(n, a)
      PROVE  VisitOK'
  <2>1. CASE n \notin DOMAIN db
    BY <1>6, <2>1 DEF Lookup, Visit, VisitOK
  <2>2. CASE n \in DOMAIN db
    <3>1. db[n].allowed # {}
      BY <2>2 DEF GatewayInv, Sound
    <3>2. LookupAllows(db[n].allowed, a) <=> isClientIPAllowed(db[n].allowed, a)
      BY <3>1 DEF LookupAllows
    <3>3. /\ visit'.key = n /\ visit'.client = a
          /\ visit'.verdict = IF LookupAllows(db[n].allowed, a) THEN "passed" ELSE "denied"
      BY <1>6, <2>2 DEF Lookup, Visit
    <3> QED
      BY <1>2, <2>2, <3>2, <3>3 DEF VisitOK
  <2> QED
    BY <2>1, <2>2
<1>7. ASSUME NEW n \in Names, LookupFails(n, a)
      PROVE  VisitOK'
  BY <1>7 DEF LookupFails, Visit, VisitOK
<1> QED
  BY <1>1, <1>3, <1>4, <1>5, <1>6, <1>7 DEF GatewayInv

\* Every step preserves the invariant.
LEMMA GatewayInvStep == GatewayInv /\ [GatewayNext]_gatewayVars => GatewayInv'
<1> SUFFICES ASSUME GatewayInv, [GatewayNext]_gatewayVars
             PROVE  GatewayInv'
  OBVIOUS
<1>1. ASSUME visit' = NoVisit
      PROVE  VisitOK'
  BY <1>1 DEF NoVisit, VisitOK
<1>2. ASSUME NEW s \in Settings, Start(s)
      PROVE  GatewayInv'
  <2>1. SettingsOK'
    BY <1>2 DEF Start, SettingsOK
  <2> QED
    BY <1>1, <1>2, <2>1, Remaining DEF Start, GatewayInv
<1>3. ASSUME NEW t \in todo, Restore(t)
      PROVE  GatewayInv'
  <2>1. SettingsOK'
    BY <1>3 DEF Restore, GatewayInv, SettingsOK
  <2> QED
    BY <1>1, <1>3, <2>1, Remaining DEF Restore, GatewayInv
<1>4. ASSUME Terminate \/ Exit
      PROVE  GatewayInv'
  <2>1. SettingsOK'
    BY <1>4 DEF Terminate, Exit, SettingsOK
  <2> QED
    BY <1>1, <1>4, <2>1, Remaining DEF Terminate, Exit, GatewayInv
<1>5. ASSUME NEW ips \in Lists, NEW n \in Names, CreateHTTP(n, ips)
      PROVE  GatewayInv'
  <2>1. SettingsOK'
    BY <1>5 DEF CreateHTTP, GatewayInv, SettingsOK
  <2>2. \A k \in DOMAIN db' : Sound(k)'
    BY <1>5, Created DEF CreateHTTP
  <2> QED
    BY <1>1, <1>5, <2>1, <2>2 DEF CreateHTTP, GatewayInv
<1>6. ASSUME NEW ips \in Lists, NEW t \in LowPort .. TopPort, NEW up \in UpstreamPorts,
             CreateTCP(t, up, ips)
      PROVE  GatewayInv'
  <2>1. SettingsOK'
    BY <1>6 DEF CreateTCP, GatewayInv, SettingsOK
  <2>2. up \in Permitted(settings)
    <3>1. settings \in Settings /\ Loads(settings) /\ isPortAllowed(settings, up)
      BY <1>6 DEF CreateTCP, GatewayInv, SettingsOK
    <3> QED
      BY <3>1, PortsAsPermitted
  <2>3. \A k \in DOMAIN db' : Sound(k)'
    BY <1>6, <2>2, Created DEF CreateTCP
  <2> QED
    BY <1>1, <1>6, <2>1, <2>3 DEF CreateTCP, GatewayInv
<1>7. ASSUME NEW k \in DOMAIN db, Lose(k) \/ Revoke(k)
      PROVE  GatewayInv'
  <2>1. SettingsOK'
    BY <1>7 DEF Lose, Revoke, GatewayInv, SettingsOK
  <2>2. \A x \in DOMAIN db' : Sound(x)'
    BY <1>7, Remaining DEF Lose, Revoke
  <2> QED
    BY <1>1, <1>7, <2>1, <2>2 DEF Lose, Revoke, GatewayInv
<1>8. CASE UNCHANGED gatewayVars
  <2>1. SettingsOK' /\ VisitOK'
    BY <1>8 DEF gatewayVars, GatewayInv, SettingsOK, VisitOK
  <2> QED
    BY <1>8, <2>1, Remaining DEF gatewayVars, GatewayInv
<1> QED
  BY <1>2, <1>3, <1>4, <1>5, <1>6, <1>7, <1>8, VisitStep DEF GatewayNext

-----------------------------------------------------------------------------
(* The theorems.                                                           *)

\* The invariant holds in every reachable state.
LEMMA GatewayInvAlways == GatewaySpec => []GatewayInv
  BY GatewayInvInit, GatewayInvStep, PTL DEF GatewaySpec

\* The TCP proxy and the Lua lookup let through exactly the clients each list
\* was meant for: for any addresses, spellings, lists and settings.
THEOREM ClientsAsMeant == GatewaySpec => []VisitedAsMeant
<1>1. GatewayInv => VisitedAsMeant
  BY DEF GatewayInv, VisitOK, Sound, VisitedAsMeant
<1> QED
  BY <1>1, GatewayInvAlways, PTL

\* No TCP client is connected to an upstream port that the settings did not
\* permit when its tunnel was created.
THEOREM UpstreamAsPermitted == GatewaySpec => []DialedAsPermitted
<1>1. GatewayInv => DialedAsPermitted
  BY DEF GatewayInv, VisitOK, Sound, DialedAsPermitted
<1> QED
  BY <1>1, GatewayInvAlways, PTL
=============================================================================

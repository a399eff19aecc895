---------------------------- MODULE AgentProofs ----------------------------
(***************************************************************************)
(* What the service keeps, the whole agent keeps: crashes, restarts, the   *)
(* goroutine that restores listeners and the connections of clients touch  *)
(* the listener table and the requests in flight, never a record.  From    *)
(* that follows what a client sees of a revoked tunnel.  A name that was   *)
(* revoked cleanly is nowhere, so no later deletion can call its           *)
(* revocation a raced one: the tunnels that were dead when a connection    *)
(* was accepted stay dead, and the record it reads is not one of theirs.   *)
(***************************************************************************)
EXTENDS Agent, TunnelCountProofs

\* What the service keeps.
ServiceInd == Ind /\ RevInd /\ SlotBound

BootStates ==
  [pc : {"scan", "next", "start", "done"}, todo : SUBSET Ports, port : Ports \cup {NoPort}]

\* The goroutine of StartAllActiveTunnels has read a port when it listens.
BootOK == boot \in BootStates /\ (boot.pc = "start" => boot.port \in Ports)

ConnStates ==
  [pc : {"closed", "get", "stop", "dial", "open"}, port : Ports \cup {NoPort}, id : Nat,
   dead : SUBSET Nat]

\* What a connection took for dead is dead, and it reached no such tunnel.
ConnOK ==
  /\ conn \in [Conn -> ConnStates]
  /\ \A c \in Conn :
       /\ conn[c].dead \subseteq revoked \ raced
       /\ conn[c].pc \in {"get", "stop"} => conn[c].port \in Ports
       /\ conn[c].pc \in {"dial", "open"} => conn[c].id \notin conn[c].dead

\* A dead process listens on nothing, serves nobody and restores nothing.
ProcessOK ==
  /\ up \in BOOLEAN /\ crashes \in 0 .. MaxCrashes /\ accepting \subseteq listeners
  /\ ~up => listeners = {} /\ boot.pc = "done" /\ \A p \in Proc : op[p] = Idle

AgentInd == ServiceInd /\ BootOK /\ ConnOK /\ ProcessOK

-----------------------------------------------------------------------------
(* The records.                                                            *)

\* A step of the agent that is none of the service's alone: it opens or closes
\* listeners, or the process dies.
Relisten == listeners' \subseteq Ports /\ UNCHANGED <<now, db, op, nextId, history>>
Wipe ==
  /\ op' = [p \in Proc |-> Idle] /\ listeners' = {}
  /\ UNCHANGED <<now, db, nextId, history>>

\* Opening or closing listeners concerns no record.
LEMMA RelistenKeeps ==
  ASSUME ServiceInd, Relisten
  PROVE  ServiceInd'
<1>1. UNCHANGED <<now, db, op, nextId, revoked, raced>> /\ listeners' \subseteq Ports
  BY DEF Relisten, history
<1>2. Ind'
  BY <1>1 DEF ServiceInd, Ind, FrameOK, OpsOK
<1>3. RevInd'
  BY <1>1 DEF ServiceInd, RevInd, Located
<1>4. SlotBound'
  <2>1. \A S \in {Subdomains, Ports} : Slots(S)' \subseteq Slots(S)
    BY <1>1, SlotsSplit
  <2> QED BY <2>1, FewerSlots DEF ServiceInd, SlotBound, SlotLimit
<1> QED BY <1>2, <1>3, <1>4 DEF ServiceInd

\* The requests that die with the process take the records they held with them.
LEMMA WipeKeeps ==
  ASSUME ServiceInd, Wipe
  PROVE  ServiceInd'
<1> USE DEF ServiceInd
<1>1. /\ \A p \in Proc : op'[p] = Idle
      /\ op' = [p \in Proc |-> op'[p]]
      /\ UNCHANGED <<now, db, nextId, history>> /\ listeners' = {}
  BY DEF Wipe
<1>2. Ind'
  BY <1>1, IdleOK DEF Ind, FrameOK, OpsOK, history
<1>3. HeldBefore
  <2>1. \A i \in Nat, k \in Keys : ~HeldAt(Idle, i, k)
    BY DEF HeldAt, Idle, Begun
  <2> QED BY <1>1, <2>1 DEF HeldBefore, HeldAt
<1>4. RevInd'
  BY <1>1, <1>3, QuietStep, UnchangedDb
<1>5. SlotBound'
  <2>1. ASSUME NEW S \in {Subdomains, Ports} PROVE Slots(S)' \subseteq Slots(S)
    <3>1. RequestSlots(op', S) = {}
      BY <1>1 DEF RequestSlots, Reserves, Searches, Idle, Begun
    <3>2. StoredSlots(db', S) = StoredSlots(db, S)
      BY <1>1
    <3> QED BY <3>1, <3>2, SlotsSplit
  <2> QED BY <2>1, FewerSlots DEF SlotBound, SlotLimit
<1> QED BY <1>2, <1>4, <1>5

\* Steps of the service keep what it keeps.
LEMMA ServiceKeeps ==
  ASSUME ServiceInd, [Next]_vars
  PROVE  ServiceInd'
  BY IndNext, RevNext, SlotNext DEF ServiceInd

\* A deletion reports its tunnel once, and finds no tunnel that was already
\* revoked cleanly: a clean revocation stays a clean one.
LEMMA CleanStaysClean ==
  ASSUME ServiceInd, [Next]_vars \/ Relisten \/ Wipe
  PROVE  revoked \ raced \subseteq revoked' \ raced'
<1>1. ASSUME NEW p \in Proc, Delete(p) PROVE revoked \ raced \subseteq revoked' \ raced'
  <2> DEFINE gone == IF Exists(db, op[p].key) THEN {db[op[p].key].val.id} ELSE {}
  <2>1. /\ revoked' = revoked \cup gone
        /\ raced' = raced \cup {i \in gone : Holders(i) # {}}
    BY <1>1 DEF Delete
  <2>2. CleanRevocationIsFinal
    BY RevImplies DEF ServiceInd
  <2>3. gone \cap (revoked \ raced) = {}
    BY <2>2 DEF CleanRevocationIsFinal, Exists
  <2> HIDE DEF gone
  <2> QED BY <2>1, <2>3
<1>2. CASE UNCHANGED history
  BY <1>2 DEF history
<1>3. (\E p \in Proc : Delete(p)) \/ UNCHANGED history
  <2>1. CASE Relisten \/ Wipe
    BY <2>1 DEF Relisten, Wipe
  <2>2. CASE UNCHANGED vars
    BY <2>2 DEF vars, history
  <2>3. CASE Next
    BY <2>3 DEF Next, Request, CreateTunnel, CreateTCPTunnel, ExtendTunnel, DeleteTunnel,
         Progress, CountTCP, PickFree, PickTaken, StampNew, StampExtension, Store,
         StartProxy, Rollback, StopProxy, Failure, StoreLost, DeleteLost, ListenFails,
         RedisError, Tick, Evict
  <2> QED BY <2>1, <2>2, <2>3
<1> QED BY <1>1, <1>2, <1>3

-----------------------------------------------------------------------------
(* The steps.                                                              *)

\* A connection that moves to o.
LEMMA ConnMoves ==
  ASSUME ConnOK, revoked \ raced \subseteq revoked' \ raced',
         NEW c \in Conn, NEW o \in ConnStates, conn' = [conn EXCEPT ![c] = o],
         o.dead \subseteq revoked \ raced,
         o.pc \in {"get", "stop"} => o.port \in Ports,
         o.pc \in {"dial", "open"} => o.id \notin o.dead
  PROVE  ConnOK'
<1>1. conn' \in [Conn -> ConnStates]
  BY DEF ConnOK
<1>2. \A d \in Conn : conn'[d] = IF d = c THEN o ELSE conn[d]
  BY DEF ConnOK
<1> QED BY <1>1, <1>2 DEF ConnOK

\* The connections do not move, or all are cut.
LEMMA ConnRest ==
  ASSUME ConnOK, revoked \ raced \subseteq revoked' \ raced',
         conn' = conn \/ conn' = [c \in Conn |-> Closed]
  PROVE  ConnOK'
<1>1. CASE conn' = conn
  BY <1>1 DEF ConnOK
<1>2. CASE conn' = [c \in Conn |-> Closed]
  BY <1>2 DEF ConnOK, ConnStates, Closed
<1> QED BY <1>1, <1>2

\* A step of the service; nothing of it runs in a dead process.
LEMMA ServiceStepInd ==
  ASSUME AgentInd, Next, LoopsFollow, UNCHANGED agentVars,
         up \/ UNCHANGED <<listeners, op>>
  PROVE  AgentInd'
<1> USE DEF AgentInd
<1>1. ServiceInd'
  BY ServiceKeeps
<1>2. UNCHANGED <<up, boot, conn, crashes>>
  BY DEF agentVars
<1>3. BootOK'
  BY <1>2 DEF BootOK
<1>4. ConnOK'
  BY <1>2, CleanStaysClean, ConnRest
<1>5. ProcessOK'
  BY <1>2 DEF ProcessOK, LoopsFollow
<1> QED BY <1>1, <1>3, <1>4, <1>5

\* The requests, their failures, the clock and Redis.
LEMMA ServiceStepsInd ==
  ASSUME AgentInd,
         \/ \E p \in Proc : up /\ ServiceStep(Request(p, Ports))
         \/ \E p \in Proc : ServiceStep(Progress(p)) \/ ServiceStep(Failure(p))
         \/ ServiceStep(Tick)
         \/ \E k \in Ports : ServiceStep(Evict(k))
  PROVE  AgentInd'
<1>1. Ports \subseteq Keys
  BY DEF Keys
<1>2. ASSUME NEW p \in Proc, up, ServiceStep(Request(p, Ports)) PROVE AgentInd'
  <2>1. Request(p, Keys)
    BY <1>1, <1>2 DEF ServiceStep, Request
  <2>2. Next
    BY <2>1 DEF Next
  <2> QED BY <1>2, <2>2, ServiceStepInd DEF ServiceStep
<1>3. ASSUME NEW p \in Proc, ServiceStep(Progress(p)) \/ ServiceStep(Failure(p))
      PROVE  AgentInd'
  <2>1. Progress(p) \/ Failure(p)
    BY <1>3 DEF ServiceStep
  <2>2. op[p] # Idle
    <3>1. op[p].pc # "idle"
      BY <2>1 DEF Progress, Failure, CountTCP, PickFree, PickTaken, StampNew,
           StampExtension, Store, StartProxy, Rollback, Delete, StopProxy, StoreLost,
           DeleteLost, ListenFails, RedisError, At
    <3> QED BY <3>1 DEF Idle, Begun
  <2>3. up
    BY <2>2 DEF AgentInd, ProcessOK
  <2>4. Next
    BY <2>1 DEF Next
  <2> QED BY <1>3, <2>3, <2>4, ServiceStepInd DEF ServiceStep
<1>4. CASE ServiceStep(Tick)
  <2>1. Next /\ UNCHANGED <<listeners, op>>
    BY <1>4 DEF ServiceStep, Next, Tick
  <2> QED BY <1>4, <2>1, ServiceStepInd DEF ServiceStep
<1>5. ASSUME NEW k \in Ports, ServiceStep(Evict(k)) PROVE AgentInd'
  <2>1. Next /\ UNCHANGED <<listeners, op>>
    BY <1>1, <1>5 DEF ServiceStep, Next, Evict
  <2> QED BY <1>5, <2>1, ServiceStepInd DEF ServiceStep
<1> QED BY <1>2, <1>3, <1>4, <1>5

\* Steps of a connection that leave the service alone.
LEMMA ConnStepInd ==
  ASSUME AgentInd, UNCHANGED <<vars, up, boot, accepting, crashes>>, ConnOK'
  PROVE  AgentInd'
<1> USE DEF AgentInd
<1>1. UNCHANGED <<listeners, op, revoked, raced, up, boot, accepting, crashes>>
  BY DEF vars
<1>2. ServiceInd'
  BY ServiceKeeps
<1>3. BootOK' /\ ProcessOK'
  BY <1>1 DEF BootOK, ProcessOK
<1> QED BY <1>2, <1>3

\* Accept notes which tunnels were cleanly revoked by then.
LEMMA AcceptInd ==
  ASSUME AgentInd, NEW c \in Conn, NEW t \in Ports, Accept(c, t)
  PROVE  AgentInd'
<1> USE DEF AgentInd
<1> DEFINE o == [pc |-> "get", port |-> t, id |-> 0, dead |-> revoked \ raced]
<1>1. conn' = [conn EXCEPT ![c] = o] /\ UNCHANGED <<vars, up, boot, accepting, crashes>>
  BY DEF Accept
<1>2. revoked \subseteq Nat
  BY DEF ServiceInd, Ind, FrameOK
<1>3. o \in ConnStates
  BY <1>2 DEF ConnStates
<1>4. o.pc = "get" /\ o.port = t /\ o.dead = revoked \ raced
  OBVIOUS
<1> HIDE DEF o
<1>5. ConnOK'
  BY <1>1, <1>3, <1>4, ConnMoves DEF vars
<1> QED BY <1>1, <1>5, ConnStepInd

\* What ConnGet reads is stored, and what is stored was not cleanly revoked.
LEMMA ConnGetInd ==
  ASSUME AgentInd, NEW c \in Conn, ConnGet(c)
  PROVE  AgentInd'
<1> USE DEF AgentInd
<1> DEFINE i == db[conn[c].port].val.id
           o == [conn[c] EXCEPT !.pc = "dial", !.id = i]
<1>1. /\ conn' = [conn EXCEPT ![c] = o] /\ Exists(db, conn[c].port)
      /\ UNCHANGED <<vars, up, boot, accepting, crashes>>
  BY DEF ConnGet, ConnOK
<1>2. i \in Nat
  BY <1>1 DEF ServiceInd, Ind, StoredOK, Exists, Entry, Record
<1>3. i \notin revoked \ raced
  BY <1>1, RevImplies DEF ServiceInd, CleanRevocationIsFinal, Exists
<1> HIDE DEF i
<1>4. conn[c] \in ConnStates /\ conn[c].dead \subseteq revoked \ raced
  BY DEF ConnOK
<1>5. o \in ConnStates /\ o.pc = "dial" /\ o.id = i /\ o.dead = conn[c].dead
  BY <1>2, <1>4 DEF ConnStates
<1> HIDE DEF o
<1>6. ConnOK'
  BY <1>1, <1>3, <1>4, <1>5, ConnMoves DEF vars
<1> QED BY <1>1, <1>6, ConnStepInd

\* The other steps of a connection read nothing.
LEMMA ConnOthersInd ==
  ASSUME AgentInd, NEW c \in Conn,
         ConnMissing(c) \/ ConnError(c) \/ Dial(c) \/ Refuse(c) \/ HangUp(c)
  PROVE  AgentInd'
<1> USE DEF AgentInd
<1>1. UNCHANGED <<vars, up, boot, accepting, crashes>>
  BY DEF ConnMissing, ConnError, Dial, Refuse, HangUp
<1>2. conn[c] \in ConnStates /\ conn[c].dead \subseteq revoked \ raced
  BY DEF ConnOK
<1>3. CASE conn' = [conn EXCEPT ![c] = Closed]
  <2>1. Closed \in ConnStates /\ Closed.pc = "closed" /\ Closed.dead = {}
    BY DEF Closed, ConnStates
  <2>2. ConnOK'
    BY <1>1, <1>3, <2>1, ConnMoves DEF vars
  <2> QED BY <1>1, <2>2, ConnStepInd
<1>4. ASSUME NEW pc \in {"stop", "open"}, conn' = [conn EXCEPT ![c].pc = pc],
             pc = "stop" => conn[c].pc = "get", pc = "open" => conn[c].pc = "dial"
      PROVE  AgentInd'
  <2> DEFINE o == [conn[c] EXCEPT !.pc = pc]
  <2>1. conn' = [conn EXCEPT ![c] = o]
    BY <1>4 DEF ConnOK
  <2>2. /\ o \in ConnStates /\ o.pc = pc /\ o.port = conn[c].port
        /\ o.id = conn[c].id /\ o.dead = conn[c].dead
    BY <1>2 DEF ConnStates
  <2> HIDE DEF o
  <2>3. /\ o.pc \in {"get", "stop"} => o.port \in Ports
        /\ o.pc \in {"dial", "open"} => o.id \notin o.dead
    BY <1>4, <2>2 DEF ConnOK
  <2>4. ConnOK'
    BY <1>1, <1>2, <2>1, <2>2, <2>3, ConnMoves DEF vars
  <2> QED BY <1>1, <2>4, ConnStepInd
<1> QED BY <1>3, <1>4 DEF ConnMissing, ConnError, Dial, Refuse, HangUp, ConnAt

\* A handler that found no record stops the listener.
LEMMA ConnStopInd ==
  ASSUME AgentInd, NEW c \in Conn, ConnStop(c)
  PROVE  AgentInd'
<1> USE DEF AgentInd
<1>1. /\ listeners' = listeners \ {conn[c].port} /\ LoopsFollow
      /\ conn' = [conn EXCEPT ![c] = Closed]
      /\ UNCHANGED <<now, db, op, nextId, history, up, boot, crashes>>
  BY DEF ConnStop
<1>2. Relisten
  BY <1>1 DEF Relisten, history, ServiceInd, Ind, FrameOK
<1>3. ServiceInd'
  BY <1>2, RelistenKeeps
<1>4. Closed \in ConnStates /\ Closed.pc = "closed" /\ Closed.dead = {}
  BY DEF Closed, ConnStates
<1>5. ConnOK'
  BY <1>1, <1>2, <1>4, CleanStaysClean, ConnMoves
<1>6. BootOK' /\ ProcessOK'
  BY <1>1 DEF BootOK, ProcessOK, LoopsFollow
<1> QED BY <1>3, <1>5, <1>6

\* The goroutine that restores listeners runs in a live process.
LEMMA BootInd ==
  ASSUME AgentInd, BootStep
  PROVE  AgentInd'
<1> USE DEF AgentInd
<1>1. up
  BY DEF ProcessOK, BootStep, BootScan, BootScanFails, BootGet, BootSkip, BootListen,
         BootListenFails, BootEnd
<1>2. UNCHANGED <<now, db, op, nextId, history, up, conn, crashes>>
  BY DEF vars, history, BootStep, BootScan, BootScanFails, BootGet, BootSkip, BootListen,
         BootListenFails, BootEnd
<1>3. listeners' \subseteq Ports /\ accepting' \subseteq listeners'
  <2>1. CASE BootListen
    BY <2>1 DEF BootListen, LoopsFollow, BootOK, ServiceInd, Ind, FrameOK
  <2>2. CASE UNCHANGED <<vars, up, conn, accepting, crashes>>
    BY <2>2 DEF vars, ProcessOK, ServiceInd, Ind, FrameOK
  <2> QED BY <2>1, <2>2 DEF BootStep, BootScan, BootScanFails, BootGet, BootSkip,
                            BootListenFails, BootEnd
<1>4. BootOK'
  <2>1. boot \in BootStates
    BY DEF BootOK
  <2>2. CASE BootScan
    BY <2>1, <2>2 DEF BootScan, BootOK, BootStates
  <2>3. CASE BootScanFails \/ BootEnd
    BY <2>3 DEF BootScanFails, BootEnd, BootDone, BootOK, BootStates
  <2>4. ASSUME NEW t \in Ports, BootGet(t) PROVE BootOK'
    BY <2>1, <2>4 DEF BootGet, BootOK, BootStates
  <2>5. ASSUME NEW t \in Ports, BootSkip(t) PROVE BootOK'
    BY <2>1, <2>5 DEF BootSkip, BootOK, BootStates
  <2>6. CASE BootListen \/ BootListenFails
    BY <2>1, <2>6 DEF BootListen, BootListenFails, BootOK, BootStates
  <2> QED BY <2>2, <2>3, <2>4, <2>5, <2>6 DEF BootStep
<1>5. Relisten
  BY <1>2, <1>3 DEF Relisten
<1>6. ServiceInd' /\ ConnOK'
  BY <1>2, <1>5, RelistenKeeps, CleanStaysClean, ConnRest
<1>7. ProcessOK'
  BY <1>1, <1>2, <1>3 DEF ProcessOK
<1> QED BY <1>4, <1>6, <1>7

\* Everything but Redis is lost.
LEMMA CrashInd ==
  ASSUME AgentInd, Crash
  PROVE  AgentInd'
<1> USE DEF AgentInd
<1>1. Wipe
  BY DEF Crash, Wipe
<1>2. ServiceInd'
  BY <1>1, WipeKeeps
<1>3. ConnOK'
  BY <1>1, CleanStaysClean, ConnRest DEF Crash
<1>4. BootOK' /\ boot'.pc = "done"
  BY DEF Crash, BootDone, BootOK, BootStates
<1>5. ProcessOK'
  <2>1. up' \in BOOLEAN /\ listeners' = {} /\ accepting' = {} /\ \A p \in Proc : op'[p] = Idle
    BY DEF Crash
  <2>2. crashes' \in 0 .. MaxCrashes
    BY AgentAssumption DEF Crash, ProcessOK
  <2> QED BY <1>4, <2>1, <2>2 DEF ProcessOK
<1> QED BY <1>2, <1>3, <1>4, <1>5

\* A restart, and an accept loop that ends.
LEMMA OthersInd ==
  ASSUME AgentInd, Restart \/ (\E t \in Ports : AcceptFails(t)) \/ UNCHANGED allVars
  PROVE  AgentInd'
<1> USE DEF AgentInd
<1>1. /\ UNCHANGED <<vars, conn, crashes>>
      /\ accepting' \subseteq accepting
  BY DEF Restart, AcceptFails, allVars, agentVars
<1>2. UNCHANGED <<listeners, op, revoked, raced>>
  BY <1>1 DEF vars
<1>3. ServiceInd'
  BY <1>1, ServiceKeeps
<1>4. ConnOK'
  BY <1>1, <1>2, ConnRest
<1>5. BootOK'
  BY DEF Restart, AcceptFails, allVars, agentVars, BootOK, BootStart, BootStates
<1>6. ProcessOK'
  <2>1. CASE Restart
    BY <1>1, <1>2, <2>1 DEF Restart, ProcessOK
  <2>2. CASE UNCHANGED <<up, boot>>
    BY <1>1, <1>2, <2>2 DEF ProcessOK
  <2> QED BY <2>1, <2>2 DEF AcceptFails, allVars, agentVars
<1> QED BY <1>3, <1>4, <1>5, <1>6

-----------------------------------------------------------------------------
(* The theorems.                                                           *)

\* The agent starts with an empty Redis and no connection.
LEMMA AgentIndInit == AgentInit => AgentInd
<1> SUFFICES ASSUME AgentInit PROVE AgentInd
  OBVIOUS
<1>1. ServiceInd
  BY IndInit, RevInit, SlotInit DEF AgentInit, ServiceInd
<1>2. BootOK
  BY DEF AgentInit, BootOK, BootStart, BootStates
<1>3. ConnOK
  BY DEF AgentInit, ConnOK, ConnStates, Closed
<1>4. ProcessOK
  BY AgentAssumption DEF AgentInit, Init, ProcessOK
<1> QED BY <1>1, <1>2, <1>3, <1>4 DEF AgentInd

\* Every step of the agent keeps the invariant.
LEMMA AgentIndNext == AgentInd /\ [AgentNext]_allVars => AgentInd'
<1> SUFFICES ASSUME AgentInd, [AgentNext]_allVars PROVE AgentInd'
  OBVIOUS
<1>1. ASSUME NEW c \in Conn, ConnStep(c) \/ HangUp(c) PROVE AgentInd'
  BY <1>1, ConnGetInd, ConnOthersInd, ConnStopInd DEF ConnStep
<1>2. CASE BootStep
  BY <1>2, BootInd
<1>3. CASE Crash
  BY <1>3, CrashInd
<1>4. CASE Restart \/ (\E t \in Ports : AcceptFails(t)) \/ UNCHANGED allVars
  BY <1>4, OthersInd
<1>5. ASSUME NEW c \in Conn, NEW t \in Ports, Accept(c, t) PROVE AgentInd'
  BY <1>5, AcceptInd
<1> QED BY <1>1, <1>2, <1>3, <1>4, <1>5, ServiceStepsInd DEF AgentNext

\* AgentInd holds in every reachable state of the agent.
THEOREM AgentInvariant == AgentSpec => []AgentInd
<1> QED BY AgentIndInit, AgentIndNext, PTL DEF AgentSpec

\* The variables keep their types; a process that is down has no listener and
\* no request, and no accept loop runs without its listener.
THEOREM AgentTypeInvariant == AgentSpec => []AgentTypeOK
<1>1. AgentInd => AgentTypeOK
  <2> SUFFICES ASSUME AgentInd PROVE AgentTypeOK
    OBVIOUS
  <2>1. TypeOK
    BY IndImplies DEF AgentInd, ServiceInd
  <2>2. conn \in [Conn -> [pc : {"closed", "get", "stop", "dial", "open"},
                           port : Ports \cup {NoPort}, id : Nat, dead : SUBSET revoked]]
    <3>1. \A c \in Conn : conn[c] \in ConnStates /\ conn[c].dead \subseteq revoked
      BY DEF AgentInd, ConnOK
    <3>2. \A c \in Conn : conn[c] \in [pc : {"closed", "get", "stop", "dial", "open"},
                           port : Ports \cup {NoPort}, id : Nat, dead : SUBSET revoked]
      BY <3>1 DEF ConnStates
    <3> QED BY <3>2 DEF AgentInd, ConnOK
  <2> QED BY <2>1, <2>2 DEF AgentTypeOK, AgentInd, BootOK, BootStates, ProcessOK
<1> QED BY <1>1, AgentInvariant, PTL

\* A client that connects after a tunnel was cleanly deleted never reaches the
\* upstream through that tunnel, whatever requests, restarts of the process and
\* restored listeners come between the deletion, the GET and the dial.
THEOREM RevokedNotServed == AgentSpec => []NoServiceAfterRevocation
<1>1. AgentInd => NoServiceAfterRevocation
  BY DEF AgentInd, ConnOK, NoServiceAfterRevocation
<1> QED BY <1>1, AgentInvariant, PTL

\* A crash frees the slots of the requests it kills and no others: MAX_TUNNELS is
\* overshot by the requests of one process at a time, however often it dies.
THEOREM RestartsKeepTunnelCount == AgentSpec => [](SlotBound /\ TunnelCountBound)
<1>1. AgentInd => SlotBound /\ TunnelCountBound
  BY SlotsBoundCount DEF AgentInd, ServiceInd
<1> QED BY <1>1, AgentInvariant, PTL

\* What is promised of a record is kept over crashes: its lifetime, the TTL that
\* covers it, and that a clean revocation is final.
THEOREM RestartsKeepPromises ==
  AgentSpec => [](CleanRevocationIsFinal /\ (InputsFit => LifetimeCap /\ TTLCoversRecord))
<1>1. AgentInd => CleanRevocationIsFinal /\ (InputsFit => LifetimeCap /\ TTLCoversRecord)
  BY RevImplies, IndImplies DEF AgentInd, ServiceInd
<1> QED BY <1>1, AgentInvariant, PTL
=============================================================================

------------------------------- MODULE Agent -------------------------------
(***************************************************************************)
(* The TCP side of the whole agent: the requests of TunnelService, the     *)
(* connections TCPProxyManager accepts (src/api/tcp_proxy.go), the         *)
(* goroutine that restores the listeners at start (StartAllActiveTunnels), *)
(* and the API process that dies and is restarted by systemd while Redis   *)
(* lives on.  Only the record in Redis is shared between them; the mutex   *)
(* of the manager makes StartProxy and StopProxy atomic, and nothing more. *)
(***************************************************************************)
EXTENDS TunnelService

CONSTANTS
  Conn,        \* TCP connections clients open
  NoPort,      \* a connection that is not open
  Faults,      \* whether Redis commands and listens may fail
  MaxCrashes   \* bound: how often the process dies

ASSUME AgentAssumption ==
  NoPort \notin Ports /\ Faults \in BOOLEAN /\ MaxCrashes \in Nat

VARIABLES
  up,         \* the API process runs
  boot,       \* StartAllActiveTunnels: [pc, todo, port]
  conn,       \* conn[c]: [pc, port, id, dead], one handleConnection goroutine
  accepting,  \* ports whose acceptLoop runs
  crashes     \* number of crashes so far

agentVars == <<up, boot, conn, crashes>>
allVars == <<vars, agentVars, accepting>>

\* dead is history: the tunnels that were cleanly revoked before the
\* connection was accepted.  id is the tunnel whose record was read.
Closed == [pc |-> "closed", port |-> NoPort, id |-> 0, dead |-> {}]
BootDone == [pc |-> "done", todo |-> {}, port |-> NoPort]
BootStart == [pc |-> "scan", todo |-> {}, port |-> NoPort]

AgentInit ==
  /\ Init
  /\ up = TRUE
  /\ boot = BootStart
  /\ conn = [c \in Conn |-> Closed]
  /\ crashes = 0
  /\ accepting = {}

-----------------------------------------------------------------------------
(* handleConnection.                                                       *)

ConnAt(c, pc) == conn[c].pc = pc

\* StartProxy starts the accept loop of a listener it opens, and none for a
\* port already in the table; closing a listener ends its loop.
LoopsFollow ==
  accepting' = (accepting \cap listeners') \cup (listeners' \ listeners)

\* acceptLoop hands a connection to a goroutine of its own.
Accept(c, t) ==
  /\ up /\ ConnAt(c, "closed") /\ t \in accepting
  /\ conn' = [conn EXCEPT ![c] = [pc |-> "get", port |-> t, id |-> 0,
                                  dead |-> revoked \ raced]]
  /\ UNCHANGED <<vars, up, boot, accepting, crashes>>

\* Any error of Accept, out of file descriptors for one, ends the loop; the
\* listener stays open and in the table.
AcceptFails(t) ==
  /\ Faults /\ t \in accepting
  /\ accepting' = accepting \ {t}
  /\ UNCHANGED <<vars, agentVars>>

ConnGet(c) ==
  /\ ConnAt(c, "get") /\ Exists(db, conn[c].port)
  /\ conn' = [conn EXCEPT ![c].pc = "dial", ![c].id = db[conn[c].port].val.id]
  /\ UNCHANGED <<vars, up, boot, accepting, crashes>>

\* Mutant of ConnMissing: the connection is dropped, its listener left open.
ConnDropped(c) ==
  /\ ConnAt(c, "get") /\ ~Exists(db, conn[c].port)
  /\ conn' = [conn EXCEPT ![c] = Closed]
  /\ UNCHANGED <<vars, up, boot, accepting, crashes>>

\* No record, or the GET failed: the handler decides to stop the listener.
ConnMissing(c) ==
  /\ ConnAt(c, "get") /\ ~Exists(db, conn[c].port)
  /\ conn' = [conn EXCEPT ![c].pc = "stop"]
  /\ UNCHANGED <<vars, up, boot, accepting, crashes>>

ConnError(c) ==
  /\ Faults /\ ConnAt(c, "get")
  /\ conn' = [conn EXCEPT ![c].pc = "stop"]
  /\ UNCHANGED <<vars, up, boot, accepting, crashes>>

\* Mutant of ConnStop: the port leaves the table, its listener is not closed.
ConnStopUnclosed(c) ==
  /\ ConnAt(c, "stop")
  /\ listeners' = listeners \ {conn[c].port}
  /\ conn' = [conn EXCEPT ![c] = Closed]
  /\ UNCHANGED <<now, db, op, nextId, history, up, boot, accepting, crashes>>

\* The listener of the port is stopped whatever was stored in the meantime.
ConnStop(c) ==
  /\ ConnAt(c, "stop")
  /\ listeners' = listeners \ {conn[c].port}
  /\ LoopsFollow
  /\ conn' = [conn EXCEPT ![c] = Closed]
  /\ UNCHANGED <<now, db, op, nextId, history, up, boot, crashes>>

\* The address is allowed and the upstream answers: traffic flows.
Dial(c) ==
  /\ ConnAt(c, "dial")
  /\ conn' = [conn EXCEPT ![c].pc = "open"]
  /\ UNCHANGED <<vars, up, boot, accepting, crashes>>

\* The address is not allowed or the upstream does not answer.
Refuse(c) ==
  /\ ConnAt(c, "dial")
  /\ conn' = [conn EXCEPT ![c] = Closed]
  /\ UNCHANGED <<vars, up, boot, accepting, crashes>>

\* An open connection ends by itself: StopProxy does not touch it.
HangUp(c) ==
  /\ ConnAt(c, "open")
  /\ conn' = [conn EXCEPT ![c] = Closed]
  /\ UNCHANGED <<vars, up, boot, accepting, crashes>>

-----------------------------------------------------------------------------
(* StartAllActiveTunnels, concurrent with the first requests.              *)

BootScan ==
  /\ boot.pc = "scan"
  /\ boot' = [boot EXCEPT !.pc = "next", !.todo = DOMAIN db \cap Ports]
  /\ UNCHANGED <<vars, up, conn, accepting, crashes>>

\* A failed scan is logged and nothing is restored.
BootScanFails ==
  /\ Faults /\ boot.pc = "scan"
  /\ boot' = BootDone
  /\ UNCHANGED <<vars, up, conn, accepting, crashes>>

BootGet(t) ==
  /\ boot.pc = "next" /\ t \in boot.todo
  /\ Exists(db, t)
  /\ boot' = [pc |-> "start", todo |-> boot.todo \ {t}, port |-> t]
  /\ UNCHANGED <<vars, up, conn, accepting, crashes>>

\* The record is gone, or the GET failed (or the ten seconds are over).
BootSkip(t) ==
  /\ boot.pc = "next" /\ t \in boot.todo
  /\ Faults \/ ~Exists(db, t)
  /\ boot' = [boot EXCEPT !.todo = @ \ {t}]
  /\ UNCHANGED <<vars, up, conn, accepting, crashes>>

\* Mutant of BootListen: the goroutine returns after the first listener.
BootListenOnce ==
  /\ boot.pc = "start"
  /\ listeners' = listeners \cup {boot.port}
  /\ LoopsFollow
  /\ boot' = BootDone
  /\ UNCHANGED <<now, db, op, nextId, history, up, conn, crashes>>

BootListen ==
  /\ boot.pc = "start"
  /\ listeners' = listeners \cup {boot.port}
  /\ LoopsFollow
  /\ boot' = [boot EXCEPT !.pc = "next", !.port = NoPort]
  /\ UNCHANGED <<now, db, op, nextId, history, up, conn, crashes>>

BootListenFails ==
  /\ Faults /\ boot.pc = "start" /\ boot.port \notin listeners
  /\ boot' = [boot EXCEPT !.pc = "next", !.port = NoPort]
  /\ UNCHANGED <<vars, up, conn, accepting, crashes>>

BootEnd ==
  /\ boot.pc = "next" /\ boot.todo = {}
  /\ boot' = BootDone
  /\ UNCHANGED <<vars, up, conn, accepting, crashes>>

-----------------------------------------------------------------------------
(* The process.                                                            *)

\* Everything but Redis is lost.
Crash ==
  /\ up /\ crashes < MaxCrashes
  /\ up' = FALSE
  /\ crashes' = crashes + 1
  /\ listeners' = {} /\ accepting' = {}
  /\ op' = [p \in Proc |-> Idle]
  /\ conn' = [c \in Conn |-> Closed]
  /\ boot' = BootDone
  /\ UNCHANGED <<now, db, nextId, history>>

Restart ==
  /\ ~up
  /\ up' = TRUE
  /\ boot' = BootStart
  /\ UNCHANGED <<vars, conn, accepting, crashes>>

ServiceStep(A) == A /\ LoopsFollow /\ UNCHANGED agentVars

ConnStep(c) ==
  \/ ConnGet(c) \/ ConnMissing(c) \/ ConnError(c) \/ ConnStop(c)
  \/ Dial(c) \/ Refuse(c)

BootStep ==
  \/ BootScan \/ BootScanFails
  \/ \E t \in Ports : BootGet(t) \/ BootSkip(t)
  \/ BootListen \/ BootListenFails \/ BootEnd

AgentNext ==
  \/ \E p \in Proc : up /\ ServiceStep(Request(p, Ports))
  \/ \E p \in Proc : ServiceStep(Progress(p))
  \/ \E p \in Proc : Faults /\ ServiceStep(Failure(p))
  \/ ServiceStep(Tick)
  \/ \E k \in Ports : ServiceStep(Evict(k))
  \/ \E c \in Conn, t \in Ports : Accept(c, t)
  \/ \E t \in Ports : AcceptFails(t)
  \/ \E c \in Conn : ConnStep(c) \/ HangUp(c)
  \/ BootStep
  \/ Crash \/ Restart

AgentSpec == AgentInit /\ [][AgentNext]_allVars

\* Goroutines of a running process run, Redis answers within its timeout and
\* systemd restarts the service.  Nothing is assumed of clients, of the
\* upstream, of the clock or of an eviction.
AgentFairSpec ==
  /\ AgentSpec
  /\ \A p \in Proc : WF_allVars(ServiceStep(Progress(p)))
  /\ \A c \in Conn : WF_allVars(ConnStep(c))
  /\ WF_allVars(BootStep)
  /\ WF_allVars(Restart)

-----------------------------------------------------------------------------
(* Properties.                                                             *)

\* The types of the variables this module adds.
AgentTypeOK ==
  /\ TypeOK
  /\ up \in BOOLEAN
  /\ boot \in [pc : {"scan", "next", "start", "done"}, todo : SUBSET Ports,
               port : Ports \cup {NoPort}]
  /\ conn \in [Conn -> [pc : {"closed", "get", "stop", "dial", "open"},
                        port : Ports \cup {NoPort}, id : Nat,
                        dead : SUBSET revoked]]
  /\ crashes \in 0 .. MaxCrashes
  /\ accepting \subseteq listeners
  /\ ~up => listeners = {} /\ \A p \in Proc : op[p] = Idle

\* A client that connects after a tunnel was deleted, by a delete no request
\* raced with, never reaches the upstream through that tunnel: not by a record
\* that is written again, nor by a listener StartAllActiveTunnels restores.
NoServiceAfterRevocation ==
  \A c \in Conn : conn[c].pc \in {"dial", "open"} => conn[c].id \notin conn[c].dead

\* The listener of a tunnel that has expired stays open until somebody
\* connects; then it is closed, unless the port has a tunnel again.
OrphanListenerReaped ==
  \A c \in Conn, t \in Ports :
    (ConnAt(c, "get") /\ conn[c].port = t /\ ~Exists(db, t))
      ~> (t \notin listeners \/ Exists(db, t))

\* docs/UPGRADE.md: active tunnels survive restarts, they live in Redis.  A
\* stored TCP tunnel gets a listener that accepts, whenever the process died.
EveryTunnelServed ==
  \A t \in Ports : Exists(db, t) ~> (t \in accepting \/ ~Exists(db, t))
=============================================================================

-------------------------------- MODULE Api --------------------------------
(***************************************************************************)
(* What the clients of the API see: src/api/handlers.go behind             *)
(* AuthMiddleware and RateLimitMiddleware of src/api/middleware.go.        *)
(*                                                                         *)
(* A handler calls TunnelService and turns the text of its error into a    *)
(* status by searching it for words; what the words are is all that is     *)
(* kept of a text.  Some errors are Redis's own, and their texts too.      *)
(***************************************************************************)
EXTENDS TunnelService

VARIABLES
  reply,   \* reply[p]: the answer to the last request of p
  wrote,   \* history: whether that request changed a record or a listener
  resent   \* history: whether one of its commands was sent again

apiVars == <<vars, reply, wrote, resent>>

-----------------------------------------------------------------------------
(* From an error to a status.                                              *)

\* The words of each error's text that some handler searches for.  A command
\* that got no reply ("lost") fails with a timeout or a closed connection;
\* Redis refuses one with "OOM command not allowed when used memory >
\* 'maxmemory'" or "WRONGPASS invalid username-password pair".
Says ==
  [duration |-> {"invalid", "invalid duration"},
   ip |-> {"invalid", "invalid IP"},
   subdomain |-> {"invalid", "invalid subdomain"},
   port |-> {"not allowed"},
   limit |-> {"maximum tunnel limit"},
   names |-> {},
   ports |-> {"no available ports"},
   absent |-> {"not found"},
   unlimited |-> {"already unlimited"},
   exceeds |-> {"invalid", "would exceed"},
   expired |-> {"already expired"},
   listen |-> {"already in use"},
   lost |-> {}, oom |-> {"not allowed"}, wrongpass |-> {"invalid"}]

\* Mutant of FullWords: a listener that cannot be started means a full range.
FullWordsBusy == {"no available ports", "already in use"}

\* The words for a port range in which no free port was found.
FullWords == {"no available ports"}

\* Mutant of ExtendWords: a text has changed, and the search has not.
ExtendWordsStale == {"invalid", "already unlimited", "has ended", "would exceed"}

\* The words for an extension that is refused.
ExtendWords == {"invalid", "already unlimited", "already expired", "would exceed"}

\* The searches of each handler, in their order, and the status of a hit.
Rules ==
  LET create == {"invalid duration", "maximum tunnel limit", "invalid IP"}
  IN  [create_http |-> <<<<create, 400>>>>,
       create_tcp |-> <<<<create \cup {"not allowed"}, 400>>, <<FullWords, 503>>>>,
       extend |-> <<<<{"not found"}, 404>>, <<ExtendWords, 400>>>>,
       delete |-> <<<<{"not found"}, 404>>, <<{"invalid subdomain"}, 400>>>>]

StatusOf(act, e) ==
  LET rules == Rules[act]
      hits == {i \in DOMAIN rules : rules[i][1] \cap Says[e] # {}}
      first == CHOOSE i \in hits : \A j \in hits : i <= j
  IN  IF e = "ok" THEN IF act \in Creates THEN 201 ELSE 200
      ELSE IF hits = {} THEN 500 ELSE rules[first][2]

\* Before any of that: the key, the rate limit, and what a handler checks by
\* itself (the JSON body, its required fields, the form of a port).
Gate(key, above, body) ==
  IF key = "missing" THEN 401
  ELSE IF key = "wrong" THEN 403
  ELSE IF above THEN 429
  ELSE IF body = "bad" THEN 400 ELSE 200

-----------------------------------------------------------------------------
(* Requests and their answers.                                             *)

NoReply == [code |-> 0, act |-> "none", err |-> "none", key |-> NoKey,
            rec |-> NoRecord]

\* Only a success shows the client a tunnel.
Answered(act, e, code, o) ==
  [code |-> code, act |-> act, err |-> e, key |-> o.key,
   rec |-> IF e = "ok" THEN o.rec ELSE NoRecord]

ApiInit ==
  /\ Init
  /\ reply = [p \in Proc |-> NoReply]
  /\ wrote = [p \in Proc |-> FALSE] /\ resent = [p \in Proc |-> FALSE]

\* A request about key k that is refused before it does anything.
Refused(p, act, k, e, code) ==
  /\ At(p, "idle")
  /\ reply' = [reply EXCEPT ![p] = Answered(act, e, code, [Idle EXCEPT !.key = k])]
  /\ wrote' = [wrote EXCEPT ![p] = FALSE] /\ resent' = [resent EXCEPT ![p] = FALSE]
  /\ UNCHANGED vars

GateRefuses(p) ==
  LET codes == {Gate(key, above, body) : key \in {"missing", "wrong", "good"},
                                         above \in BOOLEAN, body \in {"bad", "good"}}
  IN  \E code \in codes \ {200} : Refused(p, "none", NoKey, "gate", code)

\* The service refuses the arguments, or its first command fails.
Declined(p, act, k, e) == Refused(p, act, k, e, StatusOf(act, e))

RedisErrors == {"lost", "oom", "wrongpass"}

CreateDeclined(p, act) ==
  \/ \E e \in {"ip"} \cup RedisErrors : Declined(p, act, NoKey, e)
  \/ \E d \in Requested : ~DurationAllowed(d) /\ Declined(p, act, NoKey, "duration")
  \/ act = "create_tcp" /\ Declined(p, act, NoKey, "port")
  \/ /\ act = "create_http" /\ CountKeys(db, Subdomains) >= MaxTunnels
     /\ Declined(p, act, NoKey, "limit")

\* An extension or a deletion of k, which has no valid name or is no tunnel's.
ChangeDeclined(p, act, k) ==
  \/ \E e \in {"subdomain"} \cup RedisErrors : Declined(p, act, NoKey, e)
  \/ ~Exists(db, k) /\ Declined(p, act, k, "absent")

\* The reply to a SET or a DEL was lost, and the command goes out once more.
Resends(p) == op[p].pc \in {"store", "delete"} /\ op'[p].pc = op[p].pc

\* The step A of request p.  If the request is over, its service method has
\* returned e, and the handler answers.
Handled(p, A, e) ==
  /\ A
  /\ reply' = [reply EXCEPT ![p] =
       IF op'[p] # Idle THEN NoReply
       ELSE Answered(op[p].act, e, StatusOf(op[p].act, e), op[p])]
  /\ wrote' = [wrote EXCEPT ![p] =
       (@ /\ ~At(p, "idle")) \/ db' # db \/ listeners' # listeners]
  /\ resent' = [resent EXCEPT ![p] = (@ /\ ~At(p, "idle")) \/ Resends(p)]

\* Why an extension is refused: the checks in their order.
ExtensionError(p) ==
  LET r == op[p].rec
  IN  IF r.dur = Unlimited THEN "unlimited"
      ELSE IF MaxDuration # Unlimited
                /\ NewEnd(r, op[p].min) > r.created + Span(MaxDuration)
           THEN "exceeds" ELSE "expired"

\* What the service method returns if its next step is its last.
Outcome(p) ==
  CASE op[p].pc = "count" -> "limit"
    [] op[p].pc = "pick" /\ op[p].act = "create_http" -> "names"
    [] op[p].pc = "pick" /\ op[p].act = "create_tcp" -> "ports"
    [] op[p].pc = "stamp" /\ op[p].act = "extend" -> ExtensionError(p)
    [] op[p].pc = "rollback" -> "listen"
    [] OTHER -> "ok"

ApiRequest(p) ==
  \/ Handled(p, Request(p, Keys), "ok")
  \/ Handled(p, \E d \in Requested : CreateTunnel(p, d), "ok")
  \/ GateRefuses(p)
  \/ \E act \in Creates : CreateDeclined(p, act)
  \/ \E act \in {"extend", "delete"}, k \in Keys : ChangeDeclined(p, act, k)

ApiProgress(p) == Handled(p, Progress(p), Outcome(p))

ApiFailure(p) ==
  \/ Handled(p, StoreLost(p) \/ DeleteLost(p), "lost")
  \/ Handled(p, ListenFails(p), "listen")
  \/ \E e \in RedisErrors : Handled(p, RedisError(p), e)

ApiNext ==
  \/ \E p \in Proc : ApiRequest(p) \/ ApiProgress(p) \/ ApiFailure(p)
  \/ (Tick \/ \E k \in Keys : Evict(k)) /\ UNCHANGED <<reply, wrote, resent>>

ApiSpec == ApiInit /\ [][ApiNext]_apiVars

ApiFairSpec == ApiSpec /\ \A p \in Proc : WF_apiVars(ApiProgress(p))

-----------------------------------------------------------------------------
(* Properties.                                                             *)

\* A client that is told its request was wrong, or that there is no room, may
\* take it as not having happened: the request changed neither a record nor a
\* listener.  Except when a command was sent again: Redis may have executed it
\* the first time and refused it, in words a handler searches for, the second.
NoEffectBehindRefusal ==
  \A p \in Proc :
    reply[p].code \in (400 .. 499) \cup {503} /\ ~resent[p] => ~wrote[p]

\* A client that is told it succeeded can rely on it until the next request:
\* what Redis has under the key, unless it dropped it, is what the client was
\* shown, a TCP tunnel has its listener, and a deleted one, or one that was
\* not there to be deleted, is not there.
ConfirmedStands ==
  \A p \in Proc :
    LET r == reply[p]
    IN  /\ r.code \in {200, 201} /\ r.act # "delete" =>
             /\ r.key \in DOMAIN db => db[r.key].val = r.rec
             /\ r.act = "create_tcp" => r.key \in listeners
        /\ r.act = "delete" /\ r.code \in {200, 404} => r.key \notin DOMAIN db

\* The status docs/API_REFERENCE.md gives for each error: no such tunnel, an
\* argument or a state the request does not go with, and for the rest its
\* "Unexpected failure".  The TCP endpoints follow the patterns of the others.
Documented ==
  [e \in DOMAIN Says |->
     CASE e = "absent" -> 404
       [] e \in {"names", "ports", "listen"} \cup RedisErrors -> 500
       [] OTHER -> 400]

\* The three answers that are not as documented: a full port range is a 503, and
\* two texts of Redis's own contain words that a handler searches for.
Undocumented ==
  {<<"create_tcp", "ports">>, <<"create_tcp", "oom">>, <<"extend", "wrongpass">>}

\* On every path that leads to it an error gets the status its documentation
\* says, with those three exceptions and no other.
StatusDocumented ==
  \A p \in Proc :
    reply[p].err \in DOMAIN Says =>
      (reply[p].code = Documented[reply[p].err]
         <=> <<reply[p].act, reply[p].err>> \notin Undocumented)
=============================================================================

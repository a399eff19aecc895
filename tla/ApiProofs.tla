----------------------------- MODULE ApiProofs -----------------------------
(***************************************************************************)
(* What the API answers, and what stands behind an answer.  The first half *)
(* holds however many requests run: the search for words in the text of an *)
(* error gives every error of the service its documented status, with the  *)
(* exceptions it lists, and a request that has written something is past   *)
(* every refusal, or has sent a command again.  The second half is about   *)
(* requests that come one at a time: then a request finds the record as it *)
(* read it, the service is the registry its documentation describes, and   *)
(* what a client was told stands until the next request.                   *)
(***************************************************************************)
EXTENDS Api, TunnelServiceProofs

-----------------------------------------------------------------------------
(* From an error to a status.                                              *)

\* A handler with one search.
LEMMA OneRule ==
  ASSUME NEW act, NEW W, NEW c, NEW e, Rules[act] = <<<<W, c>>>>, e # "ok"
  PROVE  StatusOf(act, e) = IF W \cap Says[e] # {} THEN c ELSE 500
<1> DEFINE rules == Rules[act]
           hits == {i \in DOMAIN rules : rules[i][1] \cap Says[e] # {}}
           first == CHOOSE i \in hits : \A j \in hits : i <= j
<1>1. DOMAIN rules = {1} /\ rules[1][1] = W /\ rules[1][2] = c
  OBVIOUS
<1>2. hits = IF W \cap Says[e] # {} THEN {1} ELSE {}
  BY <1>1
<1>3. StatusOf(act, e) = IF hits = {} THEN 500 ELSE rules[first][2]
  BY DEF StatusOf
<1>4. ASSUME hits = {1} PROVE first = 1
  BY <1>4
<1> HIDE DEF rules, hits, first
<1> QED BY <1>1, <1>2, <1>3, <1>4

\* A handler with two searches: the first one that hits decides.
LEMMA TwoRules ==
  ASSUME NEW act, NEW V, NEW b, NEW W, NEW c, NEW e,
         Rules[act] = <<<<V, b>>, <<W, c>>>>, e # "ok"
  PROVE  StatusOf(act, e) = IF V \cap Says[e] # {} THEN b
                            ELSE IF W \cap Says[e] # {} THEN c ELSE 500
<1> DEFINE rules == Rules[act]
           hits == {i \in DOMAIN rules : rules[i][1] \cap Says[e] # {}}
           first == CHOOSE i \in hits : \A j \in hits : i <= j
<1>1. /\ DOMAIN rules = {1, 2} /\ rules[1][1] = V /\ rules[1][2] = b
      /\ rules[2][1] = W /\ rules[2][2] = c
  OBVIOUS
<1>2. (1 \in hits <=> V \cap Says[e] # {}) /\ (2 \in hits <=> W \cap Says[e] # {})
      /\ hits \subseteq {1, 2}
  BY <1>1
<1>3. StatusOf(act, e) = IF hits = {} THEN 500 ELSE rules[first][2]
  BY DEF StatusOf
<1>4. ASSUME 1 \in hits PROVE first = 1
  <2>1. 1 \in hits /\ \A j \in hits : 1 <= j
    BY <1>2, <1>4
  <2>2. \A i \in hits : (\A j \in hits : i <= j) => i = 1
    BY <1>2, <1>4
  <2> HIDE DEF hits
  <2> QED BY <2>1, <2>2
<1>5. ASSUME 1 \notin hits, 2 \in hits PROVE first = 2
  <2>1. hits = {2}
    BY <1>2, <1>5
  <2> HIDE DEF hits
  <2> QED BY <2>1
<1> HIDE DEF rules, hits, first
<1> QED BY <1>1, <1>2, <1>3, <1>4, <1>5

\* The texts, error by error.
LEMMA SaysTable ==
  /\ DOMAIN Says = {"duration", "ip", "subdomain", "port", "limit", "names", "ports", "absent",
                    "unlimited", "exceeds", "expired", "listen", "lost", "oom", "wrongpass"}
  /\ Says["duration"] = {"invalid", "invalid duration"}
  /\ Says["ip"] = {"invalid", "invalid IP"}
  /\ Says["subdomain"] = {"invalid", "invalid subdomain"}
  /\ Says["port"] = {"not allowed"}
  /\ Says["limit"] = {"maximum tunnel limit"}
  /\ Says["names"] = {}
  /\ Says["ports"] = {"no available ports"}
  /\ Says["absent"] = {"not found"}
  /\ Says["unlimited"] = {"already unlimited"}
  /\ Says["exceeds"] = {"invalid", "would exceed"}
  /\ Says["expired"] = {"already expired"}
  /\ Says["listen"] = {"already in use"}
  /\ Says["lost"] = {}
  /\ Says["oom"] = {"not allowed"}
  /\ Says["wrongpass"] = {"invalid"}
  BY DEF Says

\* A search hits if one of its words is said.
LEMMA Found ==
  ASSUME NEW W, NEW T
  PROVE  /\ W \cap T = {} <=> \A w \in T : w \notin W
         /\ W \cap T # {} <=> \E w \in T : w \in W
OBVIOUS

\* No error has a success's status, and no success another.
LEMMA SuccessIsOk ==
  /\ \A act \in Creates : StatusOf(act, "ok") = 201
  /\ StatusOf("extend", "ok") = 200 /\ StatusOf("delete", "ok") = 200
  BY DEF StatusOf, Creates

\* The statuses of a create.
LEMMA CreateHTTPStatus ==
  /\ \A e \in DOMAIN Says : StatusOf("create_http", e) \in {400, 500}
  /\ \A e \in {"ip", "duration", "limit"} : StatusOf("create_http", e) = 400
  /\ \A e \in {"names"} \cup RedisErrors : StatusOf("create_http", e) = 500
<1> DEFINE W == {"invalid duration", "maximum tunnel limit", "invalid IP"}
<1>1. Rules["create_http"] = <<<<W, 400>>>>
  BY DEF Rules
<1>2. \A e : e # "ok" => StatusOf("create_http", e) = IF W \cap Says[e] # {} THEN 400 ELSE 500
  <2> HIDE DEF W
  <2> QED BY <1>1, OneRule
<1>3. "ok" \notin DOMAIN Says
  BY DEF Says
<1>4. /\ \A e \in {"ip", "duration", "limit"} : W \cap Says[e] # {}
      /\ \A e \in {"names"} \cup RedisErrors : W \cap Says[e] = {}
  <2>1. \A e \in {"ip", "duration", "limit"} : \E w \in Says[e] : w \in W
    BY SaysTable
  <2>2. \A e \in {"names"} \cup RedisErrors : \A w \in Says[e] : w \notin W
    BY SaysTable DEF RedisErrors
  <2> HIDE DEF W
  <2> QED BY <2>1, <2>2, Found
<1>5. "ok" \notin RedisErrors
  BY DEF RedisErrors
<1> HIDE DEF W
<1> QED BY <1>2, <1>3, <1>4, <1>5

\* The statuses of a TCP create.
LEMMA CreateTCPStatus ==
  /\ \A e \in DOMAIN Says : StatusOf("create_tcp", e) \in {400, 500, 503}
  /\ \A e \in {"ip", "duration", "limit", "port", "oom"} : StatusOf("create_tcp", e) = 400
  /\ StatusOf("create_tcp", "ports") = 503
  /\ \A e \in {"listen", "lost", "wrongpass"} : StatusOf("create_tcp", e) = 500
<1> DEFINE V == {"invalid duration", "maximum tunnel limit", "invalid IP"}
                  \cup {"not allowed"}
<1>1. Rules["create_tcp"] = <<<<V, 400>>, <<FullWords, 503>>>>
  BY DEF Rules
<1>2. \A e : e # "ok" =>
        StatusOf("create_tcp", e) = IF V \cap Says[e] # {} THEN 400
                                    ELSE IF FullWords \cap Says[e] # {} THEN 503 ELSE 500
  <2> HIDE DEF V
  <2> QED BY <1>1, TwoRules
<1>3. "ok" \notin DOMAIN Says
  BY DEF Says
<1>4. /\ \A e \in {"ip", "duration", "limit", "port", "oom"} : V \cap Says[e] # {}
      /\ \A e \in {"ports", "listen", "lost", "wrongpass"} : V \cap Says[e] = {}
      /\ FullWords \cap Says["ports"] # {}
      /\ \A e \in {"listen", "lost", "wrongpass"} : FullWords \cap Says[e] = {}
  <2>1. \A e \in {"ip", "duration", "limit", "port", "oom"} : \E w \in Says[e] : w \in V
    BY SaysTable
  <2>2. \A e \in {"ports", "listen", "lost", "wrongpass"} : \A w \in Says[e] : w \notin V
    BY SaysTable
  <2>3. \E w \in Says["ports"] : w \in FullWords
    BY SaysTable DEF FullWords
  <2>4. \A e \in {"listen", "lost", "wrongpass"} : \A w \in Says[e] : w \notin FullWords
    BY SaysTable DEF FullWords
  <2> HIDE DEF V
  <2> QED BY <2>1, <2>2, <2>3, <2>4, Found
<1> HIDE DEF V
<1> QED BY <1>2, <1>3, <1>4

\* The statuses of an extension.
LEMMA ExtendStatus ==
  /\ \A e \in DOMAIN Says : StatusOf("extend", e) \in {400, 404, 500}
  /\ \A e \in {"subdomain", "unlimited", "exceeds", "expired", "wrongpass"} :
       StatusOf("extend", e) = 400
  /\ StatusOf("extend", "absent") = 404
  /\ \A e \in {"lost", "oom"} : StatusOf("extend", e) = 500
<1> DEFINE V == {"not found"}
           W == ExtendWords
<1>1. Rules["extend"] = <<<<V, 404>>, <<W, 400>>>>
  BY DEF Rules
<1>2. \A e : e # "ok" =>
        StatusOf("extend", e) = IF V \cap Says[e] # {} THEN 404
                                ELSE IF W \cap Says[e] # {} THEN 400 ELSE 500
  <2> HIDE DEF V, W
  <2> QED BY <1>1, TwoRules
<1>3. "ok" \notin DOMAIN Says
  BY DEF Says
<1>4. /\ \A e \in {"subdomain", "unlimited", "exceeds", "expired", "wrongpass"} :
           V \cap Says[e] = {} /\ W \cap Says[e] # {}
      /\ V \cap Says["absent"] # {}
      /\ \A e \in {"lost", "oom"} : V \cap Says[e] = {} /\ W \cap Says[e] = {}
  <2>1. \A e \in {"subdomain", "unlimited", "exceeds", "expired", "wrongpass"} :
          (\A w \in Says[e] : w \notin V) /\ (\E w \in Says[e] : w \in W)
    BY SaysTable DEF ExtendWords
  <2>2. /\ \E w \in Says["absent"] : w \in V
        /\ \A e \in {"lost", "oom"} : \A w \in Says[e] : w \notin V /\ w \notin W
    BY SaysTable DEF ExtendWords
  <2> HIDE DEF V, W
  <2> QED BY <2>1, <2>2, Found
<1> HIDE DEF V, W
<1> QED BY <1>2, <1>3, <1>4

\* The statuses of a deletion: 404 means that there was no tunnel.
LEMMA DeleteStatus ==
  /\ \A e \in DOMAIN Says : StatusOf("delete", e) \in {400, 404, 500}
  /\ \A e \in DOMAIN Says : StatusOf("delete", e) = 404 => e = "absent"
  /\ StatusOf("delete", "subdomain") = 400 /\ StatusOf("delete", "absent") = 404
  /\ \A e \in RedisErrors : StatusOf("delete", e) = 500
<1> DEFINE V == {"not found"}
           W == {"invalid subdomain"}
<1>1. Rules["delete"] = <<<<V, 404>>, <<W, 400>>>>
  BY DEF Rules
<1>2. \A e : e # "ok" =>
        StatusOf("delete", e) = IF V \cap Says[e] # {} THEN 404
                                ELSE IF W \cap Says[e] # {} THEN 400 ELSE 500
  <2> HIDE DEF V, W
  <2> QED BY <1>1, TwoRules
<1>3. "ok" \notin DOMAIN Says
  BY DEF Says
<1>4. /\ \A e \in DOMAIN Says : V \cap Says[e] # {} <=> e = "absent"
      /\ W \cap Says["subdomain"] # {}
      /\ \A e \in RedisErrors : W \cap Says[e] = {}
  <2>1. \A e \in DOMAIN Says \ {"absent"} : \A w \in Says[e] : w \notin V
    BY SaysTable
  <2>2. (\E w \in Says["absent"] : w \in V) /\ (\E w \in Says["subdomain"] : w \in W)
    BY SaysTable
  <2>3. \A e \in RedisErrors : \A w \in Says[e] : w \notin W
    BY SaysTable DEF RedisErrors
  <2> HIDE DEF V, W
  <2> QED BY <2>1, <2>2, <2>3, Found
<1> HIDE DEF V, W
<1>5. /\ {"subdomain", "absent"} \cup RedisErrors \subseteq DOMAIN Says
      /\ "absent" \notin RedisErrors
  BY SaysTable DEF RedisErrors
<1> QED BY <1>2, <1>3, <1>4, <1>5

\* The handler of act finds the status documented for error e, unless the pair
\* is one of the exceptions: then it finds another.
AsDocumented(act, e, code) == code = Documented[e] <=> <<act, e>> \notin Undocumented

StatusRight(act, e) == e \in DOMAIN Says => AsDocumented(act, e, StatusOf(act, e))

\* The documentation, error by error.
LEMMA DocumentedTable ==
  /\ Documented["absent"] = 404
  /\ \A e \in {"names", "ports", "listen"} \cup RedisErrors : Documented[e] = 500
  /\ \A e \in {"ip", "duration", "limit", "port", "subdomain", "unlimited", "exceeds",
               "expired"} : Documented[e] = 400
<1>1. /\ {"absent", "ports", "names", "listen"} \cup RedisErrors \subseteq DOMAIN Says
      /\ {"ip", "duration", "limit", "port", "subdomain", "unlimited", "exceeds", "expired"}
           \subseteq DOMAIN Says
  BY SaysTable DEF RedisErrors
<1>2. Documented["absent"] = 404
  BY <1>1 DEF Documented, RedisErrors
<1>3. ASSUME NEW e \in {"names", "ports", "listen"} \cup RedisErrors
      PROVE  Documented[e] = 500
  BY <1>1, <1>3 DEF Documented, RedisErrors
<1>4. ASSUME NEW e \in {"ip", "duration", "limit", "port", "subdomain", "unlimited",
                        "exceeds", "expired"}
      PROVE  Documented[e] = 400
  BY <1>1, <1>4 DEF Documented, RedisErrors
<1> QED BY <1>2, <1>3, <1>4

\* The exceptions, pair by pair.
LEMMA UndocumentedPairs ==
  ASSUME NEW act, NEW e
  PROVE  <<act, e>> \in Undocumented <=>
           \/ act = "create_tcp" /\ e \in {"ports", "oom"}
           \/ act = "extend" /\ e = "wrongpass"
BY DEF Undocumented

\* It does, wherever the service or a handler can return the error.
LEMMA StatusesRight ==
  /\ \A act \in Creates \cup {"extend", "delete"} :
       /\ \A e \in RedisErrors \cup {"ok"} : StatusRight(act, e)
       /\ StatusOf(act, "ok") \in {200, 201} /\ StatusOf(act, "lost") = 500
  /\ \A e \in {"ip", "duration", "limit", "names"} : StatusRight("create_http", e)
  /\ \A e \in {"ip", "duration", "limit", "port", "ports", "listen"} :
       StatusRight("create_tcp", e)
  /\ \A e \in {"subdomain", "unlimited", "exceeds", "expired", "absent"} :
       StatusRight("extend", e)
  /\ \A e \in {"subdomain", "absent"} : StatusRight("delete", e)
<1>1. "ok" \notin DOMAIN Says
  BY SaysTable
<1>2. \A act \in Creates \cup {"extend", "delete"} :
        StatusOf(act, "ok") \in {200, 201} /\ StatusOf(act, "lost") = 500
  BY SuccessIsOk, CreateHTTPStatus, CreateTCPStatus, ExtendStatus, DeleteStatus
     DEF Creates, RedisErrors
<1>3. ASSUME NEW e \in {"ip", "duration", "limit", "names"} \cup RedisErrors
      PROVE  StatusRight("create_http", e)
  BY <1>3, DocumentedTable, UndocumentedPairs, CreateHTTPStatus
     DEF StatusRight, AsDocumented, RedisErrors
<1>4. ASSUME NEW e \in {"ip", "duration", "limit", "port", "ports", "listen"} \cup RedisErrors
      PROVE  StatusRight("create_tcp", e)
  BY <1>4, DocumentedTable, UndocumentedPairs, CreateTCPStatus
     DEF StatusRight, AsDocumented, RedisErrors
<1>5. ASSUME NEW e \in {"subdomain", "unlimited", "exceeds", "expired", "absent"}
                         \cup RedisErrors
      PROVE  StatusRight("extend", e)
  BY <1>5, DocumentedTable, UndocumentedPairs, ExtendStatus
     DEF StatusRight, AsDocumented, RedisErrors
<1>6. ASSUME NEW e \in {"subdomain", "absent"} \cup RedisErrors
      PROVE  StatusRight("delete", e)
  BY <1>6, DocumentedTable, UndocumentedPairs, DeleteStatus
     DEF StatusRight, AsDocumented, RedisErrors
<1>7. \A act : StatusRight(act, "ok")
  BY <1>1 DEF StatusRight
<1>8. \A act \in Creates \cup {"extend", "delete"}, e \in RedisErrors \cup {"ok"} :
        StatusRight(act, e)
  BY <1>3, <1>4, <1>5, <1>6, <1>7 DEF Creates
<1> QED BY <1>2, <1>3, <1>4, <1>5, <1>6, <1>8

-----------------------------------------------------------------------------
(* Requests that run concurrently.                                         *)

\* A request at o that has, or has not, written something (w) and sent a command
\* again (s).
TraceOK(o, w, s) ==
  /\ o.pc \in {"delete", "stop"} => o.act = "delete"
  /\ o.pc \in {"count", "pick", "stamp"} => ~w
  /\ o.pc \in {"store", "delete"} /\ w => s

\* A reply r to such a request.
ReplyOK(r, w, s) ==
  /\ r.code \in (400 .. 499) \cup {503} /\ ~s => ~w
  /\ r.err \in DOMAIN Says => AsDocumented(r.act, r.err, r.code)

AnswerInd ==
  /\ Ind
  /\ reply = [p \in Proc |-> reply[p]]
  /\ wrote \in [Proc -> BOOLEAN] /\ resent \in [Proc -> BOOLEAN]
  /\ \A p \in Proc : /\ TraceOK(op[p], wrote[p], resent[p])
                     /\ ReplyOK(reply[p], wrote[p], resent[p])

\* What Handled makes of wrote[p] and of resent[p].
Touched(p) == (wrote[p] /\ ~At(p, "idle")) \/ db' # db \/ listeners' # listeners
Sent(p) == (resent[p] /\ ~At(p, "idle")) \/ Resends(p)

\* The answer to a request whose service method returned e.
AnswerTo(p, e) == Answered(op[p].act, e, StatusOf(op[p].act, e), op[p])

Turned(p, e) ==
  /\ reply' = [reply EXCEPT ![p] = IF op'[p] # Idle THEN NoReply ELSE AnswerTo(p, e)]
  /\ wrote' = [wrote EXCEPT ![p] = Touched(p)]
  /\ resent' = [resent EXCEPT ![p] = Sent(p)]

\* Until there is an answer, there is nothing to check in it.
LEMMA NoReplyOK == ASSUME NEW w, NEW s PROVE ReplyOK(NoReply, w, s)
<1>1. NoReply.code = 0 /\ NoReply.err = "none"
  BY DEF NoReply
<1>2. 0 \notin (400 .. 499) \cup {503}
  OBVIOUS
<1>3. "none" \notin DOMAIN Says
  BY SaysTable
<1> QED BY <1>1, <1>2, <1>3 DEF ReplyOK

\* An answer is right if its status is, and if it reports a success or a 500,
\* or answers a request that wrote nothing or sent a command again.
LEMMA AnswerRight ==
  ASSUME NEW p, NEW e, NEW w, NEW s, StatusRight(op[p].act, e),
         w => StatusOf(op[p].act, e) \in {200, 201, 500} \/ s
  PROVE  ReplyOK(AnswerTo(p, e), w, s)
<1> DEFINE r == AnswerTo(p, e)
<1>1. r.code = StatusOf(op[p].act, e) /\ r.err = e /\ r.act = op[p].act
  BY DEF AnswerTo, Answered
<1> HIDE DEF r
<1>2. \A c \in {200, 201, 500} : c \notin (400 .. 499) \cup {503}
  OBVIOUS
<1>3. ASSUME w, r.code \in (400 .. 499) \cup {503}, ~s PROVE FALSE
  <2>1. StatusOf(op[p].act, e) \notin {200, 201, 500}
    BY <1>1, <1>2, <1>3
  <2> QED BY <1>3, <2>1
<1>4. r.err \in DOMAIN Says => AsDocumented(r.act, r.err, r.code)
  BY <1>1 DEF StatusRight
<1>5. ReplyOK(r, w, s)
  BY <1>3, <1>4, Zenon DEF ReplyOK
<1> QED BY <1>5 DEF r

\* A step of request p that keeps the other requests as they are.
LEMMA Turn ==
  ASSUME AnswerInd, Ind', NEW p \in Proc, NEW e, Turned(p, e),
         \A q \in Proc \ {p} : op'[q] = op[q],
         TraceOK(op'[p], Touched(p), Sent(p)),
         op'[p] = Idle => ReplyOK(AnswerTo(p, e), Touched(p), Sent(p))
  PROVE  AnswerInd'
<1> DEFINE r == IF op'[p] # Idle THEN NoReply ELSE AnswerTo(p, e)
           w == Touched(p)
           s == Sent(p)
<1>1. /\ reply' = [reply EXCEPT ![p] = r] /\ wrote' = [wrote EXCEPT ![p] = w]
      /\ resent' = [resent EXCEPT ![p] = s]
  BY DEF Turned
<1>2. w \in BOOLEAN /\ s \in BOOLEAN
  BY DEF Touched, Sent
<1>3. ReplyOK(r, w, s)
  BY NoReplyOK
<1>4. TraceOK(op'[p], w, s)
  OBVIOUS
<1> HIDE DEF r, w, s
<1>5. reply'[p] = r /\ \A q \in Proc \ {p} : reply'[q] = reply[q]
  BY <1>1 DEF AnswerInd
<1>6. /\ wrote' \in [Proc -> BOOLEAN] /\ wrote'[p] = w
      /\ \A q \in Proc \ {p} : wrote'[q] = wrote[q]
  BY <1>1, <1>2 DEF AnswerInd
<1>7. /\ resent' \in [Proc -> BOOLEAN] /\ resent'[p] = s
      /\ \A q \in Proc \ {p} : resent'[q] = resent[q]
  BY <1>1, <1>2 DEF AnswerInd
<1>8. reply' = [q \in Proc |-> reply'[q]]
  BY <1>1 DEF AnswerInd
<1>9. ASSUME NEW q \in Proc
      PROVE  /\ TraceOK(op'[q], wrote'[q], resent'[q])
             /\ ReplyOK(reply'[q], wrote'[q], resent'[q])
  <2>1. CASE q = p
    BY <1>3, <1>4, <1>5, <1>6, <1>7, <2>1
  <2>2. CASE q # p
    BY <1>5, <1>6, <1>7, <2>2 DEF AnswerInd
  <2> QED BY <2>1, <2>2
<1> QED BY <1>6, <1>7, <1>8, <1>9 DEF AnswerInd

\* Where a request is after its step.
LEMMA FinishMoves ==
  ASSUME Ind, NEW p \in Proc, Finish(p)
  PROVE  op'[p] = Idle /\ \A q \in Proc \ {p} : op'[q] = op[q]
  BY DEF Finish, Ind, OpsOK

\* The same of a request that goes on.
LEMMA GotoMoves ==
  ASSUME Ind, NEW p \in Proc, NEW pc, Goto(p, pc)
  PROVE  /\ op'[p].pc = pc /\ op'[p].act = op[p].act /\ op'[p].key = op[p].key
         /\ op'[p].rec = op[p].rec /\ op'[p].n = 0
         /\ \A q \in Proc \ {p} : op'[q] = op[q]
<1>1. op[p] \in Operation
  BY DEF Ind, OpsOK, RequestOK
<1>2. op'[p] = [op[p] EXCEPT !.pc = pc, !.n = 0] /\ \A q \in Proc \ {p} : op'[q] = op[q]
  BY DEF Goto, Ind, OpsOK
<1> QED BY <1>1, <1>2 DEF Operation

\* The same of a request that tries again.
LEMMA AgainMoves ==
  ASSUME Ind, NEW p \in Proc, Again(p)
  PROVE  /\ op'[p].pc = op[p].pc /\ op'[p].act = op[p].act /\ op'[p].key = op[p].key
         /\ op'[p].rec = op[p].rec /\ op'[p].n = op[p].n + 1 /\ op[p].n \in Nat
         /\ \A q \in Proc \ {p} : op'[q] = op[q]
<1>1. op[p] \in Operation
  BY DEF Ind, OpsOK, RequestOK
<1>2. op'[p] = [op[p] EXCEPT !.n = @ + 1] /\ \A q \in Proc \ {p} : op'[q] = op[q]
  BY DEF Again, Ind, OpsOK
<1> QED BY <1>1, <1>2 DEF Operation

\* The same of a request that begins.
LEMMA BeginMoves ==
  ASSUME Ind, NEW p \in Proc, NEW o, Begin(p, o)
  PROVE  op'[p] = o /\ \A q \in Proc \ {p} : op'[q] = op[q]
  BY DEF Begin, Ind, OpsOK

\* A request that begins has written nothing.
LEMMA BeginAnswer ==
  ASSUME AnswerInd, NEW p \in Proc, Turned(p, "ok"),
         Request(p, Keys) \/ \E d \in Requested : CreateTunnel(p, d)
  PROVE  AnswerInd'
<1>1. Ind /\ Ind'
  <2>1. Next
    BY DEF Next
  <2> QED BY <2>1, IndNext DEF AnswerInd
<1>2. UNCHANGED <<db, listeners>> /\ At(p, "idle")
  BY DEF Request, CreateTunnel, CreateTCPTunnel, ExtendTunnel, DeleteTunnel
<1>3. ~Touched(p)
  BY <1>2 DEF Touched
<1>4. ASSUME NEW pc, NEW act, NEW k, NEW d, NEW r, NEW n, Begin(p, Begun(pc, act, k, d, r, n)),
             pc \in {"count", "pick", "stamp", "delete"}, pc = "delete" => act = "delete"
      PROVE  /\ op'[p].pc \in {"count", "pick", "stamp", "delete"}
             /\ op'[p].pc = "delete" => op'[p].act = "delete"
             /\ \A q \in Proc \ {p} : op'[q] = op[q]
  BY <1>1, <1>4, BeginMoves DEF Begun
<1>5. /\ op'[p].pc \in {"count", "pick", "stamp", "delete"}
      /\ op'[p].pc = "delete" => op'[p].act = "delete"
      /\ \A q \in Proc \ {p} : op'[q] = op[q]
  BY <1>4 DEF Request, CreateTunnel, CreateTCPTunnel, ExtendTunnel, DeleteTunnel
<1>6. op'[p] # Idle
  BY <1>5 DEF Idle, Begun
<1>7. TraceOK(op'[p], Touched(p), Sent(p))
  BY <1>3, <1>5 DEF TraceOK
<1> QED BY <1>1, <1>5, <1>6, <1>7, Turn

\* What Ind says of the acts.
LEMMA ActsAt ==
  ASSUME AnswerInd, NEW p \in Proc
  PROVE  /\ op[p].pc = "count" => op[p].act = "create_tcp"
         /\ op[p].pc = "pick" => op[p].act \in Creates
         /\ op[p].pc \in {"store", "start", "rollback"}
              => op[p].act \in Creates \cup {"extend"}
         /\ op[p].pc \in {"start", "rollback"} => op[p].act = "create_tcp"
         /\ op[p].pc \in {"delete", "stop"} => op[p].act = "delete"
         /\ op[p].pc \in {"count", "pick", "stamp"} => ~wrote[p]
         /\ op[p].pc \in {"store", "delete"} /\ wrote[p] => resent[p]
  BY DEF AnswerInd, TraceOK, Ind, OpsOK, RequestOK

\* A step of a request that has not got as far as a write.
LEMMA SearchAnswer ==
  ASSUME AnswerInd, NEW p \in Proc, NEW e, Turned(p, e), Ind', UNCHANGED <<db, listeners>>,
         op[p].pc \in {"count", "pick", "stamp"},
         \A q \in Proc \ {p} : op'[q] = op[q],
         \/ op'[p].pc \in {"pick", "stamp", "store"}
         \/ op'[p] = Idle /\ StatusRight(op[p].act, e)
  PROVE  AnswerInd'
<1>1. ~Touched(p)
  BY ActsAt DEF Touched
<1>2. op'[p].pc \notin {"delete", "stop"}
  BY DEF Idle, Begun
<1>3. TraceOK(op'[p], Touched(p), Sent(p))
  BY <1>1, <1>2 DEF TraceOK
<1>4. ASSUME op'[p] = Idle PROVE StatusRight(op[p].act, e)
  BY <1>4 DEF Idle, Begun
<1>5. op'[p] = Idle => ReplyOK(AnswerTo(p, e), Touched(p), Sent(p))
  BY <1>1, <1>4, AnswerRight
<1> QED BY <1>3, <1>5, Turn

\* The count, the search for a key and the two stamps end a request with an
\* error that is the client's, or a lack of names or ports.
LEMMA SearchesAnswer ==
  ASSUME AnswerInd, NEW p \in Proc, Turned(p, Outcome(p)),
         \/ CountTCP(p) \/ (\E k \in Keys : PickFree(p, k) \/ PickTaken(p, k))
         \/ StampNew(p) \/ StampExtension(p)
  PROVE  AnswerInd'
<1>1. Ind /\ Ind'
  <2>1. Next
    BY DEF Next, Progress
  <2> QED BY <2>1, IndNext DEF AnswerInd
<1>2. UNCHANGED <<db, listeners>>
  BY DEF CountTCP, PickFree, PickTaken, StampNew, StampExtension
<1>3. op[p] \in Operation /\ op = [q \in Proc |-> op[q]]
  BY <1>1 DEF Ind, OpsOK, RequestOK
<1>4. CASE CountTCP(p)
  <2>1. op[p].pc = "count" /\ op[p].act = "create_tcp"
    BY <1>4, ActsAt DEF CountTCP, At
  <2>2. Outcome(p) = "limit"
    BY <2>1 DEF Outcome
  <2>3. StatusRight(op[p].act, Outcome(p))
    BY <2>1, <2>2, StatusesRight
  <2> QED BY <1>1, <1>2, <1>4, <2>1, <2>3, FinishMoves, GotoMoves, SearchAnswer DEF CountTCP
<1>5. ASSUME NEW k \in Keys, PickFree(p, k) PROVE AnswerInd'
  <2>1. /\ op[p].pc = "pick"
        /\ op' = [op EXCEPT ![p] = [op[p] EXCEPT !.pc = "stamp", !.key = k, !.n = 0]]
    BY <1>3, <1>5 DEF PickFree, At
  <2>2. op'[p].pc = "stamp" /\ \A q \in Proc \ {p} : op'[q] = op[q]
    BY <1>3, <2>1 DEF Operation
  <2> QED BY <1>1, <1>2, <2>1, <2>2, SearchAnswer
<1>6. ASSUME NEW k \in Keys, PickTaken(p, k) PROVE AnswerInd'
  <2>1. op[p].pc = "pick" /\ op[p].act \in Creates
    BY <1>6, ActsAt DEF PickTaken, At
  <2>2. Outcome(p) = IF op[p].act = "create_http" THEN "names" ELSE "ports"
    BY <2>1 DEF Outcome, Creates
  <2>3. StatusRight(op[p].act, Outcome(p))
    BY <2>1, <2>2, StatusesRight DEF Creates
  <2> QED BY <1>1, <1>2, <1>6, <2>1, <2>3, FinishMoves, AgainMoves, SearchAnswer
          DEF PickTaken
<1>7. CASE StampNew(p)
  <2> DEFINE r == NewRecord(nextId, op[p].min, now)
             ttl == TTLOf(op[p].min)
  <2>1. /\ op[p].pc = "stamp"
        /\ op' = [op EXCEPT ![p] = [op[p] EXCEPT !.pc = "store", !.rec = r, !.ttl = ttl]]
    BY <1>3, <1>7 DEF StampNew, At
  <2> HIDE DEF r, ttl
  <2>2. op'[p].pc = "store" /\ \A q \in Proc \ {p} : op'[q] = op[q]
    BY <1>3, <2>1 DEF Operation
  <2> QED BY <1>1, <1>2, <2>1, <2>2, SearchAnswer
<1>8. CASE StampExtension(p)
  <2>1. op[p].pc = "stamp" /\ op[p].act = "extend"
    BY <1>8 DEF StampExtension, At
  <2>2. CASE ExtensionAllowed(op[p].rec, op[p].min, now)
    <3> DEFINE r == Extended(op[p].rec, op[p].min)
               ttl == NewEnd(op[p].rec, op[p].min) - now
    <3>1. op' = [op EXCEPT ![p] = [op[p] EXCEPT !.pc = "store", !.rec = r, !.ttl = ttl]]
      BY <1>3, <1>8, <2>2 DEF StampExtension
    <3> HIDE DEF r, ttl
    <3>2. op'[p].pc = "store" /\ \A q \in Proc \ {p} : op'[q] = op[q]
      BY <1>3, <3>1 DEF Operation
    <3> QED BY <1>1, <1>2, <2>1, <3>2, SearchAnswer
  <2>3. CASE ~ExtensionAllowed(op[p].rec, op[p].min, now)
    <3>1. Outcome(p) \in {"unlimited", "exceeds", "expired"}
      BY <2>1 DEF Outcome, ExtensionError
    <3>2. StatusRight(op[p].act, Outcome(p))
      BY <2>1, <3>1, StatusesRight
    <3>3. Finish(p)
      BY <1>8, <2>3 DEF StampExtension
    <3> QED BY <1>1, <1>2, <2>1, <3>2, <3>3, FinishMoves, SearchAnswer
  <2> QED BY <2>2, <2>3
<1> QED BY <1>4, <1>5, <1>6, <1>7, <1>8

\* A step of a request that may write: it ends with a success, with a 500 or,
\* if a command was sent again, with any status; or it goes on to a place that
\* only these lead away from.
LEMMA WriteAnswer ==
  ASSUME AnswerInd, NEW p \in Proc, NEW e, Turned(p, e), Ind',
         op[p].pc \in {"store", "start", "rollback", "delete", "stop"},
         \A q \in Proc \ {p} : op'[q] = op[q],
         e \in RedisErrors \cup {"ok"} \/ (op[p].act = "create_tcp" /\ e = "listen"),
         \/ op'[p].pc \in {"start", "rollback"}
         \/ op'[p].pc = "stop" /\ op'[p].act = "delete"
         \/ op'[p].pc = op[p].pc /\ op'[p].act = op[p].act
         \/ /\ op'[p] = Idle
            /\ e \in {"ok", "lost", "listen"}
                 \/ (UNCHANGED <<db, listeners>> /\ op[p].pc \in {"store", "delete"})
  PROVE  AnswerInd'
<1>1. op[p].act \in Creates \cup {"extend", "delete"}
  BY ActsAt
<1>2. TraceOK(op'[p], Touched(p), Sent(p))
  <2>1. CASE op'[p].pc \in {"start", "rollback"}
    BY <2>1 DEF TraceOK
  <2>2. CASE op'[p].pc = "stop" /\ op'[p].act = "delete"
    BY <2>2 DEF TraceOK
  <2>3. CASE op'[p].pc = op[p].pc /\ op'[p].act = op[p].act
    BY <2>3, ActsAt DEF TraceOK, Sent, Resends
  <2>4. CASE op'[p] = Idle
    BY <2>4 DEF TraceOK, Idle, Begun
  <2> QED BY <2>1, <2>2, <2>3, <2>4
<1>3. StatusRight(op[p].act, e)
  <2>1. \A act \in Creates \cup {"extend", "delete"} :
          \A x \in RedisErrors \cup {"ok"} : StatusRight(act, x)
    BY StatusesRight
  <2>2. StatusRight("create_tcp", "listen")
    BY StatusesRight
  <2> QED BY <1>1, <2>1, <2>2
<1>4. ASSUME op'[p] = Idle PROVE ReplyOK(AnswerTo(p, e), Touched(p), Sent(p))
  <2>1. e \in {"ok", "lost", "listen"}
          \/ (UNCHANGED <<db, listeners>> /\ op[p].pc \in {"store", "delete"})
    BY <1>4 DEF Idle, Begun
  <2>2. CASE e \in {"ok", "lost", "listen"}
    <3>1. StatusOf(op[p].act, e) \in {200, 201, 500}
      BY <1>1, <2>2, StatusesRight, CreateTCPStatus DEF RedisErrors
    <3> QED BY <1>3, <3>1, AnswerRight
  <2>3. CASE UNCHANGED <<db, listeners>> /\ op[p].pc \in {"store", "delete"}
    <3>1. Touched(p) => Sent(p)
      BY <2>3, ActsAt DEF Touched, Sent, At
    <3> QED BY <1>3, <3>1, AnswerRight
  <2> QED BY <2>1, <2>2, <2>3
<1> QED BY <1>2, <1>4, Turn

\* The writes, the listener and what follows them.
LEMMA WritesAnswer ==
  ASSUME AnswerInd, NEW p \in Proc, Turned(p, Outcome(p)),
         Store(p) \/ StartProxy(p) \/ Rollback(p) \/ Delete(p) \/ StopProxy(p)
  PROVE  AnswerInd'
<1>1. Ind /\ Ind'
  <2>1. Next
    BY DEF Next, Progress
  <2> QED BY <2>1, IndNext DEF AnswerInd
<1>2. op[p].pc \in {"store", "start", "rollback", "delete", "stop"}
  BY DEF Store, StartProxy, Rollback, Delete, StopProxy, At
<1>3. Outcome(p) = IF op[p].pc = "rollback" THEN "listen" ELSE "ok"
  BY <1>2 DEF Outcome
<1>4. op[p].pc = "rollback" => op[p].act = "create_tcp"
  BY ActsAt
<1>5. Delete(p) => op[p].act = "delete"
  BY ActsAt DEF Delete, At
<1>6. Finish(p) \/ Goto(p, "start") \/ (Goto(p, "stop") /\ op[p].act = "delete")
  BY <1>5 DEF Store, StartProxy, Rollback, Delete, StopProxy
<1> QED BY <1>1, <1>2, <1>3, <1>4, <1>6, FinishMoves, GotoMoves, WriteAnswer

\* Commands that fail or get no reply, and listeners that cannot be opened.
LEMMA FailureAnswer ==
  ASSUME AnswerInd, NEW p \in Proc, NEW e, Turned(p, e),
         \/ (StoreLost(p) \/ DeleteLost(p)) /\ e = "lost"
         \/ ListenFails(p) /\ e = "listen"
         \/ RedisError(p) /\ e \in RedisErrors
  PROVE  AnswerInd'
<1>1. Ind /\ Ind'
  <2>1. Next
    BY DEF Next, Failure
  <2> QED BY <2>1, IndNext DEF AnswerInd
<1>2. CASE (StoreLost(p) \/ DeleteLost(p)) /\ e = "lost"
  <2>1. op[p].pc \in {"store", "delete"} /\ (Again(p) \/ Finish(p))
    BY <1>2 DEF StoreLost, DeleteLost, At
  <2>2. e \in RedisErrors
    BY <1>2 DEF RedisErrors
  <2> QED BY <1>1, <1>2, <2>1, <2>2, FinishMoves, AgainMoves, WriteAnswer
<1>3. CASE ListenFails(p) /\ e = "listen"
  <2>1. op[p].pc = "start" /\ op[p].act = "create_tcp" /\ Goto(p, "rollback")
    BY <1>3, ActsAt DEF ListenFails, At
  <2> QED BY <1>1, <1>3, <2>1, GotoMoves, WriteAnswer
<1>4. CASE RedisError(p) /\ e \in RedisErrors
  <2>1. /\ op[p].pc \in {"count", "pick", "store", "delete"} /\ Finish(p)
        /\ UNCHANGED <<db, listeners>>
    BY <1>4 DEF RedisError
  <2>2. CASE op[p].pc \in {"count", "pick"}
    <3>1. op[p].act \in Creates
      BY <2>2, ActsAt DEF Creates
    <3>2. StatusRight(op[p].act, e)
      BY <1>4, <3>1, StatusesRight
    <3> QED BY <1>1, <2>1, <2>2, <3>2, FinishMoves, SearchAnswer
  <2>3. CASE op[p].pc \in {"store", "delete"}
    BY <1>1, <1>4, <2>1, <2>3, FinishMoves, WriteAnswer
  <2> QED BY <2>1, <2>2, <2>3
<1> QED BY <1>2, <1>3, <1>4

\* A request refused before it does anything.
LEMMA RefusedAnswer ==
  ASSUME AnswerInd, NEW p \in Proc, NEW act, NEW k, NEW e, NEW code,
         Refused(p, act, k, e, code),
         e \in DOMAIN Says => AsDocumented(act, e, code)
  PROVE  AnswerInd'
<1> DEFINE r == Answered(act, e, code, [Idle EXCEPT !.key = k])
<1>1. /\ reply' = [reply EXCEPT ![p] = r] /\ wrote' = [wrote EXCEPT ![p] = FALSE]
      /\ resent' = [resent EXCEPT ![p] = FALSE] /\ UNCHANGED vars
  BY DEF Refused
<1>2. r.err = e /\ r.code = code /\ r.act = act
  BY DEF Answered
<1> HIDE DEF r
<1>3. ReplyOK(r, FALSE, FALSE)
  BY <1>2 DEF ReplyOK
<1>4. Ind'
  BY <1>1, IndNext DEF AnswerInd
<1>5. op'[p].pc = "idle" /\ op' = op
  BY <1>1 DEF Refused, At, vars
<1>6. /\ wrote' \in [Proc -> BOOLEAN] /\ resent' \in [Proc -> BOOLEAN]
      /\ reply' = [q \in Proc |-> reply'[q]]
      /\ \A q \in Proc : /\ wrote'[q] = IF q = p THEN FALSE ELSE wrote[q]
                         /\ resent'[q] = IF q = p THEN FALSE ELSE resent[q]
                         /\ reply'[q] = IF q = p THEN r ELSE reply[q]
  BY <1>1 DEF AnswerInd
<1>7. ASSUME NEW q \in Proc
      PROVE  /\ TraceOK(op'[q], wrote'[q], resent'[q])
             /\ ReplyOK(reply'[q], wrote'[q], resent'[q])
  <2>1. CASE q = p
    BY <1>3, <1>5, <1>6, <2>1 DEF TraceOK
  <2>2. CASE q # p
    BY <1>5, <1>6, <2>2 DEF AnswerInd
  <2> QED BY <2>1, <2>2
<1> QED BY <1>4, <1>6, <1>7 DEF AnswerInd

\* No refusal breaks it.
LEMMA RefusalsAnswer ==
  ASSUME AnswerInd, NEW p \in Proc,
         \/ GateRefuses(p)
         \/ \E act \in Creates : CreateDeclined(p, act)
         \/ \E act \in {"extend", "delete"}, k \in Keys : ChangeDeclined(p, act, k)
  PROVE  AnswerInd'
<1>1. ASSUME NEW act, NEW k, NEW e, StatusRight(act, e), Declined(p, act, k, e)
      PROVE  AnswerInd'
  BY <1>1, RefusedAnswer DEF Declined, StatusRight
<1>2. CASE GateRefuses(p)
  <2>1. "gate" \notin DOMAIN Says
    BY SaysTable
  <2>2. PICK code : Refused(p, "none", NoKey, "gate", code)
    BY <1>2 DEF GateRefuses
  <2> QED BY <2>1, <2>2, RefusedAnswer
<1>3. ASSUME NEW act \in Creates, CreateDeclined(p, act) PROVE AnswerInd'
  <2>1. \A e \in {"ip", "duration"} \cup RedisErrors : StatusRight(act, e)
    BY StatusesRight DEF Creates
  <2>2. (act = "create_tcp" => StatusRight(act, "port"))
        /\ (act = "create_http" => StatusRight(act, "limit"))
    BY StatusesRight
  <2> QED BY <1>1, <1>3, <2>1, <2>2 DEF CreateDeclined
<1>4. ASSUME NEW act \in {"extend", "delete"}, NEW k \in Keys, ChangeDeclined(p, act, k)
      PROVE  AnswerInd'
  <2>1. \A e \in {"subdomain", "absent"} \cup RedisErrors : StatusRight(act, e)
    BY StatusesRight
  <2> QED BY <1>1, <1>4, <2>1 DEF ChangeDeclined
<1> QED BY <1>2, <1>3, <1>4

\* No request has been answered at the start.
LEMMA AnswerInit == ApiInit => AnswerInd
<1> SUFFICES ASSUME ApiInit PROVE AnswerInd
  OBVIOUS
<1>1. Ind
  BY IndInit DEF ApiInit
<1>2. \A p \in Proc : op[p] = Idle /\ reply[p] = NoReply /\ wrote[p] = FALSE /\ resent[p] = FALSE
  BY DEF ApiInit, Init
<1>3. TraceOK(Idle, FALSE, FALSE)
  BY DEF TraceOK, Idle, Begun
<1>4. ASSUME NEW p \in Proc
      PROVE  TraceOK(op[p], wrote[p], resent[p]) /\ ReplyOK(reply[p], wrote[p], resent[p])
  BY <1>2, <1>3, NoReplyOK
<1> QED BY <1>1, <1>4 DEF AnswerInd, ApiInit

\* Every step keeps the invariant.
LEMMA AnswerNext == AnswerInd /\ [ApiNext]_apiVars => AnswerInd'
<1> SUFFICES ASSUME AnswerInd, [ApiNext]_apiVars PROVE AnswerInd'
  OBVIOUS
<1>1. ASSUME NEW p \in Proc, ApiRequest(p) PROVE AnswerInd'
  <2>1. ASSUME Handled(p, Request(p, Keys), "ok") PROVE AnswerInd'
    BY <2>1, BeginAnswer DEF Handled, Turned, Touched, Sent, AnswerTo
  <2>2. ASSUME Handled(p, \E d \in Requested : CreateTunnel(p, d), "ok") PROVE AnswerInd'
    BY <2>2, BeginAnswer DEF Handled, Turned, Touched, Sent, AnswerTo
  <2> QED BY <1>1, <2>1, <2>2, RefusalsAnswer DEF ApiRequest
<1>2. ASSUME NEW p \in Proc, ApiProgress(p) PROVE AnswerInd'
  <2>1. Progress(p) /\ Turned(p, Outcome(p))
    BY <1>2 DEF ApiProgress, Handled, Turned, Touched, Sent, AnswerTo
  <2> QED BY <2>1, SearchesAnswer, WritesAnswer DEF Progress
<1>3. ASSUME NEW p \in Proc, ApiFailure(p) PROVE AnswerInd'
  <2>1. ASSUME Handled(p, StoreLost(p) \/ DeleteLost(p), "lost") PROVE AnswerInd'
    BY <2>1, FailureAnswer DEF Handled, Turned, Touched, Sent, AnswerTo
  <2>2. ASSUME Handled(p, ListenFails(p), "listen") PROVE AnswerInd'
    BY <2>2, FailureAnswer DEF Handled, Turned, Touched, Sent, AnswerTo
  <2>3. ASSUME NEW e \in RedisErrors, Handled(p, RedisError(p), e) PROVE AnswerInd'
    BY <2>3, FailureAnswer DEF Handled, Turned, Touched, Sent, AnswerTo
  <2> QED BY <1>3, <2>1, <2>2, <2>3 DEF ApiFailure
<1>4. CASE (Tick \/ \E k \in Keys : Evict(k)) /\ UNCHANGED <<reply, wrote, resent>>
  <2>1. Next /\ op' = op
    BY <1>4 DEF Next, Tick, Evict
  <2>2. Ind'
    BY <2>1, IndNext DEF AnswerInd
  <2> QED BY <1>4, <2>1, <2>2 DEF AnswerInd
<1>5. CASE UNCHANGED apiVars
  <2>1. UNCHANGED vars /\ op' = op /\ UNCHANGED <<reply, wrote, resent>>
    BY <1>5 DEF apiVars, vars
  <2>2. Ind'
    BY <2>1, IndNext DEF AnswerInd
  <2> QED BY <2>1, <2>2 DEF AnswerInd
<1> QED BY <1>1, <1>2, <1>3, <1>4, <1>5 DEF ApiNext

\* A request that was refused with a 4xx or a 503 has changed neither a record
\* nor a listener, however many others run, unless a command was sent again.
THEOREM RefusalsHaveNoEffect == ApiSpec => []NoEffectBehindRefusal
<1>1. AnswerInd => NoEffectBehindRefusal
  BY DEF AnswerInd, ReplyOK, NoEffectBehindRefusal
<1> QED BY <1>1, AnswerInit, AnswerNext, PTL DEF ApiSpec

\* The search of each handler finds the documented status of every error that
\* the service can return to it, except in three cases, where it finds another.
THEOREM StatusesDocumented == ApiSpec => []StatusDocumented
<1>1. AnswerInd => StatusDocumented
  BY DEF AnswerInd, ReplyOK, AsDocumented, StatusDocumented
<1> QED BY <1>1, AnswerInit, AnswerNext, PTL DEF ApiSpec

\* A step of the API is a step of the service, or none.
LEMMA ApiStep == [ApiNext]_apiVars => [Next]_vars
<1> SUFFICES ASSUME [ApiNext]_apiVars PROVE Next \/ UNCHANGED vars
  OBVIOUS
<1>1. ASSUME NEW p \in Proc, ApiRequest(p) PROVE Next \/ UNCHANGED vars
  <2>1. CASE Handled(p, Request(p, Keys), "ok")
    BY <2>1 DEF Handled, Next
  <2>2. CASE Handled(p, \E d \in Requested : CreateTunnel(p, d), "ok")
    BY <2>2 DEF Handled, Next
  <2>3. CASE GateRefuses(p)
    BY <2>3 DEF GateRefuses, Refused
  <2>4. ASSUME NEW act, CreateDeclined(p, act) PROVE UNCHANGED vars
    BY <2>4 DEF CreateDeclined, Declined, Refused
  <2>5. ASSUME NEW act, NEW k, ChangeDeclined(p, act, k) PROVE UNCHANGED vars
    BY <2>5 DEF ChangeDeclined, Declined, Refused
  <2> QED BY <1>1, <2>1, <2>2, <2>3, <2>4, <2>5 DEF ApiRequest
<1>2. ASSUME NEW p \in Proc, ApiProgress(p) \/ ApiFailure(p) PROVE Next
  <2>1. Progress(p) \/ Failure(p)
    BY <1>2 DEF ApiProgress, ApiFailure, Handled, Failure
  <2> QED BY <2>1 DEF Next
<1>3. CASE Tick \/ \E k \in Keys : Evict(k)
  BY <1>3 DEF Next
<1>4. CASE UNCHANGED apiVars
  BY <1>4 DEF apiVars
<1> QED BY <1>1, <1>2, <1>3, <1>4 DEF ApiNext

\* The handlers add answers to the service and take no step of their own, so
\* what is proved of the service holds behind the handlers.
THEOREM ApiImplementsService == ApiSpec => Spec
<1>1. ApiInit => Init
  BY DEF ApiInit
<1> QED BY <1>1, ApiStep, PTL DEF ApiSpec, Spec

-----------------------------------------------------------------------------
(* Requests that come one at a time.                                       *)

OneAtATime == \A p, q \in Proc : p = q

\* What a request at o finds in d under its key, if nobody interferes: what it
\* read, or what it wrote before an answer was lost, or nothing any more.
AloneOK(o, d) ==
  /\ o.pc = "stamp" /\ o.act \in Creates => o.key \notin DOMAIN d
  /\ o.pc = "stamp" /\ o.act = "extend" /\ o.key \in DOMAIN d => d[o.key].val = o.rec
  /\ o.pc = "store" /\ o.key \in DOMAIN d =>
       \/ d[o.key].val = o.rec
       \/ d[o.key].val.id = o.rec.id /\ (InputsFit => d[o.key].val.dur < o.rec.dur)
  /\ o.pc = "start" /\ o.key \in DOMAIN d => d[o.key].val = o.rec
  /\ o.pc = "stop" => o.key \notin DOMAIN d

\* No deletion races with another request.
AloneInd == Ind /\ RevInd /\ raced = {} /\ \A p \in Proc : AloneOK(op[p], db)

\* Records go and none comes or changes.
Shrunk == DOMAIN db' \subseteq DOMAIN db /\ \A k \in DOMAIN db' : db'[k] = db[k]

\* A DEL, an eviction and an expiry do that.
LEMMA Shrinking ==
  ASSUME db' = db \/ (\E k : db' = Remove(db, k)) \/ (\E t : db' = Purge(db, t))
  PROVE  Shrunk
<1>1. CASE db' = db
  BY <1>1 DEF Shrunk
<1>2. ASSUME NEW k, db' = Remove(db, k) PROVE Shrunk
  BY <1>2 DEF Shrunk, Remove
<1>3. ASSUME NEW t, db' = Purge(db, t) PROVE Shrunk
  BY <1>3 DEF Shrunk, Purge
<1> QED BY <1>1, <1>2, <1>3

\* A request still finds what it would have found, or nothing.
LEMMA AloneShrunk ==
  ASSUME NEW o, AloneOK(o, db), Shrunk
  PROVE  AloneOK(o, db')
  BY DEF AloneOK, Shrunk

\* Where no request is alone with others, its next place says everything.
LEMMA AloneHere ==
  ASSUME OneAtATime, NEW p \in Proc, NEW o, op'[p] = o, AloneOK(o, db')
  PROVE  \A q \in Proc : AloneOK(op'[q], db')
  BY DEF OneAtATime

\* A request that holds no record and is not at "stop" expects nothing.
LEMMA NothingExpected ==
  ASSUME NEW o, NEW d, o.pc \notin {"stamp", "store", "start", "stop"}
  PROVE  AloneOK(o, d)
  BY DEF AloneOK

\* The beginning of a request.
LEMMA BeginAlone ==
  ASSUME OneAtATime, AloneInd, NEW p \in Proc,
         Request(p, Keys) \/ \E d \in Requested : CreateTunnel(p, d)
  PROVE  db' = db /\ history' = history /\ \A q \in Proc : AloneOK(op'[q], db')
<1>1. Ind /\ db' = db /\ history' = history
  BY DEF AloneInd, Request, CreateTunnel, CreateTCPTunnel, ExtendTunnel, DeleteTunnel, history
<1>2. ASSUME NEW pc, NEW act, NEW k, NEW d, NEW r, NEW n,
             Begin(p, Begun(pc, act, k, d, r, n)), pc \in {"count", "pick", "delete"}
      PROVE  AloneOK(op'[p], db')
  <2>1. op'[p].pc \notin {"stamp", "store", "start", "stop"}
    BY <1>1, <1>2, BeginMoves DEF Begun
  <2> QED BY <2>1, NothingExpected
<1>3. ASSUME NEW k \in Keys, NEW m \in Extensions, ExtendTunnel(p, k, m)
      PROVE  AloneOK(op'[p], db')
  <2>1. op'[p] = Begun("stamp", "extend", k, m, db[k].val, 0)
    BY <1>1, <1>3, BeginMoves DEF ExtendTunnel
  <2> QED BY <1>1, <2>1 DEF Begun, AloneOK, Creates
<1>4. AloneOK(op'[p], db')
  BY <1>2, <1>3 DEF Request, CreateTunnel, CreateTCPTunnel, DeleteTunnel
<1> QED BY <1>1, <1>4, AloneHere

\* The steps between the beginning and the write.
LEMMA SearchAlone ==
  ASSUME OneAtATime, AloneInd, NEW p \in Proc,
         \/ CountTCP(p) \/ (\E k \in Keys : PickFree(p, k) \/ PickTaken(p, k))
         \/ StampNew(p) \/ StampExtension(p)
  PROVE  db' = db /\ history' = history /\ \A q \in Proc : AloneOK(op'[q], db')
<1>1. db' = db /\ history' = history
  BY DEF CountTCP, PickFree, PickTaken, StampNew, StampExtension, history
<1>2. /\ Ind /\ op[p] \in Operation /\ op = [q \in Proc |-> op[q]]
      /\ AloneOK(op[p], db) /\ RequestOK(op[p], now) /\ now \in Nat
  BY DEF AloneInd, Ind, OpsOK, RequestOK, FrameOK
<1>3. CASE Finish(p)
  <2>1. op'[p].pc = "idle"
    BY <1>2, <1>3, FinishMoves DEF Idle, Begun
  <2> QED BY <1>1, <2>1, NothingExpected, AloneHere
<1>4. CASE CountTCP(p)
  <2>1. Goto(p, "pick") \/ Finish(p)
    BY <1>4 DEF CountTCP
  <2>2. op'[p].pc \notin {"stamp", "store", "start", "stop"}
    BY <1>2, <2>1, FinishMoves, GotoMoves DEF Idle, Begun
  <2> QED BY <1>1, <2>2, NothingExpected, AloneHere
<1>5. ASSUME NEW k \in Keys, PickTaken(p, k)
      PROVE  \A q \in Proc : AloneOK(op'[q], db')
  <2>1. op[p].pc = "pick" /\ (Again(p) \/ Finish(p))
    BY <1>5 DEF PickTaken, At
  <2>2. op'[p].pc \notin {"stamp", "store", "start", "stop"}
    BY <1>2, <2>1, FinishMoves, AgainMoves DEF Idle, Begun
  <2> QED BY <1>1, <2>2, NothingExpected, AloneHere
<1>6. ASSUME NEW k \in Keys, PickFree(p, k)
      PROVE  \A q \in Proc : AloneOK(op'[q], db')
  <2>1. /\ op[p].pc = "pick" /\ op[p].act \in Creates /\ k \notin DOMAIN db
        /\ op' = [op EXCEPT ![p] = [op[p] EXCEPT !.pc = "stamp", !.key = k, !.n = 0]]
    BY <1>2, <1>6 DEF PickFree, At, Exists, RequestOK
  <2>2. op'[p].pc = "stamp" /\ op'[p].act \in Creates /\ op'[p].key = k
    BY <1>2, <2>1 DEF Operation
  <2>3. AloneOK(op'[p], db')
    BY <1>1, <2>1, <2>2 DEF AloneOK, Creates
  <2> QED BY <2>3, AloneHere
<1>7. CASE StampNew(p)
  <2> DEFINE r == NewRecord(nextId, op[p].min, now)
             ttl == TTLOf(op[p].min)
  <2>1. /\ op[p].pc = "stamp" /\ op[p].act \in Creates
        /\ op' = [op EXCEPT ![p] = [op[p] EXCEPT !.pc = "store", !.rec = r, !.ttl = ttl]]
    BY <1>2, <1>7 DEF StampNew, At
  <2> HIDE DEF r, ttl
  <2>2. op'[p].pc = "store" /\ op'[p].key = op[p].key
    BY <1>2, <2>1 DEF Operation
  <2>3. op[p].key \notin DOMAIN db
    BY <1>2, <2>1 DEF AloneOK
  <2>4. AloneOK(op'[p], db')
    BY <1>1, <2>2, <2>3 DEF AloneOK
  <2> QED BY <1>1, <2>4, AloneHere
<1>8. CASE StampExtension(p) /\ ~Finish(p)
  <2> DEFINE x == op[p].rec
             r == Extended(x, op[p].min)
             ttl == NewEnd(x, op[p].min) - now
  <2>1. /\ op[p].pc = "stamp" /\ op[p].act = "extend" /\ ExtensionAllowed(x, op[p].min, now)
        /\ op' = [op EXCEPT ![p] = [op[p] EXCEPT !.pc = "store", !.rec = r, !.ttl = ttl]]
    BY <1>2, <1>8 DEF StampExtension, At
  <2>2. x \in Record /\ op[p].min \in Extensions /\ Sound(x)
    BY <1>2, <2>1 DEF RequestOK, Operation
  <2>3. r.id = x.id /\ (InputsFit => r.dur = x.dur + op[p].min)
    BY <1>2, <2>1, <2>2, ExtendedOK DEF Extended, Record
  <2>4. x.dur \in Int /\ op[p].min \in Nat /\ op[p].min > 0
    <3>1. op[p].min \in Nat \ {0}
      BY <2>2, InputAssumption
    <3>2. x.dur \in Int
      BY <2>2 DEF Record
    <3> QED BY <3>1, <3>2
  <2>5. op[p].key \in DOMAIN db => db[op[p].key].val = x
    BY <1>2, <2>1 DEF AloneOK
  <2> HIDE DEF r, ttl
  <2>6. op'[p].pc = "store" /\ op'[p].key = op[p].key /\ op'[p].rec = r
    BY <1>2, <2>1 DEF Operation
  <2>7. InputsFit => x.dur < r.dur
    BY <2>3, <2>4
  <2>8. AloneOK(op'[p], db')
    BY <1>1, <2>3, <2>5, <2>6, <2>7 DEF AloneOK
  <2> QED BY <1>1, <2>8, AloneHere
<1> QED BY <1>1, <1>3, <1>4, <1>5, <1>6, <1>7, <1>8

\* What a SET leaves under the key of the request.
LEMMA StoredHere ==
  ASSUME NEW p \in Proc, Stored(p)
  PROVE  op[p].key \in DOMAIN db' /\ db'[op[p].key].val = op[p].rec
  BY DEF Stored, Put

\* The writes, the listener and what follows them, and the failures.
LEMMA WriteAlone ==
  ASSUME OneAtATime, AloneInd, NEW p \in Proc,
         \/ Store(p) \/ StoreLost(p) \/ StartProxy(p) \/ ListenFails(p) \/ Rollback(p)
         \/ Delete(p) \/ DeleteLost(p) \/ StopProxy(p) \/ RedisError(p)
  PROVE  raced' = {} /\ \A q \in Proc : AloneOK(op'[q], db')
<1>1. Ind /\ AloneOK(op[p], db) /\ raced = {}
  BY DEF AloneInd
<1>2. ASSUME op'[p].pc \notin {"stamp", "store", "start", "stop"}
      PROVE  \A q \in Proc : AloneOK(op'[q], db')
  BY <1>2, NothingExpected, AloneHere
<1>3. ASSUME Finish(p) PROVE \A q \in Proc : AloneOK(op'[q], db')
  BY <1>1, <1>2, <1>3, FinishMoves DEF Idle, Begun
<1>4. CASE Store(p) \/ StoreLost(p)
  <2>1. /\ op[p].pc = "store" /\ Stored(p) /\ raced' = raced
        /\ Goto(p, "start") \/ Again(p) \/ Finish(p)
    BY <1>4 DEF Store, StoreLost, At, history
  <2>2. ASSUME op'[p].pc \in {"start", "store"}, op'[p].key = op[p].key, op'[p].rec = op[p].rec
        PROVE  \A q \in Proc : AloneOK(op'[q], db')
    <3>1. AloneOK(op'[p], db')
      BY <2>1, <2>2, StoredHere DEF AloneOK
    <3> QED BY <3>1, AloneHere
  <2> QED BY <1>1, <1>3, <2>1, <2>2, GotoMoves, AgainMoves
<1>5. CASE StartProxy(p) \/ Rollback(p) \/ StopProxy(p) \/ RedisError(p)
  <2>1. Finish(p) /\ raced' = raced
    BY <1>5 DEF StartProxy, Rollback, StopProxy, RedisError, history
  <2> QED BY <1>1, <1>3, <2>1
<1>6. CASE ListenFails(p)
  <2>1. Goto(p, "rollback") /\ raced' = raced
    BY <1>6 DEF ListenFails, history
  <2> QED BY <1>1, <1>2, <2>1, GotoMoves
<1>7. CASE DeleteLost(p)
  <2>1. op[p].pc = "delete" /\ (Again(p) \/ Finish(p)) /\ raced' = raced
    BY <1>7 DEF DeleteLost, At, history
  <2> QED BY <1>1, <1>2, <1>3, <2>1, AgainMoves
<1>8. CASE Delete(p)
  <2> DEFINE gone == IF Exists(db, op[p].key) THEN {db[op[p].key].val.id} ELSE {}
  <2>1. /\ op[p].pc = "delete" /\ (Goto(p, "stop") \/ Finish(p))
        /\ db' = Remove(db, op[p].key)
        /\ raced' = raced \cup {i \in gone : Holders(i) # {}}
    BY <1>8 DEF Delete, At
  <2>2. ~Holds(p)
    BY <2>1 DEF Holds, At
  <2>3. ASSUME NEW i PROVE Holders(i) = {}
    BY <2>2 DEF Holders, OneAtATime
  <2>4. raced' = {}
    BY <1>1, <2>1, <2>3
  <2>5. op[p].key \notin DOMAIN db'
    BY <2>1 DEF Remove
  <2>6. CASE Goto(p, "stop")
    <3>1. op'[p].pc = "stop" /\ op'[p].key = op[p].key
      BY <1>1, <2>6, GotoMoves
    <3>2. AloneOK(op'[p], db')
      BY <2>5, <3>1 DEF AloneOK
    <3> QED BY <2>4, <3>2, AloneHere
  <2> QED BY <1>3, <2>1, <2>4, <2>6
<1> QED BY <1>4, <1>5, <1>6, <1>7, <1>8

\* The clock, an eviction and a stuttering step.
LEMMA EnvironmentAlone ==
  ASSUME AloneInd, Tick \/ (\E k \in Keys : Evict(k)) \/ UNCHANGED vars
  PROVE  Shrunk /\ UNCHANGED <<listeners, op, history>>
         /\ \A q \in Proc : AloneOK(op'[q], db')
<1>1. Shrunk
  BY Shrinking DEF Tick, Evict, vars
<1>2. UNCHANGED <<listeners, op, history>>
  BY DEF Tick, Evict, vars, history
<1>3. ASSUME NEW q \in Proc PROVE AloneOK(op'[q], db')
  BY <1>1, <1>2, AloneShrunk DEF AloneInd
<1> QED BY <1>1, <1>2, <1>3

\* A request that was not begun expects nothing.
LEMMA AloneInit == Init => AloneInd
<1> SUFFICES ASSUME Init PROVE AloneInd
  OBVIOUS
<1>1. Ind /\ RevInd
  BY IndInit, RevInit
<1>2. Idle.pc = "idle"
  BY DEF Idle, Begun
<1>3. ASSUME NEW p \in Proc PROVE AloneOK(op[p], db)
  BY <1>2, NothingExpected DEF Init
<1> QED BY <1>1, <1>3 DEF AloneInd, Init

\* When requests come one at a time, each finds what it expects.
LEMMA AloneNext ==
  ASSUME OneAtATime, AloneInd, [Next]_vars
  PROVE  AloneInd'
<1>1. Ind' /\ RevInd'
  BY IndNext, RevNext DEF AloneInd
<1>2. raced' = {} /\ \A q \in Proc : AloneOK(op'[q], db')
  <2>1. ASSUME NEW p \in Proc, Request(p, Keys) \/ \E d \in Requested : CreateTunnel(p, d)
        PROVE  raced' = {} /\ \A q \in Proc : AloneOK(op'[q], db')
    BY <2>1, BeginAlone DEF AloneInd, history
  <2>2. ASSUME NEW p \in Proc, Progress(p) \/ Failure(p)
        PROVE  raced' = {} /\ \A q \in Proc : AloneOK(op'[q], db')
    <3>1. CASE \/ CountTCP(p) \/ (\E k \in Keys : PickFree(p, k) \/ PickTaken(p, k))
               \/ StampNew(p) \/ StampExtension(p)
      BY <3>1, SearchAlone DEF AloneInd, history
    <3> QED BY <2>2, <3>1, WriteAlone DEF Progress, Failure
  <2>3. CASE Tick \/ (\E k \in Keys : Evict(k)) \/ UNCHANGED vars
    BY <2>3, EnvironmentAlone DEF AloneInd, history
  <2> QED BY <2>1, <2>2, <2>3 DEF Next
<1> QED BY <1>1, <1>2 DEF AloneInd

\* What a step may do to the keyspace, as far as its promises go: records go,
\* or a deletion reports that one went, or the record of a request is written.
LEMMA AloneEffect ==
  ASSUME OneAtATime, AloneInd, [Next]_vars
  PROVE  \/ Shrunk /\ revoked' = revoked
         \/ \E p \in Proc : Delete(p)
         \/ \E p \in Proc : At(p, "store") /\ Stored(p) /\ revoked' = revoked
<1>1. ASSUME NEW p \in Proc, Request(p, Keys) \/ \E d \in Requested : CreateTunnel(p, d)
      PROVE  Shrunk /\ revoked' = revoked
  BY <1>1, BeginAlone, Shrinking DEF history
<1>2. ASSUME NEW p \in Proc, Progress(p) \/ Failure(p)
      PROVE  \/ Shrunk /\ revoked' = revoked
             \/ Delete(p)
             \/ At(p, "store") /\ Stored(p) /\ revoked' = revoked
  <2>1. CASE \/ CountTCP(p) \/ (\E k \in Keys : PickFree(p, k) \/ PickTaken(p, k))
             \/ StampNew(p) \/ StampExtension(p)
    BY <2>1, SearchAlone, Shrinking DEF history
  <2>2. CASE Store(p) \/ StoreLost(p)
    BY <2>2 DEF Store, StoreLost, history
  <2>3. CASE StartProxy(p) \/ ListenFails(p) \/ Rollback(p) \/ DeleteLost(p) \/ StopProxy(p)
             \/ RedisError(p)
    <3>1. (db' = db \/ db' = Remove(db, op[p].key)) /\ revoked' = revoked
      BY <2>3 DEF StartProxy, ListenFails, Rollback, DeleteLost, StopProxy, RedisError, history
    <3> QED BY <3>1, Shrinking
  <2> QED BY <1>2, <2>1, <2>2, <2>3 DEF Progress, Failure
<1>3. CASE Tick \/ (\E k \in Keys : Evict(k)) \/ UNCHANGED vars
  BY <1>3, EnvironmentAlone DEF history
<1> QED BY <1>1, <1>2, <1>3 DEF Next

\* A record that is written belongs to no tunnel elsewhere and to none that
\* was revoked; where it replaces a record it is that record, or a longer one.
LEMMA StoredAlone ==
  ASSUME OneAtATime, AloneInd, InputsFit, NEW p \in Proc, At(p, "store"), Stored(p)
  PROVE  LET k == op[p].key  r == op[p].rec
         IN  /\ k \in Keys /\ r \in Record
             /\ DOMAIN db' = DOMAIN db \cup {k}
             /\ db'[k].val = r /\ \A x \in DOMAIN db \ {k} : db'[x] = db[x]
             /\ k \in DOMAIN db => /\ db[k].val.id = r.id
                                   /\ db[k].val = r \/ db[k].val.dur < r.dur
             /\ r.id \notin revoked
             /\ \A x \in DOMAIN db \ {k} : db[x].val.id # r.id
<1> DEFINE k == op[p].key
           r == op[p].rec
<1>1. Ind /\ RevInd /\ raced = {} /\ AloneOK(op[p], db) /\ op[p].pc = "store"
  BY DEF AloneInd, At
<1>2. op[p] \in Operation /\ k \in Keys /\ r \in Record /\ r.id \in Nat
  BY <1>1 DEF Ind, OpsOK, RequestOK, Operation, Record
<1>3. /\ DOMAIN db' = DOMAIN db \cup {k}
      /\ db'[k].val = r /\ \A x \in DOMAIN db \ {k} : db'[x] = db[x]
  BY DEF Stored, Put
<1>4. k \in DOMAIN db => db[k].val.id = r.id /\ (db[k].val = r \/ db[k].val.dur < r.dur)
  BY <1>1 DEF AloneOK
<1>5. Located(r.id, k)
  BY <1>1 DEF Located, HeldAt
<1>6. r.id \notin revoked
  BY <1>1, <1>2, <1>5 DEF RevInd
<1>7. ASSUME NEW x \in DOMAIN db \ {k}, db[x].val.id = r.id PROVE FALSE
  <2>1. Located(r.id, x) /\ x \in Keys
    BY <1>1, <1>7 DEF Located, StoredAt, Ind, StoredOK
  <2> QED BY <1>1, <1>2, <1>5, <1>7, <2>1 DEF RevInd
<1> QED BY <1>2, <1>3, <1>4, <1>6, <1>7

-----------------------------------------------------------------------------
(* The registry of TunnelLifecycle, step by step.                          *)

\* The registry an operator believes in.
Reg == [k \in DOMAIN db |-> [id |-> db[k].val.id, dur |-> db[k].val.dur]]

\* Records that go are tunnels that lapse.
LEMMA LapseStep ==
  ASSUME Shrunk, revoked' = revoked
  PROVE  Registry!Lapse
<1> DEFINE ks == DOMAIN db \ DOMAIN db'
<1>1. DOMAIN Reg = DOMAIN db /\ ks \in SUBSET DOMAIN Reg
  BY DEF Reg
<1>2. DOMAIN Reg \ ks = DOMAIN db'
  BY <1>1 DEF Shrunk
<1>3. Reg' = [k \in DOMAIN db' |-> Reg[k]]
  BY DEF Reg, Shrunk
<1>4. Reg' = [k \in DOMAIN Reg \ ks |-> Reg[k]]
  BY <1>2, <1>3
<1> HIDE DEF ks
<1>5. \E x \in SUBSET DOMAIN Reg : Reg' = [k \in DOMAIN Reg \ x |-> Reg[k]] /\ revoked' = revoked
  BY <1>1, <1>4
<1> QED BY <1>5 DEF Registry!Lapse, Registry!Without, Reg

\* A deletion revokes the tunnel that is under the key, if there is one.
LEMMA RevokeStep ==
  ASSUME NEW p \in Proc, Delete(p)
  PROVE  Registry!Revoke \/ Registry!Lapse
<1> DEFINE x == op[p].key
<1>1. CASE x \notin DOMAIN db
  <2>1. revoked' = revoked /\ db' = Remove(db, x)
    BY <1>1 DEF Delete, Exists
  <2> QED BY <2>1, Shrinking, LapseStep
<1>2. CASE x \in DOMAIN db
  <2>1. revoked' = revoked \cup {db[x].val.id} /\ db' = Remove(db, x)
    BY <1>2 DEF Delete, Exists
  <2> HIDE DEF x
  <2>2. DOMAIN Reg = DOMAIN db /\ Reg[x].id = db[x].val.id
    BY <1>2 DEF Reg
  <2>3. Reg' = [k \in DOMAIN Reg \ {x} |-> Reg[k]]
    BY <2>1 DEF Reg, Remove
  <2>4. \E k \in DOMAIN Reg :
          /\ Reg' = [y \in DOMAIN Reg \ {k} |-> Reg[y]]
          /\ revoked' = revoked \cup {Reg[k].id}
    BY <1>2, <2>1, <2>2, <2>3
  <2> QED BY <2>4 DEF Registry!Revoke, Registry!Without, Reg
<1> QED BY <1>1, <1>2

\* A write lets a tunnel appear, or come back, or makes one longer, or
\* changes nothing.
LEMMA WriteStep ==
  ASSUME OneAtATime, AloneInd, InputsFit, NEW p \in Proc, At(p, "store"), Stored(p),
         revoked' = revoked
  PROVE  Registry!Appear \/ Registry!Lengthen \/ (Reg' = Reg /\ revoked' = revoked)
<1> DEFINE k == op[p].key
           r == op[p].rec
           t == [id |-> r.id, dur |-> r.dur]
<1>1. /\ k \in Keys /\ r \in Record
      /\ DOMAIN db' = DOMAIN db \cup {k}
      /\ db'[k].val = r /\ \A x \in DOMAIN db \ {k} : db'[x] = db[x]
      /\ k \in DOMAIN db => /\ db[k].val.id = r.id
                            /\ db[k].val = r \/ db[k].val.dur < r.dur
      /\ r.id \notin revoked
      /\ \A x \in DOMAIN db \ {k} : db[x].val.id # r.id
  BY StoredAlone
<1> HIDE DEF k, r
<1>2. DOMAIN Reg = DOMAIN db /\ DOMAIN Reg' = DOMAIN db'
      /\ \A x \in DOMAIN Reg : Reg[x] = [id |-> db[x].val.id, dur |-> db[x].val.dur]
  BY DEF Reg
<1>3. Reg' = [x \in DOMAIN Reg \cup {k} |-> IF x = k THEN t ELSE Reg[x]]
  BY <1>1 DEF Reg
<1>4. Reg'[k] = t /\ k \in DOMAIN Reg'
  BY <1>1, <1>2, <1>3
<1>5. CASE k \notin DOMAIN db
  <2>1. t.id \notin revoked \cup {Reg[x].id : x \in DOMAIN Reg}
    BY <1>1, <1>2, <1>5
  <2> HIDE DEF t
  <2>2. \E x \in Keys \ DOMAIN Reg :
          /\ x \in DOMAIN Reg'
          /\ Reg' = [y \in DOMAIN Reg \cup {x} |-> IF y = x THEN Reg'[x] ELSE Reg[y]]
          /\ Reg'[x].id \notin revoked \cup {Reg[y].id : y \in DOMAIN Reg}
          /\ UNCHANGED revoked
    BY <1>1, <1>2, <1>3, <1>4, <1>5, <2>1
  <2> QED BY <2>2 DEF Registry!Appear, Registry!With, Reg
<1>6. CASE k \in DOMAIN db /\ db[k].val = r
  <2>1. Reg[k] = t
    BY <1>2, <1>6
  <2>2. Reg' = [x \in DOMAIN Reg |-> Reg[x]]
    BY <1>2, <1>3, <1>6, <2>1
  <2>3. Reg = [x \in DOMAIN Reg |-> Reg[x]]
    BY DEF Reg
  <2> QED BY <2>2, <2>3
<1>7. CASE k \in DOMAIN db /\ db[k].val.dur < r.dur
  <2>1. /\ Reg[k] = [id |-> r.id, dur |-> db[k].val.dur]
        /\ t = [Reg[k] EXCEPT !.dur = t.dur] /\ t.dur > Reg[k].dur
    <3>1. Reg[k] = [id |-> r.id, dur |-> db[k].val.dur]
      BY <1>1, <1>2, <1>7
    <3>2. db[k].val.dur \in Int /\ r.dur \in Int
      BY <1>1, <1>7 DEF AloneInd, Ind, StoredOK, Entry, Record
    <3> QED BY <1>7, <3>1, <3>2
  <2> HIDE DEF t
  <2>2. \E x \in DOMAIN Reg :
          /\ x \in DOMAIN Reg'
          /\ Reg' = [y \in DOMAIN Reg \cup {x} |->
                       IF y = x THEN [Reg[x] EXCEPT !.dur = Reg'[x].dur] ELSE Reg[y]]
          /\ Reg'[x].dur > Reg[x].dur
          /\ UNCHANGED revoked
    BY <1>2, <1>3, <1>4, <1>7, <2>1
  <2> QED BY <2>2 DEF Registry!Lengthen, Registry!With, Reg
<1> QED BY <1>1, <1>5, <1>6, <1>7

\* Every step of the service is a step of the registry, or none.
LEMMA RegistryStep ==
  ASSUME OneAtATime, AloneInd, InputsFit, [Next]_vars
  PROVE  Registry!Next \/ (Reg' = Reg /\ revoked' = revoked)
<1>1. CASE Shrunk /\ revoked' = revoked
  BY <1>1, LapseStep DEF Registry!Next
<1>2. ASSUME NEW p \in Proc, Delete(p) PROVE Registry!Next
  BY <1>2, RevokeStep DEF Registry!Next
<1>3. ASSUME NEW p \in Proc, At(p, "store"), Stored(p), revoked' = revoked
      PROVE  Registry!Next \/ (Reg' = Reg /\ revoked' = revoked)
  BY <1>3, WriteStep DEF Registry!Next
<1> QED BY <1>1, <1>2, <1>3, AloneEffect

\* When requests come one at a time, and durations can be counted in
\* nanoseconds, the service is the registry its documentation describes.
THEOREM AloneIsRegistry ==
  ASSUME OneAtATime, InputsFit
  PROVE  Spec => RegistrySpec
<1>1. Init => Registry!Init
  BY DEF Init, Registry!Init, EmptyKeyspace
<1>2. AloneInd /\ [Next]_vars => AloneInd'
  BY AloneNext
<1>3. AloneInd /\ [Next]_vars => [Registry!Next]_<<Reg, revoked>>
  BY RegistryStep
<1> QED BY <1>1, <1>2, <1>3, AloneInit, PTL DEF Spec, RegistrySpec, Registry!Spec, Reg

-----------------------------------------------------------------------------
(* What a client was told.                                                 *)

\* What ConfirmedStands says of one reply.
Stands(r, d, ls) ==
  /\ r.code \in {200, 201} /\ r.act # "delete" =>
       /\ r.key \in DOMAIN d => d[r.key].val = r.rec
       /\ r.act = "create_tcp" => r.key \in ls
  /\ r.act = "delete" /\ r.code \in {200, 404} => r.key \notin DOMAIN d

\* A request under way has no reply yet; a reply that was given stands.
StandInd ==
  /\ AnswerInd /\ AloneInd
  /\ \A p \in Proc : /\ op[p].pc # "idle" => reply[p] = NoReply
                     /\ Stands(reply[p], db, listeners)

\* No reply promises nothing.
LEMMA NothingStands == ASSUME NEW d, NEW ls PROVE Stands(NoReply, d, ls)
  BY DEF Stands, NoReply

\* An error is never taken for a success, and a deletion is told that there is
\* no tunnel only where there is none.
LEMMA ErrorStands ==
  ASSUME NEW act \in Creates \cup {"extend", "delete"}, NEW e \in DOMAIN Says, NEW o,
         NEW d, NEW ls, act = "delete" /\ e = "absent" => o.key \notin DOMAIN d
  PROVE  Stands(Answered(act, e, StatusOf(act, e), o), d, ls)
<1> DEFINE code == StatusOf(act, e)
           r == Answered(act, e, code, o)
<1>1. code \in {400, 404, 500, 503}
  BY CreateHTTPStatus, CreateTCPStatus, ExtendStatus, DeleteStatus DEF Creates
<1>2. act = "delete" /\ code = 404 => e = "absent"
  BY DeleteStatus
<1> HIDE DEF code
<1>3. r.code = code /\ r.act = act /\ r.key = o.key
  BY DEF Answered
<1> HIDE DEF r
<1>4. r.code \notin {200, 201}
  BY <1>1, <1>3
<1>5. r.act = "delete" /\ r.code = 404 => r.key \notin DOMAIN d
  BY <1>2, <1>3
<1>6. Stands(r, d, ls)
  BY <1>4, <1>5 DEF Stands
<1> QED BY <1>6 DEF r, code

\* A success stands where the record and the listener are what it says.
LEMMA SuccessStands ==
  ASSUME NEW act, NEW o, NEW d, NEW ls,
         act = "delete" => o.key \notin DOMAIN d,
         act # "delete" /\ o.key \in DOMAIN d => d[o.key].val = o.rec,
         act = "create_tcp" => o.key \in ls
  PROVE  Stands(Answered(act, "ok", StatusOf(act, "ok"), o), d, ls)
<1> DEFINE code == StatusOf(act, "ok")
           r == Answered(act, "ok", code, o)
<1> HIDE DEF code
<1>1. r.act = act /\ r.key = o.key /\ r.rec = o.rec
  BY DEF Answered
<1> HIDE DEF r
<1>2. Stands(r, d, ls)
  BY <1>1 DEF Stands
<1> QED BY <1>2 DEF r, code

\* A step of request p after which its answer, if there is one, stands.
LEMMA StandTurn ==
  ASSUME OneAtATime, AnswerInd, AnswerInd', AloneInd', NEW p \in Proc, NEW e, Turned(p, e),
         op'[p] = Idle => Stands(AnswerTo(p, e), db', listeners')
  PROVE  StandInd'
<1> DEFINE r == IF op'[p] # Idle THEN NoReply ELSE AnswerTo(p, e)
<1>1. reply'[p] = r
  BY DEF Turned, AnswerInd
<1>2. op'[p].pc # "idle" => r = NoReply
  BY DEF Idle, Begun
<1>3. Stands(r, db', listeners')
  BY NothingStands
<1> HIDE DEF r
<1>4. ASSUME NEW q \in Proc
      PROVE  /\ op'[q].pc # "idle" => reply'[q] = NoReply
             /\ Stands(reply'[q], db', listeners')
  <2>1. q = p
    BY DEF OneAtATime
  <2> QED BY <1>1, <1>2, <1>3, <2>1
<1> QED BY <1>4 DEF StandInd

\* A step that changes neither replies nor requests, and only loses records.
LEMMA StandShrunk ==
  ASSUME StandInd, AnswerInd', AloneInd', Shrunk, UNCHANGED <<listeners, op, reply>>
  PROVE  StandInd'
<1>1. ASSUME NEW r, Stands(r, db, listeners) PROVE Stands(r, db', listeners')
  BY <1>1 DEF Stands, Shrunk
<1> QED BY <1>1 DEF StandInd

\* The acts of the requests under way.
LEMMA ActsUnderWay ==
  ASSUME AnswerInd, NEW p \in Proc
  PROVE  /\ op[p].pc \in {"count", "pick", "stamp", "store", "start", "rollback",
                          "delete", "stop"}
              => op[p].act \in Creates \cup {"extend", "delete"}
         /\ op[p].pc = "stamp" => op[p].act \in Creates \cup {"extend"}
         /\ op[p].pc \in {"count", "rollback"} => op[p].act = "create_tcp"
         /\ op[p].pc \in {"pick", "store"} => op[p].act # "delete"
         /\ op[p].pc \in {"delete", "stop"} => op[p].act = "delete"
  BY DEF AnswerInd, TraceOK, Ind, OpsOK, RequestOK, Creates

\* A request that fails on its way.
LEMMA FailureStands ==
  ASSUME AnswerInd, NEW p \in Proc, NEW e,
         \/ (StoreLost(p) \/ DeleteLost(p)) /\ e = "lost"
         \/ ListenFails(p) /\ e = "listen"
         \/ RedisError(p) /\ e \in RedisErrors
  PROVE  Stands(AnswerTo(p, e), db', listeners')
<1>1. op[p].pc \in {"store", "delete", "start", "count", "pick"}
  BY DEF StoreLost, DeleteLost, ListenFails, RedisError, At
<1>2. op[p].act \in Creates \cup {"extend", "delete"}
  BY <1>1, ActsUnderWay
<1>3. e \in DOMAIN Says /\ e # "absent"
  BY SaysTable DEF RedisErrors
<1> QED BY <1>2, <1>3, ErrorStands DEF AnswerTo

\* A request that gives up its search, or is refused.
LEMMA SearchStands ==
  ASSUME AnswerInd, NEW p \in Proc, op'[p] = Idle,
         \/ CountTCP(p) \/ (\E k \in Keys : PickFree(p, k) \/ PickTaken(p, k))
         \/ StampNew(p) \/ StampExtension(p)
  PROVE  Stands(AnswerTo(p, Outcome(p)), db', listeners')
<1>1. op[p] \in Operation /\ op = [q \in Proc |-> op[q]] /\ Idle.pc = "idle"
  BY DEF AnswerInd, Ind, OpsOK, RequestOK, Idle, Begun
<1>2. ~StampNew(p)
  <2> DEFINE r == NewRecord(nextId, op[p].min, now)
             ttl == TTLOf(op[p].min)
  <2>1. ASSUME StampNew(p)
        PROVE  op' = [op EXCEPT ![p] = [op[p] EXCEPT !.pc = "store", !.rec = r, !.ttl = ttl]]
    BY <1>1, <2>1 DEF StampNew
  <2> HIDE DEF r, ttl
  <2>2. ASSUME StampNew(p) PROVE op'[p].pc = "store"
    BY <1>1, <2>1, <2>2 DEF Operation
  <2> QED BY <1>1, <2>2
<1>3. \/ op[p].pc = "count" /\ op[p].act = "create_tcp"
      \/ op[p].pc = "pick" /\ op[p].act \in Creates
      \/ op[p].pc = "stamp" /\ op[p].act = "extend"
  BY <1>2, ActsAt DEF CountTCP, PickFree, PickTaken, StampExtension, At
<1>4. Outcome(p) \in {"limit", "names", "ports", "unlimited", "exceeds", "expired"}
  BY <1>3 DEF Outcome, ExtensionError, Creates
<1>5. Outcome(p) \in DOMAIN Says /\ Outcome(p) # "absent"
  BY <1>4, SaysTable
<1>6. op[p].act \in Creates \cup {"extend", "delete"}
  BY <1>3 DEF Creates
<1> QED BY <1>5, <1>6, ErrorStands DEF AnswerTo

\* A request that ends with its write, its listener or its deletion.
LEMMA WriteStands ==
  ASSUME AnswerInd, AloneInd, NEW p \in Proc, op'[p] = Idle,
         Store(p) \/ StartProxy(p) \/ Rollback(p) \/ Delete(p) \/ StopProxy(p)
  PROVE  Stands(AnswerTo(p, Outcome(p)), db', listeners')
<1>1. AloneOK(op[p], db) /\ Ind /\ Idle.pc = "idle"
  BY DEF AloneInd, Idle, Begun
<1>2. op[p].pc \notin {"count", "pick", "stamp", "rollback"} => Outcome(p) = "ok"
  BY DEF Outcome
<1>3. CASE Store(p)
  <2>1. /\ op[p].pc = "store" /\ Stored(p)
        /\ IF op[p].act = "create_tcp" THEN Goto(p, "start") ELSE Finish(p)
    BY <1>3 DEF Store, At
  <2>2. op[p].act \notin {"create_tcp", "delete"}
    BY <1>1, <2>1, GotoMoves, ActsUnderWay
  <2> QED BY <1>2, <2>1, <2>2, StoredHere, SuccessStands DEF AnswerTo
<1>4. CASE StartProxy(p)
  <2>1. op[p].pc = "start" /\ db' = db /\ op[p].key \in listeners'
    BY <1>4 DEF StartProxy, At
  <2>2. op[p].act = "create_tcp"
    BY <2>1, ActsAt
  <2>3. op[p].key \in DOMAIN db' => db'[op[p].key].val = op[p].rec
    BY <1>1, <2>1 DEF AloneOK
  <2> QED BY <1>2, <2>1, <2>2, <2>3, SuccessStands DEF AnswerTo
<1>5. CASE Rollback(p)
  <2>1. op[p].pc = "rollback" /\ op[p].act = "create_tcp"
    BY <1>5, ActsAt DEF Rollback, At
  <2>2. Outcome(p) = "listen"
    BY <2>1 DEF Outcome
  <2>3. "listen" \in DOMAIN Says /\ op[p].act \in Creates \cup {"extend", "delete"}
    BY <2>1, SaysTable DEF Creates
  <2> QED BY <2>1, <2>2, <2>3, ErrorStands DEF AnswerTo
<1>6. CASE Delete(p) \/ StopProxy(p)
  <2>1. op[p].pc \in {"delete", "stop"}
    BY <1>6 DEF Delete, StopProxy, At
  <2>2. op[p].act = "delete"
    BY <2>1, ActsAt
  <2>3. op[p].key \notin DOMAIN db'
    BY <1>1, <1>6 DEF Delete, StopProxy, At, Remove, AloneOK
  <2> QED BY <1>2, <2>1, <2>2, <2>3, SuccessStands DEF AnswerTo
<1> QED BY <1>3, <1>4, <1>5, <1>6

\* A request refused before it does anything.
LEMMA RefusedStands ==
  ASSUME OneAtATime, StandInd, AnswerInd', AloneInd', NEW p \in Proc,
         NEW act, NEW k, NEW e, NEW code, Refused(p, act, k, e, code),
         Stands(Answered(act, e, code, [Idle EXCEPT !.key = k]), db, listeners)
  PROVE  StandInd'
<1> DEFINE r == Answered(act, e, code, [Idle EXCEPT !.key = k])
<1>1. reply' = [reply EXCEPT ![p] = r] /\ UNCHANGED <<db, listeners, op>> /\ op[p].pc = "idle"
  BY DEF Refused, vars, At
<1>2. Stands(r, db, listeners)
  OBVIOUS
<1> HIDE DEF r
<1>3. reply'[p] = r
  BY <1>1 DEF StandInd, AnswerInd
<1>4. ASSUME NEW q \in Proc
      PROVE  /\ op'[q].pc # "idle" => reply'[q] = NoReply
             /\ Stands(reply'[q], db', listeners')
  <2>1. q = p
    BY DEF OneAtATime
  <2> QED BY <1>1, <1>2, <1>3, <2>1
<1> QED BY <1>4 DEF StandInd

\* All refusals stand; one of a deletion with 404 found no tunnel.
LEMMA RefusalsStand ==
  ASSUME OneAtATime, StandInd, AnswerInd', AloneInd', NEW p \in Proc,
         \/ GateRefuses(p)
         \/ \E act \in Creates : CreateDeclined(p, act)
         \/ \E act \in {"extend", "delete"}, k \in Keys : ChangeDeclined(p, act, k)
  PROVE  StandInd'
<1>1. ASSUME NEW act \in Creates \cup {"extend", "delete"}, NEW k, NEW e \in DOMAIN Says,
             act = "delete" /\ e = "absent" => k \notin DOMAIN db, Declined(p, act, k, e)
      PROVE  StandInd'
  <2> DEFINE o == [Idle EXCEPT !.key = k]
  <2>1. o.key = k
    BY DEF Idle, Begun
  <2>2. Refused(p, act, k, e, StatusOf(act, e))
    BY <1>1 DEF Declined
  <2>3. Stands(Answered(act, e, StatusOf(act, e), o), db, listeners)
    <3> HIDE DEF o
    <3> QED BY <1>1, <2>1, ErrorStands
  <2> QED BY <2>2, <2>3, RefusedStands
<1>2. /\ {"ip", "duration", "port", "limit", "subdomain", "absent"} \cup RedisErrors
           \subseteq DOMAIN Says
      /\ "absent" \notin RedisErrors
  BY SaysTable DEF RedisErrors
<1>3. CASE GateRefuses(p)
  <2>1. PICK code \in {401, 403, 429, 400} : Refused(p, "none", NoKey, "gate", code)
    BY <1>3 DEF GateRefuses, Gate
  <2> DEFINE r == Answered("none", "gate", code, [Idle EXCEPT !.key = NoKey])
  <2>2. r.code = code /\ r.act = "none"
    BY DEF Answered
  <2>3. Stands(r, db, listeners)
    <3> HIDE DEF r
    <3> QED BY <2>2 DEF Stands
  <2> QED BY <2>1, <2>3, RefusedStands
<1>4. ASSUME NEW act \in Creates, CreateDeclined(p, act) PROVE StandInd'
  <2>1. \A e \in {"ip", "duration", "port", "limit"} \cup RedisErrors :
          Declined(p, act, NoKey, e) => StandInd'
    BY <1>1, <1>2 DEF Creates
  <2> QED BY <1>4, <2>1 DEF CreateDeclined
<1>5. ASSUME NEW act \in {"extend", "delete"}, NEW k \in Keys, ChangeDeclined(p, act, k)
      PROVE  StandInd'
  <2>1. \A e \in {"subdomain"} \cup RedisErrors : Declined(p, act, NoKey, e) => StandInd'
    BY <1>1, <1>2
  <2>2. ~Exists(db, k) /\ Declined(p, act, k, "absent") => StandInd'
    BY <1>1, <1>2 DEF Exists
  <2> QED BY <1>5, <2>1, <2>2 DEF ChangeDeclined
<1> QED BY <1>3, <1>4, <1>5

\* Nobody was told anything at the start.
LEMMA StandInit == ApiInit => StandInd
<1> SUFFICES ASSUME ApiInit PROVE StandInd
  OBVIOUS
<1>1. AnswerInd /\ AloneInd
  BY AnswerInit, AloneInit DEF ApiInit
<1> QED BY <1>1, NothingStands DEF StandInd, ApiInit

\* Every step keeps the invariant.
LEMMA StandNext ==
  ASSUME OneAtATime, StandInd, [ApiNext]_apiVars
  PROVE  StandInd'
<1>1. AnswerInd /\ AloneInd /\ AnswerInd' /\ AloneInd'
  BY AnswerNext, AloneNext, ApiStep DEF StandInd
<1>2. ASSUME NEW p \in Proc, ApiRequest(p) PROVE StandInd'
  <2>1. ASSUME Turned(p, "ok"), Request(p, Keys) \/ \E d \in Requested : CreateTunnel(p, d)
        PROVE  StandInd'
    <3>1. op'[p] # Idle
      <4>1. ASSUME NEW pc, NEW act, NEW k, NEW d, NEW r, NEW n,
                   Begin(p, Begun(pc, act, k, d, r, n)), pc # "idle"
            PROVE  op'[p] # Idle
        BY <1>1, <4>1, BeginMoves DEF AnswerInd, Begun, Idle
      <4> QED BY <2>1, <4>1
              DEF Request, CreateTunnel, CreateTCPTunnel, ExtendTunnel, DeleteTunnel
    <3> QED BY <1>1, <2>1, <3>1, StandTurn
  <2>2. CASE Handled(p, Request(p, Keys), "ok")
    BY <2>1, <2>2 DEF Handled, Turned, Touched, Sent, AnswerTo
  <2>3. CASE Handled(p, \E d \in Requested : CreateTunnel(p, d), "ok")
    BY <2>1, <2>3 DEF Handled, Turned, Touched, Sent, AnswerTo
  <2> QED BY <1>1, <1>2, <2>2, <2>3, RefusalsStand DEF ApiRequest
<1>3. ASSUME NEW p \in Proc, ApiProgress(p) PROVE StandInd'
  <2>1. Progress(p) /\ Turned(p, Outcome(p))
    BY <1>3 DEF ApiProgress, Handled, Turned, Touched, Sent, AnswerTo
  <2>2. op'[p] = Idle => Stands(AnswerTo(p, Outcome(p)), db', listeners')
    BY <1>1, <2>1, SearchStands, WriteStands DEF Progress
  <2> QED BY <1>1, <2>1, <2>2, StandTurn
<1>4. ASSUME NEW p \in Proc, ApiFailure(p) PROVE StandInd'
  <2>1. ASSUME Handled(p, StoreLost(p) \/ DeleteLost(p), "lost") PROVE StandInd'
    BY <1>1, <2>1, FailureStands, StandTurn DEF Handled, Turned, Touched, Sent, AnswerTo
  <2>2. ASSUME Handled(p, ListenFails(p), "listen") PROVE StandInd'
    BY <1>1, <2>2, FailureStands, StandTurn DEF Handled, Turned, Touched, Sent, AnswerTo
  <2>3. ASSUME NEW e \in RedisErrors, Handled(p, RedisError(p), e) PROVE StandInd'
    BY <1>1, <2>3, FailureStands, StandTurn DEF Handled, Turned, Touched, Sent, AnswerTo
  <2> QED BY <1>4, <2>1, <2>2, <2>3 DEF ApiFailure
<1>5. CASE /\ Tick \/ (\E k \in Keys : Evict(k)) \/ UNCHANGED vars
           /\ UNCHANGED <<reply, wrote, resent>>
  <2>1. Shrunk /\ UNCHANGED <<listeners, op>>
    BY <1>1, <1>5, EnvironmentAlone
  <2> QED BY <1>1, <1>5, <2>1, StandShrunk
<1> QED BY <1>2, <1>3, <1>4, <1>5 DEF ApiNext, apiVars

\* When requests come one at a time, what a client was told about its tunnel
\* stands until the next request: the record is the one it was shown or was
\* dropped by Redis, a TCP tunnel has its listener, a deleted one is gone.
THEOREM WhatWasToldStands ==
  ASSUME OneAtATime
  PROVE  ApiSpec => []ConfirmedStands
<1>1. StandInd => ConfirmedStands
  BY DEF StandInd, Stands, ConfirmedStands
<1>2. StandInd /\ [ApiNext]_apiVars => StandInd'
  BY StandNext
<1> QED BY <1>1, <1>2, StandInit, PTL DEF ApiSpec
=============================================================================

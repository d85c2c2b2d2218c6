---------------------------- MODULE Session_proofs ----------------------------
(***************************************************************************)
(* Theorems about an interactive session, for every set of ports and every *)
(* command line and server.                                                *)
(***************************************************************************)
EXTENDS SessionProps, TLAPS

LEMMA SessionsAreTyped ==
  ASSUME NEW s \in Sessions
  PROVE  s = [command |-> s.command, site |-> s.site] /\ s.command \in CommandType /\ s.site \in SiteType
BY SessionsAssumption

\* What the end of a round leaves, with a failed round the last one.
LEMMA RoundEnds ==
  ASSUME TypeOK, NEW v \in {"failed", "token"}, EndRound(v)
  PROVE  /\ verdict' = [verdict EXCEPT ![round] = v] /\ port' = NoPort
         /\ verdict' \in [Rounds -> {"pending", "failed", "token"}]
         /\ round' \in Rounds /\ hints' = Hinted
         /\ \/ pc' = "done" /\ round' = round
            \/ pc' = "bind" /\ round' = round + 1 /\ v = "token"
<1>1. round \in 1..3 /\ verdict \in [Rounds -> {"pending", "failed", "token"}]
  BY DEF TypeOK, Rounds
<1>2. verdict' = [verdict EXCEPT ![round] = v] /\ port' = NoPort /\ hints' = Hinted
  BY DEF EndRound
<1>3. \/ pc' = "done" /\ round' = round
      \/ pc' = "bind" /\ round' = round + 1 /\ v = "token" /\ round \in {1, 2}
  BY DEF EndRound
<1> QED
  BY <1>1, <1>2, <1>3 DEF Rounds

LEMMA HintsAreTyped ==
  ASSUME TypeOK, reported' \in [Rounds -> SUBSET Scopes]
  PROVE  Hinted \in [given : BOOLEAN, second : SUBSET Scopes]
BY DEF TypeOK, Hinted, Rounds

----------------------------------------------------------------------------
(***************************************************************************)
(* Type correctness.  A callback has a port because a page is only shown   *)
(* for a request that named one.                                           *)
(***************************************************************************)
Typing ==
  /\ TypeOK
  /\ \A k \in Rounds : page[k] # "none" => asked[k].port \in Ports

LEMMA TypeInit == Init => Typing
<1> SUFFICES ASSUME Init PROVE Typing
  OBVIOUS
<1>1. [command |-> command, site |-> site] \in Sessions
  BY SessionsAreTyped DEF Init
<1>2. plan \in [client : BOOLEAN, registered : BOOLEAN, secret : BOOLEAN, method : Methods \cup {""}]
  BY DEF Init, NoPlan
<1>3. 1 \in Rounds
  BY DEF Rounds
<1>4. hints \in [given : BOOLEAN, second : SUBSET Scopes]
  BY DEF Init, NoHints
<1>5. asked \in [Rounds -> [port : Ports \cup {NoPort}, scopes : SUBSET Scopes]]
  BY DEF Init, NoRequest
<1> QED
  BY <1>1, <1>2, <1>3, <1>4, <1>5 DEF Init, Typing, TypeOK

LEMMA FormAuthIsAMethod == FormAuth \in Methods \cup {""}
BY DEF FormAuth, Methods

\* The ends of a round with an error.
LEMMA FailureIsTyped ==
  ASSUME Typing, EndRound("failed"),
         UNCHANGED <<inputs, plan, server, browser, came, code, reported>>,
         asked' \in [Rounds -> [port : Ports \cup {NoPort}, scopes : SUBSET Scopes]],
         \A k \in Rounds : page[k] # "none" => asked'[k].port \in Ports,
         shown' \subseteq Methods \cup {""}, lost' \subseteq Rounds
  PROVE  Typing'
<1>1. Hinted \in [given : BOOLEAN, second : SUBSET Scopes]
  BY HintsAreTyped DEF Typing, TypeOK
<1> QED
  BY <1>1, RoundEnds DEF Typing, TypeOK, inputs, server, browser

LEMMA RequestIsTyped ==
  ASSUME TypeOK
  PROVE  /\ Requested.port = port
         /\ [asked EXCEPT ![round] = Requested]
              \in [Rounds -> [port : Ports \cup {NoPort}, scopes : SUBSET Scopes]]
<1>1. command.scopes \in SUBSET Scopes /\ site.declared \in SUBSET Scopes
  BY SessionsAreTyped DEF TypeOK, CommandType, SiteType
<1>2. round \in {1, 2, 3}
  <2>1. round \in Rounds
    BY DEF TypeOK
  <2> QED
    BY <2>1 DEF Rounds
<1>3. Requested.scopes \in SUBSET Scopes /\ Requested.port = port
  BY <1>1, <1>2 DEF Requested, Scopes
<1>4. Requested \in [port : Ports \cup {NoPort}, scopes : SUBSET Scopes]
  BY <1>3 DEF Requested, TypeOK
<1> QED
  BY <1>3, <1>4 DEF TypeOK

LEMMA GrantsAreScopes == TypeOK => \A k \in Rounds : Grants(k) \in SUBSET Scopes /\ Told(k) \in SUBSET Scopes
<1> SUFFICES ASSUME TypeOK, NEW k \in Rounds PROVE Grants(k) \in SUBSET Scopes /\ Told(k) \in SUBSET Scopes
  OBVIOUS
<1>1. site.keeps \in {"asked", "all", "added"}
  BY SessionsAreTyped DEF TypeOK, SiteType
<1>2. asked[k].scopes \in SUBSET Scopes /\ UNION {granted[j] : j \in Rounds} \in SUBSET Scopes
  <2>1. granted \in [Rounds -> SUBSET Scopes]
        /\ asked \in [Rounds -> [port : Ports \cup {NoPort}, scopes : SUBSET Scopes]]
    BY DEF TypeOK
  <2>2. \A j \in Rounds : granted[j] \subseteq Scopes
    BY <2>1
  <2> QED
    BY <2>1, <2>2
<1> QED
  BY <1>1, <1>2 DEF Grants, Told, TypeOK

LEMMA PlanIsTyped ==
  ASSUME TypeOK
  PROVE  /\ TokenAuthMethod(command.method, site.advertised, command.secret) \in Methods \cup {""}
         /\ RegisteredAuthMethod \in Methods \cup {""}
         /\ command.clientID \in BOOLEAN /\ command.secret \in BOOLEAN
<1>1. command \in CommandType /\ site \in SiteType
  BY SessionsAreTyped DEF TypeOK
<1> QED
  BY <1>1 DEF CommandType, SiteType, TokenAuthMethod, RegisteredAuthMethod, Methods

LEMMA TypeStep == Typing /\ [Next]_vars => Typing'
<1> SUFFICES ASSUME Typing, [Next]_vars PROVE Typing'
  OBVIOUS
<1>0. TypeOK /\ \A k \in Rounds : page[k] # "none" => asked[k].port \in Ports
  BY DEF Typing
<1> USE DEF inputs, browser, server, history
<1>1. CASE Listen
  BY <1>0, <1>1, PortsAssumption DEF Typing, TypeOK, Listen
<1>2. CASE TakeClient
  BY <1>0, <1>2, PlanIsTyped DEF Typing, TypeOK, TakeClient
<1>3. CASE RegisterClient
  <2>1. port \in Ports
    BY <1>0, <1>3 DEF TypeOK, RegisterClient
  <2> QED
    BY <1>0, <1>3, <2>1, PlanIsTyped DEF Typing, TypeOK, RegisterClient
<1>4. CASE Bind
  BY <1>0, <1>4, PortsAssumption DEF Typing, TypeOK, Bind
<1>5. CASE Authorize
  <2>1. shown' \subseteq Methods \cup {""}
    BY <1>0, <1>5, FormAuthIsAMethod DEF Authorize, Pushed, TypeOK
  <2>2. port \in Ports
    BY <1>0, <1>5 DEF TypeOK, Authorize
  <2> QED
    BY <1>0, <1>5, <2>1, <2>2, RequestIsTyped DEF Typing, TypeOK, Authorize
<1>6. CASE PushFails
  <2>1. shown' \subseteq Methods \cup {""}
    BY <1>0, <1>6, FormAuthIsAMethod DEF PushFails, Pushed, TypeOK
  <2>2. lost' \subseteq Rounds
    <3>1. lost \subseteq Rounds /\ round \in Rounds
      BY <1>0 DEF TypeOK
    <3>2. lost' = lost \/ lost' = lost \cup {round}
      BY <1>6 DEF PushFails
    <3> QED
      BY <3>1, <3>2
  <2>3. port \in Ports
    BY <1>0, <1>6 DEF TypeOK, PushFails
  <2>4. \A k \in Rounds : page[k] # "none" => asked'[k].port \in Ports
    BY <1>0, <1>6, <2>3, RequestIsTyped DEF PushFails, TypeOK
  <2> QED
    BY <1>0, <1>6, <2>1, <2>2, <2>4, RequestIsTyped, FailureIsTyped DEF PushFails
<1>7. CASE Receive
  <2>1. PICK t \in came[round] : code' = [code EXCEPT ![round] = t.code]
    BY <1>7 DEF Receive
  <2>2. t.code \in Rounds \cup {NoCode}
    <3>1. came[round] \in SUBSET Callbacks
      BY <1>0 DEF TypeOK
    <3> QED
      BY <2>1, <3>1 DEF Callbacks
  <2> QED
    BY <1>0, <1>7, <2>1, <2>2 DEF Typing, TypeOK, Receive
<1>8. CASE Reject
  BY <1>0, <1>8, FailureIsTyped DEF Reject, TypeOK
<1>9. CASE Exchange
  <2>1. reported' \in [Rounds -> SUBSET Scopes]
    BY <1>0, <1>9, GrantsAreScopes DEF Exchange, TypeOK
  <2>2. shown' \subseteq Methods \cup {""}
    BY <1>0, <1>9, FormAuthIsAMethod DEF Exchange, TypeOK
  <2>3. Hinted \in [given : BOOLEAN, second : SUBSET Scopes]
    BY <1>0, <2>1, HintsAreTyped
  <2> QED
    BY <1>0, <1>9, <2>1, <2>2, <2>3, RoundEnds DEF Exchange, Typing, TypeOK
<1>10. CASE ExchangeFails
  <2>1. shown' \subseteq Methods \cup {""}
    BY <1>0, <1>10, FormAuthIsAMethod DEF ExchangeFails, TypeOK
  <2>2. lost' \subseteq Rounds
    <3>1. lost \subseteq Rounds /\ round \in Rounds
      BY <1>0 DEF TypeOK
    <3>2. lost' = lost \/ lost' = lost \cup {round}
      BY <1>10 DEF ExchangeFails
    <3> QED
      BY <3>1, <3>2
  <2> QED
    BY <1>0, <1>10, <2>1, <2>2, FailureIsTyped DEF ExchangeFails, TypeOK
<1>11. ASSUME NEW k \in Rounds, Approve(k) \/ Deny(k) PROVE Typing'
  <2>1. PICK c \in Rounds \cup {NoCode} : Redirect(k, c)
    BY <1>11 DEF Approve, Deny
  <2>2. [port |-> asked[k].port, state |-> k, code |-> c] \in Callbacks
    BY <1>0, <2>1 DEF Redirect, Callbacks
  <2>3. granted' \in [Rounds -> SUBSET Scopes]
    <3>1. granted \in [Rounds -> SUBSET Scopes] /\ Grants(k) \in SUBSET Scopes
      BY <1>0, GrantsAreScopes DEF TypeOK
    <3>2. granted' = granted \/ granted' = [granted EXCEPT ![k] = Grants(k)]
      BY <1>11 DEF Approve, Deny
    <3> QED
      BY <3>1, <3>2
  <2> QED
    BY <1>0, <1>11, <2>1, <2>2, <2>3 DEF Approve, Deny, Typing, TypeOK, Redirect
<1>12. ASSUME NEW t \in tabs, Load(t) PROVE Typing'
  <2>1. t \in Callbacks /\ round \in Rounds /\ came \in [Rounds -> SUBSET Callbacks]
    BY <1>0 DEF TypeOK
  <2>2. came' = [came EXCEPT ![round] = @ \cup {t}]
    BY <1>12 DEF Load
  <2>3. came[round] \cup {t} \in SUBSET Callbacks
    BY <2>1
  <2>4. came' \in [Rounds -> SUBSET Callbacks]
    BY <2>1, <2>2, <2>3
  <2> QED
    BY <1>0, <1>12, <2>4 DEF Load, Typing, TypeOK
<1>13. CASE UNCHANGED vars
  BY <1>0, <1>13 DEF vars, Typing, TypeOK
<1> QED
  BY <1>1, <1>2, <1>3, <1>4, <1>5, <1>6, <1>7, <1>8, <1>9, <1>10, <1>11, <1>12, <1>13
  DEF Next, Program, Person

LEMMA TypingAlways == Spec => []Typing
BY TypeInit, TypeStep, PTL DEF Spec

\* The variables of a session have their types, and a listener is open exactly
\* while a round, or the registration before the first, needs one.
THEOREM SessionTyping == Spec => []TypeOK
<1>1. Typing => TypeOK
  BY DEF Typing
<1> QED
  BY <1>1, TypingAlways, PTL

----------------------------------------------------------------------------
(***************************************************************************)
(* Rounds come one after the other, and what a round has not come to yet   *)
(* is as it was at the beginning.                                          *)
(***************************************************************************)
Ahead(k) == k > round \/ (k = round /\ pc \in {"listen", "resolve", "bind", "authorize"})

Order ==
  /\ pc \in {"listen", "resolve"} => round = 1
  /\ pc = "bind" => round # 1
  /\ \A k \in Rounds : Ahead(k) => page[k] = "none" /\ came[k] = {} /\ code[k] = NoCode /\ verdict[k] = "pending"
  /\ \A k \in Rounds : verdict[k] = "failed" => pc = "done" /\ k = round
  /\ \A k \in Rounds : verdict[k] = "token" => k < round \/ (k = round /\ pc = "done")
  /\ pc \in {"waiting", "exchange"} => asked[round].port = port
  /\ pc = "waiting" => code[round] = NoCode

(***************************************************************************)
(* A callback carries what its round asked with, whichever listener it     *)
(* reaches, and a code stands for a grant.                                 *)
(***************************************************************************)
Redirected ==
  /\ \A t \in tabs :
       /\ t.port = asked[t.state].port /\ page[t.state] = "answered"
       /\ t.code \in {NoCode, t.state}
       /\ t.code # NoCode /\ asked[t.state].scopes # {} => granted[t.state] # {}
  /\ \A k \in Rounds : came[k] \subseteq tabs /\ \A t \in came[k] : t.port = asked[k].port
  /\ \A k \in Rounds : code[k] # NoCode => \E t \in came[k] : t.state = k /\ t.code = code[k]
  /\ \A k \in Rounds : verdict[k] = "token" => code[k] # NoCode
  /\ pc = "exchange" => code[round] # NoCode

(***************************************************************************)
(* What the server has on file, and what the hints stand for.              *)
(***************************************************************************)
OnFile ==
  /\ plan.registered /\ round = 1 /\ pc \in {"authorize", "waiting", "exchange"} => redirects = {port}
  /\ pc = "waiting" /\ page[round] = "refused" => ~Valid

Accumulated ==
  /\ round = 3 /\ pc \in {"waiting", "exchange"} => asked[3].scopes = Scopes
  /\ hints.given <=> verdict[3] = "token"
  /\ verdict[3] = "token" =>
       hints.second = reported[3] /\ reported[3] = Told(3) /\ asked[3].scopes = Scopes

\* The functions of the rounds, without what they map to.
LEMMA Shape ==
  Typing =>
    /\ round \in Rounds /\ 1 \in Rounds /\ 3 \in Rounds /\ \A k \in Rounds : k \in Nat
    /\ port \in Ports \cup {NoPort}
    /\ asked = [k \in Rounds |-> asked[k]] /\ page = [k \in Rounds |-> page[k]]
    /\ came = [k \in Rounds |-> came[k]] /\ code = [k \in Rounds |-> code[k]]
    /\ verdict = [k \in Rounds |-> verdict[k]]
    /\ granted = [k \in Rounds |-> granted[k]] /\ reported = [k \in Rounds |-> reported[k]]
    /\ tabs \subseteq Callbacks
<1>1. 1 \in Rounds /\ 3 \in Rounds /\ \A k \in Rounds : k \in Nat
  BY DEF Rounds
<1> QED
  BY <1>1 DEF Typing, TypeOK

----------------------------------------------------------------------------
LEMMA OrderInit == Init => Order
<1>1. 1 \in Rounds /\ \A k \in Rounds : k \in Nat
  BY DEF Rounds
<1> QED
  BY <1>1 DEF Init, Order, Ahead

LEMMA OrderEnds ==
  ASSUME Typing, Order, NEW v \in {"failed", "token"}, EndRound(v), UNCHANGED <<page, came, code>>,
         pc \in {"authorize", "waiting", "exchange"}
  PROVE  Order'
<1>1. /\ verdict' = [verdict EXCEPT ![round] = v] /\ round' \in Rounds
      /\ \/ pc' = "done" /\ round' = round
         \/ pc' = "bind" /\ round' = round + 1 /\ v = "token"
  BY RoundEnds DEF Typing
<1>2. verdict'[round] = v /\ \A k \in Rounds \ {round} : verdict'[k] = verdict[k]
  BY <1>1, Shape
<1>3. \A k \in Rounds : verdict[k] # "failed" /\ (verdict[k] = "token" => k < round)
  BY DEF Order
<1>4. ASSUME NEW k \in Rounds, Ahead(k)' PROVE Ahead(k) /\ k # round
  BY <1>1, <1>4, Shape DEF Ahead
<1>5. ASSUME NEW k \in Rounds, verdict'[k] = "failed" PROVE pc' = "done" /\ k = round'
  BY <1>1, <1>2, <1>3, <1>5
<1>6. ASSUME NEW k \in Rounds, verdict'[k] = "token" PROVE k < round' \/ (k = round' /\ pc' = "done")
  BY <1>1, <1>2, <1>3, <1>6, Shape
<1>7. pc' = "bind" => round' # 1
  <2>1. round \in Nat /\ round # 0
    BY Shape DEF Rounds
  <2> QED
    BY <1>1, <2>1
<1> QED
  BY <1>1, <1>2, <1>4, <1>5, <1>6, <1>7 DEF Order

LEMMA OrderStep == Typing /\ Order /\ [Next]_vars => Order'
<1> SUFFICES ASSUME Typing, Order, [Next]_vars PROVE Order'
  OBVIOUS
<1> USE DEF inputs, browser, server, history
<1>1. CASE Listen \/ TakeClient \/ RegisterClient \/ Bind
  BY <1>1, Shape DEF Listen, TakeClient, RegisterClient, Bind, Order, Ahead
<1>2. CASE Authorize
  BY <1>2, Shape, RequestIsTyped DEF Authorize, Order, Ahead, Typing
<1>3. CASE Receive
  BY <1>3, Shape DEF Receive, Order, Ahead
<1>4. CASE PushFails \/ Reject \/ Exchange \/ ExchangeFails
  BY <1>4, OrderEnds DEF PushFails, Reject, Exchange, ExchangeFails
<1>5. ASSUME NEW k \in Rounds, Approve(k) \/ Deny(k) PROVE Order'
  <2>1. page[k] = "open" /\ page' = [page EXCEPT ![k] = "answered"]
    BY <1>5 DEF Approve, Deny, Redirect
  <2>2. \A j \in Rounds : Ahead(j) => page'[j] = "none"
    BY <2>1, Shape DEF Order
  <2> QED
    BY <1>5, <2>2 DEF Approve, Deny, Order, Ahead
<1>6. ASSUME NEW t \in tabs, Load(t) PROVE Order'
  <2>1. ~Ahead(round) /\ \A k \in Rounds : Ahead(k) => came'[k] = came[k]
    BY <1>6, Shape DEF Load, Ahead
  <2> QED
    BY <1>6, <2>1 DEF Load, Order, Ahead
<1>7. CASE UNCHANGED vars
  BY <1>7 DEF vars, Order, Ahead
<1> QED
  BY <1>1, <1>2, <1>3, <1>4, <1>5, <1>6, <1>7 DEF Next, Program, Person

----------------------------------------------------------------------------
LEMMA RedirectedInit == Init => Redirected
BY DEF Init, Redirected

\* What a step keeps that touches neither the callbacks nor the codes.
LEMMA RedirectedKept ==
  ASSUME Typing, Redirected, UNCHANGED <<asked, page, tabs, came, code, verdict, granted>>,
         pc' # "exchange"
  PROVE  Redirected'
BY DEF Redirected

\* Asking for a round that nothing has come back to yet.
LEMMA RedirectedAsks ==
  ASSUME Typing, Order, Redirected, pc = "authorize", asked' = [asked EXCEPT ![round] = Requested],
         UNCHANGED <<tabs, came, code, granted>>,
         \A k \in Rounds \ {round} : page'[k] = page[k],
         \A k \in Rounds : verdict'[k] = "token" => verdict[k] = "token",
         pc' # "exchange"
  PROVE  Redirected'
<1>1. Ahead(round) /\ round \in Rounds
  BY Shape DEF Ahead
<1>2. page[round] = "none" /\ came[round] = {} /\ code[round] = NoCode
  BY <1>1 DEF Order
<1>3. \A t \in tabs : t.state \in Rounds \ {round}
  BY <1>2, Shape DEF Redirected, Callbacks
<1>4. \A k \in Rounds \ {round} : asked'[k] = asked[k]
  BY Shape
<1> QED
  BY <1>2, <1>3, <1>4 DEF Redirected

LEMMA RedirectedEnds ==
  ASSUME Typing, Redirected, NEW v \in {"failed", "token"}, EndRound(v),
         UNCHANGED <<asked, page, tabs, came, code, granted>>,
         v = "token" => code[round] # NoCode
  PROVE  Redirected'
<1>1. verdict' = [verdict EXCEPT ![round] = v] /\ pc' # "exchange"
  BY RoundEnds DEF Typing
<1>2. \A k \in Rounds : verdict'[k] = "token" => code[k] # NoCode
  BY <1>1, Shape DEF Redirected
<1> QED
  BY <1>1, <1>2 DEF Redirected

LEMMA RedirectedStep == Typing /\ Order /\ Redirected /\ [Next]_vars => Redirected'
<1> SUFFICES ASSUME Typing, Order, Redirected, [Next]_vars PROVE Redirected'
  OBVIOUS
<1> USE DEF inputs, browser, server, history
<1>1. CASE Listen \/ TakeClient \/ RegisterClient \/ Bind
  BY <1>1, RedirectedKept DEF Listen, TakeClient, RegisterClient, Bind
<1>2. CASE Authorize
  <2>1. \A k \in Rounds \ {round} : page'[k] = page[k]
    BY <1>2, Shape DEF Authorize
  <2> QED
    BY <1>2, <2>1, RedirectedAsks DEF Authorize
<1>3. CASE PushFails
  <2>1. verdict' = [verdict EXCEPT ![round] = "failed"] /\ pc' # "exchange"
    BY <1>3, RoundEnds DEF PushFails, Typing
  <2>2. \A k \in Rounds : verdict'[k] = "token" => verdict[k] = "token"
    BY <2>1, Shape
  <2> QED
    BY <1>3, <2>1, <2>2, RedirectedAsks DEF PushFails
<1>4. CASE Receive
  <2>1. PICK t \in came[round] :
          t.state = round /\ t.code # NoCode /\ code' = [code EXCEPT ![round] = t.code]
    BY <1>4 DEF Receive
  <2>2. code'[round] = t.code /\ \A k \in Rounds \ {round} : code'[k] = code[k]
    BY <2>1, Shape
  <2>3. UNCHANGED <<round, asked, page, tabs, came, verdict, granted>>
    BY <1>4 DEF Receive
  <2>4. ASSUME NEW k \in Rounds, code'[k] # NoCode PROVE \E u \in came[k] : u.state = k /\ u.code = code'[k]
    BY <2>1, <2>2, <2>4 DEF Redirected
  <2>5. \A k \in Rounds : verdict[k] = "token" => code'[k] # NoCode
    BY <2>1, <2>2 DEF Redirected
  <2>6. code'[round] # NoCode
    BY <2>1, <2>2
  <2> QED
    BY <2>3, <2>4, <2>5, <2>6 DEF Redirected
<1>5. CASE Reject \/ ExchangeFails
  BY <1>5, RedirectedEnds DEF Reject, ExchangeFails
<1>6. CASE Exchange
  <2>1. code[round] # NoCode
    BY <1>6 DEF Exchange, Redirected
  <2> QED
    BY <1>6, <2>1, RedirectedEnds DEF Exchange
<1>7. ASSUME NEW k \in Rounds, Approve(k) \/ Deny(k) PROVE Redirected'
  <2>1. PICK c \in {k, NoCode} : /\ tabs' = tabs \cup {[port |-> asked[k].port, state |-> k, code |-> c]}
                                 /\ page' = [page EXCEPT ![k] = "answered"] /\ page[k] = "open"
                                 /\ c = k /\ asked[k].scopes # {} => granted'[k] # {}
    <3>1. Approve(k) => granted' = [granted EXCEPT ![k] = Grants(k)]
                        /\ (asked[k].scopes # {} => Grants(k) # {})
      BY DEF Approve
    <3>2. Approve(k) /\ asked[k].scopes # {} => granted'[k] # {}
      BY <3>1, Shape
    <3>3. k # NoCode
      BY DEF Rounds, NoCode
    <3> QED
      BY <1>7, <3>2, <3>3 DEF Approve, Deny, Redirect
  <2>2. UNCHANGED <<pc, round, asked, came, code, verdict>>
        /\ \A j \in Rounds \ {k} : granted'[j] = granted[j] /\ page'[j] = page[j]
    BY <1>7, <2>1, Shape DEF Approve, Deny
  <2>3. \A t \in tabs : t.state \in Rounds \ {k}
    BY <2>1, Shape DEF Redirected, Callbacks
  <2>4. page'[k] = "answered"
    BY <2>1, Shape
  <2>5. ASSUME NEW t \in tabs'
        PROVE  /\ t.port = asked[t.state].port /\ page'[t.state] = "answered"
               /\ t.code \in {NoCode, t.state}
               /\ t.code # NoCode /\ asked[t.state].scopes # {} => granted'[t.state] # {}
    <3>1. CASE t \in tabs
      BY <2>2, <2>3, <3>1 DEF Redirected
    <3>2. CASE t = [port |-> asked[k].port, state |-> k, code |-> c]
      BY <2>1, <2>4, <3>2
    <3> QED
      BY <2>1, <2>5, <3>1, <3>2
  <2> QED
    BY <2>1, <2>2, <2>5 DEF Redirected
<1>8. ASSUME NEW t \in tabs, Load(t) PROVE Redirected'
  <2>1. t.port = port /\ pc = "waiting" /\ came' = [came EXCEPT ![round] = @ \cup {t}]
        /\ UNCHANGED <<pc, round, asked, page, tabs, code, verdict, granted>>
    BY <1>8 DEF Load
  <2>2. t.port = asked[round].port
    BY <2>1 DEF Order
  <2>3. came'[round] = came[round] \cup {t} /\ \A k \in Rounds \ {round} : came'[k] = came[k]
    BY <2>1, Shape
  <2> QED
    BY <2>1, <2>2, <2>3 DEF Redirected
<1>9. CASE UNCHANGED vars
  BY <1>9 DEF vars, Redirected
<1> QED
  BY <1>1, <1>2, <1>3, <1>4, <1>5, <1>6, <1>7, <1>8, <1>9 DEF Next, Program, Person

----------------------------------------------------------------------------
LEMMA OnFileInit == Init => OnFile
BY DEF Init, OnFile

LEMMA OnFileStep == Typing /\ Order /\ OnFile /\ [Next]_vars => OnFile'
<1> SUFFICES ASSUME Typing, Order, OnFile, [Next]_vars PROVE OnFile'
  OBVIOUS
<1> USE DEF inputs, browser, server, history
<1>1. CASE Listen \/ TakeClient \/ RegisterClient
  BY <1>1 DEF Listen, TakeClient, RegisterClient, OnFile
<1>2. CASE Bind
  BY <1>2 DEF Bind, OnFile, Order
<1>3. CASE Authorize
  <2>1. page'[round] = IF Valid THEN "open" ELSE "refused"
    BY <1>3, Shape DEF Authorize
  <2> QED
    BY <1>3, <2>1 DEF Authorize, OnFile, Valid, RedirectKnown
<1>4. CASE Receive
  BY <1>4 DEF Receive, OnFile
<1>5. CASE PushFails \/ Reject \/ Exchange \/ ExchangeFails
  <2>1. pc' \in {"done", "bind"}
    BY <1>5, RoundEnds DEF PushFails, Reject, Exchange, ExchangeFails, Typing
  <2> QED
    BY <2>1 DEF OnFile
<1>6. ASSUME NEW k \in Rounds, Approve(k) \/ Deny(k) PROVE OnFile'
  <2>1. \A j \in Rounds : page'[j] = "refused" => page[j] = "refused"
    BY <1>6, Shape DEF Approve, Deny, Redirect
  <2> QED
    BY <1>6, <2>1, Shape DEF Approve, Deny, OnFile, Valid, RedirectKnown
<1>7. ASSUME NEW t \in tabs, Load(t) PROVE OnFile'
  BY <1>7 DEF Load, OnFile, Valid, RedirectKnown
<1>8. CASE UNCHANGED vars
  BY <1>8 DEF vars, OnFile, Valid, RedirectKnown
<1> QED
  BY <1>1, <1>2, <1>3, <1>4, <1>5, <1>6, <1>7, <1>8 DEF Next, Program, Person

----------------------------------------------------------------------------
LEMMA AccumulatedInit == Init => Accumulated
<1>1. 3 \in Rounds
  BY DEF Rounds
<1> QED
  BY <1>1 DEF Init, Accumulated, NoHints

LEMMA AccumulatedKept ==
  ASSUME Accumulated, UNCHANGED <<site, hints, asked, verdict, reported>>,
         verdict[3] = "token" => granted'[3] = granted[3],
         pc' \in {"waiting", "exchange"} => round' = round /\ pc \in {"waiting", "exchange"}
  PROVE  Accumulated'
BY DEF Accumulated, Told

\* The last round ends with an error, or an earlier one ends.
LEMMA AccumulatedEnds ==
  ASSUME Typing, Order, Accumulated, NEW v \in {"failed", "token"}, EndRound(v),
         UNCHANGED <<site, granted>>,
         pc \in {"authorize", "waiting", "exchange"},
         round # 3 => asked'[3] = asked[3] /\ reported'[3] = reported[3],
         v = "token" => /\ asked' = asked /\ pc = "exchange"
                        /\ round = 3 => reported'[3] = Told(3)
  PROVE  Accumulated'
<1>1. verdict' = [verdict EXCEPT ![round] = v] /\ hints' = Hinted /\ pc' \in {"done", "bind"}
  BY RoundEnds DEF Typing
<1>2. CASE round = 3
  <2>1. verdict'[3] = v /\ verdict[3] # "token" /\ ~hints.given
    BY <1>1, <1>2, Shape DEF Order, Accumulated
  <2>2. CASE v = "token"
    BY <1>1, <1>2, <2>1, <2>2 DEF Hinted, Accumulated, Told
  <2>3. CASE v = "failed"
    BY <1>1, <1>2, <2>1, <2>3 DEF Hinted, Accumulated
  <2> QED
    BY <2>2, <2>3
<1>3. CASE round # 3
  <2>1. verdict'[3] = verdict[3] /\ hints' = hints
    BY <1>1, <1>3, Shape DEF Hinted
  <2> QED
    BY <1>1, <1>3, <2>1 DEF Accumulated, Told
<1> QED
  BY <1>2, <1>3

LEMMA AccumulatedStep == Typing /\ Order /\ Redirected /\ Accumulated /\ [Next]_vars => Accumulated'
<1> SUFFICES ASSUME Typing, Order, Redirected, Accumulated, [Next]_vars PROVE Accumulated'
  OBVIOUS
<1> USE DEF inputs, browser, server, history
<1>1. CASE Listen \/ TakeClient \/ RegisterClient \/ Bind
  BY <1>1, AccumulatedKept DEF Listen, TakeClient, RegisterClient, Bind
<1>2. CASE Authorize
  <2>1. verdict[3] # "token" \/ round # 3
    BY <1>2, Shape DEF Authorize, Order
  <2>2. round = 3 => asked'[3].scopes = Scopes
    BY <1>2, Shape DEF Authorize, Requested, Scopes
  <2>3. round # 3 => asked'[3] = asked[3]
    BY <1>2, Shape DEF Authorize
  <2> QED
    BY <1>2, <2>1, <2>2, <2>3 DEF Authorize, Accumulated, Told
<1>3. CASE Receive
  BY <1>3, AccumulatedKept DEF Receive
<1>4. CASE PushFails
  <2>1. round # 3 => asked'[3] = asked[3]
    BY <1>4, Shape DEF PushFails
  <2> QED
    BY <1>4, <2>1, AccumulatedEnds DEF PushFails
<1>5. CASE Reject \/ ExchangeFails
  BY <1>5, AccumulatedEnds DEF Reject, ExchangeFails
<1>6. CASE Exchange
  <2>1. /\ round = 3 => reported'[3] = Told(3)
        /\ round # 3 => reported'[3] = reported[3]
    BY <1>6, Shape DEF Exchange
  <2> QED
    BY <1>6, <2>1, AccumulatedEnds DEF Exchange
<1>7. ASSUME NEW k \in Rounds, Approve(k) \/ Deny(k) PROVE Accumulated'
  <2>1. page[k] = "open"
    BY <1>7 DEF Approve, Deny, Redirect
  <2>2. ASSUME verdict[3] = "token" PROVE page[3] = "answered"
    <3>1. 3 \in Rounds /\ code[3] # NoCode
      BY <2>2, Shape DEF Redirected
    <3>2. PICK t \in came[3] : t.state = 3
      BY <3>1 DEF Redirected
    <3> QED
      BY <3>1, <3>2 DEF Redirected
  <2>3. verdict[3] = "token" => granted'[3] = granted[3]
    BY <1>7, <2>1, <2>2, Shape DEF Approve, Deny
  <2> QED
    BY <1>7, <2>3, AccumulatedKept DEF Approve, Deny
<1>8. ASSUME NEW t \in tabs, Load(t) PROVE Accumulated'
  BY <1>8, AccumulatedKept DEF Load
<1>9. CASE UNCHANGED vars
  BY <1>9, AccumulatedKept DEF vars
<1> QED
  BY <1>1, <1>2, <1>3, <1>4, <1>5, <1>6, <1>7, <1>8, <1>9 DEF Next, Program, Person

----------------------------------------------------------------------------
SessionInv == Typing /\ Order /\ Redirected /\ OnFile /\ Accumulated

LEMMA SessionAlways == Spec => []SessionInv
<1>1. Init => SessionInv
  BY TypeInit, OrderInit, RedirectedInit, OnFileInit, AccumulatedInit DEF SessionInv
<1>2. SessionInv /\ [Next]_vars => SessionInv'
  BY TypeStep, OrderStep, RedirectedStep, OnFileStep, AccumulatedStep DEF SessionInv
<1> QED
  BY <1>1, <1>2, PTL DEF Spec

\* A code a round redeems is its own, on whichever port the browser brings back the
\* callbacks of the others.
THEOREM OwnCode == Spec => []OwnCodeRedeemed
<1>1. SessionInv => OwnCodeRedeemed
  <2> SUFFICES ASSUME SessionInv, NEW k \in Rounds, code[k] # NoCode PROVE code[k] = k
    BY DEF OwnCodeRedeemed
  <2>1. PICK t \in came[k] : t.state = k /\ t.code = code[k]
    BY DEF SessionInv, Redirected
  <2> QED
    BY <2>1 DEF SessionInv, Redirected
<1> QED
  BY <1>1, SessionAlways, PTL

\* A round that waits has a page to be answered, or a client or redirect URI the
\* server does not know.
THEOREM PageToAnswer == Spec => []WaitsForThePerson
<1>1. SessionInv => WaitsForThePerson
  BY DEF SessionInv, OnFile, WaitsForThePerson, Valid, RedirectKnown
<1> QED
  BY <1>1, SessionAlways, PTL

\* The step-up row passes only on a token that carries what was granted before, and
\* fails only on one that lacks a scope it was asked for with.
THEOREM StepUpRowEarned == Spec => []StepUpRowIsEarned
<1>1. SessionInv => StepUpRowIsEarned
  <2> SUFFICES ASSUME SessionInv, StepUpRow # "untested" PROVE StepUpRowIsEarned
    BY DEF StepUpRowIsEarned
  <2>1. hints.given /\ hints.second # {}
    BY DEF StepUpRow
  <2>2. verdict[3] = "token" /\ hints.second = granted[3] /\ asked[3].scopes = Scopes
    BY <2>1 DEF SessionInv, Accumulated, Told
  <2>3. granted[1] \cup granted[2] \subseteq Scopes
    <3>1. granted \in [Rounds -> SUBSET Scopes]
      BY DEF SessionInv, Typing, TypeOK
    <3>2. 1 \in Rounds /\ 2 \in Rounds
      BY DEF Rounds
    <3> QED
      BY <3>1, <3>2
  <2> QED
    BY <2>2, <2>3 DEF StepUpRowIsEarned, StepUpRow, HasBoth
<1> QED
  BY <1>1, SessionAlways, PTL

----------------------------------------------------------------------------
(***************************************************************************)
(* Why a round fails.                                                      *)
(***************************************************************************)
Explained(k) ==
  \/ k \in lost
  \/ \E t \in came[k] : t.state = k /\ t.code = NoCode
  \/ \E j \in 1..(k - 1) : asked[j].port = asked[k].port
  \/ ~Accepts(FormAuth)
  \/ site.par /\ ~(plan.client /\ RedirectKnown(asked[k].port))

LEMMA FailsOnce ==
  ASSUME Typing, Order, pc # "done", EndRound("failed"), NEW k \in Rounds, k = round, Explained(k)'
  PROVE  FailureExplained'
<1>1. verdict' = [verdict EXCEPT ![round] = "failed"]
  BY RoundEnds DEF Typing
<1>2. \A j \in Rounds : verdict'[j] = "failed" => j = k
  BY <1>1, Shape DEF Order
<1> QED
  BY <1>2 DEF FailureExplained, Explained

LEMMA FailureStep ==
  SessionInv /\ FailureExplained /\ [Next]_vars => FailureExplained'
<1> SUFFICES ASSUME SessionInv, FailureExplained, [Next]_vars PROVE FailureExplained'
  OBVIOUS
<1>0. Typing /\ Order /\ Redirected
  BY DEF SessionInv
<1> USE DEF inputs, browser, server, history
<1>1. ASSUME pc # "done", \A k \in Rounds : verdict'[k] # "failed" \/ verdict'[k] = verdict[k]
      PROVE FailureExplained'
  <2>1. \A k \in Rounds : verdict'[k] # "failed"
    BY <1>0, <1>1 DEF Order
  <2> QED
    BY <2>1 DEF FailureExplained
<1>2. CASE Listen \/ TakeClient \/ RegisterClient \/ Bind
  BY <1>1, <1>2 DEF Listen, TakeClient, RegisterClient, Bind
<1>3. CASE Authorize \/ Receive
  BY <1>1, <1>3 DEF Authorize, Receive
<1>4. ASSUME PushFails, NEW k \in Rounds, k = round PROVE FailureExplained'
  <2>1. asked'[k].port = port
    BY <1>0, <1>4, Shape, RequestIsTyped DEF PushFails, Typing
  <2>2. UNCHANGED <<site, plan, redirects>>
    BY <1>4 DEF PushFails
  <2>3. CASE k \in lost'
    BY <1>0, <1>4, <2>3, FailsOnce DEF PushFails, Explained
  <2>4. CASE ~Accepts(FormAuth)
    <3>1. ~Accepts(FormAuth)'
      BY <2>2, <2>4 DEF Accepts, FormAuth
    <3> QED
      BY <1>0, <1>4, <3>1, FailsOnce DEF PushFails, Explained
  <2>5. CASE ~Valid
    <3>1. (~(plan.client /\ RedirectKnown(asked[k].port)))' /\ site'.par
      BY <1>4, <2>1, <2>2, <2>5 DEF PushFails, Valid, RedirectKnown
    <3> QED
      BY <1>0, <1>4, <3>1, FailsOnce DEF PushFails, Explained
  <2> QED
    BY <1>4, <2>3, <2>4, <2>5 DEF PushFails
<1>5. ASSUME Reject, NEW k \in Rounds, k = round PROVE FailureExplained'
  <2>1. PICK t \in came[k] : t.state # k \/ t.code = NoCode
    BY <1>5 DEF Reject
  <2>2. UNCHANGED <<asked, came>> /\ pc = "waiting" /\ EndRound("failed")
    BY <1>5 DEF Reject
  <2>3. CASE t.state = k
    <3>1. Explained(k)'
      BY <2>1, <2>2, <2>3 DEF Explained
    <3> QED
      BY <1>0, <1>5, <2>2, <3>1, FailsOnce
  <2>4. CASE t.state # k
    <3>1. asked[t.state].port = asked[k].port /\ page[t.state] = "answered" /\ t.state \in Rounds
      BY <1>0, <2>1, Shape DEF Redirected, Callbacks
    <3>2. t.state < k
      BY <1>0, <1>5, <2>4, <3>1, Shape DEF Order, Ahead
    <3>3. t.state \in 1..(k - 1)
      BY <3>1, <3>2 DEF Rounds
    <3>4. Explained(k)'
      BY <2>2, <3>1, <3>3 DEF Explained
    <3> QED
      BY <1>0, <1>5, <2>2, <3>4, FailsOnce
  <2> QED
    BY <2>3, <2>4
<1>6. CASE Exchange
  <2>1. verdict' = [verdict EXCEPT ![round] = "token"]
    BY <1>0, <1>6, RoundEnds DEF Exchange, Typing
  <2> QED
    BY <1>0, <1>1, <1>6, <2>1, Shape DEF Exchange
<1>7. ASSUME ExchangeFails, NEW k \in Rounds, k = round PROVE FailureExplained'
  <2>1. asked[k].port = port /\ code[k] # NoCode
    BY <1>0, <1>7 DEF ExchangeFails, Order, Redirected
  <2>2. code[k] = k
    BY <1>0, <2>1 DEF Redirected
  <2>3. UNCHANGED <<site, plan>> /\ pc = "exchange" /\ EndRound("failed")
    BY <1>7 DEF ExchangeFails
  <2>4. Redeemable <=> Accepts(FormAuth)
    BY <1>7, <2>1, <2>2 DEF Redeemable, RedirectSent
  <2>5. k \in lost' \/ ~Accepts(FormAuth)'
    BY <1>7, <2>3, <2>4 DEF ExchangeFails, Accepts, FormAuth
  <2>6. Explained(k)'
    BY <2>5 DEF Explained
  <2> QED
    BY <1>0, <1>7, <2>3, <2>6, FailsOnce
<1>8. ASSUME NEW k \in Rounds, Approve(k) \/ Deny(k) PROVE FailureExplained'
  BY <1>8 DEF Approve, Deny, FailureExplained, Accepts, FormAuth, RedirectKnown
<1>9. ASSUME NEW t \in tabs, Load(t) PROVE FailureExplained'
  BY <1>1, <1>9 DEF Load
<1>10. CASE UNCHANGED vars
  BY <1>10 DEF vars, FailureExplained, Accepts, FormAuth, RedirectKnown
<1> QED
  BY <1>0, <1>2, <1>3, <1>4, <1>5, <1>6, <1>7, <1>8, <1>9, <1>10, Shape DEF Next, Program, Person

\* A round fails for one of the reasons FailureExplained lists and for no other: not
\* because another round's request, code or redirect URI was sent in its place.
THEOREM FailuresExplained == Spec => []FailureExplained
<1>1. Init => FailureExplained
  BY DEF Init, FailureExplained
<1> QED
  BY <1>1, FailureStep, SessionAlways, PTL DEF Spec

----------------------------------------------------------------------------
(***************************************************************************)
(* The safety of LoginRound, of each round.                                *)
(***************************************************************************)
Idles(k)   == UNCHANGED <<arrivedIn(k), codesIn(k), verdictOf(k)>>
Arrives(k) ==
  /\ arrivedIn(k)' = TRUE
  /\ codesIn(k)' \in {codesIn(k)} \cup {codesIn(k) \cup {c} : c \in Codes}
  /\ UNCHANGED verdictOf(k)
Settles(k) ==
  /\ verdictOf(k) = [state |-> "pending", code |-> NoCode]
  /\ verdictOf(k)' \in {[state |-> "failed", code |-> NoCode]}
                         \cup {[state |-> "token", code |-> c] : c \in codesIn(k)}
  /\ UNCHANGED <<arrivedIn(k), codesIn(k)>>

\* A step that lets nothing in and ends nothing is none of LoginRound's.
LEMMA NothingNew ==
  ASSUME UNCHANGED <<came, verdict>>, NEW k \in Rounds,
         verdict[k] = "token" => code'[k] = code[k]
  PROVE  Idles(k)
BY DEF Idles, arrivedIn, codesIn, verdictOf

LEMMA RoundSettles ==
  ASSUME SessionInv, NEW v \in {"failed", "token"}, EndRound(v), UNCHANGED <<came, code>>,
         pc # "done", v = "token" => pc = "exchange", NEW k \in Rounds
  PROVE  Idles(k) \/ Settles(k)
<1>0. Typing /\ Order /\ Redirected
  BY DEF SessionInv
<1>1. verdict' = [verdict EXCEPT ![round] = v]
  BY <1>0, RoundEnds DEF Typing
<1>2. arrivedIn(k)' = arrivedIn(k) /\ codesIn(k)' = codesIn(k)
  BY DEF arrivedIn, codesIn
<1>3. CASE k # round
  <2>1. verdict'[k] = verdict[k]
    BY <1>0, <1>1, <1>3, Shape
  <2> QED
    BY <1>2, <2>1 DEF Idles, verdictOf
<1>4. CASE k = round
  <2>1. verdict'[k] = v /\ verdict[k] \notin {"failed", "token"}
    BY <1>0, <1>1, <1>4, Shape DEF Order
  <2>2. verdict[k] = "pending"
    BY <1>0, <2>1 DEF Typing, TypeOK
  <2>3. CASE v = "failed"
    BY <1>2, <2>1, <2>2, <2>3 DEF Settles, verdictOf
  <2>4. CASE v = "token"
    <3>1. code[k] # NoCode
      BY <1>0, <1>4, <2>4 DEF Redirected
    <3>2. code[k] \in codesIn(k)
      BY <1>0, <3>1 DEF Redirected, codesIn
    <3> QED
      BY <1>2, <2>1, <2>2, <2>4, <3>2 DEF Settles, verdictOf
  <2> QED
    BY <2>3, <2>4
<1> QED
  BY <1>3, <1>4

LEMMA CallbackArrives ==
  ASSUME Typing, NEW t \in tabs, Load(t), NEW k \in Rounds
  PROVE  Idles(k) \/ Arrives(k)
<1>1. came' = [came EXCEPT ![round] = @ \cup {t}] /\ UNCHANGED <<code, verdict>>
  BY DEF Load, inputs, browser, server, history
<1>2. verdictOf(k)' = verdictOf(k)
  BY <1>1 DEF verdictOf
<1>3. CASE k # round
  <2>1. came'[k] = came[k]
    BY <1>1, <1>3, Shape
  <2> QED
    BY <1>2, <2>1 DEF Idles, arrivedIn, codesIn
<1>4. CASE k = round
  <2>1. came'[k] = came[k] \cup {t} /\ t \in Callbacks
    BY <1>1, <1>4, Shape
  <2>2. CASE t.state = k /\ t.code # NoCode
    <3>1. codesIn(k)' = codesIn(k) \cup {t.code}
      BY <2>1, <2>2 DEF codesIn
    <3>2. t.code \in Codes
      BY <2>1, <2>2 DEF Callbacks, Codes
    <3> QED
      BY <1>2, <2>1, <3>1, <3>2 DEF Arrives, arrivedIn
  <2>3. CASE t.state # k \/ t.code = NoCode
    <3>1. codesIn(k)' = codesIn(k)
      BY <2>1, <2>3 DEF codesIn
    <3> QED
      BY <1>2, <2>1, <3>1 DEF Arrives, arrivedIn
  <2> QED
    BY <2>2, <2>3
<1> QED
  BY <1>3, <1>4

LEMMA EachRound ==
  ASSUME SessionInv, [Next]_vars, NEW k \in Rounds
  PROVE  Idles(k) \/ Arrives(k) \/ Settles(k)
<1>0. Typing /\ Order
  BY DEF SessionInv
<1> USE DEF inputs, browser, server, history
<1>1. CASE Listen \/ TakeClient \/ RegisterClient \/ Bind \/ Authorize
  BY <1>1, NothingNew DEF Listen, TakeClient, RegisterClient, Bind, Authorize
<1>2. CASE Receive
  <2>1. verdict[k] = "token" => code'[k] = code[k]
    BY <1>0, <1>2, Shape DEF Receive, Order
  <2> QED
    BY <1>2, <2>1, NothingNew DEF Receive
<1>3. CASE PushFails \/ Reject \/ ExchangeFails
  BY <1>3, RoundSettles DEF PushFails, Reject, ExchangeFails
<1>4. CASE Exchange
  BY <1>4, RoundSettles DEF Exchange
<1>5. CASE \E j \in Rounds : Approve(j) \/ Deny(j)
  BY <1>5, NothingNew DEF Approve, Deny
<1>6. CASE \E t \in tabs : Load(t)
  BY <1>0, <1>6, CallbackArrives
<1>7. CASE UNCHANGED vars
  BY <1>7, NothingNew DEF vars
<1> QED
  BY <1>1, <1>2, <1>3, <1>4, <1>5, <1>6, <1>7 DEF Next, Program, Person

LoginRoundSteps ==
  /\ Login!Init /\ [][Login!Next]_(Login!vars)
  /\ Base!Init /\ [][Base!Next]_(Base!vars)
  /\ Added!Init /\ [][Added!Next]_(Added!vars)

\* No round of a session takes a step LoginRound does not allow: what ImplementsLoginRounds
\* says short of its fairness.
THEOREM RoundsAreLoginRounds == Spec => LoginRoundSteps
<1>0. 1 \in Rounds /\ 2 \in Rounds /\ 3 \in Rounds
  BY DEF Rounds
<1>1. Init => Login!Init /\ Base!Init /\ Added!Init
  BY <1>0 DEF Init, Login!Init, Base!Init, Added!Init, Login!Pending, Base!Pending, Added!Pending,
     arrivedIn, codesIn, verdictOf
<1>2. SessionInv /\ [Next]_vars => [Login!Next]_(Login!vars)
  BY <1>0, EachRound DEF Idles, Arrives, Settles, Login!Next, Login!vars, Login!Arrive, Login!Settle,
     Login!Pending, Login!Failed, Login!Token
<1>3. SessionInv /\ [Next]_vars => [Base!Next]_(Base!vars)
  BY <1>0, EachRound DEF Idles, Arrives, Settles, Base!Next, Base!vars, Base!Arrive, Base!Settle,
     Base!Pending, Base!Failed, Base!Token
<1>4. SessionInv /\ [Next]_vars => [Added!Next]_(Added!vars)
  BY <1>0, EachRound DEF Idles, Arrives, Settles, Added!Next, Added!vars, Added!Arrive, Added!Settle,
     Added!Pending, Added!Failed, Added!Token
<1> QED
  BY <1>1, <1>2, <1>3, <1>4, SessionAlways, PTL DEF Spec, LoginRoundSteps
=============================================================================

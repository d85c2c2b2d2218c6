--------------------------- MODULE AuthCode_proofs ---------------------------
(***************************************************************************)
(* Theorems about an interactive round, for every number of requests and   *)
(* whatever they carry.                                                    *)
(***************************************************************************)
EXTENDS AuthCodeProps, TLAPS

LEMMA CodesAreCodes == NoCode \notin Codes
BY DEF Codes

(***************************************************************************)
(* The channel is the history until main takes from it: a code is received *)
(* at most once, and then the channel held everything ever sent.           *)
(***************************************************************************)
Channel ==
  /\ \A r \in Requests :
       /\ handler[r] \in {"iss", "isslen", "code"} => request[r].code \in Codes
       /\ handler[r] # "idle" => request[r] \in Responses
  /\ handler \in [Requests -> {"idle", "iss", "isslen", "code", "err", "done"}]
  /\ request \in [Requests -> Responses \cup {NoRequest}]
  /\ sent \in Seq(Codes) /\ codeCh \in Seq(Codes)
  /\ pc \in {"start", "waiting"} => code = NoCode /\ codeCh = sent
  /\ code # NoCode => sent # <<>> /\ code = sent[1]

LEMMA ChannelInit == Init => Channel
BY DEF Init, Channel

LEMMA ChannelStep == Channel /\ [Next]_vars => Channel'
<1> SUFFICES ASSUME Channel, [Next]_vars PROVE Channel'
  OBVIOUS
<1> USE DEF Channel
<1>1. CASE PushFails
  BY <1>1 DEF PushFails, Return, channels
<1>2. CASE OpenBrowser
  BY <1>2 DEF OpenBrowser, channels
<1>3. CASE ReceiveCode
  <2>1. codeCh = sent /\ sent # <<>>
    BY <1>3 DEF ReceiveCode
  <2>2. code' = sent[1] /\ sent' = sent /\ codeCh' \in Seq(Codes)
    BY <1>3, <2>1 DEF ReceiveCode
  <2> QED
    BY <1>3, <2>1, <2>2 DEF ReceiveCode
<1>4. CASE ReceiveErr
  BY <1>4 DEF ReceiveErr, Return
<1>5. CASE Exchanged
  BY <1>5 DEF Exchanged, Return, channels
<1>6. CASE ExchangeFails
  BY <1>6 DEF ExchangeFails, Return, channels
<1>7. CASE Cancelled
  BY <1>7 DEF Cancelled, Return, channels
<1>8. ASSUME NEW r \in Requests, Arrive(r) PROVE Channel'
  <2>1. PICK response \in Responses :
          /\ request' = [request EXCEPT ![r] = response]
          /\ handler' = [handler EXCEPT ![r] = IF response.kind = "login" THEN "iss" ELSE "err"]
    BY <1>8 DEF Arrive
  <2>2. response.kind = "login" => response.code \in Codes
    BY ResponsesAssumption DEF Codes
  <2> QED
    BY <1>8, <2>1, <2>2 DEF Arrive, channels
<1>9. ASSUME NEW r \in Requests, WriteData(r) PROVE Channel'
  BY <1>9 DEF WriteData, channels
<1>10. ASSUME NEW r \in Requests, WriteLen(r) PROVE Channel'
  BY <1>10 DEF WriteLen, channels
<1>11. ASSUME NEW r \in Requests, SendCode(r) PROVE Channel'
  <2>1. request[r].code \in Codes
    BY <1>11 DEF SendCode
  <2>2. sent' \in Seq(Codes) /\ codeCh' \in Seq(Codes) /\ (codeCh = sent => codeCh' = sent')
    BY <1>11, <2>1 DEF SendCode
  <2>3. sent # <<>> => sent' # <<>> /\ sent'[1] = sent[1]
    BY <1>11, <2>1 DEF SendCode
  <2> QED
    BY <1>11, <2>2, <2>3 DEF SendCode
<1>12. ASSUME NEW r \in Requests, SendErr(r) PROVE Channel'
  BY <1>12 DEF SendErr
<1>13. CASE UNCHANGED vars
  BY <1>13 DEF vars
<1> QED
  BY <1>1, <1>2, <1>3, <1>4, <1>5, <1>6, <1>7, <1>8, <1>9, <1>10, <1>11, <1>12, <1>13
  DEF Next, Main, Handle

LEMMA ChannelAlways == Spec => []Channel
BY ChannelInit, ChannelStep, PTL DEF Spec

\* The first login to get through is the one redeemed, however many follow.
THEOREM FirstWins == Spec => []FirstLoginWins
<1>1. Channel => FirstLoginWins
  BY DEF Channel, FirstLoginWins
<1> QED
  BY <1>1, ChannelAlways, PTL

----------------------------------------------------------------------------
(***************************************************************************)
(* The iss of the only login.  Its handler writes both words before it     *)
(* sends the code, and main reads them after it has received the code:     *)
(* what has to be carried along is how far the one writer has come.        *)
(***************************************************************************)
Sole(r) == r \in Logins /\ \A q \in Logins : q = r

Writer ==
  /\ \A r \in Requests :
       /\ handler[r] \in {"iss", "isslen", "code"} => r \in Logins
       /\ handler[r] = "err" => r \notin Logins
  /\ \A i \in DOMAIN sent : \E r \in Logins : handler[r] = "done" /\ request[r].code = sent[i]
  /\ \A r \in Requests : Sole(r) =>
       /\ handler[r] = "isslen" => callbackISS.data = request[r].iss
       /\ handler[r] \in {"code", "done"} => callbackISS = Whole(request[r].iss)
  /\ callbackISS \in [data : Isses, len : Isses]
  /\ pc = "exchanging" => code # NoCode
  /\ pc # "returned" => result = Pending
  /\ IssMixNeedsSecondLogin

LEMMA WriterInit == Init => Writer
BY DEF Init, Writer, Handled, Logins, Sole, Isses, NoString, Pending, IssMixNeedsSecondLogin

\* What a step that touches neither the requests nor the shared variable keeps.
LEMMA WriterKept ==
  ASSUME Writer, UNCHANGED <<handler, request, callbackISS, sent>>,
         pc' = "exchanging" => code' # NoCode,
         pc' # "returned" => result' = Pending,
         IssMixNeedsSecondLogin'
  PROVE  Writer'
BY DEF Writer, Handled, Logins, Sole, Whole

\* What a step of one handler keeps, given what it does to the shared variable.
LEMMA HandlerMoves ==
  ASSUME Channel, Writer,
         NEW r \in Requests, NEW step \in {"isslen", "code", "done"},
         handler[r] # "idle", handler' = [handler EXCEPT ![r] = step],
         UNCHANGED <<request, pc, code, result>>,
         step # "done" => r \in Logins,
         r \notin Logins => UNCHANGED callbackISS,
         callbackISS' \in [data : Isses, len : Isses],
         Sole(r) => /\ step = "isslen" => callbackISS'.data = request[r].iss
                    /\ step # "isslen" => callbackISS' = Whole(request[r].iss),
         \A i \in DOMAIN sent' : \E q \in Logins :
           handler'[q] = "done" /\ request[q].code = sent'[i]
  PROVE  Writer'
<1>1. handler'[r] = step /\ \A q \in Requests \ {r} : handler'[q] = handler[q]
  BY DEF Channel
<1>2. Logins' = Logins /\ Logins \subseteq Requests
  BY <1>1 DEF Logins, Handled
<1>3. \A q \in Requests : Sole(q)' <=> Sole(q)
  BY <1>2 DEF Sole
<1>4. (\A q \in Requests :
          /\ handler[q] \in {"iss", "isslen", "code"} => q \in Logins
          /\ handler[q] = "err" => q \notin Logins)'
  BY <1>1, <1>2 DEF Writer
<1>5. (\A i \in DOMAIN sent : \E q \in Logins : handler[q] = "done" /\ request[q].code = sent[i])'
  BY <1>2
<1>6. ASSUME NEW q \in Requests, Sole(q)
      PROVE  /\ handler'[q] = "isslen" => callbackISS'.data = request'[q].iss
             /\ handler'[q] \in {"code", "done"} => callbackISS' = Whole(request'[q].iss)
  <2>1. CASE q = r
    BY <1>1, <1>6, <2>1
  <2>2. CASE q # r
    <3>1. r \notin Logins
      BY <1>6, <2>2 DEF Sole
    <3> QED
      BY <1>1, <1>6, <2>2, <3>1 DEF Writer
  <2> QED
    BY <2>1, <2>2
<1>7. IssMixNeedsSecondLogin'
  BY <1>2 DEF Writer, IssMixNeedsSecondLogin, Whole
<1> QED
  BY <1>3, <1>4, <1>5, <1>6, <1>7 DEF Writer, Whole

LEMMA WriterStep == Channel /\ Writer /\ [Next]_vars => Writer'
<1> SUFFICES ASSUME Channel, Writer, [Next]_vars PROVE Writer'
  OBVIOUS
<1>0. \A r \in Requests : r \in Logins <=> handler[r] # "idle" /\ request[r].kind = "login"
  BY DEF Logins, Handled
<1>1. CASE PushFails
  BY <1>1, WriterKept DEF PushFails, Return, channels, Failed, IssMixNeedsSecondLogin
<1>2. CASE OpenBrowser
  BY <1>2, WriterKept DEF OpenBrowser, channels, Writer, IssMixNeedsSecondLogin, Logins, Handled
<1>3. CASE ReceiveCode
  <2>1. code' \in Codes
    BY <1>3 DEF ReceiveCode, Channel
  <2>2. result' = Pending
    BY <1>3 DEF ReceiveCode, Writer
  <2>3. IssMixNeedsSecondLogin'
    BY <2>2 DEF IssMixNeedsSecondLogin, Pending
  <2> QED
    BY <1>3, <2>1, <2>2, <2>3, CodesAreCodes, WriterKept DEF ReceiveCode
<1>4. CASE ReceiveErr
  BY <1>4, WriterKept DEF ReceiveErr, Return, Failed, IssMixNeedsSecondLogin
<1>5. CASE Exchanged
  <2>1. PICK r \in Logins : handler[r] = "done" /\ request[r].code = code
    BY <1>5 DEF Exchanged, Writer, Channel
  <2>2. Sole(r) => callbackISS = Whole(request[r].iss)
    BY <2>1 DEF Writer, Logins, Handled
  <2>3. IssMixNeedsSecondLogin'
    BY <1>5, <2>1, <2>2
    DEF Exchanged, Return, channels, Sole, IssMixNeedsSecondLogin, Logins, Handled, Whole
  <2> QED
    BY <1>5, <2>3, WriterKept DEF Exchanged, Return, channels
<1>6. CASE ExchangeFails
  BY <1>6, WriterKept DEF ExchangeFails, Return, channels, Failed, IssMixNeedsSecondLogin
<1>7. CASE Cancelled
  BY <1>7, WriterKept DEF Cancelled, Return, channels, Failed, IssMixNeedsSecondLogin
<1>8. ASSUME NEW r \in Requests, Arrive(r) PROVE Writer'
  <2>1. PICK response \in Responses :
          /\ request' = [request EXCEPT ![r] = response]
          /\ handler' = [handler EXCEPT ![r] = IF response.kind = "login" THEN "iss" ELSE "err"]
    BY <1>8 DEF Arrive
  <2>2. handler[r] = "idle" /\ pc \in {"waiting", "exchanging"} /\ UNCHANGED <<pc, callbackISS, sent, code, result>>
    BY <1>8 DEF Arrive, channels
  <2>3. \A q \in Requests \ {r} : handler'[q] = handler[q] /\ request'[q] = request[q]
                                  /\ (q \in Logins' <=> q \in Logins)
    BY <2>1 DEF Channel, Logins, Handled
  <2>4. handler'[r] \in {"iss", "err"} /\ request'[r] = response /\ (handler'[r] = "iss" <=> r \in Logins')
        /\ r \notin Logins
    BY <2>1, <2>2 DEF Channel, Logins, Handled
  <2>5. Logins \subseteq Requests /\ Logins' \subseteq Requests
    BY DEF Logins, Handled
  <2>6. \A q \in Requests : Sole(q)' /\ q # r => Sole(q)
    BY <2>3, <2>4, <2>5 DEF Sole
  <2>7. result'.state # "token"
    BY <2>2 DEF Writer, Pending
  <2> QED
    BY <2>2, <2>3, <2>4, <2>5, <2>6, <2>7 DEF Writer, IssMixNeedsSecondLogin, Whole
<1>9. ASSUME NEW r \in Requests, WriteData(r) PROVE Writer'
  <2>1. handler[r] = "iss" /\ r \in Logins
    BY <1>9 DEF WriteData, Writer
  <2>2. callbackISS' \in [data : Isses, len : Isses] /\ callbackISS'.data = request[r].iss
    BY <1>9 DEF WriteData, Writer, Isses, Channel
  <2>3. \A i \in DOMAIN sent' : \E q \in Logins : handler'[q] = "done" /\ request[q].code = sent'[i]
    BY <1>9, <2>1 DEF WriteData, Writer, Channel, Logins, Handled
  <2>4. handler' = [handler EXCEPT ![r] = "isslen"] /\ UNCHANGED <<request, pc, code, result>>
    BY <1>9 DEF WriteData
  <2> QED
    BY <2>1, <2>2, <2>3, <2>4, HandlerMoves
<1>10. ASSUME NEW r \in Requests, WriteLen(r) PROVE Writer'
  <2>1. handler[r] = "isslen" /\ r \in Logins
    BY <1>10 DEF WriteLen, Writer
  <2>2. callbackISS' \in [data : Isses, len : Isses]
    BY <1>10 DEF WriteLen, Writer, Isses, Channel
  <2>3. Sole(r) => callbackISS' = Whole(request[r].iss)
    BY <1>10, <2>1 DEF WriteLen, Writer, Whole
  <2>4. \A i \in DOMAIN sent' : \E q \in Logins : handler'[q] = "done" /\ request[q].code = sent'[i]
    BY <1>10, <2>1 DEF WriteLen, Writer, Channel, Logins, Handled
  <2>5. handler' = [handler EXCEPT ![r] = "code"] /\ UNCHANGED <<request, pc, code, result>>
    BY <1>10 DEF WriteLen
  <2> QED
    BY <2>1, <2>2, <2>3, <2>4, <2>5, HandlerMoves
<1>11. ASSUME NEW r \in Requests, SendCode(r) PROVE Writer'
  <2>1. handler[r] = "code" /\ r \in Logins /\ request[r].code \in Codes
    BY <1>11 DEF SendCode, Writer, Channel
  <2>2. \A i \in DOMAIN sent' : (i \in DOMAIN sent /\ sent'[i] = sent[i]) \/ sent'[i] = request[r].code
    BY <1>11, <2>1 DEF SendCode, Channel
  <2>3. handler'[r] = "done" /\ \A q \in Requests : handler[q] = "done" => handler'[q] = "done"
    BY <1>11 DEF SendCode, Channel
  <2>4. \A i \in DOMAIN sent' : \E q \in Logins : handler'[q] = "done" /\ request[q].code = sent'[i]
    BY <2>1, <2>2, <2>3 DEF Writer, Logins, Handled
  <2>5. Sole(r) => callbackISS = Whole(request[r].iss)
    BY <2>1 DEF Writer
  <2>6. handler' = [handler EXCEPT ![r] = "done"] /\ UNCHANGED <<request, pc, code, result, callbackISS>>
    BY <1>11 DEF SendCode
  <2>7. callbackISS \in [data : Isses, len : Isses]
    BY DEF Writer
  <2> QED
    BY <2>1, <2>4, <2>5, <2>6, <2>7, HandlerMoves
<1>12. ASSUME NEW r \in Requests, SendErr(r) PROVE Writer'
  <2>1. handler[r] = "err" /\ r \notin Logins /\ ~Sole(r)
    BY <1>12 DEF SendErr, Writer, Sole
  <2>2. handler' = [handler EXCEPT ![r] = "done"] /\ UNCHANGED <<request, pc, code, result, callbackISS, sent>>
    BY <1>12 DEF SendErr
  <2>3. \A i \in DOMAIN sent' : \E q \in Logins : handler'[q] = "done" /\ request[q].code = sent'[i]
    BY <2>1, <2>2 DEF Writer, Channel, Logins, Handled
  <2>4. callbackISS' \in [data : Isses, len : Isses]
    BY <2>2 DEF Writer
  <2> QED
    BY <2>1, <2>2, <2>3, <2>4, HandlerMoves
<1>13. CASE UNCHANGED vars
  BY <1>13, WriterKept DEF vars, Writer, IssMixNeedsSecondLogin, Logins, Handled, Whole
<1> QED
  BY <1>1, <1>2, <1>3, <1>4, <1>5, <1>6, <1>7, <1>8, <1>9, <1>10, <1>11, <1>12, <1>13
  DEF Next, Main, Handle

\* With one login the iss reported is the one that came with its code, whole, in
\* spite of the unguarded variable.
THEOREM IssOfTheOnlyLogin == Spec => []IssMixNeedsSecondLogin
<1>1. Writer => IssMixNeedsSecondLogin
  BY DEF Writer
<1> QED
  BY <1>1, WriterInit, WriterStep, ChannelAlways, PTL DEF Spec

----------------------------------------------------------------------------
(***************************************************************************)
(* The safety of LoginRound, step by step.                                 *)
(***************************************************************************)
RoundSteps == Round!Init /\ [][Round!Next]_(Round!vars)

\* What no step but a return does to the abstract round.
LEMMA RoundIdles ==
  ASSUME UNCHANGED <<request, result>>, result = Pending, Handled' = Handled
  PROVE  UNCHANGED Round!vars
BY DEF Round!vars, Logins, Pending

LEMMA RoundFails ==
  ASSUME UNCHANGED <<handler, request>>, result = Pending, result' = Failed
  PROVE  Round!Settle
<1>1. Handled' = Handled /\ Logins' = Logins
  BY DEF Handled, Logins
<1> QED
  BY <1>1 DEF Round!Settle, Round!Pending, Round!Failed, Pending, Failed

LEMMA HandlerIsQuiet ==
  ASSUME Channel, Writer, NEW r \in Requests, Handle(r)
  PROVE  UNCHANGED Round!vars
<1>1. UNCHANGED <<request, result, code>> /\ handler[r] # "idle"
      /\ \E step \in {"isslen", "code", "done"} : handler' = [handler EXCEPT ![r] = step]
  BY DEF Handle, WriteData, WriteLen, SendCode, SendErr
<1>2. Handled' = Handled
  BY <1>1 DEF Handled, Channel
<1> QED
  BY <1>1, <1>2 DEF Round!vars, Logins

LEMMA ArrivalArrives ==
  ASSUME Channel, Writer, NEW r \in Requests, Arrive(r)
  PROVE  Round!Arrive
<1>1. PICK response \in Responses :
        /\ request' = [request EXCEPT ![r] = response]
        /\ handler' = [handler EXCEPT ![r] = IF response.kind = "login" THEN "iss" ELSE "err"]
  BY DEF Arrive
<1>2. handler[r] = "idle" /\ UNCHANGED <<code, result>>
  BY DEF Arrive
<1>3. Handled' = Handled \cup {r} /\ request'[r] = response /\ r \notin Handled
  BY <1>1, <1>2 DEF Handled, Channel
<1>4. \A q \in Handled : request'[q] = request[q]
  BY <1>1, <1>3 DEF Handled, Channel
<1>5. Logins' = IF response.kind = "login" THEN Logins \cup {r} ELSE Logins
  BY <1>3, <1>4 DEF Logins
<1>6. {request[q].code : q \in Logins}' \in
        {{request[q].code : q \in Logins}} \cup
        {{request[q].code : q \in Logins} \cup {c} : c \in Codes}
  <2>1. \A q \in Logins : request'[q] = request[q]
    BY <1>4 DEF Logins
  <2>2. CASE response.kind = "login"
    <3>1. response.code \in Codes
      BY <2>2, ResponsesAssumption DEF Codes
    <3>2. {request[q].code : q \in Logins}' = {request[q].code : q \in Logins} \cup {response.code}
      BY <1>3, <1>5, <2>1, <2>2
    <3> QED
      BY <3>1, <3>2
  <2>3. CASE response.kind # "login"
    BY <1>5, <2>1, <2>3
  <2> QED
    BY <2>2, <2>3
<1> QED
  BY <1>2, <1>3, <1>6 DEF Round!Arrive

LEMMA RoundStep == Channel /\ Writer /\ [Next]_vars => [Round!Next]_(Round!vars)
<1> SUFFICES ASSUME Channel, Writer, [Next]_vars PROVE Round!Next \/ UNCHANGED Round!vars
  OBVIOUS
<1>1. ASSUME pc # "returned", UNCHANGED <<handler, request>>, result' = Failed PROVE Round!Next
  BY <1>1, RoundFails DEF Writer, Round!Next
<1>2. ASSUME pc # "returned", UNCHANGED <<handler, request, result>> PROVE UNCHANGED Round!vars
  BY <1>2, RoundIdles DEF Writer, Handled
<1>3. CASE PushFails \/ ReceiveErr \/ ExchangeFails \/ Cancelled
  BY <1>1, <1>3 DEF PushFails, ReceiveErr, ExchangeFails, Cancelled, Return
<1>4. CASE OpenBrowser \/ ReceiveCode
  BY <1>2, <1>4 DEF OpenBrowser, ReceiveCode
<1>5. CASE Exchanged
  <2>1. PICK r \in Logins : request[r].code = code
    BY <1>5 DEF Exchanged, Writer, Channel
  <2>2. result = Pending /\ result'.state = "token" /\ UNCHANGED <<handler, request, code>>
    BY <1>5 DEF Exchanged, Return, Writer
  <2>3. Handled' = Handled /\ Logins' = Logins
    BY <2>2 DEF Handled, Logins
  <2> QED
    BY <2>1, <2>2, <2>3 DEF Round!Next, Round!Settle, Round!Pending, Round!Token, Pending
<1>6. CASE \E r \in Requests : Arrive(r)
  BY <1>6, ArrivalArrives DEF Round!Next
<1>7. CASE \E r \in Requests : Handle(r)
  BY <1>7, HandlerIsQuiet
<1>8. CASE UNCHANGED vars
  BY <1>8 DEF vars, Round!vars, Handled, Logins
<1> QED
  BY <1>3, <1>4, <1>5, <1>6, <1>7, <1>8 DEF Next, Main

\* A round takes no step LoginRound does not allow: it ends once, and a token is
\* for a code a login brought back to this round.
THEOREM RoundSafe == Spec => RoundSteps
<1>1. Init => Round!Init
  BY DEF Init, Round!Init, Round!Pending, Pending, Handled, Logins
<1>2. Spec => []Writer
  BY WriterInit, WriterStep, ChannelAlways, PTL DEF Spec
<1> QED
  BY <1>1, <1>2, RoundStep, ChannelAlways, PTL DEF Spec, RoundSteps

----------------------------------------------------------------------------
(***************************************************************************)
(* Type correctness, and what an error in its channel stands for: a        *)
(* request that is not a login.                                            *)
(***************************************************************************)
Trouble ==
  /\ TypeOK
  /\ errCh # <<>> => Logins # Handled
  /\ LoginsDoNotCollide

LEMMA TroubleInit == Init => Trouble
<1> SUFFICES ASSUME Init PROVE Trouble
  OBVIOUS
<1>1. NoString \in [data : Isses, len : Isses] /\ result.state = "pending"
  BY DEF Init, Isses, NoString, Pending
<1> QED
  BY <1>1 DEF Init, Trouble, TypeOK, Capacity, Pending, LoginsDoNotCollide

\* An arrival adds to the requests, and never turns one into a login.
LEMMA ArrivalKeepsTrouble ==
  ASSUME Channel, NEW r \in Requests, Arrive(r), Logins # Handled
  PROVE  Logins' # Handled'
<1>1. \A q \in Requests \ {r} : handler'[q] = handler[q] /\ request'[q] = request[q]
  BY DEF Arrive, Channel
<1>2. PICK q \in Handled : q \notin Logins
  BY DEF Logins
<1>3. q \in Requests \ {r} /\ request[q].kind # "login" /\ handler[q] # "idle"
  BY <1>2 DEF Handled, Logins, Arrive
<1> QED
  BY <1>1, <1>3 DEF Handled, Logins

LEMMA HandlersOnlyMove ==
  ASSUME Channel, NEW r \in Requests, handler[r] # "idle",
         NEW step \in {"isslen", "code", "done"}, handler' = [handler EXCEPT ![r] = step],
         UNCHANGED request
  PROVE  Handled' = Handled /\ Logins' = Logins
BY DEF Channel, Handled, Logins

LEMMA TypeStep ==
  ASSUME TypeOK, Channel, Channel', Writer, Writer', [Next]_vars
  PROVE  TypeOK'
<1> USE DEF TypeOK, Capacity
<1>1. NoString \in [data : Isses, len : Isses] /\ Failed.state = "failed" /\ Failed.iss = NoString
  BY DEF Isses, NoString, Failed
<1>2. Failed \in [state : {"pending", "failed", "token"}, iss : [data : Isses, len : Isses]]
  BY <1>1 DEF Failed
<1>3. /\ handler' \in [Requests -> {"idle", "iss", "isslen", "code", "err", "done"}]
      /\ request' \in [Requests -> Responses \cup {NoRequest}]
      /\ codeCh' \in Seq(Codes) /\ sent' \in Seq(Codes)
      /\ callbackISS' \in [data : Isses, len : Isses]
  BY DEF Channel, Writer
<1>4. CASE PushFails
  BY <1>2, <1>3, <1>4 DEF PushFails, Return, channels
<1>5. CASE OpenBrowser
  BY <1>3, <1>5 DEF OpenBrowser, channels
<1>6. CASE ReceiveCode
  BY <1>3, <1>6 DEF ReceiveCode
<1>7. CASE ReceiveErr
  BY <1>2, <1>3, <1>7 DEF ReceiveErr, Return
<1>8. CASE Exchanged
  BY <1>3, <1>8 DEF Exchanged, Return, channels
<1>9. CASE ExchangeFails
  BY <1>2, <1>3, <1>9 DEF ExchangeFails, Return, channels
<1>10. CASE Cancelled
  BY <1>2, <1>3, <1>10 DEF Cancelled, Return, channels
<1>11. CASE \E r \in Requests : Arrive(r)
  BY <1>3, <1>11 DEF Arrive, channels
<1>12. CASE \E r \in Requests : WriteData(r) \/ WriteLen(r)
  BY <1>3, <1>12 DEF WriteData, WriteLen, channels
<1>13. CASE \E r \in Requests : SendCode(r)
  BY <1>3, <1>13 DEF SendCode
<1>14. ASSUME NEW r \in Requests, SendErr(r) PROVE TypeOK'
  <2>1. request[r] \in Responses /\ request[r].kind # "login"
    BY <1>14 DEF SendErr, Channel, Writer, Logins, Handled
  <2>2. request[r].kind \in {"stray", "denied"}
    BY <2>1, ResponsesAssumption DEF Kinds
  <2>3. errCh' \in Seq({"stray", "denied"}) /\ Len(errCh') <= 1
    BY <1>14, <2>2 DEF SendErr
  <2> QED
    BY <1>3, <1>14, <2>3 DEF SendErr
<1>15. CASE UNCHANGED vars
  BY <1>15 DEF vars
<1> QED
  BY <1>4, <1>5, <1>6, <1>7, <1>8, <1>9, <1>10, <1>11, <1>12, <1>13, <1>14, <1>15
  DEF Next, Main, Handle

LEMMA TroubleStep ==
  Channel /\ Channel' /\ Writer /\ Writer' /\ Trouble /\ [Next]_vars => Trouble'
<1> SUFFICES ASSUME Channel, Channel', Writer, Writer', Trouble, [Next]_vars PROVE Trouble'
  OBVIOUS
<1>1. TypeOK'
  BY TypeStep DEF Trouble
<1> USE DEF LoginsDoNotCollide
<1>2. ASSUME UNCHANGED <<handler, request, errCh>>,
             \/ UNCHANGED <<result, code, cfg>>
             \/ result'.state # "failed" \/ code' # NoCode \/ cfg'.canCancel \/ cfg'.usePAR
      PROVE  Trouble'
  <2>1. Handled' = Handled /\ Logins' = Logins
    BY <1>2 DEF Handled, Logins
  <2> QED
    BY <1>1, <1>2, <2>1 DEF Trouble
<1>3. ASSUME UNCHANGED <<cfg, pc, code, result>>, Handled' = Handled, Logins' = Logins,
             errCh' # <<>> => Logins # Handled
      PROVE  Trouble'
  BY <1>1, <1>3 DEF Trouble
<1>4. CASE PushFails \/ OpenBrowser \/ Cancelled
  BY <1>2, <1>4 DEF PushFails, OpenBrowser, Cancelled, Return, channels
<1>5. CASE ReceiveCode
  BY <1>2, <1>5 DEF ReceiveCode, Writer, Pending
<1>6. CASE ReceiveErr
  <2>1. Handled' = Handled /\ Logins' = Logins /\ Logins # Handled
    BY <1>6 DEF ReceiveErr, Handled, Logins, Trouble
  <2> QED
    BY <1>1, <2>1 DEF Trouble
<1>7. CASE Exchanged
  BY <1>2, <1>7 DEF Exchanged, Return, channels
<1>8. CASE ExchangeFails
  BY <1>2, <1>8 DEF ExchangeFails, Return, channels, Writer
<1>9. ASSUME NEW r \in Requests, Arrive(r) PROVE Trouble'
  <2>1. result'.state # "failed"
    BY <1>9 DEF Arrive, Writer, Pending
  <2>2. errCh' = errCh
    BY <1>9 DEF Arrive, channels
  <2> QED
    BY <1>1, <1>9, <2>1, <2>2, ArrivalKeepsTrouble DEF Trouble
<1>10. ASSUME NEW r \in Requests, WriteData(r) \/ WriteLen(r) \/ SendCode(r) PROVE Trouble'
  <2>1. Handled' = Handled /\ Logins' = Logins
    BY <1>10, HandlersOnlyMove DEF WriteData, WriteLen, SendCode
  <2> QED
    BY <1>3, <1>10, <2>1 DEF WriteData, WriteLen, SendCode, channels, Trouble
<1>11. ASSUME NEW r \in Requests, SendErr(r) PROVE Trouble'
  <2>1. Handled' = Handled /\ Logins' = Logins
    BY <1>11, HandlersOnlyMove DEF SendErr
  <2>2. r \in Handled /\ r \notin Logins
    BY <1>11 DEF SendErr, Writer, Handled
  <2> QED
    BY <1>3, <1>11, <2>1, <2>2 DEF SendErr
<1>12. CASE UNCHANGED vars
  BY <1>2, <1>12 DEF vars
<1> QED
  BY <1>4, <1>5, <1>6, <1>7, <1>8, <1>9, <1>10, <1>11, <1>12 DEF Next, Main, Handle

LEMMA TroubleAlways == Spec => []Trouble
<1>1. Spec => []Writer
  BY WriterInit, WriterStep, ChannelAlways, PTL DEF Spec
<1> QED
  BY <1>1, TroubleInit, TroubleStep, ChannelAlways, PTL DEF Spec

\* Every variable of a round keeps its type: the channels never hold more than one
\* value, and callbackISS is at all times two words that some request brought.
THEOREM RoundTyping == Spec => []TypeOK
<1>1. Trouble => TypeOK
  BY DEF Trouble
<1> QED
  BY <1>1, TroubleAlways, PTL

\* Several logins do not defeat each other: without PAR and without cancellation a
\* round that fails before it has a code has been reached by something that is not
\* a login, however many logins there are.
THEOREM LoginsCoexist == Spec => []LoginsDoNotCollide
<1>1. Trouble => LoginsDoNotCollide
  BY DEF Trouble
<1> QED
  BY <1>1, TroubleAlways, PTL
=============================================================================

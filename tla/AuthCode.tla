------------------------------ MODULE AuthCode -------------------------------
(***************************************************************************)
(* probe.RunAuthCode: the one concurrent part of the program.  The main    *)
(* goroutine opens a browser and waits in a select; every request to the   *)
(* loopback callback runs its handler in a goroutine of its own, and the   *)
(* two sides meet in two channels of capacity one and in one shared        *)
(* variable, callbackISS, that nothing guards.                             *)
(***************************************************************************)
EXTENDS SequencesExt

CONSTANTS
  Requests,    \* the requests the callback listener ever gets
  Responses,   \* what such a request may carry: [kind, code, iss]
  NoCode,      \* "no code", "no iss": the empty string
  Configs      \* what RunAuthCode is called with: [usePAR, canCancel]

Kinds == {"stray", "denied", "login"}   \* state mismatch; error=...; code=...
Codes == {r.code : r \in Responses} \ {NoCode}
Isses == {r.iss : r \in Responses} \cup {NoCode}

ASSUME ResponsesAssumption ==
  \A r \in Responses : r.kind \in Kinds /\ (r.code # NoCode <=> r.kind = "login")
\* The authorization request is pushed first, or not; the context may be
\* cancelled, or not (the command line passes Background).
ASSUME ConfigsAssumption == Configs \subseteq [usePAR : BOOLEAN, canCancel : BOOLEAN]

VARIABLES
  cfg,           \* the configuration of this round
  pc,            \* the main goroutine
  handler,       \* where the goroutine of each request is
  request,       \* what each request carried
  codeCh, errCh, \* make(chan string, 1), make(chan error, 1)
  callbackISS,   \* a string header: two words, written one after the other
  sent,          \* history: codes in the order they entered codeCh
  code,          \* the code main received
  result         \* what RunAuthCode returned

vars == <<cfg, pc, handler, request, codeCh, errCh, callbackISS, sent, code, result>>
channels == <<codeCh, errCh>>

NoRequest  == [kind |-> "none", code |-> NoCode, iss |-> NoCode]
NoString   == [data |-> NoCode, len |-> NoCode]
Pending    == [state |-> "pending", iss |-> NoString]
Failed     == [state |-> "failed", iss |-> NoString]

Capacity == 1   \* of both channels

Init ==
  /\ cfg \in Configs
  /\ pc = "start"
  /\ handler = [r \in Requests |-> "idle"]
  /\ request = [r \in Requests |-> NoRequest]
  /\ codeCh = <<>> /\ errCh = <<>>
  /\ callbackISS = NoString
  /\ sent = <<>> /\ code = NoCode
  /\ result = Pending

----------------------------------------------------------------------------
(***************************************************************************)
(* The callback handler, one goroutine per request.                        *)
(***************************************************************************)
\* Mutant: the error parameter is not looked at.
ArriveUnchecked(r) ==
  /\ pc \in {"waiting", "exchanging"} /\ handler[r] = "idle"
  /\ \E response \in Responses :
       /\ request' = [request EXCEPT ![r] = response]
       /\ handler' = [handler EXCEPT ![r] = IF response.kind = "stray" THEN "err" ELSE "iss"]
  /\ UNCHANGED <<cfg, pc, channels, callbackISS, sent, code, result>>

\* The server accepts until RunAuthCode returns and closes it.
Arrive(r) ==
  /\ pc \in {"waiting", "exchanging"} /\ handler[r] = "idle"
  /\ \E response \in Responses :
       /\ request' = [request EXCEPT ![r] = response]
       /\ handler' = [handler EXCEPT ![r] = IF response.kind = "login" THEN "iss" ELSE "err"]
  /\ UNCHANGED <<cfg, pc, channels, callbackISS, sent, code, result>>

\* callbackISS = iss, in two words.
WriteData(r) ==
  /\ handler[r] = "iss"
  /\ callbackISS' = [callbackISS EXCEPT !.data = request[r].iss]
  /\ handler' = [handler EXCEPT ![r] = "isslen"]
  /\ UNCHANGED <<cfg, pc, request, channels, sent, code, result>>

WriteLen(r) ==
  /\ handler[r] = "isslen"
  /\ callbackISS' = [callbackISS EXCEPT !.len = request[r].iss]
  /\ handler' = [handler EXCEPT ![r] = "code"]
  /\ UNCHANGED <<cfg, pc, request, channels, sent, code, result>>

\* Mutants: the channel keeps only the newest code; a second login is an error;
\* the code is sent before callbackISS is set.
SendNewestCode(r) ==
  /\ handler[r] = "code"
  /\ codeCh' = <<request[r].code>>
  /\ sent' = Append(sent, request[r].code)
  /\ handler' = [handler EXCEPT ![r] = "done"]
  /\ UNCHANGED <<cfg, pc, request, errCh, callbackISS, code, result>>

RefuseSecondCode(r) ==
  /\ handler[r] = "code" /\ (codeCh = <<>> \/ errCh = <<>>)
  /\ IF codeCh = <<>>
     THEN codeCh' = <<request[r].code>> /\ errCh' = errCh
     ELSE codeCh' = codeCh /\ errCh' = <<"denied">>
  /\ sent' = Append(sent, request[r].code)
  /\ handler' = [handler EXCEPT ![r] = "done"]
  /\ UNCHANGED <<cfg, pc, request, callbackISS, code, result>>

SendCodeFirst(r) ==
  /\ handler[r] = "iss" /\ Len(codeCh) < Capacity
  /\ codeCh' = Append(codeCh, request[r].code)
  /\ sent' = Append(sent, request[r].code)
  /\ handler' = [handler EXCEPT ![r] = "isslen"]
  /\ UNCHANGED <<cfg, pc, request, errCh, callbackISS, code, result>>

\* A send blocks while the channel is full, and for good once main is gone.
SendCode(r) ==
  /\ handler[r] = "code" /\ Len(codeCh) < Capacity
  /\ codeCh' = Append(codeCh, request[r].code)
  /\ sent' = Append(sent, request[r].code)
  /\ handler' = [handler EXCEPT ![r] = "done"]
  /\ UNCHANGED <<cfg, pc, request, errCh, callbackISS, code, result>>

\* Mutant: the handler answers a bad callback and reports nothing.
DropErr(r) ==
  /\ handler[r] = "err" /\ Len(errCh) < Capacity
  /\ handler' = [handler EXCEPT ![r] = "done"]
  /\ UNCHANGED <<cfg, pc, request, channels, callbackISS, sent, code, result>>

SendErr(r) ==
  /\ handler[r] = "err" /\ Len(errCh) < Capacity
  /\ errCh' = Append(errCh, request[r].kind)
  /\ handler' = [handler EXCEPT ![r] = "done"]
  /\ UNCHANGED <<cfg, pc, request, codeCh, callbackISS, sent, code, result>>

----------------------------------------------------------------------------
(***************************************************************************)
(* The main goroutine.                                                     *)
(***************************************************************************)
Return(value) == pc' = "returned" /\ result' = value

\* The pushed request fails, or the PAR endpoint is missing or hands out nothing.
PushFails ==
  /\ pc = "start" /\ cfg.usePAR
  /\ Return(Failed)
  /\ UNCHANGED <<cfg, handler, request, channels, callbackISS, sent, code>>

OpenBrowser ==
  /\ pc = "start"
  /\ pc' = "waiting"
  /\ UNCHANGED <<cfg, handler, request, channels, callbackISS, sent, code, result>>

\* select: with several channels ready, any of them.
ReceiveCode ==
  /\ pc = "waiting" /\ codeCh # <<>>
  /\ code' = Head(codeCh) /\ codeCh' = Tail(codeCh)
  /\ pc' = "exchanging"
  /\ UNCHANGED <<cfg, handler, request, errCh, callbackISS, sent, result>>

ReceiveErr ==
  /\ pc = "waiting" /\ errCh # <<>>
  /\ errCh' = Tail(errCh)
  /\ Return(Failed)
  /\ UNCHANGED <<cfg, handler, request, codeCh, callbackISS, sent, code>>

Cancelled ==
  /\ pc = "waiting" /\ cfg.canCancel
  /\ Return(Failed)
  /\ UNCHANGED <<cfg, handler, request, channels, callbackISS, sent, code>>

\* The token endpoint issues a token: callbackISS is read only now.
Exchanged ==
  /\ pc = "exchanging"
  /\ Return([state |-> "token", iss |-> callbackISS])
  /\ UNCHANGED <<cfg, handler, request, channels, callbackISS, sent, code>>

\* A transport error, or an answer without an access_token.
ExchangeFails ==
  /\ pc = "exchanging"
  /\ Return(Failed)
  /\ UNCHANGED <<cfg, handler, request, channels, callbackISS, sent, code>>

----------------------------------------------------------------------------
Handle(r) == WriteData(r) \/ WriteLen(r) \/ SendCode(r) \/ SendErr(r)
Main == PushFails \/ OpenBrowser \/ ReceiveCode \/ ReceiveErr \/ Exchanged \/ ExchangeFails

Next ==
  \/ Main
  \/ Cancelled
  \/ \E r \in Requests : Arrive(r)
  \/ \E r \in Requests : Handle(r)

\* The Go scheduler runs every runnable goroutine; the exchange is bounded by the
\* HTTP client's timeout.  Nobody has to log in, nobody has to cancel.
Fairness == WF_vars(Main) /\ \A r \in Requests : WF_vars(Handle(r))

Spec == Init /\ [][Next]_vars /\ Fairness
=============================================================================

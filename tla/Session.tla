------------------------------- MODULE Session -------------------------------
(***************************************************************************)
(* The interactive part of run(): one login, and with --stepup the two     *)
(* rounds of RunStepUp after it, for one client at one authorization       *)
(* server, with a person at a browser in between.                          *)
(*                                                                         *)
(* AuthCode has the goroutines of a single round; here a round is what it  *)
(* sends and receives: the port its listener got, the redirect_uri, scopes *)
(* and challenge it asks with, the callbacks that reach it, and the secret *)
(* it shows.  A round's state and its PKCE pair are random and are told    *)
(* apart by the number of the round they were made for.                    *)
(***************************************************************************)
EXTENDS Naturals, AuthMethod

CONSTANTS
  Ports,      \* the ports net.Listen("127.0.0.1:0") may come back with
  Sessions    \* command lines and the servers they are used on

Rounds == 1..3      \* the login, and the two of RunStepUp
NoPort == 0
NoCode == 0
Scopes == {"a", "b"}

CommandType ==
  [clientID : BOOLEAN, secret : BOOLEAN, method : Methods \cup {""},
   scopes : SUBSET Scopes, stepUp : BOOLEAN]

SiteType ==
  [registers : BOOLEAN,            \* offers registration, and accepts this one
   advertised : SUBSET Methods,    \* token_endpoint_auth_methods_supported
   assigns : Methods,              \* the method of the client it knows or registers
   states : BOOLEAN,               \* and says so in its registration answer
   strict : BOOLEAN,               \* holds the client to it
   loopback : BOOLEAN,             \* ignores the port of a loopback redirect (RFC 8252 7.3)
   par : BOOLEAN,                  \* requires the request to be pushed first
   declared : SUBSET Scopes,       \* scopes_supported of the resource
   allowed : SUBSET Scopes,        \* what the person may be granted
   keeps : {"asked", "all", "added"},   \* see Grants
   silent : BOOLEAN]               \* leaves out a scope that is the one asked for

ASSUME PortsAssumption == NoPort \notin Ports
ASSUME SessionsAssumption ==
  /\ Sessions \subseteq [command : CommandType, site : SiteType]
  /\ \A s \in Sessions : s.command.secret => s.command.clientID

VARIABLES
  command, site,  \* the command line and the server
  pc, round,      \* where run() is, and in which round
  plan,           \* AuthPlan: client, registered, secret, method
  port,           \* of the listener that is open, if one is
  redirects,      \* ports of the redirect URIs the server has on file
  asked,          \* each round's authorization request: port and scopes
  page,           \* what the person sees of it
  tabs,           \* callbacks the browser holds; any may be loaded again
  came,           \* each round's callbacks so far
  code,           \* the code each round took to the token endpoint
  verdict,        \* what RunAuthCode returned, by round
  granted,        \* the scopes of the code the server issued, by round
  reported,       \* AuthCodeResult.GrantedScope
  hints,          \* stepup_scope_a and _b are set; stepup_second_scope
  shown,          \* history: the ways the client authenticated at the server
  lost            \* history: rounds one of whose requests was lost

inputs  == <<command, site>>
browser == <<page, tabs>>
server  == <<redirects, granted>>
history == <<shown, lost>>
vars == <<command, site, pc, round, plan, port, redirects, asked, page, tabs, came,
          code, verdict, granted, reported, hints, shown, lost>>

NoPlan    == [client |-> FALSE, registered |-> FALSE, secret |-> FALSE, method |-> ""]
NoRequest == [port |-> NoPort, scopes |-> {}]
NoHints   == [given |-> FALSE, second |-> {}]

Init ==
  /\ \E s \in Sessions : command = s.command /\ site = s.site
  /\ pc = "listen" /\ round = 1
  /\ plan = NoPlan /\ port = NoPort /\ redirects = {}
  /\ asked = [k \in Rounds |-> NoRequest]
  /\ page = [k \in Rounds |-> "none"] /\ tabs = {}
  /\ came = [k \in Rounds |-> {}]
  /\ code = [k \in Rounds |-> NoCode]
  /\ verdict = [k \in Rounds |-> "pending"]
  /\ granted = [k \in Rounds |-> {}] /\ reported = [k \in Rounds |-> {}]
  /\ hints = NoHints
  /\ shown = {} /\ lost = {}

----------------------------------------------------------------------------
(***************************************************************************)
(* The authorization server.                                               *)
(***************************************************************************)
\* A strict server takes the method on file and no other; one that is not takes
\* any secret of a confidential client, and a public client either way.
Accepts(auth) ==
  IF site.strict THEN auth = ApplyClientAuth(site.assigns, TRUE)
  ELSE site.assigns = "none" \/ auth # ""

RedirectKnown(p) == site.loopback \/ p \in redirects

\* The scopes of a new grant: those asked for, those and all granted before, or
\* only the ones not granted before, if there are such.
Grants(k) ==
  LET before == UNION {granted[j] : j \in Rounds}
      wanted == asked[k].scopes \cap site.allowed
  IN CASE site.keeps = "asked" -> wanted
       [] site.keeps = "all"   -> wanted \cup before
       [] site.keeps = "added" -> IF wanted \subseteq before THEN wanted ELSE wanted \ before

\* scope is optional in the answer when it is what was asked for (RFC 6749 5.1).
Told(k) == IF site.silent /\ granted[k] = asked[k].scopes THEN {} ELSE granted[k]

----------------------------------------------------------------------------
(***************************************************************************)
(* Before the first round.                                                 *)
(***************************************************************************)
\* The callback listener is bound before resolution.
Listen ==
  /\ pc = "listen"
  /\ port' \in Ports
  /\ pc' = "resolve"
  /\ UNCHANGED <<inputs, round, plan, server, asked, browser, came, code, verdict, reported, hints, history>>

\* The operator's client, or none where registration is not offered or refused.
TakeClient ==
  /\ pc = "resolve" /\ (command.clientID \/ ~site.registers)
  /\ plan' = [client |-> command.clientID, registered |-> FALSE, secret |-> command.secret,
              method |-> TokenAuthMethod(command.method, site.advertised, command.secret)]
  /\ pc' = "authorize"
  /\ UNCHANGED <<inputs, round, port, server, asked, browser, came, code, verdict, reported, hints, history>>

\* registeredAuthMethod: the flag, what the server says it assigned, or the rules
\* again now that whether a secret came back is known.
RegisteredAuthMethod ==
  IF command.method # "" THEN command.method
  ELSE IF site.states THEN site.assigns
  ELSE TokenAuthMethod("", site.advertised, site.assigns # "none")

\* Mutant: registers the default callback, not the one that is open.
RegisterDefault ==
  /\ pc = "resolve" /\ ~command.clientID /\ site.registers
  /\ redirects' = {NoPort}
  /\ plan' = [client |-> TRUE, registered |-> TRUE, secret |-> site.assigns # "none",
              method |-> RegisteredAuthMethod]
  /\ pc' = "authorize"
  /\ UNCHANGED <<inputs, round, port, granted, asked, browser, came, code, verdict, reported, hints, history>>

RegisterClient ==
  /\ pc = "resolve" /\ ~command.clientID /\ site.registers
  /\ redirects' = {port}
  /\ plan' = [client |-> TRUE, registered |-> TRUE, secret |-> site.assigns # "none",
              method |-> RegisteredAuthMethod]
  /\ pc' = "authorize"
  /\ UNCHANGED <<inputs, round, port, granted, asked, browser, came, code, verdict, reported, hints, history>>

----------------------------------------------------------------------------
(***************************************************************************)
(* RunAuthCode.                                                            *)
(***************************************************************************)
StepsUp == command.stepUp /\ site.declared = Scopes   \* at least two are declared

\* The hints run leaves for the check once both rounds of RunStepUp are through.
Hinted ==
  IF round = 3 /\ verdict'[3] = "token" THEN [given |-> TRUE, second |-> reported'[3]] ELSE hints

\* Mutant: the listener stays open.
EndRoundListening(v) ==
  /\ verdict' = [verdict EXCEPT ![round] = v]
  /\ port' = port
  /\ hints' = Hinted
  /\ IF v = "token" /\ (round = 2 \/ (round = 1 /\ StepsUp))
     THEN pc' = "bind" /\ round' = round + 1
     ELSE pc' = "done" /\ round' = round

\* RunAuthCode returns, which closes its server and with it the listener.  A failed
\* login ends the run, a failed step-up round only RunStepUp.
EndRound(v) ==
  /\ verdict' = [verdict EXCEPT ![round] = v]
  /\ port' = NoPort
  /\ hints' = Hinted
  /\ IF v = "token" /\ (round = 2 \/ (round = 1 /\ StepsUp))
     THEN pc' = "bind" /\ round' = round + 1
     ELSE pc' = "done" /\ round' = round

\* A step-up round binds a listener of its own; earlier ports are free again.
Bind ==
  /\ pc = "bind"
  /\ port' \in Ports
  /\ pc' = "authorize"
  /\ UNCHANGED <<inputs, round, plan, server, asked, browser, came, code, verdict, reported, hints, history>>

\* EffectiveScopes for the login; the first declared scope, then the second added.
Requested ==
  [port |-> port,
   scopes |-> CASE round = 1 -> IF command.scopes # {} THEN command.scopes ELSE site.declared
                [] round = 2 -> {"a"}
                [] round = 3 -> {"a", "b"}]

\* The secret, when there is one, is a field of the form.
FormAuth == IF plan.secret THEN "client_secret_post" ELSE ""

Pushed == IF site.par THEN {FormAuth} ELSE {}

\* What the server checks before it shows anybody a page.
Valid == plan.client /\ RedirectKnown(port)

\* The browser is opened at the authorization endpoint.  A server that does not
\* know the client or the redirect URI must not redirect: it keeps the person.
Authorize ==
  /\ pc = "authorize" /\ (site.par => Valid /\ Accepts(FormAuth))
  /\ asked' = [asked EXCEPT ![round] = Requested]
  /\ page' = [page EXCEPT ![round] = IF Valid THEN "open" ELSE "refused"]
  /\ shown' = shown \cup Pushed
  /\ pc' = "waiting"
  /\ UNCHANGED <<inputs, round, plan, port, server, tabs, came, code, verdict, reported, hints, lost>>

\* The answer to the pushed request has no request_uri, or does not come.
PushFails ==
  /\ pc = "authorize" /\ site.par
  /\ \/ ~(Valid /\ Accepts(FormAuth)) /\ UNCHANGED lost
     \/ lost' = lost \cup {round}
  /\ asked' = [asked EXCEPT ![round] = Requested]
  /\ shown' = shown \cup Pushed
  /\ EndRound("failed")
  /\ UNCHANGED <<inputs, plan, server, browser, came, code, reported>>

\* Mutant: whatever code comes in is taken, whoever it was meant for.
ReceiveAny ==
  /\ pc = "waiting"
  /\ \E t \in came[round] :
       /\ t.code # NoCode
       /\ code' = [code EXCEPT ![round] = t.code]
  /\ pc' = "exchange"
  /\ UNCHANGED <<inputs, round, plan, port, server, asked, browser, came, verdict, reported, hints, history>>

\* select, on what the handlers made of the callbacks; the state is compared first.
Receive ==
  /\ pc = "waiting"
  /\ \E t \in came[round] :
       /\ t.state = round /\ t.code # NoCode
       /\ code' = [code EXCEPT ![round] = t.code]
  /\ pc' = "exchange"
  /\ UNCHANGED <<inputs, round, plan, port, server, asked, browser, came, verdict, reported, hints, history>>

\* Mutant: a callback with another state is answered and forgotten.
IgnoreStray ==
  /\ pc = "waiting"
  /\ \E t \in came[round] : t.state = round /\ t.code = NoCode
  /\ EndRound("failed")
  /\ UNCHANGED <<inputs, plan, server, asked, browser, came, code, reported, history>>

Reject ==
  /\ pc = "waiting"
  /\ \E t \in came[round] : t.state # round \/ t.code = NoCode
  /\ EndRound("failed")
  /\ UNCHANGED <<inputs, plan, server, asked, browser, came, code, reported, history>>

\* Mutant: sends the redirect_uri the client was registered with.
RegisteredRedirectSent == IF redirects = {} THEN port ELSE CHOOSE p \in redirects : TRUE

\* redirect_uri of the exchange.
RedirectSent == port

\* The code was issued for this redirect URI and challenge, to a client that
\* authenticates as this one does.
Redeemable ==
  LET c == code[round] IN Accepts(FormAuth) /\ asked[c].port = RedirectSent /\ c = round

Exchange ==
  /\ pc = "exchange" /\ Redeemable
  /\ reported' = [reported EXCEPT ![round] = Told(round)]
  /\ shown' = shown \cup {FormAuth}
  /\ EndRound("token")
  /\ UNCHANGED <<inputs, plan, server, asked, browser, came, code, lost>>

ExchangeFails ==
  /\ pc = "exchange"
  /\ \/ ~Redeemable /\ UNCHANGED lost
     \/ lost' = lost \cup {round}
  /\ shown' = shown \cup {FormAuth}
  /\ EndRound("failed")
  /\ UNCHANGED <<inputs, plan, server, asked, browser, came, code, reported>>

----------------------------------------------------------------------------
(***************************************************************************)
(* The person and the browser.  A page may be answered at any time after   *)
(* it was shown, and a callback loaded again at any time after the first.  *)
(***************************************************************************)
Redirect(k, c) ==
  /\ page[k] = "open"
  /\ page' = [page EXCEPT ![k] = "answered"]
  /\ tabs' = tabs \cup {[port |-> asked[k].port, state |-> k, code |-> c]}

\* Nothing at all is not granted where something was asked for.
Approve(k) ==
  /\ Redirect(k, k)
  /\ asked[k].scopes # {} => Grants(k) # {}
  /\ granted' = [granted EXCEPT ![k] = Grants(k)]
  /\ UNCHANGED <<inputs, pc, round, plan, port, redirects, asked, came, code, verdict, reported, hints, history>>

\* The person declines, or the server does (error=...).
Deny(k) ==
  /\ Redirect(k, NoCode)
  /\ UNCHANGED <<inputs, pc, round, plan, port, server, asked, came, code, verdict, reported, hints, history>>

\* A callback arrives where something listens on its port.
Load(t) ==
  /\ pc = "waiting" /\ t.port = port /\ t \notin came[round]
  /\ came' = [came EXCEPT ![round] = @ \cup {t}]
  /\ UNCHANGED <<inputs, pc, round, plan, port, server, asked, browser, code, verdict, reported, hints, history>>

----------------------------------------------------------------------------
\* Mutant: only the scope the second round adds is looked for.
HasAdded(second) == "b" \in second

HasBoth(second) == Scopes \subseteq second

\* sep2350.stepup.scope_accumulation, from the hints.
StepUpRow ==
  IF ~hints.given \/ hints.second = {} THEN "untested"
  ELSE IF HasBoth(hints.second) THEN "pass" ELSE "fail"

----------------------------------------------------------------------------
Program ==
  \/ Listen \/ TakeClient \/ RegisterClient
  \/ Bind \/ Authorize \/ PushFails
  \/ Receive \/ Reject \/ Exchange \/ ExchangeFails

Person == (\E k \in Rounds : Approve(k) \/ Deny(k)) \/ (\E t \in tabs : Load(t))

Next == Program \/ Person

\* As in AuthCode: the program goes on, nobody has to log in.
Spec == Init /\ [][Next]_vars /\ WF_vars(Program)
==============================================================================

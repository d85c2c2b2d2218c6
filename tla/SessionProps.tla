---------------------------- MODULE SessionProps -----------------------------
(***************************************************************************)
(* What an interactive session owes the person at the browser and the      *)
(* reader of the step-up row.                                              *)
(***************************************************************************)
EXTENDS Session

Callbacks == [port : Ports, state : Rounds, code : Rounds \cup {NoCode}]

TypeOK ==
  /\ [command |-> command, site |-> site] \in Sessions
  /\ pc \in {"listen", "resolve", "bind", "authorize", "waiting", "exchange", "done"}
  /\ round \in Rounds
  /\ plan \in [client : BOOLEAN, registered : BOOLEAN, secret : BOOLEAN, method : Methods \cup {""}]
  /\ port \in Ports \cup {NoPort}
  /\ redirects \subseteq Ports
  /\ asked \in [Rounds -> [port : Ports \cup {NoPort}, scopes : SUBSET Scopes]]
  /\ page \in [Rounds -> {"none", "open", "refused", "answered"}]
  /\ tabs \subseteq Callbacks /\ came \in [Rounds -> SUBSET Callbacks]
  /\ code \in [Rounds -> Rounds \cup {NoCode}]
  /\ verdict \in [Rounds -> {"pending", "failed", "token"}]
  /\ granted \in [Rounds -> SUBSET Scopes] /\ reported \in [Rounds -> SUBSET Scopes]
  /\ hints \in [given : BOOLEAN, second : SUBSET Scopes]
  /\ shown \subseteq Methods \cup {""} /\ lost \subseteq Rounds
  /\ (port # NoPort) <=> (pc \in {"resolve", "authorize", "waiting", "exchange"})

(***************************************************************************)
(* Every round implements LoginRound, which AuthCode shows of the          *)
(* goroutines of one: the three do not mix although their ports may be     *)
(* the same and the browser keeps their callbacks.                         *)
(***************************************************************************)
Codes        == Rounds
arrivedIn(k) == came[k] # {}
codesIn(k)   == {t.code : t \in {u \in came[k] : u.state = k}} \ {NoCode}
verdictOf(k) ==
  [state |-> verdict[k], code |-> IF verdict[k] = "token" THEN code[k] ELSE NoCode]

Login == INSTANCE LoginRound WITH
  arrived <- arrivedIn(1), codes <- codesIn(1), verdict <- verdictOf(1)
Base == INSTANCE LoginRound WITH
  arrived <- arrivedIn(2), codes <- codesIn(2), verdict <- verdictOf(2)
Added == INSTANCE LoginRound WITH
  arrived <- arrivedIn(3), codes <- codesIn(3), verdict <- verdictOf(3)

ImplementsLoginRounds == Login!Spec /\ Base!Spec /\ Added!Spec

\* No round takes another one's code to the token endpoint, although a callback page
\* of an earlier round, loaded again, reaches the listener of a later one that got
\* the same port: the state is compared first (authcode.go:139-152).
OwnCodeRedeemed == \A k \in Rounds : code[k] \in {NoCode, k}

\* A round fails only if it was declined, one of its requests was lost, the server
\* does not take the secret where RunAuthCode puts it, it rejects the pushed request,
\* or the port has served an earlier round whose callback may be loaded again: what
\* is sent in one request of a round fits what was sent in the ones before
\* (authcode.go:75-204).
FailureExplained ==
  \A k \in Rounds : verdict[k] = "failed" =>
    \/ k \in lost
    \/ \E t \in came[k] : t.state = k /\ t.code = NoCode
    \/ \E j \in 1..(k - 1) : asked[j].port = asked[k].port
    \/ ~Accepts(FormAuth)
    \/ site.par /\ ~(plan.client /\ RedirectKnown(asked[k].port))

\* While a round waits there is a page to answer, unless the run has no client, or
\* it is not the login of a client it registered and the server compares redirect
\* URIs to the port: the listener is bound before the client is registered
\* (main.go:112-121, stepup.go:15-36).
WaitsForThePerson ==
  (pc = "waiting" /\ page[round] = "refused") =>
    \/ ~plan.client
    \/ ~site.loopback /\ ~(plan.registered /\ round = 1)

\* The step-up row passes only if the token of the last round carries what the person
\* granted in the rounds before, and fails only if that round has a token and the
\* token lacks a scope it asked for, whatever the server leaves unsaid and however it
\* adds up grants (stepup.go:15-36, checks_sep2350.go:10-28).
StepUpRowIsEarned ==
  /\ StepUpRow = "pass" => verdict[3] = "token" /\ granted[1] \cup granted[2] \subseteq granted[3]
  /\ StepUpRow = "fail" => verdict[3] = "token" /\ ~(asked[3].scopes \subseteq granted[3])

----------------------------------------------------------------------------
(***************************************************************************)
(* Statements of the repository the session does not keep.                 *)
(***************************************************************************)
\* "Force the token-endpoint client auth method" (README.md:219): wherever the client
\* authenticates, it does so the way the plan settled on.
AuthenticatesAsPlanned == shown \subseteq {ApplyClientAuth(plan.method, plan.secret)}

\* "DCR can register the exact loopback redirect_uri the flow will redirect back to"
\* (main.go:112-114): a server that compares redirect URIs to the port knows the one
\* each round of a registered client asks with.
RedirectIsRegistered ==
  (plan.registered /\ ~site.loopback) =>
    \A k \in Rounds : asked[k] # NoRequest => asked[k].port \in redirects

\* A failed step-up row says that the "step-up token dropped a previously granted scope"
\* (checks_sep2350.go:26), an untested one that it "needs --stepup (two interactive
\* authorization rounds over two distinct scopes)" (checks_sep2350.go:16).
StepUpRowIsTrue ==
  /\ StepUpRow = "fail" => ~(granted[1] \cup granted[2] \subseteq granted[3])
  /\ StepUpRow = "untested" => ~(verdict[2] = "token" /\ verdict[3] = "token")
==============================================================================

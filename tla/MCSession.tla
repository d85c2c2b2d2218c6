------------------------------ MODULE MCSession ------------------------------
(***************************************************************************)
(* Two ports: three rounds on two ports reuse one or keep apart the first  *)
(* and the second.  How the client authenticates and what it is granted    *)
(* meet nowhere but in the rounds, so each is varied with the other plain. *)
(***************************************************************************)
EXTENDS SessionProps

TwoPorts == {8001, 8002}

Command == [clientID |-> FALSE, secret |-> FALSE, method |-> "", scopes |-> {}, stepUp |-> TRUE]
Site ==
  [registers |-> TRUE, advertised |-> {"client_secret_post", "client_secret_basic"},
   assigns |-> "client_secret_post", states |-> TRUE, strict |-> TRUE, loopback |-> TRUE,
   par |-> FALSE, declared |-> Scopes, allowed |-> Scopes, keeps |-> "asked", silent |-> FALSE]

\* Who the client is, and how it is asked to authenticate.
AuthCommands ==
  {[Command EXCEPT !.clientID = c, !.secret = c /\ s, !.method = m, !.stepUp = u] :
     c \in BOOLEAN, s \in BOOLEAN, m \in Methods \cup {""}, u \in BOOLEAN}
AuthSites ==
  {[Site EXCEPT !.registers = r, !.assigns = m, !.states = t, !.strict = s, !.loopback = l, !.par = p] :
     r \in BOOLEAN, m \in Methods, t \in BOOLEAN, s \in BOOLEAN, l \in BOOLEAN, p \in BOOLEAN}

\* What is asked for, granted and said.
ScopeCommands == {[Command EXCEPT !.scopes = x] : x \in {{}, {"a"}, {"b"}}}
ScopeSites ==
  {[Site EXCEPT !.declared = d, !.allowed = a, !.keeps = k, !.silent = s] :
     d \in {{"a"}, Scopes}, a \in SUBSET Scopes, k \in {"asked", "all", "added"}, s \in BOOLEAN}

MCSessions ==
  [command : AuthCommands, site : AuthSites] \cup [command : ScopeCommands, site : ScopeSites]

\* Servers whose step-up row says what did not happen: one that may grant only the
\* first scope, and one that leaves out a scope granted as it was asked for.
StepUpSessions ==
  [command : {Command}, site : {[Site EXCEPT !.allowed = {"a"}], [Site EXCEPT !.silent = TRUE]}]
==============================================================================

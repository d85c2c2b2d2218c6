--------------------------------- MODULE Run ---------------------------------
(***************************************************************************)
(* One run of aoa-conform, from the command line to the process exit:      *)
(* main.run, Runner.Run, Discover and Resolve, with the checks of the      *)
(* registry in the middle, against a deployment whose state the run        *)
(* changes: it registers a client there, logs in, revokes a token.         *)
(*                                                                         *)
(* The run is sequential.  What makes it hard is that it is long: facts    *)
(* are learnt twice on the interactive path, the client and the tokens the *)
(* later checks rely on are the ones earlier steps created or destroyed,   *)
(* and every early return has to leave through the same cleanup.           *)
(***************************************************************************)
EXTENDS Checks

CONSTANTS
  Registry,      \* the checks selected by --profile, in registry order
  Invocations,   \* command lines
  Deployments    \* what they are pointed at

InvocationType ==
  [badFlags : BOOLEAN,        \* an unknown profile or an unreadable CA file
   target : BOOLEAN, issuer : BOOLEAN, authCode : BOOLEAN, stepUp : BOOLEAN,
   present : BOOLEAN, strict : BOOLEAN, clientID : BOOLEAN, subjectToken : BOOLEAN,
   unknownModel : BOOLEAN,
   actorToken : BOOLEAN]      \* Target.Hints, set by callers of the package only

\* A sound deployment answers every request, conforms wherever it advertises
\* something and honours tokens until they are revoked.
DeploymentType ==
  [facts : SUBSET (ResourceFacts \cup IssuerFacts),
   sound : BOOLEAN,
   openDCR : BOOLEAN,      \* registers clients without an initial access token
   clientURI : BOOLEAN]    \* hands out a registration_client_uri (RFC 7592)

CheckType ==
  [id : STRING, profile : Profiles, rfc : STRING, sev : Severities,
   gates : Seq(STRING), judges : SUBSET Facts, may : SUBSET Outcomes]

ASSUME RegistryAssumption == Registry \in Seq(CheckType)
\* Runner.Run writes two rows of its own, under ids no check has.
ASSUME SyntheticAssumption == Ids(Registry) \cap {DiscoveryFailed.id, RegistrationFailed.id} = {}
ASSUME InvocationsAssumption == Invocations \subseteq InvocationType
ASSUME DeploymentsAssumption ==
  /\ Deployments \subseteq DeploymentType
  /\ \A s \in Deployments : "asMetadata" \in s.facts <=> "tokenEndpoint" \in s.facts
  /\ \A s \in Deployments : s.facts \cap IssuerFacts # {} => "asMetadata" \in s.facts

\* Gates come capability first (check.go:79-82): a gate about the server stands before
\* any about the operator, except the one that asks for a resource server to test,
\* and that one stands before every gate about the resource server.
ResourceGates == ResourceFacts \cup {"anyScopeSource"}
IssuerGates   == IssuerFacts \cup {"issuer"}

ASSUME GatesAssumption ==
  \A i \in DOMAIN Registry : \A k \in DOMAIN Registry[i].gates :
    LET gates   == Registry[i].gates
        earlier == {gates[j] : j \in 1..(k - 1)}
    IN gates[k] \notin OperatorGates =>
         /\ gates[k] \in ResourceGates \cup IssuerGates
         /\ earlier \cap OperatorGates \subseteq {"mcpTarget"}
         /\ gates[k] \in ResourceGates => "mcpTarget" \in earlier

\* A check whose Run may find the server at fault, or find nothing there, may also
\* find it in order: what a sound server is asked can be passed.
ASSUME OutcomesAssumption ==
  \A i \in DOMAIN Registry :
    /\ "unsupported" \in Registry[i].may => "pass" \in Registry[i].may
    /\ Registry[i].sev = "MUST" /\ Registry[i].may \cap {"fail", "error"} # {} => "pass" \in Registry[i].may

\* What every MCP server and its authorization server owe a client.
Baseline ==
  {"challenge", "challengeMetadata", "prm", "prmJSON", "prmServers", "prmCanonical",
   "noQueryMethod", "headerMethod", "asMetadata", "issuerMatch", "tokenEndpoint",
   "tokenHTTPS", "s256"}

\* A MUST that is judged without a request is part of the baseline, or its gates ask
\* first for what it is about.
ASSUME RequirementsAssumption ==
  \A i \in DOMAIN Registry :
    LET judges == Registry[i].judges
        asked  == ToSet(Registry[i].gates)
    IN Registry[i].sev = "MUST" /\ Registry[i].may = {} =>
         \/ judges \subseteq Baseline \cap IssuerFacts
         \/ judges \subseteq Baseline /\ "mcpTarget" \in asked
         \/ judges \subseteq {"applicationTypeKept", "issuerBound"} /\ "registered" \in asked
         \/ judges \subseteq {"issReturned"} /\ {"issAdvertised", "authCodeFlow"} \subseteq asked

VARIABLES
  opts,      \* the command line
  site,      \* the deployment under test
  pc,        \* where run() is
  disc,      \* Target.Discovered and the challenge hint, as facts
  plan,      \* Target.Plan
  creds,     \* facts of Target.Creds and of the hints a login leaves
  live,      \* clients this run registered that the AS still has
  subject,   \* the subject token at the AS: "none", "active", "dead"
  refresh,   \* the captured refresh token at the AS
  entries,   \* Report.Entries
  next,      \* the registry position of the next check
  written,   \* the report reached the output
  exit       \* the exit code decided, NoExit before

inputs  == <<opts, site>>
tokens  == <<subject, refresh>>
outcome == <<written, exit>>
vars    == <<opts, site, pc, disc, plan, creds, live, subject, refresh, entries, next, written, exit>>

NoExit == -1
NoPlan == [client |-> FALSE, registered |-> FALSE, uri |-> FALSE, regError |-> FALSE, facts |-> {}]

Init ==
  /\ opts \in Invocations /\ site \in Deployments
  /\ pc = "start"
  /\ disc = {} /\ plan = NoPlan
  /\ creds = (IF opts.subjectToken THEN {"subjectToken"} ELSE {})
               \cup (IF opts.actorToken THEN {"actorToken"} ELSE {})
  /\ live = 0
  /\ subject = IF opts.subjectToken THEN "active" ELSE "none"
  /\ refresh = "none"
  /\ entries = <<>> /\ next = 1
  /\ written = FALSE /\ exit = NoExit

\* return code, once the deferred cleanup is in place, and before it is.
Return(code) == pc' = "cleanup" /\ exit' = code
Quit(code)   == pc' = "done" /\ exit' = code

----------------------------------------------------------------------------
\* Flags are read before anything is sent.
RejectFlags ==
  /\ pc = "start" /\ (opts.badFlags \/ ~(opts.target \/ opts.issuer))
  /\ Quit(2)
  /\ UNCHANGED <<inputs, disc, plan, creds, live, tokens, entries, next, written>>

AcceptFlags ==
  /\ pc = "start" /\ ~opts.badFlags /\ (opts.target \/ opts.issuer)
  /\ pc' = IF opts.authCode THEN "prediscover" ELSE "discover"
  /\ UNCHANGED <<inputs, disc, plan, creds, live, tokens, entries, next, outcome>>

(***************************************************************************)
(* probe.Discover.  A walk ends with an error or without, and with a       *)
(* result or without (nil): a nil result leaves what was known untouched,  *)
(* any other replaces all of it.                                           *)
(***************************************************************************)
Walk(ok, facts) == [ok |-> ok, nil |-> FALSE, facts |-> facts]
Unreachable     == [ok |-> FALSE, nil |-> TRUE, facts |-> {}]

ChallengeFacts == {"challenge", "challengeMetadata", "challengeScope"}

\* What an unreliable deployment leaves of the challenge: MCPRequest keeps the answer
\* to its first request when the one to its second is lost.  Whatever is missing
\* cannot advertise offline_access either.
Heard ==
  {heard \cup quiet : heard \in {site.facts \cap ChallengeFacts, {}},
                     quiet \in {site.facts \cap {"noOfflineAccess"}, {"noOfflineAccess"}}}

\* An error page in place of the protected-resource document: its body is kept,
\* and a document that says nothing offers no query method either.
ErrorPage(heard) == heard \cup {"prm", "noQueryMethod", "headerMethod"}

\* Step 3 of the walk, from the issuer named by --issuer or by the document.
MetadataWalks(resource) ==
  LET named == resource \cup {"issuer"}
  IN (IF "asMetadata" \in site.facts THEN {Walk(TRUE, named \cup (site.facts \cap IssuerFacts))} ELSE {})
     \cup (IF "asMetadata" \notin site.facts \/ ~site.sound THEN {Walk(FALSE, named)} ELSE {})

\* Step 3 is for the first server the document names, if it names one.
ResourceWalks(resource) ==
  IF "prmServers" \in resource THEN MetadataWalks(resource) ELSE {Walk(FALSE, resource)}

Walks ==
  LET resource == site.facts \cap ResourceFacts
      document == resource \ (ChallengeFacts \cup {"noOfflineAccess"})
  IN IF ~opts.target THEN MetadataWalks({})
     ELSE IF site.sound THEN ResourceWalks(resource)
     ELSE {Unreachable}
            \cup (UNION {ResourceWalks(document \cup heard) : heard \in Heard})
            \cup {Walk(FALSE, ErrorPage(heard)) : heard \in Heard}

Learn(walk) == disc' = IF walk.nil THEN disc ELSE walk.facts

\* The interactive path needs endpoints before it can log in: discoverForAuthCode.
PreDiscover ==
  /\ pc = "prediscover"
  /\ \E walk \in Walks :
       /\ Learn(walk)
       /\ IF walk.ok /\ {"authorizationEndpoint", "tokenEndpoint"} \subseteq disc'
          THEN pc' = "resolve" /\ exit' = exit
          ELSE Quit(1)
  /\ UNCHANGED <<inputs, plan, creds, live, tokens, entries, next, written>>

\* net.Listen fails: no plan yet, nothing to clean up.
ListenFails ==
  /\ pc = "resolve" /\ opts.authCode
  /\ Quit(1)
  /\ UNCHANGED <<inputs, disc, plan, creds, live, tokens, entries, next, written>>

----------------------------------------------------------------------------
(***************************************************************************)
(* Resolve: take the operator's client, or register one.                   *)
(***************************************************************************)
AfterResolve == IF opts.authCode THEN "login" ELSE "prelude"

NoRegistration ==
  /\ pc = "resolve" /\ (opts.clientID \/ "registrationEndpoint" \notin disc)
  /\ plan' = [NoPlan EXCEPT !.client = opts.clientID]
  /\ pc' = AfterResolve
  /\ UNCHANGED <<inputs, disc, creds, live, tokens, entries, next, outcome>>

\* Mutant: registers although the operator brought a client.
MayAlwaysRegister == pc = "resolve" /\ "registrationEndpoint" \in disc

MayRegister == pc = "resolve" /\ ~opts.clientID /\ "registrationEndpoint" \in disc

Register ==
  /\ MayRegister /\ site.openDCR
  /\ \E kept \in SUBSET {"applicationTypeKept", "issuerBound"} :
       /\ site.sound => kept = {"applicationTypeKept", "issuerBound"}
       /\ plan' = [client |-> TRUE, registered |-> TRUE, uri |-> site.clientURI,
                   regError |-> FALSE, facts |-> kept]
  /\ live' = live + 1
  /\ pc' = AfterResolve
  /\ UNCHANGED <<inputs, disc, creds, tokens, entries, next, outcome>>

\* Refused, or an answer lost on the way back from a server that did register.
RegistrationFails ==
  /\ MayRegister /\ ~(site.sound /\ site.openDCR)
  /\ plan' = [NoPlan EXCEPT !.regError = TRUE]
  /\ live' \in {live} \cup (IF site.openDCR THEN {live + 1} ELSE {})
  /\ pc' = AfterResolve
  /\ UNCHANGED <<inputs, disc, creds, tokens, entries, next, outcome>>

----------------------------------------------------------------------------
\* RunAuthCode returned a token: it takes the place of a pasted one.  A sound
\* authorization server redirects nobody back to a client it does not know.
LoginSucceeds ==
  /\ pc = "login" /\ (site.sound => plan.client)
  /\ \E got \in SUBSET {"refreshToken", "twoScopes", "issReturned"} :
       /\ site.sound => ("issReturned" \in got <=> "issAdvertised" \in site.facts)
       /\ creds' = creds \cup {"subjectToken", "authCodeFlow"} \cup got
       /\ refresh' = IF "refreshToken" \in got THEN "active" ELSE "none"
  /\ subject' = "active"
  /\ pc' = IF opts.stepUp THEN "stepup" ELSE "discover"
  /\ UNCHANGED <<inputs, disc, plan, live, entries, next, outcome>>

\* Mutants: leaves without the cleanup; leaves with exit code 0.
LoginFailsUncleaned ==
  /\ pc = "login"
  /\ Quit(1)
  /\ UNCHANGED <<inputs, disc, plan, creds, live, tokens, entries, next, written>>

LoginFailsQuietly ==
  /\ pc = "login"
  /\ Return(0)
  /\ UNCHANGED <<inputs, disc, plan, creds, live, tokens, entries, next, written>>

LoginFails ==
  /\ pc = "login"
  /\ Return(1)
  /\ UNCHANGED <<inputs, disc, plan, creds, live, tokens, entries, next, written>>

\* RunStepUp: two more rounds.  A failure is only logged, and a server that does
\* not report the scope it granted leaves no trace either.
StepUp ==
  /\ pc = "stepup"
  /\ \E got \in {{}, {"stepUp"}, {"stepUp", "scopeAccumulated"}} :
       /\ got # {} => "twoPRMScopes" \in disc
       /\ site.sound => got # {"stepUp"}
       /\ creds' = creds \cup got
  /\ pc' = "discover"
  /\ UNCHANGED <<inputs, disc, plan, live, tokens, entries, next, outcome>>

----------------------------------------------------------------------------
\* Runner.Run discovers, again on the interactive path.
Discover ==
  /\ pc = "discover"
  /\ \E walk \in Walks :
       /\ Learn(walk)
       /\ entries' = IF walk.ok THEN entries ELSE Append(entries, DiscoveryFailed)
  /\ pc' = IF opts.authCode THEN "prelude" ELSE "resolve"
  /\ UNCHANGED <<inputs, plan, creds, live, tokens, next, outcome>>

ReportRefusal ==
  /\ pc = "prelude"
  /\ entries' = IF plan.regError THEN Append(entries, RegistrationFailed) ELSE entries
  /\ pc' = "checks"
  /\ UNCHANGED <<inputs, disc, plan, creds, live, tokens, next, outcome>>

(***************************************************************************)
(* The checks.  View is the Target a check is handed.                      *)
(***************************************************************************)
View ==
  disc \cup plan.facts \cup creds
    \cup (IF opts.target THEN {"mcpTarget"} ELSE {})
    \cup (IF opts.present THEN {"presentEnabled"} ELSE {})
    \cup (IF plan.client THEN {"client"} ELSE {})
    \cup (IF plan.registered THEN {"registered"} ELSE {})

\* The checks that put the subject token itself before a server.
SubjectTokenRows ==
  {"rfc7662.introspect.active", "smoke.present.token_accepted",
   "rfc8693.impersonation.issues_token", "rfc8693.downscope.scope_honored"}

Revocation   == "rfc7009.revoke.honored"
RefreshScope == "sep2207.refresh.scope_semantics"

\* What SoundAnswers makes these checks say they can say.
ASSUME LifecycleAssumption ==
  \A i \in DOMAIN Registry :
    /\ Registry[i].id \in SubjectTokenRows => {"pass", "fail"} \subseteq Registry[i].may
    /\ Registry[i].id = Revocation => "pass" \in Registry[i].may
    /\ Registry[i].id = RefreshScope => "untested" \in Registry[i].may

\* No MUST is put to a server with a token that an earlier row has revoked.
ASSUME OrderAssumption ==
  \A i, j \in DOMAIN Registry :
    Registry[j].id = Revocation /\ j < i =>
      ~(Registry[i].id \in SubjectTokenRows /\ Registry[i].sev = "MUST")

\* A sound deployment passes whatever it can, but it does not honour a token it
\* has revoked.  The refresh check reads only the scope of the answer, never its
\* status, so a refused refresh passes like a narrowed one.
SoundAnswers(c) ==
  LET may == Evaluate(c, View)
  IN IF "pass" \notin may THEN may
     ELSE IF c.id \in SubjectTokenRows /\ subject = "dead" THEN {"fail"}
     ELSE IF c.id = RefreshScope /\ "twoScopes" \notin creds THEN {"untested"}
     ELSE {"pass"}

\* Any other deployment may answer anything, and evaluateSafely turns a panic on
\* such an answer into an error.
WildAnswers(c) ==
  Evaluate(c, View) \cup
    (IF FirstUnmet(c.gates, View) = 0 /\ c.may # {} THEN {"error"} ELSE {})

RecordRow(c) ==
  \E o \in IF site.sound THEN SoundAnswers(c) ELSE WildAnswers(c) :
    entries' = Append(entries, Entry(c, o))

RunCheck ==
  /\ pc = "checks" /\ next <= Len(Registry) /\ Registry[next].id # Revocation
  /\ RecordRow(Registry[next])
  /\ next' = next + 1
  /\ UNCHANGED <<inputs, pc, disc, plan, creds, live, tokens, outcome>>

\* Mutant: the token is revoked before the precondition is looked at.
RunRevocationUngated ==
  /\ pc = "checks" /\ next <= Len(Registry) /\ Registry[next].id = Revocation
  /\ RecordRow(Registry[next])
  /\ next' = next + 1
  /\ subject' = IF subject = "none" THEN "none" ELSE "dead"
  /\ UNCHANGED <<inputs, pc, disc, plan, creds, live, refresh, outcome>>

\* obtainToken hands out the subject token when there is one: the revocation
\* check then revokes it, and the server may take its refresh token along
\* (RFC 7009).  Otherwise a token nobody else holds is minted and revoked.
RunRevocation ==
  /\ pc = "checks" /\ next <= Len(Registry) /\ Registry[next].id = Revocation
  /\ RecordRow(Registry[next])
  /\ next' = next + 1
  /\ \/ /\ FirstUnmet(Registry[next].gates, View) = 0 /\ subject # "none"
        /\ subject' = "dead"
        /\ refresh' \in {refresh} \cup (IF refresh = "active" THEN {"dead"} ELSE {})
     \/ /\ FirstUnmet(Registry[next].gates, View) # 0 \/ subject = "none" \/ ~site.sound
        /\ UNCHANGED tokens
  /\ UNCHANGED <<inputs, pc, disc, plan, creds, live, outcome>>

\* Mutant: one check too few.
EndChecksEarly ==
  /\ pc = "checks" /\ next \in {Len(Registry), Len(Registry) + 1}
  /\ pc' = "verdicts"
  /\ UNCHANGED <<inputs, disc, plan, creds, live, tokens, entries, next, outcome>>

EndChecks ==
  /\ pc = "checks" /\ next = Len(Registry) + 1
  /\ pc' = "verdicts"
  /\ UNCHANGED <<inputs, disc, plan, creds, live, tokens, entries, next, outcome>>

----------------------------------------------------------------------------
\* attachModelVerdicts: --model is read only now.
RejectModel ==
  /\ pc = "verdicts" /\ opts.unknownModel
  /\ Return(2)
  /\ UNCHANGED <<inputs, disc, plan, creds, live, tokens, entries, next, written>>

AttachVerdicts ==
  /\ pc = "verdicts" /\ ~opts.unknownModel
  /\ pc' = "finish"
  /\ UNCHANGED <<inputs, disc, plan, creds, live, tokens, entries, next, outcome>>

Finish ==
  /\ pc = "finish"
  /\ written' = TRUE
  /\ Return(ExitCode(entries, opts.strict))
  /\ UNCHANGED <<inputs, disc, plan, creds, live, tokens, entries, next>>

WriteFails ==
  /\ pc = "finish"
  /\ Return(1)
  /\ UNCHANGED <<inputs, disc, plan, creds, live, tokens, entries, next, written>>

\* Mutant: deletes whether or not this run registered.
CleanUpUnconditionally ==
  /\ pc = "cleanup"
  /\ live' = live - 1
  /\ pc' = "done"
  /\ UNCHANGED <<inputs, disc, plan, creds, tokens, entries, next, outcome>>

\* The deferred cleanupRegistration; a failed delete is only logged.
CleanUp ==
  /\ pc = "cleanup"
  /\ IF plan.registered /\ plan.uri
     THEN live' \in {live - 1} \cup (IF site.sound THEN {} ELSE {live})
     ELSE live' = live
  /\ pc' = "done"
  /\ UNCHANGED <<inputs, disc, plan, creds, tokens, entries, next, outcome>>

\* No signal handler: an interrupt ends the process wherever it is.
Interrupt ==
  /\ pc \notin {"done", "killed"}
  /\ pc' = "killed"
  /\ UNCHANGED <<inputs, disc, plan, creds, live, tokens, entries, next, outcome>>

----------------------------------------------------------------------------
\* The steps the program takes by itself; a login or a step-up round waits for a
\* person.
Program ==
  \/ RejectFlags \/ AcceptFlags
  \/ PreDiscover \/ ListenFails
  \/ NoRegistration \/ Register \/ RegistrationFails
  \/ Discover \/ ReportRefusal
  \/ RunCheck \/ RunRevocation \/ EndChecks
  \/ RejectModel \/ AttachVerdicts \/ Finish \/ WriteFails
  \/ CleanUp

Person == LoginSucceeds \/ LoginFails \/ StepUp

Next == Program \/ Person \/ Interrupt

Spec == Init /\ [][Next]_vars
=============================================================================

# aoa-conform in TLA+

`aoa-conform` points at an MCP server or an OAuth authorization server, probes
it and reports, check by check, whether an agent could log in there. This
directory holds TLA+ models of the program, the TLC instances that check them,
and proofs for TLAPS. Source paths below are relative to `src/`.

The program is small and mostly sequential, and most of what can go wrong in it
is in the *length* of a run: facts are discovered once or twice, a client is
registered and must be deleted again, tokens are obtained, used and revoked by
checks that know nothing of each other, and four different summaries are computed
from the rows at the end. The one concurrent part is the interactive login.

## 1. Inventory

| Component | State | Operations | Talks to |
|---|---|---|---|
| Command line, `cmd/aoa-conform/main.go` | options, `Target`, deferred cleanup, exit code | flags, `discoverForAuthCode`, login, step-up, `attachModelVerdicts`, `finish`, `cleanupRegistration` | everything below, sequentially |
| Runner, `conformance/runner.go` | `Report.Entries` | `Run`, `Discover`, `evaluateSafely` | discovery, resolver, registry |
| Resolver, `conformance/resolve.go`, `probe/register.go`, `probe/clientauth.go` | `AuthPlan`, written once | `Resolve`, `Register`, `DeleteRegistration` | the authorization server, which then holds a client |
| Registry, gates, checks, `conformance/check.go`, `gates.go`, `registry.go`, `checks_*.go` | none of their own: they read `Target` and change the servers | `needs`, `Evaluate`, 20 groups of checks | servers under test |
| Verdicts, `model_verdict.go`, `capabilities.go`, `report.go` | none | `weighEntries`, `EvaluateModels`, `Capabilities`, `Summarize` | read the rows |
| Interactive round, `probe/authcode.go` | two channels, `callbackISS`, a listener | `RunAuthCode`, one handler goroutine per request | a person, a browser, the authorization server |
| Step-up, `probe/stepup.go`, `conformance/checks_sep2350.go` | three hints in `Target` | `RunStepUp`: two more rounds, each on a listener of its own; the row made of their hints | the interactive round; the same client, server and browser as the login |
| Discovery walk, `probe/discover.go` | the `Discovered` it returns | `Discover`, `fetchASMetadata` | MCP probe, servers |
| MCP probe, `probe/mcp.go` | none | `MCPRequest`: modern call, legacy fallback, version retry | the MCP server |
| Presentation and DPoP, `probe/present.go`, `dpop.go`, `jose.go`, `conformance/checks_dpop.go` | a key per check; nonces and proofs seen at the server | `PresentToken`, `Proof`, nonce retry | servers |
| Other probes, `exchange.go`, `cimd.go`, `http.go` | none | one request each | servers |
| Surfaces, `model_profiles.go`, `model_profiles.yaml` | the corpus | `LoadProfiles`, `SelectSurfaces` | verdicts |
| Renderers, `report_markdown.go`, `report_json.go` | none | `Write` | verdicts, output |
| Test double, `internal/fakeas` | tokens issued and revoked, clients | an authorization and a resource server, each with some thirty switchable faults | tests only; here the servers of `Wire` |
| Example server, `integration/mcpserver` | – | – | manual tests only |

**What is hard here.**

- *Sequences of legal steps.* The revocation check revokes the operator's own
  token; later checks present it. The interactive path runs discovery twice and
  registers a client between the two.
- *Partial failure.* Every request may fail, and each early return of `run` has
  to pass the cleanup, to have told the reader what happened, and to fail the
  process.
- *Attribution.* `not supported`, `not tested` and `fail` blame the server, the
  operator and the server again. Which one a row says depends on the order of
  its gates and on what discovery happened to bring back.
- *Agreement.* The exit code, the capability matrix and the compatibility
  verdicts use different rules over the same rows.
- *Dialogues.* A row comes of one to four requests. What the second asks depends
  on the first: a nonce, a token, a protocol version, the era of the server. Any
  of them may be lost, and a server may refuse one for a reason the row does not
  ask about.
- *Consistency across requests.* A round is one request the person sees, one the
  server may have had pushed, and one exchange; the client was registered before
  any of them. The redirect URI, the secret, the code and the challenge must fit
  from one to the next, in up to three rounds with one client.
- *Interleaving.* Handlers of the login callback run concurrently with `select`,
  share an unguarded variable and block on channels of capacity one.

**What makes each component correct.**

- *Command line*: whichever return is taken, the ephemeral client is deleted
  where that is possible; exit code 0 only with a complete report; no server keeps
  a run going.
- *Runner*: one row per selected check in registry order, after at most one row
  each for failed discovery and refused registration.
- *Resolver*: one identity per run, used the way the server says it registered it, or
  else one it advertises.
- *MCP probe*: the answer reported is the last the server gave, under the version
  it was given at; no version is asked for twice; an era is one the server showed.
- *Presentation*: a proof is signed for one request; a challenge is answered once.
- *Checks*: a conforming server is not failed; a fault a row is for does not pass
  it; a lost message is an error, not a finding; `not supported` is about the
  server; an absent capability is named as such whatever the operator withheld.
- *Verdicts*: evidence is weighed by severity, not by position; untested rows
  decide nothing; a MUST-level shortfall cannot be outweighed, and exit code, verdicts
  and matrix all tell of it.
- *Interactive round*: the code that came first is redeemed, several logins do
  not defeat each other, and a round to which anything came back ends.
- *Login and step-up together*: no round redeems another's code, a round fails for
  a reason of its own, and the step-up row is about the token of the last one.

The hazards, line by line and with the property that watches each, are in
`PROJECT.json`.

## 2. Modules

```
Verdict          rows and what they add up to (pure)
 |-- Verdict_proofs
 |-- Report      abstract: what a report promises      <- ReportProps <- MCReport
 |                  '-- Report_proofs (and Verdict_proofs)
 '-- Checks      the registry: gates, outcomes
      '-- Run    one run against a deployment          <- RunProps <- MCRun
           |          implements Report (INSTANCE in RunProps)
           |-- Run_proofs
           |
           |    Mcp      one call of MCPRequest, any server
           |    FakeAS   the servers of internal/fakeas      (pure)
           |     |
           |    AuthMethod  how a client authenticates       (pure)
           |     |
           '-- Wire      Run + Mcp against FakeAS        <- WireProps <- MCWire
                |         implements Run (ImplementsRun in WireProps)
                '-- Wire_proofs (also Mcp) <- Dialogue_proofs (and Run_proofs)
                                           <- Finding_proofs

LoginRound       abstract: what an interactive round promises
AuthCode         RunAuthCode, goroutines and channels  <- AuthCodeProps <- MCAuthCode
      |               implements LoginRound (INSTANCE in AuthCodeProps)
      '-- AuthCode_proofs
Session          login and step-up rounds, AuthMethod  <- SessionProps <- MCSession
                      |     implements LoginRound three times (in SessionProps)
                      '-- Session_proofs
```

No module that a theorem reaches declares a RECURSIVE operator.
Each base module also holds, beside the definition they alter and marked
`Mutant`, the faulty variants used to see that a property can fail.

### Verdict
An entry is `[id, rfc, sev, outcome]`. `Status` and `SkipKind` are one outcome,
`pass`, `fail`, `error`, `unsupported` or `untested`: every path that skips sets
one of the two kinds. `WeighEntries`, `LabelOutcome`, `RequirementOutcome`,
`ModelVerdict`, `CapabilityState`, `HasFailure` and `ExitCode` follow the
functions of the same names. The entries of one label are the set of their
positions in the report (`Labelled`); where the Go code keeps pointers to the first
entry of each kind, `First` is the least such position and `decidedBy` one of them.
Reasons and detail texts are left out.

### Report
`entries` grows by the two synthetic preludes, then by one row per check, and is
then published with the exit code its rows call for, or never published and the
exit code is 1 or 2. `Abort` is possible before the first row (usage, discovery
or login trouble) and after the last one (unknown `--model`, unwritable output),
never in between. A row may publish any of its `answers`.

### Checks
A target is a set of facts: what the challenge, the two metadata documents, the
plan and the credentials say, as far as some check tells the difference. A gate
asks for a fact or a small formula over facts (`GateHolds`) and blames one side
(`SkipKind`). A check that sends nothing has `judges`, the facts it passes on; a
check that talks to a server has `may`, the outcomes its code can return. The
registry is complete: 57 checks in the order `DefaultRegistry` registers them.

### Run
`pc` follows `run`; `disc`, `plan` and `creds` are the three parts of `Target`;
`live`, `subject` and `refresh` are the state the run causes *at the server*:
clients it holds, and whether the tokens still work.

| Action | Code |
|---|---|
| `RejectFlags`, `AcceptFlags` | `main`, `parseProfiles`, `buildHTTPClient` |
| `PreDiscover`, `ListenFails` | `discoverForAuthCode`, `net.Listen` |
| `Discover`, `Walks`, `Learn` | `Runner.Run`, `conformance.Discover`, `probe.Discover` |
| `NoRegistration`, `Register`, `RegistrationFails` | `Resolve`, `probe.Register` |
| `LoginSucceeds`, `LoginFails`, `StepUp` | main.go:131-178 |
| `ReportRefusal` | runner.go:43-54 |
| `RunCheck`, `RunRevocation`, `EndChecks` | runner.go:56-60, checks_rfc7009.go:49-70 |
| `RejectModel`, `AttachVerdicts`, `Finish`, `WriteFails` | `attachModelVerdicts`, `finish` |
| `CleanUp` | `cleanupRegistration`, `DeleteRegistration` |
| `Interrupt` | there is no signal handler: the process ends where it is |

The deployment is external and comes in two kinds. A *sound* one answers every
request, conforms wherever it advertises something and honours tokens until they
are revoked; it is what the attribution properties are about. Any other may lose
an answer (also after having registered the client), serve an error page in
place of a document, answer the second walk differently from the first, and give
a check any outcome its code can return, a recovered panic included.

### Mcp
One call of `probe.MCPRequest` as a state machine that knows no server: each
request it sends is answered by any member of `Replies`, or by nothing. `phase`
is the request waited for; `asked` and `heard` are the requests and what came
back, `kept`, `version`, `era` and `supported` the four fields of `MCPResult`.
`Settled`, `FallBack` and `ModernRefusal` are the three ways to read the first
answer (mcp.go:106, 113, 129), `Initialized` and `Again` the two second answers,
`FirstLost` and `SecondLost` the two errors, of which only the first is returned.
A body is the class of its JSON-RPC code and the versions it lists; headers are
the facts callers read off them. Versions are numbers: ISO dates of one length
order the same way.

### FakeAS
Every handler of `internal/fakeas` the program reaches without a login, as an
operator from the switched-on violations, what the server remembers and a request
to an answer. The names are those of the Go fields and functions. `ExternalAS` and
`ExternalRS` are switches of our own for what real servers do and the in-process
pair cannot: hold a client to the method it registered with, assign that method as
they like, one the tool does not implement included, and leave it out of the
registration answer; want a secret for introspection, speak only a newer or only the
older revision, remember proofs, compare the key of a proof with the key of the token,
demand a nonce. They are
marked external in `PROJECT.json`.

### Wire
`Run` and `Mcp` together: a run whose walk and whose checks are *dialogues*. `said`
is what the walk or check at hand has been answered; `WalkRequest` and `Asks` are
its next request, `Walked` and `Rules` what it makes of the answers once there is
none. A request to the authorization server is one step (`AskAS`); one to the MCP
endpoint goes through the steps of `Mcp` (`Call`, `AnswerCall`, `LoseCall`).
`EndWalk` and `EndCheck` are then steps of `Run`: they append the row. A request
is lost before or after it reached the server while the world's `losses` last.

| In Wire | Code |
|---|---|
| `WalkRequest`, `Walked`, `Lacks` | `probe.Discover`, `fetchASMetadata` |
| `OneShot`, `Asks`, `Passes`, `Rules` | the `Run` functions of checks_*.go |
| `Obtaining`, `Obtained`, `Uses` | `obtainToken`, and the checks that hold a token |
| `PresentWithRetry`, `Signed` | `presentWithRetry`, `ProofKey.Proof` |
| `RegisteredAuthMethod`, `ClientAuth` | resolve.go, clientauth.go |
| `RegisterAnswered`, `RegisterUnanswered`, `Deregister` | `Register`, `DeleteRegistration` |

`RegisteredAuthMethod` reads what the server *says* (`StatedMethod`), which need not
be what it put on file (`AssignedMethod`): where the answer names no method, or one the
tool does not implement, the method is settled a second time from the metadata.

The session is without a login, so `Interrupt`, the failures of the command line
and the interactive path stay with `Run`. `SiteOf` says which deployment of `Run`
a pair of servers amounts to, and whether it is a sound one; `ImplementsRun` then
is the claim that the outcome sets and the walks `Run` works with are not too
narrow for what the dialogues produce, and for sound servers not too wide.

### AuthCode
One action per statement that another goroutine can tell apart. `callbackISS` is
a Go string, two words, written without a lock: two actions write it, and the
main goroutine may read between them. `SendCode` and `SendErr` block while the
channel is full. `ReceiveCode`, `ReceiveErr` and `Cancelled` are the branches of
`select`; ready branches are chosen freely. Codes of one authorization server
are distinct, requests carry one of the shapes in `Responses`.

### AuthMethod
`TokenAuthMethod` is `resolveTokenAuthMethod`, `ApplyClientAuth` what a request that
follows the method shows the server. `Wire` and `Session` share them.

### Session
The interactive part of `run`, from binding the callback listener to the hints of
the step-up check: one login and, with `--stepup`, two more rounds, for one client,
at one server, with one browser. Where `AuthCode` has the goroutines inside a round,
`Session` has what crosses from one request or one round to another. State and PKCE
pair are random in the code; here they are the number of the round they were made
for. A port may come back: `RunAuthCode` closes its server, and with it the listener,
before it returns (authcode.go:153), so `net.Listen` may hand the port out again.

| Action | Code |
|---|---|
| `Listen`, `TakeClient`, `RegisterClient` | main.go:112-125, `Resolve` |
| `Authorize`, `PushFails` | `RunAuthCode` up to the browser, PAR included |
| `Receive`, `Reject` | the handlers and `select`, as one comparison |
| `Exchange`, `ExchangeFails` | the code exchange, main.go:143-154 |
| `Bind`, `EndRound`, `Hinted` | `RunStepUp`, main.go:155-178 |
| `StepUpRow` | checks_sep2350.go |

External are the server and the person. The server may hold the client to the method
it has on file (`Accepts`), compare redirect URIs with or without the port
(`RedirectKnown`), require pushed requests, grant what is asked for, all that was
granted before as well, or only what is new (`Grants`), and leave `scope` out of the
answer where it may (`Told`); it redeems a code for the redirect URI and challenge it
was issued for (`Redeemable`). The person answers or declines a page at any time, also
long after the round it was for, and the browser may load a callback page again.

### LoginRound
What `run` relies on: the round ends once, with an error or with a token for a
code that was really sent to this round, and it ends once anything has reached
the callback.

## 3. What is checked

The runs need from seconds to two minutes with two workers. Deadlock is not checked: every
modelled part is a program that ends. A type invariant is in each of `report`, `run`,
`auth_code` and `session`.

### Passing

**report** (MCReport, 212 000 states). Six checks chosen so that every severity,
every outcome, labels with one and with several rows, and a label both alone and
in an any-of group occur, scored against the four shapes of surface the corpus
has. All their outcomes, both preludes, with and without `--strict`.
- `UntestedSettlesNothing`: a row that was not tested moves no label, verdict or
  matrix row.
- `DisqualifiedForGood`: after a MUST-level shortfall no later row brings the
  surface back to aligned.
- `AlignedIsEarned`: an aligned surface has a pass, and no MUST-level shortfall,
  under every requirement.
- `OrderIrrelevant`: the rows read backwards give the same conclusions.
- `FatalRowsAreTold`: a failed or errored MUST is told alike by the three summaries,
  which are computed by different rules: exit code 1, no aligned surface that requires
  its label, and its capability not supported.

Six rows are enough for the fold: `weighEntries` keeps one pointer for each of
four kinds of entry, and the labels have up to three rows, preludes included.

**run** (MCRun, 1 488 000 states). 73 deployments that keep their word (every
combination of five capabilities servers go without, a public MCP server, a minimal
one, broken discovery, no way to delete a client), one that may fail anywhere, and 25
command lines: usage errors, an unknown `--model`, `--target` and `--issuer` together,
with and without a login, credentials and `--strict`. The process may be interrupted
anywhere. The registry is that of the program less the seven checks every server gets
to answer, whatever it advertises: at the deployment that answers as it likes each of
them multiplies the reports by its outcomes. `wire` has all 57, and the theorems any.
- `NoOrphanClient`: once `run` has returned the client is deleted where the
  server can delete it.
- `NoFalseAlarm`: a sound deployment with what every MCP server must have gets
  exit code 0 without `--strict`.
- `FailsOnlyWhatItRevoked`: a token row fails only after the run itself revoked
  that token, in an earlier row.
- `UnsupportedIsAboutTheServer`, `AbsentCapabilityIsSaid`: the two halves of the
  capability-first rule of check.go:79-82.
- `OneIdentity`: never a registered client beside the operator's, never one whose
  registration failed.
- `CleanExitIsComplete`: exit code 0 comes with a written report, a row for every
  check, and a last discovery that succeeded.
- `ImplementsReport`: the run is a refinement of `Report`. The issuer the resource
  names replaces the one of `--issuer`, and what became of discovery is in the report
  whichever of the two it was about.

`Run` states no fairness: a login waits without a timeout, and of a run without one
`wire` shows the end.

**wire** (MCWire, 79 000 states). The whole registry in 588 worlds: every violation,
variant and external behaviour alone, with a pasted subject token, without, and
with an actor token; pairs of the switches that meet at the token endpoint, at the
token life cycle, at registration and at the exchange; pairs of the ways a resource
server asks for proofs; the three methods a flag can name, and none, with and without a
secret, against servers that hold clients to a method they advertise, assign
themselves, leave out of their answer or take from outside the tool's three; the
combinations in which a row passes for another reason than its own (`Hiding`); and
eleven worlds in which any one message may be lost.
Switches at different endpoints do not meet in one dialogue, so pairs within an
endpoint are where one hides another.
- `NeverAskedTwice`, `VersionOfTheAnswer`: of every call, see `Mcp`.
- `ImplementsRun`: every step is a step of `Run` or leaves its variables alone.
- `NoFalseFinding`: servers without a fault fail no row but those listed: the
  recommended things they leave out (`Omitted`), and what the run does to itself
  (`SelfInflicted`).
- `LossIsNoFinding`: the same with a lost message, where three exceptions appear:
  two checks that turn an unreachable server into a fail on purpose, a failed
  discovery, whose rows then have nothing to judge, and the second request of an
  MCP call, without which the refusal of the first is judged.
- `ViolationSeen`: for each of 33 violations, the row it is for does not pass,
  whatever other switch is on, but for the cases of `Hidden`.
- `HtuPassIsEarned`: `rejects_wrong_htu` passes undeservedly after a lost nonce, or
  where every such request is refused (the first case of `Hidden`).
- `AuthAsRegistered`: without the flag, a registered client authenticates with the
  method the server says it assigned, or with one the metadata advertises where the
  answer names none the tool implements.
- `ChallengeFound`, `RegisteredIsDeleted`: see their comments.
- `FreshProofs`: a server sees a proof twice only within one call of `MCPRequest`.
- `WireEnds`: under `WF(NextWire)`, the program goes on while it can and every
  request is answered or times out, no server keeps a run going.

**auth_code** (MCAuthCode, 48 000 states). Three requests in any order: two logins
with different `iss`, a denial, a stray request. Three fill a channel of capacity
one, empty it and block on it once more. All four configurations.
- `FirstLoginWins`, `LoginsDoNotCollide`: a reload or second tab neither replaces
  nor defeats the login.
- `IssMixNeedsSecondLogin`: with one login the reported `iss` is that login's,
  whole, despite the missing lock: the send orders the writes before the read.
- `ImplementsLoginRound`: safety and liveness. Fairness: `WF` of the main
  goroutine and of each handler (the Go scheduler runs runnable goroutines). No
  fairness for arrivals or for cancellation.

**session** (MCSession, 179 000 states). Two ports: three rounds then either reuse
one or keep the first two apart, in every order. Two families of sessions: every
client and `--token-auth-method` at every server that differs in registration, method,
redirect comparison and PAR, asked for and granted everything; and every combination
of scopes asked for, declared, allowed, kept and told, with a client that
authenticates as it should. The two meet nowhere but in the rounds. Any request of the
program may be lost.
- `OwnCodeRedeemed`: a callback of an earlier round, loaded again, can reach the
  listener of a later one with the same port; its code is never redeemed.
- `FailureExplained`: the complete list of reasons for a failed round. Beside a
  declined login and a lost request they are a server that does not take the secret
  where `RunAuthCode` puts it, one that rejects the pushed request, and a reloaded
  callback on a reused port.
- `WaitsForThePerson`: a round waits with nothing to answer only without a client, or
  where a server that compares ports does not know the one of this round.
- `StepUpRowIsEarned`: the step-up row passes only for a token that carries what the
  person granted before, and fails only for one that lacks a scope it was asked for with.
  That is less than what the row says, see below.
- `ImplementsLoginRounds`: each round implements `LoginRound`, in the presence of the
  others. Fairness is `WF(Program)`: the program takes its next step if it has one,
  being one goroutine whose requests are bounded by the client's 15 s timeout
  (main.go:346). No fairness for the person: a round nobody answers need not end.

### Statements the program does not keep

Each of these runs checks one sentence of the repository and finds a
counterexample; `PROJECT.json` quotes the sentence.

| Run | What happens |
|---|---|
| fail_is_a_finding | correct servers fail a MUST row, each of four in its own way |
| refresh_pass_is_earned | a refused refresh has no scope, and passes |
| iss_from_the_response | a second callback replaces or tears the `iss` reported with the first code |
| authenticates_as_planned | a round sends the secret in the form whatever method the plan, or `--token-auth-method`, settled on |
| redirect_is_registered | the step-up rounds ask with ports the client was not registered with |
| only_must_disqualifies | SHOULD and MAY rows alone make a surface not-aligned |
| step_up_row_is_true | the step-up row tells what did not happen, in two ways |

Three of them have more than one counterexample, of which TLC prints the first.

- **fail_is_a_finding** (README.md:288-289, `FindingWorlds` of `MCWire`). The servers
  have no fault and no message is lost. With an actor token, the two delegation rows
  send one request and expect opposite answers. With a pasted token, `revoke.honored`
  revokes it and the smoke check then presents it. Where proofs are demanded and their
  key is compared with that of the token, the token was issued without one. Where proofs
  are remembered and the modern revision is turned away after the credentials were
  read, the one proof of a call goes out twice. Each world alone violates the property.
  They are the exceptions of `NoFalseFinding` (`SelfInflicted`, and its hypothesis on
  the actor token), which says that, but for closed introspection and a method the
  operator chose, there are no more.
- **only_must_disqualifies** (README.md:246-250, model_verdict.go:116-118). The checks of
  RFC 8707 are all SHOULD or MAY. When none passes, the label is unmet by its first
  shortfall (model_verdict.go:173-177), and a surface that requires it is not-aligned.
- **step_up_row_is_true** (checks_sep2350.go:16 and 26). A server that leaves out of its
  answer a scope that is the one asked for has the row say, after both rounds, that it
  "needs --stepup". A server that grants one of the two scopes only, in both rounds,
  has it say that the token dropped a previously granted scope: the row compares with
  what was asked for, and never reads what the first round was granted.

Not a run, but visible in the models. In `Run` and `Report`:

- `--auth-code` with a refused registration exits 1 without a report, so without the
  `registration` entry of README.md:173-175 (`LoginFails` without a client).
- Where the metadata could not be fetched, rows say the server does not advertise what
  it does: `UnsupportedIsAboutTheServer` speaks of sound sites only.

Elsewhere: a server without RFC 7592 keeps the
temporary client (`CleanUp` does nothing when `uri` is false; `NoOrphanClient`
therefore speaks of sites with `clientURI`), and a stray request on the callback
port fails a round whose login is already in `codeCh` (`ReceiveErr` and
`ReceiveCode` both enabled; `LoginsDoNotCollide` speaks of logins only). In `Wire`:

- `Hidden`: eight violations whose row passes beside certain others. A
  proof, grant or token is refused for another reason than the one asked about (a
  server that accepts no proofs at all, a client or a grant it does not know), and
  any refusal counts; or what the row is about is not there to be looked at. `rfc7009.revoke.honored` is the plainest: it takes any
  answer without `"active": true` for "inactive", an introspection that refuses
  the client included, and does not read the status of the revocation either, so
  an endpoint that answers 404 gives `unsupported` in one row and "token still
  active after revocation" in the next.
- A body that is not JSON hides the nonce challenge in it, so a server with bad
  error shapes fails the DPoP rows as well as its own.
- `AcceptPlainPKCE` and `NoPAREndpoint` have no row without a login.
- A server that remembers proofs and turns the modern revision away after having
  read the credentials sees the proof of the first request in the second and
  refuses it (present.go:90). `FreshProofs` allows that one repetition;
  fail_is_a_finding has the row it costs.
- With `--client-id` or `--token-auth-method` naming a method the client is not
  registered with, every token row fails (`MethodMismatch`). So it does where the server
  does not say which method it assigned, and the tool settles on another it advertises.
- The four delegation rows need an actor token, which the command line has no flag
  for: only callers of the package, through `Hints`, reach them.

## 4. What is proved

### The evidence rule

For every list of rows, whatever checks they come from (`Verdict_proofs`; no state,
so nothing temporal).

| Theorem | |
|---|---|
| `EvidenceRule` | when `WeighEntries` says met, unmet or advisory, and what the deciding row is |
| `FatalRowSettles` | a MUST-level failure: exit code 1, and its label is unmet |
| `CleanExitSettlesLittle` | exit code 0 and an unmet label: why that can be |
| `ShortfallIsFinal` | no later row mends a MUST-level shortfall |
| `UntestedIsNoAnswer` | an untested row changes no status |
| `VerdictIsEarned` | aligned and not-aligned in terms of the labels |

`EvidenceRule` turns the four searches of `weighEntries` into statements on which
rows exist (`FirstIsFirst`, again from the least element of a set of naturals): no
position appears in them, which is why the order of the rows cannot matter
(`SameEvidence`: two selections with rows of the same kinds have the same status).
The others follow from it.

### One report

For every list of checks with what each may answer, every set of surfaces and every
capability matrix of the types named in `Report`.

| Theorem | |
|---|---|
| `Report_proofs!ReportTyping` | `Spec => []TypeOK` |
| `Report_proofs!AlignedEarned` | `Spec => []AlignedIsEarned` |
| `Report_proofs!PositionsDoNotCount` | `Spec => []OrderIrrelevant` |
| `Report_proofs!FatalRowsTold` | `Spec => []FatalRowsAreTold` |
| `Report_proofs!UntestedSettles` | `Spec => UntestedSettlesNothing` |
| `Report_proofs!DisqualificationIsFinal` | `Spec => DisqualifiedForGood` |

Every step leaves the rows alone or adds one (`RowsComeOneByOne`); with the types,
each theorem is then the evidence rule for the rows of one label, carried through
requirements (`SameRequirement`) and surfaces (`SameVerdict`). For `OrderIrrelevant`
the mirror image of the positions of a label is what reading backwards selects
(`Reversed`). `FatalRowsAreTold` alone needs an invariant besides the types:
`Published`, that the exit code of a published report is the one its rows call for.

### A run

For every registry, set of command lines and set of deployments that satisfy the
assumptions of `Run`. TLC evaluates each of them on the registry of the program.

- `RegistryAssumption`, `InvocationsAssumption` and the first part of
  `DeploymentsAssumption` are types. Its rest: an authorization server document that
  parses names a token endpoint, and one that does not names nothing.
- `SyntheticAssumption`: no check has the id of a row `Runner.Run` writes itself.
- `GatesAssumption`: the capability-first rule of check.go:79-82, said of the
  gates: one about the server stands before any about the operator, save the one
  that asks for a resource server.
- `OutcomesAssumption`: a check that may find fault can also be passed.
- `RequirementsAssumption`: a MUST judged without a request is about something in
  `Baseline`, or about something its own gates ask for.
- `LifecycleAssumption`, `OrderAssumption`: the checks that put a token before a
  server can pass and can say so when it is dead; a revocation can pass; and no MUST
  about the token comes after it.

| Theorem | |
|---|---|
| `Run_proofs!NoOrphan` | `Spec => []NoOrphanClient` |
| `Run_proofs!Identity` | `Spec => []OneIdentity` |
| `Run_proofs!Typing` | `Spec => []TypeOK` |
| `Run_proofs!RunImplementsReport` | `Spec => ImplementsReport` |
| `Run_proofs!CleanExit` | `Spec => []CleanExitIsComplete` |
| `Run_proofs!OnlyRevokedFails` | `Spec => []FailsOnlyWhatItRevoked` |
| `Run_proofs!UnsupportedIsEarned` | `Spec => []UnsupportedIsAboutTheServer` |
| `Run_proofs!AbsenceIsReported` | `Spec => []AbsentCapabilityIsSaid` |
| `Run_proofs!NoFalseAlarms` | `Spec => []NoFalseAlarm` |

The first two follow from one inductive invariant, `Custody`. Neither is
inductive alone: that nothing is left behind when `pc = "done"` depends on the
whole way there. `Custody` says where Resolve lies on each of the two paths
(`Unresolved`: nothing is registered before it, and `discover` comes before it on
one path and after it on the other), that login and step-up occur on the
interactive path only, that while the plan says `registered` and the process
runs the server holds exactly one client, that the URI in the plan is the one the
deployment gives, and that a live client without a plan for it exists only where
answers may be lost. The step lemma has one case per action.

`Typing` uses `Custody` for `live`. Its substance is that every outcome the
gates, the `Run` functions and `evaluateSafely` can produce is one of the five,
and every row is that of a selected check or one of the two synthetic ones.

`RunImplementsReport` is the whole refinement: `Report` promises safety only. Its
invariant, `Bookkeeping`, says what the report holds at each point of the two
paths: nothing before the second discovery on the interactive path, at most the
discovery row before the prelude, every row at the verdicts, and no exit code
before a return. With it every early return is an `Abort` of `Report`, one of the
two synthetic rows is an `OpenWithTrouble`, and a check is a `RecordRow`. That
the row is among the answers the check may publish is the other half:
`FirstUnmet` points at a gate of the check (`FirstUnmetInRange`, from the least
element of a set of naturals), so a skip is of a kind one of its gates gives, and
everything else comes from its `Run`.

`CleanExit` carries `Accounted`: every check passed has its row, and once the last
`Discover` of the path is over (`Discovered`), the token endpoint is known or the
report holds the discovery row, which is a MUST-level error and forbids exit 0.
`OnlyRevokedFails` carries `Revoked`: where the subject token is dead, a revocation
row has passed, and a failed token row comes after one. That a token never comes
back to life under a report is `Bookkeeping`: a login precedes the first row.

The last three are about what a *sound* deployment is told. `Knowledge` says what the
program has learnt of one: once discovered, exactly the facts the deployment shows to
this command line, and a plan that agrees with them. With it, the first unmet gate
of a check settles who is to blame: `RowsFair` says of every row, as long as the
report lives, that `unsupported` is about something the deployment lacks and that a
lacking capability is said first, which are the first two theorems. For the third,
`Blameless` says that no MUST row fails or errs and no synthetic row is there; a MUST
on the dead token is excluded by `OrderAssumption` and `Revoked`, one judged without a
request by `RequirementsAssumption` and `Knowledge`.

### One MCP call

For every set of versions with a last member, and whatever the server answers.

| Theorem | |
|---|---|
| `Wire_proofs!CallsAreSound` | `SpecCall => [](CallTypeOK /\ NeverAskedTwice /\ VersionOfTheAnswer /\ EraIsShown)` |

None of the four is inductive: the version of the answer depends on which
question is open. `Progress` says, for each phase, what has been asked and heard:
one request and no answer, or one answer kept and a second request at a version
other than `ModernVersion`, or a finished call. `CallInv` adds the four. That a
retry is for another version is `RetryIsAnother`; that the highest of any set of
modern versions exists, finite or not, is `NewestExists`, from the least element
of a set of naturals.

### A run, request by request

For every registry and every set of worlds, whichever switches are on together, that
satisfy the assumptions of `Run` and `Wire`. `WorldsAssumption` gives the types, keeps
the interactive flags out and `NewerOnly` from standing beside the switches that
contradict it (a server speaks one set of revisions). The others are about the
registry, TLC evaluates them on that of the program:
`RowsAssumption` says that the rows below send something or nothing, as they do, and have
the gates that keep them off servers without what they need; `JudgesAssumption`, that
a row that sends nothing judges facts every server without a fault shows, or says it
will, or that a gate of the row asks for first (`Forthcoming`); `OffersAssumption`, that
the rows of an extension have its gate; `RevokedLateAssumption`, that a token is
introspected and exchanged before any is revoked, and only its presentation comes
after; `OutcomesOfRulesAssumption`, that what `Rules` can make of the answers to a row
is in the `may` of the row, which is where the two levels of detail meet, that the
row that redeems a refresh token asks for one, and that those that use a token ask for
a source of it.

| Theorem | |
|---|---|
| `Wire_proofs!RunCallsAreSound` | the four of `CallsAreSound`, of every call of a run |
| `Wire_proofs!RegisteredClientIsDeleted` | `SpecWire => []RegisteredIsDeleted` |
| `Wire_proofs!RegisteredAuthenticatesAsRegistered` | `SpecWire => []AuthAsRegistered` |
| `Wire_proofs!ProofsAreFresh` | `SpecWire => FreshProofs` |
| `Dialogue_proofs!ChallengesAreFound` | `SpecWire => []ChallengeFound` |
| `Dialogue_proofs!ViolationsAreSeen` | `SpecWire => []ViolationSeen` |
| `Dialogue_proofs!TamperingIsSeen` | `SpecWire => []HtuPassIsEarned` |
| `Finding_proofs!NoFindingIsFalse` | `SpecWire => []NoFalseFinding` |
| `Finding_proofs!LossesAreNoFindings` | `SpecWire => []LossIsNoFinding` |
| `Finding_proofs!WireIsARun` | `SpecWire => ImplementsRun`, the refinement |
| `Finding_proofs!WireKeepsThePromises` | `NoOrphanClient`, `OneIdentity`, `CleanExitIsComplete` and `NoFalseAlarm`, of every run of `SpecWire` |
| `Finding_proofs!WireRowsMeanWhatTheySay` | `FailsOnlyWhatItRevoked`, `UnsupportedIsAboutTheServer` and `AbsentCapabilityIsSaid`, likewise |

- `RunCallsAreSound`: every step of `Wire` leaves the call alone or is a step of
  `NextCall`; the replies of `handleMCP` are among `Replies` (`ServerReplies`).
- `WireCustody`: at most one client is alive and the plan knows it, or a message
  has been lost; it is gone once the cleanup is past, unless the server deletes
  nothing.
- `WireAuth`: once registered, the method of the client is the one the server said it
  assigned or, where it named none the tool implements, one it advertises
  (`FollowsTheRules`: with a secret the rules come to `client_secret_post`, which a
  server that hands out secrets advertises, and without one nothing is shown); every
  request the server has seen since authenticated that way or not at all.
- `Seen`: every proof the servers have seen was signed at an earlier position of
  the run, a position being the number of the check and the length of `said`, or in
  the call at hand. A proof signed now is at a later one, so it has not been seen,
  unless the call sends its second request.

`Dialogue_proofs` goes from the answers to the rows, in four inductive invariants.

- `Chat`: every answer in `said` is what the server gives to the request `Asks` (or
  `WalkRequest`) makes after the answers before it, in *some* state it may have been
  in (`Fit`), or was lost. An answer of the MCP endpoint is that to the first
  or to the second request of its call. So from here on no theorem is about when a
  server was in which state, only about what it can answer. That state has not seen
  the proof of the request (`Unseen`), and has not revoked its token unless the check at
  hand revokes one or the operator pasted it (`Honoured`).
- `Memory`: what the server remembers of tokens. `Ledger` says that it has revoked
  nothing it did not mint and nothing before the check that revokes, and the pasted
  token only if `subject` is dead or that check is the one at hand. `Carried` says that
  a token the run obtained itself is revoked only while that check holds it. `Honoured`
  follows, for every request yet to be sent.
- `Ground`: what the walk has learnt is what the two servers show (`Found`), and the
  challenge is among it exactly where `ChallengeFound` says (`Challenged`).
- `Worth`: no row passes before the checks, and each row that passed did so
  deservedly: for each violation the row is for, it is off or `Hidden`, or a loss
  was to blame.

That a new row keeps `Worth` is `RowDeserved`, which has one lemma for each family of
rows (`BogusSeen`, `MintSeen`, `DelegationSeen`, `ImpersonationSeen`, `WrongHTUSeen`,
`RevocationSeen`, `PresentationSeen`, ... for those that send something, `JudgeSeen`
for the others). Each of them takes the handler of `FakeAS` apart for the requests
the row sends. `Working` collects what they need. The proof is what showed that
`Hidden` has to name more than pairs: a server that does not offer
`client_credentials` and says so neither in its metadata nor in its error lets two
rows pass (`DeclinesInSilence`), and so does a client with another method than the
one it is registered with. `Hiding` in `MCWire` now holds those worlds.

`Finding_proofs` is the reverse: on servers without a fault (`Innocent`) a row that
fails is accounted for (`Excused`). Two more inductive invariants:

- `Surveyed`: a walk that ends well has found all such servers have to show
  (`AllThere`), and without a loss it ends well. `Found`, in `Ground`, says that nothing
  else was found; this says that nothing is missing, which is what the rows that send
  nothing judge.
- `Faultless`: no row fails before the checks, and those that failed since are
  excused. A row stays excused: once the checks run, the client and the plan are fixed,
  a dead token stays dead, and a loss is never undone (`ExcusedStays`).

That a new row keeps `Faultless` is `RowExcused`. `JudgeExcused` settles the rows that
send nothing. For the others, again one lemma for each family (`MintingHolds`,
`ExchangesHold`, `TamperingHolds`, `RejectionHolds`, `IntrospectionHolds`,
`PresentationHolds`, ...): the answers a failed row was made of were heard (`HeardAll`,
`HeldFailed`), an honoured token with an unseen proof is served, and what is served
passes. Three facts the families share made the invariants above necessary: the token
a row holds is not revoked (`Memory`), the proof is new (`Seen`, carried over to `Chat`
by `Unseen`), and a resource server that demands proofs has said so where the run
looked (`AllThere`). `SelfInflicted` is sharp in the proof: each of its four cases is
where one of these facts ends.

`WireIsARun` puts the two together. `Wire` extends `Run` and keeps its variables, so
the mapping is the identity, and what has to be shown is that each step of `Wire` is a
step of `Run` against `site`, which is `SiteOf(world)` throughout (`Placed`), or leaves
the variables of `Run` alone (`WireStepIsARunStep`). The steps that differ:

- `EndWalk` is `Discover`, because what `Walked` makes of the answers is one of the
  `Walks` of the deployment (`WalkIsAllowed`): from `Found` it has no fact the servers
  do not show, and it can lack what they show only where a walk may stop.
- The answer to a registration, or its loss, is one of the ways `Run` registers, and
  the deletion is its cleanup (`RegisterAnsweredIsRegister`, `DeregisterIsCleanUp`).
- `EndCheck` is `RunCheck` or `RunRevocation` (`EndCheckIsACheck`). On any deployment
  the outcome is one the row may have (`RuledWithin`, from `OutcomesOfRulesAssumption`).
  On a sound one it has to be the very outcome `SoundAnswers` names: such servers are
  `Innocent`, so every row passes but the presentation of a token the run has revoked
  (`DeployedPasses`), and that one is refused (`RevokedIsRefused`), which needs that a
  check that revokes the pasted token has indeed revoked it (`RevokesThePasted`).

`Run`'s assumption about sound deployments, that they pass what they can, is thereby
a theorem about the handlers of `FakeAS`, and no longer only an assumption about
servers. The invariants of `Run` are inductive under its steps alone, so they carry
over as they are (`RunKeeps`): `WireKeepsThePromises` and `WireRowsMeanWhatTheySay`
state them of runs in which every answer was given by a handler or lost.

### An interactive round

For any set of requests, whatever they carry: `ResponsesAssumption` says that a
login is what has a code, `ConfigsAssumption` is a type.

| Theorem | |
|---|---|
| `AuthCode_proofs!FirstWins` | `Spec => []FirstLoginWins` |
| `AuthCode_proofs!IssOfTheOnlyLogin` | `Spec => []IssMixNeedsSecondLogin` |
| `AuthCode_proofs!RoundSafe` | `Spec => RoundSteps`, the safety part of `LoginRound` |
| `AuthCode_proofs!RoundTyping` | `Spec => []TypeOK` |
| `AuthCode_proofs!LoginsCoexist` | `Spec => []LoginsDoNotCollide` |

`Channel`: until the main goroutine receives, the channel holds exactly the codes
ever sent, so the first code received is the first sent. `Writer`: a handler that
is past its two writes has left its iss in the shared variable unless another
login exists, and every code sent belongs to a handler that is done. Neither
property is inductive alone, as both speak of the end of the round only.
`RoundSafe` uses both: a token is for a code some login brought (`Writer`), and
nothing but a return changes the verdict. `Trouble` adds the types and that an
error waiting in its channel came from a request that is not a login: with it, an
`ReceiveErr` is the one way left to fail.

### A session

For any set of ports without `NoPort` and any sessions of the types named in
`SessionsAssumption`.

| Theorem | |
|---|---|
| `Session_proofs!SessionTyping` | `Spec => []TypeOK` |
| `Session_proofs!OwnCode` | `Spec => []OwnCodeRedeemed` |
| `Session_proofs!PageToAnswer` | `Spec => []WaitsForThePerson` |
| `Session_proofs!StepUpRowEarned` | `Spec => []StepUpRowIsEarned` |
| `Session_proofs!FailuresExplained` | `Spec => []FailureExplained` |
| `Session_proofs!RoundsAreLoginRounds` | `Spec => LoginRoundSteps`, the safety part of `ImplementsLoginRounds` |

The invariant is `SessionInv`. `Order`: rounds come one after the other, a round not
begun has left no trace, and a failed one is the last. `Redirected`: a callback
carries the port and the round it was asked with, wherever it arrives; a code taken is
that of a callback of its own round; and a code issued stands for a grant that is not
empty. `OnFile`: the login of a client the run registered uses the port it registered.
`Accumulated`: the hints are those of the last token, whose grant nothing changes any
more, because its page has been answered. `OwnCodeRedeemed` is not inductive: that the
code is the round's own depends on what the browser holds, which depends on what was
asked for. `FailureExplained` needs `Order` (a reloaded callback is of an earlier
round) and `Redirected` (it got here because its port is the same). `EachRound` sorts
every step, for each round, into one of `LoginRound`'s or a stutter.

**Only model-checked.** Liveness under fairness, which the prover does not reach:
`WireEnds`, and that a round, alone or in a session, ends once anything has
come back to it. Every invariant, every action property and the safety part of every
refinement that a passing run checks is a theorem.

## 5. What is not modelled

Rendering and all texts; TLS, JOSE and HTTP themselves (a signature is who signed,
a request is answered or lost); presentation by body or query, which no check
uses; the grant types and the application type asked for at registration; hosts and
paths of redirect URIs (they differ in the port only); the PAR endpoint of `fakeas`
(`handlePAR`: the server of `Session` is external); the loopback document of the CIMD probe, which the servers of `FakeAS`
always reach; the corpus of surfaces, which `MCReport` represents by its four
shapes; the example server, which is not part of the program. `ModelVerdict`
covers `--model` selection only as "unknown or not". `Session` ends where the checks
begin and `Wire` begins there: `Wire` has no interactive path, and takes the token a
login would leave as one the operator pasted.

## 6. What could come next

1. **Profiles** (`model_profiles.go`): corpus validation and selection.
2. The rest of `fakeas`: `handlePAR`, and authorization codes bound to a client, with
   a login in front of `Wire`.

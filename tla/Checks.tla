------------------------------- MODULE Checks --------------------------------
(***************************************************************************)
(* The check registry: every conformance check with its severity, the      *)
(* preconditions that gate it (conformance/gates.go) and what its Run      *)
(* function can answer (conformance/checks_*.go).                          *)
(*                                                                         *)
(* A check looks at a target, here the set of facts that hold of it: what  *)
(* discovery recorded, what client the run has, what credentials it holds. *)
(* The text of a document or a message is abstracted to the facts the      *)
(* checks tell apart.                                                      *)
(***************************************************************************)
EXTENDS Verdict

\* Facts of the resource server: its 401 challenge and its RFC 9728 document.
ResourceFacts ==
  {"challenge", "challengeMetadata", "challengeScope", "noOfflineAccess",
   "prm", "prmJSON", "prmServers", "prmCanonical", "noQueryMethod",
   "headerMethod", "twoPRMScopes", "dpopRequired"}

\* Facts of the authorization server: its RFC 8414 document.  "issuer" is known
\* as soon as discovery has a name to look up.
IssuerFacts ==
  {"asMetadata", "issuerMatch", "tokenEndpoint", "tokenHTTPS", "jwksURI",
   "grantTypes", "clientCredentials", "tokenExchange", "signedMetadata",
   "s256", "responseTypes", "codeResponseType", "dpop", "mtlsBound",
   "mtlsAliases", "authorizationEndpoint", "registrationEndpoint",
   "introspectionEndpoint", "revocationEndpoint", "issAdvertised", "cimd"}

\* Facts of the run itself: flags, the client it acts as, what it holds.
RunFacts ==
  {"mcpTarget", "presentEnabled", "client", "registered", "applicationTypeKept",
   "issuerBound", "subjectToken", "authCodeFlow", "refreshToken", "twoScopes",
   "stepUp", "scopeAccumulated", "issReturned", "actorToken"}

Facts == ResourceFacts \cup IssuerFacts \cup RunFacts \cup {"issuer"}

----------------------------------------------------------------------------
(***************************************************************************)
(* Gates.  A gate that asks for one fact carries its name; the others are  *)
(* listed here.                                                            *)
(***************************************************************************)
GateHolds(gate, t) ==
  CASE gate = "clientCredentialsGrant"    -> "grantTypes" \in t => "clientCredentials" \in t
    [] gate = "introspectionForRevocation" -> "introspectionEndpoint" \in t
    [] gate = "tokenSource"               -> \/ "subjectToken" \in t
                                             \/ /\ "client" \in t
                                                /\ "grantTypes" \in t => "clientCredentials" \in t
    [] gate = "anyScopeSource"            -> t \cap {"challenge", "prm"} # {}
    [] OTHER                              -> gate \in t

\* A gate that reports Untested when unmet: a flag or a credential is missing.
\* The others report Unsupported: the server offers no such thing.
OperatorGates ==
  {"mcpTarget", "introspectionForRevocation", "client", "clientCredentialsGrant",
   "tokenSource", "registered", "subjectToken", "authCodeFlow", "presentEnabled",
   "refreshToken", "stepUp", "actorToken"}

\* Mutant: a missing client is blamed on the server.
SkipKindOfClient(gate) == IF gate \in OperatorGates \ {"client"} THEN "untested" ELSE "unsupported"

SkipKind(gate) == IF gate \in OperatorGates THEN "untested" ELSE "unsupported"

\* Mutant: the last unmet gate wins.
LastUnmet(gates, t) == SelectLastInSeq(gates, LAMBDA g : ~GateHolds(g, t))

\* needs: the position of the first unmet gate, 0 when all hold.
FirstUnmet(gates, t) == SelectInSeq(gates, LAMBDA g : ~GateHolds(g, t))

(***************************************************************************)
(* A check: gates in the order they are tried, the facts it judges when it *)
(* sends nothing, the outcomes it can reach when it talks to a server.     *)
(***************************************************************************)
Judge(id, profile, rfc, sev, gates, judges) ==
  [id |-> id, profile |-> profile, rfc |-> rfc, sev |-> sev,
   gates |-> gates, judges |-> judges, may |-> {}]

Probe(id, profile, rfc, sev, gates, may) ==
  [id |-> id, profile |-> profile, rfc |-> rfc, sev |-> sev,
   gates |-> gates, judges |-> {}, may |-> may]

\* What the Run function of a check can answer on a target.
RunOutcomes(c, t) ==
  IF c.may # {} THEN c.may
  ELSE IF c.judges \subseteq t THEN {"pass"} ELSE {"fail"}

\* Mutant: a check that sends nothing does without its precondition.
EvaluateUngated(c, t) ==
  LET unmet == FirstUnmet(c.gates, t)
  IN IF unmet # 0 /\ c.may # {} THEN {SkipKind(c.gates[unmet])} ELSE RunOutcomes(c, t)

\* Check.Evaluate: the precondition, then Run.
Evaluate(c, t) ==
  LET unmet == FirstUnmet(c.gates, t)
  IN IF unmet # 0 THEN {SkipKind(c.gates[unmet])} ELSE RunOutcomes(c, t)

Entry(c, outcome) == [id |-> c.id, rfc |-> c.rfc, sev |-> c.sev, outcome |-> outcome]

\* Whatever the row of a check may ever say: a skip of one of its gates, an
\* answer of its Run, or the error evaluateSafely makes of a panic.
Answers(c) ==
  {SkipKind(c.gates[i]) : i \in DOMAIN c.gates} \cup {"error"}
    \cup (IF c.may # {} THEN c.may
          ELSE IF c.judges = {} THEN {"pass"} ELSE {"pass", "fail"})

RowOf(c) == [id |-> c.id, rfc |-> c.rfc, sev |-> c.sev, answers |-> Answers(c)]

----------------------------------------------------------------------------
RFC9728Checks ==
  LET Mk(id, gates, judges) == Judge(id, "core", "RFC 9728", "MUST", gates, judges)
  IN << Mk("rfc9728.challenge.resource_metadata", <<"mcpTarget">>, {"challenge", "challengeMetadata"}),
        Mk("rfc9728.prm.fetchable", <<"mcpTarget">>, {"prm", "prmJSON"}),
        Mk("rfc9728.prm.authorization_servers_present", <<"mcpTarget">>, {"prmServers"}),
        Mk("rfc9728.prm.as_resolvable", <<"mcpTarget", "prmServers">>, {"tokenEndpoint"}) >>

RFC8414Checks ==
  LET Mk(id, sev, judges) == Judge(id, "core", "RFC 8414", sev, <<"issuer">>, judges)
  IN << Mk("rfc8414.metadata.reachable", "MUST", {"asMetadata"}),
        Mk("rfc8414.metadata.issuer_match", "MUST", {"asMetadata", "issuerMatch"}),
        Mk("rfc8414.metadata.token_endpoint_present", "MUST", {"tokenEndpoint"}),
        Mk("rfc8414.metadata.token_endpoint_https", "MUST", {"tokenEndpoint", "tokenHTTPS"}),
        Mk("rfc8414.metadata.jwks_uri_present", "SHOULD", {"jwksURI"}),
        Mk("rfc8414.metadata.grant_types_advertised", "SHOULD", {"grantTypes"}),
        Probe("rfc8414.metadata.signed_metadata_valid", "core", "RFC 8414", "SHOULD",
              <<"signedMetadata", "jwksURI">>, {"pass", "fail"}) >>

\* The downgrade probe has no authorization code of its own to spend: it always skips.
PKCEChecks ==
  << Judge("pkce.advertise.s256", "core", "RFC 7636 (PKCE)", "MUST", <<"issuer">>, {"s256"}),
     Probe("pkce.enforce.reject_plain", "core", "RFC 7636 (PKCE)", "MUST",
           <<"issuer", "authCodeFlow">>, {"untested"}) >>

RFC8707Checks ==
  LET Mk(id, sev, gates, may) == Probe(id, "core", "RFC 8707", sev, gates, may)
      minting  == <<"tokenEndpoint", "clientCredentialsGrant", "client">>
      answers  == {"pass", "fail", "error", "untested"}
  IN << Mk("rfc8707.token.accepts_resource", "SHOULD", minting, answers),
        Mk("rfc8707.token.reflects_audience", "SHOULD", minting, answers),
        Mk("rfc8707.token.multiple_resources", "MAY", minting, answers),
        Mk("rfc8707.authcode.aud_reflects_resource", "SHOULD", <<"mcpTarget", "authCodeFlow">>,
           {"pass", "fail", "untested"}) >>

\* token.reachable reports a transport failure as a fail; the two bogus-grant
\* checks report it as an error.
OAuth21Checks ==
  LET Mk(id, may) == Probe(id, "core", "OAuth 2.1", "MUST", <<"tokenEndpoint">>, may)
  IN << Mk("oauth21.token.reachable", {"pass", "fail"}),
        Mk("oauth21.token.rejects_unknown_grant", {"pass", "fail", "error"}),
        Mk("oauth21.token.error_shape_rfc6749", {"pass", "fail", "error"}),
        Judge("oauth21.authorize.response_type_code", "core", "OAuth 2.1", "SHOULD",
              <<"responseTypes">>, {"codeResponseType"}) >>

RFC8693Checks ==
  LET Mk(id, sev, gates, may) == Probe(id, "extended", "RFC 8693", sev, gates, may)
      exchange   == <<"tokenExchange", "subjectToken">>
      delegation == <<"tokenExchange", "subjectToken", "actorToken">>
      answers    == {"pass", "fail", "error"}
  IN << Mk("rfc8693.grant.advertised", "MAY", exchange, {"pass"}),
        Mk("rfc8693.impersonation.issues_token", "MUST", exchange, answers),
        Mk("rfc8693.delegation.issues_token", "MUST", delegation, answers),
        Mk("rfc8693.delegation.act_present", "MUST", delegation, answers),
        Mk("rfc8693.delegation.act_nesting", "MUST", delegation, answers),
        Mk("rfc8693.delegation.may_act_enforced", "MUST", delegation, answers),
        Mk("rfc8693.downscope.scope_honored", "SHOULD", exchange, answers),
        Mk("rfc8693.error.invalid_grant_on_bad_subject", "MUST", exchange, answers),
        Mk("rfc8693.error.invalid_target_on_unknown_audience", "MAY", exchange, {"pass", "error"}) >>

DPoPChecks ==
  LET Mk(id, sev, gates, may) == Probe(id, "extended", "RFC 9449", sev, gates, may)
      proving == <<"dpop", "clientCredentialsGrant", "client">>
      answers == {"pass", "fail", "error", "untested"}
  IN << Mk("dpop.advertise.algs", "MAY", <<"dpop">>, {"pass"}),
        Mk("dpop.token.accepts_proof", "MUST", proving, answers),
        Mk("dpop.token.nonce_challenge", "SHOULD", proving, answers \cup {"unsupported"}),
        Mk("dpop.token.binds_cnf_jkt", "MUST", proving, answers),
        Mk("dpop.token.rejects_wrong_htu", "MUST", proving, answers) >>

RFC8705Checks ==
  << Judge("rfc8705.advertise.mtls_bound", "extended", "RFC 8705", "MAY",
           <<"mtlsBound">>, {"mtlsAliases"}) >>

RFC7662Checks ==
  << Probe("rfc7662.introspect.active", "extended", "RFC 7662", "MAY",
           <<"introspectionEndpoint", "tokenSource">>, {"pass", "fail", "error", "untested"}) >>

\* An advertised revocation endpoint with nothing deployed behind it is unsupported.
RFC7009Checks ==
  << Probe("rfc7009.advertise.revocation_endpoint", "extended", "RFC 7009", "MAY",
           <<"revocationEndpoint">>, {"pass", "error", "unsupported"}),
     Probe("rfc7009.revoke.honored", "extended", "RFC 7009", "MAY",
           <<"revocationEndpoint", "introspectionForRevocation", "tokenSource">>,
           {"pass", "fail", "error", "untested"}) >>

RFC9207Checks ==
  << Judge("rfc9207.authorize.iss_present", "core", "RFC 9207", "MUST",
           <<"issAdvertised", "authCodeFlow">>, {"issReturned"}) >>

SEP2351Checks ==
  << Probe("sep2351.discovery.suffix_path", "2026-07", "SEP-2351", "MUST",
           <<"mcpTarget">>, {"pass", "fail", "error"}) >>

SEP2468Checks ==
  << Judge("sep2468.advertise.iss_parameter", "2026-07", "SEP-2468", "SHOULD",
           <<"asMetadata">>, {"issAdvertised"}),
     Judge("sep2468.authorize.iss_present", "2026-07", "SEP-2468", "SHOULD",
           <<"authCodeFlow">>, {"issReturned"}) >>

SEP837Checks ==
  << Judge("sep837.register.application_type", "2026-07", "SEP-837", "MUST",
           <<"registrationEndpoint", "registered">>, {"applicationTypeKept"}) >>

\* cimd.advertise.supported has no precondition; its Run itself answers
\* unsupported, which is what an unmet gate would have recorded.
CIMDChecks ==
  << Judge("cimd.advertise.supported", "2026-07", "CIMD", "MAY", <<"cimd">>, {}),
     Probe("cimd.register.url_client_id", "2026-07", "CIMD", "SHOULD",
           <<"cimd", "authorizationEndpoint">>, {"pass", "fail", "error", "untested"}) >>

SEP2352Checks ==
  << Judge("sep2352.register.issuer_binding", "2026-07", "SEP-2352", "MUST",
           <<"registrationEndpoint", "registered">>, {"issuerBound"}) >>

SEP2207Checks ==
  << Probe("sep2207.refresh.scope_semantics", "2026-07", "SEP-2207", "SHOULD",
           <<"tokenEndpoint", "refreshToken">>, {"pass", "fail", "error", "untested"}) >>

SEP2350Checks ==
  << Judge("sep2350.stepup.scope_accumulation", "2026-07", "SEP-2350", "SHOULD",
           <<"stepUp">>, {"scopeAccumulated"}) >>

MCPServerChecks ==
  LET Mk(id, sev, gates, judges) == Judge(id, "core", "MCP Authorization", sev, gates, judges)
      rejection == {"pass", "fail", "error"}
  IN << Mk("mcp.challenge.scope_present", "SHOULD", <<"mcpTarget", "challenge">>, {"challengeScope"}),
        Mk("mcp.challenge.no_offline_access", "SHOULD", <<"mcpTarget", "anyScopeSource">>,
           {"noOfflineAccess"}),
        Mk("mcp.prm.resource_canonical", "MUST", <<"mcpTarget", "prm">>, {"prmCanonical"}),
        Mk("mcp.token.query_not_advertised", "MUST", <<"mcpTarget", "prm">>, {"noQueryMethod"}),
        Mk("mcp.token.header_method_advertised", "MUST", <<"mcpTarget", "prm">>, {"headerMethod"}),
        Probe("mcp.token.invalid_rejected", "core", "MCP Authorization", "MUST",
              <<"mcpTarget">>, rejection),
        Probe("mcp.token.foreign_audience_rejected", "core", "MCP Authorization", "MUST",
              <<"mcpTarget">>, rejection) >>

SmokeChecks ==
  << Probe("smoke.present.token_accepted", "core", "MCP loop", "SHOULD",
           <<"mcpTarget", "presentEnabled", "tokenSource">>,
           {"pass", "fail", "error", "untested"}) >>

----------------------------------------------------------------------------
DefaultRegistry ==
  RFC9728Checks \o RFC8414Checks \o PKCEChecks \o RFC8707Checks \o OAuth21Checks
  \o RFC8693Checks \o DPoPChecks \o RFC8705Checks \o RFC7662Checks \o RFC7009Checks
  \o RFC9207Checks \o SEP2351Checks \o SEP2468Checks \o SEP837Checks \o CIMDChecks
  \o SEP2352Checks \o SEP2207Checks \o SEP2350Checks \o MCPServerChecks \o SmokeChecks

Ids(checks) == {c.id : c \in ToSet(checks)}

\* capabilitySpecs: the rows of the matrix and the check ids under the prefixes
\* of each.
CapabilityRows ==
  LET mcp(ids) == {i \in Ids(MCPServerChecks) : i \in ids}
  IN [prm_discovery |-> Ids(RFC9728Checks) \cup
        mcp({"mcp.prm.resource_canonical", "mcp.challenge.scope_present", "mcp.challenge.no_offline_access"}),
      as_metadata         |-> Ids(RFC8414Checks) \cup {"discovery"},
      pkce_s256           |-> Ids(PKCEChecks),
      resource_indicators |-> Ids(RFC8707Checks),
      token_hygiene       |-> mcp({"mcp.token.query_not_advertised", "mcp.token.header_method_advertised",
                                   "mcp.token.invalid_rejected", "mcp.token.foreign_audience_rejected"}),
      cimd                |-> Ids(CIMDChecks),
      dcr                 |-> Ids(SEP837Checks) \cup Ids(SEP2352Checks) \cup {"registration"},
      dpop                |-> Ids(DPoPChecks),
      introspection       |-> Ids(RFC7662Checks),
      revocation          |-> Ids(RFC7009Checks),
      refresh_scope       |-> Ids(SEP2207Checks),
      step_up             |-> Ids(SEP2350Checks),
      mtls                |-> Ids(RFC8705Checks)]

FilterProfiles(registry, profiles) ==
  SelectSeq(registry, LAMBDA c : c.profile \in profiles)
=============================================================================

------------------------------ MODULE WireProps ------------------------------
(***************************************************************************)
(* What a run request by request owes the servers it talks to and the      *)
(* reader of its report, and that it is one of the runs of Run.            *)
(***************************************************************************)
EXTENDS Wire

Switches  == world.as \cup world.rs
Lossless  == budget = world.losses
Walking   == pc \in {"start", "discover"}
Reported  == {<<entries[i].id, entries[i].outcome>> : i \in DOMAIN entries}
FailedRows == {row[1] : row \in {r \in Reported : r[2] = "fail"}}
PassedRows == {row[1] : row \in {r \in Reported : r[2] = "pass"}}
DiscoveryErred == <<"discovery", "error">> \in Reported

(***************************************************************************)
(* The rows the dialogues arrive at, and all else a run does, are what Run *)
(* allows for the deployment the servers amount to; where that deployment  *)
(* is sound, they are the rows Run demands.                                *)
(***************************************************************************)
ImplementsRun == Init /\ [][Next]_vars

----------------------------------------------------------------------------
\* Servers without a fault: they leave out what is optional, or ask for more than
\* the in-process ones do.
Conforming ==
  /\ world.as \subseteq ASVariants \cup ExternalAS
  /\ "HeaderMethod" \in world.rs
  /\ world.rs \subseteq RSVariants \cup
       {"NewerOnly", "LegacyFirst", "LegacyAfterAuth", "ChecksRevocation",
        "RemembersProofs", "ChecksBinding", "ProofNonce"}

\* Rows that say a server does without something it should have.
Omitted ==
  (IF "IssParamSupported" \in world.as THEN {} ELSE {"sep2468.advertise.iss_parameter"})
    \cup (IF "Scopes" \in world.rs THEN {} ELSE {"mcp.challenge.scope_present"})
    \cup (IF "NoGrantTypesAdvertised" \in world.as THEN {"rfc8414.metadata.grant_types_advertised"} ELSE {})

\* Introspection asks for a secret the client does not have.
IntrospectionClosed == "SecretToIntrospect" \in world.as /\ ClientAuth = Blank

\* Rows the run spoils itself: the token it presents is one it has revoked, was
\* never bound to the key of the proof, or comes with a proof already used for the
\* first request of the same call; introspection is asked without a secret.
SelfInflicted ==
  (IF \/ subject = "dead"
      \/ {"RequireDPoP", "ChecksBinding"} \subseteq world.rs
      \/ {"RequireDPoP", "RemembersProofs", "LegacyAfterAuth"} \subseteq world.rs
   THEN {"smoke.present.token_accepted"} ELSE {})
    \cup (IF IntrospectionClosed
          THEN {"rfc7662.introspect.active"} ELSE {})

\* The client or the method is the operator's, or the server did not say which method
\* it assigned, or named one the tool does not implement; and the method followed is
\* not the one the client is registered with.
MethodMismatch ==
  /\ "StrictAuth" \in world.as
  /\ world.method # Blank \/ ~plan.registered \/ StatedMethod(world.as) \notin Methods
  /\ ClientAuth # Shown(server.registeredAs)

\* A server without a fault fails only the rows accounted for above: each of the
\* others gets the requests it needs, in an order and with credentials such a
\* server accepts (README.md:288-289, "fail" is a real finding).
NoFalseFinding ==
  (Conforming /\ Lossless /\ ~MethodMismatch /\ ~opts.actorToken) =>
    FailedRows \subseteq Omitted \cup SelfInflicted

\* Checks that read the kept answer of a call: where the modern request alone does
\* not settle the matter, losing the second one leaves the first.
Fallbacks == {"NewerOnly", "LegacyFirst", "LegacyAfterAuth"}
OfTheKeptAnswer ==
  {"rfc9728.challenge.resource_metadata", "mcp.challenge.scope_present",
   "mcp.token.invalid_rejected", "mcp.token.foreign_audience_rejected",
   "smoke.present.token_accepted"}

\* A request or an answer that is lost is no fault of the server: the report shows
\* an error, not a failed row, unless discovery is what failed and says so, the
\* check is one of two that fail an unreachable server, or the second request of an
\* MCP call was lost (checks_oauth21.go, checks_rfc8414.go, mcp.go:106).
LossIsNoFinding ==
  (Conforming /\ ~MethodMismatch /\ ~opts.actorToken /\ ~DiscoveryErred) =>
    FailedRows \subseteq Omitted \cup SelfInflicted
      \cup {"oauth21.token.reachable", "rfc8414.metadata.signed_metadata_valid"}
      \cup (IF world.rs \cap Fallbacks # {} THEN OfTheKeptAnswer ELSE {})

----------------------------------------------------------------------------
\* The row each violation of the in-process servers is for, with the fact a row
\* that sends nothing then misses.  No row is for AcceptPlainPKCE or NoPAREndpoint
\* without a login.
Judging ==
  {<<"MalformedDiscovery", "rfc8414.metadata.issuer_match", "issuerMatch">>,
   <<"IncoherentMTLS", "rfc8705.advertise.mtls_bound", "mtlsAliases">>,
   <<"MangleApplicationType", "sep837.register.application_type", "applicationTypeKept">>,
   <<"ForeignRegistrationURI", "sep2352.register.issuer_binding", "issuerBound">>,
   <<"OmitChallenge", "rfc9728.challenge.resource_metadata", "challengeMetadata">>,
   <<"MalformedPRM", "rfc9728.prm.fetchable", "prmJSON">>,
   <<"OmitAuthorizationServers", "rfc9728.prm.authorization_servers_present", "prmServers">>,
   <<"UnresolvableAuthServer", "rfc9728.prm.as_resolvable", "tokenEndpoint">>,
   <<"NonCanonicalResource", "mcp.prm.resource_canonical", "prmCanonical">>,
   <<"QueryMethod", "mcp.token.query_not_advertised", "noQueryMethod">>}

Probing ==
  {<<"BadSignedMetadata", "rfc8414.metadata.signed_metadata_valid">>,
   <<"AcceptUnknownGrant", "oauth21.token.rejects_unknown_grant">>,
   <<"BadErrorShape", "oauth21.token.error_shape_rfc6749">>,
   <<"RejectResource", "rfc8707.token.accepts_resource">>,
   <<"IgnoreResourceParam", "rfc8707.token.reflects_audience">>,
   <<"ErrorOnMultipleResources", "rfc8707.token.multiple_resources">>,
   <<"FailImpersonation", "rfc8693.impersonation.issues_token">>,
   <<"RejectDelegation", "rfc8693.delegation.issues_token">>,
   <<"OmitAct", "rfc8693.delegation.act_present">>,
   <<"ForgeActChain", "rfc8693.delegation.act_nesting">>,
   <<"IgnoreMayAct", "rfc8693.delegation.may_act_enforced">>,
   <<"WidenScope", "rfc8693.downscope.scope_honored">>,
   <<"AcceptBadSubject", "rfc8693.error.invalid_grant_on_bad_subject">>,
   <<"RejectValidDPoP", "dpop.token.accepts_proof">>,
   <<"NoCnfBinding", "dpop.token.binds_cnf_jkt">>,
   <<"AcceptWrongHTU", WrongHTU>>,
   <<"IntrospectInactive", "rfc7662.introspect.active">>,
   <<"DeadRevocation", "rfc7009.advertise.revocation_endpoint">>,
   <<"IgnoreRevoke", Revocation>>,
   <<"RejectCIMDClient", "cimd.register.url_client_id">>,
   <<"NoSuffixPRM", "sep2351.discovery.suffix_path">>,
   <<"AcceptAnyToken", "mcp.token.invalid_rejected">>,
   <<"InsufficientScope", "smoke.present.token_accepted">>}

Rows == Probing \cup {<<j[1], j[2]>> : j \in Judging}

\* These rows are what the tables say, and keep off a server that is not known or does
\* not offer the grant they use, or a run without a resource server.
ASSUME RowsAssumption ==
  \A i \in DOMAIN Registry :
    LET c == Registry[i]
    IN /\ \A j \in Judging : c.id = j[2] => c.may = {} /\ j[3] \in c.judges
       /\ \A p \in Probing : c.id = p[2] => c.may # {}
       /\ c.id \in SelfMinted => /\ "clientCredentialsGrant" \in ToSet(c.gates)
                                 /\ {"tokenEndpoint", "dpop"} \cap ToSet(c.gates) # {}
       /\ c.id = "rfc8693.error.invalid_grant_on_bad_subject" => "tokenExchange" \in ToSet(c.gates)
       /\ c.id = "rfc9728.prm.as_resolvable" => "mcpTarget" \in ToSet(c.gates)

\* A token is introspected and exchanged before any is revoked; only its presentation
\* comes after (DefaultRegistry, registry.go).
ASSUME RevokedLateAssumption ==
  \A i, j \in DOMAIN Registry :
    /\ Registry[i].id \in SubjectTokenRows \ {"smoke.present.token_accepted"}
    /\ Registry[j].id = Revocation
    => i < j

\* A fact a row judges is one that every server without a fault shows, or says it will,
\* or that a gate of the row asks for first; two are facts such a server may lack, and
\* the row that says so is in Omitted (the Run functions of conformance/checks_*.go).
Forthcoming(c, fact) ==
  LET gated == ToSet(c.gates)
  IN \/ fact \in {"asMetadata", "issuerMatch", "tokenEndpoint", "tokenHTTPS", "jwksURI", "s256"}
     \/ /\ "mcpTarget" \in gated
        /\ \/ fact \in {"prm", "prmJSON", "prmServers", "prmCanonical", "noQueryMethod",
                         "headerMethod", "noOfflineAccess"}
           \/ fact \in {"challenge", "challengeMetadata"} /\ c.id \in OfTheKeptAnswer
           \/ fact = "challengeScope" /\ c.id = "mcp.challenge.scope_present"
     \/ fact = "issAdvertised" /\ c.id = "sep2468.advertise.iss_parameter"
     \/ fact = "grantTypes" /\ c.id = "rfc8414.metadata.grant_types_advertised"
     \/ fact = "mtlsAliases" /\ "mtlsBound" \in gated
     \/ fact \in {"applicationTypeKept", "issuerBound"} /\ "registered" \in gated
     \/ gated \cap {"responseTypes", "authCodeFlow", "stepUp"} # {}

ASSUME JudgesAssumption ==
  \A i \in DOMAIN Registry : \A fact \in Registry[i].judges : Forthcoming(Registry[i], fact)

\* What a row that sends something is about is offered, or it stays off.
ASSUME OffersAssumption ==
  \A i \in DOMAIN Registry :
    LET gated == ToSet(Registry[i].gates)
        id    == Registry[i].id
    IN /\ id \in Delegations => "actorToken" \in gated
       /\ id \in {"rfc8693.impersonation.issues_token", "rfc8693.downscope.scope_honored"} =>
            "tokenExchange" \in gated
       /\ id = "cimd.register.url_client_id" => "cimd" \in gated
       /\ id = "smoke.present.token_accepted" => "mcpTarget" \in gated

\* Rows a server can fail by the way it answers.
Refutable ==
  SelfMinted \cup Holders \cup Delegations \cup
  {"oauth21.token.reachable", "oauth21.token.rejects_unknown_grant",
   "oauth21.token.error_shape_rfc6749", "rfc8693.impersonation.issues_token",
   "rfc8693.downscope.scope_honored", "rfc8693.error.invalid_grant_on_bad_subject",
   "sep2351.discovery.suffix_path", "rfc8414.metadata.signed_metadata_valid",
   "cimd.register.url_client_id", "mcp.token.invalid_rejected",
   "mcp.token.foreign_audience_rejected"}

\* What Rules can make of the answers to a row that needs no login is what the row may
\* say; the one row that redeems a refresh token stays off without one, and those that
\* use a token ask for a source of it (the Run functions of conformance/checks_*.go).
ASSUME OutcomesOfRulesAssumption ==
  \A i \in DOMAIN Registry :
    LET c     == Registry[i]
        gated == ToSet(c.gates)
    IN /\ c.may # {} /\ gated \cap {"authCodeFlow", "refreshToken"} = {} =>
            /\ "pass" \in c.may
            /\ c.id \in Refutable => "fail" \in c.may
            /\ c.id \in SelfMinted \cup Holders => "untested" \in c.may
            /\ c.id \in {"rfc7009.advertise.revocation_endpoint", "dpop.token.nonce_challenge"} =>
                 "unsupported" \in c.may
       /\ c.id = RefreshScope => "refreshToken" \in gated
       /\ c.id \in Holders => "tokenSource" \in gated

\* client_credentials is not offered, which neither the metadata nor the error says.
DeclinesInSilence ==
  {"NoClientCredentials", "NoGrantTypesAdvertised", "BadErrorShape"} \subseteq world.as

\* What hides a violation from its row: the request is refused for a reason the row
\* does not tell from the one it is after, or what it is about is not there.
Hidden(violation) ==
  CASE violation = "AcceptWrongHTU" ->
         "RejectValidDPoP" \in world.as \/ MethodMismatch \/ DeclinesInSilence
    [] violation = "ErrorOnMultipleResources" ->
         "RejectResource" \in world.as \/ MethodMismatch \/ DeclinesInSilence
    [] violation = "AcceptBadSubject" -> "FailImpersonation" \in world.as \/ MethodMismatch
    [] violation = "AcceptUnknownGrant" ->
         "StrictAuth" \in world.as /\ Shown(server.registeredAs) # Blank
    [] violation = "IgnoreRevoke" -> "IntrospectInactive" \in world.as \/ IntrospectionClosed
    [] violation = "ForeignRegistrationURI" -> "NoClientConfigEndpoint" \in world.as
    [] violation = "QueryMethod" -> "MalformedPRM" \in world.rs
    [] violation = "AcceptAnyToken" -> "RequireDPoP" \in world.rs
    [] OTHER -> FALSE

\* Violations are seen: whatever else is wrong with the servers, the row a violation
\* is for does not pass, short of the cases Hidden names (the Run functions of
\* conformance/checks_*.go).
ViolationSeen ==
  Lossless =>
    \A row \in Rows : row[1] \in Switches /\ row[2] \in PassedRows => Hidden(row[1])

\* rejects_wrong_htu passes on a server that does not look at htu only because the
\* nonce it needs was lost on the way, or the server refuses any proof, the client or
\* the grant: an error of the harvest counts as no nonce (checks_dpop.go:180).
HtuPassIsEarned ==
  (/\ pc = "checks" /\ next <= Len(Registry) /\ Applies /\ Pending = Nothing
   /\ Current.id = WrongHTU /\ "AcceptWrongHTU" \in world.as
   /\ Rules(WrongHTU, said) = "pass") =>
    said[1] = Lost \/ Hidden("AcceptWrongHTU")

----------------------------------------------------------------------------
\* No proof reaches a server twice, except where one call of MCPRequest sends two
\* requests: PresentToken signs once for both (present.go:90).
FreshProofs ==
  [][server'.seenAgain # server.seenAgain => OnCall /\ Len(asked) = 2]_allVars

\* A client the run registered authenticates the way the server registered it, or
\* not at all where a check leaves the client out, unless a flag names another
\* method.  Where the server does not say which method that is, or names one the tool
\* does not implement, it is one of those the metadata advertises (resolve.go:159-170).
AuthAsRegistered ==
  (plan.registered /\ world.method = Blank) =>
    server.auth \in {Blank} \cup
      (IF StatedMethod(world.as) \in Methods THEN {Shown(server.registeredAs)}
       ELSE {Shown(m) : m \in AdvertisedMethods(world.as)})

\* The challenge is found on whichever of the two requests of a call carries it: a
\* server that sends one to a revision it speaks has it in the report (mcp.go:106,
\* discover.go:71).
ChallengeFound ==
  (opts.target /\ Lossless /\ ~Walking) =>
    ("challenge" \in disc <=>
       Switches \cap {"OmitChallenge", "ListsLegacyOnly", "ListsItsRefusal"} = {})

\* A registered client outlives the run only where the server offers no way to
\* delete it, hands out a way that leads elsewhere, or a message was lost
\* (main.go:298-305, register.go:145-165).
RegisteredIsDeleted ==
  (pc = "done" /\ live > 0) => ~Lossless \/ ~Deletes(world.as)

\* Every run ends, however the servers answer: no dialogue goes on for as long as a
\* server asks for another round (checks_smoke.go:66-79, checks_dpop.go:140-169).
WireEnds == <>(pc = "done")

----------------------------------------------------------------------------
(***************************************************************************)
(* A statement of the README the program does not keep.                    *)
(***************************************************************************)
\* "fail: the behavior is required at this severity and the server got it wrong. This is
\* a real finding." (README.md:288-289): a server without a fault, to and from which no
\* message is lost, fails a row only for what it leaves out.
FailIsAFinding == (Conforming /\ Lossless /\ ~MethodMismatch) => FailedRows \subseteq Omitted
=============================================================================

-------------------------------- MODULE MCRun --------------------------------
(***************************************************************************)
(* One instance of a run: deployments that keep their word, in every       *)
(* combination of what they may go without, and one that may answer        *)
(* anything, or nothing, to every request.                                 *)
(***************************************************************************)
EXTENDS RunProps

Without(facts) == (ResourceFacts \cup IssuerFacts) \ facts

Minimal ==
  {"challenge", "challengeMetadata", "prm", "prmJSON", "prmServers", "prmCanonical",
   "noOfflineAccess", "noQueryMethod", "headerMethod", "asMetadata", "issuerMatch", "tokenEndpoint",
   "tokenHTTPS", "s256"}

\* A third-party MCP server: public clients, no machine grant, no introspection.
PublicServer ==
  Without({"clientCredentials", "tokenExchange", "introspectionEndpoint", "dpop",
           "mtlsBound", "mtlsAliases", "signedMetadata"})

Site(facts, sound, openDCR, clientURI) ==
  [facts |-> facts, sound |-> sound, openDCR |-> openDCR, clientURI |-> clientURI]

AllFlags == [badFlags |-> FALSE, target |-> TRUE, issuer |-> FALSE, authCode |-> FALSE,
             stepUp |-> FALSE, present |-> TRUE, strict |-> FALSE, clientID |-> FALSE,
             subjectToken |-> FALSE, unknownModel |-> FALSE, actorToken |-> FALSE]

----------------------------------------------------------------------------
\* Rows a server gets to answer whatever it advertises: where anything may be answered
\* each of them multiplies the reports, so Wire has them and this instance has not.
Unconditional ==
  {"oauth21.token.reachable", "oauth21.token.rejects_unknown_grant", "oauth21.token.error_shape_rfc6749",
   "sep2351.discovery.suffix_path", "mcp.token.invalid_rejected", "mcp.token.foreign_audience_rejected",
   "rfc8707.authcode.aud_reflects_resource"}

MCRegistry == SelectSeq(FilterProfiles(DefaultRegistry, Profiles), LAMBDA c : c.id \notin Unconditional)

\* Every combination of the capabilities a deployment most often goes without,
\* and the shapes of broken discovery.
SoundSites ==
  {Site(facts, TRUE, open, TRUE) :
     facts \in {Without(lacking) : lacking \in
                  SUBSET {"registrationEndpoint", "revocationEndpoint", "introspectionEndpoint",
                          "issAdvertised", "clientCredentials"}}
               \cup {PublicServer, Minimal,
                     Minimal \ {"challenge", "challengeMetadata", "prmServers"},
                     ResourceFacts \ {"twoPRMScopes"}},
     open \in BOOLEAN}

\* It may also refuse to register a client, or register one and not say so.
UnreliableSite ==
  Site(Without({"challengeScope", "clientCredentials", "tokenExchange", "dpop", "signedMetadata",
                "cimd", "introspectionEndpoint"}), FALSE, TRUE, TRUE)

MCSites == SoundSites \cup {UnreliableSite, Site(Without({}), TRUE, TRUE, FALSE)}

MCInvocations ==
  {[AllFlags EXCEPT !.target = t, !.issuer = ~t, !.present = p, !.clientID = c,
                    !.subjectToken = s, !.strict = p] :
     t \in BOOLEAN, p \in BOOLEAN, c \in BOOLEAN, s \in BOOLEAN}
  \cup {[AllFlags EXCEPT !.target = t, !.issuer = ~t, !.authCode = TRUE, !.stepUp = TRUE,
                         !.clientID = c, !.strict = c] : t \in BOOLEAN, c \in BOOLEAN}
  \cup {[AllFlags EXCEPT !.unknownModel = TRUE], [AllFlags EXCEPT !.authCode = TRUE],
        [AllFlags EXCEPT !.badFlags = TRUE], [AllFlags EXCEPT !.target = FALSE],
        [AllFlags EXCEPT !.issuer = TRUE]}
=============================================================================

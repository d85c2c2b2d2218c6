-------------------------------- MODULE MCWire --------------------------------
(***************************************************************************)
(* Instances of a run request by request: every violation, variant and     *)
(* external behaviour on its own, pairs of those that meet at one          *)
(* endpoint, the ways a client authenticates, and one loss anywhere.       *)
(***************************************************************************)
EXTENDS WireProps

Legacy == 20250618
Modern == 20260728
Newer  == 20270101
AllVersions == {Legacy, Modern, Newer}

Plain == [badFlags |-> FALSE, target |-> TRUE, issuer |-> FALSE, authCode |-> FALSE,
          stepUp |-> FALSE, present |-> TRUE, strict |-> FALSE, clientID |-> FALSE,
          subjectToken |-> FALSE, unknownModel |-> FALSE, actorToken |-> FALSE]
Pasting  == [Plain EXCEPT !.subjectToken = TRUE]
Acting   == [Pasting EXCEPT !.actorToken = TRUE]
ByIssuer == [Plain EXCEPT !.target = FALSE, !.issuer = TRUE]
WithID   == [Plain EXCEPT !.clientID = TRUE]

\* A resource server that offers what every check asks about.
Good == {"HeaderMethod", "ChecksRevocation", "Scopes"}

World(as, rs, o) ==
  [as |-> as, rs |-> Good \cup rs, opts |-> o, act |-> 1, mayAct |-> "anyone",
   secret |-> FALSE, method |-> "", losses |-> 0]

Singles(flags) == {{}} \cup {{f} : f \in flags}
Pairs(flags)   == {{f, g} : f \in flags, g \in flags}

AllAS == ASViolations \cup ASVariants \cup ExternalAS
AllRS == RSViolations \cup RSVariants \cup ExternalRS

OneByOne ==
  {World(as, {}, o) : as \in Singles(AllAS), o \in {Plain, Pasting, Acting}}
  \cup {World({}, rs, o) : rs \in Singles(AllRS), o \in {Plain, Pasting}}
  \cup {World({"AdvertiseCIMD", "RejectCIMDClient"}, {}, Plain), World({"RequirePAR"}, {}, ByIssuer),
        World({"IgnoreRevoke", "SecretToIntrospect", "PublicClientsOnly"}, {}, Plain)}

\* Switches that meet at the token endpoint, at the token life cycle and at
\* registration.
AtTheToken ==
  {"AcceptWrongHTU", "BadErrorShape", "NoCnfBinding", "RejectValidDPoP", "SkipDPoPNonce",
   "AcceptUnknownGrant", "IgnoreResourceParam", "RejectResource", "ErrorOnMultipleResources",
   "NoClientCredentials", "NoGrantTypesAdvertised", "StrictAuth", "AssignsBasic"}
AtTheLifeCycle ==
  {"IntrospectInactive", "DeadRevocation", "IgnoreRevoke", "SecretToIntrospect",
   "PublicClientsOnly", "NoIntrospection"}
AtRegistration ==
  {"RejectRegistration", "RegistrationRequiresIAT", "MangleApplicationType",
   "ForeignRegistrationURI", "NoClientConfigEndpoint", "PublicClientsOnly", "AssignsBasic"}
AtTheExchange ==
  {"IgnoreMayAct", "ForgeActChain", "OmitAct", "RejectDelegation", "FailImpersonation",
   "AcceptBadSubject", "WidenScope", "BadErrorShape"}

Together ==
  {World(as, {}, Plain) : as \in Pairs(AtTheToken) \cup Pairs(AtRegistration)}
  \cup {World(as, {}, o) : as \in Pairs(AtTheLifeCycle), o \in {Plain, Pasting}}
  \cup {[World(as, {}, Acting) EXCEPT !.mayAct = m] :
          as \in Pairs(AtTheExchange), m \in {"actor", "another"}}

\* Resource servers that ask for proofs, and how they go about it.
AtThePresentation ==
  {"ProofNonce", "ProofNonceNeverSettles", "RemembersProofs", "ChecksBinding",
   "LegacyAfterAuth", "NewerOnly", "AcceptAnyToken"}
Presentations ==
  {World({}, {"RequireDPoP"} \cup rs, o) :
     rs \in Pairs(AtThePresentation) \ {{"NewerOnly", "LegacyAfterAuth"}}, o \in {Plain, Pasting}}

Clients ==
  {[World(as, {}, o) EXCEPT !.method = m, !.secret = s] :
     as \in {{"StrictAuth"} \cup how :
                how \in SUBSET {"AssignsBasic", "OmitsMethod"} \cup
                  {{"PublicClientsOnly"}, {"AssignsForeignMethod"}, {"PublicClientsOnly", "OmitsMethod"}}}
            \cup {{"SecretToIntrospect", "PublicClientsOnly"}},
     o \in {Plain, WithID}, m \in Methods \cup {""}, s \in BOOLEAN}

Losing ==
  {[World(as, rs, o) EXCEPT !.losses = 1] :
     as \in {{"EmitSignedMetadata"}, {"AcceptWrongHTU"}}, rs \in {{}, {"LegacyFirst"}}, o \in {Plain, Pasting}}
  \cup {[World({}, {"RequireDPoP", "ProofNonce"}, Plain) EXCEPT !.losses = 1],
        [World({}, {"NewerOnly"}, ByIssuer) EXCEPT !.losses = 1],
        [World({}, {"LegacyAfterAuth"}, Plain) EXCEPT !.losses = 1]}

\* Combinations in which the row a violation is for passes for another reason.
Hiding ==
  {World({violation, "NoClientCredentials", "NoGrantTypesAdvertised", "BadErrorShape"}, {}, Plain) :
     violation \in {"AcceptWrongHTU", "ErrorOnMultipleResources"}}
  \cup {[World({violation, "StrictAuth"}, {}, WithID) EXCEPT !.secret = s] :
          violation \in {"AcceptWrongHTU", "ErrorOnMultipleResources", "AcceptUnknownGrant"}, s \in BOOLEAN}
  \cup {World({}, {"MalformedPRM", "QueryMethod"}, Plain)}

AllWorlds == Hiding \cup OneByOne \cup Together \cup Presentations \cup Clients \cup Losing

AllInvocations == {w.opts : w \in AllWorlds}
AllDeployments == {SiteOf(w) : w \in AllWorlds}

\* Servers without a fault that fail a row, each for a reason of its own: both
\* delegation rows send one request, a token that was revoked is presented, one never
\* bound to a key is presented with a proof, and one proof goes out twice in a call.
FindingWorlds ==
  {World({}, {}, Acting), World({}, {}, Pasting), World({}, {"RequireDPoP", "ChecksBinding"}, Plain),
   World({}, {"RequireDPoP", "RemembersProofs", "LegacyAfterAuth"}, Plain)}
=============================================================================

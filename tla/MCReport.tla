------------------------------ MODULE MCReport -------------------------------
(***************************************************************************)
(* Six checks that between them carry every severity, every outcome and    *)
(* labels of one and of several rows, scored against the four shapes of    *)
(* surface in conformance/model_profiles.yaml.                             *)
(***************************************************************************)
EXTENDS ReportProps, Checks

MCRows ==
  LET picked == {"rfc8414.metadata.issuer_match", "rfc8414.metadata.jwks_uri_present",
                 "rfc8707.token.accepts_resource", "rfc8707.token.multiple_resources",
                 "cimd.advertise.supported", "sep837.register.application_type"}
      checks == SelectSeq(DefaultRegistry, LAMBDA c : c.id \in picked)
  IN [i \in DOMAIN checks |-> RowOf(checks[i])]

Requires(labels, optional) == [anyOf |-> labels, optional |-> optional]

\* claude-web and chatgpt; gemini-cli; claude-api; gemini-enterprise.
MCSurfaces ==
  {[unscorable |-> FALSE,
    requires |-> <<Requires({"RFC 8414"}, FALSE), Requires({"RFC 8707"}, FALSE),
                   Requires({"CIMD", "SEP-837"}, FALSE)>>],
   [unscorable |-> FALSE,
    requires |-> <<Requires({"RFC 8414"}, FALSE), Requires({"RFC 8707"}, TRUE),
                   Requires({"CIMD", "SEP-837"}, TRUE)>>],
   [unscorable |-> FALSE, requires |-> <<>>],
   [unscorable |-> TRUE, requires |-> <<>>]}

MCCapabilities ==
  {CapabilityRows[row] : row \in {"as_metadata", "resource_indicators", "cimd", "dcr"}}

\* The checks of one label, none of them a MUST, in a run that loses nothing.
AdvisoryRows ==
  LET checks == SelectSeq(DefaultRegistry, LAMBDA c : c.rfc = "RFC 8707")
  IN [i \in DOMAIN checks |-> [RowOf(checks[i]) EXCEPT !.answers = @ \ {"error"}]]
=============================================================================

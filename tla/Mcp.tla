--------------------------------- MODULE Mcp ---------------------------------
(***************************************************************************)
(* One call of probe.MCPRequest: the modern request and, when its answer   *)
(* leaves the era of the server open, either the initialize handshake of   *)
(* the older revisions or one more modern request at a version the server  *)
(* named.  Callers read the challenge, the status and the DPoP nonce off   *)
(* the one answer that is kept.                                            *)
(*                                                                         *)
(* The server is not modelled here: each request is answered with any      *)
(* reply or with none.  Versions are ISO dates, so their order is that of  *)
(* numbers; of a body only the class of its JSON-RPC error code matters.   *)
(***************************************************************************)
EXTENDS Integers, Sequences

CONSTANTS
  Versions,        \* protocol versions a server may name
  ModernVersion,   \* MCPVersionModern, the one the probe speaks
  LegacyVersion    \* MCPVersionLegacy, of the initialize handshake

NoVersion == 0

\* The code of a JSON-RPC error: UnsupportedProtocolVersion, another one of the
\* range the specification reserves, method-not-found, or nothing of the kind.
RpcErrors == {"unsupportedVersion", "reserved", "methodNotFound", "none"}

\* What callers read off the headers of an answer: the parts of a challenge, and
\* whether it carries a DPoP nonce.
Headers == {"challenge", "challengeMetadata", "challengeScope", "dpopNonce"}

\* The answers a server may give.
Replies ==
  [status : Nat, rpc : RpcErrors, supported : SUBSET Versions, headers : SUBSET Headers]

ASSUME VersionsAssumption ==
  /\ Versions \subseteq Nat \ {NoVersion}
  /\ ModernVersion \in Versions /\ LegacyVersion \in Versions
  /\ LegacyVersion < ModernVersion
  /\ \E last \in Versions : \A v \in Versions : v <= last

Lost == [lost |-> TRUE]

VARIABLES
  phase,      \* "idle", the request being waited for, "returned" or "failed"
  asked,      \* the requests sent, as versions
  heard,      \* what came back for each
  kept,       \* MCPResult.Response, as a position of heard, 0 for nil
  version,    \* MCPResult.Version
  era,        \* MCPResult.Era
  supported   \* MCPResult.SupportedVersions

callVars == <<phase, asked, heard, kept, version, era, supported>>

InitCall ==
  /\ phase = "idle"
  /\ asked = <<>> /\ heard = <<>>
  /\ kept = 0 /\ version = NoVersion /\ era = "unknown" /\ supported = {}

----------------------------------------------------------------------------
Ambiguous(status) == status \in {400, 404, 405}
Succeeded(status) == status < 300

\* modernError: only a peer of the modern era answers with one of these.
ModernError(r) == r.rpc # "none"

\* highestModernVersion, NoVersion when none of the versions is modern.
HighestModern(versions) ==
  LET modern == {v \in versions : v >= ModernVersion}
  IN IF modern = {} THEN NoVersion ELSE CHOOSE v \in modern : \A w \in modern : w <= v

\* Mutant: the refused version is not excluded.
AnyRetry(versions) == HighestModern(versions)

\* The version to ask for again: not the one that was just refused.
Retry(versions) ==
  IF HighestModern(versions) = ModernVersion THEN NoVersion ELSE HighestModern(versions)

Ask(request, at) == phase' = request /\ asked' = Append(asked, at)
Stop(ending)     == phase' = ending /\ UNCHANGED asked
Hear(r)          == heard' = Append(heard, r)
Keep(r)          == Hear(r) /\ kept' = Len(asked) /\ version' = asked[Len(asked)]

\* MCPRequest is called; whatever the previous call returned has been read.
Begin ==
  /\ phase \in {"idle", "returned", "failed"}
  /\ phase' = "modern" /\ asked' = <<ModernVersion>> /\ heard' = <<>>
  /\ kept' = 0 /\ version' = NoVersion /\ era' = "unknown" /\ supported' = {}

FirstLost ==
  /\ phase = "modern"
  /\ Hear(Lost) /\ Stop("failed")
  /\ UNCHANGED <<kept, version, era, supported>>

\* A status that says which era it is, or that the era does not matter: a 401.
Settled(r) ==
  /\ phase = "modern" /\ ~Ambiguous(r.status)
  /\ Keep(r)
  /\ era' = IF Succeeded(r.status) THEN "modern" ELSE "unknown"
  /\ Stop("returned")
  /\ UNCHANGED supported

FallBack(r) ==
  /\ phase = "modern" /\ Ambiguous(r.status) /\ ~ModernError(r)
  /\ Keep(r)
  /\ Ask("initialize", LegacyVersion)
  /\ UNCHANGED <<era, supported>>

ModernRefusal(r) ==
  /\ phase = "modern" /\ Ambiguous(r.status) /\ ModernError(r)
  /\ Keep(r)
  /\ era' = "modern"
  /\ IF r.rpc = "unsupportedVersion"
     THEN /\ supported' = r.supported
          /\ IF Retry(r.supported) = NoVersion THEN Stop("returned")
             ELSE Ask("again", Retry(r.supported))
     ELSE supported' = supported /\ Stop("returned")

\* The second request is best effort: without an answer the first one stands.
SecondLost ==
  /\ phase \in {"initialize", "again"}
  /\ Hear(Lost) /\ Stop("returned")
  /\ UNCHANGED <<kept, version, era, supported>>

\* Mutant: the answer to initialize is not read.
InitializedUnread(r) ==
  /\ phase = "initialize"
  /\ Hear(r) /\ Stop("returned")
  /\ UNCHANGED <<kept, version, era, supported>>

Initialized(r) ==
  /\ phase = "initialize"
  /\ Keep(r) /\ Stop("returned")
  /\ era' = IF Succeeded(r.status) THEN "legacy" ELSE era
  /\ UNCHANGED supported

\* Mutant: the answer at the new version is kept under the old one.
AgainStale(r) ==
  /\ phase = "again"
  /\ Hear(r) /\ kept' = 2 /\ Stop("returned")
  /\ UNCHANGED <<version, era, supported>>

\* The answer at the new version is not looked into: no third request.
Again(r) ==
  /\ phase = "again"
  /\ Keep(r) /\ Stop("returned")
  /\ UNCHANGED <<era, supported>>

Unheard   == FirstLost \/ SecondLost
Answer(r) == Settled(r) \/ FallBack(r) \/ ModernRefusal(r) \/ Initialized(r) \/ Again(r)

NextCall == Begin \/ Unheard \/ \E r \in Replies : Answer(r)

SpecCall == InitCall /\ [][NextCall]_callVars

----------------------------------------------------------------------------
Awaiting == {"modern", "initialize", "again"}

\* The variables of a call have their types (probe.MCPResult).
CallTypeOK ==
  /\ phase \in Awaiting \cup {"idle", "returned", "failed"}
  /\ asked \in Seq(Versions) /\ Len(asked) <= 2
  /\ heard \in Seq(Replies \cup {Lost})
  /\ kept \in 0..2
  /\ version \in Versions \cup {NoVersion}
  /\ era \in {"unknown", "modern", "legacy"}
  /\ supported \subseteq Versions

\* A server is never asked twice for the same version: a version it has just
\* refused is not the one to retry with, whatever it lists (mcp.go:136).
NeverAskedTwice == \A i, j \in DOMAIN asked : i # j => asked[i] # asked[j]

\* "Version is the protocol version the returned Response was obtained with"
\* (mcp.go:71-72), and the response is the last one that arrived.
VersionOfTheAnswer ==
  kept # 0 =>
    /\ kept \in DOMAIN heard /\ kept \in DOMAIN asked
    /\ heard[kept] # Lost
    /\ version = asked[kept]
    /\ \A i \in DOMAIN heard : i > kept => heard[i] = Lost

\* The era is one the server showed: the modern one by accepting a modern call or
\* by an error code only a modern peer sends, the older one by accepting an
\* initialize (mcp.go:106-129).
EraIsShown ==
  /\ era = "modern" =>
       /\ heard # <<>> /\ heard[1] # Lost
       /\ Succeeded(heard[1].status) \/ ModernError(heard[1])
  /\ era = "legacy" =>
       /\ kept = 2 /\ asked[2] = LegacyVersion
       /\ Succeeded(heard[2].status)
       /\ ~ModernError(heard[1])
=============================================================================

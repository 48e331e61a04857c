--------------------------- MODULE PlatformDocuments ---------------------------
(***************************************************************************)
(* What a Platform writes (packages/platform/src/index.ts) and an Agent    *)
(* (packages/agent/src/index.ts) or a Service (packages/service/src) reads *)
(* of it: its discovery document, pages of identities, the answers to Sign *)
(* and the verdicts of hosted verification.  A builder or reader that      *)
(* throws gives None.                                                      *)
(*                                                                         *)
(* A discovery document, and the options it is made from, is [major,       *)
(* template, paths, did, name, algorithms, methods, lifetime, hosted]; the *)
(* paths are a function on Endpoints, and the options have a maximum too.  *)
(* Whatever may be left out is None then.                                  *)
(***************************************************************************)
EXTENDS Integers, Sequences

CONSTANTS None, Longest,
  Major,         \* the version of the protocol that is supported
  Algorithms,    \* the algorithms that are
  SecureUrls,    \* templates that begin with "https://"
  Paths,         \* texts that begin with "/"
  SameOrigin,    \* those of them that name no other origin, as URLs go
  OriginPaths,   \* those that ENDPOINT_PATH_PATTERN matches
  Dids           \* texts that begin with "did:"

Required == {"base", "lifecycle", "list", "provision", "sign"}
Endpoints == Required \union {"hosted_verification"}
Given(value, default) == IF value = None THEN default ELSE value
Elements(seq) == {seq[i] : i \in DOMAIN seq}

(* validateLifetimeSeconds: a maximum can only lower the ceiling.          *)
LifetimeFits(lifetime, maximum) ==
  lifetime \in 1..Longest /\ lifetime <= Given(maximum, Longest)

-----------------------------------------------------------------------------
(* createPlatformDiscoveryDocument, and parsePlatformDiscoveryDocument.    *)
Discovery(options) ==
  LET lifetime == Given(options.lifetime, Longest)
      methods  == Given(options.methods, <<"did:web">>)
  IN  IF /\ options.template \in SecureUrls /\ options.name # ""
         /\ \A e \in Endpoints :
              \/ options.paths[e] \in OriginPaths
              \/ e \notin Required /\ options.paths[e] = None
         /\ options.did \in Dids \union {None}
         /\ Given(options.major, Major) = Major
         /\ LifetimeFits(lifetime, options.maximum)
         /\ options.algorithms # <<>> /\ Elements(options.algorithms) \subseteq Algorithms
         /\ methods # <<>>
      THEN [major |-> Given(options.major, Major), template |-> options.template,
            paths |-> options.paths, did |-> options.did, name |-> options.name,
            algorithms |-> options.algorithms, methods |-> methods, lifetime |-> lifetime,
            hosted |-> Given(options.hosted, FALSE)]
      ELSE None

ReadDiscovery(document) ==
  IF /\ document.major = Major
     /\ \A e \in Endpoints :
          document.paths[e] \in Paths \/ (e \notin Required /\ document.paths[e] = None)
     /\ document.did \in Dids \union {None}
     /\ document.template \in SecureUrls /\ document.name # ""
     /\ document.methods # <<>>
     /\ document.algorithms # <<>> /\ Elements(document.algorithms) \subseteq Algorithms
     /\ document.lifetime \in 1..300
  THEN document ELSE None

(* requireEndpointPath and assertPlatformCommandOrigin: where the Agent    *)
(* sends a command.                                                        *)
CommandPath(document, endpoint) ==
  IF document.paths[endpoint] \in SameOrigin THEN document.paths[endpoint] ELSE None

(* The lifetime a Platform signs for, given what the Agent asks for.  What *)
(* it does not sign for is a problem, Refused, if it is found out in time, *)
(* and an exception otherwise.                                             *)
Refused == 0
SignedLifetime(document, maximum, asked) ==
  LET lifetime == Given(asked, document.lifetime) IN
  IF asked # None /\ (asked \notin 1..Longest \/ asked > Given(maximum, Longest)) THEN Refused
  ELSE IF LifetimeFits(lifetime, maximum) THEN lifetime
  ELSE None

-----------------------------------------------------------------------------
(* A page of identities: createPlatformAgentIdentityListResponse, and      *)
(* parsePlatformAgentIdentityList.                                         *)
Page(identities, total) ==
  LET all == Given(total, Len(identities)) IN
  IF all < Len(identities) THEN None
  ELSE [count |-> Len(identities), data |-> identities, total |-> all]

ReadPage(page) ==
  IF {page.count, page.total} \subseteq Nat /\ Len(page.data) = page.count /\ page.count <= page.total
  THEN page ELSE None

(* createPlatformSignPendingResponse and createPlatformSignResponse, which *)
(* dates the assertion; parsePlatformSignResponse.                         *)
Pending(retryAfter) ==
  IF retryAfter \in 1..300 THEN [status |-> "pending", retryAfter |-> retryAfter] ELSE None

Completed(assertion, issuedAt, lifetime, maximum) ==
  IF LifetimeFits(lifetime, maximum) /\ issuedAt >= 0
  THEN [status |-> "completed", assertion |-> assertion, issuedAt |-> issuedAt,
        expiresAt |-> issuedAt + lifetime]
  ELSE None

ReadSign(answer) ==
  CASE answer.status = "pending" -> IF answer.retryAfter \in 1..300 THEN answer ELSE None
    [] answer.status = "completed" -> answer
    [] OTHER -> None

-----------------------------------------------------------------------------
(* The verdict on an assertion: createPlatformVerificationResponse, what   *)
(* the Platform makes of it in either case, and the hosted verifier's      *)
(* comparison with what it asked about.                                    *)
Verdict(agent, op, service, reason, verified) ==
  IF service # "" /\ reason \in {"verified", "not_recognized"} /\ (verified <=> reason = "verified")
  THEN [agent |-> agent, op |-> op, service |-> service, reason |-> reason, verified |-> verified]
  ELSE None
Verified(request, agent) == Verdict(agent, request.op, request.service, "verified", TRUE)
Unrecognized(request) == Verdict(None, None, request.service, "not_recognized", FALSE)

Recognizes(verdict, sub, request) ==
  /\ verdict.verified /\ verdict.agent = sub
  /\ verdict.op = request.op /\ verdict.service = request.service
=============================================================================

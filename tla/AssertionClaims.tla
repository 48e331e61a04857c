---------------------------- MODULE AssertionClaims ----------------------------
(***************************************************************************)
(* The claims of client assertions, from the Agent that builds them to the *)
(* Service that accepts them: buildClientAssertionClaims of the Agent, the *)
(* validator and the JWT functions of packages/core, Sign and Verify of    *)
(* the Platform, the verifiers of the Service and its own check.           *)
(*                                                                         *)
(* Claims are [iss, sub, aud, op, resource, iat, exp], resource being None *)
(* where there is none; an assertion is [claims, kid], kid reduced to its  *)
(* DID.  Signatures hold, and a call that throws gives None.  Times are    *)
(* whole seconds; Longest is 300 of them.                                  *)
(***************************************************************************)
EXTENDS Integers

CONSTANTS None, Longest,
  SecureUris,   \* absolute https URIs without a fragment or user information
  LoopbackUris  \* the same with http at a loopback host

Operations == {"enroll", "status", "grant", "revoke", "authenticate"}

-----------------------------------------------------------------------------
(* core: validateClientAssertionClaims.                                    *)
AllowedUri(uri, loopback) == uri \in SecureUris \/ (loopback /\ uri \in LoopbackUris)
ResourceFits(op, resource) == (op = "authenticate") <=> (resource # None)

ValidClaims(claims, loopback) ==
  /\ claims.op \in Operations
  /\ ResourceFits(claims.op, claims.resource)
  /\ claims.resource # None => AllowedUri(claims.resource, loopback)
  /\ claims.iss = claims.sub
  /\ claims.exp - claims.iat \in 1..Longest

(* core: validateLifetimeSeconds, under a maximum that may only be lower.  *)
LifetimeFits(lifetime, maximum) == lifetime \in 1..Longest /\ lifetime <= maximum

-----------------------------------------------------------------------------
(* The Agent.  A request is [agent, service, op, resource, ttl].           *)
Claims(request, now, lifetime) ==
  [iss |-> request.agent, sub |-> request.agent, aud |-> request.service, op |-> request.op,
   resource |-> request.resource, iat |-> now, exp |-> now + lifetime]

BuildClaims(request, now, loopback) ==
  LET ttl    == IF request.ttl = None THEN Longest ELSE request.ttl
      claims == Claims(request, now, ttl)
  IN  IF ttl \in 1..Longest /\ ValidClaims(claims, loopback) THEN claims ELSE None

(* core: signClientAssertionJwt, with the key of an Agent.                 *)
KidFits(kid, claims) == kid = claims.iss /\ claims.iss = claims.sub
SignJwt(claims, kid, loopback) ==
  IF ValidClaims(claims, loopback) /\ KidFits(kid, claims)
  THEN [claims |-> claims, kid |-> kid] ELSE None

(* createPlatformSignRequest, in the Agent's delegated signer and again in *)
(* the Platform's parser: the Platform is told the lifetime, not the time. *)
SignRequest(claims) ==
  IF ResourceFits(claims.op, claims.resource) /\ LifetimeFits(claims.exp - claims.iat, Longest)
  THEN [service |-> claims.aud, op |-> claims.op, resource |-> claims.resource,
        lifetime |-> claims.exp - claims.iat]
  ELSE None

(* The Platform signs for an identity [did, service]: a request about      *)
(* another Service is not recognized, a lifetime above the configured      *)
(* maximum throws.  Its signer is createJwtPlatformDelegatedSigner.        *)
PlatformClaims(identity, request, now) ==
  Claims([agent |-> identity.did, service |-> request.service, op |-> request.op,
          resource |-> request.resource], now, request.lifetime)
SignAtPlatform(identity, request, now, maximum, loopback) ==
  IF /\ request.service = identity.service /\ ResourceFits(request.op, request.resource)
     /\ LifetimeFits(request.lifetime, maximum)
  THEN SignJwt(PlatformClaims(identity, request, now), identity.did, loopback)
  ELSE None

-----------------------------------------------------------------------------
(* core: verifyClientAssertionJwt.  jose compares exp, and not iat, with a *)
(* clock that is not the Service's: the verifier's own.                    *)
VerifyJwt(assertion, audience, now, tolerance, loopback) ==
  /\ assertion.claims.aud = audience
  /\ assertion.claims.exp > now - tolerance
  /\ ValidClaims(assertion.claims, loopback)
  /\ KidFits(assertion.kid, assertion.claims)

(* The Service.  A target is [service, op, resource].  The verifiers that  *)
(* have the Agent's key: with it configured, no loopback URI is allowed;   *)
(* with it resolved by did:web, there is no tolerance.                     *)
VerifyWithKey(assertion, target, now, tolerance) ==
  VerifyJwt(assertion, target.service, now, tolerance, FALSE)
VerifyByDidWeb(assertion, target, now, loopback) ==
  VerifyJwt(assertion, target.service, now, 0, loopback)

(* The verifier that asks the Platform (createHostedPlatform...), which    *)
(* also compares op, resource and iat; FutureIat is 30 seconds there.      *)
VerifyAtPlatform(assertion, target, now, futureIat) ==
  /\ ValidClaims(assertion.claims, FALSE)
  /\ VerifyJwt(assertion, target.service, now, 0, FALSE)
  /\ assertion.claims.iat <= now + futureIat
  /\ assertion.claims.op = target.op /\ assertion.claims.resource = target.resource

(* authenticateClientAssertion, once the verifier has let it pass: config  *)
(* is [skew, maxTtl, loopback].                                            *)
AcceptClaims(claims, target, config, now) ==
  /\ ValidClaims(claims, config.loopback)
  /\ claims.iss = claims.sub /\ claims.aud = target.service
  /\ claims.op = target.op /\ claims.resource = target.resource
  /\ claims.exp > claims.iat /\ claims.exp - claims.iat <= config.maxTtl
  /\ claims.iat <= now + config.skew /\ claims.exp > now - config.skew
=============================================================================

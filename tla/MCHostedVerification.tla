------------------------ MODULE MCHostedVerification ------------------------
(* Client assertions in one run, with one of two verifiers.  Any verifier: *)
(* ClientAssertionReplay by itself, three requests with the assertions of  *)
(* MCClientAssertionReplay.  The Platform: HostedVerification, two         *)
(* requests and two assertions of one Agent, which share a jti; its clock  *)
(* agrees with the Service's or is one ahead, and time runs past the end   *)
(* of both assertions and of every recorded verdict.                       *)
EXTENDS HostedVerification, MCClientAssertionReplay

VARIABLE verifier

HostedAssertions ==
  { [sub |-> alice, jti |-> j1, iat |-> 1, exp |-> 2, fits |-> TRUE],
    [sub |-> alice, jti |-> j1, iat |-> 1, exp |-> 3, fits |-> TRUE] }
AllAssertions == MCAssertions \union HostedAssertions

MCOffsets == {0, 1}

AnyVerifier ==
  /\ verifier = "any"
  /\ Next /\ assertion' \in [Requests -> MCAssertions \union {None}]
  /\ UNCHANGED <<identities, platform>> /\ Observe

HostedTime == 4
HostedVerifier ==
  /\ verifier = "platform"
  /\ HostedNext /\ now' <= HostedTime /\ signed' \subseteq HostedAssertions
  /\ Cardinality({r \in Requests : pc'[r] # "idle"}) <= 2

MCInit == HostedInit /\ verifier \in {"any", "platform"} /\ (verifier = "any" => ahead = 0)
MCSpec ==
  MCInit /\ [][(AnyVerifier \/ HostedVerifier) /\ UNCHANGED verifier]_<<hostedVars, verifier>>
=============================================================================

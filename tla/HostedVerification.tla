------------------------- MODULE HostedVerification -------------------------
(***************************************************************************)
(* A Service that lets the Agents' Platform verify client assertions:      *)
(* createHostedPlatformClientAssertionVerifier (packages/service) over     *)
(* verify of createAepPlatform (packages/platform).  The Service is        *)
(* ClientAssertionReplay; its verifier is here one POST to the Platform,   *)
(* which may be lost, answered late or not at all.  Service and Platform   *)
(* have their own clocks, replay stores and ideas of one request: the key  *)
(* of the POST is the hash of its body, so presenting an assertion again   *)
(* repeats the request and presenting a fresh one makes another.           *)
(***************************************************************************)
EXTENDS ClientAssertionReplay

CONSTANTS
  Offsets,       \* by how much the Platform's clock may be ahead
  PlatformSkew,  \* how far in the future an iat may lie: 30 seconds
  Lifetime,      \* maxAssertionLifetimeSeconds: what the Platform signs for
  Retention      \* idempotencyRetentionSeconds

Verdicts == {"verified", "not_recognized", "refused"}
Records == [verdict : Verdicts, expires : Int]

(* The Platform keeps a verdict for at least an hour and signs for at most *)
(* five minutes; the verifier does not compare exp with the Service's      *)
(* clock, which a Tolerance beyond MaxTime says.                           *)
ASSUME HostedAssumption ==
  /\ Offsets \subseteq Int /\ PlatformSkew \in Nat
  /\ Retention \in Nat /\ Lifetime \in Nat /\ Retention >= Lifetime
  /\ Tolerance > MaxTime /\ None \notin Verdicts /\ None \notin Records
  /\ \A a \in Assertions : a.iat \in Nat /\ a.exp \in Nat

VARIABLES
  ahead,       \* by how much the Platform's clock is ahead
  active,      \* the Agents whose identity is active
  signed,      \* the assertions the Platform has signed
  stage,       \* stage[r]: where the verification request of r is
  seen,        \* seen[r]: was the identity active when it was read for r?
  asked,       \* asked[r]: the Platform's clock when r entered its store
  verdict,     \* verdict[r]: what the Platform answered r
  record,      \* the Platform's idempotency store: record[a], or None
  pending,     \* pending[a]: the request whose callback runs
  used,        \* the Platform's replay store: records [sub, jti, exp]
  attested,    \* history: the identity of a was active after a was presented
  lastActive   \* history: when the identity of an Agent was last active

platform == <<stage, seen, asked, verdict, record, pending, used>>
identities == <<ahead, active, signed>>
hostedVars == <<vars, identities, platform, attested, lastActive>>

Agents == {a.sub : a \in Assertions}
PlatformNow == now + ahead

HostedInit ==
  /\ Init
  /\ ahead \in Offsets
  /\ active = Agents
  /\ signed = {}
  /\ stage = [r \in Requests |-> "idle"]
  /\ seen = [r \in Requests |-> FALSE]
  /\ asked = [r \in Requests |-> 0]
  /\ verdict = [r \in Requests |-> None]
  /\ record = [a \in Assertions |-> None]
  /\ pending = [a \in Assertions |-> None]
  /\ used = {}
  /\ attested = [a \in Assertions |-> FALSE]
  /\ lastActive = [agent \in Agents |-> 0]

-----------------------------------------------------------------------------
(* The Platform's own operations on an identity: it signs for an active    *)
(* one, at the time its clock shows, and suspends or reactivates it.       *)
LifetimeAllowed(a) == a.exp > a.iat /\ a.exp <= a.iat + Lifetime
Sign(a) ==
  /\ a.sub \in active /\ a.iat = PlatformNow /\ LifetimeAllowed(a)
  /\ signed' = signed \union {a}
  /\ UNCHANGED <<ahead, active, platform, vars>>

Suspend(agent) ==
  /\ active' = IF agent \in active THEN active \ {agent} ELSE active \union {agent}
  /\ UNCHANGED <<ahead, signed, platform, vars>>

(* The Service posts the assertion it was presented.                       *)
Post(r, a) ==
  /\ a \in signed /\ Present(r, a)
  /\ stage' = [stage EXCEPT ![r] = "sent"]
  /\ UNCHANGED <<identities, seen, asked, verdict, record, pending, used>>

-----------------------------------------------------------------------------
Answer(r, what) ==
  /\ verdict' = [verdict EXCEPT ![r] = what]
  /\ stage' = [stage EXCEPT ![r] = "answered"]

(* The request arrives: the identity is found and its caller authorized,   *)
(* or it is answered "not recognized" without any record of it.            *)
Arrive(r) ==
  /\ stage[r] = "sent"
  /\ \/ Answer(r, "refused") /\ UNCHANGED seen
     \/ /\ stage' = [stage EXCEPT ![r] = "authorized"]
        /\ seen' = [seen EXCEPT ![r] = assertion[r].sub \in active]
        /\ UNCHANGED verdict
  /\ UNCHANGED <<vars, identities, asked, record, pending, used>>

(* It enters the idempotency store, or looks again after a wait: a verdict *)
(* that has not expired is repeated, otherwise the callback runs.          *)
RepeatableMutant(a, time) == record[a] # None /\ record[a].expires > time + Retention
Repeatable(a, time) == record[a] # None /\ record[a].expires > time
LookUp(r, time) ==
  LET a == assertion[r] IN
  \/ /\ pending[a] # None
     /\ stage' = [stage EXCEPT ![r] = "waiting"]
     /\ UNCHANGED <<verdict, pending>>
  \/ /\ pending[a] = None /\ Repeatable(a, time)
     /\ Answer(r, record[a].verdict)
     /\ UNCHANGED pending
  \/ /\ pending[a] = None /\ ~Repeatable(a, time)
     /\ stage' = [stage EXCEPT ![r] = "running"]
     /\ pending' = [pending EXCEPT ![a] = r]
     /\ UNCHANGED verdict

Enter(r) ==
  /\ stage[r] = "authorized"
  /\ asked' = [asked EXCEPT ![r] = PlatformNow]
  /\ LookUp(r, PlatformNow)
  /\ UNCHANGED <<vars, identities, seen, record, used>>

Wake(r) ==
  /\ stage[r] = "waiting" /\ pending[assertion[r]] = None
  /\ LookUp(r, asked[r])
  /\ UNCHANGED <<vars, identities, seen, asked, record, used>>

(* The callback checks the identity as it was read, and the claims against *)
(* the clock as it is now.                                                 *)
Conclude(r, what) ==
  /\ record' = [record EXCEPT ![assertion[r]] =
                  [verdict |-> what, expires |-> PlatformNow + Retention]]
  /\ pending' = [pending EXCEPT ![assertion[r]] = None]
  /\ Answer(r, what)

RecognizedMutant(r) ==
  LET a == assertion[r] IN
  a.iat <= PlatformNow + PlatformSkew /\ PlatformNow < a.exp
Recognized(r) ==
  LET a == assertion[r] IN
  seen[r] /\ a.iat <= PlatformNow + PlatformSkew /\ PlatformNow < a.exp

Check(r) ==
  /\ stage[r] = "running"
  /\ IF Recognized(r)
       THEN stage' = [stage EXCEPT ![r] = "checked"] /\ UNCHANGED <<verdict, record, pending>>
       ELSE Conclude(r, "not_recognized")
  /\ UNCHANGED <<vars, identities, seen, asked, used>>

(* The jti is consumed, once in the lifetime of the assertion.             *)
StillUsed == {u \in used : u.exp > PlatformNow}
ConsumeJti(r) ==
  LET a == assertion[r] IN
  /\ stage[r] = "checked"
  /\ IF Known(StillUsed, a)
       THEN Conclude(r, "not_recognized") /\ used' = StillUsed
       ELSE /\ Conclude(r, "verified")
            /\ used' = StillUsed \union {[sub |-> a.sub, jti |-> a.jti, exp |-> a.exp]}
  /\ UNCHANGED <<vars, identities, seen, asked>>

(* The key store, the policy or the replay store throws: the callback      *)
(* answers "not recognized", and that too is recorded.                     *)
Fail(r) ==
  /\ stage[r] \in {"running", "checked"}
  /\ Conclude(r, "not_recognized")
  /\ UNCHANGED <<vars, identities, seen, asked, used>>

-----------------------------------------------------------------------------
(* The Service reads the answer.  Whatever is not a verdict of "verified"  *)
(* about the Agent and operation it asked for throws, as do an HTTP error, *)
(* a redirect and the timeout, after which the Platform may still go on.   *)
Vouched(r) == stage[r] = "answered" /\ verdict[r] = "verified"
HostedAnswers(r) ==
  /\ VerifierAnswers(r)
  /\ pc'[r] = "verified" => Vouched(r)
  /\ UNCHANGED <<identities, platform>>

ServiceGoesOn(r) == (Validate(r) \/ Consume(r)) /\ UNCHANGED <<identities, platform>>

(* History: what was true of the identities before or after this step.     *)
Observe ==
  /\ attested' = [a \in Assertions |->
       \/ attested[a]
       \/ a.sub \in active /\ \E r \in Requests : assertion[r] = a
       \/ a.sub \in active' /\ \E r \in Requests : assertion'[r] = a]
  /\ lastActive' = [agent \in Agents |->
       IF agent \in active' THEN now' ELSE lastActive[agent]]

HostedSteps ==
  \/ Tick /\ UNCHANGED <<identities, platform>>
  \/ \E a \in Assertions : Sign(a)
  \/ \E agent \in Agents : Suspend(agent)
  \/ \E r \in Requests :
       \/ \E a \in Assertions : Post(r, a)
       \/ Arrive(r) \/ Enter(r) \/ Wake(r)
       \/ Check(r) \/ ConsumeJti(r) \/ Fail(r)
       \/ HostedAnswers(r) \/ ServiceGoesOn(r)

HostedNext == HostedSteps /\ Observe

HostedSpec == HostedInit /\ [][HostedNext]_hostedVars

-----------------------------------------------------------------------------
HostedTypeOK ==
  /\ ahead \in Offsets /\ active \subseteq Agents /\ signed \subseteq Assertions
  /\ stage \in [Requests ->
       {"idle", "sent", "authorized", "waiting", "running", "checked", "answered"}]
  /\ seen \in [Requests -> BOOLEAN] /\ asked \in [Requests -> Int]
  /\ verdict \in [Requests -> Verdicts \union {None}]
  /\ pending \in [Assertions -> Requests \union {None}]
  /\ record \in [Assertions -> Records \union {None}]
  /\ \A u \in used : u.exp \in Int
  /\ attested \in [Assertions -> BOOLEAN] /\ lastActive \in [Agents -> Int]

(* An answer the Service never got can be asked for again: once the        *)
(* Platform has found an assertion verified, a later request about it is   *)
(* not answered "not recognized" by the store before the assertion expires *)
(* ("an authorized exact retry returns the original result without         *)
(* repeating assertion replay consumption").                               *)
VerdictStands ==
  [][\A r \in Requests :
       /\ verdict[r] = None /\ verdict'[r] = "not_recognized"
       /\ \E q \in Requests : verdict[q] = "verified" /\ assertion[q] = assertion[r]
       => PlatformNow >= assertion[r].exp]_hostedVars

(* What a suspension means to a Service: an assertion presented only after *)
(* its identity was suspended is never accepted, even though the Platform  *)
(* repeats verdicts without looking at the identity again.                 *)
AcceptedWasActive ==
  \A r \in Requests : Accepted(r) => attested[assertion[r]]

(* And one presented before is accepted no longer than assertions live: a  *)
(* recorded verdict outlives the assertion, and only the Service's own     *)
(* check of exp stops it.                                                  *)
SuspensionTakesEffect ==
  \A r \in Requests :
    Accepted(r) =>
      validatedAt[r] < lastActive[assertion[r].sub] + ahead + MaxTtl + Skew
=============================================================================

------------------------ MODULE ClientAssertionReplay ------------------------
(***************************************************************************)
(* How a Service authenticates client assertions                           *)
(* (packages/service/src/index.ts, authenticateClientAssertion):           *)
(* the verifier is awaited, the claims are checked against one reading of  *)
(* the clock, and the (sub, jti) pair is consumed in the replay store      *)
(* against a SECOND reading.  One JavaScript process runs all requests:    *)
(* between the two readings no other request runs, but time may pass.      *)
(***************************************************************************)
EXTENDS Integers

CONSTANTS
  Requests,    \* HTTP requests, each presenting one assertion
  Assertions,  \* records [sub, jti, iat, exp, fits]; `fits` stands for the
               \* checks on iss, aud, op, resource and the identity method
  Skew,        \* clientAssertion.clockSkewSeconds
  MaxTtl,      \* clientAssertion.maxTtlSeconds
  Tolerance,   \* clockTolerance given to the JWT verifier
  MaxTime,     \* bound of the clock
  None

ASSUME ReplayConstants ==
  /\ Skew \in Nat /\ MaxTtl \in Nat /\ Tolerance \in Nat /\ MaxTime \in Nat
  /\ \A a \in Assertions : a.iat \in Int /\ a.exp \in Int /\ a.fits \in BOOLEAN
  /\ None \notin Requests /\ None \notin Assertions

VARIABLES
  now,          \* the clock, in whole seconds
  pc,           \* pc[r]: where request r is
  assertion,    \* assertion[r]: what r presented
  validatedAt,  \* validatedAt[r]: the clock reading the claims were checked with
  consumedAt,   \* consumedAt[r]: the clock reading handed to consumeReplay
  running,      \* the request the event loop runs between its two readings
  store         \* the replay store: records [sub, jti, expiresAt]

vars == <<now, pc, assertion, validatedAt, consumedAt, running, store>>

Phases == {"idle", "verifying", "verified", "validated", "accepted", "rejected"}

Init ==
  /\ now = 0
  /\ pc = [r \in Requests |-> "idle"]
  /\ assertion = [r \in Requests |-> None]
  /\ validatedAt = [r \in Requests |-> 0]
  /\ consumedAt = [r \in Requests |-> 0]
  /\ running = None
  /\ store = {}

-----------------------------------------------------------------------------
(* The end of the window in which an assertion can be accepted: also the   *)
(* instant its replay record expires.                                      *)
WindowEndMutant(a) == a.exp
WindowEnd(a) == a.exp + Skew

(* validateClientAssertionClaimsForCommand *)
ClaimsHoldMutant(a, t) ==
  /\ a.fits
  /\ a.exp > a.iat
  /\ a.exp - a.iat <= MaxTtl
  /\ a.iat <= t + Skew
ClaimsHold(a, t) ==
  /\ a.fits
  /\ a.exp > a.iat
  /\ a.exp - a.iat <= MaxTtl
  /\ a.iat <= t + Skew
  /\ a.exp > t - Skew

(* The records consumeReplay keeps: it evicts what has expired.            *)
Live(s, t) == {rec \in s : rec.expiresAt > t}

Known(s, a) == \E rec \in s : rec.sub = a.sub /\ rec.jti = a.jti

Moved(r, phase) == pc' = [pc EXCEPT ![r] = phase]

-----------------------------------------------------------------------------
(* A request arrives and its assertion is handed to the verifier.          *)
Present(r, a) ==
  /\ running = None
  /\ pc[r] = "idle"
  /\ Moved(r, "verifying")
  /\ assertion' = [assertion EXCEPT ![r] = a]
  /\ UNCHANGED <<now, validatedAt, consumedAt, running, store>>

(* The awaited verifier answers.  It may refuse for reasons of its own; it *)
(* lets through only what its own expiry check admits.                     *)
VerifierAnswers(r) ==
  /\ running = None
  /\ pc[r] = "verifying"
  /\ \/ assertion[r].exp > now - Tolerance /\ Moved(r, "verified")
     \/ Moved(r, "rejected")
  /\ UNCHANGED <<now, assertion, validatedAt, consumedAt, running, store>>

(* The continuation after the await: first reading of the clock.           *)
Validate(r) ==
  /\ running = None
  /\ pc[r] = "verified"
  /\ validatedAt' = [validatedAt EXCEPT ![r] = now]
  /\ IF ClaimsHold(assertion[r], now)
       THEN Moved(r, "validated") /\ running' = r
       ELSE Moved(r, "rejected") /\ UNCHANGED running
  /\ UNCHANGED <<now, assertion, consumedAt, store>>

(* Second reading of the clock, then consumeReplay, which does not yield.  *)
Consume(r) ==
  LET a == assertion[r]
      live == Live(store, now)
  IN /\ running = r
     /\ pc[r] = "validated"
     /\ consumedAt' = [consumedAt EXCEPT ![r] = now]
     /\ IF Known(live, a)
          THEN Moved(r, "rejected") /\ store' = live
          ELSE /\ Moved(r, "accepted")
               /\ store' = live \union
                    {[sub |-> a.sub, jti |-> a.jti, expiresAt |-> WindowEnd(a)]}
     /\ running' = None
     /\ UNCHANGED <<now, assertion, validatedAt>>

(* Time passes at any moment, also between the two readings.               *)
Tick ==
  /\ now < MaxTime
  /\ now' = now + 1
  /\ UNCHANGED <<pc, assertion, validatedAt, consumedAt, running, store>>

Next ==
  \/ Tick
  \/ \E r \in Requests :
       \/ \E a \in Assertions : Present(r, a)
       \/ VerifierAnswers(r)
       \/ Validate(r)
       \/ Consume(r)

Spec == Init /\ [][Next]_vars

-----------------------------------------------------------------------------
TypeOK ==
  /\ now \in 0..MaxTime
  /\ pc \in [Requests -> Phases]
  /\ assertion \in [Requests -> Assertions \union {None}]
  /\ validatedAt \in [Requests -> 0..MaxTime]
  /\ consumedAt \in [Requests -> 0..MaxTime]
  /\ running \in Requests \union {None}
  /\ \A rec \in store : rec.expiresAt \in Int
  /\ \A r \in Requests : pc[r] # "idle" => assertion[r] \in Assertions

Accepted(r) == pc[r] = "accepted"
SameToken(r, s) ==
  /\ assertion[r].sub = assertion[s].sub
  /\ assertion[r].jti = assertion[s].jti

(* While the window of an accepted assertion is open, the store still      *)
(* holds its record: no eviction, by this or any other request, is early.  *)
OpenWindowRecorded ==
  \A r \in Requests :
    Accepted(r) =>
      \/ now >= WindowEnd(assertion[r])
      \/ \E rec \in store :
           /\ rec.sub = assertion[r].sub
           /\ rec.jti = assertion[r].jti
           /\ rec.expiresAt = WindowEnd(assertion[r])

(* Two requests that present one (sub, jti) are both accepted only if one  *)
(* was consumed after the other's window had closed: "prevents accepted    *)
(* client assertion jti replay until the assertion replay window expires". *)
NoReplayInWindow ==
  \A r, s \in Requests :
    r # s /\ Accepted(r) /\ Accepted(s) /\ SameToken(r, s)
      => \/ consumedAt[s] >= assertion[r].exp + Skew
         \/ consumedAt[r] >= assertion[s].exp + Skew

(* The only way one assertion is accepted twice: the window closed exactly *)
(* between the two clock readings of one of the requests.                  *)
ReplayNeedsBoundary ==
  \A r, s \in Requests :
    r # s /\ Accepted(r) /\ Accepted(s) /\ assertion[r] = assertion[s]
      => \E q \in {r, s} :
           /\ validatedAt[q] < assertion[q].exp + Skew
           /\ consumedAt[q] >= assertion[q].exp + Skew

(* What the documents promise without that exception: an assertion is      *)
(* accepted once.                                                          *)
AcceptedOnce ==
  \A r, s \in Requests :
    Accepted(r) /\ Accepted(s) /\ assertion[r] = assertion[s] => r = s
=============================================================================

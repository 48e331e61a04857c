---------------------- MODULE HostedVerification_proofs ----------------------
(***************************************************************************)
(* Proofs about ClientAssertionReplay, for every set of requests and       *)
(* assertions and every skew, lifetime, tolerance and clock bound; and     *)
(* about HostedVerification, which extends it.  A Service with a hosted    *)
(* verifier is a ClientAssertionReplay, so what is proved there about      *)
(* replays holds; and what it accepts rests on identities that were active.*)
(* The last part is about AssertionClaims: what is signed is accepted      *)
(* where it was meant to be, and nowhere else.                             *)
(***************************************************************************)
EXTENDS HostedVerification, TLAPS

(* What every request knows of the clock: the readings it made, in order,  *)
(* and that the first one fell inside the window of its assertion.         *)
Readings ==
  \A r \in Requests :
    /\ running = r <=> pc[r] = "validated"
    /\ pc[r] \in {"validated", "accepted"} =>
         /\ validatedAt[r] < assertion[r].exp + Skew
         /\ validatedAt[r] <= now
    /\ pc[r] = "accepted" => consumedAt[r] <= now

Inv == TypeOK /\ Readings /\ OpenWindowRecorded /\ NoReplayInWindow

(* The initial state satisfies every part: no request has begun.           *)
LEMMA InitInv == Init => Inv
BY ReplayConstants
   DEF Init, Inv, TypeOK, Readings, OpenWindowRecorded, NoReplayInWindow, Phases,
       Accepted

(* The state of the types is kept by every step.                           *)
LEMMA TypeStep == TypeOK /\ [Next]_vars => TypeOK'
<1> SUFFICES ASSUME TypeOK, [Next]_vars PROVE TypeOK'
  OBVIOUS
<1> USE ReplayConstants DEF TypeOK, Phases, Moved
<1>1. CASE Tick
  BY <1>1 DEF Tick
<1>2. ASSUME NEW r \in Requests, NEW a \in Assertions, Present(r, a)
      PROVE TypeOK'
  BY <1>2 DEF Present
<1>3. ASSUME NEW r \in Requests, VerifierAnswers(r) PROVE TypeOK'
  BY <1>3 DEF VerifierAnswers
<1>4. ASSUME NEW r \in Requests, Validate(r) PROVE TypeOK'
  BY <1>4 DEF Validate
<1>5. ASSUME NEW r \in Requests, Consume(r) PROVE TypeOK'
  <2>1. WindowEnd(assertion[r]) \in Int
    BY <1>5 DEF Consume, WindowEnd
  <2>2. \A rec \in store' : rec.expiresAt \in Int
    BY <1>5, <2>1 DEF Consume, Live
  <2> QED BY <1>5, <2>2 DEF Consume
<1>6. CASE UNCHANGED vars
  BY <1>6 DEF vars
<1> QED BY <1>1, <1>2, <1>3, <1>4, <1>5, <1>6 DEF Next

(* The clock readings keep their order, whoever runs.                      *)
LEMMA ReadingsStep == Inv /\ [Next]_vars => Readings'
<1> SUFFICES ASSUME Inv, [Next]_vars PROVE Readings'
  OBVIOUS
<1> USE ReplayConstants DEF Inv, TypeOK, Readings, Moved
<1>1. CASE Tick
  BY <1>1 DEF Tick
<1>2. ASSUME NEW r \in Requests, NEW a \in Assertions, Present(r, a)
      PROVE Readings'
  BY <1>2 DEF Present
<1>3. ASSUME NEW r \in Requests, VerifierAnswers(r) PROVE Readings'
  BY <1>3 DEF VerifierAnswers
<1>4. ASSUME NEW r \in Requests, Validate(r) PROVE Readings'
  BY <1>4 DEF Validate, ClaimsHold
<1>5. ASSUME NEW r \in Requests, Consume(r) PROVE Readings'
  BY <1>5 DEF Consume
<1>6. CASE UNCHANGED vars
  BY <1>6 DEF vars
<1> QED BY <1>1, <1>2, <1>3, <1>4, <1>5, <1>6 DEF Next

(* Only Consume touches the store, and it evicts no open window.           *)
LEMMA RecordedStep == Inv /\ [Next]_vars => OpenWindowRecorded'
<1> SUFFICES ASSUME Inv, [Next]_vars PROVE OpenWindowRecorded'
  OBVIOUS
<1> USE ReplayConstants DEF Inv, TypeOK, OpenWindowRecorded, Accepted, Moved, WindowEnd
<1>1. CASE Tick
  BY <1>1 DEF Tick
<1>2. ASSUME NEW r \in Requests, NEW a \in Assertions, Present(r, a)
      PROVE OpenWindowRecorded'
  BY <1>2 DEF Present
<1>3. ASSUME NEW r \in Requests, VerifierAnswers(r) PROVE OpenWindowRecorded'
  BY <1>3 DEF VerifierAnswers
<1>4. ASSUME NEW r \in Requests, Validate(r) PROVE OpenWindowRecorded'
  BY <1>4 DEF Validate
<1>5. ASSUME NEW r \in Requests, Consume(r) PROVE OpenWindowRecorded'
  <2> SUFFICES ASSUME NEW s \in Requests, Accepted(s)', now < WindowEnd(assertion[s])
               PROVE \E rec \in store' :
                       /\ rec.sub = assertion[s].sub
                       /\ rec.jti = assertion[s].jti
                       /\ rec.expiresAt = WindowEnd(assertion[s])
    BY <1>5 DEF Consume
  <2>1. Live(store, now) \subseteq store'
    BY <1>5 DEF Consume
  <2>2. CASE pc[s] = "accepted"
    <3>1. PICK rec \in store :
            /\ rec.sub = assertion[s].sub
            /\ rec.jti = assertion[s].jti
            /\ rec.expiresAt = WindowEnd(assertion[s])
      BY <2>2
    <3>2. rec \in Live(store, now)
      BY <3>1 DEF Live
    <3> QED BY <2>1, <3>1, <3>2
  <2>3. CASE pc[s] # "accepted"
    <3> DEFINE new == [sub |-> assertion[r].sub, jti |-> assertion[r].jti,
                       expiresAt |-> WindowEnd(assertion[r])]
    <3>1. s = r
      BY <1>5, <2>3 DEF Consume
    <3>2. new \in store'
      BY <1>5, <3>1 DEF Consume
    <3> QED BY <3>1, <3>2
  <2> QED BY <2>2, <2>3
<1>6. CASE UNCHANGED vars
  BY <1>6 DEF vars
<1> QED BY <1>1, <1>2, <1>3, <1>4, <1>5, <1>6 DEF Next

(* A second acceptance finds the first one's record, or its window closed. *)
LEMMA NoReplayStep == Inv /\ [Next]_vars => NoReplayInWindow'
<1> SUFFICES ASSUME Inv, [Next]_vars PROVE NoReplayInWindow'
  OBVIOUS
<1> USE ReplayConstants DEF Inv, TypeOK, NoReplayInWindow, Accepted, SameToken, Moved
<1>1. CASE Tick
  BY <1>1 DEF Tick
<1>2. ASSUME NEW r \in Requests, NEW a \in Assertions, Present(r, a)
      PROVE NoReplayInWindow'
  BY <1>2 DEF Present
<1>3. ASSUME NEW r \in Requests, VerifierAnswers(r) PROVE NoReplayInWindow'
  BY <1>3 DEF VerifierAnswers
<1>4. ASSUME NEW r \in Requests, Validate(r) PROVE NoReplayInWindow'
  BY <1>4 DEF Validate
<1>5. ASSUME NEW r \in Requests, Consume(r) PROVE NoReplayInWindow'
  <2>1. ASSUME NEW s \in Requests, s # r, Accepted(s), Accepted(r)', SameToken(r, s)
        PROVE now >= assertion[s].exp + Skew
    <3>1. ~Known(Live(store, now), assertion[r])
      BY <1>5, <2>1 DEF Consume
    <3>2. CASE now >= WindowEnd(assertion[s])
      BY <3>2 DEF WindowEnd
    <3>3. ASSUME NEW rec \in store,
                 rec.sub = assertion[s].sub, rec.jti = assertion[s].jti,
                 rec.expiresAt = WindowEnd(assertion[s])
          PROVE now >= assertion[s].exp + Skew
      <4>1. rec \notin Live(store, now)
        BY <2>1, <3>1, <3>3 DEF Known
      <4>2. assertion[s].exp \in Int
        BY <2>1
      <4> QED BY <3>3, <4>1, <4>2 DEF Live, WindowEnd
    <3> QED BY <2>1, <3>2, <3>3 DEF OpenWindowRecorded
  <2>2. /\ UNCHANGED assertion
        /\ consumedAt'[r] = now
        /\ \A s \in Requests \ {r} : pc'[s] = pc[s] /\ consumedAt'[s] = consumedAt[s]
    BY <1>5 DEF Consume
  <2> QED BY <2>1, <2>2
<1>6. CASE UNCHANGED vars
  BY <1>6 DEF vars
<1> QED BY <1>1, <1>2, <1>3, <1>4, <1>5, <1>6 DEF Next

(* Inv is inductive.                                                       *)
LEMMA InvHolds == Spec => []Inv
<1>1. Inv /\ [Next]_vars => Inv'
  BY TypeStep, ReadingsStep, RecordedStep, NoReplayStep DEF Inv
<1> QED BY InitInv, <1>1, PTL DEF Spec

(* The variables keep their types.                                         *)
THEOREM TypeCorrect == Spec => []TypeOK
<1>1. Inv => TypeOK
  BY DEF Inv
<1> QED BY InvHolds, <1>1, PTL

(* The store never forgets an accepted assertion whose window is open.     *)
THEOREM Recorded == Spec => []OpenWindowRecorded
<1>1. Inv => OpenWindowRecorded
  BY DEF Inv
<1> QED BY InvHolds, <1>1, PTL

(* Two requests with one (sub, jti) are never both accepted inside a       *)
(* window.                                                                 *)
THEOREM ReplayPrevented == Spec => []NoReplayInWindow
<1>1. Inv => NoReplayInWindow
  BY DEF Inv
<1> QED BY InvHolds, <1>1, PTL

(* An assertion accepted twice was accepted at the closing instant of its  *)
(* window, between the two clock readings of one request.                  *)
THEOREM ReplayOnlyAtBoundary == Spec => []ReplayNeedsBoundary
<1>1. Inv => ReplayNeedsBoundary
  BY ReplayConstants
     DEF Inv, ReplayNeedsBoundary, NoReplayInWindow, Readings, Accepted, SameToken, TypeOK
<1> QED BY InvHolds, <1>1, PTL

-----------------------------------------------------------------------------
(* Every step of the composition is a step of the Service, or none.        *)
LEMMA ServiceStep == [HostedNext]_hostedVars => [Next]_vars
<1> SUFFICES ASSUME [HostedNext]_hostedVars PROVE [Next]_vars
  OBVIOUS
<1>1. CASE Tick
  BY <1>1 DEF Next
<1>2. ASSUME NEW a \in Assertions, Sign(a) PROVE UNCHANGED vars
  BY <1>2 DEF Sign
<1>3. ASSUME NEW agent \in Agents, Suspend(agent) PROVE UNCHANGED vars
  BY <1>3 DEF Suspend
<1>4. ASSUME NEW r \in Requests, NEW a \in Assertions, Post(r, a) PROVE Next
  BY <1>4 DEF Post, Next
<1>5. ASSUME NEW r \in Requests,
             Arrive(r) \/ Enter(r) \/ Wake(r) \/ Check(r) \/ ConsumeJti(r) \/ Fail(r)
      PROVE UNCHANGED vars
  BY <1>5 DEF Arrive, Enter, Wake, Check, ConsumeJti, Fail
<1>6. ASSUME NEW r \in Requests, HostedAnswers(r) \/ ServiceGoesOn(r) PROVE Next
  BY <1>6 DEF HostedAnswers, ServiceGoesOn, Next
<1>7. CASE UNCHANGED hostedVars
  BY <1>7 DEF hostedVars
<1> QED BY <1>1, <1>2, <1>3, <1>4, <1>5, <1>6, <1>7 DEF HostedNext, HostedSteps

(* The Service of the composition behaves as ClientAssertionReplay says,   *)
(* whatever the Platform answers, loses or repeats.                        *)
THEOREM ServiceRefined == HostedSpec => Spec
<1>1. HostedInit => Init
  BY DEF HostedInit
<1> QED BY <1>1, ServiceStep, PTL DEF HostedSpec, Spec

(* A Service that trusts a Platform's verdicts still accepts no jti twice  *)
(* within a window, although the Platform repeats "verified".              *)
THEOREM HostedReplayPrevented == HostedSpec => []NoReplayInWindow
BY ServiceRefined, ReplayPrevented, PTL

-----------------------------------------------------------------------------
(* Where the evidence of a verdict comes from: the read of an identity     *)
(* that was active, made after the assertion was presented.                *)
Evidence ==
  /\ \A r \in Requests :
       /\ stage[r] \in {"idle", "sent"} => ~seen[r]
       /\ stage[r] # "answered" => verdict[r] = None
       /\ stage[r] = "idle" => pc[r] = "idle"
       /\ pc[r] = "idle" => stage[r] = "idle"
       /\ stage[r] = "checked" => seen[r]
       /\ seen[r] => attested[assertion[r]]
       /\ verdict[r] = "verified" => attested[assertion[r]]
       /\ pc[r] \in {"verified", "validated", "accepted"} => verdict[r] = "verified"
  /\ \A a \in Assertions :
       record[a] # None /\ record[a].verdict = "verified" => attested[a]

(* How long the signed assertions live, counted from the last moment their *)
(* identity was active.                                                    *)
Lives ==
  /\ \A agent \in Agents : lastActive[agent] <= now
  /\ \A agent \in active : lastActive[agent] = now
  /\ \A a \in signed : a.iat <= lastActive[a.sub] + ahead
  /\ \A r \in Requests :
       /\ pc[r] # "idle" => assertion[r] \in signed
       /\ pc[r] \in {"validated", "accepted"} =>
            assertion[r].exp - assertion[r].iat <= MaxTtl

HostedInv == Inv /\ HostedTypeOK /\ Evidence /\ Lives

LEMMA HostedInitInv == HostedInit => HostedInv
<1> SUFFICES ASSUME HostedInit PROVE HostedInv
  OBVIOUS
<1>1. Inv
  BY InitInv DEF HostedInit
<1>2. HostedTypeOK
  BY HostedAssumption, ReplayConstants DEF HostedInit, HostedTypeOK, Init, Agents, Verdicts
<1>3. Evidence
  BY HostedAssumption DEF HostedInit, Evidence, Init, Verdicts
<1>4. Lives
  BY HostedAssumption DEF HostedInit, Lives, Init
<1> QED BY <1>1, <1>2, <1>3, <1>4 DEF HostedInv

(* What a step does to the history: it forgets nothing, an active identity *)
(* attests every assertion presented, and an active Agent is active now.   *)
LEMMA ObserveFacts ==
  ASSUME HostedTypeOK, Observe
  PROVE  /\ \A a \in Assertions : attested[a] => attested'[a]
         /\ \A r \in Requests :
              assertion[r] \in Assertions /\ assertion[r].sub \in active
                => attested'[assertion[r]]
         /\ attested' \in [Assertions -> BOOLEAN]
         /\ \A agent \in Agents :
              lastActive'[agent] = IF agent \in active' THEN now' ELSE lastActive[agent]
BY DEF Observe, HostedTypeOK

(* The parts of the type invariant that the Platform's answers touch.      *)
Stages == {"idle", "sent", "authorized", "waiting", "running", "checked", "answered"}

LEMMA AnswerTypes ==
  ASSUME HostedTypeOK, NEW r \in Requests, NEW what \in Verdicts, Answer(r, what)
  PROVE  stage' \in [Requests -> Stages] /\ verdict' \in [Requests -> Verdicts \union {None}]
BY DEF Answer, HostedTypeOK, Stages, Verdicts

LEMMA ConcludeTypes ==
  ASSUME HostedTypeOK, now \in Int, NEW r \in Requests, NEW what \in Verdicts,
         Conclude(r, what)
  PROVE  /\ stage' \in [Requests -> Stages]
         /\ verdict' \in [Requests -> Verdicts \union {None}]
         /\ pending' \in [Assertions -> Requests \union {None}]
         /\ record' \in [Assertions -> Records \union {None}]
<1>1. stage' \in [Requests -> Stages] /\ verdict' \in [Requests -> Verdicts \union {None}]
  BY AnswerTypes DEF Conclude
<1>2. pending' \in [Assertions -> Requests \union {None}]
  BY DEF Conclude, HostedTypeOK
<1>3. PlatformNow + Retention \in Int
  BY HostedAssumption DEF PlatformNow, HostedTypeOK
<1>4. [verdict |-> what, expires |-> PlatformNow + Retention] \in Records
  BY <1>3 DEF Records
<1>5. record' \in [Assertions -> Records \union {None}]
  BY <1>4 DEF Conclude, HostedTypeOK
<1> QED BY <1>1, <1>2, <1>5

LEMMA LookUpTypes ==
  ASSUME HostedTypeOK, NEW r \in Requests, assertion[r] \in Assertions, NEW time,
         LookUp(r, time)
  PROVE  /\ stage' \in [Requests -> Stages]
         /\ verdict' \in [Requests -> Verdicts \union {None}]
         /\ pending' \in [Assertions -> Requests \union {None}]
<1> DEFINE a == assertion[r]
<1>1. CASE pending[a] # None /\ stage' = [stage EXCEPT ![r] = "waiting"] /\ UNCHANGED <<verdict, pending>>
  BY <1>1 DEF HostedTypeOK, Stages
<1>2. CASE Repeatable(a, time) /\ Answer(r, record[a].verdict) /\ UNCHANGED pending
  <2>1. record[a].verdict \in Verdicts
    BY <1>2 DEF Repeatable, HostedTypeOK, Records
  <2> QED BY <1>2, <2>1, AnswerTypes DEF HostedTypeOK
<1>3. CASE /\ stage' = [stage EXCEPT ![r] = "running"]
           /\ pending' = [pending EXCEPT ![a] = r] /\ UNCHANGED verdict
  BY <1>3 DEF HostedTypeOK, Stages
<1> QED BY <1>1, <1>2, <1>3 DEF LookUp

LEMMA HostedTypeStep == HostedInv /\ HostedNext => HostedTypeOK'
<1> SUFFICES ASSUME HostedInv, HostedNext PROVE HostedTypeOK'
  OBVIOUS
<1>a. HostedTypeOK /\ now \in Int
  BY DEF HostedInv, Inv, TypeOK
<1>b. now' \in Int
  BY ServiceStep, TypeStep DEF HostedInv, Inv, TypeOK
<1>c. attested' \in [Assertions -> BOOLEAN]
  BY <1>a, ObserveFacts DEF HostedNext
<1>d. lastActive' \in [Agents -> Int]
  BY <1>a, <1>b DEF HostedNext, Observe, HostedTypeOK
<1>e. \A r \in Requests : stage[r] # "idle" => assertion[r] \in Assertions
  BY DEF HostedInv, Evidence, Inv, TypeOK
<1>f. {"verified", "not_recognized", "refused"} \subseteq Verdicts
  BY DEF Verdicts
<1>g. PlatformNow \in Int
  BY <1>a, HostedAssumption DEF PlatformNow, HostedTypeOK
<1>h. \A u \in StillUsed : u.exp \in Int
  BY <1>a DEF StillUsed, HostedTypeOK
<1> USE <1>a, <1>c, <1>d
<1>1. CASE Tick /\ UNCHANGED <<identities, platform>>
  BY <1>1 DEF HostedTypeOK, identities, platform
<1>2. ASSUME NEW a \in Assertions, Sign(a) PROVE HostedTypeOK'
  BY <1>2 DEF HostedTypeOK, Sign, platform
<1>3. ASSUME NEW agent \in Agents, Suspend(agent) PROVE HostedTypeOK'
  BY <1>3 DEF HostedTypeOK, Suspend, platform
<1>4. ASSUME NEW r \in Requests, NEW a \in Assertions, Post(r, a) PROVE HostedTypeOK'
  BY <1>4 DEF HostedTypeOK, Post, identities
<1>5. ASSUME NEW r \in Requests, Arrive(r) PROVE HostedTypeOK'
  <2>1. stage' \in [Requests -> Stages] /\ verdict' \in [Requests -> Verdicts \union {None}]
    BY <1>5, <1>f, AnswerTypes DEF Arrive, HostedTypeOK, Stages
  <2>2. seen' \in [Requests -> BOOLEAN]
    <3>1. (assertion[r].sub \in active) \in BOOLEAN
      OBVIOUS
    <3> QED BY <1>5, <3>1 DEF Arrive, HostedTypeOK
  <2> QED BY <1>5, <2>1, <2>2 DEF Arrive, HostedTypeOK, Stages, identities
<1>6. ASSUME NEW r \in Requests, Enter(r) PROVE HostedTypeOK'
  <2>1. assertion[r] \in Assertions
    BY <1>6, <1>e DEF Enter
  <2>2. /\ stage' \in [Requests -> Stages]
        /\ verdict' \in [Requests -> Verdicts \union {None}]
        /\ pending' \in [Assertions -> Requests \union {None}]
    BY <1>6, <2>1, LookUpTypes DEF Enter
  <2>3. asked' \in [Requests -> Int]
    BY <1>6, <1>g DEF Enter, HostedTypeOK
  <2> QED BY <1>6, <2>2, <2>3 DEF Enter, HostedTypeOK, Stages, identities
<1>7. ASSUME NEW r \in Requests, Wake(r) PROVE HostedTypeOK'
  <2>1. assertion[r] \in Assertions
    BY <1>7, <1>e DEF Wake
  <2>2. /\ stage' \in [Requests -> Stages]
        /\ verdict' \in [Requests -> Verdicts \union {None}]
        /\ pending' \in [Assertions -> Requests \union {None}]
    BY <1>7, <2>1, LookUpTypes DEF Wake
  <2> QED BY <1>7, <2>2 DEF Wake, HostedTypeOK, Stages, identities
<1>8. ASSUME NEW r \in Requests, Check(r) PROVE HostedTypeOK'
  <2>1. CASE stage' = [stage EXCEPT ![r] = "checked"] /\ UNCHANGED <<verdict, record, pending>>
    BY <1>8, <2>1 DEF Check, HostedTypeOK, identities
  <2>2. CASE Conclude(r, "not_recognized")
    BY <1>8, <2>2, <1>f, ConcludeTypes DEF Check, HostedTypeOK, Stages, identities
  <2> QED BY <1>8, <2>1, <2>2 DEF Check
<1>9. ASSUME NEW r \in Requests, ConsumeJti(r) PROVE HostedTypeOK'
  <2>1. assertion[r].exp \in Int
    BY <1>9, <1>e, HostedAssumption DEF ConsumeJti
  <2>2. \A u \in used' : u.exp \in Int
    BY <1>9, <1>h, <2>1 DEF ConsumeJti
  <2>3. \E what \in Verdicts : Conclude(r, what)
    BY <1>9, <1>f DEF ConsumeJti
  <2>4. /\ stage' \in [Requests -> Stages]
        /\ verdict' \in [Requests -> Verdicts \union {None}]
        /\ pending' \in [Assertions -> Requests \union {None}]
        /\ record' \in [Assertions -> Records \union {None}]
    BY <2>3, ConcludeTypes
  <2> QED BY <1>9, <2>2, <2>4 DEF ConsumeJti, HostedTypeOK, Stages, identities
<1>10. ASSUME NEW r \in Requests, Fail(r) PROVE HostedTypeOK'
  BY <1>10, <1>f, ConcludeTypes DEF Fail, HostedTypeOK, Stages, identities
<1>11. ASSUME NEW r \in Requests, HostedAnswers(r) PROVE HostedTypeOK'
  BY <1>11 DEF HostedAnswers, HostedTypeOK, identities, platform
<1>12. ASSUME NEW r \in Requests, ServiceGoesOn(r) PROVE HostedTypeOK'
  BY <1>12 DEF ServiceGoesOn, HostedTypeOK, identities, platform
<1> QED
  BY <1>1, <1>2, <1>3, <1>4, <1>5, <1>6, <1>7, <1>8, <1>9, <1>10, <1>11, <1>12
     DEF HostedNext, HostedSteps

LEMMA EvidenceStep == HostedInv /\ HostedNext => Evidence'
<1> SUFFICES ASSUME HostedInv, HostedNext PROVE Evidence'
  OBVIOUS
<1> USE HostedAssumption DEF HostedInv, HostedTypeOK, Inv, TypeOK, Evidence, Verdicts, Phases
<1>a. /\ \A a \in Assertions : attested[a] => attested'[a]
      /\ \A r \in Requests :
           assertion[r] \in Assertions /\ assertion[r].sub \in active
             => attested'[assertion[r]]
  BY ObserveFacts DEF HostedNext
<1> USE <1>a
<1>1. CASE Tick /\ UNCHANGED <<identities, platform>>
  BY <1>1 DEF Tick, identities, platform
<1>2. ASSUME NEW a \in Assertions, Sign(a) PROVE Evidence'
  BY <1>2 DEF Sign, vars, platform
<1>3. ASSUME NEW agent \in Agents, Suspend(agent) PROVE Evidence'
  BY <1>3 DEF Suspend, vars, platform
<1>4. ASSUME NEW r \in Requests, NEW a \in Assertions, Post(r, a) PROVE Evidence'
  BY <1>4 DEF Post, Present, Moved, identities
<1>5. ASSUME NEW r \in Requests, Arrive(r) PROVE Evidence'
  BY <1>5 DEF Arrive, Answer, vars, identities
<1>6. ASSUME NEW r \in Requests, Enter(r) PROVE Evidence'
  BY <1>6 DEF Enter, LookUp, Repeatable, PlatformNow, Answer, vars, identities
<1>7. ASSUME NEW r \in Requests, Wake(r) PROVE Evidence'
  <2>1. assertion[r] \in Assertions
    BY <1>7 DEF Wake
  <2>2. CASE Answer(r, record[assertion[r]].verdict) /\ record[assertion[r]] # None
    BY <1>7, <2>1, <2>2 DEF Wake, Answer, vars, identities
  <2>3. CASE \E to \in {"waiting", "running"} : stage' = [stage EXCEPT ![r] = to] /\ UNCHANGED verdict
    BY <1>7, <2>3 DEF Wake, vars, identities
  <2> QED BY <1>7, <2>2, <2>3 DEF Wake, LookUp, Repeatable
<1>8. ASSUME NEW r \in Requests, Check(r) PROVE Evidence'
  <2>1. CASE Recognized(r) /\ stage' = [stage EXCEPT ![r] = "checked"] /\ UNCHANGED <<verdict, record, pending>>
    BY <1>8, <2>1 DEF Check, Recognized, vars, identities
  <2>2. CASE Conclude(r, "not_recognized")
    BY <1>8, <2>2 DEF Check, Conclude, Answer, vars, identities
  <2> QED BY <1>8, <2>1, <2>2 DEF Check
<1>9. ASSUME NEW r \in Requests, ConsumeJti(r) PROVE Evidence'
  BY <1>9 DEF ConsumeJti, StillUsed, Conclude, Answer, PlatformNow, vars, identities
<1>10. ASSUME NEW r \in Requests, Fail(r) PROVE Evidence'
  BY <1>10 DEF Fail, Conclude, Answer, PlatformNow, vars, identities
<1>11. ASSUME NEW r \in Requests, HostedAnswers(r) PROVE Evidence'
  BY <1>11 DEF HostedAnswers, Vouched, VerifierAnswers, Moved, identities, platform
<1>12. ASSUME NEW r \in Requests, ServiceGoesOn(r) PROVE Evidence'
  BY <1>12 DEF ServiceGoesOn, Validate, Consume, Moved, identities, platform
<1> QED
  BY <1>1, <1>2, <1>3, <1>4, <1>5, <1>6, <1>7, <1>8, <1>9, <1>10, <1>11, <1>12
     DEF HostedNext, HostedSteps

LEMMA LivesStep == HostedInv /\ HostedNext => Lives'
<1> SUFFICES ASSUME HostedInv, HostedNext PROVE Lives'
  OBVIOUS
<1> USE HostedAssumption DEF HostedInv, HostedTypeOK, Inv, TypeOK, Lives, Phases, Agents
<1>a. \A agent \in Agents :
        lastActive'[agent] = IF agent \in active' THEN now' ELSE lastActive[agent]
  BY ObserveFacts DEF HostedNext
<1> USE <1>a
<1>1. CASE Tick /\ UNCHANGED <<identities, platform>>
  BY <1>1 DEF Tick, identities
<1>2. ASSUME NEW a \in Assertions, Sign(a) PROVE Lives'
  BY <1>2 DEF Sign, PlatformNow, vars
<1>3. ASSUME NEW agent \in Agents, Suspend(agent) PROVE Lives'
  BY <1>3 DEF Suspend, vars
<1>4. ASSUME NEW r \in Requests, NEW a \in Assertions, Post(r, a) PROVE Lives'
  BY <1>4 DEF Post, Present, Moved, identities
<1>5. ASSUME NEW r \in Requests, Arrive(r) PROVE Lives'
  BY <1>5 DEF Arrive, Answer, vars, identities
<1>6. ASSUME NEW r \in Requests, Enter(r) PROVE Lives'
  BY <1>6 DEF Enter, LookUp, Repeatable, PlatformNow, Answer, vars, identities
<1>7. ASSUME NEW r \in Requests, Wake(r) PROVE Lives'
  BY <1>7 DEF Wake, LookUp, Repeatable, Answer, vars, identities
<1>8. ASSUME NEW r \in Requests, Check(r) PROVE Lives'
  BY <1>8 DEF Check, Recognized, Conclude, Answer, PlatformNow, vars, identities
<1>9. ASSUME NEW r \in Requests, ConsumeJti(r) PROVE Lives'
  BY <1>9 DEF ConsumeJti, StillUsed, Conclude, Answer, PlatformNow, vars, identities
<1>10. ASSUME NEW r \in Requests, Fail(r) PROVE Lives'
  BY <1>10 DEF Fail, Conclude, Answer, PlatformNow, vars, identities
<1>11. ASSUME NEW r \in Requests, HostedAnswers(r) PROVE Lives'
  BY <1>11 DEF HostedAnswers, Vouched, VerifierAnswers, Moved, identities
<1>12. ASSUME NEW r \in Requests, ServiceGoesOn(r) PROVE Lives'
  BY <1>12 DEF ServiceGoesOn, Validate, ClaimsHold, Consume, Moved, identities
<1> QED
  BY <1>1, <1>2, <1>3, <1>4, <1>5, <1>6, <1>7, <1>8, <1>9, <1>10, <1>11, <1>12
     DEF HostedNext, HostedSteps

LEMMA HostedInvHolds == HostedSpec => []HostedInv
<1>1. HostedInv /\ [HostedNext]_hostedVars => HostedInv'
  <2> SUFFICES ASSUME HostedInv, [HostedNext]_hostedVars PROVE HostedInv'
    OBVIOUS
  <2>1. Inv'
    BY ServiceStep, TypeStep, ReadingsStep, RecordedStep, NoReplayStep DEF HostedInv, Inv
  <2>2. CASE HostedNext
    BY <2>1, <2>2, HostedTypeStep, EvidenceStep, LivesStep DEF HostedInv
  <2>3. CASE UNCHANGED hostedVars
    BY <2>1, <2>3
       DEF HostedInv, HostedTypeOK, Evidence, Lives, hostedVars, vars, identities, platform
  <2> QED BY <2>2, <2>3
<1> QED BY HostedInitInv, <1>1, PTL DEF HostedSpec

(* An assertion first presented after its identity was suspended is never  *)
(* accepted, although recorded verdicts are repeated unseen.               *)
THEOREM AcceptedOnEvidence == HostedSpec => []AcceptedWasActive
<1>1. HostedInv => AcceptedWasActive
  BY DEF HostedInv, Evidence, AcceptedWasActive, Accepted
<1> QED BY HostedInvHolds, <1>1, PTL

(* A suspension ends acceptance within the longest lifetime of an          *)
(* assertion, the Service's skew and what the clocks differ by.            *)
THEOREM SuspensionBounded == HostedSpec => []SuspensionTakesEffect
<1>1. HostedInv => SuspensionTakesEffect
  <2> SUFFICES ASSUME HostedInv, NEW r \in Requests, Accepted(r)
               PROVE validatedAt[r] < lastActive[assertion[r].sub] + ahead + MaxTtl + Skew
    BY DEF SuspensionTakesEffect
  <2> DEFINE a == assertion[r]
  <2>1. pc[r] = "accepted" /\ a \in Assertions
    BY DEF Accepted, HostedInv, Inv, TypeOK
  <2>2. /\ a.iat <= lastActive[a.sub] + ahead
        /\ a.exp - a.iat <= MaxTtl
    BY <2>1 DEF HostedInv, Lives
  <2>3. validatedAt[r] < a.exp + Skew
    BY <2>1 DEF HostedInv, Inv, Readings
  <2>4. /\ a.iat \in Int /\ a.exp \in Int /\ MaxTtl \in Int /\ Skew \in Int
        /\ ahead \in Int /\ lastActive[a.sub] \in Int /\ validatedAt[r] \in Int
    BY <2>1, ReplayConstants, HostedAssumption
       DEF HostedInv, HostedTypeOK, Inv, TypeOK, Agents
  <2> QED BY <2>2, <2>3, <2>4
<1> QED BY HostedInvHolds, <1>1, PTL

-----------------------------------------------------------------------------
(* The course of a verification: one callback per assertion, and once it   *)
(* has concluded "verified" the record of it lasts as long as the          *)
(* assertion, so that no other callback starts before the assertion ends.  *)
Course ==
  /\ \A a \in signed : a.exp <= PlatformNow + Retention
  /\ \A a \in Assertions :
       record[a] # None /\ record[a].verdict = "verified" => record[a].expires >= a.exp
  /\ \A r \in Requests :
       /\ stage[r] \in {"running", "checked"} => pending[assertion[r]] = r
       /\ stage[r] \in {"waiting", "running", "checked"} => asked[r] <= PlatformNow
       /\ verdict[r] = "verified" =>
            \/ PlatformNow >= assertion[r].exp
            \/ /\ record[assertion[r]] # None /\ pending[assertion[r]] = None
               /\ record[assertion[r]].verdict = "verified"

LEMMA CourseInit == HostedInit => Course
BY HostedAssumption DEF HostedInit, Init, Course, Verdicts

(* A callback starts under an assertion found verified only when that has  *)
(* expired.                                                                *)
LEMMA LookUpCourse ==
  ASSUME HostedInv, Course, NEW r \in Requests, NEW time \in Int, time <= PlatformNow,
         assertion[r] \in Assertions, verdict[r] = None,
         LookUp(r, time), UNCHANGED <<vars, ahead, signed, record>>,
         asked'[r] \in Int, asked'[r] <= PlatformNow,
         \A q \in Requests \ {r} : asked'[q] = asked[q]
  PROVE  Course'
<1> USE HostedAssumption, ReplayConstants
    DEF HostedInv, HostedTypeOK, Inv, TypeOK, Records, Verdicts, PlatformNow, vars
<1> DEFINE a == assertion[r]
<1>1. CASE pending[a] # None /\ stage' = [stage EXCEPT ![r] = "waiting"] /\ UNCHANGED <<verdict, pending>>
  BY <1>1 DEF Course
<1>2. CASE pending[a] = None /\ Repeatable(a, time) /\ Answer(r, record[a].verdict) /\ UNCHANGED pending
  BY <1>2 DEF Course, Repeatable, Answer
<1>3. CASE /\ pending[a] = None /\ ~Repeatable(a, time) /\ stage' = [stage EXCEPT ![r] = "running"]
           /\ pending' = [pending EXCEPT ![a] = r] /\ UNCHANGED verdict
  <2>1. ASSUME NEW q \in Requests, verdict[q] = "verified", assertion[q] = a
        PROVE  PlatformNow >= a.exp
    BY <1>3, <2>1 DEF Course, Repeatable
  <2>2. ASSUME NEW q \in Requests, stage[q] \in {"running", "checked"} PROVE assertion[q] # a
    BY <1>3, <2>2 DEF Course
  <2> QED BY <1>3, <2>1, <2>2 DEF Course
<1> QED BY <1>1, <1>2, <1>3 DEF LookUp

(* A callback concludes under its own reservation.                         *)
LEMMA ConcludeCourse ==
  ASSUME HostedInv, Course, NEW r \in Requests, NEW what \in Verdicts,
         stage[r] \in {"running", "checked"}, Conclude(r, what),
         UNCHANGED <<vars, ahead, signed, asked>>
  PROVE  Course'
<1> USE HostedAssumption, ReplayConstants
    DEF HostedInv, HostedTypeOK, Inv, TypeOK, Records, Verdicts, PlatformNow, vars
<1> DEFINE a == assertion[r]
<1>1. a \in Assertions /\ a \in signed /\ pending[a] = r
  BY DEF Evidence, Lives, Course
<1>2. record' = [record EXCEPT ![a] = [verdict |-> what, expires |-> PlatformNow + Retention]]
  BY DEF Conclude
<1>3. /\ pending' = [pending EXCEPT ![a] = None]
      /\ stage' = [stage EXCEPT ![r] = "answered"]
      /\ verdict' = [verdict EXCEPT ![r] = what]
  BY DEF Conclude, Answer
<1>4. ASSUME NEW q \in Requests, q # r, verdict[q] = "verified", assertion[q] = a
      PROVE  PlatformNow >= a.exp
  BY <1>1, <1>4 DEF Course
<1>5. ASSUME NEW q \in Requests, q # r, stage[q] \in {"running", "checked"} PROVE assertion[q] # a
  BY <1>1, <1>5 DEF Course
<1>6. a.exp <= PlatformNow + Retention
  BY <1>1 DEF Course
<1>7. \A b \in Assertions :
        record'[b] # None /\ record'[b].verdict = "verified" => record'[b].expires >= b.exp
  BY <1>1, <1>2, <1>6 DEF Course
<1>8. \A q \in Requests :
        verdict'[q] = "verified" =>
          \/ PlatformNow >= assertion[q].exp
          \/ /\ record'[assertion[q]] # None /\ pending'[assertion[q]] = None
             /\ record'[assertion[q]].verdict = "verified"
  <2> SUFFICES ASSUME NEW q \in Requests, verdict'[q] = "verified", ~(PlatformNow >= assertion[q].exp)
               PROVE  /\ record'[assertion[q]] # None /\ pending'[assertion[q]] = None
                      /\ record'[assertion[q]].verdict = "verified"
    OBVIOUS
  <2>1. CASE q = r
    <3>1. what = "verified"
      BY <1>3, <2>1
    <3>2. record'[a] = [verdict |-> what, expires |-> PlatformNow + Retention]
      BY <1>1, <1>2
    <3>3. record'[a] \in Records
      BY <3>2
    <3> QED BY <1>1, <1>3, <2>1, <3>1, <3>2, <3>3
  <2>2. CASE q # r
    <3>1. verdict[q] = "verified" /\ assertion[q] # a
      BY <1>3, <1>4, <2>2
    <3> QED BY <1>2, <1>3, <2>2, <3>1 DEF Course
  <2> QED BY <2>1, <2>2
<1> QED BY <1>1, <1>3, <1>5, <1>7, <1>8 DEF Course

LEMMA PlatformClock == HostedInv => PlatformNow \in Int
BY HostedAssumption DEF HostedInv, HostedTypeOK, Inv, TypeOK, PlatformNow

LEMMA CourseStep == HostedInv /\ Course /\ [HostedNext]_hostedVars => Course'
<1> SUFFICES ASSUME HostedInv, Course, [HostedNext]_hostedVars PROVE Course'
  OBVIOUS
<1>a. PlatformNow \in Int
  BY PlatformClock
<1> USE HostedAssumption, ReplayConstants
    DEF HostedInv, HostedTypeOK, Inv, TypeOK, Records, Verdicts, PlatformNow
<1>1. CASE Tick /\ UNCHANGED <<identities, platform>>
  <2>1. /\ UNCHANGED <<signed, assertion, platform>>
        /\ PlatformNow' = PlatformNow + 1 /\ PlatformNow \in Int
    BY <1>1, <1>a DEF Tick, identities
  <2>2. \A b \in Assertions : b.exp \in Int
    OBVIOUS
  <2>3. \A q \in Requests : asked[q] \in Int
    OBVIOUS
  <2>4. /\ signed \subseteq Assertions /\ Retention \in Int
        /\ \A q \in Requests : verdict[q] = "verified" => assertion[q] \in Assertions
    BY DEF Evidence
  <2> HIDE DEF HostedInv, HostedTypeOK, Inv, TypeOK, PlatformNow, Records, Verdicts
  <2> QED BY <2>1, <2>2, <2>3, <2>4 DEF platform, Course
<1>2. ASSUME NEW a \in Assertions, Sign(a) PROVE Course'
  BY <1>2 DEF Sign, LifetimeAllowed, vars, platform, Course
<1>3. ASSUME NEW agent \in Agents, Suspend(agent) PROVE Course'
  BY <1>3 DEF Suspend, vars, platform, Course
<1>4. ASSUME NEW r \in Requests, NEW a \in Assertions, Post(r, a) PROVE Course'
  BY <1>4 DEF Post, Present, Moved, identities, Course, Evidence
<1>5. ASSUME NEW r \in Requests, Arrive(r) PROVE Course'
  BY <1>5 DEF Arrive, Answer, vars, identities, Course
<1>6. ASSUME NEW r \in Requests, Enter(r) PROVE Course'
  <2>1. assertion[r] \in Assertions /\ verdict[r] = None
    BY <1>6 DEF Enter, Evidence
  <2>2. /\ asked'[r] = PlatformNow
        /\ \A q \in Requests \ {r} : asked'[q] = asked[q]
    BY <1>6 DEF Enter
  <2> QED BY <1>6, <1>a, <2>1, <2>2, LookUpCourse DEF Enter, identities
<1>7. ASSUME NEW r \in Requests, Wake(r) PROVE Course'
  <2>1. /\ assertion[r] \in Assertions /\ verdict[r] = None
        /\ asked[r] \in Int /\ asked[r] <= PlatformNow
    BY <1>7 DEF Wake, Evidence, Course
  <2> QED BY <1>7, <2>1, LookUpCourse DEF Wake, identities
<1>8. ASSUME NEW r \in Requests, Check(r) PROVE Course'
  <2>1. CASE stage' = [stage EXCEPT ![r] = "checked"] /\ UNCHANGED <<verdict, record, pending>>
    BY <1>8, <2>1 DEF Check, vars, identities, Course
  <2>2. CASE Conclude(r, "not_recognized")
    BY <1>8, <2>2, ConcludeCourse DEF Check, identities
  <2> QED BY <1>8, <2>1, <2>2 DEF Check
<1>9. ASSUME NEW r \in Requests, ConsumeJti(r) PROVE Course'
  <2>1. \E what \in Verdicts : Conclude(r, what)
    BY <1>9 DEF ConsumeJti
  <2> QED BY <1>9, <2>1, ConcludeCourse DEF ConsumeJti, identities
<1>10. ASSUME NEW r \in Requests, Fail(r) PROVE Course'
  BY <1>10, ConcludeCourse DEF Fail, identities
<1>11. ASSUME NEW r \in Requests, HostedAnswers(r) PROVE Course'
  BY <1>11 DEF HostedAnswers, Vouched, VerifierAnswers, identities, platform, Course
<1>12. ASSUME NEW r \in Requests, ServiceGoesOn(r) PROVE Course'
  BY <1>12 DEF ServiceGoesOn, Validate, Consume, identities, platform, Course
<1>13. CASE UNCHANGED hostedVars
  BY <1>13 DEF hostedVars, vars, identities, platform, Course
<1> QED
  BY <1>1, <1>2, <1>3, <1>4, <1>5, <1>6, <1>7, <1>8, <1>9, <1>10, <1>11, <1>12, <1>13
     DEF HostedNext, HostedSteps

(* A step answers "not recognized" from the store or from a callback: in   *)
(* both cases an earlier verdict "verified" has run out.                   *)
LEMMA StandStep ==
  ASSUME HostedInv, Course, HostedNext, NEW r \in Requests, NEW q \in Requests,
         verdict[r] = None, verdict'[r] = "not_recognized",
         verdict[q] = "verified", assertion[q] = assertion[r]
  PROVE  PlatformNow >= assertion[r].exp
<1> USE HostedAssumption DEF HostedInv, HostedTypeOK, Verdicts
<1> DEFINE a == assertion[r]
<1>1. \/ PlatformNow >= a.exp
      \/ record[a] # None /\ pending[a] = None /\ record[a].verdict = "verified"
  BY DEF Course
<1>2. q # r
  OBVIOUS
<1>3. \/ LookUp(r, PlatformNow) \/ LookUp(r, asked[r])
      \/ stage[r] \in {"running", "checked"}
  BY DEF HostedNext, HostedSteps, Sign, Suspend, Post, Arrive, Enter, Wake, Check, ConsumeJti,
         Fail, HostedAnswers, ServiceGoesOn, platform, Answer, Conclude, LookUp
<1>4. CASE stage[r] \in {"running", "checked"}
  <2>1. pending[a] = r /\ r # None
    BY <1>4, ReplayConstants DEF Course
  <2> QED BY <1>1, <2>1
<1>5. ASSUME NEW time, LookUp(r, time) PROVE PlatformNow >= a.exp
  <2>1. verdict' = [verdict EXCEPT ![r] = record[a].verdict]
    BY <1>5 DEF LookUp, Answer
  <2>2. record[a].verdict = "not_recognized"
    BY <2>1
  <2> QED BY <1>1, <2>2
<1> QED BY <1>3, <1>4, <1>5

(* A verdict of "verified" stands until the assertion expires: an answer   *)
(* that was lost can be asked for again.                                   *)
THEOREM VerdictsStand == HostedSpec => VerdictStands
<1> DEFINE Stands ==
      \A r \in Requests :
        /\ verdict[r] = None /\ verdict'[r] = "not_recognized"
        /\ \E q \in Requests : verdict[q] = "verified" /\ assertion[q] = assertion[r]
        => PlatformNow >= assertion[r].exp
<1>1. HostedInv /\ Course /\ [HostedNext]_hostedVars => [Stands]_hostedVars
  BY StandStep
<1> QED BY HostedInvHolds, CourseInit, CourseStep, <1>1, PTL DEF HostedSpec, VerdictStands

-----------------------------------------------------------------------------
(* The claims of assertions (AssertionClaims), for all requests, lifetimes *)
(* and clocks.  Their texts are values of which only equality counts.      *)
CONSTANTS Longest, SecureUris, LoopbackUris
JWT == INSTANCE AssertionClaims

ClaimsConstants ==
  /\ Longest \in Nat /\ None \notin Int
  /\ \A claims, kid : [claims |-> claims, kid |-> kid] # None
  /\ \A service, op, resource, lifetime :
       [service |-> service, op |-> op, resource |-> resource, lifetime |-> lifetime] # None

(* A request for an assertion, as the Agent makes it.                      *)
IsClaimRequest(r) == r.ttl \in Int \union {None}
ByKey(r, t, loopback) == JWT!SignJwt(JWT!BuildClaims(r, t, loopback), r.agent, loopback)
ByPlatform(r, t, clock, maximum, loopback) ==
  JWT!SignAtPlatform([did |-> r.agent, service |-> r.service],
                     JWT!SignRequest(JWT!BuildClaims(r, t, loopback)), clock, maximum, loopback)

(* What the Agent builds are the claims it was asked for.                  *)
LEMMA BuiltIs ==
  ASSUME ClaimsConstants, NEW r, IsClaimRequest(r), NEW t \in Int, NEW loopback \in BOOLEAN,
         JWT!BuildClaims(r, t, loopback) # None
  PROVE  \E l \in 1..Longest :
           /\ JWT!BuildClaims(r, t, loopback) = JWT!Claims(r, t, l)
           /\ JWT!ValidClaims(JWT!Claims(r, t, l), loopback)
<1> DEFINE ttl == IF r.ttl = None THEN Longest ELSE r.ttl
<1>1. /\ ttl \in 1..Longest /\ JWT!ValidClaims(JWT!Claims(r, t, ttl), loopback)
      /\ JWT!BuildClaims(r, t, loopback) = JWT!Claims(r, t, ttl)
  BY DEF JWT!BuildClaims
<1> QED BY <1>1

(* Claims are valid by what was asked for, at whatever time.               *)
Askable(r, loopback) ==
  /\ r.op \in JWT!Operations /\ JWT!ResourceFits(r.op, r.resource)
  /\ r.resource # None => JWT!AllowedUri(r.resource, loopback)

LEMMA ValidByRequest ==
  ASSUME ClaimsConstants, NEW r, NEW t \in Int, NEW l \in Int, NEW loopback \in BOOLEAN
  PROVE  JWT!ValidClaims(JWT!Claims(r, t, l), loopback) <=> Askable(r, loopback) /\ l \in 1..Longest
BY DEF ClaimsConstants, JWT!ValidClaims, JWT!Claims, Askable

(* An Agent's own key signs whatever claims it can build, a Platform those *)
(* whose lifetime its maximum allows, whatever its clock says.             *)
THEOREM BuiltIsSigned ==
  ASSUME ClaimsConstants, NEW r, IsClaimRequest(r), NEW t \in Int, NEW clock \in Int, NEW maximum \in Nat,
         NEW loopback \in BOOLEAN, JWT!BuildClaims(r, t, loopback) # None
  PROVE  LET built == JWT!BuildClaims(r, t, loopback) IN
         /\ ByKey(r, t, loopback) = [claims |-> built, kid |-> r.agent]
         /\ ByPlatform(r, t, clock, maximum, loopback) =
              IF built.exp - built.iat <= maximum
              THEN [claims |-> JWT!Claims(r, clock, built.exp - built.iat), kid |-> r.agent] ELSE None
<1>1. PICK l \in 1..Longest : /\ JWT!BuildClaims(r, t, loopback) = JWT!Claims(r, t, l)
                              /\ JWT!ValidClaims(JWT!Claims(r, t, l), loopback)
  BY BuiltIs
<1>2. l \in Int /\ l <= Longest /\ Longest \in Int
  BY DEF ClaimsConstants
<1>3. Askable(r, loopback)
  BY <1>1, <1>2, ValidByRequest
<1>4. JWT!Claims(r, t, l).exp - JWT!Claims(r, t, l).iat = l
  BY <1>2 DEF JWT!Claims
<1>5. ByKey(r, t, loopback) = [claims |-> JWT!Claims(r, t, l), kid |-> r.agent]
  BY <1>1 DEF ByKey, JWT!SignJwt, JWT!KidFits, JWT!Claims
<1> DEFINE request == [service |-> r.service, op |-> r.op, resource |-> r.resource, lifetime |-> l]
           identity == [did |-> r.agent, service |-> r.service]
<1>6. JWT!SignRequest(JWT!Claims(r, t, l)) = request
  BY <1>2, <1>3, <1>4 DEF JWT!SignRequest, JWT!LifetimeFits, JWT!Claims, Askable
<1>7. JWT!PlatformClaims(identity, request, clock) = JWT!Claims(r, clock, l)
  BY DEF JWT!PlatformClaims, JWT!Claims
<1>8. JWT!ValidClaims(JWT!Claims(r, clock, l), loopback)
  BY <1>2, <1>3, ValidByRequest
<1>9. JWT!SignJwt(JWT!Claims(r, clock, l), r.agent, loopback) = [claims |-> JWT!Claims(r, clock, l), kid |-> r.agent]
  BY <1>8 DEF JWT!SignJwt, JWT!KidFits, JWT!Claims
<1>10. JWT!SignAtPlatform(identity, request, clock, maximum, loopback) =
         IF l <= maximum THEN [claims |-> JWT!Claims(r, clock, l), kid |-> r.agent] ELSE None
  BY <1>2, <1>3, <1>7, <1>9 DEF JWT!SignAtPlatform, JWT!LifetimeFits, Askable
<1> QED BY <1>1, <1>4, <1>5, <1>6, <1>10 DEF ByPlatform

(* What the Service's own check takes, of claims made for a request.       *)
Meant(r, target) == r.service = target.service /\ r.op = target.op /\ r.resource = target.resource
InTime(iat, l, time, before, after) == iat <= time + before /\ time < iat + l + after
IsConfig(config) == config.skew \in Nat /\ config.maxTtl \in Nat /\ config.loopback \in BOOLEAN

LEMMA TakenWhereMeant ==
  ASSUME ClaimsConstants, NEW r, NEW target, NEW config, IsConfig(config),
         NEW iat \in Int, NEW l \in 1..Longest, NEW clock \in Int
  PROVE  JWT!AcceptClaims(JWT!Claims(r, iat, l), target, config, clock) <=>
           /\ Askable(r, config.loopback) /\ Meant(r, target) /\ l <= config.maxTtl
           /\ InTime(iat, l, clock, config.skew, config.skew)
<1> DEFINE c == JWT!Claims(r, iat, l)
<1>1. l \in Int /\ l >= 1
  BY DEF ClaimsConstants
<1>2. /\ c.iss = r.agent /\ c.sub = r.agent /\ c.aud = r.service /\ c.op = r.op /\ c.resource = r.resource
      /\ c.iat = iat /\ c.exp = iat + l
  BY DEF JWT!Claims
<1>3. JWT!ValidClaims(c, config.loopback) <=> Askable(r, config.loopback)
  BY <1>1, ValidByRequest DEF IsConfig
<1> HIDE DEF c
<1>4. config.skew \in Int /\ config.maxTtl \in Int
  BY DEF IsConfig
<1>5. c.exp > c.iat /\ c.exp - c.iat = l
  BY <1>1, <1>2
<1>6. c.iat <= clock + config.skew /\ c.exp > clock - config.skew <=> InTime(iat, l, clock, config.skew, config.skew)
  BY <1>1, <1>2, <1>4 DEF InTime
<1>7. JWT!AcceptClaims(c, target, config, clock) <=>
        /\ JWT!ValidClaims(c, config.loopback) /\ Meant(r, target) /\ l <= config.maxTtl
        /\ c.iat <= clock + config.skew /\ c.exp > clock - config.skew
  BY <1>2, <1>5 DEF JWT!AcceptClaims, Meant
<1> QED BY <1>3, <1>6, <1>7 DEF c

(* What is signed is accepted exactly at the Service, operation and        *)
(* resource it was asked for, if the resource is one that each of them     *)
(* allows, while each of two clocks is in its window: the verifier's own,  *)
(* and that of the Service.                                                *)
THEOREM AcceptedWhereMeant ==
  ASSUME ClaimsConstants, NEW r, NEW target, NEW config, IsConfig(config),
         NEW iat \in Int, NEW l \in 1..Longest, NEW clock \in Int, NEW own \in Int, NEW tolerance \in Nat,
         NEW futureIat \in Nat
  PROVE  LET jwt == [claims |-> JWT!Claims(r, iat, l), kid |-> r.agent]
             taken == JWT!AcceptClaims(jwt.claims, target, config, clock)
             fits == Meant(r, target) /\ l <= config.maxTtl /\ InTime(iat, l, clock, config.skew, config.skew) IN
         /\ JWT!VerifyWithKey(jwt, target, own, tolerance) /\ taken <=>
              Askable(r, FALSE) /\ fits /\ own < iat + l + tolerance
         /\ JWT!VerifyByDidWeb(jwt, target, own, config.loopback) /\ taken <=>
              Askable(r, config.loopback) /\ fits /\ own < iat + l
         /\ JWT!VerifyAtPlatform(jwt, target, own, futureIat) /\ taken <=>
              Askable(r, FALSE) /\ fits /\ InTime(iat, l, own, futureIat, 0)
<1> DEFINE c == JWT!Claims(r, iat, l)
           jwt == [claims |-> c, kid |-> r.agent]
           taken == JWT!AcceptClaims(c, target, config, clock)
           fits == Meant(r, target) /\ l <= config.maxTtl /\ InTime(iat, l, clock, config.skew, config.skew)
<1>0. l \in Int
  OBVIOUS
<1>1. /\ c.iss = r.agent /\ c.sub = r.agent /\ c.aud = r.service /\ c.op = r.op /\ c.resource = r.resource
      /\ c.iat = iat /\ c.exp = iat + l
  BY DEF JWT!Claims
<1>2. taken <=> Askable(r, config.loopback) /\ fits
  BY TakenWhereMeant
<1>3. \A loopback \in BOOLEAN : JWT!ValidClaims(c, loopback) <=> Askable(r, loopback)
  BY <1>0, ValidByRequest
<1>4. Askable(r, FALSE) => Askable(r, config.loopback)
  BY DEF Askable, JWT!AllowedUri
<1> HIDE DEF c, taken, fits
<1>5. \A audience : \A loopback \in BOOLEAN, grace \in Nat :
        JWT!VerifyJwt(jwt, audience, own, grace, loopback) <=>
          r.service = audience /\ own < iat + l + grace /\ Askable(r, loopback)
  BY <1>0, <1>1, <1>3 DEF JWT!VerifyJwt, JWT!KidFits
<1>6. fits => r.service = target.service /\ r.op = target.op /\ r.resource = target.resource
  BY DEF fits, Meant
<1>7. JWT!VerifyWithKey(jwt, target, own, tolerance) /\ taken <=>
        Askable(r, FALSE) /\ fits /\ own < iat + l + tolerance
  BY <1>2, <1>4, <1>5, <1>6 DEF JWT!VerifyWithKey
<1>8. JWT!VerifyByDidWeb(jwt, target, own, config.loopback) /\ taken <=>
        Askable(r, config.loopback) /\ fits /\ own < iat + l
  <2>1. own < iat + l + 0 <=> own < iat + l
    BY <1>0
  <2> QED BY <1>2, <1>5, <1>6, <2>1 DEF JWT!VerifyByDidWeb, IsConfig
<1>9. JWT!VerifyAtPlatform(jwt, target, own, futureIat) /\ taken <=>
        Askable(r, FALSE) /\ fits /\ InTime(iat, l, own, futureIat, 0)
  <2>1. JWT!VerifyAtPlatform(jwt, target, own, futureIat) <=>
          /\ Askable(r, FALSE) /\ r.service = target.service /\ own < iat + l + 0 /\ iat <= own + futureIat
          /\ r.op = target.op /\ r.resource = target.resource
    BY <1>1, <1>3, <1>5 DEF JWT!VerifyAtPlatform
  <2> QED BY <1>2, <1>4, <1>6, <2>1 DEF InTime
<1> QED BY <1>7, <1>8, <1>9 DEF c, taken, fits

(* ClientAssertionReplay knows of an assertion its times and whether the   *)
(* rest fits; that is all that its checks of the clock depend on, and so   *)
(* what is proved of replays holds for these claims.                       *)
Abstracts(a, c, target, loopback) ==
  /\ a.iat = c.iat /\ a.exp = c.exp /\ a.iat \in Int /\ a.exp \in Int
  /\ a.fits = (/\ JWT!ValidClaims(c, loopback) /\ c.aud = target.service
               /\ c.op = target.op /\ c.resource = target.resource)

THEOREM ReplayChecksClaims ==
  ASSUME NEW a, NEW c, NEW target, NEW loopback \in BOOLEAN, Abstracts(a, c, target, loopback), NEW t \in Int
  PROVE  /\ ClaimsHold(a, t) <=>
              JWT!AcceptClaims(c, target, [skew |-> Skew, maxTtl |-> MaxTtl, loopback |-> loopback], t)
         /\ \A kid, audience : \A own \in BOOLEAN :
              JWT!VerifyJwt([claims |-> c, kid |-> kid], audience, t, Tolerance, own) => a.exp > t - Tolerance
<1>1. JWT!ValidClaims(c, loopback) => c.iss = c.sub
  BY DEF JWT!ValidClaims
<1>2. ClaimsHold(a, t) <=>
        JWT!AcceptClaims(c, target, [skew |-> Skew, maxTtl |-> MaxTtl, loopback |-> loopback], t)
  BY <1>1 DEF Abstracts, ClaimsHold, JWT!AcceptClaims
<1>3. \A kid, audience : \A own \in BOOLEAN :
        JWT!VerifyJwt([claims |-> c, kid |-> kid], audience, t, Tolerance, own) => a.exp > t - Tolerance
  BY DEF Abstracts, JWT!VerifyJwt
<1> QED BY <1>2, <1>3
=============================================================================

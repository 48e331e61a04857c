---------------------- MODULE PlatformIdentities_proofs ----------------------
(***************************************************************************)
(* Proofs about PlatformIdentities, for every number of calls, keys,       *)
(* Services and identities, every policy, and every retention, lifetime    *)
(* and bound on the clock.  The last two parts are about modules of        *)
(* operators: DidWeb (the DIDs a Platform makes up are of one identity     *)
(* each, and their documents are where Services look for them), and        *)
(* PlatformCommands (a request to sign is read as the Agent meant it).     *)
(***************************************************************************)
EXTENDS PlatformIdentities, SequenceTheorems, TLAPS

Running == {"running", "found none", "key created", "checked"}

(* What a call is, where it is.                                            *)
CourseOf(c) ==
  /\ stage[c] # "idle" => request[c] \in Requests
  /\ stage[c] = "idle" => fresh[c] = None /\ seen[c] = None
  /\ stage[c] \in Running \union {"waiting"} => request[c].op # "update"
  /\ stage[c] \in Running \union {"waiting", "authorized"} /\ request[c].op # "update" =>
       key[c] \in Keys
  /\ stage[c] \in {"found none", "key created"} =>
       request[c].op = "provision" /\ fresh[c] \in Ids
  /\ stage[c] = "checked" => request[c].op = "verify" /\ seen[c].status = "active"
  /\ stage[c] \in Running \union {"waiting", "authorized", "updating"}
       /\ request[c].op # "provision" => seen[c] # None
  /\ stage[c] \in {"authorized", "updating"} /\ request[c].op = "update" =>
       identity[request[c].id] # None
  /\ stage[c] = "updating" =>
       /\ request[c].op = "update"
       /\ <<seen[c].status, request[c].status>> \in MayTransition
Course == \A c \in Calls : CourseOf(c)

(* The pending map names exactly the call that runs under a key.           *)
PendingRuns ==
  /\ \A k \in Keys : pending[k] # None => stage[pending[k]] \in Running /\ key[pending[k]] = k
  /\ \A c \in Calls : stage[c] \in Running => pending[key[c]] = c

(* The record of a key is that of the latest call that ran under it, and a *)
(* call that runs came when it had expired.                                *)
RecordedBy(d, k) ==
  /\ Ran(d) /\ key[d] = k
  /\ request[d] = record[k].request /\ answer[d].body = record[k].body
  /\ kept[d] = record[k].expires
LatestIsKept ==
  /\ \A c \in Calls : asked[c] <= now
  /\ \A k \in Keys : record[k] # None =>
       record[k].expires <= now + Retention /\ \E d \in Calls : RecordedBy(d, k)
  /\ \A d \in Calls : Ran(d) =>
       key[d] \in Keys /\ record[key[d]] # None /\ kept[d] <= record[key[d]].expires
  /\ \A c, d \in Calls :
       stage[c] \in Running /\ Ran(d) /\ key[d] = key[c] => asked[c] >= kept[d]

(* An identity is created once, by the one call its id was generated for,  *)
(* with a key, and beside none of the same Service that this call saw.     *)
CreatedOnce ==
  /\ \A i \in Ids : identity[i] # None => i \in keyed
  /\ \A c, d \in Calls : c # d /\ fresh[c] = fresh[d] => fresh[c] = None
  /\ \A c \in Calls :
       /\ stage[c] \in {"found none", "key created"} => identity[fresh[c]] = None
       /\ stage[c] = "key created" => fresh[c] \in keyed
       /\ fresh[c] # None =>
            /\ stage[c] \in {"found none", "key created", "done"} /\ request[c] \in Requests
            /\ identity[fresh[c]] # None => identity[fresh[c]].service = request[c].service
            /\ \A i \in known[c] :
                 identity[i] # None /\ identity[i].service # request[c].service
IsOf(body, req) ==
  body.is = "identity" =>
    body.id \in Ids /\ identity[body.id] # None /\ identity[body.id].service = req.service
AnswersAreStored ==
  /\ \A k \in Keys : record[k] # None => IsOf(record[k].body, record[k].request)
  /\ \A c \in Calls :
       stage[c] = "done" /\ answer[c].state \in {"created", "replayed"} =>
         IsOf(answer[c].body, request[c])

(* A call that was authorized on an active identity has seen it active.    *)
ActiveWasSeen ==
  \A c \in Calls :
    stage[c] # "idle" /\ request[c].op \in {"sign", "verify"} /\ seen[c] # None
      /\ seen[c].status = "active" => activeIn[c]

(* What was consumed in time is remembered until its assertion expires.    *)
ConsumedIsRemembered ==
  \A c \in Calls : consumed[c] # None =>
    LET a == request[c].assertion IN
    /\ stage[c] = "done" /\ a \in Assertions /\ consumed[c] <= now
    /\ now < a.exp => replay[<<a.id, a.jti>>] # None /\ replay[<<a.id, a.jti>>] >= a.exp

IInv ==
  /\ TypeOK /\ Course /\ PendingRuns /\ LatestIsKept /\ CreatedOnce /\ AnswersAreStored
  /\ ActiveWasSeen /\ ConsumedIsRemembered
  /\ RunsOncePerRetention /\ SignedWhileActive /\ VerifiedTwiceOnlyLate

-----------------------------------------------------------------------------
(* Helpers: what the store's callback leaves behind, and what looking up   *)
(* does.                                                                   *)
LEMMA FinishTypes ==
  ASSUME TypeOK, NEW c \in Calls, NEW body \in Bodies, Finish(c, body),
         key[c] \in Keys, request[c] \in Requests
  PROVE  /\ record' \in [Keys -> Records \union {None}]
         /\ pending' \in [Keys -> Calls \union {None}]
         /\ stage' \in [Calls -> Stages] /\ answer' \in [Calls -> Answers \union {None}]
         /\ kept' \in [Calls -> Nat]
<1>1. now + Retention \in Nat
  BY PlatformAssumption DEF TypeOK
<1>2. [request |-> request[c], body |-> body, expires |-> now + Retention] \in Records
  BY <1>1 DEF Records
<1>3. [state |-> "created", body |-> body] \in Answers
  BY DEF Answers
<1> QED BY <1>1, <1>2, <1>3 DEF Finish, Done, Go, Reply, TypeOK, Stages

LEMMA LookUpTypes ==
  ASSUME TypeOK, NEW c \in Calls, NEW time, LookUp(c, time), key[c] \in Keys
  PROVE  /\ pending' \in [Keys -> Calls \union {None}]
         /\ stage' \in [Calls -> Stages] /\ answer' \in [Calls -> Answers \union {None}]
<1>1. CASE pending[key[c]] # None /\ Go(c, "waiting") /\ UNCHANGED <<answer, pending>>
  BY <1>1 DEF Go, TypeOK, Stages
<1>2. CASE /\ Unexpired(record[key[c]], time)
           /\ IF record[key[c]].request = request[c]
                THEN Done(c, Reply("replayed", record[key[c]].body))
                ELSE Done(c, Reply("conflict", None))
           /\ UNCHANGED pending
  <2>1. record[key[c]].body \in Bodies
    BY <1>2 DEF TypeOK, Unexpired, Records
  <2>2. Reply("replayed", record[key[c]].body) \in Answers /\ Reply("conflict", None) \in Answers
    BY <2>1 DEF Reply, Answers
  <2> QED BY <1>2, <2>2 DEF Done, Go, TypeOK, Stages
<1>3. CASE Go(c, "running") /\ pending' = [pending EXCEPT ![key[c]] = c] /\ UNCHANGED answer
  BY <1>3 DEF Go, TypeOK, Stages
<1> QED BY <1>1, <1>2, <1>3 DEF LookUp

LEMMA ObserveTypes == TypeOK /\ Observe => activeIn' \in [Calls -> BOOLEAN]
  BY DEF TypeOK, Observe
(* A request that arrives is one of the requests.                          *)
LEMMA RequestKinds ==
  ASSUME TypeOK
  PROVE  /\ \A s \in Services : [op |-> "provision", service |-> s] \in Requests
         /\ \A i \in Ids, j \in Jtis : [op |-> "sign", id |-> i, jti |-> j] \in Requests
         /\ \A a \in signed : [op |-> "verify", assertion |-> a] \in Requests
         /\ Updates \subseteq Requests
  BY DEF TypeOK, Requests
LEMMA Targets ==
  ASSUME NEW req \in Requests, req.op # "provision"
  PROVE  Target(req) \in Ids
  BY DEF Requests, Target, Assertions, Updates
LEMMA Refusals ==
  /\ Reply("refused", Plain("not_recognized")) \in Answers
  /\ Reply("refused", Plain("identity_unavailable")) \in Answers
  /\ Reply("threw", None) \in Answers /\ Reply("updated", None) \in Answers
  /\ {Plain("not_recognized"), Plain("invalid_request"), Plain("identity_unavailable"),
      Plain("verified")} \subseteq Bodies
  BY DEF Reply, Plain, Answers, Bodies

(* One step of a call: its name says which.                                *)
Arrivals(c) ==
  \E k \in Keys, req \in Requests : req.op # "update" /\ Arrive(c, k, req)
Step(c) ==
  \/ Arrivals(c) \/ \E req \in Updates : UpdateArrive(c, req)
  \/ Enter(c) \/ Wake(c) \/ Throw(c)
  \/ ProvisionUnresolved(c) \/ ProvisionFind(c) \/ ProvisionKey(c) \/ ProvisionCreate(c)
  \/ SignBody(c) \/ VerifyCheck(c) \/ VerifyConsume(c) \/ VerifyFail(c)
  \/ UpdateDecide(c) \/ UpdateWrite(c)
LEMMA Steps ==
  ASSUME TypeOK, Next
  PROVE  Tick \/ \E c \in Calls : Step(c)
<1> USE RequestKinds
<1>1. ASSUME NEW c \in Calls, NEW k \in Keys, NEW s \in Services,
             Arrive(c, k, [op |-> "provision", service |-> s])
      PROVE Arrivals(c)
  BY <1>1 DEF Arrivals
<1>2. ASSUME NEW c \in Calls, NEW k \in Keys, NEW i \in Ids, NEW j \in Jtis,
             Arrive(c, k, [op |-> "sign", id |-> i, jti |-> j])
      PROVE Arrivals(c)
  BY <1>2 DEF Arrivals
<1>3. ASSUME NEW c \in Calls, NEW k \in Keys, NEW a \in signed,
             Arrive(c, k, [op |-> "verify", assertion |-> a])
      PROVE Arrivals(c)
  BY <1>3 DEF Arrivals
<1> QED BY <1>1, <1>2, <1>3 DEF Next, CallSteps, Step

LEMMA TypeStep == TypeOK /\ Course /\ [Next]_vars => TypeOK'
<1> SUFFICES ASSUME TypeOK, Course, [Next]_vars PROVE TypeOK'
  OBVIOUS
<1>0. CASE UNCHANGED vars
  BY <1>0 DEF TypeOK, vars, stores, idempotency, calls, locals, history
<1> SUFFICES ASSUME Next PROVE TypeOK'
  BY <1>0
<1> USE ObserveTypes DEF stores, idempotency, calls, locals, history, Go, Done
<1>a. activeIn' \in [Calls -> BOOLEAN]
  BY DEF Next
<1>1. CASE Tick
  BY <1>1, <1>a DEF TypeOK, Tick
<1>2. ASSUME NEW c \in Calls, Arrivals(c) PROVE TypeOK'
  <2>1. PICK k \in Keys, req \in Requests : req.op # "update" /\ Arrive(c, k, req)
    BY <1>2 DEF Arrivals
  <2>2. req.op # "provision" => Target(req) \in Ids
    BY Targets
  <2> QED BY <2>1, <2>2, <1>a, Refusals DEF TypeOK, Arrive, Stages
<1>3. ASSUME NEW c \in Calls, NEW req \in Updates, UpdateArrive(c, req) PROVE TypeOK'
  <2>1. req \in Requests /\ req.id \in Ids
    BY RequestKinds DEF Updates
  <2> QED BY <1>3, <2>1, <1>a, Refusals DEF TypeOK, UpdateArrive, Stages
<1>4. ASSUME NEW c \in Calls, Enter(c) PROVE TypeOK'
  <2>1. key[c] \in Keys
    BY <1>4 DEF Enter, Course, CourseOf, Running
  <2> QED BY <1>4, <2>1, <1>a, LookUpTypes DEF TypeOK, Enter
<1>5. ASSUME NEW c \in Calls, Wake(c) PROVE TypeOK'
  <2>1. key[c] \in Keys
    BY <1>5 DEF Wake, Course, CourseOf, Running
  <2> QED BY <1>5, <2>1, <1>a, LookUpTypes DEF TypeOK, Wake
<1>6. ASSUME NEW c \in Calls, Throw(c) PROVE TypeOK'
  BY <1>6, <1>a, Refusals DEF TypeOK, Throw, Stages
<1> DEFINE Runs(c) == key[c] \in Keys /\ request[c] \in Requests
<1>b. \A c \in Calls : stage[c] \in Running => Runs(c)
  BY DEF Course, CourseOf, Running
<1>7. ASSUME NEW c \in Calls, ProvisionUnresolved(c) PROVE TypeOK'
  <2>1. Runs(c) /\ Finish(c, Plain("invalid_request"))
    BY <1>7, <1>b DEF ProvisionUnresolved, Running
  <2> QED BY <1>7, <2>1, <1>a, FinishTypes, Refusals DEF TypeOK, ProvisionUnresolved
<1>8. ASSUME NEW c \in Calls, ProvisionFind(c) PROVE TypeOK'
  <2>1. Runs(c)
    BY <1>8, <1>b DEF ProvisionFind, Running
  <2>2. ASSUME NEW i \in Ids, Finish(c, [is |-> "identity", id |-> i]), UNCHANGED fresh
        PROVE TypeOK'
    <3>1. [is |-> "identity", id |-> i] \in Bodies
      BY DEF Bodies
    <3> QED BY <1>8, <2>1, <2>2, <3>1, <1>a, FinishTypes DEF TypeOK, ProvisionFind
  <2>3. ASSUME NEW i \in Ids, fresh' = [fresh EXCEPT ![c] = i], Go(c, "found none"),
               UNCHANGED <<idempotency, answer, kept>>
        PROVE TypeOK'
    BY <1>8, <2>3, <1>a DEF TypeOK, ProvisionFind, Stages
  <2> QED BY <1>8, <2>2, <2>3 DEF ProvisionFind, Of
<1>9. ASSUME NEW c \in Calls, ProvisionKey(c) PROVE TypeOK'
  BY <1>9, <1>a DEF TypeOK, ProvisionKey, Stages, Course, CourseOf
<1>10. ASSUME NEW c \in Calls, ProvisionCreate(c) PROVE TypeOK'
  <2>1. Runs(c) /\ fresh[c] \in Ids /\ request[c].op = "provision"
    BY <1>10, <1>b DEF ProvisionCreate, Running, Course, CourseOf
  <2>2. [is |-> "identity", id |-> fresh[c]] \in Bodies
    BY <2>1 DEF Bodies
  <2>3. [service |-> request[c].service, status |-> "active"] \in Identities
    BY <2>1 DEF Requests, Identities, Statuses, Updates
  <2> QED BY <1>10, <2>1, <2>2, <2>3, <1>a, FinishTypes DEF TypeOK, ProvisionCreate
<1>11. ASSUME NEW c \in Calls, SignBody(c) PROVE TypeOK'
  <2> DEFINE made == [id |-> request[c].id, jti |-> request[c].jti, exp |-> now + Lifetime]
  <2>1. Runs(c) /\ request[c].op = "sign"
    BY <1>11, <1>b DEF SignBody, Running
  <2>2. made \in Assertions
    BY <2>1, PlatformAssumption DEF Requests, Assertions, Updates, TypeOK
  <2>3. [is |-> "assertion", assertion |-> made] \in Bodies
    BY <2>2 DEF Bodies
  <2>4. /\ \E body \in Bodies : Finish(c, body)
        /\ signed' \subseteq Assertions
    BY <1>11, <2>2, <2>3, Refusals DEF SignBody, TypeOK
  <2> QED BY <1>11, <2>1, <2>4, <1>a, FinishTypes DEF TypeOK, SignBody
<1>12. ASSUME NEW c \in Calls, VerifyCheck(c) PROVE TypeOK'
  <2>1. Runs(c)
    BY <1>12, <1>b DEF VerifyCheck, Running
  <2>2. CASE Go(c, "checked") /\ UNCHANGED <<idempotency, answer, kept>>
    BY <1>12, <2>2, <1>a DEF TypeOK, VerifyCheck, Stages
  <2>3. CASE Finish(c, Plain("not_recognized"))
    BY <1>12, <2>1, <2>3, <1>a, FinishTypes, Refusals DEF TypeOK, VerifyCheck
  <2> QED BY <1>12, <2>2, <2>3 DEF VerifyCheck
<1>13. ASSUME NEW c \in Calls, VerifyConsume(c) PROVE TypeOK'
  <2>1. Runs(c) /\ request[c].op = "verify"
    BY <1>13, <1>b DEF VerifyConsume, Running, Course, CourseOf
  <2>2. request[c].assertion \in Assertions
    BY <2>1 DEF Requests, Updates
  <2>3. /\ \E body \in Bodies : Finish(c, body)
        /\ replay' \in [Ids \X Jtis -> Nat \union {None}]
        /\ consumed' \in [Calls -> Nat \union {None}]
    BY <1>13, <2>2, Refusals DEF VerifyConsume, TypeOK, Assertions
  <2> QED BY <1>13, <2>1, <2>3, <1>a, FinishTypes DEF TypeOK, VerifyConsume
<1>14. ASSUME NEW c \in Calls, VerifyFail(c) PROVE TypeOK'
  <2>1. Runs(c) /\ Finish(c, Plain("not_recognized"))
    BY <1>14, <1>b DEF VerifyFail, Running
  <2> QED BY <1>14, <2>1, <1>a, FinishTypes, Refusals DEF TypeOK, VerifyFail
<1>15. ASSUME NEW c \in Calls, UpdateDecide(c) PROVE TypeOK'
  BY <1>15, <1>a, Refusals DEF TypeOK, UpdateDecide, Stages
<1>16. ASSUME NEW c \in Calls, UpdateWrite(c) PROVE TypeOK'
  <2>1. /\ request[c].id \in Ids /\ request[c].status \in Statuses
        /\ identity[request[c].id] \in Identities
    BY <1>16 DEF UpdateWrite, Course, CourseOf, Requests, Updates, TypeOK
  <2>2. [identity[request[c].id] EXCEPT !.status = request[c].status] \in Identities
    BY <2>1 DEF Identities
  <2>3. identity' \in [Ids -> Identities \union {None}]
    BY <1>16, <2>2 DEF UpdateWrite, TypeOK
  <2> QED BY <1>16, <2>3, <1>a, Refusals DEF TypeOK, UpdateWrite, Stages
<1> QED BY <1>1, <1>2, <1>3, <1>4, <1>5, <1>6, <1>7, <1>8, <1>9, <1>10, <1>11, <1>12, <1>13,
           <1>14, <1>15, <1>16, Steps DEF Step
-----------------------------------------------------------------------------
(* A step of one call leaves every other call alone, and no call that is   *)
(* done takes one.                                                         *)
Same(d) ==
  /\ stage'[d] = stage[d] /\ request'[d] = request[d] /\ key'[d] = key[d]
  /\ answer'[d] = answer[d] /\ seen'[d] = seen[d] /\ asked'[d] = asked[d]
  /\ fresh'[d] = fresh[d] /\ known'[d] = known[d] /\ kept'[d] = kept[d]
  /\ consumed'[d] = consumed[d]
LEMMA Others ==
  ASSUME TypeOK, NEW c \in Calls, Step(c)
  PROVE  stage[c] # "done" /\ now' = now /\ \A d \in Calls \ {c} : Same(d)
<1> USE DEF TypeOK, Same, stores, idempotency, calls, locals, history, Go, Done
<1>1. CASE Arrivals(c)
  <2>1. PICK k \in Keys, req \in Requests : Arrive(c, k, req)
    BY <1>1 DEF Arrivals
  <2> QED BY <2>1 DEF Arrive
<1>2. CASE \E req \in Updates : UpdateArrive(c, req)
  BY <1>2 DEF UpdateArrive
<1>3. CASE Enter(c)
  BY <1>3 DEF Enter, LookUp
<1>4. CASE Wake(c)
  BY <1>4 DEF Wake, LookUp
<1>5. CASE Throw(c) \/ UpdateDecide(c) \/ UpdateWrite(c) \/ ProvisionKey(c)
  BY <1>5 DEF Throw, UpdateDecide, UpdateWrite, ProvisionKey
<1>6. CASE ProvisionUnresolved(c) \/ ProvisionCreate(c) \/ VerifyCheck(c) \/ VerifyFail(c)
  BY <1>6 DEF ProvisionUnresolved, ProvisionCreate, VerifyCheck, VerifyFail, Finish
<1>7. CASE ProvisionFind(c)
  BY <1>7 DEF ProvisionFind, Finish
<1>8. CASE SignBody(c)
  BY <1>8 DEF SignBody, Finish
<1>9. CASE VerifyConsume(c)
  BY <1>9 DEF VerifyConsume, Finish
<1> QED BY <1>1, <1>2, <1>3, <1>4, <1>5, <1>6, <1>7, <1>8, <1>9 DEF Step

(* To the idempotency store a step is one of five: a call arrives, goes on *)
(* without it, asks it, has it record an answer, or gives up under it.     *)
Comes(c) ==
  /\ stage[c] = "idle" /\ stage'[c] \in {"authorized", "done"} /\ UNCHANGED asked
  /\ stage'[c] = "done" => answer'[c].state = "refused"
  /\ UNCHANGED <<record, pending, kept>>
GoesOn(c) ==
  /\ stage[c] # "idle" /\ stage'[c] # "idle"
  /\ stage[c] \in Running <=> stage'[c] \in Running
  /\ stage'[c] = "done" => answer'[c].state \notin {"created", "replayed"}
  /\ UNCHANGED <<record, pending, kept, request, key, asked>>
Asks(c) ==
  /\ stage[c] \in {"authorized", "waiting"} /\ request[c].op # "update"
  /\ asked'[c] \in Nat /\ asked'[c] <= now /\ LookUp(c, asked'[c])
  /\ UNCHANGED <<record, kept, request, key>>
HasRecorded(c) ==
  /\ stage[c] \in Running /\ \E body \in Bodies : Finish(c, body)
  /\ UNCHANGED <<request, key, asked>>
GivesUp(c) ==
  /\ stage[c] \in Running /\ Done(c, Reply("threw", None))
  /\ pending' = [pending EXCEPT ![key[c]] = None]
  /\ UNCHANGED <<record, kept, request, key, asked>>
LEMMA Effects ==
  ASSUME TypeOK, Course, \A d \in Calls : asked[d] <= now, NEW c \in Calls, Step(c)
  PROVE  Comes(c) \/ GoesOn(c) \/ Asks(c) \/ HasRecorded(c) \/ GivesUp(c)
<1> USE DEF stores, idempotency, calls, locals, history
<1>1. CASE Arrivals(c)
  <2>1. PICK k \in Keys, req \in Requests : Arrive(c, k, req)
    BY <1>1 DEF Arrivals
  <2> QED BY <2>1 DEF Arrive, Comes, TypeOK, Go, Done, Reply
<1>2. CASE \E req \in Updates : UpdateArrive(c, req)
  BY <1>2 DEF UpdateArrive, Comes, TypeOK, Go, Done, Reply
<1>3. CASE Enter(c)
  BY <1>3 DEF Enter, Asks, TypeOK
<1>4. CASE Wake(c)
  BY <1>4 DEF Wake, Asks, TypeOK, Course, CourseOf
<1>5. CASE Throw(c)
  BY <1>5 DEF Throw, GivesUp, Running
<1>6. CASE UpdateDecide(c) \/ UpdateWrite(c) \/ ProvisionKey(c)
  <2>1. CASE UpdateDecide(c)
    <3>1. CASE Go(c, "updating") /\ UNCHANGED answer
      BY <2>1, <3>1 DEF UpdateDecide, GoesOn, Running, TypeOK, Go
    <3>2. CASE Done(c, Reply("refused", Plain("identity_unavailable")))
      BY <2>1, <3>2 DEF UpdateDecide, GoesOn, Running, TypeOK, Go, Done, Reply
    <3> QED BY <2>1, <3>1, <3>2 DEF UpdateDecide
  <2>2. CASE UpdateWrite(c)
    BY <2>2 DEF UpdateWrite, GoesOn, Running, TypeOK, Go, Done, Reply
  <2>3. CASE ProvisionKey(c)
    BY <2>3 DEF ProvisionKey, GoesOn, Running, TypeOK, Go
  <2> QED BY <1>6, <2>1, <2>2, <2>3
<1>7. CASE ProvisionUnresolved(c) \/ VerifyFail(c)
  BY <1>7, Refusals DEF ProvisionUnresolved, VerifyFail, HasRecorded, Running
<1>8. CASE ProvisionFind(c)
  <2>1. ASSUME NEW i \in Ids PROVE [is |-> "identity", id |-> i] \in Bodies
    BY DEF Bodies
  <2>2. CASE \E i \in Ids : Finish(c, [is |-> "identity", id |-> i])
    BY <1>8, <2>1, <2>2 DEF ProvisionFind, HasRecorded, Running
  <2>3. CASE Go(c, "found none") /\ UNCHANGED <<idempotency, answer, kept>>
    BY <1>8, <2>3 DEF ProvisionFind, GoesOn, Running, TypeOK, Go
  <2> QED BY <1>8, <2>2, <2>3 DEF ProvisionFind, Of
<1>9. CASE ProvisionCreate(c)
  <2>1. [is |-> "identity", id |-> fresh[c]] \in Bodies
    BY <1>9 DEF ProvisionCreate, Bodies, Course, CourseOf
  <2> QED BY <1>9, <2>1 DEF ProvisionCreate, HasRecorded, Running
<1>10. CASE SignBody(c)
  <2> DEFINE made == [id |-> request[c].id, jti |-> request[c].jti, exp |-> now + Lifetime]
  <2>0. request[c] \in Requests /\ request[c].op = "sign"
    BY <1>10 DEF SignBody, Course, CourseOf
  <2>1. made \in Assertions
    BY <2>0, PlatformAssumption DEF Requests, Assertions, Updates, TypeOK
  <2>2. [is |-> "assertion", assertion |-> made] \in Bodies
    BY <2>1 DEF Bodies
  <2> QED BY <1>10, <2>2, Refusals DEF SignBody, HasRecorded, Running
<1>11. CASE VerifyCheck(c)
  <2>1. CASE Go(c, "checked") /\ UNCHANGED <<idempotency, answer, kept>>
    BY <1>11, <2>1 DEF VerifyCheck, GoesOn, Running, TypeOK, Go
  <2>2. CASE Finish(c, Plain("not_recognized"))
    BY <1>11, <2>2, Refusals DEF VerifyCheck, HasRecorded, Running
  <2> QED BY <1>11, <2>1, <2>2 DEF VerifyCheck
<1>12. CASE VerifyConsume(c)
  BY <1>12, Refusals DEF VerifyConsume, HasRecorded, Running
<1> QED BY <1>1, <1>2, <1>3, <1>4, <1>5, <1>6, <1>7, <1>8, <1>9, <1>10, <1>11, <1>12 DEF Step
-----------------------------------------------------------------------------
(* An identity in the store stays there, under its Service, and keeps its  *)
(* key; only a call that creates one adds one.                             *)
LEMMA IdentitiesLast ==
  ASSUME TypeOK, Course, CreatedOnce, NEW c \in Calls, Step(c)
  PROVE  /\ keyed \subseteq keyed'
         /\ \A i \in Ids : identity[i] # None =>
              identity'[i] # None /\ identity'[i].service = identity[i].service
         /\ \A i \in Ids : identity[i] = None /\ identity'[i] # None =>
              /\ stage[c] = "key created" /\ stage'[c] = "done" /\ i = fresh[c]
              /\ identity'[i].service = request[c].service
<1> USE DEF stores, idempotency, calls, locals, history
<1>1. CASE UNCHANGED identity /\ keyed \subseteq keyed'
  BY <1>1
<1>2. CASE Arrivals(c)
  BY <1>1, <1>2 DEF Arrivals, Arrive
<1>3. CASE \E req \in Updates : UpdateArrive(c, req)
  BY <1>1, <1>3 DEF UpdateArrive
<1>4. CASE Enter(c) \/ Wake(c) \/ Throw(c) \/ UpdateDecide(c) \/ ProvisionKey(c)
  BY <1>1, <1>4 DEF Enter, Wake, Throw, UpdateDecide, ProvisionKey
<1>5. CASE ProvisionUnresolved(c) \/ ProvisionFind(c) \/ VerifyCheck(c) \/ VerifyFail(c)
  BY <1>1, <1>5 DEF ProvisionUnresolved, ProvisionFind, VerifyCheck, VerifyFail
<1>6. CASE SignBody(c) \/ VerifyConsume(c)
  BY <1>1, <1>6 DEF SignBody, VerifyConsume
<1>7. CASE ProvisionCreate(c)
  <2>1. fresh[c] \in Ids /\ identity[fresh[c]] = None /\ stage'[c] = "done"
    BY <1>7 DEF ProvisionCreate, Course, CourseOf, CreatedOnce, Finish, Done, Go, TypeOK
  <2> QED BY <1>7, <2>1 DEF ProvisionCreate, TypeOK
<1>8. CASE UpdateWrite(c)
  <2>1. request[c].id \in Ids /\ identity[request[c].id] \in Identities
    BY <1>8 DEF UpdateWrite, Course, CourseOf, Requests, Updates, TypeOK
  <2>2. \A rec \in Identities, st \in Statuses :
          /\ [rec EXCEPT !.status = st] \in Identities
          /\ [rec EXCEPT !.status = st].service = rec.service
    BY DEF Identities
  <2>3. request[c].status \in Statuses
    BY <1>8 DEF UpdateWrite, Course, CourseOf, Requests, Updates
  <2>4. /\ identity'[request[c].id] = [identity[request[c].id] EXCEPT !.status = request[c].status]
        /\ \A i \in Ids : i # request[c].id => identity'[i] = identity[i]
        /\ keyed' = keyed
    BY <1>8, <2>1 DEF UpdateWrite, TypeOK
  <2>5. \A rec \in Identities : rec # None
    BY NoneAssumption
  <2>6. /\ identity'[request[c].id] # None /\ identity[request[c].id] # None
        /\ identity'[request[c].id].service = identity[request[c].id].service
    BY <2>1, <2>2, <2>3, <2>4, <2>5
  <2> QED BY <2>4, <2>6
<1> QED BY <1>2, <1>3, <1>4, <1>5, <1>6, <1>7, <1>8 DEF Step

LEMMA CourseStep ==
  ASSUME TypeOK, Course, CreatedOnce, NEW c \in Calls, Step(c)
  PROVE  Course'
<1>1. ASSUME NEW d \in Calls \ {c} PROVE CourseOf(d)'
  <2>1. Same(d) /\ CourseOf(d)
    BY Others DEF Course
  <2>2. stage[d] \in {"authorized", "updating"} /\ request[d].op = "update" => request[d].id \in Ids
    BY <2>1 DEF CourseOf, Requests, Updates
  <2> QED BY <2>1, <2>2, IdentitiesLast DEF Same, CourseOf
<1> SUFFICES CourseOf(c)'
  BY <1>1 DEF Course
<1> USE DEF stores, idempotency, calls, locals, history, Go, Done
<1>0. CourseOf(c)
  BY DEF Course
<1>2. CASE Arrivals(c)
  <2>1. PICK k \in Keys, req \in Requests : req.op # "update" /\ Arrive(c, k, req)
    BY <1>2 DEF Arrivals
  <2>2. /\ request'[c] = req /\ key'[c] = k /\ fresh'[c] = None
        /\ stage'[c] \in {"authorized", "done"}
        /\ stage'[c] = "authorized" /\ req.op # "provision" => seen'[c] # None
    BY <2>1, <1>0 DEF Arrive, CourseOf, TypeOK
  <2> QED BY <2>1, <2>2 DEF CourseOf, Running
<1>3. ASSUME NEW req \in Updates, UpdateArrive(c, req) PROVE CourseOf(c)'
  <2>1. /\ request'[c] = req /\ stage'[c] \in {"authorized", "done"}
        /\ stage'[c] = "authorized" => seen'[c] # None /\ identity'[req.id] # None
    BY <1>3 DEF UpdateArrive, TypeOK
  <2>2. req \in Requests /\ req.op = "update"
    BY DEF Requests, Updates
  <2> QED BY <2>1, <2>2 DEF CourseOf, Running
<1>4. CASE Enter(c) \/ Wake(c)
  <2>1. /\ stage[c] \in {"authorized", "waiting"} /\ request[c].op # "update"
        /\ stage'[c] \in {"waiting", "running", "done"}
        /\ UNCHANGED <<request, key, seen, fresh, identity>>
    BY <1>4, <1>0 DEF Enter, Wake, LookUp, TypeOK, CourseOf
  <2> QED BY <2>1, <1>0 DEF CourseOf, Running
<1>5. CASE stage[c] # "idle" /\ stage'[c] = "done" /\ UNCHANGED request
  BY <1>5, <1>0 DEF CourseOf, Running
<1>6. CASE Throw(c) \/ UpdateWrite(c)
  BY <1>5, <1>6 DEF Throw, UpdateWrite, TypeOK
<1>7. CASE ProvisionUnresolved(c) \/ ProvisionCreate(c) \/ VerifyFail(c)
  BY <1>5, <1>7 DEF ProvisionUnresolved, ProvisionCreate, VerifyFail, Finish, TypeOK
<1>8. CASE SignBody(c) \/ VerifyConsume(c)
  BY <1>5, <1>8 DEF SignBody, VerifyConsume, Finish, TypeOK
<1>9. CASE ProvisionFind(c)
  <2>1. CASE \E i \in Ids : Finish(c, [is |-> "identity", id |-> i])
    BY <1>5, <1>9, <2>1 DEF ProvisionFind, Finish, TypeOK
  <2>2. ASSUME NEW i \in Ids, fresh' = [fresh EXCEPT ![c] = i], Go(c, "found none")
        PROVE CourseOf(c)'
    BY <1>9, <1>0, <2>2 DEF ProvisionFind, CourseOf, Running, TypeOK
  <2> QED BY <1>9, <2>1, <2>2 DEF ProvisionFind, Of
<1>10. CASE ProvisionKey(c)
  BY <1>10, <1>0 DEF ProvisionKey, CourseOf, Running, TypeOK
<1>11. CASE VerifyCheck(c)
  <2>1. CASE Finish(c, Plain("not_recognized"))
    BY <1>5, <1>11, <2>1 DEF VerifyCheck, Finish, TypeOK
  <2>2. CASE Go(c, "checked") /\ seen[c].status = "active"
    BY <1>11, <1>0, <2>2 DEF VerifyCheck, CourseOf, Running, TypeOK
  <2> QED BY <1>11, <2>1, <2>2 DEF VerifyCheck
<1>12. CASE UpdateDecide(c)
  <2>1. CASE Done(c, Reply("refused", Plain("identity_unavailable")))
    BY <1>5, <1>12, <2>1 DEF UpdateDecide, TypeOK
  <2>2. CASE Go(c, "updating") /\ PolicyAllows(c)
    BY <1>12, <1>0, <2>2 DEF UpdateDecide, PolicyAllows, CourseOf, Running, TypeOK
  <2> QED BY <1>12, <2>1, <2>2 DEF UpdateDecide
<1> QED BY <1>2, <1>3, <1>4, <1>6, <1>7, <1>8, <1>9, <1>10, <1>11, <1>12 DEF Step
-----------------------------------------------------------------------------
(* The idempotency store.  What looking up may come to:                    *)
LEMMA Outcomes ==
  ASSUME TypeOK, NEW c \in Calls, Asks(c)
  PROVE  \/ stage'[c] = "waiting" /\ UNCHANGED <<answer, pending>>
         \/ /\ stage'[c] = "done" /\ UNCHANGED pending
            /\ Unexpired(record[key[c]], asked'[c]) /\ record[key[c]].request = request[c]
            /\ answer'[c] = Reply("replayed", record[key[c]].body)
         \/ stage'[c] = "done" /\ UNCHANGED pending /\ answer'[c] = Reply("conflict", None)
         \/ /\ stage'[c] = "running" /\ pending[key[c]] = None /\ UNCHANGED answer
            /\ ~Unexpired(record[key[c]], asked'[c])
            /\ pending' = [pending EXCEPT ![key[c]] = c]
  BY DEF Asks, LookUp, Go, Done, TypeOK

LEMMA PendingStep ==
  ASSUME TypeOK, Course, PendingRuns, \A d \in Calls : asked[d] <= now,
         NEW c \in Calls, Step(c)
  PROVE  PendingRuns'
<1>1. stage[c] # "done" /\ \A d \in Calls \ {c} : stage'[d] = stage[d] /\ key'[d] = key[d]
  BY Others DEF Same
<1>2. \A d \in Calls : stage[d] \in Running => key[d] \in Keys
  BY DEF Course, CourseOf, Running
<1>3. \A k \in Keys : pending[k] \in Calls \union {None}
  BY DEF TypeOK
<1>4. CASE Comes(c)
  <2>1. stage'[c] \notin Running /\ stage[c] \notin Running /\ pending' = pending
    BY <1>4 DEF Comes, Running
  <2>2. \A k \in Keys : pending[k] # None => pending[k] \in Calls \ {c}
    BY <1>3, <2>1 DEF PendingRuns
  <2> QED BY <1>1, <2>1, <2>2 DEF PendingRuns
<1>5. CASE GoesOn(c)
  BY <1>1, <1>2, <1>3, <1>5 DEF GoesOn, PendingRuns
<1>6. CASE Asks(c)
  <2>1. key[c] \in Keys /\ key' = key /\ stage[c] \notin Running
    BY <1>6 DEF Asks, Course, CourseOf, Running
  <2>2. CASE pending' = pending /\ stage'[c] \notin Running
    BY <1>1, <1>2, <1>3, <2>1, <2>2 DEF PendingRuns
  <2>3. CASE /\ stage'[c] = "running" /\ pending[key[c]] = None
             /\ pending' = [pending EXCEPT ![key[c]] = c]
    <3>1. \A d \in Calls : stage[d] \in Running => key[d] # key[c] /\ pending[key[d]] = d
      BY <2>3, NoneAssumption DEF PendingRuns
    <3>2. "running" \in Running
      BY DEF Running
    <3> QED BY <1>1, <1>2, <1>3, <2>1, <2>3, <3>1, <3>2 DEF PendingRuns, TypeOK
  <2> QED BY <1>6, <2>2, <2>3, Outcomes DEF Running
<1>7. CASE stage[c] \in Running /\ stage'[c] = "done" /\ key' = key
           /\ pending' = [pending EXCEPT ![key[c]] = None]
  <2>1. key[c] \in Keys /\ pending[key[c]] = c /\ "done" \notin Running
    BY <1>7, <1>2 DEF PendingRuns, Running
  <2>2. \A d \in Calls \ {c} : stage[d] \in Running => key[d] # key[c]
    BY <2>1 DEF PendingRuns
  <2> QED BY <1>1, <1>2, <1>3, <1>7, <2>1, <2>2 DEF PendingRuns, TypeOK
<1>8. CASE HasRecorded(c)
  BY <1>7, <1>8 DEF HasRecorded, Finish, Done, Go, TypeOK
<1>9. CASE GivesUp(c)
  BY <1>7, <1>9 DEF GivesUp, Done, Go, TypeOK
<1> QED BY <1>4, <1>5, <1>6, <1>8, <1>9, Effects

LEMMA LatestStep ==
  ASSUME TypeOK, Course, PendingRuns, LatestIsKept, NEW c \in Calls, Step(c)
  PROVE  LatestIsKept'
<1>1. stage[c] # "done" /\ now' = now /\ \A d \in Calls \ {c} : Same(d)
  BY Others
<1>2. \A d \in Calls \ {c} :
        /\ Ran(d)' <=> Ran(d)
        /\ stage'[d] = stage[d] /\ key'[d] = key[d] /\ kept'[d] = kept[d] /\ asked'[d] = asked[d]
        /\ request'[d] = request[d] /\ answer'[d] = answer[d]
  BY <1>1 DEF Same, Ran
<1>3. ~Ran(c)
  BY <1>1 DEF Ran
<1>4. /\ now \in Nat /\ \A d \in Calls : kept[d] \in Nat /\ asked[d] \in Nat
      /\ \A k \in Keys : record[k] # None => record[k].expires \in Nat
  BY DEF TypeOK, Records
<1>5. CASE UNCHANGED <<record, kept>> /\ ~Ran(c)' /\ asked'[c] <= now
           /\ \A d \in Calls : stage'[c] \in Running /\ Ran(d) /\ key[d] = key'[c] =>
                 asked'[c] >= kept[d]
  <2>1. \A d \in Calls, k \in Keys : RecordedBy(d, k) => RecordedBy(d, k)'
    BY <1>2, <1>3, <1>5 DEF RecordedBy
  <2> QED BY <1>1, <1>2, <1>3, <1>4, <1>5, <2>1 DEF LatestIsKept
<1>6. CASE Comes(c)
  BY <1>5, <1>6 DEF Comes, Ran, LatestIsKept, Running
<1>7. CASE GoesOn(c)
  BY <1>5, <1>7 DEF GoesOn, Ran, LatestIsKept
<1>8. CASE GivesUp(c)
  BY <1>5, <1>8 DEF GivesUp, Done, Go, Reply, Ran, LatestIsKept, TypeOK, Running
<1>9. CASE Asks(c)
  <2>1. key[c] \in Keys /\ key' = key /\ asked'[c] <= now /\ asked'[c] \in Nat
    BY <1>9 DEF Asks, Course, CourseOf
  <2>2. ~Ran(c)'
    <3>1. \A body : /\ Reply("replayed", body).state # "created"
                    /\ Reply("conflict", body).state # "created"
      BY DEF Reply
    <3>2. stage'[c] = "done" => answer'[c].state # "created"
      BY <1>9, <3>1, Outcomes
    <3> QED BY <3>2 DEF Ran
  <2>3. ASSUME NEW d \in Calls, stage'[c] \in Running, Ran(d), key[d] = key[c]
        PROVE asked'[c] >= kept[d]
    <3>1. ~Unexpired(record[key[c]], asked'[c])
      BY <1>9, <2>3, Outcomes DEF Running
    <3>2. record[key[c]] # None /\ kept[d] <= record[key[c]].expires
      BY <2>3 DEF LatestIsKept
    <3> QED BY <1>4, <2>1, <3>1, <3>2 DEF Unexpired
  <2> QED BY <1>5, <1>9, <2>1, <2>2, <2>3 DEF Asks
<1>10. CASE HasRecorded(c)
  <2>1. PICK body \in Bodies : Finish(c, body)
    BY <1>10 DEF HasRecorded
  <2>2. key[c] \in Keys /\ UNCHANGED <<request, key, asked>> /\ pending[key[c]] = c
    BY <1>10 DEF HasRecorded, Course, CourseOf, PendingRuns
  <2>3. /\ stage'[c] = "done" /\ answer'[c] = [state |-> "created", body |-> body]
        /\ kept'[c] = now + Retention
        /\ record'[key[c]] = [request |-> request[c], body |-> body, expires |-> now + Retention]
        /\ \A k \in Keys \ {key[c]} : record'[k] = record[k]
    BY <2>1, <2>2 DEF Finish, Done, Go, Reply, TypeOK
  <2>4. Retention \in Nat /\ record'[key[c]] # None
    <3>1. record' \in [Keys -> Records \union {None}] /\ Records \intersect {None} = {}
      BY <1>10, <2>1, <2>2, FinishTypes, NoneAssumption DEF HasRecorded, Course, CourseOf, Running
    <3>2. request[c] \in Requests
      BY <1>10 DEF HasRecorded, Course, CourseOf, Running
    <3>3. [request |-> request[c], body |-> body, expires |-> now + Retention] \in Records
      BY <1>4, <3>2, PlatformAssumption DEF Records
    <3> QED BY <2>3, <3>1, <3>3, PlatformAssumption
  <2>5. RecordedBy(c, key[c])'
    BY <2>2, <2>3 DEF RecordedBy, Ran
  <2>6. \A k \in Keys \ {key[c]}, d \in Calls : RecordedBy(d, k) => RecordedBy(d, k)'
    BY <1>2, <1>3, <2>3 DEF RecordedBy
  <2>7. \A k \in Keys : record'[k] # None =>
          record'[k].expires <= now' + Retention /\ \E d \in Calls : RecordedBy(d, k)'
    BY <1>1, <1>4, <2>2, <2>3, <2>4, <2>5, <2>6 DEF LatestIsKept
  <2>8. \A d \in Calls : Ran(d)' =>
          key'[d] \in Keys /\ record'[key'[d]] # None /\ kept'[d] <= record'[key'[d]].expires
    <3>1. ASSUME NEW d \in Calls \ {c}, Ran(d)
          PROVE  key'[d] \in Keys /\ record'[key'[d]] # None
                 /\ kept'[d] <= record'[key'[d]].expires
      <4>1. /\ key[d] \in Keys /\ record[key[d]] # None
            /\ kept[d] <= record[key[d]].expires /\ record[key[d]].expires <= now + Retention
        BY <3>1 DEF LatestIsKept
      <4> QED BY <4>1, <1>2, <1>4, <2>3, <2>4
    <3> QED BY <3>1, <1>2, <1>4, <2>2, <2>3, <2>4
  <2>9. \A e, d \in Calls :
          stage'[e] \in Running /\ Ran(d)' /\ key'[d] = key'[e] => asked'[e] >= kept'[d]
    <3>1. \A e \in Calls \ {c} : stage[e] \in Running => key[e] # key[c]
      BY <2>2 DEF PendingRuns
    <3> QED BY <1>2, <2>2, <2>3, <3>1 DEF LatestIsKept, Running
  <2> QED BY <1>1, <2>2, <2>7, <2>8, <2>9 DEF LatestIsKept
<1> QED BY <1>6, <1>7, <1>8, <1>9, <1>10, Effects DEF LatestIsKept
LEMMA RunsOnceStep ==
  ASSUME TypeOK, Course, LatestIsKept, RunsOncePerRetention, NEW c \in Calls, Step(c)
  PROVE  RunsOncePerRetention'
<1> DEFINE Replayed(d) == stage[d] = "done" /\ answer[d].state = "replayed"
           From(d, e) == /\ Ran(e) /\ key[e] = key[d] /\ asked[d] < kept[e]
                         /\ request[e] = request[d] /\ answer[e].body = answer[d].body
           Apart(d, e) == key[d] = key[e] => asked[e] >= kept[d] \/ asked[d] >= kept[e]
<1>1. stage[c] # "done" /\ \A d \in Calls \ {c} : Same(d)
  BY Others
<1>2. \A d \in Calls \ {c} :
        /\ Ran(d)' <=> Ran(d)
        /\ stage'[d] = stage[d] /\ key'[d] = key[d] /\ kept'[d] = kept[d] /\ asked'[d] = asked[d]
        /\ request'[d] = request[d] /\ answer'[d] = answer[d]
  BY <1>1 DEF Same, Ran
<1>3. /\ \A d, e \in Calls : d # e /\ Ran(d) /\ Ran(e) => Apart(d, e)
      /\ \A d \in Calls : Replayed(d) => \E e \in Calls \ {d} : From(d, e)
  BY DEF RunsOncePerRetention
<1>4. Ran(c)' => \A d \in Calls \ {c} : Ran(d) => Apart(c, d)' /\ Apart(d, c)'
  <2>1. SUFFICES ASSUME Ran(c)', NEW d \in Calls \ {c}, Ran(d) PROVE Apart(c, d)' /\ Apart(d, c)'
    OBVIOUS
  <2>2. stage[c] \in Running /\ UNCHANGED <<key, asked>>
    <3>1. \A body : /\ Reply("replayed", body).state # "created"
                    /\ Reply("conflict", body).state # "created"
                    /\ Reply("threw", body).state # "created"
      BY DEF Reply
    <3>2. ~Comes(c) /\ ~GoesOn(c)
      BY <2>1, <1>1 DEF Comes, GoesOn, Ran, Running
    <3>3. ~Asks(c)
      BY <2>1, <3>1, Outcomes DEF Ran
    <3>4. ~GivesUp(c)
      BY <2>1, <3>1 DEF GivesUp, Done, TypeOK, Ran
    <3> QED BY <3>2, <3>3, <3>4, Effects DEF HasRecorded, LatestIsKept
  <2> QED BY <2>1, <2>2, <1>2 DEF LatestIsKept
<1>5. Replayed(c)' => \E e \in Calls \ {c} : From(c, e)'
  <2>1. SUFFICES ASSUME Replayed(c)' PROVE \E e \in Calls \ {c} : From(c, e)'
    OBVIOUS
  <2>2. \A body : /\ Reply("created", body).state # "replayed"
                  /\ Reply("conflict", body).state # "replayed"
                  /\ Reply("threw", body).state # "replayed" /\ Reply("replayed", body).body = body
    BY DEF Reply
  <2>3. ~Comes(c) /\ ~GoesOn(c)
    BY <2>1, <1>1 DEF Comes, GoesOn, Running
  <2>4. ~HasRecorded(c) /\ ~GivesUp(c)
    BY <2>1, <2>2 DEF HasRecorded, GivesUp, Finish, Done, TypeOK
  <2>5. Asks(c)
    BY <2>3, <2>4, Effects DEF LatestIsKept
  <2>6. /\ Unexpired(record[key[c]], asked'[c]) /\ record[key[c]].request = request[c]
        /\ answer'[c] = Reply("replayed", record[key[c]].body)
    BY <2>1, <2>2, <2>5, Outcomes
  <2>7. key[c] \in Keys /\ UNCHANGED <<key, request, kept>> /\ record[key[c]] # None
    BY <2>5, <2>6 DEF Asks, Course, CourseOf, Unexpired
  <2>8. PICK e \in Calls : RecordedBy(e, key[c])
    BY <2>7 DEF LatestIsKept
  <2>9. e # c /\ Ran(e)' /\ asked'[c] < kept[e]
    <3>1. record[key[c]].expires \in Nat /\ asked'[c] \in Nat
      BY <2>5, <2>7 DEF TypeOK, Records, Asks
    <3> QED BY <2>6, <2>8, <3>1, <1>1, <1>2 DEF RecordedBy, Ran, Unexpired
  <2> QED BY <2>2, <2>6, <2>7, <2>8, <2>9, <1>2 DEF RecordedBy
<1>6. \A d, e \in Calls : d # e /\ Ran(d)' /\ Ran(e)' => Apart(d, e)'
  BY <1>2, <1>3, <1>4
<1>7. \A d \in Calls : Replayed(d)' => \E e \in Calls \ {d} : From(d, e)'
  <2>1. ASSUME NEW d \in Calls \ {c}, Replayed(d) PROVE \E e \in Calls \ {d} : From(d, e)'
    <3>1. PICK e \in Calls \ {d} : From(d, e)
      BY <2>1, <1>3
    <3> QED BY <3>1, <1>1, <1>2 DEF Ran
  <2> QED BY <2>1, <1>2, <1>5
<1> QED BY <1>6, <1>7 DEF RunsOncePerRetention
-----------------------------------------------------------------------------
(* The identifiers that provisions generate.                               *)
LEMMA FreshSteps ==
  ASSUME TypeOK, Course, CreatedOnce, NEW c \in Calls, Step(c), fresh'[c] # None
  PROVE  \/ /\ stage'[c] = "found none" /\ request' = request /\ identity' = identity
            /\ fresh'[c] \in Ids /\ identity[fresh'[c]] = None
            /\ \A d \in Calls : fresh[d] # fresh'[c]
            /\ known'[c] = {i \in Ids : identity[i] # None} /\ Of(request[c].service) = {}
         \/ /\ fresh'[c] = fresh[c] /\ known'[c] = known[c] /\ request'[c] = request[c]
            /\ \/ stage'[c] = "done"
               \/ stage'[c] = "key created" /\ fresh[c] \in keyed' /\ identity' = identity
<1> USE DEF stores, idempotency, calls, locals, history, Go, Done
<1>1. stage[c] \in {"found none", "key created", "done"} \/ fresh[c] = None
  BY DEF CreatedOnce
<1>2. CASE ProvisionFind(c)
  <2>1. stage[c] = "running"
    BY <1>2 DEF ProvisionFind
  <2>2. PICK i \in Ids : identity[i] = None /\ (\A d \in Calls : fresh[d] # i)
                         /\ fresh' = [fresh EXCEPT ![c] = i]
    BY <1>1, <1>2, <2>1 DEF ProvisionFind
  <2>3. Of(request[c].service) = {} /\ stage' = [stage EXCEPT ![c] = "found none"]
    BY <1>1, <1>2, <2>1 DEF ProvisionFind
  <2> QED BY <1>2, <2>2, <2>3 DEF ProvisionFind, TypeOK
<1>3. CASE Throw(c) \/ ProvisionKey(c) \/ ProvisionCreate(c)
  BY <1>3 DEF Throw, ProvisionKey, ProvisionCreate, Finish, TypeOK
<1>4. CASE UpdateDecide(c) \/ UpdateWrite(c) \/ Enter(c) \/ Wake(c)
  BY <1>1, <1>4 DEF UpdateDecide, UpdateWrite, Enter, Wake
<1>5. CASE ProvisionUnresolved(c) \/ VerifyCheck(c) \/ VerifyFail(c)
  BY <1>1, <1>5 DEF ProvisionUnresolved, VerifyCheck, VerifyFail
<1>6. CASE SignBody(c) \/ VerifyConsume(c)
  BY <1>1, <1>6 DEF SignBody, VerifyConsume
<1>7. CASE Arrivals(c)
  BY <1>1, <1>7 DEF Arrivals, Arrive
<1>8. CASE \E req \in Updates : UpdateArrive(c, req)
  BY <1>1, <1>8 DEF UpdateArrive
<1> QED BY <1>2, <1>3, <1>4, <1>5, <1>6, <1>7, <1>8 DEF Step

LEMMA CreatedStep ==
  ASSUME TypeOK, Course, CreatedOnce, NEW c \in Calls, Step(c)
  PROVE  CreatedOnce'
<1> DEFINE Creating(d) == stage[d] \in {"found none", "key created"}
           Own(d) ==
             /\ Creating(d) => identity[fresh[d]] = None
             /\ stage[d] = "key created" => fresh[d] \in keyed
             /\ fresh[d] # None =>
                  /\ Creating(d) \/ stage[d] = "done"
                  /\ request[d] \in Requests
                  /\ identity[fresh[d]] # None => identity[fresh[d]].service = request[d].service
                  /\ \A i \in known[d] :
                       identity[i] # None /\ identity[i].service # request[d].service
<1>0. \A d, e \in Calls : d # e /\ fresh[d] = fresh[e] => fresh[d] = None
  BY DEF CreatedOnce
<1>1. \A d \in Calls \ {c} : Same(d)
  BY Others
<1>2. \A d \in Calls : Own(d) /\ fresh[d] \in Ids \union {None} /\ known[d] \subseteq Ids
  BY DEF CreatedOnce, TypeOK
<1>3. \A d \in Calls : Creating(d) => fresh[d] \in Ids /\ fresh[d] # None
  BY NoneAssumption DEF Course, CourseOf
<1>8. /\ \A i \in Ids : identity[i] # None =>
           identity'[i] # None /\ identity'[i].service = identity[i].service
      /\ \A i \in Ids : identity[i] = None /\ identity'[i] # None =>
           stage[c] = "key created" /\ i = fresh[c] /\ identity'[i].service = request[c].service
      /\ keyed \subseteq keyed'
  BY IdentitiesLast
<1>4. \A i \in Ids : identity'[i] # None => i \in keyed'
  BY <1>2, IdentitiesLast DEF CreatedOnce
<1>5. \A d, e \in Calls : d # e /\ fresh'[d] = fresh'[e] => fresh'[d] = None
  <2>1. \A d \in Calls \ {c} : fresh'[d] = fresh[d]
    BY <1>1 DEF Same
  <2>2. fresh'[c] \in {None, fresh[c]} \/ \A d \in Calls : fresh[d] # fresh'[c]
    BY FreshSteps
  <2> QED BY <2>1, <2>2, <1>0
<1>6. ASSUME NEW d \in Calls \ {c} PROVE Own(d)'
  <2>1. Same(d) /\ Own(d)
    BY <1>1, <1>2
  <2>2. \A i \in Ids : identity[i] = None /\ identity'[i] # None => i # fresh[d]
    BY <1>0, <1>3, <1>8
  <2>3. fresh[d] \in Ids \union {None} /\ known[d] \subseteq Ids
    BY <1>2
  <2>4. Creating(d) => fresh[d] \in Ids
    BY <1>3
  <2>5. Creating(d)' => identity'[fresh'[d]] = None
    BY <2>1, <2>2, <2>4 DEF Same
  <2>6. ASSUME fresh[d] # None
        PROVE  /\ identity'[fresh[d]] # None => identity'[fresh[d]].service = request[d].service
               /\ \A i \in known[d] :
                    identity'[i] # None /\ identity'[i].service # request[d].service
    BY <1>8, <2>1, <2>2, <2>3, <2>6
  <2> QED BY <1>8, <2>1, <2>3, <2>5, <2>6 DEF Same
<1>7. Own(c)'
  <2>1. CASE fresh'[c] = None
    BY <2>1, <1>3, CourseStep, NoneAssumption DEF Course, CourseOf
  <2>2. CASE fresh'[c] # None
    <3>0. request'[c] \in Requests /\ Own(c)
      <4>1. stage'[c] # "idle"
        BY <2>2, FreshSteps
      <4> QED BY <4>1, <1>2, CourseStep DEF Course, CourseOf
    <3>1. CASE /\ stage'[c] = "found none" /\ request' = request /\ identity' = identity
               /\ fresh'[c] \in Ids /\ identity[fresh'[c]] = None
               /\ known'[c] = {i \in Ids : identity[i] # None} /\ Of(request[c].service) = {}
      BY <3>0, <3>1 DEF Of
    <3>2. CASE /\ fresh'[c] = fresh[c] /\ known'[c] = known[c] /\ request'[c] = request[c]
               /\ stage'[c] = "key created" /\ fresh[c] \in keyed' /\ identity' = identity
      <4>1. Creating(c) \/ stage[c] = "done"
        BY <2>2, <3>2, <3>0
      <4>2. stage[c] # "done"
        BY Others
      <4> QED BY <2>2, <3>0, <3>2, <4>1, <4>2
    <3>3. CASE /\ fresh'[c] = fresh[c] /\ known'[c] = known[c] /\ request'[c] = request[c]
               /\ stage'[c] = "done"
      <4>1. fresh[c] \in Ids /\ known[c] \subseteq Ids
        BY <1>2, <2>2, <3>3
      <4>2. identity'[fresh[c]] # None => identity'[fresh[c]].service = request[c].service
        BY <1>8, <2>2, <3>0, <3>3, <4>1
      <4>3. \A i \in known[c] : identity'[i] # None /\ identity'[i].service # request[c].service
        BY <1>8, <2>2, <3>0, <3>3, <4>1
      <4> QED BY <3>0, <3>3, <4>2, <4>3
    <3> QED BY <2>2, <3>1, <3>2, <3>3, FreshSteps
  <2> QED BY <2>1, <2>2
<1> QED BY <1>4, <1>5, <1>6, <1>7 DEF CreatedOnce

-----------------------------------------------------------------------------
(* What is recorded: an identity that is in the store for the Service      *)
(* asked for, and no assertion or verification but of an identity that was *)
(* active when the call was authorized.                                    *)
LEMMA Recorded ==
  ASSUME TypeOK, Course, CreatedOnce, LatestIsKept, NEW c \in Calls, Step(c), Ran(c)'
  PROVE  /\ request[c] \in Requests /\ request' = request /\ answer'[c].body \in Bodies
         /\ record' = [record EXCEPT ![key[c]] =
              [request |-> request[c], body |-> answer'[c].body, expires |-> now + Retention]]
         /\ answer'[c].body.is = "identity" =>
              /\ answer'[c].body.id \in Ids /\ identity'[answer'[c].body.id] # None
              /\ identity'[answer'[c].body.id].service = request[c].service
         /\ answer'[c].body.is \in {"assertion", "verified"} =>
              request[c].op \in {"sign", "verify"} /\ seen[c] # None /\ seen[c].status = "active"
<1> USE DEF stores, idempotency, calls, locals, history
<1>1. HasRecorded(c)
  <2>1. \A body : /\ Reply("replayed", body).state # "created"
                  /\ Reply("conflict", body).state # "created"
                  /\ Reply("threw", body).state # "created"
    BY DEF Reply
  <2>2. ~Comes(c) /\ ~GoesOn(c)
    BY Others DEF Comes, GoesOn, Ran, Running
  <2>3. ~Asks(c)
    BY <2>1, Outcomes DEF Ran
  <2>4. ~GivesUp(c)
    BY <2>1 DEF GivesUp, Done, TypeOK, Ran
  <2> QED BY <2>2, <2>3, <2>4, Effects DEF LatestIsKept
<1>2. request[c] \in Requests /\ UNCHANGED <<request, key>> /\ CourseOf(c)
  BY <1>1 DEF HasRecorded, Course, CourseOf, Running
<1>3. ASSUME NEW body \in Bodies, Finish(c, body)
      PROVE  /\ answer'[c].body = body
             /\ record' = [record EXCEPT ![key[c]] =
                  [request |-> request[c], body |-> body, expires |-> now + Retention]]
  BY <1>3 DEF Finish, Done, Reply, TypeOK
<1>4. /\ answer'[c].body \in Bodies
      /\ record' = [record EXCEPT ![key[c]] =
            [request |-> request[c], body |-> answer'[c].body, expires |-> now + Retention]]
  BY <1>1, <1>3 DEF HasRecorded
<1> DEFINE Goal(body) ==
      /\ body.is = "identity" =>
           /\ body.id \in Ids /\ identity'[body.id] # None
           /\ identity'[body.id].service = request[c].service
      /\ body.is \in {"assertion", "verified"} =>
           request[c].op \in {"sign", "verify"} /\ seen[c] # None /\ seen[c].status = "active"
<1>5. ASSUME NEW what \in {"not_recognized", "invalid_request", "identity_unavailable"},
             Finish(c, Plain(what))
      PROVE Goal(answer'[c].body)
  <2>1. Plain(what) \in Bodies /\ Plain(what).is = what
    BY DEF Plain, Bodies
  <2> QED BY <1>3, <1>5, <2>1
<1> SUFFICES Goal(answer'[c].body)
  BY <1>2, <1>4
<1>6. CASE ProvisionUnresolved(c)
  <2>1. Finish(c, Plain("invalid_request"))
    BY <1>6 DEF ProvisionUnresolved
  <2> QED BY <1>5, <2>1
<1>7. CASE ProvisionFind(c)
  <2>1. PICK i \in Of(request[c].service) : Finish(c, [is |-> "identity", id |-> i])
    BY <1>7 DEF ProvisionFind, Ran, Go, TypeOK
  <2>2. [is |-> "identity", id |-> i] \in Bodies /\ identity' = identity
    BY <1>7, <2>1 DEF Bodies, Of, ProvisionFind
  <2>3. answer'[c].body = [is |-> "identity", id |-> i]
    BY <1>3, <2>1, <2>2
  <2>4. i \in Ids /\ identity[i] # None /\ identity[i].service = request[c].service
    BY DEF Of
  <2> QED BY <2>2, <2>3, <2>4
<1>8. CASE ProvisionCreate(c)
  <2>1. fresh[c] \in Ids /\ [is |-> "identity", id |-> fresh[c]] \in Bodies
    BY <1>8, <1>2 DEF ProvisionCreate, CourseOf, Bodies
  <2>2. /\ identity'[fresh[c]] = [service |-> request[c].service, status |-> "active"]
        /\ answer'[c].body = [is |-> "identity", id |-> fresh[c]]
    BY <1>8, <1>3, <2>1 DEF ProvisionCreate, TypeOK
  <2>3. request[c].op = "provision"
    BY <1>8, <1>2 DEF ProvisionCreate, CourseOf
  <2>4. identity'[fresh[c]] # None
    <3>1. [service |-> request[c].service, status |-> "active"] \in Identities
      BY <1>2, <2>3 DEF Requests, Identities, Statuses, Updates
    <3> QED BY <2>2, <3>1, NoneAssumption
  <2> QED BY <2>1, <2>2, <2>4, <1>2, <1>4
<1>9. CASE SignBody(c)
  <2>0. request[c].op = "sign" /\ seen[c] # None
    BY <1>9, <1>2 DEF SignBody, CourseOf, Running
  <2> DEFINE made == [id |-> request[c].id, jti |-> request[c].jti, exp |-> now + Lifetime]
  <2>1. CASE Finish(c, [is |-> "assertion", assertion |-> made]) /\ seen[c].status = "active"
    <3>1. made \in Assertions
      BY <2>0, <1>2, PlatformAssumption DEF Requests, Assertions, Updates, TypeOK
    <3>2. [is |-> "assertion", assertion |-> made] \in Bodies
      BY <3>1 DEF Bodies
    <3>3. answer'[c].body = [is |-> "assertion", assertion |-> made]
      BY <1>3, <2>1, <3>2
    <3> QED BY <2>0, <2>1, <3>3, <1>2, <1>4
  <2> QED BY <1>9, <1>2, <1>4, <1>5, <2>1 DEF SignBody
<1>10. CASE VerifyCheck(c)
  BY <1>2, <1>4, <1>5, <1>10 DEF VerifyCheck, Go, Ran, TypeOK
<1>11. CASE VerifyConsume(c)
  <2>0. request[c].op = "verify" /\ seen[c] # None /\ seen[c].status = "active"
    BY <1>11, <1>2 DEF VerifyConsume, CourseOf, Running
  <2>1. CASE Finish(c, Plain("not_recognized"))
    BY <1>5, <2>1
  <2>2. CASE Finish(c, Plain("verified"))
    <3>1. Plain("verified") \in Bodies /\ Plain("verified").is = "verified"
      BY DEF Plain, Bodies
    <3> QED BY <1>3, <2>0, <2>2, <3>1
  <2> QED BY <1>11, <2>1, <2>2 DEF VerifyConsume
<1>12. CASE VerifyFail(c)
  BY <1>2, <1>4, <1>5, <1>12 DEF VerifyFail
<1>13. CASE Arrivals(c) \/ (\E req \in Updates : UpdateArrive(c, req)) \/ Throw(c)
            \/ Enter(c) \/ Wake(c)
  <2>1. /\ stage[c] # "idle" /\ stage[c] \in Running /\ kept'[c] = now + Retention
        /\ pending' = [pending EXCEPT ![key[c]] = None]
    BY <1>1 DEF HasRecorded, Finish, Running, TypeOK
  <2>2. Throw(c)
    BY <1>13, <2>1 DEF Arrivals, Arrive, UpdateArrive, Enter, Wake, Running
  <2>3. answer'[c].state = "threw"
    BY <2>2 DEF Throw, Done, Reply, TypeOK
  <2> QED BY <2>3 DEF Ran
<1>14. CASE ProvisionKey(c) \/ UpdateDecide(c) \/ UpdateWrite(c)
  <2>1. stage'[c] = "done" /\ stage[c] \in Running
    BY <1>1 DEF HasRecorded, Finish, Done, Go, TypeOK
  <2> QED BY <1>14, <2>1 DEF ProvisionKey, UpdateDecide, UpdateWrite, Go, Running, TypeOK
<1> QED BY <1>6, <1>7, <1>8, <1>9, <1>10, <1>11, <1>12, <1>13, <1>14 DEF Step
LEMMA AnswersStep ==
  ASSUME TypeOK, Course, CreatedOnce, LatestIsKept, AnswersAreStored, NEW c \in Calls, Step(c)
  PROVE  AnswersAreStored'
<1>1. stage[c] # "done" /\ \A d \in Calls \ {c} : Same(d)
  BY Others
<1>2. ASSUME NEW body, NEW req, IsOf(body, req)
      PROVE  body.is = "identity" =>
               /\ body.id \in Ids /\ identity'[body.id] # None
               /\ identity'[body.id].service = req.service
  BY <1>2, IdentitiesLast DEF IsOf
<1>3. \A k \in Keys : record'[k] # None => IsOf(record[k].body, record[k].request)'
  <2>1. ASSUME UNCHANGED record, NEW k \in Keys, record'[k] # None
        PROVE  IsOf(record[k].body, record[k].request)'
    <3>1. record'[k] = record[k]
      BY <2>1
    <3>2. IsOf(record[k].body, record[k].request)
      BY <2>1, <3>1 DEF AnswersAreStored
    <3>3. record[k].body.is = "identity" =>
            /\ record[k].body.id \in Ids /\ identity'[record[k].body.id] # None
            /\ identity'[record[k].body.id].service = record[k].request.service
      BY <1>2, <3>2
    <3> QED BY <3>1, <3>3 DEF IsOf
  <2>2. CASE Ran(c)'
    <3>1. ASSUME NEW k \in Keys, k # key[c], record'[k] # None
          PROVE IsOf(record[k].body, record[k].request)'
      <4>1. record'[k] = record[k]
        BY <2>2, <3>1, Recorded DEF TypeOK
      <4>2. IsOf(record[k].body, record[k].request)
        BY <3>1, <4>1 DEF AnswersAreStored
      <4>3. record[k].body.is = "identity" =>
              /\ record[k].body.id \in Ids /\ identity'[record[k].body.id] # None
              /\ identity'[record[k].body.id].service = record[k].request.service
        BY <1>2, <4>2
      <4> QED BY <4>1, <4>3 DEF IsOf
    <3>2. ASSUME NEW k \in Keys, k = key[c] PROVE IsOf(record[k].body, record[k].request)'
      <4>1. record'[k] = [request |-> request[c], body |-> answer'[c].body,
                          expires |-> now + Retention]
        BY <2>2, <3>2, Recorded DEF TypeOK
      <4>2. answer'[c].body.is = "identity" =>
              /\ answer'[c].body.id \in Ids /\ identity'[answer'[c].body.id] # None
              /\ identity'[answer'[c].body.id].service = request[c].service
        BY <2>2, Recorded
      <4>3. record'[k].body = answer'[c].body /\ record'[k].request = request[c]
        BY <4>1
      <4> QED BY <4>2, <4>3 DEF IsOf
    <3> QED BY <3>1, <3>2
  <2>3. UNCHANGED record \/ Ran(c)'
    <3>1. Comes(c) \/ GoesOn(c) \/ Asks(c) \/ GivesUp(c) => UNCHANGED record
      BY DEF Comes, GoesOn, Asks, GivesUp
    <3>2. HasRecorded(c) => Ran(c)'
      BY DEF HasRecorded, Finish, Done, Go, Reply, Ran, TypeOK
    <3> QED BY <3>1, <3>2, Effects DEF LatestIsKept
  <2> QED BY <2>1, <2>2, <2>3
<1> DEFINE Answering(d) == stage[d] = "done" /\ answer[d].state \in {"created", "replayed"}
<1>4. ASSUME NEW d \in Calls \ {c}, Answering(d)' PROVE IsOf(answer[d].body, request[d])'
  <2>1. Answering(d) /\ answer'[d] = answer[d] /\ request'[d] = request[d]
    BY <1>1, <1>4 DEF Same
  <2>2. IsOf(answer[d].body, request[d])
    BY <2>1 DEF AnswersAreStored
  <2> QED BY <1>2, <2>1, <2>2 DEF IsOf
<1>5. ASSUME Answering(c)' PROVE IsOf(answer[c].body, request[c])'
  <2>1. CASE Ran(c)'
    BY <2>1, Recorded DEF IsOf
  <2>2. CASE ~Ran(c)'
    <3>1. answer'[c].state = "replayed" /\ stage'[c] = "done"
      BY <1>5, <2>2 DEF Ran
    <3>2. \A body : /\ Reply("created", body).state # "replayed"
                    /\ Reply("conflict", body).state # "replayed"
                    /\ Reply("threw", body).state # "replayed"
                    /\ Reply("replayed", body).body = body
      BY DEF Reply
    <3>3. ~Comes(c) /\ ~GoesOn(c)
      BY <1>1, <3>1 DEF Comes, GoesOn, Running
    <3>4. ~HasRecorded(c) /\ ~GivesUp(c)
      BY <3>1, <3>2 DEF HasRecorded, GivesUp, Finish, Done, TypeOK
    <3>5. Asks(c)
      BY <3>3, <3>4, Effects DEF LatestIsKept
    <3>6. /\ Unexpired(record[key[c]], asked'[c]) /\ record[key[c]].request = request[c]
          /\ answer'[c] = Reply("replayed", record[key[c]].body)
      BY <3>1, <3>2, <3>5, Outcomes
    <3>7. /\ record[key[c]] # None /\ record[key[c]].request = request[c] /\ request' = request
          /\ answer'[c].body = record[key[c]].body /\ key[c] \in Keys
      BY <3>2, <3>5, <3>6 DEF Unexpired, Asks, Course, CourseOf
    <3>8. IsOf(record[key[c]].body, record[key[c]].request)
      BY <3>7 DEF AnswersAreStored
    <3>9. IsOf(answer'[c].body, request'[c])
      BY <3>7, <3>8
    <3>10. answer'[c].body.is = "identity" =>
             /\ answer'[c].body.id \in Ids /\ identity'[answer'[c].body.id] # None
             /\ identity'[answer'[c].body.id].service = request'[c].service
      BY <3>9, IdentitiesLast DEF IsOf
    <3> QED BY <3>10 DEF IsOf
  <2> QED BY <2>1, <2>2
<1> QED BY <1>3, <1>4, <1>5 DEF AnswersAreStored

LEMMA ActiveStep ==
  ASSUME TypeOK, Course, CreatedOnce, LatestIsKept, ActiveWasSeen, SignedWhileActive,
         NEW c \in Calls, Step(c), Observe
  PROVE  ActiveWasSeen' /\ SignedWhileActive'
<1> DEFINE SeenActive(d) ==
      stage[d] # "idle" /\ request[d].op \in {"sign", "verify"} /\ seen[d] # None
        /\ seen[d].status = "active"
<1>1. stage[c] # "done" /\ \A d \in Calls \ {c} : Same(d)
  BY Others
<1>2. \A d \in Calls : activeIn'[d] = (activeIn[d] \/ ActiveFor(d))
  BY DEF Observe
<1>3. ASSUME NEW d \in Calls, activeIn[d] PROVE activeIn'[d]
  BY <1>2, <1>3
<1>4. stage[c] # "idle" => request' = request /\ seen' = seen
  <2>1. SUFFICES ASSUME stage[c] # "idle" PROVE request' = request /\ seen' = seen
    OBVIOUS
  <2>2. ~Arrivals(c) /\ ~\E req \in Updates : UpdateArrive(c, req)
    BY <2>1 DEF Arrivals, Arrive, UpdateArrive
  <2>3. CASE Enter(c) \/ Wake(c) \/ Throw(c) \/ UpdateDecide(c) \/ UpdateWrite(c)
    BY <2>3 DEF Enter, Wake, Throw, UpdateDecide, UpdateWrite, locals
  <2>4. CASE ProvisionUnresolved(c) \/ ProvisionFind(c) \/ ProvisionKey(c) \/ ProvisionCreate(c)
    BY <2>4 DEF ProvisionUnresolved, ProvisionFind, ProvisionKey, ProvisionCreate, locals
  <2>5. CASE SignBody(c) \/ VerifyCheck(c) \/ VerifyConsume(c) \/ VerifyFail(c)
    BY <2>5 DEF SignBody, VerifyCheck, VerifyConsume, VerifyFail, locals
  <2> QED BY <2>2, <2>3, <2>4, <2>5 DEF Step
<1>5. SeenActive(c)' => SeenActive(c) \/ ActiveFor(c)
  <2>1. CASE stage[c] # "idle"
    BY <1>4, <2>1
  <2>2. CASE Arrivals(c)
    <3>1. PICK k \in Keys, req \in Requests : Arrive(c, k, req)
      BY <2>2 DEF Arrivals
    <3>2. request'[c] = req /\ seen[c] = None
      BY <3>1 DEF Arrive, TypeOK, Course, CourseOf
    <3>3. seen'[c] # None => req.op # "provision" /\ seen'[c] = identity[Target(req)]
      BY <3>1, <3>2 DEF Arrive, TypeOK
    <3> QED BY <1>1, <3>1, <3>2, <3>3 DEF Arrive, ActiveFor, TypeOK
  <2>3. CASE \E req \in Updates : UpdateArrive(c, req)
    BY <2>3 DEF UpdateArrive, Updates, TypeOK
  <2>4. stage[c] = "idle" => Comes(c)
    BY Effects DEF GoesOn, Asks, HasRecorded, GivesUp, Running, LatestIsKept
  <2>5. stage[c] = "idle" => Arrivals(c) \/ \E req \in Updates : UpdateArrive(c, req)
    BY DEF Step, Enter, Wake, Throw, UpdateDecide, UpdateWrite, ProvisionUnresolved, ProvisionFind,
           ProvisionKey, ProvisionCreate, SignBody, VerifyCheck, VerifyConsume, VerifyFail
  <2> QED BY <2>1, <2>2, <2>3, <2>5
<1>6. ActiveWasSeen'
  <2>1. \A d \in Calls : SeenActive(d)' => SeenActive(d) \/ ActiveFor(d)
    BY <1>1, <1>5 DEF Same
  <2> QED BY <1>2, <2>1 DEF ActiveWasSeen
<1>7. Ran(c)' /\ answer'[c].body.is \in {"assertion", "verified"} => activeIn'[c]
  <2>1. SUFFICES ASSUME Ran(c)', answer'[c].body.is \in {"assertion", "verified"}
                 PROVE  activeIn'[c]
    OBVIOUS
  <2>2. stage[c] # "idle"
    BY <2>1, Effects DEF LatestIsKept, Comes, GoesOn, Asks, HasRecorded, GivesUp, Running, Ran
  <2> QED BY <2>1, <2>2, <1>3, Recorded DEF ActiveWasSeen
<1> QED BY <1>1, <1>3, <1>6, <1>7 DEF SignedWhileActive, Same, Ran

(* The replay store.                                                       *)
LEMMA ConsumedStep ==
  ASSUME TypeOK, Course, ConsumedIsRemembered, VerifiedTwiceOnlyLate, NEW c \in Calls, Step(c)
  PROVE  ConsumedIsRemembered' /\ VerifiedTwiceOnlyLate'
<1> USE DEF stores, idempotency, calls, locals, history
<1>1. stage[c] # "done" /\ now' = now /\ \A d \in Calls \ {c} : Same(d)
  BY Others
<1>2. consumed[c] = None
  BY <1>1 DEF ConsumedIsRemembered
<1>3. CASE UNCHANGED <<replay, consumed>>
  BY <1>1, <1>2, <1>3 DEF ConsumedIsRemembered, VerifiedTwiceOnlyLate, Same
<1>4. CASE VerifyConsume(c) /\ ~Remembers(<<request[c].assertion.id, request[c].assertion.jti>>)
  <2> DEFINE a == request[c].assertion
             ij == <<a.id, a.jti>>
             In(d) == consumed[d] # None => LET b == request[d].assertion IN
                        /\ stage[d] = "done" /\ b \in Assertions /\ consumed[d] <= now
                        /\ now < b.exp =>
                             replay[<<b.id, b.jti>>] # None /\ replay[<<b.id, b.jti>>] >= b.exp
  <2>1. a \in Assertions /\ ij \in Ids \X Jtis /\ a.exp \in Nat /\ now \in Nat
    <3>1. request[c] \in Requests /\ request[c].op = "verify"
      BY <1>4 DEF VerifyConsume, Course, CourseOf
    <3>2. a \in Assertions
      BY <3>1 DEF Requests, Updates
    <3> QED BY <3>2 DEF Assertions, TypeOK
  <2>2. /\ replay' = [replay EXCEPT ![ij] = a.exp] /\ consumed' = [consumed EXCEPT ![c] = now]
        /\ request' = request /\ stage'[c] = "done"
    BY <1>4 DEF VerifyConsume, Finish, Done, Go, TypeOK
  <2>3. replay'[ij] = a.exp /\ \A xy \in Ids \X Jtis : xy # ij => replay'[xy] = replay[xy]
    BY <2>1, <2>2 DEF TypeOK
  <2>4. replay[ij] = None \/ (replay[ij] \in Nat /\ replay[ij] <= now)
    BY <1>4, <2>1 DEF Remembers, TypeOK
  <2>5. a.exp # None
    BY <2>1, NoneAssumption
  <2>6. In(c)'
    BY <2>1, <2>2, <2>3, <2>5, <1>1 DEF TypeOK
  <2>7. ASSUME NEW d \in Calls \ {c} PROVE In(d)'
    <3>1. Same(d) /\ In(d)
      BY <1>1 DEF ConsumedIsRemembered
    <3> DEFINE b == request[d].assertion
    <3>2. consumed[d] # None => b \in Assertions /\ <<b.id, b.jti>> \in Ids \X Jtis /\ b.exp \in Nat
      BY <3>1 DEF Assertions
    <3>3. consumed[d] # None /\ now < b.exp => <<b.id, b.jti>> # ij
      BY <2>1, <2>4, <3>1, <3>2
    <3> QED BY <1>1, <2>3, <3>1, <3>2, <3>3 DEF Same
  <2>8. ASSUME NEW d \in Calls \ {c}, consumed[d] # None, request[d].assertion = a
        PROVE  now >= a.exp
    <3>1. In(d)
      BY DEF ConsumedIsRemembered
    <3> QED BY <2>1, <2>4, <2>8, <3>1
  <2>9. VerifiedTwiceOnlyLate'
    BY <1>1, <2>1, <2>2, <2>8 DEF VerifiedTwiceOnlyLate, Same, TypeOK
  <2> QED BY <2>6, <2>7, <2>9 DEF ConsumedIsRemembered
<1>5. CASE VerifyConsume(c)
  BY <1>3, <1>4, <1>5 DEF VerifyConsume
<1>6. CASE Arrivals(c) \/ \E req \in Updates : UpdateArrive(c, req)
  BY <1>3, <1>6 DEF Arrivals, Arrive, UpdateArrive
<1>7. CASE Enter(c) \/ Wake(c) \/ Throw(c) \/ UpdateDecide(c) \/ UpdateWrite(c)
  BY <1>3, <1>7 DEF Enter, Wake, Throw, UpdateDecide, UpdateWrite
<1>8. CASE ProvisionUnresolved(c) \/ ProvisionFind(c) \/ ProvisionKey(c) \/ ProvisionCreate(c)
  BY <1>3, <1>8 DEF ProvisionUnresolved, ProvisionFind, ProvisionKey, ProvisionCreate
<1>9. CASE SignBody(c) \/ VerifyCheck(c) \/ VerifyFail(c)
  BY <1>3, <1>9 DEF SignBody, VerifyCheck, VerifyFail
<1> QED BY <1>5, <1>6, <1>7, <1>8, <1>9 DEF Step
-----------------------------------------------------------------------------
LEMMA InvInit == Init => IInv
<1> SUFFICES ASSUME Init PROVE IInv
  OBVIOUS
<1>1. TypeOK
  <2>1. \A s \in Services : [service |-> s, status |-> "active"] \in Identities
    BY DEF Identities, Statuses
  <2>2. \A i \in Ids, j \in Jtis : [id |-> i, jti |-> j, exp |-> Lifetime] \in Assertions
    BY PlatformAssumption DEF Assertions
  <2>3. /\ identity \in [Ids -> Identities \union {None}]
        /\ keyed \subseteq Ids /\ signed \subseteq Assertions
    BY <2>1, <2>2 DEF Init
  <2> QED BY <2>3 DEF Init, TypeOK, Stages
<1>2. Course /\ PendingRuns /\ LatestIsKept
  BY DEF Init, Course, CourseOf, PendingRuns, LatestIsKept, Ran, Running
<1>3. CreatedOnce
  BY DEF Init, CreatedOnce
<1>4. AnswersAreStored /\ ActiveWasSeen /\ ConsumedIsRemembered
  BY DEF Init, AnswersAreStored, ActiveWasSeen, ConsumedIsRemembered
<1>5. RunsOncePerRetention /\ SignedWhileActive /\ VerifiedTwiceOnlyLate
  BY DEF Init, RunsOncePerRetention, SignedWhileActive, VerifiedTwiceOnlyLate, Ran
<1> QED BY <1>1, <1>2, <1>3, <1>4, <1>5 DEF IInv

(* The clock ticks, or nothing happens.                                    *)
LEMMA TickStep ==
  ASSUME IInv, TypeOK', now' \in {now, now + 1},
         UNCHANGED <<identity, keyed, signed, replay, idempotency, calls, locals, history>>,
         \A c \in Calls : activeIn[c] => activeIn'[c]
  PROVE  IInv'
<1> USE DEF idempotency, calls, locals, history
<1>1. now \in Nat /\ Retention \in Nat /\ (\A c \in Calls : asked[c] \in Nat)
      /\ \A k \in Keys : record[k] # None => record[k].expires \in Nat
  BY PlatformAssumption DEF IInv, TypeOK, Records
<1>2. Course' /\ PendingRuns'
  BY DEF IInv, Course, CourseOf, PendingRuns
<1>3. LatestIsKept'
  <2>1. \A k \in Keys, d \in Calls : RecordedBy(d, k)' <=> RecordedBy(d, k)
    BY DEF RecordedBy, Ran
  <2>2. \A d \in Calls : Ran(d)' <=> Ran(d)
    BY DEF Ran
  <2> QED BY <1>1, <2>1, <2>2 DEF IInv, LatestIsKept
<1>4. CreatedOnce'
  BY DEF IInv, CreatedOnce
<1>5. AnswersAreStored'
  BY DEF IInv, AnswersAreStored, IsOf
<1>6. ActiveWasSeen' /\ SignedWhileActive'
  BY DEF IInv, ActiveWasSeen, SignedWhileActive, Ran
<1>7. ConsumedIsRemembered'
  <2>1. SUFFICES ASSUME NEW c \in Calls, consumed[c] # None
        PROVE  LET a == request[c].assertion IN
               /\ stage[c] = "done" /\ a \in Assertions /\ consumed[c] <= now'
               /\ now' < a.exp => replay[<<a.id, a.jti>>] # None /\ replay[<<a.id, a.jti>>] >= a.exp
    BY DEF ConsumedIsRemembered
  <2>2. LET a == request[c].assertion IN
        /\ stage[c] = "done" /\ a \in Assertions /\ consumed[c] <= now
        /\ now < a.exp => replay[<<a.id, a.jti>>] # None /\ replay[<<a.id, a.jti>>] >= a.exp
    BY <2>1 DEF IInv, ConsumedIsRemembered
  <2>3. /\ consumed[c] \in Nat
        /\ request[c].assertion \in Assertions => request[c].assertion.exp \in Nat
    BY <2>1 DEF IInv, TypeOK, Assertions
  <2> QED BY <1>1, <2>2, <2>3
<1>8. RunsOncePerRetention' /\ VerifiedTwiceOnlyLate'
  BY DEF IInv, RunsOncePerRetention, VerifiedTwiceOnlyLate, Ran
<1> QED BY <1>2, <1>3, <1>4, <1>5, <1>6, <1>7, <1>8 DEF IInv

LEMMA InvNext == IInv /\ [Next]_vars => IInv'
<1> SUFFICES ASSUME IInv, [Next]_vars PROVE IInv'
  OBVIOUS
<1> USE DEF idempotency, calls, locals, history
<1>1. TypeOK'
  BY TypeStep DEF IInv
<1>2. CASE UNCHANGED vars
  BY <1>1, <1>2, TickStep DEF vars, stores
<1>3. CASE Tick /\ Observe
  BY <1>1, <1>3, TickStep DEF Tick, Observe
<1>4. ASSUME NEW c \in Calls, Step(c), Observe PROVE IInv'
  BY <1>1, <1>4, CourseStep, PendingStep, LatestStep, CreatedStep, AnswersStep, ActiveStep,
     ConsumedStep, RunsOnceStep DEF IInv, LatestIsKept
<1>5. Next => Observe /\ (Tick \/ \E c \in Calls : Step(c))
  BY Steps DEF IInv, Next
<1> QED BY <1>2, <1>3, <1>4, <1>5

-----------------------------------------------------------------------------
(* The invariant holds of every behaviour.                                 *)
THEOREM Inductive == Spec => []IInv
  BY InvInit, InvNext, PTL DEF Spec

(* Every variable keeps its type.                                          *)
THEOREM TypeCorrect == Spec => []TypeOK
<1>1. IInv => TypeOK
  BY DEF IInv
<1> QED BY <1>1, Inductive, PTL

(* The callbacks of one Idempotency-Key never overlap, and one runs again  *)
(* only for a request that came after the record of the first had expired; *)
(* what is replayed is what the same request got.                          *)
THEOREM RetriesRunOnce == Spec => []RunsOncePerRetention
<1>1. IInv => RunsOncePerRetention
  BY DEF IInv
<1> QED BY <1>1, Inductive, PTL

(* An identity in the store has its key, and one that was answered is in   *)
(* the store, under the Service that was asked for.                        *)
THEOREM AnsweredIsUsable == Spec => []ProvisionedIsUsable
<1>1. IInv => ProvisionedIsUsable
  BY DEF IInv, CreatedOnce, AnswersAreStored, IsOf, ProvisionedIsUsable, Answered
<1> QED BY <1>1, Inductive, PTL

(* A Service gets two identities only if each provision looked before the  *)
(* other had created.                                                      *)
THEOREM DuplicatesAreRaces == Spec => []DuplicatesOnlyFromRaces
<1>1. IInv => DuplicatesOnlyFromRaces
  BY DEF IInv, CreatedOnce, DuplicatesOnlyFromRaces
<1> QED BY <1>1, Inductive, PTL

(* What is signed, or found verified, is so of an identity that was active *)
(* at some moment of that request.                                         *)
THEOREM SignsActive == Spec => []SignedWhileActive
<1>1. IInv => SignedWhileActive
  BY DEF IInv
<1> QED BY <1>1, Inductive, PTL

(* An assertion is found verified a second time only after it has expired. *)
THEOREM ReplaysAreLate == Spec => []VerifiedTwiceOnlyLate
<1>1. IInv => VerifiedTwiceOnlyLate
  BY DEF IInv
<1> QED BY <1>1, Inductive, PTL

(* If the policy lets nothing leave "terminated", only an update that was  *)
(* authorized before brings a terminated identity back.                    *)
THEOREM TerminatedStays ==
  ASSUME \A st \in Statuses : <<"terminated", st>> \in MayTransition => st = "terminated"
  PROVE  Spec => TerminationStands
<1> DEFINE Back(i) ==
      identity[i] # None /\ identity[i].status = "terminated" /\ identity'[i].status # "terminated"
    Late(i) ==
      \E c \in Calls : stage[c] = "updating" /\ stage'[c] = "done"
                       /\ request[c].id = i /\ seen[c].status # "terminated"
<1>1. ASSUME IInv, [Next]_vars, NEW i \in Ids, Back(i) PROVE Late(i)
  <2>1. identity' # identity
    BY <1>1
  <2>2. PICK c \in Calls : Step(c)
    BY <1>1, <2>1, Steps DEF IInv, Tick, vars, stores
  <2> USE DEF stores
  <2>3. ProvisionCreate(c) \/ UpdateWrite(c)
    <3>1. ~(Arrivals(c) \/ (\E req \in Updates : UpdateArrive(c, req)) \/ Enter(c) \/ Wake(c))
      BY <2>1 DEF Arrivals, Arrive, UpdateArrive, Enter, Wake
    <3>2. ~(Throw(c) \/ ProvisionUnresolved(c) \/ ProvisionFind(c) \/ ProvisionKey(c)
              \/ SignBody(c))
      BY <2>1 DEF Throw, ProvisionUnresolved, ProvisionFind, ProvisionKey, SignBody
    <3>3. ~(VerifyCheck(c) \/ VerifyConsume(c) \/ VerifyFail(c) \/ UpdateDecide(c))
      BY <2>1 DEF VerifyCheck, VerifyConsume, VerifyFail, UpdateDecide
    <3> QED BY <2>2, <3>1, <3>2, <3>3 DEF Step
  <2>4. ~ProvisionCreate(c)
    BY <1>1 DEF IInv, ProvisionCreate, CreatedOnce, Course, CourseOf, TypeOK
  <2>5. CASE UpdateWrite(c)
    <3>1. /\ request[c] \in Updates /\ <<seen[c].status, request[c].status>> \in MayTransition
          /\ identity[request[c].id] \in Identities
      <4>1. CourseOf(c) /\ stage[c] = "updating"
        BY <1>1, <2>5 DEF UpdateWrite, IInv, Course
      <4>2. request[c] \in Updates
        BY <4>1 DEF CourseOf, Requests
      <4> QED BY <1>1, <4>1, <4>2 DEF CourseOf, IInv, TypeOK, Updates
    <3>2. request[c].id = i /\ identity'[i].status = request[c].status
      BY <1>1, <2>5, <3>1 DEF UpdateWrite, IInv, TypeOK, Updates, Identities
    <3>3. seen[c].status # "terminated"
      BY <1>1, <3>1, <3>2 DEF Updates
    <3>4. stage[c] = "updating" /\ stage'[c] = "done"
      BY <1>1, <2>5 DEF UpdateWrite, Done, Go, IInv, TypeOK
    <3> QED BY <3>2, <3>3, <3>4
  <2> QED BY <2>3, <2>4, <2>5
<1>2. IInv /\ [Next]_vars => [\A i \in Ids : Back(i) => Late(i)]_vars
  BY <1>1
<1> QED BY <1>2, Inductive, PTL DEF Spec, TerminationStands

-----------------------------------------------------------------------------
(* The DIDs of identities (DidWeb), for all texts, escapes, prefixes and   *)
(* templates.                                                              *)
CONSTANTS Placeholder, Sample, Encode, Decode, HostOf, LoopbackHosts, Segments
Did == INSTANCE DidWeb

(* Escapes are undone; the id that a configuration is tried with may be a  *)
(* segment of a path, and is not the name of a document.                   *)
Escaped == {Encode[t] : t \in DOMAIN Encode}
Written == Escaped \union {HostOf[h] : h \in DOMAIN HostOf} \union {"did.json"}
DidConstants ==
  /\ \A t \in DOMAIN Encode : Decode[Encode[t]] = t
  /\ Sample \in DOMAIN Encode \intersect Segments
  /\ Encode[Sample] # "did.json"
  /\ \A scheme, parts : [scheme |-> scheme, parts |-> parts] # None

DidParts(did, host, prefix, id) ==
  /\ did \in Seq(Escaped) /\ Len(did) = Len(prefix) + 2
  /\ did[1] = Encode[host] /\ did[Len(prefix) + 2] = Encode[id]
  /\ \A i \in 1..Len(prefix) : did[i + 1] = Encode[prefix[i]]
LEMMA DidHasParts ==
  ASSUME NEW host \in DOMAIN Encode, NEW prefix \in Seq(DOMAIN Encode), NEW id \in DOMAIN Encode
  PROVE  DidParts(Did!AgentDid(host, prefix, id), host, prefix, id)
<1> DEFINE middle == [i \in DOMAIN prefix |-> Encode[prefix[i]]]
           did == Did!AgentDid(host, prefix, id)
           n == Len(prefix)
<1>1. n \in Nat /\ DOMAIN prefix = 1..n /\ \A i \in 1..n : prefix[i] \in DOMAIN Encode
  BY LenProperties, ElementOfSeq
<1>2. \A i \in 1..n : middle[i] \in Escaped
  BY <1>1 DEF Escaped
<1>3. middle \in Seq(Escaped) /\ Len(middle) = n /\ \A i \in 1..n : middle[i] = Encode[prefix[i]]
  BY <1>1, <1>2
<1> HIDE DEF middle
<1>4. <<Encode[host]>> \in Seq(Escaped) /\ <<Encode[id]>> \in Seq(Escaped)
  BY DEF Escaped
<1>5. did = (<<Encode[host]>> \o middle) \o <<Encode[id]>>
  BY DEF Did!AgentDid, middle
<1> DEFINE start == <<Encode[host]>> \o middle
<1>6. /\ start \in Seq(Escaped) /\ Len(start) = n + 1 /\ start[1] = Encode[host]
      /\ \A i \in 1..n : start[i + 1] = Encode[prefix[i]]
  BY <1>1, <1>3, <1>4, ConcatProperties
<1> HIDE DEF start
<1>7. /\ start \o <<Encode[id]>> \in Seq(Escaped) /\ Len(start \o <<Encode[id]>>) = n + 2
      /\ \A i \in 1..(n + 1) : (start \o <<Encode[id]>>)[i] = start[i]
      /\ (start \o <<Encode[id]>>)[n + 2] = Encode[id]
  BY <1>1, <1>4, <1>6, ConcatProperties
<1>8. /\ did \in Seq(Escaped) /\ Len(did) = n + 2 /\ did[1] = Encode[host] /\ did[n + 2] = Encode[id]
      /\ \A i \in 1..n : did[i + 1] = Encode[prefix[i]]
  BY <1>1, <1>5, <1>6, <1>7 DEF start
<1> QED BY <1>8 DEF DidParts

(* Distinct identities have distinct DIDs.                                 *)
THEOREM DidsDiffer ==
  ASSUME DidConstants, NEW host \in DOMAIN Encode, NEW id \in DOMAIN Encode, NEW other \in DOMAIN Encode,
         NEW p \in Seq(DOMAIN Encode), NEW q \in Seq(DOMAIN Encode),
         Did!AgentDid(host, p, id) = Did!AgentDid(host, q, other)
  PROVE  p = q /\ id = other
<1> DEFINE did == Did!AgentDid(host, p, id)
<1>1. /\ Len(did) = Len(p) + 2 /\ did[Len(p) + 2] = Encode[id]
      /\ \A i \in 1..Len(p) : did[i + 1] = Encode[p[i]]
  BY DidHasParts DEF DidParts
<1>2. /\ Len(did) = Len(q) + 2 /\ did[Len(q) + 2] = Encode[other]
      /\ \A i \in 1..Len(q) : did[i + 1] = Encode[q[i]]
  BY DidHasParts DEF DidParts
<1> HIDE DEF did
<1>3. Len(p) \in Nat /\ Len(q) \in Nat
  BY LenProperties
<1>4. Len(p) = Len(q)
  BY <1>1, <1>2, <1>3
<1>5. \A s, t \in DOMAIN Encode : Encode[s] = Encode[t] => s = t
  BY DEF DidConstants
<1>6. \A i \in 1..Len(p) : p[i] = q[i]
  BY <1>1, <1>2, <1>4, <1>5, ElementOfSeq
<1> QED BY <1>1, <1>2, <1>4, <1>5, <1>6, SeqEqual

(* Where the document of such a DID is, part by part.                      *)
LEMMA UrlHasParts ==
  ASSUME DidConstants, NEW host \in DOMAIN HostOf \intersect DOMAIN Encode, NEW prefix \in Seq(DOMAIN Encode),
         NEW id \in DOMAIN Encode
  PROVE  LET did == Did!AgentDid(host, prefix, id)
             url == <<HostOf[host]>> \o Did!Path(did) \o <<"did.json">> IN
         /\ url \in Seq(Written) /\ Len(url) = Len(prefix) + 3
         /\ url[1] = HostOf[host] /\ url[Len(prefix) + 2] = Encode[id] /\ url[Len(prefix) + 3] = "did.json"
         /\ \A i \in 1..Len(prefix) : url[i + 1] = Encode[prefix[i]]
<1> DEFINE n == Len(prefix)
           did == Did!AgentDid(host, prefix, id)
           start == <<HostOf[host]>> \o Tail(did)
           url == start \o <<"did.json">>
<1>0. n \in Nat
  BY LenProperties
<1>1. /\ did \in Seq(Escaped) /\ Len(did) = n + 2 /\ did[n + 2] = Encode[id]
      /\ \A i \in 1..n : did[i + 1] = Encode[prefix[i]]
  BY DidHasParts DEF DidParts
<1> HIDE DEF did
<1>2. Did!Path(did) = Tail(did) /\ did # <<>>
  BY <1>0, <1>1 DEF Did!Path
<1>3. /\ Tail(did) \in Seq(Escaped) /\ Len(Tail(did)) = n + 1
      /\ \A i \in 1..(n + 1) : Tail(did)[i] = did[i + 1]
  BY <1>0, <1>1, <1>2, HeadTailProperties
<1> DEFINE rest == Tail(did)
<1> HIDE DEF rest
<1>4. rest \in Seq(Written) /\ <<HostOf[host]>> \in Seq(Written) /\ <<"did.json">> \in Seq(Written)
  <2>1. Escaped \subseteq Written
    BY DEF Written
  <2>2. rest \in Seq(Written)
    BY <1>3, <2>1, SeqMonotonic DEF rest
  <2>3. HostOf[host] \in Written /\ "did.json" \in Written
    BY DEF Written
  <2> QED BY <2>2, <2>3
<1>5. /\ start \in Seq(Written) /\ Len(start) = n + 2 /\ start[1] = HostOf[host]
      /\ \A i \in 1..(n + 1) : start[i + 1] = rest[i]
  <2>1. /\ <<HostOf[host]>> \o rest \in Seq(Written)
        /\ Len(<<HostOf[host]>> \o rest) = Len(<<HostOf[host]>>) + Len(rest)
        /\ \A i \in 1..(Len(<<HostOf[host]>>) + Len(rest)) :
             (<<HostOf[host]>> \o rest)[i] =
               IF i <= Len(<<HostOf[host]>>) THEN <<HostOf[host]>>[i] ELSE rest[i - Len(<<HostOf[host]>>)]
    BY <1>4, ConcatProperties
  <2>2. Len(<<HostOf[host]>>) = 1 /\ <<HostOf[host]>>[1] = HostOf[host] /\ Len(rest) = n + 1
    BY <1>3 DEF rest
  <2> QED BY <1>0, <2>1, <2>2 DEF rest
<1> HIDE DEF start
<1>6. /\ url \in Seq(Written) /\ Len(url) = n + 3 /\ url[n + 3] = "did.json"
      /\ \A i \in 1..(n + 2) : url[i] = start[i]
  BY <1>0, <1>4, <1>5, ConcatProperties
<1>7. <<HostOf[host]>> \o Did!Path(did) \o <<"did.json">> = url
  BY <1>2 DEF start
<1> HIDE DEF url
<1>8. \A i \in 1..(n + 1) : url[i + 1] = did[i + 1]
  <2> TAKE i \in 1..(n + 1)
  <2>1. i + 1 \in 1..(n + 2)
    BY <1>0
  <2>2. url[i + 1] = start[i + 1]
    BY <1>6, <2>1
  <2>3. start[i + 1] = rest[i]
    BY <1>5
  <2>4. rest[i] = did[i + 1]
    BY <1>3 DEF rest
  <2> QED BY <2>2, <2>3, <2>4
<1>9. url[1] = HostOf[host] /\ url[n + 2] = did[n + 2] /\ \A i \in 1..n : url[i + 1] = did[i + 1]
  <2>1. url[1] = HostOf[host]
    BY <1>0, <1>5, <1>6
  <2>2. n + 1 \in 1..(n + 1) /\ (n + 1) + 1 = n + 2
    BY <1>0
  <2>3. 1..n \subseteq 1..(n + 1)
    BY <1>0
  <2> QED BY <1>8, <2>1, <2>2, <2>3
<1> QED BY <1>1, <1>6, <1>7, <1>9 DEF did

(* Where such a DID has a document, and where it has none.                 *)
LEMMA UrlIs ==
  ASSUME DidConstants, NEW host \in DOMAIN Encode, NEW prefix \in Seq(DOMAIN Encode),
         NEW id \in DOMAIN Encode
  PROVE  LET did == Did!AgentDid(host, prefix, id) IN
         Did!DocumentUrl(did, FALSE) =
           IF host \in DOMAIN HostOf /\ id \in Segments /\ \A i \in 1..Len(prefix) : prefix[i] \in Segments
           THEN [scheme |-> "https", parts |-> <<HostOf[host]>> \o Did!Path(did) \o <<"did.json">>]
           ELSE None
<1> DEFINE n == Len(prefix)
           did == Did!AgentDid(host, prefix, id)
<1>1. n \in Nat /\ \A i \in 1..n : prefix[i] \in DOMAIN Encode
  BY LenProperties, ElementOfSeq
<1>2. /\ did \in Seq(Escaped) /\ Len(did) = n + 2 /\ did[1] = Encode[host] /\ did[n + 2] = Encode[id]
      /\ \A i \in 1..n : did[i + 1] = Encode[prefix[i]]
  <2>1. DidParts(did, host, prefix, id)
    BY DidHasParts
  <2> HIDE DEF did
  <2> QED BY <2>1 DEF DidParts
<1> HIDE DEF did
<1>3. Decode[did[1]] = host /\ Decode[did[n + 2]] = id /\ \A i \in 1..n : Decode[did[i + 1]] = prefix[i]
  BY <1>1, <1>2 DEF DidConstants
<1>4. (\E i \in 2..Len(did) : Decode[did[i]] \notin Segments) <=>
        id \notin Segments \/ \E i \in 1..n : prefix[i] \notin Segments
  <2>1. ASSUME NEW i \in 2..Len(did) PROVE i = n + 2 \/ (i - 1 \in 1..n /\ i = (i - 1) + 1)
    BY <1>1, <1>2
  <2>2. ASSUME NEW i \in 2..Len(did), Decode[did[i]] \notin Segments
        PROVE  id \notin Segments \/ \E j \in 1..n : prefix[j] \notin Segments
    <3>1. CASE i = n + 2
      BY <1>3, <2>2, <3>1
    <3>2. CASE i - 1 \in 1..n /\ i = (i - 1) + 1
      <4>1. PICK j \in 1..n : i = j + 1
        BY <3>2
      <4> QED BY <1>3, <2>2, <4>1
    <3> QED BY <2>1, <3>1, <3>2
  <2>3. ASSUME id \notin Segments PROVE \E i \in 2..Len(did) : Decode[did[i]] \notin Segments
    <3>1. n + 2 \in 2..Len(did)
      BY <1>1, <1>2
    <3> QED BY <1>3, <2>3, <3>1
  <2>4. ASSUME NEW j \in 1..n, prefix[j] \notin Segments PROVE \E i \in 2..Len(did) : Decode[did[i]] \notin Segments
    <3>1. j + 1 \in 2..Len(did)
      BY <1>1, <1>2
    <3> QED BY <1>3, <2>4, <3>1
  <2> QED BY <2>2, <2>3, <2>4
<1> QED BY <1>3, <1>4 DEF Did!DocumentUrl, did

(* A Platform that accepts its configuration, having tried it with one     *)
(* sample id, publishes every document where Services look for it: for     *)
(* every other id too, the template of its documents' URLs gives the URL   *)
(* that the DID of that id resolves to, if the DID resolves at all (the    *)
(* check in createAepPlatform, against didWebDocumentUrl).  The sample     *)
(* must be neither the host nor in the path of the Platform's DIDs.        *)
THEOREM ConfigurationCarriesOver ==
  ASSUME DidConstants, NEW host \in DOMAIN Encode, NEW prefix \in Seq(DOMAIN Encode),
         \A i \in 1..Len(prefix) : prefix[i] # Sample,
         host \in DOMAIN HostOf => HostOf[host] # Encode[Sample],
         NEW S, NEW template \in Seq(S), NEW id \in DOMAIN Encode,
         Did!Constructible(host, prefix, template)
  PROVE  Did!DocumentUrl(Did!AgentDid(host, prefix, id), FALSE) =
           IF id \in Segments THEN Did!Rendered(template, id) ELSE None
<1> DEFINE n == Len(prefix)
           Url(x) == <<HostOf[host]>> \o Did!Path(Did!AgentDid(host, prefix, x)) \o <<"did.json">>
           Fill(x) == [i \in DOMAIN template |->
                         IF template[i] = Placeholder THEN Encode[x] ELSE template[i]]
<1>1. n \in Nat /\ (\A i \in 1..n : prefix[i] \in DOMAIN Encode) /\ Sample \in DOMAIN Encode
      /\ DOMAIN template = 1..Len(template) /\ Len(template) \in Nat
  BY LenProperties, ElementOfSeq DEF DidConstants
<1>2. /\ Did!Contains(template, Placeholder)
      /\ [scheme |-> "https", parts |-> Fill(Sample)] # None
      /\ [scheme |-> "https", parts |-> Fill(Sample)] =
           Did!DocumentUrl(Did!AgentDid(host, prefix, Sample), FALSE)
  BY DEF Did!Constructible, Did!Rendered
<1>3. /\ host \in DOMAIN HostOf /\ \A i \in 1..n : prefix[i] \in Segments
      /\ Fill(Sample) = Url(Sample)
  <2>1. Did!DocumentUrl(Did!AgentDid(host, prefix, Sample), FALSE) =
          IF host \in DOMAIN HostOf /\ Sample \in Segments /\ \A i \in 1..n : prefix[i] \in Segments
          THEN [scheme |-> "https", parts |-> Url(Sample)] ELSE None
    BY <1>1, UrlIs
  <2> HIDE DEF Fill, Url, n
  <2>2. /\ host \in DOMAIN HostOf /\ \A i \in 1..n : prefix[i] \in Segments
        /\ [scheme |-> "https", parts |-> Fill(Sample)] = [scheme |-> "https", parts |-> Url(Sample)]
    BY <1>2, <2>1
  <2>3. ASSUME NEW a, NEW b, [scheme |-> "https", parts |-> a] = [scheme |-> "https", parts |-> b]
        PROVE  a = b
    <3>1. [scheme |-> "https", parts |-> a].parts = [scheme |-> "https", parts |-> b].parts
      BY <2>3
    <3> QED BY <3>1
  <2> QED BY <2>2, <2>3
<1>4. \A x \in DOMAIN Encode :
        /\ Url(x) \in Seq(Written) /\ Len(Url(x)) = n + 3
        /\ Url(x)[1] = HostOf[host] /\ Url(x)[n + 2] = Encode[x] /\ Url(x)[n + 3] = "did.json"
        /\ \A i \in 1..n : Url(x)[i + 1] = Encode[prefix[i]]
  BY <1>3, UrlHasParts
<1>5. DOMAIN template = 1..(n + 3)
  <2>1. DOMAIN Url(Sample) = 1..(n + 3)
    <3> HIDE DEF Url
    <3> QED BY <1>1, <1>4
  <2>2. DOMAIN Fill(Sample) = DOMAIN template
    OBVIOUS
  <2> QED BY <1>3, <2>1, <2>2
<1>6. \A i \in 1..(n + 3) : Fill(Sample)[i] = Url(Sample)[i]
  BY <1>3
<1> HIDE DEF Url
<1>7. ASSUME NEW i \in 1..(n + 3), i # n + 2
      PROVE  /\ template[i] # Placeholder
             /\ \A x \in DOMAIN Encode : Url(x)[i] = template[i]
  <2>1. CASE i = 1
    <3>1. \A x \in DOMAIN Encode : Url(x)[i] = HostOf[host]
      BY <1>4, <2>1
    <3>2. HostOf[host] # Encode[Sample]
      BY <1>3
    <3> QED BY <1>1, <1>5, <1>6, <3>1, <3>2
  <2>2. CASE i = n + 3
    <3>1. \A x \in DOMAIN Encode : Url(x)[i] = "did.json"
      BY <1>4, <2>2
    <3>2. "did.json" # Encode[Sample]
      BY DEF DidConstants
    <3> QED BY <1>1, <1>5, <1>6, <3>1, <3>2
  <2>3. CASE i # 1 /\ i # n + 3
    <3>1. PICK j \in 1..n : i = j + 1
      <4>1. i - 1 \in 1..n /\ i = (i - 1) + 1
        BY <1>1, <1>7, <2>3
      <4> QED BY <4>1
    <3>2. \A x \in DOMAIN Encode : Url(x)[i] = Encode[prefix[j]]
      BY <1>4, <3>1
    <3>3. Encode[prefix[j]] # Encode[Sample]
      <4>1. Decode[Encode[prefix[j]]] = prefix[j] /\ Decode[Encode[Sample]] = Sample
        BY <1>1 DEF DidConstants
      <4> QED BY <4>1
    <3> QED BY <1>1, <1>5, <1>6, <3>2, <3>3
  <2> QED BY <2>1, <2>2, <2>3
<1>8. template[n + 2] = Placeholder
  <2>1. PICK i \in DOMAIN template : template[i] = Placeholder
    BY <1>2 DEF Did!Contains
  <2> QED BY <1>5, <1>7, <2>1
<1>9. Fill(id) = Url(id)
  <2>1. DOMAIN Url(id) = 1..(n + 3) /\ Url(id) = [i \in 1..(n + 3) |-> Url(id)[i]]
    BY <1>1, <1>4
  <2>2. ASSUME NEW i \in 1..(n + 3)
        PROVE  (IF template[i] = Placeholder THEN Encode[id] ELSE template[i]) = Url(id)[i]
    BY <1>4, <1>7, <1>8
  <2>3. Fill(id) = [i \in 1..(n + 3) |-> IF template[i] = Placeholder THEN Encode[id] ELSE template[i]]
    BY <1>5
  <2> QED BY <2>1, <2>2, <2>3
<1>10. Did!DocumentUrl(Did!AgentDid(host, prefix, id), FALSE) =
         IF id \in Segments THEN [scheme |-> "https", parts |-> Url(id)] ELSE None
  BY <1>3, UrlIs DEF Url
<1>11. Did!Rendered(template, id) = [scheme |-> "https", parts |-> Fill(id)]
  BY <1>2 DEF Did!Rendered
<1> HIDE DEF Fill
<1> QED BY <1>9, <1>10, <1>11

-----------------------------------------------------------------------------
(* The commands of a Platform on the wire (PlatformCommands), for all      *)
(* texts and lifetimes.                                                    *)
CONSTANTS Longest, Number, Lower(_), Dids, Resolvable
Cmd == INSTANCE PlatformCommands

(* Every lifetime that may be asked for can be written.                    *)
CommandConstants ==
  /\ Longest \in Nat
  /\ \A k \in 1..Longest : \E t \in DOMAIN Number : Number[t] = k
  /\ None \notin DOMAIN Number \union Cmd!Operations
  /\ \A op, jti, service, resource, lifetime :
       None # [op |-> op, jti |-> jti, service |-> service, resource |-> resource, lifetime |-> lifetime]

LEMMA BodyIs ==
  ASSUME NEW pairs, \A p, q \in pairs : p[1] = q[1] => p = q
  PROVE  /\ DOMAIN Cmd!Body(pairs) = {p[1] : p \in pairs}
         /\ \A p \in pairs : Cmd!Body(pairs)[p[1]] = p[2]
<1>1. ASSUME NEW p \in pairs PROVE (CHOOSE q \in pairs : q[1] = p[1]) = p
  BY <1>1
<1> QED BY <1>1 DEF Cmd!Body

(* What the delegated signer asks for, member by member.                   *)
LEMMA SignRequestIs ==
  ASSUME CommandConstants, NEW claims, Cmd!SignRequest(claims) # None
  PROVE  LET body == Cmd!SignRequest(claims) IN
         /\ Cmd!IsText(claims.jti) /\ Cmd!IsText(claims.aud) /\ Cmd!HasItsResource(claims.op, claims.resource)
         /\ body["op"] = claims.op /\ body["jti"] = claims.jti /\ body["service_did"] = claims.aud
         /\ body["lifetime_seconds"] \in DOMAIN Number
         /\ Number[body["lifetime_seconds"]] = claims.exp - claims.iat /\ claims.exp - claims.iat \in 1..Longest
         /\ DOMAIN body = {"op", "jti", "service_did", "lifetime_seconds"}
                          \union (IF claims.resource = None THEN {} ELSE {"resource"})
         /\ claims.resource # None => body["resource"] = claims.resource
<1> DEFINE span  == CHOOSE t \in DOMAIN Number : Number[t] = claims.exp - claims.iat
           pairs == {<<"op", claims.op>>, <<"jti", claims.jti>>, <<"service_did", claims.aud>>,
                     <<"lifetime_seconds", span>>} \union Cmd!Given("resource", claims.resource)
           body  == Cmd!Body(pairs)
<1>1. /\ Cmd!IsText(claims.jti) /\ Cmd!IsText(claims.aud) /\ Cmd!HasItsResource(claims.op, claims.resource)
      /\ Cmd!SignRequest(claims) = body /\ claims.exp - claims.iat \in 1..Longest
  BY DEF Cmd!SignRequest
<1>2. span \in DOMAIN Number /\ Number[span] = claims.exp - claims.iat
  BY <1>1 DEF CommandConstants
<1> HIDE DEF span
<1>3. Cmd!Given("resource", claims.resource) = IF claims.resource = None THEN {} ELSE {<<"resource", claims.resource>>}
  BY DEF Cmd!Given
<1>4. \A p, q \in pairs : p[1] = q[1] => p = q
  BY <1>3
<1>5. /\ DOMAIN body = {p[1] : p \in pairs}
      /\ \A p \in pairs : body[p[1]] = p[2]
  <2> HIDE DEF pairs
  <2> QED BY <1>4, BodyIs
<1> HIDE DEF body
<1>6. /\ body["op"] = claims.op /\ body["jti"] = claims.jti /\ body["service_did"] = claims.aud
      /\ body["lifetime_seconds"] = span /\ (claims.resource # None => body["resource"] = claims.resource)
  <2>1. \A m, v : <<m, v>> \in pairs => body[m] = v
    <3> TAKE m, v
    <3> HAVE <<m, v>> \in pairs
    <3>1. <<m, v>>[1] = m /\ <<m, v>>[2] = v
      OBVIOUS
    <3> HIDE DEF pairs
    <3> QED BY <1>5, <3>1
  <2> QED BY <1>3, <2>1
<1>7. DOMAIN body = {"op", "jti", "service_did", "lifetime_seconds"}
                    \union (IF claims.resource = None THEN {} ELSE {"resource"})
  <2> DEFINE fixed == {<<"op", claims.op>>, <<"jti", claims.jti>>, <<"service_did", claims.aud>>,
                       <<"lifetime_seconds", span>>}
  <2>1. {p[1] : p \in fixed} = {"op", "jti", "service_did", "lifetime_seconds"}
    OBVIOUS
  <2>2. {p[1] : p \in Cmd!Given("resource", claims.resource)} =
          IF claims.resource = None THEN {} ELSE {"resource"}
    <3>1. CASE claims.resource = None
      BY <1>3, <3>1
    <3>2. CASE claims.resource # None
      <4>1. {p[1] : p \in {<<"resource", claims.resource>>}} = {"resource"}
        OBVIOUS
      <4> QED BY <1>3, <3>2, <4>1
    <3> QED BY <3>1, <3>2
  <2>3. pairs = fixed \union Cmd!Given("resource", claims.resource)
    OBVIOUS
  <2> HIDE DEF fixed, pairs
  <2>4. {p[1] : p \in pairs} = {p[1] : p \in fixed} \union {p[1] : p \in Cmd!Given("resource", claims.resource)}
    BY <2>3
  <2> QED BY <1>5, <2>1, <2>2, <2>4
<1> QED BY <1>1, <1>2, <1>6, <1>7

(* The Platform knows the principal, and the command has its key.          *)
Identified(who) == {who.key, who.subject} \intersect {None, ""} = {}
LEMMA KeyedIs ==
  ASSUME NEW who, Identified(who), NEW x PROVE Cmd!Keyed(who, x) = x
BY Zenon DEF Identified, Cmd!Keyed

(* A Platform reads in a request to sign what the Agent asked for, and has *)
(* just that signed, for the identity it is asked to sign for, while the   *)
(* identity is active and of that Service, or refuses; what it refuses as  *)
(* unreadable asks for more time than the Platform's maximum or is for a   *)
(* Service that cannot be found (createDelegatedPlatformSigner,            *)
(* parsePlatformSignRequestBody, and sign of createAepPlatform).           *)
THEOREM AsksAreHonoured ==
  ASSUME CommandConstants, NEW claims, claims.op \in Cmd!Operations,
         claims.resource = None \/ Cmd!IsText(claims.resource), Cmd!SignRequest(claims) # None,
         NEW maximum \in Nat \union {None}, NEW who, Identified(who), NEW rec
  PROVE  LET reply == Cmd!Sign(Cmd!SignRequest(claims), maximum, who, rec) IN
         /\ reply.status = 200 =>
              /\ reply.body = [iss |-> rec.did, sub |-> rec.did, aud |-> claims.aud, op |-> claims.op,
                               jti |-> claims.jti, resource |-> claims.resource,
                               lifetime |-> claims.exp - claims.iat]
              /\ rec # None /\ who.allowed /\ rec.status = "active" /\ rec.service = claims.aud
         /\ reply.status = 400 =>
              \/ maximum # None /\ claims.exp - claims.iat > maximum
              \/ claims.aud \notin Resolvable
<1> DEFINE body    == Cmd!SignRequest(claims)
           parsed  == Cmd!ReadSign(body, maximum)
           span    == claims.exp - claims.iat
           meant   == [op |-> claims.op, jti |-> claims.jti, service |-> claims.aud,
                       resource |-> claims.resource, lifetime |-> span]
           reply   == Cmd!Sign(body, maximum, who, rec)
<1>1. /\ Cmd!IsText(claims.jti) /\ Cmd!IsText(claims.aud) /\ Cmd!HasItsResource(claims.op, claims.resource)
      /\ body["op"] = claims.op /\ body["jti"] = claims.jti /\ body["service_did"] = claims.aud
      /\ body["lifetime_seconds"] \in DOMAIN Number
      /\ Number[body["lifetime_seconds"]] = span
      /\ DOMAIN body = {"op", "jti", "service_did", "lifetime_seconds"}
                       \union (IF claims.resource = None THEN {} ELSE {"resource"})
      /\ claims.resource # None => body["resource"] = claims.resource
  BY SignRequestIs
<1>2. body # None /\ span \in 1..Longest
  BY SignRequestIs
<1> HIDE DEF body, span
<1>3. /\ Cmd!At(body, "op") = claims.op /\ Cmd!At(body, "jti") = claims.jti
      /\ Cmd!At(body, "service_did") = claims.aud /\ Cmd!At(body, "resource") = claims.resource
      /\ Cmd!At(body, "lifetime_seconds") = body["lifetime_seconds"]
      /\ body["lifetime_seconds"] # None
      /\ {"resource", "platform_context"} \intersect DOMAIN body =
           IF claims.resource = None THEN {} ELSE {"resource"}
  BY <1>1 DEF Cmd!At, CommandConstants
<1>4. parsed = IF maximum = None \/ span <= maximum THEN meant ELSE None
  <2>1. \A m \in {"resource", "platform_context"} \intersect DOMAIN body : Cmd!IsText(body[m])
    BY <1>1, <1>3
  <2>2. span <= Longest /\ span \in Nat /\ Longest \in Nat
    BY <1>2 DEF CommandConstants
  <2>3. \A m \in {"jti", "service_did"} : Cmd!IsText(Cmd!At(body, m))
    BY <1>1, <1>3
  <2>4. parsed = IF span <= IF maximum = None THEN Longest ELSE maximum THEN meant ELSE None
    BY <1>1, <1>2, <1>3, <2>1, <2>2, <2>3 DEF Cmd!ReadSign
  <2> QED BY <2>2, <2>4
<1>5. meant # None /\ meant.service = claims.aud /\ meant.op = claims.op /\ meant.jti = claims.jti
      /\ meant.resource = claims.resource /\ meant.lifetime = span
  BY DEF CommandConstants
<1> HIDE DEF parsed, meant, reply
<1>6. CASE parsed = None
  <2>1. reply = Cmd!Invalid
    BY <1>6 DEF reply, parsed, Cmd!Sign
  <2>2. reply.status = 400
    BY <2>1 DEF Cmd!Invalid, Cmd!Problem
  <2>3. maximum # None /\ ~(span <= maximum)
    BY <1>4, <1>5, <1>6
  <2>4. span \in Nat /\ maximum \in Nat
    BY <1>2, <2>3 DEF CommandConstants
  <2>5. maximum # None /\ span > maximum
    BY <2>3, <2>4
  <2> QED BY <2>2, <2>5 DEF span, reply, body
<1>7. CASE parsed = meant
  <2> DEFINE granted == Cmd!AuthorizedIdentity(rec, who)
  <2>1. CASE granted = None \/ granted.service # claims.aud
    <3>1. reply = Cmd!NotRecognized
      BY <1>5, <1>7, <2>1 DEF reply, parsed, Cmd!Sign
    <3>2. reply.status = 404
      BY <3>1 DEF Cmd!NotRecognized, Cmd!Problem
    <3> QED BY <3>2 DEF reply, body
  <2>2. CASE granted # None /\ granted.service = claims.aud
    <3>1. rec # None /\ who.allowed /\ granted = rec
      BY <2>2 DEF Cmd!AuthorizedIdentity
    <3> DEFINE told == IF rec.status # "active" THEN Cmd!Problem(403, Cmd!LifecycleProblem(rec.status))
                       ELSE IF meant.service \notin Resolvable THEN Cmd!Invalid
                       ELSE Cmd!Ok([iss |-> rec.did, sub |-> rec.did, aud |-> meant.service, op |-> meant.op,
                                    jti |-> meant.jti, resource |-> meant.resource,
                                    lifetime |-> meant.lifetime])
    <3>2. reply = told
      <4>1. reply = Cmd!Keyed(who, told)
        BY <1>5, <1>7, <2>2, <3>1 DEF reply, parsed, Cmd!Sign
      <4> HIDE DEF told
      <4> QED BY <4>1, KeyedIs
    <3>3. CASE rec.status # "active"
      BY <3>2, <3>3 DEF Cmd!Problem, reply, body
    <3>4. CASE rec.status = "active" /\ claims.aud \notin Resolvable
      BY <1>5, <3>2, <3>4 DEF Cmd!Invalid, Cmd!Problem, reply, body
    <3>5. CASE rec.status = "active" /\ claims.aud \in Resolvable
      BY <1>5, <2>2, <3>1, <3>2, <3>5 DEF Cmd!Ok, reply, body, span
    <3> QED BY <3>3, <3>4, <3>5
  <2> QED BY <2>1, <2>2
<1> QED BY <1>4, <1>6, <1>7

=============================================================================

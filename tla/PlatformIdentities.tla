-------------------------- MODULE PlatformIdentities --------------------------
(***************************************************************************)
(* A Platform's managed identities (packages/platform/src/index.ts,        *)
(* createAepPlatform): provision, sign, update and hosted verification     *)
(* over an identity store, a key store, a replay store and the in-memory   *)
(* idempotency store, for one authorized principal.  Every await of a      *)
(* store, the resolver or the policy ends a step.                          *)
(*                                                                         *)
(* An assertion is its identity, jti and expiry: what verification reads   *)
(* beyond that (signature, audience, op, resource) is taken to match.      *)
(* Requests that do not parse or are not authorized change nothing.        *)
(***************************************************************************)
EXTENDS Naturals

CONSTANTS
  Calls, Keys, Services, Ids, Jtis, None,
  MayTransition,  \* lifecyclePolicy.canTransition: pairs of statuses
  Retention,      \* idempotencyRetentionSeconds
  Lifetime,       \* of an assertion
  MaxTime         \* bound on the clock

Statuses == {"active", "suspended", "terminated"}

ASSUME PlatformAssumption ==
  /\ MayTransition \subseteq Statuses \X Statuses
  /\ Retention \in Nat \ {0} /\ Lifetime \in Nat \ {0} /\ MaxTime \in Nat

VARIABLES
  now,
  identity,  \* the identity store: identity[i] is a record or None
  keyed,     \* the key store: the identities that have a key
  signed,    \* the assertions signed so far
  replay,    \* the replay store: replay[i, j], the expiry it was consumed with
  record,    \* the idempotency store: record[k], or None
  pending,   \* pending[k]: the call whose callback runs under k
  stage, request, key, answer,  \* of each call
  seen,      \* seen[c]: the identity record call c was authorized on
  asked,     \* asked[c]: `now` of the idempotency request of c
  fresh,     \* fresh[c]: the identity that provision c is creating
  activeIn,  \* history: was the identity of c active at some moment of c?
  known,     \* history: the identities in the store when provision c looked
  kept,      \* history: until when the record of c is kept
  consumed   \* history: when verification c consumed its assertion

stores == <<now, identity, keyed, signed, replay>>
idempotency == <<record, pending>>
calls == <<stage, request, key, answer>>
locals == <<seen, asked, fresh>>
history == <<known, kept, consumed>>
vars == <<stores, idempotency, calls, locals, activeIn, history>>

Updates == [op : {"update"}, id : Ids, status : Statuses]
Target(req) == CASE req.op = "verify" -> req.assertion.id
                 [] req.op \in {"sign", "update"} -> req.id

Identities == [service : Services, status : Statuses]
Assertions == [id : Ids, jti : Jtis, exp : Nat]
Requests ==
  [op : {"provision"}, service : Services] \union [op : {"sign"}, id : Ids, jti : Jtis]
    \union [op : {"verify"}, assertion : Assertions] \union Updates
Bodies ==
  [is : {"not_recognized", "invalid_request", "identity_unavailable", "verified"}]
    \union [is : {"identity"}, id : Ids] \union [is : {"assertion"}, assertion : Assertions]
Records == [request : Requests, body : Bodies, expires : Nat]

ASSUME NoneAssumption ==
  None \notin Calls \union Keys \union Ids \union Nat \union Identities \union Requests
                \union Bodies \union Records

Plain(what) == [is |-> what]
Reply(state, body) == [state |-> state, body |-> body]

-----------------------------------------------------------------------------
(* A Platform starts empty, or with an active identity that has signed.    *)
Init ==
  /\ now = 0
  /\ \/ /\ identity = [i \in Ids |-> None]
        /\ keyed = {} /\ signed = {}
     \/ \E i \in Ids, s \in Services, j \in Jtis :
          /\ identity = [k \in Ids |-> IF k = i THEN [service |-> s, status |-> "active"] ELSE None]
          /\ keyed = {i} /\ signed = {[id |-> i, jti |-> j, exp |-> Lifetime]}
  /\ replay = [ij \in Ids \X Jtis |-> None]
  /\ record = [k \in Keys |-> None]
  /\ pending = [k \in Keys |-> None]
  /\ stage = [c \in Calls |-> "idle"]
  /\ request = [c \in Calls |-> None]
  /\ key = [c \in Calls |-> None]
  /\ answer = [c \in Calls |-> None]
  /\ seen = [c \in Calls |-> None]
  /\ asked = [c \in Calls |-> 0]
  /\ fresh = [c \in Calls |-> None]
  /\ activeIn = [c \in Calls |-> FALSE]
  /\ known = [c \in Calls |-> {}]
  /\ kept = [c \in Calls |-> 0]
  /\ consumed = [c \in Calls |-> None]

Go(c, s) == stage' = [stage EXCEPT ![c] = s]
Done(c, reply) == Go(c, "done") /\ answer' = [answer EXCEPT ![c] = reply]

Tick ==
  /\ now < MaxTime
  /\ now' = now + 1
  /\ UNCHANGED <<identity, keyed, signed, replay, idempotency, calls, locals, history>>

(* A request arrives with its Idempotency-Key.  Sign and verify read the   *)
(* identity and have it authorized first; provision has none to read.      *)
Arrive(c, k, req) ==
  /\ stage[c] = "idle"
  /\ request' = [request EXCEPT ![c] = req]
  /\ key' = [key EXCEPT ![c] = k]
  /\ IF req.op = "provision" THEN Go(c, "authorized") /\ UNCHANGED <<seen, answer>>
     ELSE IF identity[Target(req)] = None
       THEN Done(c, Reply("refused", Plain("not_recognized"))) /\ UNCHANGED seen
       ELSE /\ Go(c, "authorized")
            /\ seen' = [seen EXCEPT ![c] = identity[Target(req)]]
            /\ UNCHANGED answer
  /\ UNCHANGED <<stores, idempotency, asked, fresh, history>>

-----------------------------------------------------------------------------
(* execute() of the in-memory idempotency store.                           *)
UnexpiredMutant(rec, time) == rec # None /\ rec.expires > time + 1
Unexpired(rec, time) == rec # None /\ rec.expires > time

LookUp(c, time) ==
  LET k == key[c]
      rec == record[k] IN
  \/ /\ pending[k] # None
     /\ Go(c, "waiting")
     /\ UNCHANGED <<answer, pending>>
  \/ /\ pending[k] = None /\ Unexpired(rec, time)
     /\ IF rec.request = request[c]
          THEN Done(c, Reply("replayed", rec.body))
          ELSE Done(c, Reply("conflict", None))
     /\ UNCHANGED pending
  \/ /\ pending[k] = None /\ ~Unexpired(rec, time)
     /\ Go(c, "running")
     /\ pending' = [pending EXCEPT ![k] = c]
     /\ UNCHANGED answer

(* The clock is read when the request enters the store, not after a wait.  *)
Enter(c) ==
  /\ stage[c] = "authorized" /\ request[c].op # "update"
  /\ asked' = [asked EXCEPT ![c] = now]
  /\ LookUp(c, now)
  /\ UNCHANGED <<stores, record, request, key, seen, fresh, history>>

Wake(c) ==
  /\ stage[c] = "waiting" /\ pending[key[c]] = None
  /\ LookUp(c, asked[c])
  /\ UNCHANGED <<stores, record, request, key, locals, history>>

(* The callback returns: the response is recorded for the retention time.  *)
Finish(c, body) ==
  /\ record' = [record EXCEPT ![key[c]] =
                  [request |-> request[c], body |-> body, expires |-> now + Retention]]
  /\ pending' = [pending EXCEPT ![key[c]] = None]
  /\ Done(c, Reply("created", body))
  /\ kept' = [kept EXCEPT ![c] = now + Retention]

(* The callback throws: the reservation is released, nothing is recorded.  *)
Throw(c) ==
  /\ stage[c] \in {"running", "found none", "key created"} /\ request[c].op # "verify"
  /\ pending' = [pending EXCEPT ![key[c]] = None]
  /\ Done(c, Reply("threw", None))
  /\ UNCHANGED <<stores, record, request, key, locals, history>>

-----------------------------------------------------------------------------
(* Provision: the resolver declines the Service DID.                       *)
ProvisionUnresolved(c) ==
  /\ stage[c] = "running" /\ request[c].op = "provision"
  /\ Finish(c, Plain("invalid_request"))
  /\ UNCHANGED <<stores, request, key, locals, known, consumed>>

Of(service) == {i \in Ids : identity[i] # None /\ identity[i].service = service}

(* Provision looks for an identity of the Service: it answers with that    *)
(* one, or generates the identifiers of a new one.                         *)
ProvisionFindMutant(c) ==
  /\ stage[c] = "running" /\ request[c].op = "provision"
  /\ known' = [known EXCEPT ![c] = {i \in Ids : identity[i] # None}]
  /\ \E i \in Ids : /\ identity[i] = None /\ \A d \in Calls : fresh[d] # i
                    /\ fresh' = [fresh EXCEPT ![c] = i]
  /\ Go(c, "found none")
  /\ UNCHANGED <<idempotency, answer, kept>>
  /\ UNCHANGED <<stores, request, key, seen, asked, consumed>>
ProvisionFind(c) ==
  LET existing == Of(request[c].service) IN
  /\ stage[c] = "running" /\ request[c].op = "provision"
  /\ known' = [known EXCEPT ![c] = {i \in Ids : identity[i] # None}]
  /\ \/ /\ \E i \in existing : Finish(c, [is |-> "identity", id |-> i])
        /\ UNCHANGED fresh
     \/ /\ existing = {}
        /\ \E i \in Ids : /\ identity[i] = None /\ \A d \in Calls : fresh[d] # i
                          /\ fresh' = [fresh EXCEPT ![c] = i]
        /\ Go(c, "found none")
        /\ UNCHANGED <<idempotency, answer, kept>>
  /\ UNCHANGED <<stores, request, key, seen, asked, consumed>>

(* The key store creates the key before the identity store has a record.   *)
ProvisionKeyMutant(c) ==
  /\ stage[c] = "found none"
  /\ identity' = [identity EXCEPT ![fresh[c]] =
                    [service |-> request[c].service, status |-> "active"]]
  /\ Go(c, "key created")
  /\ UNCHANGED <<now, keyed, signed, replay, idempotency, request, key, answer, locals, history>>
ProvisionKey(c) ==
  /\ stage[c] = "found none"
  /\ keyed' = keyed \union {fresh[c]}
  /\ Go(c, "key created")
  /\ UNCHANGED <<now, identity, signed, replay, idempotency, request, key, answer, locals, history>>

ProvisionCreate(c) ==
  /\ stage[c] = "key created"
  /\ identity' = [identity EXCEPT ![fresh[c]] =
                    [service |-> request[c].service, status |-> "active"]]
  /\ Finish(c, [is |-> "identity", id |-> fresh[c]])
  /\ UNCHANGED <<now, keyed, signed, replay, request, key, locals, known, consumed>>

(* Sign: the status check and the signature rest on the record read on     *)
(* arrival; a lost key makes the key store throw.                          *)
SignBodyMutant(c) ==
  LET req == request[c]
      made == [id |-> req.id, jti |-> req.jti, exp |-> now + Lifetime] IN
  /\ stage[c] = "running" /\ req.op = "sign"
  /\ signed' = signed \union {made}
  /\ Finish(c, [is |-> "assertion", assertion |-> made])
  /\ UNCHANGED <<now, identity, keyed, replay, request, key, locals, known, consumed>>
SignBody(c) ==
  LET req == request[c]
      made == [id |-> req.id, jti |-> req.jti, exp |-> now + Lifetime] IN
  /\ stage[c] = "running" /\ req.op = "sign"
  /\ IF seen[c].status # "active"
       THEN Finish(c, Plain("identity_unavailable")) /\ UNCHANGED signed
       ELSE \/ Finish(c, Plain("invalid_request")) /\ UNCHANGED signed   \* Service not resolved
            \/ /\ req.id \in keyed
               /\ signed' = signed \union {made}
               /\ Finish(c, [is |-> "assertion", assertion |-> made])
  /\ UNCHANGED <<now, identity, keyed, replay, request, key, locals, known, consumed>>

(* Verify: status and expiry are checked, the expiry at this moment.       *)
VerifyCheck(c) ==
  LET a == request[c].assertion IN
  /\ stage[c] = "running" /\ request[c].op = "verify"
  /\ IF seen[c].status = "active" /\ now < a.exp
       THEN Go(c, "checked") /\ UNCHANGED <<idempotency, answer, kept>>
       ELSE Finish(c, Plain("not_recognized"))
  /\ UNCHANGED <<stores, request, key, locals, known, consumed>>

(* The replay store consumes the assertion, forgetting what has expired by *)
(* now (the store of examples/aep-platform-ephemeral).                     *)
RemembersMutant(ij) == replay[ij] # None /\ replay[ij] > now + 1
Remembers(ij) == replay[ij] # None /\ replay[ij] > now
VerifyConsume(c) ==
  LET a == request[c].assertion
      ij == <<a.id, a.jti>> IN
  /\ stage[c] = "checked"
  /\ IF Remembers(ij)
       THEN Finish(c, Plain("not_recognized")) /\ UNCHANGED <<replay, consumed>>
       ELSE /\ replay' = [replay EXCEPT ![ij] = a.exp]
            /\ consumed' = [consumed EXCEPT ![c] = now]
            /\ Finish(c, Plain("verified"))
  /\ UNCHANGED <<now, identity, keyed, signed, request, key, locals, known>>

(* What throws within a verification, the key store, the policy or the     *)
(* replay store, is answered, and recorded, as "not recognized".           *)
VerifyFail(c) ==
  /\ stage[c] \in {"running", "checked"} /\ request[c].op = "verify"
  /\ Finish(c, Plain("not_recognized"))
  /\ UNCHANGED <<stores, request, key, locals, known, consumed>>

-----------------------------------------------------------------------------
(* Update: the policy decides on the record read on arrival, then the      *)
(* store sets the status of whatever record there is.                      *)
PolicyAllowsMutant(c) == TRUE
PolicyAllows(c) == <<seen[c].status, request[c].status>> \in MayTransition
UpdateArrive(c, req) ==
  /\ stage[c] = "idle"
  /\ request' = [request EXCEPT ![c] = req]
  /\ IF identity[req.id] = None
       THEN Done(c, Reply("refused", Plain("not_recognized"))) /\ UNCHANGED seen
       ELSE /\ Go(c, "authorized")
            /\ seen' = [seen EXCEPT ![c] = identity[req.id]]
            /\ UNCHANGED answer
  /\ UNCHANGED <<stores, idempotency, key, asked, fresh, history>>
UpdateDecide(c) ==
  /\ stage[c] = "authorized" /\ request[c].op = "update"
  /\ IF PolicyAllows(c) THEN Go(c, "updating") /\ UNCHANGED answer
     ELSE Done(c, Reply("refused", Plain("identity_unavailable")))
  /\ UNCHANGED <<stores, idempotency, request, key, locals, history>>
UpdateWrite(c) ==
  /\ stage[c] = "updating"
  /\ identity' = [identity EXCEPT ![request[c].id].status = request[c].status]
  /\ Done(c, Reply("updated", None))
  /\ UNCHANGED <<now, keyed, signed, replay, idempotency, request, key, locals, history>>

(* History: the identity of a call under way was active before or after    *)
(* this step.                                                              *)
ActiveFor(c) ==
  /\ stage[c] # "done" /\ stage'[c] # "idle"
  /\ request'[c].op \in {"sign", "verify"}
  /\ LET i == Target(request'[c]) IN
       \E rec \in {identity[i], identity'[i]} : rec # None /\ rec.status = "active"
Observe == activeIn' = [c \in Calls |-> activeIn[c] \/ ActiveFor(c)]

CallSteps(c) ==
  \/ \E k \in Keys :
       \/ \E s \in Services : Arrive(c, k, [op |-> "provision", service |-> s])
       \/ \E i \in Ids, j \in Jtis : Arrive(c, k, [op |-> "sign", id |-> i, jti |-> j])
       \/ \E a \in signed : Arrive(c, k, [op |-> "verify", assertion |-> a])
  \/ Enter(c) \/ Wake(c) \/ Throw(c)
  \/ ProvisionUnresolved(c) \/ ProvisionFind(c) \/ ProvisionKey(c) \/ ProvisionCreate(c)
  \/ SignBody(c) \/ VerifyCheck(c) \/ VerifyConsume(c) \/ VerifyFail(c)
  \/ \E req \in Updates : UpdateArrive(c, req)
  \/ UpdateDecide(c) \/ UpdateWrite(c)

Next == (Tick \/ \E c \in Calls : CallSteps(c)) /\ Observe

Spec == Init /\ [][Next]_vars

-----------------------------------------------------------------------------
Stages == {"idle", "authorized", "waiting", "running", "found none", "key created", "checked",
           "updating", "done"}
Answers ==
  [state : {"created", "replayed"}, body : Bodies]
    \union [state : {"refused", "conflict", "threw", "updated"}, body : Bodies \union {None}]
TypeOK ==
  /\ now \in Nat
  /\ identity \in [Ids -> Identities \union {None}]
  /\ keyed \subseteq Ids /\ signed \subseteq Assertions
  /\ replay \in [Ids \X Jtis -> Nat \union {None}]
  /\ record \in [Keys -> Records \union {None}] /\ pending \in [Keys -> Calls \union {None}]
  /\ stage \in [Calls -> Stages] /\ request \in [Calls -> Requests \union {None}]
  /\ key \in [Calls -> Keys \union {None}] /\ answer \in [Calls -> Answers \union {None}]
  /\ seen \in [Calls -> Identities \union {None}] /\ asked \in [Calls -> Nat]
  /\ fresh \in [Calls -> Ids \union {None}] /\ activeIn \in [Calls -> BOOLEAN]
  /\ known \in [Calls -> SUBSET Ids] /\ kept \in [Calls -> Nat]
  /\ consumed \in [Calls -> Nat \union {None}]

Ran(c) == stage[c] = "done" /\ answer[c].state = "created"
Answered(c, what) ==
  stage[c] = "done" /\ answer[c].state \in {"created", "replayed"} /\ answer[c].body.is = what

(* A callback runs again under a key only for a request that came after    *)
(* the record of the first had expired, and callbacks of a key never       *)
(* overlap; until then every retry gets the recorded body.                 *)
RunsOncePerRetention ==
  /\ \A c, d \in Calls :
       c # d /\ Ran(c) /\ Ran(d) /\ key[c] = key[d] => asked[d] >= kept[c] \/ asked[c] >= kept[d]
  /\ \A c \in Calls :
       stage[c] = "done" /\ answer[c].state = "replayed" =>
         \E d \in Calls \ {c} :
           /\ Ran(d) /\ key[d] = key[c] /\ asked[c] < kept[d]
           /\ request[d] = request[c] /\ answer[d].body = answer[c].body

(* An identity that has been answered or stored can be used: it has a key, *)
(* and an answered one is in the store under the Service asked for.        *)
ProvisionedIsUsable ==
  /\ \A i \in Ids : identity[i] # None => i \in keyed
  /\ \A c \in Calls :
       Answered(c, "identity") =>
         LET i == answer[c].body.id IN
         identity[i] # None /\ identity[i].service = request[c].service

(* Two identities for one Service come only from provisions that each      *)
(* looked before the other had created.                                    *)
DuplicatesOnlyFromRaces ==
  \A c, d \in Calls :
    LET i == fresh[c]
        j == fresh[d] IN
    /\ i # None /\ j # None /\ i # j
    /\ identity[i] # None /\ identity[j] # None /\ identity[i].service = identity[j].service
    => i \notin known[d] /\ j \notin known[c]

(* An assertion is signed, or found verified, only if its identity was     *)
(* active at some moment of that very request.                             *)
SignedWhileActive ==
  \A c \in Calls :
    Ran(c) /\ answer[c].body.is \in {"assertion", "verified"} => activeIn[c]

(* One assertion is found verified by two callbacks only if the later one  *)
(* reached the replay store when the assertion had already expired.        *)
VerifiedTwiceOnlyLate ==
  \A c, d \in Calls :
    c # d /\ consumed[c] # None /\ consumed[d] # None
      /\ request[c].assertion = request[d].assertion =>
         consumed[c] >= request[c].assertion.exp \/ consumed[d] >= request[d].assertion.exp

(* Under a policy that lets nothing leave "terminated", an identity leaves *)
(* it only by an update that was authorized before it was terminated.      *)
TerminationStands ==
  [][\A i \in Ids :
       identity[i] # None /\ identity[i].status = "terminated"
         /\ identity'[i].status # "terminated" =>
         \E c \in Calls : stage[c] = "updating" /\ stage'[c] = "done"
                          /\ request[c].id = i /\ seen[c].status # "terminated"]_vars
=============================================================================

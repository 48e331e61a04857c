-------------------------- MODULE ServiceEnrollment --------------------------
(***************************************************************************)
(* Enroll and Grant at a Service, for one Agent                            *)
(* (packages/service/src/index.ts, handleEnrollRequest and                 *)
(* handleGrantRequest), with the operator who owns the lifecycle of the    *)
(* stored enrollment.  Both commands run under CommandIdempotency; each    *)
(* await of the enrollment store, the policy or the grant handler ends a   *)
(* step, so that other calls and the operator act in between.  A body that *)
(* throws keeps what it did before: a store may write and its promise      *)
(* still reject, a grant handler may issue and then throw.                 *)
(*                                                                         *)
(* A claim is its name, a document its identifier.  "suspended" stands     *)
(* for terminated and unavailable too, which the handlers treat alike.     *)
(* ownerActionRequired and the pending lists are left out: no guard reads  *)
(* them.  Malformed requests are answered 400 before anything happens.     *)
(***************************************************************************)
EXTENDS Naturals, FiniteSets

CONSTANTS
  Calls, Keys, None,
  Claims, RequiredClaims,        \* claim names; the Service's required ones
  Docs, RequiredDocs,            \* the catalog; its required documents
  Declarations,                  \* sets of identifiers an Enroll may declare
  Decisions,                     \* what the enrollment policy may decide
  MaxMoves                       \* bound: writes by the operator

ASSUME RequiredAssumption ==
  RequiredClaims \subseteq Claims /\ RequiredDocs \subseteq Docs

Statuses == {"active", "pending", "rejected", "suspended"}

(* A request, as withIdempotency hashes it: the command and its body.      *)
EnrollRequests ==
  [op : {"enroll"}, claims : SUBSET Claims,
   declared : Declarations \union {None}]
GrantRequests == [op : {"grant"}]
Requests == EnrollRequests \union GrantRequests
Answered == {"enrolled", "unchanged", "enrollment_failed", "requirements_unmet", "granted"}

Enrollments ==
  [claims : SUBSET Claims, acknowledged : SUBSET Docs, required : SUBSET Docs,
   status : Statuses, since : Calls]

VARIABLES
  enrollment,  \* the Agent's record in the enrollment store, or None
  seen,        \* seen[c]: the record call c read, until its body ends
  decision,    \* decision[c]: what the policy decided for Enroll c
  step,        \* step[c]: where the body of Enroll c is
  refused,     \* refused[c]: a Grant answered before the idempotency store
  moves,       \* operator writes so far
  input, record, answer, pending, pc, waitsOn,  \* CommandIdempotency
  activeIn,    \* history: was the enrollment active during call c?
  eligibleIn,  \* history: and its requirements met?
  rivals,      \* history: Enrolls between their read and write when c wrote
  effects      \* history: the calls whose bodies have written or issued

idemVars == <<input, record, answer, pending, pc, waitsOn>>
bodyVars == <<seen, decision, step>>
vars == <<enrollment, seen, decision, step, refused, moves,
          input, record, answer, pending, pc, waitsOn, activeIn, eligibleIn, rivals, effects>>

Idem == INSTANCE CommandIdempotency WITH Materials <- Requests, Responses <- Answered

ASSUME MaxMovesAssumption == MaxMoves \in Nat
ASSUME DecisionAssumption ==
  Decisions \subseteq [status : {"active", "pending", "rejected"}, update : BOOLEAN]

(* None is no call, record, request, answer or lifecycle.                  *)
ASSUME NoneIsNoValue ==
  /\ None \notin Calls
  /\ None \notin Enrollments
  /\ None \notin [key : Keys, material : Requests]
  /\ None \notin [material : Requests, response : Answered]
  /\ \A s \in {"created", "replayed", "conflict", "threw"} :
       \A r \in Answered \union {None} : None # [state |-> s, response |-> r]
  /\ \A s \in Statuses : \A c \in Calls : None # <<s, c>>

Req(c) == input[c].material
IsEnroll(c) == pc[c] # "idle" /\ Req(c).op = "enroll"
IsGrant(c) == pc[c] # "idle" /\ Req(c).op = "grant"

-----------------------------------------------------------------------------
(* missingAepRequiredClaimNames over the stored and the supplied claims.   *)
MissingClaimsMutant(claims) == {}
MissingClaims(claims) == RequiredClaims \ claims

(* missingDocumentIds: never acknowledged, or demanded again.              *)
MissingDocs(rec) ==
  IF rec = None THEN RequiredDocs
  ELSE {d \in RequiredDocs : d \notin rec.acknowledged \/ d \in rec.required}

ClaimsOf(rec) == IF rec = None THEN {} ELSE rec.claims

(* Does an Enroll leave a requirement open?  Any explicit declaration      *)
(* settles the documents, whatever it lists.                               *)
Unmet(c) ==
  \/ MissingClaims(ClaimsOf(seen[c]) \union Req(c).claims) # {}
  \/ Req(c).declared = None /\ MissingDocs(seen[c]) # {}

(* Are the documents of Enroll c's declaration recorded?                   *)
Accepts(c) == Req(c).declared # None /\ decision[c].status # "rejected"

(* The fields of the record Enroll c saves: claims merged into what it     *)
(* read, the catalog's declared documents added, demands met struck out,   *)
(* the status kept unless the enrollment is new.                           *)
AllClaims(c) == ClaimsOf(seen[c]) \union Req(c).claims
AcknowledgedForgets(c) == IF Accepts(c) THEN Req(c).declared \intersect Docs ELSE {}
Acknowledged(c) ==
  (IF seen[c] = None THEN {} ELSE seen[c].acknowledged)
    \union (IF Accepts(c) THEN Req(c).declared \intersect Docs ELSE {})
DemandsMutant(c) == {}
Demands(c) ==
  (IF seen[c] = None THEN {} ELSE seen[c].required)
    \ (IF Accepts(c) THEN Req(c).declared ELSE {})
KeptStatusMutant(c) == decision[c].status
KeptStatus(c) == IF seen[c] = None THEN decision[c].status ELSE seen[c].status

Merged(c) ==
  [claims       |-> AllClaims(c),
   acknowledged |-> Acknowledged(c),
   required     |-> Demands(c),
   status       |-> KeptStatus(c),
   since        |-> IF seen[c] = None THEN c ELSE seen[c].since]

-----------------------------------------------------------------------------
Init ==
  /\ enrollment = None
  /\ seen = [c \in Calls |-> None]
  /\ decision = [c \in Calls |-> None]
  /\ step = [c \in Calls |-> "none"]
  /\ refused = [c \in Calls |-> FALSE]
  /\ moves = 0
  /\ Idem!Init
  /\ activeIn = [c \in Calls |-> FALSE]
  /\ eligibleIn = [c \in Calls |-> FALSE]
  /\ rivals = [c \in Calls |-> {}]
  /\ effects = {}

(* The body of c ends: it returns a response, which the store records, or  *)
(* it throws.                                                              *)
Leave(c) == step' = [step EXCEPT ![c] = "done"] /\ seen' = [seen EXCEPT ![c] = None]
Respond(c, response) == Idem!Succeed(c, response) /\ Leave(c)
Throws(c) == Idem!Throw(c) /\ Leave(c)

(* Enroll enters the idempotency store without looking at the enrollment.  *)
EnrollArrive(c, key, request) ==
  /\ ~refused[c]
  /\ Idem!Arrive(c, [key |-> key, material |-> request])
  /\ UNCHANGED <<enrollment, bodyVars, refused, moves, rivals, effects>>

(* Grant reads the enrollment first: without one, or with one that is not  *)
(* active, it is answered 401 or 403, whatever its key has recorded.       *)
GrantArriveMutant(c, key) ==
  /\ ~refused[c]
  /\ Idem!Arrive(c, [key |-> key, material |-> [op |-> "grant"]])
  /\ enrollment # None
  /\ seen' = [seen EXCEPT ![c] = enrollment]
  /\ UNCHANGED <<enrollment, decision, step, refused, moves, rivals, effects>>
GrantArrive(c, key) ==
  /\ ~refused[c] /\ pc[c] = "idle"
  /\ IF enrollment # None /\ enrollment.status = "active"
       THEN /\ Idem!Arrive(c, [key |-> key, material |-> [op |-> "grant"]])
            /\ seen' = [seen EXCEPT ![c] = enrollment]
            /\ UNCHANGED refused
       ELSE /\ refused' = [refused EXCEPT ![c] = TRUE]
            /\ UNCHANGED <<idemVars, seen>>
  /\ UNCHANGED <<enrollment, decision, step, moves, rivals, effects>>

(* A call looks its key up, first or again after a wait.                   *)
ConsultMutant(c) ==
  /\ pc[c] = "arrived"
  /\ pc' = [pc EXCEPT ![c] = "running"]
  /\ pending' = [pending EXCEPT ![input[c].key] = c]
  /\ UNCHANGED <<input, record, answer, waitsOn>>
  /\ UNCHANGED <<enrollment, bodyVars, refused, moves, rivals, effects>>
Consult(c) ==
  /\ Idem!Enter(c) \/ Idem!Wake(c)
  /\ UNCHANGED <<enrollment, bodyVars, refused, moves, rivals, effects>>

(* Enroll's body reads the enrollment; a first Enroll that leaves a        *)
(* requirement open is answered before the policy is asked.                *)
EnrollFind(c) ==
  /\ pc[c] = "running" /\ IsEnroll(c) /\ step[c] = "none"
  /\ IF enrollment = None /\ Unmet(c)
       THEN Respond(c, "requirements_unmet")
       ELSE /\ seen' = [seen EXCEPT ![c] = enrollment]
            /\ step' = [step EXCEPT ![c] = "found"]
            /\ UNCHANGED idemVars
  /\ UNCHANGED <<enrollment, decision, refused, moves, rivals, effects>>

(* The policy has decided.                                                 *)
EnrollDecide(c, d) ==
  LET exists == seen[c] # None IN
  /\ pc[c] = "running" /\ step[c] = "found"
  /\ decision' = [decision EXCEPT ![c] = d]
  /\ \/ exists /\ d.status = "rejected" /\ Respond(c, "enrollment_failed")
     \/ exists /\ d.status # "rejected" /\ ~d.update /\ Respond(c, "unchanged")
     \/ /\ ~exists \/ (d.status # "rejected" /\ d.update)
        /\ IF Unmet(c) THEN Respond(c, "requirements_unmet")
           ELSE step' = [step EXCEPT ![c] = "saving"] /\ UNCHANGED <<idemVars, seen>>
  /\ UNCHANGED <<enrollment, refused, moves, rivals, effects>>

(* The body of c has its effect and responds, or, as the promise of the    *)
(* store or the handler is rejected all the same, throws.                  *)
Act(c, response) ==
  /\ effects' = effects \union {c}
  /\ Respond(c, response) \/ Throws(c)

(* The store writes the merged record, over whatever it holds by now.      *)
EnrollSave(c) ==
  /\ pc[c] = "running" /\ step[c] = "saving"
  /\ enrollment' = Merged(c)
  /\ Act(c, "enrolled")
  /\ rivals' = [rivals EXCEPT ![c] =
                  {d \in Calls \ {c} : pc[d] = "running" /\ step[d] \in {"found", "saving"}}]
  /\ UNCHANGED <<decision, refused, moves>>

(* Grant's body checks the requirements against the record read on         *)
(* arrival, then has the handler issue and keep a credential.              *)
GrantRun(c) ==
  /\ pc[c] = "running" /\ IsGrant(c)
  /\ IF MissingClaims(seen[c].claims) # {} \/ MissingDocs(seen[c]) # {}
       THEN Respond(c, "requirements_unmet") /\ UNCHANGED effects
       ELSE Act(c, "granted")
  /\ UNCHANGED <<enrollment, decision, refused, moves, rivals>>

(* A store, the policy or the grant handler throws inside a body, before   *)
(* anything is written or issued.                                          *)
BodyThrows(c) ==
  /\ Throws(c)
  /\ UNCHANGED <<enrollment, decision, refused, moves, rivals, effects>>

(* The operator changes the lifecycle status, or demands a document again. *)
OperatorWrites(rec) ==
  /\ enrollment # None /\ moves < MaxMoves
  /\ enrollment' = rec
  /\ moves' = moves + 1
  /\ UNCHANGED <<bodyVars, idemVars, refused, rivals, effects>>
OperatorSetsStatus(s) == OperatorWrites([enrollment EXCEPT !.status = s])
OperatorRequires(d) == OperatorWrites([enrollment EXCEPT !.required = @ \union {d}])

CallSteps(c) ==
  \/ \E k \in Keys : GrantArrive(c, k) \/ \E r \in EnrollRequests : EnrollArrive(c, k, r)
  \/ Consult(c)
  \/ EnrollFind(c)
  \/ \E d \in Decisions : EnrollDecide(c, d)
  \/ EnrollSave(c)
  \/ GrantRun(c)
  \/ BodyThrows(c)

(* History: what held at some moment of each Grant that is under way.      *)
Active(rec) == rec # None /\ rec.status = "active"
Eligible(rec) == Active(rec) /\ RequiredClaims \subseteq rec.claims /\ MissingDocs(rec) = {}
UnderWay(c) == IsGrant(c)' /\ pc[c] # "done"
Observe ==
  /\ activeIn' = [c \in Calls |->
       activeIn[c] \/ (UnderWay(c) /\ (Active(enrollment) \/ Active(enrollment')))]
  /\ eligibleIn' = [c \in Calls |->
       eligibleIn[c] \/ (UnderWay(c) /\ (Eligible(enrollment) \/ Eligible(enrollment')))]

Next ==
  /\ \/ \E c \in Calls : CallSteps(c)
     \/ \E s \in {"active", "suspended"} : OperatorSetsStatus(s)
     \/ \E d \in RequiredDocs : OperatorRequires(d)
  /\ Observe

Spec == Init /\ [][Next]_vars

-----------------------------------------------------------------------------
TypeOK ==
  /\ enrollment \in Enrollments \union {None}
  /\ seen \in [Calls -> Enrollments \union {None}]
  /\ decision \in [Calls -> Decisions \union {None}]
  /\ step \in [Calls -> {"none", "found", "saving", "done"}]
  /\ refused \in [Calls -> BOOLEAN]
  /\ moves \in 0..MaxMoves
  /\ activeIn \in [Calls -> BOOLEAN]
  /\ eligibleIn \in [Calls -> BOOLEAN]
  /\ rivals \in [Calls -> SUBSET Calls]
  /\ effects \subseteq Calls
  /\ Idem!TypeOK

Is(c, state, response) ==
  pc[c] = "done" /\ answer[c].state = state /\ answer[c].response = response

(* Whatever the order of Enrolls, policy decisions and operator writes,    *)
(* every stored enrollment carries all required claims.                    *)
RequiredClaimsHeld == enrollment # None => RequiredClaims \subseteq enrollment.claims

(* Every credential was issued by a Grant during which the enrollment was  *)
(* active and its requirements met, whether that Grant then answered or    *)
(* threw; a Grant answered by a replay found the enrollment active at some *)
(* moment of that very call.                                               *)
GrantNeedsEnrollment ==
  \A c \in Calls :
    IsGrant(c) =>
      /\ c \in effects => eligibleIn[c]
      /\ Is(c, "replayed", "granted") => activeIn[c]

(* Claims and acknowledgements that an Enroll has written stay in the      *)
(* store, unless an Enroll that had read before that write wrote after it. *)
UpdatesLostOnlyToRivals ==
  \A c \in effects :
    IsEnroll(c) /\ rivals[c] \intersect effects = {} =>
      /\ Req(c).claims \subseteq enrollment.claims
      /\ Accepts(c) => Req(c).declared \intersect Docs \subseteq enrollment.acknowledged

(* The lifecycle status and `since` of a stored enrollment change without  *)
(* the operator only when an Enroll writes back a record it read before    *)
(* they took their present value.                                          *)
Writes(c) == step[c] = "saving" /\ step'[c] = "done" /\ enrollment' # enrollment
LifecycleOf(rec) == IF rec = None THEN None ELSE <<rec.status, rec.since>>
LifecycleKept ==
  [][enrollment # None /\ moves' = moves /\ LifecycleOf(enrollment') # LifecycleOf(enrollment) =>
       \E c \in Calls : Writes(c) /\ LifecycleOf(seen[c]) # LifecycleOf(enrollment)]_vars

(* An outstanding requirement of the operator is lifted only by an Enroll  *)
(* that declares the document, or by one that had not read the demand.     *)
DemandsStand ==
  [][\A d \in Docs :
       enrollment # None /\ d \in enrollment.required /\ d \notin enrollment'.required =>
         \E c \in Calls :
           /\ Writes(c)
           /\ \/ Req(c).declared # None /\ d \in Req(c).declared
              \/ seen[c] = None \/ d \notin seen[c].required]_vars

(* Bodies of Enroll and Grant under one key never overlap, and none runs   *)
(* once a response is recorded for the key.                                *)
OneRunner == Idem!OneRunner

(* Under one key an enrollment is written, or a credential issued, a       *)
(* second time only if the body that did it first threw afterwards: no     *)
(* retry and no waiter repeats what was answered or is still under way.    *)
Threw(c) == pc[c] = "done" /\ answer[c].state = "threw"
RepeatedOnlyAfterThrows ==
  \A c, d \in effects : Idem!SameKey(c, d) /\ c # d => Threw(c) \/ Threw(d)

(* What INTEGRATION.md:81 asks of the store: of concurrent matching        *)
(* requests one executes the body.  A call that waited for another was     *)
(* concurrent with it.                                                     *)
ConcurrentBodyRunsOnce ==
  \A c, d \in effects : waitsOn[d] = c => Req(c) # Req(d)

(* Whatever the two commands wait for, what they answer under a key is     *)
(* what the write-once register of OnceCommand would.                      *)
ImplementsOnceCommand == Idem!ImplementsOnceCommand
=============================================================================

-------------------------- MODULE CommandExchange --------------------------
(***************************************************************************)
(* Enroll, Status, Grant and Revoke from the Agent's call to what it gets  *)
(* of the answer: what one Agent asks for (packages/agent/src/index.ts),   *)
(* what the handlers of a Service build (packages/service/src/index.ts),   *)
(* and whether the parsers of packages/core/src/protocol.ts let the Agent  *)
(* read it.  The Service may be deployed again with another configuration  *)
(* while its stores, the Agent's Inspect document and requests under way   *)
(* are those of the earlier one.                                           *)
(*                                                                         *)
(* A list of names is how often each name occurs in it; no code depends on *)
(* the order, except the hash of a request: a repeated call keeps it.      *)
(* Lists of document identifiers are sets: core accepts only unique ones.  *)
(* Authentication, credentials and malformed requests are left out, and    *)
(* bodies run by OnceCommand's rules, in ServiceEnrollment's steps.  A     *)
(* member that is not sent is None.                                        *)
(***************************************************************************)
EXTENDS Naturals, FiniteSets

CONSTANTS
  Calls, None,
  Keys,        \* idempotency keys that are used again; None: a random key
  Claims, Ids, Types,
  Blank,       \* the empty name
  Documents,   \* the name "service_documents"
  Deployments, \* configurations of the Service
  Decisions,   \* what the enrollment policy may decide
  Requests,    \* what the Agent's callers ask for
  MaxMoves     \* bound: deployments and writes by the operator

Names == Claims \union {Blank, Documents}
Lists == [Names -> Nat]
Empty == [n \in Names |-> 0]
Optional(S) == S \union {None}

(* "terminated" and "unavailable" are answered as "suspended" is, each     *)
(* under its own code, so one of the three stands for them.                *)
Statuses == {"active", "pending", "rejected", "suspended"}
Refusals ==
  {"not_recognized", "enrollment_failed", "requirements_unmet", "idempotency_conflict",
   "identity_suspended", "verification_pending", "unsupported_grant_type"}

(* AepServiceOptions, as far as the commands depend on them.  documents is *)
(* the catalog, None without the extension; types are advertised, handled  *)
(* ones have a handler, single ones advertise per-credential Revoke.       *)
AllDeployments ==
  [claims : Lists, documents : Optional(SUBSET Ids), required : SUBSET Ids,
   types : SUBSET Types, handled : SUBSET Types, single : SUBSET Types]

AllDecisions ==
  [status : {"active", "pending", "rejected"}, update : BOOLEAN, owner : Optional(BOOLEAN),
   requirements : Optional(Lists), verification : Optional(Lists)]

AllRequests ==
  [command : {"enroll"}, key : Optional(Keys), claims : SUBSET Claims,
   declared : Optional(SUBSET Ids)]
  \union [command : {"status"}, key : {None}]
  \union [command : {"grant"}, key : Optional(Keys), type : Types]
  \union [command : {"revoke"}, key : Optional(Keys), type : Optional(Types), single : BOOLEAN]

Enrollments ==
  [claims : SUBSET Claims, acknowledged : SUBSET Ids, demanded : SUBSET Ids,
   status : Statuses, owner : BOOLEAN, requirements : Lists, verification : Lists]

(* A response of any command: code is "ok" or that of a problem; ids are   *)
(* acknowledged_document_ids, or a problem's required_document_ids.        *)
Answers ==
  [code : Refusals \union {"ok"}, status : Optional(Statuses), owner : BOOLEAN,
   requirements : Optional(Lists), verification : Optional(Lists),
   ids : Optional(SUBSET Ids)]
Replies == [request : Requests, answer : Answers]

VARIABLES
  deployed,    \* the configuration the Service runs with
  inspected,   \* the Inspect document the Agent's session holds
  enrollment,  \* the Agent's record in the enrollment store, or None
  record,      \* record[k]: request and answer that key k is bound to
  request,     \* request[c]: what call c asks
  stage,       \* stage[c]: how far it is
  config,      \* config[c]: the configuration of the handler that runs it
  seen,        \* seen[c]: the enrollment it read
  reply,       \* the answer that the latest step gave, with its request
  moves,       \* deployments and writes by the operator so far
  ignored,     \* history: Enrolls whose declaration found no extension
  owed         \* history: documents the Service told the Agent to declare, less
               \* those it has declared since; None: it cannot know

callVars == <<request, stage, config, seen>>
history == <<ignored, owed>>
vars == <<deployed, inspected, enrollment, record, callVars, reply, moves, history>>

ASSUME ExchangeConstants ==
  /\ Blank \notin Claims /\ Blank # Documents
  /\ Deployments \subseteq AllDeployments /\ Deployments # {}
  /\ Decisions \subseteq AllDecisions
  /\ Requests \subseteq AllRequests
  /\ MaxMoves \in Nat

(* None is none of the values it stands beside.                            *)
ASSUME NoneIsNoValue ==
  /\ None \notin Requests /\ None \notin Deployments /\ None \notin Enrollments
  /\ None \notin Keys /\ None \notin Types /\ None \notin Lists /\ \A S \in SUBSET Ids : None # S
  /\ None \notin Answers /\ None \notin Replies

ASSUME CatalogsHoldRequired ==
  \A d \in Deployments :
    d.handled \subseteq d.types /\ d.required \subseteq (IF d.documents = None THEN {} ELSE d.documents)

(* Lists of the operator that every problem can carry: nothing in the code *)
(* keeps it from configuring others.                                       *)
Sendable(l) == l = None \/ (l[Blank] = 0 /\ l[Documents] = 0 /\ \A n \in Names : l[n] <= 1)

ASSUME ListsAreSendable ==
  /\ \A d \in Deployments : Sendable(d.claims)
  /\ \A dec \in Decisions : Sendable(dec.requirements) /\ Sendable(dec.verification)

-----------------------------------------------------------------------------
(* What the Service builds.                                                *)

BuildInspect(d) ==
  [extension |-> d.documents # None, types |-> d.types, single |-> d.single,
   commands |-> {"enroll", "status"} \union (IF d.types = {} THEN {} ELSE {"grant", "revoke"})]

Handlers(d) == d.handled

MissingClaims(d, provided) ==
  [n \in Names |-> IF n \in provided THEN 0 ELSE d.claims[n]]

MissingIds(d, r) ==
  IF r = None THEN d.required
  ELSE {i \in d.required : i \notin r.acknowledged \/ i \in r.demanded}

Body(code) ==
  [code |-> code, status |-> None, owner |-> FALSE, requirements |-> None,
   verification |-> None, ids |-> None]

Problem(code) == Body(code)

IfAny(l) == IF l = Empty THEN None ELSE l

EnrollmentResponse(r, echo) ==
  [code |-> "ok", status |-> r.status, owner |-> r.owner, requirements |-> IfAny(r.requirements),
   verification |-> IfAny(r.verification), ids |-> echo]

StatusResponse(r) ==
  [code |-> "ok", status |-> r.status, owner |-> r.owner, requirements |-> IfAny(r.requirements),
   verification |-> IfAny(r.verification), ids |-> None]

RequirementsUnmet(missing, ids) ==
  [code |-> "requirements_unmet", status |-> None, owner |-> ids # {},
   requirements |-> IF ids = {} THEN missing ELSE [missing EXCEPT ![Documents] = @ + 1],
   verification |-> None, ids |-> IF ids = {} THEN None ELSE ids]

UnguardedPendingMutant(r) ==   \* empty lists are sent as well
  [code |-> "verification_pending", status |-> None, owner |-> r.owner,
   requirements |-> r.requirements, verification |-> r.verification, ids |-> None]
VerificationPending(r) ==
  [code |-> "verification_pending", status |-> None, owner |-> r.owner,
   requirements |-> IfAny(r.requirements), verification |-> IfAny(r.verification), ids |-> None]

(* What the Agent can read.                                                *)

Readable(l) == l # Empty /\ l[Blank] = 0 /\ \A n \in Names : l[n] <= 1
PendingReadable(a) ==
  /\ a.requirements = None \/ Readable(a.requirements)
  /\ a.verification = None \/ Readable(a.verification)

NamesDocuments(a) == a.requirements # None /\ a.requirements[Documents] > 0

ProblemReadable(a) ==
  /\ PendingReadable(a)
  /\ \/ a.code # "not_recognized"
     \/ ~a.owner /\ a.requirements = None /\ a.verification = None /\ a.ids = None
  /\ \/ a.ids = None /\ ~NamesDocuments(a)
     \/ /\ a.ids \notin {None, {}} /\ NamesDocuments(a)
        /\ a.code = "requirements_unmet"

(* enrollService: the answer must echo exactly the list that was declared. *)
Echoes(a, q) == a.status = "rejected" \/ a.ids = q.declared

(* What a call comes to: "refused" carries its problem to the caller,      *)
(* "bare" is an AepCommandError without one, "garbled" an exception about  *)
(* an answer of success.                                                   *)
Read(a, q) ==
  IF a.code # "ok" THEN (IF ProblemReadable(a) THEN "refused" ELSE "bare")
  ELSE IF q.command \in {"enroll", "status"} /\ ~PendingReadable(a) THEN "garbled"
  ELSE IF q.command = "enroll" /\ ~Echoes(a, q) THEN "garbled"
  ELSE "ok"

-----------------------------------------------------------------------------
(* History.                                                                *)

(* A refusal that rests on the current enrollment and configuration tells  *)
(* the Agent which documents it has to declare.                            *)
Told(d, r, ids) ==
  owed' = IF d = deployed /\ r = enrollment THEN ids ELSE owed

-----------------------------------------------------------------------------
Init ==
  /\ deployed \in Deployments
  /\ inspected = BuildInspect(deployed)
  /\ enrollment = None
  /\ record = [k \in Keys |-> None]
  /\ request = [c \in Calls |-> None]
  /\ stage = [c \in Calls |-> "idle"]
  /\ config = [c \in Calls |-> None]
  /\ seen = [c \in Calls |-> None]
  /\ reply = None
  /\ moves = 0
  /\ ignored = {} /\ owed = None

(* A new session of the Agent reads the Inspect document again.            *)
Inspect ==
  /\ inspected' = BuildInspect(deployed)
  /\ reply' = None
  /\ UNCHANGED <<deployed, enrollment, record, callVars, moves, history>>

Redeploy(d) ==
  /\ moves < MaxMoves /\ d # deployed
  /\ deployed' = d /\ moves' = moves + 1
  /\ owed' = None /\ reply' = None
  /\ UNCHANGED <<inspected, enrollment, record, callVars, ignored>>

(* The operator's own writes, which the Service's guide asks for: the      *)
(* lifecycle of an enrollment, and documents to be accepted again.         *)
OperatorWrites(r) ==
  /\ moves < MaxMoves /\ enrollment # None /\ r # enrollment
  /\ enrollment' = r /\ moves' = moves + 1
  /\ owed' = None /\ reply' = None
  /\ UNCHANGED <<deployed, inspected, record, callVars, ignored>>

SetStatus(s) == enrollment # None /\ OperatorWrites([enrollment EXCEPT !.status = s])
Demand(i) == enrollment # None /\ OperatorWrites([enrollment EXCEPT !.demanded = @ \union {i}])

-----------------------------------------------------------------------------
(* The Agent's side of a call.                                             *)

(* What enrollService, grantService, revokeService and statusService       *)
(* refuse to send to a Service that does not advertise it.                 *)
Advertised(q) ==
  /\ q.command \in inspected.commands
  /\ q.command = "enroll" => (q.declared # None => inspected.extension)
  /\ q.command = "grant" => q.type \in inspected.types
  /\ (q.command = "revoke" /\ q.type # None) => q.type \in inspected.types
  /\ (q.command = "revoke" /\ q.single) => q.type \in inspected.single

(* A request reaches the Service.  How long it took is no matter: all the  *)
(* Agent has read for it is the Inspect document, which may be old.  Nor   *)
(* is the fate of an answer: the caller of one that is lost may try again  *)
(* under its key, or any other request.                                    *)
Arrives(c, q) == stage[c] = "idle" /\ Advertised(q)

-----------------------------------------------------------------------------
(* The Service's side.                                                     *)

Admitted(c, command) == stage[c] = "admitted" /\ request[c].command = command

(* The handler returns; its locals are gone.                               *)
Return(c, q, a) ==
  /\ reply' = [request |-> q, answer |-> a]
  /\ request' = [request EXCEPT ![c] = None]
  /\ stage' = [stage EXCEPT ![c] = "idle"]
  /\ config' = [config EXCEPT ![c] = None]
  /\ seen' = [seen EXCEPT ![c] = None]
  /\ UNCHANGED <<deployed, inspected, moves>>

(* The handler goes on after an await, with what it has read.              *)
Await(c, q, next) ==
  /\ request' = [request EXCEPT ![c] = q]
  /\ stage' = [stage EXCEPT ![c] = next]
  /\ config' = [config EXCEPT ![c] = deployed]
  /\ seen' = [seen EXCEPT ![c] = enrollment]
  /\ reply' = None
  /\ UNCHANGED <<deployed, inspected, enrollment, record, moves, history>>

(* withIdempotency: a key that is bound repeats its answer or conflicts; a *)
(* body runs when no other body of its key is under way.                   *)
Recorded(c, q) ==
  /\ q.key # None /\ record[q.key] # None
  /\ Return(c, q, IF record[q.key].request = q THEN record[q.key].answer
                  ELSE Problem("idempotency_conflict"))
  /\ UNCHANGED <<enrollment, record, history>>

Free(q) ==
  q.key # None =>
    /\ record[q.key] = None
    /\ \A e \in Calls : stage[e] = "deciding" => request[e].key # q.key

Complete(c, q, a) ==
  /\ Return(c, q, a)
  /\ record' = IF q.key = None THEN record
               ELSE [record EXCEPT ![q.key] = [request |-> q, answer |-> a]]

(* A return before withIdempotency leaves no record.                       *)
ReturnEarly(c, q, a) == Return(c, q, a) /\ UNCHANGED <<enrollment, record, history>>

(* Enroll.                                                                 *)

Given(q, r) == q.claims \union (IF r = None THEN {} ELSE r.claims)
Declared(d, q) == IF d.documents = None THEN None ELSE q.declared
EnrollMisses(d, q, r) ==
  [claims |-> MissingClaims(d, Given(q, r)),
   ids |-> IF Declared(d, q) = None THEN MissingIds(d, r) ELSE {}]
Unmet(m) == m.claims # Empty \/ m.ids # {}

RefuseEnroll(c, d, q, r) ==
  LET m == EnrollMisses(d, q, r) IN
  /\ Unmet(m)
  /\ Complete(c, q, RequirementsUnmet(m.claims, m.ids))
  /\ IF Declared(d, q) = None THEN Told(d, r, m.ids) ELSE UNCHANGED owed
  /\ UNCHANGED <<enrollment, ignored>>

(* A first Enroll that misses something is refused before the policy is    *)
(* asked.                                                                  *)
ReceiveEnroll(c, q) ==
  /\ q.command = "enroll" /\ Arrives(c, q)
  /\ \/ Recorded(c, q)
     \/ Free(q) /\ enrollment = None /\ RefuseEnroll(c, deployed, q, enrollment)
     \/ /\ Free(q)
        /\ enrollment # None \/ ~Unmet(EnrollMisses(deployed, q, enrollment))
        /\ Await(c, q, "deciding")

Takes(d, q, dec) == Declared(d, q) # None /\ dec.status # "rejected"

(* A plausible bug: a declaration replaces the stored one.                 *)
ReplacedAcknowledgementsMutant(d, q, r, dec) ==
  [claims |-> Given(q, r), status |-> IF r = None THEN dec.status ELSE r.status,
   acknowledged |-> IF Takes(d, q, dec) THEN q.declared \intersect d.documents ELSE {},
   demanded |-> {}, owner |-> FALSE, requirements |-> Empty, verification |-> Empty]
Saved(d, q, r, dec) ==
  LET old == IF r # None THEN r
             ELSE [claims |-> {}, acknowledged |-> {}, demanded |-> {}, status |-> dec.status,
                   owner |-> FALSE, requirements |-> Empty, verification |-> Empty]
      ids == IF Takes(d, q, dec) THEN q.declared ELSE {}
  IN [claims |-> Given(q, r),
      acknowledged |-> old.acknowledged \union (IF ids = {} THEN {} ELSE ids \intersect d.documents),
      demanded |-> old.demanded \ ids,
      status |-> old.status,
      owner |-> IF dec.owner = None THEN old.owner ELSE dec.owner,
      requirements |-> IF dec.requirements = None THEN old.requirements ELSE dec.requirements,
      verification |-> IF dec.verification = None THEN old.verification ELSE dec.verification]

(* Requests whose declaration a Service without the extension ignored.     *)
Ignoring(d, q) == IF Declared(d, q) = q.declared THEN ignored ELSE ignored \union {q}

SilentKeepMutant(c, d, q, r) ==   \* no echo for an update that is declined
  /\ Complete(c, q, EnrollmentResponse(r, None))
  /\ ignored' = Ignoring(d, q)
  /\ UNCHANGED <<enrollment, owed>>
KeepEnrollment(c, d, q, r) ==
  /\ Complete(c, q, EnrollmentResponse(r, Declared(d, q)))
  /\ ignored' = Ignoring(d, q)
  /\ UNCHANGED <<enrollment, owed>>

SaveEnrollment(c, d, q, r, dec) ==
  LET saved == Saved(d, q, r, dec)
      echo == IF Takes(d, q, dec) THEN q.declared ELSE None
  IN /\ enrollment' = saved
     /\ Complete(c, q, EnrollmentResponse(saved, echo))
     /\ ignored' = Ignoring(d, q)
     /\ owed' = IF owed = None \/ d # deployed \/ r # enrollment THEN None
                ELSE IF Takes(d, q, dec) THEN owed \ q.declared ELSE owed

Rejects(r, dec) == r # None /\ dec.status = "rejected"
Declines(r, dec) == r # None /\ dec.status # "rejected" /\ ~dec.update

Decide(c, dec) ==
  /\ stage[c] = "deciding"
  /\ LET d == config[c]
         q == request[c]
         r == seen[c]
     IN \/ /\ Rejects(r, dec)
           /\ Complete(c, q, Problem("enrollment_failed"))
           /\ UNCHANGED <<enrollment, history>>
        \/ Declines(r, dec) /\ KeepEnrollment(c, d, q, r)
        \/ ~Rejects(r, dec) /\ ~Declines(r, dec) /\ RefuseEnroll(c, d, q, r)
        \/ /\ ~Rejects(r, dec) /\ ~Declines(r, dec) /\ ~Unmet(EnrollMisses(d, q, r))
           /\ SaveEnrollment(c, d, q, r, dec)

(* Status.                                                                 *)
ReceiveStatus(c, q) ==
  /\ q.command = "status" /\ Arrives(c, q)
  /\ ReturnEarly(c, q, IF enrollment = None THEN Problem("not_recognized")
                    ELSE StatusResponse(enrollment))

(* Grant.                                                                  *)
ReceiveGrant(c, q) ==
  /\ q.command = "grant" /\ Arrives(c, q)
  /\ \/ enrollment = None /\ ReturnEarly(c, q, Problem("not_recognized"))
     \/ /\ enrollment # None /\ enrollment.status = "suspended"
        /\ ReturnEarly(c, q, Problem("identity_suspended"))
     \/ /\ enrollment # None /\ enrollment.status \in {"pending", "rejected"}
        /\ ReturnEarly(c, q, VerificationPending(enrollment))
     \/ /\ enrollment # None /\ enrollment.status = "active"
        /\ IF q.type \in Handlers(deployed) THEN Await(c, q, "admitted")
           ELSE ReturnEarly(c, q, Problem("unsupported_grant_type"))

ExecuteGrant(c) ==
  /\ Admitted(c, "grant")
  /\ LET q == request[c]
         missing == MissingClaims(config[c], seen[c].claims)
         ids == MissingIds(config[c], seen[c])
     IN \/ Recorded(c, q)
        \/ /\ Free(q) /\ (missing # Empty \/ ids # {})
           /\ Complete(c, q, RequirementsUnmet(missing, ids))
           /\ Told(config[c], seen[c], ids)
           /\ UNCHANGED <<enrollment, ignored>>
        \/ /\ Free(q) /\ missing = Empty /\ ids = {}
           /\ Complete(c, q, Body("ok"))
           /\ UNCHANGED <<enrollment, history>>

(* Revoke of one grant type, one credential of it, or all grant types.     *)
ReceiveRevoke(c, q) ==
  /\ q.command = "revoke" /\ Arrives(c, q)
  /\ \/ enrollment = None /\ ReturnEarly(c, q, Problem("not_recognized"))
     \/ /\ enrollment # None
        /\ IF q.type \in Optional(Handlers(deployed)) THEN Await(c, q, "admitted")
           ELSE ReturnEarly(c, q, Problem("unsupported_grant_type"))

ExecuteRevoke(c) ==
  /\ Admitted(c, "revoke")
  /\ \/ Recorded(c, request[c])
     \/ /\ Free(request[c])
        /\ Complete(c, request[c], Body("ok"))
        /\ UNCHANGED <<enrollment, history>>

Next ==
  \/ Inspect
  \/ \E d \in Deployments : Redeploy(d)
  \/ \E s \in Statuses : SetStatus(s)
  \/ \E i \in Ids : Demand(i)
  \/ \E c \in Calls :
       \/ \E q \in Requests :
            \/ ReceiveEnroll(c, q) \/ ReceiveStatus(c, q)
            \/ ReceiveGrant(c, q) \/ ReceiveRevoke(c, q)
       \/ \E dec \in Decisions : Decide(c, dec)
       \/ ExecuteGrant(c) \/ ExecuteRevoke(c)

Spec == Init /\ [][Next]_vars

-----------------------------------------------------------------------------
(* Every variable holds a value of the kind the code gives it.             *)
TypeOK ==
  /\ deployed \in Deployments
  /\ inspected \in {BuildInspect(d) : d \in Deployments}
  /\ enrollment \in Optional(Enrollments)
  /\ record \in [Keys -> Optional(Replies)]
  /\ request \in [Calls -> Optional(Requests)]
  /\ stage \in [Calls -> {"idle", "deciding", "admitted"}]
  /\ config \in [Calls -> Optional(Deployments)]
  /\ seen \in [Calls -> Optional(Enrollments)]
  /\ reply \in Optional(Replies)
  /\ moves \in Nat /\ ignored \subseteq Requests /\ owed \in Optional(SUBSET Ids)

Outcome == Read(reply.answer, reply.request)

(* The Agent reads whatever the Service answers with success, first or     *)
(* repeated, as long as the operator's lists can be sent at all; except an *)
(* Enroll whose declaration was ignored because the Service had dropped    *)
(* the extension after the Agent's Inspect: it is stored, and the caller   *)
(* gets an exception (packages/agent/src/index.ts, enrollService).         *)
Understood ==
  (reply # None /\ Outcome = "garbled") => reply.request \in ignored

(* No refusal loses its problem on the way: AepCommandError.problem tells  *)
(* the caller what is pending or missing (packages/agent/README.md,        *)
(* Service Documents), whichever handler built it, and when it is repeated *)
(* from a record.                                                          *)
ProblemsPreserved ==
  reply # None => Outcome # "bare"

(* The documents that a refusal named are all there are: an Agent that     *)
(* declares them, in one Enroll or several, misses none, until the         *)
(* operator demands another, the Service is deployed anew, or another      *)
(* Enroll overlaps.                                                        *)
DeclaredDocumentsSuffice ==
  owed # None => MissingIds(deployed, enrollment) \subseteq owed
=============================================================================

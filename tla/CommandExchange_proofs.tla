----------------------- MODULE CommandExchange_proofs -----------------------
(***************************************************************************)
(* Every answer of a Service is understood by the Agent who asked, for any *)
(* number of calls and keys, any configurations, policies and requests,    *)
(* and any sequence of deployments.  The inductive invariant says that     *)
(* lists which can be sent stay so in the enrollment store and in what     *)
(* handlers have read of it, and that every answer kept under a key is as  *)
(* fit to be read again as it was the first time.                          *)
(***************************************************************************)
EXTENDS CommandExchange, TLAPS

SendableLists(r) == Sendable(r.requirements) /\ Sendable(r.verification)

(* The caller learns what the Service answered, unless its declaration was *)
(* ignored.                                                                *)
Fit(a, q) == Read(a, q) # "bare" /\ (Read(a, q) = "garbled" => q \in ignored)

(* What a handler under way has read.                                      *)
Frames ==
  \A c \in Calls :
    /\ stage[c] # "idle" => config[c] \in Deployments /\ request[c] \in Requests
    /\ stage[c] = "deciding" => request[c].command = "enroll"
    /\ stage[c] = "admitted" => /\ seen[c] \in Enrollments
                                /\ request[c].command \in {"grant", "revoke"}

ListsStaySendable ==
  /\ enrollment # None => SendableLists(enrollment)
  /\ \A c \in Calls : seen[c] # None => SendableLists(seen[c])

RecordsFit == \A k \in Keys : record[k] # None => Fit(record[k].answer, record[k].request)

ReplyFits == reply # None => Fit(reply.answer, reply.request)

ExchangeInv ==
  TypeOK /\ Frames /\ ListsStaySendable /\ RecordsFit /\ ReplyFits /\ DeclaredDocumentsSuffice

(* Understood and ProblemsPreserved follow from the invariant.             *)
LEMMA InvIsUnderstood == ExchangeInv => Understood /\ ProblemsPreserved
  BY DEF ExchangeInv, ReplyFits, Fit, Understood, ProblemsPreserved, Outcome

-----------------------------------------------------------------------------
(* Lists.                                                                  *)

LEMMA NamesFacts ==
  /\ Blank \in Names /\ Documents \in Names /\ Blank # Documents
  /\ Empty \in Lists /\ Sendable(Empty) /\ None \notin Lists
  BY ExchangeConstants, NoneIsNoValue DEF Names, Empty, Lists, Sendable

(* An omitted or sendable list is never in the reader's way.               *)
LEMMA IfAnyReadable ==
  ASSUME NEW l \in Lists, Sendable(l)
  PROVE  /\ IfAny(l) \in Optional(Lists)
         /\ IfAny(l) = None \/ Readable(IfAny(l))
         /\ IfAny(l) # None => IfAny(l)[Documents] = 0
<1>1. l # None
  BY NamesFacts
<1> QED
  BY <1>1 DEF Sendable, IfAny, Readable, Optional

LEMMA MissingIsSendable ==
  ASSUME NEW d \in Deployments, NEW provided
  PROVE  MissingClaims(d, provided) \in Lists /\ Sendable(MissingClaims(d, provided))
<1>1. d.claims \in Lists /\ Sendable(d.claims)
  BY ExchangeConstants, ListsAreSendable DEF AllDeployments
<1>2. d.claims # None
  BY <1>1, NamesFacts
<1>3. \A n \in Names : MissingClaims(d, provided)[n] \in Nat /\ MissingClaims(d, provided)[n] <= d.claims[n]
  BY <1>1 DEF MissingClaims, Lists
<1>4. MissingClaims(d, provided) \in Lists
  BY <1>3 DEF MissingClaims, Lists
<1>5. MissingClaims(d, provided)[Blank] = 0 /\ MissingClaims(d, provided)[Documents] = 0
  BY <1>1, <1>2, <1>3, NamesFacts DEF Sendable
<1>6. \A n \in Names : MissingClaims(d, provided)[n] <= 1
<2> TAKE n \in Names
<2>1. d.claims[n] <= 1 /\ d.claims[n] \in Nat
  BY <1>1, <1>2 DEF Sendable, Lists
<2> QED
  BY <1>3, <2>1
<1> QED
  BY <1>4, <1>5, <1>6 DEF Sendable

LEMMA MissingIdsAreIds ==
  ASSUME NEW d \in Deployments, NEW r \in Optional(Enrollments)
  PROVE  MissingIds(d, r) \in SUBSET Ids
  BY ExchangeConstants DEF MissingIds, AllDeployments, Enrollments, Optional

-----------------------------------------------------------------------------
(* Answers: each is well formed, and what its reader makes of it.          *)

LEMMA PlainProblems ==
  ASSUME NEW code \in Refusals, NEW q
  PROVE  Problem(code) \in Answers /\ Read(Problem(code), q) = "refused"
  BY DEF Problem, Body, Answers, Refusals, Optional, Read, ProblemReadable, PendingReadable,
         NamesDocuments

LEMMA GrantedIsFit ==
  ASSUME NEW q, q.command \in {"grant", "revoke"}
  PROVE  Body("ok") \in Answers /\ Read(Body("ok"), q) = "ok"
  BY DEF Body, Answers, Optional, Read

LEMMA RequirementsUnmetIsRead ==
  ASSUME NEW missing \in Lists, Sendable(missing), NEW ids \in SUBSET Ids,
         missing # Empty \/ ids # {}, NEW q
  PROVE  RequirementsUnmet(missing, ids) \in Answers
         /\ Read(RequirementsUnmet(missing, ids), q) = "refused"
<1> DEFINE a == RequirementsUnmet(missing, ids)
<1>1. missing # None
  BY NamesFacts
<1>2. CASE ids = {}
<2>1. a = [code |-> "requirements_unmet", status |-> None, owner |-> FALSE,
           requirements |-> missing, verification |-> None, ids |-> None]
  BY <1>2 DEF RequirementsUnmet
<2>2. a \in Answers
  BY <2>1 DEF Answers, Refusals, Optional
<2>3. Readable(missing)
  BY <1>1, <1>2 DEF Readable, Sendable
<2>4. ~NamesDocuments(a)
  BY <2>1, <1>1 DEF NamesDocuments, Sendable
<2> QED
  BY <2>1, <2>2, <2>3, <2>4 DEF Read, ProblemReadable, PendingReadable
<1>3. CASE ids # {}
<2> DEFINE l == [missing EXCEPT ![Documents] = @ + 1]
<2>1. a = [code |-> "requirements_unmet", status |-> None, owner |-> TRUE,
           requirements |-> l, verification |-> None, ids |-> ids]
  BY <1>3 DEF RequirementsUnmet
<2>2. l \in Lists /\ l[Documents] = 1 /\ \A n \in Names : n # Documents => l[n] = missing[n]
  BY NamesFacts, <1>1 DEF Lists, Sendable
<2>3. a \in Answers
  BY <2>1, <2>2 DEF Answers, Refusals, Optional
<2>4. Readable(l)
  BY <2>2, <1>1, NamesFacts DEF Readable, Sendable, Empty
<2>5. l # None /\ ids # None
  BY <2>2, NamesFacts, NoneIsNoValue
<2>6. NamesDocuments(a)
  BY <2>1, <2>2, <2>5 DEF NamesDocuments
<2> HIDE DEF l
<2> QED
  BY <1>3, <2>1, <2>3, <2>4, <2>5, <2>6 DEF Read, ProblemReadable, PendingReadable
<1> QED
  BY <1>2, <1>3

LEMMA VerificationPendingIsRead ==
  ASSUME NEW r \in Enrollments, SendableLists(r), NEW q
  PROVE  VerificationPending(r) \in Answers /\ Read(VerificationPending(r), q) = "refused"
<1>1. r.requirements \in Lists /\ r.verification \in Lists /\ r.owner \in BOOLEAN
  BY DEF Enrollments
<1> DEFINE x == IfAny(r.requirements)
           y == IfAny(r.verification)
<1>2. /\ x \in Optional(Lists) /\ y \in Optional(Lists)
      /\ x = None \/ Readable(x)
      /\ y = None \/ Readable(y)
      /\ x # None => x[Documents] = 0
  BY <1>1, IfAnyReadable DEF SendableLists
<1>3. VerificationPending(r) =
        [code |-> "verification_pending", status |-> None, owner |-> r.owner,
         requirements |-> x, verification |-> y, ids |-> None]
  BY DEF VerificationPending
<1> HIDE DEF x, y
<1>4. VerificationPending(r) \in Answers
  BY <1>1, <1>2, <1>3 DEF Answers, Refusals, Optional
<1> QED
  BY <1>2, <1>3, <1>4 DEF Read, ProblemReadable, PendingReadable, NamesDocuments

LEMMA EnrollmentResponseIsRead ==
  ASSUME NEW r \in Enrollments, SendableLists(r), NEW echo \in Optional(SUBSET Ids), NEW q
  PROVE  /\ EnrollmentResponse(r, echo) \in Answers
         /\ Read(EnrollmentResponse(r, echo), q) # "bare"
         /\ (q.command # "enroll" \/ r.status = "rejected" \/ echo = q.declared)
            => Read(EnrollmentResponse(r, echo), q) = "ok"
<1>1. /\ r.requirements \in Lists /\ r.verification \in Lists /\ r.owner \in BOOLEAN
      /\ r.status \in Statuses
  BY DEF Enrollments
<1> DEFINE x == IfAny(r.requirements)
           y == IfAny(r.verification)
<1>2. /\ x \in Optional(Lists) /\ y \in Optional(Lists)
      /\ x = None \/ Readable(x)
      /\ y = None \/ Readable(y)
  BY <1>1, IfAnyReadable DEF SendableLists
<1>3. EnrollmentResponse(r, echo) =
        [code |-> "ok", status |-> r.status, owner |-> r.owner,
         requirements |-> x, verification |-> y, ids |-> echo]
  BY DEF EnrollmentResponse
<1> HIDE DEF x, y
<1>4. EnrollmentResponse(r, echo) \in Answers
  BY <1>1, <1>2, <1>3 DEF Answers, Optional
<1> QED
  BY <1>2, <1>3, <1>4 DEF Read, PendingReadable, Echoes

LEMMA StatusResponseIsRead ==
  ASSUME NEW r \in Enrollments, SendableLists(r), NEW q, q.command = "status"
  PROVE  StatusResponse(r) \in Answers /\ Read(StatusResponse(r), q) = "ok"
<1>1. StatusResponse(r) = EnrollmentResponse(r, None)
  BY DEF StatusResponse, EnrollmentResponse
<1>2. q.command # "enroll"
  OBVIOUS
<1> QED
  BY <1>1, <1>2, EnrollmentResponseIsRead DEF Optional

-----------------------------------------------------------------------------
(* Steps.                                                                  *)

LEMMA InitHolds == Init => ExchangeInv
<1> SUFFICES ASSUME Init PROVE ExchangeInv
  OBVIOUS
<1>1. TypeOK
  BY DEF Init, TypeOK, Optional
<1>2. Frames /\ ListsStaySendable /\ RecordsFit /\ ReplyFits
  BY DEF Init, Frames, ListsStaySendable, RecordsFit, ReplyFits
<1>3. DeclaredDocumentsSuffice
  BY DEF Init, DeclaredDocumentsSuffice
<1> QED
  BY <1>1, <1>2, <1>3 DEF ExchangeInv

(* A handler that returns an answer fit to be read keeps the invariant, if *)
(* what it does to the stores does.                                        *)
LEMMA ReturnKeeps ==
  ASSUME ExchangeInv, NEW c \in Calls, NEW q \in Requests, NEW a \in Answers,
         Return(c, q, a),
         Read(a, q) # "bare", Read(a, q) = "garbled" => q \in ignored',
         ignored \subseteq ignored', ignored' \subseteq Requests,
         enrollment' \in Optional(Enrollments),
         enrollment' # None => SendableLists(enrollment'),
         record' \in {record} \union
           {[record EXCEPT ![k] = [request |-> q, answer |-> a]] : k \in Keys},
         owed' \in Optional(SUBSET Ids),
         owed' # None => MissingIds(deployed, enrollment') \subseteq owed'
  PROVE  ExchangeInv'
<1> USE DEF ExchangeInv
<1> DEFINE rep == [request |-> q, answer |-> a]
<1>0. rep \in Replies /\ rep # None
  BY NoneIsNoValue DEF Replies
<1>1. record' \in [Keys -> Optional(Replies)]
  BY <1>0 DEF TypeOK, Optional
<1>2. TypeOK'
<2>1. reply' \in Optional(Replies)
  BY <1>0 DEF Return, Optional
<2>2. /\ request' \in [Calls -> Optional(Requests)]
      /\ stage' \in [Calls -> {"idle", "deciding", "admitted"}]
      /\ config' \in [Calls -> Optional(Deployments)]
      /\ seen' \in [Calls -> Optional(Enrollments)]
  BY DEF Return, TypeOK, Optional
<2> QED
  BY <1>1, <2>1, <2>2 DEF Return, TypeOK
<1>3. Frames'
  BY DEF Frames, Return, TypeOK
<1>4. ListsStaySendable'
  BY DEF ListsStaySendable, Return, TypeOK
<1>5. RecordsFit'
<2>1. \A k \in Keys : record'[k] = record[k] \/ record'[k] = rep
  BY DEF TypeOK
<2>2. ASSUME NEW k \in Keys, NEW x, x = record'[k], x # None
      PROVE  Read(x.answer, x.request) # "bare"
             /\ (Read(x.answer, x.request) = "garbled" => x.request \in ignored')
<3>1. CASE x = record[k]
  BY <2>2, <3>1 DEF RecordsFit, Fit
<3>2. CASE x = rep
  BY <3>2
<3> QED
  BY <2>1, <2>2, <3>1, <3>2
<2> QED
  BY <2>2 DEF RecordsFit, Fit
<1>6. ReplyFits'
  BY DEF ReplyFits, Return, Fit
<1>7. DeclaredDocumentsSuffice'
  BY DEF DeclaredDocumentsSuffice, Return
<1> QED
  BY <1>2, <1>3, <1>4, <1>5, <1>6, <1>7

(* One that returns without a change of the stores.                        *)
LEMMA ReturnEarlyKeeps ==
  ASSUME ExchangeInv, NEW c \in Calls, NEW q \in Requests, NEW a \in Answers,
         ReturnEarly(c, q, a), Fit(a, q)
  PROVE  ExchangeInv'
<1>1. Return(c, q, a) /\ enrollment' = enrollment /\ record' = record
      /\ ignored' = ignored /\ owed' = owed /\ deployed' = deployed
  BY DEF ReturnEarly, Return, history
<1>2. /\ enrollment \in Optional(Enrollments) /\ owed \in Optional(SUBSET Ids)
      /\ ignored \subseteq Requests
      /\ enrollment # None => SendableLists(enrollment)
      /\ owed # None => MissingIds(deployed, enrollment) \subseteq owed
  BY DEF ExchangeInv, TypeOK, ListsStaySendable, DeclaredDocumentsSuffice
<1> QED
  BY <1>1, <1>2, ReturnKeeps DEF Fit

(* An answer from a record was fit when it was kept, and a conflict is.    *)
LEMMA RecordedKeeps ==
  ASSUME ExchangeInv, NEW c \in Calls, NEW q \in Requests, Recorded(c, q)
  PROVE  ExchangeInv'
<1>1. q.key \in Keys
  BY ExchangeConstants DEF Recorded, AllRequests, Optional
<1>2. record[q.key] \in Replies
  BY <1>1 DEF ExchangeInv, TypeOK, Recorded, Optional
<1>3. PICK a : a = IF record[q.key].request = q THEN record[q.key].answer
                   ELSE Problem("idempotency_conflict")
  OBVIOUS
<1>4. a \in Answers /\ Fit(a, q)
<2>1. CASE record[q.key].request = q
  BY <1>1, <1>2, <1>3, <2>1 DEF ExchangeInv, RecordsFit, Recorded, Replies
<2>2. CASE record[q.key].request # q
  BY <1>3, <2>2, PlainProblems DEF Refusals, Fit
<2> QED
  BY <2>1, <2>2
<1>5. ReturnEarly(c, q, a)
  BY <1>3 DEF Recorded, ReturnEarly
<1> QED
  BY <1>4, <1>5, ReturnEarlyKeeps

(* A handler that goes on after an await has read the current enrollment.  *)
LEMMA AwaitKeeps ==
  ASSUME ExchangeInv, NEW c \in Calls, NEW q \in Requests, NEW next \in {"deciding", "admitted"},
         Await(c, q, next),
         next = "deciding" => q.command = "enroll",
         next = "admitted" => enrollment # None /\ q.command \in {"grant", "revoke"}
  PROVE  ExchangeInv'
<1> USE DEF ExchangeInv
<1>1. TypeOK'
  BY DEF Await, TypeOK, Optional, history
<1>2. Frames'
  BY DEF Await, TypeOK, Frames, Optional
<1>3. ListsStaySendable'
  BY DEF Await, TypeOK, ListsStaySendable
<1>4. RecordsFit' /\ ReplyFits'
  BY DEF Await, RecordsFit, ReplyFits, Fit, history
<1>5. DeclaredDocumentsSuffice'
  BY DEF Await, DeclaredDocumentsSuffice, history
<1> QED
  BY <1>1, <1>2, <1>3, <1>4, <1>5

(* One that ends its idempotent body.                                      *)
LEMMA CompleteKeeps ==
  ASSUME ExchangeInv, NEW c \in Calls, NEW q \in Requests, NEW a \in Answers,
         Complete(c, q, a),
         Read(a, q) # "bare", Read(a, q) = "garbled" => q \in ignored',
         ignored \subseteq ignored', ignored' \subseteq Requests,
         enrollment' \in Optional(Enrollments),
         enrollment' # None => SendableLists(enrollment'),
         owed' \in Optional(SUBSET Ids),
         owed' # None => MissingIds(deployed, enrollment') \subseteq owed'
  PROVE  ExchangeInv'
<1>1. q.key \in Optional(Keys)
  BY ExchangeConstants DEF AllRequests, Optional
<1>2. record' \in {record} \union
        {[record EXCEPT ![k] = [request |-> q, answer |-> a]] : k \in Keys}
  BY <1>1 DEF Complete, Optional
<1> QED
  BY <1>2, ReturnKeeps DEF Complete

(* One that ends it with nothing else changed.                             *)
LEMMA CompleteOnlyKeeps ==
  ASSUME ExchangeInv, NEW c \in Calls, NEW q \in Requests, NEW a \in Answers,
         Complete(c, q, a), UNCHANGED <<enrollment, ignored, owed>>,
         Read(a, q) \in {"ok", "refused"}
  PROVE  ExchangeInv'
<1>1. /\ enrollment \in Optional(Enrollments) /\ owed \in Optional(SUBSET Ids)
      /\ ignored \subseteq Requests
      /\ enrollment # None => SendableLists(enrollment)
      /\ owed # None => MissingIds(deployed, enrollment) \subseteq owed
  BY DEF ExchangeInv, TypeOK, ListsStaySendable, DeclaredDocumentsSuffice
<1>2. enrollment' = enrollment /\ ignored' = ignored /\ owed' = owed
  OBVIOUS
<1> QED
  BY <1>1, <1>2, CompleteKeeps

(* A refusal for what is missing tells the Agent all that is missing.      *)
LEMMA RefusalKeeps ==
  ASSUME ExchangeInv, NEW c \in Calls, NEW q \in Requests, NEW d \in Deployments,
         NEW r \in Optional(Enrollments), NEW claims \in Lists, Sendable(claims),
         NEW ids \in SUBSET Ids, claims # Empty \/ ids # {},
         Complete(c, q, RequirementsUnmet(claims, ids)),
         UNCHANGED <<enrollment, ignored>>,
         owed' = owed \/ (ids = MissingIds(d, r) /\ Told(d, r, ids))
  PROVE  ExchangeInv'
<1>1. PICK a : a = RequirementsUnmet(claims, ids)
  OBVIOUS
<1>2. a \in Answers /\ Read(a, q) = "refused"
  BY <1>1, RequirementsUnmetIsRead
<1>3. /\ enrollment \in Optional(Enrollments) /\ owed \in Optional(SUBSET Ids)
      /\ ignored \subseteq Requests
      /\ enrollment # None => SendableLists(enrollment)
      /\ owed # None => MissingIds(deployed, enrollment) \subseteq owed
  BY DEF ExchangeInv, TypeOK, ListsStaySendable, DeclaredDocumentsSuffice
<1>4. enrollment' = enrollment /\ ignored' = ignored
  OBVIOUS
<1>5. owed' = owed \/ (owed' = ids /\ ids = MissingIds(deployed, enrollment))
  BY DEF Told
<1>6. owed' \in Optional(SUBSET Ids) /\ (owed' # None => MissingIds(deployed, enrollment) \subseteq owed')
  BY <1>3, <1>5 DEF Optional
<1> QED
  BY <1>1, <1>2, <1>3, <1>4, <1>6, CompleteKeeps

-----------------------------------------------------------------------------
(* Enroll.                                                                 *)

LEMMA EnrollRequests ==
  ASSUME NEW q \in Requests, q.command = "enroll"
  PROVE  q.claims \in SUBSET Claims /\ q.declared \in Optional(SUBSET Ids)
  BY ExchangeConstants DEF AllRequests

LEMMA RefuseEnrollKeeps ==
  ASSUME ExchangeInv, NEW c \in Calls, NEW q \in Requests, q.command = "enroll",
         NEW d \in Deployments, NEW r \in Optional(Enrollments),
         RefuseEnroll(c, d, q, r)
  PROVE  ExchangeInv'
<1>1. PICK claims : claims = MissingClaims(d, Given(q, r))
  OBVIOUS
<1>2. PICK ids : ids = IF Declared(d, q) = None THEN MissingIds(d, r) ELSE {}
  OBVIOUS
<1>3. claims \in Lists /\ Sendable(claims)
  BY <1>1, MissingIsSendable
<1>4. ids \in SUBSET Ids
  BY <1>2, MissingIdsAreIds
<1>5. /\ claims # Empty \/ ids # {}
      /\ Complete(c, q, RequirementsUnmet(claims, ids))
      /\ IF Declared(d, q) = None THEN Told(d, r, ids) ELSE UNCHANGED owed
      /\ UNCHANGED <<enrollment, ignored>>
  BY <1>1, <1>2 DEF RefuseEnroll, EnrollMisses, Unmet
<1>6. owed' = owed \/ (ids = MissingIds(d, r) /\ Told(d, r, ids))
  BY <1>2, <1>5
<1> QED
  BY <1>3, <1>4, <1>5, <1>6, RefusalKeeps

LEMMA IgnoringFacts ==
  ASSUME ExchangeInv, NEW d, NEW q \in Requests
  PROVE  /\ ignored \subseteq Ignoring(d, q) /\ Ignoring(d, q) \subseteq Requests
         /\ Declared(d, q) # q.declared => q \in Ignoring(d, q)
  BY DEF ExchangeInv, TypeOK, Ignoring

LEMMA KeepEnrollmentKeeps ==
  ASSUME ExchangeInv, NEW c \in Calls, NEW q \in Requests, q.command = "enroll",
         NEW d \in Deployments, NEW r \in Enrollments, SendableLists(r),
         KeepEnrollment(c, d, q, r)
  PROVE  ExchangeInv'
<1>1. PICK echo : echo = Declared(d, q)
  OBVIOUS
<1>2. echo \in Optional(SUBSET Ids)
  BY <1>1, EnrollRequests DEF Declared, Optional
<1>3. PICK a : a = EnrollmentResponse(r, echo)
  OBVIOUS
<1>4. a \in Answers /\ Read(a, q) # "bare" /\ (echo = q.declared => Read(a, q) = "ok")
  BY <1>2, <1>3, EnrollmentResponseIsRead
<1>5. /\ Complete(c, q, a) /\ ignored' = Ignoring(d, q)
      /\ enrollment' = enrollment /\ owed' = owed
  BY <1>1, <1>3 DEF KeepEnrollment
<1>6. /\ ignored \subseteq ignored' /\ ignored' \subseteq Requests
      /\ echo # q.declared => q \in ignored'
  BY <1>1, <1>5, IgnoringFacts
<1>7. /\ enrollment \in Optional(Enrollments) /\ owed \in Optional(SUBSET Ids)
      /\ enrollment # None => SendableLists(enrollment)
      /\ owed # None => MissingIds(deployed, enrollment) \subseteq owed
  BY DEF ExchangeInv, TypeOK, ListsStaySendable, DeclaredDocumentsSuffice
<1> QED
  BY <1>4, <1>5, <1>6, <1>7, CompleteKeeps

(* What is stored is an enrollment with lists that can be sent.            *)
LEMMA SavedIsEnrollment ==
  ASSUME NEW d \in Deployments, NEW q \in Requests, q.command = "enroll",
         NEW r \in Optional(Enrollments), r # None => SendableLists(r), NEW dec \in Decisions
  PROVE  Saved(d, q, r, dec) \in Enrollments /\ SendableLists(Saved(d, q, r, dec))
<1> DEFINE old == IF r # None THEN r
                  ELSE [claims |-> {}, acknowledged |-> {}, demanded |-> {}, status |-> dec.status,
                        owner |-> FALSE, requirements |-> Empty, verification |-> Empty]
           ids == IF Takes(d, q, dec) THEN q.declared ELSE {}
           kept == old.acknowledged \union (IF ids = {} THEN {} ELSE ids \intersect d.documents)
           given == Given(q, r)
           owner == IF dec.owner = None THEN old.owner ELSE dec.owner
           requirements == IF dec.requirements = None THEN old.requirements ELSE dec.requirements
           verification == IF dec.verification = None THEN old.verification ELSE dec.verification
           demanded == old.demanded \ ids
           status == old.status
<1>1. /\ dec.status \in {"active", "pending", "rejected"} /\ dec.owner \in Optional(BOOLEAN)
      /\ dec.requirements \in Optional(Lists) /\ dec.verification \in Optional(Lists)
      /\ Sendable(dec.requirements) /\ Sendable(dec.verification)
  BY ExchangeConstants, ListsAreSendable DEF AllDecisions
<1>2. old \in Enrollments /\ SendableLists(old)
  BY <1>1, NamesFacts DEF Enrollments, Statuses, Optional, SendableLists
<1>3. q.claims \in SUBSET Claims /\ q.declared \in Optional(SUBSET Ids)
  BY EnrollRequests
<1>4. given \in SUBSET Claims
  BY <1>3 DEF Given, Enrollments, Optional
<1>5. /\ old.acknowledged \in SUBSET Ids /\ old.demanded \in SUBSET Ids /\ old.status \in Statuses
      /\ old.owner \in BOOLEAN /\ old.requirements \in Lists /\ old.verification \in Lists
  BY <1>2 DEF Enrollments
<1>6. ids \in SUBSET Ids
  BY <1>3 DEF Takes, Declared, Optional
<1>7. kept \in SUBSET Ids
  BY <1>5, <1>6
<1>8. owner \in BOOLEAN
  BY <1>1, <1>5 DEF Optional
<1>9. /\ requirements \in Lists /\ verification \in Lists
      /\ Sendable(requirements) /\ Sendable(verification)
  BY <1>1, <1>2, <1>5 DEF Optional, SendableLists
<1>10. Saved(d, q, r, dec) =
         [claims |-> given, acknowledged |-> kept, demanded |-> demanded, status |-> status,
          owner |-> owner, requirements |-> requirements, verification |-> verification]
  BY DEF Saved
<1>11. demanded \in SUBSET Ids /\ status \in Statuses
  BY <1>5
<1> HIDE DEF given, kept, demanded, status, owner, requirements, verification
<1> QED
  BY <1>4, <1>7, <1>8, <1>9, <1>10, <1>11 DEF Enrollments, SendableLists

(* A declaration that is taken leaves nothing missing that it names, and   *)
(* nothing else that was not missing before.                               *)
LEMMA SavedMisses ==
  ASSUME NEW d \in Deployments, NEW q \in Requests, q.command = "enroll",
         NEW r \in Optional(Enrollments), NEW dec \in Decisions,
         Saved(d, q, r, dec) # None
  PROVE  MissingIds(d, Saved(d, q, r, dec))
           \subseteq MissingIds(d, r) \ (IF Takes(d, q, dec) THEN q.declared ELSE {})
<1> DEFINE ids == IF Takes(d, q, dec) THEN q.declared ELSE {}
           stored == IF r # None THEN r.acknowledged ELSE {}
           wanted == IF r # None THEN r.demanded ELSE {}
<1>1. Saved(d, q, r, dec).acknowledged
        = stored \union (IF ids = {} THEN {} ELSE ids \intersect d.documents)
  BY DEF Saved
<1>2. Saved(d, q, r, dec).demanded = wanted \ ids
  BY DEF Saved
<1>3. ids # {} => d.documents # None /\ d.required \subseteq d.documents
  BY CatalogsHoldRequired DEF Takes, Declared
<1>4. PICK saved : saved = Saved(d, q, r, dec)
  OBVIOUS
<1>5. MissingIds(d, saved) = {i \in d.required : i \notin saved.acknowledged \/ i \in saved.demanded}
  BY <1>4 DEF MissingIds
<1>6. ASSUME NEW i \in MissingIds(d, saved) PROVE i \in MissingIds(d, r) \ ids
<2>1. i \in d.required
  BY <1>5, <1>6
<2>2. CASE i \notin saved.acknowledged
<3>1. i \notin stored /\ i \notin ids
  BY <1>1, <1>3, <1>4, <2>1, <2>2
<3> QED
  BY <2>1, <3>1 DEF MissingIds
<2>3. CASE i \in saved.demanded
<3>1. i \in wanted /\ i \notin ids
  BY <1>2, <1>4, <2>3
<3> QED
  BY <2>1, <3>1 DEF MissingIds
<2> QED
  BY <1>5, <1>6, <2>2, <2>3
<1> QED
  BY <1>4, <1>6

LEMMA SaveEnrollmentKeeps ==
  ASSUME ExchangeInv, NEW c \in Calls, NEW q \in Requests, q.command = "enroll",
         NEW d \in Deployments, NEW r \in Optional(Enrollments), r # None => SendableLists(r),
         NEW dec \in Decisions, ~Rejects(r, dec),
         SaveEnrollment(c, d, q, r, dec)
  PROVE  ExchangeInv'
<1>1. PICK saved : saved = Saved(d, q, r, dec)
  OBVIOUS
<1>2. saved \in Enrollments /\ SendableLists(saved) /\ saved # None
  BY <1>1, SavedIsEnrollment, NoneIsNoValue
<1>3. PICK echo : echo = IF Takes(d, q, dec) THEN q.declared ELSE None
  OBVIOUS
<1>4. echo \in Optional(SUBSET Ids)
  BY <1>3, EnrollRequests DEF Optional
<1>5. PICK a : a = EnrollmentResponse(saved, echo)
  OBVIOUS
<1>6. /\ a \in Answers /\ Read(a, q) # "bare"
      /\ (saved.status = "rejected" \/ echo = q.declared) => Read(a, q) = "ok"
  BY <1>2, <1>4, <1>5, EnrollmentResponseIsRead
<1>7. /\ enrollment' = saved /\ Complete(c, q, a) /\ ignored' = Ignoring(d, q)
      /\ owed' = IF owed = None \/ d # deployed \/ r # enrollment THEN None
                 ELSE IF Takes(d, q, dec) THEN owed \ q.declared ELSE owed
  BY <1>1, <1>3, <1>5 DEF SaveEnrollment
<1>8. /\ ignored \subseteq ignored' /\ ignored' \subseteq Requests
      /\ Declared(d, q) # q.declared => q \in ignored'
  BY <1>7, IgnoringFacts
<1>9. Read(a, q) = "garbled" => q \in ignored'
<2>1. CASE Declared(d, q) # q.declared
  BY <1>8, <2>1
<2>2. CASE Declared(d, q) = q.declared /\ dec.status = "rejected"
<3>1. r = None
  BY <2>2 DEF Rejects
<3>2. saved.status = "rejected"
  BY <1>1, <2>2, <3>1 DEF Saved
<3> QED
  BY <1>6, <3>2
<2>3. CASE Declared(d, q) = q.declared /\ dec.status # "rejected"
<3>1. echo = q.declared
  BY <1>3, <2>3 DEF Takes
<3> QED
  BY <1>6, <3>1
<2> QED
  BY <2>1, <2>2, <2>3
<1>10. owed' \in Optional(SUBSET Ids) /\ (owed' # None => MissingIds(deployed, enrollment') \subseteq owed')
<2>1. owed \in Optional(SUBSET Ids) /\ (owed # None => MissingIds(deployed, enrollment) \subseteq owed)
  BY DEF ExchangeInv, TypeOK, DeclaredDocumentsSuffice
<2>2. owed' \in Optional(SUBSET Ids)
  BY <1>7, <2>1 DEF Optional
<2>3. MissingIds(d, saved) \subseteq MissingIds(d, r) \ (IF Takes(d, q, dec) THEN q.declared ELSE {})
  BY <1>1, <1>2, SavedMisses
<2>4. CASE owed = None \/ d # deployed \/ r # enrollment
  BY <1>7, <2>2, <2>4
<2>5. CASE ~(owed = None \/ d # deployed \/ r # enrollment)
<3>1. MissingIds(d, r) \subseteq owed
  BY <2>1, <2>5
<3>2. MissingIds(d, saved) \subseteq owed'
  BY <1>7, <2>3, <2>5, <3>1
<3> QED
  BY <1>7, <2>2, <2>5, <3>2
<2> QED
  BY <2>4, <2>5
<1> QED
  BY <1>2, <1>6, <1>7, <1>8, <1>9, <1>10, CompleteKeeps DEF Optional

-----------------------------------------------------------------------------
(* One lemma per action.                                                   *)

LEMMA ReceiveEnrollKeeps ==
  ASSUME ExchangeInv, NEW c \in Calls, NEW q \in Requests, ReceiveEnroll(c, q)
  PROVE  ExchangeInv'
<1>1. q.command = "enroll"
  BY DEF ReceiveEnroll
<1>2. CASE Recorded(c, q)
  BY <1>2, RecordedKeeps
<1>3. CASE RefuseEnroll(c, deployed, q, enrollment)
  BY <1>1, <1>3, RefuseEnrollKeeps DEF ExchangeInv, TypeOK
<1>4. CASE Await(c, q, "deciding")
  BY <1>1, <1>4, AwaitKeeps
<1> QED
  BY <1>2, <1>3, <1>4 DEF ReceiveEnroll

LEMMA DecideKeeps ==
  ASSUME ExchangeInv, NEW c \in Calls, NEW dec \in Decisions, Decide(c, dec)
  PROVE  ExchangeInv'
<1>1. PICK d, q, r : d = config[c] /\ q = request[c] /\ r = seen[c]
  OBVIOUS
<1>2. /\ d \in Deployments /\ q \in Requests /\ q.command = "enroll"
      /\ r \in Optional(Enrollments) /\ (r # None => SendableLists(r))
  BY <1>1 DEF Decide, ExchangeInv, Frames, TypeOK, ListsStaySendable
<1>3. CASE Complete(c, q, Problem("enrollment_failed")) /\ UNCHANGED <<enrollment, history>>
<2>1. PICK a : a = Problem("enrollment_failed")
  OBVIOUS
<2>2. a \in Answers /\ Read(a, q) = "refused"
  BY <2>1, PlainProblems DEF Refusals
<2> QED
  BY <1>2, <1>3, <2>1, <2>2, CompleteOnlyKeeps DEF history
<1>4. CASE Declines(r, dec) /\ KeepEnrollment(c, d, q, r)
<2>1. r \in Enrollments /\ SendableLists(r)
  BY <1>2, <1>4 DEF Declines, Optional
<2> QED
  BY <1>2, <1>4, <2>1, KeepEnrollmentKeeps
<1>5. CASE RefuseEnroll(c, d, q, r)
  BY <1>2, <1>5, RefuseEnrollKeeps
<1>6. CASE ~Rejects(r, dec) /\ SaveEnrollment(c, d, q, r, dec)
  BY <1>2, <1>6, SaveEnrollmentKeeps
<1> QED
  BY <1>1, <1>3, <1>4, <1>5, <1>6 DEF Decide

(* The enrollment is one that can be answered with, when there is one.     *)
LEMMA StoredFacts ==
  ASSUME ExchangeInv, enrollment # None
  PROVE  enrollment \in Enrollments /\ SendableLists(enrollment)
  BY DEF ExchangeInv, TypeOK, ListsStaySendable, Optional

LEMMA ProblemKeeps ==
  ASSUME ExchangeInv, NEW c \in Calls, NEW q \in Requests, NEW code \in Refusals,
         ReturnEarly(c, q, Problem(code))
  PROVE  ExchangeInv'
<1>1. PICK a : a = Problem(code)
  OBVIOUS
<1>2. a \in Answers /\ Fit(a, q)
  BY <1>1, PlainProblems DEF Fit
<1> QED
  BY <1>1, <1>2, ReturnEarlyKeeps

LEMMA ReceiveStatusKeeps ==
  ASSUME ExchangeInv, NEW c \in Calls, NEW q \in Requests, ReceiveStatus(c, q)
  PROVE  ExchangeInv'
<1>1. q.command = "status"
  BY DEF ReceiveStatus
<1>2. CASE enrollment = None
  BY <1>2, ProblemKeeps DEF ReceiveStatus, Refusals
<1>3. CASE enrollment # None
<2>1. PICK a : a = StatusResponse(enrollment)
  OBVIOUS
<2>2. a \in Answers /\ Fit(a, q)
  BY <1>1, <1>3, <2>1, StoredFacts, StatusResponseIsRead DEF Fit
<2> QED
  BY <1>3, <2>1, <2>2, ReturnEarlyKeeps DEF ReceiveStatus
<1> QED
  BY <1>2, <1>3

LEMMA ReceiveGrantKeeps ==
  ASSUME ExchangeInv, NEW c \in Calls, NEW q \in Requests, ReceiveGrant(c, q)
  PROVE  ExchangeInv'
<1>1. q.command = "grant"
  BY DEF ReceiveGrant
<1>2. ASSUME NEW code \in Refusals, ReturnEarly(c, q, Problem(code)) PROVE ExchangeInv'
  BY <1>2, ProblemKeeps
<1>3. CASE enrollment # None /\ ReturnEarly(c, q, VerificationPending(enrollment))
<2>1. PICK a : a = VerificationPending(enrollment)
  OBVIOUS
<2>2. a \in Answers /\ Fit(a, q)
  BY <1>3, <2>1, StoredFacts, VerificationPendingIsRead DEF Fit
<2> QED
  BY <1>3, <2>1, <2>2, ReturnEarlyKeeps
<1>4. CASE enrollment # None /\ Await(c, q, "admitted")
  BY <1>1, <1>4, AwaitKeeps
<1> QED
  BY <1>2, <1>3, <1>4 DEF ReceiveGrant, Refusals

LEMMA ExecuteGrantKeeps ==
  ASSUME ExchangeInv, NEW c \in Calls, ExecuteGrant(c)
  PROVE  ExchangeInv'
<1>1. PICK d, q, r, claims, ids :
        /\ d = config[c] /\ q = request[c] /\ r = seen[c]
        /\ claims = MissingClaims(config[c], seen[c].claims)
        /\ ids = MissingIds(config[c], seen[c])
  OBVIOUS
<1>2. d \in Deployments /\ q \in Requests /\ q.command = "grant" /\ r \in Optional(Enrollments)
  BY <1>1 DEF ExecuteGrant, Admitted, ExchangeInv, Frames, TypeOK
<1>3. CASE Recorded(c, q)
  BY <1>2, <1>3, RecordedKeeps
<1>4. CASE /\ claims # Empty \/ ids # {}
           /\ Complete(c, q, RequirementsUnmet(claims, ids))
           /\ Told(d, r, ids)
           /\ UNCHANGED <<enrollment, ignored>>
<2>1. claims \in Lists /\ Sendable(claims) /\ ids \in SUBSET Ids /\ ids = MissingIds(d, r)
  BY <1>1, <1>2, MissingIsSendable, MissingIdsAreIds
<2> QED
  BY <1>2, <1>4, <2>1, RefusalKeeps
<1>5. CASE Complete(c, q, Body("ok")) /\ UNCHANGED <<enrollment, history>>
<2>1. PICK a : a = Body("ok")
  OBVIOUS
<2>2. a \in Answers /\ Read(a, q) = "ok"
  BY <1>2, <2>1, GrantedIsFit
<2> QED
  BY <1>2, <1>5, <2>1, <2>2, CompleteOnlyKeeps DEF history
<1> QED
  BY <1>1, <1>3, <1>4, <1>5 DEF ExecuteGrant

LEMMA ReceiveRevokeKeeps ==
  ASSUME ExchangeInv, NEW c \in Calls, NEW q \in Requests, ReceiveRevoke(c, q)
  PROVE  ExchangeInv'
<1>1. q.command = "revoke"
  BY DEF ReceiveRevoke
<1>2. ASSUME NEW code \in Refusals, ReturnEarly(c, q, Problem(code)) PROVE ExchangeInv'
  BY <1>2, ProblemKeeps
<1>3. CASE enrollment # None /\ Await(c, q, "admitted")
  BY <1>1, <1>3, AwaitKeeps
<1> QED
  BY <1>2, <1>3 DEF ReceiveRevoke, Refusals

LEMMA ExecuteRevokeKeeps ==
  ASSUME ExchangeInv, NEW c \in Calls, ExecuteRevoke(c)
  PROVE  ExchangeInv'
<1>1. PICK q : q = request[c]
  OBVIOUS
<1>2. q \in Requests /\ q.command = "revoke"
  BY <1>1 DEF ExecuteRevoke, Admitted, ExchangeInv, Frames
<1>3. CASE Recorded(c, q)
  BY <1>2, <1>3, RecordedKeeps
<1>4. CASE Complete(c, q, Body("ok")) /\ UNCHANGED <<enrollment, history>>
<2>1. PICK a : a = Body("ok")
  OBVIOUS
<2>2. a \in Answers /\ Read(a, q) = "ok"
  BY <1>2, <2>1, GrantedIsFit
<2> QED
  BY <1>2, <1>4, <2>1, <2>2, CompleteOnlyKeeps DEF history
<1> QED
  BY <1>1, <1>3, <1>4 DEF ExecuteRevoke

(* The steps outside the handlers only make the Service say less of what   *)
(* is owed; the lists the operator's writes leave alone stay sendable.     *)
LEMMA OperatorWritesKeeps ==
  ASSUME ExchangeInv, NEW r \in Enrollments, SendableLists(r), OperatorWrites(r)
  PROVE  ExchangeInv'
<1> USE DEF ExchangeInv
<1>1. TypeOK'
  BY DEF OperatorWrites, TypeOK, Optional, callVars
<1>2. Frames'
  BY DEF OperatorWrites, Frames, callVars
<1>3. ListsStaySendable'
  BY DEF OperatorWrites, ListsStaySendable, callVars
<1>4. RecordsFit' /\ ReplyFits' /\ DeclaredDocumentsSuffice'
  BY DEF OperatorWrites, RecordsFit, ReplyFits, Fit, DeclaredDocumentsSuffice
<1> QED
  BY <1>1, <1>2, <1>3, <1>4

LEMMA SetStatusKeeps ==
  ASSUME ExchangeInv, NEW s \in Statuses, SetStatus(s)
  PROVE  ExchangeInv'
<1>1. PICK r : r = [enrollment EXCEPT !.status = s]
  OBVIOUS
<1>2. enrollment \in Enrollments /\ SendableLists(enrollment)
  BY StoredFacts DEF SetStatus
<1>3. r \in Enrollments /\ SendableLists(r)
  BY <1>1, <1>2 DEF Enrollments, SendableLists
<1> QED
  BY <1>1, <1>3, OperatorWritesKeeps DEF SetStatus

LEMMA DemandKeeps ==
  ASSUME ExchangeInv, NEW i \in Ids, Demand(i)
  PROVE  ExchangeInv'
<1>1. PICK r : r = [enrollment EXCEPT !.demanded = @ \union {i}]
  OBVIOUS
<1>2. enrollment \in Enrollments /\ SendableLists(enrollment)
  BY StoredFacts DEF Demand
<1>3. r \in Enrollments /\ SendableLists(r)
  BY <1>1, <1>2 DEF Enrollments, SendableLists
<1> QED
  BY <1>1, <1>3, OperatorWritesKeeps DEF Demand

LEMMA InspectKeeps == ExchangeInv /\ Inspect => ExchangeInv'
<1> SUFFICES ASSUME ExchangeInv, Inspect PROVE ExchangeInv'
  OBVIOUS
<1> USE DEF ExchangeInv, Inspect, callVars, history
<1>1. TypeOK'
  BY DEF TypeOK, Optional
<1>2. Frames' /\ ListsStaySendable'
  BY DEF Frames, ListsStaySendable
<1>3. RecordsFit' /\ ReplyFits' /\ DeclaredDocumentsSuffice'
  BY DEF RecordsFit, ReplyFits, Fit, DeclaredDocumentsSuffice
<1> QED
  BY <1>1, <1>2, <1>3

LEMMA RedeployKeeps ==
  ASSUME ExchangeInv, NEW d \in Deployments, Redeploy(d)
  PROVE  ExchangeInv'
<1> USE DEF ExchangeInv, Redeploy, callVars
<1>1. TypeOK'
  BY DEF TypeOK, Optional
<1>2. Frames' /\ ListsStaySendable'
  BY DEF Frames, ListsStaySendable
<1>3. RecordsFit' /\ ReplyFits' /\ DeclaredDocumentsSuffice'
  BY DEF RecordsFit, ReplyFits, Fit, DeclaredDocumentsSuffice
<1> QED
  BY <1>1, <1>2, <1>3

LEMMA StutterKeeps == ExchangeInv /\ UNCHANGED vars => ExchangeInv'
<1> SUFFICES ASSUME ExchangeInv, UNCHANGED vars PROVE ExchangeInv'
  OBVIOUS
<1> USE DEF ExchangeInv, vars, callVars, history
<1>1. TypeOK'
  BY DEF TypeOK
<1>2. Frames' /\ ListsStaySendable'
  BY DEF Frames, ListsStaySendable
<1>3. RecordsFit' /\ ReplyFits' /\ DeclaredDocumentsSuffice'
  BY DEF RecordsFit, ReplyFits, Fit, DeclaredDocumentsSuffice
<1> QED
  BY <1>1, <1>2, <1>3

LEMMA NextKeeps == ExchangeInv /\ [Next]_vars => ExchangeInv'
<1> SUFFICES ASSUME ExchangeInv, [Next]_vars PROVE ExchangeInv'
  OBVIOUS
<1>1. CASE Inspect
  BY <1>1, InspectKeeps
<1>2. ASSUME NEW d \in Deployments, Redeploy(d) PROVE ExchangeInv'
  BY <1>2, RedeployKeeps
<1>3. ASSUME NEW s \in Statuses, SetStatus(s) PROVE ExchangeInv'
  BY <1>3, SetStatusKeeps
<1>4. ASSUME NEW i \in Ids, Demand(i) PROVE ExchangeInv'
  BY <1>4, DemandKeeps
<1>5. ASSUME NEW c \in Calls, NEW q \in Requests, ReceiveEnroll(c, q) PROVE ExchangeInv'
  BY <1>5, ReceiveEnrollKeeps
<1>6. ASSUME NEW c \in Calls, NEW q \in Requests, ReceiveStatus(c, q) PROVE ExchangeInv'
  BY <1>6, ReceiveStatusKeeps
<1>7. ASSUME NEW c \in Calls, NEW q \in Requests, ReceiveGrant(c, q) PROVE ExchangeInv'
  BY <1>7, ReceiveGrantKeeps
<1>8. ASSUME NEW c \in Calls, NEW q \in Requests, ReceiveRevoke(c, q) PROVE ExchangeInv'
  BY <1>8, ReceiveRevokeKeeps
<1>9. ASSUME NEW c \in Calls, NEW dec \in Decisions, Decide(c, dec) PROVE ExchangeInv'
  BY <1>9, DecideKeeps
<1>10. ASSUME NEW c \in Calls, ExecuteGrant(c) PROVE ExchangeInv'
  BY <1>10, ExecuteGrantKeeps
<1>11. ASSUME NEW c \in Calls, ExecuteRevoke(c) PROVE ExchangeInv'
  BY <1>11, ExecuteRevokeKeeps
<1>12. CASE UNCHANGED vars
  BY <1>12, StutterKeeps
<1> QED
  BY <1>1, <1>2, <1>3, <1>4, <1>5, <1>6, <1>7, <1>8, <1>9, <1>10, <1>11, <1>12 DEF Next

LEMMA InvHolds == Spec => []ExchangeInv
  BY InitHolds, NextKeeps, PTL DEF Spec

-----------------------------------------------------------------------------
(* Stores, handlers and answers hold values of their kinds.                *)
THEOREM TypeCorrect == Spec => []TypeOK
<1>1. ExchangeInv => TypeOK
  BY DEF ExchangeInv
<1> QED
  BY <1>1, InvHolds, PTL

(* An answer of success is read by the Agent that asked, new or repeated   *)
(* under its key, unless its declaration was ignored.                      *)
THEOREM AnswersUnderstood == Spec => []Understood
  BY InvIsUnderstood, InvHolds, PTL

(* The caller of a refused command gets the problem the Service sent, from *)
(* every handler, for every key that is used again.                        *)
THEOREM ProblemsReachCallers == Spec => []ProblemsPreserved
  BY InvIsUnderstood, InvHolds, PTL

(* Whatever configurations follow each other and however calls interleave, *)
(* the documents a refusal named suffice.                                  *)
THEOREM DeclarationsSuffice == Spec => []DeclaredDocumentsSuffice
<1>1. ExchangeInv => DeclaredDocumentsSuffice
  BY DEF ExchangeInv
<1> QED
  BY <1>1, InvHolds, PTL
=============================================================================

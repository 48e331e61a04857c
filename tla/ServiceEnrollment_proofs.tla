---------------------- MODULE ServiceEnrollment_proofs ----------------------
(***************************************************************************)
(* Proofs about ServiceEnrollment, for every set of calls, keys, claims    *)
(* and documents and every policy.  The commands are first shown to be     *)
(* clients of CommandIdempotency, whose invariant then holds of them too.  *)
(***************************************************************************)
EXTENDS ServiceEnrollment, TLAPS

-----------------------------------------------------------------------------
(* The store of the commands, as CommandIdempotency specifies it.          *)

(* A call has an input once it has arrived, and an answer once it is done. *)
Phases ==
  \A c \in Calls :
    /\ pc[c] = "idle" <=> input[c] = None
    /\ pc[c] = "done" <=> answer[c] # None

(* The pending map holds exactly the running calls, each under its key,    *)
(* and only under keys without a record.                                   *)
PendingRuns ==
  /\ \A c \in Calls : pc[c] = "running" => pending[Idem!KeyOf(c)] = c
  /\ \A k \in Keys : pending[k] # None =>
       /\ pc[pending[k]] = "running"
       /\ Idem!KeyOf(pending[k]) = k
       /\ record[k] = None

(* Every answer agrees with the record of its key.                         *)
AnswerFitsRecord ==
  \A c \in Calls : pc[c] = "done" =>
    /\ answer[c].state \in {"created", "replayed"} =>
         /\ record[Idem!KeyOf(c)] # None
         /\ record[Idem!KeyOf(c)].material = input[c].material
         /\ record[Idem!KeyOf(c)].response = answer[c].response
    /\ answer[c].state = "conflict" =>
         /\ record[Idem!KeyOf(c)] # None
         /\ record[Idem!KeyOf(c)].material # input[c].material

(* Two calls do not both create the response of one key.                   *)
OneCreator ==
  \A c, d \in Calls :
    /\ pc[c] = "done" /\ answer[c].state = "created"
    /\ pc[d] = "done" /\ answer[d].state = "created"
    /\ Idem!KeyOf(c) = Idem!KeyOf(d)
    => c = d

StoreInv == Idem!TypeOK /\ Phases /\ PendingRuns /\ AnswerFitsRecord /\ OneCreator

(* Nothing has arrived initially.                                          *)
LEMMA StoreInit == Idem!Init => StoreInv
BY NoneIsNoValue
   DEF Idem!Init, StoreInv, Idem!TypeOK, Phases, PendingRuns, AnswerFitsRecord, OneCreator

(* The three outcomes of a turn of the loop, each as facts about the       *)
(* variables: what later proofs use instead of the definition.             *)
LEMMA LookUpCases ==
  ASSUME NEW c \in Calls, Idem!LookUp(c)
  PROVE  \/ /\ record[Idem!KeyOf(c)] # None
            /\ \/ /\ record[Idem!KeyOf(c)].material = input[c].material
                  /\ Idem!Settle(c, "replayed", record[Idem!KeyOf(c)].response)
               \/ /\ record[Idem!KeyOf(c)].material # input[c].material
                  /\ Idem!Settle(c, "conflict", None)
            /\ UNCHANGED <<pending, waitsOn, input, record>>
         \/ /\ record[Idem!KeyOf(c)] = None /\ pending[Idem!KeyOf(c)] # None
            /\ pc' = [pc EXCEPT ![c] = "waiting"]
            /\ waitsOn' = [waitsOn EXCEPT ![c] = pending[Idem!KeyOf(c)]]
            /\ UNCHANGED <<answer, pending, input, record>>
         \/ /\ record[Idem!KeyOf(c)] = None /\ pending[Idem!KeyOf(c)] = None
            /\ pc' = [pc EXCEPT ![c] = "running"]
            /\ pending' = [pending EXCEPT ![Idem!KeyOf(c)] = c]
            /\ UNCHANGED <<answer, waitsOn, input, record>>
BY DEF Idem!LookUp, Idem!Matches

(* A turn of the loop by a call that is not yet running keeps StoreInv.         *)
LEMMA StoreLookUpStep ==
  ASSUME StoreInv, NEW c \in Calls, pc[c] \in {"arrived", "waiting"}, Idem!LookUp(c)
  PROVE  StoreInv'
<1> USE NoneIsNoValue
<1> DEFINE k == Idem!KeyOf(c)
<1>0. /\ input[c] \in Idem!Inputs /\ k \in Keys /\ answer[c] = None
      /\ input[c].material \in Requests
      /\ record[k] # None => record[k] \in Idem!Records
  BY DEF StoreInv, Idem!TypeOK, Phases, Idem!KeyOf, Idem!Inputs
<1>1. CASE /\ record[k] # None
           /\ record[k].material = input[c].material
           /\ Idem!Settle(c, "replayed", record[k].response)
           /\ UNCHANGED <<pending, waitsOn, input, record>>
  <2>1. Idem!TypeOK'
    BY <1>0, <1>1 DEF StoreInv, Idem!TypeOK, Idem!Settle, Idem!Answers, Idem!Records
  <2>2. [state |-> "replayed", response |-> record[k].response] # None
    BY <1>0, <1>1 DEF Idem!Records
  <2>3. Phases' /\ PendingRuns'
    BY <1>0, <1>1, <2>2 DEF StoreInv, Idem!TypeOK, Phases, PendingRuns, Idem!Settle, Idem!KeyOf
  <2>4. AnswerFitsRecord' /\ OneCreator'
    BY <1>0, <1>1 DEF StoreInv, Idem!TypeOK, AnswerFitsRecord, OneCreator, Idem!Settle, Idem!KeyOf
  <2> QED BY <2>1, <2>3, <2>4 DEF StoreInv
<1>2. CASE /\ record[k] # None
           /\ record[k].material # input[c].material
           /\ Idem!Settle(c, "conflict", None)
           /\ UNCHANGED <<pending, waitsOn, input, record>>
  <2>1. Idem!TypeOK'
    BY <1>0, <1>2 DEF StoreInv, Idem!TypeOK, Idem!Settle, Idem!Answers
  <2>2. [state |-> "conflict", response |-> None] # None
    OBVIOUS
  <2>3. Phases' /\ PendingRuns'
    BY <1>0, <1>2, <2>2 DEF StoreInv, Idem!TypeOK, Phases, PendingRuns, Idem!Settle, Idem!KeyOf
  <2>4. AnswerFitsRecord' /\ OneCreator'
    BY <1>0, <1>2 DEF StoreInv, Idem!TypeOK, AnswerFitsRecord, OneCreator, Idem!Settle, Idem!KeyOf
  <2> QED BY <2>1, <2>3, <2>4 DEF StoreInv
<1>3. CASE /\ record[k] = None /\ pending[k] # None
           /\ pc' = [pc EXCEPT ![c] = "waiting"]
           /\ waitsOn' = [waitsOn EXCEPT ![c] = pending[k]]
           /\ UNCHANGED <<answer, pending, input, record>>
  <2>1. pending[k] \in Calls /\ pending[k] # c
    BY <1>0, <1>3 DEF StoreInv, Idem!TypeOK, PendingRuns
  <2>2. Idem!TypeOK'
    BY <1>0, <1>3, <2>1 DEF StoreInv, Idem!TypeOK
  <2>3. Phases'
    BY <1>0, <1>3 DEF StoreInv, Idem!TypeOK, Phases
  <2>4. PendingRuns'
    BY <1>0, <1>3 DEF StoreInv, Idem!TypeOK, PendingRuns, Idem!KeyOf
  <2>5. AnswerFitsRecord' /\ OneCreator'
    BY <1>0, <1>3 DEF StoreInv, Idem!TypeOK, AnswerFitsRecord, OneCreator, Idem!KeyOf
  <2> QED BY <2>2, <2>3, <2>4, <2>5 DEF StoreInv
<1>4. CASE /\ record[k] = None /\ pending[k] = None
           /\ pc' = [pc EXCEPT ![c] = "running"]
           /\ pending' = [pending EXCEPT ![k] = c]
           /\ UNCHANGED <<answer, waitsOn, input, record>>
  <2>1. Idem!TypeOK'
    BY <1>0, <1>4 DEF StoreInv, Idem!TypeOK
  <2>2. Phases'
    BY <1>0, <1>4 DEF StoreInv, Idem!TypeOK, Phases
  <2>3. PendingRuns'
    BY <1>0, <1>4 DEF StoreInv, Idem!TypeOK, PendingRuns, Idem!KeyOf
  <2>4. AnswerFitsRecord' /\ OneCreator'
    BY <1>0, <1>4 DEF StoreInv, Idem!TypeOK, AnswerFitsRecord, OneCreator, Idem!KeyOf
  <2> QED BY <2>1, <2>2, <2>3, <2>4 DEF StoreInv
<1> QED BY LookUpCases, <1>1, <1>2, <1>3, <1>4

(* What a running call knows of its key.                                   *)
LEMMA RunnerFacts ==
  ASSUME StoreInv, NEW c \in Calls, Idem!Finish(c)
  PROVE  /\ pc[c] = "running"
         /\ input[c] \in Idem!Inputs
         /\ input[c].material \in Requests
         /\ Idem!KeyOf(c) \in Keys
         /\ pending[Idem!KeyOf(c)] = c
         /\ record[Idem!KeyOf(c)] = None
<1>1. pc[c] = "running"
  BY DEF Idem!Finish, Idem!Throw, Idem!Succeed
<1>2. input[c] \in Idem!Inputs
  BY <1>1 DEF StoreInv, Idem!TypeOK
<1>3. input[c].material \in Requests /\ Idem!KeyOf(c) \in Keys
  BY <1>2 DEF Idem!Inputs, Idem!KeyOf
<1>4. pending[Idem!KeyOf(c)] = c
  BY <1>1 DEF StoreInv, PendingRuns
<1>5. c # None
  BY NoneIsNoValue
<1>6. record[Idem!KeyOf(c)] = None
  BY <1>3, <1>4, <1>5 DEF StoreInv, PendingRuns
<1> QED BY <1>1, <1>2, <1>3, <1>4, <1>6

(* Finishing a body frees its key and, on success, fixes its record.       *)
LEMMA StoreFinishStep ==
  ASSUME StoreInv, NEW c \in Calls, Idem!Finish(c)
  PROVE  StoreInv'
<1> USE NoneIsNoValue
<1> DEFINE k == Idem!KeyOf(c)
<1>0. /\ pc[c] = "running" /\ input[c] \in Idem!Inputs /\ k \in Keys
      /\ pending[k] = c /\ record[k] = None
      /\ input[c].material \in Requests
  BY RunnerFacts
<1>a. \A d \in Calls : d # c /\ Idem!KeyOf(d) = k => pc[d] # "running"
  BY <1>0 DEF StoreInv, PendingRuns
<1>b. \A d \in Calls : pc[d] = "done" /\ Idem!KeyOf(d) = k => answer[d].state = "threw"
  BY <1>0 DEF StoreInv, AnswerFitsRecord, Idem!TypeOK, Phases, Idem!Answers
<1>1. CASE Idem!Throw(c)
  <2>1. Idem!TypeOK'
    BY <1>0, <1>1 DEF StoreInv, Idem!TypeOK, Idem!Throw, Idem!Settle, Idem!Release, Idem!Answers
  <2>2. Phases'
    BY <1>0, <1>1 DEF StoreInv, Idem!TypeOK, Phases, Idem!Throw, Idem!Settle
  <2>3. PendingRuns'
    BY <1>0, <1>a, <1>1
       DEF StoreInv, Idem!TypeOK, PendingRuns, Idem!Throw, Idem!Settle, Idem!Release, Idem!KeyOf
  <2>4. AnswerFitsRecord' /\ OneCreator'
    BY <1>0, <1>1 DEF StoreInv, Idem!TypeOK, AnswerFitsRecord, OneCreator, Idem!Throw, Idem!Settle, Idem!KeyOf
  <2> QED BY <2>1, <2>2, <2>3, <2>4 DEF StoreInv
<1>2. ASSUME NEW resp \in Answered, Idem!Succeed(c, resp) PROVE StoreInv'
  <2> DEFINE rec == [material |-> input[c].material, response |-> resp]
  <2>0. rec \in Idem!Records /\ rec # None
    BY <1>0 DEF Idem!Records
  <2>1. Idem!TypeOK'
    BY <1>0, <1>2, <2>0 DEF StoreInv, Idem!TypeOK, Idem!Succeed, Idem!Settle, Idem!Release, Idem!Answers
  <2>2. Phases'
    BY <1>0, <1>2 DEF StoreInv, Idem!TypeOK, Phases, Idem!Succeed, Idem!Settle
  <2>3. PendingRuns'
    BY <1>0, <1>a, <1>2
       DEF StoreInv, Idem!TypeOK, PendingRuns, Idem!Succeed, Idem!Settle, Idem!Release, Idem!KeyOf
  <2>4. \A d \in Calls : pc[d] = "done" => input[d] \in Idem!Inputs /\ Idem!KeyOf(d) \in Keys
    BY DEF StoreInv, Idem!TypeOK, Idem!KeyOf, Idem!Inputs
  <2>5. AnswerFitsRecord'
    BY <1>0, <1>b, <1>2, <2>0, <2>4
       DEF StoreInv, Idem!TypeOK, AnswerFitsRecord, Idem!Succeed, Idem!Settle, Idem!KeyOf
  <2>6. OneCreator'
    BY <1>0, <1>b, <1>2 DEF StoreInv, Idem!TypeOK, OneCreator, Idem!Succeed, Idem!Settle, Idem!KeyOf
  <2> QED BY <2>1, <2>2, <2>3, <2>5, <2>6 DEF StoreInv
<1> QED BY <1>1, <1>2 DEF Idem!Finish

(* An arrival changes nothing but its own input.                           *)
LEMMA StoreArriveStep ==
  ASSUME StoreInv, NEW c \in Calls, NEW in \in Idem!Inputs, Idem!Arrive(c, in)
  PROVE  StoreInv'
<1> USE NoneIsNoValue
<1>1. Idem!TypeOK'
  BY DEF StoreInv, Idem!TypeOK, Idem!Arrive
<1>2. in # None /\ answer[c] = None
  BY DEF StoreInv, Phases, Idem!Inputs, Idem!Arrive
<1>3. Phases'
  BY <1>2 DEF StoreInv, Idem!TypeOK, Phases, Idem!Arrive
<1>4. PendingRuns'
  BY DEF StoreInv, Idem!TypeOK, PendingRuns, Idem!Arrive, Idem!KeyOf
<1>5. AnswerFitsRecord' /\ OneCreator'
  BY DEF StoreInv, Idem!TypeOK, AnswerFitsRecord, OneCreator, Idem!Arrive, Idem!KeyOf
<1> QED BY <1>1, <1>3, <1>4, <1>5 DEF StoreInv

(* StoreInv is inductive.                                                       *)
LEMMA StoreInvStep == StoreInv /\ [Idem!Next]_(Idem!vars) => StoreInv'
<1> SUFFICES ASSUME StoreInv, [Idem!Next]_(Idem!vars) PROVE StoreInv'
  OBVIOUS
<1>1. ASSUME NEW c \in Calls, NEW in \in Idem!Inputs, Idem!Arrive(c, in) PROVE StoreInv'
  BY <1>1, StoreArriveStep
<1>2. ASSUME NEW c \in Calls, Idem!Enter(c) PROVE StoreInv'
  BY <1>2, StoreLookUpStep DEF Idem!Enter
<1>3. ASSUME NEW c \in Calls, Idem!Wake(c) PROVE StoreInv'
  BY <1>3, StoreLookUpStep DEF Idem!Wake
<1>4. ASSUME NEW c \in Calls, Idem!Finish(c) PROVE StoreInv'
  BY <1>4, StoreFinishStep
<1>5. CASE UNCHANGED Idem!vars
  BY <1>5 DEF Idem!vars, StoreInv, Idem!TypeOK, Phases, PendingRuns, AnswerFitsRecord, OneCreator, Idem!KeyOf
<1> QED BY <1>1, <1>2, <1>3, <1>4, <1>5 DEF Idem!Next

(* StoreInv holds in every state of every behaviour.                            *)
LEMMA StoreInvHolds == Idem!Spec => []StoreInv
BY StoreInit, StoreInvStep, PTL DEF Idem!Spec

(* The variables keep their types.                                         *)
THEOREM StoreTypeCorrect == Idem!Spec => []Idem!TypeOK
<1>1. StoreInv => Idem!TypeOK
  BY DEF StoreInv
<1> QED BY StoreInvHolds, <1>1, PTL

(* Bodies of one key exclude each other, and none runs after a record.     *)
THEOREM StoreBodiesExclude == Idem!Spec => []Idem!OneRunner
<1>1. StoreInv => Idem!OneRunner
  <2> SUFFICES ASSUME StoreInv, NEW c \in Calls, pc[c] = "running"
               PROVE  /\ record[Idem!KeyOf(c)] = None
                      /\ \A d \in Calls : Idem!SameKey(c, d) /\ pc[d] = "running" => c = d
    BY DEF Idem!OneRunner
  <2>1. Idem!KeyOf(c) \in Keys /\ pending[Idem!KeyOf(c)] = c /\ c # None
    BY NoneIsNoValue DEF StoreInv, Idem!TypeOK, PendingRuns, Idem!KeyOf, Idem!Inputs
  <2> QED BY <2>1 DEF StoreInv, PendingRuns, Idem!SameKey
<1> QED BY StoreInvHolds, <1>1, PTL

(* All answers given under one key agree with its one creating call.       *)
THEOREM AnswersConsistent == Idem!Spec => []Idem!AnswersAgree
<1>1. StoreInv => Idem!AnswersAgree
  BY DEF StoreInv, Idem!AnswersAgree, Idem!SameKey, OneCreator, AnswerFitsRecord
<1> QED BY StoreInvHolds, <1>1, PTL

(* The store implements OnceCommand: entering, waiting and waking stutter, *)
(* and every settling step is one step of the write-once register.         *)
THEOREM StoreImplementsOnce == Idem!Spec => Idem!ImplementsOnceCommand
<1>1. Idem!Init => Idem!Once!Init
  BY DEF Idem!Init, Idem!Once!Init
<1>2. ASSUME StoreInv, [Idem!Next]_(Idem!vars) PROVE [Idem!Once!Next]_(Idem!Once!abstractVars)
  <2> USE NoneIsNoValue
      DEF Idem!Once!Next, Idem!Once!abstractVars, Idem!Once!Open, Idem!Once!RecordOf,
          Idem!Once!Answered, Idem!Once!Inputs
  <2>1. ASSUME NEW c \in Calls, NEW in \in Idem!Inputs, Idem!Arrive(c, in)
        PROVE [Idem!Once!Next]_(Idem!Once!abstractVars)
    <3>1. input[c] = None
      BY <1>2, <2>1 DEF StoreInv, Phases, Idem!Arrive
    <3> QED BY <2>1, <3>1 DEF Idem!Arrive, Idem!Once!Call, Idem!Inputs
  <2>2. ASSUME NEW c \in Calls, pc[c] \in {"arrived", "waiting"}, Idem!LookUp(c)
        PROVE [Idem!Once!Next]_(Idem!Once!abstractVars)
    <3>1. input[c] # None /\ answer[c] = None
      BY <1>2, <2>2 DEF StoreInv, Phases
    <3>2. CASE UNCHANGED <<input, record, answer>>
      BY <3>2
    <3>3. CASE /\ record[Idem!KeyOf(c)] # None
               /\ record[Idem!KeyOf(c)].material = input[c].material
               /\ Idem!Settle(c, "replayed", record[Idem!KeyOf(c)].response)
               /\ UNCHANGED <<pending, waitsOn, input, record>>
      <4>1. Idem!Once!Replay(c)
        BY <3>1, <3>3 DEF Idem!Settle, Idem!KeyOf, Idem!Once!Replay
      <4> QED BY <4>1
    <3>4. CASE /\ record[Idem!KeyOf(c)] # None
               /\ record[Idem!KeyOf(c)].material # input[c].material
               /\ Idem!Settle(c, "conflict", None)
               /\ UNCHANGED <<pending, waitsOn, input, record>>
      <4>1. Idem!Once!Conflict(c)
        BY <3>1, <3>4 DEF Idem!Settle, Idem!KeyOf, Idem!Once!Conflict
      <4> QED BY <4>1
    <3> QED BY <2>2, <3>2, <3>3, <3>4, LookUpCases
  <2>3. ASSUME NEW c \in Calls, Idem!Finish(c) PROVE [Idem!Once!Next]_(Idem!Once!abstractVars)
    <3>1. /\ input[c] # None /\ answer[c] = None
          /\ record[Idem!KeyOf(c)] = None
      BY <1>2, <2>3, RunnerFacts DEF StoreInv, Phases
    <3>2. CASE Idem!Throw(c)
      BY <3>1, <3>2 DEF Idem!Throw, Idem!Settle, Idem!KeyOf, Idem!Once!Fail
    <3>3. ASSUME NEW resp \in Answered, Idem!Succeed(c, resp)
          PROVE [Idem!Once!Next]_(Idem!Once!abstractVars)
      BY <3>1, <3>3 DEF Idem!Succeed, Idem!Settle, Idem!KeyOf, Idem!Once!Create
    <3> QED BY <2>3, <3>2, <3>3 DEF Idem!Finish
  <2>4. CASE UNCHANGED Idem!vars
    BY <2>4 DEF Idem!vars
  <2> QED BY <1>2, <2>1, <2>2, <2>3, <2>4 DEF Idem!Next, Idem!Enter, Idem!Wake
<1> QED BY StoreInvHolds, <1>1, <1>2, PTL DEF Idem!Spec, Idem!ImplementsOnceCommand, Idem!Once!Spec

-----------------------------------------------------------------------------
(* How the actions move the variables of the idempotency store.            *)
IdemStep(c) ==
  \/ \E in \in Idem!Inputs : Idem!Arrive(c, in)
  \/ Idem!Enter(c) \/ Idem!Wake(c) \/ Idem!Finish(c)
  \/ UNCHANGED idemVars

(* Each step of a call is one step of the store, or none.                  *)
LEMMA CallIsIdemStep ==
  ASSUME NEW c \in Calls, CallSteps(c) PROVE IdemStep(c)
<1>1. ASSUME NEW k \in Keys, GrantArrive(c, k) PROVE IdemStep(c)
  <2>1. [key |-> k, material |-> [op |-> "grant"]] \in Idem!Inputs
    BY DEF Idem!Inputs, Requests, GrantRequests
  <2> QED BY <1>1, <2>1 DEF GrantArrive, IdemStep
<1>2. ASSUME NEW k \in Keys, NEW r \in EnrollRequests, EnrollArrive(c, k, r)
      PROVE IdemStep(c)
  <2>1. [key |-> k, material |-> r] \in Idem!Inputs
    BY DEF Idem!Inputs, Requests
  <2> QED BY <1>2, <2>1 DEF EnrollArrive, IdemStep
<1>3. ASSUME NEW r \in Answered, Respond(c, r) \/ Throws(c) PROVE IdemStep(c)
  BY <1>3 DEF Respond, Throws, IdemStep, Idem!Finish
<1>4. CASE Consult(c)
  BY <1>4 DEF Consult, IdemStep
<1>5. CASE EnrollFind(c)
  BY <1>3, <1>5 DEF EnrollFind, Answered, IdemStep
<1>6. ASSUME NEW d \in Decisions, EnrollDecide(c, d) PROVE IdemStep(c)
  <2>1. \/ Respond(c, "enrollment_failed") \/ Respond(c, "unchanged")
        \/ Respond(c, "requirements_unmet") \/ UNCHANGED idemVars
    BY <1>6 DEF EnrollDecide
  <2> QED BY <1>3, <2>1 DEF Answered, IdemStep
<1>7. CASE EnrollSave(c)
  BY <1>3, <1>7 DEF EnrollSave, Act, Answered
<1>8. CASE GrantRun(c)
  BY <1>3, <1>8 DEF GrantRun, Act, Answered
<1>9. CASE BodyThrows(c)
  BY <1>9 DEF BodyThrows, Throws, IdemStep, Idem!Finish
<1> QED BY <1>1, <1>2, <1>4, <1>5, <1>6, <1>7, <1>8, <1>9 DEF CallSteps

(* The operator leaves the store's variables alone.                        *)
LEMMA StepIsIdemStep == [Next]_vars => [Idem!Next]_(Idem!vars)
<1> SUFFICES ASSUME [Next]_vars PROVE [Idem!Next]_(Idem!vars)
  OBVIOUS
<1>1. ASSUME NEW c \in Calls, CallSteps(c) PROVE [Idem!Next]_(Idem!vars)
  BY <1>1, CallIsIdemStep DEF IdemStep, Idem!Next, Idem!vars, idemVars
<1>2. ASSUME NEW rec, OperatorWrites(rec) PROVE [Idem!Next]_(Idem!vars)
  BY <1>2 DEF OperatorWrites, Idem!vars, idemVars
<1>3. CASE UNCHANGED vars
  BY <1>3 DEF vars, Idem!vars
<1> QED BY <1>1, <1>2, <1>3 DEF Next, OperatorSetsStatus, OperatorRequires

(* Enroll and Grant are written as clients of the store's actions, so what *)
(* is proved of the store holds of them.                                   *)
LEMMA CommandsAreClients == Spec => Idem!Spec
<1>1. Init => Idem!Init
  BY DEF Init
<1> QED BY <1>1, StepIsIdemStep, PTL DEF Spec, Idem!Spec

(* So bodies of Enroll and Grant under one key exclude each other, and     *)
(* none runs after a response is recorded for the key.                     *)
THEOREM BodiesExclude == Spec => []OneRunner
<1>1. Idem!OneRunner => OneRunner
  BY DEF OneRunner
<1> QED BY CommandsAreClients, StoreBodiesExclude, <1>1, PTL

(* And what is answered under a key is what the write-once register would  *)
(* answer.                                                                 *)
THEOREM CommandsImplementOnce == Spec => ImplementsOnceCommand
BY CommandsAreClients, StoreImplementsOnce, PTL DEF ImplementsOnceCommand

(* So the store's invariant holds here.                                    *)
LEMMA StoreHolds == Spec => []StoreInv
BY CommandsAreClients, StoreInvHolds, PTL

(* What the proofs below use of it.                                        *)
StoreTypes ==
  /\ pc \in [Calls -> {"idle", "arrived", "waiting", "running", "done"}]
  /\ answer \in [Calls -> Idem!Answers \union {None}]
  /\ input \in [Calls -> Idem!Inputs \union {None}]
  /\ \A c \in Calls : pc[c] # "idle" => input[c] \in Idem!Inputs

(* They follow from the store's invariant.                                 *)
LEMMA StoreTypesHold == StoreInv => StoreTypes /\ Idem!TypeOK
BY DEF StoreInv, Idem!TypeOK, StoreTypes

-----------------------------------------------------------------------------
(* The invariant, in parts.                                                *)
LocalTypeOK ==
  /\ enrollment \in Enrollments \union {None}
  /\ seen \in [Calls -> Enrollments \union {None}]
  /\ decision \in [Calls -> Decisions \union {None}]
  /\ step \in [Calls -> {"none", "found", "saving", "done"}]
  /\ refused \in [Calls -> BOOLEAN]
  /\ moves \in 0..MaxMoves
  /\ activeIn \in [Calls -> BOOLEAN]
  /\ eligibleIn \in [Calls -> BOOLEAN]
  /\ rivals \in [Calls -> SUBSET Calls]
  /\ effects \subseteq Calls

(* An Enroll between its read and its write is running; one about to write *)
(* has a decision and no required claim missing.                           *)
Bodies ==
  \A c \in Calls :
    /\ step[c] \in {"found", "saving"} => pc[c] = "running" /\ IsEnroll(c)
    /\ step[c] = "saving" =>
         /\ decision[c] \in Decisions
         /\ RequiredClaims \subseteq AllClaims(c)

(* A Grant past its lookup has seen an active enrollment during the call,  *)
(* and an eligible one if what it saw was; it issues only then.            *)
GrantsSawActive ==
  \A c \in Calls : IsGrant(c) =>
    /\ activeIn[c]
    /\ pc[c] # "done" => Active(seen[c]) /\ (Eligible(seen[c]) => eligibleIn[c])
    /\ c \in effects => eligibleIn[c]

(* A body ends with its effect: it has answered, or thrown.                *)
EffectsEnd ==
  \A c \in effects : pc[c] = "done" /\ answer[c].state \in {"created", "threw"}

(* A record that holds what Enroll c has written.                          *)
Covers(rec, c) ==
  /\ rec # None
  /\ Req(c).claims \subseteq rec.claims
  /\ Accepts(c) => Req(c).declared \intersect Docs \subseteq rec.acknowledged

(* Until a rival has saved, the store and whatever the others have read    *)
(* since cover the saved Enroll.                                           *)
Kept(c) == IsEnroll(c) /\ c \in effects /\ rivals[c] \intersect effects = {}
SavedIsCovered ==
  \A c \in Calls : Kept(c) =>
    /\ Covers(enrollment, c)
    /\ \A d \in Calls \ rivals[c] :
         step[d] \in {"found", "saving"} => Covers(seen[d], c)

IInv ==
  /\ LocalTypeOK /\ Bodies /\ RequiredClaimsHeld
  /\ GrantsSawActive /\ EffectsEnd /\ SavedIsCovered

(* The invariant holds before any call arrives.                            *)
LEMMA InitIInv == Init => IInv
<1> SUFFICES ASSUME Init PROVE IInv
  OBVIOUS
<1>1. LocalTypeOK
  BY NoneIsNoValue, MaxMovesAssumption DEF Init, LocalTypeOK
<1>2. pc = [c \in Calls |-> "idle"]
  BY DEF Init, Idem!Init
<1>3. Bodies /\ RequiredClaimsHeld /\ GrantsSawActive /\ EffectsEnd
  BY <1>2 DEF Init, Bodies, RequiredClaimsHeld, GrantsSawActive, IsGrant, EffectsEnd
<1>4. SavedIsCovered
  BY <1>2 DEF SavedIsCovered, Kept, IsEnroll
<1> QED BY <1>1, <1>3, <1>4 DEF IInv

-----------------------------------------------------------------------------
(* What each use of the store does to pc, answer and input, as facts: an   *)
(* arrival sets the input.                                                 *)
LEMMA ArriveFacts ==
  ASSUME StoreTypes, NEW c \in Calls, NEW in, Idem!Arrive(c, in)
  PROVE  /\ pc[c] = "idle" /\ pc' = [pc EXCEPT ![c] = "arrived"]
         /\ input' = [input EXCEPT ![c] = in] /\ input'[c] = in
         /\ answer' = answer
BY DEF Idem!Arrive, StoreTypes

(* A body that responds is done, with its response.                        *)
LEMMA RespondFacts ==
  ASSUME StoreTypes, NEW c \in Calls, NEW r, Respond(c, r)
  PROVE  /\ pc[c] = "running" /\ pc' = [pc EXCEPT ![c] = "done"]
         /\ answer' = [answer EXCEPT ![c] = [state |-> "created", response |-> r]]
         /\ input' = input
         /\ step' = [step EXCEPT ![c] = "done"] /\ seen' = [seen EXCEPT ![c] = None]
BY DEF Respond, Leave, Idem!Succeed, Idem!Settle

(* A body that throws is done, with nothing.                               *)
LEMMA ThrowFacts ==
  ASSUME StoreTypes, NEW c \in Calls, Throws(c)
  PROVE  /\ pc[c] = "running" /\ pc' = [pc EXCEPT ![c] = "done"]
         /\ answer' = [answer EXCEPT ![c] = [state |-> "threw", response |-> None]]
         /\ input' = input
         /\ step' = [step EXCEPT ![c] = "done"] /\ seen' = [seen EXCEPT ![c] = None]
BY DEF Throws, Leave, Idem!Throw, Idem!Settle

(* Either way, an effect ends the body.                                    *)
LEMMA ActFacts ==
  ASSUME StoreTypes, NEW c \in Calls, NEW r, Act(c, r)
  PROVE  /\ effects' = effects \union {c}
         /\ pc[c] = "running" /\ pc' = [pc EXCEPT ![c] = "done"]
         /\ \/ answer' = [answer EXCEPT ![c] = [state |-> "created", response |-> r]]
            \/ answer' = [answer EXCEPT ![c] = [state |-> "threw", response |-> None]]
         /\ input' = input
         /\ step' = [step EXCEPT ![c] = "done"] /\ seen' = [seen EXCEPT ![c] = None]
BY RespondFacts, ThrowFacts DEF Act

(* Looking a key up runs, waits, replays or conflicts.                     *)
LEMMA ConsultFacts ==
  ASSUME StoreTypes, NEW c \in Calls, Consult(c)
  PROVE  /\ pc[c] \in {"arrived", "waiting"}
         /\ input' = input
         /\ \/ answer' = answer /\ \E to \in {"waiting", "running"} : pc' = [pc EXCEPT ![c] = to]
            \/ /\ pc' = [pc EXCEPT ![c] = "done"]
               /\ \E s \in {"replayed", "conflict"} : \E r :
                    answer' = [answer EXCEPT ![c] = [state |-> s, response |-> r]]
         /\ UNCHANGED <<enrollment, seen, decision, step, refused, moves, rivals, effects>>
<1>1. \/ answer' = answer /\ \E to \in {"waiting", "running"} : pc' = [pc EXCEPT ![c] = to]
      \/ /\ pc' = [pc EXCEPT ![c] = "done"]
         /\ \/ answer' = [answer EXCEPT ![c] =
                            [state |-> "replayed", response |-> record[Idem!KeyOf(c)].response]]
            \/ answer' = [answer EXCEPT ![c] = [state |-> "conflict", response |-> None]]
  BY DEF Consult, Idem!Enter, Idem!Wake, Idem!LookUp, Idem!Settle
<1> QED BY <1>1 DEF Consult, Idem!Enter, Idem!Wake, Idem!LookUp, bodyVars

(* A step of call c leaves every other call where it is, and never moves a *)
(* call that is done or rewrites a request that has arrived.               *)
LEMMA OtherCalls ==
  ASSUME LocalTypeOK, StoreTypes, NEW c \in Calls, CallSteps(c)
  PROVE  /\ \A d \in Calls \ {c} :
              /\ pc'[d] = pc[d] /\ input'[d] = input[d] /\ answer'[d] = answer[d]
              /\ seen'[d] = seen[d] /\ decision'[d] = decision[d]
              /\ step'[d] = step[d] /\ rivals'[d] = rivals[d]
              /\ d \in effects' <=> d \in effects
         /\ effects \subseteq effects'
         /\ pc[c] # "done"
         /\ pc[c] # "idle" => input'[c] = input[c] /\ pc'[c] # "idle"
         /\ moves' = moves
<1> DEFINE Goal ==
         /\ \A d \in Calls \ {c} :
              /\ pc'[d] = pc[d] /\ input'[d] = input[d] /\ answer'[d] = answer[d]
              /\ seen'[d] = seen[d] /\ decision'[d] = decision[d]
              /\ step'[d] = step[d] /\ rivals'[d] = rivals[d]
              /\ d \in effects' <=> d \in effects
         /\ effects \subseteq effects'
         /\ pc[c] # "done"
         /\ pc[c] # "idle" => input'[c] = input[c] /\ pc'[c] # "idle"
         /\ moves' = moves
<1> USE DEF LocalTypeOK, StoreTypes, bodyVars, idemVars
<1>1. ASSUME NEW k \in Keys, GrantArrive(c, k) PROVE Goal
  BY <1>1, ArriveFacts DEF GrantArrive
<1>2. ASSUME NEW k \in Keys, NEW r \in EnrollRequests, EnrollArrive(c, k, r) PROVE Goal
  BY <1>2, ArriveFacts DEF EnrollArrive
<1>3. CASE Consult(c)
  BY <1>3, ConsultFacts
<1>4. CASE EnrollFind(c)
  BY <1>4, RespondFacts DEF EnrollFind
<1>5. ASSUME NEW d \in Decisions, EnrollDecide(c, d) PROVE Goal
  <2>1. /\ pc[c] = "running"
        /\ decision' = [decision EXCEPT ![c] = d]
        /\ \/ \E r : Respond(c, r)
           \/ step' = [step EXCEPT ![c] = "saving"] /\ UNCHANGED <<idemVars, seen>>
        /\ UNCHANGED <<enrollment, refused, moves, rivals, effects>>
    BY <1>5 DEF EnrollDecide
  <2> QED BY <2>1, RespondFacts
<1>6. CASE EnrollSave(c)
  BY <1>6, ActFacts DEF EnrollSave
<1>7. CASE GrantRun(c)
  BY <1>7, RespondFacts, ActFacts DEF GrantRun
<1>8. CASE BodyThrows(c)
  BY <1>8, ThrowFacts DEF BodyThrows
<1> QED BY <1>1, <1>2, <1>3, <1>4, <1>5, <1>6, <1>7, <1>8 DEF CallSteps

(* The record a saving Enroll builds is an enrollment.                     *)
LEMMA MergedType ==
  ASSUME LocalTypeOK, StoreTypes, Bodies, NEW c \in Calls, step[c] = "saving"
  PROVE  Merged(c) \in Enrollments
<1>1. /\ pc[c] = "running" /\ IsEnroll(c) /\ decision[c] \in Decisions
      /\ input[c] \in Idem!Inputs
  BY DEF Bodies, StoreTypes
<1>2. Req(c) \in EnrollRequests
  BY <1>1 DEF Idem!Inputs, Req, IsEnroll, Requests, GrantRequests
<1>3. decision[c].status \in Statuses
  BY <1>1, DecisionAssumption DEF Statuses
<1>4. seen[c] = None \/ seen[c] \in Enrollments
  BY DEF LocalTypeOK
<1>5. AllClaims(c) \in SUBSET Claims
  BY <1>2, <1>4 DEF AllClaims, ClaimsOf, EnrollRequests, Enrollments
<1>6. Acknowledged(c) \in SUBSET Docs /\ Demands(c) \in SUBSET Docs
  BY <1>4 DEF Acknowledged, Demands, Enrollments
<1>7. KeptStatus(c) \in Statuses
  BY <1>3, <1>4 DEF KeptStatus, Enrollments
<1> QED BY <1>4, <1>5, <1>6, <1>7 DEF Merged, Enrollments

OperatorStep ==
  \/ \E s \in {"active", "suspended"} : OperatorSetsStatus(s)
  \/ \E d \in RequiredDocs : OperatorRequires(d)

(* An operator's write leaves the calls alone, keeps the record an         *)
(* enrollment, and touches neither its claims nor its acknowledgements.    *)
LEMMA OperatorFacts ==
  ASSUME LocalTypeOK, OperatorStep
  PROVE  /\ enrollment # None /\ enrollment' \in Enrollments
         /\ enrollment'.claims = enrollment.claims
         /\ enrollment'.acknowledged = enrollment.acknowledged
         /\ enrollment.required \subseteq enrollment'.required
         /\ moves' = moves + 1 /\ moves' \in 0..MaxMoves /\ moves \in Nat
         /\ UNCHANGED <<seen, decision, step, input, answer, pc, refused, rivals, effects>>
<1>1. ASSUME NEW s \in {"active", "suspended"}, OperatorSetsStatus(s)
      PROVE  /\ enrollment' = [enrollment EXCEPT !.status = s]
             /\ OperatorWrites([enrollment EXCEPT !.status = s])
  BY <1>1 DEF OperatorSetsStatus, OperatorWrites
<1>2. ASSUME NEW d \in RequiredDocs, OperatorRequires(d)
      PROVE  /\ enrollment' = [enrollment EXCEPT !.required = enrollment.required \union {d}]
             /\ OperatorWrites([enrollment EXCEPT !.required = enrollment.required \union {d}])
  BY <1>2 DEF OperatorRequires, OperatorWrites
<1>3. /\ enrollment # None /\ moves' = moves + 1 /\ moves < MaxMoves
      /\ UNCHANGED <<seen, decision, step, input, answer, pc, refused, rivals, effects>>
  BY <1>1, <1>2 DEF OperatorStep, OperatorWrites, bodyVars, idemVars
<1>4. enrollment \in Enrollments
  BY <1>3 DEF LocalTypeOK
<1> DEFINE Effect ==
      /\ enrollment' \in Enrollments
      /\ enrollment'.claims = enrollment.claims
      /\ enrollment'.acknowledged = enrollment.acknowledged
      /\ enrollment.required \subseteq enrollment'.required
<1> SUFFICES Effect
  BY <1>3, MaxMovesAssumption DEF LocalTypeOK
<1>5. CASE \E s \in {"active", "suspended"} : OperatorSetsStatus(s)
  BY <1>1, <1>3, <1>4, <1>5 DEF Enrollments, Statuses
<1>6. CASE \E d \in RequiredDocs : OperatorRequires(d)
  <2>1. PICK d \in RequiredDocs :
          enrollment' = [enrollment EXCEPT !.required = enrollment.required \union {d}]
    BY <1>2, <1>6
  <2> QED BY <1>4, <2>1, RequiredAssumption DEF Enrollments
<1> QED BY <1>5, <1>6 DEF OperatorStep

(* Every step keeps the types.                                             *)
LEMMA TypeStep ==
  ASSUME IInv, StoreTypes, Next PROVE LocalTypeOK'
<1>1. LocalTypeOK /\ Bodies
  BY DEF IInv
<1>2. /\ activeIn' \in [Calls -> BOOLEAN]
      /\ eligibleIn' \in [Calls -> BOOLEAN]
  BY DEF Next, Observe
<1> DEFINE Typed ==
      /\ enrollment' \in Enrollments \union {None}
      /\ seen' \in [Calls -> Enrollments \union {None}]
      /\ decision' \in [Calls -> Decisions \union {None}]
      /\ step' \in [Calls -> {"none", "found", "saving", "done"}]
      /\ refused' \in [Calls -> BOOLEAN]
      /\ moves' \in 0..MaxMoves
      /\ rivals' \in [Calls -> SUBSET Calls] /\ effects' \subseteq Calls
<1>3. ASSUME NEW c \in Calls, CallSteps(c) PROVE Typed
  <2> USE <1>1 DEF LocalTypeOK, bodyVars
  <2>1. ASSUME NEW k \in Keys, GrantArrive(c, k) PROVE Typed
    BY <2>1 DEF GrantArrive
  <2>2. ASSUME NEW k \in Keys, NEW r \in EnrollRequests, EnrollArrive(c, k, r) PROVE Typed
    BY <2>2 DEF EnrollArrive
  <2>3. CASE Consult(c)
    BY <2>3 DEF Consult
  <2>4. CASE EnrollFind(c)
    BY <2>4 DEF EnrollFind, Respond, Leave
  <2>5. ASSUME NEW d \in Decisions, EnrollDecide(c, d) PROVE Typed
    BY <2>5 DEF EnrollDecide, Respond, Leave
  <2>6. CASE EnrollSave(c)
    BY <2>6, MergedType, ActFacts DEF EnrollSave
  <2>7. CASE GrantRun(c)
    BY <2>7, ActFacts DEF GrantRun, Respond, Leave
  <2>8. CASE BodyThrows(c)
    BY <2>8 DEF BodyThrows, Throws, Leave
  <2> QED BY <1>3, <2>1, <2>2, <2>3, <2>4, <2>5, <2>6, <2>7, <2>8 DEF CallSteps
<1>4. CASE OperatorStep
  BY <1>1, <1>2, <1>4, OperatorFacts DEF LocalTypeOK
<1> QED BY <1>1, <1>2, <1>3, <1>4 DEF Next, OperatorStep, LocalTypeOK

(* Every step of a call keeps the facts about bodies.                      *)
LEMMA BodiesStep ==
  ASSUME IInv, StoreTypes, NEW c \in Calls, CallSteps(c) PROVE Bodies'
<1> USE DEF LocalTypeOK, StoreTypes
<1>1. LocalTypeOK /\ Bodies
  BY DEF IInv
<1> DEFINE Fine(d) ==
      /\ step[d] \in {"found", "saving"} => pc[d] = "running" /\ IsEnroll(d)
      /\ step[d] = "saving" =>
           decision[d] \in Decisions /\ RequiredClaims \subseteq AllClaims(d)
<1>2. ASSUME NEW d \in Calls \ {c} PROVE Fine(d)'
  BY <1>1, OtherCalls DEF Bodies, IsEnroll, Req, AllClaims, ClaimsOf
<1> SUFFICES Fine(c)'
  BY <1>2 DEF Bodies
<1>3. ASSUME step'[c] \notin {"found", "saving"} PROVE Fine(c)'
  BY <1>3
<1>4. ASSUME step'[c] = step[c], decision'[c] = decision[c], seen'[c] = seen[c],
             pc[c] # "running"
      PROVE  Fine(c)'
  BY <1>1, <1>4 DEF Bodies
<1>5. ASSUME NEW r, Respond(c, r) PROVE Fine(c)'
  BY <1>1, <1>3, <1>5, RespondFacts
<1>6. ASSUME NEW k \in Keys, GrantArrive(c, k) PROVE Fine(c)'
  BY <1>1, <1>3, <1>6 DEF GrantArrive, Bodies
<1>7. ASSUME NEW k \in Keys, NEW r \in EnrollRequests, EnrollArrive(c, k, r) PROVE Fine(c)'
  BY <1>1, <1>4, <1>7, ArriveFacts DEF EnrollArrive, bodyVars
<1>8. CASE Consult(c)
  BY <1>1, <1>4, <1>8, ConsultFacts
<1>9. CASE EnrollFind(c)
  <2>1. CASE \E r : Respond(c, r)
    BY <1>5, <2>1
  <2>2. CASE step' = [step EXCEPT ![c] = "found"] /\ UNCHANGED idemVars
    BY <1>1, <1>9, <2>2 DEF EnrollFind, idemVars, IsEnroll, Req
  <2> QED BY <1>9, <2>1, <2>2 DEF EnrollFind
<1>10. ASSUME NEW d \in Decisions, EnrollDecide(c, d) PROVE Fine(c)'
  <2>1. CASE \E r : Respond(c, r)
    BY <1>5, <2>1
  <2>2. CASE step' = [step EXCEPT ![c] = "saving"] /\ UNCHANGED <<idemVars, seen>> /\ ~Unmet(c)
    <3>1. RequiredClaims \subseteq AllClaims(c)
      BY <2>2 DEF Unmet, MissingClaims, AllClaims
    <3>2. /\ AllClaims(c)' = AllClaims(c) /\ IsEnroll(c)' = IsEnroll(c)
          /\ decision'[c] = d /\ pc'[c] = "running" /\ IsEnroll(c)
      BY <1>1, <1>10, <2>2
         DEF EnrollDecide, idemVars, IsEnroll, Req, AllClaims, ClaimsOf, Bodies
    <3> QED BY <3>1, <3>2
  <2> QED BY <1>10, <2>1, <2>2 DEF EnrollDecide
<1>11. ASSUME NEW r, Act(c, r) PROVE Fine(c)'
  BY <1>1, <1>3, <1>11, ActFacts
<1>12. CASE GrantRun(c)
  BY <1>5, <1>11, <1>12 DEF GrantRun
<1>13. CASE BodyThrows(c)
  BY <1>1, <1>3, <1>13, ThrowFacts DEF BodyThrows
<1>14. CASE EnrollSave(c)
  BY <1>11, <1>14 DEF EnrollSave
<1> QED BY <1>6, <1>7, <1>8, <1>9, <1>10, <1>12, <1>13, <1>14 DEF CallSteps

(* Only a save by an Enroll changes the enrollment in a step of a call.    *)
LEMMA OnlySavesWrite ==
  ASSUME NEW c \in Calls, CallSteps(c)
  PROVE  enrollment' = enrollment \/ EnrollSave(c)
BY DEF CallSteps, GrantArrive, EnrollArrive, Consult, EnrollFind, EnrollDecide, GrantRun,
       BodyThrows

(* What a call saves has the required claims.                              *)
LEMMA ClaimsStep ==
  ASSUME IInv, StoreTypes, NEW c \in Calls, CallSteps(c) PROVE RequiredClaimsHeld'
<1>1. CASE enrollment' = enrollment
  BY <1>1 DEF IInv, RequiredClaimsHeld
<1>2. CASE EnrollSave(c)
  <2>1. RequiredClaims \subseteq AllClaims(c)
    BY <1>2 DEF EnrollSave, IInv, Bodies
  <2>2. enrollment'.claims = AllClaims(c)
    BY <1>2 DEF EnrollSave, Merged
  <2> QED BY <2>1, <2>2 DEF RequiredClaimsHeld
<1> QED BY <1>1, <1>2, OnlySavesWrite

(* What Observe records of a call that is under way.                       *)
LEMMA ObserveFacts ==
  ASSUME Observe, NEW d \in Calls
  PROVE  /\ activeIn[d] => activeIn'[d]
         /\ eligibleIn[d] => eligibleIn'[d]
         /\ UnderWay(d) /\ Active(enrollment) => activeIn'[d]
         /\ UnderWay(d) /\ Eligible(enrollment) => eligibleIn'[d]
BY DEF Observe

(* Every step of a call keeps the facts about Grants.                      *)
LEMMA GrantsStep ==
  ASSUME IInv, StoreTypes, Observe, NEW c \in Calls, CallSteps(c) PROVE GrantsSawActive'
<1> DEFINE Good(d) == IsGrant(d) =>
      /\ activeIn[d]
      /\ pc[d] # "done" => Active(seen[d]) /\ (Eligible(seen[d]) => eligibleIn[d])
      /\ d \in effects => eligibleIn[d]
<1> USE DEF LocalTypeOK
<1>1. LocalTypeOK /\ Bodies /\ GrantsSawActive /\ EffectsEnd
  BY DEF IInv
<1>2. ASSUME NEW d \in Calls \ {c} PROVE Good(d)'
  BY <1>1, <1>2, OtherCalls, ObserveFacts
     DEF GrantsSawActive, IsGrant, Req, Active, Eligible, MissingDocs
<1> SUFFICES Good(c)'
  BY <1>2 DEF GrantsSawActive
<1>3. CASE IsEnroll(c)
  BY <1>1, <1>3, OtherCalls DEF IsEnroll, IsGrant, Req
<1>4. ASSUME IsGrant(c), pc'[c] = "done" \/ seen'[c] = seen[c],
             c \in effects' => c \in effects \/ eligibleIn'[c]
      PROVE  Good(c)'
  <2>1. /\ activeIn[c] /\ Active(seen[c]) /\ (Eligible(seen[c]) => eligibleIn[c])
        /\ c \in effects => eligibleIn[c]
    BY <1>1, <1>4, OtherCalls DEF GrantsSawActive
  <2>2. activeIn'[c] /\ (eligibleIn[c] => eligibleIn'[c])
    BY <2>1, ObserveFacts
  <2> QED BY <1>4, <2>1, <2>2 DEF Active, Eligible, MissingDocs
<1>5. ASSUME pc[c] # "idle", ~IsEnroll(c) PROVE IsGrant(c)
  <2>1. Req(c) \in Requests
    BY <1>5 DEF StoreTypes, Idem!Inputs, Req
  <2> QED BY <1>5, <2>1 DEF IsEnroll, IsGrant, Requests, EnrollRequests, GrantRequests
<1>6. ASSUME NEW k \in Keys, GrantArrive(c, k) PROVE Good(c)'
  <2>1. CASE enrollment # None /\ enrollment.status = "active"
    <3>1. /\ pc'[c] = "arrived" /\ pc[c] = "idle" /\ seen'[c] = enrollment
          /\ enrollment' = enrollment /\ effects' = effects
      BY <1>1, <1>6, <2>1, ArriveFacts DEF GrantArrive, StoreTypes
    <3>2. c \notin effects'
      BY <1>1, <3>1 DEF EffectsEnd
    <3>3. ASSUME IsGrant(c)' PROVE UnderWay(c) /\ Active(enrollment)
      BY <2>1, <3>1, <3>3 DEF UnderWay, Active
    <3>4. ASSUME IsGrant(c)', Eligible(enrollment) PROVE eligibleIn'[c]
      BY <3>3, <3>4, ObserveFacts
    <3>5. ASSUME IsGrant(c)' PROVE activeIn'[c]
      BY <3>3, <3>5, ObserveFacts
    <3> QED BY <3>1, <3>2, <3>3, <3>4, <3>5 DEF Active, Eligible, MissingDocs
  <2>2. CASE ~(enrollment # None /\ enrollment.status = "active")
    BY <1>6, <2>2 DEF GrantArrive, idemVars, IsGrant
  <2> QED BY <2>1, <2>2
<1>7. ASSUME NEW k \in Keys, NEW r \in EnrollRequests, EnrollArrive(c, k, r) PROVE Good(c)'
  BY <1>7, ArriveFacts DEF EnrollArrive, EnrollRequests, IsGrant, Req
<1>8. CASE Consult(c) /\ ~IsEnroll(c)
  BY <1>4, <1>5, <1>8, ConsultFacts
<1>9. CASE EnrollFind(c)
  BY <1>3, <1>9 DEF EnrollFind
<1>10. ASSUME NEW d \in Decisions, EnrollDecide(c, d) PROVE Good(c)'
  BY <1>1, <1>3, <1>10 DEF EnrollDecide, Bodies
<1>11. CASE EnrollSave(c)
  BY <1>1, <1>3, <1>11 DEF EnrollSave, Bodies
<1>12. CASE GrantRun(c)
  <2>1. CASE MissingClaims(seen[c].claims) # {} \/ MissingDocs(seen[c]) # {}
    <3>1. pc'[c] = "done" /\ IsGrant(c) /\ effects' = effects
      BY <1>12, <2>1, RespondFacts DEF GrantRun, StoreTypes
    <3> QED BY <1>4, <3>1
  <2>2. CASE MissingClaims(seen[c].claims) = {} /\ MissingDocs(seen[c]) = {}
    <3>1. IsGrant(c) /\ pc[c] = "running" /\ pc'[c] = "done"
      BY <1>12, <2>2, ActFacts DEF GrantRun, StoreTypes
    <3>2. Eligible(seen[c])
      BY <1>1, <2>2, <3>1 DEF GrantsSawActive, Eligible, MissingClaims
    <3>3. eligibleIn'[c]
      BY <1>1, <3>1, <3>2, ObserveFacts DEF GrantsSawActive
    <3> QED BY <1>4, <3>1, <3>3
  <2> QED BY <2>1, <2>2
<1>13. CASE BodyThrows(c) /\ ~IsEnroll(c)
  <2>1. pc'[c] = "done" /\ pc[c] # "idle" /\ effects' = effects
    BY <1>13, ThrowFacts DEF BodyThrows, StoreTypes
  <2> QED BY <1>4, <1>5, <1>13, <2>1
<1> QED
  BY <1>3, <1>6, <1>7, <1>8, <1>9, <1>10, <1>11, <1>12, <1>13 DEF CallSteps

(* Only a body that ends in this step joins the effects.                   *)
LEMMA EffectsStep ==
  ASSUME IInv, StoreTypes, NEW c \in Calls, CallSteps(c)
  PROVE  /\ EffectsEnd'
         /\ c \in effects' => EnrollSave(c) \/ GrantRun(c)
<1>1. LocalTypeOK /\ EffectsEnd
  BY DEF IInv
<1>2. c \notin effects
  BY <1>1, OtherCalls DEF EffectsEnd
<1>3. effects' = effects \/ EnrollSave(c) \/ GrantRun(c)
  BY DEF CallSteps, GrantArrive, EnrollArrive, Consult, EnrollFind, EnrollDecide, BodyThrows
<1>4. ASSUME c \in effects' PROVE pc'[c] = "done" /\ answer'[c].state \in {"created", "threw"}
  <2>1. \E r : Act(c, r)
    BY <1>2, <1>3, <1>4 DEF EnrollSave, GrantRun
  <2> QED BY <2>1, ActFacts DEF StoreTypes
<1>5. EffectsEnd'
  <2> SUFFICES ASSUME NEW d \in effects'
               PROVE  pc'[d] = "done" /\ answer'[d].state \in {"created", "threw"}
    BY DEF EffectsEnd
  <2>1. CASE d = c
    BY <1>4, <2>1
  <2>2. CASE d \in effects /\ d # c
    <3>1. d \in Calls \ {c}
      BY <1>1, <2>2 DEF LocalTypeOK
    <3>2. pc'[d] = pc[d] /\ answer'[d] = answer[d]
      BY <1>1, <3>1, OtherCalls
    <3> QED BY <1>1, <2>2, <3>2 DEF EffectsEnd
  <2>3. d = c \/ d \in effects
    <3>1. effects' = effects \/ effects' = effects \union {c}
      BY <1>3, ActFacts DEF EnrollSave, GrantRun
    <3> QED BY <3>1
  <2> QED BY <2>1, <2>2, <2>3
<1> QED BY <1>2, <1>3, <1>5

-----------------------------------------------------------------------------
(* Once saved, an Enroll stays saved with the request and decision it had. *)
LEMMA SavedStays ==
  ASSUME IInv, StoreTypes, NEW c \in Calls, CallSteps(c), NEW d \in Calls, pc[d] = "done"
  PROVE  /\ (d \in effects)' = (d \in effects) /\ IsEnroll(d)' = IsEnroll(d) /\ d # c
         /\ \A rec : Covers(rec, d)' = Covers(rec, d)
         /\ rivals'[d] = rivals[d]
BY OtherCalls DEF IInv, IsEnroll, Req, Covers, Accepts

(* A save builds on what its call had read, and on its own request.        *)
LEMMA MergeCovers ==
  ASSUME IInv, StoreTypes, NEW c \in Calls, EnrollSave(c)
  PROVE  /\ Covers(Merged(c), c)
         /\ \A d \in Calls : Covers(seen[c], d) => Covers(Merged(c), d)
<1>1. Merged(c) # None
  BY MergedType, NoneIsNoValue DEF EnrollSave, IInv
<1> QED BY <1>1 DEF Covers, Merged, AllClaims, ClaimsOf, Acknowledged

(* What an Enroll works on after a step it had before, or has just read.  *)
LEMMA ReadsAreFresh ==
  ASSUME IInv, StoreTypes, NEW c \in Calls, CallSteps(c),
         NEW d \in Calls, step'[d] \in {"found", "saving"}
  PROVE  \/ step[d] \in {"found", "saving"} /\ seen'[d] = seen[d]
         \/ seen'[d] = enrollment
<1> DEFINE Goal == \/ step[d] \in {"found", "saving"} /\ seen'[d] = seen[d]
                   \/ seen'[d] = enrollment
<1>1. LocalTypeOK /\ Bodies
  BY DEF IInv
<1>2. CASE d # c
  BY <1>1, <1>2, OtherCalls
<1> SUFFICES ASSUME d = c PROVE Goal
  BY <1>2
<1>3. ASSUME step'[c] = step[c], pc[c] # "running" PROVE FALSE
  BY <1>1, <1>3 DEF Bodies
<1>4. ASSUME NEW r, Respond(c, r) \/ Act(c, r) PROVE FALSE
  BY <1>1, <1>4, RespondFacts, ActFacts DEF LocalTypeOK
<1>5. ASSUME NEW k \in Keys, GrantArrive(c, k) PROVE Goal
  BY <1>3, <1>5 DEF GrantArrive
<1>6. ASSUME NEW k \in Keys, NEW r \in EnrollRequests, EnrollArrive(c, k, r) PROVE Goal
  BY <1>3, <1>6, ArriveFacts DEF EnrollArrive, bodyVars
<1>7. CASE Consult(c)
  BY <1>3, <1>7, ConsultFacts
<1>8. CASE EnrollFind(c)
  BY <1>1, <1>4, <1>8 DEF EnrollFind, LocalTypeOK
<1>9. ASSUME NEW x \in Decisions, EnrollDecide(c, x) PROVE Goal
  BY <1>4, <1>9 DEF EnrollDecide
<1>10. CASE EnrollSave(c)
  BY <1>4, <1>10 DEF EnrollSave
<1>11. CASE GrantRun(c)
  BY <1>4, <1>11 DEF GrantRun
<1>12. CASE BodyThrows(c)
  BY <1>1, <1>12, ThrowFacts DEF BodyThrows, LocalTypeOK
<1> QED BY <1>5, <1>6, <1>7, <1>8, <1>9, <1>10, <1>11, <1>12 DEF CallSteps

(* An Enroll enters the effects by its write.                              *)
LEMMA SavingActs ==
  ASSUME IInv, StoreTypes, NEW c \in Calls, CallSteps(c),
         NEW e \in effects', pc[e] # "done", IsEnroll(e)'
  PROVE  e = c /\ EnrollSave(c)
<1>1. LocalTypeOK /\ EffectsEnd
  BY DEF IInv
<1>2. e = c
  <2>1. e \notin effects
    BY <1>1 DEF EffectsEnd
  <2>2. effects' = effects \/ effects' = effects \union {c}
    BY ActFacts DEF CallSteps, GrantArrive, EnrollArrive, Consult, EnrollFind, EnrollDecide,
       EnrollSave, GrantRun, BodyThrows
  <2> QED BY <2>1, <2>2
<1>3. ~GrantRun(c)
  BY <1>2, OtherCalls, <1>1 DEF GrantRun, IsGrant, IsEnroll, Req
<1> QED BY <1>2, <1>3, EffectsStep

(* Every step of a call keeps saved Enrolls covered.                       *)
LEMMA SavesStep ==
  ASSUME IInv, StoreTypes, NEW c \in Calls, CallSteps(c) PROVE SavedIsCovered'
<1>1. LocalTypeOK /\ Bodies /\ EffectsEnd /\ SavedIsCovered
  BY DEF IInv
<1> SUFFICES ASSUME NEW e \in Calls, Kept(e)'
             PROVE  /\ Covers(enrollment, e)'
                    /\ \A d \in Calls \ rivals'[e] :
                         step'[d] \in {"found", "saving"} => Covers(seen[d], e)'
  BY DEF SavedIsCovered
<1>2. e \in effects' /\ IsEnroll(e)'
  BY DEF Kept
(* An Enroll saved earlier: what was covered still is.                     *)
<1>3. CASE pc[e] = "done"
  <2>1. Kept(e)
    <3>1. IsEnroll(e) /\ e \in effects /\ rivals'[e] = rivals[e]
      BY <1>2, <1>3, SavedStays
    <3>2. rivals[e] \intersect effects = {}
      BY <1>1, <3>1, OtherCalls DEF Kept
    <3> QED BY <3>1, <3>2 DEF Kept
  <2>2. /\ Covers(enrollment, e)
        /\ \A d \in Calls \ rivals[e] :
             step[d] \in {"found", "saving"} => Covers(seen[d], e)
    BY <1>1, <2>1 DEF SavedIsCovered
  <2>3. Covers(enrollment', e)
    <3>1. CASE enrollment' = enrollment
      BY <2>2, <3>1
    <3>2. CASE EnrollSave(c)
      <4>1. c \in effects'
        BY <3>2, ActFacts DEF EnrollSave
      <4>2. c \notin rivals[e]
        BY <1>3, <4>1, SavedStays DEF Kept
      <4>3. Covers(seen[c], e) /\ enrollment' = Merged(c)
        BY <2>2, <3>2, <4>2 DEF EnrollSave
      <4> QED BY <3>2, <4>3, MergeCovers
    <3> QED BY <3>1, <3>2, OnlySavesWrite
  <2>4. ASSUME NEW d \in Calls \ rivals'[e], step'[d] \in {"found", "saving"}
        PROVE  Covers(seen'[d], e)
    <3>1. d \notin rivals[e]
      BY <1>3, <2>4, SavedStays
    <3> QED BY <2>2, <2>4, <3>1, ReadsAreFresh
  <2> QED BY <1>3, <2>3, <2>4, SavedStays
(* The Enroll that saves in this step: everyone else at work is a rival.   *)
<1>4. CASE pc[e] # "done"
  <2>1. e = c /\ EnrollSave(c)
    BY <1>2, <1>4, SavingActs
  <2>2. /\ input' = input /\ decision' = decision /\ enrollment' = Merged(c)
        /\ step' = [step EXCEPT ![c] = "done"]
        /\ rivals'[c] = {d \in Calls \ {c} : pc[d] = "running" /\ step[d] \in {"found", "saving"}}
    BY <1>1, <2>1, ActFacts DEF EnrollSave, LocalTypeOK
  <2>3. Covers(enrollment, c)'
    BY <2>1, <2>2, MergeCovers DEF Covers, Accepts, Req
  <2>4. ASSUME NEW d \in Calls \ rivals'[c], step'[d] \in {"found", "saving"} PROVE FALSE
    BY <1>1, <2>2, <2>4 DEF Bodies, LocalTypeOK
  <2> QED BY <2>1, <2>3, <2>4
<1> QED BY <1>3, <1>4

-----------------------------------------------------------------------------
(* The operator's writes keep the invariant.                               *)
LEMMA OperatorKeeps ==
  ASSUME IInv, StoreTypes, Observe, OperatorStep, LocalTypeOK' PROVE IInv'
<1>1. /\ LocalTypeOK /\ Bodies /\ RequiredClaimsHeld
      /\ GrantsSawActive /\ EffectsEnd /\ SavedIsCovered
  BY DEF IInv
<1>2. /\ enrollment # None /\ enrollment' # None
      /\ enrollment'.claims = enrollment.claims
      /\ enrollment'.acknowledged = enrollment.acknowledged
      /\ UNCHANGED <<seen, decision, step, input, answer, pc, refused, rivals, effects>>
  BY <1>1, OperatorFacts, NoneIsNoValue
<1>3. Bodies' /\ RequiredClaimsHeld'
  BY <1>1, <1>2 DEF Bodies, RequiredClaimsHeld, IsEnroll, Req, AllClaims, ClaimsOf
<1>4. GrantsSawActive' /\ EffectsEnd'
  BY <1>1, <1>2, ObserveFacts
     DEF GrantsSawActive, EffectsEnd, IsGrant, Req, Active, Eligible, MissingDocs
<1>5. SavedIsCovered'
  <2>1. ASSUME NEW e \in Calls PROVE Kept(e)' = Kept(e)
    BY <1>2 DEF Kept, IsEnroll, Req
  <2>2. ASSUME NEW e \in Calls, NEW rec PROVE Covers(rec, e)' = Covers(rec, e)
    BY <1>2 DEF Covers, Accepts, Req
  <2>3. ASSUME NEW e \in Calls, Covers(enrollment, e) PROVE Covers(enrollment', e)
    BY <1>2, <2>3 DEF Covers
  <2> QED BY <1>1, <1>2, <2>1, <2>2, <2>3 DEF SavedIsCovered
<1> QED BY <1>3, <1>4, <1>5 DEF IInv

(* The invariant is about the variables of vars only.                      *)
LEMMA StutterKeeps ==
  ASSUME IInv, UNCHANGED vars PROVE IInv'
<1> USE DEF vars
<1>1. LocalTypeOK' /\ RequiredClaimsHeld'
  BY DEF IInv, LocalTypeOK, RequiredClaimsHeld
<1>2. Bodies'
  BY DEF IInv, Bodies, IsEnroll, Req, AllClaims, ClaimsOf
<1>3. GrantsSawActive' /\ EffectsEnd'
  BY DEF IInv, GrantsSawActive, EffectsEnd, IsGrant, Req, Active, Eligible, MissingDocs
<1>4. SavedIsCovered'
  BY DEF IInv, SavedIsCovered, Kept, Covers, Accepts, IsEnroll, Req
<1> QED BY <1>1, <1>2, <1>3, <1>4 DEF IInv

(* The invariant is inductive, given that of the store.                    *)
LEMMA IInvStep == IInv /\ StoreInv /\ [Next]_vars => IInv'
<1> SUFFICES ASSUME IInv, StoreTypes, [Next]_vars PROVE IInv'
  BY StoreTypesHold
<1>1. ASSUME NEW c \in Calls, CallSteps(c), Next PROVE IInv'
  BY <1>1, TypeStep, BodiesStep, ClaimsStep, GrantsStep, EffectsStep, SavesStep DEF IInv, Next
<1>2. ASSUME OperatorStep, Next PROVE IInv'
  BY <1>2, TypeStep, OperatorKeeps DEF Next
<1> QED BY <1>1, <1>2, StutterKeeps DEF Next, OperatorStep

(* The invariant holds in every state of every behaviour.                  *)
LEMMA IInvHolds == Spec => []IInv
BY InitIInv, IInvStep, StoreHolds, PTL DEF Spec

-----------------------------------------------------------------------------
(* The variables keep their types, the idempotency store's included.       *)
THEOREM TypeCorrect == Spec => []TypeOK
<1>1. IInv /\ StoreInv => TypeOK
  BY StoreTypesHold DEF IInv, LocalTypeOK, TypeOK
<1> QED BY IInvHolds, StoreHolds, <1>1, PTL

(* No enrollment is ever stored with a required claim missing.             *)
THEOREM ClaimsAlwaysHeld == Spec => []RequiredClaimsHeld
<1>1. IInv => RequiredClaimsHeld
  BY DEF IInv
<1> QED BY IInvHolds, <1>1, PTL

(* A Grant had an active enrollment during the call, and an eligible one   *)
(* if its own body issued, whether it answered or threw after that.        *)
THEOREM GrantsAreEntitled == Spec => []GrantNeedsEnrollment
<1>1. IInv => GrantNeedsEnrollment
  BY DEF IInv, GrantsSawActive, LocalTypeOK, GrantNeedsEnrollment
<1> QED BY IInvHolds, <1>1, PTL

(* Only an overlapping Enroll loses what another has written.              *)
THEOREM OnlyRivalsLose == Spec => []UpdatesLostOnlyToRivals
<1>1. IInv => UpdatesLostOnlyToRivals
  BY DEF IInv, SavedIsCovered, Kept, Covers, LocalTypeOK, UpdatesLostOnlyToRivals
<1> QED BY IInvHolds, <1>1, PTL

(* Of two calls under a key that both had their effect, one has thrown:    *)
(* bodies that answer leave the record of the key, and only one can.       *)
THEOREM EffectsRepeatOnlyAfterThrows == Spec => []RepeatedOnlyAfterThrows
<1>1. IInv /\ StoreInv => RepeatedOnlyAfterThrows
  <2> SUFFICES ASSUME IInv, StoreInv, NEW c \in effects, NEW d \in effects,
                      Idem!SameKey(c, d), c # d, ~Threw(c), ~Threw(d)
               PROVE  FALSE
    BY DEF RepeatedOnlyAfterThrows
  <2>1. c \in Calls /\ d \in Calls /\ EffectsEnd
    BY DEF IInv, LocalTypeOK
  <2>2. /\ pc[c] = "done" /\ answer[c].state = "created"
        /\ pc[d] = "done" /\ answer[d].state = "created"
    BY <2>1 DEF EffectsEnd, Threw
  <2> QED BY <2>1, <2>2 DEF StoreInv, OneCreator, Idem!SameKey
<1> QED BY IInvHolds, StoreHolds, <1>1, PTL

(* Status and `since` move without the operator only by a stale write.     *)
THEOREM LifecycleIsKept == Spec => LifecycleKept
<1>1. ASSUME IInv, StoreTypes, [Next]_vars,
             enrollment # None, moves' = moves,
             LifecycleOf(enrollment') # LifecycleOf(enrollment)
      PROVE  \E c \in Calls : Writes(c) /\ LifecycleOf(seen[c]) # LifecycleOf(enrollment)
  <2>1. enrollment' # enrollment
    BY <1>1
  <2>2. ~OperatorStep
    BY <1>1, OperatorFacts DEF IInv
  <2>3. PICK c \in Calls : CallSteps(c)
    BY <1>1, <2>1, <2>2 DEF Next, OperatorStep, vars
  <2>4. EnrollSave(c)
    BY <2>1, <2>3, OnlySavesWrite
  <2>5. Writes(c)
    BY <1>1, <2>1, <2>4, ActFacts DEF EnrollSave, Writes, IInv, LocalTypeOK
  <2>6. Merged(c) # None
    BY <1>1, <2>4, MergedType, NoneIsNoValue DEF EnrollSave, IInv
  <2>7. CASE seen[c] = None
    <3>1. enrollment \in Enrollments
      BY <1>1 DEF IInv, LocalTypeOK
    <3>2. LifecycleOf(enrollment) # None /\ LifecycleOf(seen[c]) = None
      BY <1>1, <2>7, <3>1, NoneIsNoValue DEF LifecycleOf, Enrollments
    <3> QED BY <2>5, <3>2
  <2>8. CASE seen[c] # None
    <3>1. LifecycleOf(Merged(c)) = LifecycleOf(seen[c])
      BY <2>6, <2>8 DEF LifecycleOf, Merged, KeptStatus
    <3>2. enrollment' = Merged(c)
      BY <2>4 DEF EnrollSave
    <3> QED BY <1>1, <2>5, <3>1, <3>2
  <2> QED BY <2>7, <2>8
<1>2. IInv /\ StoreInv /\ [Next]_vars =>
        [enrollment # None /\ moves' = moves /\ LifecycleOf(enrollment') # LifecycleOf(enrollment) =>
           \E c \in Calls : Writes(c) /\ LifecycleOf(seen[c]) # LifecycleOf(enrollment)]_vars
  BY <1>1, StoreTypesHold
<1> QED BY IInvHolds, StoreHolds, <1>2, PTL DEF Spec, LifecycleKept

(* A demand is lifted only by declaring it, or by not having read it.      *)
THEOREM DemandsAreKept == Spec => DemandsStand
<1>1. ASSUME IInv, StoreTypes, [Next]_vars, NEW d \in Docs,
             enrollment # None, d \in enrollment.required, d \notin enrollment'.required
      PROVE  \E c \in Calls :
               /\ Writes(c)
               /\ \/ Req(c).declared # None /\ d \in Req(c).declared
                  \/ seen[c] = None \/ d \notin seen[c].required
  <2>1. enrollment' # enrollment
    BY <1>1
  <2>2. ~OperatorStep
    BY <1>1, OperatorFacts DEF IInv
  <2>3. PICK c \in Calls : CallSteps(c)
    BY <1>1, <2>1, <2>2 DEF Next, OperatorStep, vars
  <2>4. EnrollSave(c)
    BY <2>1, <2>3, OnlySavesWrite
  <2>5. Writes(c)
    BY <1>1, <2>1, <2>4, ActFacts DEF EnrollSave, Writes, IInv, LocalTypeOK
  <2>6. enrollment'.required = Demands(c)
    BY <2>4 DEF EnrollSave, Merged
  <2> QED BY <1>1, <2>5, <2>6 DEF Demands, Accepts
<1>2. IInv /\ StoreInv /\ [Next]_vars =>
        [\A d \in Docs :
           enrollment # None /\ d \in enrollment.required /\ d \notin enrollment'.required =>
             \E c \in Calls :
               /\ Writes(c)
               /\ \/ Req(c).declared # None /\ d \in Req(c).declared
                  \/ seen[c] = None \/ d \notin seen[c].required]_vars
  BY <1>1, StoreTypesHold
<1> QED BY IInvHolds, StoreHolds, <1>2, PTL DEF Spec, DemandsStand
=============================================================================

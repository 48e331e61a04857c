----------------------------- MODULE AgentSession -----------------------------
(***************************************************************************)
(* One Agent's sessions with one Service (packages/agent/src/index.ts,     *)
(* createAepAgent and createAepServiceSession): enroll, status, grant,     *)
(* revoke, forgetCredential and identity, over the identity store, the     *)
(* credential store and the grant flights that all sessions share.  Every  *)
(* await ends a step; a request may be lost, or handled after its call has *)
(* given up.                                                               *)
(*                                                                         *)
(* The Service and the Platform are what the Agent's requests see of them: *)
(* their own handlers are ServiceEnrollment, ServiceCredentials and        *)
(* PlatformIdentities.  Inspect may fail like any other step, a signer is  *)
(* the identity it signs for, and credentials do not expire meanwhile.     *)
(***************************************************************************)
EXTENDS Naturals, FiniteSets

CONSTANTS
  Calls, Sessions, Ids, Creds, Types, None,
  Keys,  \* idempotency keys a caller chooses; None: a random one
  Asked  \* bound: Asked[c], the operations that call c may be

VARIABLES
  account,  \* Service: account[i], the status of identity i
  issued,   \* Service: issued[x], a credential record or None
  served,   \* Service: served[i, k], the credential recorded for a Grant
  hosted,   \* Platform: the active identities it holds for this Service
  stored,   \* the identity store
  local,    \* the credential store
  flight,   \* grantFlights: the call that leads each flight, or None
  promise,  \* promise[s]: identityPromise of session s
  active,   \* active[s]: authoritativeActiveEnrollment of session s
  stage,    \* stage[c]: where call c is
  frame,    \* frame[c]: the locals of call c, None when it is not running
  wire,     \* wire[c]: the request of c on its way, or the answer to it
  evidence, \* history: the identity last reported active to a session
  saw,      \* history: the identities session s saw when it asked the Platform
  raced,    \* history: identities created beside others that were not seen
  barred    \* history: what answered Revokes have revoked, until it is saved again

service == <<account, issued, served>>
stores == <<stored, local, flight>>
session == <<promise, active>>
calls == <<stage, frame, wire>>
history == <<evidence, saw, raced, barred>>
vars == <<service, hosted, stores, session, calls, history>>

Flights == Types \X (Keys \union {None})
Requests ==
  [op : {"identity", "enroll", "status"}, session : Sessions]
    \union [op : {"grant"}, session : Sessions, flight : Flights]
    \union [op : {"revoke"}, session : Sessions, type : Types, cred : Creds \union {None}]
    \union [op : {"revoke"}, session : Sessions, type : {None}, cred : {None}]
    \union [op : {"forget"}, session : Sessions, cred : Creds]
Credentials == [id : Ids, type : Types, live : BOOLEAN]
Promises == [state : {"none", "looking", "finding", "provisioning", "saving",
                      "resolved", "rejected"}, id : Ids \union {None}]

(* The locals: the request, the identity, the credentials a Revoke is to   *)
(* delete; and for the history the evidence that a Grant was sent on, and  *)
(* what the Service had issued and did revoke when it handled a Revoke.    *)
Frame(req) == [req |-> req, who |-> None, doomed |-> {},
               rests |-> None, before |-> {}, covered |-> {}]
Signed(req, i) == [is |-> req.op, req |-> req, id |-> i]
Reply(what) == [is |-> what]
Reports(status) == [is |-> "report", status |-> status]
Gives(x) == [is |-> "credential", cred |-> x]
Answers == {"report", "credential", "refusal", "revoked"}

Stages == {"idle", "identify", "find", "seek", "recover", "ask", "sent", "joined", "saving",
           "deleting", "done"}
Statuses == {"none", "active", "inactive"}
Frames ==
  [req : Requests, who : Ids \union {None}, doomed : SUBSET Creds,
   rests : Ids \union {None}, before : SUBSET Creds, covered : SUBSET Creds]
Messages ==
  [is : {"enroll", "status", "grant", "revoke"}, req : Requests \union [op : {"status"}], id : Ids]
    \union [is : {"report"}, status : Statuses] \union [is : {"credential"}, cred : Creds]
    \union [is : {"refusal", "revoked"}]
ASSUME NoneAssumption ==
  None \notin Calls \union Ids \union Creds \union Credentials \union Frames \union Messages
ASSUME KeysAssumption == None \notin Keys

-----------------------------------------------------------------------------
(* The Agent is new to the Service; or it is enrolled, may have lost its   *)
(* identity store, and may hold a credential.                              *)
Init ==
  /\ \/ /\ account = [i \in Ids |-> "none"] /\ hosted = {} /\ stored = None
        /\ local = {} /\ issued = [x \in Creds |-> None]
     \/ \E i \in Ids, x \in Creds, t \in Types :
          /\ account = [j \in Ids |-> IF j = i THEN "active" ELSE "none"]
          /\ hosted = {i} /\ stored \in {i, None}
          /\ local \in {{}, {x}}
          /\ issued = [y \in Creds |->
                         IF y \in local THEN [id |-> i, type |-> t, live |-> TRUE] ELSE None]
  /\ served = [ik \in Ids \X Keys |-> None]
  /\ flight = [f \in Flights |-> None]
  /\ promise = [s \in Sessions |-> [state |-> "none", id |-> None]]
  /\ active = [s \in Sessions |-> FALSE]
  /\ stage = [c \in Calls |-> "idle"]
  /\ frame = [c \in Calls |-> None]
  /\ wire = [c \in Calls |-> None]
  /\ evidence = [s \in Sessions |-> None]
  /\ saw = [s \in Sessions |-> {}]
  /\ raced = {} /\ barred = {}

Go(c, s) == stage' = [stage EXCEPT ![c] = s]
Send(c, req, i) == wire' = [wire EXCEPT ![c] = Signed(req, i)]

(* A call ends.  What it has sent, and nobody waits for, still arrives.    *)
Abandoned(m) == IF m # None /\ m.is \in {"enroll", "grant", "revoke"} THEN m ELSE None
Ends(ended) ==
  /\ stage' = [c \in Calls |-> IF c \in ended THEN "done" ELSE stage[c]]
  /\ frame' = [c \in Calls |-> IF c \in ended THEN None ELSE frame[c]]
  /\ wire' = [c \in Calls |-> IF c \in ended THEN Abandoned(wire[c]) ELSE wire[c]]

-----------------------------------------------------------------------------
(* What the Agent can see of a Service.  Grant is idempotent by key; a     *)
(* Revoke of a credential covers it only under its own type.               *)
Answer(c, reply) == wire' = [wire EXCEPT ![c] = IF stage[c] = "done" THEN None ELSE reply]
Arrived(c, what) == wire[c] # None /\ wire[c].is = what

ServiceReports(c) ==
  /\ Arrived(c, "status")
  /\ Answer(c, Reports(account[wire[c].id]))
  /\ UNCHANGED <<service, hosted, stores, session, stage, frame, history>>

ServiceEnrolls(c) ==
  /\ Arrived(c, "enroll")
  /\ \E status \in {"active", "inactive"} :
       /\ account[wire[c].id] \in {"none", status}
       /\ account' = [account EXCEPT ![wire[c].id] = status]
       /\ Answer(c, Reports(status))
  /\ UNCHANGED <<issued, served, hosted, stores, session, stage, frame, history>>

Recorded(i, k) == IF k = None THEN None ELSE served[<<i, k>>]
ServiceGrants(c) ==
  LET i == wire[c].id
      t == wire[c].req.flight[1]
      k == wire[c].req.flight[2]
      x == Recorded(i, k) IN
  /\ Arrived(c, "grant")
  /\ \/ /\ x # None
        /\ Answer(c, IF issued[x].type = t THEN Gives(x) ELSE Reply("refusal"))
        /\ UNCHANGED <<issued, served>>
     \/ /\ x = None /\ account[i] # "active"
        /\ Answer(c, Reply("refusal"))
        /\ UNCHANGED <<issued, served>>
     \/ /\ x = None /\ account[i] = "active"
        /\ \E new \in Creds :
             /\ issued[new] = None
             /\ issued' = [issued EXCEPT ![new] = [id |-> i, type |-> t, live |-> TRUE]]
             /\ served' = [ik \in Ids \X Keys |-> IF ik = <<i, k>> THEN new ELSE served[ik]]
             /\ Answer(c, Gives(new))
  /\ UNCHANGED <<account, hosted, stores, session, stage, frame, history>>

ServiceRevokes(c) ==
  LET m == wire[c]
      gone == {x \in Creds : /\ issued[x] # None /\ issued[x].live /\ issued[x].id = m.id
                             /\ m.req.type \in {issued[x].type, None}
                             /\ m.req.cred \in {x, None}} IN
  /\ Arrived(c, "revoke")
  /\ issued' = [x \in Creds |-> IF x \in gone THEN [issued[x] EXCEPT !.live = FALSE] ELSE issued[x]]
  /\ Answer(c, Reply("revoked"))
  /\ frame' = IF stage[c] = "done" THEN frame
              ELSE [frame EXCEPT ![c].covered = gone,
                                 ![c].before = {x \in Creds : issued[x] # None}]
  /\ UNCHANGED <<account, served, hosted, stores, session, stage, history>>

-----------------------------------------------------------------------------
(* identityOnce: the first caller of a session starts its promise, which   *)
(* is kept, resolved or rejected, for as long as the session is.           *)
Demand(s) ==
  IF promise[s].state = "none"
    THEN promise' = [promise EXCEPT ![s].state = "looking"]
    ELSE UNCHANGED promise

Becomes(s, state, i) == promise' = [promise EXCEPT ![s] = [state |-> state, id |-> i]]
PromiseOnly == UNCHANGED <<service, local, flight, active, calls, evidence, barred>>

IdentityLook(s) ==
  /\ promise[s].state = "looking"
  /\ IF stored # None THEN Becomes(s, "resolved", stored) ELSE Becomes(s, "finding", None)
  /\ UNCHANGED <<hosted, stored, saw, raced>> /\ PromiseOnly

(* getOrCreateIdentity of the Platform provider: an identity the Platform  *)
(* lists, or else a new one.  Another provision may have come first; then  *)
(* the Platform answers with either (PlatformIdentities).                  *)
IdentityFindMutant(s) ==
  /\ promise[s].state = "finding"
  /\ saw' = [saw EXCEPT ![s] = hosted]
  /\ Becomes(s, "provisioning", None)
  /\ UNCHANGED <<hosted, stored, raced>> /\ PromiseOnly
IdentityFind(s) ==
  /\ promise[s].state = "finding"
  /\ saw' = [saw EXCEPT ![s] = hosted]
  /\ \/ hosted = {} /\ Becomes(s, "provisioning", None)
     \/ \E i \in hosted : Becomes(s, "saving", i)
  /\ UNCHANGED <<hosted, stored, raced>> /\ PromiseOnly
IdentityProvision(s) ==
  /\ promise[s].state = "provisioning"
  /\ \E i \in Ids :
       /\ Becomes(s, "saving", i)
       /\ hosted' = hosted \union {i}
       /\ raced' = IF i \notin hosted /\ hosted # {} /\ saw[s] = {}
                     THEN raced \union {i} ELSE raced
  /\ UNCHANGED <<stored, saw>> /\ PromiseOnly
IdentitySave(s) ==
  /\ promise[s].state = "saving"
  /\ stored' = promise[s].id
  /\ Becomes(s, "resolved", promise[s].id)
  /\ saw' = [saw EXCEPT ![s] = {}]
  /\ UNCHANGED <<hosted, raced>> /\ PromiseOnly
IdentityReject(s) ==
  /\ promise[s].state \in {"looking", "finding", "provisioning", "saving"}
  /\ Becomes(s, "rejected", None)
  /\ saw' = [saw EXCEPT ![s] = {}]
  /\ UNCHANGED <<hosted, stored, raced>> /\ PromiseOnly

-----------------------------------------------------------------------------
(* A session command other than grant: it awaits the identity first.       *)
Begin(c, req) ==
  /\ stage[c] = "idle" /\ req.op \notin {"grant", "forget"}
  /\ frame' = [frame EXCEPT ![c] = Frame(req)]
  /\ Go(c, "identify")
  /\ Demand(req.session)
  /\ UNCHANGED <<service, hosted, stores, active, wire, history>>

(* The identity is there: the command is signed and sent.  Or it is not,   *)
(* and every command of the session fails from now on.                     *)
Identified(c) ==
  LET req == frame[c].req
      p == promise[req.session] IN
  /\ stage[c] = "identify"
  /\ \/ /\ p.state = "resolved" /\ req.op # "identity"
        /\ frame' = [frame EXCEPT ![c].who = p.id]
        /\ Go(c, "sent") /\ Send(c, req, p.id)
     \/ p.state = "resolved" /\ req.op = "identity" /\ Ends({c})
     \/ p.state = "rejected" /\ Ends({c})
  /\ UNCHANGED <<service, hosted, stores, session, history>>

(* Enroll and Status answer: the session believes the status it is told.   *)
ActiveInMutant(reply) == TRUE
ActiveIn(reply) == reply.status = "active"
Believe(c) ==
  LET s == frame[c].req.session IN
  /\ active' = [active EXCEPT ![s] = ActiveIn(wire[c])]
  /\ evidence' = [evidence EXCEPT ![s] =
                    IF wire[c].status = "active" THEN frame[c].who ELSE None]

At(c, s, ops) == stage[c] = s /\ frame[c].req.op \in ops
Answered(c) == wire[c] # None /\ wire[c].is \in Answers
TakeStatus(c) ==
  /\ At(c, "sent", {"enroll", "status"}) /\ Answered(c)
  /\ Believe(c)
  /\ Ends({c})
  /\ UNCHANGED <<service, hosted, stores, promise, saw, raced, barred>>

-----------------------------------------------------------------------------
(* Grant: it joins a flight with the same type, scopes and key, or leads   *)
(* one of its own.                                                         *)
GrantJoinMutant(c, req) ==
  /\ stage[c] = "idle" /\ req.op = "grant"
  /\ frame' = [frame EXCEPT ![c] = Frame(req)]
  /\ Go(c, "find") /\ flight' = [flight EXCEPT ![req.flight] = c]
  /\ UNCHANGED <<service, hosted, stored, local, session, wire, history>>
GrantJoin(c, req) ==
  /\ stage[c] = "idle" /\ req.op = "grant"
  /\ frame' = [frame EXCEPT ![c] = Frame(req)]
  /\ IF flight[req.flight] # None THEN Go(c, "joined") /\ UNCHANGED flight
     ELSE Go(c, "find") /\ flight' = [flight EXCEPT ![req.flight] = c]
  /\ UNCHANGED <<service, hosted, stored, local, session, wire, history>>

(* The flight settles for its leader and for all who joined it.            *)
Settle(c) ==
  LET f == frame[c].req.flight IN
  /\ flight' = [flight EXCEPT ![f] = None]
  /\ Ends({c} \union {d \in Calls : stage[d] = "joined" /\ frame[d].req.flight = f})

(* With evidence the Grant itself is sent, without it a Status first.      *)
GrantAsk(c, i) ==
  LET req == frame[c].req IN
  IF active[req.session]
    THEN /\ Go(c, "sent") /\ Send(c, req, i)
         /\ frame' = [frame EXCEPT ![c].who = i, ![c].rests = evidence[req.session]]
    ELSE /\ Go(c, "ask") /\ Send(c, [op |-> "status"], i)
         /\ frame' = [frame EXCEPT ![c].who = i]

(* existingIdentityOnce: the identity store is read, and where it has none *)
(* the Platform is asked for its list.                                     *)
GrantFind(c) ==
  /\ stage[c] = "find"
  /\ IF stored # None THEN GrantAsk(c, stored)
     ELSE Go(c, "seek") /\ UNCHANGED <<frame, wire>>
  /\ UNCHANGED <<service, hosted, stores, session, history>>
GrantSeek(c) ==
  /\ stage[c] = "seek"
  /\ \/ /\ \E i \in hosted : frame' = [frame EXCEPT ![c].who = i]
        /\ Go(c, "recover")
        /\ UNCHANGED <<flight, wire>>
     \/ hosted = {} /\ Settle(c)
  /\ UNCHANGED <<service, hosted, stored, local, session, history>>
GrantRecover(c) ==
  /\ stage[c] = "recover"
  /\ stored' = frame[c].who
  /\ GrantAsk(c, frame[c].who)
  /\ UNCHANGED <<service, hosted, local, flight, session, history>>

(* The Status of a Grant answers: only to an active account is the Grant   *)
(* itself sent.                                                            *)
GrantCheckedMutant(c) ==
  LET req == [frame[c].req EXCEPT !.flight[2] = None] IN
  /\ stage[c] = "ask" /\ Answered(c)
  /\ Believe(c)
  /\ IF ActiveIn(wire[c])
       THEN /\ Go(c, "sent") /\ Send(c, req, frame[c].who)
            /\ frame' = [frame EXCEPT ![c].rests = evidence'[req.session]]
            /\ UNCHANGED flight
       ELSE Settle(c)
  /\ UNCHANGED <<service, hosted, stored, local, promise, saw, raced, barred>>
GrantChecked(c) ==
  LET req == frame[c].req IN
  /\ stage[c] = "ask" /\ Answered(c)
  /\ Believe(c)
  /\ IF ActiveIn(wire[c])
       THEN /\ Go(c, "sent") /\ Send(c, req, frame[c].who)
            /\ frame' = [frame EXCEPT ![c].rests = evidence'[req.session]]
            /\ UNCHANGED flight
       ELSE Settle(c)
  /\ UNCHANGED <<service, hosted, stored, local, promise, saw, raced, barred>>

GrantTake(c) ==
  /\ At(c, "sent", {"grant"}) /\ Answered(c)
  /\ IF wire[c].is = "refusal" THEN Settle(c)
     ELSE Go(c, "saving") /\ UNCHANGED <<flight, frame, wire>>
  /\ UNCHANGED <<service, hosted, stored, local, session, history>>
GrantSave(c) ==
  LET x == wire[c].cred IN
  /\ stage[c] = "saving"
  /\ local' = local \union {x}
  /\ barred' = barred \ {x}
  /\ Settle(c)
  /\ UNCHANGED <<service, hosted, stored, session, evidence, saw, raced>>

-----------------------------------------------------------------------------
(* Revoke answers: the credentials of its selector are listed, then        *)
(* deleted, in the local store.                                            *)
SelectsMutant(req, x) == req.type \in {issued[x].type, None}
SelectsNoneMutant(req, x) == req.cred = x
Selects(req, x) ==
  IF req.cred # None THEN req.cred = x ELSE req.type \in {issued[x].type, None}
RevokeList(c) ==
  /\ At(c, "sent", {"revoke"}) /\ Answered(c)
  /\ frame' = [frame EXCEPT ![c].doomed = {x \in local : Selects(frame[c].req, x)}]
  /\ Go(c, "deleting")
  /\ wire' = [wire EXCEPT ![c] = None]
  /\ barred' = barred \union frame[c].covered
  /\ UNCHANGED <<service, hosted, stores, session, evidence, saw, raced>>
(* One deletion after another; if one fails, the rest are not made.        *)
RevokeDelete(c) ==
  /\ stage[c] = "deleting"
  /\ \E deleted \in SUBSET frame[c].doomed :
       /\ local' = local \ deleted
       /\ barred' = barred \ (frame[c].doomed \ deleted)
  /\ Ends({c})
  /\ UNCHANGED <<service, hosted, stored, flight, session, evidence, saw, raced>>

Forget(c, req) ==
  /\ stage[c] = "idle" /\ req.op = "forget"
  /\ local' = local \ {req.cred}
  /\ Ends({c})
  /\ UNCHANGED <<service, hosted, stored, flight, session, history>>

(* A step of a call fails: inspect, the Platform, signing, the network, a  *)
(* store.                                                                  *)
Fail(c) ==
  /\ stage[c] \in {"identify", "find", "seek", "recover", "ask", "sent", "saving"}
  /\ IF frame[c].req.op = "grant" THEN Settle(c) ELSE Ends({c}) /\ UNCHANGED flight
  /\ UNCHANGED <<service, hosted, stored, local, session, history>>

CallSteps(c) ==
  \/ \E req \in Requests :
       req.op \in Asked[c] /\ (Begin(c, req) \/ GrantJoin(c, req) \/ Forget(c, req))
  \/ Identified(c) \/ TakeStatus(c)
  \/ GrantFind(c) \/ GrantSeek(c) \/ GrantRecover(c)
  \/ GrantChecked(c) \/ GrantTake(c) \/ GrantSave(c)
  \/ RevokeList(c) \/ RevokeDelete(c) \/ Fail(c)
SessionSteps(s) ==
  IdentityLook(s) \/ IdentityFind(s) \/ IdentityProvision(s) \/ IdentitySave(s) \/ IdentityReject(s)
ServiceSteps ==
  \E c \in Calls : ServiceReports(c) \/ ServiceEnrolls(c) \/ ServiceGrants(c) \/ ServiceRevokes(c)

Next == (\E c \in Calls : CallSteps(c)) \/ (\E s \in Sessions : SessionSteps(s)) \/ ServiceSteps

Spec == Init /\ [][Next]_vars

-----------------------------------------------------------------------------
TypeOK ==
  /\ account \in [Ids -> Statuses]
  /\ issued \in [Creds -> Credentials \union {None}]
  /\ served \in [Ids \X Keys -> Creds \union {None}]
  /\ hosted \subseteq Ids /\ raced \subseteq Ids /\ stored \in Ids \union {None}
  /\ local \subseteq Creds /\ barred \subseteq Creds
  /\ flight \in [Flights -> Calls \union {None}]
  /\ promise \in [Sessions -> Promises]
  /\ active \in [Sessions -> BOOLEAN]
  /\ evidence \in [Sessions -> Ids \union {None}]
  /\ saw \in [Sessions -> SUBSET Ids]
  /\ stage \in [Calls -> Stages]
  /\ frame \in [Calls -> Frames \union {None}]
  /\ \A c \in Calls : frame[c] = None <=> stage[c] \in {"idle", "done"}
  /\ wire \in [Calls -> Messages \union {None}]

Leads(c) == stage[c] \in {"find", "seek", "recover", "ask"}
              \/ (stage[c] \in {"sent", "saving"} /\ frame[c].req.op = "grant")

(* Grants of one flight never overlap: at most one call asks the Service   *)
(* for them, and a call that waits has such a leader to wait for.          *)
OneGrantPerFlight ==
  \A c \in Calls :
    /\ Leads(c) => \A d \in Calls \ {c} :
         Leads(d) => frame[d].req.flight # frame[c].req.flight
    /\ stage[c] = "joined" =>
         \E d \in Calls : Leads(d) /\ frame[d].req.flight = frame[c].req.flight
                            /\ flight[frame[c].req.flight] = d

(* A Grant is sent only by a session whose last word from the Service was  *)
(* "active", and about the very identity it is sent for, unless provisions *)
(* raced and left the Agent with two identities.                           *)
GrantRestsOnEvidence ==
  \A c \in Calls :
    Leads(c) /\ stage[c] \in {"sent", "saving"} =>
      /\ frame[c].rests # None
      /\ frame[c].rests = frame[c].who \/ raced # {}

(* A Revoke deletes a local credential that still works only if it was     *)
(* issued after the Service had handled the Revoke, is another identity's, *)
(* or was named under the wrong type.                                      *)
RevokeForgetsOnlyRevoked ==
  [][\A x \in local \ local' : issued[x].live /\ issued'[x].live =>
       \E c \in Calls :
         /\ stage[c] # "done" /\ stage'[c] = "done"
         /\ stage[c] = "deleting" =>
              \/ x \notin frame[c].before
              \/ issued[x].id # frame[c].who
              \/ frame[c].req.cred = x /\ frame[c].req.type # issued[x].type]_vars

(* What a Revoke revoked at the Service is gone from the local store when  *)
(* it returns, unless a deletion failed or a Grant has saved it since.     *)
RevokedStaysForgotten ==
  local \intersect barred \subseteq
    UNION {frame[c].doomed : c \in {d \in Calls : stage[d] = "deleting"}}

Carries(c, x) == Arrived(c, "credential") /\ wire[c].cred = x
Reachable(x) ==
  \/ x \in local
  \/ \E ik \in Ids \X Keys : served[ik] = x
  \/ \E c \in Calls : Carries(c, x)

(* A credential that works is lost - in no store, on no wire, and recorded *)
(* under no key that would fetch it again - only when the Agent deletes    *)
(* it, or when a Grant under a random key fails before it has saved it, or *)
(* is handled after it has failed.                                         *)
LostOnlyUnderRandomKeys ==
  [][\A x \in Creds :
       /\ issued[x] = None \/ Reachable(x)
       /\ issued'[x] # None /\ issued'[x].live /\ ~Reachable(x)'
       => \/ x \in local \ local'
          \/ \E c \in Calls :
               \/ /\ Carries(c, x) /\ stage'[c] = "done"
                  /\ frame[c].req.flight[2] = None
               \/ /\ stage[c] = "done" /\ Arrived(c, "grant")
                  /\ wire[c].req.flight[2] = None]_vars
=============================================================================

-------------------------- MODULE AgentSession_proofs --------------------------
(***************************************************************************)
(* Proofs about AgentSession, for every number of calls, sessions,         *)
(* identities, credentials, types and keys.  The inductive invariant says  *)
(* what each call has by its stage, that flights are led by exactly one    *)
(* call, that a session's belief has an identity it is about, and that     *)
(* there is one identity as long as no provisions raced.                   *)
(***************************************************************************)
EXTENDS AgentSession, TLAPS

Op(c) == frame[c].req.op
Granting == {"find", "seek", "recover", "ask", "joined", "saving"}

(* What a call has, by its stage.                                          *)
CourseOf(c) ==
  /\ stage[c] \in Granting => Op(c) = "grant"
  /\ stage[c] = "identify" =>
       /\ Op(c) \in {"identity", "enroll", "status", "revoke"}
       /\ frame[c].doomed = {} /\ frame[c].before = {} /\ frame[c].covered = {}
  /\ stage[c] = "sent" => Op(c) \in {"enroll", "status", "grant", "revoke"}
  /\ stage[c] = "deleting" => Op(c) = "revoke"
  /\ stage[c] \in {"recover", "ask", "sent", "saving", "deleting"} => frame[c].who # None
  /\ stage[c] = "saving" \/ (stage[c] = "sent" /\ Op(c) = "grant") => frame[c].rests # None

(* What is on the wire for it.                                             *)
SignedFor(c, req) == wire[c].is = req.op /\ wire[c].req = req /\ wire[c].id = frame[c].who
WireFits(c) ==
  /\ stage[c] \in {"idle", "identify", "find", "seek", "recover", "joined", "deleting"} => wire[c] = None
  /\ stage[c] = "ask" =>
       wire[c] # None /\ (wire[c].is = "report" \/ SignedFor(c, [op |-> "status"]))
  /\ stage[c] = "sent" =>
       /\ wire[c] # None
       /\ \/ SignedFor(c, frame[c].req)
          \/ wire[c].is = "report" /\ Op(c) \in {"enroll", "status"}
          \/ wire[c].is \in {"credential", "refusal"} /\ Op(c) = "grant"
          \/ wire[c].is = "revoked" /\ Op(c) = "revoke"
  /\ stage[c] = "saving" => wire[c] # None /\ wire[c].is = "credential"
  /\ stage[c] = "done" /\ wire[c] # None =>
       /\ wire[c].is \in {"enroll", "grant", "revoke"}
       /\ wire[c].req \in Requests /\ wire[c].req.op = wire[c].is
  /\ wire[c] # None /\ wire[c].is = "credential" => issued[wire[c].cred] # None

(* A Revoke that was handled has revoked what it names of what was issued  *)
(* by then, and what it is to delete is selected by its request.           *)
Names(c, x) ==
  /\ issued[x].id = frame[c].who
  /\ frame[c].req.type \in {issued[x].type, None} /\ frame[c].req.cred \in {x, None}
RevokingOf(c) ==
  stage[c] \in {"sent", "deleting"} /\ Op(c) = "revoke" =>
    /\ \A x \in frame[c].covered : issued[x] # None /\ Selects(frame[c].req, x)
    /\ \A x \in frame[c].before : issued[x] # None /\ (Names(c, x) => ~issued[x].live)
    /\ stage[c] = "deleting" => \A x \in frame[c].doomed : issued[x] # None /\ Selects(frame[c].req, x)

CallOf(c) == CourseOf(c) /\ WireFits(c) /\ RevokingOf(c)
CallsRun == \A c \in Calls : CallOf(c)

(* A flight is led by the one call it names, and whoever waits has one.    *)
FlightsLed ==
  /\ \A c \in Calls :
       /\ Leads(c) => flight[frame[c].req.flight] = c
       /\ stage[c] = "joined" => flight[frame[c].req.flight] # None
  /\ \A f \in Flights : flight[f] # None => Leads(flight[f]) /\ frame[flight[f]].req.flight = f

BeliefsHaveEvidence == \A s \in Sessions : active[s] <=> evidence[s] # None

(* Whatever identity the Agent has is one that the Platform holds, of      *)
(* which there is one unless provisions raced.                             *)
Known == hosted \union {None}
OneIdentity ==
  /\ stored \in Known
  /\ \A s \in Sessions :
       /\ promise[s].id \in Known /\ evidence[s] \in Known
       /\ promise[s].state \in {"saving", "resolved"} => promise[s].id # None
       /\ promise[s].state = "provisioning" => saw[s] = {}
  /\ \A c \in Calls : frame[c] # None => frame[c].who \in Known /\ frame[c].rests \in Known
  /\ raced = {} => \A i, j \in hosted : i = j

(* What is kept, or recorded for a key, was issued.                        *)
KeptWereIssued ==
  /\ \A x \in local : issued[x] # None
  /\ \A ik \in Ids \X Keys : served[ik] # None => issued[served[ik]] # None

IInv ==
  TypeOK /\ CallsRun /\ FlightsLed /\ BeliefsHaveEvidence /\ OneIdentity /\ KeptWereIssued
    /\ RevokedStaysForgotten

-----------------------------------------------------------------------------
LEMMA RequestKinds ==
  ASSUME NEW req \in Requests
  PROVE  /\ req.op \in {"identity", "enroll", "status", "grant", "revoke", "forget"}
         /\ req.session \in Sessions
         /\ req.op = "grant" => req.flight \in Flights
         /\ req.op = "revoke" => /\ req.type \in Types \union {None}
                                 /\ req.cred \in Creds \union {None}
         /\ req.op = "forget" => req.cred \in Creds
  BY DEF Requests

(* Messages are something.                                                 *)
LEMMA SignedIs ==
  ASSUME NEW req \in Requests \union [op : {"status"}], NEW i \in Ids,
         req.op \in {"enroll", "status", "grant", "revoke"}
  PROVE  /\ Signed(req, i) \in Messages /\ Signed(req, i) # None
         /\ Signed(req, i).is = req.op /\ Signed(req, i).req = req /\ Signed(req, i).id = i
<1>1. Signed(req, i) \in Messages
  BY DEF Signed, Messages
<1> QED BY <1>1, NoneAssumption DEF Signed
LEMMA RepliesAre ==
  /\ \A what \in {"refusal", "revoked"} :
       Reply(what) \in Messages /\ Reply(what) # None /\ Reply(what).is = what
  /\ \A status \in Statuses :
       /\ Reports(status) \in Messages /\ Reports(status) # None
       /\ Reports(status).is = "report" /\ Reports(status).status = status
  /\ \A x \in Creds :
       /\ Gives(x) \in Messages /\ Gives(x) # None
       /\ Gives(x).is = "credential" /\ Gives(x).cred = x
<1>1. ASSUME NEW what \in {"refusal", "revoked"}
      PROVE  Reply(what) \in Messages /\ Reply(what).is = what
  BY DEF Reply, Messages
<1>2. ASSUME NEW status \in Statuses
      PROVE  /\ Reports(status) \in Messages
             /\ Reports(status).is = "report" /\ Reports(status).status = status
  BY DEF Reports, Messages
<1>3. ASSUME NEW x \in Creds
      PROVE  Gives(x) \in Messages /\ Gives(x).is = "credential" /\ Gives(x).cred = x
  BY DEF Gives, Messages
<1> QED BY <1>1, <1>2, <1>3, NoneAssumption
LEMMA MessageKinds ==
  ASSUME NEW m \in Messages
  PROVE  /\ m # None
         /\ m.is = "report" => m.status \in Statuses
         /\ m.is = "credential" => m.cred \in Creds
         /\ m.is \in {"enroll", "status", "grant", "revoke"} => m.id \in Ids
<1>1. m # None
  BY NoneAssumption
<1>2. CASE m \in [is : {"enroll", "status", "grant", "revoke"},
                  req : Requests \union [op : {"status"}], id : Ids]
  BY <1>1, <1>2
<1>3. CASE m \in [is : {"report"}, status : Statuses] \union [is : {"credential"}, cred : Creds]
                   \union [is : {"refusal", "revoked"}]
  BY <1>1, <1>3
<1> QED BY <1>2, <1>3 DEF Messages

LEMMA FrameIs ==
  ASSUME NEW req \in Requests
  PROVE  /\ Frame(req) \in Frames /\ Frame(req) # None /\ Frame(req).req = req
         /\ Frame(req).who = None /\ Frame(req).rests = None
         /\ Frame(req).doomed = {} /\ Frame(req).before = {} /\ Frame(req).covered = {}
<1>1. Frame(req) \in Frames
  BY DEF Frame, Frames
<1> QED BY <1>1, NoneAssumption DEF Frame

-----------------------------------------------------------------------------
(* The calls that a step leaves alone, and those that it ends.             *)
Same(c) == stage'[c] = stage[c] /\ frame'[c] = frame[c] /\ wire'[c] = wire[c]
Ended(c) == stage'[c] = "done" /\ frame'[c] = None /\ wire'[c] = Abandoned(wire[c])
Joined(f) == {d \in Calls : stage[d] = "joined" /\ frame[d].req.flight = f}
CallsTyped ==
  /\ stage \in [Calls -> Stages]
  /\ frame \in [Calls -> Frames \union {None}]
  /\ \A c \in Calls : frame[c] = None <=> stage[c] \in {"idle", "done"}
  /\ wire \in [Calls -> Messages \union {None}]

LEMMA EndsOf ==
  ASSUME TypeOK, NEW ended \in SUBSET Calls, Ends(ended)
  PROVE  /\ \A d \in ended : Ended(d)
         /\ \A d \in Calls \ ended : Same(d)
         /\ CallsTyped'
<1>1. \A d \in ended : Ended(d)
  BY DEF Ends, Ended
<1>2. \A d \in Calls \ ended : Same(d)
  BY DEF Ends, Same
<1>3. \A d \in Calls : Abandoned(wire[d]) \in Messages \union {None}
  BY DEF TypeOK, Abandoned
<1>4. wire' \in [Calls -> Messages \union {None}]
  BY <1>3 DEF Ends, TypeOK
<1>5. stage' \in [Calls -> Stages] /\ frame' \in [Calls -> Frames \union {None}]
  BY DEF Ends, TypeOK, Stages
<1>6. \A d \in Calls : frame'[d] = None <=> stage'[d] \in {"idle", "done"}
  BY <1>1, <1>2 DEF TypeOK, Ended, Same
<1> QED BY <1>1, <1>2, <1>4, <1>5, <1>6 DEF CallsTyped

(* A running Grant is for some flight.                                     *)
LEMMA Running ==
  ASSUME TypeOK, NEW c \in Calls, stage[c] \notin {"idle", "done"}
  PROVE  /\ frame[c] \in Frames /\ frame[c] # None /\ frame[c].req \in Requests
         /\ Op(c) = "grant" => frame[c].req.flight \in Flights
<1>1. frame[c] \in Frames /\ frame[c] # None
  BY DEF TypeOK
<1>2. frame[c].req \in Requests
  BY <1>1 DEF Frames
<1> QED BY <1>1, <1>2, RequestKinds DEF Op

LEMMA SettleOf ==
  ASSUME TypeOK, NEW c \in Calls, stage[c] \notin {"idle", "done"}, Op(c) = "grant", Settle(c)
  PROVE  /\ Ended(c)
         /\ \A d \in Joined(frame[c].req.flight) : Ended(d)
         /\ \A d \in Calls \ ({c} \union Joined(frame[c].req.flight)) : Same(d)
         /\ CallsTyped'
         /\ flight' = [flight EXCEPT ![frame[c].req.flight] = None]
         /\ flight' \in [Flights -> Calls \union {None}]
<1> DEFINE ended == {c} \union Joined(frame[c].req.flight)
<1>1. ended \in SUBSET Calls /\ Ends(ended)
  BY DEF Settle, Joined
<1>2. /\ \A d \in ended : Ended(d)
      /\ \A d \in Calls \ ended : Same(d)
      /\ CallsTyped'
  BY <1>1, EndsOf
<1>3. /\ flight' = [flight EXCEPT ![frame[c].req.flight] = None]
      /\ flight' \in [Flights -> Calls \union {None}]
  BY DEF Settle, TypeOK
<1> QED BY <1>2, <1>3

(* A call that moves on, with locals and a message of its own.             *)
LEMMA MovesOn ==
  ASSUME TypeOK, NEW c \in Calls, NEW s \in Stages,
         stage' = [stage EXCEPT ![c] = s],
         \/ frame' = frame
         \/ frame' = [frame EXCEPT ![c] = frame'[c]] /\ frame'[c] \in Frames \union {None},
         \/ wire' = wire
         \/ wire' = [wire EXCEPT ![c] = wire'[c]] /\ wire'[c] \in Messages \union {None},
         frame'[c] = None <=> s \in {"idle", "done"}
  PROVE  /\ CallsTyped'
         /\ stage'[c] = s
         /\ \A d \in Calls \ {c} : Same(d)
<1>1. stage' \in [Calls -> Stages] /\ frame' \in [Calls -> Frames \union {None}]
  BY DEF TypeOK
<1>2. wire' \in [Calls -> Messages \union {None}]
  BY DEF TypeOK
<1>3. \A d \in Calls \ {c} : Same(d)
  BY DEF TypeOK, Same
<1>4. stage'[c] = s
  BY DEF TypeOK
<1>5. \A d \in Calls : frame'[d] = None <=> stage'[d] \in {"idle", "done"}
  BY <1>3, <1>4 DEF TypeOK, Same
<1> QED BY <1>1, <1>2, <1>3, <1>4, <1>5 DEF CallsTyped

-----------------------------------------------------------------------------
(* The steps of sessions and of the Service keep the types.                *)
LEMMA SessionTypes ==
  ASSUME TypeOK, NEW s \in Sessions, SessionSteps(s)
  PROVE  TypeOK' /\ (\A c \in Calls : Same(c))
<1> USE DEF TypeOK, Becomes, PromiseOnly, service, calls, Promises, Same
<1>1. CASE IdentityLook(s)
  BY <1>1 DEF IdentityLook
<1>2. CASE IdentityFind(s)
  BY <1>2 DEF IdentityFind
<1>3. CASE IdentityProvision(s)
  BY <1>3 DEF IdentityProvision
<1>4. CASE IdentitySave(s)
  BY <1>4 DEF IdentitySave
<1>5. CASE IdentityReject(s)
  BY <1>5 DEF IdentityReject
<1> QED BY <1>1, <1>2, <1>3, <1>4, <1>5 DEF SessionSteps

LEMMA ArrivedIs ==
  ASSUME TypeOK, CallsRun, NEW c \in Calls,
         Arrived(c, "status") \/ Arrived(c, "enroll") \/ Arrived(c, "grant") \/ Arrived(c, "revoke")
  PROVE  /\ wire[c] \in Messages /\ wire[c].id \in Ids
         /\ stage[c] \in {"ask", "sent", "done"}
         /\ stage[c] = "sent" => wire[c].is = Op(c) /\ wire[c].req = frame[c].req
                                    /\ wire[c].id = frame[c].who
         /\ stage[c] = "ask" => wire[c].is = "status"
         /\ stage[c] = "done" => wire[c].is # "status"
         /\ wire[c].is # "status" => wire[c].req \in Requests /\ wire[c].req.op = wire[c].is
<1>1. wire[c] \in Messages /\ wire[c].is \in {"enroll", "status", "grant", "revoke"}
  BY DEF Arrived, TypeOK
<1>2. wire[c].id \in Ids
  BY <1>1, MessageKinds
<1>3. WireFits(c)
  BY DEF CallsRun, CallOf
<1>4. stage[c] \in {"ask", "sent", "done"}
  BY <1>1, <1>3, NoneAssumption DEF WireFits, TypeOK, Stages
<1>5. stage[c] = "sent" => wire[c].is = Op(c) /\ wire[c].req = frame[c].req /\ wire[c].id = frame[c].who
  BY <1>1, <1>3 DEF WireFits, SignedFor, Op
<1>6. stage[c] = "ask" => wire[c].is = "status"
  BY <1>1, <1>3 DEF WireFits, SignedFor
<1>7. stage[c] = "done" => wire[c].is # "status" /\ wire[c].req \in Requests /\ wire[c].req.op = wire[c].is
  BY <1>1, <1>3, NoneAssumption DEF WireFits
<1>8. stage[c] = "sent" => frame[c].req \in Requests
  BY Running
<1> QED BY <1>1, <1>2, <1>4, <1>5, <1>6, <1>7, <1>8 DEF Op

LEMMA ServiceTypes ==
  ASSUME TypeOK, CallsRun, NEW c \in Calls,
         ServiceReports(c) \/ ServiceEnrolls(c) \/ ServiceGrants(c) \/ ServiceRevokes(c)
  PROVE  TypeOK'
<1> USE DEF service, stores, session, history, Answer
<1>1. CASE ServiceReports(c)
  <2>1. Reports(account[wire[c].id]) \in Messages
    BY <1>1, ArrivedIs, RepliesAre DEF ServiceReports, TypeOK
  <2> QED BY <1>1, <2>1 DEF ServiceReports, TypeOK
<1>2. CASE ServiceEnrolls(c)
  <2>1. \A status \in {"active", "inactive"} : Reports(status) \in Messages
    BY RepliesAre DEF Statuses
  <2>2. PICK status \in {"active", "inactive"} :
          /\ account' = [account EXCEPT ![wire[c].id] = status]
          /\ Answer(c, Reports(status))
    BY <1>2 DEF ServiceEnrolls
  <2>3. wire' \in [Calls -> Messages \union {None}]
    BY <2>1, <2>2 DEF TypeOK
  <2>4. account' \in [Ids -> Statuses]
    BY <2>2 DEF TypeOK, Statuses
  <2> QED BY <1>2, <2>3, <2>4 DEF ServiceEnrolls, TypeOK
<1>3. CASE ServiceGrants(c)
  <2> DEFINE i == wire[c].id
             t == wire[c].req.flight[1]
             k == wire[c].req.flight[2]
             x == Recorded(i, k)
  <2>1. i \in Ids /\ wire[c].req.flight \in Flights
    BY <1>3, ArrivedIs, RequestKinds DEF ServiceGrants, Arrived
  <2>2. t \in Types /\ k \in Keys \union {None}
    BY <2>1 DEF Flights
  <2>3. x \in Creds \union {None}
    BY <2>1, <2>2 DEF Recorded, TypeOK
  <2>4. /\ Reply("refusal") \in Messages
        /\ \A y \in Creds : Gives(y) \in Messages
    BY RepliesAre
  <2> HIDE DEF i, t, k, x
  <2>5. CASE x # None /\ Answer(c, IF issued[x].type = t THEN Gives(x) ELSE Reply("refusal"))
               /\ UNCHANGED <<issued, served>>
    BY <1>3, <2>3, <2>4, <2>5 DEF ServiceGrants, TypeOK
  <2>6. CASE Answer(c, Reply("refusal")) /\ UNCHANGED <<issued, served>>
    BY <1>3, <2>4, <2>6 DEF ServiceGrants, TypeOK
  <2>7. ASSUME NEW new \in Creds, issued' = [issued EXCEPT ![new] = [id |-> i, type |-> t, live |-> TRUE]],
               served' = [ik \in Ids \X Keys |-> IF ik = <<i, k>> THEN new ELSE served[ik]],
               Answer(c, Gives(new))
        PROVE  TypeOK'
    <3>1. [id |-> i, type |-> t, live |-> TRUE] \in Credentials
      BY <2>1, <2>2 DEF Credentials, i
    <3>2. issued' \in [Creds -> Credentials \union {None}]
      BY <2>7, <3>1 DEF TypeOK
    <3>3. served' \in [Ids \X Keys -> Creds \union {None}]
      BY <2>7 DEF TypeOK
    <3>4. wire' \in [Calls -> Messages \union {None}]
      BY <2>7, <2>4 DEF TypeOK
    <3> QED BY <1>3, <3>2, <3>3, <3>4 DEF ServiceGrants, TypeOK
  <2> QED BY <1>3, <2>5, <2>6, <2>7 DEF ServiceGrants, i, t, k, x
<1>4. CASE ServiceRevokes(c)
  <2> DEFINE gone == {x \in Creds : /\ issued[x] # None /\ issued[x].live /\ issued[x].id = wire[c].id
                                    /\ wire[c].req.type \in {issued[x].type, None}
                                    /\ wire[c].req.cred \in {x, None}}
             old == {x \in Creds : issued[x] # None}
  <2>1. /\ issued' = [x \in Creds |-> IF x \in gone THEN [issued[x] EXCEPT !.live = FALSE] ELSE issued[x]]
        /\ frame' = IF stage[c] = "done" THEN frame
                    ELSE [frame EXCEPT ![c].covered = gone, ![c].before = old]
    BY <1>4 DEF ServiceRevokes
  <2>2. gone \in SUBSET Creds /\ old \in SUBSET Creds /\ \A x \in gone : issued[x] # None
    OBVIOUS
  <2> HIDE DEF gone, old
  <2>3. issued' \in [Creds -> Credentials \union {None}]
    <3>1. ASSUME NEW x \in gone PROVE [issued[x] EXCEPT !.live = FALSE] \in Credentials
      <4>1. issued[x] \in Credentials
        BY <2>2, <3>1 DEF TypeOK
      <4> QED BY <4>1 DEF Credentials
    <3> QED BY <2>1, <3>1 DEF TypeOK
  <2>4. stage[c] # "done" => [frame[c] EXCEPT !.covered = gone, !.before = old] \in Frames
    <3>1. stage[c] # "done" => frame[c] \in Frames
      BY <1>4, ArrivedIs, Running DEF ServiceRevokes
    <3> QED BY <2>2, <3>1 DEF Frames
  <2>5. stage[c] # "done" => frame' = [frame EXCEPT ![c] = [frame[c] EXCEPT !.covered = gone, !.before = old]]
    BY <2>1 DEF TypeOK
  <2>6. frame' \in [Calls -> Frames \union {None}]
        /\ \A d \in Calls : frame'[d] = None <=> frame[d] = None
    <3>1. CASE stage[c] = "done"
      BY <2>1, <3>1 DEF TypeOK
    <3>2. CASE stage[c] # "done"
      <4>1. frame[c] # None /\ [frame[c] EXCEPT !.covered = gone, !.before = old] # None
        BY <1>4, <2>4, <3>2, ArrivedIs, Running, NoneAssumption DEF ServiceRevokes
      <4> QED BY <2>4, <2>5, <3>2, <4>1 DEF TypeOK
    <3> QED BY <3>1, <3>2
  <2>7. wire' \in [Calls -> Messages \union {None}]
    BY <1>4, RepliesAre DEF ServiceRevokes, TypeOK
  <2> QED BY <1>4, <2>3, <2>6, <2>7 DEF ServiceRevokes, TypeOK
<1> QED BY <1>1, <1>2, <1>3, <1>4

-----------------------------------------------------------------------------
(* What was issued stays so, and what was revoked does not work again.     *)
Grows ==
  \A x \in Creds : issued[x] # None =>
    /\ issued'[x] # None /\ issued'[x].id = issued[x].id /\ issued'[x].type = issued[x].type
    /\ issued'[x].live => issued[x].live

LEMMA SameKeeps ==
  ASSUME TypeOK, Grows, NEW d \in Calls, CallOf(d), Same(d)
  PROVE  CallOf(d)'
<1> USE DEF Same, CallOf
<1>1. CourseOf(d)'
  BY DEF CourseOf, Op
<1>2. WireFits(d)'
  <2>1. wire[d] # None /\ wire[d].is = "credential" => wire[d].cred \in Creds
    BY MessageKinds DEF TypeOK
  <2> QED BY <2>1 DEF WireFits, SignedFor, Op, Grows
<1>3. RevokingOf(d)'
  <2> SUFFICES ASSUME stage[d] \in {"sent", "deleting"}, Op(d) = "revoke" PROVE RevokingOf(d)'
    BY DEF RevokingOf, Op
  <2>1. /\ frame[d].covered \subseteq Creds /\ frame[d].before \subseteq Creds
        /\ frame[d].doomed \subseteq Creds
    BY Running DEF Frames
  <2>2. ASSUME NEW x \in Creds, issued[x] # None
        PROVE  /\ issued'[x] # None
               /\ Selects(frame[d].req, x) => Selects(frame[d].req, x)'
               /\ Names(d, x)' => Names(d, x)
               /\ ~issued[x].live => ~issued'[x].live
    BY <2>2 DEF Grows, Selects, Names
  <2> QED BY <2>1, <2>2 DEF RevokingOf, Op
<1> QED BY <1>1, <1>2, <1>3

LEMMA EndedKeeps ==
  ASSUME TypeOK, NEW d \in Calls, CallOf(d), Ended(d)
  PROVE  CallOf(d)'
<1> USE DEF Ended
<1>1. CourseOf(d)' /\ RevokingOf(d)'
  BY DEF CourseOf, RevokingOf, Granting
<1>2. wire'[d] # None =>
        /\ wire[d] # None /\ wire'[d] = wire[d] /\ wire[d].is \in {"enroll", "grant", "revoke"}
  BY DEF Abandoned
<1>3. wire'[d] # None => wire[d].req \in Requests /\ wire[d].req.op = wire[d].is
  <2> SUFFICES ASSUME wire'[d] # None
               PROVE  wire[d].req \in Requests /\ wire[d].req.op = wire[d].is
    OBVIOUS
  <2>1. stage[d] \in {"sent", "done"}
    BY <1>2 DEF CallOf, WireFits, SignedFor, TypeOK, Stages
  <2>2. CASE stage[d] = "sent"
    BY <1>2, <2>2, Running DEF CallOf, WireFits, SignedFor
  <2>3. CASE stage[d] = "done"
    BY <1>2, <2>3 DEF CallOf, WireFits
  <2> QED BY <2>1, <2>2, <2>3
<1> QED BY <1>1, <1>2, <1>3 DEF CallOf, WireFits

LEMMA CallsKeep ==
  ASSUME TypeOK, CallsRun, Grows, NEW c \in Calls, CallOf(c)',
         \A d \in Calls \ {c} : Same(d) \/ Ended(d)
  PROVE  CallsRun'
<1>1. ASSUME NEW d \in Calls \ {c} PROVE CallOf(d)'
  BY SameKeeps, EndedKeeps DEF CallsRun
<1> QED BY <1>1 DEF CallsRun

LEMMA ServiceGrows ==
  ASSUME TypeOK, CallsRun, NEW c \in Calls,
         ServiceReports(c) \/ ServiceEnrolls(c) \/ ServiceGrants(c) \/ ServiceRevokes(c)
  PROVE  Grows
<1>1. CASE ServiceReports(c) \/ ServiceEnrolls(c)
  BY <1>1 DEF ServiceReports, ServiceEnrolls, service, Grows
<1>2. CASE ServiceGrants(c)
  <2>1. issued' = issued \/ \E new \in Creds : issued[new] = None /\ \A x \in Creds \ {new} : issued'[x] = issued[x]
    BY <1>2 DEF ServiceGrants, TypeOK
  <2> QED BY <2>1 DEF Grows
<1>3. CASE ServiceRevokes(c)
  <2>1. ASSUME NEW x \in Creds, issued[x] # None
        PROVE  /\ issued[x] \in Credentials
               /\ issued'[x] = issued[x] \/ issued'[x] = [issued[x] EXCEPT !.live = FALSE]
    BY <1>3, <2>1 DEF ServiceRevokes, TypeOK
  <2>2. ASSUME NEW x \in Creds, issued[x] # None
        PROVE  [issued[x] EXCEPT !.live = FALSE] \in Credentials
    BY <2>1, <2>2 DEF Credentials
  <2> QED BY <2>1, <2>2, NoneAssumption DEF Grows, Credentials
<1> QED BY <1>1, <1>2, <1>3

-----------------------------------------------------------------------------
(* The Service's steps answer with what the request of the call expects.   *)
LEMMA AnswersFit ==
  ASSUME TypeOK, TypeOK', CallsRun, Grows, NEW c \in Calls, NEW reply \in Messages,
         stage[c] \in {"ask", "sent", "done"}, stage' = stage, frame' = frame,
         Answer(c, reply),
         stage[c] = "ask" => reply.is = "report",
         stage[c] = "sent" => \/ reply.is = "report" /\ Op(c) \in {"enroll", "status"}
                              \/ reply.is \in {"credential", "refusal"} /\ Op(c) = "grant",
         reply.is = "credential" => issued'[reply.cred] # None
  PROVE  CallsRun'
<1>1. wire'[c] = IF stage[c] = "done" THEN None ELSE reply
  BY DEF Answer, TypeOK
<1>2. reply # None
  BY NoneAssumption
<1>3. CourseOf(c)'
  BY DEF CallsRun, CallOf, CourseOf, Op
<1>4. WireFits(c)'
  BY <1>1, <1>2 DEF WireFits, Op
<1>5. RevokingOf(c)'
  <2> SUFFICES ASSUME stage[c] = "sent", Op(c) = "revoke" PROVE RevokingOf(c)'
    BY DEF RevokingOf, Op
  <2> QED OBVIOUS
<1>6. \A d \in Calls \ {c} : Same(d)
  BY DEF Answer, TypeOK, Same
<1> QED BY <1>3, <1>4, <1>5, <1>6, CallsKeep DEF CallOf

LEMMA ServiceCalls ==
  ASSUME TypeOK, CallsRun, KeptWereIssued, NEW c \in Calls,
         ServiceReports(c) \/ ServiceEnrolls(c) \/ ServiceGrants(c) \/ ServiceRevokes(c)
  PROVE  CallsRun'
<1>0. TypeOK' /\ Grows
  BY ServiceTypes, ServiceGrows
<1>1. CASE ServiceReports(c)
  <2> DEFINE reply == Reports(account[wire[c].id])
  <2>1. /\ stage[c] \in {"ask", "sent", "done"} /\ wire[c].id \in Ids
        /\ stage[c] = "sent" => Op(c) = "status"
    BY <1>1, ArrivedIs DEF ServiceReports, Arrived
  <2>2. reply \in Messages /\ reply.is = "report"
    BY <2>1, RepliesAre DEF TypeOK
  <2>3. stage' = stage /\ frame' = frame /\ Answer(c, reply)
    BY <1>1 DEF ServiceReports
  <2> HIDE DEF reply
  <2> QED BY <1>0, <2>1, <2>2, <2>3, AnswersFit
<1>2. CASE ServiceEnrolls(c)
  <2>1. /\ stage[c] \in {"sent", "done"} /\ wire[c].id \in Ids
        /\ stage[c] = "sent" => Op(c) = "enroll"
    BY <1>2, ArrivedIs DEF ServiceEnrolls, Arrived
  <2>2. PICK status \in {"active", "inactive"} : Answer(c, Reports(status))
    BY <1>2 DEF ServiceEnrolls
  <2>3. Reports(status) \in Messages /\ Reports(status).is = "report"
    BY RepliesAre DEF Statuses
  <2>4. stage' = stage /\ frame' = frame
    BY <1>2 DEF ServiceEnrolls
  <2> QED BY <1>0, <2>1, <2>2, <2>3, <2>4, AnswersFit
<1>3. CASE ServiceGrants(c)
  <2>1. /\ stage[c] \in {"sent", "done"} /\ wire[c].id \in Ids /\ wire[c].req.flight \in Flights
        /\ stage[c] = "sent" => Op(c) = "grant"
    BY <1>3, ArrivedIs, RequestKinds DEF ServiceGrants, Arrived
  <2>2. stage' = stage /\ frame' = frame
    BY <1>3 DEF ServiceGrants
  <2>3. CASE Answer(c, Reply("refusal"))
    <3>1. Reply("refusal") \in Messages /\ Reply("refusal").is = "refusal"
      BY RepliesAre
    <3> QED BY <1>0, <2>1, <2>2, <2>3, <3>1, AnswersFit
  <2>4. ASSUME NEW x \in Creds, Answer(c, Gives(x)), issued'[x] # None PROVE CallsRun'
    <3>1. Gives(x) \in Messages /\ Gives(x).is = "credential" /\ Gives(x).cred = x
      BY RepliesAre
    <3> QED BY <1>0, <2>1, <2>2, <2>4, <3>1, AnswersFit
  <2> DEFINE x == Recorded(wire[c].id, wire[c].req.flight[2])
  <2>5. CASE x # None /\ Answer(c, IF issued[x].type = wire[c].req.flight[1] THEN Gives(x) ELSE Reply("refusal"))
               /\ UNCHANGED <<issued, served>>
    <3>1. wire[c].req.flight[2] \in Keys
      BY <2>1, <2>5 DEF Recorded, Flights
    <3>2. x \in Creds /\ issued[x] # None
      BY <2>1, <2>5, <3>1 DEF Recorded, TypeOK, KeptWereIssued
    <3> QED BY <2>3, <2>4, <2>5, <3>2
  <2>6. ASSUME NEW new \in Creds,
               issued' = [issued EXCEPT ![new] = [id |-> wire[c].id, type |-> wire[c].req.flight[1], live |-> TRUE]],
               Answer(c, Gives(new))
        PROVE  CallsRun'
    <3>1. [id |-> wire[c].id, type |-> wire[c].req.flight[1], live |-> TRUE] \in Credentials
      BY <2>1 DEF Credentials, Flights
    <3>2. issued'[new] # None
      BY <2>6, <3>1, NoneAssumption DEF TypeOK
    <3> QED BY <2>4, <2>6, <3>2
  <2> QED BY <1>3, <2>3, <2>5, <2>6 DEF ServiceGrants
<1>4. CASE ServiceRevokes(c)
  <2> DEFINE gone == {x \in Creds : /\ issued[x] # None /\ issued[x].live /\ issued[x].id = wire[c].id
                                    /\ wire[c].req.type \in {issued[x].type, None}
                                    /\ wire[c].req.cred \in {x, None}}
             old == {x \in Creds : issued[x] # None}
  <2>1. /\ stage[c] \in {"sent", "done"}
        /\ stage[c] = "sent" => Op(c) = "revoke" /\ wire[c].req = frame[c].req /\ wire[c].id = frame[c].who
    BY <1>4, ArrivedIs DEF ServiceRevokes, Arrived
  <2>2. /\ issued' = [x \in Creds |-> IF x \in gone THEN [issued[x] EXCEPT !.live = FALSE] ELSE issued[x]]
        /\ stage[c] = "done" => frame' = frame
        /\ stage[c] # "done" => frame' = [frame EXCEPT ![c].covered = gone, ![c].before = old]
        /\ stage' = stage
        /\ Answer(c, Reply("revoked"))
    BY <1>4 DEF ServiceRevokes
  <2>3. Reply("revoked") \in Messages /\ Reply("revoked") # None /\ Reply("revoked").is = "revoked"
    BY RepliesAre
  <2>4. \A d \in Calls \ {c} : Same(d)
    <3>1. \A d \in Calls \ {c} : wire'[d] = wire[d]
      BY <2>2 DEF Answer, TypeOK
    <3>2. \A d \in Calls \ {c} : frame'[d] = frame[d]
      BY <2>2 DEF TypeOK
    <3> QED BY <2>2, <3>1, <3>2 DEF Same
  <2>5. wire'[c] = IF stage[c] = "done" THEN None ELSE Reply("revoked")
    BY <2>2 DEF Answer, TypeOK
  <2>6. CASE stage[c] = "done"
    <3>1. CallOf(c)'
      BY <2>2, <2>5, <2>6 DEF CallOf, CourseOf, WireFits, RevokingOf, Granting
    <3> QED BY <1>0, <2>4, <3>1, CallsKeep
  <2>7. CASE stage[c] = "sent"
    <3>1. frame[c] \in Frames /\ frame'[c] = [frame[c] EXCEPT !.covered = gone, !.before = old]
      BY <2>2, <2>7, Running DEF TypeOK
    <3>2. /\ frame'[c].req = frame[c].req /\ frame'[c].who = frame[c].who
          /\ frame'[c].covered = gone /\ frame'[c].before = old
      BY <3>1 DEF Frames
    <3>3. CourseOf(c)'
      BY <2>1, <2>2, <2>7, <3>2 DEF CallsRun, CallOf, CourseOf, Op, Granting
    <3>4. WireFits(c)'
      BY <2>1, <2>2, <2>3, <2>5, <2>7, <3>2 DEF WireFits, Op
    <3>5. \A x \in gone : issued'[x] # None /\ Selects(frame[c].req, x)'
      <4>1. frame[c].req.type \in Types \union {None} /\ frame[c].req.cred \in Creds \union {None}
        BY <2>1, <2>7, Running, RequestKinds DEF Op
      <4>2. \A x \in gone : issued[x] # None /\ issued'[x] # None /\ issued'[x].type = issued[x].type
        BY <1>0 DEF Grows
      <4> QED BY <2>1, <2>7, <3>2, <4>1, <4>2 DEF Selects
    <3>6. \A x \in old : issued'[x] # None /\ (Names(c, x)' => ~issued'[x].live)
      <4> SUFFICES ASSUME NEW x \in old PROVE issued'[x] # None /\ (Names(c, x)' => ~issued'[x].live)
        OBVIOUS
      <4>1. issued[x] \in Credentials /\ issued'[x] # None
        BY <1>0 DEF Grows, TypeOK
      <4>2. Names(c, x)' => Names(c, x)
        BY <1>0, <3>2 DEF Grows, Names
      <4>3. CASE x \in gone
        <5>1. issued'[x] = [issued[x] EXCEPT !.live = FALSE]
          BY <2>2, <4>3
        <5>2. issued'[x].live = FALSE
          BY <4>1, <5>1 DEF Credentials
        <5> QED BY <4>1, <5>2
      <4>4. CASE x \notin gone
        <5>1. issued'[x] = issued[x]
          BY <2>2, <4>4
        <5>2. Names(c, x) => ~issued[x].live
          BY <2>1, <2>7, <4>4 DEF Names
        <5> QED BY <4>1, <4>2, <5>1, <5>2
      <4> QED BY <4>3, <4>4
    <3>7. RevokingOf(c)'
      BY <2>2, <2>7, <3>2, <3>5, <3>6 DEF RevokingOf
    <3> QED BY <1>0, <2>4, <3>3, <3>4, <3>7, CallsKeep DEF CallOf
  <2> QED BY <2>1, <2>6, <2>7
<1> QED BY <1>1, <1>2, <1>3, <1>4

-----------------------------------------------------------------------------
(* The steps of a call: what they do to it, and that the types and what    *)
(* every call has by its stage are kept.                                   *)
Alone(c) == \A d \in Calls \ {c} : Same(d)
Kept == TypeOK /\ CallsRun

LEMMA IssuedStays ==
  ASSUME issued' = issued
  PROVE  Grows
  BY DEF Grows

LEMMA BeginCalls ==
  ASSUME Kept, NEW c \in Calls, NEW req \in Requests, Begin(c, req)
  PROVE  Kept' /\ Alone(c) /\ stage[c] = "idle" /\ stage'[c] = "identify" /\ frame'[c] = Frame(req)
<1> USE DEF Kept
<1>1. req.session \in Sessions /\ Frame(req) \in Frames /\ Frame(req) # None
  BY RequestKinds, FrameIs
<1>2. /\ stage' = [stage EXCEPT ![c] = "identify"]
      /\ frame' = [frame EXCEPT ![c] = Frame(req)]
      /\ wire' = wire
      /\ stage[c] = "idle" /\ req.op \notin {"grant", "forget"}
  BY DEF Begin, Go
<1>3. /\ frame'[c] = Frame(req) /\ frame' = [frame EXCEPT ![c] = frame'[c]]
      /\ frame'[c] \in Frames /\ frame'[c] # None
  BY <1>1, <1>2 DEF TypeOK
<1>4. CallsTyped' /\ stage'[c] = "identify" /\ Alone(c)
  <2>1. "identify" \in Stages
    BY DEF Stages
  <2> QED BY <1>2, <1>3, <2>1, MovesOn DEF Alone
<1>5. promise' \in [Sessions -> Promises]
  BY <1>1 DEF Begin, Demand, TypeOK, Promises
<1>6. TypeOK'
  BY <1>4, <1>5 DEF Begin, service, stores, history, TypeOK, CallsTyped
<1>7. CallOf(c)'
  <2>1. CourseOf(c)'
    BY <1>2, <1>3, <1>4, FrameIs, RequestKinds DEF CourseOf, Op, Granting
  <2>2. WireFits(c)'
    BY <1>2, <1>4 DEF CallsRun, CallOf, WireFits
  <2> QED BY <1>4, <2>1, <2>2 DEF CallOf, RevokingOf
<1>8. CallsRun'
  BY <1>4, <1>7, IssuedStays, CallsKeep DEF Begin, service, Alone
<1> QED BY <1>2, <1>3, <1>4, <1>6, <1>8

LEMMA IdentifiedCalls ==
  ASSUME Kept, OneIdentity, NEW c \in Calls, Identified(c)
  PROVE  /\ Kept' /\ Alone(c) /\ stage[c] = "identify"
         /\ \/ Ended(c)
            \/ /\ stage'[c] = "sent" /\ Op(c) # "grant"
               /\ frame'[c] = [frame[c] EXCEPT !.who = promise[frame[c].req.session].id]
<1> USE DEF Kept
<1> DEFINE req == frame[c].req
           i == promise[req.session].id
<1>1. /\ stage[c] = "identify"
      /\ frame[c] \in Frames /\ req \in Requests /\ req.session \in Sessions
  BY Running, RequestKinds DEF Identified
<1>2. UNCHANGED <<service, hosted, stores, session, history>>
  BY DEF Identified
<1>3. CASE Ends({c})
  <2>1. Ended(c) /\ Alone(c) /\ CallsTyped'
    BY <1>3, EndsOf DEF Alone
  <2>2. TypeOK'
    BY <1>2, <2>1 DEF service, stores, session, history, TypeOK, CallsTyped
  <2>3. CallsRun'
    BY <1>2, <2>1, EndedKeeps, IssuedStays, CallsKeep DEF service, Alone, CallsRun
  <2> QED BY <1>1, <2>1, <2>2, <2>3
<1>4. CASE /\ promise[req.session].state = "resolved" /\ req.op # "identity"
           /\ frame' = [frame EXCEPT ![c].who = i]
           /\ Go(c, "sent") /\ Send(c, req, i)
  <2>1. i \in Ids /\ i # None
    BY <1>1, <1>4 DEF OneIdentity, Known, TypeOK
  <2>2. req.op \in {"enroll", "status", "revoke"}
    BY <1>1, <1>4 DEF CallsRun, CallOf, CourseOf, Op
  <2>3. /\ Signed(req, i) \in Messages /\ Signed(req, i) # None
        /\ Signed(req, i).is = req.op /\ Signed(req, i).req = req /\ Signed(req, i).id = i
    BY <1>1, <2>1, <2>2, SignedIs
  <2>4. /\ stage' = [stage EXCEPT ![c] = "sent"]
        /\ frame'[c] = [frame[c] EXCEPT !.who = i] /\ frame' = [frame EXCEPT ![c] = frame'[c]]
        /\ wire'[c] = Signed(req, i) /\ wire' = [wire EXCEPT ![c] = wire'[c]]
    BY <1>4 DEF Go, Send, TypeOK
  <2>5. /\ frame'[c] \in Frames /\ frame'[c] # None
        /\ frame'[c].req = req /\ frame'[c].who = i /\ frame'[c].covered = frame[c].covered
        /\ frame'[c].before = frame[c].before
    BY <1>1, <2>1, <2>4, NoneAssumption DEF Frames
  <2>6. CallsTyped' /\ stage'[c] = "sent" /\ Alone(c)
    <3>1. "sent" \in Stages /\ "sent" \notin {"idle", "done"}
      BY DEF Stages
    <3> QED BY <2>3, <2>4, <2>5, <3>1, MovesOn DEF Alone
  <2>7. TypeOK'
    BY <1>2, <2>6 DEF service, stores, session, history, TypeOK, CallsTyped
  <2>8. CallOf(c)'
    <3>1. CourseOf(c)'
      BY <2>1, <2>2, <2>5, <2>6 DEF CourseOf, Op, Granting
    <3>2. WireFits(c)'
      BY <2>2, <2>3, <2>4, <2>5, <2>6 DEF WireFits, SignedFor, Op
    <3>3. RevokingOf(c)'
      BY <1>1, <2>5, <2>6 DEF RevokingOf, CallsRun, CallOf, CourseOf
    <3> QED BY <3>1, <3>2, <3>3 DEF CallOf
  <2>9. CallsRun'
    BY <1>2, <2>6, <2>8, IssuedStays, CallsKeep DEF service, Alone
  <2> QED BY <1>1, <2>2, <2>4, <2>6, <2>7, <2>9 DEF Op
<1> QED BY <1>3, <1>4 DEF Identified

LEMMA EndsCalls ==
  ASSUME Kept, NEW ended \in SUBSET Calls, Ends(ended), issued' = issued
  PROVE  CallsRun'
<1> USE DEF Kept
<1>1. \A d \in Calls : Same(d) \/ Ended(d)
  BY EndsOf
<1>2. \A d \in Calls : CallOf(d)'
  BY <1>1, IssuedStays, SameKeeps, EndedKeeps DEF CallsRun
<1> QED BY <1>2 DEF CallsRun

LEMMA SettleCalls ==
  ASSUME Kept, NEW c \in Calls, Settle(c), issued' = issued
  PROVE  CallsRun'
<1> DEFINE ended == {c} \union Joined(frame[c].req.flight)
<1>1. ended \in SUBSET Calls /\ Ends(ended)
  BY DEF Settle, Joined
<1> QED BY <1>1, EndsCalls

LEMMA BelieveOf ==
  ASSUME Kept, BeliefsHaveEvidence, NEW c \in Calls,
         stage[c] = "ask" \/ (stage[c] = "sent" /\ Op(c) \in {"enroll", "status"}),
         Answered(c), Believe(c)
  PROVE  /\ frame[c] \in Frames /\ frame[c].req \in Requests /\ frame[c].req.session \in Sessions
         /\ frame[c].who \in Ids /\ frame[c].who # None
         /\ active' \in [Sessions -> BOOLEAN]
         /\ evidence' \in [Sessions -> Ids \union {None}]
         /\ evidence'[frame[c].req.session] = IF ActiveIn(wire[c]) THEN frame[c].who ELSE None
         /\ \A s \in Sessions : evidence'[s] \in {evidence[s], frame[c].who, None}
         /\ BeliefsHaveEvidence'
<1> USE DEF Kept
<1>1. /\ frame[c] \in Frames /\ frame[c].req \in Requests /\ frame[c].req.session \in Sessions
  BY Running, RequestKinds
<1>2. frame[c].who \in Ids /\ frame[c].who # None
  BY <1>1 DEF CallsRun, CallOf, CourseOf, Frames
<1>3. wire[c].is = "report"
  <2>1. WireFits(c) /\ wire[c].is \in Answers
    BY DEF CallsRun, CallOf, Answered
  <2> QED BY <2>1 DEF WireFits, SignedFor, Answers, Op
<1>4. ActiveIn(wire[c]) \in BOOLEAN
  BY DEF ActiveIn
<1>5. /\ active' = [active EXCEPT ![frame[c].req.session] = ActiveIn(wire[c])]
      /\ evidence' = [evidence EXCEPT ![frame[c].req.session] =
                        IF ActiveIn(wire[c]) THEN frame[c].who ELSE None]
  BY DEF Believe, ActiveIn
<1>6. active' \in [Sessions -> BOOLEAN]
  BY <1>1, <1>4, <1>5 DEF TypeOK
<1>7. evidence' \in [Sessions -> Ids \union {None}]
  BY <1>1, <1>2, <1>5 DEF TypeOK
<1>8. evidence'[frame[c].req.session] = IF ActiveIn(wire[c]) THEN frame[c].who ELSE None
  BY <1>1, <1>5 DEF TypeOK
<1>9. \A s \in Sessions : evidence'[s] \in {evidence[s], frame[c].who, None}
  BY <1>5 DEF TypeOK
<1>10. active'[frame[c].req.session] = ActiveIn(wire[c])
  BY <1>1, <1>5 DEF TypeOK
<1>11. \A s \in Sessions \ {frame[c].req.session} : active'[s] = active[s] /\ evidence'[s] = evidence[s]
  BY <1>5 DEF TypeOK
<1>12. BeliefsHaveEvidence'
  BY <1>2, <1>8, <1>10, <1>11 DEF BeliefsHaveEvidence
<1> QED BY <1>1, <1>2, <1>6, <1>7, <1>8, <1>9, <1>12

LEMMA TakeStatusCalls ==
  ASSUME Kept, BeliefsHaveEvidence, NEW c \in Calls, TakeStatus(c)
  PROVE  Kept' /\ Alone(c) /\ Ended(c) /\ stage[c] = "sent" /\ Op(c) \in {"enroll", "status"}
<1> USE DEF Kept
<1>1. stage[c] = "sent" /\ Op(c) \in {"enroll", "status"} /\ Answered(c) /\ Believe(c) /\ Ends({c})
  BY DEF TakeStatus, At, Op
<1>2. Ended(c) /\ Alone(c) /\ CallsTyped'
  BY <1>1, EndsOf DEF Alone
<1>3. active' \in [Sessions -> BOOLEAN] /\ evidence' \in [Sessions -> Ids \union {None}]
  BY <1>1, BelieveOf
<1>4. TypeOK'
  BY <1>2, <1>3 DEF TakeStatus, service, stores, TypeOK, CallsTyped
<1>5. CallsRun'
  BY <1>1, EndsCalls DEF TakeStatus, service
<1> QED BY <1>1, <1>2, <1>4, <1>5

LEMMA JoinCalls ==
  ASSUME Kept, NEW c \in Calls, NEW req \in Requests, GrantJoin(c, req)
  PROVE  /\ Kept' /\ Alone(c) /\ stage[c] = "idle" /\ frame'[c] = Frame(req) /\ req.op = "grant"
         /\ req.flight \in Flights
         /\ \/ stage'[c] = "joined" /\ flight[req.flight] # None /\ flight' = flight
            \/ stage'[c] = "find" /\ flight[req.flight] = None
               /\ flight' = [flight EXCEPT ![req.flight] = c]
<1> USE DEF Kept
<1>1. req.flight \in Flights /\ Frame(req) \in Frames /\ Frame(req) # None /\ Frame(req).req = req
  BY RequestKinds, FrameIs DEF GrantJoin
<1>2. PICK s \in {"joined", "find"} : stage' = [stage EXCEPT ![c] = s]
  BY DEF GrantJoin, Go
<1>3. /\ frame'[c] = Frame(req) /\ frame' = [frame EXCEPT ![c] = frame'[c]]
      /\ frame'[c] \in Frames /\ frame'[c] # None
  BY <1>1 DEF GrantJoin, TypeOK
<1>4. CallsTyped' /\ stage'[c] = s /\ Alone(c)
  <2>1. s \in Stages
    BY DEF Stages
  <2>2. wire' = wire
    BY DEF GrantJoin
  <2> QED BY <1>2, <1>3, <2>1, <2>2, MovesOn DEF Alone
<1>5. stage[c] = "idle" /\ req.op = "grant"
  BY DEF GrantJoin
<1>6. \/ stage'[c] = "joined" /\ flight[req.flight] # None /\ flight' = flight
      \/ stage'[c] = "find" /\ flight[req.flight] = None
         /\ flight' = [flight EXCEPT ![req.flight] = c]
  BY DEF GrantJoin, Go, TypeOK
<1>7. flight' \in [Flights -> Calls \union {None}]
  BY <1>6 DEF TypeOK
<1>8. TypeOK'
  BY <1>4, <1>7 DEF GrantJoin, service, session, history, TypeOK, CallsTyped
<1>9. CallOf(c)'
  <2>1. CourseOf(c)'
    BY <1>1, <1>3, <1>4, <1>5, FrameIs DEF CourseOf, Op, Granting
  <2>2. WireFits(c)'
    BY <1>4, <1>5 DEF CallsRun, CallOf, WireFits, GrantJoin
  <2> QED BY <1>4, <2>1, <2>2 DEF CallOf, RevokingOf
<1>10. CallsRun'
  BY <1>4, <1>9, IssuedStays, CallsKeep DEF GrantJoin, service, Alone
<1> QED BY <1>1, <1>3, <1>4, <1>5, <1>6, <1>8, <1>10

-----------------------------------------------------------------------------
(* The leader of a flight goes on, or settles it.                          *)
Proceeds(c) ==
  /\ Leads(c) /\ Leads(c)' /\ Alone(c) /\ flight' = flight
  /\ frame'[c].req = frame[c].req
LeadSteps(c) == Leads(c) /\ (Proceeds(c) \/ Settle(c))
LeadStages == {"find", "seek", "recover", "ask", "sent", "saving"}

LEMMA Leading ==
  ASSUME Kept, NEW c \in Calls, Leads(c)
  PROVE  /\ stage[c] \in LeadStages /\ Op(c) = "grant"
         /\ frame[c] \in Frames /\ frame[c] # None /\ frame[c].req \in Requests
         /\ frame[c].req.flight \in Flights /\ frame[c].req.session \in Sessions
<1>1. stage[c] \in LeadStages /\ Op(c) = "grant"
  BY DEF Kept, CallsRun, CallOf, CourseOf, Leads, Op, Granting, LeadStages
<1> QED BY <1>1, Running, RequestKinds DEF Kept, LeadStages

(* A leader that asks the Service has a signed request on the wire.        *)
Sends(c, s, req, i, g) ==
  /\ s = "ask" => req = [op |-> "status"]
  /\ s = "sent" => req = frame[c].req /\ g # None
  /\ stage' = [stage EXCEPT ![c] = s]
  /\ frame' = [frame EXCEPT ![c] = frame'[c]]
  /\ frame'[c] = [frame[c] EXCEPT !.who = i, !.rests = g]
  /\ Send(c, req, i)
LEMMA SendsOn ==
  ASSUME Kept, issued' = issued, NEW c \in Calls, Leads(c), NEW s \in {"ask", "sent"}, NEW req,
         NEW i \in Ids, NEW g \in Ids \union {None}, Sends(c, s, req, i, g)
  PROVE  /\ CallsTyped' /\ CallsRun' /\ Alone(c) /\ stage'[c] = s /\ Leads(c)'
         /\ frame'[c] # None /\ frame'[c].req = frame[c].req /\ frame'[c].who = i /\ frame'[c].rests = g
<1> USE DEF Kept, Sends
<1>1. Op(c) = "grant" /\ frame[c] \in Frames /\ frame[c].req \in Requests
  BY Leading
<1>2. req \in Requests \union [op : {"status"}] /\ req.op \in {"grant", "status"}
  BY <1>1 DEF Op
<1>3. i # None /\ s \in Stages /\ s \notin {"idle", "done"}
  BY NoneAssumption DEF Stages
<1>4. /\ Signed(req, i) \in Messages /\ Signed(req, i) # None
      /\ Signed(req, i).is = req.op /\ Signed(req, i).req = req /\ Signed(req, i).id = i
  BY <1>2, SignedIs
<1>5. /\ frame'[c] \in Frames /\ frame'[c] # None
      /\ frame'[c].req = frame[c].req /\ frame'[c].who = i /\ frame'[c].rests = g
  <2>1. [frame[c] EXCEPT !.who = i, !.rests = g] \in Frames
    BY <1>1 DEF Frames
  <2>2. frame'[c] \in Frames /\ frame'[c] # None
    BY <2>1, NoneAssumption
  <2> QED BY <1>1, <2>2 DEF Frames
<1>6. wire'[c] = Signed(req, i) /\ wire' = [wire EXCEPT ![c] = wire'[c]]
  BY DEF Send, TypeOK
<1>7. CallsTyped' /\ stage'[c] = s /\ Alone(c)
  BY <1>3, <1>4, <1>5, <1>6, MovesOn DEF Alone
<1>8. CallOf(c)'
  <2>1. CourseOf(c)'
    BY <1>1, <1>3, <1>5, <1>7 DEF CourseOf, Op, Granting
  <2>2. WireFits(c)'
    BY <1>1, <1>4, <1>5, <1>6, <1>7 DEF WireFits, SignedFor, Op
  <2>3. RevokingOf(c)'
    BY <1>1, <1>5 DEF RevokingOf, Op
  <2> QED BY <2>1, <2>2, <2>3 DEF CallOf
<1>9. CallsRun'
  BY <1>7, <1>8, IssuedStays, CallsKeep DEF Alone
<1>10. Leads(c)'
  BY <1>1, <1>5, <1>7 DEF Leads, Op
<1> QED BY <1>5, <1>7, <1>9, <1>10

LEMMA AskCalls ==
  ASSUME Kept, BeliefsHaveEvidence, issued' = issued, NEW c \in Calls,
         stage[c] \in {"find", "recover"}, NEW i \in Ids, GrantAsk(c, i)
  PROVE  /\ CallsTyped' /\ CallsRun' /\ Alone(c) /\ Leads(c)'
         /\ frame'[c] # None /\ frame'[c].req = frame[c].req /\ frame'[c].who = i
         /\ frame'[c].rests \in {frame[c].rests, evidence[frame[c].req.session]}
<1> DEFINE e == evidence[frame[c].req.session]
<1>1. Leads(c)
  BY DEF Leads
<1>2. /\ frame[c] \in Frames /\ frame[c].req.session \in Sessions
      /\ frame[c].rests \in Ids \union {None}
  BY <1>1, Leading DEF Frames
<1>3. e \in Ids \union {None} /\ (active[frame[c].req.session] => e # None)
  BY <1>2 DEF Kept, TypeOK, BeliefsHaveEvidence
<1> HIDE DEF e
<1>4. CASE /\ active[frame[c].req.session]
           /\ Go(c, "sent") /\ Send(c, frame[c].req, i)
           /\ frame' = [frame EXCEPT ![c].who = i, ![c].rests = e]
  <2>1. /\ frame'[c] = [frame[c] EXCEPT !.who = i, !.rests = e]
        /\ frame' = [frame EXCEPT ![c] = frame'[c]]
        /\ stage' = [stage EXCEPT ![c] = "sent"]
    BY <1>4 DEF Kept, TypeOK, Go
  <2>2. Sends(c, "sent", frame[c].req, i, e)
    BY <1>3, <1>4, <2>1 DEF Sends
  <2>3. /\ CallsTyped' /\ CallsRun' /\ Alone(c) /\ Leads(c)'
        /\ frame'[c] # None /\ frame'[c].req = frame[c].req /\ frame'[c].who = i /\ frame'[c].rests = e
    BY <1>1, <1>3, <2>2, SendsOn
  <2> QED BY <2>3 DEF e
<1>5. CASE /\ Go(c, "ask") /\ Send(c, [op |-> "status"], i)
           /\ frame' = [frame EXCEPT ![c].who = i]
  <2>1. /\ frame'[c] = [frame[c] EXCEPT !.who = i]
        /\ frame' = [frame EXCEPT ![c] = frame'[c]]
        /\ stage' = [stage EXCEPT ![c] = "ask"]
    BY <1>5 DEF Kept, TypeOK, Go
  <2>2. frame'[c] = [frame[c] EXCEPT !.who = i, !.rests = frame[c].rests]
    BY <1>2, <2>1 DEF Frames
  <2>3. Sends(c, "ask", [op |-> "status"], i, frame[c].rests)
    BY <1>5, <2>1, <2>2 DEF Sends
  <2>4. /\ CallsTyped' /\ CallsRun' /\ Alone(c) /\ Leads(c)'
        /\ frame'[c] # None /\ frame'[c].req = frame[c].req /\ frame'[c].who = i
        /\ frame'[c].rests = frame[c].rests
    BY <1>1, <1>2, <2>3, SendsOn
  <2> QED BY <2>4
<1> QED BY <1>4, <1>5 DEF GrantAsk, e

Core == Kept /\ BeliefsHaveEvidence /\ OneIdentity
Founded(c) == frame'[c] # None => frame'[c].who \in Known /\ frame'[c].rests \in Known

LEMMA LeaderKnows ==
  ASSUME Core, NEW c \in Calls, Leads(c)
  PROVE  /\ stored \in Ids \union {None} /\ hosted \subseteq Ids
         /\ stored \in Known /\ evidence[frame[c].req.session] \in Known
         /\ frame[c].who \in Known /\ frame[c].rests \in Known
         /\ frame[c].who \in Ids \union {None}
  BY Leading DEF Core, OneIdentity, Kept, TypeOK, Frames

LEMMA SettleSteps ==
  ASSUME Kept, NEW c \in Calls, Leads(c), Settle(c), issued' = issued
  PROVE  /\ CallsTyped' /\ CallsRun' /\ LeadSteps(c) /\ Founded(c) /\ Ended(c)
         /\ flight' \in [Flights -> Calls \union {None}]
<1>1. stage[c] \notin {"idle", "done"} /\ Op(c) = "grant"
  BY Leading DEF LeadStages
<1>2. CallsTyped' /\ Ended(c) /\ flight' \in [Flights -> Calls \union {None}]
  BY <1>1, SettleOf DEF Kept
<1> QED BY <1>2, SettleCalls DEF LeadSteps, Founded, Ended

LEMMA FindCalls ==
  ASSUME Core, NEW c \in Calls, GrantFind(c)
  PROVE  Kept' /\ Proceeds(c) /\ Founded(c)
<1> USE DEF Core, Kept
<1>1. Leads(c) /\ stage[c] = "find" /\ issued' = issued /\ flight' = flight
  BY DEF GrantFind, Leads, service, stores
<1> SUFFICES CallsTyped' /\ CallsRun' /\ Proceeds(c) /\ Founded(c)
  BY <1>1 DEF GrantFind, service, stores, session, history, TypeOK, CallsTyped
<1>2. CASE stored # None
  <2>1. stored \in Ids /\ GrantAsk(c, stored)
    BY <1>1, <1>2, LeaderKnows DEF GrantFind
  <2>2. /\ CallsTyped' /\ CallsRun' /\ Alone(c) /\ Leads(c)'
        /\ frame'[c].req = frame[c].req /\ frame'[c].who = stored
        /\ frame'[c].rests \in {frame[c].rests, evidence[frame[c].req.session]}
    BY <1>1, <2>1, AskCalls
  <2>3. Founded(c)
    BY <1>1, <2>2, LeaderKnows DEF Founded
  <2> QED BY <1>1, <2>2, <2>3 DEF Proceeds
<1>3. CASE stored = None
  <2>1. /\ stage' = [stage EXCEPT ![c] = "seek"] /\ frame' = frame /\ wire' = wire
        /\ frame[c] \in Frames /\ frame[c] # None /\ Op(c) = "grant"
    BY <1>1, <1>3, Leading DEF GrantFind, Go
  <2>2. CallsTyped' /\ stage'[c] = "seek" /\ Alone(c)
    <3>1. "seek" \in Stages
      BY DEF Stages
    <3>2. frame' = [frame EXCEPT ![c] = frame'[c]]
      BY <2>1 DEF TypeOK
    <3> QED BY <2>1, <3>1, <3>2, MovesOn DEF Alone
  <2>3. CallOf(c)'
    <3>1. CourseOf(c)'
      BY <2>1, <2>2 DEF CourseOf, Op, Granting
    <3>2. WireFits(c)'
      BY <1>1, <2>1, <2>2 DEF CallsRun, CallOf, WireFits
    <3> QED BY <2>2, <3>1, <3>2 DEF CallOf, RevokingOf
  <2>4. CallsRun'
    BY <1>1, <2>2, <2>3, IssuedStays, CallsKeep DEF Alone
  <2>5. Leads(c)' /\ Founded(c)
    BY <1>1, <2>1, <2>2, LeaderKnows DEF Leads, Founded
  <2> QED BY <1>1, <2>1, <2>2, <2>4, <2>5 DEF Proceeds
<1> QED BY <1>2, <1>3

LEMMA SeekCalls ==
  ASSUME Core, NEW c \in Calls, GrantSeek(c)
  PROVE  Kept' /\ LeadSteps(c) /\ Founded(c)
<1> USE DEF Core, Kept
<1>1. Leads(c) /\ stage[c] = "seek" /\ issued' = issued
  BY DEF GrantSeek, Leads, service
<1> SUFFICES /\ CallsTyped' /\ CallsRun' /\ LeadSteps(c) /\ Founded(c)
             /\ flight' \in [Flights -> Calls \union {None}]
  BY DEF GrantSeek, service, session, history, TypeOK, CallsTyped
<1>2. CASE /\ \E i \in hosted : frame' = [frame EXCEPT ![c].who = i]
           /\ Go(c, "recover") /\ UNCHANGED <<flight, wire>>
  <2>1. PICK i \in hosted : frame' = [frame EXCEPT ![c].who = i]
    BY <1>2
  <2>2. /\ frame[c] \in Frames /\ frame[c] # None /\ Op(c) = "grant" /\ i \in Ids
        /\ stage' = [stage EXCEPT ![c] = "recover"] /\ wire' = wire /\ flight' = flight
    BY <1>1, <1>2, Leading, LeaderKnows DEF Go
  <2>3. frame'[c] = [frame[c] EXCEPT !.who = i] /\ frame' = [frame EXCEPT ![c] = frame'[c]]
    BY <2>1 DEF TypeOK
  <2>4. frame'[c] \in Frames /\ frame'[c] # None
    <3>1. [frame[c] EXCEPT !.who = i] \in Frames
      BY <2>2 DEF Frames
    <3> QED BY <2>3, <3>1, NoneAssumption
  <2>5. frame'[c].req = frame[c].req /\ frame'[c].who = i /\ frame'[c].rests = frame[c].rests
    BY <2>2, <2>3 DEF Frames
  <2>6. CallsTyped' /\ stage'[c] = "recover" /\ Alone(c)
    <3>1. "recover" \in Stages
      BY DEF Stages
    <3> QED BY <2>2, <2>3, <2>4, <3>1, MovesOn DEF Alone
  <2>7. CallOf(c)'
    <3>1. CourseOf(c)'
      BY <2>2, <2>5, <2>6, NoneAssumption DEF CourseOf, Op, Granting
    <3>2. WireFits(c)'
      BY <1>1, <2>2, <2>6 DEF CallsRun, CallOf, WireFits
    <3> QED BY <2>6, <3>1, <3>2 DEF CallOf, RevokingOf
  <2>8. CallsRun'
    BY <1>1, <2>6, <2>7, IssuedStays, CallsKeep DEF Alone
  <2>9. Leads(c)' /\ Founded(c)
    BY <1>1, <2>5, <2>6, LeaderKnows DEF Leads, Founded, Known
  <2> QED BY <1>1, <2>2, <2>5, <2>6, <2>8, <2>9 DEF LeadSteps, Proceeds, TypeOK
<1>3. CASE Settle(c)
  BY <1>1, <1>3, SettleSteps
<1> QED BY <1>2, <1>3 DEF GrantSeek

LEMMA RecoverCalls ==
  ASSUME Core, NEW c \in Calls, GrantRecover(c)
  PROVE  Kept' /\ Proceeds(c) /\ Founded(c) /\ stored' = frame[c].who
<1> USE DEF Core, Kept
<1>1. Leads(c) /\ stage[c] = "recover" /\ issued' = issued /\ flight' = flight
  BY DEF GrantRecover, Leads, service
<1>2. frame[c].who \in Ids
  BY <1>1, LeaderKnows DEF CallsRun, CallOf, CourseOf
<1>3. /\ CallsTyped' /\ CallsRun' /\ Alone(c) /\ Leads(c)'
      /\ frame'[c].req = frame[c].req /\ frame'[c].who = frame[c].who
      /\ frame'[c].rests \in {frame[c].rests, evidence[frame[c].req.session]}
  BY <1>1, <1>2, AskCalls DEF GrantRecover
<1>4. Founded(c)
  BY <1>1, <1>3, LeaderKnows DEF Founded
<1>5. TypeOK'
  BY <1>2, <1>3 DEF GrantRecover, service, session, history, TypeOK, CallsTyped
<1> QED BY <1>1, <1>3, <1>4, <1>5 DEF Proceeds, GrantRecover

LEMMA CheckedCalls ==
  ASSUME Core, NEW c \in Calls, GrantChecked(c)
  PROVE  Kept' /\ LeadSteps(c) /\ Founded(c)
<1> USE DEF Core, Kept
<1>1. Leads(c) /\ stage[c] = "ask" /\ issued' = issued
  BY DEF GrantChecked, Leads, service
<1>2. /\ active' \in [Sessions -> BOOLEAN] /\ evidence' \in [Sessions -> Ids \union {None}]
      /\ frame[c].who \in Ids /\ frame[c].who # None
      /\ evidence'[frame[c].req.session] = IF ActiveIn(wire[c]) THEN frame[c].who ELSE None
  BY <1>1, BelieveOf DEF GrantChecked
<1> SUFFICES /\ CallsTyped' /\ CallsRun' /\ LeadSteps(c) /\ Founded(c)
             /\ flight' \in [Flights -> Calls \union {None}]
  BY <1>2 DEF GrantChecked, service, TypeOK, CallsTyped
<1>3. CASE ActiveIn(wire[c])
  <2>1. /\ stage' = [stage EXCEPT ![c] = "sent"] /\ flight' = flight
        /\ Send(c, frame[c].req, frame[c].who)
        /\ frame' = [frame EXCEPT ![c].rests = frame[c].who]
    BY <1>2, <1>3 DEF GrantChecked, Go
  <2>2. frame[c] \in Frames
    BY <1>1, Leading
  <2>3. /\ frame'[c] = [frame[c] EXCEPT !.who = frame[c].who, !.rests = frame[c].who]
        /\ frame' = [frame EXCEPT ![c] = frame'[c]]
    <3>1. frame'[c] = [frame[c] EXCEPT !.rests = frame[c].who] /\ frame' = [frame EXCEPT ![c] = frame'[c]]
      BY <2>1 DEF TypeOK
    <3> QED BY <2>2, <3>1 DEF Frames
  <2>4. Sends(c, "sent", frame[c].req, frame[c].who, frame[c].who)
    BY <1>2, <2>1, <2>3 DEF Sends
  <2>5. /\ CallsTyped' /\ CallsRun' /\ Alone(c) /\ Leads(c)'
        /\ frame'[c].req = frame[c].req /\ frame'[c].who = frame[c].who /\ frame'[c].rests = frame[c].who
    BY <1>1, <1>2, <2>4, SendsOn
  <2>6. Founded(c)
    BY <1>1, <2>5, LeaderKnows DEF Founded
  <2> QED BY <1>1, <2>1, <2>5, <2>6 DEF LeadSteps, Proceeds, TypeOK
<1>4. CASE Settle(c)
  BY <1>1, <1>4, SettleSteps
<1> QED BY <1>3, <1>4 DEF GrantChecked

LEMMA TakeCalls ==
  ASSUME Core, NEW c \in Calls, GrantTake(c)
  PROVE  Kept' /\ LeadSteps(c) /\ Founded(c)
<1> USE DEF Core, Kept
<1>1. Leads(c) /\ stage[c] = "sent" /\ Op(c) = "grant" /\ issued' = issued /\ Answered(c)
  BY DEF GrantTake, At, Leads, service, Op
<1> SUFFICES /\ CallsTyped' /\ CallsRun' /\ LeadSteps(c) /\ Founded(c)
             /\ flight' \in [Flights -> Calls \union {None}]
  BY DEF GrantTake, service, session, history, TypeOK, CallsTyped
<1>2. CASE Settle(c)
  BY <1>1, <1>2, SettleSteps
<1>3. CASE wire[c].is # "refusal" /\ Go(c, "saving") /\ UNCHANGED <<flight, frame, wire>>
  <2>1. wire[c] # None /\ wire[c].is = "credential"
    BY <1>1, <1>3 DEF CallsRun, CallOf, WireFits, SignedFor, Answered, Answers, Op
  <2>2. stage' = [stage EXCEPT ![c] = "saving"] /\ frame' = frame /\ wire' = wire /\ flight' = flight
    BY <1>3 DEF Go
  <2>3. CallsTyped' /\ stage'[c] = "saving" /\ Alone(c)
    <3>1. "saving" \in Stages /\ frame[c] # None
      BY <1>1, Leading DEF Stages
    <3> QED BY <2>2, <3>1, MovesOn DEF Alone
  <2>4. CallOf(c)'
    <3>1. CourseOf(c)'
      BY <1>1, <2>2, <2>3 DEF CallsRun, CallOf, CourseOf, Op, Granting
    <3>2. WireFits(c)'
      BY <1>1, <2>1, <2>2, <2>3 DEF CallsRun, CallOf, WireFits
    <3> QED BY <2>3, <3>1, <3>2 DEF CallOf, RevokingOf
  <2>5. CallsRun'
    BY <1>1, <2>3, <2>4, IssuedStays, CallsKeep DEF Alone
  <2>6. Leads(c)' /\ Founded(c)
    BY <1>1, <2>2, <2>3, LeaderKnows DEF Leads, Founded, Op
  <2> QED BY <1>1, <2>2, <2>3, <2>5, <2>6 DEF LeadSteps, Proceeds, TypeOK
<1> QED BY <1>2, <1>3 DEF GrantTake

LEMMA SaveCalls ==
  ASSUME Core, NEW c \in Calls, GrantSave(c)
  PROVE  /\ Kept' /\ Leads(c) /\ Settle(c) /\ Ended(c) /\ stage[c] = "saving"
         /\ wire[c].cred \in Creds /\ issued[wire[c].cred] # None
<1> USE DEF Core, Kept
<1>1. Op(c) = "grant" /\ Leads(c) /\ stage[c] = "saving" /\ issued' = issued /\ Settle(c)
  BY DEF GrantSave, Leads, service, CallsRun, CallOf, CourseOf, Granting, Op
<1>2. wire[c].cred \in Creds /\ issued[wire[c].cred] # None
  BY <1>1, MessageKinds DEF CallsRun, CallOf, WireFits, TypeOK
<1>3. CallsTyped' /\ CallsRun' /\ Ended(c) /\ flight' \in [Flights -> Calls \union {None}]
  BY <1>1, SettleSteps
<1>4. TypeOK'
  BY <1>2, <1>3 DEF GrantSave, service, session, TypeOK, CallsTyped
<1> QED BY <1>1, <1>2, <1>3, <1>4

(* The steps of a call that has to do with no flight.                      *)
Aside(c) ==
  /\ Alone(c) /\ flight' = flight
  /\ ~Leads(c) /\ stage[c] # "joined" /\ ~Leads(c)' /\ stage'[c] # "joined"

LEMMA ListCalls ==
  ASSUME Core, KeptWereIssued, NEW c \in Calls, RevokeList(c)
  PROVE  /\ Kept' /\ Aside(c) /\ Founded(c) /\ stage[c] = "sent" /\ stage'[c] = "deleting"
         /\ frame[c].covered \subseteq Creds
         /\ \A x \in frame[c].covered : Selects(frame[c].req, x)
         /\ frame'[c].doomed = {x \in local : Selects(frame[c].req, x)}
<1> USE DEF Core, Kept
<1> DEFINE doomed == {x \in local : Selects(frame[c].req, x)}
<1>1. /\ stage[c] = "sent" /\ Op(c) = "revoke" /\ issued' = issued /\ Answered(c)
      /\ stage' = [stage EXCEPT ![c] = "deleting"]
      /\ frame' = [frame EXCEPT ![c].doomed = doomed]
      /\ wire' = [wire EXCEPT ![c] = None]
      /\ flight' = flight
  BY DEF RevokeList, At, service, stores, Op, Go
<1>2. /\ frame[c] \in Frames /\ doomed \subseteq Creds /\ frame[c].covered \subseteq Creds
      /\ frame[c].who \in Known /\ frame[c].rests \in Known
  BY <1>1, Running DEF TypeOK, Frames, OneIdentity
<1>3. \A x \in frame[c].covered : Selects(frame[c].req, x)
  BY <1>1 DEF CallsRun, CallOf, RevokingOf
<1> HIDE DEF doomed
<1>4. frame'[c] = [frame[c] EXCEPT !.doomed = doomed] /\ frame' = [frame EXCEPT ![c] = frame'[c]]
      /\ wire'[c] = None /\ wire' = [wire EXCEPT ![c] = wire'[c]]
  BY <1>1 DEF TypeOK
<1>5. /\ frame'[c] \in Frames /\ frame'[c] # None /\ frame'[c].doomed = doomed
      /\ frame'[c].req = frame[c].req /\ frame'[c].who = frame[c].who /\ frame'[c].rests = frame[c].rests
      /\ frame'[c].covered = frame[c].covered /\ frame'[c].before = frame[c].before
  <2>1. [frame[c] EXCEPT !.doomed = doomed] \in Frames
    BY <1>2 DEF Frames
  <2>2. frame'[c] \in Frames /\ frame'[c] # None
    BY <1>4, <2>1, NoneAssumption
  <2> QED BY <1>2, <1>4, <2>2 DEF Frames
<1>6. CallsTyped' /\ stage'[c] = "deleting" /\ Alone(c)
  <2>1. "deleting" \in Stages
    BY DEF Stages
  <2> QED BY <1>1, <1>4, <1>5, <2>1, MovesOn DEF Alone
<1>7. TypeOK'
  <2>1. barred' \subseteq Creds
    BY <1>2 DEF RevokeList, TypeOK
  <2> QED BY <1>6, <2>1 DEF RevokeList, service, stores, session, TypeOK, CallsTyped
<1>8. \A x \in doomed : issued[x] # None /\ Selects(frame[c].req, x)
  BY DEF doomed, KeptWereIssued
<1>9. CallOf(c)'
  <2>1. CourseOf(c)'
    BY <1>1, <1>5, <1>6 DEF CallsRun, CallOf, CourseOf, Op, Granting
  <2>2. WireFits(c)'
    BY <1>4, <1>6 DEF WireFits
  <2>3. RevokingOf(c)'
    <3>1. \A x \in doomed : issued'[x] # None /\ Selects(frame[c].req, x)'
      BY <1>1, <1>5, <1>8 DEF Selects
    <3>2. /\ \A x \in frame[c].covered : issued'[x] # None /\ Selects(frame[c].req, x)'
          /\ \A x \in frame[c].before : issued'[x] # None /\ (Names(c, x)' => ~issued'[x].live)
      BY <1>1, <1>5 DEF CallsRun, CallOf, RevokingOf, Selects, Names
    <3> QED BY <1>5, <1>6, <3>1, <3>2 DEF RevokingOf
  <2> QED BY <2>1, <2>2, <2>3 DEF CallOf
<1>10. CallsRun'
  BY <1>1, <1>6, <1>9, IssuedStays, CallsKeep DEF Alone
<1>11. Aside(c) /\ Founded(c)
  BY <1>1, <1>2, <1>5, <1>6 DEF Aside, Leads, Founded, Op, Known, RevokeList
<1> QED BY <1>1, <1>2, <1>3, <1>5, <1>6, <1>7, <1>10, <1>11 DEF doomed

(* A call that ends, and led no flight.                                    *)
LEMMA EndsAside ==
  ASSUME Kept, NEW c \in Calls, Ends({c}), issued' = issued, flight' = flight,
         ~Leads(c), stage[c] # "joined"
  PROVE  CallsTyped' /\ CallsRun' /\ Aside(c) /\ Founded(c) /\ Ended(c)
<1>1. CallsTyped' /\ Ended(c) /\ Alone(c)
  BY EndsOf DEF Kept, Alone
<1>2. Aside(c) /\ Founded(c)
  BY <1>1 DEF Aside, Leads, Founded, Ended
<1> QED BY <1>1, <1>2, EndsCalls

LEMMA DeleteCalls ==
  ASSUME Core, NEW c \in Calls, RevokeDelete(c)
  PROVE  Kept' /\ Aside(c) /\ Founded(c) /\ Ended(c) /\ stage[c] = "deleting"
<1> USE DEF Core, Kept
<1>1. /\ stage[c] = "deleting" /\ ~Leads(c) /\ Ends({c}) /\ issued' = issued /\ flight' = flight
      /\ local' \subseteq local /\ barred' \subseteq barred
  BY DEF RevokeDelete, Leads, service
<1>2. CallsTyped' /\ CallsRun' /\ Aside(c) /\ Founded(c) /\ Ended(c)
  BY <1>1, EndsAside
<1>3. TypeOK'
  BY <1>1, <1>2 DEF RevokeDelete, service, session, TypeOK, CallsTyped
<1> QED BY <1>1, <1>2, <1>3

LEMMA ForgetCalls ==
  ASSUME Core, NEW c \in Calls, NEW req \in Requests, Forget(c, req)
  PROVE  Kept' /\ Aside(c) /\ Founded(c) /\ Ended(c) /\ stage[c] = "idle"
<1> USE DEF Core, Kept
<1>1. /\ stage[c] = "idle" /\ ~Leads(c) /\ Ends({c}) /\ issued' = issued /\ flight' = flight
      /\ local' \subseteq local
  BY DEF Forget, Leads, service
<1>2. CallsTyped' /\ CallsRun' /\ Aside(c) /\ Founded(c) /\ Ended(c)
  BY <1>1, EndsAside
<1>3. TypeOK'
  BY <1>1, <1>2 DEF Forget, service, session, history, TypeOK, CallsTyped
<1> QED BY <1>1, <1>2, <1>3

LEMMA FailCalls ==
  ASSUME Core, NEW c \in Calls, Fail(c)
  PROVE  /\ Kept' /\ Founded(c) /\ stage[c] # "deleting"
         /\ LeadSteps(c) \/ Aside(c)
<1> USE DEF Core, Kept
<1>1. stage[c] \in LeadStages \union {"identify"} /\ issued' = issued
  BY DEF Fail, service, LeadStages
<1> SUFFICES /\ CallsTyped' /\ CallsRun' /\ Founded(c) /\ (LeadSteps(c) \/ Aside(c))
             /\ flight' \in [Flights -> Calls \union {None}]
  BY <1>1 DEF Fail, service, session, history, TypeOK, CallsTyped, LeadStages
<1>2. CASE Op(c) = "grant"
  <2>1. Leads(c)
    BY <1>1, <1>2 DEF Leads, Op, LeadStages, CallsRun, CallOf, CourseOf
  <2>2. Settle(c)
    BY <1>2 DEF Fail, Op
  <2> QED BY <1>1, <2>1, <2>2, SettleSteps
<1>3. CASE Op(c) # "grant"
  <2>1. ~Leads(c) /\ stage[c] # "joined"
    BY <1>1, <1>3 DEF Leads, Op, LeadStages, CallsRun, CallOf, CourseOf, Granting
  <2>2. Ends({c}) /\ flight' = flight
    BY <1>3 DEF Fail, Op
  <2> QED BY <1>1, <2>1, <2>2, EndsAside DEF TypeOK
<1> QED BY <1>2, <1>3

-----------------------------------------------------------------------------
(* Flights keep their leaders.                                             *)
LEMMA FlightsSame ==
  ASSUME TypeOK, FlightsLed, flight' = flight,
         \A d \in Calls : stage'[d] = stage[d] /\ frame'[d].req = frame[d].req
  PROVE  FlightsLed'
<1>1. \A d \in Calls : Leads(d)' <=> Leads(d)
  BY DEF Leads
<1>2. \A f \in Flights : flight[f] # None => flight[f] \in Calls
  BY DEF TypeOK
<1> QED BY <1>1, <1>2 DEF FlightsLed

LEMMA SameLeads ==
  ASSUME NEW d, Same(d)
  PROVE  /\ Leads(d)' <=> Leads(d)
         /\ frame'[d].req = frame[d].req
         /\ stage'[d] = "joined" <=> stage[d] = "joined"
  BY DEF Same, Leads
LEMMA EndedLeads ==
  ASSUME NEW d, Ended(d)
  PROVE  ~Leads(d)' /\ stage'[d] # "joined"
  BY DEF Ended, Leads

LEMMA FlightsProceed ==
  ASSUME TypeOK, FlightsLed, NEW c \in Calls, Proceeds(c)
  PROVE  FlightsLed'
<1>1. /\ Leads(c) /\ Leads(c)' /\ flight' = flight /\ frame'[c].req = frame[c].req
      /\ stage[c] # "joined" /\ stage'[c] # "joined"
  BY DEF Proceeds, Leads
<1>2. \A d \in Calls : (Leads(d)' <=> Leads(d)) /\ frame'[d].req = frame[d].req
                        /\ (stage'[d] = "joined" <=> stage[d] = "joined")
  BY <1>1, SameLeads DEF Proceeds, Alone
<1>3. \A f \in Flights : flight[f] # None => flight[f] \in Calls
  BY DEF TypeOK
<1> QED BY <1>1, <1>2, <1>3 DEF FlightsLed

LEMMA FlightsAside ==
  ASSUME TypeOK, FlightsLed, NEW c \in Calls, Aside(c)
  PROVE  FlightsLed'
<1>1. /\ flight' = flight
      /\ ~Leads(c) /\ stage[c] # "joined" /\ ~Leads(c)' /\ stage'[c] # "joined"
  BY DEF Aside
<1>2. \A d \in Calls \ {c} : (Leads(d)' <=> Leads(d)) /\ frame'[d].req = frame[d].req
                              /\ (stage'[d] = "joined" <=> stage[d] = "joined")
  BY SameLeads DEF Aside, Alone
<1>3. \A f \in Flights : flight[f] # None => flight[f] \in Calls \ {c}
  BY <1>1 DEF TypeOK, FlightsLed
<1> QED BY <1>1, <1>2, <1>3 DEF FlightsLed

LEMMA FlightsJoin ==
  ASSUME Kept, FlightsLed, NEW c \in Calls, NEW req \in Requests, GrantJoin(c, req)
  PROVE  FlightsLed'
<1>1. /\ Alone(c) /\ stage[c] = "idle" /\ frame'[c].req = req /\ req.flight \in Flights
      /\ \/ stage'[c] = "joined" /\ flight[req.flight] # None /\ flight' = flight
         \/ stage'[c] = "find" /\ flight[req.flight] = None
            /\ flight' = [flight EXCEPT ![req.flight] = c]
  BY JoinCalls, FrameIs
<1>2. \A d \in Calls \ {c} : (Leads(d)' <=> Leads(d)) /\ frame'[d].req = frame[d].req
                              /\ (stage'[d] = "joined" <=> stage[d] = "joined")
  BY <1>1, SameLeads DEF Alone
<1>3. ~Leads(c)
  BY <1>1 DEF Leads
<1>4. \A f \in Flights : flight[f] # None => flight[f] \in Calls \ {c}
  BY <1>3 DEF Kept, TypeOK, FlightsLed
<1>5. \A d \in Calls \ {c} : Leads(d) \/ stage[d] = "joined" => frame[d].req.flight \in Flights
  BY Leading, Running DEF Kept, CallsRun, CallOf, CourseOf, Granting, Op
<1>6. CASE stage'[c] = "joined" /\ flight[req.flight] # None /\ flight' = flight
  <2>1. ~Leads(c)'
    BY <1>6 DEF Leads
  <2> QED BY <1>1, <1>2, <1>4, <1>6, <2>1 DEF FlightsLed
<1>7. CASE stage'[c] = "find" /\ flight[req.flight] = None /\ flight' = [flight EXCEPT ![req.flight] = c]
  <2>1. Leads(c)'
    BY <1>7 DEF Leads
  <2>2. flight'[req.flight] = c /\ \A f \in Flights \ {req.flight} : flight'[f] = flight[f]
    BY <1>1, <1>7 DEF Kept, TypeOK
  <2>3. \A d \in Calls \ {c} : /\ Leads(d)' => flight'[frame'[d].req.flight] = d
                               /\ stage'[d] = "joined" => flight'[frame'[d].req.flight] # None
    BY <1>2, <1>5, <1>7, <2>2, NoneAssumption DEF FlightsLed
  <2>4. \A f \in Flights : flight'[f] # None =>
          \E d \in Calls : flight'[f] = d /\ Leads(d)' /\ frame'[d].req.flight = f
    BY <1>1, <1>2, <1>4, <2>1, <2>2 DEF FlightsLed
  <2> QED BY <1>1, <1>7, <2>2, <2>3, <2>4 DEF FlightsLed
<1> QED BY <1>1, <1>6, <1>7

LEMMA FlightsSettle ==
  ASSUME Kept, FlightsLed, NEW c \in Calls, Leads(c), Settle(c)
  PROVE  FlightsLed'
<1> DEFINE f == frame[c].req.flight
<1>1. stage[c] \notin {"idle", "done", "joined"} /\ Op(c) = "grant" /\ f \in Flights
  BY Leading DEF LeadStages
<1>2. /\ Ended(c)
      /\ \A d \in Joined(f) : Ended(d)
      /\ \A d \in Calls \ ({c} \union Joined(f)) : Same(d)
      /\ flight' = [flight EXCEPT ![f] = None]
  BY <1>1, SettleOf DEF Kept
<1> HIDE DEF f
<1>3. flight'[f] = None /\ \A g \in Flights \ {f} : flight'[g] = flight[g]
  BY <1>1, <1>2 DEF Kept, TypeOK
<1>4. flight[f] = c
  BY DEF FlightsLed, f
<1>5. \A d \in Calls : Leads(d) \/ stage[d] = "joined" => frame[d].req.flight \in Flights
  BY Leading, Running DEF Kept, CallsRun, CallOf, CourseOf, Granting, Op
<1>6. \A d \in {c} \union Joined(f) : ~Leads(d)' /\ stage'[d] # "joined"
  BY <1>2, EndedLeads
<1>7. \A d \in Calls \ ({c} \union Joined(f)) :
        /\ Leads(d)' <=> Leads(d)
        /\ frame'[d].req = frame[d].req
        /\ stage'[d] = "joined" <=> stage[d] = "joined"
  BY <1>2, SameLeads
<1>8. \A d \in Calls : Leads(d) => d \notin Joined(f)
  BY DEF Leads, Joined
<1>9. ASSUME NEW d \in Calls
      PROVE  /\ Leads(d)' => flight'[frame'[d].req.flight] = d
             /\ stage'[d] = "joined" => flight'[frame'[d].req.flight] # None
  <2> SUFFICES ASSUME d \notin {c} \union Joined(f)
               PROVE  /\ Leads(d)' => flight'[frame'[d].req.flight] = d
                      /\ stage'[d] = "joined" => flight'[frame'[d].req.flight] # None
    BY <1>6
  <2>1. Leads(d) => frame[d].req.flight \in Flights \ {f} /\ flight[frame[d].req.flight] = d
    BY <1>4, <1>5 DEF FlightsLed
  <2>2. stage[d] = "joined" => frame[d].req.flight \in Flights \ {f} /\ flight[frame[d].req.flight] # None
    BY <1>5 DEF FlightsLed, Joined
  <2> QED BY <1>3, <1>7, <2>1, <2>2
<1>10. ASSUME NEW g \in Flights, flight'[g] # None
       PROVE  \E d \in Calls : flight'[g] = d /\ Leads(d)' /\ frame'[d].req.flight = g
  <2>1. g # f /\ flight'[g] = flight[g] /\ flight[g] # None
    BY <1>3, <1>10
  <2>2. Leads(flight[g]) /\ frame[flight[g]].req.flight = g /\ flight[g] \in Calls
    BY <2>1 DEF FlightsLed, Kept, TypeOK
  <2>3. flight[g] # c /\ flight[g] \notin Joined(f)
    BY <1>8, <2>1, <2>2 DEF f
  <2> QED BY <1>7, <2>1, <2>2, <2>3
<1> QED BY <1>9, <1>10 DEF FlightsLed

-----------------------------------------------------------------------------
(* Identities, credentials and what was revoked, over a step of a call.    *)
LEMMA IdentityKeeps ==
  ASSUME OneIdentity, hosted' = hosted, saw' = saw, raced' = raced, stored' \in Known,
         \A s \in Sessions :
           /\ evidence'[s] \in Known /\ promise'[s].id = promise[s].id
           /\ promise'[s].state \in {promise[s].state, "looking"},
         \A d \in Calls : Same(d) \/ Founded(d)
  PROVE  OneIdentity'
<1>1. \A d \in Calls : frame'[d] # None => frame'[d].who \in Known /\ frame'[d].rests \in Known
  BY DEF OneIdentity, Same, Founded
<1>2. Known' = Known
  BY DEF Known
<1> QED BY <1>1, <1>2 DEF OneIdentity

LEMMA EvidenceKeeps ==
  ASSUME BeliefsHaveEvidence, active' = active, evidence' = evidence
  PROVE  BeliefsHaveEvidence'
  BY DEF BeliefsHaveEvidence

(* Revokes that are deleting go on with what they are to delete.           *)
DeletesOn(c) == stage[c] = "deleting" => stage'[c] = "deleting" /\ frame'[c].doomed = frame[c].doomed

LEMMA ForgottenKeeps ==
  ASSUME RevokedStaysForgotten, \A d \in Calls : DeletesOn(d),
         local' \intersect barred' \subseteq local \intersect barred
  PROVE  RevokedStaysForgotten'
<1> SUFFICES ASSUME NEW x \in local', x \in barred'
             PROVE  \E d \in Calls : stage'[d] = "deleting" /\ x \in frame'[d].doomed
  BY DEF RevokedStaysForgotten
<1>1. \E d \in Calls : stage[d] = "deleting" /\ x \in frame[d].doomed
  BY DEF RevokedStaysForgotten
<1> QED BY <1>1 DEF DeletesOn

LEMMA LeadDeletesNothing ==
  ASSUME Kept, NEW c \in Calls, LeadSteps(c)
  PROVE  \A d \in Calls : DeletesOn(d) /\ (Same(d) \/ Founded(d) \/ d = c)
<1>1. stage[c] # "deleting" /\ stage[c] \notin {"idle", "done"} /\ Op(c) = "grant"
  BY Leading DEF LeadSteps, LeadStages
<1>2. \A d \in Calls \ {c} : Same(d) \/ (stage[d] = "joined" /\ Ended(d))
  BY <1>1, SettleOf DEF LeadSteps, Proceeds, Alone, Kept, Joined
<1> QED BY <1>1, <1>2 DEF DeletesOn, Same, Ended, Founded

LEMMA AsideDeletesNothing ==
  ASSUME NEW c \in Calls, Alone(c), stage[c] # "deleting"
  PROVE  \A d \in Calls : DeletesOn(d)
  BY DEF Alone, DeletesOn, Same

LEMMA KeptKeeps ==
  ASSUME KeptWereIssued, issued' = issued, served' = served, \A x \in local' : issued[x] # None
  PROVE  KeptWereIssued'
  BY DEF KeptWereIssued

(* A leader's step but the last, which saves the credential.               *)
LEMMA LeadKeeps ==
  ASSUME IInv, NEW c \in Calls, LeadSteps(c), Kept', Founded(c),
         UNCHANGED <<service, hosted, local, promise, saw, raced, barred>>,
         stored' \in Known, BeliefsHaveEvidence', \A s \in Sessions : evidence'[s] \in Known
  PROVE  IInv'
<1> USE DEF IInv, service
<1>1. \A d \in Calls : DeletesOn(d) /\ (Same(d) \/ Founded(d))
  BY LeadDeletesNothing DEF Kept
<1>2. FlightsLed'
  BY FlightsProceed, FlightsSettle DEF LeadSteps, Kept
<1>3. OneIdentity'
  BY <1>1, IdentityKeeps
<1>4. KeptWereIssued'
  BY KeptKeeps DEF KeptWereIssued
<1>5. RevokedStaysForgotten'
  BY <1>1, ForgottenKeeps
<1> QED BY <1>2, <1>3, <1>4, <1>5 DEF Kept

(* A step of a call that has to do with no flight, and does not delete.    *)
LEMMA AsideKeeps ==
  ASSUME IInv, NEW c \in Calls, Aside(c), Kept', Founded(c), stage[c] # "deleting",
         UNCHANGED <<service, hosted, stored, saw, raced, barred>>, local' \subseteq local,
         \A s \in Sessions : /\ promise'[s].id = promise[s].id
                             /\ promise'[s].state \in {promise[s].state, "looking"},
         BeliefsHaveEvidence', \A s \in Sessions : evidence'[s] \in Known
  PROVE  IInv'
<1> USE DEF IInv, service
<1>1. /\ \A d \in Calls : DeletesOn(d)
      /\ \A d \in Calls : Same(d) \/ Founded(d)
  BY AsideDeletesNothing DEF Aside, Alone
<1>2. FlightsLed'
  BY FlightsAside
<1>3. OneIdentity'
  BY <1>1, IdentityKeeps DEF OneIdentity
<1>4. KeptWereIssued'
  BY KeptKeeps DEF KeptWereIssued
<1>5. RevokedStaysForgotten'
  BY <1>1, ForgottenKeeps
<1> QED BY <1>2, <1>3, <1>4, <1>5 DEF Kept

LEMMA BelievesKnown ==
  ASSUME Core, NEW c \in Calls,
         stage[c] = "ask" \/ (stage[c] = "sent" /\ Op(c) \in {"enroll", "status"}),
         Answered(c), Believe(c)
  PROVE  BeliefsHaveEvidence' /\ \A s \in Sessions : evidence'[s] \in Known
<1>1. /\ BeliefsHaveEvidence' /\ frame[c] # None
      /\ \A s \in Sessions : evidence'[s] \in {evidence[s], frame[c].who, None}
  BY BelieveOf, Running DEF Core, Kept
<1> QED BY <1>1 DEF Core, OneIdentity, Known

(* The identity is kept over every step of a call: what each action says   *)
(* of the stores, the sessions and the history.                            *)
LEMMA GrantStep ==
  ASSUME IInv, NEW c \in Calls,
         GrantFind(c) \/ GrantSeek(c) \/ GrantRecover(c) \/ GrantChecked(c) \/ GrantTake(c)
  PROVE  IInv'
<1>0. Core /\ (\A s \in Sessions : evidence[s] \in Known) /\ stored \in Known
  BY DEF IInv, Core, Kept, OneIdentity
<1> USE DEF session, history
<1>1. CASE GrantFind(c) \/ GrantSeek(c)
  <2>1. Kept' /\ LeadSteps(c) /\ Founded(c)
    BY <1>0, <1>1, FindCalls, SeekCalls DEF LeadSteps, Proceeds
  <2>2. UNCHANGED <<service, hosted, stored, local, session, history>>
    BY <1>1 DEF GrantFind, GrantSeek, stores
  <2>3. BeliefsHaveEvidence'
    BY <1>0, <2>2, EvidenceKeeps DEF Core
  <2> QED BY <1>0, <2>1, <2>2, <2>3, LeadKeeps
<1>2. CASE GrantRecover(c)
  <2>1. Kept' /\ Proceeds(c) /\ Founded(c) /\ stored' = frame[c].who
    BY <1>0, <1>2, RecoverCalls
  <2>2. UNCHANGED <<service, hosted, local, session, history>>
    BY <1>2 DEF GrantRecover
  <2>3. BeliefsHaveEvidence'
    BY <1>0, <2>2, EvidenceKeeps DEF Core
  <2>4. LeadSteps(c) /\ stored' \in Known
    BY <1>0, <2>1, LeaderKnows DEF LeadSteps, Proceeds
  <2> QED BY <1>0, <2>1, <2>2, <2>3, <2>4, LeadKeeps
<1>3. CASE GrantChecked(c)
  <2>1. Kept' /\ LeadSteps(c) /\ Founded(c)
    BY <1>0, <1>3, CheckedCalls
  <2>2. UNCHANGED <<service, hosted, stored, local, promise, saw, raced, barred>>
    BY <1>3 DEF GrantChecked
  <2>3. BeliefsHaveEvidence' /\ \A s \in Sessions : evidence'[s] \in Known
    BY <1>0, <1>3, BelievesKnown DEF GrantChecked
  <2> QED BY <1>0, <2>1, <2>2, <2>3, LeadKeeps
<1>4. CASE GrantTake(c)
  <2>1. Kept' /\ LeadSteps(c) /\ Founded(c)
    BY <1>0, <1>4, TakeCalls
  <2>2. UNCHANGED <<service, hosted, stored, local, session, history>>
    BY <1>4 DEF GrantTake
  <2>3. BeliefsHaveEvidence'
    BY <1>0, <2>2, EvidenceKeeps DEF Core
  <2> QED BY <1>0, <2>1, <2>2, <2>3, LeadKeeps
<1> QED BY <1>1, <1>2, <1>3, <1>4

LEMMA SaveStep ==
  ASSUME IInv, NEW c \in Calls, GrantSave(c)
  PROVE  IInv'
<1> USE DEF IInv
<1>1. Core
  BY DEF Core, Kept
<1>2. /\ Kept' /\ Leads(c) /\ Settle(c) /\ Ended(c) /\ stage[c] = "saving"
      /\ wire[c].cred \in Creds /\ issued[wire[c].cred] # None
  BY <1>1, SaveCalls
<1>3. /\ UNCHANGED <<service, hosted, stored, session, evidence, saw, raced>>
      /\ local' = local \union {wire[c].cred} /\ barred' = barred \ {wire[c].cred}
  BY DEF GrantSave
<1>4. LeadSteps(c)
  BY <1>2 DEF LeadSteps
<1>5. /\ \A d \in Calls : DeletesOn(d)
      /\ \A d \in Calls : Same(d) \/ Founded(d)
  BY <1>1, <1>2, <1>4, LeadDeletesNothing DEF Core, Ended, Founded
<1>6. FlightsLed'
  BY <1>1, <1>2, FlightsSettle DEF Core
<1>7. BeliefsHaveEvidence'
  BY <1>3, EvidenceKeeps DEF session
<1>8. OneIdentity'
  BY <1>3, <1>5, IdentityKeeps DEF session, OneIdentity
<1>9. KeptWereIssued'
  BY <1>2, <1>3, KeptKeeps DEF service, KeptWereIssued
<1>10. RevokedStaysForgotten'
  BY <1>3, <1>5, ForgottenKeeps
<1> QED BY <1>2, <1>6, <1>7, <1>8, <1>9, <1>10 DEF Kept

LEMMA BeginStep ==
  ASSUME IInv, NEW c \in Calls, NEW req \in Requests,
         Begin(c, req) \/ GrantJoin(c, req) \/ Forget(c, req)
  PROVE  IInv'
<1>0. Core /\ (\A s \in Sessions : evidence[s] \in Known) /\ stored \in Known
  BY DEF IInv, Core, Kept, OneIdentity
<1>f. Frame(req) # None /\ Frame(req).who \in Known /\ Frame(req).rests \in Known
  BY FrameIs DEF Known
<1>1. CASE Begin(c, req)
  <2>1. Kept' /\ Alone(c) /\ stage[c] = "idle" /\ stage'[c] = "identify" /\ frame'[c] = Frame(req)
    BY <1>0, <1>1, BeginCalls DEF Core
  <2>2. /\ UNCHANGED <<service, hosted, stores, active, wire, history>>
        /\ \A s \in Sessions : /\ promise'[s].id = promise[s].id
                               /\ promise'[s].state \in {promise[s].state, "looking"}
    BY <1>1 DEF Begin, Demand, IInv, TypeOK, Promises
  <2>3. Founded(c) /\ Aside(c)
    BY <1>f, <2>1, <2>2 DEF Founded, Aside, Leads, stores
  <2>4. BeliefsHaveEvidence'
    BY <1>0, <2>2, EvidenceKeeps DEF Core, history
  <2> QED BY <1>0, <2>1, <2>2, <2>3, <2>4, AsideKeeps DEF stores, history
<1>2. CASE GrantJoin(c, req)
  <2> USE DEF IInv
  <2>1. Kept' /\ Alone(c) /\ stage[c] = "idle" /\ frame'[c] = Frame(req)
    BY <1>0, <1>2, JoinCalls DEF Core
  <2>2. UNCHANGED <<service, hosted, stored, local, session, wire, history>>
    BY <1>2 DEF GrantJoin
  <2>3. /\ \A d \in Calls : DeletesOn(d)
        /\ \A d \in Calls : Same(d) \/ Founded(d)
    BY <1>f, <2>1, AsideDeletesNothing DEF Founded, Alone
  <2>4. FlightsLed'
    BY <1>0, <1>2, FlightsJoin DEF Core
  <2>5. BeliefsHaveEvidence'
    BY <2>2, EvidenceKeeps DEF session, history
  <2>6. OneIdentity'
    BY <2>2, <2>3, IdentityKeeps DEF session, history, OneIdentity
  <2>7. KeptWereIssued'
    BY <2>2, KeptKeeps DEF service, KeptWereIssued
  <2>8. RevokedStaysForgotten'
    BY <2>2, <2>3, ForgottenKeeps DEF history
  <2> QED BY <2>1, <2>4, <2>5, <2>6, <2>7, <2>8 DEF Kept
<1>3. CASE Forget(c, req)
  <2>1. Kept' /\ Aside(c) /\ Founded(c) /\ Ended(c) /\ stage[c] = "idle"
    BY <1>0, <1>3, ForgetCalls
  <2>2. UNCHANGED <<service, hosted, stored, flight, session, history>> /\ local' \subseteq local
    BY <1>3 DEF Forget
  <2>3. BeliefsHaveEvidence'
    BY <1>0, <2>2, EvidenceKeeps DEF Core, session, history
  <2> QED BY <1>0, <2>1, <2>2, <2>3, AsideKeeps DEF session, history
<1> QED BY <1>1, <1>2, <1>3

LEMMA CommandStep ==
  ASSUME IInv, NEW c \in Calls, Identified(c) \/ TakeStatus(c) \/ Fail(c)
  PROVE  IInv'
<1>0. Core /\ (\A s \in Sessions : evidence[s] \in Known) /\ stored \in Known
  BY DEF IInv, Core, Kept, OneIdentity
<1>1. CASE Identified(c)
  <2>1. /\ Kept' /\ Alone(c) /\ stage[c] = "identify" /\ Op(c) # "grant"
        /\ Ended(c) \/ (stage'[c] = "sent"
                        /\ frame'[c] = [frame[c] EXCEPT !.who = promise[frame[c].req.session].id])
    BY <1>0, <1>1, IdentifiedCalls DEF Core, Kept, CallsRun, CallOf, CourseOf
  <2>2. UNCHANGED <<service, hosted, stores, session, history>>
    BY <1>1 DEF Identified
  <2>3. frame[c] \in Frames /\ frame[c] # None /\ frame[c].req.session \in Sessions
    BY <1>0, <2>1, Running, RequestKinds DEF Core, Kept
  <2>4. Founded(c)
    <3>1. promise[frame[c].req.session].id \in Known /\ frame[c].rests \in Known
      BY <1>0, <2>3 DEF Core, OneIdentity
    <3> QED BY <2>1, <2>2, <2>3, <3>1 DEF Founded, Ended, Frames
  <2>5. Aside(c)
    <3>1. ~Leads(c)' /\ stage'[c] # "joined"
      <4>1. CASE Ended(c)
        BY <4>1, EndedLeads
      <4>2. CASE /\ stage'[c] = "sent"
                 /\ frame'[c] = [frame[c] EXCEPT !.who = promise[frame[c].req.session].id]
        <5>1. frame'[c].req = frame[c].req
          BY <2>3, <4>2 DEF Frames
        <5> QED BY <2>1, <4>2, <5>1 DEF Leads, Op
      <4> QED BY <2>1, <4>1, <4>2
    <3> QED BY <2>1, <2>2, <3>1 DEF Aside, Leads, stores
  <2>6. BeliefsHaveEvidence'
    BY <1>0, <2>2, EvidenceKeeps DEF Core, session, history
  <2> QED BY <1>0, <2>1, <2>2, <2>4, <2>5, <2>6, AsideKeeps DEF stores, session, history
<1>2. CASE TakeStatus(c)
  <2>1. Kept' /\ Alone(c) /\ Ended(c) /\ stage[c] = "sent" /\ Op(c) \in {"enroll", "status"}
    BY <1>0, <1>2, TakeStatusCalls DEF Core
  <2>2. UNCHANGED <<service, hosted, stores, promise, saw, raced, barred>>
    BY <1>2 DEF TakeStatus
  <2>3. Founded(c) /\ Aside(c)
    BY <2>1, <2>2 DEF Founded, Ended, Aside, Leads, Op, stores
  <2>4. BeliefsHaveEvidence' /\ \A s \in Sessions : evidence'[s] \in Known
    BY <1>0, <1>2, <2>1, BelievesKnown DEF TakeStatus
  <2> QED BY <1>0, <2>1, <2>2, <2>3, <2>4, AsideKeeps DEF stores
<1>3. CASE Fail(c)
  <2>1. Kept' /\ Founded(c) /\ stage[c] # "deleting" /\ (LeadSteps(c) \/ Aside(c))
    BY <1>0, <1>3, FailCalls
  <2>2. UNCHANGED <<service, hosted, stored, local, session, history>>
    BY <1>3 DEF Fail
  <2>3. BeliefsHaveEvidence'
    BY <1>0, <2>2, EvidenceKeeps DEF Core, session, history
  <2>4. CASE LeadSteps(c)
    BY <1>0, <2>1, <2>2, <2>3, <2>4, LeadKeeps DEF session, history
  <2>5. CASE Aside(c)
    BY <1>0, <2>1, <2>2, <2>3, <2>5, AsideKeeps DEF session, history
  <2> QED BY <2>1, <2>4, <2>5
<1> QED BY <1>1, <1>2, <1>3

LEMMA RevokeStep ==
  ASSUME IInv, NEW c \in Calls, RevokeList(c) \/ RevokeDelete(c)
  PROVE  IInv'
<1> USE DEF IInv
<1>0. Core
  BY DEF Core, Kept
<1>1. CASE RevokeList(c)
  <2>1. /\ Kept' /\ Aside(c) /\ Founded(c) /\ stage[c] = "sent" /\ stage'[c] = "deleting"
        /\ \A x \in frame[c].covered : Selects(frame[c].req, x)
        /\ frame'[c].doomed = {x \in local : Selects(frame[c].req, x)}
    BY <1>0, <1>1, ListCalls
  <2>2. /\ UNCHANGED <<service, hosted, stores, session, evidence, saw, raced>>
        /\ barred' = barred \union frame[c].covered
    BY <1>1 DEF RevokeList
  <2>3. /\ \A d \in Calls : DeletesOn(d)
        /\ \A d \in Calls : Same(d) \/ Founded(d)
    BY <2>1, AsideDeletesNothing DEF Aside, Alone
  <2>4. RevokedStaysForgotten'
    <3> SUFFICES ASSUME NEW x \in local', x \in barred'
                 PROVE  \E d \in Calls : stage'[d] = "deleting" /\ x \in frame'[d].doomed
      BY DEF RevokedStaysForgotten
    <3>1. CASE x \in barred
      <4>1. \E d \in Calls : stage[d] = "deleting" /\ x \in frame[d].doomed
        BY <2>2, <3>1 DEF RevokedStaysForgotten, stores
      <4> QED BY <2>3, <4>1 DEF DeletesOn
    <3>2. CASE x \in frame[c].covered
      BY <2>1, <2>2, <3>2 DEF stores
    <3> QED BY <2>2, <3>1, <3>2
  <2>5. FlightsLed'
    BY <2>1, FlightsAside
  <2>6. BeliefsHaveEvidence'
    BY <2>2, EvidenceKeeps DEF session
  <2>7. OneIdentity'
    BY <2>2, <2>3, IdentityKeeps DEF session, stores, OneIdentity
  <2>8. KeptWereIssued'
    BY <2>2, KeptKeeps DEF service, stores, KeptWereIssued
  <2> QED BY <2>1, <2>4, <2>5, <2>6, <2>7, <2>8 DEF Kept
<1>2. CASE RevokeDelete(c)
  <2>1. Kept' /\ Aside(c) /\ Founded(c) /\ stage[c] = "deleting"
    BY <1>0, <1>2, DeleteCalls
  <2>2. UNCHANGED <<service, hosted, stored, flight, session, evidence, saw, raced>>
    BY <1>2 DEF RevokeDelete
  <2>3. PICK deleted \in SUBSET frame[c].doomed :
          local' = local \ deleted /\ barred' = barred \ (frame[c].doomed \ deleted)
    BY <1>2 DEF RevokeDelete
  <2>4. \A d \in Calls \ {c} : Same(d)
    BY <2>1 DEF Aside, Alone
  <2>5. RevokedStaysForgotten'
    <3> SUFFICES ASSUME NEW x \in local', x \in barred'
                 PROVE  \E d \in Calls : stage'[d] = "deleting" /\ x \in frame'[d].doomed
      BY DEF RevokedStaysForgotten
    <3>1. x \in local /\ x \in barred /\ x \notin frame[c].doomed
      BY <2>3
    <3>2. \E d \in Calls : stage[d] = "deleting" /\ x \in frame[d].doomed
      BY <3>1 DEF RevokedStaysForgotten
    <3> QED BY <2>4, <3>1, <3>2 DEF Same
  <2>6. FlightsLed'
    BY <2>1, FlightsAside
  <2>7. BeliefsHaveEvidence'
    BY <2>2, EvidenceKeeps DEF session
  <2>8. OneIdentity'
    BY <2>1, <2>2, <2>4, IdentityKeeps DEF session, OneIdentity
  <2>9. KeptWereIssued'
    BY <2>2, <2>3, KeptKeeps DEF service, KeptWereIssued
  <2> QED BY <2>1, <2>5, <2>6, <2>7, <2>8, <2>9 DEF Kept
<1> QED BY <1>1, <1>2

LEMMA CallStep ==
  ASSUME IInv, NEW c \in Calls, CallSteps(c)
  PROVE  IInv'
BY BeginStep, CommandStep, GrantStep, SaveStep, RevokeStep DEF CallSteps

-----------------------------------------------------------------------------
(* The steps of sessions and of the Service.                               *)
LEMMA SessionStep ==
  ASSUME IInv, NEW s \in Sessions, SessionSteps(s)
  PROVE  IInv'
<1> USE DEF IInv
<1>1. TypeOK' /\ (\A d \in Calls : Same(d))
  BY SessionTypes
<1>2. UNCHANGED <<service, local, flight, active, calls, evidence, barred>>
  BY DEF SessionSteps, IdentityLook, IdentityFind, IdentityProvision, IdentitySave, IdentityReject, PromiseOnly
<1>3. CallsRun'
  BY <1>1, <1>2, IssuedStays, SameKeeps DEF service, CallsRun
<1>4. FlightsLed'
  BY <1>1, <1>2, FlightsSame DEF Same
<1>5. BeliefsHaveEvidence' /\ KeptWereIssued'
  BY <1>2, EvidenceKeeps, KeptKeeps DEF service, KeptWereIssued
<1>6. RevokedStaysForgotten'
  BY <1>1, <1>2, ForgottenKeeps DEF Same, DeletesOn
<1>7. OneIdentity'
  <2>1. hosted \subseteq hosted' /\ (\A d \in Calls : frame'[d] = frame[d]) /\ evidence' = evidence
    BY <1>1, <1>2 DEF Same, SessionSteps, IdentityLook, IdentityFind, IdentityProvision, IdentitySave,
      IdentityReject
  <2>2. /\ \A d \in Calls : frame'[d] # None => frame'[d].who \in Known' /\ frame'[d].rests \in Known'
        /\ \A r \in Sessions : evidence'[r] \in Known'
    BY <2>1 DEF OneIdentity, Known
  <2>3. \A r \in Sessions \ {s} : promise'[r] = promise[r]
    BY DEF SessionSteps, IdentityLook, IdentityFind, IdentityProvision, IdentitySave, IdentityReject,
      Becomes, TypeOK
  <2>4. \A r \in Sessions \ {s} : saw'[r] = saw[r]
    BY DEF SessionSteps, IdentityLook, IdentityFind, IdentityProvision, IdentitySave, IdentityReject, TypeOK
  <2>5. /\ promise'[s].id \in Known' /\ stored' \in Known'
        /\ promise'[s].state \in {"saving", "resolved"} => promise'[s].id # None
        /\ promise'[s].state = "provisioning" => saw'[s] = {}
        /\ raced' = {} => \A i, j \in hosted' : i = j
    <3> USE DEF Becomes, Known, OneIdentity
    <3>0. \A p : promise' = [promise EXCEPT ![s] = p] => promise'[s] = p
      BY DEF TypeOK
    <3>1. CASE IdentityLook(s)
      BY <3>0, <3>1 DEF IdentityLook
    <3>2. CASE IdentityFind(s)
      <4>1. saw'[s] = hosted
        BY <3>2 DEF IdentityFind, TypeOK
      <4>2. \A i \in hosted : i # None
        BY NoneAssumption DEF TypeOK
      <4> QED BY <3>0, <3>2, <4>1, <4>2 DEF IdentityFind
    <3>3. CASE IdentityProvision(s)
      <4>1. PICK i \in Ids :
              /\ Becomes(s, "saving", i)
              /\ hosted' = hosted \union {i}
              /\ raced' = IF i \notin hosted /\ hosted # {} /\ saw[s] = {}
                           THEN raced \union {i} ELSE raced
        BY <3>3 DEF IdentityProvision
      <4>2. i # None /\ saw[s] = {} /\ stored' = stored
        BY <3>3, NoneAssumption DEF IdentityProvision
      <4>3. raced' = {} => \A k, j \in hosted' : k = j
        BY <4>1, <4>2
      <4>4. promise'[s] = [state |-> "saving", id |-> i]
        BY <3>0, <4>1
      <4>5. stored' \in Known' /\ promise'[s].id \in Known'
        BY <4>1, <4>2, <4>4
      <4> QED BY <4>2, <4>3, <4>4, <4>5
    <3>4. CASE IdentitySave(s)
      BY <3>0, <3>4 DEF IdentitySave
    <3>5. CASE IdentityReject(s)
      BY <3>0, <3>5 DEF IdentityReject
    <3> QED BY <3>1, <3>2, <3>3, <3>4, <3>5 DEF SessionSteps
  <2>6. \A r \in Sessions \ {s} :
          /\ promise'[r].id \in Known'
          /\ promise'[r].state \in {"saving", "resolved"} => promise'[r].id # None
          /\ promise'[r].state = "provisioning" => saw'[r] = {}
    BY <2>1, <2>3, <2>4 DEF OneIdentity, Known
  <2> QED BY <2>2, <2>5, <2>6 DEF OneIdentity
<1> QED BY <1>1, <1>3, <1>4, <1>5, <1>6, <1>7

LEMMA ServiceStep ==
  ASSUME IInv, NEW c \in Calls,
         ServiceReports(c) \/ ServiceEnrolls(c) \/ ServiceGrants(c) \/ ServiceRevokes(c)
  PROVE  IInv'
<1> USE DEF IInv
<1>1. TypeOK' /\ CallsRun' /\ Grows
  BY ServiceTypes, ServiceCalls, ServiceGrows
<1>2. UNCHANGED <<hosted, stores, session, stage, history>>
  BY DEF ServiceReports, ServiceEnrolls, ServiceGrants, ServiceRevokes
<1>3. \A d \in Calls :
        \/ frame'[d] = frame[d]
        \/ /\ frame[d] # None /\ frame'[d].req = frame[d].req /\ frame'[d].doomed = frame[d].doomed
           /\ frame'[d].who = frame[d].who /\ frame'[d].rests = frame[d].rests
  <2>1. CASE ServiceReports(c) \/ ServiceEnrolls(c) \/ ServiceGrants(c)
    BY <2>1 DEF ServiceReports, ServiceEnrolls, ServiceGrants
  <2>2. CASE ServiceRevokes(c)
    <3>1. CASE stage[c] = "done"
      BY <2>2, <3>1 DEF ServiceRevokes
    <3>2. CASE stage[c] # "done"
      <4>1. frame[c] \in Frames /\ frame[c] # None
        BY <2>2, <3>2, ArrivedIs, Running DEF ServiceRevokes
      <4>2. PICK gone, old : frame' = [frame EXCEPT ![c] = [frame[c] EXCEPT !.covered = gone, !.before = old]]
        BY <2>2, <3>2 DEF ServiceRevokes, TypeOK
      <4>3. /\ frame'[c] = [frame[c] EXCEPT !.covered = gone, !.before = old]
            /\ \A d \in Calls \ {c} : frame'[d] = frame[d]
        BY <4>2 DEF TypeOK
      <4> QED BY <4>1, <4>3 DEF Frames
    <3> QED BY <3>1, <3>2
  <2> QED BY <2>1, <2>2
<1>4. FlightsLed'
  BY <1>2, <1>3, FlightsSame DEF stores
<1>5. BeliefsHaveEvidence'
  BY <1>2, EvidenceKeeps DEF session, history
<1>6. OneIdentity'
  BY <1>2, <1>3 DEF session, stores, history, OneIdentity, Known
<1>7. RevokedStaysForgotten'
  BY <1>2, <1>3, ForgottenKeeps DEF stores, history, DeletesOn
<1>8. KeptWereIssued'
  <2>1. \A x \in local' : issued'[x] # None
    BY <1>1, <1>2 DEF stores, Grows, KeptWereIssued, TypeOK
  <2>2. CASE served' = served
    BY <1>1, <2>1, <2>2 DEF Grows, KeptWereIssued, TypeOK
  <2>3. ASSUME NEW x \in Creds, issued'[x] # None, NEW key,
               served' = [ik \in Ids \X Keys |-> IF ik = key THEN x ELSE served[ik]]
        PROVE  KeptWereIssued'
    BY <1>1, <2>1, <2>3 DEF Grows, KeptWereIssued, TypeOK
  <2>4. CASE ServiceGrants(c) /\ served' # served
    <3>1. PICK new \in Creds :
            /\ issued' = [issued EXCEPT ![new] = [id |-> wire[c].id, type |-> wire[c].req.flight[1], live |-> TRUE]]
            /\ served' = [ik \in Ids \X Keys |-> IF ik = <<wire[c].id, wire[c].req.flight[2]>> THEN new ELSE served[ik]]
      BY <2>4 DEF ServiceGrants
    <3>2. wire[c].id \in Ids /\ wire[c].req.flight \in Flights
      BY <2>4, ArrivedIs, RequestKinds DEF ServiceGrants, Arrived
    <3>3. [id |-> wire[c].id, type |-> wire[c].req.flight[1], live |-> TRUE] \in Credentials
      BY <3>2 DEF Credentials, Flights
    <3>4. issued'[new] # None
      BY <3>1, <3>3, NoneAssumption DEF TypeOK
    <3> QED BY <2>3, <3>1, <3>4
  <2> QED BY <2>2, <2>4 DEF ServiceReports, ServiceEnrolls, ServiceRevokes, service
<1> QED BY <1>1, <1>4, <1>5, <1>6, <1>7, <1>8

LEMMA StutterStep == IInv /\ UNCHANGED vars => IInv'
<1> SUFFICES ASSUME IInv, UNCHANGED vars PROVE IInv'
  OBVIOUS
<1> USE DEF IInv, vars, service, stores, session, calls, history
<1>1. TypeOK' /\ BeliefsHaveEvidence' /\ OneIdentity' /\ KeptWereIssued' /\ RevokedStaysForgotten'
  BY DEF TypeOK, BeliefsHaveEvidence, OneIdentity, Known, KeptWereIssued, RevokedStaysForgotten
<1>2. CallsRun'
  BY IssuedStays, SameKeeps DEF CallsRun, Same
<1>3. FlightsLed'
  BY FlightsSame
<1> QED BY <1>1, <1>2, <1>3

LEMMA Step == IInv /\ [Next]_vars => IInv'
BY CallStep, SessionStep, ServiceStep, StutterStep DEF Next, ServiceSteps

LEMMA Starts == Init => IInv
<1> SUFFICES ASSUME Init PROVE IInv
  OBVIOUS
<1>1. /\ stage = [c \in Calls |-> "idle"] /\ frame = [c \in Calls |-> None] /\ wire = [c \in Calls |-> None]
      /\ flight = [f \in Flights |-> None] /\ served = [ik \in Ids \X Keys |-> None]
      /\ promise = [s \in Sessions |-> [state |-> "none", id |-> None]]
      /\ active = [s \in Sessions |-> FALSE] /\ evidence = [s \in Sessions |-> None]
      /\ saw = [s \in Sessions |-> {}] /\ raced = {} /\ barred = {}
  BY DEF Init
<1>2. /\ account \in [Ids -> Statuses] /\ issued \in [Creds -> Credentials \union {None}]
      /\ hosted \subseteq Ids /\ stored \in hosted \union {None} /\ local \subseteq Creds
      /\ \A i, j \in hosted : i = j
      /\ \A x \in local : issued[x] # None
  <2>1. CASE /\ account = [i \in Ids |-> "none"] /\ hosted = {} /\ stored = None
             /\ local = {} /\ issued = [x \in Creds |-> None]
    BY <2>1 DEF Statuses
  <2>2. ASSUME NEW i \in Ids, NEW x \in Creds, NEW t \in Types,
               account = [j \in Ids |-> IF j = i THEN "active" ELSE "none"],
               hosted = {i}, stored \in {i, None}, local \in {{}, {x}},
               issued = [y \in Creds |-> IF y \in local THEN [id |-> i, type |-> t, live |-> TRUE] ELSE None]
        PROVE  /\ account \in [Ids -> Statuses] /\ issued \in [Creds -> Credentials \union {None}]
               /\ hosted \subseteq Ids /\ stored \in hosted \union {None} /\ local \subseteq Creds
               /\ \A k, j \in hosted : k = j
               /\ \A y \in local : issued[y] # None
    <3>1. [id |-> i, type |-> t, live |-> TRUE] \in Credentials
      BY DEF Credentials
    <3>2. [id |-> i, type |-> t, live |-> TRUE] # None
      BY <3>1, NoneAssumption
    <3> QED BY <2>2, <3>1, <3>2 DEF Statuses
  <2> QED BY <2>1, <2>2 DEF Init
<1>3. TypeOK
  <2>1. \A s \in Sessions : promise[s] \in Promises
    BY <1>1 DEF Promises
  <2> QED BY <1>1, <1>2, <2>1 DEF TypeOK, Stages
<1>4. CallsRun
  BY <1>1 DEF CallsRun, CallOf, CourseOf, WireFits, RevokingOf, Granting
<1>5. FlightsLed
  BY <1>1 DEF FlightsLed, Leads
<1>6. BeliefsHaveEvidence /\ KeptWereIssued /\ RevokedStaysForgotten
  BY <1>1, <1>2 DEF BeliefsHaveEvidence, KeptWereIssued, RevokedStaysForgotten
<1>7. OneIdentity
  BY <1>1, <1>2 DEF OneIdentity, Known
<1> QED BY <1>3, <1>4, <1>5, <1>6, <1>7 DEF IInv

LEMMA Invariant == Spec => []IInv
BY Starts, Step, PTL DEF Spec

(* The Agent's stores and sessions, and every call, its locals and its     *)
(* message, are of their types throughout.                                 *)
THEOREM TypeCorrect == Spec => []TypeOK
<1>1. IInv => TypeOK
  BY DEF IInv
<1> QED BY <1>1, Invariant, PTL

(* At most one call asks the Service on behalf of a flight, and whoever    *)
(* joined it has that call to wait for.                                    *)
THEOREM GrantsDoNotOverlap == Spec => []OneGrantPerFlight
<1>1. IInv => OneGrantPerFlight
  <2> SUFFICES ASSUME IInv, NEW c \in Calls
               PROVE  /\ Leads(c) => \A d \in Calls \ {c} :
                                       Leads(d) => frame[d].req.flight # frame[c].req.flight
                      /\ stage[c] = "joined" =>
                           \E d \in Calls : Leads(d) /\ frame[d].req.flight = frame[c].req.flight
                                              /\ flight[frame[c].req.flight] = d
    BY DEF OneGrantPerFlight
  <2>1. Leads(c) => \A d \in Calls \ {c} : Leads(d) => frame[d].req.flight # frame[c].req.flight
    BY DEF IInv, FlightsLed
  <2>2. ASSUME stage[c] = "joined"
        PROVE  \E d \in Calls : Leads(d) /\ frame[d].req.flight = frame[c].req.flight
                                   /\ flight[frame[c].req.flight] = d
    <3>1. frame[c].req.flight \in Flights
      BY <2>2, Running DEF IInv, CallsRun, CallOf, CourseOf, Granting
    <3>2. flight[frame[c].req.flight] # None
      BY <2>2 DEF IInv, FlightsLed
    <3> QED BY <3>1, <3>2 DEF IInv, FlightsLed, TypeOK
  <2> QED BY <2>1, <2>2
<1> QED BY <1>1, Invariant, PTL

(* A Grant is sent only on what the Service has said of the identity it is *)
(* sent for, unless provisions raced.                                      *)
THEOREM GrantsHaveEvidence == Spec => []GrantRestsOnEvidence
<1>1. IInv => GrantRestsOnEvidence
  <2> SUFFICES ASSUME IInv, NEW c \in Calls, Leads(c), stage[c] \in {"sent", "saving"}
               PROVE  frame[c].rests # None /\ (frame[c].rests = frame[c].who \/ raced # {})
    BY DEF GrantRestsOnEvidence
  <2>1. frame[c].rests # None /\ frame[c].who # None
    BY DEF IInv, CallsRun, CallOf, CourseOf, Leads, Op
  <2>2. frame[c] # None
    BY DEF IInv, TypeOK
  <2>3. frame[c].rests \in hosted /\ frame[c].who \in hosted
    BY <2>1, <2>2 DEF IInv, OneIdentity, Known
  <2> QED BY <2>1, <2>3 DEF IInv, OneIdentity
<1> QED BY <1>1, Invariant, PTL

(* What an answered Revoke has revoked stays out of the local store.       *)
THEOREM RevokedIsForgotten == Spec => []RevokedStaysForgotten
<1>1. IInv => RevokedStaysForgotten
  BY DEF IInv
<1> QED BY <1>1, Invariant, PTL

(* A Revoke deletes a working credential only if it came too late for the  *)
(* Service, is another identity's, or was named under the wrong type.      *)
THEOREM ForgottenWereRevoked == Spec => RevokeForgetsOnlyRevoked
<1>1. IInv /\ [Next]_vars =>
        [\A x \in local \ local' : issued[x].live /\ issued'[x].live =>
           \E c \in Calls :
             /\ stage[c] # "done" /\ stage'[c] = "done"
             /\ stage[c] = "deleting" =>
                  \/ x \notin frame[c].before
                  \/ issued[x].id # frame[c].who
                  \/ frame[c].req.cred = x /\ frame[c].req.type # issued[x].type]_vars
  <2> SUFFICES ASSUME IInv, [Next]_vars, NEW x \in local \ local', issued[x].live
               PROVE  \E c \in Calls :
                        /\ stage[c] # "done" /\ stage'[c] = "done"
                        /\ stage[c] = "deleting" =>
                             \/ x \notin frame[c].before
                             \/ issued[x].id # frame[c].who
                             \/ frame[c].req.cred = x /\ frame[c].req.type # issued[x].type
    OBVIOUS
  <2>0. Core
    BY DEF IInv, Core, Kept
  <2>1. ASSUME NEW c \in Calls, NEW req \in Requests, Forget(c, req)
        PROVE  stage[c] = "idle" /\ stage'[c] = "done"
    BY <2>0, <2>1, ForgetCalls DEF Ended
  <2>2. ASSUME NEW c \in Calls, RevokeDelete(c)
        PROVE  /\ stage[c] = "deleting" /\ stage'[c] = "done"
               /\ \/ x \notin frame[c].before
                  \/ issued[x].id # frame[c].who
                  \/ frame[c].req.cred = x /\ frame[c].req.type # issued[x].type
    <3>1. stage[c] = "deleting" /\ stage'[c] = "done" /\ x \in frame[c].doomed
      BY <2>0, <2>2, DeleteCalls DEF Ended, RevokeDelete
    <3>2. /\ issued[x] # None /\ Selects(frame[c].req, x)
          /\ x \in frame[c].before => ~Names(c, x)
      BY <3>1 DEF IInv, CallsRun, CallOf, CourseOf, RevokingOf
    <3>3. frame[c].req.cred # None => frame[c].req.cred = x
      BY <3>2 DEF Selects
    <3>4. frame[c].req.cred = None => frame[c].req.type \in {issued[x].type, None}
      BY <3>2 DEF Selects
    <3> QED BY <3>1, <3>2, <3>3, <3>4 DEF Names
  <2>3. (\E c \in Calls : RevokeDelete(c) \/ \E req \in Requests : Forget(c, req))
    BY DEF Next, CallSteps, SessionSteps, ServiceSteps, Begin, GrantJoin, Identified, TakeStatus, GrantFind,
      GrantSeek, GrantRecover, GrantChecked, GrantTake, GrantSave, RevokeList, Fail, IdentityLook, IdentityFind,
      IdentityProvision, IdentitySave, IdentityReject, PromiseOnly, ServiceReports, ServiceEnrolls,
      ServiceGrants, ServiceRevokes, vars, stores
  <2> QED BY <2>1, <2>2, <2>3
<1> QED BY <1>1, Invariant, PTL DEF Spec, RevokeForgetsOnlyRevoked

-----------------------------------------------------------------------------
(* A credential on the wire stays there until its call ends, and comes     *)
(* there only by the Service; one granted under a key is recorded there.   *)
Travels(d) ==
  /\ Arrived(d, "credential")' => wire'[d] = wire[d] /\ frame'[d] = frame[d]
  /\ Arrived(d, "credential") => wire'[d] = wire[d] \/ stage'[d] = "done"
KeysFetch ==
  \A c \in Calls : Arrived(c, "credential") /\ frame[c].req.flight[2] # None =>
    \E ik \in Ids \X Keys : served[ik] = wire[c].cred

LEMMA SameTravels ==
  ASSUME NEW d, Same(d) \/ Ended(d)
  PROVE  Travels(d)
BY DEF Same, Ended, Travels, Arrived, Abandoned

LEMMA EndsTravel ==
  ASSUME TypeOK, NEW ended \in SUBSET Calls, Ends(ended), NEW d \in Calls
  PROVE  Travels(d)
BY EndsOf, SameTravels

LEMMA SettleTravels ==
  ASSUME TypeOK, NEW c \in Calls, Settle(c), NEW d \in Calls
  PROVE  Travels(d)
<1> DEFINE ended == {c} \union Joined(frame[c].req.flight)
<1>1. ended \in SUBSET Calls /\ Ends(ended)
  BY DEF Settle, Joined
<1> QED BY <1>1, EndsTravel

(* A call that has no credential, and gets none.                           *)
LEMMA AloneTravels ==
  ASSUME NEW c \in Calls, Alone(c), ~Arrived(c, "credential"), ~Arrived(c, "credential")',
         NEW d \in Calls
  PROVE  Travels(d)
BY SameTravels DEF Alone, Travels

LEMMA SendTravels ==
  ASSUME TypeOK, NEW c \in Calls, NEW req, req.op # "credential", NEW i, Send(c, req, i),
         ~Arrived(c, "credential")
  PROVE  ~Arrived(c, "credential")'
<1>1. wire'[c] = Signed(req, i)
  BY DEF Send, TypeOK
<1> QED BY <1>1 DEF Arrived, Signed

LEMMA Travel ==
  ASSUME IInv, NEW c \in Calls, CallSteps(c), NEW d \in Calls
  PROVE  Travels(d)
<1> USE DEF IInv
<1>0. Core /\ Kept
  BY DEF Core, Kept
<1>1. ASSUME stage[c] \in {"idle", "identify", "find", "seek", "recover", "ask"}
      PROVE  ~Arrived(c, "credential")
  BY <1>1 DEF CallsRun, CallOf, WireFits, SignedFor, Arrived
<1>2. ASSUME NEW req \in Requests, Begin(c, req) \/ GrantJoin(c, req) PROVE Travels(d)
  <2>1. Alone(c) /\ stage[c] = "idle" /\ wire' = wire
    BY <1>0, <1>2, BeginCalls, JoinCalls DEF Begin, GrantJoin
  <2> QED BY <1>1, <2>1, AloneTravels DEF Arrived
<1>3. ASSUME NEW req \in Requests, Forget(c, req) PROVE Travels(d)
  BY <1>3, EndsTravel DEF Forget
<1>4. CASE Identified(c)
  <2>1. CASE Ends({c})
    BY <2>1, EndsTravel
  <2>2. CASE Go(c, "sent") /\ Send(c, frame[c].req, promise[frame[c].req.session].id)
    <3>1. Alone(c) /\ stage[c] = "identify" /\ frame[c].req \in Requests
      BY <1>0, <1>4, IdentifiedCalls, Running
    <3>2. frame[c].req.op # "credential"
      BY <3>1, RequestKinds
    <3> QED BY <1>1, <2>2, <3>1, <3>2, SendTravels, AloneTravels
  <2> QED BY <1>4, <2>1, <2>2 DEF Identified
<1>5. CASE TakeStatus(c) \/ RevokeDelete(c)
  BY <1>5, EndsTravel DEF TakeStatus, RevokeDelete
<1>6. CASE GrantSave(c)
  BY <1>6, SettleTravels DEF GrantSave
<1>7. CASE Fail(c)
  BY <1>7, EndsTravel, SettleTravels DEF Fail
<1>8. CASE GrantFind(c) \/ GrantSeek(c) \/ GrantRecover(c) \/ GrantChecked(c)
  <2>1. stage[c] \in {"find", "seek", "recover", "ask"} /\ ~Arrived(c, "credential") /\ Leads(c)
    BY <1>1, <1>8 DEF GrantFind, GrantSeek, GrantRecover, GrantChecked, Leads
  <2>2. frame[c].req.op = "grant"
    BY <1>0, <2>1, Leading DEF Op
  <2>3. CASE Settle(c)
    BY <2>3, SettleTravels
  <2>4. ASSUME NEW req, req.op \in {"grant", "status"}, NEW i, Send(c, req, i) PROVE ~Arrived(c, "credential")'
    BY <2>1, <2>4, SendTravels
  <2>5. \/ ~Arrived(c, "credential")'
        \/ Settle(c)
    BY <1>8, <2>1, <2>2, <2>4 DEF GrantFind, GrantSeek, GrantRecover, GrantChecked, GrantAsk, Arrived
  <2>6. Settle(c) \/ Alone(c)
    BY <1>0, <1>8, FindCalls, SeekCalls, RecoverCalls, CheckedCalls DEF LeadSteps, Proceeds
  <2> QED BY <2>1, <2>3, <2>5, <2>6, AloneTravels
<1>9. CASE GrantTake(c)
  <2>1. CASE Settle(c)
    BY <2>1, SettleTravels
  <2>2. CASE Go(c, "saving") /\ UNCHANGED <<flight, frame, wire>>
    BY <2>2 DEF Travels, Arrived
  <2> QED BY <1>9, <2>1, <2>2 DEF GrantTake
<1>10. CASE RevokeList(c)
  <2>1. Alone(c) /\ stage[c] = "sent" /\ Op(c) = "revoke" /\ wire' = [wire EXCEPT ![c] = None] /\ Answered(c)
    BY <1>0, <1>10, ListCalls DEF Aside, RevokeList, At, Op
  <2>2. ~Arrived(c, "credential")
    BY <2>1 DEF CallsRun, CallOf, WireFits, SignedFor, Arrived, Op
  <2>3. ~Arrived(c, "credential")'
    BY <2>1 DEF TypeOK, Arrived
  <2> QED BY <2>1, <2>2, <2>3, AloneTravels
<1> QED BY <1>2, <1>3, <1>4, <1>5, <1>6, <1>7, <1>8, <1>9, <1>10 DEF CallSteps

(* What is recorded for a key stays recorded.                              *)
LEMMA RecordsStay ==
  ASSUME TypeOK, CallsRun, NEW c \in Calls, ServiceGrants(c), NEW ik \in Ids \X Keys, served[ik] # None
  PROVE  served'[ik] = served[ik]
<1> DEFINE i == wire[c].id
           k == wire[c].req.flight[2]
<1>1. CASE served' = served
  BY <1>1
<1>2. ASSUME Recorded(i, k) = None, NEW new \in Creds,
             served' = [jk \in Ids \X Keys |-> IF jk = <<i, k>> THEN new ELSE served[jk]]
      PROVE  served'[ik] = served[ik]
  <2>1. ik = <<i, k>> => k # None
    BY KeysAssumption
  <2>2. ik # <<i, k>>
    BY <1>2, <2>1 DEF Recorded
  <2> QED BY <1>2, <2>2
<1> QED BY <1>1, <1>2 DEF ServiceGrants

(* A Grant under a key is answered with what is recorded for it.           *)
LEMMA GrantRecords ==
  ASSUME IInv, NEW c \in Calls, ServiceGrants(c), Arrived(c, "credential")',
         wire[c].req.flight[2] # None
  PROVE  \E ik \in Ids \X Keys : served'[ik] = wire'[c].cred
<1> DEFINE i == wire[c].id
           k == wire[c].req.flight[2]
           x == Recorded(i, k)
<1>1. i \in Ids /\ k \in Keys
  BY ArrivedIs, RequestKinds DEF IInv, ServiceGrants, Arrived, Flights
<1>2. \A reply : Answer(c, reply) => wire'[c] \in {reply, None}
  BY DEF Answer, IInv, TypeOK
<1>3. ~Answer(c, Reply("refusal"))
  BY <1>2 DEF Arrived, Reply
<1>4. \A y : Answer(c, Gives(y)) => wire'[c].cred = y
  BY <1>2 DEF Arrived, Gives
<1> HIDE DEF i, k
<1>5. CASE Answer(c, Gives(x)) /\ served' = served
  <2>1. served'[<<i, k>>] = x
    BY <1>5, KeysAssumption, <1>1 DEF Recorded
  <2> QED BY <1>1, <1>4, <1>5, <2>1
<1>6. ASSUME NEW new \in Creds, Answer(c, Gives(new)),
             served' = [ik \in Ids \X Keys |-> IF ik = <<i, k>> THEN new ELSE served[ik]]
      PROVE  \E ik \in Ids \X Keys : served'[ik] = wire'[c].cred
  <2>1. served'[<<i, k>>] = new
    BY <1>1, <1>6
  <2> QED BY <1>1, <1>4, <1>6, <2>1
<1> QED BY <1>3, <1>5, <1>6 DEF ServiceGrants, i, k

LEMMA ServiceTravels ==
  ASSUME IInv, NEW c \in Calls,
         ServiceReports(c) \/ ServiceEnrolls(c) \/ ServiceGrants(c) \/ ServiceRevokes(c)
  PROVE  /\ ~Arrived(c, "credential")
         /\ Arrived(c, "credential")' =>
              /\ ServiceGrants(c) /\ stage[c] = "sent" /\ frame' = frame
              /\ wire[c].req = frame[c].req
         /\ \A d \in Calls \ {c} : wire'[d] = wire[d] /\ frame'[d] = frame[d]
<1> USE DEF IInv
<1>1. ~Arrived(c, "credential")
  BY DEF ServiceReports, ServiceEnrolls, ServiceGrants, ServiceRevokes, Arrived
<1>2. PICK reply : /\ Answer(c, reply)
                   /\ reply.is = "credential" => ServiceGrants(c)
  <2>1. CASE ServiceGrants(c)
    <3>1. \E reply : Answer(c, reply)
      BY <2>1 DEF ServiceGrants
    <3> QED BY <2>1, <3>1
  <2>2. CASE ServiceReports(c) \/ ServiceEnrolls(c)
    <3>1. \E status : Answer(c, Reports(status))
      BY <2>2 DEF ServiceReports, ServiceEnrolls
    <3> QED BY <3>1 DEF Reports
  <2>3. CASE ServiceRevokes(c)
    <3>1. Answer(c, Reply("revoked"))
      BY <2>3 DEF ServiceRevokes
    <3> QED BY <3>1 DEF Reply
  <2> QED BY <2>1, <2>2, <2>3
<1>3. /\ wire'[c] = IF stage[c] = "done" THEN None ELSE reply
      /\ \A d \in Calls \ {c} : wire'[d] = wire[d]
  BY <1>2 DEF Answer, TypeOK
<1>4. \A d \in Calls \ {c} : frame'[d] = frame[d]
  BY DEF ServiceReports, ServiceEnrolls, ServiceGrants, ServiceRevokes, TypeOK
<1>5. ASSUME Arrived(c, "credential")'
      PROVE  /\ ServiceGrants(c) /\ stage[c] = "sent" /\ frame' = frame
             /\ wire[c].req = frame[c].req
  <2>1. ServiceGrants(c) /\ stage[c] # "done"
    BY <1>2, <1>3, <1>5 DEF Arrived
  <2>2. wire[c].is = "grant" /\ frame' = frame
    BY <2>1 DEF ServiceGrants, Arrived
  <2> QED BY <2>1, <2>2, ArrivedIs DEF ServiceGrants
<1> QED BY <1>1, <1>3, <1>4, <1>5

LEMMA KeysFetchSame ==
  ASSUME KeysFetch, served' = served, \A d \in Calls : Travels(d)
  PROVE  KeysFetch'
BY DEF KeysFetch, Travels, Arrived

LEMMA KeysFetchStep == IInv /\ KeysFetch /\ [Next]_vars => KeysFetch'
<1> SUFFICES ASSUME IInv, KeysFetch, [Next]_vars PROVE KeysFetch'
  OBVIOUS
<1>1. ASSUME NEW c \in Calls, CallSteps(c) PROVE KeysFetch'
  <2>1. served' = served
    BY <1>1 DEF CallSteps, Begin, GrantJoin, Forget, Identified, TakeStatus, GrantFind, GrantSeek, GrantRecover,
      GrantChecked, GrantTake, GrantSave, RevokeList, RevokeDelete, Fail, service
  <2> QED BY <1>1, <2>1, Travel, KeysFetchSame
<1>2. ASSUME NEW s \in Sessions, SessionSteps(s) PROVE KeysFetch'
  <2>1. served' = served
    BY <1>2 DEF SessionSteps, IdentityLook, IdentityFind, IdentityProvision, IdentitySave, IdentityReject,
      PromiseOnly, service
  <2>2. \A d \in Calls : Same(d)
    BY <1>2, SessionTypes DEF IInv
  <2> QED BY <2>1, <2>2, SameTravels, KeysFetchSame
<1>3. ASSUME NEW c \in Calls,
             ServiceReports(c) \/ ServiceEnrolls(c) \/ ServiceGrants(c) \/ ServiceRevokes(c)
      PROVE  KeysFetch'
  <2>1. \A ik \in Ids \X Keys : served[ik] # None => served'[ik] = served[ik]
    BY <1>3, RecordsStay DEF IInv, ServiceReports, ServiceEnrolls, ServiceRevokes, service
  <2>2. ASSUME NEW d \in Calls \ {c}, Arrived(d, "credential")', frame'[d].req.flight[2] # None
        PROVE  \E ik \in Ids \X Keys : served'[ik] = wire'[d].cred
    <3>1. wire'[d] = wire[d] /\ frame'[d] = frame[d]
      BY <1>3, ServiceTravels
    <3>2. wire[d].cred # None
      BY <2>2, <3>1, MessageKinds, NoneAssumption DEF IInv, TypeOK, Arrived
    <3> QED BY <2>1, <2>2, <3>1, <3>2 DEF KeysFetch, Arrived
  <2>3. ASSUME Arrived(c, "credential")', frame'[c].req.flight[2] # None
        PROVE  \E ik \in Ids \X Keys : served'[ik] = wire'[c].cred
    BY <1>3, <2>3, ServiceTravels, GrantRecords
  <2> QED BY <2>2, <2>3 DEF KeysFetch
<1>4. CASE UNCHANGED vars
  BY <1>4, SameTravels, KeysFetchSame DEF vars, service, calls, Same
<1> QED BY <1>1, <1>2, <1>3, <1>4 DEF Next, ServiceSteps

LEMMA KeysAlwaysFetch == Spec => []KeysFetch
<1>1. Init => KeysFetch
  BY DEF Init, KeysFetch, Arrived
<1> QED BY <1>1, KeysFetchStep, Invariant, PTL DEF Spec

(* A credential comes to work only by a Grant, which answers with it.      *)
LEMMA IssuedOnWire ==
  ASSUME IInv, NEW c \in Calls,
         ServiceReports(c) \/ ServiceEnrolls(c) \/ ServiceGrants(c) \/ ServiceRevokes(c),
         NEW x \in Creds, issued[x] = None, issued'[x] # None
  PROVE  /\ Arrived(c, "grant")
         /\ stage[c] # "done" => Carries(c, x)'
         /\ wire[c].req.flight[2] # None => \E ik \in Ids \X Keys : served'[ik] = x
<1> USE DEF IInv
<1>1. ServiceGrants(c)
  <2>1. CASE ServiceReports(c) \/ ServiceEnrolls(c)
    BY <2>1 DEF ServiceReports, ServiceEnrolls, service
  <2>2. CASE ServiceRevokes(c)
    BY <2>2 DEF ServiceRevokes, TypeOK
  <2> QED BY <2>1, <2>2
<1>2. /\ wire[c].id \in Ids /\ wire[c].req.flight[2] \in Keys \union {None}
  BY <1>1, ArrivedIs, RequestKinds DEF ServiceGrants, Arrived, Flights
<1>3. PICK new \in Creds :
        /\ issued' = [issued EXCEPT ![new] = [id |-> wire[c].id, type |-> wire[c].req.flight[1], live |-> TRUE]]
        /\ served' = [ik \in Ids \X Keys |->
                        IF ik = <<wire[c].id, wire[c].req.flight[2]>> THEN new ELSE served[ik]]
        /\ Answer(c, Gives(new))
  BY <1>1 DEF ServiceGrants
<1>4. new = x
  BY <1>3 DEF TypeOK
<1>5. stage[c] # "done" => Carries(c, x)'
  <2> SUFFICES ASSUME stage[c] # "done" PROVE Carries(c, x)'
    OBVIOUS
  <2>1. wire'[c] = Gives(x)
    BY <1>3, <1>4 DEF Answer, TypeOK
  <2> QED BY <2>1, RepliesAre DEF Carries, Arrived
<1>6. wire[c].req.flight[2] # None => served'[<<wire[c].id, wire[c].req.flight[2]>>] = x
  BY <1>2, <1>3, <1>4
<1>7. wire[c].req.flight[2] # None => <<wire[c].id, wire[c].req.flight[2]>> \in Ids \X Keys
  BY <1>2
<1> QED BY <1>1, <1>5, <1>6, <1>7 DEF ServiceGrants

(* A working credential that nobody could fetch again was deleted by the   *)
(* Agent, or granted under a random key to a call that failed.             *)
THEOREM LostWereUnderRandomKeys == Spec => LostOnlyUnderRandomKeys
<1> DEFINE Lost(x) == \/ x \in local \ local'
                      \/ \E c \in Calls :
                           \/ /\ Carries(c, x) /\ stage'[c] = "done"
                              /\ frame[c].req.flight[2] = None
                           \/ /\ stage[c] = "done" /\ Arrived(c, "grant")
                              /\ wire[c].req.flight[2] = None
           Loss(x) == /\ issued[x] = None \/ Reachable(x)
                      /\ issued'[x] # None /\ issued'[x].live /\ ~Reachable(x)'
<1>1. IInv /\ KeysFetch /\ [Next]_vars => [\A x \in Creds : Loss(x) => Lost(x)]_vars
  <2> SUFFICES ASSUME IInv, KeysFetch, Next, NEW x \in Creds, Loss(x) PROVE Lost(x)
    OBVIOUS
  <2>0. x # None /\ ~Reachable(x)'
    BY NoneAssumption
  <2>1. ASSUME NEW c \in Calls, CallSteps(c) PROVE Lost(x)
    <3>1. issued' = issued /\ served' = served
      BY <2>1 DEF CallSteps, Begin, GrantJoin, Forget, Identified, TakeStatus, GrantFind, GrantSeek, GrantRecover,
        GrantChecked, GrantTake, GrantSave, RevokeList, RevokeDelete, Fail, service
    <3>2. x \notin local' /\ \A ik \in Ids \X Keys : served[ik] # x
      BY <2>0, <3>1 DEF Reachable
    <3>3. ASSUME NEW d \in Calls, Carries(d, x) PROVE Lost(x)
      <4>1. wire'[d] # wire[d]
        BY <2>0, <3>3 DEF Reachable, Carries, Arrived
      <4>2. stage'[d] = "done"
        BY <2>1, <3>3, <4>1, Travel DEF Travels, Carries
      <4>3. frame[d].req.flight[2] = None
        BY <3>2, <3>3 DEF KeysFetch, Carries
      <4> QED BY <3>3, <4>2, <4>3
    <3> QED BY <3>1, <3>2, <3>3 DEF Reachable
  <2>2. ASSUME NEW s \in Sessions, SessionSteps(s) PROVE FALSE
    <3>1. UNCHANGED <<issued, served, local, wire>>
      BY <2>2 DEF SessionSteps, IdentityLook, IdentityFind, IdentityProvision, IdentitySave, IdentityReject,
        PromiseOnly, service, calls
    <3> QED BY <2>0, <3>1 DEF Reachable, Carries, Arrived
  <2>3. ASSUME NEW c \in Calls,
               ServiceReports(c) \/ ServiceEnrolls(c) \/ ServiceGrants(c) \/ ServiceRevokes(c)
        PROVE  Lost(x)
    <3>1. CASE issued[x] = None
      <4>1. stage[c] = "done" /\ Arrived(c, "grant") /\ wire[c].req.flight[2] = None
        BY <2>0, <2>3, <3>1, IssuedOnWire DEF Reachable
      <4> QED BY <4>1
    <3>2. CASE Reachable(x)
      <4>1. local' = local
        BY <2>3 DEF ServiceReports, ServiceEnrolls, ServiceGrants, ServiceRevokes, stores
      <4>2. \A ik \in Ids \X Keys : served[ik] = x => served'[ik] = x
        BY <2>0, <2>3, RecordsStay DEF IInv, ServiceReports, ServiceEnrolls, ServiceRevokes, service
      <4>3. \A d \in Calls : Carries(d, x) => Carries(d, x)'
        BY <2>3, ServiceTravels DEF Carries, Arrived
      <4> QED BY <2>0, <3>2, <4>1, <4>2, <4>3 DEF Reachable
    <3> QED BY <3>1, <3>2
  <2> QED BY <2>1, <2>2, <2>3 DEF Next, ServiceSteps
<1> QED BY <1>1, Invariant, KeysAlwaysFetch, PTL DEF Spec, LostOnlyUnderRandomKeys
=============================================================================

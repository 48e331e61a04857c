------------------------- MODULE PendingSigning_proofs -------------------------
(***************************************************************************)
(* PendingSigning is correctly typed and signs once, for every number of   *)
(* signings, every set of keys and every retention.  Inspections beside it *)
(* return no document that was replaced too long ago, and those of a       *)
(* session share one request, for every number of them, every history of   *)
(* documents and every lifetime.                                           *)
(***************************************************************************)
EXTENDS SigningAndInspection, FiniteSetTheorems, TLAPS

(* A key belongs to one signing, which keeps it from the time it is drawn  *)
(* for the completion: only the first request of a signing has another,    *)
(* and that one is under way once, so that nothing of it can be astray     *)
(* when the key of the completion takes its place.                         *)
KeysAreOwned ==
  /\ \A s \in Signings : key[s] # None => key[s] \in used
  /\ \A s, t \in Signings : s # t /\ key[s] = key[t] => key[s] = None
  /\ \A s \in Signings : stage[s] = "idle" => key[s] = None
RequestsHaveKeys ==
  \A s \in Signings :
    /\ wire[s] = "request" => stage[s] \in Waiting
    /\ stage[s] # "idle" => key[s] \in Keys
StraysAreTheirs ==
  \A s \in Signings, k \in Keys :
    <<s, k>> \in strays => k = key[s] /\ stage[s] \notin {"idle", "asking"}

(* What was signed is on record under the key of its signing until it      *)
(* expires, and only then signed again.                                    *)
NothingSignedYet ==
  \A s \in Signings :
    stage[s] = "idle" \/ (stage[s] = "asking" /\ wire[s] # "assertion") => signatures[s] = 0
SignedIsRecorded ==
  \A s \in Signings : signatures[s] > 0 =>
    /\ s \in approved /\ key[s] \in Keys
    /\ record[key[s]] # None /\ record[key[s]].body = "assertion"
SpentIsExpired == \A k \in Keys : record[k] # None /\ record[k].left = 0 => k \in expired

IInv ==
  TypeOK /\ RequestsHaveKeys /\ KeysAreOwned /\ StraysAreTheirs /\ NothingSignedYet /\ SignedIsRecorded
    /\ SpentIsExpired /\ SignedOnce

-----------------------------------------------------------------------------
(* Every step keeps the types, and has a key for what it sends.            *)
Typed == TypeOK /\ RequestsHaveKeys

LEMMA SignTypes ==
  ASSUME TypeOK, NEW s \in Signings, NEW k \in Keys, Sign(s, k)
  PROVE  /\ record' \in [Keys -> Records \union {None}]
         /\ record'[k] \in Records
         /\ signatures' \in [Signings -> 0..2] /\ expired' \subseteq Keys
<1>1. CASE Kept(k) BY <1>1 DEF Sign, platform, TypeOK, Kept
<1>2. CASE ~Kept(k)
  <2>1. [body |-> Executed(s), left |-> Retention] \in Records
    BY RetentionAssumption DEF Executed, Records, Bodies
  <2> QED BY <1>2, <2>1 DEF Sign, TypeOK
<1> QED BY <1>1, <1>2

LEMMA TypedStep == Typed /\ [Next]_vars => Typed'
<1> SUFFICES ASSUME TypeOK, RequestsHaveKeys, [Next]_vars PROVE Typed'
  BY DEF Typed
<1> USE DEF Typed, RequestsHaveKeys
<1>1. ASSUME NEW s \in Signings, Ask(s) PROVE Typed'
  <2>1. PICK k \in Keys \ used : Post(s, k) /\ used' = used \union {k}
    BY <1>1 DEF Ask
  <2>2. TypeOK'
    BY <1>1, <2>1 DEF TypeOK, Ask, Post, platform, Waiting
  <2> QED BY <1>1, <2>1, <2>2 DEF TypeOK, Ask, Post, Waiting
<1>2. ASSUME NEW s \in Signings, Continue(s) PROVE Typed'
  <2>1. TypeOK'
    BY <1>2 DEF TypeOK, Continue, Post, platform, Waiting
  <2> QED BY <1>2, <2>1 DEF TypeOK, Continue, Post, Waiting
<1>3. ASSUME NEW s \in Signings, Take(s) PROVE Typed'
  BY <1>3, NoneAssumption DEF TypeOK, Take, platform, Waiting
<1>4. ASSUME NEW s \in Signings, Lose(s) PROVE Typed'
  BY <1>4, NoneAssumption DEF TypeOK, Lose, platform, Waiting
<1>5. ASSUME NEW s \in Signings, PlatformSigns(s) PROVE Typed'
  <2>1. key[s] \in Keys /\ Sign(s, key[s])
    BY <1>5 DEF PlatformSigns, Waiting
  <2>2. record'[key[s]].body \in Bodies
    BY <2>1, SignTypes DEF Records
  <2> QED BY <1>5, <2>1, <2>2, SignTypes DEF TypeOK, PlatformSigns
<1>6. ASSUME NEW s \in Signings, NEW k \in Keys, StrayArrives(s, k) PROVE Typed'
  BY <1>6, SignTypes DEF TypeOK, StrayArrives
<1>7. ASSUME NEW s \in Signings, Approve(s) PROVE Typed'
  BY <1>7 DEF TypeOK, Approve, agent, platform
<1>8. CASE Tick
  <2>1. \A k \in Keys : record[k] # None /\ record[k].left > 0 =>
          [record[k] EXCEPT !.left = @ - 1] \in Records
    BY RetentionAssumption DEF TypeOK, Records
  <2>2. record' \in [Keys -> Records \union {None}]
    BY <1>8, <2>1 DEF Tick, TypeOK
  <2> QED BY <1>8, <2>2 DEF Tick, TypeOK, agent
<1>9. CASE UNCHANGED vars
  BY <1>9 DEF TypeOK, vars, agent, platform
<1> QED BY <1>1, <1>2, <1>3, <1>4, <1>5, <1>6, <1>7, <1>8, <1>9 DEF Next, AgentSteps

(* The state of every signing, key and request is of the type it has       *)
(* throughout a run of the Agent and the Platform.                         *)
THEOREM TypeCorrect == Spec => []TypeOK
<1>1. Init => Typed
  BY NoneAssumption DEF Init, Typed, TypeOK, RequestsHaveKeys, Waiting
<1> QED BY <1>1, TypedStep, PTL DEF Spec, Typed

-----------------------------------------------------------------------------
(* The Platform's step, under the key of the signing: what it signs anew   *)
(* was not yet signed, or has expired.                                     *)
Signed == SignedIsRecorded /\ SpentIsExpired /\ SignedOnce

LEMMA SignSigns ==
  ASSUME IInv, NEW s \in Signings, key[s] \in Keys, Sign(s, key[s]), UNCHANGED <<approved, key>>
  PROVE  Signed'
<1>1. CASE Kept(key[s])
  BY <1>1 DEF IInv, Sign, platform, Signed, SignedIsRecorded, SpentIsExpired, SignedOnce
<1>2. CASE ~Kept(key[s])
  <2> DEFINE new == [body |-> Executed(s), left |-> Retention]
  <2>1. /\ record' = [record EXCEPT ![key[s]] = new]
        /\ new # None /\ new.left # 0
        /\ expired' = expired
    BY <1>2, NoneAssumption, RetentionAssumption DEF Sign, Records, Bodies, Executed
  <2>2. \A t \in Signings \ {s} : signatures'[t] = signatures[t] /\ key[t] # key[s]
    BY <1>2, NoneAssumption DEF Sign, IInv, TypeOK, KeysAreOwned
  <2>3. /\ signatures[s] > 0 => s \in approved /\ key[s] \in expired
        /\ signatures'[s] > 0 => s \in approved
        /\ signatures'[s] > 1 => signatures[s] > 0
    <3>1. signatures[s] \in 0..2 /\ signatures'[s] \in 0..2
      BY SignTypes DEF IInv, TypeOK
    <3>2. signatures[s] > 0 => record[key[s]] # None /\ record[key[s]].left = 0
      <4>1. record[key[s]] # None => record[key[s]].left \in 0..Retention
        BY DEF IInv, TypeOK, Records
      <4> QED BY <1>2, <4>1, RetentionAssumption DEF IInv, SignedIsRecorded, Kept
    <3>3. signatures[s] > 0 => s \in approved
      BY DEF IInv, SignedIsRecorded
    <3>4. signatures'[s] = IF Executed(s) # "assertion" THEN signatures[s]
                           ELSE IF signatures[s] = 0 THEN 1 ELSE 2
      BY <1>2 DEF Sign, IInv, TypeOK
    <3>5. Executed(s) = "assertion" => s \in approved
      BY DEF Executed
    <3>6. signatures'[s] > 1 => signatures[s] > 0
      BY <3>1, <3>4
    <3>7. signatures'[s] > 0 => s \in approved
      BY <3>1, <3>3, <3>4, <3>5
    <3> QED BY <3>2, <3>3, <3>6, <3>7 DEF IInv, SpentIsExpired
  <2>4. SignedIsRecorded'
    <3> SUFFICES ASSUME NEW t \in Signings, signatures'[t] > 0
                 PROVE  /\ t \in approved /\ key[t] \in Keys
                        /\ record'[key[t]] # None /\ record'[key[t]].body = "assertion"
      BY DEF SignedIsRecorded
    <3>1. CASE t = s
      <4>1. record'[key[s]] = new /\ new.body = "assertion"
        BY <3>1, <2>1, <2>3 DEF IInv, TypeOK, Executed
      <4> QED BY <3>1, <4>1, <2>1, <2>3
    <3>2. CASE t # s
      <4>1. signatures[t] > 0 /\ key[t] # key[s]
        BY <3>2, <2>2
      <4> QED BY <4>1, <2>1 DEF IInv, TypeOK, SignedIsRecorded
    <3> QED BY <3>1, <3>2
  <2>5. SpentIsExpired'
    BY <2>1 DEF IInv, TypeOK, SpentIsExpired
  <2>6. SignedOnce'
    BY <2>1, <2>2, <2>3 DEF IInv, SignedOnce
  <2> QED BY <2>4, <2>5, <2>6 DEF Signed
<1> QED BY <1>1, <1>2
LEMMA InvStep == IInv /\ [Next]_vars => IInv'
<1> SUFFICES ASSUME IInv, [Next]_vars PROVE IInv'
  OBVIOUS
<1>0. TypeOK /\ TypeOK' /\ RequestsHaveKeys /\ RequestsHaveKeys'
  BY TypedStep DEF IInv, Typed
<1> DEFINE Rest == KeysAreOwned /\ StraysAreTheirs /\ NothingSignedYet /\ Signed
<1> SUFFICES Rest'
  BY <1>0 DEF IInv, Signed
<1> USE DEF IInv
<1>1. ASSUME NEW s \in Signings, Ask(s) PROVE Rest'
  <2>1. PICK k \in Keys \ used : Post(s, k) /\ used' = used \union {k}
    BY <1>1 DEF Ask
  <2>2. /\ stage[s] = "idle" /\ stage' = [stage EXCEPT ![s] = "asking"]
        /\ key' = [key EXCEPT ![s] = k] /\ wire' = [wire EXCEPT ![s] = "request"]
        /\ UNCHANGED <<approved, record, signatures, expired, strays>>
    BY <1>1, <2>1 DEF Ask, Post, platform
  <2>3. key[s] = None /\ signatures[s] = 0 /\ k # None
    BY <2>2, NoneAssumption DEF KeysAreOwned, NothingSignedYet
  <2>4. \A t \in Signings : key[t] # k
    BY NoneAssumption DEF KeysAreOwned
  <2>5. KeysAreOwned'
    BY <1>0, <2>1, <2>2, <2>3, <2>4 DEF TypeOK, KeysAreOwned
  <2>6. StraysAreTheirs'
    BY <1>0, <2>2 DEF TypeOK, StraysAreTheirs
  <2>7. NothingSignedYet'
    BY <1>0, <2>2, <2>3 DEF TypeOK, NothingSignedYet
  <2>8. \A t \in Signings : signatures[t] > 0 => key'[t] = key[t]
    BY <1>0, <2>2, <2>3 DEF TypeOK
  <2>9. Signed'
    <3>1. \A t \in Signings : signatures[t] > 1 => signatures[t] > 0
      BY <1>0 DEF TypeOK
    <3> QED BY <2>2, <2>8, <3>1 DEF Signed, SignedIsRecorded, SpentIsExpired, SignedOnce
  <2> QED BY <2>5, <2>6, <2>7, <2>9
<1>2. ASSUME NEW s \in Signings, Continue(s) PROVE Rest'
  <2>1. /\ stage[s] = "resolving" /\ stage' = [stage EXCEPT ![s] = "continuing"]
        /\ key' = key /\ wire' = [wire EXCEPT ![s] = "request"]
        /\ UNCHANGED <<approved, record, signatures, expired, strays, used>>
    BY <1>0, <1>2 DEF Continue, Post, platform, TypeOK
  <2>2. KeysAreOwned' /\ StraysAreTheirs' /\ NothingSignedYet'
    BY <1>0, <2>1 DEF TypeOK, KeysAreOwned, StraysAreTheirs, NothingSignedYet
  <2>3. Signed'
    BY <2>1 DEF Signed, SignedIsRecorded, SpentIsExpired, SignedOnce
  <2> QED BY <2>2, <2>3
<1>3. ASSUME NEW s \in Signings, Take(s) PROVE Rest'
  <2>1. /\ stage[s] \in Waiting /\ wire[s] \in Bodies /\ wire' = [wire EXCEPT ![s] = None]
        /\ UNCHANGED <<approved, record, signatures, expired, strays>>
    BY <1>3 DEF Take, platform
  <2>2. CASE key' = key /\ used' = used /\ \E new \in {"signed", "resolving"} : stage' = [stage EXCEPT ![s] = new]
    <3>1. KeysAreOwned' /\ StraysAreTheirs'
      BY <1>0, <2>1, <2>2 DEF TypeOK, KeysAreOwned, StraysAreTheirs, Waiting
    <3>2. NothingSignedYet'
      BY <1>0, <2>1, <2>2 DEF TypeOK, NothingSignedYet
    <3>3. Signed'
      BY <2>1, <2>2 DEF Signed, SignedIsRecorded, SpentIsExpired, SignedOnce
    <3> QED BY <3>1, <3>2, <3>3
  <2>3. CASE /\ wire[s] = "pending" /\ stage[s] = "asking" /\ stage' = [stage EXCEPT ![s] = "resolving"]
             /\ \E k \in Keys \ used : key' = [key EXCEPT ![s] = k] /\ used' = used \union {k}
    <3>1. PICK k \in Keys \ used : key' = [key EXCEPT ![s] = k] /\ used' = used \union {k}
      BY <2>3
    <3>2. k # None /\ \A t \in Signings : key[t] # k
      BY NoneAssumption DEF KeysAreOwned
    <3>3. KeysAreOwned'
      BY <1>0, <2>3, <3>1, <3>2 DEF TypeOK, KeysAreOwned
    <3>4. \A o \in Keys : <<s, o>> \notin strays
      BY <2>3 DEF StraysAreTheirs
    <3>5. StraysAreTheirs'
      BY <1>0, <2>1, <2>3, <3>1, <3>4 DEF TypeOK, StraysAreTheirs
    <3>6. signatures[s] = 0
      BY <2>3 DEF NothingSignedYet
    <3>7. NothingSignedYet'
      BY <1>0, <2>1, <2>3, <3>6 DEF TypeOK, NothingSignedYet
    <3>8. \A t \in Signings : signatures[t] > 0 => key'[t] = key[t]
      BY <1>0, <3>1, <3>6 DEF TypeOK
    <3>9. Signed'
      <4>1. \A t \in Signings : signatures[t] > 1 => signatures[t] > 0
        BY <1>0 DEF TypeOK
      <4> QED BY <2>1, <3>8, <4>1 DEF Signed, SignedIsRecorded, SpentIsExpired, SignedOnce
    <3> QED BY <3>3, <3>5, <3>7, <3>9
  <2> QED BY <1>3, <2>2, <2>3 DEF Take
<1>4. ASSUME NEW s \in Signings, Lose(s) PROVE Rest'
  <2>1. /\ stage[s] \in Waiting
        /\ strays' = IF wire[s] = "request" THEN strays \union {<<s, key[s]>>} ELSE strays
        /\ wire' = [wire EXCEPT ![s] = None]
        /\ \E new \in {"failed", "resolving"} : stage' = [stage EXCEPT ![s] = new]
        /\ UNCHANGED <<approved, record, signatures, expired, key, used>>
    BY <1>4 DEF Lose, platform
  <2>2. KeysAreOwned'
    BY <1>0, <2>1 DEF TypeOK, KeysAreOwned, Waiting
  <2>3. StraysAreTheirs'
    BY <1>0, <2>1 DEF TypeOK, StraysAreTheirs
  <2>4. NothingSignedYet'
    BY <1>0, <2>1 DEF TypeOK, NothingSignedYet
  <2>5. Signed'
    BY <2>1 DEF Signed, SignedIsRecorded, SpentIsExpired, SignedOnce
  <2> QED BY <2>2, <2>3, <2>4, <2>5
<1>5. ASSUME NEW s \in Signings, PlatformSigns(s) PROVE Rest'
  <2>1. key[s] \in Keys /\ Sign(s, key[s])
    BY <1>5 DEF PlatformSigns, RequestsHaveKeys, Waiting
  <2>2. /\ wire[s] = "request" /\ wire' = [wire EXCEPT ![s] = record'[key[s]].body]
        /\ UNCHANGED <<approved, stage, key, strays, used>>
    BY <1>5 DEF PlatformSigns
  <2>3. KeysAreOwned' /\ StraysAreTheirs'
    BY <2>2 DEF KeysAreOwned, StraysAreTheirs
  <2>4. wire'[s] # "assertion" => signatures'[s] = signatures[s]
    <3>1. CASE Kept(key[s]) BY <3>1, <2>1 DEF Sign, platform
    <3>2. CASE ~Kept(key[s])
      <4>1. record'[key[s]].body = Executed(s)
        BY <3>2, <2>1, <1>0 DEF Sign, TypeOK
      <4> QED BY <3>2, <4>1, <2>1, <2>2, <1>0 DEF Sign, TypeOK
    <3> QED BY <3>1, <3>2
  <2>5. \A t \in Signings \ {s} : wire'[t] = wire[t] /\ signatures'[t] = signatures[t]
    BY <1>0, <2>1, <2>2 DEF TypeOK, Sign, platform
  <2>6. NothingSignedYet'
    BY <2>2, <2>4, <2>5, <1>0 DEF NothingSignedYet, RequestsHaveKeys, Waiting
  <2>7. Signed'
    BY <2>1, <2>2, SignSigns
  <2> QED BY <2>3, <2>6, <2>7
<1>6. ASSUME NEW s \in Signings, NEW k \in Keys, StrayArrives(s, k) PROVE Rest'
  <2>1. /\ k = key[s] /\ key[s] \in Keys /\ stage[s] \notin {"idle", "asking"} /\ Sign(s, key[s])
        /\ strays' \subseteq strays
        /\ UNCHANGED <<approved, stage, key, wire>>
    BY <1>6 DEF StrayArrives, StraysAreTheirs
  <2>2. KeysAreOwned'
    <3>1. used' = used
      BY <1>6 DEF StrayArrives
    <3> QED BY <2>1, <3>1 DEF KeysAreOwned
  <2>3. StraysAreTheirs'
    BY <2>1 DEF StraysAreTheirs
  <2>4. \A t \in Signings \ {s} : signatures'[t] = signatures[t]
    BY <1>0, <2>1 DEF TypeOK, Sign, platform
  <2>5. NothingSignedYet'
    BY <2>1, <2>4 DEF NothingSignedYet
  <2>6. Signed'
    BY <2>1, SignSigns
  <2> QED BY <2>2, <2>3, <2>5, <2>6
<1>7. ASSUME NEW s \in Signings, Approve(s) PROVE Rest'
  BY <1>7 DEF Approve, agent, platform, KeysAreOwned, StraysAreTheirs, NothingSignedYet,
     Signed, SignedIsRecorded, SpentIsExpired, SignedOnce
<1>8. CASE Tick
  <2>1. UNCHANGED <<approved, stage, key, wire, strays, used, signatures>> /\ expired \subseteq expired'
    BY <1>8 DEF Tick, agent
  <2>2. KeysAreOwned' /\ StraysAreTheirs' /\ NothingSignedYet' /\ SignedOnce'
    BY <2>1 DEF KeysAreOwned, StraysAreTheirs, NothingSignedYet, SignedOnce
  <2>3. \A k \in Keys : record[k] # None => record'[k] # None /\ record'[k].body = record[k].body
    <3>1. \A k \in Keys : record[k] # None => record[k] \in Records
      BY <1>0 DEF TypeOK
    <3>2. \A r \in Records : r.left > 0 =>
            [r EXCEPT !.left = @ - 1] # None /\ [r EXCEPT !.left = @ - 1].body = r.body
      BY NoneAssumption, RetentionAssumption DEF Records
    <3> QED BY <1>8, <3>1, <3>2 DEF Tick
  <2>4. SignedIsRecorded'
    BY <2>1, <2>3 DEF SignedIsRecorded
  <2>5. SpentIsExpired'
    <3> SUFFICES ASSUME NEW k \in Keys, record'[k] # None, record'[k].left = 0 PROVE k \in expired'
      BY DEF SpentIsExpired
    <3>1. record[k] # None
      BY <1>8 DEF Tick
    <3>2. record[k] \in Records
      BY <1>0, <3>1 DEF TypeOK
    <3>3. record[k].left \in Nat /\ record[k].left <= 1
      BY <1>8, <3>1, <3>2, RetentionAssumption DEF Tick, Records
    <3> QED BY <1>8, <3>1, <3>3 DEF Tick
  <2> QED BY <2>2, <2>4, <2>5 DEF Signed
<1>9. CASE UNCHANGED vars
  BY <1>9 DEF vars, agent, platform, KeysAreOwned, StraysAreTheirs, NothingSignedYet,
     Signed, SignedIsRecorded, SpentIsExpired, SignedOnce
<1> QED BY <1>1, <1>2, <1>3, <1>4, <1>5, <1>6, <1>7, <1>8, <1>9 DEF Next, AgentSteps

LEMMA InvInit == Init => IInv
  BY NoneAssumption DEF Init, IInv, TypeOK, RequestsHaveKeys, Waiting, KeysAreOwned,
     StraysAreTheirs, NothingSignedYet, SignedIsRecorded, SpentIsExpired, SignedOnce

(* However often continueSign is called, answers are lost or late and the  *)
(* resolver tries again, a signing gets a second assertion signed only     *)
(* when the Platform no longer keeps its record of the first.              *)
THEOREM SignsOnce == Spec => []SignedOnce
  BY InvInit, InvStep, PTL DEF Spec, IInv

(* The Platform's record of what it signed never comes to say anything     *)
(* else: a poll or a retry that it repeats is repeated the assertion.      *)
THEOREM SignedStaysOnRecord == Spec => []SignedIsRecorded
  BY InvInit, InvStep, PTL DEF Spec, IInv
-----------------------------------------------------------------------------
(* Inspection: where a call is, and what it knows.                         *)
Frames ==
  [began : I!Times \union {None}, held : I!Entries \union {None}, answer : I!Answers \union {None},
   flight : Flights \union {None}, leads : BOOLEAN, result : Versions \union {None}]
InspectionTypeOK ==
  /\ now \in I!Times /\ current \in Versions
  /\ last \in [Versions -> I!Times \union {None}]
  /\ cache \in I!Entries \union {None}
  /\ promise \in Flights \union {None}
  /\ flight \in [Flights -> I!Asked \union {None}]
  /\ step \in [Inspections -> {"idle", "look", "asked", "answered", "awaits", "done"}]
  /\ frame \in [Inspections -> Frames]

(* A document was the Service's at some time from t on.                    *)
Served(v, t) == v \in Versions /\ last[v] # None /\ last[v] >= t
Recent(v, t) == v \in Versions \ Unbound /\ last[v] # None /\ last[v] + Lifetime >= t

ServedUntilNow == last[current] = now /\ \A v \in Versions : last[v] # None => last[v] <= now
CachedWasServed == cache # None /\ cache.version \notin Unbound => Served(cache.version, cache.at)
HeldWasServed(i) ==
  step[i] \in {"asked", "answered"} /\ frame[i].held # None =>
    frame[i].held.version \notin Unbound /\ Served(frame[i].held.version, frame[i].held.at)
AnswerIsNew(i) ==
  step[i] = "answered" =>
    /\ frame[i].answer # None
    /\ frame[i].answer.version # None => Served(frame[i].answer.version, frame[i].began)
    /\ frame[i].answer.version = None /\ frame[i].held # None =>
         Served(frame[i].held.version, frame[i].began)
ResultIsRecent(i) == step[i] = "done" /\ frame[i].result # None => Recent(frame[i].result, frame[i].began)
CallIsSound(i) ==
  /\ step[i] # "idle" => frame[i].began # None /\ frame[i].began <= now
  /\ HeldWasServed(i) /\ AnswerIsNew(i) /\ ResultIsRecent(i)
FlightIsSound(f) ==
  flight[f] # None =>
    /\ flight[f].began <= now
    /\ flight[f].version # None => flight[f].settled /\ Recent(flight[f].version, flight[f].began)

Awaits(i, f) == step[i] = "awaits" /\ frame[i].flight = f
Leads(i, f) == Awaits(i, f) /\ frame[i].leads
AwaitedIsThere ==
  \A i \in Inspections : step[i] = "awaits" =>
    /\ frame[i].flight \in Flights /\ flight[frame[i].flight] # None
    /\ frame[i].began = flight[frame[i].flight].began
FlightIsAwaited == \A f \in Flights : flight[f] # None => \E i \in Inspections : Awaits(i, f)
LeaderIsPromised == \A i \in Inspections, f \in Flights : Leads(i, f) => f = promise
OneLeader == \A i, j \in Inspections, f \in Flights : Leads(i, f) /\ Leads(j, f) => i = j
PromiseIsLed == promise # None => \E i \in Inspections : Leads(i, promise)
OpenIsPromised == \A f \in Flights : flight[f] # None /\ ~flight[f].settled => f = promise

DocumentsInv ==
  /\ ServedUntilNow /\ CachedWasServed
  /\ \A i \in Inspections : CallIsSound(i)
  /\ \A f \in Flights : FlightIsSound(f)
PromiseInv ==
  /\ AwaitedIsThere /\ FlightIsAwaited /\ LeaderIsPromised /\ OneLeader
  /\ PromiseIsLed /\ OpenIsPromised

InspectionInv == InspectionTypeOK /\ DocumentsInv /\ PromiseInv

-----------------------------------------------------------------------------
(* What is known of a document stays known.                                *)
HistoryGrows ==
  /\ now' \in I!Times /\ current' \in Versions /\ now <= now'
  /\ last' \in [Versions -> I!Times \union {None}]
  /\ \A v \in Versions : last[v] # None => last'[v] # None /\ last[v] <= last'[v]
  /\ ServedUntilNow'

LEMMA TimePasses ==
  ASSUME InspectionTypeOK, ServedUntilNow, I!Tick \/ I!Deploy \/ UNCHANGED I!service
  PROVE  HistoryGrows
<1> USE DocumentsAssumption, MissingAssumption DEF InspectionTypeOK, ServedUntilNow, HistoryGrows, I!Times
<1>1. CASE I!Tick
  BY <1>1 DEF I!Tick
<1>2. CASE I!Deploy
  BY <1>2 DEF I!Deploy
<1>3. CASE UNCHANGED I!service
  BY <1>3 DEF I!service
<1> QED BY <1>1, <1>2, <1>3

LEMMA KnownStays ==
  ASSUME InspectionTypeOK, HistoryGrows, NEW v, NEW t \in I!Times
  PROVE  /\ Served(v, t) => Served(v, t)'
         /\ Recent(v, t) => Recent(v, t)'
<1> USE DocumentsAssumption, MissingAssumption DEF InspectionTypeOK, HistoryGrows, Served, Recent, I!Times
<1>1. v \in Versions /\ last[v] # None => last[v] \in Nat /\ last'[v] \in Nat
  OBVIOUS
<1>2. Served(v, t) => Served(v, t)'
  BY <1>1
<1>3. Recent(v, t) => Recent(v, t)'
  BY <1>1
<1> QED BY <1>2, <1>3

(* A call goes on, alone; what was sound of the others stays so.           *)
Steps == {"idle", "look", "asked", "answered", "awaits", "done"}
LEMMA Goes ==
  ASSUME InspectionTypeOK, NEW i \in Inspections, NEW s \in Steps, NEW r \in Frames, I!Go(i, s, r)
  PROVE  /\ step' \in [Inspections -> Steps] /\ frame' \in [Inspections -> Frames]
         /\ step'[i] = s /\ frame'[i] = r
         /\ \A j \in Inspections \ {i} : step'[j] = step[j] /\ frame'[j] = frame[j]
BY DEF InspectionTypeOK, Steps, I!Go

OthersKept(i) == \A j \in Inspections \ {i} : step'[j] = step[j] /\ frame'[j] = frame[j]

LEMMA CallStays ==
  ASSUME InspectionTypeOK, HistoryGrows, NEW j \in Inspections, CallIsSound(j),
         step'[j] = step[j], frame'[j] = frame[j]
  PROVE  CallIsSound(j)'
<1>0. frame[j] \in Frames
  BY DEF InspectionTypeOK
<1>1. step'[j] # "idle" => frame'[j].began \in I!Times /\ frame'[j].began <= now'
  BY <1>0, DocumentsAssumption DEF CallIsSound, HistoryGrows, InspectionTypeOK, Frames, I!Times
<1>2. HeldWasServed(j)'
  <2>1. ASSUME step[j] \in {"asked", "answered"}, frame[j].held # None
        PROVE  Served(frame[j].held.version, frame[j].held.at)'
    <3>1. frame[j].held \in I!Entries
      BY <1>0, <2>1 DEF Frames
    <3>2. frame[j].held.at \in I!Times
      BY <3>1 DEF I!Entries
    <3>3. PICK v, t : v = frame[j].held.version /\ t = frame[j].held.at
      OBVIOUS
    <3>4. Served(v, t) /\ t \in I!Times
      BY <2>1, <3>2, <3>3 DEF CallIsSound, HeldWasServed
    <3>5. Served(v, t)'
      BY <3>4, KnownStays
    <3> QED BY <3>3, <3>5 DEF Served
  <2> QED BY <2>1 DEF HeldWasServed, CallIsSound, Served
<1>3. AnswerIsNew(j)'
  <2>1. ASSUME NEW v, step[j] = "answered", Served(v, frame[j].began)
        PROVE  Served(v, frame[j].began)'
    <3>1. PICK t : t = frame[j].began
      OBVIOUS
    <3>2. t \in I!Times
      BY <1>0, <2>1, <3>1 DEF CallIsSound, Frames
    <3>3. Served(v, t)'
      BY <2>1, <3>1, <3>2, KnownStays
    <3> QED BY <3>1, <3>3 DEF Served
  <2>2. CASE step[j] = "answered"
    BY <2>1, <2>2 DEF AnswerIsNew, CallIsSound, Served
  <2> QED BY <2>2 DEF AnswerIsNew
<1>4. ResultIsRecent(j)'
  <2> SUFFICES ASSUME step[j] = "done", frame[j].result # None
               PROVE  Recent(frame[j].result, frame[j].began)'
    BY DEF ResultIsRecent, Recent
  <2>1. PICK v, t : v = frame[j].result /\ t = frame[j].began
    OBVIOUS
  <2>2. t \in I!Times /\ Recent(v, t)
    BY <1>0, <2>1 DEF CallIsSound, Frames, ResultIsRecent
  <2>3. Recent(v, t)'
    BY <2>2, KnownStays
  <2> QED BY <2>1, <2>3 DEF Recent
<1> QED BY <1>1, <1>2, <1>3, <1>4 DEF CallIsSound

LEMMA FlightStays ==
  ASSUME InspectionTypeOK, HistoryGrows, NEW f \in Flights, FlightIsSound(f), flight'[f] = flight[f]
  PROVE  FlightIsSound(f)'
<1> SUFFICES ASSUME flight[f] # None PROVE FlightIsSound(f)'
  BY DEF FlightIsSound
<1>1. flight[f] \in I!Asked
  BY DEF InspectionTypeOK
<1>2. flight[f].began \in I!Times /\ flight[f].began <= now'
  BY <1>1, DocumentsAssumption DEF FlightIsSound, HistoryGrows, InspectionTypeOK, I!Asked, I!Times
<1>3. PICK v, t : v = flight[f].version /\ t = flight[f].began
  OBVIOUS
<1>4. Recent(v, t) => Recent(v, t)'
  BY <1>2, <1>3, KnownStays
<1> QED BY <1>2, <1>3, <1>4 DEF FlightIsSound, Recent

LEMMA CacheStays ==
  ASSUME InspectionTypeOK, HistoryGrows, CachedWasServed, cache' = cache
  PROVE  CachedWasServed'
<1> SUFFICES ASSUME cache # None, cache.version \notin Unbound PROVE CachedWasServed'
  BY DEF CachedWasServed
<1>1. PICK v, t : v = cache.version /\ t = cache.at
  OBVIOUS
<1>2. t \in I!Times /\ Served(v, t)
  BY <1>1 DEF InspectionTypeOK, CachedWasServed, I!Entries
<1>3. Served(v, t)'
  BY <1>2, KnownStays
<1> QED BY <1>1, <1>3 DEF CachedWasServed, Served

(* A step of a call that waits for no session, before it or after.         *)
LEMMA WaitingStays ==
  ASSUME PromiseInv, NEW i \in Inspections, OthersKept(i),
         step[i] # "awaits", step'[i] # "awaits", UNCHANGED <<promise, flight>>
  PROVE  PromiseInv'
<1>1. \A j \in Inspections, f \in Flights : (Awaits(j, f) <=> Awaits(j, f)') /\ (Leads(j, f) <=> Leads(j, f)')
  BY DEF OthersKept, Awaits, Leads
<1>2. AwaitedIsThere'
  BY DEF PromiseInv, AwaitedIsThere, OthersKept
<1>3. PromiseIsLed'
  BY DEF PromiseInv, PromiseIsLed, OthersKept, Leads, Awaits
<1>4. FlightIsAwaited' /\ LeaderIsPromised' /\ OneLeader' /\ OpenIsPromised'
  BY <1>1 DEF PromiseInv, FlightIsAwaited, LeaderIsPromised, OneLeader, OpenIsPromised
<1> QED BY <1>2, <1>3, <1>4 DEF PromiseInv
(* A call that inspects directly.                                          *)
DirectStep(i) ==
  /\ InspectionTypeOK' /\ step'[i] \notin {"idle", "awaits"} /\ CallIsSound(i)' /\ CachedWasServed'
  /\ OthersKept(i) /\ UNCHANGED <<now, current, last, promise, flight>>

LEMMA DirectStepIsSound ==
  ASSUME InspectionInv, NEW i \in Inspections, step[i] # "awaits", DirectStep(i)
  PROVE  InspectionInv'
<1>1. HistoryGrows
  BY TimePasses DEF InspectionInv, DocumentsInv, DirectStep, I!service
<1>2. \A j \in Inspections : CallIsSound(j)'
  BY <1>1, CallStays DEF InspectionInv, DocumentsInv, DirectStep, OthersKept
<1>3. \A f \in Flights : FlightIsSound(f)'
  BY <1>1, FlightStays DEF InspectionInv, DocumentsInv, DirectStep
<1>4. PromiseInv'
  BY WaitingStays DEF InspectionInv, DirectStep
<1> QED BY <1>1, <1>2, <1>3, <1>4 DEF InspectionInv, DocumentsInv, DirectStep, HistoryGrows

LEMMA BeginStep == ASSUME InspectionInv, NEW i \in Inspections, I!Begin(i) PROVE InspectionInv'
<1> DEFINE r == [I!Local EXCEPT !.began = now]
<1>1. r \in Frames /\ r.began = now
  BY DEF InspectionInv, InspectionTypeOK, Frames, I!Local
<1>2. I!Go(i, "look", r)
  BY DEF I!Begin
<1> HIDE DEF r
<1>3. step'[i] = "look" /\ frame'[i] = r /\ OthersKept(i) /\ InspectionTypeOK'
  BY <1>1, <1>2, Goes DEF I!Begin, I!service, Steps, OthersKept, InspectionInv, InspectionTypeOK
<1>4. CallIsSound(i)'
  BY <1>1, <1>3, DocumentsAssumption, MissingAssumption
     DEF CallIsSound, HeldWasServed, AnswerIsNew, ResultIsRecent, InspectionInv, InspectionTypeOK, I!Begin, I!service, I!Times
<1>5. CachedWasServed'
  BY DEF I!Begin, I!service, InspectionInv, DocumentsInv, CachedWasServed, Served
<1> QED BY <1>3, <1>4, <1>5, DirectStepIsSound DEF DirectStep, I!Begin, I!service
(* What Returns and Fails leave in the frame.                              *)
LEMMA ReturnsGoes ==
  ASSUME InspectionTypeOK, NEW i \in Inspections, NEW v \in Versions \union {None}, I!Returns(i, v)
  PROVE  /\ step' \in [Inspections -> Steps] /\ frame' \in [Inspections -> Frames] /\ OthersKept(i)
         /\ step'[i] = "done" /\ frame'[i].began = frame[i].began /\ frame'[i].result = v
<1> DEFINE r == [I!Local EXCEPT !.began = frame[i].began, !.result = v]
<1>1. r \in Frames /\ r.began = frame[i].began /\ r.result = v
  BY DEF InspectionTypeOK, Frames, I!Local
<1>2. I!Go(i, "done", r)
  BY DEF I!Returns
<1> HIDE DEF r
<1> QED BY <1>1, <1>2, Goes DEF Steps, OthersKept

LEMMA ReturnIsSound ==
  ASSUME InspectionInv, NEW i \in Inspections, step[i] # "idle", NEW v \in Versions \union {None},
         v # None => Recent(v, frame[i].began), I!Returns(i, v), UNCHANGED <<now, last>>
  PROVE  CallIsSound(i)'
<1>1. step'[i] = "done" /\ frame'[i].began = frame[i].began /\ frame'[i].result = v
  BY ReturnsGoes DEF InspectionInv
<1>2. frame[i].began # None /\ frame[i].began <= now
  BY DEF InspectionInv, DocumentsInv, CallIsSound
<1> QED BY <1>1, <1>2 DEF CallIsSound, HeldWasServed, AnswerIsNew, ResultIsRecent, Recent

LEMMA LookStep == ASSUME InspectionInv, NEW i \in Inspections, I!Look(i) PROVE InspectionInv'
<1>0. UNCHANGED <<now, current, last, promise, flight>> /\ step[i] = "look"
  BY DEF I!Look, I!service
<1>1. CASE cache # None /\ cache.version \in Unbound /\ cache' = None /\ I!Fails(i)
  <2>1. I!Returns(i, None)
    BY <1>1 DEF I!Fails
  <2>2. CallIsSound(i)' /\ OthersKept(i) /\ step'[i] = "done"
    BY <1>0, <2>1, ReturnIsSound, ReturnsGoes DEF InspectionInv
  <2>3. InspectionTypeOK'
    BY <1>0, <1>1, <2>1, ReturnsGoes DEF InspectionInv, InspectionTypeOK, Steps
  <2> QED BY <1>0, <1>1, <2>2, <2>3, DirectStepIsSound DEF DirectStep, CachedWasServed
<1>2. CASE /\ cache # None /\ cache.version \notin Unbound /\ I!Fresh(cache, frame[i].began)
           /\ I!Returns(i, cache.version) /\ UNCHANGED cache
  <2>1. cache.version \in Versions /\ cache.at \in I!Times
    BY <1>2 DEF InspectionInv, InspectionTypeOK, I!Entries
  <2>2. frame[i].began \in I!Times
    BY <1>0 DEF InspectionInv, InspectionTypeOK, Frames, DocumentsInv, CallIsSound
  <2>3. Served(cache.version, cache.at)
    BY <1>2 DEF InspectionInv, DocumentsInv, CachedWasServed
  <2>4. last[cache.version] \in I!Times
    BY <2>1, <2>3 DEF Served, InspectionInv, InspectionTypeOK
  <2>5. Recent(cache.version, frame[i].began)
    BY <1>2, <2>1, <2>2, <2>3, <2>4, DocumentsAssumption DEF Served, Recent, I!Fresh, I!Times
  <2>6. CallIsSound(i)' /\ OthersKept(i) /\ step'[i] = "done"
    BY <1>0, <1>2, <2>1, <2>5, ReturnIsSound, ReturnsGoes DEF InspectionInv
  <2>7. InspectionTypeOK'
    BY <1>0, <1>2, <2>1, ReturnsGoes DEF InspectionInv, InspectionTypeOK, Steps
  <2>8. CachedWasServed'
    BY <1>0, <1>2 DEF InspectionInv, DocumentsInv, CachedWasServed, Served
  <2> QED BY <1>0, <2>6, <2>7, <2>8, DirectStepIsSound DEF DirectStep
<1>3. CASE /\ cache # None => cache.version \notin Unbound /\ ~I!Fresh(cache, frame[i].began)
           /\ I!Go(i, "asked", [frame[i] EXCEPT !.held = cache]) /\ UNCHANGED cache
  <2> DEFINE r == [frame[i] EXCEPT !.held = cache]
  <2>1. r \in Frames /\ r.began = frame[i].began /\ r.held = cache
    BY DEF InspectionInv, InspectionTypeOK, Frames
  <2>2. I!Go(i, "asked", r)
    BY <1>3
  <2> HIDE DEF r
  <2>3. step'[i] = "asked" /\ frame'[i] = r /\ OthersKept(i) /\ InspectionTypeOK'
    BY <1>0, <1>3, <2>1, <2>2, Goes DEF Steps, OthersKept, InspectionInv, InspectionTypeOK
  <2>4. cache # None => Served(cache.version, cache.at)
    BY <1>3 DEF InspectionInv, DocumentsInv, CachedWasServed
  <2>5. CallIsSound(i)'
    BY <1>0, <1>3, <2>1, <2>3, <2>4
       DEF CallIsSound, HeldWasServed, AnswerIsNew, ResultIsRecent, InspectionInv, DocumentsInv, Served
  <2>6. CachedWasServed'
    BY <1>0, <1>3 DEF InspectionInv, DocumentsInv, CachedWasServed, Served
  <2> QED BY <1>0, <2>3, <2>5, <2>6, DirectStepIsSound DEF DirectStep
<1> QED BY <1>1, <1>2, <1>3 DEF I!Look
(* A 304 is only sent for the document that is held and still served.      *)
LEMMA ResponseIs ==
  ASSUME NEW i \in Inspections, NEW response \in I!Responses(i)
  PROVE  \/ response.status = 200 /\ response.version = current /\ response.control \in Controls
         \/ /\ response.status \in {304, 500} /\ response.control \in {None, "no-store"}
            /\ response.status = 304 /\ frame[i].held # None => frame[i].held.version = current
<1> DEFINE statuses == IF frame[i].held = None THEN {304, 500}
                       ELSE IF frame[i].held.version = current THEN {304, 500} ELSE {500}
           full  == [status : {200}, version : {current}, control : Controls,
                     aep : BOOLEAN, fits : BOOLEAN, valid : BOOLEAN]
           other == [status : statuses, version : {None}, control : {None, "no-store"},
                     aep : {FALSE}, fits : {FALSE}, valid : {FALSE}]
<1>1. response \in full \/ response \in other
  BY DEF I!Responses
<1>2. CASE response \in full
  BY <1>2
<1>3. CASE response \in other
  <2> HIDE DEF statuses
  <2>1. response.status \in statuses /\ response.control \in {None, "no-store"}
    BY <1>3
  <2> QED BY <2>1 DEF statuses
<1> QED BY <1>1, <1>2, <1>3

(* What fetchInspectService makes of an answer: the document that is       *)
(* served, or word that the one that is held is served still.              *)
LEMMA FetchedIsServed ==
  ASSUME InspectionTypeOK, NEW i \in Inspections, NEW response \in I!Responses(i), NEW hops,
         I!Fetched(hops, response) # None
  PROVE  /\ I!Fetched(hops, response) \in I!Answers
         /\ I!Fetched(hops, response).version \in {current, None}
         /\ I!Fetched(hops, response).version = None /\ frame[i].held # None => frame[i].held.version = current
<1>1. CASE response.status = 304
  <2>1. I!Fetched(hops, response) = [version |-> None, control |-> response.control]
    BY <1>1 DEF I!Fetched
  <2>2. /\ response.control \in I!Words \union {None}
        /\ frame[i].held # None => frame[i].held.version = current
    BY <1>1, ResponseIs DEF I!Words
  <2> QED BY <2>1, <2>2 DEF I!Answers
<1>2. CASE response.status # 304
  <2> DEFINE usable == response.status \in 200..299 /\ response.aep /\ response.fits /\ response.valid
             given  == [version |-> response.version, control |-> response.control]
  <2>1. I!Fetched(hops, response) = IF usable THEN given ELSE None
    <3>1. CASE usable
      BY <1>2, <3>1 DEF I!Fetched
    <3>2. CASE ~usable
      BY <1>2, <3>2 DEF I!Fetched
    <3> QED BY <3>1, <3>2
  <2>2. response.status \in 200..299 /\ I!Fetched(hops, response) = given
    BY <2>1
  <2> HIDE DEF usable
  <2>3. response.version = current /\ response.control \in Controls
    BY <1>2, <2>2, ResponseIs
  <2>4. current # None
    BY DocumentsAssumption, MissingAssumption DEF InspectionTypeOK
  <2> QED BY <2>2, <2>3, <2>4 DEF I!Answers, I!Words, InspectionTypeOK
<1> QED BY <1>1, <1>2

LEMMA ServeStep == ASSUME InspectionInv, NEW i \in Inspections, I!Serve(i) PROVE InspectionInv'
<1>0. UNCHANGED <<now, current, last, cache, promise, flight>> /\ step[i] = "asked"
  BY DEF I!Serve, I!service
<1>1. CachedWasServed'
  BY <1>0 DEF InspectionInv, DocumentsInv, CachedWasServed, Served
<1>2. PICK response \in I!Responses(i), hops \in {<<>>, <<"same">>, <<"other">>} :
        IF I!Fetched(hops, response) = None THEN I!Fails(i)
        ELSE I!Go(i, "answered", [frame[i] EXCEPT !.answer = I!Fetched(hops, response)])
  BY DEF I!Serve
<1>3. CASE I!Fails(i)
  <2>1. I!Returns(i, None)
    BY <1>3 DEF I!Fails
  <2>2. CallIsSound(i)' /\ OthersKept(i) /\ step'[i] = "done"
    BY <1>0, <2>1, ReturnIsSound, ReturnsGoes DEF InspectionInv
  <2>3. InspectionTypeOK'
    BY <1>0, <2>1, ReturnsGoes DEF InspectionInv, InspectionTypeOK, Steps
  <2> QED BY <1>0, <1>1, <2>2, <2>3, DirectStepIsSound DEF DirectStep
<1>4. CASE /\ I!Fetched(hops, response) # None
           /\ I!Go(i, "answered", [frame[i] EXCEPT !.answer = I!Fetched(hops, response)])
  <2> DEFINE answer == I!Fetched(hops, response)
             r == [frame[i] EXCEPT !.answer = answer]
  <2>1. /\ answer \in I!Answers /\ answer # None /\ answer.version \in {current, None}
        /\ answer.version = None /\ frame[i].held # None => frame[i].held.version = current
    BY <1>4, FetchedIsServed DEF InspectionInv
  <2>2. I!Go(i, "answered", r)
    BY <1>4
  <2> HIDE DEF answer
  <2>3. r \in Frames /\ r.began = frame[i].began /\ r.held = frame[i].held /\ r.answer = answer
    BY <2>1 DEF InspectionInv, InspectionTypeOK, Frames
  <2> HIDE DEF r
  <2>4. step'[i] = "answered" /\ frame'[i] = r /\ OthersKept(i) /\ InspectionTypeOK'
    BY <1>0, <2>2, <2>3, Goes DEF Steps, OthersKept, InspectionInv, InspectionTypeOK
  <2>5. frame[i].began # None /\ frame[i].began <= now
    BY <1>0 DEF InspectionInv, DocumentsInv, CallIsSound
  <2>6. Served(current, frame[i].began)
    BY <2>5, DocumentsAssumption, MissingAssumption
       DEF InspectionInv, InspectionTypeOK, DocumentsInv, ServedUntilNow, Served, Frames, I!Times
  <2>7. HeldWasServed(i)'
    BY <1>0, <2>3, <2>4 DEF InspectionInv, DocumentsInv, CallIsSound, HeldWasServed, Served
  <2>8. AnswerIsNew(i)'
    BY <1>0, <2>1, <2>3, <2>4, <2>6 DEF AnswerIsNew, Served
  <2>9. CallIsSound(i)'
    BY <1>0, <2>3, <2>4, <2>5, <2>7, <2>8 DEF CallIsSound, ResultIsRecent
  <2> QED BY <1>0, <1>1, <2>4, <2>9, DirectStepIsSound DEF DirectStep
<1> QED BY <1>2, <1>3, <1>4

LEMMA ReceiveStep == ASSUME InspectionInv, NEW i \in Inspections, I!Receive(i) PROVE InspectionInv'
<1> DEFINE held == frame[i].held
           answer == frame[i].answer
           began == frame[i].began
           word == IF answer.control = None THEN held.control ELSE answer.control
           fresh == IF answer.control = None THEN "default" ELSE answer.control
<1>0. UNCHANGED <<now, current, last, promise, flight>> /\ step[i] = "answered"
  BY DEF I!Receive, I!service
<1>1. began \in I!Times /\ answer \in I!Answers /\ held \in I!Entries \union {None} /\ frame[i] \in Frames
  BY <1>0 DEF InspectionInv, InspectionTypeOK, DocumentsInv, CallIsSound, AnswerIsNew, Frames
<1>2. ASSUME NEW v \in Versions \ Unbound, Served(v, began)
      PROVE  Recent(v, began)
  BY <1>1, <1>2, DocumentsAssumption DEF Served, Recent, InspectionInv, InspectionTypeOK, I!Times
<1>3. /\ answer.version # None => Served(answer.version, began)
      /\ answer.version = None /\ held # None => Served(held.version, began) /\ held.version \notin Unbound
  BY <1>0 DEF InspectionInv, DocumentsInv, CallIsSound, AnswerIsNew, HeldWasServed
<1>4. ASSUME NEW v \in Versions \union {None}, v # None => v \notin Unbound /\ Served(v, began), I!Returns(i, v),
             \/ UNCHANGED cache
             \/ cache' = None
             \/ v # None /\ \E c \in I!Words : cache' = [version |-> v, at |-> began, control |-> c]
      PROVE  InspectionInv'
  <2>1. CallIsSound(i)' /\ OthersKept(i) /\ step'[i] = "done"
    BY <1>0, <1>2, <1>4, ReturnIsSound, ReturnsGoes DEF InspectionInv, Served
  <2>2. cache' \in I!Entries \union {None}
    BY <1>1, <1>4 DEF InspectionInv, InspectionTypeOK, I!Entries
  <2>3. InspectionTypeOK'
    BY <1>0, <1>4, <2>2, ReturnsGoes DEF InspectionInv, InspectionTypeOK, Steps
  <2>4. CachedWasServed'
    BY <1>0, <1>4 DEF InspectionInv, DocumentsInv, CachedWasServed, Served
  <2> QED BY <1>0, <2>1, <2>3, <2>4, DirectStepIsSound DEF DirectStep
<1>5. CASE I!Fails(i) /\ UNCHANGED cache
  BY <1>4, <1>5 DEF I!Fails
<1>6. CASE /\ answer.version = None /\ held # None
           /\ I!Keep(I!Refreshed(held, answer, began)) /\ I!Returns(i, held.version)
  <2>1. held.version \in Versions /\ word \in I!Words
    BY <1>1, <1>6 DEF I!Entries, I!Answers
  <2>2. held.version # None
    BY <2>1, MissingAssumption
  <2>3. cache' = None \/ cache' = [version |-> held.version, at |-> began, control |-> word]
    BY <1>6 DEF I!Keep, I!Refreshed, I!Entry
  <2> HIDE DEF word
  <2> QED BY <1>3, <1>4, <1>6, <2>1, <2>2, <2>3
<1>7. CASE /\ answer.version \in Versions \ Unbound
           /\ I!Keep(I!Entry(answer.version, began, fresh)) /\ I!Returns(i, answer.version)
  <2>1. fresh \in I!Words
    BY <1>1 DEF I!Answers, I!Words
  <2>2. answer.version # None
    BY <1>7, MissingAssumption
  <2>3. cache' = None \/ cache' = [version |-> answer.version, at |-> began, control |-> fresh]
    BY <1>7 DEF I!Keep, I!Entry
  <2> HIDE DEF fresh
  <2> QED BY <1>3, <1>4, <1>7, <2>1, <2>2, <2>3
<1> QED BY <1>5, <1>6, <1>7 DEF I!Receive
-----------------------------------------------------------------------------
(* An inspection of a session.                                             *)
LEMMA SettleStep == ASSUME InspectionInv, NEW f \in Flights, I!Settle(f) PROVE InspectionInv'
<1>0. UNCHANGED <<now, current, last, cache, promise, step, frame>> /\ flight[f] # None
  BY DEF I!Settle, I!service
<1>1. PICK v \in {None} \union {w \in Versions : last[w] # None /\ last[w] + Lifetime >= flight[f].began} :
        flight' = [flight EXCEPT ![f].settled = TRUE, ![f].version = IF v \in Unbound THEN None ELSE v]
  BY DEF I!Settle
<1>2. flight[f] \in I!Asked
  BY <1>0 DEF InspectionInv, InspectionTypeOK
<1> DEFINE w == IF v \in Unbound THEN None ELSE v
           r == [flight[f] EXCEPT !.settled = TRUE, !.version = w]
<1>3. w \in Versions \union {None} /\ (w # None => Recent(w, flight[f].began))
  BY <1>1 DEF Recent
<1>4. r \in I!Asked /\ r # None /\ r.settled /\ r.version = w /\ r.began = flight[f].began
  BY <1>2, <1>3, MissingAssumption DEF I!Asked
<1>5. flight' = [flight EXCEPT ![f] = r]
  BY <1>0, <1>1, <1>2 DEF InspectionInv, InspectionTypeOK, I!Asked
<1> HIDE DEF r
<1>6. flight' \in [Flights -> I!Asked \union {None}] /\ flight'[f] = r /\ \A g \in Flights \ {f} : flight'[g] = flight[g]
  BY <1>4, <1>5 DEF InspectionInv, InspectionTypeOK
<1> HIDE DEF w
<1>7. InspectionTypeOK'
  BY <1>0, <1>6 DEF InspectionInv, InspectionTypeOK
<1>8. HistoryGrows
  BY <1>0, TimePasses DEF InspectionInv, DocumentsInv, I!service
<1>9. FlightIsSound(f)'
  BY <1>0, <1>3, <1>4, <1>6 DEF InspectionInv, DocumentsInv, FlightIsSound, Recent
<1>10. DocumentsInv'
  <2>1. \A j \in Inspections : CallIsSound(j)'
    BY <1>0, <1>8, CallStays DEF InspectionInv, DocumentsInv
  <2>2. \A g \in Flights : FlightIsSound(g)'
    BY <1>6, <1>8, <1>9, FlightStays DEF InspectionInv, DocumentsInv
  <2>3. CachedWasServed'
    BY <1>0, <1>8, CacheStays DEF InspectionInv, DocumentsInv
  <2> QED BY <1>8, <2>1, <2>2, <2>3 DEF DocumentsInv, HistoryGrows
<1>11. PromiseInv'
  <2>1. \A j \in Inspections, g \in Flights : (Awaits(j, g) <=> Awaits(j, g)') /\ (Leads(j, g) <=> Leads(j, g)')
    BY <1>0 DEF Awaits, Leads
  <2>2. AwaitedIsThere'
    BY <1>0, <1>4, <1>6 DEF InspectionInv, PromiseInv, AwaitedIsThere
  <2>3. PromiseIsLed'
    BY <1>0 DEF InspectionInv, PromiseInv, PromiseIsLed, Leads, Awaits
  <2>4. FlightIsAwaited' /\ LeaderIsPromised' /\ OneLeader'
    BY <1>0, <1>6, <2>1 DEF InspectionInv, PromiseInv, FlightIsAwaited, LeaderIsPromised, OneLeader
  <2>5. OpenIsPromised'
    BY <1>0, <1>4, <1>6 DEF InspectionInv, PromiseInv, OpenIsPromised
  <2> QED BY <2>2, <2>3, <2>4, <2>5 DEF PromiseInv
<1> QED BY <1>7, <1>10, <1>11 DEF InspectionInv

LEMMA TimeStep ==
  ASSUME InspectionInv, I!Tick \/ I!Deploy \/ UNCHANGED inspecting
  PROVE  InspectionInv'
<1>1. UNCHANGED <<cache, promise, flight, step, frame>>
  BY DEF I!Tick, I!Deploy, inspecting
<1>2. HistoryGrows
  BY TimePasses DEF InspectionInv, DocumentsInv, inspecting, I!service
<1>3. InspectionTypeOK'
  BY <1>1, <1>2 DEF InspectionInv, InspectionTypeOK, HistoryGrows
<1>4. DocumentsInv'
  <2>1. \A j \in Inspections : CallIsSound(j)'
    BY <1>1, <1>2, CallStays DEF InspectionInv, DocumentsInv
  <2>2. \A g \in Flights : FlightIsSound(g)'
    BY <1>1, <1>2, FlightStays DEF InspectionInv, DocumentsInv
  <2>3. CachedWasServed'
    BY <1>1, <1>2, CacheStays DEF InspectionInv, DocumentsInv
  <2> QED BY <1>2, <2>1, <2>2, <2>3 DEF DocumentsInv, HistoryGrows
<1>5. PromiseInv'
  BY <1>1 DEF InspectionInv, PromiseInv, AwaitedIsThere, FlightIsAwaited, LeaderIsPromised, OneLeader,
     PromiseIsLed, OpenIsPromised, Awaits, Leads
<1> QED BY <1>3, <1>4, <1>5 DEF InspectionInv

(* A call that is not waiting leaves a promise to be made: each one under  *)
(* way has a call of its own that waits for it.                            *)
LEMMA PromiseToMake ==
  ASSUME InspectionInv, NEW i \in Inspections, step[i] # "awaits"
  PROVE  \E g \in Flights : flight[g] = None
<1> SUFFICES ASSUME \A g \in Flights : flight[g] # None PROVE FALSE
  OBVIOUS
<1> DEFINE waiter == [g \in Flights |-> CHOOSE j \in Inspections : Awaits(j, g)]
           rest == Inspections \ {i}
<1>1. \A g \in Flights : waiter[g] \in Inspections /\ Awaits(waiter[g], g)
  BY DEF InspectionInv, PromiseInv, FlightIsAwaited
<1>2. waiter \in [Flights -> rest]
  BY <1>1 DEF Awaits
<1>3. \A f, g \in Flights : waiter[f] = waiter[g] => f = g
  BY <1>1 DEF Awaits
<1>4. IsFiniteSet(rest) /\ Cardinality(rest) = Cardinality(Inspections) - 1
  BY FlightsAssumption, FS_RemoveElement
<1>5. Cardinality(Inspections) \in Nat /\ Cardinality(Flights) \in Nat /\ Cardinality(rest) \in Nat
  BY FlightsAssumption, <1>4, FS_CardinalityType
<1>6. Cardinality(rest) < Cardinality(Flights)
  BY FlightsAssumption, <1>4, <1>5
<1> HIDE DEF waiter, rest
<1> QED BY FlightsAssumption, <1>2, <1>3, <1>4, <1>6, FS_PigeonHole
(* Steps of a call that begins or ends its wait keep the documents sound.  *)
WaitStep(i) ==
  /\ InspectionTypeOK' /\ OthersKept(i) /\ CallIsSound(i)'
  /\ UNCHANGED <<now, current, last, cache>>

LEMMA WaitStepIsSound ==
  ASSUME InspectionInv, NEW i \in Inspections, WaitStep(i), \A g \in Flights : FlightIsSound(g)'
  PROVE  DocumentsInv'
<1>1. HistoryGrows
  BY TimePasses DEF InspectionInv, DocumentsInv, WaitStep, I!service
<1>2. \A j \in Inspections : CallIsSound(j)'
  BY <1>1, CallStays DEF InspectionInv, DocumentsInv, WaitStep, OthersKept
<1>3. CachedWasServed'
  BY <1>1, CacheStays DEF InspectionInv, DocumentsInv, WaitStep
<1> QED BY <1>1, <1>2, <1>3 DEF DocumentsInv, HistoryGrows

LEMMA JoinStep ==
  ASSUME InspectionInv, NEW i \in Inspections, I!Once(i), promise # None
  PROVE  InspectionInv'
<1> DEFINE r == [I!Local EXCEPT !.began = flight[promise].began, !.flight = promise]
<1>0. UNCHANGED <<now, current, last, cache, promise, flight>> /\ step[i] # "awaits" /\ I!Go(i, "awaits", r)
  BY DEF I!Once, I!service
<1>1. promise \in Flights /\ flight[promise] # None /\ FlightIsSound(promise)
  BY DEF InspectionInv, InspectionTypeOK, PromiseInv, PromiseIsLed, Leads, Awaits, AwaitedIsThere, DocumentsInv
<1>2. flight[promise].began \in I!Times /\ flight[promise].began # None /\ flight[promise].began <= now
  BY <1>1, MissingAssumption DEF InspectionInv, InspectionTypeOK, I!Asked, FlightIsSound
<1>3. r \in Frames /\ r.began = flight[promise].began /\ r.flight = promise /\ r.leads = FALSE
  BY <1>1, <1>2 DEF Frames, I!Local
<1> HIDE DEF r
<1>4. step'[i] = "awaits" /\ frame'[i] = r /\ OthersKept(i) /\ InspectionTypeOK'
  BY <1>0, <1>3, Goes DEF InspectionInv, InspectionTypeOK, Steps, OthersKept
<1>5. CallIsSound(i)'
  BY <1>0, <1>2, <1>3, <1>4 DEF CallIsSound, HeldWasServed, AnswerIsNew, ResultIsRecent
<1>6. HistoryGrows
  BY <1>0, TimePasses DEF InspectionInv, DocumentsInv, I!service
<1>7. \A g \in Flights : FlightIsSound(g)'
  BY <1>0, <1>6, FlightStays DEF InspectionInv, DocumentsInv
<1>8. DocumentsInv'
  BY <1>0, <1>4, <1>5, <1>7, WaitStepIsSound DEF WaitStep
<1>9. PromiseInv'
  <2>1. \A j \in Inspections, g \in Flights :
          /\ Leads(j, g)' <=> Leads(j, g)
          /\ Awaits(j, g) => Awaits(j, g)'
    BY <1>0, <1>3, <1>4 DEF OthersKept, Awaits, Leads
  <2>2. AwaitedIsThere'
    BY <1>0, <1>1, <1>3, <1>4 DEF InspectionInv, PromiseInv, AwaitedIsThere, OthersKept
  <2>3. FlightIsAwaited' /\ LeaderIsPromised' /\ OneLeader' /\ OpenIsPromised'
    BY <1>0, <2>1 DEF InspectionInv, PromiseInv, FlightIsAwaited, LeaderIsPromised, OneLeader, OpenIsPromised
  <2>4. PromiseIsLed'
    <3>1. PICK j \in Inspections : Leads(j, promise)
      BY <1>1 DEF InspectionInv, PromiseInv, PromiseIsLed
    <3>2. j # i
      BY <1>0, <3>1 DEF Leads, Awaits
    <3> QED BY <1>0, <1>4, <3>1, <3>2 DEF PromiseIsLed, Leads, Awaits, OthersKept
  <2> QED BY <2>2, <2>3, <2>4 DEF PromiseInv
<1> QED BY <1>4, <1>8, <1>9 DEF InspectionInv

LEMMA LeadStep ==
  ASSUME InspectionInv, NEW i \in Inspections, I!Once(i), promise = None
  PROVE  InspectionInv'
<1> DEFINE f == CHOOSE g \in Flights : flight[g] = None
           new == [began |-> now, settled |-> FALSE, version |-> None]
           r == [I!Local EXCEPT !.began = now, !.flight = f, !.leads = TRUE]
<1>0. /\ UNCHANGED <<now, current, last, cache>> /\ step[i] # "awaits" /\ I!Go(i, "awaits", r)
      /\ promise' = f /\ flight' = [flight EXCEPT ![f] = new]
  BY DEF I!Once, I!service
<1>1. f \in Flights /\ flight[f] = None
  BY <1>0, PromiseToMake
<1> HIDE DEF f
<1>2. now \in I!Times /\ now # None
  BY MissingAssumption DEF InspectionInv, InspectionTypeOK
<1>3. /\ r \in Frames /\ r.began = now /\ r.flight = f /\ r.leads = TRUE
      /\ new \in I!Asked /\ new.began = now /\ new.settled = FALSE /\ new.version = None
  BY <1>1, <1>2 DEF Frames, I!Local, I!Asked
<1> HIDE DEF r, new
<1>4. new # None /\ now <= now
  <2>1. new # None
    BY <1>3, MissingAssumption
  <2>2. now <= now
    BY <1>2, DocumentsAssumption DEF I!Times
  <2> QED BY <2>1, <2>2
<1>5. flight' \in [Flights -> I!Asked \union {None}] /\ flight'[f] = new /\ \A g \in Flights \ {f} : flight'[g] = flight[g]
  BY <1>0, <1>1, <1>3 DEF InspectionInv, InspectionTypeOK
<1>6. step'[i] = "awaits" /\ frame'[i] = r /\ OthersKept(i) /\ InspectionTypeOK'
  BY <1>0, <1>1, <1>3, <1>5, Goes DEF InspectionInv, InspectionTypeOK, Steps, OthersKept
<1>7. CallIsSound(i)'
  BY <1>0, <1>2, <1>3, <1>4, <1>6 DEF CallIsSound, HeldWasServed, AnswerIsNew, ResultIsRecent
<1>8. HistoryGrows
  BY <1>0, TimePasses DEF InspectionInv, DocumentsInv, I!service
<1>9. \A g \in Flights : FlightIsSound(g)'
  BY <1>0, <1>3, <1>4, <1>5, <1>8, FlightStays DEF InspectionInv, DocumentsInv, FlightIsSound
<1>10. DocumentsInv'
  BY <1>0, <1>6, <1>7, <1>9, WaitStepIsSound DEF WaitStep
<1>11. PromiseInv'
  <2>1. \A j \in Inspections \ {i}, g \in Flights : Awaits(j, g)' <=> Awaits(j, g)
    BY <1>6 DEF OthersKept, Awaits
  <2>2. \A j \in Inspections, g \in Flights : ~Leads(j, g)
    BY MissingAssumption DEF InspectionInv, PromiseInv, LeaderIsPromised
  <2>3. \A j \in Inspections, g \in Flights : Leads(j, g)' <=> j = i /\ g = f
    BY <1>1, <1>3, <1>6, <2>2 DEF OthersKept, Awaits, Leads
  <2>4. AwaitedIsThere'
    <3> SUFFICES ASSUME NEW j \in Inspections, step'[j] = "awaits"
                 PROVE  /\ frame'[j].flight \in Flights /\ flight'[frame'[j].flight] # None
                        /\ frame'[j].began = flight'[frame'[j].flight].began
      BY DEF AwaitedIsThere
    <3>1. CASE j = i
      BY <1>1, <1>3, <1>4, <1>5, <1>6, <3>1
    <3>2. CASE j # i
      <4>1. step[j] = "awaits" /\ frame'[j] = frame[j]
        BY <1>6, <3>2 DEF OthersKept
      <4>2. frame[j].flight \in Flights \ {f}
        BY <1>1, <4>1 DEF InspectionInv, PromiseInv, AwaitedIsThere
      <4> QED BY <1>5, <4>1, <4>2 DEF InspectionInv, PromiseInv, AwaitedIsThere
    <3> QED BY <3>1, <3>2
  <2>5. FlightIsAwaited'
    <3> SUFFICES ASSUME NEW g \in Flights, flight'[g] # None PROVE \E j \in Inspections : Awaits(j, g)'
      BY DEF FlightIsAwaited
    <3>1. CASE g = f
      BY <1>3, <1>6, <3>1 DEF Awaits
    <3>2. CASE g # f
      <4>1. PICK j \in Inspections : Awaits(j, g)
        BY <1>5, <3>2 DEF InspectionInv, PromiseInv, FlightIsAwaited
      <4>2. j # i
        BY <1>0, <4>1 DEF Awaits
      <4> QED BY <2>1, <4>1, <4>2
    <3> QED BY <3>1, <3>2
  <2>6. LeaderIsPromised' /\ OneLeader'
    BY <1>0, <2>3 DEF LeaderIsPromised, OneLeader
  <2>7. PromiseIsLed'
    BY <1>0, <1>3, <1>6 DEF PromiseIsLed, Leads, Awaits
  <2>8. OpenIsPromised'
    BY <1>0, <1>5, MissingAssumption DEF InspectionInv, PromiseInv, OpenIsPromised
  <2> QED BY <2>4, <2>5, <2>6, <2>7, <2>8 DEF PromiseInv
<1> QED BY <1>6, <1>10, <1>11 DEF InspectionInv
LEMMA ReturnStep == ASSUME InspectionInv, NEW i \in Inspections, I!Return(i) PROVE InspectionInv'
<1> DEFINE f == frame[i].flight
           v == flight[f].version
<1>0. /\ UNCHANGED <<now, current, last, cache>> /\ step[i] = "awaits" /\ flight[f].settled /\ I!Returns(i, v)
      /\ promise' = IF frame[i].leads THEN None ELSE promise
      /\ flight' = IF \E j \in Inspections \ {i} : Awaits(j, f) THEN flight ELSE [flight EXCEPT ![f] = None]
  BY DEF I!Return, I!service, I!Clears, Awaits
<1>1. f \in Flights /\ flight[f] # None /\ frame[i].began = flight[f].began
  BY <1>0 DEF InspectionInv, PromiseInv, AwaitedIsThere
<1>2. v \in Versions \union {None} /\ (v # None => Recent(v, frame[i].began))
  BY <1>1 DEF InspectionInv, InspectionTypeOK, I!Asked, DocumentsInv, FlightIsSound
<1>3. step'[i] = "done" /\ OthersKept(i) /\ CallIsSound(i)'
  BY <1>0, <1>2, ReturnsGoes, ReturnIsSound DEF InspectionInv
<1>4. /\ flight' \in [Flights -> I!Asked \union {None}]
      /\ \A g \in Flights \ {f} : flight'[g] = flight[g]
      /\ flight'[f] # None => flight'[f] = flight[f] /\ \E j \in Inspections \ {i} : Awaits(j, f)
      /\ (\E j \in Inspections \ {i} : Awaits(j, f)) => flight'[f] = flight[f]
  BY <1>0, <1>1 DEF InspectionInv, InspectionTypeOK
<1>5. InspectionTypeOK'
  BY <1>0, <1>2, <1>4, ReturnsGoes DEF InspectionInv, InspectionTypeOK, Steps
<1>6. HistoryGrows
  BY <1>0, TimePasses DEF InspectionInv, DocumentsInv, I!service
<1>7. \A g \in Flights : FlightIsSound(g)'
  <2> SUFFICES ASSUME NEW g \in Flights, flight'[g] # None PROVE FlightIsSound(g)'
    BY DEF FlightIsSound
  <2>1. flight'[g] = flight[g]
    BY <1>4
  <2> QED BY <1>6, <2>1, FlightStays DEF InspectionInv, DocumentsInv
<1>8. DocumentsInv'
  BY <1>0, <1>3, <1>5, <1>7, WaitStepIsSound DEF WaitStep
<1> HIDE DEF f
<1>9. PromiseInv'
  <2>1. /\ \A j \in Inspections \ {i}, g \in Flights : /\ Awaits(j, g)' <=> Awaits(j, g)
                                                       /\ Leads(j, g)' <=> Leads(j, g)
        /\ \A g \in Flights : ~Awaits(i, g)' /\ ~Leads(i, g)'
    BY <1>3 DEF OthersKept, Awaits, Leads
  <2>2. AwaitedIsThere'
    <3> SUFFICES ASSUME NEW j \in Inspections, step'[j] = "awaits"
                 PROVE  /\ frame'[j].flight \in Flights /\ flight'[frame'[j].flight] # None
                        /\ frame'[j].began = flight'[frame'[j].flight].began
      BY DEF AwaitedIsThere
    <3>1. j # i /\ step[j] = "awaits" /\ frame'[j] = frame[j]
      BY <1>3 DEF OthersKept
    <3>2. frame[j].flight \in Flights /\ flight[frame[j].flight] # None
          /\ frame[j].began = flight[frame[j].flight].began
      BY <3>1 DEF InspectionInv, PromiseInv, AwaitedIsThere
    <3>3. flight'[frame[j].flight] = flight[frame[j].flight]
      BY <1>4, <3>1, <3>2 DEF Awaits
    <3> QED BY <3>1, <3>2, <3>3
  <2>3. FlightIsAwaited'
    <3> SUFFICES ASSUME NEW g \in Flights, flight'[g] # None PROVE \E j \in Inspections : Awaits(j, g)'
      BY DEF FlightIsAwaited
    <3>1. CASE g = f
      BY <1>4, <2>1, <3>1
    <3>2. CASE g # f
      <4>1. PICK j \in Inspections : Awaits(j, g)
        BY <1>4, <3>2 DEF InspectionInv, PromiseInv, FlightIsAwaited
      <4>2. j # i
        BY <3>2, <4>1 DEF Awaits, f
      <4> QED BY <2>1, <4>1, <4>2
    <3> QED BY <3>1, <3>2
  <2>4. CASE frame[i].leads
    <3>1. Leads(i, f) /\ f = promise
      BY <1>0, <1>1, <2>4 DEF InspectionInv, PromiseInv, LeaderIsPromised, Leads, Awaits, f
    <3>2. \A j \in Inspections, g \in Flights : ~Leads(j, g)'
      BY <2>1, <3>1 DEF InspectionInv, PromiseInv, LeaderIsPromised, OneLeader
    <3>3. promise' = None
      BY <1>0, <2>4
    <3>4. LeaderIsPromised' /\ OneLeader' /\ PromiseIsLed'
      BY <3>2, <3>3 DEF LeaderIsPromised, OneLeader, PromiseIsLed
    <3>5. OpenIsPromised'
      <4> SUFFICES ASSUME NEW g \in Flights, flight'[g] # None, ~flight'[g].settled PROVE FALSE
        BY DEF OpenIsPromised
      <4>1. flight'[g] = flight[g]
        BY <1>4
      <4>2. g = f
        BY <3>1, <4>1 DEF InspectionInv, PromiseInv, OpenIsPromised
      <4> QED BY <1>0, <4>1, <4>2 DEF f
    <3> QED BY <2>2, <2>3, <3>4, <3>5 DEF PromiseInv
  <2>5. CASE ~frame[i].leads
    <3>1. promise' = promise /\ \A j \in Inspections, g \in Flights : Leads(j, g)' <=> Leads(j, g)
      BY <1>0, <2>1, <2>5 DEF Leads
    <3>2. LeaderIsPromised' /\ OneLeader'
      BY <3>1 DEF InspectionInv, PromiseInv, LeaderIsPromised, OneLeader
    <3>3. PromiseIsLed'
      <4> SUFFICES ASSUME promise # None PROVE PromiseIsLed'
        BY <3>1 DEF PromiseIsLed
      <4>1. promise \in Flights
        BY DEF InspectionInv, InspectionTypeOK
      <4>2. PICK j \in Inspections : Leads(j, promise)
        BY DEF InspectionInv, PromiseInv, PromiseIsLed
      <4>3. j # i
        BY <2>5, <4>2 DEF Leads
      <4> QED BY <1>3, <3>1, <4>2, <4>3 DEF PromiseIsLed, Leads, Awaits, OthersKept
    <3>4. OpenIsPromised'
      <4> SUFFICES ASSUME NEW g \in Flights, flight'[g] # None, ~flight'[g].settled PROVE g = promise
        BY <3>1 DEF OpenIsPromised
      <4>1. flight'[g] = flight[g]
        BY <1>4
      <4> QED BY <4>1 DEF InspectionInv, PromiseInv, OpenIsPromised
    <3> QED BY <2>2, <2>3, <3>2, <3>3, <3>4 DEF PromiseInv
  <2> QED BY <2>4, <2>5
<1> QED BY <1>5, <1>8, <1>9 DEF InspectionInv

-----------------------------------------------------------------------------
LEMMA InspectionStep == InspectionInv /\ [Signs \/ Inspects]_<<vars, inspecting>> => InspectionInv'
<1> SUFFICES ASSUME InspectionInv, [Signs \/ Inspects]_<<vars, inspecting>> PROVE InspectionInv'
  OBVIOUS
<1>1. CASE Signs \/ UNCHANGED <<vars, inspecting>>
  BY <1>1, TimeStep DEF Signs
<1>2. CASE Inspects
  <2>1. CASE \E i \in Inspections : I!Begin(i) \/ I!Look(i) \/ I!Serve(i) \/ I!Receive(i)
    BY <2>1, BeginStep, LookStep, ServeStep, ReceiveStep
  <2>2. CASE \E i \in Inspections : I!Once(i) \/ I!Return(i)
    BY <2>2, JoinStep, LeadStep, ReturnStep
  <2>3. CASE \E f \in Flights : I!Settle(f)
    BY <2>3, SettleStep
  <2>4. CASE I!Tick \/ I!Deploy
    BY <2>4, TimeStep
  <2> QED BY <1>2, <2>1, <2>2, <2>3, <2>4 DEF Inspects, I!Next
<1> QED BY <1>1, <1>2

LEMMA InspectionInit == I!Init => InspectionInv
<1> SUFFICES ASSUME I!Init PROVE InspectionInv
  OBVIOUS
<1>1. I!Local \in Frames
  BY DEF I!Local, Frames
<1>2. cache # None => cache \in I!Entries /\ cache.at = 0 /\ (cache.version = 1 \/ cache.version \in Unbound)
  BY DocumentsAssumption DEF I!Init, I!Entry, I!Entries, I!Times, I!Words
<1>3. InspectionTypeOK
  BY <1>1, <1>2, DocumentsAssumption DEF I!Init, InspectionTypeOK, I!Times
<1>4. ServedUntilNow
  BY DocumentsAssumption DEF I!Init, ServedUntilNow
<1>5. CachedWasServed
  BY <1>2, DocumentsAssumption, MissingAssumption DEF I!Init, CachedWasServed, Served
<1>6. /\ \A i \in Inspections : CallIsSound(i) /\ step[i] = "idle"
      /\ \A f \in Flights : flight[f] = None
  BY DEF I!Init, CallIsSound, HeldWasServed, AnswerIsNew, ResultIsRecent
<1>7. DocumentsInv
  BY <1>4, <1>5, <1>6 DEF DocumentsInv, FlightIsSound
<1>8. PromiseInv
  BY <1>6 DEF I!Init, PromiseInv, AwaitedIsThere, FlightIsAwaited, LeaderIsPromised, OneLeader,
     PromiseIsLed, OpenIsPromised, Awaits, Leads
<1> QED BY <1>3, <1>7, <1>8 DEF InspectionInv

(* Every call, entry and promise keeps its type, and so does the history.  *)
THEOREM InspectionTypeCorrect == BothSpec => []InspectionTypeOK
  BY InspectionInit, InspectionStep, PTL DEF BothSpec, BothInit, InspectionInv

(* An inspection returns a document of the origin that was the Service's   *)
(* no longer before than it may be cached, however the answers to several  *)
(* of them, the cache and a deployment interleave.                         *)
THEOREM InspectedIsCurrent == BothSpec => []InspectedWasCurrent
<1>1. InspectionInv => InspectedWasCurrent
  BY DEF InspectionInv, DocumentsInv, CallIsSound, ResultIsRecent, Recent, InspectedWasCurrent, I!InspectedWasCurrent
<1> QED BY <1>1, InspectionInit, InspectionStep, PTL DEF BothSpec, BothInit

(* A session has at most one inspection under way, which its promise leads *)
(* to, and whoever cleared the promise had made it.                        *)
THEOREM SessionInspectsOnce == BothSpec => []OneInspectionAtATime
<1>1. InspectionInv => OneInspectionAtATime
  BY DEF InspectionInv, PromiseInv, OpenIsPromised, PromiseIsLed, Leads, Awaits, OneInspectionAtATime,
     I!OneInspectionAtATime
<1> QED BY <1>1, InspectionInit, InspectionStep, PTL DEF BothSpec, BothInit
=============================================================================

----------------------- MODULE ServiceCredentials_proofs -----------------------
(***************************************************************************)
(* Proofs about ServiceCredentials, for every set of calls, agents and     *)
(* identifiers, every list of grant types and methods, and every initial   *)
(* store.  They rest on one fact: the store only grows.  A record is       *)
(* written once, and from then on only its revocation mark is set.  The    *)
(* last two parts are about modules of operators: Presentation (a          *)
(* credential is recognized in the fields it is sent in), and              *)
(* CredentialBodies (so is one that an Agent read in a Grant's answer).    *)
(***************************************************************************)
EXTENDS ServiceCredentials, WellFoundedInduction, TLAPS

(* Store t holds what store s held, later marks aside.                     *)
SameCredential(r, q) ==
  /\ q # None
  /\ q.agent = r.agent /\ q.type = r.type /\ q.secret = r.secret
  /\ q.scope = r.scope /\ q.expires = r.expires
  /\ r.revoked => q = r
Grows(s, t) == \A i \in Ids : s[i] # None => SameCredential(s[i], t[i])

(* Stores only grow from one another, step after step.                     *)
LEMMA GrowsTransitive ==
  ASSUME NEW r \in Stores, NEW s \in Stores, NEW t \in Stores, Grows(r, s), Grows(s, t)
  PROVE  Grows(r, t)
BY DEF Grows, SameCredential

(* A store holds what it holds.                                            *)
LEMMA GrowsReflexive == ASSUME NEW s \in Stores PROVE Grows(s, s)
BY DEF Grows, SameCredential

-----------------------------------------------------------------------------
(* Where each call is, and what its request then is.                       *)
RevokeRequests == OneType \union AllTypes
Phases ==
  \A c \in Calls :
    /\ stage[c] \in {"issued", "granted"} => request[c] \in Grants
    /\ stage[c] \in {"revoking", "revoked"} => request[c] \in RevokeRequests
    /\ stage[c] \in {"trying", "matching", "authenticated"} => request[c] \in Presentations
    /\ stage[c] \in {"idle", "issued"} => at[c] = 1
    /\ stage[c] = "revoking" => at[c] \in 1..Len(Handlers)
    /\ stage[c] = "trying" => at[c] \in 1..Len(Methods) + 1
    /\ stage[c] = "matching" => at[c] \in 1..Len(Methods)

(* Between a call's start, its reading of the list and now the store has   *)
(* only grown.                                                             *)
HistoryGrows ==
  \A c \in Calls :
    /\ stage[c] # "idle" => before[c] \in Stores /\ Grows(before[c], credential)
    /\ stage[c] = "matching" =>
         /\ snapshot[c] \in Stores
         /\ Grows(before[c], snapshot[c])
         /\ Grows(snapshot[c], credential)

(* A Revoke of all grant types has dealt with the types before at[c].      *)
RevokedSoFar ==
  \A c \in Calls :
    stage[c] = "revoking" /\ request[c].op = "revoke all" =>
      \A i \in Ids, j \in 1..Len(Handlers) :
        j < at[c] /\ before[c][i] # None /\ before[c][i].agent = request[c].agent
          /\ before[c][i].type = Handlers[j]
          => credential[i].revoked

(* A principal is an identifier of the store.                              *)
PrincipalStored ==
  \A c \in Calls : stage[c] = "authenticated" => principal[c] \in Ids

IInv ==
  /\ TypeOK /\ Phases /\ HistoryGrows /\ RevokedSoFar /\ PrincipalStored
  /\ GrantsAreRecorded /\ RevokeCovers /\ AuthenticatedIsLive /\ AmbiguityRefused

(* Nothing has been asked initially.                                       *)
LEMMA InitIInv == Init => IInv
BY StoreAssumption, MethodsAssumption
   DEF Init, IInv, TypeOK, Phases, HistoryGrows, RevokedSoFar, PrincipalStored,
       GrantsAreRecorded, RevokeCovers, AuthenticatedIsLive, AmbiguityRefused

-----------------------------------------------------------------------------
(* The store after Revoked has grown, and the marks are set.               *)
LEMMA RevokedFacts ==
  ASSUME TypeOK, NEW a, NEW t, NEW id \in Ids \union {None}, credential' = Revoked(a, t, id)
  PROVE  /\ credential' \in Stores /\ Grows(credential, credential')
         /\ \A i \in Ids : Revokes(credential[i], a, t) /\ id \in {i, None} =>
              credential'[i].revoked
<1>1. credential \in [Ids -> Records \union {None}]
  BY DEF TypeOK, Stores
<1>2. ASSUME NEW i \in Ids
      PROVE  /\ credential'[i] \in Records \union {None}
             /\ credential[i] # None => SameCredential(credential[i], credential'[i])
             /\ Revokes(credential[i], a, t) /\ id \in {i, None} => credential'[i].revoked
  <2>1. CASE Revokes(credential[i], a, t) /\ id \in {i, None}
    <3>1. /\ credential[i] \in Records
          /\ credential'[i] = [credential[i] EXCEPT !.revoked = TRUE]
      BY <1>1, <2>1 DEF Revoked, Revokes
    <3>2. credential'[i] \in Records
      BY <3>1 DEF Records
    <3>3. credential[i].revoked => credential'[i] = credential[i]
      BY <3>1 DEF Records
    <3> QED BY <3>1, <3>2, <3>3, StoreAssumption DEF SameCredential, Records
  <2>2. CASE ~(Revokes(credential[i], a, t) /\ id \in {i, None})
    BY <1>1, <2>2 DEF Revoked, SameCredential
  <2> QED BY <2>1, <2>2
<1> QED BY <1>2 DEF Revoked, Stores, Grows

(* In every step the store only grows.                                     *)
LEMMA StoreGrows ==
  ASSUME TypeOK, Phases, [Next]_vars
  PROVE  credential' \in Stores /\ Grows(credential, credential')
<1> DEFINE Goal == credential' \in Stores /\ Grows(credential, credential')
<1>1. CASE UNCHANGED credential
  BY <1>1, GrowsReflexive DEF TypeOK
<1>2. ASSUME NEW c \in Calls, GrantSave(c) PROVE Goal
  <2>1. CASE credential[request[c].id] # None
    BY <1>1, <1>2, <2>1 DEF GrantSave
  <2>2. CASE credential[request[c].id] = None
    <3>1. /\ request[c] \in Grants
          /\ credential' = [credential EXCEPT ![request[c].id] = StoredOf(request[c])]
      BY <1>2, <2>2 DEF GrantSave, Phases
    <3>2. StoredOf(request[c]) \in Records
      BY <3>1 DEF Grants, StoredOf, Records
    <3> QED BY <2>2, <3>1, <3>2 DEF TypeOK, Stores, Grows, SameCredential
  <2> QED BY <2>1, <2>2
<1>3. ASSUME NEW c \in Calls, RevokeType(c) PROVE Goal
  <2>1. request[c].id \in Ids \union {None}
    BY <1>3 DEF RevokeType, Phases, RevokeRequests, OneType, AllTypes
  <2> QED BY <1>3, <2>1, RevokedFacts DEF RevokeType
<1>4. ASSUME NEW c \in Calls, RevokeNext(c) PROVE Goal
  BY <1>4, RevokedFacts DEF RevokeNext
<1>5. CASE UNCHANGED vars
  BY <1>1, <1>5 DEF vars
<1>6. CASE Tick
  BY <1>1, <1>6 DEF Tick
<1>7. ASSUME NEW c \in Calls,
             \/ \E req \in Grants : GrantIssue(c, req)
             \/ \E req \in OneType \union AllTypes : RevokeStart(c, req)
             \/ RevokeThrows(c)
             \/ \E req \in Presentations : AuthenticateStart(c, req)
             \/ AuthenticateList(c) \/ AuthenticateMatch(c) \/ AuthenticateFail(c)
      PROVE  Goal
  BY <1>1, <1>7
     DEF GrantIssue, RevokeStart, RevokeThrows, AuthenticateStart, AuthenticateList,
         AuthenticateMatch, AuthenticateFail, Begin
<1> QED BY <1>2, <1>3, <1>4, <1>5, <1>6, <1>7 DEF Next

-----------------------------------------------------------------------------
(* A call either stays as it was in a step, or takes the step itself; then *)
(* the stage it reaches tells which action it took.                        *)
Stays(c) ==
  /\ stage'[c] = stage[c] /\ request'[c] = request[c] /\ at'[c] = at[c]
  /\ started'[c] = started[c] /\ snapshot'[c] = snapshot[c]
  /\ principal'[c] = principal[c] /\ before'[c] = before[c]

Began(c, S) ==
  /\ stage[c] = "idle" /\ request'[c] \in S
  /\ before'[c] = credential /\ started'[c] = now /\ at'[c] = at[c]
  /\ UNCHANGED credential

Acts(c) ==
  \/ Began(c, Grants) /\ stage'[c] = "issued"
  \/ GrantSave(c)
  \/ Began(c, RevokeRequests) /\ stage'[c] = "revoking"
  \/ RevokeType(c) \/ RevokeNext(c) \/ RevokeThrows(c)
  \/ Began(c, Presentations) /\ stage'[c] = "trying"
  \/ AuthenticateList(c) \/ AuthenticateMatch(c) \/ AuthenticateFail(c)

(* In every step a call stays as it was, or the step is its own.           *)
LEMMA StaysOrActs ==
  ASSUME TypeOK, [Next]_vars, NEW c \in Calls
  PROVE  Stays(c) \/ Acts(c)
<1> USE DEF TypeOK
<1>1. ASSUME NEW d \in Calls, NEW S, NEW req \in S, NEW s, Begin(d, req, s)
      PROVE  /\ d # c => Stays(c)
             /\ Began(d, S) /\ stage'[d] = s
  BY <1>1 DEF Begin, Move, Stays, Began
<1>2. ASSUME NEW d \in Calls, \E req \in Grants : GrantIssue(d, req) PROVE Stays(c) \/ Acts(c)
  BY <1>1, <1>2 DEF GrantIssue, Acts
<1>3. ASSUME NEW d \in Calls, \E req \in OneType \union AllTypes : RevokeStart(d, req)
      PROVE  Stays(c) \/ Acts(c)
  BY <1>1, <1>3 DEF RevokeStart, RevokeRequests, Acts
<1>4. ASSUME NEW d \in Calls, \E req \in Presentations : AuthenticateStart(d, req)
      PROVE  Stays(c) \/ Acts(c)
  BY <1>1, <1>4 DEF AuthenticateStart, Acts
<1>5. ASSUME NEW d \in Calls, d # c, GrantSave(d) PROVE Stays(c)
  BY <1>5 DEF GrantSave, Move, Stays
<1>6. ASSUME NEW d \in Calls, d # c, RevokeType(d) \/ RevokeNext(d) \/ RevokeThrows(d)
      PROVE  Stays(c)
  BY <1>6 DEF RevokeType, RevokeNext, RevokeThrows, Move, Stays
<1>7. ASSUME NEW d \in Calls, d # c, AuthenticateList(d) \/ AuthenticateFail(d) PROVE Stays(c)
  BY <1>7 DEF AuthenticateList, AuthenticateFail, Move, Stays
<1>8. ASSUME NEW d \in Calls, d # c, AuthenticateMatch(d) PROVE Stays(c)
  BY <1>8 DEF AuthenticateMatch, Move, Stays
<1>9. CASE Tick \/ UNCHANGED vars
  BY <1>9 DEF Tick, vars, Stays
<1> QED BY <1>2, <1>3, <1>4, <1>5, <1>6, <1>7, <1>8, <1>9 DEF Next, Acts

(* The stage a call reaches tells which of its actions it took.            *)
LEMMA StageTellsAction ==
  ASSUME TypeOK, NEW c \in Calls, Acts(c)
  PROVE  /\ stage'[c] # "idle"
         /\ stage'[c] = "issued" => Began(c, Grants)
         /\ stage'[c] = "granted" => GrantSave(c) /\ credential[request[c].id] = None
         /\ stage'[c] = "revoking" =>
              Began(c, RevokeRequests) \/ (RevokeNext(c) /\ at[c] # Len(Handlers))
         /\ stage'[c] = "revoked" => RevokeType(c) \/ (RevokeNext(c) /\ at[c] = Len(Handlers))
         /\ stage'[c] = "trying" => Began(c, Presentations) \/ AuthenticateMatch(c)
         /\ stage'[c] = "matching" => AuthenticateList(c)
         /\ stage'[c] = "authenticated" => AuthenticateMatch(c)
<1> USE DEF TypeOK
<1>1. CASE GrantSave(c)
  BY <1>1 DEF GrantSave, Move
<1>2. CASE RevokeType(c) \/ RevokeThrows(c)
  BY <1>2 DEF RevokeType, RevokeThrows, Move
<1>3. CASE RevokeNext(c)
  BY <1>3 DEF RevokeNext, Move
<1>4. CASE AuthenticateList(c) \/ AuthenticateFail(c)
  BY <1>4 DEF AuthenticateList, AuthenticateFail, Move
<1>5. CASE AuthenticateMatch(c)
  BY <1>5 DEF AuthenticateMatch, Move
<1> QED BY <1>1, <1>2, <1>3, <1>4, <1>5 DEF Acts

-----------------------------------------------------------------------------
(* Every step keeps the types; the store's own type is StoreGrows.         *)
LEMMA TypeStep == ASSUME TypeOK, Phases, [Next]_vars PROVE TypeOK'
<1> USE DEF TypeOK
<1>a. Len(Handlers) \in Nat \ {0} /\ Len(Methods) \in Nat
  BY MethodsAssumption
<1>0. credential' \in Stores
  BY StoreGrows
<1>1. ASSUME NEW c \in Calls, NEW req \in Grants \union OneType \union AllTypes \union Presentations,
             NEW s \in {"issued", "revoking", "trying"}, Begin(c, req, s)
      PROVE  TypeOK'
  BY <1>0, <1>1 DEF Begin, Move
<1>2. ASSUME NEW c \in Calls,
             \/ \E req \in Grants : GrantIssue(c, req)
             \/ \E req \in OneType \union AllTypes : RevokeStart(c, req)
             \/ \E req \in Presentations : AuthenticateStart(c, req)
      PROVE  TypeOK'
  BY <1>1, <1>2 DEF GrantIssue, RevokeStart, AuthenticateStart
<1>3. ASSUME NEW c \in Calls, GrantSave(c) PROVE TypeOK'
  BY <1>0, <1>3 DEF GrantSave, Move
<1>4. ASSUME NEW c \in Calls, RevokeType(c) \/ RevokeThrows(c) PROVE TypeOK'
  BY <1>0, <1>4 DEF RevokeType, RevokeThrows, Move
<1>5. ASSUME NEW c \in Calls, RevokeNext(c) PROVE TypeOK'
  <2>1. at[c] \in 1..Len(Handlers)
    BY <1>5 DEF RevokeNext, Phases
  <2>2. at[c] + 1 \in 1..(Len(Handlers) + Len(Methods) + 1)
    BY <1>a, <2>1
  <2> QED BY <1>0, <1>5, <2>2 DEF RevokeNext, Move
<1>6. ASSUME NEW c \in Calls, AuthenticateList(c) \/ AuthenticateFail(c) PROVE TypeOK'
  BY <1>0, <1>6 DEF AuthenticateList, AuthenticateFail, Move
<1>7. ASSUME NEW c \in Calls, AuthenticateMatch(c) PROVE TypeOK'
  <2>1. at[c] \in 1..Len(Methods)
    BY <1>7 DEF AuthenticateMatch, Phases
  <2>2. at[c] + 1 \in 1..(Len(Handlers) + Len(Methods) + 1)
    BY <1>a, <2>1
  <2>3. /\ stage' = [stage EXCEPT ![c] = "trying"] \/ stage' = [stage EXCEPT ![c] = "authenticated"]
        /\ at' = at \/ at' = [at EXCEPT ![c] = at[c] + 1]
        /\ principal' = principal \/ \E i \in Ids : principal' = [principal EXCEPT ![c] = i]
        /\ UNCHANGED <<now, credential, request, started, snapshot, before>>
    BY <1>7 DEF AuthenticateMatch, Move, Matches
  <2> QED BY <1>0, <2>2, <2>3
<1>8. CASE Tick \/ UNCHANGED vars
  BY <1>0, <1>8, MethodsAssumption DEF Tick, vars
<1> QED BY <1>2, <1>3, <1>4, <1>5, <1>6, <1>7, <1>8 DEF Next

(* Every step keeps a call's request and position fitting its stage.       *)
LEMMA PhasesStep == ASSUME TypeOK, Phases, [Next]_vars PROVE Phases'
<1> USE DEF TypeOK
<1> DEFINE Fits(c) ==
      /\ stage[c] \in {"issued", "granted"} => request[c] \in Grants
      /\ stage[c] \in {"revoking", "revoked"} => request[c] \in RevokeRequests
      /\ stage[c] \in {"trying", "matching", "authenticated"} => request[c] \in Presentations
      /\ stage[c] \in {"idle", "issued"} => at[c] = 1
      /\ stage[c] = "revoking" => at[c] \in 1..Len(Handlers)
      /\ stage[c] = "trying" => at[c] \in 1..Len(Methods) + 1
      /\ stage[c] = "matching" => at[c] \in 1..Len(Methods)
<1> SUFFICES ASSUME NEW c \in Calls PROVE Fits(c)'
  BY DEF Phases
<1>0. Fits(c)
  BY DEF Phases
<1>a. Len(Handlers) \in Nat \ {0} /\ Len(Methods) \in Nat
  BY MethodsAssumption
<1>1. CASE Stays(c)
  BY <1>0, <1>1 DEF Stays
<1>2. ASSUME NEW S, Began(c, S) PROVE at'[c] = 1 /\ request'[c] \in S
  BY <1>0, <1>2 DEF Began
<1>3. CASE \/ Began(c, Grants) /\ stage'[c] = "issued"
           \/ Began(c, RevokeRequests) /\ stage'[c] = "revoking"
           \/ Began(c, Presentations) /\ stage'[c] = "trying"
  BY <1>2, <1>3, <1>a
<1>4. CASE GrantSave(c) \/ RevokeType(c) \/ RevokeThrows(c)
  BY <1>0, <1>4 DEF GrantSave, RevokeType, RevokeThrows, Move
<1>5. CASE RevokeNext(c)
  <2>1. /\ at[c] \in 1..Len(Handlers) /\ at'[c] = at[c] + 1
        /\ request'[c] \in RevokeRequests
    BY <1>0, <1>5 DEF RevokeNext
  <2>2. CASE at[c] = Len(Handlers)
    BY <1>5, <2>1, <2>2 DEF RevokeNext, Move
  <2>3. CASE at[c] # Len(Handlers)
    <3>1. at'[c] \in 1..Len(Handlers)
      BY <1>a, <2>1, <2>3
    <3> QED BY <1>5, <2>1, <2>3, <3>1 DEF RevokeNext
  <2> QED BY <2>2, <2>3
<1>6. CASE AuthenticateList(c) \/ AuthenticateFail(c)
  BY <1>0, <1>6, <1>a DEF AuthenticateList, AuthenticateFail, Move
<1>7. CASE AuthenticateMatch(c)
  BY <1>0, <1>7, <1>a DEF AuthenticateMatch, Move
<1> QED BY StaysOrActs, <1>1, <1>3, <1>4, <1>5, <1>6, <1>7 DEF Acts

(* A call that acts keeps its request and its history, once begun.         *)
LEMMA ActsKeeps ==
  ASSUME TypeOK, NEW c \in Calls, Acts(c), stage[c] # "idle"
  PROVE  request'[c] = request[c] /\ before'[c] = before[c] /\ started'[c] = started[c]
BY DEF Acts, Began, GrantSave, RevokeType, RevokeNext, RevokeThrows, AuthenticateList,
       AuthenticateMatch, AuthenticateFail

(* Every step keeps the store ahead of what calls remember of it.          *)
LEMMA HistoryStep ==
  ASSUME TypeOK, Phases, HistoryGrows, [Next]_vars PROVE HistoryGrows'
<1> DEFINE Ahead(c) ==
    /\ stage[c] # "idle" => before[c] \in Stores /\ Grows(before[c], credential)
    /\ stage[c] = "matching" =>
         /\ snapshot[c] \in Stores
         /\ Grows(before[c], snapshot[c])
         /\ Grows(snapshot[c], credential)
<1> SUFFICES ASSUME NEW c \in Calls PROVE Ahead(c)'
  BY DEF HistoryGrows
<1>1. /\ Ahead(c) /\ credential \in Stores
      /\ credential' \in Stores /\ Grows(credential, credential')
  BY StoreGrows DEF HistoryGrows, TypeOK
<1>2. ASSUME NEW s \in Stores, Grows(s, credential) PROVE Grows(s, credential')
  BY <1>1, <1>2, GrowsTransitive
<1>3. CASE Stays(c)
  BY <1>1, <1>2, <1>3 DEF Stays
<1>4. CASE Acts(c) /\ stage[c] = "idle"
  <2>1. stage'[c] # "matching"
    BY <1>4, StageTellsAction DEF AuthenticateList
  <2>2. before'[c] = credential
    BY <1>4 DEF Acts, Began, GrantSave, RevokeType, RevokeNext, RevokeThrows,
                AuthenticateList, AuthenticateMatch, AuthenticateFail
  <2> QED BY <1>1, <2>1, <2>2
<1>5. CASE Acts(c) /\ stage[c] # "idle"
  <2>1. before'[c] = before[c] /\ Grows(before'[c], credential') /\ before'[c] \in Stores
    BY <1>1, <1>2, <1>5, ActsKeeps
  <2>2. CASE stage'[c] # "matching"
    BY <2>1, <2>2
  <2>3. CASE AuthenticateList(c)
    <3>1. snapshot'[c] = credential /\ credential' = credential
      BY <2>3 DEF AuthenticateList, TypeOK
    <3> QED BY <1>1, <1>5, <2>1, <3>1
  <2> QED BY <1>5, <2>2, <2>3, StageTellsAction
<1> QED BY <1>3, <1>4, <1>5, StaysOrActs

-----------------------------------------------------------------------------
(* An identifier is saved once, so a Grant's record is its own.            *)
LEMMA GrantsStep ==
  ASSUME TypeOK, Phases, GrantsAreRecorded, [Next]_vars PROVE GrantsAreRecorded'
<1>0. credential' \in Stores /\ Grows(credential, credential')
  BY StoreGrows
<1>1. ASSUME NEW c \in Calls, stage'[c] = "granted"
      PROVE  \/ stage[c] = "granted" /\ request'[c] = request[c]
             \/ GrantSave(c) /\ credential[request[c].id] = None /\ request'[c] = request[c]
  BY <1>1, StaysOrActs, StageTellsAction DEF Stays, GrantSave
<1>2. ASSUME NEW c \in Calls, stage[c] = "granted", request'[c] = request[c]
      PROVE  LET req == request'[c]
                 rec == credential'[req.id] IN
             /\ credential[req.id] # None
             /\ rec # None
             /\ rec.agent = req.agent /\ rec.type = req.type /\ rec.secret = req.secret
  <2>1. request[c].id \in Ids /\ credential[request[c].id] # None
    BY <1>2 DEF Phases, Grants, GrantsAreRecorded
  <2> QED BY <1>0, <1>2, <2>1 DEF Grows, SameCredential, GrantsAreRecorded
<1>3. ASSUME NEW c \in Calls, GrantSave(c), credential[request[c].id] = None
      PROVE  LET req == request'[c]
                 rec == credential'[req.id] IN
             /\ rec # None
             /\ rec.agent = req.agent /\ rec.type = req.type /\ rec.secret = req.secret
  <2>1. /\ request[c] \in Grants /\ request'[c] = request[c]
        /\ credential' = [credential EXCEPT ![request[c].id] = StoredOf(request[c])]
    BY <1>3 DEF GrantSave, Phases
  <2>2. StoredOf(request[c]) \in Records
    BY <2>1 DEF StoredOf, Grants, Records
  <2> QED BY <2>1, <2>2, StoreAssumption DEF TypeOK, Stores, StoredOf, Grants
<1>4. ASSUME NEW c \in Calls, NEW d \in Calls, stage'[c] = "granted", stage'[d] = "granted",
             request'[d].id = request'[c].id
      PROVE  c = d
  <2>1. CASE stage[c] = "granted" /\ stage[d] = "granted"
    BY <1>1, <1>4, <2>1 DEF GrantsAreRecorded, GrantSave
  <2>2. ASSUME GrantSave(c), GrantSave(d) PROVE c = d
    BY <2>2, <1>4 DEF GrantSave, Move, TypeOK
  <2> QED BY <1>1, <1>2, <1>4, <2>1, <2>2
<1> QED BY <1>1, <1>2, <1>3, <1>4 DEF GrantsAreRecorded

(* Positions in the list of handlers are numbers, from one on.             *)
LEMMA HandlerPosition ==
  \A j \in 1..Len(Handlers) :
    /\ j \in Nat /\ ~(j < 1)
    /\ \A k \in 1..Len(Handlers) : j < k + 1 => j = k \/ j < k
<1>1. Len(Handlers) \in Nat
  BY MethodsAssumption
<1> QED BY <1>1

(* A handler after the other, the credentials there at the start are       *)
(* revoked, and stay so.                                                   *)
LEMMA RevokedSoFarStep ==
  ASSUME TypeOK, Phases, HistoryGrows, RevokedSoFar, [Next]_vars PROVE RevokedSoFar'
<1>0. credential' \in Stores /\ Grows(credential, credential')
  BY StoreGrows
<1> SUFFICES ASSUME NEW c \in Calls, stage'[c] = "revoking", request'[c].op = "revoke all",
                    NEW i \in Ids, NEW j \in 1..Len(Handlers),
                    j < at'[c], before'[c][i] # None,
                    before'[c][i].agent = request'[c].agent, before'[c][i].type = Handlers[j]
             PROVE  credential'[i].revoked
  BY DEF RevokedSoFar
<1>1. CASE Stays(c)
  <2>1. credential[i].revoked
    BY <1>1 DEF Stays, RevokedSoFar
  <2>2. stage[c] = "revoking" /\ before[c] = before'[c]
    BY <1>1 DEF Stays
  <2>3. Grows(before[c], credential) /\ before[c][i] # None
    BY <2>2 DEF HistoryGrows
  <2>4. credential[i] # None
    BY <2>3 DEF Grows, SameCredential
  <2> QED BY <1>0, <2>1, <2>4 DEF Grows, SameCredential
<1>2. CASE Began(c, RevokeRequests)
  <2>1. at'[c] = 1
    BY <1>2 DEF Began, Phases
  <2> QED BY <2>1, HandlerPosition
<1>3. CASE RevokeNext(c)
  <2>1. /\ stage[c] = "revoking" /\ request[c].op = "revoke all"
        /\ request'[c] = request[c] /\ before'[c] = before[c]
        /\ at[c] \in 1..Len(Handlers) /\ at'[c] = at[c] + 1
        /\ credential' = Revoked(request[c].agent, Handlers[at[c]], None)
    BY <1>3 DEF RevokeNext, Phases, TypeOK
  <2>2. SameCredential(before[c][i], credential[i])
    BY <2>1 DEF HistoryGrows, Grows
  <2>3. CASE j = at[c]
    <3>1. Revokes(credential[i], request[c].agent, Handlers[at[c]])
      BY <2>1, <2>2, <2>3 DEF Revokes, SameCredential
    <3> QED BY <2>1, <3>1, RevokedFacts
  <2>4. CASE j < at[c]
    <3>1. credential[i].revoked
      BY <2>1, <2>4 DEF RevokedSoFar
    <3> QED BY <1>0, <2>2, <3>1 DEF Grows, SameCredential
  <2>5. j = at[c] \/ j < at[c]
    BY <2>1, HandlerPosition
  <2> QED BY <2>3, <2>4, <2>5
<1> QED BY <1>1, <1>2, <1>3, StaysOrActs, StageTellsAction

(* The answered Revokes: the last handler completes the cover.             *)
LEMMA CoversStep ==
  ASSUME TypeOK, Phases, HistoryGrows, RevokedSoFar, RevokeCovers, [Next]_vars
  PROVE  RevokeCovers'
<1>0. credential' \in Stores /\ Grows(credential, credential')
  BY StoreGrows
<1> SUFFICES ASSUME NEW c \in Calls, stage'[c] = "revoked", NEW i \in Ids,
                    before'[c][i] # None, before'[c][i].agent = request'[c].agent,
                    request'[c].op = "revoke" =>
                      before'[c][i].type = request'[c].type /\ request'[c].id \in {i, None}
             PROVE  credential'[i].revoked
  BY DEF RevokeCovers
<1>1. CASE Stays(c)
  <2>1. credential[i].revoked /\ credential[i] # None
    BY <1>1 DEF Stays, RevokeCovers, HistoryGrows, Grows, SameCredential
  <2> QED BY <1>0, <2>1 DEF Grows, SameCredential
<1>2. ASSUME stage[c] = "revoking", request'[c] = request[c], before'[c] = before[c]
      PROVE  /\ SameCredential(before[c][i], credential[i]) /\ before[c] \in Stores
             /\ before[c][i] \in Records
  BY <1>2 DEF HistoryGrows, Grows, Stores
<1>3. CASE RevokeType(c)
  <2>1. /\ stage[c] = "revoking" /\ request[c] \in OneType
        /\ request'[c] = request[c] /\ before'[c] = before[c]
        /\ credential' = Revoked(request[c].agent, request[c].type, request[c].id)
    BY <1>3 DEF RevokeType, Phases, RevokeRequests, AllTypes
  <2>2. /\ Revokes(credential[i], request[c].agent, request[c].type)
        /\ request[c].id \in {i, None} /\ request[c].id \in Ids \union {None}
    BY <1>2, <2>1 DEF Revokes, SameCredential, OneType
  <2> QED BY <2>1, <2>2, RevokedFacts
<1>4. CASE RevokeNext(c) /\ at[c] = Len(Handlers)
  <2>1. /\ stage[c] = "revoking" /\ request[c].op = "revoke all"
        /\ request'[c] = request[c] /\ before'[c] = before[c]
        /\ at[c] \in 1..Len(Handlers)
        /\ credential' = Revoked(request[c].agent, Handlers[at[c]], None)
    BY <1>4 DEF RevokeNext, Phases
  <2>2. PICK j \in 1..Len(Handlers) : before[c][i].type = Handlers[j]
    BY <1>2, <2>1 DEF Records, Types
  <2>3. CASE j = at[c]
    <3>1. Revokes(credential[i], request[c].agent, Handlers[at[c]])
      BY <1>2, <2>1, <2>2, <2>3 DEF Revokes, SameCredential
    <3> QED BY <2>1, <3>1, RevokedFacts
  <2>4. CASE j < at[c]
    <3>1. credential[i].revoked
      BY <2>1, <2>2, <2>4 DEF RevokedSoFar
    <3> QED BY <1>0, <1>2, <2>1, <3>1 DEF Grows, SameCredential
  <2>5. j = at[c] \/ j < at[c]
    BY <1>4, MethodsAssumption
  <2> QED BY <2>3, <2>4, <2>5
<1> QED BY <1>1, <1>3, <1>4, StaysOrActs, StageTellsAction

-----------------------------------------------------------------------------
(* What a match proves of its principal: the list held it live, with the   *)
(* presented secret, and every other live holder of that secret agrees.    *)
LEMMA MatchFacts ==
  ASSUME TypeOK, Phases, HistoryGrows,
         NEW c \in Calls, AuthenticateMatch(c), stage'[c] = "authenticated"
  PROVE  /\ principal'[c] \in Ids
         /\ LET own == snapshot[c][principal'[c]] IN
              /\ own \in Records /\ Live(own, started[c])
              /\ request[c].secret[own.type] = own.secret
              /\ \A i \in Ids :
                   LET rec == snapshot[c][i] IN
                   /\ rec # None /\ Live(rec, started[c])
                   /\ rec.type = own.type /\ rec.secret = own.secret
                   => rec.agent = own.agent /\ rec.scope = own.scope
         /\ snapshot[c] \in Stores
         /\ Grows(before[c], snapshot[c]) /\ Grows(snapshot[c], credential')
         /\ request'[c] = request[c] /\ started'[c] = started[c] /\ before'[c] = before[c]
<1>1. /\ stage[c] = "matching" /\ credential' = credential
      /\ request' = request /\ started' = started /\ before' = before
  BY DEF AuthenticateMatch
<1>2. PICK p \in Matches(c) :
        /\ principal' = [principal EXCEPT ![c] = p]
        /\ \A i, j \in Matches(c) : SameAuthorization(snapshot[c][i], snapshot[c][j])
  BY DEF AuthenticateMatch, Move, TypeOK
<1>3. principal'[c] = p /\ p \in Ids
  BY <1>2 DEF TypeOK, Matches
<1>4. /\ snapshot[c] \in Stores
      /\ Grows(before[c], snapshot[c]) /\ Grows(snapshot[c], credential)
  BY <1>1 DEF HistoryGrows
<1> DEFINE own == snapshot[c][p]
<1>5. /\ own \in Records /\ Live(own, started[c]) /\ own.type = Methods[at[c]]
      /\ request[c].secret[own.type] = own.secret
  BY <1>2, <1>4 DEF Matches, Stores
<1>6. ASSUME NEW i \in Ids, snapshot[c][i] # None, Live(snapshot[c][i], started[c]),
             snapshot[c][i].type = own.type, snapshot[c][i].secret = own.secret
      PROVE  snapshot[c][i].agent = own.agent /\ snapshot[c][i].scope = own.scope
  <2>1. i \in Matches(c)
    BY <1>5, <1>6 DEF Matches
  <2> QED BY <1>2, <2>1 DEF SameAuthorization
<1> QED BY <1>1, <1>3, <1>4, <1>5, <1>6

(* An authenticated call's principal stays what it was.                    *)
LEMMA AuthenticatedStep ==
  ASSUME TypeOK, Phases, HistoryGrows, PrincipalStored, AuthenticatedIsLive, [Next]_vars
  PROVE  PrincipalStored' /\ AuthenticatedIsLive'
<1>0. Grows(credential, credential')
  BY StoreGrows
<1> SUFFICES ASSUME NEW c \in Calls, stage'[c] = "authenticated"
             PROVE  /\ principal'[c] \in Ids
                    /\ LET rec == credential'[principal'[c]]
                           old == before'[c][principal'[c]] IN
                       /\ rec # None /\ rec.expires > started'[c]
                       /\ request'[c].secret[rec.type] = rec.secret
                       /\ old # None => ~old.revoked
  BY DEF PrincipalStored, AuthenticatedIsLive
<1>1. CASE Stays(c)
  <2>1. /\ principal[c] \in Ids /\ credential[principal[c]] # None
        /\ SameCredential(credential[principal[c]], credential'[principal[c]])
    BY <1>0, <1>1 DEF Stays, PrincipalStored, AuthenticatedIsLive, Grows
  <2> QED BY <1>1, <2>1 DEF Stays, AuthenticatedIsLive, SameCredential
<1>2. CASE AuthenticateMatch(c)
  <2>1. principal'[c] \in Ids /\ snapshot[c][principal'[c]] \in Records
        /\ Live(snapshot[c][principal'[c]], started[c])
    BY <1>2, MatchFacts
  <2>2. SameCredential(snapshot[c][principal'[c]], credential'[principal'[c]])
    BY <1>2, <2>1, MatchFacts, StoreAssumption DEF Grows
  <2>3. before[c][principal'[c]] # None => ~before[c][principal'[c]].revoked
    BY <1>2, <2>1, MatchFacts DEF Grows, SameCredential, Live
  <2> QED BY <1>2, <2>1, <2>2, <2>3, MatchFacts DEF SameCredential, Live
<1> QED BY <1>1, <1>2, StaysOrActs, StageTellsAction

(* The refusal of ambiguous secrets stands while records are only marked.  *)
LEMMA AmbiguityStep ==
  ASSUME TypeOK, Phases, HistoryGrows, PrincipalStored, AuthenticatedIsLive,
         AmbiguityRefused, [Next]_vars
  PROVE  AmbiguityRefused'
<1>0. credential \in Stores /\ credential' \in Stores /\ Grows(credential, credential')
  BY StoreGrows DEF TypeOK
<1> SUFFICES ASSUME NEW c \in Calls, stage'[c] = "authenticated", NEW i \in Ids,
                    before'[c][i] # None, Live(credential'[i], started'[c]),
                    credential'[i].type = credential'[principal'[c]].type,
                    credential'[i].secret = credential'[principal'[c]].secret
             PROVE  /\ credential'[i].agent = credential'[principal'[c]].agent
                    /\ credential'[i].scope = credential'[principal'[c]].scope
  BY DEF AmbiguityRefused, Live
<1>1. CASE Stays(c)
  <2> DEFINE p == principal[c]
  <2>1. /\ p \in Ids /\ credential[p] # None /\ SameCredential(credential[p], credential'[p])
        /\ principal'[c] = p
    BY <1>0, <1>1 DEF Stays, PrincipalStored, AuthenticatedIsLive, Grows
  <2>2. before[c][i] # None /\ Grows(before[c], credential)
    BY <1>1 DEF Stays, HistoryGrows
  <2>3. credential[i] # None /\ SameCredential(credential[i], credential'[i])
    BY <1>0, <2>2 DEF Grows, SameCredential
  <2>4. Live(credential[i], started[c])
    <3>1. credential[i] \in Records
      BY <1>0, <2>3 DEF Stores
    <3> QED BY <1>1, <2>3, <3>1 DEF Stays, Live, SameCredential, Records
  <2>5. /\ credential[i].type = credential[p].type
        /\ credential[i].secret = credential[p].secret
    BY <2>1, <2>3 DEF SameCredential
  <2>6. /\ credential[i].agent = credential[p].agent
        /\ credential[i].scope = credential[p].scope
    BY <1>1, <2>2, <2>4, <2>5 DEF Stays, AmbiguityRefused
  <2> QED BY <2>1, <2>3, <2>6 DEF SameCredential
<1>2. CASE AuthenticateMatch(c)
  <2> DEFINE p == principal'[c]
  <2>1. /\ p \in Ids /\ snapshot[c][p] \in Records /\ snapshot[c] \in Stores
        /\ Grows(before[c], snapshot[c]) /\ Grows(snapshot[c], credential')
        /\ started'[c] = started[c] /\ before'[c] = before[c]
    BY <1>2, MatchFacts
  <2>2. SameCredential(snapshot[c][p], credential'[p])
    BY <2>1, StoreAssumption DEF Grows
  <2>3. snapshot[c][i] # None /\ SameCredential(snapshot[c][i], credential'[i])
    BY <2>1 DEF Grows, SameCredential
  <2>4. Live(snapshot[c][i], started[c])
    <3>1. snapshot[c][i] \in Records
      BY <2>1, <2>3 DEF Stores
    <3> QED BY <2>1, <2>3, <3>1 DEF Live, SameCredential, Records
  <2>5. /\ snapshot[c][i].type = snapshot[c][p].type
        /\ snapshot[c][i].secret = snapshot[c][p].secret
    BY <2>2, <2>3 DEF SameCredential
  <2>6. /\ snapshot[c][i].agent = snapshot[c][p].agent
        /\ snapshot[c][i].scope = snapshot[c][p].scope
    BY <1>2, <2>3, <2>4, <2>5, MatchFacts
  <2> QED BY <2>2, <2>3, <2>6 DEF SameCredential
<1> QED BY <1>1, <1>2, StaysOrActs, StageTellsAction

-----------------------------------------------------------------------------
(* The invariant is inductive.                                             *)
LEMMA IInvStep == IInv /\ [Next]_vars => IInv'
<1> SUFFICES ASSUME IInv, [Next]_vars PROVE IInv'
  OBVIOUS
<1>1. /\ TypeOK /\ Phases /\ HistoryGrows /\ RevokedSoFar /\ PrincipalStored
      /\ GrantsAreRecorded /\ RevokeCovers /\ AuthenticatedIsLive /\ AmbiguityRefused
  BY DEF IInv
<1>2. TypeOK' /\ Phases' /\ HistoryGrows' /\ RevokedSoFar'
  BY <1>1, TypeStep, PhasesStep, HistoryStep, RevokedSoFarStep
<1>3. GrantsAreRecorded' /\ RevokeCovers'
  BY <1>1, GrantsStep, CoversStep
<1>4. PrincipalStored' /\ AuthenticatedIsLive' /\ AmbiguityRefused'
  BY <1>1, AuthenticatedStep, AmbiguityStep
<1> QED BY <1>2, <1>3, <1>4 DEF IInv

(* The invariant holds in every state of every behaviour.                  *)
LEMMA IInvHolds == Spec => []IInv
BY InitIInv, IInvStep, PTL DEF Spec

(* The variables keep their types.                                         *)
THEOREM TypeCorrect == Spec => []TypeOK
<1>1. IInv => TypeOK
  BY DEF IInv
<1> QED BY IInvHolds, <1>1, PTL

(* An answered Grant has its own record in the store.                      *)
THEOREM GrantsRecorded == Spec => []GrantsAreRecorded
<1>1. IInv => GrantsAreRecorded
  BY DEF IInv
<1> QED BY IInvHolds, <1>1, PTL

(* A revoked credential never changes again.                               *)
THEOREM RevocationFinal == Spec => RevocationIsFinal
<1>1. IInv /\ [Next]_vars =>
        [\A i \in Ids :
           credential[i] # None /\ credential[i].revoked => credential'[i] = credential[i]]_vars
  BY StoreGrows DEF IInv, Grows, SameCredential
<1> QED BY IInvHolds, <1>1, PTL DEF Spec, RevocationIsFinal

(* An answered Revoke has covered all it named.                            *)
THEOREM RevokesCover == Spec => []RevokeCovers
<1>1. IInv => RevokeCovers
  BY DEF IInv
<1> QED BY IInvHolds, <1>1, PTL

(* Only a live credential, with its secret, authenticates.                 *)
THEOREM OnlyLiveAuthenticate == Spec => []AuthenticatedIsLive
<1>1. IInv => AuthenticatedIsLive
  BY DEF IInv
<1> QED BY IInvHolds, <1>1, PTL

(* A secret two agents hold authenticates neither.                         *)
THEOREM AmbiguousRefused == Spec => []AmbiguityRefused
<1>1. IInv => AmbiguityRefused
  BY DEF IInv
<1> QED BY IInvHolds, <1>1, PTL

-----------------------------------------------------------------------------
(* How credentials are presented (Presentation), for all credentials,      *)
(* fields and secrets, and whatever else is in a request.                  *)
CONSTANTS Unsendable, Commas
Wire == INSTANCE Presentation

(* A field has one line, or none.                                          *)
Schemes == {"AEP", "Bearer", "Basic", "none"}
Shown == [scheme : Schemes, secret : Secrets]
OneLine(sent) == [f \in DOMAIN sent |-> IF sent[f] = <<>> THEN <<>> ELSE <<sent[f]>>]
WireConstants == None \notin Seq(Shown) \union Shown

LEMMA FlattenOne == ASSUME NEW x PROVE Wire!FlattenSeq(<<x>>) = x
<1> DEFINE f == [i \in 1..1 |-> IF i = 1 THEN <<x>>[i] ELSE <<>>]
<1>1. Len(<<x>>) = 1 /\ <<x>>[1] = x
  OBVIOUS
<1> QED BY <1>1 DEF Wire!FlattenSeq

(* What a Service reads of such a field is what was sent.                  *)
LEMMA ValueIsSent ==
  ASSUME NEW sent, NEW name \in DOMAIN sent, NEW form \in {"headers", "strings"}
  PROVE  Wire!Value([form |-> form, lines |-> OneLine(sent)], name) = sent[name]
<1> DEFINE source == [form |-> form, lines |-> OneLine(sent)]
<1>1. source.form = form /\ source.lines[name] = IF sent[name] = <<>> THEN <<>> ELSE <<sent[name]>>
  BY DEF OneLine
<1> SUFFICES Wire!Value(source, name) = sent[name]
  OBVIOUS
<1> HIDE DEF source
<1>2. CASE sent[name] = <<>>
  BY <1>1, <1>2 DEF Wire!Value
<1>3. CASE sent[name] # <<>>
  <2>1. source.lines[name] = <<sent[name]>> /\ <<sent[name]>> # <<>>
    BY <1>1, <1>3
  <2>2. Wire!Last(<<sent[name]>>) = sent[name]
    BY DEF Wire!Last
  <2> QED BY <1>1, <2>1, <2>2, FlattenOne DEF Wire!Value
<1> QED BY <1>2, <1>3

(* What the Agent sends has the credential in its field and, unless that   *)
(* is AEP's own, nothing in AEP's.                                         *)
Held(Fields) == [method : DOMAIN Wire!SchemeOf, secret : Secrets, field : Fields, holder : Agents]
LEMMA SentIs ==
  ASSUME NEW Fields, {Wire!Standard, Wire!Dedicated} \subseteq Fields, NEW c \in Held(Fields), NEW carrier, NEW caller, NEW additional,
         DOMAIN caller = Fields,
         Wire!Authenticated(c, carrier, caller, additional) # None
  PROVE  LET sent == Wire!Authenticated(c, carrier, caller, additional) IN
         /\ DOMAIN sent = Fields /\ Wire!FieldOf(c, carrier) \in Fields
         /\ sent[Wire!FieldOf(c, carrier)] = Wire!ValueOf(c)
         /\ Wire!FieldOf(c, carrier) # Wire!Dedicated => sent[Wire!Dedicated] = <<>>
<1> DEFINE field == Wire!FieldOf(c, carrier)
<1>1. /\ ~Wire!Collides(additional, field)
      /\ Wire!Authenticated(c, carrier, caller, additional) =
           Wire!Merged(caller, additional, field, Wire!ValueOf(c))
  BY DEF Wire!Authenticated
<1>2. additional[Wire!Dedicated] = <<>>
  BY <1>1 DEF Wire!Collides
<1>3. field \in Fields
  BY DEF Wire!FieldOf, Wire!CarrierField, Held
<1> HIDE DEF field
<1> QED BY <1>1, <1>2, <1>3 DEF Wire!Merged, field

(* A field that has no credential, as far as it is understood, matches no  *)
(* credential.                                                             *)
Unrelated(value) == value = <<>> \/ value[1].scheme \notin Schemes
LEMMA ValueOfIs ==
  ASSUME NEW Fields, NEW c \in Held(Fields)
  PROVE  /\ Len(Wire!ValueOf(c)) = 1 /\ Wire!ValueOf(c) \in Seq(Shown) /\ Wire!ValueOf(c)[1] \in Shown
         /\ Wire!ValueOf(c)[1].secret = c.secret /\ Wire!ValueOf(c)[1].scheme = Wire!SchemeOf[c.method]
         /\ c.method = "api-key" <=> Wire!SchemeOf[c.method] = "none"
         /\ c.method # "api-key" => Wire!SchemeOf[c.method] \in {"AEP", "Bearer", "Basic"}
         /\ c.method = Wire!Jwt <=> Wire!SchemeOf[c.method] = "AEP"
<1>1. c.method \in DOMAIN Wire!SchemeOf /\ c.secret \in Secrets
  BY DEF Held
<1>2. c.method \in {"aep-jwt", "oauth-bearer", "basic", "api-key"}
  BY <1>1 DEF Wire!SchemeOf, Wire!Jwt
<1>3. /\ Wire!SchemeOf[c.method] \in Schemes
      /\ c.method = "api-key" <=> Wire!SchemeOf[c.method] = "none"
      /\ c.method # "api-key" => Wire!SchemeOf[c.method] \in {"AEP", "Bearer", "Basic"}
      /\ c.method = Wire!Jwt <=> Wire!SchemeOf[c.method] = "AEP"
  <2>1. /\ Wire!SchemeOf["aep-jwt"] = "AEP" /\ Wire!SchemeOf["oauth-bearer"] = "Bearer"
        /\ Wire!SchemeOf["basic"] = "Basic" /\ Wire!SchemeOf["api-key"] = "none"
    BY DEF Wire!SchemeOf, Wire!Jwt
  <2>2. Wire!SchemeOf[c.method] \in Schemes
    BY <1>2, <2>1 DEF Schemes
  <2> QED BY <1>2, <2>1, <2>2 DEF Wire!Jwt
<1>4. [scheme |-> Wire!SchemeOf[c.method], secret |-> c.secret] \in Shown
  BY <1>1, <1>3 DEF Shown
<1> QED BY <1>3, <1>4 DEF Wire!ValueOf

LEMMA UnrelatedMatchesNone ==
  ASSUME WireConstants, NEW value, Unrelated(value), NEW Fields, NEW d \in Held(Fields), NEW carrier
  PROVE  Wire!Parsed(value, carrier) = None /\ value # Wire!ValueOf(d) /\ None # Wire!ValueOf(d)[1]
<1>1. ~(Len(value) = 1 /\ value[1].scheme \in {"AEP", "Bearer", "Basic"})
  BY DEF Unrelated, Schemes
<1>2. Wire!Parsed(value, carrier) = None
  BY <1>1 DEF Wire!Parsed
<1>3. value # Wire!ValueOf(d)
  BY ValueOfIs DEF Unrelated, Shown
<1> QED BY <1>2, <1>3, ValueOfIs DEF WireConstants

(* Credentials that stand for the same in a header are of one method and   *)
(* have one secret.                                                        *)
LEMMA ValueTellsMethod ==
  ASSUME NEW Fields, NEW c \in Held(Fields), NEW d \in Held(Fields), Wire!ValueOf(c)[1] = Wire!ValueOf(d)[1]
  PROVE  c.method = d.method /\ c.secret = d.secret
<1>1. Wire!SchemeOf[c.method] = Wire!SchemeOf[d.method] /\ c.secret = d.secret
  BY ValueOfIs
<1>2. \A m, n \in DOMAIN Wire!SchemeOf : Wire!SchemeOf[m] = Wire!SchemeOf[n] => m = n
  BY DEF Wire!SchemeOf, Wire!Jwt
<1> QED BY <1>1, <1>2 DEF Held

(* In a request with one credential, the Service takes the field that has  *)
(* it for its choice, if the field is AEP's own and the credential may     *)
(* stand there, refuses if it may not, and leaves the choice to the        *)
(* methods otherwise.                                                      *)
Fits(c, field) == field = Wire!Dedicated => c.method # "api-key" /\ c.secret \notin Commas
Alone(sent, field) == \A f \in DOMAIN sent \ {field} : Unrelated(sent[f])
Carries(sent, Fields, c, carrier) ==
  LET field == Wire!FieldOf(c, carrier) IN
  /\ DOMAIN sent = Fields /\ {Wire!Standard, Wire!Dedicated, field} \subseteq Fields
  /\ sent[field] = Wire!ValueOf(c)
  /\ field # Wire!Dedicated => sent[Wire!Dedicated] = <<>>

LEMMA SelectedIs ==
  ASSUME WireConstants, NEW Fields, NEW c \in Held(Fields), NEW carrier, NEW sent, Carries(sent, Fields, c, carrier),
         NEW form \in {"headers", "strings"}
  PROVE  LET field    == Wire!FieldOf(c, carrier)
             selected == Wire!Selected([form |-> form, lines |-> OneLine(sent)]) IN
         /\ field # Wire!Dedicated => selected = <<>>
         /\ field = Wire!Dedicated /\ Fits(c, field) /\ Alone(sent, field) => selected = Wire!ValueOf(c)
         /\ field = Wire!Dedicated
            /\ (~Fits(c, field) \/ Wire!Parsed(sent[Wire!Standard], "standard") # None) => selected = None
<1> DEFINE field == Wire!FieldOf(c, carrier)
           source == [form |-> form, lines |-> OneLine(sent)]
           value == Wire!ValueOf(c)
<1>1. /\ DOMAIN sent = Fields /\ Wire!Standard \in Fields /\ Wire!Dedicated \in Fields
      /\ sent[field] = value
      /\ field # Wire!Dedicated => sent[Wire!Dedicated] = <<>>
  BY DEF Carries
<1>2. \A f \in Fields : Wire!Value(source, f) = sent[f]
  BY <1>1, ValueIsSent
<1>3. /\ Len(value) = 1 /\ value # <<>> /\ value[1] \in Shown /\ value[1].secret = c.secret
      /\ c.method = "api-key" <=> value[1].scheme = "none"
      /\ c.method # "api-key" => value[1].scheme \in {"AEP", "Bearer", "Basic"}
  BY ValueOfIs
<1>4. source.form = form /\ (sent[Wire!Dedicated] # <<>> => source.lines[Wire!Dedicated] = <<sent[Wire!Dedicated]>>)
  BY <1>1 DEF OneLine
<1>5. Wire!Standard # Wire!Dedicated /\ None \notin Shown
  BY DEF Wire!Standard, Wire!Dedicated, WireConstants
<1> SUFFICES
      /\ field # Wire!Dedicated => Wire!Selected(source) = <<>>
      /\ field = Wire!Dedicated /\ Fits(c, field) /\ Alone(sent, field) => Wire!Selected(source) = value
      /\ field = Wire!Dedicated
         /\ (~Fits(c, field) \/ Wire!Parsed(sent[Wire!Standard], "standard") # None) => Wire!Selected(source) = None
  OBVIOUS
<1> HIDE DEF field, source, value
<1>6. field # Wire!Dedicated => Wire!Selected(source) = <<>>
  BY <1>1, <1>2 DEF Wire!Selected
<1>7. ASSUME field = Wire!Dedicated, Fits(c, field), Alone(sent, field) PROVE Wire!Selected(source) = value
  <2>1. Wire!Value(source, Wire!Dedicated) = value
    BY <1>1, <1>2, <1>7
  <2>2. c.method # "api-key" /\ c.secret \notin Commas
    BY <1>7 DEF Fits
  <2>3. ~Wire!Duplicate(source, Wire!Dedicated)
    <3>1. Len(source.lines[Wire!Dedicated]) = 1
      BY <1>1, <1>3, <1>4, <1>7
    <3>2. \A i \in DOMAIN value : value[i].secret \notin Commas
      BY <1>3, <2>2, ValueOfIs DEF value
    <3>3. CASE form = "headers"
      <4>1. source.form = "headers"
        BY <1>4, <3>3
      <4> DEFINE shown == Wire!Value(source, Wire!Dedicated)
      <4>2. Wire!Duplicate(source, Wire!Dedicated) <=>
              \/ Len(shown) > 1
              \/ \E i \in DOMAIN shown : shown[i].secret \in Commas
        BY <4>1 DEF Wire!Duplicate
      <4>3. shown = value
        BY <2>1
      <4> HIDE DEF shown
      <4>4. Len(shown) = 1
        BY <1>3, <4>3
      <4> QED BY <3>2, <4>2, <4>3, <4>4
    <3>4. CASE form = "strings"
      <4>1. source.form = "strings"
        BY <1>4, <3>4
      <4> QED BY <3>1, <4>1 DEF Wire!Duplicate
    <3> QED BY <3>3, <3>4
  <2>4. Wire!Parsed(value, "dedicated") # None
    BY <1>3, <1>5, <2>2 DEF Wire!Parsed
  <2>5. Wire!Parsed(Wire!Value(source, Wire!Standard), "standard") = None
    BY <1>1, <1>2, <1>5, <1>7, UnrelatedMatchesNone DEF Alone
  <2> QED BY <1>3, <2>1, <2>3, <2>4, <2>5 DEF Wire!Selected
<1>8. ASSUME field = Wire!Dedicated,
             ~Fits(c, field) \/ Wire!Parsed(sent[Wire!Standard], "standard") # None
      PROVE  Wire!Selected(source) = None
  <2>1. Wire!Value(source, Wire!Dedicated) = value /\ Wire!Value(source, Wire!Standard) = sent[Wire!Standard]
    BY <1>1, <1>2, <1>8
  <2>2. ~Fits(c, field) => Wire!Parsed(value, "dedicated") = None
    BY <1>3 DEF Fits, Wire!Parsed
  <2> QED BY <1>3, <1>8, <2>1, <2>2 DEF Wire!Selected
<1> QED BY <1>6, <1>7, <1>8

LEMMA SelectedRefuses ==
  ASSUME WireConstants, NEW Fields, NEW c \in Held(Fields), NEW carrier, NEW sent, Carries(sent, Fields, c, carrier),
         NEW form \in {"headers", "strings"}, Wire!FieldOf(c, carrier) = Wire!Dedicated,
         \/ ~Fits(c, Wire!FieldOf(c, carrier))
         \/ Wire!Parsed(sent[Wire!Standard], "standard") # None
  PROVE  Wire!Selected([form |-> form, lines |-> OneLine(sent)]) = None
BY SelectedIs

(* Then its credential matches, and those that match are of its method and *)
(* have its secret.                                                        *)
Same(c, d) == d.method = c.method /\ d.secret = c.secret /\ (c.method = "api-key" => d.field = c.field)
OneMatches(source, Fields, c) ==
  LET selected      == Wire!Selected(source)
      authorization == IF selected \in {None, <<>>} THEN Wire!Value(source, Wire!Standard) ELSE selected IN
  /\ selected # None
  /\ c.method # "api-key" => authorization = Wire!ValueOf(c)
  /\ authorization = Wire!ValueOf(c) \/ Unrelated(authorization)
  /\ Wire!HeadersMatch(c, source, authorization)
  /\ \A d \in Held(Fields) : Wire!HeadersMatch(d, source, authorization) => Same(c, d)

LEMMA MatchesSame ==
  ASSUME WireConstants, NEW Fields, NEW c \in Held(Fields), NEW carrier, NEW sent, Carries(sent, Fields, c, carrier),
         Fits(c, Wire!FieldOf(c, carrier)), Alone(sent, Wire!FieldOf(c, carrier)), NEW form \in {"headers", "strings"}
  PROVE  OneMatches([form |-> form, lines |-> OneLine(sent)], Fields, c)
<1> DEFINE field         == Wire!FieldOf(c, carrier)
           source        == [form |-> form, lines |-> OneLine(sent)]
           selected      == Wire!Selected(source)
           authorization == IF selected \in {None, <<>>} THEN Wire!Value(source, Wire!Standard) ELSE selected
           value         == Wire!ValueOf(c)
<1>1. /\ DOMAIN sent = Fields /\ Wire!Standard \in Fields /\ Wire!Dedicated \in Fields /\ field \in Fields
      /\ sent[field] = value
      /\ \A f \in Fields : f # field => Unrelated(sent[f])
  BY DEF Carries, Alone
<1>2. \A f \in Fields : Wire!Value(source, f) = sent[f]
  BY <1>1, ValueIsSent
<1>3. /\ Len(value) = 1 /\ value # <<>> /\ value[1] \in Shown /\ value[1].secret = c.secret /\ value # None
      /\ c.method = "api-key" <=> value[1].scheme = "none"
      /\ c.method # "api-key" => value[1].scheme \in {"AEP", "Bearer", "Basic"}
  BY ValueOfIs DEF WireConstants
<1>4. /\ field # Wire!Dedicated => selected = <<>>
      /\ field = Wire!Dedicated => selected = value /\ c.method # "api-key"
  BY SelectedIs DEF Fits
<1>5. selected # None
  <2>1. <<>> \in Seq(Shown)
    OBVIOUS
  <2> QED BY <1>3, <1>4, <2>1 DEF WireConstants
<1>6. /\ c.method = "api-key" => field = c.field
      /\ c.method # "api-key" => field \in {Wire!Standard, Wire!Dedicated}
  BY DEF Wire!FieldOf, Wire!CarrierField
<1> HIDE DEF field, source, selected, value
<1>7. /\ field \in {Wire!Standard, Wire!Dedicated} => authorization = value
      /\ field \notin {Wire!Standard, Wire!Dedicated} => Unrelated(authorization)
      /\ field # Wire!Dedicated => authorization = sent[Wire!Standard]
  BY <1>1, <1>2, <1>3, <1>4
<1> HIDE DEF authorization
<1>8. Wire!HeadersMatch(c, source, authorization)
  <2>1. CASE c.method = "api-key"
    <3>1. (IF c.method = "api-key" /\ c.field # Wire!Standard THEN Wire!Value(source, c.field) ELSE authorization) = value
      BY <1>1, <1>2, <1>4, <1>6, <1>7, <2>1
    <3> QED BY <2>1, <3>1 DEF Wire!HeadersMatch, value
  <2>2. CASE c.method # "api-key"
    <3>1. authorization = value
      BY <1>6, <1>7, <2>2
    <3>2. Wire!Parsed(value, "standard") = value[1]
      BY <1>3, <2>2 DEF Wire!Parsed
    <3> QED BY <2>2, <3>1, <3>2 DEF Wire!HeadersMatch, value
  <2> QED BY <2>1, <2>2
<1>9. ASSUME NEW d \in Held(Fields), Wire!HeadersMatch(d, source, authorization) PROVE Same(c, d)
  <2> DEFINE its == Wire!ValueOf(d)
  <2>0. /\ d.field \in Fields /\ Len(its) = 1 /\ its[1] \in Shown /\ its[1].secret = d.secret
        /\ its \in Seq(Shown) /\ value \in Seq(Shown)
        /\ d.method = "api-key" <=> its[1].scheme = "none"
    BY ValueOfIs DEF Held, value
  <2>a. \A v : Unrelated(v) => Wire!Parsed(v, "standard") # its[1] /\ v # its
    BY UnrelatedMatchesNone
  <2>b. value[1] = its[1] => d.method = c.method /\ d.secret = c.secret
    BY ValueTellsMethod DEF value
  <2> HIDE DEF its
  <2>1. CASE d.method = "api-key" /\ d.field # Wire!Standard
    <3>1. sent[d.field] = its
      BY <1>2, <1>9, <2>0, <2>1 DEF Wire!HeadersMatch, its
    <3>2. d.field = field
      BY <1>1, <2>0, <2>a, <3>1
    <3>3. d.method = c.method /\ d.secret = c.secret
      BY <1>1, <2>b, <3>1, <3>2
    <3> QED BY <1>6, <3>2, <3>3 DEF Same
  <2>2. CASE d.method = "api-key" /\ d.field = Wire!Standard
    <3>1. authorization = its
      BY <1>9, <2>2 DEF Wire!HeadersMatch, its
    <3>2. authorization = value
      BY <1>7, <2>a, <3>1
    <3>3. d.method = c.method /\ d.secret = c.secret
      BY <2>b, <3>1, <3>2
    <3>4. field = Wire!Standard
      BY <1>1, <1>4, <1>7, <2>2, <2>a, <3>1, <3>3
    <3> QED BY <1>6, <2>2, <3>3, <3>4 DEF Same
  <2>3. CASE d.method # "api-key"
    <3>1. Wire!Parsed(authorization, "standard") = its[1]
      BY <1>9, <2>3 DEF Wire!HeadersMatch, its
    <3>2. authorization = value
      BY <1>7, <2>a, <3>1
    <3>3. Wire!Parsed(value, "standard") \in {None, value[1]}
      BY DEF Wire!Parsed
    <3>4. None # its[1]
      BY <2>0 DEF WireConstants
    <3>5. d.method = c.method /\ d.secret = c.secret
      BY <2>b, <3>1, <3>2, <3>3, <3>4
    <3> QED BY <2>3, <3>5 DEF Same
  <2> QED BY <2>1, <2>2, <2>3
<1>10. c.method # "api-key" => authorization = value
  BY <1>6, <1>7
<1>11. authorization = value \/ Unrelated(authorization)
  BY <1>7
<1> QED BY <1>5, <1>8, <1>9, <1>10, <1>11 DEF OneMatches, authorization, selected, source, value

(* Among natural numbers there is a least one.                             *)
LEMMA LeastOf ==
  ASSUME NEW S \in SUBSET Nat, S # {}
  PROVE  \E j \in S : \A k \in S : j <= k
<1> DEFINE Less == {p \in Nat \X Nat : p[1] < p[2]}
<1>1. IsWellFoundedOn(Less, Nat)
  BY NatLessThanWellFounded DEF OpToRel
<1> HIDE DEF Less
<1>2. PICK j \in S : \A k \in S : ~(<<k, j>> \in Less)
  BY <1>1, WFMin
<1>3. \A k \in S : ~(k < j)
  BY <1>2 DEF Less
<1> QED BY <1>3

(* Where only one credential matches, its holder is authenticated.         *)
LEMMA OneIsAuthenticated ==
  ASSUME NEW Fields, NEW store \in SUBSET Held(Fields), NEW c \in store,
         \A d \in store : Same(c, d) => d.holder = c.holder,
         NEW n \in Nat, NEW methods \in [1..n -> DOMAIN Wire!SchemeOf], \E i \in 1..n : methods[i] = c.method,
         NEW source, OneMatches(source, Fields, c)
  PROVE  Wire!Authenticate(source, methods, store) = Wire!Principal(c)
<1> DEFINE selected      == Wire!Selected(source)
           authorization == IF selected \in {None, <<>>} THEN Wire!Value(source, Wire!Standard) ELSE selected
           matching(m)   == {d \in store : d.method = m /\ Wire!HeadersMatch(d, source, authorization)}
           holders(m)    == {d.holder : d \in matching(m)}
           settled       == {i \in DOMAIN methods : methods[i] # Wire!Jwt /\ \E h \in holders(methods[i]) :
                                                       holders(methods[i]) = {h}}
           answer        == Wire!Authenticate(source, methods, store)
<1>1. /\ selected # None
      /\ c.method # "api-key" => authorization = Wire!ValueOf(c)
      /\ authorization = Wire!ValueOf(c) \/ Unrelated(authorization)
      /\ Wire!HeadersMatch(c, source, authorization)
      /\ \A d \in Held(Fields) : Wire!HeadersMatch(d, source, authorization) => Same(c, d)
  BY DEF OneMatches
<1>2. /\ Wire!ValueOf(c) # <<>> /\ Wire!ValueOf(c)[1] \in Shown
      /\ c.method = Wire!Jwt <=> Wire!ValueOf(c)[1].scheme = "AEP"
  BY ValueOfIs
<1> HIDE DEF selected, authorization
<1>3. \A m : \A d \in matching(m) : d.method = c.method /\ m = c.method /\ d.holder = c.holder
  BY <1>1 DEF Same
<1>4. c \in matching(c.method)
  BY <1>1
<1>5. \A m : matching(m) # {} => LET chosen == CHOOSE d \in matching(m) : TRUE IN
                                 Wire!Principal(chosen) = Wire!Principal(c)
  <2> HIDE DEF matching
  <2>1. ASSUME NEW m, matching(m) # {} PROVE (CHOOSE d \in matching(m) : TRUE) \in matching(m)
    BY <2>1
  <2> QED BY <1>3, <2>1 DEF Wire!Principal
<1>6. CASE c.method = Wire!Jwt
  <2>1. authorization # <<>> /\ authorization[1].scheme = "AEP"
    BY <1>1, <1>2, <1>6 DEF Wire!Jwt
  <2>2. \E i \in DOMAIN methods : methods[i] = Wire!Jwt
    BY <1>6
  <2>3. answer = Wire!Principal(CHOOSE d \in matching(Wire!Jwt) : TRUE)
    BY <1>1, <1>4, <1>6, <2>1, <2>2 DEF Wire!Authenticate, authorization, selected
  <2> QED BY <1>4, <1>5, <1>6, <2>3
<1>7. CASE c.method # Wire!Jwt
  <2>1. ~(authorization # <<>> /\ authorization[1].scheme = "AEP")
    BY <1>1, <1>2, <1>7 DEF Unrelated, Schemes
  <2>2. PICK i \in 1..n : methods[i] = c.method
    OBVIOUS
  <2>3. holders(c.method) = {c.holder}
    BY <1>3, <1>4
  <2>4. i \in settled
    BY <1>7, <2>2, <2>3
  <2> DEFINE first == CHOOSE j \in settled : \A k \in settled : j <= k
  <2>5. answer = Wire!Principal(CHOOSE d \in matching(methods[first]) : TRUE)
    BY <1>1, <2>1, <2>4 DEF Wire!Authenticate, authorization, selected
  <2>6. first \in settled
    <3>1. settled \subseteq Nat /\ settled # {}
      <4>1. settled \subseteq DOMAIN methods /\ settled # {}
        BY <2>4
      <4>2. DOMAIN methods = 1..n /\ 1..n \subseteq Nat
        OBVIOUS
      <4> HIDE DEF settled
      <4> QED BY <4>1, <4>2
    <3> HIDE DEF settled
    <3>2. \E j \in settled : \A k \in settled : j <= k
      BY <3>1, LeastOf
    <3> QED BY <3>2
  <2>7. matching(methods[first]) # {}
    BY <2>6
  <2> HIDE DEF first
  <2> QED BY <1>5, <2>5, <2>7
<1> QED BY <1>6, <1>7

(* What an Agent presents is what the Service evaluates: whatever else the *)
(* caller puts into the request, the Service authenticates the holder of   *)
(* the credential, by its method, unless another field has a credential    *)
(* too; and a dedicated field is never passed over, but refused where a    *)
(* credential may not stand in it or one is in Authorization as well       *)
(* (fetchProtectedResource, and authenticateProtectedResource of the       *)
(* Service).                                                               *)
THEOREM PresentedIsEvaluated ==
  ASSUME WireConstants, NEW Fields, {Wire!Standard, Wire!Dedicated} \subseteq Fields,
         NEW store \in SUBSET Held(Fields), NEW c \in store,
         \A d \in store : Same(c, d) => d.holder = c.holder,
         NEW n \in Nat, NEW methods \in [1..n -> DOMAIN Wire!SchemeOf], \E i \in 1..n : methods[i] = c.method,
         NEW carrier, NEW caller, DOMAIN caller = Fields, NEW additional,
         Wire!Authenticated(c, carrier, caller, additional) # None,
         NEW form \in {"headers", "strings"}
  PROVE  LET sent   == Wire!Authenticated(c, carrier, caller, additional)
             field  == Wire!FieldOf(c, carrier)
             answer == Wire!Authenticate([form |-> form, lines |-> OneLine(sent)], methods, store) IN
         /\ Fits(c, field) /\ Alone(sent, field) => answer = Wire!Principal(c)
         /\ field = Wire!Dedicated
            /\ (~Fits(c, field) \/ Wire!Parsed(sent[Wire!Standard], "standard") # None)
              => answer = Wire!Refusal("not_recognized")
<1> DEFINE sent   == Wire!Authenticated(c, carrier, caller, additional)
           field  == Wire!FieldOf(c, carrier)
           source == [form |-> form, lines |-> OneLine(sent)]
<1>1. c \in Held(Fields) /\ Carries(sent, Fields, c, carrier)
  BY SentIs DEF Carries
<1> HIDE DEF sent
<1>2. ASSUME field = Wire!Dedicated,
             ~Fits(c, field) \/ Wire!Parsed(sent[Wire!Standard], "standard") # None
      PROVE  Wire!Authenticate(source, methods, store) = Wire!Refusal("not_recognized")
  <2>1. Wire!Selected(source) = None
    BY <1>1, <1>2, SelectedRefuses
  <2> HIDE DEF source
  <2> QED BY <2>1 DEF Wire!Authenticate
<1>3. ASSUME Fits(c, field), Alone(sent, field)
      PROVE  Wire!Authenticate(source, methods, store) = Wire!Principal(c)
  <2>1. OneMatches(source, Fields, c)
    BY <1>1, <1>3, MatchesSame
  <2> HIDE DEF source
  <2> QED BY <2>1, OneIsAuthenticated
<1> QED BY <1>2, <1>3 DEF sent

-----------------------------------------------------------------------------
(* The bodies of credentials (CredentialBodies), for all texts, salts and  *)
(* digests.                                                                *)
CONSTANTS Texts, Unfit, DateTimes, Lower(_), Prefixed(_, _), Digest(_, _)
Bodies == INSTANCE CredentialBodies

(* A digest is of one value; a user name is what its credential's value    *)
(* begins with.                                                            *)
BodyConstants ==
  /\ None \notin Texts \union {<<>>} /\ "Bearer" \in Texts
  /\ \A salt, digest : [salt |-> salt, digest |-> digest] # None
  /\ \A v, w, salt : Digest(v, salt) = Digest(w, salt) => v = w
  /\ \A u, p \in Texts : Prefixed((u \o ":") \o p, u \o ":")

LEMMA TypesAre ==
  /\ Bodies!BuiltIn = {"api-key", "basic", "oauth-bearer"}
  /\ Bodies!Secret["api-key"] = "api_key" /\ Bodies!Secret["basic"] = "password"
  /\ Bodies!Secret["oauth-bearer"] = "access_token"
  /\ Bodies!Needed["api-key"] = {"credential_id", "expires_at", "api_key", "header"}
  /\ Bodies!Needed["basic"] = {"credential_id", "expires_at", "password", "username"}
  /\ Bodies!Needed["oauth-bearer"] = {"credential_id", "expires_at", "access_token", "token_type"}
  /\ Bodies!Kept["api-key"] = {"scopes", "credential_id", "expires_at", "header"}
  /\ Bodies!Kept["basic"] = {"scopes", "credential_id", "expires_at", "username"}
  /\ Bodies!Kept["oauth-bearer"] = {"scopes", "credential_id", "expires_at", "token_type"}
<1>1. /\ Bodies!Secret["api-key"] = "api_key" /\ Bodies!Secret["basic"] = "password"
      /\ Bodies!Secret["oauth-bearer"] = "access_token"
  BY DEF Bodies!Secret, Bodies!BuiltIn
<1>2. /\ Bodies!Needed["api-key"] = {"credential_id", "expires_at", "api_key", "header"}
      /\ Bodies!Needed["basic"] = {"credential_id", "expires_at", "password", "username"}
      /\ Bodies!Needed["oauth-bearer"] = {"credential_id", "expires_at", "access_token", "token_type"}
  BY <1>1 DEF Bodies!Needed, Bodies!BuiltIn
<1>3. /\ Bodies!Kept["api-key"] = {"scopes", "credential_id", "expires_at", "header"}
      /\ Bodies!Kept["basic"] = {"scopes", "credential_id", "expires_at", "username"}
      /\ Bodies!Kept["oauth-bearer"] = {"scopes", "credential_id", "expires_at", "token_type"}
  BY <1>1, <1>2 DEF Bodies!Kept, Bodies!BuiltIn
<1> QED BY <1>1, <1>2, <1>3 DEF Bodies!BuiltIn

(* What counts as a body has all that its type needs, and counts as itself.*)
LEMMA ParsedIs ==
  ASSUME BodyConstants, NEW type, NEW issued, Bodies!Parsed(type, issued) # None
  PROVE  LET body == Bodies!Parsed(type, issued) IN
         /\ type \in Bodies!BuiltIn
         /\ \A m \in Bodies!Needed[type] : m \in DOMAIN issued /\ issued[m] \in Texts \ {""}
         /\ DOMAIN body = DOMAIN issued \union {"scopes"} /\ \A m \in DOMAIN issued \ {"scopes"} : body[m] = issued[m]
         /\ issued.expires_at \in DateTimes /\ (type = "oauth-bearer" => issued.token_type = "Bearer")
         /\ body.scopes # None /\ Bodies!ToSet(body.scopes) \subseteq Texts
         /\ Bodies!Parsed(type, body) = body
<1> DEFINE body == Bodies!Parsed(type, issued)
           Full(b) == [m \in DOMAIN b \union {"scopes"} |->
                         IF m = "scopes" /\ Bodies!At(b, m) = None THEN <<>> ELSE b[m]]
           Fine(b) == /\ \A member \in Bodies!Needed[type] : Bodies!Filled(b, member)
                      /\ b.expires_at \in DateTimes
                      /\ Bodies!At(b, "scopes") # None => Bodies!ToSet(b.scopes) \subseteq Texts
                      /\ type = "oauth-bearer" => b.token_type = "Bearer"
                      /\ type = "basic" /\ Bodies!At(b, "realm") # None => Bodies!Filled(b, "realm")
<1>1. \A b : Bodies!Parsed(type, b) = IF type \in Bodies!BuiltIn /\ Fine(b) THEN Full(b) ELSE None
  BY DEF Bodies!Parsed
<1>2. type \in Bodies!BuiltIn /\ Fine(issued) /\ body = Full(issued)
  <2> HIDE DEF Fine, Full
  <2> QED BY <1>1
<1> HIDE DEF body
<1>3. /\ DOMAIN body = DOMAIN issued \union {"scopes"} /\ \A m \in DOMAIN issued \ {"scopes"} : body[m] = issued[m]
      /\ body.scopes = IF Bodies!At(issued, "scopes") = None THEN <<>> ELSE issued.scopes
  BY <1>2
<1>4. \A m \in Bodies!Needed[type] : m \in DOMAIN issued /\ issued[m] \in Texts \ {""}
  BY <1>2 DEF Bodies!Filled, Bodies!At, BodyConstants
<1>5. body.scopes # None /\ Bodies!ToSet(body.scopes) \subseteq Texts
  <2>1. CASE Bodies!At(issued, "scopes") = None
    BY <1>3, <2>1 DEF Bodies!ToSet, BodyConstants
  <2>2. CASE Bodies!At(issued, "scopes") # None
    BY <1>2, <1>3, <2>2 DEF Bodies!At
  <2> QED BY <2>1, <2>2
<1>6. "scopes" \notin Bodies!Needed[type] /\ "expires_at" \in Bodies!Needed[type]
      /\ (type = "oauth-bearer" => "token_type" \in Bodies!Needed[type])
  BY <1>2, TypesAre
<1>7. Fine(body)
  <2>1. \A m \in DOMAIN issued \ {"scopes"} : Bodies!At(body, m) = Bodies!At(issued, m)
    BY <1>3 DEF Bodies!At
  <2>2. \A member \in Bodies!Needed[type] : Bodies!Filled(body, member)
    BY <1>2, <1>4, <1>6, <2>1 DEF Bodies!Filled
  <2>3. body.expires_at = issued.expires_at /\ (type = "oauth-bearer" => body.token_type = issued.token_type)
    BY <1>3, <1>4, <1>6
  <2>4. Bodies!At(body, "realm") = Bodies!At(issued, "realm")
    BY <1>3 DEF Bodies!At
  <2> QED BY <1>2, <1>5, <2>2, <2>3, <2>4 DEF Bodies!Filled
<1>8. Full(body) = body
  <2>1. Bodies!At(body, "scopes") # None
    BY <1>3, <1>5 DEF Bodies!At
  <2>2. DOMAIN body \union {"scopes"} = DOMAIN body /\ body = [m \in DOMAIN body |-> body[m]]
    BY <1>2, <1>3
  <2> QED BY <2>1, <2>2
<1>9. Bodies!Parsed(type, body) = body
  <2> HIDE DEF Fine, Full
  <2> QED BY <1>1, <1>2, <1>7, <1>8
<1> QED BY <1>2, <1>3, <1>4, <1>5, <1>9 DEF body

(* What a Grant of a built-in type answers and saves.                      *)
LEMMA GrantIs ==
  ASSUME NEW type, NEW issued, NEW agent, NEW salt, NEW headers,
         Bodies!Grant(type, issued, agent, salt, headers) # None
  PROVE  LET body    == Bodies!Parsed(type, issued)
             granted == Bodies!Grant(type, issued, agent, salt, headers) IN
         /\ body # None
         /\ granted.body = body
         /\ granted.record.grantType = type /\ granted.record.credentialId = body.credential_id
         /\ granted.record.expiresAt = body.expires_at
         /\ granted.record.credential = Bodies!Stored(type, body, salt)
BY DEF Bodies!Grant

IsStored(c, type, body, salt) ==
  /\ DOMAIN c = Bodies!Kept[type] \union {"verifier"}
  /\ \A m \in Bodies!Kept[type] : c[m] = body[m]
  /\ c.verifier.salt = salt /\ c.verifier.digest = Digest(Bodies!Value(type, body), salt)
  /\ c.verifier # None
LEMMA StoredIs ==
  ASSUME BodyConstants, NEW type \in Bodies!BuiltIn, NEW body, NEW salt
  PROVE  IsStored(Bodies!Stored(type, body, salt), type, body, salt)
<1> DEFINE c == Bodies!Stored(type, body, salt)
<1>1. "verifier" \notin Bodies!Kept[type]
  BY TypesAre
<1>2. /\ DOMAIN c = Bodies!Kept[type] \union {"verifier"}
      /\ c["verifier"] = [salt |-> salt, digest |-> Digest(Bodies!Value(type, body), salt)]
      /\ \A m \in Bodies!Kept[type] : c[m] = body[m]
  BY <1>1 DEF Bodies!Stored
<1> HIDE DEF c
<1>3. c.verifier.salt = salt /\ c.verifier.digest = Digest(Bodies!Value(type, body), salt) /\ c.verifier # None
  BY <1>2 DEF BodyConstants
<1> QED BY <1>2, <1>3 DEF IsStored, c

(* The members of a body are those of no other type too.  Then it is told  *)
(* to be of its own.                                                       *)
OfOneType(type, body) == \A t \in Bodies!BuiltIn \ {type} : ~(Bodies!Needed[t] \subseteq DOMAIN body)
Sendable(type, body) ==
  CASE type = "api-key" -> {body.header, body.api_key} \intersect Unfit = {}
    [] type = "oauth-bearer" -> body.access_token \notin Unfit
    [] type = "basic" -> TRUE
SchemeFor(type) == IF type = "api-key" THEN "none" ELSE IF type = "oauth-bearer" THEN "Bearer" ELSE "Basic"
HeaderFor(type, body) ==
  [scheme |-> SchemeFor(type),
   field |-> IF type = "api-key" THEN body.header ELSE "authorization",
   value |-> Bodies!Value(type, body)]

LEMMA PresentedIs ==
  ASSUME BodyConstants, NEW type \in Bodies!BuiltIn, NEW body,
         \A m \in Bodies!Needed[type] : m \in DOMAIN body /\ body[m] \in Texts \ {""},
         type = "oauth-bearer" => body.token_type = "Bearer", OfOneType(type, body)
  PROVE  Bodies!Presented(body) = IF Sendable(type, body) THEN HeaderFor(type, body) ELSE None
<1>1. Bodies!TypeBy(body) = type
  <2>1. CASE type = "oauth-bearer"
    BY <2>1, TypesAre DEF Bodies!TypeBy, Bodies!At
  <2>2. CASE type = "api-key"
    <3>1. {"api_key", "header", "credential_id", "expires_at"} \subseteq DOMAIN body
      BY <2>2, TypesAre
    <3>2. ~("access_token" \in DOMAIN body /\ "token_type" \in DOMAIN body)
      <4>1. ~(Bodies!Needed["oauth-bearer"] \subseteq DOMAIN body)
        BY <2>2, TypesAre DEF OfOneType
      <4> QED BY <3>1, <4>1, TypesAre
    <3>3. ~("access_token" \in DOMAIN body /\ Bodies!At(body, "token_type") = "Bearer")
      BY <3>2 DEF Bodies!At, BodyConstants
    <3> QED BY <2>2, <3>1, <3>3 DEF Bodies!TypeBy
  <2>3. CASE type = "basic"
    <3>1. {"username", "password", "credential_id", "expires_at"} \subseteq DOMAIN body
      BY <2>3, TypesAre
    <3>2. /\ ~("access_token" \in DOMAIN body /\ "token_type" \in DOMAIN body)
          /\ ~("api_key" \in DOMAIN body /\ "header" \in DOMAIN body)
      <4>1. /\ ~(Bodies!Needed["oauth-bearer"] \subseteq DOMAIN body)
            /\ ~(Bodies!Needed["api-key"] \subseteq DOMAIN body)
        BY <2>3, TypesAre DEF OfOneType
      <4> QED BY <3>1, <4>1, TypesAre
    <3>3. ~("access_token" \in DOMAIN body /\ Bodies!At(body, "token_type") = "Bearer")
      BY <3>2 DEF Bodies!At, BodyConstants
    <3> QED BY <2>3, <3>1, <3>2, <3>3 DEF Bodies!TypeBy
  <2> QED BY <2>1, <2>2, <2>3, TypesAre
<1>2. CASE type = "oauth-bearer"
  <2>1. Bodies!Value(type, body) = body.access_token
    BY <1>2, TypesAre DEF Bodies!Value
  <2> QED BY <1>1, <1>2, <2>1 DEF Bodies!Presented, Sendable, HeaderFor, SchemeFor
<1>3. CASE type = "api-key"
  <2>1. Bodies!Value(type, body) = body.api_key
    BY <1>3, TypesAre DEF Bodies!Value
  <2> QED BY <1>1, <1>3, <2>1 DEF Bodies!Presented, Sendable, HeaderFor, SchemeFor
<1>4. CASE type = "basic"
  BY <1>1, <1>4 DEF Bodies!Presented, Sendable, HeaderFor, SchemeFor
<1> QED BY <1>2, <1>3, <1>4, TypesAre

(* What a Service grants, the Agent can take, under the identifier and     *)
(* until the time that the Service has on record, and what it presents the *)
(* Service recognizes, unless it could not be sent as it is; the record is *)
(* sound and has no secret in it.  Of all other records that a Grant makes *)
(* the same presentation only matches those of the same type and the same  *)
(* value (storedBuiltInGrantType's grant and credentialMatchesHeaders, and *)
(* credentialPresentationHeaders).  The body must not have the members of  *)
(* another type as well.                                                   *)
THEOREM GrantedIsRecognized ==
  ASSUME BodyConstants, NEW type, NEW issued, NEW agent, NEW salt, NEW headers, OfOneType(type, issued),
         Bodies!Grant(type, issued, agent, salt, headers) # None
  PROVE  LET granted == Bodies!Grant(type, issued, agent, salt, headers)
             taken   == Bodies!Taken(type, granted.body)
             sent    == Bodies!Presented(taken.credential) IN
         /\ Bodies!Sound(granted.record) /\ Bodies!Secret[type] \notin DOMAIN granted.record.credential
         /\ taken.credentialId = granted.record.credentialId /\ taken.expiresAt = granted.record.expiresAt
         /\ IF Sendable(type, issued) THEN Bodies!Matches(granted.record, sent) ELSE sent = None
         /\ Sendable(type, issued) =>
              \A t, other, by, grain, allowed :
                LET rival == Bodies!Grant(t, other, by, grain, allowed) IN
                rival # None /\ Bodies!Matches(rival.record, sent) =>
                  t = type /\ Bodies!Value(t, other) = Bodies!Value(type, issued)
<1> DEFINE body    == Bodies!Parsed(type, issued)
           granted == Bodies!Grant(type, issued, agent, salt, headers)
           record  == granted.record
           c       == record.credential
           taken   == Bodies!Taken(type, granted.body)
           sent    == Bodies!Presented(taken.credential)
<1>1. /\ body # None /\ granted.body = body
      /\ record.grantType = type /\ record.credentialId = body.credential_id
      /\ record.expiresAt = body.expires_at /\ c = Bodies!Stored(type, body, salt)
  BY GrantIs
<1>2. /\ type \in Bodies!BuiltIn
      /\ \A m \in Bodies!Needed[type] : m \in DOMAIN issued /\ issued[m] \in Texts \ {""}
      /\ DOMAIN body = DOMAIN issued \union {"scopes"} /\ \A m \in DOMAIN issued \ {"scopes"} : body[m] = issued[m]
      /\ issued.expires_at \in DateTimes /\ (type = "oauth-bearer" => issued.token_type = "Bearer")
      /\ body.scopes # None /\ Bodies!ToSet(body.scopes) \subseteq Texts
      /\ Bodies!Parsed(type, body) = body
  BY <1>1, ParsedIs
<1>3. /\ \A m \in Bodies!Needed[type] : m \in DOMAIN body /\ body[m] = issued[m] /\ body[m] \in Texts \ {""}
      /\ {"credential_id", "expires_at"} \subseteq Bodies!Needed[type]
      /\ type = "oauth-bearer" => body.token_type = "Bearer"
  <2>1. /\ "scopes" \notin Bodies!Needed[type] /\ {"credential_id", "expires_at"} \subseteq Bodies!Needed[type]
        /\ type = "oauth-bearer" => "token_type" \in Bodies!Needed[type]
    BY <1>2, TypesAre
  <2> QED BY <1>2, <2>1
<1>4. /\ DOMAIN c = Bodies!Kept[type] \union {"verifier"} /\ \A m \in Bodies!Kept[type] : c[m] = body[m]
      /\ c.verifier.salt = salt /\ c.verifier.digest = Digest(Bodies!Value(type, body), salt)
      /\ c.verifier # None
  <2> HIDE DEF body, c
  <2>1. IsStored(c, type, body, salt)
    BY <1>1, <1>2, StoredIs
  <2> QED BY <2>1 DEF IsStored
<1> HIDE DEF body, granted, record, c
<1>5. Bodies!Sound(record)
  <2>1. \A m \in {"scopes", "credential_id", "expires_at"} : m \in Bodies!Kept[type]
    BY <1>2, TypesAre
  <2>2. /\ Bodies!At(c, "scopes") = body.scopes /\ c.scopes = body.scopes
        /\ Bodies!At(c, "credential_id") = body.credential_id
        /\ Bodies!At(c, "expires_at") = body.expires_at /\ c.expires_at = body.expires_at
        /\ body.expires_at \in DateTimes
    BY <1>2, <1>3, <1>4, <2>1 DEF Bodies!At
  <2>3. type = "api-key" => Bodies!Filled(c, "header")
    BY <1>3, <1>4, TypesAre DEF Bodies!Filled, Bodies!At
  <2>4. type = "basic" => Bodies!Filled(c, "username")
    BY <1>3, <1>4, TypesAre DEF Bodies!Filled, Bodies!At
  <2>5. type = "oauth-bearer" => Bodies!At(c, "token_type") = "Bearer"
    BY <1>3, <1>4, TypesAre DEF Bodies!At
  <2>6. "verifier" \in DOMAIN c
    BY <1>4
  <2> QED BY <1>1, <1>2, <1>4, <2>2, <2>3, <2>4, <2>5, <2>6 DEF Bodies!Sound, c
<1>6. Bodies!Secret[type] \notin DOMAIN c
  BY <1>2, <1>4, TypesAre
<1>7. /\ taken.credentialId = record.credentialId /\ taken.expiresAt = record.expiresAt
      /\ taken.credential = body
  <2>1. Bodies!Filled(body, "credential_id") /\ Bodies!At(body, "expires_at") \in Texts
    BY <1>3 DEF Bodies!Filled, Bodies!At
  <2>2. taken = [credentialId |-> body.credential_id, credential |-> body, expiresAt |-> body.expires_at]
    BY <1>1, <1>2, <2>1 DEF Bodies!Taken
  <2> HIDE DEF taken
  <2> QED BY <1>1, <2>2
<1> HIDE DEF taken
<1>8. sent = IF Sendable(type, body) THEN HeaderFor(type, body) ELSE None
  <2>1. OfOneType(type, body)
    <3>1. \A t \in Bodies!BuiltIn : "scopes" \notin Bodies!Needed[t]
      BY TypesAre
    <3>2. \A t \in Bodies!BuiltIn : Bodies!Needed[t] \subseteq DOMAIN body => Bodies!Needed[t] \subseteq DOMAIN issued
      BY <1>2, <3>1
    <3> QED BY <3>2 DEF OfOneType
  <2> QED BY <1>2, <1>3, <1>7, <2>1, PresentedIs
<1>9. (Sendable(type, body) <=> Sendable(type, issued)) /\ Bodies!Value(type, body) = Bodies!Value(type, issued)
  BY <1>2, <1>3, TypesAre DEF Sendable, Bodies!Value
<1>10. ASSUME Sendable(type, body) PROVE Bodies!Matches(record, sent)
  <2>0. sent = HeaderFor(type, body)
    BY <1>8, <1>10
  <2> HIDE DEF sent
  <2>1. /\ sent.value = Bodies!Value(type, body) /\ sent.scheme = SchemeFor(type)
        /\ sent.field = IF type = "api-key" THEN body.header ELSE "authorization"
    BY <2>0 DEF HeaderFor
  <2>2. Digest(sent.value, c.verifier.salt) = c.verifier.digest
    BY <1>4, <2>1
  <2>3. CASE type = "api-key"
    <3>1. c.header = body.header /\ sent.scheme = "none" /\ sent.field = body.header
      BY <1>4, <2>1, <2>3, TypesAre DEF SchemeFor
    <3> QED BY <1>1, <2>2, <2>3, <3>1 DEF Bodies!Matches, c
  <2>4. CASE type = "basic"
    <3>1. c.username = body.username /\ sent.scheme = "Basic"
      BY <1>4, <2>1, <2>4, TypesAre DEF SchemeFor
    <3>2. sent.value = (body.username \o ":") \o body.password
      BY <2>1, <2>4 DEF Bodies!Value
    <3>3. body.username \in Texts /\ body.password \in Texts
      BY <1>3, <2>4, TypesAre
    <3>4. Prefixed(sent.value, c.username \o ":")
      BY <3>1, <3>2, <3>3 DEF BodyConstants
    <3> QED BY <1>1, <2>2, <2>4, <3>1, <3>4 DEF Bodies!Matches, c
  <2>5. CASE type = "oauth-bearer"
    BY <1>1, <2>1, <2>2, <2>5 DEF Bodies!Matches, c, SchemeFor
  <2> QED BY <1>2, <2>3, <2>4, <2>5, TypesAre
<1>11. ASSUME Sendable(type, body), NEW t, NEW other, NEW by, NEW grain, NEW allowed,
              Bodies!Grant(t, other, by, grain, allowed) # None,
              Bodies!Matches(Bodies!Grant(t, other, by, grain, allowed).record, sent)
       PROVE  t = type /\ Bodies!Value(t, other) = Bodies!Value(type, issued)
  <2> DEFINE its == Bodies!Parsed(t, other)
             kept == Bodies!Grant(t, other, by, grain, allowed).record
  <2>1. its # None /\ kept.grantType = t /\ kept.credential = Bodies!Stored(t, its, grain)
    BY <1>11, GrantIs
  <2>2. /\ t \in Bodies!BuiltIn
        /\ \A m \in Bodies!Needed[t] : m \in DOMAIN other
        /\ \A m \in DOMAIN other \ {"scopes"} : its[m] = other[m]
    BY <2>1, ParsedIs
  <2> HIDE DEF its
  <2>3. /\ kept.credential.verifier.salt = grain
        /\ kept.credential.verifier.digest = Digest(Bodies!Value(t, its), grain)
    <3> HIDE DEF kept
    <3>1. IsStored(kept.credential, t, its, grain)
      BY <2>1, <2>2, StoredIs
    <3> QED BY <3>1 DEF IsStored
  <2>0. sent = HeaderFor(type, body)
    BY <1>8, <1>11
  <2> HIDE DEF sent, kept
  <2>4. sent.value = Bodies!Value(type, body) /\ sent.scheme = SchemeFor(type)
    BY <2>0 DEF HeaderFor
  <2>5. /\ Digest(sent.value, kept.credential.verifier.salt) = kept.credential.verifier.digest
        /\ CASE kept.grantType = "api-key" -> sent.scheme = "none"
             [] kept.grantType = "basic" -> sent.scheme = "Basic"
             [] OTHER -> sent.scheme = "Bearer"
    BY <1>11 DEF Bodies!Matches, kept
  <2>6. t = type
    BY <1>2, <2>1, <2>2, <2>4, <2>5, TypesAre DEF SchemeFor
  <2>7. Bodies!Value(t, its) = Bodies!Value(type, body)
    BY <2>3, <2>4, <2>5 DEF BodyConstants
  <2>8. Bodies!Value(t, its) = Bodies!Value(t, other)
    BY <2>2, TypesAre DEF Bodies!Value
  <2> QED BY <1>9, <2>6, <2>7, <2>8
<1> QED BY <1>5, <1>6, <1>7, <1>8, <1>9, <1>10, <1>11 DEF c, record, granted, taken

=============================================================================

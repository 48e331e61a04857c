-------------------------- MODULE ServiceCredentials --------------------------
(***************************************************************************)
(* Session credentials at a Service (packages/service/src/index.ts): the   *)
(* built-in stored grant types issue and save them, Revoke marks them, and *)
(* authenticateProtectedResource matches a request's headers against a     *)
(* list read from the credential store.  The issuer, the digests and the   *)
(* store are awaited, so calls interleave at every step.                   *)
(*                                                                         *)
(* A secret is a value a request may present; a salted verifier matches    *)
(* exactly its secret.  Enrollment and idempotency, which come before the  *)
(* handlers, are ServiceEnrollment's and CommandIdempotency's.             *)
(***************************************************************************)
EXTENDS Naturals, Sequences

CONSTANTS
  Calls, Agents, Ids, Secrets, Scopes, None,
  Handlers,  \* the grant types with a handler, in the order of their map
  Methods,   \* authenticationMethods, in the Service's order of preference
  MaxTime,   \* bound on the clock
  InitialStores  \* what the credential store may hold at the start

Types == {Handlers[i] : i \in 1..Len(Handlers)}

ASSUME MethodsAssumption ==
  /\ MaxTime \in Nat
  /\ Len(Handlers) \in Nat \ {0} /\ Len(Methods) \in Nat
  /\ \A i, j \in 1..Len(Handlers) : Handlers[i] = Handlers[j] => i = j
  /\ \A i \in 1..Len(Methods) : Methods[i] \in Types

VARIABLES
  now,        \* the Service's clock
  credential, \* the credential store: credential[id] is a record or None
  stage,      \* stage[c]: where call c is
  request,    \* request[c]: what call c asks for
  at,         \* at[c]: the handler or method call c is at
  started,    \* started[c]: the clock when call c began
  snapshot,   \* snapshot[c]: the list that Authenticate c has read
  principal,  \* principal[c]: the credential that Authenticate c settled on
  before      \* history: the store when call c began

vars == <<now, credential, stage, request, at, started, snapshot, principal, before>>

Records == [agent : Agents, type : Types, secret : Secrets, scope : Scopes,
            expires : 1..MaxTime + 1, revoked : BOOLEAN]
Stores == [Ids -> Records \union {None}]

ASSUME StoreAssumption == InitialStores \subseteq Stores /\ None \notin Records

Grants == [op : {"grant"}, agent : Agents, type : Types, id : Ids,
           secret : Secrets, scope : Scopes, expires : 1..MaxTime + 1]
OneType == [op : {"revoke"}, agent : Agents, type : Types, id : Ids \union {None}]
AllTypes == [op : {"revoke all"}, agent : Agents]
Presentations == [op : {"authenticate"}, secret : [Types -> Secrets \union {None}]]

Init ==
  /\ now = 0
  /\ credential \in InitialStores
  /\ stage = [c \in Calls |-> "idle"]
  /\ request = [c \in Calls |-> None]
  /\ at = [c \in Calls |-> 1]
  /\ started = [c \in Calls |-> 0]
  /\ snapshot = [c \in Calls |-> <<>>]
  /\ principal = [c \in Calls |-> None]
  /\ before = [c \in Calls |-> <<>>]

-----------------------------------------------------------------------------
Move(c, s) == stage' = [stage EXCEPT ![c] = s]

Begin(c, req, s) ==
  /\ stage[c] = "idle"
  /\ Move(c, s)
  /\ request' = [request EXCEPT ![c] = req]
  /\ started' = [started EXCEPT ![c] = now]
  /\ before' = [before EXCEPT ![c] = credential]
  /\ UNCHANGED <<now, credential, at, snapshot, principal>>

(* The clock advances.                                                     *)
Tick ==
  /\ now < MaxTime
  /\ now' = now + 1
  /\ UNCHANGED <<credential, stage, request, at, started, snapshot, principal, before>>

(* Grant: the issuer has answered, with whatever expiry it chose.          *)
GrantIssue(c, req) == Begin(c, req, "issued")

(* What is stored of an issued credential: a verifier for the secret.      *)
StoredOf(req) ==
  [agent |-> req.agent, type |-> req.type, secret |-> req.secret,
   scope |-> req.scope, expires |-> req.expires, revoked |-> FALSE]

(* The digest is computed and the record saved, unless the store has held  *)
(* that identifier before; then the handler throws and Grant fails.        *)
GrantSaveMutant(c) ==
  LET req == request[c] IN
  /\ stage[c] = "issued"
  /\ Move(c, "granted")
  /\ credential' = [credential EXCEPT ![req.id] = StoredOf(req)]
  /\ UNCHANGED <<now, request, at, started, snapshot, principal, before>>
GrantSaveReplacesRevoked(c) ==
  LET req == request[c]
      old == credential[req.id] IN
  /\ stage[c] = "issued"
  /\ IF old # None /\ ~old.revoked THEN Move(c, "failed") /\ UNCHANGED credential
     ELSE /\ Move(c, "granted")
          /\ credential' = [credential EXCEPT ![req.id] = StoredOf(req)]
  /\ UNCHANGED <<now, request, at, started, snapshot, principal, before>>
GrantSave(c) ==
  LET req == request[c] IN
  /\ stage[c] = "issued"
  /\ IF credential[req.id] # None THEN Move(c, "failed") /\ UNCHANGED credential
     ELSE /\ Move(c, "granted")
          /\ credential' = [credential EXCEPT ![req.id] = StoredOf(req)]
  /\ UNCHANGED <<now, request, at, started, snapshot, principal, before>>

-----------------------------------------------------------------------------
(* The store marks the records of an agent and grant type, or only one.    *)
Revokes(rec, agent, type) == rec # None /\ rec.agent = agent /\ rec.type = type
Revoked(agent, type, id) ==
  [i \in Ids |->
    IF Revokes(credential[i], agent, type) /\ id \in {i, None}
      THEN [credential[i] EXCEPT !.revoked = TRUE]
      ELSE credential[i]]

RevokeStart(c, req) == Begin(c, req, "revoking")

(* Revoke names a grant type: that handler revokes one credential or all.  *)
RevokeType(c) ==
  LET req == request[c] IN
  /\ stage[c] = "revoking" /\ req.op = "revoke"
  /\ credential' = Revoked(req.agent, req.type, req.id)
  /\ Move(c, "revoked")
  /\ UNCHANGED <<now, request, at, started, snapshot, principal, before>>

(* Revoke of all grant types awaits one handler after the other.           *)
RevokeNextMutant(c) ==
  LET req == request[c] IN
  /\ stage[c] = "revoking" /\ req.op = "revoke all"
  /\ credential' = Revoked(req.agent, Handlers[at[c]], None)
  /\ at' = [at EXCEPT ![c] = @ + 1]
  /\ IF at[c] + 1 >= Len(Handlers) THEN Move(c, "revoked") ELSE UNCHANGED stage
  /\ UNCHANGED <<now, request, started, snapshot, principal, before>>
RevokeNext(c) ==
  LET req == request[c] IN
  /\ stage[c] = "revoking" /\ req.op = "revoke all"
  /\ credential' = Revoked(req.agent, Handlers[at[c]], None)
  /\ at' = [at EXCEPT ![c] = @ + 1]
  /\ IF at[c] = Len(Handlers) THEN Move(c, "revoked") ELSE UNCHANGED stage
  /\ UNCHANGED <<now, request, started, snapshot, principal, before>>

(* A handler throws: what the handlers before it revoked stays revoked,    *)
(* and no response is recorded.                                            *)
RevokeThrows(c) ==
  /\ stage[c] = "revoking"
  /\ Move(c, "failed")
  /\ UNCHANGED <<now, credential, request, at, started, snapshot, principal, before>>

-----------------------------------------------------------------------------
(* A request presents a secret in the header of each type, and the clock   *)
(* is read once for all methods.                                           *)
AuthenticateStart(c, req) == Begin(c, req, "trying")

(* The handler of the method at hand lists the credentials of its type.    *)
AuthenticateList(c) ==
  /\ stage[c] = "trying" /\ at[c] <= Len(Methods)
  /\ Move(c, "matching")
  /\ snapshot' = [snapshot EXCEPT ![c] = credential]
  /\ UNCHANGED <<now, credential, request, at, started, principal, before>>

LiveMutant(rec, time) == rec.expires > time
Live(rec, time) == ~rec.revoked /\ rec.expires > time

(* The listed credentials that are live and match the presented secret.    *)
Matches(c) ==
  {i \in Ids :
    LET rec == snapshot[c][i] IN
    /\ rec # None
    /\ rec.type = Methods[at[c]]
    /\ Live(rec, started[c])
    /\ request[c].secret[rec.type] = rec.secret}

SameAuthorizationMutant(r, s) == TRUE
SameAuthorization(r, s) == r.agent = s.agent /\ r.scope = s.scope

(* The list has been matched, a verifier at a time.  Matches that differ   *)
(* in agent or scopes are refused; without a match the next method is up.  *)
AuthenticateMatch(c) ==
  LET list == snapshot[c]
      unambiguous ==
        \A i, j \in Matches(c) : SameAuthorization(list[i], list[j]) IN
  /\ stage[c] = "matching"
  /\ IF Matches(c) # {} /\ unambiguous
       THEN /\ \E i \in Matches(c) : principal' = [principal EXCEPT ![c] = i]
            /\ Move(c, "authenticated")
            /\ UNCHANGED at
       ELSE /\ at' = [at EXCEPT ![c] = @ + 1]
            /\ Move(c, "trying")
            /\ UNCHANGED principal
  /\ UNCHANGED <<now, credential, request, started, snapshot, before>>

(* Every method has been tried: the request is challenged.                 *)
AuthenticateFail(c) ==
  /\ stage[c] = "trying" /\ at[c] > Len(Methods)
  /\ Move(c, "challenged")
  /\ UNCHANGED <<now, credential, request, at, started, snapshot, principal, before>>

-----------------------------------------------------------------------------
Next ==
  \/ Tick
  \/ \E c \in Calls :
       \/ \E req \in Grants : GrantIssue(c, req)
       \/ GrantSave(c)
       \/ \E req \in OneType \union AllTypes : RevokeStart(c, req)
       \/ RevokeType(c) \/ RevokeNext(c) \/ RevokeThrows(c)
       \/ \E req \in Presentations : AuthenticateStart(c, req)
       \/ AuthenticateList(c) \/ AuthenticateMatch(c) \/ AuthenticateFail(c)

Spec == Init /\ [][Next]_vars

-----------------------------------------------------------------------------
TypeOK ==
  /\ now \in 0..MaxTime
  /\ credential \in Stores
  /\ stage \in [Calls -> {"idle", "issued", "granted", "failed", "revoking", "revoked",
                          "trying", "matching", "authenticated", "challenged"}]
  /\ request \in [Calls -> Grants \union OneType \union AllTypes \union Presentations \union {None}]
  /\ at \in [Calls -> 1..(Len(Handlers) + Len(Methods) + 1)]
  /\ started \in [Calls -> 0..MaxTime]
  /\ snapshot \in [Calls -> Stores \union {<<>>}]
  /\ principal \in [Calls -> Ids \union {None}]
  /\ before \in [Calls -> Stores \union {<<>>}]

(* A Grant answered with a secret has left the record of that very         *)
(* credential in the store, and no two such Grants share an identifier.    *)
GrantsAreRecorded ==
  \A c \in Calls :
    stage[c] = "granted" =>
      LET req == request[c]
          rec == credential[req.id] IN
      /\ rec # None
      /\ rec.agent = req.agent /\ rec.type = req.type /\ rec.secret = req.secret
      /\ \A d \in Calls : stage[d] = "granted" /\ request[d].id = req.id => c = d

(* Revocation is final: no later call, and no later Grant of the same      *)
(* identifier, makes a revoked credential live or changes its holder.      *)
RevocationIsFinal ==
  [][\A i \in Ids :
       credential[i] # None /\ credential[i].revoked => credential'[i] = credential[i]]_vars

(* A Revoke answered 200 has revoked every credential it names that was    *)
(* stored when it began, whatever ran between its handlers.                *)
RevokeCovers ==
  \A c \in Calls :
    stage[c] = "revoked" =>
      \A i \in Ids :
        LET rec == before[c][i]
            req == request[c] IN
        rec # None /\ rec.agent = req.agent
          /\ (req.op = "revoke" => rec.type = req.type /\ req.id \in {i, None})
          => credential[i].revoked

(* A request authenticates only with a credential that was not revoked     *)
(* when it began, had not expired by then, and whose secret it presented.  *)
AuthenticatedIsLive ==
  \A c \in Calls :
    stage[c] = "authenticated" =>
      LET rec == credential[principal[c]]
          old == before[c][principal[c]] IN
      /\ rec # None /\ rec.expires > started[c]
      /\ request[c].secret[rec.type] = rec.secret
      /\ old # None => ~old.revoked

(* A request whose secret belonged, throughout, to live credentials of two *)
(* agents is not authenticated by that method as either of them.           *)
AmbiguityRefused ==
  \A c \in Calls :
    stage[c] = "authenticated" =>
      \A i \in Ids :
        LET rec == credential[i]
            own == credential[principal[c]] IN
        /\ before[c][i] # None /\ Live(rec, started[c])
        /\ rec.type = own.type /\ rec.secret = own.secret
        => rec.agent = own.agent /\ rec.scope = own.scope
=============================================================================
